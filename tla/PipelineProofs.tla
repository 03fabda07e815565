---------------------------- MODULE PipelineProofs ----------------------------
(***************************************************************************)
(* Proofs about Pipeline, for every set of models closed under ref() and   *)
(* every set of rows: a task that is done keeps all its parents done to    *)
(* the end of the run, so the tables under a finished mart stand still,    *)
(* and what it computed stays true of them.  What a table's tests accepted *)
(* stays accepted to the end of the run for the same reason, and with the  *)
(* sums of Sums it gives what the marts' totals come to.                   *)
(***************************************************************************)
EXTENDS Pipeline, Sums, TLAPS

\* A done task's parents are done.
Ordered == \A t \in Task : state[t] = "done" => \A p \in Parents(t) : state[p] = "done"

Shaped ==
    /\ state \in [Task -> Status]
    /\ DOMAIN table = Tested

PipeInv == Shaped /\ Ordered /\ DoneIsFresh

\* What a step of a run does to the states: one task that is not done moves,
\* and becomes done only if it was ready.
Moves(t) ==
    /\ t \in Task
    /\ state[t] \in {"waiting", "again"}
    /\ \E s \in Status :
          /\ state' = [state EXCEPT ![t] = s]
          /\ s = "done" => Ready(t)

-----------------------------------------------------------------------------

LEMMA TaskShape ==
    /\ \A m \in Model \cup Steps : Run(m) \in Task
    /\ \A m \in Tested : Test(m) \in Task /\ m \in Model
  BY DEF Task, RunTask, TestTask, Tested, Run, Test

\* The parents of a test are its model, those of a mart the tests of the
\* models it refers to.
LEMMA TestParents ==
    ASSUME NEW m \in Tested
    PROVE  Parents(Test(m)) = {Run(m)}
  <1>1. Test(m) \in TestTask /\ Test(m)[2] = m
    BY DEF TestTask, Test
  <1>2. Test(m) # Run("check_snowflake") /\ Test(m) # Run("dbt_deps")
    BY DEF Test, Run
  <1> QED
    BY <1>1, <1>2 DEF Parents

LEMMA MartParents ==
    ASSUME NEW m \in Model \cap Mart, NEW i \in Refs(m)
    PROVE  i \in Tested /\ Test(i) \in Parents(Run(m))
  <1>1. i \in Tested
    BY ModelAssumption DEF Tested, Refs, Mart, StagingModel
  <1>2. Run(m) # Run("check_snowflake") /\ Run(m) # Run("dbt_deps")
    BY DEF Run, Mart
  <1>3. Run(m) \notin TestTask /\ Run(m)[2] = m
    BY DEF Run, TestTask, Test
  <1>4. Parents(Run(m)) = {IF n \in Tested THEN Test(n) ELSE Run(n) : n \in Refs(m)}
    BY <1>2, <1>3 DEF Parents
  <1> QED
    BY <1>1, <1>4

\* Under a mart that is done everything it reads is done.
LEMMA InputsDone ==
    ASSUME Ordered, NEW m \in Model \cap Mart, state[Run(m)] = "done", NEW i \in Refs(m)
    PROVE  state[Run(i)] = "done"
  <1>1. i \in Tested /\ state[Test(i)] = "done"
    BY MartParents, TaskShape DEF Ordered
  <1> QED
    BY <1>1, TestParents, TaskShape DEF Ordered

LEMMA ReadyInputsDone ==
    ASSUME Ordered, NEW m \in Model \cap Mart, Ready(Run(m)), NEW i \in Refs(m)
    PROVE  state[Run(i)] = "done"
  <1>1. i \in Tested /\ state[Test(i)] = "done"
    BY MartParents DEF Ready
  <1> QED
    BY <1>1, TestParents, TaskShape DEF Ordered

\* A mart's query reads only the tables it refers to.
LEMMA QueryReads ==
    ASSUME NEW m \in Mart, \A i \in Refs(m) : table'[i] = table[i]
    PROVE  Query(m)' = Query(m)
  <1>1. CASE m = "dim_customers"    BY <1>1 DEF Query, Refs
  <1>2. CASE m = "fact_orders"      BY <1>2 DEF Query, Refs
  <1>3. CASE m = "fact_order_items" BY <1>3 DEF Query, Refs
  <1>4. CASE m = "dim_products"     BY <1>4 DEF Query, Refs
  <1>5. CASE m = "dim_stores"       BY <1>5 DEF Query, Refs
  <1>6. CASE m = "dim_date"         BY <1>6 DEF Query, Refs
  <1> QED
    BY <1>1, <1>2, <1>3, <1>4, <1>5, <1>6 DEF Mart

\* A move of one task leaves the finished ones finished, and in order.
LEMMA MovesKeepOrder ==
    ASSUME Shaped, Ordered, NEW t, Moves(t)
    PROVE  /\ state' \in [Task -> Status]
           /\ Ordered'
           /\ \A u \in Task : u # t => state'[u] = state[u]
  <1>1. PICK s \in Status : state' = [state EXCEPT ![t] = s] /\ (s = "done" => Ready(t))
    BY DEF Moves
  <1>2. t \in Task /\ state[t] # "done"
    BY DEF Moves
  <1>3. state' \in [Task -> Status] /\ \A u \in Task : u # t => state'[u] = state[u]
    BY <1>1 DEF Shaped
  <1>4. ASSUME NEW u \in Task, state'[u] = "done", NEW p \in Parents(u)
        PROVE  state'[p] = "done"
    <2>1. state[p] = "done"
      <3>1. CASE u = t  BY <1>1, <1>2, <1>4, <3>1 DEF Ready, Shaped
      <3>2. CASE u # t  BY <1>3, <1>4, <3>2 DEF Ordered
      <3> QED BY <3>1, <3>2
    <2> QED
      BY <1>1, <1>2, <2>1 DEF Shaped
  <1> QED
    BY <1>3, <1>4 DEF Ordered

\* The statement of n writes no table but n's, and a mart's table gets what its
\* query returns.
LEMMA WriteFrame ==
    ASSUME Shaped, NEW n, Write(n)
    PROVE  /\ DOMAIN table' = Tested
           /\ \A i \in Tested : i # n => table'[i] = table[i]
           /\ n \in Tested \cap Mart => table'[n] = Query(n)
  <1>1. CASE n \in StagingModel /\ \E rows \in Merged(table[n], Row[n]) :
                 table' = [table EXCEPT ![n] = rows]
    BY <1>1 DEF Shaped, StagingModel, Mart
  <1>2. CASE n \in Mart /\ table' = [table EXCEPT ![n] = Query(n)]
    BY <1>2 DEF Shaped
  <1>3. CASE n \notin Tested /\ UNCHANGED table
    BY <1>3 DEF Shaped
  <1> QED
    BY <1>1, <1>2, <1>3 DEF Write

\* A build, lost or not: the marts that are done do not read the table it
\* writes, since what they read was done before them.
LEMMA BuildKeepsFresh ==
    ASSUME PipeInv, NEW n \in Model, Ready(Run(n)), Moves(Run(n)), Write(n)
    PROVE  PipeInv'
  <1> USE DEF PipeInv
  <1>1. /\ state' \in [Task -> Status] /\ Ordered'
        /\ \A u \in Task : u # Run(n) => state'[u] = state[u]
    BY MovesKeepOrder
  <1>2. DOMAIN table' = Tested /\ \A i \in Tested : i # n => table'[i] = table[i]
    BY WriteFrame
  <1>3. state[Run(n)] # "done"
    BY DEF Moves
  <1>4. ASSUME NEW m \in Model \cap Mart, state'[Run(m)] = "done"
        PROVE  table'[m] = Query(m)'
    <2>1. \A i \in Refs(m) : state[Run(i)] = "done"
      <3>1. CASE m = n  BY <3>1, ReadyInputsDone
      <3>2. CASE m # n
        <4>1. Run(m) # Run(n) /\ Run(m) \in Task
          BY <3>2, TaskShape DEF Run
        <4> QED BY <4>1, <1>1, <1>4, InputsDone
      <3> QED BY <3>1, <3>2
    <2>2. \A i \in Refs(m) : i \in Tested /\ i # n
      BY <2>1, <1>3, MartParents
    <2>3. Query(m)' = Query(m)
      BY <2>2, <1>2, QueryReads
    <2>4. m \in Tested
      BY DEF Tested
    <2>5. CASE m = n
      BY <2>3, <2>4, <2>5, WriteFrame
    <2>6. CASE m # n
      <3>1. Run(m) # Run(n) /\ Run(m) \in Task
        BY <2>6, TaskShape DEF Run
      <3>2. table[m] = Query(m)
        BY <3>1, <1>1, <1>4 DEF DoneIsFresh
      <3> QED BY <3>2, <2>3, <2>4, <2>6, <1>2
    <2> QED BY <2>5, <2>6
  <1> QED
    BY <1>1, <1>2, <1>4 DEF Shaped, DoneIsFresh

\* A step that moves one task and writes nothing, when the task is no mart's
\* or does not become done.
LEMMA QuietKeepsFresh ==
    ASSUME PipeInv, NEW t, Moves(t), UNCHANGED table,
           \A m \in Model \cap Mart : Run(m) = t => state'[t] # "done"
    PROVE  PipeInv'
  <1> USE DEF PipeInv
  <1>1. state' \in [Task -> Status] /\ Ordered' /\ \A u \in Task : u # t => state'[u] = state[u]
    BY MovesKeepOrder
  <1>2. ASSUME NEW m \in Model \cap Mart, state'[Run(m)] = "done"
        PROVE  table'[m] = Query(m)'
    <2>1. Run(m) # t /\ Run(m) \in Task
      BY <1>2, TaskShape
    <2>2. table[m] = Query(m)
      BY <2>1, <1>1, <1>2 DEF DoneIsFresh
    <2>3. Query(m)' = Query(m)
      BY QueryReads
    <2> QED BY <2>2, <2>3
  <1> QED
    BY <1>1, <1>2 DEF Shaped, DoneIsFresh

LEMMA InitPipe == Init => PipeInv
  <1> SUFFICES ASSUME Init PROVE PipeInv
    OBVIOUS
  <1>1. Shaped
    BY DEF Init, Shaped, Status
  <1>2. \A t \in Task : state[t] # "done"
    BY DEF Init
  <1> QED
    BY <1>1, <1>2, TaskShape DEF PipeInv, Ordered, DoneIsFresh

LEMMA NextPipe == PipeInv /\ [Next]_vars => PipeInv'
  <1> SUFFICES ASSUME PipeInv, [Next]_vars PROVE PipeInv'
    OBVIOUS
  <1>0. state \in [Task -> Status]
    BY DEF PipeInv, Shaped
  <1>1. CASE StartRun
    <2>1. state' \in [Task -> Status] /\ UNCHANGED table /\ \A t \in Task : state'[t] # "done"
      BY <1>1 DEF StartRun, Status
    <2> QED
      BY <2>1, TaskShape DEF PipeInv, Shaped, Ordered, DoneIsFresh
  <1>2. ASSUME NEW n \in Steps, Prepare(n) PROVE PipeInv'
    <2>1. Moves(Run(n)) /\ UNCHANGED table
      BY <1>2, TaskShape DEF Prepare, Succeed, Moves, Ready, Status
    <2>2. \A m \in Model \cap Mart : Run(m) # Run(n)
      BY ModelAssumption DEF Run
    <2> QED
      BY <2>1, <2>2, QuietKeepsFresh
  <1>3. ASSUME NEW n \in Model, Build(n) PROVE PipeInv'
    <2>1. Moves(Run(n)) /\ Ready(Run(n)) /\ Write(n)
      BY <1>3, TaskShape DEF Build, Succeed, Moves, Ready, Status
    <2> QED
      BY <2>1, BuildKeepsFresh
  <1>4. ASSUME NEW n \in Model, BuildLost(n) PROVE PipeInv'
    <2>1. Moves(Run(n)) /\ Ready(Run(n)) /\ Write(n)
      BY <1>4, TaskShape DEF BuildLost, GoWrong, Moves, Ready, Status
    <2> QED
      BY <2>1, BuildKeepsFresh
  <1>5. ASSUME NEW n \in Tested, PassTest(n) PROVE PipeInv'
    <2>1. Moves(Test(n)) /\ UNCHANGED table
      BY <1>5, TaskShape DEF PassTest, Succeed, Moves, Ready, Status
    <2>2. \A m : Run(m) # Test(n)
      BY DEF Run, Test
    <2> QED
      BY <2>1, <2>2, QuietKeepsFresh
  <1>6. ASSUME NEW t \in Task, FailAttempt(t) PROVE PipeInv'
    <2>1. Moves(t) /\ UNCHANGED table /\ state'[t] # "done"
      BY <1>0, <1>6 DEF FailAttempt, GoWrong, Moves, Ready, Status
    <2> QED
      BY <2>1, QuietKeepsFresh
  <1>7. ASSUME NEW t \in Task, Skip(t) PROVE PipeInv'
    <2>1. Moves(t) /\ UNCHANGED table /\ state'[t] # "done"
      BY <1>0, <1>7 DEF Skip, Moves, Status
    <2> QED
      BY <2>1, QuietKeepsFresh
  <1>8. CASE UNCHANGED vars
    <2>1. UNCHANGED <<state, table>>
      BY <1>8 DEF vars
    <2>2. \A m \in Model \cap Mart : Query(m)' = Query(m)
      BY <2>1, QueryReads
    <2> QED
      BY <2>1, <2>2 DEF PipeInv, Shaped, Ordered, DoneIsFresh
  <1> QED
    BY <1>1, <1>2, <1>3, <1>4, <1>5, <1>6, <1>7, <1>8 DEF Next, TaskStep

\* A mart whose task is done equals its query over the tables it reads until the
\* next run starts, for any models closed under ref() and any failures.
THEOREM DoneMartsAreFresh == Spec => []DoneIsFresh
  <1>1. PipeInv => DoneIsFresh
    BY DEF PipeInv
  <1> QED
    BY <1>1, InitPipe, NextPipe, PTL DEF Spec

-----------------------------------------------------------------------------
(* What the tables hold.                                                   *)

Keyed ==
    /\ \A m \in Tested \cap StagingModel : table[m] \subseteq Row[m] /\ OneRowPerKey(table[m])
    /\ exists \subseteq Model

LEMMA WriteKeeps ==
    ASSUME Shaped, Keyed, NEW n \in Model, Write(n)
    PROVE  Keyed'
  <1>1. exists' \subseteq Model
    BY DEF Write, Keyed
  <1>2. ASSUME NEW m \in Tested \cap StagingModel, m # n
        PROVE  table'[m] \subseteq Row[m] /\ OneRowPerKey(table'[m])
    <2>1. table'[m] = table[m]
      BY <1>2, WriteFrame
    <2> QED
      BY <2>1 DEF Keyed
  <1>3. ASSUME n \in Tested \cap StagingModel
        PROVE  table'[n] \subseteq Row[n] /\ OneRowPerKey(table'[n])
    <2>1. n \notin Mart /\ n \in Tested
      BY <1>3 DEF StagingModel, Mart
    <2>2. PICK rows \in Merged(table[n], Row[n]) : table' = [table EXCEPT ![n] = rows]
      BY <2>1 DEF Write
    <2>3. rows \subseteq Row[n] /\ OneRowPerKey(rows)
      BY <2>2 DEF Merged
    <2>4. table'[n] = rows
      BY <2>1, <2>2 DEF Shaped
    <2> QED
      BY <2>3, <2>4
  <1> QED
    BY <1>1, <1>2, <1>3 DEF Keyed, OneRowPerKey

LEMMA KeyedHolds ==
    ASSUME PipeInv, Keyed, [Next]_vars
    PROVE  Keyed'
  <1>1. CASE UNCHANGED <<table, exists>>
    BY <1>1 DEF Keyed, OneRowPerKey
  <1>2. ASSUME NEW n \in Model, Build(n) \/ BuildLost(n) PROVE Keyed'
    BY <1>2, WriteKeeps DEF PipeInv, Build, BuildLost
  <1>3. CASE StartRun \/ UNCHANGED vars
    BY <1>1, <1>3 DEF StartRun, vars
  <1>4. CASE \/ \E s \in Steps : Prepare(s)
             \/ \E m \in Tested : PassTest(m)
             \/ \E t \in Task : FailAttempt(t) \/ Skip(t)
    BY <1>1, <1>4 DEF Prepare, PassTest, FailAttempt, Skip
  <1> QED
    BY <1>2, <1>3, <1>4 DEF Next, TaskStep

LEMMA KeyedStarts == Init => Keyed
  BY DEF Init, Keyed, OneRowPerKey

\* The tables have the rows of their models, and a staging table one for each key,
\* after any number of merges, builds that are lost and days (staging_scd1.sql).
THEOREM PipelineTypeCorrect == Spec => []TypeOK
  <1>1. PipeInv /\ Keyed => TypeOK
    BY DEF PipeInv, Shaped, Keyed, TypeOK
  <1> QED
    BY <1>1, InitPipe, NextPipe, KeyedStarts, KeyedHolds, PTL DEF Spec

\* For any products, lines and prices, and whatever failed on the way: when the lines
\* are built, each has the price that the staging table has of its product, since the copy
\* it is priced from is itself done and fresh (fact_order_items.sql, 15-26).
THEOREM LinesArePriced ==
    ASSUME "fact_order_items" \in Model
    PROVE  Spec => []LinesPriced
  <1>1. ASSUME PipeInv, Keyed, state[Run("fact_order_items")] = "done",
               NEW i \in table["order_items"], NEW p \in table["products"], p.id = i.product
        PROVE  \E l \in table["fact_order_items"] :
                   l.id = i.id /\ l.line_total = i.quantity * p.price
    <2>1. /\ Refs("fact_order_items") = {"order_items", "dim_products"}
          /\ Refs("dim_products") = {"products"}
      BY DEF Refs
    <2>2. "dim_products" \in Model /\ "products" \in Model
      BY <2>1, ModelAssumption
    <2>3. state[Run("dim_products")] = "done"
      BY <1>1, <2>1, InputsDone DEF PipeInv, Mart
    <2>4. table["dim_products"] = table["products"]
      BY <1>1, <2>2, <2>3 DEF PipeInv, DoneIsFresh, Mart, Query, DimProducts
    <2>5. table["fact_order_items"] = FactOrderItems(table["order_items"], table["products"])
      BY <1>1, <2>4 DEF PipeInv, DoneIsFresh, Mart, Query
    <2>6. OneRowPerKey(table["products"])
      BY <1>1, <2>2 DEF Keyed, Tested, StagingModel
    <2> DEFINE priced == {q \in table["products"] : q.id = i.product}
    <2>7. priced = {p}
      BY <1>1, <2>6 DEF OneRowPerKey
    <2>8. (CHOOSE q \in priced : TRUE) = p
      BY <2>7
    <2> DEFINE l == [id |-> i.id, unit_price |-> p.price, line_total |-> i.quantity * p.price]
    <2>9. l \in FactOrderItems(table["order_items"], table["products"])
      BY <2>7, <2>8 DEF FactOrderItems
    <2> QED
      BY <2>5, <2>9
  <1>2. PipeInv /\ Keyed => LinesPriced
    BY <1>1 DEF LinesPriced
  <1> QED
    BY <1>2, InitPipe, NextPipe, KeyedStarts, KeyedHolds, PTL DEF Spec

-----------------------------------------------------------------------------
(* What a failure costs.                                                   *)

\* The parents of a task are tasks.
LEMMA ParentsAreTasks ==
    ASSUME NEW t \in Task
    PROVE  Parents(t) \subseteq Task
  <1>1. Run("check_snowflake") \in Task /\ Run("dbt_deps") \in Task
    BY TaskShape DEF Steps
  <1>2. CASE t \in TestTask
    <2>1. PICK m \in Tested : t = Test(m)
      BY <1>2 DEF TestTask
    <2> QED
      BY <2>1, TestParents, TaskShape
  <1>3. ASSUME NEW m \in Model \cup Steps, t = Run(m)
        PROVE  Parents(t) \subseteq Task
    <2>1. t \notin TestTask /\ t[2] = m
      BY <1>3 DEF Run, TestTask, Test
    <2>2. CASE m = "check_snowflake"
      <3>1. t = Run("check_snowflake") /\ t # Run("dbt_deps")
        BY <1>3, <2>2 DEF Run
      <3> QED
        BY <2>1, <3>1 DEF Parents
    <2>3. CASE m = "dbt_deps"
      <3>1. t = Run("dbt_deps") /\ t # Run("check_snowflake")
        BY <1>3, <2>3 DEF Run
      <3> QED
        BY <1>1, <2>1, <3>1 DEF Parents
    <2>4. CASE m \in Model /\ m \notin Steps
      <3>1. t # Run("check_snowflake") /\ t # Run("dbt_deps")
        BY <1>3, <2>4 DEF Run, Steps
      <3>2. Parents(t) = IF Refs(m) = {} THEN {Run("dbt_deps")}
                         ELSE {IF n \in Tested THEN Test(n) ELSE Run(n) : n \in Refs(m)}
        BY <2>1, <3>1 DEF Parents
      <3>3. \A n \in Refs(m) : (IF n \in Tested THEN Test(n) ELSE Run(n)) \in Task
        BY <2>4, ModelAssumption, TaskShape
      <3> QED
        BY <1>1, <3>2, <3>3
    <2> QED
      BY <2>2, <2>3, <2>4 DEF Steps
  <1> QED
    BY <1>2, <1>3 DEF Task, RunTask

\* The parents of t and theirs are in each set that has the parents of t and of its members.
Closed(C) == \A c \in C : Parents(c) \subseteq C

Ancestors(t) ==
    {p \in Task : \A C \in SUBSET Task : Parents(t) \subseteq C /\ Closed(C) => p \in C}

LEMMA AncestorsUnfold ==
    ASSUME NEW t \in Task
    PROVE  Ancestors(t) = Parents(t) \cup UNION {Ancestors(p) : p \in Parents(t)}
  <1> DEFINE D == Parents(t) \cup UNION {Ancestors(p) : p \in Parents(t)}
  <1>1. \A p \in Parents(t) : Parents(p) \subseteq Ancestors(p)
    BY ParentsAreTasks DEF Ancestors
  <1>2. ASSUME NEW x \in D PROVE x \in Ancestors(t)
    BY ParentsAreTasks DEF Ancestors, Closed
  <1>3. D \in SUBSET Task
    BY ParentsAreTasks DEF Ancestors
  <1>4. Closed(D)
    <2> SUFFICES ASSUME NEW c \in D PROVE Parents(c) \subseteq D
      BY DEF Closed
    <2>1. CASE c \in Parents(t)
      BY <1>1, <2>1
    <2>2. ASSUME NEW p \in Parents(t), c \in Ancestors(p) PROVE Parents(c) \subseteq Ancestors(p)
      <3>1. Parents(c) \subseteq Task
        BY <2>2, ParentsAreTasks DEF Ancestors
      <3> QED
        BY <2>2, <3>1 DEF Ancestors, Closed
    <2> QED
      BY <2>1, <2>2
  <1>5. ASSUME NEW x \in Ancestors(t) PROVE x \in D
    <2> HIDE DEF D
    <2>1. Parents(t) \subseteq D
      BY DEF D
    <2> QED
      BY <1>3, <1>4, <2>1 DEF Ancestors
  <1> QED
    BY <1>2, <1>5

\* The recursive definition of Upstream has a solution, so Upstream is one.
LEMMA UpstreamUnfolds ==
    ASSUME NEW t \in Task
    PROVE  Upstream[t] = Parents(t) \cup UNION {Upstream[p] : p \in Parents(t)}
  <1> DEFINE Fits(f) == f = [u \in Task |-> Parents(u) \cup UNION {f[p] : p \in Parents(u)}]
             g == [u \in Task |-> Ancestors(u)]
  <1>1. Fits(g)
    <2>1. ASSUME NEW u \in Task
          PROVE  Ancestors(u) = Parents(u) \cup UNION {g[p] : p \in Parents(u)}
      <3>1. \A p \in Parents(u) : g[p] = Ancestors(p)
        BY ParentsAreTasks
      <3>2. {g[p] : p \in Parents(u)} = {Ancestors(p) : p \in Parents(u)}
        BY <3>1
      <3> QED
        BY <3>2, AncestorsUnfold
    <2> QED
      BY <2>1
  <1>2. Upstream = CHOOSE f : Fits(f)
    BY Zenon DEF Upstream
  <1>3. Fits(Upstream)
    <2> HIDE DEF Fits, g
    <2> QED
      BY <1>1, <1>2
  <1> QED
    BY <1>3, Zenon

\* A task that was skipped depends on a task of the run that failed.
SkippedBelow ==
    \A t \in Task : state[t] = "skipped" => \E p \in Task \cap Upstream[t] : state[p] = "failed"

LEMMA SkipsStayBelow ==
    ASSUME Shaped, SkippedBelow, [Next]_vars
    PROVE  SkippedBelow'
  <1>1. state \in [Task -> Status]
    BY DEF Shaped
  <1>2. CASE StartRun
    BY <1>2 DEF StartRun, SkippedBelow
  <1>3. ASSUME NEW t \in Task, Ready(t), NEW s \in {"done", "again", "failed"},
               state' = [state EXCEPT ![t] = s]
        PROVE  SkippedBelow'
    <2>1. state[t] # "failed" /\ \A u \in Task : state'[u] = IF u = t THEN s ELSE state[u]
      BY <1>1, <1>3 DEF Ready
    <2> QED
      BY <2>1 DEF SkippedBelow
  <1>4. ASSUME NEW t \in Task, Succeed(t) \/ GoWrong(t)
        PROVE  \E s \in {"done", "again", "failed"} : state' = [state EXCEPT ![t] = s]
    BY <1>4 DEF Succeed, GoWrong
  <1>5. ASSUME NEW t \in Task, Skip(t)
        PROVE  SkippedBelow'
    <2>1. /\ state[t] = "waiting"
          /\ \A u \in Task : state'[u] = IF u = t THEN "skipped" ELSE state[u]
      BY <1>1, <1>5 DEF Skip
    <2>2. PICK p \in Parents(t) : state[p] \in {"failed", "skipped"}
      BY <1>5 DEF Skip
    <2>3. p \in Task
      BY ParentsAreTasks
    <2>4. \E q \in Task \cap Upstream[t] : state[q] = "failed"
      <3>1. p \in Upstream[t] /\ Upstream[p] \subseteq Upstream[t]
        BY UpstreamUnfolds
      <3> QED
        BY <2>2, <2>3, <3>1 DEF SkippedBelow
    <2> QED
      BY <2>1, <2>4 DEF SkippedBelow
  <1>6. CASE TaskStep
    <2>1. ASSUME NEW n \in Steps, Prepare(n) PROVE SkippedBelow'
      BY <1>3, <1>4, <2>1, TaskShape DEF Prepare
    <2>2. ASSUME NEW n \in Model, Build(n) \/ BuildLost(n) PROVE SkippedBelow'
      BY <1>3, <1>4, <2>2, TaskShape DEF Build, BuildLost
    <2>3. ASSUME NEW n \in Tested, PassTest(n) PROVE SkippedBelow'
      BY <1>3, <1>4, <2>3, TaskShape DEF PassTest
    <2>4. ASSUME NEW t \in Task, FailAttempt(t) PROVE SkippedBelow'
      BY <1>3, <1>4, <2>4 DEF FailAttempt
    <2> QED
      BY <1>5, <1>6, <2>1, <2>2, <2>3, <2>4 DEF TaskStep
  <1>7. CASE UNCHANGED vars
    BY <1>7 DEF vars, SkippedBelow
  <1> QED
    BY <1>2, <1>6, <1>7 DEF Next

\* In whatever graph the ref()s give, however attempts fail: no task is skipped but below
\* a task that failed in the same run (Airflow's all_success; jaffle_pipeline.py, 57-117).
THEOREM SkipsAreBelowFailures == Spec => []SkippedBelowFailure
  <1>1. Init => SkippedBelow
    BY DEF Init, SkippedBelow
  <1>2. PipeInv => Shaped
    BY DEF PipeInv
  <1>3. PipeInv /\ SkippedBelow /\ [Next]_vars => SkippedBelow'
    BY <1>2, SkipsStayBelow
  <1>4. SkippedBelow => SkippedBelowFailure
    BY DEF SkippedBelow, SkippedBelowFailure
  <1> QED
    BY <1>1, <1>3, <1>4, InitPipe, NextPipe, PTL DEF Spec

-----------------------------------------------------------------------------
(* What the marts add up.                                                  *)

\* Once its tests have passed, a table stays as they found it.
TestedSound == \A m \in Tested : state[Test(m)] = "done" => Sound(m)

LEMMA TestsStand ==
    ASSUME PipeInv, TestedSound, [Next]_vars
    PROVE  TestedSound'
  <1>1. state \in [Task -> Status]
    BY DEF PipeInv, Shaped
  <1>2. CASE StartRun
    BY <1>2, TaskShape DEF StartRun, TestedSound
  <1>3. ASSUME NEW t \in Task, NEW s, state' = [state EXCEPT ![t] = s], UNCHANGED table,
               \A m \in Tested : t = Test(m) /\ s = "done" => Sound(m)
        PROVE  TestedSound'
    <2>1. ASSUME NEW m \in Tested, state'[Test(m)] = "done" PROVE Sound(m)
      <3>1. Test(m) \in Task
        BY TaskShape
      <3> QED
        BY <1>1, <1>3, <2>1, <3>1 DEF TestedSound
    <2>2. \A m \in Tested : Sound(m)' <=> Sound(m)
      BY <1>3 DEF Sound, OneRowPerKey
    <2> QED
      BY <2>1, <2>2 DEF TestedSound
  <1>4. ASSUME NEW n \in Model, Build(n) \/ BuildLost(n) PROVE TestedSound'
    <2>1. Ready(Run(n)) /\ Write(n) /\ \E s : state' = [state EXCEPT ![Run(n)] = s]
      BY <1>4 DEF Build, BuildLost, Succeed, GoWrong
    <2>2. ASSUME NEW m \in Tested, state'[Test(m)] = "done" PROVE Sound(m)'
      <3>1. state[Test(m)] = "done"
        BY <1>1, <2>1, <2>2 DEF Test, Run
      <3>2. state[Run(m)] = "done"
        BY <3>1, TestParents, TaskShape DEF PipeInv, Ordered
      <3>3. m # n
        BY <2>1, <3>2 DEF Ready
      <3>4. table'[m] = table[m]
        BY <2>1, <3>3, WriteFrame DEF PipeInv
      <3> QED
        BY <3>1, <3>4 DEF TestedSound, Sound, OneRowPerKey
    <2> QED
      BY <2>2 DEF TestedSound
  <1>5. ASSUME NEW n \in Steps, Prepare(n) PROVE TestedSound'
    <2>1. \A m : Test(m) # Run(n)
      BY DEF Test, Run
    <2> QED
      BY <1>3, <1>5, <2>1, TaskShape DEF Prepare, Succeed
  <1>6. ASSUME NEW n \in Tested, PassTest(n) PROVE TestedSound'
    <2>1. \A m : Test(m) = Test(n) => m = n
      BY DEF Test
    <2> QED
      BY <1>3, <1>6, <2>1, TaskShape DEF PassTest, Succeed
  <1>7. ASSUME NEW t \in Task, FailAttempt(t) \/ Skip(t) PROVE TestedSound'
    <2>1. PICK s \in {"again", "failed", "skipped"} : state' = [state EXCEPT ![t] = s]
      BY <1>7 DEF FailAttempt, GoWrong, Skip
    <2> QED
      BY <1>3, <1>7, <2>1 DEF FailAttempt, Skip
  <1>8. CASE UNCHANGED vars
    BY <1>8 DEF vars, TestedSound, Sound, OneRowPerKey
  <1> QED
    BY <1>2, <1>4, <1>5, <1>6, <1>7, <1>8 DEF Next, TaskStep

LEMMA TestsStart == Init => TestedSound
  BY TaskShape DEF Init, TestedSound

\* The marts read payments that their tests have accepted.
LEMMA PaymentsAccepted ==
    ASSUME PipeInv, Keyed, TestedSound, NEW m \in Model \cap {"dim_customers", "fact_orders"},
           Ready(Run(m)) \/ state[Run(m)] = "done"
    PROVE  /\ "payments" \in Model /\ "orders" \in Model
           /\ IsFiniteSet(table["payments"]) /\ IsFiniteSet(table["orders"])
           /\ OneRowPerKey(table["payments"]) /\ OneRowPerKey(table["orders"])
           /\ \A p \in table["payments"] :
                 /\ p \in Row["payments"] /\ Accepted(p)
                 /\ {"id", "order", "method", "amount"} \subseteq DOMAIN p /\ p.amount \in Int
  <1>1. {"payments", "orders"} \subseteq Refs(m) /\ m \in Mart
    BY DEF Refs, Mart
  <1>2. {"payments", "orders"} \subseteq Model \cap StagingModel \cap Tested
    BY <1>1, ModelAssumption DEF StagingModel, Tested
  <1>3. state[Test("payments")] = "done"
    <2>1. Test("payments") \in Parents(Run(m)) /\ Run(m) \in Task
      BY <1>1, MartParents, TaskShape
    <2> QED
      BY <2>1 DEF Ready, PipeInv, Ordered
  <1>4. \A p \in table["payments"] : Accepted(p)
    BY <1>2, <1>3 DEF TestedSound, Sound
  <1>5. \A i \in {"payments", "orders"} :
           table[i] \subseteq Row[i] /\ OneRowPerKey(table[i]) /\ IsFiniteSet(Row[i])
    BY <1>2, RowAssumption DEF Keyed
  <1>6. \A i \in {"payments", "orders"} : IsFiniteSet(table[i])
    BY <1>5, FS_Subset
  <1> QED
    BY <1>2, <1>4, <1>5, <1>6, RowAssumption DEF Accepted

-----------------------------------------------------------------------------

\* Over accepted payments each of which has a method, an order's amount is the sum of its
\* parts.
LEMMA PartsAddUp ==
    ASSUME NEW P, IsFiniteSet(P), OneRowPerKey(P), P # {},
           \A p \in P : /\ {"id", "order", "method", "amount"} \subseteq DOMAIN p
                        /\ p.amount \in Int /\ p.method \in PaymentMethods,
           NEW by,
           by = [m \in PaymentMethods |->
                    Sum({[p EXCEPT !.amount = IF p.method = m THEN @ ELSE 0] : p \in P})]
    PROVE  Sum(P) = SumFunctionOnSet(by, PaymentMethods)
  <1> DEFINE Part(m, p) == [p EXCEPT !.amount = IF p.method = m THEN @ ELSE 0]
             F == [p \in P |-> [m \in PaymentMethods |-> IF p.method = m THEN p.amount ELSE 0]]
             a == [p \in P |-> p.amount]
             Of(m) == [p \in P |-> F[p][m]]
  <1>1. IsFiniteSet(PaymentMethods)
    <2>1. IsFiniteSet({"credit_card"}) /\ IsFiniteSet({"coupon"})
          /\ IsFiniteSet({"bank_transfer"}) /\ IsFiniteSet({"gift_card"})
      BY FS_Singleton
    <2>2. IsFiniteSet({"credit_card"} \cup {"coupon"})
          /\ IsFiniteSet({"bank_transfer"} \cup {"gift_card"})
      BY <2>1, FS_Union
    <2>3. PaymentMethods = ({"credit_card"} \cup {"coupon"}) \cup
                           ({"bank_transfer"} \cup {"gift_card"})
      BY DEF PaymentMethods
    <2> QED
      BY <2>2, <2>3, FS_Union
  <1>2. \A p \in P, m \in PaymentMethods : F[p][m] \in Int
    OBVIOUS
  <1>3. ASSUME NEW m \in PaymentMethods
        PROVE  by[m] = SumFunctionOnSet(Of(m), P)
    <2> DEFINE r == [p \in P |-> Part(m, p)]
               S == {r[p] : p \in P}
               f == [q \in S |-> q.amount]
    <2>1. \A p \in P : r[p].amount = F[p][m] /\ r[p].id = p.id
      OBVIOUS
    <2>2. \A p, q \in P : r[p] = r[q] => p = q
      BY <2>1 DEF OneRowPerKey
    <2>3. \A p \in P : f[r[p]] = F[p][m] /\ f[r[p]] \in Int
      BY <2>1, <1>2
    <2>4. S # {} /\ S = {Part(m, p) : p \in P}
      OBVIOUS
    <2>5. by[m] = SumFunctionOnSet(f, S)
      BY <2>4 DEF Sum
    <2>6. SumFunctionOnSet(f, S) = SumFunctionOnSet([p \in P |-> f[r[p]]], P)
      <3> HIDE DEF f, r
      <3> QED BY <2>2, <2>3, SumRename
    <2>7. [p \in P |-> f[r[p]]] = Of(m)
      <3> HIDE DEF f, r, F
      <3> QED BY <2>3
    <2> QED
      BY <2>5, <2>6, <2>7
  <1>4. ASSUME NEW p \in P
        PROVE  SumFunctionOnSet(F[p], PaymentMethods) = p.amount
    <2> DEFINE m == p.method
               R == PaymentMethods \ {m}
               Zero == [x \in R |-> 0]
    <2>1. IsFiniteSet(R)
      BY <1>1, FS_Subset
    <2>2. m \in PaymentMethods /\ F[p][m] = p.amount /\ \A x \in R : F[p][x] = 0
      OBVIOUS
    <2>3. SumFunctionOnSet(F[p], PaymentMethods) = F[p][m] + SumFunctionOnSet(F[p], R)
      <3> HIDE DEF F
      <3> QED BY <1>1, <1>2, <2>2, SumAny
    <2>4. SumFunctionOnSet(F[p], R) = 0
      <3> HIDE DEF F, R
      <3>1. /\ SumFunctionOnSet(F[p], R) \in Nat
            /\ SumFunctionOnSet(F[p], R) > 0 <=> \E x \in R : F[p][x] > 0
        BY <2>1, <2>2, SumNat
      <3> QED BY <2>2, <3>1
    <2> QED
      <3> HIDE DEF F, R
      <3> QED BY <2>2, <2>3, <2>4
  <1>5. SumFunctionOnSet([p \in P |-> SumFunctionOnSet(F[p], PaymentMethods)], P) =
        SumFunctionOnSet([m \in PaymentMethods |-> SumFunctionOnSet(Of(m), P)], PaymentMethods)
    <2> HIDE DEF F
    <2> QED BY <1>1, <1>2, SumSwap
  <1>6. [p \in P |-> SumFunctionOnSet(F[p], PaymentMethods)] = a
    <2> HIDE DEF F
    <2> QED BY <1>4
  <1>7. [m \in PaymentMethods |-> SumFunctionOnSet(Of(m), P)] = by
    <2> HIDE DEF F, Of
    <2> QED BY <1>3
  <1>8. Sum(P) = SumFunctionOnSet(a, P)
    BY DEF Sum
  <1> QED
    <2> HIDE DEF F, Of, a
    <2> QED BY <1>5, <1>6, <1>7, <1>8

LEMMA OrdersAddUp ==
    ASSUME PipeInv, Keyed, TestedSound, MethodsAddUp, "fact_orders" \in Model, [Next]_vars
    PROVE  MethodsAddUp'
  <1>1. CASE table'["fact_orders"] = table["fact_orders"]
    BY <1>1 DEF MethodsAddUp
  <1>2. CASE /\ Ready(Run("fact_orders"))
             /\ table'["fact_orders"] = FactOrders(table["orders"], table["payments"])
    <2> DEFINE P == table["payments"]
    <2>1. /\ IsFiniteSet(P) /\ OneRowPerKey(P)
          /\ \A p \in P : /\ p \in Row["payments"] /\ Accepted(p)
                          /\ {"id", "order", "method", "amount"} \subseteq DOMAIN p
                          /\ p.amount \in Int
      BY <1>2, PaymentsAccepted
    <2> SUFFICES ASSUME NEW o \in table'["fact_orders"], o.amount # Null,
                        \A p \in Row["payments"] : p.order = o.id => p.method # Null
                 PROVE  o.amount = SumFunctionOnSet(o.by, PaymentMethods)
      BY DEF MethodsAddUp
    <2> DEFINE Paid(x) == {p \in P : p.order = x.id}
               By(x) ==
                   [m \in PaymentMethods |->
                       Sum({[p EXCEPT !.amount = IF p.method = m THEN @ ELSE 0] : p \in Paid(x)})]
    <2>2. PICK x \in table["orders"] :
             o = [id |-> x.id, customer |-> x.customer, amount |-> Sum(Paid(x)), by |-> By(x)]
      BY <1>2 DEF FactOrders
    <2>3. o.id = x.id /\ o.amount = Sum(Paid(x)) /\ o.by = By(x)
      BY <2>2
    <2>4. Paid(x) # {}
      BY <2>3 DEF Sum
    <2>5. IsFiniteSet(Paid(x)) /\ OneRowPerKey(Paid(x))
      BY <2>1, FS_Subset DEF OneRowPerKey
    <2>6. \A p \in Paid(x) : /\ {"id", "order", "method", "amount"} \subseteq DOMAIN p
                             /\ p.amount \in Int /\ p.method \in PaymentMethods
      BY <2>1, <2>3 DEF Accepted
    <2>7. Sum(Paid(x)) = SumFunctionOnSet(By(x), PaymentMethods)
      <3> HIDE DEF Paid
      <3> QED BY <2>4, <2>5, <2>6, PartsAddUp
    <2> QED
      BY <2>3, <2>7
  <1>3. ASSUME NEW n \in Model, Ready(Run(n)), Write(n)
        PROVE  MethodsAddUp'
    <2>1. "fact_orders" \in Tested \cap Mart
      BY DEF Tested, Mart
    <2>2. CASE n # "fact_orders"
      BY <1>1, <1>3, <2>1, <2>2, WriteFrame DEF PipeInv
    <2>3. CASE n = "fact_orders"
      BY <1>2, <1>3, <2>1, <2>3, WriteFrame DEF PipeInv, Query
    <2> QED
      BY <2>2, <2>3
  <1>4. CASE UNCHANGED table
    BY <1>1, <1>4
  <1>5. CASE StartRun \/ UNCHANGED vars
    BY <1>4, <1>5 DEF StartRun, vars
  <1>6. CASE TaskStep
    BY <1>3, <1>4, <1>6
       DEF TaskStep, Prepare, Build, BuildLost, PassTest, FailAttempt, Skip
  <1> QED
    BY <1>5, <1>6 DEF Next

\* For any payments and amounts, whatever fails: at every moment an order's total is the
\* sum of its parts by method, if no payment of the order comes without one.  The test task
\* between the models makes it so (fact_orders.sql, 1-32; payments.yml, 15-19).
THEOREM PartsMakeTheTotal ==
    ASSUME "fact_orders" \in Model
    PROVE  Spec => []MethodsAddUp
  <1>1. Init => MethodsAddUp
    BY DEF Init, MethodsAddUp, Tested, Mart
  <1> DEFINE I == PipeInv /\ Keyed /\ TestedSound /\ MethodsAddUp
  <1>2. Init => I
    BY <1>1, InitPipe, KeyedStarts, TestsStart
  <1>3. I /\ [Next]_vars => I'
    BY NextPipe, KeyedHolds, TestsStand, OrdersAddUp
  <1>4. I => MethodsAddUp
    OBVIOUS
  <1> HIDE DEF I
  <1> QED
    BY <1>2, <1>3, <1>4, PTL DEF Spec

\* What a customer has paid, through the orders, is the total of the orders' totals.
PaidThrough(O, P, c) ==
    Sum({p \in P : \E o \in {x \in O : x.customer = c} : p.order = o.id})

TotalOfOrders(orders, c) == Sum({g \in orders : g.customer = c /\ g.amount # Null})

LEMMA OrdersMakeRevenue ==
    ASSUME NEW O, IsFiniteSet(O), OneRowPerKey(O),
           NEW P, IsFiniteSet(P), \A p \in P : p.amount \in Int,
           Null \notin Int, NEW c
    PROVE  PaidThrough(O, P, c) = TotalOfOrders(FactOrders(O, P), c)
  <1> DEFINE Paid(x) == {p \in P : p.order = x.id}
             By(x) == [m \in PaymentMethods |->
                         Sum({[p EXCEPT !.amount = IF p.method = m THEN @ ELSE 0] : p \in Paid(x)})]
             OO == {x \in O : x.customer = c /\ Paid(x) # {}}
             row == [x \in OO |-> [id |-> x.id, customer |-> x.customer,
                                   amount |-> Sum(Paid(x)), by |-> By(x)]]
             PP == {p \in P : \E o \in {x \in O : x.customer = c} : p.order = o.id}
             G == {g \in FactOrders(O, P) : g.customer = c /\ g.amount # Null}
             a == [p \in PP |-> p.amount]
             key == [p \in PP |-> CHOOSE x \in OO : p.order = x.id]
             f == [g \in G |-> g.amount]
             total == [x \in OO |-> SumFunctionOnSet(a, {p \in PP : key[p] = x})]
  <1>1. IsFiniteSet(OO) /\ IsFiniteSet(PP)
    BY FS_Subset
  <1>2. \A p \in PP : a[p] = p.amount /\ a[p] \in Int
    OBVIOUS
  <1>3. ASSUME NEW p \in PP
        PROVE  key[p] \in OO /\ \A x \in OO : key[p] = x <=> p.order = x.id
    <2>1. \E x \in OO : p.order = x.id
      OBVIOUS
    <2>2. key[p] \in OO /\ p.order = key[p].id
      BY <2>1
    <2> QED
      BY <2>2 DEF OneRowPerKey
  <1>4. ASSUME NEW x \in OO
        PROVE  {p \in PP : key[p] = x} = Paid(x)
    <2>1. Paid(x) \subseteq PP
      OBVIOUS
    <2> HIDE DEF key, OO
    <2>2. \A p \in PP : key[p] = x <=> p.order = x.id
      BY <1>3
    <2> QED
      BY <2>1, <2>2
  <1>5. ASSUME NEW x \in OO
        PROVE  Sum(Paid(x)) = total[x] /\ total[x] \in Int
    <2>1. Sum(Paid(x)) = SumFunctionOnSet([p \in Paid(x) |-> p.amount], Paid(x))
      BY DEF Sum
    <2>2. IsFiniteSet(Paid(x)) /\ Paid(x) \subseteq PP
      BY FS_Subset
    <2>3. SumFunctionOnSet([p \in Paid(x) |-> p.amount], Paid(x)) = SumFunctionOnSet(a, Paid(x))
      <3> DEFINE b == [p \in Paid(x) |-> p.amount]
      <3>1. \A p \in Paid(x) : b[p] = a[p]
        BY <2>2
      <3> HIDE DEF Paid, a, b
      <3>2. SumFunctionOnSet(b, Paid(x)) = SumFunctionOnSet(a, Paid(x))
        BY <2>2, <3>1, SumAgree
      <3> QED BY <3>2 DEF b
    <2>4. total[x] = SumFunctionOnSet(a, Paid(x))
      <3>1. total[x] = SumFunctionOnSet(a, {p \in PP : key[p] = x})
        OBVIOUS
      <3> HIDE DEF total, key, Paid, PP, OO, a
      <3> QED BY <3>1, <1>4
    <2>5. SumFunctionOnSet(a, Paid(x)) \in Int
      <3> HIDE DEF Paid, a, PP
      <3> QED BY <1>2, <2>2, SumAny
    <2> HIDE DEF total, a
    <2> QED
      BY <2>1, <2>3, <2>4, <2>5
  <1>6. SumFunctionOnSet(a, PP) = SumFunctionOnSet(total, OO)
    <2>1. \A p \in PP : key[p] \in OO
      BY <1>3
    <2>2. SumFunctionOnSet(a, PP) =
             SumFunctionOnSet([x \in OO |-> SumFunctionOnSet(a, {p \in PP : key[p] = x})], OO)
      <3> HIDE DEF a, PP, key, OO
      <3> QED BY <1>1, <1>2, <2>1, SumGroups
    <2> QED
      BY <2>2
  <1>7. /\ \A x \in OO : /\ row[x].id = x.id /\ row[x].amount = Sum(Paid(x))
                         /\ row[x].customer = c
        /\ \A x, y \in OO : row[x] = row[y] => x = y
    <2>1. \A x \in OO : row[x].id = x.id /\ row[x].amount = Sum(Paid(x)) /\ row[x].customer = c
      OBVIOUS
    <2>2. \A x, y \in OO : x.id = y.id => x = y
      BY DEF OneRowPerKey
    <2> HIDE DEF row, OO, Paid
    <2> QED
      BY <2>1, <2>2
  <1>8. G = {row[x] : x \in OO}
    <2>1. ASSUME NEW g \in G PROVE g \in {row[x] : x \in OO}
      <3>1. PICK x \in O : g = [id |-> x.id, customer |-> x.customer,
                                amount |-> Sum(Paid(x)), by |-> By(x)]
        BY DEF FactOrders
      <3>2. x.customer = c /\ Sum(Paid(x)) # Null
        BY <3>1
      <3>3. Paid(x) # {}
        BY <3>2 DEF Sum
      <3>4. x \in OO /\ g = row[x]
        BY <3>1, <3>2, <3>3
      <3> QED
        BY <3>4
    <2>2. ASSUME NEW x \in OO PROVE row[x] \in G
      <3>1. row[x] \in FactOrders(O, P)
        BY DEF FactOrders
      <3>2. row[x].customer = c /\ row[x].amount \in Int
        <4> HIDE DEF row, total, OO, Paid
        <4> QED BY <1>5, <1>7
      <3> HIDE DEF row
      <3> QED
        BY <3>1, <3>2
    <2> HIDE DEF G, row, OO
    <2> QED
      BY <2>1, <2>2
  <1>9. SumFunctionOnSet(f, G) = SumFunctionOnSet(total, OO)
    <2>1. \A x \in OO : row[x] \in G /\ f[row[x]] = total[x] /\ f[row[x]] \in Int
      <3>1. \A g \in G : f[g] = g.amount
        OBVIOUS
      <3> HIDE DEF G, row, OO, f, total, Paid
      <3> QED BY <3>1, <1>5, <1>7, <1>8
    <2>2. total = [x \in OO |-> total[x]]
      OBVIOUS
    <2> HIDE DEF G, row, OO, f, total
    <2>3. SumFunctionOnSet(f, {row[x] : x \in OO}) = SumFunctionOnSet([x \in OO |-> f[row[x]]], OO)
      BY <1>1, <1>7, <2>1, SumRename
    <2>4. [x \in OO |-> f[row[x]]] = total
      BY <2>1, <2>2
    <2> QED
      BY <1>8, <2>3, <2>4
  <1>10. PP = {} <=> G = {}
    <2>1. PP = {} <=> OO = {}
      OBVIOUS
    <2> HIDE DEF G, OO, PP, row
    <2> QED
      BY <1>8, <2>1
  <1>11. Sum(PP) = IF PP = {} THEN Null ELSE SumFunctionOnSet(a, PP)
    BY DEF Sum
  <1>12. Sum(G) = IF G = {} THEN Null ELSE SumFunctionOnSet(f, G)
    BY DEF Sum
  <1> HIDE DEF G, PP, a, f
  <1>13. Sum(PP) = Sum(G)
    BY <1>6, <1>9, <1>10, <1>11, <1>12
  <1> QED
    BY <1>13 DEF G, PP, PaidThrough, TotalOfOrders

\* For any customers, orders, payments and amounts, whatever fails: when both marts are
\* built, a customer's lifetime value is the total of that customer's orders, NULL with NULL
\* (dim_customers.sql, 29-42; fact_orders.sql, 15-32).
THEOREM MartsAgreeOnRevenue ==
    ASSUME "dim_customers" \in Model, "fact_orders" \in Model
    PROVE  Spec => []RevenueAgrees
  <1>1. ASSUME PipeInv, Keyed, TestedSound,
               state[Run("dim_customers")] = "done", state[Run("fact_orders")] = "done",
               NEW d \in table["dim_customers"]
        PROVE  d.customer_lifetime_value =
                   Sum({o \in table["fact_orders"] : o.customer = d.id /\ o.amount # Null})
    <2> DEFINE O == table["orders"]
               P == table["payments"]
    <2>1. /\ IsFiniteSet(P) /\ IsFiniteSet(O) /\ OneRowPerKey(O)
          /\ \A p \in P : p.amount \in Int
      BY <1>1, PaymentsAccepted
    <2>2. /\ table["dim_customers"] = DimCustomers(table["customers"], O, P)
          /\ table["fact_orders"] = FactOrders(O, P)
      BY <1>1 DEF PipeInv, DoneIsFresh, Query, Mart
    <2>3. PICK c \in table["customers"] :
             d = [id |-> c.id,
                  number_of_orders |-> LET placed == {o \in O : o.customer = c.id}
                                       IN IF placed = {} THEN Null ELSE Cardinality(placed),
                  customer_lifetime_value |-> PaidThrough(O, P, c.id)]
      BY <2>2 DEF DimCustomers, PaidThrough
    <2>4. d.id = c.id /\ d.customer_lifetime_value = PaidThrough(O, P, c.id)
      BY <2>3
    <2>5. PaidThrough(O, P, c.id) = TotalOfOrders(FactOrders(O, P), c.id)
      <3> HIDE DEF O, P
      <3> QED BY <2>1, RowAssumption, OrdersMakeRevenue
    <2> QED
      BY <2>2, <2>4, <2>5 DEF TotalOfOrders
  <1>2. PipeInv /\ Keyed /\ TestedSound => RevenueAgrees
    BY <1>1 DEF RevenueAgrees
  <1> QED
    BY <1>2, InitPipe, NextPipe, KeyedStarts, KeyedHolds, TestsStart, TestsStand, PTL DEF Spec
=============================================================================
