------------------------------- MODULE Pipeline -------------------------------
(***************************************************************************)
(* The daily run of airflow/dags/jaffle_pipeline.py over the dbt project:  *)
(* check_snowflake, dbt_deps, then one task for every model and one for    *)
(* the tests of every model that has any.  A task starts when all its      *)
(* parents have succeeded, is tried a second time when it fails, and is    *)
(* skipped when a parent has failed or was skipped.  The parents of a      *)
(* model come from the ref()s its file spells, and from nothing else.      *)
(*                                                                         *)
(* An attempt may fail having written its table: a post-hook raises, or a  *)
(* worker is lost, after the statement that dbt does not take back.        *)
(*                                                                         *)
(* Abstractions.  A staging build adds and replaces rows and keeps one row *)
(* for each key, and what arrived is free: Staging says which row.  Runs   *)
(* follow one another; two at once (nothing forbids them) are not covered. *)
(***************************************************************************)
EXTENDS Marts

CONSTANTS
    Model,     \* the models this instance has; closed under Refs
    Row        \* for each staging model the rows it may come to hold

Steps == {"check_snowflake", "dbt_deps"}
StagingModel == {"customers", "orders", "payments", "products", "stores", "order_items"}
Mart == {"dim_customers", "dim_products", "dim_stores", "dim_date", "fact_orders", "fact_order_items"}
Semantic == {"sem_jaffle", "sem_jaffle_secured"}

\* Mutant: two marts name a table they read and do not ref() it.
RefsLiteral(m) ==
    CASE m = "dim_customers"    -> {"customers", "orders"}
      [] m = "fact_orders"      -> {"orders", "payments"}
      [] m = "fact_order_items" -> {"order_items"}
      [] m = "dim_products"     -> {"products"}
      [] OTHER -> {}

\* The models whose ref() a model's file contains.  The semantic views name
\* their tables literally and ref() nothing.
Refs(m) ==
    CASE m = "dim_customers"       -> {"customers", "orders", "payments"}
      [] m = "fact_orders"         -> {"orders", "payments"}
      [] m = "dim_products"        -> {"products"}
      [] m = "dim_stores"          -> {"stores"}
      [] m = "fact_order_items"    -> {"order_items", "dim_products"}
      [] m = "sv_dim_customers"    -> {"dim_customers"}
      [] m = "sv_dim_date"         -> {"dim_date"}
      [] m = "sv_dim_products"     -> {"dim_products"}
      [] m = "sv_dim_stores"       -> {"dim_stores"}
      [] m = "sv_fact_orders"      -> {"fact_orders"}
      [] m = "sv_fact_order_items" -> {"fact_order_items"}
      [] OTHER -> {}

ASSUME ModelAssumption ==
    /\ Model \cap Steps = {}
    /\ \A m \in Model : Refs(m) \subseteq Model

\* Tables are finite, a payment has the columns the marts read, with a number or
\* NULL for its amount, and NULL is not a number.
ASSUME RowAssumption ==
    /\ Null \notin Int
    /\ \A m \in Model \cap StagingModel : IsFiniteSet(Row[m])
    /\ "payments" \in Model => \A p \in Row["payments"] :
           {"id", "order", "method", "amount"} \subseteq DOMAIN p /\ p.amount \in Int \cup {Null}

\* The relations a semantic view's TABLES clause names.
Named(m) ==
    CASE m = "sem_jaffle" ->
            {"dim_customers", "fact_orders", "fact_order_items", "dim_products", "dim_date", "dim_stores"}
      [] m = "sem_jaffle_secured" ->
            {"sv_dim_customers", "sv_fact_orders", "sv_fact_order_items", "sv_dim_products",
             "sv_dim_date", "sv_dim_stores"}
      [] OTHER -> {}

\* The models whose yml declares tests.
Tested == Model \cap (StagingModel \cup Mart)

Run(m)  == <<"run", m>>
Test(m) == <<"test", m>>

RunTask  == {Run(m) : m \in Model \cup Steps}
TestTask == {Test(m) : m \in Tested}
Task     == RunTask \cup TestTask

\* Mutant: tests beside the models instead of between them (AFTER_ALL).
ParentsUntested(t) ==
    CASE t = Run("check_snowflake") -> {}
      [] t = Run("dbt_deps")        -> {Run("check_snowflake")}
      [] t \in TestTask             -> {Run(t[2])}
      [] OTHER -> IF Refs(t[2]) = {} THEN {Run("dbt_deps")} ELSE {Run(m) : m \in Refs(t[2])}

\* check_connection >> dbt_deps >> dbt_build, and Cosmos's rendering of the
\* group: a model waits for the tests of the models it ref()s.
Parents(t) ==
    CASE t = Run("check_snowflake") -> {}
      [] t = Run("dbt_deps")        -> {Run("check_snowflake")}
      [] t \in TestTask             -> {Run(t[2])}
      [] OTHER -> IF Refs(t[2]) = {} THEN {Run("dbt_deps")}
                  ELSE {IF m \in Tested THEN Test(m) ELSE Run(m) : m \in Refs(t[2])}

VARIABLES
    state,     \* of each task in the present run, or in the last one
    table,     \* the rows of each staging table and mart
    exists     \* the models whose relation exists

vars == <<state, table, exists>>

Status == {"none", "waiting", "again", "done", "failed", "skipped"}
Over == {"none", "done", "failed", "skipped"}

OneRowPerKey(rows) == \A x, y \in rows : x.id = y.id => x = y

\* The gold tables hold rows of their queries; only the staging tables, which
\* merges keep up, need a word about what they hold.
TypeOK ==
    /\ state \in [Task -> Status]
    /\ DOMAIN table = Tested
    /\ \A m \in Tested \cap StagingModel : table[m] \subseteq Row[m] /\ OneRowPerKey(table[m])
    /\ exists \subseteq Model

Init ==
    /\ state = [t \in Task |-> "none"]
    /\ table = [m \in Tested |-> {}]
    /\ exists = {}

-----------------------------------------------------------------------------
(* What a model's build writes.                                            *)

\* Mutant: an incremental model without its unique_key appends.
MergedAppending(old, rows) == {new \in SUBSET rows : old \subseteq new}

\* MERGE on unique_key: every key keeps a row, and new keys come in.
Merged(old, rows) ==
    {new \in SUBSET rows : OneRowPerKey(new) /\ \A x \in old : \E y \in new : y.id = x.id}

Query(m) ==
    CASE m = "dim_customers"    -> DimCustomers(table["customers"], table["orders"], table["payments"])
      [] m = "fact_orders"      -> FactOrders(table["orders"], table["payments"])
      [] m = "fact_order_items" -> FactOrderItems(table["order_items"], table["dim_products"])
      [] m = "dim_products"     -> DimProducts(table["products"])
      [] m = "dim_stores"       -> DimStores(table["stores"])
      [] m = "dim_date"         -> DimDate

\* The statement of a model: a merge, a table replaced, or a view.
Write(m) ==
    /\ exists' = exists \cup {m}
    /\ \/ m \in StagingModel /\ \E rows \in Merged(table[m], Row[m]) :
             table' = [table EXCEPT ![m] = rows]
       \/ m \in Mart /\ table' = [table EXCEPT ![m] = Query(m)]
       \/ m \notin Tested /\ UNCHANGED table

\* The tests of m on what its table holds now.  accepted_values lets NULL pass,
\* and payment_method has no not_null test beside it; amount has.
Accepted(p) == p.method \in PaymentMethods \cup {Null} /\ p.amount # Null
Sound(m) ==
    /\ OneRowPerKey(table[m])
    /\ m = "payments" => \A p \in table[m] : Accepted(p)

-----------------------------------------------------------------------------
(* The run of a day.                                                       *)

Running == \E t \in Task : state[t] \notin Over

StartRun ==
    /\ ~Running
    /\ state' = [t \in Task |-> "waiting"]
    /\ UNCHANGED <<table, exists>>

Ready(t) == state[t] \in {"waiting", "again"} /\ \A p \in Parents(t) : state[p] = "done"

Succeed(t) == state' = [state EXCEPT ![t] = "done"]

\* retries: 1.
GoWrong(t) == state' = [state EXCEPT ![t] = IF @ = "waiting" THEN "again" ELSE "failed"]

\* The connection check and dbt deps write nothing.
Prepare(s) ==
    /\ Ready(Run(s))
    /\ Succeed(Run(s))
    /\ UNCHANGED <<table, exists>>

\* A semantic view can only be created over relations that exist (those this
\* instance leaves out do).
Build(m) ==
    /\ Ready(Run(m))
    /\ Named(m) \cap Model \subseteq exists
    /\ Write(m)
    /\ Succeed(Run(m))

\* The statement is carried out and the attempt fails: its post-hook raises, or
\* its worker is gone before it answers.
BuildLost(m) ==
    /\ Ready(Run(m))
    /\ Named(m) \cap Model \subseteq exists
    /\ Write(m)
    /\ GoWrong(Run(m))

PassTest(m) ==
    /\ Ready(Test(m))
    /\ Sound(m)
    /\ Succeed(Test(m))
    /\ UNCHANGED <<table, exists>>

\* An attempt fails and leaves nothing behind: an unsound table under a test, a
\* missing relation, a lost connection.
FailAttempt(t) ==
    /\ Ready(t)
    /\ GoWrong(t)
    /\ UNCHANGED <<table, exists>>

\* Mutant: the rest of the run is given up with the first failure.
SkipAll(t) ==
    /\ state[t] = "waiting"
    /\ \E p \in Task : state[p] = "failed"
    /\ state' = [state EXCEPT ![t] = "skipped"]
    /\ UNCHANGED <<table, exists>>

\* Mutant: a skipped parent does not skip its child.
SkipFailedOnly(t) ==
    /\ state[t] = "waiting"
    /\ \E p \in Parents(t) : state[p] = "failed"
    /\ state' = [state EXCEPT ![t] = "skipped"]
    /\ UNCHANGED <<table, exists>>

\* Airflow's all_success: upstream_failed.
Skip(t) ==
    /\ state[t] = "waiting"
    /\ \E p \in Parents(t) : state[p] \in {"failed", "skipped"}
    /\ state' = [state EXCEPT ![t] = "skipped"]
    /\ UNCHANGED <<table, exists>>

TaskStep ==
    \/ \E s \in Steps : Prepare(s)
    \/ \E m \in Model : Build(m) \/ BuildLost(m)
    \/ \E m \in Tested : PassTest(m)
    \/ \E t \in Task : FailAttempt(t) \/ Skip(t)

Next == StartRun \/ TaskStep

Spec == Init /\ [][Next]_vars

\* The scheduler keeps working through a run, and every attempt comes to an end.
FairSpec == Spec /\ WF_vars(TaskStep)

-----------------------------------------------------------------------------
(* Properties.                                                             *)

\* From the moment a mart's task is done until the next day's run starts, the
\* mart is what its query returns over the tables it reads, whatever attempts
\* failed, wrote and were tried again meanwhile: the graph that the ref()s give
\* has every edge that the data needs.
DoneIsFresh == \A m \in Model \cap Mart : state[Run(m)] = "done" => table[m] = Query(m)

\* dim_customers.yml:43, `across all of the customer's orders`: two marts that
\* join payments each their own way agree on what a customer has paid.
RevenueAgrees ==
    (state[Run("dim_customers")] = "done" /\ state[Run("fact_orders")] = "done") =>
        \A c \in table["dim_customers"] :
            c.customer_lifetime_value =
                Sum({o \in table["fact_orders"] : o.customer = c.id /\ o.amount # Null})

\* At every moment, during runs that fail too, an order's total is the sum of
\* its parts by payment method: a payment by a method the list leaves out never
\* reaches the mart, since the tests of payments stand before it.  They let a
\* payment without any method through, which counts in the total and in no part.
MethodsAddUp ==
    \A o \in table["fact_orders"] :
        (o.amount # Null /\ \A p \in Row["payments"] : p.order = o.id => p.method # Null) =>
            o.amount = SumFunctionOnSet(o.by, PaymentMethods)

\* A line is priced with what SILVER says its product costs, through the copy
\* of the products that another task of the same run made.
LinesPriced ==
    state[Run("fact_order_items")] = "done" =>
        \A i \in table["order_items"], p \in table["products"] :
            p.id = i.product =>
                \E l \in table["fact_order_items"] :
                    l.id = i.id /\ l.line_total = i.quantity * p.price

\* What a task depends on, through any number of models.
Upstream[t \in Task] == Parents(t) \cup UNION {Upstream[p] : p \in Parents(t)}

\* A failure costs the run only what is built on it: no task is skipped but one
\* that depends on a task that failed.
SkippedBelowFailure ==
    \A t \in Task : state[t] = "skipped" => \E p \in Upstream[t] : state[p] = "failed"

\* Every run comes to its end, with no task left waiting for one that will not
\* succeed.
EveryRunEnds == Running ~> ~Running

\* jaffle_pipeline.py:106-107, `the semantic view builds after the marts it
\* ref()s`.
SemanticAfterMarts ==
    \A s \in Model \cap Semantic :
        state[Run(s)] = "done" => \A m \in Named(s) \cap Model : state[Run(m)] = "done"
=============================================================================
