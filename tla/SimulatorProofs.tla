--------------------------- MODULE SimulatorProofs ---------------------------
(***************************************************************************)
(* Theorems about Simulator, for every set of templates, arguments and     *)
(* count: no two events of a session carry the same key, and what a        *)
(* reference or a fallback says of earlier events.  What an event being    *)
(* filled in holds is compared with the events posted as well, so that     *)
(* posting it needs no argument of its own.                                *)
(***************************************************************************)
EXTENDS Simulator, TLAPS

USE SimulatorAssumption, NamesAssumption

Session ==
    /\ pc = "load" => data = << >>
    /\ pc \in Running => names # << >>
    /\ pc \in {"field", "post"} => sent < Count
    /\ \A f \in DOMAIN pools : pools[f] \subseteq Nat

\* A counter is past every value it gave.
Past(d) == d.kind = "sequence" => d.field \in DOMAIN seqs /\ d.value < seqs[d.field]

Differ(d, e) == d.kind = "sequence" /\ e.kind = "sequence" /\ d.field = e.field => d.value # e.value

Logged == DOMAIN log

LogPast == \A i \in Logged : \A d \in ToSet(log[i].data) : Past(d)

KeysInv ==
    /\ LogPast
    /\ \A d \in ToSet(data) : Past(d)
    /\ pc \in Running =>
           \A i \in Logged : \A d \in ToSet(log[i].data), e \in ToSet(data) : Differ(d, e)
    /\ KeysNeverRepeat

SimInv == TypeOK /\ Session /\ KeysInv

-----------------------------------------------------------------------------
(* Sequences and fields.                                                   *)

LEMMA InSet ==
    ASSUME NEW S, NEW s \in Seq(S)
    PROVE  ToSet(s) \subseteq S /\ ToSet(s) = {s[i] : i \in 1 .. Len(s)}
  BY DEF ToSet

LEMMA Elements ==
    ASSUME NEW S, NEW s \in Seq(S), NEW x \in S
    PROVE  /\ ToSet(Append(s, x)) = ToSet(s) \cup {x}
           /\ Append(s, x) \in Seq(S) /\ Len(Append(s, x)) = Len(s) + 1
           /\ \A i \in 1 .. Len(s) : Append(s, x)[i] = s[i]
           /\ Append(s, x)[Len(s) + 1] = x
  <1>1. Append(s, x) \in Seq(S) /\ Len(Append(s, x)) = Len(s) + 1 /\ Len(s) \in Nat
    OBVIOUS
  <1>2. \A i \in 1 .. Len(s) : Append(s, x)[i] = s[i]
    OBVIOUS
  <1>3. Append(s, x)[Len(s) + 1] = x
    OBVIOUS
  <1>4. 1 .. Len(s) + 1 = 1 .. Len(s) \cup {Len(s) + 1}
    BY <1>1
  <1>5. ToSet(Append(s, x)) = {Append(s, x)[i] : i \in 1 .. Len(s)} \cup {x}
    <2>1. ToSet(Append(s, x)) = {Append(s, x)[i] : i \in 1 .. Len(s) + 1}
      BY <1>1, InSet
    <2> QED
      BY <1>3, <1>4, <2>1
  <1>6. {Append(s, x)[i] : i \in 1 .. Len(s)} = ToSet(s)
    BY <1>2, InSet
  <1> QED
    BY <1>1, <1>2, <1>3, <1>5, <1>6

\* The field a step of the generator is at.
LEMMA FieldAt ==
    ASSUME TypeOK, Session, MoreFields
    PROVE  Fields \in Seq(FieldSpec) /\ Spec1 \in FieldSpec
  <1>1. /\ names \in Seq(Present) /\ names # << >> /\ sent \in Nat /\ Len(data) \in Nat
        /\ Len(data) < Len(Fields)
    BY DEF TypeOK, Session, MoreFields, Running
  <1>2. Len(names) \in Nat /\ Len(names) > 0
    BY <1>1
  <1>3. (sent % Len(names)) + 1 \in 1 .. Len(names)
    BY <1>1, <1>2
  <1>4. names[(sent % Len(names)) + 1] \in Present
    BY <1>1, <1>3
  <1>5. Fields \in Seq(FieldSpec)
    BY <1>4 DEF Fields
  <1> QED
    BY <1>1, <1>5 DEF Spec1

-----------------------------------------------------------------------------
(* The steps.                                                              *)

\* A field is filled in with d, and no posted value is d's.
LEMMA FillsKeep ==
    ASSUME SimInv, NEW d \in Datum,
           data' = Append(data, d), pc = "field", UNCHANGED <<pc, args, names, sent, log>>,
           \A f \in DOMAIN seqs' : seqs'[f] \in Nat, DOMAIN pools' = DOMAIN seqs',
           \A f \in DOMAIN pools' : pools'[f] \subseteq Nat,
           \A e \in Datum : Past(e) => Past(e)' /\ Differ(e, d),
           Past(d)'
    PROVE  SimInv'
  <1>1. data' \in Seq(Datum) /\ ToSet(data') = ToSet(data) \cup {d} /\ ToSet(data) \subseteq Datum
    BY Elements, InSet DEF SimInv, TypeOK
  <1>2. TypeOK' /\ Session'
    BY <1>1 DEF SimInv, TypeOK, Session
  <1>3. ASSUME NEW i \in Logged PROVE ToSet(log[i].data) \subseteq Datum
    <2>1. log[i] \in Post
      BY DEF SimInv, TypeOK, Logged
    <2> QED
      BY <2>1, InSet DEF Post
  <1>4. UNCHANGED log /\ pc \in Running /\ pc' = pc
    BY DEF Running
  <1>5. \A i \in Logged : \A x \in ToSet(log[i].data) : Past(x)'
    BY <1>3 DEF SimInv, KeysInv, LogPast
  <1>6. \A x \in ToSet(data') : Past(x)'
    BY <1>1 DEF SimInv, KeysInv
  <1>7. \A i \in Logged : \A x \in ToSet(log[i].data), e \in ToSet(data') : Differ(x, e)
    BY <1>1, <1>3, <1>4 DEF SimInv, KeysInv, LogPast
  <1>8. KeysInv'
    BY <1>4, <1>5, <1>6, <1>7 DEF SimInv, KeysInv, LogPast, KeysNeverRepeat, Logged, Past, Differ
  <1> QED
    BY <1>2, <1>8 DEF SimInv

\* The field at hand gets v, which is a new value if it is a counter's.
LEMMA PutIs ==
    ASSUME SimInv, MoreFields, NEW v \in Nat, NEW b \in BOOLEAN, Put(v, b)
    PROVE  \E d \in Datum : /\ data' = Append(data, d) /\ d.kind = Spec1.kind
                            /\ d.field = Spec1.field /\ d.value = v
                            /\ d.from = Spec1.from /\ d.fallback = b
  <1>1. Spec1 \in FieldSpec
    BY FieldAt DEF SimInv
  <1> DEFINE d == [field |-> Spec1.field, kind |-> Spec1.kind, from |-> Spec1.from,
                   value |-> v, fallback |-> b]
  <1>2. d \in Datum
    BY <1>1 DEF Datum, FieldSpec
  <1> QED
    BY <1>2 DEF Put

LEMMA CountedKeeps ==
    ASSUME SimInv, Counted
    PROVE  SimInv'
  <1> DEFINE f == Spec1.field
             val == IF f \in DOMAIN seqs THEN seqs[f] ELSE Spec1.lo
             pool == IF f \in DOMAIN pools THEN pools[f] ELSE {}
  <1>1. /\ MoreFields /\ Spec1.kind = "sequence" /\ Put(val, FALSE)
        /\ seqs' = With(seqs, f, val + 1) /\ pools' = With(pools, f, pool \cup {val})
        /\ UNCHANGED <<pc, args, names, sent, log>>
    BY DEF Counted
  <1>2. Spec1 \in FieldSpec
    BY <1>1, FieldAt DEF SimInv
  <1>3. f \in STRING /\ val \in Nat
    BY <1>2 DEF SimInv, TypeOK, FieldSpec
  <1>4. PICK d \in Datum : /\ data' = Append(data, d) /\ d.kind = "sequence"
                           /\ d.field = f /\ d.value = val
    <2>1. \E d \in Datum : /\ data' = Append(data, d) /\ d.kind = Spec1.kind
                           /\ d.field = Spec1.field /\ d.value = val
                           /\ d.from = Spec1.from /\ d.fallback = FALSE
      <3> HIDE DEF val
      <3> QED BY <1>1, <1>3, PutIs
    <2> QED
      BY <1>1, <2>1
  <1>5. pool \subseteq Nat /\ DOMAIN pools = DOMAIN seqs
    BY DEF SimInv, TypeOK, Session
  <1>6. f \in DOMAIN seqs => val = seqs[f]
    OBVIOUS
  <1> HIDE DEF f, val, pool
  <1>7. /\ DOMAIN seqs' = DOMAIN seqs \cup {f} /\ DOMAIN pools' = DOMAIN seqs'
        /\ seqs'[f] = val + 1 /\ \A g \in DOMAIN seqs : g # f => seqs'[g] = seqs[g]
        /\ pools'[f] = pool \cup {val} /\ \A g \in DOMAIN pools : g # f => pools'[g] = pools[g]
    BY <1>1, <1>5 DEF With
  <1>8. \A g \in DOMAIN seqs' : seqs'[g] \in Nat
    BY <1>3, <1>7 DEF SimInv, TypeOK
  <1>9. \A g \in DOMAIN pools' : pools'[g] \subseteq Nat
    BY <1>3, <1>5, <1>7 DEF SimInv, Session
  <1>10. ASSUME NEW e \in Datum, Past(e) PROVE Past(e)' /\ Differ(e, d)
    <2>1. CASE e.kind = "sequence" /\ e.field = f
      <3>1. e.value \in Nat /\ f \in DOMAIN seqs /\ e.value < val
        BY <1>6, <1>10, <2>1 DEF Past, Datum
      <3> QED
        BY <1>3, <1>4, <1>7, <2>1, <3>1 DEF Past, Differ
    <2>2. CASE e.kind # "sequence" \/ e.field # f
      BY <1>4, <1>7, <1>10, <2>2 DEF Past, Differ
    <2> QED
      BY <2>1, <2>2
  <1>11. Past(d)'
    BY <1>3, <1>4, <1>7 DEF Past
  <1> QED
    BY <1>1, <1>4, <1>7, <1>8, <1>9, <1>10, <1>11, FillsKeep DEF MoreFields

LEMMA OtherFieldKeeps ==
    ASSUME SimInv, Random \/ Referred
    PROVE  SimInv'
  <1>1. MoreFields /\ Spec1 \in FieldSpec /\ Spec1.kind # "sequence"
    BY FieldAt DEF SimInv, Random, Referred
  <1>2. UNCHANGED <<pc, args, names, seqs, pools, sent, log>>
    BY DEF Random, Referred
  <1>3. \E v \in Nat, b \in BOOLEAN : Put(v, b)
    <2>1. \A v \in Spec1.lo .. Spec1.hi : v \in Nat
      BY <1>1 DEF FieldSpec
    <2>2. Spec1.from \in DOMAIN pools => pools[Spec1.from] \subseteq Nat
      BY DEF SimInv, Session
    <2>3. CASE Random    BY <2>1, <2>3 DEF Random
    <2>4. CASE Referred  BY <2>1, <2>2, <2>4 DEF Referred
    <2> QED
      BY <2>3, <2>4
  <1>4. PICK d \in Datum : data' = Append(data, d) /\ d.kind = Spec1.kind
    BY <1>1, <1>3, PutIs
  <1>5. \A e \in Datum : Past(e) => Past(e)' /\ Differ(e, d)
    BY <1>1, <1>2, <1>4 DEF Past, Differ
  <1>6. Past(d)'
    BY <1>1, <1>4 DEF Past
  <1>7. /\ \A f \in DOMAIN seqs' : seqs'[f] \in Nat
        /\ DOMAIN pools' = DOMAIN seqs' /\ \A f \in DOMAIN pools' : pools'[f] \subseteq Nat
    BY <1>2 DEF SimInv, TypeOK, Session
  <1> QED
    BY <1>1, <1>2, <1>4, <1>5, <1>6, <1>7, FillsKeep DEF MoreFields

\* An event that joins the log has keys of its own.
LEMMA LogKeeps ==
    ASSUME SimInv, pc \in Running, NEW o \in Outcome, Log(o), UNCHANGED seqs
    PROVE  log' \in Seq(Post) /\ LogPast' /\ KeysNeverRepeat'
  <1> DEFINE p == [data |-> data, ok |-> o.ok, taken |-> o.taken]
  <1>1. p \in Post
    <2>1. o.ok \in BOOLEAN /\ o.taken \in BOOLEAN
      <3>1. CASE o = [ok |-> TRUE, taken |-> TRUE]   BY <3>1
      <3>2. CASE o = [ok |-> FALSE, taken |-> FALSE] BY <3>2
      <3>3. CASE o = [ok |-> FALSE, taken |-> TRUE]  BY <3>3
      <3> QED
        BY <3>1, <3>2, <3>3 DEF Outcome
    <2>2. data \in Seq(Datum)
      BY DEF SimInv, TypeOK
    <2> QED
      BY <2>1, <2>2 DEF Post
  <1>2. log \in Seq(Post) /\ Len(log) \in Nat /\ log' = Append(log, p)
    BY DEF SimInv, TypeOK, Log
  <1>3. /\ log' \in Seq(Post) /\ Len(log') = Len(log) + 1
        /\ \A i \in 1 .. Len(log) : log'[i] = log[i]
        /\ log'[Len(log) + 1].data = data
    BY <1>1, <1>2, Elements
  <1>4. Logged = 1 .. Len(log) /\ Logged' = 1 .. Len(log) + 1
    BY <1>2, <1>3 DEF Logged
  <1>5. \A i \in Logged' : i \in Logged \/ i = Len(log) + 1
    BY <1>2, <1>4
  <1>6. LogPast'
    BY <1>3, <1>4, <1>5 DEF SimInv, KeysInv, LogPast, Past
  <1>7. ASSUME NEW i \in Logged', NEW j \in Logged', i < j,
               NEW d \in ToSet(log'[i].data), NEW e \in ToSet(log'[j].data)
        PROVE  Differ(d, e)
    <2>1. i \in Logged /\ d \in ToSet(log[i].data)
      BY <1>2, <1>3, <1>4, <1>7
    <2>2. CASE j \in Logged
      BY <1>3, <1>4, <1>7, <2>1, <2>2 DEF SimInv, KeysInv, KeysNeverRepeat, Logged, Differ
    <2>3. CASE j = Len(log) + 1
      BY <1>3, <1>7, <2>1, <2>3 DEF SimInv, KeysInv
    <2> QED
      BY <1>5, <2>2, <2>3
  <1>8. KeysNeverRepeat'
    BY <1>7 DEF KeysNeverRepeat, Logged, Differ
  <1> QED
    BY <1>3, <1>6, <1>8

LEMMA PostEventKeeps ==
    ASSUME SimInv, PostEvent
    PROVE  SimInv'
  <1>1. PICK o \in Outcome : Log(o)
    BY DEF PostEvent
  <1>2. log' \in Seq(Post) /\ LogPast' /\ KeysNeverRepeat'
    BY <1>1, LogKeeps DEF PostEvent, Running
  <1>3. data' = << >> /\ ToSet(data') = {}
    BY DEF PostEvent, ToSet
  <1>4. TypeOK' /\ Session'
    BY <1>2, <1>3 DEF SimInv, PostEvent, TypeOK, Session, Running
  <1>5. KeysInv'
    BY <1>2, <1>3 DEF KeysInv
  <1> QED
    BY <1>4, <1>5 DEF SimInv

LEMMA InterruptKeeps ==
    ASSUME SimInv, Interrupt
    PROVE  SimInv'
  <1>1. log' \in Seq(Post) /\ LogPast' /\ KeysNeverRepeat'
    <2>1. CASE UNCHANGED log
      BY <2>1 DEF Interrupt, SimInv, TypeOK, KeysInv, LogPast, KeysNeverRepeat, Logged, Past
    <2>2. CASE Log([ok |-> FALSE, taken |-> TRUE])
      <3>1. [ok |-> FALSE, taken |-> TRUE] \in Outcome
        BY DEF Outcome
      <3> QED
        BY <2>2, <3>1, LogKeeps DEF Interrupt
    <2> QED
      BY <2>1, <2>2 DEF Interrupt
  <1>2. TypeOK' /\ Session'
    BY <1>1 DEF SimInv, Interrupt, TypeOK, Session, Running, Ended
  <1>3. KeysInv'
    BY <1>1 DEF SimInv, KeysInv, Interrupt, Running, Past
  <1> QED
    BY <1>2, <1>3 DEF SimInv

LEMMA LoadKeeps ==
    ASSUME SimInv, Load
    PROVE  SimInv'
  <1>1. data = << >> /\ ToSet(data) = {} /\ UNCHANGED <<args, seqs, pools, data, sent, log>>
    BY DEF SimInv, Session, Load, ToSet
  <1>2. \/ pc' = "exit" /\ UNCHANGED names
        \/ pc' = "next" /\ names' # << >> /\ names' \in Seq(Present)
    <2> DEFINE listed == IF args = << >> THEN AllTemplateNames ELSE args
    <2>1. (listed # << >> /\ ToSet(listed) \subseteq Present /\ names' = listed /\ pc' = "next")
          \/ (pc' = "exit" /\ UNCHANGED names)
      BY DEF Load
    <2>2. listed \in Seq(Present) \/ listed \in Seq(STRING)
      BY DEF SimInv, TypeOK
    <2> HIDE DEF listed
    <2>3. ToSet(listed) \subseteq Present => listed \in Seq(Present)
      BY <2>2, InSet
    <2> QED
      BY <2>1, <2>3
  <1>3. TypeOK' /\ Session'
    BY <1>1, <1>2 DEF SimInv, TypeOK, Session, Running, Ended
  <1>4. KeysInv'
    BY <1>1 DEF SimInv, KeysInv, LogPast, KeysNeverRepeat, Logged, Past
  <1> QED
    BY <1>3, <1>4 DEF SimInv

LEMMA QuietKeeps ==
    ASSUME SimInv, NextEvent \/ Raise \/ EndData \/ Finished \/ UNCHANGED vars
    PROVE  SimInv'
  <1>1. UNCHANGED <<args, names, seqs, pools, data, sent, log>>
    BY DEF NextEvent, Raise, EndData, Finished, vars
  <1>2. pc' = pc \/ (pc \in Running /\ pc' \in {"field", "post", "done", "raised"})
    BY DEF NextEvent, Raise, EndData, Finished, vars, Running, MoreFields
  <1>3. pc' \in {"field", "post"} => sent < Count
    BY DEF NextEvent, Raise, EndData, Finished, vars, MoreFields, SimInv, Session
  <1>4. TypeOK' /\ Session'
    BY <1>1, <1>2, <1>3 DEF SimInv, TypeOK, Session, Running, Ended
  <1>5. KeysInv'
    BY <1>1, <1>2 DEF SimInv, KeysInv, LogPast, KeysNeverRepeat, Logged, Past, Differ, Running
  <1> QED
    BY <1>4, <1>5 DEF SimInv

LEMMA InitSim == Init => SimInv
  BY DEF Init, SimInv, TypeOK, Session, KeysInv, LogPast, KeysNeverRepeat, Logged, Running, ToSet

LEMMA NextSim == SimInv /\ [Next]_vars => SimInv'
  BY CountedKeeps, OtherFieldKeeps, PostEventKeeps, InterruptKeeps, LoadKeeps, QuietKeeps
     DEF Next, Step

-----------------------------------------------------------------------------
\* The type invariant, for any templates, arguments and count (simulate.py:53-212).
THEOREM SimulatorTypeCorrect == Spec => []TypeOK
  <1>1. SimInv => TypeOK
    BY DEF SimInv
  <1> QED
    BY <1>1, InitSim, NextSim, PTL DEF Spec

\* Whatever templates count a field, in whatever order, and however posts fail, time out
\* or are interrupted, no key is posted twice (simulate.py:73-82).
THEOREM NoKeyRepeats == Spec => []KeysNeverRepeat
  <1>1. SimInv => KeysNeverRepeat
    BY DEF SimInv, KeysInv
  <1> QED
    BY <1>1, InitSim, NextSim, PTL DEF Spec

-----------------------------------------------------------------------------
(* References.                                                             *)

\* An event of the log has a field f with value v.
Carried(f, v) ==
    \E j \in Logged : \E e \in ToSet(log[j].data) : e.field = f /\ e.value = v

\* What a pool has was carried by a posted event or is in the one at hand, whose
\* fields are those of its template; what that one refers to was posted.
RefInv ==
    /\ ReferencesWerePosted
    /\ pc \in {"load", "next"} => data = << >>
    /\ pc = "load" => pools = << >>
    /\ pc \in Running =>
           /\ \A f \in DOMAIN pools : \A v \in pools[f] :
                 \/ Carried(f, v)
                 \/ \E e \in ToSet(data) : e.kind = "sequence" /\ e.field = f /\ e.value = v
           /\ \A d \in ToSet(data) : d.kind = "reference" /\ ~d.fallback => Carried(d.from, d.value)
           /\ \A d \in ToSet(data) : \E k \in DOMAIN Fields :
                 Fields[k].kind = d.kind /\ Fields[k].field = d.field

\* The event at hand is filled in from a template.
LEMMA OwnTemplate ==
    ASSUME SimInv, MoreFields
    PROVE  \E n \in Present : Fields = Template[n] /\ Spec1 = Template[n][Len(data) + 1]
                              /\ Len(data) + 1 \in DOMAIN Template[n]
  <1>1. /\ names \in Seq(Present) /\ names # << >> /\ sent \in Nat /\ Len(data) \in Nat
        /\ Len(data) < Len(Fields)
    BY DEF SimInv, TypeOK, Session, MoreFields, Running
  <1>2. Len(names) \in Nat /\ Len(names) > 0
    BY <1>1
  <1>3. (sent % Len(names)) + 1 \in 1 .. Len(names)
    BY <1>1, <1>2
  <1>4. names[(sent % Len(names)) + 1] \in Present
    BY <1>1, <1>3
  <1>5. Fields \in Seq(FieldSpec)
    BY <1>4 DEF Fields
  <1>6. Len(data) + 1 \in DOMAIN Fields
    BY <1>1, <1>5
  <1> QED
    BY <1>4, <1>6 DEF Fields, Spec1

LEMMA FillsKeepRefs ==
    ASSUME SimInv, RefInv, MoreFields, NEW d \in Datum, data' = Append(data, d),
           UNCHANGED <<pc, args, names, sent, log>>,
           d.kind = Spec1.kind, d.field = Spec1.field,
           d.kind = "reference" /\ ~d.fallback => Carried(d.from, d.value),
           \A f \in DOMAIN pools' : \A v \in pools'[f] :
               \/ f \in DOMAIN pools /\ v \in pools[f]
               \/ d.kind = "sequence" /\ f = d.field /\ v = d.value
    PROVE  RefInv'
  <1>1. ToSet(data') = ToSet(data) \cup {d}
    BY Elements DEF SimInv, TypeOK
  <1>2. Fields' = Fields /\ pc = "field" /\ pc \in Running
    BY DEF Fields, MoreFields, Running
  <1>3. Len(data) + 1 \in DOMAIN Fields /\ Spec1 = Fields[Len(data) + 1]
    BY OwnTemplate
  <1>4. \A f, v : Carried(f, v)' <=> Carried(f, v)
    BY DEF Carried, Logged
  <1>5. ReferencesWerePosted'
    BY DEF RefInv, ReferencesWerePosted
  <1>6. ASSUME NEW f \in DOMAIN pools', NEW v \in pools'[f]
        PROVE  \/ Carried(f, v)
               \/ \E e \in ToSet(data') : e.kind = "sequence" /\ e.field = f /\ e.value = v
    BY <1>1, <1>2, <1>6 DEF RefInv
  <1>7. ASSUME NEW e \in ToSet(data')
        PROVE  /\ e.kind = "reference" /\ ~e.fallback => Carried(e.from, e.value)
               /\ \E k \in DOMAIN Fields : Fields[k].kind = e.kind /\ Fields[k].field = e.field
    BY <1>1, <1>2, <1>3 DEF RefInv
  <1> QED
    BY <1>2, <1>4, <1>5, <1>6, <1>7 DEF RefInv

LEMMA CountedKeepsRefs ==
    ASSUME SimInv, RefInv, Counted
    PROVE  RefInv'
  <1> DEFINE f == Spec1.field
             val == IF f \in DOMAIN seqs THEN seqs[f] ELSE Spec1.lo
             pool == IF f \in DOMAIN pools THEN pools[f] ELSE {}
  <1>1. /\ MoreFields /\ Spec1.kind = "sequence" /\ Put(val, FALSE)
        /\ pools' = With(pools, f, pool \cup {val})
        /\ UNCHANGED <<pc, args, names, sent, log>>
    BY DEF Counted
  <1>2. Spec1 \in FieldSpec
    BY <1>1, FieldAt DEF SimInv
  <1>3. val \in Nat
    BY <1>2 DEF SimInv, TypeOK, FieldSpec
  <1>4. PICK d \in Datum : /\ data' = Append(data, d) /\ d.kind = "sequence"
                           /\ d.field = f /\ d.value = val
    <2>1. \E d \in Datum : /\ data' = Append(data, d) /\ d.kind = Spec1.kind
                           /\ d.field = Spec1.field /\ d.value = val
                           /\ d.from = Spec1.from /\ d.fallback = FALSE
      <3> HIDE DEF val
      <3> QED BY <1>1, <1>3, PutIs
    <2> QED
      BY <1>1, <2>1
  <1>5. f \in DOMAIN pools => pool = pools[f]
    OBVIOUS
  <1>6. f \notin DOMAIN pools => pool = {}
    OBVIOUS
  <1>7. f = Spec1.field
    OBVIOUS
  <1> HIDE DEF f, val, pool
  <1>8. \A g \in DOMAIN pools' : \A v \in pools'[g] :
            (g \in DOMAIN pools /\ v \in pools[g]) \/ (g = f /\ v = val)
    <2>1. DOMAIN pools' = DOMAIN pools \cup {f} /\ pools'[f] = pool \cup {val}
          /\ \A g \in DOMAIN pools : g # f => pools'[g] = pools[g]
      BY <1>1 DEF With
    <2> QED
      BY <2>1, <1>5, <1>6
  <1> QED
    BY <1>1, <1>4, <1>7, <1>8, FillsKeepRefs

LEMMA OtherFieldKeepsRefs ==
    ASSUME SimInv, RefInv, RefersToOthers, Random \/ Referred
    PROVE  RefInv'
  <1>1. MoreFields /\ Spec1 \in FieldSpec /\ Spec1.kind # "sequence"
    BY FieldAt DEF SimInv, Random, Referred
  <1>2. UNCHANGED <<pc, args, names, seqs, pools, sent, log>>
    BY DEF Random, Referred
  <1>3. PICK v \in Nat, b \in BOOLEAN :
            Put(v, b) /\ (Spec1.kind = "reference" /\ ~b => Carried(Spec1.from, v))
    <2>1. \A v \in Spec1.lo .. Spec1.hi : v \in Nat
      BY <1>1 DEF FieldSpec
    <2>2. CASE Random
      BY <2>1, <2>2 DEF Random
    <2>3. CASE Referred /\ Spec1.from \notin DOMAIN pools
      BY <2>1, <2>3 DEF Referred
    <2>4. CASE Referred /\ Spec1.from \in DOMAIN pools
      <3>1. PICK v \in pools[Spec1.from] : Put(v, FALSE)
        BY <2>4 DEF Referred
      <3>2. v \in Nat
        BY <2>4 DEF SimInv, Session
      <3>3. Spec1.kind = "reference" /\ pc \in Running
        BY <2>4 DEF Referred, MoreFields, Running
      <3>4. ASSUME NEW e \in ToSet(data), e.kind = "sequence", e.field = Spec1.from
            PROVE  FALSE
        <4>1. PICK k \in DOMAIN Fields : Fields[k].kind = "sequence" /\ Fields[k].field = Spec1.from
          BY <3>3, <3>4 DEF RefInv
        <4>2. PICK n \in Present : Fields = Template[n] /\ Spec1 = Template[n][Len(data) + 1]
                                   /\ Len(data) + 1 \in DOMAIN Template[n]
          BY <1>1, OwnTemplate
        <4> QED
          BY <3>3, <4>1, <4>2 DEF RefersToOthers
      <3>5. Carried(Spec1.from, v)
        BY <2>4, <3>3, <3>4 DEF RefInv
      <3> QED
        BY <3>1, <3>2, <3>5
    <2> QED
      BY <2>2, <2>3, <2>4
  <1>4. PICK d \in Datum : /\ data' = Append(data, d) /\ d.kind = Spec1.kind
                           /\ d.field = Spec1.field /\ d.value = v
                           /\ d.from = Spec1.from /\ d.fallback = b
    BY <1>1, <1>3, PutIs
  <1> QED
    BY <1>1, <1>2, <1>3, <1>4, FillsKeepRefs

\* An event joins the log, and what it carries is carried.
LEMMA LogKeepsRefs ==
    ASSUME SimInv, RefInv, pc \in Running, NEW o \in Outcome, Log(o)
    PROVE  /\ ReferencesWerePosted'
           /\ \A f, v : Carried(f, v) => Carried(f, v)'
           /\ \A e \in ToSet(data) : Carried(e.field, e.value)'
  <1> DEFINE p == [data |-> data, ok |-> o.ok, taken |-> o.taken]
  <1>1. p \in Post
    <2>1. o.ok \in BOOLEAN /\ o.taken \in BOOLEAN
      <3>1. CASE o = [ok |-> TRUE, taken |-> TRUE]   BY <3>1
      <3>2. CASE o = [ok |-> FALSE, taken |-> FALSE] BY <3>2
      <3>3. CASE o = [ok |-> FALSE, taken |-> TRUE]  BY <3>3
      <3> QED
        BY <3>1, <3>2, <3>3 DEF Outcome
    <2>2. data \in Seq(Datum)
      BY DEF SimInv, TypeOK
    <2> QED
      BY <2>1, <2>2 DEF Post
  <1>2. log \in Seq(Post) /\ Len(log) \in Nat /\ log' = Append(log, p)
    BY DEF SimInv, TypeOK, Log
  <1>3. /\ Len(log') = Len(log) + 1 /\ log' \in Seq(Post)
        /\ \A i \in 1 .. Len(log) : log'[i] = log[i]
        /\ log'[Len(log) + 1].data = data
    BY <1>1, <1>2, Elements
  <1>4. Logged = 1 .. Len(log) /\ Logged' = 1 .. Len(log) + 1
    BY <1>2, <1>3 DEF Logged
  <1>5. \A f, v : Carried(f, v) => Carried(f, v)'
    BY <1>2, <1>3, <1>4 DEF Carried
  <1>6. \A e \in ToSet(data) : Carried(e.field, e.value)'
    <2>1. Len(log) + 1 \in Logged'
      BY <1>2, <1>4
    <2> QED
      BY <1>3, <2>1 DEF Carried
  <1>7. ASSUME NEW i \in Logged', NEW d \in ToSet(log'[i].data),
               d.kind = "reference", ~d.fallback
        PROVE  \E j \in 1 .. i - 1 : \E e \in ToSet(log'[j].data) :
                   e.field = d.from /\ e.value = d.value
    <2>1. i \in 1 .. Len(log) \/ i = Len(log) + 1
      BY <1>2, <1>4
    <2>2. CASE i \in 1 .. Len(log)
      <3>1. PICK j \in 1 .. i - 1 : \E e \in ToSet(log[j].data) :
                   e.field = d.from /\ e.value = d.value
        BY <1>3, <1>4, <1>7, <2>2 DEF RefInv, ReferencesWerePosted, Logged
      <3>2. log'[j] = log[j]
        BY <1>2, <1>3, <2>2
      <3> QED
        BY <3>1, <3>2
    <2>3. CASE i = Len(log) + 1
      <3>1. d \in ToSet(data)
        BY <1>3, <1>7, <2>3
      <3>2. PICK j \in Logged : \E e \in ToSet(log[j].data) : e.field = d.from /\ e.value = d.value
        BY <1>7, <3>1 DEF RefInv, Carried
      <3>3. j \in 1 .. i - 1 /\ log'[j] = log[j]
        BY <1>2, <1>3, <1>4, <2>3, <3>2
      <3> QED
        BY <3>2, <3>3
    <2> QED
      BY <2>1, <2>2, <2>3
  <1>8. ReferencesWerePosted'
    BY <1>7 DEF ReferencesWerePosted, Logged
  <1> QED
    BY <1>5, <1>6, <1>8

LEMMA RefsKept ==
    ASSUME SimInv, RefInv, RefersToOthers, [Next]_vars
    PROVE  RefInv'
  <1>1. CASE PostEvent
    <2>1. PICK o \in Outcome : Log(o)
      BY <1>1 DEF PostEvent
    <2>2. pc \in Running /\ pc' = "next" /\ data' = << >> /\ ToSet(data') = {} /\ UNCHANGED pools
      BY <1>1 DEF PostEvent, Running, ToSet
    <2>3. /\ ReferencesWerePosted'
          /\ \A f, v : Carried(f, v) => Carried(f, v)'
          /\ \A e \in ToSet(data) : Carried(e.field, e.value)'
      BY <2>1, <2>2, LogKeepsRefs
    <2>4. \A f \in DOMAIN pools : \A v \in pools[f] : Carried(f, v)'
      BY <2>2, <2>3 DEF RefInv
    <2> QED
      BY <2>2, <2>3, <2>4 DEF RefInv
  <1>2. CASE Interrupt
    <2>1. pc \in Running /\ pc' = "done"
      BY <1>2 DEF Interrupt
    <2>2. CASE UNCHANGED log
      BY <2>1, <2>2 DEF RefInv, ReferencesWerePosted, Running
    <2>3. CASE Log([ok |-> FALSE, taken |-> TRUE])
      <3>1. [ok |-> FALSE, taken |-> TRUE] \in Outcome
        BY DEF Outcome
      <3> QED
        BY <2>1, <2>3, <3>1, LogKeepsRefs DEF RefInv, Running
    <2> QED
      BY <1>2, <2>2, <2>3 DEF Interrupt
  <1>3. CASE Load
    <2>1. /\ data = << >> /\ ToSet(data) = {} /\ pools = << >> /\ UNCHANGED <<pools, data, log>>
          /\ pc' \in {"next", "exit"}
      BY <1>3 DEF RefInv, Load, ToSet
    <2> QED
      BY <2>1 DEF RefInv, ReferencesWerePosted
  <1>4. CASE NextEvent \/ Raise \/ EndData \/ Finished \/ UNCHANGED vars
    <2>1. UNCHANGED <<args, names, seqs, pools, data, sent, log>>
      BY <1>4 DEF NextEvent, Raise, EndData, Finished, vars
    <2>2. pc' = pc \/ (pc \in Running /\ pc' \in {"field", "post", "done", "raised"})
      BY <1>4 DEF NextEvent, Raise, EndData, Finished, vars, Running, MoreFields
    <2>3. Fields' = Fields /\ (\A f, v : Carried(f, v)' <=> Carried(f, v))
      BY <2>1 DEF Fields, Carried, Logged
    <2> QED
      BY <2>1, <2>2, <2>3 DEF RefInv, ReferencesWerePosted, Running
  <1> QED
    BY <1>1, <1>2, <1>3, <1>4, CountedKeepsRefs, OtherFieldKeepsRefs DEF Next, Step

\* In a session of whatever templates, none of which refers to a key it counts itself: a
\* reference that is not a fallback has a value that an earlier post of the session carried
\* (simulate.py:103-108).
THEOREM ReferencesPostedBefore ==
    ASSUME RefersToOthers
    PROVE  Spec => []ReferencesWerePosted
  <1>1. Init => RefInv
    BY DEF Init, RefInv, ReferencesWerePosted, Running
  <1>2. SimInv /\ RefInv /\ [Next]_vars => RefInv'
    BY RefsKept
  <1>3. RefInv => ReferencesWerePosted
    BY DEF RefInv
  <1> QED
    BY <1>1, <1>2, <1>3, InitSim, NextSim, PTL DEF Spec

-----------------------------------------------------------------------------
(* Fallbacks.                                                              *)

\* No event of the log has a value that a counter of field f gave.
Uncounted(f) ==
    \A j \in Logged : \A e \in ToSet(log[j].data) : ~(e.kind = "sequence" /\ e.field = f)

\* A fallback of the event at hand stays one without a counted value before it: only
\* that event's own post joins the log.
FallInv ==
    /\ FallsBackOnlyUncounted
    /\ pc \in Running =>
           \A d \in ToSet(data) : d.kind = "reference" /\ d.fallback => Uncounted(d.from)

\* A field without a pool has no counter, and what the log has of it was not counted.
LEMMA NoPoolIsUncounted ==
    ASSUME SimInv, NEW f, f \notin DOMAIN pools
    PROVE  Uncounted(f)
  BY DEF SimInv, TypeOK, KeysInv, LogPast, Past, Uncounted

LEMMA FieldsKeepFall ==
    ASSUME SimInv, FallInv, Counted \/ Random \/ Referred
    PROVE  FallInv'
  <1>1. MoreFields /\ Spec1 \in FieldSpec /\ UNCHANGED <<pc, log>> /\ pc \in Running
    BY FieldAt DEF SimInv, Counted, Random, Referred, MoreFields, Running
  <1>2. PICK v \in Nat, b \in BOOLEAN : Put(v, b) /\ (b => Uncounted(Spec1.from))
    <2>1. \A v \in Spec1.lo .. Spec1.hi : v \in Nat
      BY <1>1 DEF FieldSpec
    <2>2. CASE Counted
      <3>1. Spec1.field \in DOMAIN seqs => seqs[Spec1.field] \in Nat
        BY DEF SimInv, TypeOK
      <3> QED
        BY <1>1, <2>2, <3>1 DEF Counted, FieldSpec
    <2>3. CASE Random
      BY <2>1, <2>3 DEF Random
    <2>4. CASE Referred /\ Spec1.from \in DOMAIN pools
      <3>1. pools[Spec1.from] \subseteq Nat
        BY <2>4 DEF SimInv, Session
      <3> QED
        BY <2>4, <3>1 DEF Referred
    <2>5. CASE Referred /\ Spec1.from \notin DOMAIN pools
      <3>1. Uncounted(Spec1.from)
        BY <2>5, NoPoolIsUncounted
      <3> QED
        BY <2>1, <2>5, <3>1 DEF Referred
    <2> QED
      BY <2>2, <2>3, <2>4, <2>5
  <1>3. PICK d \in Datum : data' = Append(data, d) /\ d.from = Spec1.from /\ d.fallback = b
    BY <1>1, <1>2, PutIs
  <1>4. ToSet(data') = ToSet(data) \cup {d}
    BY <1>3, Elements DEF SimInv, TypeOK
  <1>5. ASSUME NEW e \in ToSet(data'), e.kind = "reference", e.fallback
        PROVE  Uncounted(e.from)
    BY <1>1, <1>2, <1>3, <1>4, <1>5 DEF FallInv
  <1>6. \A f : Uncounted(f)' <=> Uncounted(f)
    BY <1>1 DEF Uncounted, Logged
  <1>7. FallsBackOnlyUncounted'
    BY <1>1 DEF FallInv, FallsBackOnlyUncounted
  <1> QED
    BY <1>5, <1>6, <1>7 DEF FallInv

\* The event at hand joins the log, and its fallbacks are as uncounted as they were.
LEMMA LogKeepsFall ==
    ASSUME SimInv, FallInv, pc \in Running, NEW o \in Outcome, Log(o)
    PROVE  FallsBackOnlyUncounted'
  <1>1. /\ Logged = 1 .. Len(log) /\ Logged' = 1 .. Len(log) + 1 /\ Len(log) \in Nat
        /\ \A i \in 1 .. Len(log) : log'[i] = log[i]
        /\ log'[Len(log) + 1].data = data
    BY DEF SimInv, TypeOK, Log, Logged
  <1>2. \A k \in Logged' : k \in Logged \/ k = Len(log) + 1
    <2>1. Logged = 1 .. Len(log) /\ Logged' = 1 .. Len(log) + 1 /\ Len(log) \in Nat
      BY <1>1
    <2> QED
      BY <2>1
  <1>3. SUFFICES ASSUME NEW i \in Logged', NEW d \in ToSet(log'[i].data),
                        d.kind = "reference", d.fallback, NEW j \in 1 .. i - 1,
                        NEW e \in ToSet(log'[j].data), e.kind = "sequence", e.field = d.from
                 PROVE  FALSE
    BY DEF FallsBackOnlyUncounted, Logged
  <1>4. j \in Logged /\ log'[j] = log[j]
    BY <1>1, <1>3
  <1>5. CASE i \in Logged
    BY <1>1, <1>3, <1>4, <1>5 DEF FallInv, FallsBackOnlyUncounted, Logged
  <1>6. CASE i = Len(log) + 1
    BY <1>1, <1>3, <1>4, <1>6 DEF FallInv, Uncounted
  <1> QED
    BY <1>2, <1>3, <1>5, <1>6

LEMMA FallKept ==
    ASSUME SimInv, FallInv, [Next]_vars
    PROVE  FallInv'
  <1>1. CASE PostEvent
    <2>1. pc \in Running /\ ToSet(data') = {} /\ \E o \in Outcome : Log(o)
      BY <1>1 DEF PostEvent, Running, ToSet
    <2> QED
      BY <2>1, LogKeepsFall DEF FallInv
  <1>2. CASE Interrupt
    <2>1. pc \in Running /\ pc' \notin Running
      BY <1>2 DEF Interrupt, Running
    <2>2. CASE UNCHANGED log
      BY <2>1, <2>2 DEF FallInv, FallsBackOnlyUncounted
    <2>3. CASE Log([ok |-> FALSE, taken |-> TRUE])
      <3>1. [ok |-> FALSE, taken |-> TRUE] \in Outcome
        BY DEF Outcome
      <3> QED
        BY <2>1, <2>3, <3>1, LogKeepsFall DEF FallInv
    <2> QED
      BY <1>2, <2>2, <2>3 DEF Interrupt
  <1>3. CASE Load
    <2>1. ToSet(data') = {} /\ UNCHANGED log
      BY <1>3 DEF SimInv, Session, Load, ToSet
    <2> QED
      BY <2>1 DEF FallInv, FallsBackOnlyUncounted
  <1>4. CASE NextEvent \/ Raise \/ EndData \/ Finished \/ UNCHANGED vars
    <2>1. UNCHANGED <<data, log>> /\ (pc' \in Running => pc \in Running)
      BY <1>4 DEF NextEvent, Raise, EndData, Finished, vars, Running, MoreFields
    <2>2. \A f : Uncounted(f)' <=> Uncounted(f)
      BY <2>1 DEF Uncounted, Logged
    <2> QED
      BY <2>1, <2>2 DEF FallInv, FallsBackOnlyUncounted
  <1> QED
    BY <1>1, <1>2, <1>3, <1>4, FieldsKeepFall DEF Next, Step

\* In any session of any templates: where a reference is a random number, no event posted
\* before, successfully or not, has a counted value of the field it is from
\* (simulate.py:103-108).
THEOREM FallbacksAreUncounted == Spec => []FallsBackOnlyUncounted
  <1>1. Init => FallInv
    BY DEF Init, FallInv, FallsBackOnlyUncounted, Running
  <1>2. SimInv /\ FallInv /\ [Next]_vars => FallInv'
    BY FallKept
  <1>3. FallInv => FallsBackOnlyUncounted
    BY DEF FallInv
  <1> QED
    BY <1>1, <1>2, <1>3, InitSim, NextSim, PTL DEF Spec
=============================================================================
