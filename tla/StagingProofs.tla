---------------------------- MODULE StagingProofs ----------------------------
(***************************************************************************)
(* Theorems about Staging, for every set of keys and runs and every value  *)
(* of the delays and the look-back.                                        *)
(*                                                                         *)
(* NeverRegresses needs only that a staging row is a raw row (RowsAreRaw). *)
(* NoneStranded and ImplementsSCD1 need events to be timely:               *)
(*                                                                         *)
(*   - nothing on its way is later than MaxDelay (OnTime), and nothing     *)
(*     is stamped beyond MaxSkew in the future (NotAhead);                 *)
(*   - so when a COPY empties S3, whatever is still to come is within      *)
(*     MaxDelay + MaxSkew of every raw row (CloseBehind), and stays so;    *)
(*   - so a row that a later COPY brings is inside the look-back of any    *)
(*     watermark the merges until then can have set.                       *)
(***************************************************************************)
EXTENDS Staging, TLAPS

Timely == ~AllowUntimed /\ MaxDelay + MaxSkew <= Lookback

RowsAreRaw == \A k \in Key : staging[k] # NoRow => staging[k] \in raw /\ staging[k].key = k

AllTimed == \A e \in flight \cup landed \cup raw : Timed(e)

OnTime == \A e \in flight : clock <= e.time + MaxDelay

NotAhead == \A e \in flight \cup landed \cup raw : e.time <= clock + MaxSkew

CloseBehind ==
    \A e \in flight \cup landed, r \in raw : r.time <= e.time + MaxDelay + MaxSkew

\* Inductive for every value of the constants.
SafeInv == TypeOK /\ RowsAreRaw

\* Inductive when events are timely.
TimelyInv == AllTimed /\ OnTime /\ NotAhead /\ CloseBehind /\ NoneStranded

-----------------------------------------------------------------------------
(* What a build selects.                                                   *)

\* A select over a subset of the table yields, for each key, one of the key's
\* own rows or NoRow.
LEMMA SelectedRows ==
    ASSUME NEW rows \in SUBSET Event, NEW s \in Selected(rows)
    PROVE  /\ s \in [Key -> Event \cup {NoRow}]
           /\ \A k \in Key : s[k] # NoRow => s[k] \in rows /\ s[k].key = k
  BY NoRowAssumption DEF Selected, First

\* A key that has a row among those selected from gets one, and no other row of
\* the key sorts strictly before it.
LEMMA SelectedFirst ==
    ASSUME NEW rows \in SUBSET Event, NEW s \in Selected(rows),
           NEW e \in rows
    PROVE  s[e.key] # NoRow /\ SortsFirst(s[e.key], e)
  <1>1. e.key \in Key /\ e.key = e.key
    BY DEF Event
  <1>2. s[e.key] \in First(rows, e.key)
    BY <1>1 DEF Selected
  <1> QED
    BY <1>1, <1>2, NoRowAssumption DEF First

\* A merge never replaces a timed row by a timed row of an earlier time.
LEMMA MergeKeepsUp ==
    ASSUME SafeInv, NEW s \in Selected({e \in raw : InWindow(e)}), NEW k \in Key,
           staging[k] # NoRow, s[k] # NoRow, Timed(staging[k])
    PROVE  s[k].time >= staging[k].time
  <1> DEFINE rows == {e \in raw : InWindow(e)}
  <1>1. rows \in SUBSET Event
    BY DEF SafeInv, TypeOK
  <1>2. s[k] \in rows /\ s[k] \in Event /\ s[k].key = k
    BY <1>1, SelectedRows
  <1>3. InWindow(s[k]) /\ s[k].time \in Nat
    BY <1>2 DEF InWindow, Timed, Event
  <1>4. staging[k] \in raw /\ staging[k].key = k /\ staging[k] \in Event
    BY DEF SafeInv, RowsAreRaw, TypeOK
  <1>5. staging[k].time \in Nat
    BY <1>4 DEF Timed, Event
  <1>6. CASE InWindow(staging[k])
    <2>1. staging[k] \in rows
      BY <1>4, <1>6
    <2>2. SortsFirst(s[k], staging[k])
      BY <1>1, <1>4, <2>1, SelectedFirst
    <2> QED
      BY <2>2, <1>3 DEF SortsFirst, InWindow
  <1>7. CASE ~InWindow(staging[k])
    <2>1. PICK j \in Key : /\ staging[j] # NoRow /\ Timed(staging[j])
                           /\ ~(staging[k].time >= staging[j].time - Lookback)
      BY <1>7 DEF InWindow
    <2>2. staging[j].time \in Nat
      BY <2>1 DEF SafeInv, TypeOK, Event, Timed
    <2>3. s[k].time >= staging[j].time - Lookback
      BY <1>3, <2>1 DEF InWindow
    <2> QED
      BY <1>3, <1>5, <2>1, <2>2, <2>3, ConstantsAssumption
  <1> QED
    BY <1>6, <1>7

-----------------------------------------------------------------------------
(* The invariant that needs no assumption.                                 *)

LEMMA SafeInvHolds == Spec => []SafeInv
  <1>1. Init => SafeInv
    <2>1. Init => /\ clock \in Nat
                  /\ flight \subseteq Event /\ landed \subseteq Event /\ raw \subseteq Event
      BY DEF Init
    <2>4. Init => \A k \in Key : staging[k] = NoRow
      BY DEF Init
    <2>5. Init => exists \in BOOLEAN
      BY DEF Init
    <2>2. Init => /\ staging \in [Key -> Event \cup {NoRow}]
                  /\ pc \in [Run -> {"idle", "compiled", "copied"}]
                  /\ mode \in [Run -> {"full", "incremental"}]
      BY DEF Init
    <2>3. Init => RowsAreRaw
      BY DEF Init, RowsAreRaw
    <2> QED
      BY <2>1, <2>2, <2>3, <2>4, <2>5 DEF SafeInv, TypeOK
  <1>2. SafeInv /\ [Next]_vars => SafeInv'
    <2> SUFFICES ASSUME SafeInv, [Next]_vars PROVE SafeInv'
      OBVIOUS
    <2> USE DEF SafeInv, TypeOK, RowsAreRaw
    <2>1. CASE Emit
      <3>1. PICK k \in Key, t \in SendableTimes, v \in Val :
                /\ flight' = flight \cup {[key |-> k, time |-> t, val |-> v]}
                /\ UNCHANGED <<clock, landed, raw, exists, staging, pc, mode>>
        BY <2>1 DEF Emit
      <3>2. t \in Nat \cup {NoTime}
        BY ConstantsAssumption DEF SendableTimes
      <3>3. [key |-> k, time |-> t, val |-> v] \in Event
        BY <3>2 DEF Event
      <3> QED
        BY <3>1, <3>3
    <2>2. CASE Land
      BY <2>2 DEF Land
    <2>3. CASE Tick
      BY <2>3 DEF Tick
    <2>4. ASSUME NEW r \in Run, RunStep(r) PROVE SafeInv'
      <3>1. CASE Compile(r)
        BY <3>1 DEF Compile
      <3>2. CASE Copy(r)
        BY <3>2 DEF Copy
      <3>3. CASE Rebuild(r)
        BY <3>3, SelectedRows DEF Rebuild
      <3>4. CASE Merge(r)
        <4>1. PICK s \in Selected({e \in raw : InWindow(e)}) :
                  staging' = [k \in Key |-> IF s[k] = NoRow THEN staging[k] ELSE s[k]]
          BY <3>4 DEF Merge
        <4>2. /\ s \in [Key -> Event \cup {NoRow}]
              /\ \A k \in Key : s[k] # NoRow => s[k] \in raw /\ s[k].key = k
          BY SelectedRows
        <4>3. staging' \in [Key -> Event \cup {NoRow}] /\ RowsAreRaw'
          BY <3>4, <4>1, <4>2 DEF Merge
        <4> QED
          BY <3>4, <4>3 DEF Merge
      <3>5. CASE Fail(r)
        BY <3>5 DEF Fail
      <3> QED
        BY <2>4, <3>1, <3>2, <3>3, <3>4, <3>5 DEF RunStep
    <2>5. CASE UNCHANGED vars
      BY <2>5 DEF vars
    <2> QED
      BY <2>1, <2>2, <2>3, <2>4, <2>5 DEF Next
  <1> QED
    BY <1>1, <1>2, PTL DEF Spec

\* Every behaviour of the model keeps the types of its state.
THEOREM TypeCorrect == Spec => []TypeOK
  BY SafeInvHolds, PTL DEF SafeInv

\* A staging row never goes back to an older event and never disappears, for
\* any look-back, any delay and any number of runs (staging_scd1.sql, 81-109).
THEOREM StagingNeverRegresses == Spec => NeverRegresses
  <1> DEFINE Kept(k) ==
        staging[k] # NoRow =>
            /\ staging'[k] # NoRow
            /\ Timed(staging[k]) /\ Timed(staging'[k]) => staging'[k].time >= staging[k].time
  <1>1. SafeInv /\ [Next]_vars => [\A k \in Key : Kept(k)]_vars
    <2> SUFFICES ASSUME SafeInv, Next, NEW k \in Key, staging[k] # NoRow
                 PROVE  Kept(k)
      OBVIOUS
    <2>1. staging[k] \in raw /\ staging[k].key = k /\ staging[k] \in Event
      BY DEF SafeInv, TypeOK, RowsAreRaw
    <2>2. CASE staging' = staging
      BY <2>1, <2>2 DEF Timed, Event
    <2>3. ASSUME NEW r \in Run, Rebuild(r) PROVE Kept(k)
      <3>1. staging' \in Selected(raw) /\ raw \in SUBSET Event
        BY <2>3 DEF Rebuild, SafeInv, TypeOK
      <3>2. staging'[k] # NoRow /\ SortsFirst(staging'[k], staging[k])
        BY <2>1, <3>1, SelectedFirst
      <3> QED
        BY <3>2 DEF SortsFirst
    <2>4. ASSUME NEW r \in Run, Merge(r) PROVE Kept(k)
      <3>1. PICK s \in Selected({e \in raw : InWindow(e)}) :
                staging' = [j \in Key |-> IF s[j] = NoRow THEN staging[j] ELSE s[j]]
        BY <2>4 DEF Merge
      <3>2. CASE s[k] = NoRow
        BY <2>1, <3>1, <3>2 DEF Timed, Event
      <3>3. CASE s[k] # NoRow
        BY <3>1, <3>3, MergeKeepsUp
      <3> QED
        BY <3>2, <3>3
    <2> QED
      BY <2>2, <2>3, <2>4 DEF Next, RunStep, Emit, Land, Tick, Compile, Copy, Fail
  <1> QED
    BY <1>1, SafeInvHolds, PTL DEF Spec, NeverRegresses

-----------------------------------------------------------------------------
(* Timely events.                                                          *)

\* When events are timely, a build leaves every key that has raw rows with one
\* of the newest of them, and any other key with none.
LEMMA BuildPublishes ==
    ASSUME SafeInv, AllTimed, NoneStranded, NEW r \in Run, Rebuild(r) \/ Merge(r)
    PROVE  /\ staging' \in [Key -> raw \cup {NoRow}]
           /\ \A k \in Key : staging'[k] # NoRow => staging'[k] \in raw /\ staging'[k].key = k
           /\ \A e \in raw : staging'[e.key] # NoRow /\ staging'[e.key].time >= e.time
  <1>1. raw \in SUBSET Event /\ \A e \in raw : e.time \in Nat /\ e.key \in Key
    BY DEF SafeInv, TypeOK, AllTimed, Timed, Event
  <1>2. CASE Rebuild(r)
    <2>1. staging' \in Selected(raw)
      BY <1>2 DEF Rebuild
    <2>2. staging' \in [Key -> raw \cup {NoRow}]
      BY <2>1 DEF Selected
    <2>3. \A k \in Key : staging'[k] # NoRow => staging'[k] \in raw /\ staging'[k].key = k
      BY <1>1, <2>1, SelectedRows
    <2>4. ASSUME NEW e \in raw
          PROVE  staging'[e.key] # NoRow /\ staging'[e.key].time >= e.time
      <3>1. staging'[e.key] # NoRow /\ SortsFirst(staging'[e.key], e)
        BY <1>1, <2>1, SelectedFirst
      <3>2. staging'[e.key] \in raw
        BY <1>1, <2>3, <3>1
      <3> QED
        BY <3>1, <3>2 DEF SortsFirst, AllTimed
    <2> QED
      BY <2>2, <2>3, <2>4
  <1>3. CASE Merge(r)
    <2> DEFINE rows == {e \in raw : InWindow(e)}
    <2>1. PICK s \in Selected(rows) :
              staging' = [k \in Key |-> IF s[k] = NoRow THEN staging[k] ELSE s[k]]
      BY <1>3 DEF Merge
    <2>2. rows \in SUBSET Event
      BY <1>1
    <2>3. \A k \in Key : s[k] # NoRow => s[k] \in raw /\ s[k].key = k
      BY <2>2, SelectedRows
    <2>4. staging \in [Key -> raw \cup {NoRow}]
          /\ \A k \in Key : staging[k] # NoRow => staging[k] \in raw /\ staging[k].key = k
      BY DEF SafeInv, TypeOK, RowsAreRaw
    <2>5. staging' \in [Key -> raw \cup {NoRow}]
      BY <2>1, <2>3, <2>4
    <2>6. \A k \in Key : staging'[k] # NoRow => staging'[k] \in raw /\ staging'[k].key = k
      BY <2>1, <2>3, <2>4
    <2>7. ASSUME NEW e \in raw
          PROVE  staging'[e.key] # NoRow /\ staging'[e.key].time >= e.time
      <3>1. e.key \in Key /\ e.time \in Nat
        BY <1>1
      <3>2. CASE InWindow(e)
        <4>1. e \in rows
          BY <3>2
        <4>2. s[e.key] # NoRow /\ SortsFirst(s[e.key], e)
          BY <2>2, <4>1, SelectedFirst
        <4>3. s[e.key] \in raw
          BY <2>3, <3>1, <4>2
        <4>4. s[e.key].time >= e.time
          BY <4>2, <4>3 DEF SortsFirst, AllTimed
        <4> QED
          BY <2>1, <3>1, <4>2, <4>4
      <3>3. CASE ~InWindow(e)
        <4>1. Reflected(e)
          BY <3>3 DEF NoneStranded
        <4>2. staging[e.key] # NoRow /\ staging[e.key] \in raw
          BY <2>4, <3>1, <4>1 DEF Reflected
        <4>3. Timed(staging[e.key]) /\ staging[e.key].time \in Nat
          BY <1>1, <4>2 DEF AllTimed
        <4>4. staging[e.key].time >= e.time
          BY <4>1, <4>3 DEF Reflected
        <4>5. CASE s[e.key] = NoRow
          BY <2>1, <3>1, <4>2, <4>4, <4>5
        <4>6. CASE s[e.key] # NoRow
          <5>1. s[e.key].time >= staging[e.key].time
            BY <2>1, <3>1, <4>2, <4>3, <4>6, MergeKeepsUp
          <5>2. s[e.key].time \in Nat
            BY <1>1, <2>3, <3>1, <4>6
          <5>3. staging'[e.key] = s[e.key]
            BY <2>1, <3>1, <4>6
          <5> QED
            BY <3>1, <4>3, <4>4, <4>6, <5>1, <5>2, <5>3
        <4> QED
          BY <4>5, <4>6
      <3> QED
        BY <3>2, <3>3
    <2> QED
      BY <2>5, <2>6, <2>7
  <1> QED
    BY <1>2, <1>3

\* The five facts of TimelyInv support one another and hold from the start.
LEMMA TimelyInvHolds ==
    ASSUME Timely
    PROVE  Spec => []TimelyInv
  <1>1. Init => TimelyInv
    BY DEF Init, TimelyInv, AllTimed, OnTime, NotAhead, CloseBehind, NoneStranded
  <1>2. SafeInv /\ SafeInv' /\ TimelyInv /\ [Next]_vars => TimelyInv'
    <2> SUFFICES ASSUME SafeInv, SafeInv', TimelyInv, [Next]_vars PROVE TimelyInv'
      OBVIOUS
    <2>1. \A e \in flight \cup landed \cup raw : e \in Event /\ e.time \in Nat
      BY DEF SafeInv, TypeOK, TimelyInv, AllTimed, Timed, Event
    <2>2. clock \in Nat
      BY DEF SafeInv, TypeOK
    <2> USE ConstantsAssumption DEF Timely
    <2>3. CASE Emit
      <3>1. PICK k \in Key, t \in SendableTimes, v \in Val :
                /\ flight' = flight \cup {[key |-> k, time |-> t, val |-> v]}
                /\ UNCHANGED <<clock, landed, raw, exists, staging, pc, mode>>
        BY <2>3 DEF Emit
      <3> DEFINE e == [key |-> k, time |-> t, val |-> v]
      <3>2. t \in Nat /\ t >= clock - MaxDelay /\ t <= clock + MaxSkew
        BY <2>2 DEF SendableTimes
      <3>3. e.time = t
        OBVIOUS
      <3>4. AllTimed' /\ OnTime' /\ NotAhead'
        BY <2>2, <3>1, <3>2, <3>3 DEF TimelyInv, AllTimed, OnTime, NotAhead, Timed
      <3>5. \A r \in raw : r.time <= t + MaxDelay + MaxSkew
        BY <2>1, <2>2, <3>2 DEF TimelyInv, NotAhead
      <3>6. CloseBehind'
        BY <3>1, <3>3, <3>5 DEF TimelyInv, CloseBehind
      <3>7. NoneStranded'
        BY <3>1 DEF TimelyInv, NoneStranded, Reflected, InWindow, Timed
      <3> QED
        BY <3>4, <3>6, <3>7 DEF TimelyInv
    <2>4. CASE Land
      <3>1. /\ flight' \cup landed' = flight \cup landed
            /\ flight' \subseteq flight
            /\ UNCHANGED <<clock, raw, staging>>
        BY <2>4 DEF Land
      <3>2. AllTimed' /\ OnTime' /\ NotAhead' /\ CloseBehind'
        BY <3>1 DEF TimelyInv, AllTimed, OnTime, NotAhead, CloseBehind, Timed
      <3>3. NoneStranded'
        BY <3>1 DEF TimelyInv, NoneStranded, Reflected, InWindow, Timed
      <3> QED
        BY <3>2, <3>3 DEF TimelyInv
    <2>5. CASE Tick
      <3>1. /\ \A e \in flight : Timed(e) => clock < e.time + MaxDelay
            /\ clock' = clock + 1
            /\ UNCHANGED <<flight, landed, raw, staging>>
        BY <2>5 DEF Tick
      <3>2. AllTimed' /\ CloseBehind'
        BY <3>1 DEF TimelyInv, AllTimed, CloseBehind, Timed
      <3>3. OnTime'
        BY <2>1, <2>2, <3>1 DEF TimelyInv, OnTime, AllTimed
      <3>4. NotAhead'
        BY <2>1, <2>2, <3>1 DEF TimelyInv, NotAhead
      <3>5. NoneStranded'
        BY <3>1 DEF TimelyInv, NoneStranded, Reflected, InWindow, Timed
      <3> QED
        BY <3>2, <3>3, <3>4, <3>5 DEF TimelyInv
    <2>6. ASSUME NEW r \in Run, Copy(r) PROVE TimelyInv'
      <3>1. /\ raw' = raw \cup landed /\ landed' = {}
            /\ UNCHANGED <<clock, flight, staging>>
        BY <2>6 DEF Copy
      <3>2. AllTimed' /\ OnTime' /\ NotAhead'
        BY <3>1 DEF TimelyInv, AllTimed, OnTime, NotAhead, Timed
      <3>3. ASSUME NEW e \in flight, NEW x \in raw \cup landed
            PROVE  x.time <= e.time + MaxDelay + MaxSkew
        <4>1. x.time <= clock + MaxSkew /\ clock <= e.time + MaxDelay
          BY DEF TimelyInv, NotAhead, OnTime
        <4> QED
          BY <2>1, <2>2, <4>1
      <3>4. CloseBehind'
        BY <3>1, <3>3 DEF CloseBehind
      <3>5. ASSUME NEW e \in landed PROVE InWindow(e)
        <4>1. ASSUME NEW k \in Key, staging[k] # NoRow
              PROVE  e.time >= staging[k].time - Lookback
          <5>1. staging[k] \in raw
            BY <4>1 DEF SafeInv, RowsAreRaw
          <5>2. staging[k].time <= e.time + MaxDelay + MaxSkew
            BY <5>1 DEF TimelyInv, CloseBehind
          <5> QED
            BY <2>1, <5>1, <5>2
        <4> QED
          BY <4>1 DEF InWindow, TimelyInv, AllTimed
      <3>6. NoneStranded'
        BY <3>1, <3>5 DEF TimelyInv, NoneStranded, Reflected, InWindow, Timed
      <3> QED
        BY <3>2, <3>4, <3>6 DEF TimelyInv
    <2>7. ASSUME NEW r \in Run, Rebuild(r) \/ Merge(r) PROVE TimelyInv'
      <3>1. UNCHANGED <<clock, flight, landed, raw>>
        BY <2>7 DEF Rebuild, Merge
      <3>2. AllTimed' /\ OnTime' /\ NotAhead' /\ CloseBehind'
        BY <3>1 DEF TimelyInv, AllTimed, OnTime, NotAhead, CloseBehind, Timed
      <3>3. \A e \in raw : staging'[e.key] # NoRow /\ staging'[e.key].time >= e.time
        BY <2>7, BuildPublishes DEF TimelyInv
      <3>4. NoneStranded'
        BY <3>1, <3>3 DEF NoneStranded, Reflected, TimelyInv, AllTimed, Timed
      <3> QED
        BY <3>2, <3>4 DEF TimelyInv
    <2>8. CASE \E r \in Run : Compile(r) \/ Fail(r)
      <3>1. UNCHANGED <<clock, flight, landed, raw, staging>>
        BY <2>8 DEF Compile, Fail
      <3> QED
        BY <3>1 DEF TimelyInv, AllTimed, OnTime, NotAhead, CloseBehind, NoneStranded,
                    Reflected, InWindow, Timed
    <2>9. CASE UNCHANGED vars
      BY <2>9 DEF vars, TimelyInv, AllTimed, OnTime, NotAhead, CloseBehind, NoneStranded,
                  Reflected, InWindow, Timed
    <2> QED
      BY <2>3, <2>4, <2>5, <2>6, <2>7, <2>8, <2>9 DEF Next, RunStep
  <1> QED
    BY <1>1, <1>2, SafeInvHolds, PTL DEF Spec

\* With timely events no raw row is ever stranded behind the look-back filter
\* (staging_scd1.sql, 96-102), whatever the size of the look-back.
THEOREM TimelyNoneStranded ==
    ASSUME Timely
    PROVE  Spec => []NoneStranded
  <1>1. TimelyInv => NoneStranded
    BY DEF TimelyInv
  <1> QED
    BY <1>1, TimelyInvHolds, PTL

\* With timely events the staging model implements the SCD-1 promise: every
\* merge and every rebuild publishes the newest loaded event of every key.
THEOREM TimelyImplementsSCD1 ==
    ASSUME Timely
    PROVE  Spec => ImplementsSCD1
  <1>1. Init => SCD!Init
    BY DEF Init, SCD!Init
  <1>2. SafeInv /\ TimelyInv /\ [Next]_vars => [SCD!Next]_(SCD!scdVars)
    <2> SUFFICES ASSUME SafeInv, TimelyInv, [Next]_vars
                 PROVE  [SCD!Next]_(SCD!scdVars)
      OBVIOUS
    <2>1. ASSUME NEW r \in Run, Copy(r) PROVE SCD!Load
      BY <2>1 DEF Copy, SCD!Load
    <2>2. ASSUME NEW r \in Run, Rebuild(r) \/ Merge(r) PROVE SCD!Publish
      <3>1. /\ staging' \in [Key -> raw \cup {NoRow}]
            /\ \A k \in Key : staging'[k] # NoRow => staging'[k] \in raw /\ staging'[k].key = k
            /\ \A e \in raw : staging'[e.key] # NoRow /\ staging'[e.key].time >= e.time
        BY <2>2, BuildPublishes DEF TimelyInv
      <3>2. UNCHANGED raw
        BY <2>2 DEF Rebuild, Merge
      <3>3. ASSUME NEW k \in Key
            PROVE  IF SCD!Newest(k) = {} THEN staging'[k] = NoRow
                                         ELSE staging'[k] \in SCD!Newest(k)
        <4>1. CASE staging'[k] = NoRow
          BY <3>1, <4>1 DEF SCD!Newest
        <4>2. CASE staging'[k] # NoRow
          BY <3>1, <4>2 DEF SCD!Newest
        <4> QED
          BY <4>1, <4>2
      <3> QED
        BY <3>1, <3>2, <3>3 DEF SCD!Publish
    <2>3. CASE UNCHANGED <<raw, staging>>
      BY <2>3 DEF SCD!scdVars
    <2> QED
      BY <2>1, <2>2, <2>3
      DEF Next, RunStep, Emit, Land, Tick, Compile, Fail, vars, SCD!Next, SCD!scdVars
  <1> QED
    BY <1>1, <1>2, SafeInvHolds, TimelyInvHolds, PTL DEF Spec, ImplementsSCD1, SCD!Spec
=============================================================================
