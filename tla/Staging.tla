------------------------------- MODULE Staging -------------------------------
(***************************************************************************)
(* One dbt staging model: a BRONZE.RAW table filled by the COPY pre-hook   *)
(* (macros/copy_raw_events.sql) and a SILVER.STAGING table kept by the     *)
(* incremental SCD-1 select (macros/staging_scd1.sql) that dbt merges on   *)
(* unique_key.  Every models/staging/*.sql file but ecommerce_clicks is an *)
(* instance of it.                                                         *)
(*                                                                         *)
(* A producer stamps an event with its own `time`; the event then spends   *)
(* a while in the API, the bus and Firehose's 60 s buffer, and lands in S3 *)
(* in no particular order.  dbt runs come and go: each compiles the model, *)
(* COPYs, and merges, three steps other runs, failures and landings can    *)
(* fall between.  The merge reads only raw rows at or after the newest     *)
(* ce_time in the table less Lookback, so whether an event that lands late *)
(* is ever merged depends on how late it may be:                           *)
(*                                                                         *)
(*     MaxDelay + MaxSkew <= Lookback  and every event is timed            *)
(*                                                                         *)
(* is what makes Staging implement SCD1 (StagingProofs.tla proves it).     *)
(*                                                                         *)
(* Abstractions.  An event is its key, its time and a payload `val` that   *)
(* tells two versions apart.  Rows of BRONZE.RAW are a set: loading a file *)
(* twice, or an event delivered twice, is invisible to row_number() = 1.   *)
(* Keys are not NULL (the models' not_null tests).                         *)
(***************************************************************************)
EXTENDS Integers, FiniteSets

CONSTANTS
    Key,           \* the values of unique_key
    Val,           \* payloads
    Malformed,     \* those the select cannot cast to the model's column types
    NoTime,        \* the `time` of an event that carries none
    NoRow,         \* marks a key the staging table has no row for
    Run,           \* dbt invocations that may execute the model
    DagRun,        \* the one the Airflow DAG schedules
    Lookback,      \* lookback_seconds
    MaxDelay,      \* how long after its `time` an event may still be on its way to S3
    MaxSkew,       \* how far ahead of real time a producer's clock may be
    AllowUntimed,  \* do producers send events without `time`?
    MaxTime,       \* bound: the clock stops here
    MaxEvents      \* bound: distinct events in a behaviour

ASSUME ConstantsAssumption ==
    /\ Lookback \in Nat
    /\ MaxDelay \in Nat
    /\ MaxSkew \in Nat
    /\ MaxTime \in Nat
    /\ MaxEvents \in Nat
    /\ AllowUntimed \in BOOLEAN
    /\ Malformed \subseteq Val
    /\ NoTime \notin Int
    /\ DagRun \in Run

Event == [key : Key, time : Nat \cup {NoTime}, val : Val]

ASSUME NoRowAssumption == NoRow \notin Event

VARIABLES
    clock,    \* real time
    flight,   \* accepted events not yet written to S3
    landed,   \* events in S3 files the table's COPY history does not list yet
    raw,      \* rows of BRONZE.RAW.<model>
    exists,   \* does the staging table exist?
    staging,  \* for each key its row in SILVER.STAGING.<model>, or NoRow
    pc,       \* per run: "idle", "compiled" or "copied"
    mode      \* per run: what is_incremental() was when it compiled

vars == <<clock, flight, landed, raw, exists, staging, pc, mode>>

Timed(e) == e.time # NoTime

TypeOK ==
    /\ clock \in Nat
    /\ flight \subseteq Event
    /\ landed \subseteq Event
    /\ raw \subseteq Event
    /\ exists \in BOOLEAN
    /\ staging \in [Key -> Event \cup {NoRow}]
    /\ \A k \in Key : staging[k] # NoRow => staging[k].key = k
    /\ pc \in [Run -> {"idle", "compiled", "copied"}]
    /\ mode \in [Run -> {"full", "incremental"}]

Init ==
    /\ clock = 0
    /\ flight = {} /\ landed = {} /\ raw = {}
    /\ exists = FALSE
    /\ staging = [k \in Key |-> NoRow]
    /\ pc = [r \in Run |-> "idle"]
    /\ mode = [r \in Run |-> "full"]

-----------------------------------------------------------------------------
(* The way to S3.                                                          *)

\* The times a producer may put on an event it sends now: none at all, since
\* the router does not ask for one, or a reading of its clock.
SendableTimes ==
    (IF AllowUntimed THEN {NoTime} ELSE {})
        \cup {t \in clock - MaxDelay .. clock + MaxSkew : t >= 0}

\* A producer sends an event, or sends it again because it saw no answer.
Emit ==
    \E k \in Key, t \in SendableTimes, v \in Val :
        LET e == [key |-> k, time |-> t, val |-> v] IN
        /\ Cardinality(flight \cup landed \cup raw \cup {e}) <= MaxEvents
        /\ flight' = flight \cup {e}
        /\ UNCHANGED <<clock, landed, raw, exists, staging, pc, mode>>

\* Firehose writes the event into an S3 object under events/<event_type>/.
\* EventBridge and Firehose keep no order between events.
Land ==
    \E e \in flight :
        /\ flight' = flight \ {e}
        /\ landed' = landed \cup {e}
        /\ UNCHANGED <<clock, raw, exists, staging, pc, mode>>

\* Time passes, but not beyond the moment by which an event must have landed.
Tick ==
    /\ clock < MaxTime
    /\ \A e \in flight : Timed(e) => clock < e.time + MaxDelay
    /\ clock' = clock + 1
    /\ UNCHANGED <<flight, landed, raw, exists, staging, pc, mode>>

-----------------------------------------------------------------------------
(* A dbt run of the model.                                                 *)

\* dbt compiles the model: is_incremental() is decided here, from whether the
\* table exists now and whether the run asks for a full refresh.
Compile(r) ==
    /\ pc[r] = "idle"
    /\ \E refresh \in BOOLEAN :
          mode' = [mode EXCEPT ![r] = IF exists /\ ~refresh THEN "incremental" ELSE "full"]
    /\ pc' = [pc EXCEPT ![r] = "compiled"]
    /\ UNCHANGED <<clock, flight, landed, raw, exists, staging>>

\* The pre-hook: COPY INTO loads every file under the prefix that the load
\* history does not list.
Copy(r) ==
    /\ pc[r] = "compiled"
    /\ raw' = raw \cup landed
    /\ landed' = {}
    /\ pc' = [pc EXCEPT ![r] = "copied"]
    /\ UNCHANGED <<clock, flight, exists, staging, mode>>

\* Mutant: the look-back is not taken off max(ce_time).
InWindowNewest(e) ==
    /\ Timed(e)
    /\ \A k \in Key : (staging[k] # NoRow /\ Timed(staging[k])) => e.time >= staging[k].time

\* record_content:time >= coalesce(max(ce_time) - lookback, epoch).  A
\* comparison with NULL is not true, and max() ignores NULLs.
InWindow(e) ==
    /\ Timed(e)
    /\ \A k \in Key : (staging[k] # NoRow /\ Timed(staging[k])) =>
                          e.time >= staging[k].time - Lookback

\* Mutant: `asc` for `desc` in the window's order by.
SortsFirstAscending(e, f) == ~Timed(f) \/ (Timed(e) /\ e.time <= f.time)

\* `e` may come before `f` under `order by time desc`: a NULL time sorts first,
\* and equal times come in an order Snowflake does not define.
SortsFirst(e, f) == ~Timed(e) \/ (Timed(f) /\ e.time >= f.time)

\* Mutant: the window has lost its `partition by`.
FirstOfAll(rows, k) == {e \in rows : \A f \in rows : SortsFirst(e, f)}

\* qualify row_number() over (partition by key order by time desc) = 1
First(rows, k) == {e \in rows : e.key = k /\ \A f \in rows : f.key = k => SortsFirst(e, f)}

\* The select's possible results: one row for each key that has any.
Selected(rows) ==
    {s \in [Key -> rows \cup {NoRow}] :
        \A k \in Key : IF \E e \in rows : e.key = k THEN s[k] \in First(rows, k)
                                                     ELSE s[k] = NoRow}

\* The select over `rows` raises on e: the router takes any `time` and any data,
\* but a cast of text that is no timestamp raises wherever e is (it is part of
\* the filter), a cast of data that does not fit raises when e is selected.
Breaks(e, rows) == e.val \in Malformed /\ (e \in rows \/ ~Timed(e))

\* CREATE OR REPLACE TABLE ... AS SELECT over all of raw.
Rebuild(r) ==
    /\ pc[r] = "copied" /\ mode[r] = "full"
    /\ ~\E e \in raw : Breaks(e, raw)
    /\ staging' \in Selected(raw)
    /\ exists' = TRUE
    /\ pc' = [pc EXCEPT ![r] = "idle"]
    /\ UNCHANGED <<clock, flight, landed, raw, mode>>

\* Mutant: an incremental build writes its selection over the whole table.
MergeReplaces(r) ==
    /\ pc[r] = "copied" /\ mode[r] = "incremental"
    /\ ~\E e \in raw : Breaks(e, {f \in raw : InWindow(f)})
    /\ staging' \in Selected({e \in raw : InWindow(e)})
    /\ pc' = [pc EXCEPT ![r] = "idle"]
    /\ UNCHANGED <<clock, flight, landed, raw, exists, mode>>

\* MERGE ... ON unique_key: a selected row replaces or adds its key's row.
Merge(r) ==
    /\ pc[r] = "copied" /\ mode[r] = "incremental"
    /\ ~\E e \in raw : Breaks(e, {f \in raw : InWindow(f)})
    /\ \E s \in Selected({e \in raw : InWindow(e)}) :
          staging' = [k \in Key |-> IF s[k] = NoRow THEN staging[k] ELSE s[k]]
    /\ pc' = [pc EXCEPT ![r] = "idle"]
    /\ UNCHANGED <<clock, flight, landed, raw, exists, mode>>

\* The run stops before its merge: a statement raises (a select that Breaks, say),
\* a container is killed.  The retry, or the next day's run, starts with Compile.
Fail(r) ==
    /\ pc[r] # "idle"
    /\ pc' = [pc EXCEPT ![r] = "idle"]
    /\ UNCHANGED <<clock, flight, landed, raw, exists, staging, mode>>

RunStep(r) == Compile(r) \/ Copy(r) \/ Rebuild(r) \/ Merge(r) \/ Fail(r)

Next == Emit \/ Land \/ Tick \/ \E r \in Run : RunStep(r)

Spec == Init /\ [][Next]_vars

\* The DAG is scheduled every day, and no statement that can succeed fails for
\* ever.
Fairness ==
    /\ WF_vars(Compile(DagRun))
    /\ SF_vars(Copy(DagRun))
    /\ SF_vars(Rebuild(DagRun) \/ Merge(DagRun))

FairSpec == Spec /\ Fairness

-----------------------------------------------------------------------------
(* Properties.                                                             *)

\* The row of e's key is e's version or a newer one.
Reflected(e) ==
    /\ staging[e.key] # NoRow
    /\ ~Timed(staging[e.key]) \/ (Timed(e) /\ staging[e.key].time >= e.time)

\* No raw row is stranded: it is reflected in the staging table, or the next
\* incremental select will still read it.  This is what the look-back of
\* staging_scd1 is for, and what a late landing could break.
NoneStranded == \A e \in raw : Reflected(e) \/ InWindow(e)

\* A key the table has never loses its row, and the row never goes back to an
\* older event, whatever lands late and however runs interleave, fail, or
\* rebuild the table with a select compiled before another run's merge.
NeverRegresses ==
    [][\A k \in Key :
          staging[k] # NoRow =>
              /\ staging'[k] # NoRow
              /\ Timed(staging[k]) /\ Timed(staging'[k]) =>
                    staging'[k].time >= staging[k].time]_vars

\* Every build leaves the table with the newest loaded event of every key: the
\* incremental select with its watermark and the full rebuild agree.
SCD == INSTANCE SCD1 WITH loaded <- raw, table <- staging
ImplementsSCD1 == SCD!Spec

\* Again and again everything that has reached S3 or raw is reflected in the
\* staging table: an event that lands is never left behind for good, though runs
\* stop between their COPY and their merge and the window moves on meanwhile;
\* unless an event of any key that does not cast was loaded: that one can stop
\* the model for good.  (MaxEvents makes the producers fall silent.)
LandedIsReflected ==
    []<>(\/ \A e \in landed \cup raw : Reflected(e)
         \/ \E f \in raw : f.val \in Malformed)
=============================================================================
