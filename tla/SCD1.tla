-------------------------------- MODULE SCD1 --------------------------------
(***************************************************************************)
(* What a type-1 slowly changing dimension promises, with no word about    *)
(* watermarks, files or dbt: the table is replaced, from time to time, by  *)
(* one that holds for every key the newest event that has been loaded.     *)
(*                                                                         *)
(* Staging implements this specification under the conditions its header   *)
(* names (see ImplementsSCD1 there).                                       *)
(***************************************************************************)
EXTENDS Integers

CONSTANTS
    Key,       \* the values of the table's unique_key
    NoRow      \* marks a key the table has no row for

VARIABLES
    loaded,    \* the set of events loaded so far, each with a key and a time
    table      \* for each key, the event its row was built from, or NoRow

scdVars == <<loaded, table>>

Newest(k) == {e \in loaded : e.key = k /\ \A f \in loaded : f.key = k => e.time >= f.time}

Init == loaded = {} /\ table = [k \in Key |-> NoRow]

\* Events are loaded; none is ever unloaded.
Load == loaded \subseteq loaded' /\ UNCHANGED table

\* The table becomes the newest loaded event of every key.  Between events of
\* one key that carry the same time the promise does not choose.
Publish ==
    /\ UNCHANGED loaded
    /\ table' \in [Key -> loaded \cup {NoRow}]
    /\ \A k \in Key : IF Newest(k) = {} THEN table'[k] = NoRow ELSE table'[k] \in Newest(k)

Next == Load \/ Publish

Spec == Init /\ [][Next]_scdVars
=============================================================================
