------------------------------- MODULE Clicks --------------------------------
(***************************************************************************)
(* The click stream: Ingest, and on top of BRONZE.RAW.EVENTS the dynamic   *)
(* table models/staging/ecommerce_clicks.sql.  Snowflake refreshes it by   *)
(* itself, within its target lag of a minute, so a reader finds what the   *)
(* query gave at some earlier moment.                                      *)
(***************************************************************************)
EXTENDS Ingest

CONSTANTS
    ClickType,  \* the type the query selects
    Malformed   \* clicks with a field that does not cast

ASSUME ClicksAssumption ==
    ClickType \in SnowflakeTypes /\ Malformed \subseteq {m \in Msg : Type[m] = ClickType}

VARIABLE clicks  \* [msg]: rows of SILVER.STAGING.ECOMMERCE_CLICKS

\* Mutant: the query asks for the type of an entity's event.
SelectUpsert ==
    [m \in Msg |-> IF Type[m] = Append(ClickType, <<"upsert">>) THEN events[m] ELSE 0]

\* The query: every row of EVENTS that holds a click.
Select == [m \in Msg |-> IF Type[m] = ClickType THEN events[m] ELSE 0]

\* Do the casts of the query succeed?
Casts == \A m \in Malformed : events[m] = 0

\* A refresh brings the table up to the rows EVENTS has, or fails and changes nothing.
Refresh ==
    /\ clicks # Select /\ Casts
    /\ clicks' = Select
    /\ UNCHANGED vars

ClicksInit == Init /\ clicks = None

ClicksNext == (Next /\ UNCHANGED clicks) \/ Refresh

ClicksSpec ==
    /\ ClicksInit /\ [][ClicksNext]_<<vars, clicks>>
    /\ Fairness /\ WF_<<vars, clicks>>(Refresh)

-----------------------------------------------------------------------------
(* Properties.                                                             *)

\* A click answered 202 comes to show in the table, or its failure is recorded, or
\* a click that does not cast, which the router lets pass, has stopped the refreshes.
AcceptedClickShows ==
    \A m \in Msg : Type[m] = ClickType =>
        (Accepted(m) ~> clicks[m] + failures[m] + dropped[m] > 0 \/ ~Casts)

\* "Deduplicates by click_id, keeping the latest event per click"
\* (ecommerce_clicks.yml:9); a message stands for one click.
OneRowPerClick == \A m \in Msg : clicks[m] <= 1
=============================================================================
