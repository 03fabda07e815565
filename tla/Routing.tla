------------------------------- MODULE Routing -------------------------------
(***************************************************************************)
(* How the `type` of a CloudEvent decides where the event goes: the two    *)
(* EventBridge rules, the S3 key Firehose builds with its jq query, and    *)
(* the path COPY lists (infra/stacks/ingest_stack.py, infra/routing.yaml,  *)
(* macros/copy_raw_events.sql).                                            *)
(*                                                                         *)
(* A type is the sequence of the words its dots separate, and a word is a  *)
(* sequence of symbols, so that `order_item` is <<"order", "_item">>:      *)
(* S3 lists keys by string prefix, and one entity's name may begin         *)
(* another's.                                                              *)
(***************************************************************************)
EXTENDS Integers, Sequences, SequencesExt

CONSTANTS
    SnowflakeTypes,  \* routing.yaml, `snowflake`
    Entity           \* the event_type arguments of copy_raw_events

Target == {"snowflake", "s3"}

\* Mutant: the second rule matches every event of the source.
TargetsBoth(type) ==
    {t \in Target : \/ t = "snowflake" /\ type \in SnowflakeTypes
                    \/ t = "s3"}

\* The targets of the rules that match: the listed types, and anything but.
Targets(type) ==
    {t \in Target : \/ t = "snowflake" /\ type \in SnowflakeTypes
                    \/ t = "s3" /\ type \notin SnowflakeTypes}

\* .type | split(".")[:-1] | join(".")
EventType(type) == SubSeq(type, 1, Len(type) - 1)

\* Firehose sends a record whose partition key is empty to the error prefix.
Partitionable(type) == EventType(type) # << >>

Text(words) ==
    LET Dotted[i \in 0 .. Len(words)] ==
            IF i = 0 THEN << >>
            ELSE IF i = 1 THEN words[1]
            ELSE Dotted[i - 1] \o <<".">> \o words[i]
    IN  Dotted[Len(words)]

\* The part of an object's key after `events/`; the date and the file follow.
KeyPrefix(type) ==
    IF Partitionable(type) THEN Text(EventType(type)) \o <<"/">>
                           ELSE <<"errors", "/">>

\* Mutant: the stage path lacks its trailing slash.
CopyPathOpen(entity) == Text(entity)

\* Mutant: the path is made of the whole type, action and all.
CopyPathFullType(entity) == Text(Append(entity, <<"upsert">>)) \o <<"/">>

\* @EVENTS_S3_STAGE/<event_type>/
CopyPath(entity) == Text(entity) \o <<"/">>

\* The objects COPY finds for an entity.
Lists(entity, prefix) == IsPrefix(CopyPath(entity), prefix)
=============================================================================
