------------------------------ MODULE MCIngest -------------------------------
(* Small instances of Ingest for TLC. *)
EXTENDS Ingest

Shop(word) == <<<<"com", "shop">>, word>>

\* The routed type, two entities one of whose names begins the other's, and a
\* type with no dot and no rule of its own.
MCSnowflakeTypes == {<<<<"ecommerce", "_clicks">>>>}
MCEntity == {Shop(<<"order">>), Shop(<<"order", "_item">>)}

MCType == [click |-> <<<<"ecommerce", "_clicks">>>>,
           order |-> Append(Shop(<<"order">>), <<"upsert">>),
           item  |-> Append(Shop(<<"order", "_item">>), <<"upsert">>),
           ping  |-> <<<<"ping">>>>]

\* What EventsInTheirTables takes for granted of the types and the entities.
ASSUME MCWordsAssumption == NoSlash
=============================================================================
