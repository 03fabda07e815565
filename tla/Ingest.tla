------------------------------- MODULE Ingest --------------------------------
(***************************************************************************)
(* From a POST to /events to the rows of BRONZE.RAW: API Gateway, the      *)
(* authorizer (Authorizer.tla), the router Lambda, the event bus with its  *)
(* two rules (Routing.tla), the two Firehose streams, and the COPY         *)
(* pre-hooks.                                                              *)
(*                                                                         *)
(* Producers send any event any number of times, with any token, in any    *)
(* form.  One that stops waiting for its answer changes nothing here: the  *)
(* request goes on behind the gateway, and the event may be sent again.    *)
(* boto3 repeats a put_events whose answer it lost, and every delivery     *)
(* after that is at-least-once and unordered, so an event is a number of   *)
(* copies in each place it can be.                                         *)
(*                                                                         *)
(* Bus, rules, Firehose, S3 and Snowflake are services: what is here of    *)
(* them is what the stack configures and the code relies on.               *)
(***************************************************************************)
EXTENDS Routing, FiniteSets, Functions

CONSTANTS
    Msg,           \* the CloudEvents producers have to send
    Type,          \* the `type` attribute of each
    SentForms,     \* the forms of request producers send
    Environment, MaxVersion,
    MaxRequests,   \* bound: requests sent in a behaviour
    MaxCopies      \* bound: copies put on the bus or made by redelivery

VARIABLES
    version, cached,   \* the authorizer's
    req,       \* the requests sent, in order
    owed,      \* [msg][target]: copies on the bus a rule has still to deliver
    buffered,  \* [msg][target]: copies in a Firehose buffer
    events,    \* [msg]: rows of BRONZE.RAW.EVENTS
    failures,  \* [msg]: records Firehose put in the failures bucket
    dropped,   \* [msg]: deliveries EventBridge gave up; the rules have no DLQ
    objects,   \* the S3 objects written: key prefix and copies of each event
    history,   \* per entity table, the objects its COPY history lists
    raw,       \* [entity][msg]: rows of BRONZE.RAW.<entity>
    made       \* copies made so far (for MaxCopies)

authVars == <<version, cached>>
busVars == <<owed, buffered, events, failures, dropped>>
lakeVars == <<objects, history, raw>>
vars == <<authVars, req, busVars, lakeVars, made>>

Auth == INSTANCE Authorizer

\* What a request can carry, in the order the router checks it.
Form == {"wrong_content_type", "not_json", "not_an_object", "invalid_cloud_event", "valid"}

ASSUME IngestAssumption ==
    /\ MaxVersion \in Nat \ {0} /\ MaxRequests \in Nat /\ MaxCopies \in Nat
    /\ SentForms \subseteq Form
    /\ IsFiniteSet(Msg)

Refusal == [f \in Form \ {"valid"} |-> IF f = "wrong_content_type" THEN 415 ELSE 400]

\* A request: token 0 is no Authorization header, or a text that no version of the
\* secret ever was; `dead` records whether its token was dead when it was sent,
\* `puts` the copies it put on the bus.
Request == [msg : Msg, token : Auth!Token, form : Form, dead : BOOLEAN,
            stage : {"sent", "allowed", "publishing", "done"},
            status : {0, 202, 400, 401, 403, 415, 500, 502}, puts : Nat]

Count == [Msg -> 0 .. MaxCopies]
None == [m \in Msg |-> 0]
NoneFor == [m \in Msg |-> [t \in Target |-> 0]]

TypeOK ==
    /\ Auth!AuthTypeOK
    /\ Len(req) <= MaxRequests /\ \A i \in DOMAIN req : req[i] \in Request
    /\ owed \in [Msg -> [Target -> 0 .. MaxCopies]]
    /\ buffered \in [Msg -> [Target -> 0 .. MaxCopies]]
    /\ events \in Count /\ failures \in Count /\ dropped \in Count
    /\ \A i \in DOMAIN objects : objects[i].rows \in Count
    /\ history \in [Entity -> SUBSET DOMAIN objects]
    /\ raw \in [Entity -> Count]
    /\ made \in 0 .. MaxCopies

Init ==
    /\ Auth!AuthInit
    /\ req = << >>
    /\ owed = NoneFor /\ buffered = NoneFor
    /\ events = None /\ failures = None /\ dropped = None
    /\ objects = << >>
    /\ history = [e \in Entity |-> {}]
    /\ raw = [e \in Entity |-> None]
    /\ made = 0

-----------------------------------------------------------------------------
(* The API.                                                                *)

Answer(i, status) == req' = [req EXCEPT ![i].stage = "done", ![i].status = status]

\* A producer posts an event, for the first time or again.
Send ==
    /\ Len(req) < MaxRequests
    /\ \E m \in Msg, token \in 0 .. version, f \in SentForms :
          req' = Append(req, [msg |-> m, token |-> token, form |-> f,
                              dead |-> token # version /\ Auth!Dead(token),
                              stage |-> "sent", status |-> 0, puts |-> 0])
    /\ UNCHANGED <<authVars, busVars, lakeVars, made>>

\* Mutant: an environment that has no token yet lets the request through.
AuthorizeOpen(i) ==
    /\ req[i].stage = "sent"
    /\ \E x \in Environment :
          IF cached[x] = 0 \/ Auth!Allows(x, req[i].token)
          THEN req' = [req EXCEPT ![i].stage = "allowed"]
          ELSE Answer(i, 403)
    /\ UNCHANGED <<authVars, busVars, lakeVars, made>>

\* API Gateway asks the authorizer, in some warm environment.
Authorize(i) ==
    /\ req[i].stage = "sent"
    /\ \E x \in Environment :
          /\ cached[x] # 0
          /\ IF Auth!Allows(x, req[i].token)
             THEN req' = [req EXCEPT ![i].stage = "allowed"]
             ELSE Answer(i, 403)
    /\ UNCHANGED <<authVars, busVars, lakeVars, made>>

\* Without the header that is its identity source the authorizer is not asked.
NoHeader(i) ==
    /\ req[i].stage = "sent" /\ req[i].token = 0
    /\ Answer(i, 401)
    /\ UNCHANGED <<authVars, busVars, lakeVars, made>>

\* The authorizer's cold start fails to read the secret: API Gateway says 500.
AuthorizerFails(i) ==
    /\ req[i].stage = "sent"
    /\ Answer(i, 500)
    /\ UNCHANGED <<authVars, busVars, lakeVars, made>>

\* Mutant: a body that is not a CloudEvent is published all the same.
ValidateLax(i) ==
    /\ req[i].stage = "allowed"
    /\ IF req[i].form \in {"valid", "invalid_cloud_event"}
       THEN req' = [req EXCEPT ![i].stage = "publishing"]
       ELSE Answer(i, Refusal[req[i].form])
    /\ UNCHANGED <<authVars, busVars, lakeVars, made>>

\* The router checks the content type, the body and the CloudEvent.
Validate(i) ==
    /\ req[i].stage = "allowed"
    /\ IF req[i].form = "valid"
       THEN req' = [req EXCEPT ![i].stage = "publishing"]
       ELSE Answer(i, Refusal[req[i].form])
    /\ UNCHANGED <<authVars, busVars, lakeVars, made>>

\* An entry accepted by the bus becomes a delivery for each rule that matches.
OnBus(m) == [t \in Target |-> owed[m][t] + IF t \in Targets(Type[m]) THEN 1 ELSE 0]

\* put_events succeeds and FailedEntryCount is 0: 202.
PutAccepted(i) ==
    /\ req[i].stage = "publishing" /\ made < MaxCopies
    /\ owed' = [owed EXCEPT ![req[i].msg] = OnBus(req[i].msg)]
    /\ made' = made + 1
    /\ req' = [req EXCEPT ![i].stage = "done", ![i].status = 202, ![i].puts = @ + 1]
    /\ UNCHANGED <<authVars, buffered, events, failures, dropped, lakeVars>>

\* The bus takes the entry but the answer is lost; boto3 will call again.
PutAnswerLost(i) ==
    /\ req[i].stage = "publishing" /\ made < MaxCopies
    /\ owed' = [owed EXCEPT ![req[i].msg] = OnBus(req[i].msg)]
    /\ made' = made + 1
    /\ req' = [req EXCEPT ![i].puts = @ + 1]
    /\ UNCHANGED <<authVars, buffered, events, failures, dropped, lakeVars>>

\* Mutant: the router answers without looking at FailedEntryCount.
PutRefusedUnseen(i) ==
    /\ req[i].stage = "publishing"
    /\ Answer(i, 202)
    /\ UNCHANGED <<authVars, busVars, lakeVars, made>>

\* The entry fails (the router answers 502), or put_events raises or the Lambda
\* runs out of time (API Gateway answers 502).
PutRefused(i) ==
    /\ req[i].stage = "publishing"
    /\ Answer(i, 502)
    /\ UNCHANGED <<authVars, busVars, lakeVars, made>>

-----------------------------------------------------------------------------
(* Delivery.                                                               *)

\* Mutant: a delivery that EventBridge repeats is taken off the bus twice.
DeliverTwice(m, t) ==
    /\ owed[m][t] > 0
    /\ \E again \in {0, 1} :
          /\ made + again <= MaxCopies
          /\ made' = made + again
          /\ owed' = [owed EXCEPT ![m][t] = @ - 1 - again]
    /\ buffered' = [buffered EXCEPT ![m][t] = @ + 1]
    /\ UNCHANGED <<authVars, req, events, failures, dropped, lakeVars>>

\* A rule hands a copy to its Firehose stream; `again` if EventBridge saw no
\* answer and will hand it over once more.
Deliver(m, t) ==
    /\ owed[m][t] > 0
    /\ \E again \in {0, 1} :
          /\ made + again <= MaxCopies
          /\ made' = made + again
          /\ owed' = [owed EXCEPT ![m][t] = @ - 1 + again]
    /\ buffered' = [buffered EXCEPT ![m][t] = @ + 1]
    /\ UNCHANGED <<authVars, req, events, failures, dropped, lakeVars>>

\* EventBridge gives a delivery up after its retries.
Drop(m, t) ==
    /\ owed[m][t] > 0
    /\ owed' = [owed EXCEPT ![m][t] = @ - 1]
    /\ dropped' = [dropped EXCEPT ![m] = @ + 1]
    /\ UNCHANGED <<authVars, req, buffered, events, failures, lakeVars, made>>

\* Firehose inserts a record into BRONZE.RAW.EVENTS, or, when it cannot, backs
\* it up in the failures bucket (s3_backup_mode FailedDataOnly).
ToSnowflake(m) ==
    /\ buffered[m]["snowflake"] > 0
    /\ buffered' = [buffered EXCEPT ![m]["snowflake"] = @ - 1]
    /\ \/ events' = [events EXCEPT ![m] = @ + 1] /\ UNCHANGED failures
       \/ failures' = [failures EXCEPT ![m] = @ + 1] /\ UNCHANGED events
    /\ UNCHANGED <<authVars, req, owed, dropped, lakeVars, made>>

\* The S3 stream flushes one partition: all it holds for a key prefix becomes
\* one object.
Flush(prefix) ==
    LET here == {m \in Msg : KeyPrefix(Type[m]) = prefix /\ buffered[m]["s3"] > 0} IN
    /\ here # {}
    /\ objects' = Append(objects,
           [prefix |-> prefix,
            rows |-> [m \in Msg |-> IF m \in here THEN buffered[m]["s3"] ELSE 0]])
    /\ buffered' = [m \in Msg |-> IF m \in here THEN [buffered[m] EXCEPT !["s3"] = 0]
                                                ELSE buffered[m]]
    /\ UNCHANGED <<authVars, req, owed, events, failures, dropped, history, raw, made>>

\* Copies of m in the objects numbered by S.
Copies(S, m) == SumFunctionOnSet([i \in S |-> objects[i].rows[m]], S)

\* Mutant: FORCE = TRUE.
CopyForced(e) ==
    LET new == {i \in DOMAIN objects : Lists(e, objects[i].prefix)} IN
    /\ new # {} /\ \A m \in Msg : raw[e][m] <= MaxCopies
    /\ raw' = [raw EXCEPT ![e] = [m \in Msg |-> @[m] + Copies(new, m)]]
    /\ history' = [history EXCEPT ![e] = @ \cup new]
    /\ UNCHANGED <<authVars, req, busVars, objects, made>>

\* The pre-hook of an entity's staging model loads the objects it lists and
\* has not loaded.
Copy(e) ==
    LET new == {i \in DOMAIN objects \ history[e] : Lists(e, objects[i].prefix)} IN
    /\ new # {}
    /\ raw' = [raw EXCEPT ![e] = [m \in Msg |-> @[m] + Copies(new, m)]]
    /\ history' = [history EXCEPT ![e] = @ \cup new]
    /\ UNCHANGED <<authVars, req, busVars, objects, made>>

-----------------------------------------------------------------------------
RequestStep(i) ==
    \/ Authorize(i) \/ NoHeader(i) \/ AuthorizerFails(i) \/ Validate(i)
    \/ PutAccepted(i) \/ PutAnswerLost(i) \/ PutRefused(i)

KeyPrefixes == {KeyPrefix(Type[m]) : m \in Msg}

Next ==
    \/ Auth!AuthNext /\ UNCHANGED <<req, busVars, lakeVars, made>>
    \/ Send
    \/ \E i \in DOMAIN req : RequestStep(i)
    \/ \E m \in Msg, t \in Target : Deliver(m, t) \/ Drop(m, t)
    \/ \E m \in Msg : ToSnowflake(m)
    \/ \E prefix \in KeyPrefixes : Flush(prefix)
    \/ \E e \in Entity : Copy(e)

Spec == Init /\ [][Next]_vars

\* EventBridge and Firehose work through what they hold; the DAG runs COPY
\* every day.  Nothing is assumed of producers.
Fairness ==
    /\ \A m \in Msg, t \in Target : WF_vars(Deliver(m, t) \/ Drop(m, t))
    /\ \A m \in Msg : WF_vars(ToSnowflake(m))
    /\ \A prefix \in KeyPrefixes : WF_vars(Flush(prefix))
    /\ \A e \in Entity : WF_vars(Copy(e))

-----------------------------------------------------------------------------
(* Properties.                                                             *)

\* The words of a type, and of an entity, have no slash of their own, as those of
\* routing.yaml, of simulators/events and of the models; nothing checks a type's.
NoSlash ==
    /\ \A m \in Msg : Text(EventType(Type[m])) \in Seq(STRING \ {"/"})
    /\ \A e \in Entity : Text(e) \in Seq(STRING) /\ Text(e) # <<"errors">>

Rows(m) == Copies(DOMAIN objects, m)

\* A raw entity table holds that entity's events and no other's, and EVENTS
\* only listed types, from the rules through the jq query to the COPY path.
RightPlace ==
    /\ \A m \in Msg : events[m] + failures[m] > 0 => Type[m] \in SnowflakeTypes
    /\ \A e \in Entity, m \in Msg : raw[e][m] > 0 =>
           Text(EventType(Type[m])) = Text(e)

\* The copies of m that are anywhere, or were given up.
Everywhere(m) ==
    SumFunctionOnSet([t \in Target |-> owed[m][t] + buffered[m][t]], Target)
        + events[m] + failures[m] + dropped[m] + Rows(m)

\* However copies are redelivered, buffered, flushed or dropped, each copy is in
\* one place: the two rules neither both take an event nor both leave it.
EveryCopyInOnePlace == made = SumFunctionOnSet([m \in Msg |-> Everywhere(m)], Msg)

\* What the API answers is true of what it published, even when a call of
\* put_events was lost and repeated: after 202 the bus has the event, after a 4xx or a failed
\* authorizer it has nothing.
AnswersAreTrue ==
    \A i \in DOMAIN req :
        /\ req[i].status = 202 => req[i].puts > 0
        /\ req[i].status \in {400, 401, 403, 415, 500} => req[i].puts = 0

\* An event anywhere behind the API was sent in a valid request.
OnlyValidStored ==
    \A m \in Msg :
        (events[m] + failures[m] > 0 \/ \E k \in DOMAIN objects : objects[k].rows[m] > 0) =>
            \E i \in DOMAIN req : req[i].msg = m /\ req[i].form = "valid" /\ req[i].puts > 0

\* A request sent with a token that was replaced, and that no authorizer
\* environment still held, publishes nothing, whatever environment judges it
\* and however the secret and the environments change before it is judged.
DeadTokenPublishesNothing == \A i \in DOMAIN req : req[i].dead => req[i].puts = 0

\* Dbt retries and repeats its pre-hooks, yet each row of each object a table
\* has loaded is in the table once.
LoadedOnce == \A e \in Entity, m \in Msg : raw[e][m] = Copies(history[e], m)

Accepted(m) == \E i \in DOMAIN req : req[i].msg = m /\ req[i].status = 202

Arrived(m) ==
    \/ dropped[m] > 0
    \/ IF Type[m] \in SnowflakeTypes THEN events[m] + failures[m] > 0
       ELSE IF EventType(Type[m]) \in Entity THEN raw[EventType(Type[m])][m] > 0
       ELSE Rows(m) > 0

\* An event answered 202 reaches its table (or, when it has none, the bucket),
\* or a failure is recorded for it.
AcceptedArrives == \A m \in Msg : Accepted(m) ~> Arrived(m)
=============================================================================
