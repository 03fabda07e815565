----------------------------- MODULE AnalystApi ------------------------------
(***************************************************************************)
(* The path of a question: the chat client (smoke_tests/analyst_chat.py),  *)
(* API Gateway with its authorizer (Authorizer.tla; the analyst stack      *)
(* deploys the same code), and the analyst Lambda (Analyst.tla).           *)
(*                                                                         *)
(* One client is followed from prompt to prompt, among requests of others. *)
(* Its token is the first version of the secret, read when it started; its *)
(* user types what they like, and every call can fail.                     *)
(***************************************************************************)
EXTENDS Analyst

CONSTANTS
    AuthEnvironment,  \* environments of the authorizer
    MaxVersion        \* bound: versions of the token secret

\* The environment that serves no question of the client's.
Nowhere == "nowhere"

ASSUME ApiAssumption == MaxVersion \in Nat \ {0} /\ Nowhere \notin Environment

VARIABLES
    version, cached,  \* the authorizer's
    at,               \* where the client is in its loop; "exited": its user ended it
    user,             \* its user_id, once entered
    serving,          \* the environment that serves its question
    shown             \* what it last printed: rows, and whom they were read as

authVars == <<version, cached>>
chatVars == <<at, user, serving, shown>>
apiVars == <<vars, authVars, chatVars>>

Auth == INSTANCE Authorizer WITH Environment <- AuthEnvironment

ClientToken == 1
Nobody == NoUser

ApiTypeOK ==
    /\ TypeOK /\ Auth!AuthTypeOK
    /\ at \in {"user_id", "question", "sent", "waiting", "exited"}
    /\ user \in User \cup {Nobody}
    /\ serving \in Environment \cup {Nowhere}
    /\ shown \in [rows : BOOLEAN, as : User \cup {NoUser}]
    /\ at = "waiting" <=> serving # Nowhere
    /\ at \in {"question", "sent", "waiting"} => user # Nobody

ApiInit ==
    /\ Init /\ Auth!AuthInit
    /\ at = "user_id" /\ user = Nobody /\ serving = Nowhere
    /\ shown = [rows |-> FALSE, as |-> NoUser]

Display(rows, as) == shown' = [rows |-> rows, as |-> as]

\* _prompt_user_id; anything but a positive integer is asked for again.
EnterUser ==
    /\ at = "user_id"
    /\ \E u \in User : user' = u
    /\ at' = "question"
    /\ UNCHANGED <<vars, authVars, serving, shown>>

\* Its user ends the client: exit, quit or q, the end of the input, or Ctrl+C, which
\* is not caught at the first prompts nor in _ask.  The Lambda runs on.
Exit ==
    /\ at # "exited" /\ at' = "exited"
    /\ serving' = Nowhere
    /\ UNCHANGED <<vars, authVars, user, shown>>

\* _ask: requests.post
Question ==
    /\ at = "question" /\ at' = "sent"
    /\ UNCHANGED <<vars, authVars, user, serving, shown>>

\* Mutant: an HTTPError is not caught, and ends the client as no user asked.
PrintErrorAndDie ==
    /\ Display(FALSE, NoUser)
    /\ at' = "raised" /\ serving' = Nowhere
    /\ UNCHANGED user

\* An HTTPError, or any other RequestException, is printed; the loop goes on.
PrintError ==
    /\ Display(FALSE, NoUser)
    /\ at' = "question" /\ serving' = Nowhere
    /\ UNCHANGED user

\* API Gateway: the authorizer says no (403), or fails (500), or the stage's
\* throttle is reached (429), or the connection is lost.
GatewayRefuses ==
    /\ at = "sent"
    /\ PrintError
    /\ UNCHANGED <<vars, authVars>>

\* Mutant: the body is sent as an earlier user's.
GatewayPassesAny(x, y) ==
    /\ at = "sent" /\ pc[x] = "idle"
    /\ Auth!Allows(y, ClientToken)
    /\ \E u \in User : cur' = [cur EXCEPT ![x] = [form |-> "valid", user |-> u]]
    /\ Goto(x, "validate")
    /\ at' = "waiting" /\ serving' = x
    /\ UNCHANGED <<globals, last, authVars, user, shown>>

\* The authorizer says yes, and an environment of the Lambda takes the request.
GatewayPasses(x, y) ==
    /\ at = "sent" /\ pc[x] = "idle"
    /\ Auth!Allows(y, ClientToken)
    /\ cur' = [cur EXCEPT ![x] = [form |-> "valid", user |-> user]]
    /\ Goto(x, "validate")
    /\ at' = "waiting" /\ serving' = x
    /\ UNCHANGED <<globals, last, authVars, user, shown>>

\* The client's 120 s or API Gateway's own limit passes; the Lambda runs on.
GiveUp ==
    /\ at = "waiting"
    /\ PrintError
    /\ UNCHANGED <<vars, authVars>>

\* A step of environment x; when it answers the client, the client prints:
\* rows and interpretation for a 200, an error for any other status.
LambdaStep(x) ==
    /\ Start(x) \/ Invoke(x) \/ HandlerStep(x) \/ SessionEnds(x) \/ Stop(x)
    /\ IF serving = x /\ pc'[x] \in {"idle", "cold"}
       THEN IF last'[x].status = 200
            THEN /\ Display(last'[x].rows, last'[x].as)
                 /\ at' = "question" /\ serving' = Nowhere
                 /\ UNCHANGED user
            ELSE PrintError
       ELSE UNCHANGED chatVars
    /\ UNCHANGED authVars

ClientStep == EnterUser \/ Exit \/ Question \/ GiveUp

GatewayStep ==
    GatewayRefuses \/ \E x \in Environment, y \in AuthEnvironment : GatewayPasses(x, y)

ApiNext ==
    \/ Auth!AuthNext /\ UNCHANGED <<vars, chatVars>>
    \/ ClientStep \/ GatewayStep
    \/ \E x \in Environment : LambdaStep(x)

\* The handler's calls return or raise, the gateway answers, Lambda retires
\* environments; the user of the client need not type anything.
ApiSpec ==
    /\ ApiInit /\ [][ApiNext]_apiVars
    /\ WF_apiVars(GatewayStep)
    /\ \A x \in Environment : WF_apiVars(LambdaStep(x) /\ HandlerStep(x))
    /\ Auth!AuthFairness

-----------------------------------------------------------------------------
(* Properties.                                                             *)

\* The rows a client shows were read as the user it entered, though sessions,
\* session variables and environments are shared with the requests of others,
\* and answers come after the client has given up.
ShownAsEntered == shown.rows => shown.as = user

\* A question comes to an answer or an error, and the client to its prompt, unless
\* its user ends it meanwhile.  No answer and no error does.
PromptReturns == at = "sent" ~> at \in {"question", "exited"}

\* The authorizer's properties, of the analyst's authorizer.
DeadStaysDead == Auth!DeadStaysDead
RotationTakesEffect == Auth!RotationTakesEffect
=============================================================================
