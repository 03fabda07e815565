------------------------------- MODULE Analyst -------------------------------
(***************************************************************************)
(* The analyst Lambda (infra/lambdas/analyst): a question comes with the   *)
(* id of the user who asks it, Cortex turns it into SQL, and the SQL runs  *)
(* in Snowflake with the session variable APP_USER_ID set to that user,    *)
(* which is what the row-access and masking policies look at.              *)
(*                                                                         *)
(* An execution environment serves one request at a time and keeps its     *)
(* globals - the secret, the key, the Snowflake connection and so the      *)
(* session variable - from one request to the next.  Every call can fail,  *)
(* Snowflake can end a session, and Lambda can stop an environment at any  *)
(* step.                                                                   *)
(***************************************************************************)
EXTENDS Integers, FiniteSets

CONSTANTS
    Environment,  \* Lambda execution environments
    User,         \* positive integers that requests carry as user_id
    NoUser        \* an unset session variable

ASSUME NoUserAssumption == NoUser \notin User

VARIABLES
    pc,       \* per environment: what it does next
    cur,      \* per environment: the request it serves
    secret,   \* per environment: is _s loaded?
    key,      \* per environment: is _private_key loaded?
    conn,     \* per environment: _conn: "none", "open", or "ended" by Snowflake
    appUser,  \* per environment: APP_USER_ID in the session of _conn
    last      \* per environment: its last answer - to which request, its status,
              \* whether it had rows, and the APP_USER_ID they were read with

globals == <<secret, key, conn, appUser>>
vars == <<pc, cur, globals, last>>

\* The forms of a request body, in the order the handler tells them apart.
Form == {"not_json", "not_an_object", "no_question", "question_not_text",
         "no_user", "bad_user", "infinite_user", "valid"}

\* The bodies the handler does not expect raise, and API Gateway answers 502: int()
\* of JSON's Infinity is an OverflowError, which it does not catch.
Unexpected == {"not_an_object", "question_not_text", "infinite_user"}

\* `user` is what int() makes of the body's user_id: 2.7 and "2" are 2.
Request == [form : Form, user : User]

PC == {"cold", "idle", "validate", "load", "connect", "ask", "set", "query"}

\* Of the error statuses Cortex may have, and the handler passes on, one.
CortexStatus == 429
Status == {200, 400, 500, 502, CortexStatus}

LastAnswer == [request : Request, status : {0} \cup Status, rows : BOOLEAN,
               as : User \cup {NoUser}]

TypeOK ==
    /\ pc \in [Environment -> PC]
    /\ cur \in [Environment -> Request]
    /\ secret \in [Environment -> BOOLEAN]
    /\ key \in [Environment -> BOOLEAN]
    /\ conn \in [Environment -> {"none", "open", "ended"}]
    /\ appUser \in [Environment -> User \cup {NoUser}]
    /\ last \in [Environment -> LastAnswer]
    /\ \A x \in Environment :
          /\ key[x] => secret[x]
          /\ conn[x] # "none" => key[x]
          /\ appUser[x] # NoUser => conn[x] # "none"

Init ==
    /\ pc = [x \in Environment |-> "cold"]
    /\ cur \in [Environment -> Request]
    /\ secret = [x \in Environment |-> FALSE]
    /\ key = [x \in Environment |-> FALSE]
    /\ conn = [x \in Environment |-> "none"]
    /\ appUser = [x \in Environment |-> NoUser]
    /\ last = [x \in Environment |->
                  [request |-> cur[x], status |-> 0, rows |-> FALSE, as |-> NoUser]]

Goto(x, step) == pc' = [pc EXCEPT ![x] = step]

Record(x, status, rows) ==
    last' = [last EXCEPT ![x] = [request |-> cur[x], status |-> status, rows |-> rows,
                                 as |-> IF rows THEN appUser[x] ELSE NoUser]]

\* An answer without rows; the environment is free for the next request.
Answer(x, status) == Goto(x, "idle") /\ Record(x, status, FALSE) /\ UNCHANGED cur

\* The environment starts: the module bodies run, the globals are None.
Start(x) ==
    /\ pc[x] = "cold"
    /\ Goto(x, "idle")
    /\ UNCHANGED <<cur, globals, last>>

\* The API hands the environment a request.
Invoke(x) ==
    /\ pc[x] = "idle"
    /\ \E r \in Request : cur' = [cur EXCEPT ![x] = r]
    /\ Goto(x, "validate")
    /\ UNCHANGED <<globals, last>>

\* The checks of the body, in order; nothing is touched before the last of them.
Validate(x) ==
    /\ pc[x] = "validate"
    /\ \/ cur[x].form = "valid" /\ Goto(x, "load") /\ UNCHANGED <<cur, last>>
       \/ cur[x].form \in Unexpected /\ Answer(x, 502)
       \/ cur[x].form \notin Unexpected \cup {"valid"} /\ Answer(x, 400)
    /\ UNCHANGED globals

\* _get_conn, first half.  _s is assigned before the key is parsed, so a key
\* that does not parse leaves the one set and the other None.
Load(x) ==
    /\ pc[x] = "load"
    /\ \/ secret[x] /\ Goto(x, "connect") /\ UNCHANGED <<cur, secret, key, last>>
       \/ /\ ~secret[x]
          /\ \/ Answer(x, 502) /\ UNCHANGED <<secret, key>>
             \/ Answer(x, 502) /\ secret' = [secret EXCEPT ![x] = TRUE] /\ UNCHANGED key
             \/ /\ Goto(x, "connect")
                /\ secret' = [secret EXCEPT ![x] = TRUE]
                /\ key' = [key EXCEPT ![x] = TRUE]
                /\ UNCHANGED <<cur, last>>
    /\ UNCHANGED <<conn, appUser>>

\* Mutant: connecting without a key goes through.
ConnectKeyless(x) ==
    /\ pc[x] = "connect"
    /\ \/ conn[x] # "none" /\ Goto(x, "ask") /\ UNCHANGED <<cur, conn, appUser, last>>
       \/ conn[x] = "none" /\ Answer(x, 502) /\ UNCHANGED <<conn, appUser>>
       \/ /\ conn[x] = "none"
          /\ conn' = [conn EXCEPT ![x] = "open"]
          /\ appUser' = [appUser EXCEPT ![x] = NoUser]
          /\ Goto(x, "ask")
          /\ UNCHANGED <<cur, last>>
    /\ UNCHANGED <<secret, key>>

\* _get_conn, second half.  is_closed() only tells whether this process closed
\* the connection, which it never does: an ended session is kept.
Connect(x) ==
    /\ pc[x] = "connect"
    /\ \/ conn[x] # "none" /\ Goto(x, "ask") /\ UNCHANGED <<cur, conn, appUser, last>>
       \/ conn[x] = "none" /\ Answer(x, 502) /\ UNCHANGED <<conn, appUser>>
       \/ /\ conn[x] = "none" /\ key[x]
          /\ conn' = [conn EXCEPT ![x] = "open"]
          /\ appUser' = [appUser EXCEPT ![x] = NoUser]
          /\ Goto(x, "ask")
          /\ UNCHANGED <<cur, last>>
    /\ UNCHANGED <<secret, key>>

\* cortex.ask: an answer with SQL, one without, an error status, which is
\* passed on, or an exception (a 60 s timeout, say).
Ask(x) ==
    /\ pc[x] = "ask"
    /\ \/ Goto(x, "set") /\ UNCHANGED <<cur, last>>
       \/ \E status \in {200, 502, CortexStatus} : Answer(x, status)
    /\ UNCHANGED globals

\* Mutant: the session variable is set once, when the session has none.
SetUserOnce(x) ==
    /\ pc[x] = "set" /\ conn[x] = "open"
    /\ appUser' = [appUser EXCEPT ![x] = IF appUser[x] = NoUser THEN cur[x].user ELSE @]
    /\ Goto(x, "query")
    /\ UNCHANGED <<cur, secret, key, conn, last>>

\* SET APP_USER_ID = <user_id>
SetUser(x) ==
    /\ pc[x] = "set" /\ conn[x] = "open"
    /\ appUser' = [appUser EXCEPT ![x] = cur[x].user]
    /\ Goto(x, "query")
    /\ UNCHANGED <<cur, secret, key, conn, last>>

\* The statement runs; its rows are those the policies give APP_USER_ID.  A value
\* that json.dumps cannot write raises past the handler's except: 502.
Query(x) ==
    /\ pc[x] = "query" /\ conn[x] = "open"
    /\ \/ Record(x, 200, TRUE) /\ Goto(x, "idle") /\ UNCHANGED cur
       \/ Answer(x, 502)
    /\ UNCHANGED globals

\* Mutant: an exception leaves the request without an answer.
ExecuteHangs(x) ==
    /\ pc[x] \in {"set", "query"}
    /\ UNCHANGED vars

\* Either statement raises, as it must in an ended session: 500.
ExecuteFails(x) ==
    /\ pc[x] \in {"set", "query"}
    /\ Answer(x, 500)
    /\ UNCHANGED globals

\* Snowflake ends the session.
SessionEnds(x) ==
    /\ conn[x] = "open"
    /\ conn' = [conn EXCEPT ![x] = "ended"]
    /\ UNCHANGED <<pc, cur, secret, key, appUser, last>>

\* Lambda stops the environment: for good when it is idle, at the 120 s limit
\* when it is not, and then API Gateway answers 502.
Stop(x) ==
    /\ pc[x] # "cold"
    /\ IF pc[x] = "idle" THEN UNCHANGED last ELSE Record(x, 502, FALSE)
    /\ Goto(x, "cold")
    /\ secret' = [secret EXCEPT ![x] = FALSE]
    /\ key' = [key EXCEPT ![x] = FALSE]
    /\ conn' = [conn EXCEPT ![x] = "none"]
    /\ appUser' = [appUser EXCEPT ![x] = NoUser]
    /\ UNCHANGED cur

HandlerStep(x) ==
    \/ Validate(x) \/ Load(x) \/ Connect(x) \/ Ask(x)
    \/ SetUser(x) \/ Query(x) \/ ExecuteFails(x)

Next ==
    \E x \in Environment :
        Start(x) \/ Invoke(x) \/ HandlerStep(x) \/ SessionEnds(x) \/ Stop(x)

Spec == Init /\ [][Next]_vars

-----------------------------------------------------------------------------
(* Properties.                                                             *)

\* Rows are only ever returned for a valid request, and were read with
\* APP_USER_ID set to the user of that very request, though environments, their
\* connections and their session variables outlive requests, and requests fail
\* between any two statements.
AnsweredAsAsker ==
    \A x \in Environment : last[x].rows =>
        /\ last[x].status = 200 /\ last[x].request.form = "valid"
        /\ last[x].as = last[x].request.user

\* A request that has been taken is answered.
EveryRequestAnswered == \A x \in Environment : pc[x] = "validate" ~> pc[x] \in {"idle", "cold"}
=============================================================================
