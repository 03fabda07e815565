-------------------------- MODULE AnalystApiProofs ---------------------------
(***************************************************************************)
(* Theorems about Analyst and AnalystApi, for every set of environments,   *)
(* users and versions of the token.                                        *)
(*                                                                         *)
(* An environment's session variable outlives the request that set it, so  *)
(* that the rows of an answer are the asker's rests on what holds between  *)
(* the two statements of execute_as_user: a request beyond validation is a *)
(* valid one, and one about to run its SQL has set the variable itself.    *)
(*                                                                         *)
(* What the client prints comes from the environment that serves it, and   *)
(* that environment holds the client's request until it answers: so the    *)
(* answer's request is the client's, and AskerInv says whom its rows were  *)
(* read as.                                                                *)
(***************************************************************************)
EXTENDS AnalystApi, TLAPS

-----------------------------------------------------------------------------
(* One environment of the Lambda (Analyst).                                *)

InHand == {"load", "connect", "ask", "set", "query"}

OwnVariable ==
    \A x \in Environment :
        /\ pc[x] \in InHand => cur[x].form = "valid"
        /\ pc[x] = "query" => appUser[x] = cur[x].user

AskerInv == TypeOK /\ OwnVariable /\ AnsweredAsAsker

\* What an answer without rows does to the invariant.
LEMMA AnswerKeeps ==
    ASSUME AskerInv, NEW x \in Environment, NEW status \in Status,
           Answer(x, status)
    PROVE  /\ pc' \in [Environment -> PC]
           /\ cur' = cur
           /\ last' \in [Environment -> LastAnswer]
           /\ \A y \in Environment : pc'[y] # "idle" => pc'[y] = pc[y]
           /\ AnsweredAsAsker'
  <1> USE DEF AskerInv, TypeOK
  <1>1. pc' = [pc EXCEPT ![x] = "idle"] /\ cur' = cur
    BY DEF Answer, Goto
  <1>2. last' = [last EXCEPT ![x] = [request |-> cur[x], status |-> status,
                                     rows |-> FALSE, as |-> NoUser]]
    BY DEF Answer, Record
  <1>3. [request |-> cur[x], status |-> status, rows |-> FALSE, as |-> NoUser] \in LastAnswer
    BY DEF LastAnswer
  <1>4. last' \in [Environment -> LastAnswer]
    BY <1>2, <1>3
  <1>5. AnsweredAsAsker'
    BY <1>2 DEF AnsweredAsAsker
  <1>6. pc' \in [Environment -> PC]
    BY <1>1 DEF PC
  <1> QED
    BY <1>1, <1>4, <1>5, <1>6

LEMMA AskerInvStarts == Init => AskerInv
  <1> SUFFICES ASSUME Init PROVE AskerInv
    OBVIOUS
  <1>1. pc \in [Environment -> PC] /\ conn \in [Environment -> {"none", "open", "ended"}]
    BY DEF Init, PC
  <1>2. cur \in [Environment -> Request] /\ appUser \in [Environment -> User \cup {NoUser}]
    BY DEF Init
  <1>3. secret \in [Environment -> BOOLEAN] /\ key \in [Environment -> BOOLEAN]
    BY DEF Init
  <1>4. ASSUME NEW x \in Environment
        PROVE  [request |-> cur[x], status |-> 0, rows |-> FALSE, as |-> NoUser] \in LastAnswer
    BY <1>2 DEF LastAnswer
  <1>5. last \in [Environment -> LastAnswer]
    BY <1>4 DEF Init
  <1>6. \A x \in Environment : /\ ~key[x] /\ conn[x] = "none" /\ appUser[x] = NoUser
                               /\ ~last[x].rows /\ pc[x] = "cold"
    BY DEF Init
  <1> QED
    BY <1>1, <1>2, <1>3, <1>5, <1>6
    DEF AskerInv, TypeOK, OwnVariable, InHand, AnsweredAsAsker

LEMMA AskerInvKept == AskerInv /\ [Next]_vars => AskerInv'
  <1> SUFFICES ASSUME AskerInv, [Next]_vars PROVE AskerInv'
    OBVIOUS
  <1> USE DEF AskerInv, TypeOK
  <1>1. ASSUME NEW x \in Environment, Start(x) PROVE AskerInv'
    BY <1>1 DEF Start, Goto, PC, globals, OwnVariable, InHand, AnsweredAsAsker
  <1>2. ASSUME NEW x \in Environment, Invoke(x) PROVE AskerInv'
    BY <1>2 DEF Invoke, Goto, PC, globals, OwnVariable, InHand, AnsweredAsAsker
  <1>3. ASSUME NEW x \in Environment, Validate(x) PROVE AskerInv'
    <2>1. CASE cur[x].form = "valid" /\ Goto(x, "load") /\ UNCHANGED <<cur, globals, last>>
      BY <2>1 DEF Goto, PC, globals, OwnVariable, InHand, AnsweredAsAsker
    <2>2. CASE pc[x] = "validate" /\ UNCHANGED globals /\ \E s \in {400, 502} : Answer(x, s)
      BY <2>2, AnswerKeeps DEF globals, Status, OwnVariable, InHand
    <2> QED
      BY <1>3, <2>1, <2>2 DEF Validate, globals
  <1>4. ASSUME NEW x \in Environment, Load(x) PROVE AskerInv'
    <2>1. CASE Goto(x, "connect") /\ UNCHANGED <<cur, last>>
      <3>1. /\ key' \in [Environment -> BOOLEAN] /\ secret' \in [Environment -> BOOLEAN]
            /\ \A y \in Environment : (key'[y] => secret'[y]) /\ (key[y] => key'[y])
        BY <1>4 DEF Load
      <3>2. pc' = [pc EXCEPT ![x] = "connect"] /\ pc[x] = "load"
        BY <1>4, <2>1 DEF Load, Goto
      <3>3. UNCHANGED <<conn, appUser, cur, last>>
        BY <1>4, <2>1 DEF Load
      <3>4. pc' \in [Environment -> PC] /\ OwnVariable' /\ AnsweredAsAsker'
        BY <3>2, <3>3 DEF PC, OwnVariable, InHand, AnsweredAsAsker
      <3> QED
        BY <3>1, <3>3, <3>4
    <2>2. CASE Answer(x, 502)
      <3>1. 502 \in Status /\ pc[x] # "query" /\ UNCHANGED <<conn, appUser>>
        BY <1>4 DEF Load, Status
      <3>2. /\ key' \in [Environment -> BOOLEAN] /\ secret' \in [Environment -> BOOLEAN]
            /\ \A y \in Environment : (key'[y] => secret'[y]) /\ (key[y] => key'[y])
        BY <1>4 DEF Load
      <3> QED
        BY <2>2, <3>1, <3>2, AnswerKeeps DEF OwnVariable, InHand
    <2> QED
      BY <1>4, <2>1, <2>2 DEF Load
  <1>5. ASSUME NEW x \in Environment, Connect(x) PROVE AskerInv'
    <2>1. CASE Goto(x, "ask") /\ UNCHANGED <<cur, conn, appUser, last>>
      BY <1>5, <2>1 DEF Connect, Goto, PC, OwnVariable, InHand, AnsweredAsAsker
    <2>2. CASE Answer(x, 502) /\ UNCHANGED <<conn, appUser>>
      <3>1. 502 \in Status /\ pc[x] # "query" /\ UNCHANGED <<secret, key>>
        BY <1>5 DEF Connect, Status
      <3> QED
        BY <2>2, <3>1, AnswerKeeps DEF OwnVariable, InHand
    <2>3. CASE /\ conn[x] = "none" /\ key[x]
               /\ conn' = [conn EXCEPT ![x] = "open"]
               /\ appUser' = [appUser EXCEPT ![x] = NoUser]
               /\ Goto(x, "ask")
               /\ UNCHANGED <<cur, last>>
      <3>1. UNCHANGED <<secret, key>> /\ pc[x] = "connect"
        BY <1>5 DEF Connect
      <3>2. conn' \in [Environment -> {"none", "open", "ended"}]
            /\ appUser' \in [Environment -> User \cup {NoUser}]
        BY <2>3
      <3>3. \A y \in Environment : /\ conn'[y] # "none" => key[y]
                                   /\ appUser'[y] # NoUser => conn'[y] # "none"
        BY <2>3
      <3>4. pc' \in [Environment -> PC] /\ OwnVariable' /\ AnsweredAsAsker'
        BY <2>3, <3>1 DEF Goto, PC, OwnVariable, InHand, AnsweredAsAsker
      <3> QED
        BY <2>3, <3>1, <3>2, <3>3, <3>4
    <2> QED
      BY <1>5, <2>1, <2>2, <2>3 DEF Connect
  <1>6. ASSUME NEW x \in Environment, Ask(x) PROVE AskerInv'
    <2>1. CASE Goto(x, "set") /\ UNCHANGED <<cur, last>>
      BY <1>6, <2>1 DEF Ask, Goto, PC, globals, OwnVariable, InHand, AnsweredAsAsker
    <2>2. CASE \E s \in {200, 502, CortexStatus} : Answer(x, s)
      BY <1>6, <2>2, AnswerKeeps DEF Ask, globals, Status, OwnVariable, InHand
    <2> QED
      BY <1>6, <2>1, <2>2 DEF Ask
  <1>7. ASSUME NEW x \in Environment, SetUser(x) PROVE AskerInv'
    <2>1. cur[x].user \in User
      BY DEF Request
    <2>2. /\ appUser' \in [Environment -> User \cup {NoUser}]
          /\ \A y \in Environment : appUser'[y] # NoUser => conn[y] # "none"
      BY <1>7, <2>1 DEF SetUser
    <2>3. pc' \in [Environment -> PC] /\ OwnVariable' /\ AnsweredAsAsker'
      BY <1>7 DEF SetUser, Goto, PC, OwnVariable, InHand, AnsweredAsAsker
    <2> QED
      BY <1>7, <2>2, <2>3 DEF SetUser
  <1>8. ASSUME NEW x \in Environment, Query(x) PROVE AskerInv'
    <2>1. CASE Answer(x, 502)
      <3>1. 502 \in Status /\ UNCHANGED globals
        BY <1>8 DEF Query, Status
      <3> QED
        BY <2>1, <3>1, AnswerKeeps DEF globals, OwnVariable, InHand
    <2>2. CASE Record(x, 200, TRUE) /\ Goto(x, "idle") /\ UNCHANGED cur
      <3>1. /\ last' = [last EXCEPT ![x] = [request |-> cur[x], status |-> 200,
                                            rows |-> TRUE, as |-> appUser[x]]]
            /\ pc[x] = "query" /\ pc' = [pc EXCEPT ![x] = "idle"]
            /\ UNCHANGED <<cur, secret, key, conn, appUser>>
        BY <1>8, <2>2 DEF Query, Record, Goto, globals
      <3>2. [request |-> cur[x], status |-> 200, rows |-> TRUE, as |-> appUser[x]]
                \in LastAnswer
        BY DEF LastAnswer, Status
      <3>3. last' \in [Environment -> LastAnswer]
        BY <3>1, <3>2
      <3>4. cur[x].form = "valid" /\ appUser[x] = cur[x].user
        BY <3>1 DEF OwnVariable, InHand
      <3>5. AnsweredAsAsker'
        BY <3>1, <3>4 DEF AnsweredAsAsker
      <3>6. pc' \in [Environment -> PC] /\ OwnVariable'
        BY <3>1 DEF PC, OwnVariable, InHand
      <3> QED
        BY <3>1, <3>3, <3>5, <3>6
    <2> QED
      BY <1>8, <2>1, <2>2 DEF Query
  <1>9. ASSUME NEW x \in Environment, ExecuteFails(x) PROVE AskerInv'
    <2>1. 500 \in Status /\ Answer(x, 500) /\ UNCHANGED globals
      BY <1>9 DEF ExecuteFails, Status
    <2> QED
      BY <2>1, AnswerKeeps DEF globals, OwnVariable, InHand
  <1>10. ASSUME NEW x \in Environment, SessionEnds(x) PROVE AskerInv'
    BY <1>10 DEF SessionEnds, OwnVariable, InHand, AnsweredAsAsker
  <1>11. ASSUME NEW x \in Environment, Stop(x) PROVE AskerInv'
    <2>1. /\ pc' = [pc EXCEPT ![x] = "cold"] /\ UNCHANGED cur
          /\ secret' = [secret EXCEPT ![x] = FALSE]
          /\ key' = [key EXCEPT ![x] = FALSE]
          /\ conn' = [conn EXCEPT ![x] = "none"]
          /\ appUser' = [appUser EXCEPT ![x] = NoUser]
      BY <1>11 DEF Stop, Goto
    <2>2. \/ last' = last
          \/ last' = [last EXCEPT ![x] = [request |-> cur[x], status |-> 502,
                                          rows |-> FALSE, as |-> NoUser]]
      BY <1>11 DEF Stop, Record
    <2>3. [request |-> cur[x], status |-> 502, rows |-> FALSE, as |-> NoUser] \in LastAnswer
      BY DEF LastAnswer, Status
    <2>4. last' \in [Environment -> LastAnswer] /\ AnsweredAsAsker'
      <3>1. CASE last' = last
        BY <3>1 DEF AnsweredAsAsker
      <3>2. CASE last' = [last EXCEPT ![x] = [request |-> cur[x], status |-> 502,
                                              rows |-> FALSE, as |-> NoUser]]
        <4>1. last' \in [Environment -> LastAnswer]
          BY <2>3, <3>2
        <4>2. AnsweredAsAsker'
          BY <3>2 DEF AnsweredAsAsker
        <4> QED
          BY <4>1, <4>2
      <3> QED
        BY <2>2, <3>1, <3>2
    <2>5. /\ pc' \in [Environment -> PC] /\ OwnVariable'
      BY <2>1 DEF PC, OwnVariable, InHand
    <2>6. \A y \in Environment : /\ key'[y] => secret'[y]
                                 /\ conn'[y] # "none" => key'[y]
                                 /\ appUser'[y] # NoUser => conn'[y] # "none"
      BY <2>1
    <2> QED
      BY <2>1, <2>4, <2>5, <2>6
  <1>12. CASE UNCHANGED vars
    BY <1>12 DEF vars, globals, OwnVariable, InHand, AnsweredAsAsker
  <1> QED
    BY <1>1, <1>2, <1>3, <1>4, <1>5, <1>6, <1>7, <1>8, <1>9, <1>10, <1>11, <1>12
    DEF Next, HandlerStep

LEMMA AskerInvHolds == Spec => []AskerInv
  BY AskerInvStarts, AskerInvKept, PTL DEF Spec

\* The types, and the order the globals of handler.py are filled in.
THEOREM AnalystTypeCorrect == Spec => []TypeOK
  BY AskerInvHolds, PTL DEF AskerInv

\* However requests of many users follow one another through an environment,
\* and whatever fails, rows are read as the user of the request they answer
\* (snowflake_execute.py, 20-28, and handler.py, 37-77).
THEOREM RowsReadAsAsker == Spec => []AnsweredAsAsker
  BY AskerInvHolds, PTL DEF AskerInv

-----------------------------------------------------------------------------
(* The API, its authorizer and its client (AnalystApi).                    *)

Held == \A y \in AuthEnvironment : cached[y] <= version

ServesOwn ==
    /\ serving # Nowhere =>
           pc[serving] \notin {"idle", "cold"} /\ cur[serving] = [form |-> "valid", user |-> user]
    /\ at = "user_id" => ~shown.rows

ApiInv == ApiTypeOK /\ AskerInv /\ Held /\ ServesOwn /\ ShownAsEntered

-----------------------------------------------------------------------------
(* The authorizer.                                                         *)

LEMMA AuthKept ==
    ASSUME Auth!AuthTypeOK, Held, Auth!AuthNext \/ UNCHANGED authVars
    PROVE  /\ Auth!AuthTypeOK' /\ Held'
           /\ \A t \in Auth!Token \ {0} : t < version /\ Auth!Dead(t) => Auth!Dead(t)'
  <1> USE ApiAssumption DEF Auth!AuthTypeOK, Held, Auth!Token, Auth!Dead, Auth!Cold
  <1>1. CASE Auth!Rotate
    BY <1>1 DEF Auth!Rotate
  <1>2. ASSUME NEW y \in AuthEnvironment, Auth!ColdStart(y)
        PROVE  /\ Auth!AuthTypeOK' /\ Held'
               /\ \A t \in Auth!Token \ {0} : t < version /\ Auth!Dead(t) => Auth!Dead(t)'
    BY <1>2 DEF Auth!ColdStart
  <1>3. ASSUME NEW y \in AuthEnvironment, Auth!Recycle(y)
        PROVE  /\ Auth!AuthTypeOK' /\ Held'
               /\ \A t \in Auth!Token \ {0} : t < version /\ Auth!Dead(t) => Auth!Dead(t)'
    BY <1>3 DEF Auth!Recycle
  <1>4. CASE UNCHANGED authVars
    BY <1>4 DEF authVars
  <1> QED
    BY <1>1, <1>2, <1>3, <1>4 DEF Auth!AuthNext

-----------------------------------------------------------------------------
(* The environments.                                                       *)

\* While x serves a request it keeps it; when it is done, its answer is to it.
LEMMA StepOfServing ==
    ASSUME TypeOK, NEW x \in Environment, pc[x] \notin {"idle", "cold"},
           Start(x) \/ Invoke(x) \/ HandlerStep(x) \/ SessionEnds(x) \/ Stop(x)
    PROVE  /\ cur'[x] = cur[x]
           /\ pc'[x] \in {"idle", "cold"} => last'[x].request = cur[x]
  <1> USE DEF TypeOK
  <1>1. ASSUME NEW status, Answer(x, status)
        PROVE  cur'[x] = cur[x] /\ last'[x].request = cur[x]
    BY <1>1 DEF Answer, Record
  <1>2. CASE Validate(x)
    BY <1>1, <1>2 DEF Validate, Goto
  <1>3. CASE Load(x)
    BY <1>1, <1>3 DEF Load, Goto
  <1>4. CASE Connect(x)
    BY <1>1, <1>4 DEF Connect, Goto
  <1>5. CASE Ask(x)
    BY <1>1, <1>5 DEF Ask, Goto
  <1>6. CASE SetUser(x)
    BY <1>6 DEF SetUser, Goto
  <1>7. CASE Query(x)
    BY <1>1, <1>7 DEF Query, Record
  <1>8. CASE ExecuteFails(x)
    BY <1>1, <1>8 DEF ExecuteFails
  <1>9. CASE SessionEnds(x)
    BY <1>9 DEF SessionEnds
  <1>10. CASE Stop(x)
    BY <1>10 DEF Stop, Record
  <1> QED
    BY <1>2, <1>3, <1>4, <1>5, <1>6, <1>7, <1>8, <1>9, <1>10 DEF Start, Invoke, HandlerStep

\* Another environment's request and step are its own.
LEMMA StepElsewhere ==
    ASSUME TypeOK, NEW x \in Environment, NEW z \in Environment, z # x,
           Start(x) \/ Invoke(x) \/ HandlerStep(x) \/ SessionEnds(x) \/ Stop(x)
    PROVE  pc'[z] = pc[z] /\ cur'[z] = cur[z]
  <1> USE DEF TypeOK, Goto, Answer
  <1>1. CASE Start(x) \/ Invoke(x)
    BY <1>1 DEF Start, Invoke
  <1>2. CASE Validate(x) \/ Load(x)
    BY <1>2 DEF Validate, Load
  <1>3. CASE Connect(x) \/ Ask(x)
    BY <1>3 DEF Connect, Ask
  <1>4. CASE SetUser(x) \/ Query(x) \/ ExecuteFails(x)
    BY <1>4 DEF SetUser, Query, ExecuteFails
  <1>5. CASE SessionEnds(x) \/ Stop(x)
    BY <1>5 DEF SessionEnds, Stop
  <1> QED
    BY <1>1, <1>2, <1>3, <1>4, <1>5 DEF HandlerStep

-----------------------------------------------------------------------------
(* The path of a question.                                                 *)

ChatTypeOK ==
    /\ at \in {"user_id", "question", "sent", "waiting", "exited"}
    /\ user \in User \cup {Nobody}
    /\ serving \in Environment \cup {Nowhere}
    /\ shown \in [rows : BOOLEAN, as : User \cup {NoUser}]
    /\ at = "waiting" <=> serving # Nowhere
    /\ at \in {"question", "sent", "waiting"} => user # Nobody

\* What the client does while no environment takes a step.
LEMMA ClientKeeps ==
    ASSUME ApiInv, UNCHANGED vars,
           \/ UNCHANGED chatVars
           \/ ClientStep \/ GatewayRefuses
    PROVE  ChatTypeOK' /\ ServesOwn' /\ ShownAsEntered'
  <1> USE DEF ApiInv, ApiTypeOK, ChatTypeOK, ServesOwn, ShownAsEntered, Nobody, vars
  <1>1. CASE UNCHANGED chatVars
    BY <1>1 DEF chatVars
  <1>2. CASE EnterUser
    BY <1>2, NoUserAssumption DEF EnterUser
  <1>3. CASE Exit \/ Question
    BY <1>3 DEF Exit, Question
  <1>4. CASE GiveUp \/ GatewayRefuses
    <2>1. PrintError /\ at \in {"sent", "waiting"}
      BY <1>4 DEF GiveUp, GatewayRefuses
    <2>2. shown' = [rows |-> FALSE, as |-> NoUser] /\ at' = "question" /\ serving' = Nowhere
              /\ user' = user
      BY <2>1 DEF PrintError, Display
    <2>3. shown' \in [rows : BOOLEAN, as : User \cup {NoUser}] /\ ~shown'.rows
      BY <2>2
    <2> QED
      BY <2>1, <2>2, <2>3
  <1> QED
    BY <1>1, <1>2, <1>3, <1>4 DEF ClientStep

LEMMA PassesKeeps ==
    ASSUME ApiInv, NEW x \in Environment, NEW y \in AuthEnvironment, GatewayPasses(x, y)
    PROVE  AskerInv' /\ ChatTypeOK' /\ ServesOwn' /\ ShownAsEntered'
  <1>1. /\ pc[x] = "idle" /\ pc' = [pc EXCEPT ![x] = "validate"]
        /\ cur' = [cur EXCEPT ![x] = [form |-> "valid", user |-> user]]
        /\ at = "sent" /\ at' = "waiting" /\ serving' = x
        /\ UNCHANGED <<globals, last, user, shown>>
    BY DEF GatewayPasses, Goto
  <1>2. user \in User
    BY <1>1 DEF ApiInv, ApiTypeOK, Nobody
  <1>3. [form |-> "valid", user |-> user] \in Request
    BY <1>2 DEF Request, Form
  <1>4. Invoke(x)
    BY <1>1, <1>3 DEF Invoke, Goto
  <1>5. AskerInv'
    BY <1>4, AskerInvKept DEF Next, ApiInv
  <1>6. pc \in [Environment -> PC] /\ cur \in [Environment -> Request]
    BY DEF ApiInv, AskerInv, TypeOK
  <1>7. x # Nowhere
    BY ApiAssumption
  <1>8. pc'[x] = "validate" /\ cur'[x] = [form |-> "valid", user |-> user]
    BY <1>1, <1>6
  <1>9. ChatTypeOK'
    BY <1>1, <1>2, <1>7, NoUserAssumption DEF ApiInv, ApiTypeOK, ChatTypeOK, Nobody
  <1>10. ServesOwn'
    BY <1>1, <1>8 DEF ServesOwn
  <1>11. ShownAsEntered'
    BY <1>1 DEF ApiInv, ShownAsEntered
  <1> QED
    BY <1>5, <1>9, <1>10, <1>11

LEMMA LambdaKeeps ==
    ASSUME ApiInv, NEW x \in Environment, LambdaStep(x)
    PROVE  AskerInv' /\ ChatTypeOK' /\ ServesOwn' /\ ShownAsEntered'
  <1>1. Start(x) \/ Invoke(x) \/ HandlerStep(x) \/ SessionEnds(x) \/ Stop(x)
    BY DEF LambdaStep
  <1>2. AskerInv'
    BY <1>1, AskerInvKept DEF Next, ApiInv
  <1>3. TypeOK /\ AnsweredAsAsker' /\ last' \in [Environment -> LastAnswer]
    BY <1>2 DEF ApiInv, AskerInv, TypeOK
  <1>4. ASSUME UNCHANGED chatVars,
               serving # Nowhere => /\ pc'[serving] \notin {"idle", "cold"}
                                    /\ cur'[serving] = cur[serving]
        PROVE  ChatTypeOK' /\ ServesOwn' /\ ShownAsEntered'
    BY <1>4 DEF chatVars, ApiInv, ApiTypeOK, ChatTypeOK, ServesOwn, ShownAsEntered
  <1>5. CASE serving = x
    <2>1. /\ pc[x] \notin {"idle", "cold"} /\ at = "waiting"
          /\ cur[x] = [form |-> "valid", user |-> user] /\ x # Nowhere
      BY <1>5, ApiAssumption DEF ApiInv, ApiTypeOK, ServesOwn
    <2>2. cur'[x] = cur[x] /\ (pc'[x] \in {"idle", "cold"} => last'[x].request = cur[x])
      BY <1>1, <1>3, <2>1, StepOfServing
    <2>3. CASE pc'[x] \notin {"idle", "cold"}
      <3>1. UNCHANGED chatVars
        BY <1>5, <2>3 DEF LambdaStep
      <3> QED
        BY <1>2, <1>4, <1>5, <2>2, <2>3, <3>1
    <2>4. CASE pc'[x] \in {"idle", "cold"}
      <3>1. /\ last'[x].rows \in BOOLEAN /\ last'[x].as \in User \cup {NoUser}
            /\ last'[x].rows => last'[x].as = user
        <4>1. last'[x].rows => last'[x].as = last'[x].request.user
          BY <1>3 DEF AnsweredAsAsker
        <4>2. last'[x].request.user = user
          BY <2>1, <2>2, <2>4
        <4> QED
          BY <1>3, <4>1, <4>2 DEF LastAnswer
      <3>2. /\ at' = "question" /\ serving' = Nowhere /\ user' = user
            /\ \/ shown' = [rows |-> last'[x].rows, as |-> last'[x].as]
               \/ shown' = [rows |-> FALSE, as |-> NoUser]
        BY <1>5, <2>4 DEF LambdaStep, Display, PrintError
      <3>3. user \in User
        BY <2>1 DEF ApiInv, ApiTypeOK, Nobody
      <3>4. shown' \in [rows : BOOLEAN, as : User \cup {NoUser}]
        <4>1. [rows |-> FALSE, as |-> NoUser] \in [rows : BOOLEAN, as : User \cup {NoUser}]
          OBVIOUS
        <4>2. [rows |-> last'[x].rows, as |-> last'[x].as]
                  \in [rows : BOOLEAN, as : User \cup {NoUser}]
          BY <3>1
        <4> QED
          BY <3>2, <4>1, <4>2
      <3>5. ShownAsEntered'
        BY <3>1, <3>2 DEF ShownAsEntered
      <3>6. ChatTypeOK' /\ ServesOwn'
        BY <3>2, <3>3, <3>4, NoUserAssumption DEF ChatTypeOK, ServesOwn, Nobody
      <3> QED
        BY <1>2, <3>5, <3>6
    <2> QED
      BY <2>3, <2>4
  <1>6. CASE serving # x
    <2>1. UNCHANGED chatVars
      BY <1>6 DEF LambdaStep
    <2>2. serving # Nowhere =>
              pc[serving] \notin {"idle", "cold"} /\ serving \in Environment
      BY DEF ApiInv, ApiTypeOK, ServesOwn
    <2>3. serving # Nowhere =>
              pc'[serving] = pc[serving] /\ cur'[serving] = cur[serving]
      BY <1>1, <1>3, <1>6, <2>2, StepElsewhere
    <2> QED
      BY <1>2, <1>4, <2>1, <2>2, <2>3
  <1> QED
    BY <1>5, <1>6

-----------------------------------------------------------------------------
LEMMA ApiStarts == ApiInit => ApiInv
  <1> SUFFICES ASSUME ApiInit PROVE ApiInv
    OBVIOUS
  <1>1. AskerInv
    BY AskerInvStarts DEF ApiInit
  <1>2. Auth!AuthTypeOK /\ Held
    BY ApiAssumption DEF ApiInit, Auth!AuthInit, Auth!AuthTypeOK, Auth!Cold, Held
  <1>3. /\ at = "user_id" /\ user = Nobody /\ serving = Nowhere
        /\ shown = [rows |-> FALSE, as |-> NoUser]
    BY DEF ApiInit
  <1>4. ChatTypeOK /\ ServesOwn /\ ShownAsEntered
    BY <1>3 DEF ChatTypeOK, ServesOwn, ShownAsEntered, Nobody
  <1> QED
    BY <1>1, <1>2, <1>4 DEF ApiInv, ApiTypeOK, ChatTypeOK, AskerInv

LEMMA ApiSteps ==
    ASSUME ApiInv, [ApiNext]_apiVars
    PROVE  /\ ApiInv'
           /\ \A t \in Auth!Token \ {0} : t < version /\ Auth!Dead(t) => Auth!Dead(t)'
  <1>1. Auth!AuthNext \/ UNCHANGED authVars
    BY DEF ApiNext, apiVars, ClientStep, EnterUser, Exit, Question, GiveUp, GatewayStep,
           GatewayRefuses, GatewayPasses, LambdaStep
  <1>2. /\ Auth!AuthTypeOK' /\ Held'
        /\ \A t \in Auth!Token \ {0} : t < version /\ Auth!Dead(t) => Auth!Dead(t)'
    BY <1>1, AuthKept DEF ApiInv, ApiTypeOK
  <1>3. UNCHANGED vars => AskerInv'
    BY AskerInvKept DEF ApiInv
  <1>4. AskerInv' /\ ChatTypeOK' /\ ServesOwn' /\ ShownAsEntered'
    <2>1. CASE Auth!AuthNext /\ UNCHANGED <<vars, chatVars>>
      BY <1>3, <2>1, ClientKeeps
    <2>2. CASE ClientStep \/ GatewayRefuses
      <3>1. UNCHANGED vars
        BY <2>2 DEF ClientStep, EnterUser, Exit, Question, GiveUp, GatewayRefuses
      <3> QED
        BY <1>3, <2>2, <3>1, ClientKeeps
    <2>3. CASE \E x \in Environment, y \in AuthEnvironment : GatewayPasses(x, y)
      BY <2>3, PassesKeeps
    <2>4. CASE \E x \in Environment : LambdaStep(x)
      BY <2>4, LambdaKeeps
    <2>5. CASE UNCHANGED apiVars
      BY <1>3, <2>5, ClientKeeps DEF apiVars
    <2> QED
      BY <2>1, <2>2, <2>3, <2>4, <2>5 DEF ApiNext, GatewayStep
  <1> QED
    BY <1>2, <1>4 DEF ApiInv, ApiTypeOK, ChatTypeOK, AskerInv

LEMMA ApiInvHolds == ApiSpec => []ApiInv
  <1>1. ApiInv /\ [ApiNext]_apiVars => ApiInv'
    BY ApiSteps
  <1> QED
    BY <1>1, ApiStarts, PTL DEF ApiSpec

\* The types of the API's state, in every environment and of every request
\* (analyst/handler.py, authorizer/handler.py).
THEOREM ApiTypeCorrect == ApiSpec => []ApiTypeOK
  <1>1. ApiInv => ApiTypeOK
    BY DEF ApiInv
  <1> QED
    BY <1>1, ApiInvHolds, PTL

\* Requests of others pass through the same environments, and the client's own go on
\* after it has given up: rows are read as the user of the request they answer
\* (snowflake_execute.py, 20-28).
THEOREM ApiAnsweredAsAsker == ApiSpec => []AnsweredAsAsker
  <1>1. ApiInv => AnsweredAsAsker
    BY DEF ApiInv, AskerInv
  <1> QED
    BY <1>1, ApiInvHolds, PTL

\* From the prompt through the gateway and a shared environment and back: what the
\* client prints was read as the user it entered (analyst_chat.py, 89-133).
THEOREM PrintsAsEntered == ApiSpec => []ShownAsEntered
  <1>1. ApiInv => ShownAsEntered
    BY DEF ApiInv
  <1> QED
    BY <1>1, ApiInvHolds, PTL

\* In the composition as in the authorizer alone, a dead token stays dead
\* (authorizer/handler.py, 14).
THEOREM ApiDeadStaysDead == ApiSpec => DeadStaysDead
  <1>1. ApiInv /\ [ApiNext]_apiVars =>
            [\A t \in Auth!Token \ {0} : t < version /\ Auth!Dead(t) => Auth!Dead(t)']_authVars
    BY ApiSteps
  <1> QED
    BY <1>1, ApiInvHolds, PTL
       DEF ApiSpec, DeadStaysDead, Auth!DeadStaysDead, Auth!authVars, authVars
=============================================================================
