---------------------------- MODULE IngestProofs -----------------------------
(***************************************************************************)
(* Theorems about Ingest, for every finite set of messages, every set of   *)
(* environments, and every number of requests, copies and versions of the  *)
(* token.  IngestInv is the inductive invariant; its parts are those of    *)
(* the requests, of the copies (TalliesOK, EveryCopyInOnePlace), of the    *)
(* bucket and the raw tables (LakeOK) and of the rules (Listed).           *)
(***************************************************************************)
EXTENDS Clicks, Sums, TLAPS

Stage == {"sent", "allowed", "publishing", "done"}
Status == {0, 202, 400, 401, 403, 415, 500, 502}

\* One request: what it has put on the bus, as far as it has come, and what its
\* answer says of that.
Truthful(r) ==
    /\ r.stage \in {"sent", "allowed"} => r.puts = 0
    /\ r.stage \in {"sent", "allowed", "publishing"} => r.status = 0
    /\ r.stage = "publishing" => r.form = "valid"
    /\ r.puts > 0 => r.form = "valid"
    /\ r.status = 202 => r.puts > 0
    /\ r.status \in {400, 401, 403, 415, 500} => r.puts = 0

\* A dead token is never allowed again, and a request that carries one gets no
\* further than the authorizer.
Refused(r) ==
    r.dead => /\ r.token < version /\ \A x \in Environment : ~Auth!Allows(x, r.token)
              /\ r.stage \in {"sent", "done"} /\ r.puts = 0

RequestInv ==
    /\ Auth!AuthTypeOK /\ req \in Seq(Request)
    /\ \A i \in DOMAIN req : Truthful(req[i]) /\ Refused(req[i])

\* What the steps of the authorizer leave refused.
LEMMA AuthorizerSteps ==
    ASSUME Auth!AuthTypeOK, Auth!AuthNext \/ UNCHANGED authVars
    PROVE  /\ Auth!AuthTypeOK' /\ version' >= version
           /\ \A t \in Auth!Token : t < version /\ (\A x \in Environment : ~Auth!Allows(x, t))
                  => \A x \in Environment : ~Auth!Allows(x, t)'
  <1> USE IngestAssumption DEF Auth!AuthTypeOK, Auth!Token, Auth!Allows, Auth!Cold
  <1>1. CASE Auth!Rotate
    BY <1>1 DEF Auth!Rotate
  <1>2. ASSUME NEW y \in Environment, Auth!ColdStart(y)
        PROVE  /\ Auth!AuthTypeOK' /\ version' >= version
               /\ \A t \in Auth!Token : t < version /\ (\A x \in Environment : ~Auth!Allows(x, t))
                      => \A x \in Environment : ~Auth!Allows(x, t)'
    BY <1>2 DEF Auth!ColdStart
  <1>3. ASSUME NEW y \in Environment, Auth!Recycle(y)
        PROVE  /\ Auth!AuthTypeOK' /\ version' >= version
               /\ \A t \in Auth!Token : t < version /\ (\A x \in Environment : ~Auth!Allows(x, t))
                      => \A x \in Environment : ~Auth!Allows(x, t)'
    BY <1>3 DEF Auth!Recycle
  <1>4. CASE UNCHANGED authVars
    BY <1>4 DEF authVars
  <1> QED
    BY <1>1, <1>2, <1>3, <1>4 DEF Auth!AuthNext

\* A step that changes request i to r, and nothing of the authorizer.
LEMMA OneRequest ==
    ASSUME RequestInv, UNCHANGED authVars, NEW i \in DOMAIN req, NEW r \in Request,
           req' = [req EXCEPT ![i] = r], Truthful(r), Refused(r)
    PROVE  RequestInv'
  <1>1. /\ req' \in Seq(Request) /\ DOMAIN req' = DOMAIN req
        /\ \A j \in DOMAIN req : req'[j] = IF j = i THEN r ELSE req[j]
    BY DEF RequestInv
  <1>2. Auth!AuthTypeOK'
    BY DEF RequestInv, Auth!AuthTypeOK, authVars
  <1>3. ASSUME NEW j \in DOMAIN req PROVE Truthful(req[j])' /\ Refused(req[j])'
    <2>1. CASE j = i
      BY <1>1, <2>1 DEF Truthful, Refused, Auth!Allows, Auth!Cold, authVars
    <2>2. CASE j # i
      <3>1. Truthful(req[j]) /\ Refused(req[j]) /\ req'[j] = req[j]
        BY <1>1, <2>2 DEF RequestInv
      <3> QED
        BY <3>1 DEF Truthful, Refused, Auth!Allows, Auth!Cold, authVars
    <2> QED
      BY <2>1, <2>2
  <1> QED
    BY <1>1, <1>2, <1>3 DEF RequestInv

\* Request r, gone on to another stage, with another status and copies put.
Moved(r, stage, status, puts) == [r EXCEPT !.stage = stage, !.status = status, !.puts = puts]

LEMMA RecordsMove ==
    ASSUME NEW M, NEW T, NEW F, NEW B, NEW S, NEW U, NEW P,
           NEW r \in [msg : M, token : T, form : F, dead : B, stage : S, status : U, puts : P],
           NEW stage \in S, NEW status \in U, NEW puts \in P
    PROVE  [r EXCEPT !.stage = stage, !.status = status, !.puts = puts]
               \in [msg : M, token : T, form : F, dead : B, stage : S, status : U, puts : P]
  OBVIOUS

\* What has been moved is a request, with the message, the token and the form it had.
LEMMA MovedIsRequest ==
    ASSUME NEW r \in Request, NEW stage \in Stage, NEW status \in Status, NEW puts \in Nat
    PROVE  Moved(r, stage, status, puts) \in Request
  <1>1. Request = [msg : Msg, token : Auth!Token, form : Form, dead : BOOLEAN,
                   stage : Stage, status : Status, puts : Nat]
    BY DEF Request, Stage, Status
  <1> QED
    BY ONLY Zenon, <1>1, RecordsMove, r \in Request, stage \in Stage, status \in Status,
            puts \in Nat DEF Moved

LEMMA MovedFields ==
    ASSUME NEW r \in Request, NEW stage, NEW status, NEW puts
    PROVE  /\ Moved(r, stage, status, puts).stage = stage
           /\ Moved(r, stage, status, puts).status = status
           /\ Moved(r, stage, status, puts).puts = puts
           /\ Moved(r, stage, status, puts).form = r.form
           /\ Moved(r, stage, status, puts).token = r.token
           /\ Moved(r, stage, status, puts).msg = r.msg
           /\ Moved(r, stage, status, puts).dead = r.dead
  <1>1. Moved(r, stage, status, puts).dead = r.dead
    BY Zenon DEF Request, Moved
  <1> QED
    BY <1>1 DEF Request, Moved

\* The updates of the actions, as moves.
LEMMA Updates ==
    ASSUME NEW r \in Request, NEW status, NEW puts
    PROVE  /\ [r EXCEPT !.stage = "allowed"] = Moved(r, "allowed", r.status, r.puts)
           /\ [r EXCEPT !.stage = "publishing"] = Moved(r, "publishing", r.status, r.puts)
           /\ [r EXCEPT !.stage = "done", !.status = status] = Moved(r, "done", status, r.puts)
           /\ [r EXCEPT !.puts = puts] = Moved(r, r.stage, r.status, puts)
  <1>1. [r EXCEPT !.stage = "allowed"] = Moved(r, "allowed", r.status, r.puts)
    BY ONLY r \in Request DEF Request, Moved
  <1>2. [r EXCEPT !.stage = "publishing"] = Moved(r, "publishing", r.status, r.puts)
    BY ONLY r \in Request DEF Request, Moved
  <1>3. [r EXCEPT !.stage = "done", !.status = status] = Moved(r, "done", status, r.puts)
    BY ONLY r \in Request DEF Request, Moved
  <1>4. [r EXCEPT !.puts = puts] = Moved(r, r.stage, r.status, puts)
    BY ONLY r \in Request DEF Request, Moved
  <1> QED
    BY <1>1, <1>2, <1>3, <1>4

LEMMA Fields ==
    ASSUME NEW r \in Request
    PROVE  /\ r.puts \in Nat /\ r.status \in Status /\ r.stage \in Stage
           /\ r.form \in Form /\ r.msg \in Msg /\ r.token \in Auth!Token
  BY DEF Request, Stage, Status

\* A step of request i: it moves, and leaves it truthful and refused.
Moves(i) ==
    \E stage \in Stage, status \in Status, puts \in Nat :
        LET r == Moved(req[i], stage, status, puts) IN
        /\ req' = [req EXCEPT ![i] = r] /\ Truthful(r) /\ Refused(r)
        /\ puts >= req[i].puts

\* The requests sent stay, and what one has put on the bus is not taken back.
Kept ==
    \A j \in DOMAIN req :
        /\ j \in DOMAIN req'
        /\ req'[j].msg = req[j].msg /\ req'[j].form = req[j].form
        /\ req'[j].puts >= req[j].puts

LEMMA RequestMoves ==
    ASSUME RequestInv, UNCHANGED authVars, NEW i \in DOMAIN req, Moves(i)
    PROVE  RequestInv' /\ Kept
  <1>1. req \in Seq(Request) /\ \A j \in DOMAIN req : req[j] \in Request
    BY DEF RequestInv
  <1>2. PICK stage \in Stage, status \in Status, puts \in Nat :
            /\ req' = [req EXCEPT ![i] = Moved(req[i], stage, status, puts)]
            /\ Truthful(Moved(req[i], stage, status, puts))
            /\ Refused(Moved(req[i], stage, status, puts))
            /\ puts >= req[i].puts
    BY DEF Moves
  <1> DEFINE r == Moved(req[i], stage, status, puts)
  <1>3. r \in Request /\ r.msg = req[i].msg /\ r.form = req[i].form /\ r.puts = puts
    BY <1>1, MovedIsRequest, MovedFields
  <1>4. req' = [req EXCEPT ![i] = r] /\ Truthful(r) /\ Refused(r)
    BY <1>2
  <1> HIDE DEF r
  <1>5. RequestInv'
    BY <1>3, <1>4, OneRequest
  <1>6. DOMAIN req' = DOMAIN req /\ \A j \in DOMAIN req : req'[j] = IF j = i THEN r ELSE req[j]
    BY <1>1, <1>4
  <1>7. ASSUME NEW j \in DOMAIN req
        PROVE  /\ req'[j].msg = req[j].msg /\ req'[j].form = req[j].form
               /\ req'[j].puts >= req[j].puts
    BY <1>1, <1>2, <1>3, <1>6, Fields
  <1> QED
    BY <1>5, <1>6, <1>7 DEF Kept

LEMMA StagesAndStatuses ==
    /\ Stage = {"sent", "allowed", "publishing", "done"}
    /\ Status = {0, 202, 400, 401, 403, 415, 500, 502}
  BY DEF Stage, Status

LEMMA MovesByMoved ==
    ASSUME NEW i, NEW stage \in Stage, NEW status \in Status, NEW puts \in Nat,
           req' = [req EXCEPT ![i] = Moved(req[i], stage, status, puts)],
           Truthful(Moved(req[i], stage, status, puts)),
           Refused(Moved(req[i], stage, status, puts)), puts >= req[i].puts
    PROVE  Moves(i)
  BY Zenon DEF Moves

LEMMA AnswerMoves ==
    ASSUME RequestInv, NEW i \in DOMAIN req,
           NEW status \in Status \ {0, 202}, Answer(i, status),
           status # 502 => req[i].stage \in {"sent", "allowed"}
    PROVE  Moves(i)
  <1> DEFINE r == Moved(req[i], "done", status, req[i].puts)
  <1>1. /\ req[i] \in Request /\ Truthful(req[i]) /\ Refused(req[i])
        /\ req[i].puts \in Nat
    BY Fields DEF RequestInv
  <1>2. req' = [req EXCEPT ![i] = r]
    <2>1. req' = [req EXCEPT ![i] = [req[i] EXCEPT !.stage = "done", !.status = status]]
      BY DEF Answer
    <2> QED
      BY ONLY <1>1, <2>1, Updates
  <1>3. Truthful(r) /\ Refused(r)
    BY <1>1, MovedFields DEF Truthful, Refused, Status
  <1>4. "done" \in Stage /\ status \in Status /\ req[i].puts >= req[i].puts
    BY <1>1, StagesAndStatuses
  <1> QED
    BY ONLY <1>1, <1>2, <1>3, <1>4, MovesByMoved

LEMMA RequestStepMoves ==
    ASSUME RequestInv, NEW i \in DOMAIN req, RequestStep(i)
    PROVE  Moves(i) /\ UNCHANGED authVars
  <1>0. UNCHANGED authVars
    BY DEF RequestStep, Authorize, NoHeader, AuthorizerFails, Validate, PutAccepted,
           PutAnswerLost, PutRefused
  <1> SUFFICES Moves(i)
    BY <1>0
  <1>1. req[i] \in Request /\ Truthful(req[i]) /\ Refused(req[i])
    BY DEF RequestInv
  <1>2. /\ req[i].puts \in Nat /\ req[i].status \in Status /\ req[i].stage \in Stage
        /\ req[i].form \in Form
    BY <1>1, Fields
  <1>3. CASE Authorize(i)
    <2>1. req[i].stage = "sent"
      BY <1>3 DEF Authorize
    <2>2. CASE Answer(i, 403)
      BY <2>1, <2>2, AnswerMoves DEF Status
    <2>3. CASE ~Answer(i, 403)
      <3> DEFINE r == Moved(req[i], "allowed", req[i].status, req[i].puts)
      <3>1. /\ req' = [req EXCEPT ![i] = [req[i] EXCEPT !.stage = "allowed"]]
            /\ \E x \in Environment : Auth!Allows(x, req[i].token)
        BY <1>3, <2>3 DEF Authorize
      <3>2. req' = [req EXCEPT ![i] = r]
        BY ONLY <1>1, <3>1, Updates
      <3>3. Truthful(r) /\ Refused(r)
        BY <1>1, <2>1, <3>1, MovedFields DEF Truthful, Refused
      <3>4. "allowed" \in Stage /\ req[i].puts >= req[i].puts
        BY <1>2, StagesAndStatuses
      <3> QED
        BY ONLY Zenon, <1>2, <3>2, <3>3, <3>4, MovesByMoved
    <2> QED
      BY <2>2, <2>3
  <1>4. CASE NoHeader(i) \/ AuthorizerFails(i)
    BY <1>4, AnswerMoves DEF NoHeader, AuthorizerFails, Status
  <1>5. CASE Validate(i)
    <2>1. req[i].stage = "allowed"
      BY <1>5 DEF Validate
    <2>2. CASE req[i].form = "valid"
      <3> DEFINE r == Moved(req[i], "publishing", req[i].status, req[i].puts)
      <3>1. req' = [req EXCEPT ![i] = [req[i] EXCEPT !.stage = "publishing"]]
        BY <1>5, <2>2 DEF Validate
      <3>2. req' = [req EXCEPT ![i] = r]
        BY ONLY <1>1, <3>1, Updates
      <3>3. Truthful(r) /\ Refused(r)
        BY <1>1, <2>1, <2>2, MovedFields DEF Truthful, Refused
      <3>4. "publishing" \in Stage /\ req[i].puts >= req[i].puts
        BY <1>2, StagesAndStatuses
      <3> QED
        BY ONLY Zenon, <1>2, <3>2, <3>3, <3>4, MovesByMoved
    <2>3. CASE req[i].form # "valid"
      <3>1. Refusal[req[i].form] \in {400, 415}
        BY <1>2, <2>3 DEF Refusal
      <3>2. Answer(i, Refusal[req[i].form])
        BY <1>5, <2>3 DEF Validate
      <3> QED
        BY <2>1, <3>1, <3>2, AnswerMoves DEF Status
    <2> QED
      BY <2>2, <2>3
  <1>6. CASE PutAccepted(i)
    <2> DEFINE r == Moved(req[i], "done", 202, req[i].puts + 1)
    <2>1. req[i].stage = "publishing" /\ req' = [req EXCEPT ![i] = r]
      BY <1>6 DEF PutAccepted, Moved
    <2>2. Truthful(r) /\ Refused(r)
      BY <1>1, <1>2, <2>1, MovedFields DEF Truthful, Refused
    <2>3. /\ "done" \in Stage /\ 202 \in Status
          /\ req[i].puts + 1 \in Nat /\ req[i].puts + 1 >= req[i].puts
      BY <1>2, StagesAndStatuses
    <2> QED
      BY ONLY Zenon, <2>1, <2>2, <2>3, MovesByMoved
  <1>7. CASE PutAnswerLost(i)
    <2> DEFINE r == Moved(req[i], req[i].stage, req[i].status, req[i].puts + 1)
    <2>1. /\ req[i].stage = "publishing"
          /\ req' = [req EXCEPT ![i] = [req[i] EXCEPT !.puts = req[i].puts + 1]]
      BY <1>7 DEF PutAnswerLost
    <2>2. req' = [req EXCEPT ![i] = r]
      BY ONLY <1>1, <2>1, Updates
    <2>3. Truthful(r) /\ Refused(r)
      BY <1>1, <1>2, <2>1, MovedFields DEF Truthful, Refused
    <2>4. req[i].puts + 1 \in Nat /\ req[i].puts + 1 >= req[i].puts
      BY <1>2
    <2> QED
      BY ONLY Zenon, <1>2, <2>2, <2>3, <2>4, MovesByMoved
  <1>8. CASE PutRefused(i)
    BY <1>8, AnswerMoves DEF PutRefused, Status
  <1> QED
    BY <1>3, <1>4, <1>5, <1>6, <1>7, <1>8 DEF RequestStep

LEMMA Records ==
    ASSUME NEW M, NEW T, NEW F, NEW B, NEW S, NEW U, NEW P,
           NEW m \in M, NEW t \in T, NEW f \in F, NEW d \in B, NEW s \in S, NEW u \in U, NEW p \in P
    PROVE  [msg |-> m, token |-> t, form |-> f, dead |-> d, stage |-> s, status |-> u, puts |-> p]
               \in [msg : M, token : T, form : F, dead : B, stage : S, status : U, puts : P]
  OBVIOUS

LEMMA NewRequest ==
    ASSUME NEW m \in Msg, NEW t \in Auth!Token, NEW f \in Form, NEW d \in BOOLEAN
    PROVE  [msg |-> m, token |-> t, form |-> f, dead |-> d,
            stage |-> "sent", status |-> 0, puts |-> 0] \in Request
  <1>1. "sent" \in Stage /\ 0 \in Status /\ 0 \in Nat
    BY DEF Stage, Status
  <1>2. Request = [msg : Msg, token : Auth!Token, form : Form, dead : BOOLEAN,
                   stage : Stage, status : Status, puts : Nat]
    BY DEF Request, Stage, Status
  <1> QED
    BY ONLY Zenon, <1>1, <1>2, Records, m \in Msg, t \in Auth!Token, f \in Form, d \in BOOLEAN

LEMMA SendKeeps ==
    ASSUME RequestInv, Send
    PROVE  RequestInv' /\ Kept
  <1>1. PICK m \in Msg, token \in 0 .. version, f \in SentForms :
            req' = Append(req, [msg |-> m, token |-> token, form |-> f,
                                dead |-> token # version /\ Auth!Dead(token),
                                stage |-> "sent", status |-> 0, puts |-> 0])
    BY DEF Send
  <1> DEFINE r == [msg |-> m, token |-> token, form |-> f,
                   dead |-> token # version /\ Auth!Dead(token),
                   stage |-> "sent", status |-> 0, puts |-> 0]
  <1>2. /\ UNCHANGED authVars /\ version \in 1 .. MaxVersion /\ token \in Auth!Token
        /\ token <= version /\ f \in Form
    BY IngestAssumption DEF Send, RequestInv, Auth!AuthTypeOK, Auth!Token
  <1>3. r.dead \in BOOLEAN /\ (r.dead => token # version /\ Auth!Dead(token))
    BY Zenon DEF Auth!Dead
  <1>4. /\ r = [msg |-> m, token |-> token, form |-> f, dead |-> r.dead,
                 stage |-> "sent", status |-> 0, puts |-> 0]
        /\ r.token = token /\ r.form = f /\ r.stage = "sent" /\ r.status = 0 /\ r.puts = 0
    BY Zenon
  <1> HIDE DEF r
  <1>5. r \in Request
    BY ONLY Zenon, <1>2, <1>3, <1>4, m \in Msg, NewRequest
  <1>6. Truthful(r) /\ Refused(r)
    BY <1>2, <1>3, <1>4, IngestAssumption DEF Truthful, Refused, Auth!Dead, Auth!Allows
  <1>7. /\ req' \in Seq(Request) /\ DOMAIN req' = 1 .. Len(req) + 1
        /\ req'[Len(req) + 1] = r
        /\ \A j \in DOMAIN req : req'[j] = req[j]
        /\ DOMAIN req = 1 .. Len(req) /\ Len(req) \in Nat
    BY <1>1, <1>5 DEF RequestInv, r
  <1>8. ASSUME NEW j \in 1 .. Len(req) + 1 PROVE Truthful(req[j])' /\ Refused(req[j])'
    <2>1. Truthful(req'[j]) /\ Refused(req'[j])
      <3>1. CASE j = Len(req) + 1
        BY <1>6, <1>7, <3>1
      <3>2. CASE j \in DOMAIN req
        BY <1>7, <3>2 DEF RequestInv
      <3> QED
        BY <1>7, <3>1, <3>2
    <2> QED
      BY <1>2, <2>1 DEF Truthful, Refused, Auth!Allows, Auth!Cold, authVars
  <1>9. Auth!AuthTypeOK'
    BY <1>2 DEF RequestInv, Auth!AuthTypeOK, authVars
  <1>10. Kept
    BY <1>7, Fields DEF Kept, RequestInv
  <1> QED
    BY <1>7, <1>8, <1>9, <1>10 DEF RequestInv

\* A step that is not of the API leaves the requests, and what it does to the
\* authorizer lets no refused token in.
LEMMA OthersKeep ==
    ASSUME RequestInv, req' = req, Auth!AuthNext \/ UNCHANGED authVars
    PROVE  RequestInv' /\ Kept
  <1>1. /\ Auth!AuthTypeOK' /\ version' >= version
        /\ \A t \in Auth!Token : t < version /\ (\A x \in Environment : ~Auth!Allows(x, t))
              => \A x \in Environment : ~Auth!Allows(x, t)'
    BY AuthorizerSteps DEF RequestInv
  <1>2. ASSUME NEW i \in DOMAIN req PROVE Truthful(req[i])' /\ Refused(req[i])'
    <2>1. req[i] \in Request /\ Truthful(req[i]) /\ Refused(req[i]) /\ req[i].token \in Auth!Token
      BY Fields DEF RequestInv
    <2>2. version \in Nat /\ version' \in Nat /\ req[i].token \in Nat
      BY <1>1, <2>1, IngestAssumption DEF RequestInv, Auth!AuthTypeOK, Auth!Token
    <2> QED
      BY <1>1, <2>1, <2>2 DEF Truthful, Refused
  <1>3. Kept
    BY Fields DEF RequestInv, Kept
  <1> QED
    BY <1>1, <1>2, <1>3 DEF RequestInv

LEMMA RequestsKept ==
    ASSUME RequestInv, [Next]_vars
    PROVE  RequestInv' /\ Kept
  <1>1. CASE Send
    BY <1>1, SendKeeps
  <1>2. ASSUME NEW i \in DOMAIN req, RequestStep(i) PROVE RequestInv' /\ Kept
    <2>1. Moves(i) /\ UNCHANGED authVars
      BY <1>2, RequestStepMoves
    <2> QED
      BY <2>1, RequestMoves
  <1>3. CASE req' = req /\ (Auth!AuthNext \/ UNCHANGED authVars)
    BY <1>3, OthersKeep
  <1>4. CASE \E m \in Msg, t \in Target : Deliver(m, t) \/ Drop(m, t)
    BY <1>3, <1>4 DEF Deliver, Drop
  <1>5. CASE \E m \in Msg : ToSnowflake(m)
    BY <1>3, <1>5 DEF ToSnowflake
  <1>6. CASE \E prefix \in KeyPrefixes : Flush(prefix)
    BY <1>3, <1>6 DEF Flush
  <1>7. CASE \E e \in Entity : Copy(e)
    BY <1>3, <1>7 DEF Copy
  <1>8. CASE UNCHANGED vars
    BY <1>3, <1>8 DEF vars
  <1> QED
    BY <1>1, <1>2, <1>3, <1>4, <1>5, <1>6, <1>7, <1>8 DEF Next

LEMMA RequestsStart == Init => RequestInv
  <1> SUFFICES ASSUME Init PROVE RequestInv
    OBVIOUS
  <1>1. Auth!AuthTypeOK
    BY IngestAssumption DEF Init, Auth!AuthInit, Auth!AuthTypeOK, Auth!Cold
  <1> QED
    BY <1>1 DEF Init, RequestInv

LEMMA RequestsHold == Spec => []RequestInv
  BY RequestsStart, RequestsKept, PTL DEF Spec

-----------------------------------------------------------------------------
(* What is behind the API.                                                 *)

Object == [prefix : KeyPrefixes, rows : [Msg -> Nat]]

PlacesOK ==
    /\ owed \in [Msg -> [Target -> Nat]] /\ buffered \in [Msg -> [Target -> Nat]]
    /\ events \in [Msg -> Nat] /\ failures \in [Msg -> Nat]
    /\ objects \in Seq(Object)

\* A copy of m is on the bus, in a stream, in a table or in a bucket.
Stored(m) ==
    \/ \E t \in Target : owed[m][t] > 0 \/ buffered[m][t] > 0
    \/ events[m] > 0 \/ failures[m] > 0
    \/ \E k \in DOMAIN objects : objects[k].rows[m] > 0

Published(m) ==
    \E i \in DOMAIN req : req[i].msg = m /\ req[i].form = "valid" /\ req[i].puts > 0

PlacesInv == PlacesOK /\ \A m \in Msg : Stored(m) => Published(m)

\* Only put_events brings an event in that was nowhere.
Brings(m) == PlacesOK' /\ \A n \in Msg : Stored(n)' => Stored(n) \/ n = m

LEMMA PutBrings ==
    ASSUME PlacesOK, NEW m \in Msg, owed' = [owed EXCEPT ![m] = OnBus(m)],
           UNCHANGED <<buffered, events, failures, objects>>
    PROVE  Brings(m)
  <1>1. OnBus(m) \in [Target -> Nat]
    BY DEF PlacesOK, OnBus
  <1>2. PlacesOK'
    BY <1>1 DEF PlacesOK
  <1>3. \A n \in Msg : n # m => owed'[n] = owed[n]
    BY DEF PlacesOK
  <1> QED
    BY <1>2, <1>3 DEF Brings, Stored

LEMMA OneCount ==
    ASSUME NEW f \in [Msg -> [Target -> Nat]], NEW m \in Msg, NEW t \in Target, NEW v \in Nat
    PROVE  /\ [f EXCEPT ![m][t] = v] \in [Msg -> [Target -> Nat]]
           /\ \A n \in Msg : n # m => [f EXCEPT ![m][t] = v][n] = f[n]
  OBVIOUS

LEMMA DeliveryBringsNothing ==
    ASSUME PlacesOK, NEW m \in Msg, NEW t \in Target, Deliver(m, t) \/ Drop(m, t)
    PROVE  Brings(m) /\ Stored(m)
  <1>1. owed[m][t] > 0
    BY DEF Deliver, Drop
  <1>2. UNCHANGED <<events, failures, objects>>
    BY DEF Deliver, Drop, lakeVars
  <1>3. PICK back \in {0, 1} : owed' = [owed EXCEPT ![m][t] = @ - 1 + back]
    <2>1. CASE Deliver(m, t)
      BY <2>1 DEF Deliver
    <2>2. CASE Drop(m, t)
      <3>1. owed' = [owed EXCEPT ![m][t] = owed[m][t] - 1] /\ owed[m][t] \in Nat
        BY <2>2 DEF Drop, PlacesOK
      <3>2. owed[m][t] - 1 = owed[m][t] - 1 + 0
        BY <3>1
      <3> QED
        BY <3>1, <3>2
    <2> QED
      BY <2>1, <2>2
  <1>4. /\ buffered' \in [Msg -> [Target -> Nat]]
        /\ \A n \in Msg : n # m => buffered'[n] = buffered[n]
    <2>1. CASE Deliver(m, t)
      <3>1. buffered' = [buffered EXCEPT ![m][t] = buffered[m][t] + 1]
        BY <2>1 DEF Deliver
      <3>2. buffered[m][t] + 1 \in Nat
        BY DEF PlacesOK
      <3> QED
        BY <3>1, <3>2, OneCount DEF PlacesOK
    <2>2. CASE Drop(m, t)
      BY <2>2 DEF Drop, PlacesOK
    <2> QED
      BY <2>1, <2>2
  <1>5. /\ owed' \in [Msg -> [Target -> Nat]]
        /\ \A n \in Msg : n # m => owed'[n] = owed[n]
    BY <1>1, <1>3 DEF PlacesOK
  <1> QED
    BY <1>1, <1>2, <1>4, <1>5 DEF Brings, Stored, PlacesOK

LEMMA ToSnowflakeBringsNothing ==
    ASSUME PlacesOK, NEW m \in Msg, ToSnowflake(m)
    PROVE  Brings(m) /\ Stored(m)
  <1>1. /\ buffered[m]["snowflake"] > 0 /\ "snowflake" \in Target
        /\ UNCHANGED <<owed, objects>>
    BY DEF ToSnowflake, Target, lakeVars
  <1>2. /\ buffered' \in [Msg -> [Target -> Nat]]
        /\ \A n \in Msg : n # m => buffered'[n] = buffered[n]
    BY <1>1 DEF ToSnowflake, PlacesOK
  <1>3. /\ events' \in [Msg -> Nat] /\ failures' \in [Msg -> Nat]
        /\ \A n \in Msg : n # m => events'[n] = events[n] /\ failures'[n] = failures[n]
    <2>1. CASE events' = [events EXCEPT ![m] = @ + 1] /\ UNCHANGED failures
      BY <2>1 DEF PlacesOK
    <2>2. CASE failures' = [failures EXCEPT ![m] = @ + 1] /\ UNCHANGED events
      BY <2>2 DEF PlacesOK
    <2> QED
      BY <2>1, <2>2 DEF ToSnowflake
  <1> QED
    BY <1>1, <1>2, <1>3 DEF Brings, Stored, PlacesOK

LEMMA FlushBringsNothing ==
    ASSUME PlacesOK, NEW prefix \in KeyPrefixes, Flush(prefix)
    PROVE  PlacesOK' /\ \A n \in Msg : Stored(n)' => Stored(n)
  <1> DEFINE here == {m \in Msg : KeyPrefix(Type[m]) = prefix /\ buffered[m]["s3"] > 0}
             rows == [m \in Msg |-> IF m \in here THEN buffered[m]["s3"] ELSE 0]
             object == [prefix |-> prefix, rows |-> rows]
  <1>1. "s3" \in Target /\ UNCHANGED <<owed, events, failures>>
    BY DEF Flush, Target
  <1>2. /\ objects' = Append(objects, object)
        /\ buffered' = [m \in Msg |-> IF m \in here THEN [buffered[m] EXCEPT !["s3"] = 0]
                                                    ELSE buffered[m]]
    BY DEF Flush
  <1>3. rows \in [Msg -> Nat] /\ \A m \in Msg : rows[m] > 0 => buffered[m]["s3"] > 0
    BY <1>1 DEF PlacesOK
  <1>4. /\ buffered' \in [Msg -> [Target -> Nat]]
        /\ \A m \in Msg, t \in Target : buffered'[m][t] > 0 => buffered[m][t] > 0
    BY <1>1, <1>2 DEF PlacesOK
  <1> HIDE DEF rows, here
  <1>5. object \in Object /\ object.rows = rows
    BY <1>3 DEF Object
  <1> HIDE DEF object
  <1>6. /\ objects' \in Seq(Object)
        /\ \A k \in DOMAIN objects' : \/ objects'[k] = object
                                      \/ k \in DOMAIN objects /\ objects'[k] = objects[k]
    BY <1>2, <1>5 DEF PlacesOK
  <1>7. PlacesOK'
    BY <1>1, <1>4, <1>6 DEF PlacesOK
  <1> QED
    BY <1>1, <1>3, <1>4, <1>5, <1>6, <1>7 DEF Stored

\* Whatever step is taken, what is stored had been stored or is put by a request
\* in this step.
LEMMA PlacesKept ==
    ASSUME RequestInv, PlacesInv, [Next]_vars
    PROVE  PlacesInv'
  <1>1. RequestInv' /\ Kept
    BY RequestsKept
  <1>2. ASSUME NEW m \in Msg, Published(m) PROVE Published(m)'
    <2>1. PICK i \in DOMAIN req : req[i].msg = m /\ req[i].form = "valid" /\ req[i].puts > 0
      BY <1>2 DEF Published
    <2>2. /\ i \in DOMAIN req' /\ req'[i].msg = m /\ req'[i].form = "valid"
          /\ req'[i].puts >= req[i].puts
      BY <1>1, <2>1 DEF Kept
    <2>3. req[i].puts \in Nat /\ req'[i].puts \in Nat
      BY <1>1, <2>2, Fields DEF RequestInv
    <2> QED
      BY <2>1, <2>2, <2>3 DEF Published
  <1>3. CASE PlacesOK' /\ \A n \in Msg : Stored(n)' => Stored(n)
    BY <1>2, <1>3 DEF PlacesInv
  <1>4. ASSUME NEW m \in Msg, Brings(m), Stored(m) \/ Published(m)' PROVE PlacesInv'
    BY <1>2, <1>4 DEF PlacesInv, Brings
  <1>5. CASE UNCHANGED <<owed, buffered, events, failures, objects>>
    BY <1>3, <1>5 DEF PlacesInv, PlacesOK, Stored
  <1>6. ASSUME NEW i \in DOMAIN req, PutAccepted(i) \/ PutAnswerLost(i) PROVE PlacesInv'
    <2>1. /\ req[i] \in Request /\ req[i].stage = "publishing" /\ Truthful(req[i])
          /\ req[i].msg \in Msg /\ req[i].puts \in Nat
      BY <1>6, Fields DEF RequestInv, PutAccepted, PutAnswerLost
    <2>2. Brings(req[i].msg)
      <3>1. /\ owed' = [owed EXCEPT ![req[i].msg] = OnBus(req[i].msg)]
            /\ UNCHANGED <<buffered, events, failures, objects>>
        BY <1>6 DEF PutAccepted, PutAnswerLost, lakeVars
      <3> QED
        BY <2>1, <3>1, PutBrings DEF PlacesInv
    <2>3. req'[i].puts = req[i].puts + 1
      <3>1. CASE PutAccepted(i)
        <4>1. req' = [req EXCEPT ![i] = Moved(req[i], "done", 202, req[i].puts + 1)]
          BY <3>1 DEF PutAccepted, Moved
        <4> QED
          BY <2>1, <4>1, MovedFields DEF RequestInv
      <3>2. CASE PutAnswerLost(i)
        <4>1. req' = [req EXCEPT ![i] = [req[i] EXCEPT !.puts = req[i].puts + 1]]
          BY <3>2 DEF PutAnswerLost
        <4>2. req' = [req EXCEPT ![i] = Moved(req[i], req[i].stage, req[i].status, req[i].puts + 1)]
          BY ONLY <2>1, <4>1, Updates
        <4> QED
          BY <2>1, <4>2, MovedFields DEF RequestInv
      <3> QED
        BY <1>6, <3>1, <3>2
    <2>4. PICK m \in Msg : m = req[i].msg
      BY <2>1
    <2>5. /\ i \in DOMAIN req' /\ req'[i].msg = m /\ req'[i].form = "valid"
          /\ req'[i].puts > 0
      BY <1>1, <2>1, <2>3, <2>4 DEF Kept, Truthful
    <2>6. Published(m)'
      BY <2>5 DEF Published
    <2>7. Brings(m)
      BY <2>2, <2>4
    <2> QED
      BY <1>4, <2>6, <2>7
  <1>7. ASSUME NEW i \in DOMAIN req, RequestStep(i) PROVE PlacesInv'
    BY <1>5, <1>6, <1>7
       DEF RequestStep, Authorize, NoHeader, AuthorizerFails, Validate, PutRefused, busVars,
           lakeVars
  <1>8. ASSUME NEW m \in Msg, NEW t \in Target, Deliver(m, t) \/ Drop(m, t) PROVE PlacesInv'
    BY <1>4, <1>8, DeliveryBringsNothing DEF PlacesInv
  <1>9. ASSUME NEW m \in Msg, ToSnowflake(m) PROVE PlacesInv'
    BY <1>4, <1>9, ToSnowflakeBringsNothing DEF PlacesInv
  <1>10. ASSUME NEW prefix \in KeyPrefixes, Flush(prefix) PROVE PlacesInv'
    BY <1>3, <1>10, FlushBringsNothing DEF PlacesInv
  <1>11. CASE Auth!AuthNext /\ UNCHANGED <<req, busVars, lakeVars, made>>
    BY <1>5, <1>11 DEF busVars, lakeVars
  <1>12. CASE Send
    BY <1>5, <1>12 DEF Send, busVars, lakeVars
  <1>13. ASSUME NEW e \in Entity, Copy(e) PROVE PlacesInv'
    BY <1>5, <1>13 DEF Copy, busVars
  <1>14. CASE UNCHANGED vars
    BY <1>5, <1>14 DEF vars, busVars, lakeVars
  <1> QED
    BY <1>7, <1>8, <1>9, <1>10, <1>11, <1>12, <1>13, <1>14 DEF Next

LEMMA PlacesStart == Init => PlacesInv
  <1> SUFFICES ASSUME Init PROVE PlacesInv
    OBVIOUS
  <1>1. \A m \in Msg : ~Stored(m)
    BY DEF Init, Stored, NoneFor, None
  <1> QED
    BY <1>1 DEF Init, PlacesInv, PlacesOK, NoneFor, None

\* For every number of messages, copies and redeliveries: what the tables and
\* buckets hold was published by a request the router had accepted
\* (router/handler.py, 22-50, and the targets of ingest_stack.py).
THEOREM ValidStored == Spec => []OnlyValidStored
  <1>1. RequestInv /\ PlacesInv => OnlyValidStored
    <2> SUFFICES ASSUME RequestInv, PlacesInv, NEW m \in Msg,
                        events[m] + failures[m] > 0
                          \/ \E k \in DOMAIN objects : objects[k].rows[m] > 0
                 PROVE  Published(m)
      BY DEF OnlyValidStored, Published
    <2>1. events[m] \in Nat /\ failures[m] \in Nat
      BY DEF PlacesInv, PlacesOK
    <2> QED
      BY <2>1 DEF PlacesInv, Stored
  <1> QED
    BY <1>1, RequestsStart, RequestsKept, PlacesStart, PlacesKept, PTL DEF Spec

-----------------------------------------------------------------------------
(* What the API promises.                                                  *)

\* For every number of requests and of lost answers, 202 is said only of an
\* event that is on the bus, and a refusal only of one that is not
\* (router/handler.py, 22-50).
THEOREM AnswersTrue == Spec => []AnswersAreTrue
  <1>1. RequestInv => AnswersAreTrue
    BY DEF RequestInv, Truthful, AnswersAreTrue
  <1> QED
    BY <1>1, RequestsHold, PTL

\* However the secret and the environments change before a request is judged, a
\* token that was dead when it was sent publishes nothing (authorizer/handler.py).
THEOREM DeadTokens == Spec => []DeadTokenPublishesNothing
  <1>1. RequestInv => DeadTokenPublishesNothing
    BY DEF RequestInv, Refused, DeadTokenPublishesNothing
  <1> QED
    BY <1>1, RequestsHold, PTL

-----------------------------------------------------------------------------
(* Each copy is in one place.                                              *)

\* Copies of m in the objects of objs that S numbers.
Held(objs, S, m) == SumFunctionOnSet([i \in S |-> objs[i].rows[m]], S)

\* What some of the objects hold: a number, no less than one of them holds.
LEMMA HeldIs ==
    ASSUME NEW objs \in Seq(Object), NEW m \in Msg, NEW S \in SUBSET DOMAIN objs
    PROVE  /\ IsFiniteSet(S) /\ Held(objs, S, m) \in Nat
           /\ \A i \in S : objs[i].rows[m] \in Nat /\ objs[i].rows[m] <= Held(objs, S, m)
           /\ Held(objs, S, m) > 0 => \E i \in S : objs[i].rows[m] > 0
           /\ \A A, B \in SUBSET S : A \cap B = {} =>
                  Held(objs, A \cup B, m) = Held(objs, A, m) + Held(objs, B, m)
  <1> DEFINE f == [i \in DOMAIN objs |-> objs[i].rows[m]]
  <1>1. IsFiniteSet(DOMAIN objs)
    <2>1. DOMAIN objs = 1 .. Len(objs) /\ Len(objs) \in Nat
      OBVIOUS
    <2> QED BY <2>1, FS_Interval
  <1>2. \A T \in SUBSET DOMAIN objs : IsFiniteSet(T)
    BY <1>1, FS_Subset
  <1>3. \A i \in DOMAIN objs : f[i] = objs[i].rows[m] /\ f[i] \in Nat
    <2>1. \A i \in DOMAIN objs : objs[i] \in Object
      OBVIOUS
    <2> QED BY <2>1 DEF Object
  <1> HIDE DEF f
  <1>4. ASSUME NEW T \in SUBSET DOMAIN objs
        PROVE  Held(objs, T, m) = SumFunctionOnSet(f, T)
    <2> DEFINE g == [i \in T |-> objs[i].rows[m]]
    <2>1. \A i \in T : g[i] = f[i]
      BY <1>3
    <2> HIDE DEF g
    <2>2. SumFunctionOnSet(g, T) = SumFunctionOnSet(f, T)
      BY <1>2, <2>1, SumAgree
    <2> QED BY <2>2 DEF Held, g
  <1>5. /\ SumFunctionOnSet(f, S) \in Nat
        /\ \A i \in S : f[i] <= SumFunctionOnSet(f, S)
        /\ SumFunctionOnSet(f, S) > 0 <=> \E i \in S : f[i] > 0
    BY <1>2, <1>3, SumNat
  <1>6. ASSUME NEW A \in SUBSET S, NEW B \in SUBSET S, A \cap B = {}
        PROVE  Held(objs, A \cup B, m) = Held(objs, A, m) + Held(objs, B, m)
    <2>1. SumFunctionOnSet(f, A \cup B) = SumFunctionOnSet(f, A) + SumFunctionOnSet(f, B)
      <3>1. IsFiniteSet(A) /\ IsFiniteSet(B) /\ \A i \in A \cup B : f[i] \in Int
        BY <1>2, <1>3
      <3> QED BY <3>1, <1>6, SumUnion
    <2>2. A \cup B \in SUBSET DOMAIN objs
      OBVIOUS
    <2> QED BY <2>1, <2>2, <1>4
  <1> QED
    BY <1>2, <1>3, <1>4, <1>5, <1>6

\* What two groups of objects hold, when no object is in both.
LEMMA HeldSplit ==
    ASSUME NEW objs \in Seq(Object), NEW m \in Msg, NEW A \in SUBSET DOMAIN objs,
           NEW B \in SUBSET DOMAIN objs, A \cap B = {}
    PROVE  Held(objs, A \cup B, m) = Held(objs, A, m) + Held(objs, B, m)
  <1>1. DOMAIN objs \in SUBSET DOMAIN objs
    OBVIOUS
  <1>2. \A X, Y \in SUBSET DOMAIN objs : X \cap Y = {} =>
            Held(objs, X \cup Y, m) = Held(objs, X, m) + Held(objs, Y, m)
    BY <1>1, HeldIs
  <1> QED
    BY <1>2

\* Writing one more object leaves what the others hold.
LEMMA HeldLater ==
    ASSUME NEW objs \in Seq(Object), NEW o \in Object, NEW m \in Msg
    PROVE  /\ \A S \in SUBSET DOMAIN objs : Held(Append(objs, o), S, m) = Held(objs, S, m)
           /\ Held(Append(objs, o), DOMAIN Append(objs, o), m)
                  = Held(objs, DOMAIN objs, m) + o.rows[m]
  <1> DEFINE later == Append(objs, o)
             k == Len(objs) + 1
  <1>1. /\ later \in Seq(Object) /\ DOMAIN later = DOMAIN objs \cup {k} /\ k \notin DOMAIN objs
        /\ later[k] = o /\ \A i \in DOMAIN objs : later[i] = objs[i]
    OBVIOUS
  <1> HIDE DEF later, k
  <1>2. ASSUME NEW S \in SUBSET DOMAIN objs PROVE Held(later, S, m) = Held(objs, S, m)
    <2> DEFINE f == [i \in S |-> objs[i].rows[m]]
               g == [i \in S |-> later[i].rows[m]]
    <2>1. IsFiniteSet(S) /\ \A i \in S : f[i] = g[i]
      BY <1>1, HeldIs
    <2> HIDE DEF f, g
    <2>2. SumFunctionOnSet(f, S) = SumFunctionOnSet(g, S)
      BY <2>1, SumAgree
    <2> QED BY <2>2 DEF f, g, Held
  <1>3. Held(later, DOMAIN objs \cup {k}, m) = Held(later, DOMAIN objs, m) + Held(later, {k}, m)
    <2>1. /\ DOMAIN later \in SUBSET DOMAIN later /\ DOMAIN objs \in SUBSET DOMAIN later
          /\ {k} \in SUBSET DOMAIN later /\ DOMAIN objs \cap {k} = {}
      BY <1>1
    <2>2. \A A, B \in SUBSET DOMAIN later : A \cap B = {} =>
              Held(later, A \cup B, m) = Held(later, A, m) + Held(later, B, m)
      BY <1>1, <2>1, HeldIs
    <2> QED BY <2>1, <2>2
  <1>4. Held(later, {k}, m) = o.rows[m]
    <2> DEFINE f == [i \in {k} |-> later[i].rows[m]]
    <2>1. f[k] = o.rows[m] /\ f[k] \in Int
      BY <1>1 DEF Object
    <2> HIDE DEF f
    <2>2. IsFiniteSet({k}) /\ {k} \ {k} = {}
      BY FS_Singleton
    <2>3. SumFunctionOnSet(f, {k}) = f[k] + SumFunctionOnSet(f, {k} \ {k})
      BY <2>1, <2>2, SumAny
    <2>4. SumFunctionOnSet(f, {k} \ {k}) = 0
      BY <2>2, SumEmpty, Zenon
    <2>5. SumFunctionOnSet(f, {k}) = f[k]
      BY <2>1, <2>3, <2>4
    <2> QED BY <2>1, <2>5 DEF f, Held
  <1> QED
    BY <1>1, <1>2, <1>3, <1>4 DEF later


\* A sum over the targets.
LEMMA TargetSum ==
    ASSUME NEW f, \A t \in Target : f[t] \in Int
    PROVE  SumFunctionOnSet(f, Target) = f["snowflake"] + f["s3"]
  <1>1. IsFiniteSet({"s3"}) /\ Target = {"s3"} \cup {"snowflake"}
    BY FS_Singleton DEF Target
  <1>2. SumFunctionOnSet(f, {"s3"}) = f["s3"]
    <2>1. SumFunctionOnSet(f, {"s3"}) = f["s3"] + SumFunctionOnSet(f, {"s3"} \ {"s3"})
      BY <1>1, SumAny
    <2>2. {"s3"} \ {"s3"} = {}
      OBVIOUS
    <2> QED BY <1>1, <2>1, <2>2, SumEmpty
  <1>3. SumFunctionOnSet(f, {"s3"} \cup {"snowflake"})
            = f["snowflake"] + SumFunctionOnSet(f, {"s3"})
    BY <1>1, SumInsert
  <1> QED BY <1>1, <1>2, <1>3

\* Every count of copies.
TalliesOK ==
    /\ PlacesOK
    /\ dropped \in [Msg -> Nat] /\ made \in 0 .. MaxCopies

\* The copies of m behind the API that are not in an object.
Loose(m) ==
    owed[m]["snowflake"] + buffered[m]["snowflake"] + owed[m]["s3"] + buffered[m]["s3"]
        + events[m] + failures[m] + dropped[m]

\* The copies of m are in those places, or in an object.
LEMMA EverywhereIs ==
    ASSUME TalliesOK, NEW m \in Msg
    PROVE  Everywhere(m) = Loose(m) + Rows(m) /\ Loose(m) \in Nat /\ Rows(m) \in Nat
  <1> DEFINE f == [t \in Target |-> owed[m][t] + buffered[m][t]]
  <1>1. \A t \in Target : f[t] = owed[m][t] + buffered[m][t] /\ f[t] \in Nat
    BY DEF TalliesOK, PlacesOK
  <1>2. "s3" \in Target /\ "snowflake" \in Target
    BY DEF Target
  <1> HIDE DEF f
  <1>3. SumFunctionOnSet(f, Target) = f["snowflake"] + f["s3"]
    BY <1>1, TargetSum
  <1>4. Rows(m) \in Nat
    <2>1. Rows(m) = Held(objects, DOMAIN objects, m)
      BY DEF Rows, Copies, Held
    <2>2. objects \in Seq(Object) /\ DOMAIN objects \in SUBSET DOMAIN objects
      BY DEF TalliesOK, PlacesOK
    <2> QED
      BY <2>1, <2>2, HeldIs
  <1>5. /\ owed[m]["snowflake"] \in Nat /\ owed[m]["s3"] \in Nat
        /\ buffered[m]["snowflake"] \in Nat /\ buffered[m]["s3"] \in Nat
        /\ events[m] \in Nat /\ failures[m] \in Nat /\ dropped[m] \in Nat
    BY <1>2 DEF TalliesOK, PlacesOK
  <1>6. Everywhere(m) = SumFunctionOnSet(f, Target) + events[m] + failures[m] + dropped[m] + Rows(m)
    BY DEF Everywhere, f
  <1> QED
    BY <1>1, <1>2, <1>3, <1>4, <1>5, <1>6 DEF Loose

\* The same of every event, to be read of the next state too.
Located == \A m \in Msg : Everywhere(m) = Loose(m) + Rows(m) /\ Rows(m) \in Nat

LEMMA AllLocated == TalliesOK => Located
  BY EverywhereIs DEF Located

\* A step that adds d copies of m, and of no other event.
Adds(m, d) ==
    /\ TalliesOK' /\ made' = made + d
    /\ \A n \in Msg : Everywhere(n)' = Everywhere(n) + IF n = m THEN d ELSE 0

\* What is added to one event's copies is added to the sum.
LEMMA AddsKeeps ==
    ASSUME TalliesOK, EveryCopyInOnePlace, NEW m \in Msg, NEW d \in {0, 1}, Adds(m, d)
    PROVE  TalliesOK' /\ EveryCopyInOnePlace'
  <1> DEFINE f == [n \in Msg |-> Everywhere(n)]
             g == [n \in Msg |-> Everywhere(n)']
  <1>1. \A n \in Msg : Everywhere(n) \in Nat
    BY EverywhereIs
  <1>2. \A n \in Msg : f[n] \in Int /\ g[n] = f[n] + IF n = m THEN d ELSE 0
    BY <1>1 DEF Adds
  <1>3. IsFiniteSet(Msg)
    BY IngestAssumption
  <1>4. /\ made = SumFunctionOnSet(f, Msg)
        /\ EveryCopyInOnePlace' <=> made' = SumFunctionOnSet(g, Msg)
    BY DEF EveryCopyInOnePlace
  <1> HIDE DEF f, g
  <1>5. SumFunctionOnSet(g, Msg) = SumFunctionOnSet(f, Msg) + (g[m] - f[m])
    <2>1. \A n \in Msg : f[n] \in Int /\ g[n] \in Int
      BY <1>2
    <2>2. \A n \in Msg \ {m} : g[n] = f[n]
      BY <1>2
    <2> QED
      BY <2>1, <2>2, <1>3, SumChange
  <1>6. g[m] - f[m] = d
    BY <1>2
  <1> QED
    BY <1>4, <1>5, <1>6 DEF Adds

\* A step that leaves the objects adds what it adds to the counts.
LEMMA AddsByCounts ==
    ASSUME TalliesOK, TalliesOK', objects' = objects, NEW m \in Msg, NEW d \in {0, 1},
           made' = made + d, \A n \in Msg : Loose(n)' = Loose(n) + IF n = m THEN d ELSE 0
    PROVE  Adds(m, d)
  <1>1. ASSUME NEW n \in Msg
        PROVE  Everywhere(n)' = Everywhere(n) + IF n = m THEN d ELSE 0
    <2>1. Rows(n)' = Rows(n)
      BY DEF Rows, Copies
    <2>2. Everywhere(n) = Loose(n) + Rows(n) /\ Loose(n) \in Nat /\ Rows(n) \in Nat
      BY EverywhereIs
    <2>3. (Everywhere(n) = Loose(n) + Rows(n))'
      <3>1. Located'
        BY AllLocated, PTL
      <3> QED BY <3>1 DEF Located
    <2> QED
      BY <2>1, <2>2, <2>3
  <1> QED
    BY <1>1 DEF Adds

\* The rules put a copy in just one place.
LEMMA PutAdds ==
    ASSUME TalliesOK, NEW m \in Msg, owed' = [owed EXCEPT ![m] = OnBus(m)],
           made < MaxCopies, made' = made + 1,
           UNCHANGED <<buffered, events, failures, dropped, objects>>
    PROVE  Adds(m, 1)
  <1>1. PlacesOK'
    BY PutBrings DEF TalliesOK, Brings
  <1>2. TalliesOK'
    BY <1>1, IngestAssumption DEF TalliesOK
  <1>3. /\ owed \in [Msg -> [Target -> Nat]] /\ buffered \in [Msg -> [Target -> Nat]]
        /\ events \in [Msg -> Nat] /\ failures \in [Msg -> Nat] /\ dropped \in [Msg -> Nat]
        /\ "snowflake" \in Target /\ "s3" \in Target
    BY DEF TalliesOK, PlacesOK, Target
  <1>4. \A n \in Msg : owed'[n] = IF n = m THEN OnBus(m) ELSE owed[n]
    BY <1>3
  <1>5. OnBus(m)["snowflake"] + OnBus(m)["s3"] = owed[m]["snowflake"] + owed[m]["s3"] + 1
    <2>1. "snowflake" \in Targets(Type[m]) <=> ~("s3" \in Targets(Type[m]))
      BY <1>3 DEF Targets
    <2>2. \A t \in Target :
              OnBus(m)[t] = owed[m][t] + IF t \in Targets(Type[m]) THEN 1 ELSE 0
      BY DEF OnBus
    <2> QED
      BY <1>3, <2>1, <2>2
  <1>6. OnBus(m)["snowflake"] \in Nat /\ OnBus(m)["s3"] \in Nat
    BY <1>3 DEF OnBus
  <1>7. ASSUME NEW n \in Msg PROVE Loose(n)' = Loose(n) + IF n = m THEN 1 ELSE 0
    BY <1>3, <1>4, <1>5, <1>6 DEF Loose
  <1> QED
    BY <1>2, <1>7, AddsByCounts

LEMMA OneCountIs ==
    ASSUME NEW f \in [Msg -> [Target -> Nat]], NEW m \in Msg, NEW t \in Target, NEW v
    PROVE  \A n \in Msg, u \in Target :
               [f EXCEPT ![m][t] = v][n][u] = IF n = m /\ u = t THEN v ELSE f[n][u]
  OBVIOUS

\* A delivery moves a copy to the stream, and may leave it on the bus for once more.
LEMMA DeliverAdds ==
    ASSUME TalliesOK, NEW m \in Msg, NEW t \in Target, Deliver(m, t)
    PROVE  \E d \in {0, 1} : Adds(m, d)
  <1>1. PICK d \in {0, 1} : /\ made + d <= MaxCopies /\ made' = made + d
                            /\ owed' = [owed EXCEPT ![m][t] = @ - 1 + d]
    BY DEF Deliver
  <1>2. /\ buffered' = [buffered EXCEPT ![m][t] = buffered[m][t] + 1]
        /\ UNCHANGED <<events, failures, dropped, objects>>
    BY DEF Deliver, lakeVars
  <1>3. TalliesOK'
    <2>1. PlacesOK'
      BY DeliveryBringsNothing DEF TalliesOK, Brings
    <2> QED
      BY <2>1, <1>1, <1>2, IngestAssumption DEF TalliesOK
  <1>4. /\ owed \in [Msg -> [Target -> Nat]] /\ buffered \in [Msg -> [Target -> Nat]]
        /\ events \in [Msg -> Nat] /\ failures \in [Msg -> Nat] /\ dropped \in [Msg -> Nat]
        /\ Target = {"snowflake", "s3"}
    BY DEF TalliesOK, PlacesOK, Target
  <1>5. \A n \in Msg, u \in Target :
            /\ owed'[n][u] = IF n = m /\ u = t THEN owed[m][t] - 1 + d ELSE owed[n][u]
            /\ buffered'[n][u] = IF n = m /\ u = t THEN buffered[m][t] + 1 ELSE buffered[n][u]
    BY <1>1, <1>2, <1>4, OneCountIs
  <1>6. ASSUME NEW n \in Msg PROVE Loose(n)' = Loose(n) + IF n = m THEN d ELSE 0
    <2>1. /\ owed[n]["snowflake"] \in Nat /\ owed[n]["s3"] \in Nat
          /\ buffered[n]["snowflake"] \in Nat /\ buffered[n]["s3"] \in Nat
          /\ events[n] \in Nat /\ failures[n] \in Nat /\ dropped[n] \in Nat
      BY <1>4
    <2> QED
      BY <1>2, <1>4, <1>5, <2>1 DEF Loose
  <1>7. Adds(m, d)
    BY <1>1, <1>2, <1>3, <1>6, AddsByCounts
  <1> QED
    BY <1>7

\* A delivery given up is counted.
LEMMA DropAdds ==
    ASSUME TalliesOK, NEW m \in Msg, NEW t \in Target, Drop(m, t)
    PROVE  Adds(m, 0)
  <1>1. /\ owed' = [owed EXCEPT ![m][t] = owed[m][t] - 1]
        /\ dropped' = [dropped EXCEPT ![m] = dropped[m] + 1]
        /\ UNCHANGED <<buffered, events, failures, objects, made>>
    BY DEF Drop, lakeVars
  <1>2. /\ owed \in [Msg -> [Target -> Nat]] /\ buffered \in [Msg -> [Target -> Nat]]
        /\ events \in [Msg -> Nat] /\ failures \in [Msg -> Nat] /\ dropped \in [Msg -> Nat]
        /\ Target = {"snowflake", "s3"} /\ made \in Nat
    BY IngestAssumption DEF TalliesOK, PlacesOK, Target
  <1>3. TalliesOK'
    <2>1. PlacesOK'
      BY DeliveryBringsNothing DEF TalliesOK, Brings
    <2> QED
      BY <2>1, <1>1, <1>2 DEF TalliesOK
  <1>4. \A n \in Msg, u \in Target :
            owed'[n][u] = IF n = m /\ u = t THEN owed[m][t] - 1 ELSE owed[n][u]
    BY <1>1, <1>2, OneCountIs
  <1>5. \A n \in Msg : dropped'[n] = dropped[n] + IF n = m THEN 1 ELSE 0
    BY <1>1, <1>2
  <1>6. ASSUME NEW n \in Msg PROVE Loose(n)' = Loose(n) + IF n = m THEN 0 ELSE 0
    <2>1. /\ owed[n]["snowflake"] \in Nat /\ owed[n]["s3"] \in Nat
          /\ buffered[n]["snowflake"] \in Nat /\ buffered[n]["s3"] \in Nat
          /\ events[n] \in Nat /\ failures[n] \in Nat /\ dropped[n] \in Nat
      BY <1>2
    <2> QED
      BY <1>1, <1>2, <1>4, <1>5, <2>1 DEF Loose
  <1> QED
    BY <1>1, <1>2, <1>3, <1>6, AddsByCounts

\* A record is inserted, or backed up.
LEMMA ToSnowflakeAdds ==
    ASSUME TalliesOK, NEW m \in Msg, ToSnowflake(m)
    PROVE  Adds(m, 0)
  <1>1. /\ buffered' = [buffered EXCEPT ![m]["snowflake"] = buffered[m]["snowflake"] - 1]
        /\ UNCHANGED <<owed, dropped, objects, made>>
    BY DEF ToSnowflake, lakeVars
  <1>2. /\ owed \in [Msg -> [Target -> Nat]] /\ buffered \in [Msg -> [Target -> Nat]]
        /\ events \in [Msg -> Nat] /\ failures \in [Msg -> Nat] /\ dropped \in [Msg -> Nat]
        /\ Target = {"snowflake", "s3"} /\ "snowflake" \in Target /\ made \in Nat
    BY IngestAssumption DEF TalliesOK, PlacesOK, Target
  <1>3. TalliesOK'
    <2>1. PlacesOK'
      BY ToSnowflakeBringsNothing DEF TalliesOK, Brings
    <2> QED
      BY <2>1, <1>1, <1>2 DEF TalliesOK
  <1>4. \A n \in Msg, u \in Target :
            buffered'[n][u] = IF n = m /\ u = "snowflake" THEN buffered[m]["snowflake"] - 1
                                                          ELSE buffered[n][u]
    BY <1>1, <1>2, OneCountIs
  <1>5. \A n \in Msg : events'[n] + failures'[n] = events[n] + failures[n] + IF n = m THEN 1 ELSE 0
    <2> SUFFICES ASSUME NEW n \in Msg
                 PROVE  events'[n] + failures'[n]
                            = events[n] + failures[n] + IF n = m THEN 1 ELSE 0
      OBVIOUS
    <2>1. CASE events' = [events EXCEPT ![m] = events[m] + 1] /\ failures' = failures
      <3>1. events'[n] = IF n = m THEN events[m] + 1 ELSE events[n]
        BY <1>2, <2>1
      <3>2. events[n] \in Nat /\ failures[n] \in Nat
        BY <1>2
      <3> QED
        BY <2>1, <3>1, <3>2
    <2>2. CASE failures' = [failures EXCEPT ![m] = failures[m] + 1] /\ events' = events
      <3>1. failures'[n] = IF n = m THEN failures[m] + 1 ELSE failures[n]
        BY <1>2, <2>2
      <3>2. events[n] \in Nat /\ failures[n] \in Nat
        BY <1>2
      <3> QED
        BY <2>2, <3>1, <3>2
    <2> QED
      BY <2>1, <2>2 DEF ToSnowflake
  <1>6. events' \in [Msg -> Nat] /\ failures' \in [Msg -> Nat]
    BY <1>3 DEF TalliesOK, PlacesOK
  <1>7. ASSUME NEW n \in Msg PROVE Loose(n)' = Loose(n) + IF n = m THEN 0 ELSE 0
    <2>1. /\ owed[n]["snowflake"] \in Nat /\ owed[n]["s3"] \in Nat
          /\ buffered[n]["snowflake"] \in Nat /\ buffered[n]["s3"] \in Nat
          /\ events[n] \in Nat /\ failures[n] \in Nat /\ dropped[n] \in Nat
          /\ events'[n] \in Nat /\ failures'[n] \in Nat
      BY <1>2, <1>6
    <2>2. /\ Loose(n)' = owed[n]["snowflake"] + buffered'[n]["snowflake"] + owed[n]["s3"]
                           + buffered'[n]["s3"] + events'[n] + failures'[n] + dropped[n]
          /\ buffered'[n]["s3"] = buffered[n]["s3"]
          /\ buffered'[n]["snowflake"] = buffered[n]["snowflake"] - IF n = m THEN 1 ELSE 0
      BY <1>1, <1>2, <1>4 DEF Loose
    <2> QED
      BY <1>5, <2>1, <2>2 DEF Loose
  <1> QED
    BY <1>1, <1>2, <1>3, <1>7, AddsByCounts

\* A flush moves what it takes from the buffer into one object, of its prefix's events.
LEMMA FlushAdds ==
    ASSUME TalliesOK, NEW prefix \in KeyPrefixes, Flush(prefix)
    PROVE  /\ TalliesOK' /\ made' = made
           /\ \A n \in Msg : Everywhere(n)' = Everywhere(n)
           /\ \E o \in Object : /\ objects' = Append(objects, o)
                                /\ \A m \in Msg : o.rows[m] > 0 => KeyPrefix(Type[m]) = o.prefix
  <1> DEFINE here == {m \in Msg : KeyPrefix(Type[m]) = prefix /\ buffered[m]["s3"] > 0}
             rows == [m \in Msg |-> IF m \in here THEN buffered[m]["s3"] ELSE 0]
             object == [prefix |-> prefix, rows |-> rows]
  <1>1. /\ owed \in [Msg -> [Target -> Nat]] /\ buffered \in [Msg -> [Target -> Nat]]
        /\ events \in [Msg -> Nat] /\ failures \in [Msg -> Nat] /\ dropped \in [Msg -> Nat]
        /\ Target = {"snowflake", "s3"} /\ objects \in Seq(Object)
    BY DEF TalliesOK, PlacesOK, Target
  <1>2. /\ UNCHANGED <<owed, events, failures, dropped, made>>
        /\ objects' = Append(objects, object)
        /\ buffered' = [m \in Msg |-> IF m \in here THEN [buffered[m] EXCEPT !["s3"] = 0]
                                                    ELSE buffered[m]]
    BY DEF Flush
  <1>3. \A m \in Msg : /\ buffered'[m]["snowflake"] = buffered[m]["snowflake"]
                       /\ buffered'[m]["s3"] = buffered[m]["s3"] - rows[m]
                       /\ rows[m] \in Nat /\ (rows[m] > 0 => m \in here)
    <2> SUFFICES ASSUME NEW m \in Msg
                 PROVE /\ buffered'[m]["snowflake"] = buffered[m]["snowflake"]
                       /\ buffered'[m]["s3"] = buffered[m]["s3"] - rows[m]
                       /\ rows[m] \in Nat /\ (rows[m] > 0 => m \in here)
      OBVIOUS
    <2>1. buffered[m]["s3"] \in Nat /\ buffered[m] \in [Target -> Nat]
      BY <1>1
    <2> QED BY <1>1, <1>2, <2>1
  <1>4. object \in Object /\ object.rows = rows /\ object.prefix = prefix
    <2>1. rows \in [Msg -> Nat]
      BY <1>3
    <2> HIDE DEF rows
    <2> QED BY <2>1 DEF Object
  <1>5. \A m \in Msg : object.rows[m] > 0 => KeyPrefix(Type[m]) = object.prefix
    BY <1>3, <1>4
  <1> HIDE DEF rows, object, here
  <1>6. TalliesOK'
    <2>1. PlacesOK'
      BY FlushBringsNothing DEF TalliesOK
    <2> QED
      BY <2>1, <1>2 DEF TalliesOK
  <1>7. ASSUME NEW n \in Msg PROVE Everywhere(n)' = Everywhere(n)
    <2>1. Rows(n)' = Rows(n) + rows[n]
      <3>1. Rows(n) = Held(objects, DOMAIN objects, n)
        BY DEF Rows, Copies, Held
      <3>2. Rows(n)' = Held(objects', DOMAIN objects', n)
        BY DEF Rows, Copies, Held
      <3> QED
        BY <1>1, <1>2, <1>4, <3>1, <3>2, HeldLater
    <2>2. Everywhere(n) = Loose(n) + Rows(n) /\ Loose(n) \in Nat /\ Rows(n) \in Nat
      BY EverywhereIs
    <2>3. (Everywhere(n) = Loose(n) + Rows(n))'
      <3>1. Located'
        BY <1>6, AllLocated, PTL
      <3> QED BY <3>1 DEF Located
    <2>4. Loose(n)' = Loose(n) - rows[n]
      <3>1. /\ owed[n]["snowflake"] \in Nat /\ owed[n]["s3"] \in Nat
            /\ buffered[n]["snowflake"] \in Nat /\ buffered[n]["s3"] \in Nat
            /\ events[n] \in Nat /\ failures[n] \in Nat /\ dropped[n] \in Nat
        BY <1>1
      <3>2. /\ buffered'[n]["snowflake"] = buffered[n]["snowflake"]
            /\ buffered'[n]["s3"] = buffered[n]["s3"] - rows[n] /\ rows[n] \in Nat
        BY <1>3
      <3>3. Loose(n)' = owed[n]["snowflake"] + buffered'[n]["snowflake"] + owed[n]["s3"]
                            + buffered'[n]["s3"] + events[n] + failures[n] + dropped[n]
        BY <1>2 DEF Loose
      <3> QED
        BY <3>1, <3>2, <3>3 DEF Loose
    <2>5. rows[n] \in Nat
      BY <1>3
    <2> QED
      BY <2>1, <2>2, <2>3, <2>4, <2>5
  <1> QED
    BY <1>2, <1>4, <1>5, <1>6, <1>7

\* Whatever step is taken, the copies made stay the copies there are.
LEMMA TalliesKept ==
    ASSUME RequestInv, TalliesOK, EveryCopyInOnePlace, [Next]_vars
    PROVE  TalliesOK' /\ EveryCopyInOnePlace'
  <1>1. CASE UNCHANGED <<owed, buffered, events, failures, dropped, objects, made>>
    <2>1. TalliesOK'
      BY <1>1 DEF TalliesOK, PlacesOK
    <2>2. EveryCopyInOnePlace'
      BY <1>1 DEF EveryCopyInOnePlace, Everywhere, Rows, Copies
    <2> QED
      BY <2>1, <2>2
  <1>2. ASSUME NEW i \in DOMAIN req, PutAccepted(i) \/ PutAnswerLost(i)
        PROVE  TalliesOK' /\ EveryCopyInOnePlace'
    <2>1. PICK m \in Msg : m = req[i].msg
      BY Fields DEF RequestInv
    <2>2. /\ owed' = [owed EXCEPT ![m] = OnBus(m)] /\ made < MaxCopies /\ made' = made + 1
          /\ UNCHANGED <<buffered, events, failures, dropped, objects>>
      BY <1>2, <2>1 DEF PutAccepted, PutAnswerLost, lakeVars
    <2>3. Adds(m, 1)
      BY <2>2, PutAdds
    <2> QED
      BY <2>3, AddsKeeps
  <1>3. ASSUME NEW i \in DOMAIN req, RequestStep(i)
        PROVE  TalliesOK' /\ EveryCopyInOnePlace'
    BY <1>1, <1>2, <1>3
       DEF RequestStep, Authorize, NoHeader, AuthorizerFails, Validate, PutRefused, busVars,
           lakeVars
  <1>4. ASSUME NEW m \in Msg, NEW t \in Target, Deliver(m, t)
        PROVE  TalliesOK' /\ EveryCopyInOnePlace'
    BY <1>4, DeliverAdds, AddsKeeps
  <1>5. ASSUME NEW m \in Msg, NEW t \in Target, Drop(m, t)
        PROVE  TalliesOK' /\ EveryCopyInOnePlace'
    BY <1>5, DropAdds, AddsKeeps
  <1>6. ASSUME NEW m \in Msg, ToSnowflake(m)
        PROVE  TalliesOK' /\ EveryCopyInOnePlace'
    BY <1>6, ToSnowflakeAdds, AddsKeeps
  <1>7. ASSUME NEW prefix \in KeyPrefixes, Flush(prefix)
        PROVE  TalliesOK' /\ EveryCopyInOnePlace'
    <2>1. /\ TalliesOK' /\ made' = made
          /\ \A n \in Msg : Everywhere(n)' = Everywhere(n)
      BY <1>7, FlushAdds
    <2>2. [n \in Msg |-> Everywhere(n)'] = [n \in Msg |-> Everywhere(n)]
      BY <2>1
    <2>3. EveryCopyInOnePlace' <=> made' = SumFunctionOnSet([n \in Msg |-> Everywhere(n)'], Msg)
      BY DEF EveryCopyInOnePlace
    <2> QED
      BY <2>1, <2>2, <2>3 DEF EveryCopyInOnePlace
  <1>8. CASE Auth!AuthNext /\ UNCHANGED <<req, busVars, lakeVars, made>>
    BY <1>1, <1>8 DEF busVars, lakeVars
  <1>9. CASE Send
    BY <1>1, <1>9 DEF Send, busVars, lakeVars
  <1>10. ASSUME NEW e \in Entity, Copy(e)
         PROVE  TalliesOK' /\ EveryCopyInOnePlace'
    BY <1>1, <1>10 DEF Copy, busVars
  <1>11. CASE UNCHANGED vars
    BY <1>1, <1>11 DEF vars, busVars, lakeVars
  <1> QED
    BY <1>3, <1>4, <1>5, <1>6, <1>7, <1>8, <1>9, <1>10, <1>11 DEF Next

LEMMA TalliesStart == Init => TalliesOK /\ EveryCopyInOnePlace
  <1> SUFFICES ASSUME Init PROVE TalliesOK /\ EveryCopyInOnePlace
    OBVIOUS
  <1>1. TalliesOK
    BY PlacesStart, IngestAssumption DEF Init, PlacesInv, TalliesOK, None
  <1>2. ASSUME NEW m \in Msg PROVE Everywhere(m) = 0
    <2>1. Rows(m) = 0
      <3>1. DOMAIN objects = {}
        BY DEF Init
      <3> QED BY <3>1, SumEmpty DEF Rows, Copies
    <2>2. Loose(m) = 0
      BY DEF Init, Loose, NoneFor, None, Target
    <2> QED
      BY <1>1, <2>1, <2>2, EverywhereIs
  <1>3. EveryCopyInOnePlace
    <2> DEFINE f == [m \in Msg |-> Everywhere(m)]
    <2>1. \A m \in Msg : f[m] = 0
      BY <1>2
    <2> HIDE DEF f
    <2>2. SumFunctionOnSet(f, Msg) = 0
      BY <2>1, SumNat, IngestAssumption
    <2> QED
      BY <2>2 DEF Init, EveryCopyInOnePlace, f
  <1> QED
    BY <1>1, <1>3

-----------------------------------------------------------------------------
(* The bucket and the raw tables.                                          *)

\* An object holds the events of its key prefix, a table has loaded objects COPY
\* lists for it, and each of them once.
LakeOK ==
    /\ history \in [Entity -> SUBSET DOMAIN objects]
    /\ raw \in [Entity -> [Msg -> Nat]]
    /\ LoadedOnce
    /\ \A e \in Entity : \A k \in history[e] : Lists(e, objects[k].prefix)
    /\ \A k \in DOMAIN objects, m \in Msg :
           objects[k].rows[m] > 0 => KeyPrefix(Type[m]) = objects[k].prefix

\* A COPY loads what it has not loaded.
LEMMA CopyKeeps ==
    ASSUME PlacesOK, LakeOK, NEW e \in Entity, Copy(e)
    PROVE  LakeOK'
  <1> DEFINE new == {i \in DOMAIN objects \ history[e] : Lists(e, objects[i].prefix)}
             was == history[e]
  <1>1. /\ objects' = objects /\ objects \in Seq(Object)
        /\ raw' = [raw EXCEPT ![e] = [m \in Msg |-> raw[e][m] + Copies(new, m)]]
        /\ history' = [history EXCEPT ![e] = was \cup new]
    BY DEF Copy, PlacesOK
  <1>2. /\ was \in SUBSET DOMAIN objects /\ new \in SUBSET DOMAIN objects
        /\ was \cap new = {} /\ was \cup new \in SUBSET DOMAIN objects
        /\ \A i \in new : Lists(e, objects[i].prefix)
    BY DEF LakeOK
  <1> HIDE DEF new, was
  <1>3. \A m \in Msg : /\ raw[e][m] = Held(objects, was, m)
                       /\ Copies(new, m) = Held(objects, new, m)
                       /\ Held(objects, new, m) \in Nat /\ Held(objects, was, m) \in Nat
                       /\ Held(objects, was \cup new, m)
                              = Held(objects, was, m) + Held(objects, new, m)
    <2> SUFFICES ASSUME NEW m \in Msg
                 PROVE /\ raw[e][m] = Held(objects, was, m)
                       /\ Copies(new, m) = Held(objects, new, m)
                       /\ Held(objects, new, m) \in Nat /\ Held(objects, was, m) \in Nat
                       /\ Held(objects, was \cup new, m)
                              = Held(objects, was, m) + Held(objects, new, m)
      OBVIOUS
    <2>1. \A A, B \in SUBSET DOMAIN objects : A \cap B = {} =>
              Held(objects, A \cup B, m) = Held(objects, A, m) + Held(objects, B, m)
      <3>1. DOMAIN objects \in SUBSET DOMAIN objects
        OBVIOUS
      <3> QED BY <1>1, <3>1, HeldIs
    <2>2. raw[e][m] = Held(objects, was, m) /\ Copies(new, m) = Held(objects, new, m)
      BY DEF LakeOK, LoadedOnce, Copies, Held, was
    <2>3. Held(objects, new, m) \in Nat /\ Held(objects, was, m) \in Nat
      BY <1>1, <1>2, HeldIs
    <2> QED
      BY <1>2, <2>1, <2>2, <2>3
  <1>4. history' \in [Entity -> SUBSET DOMAIN objects']
    BY <1>1, <1>2 DEF LakeOK
  <1>5. raw' \in [Entity -> [Msg -> Nat]]
    BY <1>1, <1>3 DEF LakeOK
  <1>6. ASSUME NEW x \in Entity, NEW m \in Msg
        PROVE  raw'[x][m] = Held(objects', history'[x], m)
    <2>1. CASE x = e
      <3>1. raw'[x][m] = raw[e][m] + Copies(new, m) /\ history'[x] = was \cup new
        BY <1>1, <2>1 DEF LakeOK
      <3> QED
        BY <1>1, <1>3, <3>1
    <2>2. CASE x # e
      <3>1. raw'[x][m] = raw[x][m] /\ history'[x] = history[x]
        BY <1>1, <2>2 DEF LakeOK
      <3>2. raw[x][m] = Held(objects, history[x], m)
        BY DEF LakeOK, LoadedOnce, Copies, Held
      <3> QED
        BY <1>1, <3>1, <3>2
    <2> QED
      BY <2>1, <2>2
  <1>7. LoadedOnce'
    BY <1>6 DEF LoadedOnce, Copies, Held
  <1>8. ASSUME NEW x \in Entity, NEW k \in history'[x]
        PROVE  Lists(x, objects'[k].prefix)
    <2>1. CASE x = e
      <3>1. k \in was \/ k \in new
        BY <1>1, <1>8, <2>1 DEF LakeOK
      <3> QED
        BY <1>1, <1>2, <2>1, <3>1 DEF LakeOK, was
    <2>2. CASE x # e
      BY <1>1, <1>8, <2>2 DEF LakeOK
    <2> QED
      BY <2>1, <2>2
  <1> QED
    BY <1>1, <1>4, <1>5, <1>7, <1>8 DEF LakeOK

\* An object written later changes nothing of those loaded.
LEMMA FlushKeeps ==
    ASSUME TalliesOK, LakeOK, NEW prefix \in KeyPrefixes, Flush(prefix)
    PROVE  LakeOK'
  <1>1. PICK o \in Object : /\ objects' = Append(objects, o)
                            /\ \A m \in Msg : o.rows[m] > 0 => KeyPrefix(Type[m]) = o.prefix
    BY FlushAdds
  <1>2. UNCHANGED <<history, raw>> /\ objects \in Seq(Object)
    BY DEF Flush, TalliesOK, PlacesOK
  <1>3. /\ DOMAIN objects \subseteq DOMAIN objects'
        /\ \A k \in DOMAIN objects : objects'[k] = objects[k]
        /\ \A k \in DOMAIN objects' : k \in DOMAIN objects \/ objects'[k] = o
    BY <1>1, <1>2
  <1>4. history' \in [Entity -> SUBSET DOMAIN objects'] /\ raw' \in [Entity -> [Msg -> Nat]]
    BY <1>2, <1>3 DEF LakeOK
  <1>5. ASSUME NEW e \in Entity, NEW m \in Msg
        PROVE  raw'[e][m] = Held(objects', history'[e], m)
    <2>1. history[e] \in SUBSET DOMAIN objects
      BY DEF LakeOK
    <2>2. Held(objects', history[e], m) = Held(objects, history[e], m)
      BY <1>1, <1>2, <2>1, HeldLater
    <2> QED
      BY <1>2, <2>2 DEF LakeOK, LoadedOnce, Copies, Held
  <1>6. LoadedOnce'
    BY <1>5 DEF LoadedOnce, Copies, Held
  <1>7. \A e \in Entity : \A k \in history'[e] : Lists(e, objects'[k].prefix)
    BY <1>2, <1>3 DEF LakeOK
  <1>8. \A k \in DOMAIN objects', m \in Msg :
            objects'[k].rows[m] > 0 => KeyPrefix(Type[m]) = objects'[k].prefix
    BY <1>1, <1>3 DEF LakeOK
  <1> QED
    BY <1>4, <1>6, <1>7, <1>8 DEF LakeOK

LEMMA LakeKept ==
    ASSUME TalliesOK, LakeOK, [Next]_vars
    PROVE  LakeOK'
  <1>1. CASE UNCHANGED lakeVars
    BY <1>1 DEF LakeOK, lakeVars, LoadedOnce, Copies
  <1>2. ASSUME NEW i \in DOMAIN req, RequestStep(i) PROVE LakeOK'
    BY <1>1, <1>2 DEF RequestStep, Authorize, NoHeader, AuthorizerFails, Validate, PutAccepted,
                      PutAnswerLost, PutRefused
  <1>3. ASSUME NEW m \in Msg, NEW t \in Target, Deliver(m, t) \/ Drop(m, t) PROVE LakeOK'
    BY <1>1, <1>3 DEF Deliver, Drop
  <1>4. ASSUME NEW m \in Msg, ToSnowflake(m) PROVE LakeOK'
    BY <1>1, <1>4 DEF ToSnowflake
  <1>5. ASSUME NEW prefix \in KeyPrefixes, Flush(prefix) PROVE LakeOK'
    BY <1>5, FlushKeeps
  <1>6. ASSUME NEW e \in Entity, Copy(e) PROVE LakeOK'
    BY <1>6, CopyKeeps DEF TalliesOK
  <1>7. CASE Auth!AuthNext /\ UNCHANGED <<req, busVars, lakeVars, made>>
    BY <1>1, <1>7
  <1>8. CASE Send
    BY <1>1, <1>8 DEF Send
  <1>9. CASE UNCHANGED vars
    BY <1>1, <1>9 DEF vars
  <1> QED
    BY <1>2, <1>3, <1>4, <1>5, <1>6, <1>7, <1>8, <1>9 DEF Next

LEMMA LakeStart == Init => LakeOK
  <1> SUFFICES ASSUME Init PROVE LakeOK
    OBVIOUS
  <1>1. objects = << >> /\ history = [e \in Entity |-> {}] /\ raw = [e \in Entity |-> None]
    BY DEF Init
  <1>2. LoadedOnce
    BY <1>1, SumEmpty DEF LoadedOnce, Copies, None
  <1> QED
    BY <1>1, <1>2 DEF LakeOK, None

-----------------------------------------------------------------------------
(* Where the rules, the jq query and the COPY path send an event.          *)

\* What is meant for BRONZE.RAW.EVENTS, or is there, is of a listed type.
Listed ==
    \A m \in Msg :
        owed[m]["snowflake"] > 0 \/ buffered[m]["snowflake"] > 0 \/ events[m] > 0 \/ failures[m] > 0
            => Type[m] \in SnowflakeTypes

\* A rule takes the listed types to Snowflake, and a copy stays on its way.
LEMMA ListedKept ==
    ASSUME RequestInv, PlacesOK, Listed, [Next]_vars
    PROVE  Listed'
  <1>1. CASE UNCHANGED <<owed, buffered, events, failures>>
    BY <1>1 DEF Listed
  <1>2. /\ owed \in [Msg -> [Target -> Nat]] /\ buffered \in [Msg -> [Target -> Nat]]
        /\ events \in [Msg -> Nat] /\ failures \in [Msg -> Nat] /\ Target = {"snowflake", "s3"}
    BY DEF PlacesOK, Target
  <1>3. ASSUME NEW i \in DOMAIN req, PutAccepted(i) \/ PutAnswerLost(i) PROVE Listed'
    <2>1. PICK m \in Msg : m = req[i].msg
      BY Fields DEF RequestInv
    <2>2. /\ owed' = [owed EXCEPT ![m] = OnBus(m)]
          /\ UNCHANGED <<buffered, events, failures>>
      BY <1>3, <2>1 DEF PutAccepted, PutAnswerLost
    <2>3. OnBus(m)["snowflake"] =
              owed[m]["snowflake"] + IF Type[m] \in SnowflakeTypes THEN 1 ELSE 0
      BY <1>2 DEF OnBus, Targets
    <2>4. \A n \in Msg : owed'[n] = IF n = m THEN OnBus(m) ELSE owed[n]
      BY <1>2, <2>2
    <2>5. owed[m]["snowflake"] \in Nat
      BY <1>2
    <2> QED
      BY <2>2, <2>3, <2>4, <2>5 DEF Listed
  <1>4. ASSUME NEW i \in DOMAIN req, RequestStep(i) PROVE Listed'
    BY <1>1, <1>3, <1>4
       DEF RequestStep, Authorize, NoHeader, AuthorizerFails, Validate, PutRefused, busVars
  <1>5. ASSUME NEW m \in Msg, NEW t \in Target, Deliver(m, t) PROVE Listed'
    <2>1. PICK again \in {0, 1} : owed' = [owed EXCEPT ![m][t] = owed[m][t] - 1 + again]
      BY <1>5 DEF Deliver
    <2>2. /\ owed[m][t] > 0 /\ buffered' = [buffered EXCEPT ![m][t] = buffered[m][t] + 1]
          /\ UNCHANGED <<events, failures>>
      BY <1>5 DEF Deliver
    <2>3. \A n \in Msg, u \in Target :
              /\ owed'[n][u] > 0 => owed[n][u] > 0
              /\ buffered'[n][u] > 0 => buffered[n][u] > 0 \/ owed[n][u] > 0
      BY <1>2, <2>1, <2>2, OneCountIs
    <2> QED
      BY <1>2, <2>2, <2>3 DEF Listed
  <1>6. ASSUME NEW m \in Msg, NEW t \in Target, Drop(m, t) PROVE Listed'
    <2>1. /\ owed[m][t] > 0 /\ owed' = [owed EXCEPT ![m][t] = owed[m][t] - 1]
          /\ UNCHANGED <<buffered, events, failures>>
      BY <1>6 DEF Drop
    <2>2. \A n \in Msg, u \in Target : owed'[n][u] > 0 => owed[n][u] > 0
      BY <1>2, <2>1, OneCountIs
    <2> QED
      BY <1>2, <2>1, <2>2 DEF Listed
  <1>7. ASSUME NEW m \in Msg, ToSnowflake(m) PROVE Listed'
    <2>1. /\ buffered[m]["snowflake"] > 0 /\ owed' = owed
          /\ buffered' = [buffered EXCEPT ![m]["snowflake"] = buffered[m]["snowflake"] - 1]
      BY <1>7 DEF ToSnowflake
    <2>2. \A n \in Msg : buffered'[n]["snowflake"] > 0 => buffered[n]["snowflake"] > 0
      BY <1>2, <2>1, OneCountIs
    <2>3. \A n \in Msg : n # m => events'[n] = events[n] /\ failures'[n] = failures[n]
      <3>1. CASE events' = [events EXCEPT ![m] = events[m] + 1] /\ failures' = failures
        BY <1>2, <3>1
      <3>2. CASE failures' = [failures EXCEPT ![m] = failures[m] + 1] /\ events' = events
        BY <1>2, <3>2
      <3> QED
        BY <1>7, <3>1, <3>2 DEF ToSnowflake
    <2> QED
      BY <2>1, <2>2, <2>3 DEF Listed
  <1>8. ASSUME NEW prefix \in KeyPrefixes, Flush(prefix) PROVE Listed'
    <2>1. UNCHANGED <<owed, events, failures>>
      BY <1>8 DEF Flush
    <2>2. \A n \in Msg : buffered'[n]["snowflake"] = buffered[n]["snowflake"]
      BY <1>2, <1>8 DEF Flush
    <2> QED
      BY <2>1, <2>2 DEF Listed
  <1>9. CASE Auth!AuthNext /\ UNCHANGED <<req, busVars, lakeVars, made>>
    BY <1>1, <1>9 DEF busVars
  <1>10. CASE Send
    BY <1>1, <1>10 DEF Send, busVars
  <1>11. ASSUME NEW e \in Entity, Copy(e) PROVE Listed'
    BY <1>1, <1>11 DEF Copy, busVars
  <1>12. CASE UNCHANGED vars
    BY <1>1, <1>12 DEF vars, busVars
  <1> QED
    BY <1>4, <1>5, <1>6, <1>7, <1>8, <1>9, <1>10, <1>11, <1>12 DEF Next

\* One path ends where another does if it is a prefix of it with its slash.
LEMMA SameWords ==
    ASSUME NEW W, NEW V, NEW slash, slash \notin W, NEW a \in Seq(V), NEW b \in Seq(W),
           IsPrefix(a \o <<slash>>, b \o <<slash>>)
    PROVE  a = b
  <1> DEFINE x == a \o <<slash>>
             y == b \o <<slash>>
  <1>1. /\ Len(x) = Len(a) + 1 /\ x[Len(a) + 1] = slash
        /\ \A i \in 1 .. Len(a) : x[i] = a[i]
    OBVIOUS
  <1>2. /\ Len(y) = Len(b) + 1 /\ y[Len(b) + 1] = slash
        /\ \A i \in 1 .. Len(b) : y[i] = b[i] /\ b[i] # slash
    OBVIOUS
  <1>3. /\ Len(a) \in Nat /\ Len(b) \in Nat
        /\ x \in Seq(V \cup {slash}) /\ y \in Seq(W \cup {slash})
    OBVIOUS
  <1> HIDE DEF x, y
  <1>4. Len(x) <= Len(y) /\ \A i \in 1 .. Len(x) : x[i] = y[i]
    <2>1. Len(x) <= Len(y) /\ SubSeq(x, 1, Len(x)) = SubSeq(y, 1, Len(x))
      BY DEF IsPrefix, x, y
    <2>2. \A i \in 1 .. Len(x) : SubSeq(x, 1, Len(x))[i] = x[i] /\ SubSeq(y, 1, Len(x))[i] = y[i]
      BY <1>1, <1>2, <1>3, <2>1
    <2> QED
      BY <2>1, <2>2
  <1>5. y[Len(a) + 1] = slash
    BY <1>1, <1>3, <1>4
  <1>6. Len(a) = Len(b)
    BY <1>1, <1>2, <1>3, <1>4, <1>5
  <1>7. \A i \in 1 .. Len(a) : a[i] = b[i]
    BY <1>1, <1>2, <1>3, <1>4, <1>6
  <1> QED
    BY <1>6, <1>7

LEMMA Pair ==
    ASSUME NEW x, NEW y
    PROVE  <<x, y>> = <<x>> \o <<y>>
  <1> DEFINE u == <<x>> \o <<y>>
             v == <<x, y>>
  <1>1. u \in Seq({x, y}) /\ Len(u) = 2 /\ u[1] = x /\ u[2] = y
    OBVIOUS
  <1>2. v \in Seq({x, y}) /\ Len(v) = 2 /\ v[1] = x /\ v[2] = y
    OBVIOUS
  <1> HIDE DEF u, v
  <1>3. \A i \in 1 .. 2 : i = 1 \/ i = 2
    OBVIOUS
  <1>4. u = v
    BY <1>1, <1>2, <1>3
  <1> QED
    BY <1>4 DEF u, v

LEMMA OneWord ==
    ASSUME NEW W, NEW x \in W
    PROVE  <<x>> \in Seq(W)
  OBVIOUS

\* If COPY lists for e the objects of m's key prefix, e is what m's type says.
LEMMA PrefixTells ==
    ASSUME NoSlash, NEW m \in Msg, NEW e \in Entity, Lists(e, KeyPrefix(Type[m]))
    PROVE  Text(EventType(Type[m])) = Text(e)
  <1>1. /\ Text(e) \in Seq(STRING) /\ Text(e) # <<"errors">>
        /\ Text(EventType(Type[m])) \in Seq(STRING \ {"/"})
    BY Zenon DEF NoSlash
  <1>2. "/" \notin STRING \ {"/"}
    BY Zenon
  <1>3. CASE Partitionable(Type[m])
    <2>1. IsPrefix(Text(e) \o <<"/">>, Text(EventType(Type[m])) \o <<"/">>)
      BY <1>3, Zenon DEF Lists, CopyPath, KeyPrefix
    <2>2. Text(e) = Text(EventType(Type[m]))
      BY <1>1, <1>2, <2>1, SameWords, Zenon
    <2> QED
      BY <2>2, Zenon
  <1>4. CASE ~Partitionable(Type[m])
    <2>1. <<"errors">> \in Seq({"errors"}) /\ "/" \notin {"errors"}
      <3>1. "errors" # "/"
        BY Zenon
      <3>2. "errors" \in {"errors"}
        BY Zenon
      <3> QED
        BY <3>1, <3>2, OneWord, Zenon
    <2>2. <<"errors", "/">> = <<"errors">> \o <<"/">>
      BY Pair, Zenon
    <2>3. IsPrefix(Text(e) \o <<"/">>, <<"errors">> \o <<"/">>)
      BY <1>4, <2>2, Zenon DEF Lists, CopyPath, KeyPrefix
    <2>4. Text(e) = <<"errors">>
      BY <1>1, <2>1, <2>3, SameWords, Zenon
    <2> QED
      BY <1>1, <2>4, Zenon
  <1> QED
    BY <1>3, <1>4, Zenon

LEMMA ListedStart == Init => Listed
  BY DEF Init, Listed, NoneFor, None, Target

-----------------------------------------------------------------------------
(* The theorems about what is behind the API.                              *)

\* The inductive invariant: each part needs the parts before it.
IngestInv ==
    /\ RequestInv /\ Len(req) <= MaxRequests
    /\ TalliesOK /\ EveryCopyInOnePlace
    /\ LakeOK /\ Listed

\* Requests are sent up to the bound.
LEMMA LengthKept ==
    ASSUME RequestInv, Len(req) <= MaxRequests, [Next]_vars
    PROVE  (Len(req) <= MaxRequests)'
  <1>1. req \in Seq(Request) /\ MaxRequests \in Nat /\ Len(req) \in Nat
    BY IngestAssumption DEF RequestInv
  <1>2. CASE Send
    <2>1. Len(req) < MaxRequests /\ \E r : req' = Append(req, r)
      BY <1>2 DEF Send
    <2> QED
      BY <1>1, <2>1
  <1>3. ASSUME NEW i \in DOMAIN req, RequestStep(i) PROVE Len(req') = Len(req)
    <2>1. \E r : req' = [req EXCEPT ![i] = r]
      BY <1>3, RequestStepMoves DEF Moves
    <2> QED
      BY <1>1, <2>1
  <1>4. CASE req' = req
    BY <1>1, <1>4
  <1> QED
    BY <1>1, <1>2, <1>3, <1>4
       DEF Next, Deliver, Drop, ToSnowflake, Flush, Copy, vars

LEMMA IngestStarts == Init => IngestInv
  <1>1. Init => Len(req) <= MaxRequests
    BY IngestAssumption DEF Init
  <1> QED
    BY <1>1, RequestsStart, TalliesStart, LakeStart, ListedStart DEF IngestInv

LEMMA IngestKeeps == IngestInv /\ [Next]_vars => IngestInv'
  <1> SUFFICES ASSUME IngestInv, [Next]_vars
               PROVE  IngestInv'
    OBVIOUS
  <1>1. RequestInv'
    BY RequestsKept DEF IngestInv
  <1>2. (Len(req) <= MaxRequests)'
    BY LengthKept DEF IngestInv
  <1>3. TalliesOK' /\ EveryCopyInOnePlace'
    BY TalliesKept DEF IngestInv
  <1>4. LakeOK'
    BY LakeKept DEF IngestInv
  <1>5. Listed'
    BY ListedKept DEF IngestInv, TalliesOK
  <1> QED
    BY <1>1, <1>2, <1>3, <1>4, <1>5 DEF IngestInv

LEMMA IngestHolds == Spec => []IngestInv
  BY IngestStarts, IngestKeeps, PTL DEF Spec

\* For every number of events, requests, redeliveries and flushes: the copies that
\* were made are the copies there are, or that were given up, so no step of the way
\* loses one or makes one unseen (the two rules and the streams of ingest_stack.py).
THEOREM CopiesConserved == Spec => []EveryCopyInOnePlace
  <1>1. IngestInv => EveryCopyInOnePlace
    BY DEF IngestInv
  <1> QED
    BY <1>1, IngestHolds, PTL

\* For every number of runs and of objects: a raw table has every row of each object
\* its COPY has loaded once (copy_raw_events.sql, 34-46).
THEOREM EachObjectOnce == Spec => []LoadedOnce
  <1>1. IngestInv => LoadedOnce
    BY DEF IngestInv, LakeOK
  <1> QED
    BY <1>1, IngestHolds, PTL

\* No place holds more than was made.
LEMMA PlaceBounds ==
    ASSUME TalliesOK, EveryCopyInOnePlace, NEW m \in Msg
    PROVE  Loose(m) \in Nat /\ Rows(m) \in Nat /\ Loose(m) + Rows(m) <= made
  <1> DEFINE f == [n \in Msg |-> Everywhere(n)]
  <1>1. \A n \in Msg : f[n] = Loose(n) + Rows(n) /\ Loose(n) \in Nat /\ Rows(n) \in Nat
    BY EverywhereIs
  <1>2. made = SumFunctionOnSet(f, Msg)
    BY DEF EveryCopyInOnePlace
  <1> HIDE DEF f
  <1>3. f[m] <= SumFunctionOnSet(f, Msg)
    <2>1. \A n \in Msg : f[n] \in Nat
      BY <1>1
    <2> QED
      BY <2>1, IngestAssumption, SumNat
  <1> QED
    BY <1>1, <1>2, <1>3

\* A part is no more than the whole.
LEMMA SevenCounts ==
    ASSUME NEW a \in Nat, NEW b \in Nat, NEW c \in Nat, NEW d \in Nat, NEW e \in Nat,
           NEW f \in Nat, NEW g \in Nat, NEW x \in Nat, a + b + c + d + e + f + g <= x
    PROVE  a <= x /\ b <= x /\ c <= x /\ d <= x /\ e <= x /\ f <= x /\ g <= x
  OBVIOUS

\* Every count stays within the copies made, since each copy is in one place.
THEOREM IngestTypeCorrect == Spec => []TypeOK
  <1>1. IngestInv => TypeOK
    <2> SUFFICES ASSUME IngestInv PROVE TypeOK
      OBVIOUS
    <2> USE DEF IngestInv
    <2>1. /\ owed \in [Msg -> [Target -> Nat]] /\ buffered \in [Msg -> [Target -> Nat]]
          /\ events \in [Msg -> Nat] /\ failures \in [Msg -> Nat] /\ dropped \in [Msg -> Nat]
          /\ objects \in Seq(Object) /\ Target = {"snowflake", "s3"} /\ made \in 0 .. MaxCopies
          /\ MaxCopies \in Nat
      BY IngestAssumption DEF TalliesOK, PlacesOK, Target
    <2>2. ASSUME NEW m \in Msg
          PROVE  /\ owed[m] \in [Target -> 0 .. MaxCopies]
                 /\ buffered[m] \in [Target -> 0 .. MaxCopies]
                 /\ events[m] \in 0 .. MaxCopies /\ failures[m] \in 0 .. MaxCopies
                 /\ dropped[m] \in 0 .. MaxCopies /\ Rows(m) \in 0 .. MaxCopies
      <3>1. Loose(m) \in Nat /\ Rows(m) \in Nat /\ Loose(m) + Rows(m) <= made
        BY PlaceBounds
      <3>2. /\ owed[m] \in [Target -> Nat] /\ buffered[m] \in [Target -> Nat]
            /\ owed[m]["snowflake"] \in Nat /\ owed[m]["s3"] \in Nat
            /\ buffered[m]["snowflake"] \in Nat /\ buffered[m]["s3"] \in Nat
            /\ events[m] \in Nat /\ failures[m] \in Nat /\ dropped[m] \in Nat
        BY <2>1
      <3>3. /\ owed[m]["snowflake"] <= MaxCopies /\ owed[m]["s3"] <= MaxCopies
            /\ buffered[m]["snowflake"] <= MaxCopies /\ buffered[m]["s3"] <= MaxCopies
            /\ events[m] <= MaxCopies /\ failures[m] <= MaxCopies /\ dropped[m] <= MaxCopies
            /\ Rows(m) <= MaxCopies
        <4>1. Loose(m) <= MaxCopies /\ Rows(m) <= MaxCopies
          <5>1. made \in Nat /\ made <= MaxCopies /\ MaxCopies \in Nat
            BY <2>1
          <5> QED
            BY <3>1, <5>1
        <4>2. Loose(m) = owed[m]["snowflake"] + buffered[m]["snowflake"] + owed[m]["s3"]
                             + buffered[m]["s3"] + events[m] + failures[m] + dropped[m]
          BY Zenon DEF Loose
        <4> QED
          BY <2>1, <3>2, <4>1, <4>2, SevenCounts
      <3> QED
        BY <2>1, <3>1, <3>2, <3>3
    <2>3. ASSUME NEW m \in Msg, NEW S \in SUBSET DOMAIN objects
          PROVE  /\ Held(objects, S, m) \in 0 .. MaxCopies
                 /\ \A i \in S : objects[i].rows[m] \in 0 .. MaxCopies
      <3> DEFINE D == DOMAIN objects
      <3>1. Rows(m) = Held(objects, D, m) /\ Rows(m) \in 0 .. MaxCopies
        BY <2>2 DEF Rows, Copies, Held
      <3>2. D \in SUBSET D /\ S \in SUBSET D /\ D \ S \in SUBSET D
            /\ S \cap (D \ S) = {} /\ S \cup (D \ S) = D
        OBVIOUS
      <3> HIDE DEF D
      <3>3. /\ Held(objects, S, m) \in Nat /\ Held(objects, D \ S, m) \in Nat
            /\ \A i \in S : objects[i].rows[m] \in Nat /\ objects[i].rows[m] <= Held(objects, S, m)
        BY <2>1, <3>2, HeldIs DEF D
      <3>4. Held(objects, D, m) = Held(objects, S, m) + Held(objects, D \ S, m)
        <4>1. Held(objects, S \cup (D \ S), m) = Held(objects, S, m) + Held(objects, D \ S, m)
          BY <2>1, <3>2, HeldSplit DEF D
        <4> QED
          BY <4>1, <3>2
      <3> QED
        BY <2>1, <3>1, <3>3, <3>4
    <2>4. Len(req) <= MaxRequests /\ \A i \in DOMAIN req : req[i] \in Request
      BY DEF RequestInv
    <2>5. owed \in [Msg -> [Target -> 0 .. MaxCopies]]
          /\ buffered \in [Msg -> [Target -> 0 .. MaxCopies]]
      BY <2>1, <2>2
    <2>6. events \in Count /\ failures \in Count /\ dropped \in Count
      BY <2>1, <2>2 DEF Count
    <2>7. \A i \in DOMAIN objects : objects[i].rows \in Count
      <3> SUFFICES ASSUME NEW i \in DOMAIN objects PROVE objects[i].rows \in Count
        OBVIOUS
      <3>1. objects[i].rows \in [Msg -> Nat]
        <4>1. objects[i] \in Object
          BY <2>1
        <4> QED
          BY <4>1 DEF Object
      <3>2. \A m \in Msg : objects[i].rows[m] \in 0 .. MaxCopies
        BY <2>3
      <3> QED
        BY <3>1, <3>2 DEF Count
    <2>8. history \in [Entity -> SUBSET DOMAIN objects] /\ raw \in [Entity -> Count]
      <3>1. history \in [Entity -> SUBSET DOMAIN objects] /\ raw \in [Entity -> [Msg -> Nat]]
        BY DEF LakeOK
      <3>2. ASSUME NEW e \in Entity, NEW m \in Msg PROVE raw[e][m] \in 0 .. MaxCopies
        <4>1. raw[e][m] = Held(objects, history[e], m)
          BY DEF LakeOK, LoadedOnce, Copies, Held
        <4> QED
          BY <2>3, <3>1, <4>1
      <3> QED
        BY <3>1, <3>2 DEF Count
    <2> QED
      BY <2>1, <2>4, <2>5, <2>6, <2>7, <2>8 DEF TypeOK, RequestInv
  <1> QED
    BY <1>1, IngestHolds, PTL

\* Whatever the types and the entities, if none has a slash in its words: a raw table
\* holds its entity's events only, and EVENTS listed types only (the rules and the
\* partition key of ingest_stack.py, the path of copy_raw_events.sql).
THEOREM EventsInTheirTables ==
    ASSUME NoSlash
    PROVE  Spec => []RightPlace
  <1>1. IngestInv => RightPlace
    <2> SUFFICES ASSUME IngestInv PROVE RightPlace
      OBVIOUS
    <2>1. ASSUME NEW m \in Msg, events[m] + failures[m] > 0
          PROVE  Type[m] \in SnowflakeTypes
      <3>1. events[m] \in Nat /\ failures[m] \in Nat
        BY DEF IngestInv, TalliesOK, PlacesOK
      <3>2. events[m] > 0 \/ failures[m] > 0
        BY <2>1, <3>1
      <3> QED
        BY <3>2 DEF IngestInv, Listed
    <2>2. ASSUME NEW e \in Entity, NEW m \in Msg, raw[e][m] > 0
          PROVE  Text(EventType(Type[m])) = Text(e)
      <3>1. history[e] \in SUBSET DOMAIN objects /\ objects \in Seq(Object)
        BY DEF IngestInv, LakeOK, TalliesOK, PlacesOK
      <3>2. Held(objects, history[e], m) > 0
        BY <2>2 DEF IngestInv, LakeOK, LoadedOnce, Copies, Held
      <3>3. PICK k \in history[e] : objects[k].rows[m] > 0
        BY <3>1, <3>2, HeldIs
      <3>4. Lists(e, KeyPrefix(Type[m]))
        BY <3>1, <3>3 DEF IngestInv, LakeOK
      <3> QED
        BY <3>4, PrefixTells
    <2> QED
      BY <2>1, <2>2 DEF RightPlace
  <1> QED
    BY <1>1, IngestHolds, PTL

\* The click table takes nothing from the way of an event: a behaviour of the two is
\* one of Ingest, so what is proved of Spec holds of ClicksSpec, which the runs check.
THEOREM ClicksAddsToIngest == ClicksSpec => Spec
  <1>1. ClicksInit => Init
    BY DEF ClicksInit
  <1>2. [ClicksNext]_<<vars, clicks>> => [Next]_vars
    BY DEF ClicksNext, Refresh
  <1> QED
    BY <1>1, <1>2, PTL DEF ClicksSpec, Spec
=============================================================================
