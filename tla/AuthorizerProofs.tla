-------------------------- MODULE AuthorizerProofs ---------------------------
(***************************************************************************)
(* Theorems about Authorizer, for every set of environments and every      *)
(* number of rotations.                                                    *)
(***************************************************************************)
EXTENDS Authorizer, TLAPS

\* What Ingest and AnalystApi assume of the constant.
VersionAssumption == MaxVersion \in Nat \ {0}

\* An environment holds a version that has been current, or none.
Held == \A x \in Environment : cached[x] <= version

LEMMA AuthInvHolds ==
    ASSUME VersionAssumption
    PROVE  AuthSpec => [](AuthTypeOK /\ Held)
  <1>1. AuthInit => AuthTypeOK /\ Held
    BY DEF VersionAssumption, AuthInit, AuthTypeOK, Held, Cold
  <1>2. AuthTypeOK /\ Held /\ [AuthNext]_authVars => (AuthTypeOK /\ Held)'
    <2> SUFFICES ASSUME AuthTypeOK, Held, [AuthNext]_authVars
                 PROVE  (AuthTypeOK /\ Held)'
      OBVIOUS
    <2> USE DEF VersionAssumption, AuthTypeOK, Held
    <2>1. CASE Rotate
      BY <2>1 DEF Rotate
    <2>2. ASSUME NEW x \in Environment, ColdStart(x) PROVE (AuthTypeOK /\ Held)'
      BY <2>2 DEF ColdStart
    <2>3. ASSUME NEW x \in Environment, Recycle(x) PROVE (AuthTypeOK /\ Held)'
      BY <2>3 DEF Recycle, Cold
    <2>4. CASE UNCHANGED authVars
      BY <2>4 DEF authVars
    <2> QED
      BY <2>1, <2>2, <2>3, <2>4 DEF AuthNext
  <1> QED
    BY <1>1, <1>2, PTL DEF AuthSpec

\* The types of the authorizer's state: no environment caches a version that was
\* never issued (authorizer/handler.py, 14).
THEOREM AuthTypeCorrect ==
    ASSUME VersionAssumption
    PROVE  AuthSpec => []AuthTypeOK
  BY AuthInvHolds, PTL

\* Once the secret has moved on and the last environment that held a token has
\* been retired, nothing allows that token again (authorizer/handler.py, 14).
THEOREM DeadTokensStayDead ==
    ASSUME VersionAssumption
    PROVE  AuthSpec => DeadStaysDead
  <1>1. AuthTypeOK /\ Held /\ [AuthNext]_authVars =>
            [\A t \in Token \ {0} : (t < version /\ Dead(t)) => Dead(t)']_authVars
    <2> SUFFICES ASSUME AuthTypeOK, Held, AuthNext,
                        NEW t \in Token \ {0}, t < version, Dead(t)
                 PROVE  Dead(t)'
      OBVIOUS
    <2> USE DEF VersionAssumption, AuthTypeOK, Token, Dead
    <2>1. CASE Rotate
      BY <2>1 DEF Rotate
    <2>2. ASSUME NEW x \in Environment, ColdStart(x) PROVE Dead(t)'
      BY <2>2 DEF ColdStart
    <2>3. ASSUME NEW x \in Environment, Recycle(x) PROVE Dead(t)'
      BY <2>3 DEF Recycle, Cold
    <2> QED
      BY <2>1, <2>2, <2>3 DEF AuthNext
  <1> QED
    BY <1>1, AuthInvHolds, PTL DEF AuthSpec, DeadStaysDead
=============================================================================
