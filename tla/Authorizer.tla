----------------------------- MODULE Authorizer -----------------------------
(***************************************************************************)
(* The token authorizer (infra/lambdas/authorizer/handler.py).  The secret *)
(* is read once, when an execution environment starts, and kept for its    *)
(* life; an operator may change it at any time, and environments start and *)
(* stop when Lambda likes.  API Gateway caches no decision                 *)
(* (results_cache_ttl 0), so a request meets whichever environment is      *)
(* warm and is judged by the token that one has cached.                    *)
(*                                                                         *)
(* Abstraction: a token is the number of the secret version it was issued  *)
(* with; a header with any other text is token 0.                          *)
(***************************************************************************)
EXTENDS Integers

CONSTANTS
    Environment,   \* Lambda execution environments of the authorizer
    MaxVersion     \* bound: versions the secret goes through

VARIABLES
    version,       \* the secret's current version
    cached         \* per environment: DEMO_TOKEN, or 0 while it is cold

authVars == <<version, cached>>

Cold == 0
Token == 0 .. MaxVersion

AuthTypeOK ==
    /\ version \in 1 .. MaxVersion
    /\ cached \in [Environment -> 0 .. MaxVersion]

AuthInit ==
    /\ version = 1
    /\ cached = [x \in Environment |-> Cold]

\* Mutant: nothing bounds the versions.
RotateOn ==
    /\ version' = version + 1
    /\ UNCHANGED cached

\* The operator replaces the secret's value.
Rotate ==
    /\ version < MaxVersion
    /\ version' = version + 1
    /\ UNCHANGED cached

\* Mutant: the cold start asks for the previous version of the secret.
ColdStartPrevious(x) ==
    /\ cached[x] = Cold
    /\ cached' = [cached EXCEPT ![x] = IF version > 1 THEN version - 1 ELSE version]
    /\ UNCHANGED version

\* An environment starts and runs the module body: get_secret_value.
ColdStart(x) ==
    /\ cached[x] = Cold
    /\ cached' = [cached EXCEPT ![x] = version]
    /\ UNCHANGED version

\* Mutant: the environment comes back from a snapshot, with what it had cached.
RecycleKeeps(x) ==
    /\ cached[x] # Cold
    /\ UNCHANGED authVars

\* Lambda retires an environment.
Recycle(x) ==
    /\ cached[x] # Cold
    /\ cached' = [cached EXCEPT ![x] = Cold]
    /\ UNCHANGED version

\* The handler's comparison, in a warm environment.
Allows(x, token) == cached[x] # Cold /\ cached[x] = token

AuthNext == Rotate \/ \E x \in Environment : ColdStart(x) \/ Recycle(x)

\* Lambda retires every environment in the end.
AuthFairness == \A x \in Environment : WF_authVars(Recycle(x))

AuthSpec == AuthInit /\ [][AuthNext]_authVars /\ AuthFairness

-----------------------------------------------------------------------------
(* Properties.                                                             *)

\* No environment knows the token and none will read it again.
Dead(token) == token # version /\ \A x \in Environment : cached[x] # token

\* A replaced token that no environment holds any more stays refused for good.
DeadStaysDead == [][\A t \in Token \ {0} : (t < version /\ Dead(t)) => Dead(t)']_authVars

\* "The authorizer Lambdas pick up the new value on next cold start"
\* (ingest_stack.py, 61-62): once the operator stops, every warm environment
\* comes to hold the current token.
RotationTakesEffect == <>[](\A x \in Environment : cached[x] \in {Cold, version})
=============================================================================
