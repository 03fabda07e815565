----------------------------- MODULE Deployment ------------------------------
(***************************************************************************)
(* cdk deploy of the three stacks of infra/app.py, the two-step bootstrap  *)
(* of the role Snowflake reads the events bucket with, and the values the  *)
(* operator copies by hand: .env and the Firehose connection secret.       *)
(*                                                                         *)
(* One operator types one command at a time: no cdk deploy while           *)
(* schemachange runs.                                                      *)
(*                                                                         *)
(* Abstraction: no -c flags; of .env the keys a deploy can do without; the *)
(* other keys and .secrets/cortex_key.p8 are there, or app.py raises.      *)
(***************************************************************************)
EXTENDS Migrations

VARIABLES
    env,        \* the repository's .env
    synth,      \* what the deploy in progress was synthesised from
    stack,      \* the stack it is at: 0, none is in progress; 1, 2, 3
    deployed,   \* the stacks that exist
    trust,      \* whom the role of the ingest stack trusts
    accountUrl, \* the account Firehose delivers to
    connection, \* the Firehose connection secret
    cortex      \* the account of the analyst's secret

deploymentVars == <<env, synth, stack, deployed, trust, accountUrl, connection, cortex>>

\* The identity DESC INTEGRATION shows: Snowflake's user and its external id.
Snowflake == <<"iam_user", "external_id">>

\* .env.example: empty account and external id, a principal that does not exist.
Example == [account |-> "unset", iam_user |-> "placeholder", external_id |-> "unset"]

Env == [account : {"unset", "acct"}, iam_user : {"placeholder", "iam_user"},
        external_id : {"unset", "external_id"}]

DeploymentTypeOK ==
    /\ env \in Env /\ synth \in Env /\ stack \in 0 .. 3 /\ deployed \subseteq 1 .. 3
    /\ trust \in {<<"root">>, Snowflake}
    /\ accountUrl \in {"REPLACE_ME", "acct"}
    /\ connection \in {"none", "placeholder", "real"}
    /\ cortex \in {"none", "unset", "acct"}

DeploymentInit ==
    /\ env = Example /\ synth = Example /\ stack = 0 /\ deployed = {}
    /\ trust = <<"root">> /\ accountUrl = "REPLACE_ME" /\ connection = "none" /\ cortex = "none"

-----------------------------------------------------------------------------
(* What a stack is made of.                                                *)

\* The account root, until both values are known.
TrustPolicy(e) ==
    IF e.iam_user # "unset" /\ e.external_id # "unset" THEN <<e.iam_user, e.external_id>> ELSE <<"root">>

\* IAM refuses a principal that does not exist, and an empty external id.
Accepted(policy) == policy \in {<<"root">>, Snowflake}

\* Mutant: no default.
AccountUrlEmpty(e) == e.account

AccountUrl(e) == IF e.account = "unset" THEN "REPLACE_ME" ELSE e.account

\* Mutant: the value is different each time.
ConnectionAnew(secret) == "placeholder"

\* CloudFormation writes the secret's value when it creates it, and again when the
\* template's value has changed: it is a constant.
Connection(secret) == IF secret = "none" THEN "placeholder" ELSE secret

-----------------------------------------------------------------------------
(* The operator and the deploy.                                            *)

\* The operator fills in .env, one line at a time: the account; and once the
\* integration exists, what DESC INTEGRATION shows.
EditEnv ==
    /\ env # [account |-> "acct", iam_user |-> "iam_user", external_id |-> "external_id"]
    /\ \/ env' = [env EXCEPT !.account = "acct"]
       \/ integration /\ env' = [env EXCEPT !.iam_user = "iam_user"]
       \/ integration /\ env' = [env EXCEPT !.external_id = "external_id"]
    /\ env' # env
    /\ UNCHANGED <<synth, stack, deployed, trust, accountUrl, connection, cortex>>

\* Is there something a deploy would change?
OutOfDate ==
    \/ deployed # 1 .. 3
    \/ trust # TrustPolicy(env) \/ accountUrl # AccountUrl(env) \/ cortex # env.account

\* Mutant: a deploy takes the assembly of an earlier one.
SynthKept ==
    /\ stack = 0 /\ ~Running /\ OutOfDate
    /\ stack' = 1
    /\ UNCHANGED <<env, synth, deployed, trust, accountUrl, connection, cortex>>

\* cdk deploy --all: app.py runs once, and reads .env then.
Synth ==
    /\ stack = 0 /\ ~Running /\ OutOfDate
    /\ synth' = env
    /\ stack' = 1
    /\ UNCHANGED <<env, deployed, trust, accountUrl, connection, cortex>>

Done(s) ==
    /\ deployed' = deployed \cup {s}
    /\ stack' = IF s = 3 THEN 0 ELSE s + 1
    /\ UNCHANGED <<env, synth>>

SnowflakeSecretStack ==
    /\ stack = 1 /\ Done(1)
    /\ connection' = Connection(connection)
    /\ UNCHANGED <<trust, accountUrl, cortex>>

IngestStack ==
    /\ stack = 2 /\ Accepted(TrustPolicy(synth)) /\ Done(2)
    /\ trust' = TrustPolicy(synth)
    /\ accountUrl' = AccountUrl(synth)
    /\ UNCHANGED <<connection, cortex>>

AnalystStack ==
    /\ stack = 3 /\ Done(3)
    /\ cortex' = synth.account
    /\ UNCHANGED <<trust, accountUrl, connection>>

\* A stack is rolled back to what it was, and those after it are not begun.
RollBack ==
    /\ stack = 2 /\ ~Accepted(TrustPolicy(synth))
    /\ stack' = 0
    /\ UNCHANGED <<env, synth, deployed, trust, accountUrl, connection, cortex>>

\* The same for a reason of its own, or the command is interrupted.
RollBackAny ==
    /\ stack # 0
    /\ stack' = 0
    /\ UNCHANGED <<env, synth, deployed, trust, accountUrl, connection, cortex>>

\* aws secretsmanager put-secret-value, once the secret exists.
PutSecretValue ==
    /\ connection = "placeholder"
    /\ connection' = "real"
    /\ UNCHANGED <<env, synth, stack, deployed, trust, accountUrl, cortex>>

\* What COPY needs: the integration, and a role that trusts it.
CopyWorks == integration /\ 2 \in deployed /\ trust = Snowflake

\* What Firehose needs to deliver.
FirehoseWorks == 2 \in deployed /\ accountUrl = "acct" /\ connection = "real"

\* What the analyst Lambda needs to connect.
AnalystWorks == 3 \in deployed /\ cortex = "acct"
=============================================================================
