------------------------------ MODULE Rollout --------------------------------
(***************************************************************************)
(* The platform brought up from nothing: cdk deploy, schemachange and dbt, *)
(* each begun again after it fails, with the values copied between them.   *)
(***************************************************************************)
EXTENDS Governance

rolloutVars == <<migrationVars, deploymentVars, governanceVars>>

RolloutTypeOK == MigrationsTypeOK /\ DeploymentTypeOK /\ GovernanceTypeOK

RolloutInit == MigrationsInit /\ DeploymentInit /\ GovernanceInit

Migrate ==
    /\ stack = 0 /\ MigrationsNext
    /\ UNCHANGED <<deploymentVars, governanceVars>>

\* The bound on failures is one for the three.
Failing == failed < MaxFailures /\ failed' = failed + 1 /\ UNCHANGED <<applied, next, schemaVars>>

DeployStacks ==
    /\ \/ UNCHANGED migrationVars
          /\ (Synth \/ SnowflakeSecretStack \/ IngestStack \/ AnalystStack \/ RollBack)
       \/ Failing /\ RollBackAny
    /\ UNCHANGED governanceVars

FillIn == (EditEnv \/ PutSecretValue) /\ UNCHANGED <<migrationVars, governanceVars>>

DbtRun ==
    /\ \/ UNCHANGED migrationVars /\ RunNext
       \/ Failing /\ RunDies
    /\ UNCHANGED deploymentVars

RolloutNext == Migrate \/ DeployStacks \/ FillIn \/ DbtRun

\* The operator goes on until it is done; the schedule goes on.
RolloutSpec ==
    /\ RolloutInit /\ [][RolloutNext]_rolloutVars
    /\ WF_rolloutVars(Migrate) /\ WF_rolloutVars(DeployStacks)
    /\ WF_rolloutVars(FillIn) /\ WF_rolloutVars(DbtRun)

-----------------------------------------------------------------------------
(* Properties.                                                             *)

\* No one sees a row of the view without an entitlement to it, not while the view
\* is replaced and its columns are not masked yet, nor while V1.1.12 to V1.1.15 run:
\* dbt makes the view with the policy (sv_dim_customers.yml).
RowsNeedEntitlement ==
    \A u \in Seed, o \in Customer : RowVisible(u, o) => Entitlement[u] \cap About(o) # {}

\* What sv_dim_customers.yml and V1.1.18 say of a row and a column.
Documented(u, o, c, noPii) ==
    /\ Entitlement[u] \cap About(o) # {}
    /\ c \in {"first_name", "last_name"} => Entitlement[u] \cap AtLeast(1) # {} /\ ~noPii
    /\ c = "customer_lifetime_value" => Entitlement[u] \cap AtLeast(2) # {}

Asked == {"customer_id", "first_name", "last_name", "customer_lifetime_value"}

\* Every policy that a post-hook is to set on c has been set.
Covered(c) ==
    \A r \in {Table, View} : \A i \in DOMAIN Columns(r) : Columns(r)[i] = c => Masks(r, c)

\* From the moment its policies are set a column shows no more than is documented,
\* though the run has died with the next column bare, and however far the scripts are;
\* and when these are deployed the view, half masked or not, shows no less.
ShowsAsDocumented ==
    \A u \in Seed, o \in Customer, c \in Asked, noPii \in BOOLEAN :
        /\ Covered(c) /\ Shown(u, o, c, noPii) => Documented(u, o, c, noPii)
        /\ Deployed /\ masked[View] >= 0 /\ Documented(u, o, c, noPii) => Shown(u, o, c, noPii)

\* The connection the operator has put into the secret survives later deploys of
\* the stack that made it with a placeholder.
ConnectionKept == [][connection = "real" => connection' = "real"]_rolloutVars

\* The platform comes up, whatever fails on the way: the role ends up trusting
\* Snowflake's identity, Firehose and the analyst have an account, and Firehose a key,
\* and stay so, and the view is published again and again; unless V1.1.5 is stuck
\* before there is an integration.
ComesUp ==
    \/ <>Stuck
    \/ /\ <>[](Deployed /\ CopyWorks /\ FirehoseWorks /\ AnalystWorks)
       /\ []<>AllMasked(View)
=============================================================================
