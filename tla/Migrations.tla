----------------------------- MODULE Migrations ------------------------------
(***************************************************************************)
(* schemachange deploying snowflake/scripts: the scripts whose statements  *)
(* cannot all be run twice, and those that make the access policies.  A    *)
(* deploy runs the scripts its history does not list, statement by         *)
(* statement.  When one fails, or the process dies, the next deploy runs   *)
(* that script again from its first statement.                             *)
(*                                                                         *)
(* autocommit is off, but a DDL statement of Snowflake commits the         *)
(* transaction it finds open: an INSERT is undone by a failure only while  *)
(* no DDL statement has followed it.                                       *)
(*                                                                         *)
(* Abstraction: the scripts left out can be repeated from any statement    *)
(* (CREATE IF NOT EXISTS, CREATE OR REPLACE, GRANT, and the ALTERs of      *)
(* V1.1.16 and V1.1.17, which set or drop what may be set or dropped       *)
(* already); the policies are those of the customer resource, and the two  *)
(* of V1.1.18 are one; two copies of a row are not told from more.         *)
(***************************************************************************)
EXTENDS Integers, Sequences

CONSTANTS
    Seed,        \* the INSERTs into ENTITLEMENTS of V1.1.12, one per user
    SeedOrder,   \* the same in the order of the script
    MaxFailures  \* bound: statements that fail without a reason of their own

\* MASK_CUSTOMER_PII_STRING, MASK_CUSTOMER_FINANCIAL_NUMBER, RAP_CUSTOMER.
Policies == <<"PII", "FINANCIAL", "RAP">>
Policy == {"PII", "FINANCIAL", "RAP"}

ASSUME MigrationsAssumption ==
    /\ SeedOrder \in Seq(Seed) /\ Seed = {SeedOrder[i] : i \in DOMAIN SeedOrder}
    /\ \A i, j \in DOMAIN SeedOrder : SeedOrder[i] = SeedOrder[j] => i = j
    /\ Seed \cap {"v1", "demo"} = {}
    /\ MaxFailures \in Nat

VARIABLES
    applied,      \* scripts in the change history
    next,         \* the statement a deploy in progress runs next; 0: none is
    failed,       \* failures so far
    entitlements, \* GOVERNANCE.SECURITY.ENTITLEMENTS: "none", or whose columns it has
    copies,       \* [INSERT]: how many times its rows are in its table, up to 2
    pending,      \* [INSERT]: how many more in the open transaction, up to 2
    attached,     \* the columns of CUSTOMERS_DEMO that have a policy
    integration,  \* is there the storage integration?
    body,         \* [policy]: none, or what its body reads: the variable, in which case
    granted       \* the policies DBT_ROLE has APPLY on

schemaVars == <<entitlements, copies, pending, attached, integration, body, granted>>
migrationVars == <<applied, next, failed, schemaVars>>

Insert == {"v1", "demo"} \cup Seed

-----------------------------------------------------------------------------
(* The scripts.                                                            *)

Each(op, list) == [i \in DOMAIN list |-> <<op, list[i]>>]

V1_1_4 == <<<<"create_if_missing", "v1">>, <<"insert", "v1">>, <<"replace", "v_entitlements">>>>

V1_1_5 == <<<<"create_if_missing", "demo">>, <<"insert", "demo">>, <<"attach", "email">>,
            <<"attach", "full_name">>, <<"attach", "region">>>>

V1_1_9 == <<<<"integration", "events_s3_int">>>>

\* Mutant: a table of that name is kept.
V1_1_12NoDrop ==
    <<<<"replace", "v_entitlements">>, <<"create_if_missing", "v2">>>>
        \o Each("insert", SeedOrder) \o <<<<"replace", "v_entitlements">>>>

V1_1_12 ==
    <<<<"replace", "v_entitlements">>, <<"drop_table", "entitlements">>,
      <<"create_table", "v2">>>>
        \o Each("insert", SeedOrder) \o <<<<"replace", "v_entitlements">>>>

V1_1_13 == Each("policy", Policies)

V1_1_14 == Each("grant", Policies)

V1_1_15 == Each("patch", Policies)

V1_1_18 == <<<<"policy_if_missing", "NO_PII">>, <<"grant", "NO_PII">>>>

Scripts == <<V1_1_4, V1_1_5, V1_1_9, V1_1_12, V1_1_13, V1_1_14, V1_1_15, V1_1_18>>

Deployed == applied = Len(Scripts)
Script == Scripts[applied + 1]
Running == next # 0

-----------------------------------------------------------------------------
None == [i \in Insert |-> 0]

MigrationsTypeOK ==
    /\ applied \in 0 .. Len(Scripts)
    /\ next \in 0 .. 6 + Len(SeedOrder)
    /\ failed \in 0 .. MaxFailures
    /\ entitlements \in {"none", "v1", "v2"}
    /\ copies \in [Insert -> 0 .. 2] /\ pending \in [Insert -> 0 .. 2]
    /\ attached \subseteq {"email", "full_name", "region"}
    /\ integration \in BOOLEAN
    /\ body \in [Policy \cup {"NO_PII"} -> {"none", "app_user_id", "APP_USER_ID", "role"}]
    /\ granted \subseteq Policy \cup {"NO_PII"}

MigrationsInit ==
    /\ applied = 0 /\ next = 0 /\ failed = 0
    /\ entitlements = "none" /\ copies = None /\ pending = None
    /\ attached = {} /\ integration = FALSE
    /\ body = [p \in Policy \cup {"NO_PII"} |-> "none"]
    /\ granted = {}

\* More than two are two.
Plus(a, b) == IF a + b > 2 THEN 2 ELSE a + b

Committed == [i \in Insert |-> Plus(copies[i], pending[i])]

\* A DDL statement commits, and then does what it does.
Commit == copies' = Committed /\ pending' = None

CreateTable(which) ==
    /\ Commit
    /\ entitlements' = IF which # "demo" /\ entitlements = "none" THEN which ELSE entitlements
    /\ UNCHANGED <<attached, integration, body, granted>>

\* DROP TABLE: with the rows of the two INSERTs there have been into it.
DropTable ==
    /\ entitlements' = "none"
    /\ copies' = [i \in Insert |-> IF i = "demo" THEN Committed[i] ELSE 0]
    /\ pending' = None
    /\ UNCHANGED <<attached, integration, body, granted>>

InsertRows(which) ==
    /\ pending' = [pending EXCEPT ![which] = Plus(@, 1)]
    /\ UNCHANGED <<entitlements, copies, attached, integration, body, granted>>

\* SET MASKING POLICY and ADD ROW ACCESS POLICY raise where there is one.
Attach(column) ==
    /\ column \notin attached
    /\ attached' = attached \cup {column}
    /\ Commit
    /\ UNCHANGED <<entitlements, integration, body, granted>>

\* V1.1.13 reads the variable in lower case, V1.1.15 in upper case.
SetBody(p, text) ==
    /\ body' = [body EXCEPT ![p] = text]
    /\ Commit
    /\ UNCHANGED <<entitlements, attached, integration, granted>>

Grant(p) ==
    /\ granted' = granted \cup {p}
    /\ Commit
    /\ UNCHANGED <<entitlements, attached, integration, body>>

Effect(op, on) ==
    \/ op = "create_if_missing" /\ CreateTable(on)
    \/ op = "create_table" /\ entitlements = "none" /\ CreateTable(on)
    \/ op = "drop_table" /\ DropTable
    \/ op = "insert" /\ InsertRows(on)
    \/ op = "attach" /\ Attach(on)
    \/ op = "policy" /\ SetBody(on, "app_user_id")
    \/ op = "policy_if_missing" /\ SetBody(on, IF body[on] = "none" THEN "role" ELSE body[on])
    \/ op = "patch" /\ SetBody(on, "APP_USER_ID")
    \/ op = "grant" /\ Grant(on)
    \/ op = "integration" /\ integration' = TRUE /\ Commit
         /\ UNCHANGED <<entitlements, attached, body, granted>>
    \/ op = "replace" /\ Commit /\ UNCHANGED <<entitlements, attached, integration, body, granted>>

Refused(op, on) ==
    \/ op = "attach" /\ on \in attached
    \/ op = "create_table" /\ entitlements # "none"

-----------------------------------------------------------------------------
(* A deploy.                                                               *)

Start ==
    /\ ~Running /\ ~Deployed
    /\ next' = 1
    /\ UNCHANGED <<applied, failed, schemaVars>>

Execute ==
    /\ Running /\ next <= Len(Script)
    /\ Effect(Script[next][1], Script[next][2])
    /\ next' = next + 1
    /\ UNCHANGED <<applied, failed>>

\* The script is over: commit, a row of the change history, the next script.
Record ==
    /\ Running /\ next = Len(Script) + 1
    /\ Commit
    /\ applied' = applied + 1
    /\ next' = IF applied' = Len(Scripts) THEN 0 ELSE 1
    /\ UNCHANGED <<failed, entitlements, attached, integration, body, granted>>

\* Mutant: the history row of the script before is rolled back with it.
FailForgets ==
    /\ Running
    /\ \/ next <= Len(Script) /\ Refused(Script[next][1], Script[next][2]) /\ UNCHANGED failed
       \/ failed < MaxFailures /\ failed' = failed + 1
    /\ next' = 0
    /\ applied' = IF applied = 0 THEN 0 ELSE applied - 1
    /\ copies' \in {copies, Committed} /\ pending' = None
    /\ UNCHANGED <<entitlements, attached, integration, body, granted>>

\* A statement raises, or the process dies before it, or after the last one and
\* before the history row.  What was pending is rolled back, unless the
\* statement was DDL and committed it first.
Fail ==
    /\ Running
    /\ \/ next <= Len(Script) /\ Refused(Script[next][1], Script[next][2]) /\ UNCHANGED failed
       \/ failed < MaxFailures /\ failed' = failed + 1
    /\ next' = 0
    /\ copies' \in {copies, Committed} /\ pending' = None
    /\ UNCHANGED <<applied, entitlements, attached, integration, body, granted>>

MigrationsNext == Start \/ Execute \/ Record \/ Fail

\* The operator deploys again after a failure.
MigrationsFairness == WF_migrationVars(MigrationsNext)

-----------------------------------------------------------------------------
(* Properties.                                                             *)

\* Once V1.1.12 is in the history each user's entitlements are in the table
\* once, however often the script was begun: Snowflake does not enforce
\* pk_entitlements, and policies would not tell.
EntitledOnce ==
    applied >= 4 => entitlements = "v2" /\ \A u \in Seed : copies[u] = 1 /\ pending[u] = 0

\* V1.1.13 replaces its policies, which Snowflake refuses of one in use, and would
\* take back a patch of V1.1.15: it never runs again once dbt may attach one.
PoliciesNotReplacedInUse ==
    Running /\ next <= Len(Script) /\ Script[next][1] = "policy" => Script[next][2] \notin granted

\* A deploy that fails can be run again, to the end of the scripts, unless the
\* failure left CUSTOMERS_DEMO with some of the policies of V1.1.5.
Stuck == applied = 1 /\ attached # {} /\ ~Running
DeployCanBeRepeated == <>(Deployed \/ Stuck)
=============================================================================
