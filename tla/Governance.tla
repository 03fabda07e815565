----------------------------- MODULE Governance ------------------------------
(***************************************************************************)
(* dim_customers and the secured view over it, as a dbt run makes them:    *)
(* built first, then masked column by column by a post-hook, while         *)
(* schemachange deploys the policies.  And what a query of the view shows  *)
(* to whom, which the policies decide when it runs.                        *)
(*                                                                         *)
(* Abstraction: of the six secured views this one; of its columns the key, *)
(* the names and the lifetime value; the staging models a run needs are    *)
(* the COPY they begin with.                                               *)
(***************************************************************************)
EXTENDS Deployment

CONSTANTS
    Customer,      \* keys of customers
    Entitlement    \* [Seed -> sets of [level, object]]: the rows about customers

ASSUME GovernanceAssumption ==
    /\ "*" \notin Customer
    /\ Entitlement \in [Seed -> SUBSET [level : 0 .. 2, object : Customer \cup {"*"}]]

VARIABLES
    at,       \* the step of the dbt run; "idle"
    guarded,  \* does the view have a row access policy?
    masked    \* [relation]: how many of its columns are masked; -1: there is no relation

governanceVars == <<at, guarded, masked>>

Table == "dim_customers"
View == "sv_dim_customers"

\* The columns marked in the yml, in its order, with their data type.
Columns(r) ==
    IF r = Table THEN <<"first_name", "last_name">>
    ELSE <<"first_name", "last_name", "customer_lifetime_value">>

\* Mutant: every column is a string.
DataTypeString(c) == "varchar"

DataType(c) == IF c = "customer_lifetime_value" THEN "number" ELSE "varchar"

\* apply_rbac_masking for the table, apply_column_masking for the view.
PolicyFor(r, c) ==
    IF r = Table THEN "NO_PII" ELSE IF DataType(c) = "varchar" THEN "PII" ELSE "FINANCIAL"

Steps == {"idle", "build_table", "mask_table", "build_view", "mask_view"}

GovernanceTypeOK ==
    /\ at \in Steps /\ guarded \in BOOLEAN
    /\ masked \in [{Table, View} -> -1 .. 3]

GovernanceInit == at = "idle" /\ guarded = FALSE /\ masked = [r \in {Table, View} |-> -1]

-----------------------------------------------------------------------------
(* A dbt run.                                                              *)

StartRun == at = "idle" /\ at' = "build_table" /\ UNCHANGED <<guarded, masked>>

\* CREATE OR REPLACE TABLE: without the policies the old one had.  Its models of
\* staging come first, and need COPY.
BuildTable ==
    /\ at = "build_table" /\ CopyWorks
    /\ masked' = [masked EXCEPT ![Table] = 0]
    /\ at' = "mask_table"
    /\ UNCHANGED guarded

Usable(p) == p \in granted /\ body[p] # "none"

NextPolicy(r) == PolicyFor(r, Columns(r)[masked[r] + 1])

\* One ALTER ... SET MASKING POLICY of the post-hook of r.
MaskColumn(r) ==
    /\ masked[r] < Len(Columns(r))
    /\ Usable(NextPolicy(r))
    /\ masked' = [masked EXCEPT ![r] = @ + 1]
    /\ UNCHANGED <<at, guarded>>

MaskTable == at = "mask_table" /\ MaskColumn(Table)
MaskView == at = "mask_view" /\ MaskColumn(View)

AllMasked(r) == masked[r] = Len(Columns(r))

TableDone ==
    /\ at = "mask_table" /\ AllMasked(Table)
    /\ at' = "build_view"
    /\ UNCHANGED <<guarded, masked>>

ViewDone ==
    /\ at = "mask_view" /\ AllMasked(View)
    /\ at' = "idle"
    /\ UNCHANGED <<guarded, masked>>

\* Mutant: the view is made without the policy, for the post-hook to add it.
BuildViewBare ==
    /\ at = "build_view" /\ Usable("RAP")
    /\ masked' = [masked EXCEPT ![View] = 0]
    /\ guarded' = FALSE
    /\ at' = "mask_view"

\* CREATE OR REPLACE SECURE VIEW ... WITH ROW ACCESS POLICY.
BuildView ==
    /\ at = "build_view" /\ Usable("RAP")
    /\ masked' = [masked EXCEPT ![View] = 0]
    /\ guarded' = TRUE
    /\ at' = "mask_view"

\* What the run needs next is not there: the model fails, those after it are skipped.
RunFails ==
    /\ \/ at = "build_table" /\ ~CopyWorks
       \/ at = "build_view" /\ ~Usable("RAP")
       \/ at = "mask_table" /\ ~AllMasked(Table) /\ ~Usable(NextPolicy(Table))
       \/ at = "mask_view" /\ ~AllMasked(View) /\ ~Usable(NextPolicy(View))
    /\ at' = "idle"
    /\ UNCHANGED <<guarded, masked>>

\* The run dies.
RunDies == at # "idle" /\ at' = "idle" /\ UNCHANGED <<guarded, masked>>

RunNext ==
    \/ StartRun \/ BuildTable \/ MaskTable \/ TableDone \/ BuildView \/ MaskView \/ ViewDone
    \/ RunFails

-----------------------------------------------------------------------------
(* A query.  u: SET APP_USER_ID; noPii: is the role's name one of NO_PII?  *)

\* The row of entitlements a policy finds: committed, and by its name's case.
Finds(p, u, rows) ==
    /\ body[p] = "APP_USER_ID"
    /\ entitlements = "v2" /\ copies[u] > 0
    /\ Entitlement[u] \cap rows # {}

AtLeast(n) == {e \in [level : 0 .. 2, object : Customer \cup {"*"}] : e.level >= n}
About(o) == {e \in AtLeast(1) : e.object \in {"*", o}}

RowVisible(u, o) == masked[View] >= 0 /\ (guarded => Finds("RAP", u, About(o)))

\* Does r have a policy on c?
Masks(r, c) == \E i \in 1 .. masked[r] : i <= Len(Columns(r)) /\ Columns(r)[i] = c

ColumnVisible(u, c, noPii) ==
    /\ Masks(Table, c) => ~noPii
    /\ Masks(View, c) =>
           LET p == PolicyFor(View, c) IN Finds(p, u, AtLeast(IF p = "PII" THEN 1 ELSE 2))

Shown(u, o, c, noPii) == RowVisible(u, o) /\ ColumnVisible(u, c, noPii)
=============================================================================
