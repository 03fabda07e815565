--------------------------- MODULE RolloutProofs ----------------------------
(***************************************************************************)
(* Theorems about Rollout, for every list of entitlements, every set of    *)
(* customers and every number of failures.                                 *)
(***************************************************************************)
EXTENDS Rollout, SequenceTheorems, TLAPS

-----------------------------------------------------------------------------
(* What the scripts are made of.                                           *)

Known(op, on) ==
    \/ op = "create_if_missing" /\ on \in {"v1", "demo"}
    \/ op = "create_table" /\ on = "v2"
    \/ op \in {"drop_table", "integration", "replace"}
    \/ op = "insert" /\ on \in Insert
    \/ op = "attach" /\ on \in {"email", "full_name", "region"}
    \/ op \in {"policy", "patch"} /\ on \in Policy
    \/ op = "policy_if_missing" /\ on = "NO_PII"
    \/ op = "grant" /\ on \in Policy \cup {"NO_PII"}

Seeds == Len(SeedOrder)

\* Each, for any list.
LEMMA EachList ==
    ASSUME NEW S, NEW list \in Seq(S), NEW op
    PROVE  /\ Each(op, list) \in Seq({<<op, x>> : x \in S})
           /\ Len(Each(op, list)) = Len(list)
           /\ \A i \in 1 .. Len(list) : Each(op, list)[i] = <<op, list[i]>>
  <1>1. DOMAIN list = 1 .. Len(list) /\ \A i \in DOMAIN list : list[i] \in S
    OBVIOUS
  <1>2. Each(op, list) = [i \in 1 .. Len(list) |-> <<op, list[i]>>]
    BY <1>1 DEF Each
  <1>3. \A i \in 1 .. Len(list) : <<op, list[i]>> \in {<<op, x>> : x \in S}
    BY <1>1
  <1> QED
    BY <1>2, <1>3

\* Three statements, a list, and one more.
LEMMA ThreeAndMore ==
    ASSUME NEW S, NEW a \in S, NEW b \in S, NEW c \in S, NEW d \in S, NEW list \in Seq(S)
    PROVE  LET s == <<a, b, c>> \o list \o <<d>> IN
           /\ s \in Seq(S) /\ Len(s) = Len(list) + 4
           /\ s[1] = a /\ s[2] = b /\ s[3] = c /\ s[Len(list) + 4] = d
           /\ \A i \in 1 .. Len(list) : s[i + 3] = list[i]
  <1> DEFINE A == <<a, b, c>>
             C == <<d>>
             AB == A \o list
  <1>1. A \in Seq(S) /\ Len(A) = 3 /\ A[1] = a /\ A[2] = b /\ A[3] = c
    OBVIOUS
  <1>2. C \in Seq(S) /\ Len(C) = 1 /\ C[1] = d
    OBVIOUS
  <1>3. Len(list) \in Nat
    OBVIOUS
  <1> HIDE DEF A, C
  <1>4. /\ AB \in Seq(S) /\ Len(AB) = 3 + Len(list)
        /\ \A i \in 1 .. 3 + Len(list) : AB[i] = IF i <= 3 THEN A[i] ELSE list[i - 3]
    <2>1. /\ A \o list \in Seq(S) /\ Len(A \o list) = Len(A) + Len(list)
          /\ \A i \in 1 .. Len(A) + Len(list) :
                (A \o list)[i] = IF i <= Len(A) THEN A[i] ELSE list[i - Len(A)]
      <3>1. A \in Seq(S) /\ list \in Seq(S)
        BY <1>1
      <3> QED
        BY ONLY <3>1, ConcatProperties
    <2> QED
      BY <1>1, <2>1
  <1> HIDE DEF AB
  <1>5. /\ AB \o C \in Seq(S) /\ Len(AB \o C) = 4 + Len(list)
        /\ \A i \in 1 .. 4 + Len(list) :
              (AB \o C)[i] = IF i <= 3 + Len(list) THEN AB[i] ELSE C[i - (3 + Len(list))]
    <2>1. /\ AB \o C \in Seq(S) /\ Len(AB \o C) = Len(AB) + Len(C)
          /\ \A i \in 1 .. Len(AB) + Len(C) :
                (AB \o C)[i] = IF i <= Len(AB) THEN AB[i] ELSE C[i - Len(AB)]
      <3>1. AB \in Seq(S) /\ C \in Seq(S)
        BY <1>2, <1>4
      <3> QED
        BY ONLY <3>1, ConcatProperties
    <2> QED
      BY <1>2, <1>3, <1>4, <2>1
  <1>6. \A i \in 1 .. Len(list) : (AB \o C)[i + 3] = list[i]
    BY <1>3, <1>4, <1>5
  <1>7. /\ (AB \o C)[1] = a /\ (AB \o C)[2] = b /\ (AB \o C)[3] = c
        /\ (AB \o C)[Len(list) + 4] = d
    BY <1>1, <1>2, <1>3, <1>4, <1>5
  <1> QED
    BY <1>5, <1>6, <1>7, <1>3 DEF AB, A, C

\* V1.1.12, statement by statement.
LEMMA Script12 ==
    /\ Seeds \in Nat /\ Len(V1_1_12) = Seeds + 4
    /\ V1_1_12[1] = <<"replace", "v_entitlements">>
    /\ V1_1_12[2] = <<"drop_table", "entitlements">>
    /\ V1_1_12[3] = <<"create_table", "v2">>
    /\ \A i \in 1 .. Seeds : V1_1_12[i + 3] = <<"insert", SeedOrder[i]>>
    /\ V1_1_12[Seeds + 4] = <<"replace", "v_entitlements">>
  <1> DEFINE B == Each("insert", SeedOrder)
             a == <<"replace", "v_entitlements">>
             b == <<"drop_table", "entitlements">>
             c == <<"create_table", "v2">>
             I == {<<"insert", u>> : u \in Seed}
             S == {a, b, c} \cup I
  <1>1. SeedOrder \in Seq(Seed) /\ Seeds \in Nat
    BY MigrationsAssumption DEF Seeds
  <1>2. B \in Seq(I) /\ Len(B) = Seeds /\ \A i \in 1 .. Seeds : B[i] = <<"insert", SeedOrder[i]>>
    <2>1. /\ Each("insert", SeedOrder) \in Seq({<<"insert", x>> : x \in Seed})
          /\ Len(Each("insert", SeedOrder)) = Len(SeedOrder)
          /\ \A i \in 1 .. Len(SeedOrder) : Each("insert", SeedOrder)[i] = <<"insert", SeedOrder[i]>>
      BY ONLY <1>1, EachList
    <2> QED
      BY <2>1 DEF Seeds
  <1>3. V1_1_12 = <<a, b, c>> \o B \o <<a>>
    BY DEF V1_1_12
  <1> HIDE DEF a, b, c, B, I
  <1>4. a \in S /\ b \in S /\ c \in S /\ I \subseteq S
    OBVIOUS
  <1> HIDE DEF S
  <1>5. B \in Seq(S)
    BY ONLY <1>2, <1>4, SeqMonotonic
  <1> DEFINE s == <<a, b, c>> \o B \o <<a>>
  <1>6. /\ s \in Seq(S) /\ Len(s) = Len(B) + 4
        /\ s[1] = a /\ s[2] = b /\ s[3] = c /\ s[Len(B) + 4] = a
        /\ \A i \in 1 .. Len(B) : s[i + 3] = B[i]
    BY ONLY <1>4, <1>5, ThreeAndMore
  <1> HIDE DEF s
  <1>7. V1_1_12 = s
    BY <1>3 DEF s
  <1> QED
    BY <1>1, <1>2, <1>6, <1>7 DEF a, b, c

\* The scripts of the three policies.
LEMMA ScriptOfPolicies ==
    ASSUME NEW op
    PROVE  /\ Each(op, Policies) \in Seq({<<op, x>> : x \in Policy}) /\ Len(Each(op, Policies)) = 3
           /\ \A i \in 1 .. 3 : Each(op, Policies)[i] = <<op, Policies[i]>>
  <1>1. Policies \in Seq(Policy) /\ Len(Policies) = 3
    BY DEF Policies, Policy
  <1>2. /\ Each(op, Policies) \in Seq({<<op, x>> : x \in Policy})
        /\ Len(Each(op, Policies)) = Len(Policies)
        /\ \A i \in 1 .. Len(Policies) : Each(op, Policies)[i] = <<op, Policies[i]>>
    BY ONLY <1>1, EachList
  <1> QED
    BY <1>1, <1>2

LEMMA SeedsCount == Seeds \in Nat
  BY MigrationsAssumption DEF Seeds

\* What script n may do: policies are made by V1.1.13 only, granted after it; then
\* nothing but policies is touched, and at the end only NO_PII.
May(n, op, on) ==
    /\ Known(op, on)
    /\ n # 5 => op # "policy"
    /\ n < 6 => op # "grant"
    /\ n > 4 => op \in {"policy", "grant", "patch", "policy_if_missing"}
    /\ n > 7 => on = "NO_PII"

ScriptFacts(n) ==
    /\ Len(Scripts[n]) \in 1 .. Seeds + 5
    /\ \A i \in 1 .. Len(Scripts[n]) : May(n, Scripts[n][i][1], Scripts[n][i][2])

LEMMA ScriptsAre == \A n \in 1 .. 8 : ScriptFacts(n)
  <1>1. ScriptFacts(1)
    <2> DEFINE a == <<"create_if_missing", "v1">>
               b == <<"insert", "v1">>
               c == <<"replace", "v_entitlements">>
    <2>1. Scripts[1] = <<a, b, c>>
      BY DEF Scripts, V1_1_4
    <2>2. /\ May(1, a[1], a[2])
          /\ May(1, b[1], b[2])
          /\ May(1, c[1], c[2])
      BY DEF May, Known, Insert
    <2> HIDE DEF a, b, c
    <2>3. Len(Scripts[1]) = 3 /\ Scripts[1][1] = a /\ Scripts[1][2] = b /\ Scripts[1][3] = c
      BY <2>1
    <2>4. \A i \in 1 .. 3 : i \in {1, 2, 3}
      OBVIOUS
    <2> QED
      BY <2>2, <2>3, <2>4, SeedsCount DEF ScriptFacts
  <1>2. ScriptFacts(2)
    <2> DEFINE a == <<"create_if_missing", "demo">>
               b == <<"insert", "demo">>
               c == <<"attach", "email">>
               d == <<"attach", "full_name">>
               e == <<"attach", "region">>
    <2>1. Scripts[2] = <<a, b, c, d, e>>
      BY DEF Scripts, V1_1_5
    <2>2. /\ May(2, a[1], a[2])
          /\ May(2, b[1], b[2])
          /\ May(2, c[1], c[2])
          /\ May(2, d[1], d[2])
          /\ May(2, e[1], e[2])
      BY DEF May, Known, Insert
    <2> HIDE DEF a, b, c, d, e
    <2>3. /\ Len(Scripts[2]) = 5 /\ Scripts[2][1] = a /\ Scripts[2][2] = b
          /\ Scripts[2][3] = c /\ Scripts[2][4] = d /\ Scripts[2][5] = e
      BY <2>1
    <2>4. \A i \in 1 .. 5 : i \in {1, 2, 3, 4, 5}
      OBVIOUS
    <2> QED
      BY <2>2, <2>3, <2>4, SeedsCount DEF ScriptFacts
  <1>3. ScriptFacts(3)
    <2>1. Scripts[3] = <<<<"integration", "events_s3_int">>>>
      BY DEF Scripts, V1_1_9
    <2>2. May(3, "integration", "events_s3_int")
      BY DEF May, Known
    <2> QED
      BY <2>1, <2>2, SeedsCount DEF ScriptFacts
  <1>4. ScriptFacts(4)
    <2>1. /\ May(4, "replace", "v_entitlements") /\ May(4, "create_table", "v2")
          /\ May(4, "drop_table", "entitlements")
          /\ \A u \in Seed : May(4, "insert", u)
      BY DEF May, Known, Insert
    <2>2. \A i \in 1 .. Seeds : SeedOrder[i] \in Seed
      BY MigrationsAssumption DEF Seeds
    <2>3. ASSUME NEW i \in 1 .. Seeds + 4 PROVE May(4, V1_1_12[i][1], V1_1_12[i][2])
      <3>1. CASE i \in {1, 2, 3, Seeds + 4}
        <4>1. \/ V1_1_12[i] = <<"replace", "v_entitlements">>
              \/ V1_1_12[i] = <<"create_table", "v2">>
              \/ V1_1_12[i] = <<"drop_table", "entitlements">>
          BY <3>1, Script12
        <4>2. CASE V1_1_12[i] = <<"replace", "v_entitlements">>
          <5>1. V1_1_12[i][1] = "replace" /\ V1_1_12[i][2] = "v_entitlements"
            BY ONLY <4>2
          <5> QED
            BY <2>1, <5>1
        <4>3. CASE V1_1_12[i] = <<"create_table", "v2">>
          <5>1. V1_1_12[i][1] = "create_table" /\ V1_1_12[i][2] = "v2"
            BY ONLY <4>3
          <5> QED
            BY <2>1, <5>1
        <4>4. CASE V1_1_12[i] = <<"drop_table", "entitlements">>
          <5>1. V1_1_12[i][1] = "drop_table" /\ V1_1_12[i][2] = "entitlements"
            BY ONLY <4>4
          <5> QED
            BY <2>1, <5>1
        <4> QED
          BY <4>1, <4>2, <4>3, <4>4
      <3>2. CASE i \notin {1, 2, 3, Seeds + 4}
        <4>1. i - 3 \in 1 .. Seeds /\ (i - 3) + 3 = i
          BY <3>2, SeedsCount
        <4>2. V1_1_12[(i - 3) + 3] = <<"insert", SeedOrder[i - 3]>>
          BY <4>1, Script12
        <4>3. V1_1_12[i][1] = "insert" /\ V1_1_12[i][2] \in Seed
          BY <2>2, <4>1, <4>2
        <4> QED
          BY <2>1, <4>3
      <3> QED
        BY <3>1, <3>2
    <2>4. Scripts[4] = V1_1_12
      BY DEF Scripts
    <2>5. Len(V1_1_12) = Seeds + 4
      BY Script12
    <2> QED
      BY <2>3, <2>4, <2>5, SeedsCount DEF ScriptFacts
  <1>5. ScriptFacts(5)
    <2>1. \A p \in Policy : May(5, "policy", p)
      BY DEF May, Known
    <2>2. Len(Scripts[5]) = 3 /\ \A i \in 1 .. 3 : Scripts[5][i] = <<"policy", Policies[i]>>
      BY ScriptOfPolicies DEF Scripts, V1_1_13
    <2>3. \A i \in 1 .. 3 : Policies[i] \in Policy
      BY DEF Policies, Policy
    <2>4. \A i \in 1 .. 3 : Scripts[5][i][1] = "policy" /\ Scripts[5][i][2] \in Policy
      BY <2>2, <2>3
    <2> QED
      BY <2>1, <2>2, <2>4, SeedsCount DEF ScriptFacts
  <1>6. ScriptFacts(6)
    <2>1. \A p \in Policy : May(6, "grant", p)
      BY DEF May, Known
    <2>2. Len(Scripts[6]) = 3 /\ \A i \in 1 .. 3 : Scripts[6][i] = <<"grant", Policies[i]>>
      BY ScriptOfPolicies DEF Scripts, V1_1_14
    <2>3. \A i \in 1 .. 3 : Policies[i] \in Policy
      BY DEF Policies, Policy
    <2>4. \A i \in 1 .. 3 : Scripts[6][i][1] = "grant" /\ Scripts[6][i][2] \in Policy
      BY <2>2, <2>3
    <2> QED
      BY <2>1, <2>2, <2>4, SeedsCount DEF ScriptFacts
  <1>7. ScriptFacts(7)
    <2>1. \A p \in Policy : May(7, "patch", p)
      BY DEF May, Known
    <2>2. Len(Scripts[7]) = 3 /\ \A i \in 1 .. 3 : Scripts[7][i] = <<"patch", Policies[i]>>
      BY ScriptOfPolicies DEF Scripts, V1_1_15
    <2>3. \A i \in 1 .. 3 : Policies[i] \in Policy
      BY DEF Policies, Policy
    <2>4. \A i \in 1 .. 3 : Scripts[7][i][1] = "patch" /\ Scripts[7][i][2] \in Policy
      BY <2>2, <2>3
    <2> QED
      BY <2>1, <2>2, <2>4, SeedsCount DEF ScriptFacts
  <1>8. ScriptFacts(8)
    <2> DEFINE a == <<"policy_if_missing", "NO_PII">>
               b == <<"grant", "NO_PII">>
    <2>1. Scripts[8] = <<a, b>>
      BY DEF Scripts, V1_1_18
    <2>2. /\ May(8, a[1], a[2])
          /\ May(8, b[1], b[2])
      BY DEF May, Known, Insert
    <2> HIDE DEF a, b
    <2>3. Len(Scripts[8]) = 2 /\ Scripts[8][1] = a /\ Scripts[8][2] = b
      BY <2>1
    <2>4. \A i \in 1 .. 2 : i \in {1, 2}
      OBVIOUS
    <2> QED
      BY <2>2, <2>3, <2>4, SeedsCount DEF ScriptFacts
  <1> QED
    BY <1>1, <1>2, <1>3, <1>4, <1>5, <1>6, <1>7, <1>8

LEMMA ScriptCount == Len(Scripts) = 8
  BY DEF Scripts
-----------------------------------------------------------------------------
(* Types.                                                                  *)

SchemaTypeOK ==
    /\ entitlements \in {"none", "v1", "v2"}
    /\ copies \in [Insert -> 0 .. 2] /\ pending \in [Insert -> 0 .. 2]
    /\ attached \subseteq {"email", "full_name", "region"}
    /\ integration \in BOOLEAN
    /\ body \in [Policy \cup {"NO_PII"} -> {"none", "app_user_id", "APP_USER_ID", "role"}]
    /\ granted \subseteq Policy \cup {"NO_PII"}

\* The statement of a deploy in progress is one of its script, or just past it.
InScript == Running => applied < 8 /\ next <= Len(Script) + 1

LEMMA CommittedType ==
    ASSUME SchemaTypeOK
    PROVE  Committed \in [Insert -> 0 .. 2] /\ None \in [Insert -> 0 .. 2]
  BY DEF SchemaTypeOK, Committed, Plus, None

LEMMA EffectType ==
    ASSUME SchemaTypeOK, NEW op, NEW on, Known(op, on), Effect(op, on)
    PROVE  SchemaTypeOK'
  <1> USE DEF SchemaTypeOK, Commit
  <1>0. Committed \in [Insert -> 0 .. 2] /\ None \in [Insert -> 0 .. 2]
    BY CommittedType
  <1>1. CASE CreateTable(on) /\ on \in {"v1", "v2", "demo"}
    BY <1>0, <1>1 DEF CreateTable
  <1>2. CASE DropTable
    BY <1>0, <1>2 DEF DropTable
  <1>3. CASE InsertRows(on) /\ on \in Insert
    BY <1>3 DEF InsertRows, Plus
  <1>4. CASE Attach(on) /\ on \in {"email", "full_name", "region"}
    BY <1>0, <1>4 DEF Attach
  <1>5. ASSUME NEW p \in Policy \cup {"NO_PII"},
               NEW text \in {"none", "app_user_id", "APP_USER_ID", "role"}, SetBody(p, text)
        PROVE  SchemaTypeOK'
    BY <1>0, <1>5 DEF SetBody
  <1>6. CASE Grant(on) /\ on \in Policy \cup {"NO_PII"}
    BY <1>0, <1>6 DEF Grant
  <1>7. CASE integration' = TRUE /\ Commit /\ UNCHANGED <<entitlements, attached, body, granted>>
    BY <1>0, <1>7
  <1>8. CASE Commit /\ UNCHANGED <<entitlements, attached, integration, body, granted>>
    BY <1>0, <1>8
  <1> HIDE DEF SchemaTypeOK
  <1> QED
    BY <1>1, <1>2, <1>3, <1>4, <1>5, <1>6, <1>7, <1>8 DEF Effect, Known, SchemaTypeOK

LEMMA MigrationsType ==
    ASSUME MigrationsTypeOK, InScript, MigrationsNext
    PROVE  MigrationsTypeOK' /\ InScript'
  <1>1. SchemaTypeOK /\ applied \in 0 .. 8 /\ next \in 0 .. 6 + Seeds /\ failed \in 0 .. MaxFailures
    BY ScriptCount DEF MigrationsTypeOK, SchemaTypeOK, Seeds
  <1>2. Seeds \in Nat /\ MaxFailures \in Nat
    BY SeedsCount, MigrationsAssumption
  <1>3. ASSUME applied < 8 PROVE ScriptFacts(applied + 1) /\ applied + 1 \in 1 .. 8
    BY <1>1, <1>3, ScriptsAre
  <1>4. SchemaTypeOK' /\ applied' \in 0 .. 8 /\ next' \in 0 .. 6 + Seeds
            /\ failed' \in 0 .. MaxFailures /\ InScript'
    <2>1. CASE Start
      <3>1. applied < 8 /\ next' = 1 /\ UNCHANGED <<applied, failed, schemaVars>>
        BY <1>1, <2>1, ScriptCount DEF Start, Deployed
      <3>2. Len(Script) >= 1 /\ Script' = Script
        BY <1>3, <3>1 DEF ScriptFacts, Script
      <3> QED
        BY <1>1, <1>2, <3>1, <3>2 DEF InScript, Running, schemaVars, SchemaTypeOK
    <2>2. CASE Execute
      <3>1. /\ applied < 8 /\ next \in 1 .. Len(Script) /\ next' = next + 1
            /\ UNCHANGED <<applied, failed>>
            /\ Effect(Script[next][1], Script[next][2])
        BY <1>1, <1>3, <2>2 DEF Execute, Running, InScript, ScriptFacts, Script
      <3>2. Known(Script[next][1], Script[next][2]) /\ Len(Script) <= Seeds + 5
            /\ Len(Script) \in Nat
        <4>1. ScriptFacts(applied + 1)
          BY <1>3, <3>1
        <4>2. /\ Len(Script) \in 1 .. Seeds + 5
              /\ May(applied + 1, Script[next][1], Script[next][2])
          BY <3>1, <4>1 DEF ScriptFacts, Script
        <4> QED
          BY ONLY <1>2, <4>2 DEF May
      <3>3. SchemaTypeOK'
        BY <1>1, <3>1, <3>2, EffectType
      <3>4. Script' = Script
        BY <3>1 DEF Script
      <3> QED
        BY <1>1, <1>2, <3>1, <3>2, <3>3, <3>4 DEF InScript, Running
    <2>3. CASE Record
      <3>1. /\ applied < 8 /\ applied' = applied + 1
            /\ next' = IF applied' = 8 THEN 0 ELSE 1
            /\ failed' = failed
        BY <1>1, <2>3, ScriptCount DEF Record, Running, InScript
      <3>2. SchemaTypeOK'
        BY <1>1, <2>3, CommittedType DEF Record, Commit, SchemaTypeOK
      <3>3. applied' < 8 => Len(Script') >= 1
        <4>1. ASSUME applied' < 8 PROVE Len(Scripts[applied' + 1]) >= 1
          <5>1. applied' + 1 \in 1 .. 8
            BY <1>1, <3>1, <4>1
          <5>2. ScriptFacts(applied' + 1)
            BY <5>1, ScriptsAre
          <5> QED
            BY <1>2, <5>2 DEF ScriptFacts
        <4> QED
          BY <4>1 DEF Script
      <3> QED
        BY <1>1, <1>2, <3>1, <3>2, <3>3 DEF InScript, Running
    <2>4. CASE Fail
      <3>1. next' = 0 /\ applied' = applied /\ failed' \in 0 .. MaxFailures
        BY <1>1, <1>2, <2>4 DEF Fail
      <3>2. SchemaTypeOK'
        BY <1>1, <2>4, CommittedType DEF Fail, SchemaTypeOK
      <3> QED
        BY <1>1, <1>2, <3>1, <3>2 DEF InScript, Running
    <2> QED
      BY <2>1, <2>2, <2>3, <2>4 DEF MigrationsNext
  <1> QED
    BY <1>4, ScriptCount DEF MigrationsTypeOK, SchemaTypeOK, Seeds
-----------------------------------------------------------------------------
(* What a rerun of V1.1.12 does to the entitlements.                       *)

Once == entitlements = "v2" /\ \A u \in Seed : copies[u] = 1 /\ pending[u] = 0

\* The INSERTs of V1.1.12 that have run in the deploy in progress.
Ran(u) == \E i \in 1 .. Seeds : SeedOrder[i] = u /\ i + 3 < next

\* The statements of V1.1.12 in turn.  Whatever an earlier attempt has committed
\* goes with the table it drops, and the INSERTs stay pending until the last
\* statement, which is DDL.
EntitledInv ==
    /\ applied = 3 /\ next = 3 =>
           entitlements = "none" /\ \A u \in Seed : copies[u] = 0 /\ pending[u] = 0
    /\ applied = 3 /\ next \in 4 .. Seeds + 4 =>
           /\ entitlements = "v2"
           /\ \A u \in Seed : copies[u] = 0 /\ pending[u] = IF Ran(u) THEN 1 ELSE 0
    /\ applied = 3 /\ next = Seeds + 5 => Once
    /\ applied >= 4 => Once

\* A statement of a policy, and a failure, leave the entitlements once.
LEMMA OnceKept ==
    ASSUME SchemaTypeOK, Once, entitlements' = entitlements,
           \/ Commit
           \/ copies' \in {copies, Committed} /\ pending' = None
    PROVE  Once'
  <1>1. \A u \in Seed : u \in Insert
    BY DEF Insert
  <1>2. \A u \in Seed : Committed[u] = 1 /\ None[u] = 0
    BY <1>1 DEF Committed, Plus, None, Once
  <1> QED
    BY <1>1, <1>2 DEF Once, Commit

LEMMA EntitledKept ==
    ASSUME MigrationsTypeOK, InScript, EntitledInv, MigrationsNext
    PROVE  EntitledInv'
  <1>1. /\ SchemaTypeOK /\ applied \in 0 .. 8 /\ next \in 0 .. 6 + Seeds
        /\ Seeds \in Nat /\ Seeds >= 0
    BY ScriptCount, SeedsCount DEF MigrationsTypeOK, SchemaTypeOK, Seeds
  <1>2. CASE Start
    <2>1. next' = 1 /\ UNCHANGED <<applied, entitlements, copies, pending>>
      BY <1>2 DEF Start, schemaVars
    <2> QED
      BY <1>1, <2>1 DEF EntitledInv, Once
  <1>3. CASE Fail
    <2>1. /\ next' = 0 /\ UNCHANGED <<applied, entitlements>>
          /\ copies' \in {copies, Committed} /\ pending' = None
      BY <1>3 DEF Fail
    <2>2. applied >= 4 => Once'
      BY <1>1, <2>1, OnceKept DEF EntitledInv
    <2> QED
      BY <1>1, <2>1, <2>2 DEF EntitledInv
  <1>4. CASE Record
    <2>1. /\ applied < 8 /\ next = Len(Script) + 1 /\ applied' = applied + 1
          /\ next' \in {0, 1} /\ Commit /\ entitlements' = entitlements
      BY <1>1, <1>4 DEF Record, InScript
    <2>2. applied = 3 => next = Seeds + 5
      BY <1>1, <2>1, Script12 DEF Script, Scripts
    <2>3. applied >= 3 => Once
      BY <1>1, <2>2 DEF EntitledInv
    <2>4. applied >= 3 => Once'
      BY <1>1, <2>1, <2>3, OnceKept
    <2> QED
      BY <1>1, <2>1, <2>4 DEF EntitledInv
  <1>5. CASE Execute
    <2>1. /\ applied < 8 /\ next \in 1 .. Len(Script) /\ next' = next + 1
          /\ applied' = applied /\ Effect(Script[next][1], Script[next][2])
      BY <1>1, <1>5 DEF Execute, Running, InScript, Script
    <2>2. CASE applied < 3
      BY <1>1, <2>1, <2>2 DEF EntitledInv
    <2>3. CASE applied > 3
      <3>1. ScriptFacts(applied + 1)
        BY <1>1, <2>1, ScriptsAre
      <3>2. Script[next][1] \in {"policy", "grant", "patch", "policy_if_missing"}
        <4>1. May(applied + 1, Script[next][1], Script[next][2])
          BY <2>1, <3>1 DEF ScriptFacts, Script
        <4> QED
          BY <1>1, <2>3, <4>1 DEF May
      <3>3. Commit /\ entitlements' = entitlements
        BY <2>1, <3>2 DEF Effect, SetBody, Grant
      <3>4. Once'
        BY <1>1, <2>3, <3>3, OnceKept DEF EntitledInv
      <3> QED
        BY <1>1, <2>1, <2>3, <3>4 DEF EntitledInv
    <2>4. CASE applied = 3
      <3>1. Script = V1_1_12 /\ next \in 1 .. Seeds + 4
        BY <1>1, <2>1, <2>4, Script12 DEF Script, Scripts
      <3>2. \A u \in Seed : u \in Insert /\ u # "demo"
        BY MigrationsAssumption DEF Insert
      <3>3. \A u \in Seed : None[u] = 0
        BY <3>2 DEF None
      <3>4. CASE next = 1
        BY <1>1, <2>1, <2>4, <3>4 DEF EntitledInv
      <3>5. CASE next = 2
        <4>1. Script[next][1] = "drop_table"
          BY <3>1, <3>5, Script12
        <4>2. DropTable
          BY <2>1, <4>1 DEF Effect
        <4>3. entitlements' = "none" /\ \A u \in Seed : copies'[u] = 0 /\ pending'[u] = 0
          BY <3>2, <3>3, <4>2 DEF DropTable
        <4> QED
          BY <1>1, <2>1, <2>4, <3>5, <4>3 DEF EntitledInv
      <3>6. CASE next = 3
        <4>1. Script[next][1] = "create_table" /\ Script[next][2] = "v2"
          BY <3>1, <3>6, Script12
        <4>2. CreateTable("v2")
          BY <2>1, <4>1 DEF Effect
        <4>3. entitlements = "none" /\ \A u \in Seed : copies[u] = 0 /\ pending[u] = 0
          BY <2>4, <3>6 DEF EntitledInv
        <4>4. entitlements' = "v2" /\ \A u \in Seed : copies'[u] = 0 /\ pending'[u] = 0
          BY <3>2, <3>3, <4>2, <4>3 DEF CreateTable, Commit, Committed, Plus
        <4>5. ~\E i \in 1 .. Seeds : i + 3 < next'
          BY <1>1, <2>1, <3>6
        <4> QED
          BY <1>1, <2>1, <2>4, <3>6, <4>4, <4>5 DEF EntitledInv, Ran
      <3>7. CASE next \in 4 .. Seeds + 3
        <4>1. next - 3 \in 1 .. Seeds /\ (next - 3) + 3 = next
          BY <1>1, <3>7
        <4> DEFINE v == SeedOrder[next - 3]
        <4>2. Script[next] = <<"insert", v>>
          BY <3>1, <4>1, Script12
        <4>3. InsertRows(v) /\ v \in Seed
          BY <2>1, <4>1, <4>2, MigrationsAssumption DEF Effect, Seeds
        <4>4. /\ entitlements = "v2"
              /\ \A u \in Seed : copies[u] = 0 /\ pending[u] = IF Ran(u) THEN 1 ELSE 0
          BY <1>1, <2>4, <3>7 DEF EntitledInv
        <4>5. ~Ran(v)
          BY <1>1, <4>1, MigrationsAssumption DEF Ran, Seeds
        <4>6. \A u \in Seed : Ran(u)' <=> Ran(u) \/ u = v
          BY <1>1, <2>1, <4>1 DEF Ran
        <4>7. /\ entitlements' = "v2"
              /\ \A u \in Seed : copies'[u] = 0 /\ pending'[u] = IF Ran(u)' THEN 1 ELSE 0
          BY <1>1, <3>2, <4>3, <4>4, <4>5, <4>6 DEF InsertRows, Plus, SchemaTypeOK
        <4> QED
          BY <1>1, <2>1, <2>4, <3>7, <4>7 DEF EntitledInv
      <3>8. CASE next = Seeds + 4
        <4>1. Script[next][1] = "replace"
          BY <3>1, <3>8, Script12
        <4>2. Commit /\ entitlements' = entitlements
          BY <2>1, <4>1 DEF Effect
        <4>3. /\ entitlements = "v2"
              /\ \A u \in Seed : copies[u] = 0 /\ pending[u] = IF Ran(u) THEN 1 ELSE 0
          BY <1>1, <2>4, <3>8 DEF EntitledInv
        <4>4. \A u \in Seed : Ran(u)
          BY <1>1, <3>8, MigrationsAssumption DEF Ran, Seeds
        <4>5. Once'
          BY <3>2, <3>3, <4>2, <4>3, <4>4 DEF Commit, Committed, Plus, Once
        <4> QED
          BY <1>1, <2>1, <2>4, <3>8, <4>5 DEF EntitledInv
      <3> QED
        BY <1>1, <3>1, <3>4, <3>5, <3>6, <3>7, <3>8
    <2> QED
      BY <1>1, <2>2, <2>3, <2>4
  <1> QED
    BY <1>2, <1>3, <1>4, <1>5 DEF MigrationsNext
-----------------------------------------------------------------------------
(* The policies.                                                           *)

Patched(p) == body[p] = "APP_USER_ID"

\* Nothing is granted before V1.1.14; V1.1.15 patches the policies in turn, and
\* no later script touches them.
PolicyInv ==
    /\ applied <= 4 => granted = {}
    /\ applied = 6 => \A i \in 1 .. 3 : i < next => Patched(Policies[i])
    /\ applied >= 7 => \A p \in Policy : Patched(p)

LEMMA PoliciesListed ==
    /\ \A i \in 1 .. 3 : Policies[i] \in Policy
    /\ \A p \in Policy : \E i \in 1 .. 3 : p = Policies[i]
  <1>1. Policies[1] = "PII" /\ Policies[2] = "FINANCIAL" /\ Policies[3] = "RAP"
    BY DEF Policies
  <1> QED
    BY <1>1 DEF Policy

LEMMA Script15 ==
    /\ Len(Scripts[7]) = 3
    /\ \A i \in 1 .. 3 : Scripts[7][i][1] = "patch" /\ Scripts[7][i][2] = Policies[i]
  <1>1. Scripts[7] = Each("patch", Policies)
    BY DEF Scripts, V1_1_15
  <1>2. Len(Scripts[7]) = 3 /\ \A i \in 1 .. 3 : Scripts[7][i] = <<"patch", Policies[i]>>
    BY <1>1, ScriptOfPolicies
  <1> QED
    BY <1>2

LEMMA PolicyKept ==
    ASSUME MigrationsTypeOK, InScript, PolicyInv, MigrationsNext
    PROVE  PolicyInv'
  <1>1. SchemaTypeOK /\ applied \in 0 .. 8 /\ next \in 0 .. 6 + Seeds /\ Seeds \in Nat
    BY ScriptCount, SeedsCount DEF MigrationsTypeOK, SchemaTypeOK, Seeds
  <1>2. CASE Start
    BY <1>1, <1>2 DEF Start, schemaVars, PolicyInv, Patched
  <1>3. CASE Fail
    BY <1>1, <1>3 DEF Fail, PolicyInv, Patched
  <1>4. CASE Record
    <2>1. /\ applied < 8 /\ next = Len(Script) + 1 /\ applied' = applied + 1
          /\ next' \in {0, 1} /\ UNCHANGED <<body, granted>>
      BY <1>1, <1>4 DEF Record, InScript
    <2>2. ASSUME applied = 6 PROVE next = 4
      <3>1. Script = Scripts[7]
        BY <2>2 DEF Script
      <3> QED
        BY <2>1, <3>1, Script15
    <2>3. applied = 6 => \A p \in Policy : Patched(p)
      BY <2>2, PoliciesListed DEF PolicyInv
    <2> QED
      BY <1>1, <2>1, <2>3 DEF PolicyInv, Patched
  <1>5. CASE Execute
    <2> DEFINE op == Script[next][1]
               on == Script[next][2]
    <2>1. /\ applied < 8 /\ next \in 1 .. Len(Script) /\ next' = next + 1
          /\ applied' = applied /\ Effect(op, on)
      BY <1>1, <1>5 DEF Execute, Running, InScript, Script
    <2>2. May(applied + 1, op, on)
      <3>1. ScriptFacts(applied + 1)
        BY <1>1, <2>1, ScriptsAre
      <3> QED
        BY <2>1, <3>1 DEF ScriptFacts, Script
    <2>3. applied = 6 => Len(Script) = 3 /\ op = "patch" /\ on = Policies[next]
      BY <2>1, Script15 DEF Script
    <2> HIDE DEF op, on
    <2>4. op # "grant" => granted' = granted
      BY <2>1 DEF Effect, CreateTable, DropTable, InsertRows, Attach, SetBody
    <2>5. op \in {"patch", "policy_if_missing", "grant"}
              => \A p \in Policy : (p # on \/ op # "policy_if_missing") /\ Patched(p) => Patched(p)'
      BY <1>1, <2>1 DEF Effect, SetBody, Grant, Patched, SchemaTypeOK
    <2>6. applied = 6 => body'[Policies[next]] = "APP_USER_ID"
      <3>1. ASSUME applied = 6 PROVE next \in 1 .. 3 /\ Policies[next] \in Policy
        BY <2>1, <2>3, <3>1, PoliciesListed
      <3> QED
        BY <1>1, <2>1, <2>3, <3>1 DEF Effect, SetBody, Patched, SchemaTypeOK
    <2>7. CASE applied <= 4
      BY <1>1, <2>1, <2>2, <2>4, <2>7 DEF May, PolicyInv
    <2>8. CASE applied = 5
      BY <2>1, <2>8 DEF PolicyInv
    <2>9. CASE applied = 6
      <3>1. next \in 1 .. 3 /\ \A i \in 1 .. 3 : i < next' => i < next \/ i = next
        <4>1. Len(Script) = 3
          BY <2>3, <2>9
        <4> QED
          BY ONLY <2>1, <4>1
      <3>2. \A i \in 1 .. 3 : i < next => Patched(Policies[i])'
        BY <2>3, <2>5, <2>9, PoliciesListed DEF PolicyInv
      <3> QED
        BY <2>1, <2>6, <2>9, <3>1, <3>2 DEF PolicyInv, Patched
    <2>10. CASE applied = 7
      <3>1. op \in {"patch", "policy_if_missing", "grant"} /\ on = "NO_PII"
        BY <2>2, <2>10 DEF May
      <3>2. \A p \in Policy : p # on
        BY <3>1 DEF Policy
      <3> QED
        BY <2>1, <2>5, <2>10, <3>1, <3>2 DEF PolicyInv
    <2> QED
      BY <1>1, <2>1, <2>7, <2>8, <2>9, <2>10
  <1> QED
    BY <1>2, <1>3, <1>4, <1>5 DEF MigrationsNext
-----------------------------------------------------------------------------
(* The rollout.                                                            *)

\* The view exists with its row access policy or not at all, and exists when its
\* columns are masked.
Guarded ==
    /\ masked[View] >= 0 => guarded
    /\ at = "mask_view" => masked[View] >= 0

RolloutInv == RolloutTypeOK /\ InScript /\ EntitledInv /\ PolicyInv /\ Guarded

LEMMA DeploymentType ==
    ASSUME DeploymentTypeOK,
           \/ Synth \/ SnowflakeSecretStack \/ IngestStack \/ AnalystStack \/ RollBack
           \/ RollBackAny \/ EditEnv \/ PutSecretValue
    PROVE  DeploymentTypeOK' /\ (connection = "real" => connection' = "real")
  <1> USE DEF DeploymentTypeOK
  <1>1. CASE Synth
    BY <1>1 DEF Synth
  <1>2. CASE SnowflakeSecretStack
    BY <1>2 DEF SnowflakeSecretStack, Done, Connection
  <1>3. CASE IngestStack
    BY <1>3 DEF IngestStack, Done, Accepted, AccountUrl, Env
  <1>4. CASE AnalystStack
    BY <1>4 DEF AnalystStack, Done, Env
  <1>5. CASE RollBack \/ RollBackAny
    <2>1. stack' = 0 /\ UNCHANGED <<env, synth, deployed, trust, accountUrl, connection, cortex>>
      BY <1>5 DEF RollBack, RollBackAny
    <2> QED
      BY <2>1
  <1>6. CASE EditEnv
    BY <1>6 DEF EditEnv, Env
  <1>7. CASE PutSecretValue
    BY <1>7 DEF PutSecretValue
  <1> QED
    BY <1>1, <1>2, <1>3, <1>4, <1>5, <1>6, <1>7

LEMMA GovernanceKept ==
    ASSUME GovernanceTypeOK, Guarded, RunNext \/ RunDies
    PROVE  GovernanceTypeOK' /\ Guarded'
  <1> USE DEF GovernanceTypeOK, Guarded, Steps, Table, View
  <1>1. CASE StartRun
    BY <1>1 DEF StartRun
  <1>2. CASE BuildTable
    BY <1>2 DEF BuildTable
  <1>3. ASSUME NEW r \in {Table, View}, MaskColumn(r), r = View => at = "mask_view"
        PROVE  GovernanceTypeOK' /\ Guarded'
    <2>1. Len(Columns(r)) = 2 \/ Len(Columns(r)) = 3
      BY DEF Columns
    <2>2. masked[r] \in -1 .. 3 /\ masked[r] < Len(Columns(r))
      BY <1>3 DEF MaskColumn
    <2>3. masked[r] \in -1 .. 2
      <3>1. \A x \in -1 .. 3 : x < 2 \/ x < 3 => x \in -1 .. 2
        OBVIOUS
      <3>2. masked[r] < 2 \/ masked[r] < 3
        BY <2>1, <2>2
      <3> QED
        BY <2>2, <3>1, <3>2
    <2>4. masked' = [masked EXCEPT ![r] = masked[r] + 1] /\ UNCHANGED <<at, guarded>>
      BY <1>3 DEF MaskColumn
    <2>5. masked[r] + 1 \in -1 .. 3
      BY <2>3
    <2>6. masked' \in [{Table, View} -> -1 .. 3]
      BY <2>4, <2>5
    <2>7. CASE r = Table
      BY <2>4, <2>6, <2>7
    <2>8. CASE r = View
      <3>1. at = "mask_view" /\ masked[View] >= 0 /\ guarded /\ masked[View] \in -1 .. 3
        BY <1>3, <2>8
      <3>2. masked'[View] >= 0
        BY <2>4, <2>8, <3>1
      <3> QED
        BY <2>4, <2>6, <3>1, <3>2
    <2> QED
      BY <2>7, <2>8
  <1>4. CASE TableDone \/ ViewDone
    BY <1>4 DEF TableDone, ViewDone
  <1>5. CASE BuildView
    BY <1>5 DEF BuildView
  <1>6. CASE RunFails \/ RunDies
    BY <1>6 DEF RunFails, RunDies
  <1> QED
    BY <1>1, <1>2, <1>3, <1>4, <1>5, <1>6 DEF RunNext, MaskTable, MaskView

\* A failure outside of schemachange counts, and changes nothing of its.
LEMMA FailingKeeps ==
    ASSUME MigrationsTypeOK, InScript, EntitledInv, PolicyInv,
           Failing \/ UNCHANGED migrationVars
    PROVE  (MigrationsTypeOK /\ InScript /\ EntitledInv /\ PolicyInv)'
  <1>1. UNCHANGED <<applied, next, schemaVars>> /\ failed' \in 0 .. MaxFailures
    BY MigrationsAssumption DEF Failing, migrationVars, MigrationsTypeOK
  <1> USE DEF schemaVars
  <1>2. MigrationsTypeOK'
    BY <1>1 DEF MigrationsTypeOK
  <1>3. InScript'
    BY <1>1 DEF InScript, Running, Script
  <1>4. EntitledInv'
    BY <1>1 DEF EntitledInv, Once, Ran
  <1>5. PolicyInv'
    BY <1>1 DEF PolicyInv, Patched
  <1> QED
    BY <1>2, <1>3, <1>4, <1>5

LEMMA RolloutStarts == RolloutInit => RolloutInv
  <1> SUFFICES ASSUME RolloutInit PROVE RolloutInv
    OBVIOUS
  <1>1. MigrationsTypeOK
    <2> USE DEF RolloutInit, MigrationsInit
    <2>1. copies \in [Insert -> 0 .. 2] /\ pending \in [Insert -> 0 .. 2]
      BY DEF None
    <2>2. body \in [Policy \cup {"NO_PII"} -> {"none", "app_user_id", "APP_USER_ID", "role"}]
      OBVIOUS
    <2>3. applied \in 0 .. 8 /\ next \in 0 .. 6 + Seeds /\ failed \in 0 .. MaxFailures
      BY SeedsCount, MigrationsAssumption
    <2>4. /\ entitlements \in {"none", "v1", "v2"} /\ integration \in BOOLEAN
          /\ attached = {} /\ granted = {}
      OBVIOUS
    <2> QED
      BY <2>1, <2>2, <2>3, <2>4, ScriptCount DEF MigrationsTypeOK, Seeds
  <1>2. DeploymentTypeOK
    BY DEF RolloutInit, DeploymentInit, DeploymentTypeOK, Env, Example
  <1>3. GovernanceTypeOK /\ Guarded
    <2>1. masked = [r \in {Table, View} |-> -1] /\ at = "idle" /\ guarded = FALSE
      BY DEF RolloutInit, GovernanceInit
    <2>2. masked \in [{Table, View} -> -1 .. 3]
      BY <2>1
    <2>3. ~(masked[View] >= 0)
      BY <2>1
    <2>4. at \in Steps /\ guarded \in BOOLEAN
      BY <2>1 DEF Steps
    <2> QED
      BY <2>1, <2>2, <2>3, <2>4 DEF GovernanceTypeOK, Guarded
  <1>4. applied = 0 /\ next = 0 /\ granted = {}
    BY DEF RolloutInit, MigrationsInit
  <1> QED
    BY <1>1, <1>2, <1>3, <1>4
       DEF RolloutInv, RolloutTypeOK, InScript, Running, EntitledInv, PolicyInv

LEMMA RolloutSteps ==
    ASSUME RolloutInv, [RolloutNext]_rolloutVars
    PROVE  RolloutInv' /\ (connection = "real" => connection' = "real")
  <1> USE DEF RolloutInv, RolloutTypeOK
  <1> DEFINE M == MigrationsTypeOK /\ InScript /\ EntitledInv /\ PolicyInv
  <1>1. UNCHANGED deploymentVars =>
            DeploymentTypeOK' /\ (connection = "real" => connection' = "real")
    BY DEF deploymentVars, DeploymentTypeOK
  <1>2. UNCHANGED governanceVars => GovernanceTypeOK' /\ Guarded'
    BY DEF governanceVars, GovernanceTypeOK, Guarded
  <1>3. Failing \/ UNCHANGED migrationVars => M'
    BY FailingKeeps
  <1>4. CASE Migrate
    BY <1>1, <1>2, <1>4, MigrationsType, EntitledKept, PolicyKept DEF Migrate
  <1>5. CASE DeployStacks
    BY <1>2, <1>3, <1>5, DeploymentType DEF DeployStacks
  <1>6. CASE FillIn
    BY <1>2, <1>3, <1>6, DeploymentType DEF FillIn
  <1>7. CASE DbtRun
    BY <1>1, <1>3, <1>7, GovernanceKept DEF DbtRun
  <1>8. CASE UNCHANGED rolloutVars
    BY <1>1, <1>2, <1>3, <1>8 DEF rolloutVars
  <1> QED
    BY <1>4, <1>5, <1>6, <1>7, <1>8 DEF RolloutNext

LEMMA RolloutInvHolds == RolloutSpec => []RolloutInv
  <1>1. RolloutInv /\ [RolloutNext]_rolloutVars => RolloutInv'
    BY RolloutSteps
  <1> QED
    BY <1>1, RolloutStarts, PTL DEF RolloutSpec

\* The types of the rollout's state, whatever fails and is begun again
\* (snowflake/scripts, infra/app.py, models/secured).
THEOREM RolloutTypeCorrect == RolloutSpec => []RolloutTypeOK
  <1>1. RolloutInv => RolloutTypeOK
    BY DEF RolloutInv
  <1> QED
    BY <1>1, RolloutInvHolds, PTL

\* However often V1.1.12 fails and is begun again, every user's entitlements are in
\* the table once when it is done: what an attempt has committed goes with the
\* table the next one drops (V1.1.12__entitlements_v2.sql, 13-35).
THEOREM EntitledOnceHolds == RolloutSpec => []EntitledOnce
  <1>1. RolloutInv => EntitledOnce
    BY DEF RolloutInv, EntitledInv, Once, EntitledOnce
  <1> QED
    BY <1>1, RolloutInvHolds, PTL

\* No policy is replaced that dbt may have attached (V1.1.13 and V1.1.14).
THEOREM NotReplacedInUse == RolloutSpec => []PoliciesNotReplacedInUse
  <1>1. RolloutInv => PoliciesNotReplacedInUse
    <2> SUFFICES ASSUME RolloutInv, Running, next <= Len(Script), Script[next][1] = "policy"
                 PROVE  granted = {}
      BY DEF PoliciesNotReplacedInUse
    <2>1. applied \in 0 .. 7 /\ next \in 1 .. Len(Script)
      <3>1. applied \in 0 .. 8 /\ next \in Nat /\ applied < 8
        BY ScriptCount, SeedsCount
        DEF RolloutInv, RolloutTypeOK, MigrationsTypeOK, InScript, Seeds
      <3>2. ScriptFacts(applied + 1)
        BY <3>1, ScriptsAre
      <3> QED
        BY <3>1, <3>2, SeedsCount DEF Running, ScriptFacts, Script
    <2>2. ScriptFacts(applied + 1)
      BY <2>1, ScriptsAre
    <2>3. May(applied + 1, Script[next][1], Script[next][2])
      BY <2>1, <2>2 DEF ScriptFacts, Script
    <2>4. applied = 4
      BY <2>1, <2>3 DEF May
    <2> QED
      BY <2>4 DEF RolloutInv, PolicyInv
  <1> QED
    BY <1>1, RolloutInvHolds, PTL

\* At every moment of every rollout, a row of the secured view is seen only by a
\* user with an entitlement to it (sv_dim_customers.yml, row_access_policy).
THEOREM NoRowWithoutEntitlement == RolloutSpec => []RowsNeedEntitlement
  <1>1. RolloutInv => RowsNeedEntitlement
    BY DEF RolloutInv, Guarded, RowsNeedEntitlement, RowVisible, Finds
  <1> QED
    BY <1>1, RolloutInvHolds, PTL

\* No deploy writes the placeholder back over the connection the operator has put in
\* (snowflake_secret_stack.py, 45).
THEOREM ConnectionSurvives == RolloutSpec => ConnectionKept
  <1>1. RolloutInv /\ [RolloutNext]_rolloutVars
            => [connection = "real" => connection' = "real"]_rolloutVars
    BY RolloutSteps
  <1> QED
    BY <1>1, RolloutInvHolds, PTL DEF RolloutSpec, ConnectionKept

\* The columns that have policies, of the table and of the view, and which
\* (apply_rbac_masking, apply_column_masking, V1.1.13, V1.1.15, V1.1.18).
LEMMA MaskedColumns ==
    ASSUME NEW c \in Asked
    PROVE  /\ Masks(Table, c) => c \in {"first_name", "last_name"}
           /\ Masks(View, c) => c \in {"first_name", "last_name", "customer_lifetime_value"}
           /\ Covered(c) /\ c \in {"first_name", "last_name"} => Masks(Table, c)
           /\ Covered(c) /\ c # "customer_id" => Masks(View, c)
           /\ c \in {"first_name", "last_name"} => PolicyFor(View, c) = "PII"
           /\ c = "customer_lifetime_value" => PolicyFor(View, c) = "FINANCIAL"
  <1>1. /\ DOMAIN Columns(Table) = 1 .. 2 /\ Columns(Table)[1] = "first_name"
        /\ Len(Columns(Table)) = 2 /\ Columns(Table)[2] = "last_name"
    BY DEF Columns
  <1>2. /\ DOMAIN Columns(View) = 1 .. 3 /\ Columns(View)[1] = "first_name"
        /\ Len(Columns(View)) = 3 /\ Columns(View)[2] = "last_name"
        /\ Columns(View)[3] = "customer_lifetime_value"
    BY DEF Columns, View, Table
  <1>3. Masks(Table, c) => c \in {"first_name", "last_name"}
    <2> SUFFICES ASSUME NEW i \in Int, 1 <= i, i <= 2, Columns(Table)[i] = c
                 PROVE  c \in {"first_name", "last_name"}
      BY <1>1 DEF Masks
    <2> QED
      BY <1>1
  <1>4. Masks(View, c) => c \in {"first_name", "last_name", "customer_lifetime_value"}
    <2> SUFFICES ASSUME NEW i \in Int, 1 <= i, i <= 3, Columns(View)[i] = c
                 PROVE  c \in {"first_name", "last_name", "customer_lifetime_value"}
      BY <1>2 DEF Masks
    <2> QED
      BY <1>2
  <1>5. Covered(c) /\ c \in {"first_name", "last_name"} => Masks(Table, c)
    BY <1>1 DEF Covered
  <1>6. Covered(c) /\ c # "customer_id" => Masks(View, c)
    BY <1>2 DEF Covered, Asked
  <1> QED
    BY <1>3, <1>4, <1>5, <1>6 DEF PolicyFor, DataType, View, Table

\* A view shows of a column what is documented: no more once the column has its
\* policies, whatever scripts have run, and no less, once all have.
THEOREM PublishedAsDocumented == RolloutSpec => []ShowsAsDocumented
  <1>1. RolloutInv => ShowsAsDocumented
    <2> SUFFICES ASSUME RolloutInv,
                        NEW u \in Seed, NEW o \in Customer, NEW c \in Asked, NEW noPii \in BOOLEAN
                 PROVE  /\ Covered(c) /\ Shown(u, o, c, noPii) => Documented(u, o, c, noPii)
                        /\ Deployed /\ masked[View] >= 0 /\ Documented(u, o, c, noPii)
                               => Shown(u, o, c, noPii)
      BY DEF ShowsAsDocumented
    <2>1. ASSUME Covered(c), Shown(u, o, c, noPii) PROVE Documented(u, o, c, noPii)
      <3>1. Entitlement[u] \cap About(o) # {}
        BY <2>1 DEF Shown, RowVisible, Finds, RolloutInv, Guarded
      <3>2. c \in {"first_name", "last_name"} => Entitlement[u] \cap AtLeast(1) # {} /\ ~noPii
        BY <2>1, MaskedColumns DEF Shown, ColumnVisible, Finds
      <3>3. c = "customer_lifetime_value" => Entitlement[u] \cap AtLeast(2) # {}
        BY <2>1, MaskedColumns DEF Shown, ColumnVisible, Finds
      <3> QED
        BY <3>1, <3>2, <3>3 DEF Documented
    <2>2. ASSUME Deployed, masked[View] >= 0, Documented(u, o, c, noPii)
          PROVE  Shown(u, o, c, noPii)
      <3>1. /\ body["PII"] = "APP_USER_ID" /\ body["FINANCIAL"] = "APP_USER_ID"
            /\ body["RAP"] = "APP_USER_ID" /\ entitlements = "v2" /\ copies[u] = 1
        BY <2>2, ScriptCount
        DEF Deployed, RolloutInv, PolicyInv, Patched, Policy, EntitledInv, Once
      <3>2. Finds("RAP", u, About(o)) /\ RowVisible(u, o)
        BY <2>2, <3>1 DEF Documented, Finds, RowVisible
      <3>3. ColumnVisible(u, c, noPii)
        BY <2>2, <3>1, MaskedColumns DEF ColumnVisible, Documented, Finds
      <3> QED
        BY <3>2, <3>3 DEF Shown
    <2> QED
      BY <2>1, <2>2
  <1> QED
    BY <1>1, RolloutInvHolds, PTL
=============================================================================
