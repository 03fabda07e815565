-------------------------------- MODULE Sums ---------------------------------
(***************************************************************************)
(* Sums over finite sets, for the proofs about how many copies of an event *)
(* there are (Ingest) and what payments come to (Marts).  SumFunctionOnSet *)
(* takes the elements of a set in whatever order CHOOSE gives; the lemmas  *)
(* say that the order does not matter and how a sum changes with the set   *)
(* and with the summands.                                                  *)
(*                                                                         *)
(* An induction over a finite set is here an argument about a set Q of     *)
(* subsets (Induction), since the proof system cannot instantiate a        *)
(* theorem whose parameter is an operator.                                 *)
(***************************************************************************)
EXTENDS Integers, FiniteSets, Functions, FiniteSetTheorems, WellFoundedInduction, TLAPS

\* The element a fold takes next.
Pick(s) == CHOOSE x \in s : TRUE

\* g is the function a sum of f over S is defined by.
Unfolds(g, f, S) ==
    g = [s \in SUBSET S |-> IF s = {} THEN 0 ELSE f[Pick(s)] + g[s \ {Pick(s)}]]

-----------------------------------------------------------------------------
(* Induction.                                                              *)

\* Of the subsets of a finite set that are not in Q, one would be smallest.
LEMMA Minimal ==
    ASSUME NEW S, IsFiniteSet(S), NEW Q,
           \A T \in SUBSET S : (\A U \in SUBSET T : U # T => U \in Q) => T \in Q
    PROVE  S \in Q
  <1> SUFFICES ASSUME S \notin Q PROVE FALSE
    OBVIOUS
  <1> DEFINE Bad == {T \in SUBSET S : T \notin Q}
  <1>1. Bad \subseteq FiniteSubsetsOf(S) /\ Bad # {}
    BY FS_FiniteSubsetsOfFinite DEF FiniteSubsetsOf
  <1>2. IsWellFoundedOn(StrictSubsetOrdering(S), FiniteSubsetsOf(S))
    BY FS_StrictSubsetOrderingWellFounded
  <1>3. PICK T \in Bad : \A U \in Bad : ~(<<U, T>> \in StrictSubsetOrdering(S))
    <2> HIDE DEF Bad
    <2> QED BY <1>1, <1>2, WFMin
  <1>4. \A U \in SUBSET T : U # T => U \in Q
    BY <1>3 DEF StrictSubsetOrdering
  <1> QED
    BY <1>3, <1>4

\* Q holds the empty set, and a set whenever it holds that set without one of its elements.
LEMMA Induction ==
    ASSUME NEW S, IsFiniteSet(S), NEW Q, {} \in Q,
           \A T \in SUBSET S : \A x \in T : T \ {x} \in Q => T \in Q
    PROVE  S \in Q
  <1>1. ASSUME NEW T \in SUBSET S, \A U \in SUBSET T : U # T => U \in Q
        PROVE  T \in Q
    <2>1. CASE T = {}
      BY <2>1
    <2>2. CASE T # {}
      <3>1. PICK x \in T : TRUE
        BY <2>2
      <3>2. T \ {x} \in Q
        BY <1>1
      <3> QED BY <3>2
    <2> QED BY <2>1, <2>2
  <1> QED BY <1>1, Minimal

-----------------------------------------------------------------------------
(* A sum is what its recursive definition says.                            *)

\* The next element is one of the set's.
LEMMA PickIn ==
    ASSUME NEW s, s # {}
    PROVE  Pick(s) \in s
  BY DEF Pick

\* Two functions that unfold a sum, one over a part of the other's set, agree there.
LEMMA Unique ==
    ASSUME NEW f, NEW S, IsFiniteSet(S), NEW g, NEW h, NEW T,
           S \subseteq T, Unfolds(g, f, T), Unfolds(h, f, S)
    PROVE  g[S] = h[S]
  <1> DEFINE Q == {s \in SUBSET S : g[s] = h[s]}
  <1>1. ASSUME NEW s \in SUBSET S, \A u \in SUBSET s : u # s => u \in Q
        PROVE  s \in Q
    <2>1. g[s] = IF s = {} THEN 0 ELSE f[Pick(s)] + g[s \ {Pick(s)}]
      BY Zenon DEF Unfolds
    <2>2. h[s] = IF s = {} THEN 0 ELSE f[Pick(s)] + h[s \ {Pick(s)}]
      BY Zenon DEF Unfolds
    <2>3. CASE s = {}
      BY <2>1, <2>2, <2>3
    <2>4. CASE s # {}
      <3>1. s \ {Pick(s)} \in Q
        BY <1>1, <2>4, PickIn
      <3> QED BY <3>1, <2>1, <2>2, <2>4
    <2> QED BY <2>3, <2>4
  <1>2. S \in Q
    <2> HIDE DEF Q
    <2> QED BY <1>1, Minimal
  <1> QED BY <1>2

\* There is a function that unfolds the sum over a finite set: at a set without its next
\* element, what the functions of smaller sets say.
LEMMA Exists ==
    ASSUME NEW f, NEW S, IsFiniteSet(S)
    PROVE  \E g : Unfolds(g, f, S)
  <1> DEFINE Q == {T \in SUBSET S : \E g : Unfolds(g, f, T)}
  <1>1. ASSUME NEW T \in SUBSET S, \A U \in SUBSET T : U # T => U \in Q
        PROVE  T \in Q
    <2> DEFINE V(U) == (CHOOSE g : Unfolds(g, f, U))[U]
               G == [s \in SUBSET T |-> IF s = {} THEN 0 ELSE f[Pick(s)] + V(s \ {Pick(s)})]
    <2>1. ASSUME NEW U \in SUBSET T, U # T
          PROVE  V(U) = G[U]
      <3>1. PICK g : Unfolds(g, f, U) /\ V(U) = g[U]
        BY <1>1, <2>1, Zenon
      <3>2. CASE U = {}
        <4>1. g[U] = 0 BY <3>1, <3>2 DEF Unfolds
        <4> QED BY <4>1, <3>1, <3>2
      <3>3. CASE U # {}
        <4> DEFINE W == U \ {Pick(U)}
        <4>1. g[U] = f[Pick(U)] + g[W]
          BY <3>1, <3>3 DEF Unfolds
        <4>2. PICK h : Unfolds(h, f, W) /\ V(W) = h[W]
          <5>1. W \in SUBSET T /\ W # T
            BY <2>1
          <5> QED BY <5>1, <1>1, Zenon
        <4>3. IsFiniteSet(W)
          BY FS_Subset
        <4>4. g[W] = h[W]
          <5>1. W \subseteq U
            OBVIOUS
          <5> HIDE DEF W, V
          <5> QED BY <5>1, <4>3, <4>2, <3>1, Unique
        <4>5. G[U] = f[Pick(U)] + V(W)
          BY <3>3
        <4> HIDE DEF W, V, G
        <4> QED BY <4>1, <4>2, <4>4, <4>5, <3>1
      <3> QED BY <3>2, <3>3
    <2>2. ASSUME NEW s \in SUBSET T, s # {}
          PROVE  V(s \ {Pick(s)}) = G[s \ {Pick(s)}]
      <3>1. s \ {Pick(s)} \in SUBSET T /\ s \ {Pick(s)} # T
        BY <2>2, PickIn
      <3> HIDE DEF V, G
      <3> QED BY <3>1, <2>1
    <2>3. G = [s \in SUBSET T |-> IF s = {} THEN 0 ELSE f[Pick(s)] + G[s \ {Pick(s)}]]
      <3> DEFINE H == [s \in SUBSET T |-> IF s = {} THEN 0 ELSE f[Pick(s)] + G[s \ {Pick(s)}]]
      <3>1. \A s \in SUBSET T : s # {} => V(s \ {Pick(s)}) = G[s \ {Pick(s)}]
        BY <2>2
      <3>2. G = [s \in SUBSET T |-> IF s = {} THEN 0 ELSE f[Pick(s)] + V(s \ {Pick(s)})]
        OBVIOUS
      <3> HIDE DEF G, V
      <3>3. G = H
        BY <3>1, <3>2
      <3> QED BY <3>3 DEF H
    <2>4. Unfolds(G, f, T)
      <3> HIDE DEF G
      <3> QED BY <2>3 DEF Unfolds
    <2> QED BY <2>4
  <1>2. S \in Q
    <2> HIDE DEF Q
    <2> QED BY <1>1, Minimal
  <1> QED BY <1>2


\* SumFunctionOnSet is a function that unfolds the sum, at the set.
LEMMA SumIs ==
    ASSUME NEW f, NEW S
    PROVE  SumFunctionOnSet(f, S) = (CHOOSE g : Unfolds(g, f, S))[S]
  BY Zenon DEF SumFunctionOnSet, FoldFunctionOnSet, MapThenFoldSet, Unfolds, Pick

\* The recursive equation of a sum.
LEMMA SumStep ==
    ASSUME NEW f, NEW S, IsFiniteSet(S)
    PROVE  SumFunctionOnSet(f, S) =
               IF S = {} THEN 0 ELSE f[Pick(S)] + SumFunctionOnSet(f, S \ {Pick(S)})
  <1>1. PICK g : Unfolds(g, f, S) /\ SumFunctionOnSet(f, S) = g[S]
    <2> DEFINE g == CHOOSE g : Unfolds(g, f, S)
    <2>1. Unfolds(g, f, S) /\ SumFunctionOnSet(f, S) = g[S]
      BY Exists, SumIs, Zenon
    <2> QED BY <2>1, Zenon
  <1>2. CASE S = {}
    BY <1>1, <1>2 DEF Unfolds
  <1>3. CASE S # {}
    <2> DEFINE W == S \ {Pick(S)}
    <2>1. IsFiniteSet(W) /\ W \subseteq S
      BY FS_Subset
    <2>2. PICK h : Unfolds(h, f, W) /\ SumFunctionOnSet(f, W) = h[W]
      <3> DEFINE h == CHOOSE h : Unfolds(h, f, W)
      <3>1. Unfolds(h, f, W) /\ SumFunctionOnSet(f, W) = h[W]
        <4> HIDE DEF W
        <4> QED BY <2>1, Exists, SumIs, Zenon
      <3> QED BY <3>1, Zenon
    <2>3. g[S] = f[Pick(S)] + g[W]
      BY <1>1, <1>3 DEF Unfolds
    <2>4. g[W] = h[W]
      <3> HIDE DEF W
      <3> QED BY <1>1, <2>1, <2>2, Unique
    <2> HIDE DEF W
    <2>5. SumFunctionOnSet(f, S) = f[Pick(S)] + SumFunctionOnSet(f, W)
      BY <1>1, <2>2, <2>3, <2>4
    <2> QED BY <2>5, <1>3 DEF W
  <1> QED BY <1>2, <1>3

\* A sum of nothing.
LEMMA SumEmpty == \A f : SumFunctionOnSet(f, {}) = 0
  BY SumStep, FS_EmptySet

\* Sums of integers are integers, and any element may be taken first.
LEMMA SumAny ==
    ASSUME NEW f, NEW S, IsFiniteSet(S), \A x \in S : f[x] \in Int
    PROVE  /\ SumFunctionOnSet(f, S) \in Int
           /\ \A x \in S : SumFunctionOnSet(f, S) = f[x] + SumFunctionOnSet(f, S \ {x})
  <1> DEFINE Rest(T, x) == SumFunctionOnSet(f, T \ {x})
             Q == {T \in SUBSET S : /\ SumFunctionOnSet(f, T) \in Int
                                    /\ \A x \in T : SumFunctionOnSet(f, T) = f[x] + Rest(T, x)}
  <1>1. ASSUME NEW T \in SUBSET S, \A U \in SUBSET T : U # T => U \in Q
        PROVE  T \in Q
    <2>1. IsFiniteSet(T)
      BY FS_Subset
    <2>2. CASE T = {}
      BY <2>2, SumEmpty
    <2>3. CASE T # {}
      <3> DEFINE p == Pick(T)
      <3>1. p \in T
        BY <2>3, PickIn
      <3>2. SumFunctionOnSet(f, T) = f[p] + Rest(T, p)
        BY <2>1, <2>3, SumStep
      <3>3. ASSUME NEW x \in T
            PROVE  Rest(T, x) \in Int
        <4>1. T \ {x} \in Q
          BY <1>1
        <4> QED BY <4>1
      <3>4. ASSUME NEW x \in T, x # p
            PROVE  SumFunctionOnSet(f, T) = f[x] + Rest(T, x)
        <4> DEFINE R == SumFunctionOnSet(f, (T \ {p}) \ {x})
        <4>1. T \ {x} \in Q /\ T \ {p} \in Q
          BY <1>1, <3>1
        <4>2. Rest(T, x) = f[p] + SumFunctionOnSet(f, (T \ {x}) \ {p})
          BY <4>1, <3>1, <3>4
        <4>3. Rest(T, p) = f[x] + R
          BY <4>1, <3>4
        <4>4. (T \ {x}) \ {p} = (T \ {p}) \ {x}
          OBVIOUS
        <4>5. R \in Int
          <5>1. (T \ {p}) \ {x} \in Q
            BY <1>1, <3>1
          <5> QED BY <5>1
        <4>6. f[p] \in Int /\ f[x] \in Int
          BY <3>1
        <4>7. Rest(T, x) = f[p] + R
          BY <4>2, <4>4
        <4> HIDE DEF R, p, Rest
        <4> QED BY <4>3, <4>5, <4>6, <4>7, <3>2
      <3>5. f[p] \in Int
        BY <3>1
      <3>6. SumFunctionOnSet(f, T) \in Int
        BY <3>1, <3>2, <3>3, <3>5
      <3>7. \A x \in T : SumFunctionOnSet(f, T) = f[x] + Rest(T, x)
        BY <3>2, <3>4
      <3> QED BY <3>6, <3>7
    <2> QED BY <2>2, <2>3
  <1>2. S \in Q
    <2> HIDE DEF Q
    <2> QED BY <1>1, Minimal
  <1> QED BY <1>2

\* Only the summands matter.
LEMMA SumAgree ==
    ASSUME NEW f, NEW g, NEW S, IsFiniteSet(S), \A x \in S : f[x] = g[x]
    PROVE  SumFunctionOnSet(f, S) = SumFunctionOnSet(g, S)
  <1> DEFINE Q == {T \in SUBSET S : SumFunctionOnSet(f, T) = SumFunctionOnSet(g, T)}
  <1>1. ASSUME NEW T \in SUBSET S, \A U \in SUBSET T : U # T => U \in Q
        PROVE  T \in Q
    <2>1. IsFiniteSet(T)
      BY FS_Subset
    <2>2. CASE T = {}
      BY <2>2, SumEmpty
    <2>3. CASE T # {}
      <3>1. Pick(T) \in T
        BY <2>3, PickIn
      <3>2. T \ {Pick(T)} \in Q
        BY <1>1, <3>1
      <3> QED BY <2>1, <2>3, <3>1, <3>2, SumStep
    <2> QED BY <2>2, <2>3
  <1>2. S \in Q
    <2> HIDE DEF Q
    <2> QED BY <1>1, Minimal
  <1> QED BY <1>2

\* Adding an element.
LEMMA SumInsert ==
    ASSUME NEW f, NEW S, IsFiniteSet(S), NEW x, x \notin S, \A y \in S \cup {x} : f[y] \in Int
    PROVE  SumFunctionOnSet(f, S \cup {x}) = f[x] + SumFunctionOnSet(f, S)
  <1>1. IsFiniteSet(S \cup {x})
    BY FS_AddElement
  <1>2. (S \cup {x}) \ {x} = S
    OBVIOUS
  <1> QED BY <1>1, <1>2, SumAny

\* Sets that have nothing in common.
LEMMA SumUnion ==
    ASSUME NEW f, NEW A, IsFiniteSet(A), NEW B, IsFiniteSet(B), A \cap B = {},
           \A x \in A \cup B : f[x] \in Int
    PROVE  SumFunctionOnSet(f, A \cup B) = SumFunctionOnSet(f, A) + SumFunctionOnSet(f, B)
  <1> DEFINE s(T) == SumFunctionOnSet(f, T)
             Q == {T \in SUBSET B : s(A \cup T) = s(A) + s(T)}
  <1>1. s(A) \in Int
    BY SumAny
  <1>2. {} \in Q
    <2>1. s({}) = 0 /\ A \cup {} = A
      BY SumEmpty
    <2> HIDE DEF s
    <2> QED BY <2>1, <1>1
  <1>3. ASSUME NEW T \in SUBSET B, NEW x \in T, T \ {x} \in Q
        PROVE  T \in Q
    <2> DEFINE R == T \ {x}
    <2>1. IsFiniteSet(T) /\ IsFiniteSet(A \cup T)
      BY FS_Subset, FS_Union
    <2>2. s(T) = f[x] + s(R)
      BY <2>1, SumAny
    <2>3. s(A \cup T) = f[x] + s((A \cup T) \ {x})
      BY <2>1, SumAny
    <2>4. (A \cup T) \ {x} = A \cup R
      OBVIOUS
    <2>5. s(R) \in Int /\ f[x] \in Int
      BY <2>1, FS_Subset, SumAny
    <2>6. s(A \cup R) = s(A) + s(R)
      BY <1>3
    <2>7. s(A \cup T) = f[x] + s(A \cup R)
      BY <2>3, <2>4
    <2> HIDE DEF s, R
    <2>8. s(A \cup T) = s(A) + s(T)
      BY <2>2, <2>5, <2>6, <2>7, <1>1
    <2> QED BY <2>8
  <1>4. B \in Q
    <2> HIDE DEF Q
    <2> QED BY <1>2, <1>3, Induction
  <1> QED BY <1>4

\* Of natural numbers, the sum is one, is no less than any of them, and is 0 only if all are.
LEMMA SumNat ==
    ASSUME NEW f, NEW S, IsFiniteSet(S), \A x \in S : f[x] \in Nat
    PROVE  /\ SumFunctionOnSet(f, S) \in Nat
           /\ \A x \in S : f[x] <= SumFunctionOnSet(f, S)
           /\ SumFunctionOnSet(f, S) > 0 <=> \E x \in S : f[x] > 0
  <1> DEFINE s(T) == SumFunctionOnSet(f, T)
             Q == {T \in SUBSET S : s(T) \in Nat /\ ((\A x \in T : f[x] = 0) => s(T) = 0)}
  <1>1. {} \in Q
    BY SumEmpty
  <1>2. ASSUME NEW T \in SUBSET S, NEW x \in T, T \ {x} \in Q
        PROVE  T \in Q
    <2>1. IsFiniteSet(T)
      BY FS_Subset
    <2>2. s(T) = f[x] + s(T \ {x})
      BY <2>1, SumAny
    <2>3. s(T \ {x}) \in Nat /\ ((\A y \in T \ {x} : f[y] = 0) => s(T \ {x}) = 0)
      BY <1>2
    <2> HIDE DEF s
    <2> QED BY <2>2, <2>3
  <1>3. ASSUME NEW T \in SUBSET S
        PROVE  T \in Q
    <2>1. IsFiniteSet(T)
      BY FS_Subset
    <2> HIDE DEF Q
    <2> QED BY <2>1, <1>1, <1>2, Induction
  <1>4. ASSUME NEW x \in S
        PROVE  f[x] <= s(S)
    <2>1. s(S) = f[x] + s(S \ {x})
      BY SumAny
    <2>2. s(S \ {x}) \in Nat /\ f[x] \in Nat
      BY <1>3
    <2> HIDE DEF s
    <2> QED BY <2>1, <2>2
  <1>5. s(S) \in Nat /\ ((\A x \in S : f[x] = 0) => s(S) = 0)
    BY <1>3
  <1> HIDE DEF s
  <1>6. /\ s(S) \in Nat
        /\ \A x \in S : f[x] <= s(S)
        /\ s(S) > 0 <=> \E x \in S : f[x] > 0
    BY <1>4, <1>5
  <1> QED BY <1>6 DEF s

\* Changing one summand.
LEMMA SumChange ==
    ASSUME NEW f, NEW g, NEW S, IsFiniteSet(S), NEW x \in S,
           \A y \in S : f[y] \in Int /\ g[y] \in Int,
           \A y \in S \ {x} : g[y] = f[y]
    PROVE  SumFunctionOnSet(g, S) = SumFunctionOnSet(f, S) + (g[x] - f[x])
  <1> DEFINE r(h) == SumFunctionOnSet(h, S \ {x})
  <1>1. IsFiniteSet(S \ {x})
    BY FS_Subset
  <1>2. r(f) = r(g) /\ r(f) \in Int
    BY <1>1, SumAgree, SumAny
  <1>3. /\ SumFunctionOnSet(f, S) = f[x] + r(f)
        /\ SumFunctionOnSet(g, S) = g[x] + r(g)
    BY SumAny
  <1> HIDE DEF r
  <1> QED BY <1>2, <1>3

\* Adding the summands of two sums.
LEMMA SumPlus ==
    ASSUME NEW f, NEW g, NEW h, NEW S, IsFiniteSet(S),
           \A x \in S : f[x] \in Int /\ g[x] \in Int /\ h[x] = f[x] + g[x]
    PROVE  SumFunctionOnSet(h, S) = SumFunctionOnSet(f, S) + SumFunctionOnSet(g, S)
  <1> DEFINE s(k, T) == SumFunctionOnSet(k, T)
             Q == {T \in SUBSET S : s(h, T) = s(f, T) + s(g, T)}
  <1>1. {} \in Q
    BY SumEmpty
  <1>2. ASSUME NEW T \in SUBSET S, NEW x \in T, T \ {x} \in Q
        PROVE  T \in Q
    <2> DEFINE R == T \ {x}
    <2>1. IsFiniteSet(T) /\ IsFiniteSet(R) /\ R \subseteq S
      BY FS_Subset
    <2>2. /\ s(f, T) = f[x] + s(f, R)
          /\ s(g, T) = g[x] + s(g, R)
      BY <2>1, SumAny
    <2>3. s(h, T) = h[x] + s(h, R)
      BY <2>1, SumAny
    <2>4. s(f, R) \in Int /\ s(g, R) \in Int
      BY <2>1, SumAny
    <2>5. s(h, R) = s(f, R) + s(g, R)
      BY <1>2
    <2>6. f[x] \in Int /\ g[x] \in Int /\ h[x] = f[x] + g[x]
      OBVIOUS
    <2> HIDE DEF s, R
    <2>7. s(h, T) = s(f, T) + s(g, T)
      BY <2>2, <2>3, <2>4, <2>5, <2>6
    <2> QED BY <2>7
  <1>3. S \in Q
    <2> HIDE DEF Q
    <2> QED BY <1>1, <1>2, Induction
  <1> QED BY <1>3

\* Summing a table by rows or by columns: r[x] is the sum of row x, c[y] of column y.
LEMMA SumSwap ==
    ASSUME NEW A, IsFiniteSet(A), NEW B, IsFiniteSet(B), NEW F,
           \A x \in A, y \in B : F[x][y] \in Int
    PROVE  SumFunctionOnSet([x \in A |-> SumFunctionOnSet(F[x], B)], A) =
           SumFunctionOnSet([y \in B |-> SumFunctionOnSet([x \in A |-> F[x][y]], A)], B)
  <1> DEFINE Row(x) == SumFunctionOnSet(F[x], B)
             Col(T, y) == SumFunctionOnSet([x \in A |-> F[x][y]], T)
             Rows(T) == SumFunctionOnSet([x \in A |-> Row(x)], T)
             Cols(T) == SumFunctionOnSet([y \in B |-> Col(T, y)], B)
             Q == {T \in SUBSET A : Rows(T) = Cols(T)}
  <1>1. {} \in Q
    <2>1. Rows({}) = 0
      BY SumEmpty
    <2>2. \A y \in B : Col({}, y) = 0
      BY SumEmpty
    <2>3. Cols({}) = 0
      <3> DEFINE c == [y \in B |-> Col({}, y)]
      <3>1. \A y \in B : c[y] = 0
        BY <2>2
      <3> HIDE DEF c
      <3>2. SumFunctionOnSet(c, B) = 0
        BY <3>1, SumNat
      <3> QED BY <3>2 DEF c
    <2> QED BY <2>1, <2>3
  <1>2. ASSUME NEW T \in SUBSET A, NEW x \in T, T \ {x} \in Q
        PROVE  T \in Q
    <2> DEFINE R == T \ {x}
    <2>1. IsFiniteSet(T) /\ IsFiniteSet(R)
      BY FS_Subset
    <2>2. \A z \in A : Row(z) \in Int
      BY SumAny
    <2>3. Rows(T) = Row(x) + Rows(R)
      <3> HIDE DEF Row
      <3> QED BY <2>1, <2>2, SumAny
    <2>4. ASSUME NEW y \in B
          PROVE  /\ Col(R, y) \in Int
                 /\ Col(T, y) = F[x][y] + Col(R, y)
      <3> DEFINE k == [z \in A |-> F[z][y]]
      <3>1. \A z \in A : k[z] \in Int
        OBVIOUS
      <3>2. k[x] = F[x][y]
        OBVIOUS
      <3> HIDE DEF k
      <3>3. SumFunctionOnSet(k, R) \in Int
        BY <3>1, <2>1, SumAny
      <3>4. SumFunctionOnSet(k, T) = k[x] + SumFunctionOnSet(k, R)
        BY <3>1, <2>1, SumAny
      <3> QED BY <3>2, <3>3, <3>4 DEF k
    <2>5. Cols(T) = Row(x) + Cols(R)
      <3> DEFINE cT == [y \in B |-> Col(T, y)]
                 cR == [y \in B |-> Col(R, y)]
      <3>1. \A y \in B : cR[y] \in Int /\ F[x][y] \in Int /\ cT[y] = F[x][y] + cR[y]
        BY <2>4
      <3> HIDE DEF cT, cR
      <3>2. SumFunctionOnSet(cT, B) = SumFunctionOnSet(F[x], B) + SumFunctionOnSet(cR, B)
        BY <3>1, SumPlus
      <3> QED BY <3>2 DEF cT, cR
    <2>6. Rows(R) = Cols(R)
      BY <1>2
    <2>7. Rows(T) = Cols(T)
      <3> HIDE DEF Rows, Cols, Row, R
      <3> QED BY <2>3, <2>5, <2>6
    <2> QED BY <2>7
  <1>3. A \in Q
    <2> HIDE DEF Q
    <2> QED BY <1>1, <1>2, Induction
  <1> QED BY <1>3

\* A sum by groups: key[x] is the group of x, one of O.
LEMMA SumGroups ==
    ASSUME NEW f, NEW P, IsFiniteSet(P), \A x \in P : f[x] \in Int,
           NEW O, IsFiniteSet(O), NEW key, \A x \in P : key[x] \in O
    PROVE  SumFunctionOnSet(f, P) =
           SumFunctionOnSet([o \in O |-> SumFunctionOnSet(f, {x \in P : key[x] = o})], O)
  <1> DEFINE Of(T) == {x \in P : key[x] \in T}
             c == [o \in O |-> SumFunctionOnSet(f, {x \in P : key[x] = o})]
             Q == {T \in SUBSET O : SumFunctionOnSet(f, Of(T)) = SumFunctionOnSet(c, T)}
  <1>1. \A o \in O : c[o] = SumFunctionOnSet(f, {x \in P : key[x] = o}) /\ c[o] \in Int
    <2> SUFFICES ASSUME NEW o \in O
                 PROVE  SumFunctionOnSet(f, {x \in P : key[x] = o}) \in Int
      OBVIOUS
    <2> DEFINE G == {x \in P : key[x] = o}
    <2>1. IsFiniteSet(G) /\ \A x \in G : f[x] \in Int
      BY FS_Subset
    <2> HIDE DEF G
    <2>2. SumFunctionOnSet(f, G) \in Int
      BY <2>1, SumAny
    <2> QED BY <2>2 DEF G
  <1> HIDE DEF c
  <1>2. {} \in Q
    <2>1. Of({}) = {}
      OBVIOUS
    <2> QED BY <2>1, SumEmpty
  <1>3. ASSUME NEW T \in SUBSET O, NEW o \in T, T \ {o} \in Q
        PROVE  T \in Q
    <2> DEFINE R == T \ {o}
               G == {x \in P : key[x] = o}
    <2>1. IsFiniteSet(T) /\ IsFiniteSet(Of(R)) /\ IsFiniteSet(G)
      BY FS_Subset
    <2>2. Of(T) = Of(R) \cup G /\ Of(R) \cap G = {}
      OBVIOUS
    <2>3. \A x \in Of(R) \cup G : f[x] \in Int
      OBVIOUS
    <2>4. SumFunctionOnSet(f, Of(T)) = SumFunctionOnSet(f, Of(R)) + SumFunctionOnSet(f, G)
      <3> HIDE DEF Of, R, G
      <3> QED BY <2>1, <2>2, <2>3, SumUnion
    <2>5. SumFunctionOnSet(c, T) = c[o] + SumFunctionOnSet(c, R)
      <3>1. \A y \in T : c[y] \in Int
        BY <1>1
      <3> QED BY <3>1, <2>1, SumAny
    <2>6. SumFunctionOnSet(f, Of(R)) = SumFunctionOnSet(c, R)
      BY <1>3
    <2>7. c[o] = SumFunctionOnSet(f, G) /\ c[o] \in Int
      BY <1>1
    <2>8. SumFunctionOnSet(c, R) \in Int
      <3>1. IsFiniteSet(R) /\ \A x \in R : c[x] \in Int
        BY <2>1, <1>1, FS_Subset
      <3> HIDE DEF R
      <3> QED BY <3>1, SumAny
    <2>9. SumFunctionOnSet(f, Of(T)) = SumFunctionOnSet(c, T)
      <3> HIDE DEF Of, R, G
      <3> QED BY <2>4, <2>5, <2>6, <2>7, <2>8
    <2> QED BY <2>9
  <1>4. O \in Q
    <2> HIDE DEF Q
    <2> QED BY <1>2, <1>3, Induction
  <1>5. Of(O) = P
    OBVIOUS
  <1>6. SumFunctionOnSet(f, Of(O)) = SumFunctionOnSet(c, O)
    BY <1>4
  <1> HIDE DEF Of
  <1>7. SumFunctionOnSet(f, P) = SumFunctionOnSet(c, O)
    BY <1>5, <1>6
  <1> QED BY <1>7 DEF c

\* A sum over the values of an injective function r of S.
LEMMA SumRename ==
    ASSUME NEW f, NEW r, NEW S, IsFiniteSet(S), \A x \in S : f[r[x]] \in Int,
           \A x, y \in S : r[x] = r[y] => x = y
    PROVE  SumFunctionOnSet(f, {r[x] : x \in S}) =
           SumFunctionOnSet([x \in S |-> f[r[x]]], S)
  <1> DEFINE I(T) == {r[x] : x \in T}
             g == [x \in S |-> f[r[x]]]
             Q == {T \in SUBSET S : IsFiniteSet(I(T)) /\
                                    SumFunctionOnSet(f, I(T)) = SumFunctionOnSet(g, T)}
  <1>1. \A x \in S : g[x] = f[r[x]] /\ g[x] \in Int
    OBVIOUS
  <1> HIDE DEF g
  <1>2. {} \in Q
    <2>1. I({}) = {}
      OBVIOUS
    <2> QED BY <2>1, SumEmpty, FS_EmptySet
  <1>3. ASSUME NEW T \in SUBSET S, NEW x \in T, T \ {x} \in Q
        PROVE  T \in Q
    <2> DEFINE R == T \ {x}
    <2>1. I(T) = I(R) \cup {r[x]} /\ r[x] \notin I(R) /\ IsFiniteSet(T)
      BY FS_Subset
    <2>2. IsFiniteSet(I(R)) /\ SumFunctionOnSet(f, I(R)) = SumFunctionOnSet(g, R)
      BY <1>3
    <2>3. \A y \in I(R) \cup {r[x]} : f[y] \in Int
      OBVIOUS
    <2>4. IsFiniteSet(I(T)) /\ SumFunctionOnSet(f, I(T)) = f[r[x]] + SumFunctionOnSet(f, I(R))
      <3> HIDE DEF I, R
      <3> QED BY <2>1, <2>2, <2>3, SumInsert, FS_AddElement
    <2>5. SumFunctionOnSet(g, T) = g[x] + SumFunctionOnSet(g, R)
      BY <2>1, <1>1, SumAny
    <2>6. SumFunctionOnSet(f, I(T)) = SumFunctionOnSet(g, T)
      <3> HIDE DEF I, R
      <3> QED BY <2>2, <2>4, <2>5, <1>1
    <2> QED BY <2>4, <2>6
  <1>4. S \in Q
    <2> HIDE DEF Q
    <2> QED BY <1>2, <1>3, Induction
  <1> QED BY <1>4 DEF g
=============================================================================
