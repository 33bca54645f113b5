---------------------------- MODULE Dashboard_proofs ----------------------------
(***************************************************************************)
(* Proofs about modules Dashboard and Calendar, for any companies, trips,  *)
(* bookings, prices, rates and dates.                                      *)
(***************************************************************************)
EXTENDS Dashboard, FiniteSetTheorems, WellFoundedInduction, TLAPS

------------------------------------------------------------------------------
(* Sums over finite sets.  SumFunctionOnSet is a recursive function on the  *)
(* subsets of a set: it exists, and its value does not depend on the order  *)
(* in which the elements are taken.                                         *)

\* Induction over the subsets of a finite set: G holds all of them when it holds each
\* whose strict subsets it holds.
LEMMA SubsetInduction ==
    ASSUME NEW S, IsFiniteSet(S), NEW G,
           \A T \in SUBSET S : (\A U \in SUBSET T : U # T => U \in G) => T \in G
    PROVE  \A T \in SUBSET S : T \in G
<1> DEFINE bad == {T \in SUBSET S : T \notin G}
<1> SUFFICES ASSUME bad # {} PROVE FALSE
  OBVIOUS
<1>1. IsWellFoundedOn(StrictSubsetOrdering(S), SUBSET S)
  <2>1. IsWellFoundedOn(StrictSubsetOrdering(S), FiniteSubsetsOf(S))
    BY FS_StrictSubsetOrderingWellFounded
  <2>2. FiniteSubsetsOf(S) = SUBSET S
    BY FS_FiniteSubsetsOfFinite
  <2> QED
    BY <2>1, <2>2
<1>2. PICK T \in bad : \A U \in bad : ~ (<<U, T>> \in StrictSubsetOrdering(S))
  <2>1. bad \subseteq SUBSET S
    OBVIOUS
  <2> HIDE DEF bad
  <2> QED
    BY <1>1, <2>1, WFMin
<1>3. ASSUME NEW U \in SUBSET T, U # T PROVE U \in G
  BY <1>2, <1>3 DEF StrictSubsetOrdering
<1> QED
  BY <1>2, <1>3

\* g is the recursive function that adds f up over the subsets of T.
Sums(f, g, T) ==
    g = [s \in SUBSET T |-> IF s = {} THEN 0
                            ELSE LET x == CHOOSE x \in s : TRUE IN f[x] + g[s \ {x}]]

LEMMA SumIsChosen ==
    \A f, T : SumFunctionOnSet(f, T) = (CHOOSE g : Sums(f, g, T))[T]
  BY DEF Sums, SumFunctionOnSet, FoldFunctionOnSet, MapThenFoldSet

Picked(s) == CHOOSE x \in s : TRUE

LEMMA PickedIn == \A s : s # {} => Picked(s) \in s
  BY DEF Picked

LEMMA SumsUnfold ==
    ASSUME NEW f, NEW g, NEW T, Sums(f, g, T), NEW s \in SUBSET T
    PROVE  g[s] = IF s = {} THEN 0 ELSE f[Picked(s)] + g[s \ {Picked(s)}]
  BY DEF Sums, Picked

LEMMA SumsUnique ==
    ASSUME NEW f, NEW g, NEW h, NEW T, NEW U, IsFiniteSet(T), IsFiniteSet(U),
           Sums(f, g, T), Sums(f, h, U)
    PROVE  \A s \in SUBSET (T \cap U) : g[s] = h[s]
<1> DEFINE G == {s \in SUBSET (T \cap U) : g[s] = h[s]}
<1>1. IsFiniteSet(T \cap U)
  BY FS_Intersection
<1>2. ASSUME NEW s \in SUBSET (T \cap U), \A u \in SUBSET s : u # s => u \in G
      PROVE  s \in G
  <2>1. /\ g[s] = IF s = {} THEN 0 ELSE f[Picked(s)] + g[s \ {Picked(s)}]
        /\ h[s] = IF s = {} THEN 0 ELSE f[Picked(s)] + h[s \ {Picked(s)}]
    BY SumsUnfold
  <2>2. s # {} => s \ {Picked(s)} \in G
    BY <1>2, PickedIn
  <2> QED
    BY <2>1, <2>2
<1>3. \A s \in SUBSET (T \cap U) : s \in G
  <2> HIDE DEF G
  <2> QED
    BY <1>1, <1>2, SubsetInduction
<1> QED
  BY <1>3

LEMMA SumsExist ==
    ASSUME NEW f, NEW S, IsFiniteSet(S)
    PROVE  \E g : Sums(f, g, S)
<1> DEFINE G == {T \in SUBSET S : \E g : Sums(f, g, T)}
           F(T) == CHOOSE g : Sums(f, g, T)
<1>1. ASSUME NEW T \in SUBSET S, \A U \in SUBSET T : U # T => U \in G
      PROVE  T \in G
  <2> DEFINE Below(s) == F(s)[s]
             g == [s \in SUBSET T |->
                     IF s # T THEN Below(s)
                     ELSE IF T = {} THEN 0 ELSE f[Picked(T)] + Below(T \ {Picked(T)})]
  <2>1. ASSUME NEW U \in SUBSET T, U # T PROVE Sums(f, F(U), U)
    BY <1>1, <2>1
  <2>2. \A U \in SUBSET T : IsFiniteSet(U)
    BY FS_Subset
  <2>3. ASSUME NEW s \in SUBSET T
        PROVE  g[s] = IF s = {} THEN 0 ELSE f[Picked(s)] + g[s \ {Picked(s)}]
    <3>1. s # {} => s \ {Picked(s)} # T /\ s \ {Picked(s)} \in SUBSET T
      BY PickedIn
    <3>2. s # {} => g[s \ {Picked(s)}] = Below(s \ {Picked(s)})
      BY <3>1
    <3>3. CASE s = T
      BY <3>2, <3>3
    <3>4. CASE s # T
      <4>1. Sums(f, F(s), s)
        BY <2>1, <3>4
      <4>2. F(s)[s] = IF s = {} THEN 0 ELSE f[Picked(s)] + F(s)[s \ {Picked(s)}]
        <5> HIDE DEF F
        <5> QED
          BY <4>1, SumsUnfold
      <4>3. s # {} => F(s)[s \ {Picked(s)}] = Below(s \ {Picked(s)})
        <5> SUFFICES ASSUME s # {} PROVE F(s)[s \ {Picked(s)}] = Below(s \ {Picked(s)})
          OBVIOUS
        <5>1. PICK u : u = s \ {Picked(s)}
          OBVIOUS
        <5>2. Sums(f, F(u), u) /\ IsFiniteSet(u) /\ IsFiniteSet(s) /\ u \in SUBSET (s \cap u)
          BY <2>1, <2>2, <3>1, <5>1
        <5> HIDE DEF F
        <5>3. F(s)[u] = F(u)[u]
          BY <4>1, <5>2, SumsUnique
        <5> QED
          BY <5>1, <5>3
      <4> HIDE DEF F
      <4> QED
        BY <3>2, <3>4, <4>2, <4>3
    <3> QED
      BY <3>3, <3>4
  <2>4. \E h : h = g
    OBVIOUS
  <2>5. Sums(f, g, T)
    <3>1. g = [s \in SUBSET T |-> g[s]]
      OBVIOUS
    <3> HIDE DEF g
    <3> QED
      BY <2>3, <3>1 DEF Sums, Picked
  <2> QED
    BY <2>5
<1>2. S \in G
  <2> HIDE DEF G
  <2> QED
    BY <1>1, SubsetInduction
<1> QED
  BY <1>2

\* The equations of a sum, for the element it picks.
LEMMA SumUnfold ==
    ASSUME NEW f, NEW T, IsFiniteSet(T)
    PROVE  SumFunctionOnSet(f, T) =
             IF T = {} THEN 0 ELSE f[Picked(T)] + SumFunctionOnSet(f, T \ {Picked(T)})
<1> DEFINE F(U) == CHOOSE g : Sums(f, g, U)
<1>1. \A U \in SUBSET T : IsFiniteSet(U) /\ Sums(f, F(U), U)
  BY FS_Subset, SumsExist
<1>2. PICK u : u = T \ {Picked(T)}
  OBVIOUS
<1> HIDE DEF F
<1>3. F(T)[T] = IF T = {} THEN 0 ELSE f[Picked(T)] + F(T)[u]
  <2>1. Sums(f, F(T), T) /\ T \in SUBSET T
    BY <1>1
  <2>2. F(T)[T] = IF T = {} THEN 0 ELSE f[Picked(T)] + F(T)[T \ {Picked(T)}]
    BY <2>1, SumsUnfold
  <2> QED
    BY <1>2, <2>2
<1>4. F(T)[u] = F(u)[u]
  BY <1>1, <1>2, SumsUnique
<1>5. SumFunctionOnSet(f, T) = F(T)[T] /\ SumFunctionOnSet(f, u) = F(u)[u]
  BY SumIsChosen DEF F
<1>6. SumFunctionOnSet(f, T) = IF T = {} THEN 0 ELSE f[Picked(T)] + SumFunctionOnSet(f, u)
  BY <1>3, <1>4, <1>5
<1> QED
  BY <1>2, <1>6

\* f is a number on each element of T.
Numbers(f, T) == \A x \in T : f[x] \in Int

LEMMA SumEmpty == \A f : SumFunctionOnSet(f, {}) = 0
  BY SumUnfold, FS_EmptySet

LEMMA SumType ==
    ASSUME NEW f, NEW S, IsFiniteSet(S), Numbers(f, S)
    PROVE  SumFunctionOnSet(f, S) \in Int
<1> DEFINE G == {T \in SUBSET S : SumFunctionOnSet(f, T) \in Int}
<1>1. ASSUME NEW T \in SUBSET S, \A U \in SUBSET T : U # T => U \in G
      PROVE  T \in G
  <2>1. T # {} => Picked(T) \in T /\ SumFunctionOnSet(f, T \ {Picked(T)}) \in Int
    BY <1>1, PickedIn
  <2>2. IsFiniteSet(T)
    BY FS_Subset
  <2>3. SumFunctionOnSet(f, T) =
          IF T = {} THEN 0 ELSE f[Picked(T)] + SumFunctionOnSet(f, T \ {Picked(T)})
    BY <2>2, SumUnfold
  <2> QED
    BY <2>1, <2>3 DEF Numbers
<1>2. S \in G
  <2> HIDE DEF G
  <2> QED
    BY <1>1, SubsetInduction
<1> QED
  BY <1>2

\* Any element can be taken first.
LEMMA SumRemove ==
    ASSUME NEW f, NEW S, IsFiniteSet(S), Numbers(f, S), NEW x \in S
    PROVE  SumFunctionOnSet(f, S) = f[x] + SumFunctionOnSet(f, S \ {x})
<1> DEFINE Sum(T) == SumFunctionOnSet(f, T)
           G == {T \in SUBSET S : \A y \in T : Sum(T) = f[y] + Sum(T \ {y})}
<1>1. ASSUME NEW T \in SUBSET S, \A U \in SUBSET T : U # T => U \in G
      PROVE  T \in G
  <2>1. SUFFICES ASSUME NEW y \in T PROVE Sum(T) = f[y] + Sum(T \ {y})
    OBVIOUS
  <2>2. PICK z : z = Picked(T) /\ z \in T
    BY PickedIn
  <2>3. Sum(T) = f[z] + Sum(T \ {z})
    BY <2>2, FS_Subset, SumUnfold
  <2>4. CASE y = z
    BY <2>3, <2>4
  <2>5. CASE y # z
    <3>1. PICK A, B, C : A = T \ {y} /\ B = T \ {z} /\ C = T \ {y, z}
      OBVIOUS
    <3>2. A \in G /\ B \in G /\ z \in A /\ y \in B /\ A \ {z} = C /\ B \ {y} = C
      BY <1>1, <2>2, <2>5, <3>1
    <3>3. Sum(A) = f[z] + Sum(C) /\ Sum(B) = f[y] + Sum(C)
      BY <3>2
    <3>4. Numbers(f, C) /\ IsFiniteSet(C)
      BY <3>1, FS_Subset DEF Numbers
    <3>5. Sum(C) \in Int /\ f[y] \in Int /\ f[z] \in Int
      BY <2>2, <3>4, SumType DEF Numbers
    <3>6. Sum(T) = f[z] + Sum(B) /\ Sum(T \ {y}) = Sum(A)
      BY <2>3, <3>1
    <3> HIDE DEF Sum, G
    <3> QED
      BY <3>3, <3>5, <3>6
  <2> QED
    BY <2>4, <2>5
<1>2. S \in G
  <2> HIDE DEF G
  <2> QED
    BY <1>1, SubsetInduction
<1> QED
  BY <1>2

LEMMA SumAgrees ==
    ASSUME NEW f, NEW g, NEW S, IsFiniteSet(S), \A x \in S : f[x] = g[x]
    PROVE  SumFunctionOnSet(f, S) = SumFunctionOnSet(g, S)
<1> DEFINE G == {T \in SUBSET S : SumFunctionOnSet(f, T) = SumFunctionOnSet(g, T)}
<1>1. ASSUME NEW T \in SUBSET S, \A U \in SUBSET T : U # T => U \in G
      PROVE  T \in G
  <2>1. /\ SumFunctionOnSet(f, T) =
             IF T = {} THEN 0 ELSE f[Picked(T)] + SumFunctionOnSet(f, T \ {Picked(T)})
        /\ SumFunctionOnSet(g, T) =
             IF T = {} THEN 0 ELSE g[Picked(T)] + SumFunctionOnSet(g, T \ {Picked(T)})
    BY FS_Subset, SumUnfold
  <2>2. T # {} => Picked(T) \in T /\ T \ {Picked(T)} \in G
    BY <1>1, PickedIn
  <2> QED
    BY <2>1, <2>2
<1>2. S \in G
  <2> HIDE DEF G
  <2> QED
    BY <1>1, SubsetInduction
<1> QED
  BY <1>2

\* A sum over two sets with nothing in common.
LEMMA SumUnion ==
    ASSUME NEW f, NEW A, NEW B, IsFiniteSet(A), IsFiniteSet(B), A \cap B = {},
           Numbers(f, A \cup B)
    PROVE  SumFunctionOnSet(f, A \cup B) = SumFunctionOnSet(f, A) + SumFunctionOnSet(f, B)
<1> DEFINE Sum(T) == SumFunctionOnSet(f, T)
           G == {T \in SUBSET B : Sum(A \cup T) = Sum(A) + Sum(T)}
<1>1. Sum(A) \in Int
  BY SumType DEF Numbers
<1>2. ASSUME NEW T \in SUBSET B, \A U \in SUBSET T : U # T => U \in G
      PROVE  T \in G
  <2>1. CASE T = {}
    <3>1. Sum(T) = 0 /\ A \cup T = A
      BY <2>1, SumEmpty
    <3>2. Sum(A \cup T) = Sum(A) + Sum(T)
      BY <1>1, <3>1
    <3> QED
      BY <3>2
  <2>2. CASE T # {}
    <3>1. PICK x \in T : TRUE
      BY <2>2
    <3>2. PICK U, V : U = T \ {x} /\ V = A \cup T
      OBVIOUS
    <3>3. V \ {x} = A \cup U
      BY <3>2
    <3>4. /\ IsFiniteSet(T) /\ IsFiniteSet(U) /\ IsFiniteSet(V)
          /\ Numbers(f, T) /\ Numbers(f, U) /\ Numbers(f, V) /\ x \in V
      BY <3>2, FS_Subset, FS_Union DEF Numbers
    <3>5. Sum(T) = f[x] + Sum(U) /\ Sum(V) = f[x] + Sum(A \cup U)
      BY <3>2, <3>4, <3>3, SumRemove
    <3>6. Sum(A \cup U) = Sum(A) + Sum(U)
      BY <1>2, <3>2
    <3>7. Sum(U) \in Int /\ f[x] \in Int
      BY <3>4, SumType DEF Numbers
    <3> HIDE DEF Sum
    <3> QED
      BY <1>1, <3>2, <3>5, <3>6, <3>7
  <2> QED
    BY <2>1, <2>2
<1>3. B \in G
  <2> HIDE DEF G
  <2> QED
    BY <1>2, SubsetInduction
<1> QED
  BY <1>3

\* The sums of the parts of S, one for each value of key, add up to the sum over S.
LEMMA SumOfParts ==
    ASSUME NEW f, NEW S, NEW K, NEW key, NEW part, IsFiniteSet(S), IsFiniteSet(K), Numbers(f, S),
           \A x \in S : key[x] \in K,
           \A k \in K : part[k] = SumFunctionOnSet(f, {x \in S : key[x] = k})
    PROVE  SumFunctionOnSet(part, K) = SumFunctionOnSet(f, S)
<1> DEFINE Sum(T) == SumFunctionOnSet(f, T)
           Of(L) == {x \in S : key[x] \in L}
           G == {L \in SUBSET K : SumFunctionOnSet(part, L) = Sum(Of(L))}
<1>1. \A T \in SUBSET S : IsFiniteSet(T) /\ Numbers(f, T)
  BY FS_Subset DEF Numbers
<1>2. Numbers(part, K)
  <2>1. ASSUME NEW k \in K PROVE part[k] \in Int
    <3>1. PICK T \in SUBSET S : T = {x \in S : key[x] = k}
      OBVIOUS
    <3> QED
      BY <1>1, <3>1, SumType
  <2> QED
    BY <2>1 DEF Numbers
<1>3. ASSUME NEW L \in SUBSET K, \A M \in SUBSET L : M # L => M \in G
      PROVE  L \in G
  <2>1. CASE L = {}
    <3>1. Of(L) = {}
      BY <2>1
    <3> QED
      BY <2>1, <3>1, SumEmpty
  <2>2. CASE L # {}
    <3>1. PICK k \in L : TRUE
      BY <2>2
    <3>2. PICK M, A, B : M = L \ {k} /\ A = {x \in S : key[x] = k} /\ B = Of(M)
      OBVIOUS
    <3>3. IsFiniteSet(L) /\ Numbers(part, L)
      BY <1>2, FS_Subset DEF Numbers
    <3>4. SumFunctionOnSet(part, L) = part[k] + SumFunctionOnSet(part, M)
      BY <3>2, <3>3, SumRemove
    <3>5. part[k] = Sum(A) /\ SumFunctionOnSet(part, M) = Sum(B)
      BY <1>3, <3>2
    <3>6. Of(L) = A \cup B /\ A \cap B = {} /\ A \in SUBSET S /\ B \in SUBSET S
      BY <3>2
    <3>7. Sum(A \cup B) = Sum(A) + Sum(B)
      BY <1>1, <3>6, SumUnion
    <3> HIDE DEF Sum
    <3> QED
      BY <3>4, <3>5, <3>6, <3>7
  <2> QED
    BY <2>1, <2>2
<1>4. K \in G
  <2> HIDE DEF G
  <2> QED
    BY <1>3, SubsetInduction
<1>5. Of(K) = S
  OBVIOUS
<1> QED
  BY <1>4, <1>5

\* When a times f is within e of b times g everywhere, so are their sums within e for
\* each element.
LEMMA SumsClose ==
    ASSUME NEW f, NEW g, NEW S, IsFiniteSet(S), Numbers(f, S), Numbers(g, S),
           NEW a \in Int, NEW b \in Int, NEW e \in Nat,
           \A x \in S : a * f[x] - b * g[x] \in (-e)..e
    PROVE  a * SumFunctionOnSet(f, S) - b * SumFunctionOnSet(g, S)
             \in (-(e * Cardinality(S)))..(e * Cardinality(S))
<1> DEFINE Error(T) == a * SumFunctionOnSet(f, T) - b * SumFunctionOnSet(g, T)
           G == {T \in SUBSET S : Error(T) \in (-(e * Cardinality(T)))..(e * Cardinality(T))}
<1>1. ASSUME NEW T \in SUBSET S, \A U \in SUBSET T : U # T => U \in G
      PROVE  T \in G
  <2>1. CASE T = {}
    BY <2>1, SumEmpty, FS_EmptySet
  <2>2. CASE T # {}
    <3>1. PICK x \in T : TRUE
      BY <2>2
    <3>2. PICK U : U = T \ {x}
      OBVIOUS
    <3>3. /\ IsFiniteSet(T) /\ Numbers(f, T) /\ Numbers(g, T)
          /\ IsFiniteSet(U) /\ Numbers(f, U) /\ Numbers(g, U)
      BY <3>2, FS_Subset DEF Numbers
    <3>4. PICK F, H, n :
            F = SumFunctionOnSet(f, U) /\ H = SumFunctionOnSet(g, U) /\ n = Cardinality(U)
      OBVIOUS
    <3>5. /\ SumFunctionOnSet(f, T) = f[x] + F /\ SumFunctionOnSet(g, T) = g[x] + H
          /\ F \in Int /\ H \in Int /\ n \in Nat /\ Cardinality(T) = n + 1
      <4>1. Cardinality(U) \in Nat /\ Cardinality(T) \in Nat /\ Cardinality(U) = Cardinality(T) - 1
        BY <3>2, <3>3, FS_CardinalityType, FS_RemoveElement
      <4> QED
        BY <3>2, <3>3, <3>4, <4>1, SumRemove, SumType
    <3>6. PICK p, q : p = f[x] /\ q = g[x] /\ p \in Int /\ q \in Int
      BY DEF Numbers
    <3>7. a * F - b * H \in (-(e * n))..(e * n) /\ a * p - b * q \in (-e)..e
      BY <1>1, <3>2, <3>4, <3>6
    <3>8. /\ a * (p + F) = a * p + a * F /\ b * (q + H) = b * q + b * H
          /\ e * (n + 1) = e * n + e
      BY <3>5, <3>6
    <3>9. a * (p + F) - b * (q + H) \in (-(e * (n + 1)))..(e * (n + 1))
      <4>1. PICK aF, bH, ap, bq, en : aF = a * F /\ bH = b * H /\ ap = a * p /\ bq = b * q /\ en = e * n
        OBVIOUS
      <4>2. aF \in Int /\ bH \in Int /\ ap \in Int /\ bq \in Int /\ en \in Int
        BY <3>5, <3>6, <4>1
      <4> QED
        BY <3>7, <3>8, <4>1, <4>2
    <3> QED
      BY <3>5, <3>6, <3>9
  <2> QED
    BY <2>1, <2>2
<1>2. S \in G
  <2> HIDE DEF G
  <2> QED
    BY <1>1, SubsetInduction
<1> QED
  BY <1>2

\* A multiple of a sum of numbers each of whose multiples is at most m.
LEMMA SumBelow ==
    ASSUME NEW f, NEW S, IsFiniteSet(S), Numbers(f, S), NEW a \in Int, NEW m \in Int,
           \A x \in S : a * f[x] <= m
    PROVE  a * SumFunctionOnSet(f, S) <= m * Cardinality(S)
<1> DEFINE G == {T \in SUBSET S : a * SumFunctionOnSet(f, T) <= m * Cardinality(T)}
<1>1. ASSUME NEW T \in SUBSET S, \A U \in SUBSET T : U # T => U \in G
      PROVE  T \in G
  <2>1. CASE T = {}
    BY <2>1, SumEmpty, FS_EmptySet
  <2>2. CASE T # {}
    <3>1. PICK x \in T : TRUE
      BY <2>2
    <3>2. PICK U : U = T \ {x}
      OBVIOUS
    <3>3. IsFiniteSet(T) /\ Numbers(f, T) /\ IsFiniteSet(U) /\ Numbers(f, U)
      BY <3>2, FS_Subset DEF Numbers
    <3>4. PICK F, n, y : F = SumFunctionOnSet(f, U) /\ n = Cardinality(U) /\ y = f[x]
      OBVIOUS
    <3>5. /\ SumFunctionOnSet(f, T) = y + F
          /\ F \in Int /\ n \in Nat /\ Cardinality(T) = n + 1 /\ y \in Int /\ a * y <= m
      <4>1. Cardinality(U) \in Nat /\ Cardinality(T) \in Nat /\ Cardinality(U) = Cardinality(T) - 1
        BY <3>2, <3>3, FS_CardinalityType, FS_RemoveElement
      <4> QED
        BY <3>2, <3>3, <3>4, <4>1, SumRemove, SumType DEF Numbers
    <3>6. a * F <= m * n
      BY <1>1, <3>2, <3>4
    <3>7. /\ m * (n + 1) = m * n + m /\ m * n \in Int
          /\ a * (y + F) = a * y + a * F /\ a * y \in Int /\ a * F \in Int
      BY <3>5
    <3>8. a * (y + F) <= m * (n + 1)
      BY <3>5, <3>6, <3>7
    <3> QED
      BY <3>5, <3>8
  <2> QED
    BY <2>1, <2>2
<1>2. S \in G
  <2> HIDE DEF G
  <2> QED
    BY <1>1, SubsetInduction
<1> QED
  BY <1>2

\* The first of two groups of numbers, each of which is at least each of the second, has at
\* least its part of the total.
LEMMA SumOfGreatest ==
    ASSUME NEW f, NEW A, NEW B, IsFiniteSet(A), IsFiniteSet(B), A \cap B = {},
           Numbers(f, A \cup B), \A x \in A, y \in B : f[x] >= f[y]
    PROVE  Cardinality(A \cup B) * SumFunctionOnSet(f, A)
             >= Cardinality(A) * SumFunctionOnSet(f, A \cup B)
<1>1. PICK s, o, n, m : /\ s = SumFunctionOnSet(f, A) /\ o = SumFunctionOnSet(f, B)
                        /\ n = Cardinality(A) /\ m = Cardinality(B)
  OBVIOUS
<1>2. s \in Int /\ o \in Int /\ n \in Nat /\ m \in Nat
  BY <1>1, SumType, FS_CardinalityType DEF Numbers
<1>3. SumFunctionOnSet(f, A \cup B) = s + o
  BY <1>1, SumUnion
<1>4. Cardinality(A \cup B) = n + m
  <2>1. Cardinality(A \cup B) = Cardinality(A) + Cardinality(B) - Cardinality(A \cap B)
    BY FS_Union
  <2>2. Cardinality(A \cap B) = 0
    BY FS_EmptySet
  <2> QED
    BY <1>1, <1>2, <2>1, <2>2
<1>5. ASSUME NEW y \in B PROVE n * f[y] <= s
  <2>1. PICK v \in Int : v = f[y]
    BY DEF Numbers
  <2>2. ASSUME NEW x \in A PROVE (-1) * f[x] <= -v
    <3>1. f[x] \in Int /\ f[x] >= v
      BY <2>1 DEF Numbers
    <3> QED
      BY <3>1
  <2>3. (-1) * s <= (-v) * n
    <3>1. Numbers(f, A) /\ -1 \in Int /\ -v \in Int
      BY DEF Numbers
    <3>2. PICK a \in Int, c \in Int : a = -1 /\ c = -v
      BY <3>1
    <3>3. \A x \in A : a * f[x] <= c
      BY <2>2, <3>2
    <3>4. a * s <= c * n
      BY <1>1, <3>1, <3>3, SumBelow
    <3> QED
      BY <3>2, <3>4
  <2>4. (-v) * n = -(n * v) /\ n * v \in Int
    BY <1>2
  <2>5. n * v <= s
    BY <1>2, <2>3, <2>4
  <2> QED
    BY <2>1, <2>5
<1>6. n * o <= s * m
  <2>1. Numbers(f, B) /\ n \in Int
    BY <1>2 DEF Numbers
  <2> QED
    BY <1>1, <1>2, <1>5, <2>1, SumBelow
<1>7. /\ (n + m) * s = n * s + s * m /\ n * (s + o) = n * s + n * o
      /\ n * s \in Int /\ s * m \in Int /\ n * o \in Int
  BY <1>2
<1>8. (n + m) * s >= n * (s + o)
  BY <1>6, <1>7
<1> QED
  BY <1>1, <1>3, <1>4, <1>8

------------------------------------------------------------------------------
(* The calendar *)

Lengths == <<31, 28, 31, 30, 31, 30, 31, 31, 30, 31, 30, 31>>
Before  == <<0, 31, 59, 90, 120, 151, 181, 212, 243, 273, 304, 334>>

\* The days of the years before this one.
YearDays(year) == 365 * (year - 1) + (year - 1) \div 4 - (year - 1) \div 100 + (year - 1) \div 400

LeapDay(year, month) == IF month > 2 /\ Leap(year) THEN 1 ELSE 0

LEMMA OrdinalIs ==
    ASSUME NEW on, IsDate(on)
    PROVE  /\ Ordinal(on) = YearDays(on.year) + Before[on.month]
                                + LeapDay(on.year, on.month) + on.day
           /\ Ordinal(on) \in Int /\ YearDays(on.year) \in Int
  BY DEF Ordinal, IsDate, YearDays, Before, LeapDay

\* A leap year has a day more than 365.
LEMMA YearLength ==
    ASSUME NEW year \in Nat \ {0}
    PROVE  /\ YearDays(year + 1) = YearDays(year) + 365 + (IF Leap(year) THEN 1 ELSE 0)
           /\ YearDays(year) \in Int
  BY DEF YearDays, Leap

\* The days before a month and its length make the days before the next.
LEMMA MonthLength ==
    ASSUME NEW year \in Nat \ {0}, NEW month \in 1..12
    PROVE  /\ DaysIn(year, month) \in 28..31
           /\ month < 12 => Before[month + 1] + LeapDay(year, month + 1)
                              = Before[month] + LeapDay(year, month) + DaysIn(year, month)
           /\ month = 12 => Before[month] + LeapDay(year, month) + DaysIn(year, month)
                              = 365 + (IF Leap(year) THEN 1 ELSE 0)
           /\ Before[month] \in Nat /\ LeapDay(year, month) \in Nat
           /\ Before[1] + LeapDay(year, 1) = 0
  BY DEF DaysIn, Before, LeapDay

LEMMA FirstOfIs ==
    ASSUME NEW year \in Nat \ {0}, NEW month \in 1..12
    PROVE  /\ FirstOf(year, month) = YearDays(year) + Before[month] + LeapDay(year, month) + 1
           /\ FirstOf(year, month) \in Int
           /\ FirstOf(year, 1) = YearDays(year) + 1
<1>1. FirstOf(year, month) = YearDays(year) + Before[month] + LeapDay(year, month) + 1
  BY DEF FirstOf, Ordinal, YearDays, Before, LeapDay
<1>2. FirstOf(year, 1) = YearDays(year) + 1
  BY DEF FirstOf, Ordinal, YearDays
<1> QED
  BY <1>1, <1>2, YearLength, MonthLength

LEMMA MonthEndIs ==
    ASSUME NEW on, IsDate(on)
    PROVE  /\ MonthEnd(on) = FirstOf(on.year, on.month) + DaysIn(on.year, on.month)
           /\ Ordinal(on) = FirstOf(on.year, on.month) + on.day - 1
           /\ Ordinal(on) \in FirstOf(on.year, on.month)..(MonthEnd(on) - 1)
           /\ FirstOf(on.year, on.month) \in Int /\ MonthEnd(on) \in Int
<1>1. PICK y, m, d : y = on.year /\ m = on.month /\ d = on.day
  OBVIOUS
<1>2. y \in Nat \ {0} /\ m \in 1..12 /\ d \in 1..31 /\ d <= DaysIn(y, m)
  BY <1>1 DEF IsDate
<1>3. /\ Before[m] \in Nat /\ LeapDay(y, m) \in Nat /\ DaysIn(y, m) \in 28..31
      /\ FirstOf(y, m) = YearDays(y) + Before[m] + LeapDay(y, m) + 1
      /\ YearDays(y) \in Int /\ FirstOf(y, m) \in Int
  BY <1>2, MonthLength, YearLength, FirstOfIs
<1>4. Ordinal(on) = FirstOf(y, m) + d - 1
  <2>1. Ordinal(on) = YearDays(y) + Before[m] + LeapDay(y, m) + d
    BY <1>1, OrdinalIs
  <2> QED
    BY <1>2, <1>3, <2>1
<1>5. MonthEnd(on) = FirstOf(y, m) + DaysIn(y, m)
  <2>1. CASE m < 12
    <3>1. m + 1 \in 1..12 /\ MonthEnd(on) = FirstOf(y, m + 1)
      BY <1>1, <1>2, <2>1 DEF MonthEnd
    <3>2. FirstOf(y, m + 1) = YearDays(y) + Before[m + 1] + LeapDay(y, m + 1) + 1
      BY <1>2, <3>1, FirstOfIs
    <3>3. Before[m + 1] \in Nat /\ LeapDay(y, m + 1) \in Nat
      BY <1>2, <3>1, MonthLength
    <3>4. Before[m + 1] + LeapDay(y, m + 1) = Before[m] + LeapDay(y, m) + DaysIn(y, m)
      BY <1>2, <2>1, MonthLength
    <3> QED
      BY <1>3, <3>1, <3>2, <3>3, <3>4
  <2>2. CASE m = 12
    <3>1. MonthEnd(on) = FirstOf(y + 1, 1)
      BY <1>1, <2>2 DEF MonthEnd
    <3>2. FirstOf(y + 1, 1) = YearDays(y + 1) + 1
      BY <1>2, FirstOfIs
    <3>3. YearDays(y + 1) = YearDays(y) + Before[m] + LeapDay(y, m) + DaysIn(y, m)
      <4>1. Before[m] + LeapDay(y, m) + DaysIn(y, m) = 365 + (IF Leap(y) THEN 1 ELSE 0)
        BY <1>2, <2>2, MonthLength
      <4>2. YearDays(y + 1) = YearDays(y) + 365 + (IF Leap(y) THEN 1 ELSE 0)
        BY <1>2, YearLength
      <4> QED
        BY <1>3, <4>1, <4>2
    <3> QED
      BY <1>3, <3>1, <3>2, <3>3
  <2> QED
    BY <1>2, <2>1, <2>2
<1> QED
  BY <1>1, <1>2, <1>3, <1>4, <1>5

\* Tomorrow is a date, one day later.
LEMMA TomorrowIs ==
    ASSUME NEW on, IsDate(on)
    PROVE  IsDate(Tomorrow(on)) /\ Ordinal(Tomorrow(on)) = Ordinal(on) + 1
<1>1. /\ on \in [year: Nat \ {0}, month: 1..12, day: 1..31]
      /\ on.year \in Nat \ {0} /\ on.month \in 1..12 /\ on.day \in 1..31
      /\ on.day <= DaysIn(on.year, on.month)
  BY DEF IsDate
<1>2. DaysIn(on.year, on.month) \in 28..31
  BY <1>1, MonthLength
<1>3. PICK next : next = Tomorrow(on)
  OBVIOUS
<1>4. CASE on.day < DaysIn(on.year, on.month)
  <2>1. /\ next \in [year: Nat \ {0}, month: 1..12, day: 1..31]
        /\ next.year = on.year /\ next.month = on.month /\ next.day = on.day + 1
    BY <1>1, <1>2, <1>3, <1>4 DEF Tomorrow
  <2>2. IsDate(next)
    BY <1>2, <1>4, <2>1, <1>1 DEF IsDate
  <2> QED
    BY <1>1, <1>2, <1>3, <2>1, <2>2, MonthEndIs
<1>5. CASE on.day = DaysIn(on.year, on.month) /\ on.month < 12
  <2>1. /\ next \in [year: Nat \ {0}, month: 1..12, day: 1..31]
        /\ next.year = on.year /\ next.month = on.month + 1 /\ next.day = 1
    <3>1. next = [on EXCEPT !.month = @ + 1, !.day = 1] /\ on.month + 1 \in 1..12
      BY <1>1, <1>2, <1>3, <1>5 DEF Tomorrow
    <3>2. PICK y, m : y = on.year /\ m = on.month + 1 /\ m \in 1..12 /\ y \in Nat \ {0}
      BY <1>1, <3>1
    <3>3. next = [year |-> y, month |-> m, day |-> 1]
      BY <1>1, <3>1, <3>2
    <3> QED
      BY <3>2, <3>3
  <2>2. DaysIn(next.year, next.month) \in 28..31
    BY <2>1, MonthLength
  <2>3. IsDate(next)
    BY <2>1, <2>2 DEF IsDate
  <2>4. Ordinal(next) = MonthEnd(on)
    BY <1>1, <1>5, <2>1, <2>3, MonthEndIs DEF MonthEnd
  <2> QED
    BY <1>1, <1>3, <1>5, <2>3, <2>4, MonthEndIs
<1>6. CASE on.day = DaysIn(on.year, on.month) /\ on.month = 12
  <2>1. next = [year |-> on.year + 1, month |-> 1, day |-> 1]
    BY <1>1, <1>2, <1>3, <1>6 DEF Tomorrow
  <2>2. DaysIn(next.year, next.month) \in 28..31
    BY <1>1, <2>1, MonthLength
  <2>3. IsDate(next)
    BY <1>1, <2>1, <2>2 DEF IsDate
  <2>4. Ordinal(next) = MonthEnd(on)
    BY <1>1, <1>6, <2>1, <2>3, MonthEndIs DEF MonthEnd
  <2> QED
    BY <1>1, <1>3, <1>6, <2>3, <2>4, MonthEndIs
<1> QED
  BY <1>1, <1>2, <1>4, <1>5, <1>6

\* Tomorrow is in the same month, or opens the next one.
LEMMA TomorrowMonth ==
    ASSUME NEW on, IsDate(on)
    PROVE  \/ /\ Tomorrow(on).year = on.year /\ Tomorrow(on).month = on.month
           \/ /\ on.month < 12
              /\ Tomorrow(on).year = on.year /\ Tomorrow(on).month = on.month + 1
           \/ /\ on.month = 12
              /\ Tomorrow(on).year = on.year + 1 /\ Tomorrow(on).month = 1
<1>1. on \in [year: Nat \ {0}, month: 1..12, day: 1..31]
  BY DEF IsDate
<1>2. CASE on.day < DaysIn(on.year, on.month)
  BY <1>1, <1>2 DEF Tomorrow
<1>3. CASE ~(on.day < DaysIn(on.year, on.month)) /\ on.month < 12
  BY <1>1, <1>3 DEF Tomorrow
<1>4. CASE ~(on.day < DaysIn(on.year, on.month)) /\ ~(on.month < 12)
  BY <1>1, <1>4 DEF Tomorrow
<1> QED
  BY <1>2, <1>3, <1>4

LEMMA MondayIs ==
    ASSUME NEW day \in Int
    PROVE  /\ Monday(day) \in Int /\ day \in Monday(day)..(Monday(day) + 6)
           /\ Monday(day + 1) = Monday(day) \/ Monday(day + 1) = Monday(day) + 7
  BY DEF Monday, Weekday

LEMMA YearIs ==
    ASSUME NEW on, IsDate(on)
    PROVE  /\ FirstOf(on.year, 1) \in Int /\ FirstOf(on.year + 1, 1) \in Int
           /\ Ordinal(on) \in FirstOf(on.year, 1)..(FirstOf(on.year + 1, 1) - 1)
<1>1. PICK y, m, d : y = on.year /\ m = on.month /\ d = on.day
  OBVIOUS
<1>2. y \in Nat \ {0} /\ m \in 1..12 /\ d \in 1..31 /\ d <= DaysIn(y, m)
  BY <1>1 DEF IsDate
<1>3. /\ FirstOf(y, 1) = YearDays(y) + 1 /\ FirstOf(y + 1, 1) = YearDays(y + 1) + 1
      /\ YearDays(y) \in Int
      /\ YearDays(y + 1) = YearDays(y) + 365 + (IF Leap(y) THEN 1 ELSE 0)
  BY <1>2, FirstOfIs, YearLength
<1>4. Ordinal(on) = YearDays(y) + Before[m] + LeapDay(y, m) + d
  BY <1>1, OrdinalIs
<1>5. /\ Before[m] \in Nat /\ LeapDay(y, m) \in Nat
      /\ Before[m] + LeapDay(y, m) + d <= 365 + (IF Leap(y) THEN 1 ELSE 0)
  BY <1>2 DEF Before, LeapDay, DaysIn
<1> QED
  BY <1>1, <1>2, <1>3, <1>4, <1>5

\* A window that holds today.
LEMMA WindowsHoldToday ==
    ASSUME IsDate(date), NEW w \in Windows
    PROVE  \E start \in Int, end \in Int :
              w = Window(start, end) /\ start <= Today /\ Today < end /\ Today \in Int
<1>1. Today \in Int
  BY OrdinalIs DEF Today
<1>2. CASE w = ResolveCustom(Today - 1, Today)
  BY <1>1, <1>2 DEF ResolveCustom
<1>3. CASE w = ResolvePeriod("today", date)
  BY <1>1, <1>3 DEF ResolvePeriod, Today
<1>4. CASE w = ResolvePeriod("week", date)
  <2>1. w = Window(Monday(Today), Monday(Today) + 7)
    BY <1>4 DEF ResolvePeriod, Today
  <2>2. Monday(Today) \in Int /\ Today \in Monday(Today)..(Monday(Today) + 6)
    BY <1>1, MondayIs
  <2> QED
    BY <1>1, <2>1, <2>2
<1>5. CASE w = ResolvePeriod("month", date)
  <2>1. w = Window(FirstOf(date.year, date.month), MonthEnd(date))
    BY <1>5 DEF ResolvePeriod
  <2> QED
    BY <1>1, <2>1, MonthEndIs DEF Today
<1>6. CASE w = ResolvePeriod("year", date)
  <2>1. w = Window(FirstOf(date.year, 1), FirstOf(date.year + 1, 1))
    BY <1>6 DEF ResolvePeriod
  <2> QED
    BY <1>1, <2>1, YearIs DEF Today
<1> QED
  BY <1>2, <1>3, <1>4, <1>5, <1>6 DEF Windows, Periods

LEMMA Comparable ==
    ASSUME IsDate(date)
    PROVE  WindowsAreComparable
<1>1. ASSUME NEW w \in Windows
      PROVE  /\ InWindow(Today, w)
             /\ w.previous_end = w.start /\ w.end - w.start = w.previous_end - w.previous_start
  <2>1. PICK start \in Int, end \in Int :
          w = Window(start, end) /\ start <= Today /\ Today < end /\ Today \in Int
    BY WindowsHoldToday
  <2> QED
    BY <2>1 DEF Window, InWindow
<1> QED
  BY <1>1 DEF WindowsAreComparable

LEMMA NoDayBetween ==
    ASSUME IsDate(date)
    PROVE  NoDayBetweenReports
<1>1. PICK next : next = Tomorrow(date)
  OBVIOUS
<1>2. /\ IsDate(next) /\ Ordinal(next) = Today + 1 /\ Today \in Int /\ Today = Ordinal(date)
      /\ date.month \in 1..12
  BY <1>1, TomorrowIs, OrdinalIs DEF Today, IsDate
<1>3. ResolvePeriod("today", next).start = ResolvePeriod("today", date).end
  BY <1>2 DEF ResolvePeriod, Window
<1>4. \/ ResolvePeriod("week", next) = ResolvePeriod("week", date)
      \/ ResolvePeriod("week", next).start = ResolvePeriod("week", date).end
  <2>1. Monday(Today + 1) = Monday(Today) \/ Monday(Today + 1) = Monday(Today) + 7
    BY <1>2, MondayIs
  <2>2. /\ ResolvePeriod("week", next) = Window(Monday(Today + 1), Monday(Today + 1) + 7)
        /\ ResolvePeriod("week", date) = Window(Monday(Today), Monday(Today) + 7)
    BY <1>2 DEF ResolvePeriod
  <2> QED
    BY <2>1, <2>2 DEF Window
<1>5. \/ /\ next.year = date.year /\ next.month = date.month
      \/ /\ date.month < 12 /\ next.year = date.year /\ next.month = date.month + 1
      \/ /\ date.month = 12 /\ next.year = date.year + 1 /\ next.month = 1
  BY <1>1, TomorrowMonth
<1>6. \/ ResolvePeriod("month", next) = ResolvePeriod("month", date)
      \/ ResolvePeriod("month", next).start = ResolvePeriod("month", date).end
  <2>1. /\ ResolvePeriod("month", next) = Window(FirstOf(next.year, next.month), MonthEnd(next))
        /\ ResolvePeriod("month", date) = Window(FirstOf(date.year, date.month), MonthEnd(date))
    BY DEF ResolvePeriod
  <2>2. CASE next.year = date.year /\ next.month = date.month
    <3>1. MonthEnd(next) = MonthEnd(date)
      BY <2>2 DEF MonthEnd
    <3> QED
      BY <2>1, <2>2, <3>1
  <2>3. CASE ~(next.year = date.year /\ next.month = date.month)
    <3>1. FirstOf(next.year, next.month) = MonthEnd(date)
      BY <1>2, <1>5, <2>3 DEF MonthEnd
    <3> QED
      BY <2>1, <3>1 DEF Window
  <2> QED
    BY <2>2, <2>3
<1>7. \/ ResolvePeriod("year", next) = ResolvePeriod("year", date)
      \/ ResolvePeriod("year", next).start = ResolvePeriod("year", date).end
  <2>1. /\ ResolvePeriod("year", next) = Window(FirstOf(next.year, 1), FirstOf(next.year + 1, 1))
        /\ ResolvePeriod("year", date) = Window(FirstOf(date.year, 1), FirstOf(date.year + 1, 1))
    BY DEF ResolvePeriod
  <2>2. next.year = date.year \/ next.year = date.year + 1
    BY <1>5
  <2> QED
    BY <2>1, <2>2 DEF Window
<1> QED
  BY <1>1, <1>3, <1>4, <1>6, <1>7 DEF NoDayBetweenReports, Periods

------------------------------------------------------------------------------
(* Rounding *)

LEMMA Division ==
    ASSUME NEW n \in Int, NEW d \in Int, d > 0
    PROVE  n \div d \in Int /\ n % d \in 0..(d - 1) /\ n = d * (n \div d) + (n % d)
  OBVIOUS

\* A rounded quotient is within a half of the quotient.
LEMMA RoundedIs ==
    ASSUME NEW n \in Int, NEW d \in Int, d > 0
    PROVE  Rounded(n, d) \in Int /\ 2 * (d * Rounded(n, d) - n) \in (-d)..d
<1>1. PICK q, r : q = n \div d /\ r = n % d
  OBVIOUS
<1>2. q \in Int /\ r \in 0..(d - 1) /\ n = d * q + r
  BY <1>1, Division
<1>3. Rounded(n, d) = IF 2 * r > d \/ (2 * r = d /\ q % 2 = 1) THEN q + 1 ELSE q
  BY <1>1 DEF Rounded
<1>4. d * (q + 1) = d * q + d /\ d * q \in Int
  BY <1>2
<1>5. CASE 2 * r > d \/ (2 * r = d /\ q % 2 = 1)
  BY <1>2, <1>3, <1>4, <1>5
<1>6. CASE ~(2 * r > d \/ (2 * r = d /\ q % 2 = 1))
  <2>1. 2 * r <= d
    BY <1>2, <1>6
  <2> QED
    BY <1>2, <1>3, <1>4, <1>6, <2>1
<1> QED
  BY <1>5, <1>6

\* c is n / d, give or take a half.
Near(c, n, d) == c \in Int /\ 2 * (d * c - n) \in (-d)..d

LEMMA RoundedIsNear ==
    ASSUME NEW n \in Int, NEW d \in Int, d > 0
    PROVE  Near(Rounded(n, d), n, d)
  BY RoundedIs DEF Near

LEMMA HalfOf ==
    ASSUME NEW m \in Int, NEW h \in Int, 2 * m \in (-(2 * h))..(2 * h)
    PROVE  m \in (-h)..h
  OBVIOUS

\* A hundred percent, in hundredths of a percent.
Hundred == 10000

LEMMA HundredIs == Hundred \in Int /\ Hundred > 0
  BY DEF Hundred

\* A commission is within half a unit of the rate of its amount.
LEMMA CommissionIs ==
    ASSUME NEW x \in Int, NEW r \in Int
    PROVE  Near(Commission(x, r), x * r, Hundred)
<1>1. x * r \in Int
  OBVIOUS
<1>2. Near(Rounded(x * r, Hundred), x * r, Hundred)
  BY <1>1, HundredIs, RoundedIsNear, Zenon
<1> QED
  BY <1>2 DEF Commission, Hundred

\* A share is within half a hundredth of a percent.
LEMMA ShareIs ==
    ASSUME NEW x \in Int, NEW y \in Int, y > 0
    PROVE  Near(Pct(x, y), Hundred * x, y)
<1>1. Hundred * x \in Int
  BY HundredIs
<1>2. Near(Rounded(Hundred * x, y), Hundred * x, y)
  BY <1>1, RoundedIsNear, Zenon
<1> QED
  BY <1>2 DEF Pct, Hundred

------------------------------------------------------------------------------
(* The rows *)

\* A payment is that of a booking, with its amount; a confirmed one has the commission of
\* the rate in force when it was.
PaymentOK(p) ==
    payment[p] # None =>
        /\ payment[p].booking \in Bookings
        /\ booking[payment[p].booking] \in BookingRows
        /\ payment[p].amount = booking[payment[p].booking].amount
        /\ payment[p].status = "paid" =>
            /\ payment[p] \in ConfirmedPayments
            /\ payment[p].commission = Commission(payment[p].amount, payment[p].rate)

\* A page that is kept is that of the administrator whose token is in its key.
CacheOK ==
    \A e \in cache : \E a \in Admins, page \in Pages :
        e.key = CacheKey(a, page) /\ e.company = CompanyOf[a]

\* The inductive invariant.
RowsInv ==
    /\ DashboardTypeOK
    /\ \A p \in Payments : PaymentOK(p)
    /\ CacheOK /\ ServedIsOwn

\* What the steps need of the types.
LEMMA RowTypes ==
    ASSUME RowsInv
    PROVE  /\ booking \in [Bookings -> {None} \cup BookingRows]
           /\ payment \in [Payments -> {None} \cup PendingPayments \cup ConfirmedPayments]
           /\ free \in [Trips -> Nat] /\ rate \in [Companies -> Int]
           /\ IsDate(date) /\ left \in Nat /\ \A e \in cache : e.company \in Companies
           /\ None \notin BookingRows /\ None \notin PendingPayments
           /\ None \notin ConfirmedPayments /\ None.status = "none"
<1>1. None \notin BookingRows
  BY DEF None, BookingRows
<1>2. None \notin PendingPayments /\ None \notin ConfirmedPayments
  BY DEF None, PendingPayments, ConfirmedPayments
<1> QED
  BY <1>1, <1>2 DEF RowsInv, DashboardTypeOK, None

\* A step that writes the row of one booking and keeps its amount keeps the payments sound.
LEMMA BookingWritten ==
    ASSUME RowsInv, NEW b \in Bookings, NEW row \in BookingRows,
           booking' = [booking EXCEPT ![b] = row], UNCHANGED payment,
           booking[b] \in BookingRows => row.amount = booking[b].amount
    PROVE  \A p \in Payments : PaymentOK(p)'
<1>1. booking \in [Bookings -> {None} \cup BookingRows]
  BY RowTypes
<1>2. /\ booking'[b] = row /\ \A d \in Bookings : d # b => booking'[d] = booking[d]
  BY <1>1
<1>3. ASSUME NEW p \in Payments, payment[p] # None PROVE PaymentOK(p)'
  <2>1. PICK d \in Bookings : d = payment[p].booking
    BY <1>3 DEF RowsInv, PaymentOK
  <2>2. /\ booking[d] \in BookingRows /\ payment[p].amount = booking[d].amount
        /\ payment[p].status = "paid" =>
            /\ payment[p] \in ConfirmedPayments
            /\ payment[p].commission = Commission(payment[p].amount, payment[p].rate)
    BY <1>3, <2>1 DEF RowsInv, PaymentOK
  <2>3. booking'[d] \in BookingRows /\ booking'[d].amount = booking[d].amount
    BY <1>2, <2>2
  <2> QED
    BY <2>1, <2>2, <2>3 DEF PaymentOK
<1> QED
  BY <1>3 DEF PaymentOK

\* The days, the bookings, the payments and the pages of a step are those of the type.
LEMMA BookStep ==
    ASSUME RowsInv, NEW b \in Bookings, NEW t \in Trips, NEW s \in {"pending", "paid"},
           NEW amount \in Prices[t], Book(b, t, s, amount)
    PROVE  RowsInv'
<1>1. PICK row : row = [status |-> s, trip |-> t, amount |-> amount]
  OBVIOUS
<1>2. row \in BookingRows
  BY <1>1, DashboardConstants DEF BookingRows
<1>3. /\ booking' = [booking EXCEPT ![b] = row] /\ booking[b].status = "none"
      /\ free[t] > 0 /\ free' = [free EXCEPT ![t] = @ - 1]
      /\ UNCHANGED <<date, left, activity, payment, rate, cache, served>>
  BY <1>1 DEF Book, Made
<1>4. free' \in [Trips -> Nat]
  BY <1>3, RowTypes
<1>5. booking' \in [Bookings -> {None} \cup BookingRows]
  BY <1>2, <1>3, RowTypes
<1>6. DashboardTypeOK'
  BY <1>3, <1>4, <1>5 DEF RowsInv, DashboardTypeOK
<1>7. booking[b] \notin BookingRows
  BY <1>3 DEF BookingRows
<1>8. \A p \in Payments : PaymentOK(p)'
  BY <1>2, <1>3, <1>7, BookingWritten
<1>9. CacheOK' /\ ServedIsOwn'
  BY <1>3 DEF RowsInv, CacheOK, ServedIsOwn
<1> QED
  BY <1>6, <1>8, <1>9 DEF RowsInv

LEMMA CancelStep ==
    ASSUME RowsInv, NEW b \in Bookings, Cancel(b)
    PROVE  RowsInv'
<1>1. /\ booking[b].status # "none" /\ booking' = [booking EXCEPT ![b].status = "cancelled"]
      /\ free' = [free EXCEPT ![booking[b].trip] = @ + 1]
      /\ UNCHANGED <<date, left, activity, payment, rate, cache, served>>
  BY DEF Cancel, Made
<1>2. booking[b] \in BookingRows
  BY <1>1, RowTypes
<1>3. PICK row : row = [booking[b] EXCEPT !.status = "cancelled"]
  OBVIOUS
<1>4. row \in BookingRows /\ row.amount = booking[b].amount
  BY <1>2, <1>3 DEF BookingRows
<1>5. booking' = [booking EXCEPT ![b] = row]
  BY <1>1, <1>3, RowTypes
<1>6. free' \in [Trips -> Nat]
  <2>1. booking[b].trip \in Trips
    BY <1>2 DEF BookingRows
  <2> QED
    BY <1>1, <2>1, RowTypes
<1>7. booking' \in [Bookings -> {None} \cup BookingRows]
  BY <1>4, <1>5, RowTypes
<1>8. DashboardTypeOK'
  BY <1>1, <1>6, <1>7 DEF RowsInv, DashboardTypeOK
<1>9. \A p \in Payments : PaymentOK(p)'
  BY <1>1, <1>4, <1>5, BookingWritten
<1>10. CacheOK' /\ ServedIsOwn'
  BY <1>1 DEF RowsInv, CacheOK, ServedIsOwn
<1> QED
  BY <1>8, <1>9, <1>10 DEF RowsInv

LEMMA InitiateStep ==
    ASSUME RowsInv, NEW p \in Payments, NEW b \in Bookings, NEW m \in Methods, Initiate(p, b, m)
    PROVE  RowsInv'
<1>1. PICK row : row = [status |-> "pending", booking |-> b, method |-> m,
                        amount |-> booking[b].amount]
  OBVIOUS
<1>2. /\ payment' = [payment EXCEPT ![p] = row] /\ booking[b].status # "none"
      /\ UNCHANGED <<date, left, activity, booking, free, rate, cache, served>>
  BY <1>1 DEF Initiate, Made
<1>3. booking[b] \in BookingRows
  BY <1>2, RowTypes
<1>4. /\ row \in PendingPayments /\ row.booking = b /\ row.amount = booking[b].amount
      /\ row.status = "pending"
  BY <1>1, <1>3 DEF BookingRows, PendingPayments
<1>5. payment' \in [Payments -> {None} \cup PendingPayments \cup ConfirmedPayments]
  BY <1>2, <1>4, RowTypes
<1>6. DashboardTypeOK'
  BY <1>2, <1>5 DEF RowsInv, DashboardTypeOK
<1>7. ASSUME NEW q \in Payments PROVE PaymentOK(q)'
  <2>1. CASE q # p
    <3>1. payment'[q] = payment[q]
      BY <1>2, <2>1, RowTypes
    <3> QED
      BY <1>2, <3>1 DEF RowsInv, PaymentOK
  <2>2. CASE q = p
    <3>1. payment'[q] = row
      BY <1>2, <2>2, RowTypes
    <3> QED
      BY <1>2, <1>3, <1>4, <3>1 DEF PaymentOK
  <2> QED
    BY <2>1, <2>2
<1>8. CacheOK' /\ ServedIsOwn'
  BY <1>2 DEF RowsInv, CacheOK, ServedIsOwn
<1> QED
  BY <1>6, <1>7, <1>8 DEF RowsInv

LEMMA ConfirmStep ==
    ASSUME RowsInv, NEW p \in Payments, Confirm(p)
    PROVE  RowsInv'
<1>1. PICK b, percent, amount :
        b = payment[p].booking /\ percent = rate[CompanyOfBooking(b)] /\ amount = payment[p].amount
  OBVIOUS
<1>2. PICK paid : paid = [status |-> "paid", booking |-> b, method |-> payment[p].method,
                          amount |-> amount, paid_at |-> Today,
                          commission |-> Commission(amount, percent), rate |-> percent]
  OBVIOUS
<1>3. /\ payment[p].status = "pending" /\ booking' = [booking EXCEPT ![b].status = "paid"]
      /\ payment' = [payment EXCEPT ![p] = paid]
      /\ UNCHANGED <<date, left, activity, free, rate, cache, served>>
  BY <1>1, <1>2 DEF Confirm
<1>4. payment[p] # None /\ payment[p] \in PendingPayments
  BY <1>3, RowTypes DEF ConfirmedPayments
<1>5. b \in Bookings /\ booking[b] \in BookingRows /\ amount = booking[b].amount
  BY <1>1, <1>4 DEF RowsInv, PaymentOK
<1>6. percent \in Int /\ amount \in Int /\ payment[p].method \in Methods
  <2>1. CompanyOfBooking(b) \in Companies
    BY <1>5, DashboardConstants DEF CompanyOfBooking, Companies, Range, BookingRows
  <2> QED
    BY <1>1, <1>4, <2>1, RowTypes DEF PendingPayments
<1>7. Commission(amount, percent) \in Int /\ Today \in Int
  <2>1. amount * percent \in Int
    BY <1>6
  <2>2. Commission(amount, percent) \in Int
    BY <2>1, RoundedIs DEF Commission
  <2> QED
    BY <2>2, OrdinalIs, RowTypes DEF Today
<1>8. /\ paid \in ConfirmedPayments /\ paid.status = "paid" /\ paid.booking = b
      /\ paid.amount = amount /\ paid.commission = Commission(paid.amount, paid.rate)
  BY <1>2, <1>5, <1>6, <1>7 DEF ConfirmedPayments
<1>9. PICK row : row = [booking[b] EXCEPT !.status = "paid"]
  OBVIOUS
<1>10. row \in BookingRows /\ row.amount = booking[b].amount
  BY <1>5, <1>9 DEF BookingRows
<1>11. /\ booking' = [booking EXCEPT ![b] = row]
       /\ booking' \in [Bookings -> {None} \cup BookingRows]
       /\ booking'[b] = row /\ \A d \in Bookings : d # b => booking'[d] = booking[d]
  BY <1>3, <1>5, <1>9, <1>10, RowTypes
<1>12. payment' \in [Payments -> {None} \cup PendingPayments \cup ConfirmedPayments]
  BY <1>3, <1>8, RowTypes
<1>13. DashboardTypeOK'
  BY <1>3, <1>11, <1>12 DEF RowsInv, DashboardTypeOK
<1>14. ASSUME NEW q \in Payments PROVE PaymentOK(q)'
  <2>1. CASE q # p
    <3>1. payment'[q] = payment[q]
      BY <1>3, <2>1, RowTypes
    <3>2. ASSUME payment[q] # None PROVE PaymentOK(q)'
      <4>1. PICK d \in Bookings : d = payment[q].booking
        BY <3>2 DEF RowsInv, PaymentOK
      <4>2. /\ booking[d] \in BookingRows /\ payment[q].amount = booking[d].amount
            /\ payment[q].status = "paid" =>
                /\ payment[q] \in ConfirmedPayments
                /\ payment[q].commission = Commission(payment[q].amount, payment[q].rate)
        BY <3>2, <4>1 DEF RowsInv, PaymentOK
      <4>3. booking'[d] \in BookingRows /\ booking'[d].amount = booking[d].amount
        BY <1>10, <1>11, <4>2
      <4> QED
        BY <3>1, <4>1, <4>2, <4>3 DEF PaymentOK
    <3> QED
      BY <3>1, <3>2 DEF PaymentOK
  <2>2. CASE q = p
    <3>1. payment'[q] = paid
      BY <1>3, <2>2, RowTypes
    <3> QED
      BY <1>5, <1>8, <1>10, <1>11, <3>1 DEF PaymentOK
  <2> QED
    BY <2>1, <2>2
<1>15. CacheOK' /\ ServedIsOwn'
  BY <1>3 DEF RowsInv, CacheOK, ServedIsOwn
<1> QED
  BY <1>13, <1>14, <1>15 DEF RowsInv

\* The commission of a confirmed payment is that of the old rate.
LEMMA SetRateStep ==
    ASSUME RowsInv, NEW k \in Companies, NEW percent \in Rates[k], SetRate(k, percent)
    PROVE  RowsInv'
<1>1. /\ rate' = [rate EXCEPT ![k] = percent]
      /\ UNCHANGED <<date, left, activity, booking, payment, free, cache, served>>
  BY DEF SetRate
<1>2. rate' \in [Companies -> Int]
  BY <1>1, RowTypes, DashboardConstants DEF Companies
<1>3. DashboardTypeOK'
  BY <1>1, <1>2 DEF RowsInv, DashboardTypeOK
<1>4. \A p \in Payments : PaymentOK(p)'
  BY <1>1 DEF RowsInv, PaymentOK
<1> QED
  BY <1>1, <1>3, <1>4 DEF RowsInv, CacheOK, ServedIsOwn

\* Steps that leave the rows alone.
LEMMA RowsKept ==
    ASSUME RowsInv, UNCHANGED facts
    PROVE  \A p \in Payments : PaymentOK(p)'
  BY DEF RowsInv, facts, PaymentOK

\* A page comes from the entry of its reader's token.
LEMMA GetStep ==
    ASSUME RowsInv, NEW a \in Admins, NEW page \in Pages, Get(a, page)
    PROVE  RowsInv'
<1>1. PICK entry :
        /\ entry = IF Cached(a, page) = {}
                   THEN [key |-> CacheKey(a, page), company |-> CompanyOf[a], made |-> Today]
                   ELSE CHOOSE e \in Cached(a, page) : TRUE
        /\ cache' = cache \cup {entry} /\ served' = served \cup {[reader |-> a, entry |-> entry]}
        /\ UNCHANGED <<date, left, activity, facts>>
  BY DEF Get
<1>2. entry.key = CacheKey(a, page) /\ entry.company = CompanyOf[a]
  <2>1. CASE Cached(a, page) = {}
    BY <1>1, <2>1
  <2>2. CASE Cached(a, page) # {}
    <3>1. entry \in cache /\ entry.key = CacheKey(a, page)
      BY <1>1, <2>2 DEF Cached
    <3>2. PICK b \in Admins, p \in Pages : entry.key = CacheKey(b, p) /\ entry.company = CompanyOf[b]
      BY <3>1 DEF RowsInv, CacheOK
    <3> QED
      BY <3>1, <3>2 DEF CacheKey
  <2> QED
    BY <2>1, <2>2
<1>3. CacheOK'
  <2>1. ASSUME NEW e \in cache'
        PROVE  \E b \in Admins, p \in Pages : e.key = CacheKey(b, p) /\ e.company = CompanyOf[b]
    <3>1. e \in cache \/ e = entry
      BY <1>1
    <3> QED
      BY <1>2, <3>1 DEF RowsInv, CacheOK
  <2> QED
    BY <2>1 DEF CacheOK, CacheKey
<1>4. ServedIsOwn'
  <2>1. ASSUME NEW s \in served' PROVE s.entry.company = CompanyOf[s.reader]
    <3>1. s \in served \/ s = [reader |-> a, entry |-> entry]
      BY <1>1
    <3> QED
      BY <1>2, <3>1 DEF RowsInv, ServedIsOwn
  <2> QED
    BY <2>1 DEF ServedIsOwn
<1>5. DashboardTypeOK'
  BY <1>1, <1>2, DashboardConstants DEF RowsInv, DashboardTypeOK, facts, Companies
<1> QED
  BY <1>1, <1>3, <1>4, <1>5, RowsKept DEF RowsInv

LEMMA ExpireStep ==
    ASSUME RowsInv, NEW entry \in cache, Expire(entry)
    PROVE  RowsInv'
<1>1. /\ cache' \subseteq cache /\ served' \subseteq served
      /\ UNCHANGED <<date, left, activity, facts>>
  BY DEF Expire
<1>2. CacheOK' /\ ServedIsOwn'
  BY <1>1 DEF RowsInv, CacheOK, ServedIsOwn, CacheKey
<1>3. DashboardTypeOK'
  BY <1>1 DEF RowsInv, DashboardTypeOK, facts
<1> QED
  BY <1>1, <1>2, <1>3, RowsKept DEF RowsInv

LEMMA NextDayStep ==
    ASSUME RowsInv, NextDay
    PROVE  RowsInv'
<1>1. /\ left > 0 /\ date' = Tomorrow(date) /\ left' = left - 1
      /\ UNCHANGED <<activity, facts, cache, served>>
  BY DEF NextDay
<1>2. CacheOK' /\ ServedIsOwn'
  BY <1>1 DEF RowsInv, CacheOK, ServedIsOwn, CacheKey
<1>3. DashboardTypeOK'
  BY <1>1, TomorrowIs DEF RowsInv, DashboardTypeOK, facts
<1> QED
  BY <1>1, <1>2, <1>3, RowsKept DEF RowsInv

LEMMA RowsInit == Init => RowsInv
<1> SUFFICES ASSUME Init PROVE RowsInv
  OBVIOUS
<1>1. /\ booking = [b \in Bookings |-> None] /\ payment = [p \in Payments |-> None]
      /\ free = [t \in Trips |-> Seats[t]] /\ cache = {} /\ served = {}
      /\ rate \in [Companies -> UNION {Rates[k] : k \in Companies}]
      /\ \E s \in Scenarios : date = s.from /\ left = s.days /\ activity = s.activity
  BY DEF Init
<1>2. rate \in [Companies -> Int]
  BY <1>1, DashboardConstants DEF Companies
<1>3. free \in [Trips -> Nat]
  BY <1>1, DashboardConstants
<1>4. DashboardTypeOK
  BY <1>1, <1>2, <1>3, DashboardConstants DEF DashboardTypeOK
<1>5. \A p \in Payments : PaymentOK(p)
  BY <1>1 DEF PaymentOK
<1> QED
  BY <1>1, <1>4, <1>5 DEF RowsInv, CacheOK, ServedIsOwn

LEMMA RowsStep == RowsInv /\ [Next]_vars => RowsInv'
<1> SUFFICES ASSUME RowsInv, [Next]_vars PROVE RowsInv'
  OBVIOUS
<1>1. CASE NextDay
  BY <1>1, NextDayStep
<1>2. CASE RowStep
  <2>1. ASSUME NEW b \in Bookings, NEW t \in Trips, NEW s \in {"pending", "paid"},
               NEW amount \in Prices[t], Book(b, t, s, amount)
        PROVE  RowsInv'
    BY <2>1, BookStep
  <2>2. ASSUME NEW b \in Bookings, Cancel(b) PROVE RowsInv'
    BY <2>2, CancelStep
  <2>3. ASSUME NEW b \in Bookings, NEW p \in Payments, NEW m \in Methods, Initiate(p, b, m)
        PROVE  RowsInv'
    BY <2>3, InitiateStep
  <2>4. ASSUME NEW p \in Payments, Confirm(p) PROVE RowsInv'
    BY <2>4, ConfirmStep
  <2>5. ASSUME NEW k \in Companies, NEW percent \in Rates[k], SetRate(k, percent) PROVE RowsInv'
    BY <2>5, SetRateStep
  <2> QED
    BY <1>2, <2>1, <2>2, <2>3, <2>4, <2>5 DEF RowStep
<1>3. CASE PageStep
  <2>1. ASSUME NEW a \in Admins, NEW page \in Pages, Get(a, page) PROVE RowsInv'
    BY <2>1, GetStep
  <2>2. ASSUME NEW entry \in cache, Expire(entry) PROVE RowsInv'
    BY <2>2, ExpireStep
  <2> QED
    BY <1>3, <2>1, <2>2 DEF PageStep
<1>4. CASE UNCHANGED vars
  BY <1>4, RowsKept DEF RowsInv, vars, facts, DashboardTypeOK, CacheOK, ServedIsOwn
<1> QED
  BY <1>1, <1>2, <1>3, <1>4 DEF Next

\* The inductive invariant: a payment keeps the amount of its booking, a confirmed one the
\* commission of the rate of its confirmation whatever is sold, cancelled, paid again or
\* edited later, and a page that cache_page keeps is that of its token.
THEOREM RowsInvariant == Spec => []RowsInv
  BY RowsInit, RowsStep, PTL DEF Spec

------------------------------------------------------------------------------
(* The figures *)

LEMMA ImageFinite ==
    ASSUME NEW S, IsFiniteSet(S), NEW f
    PROVE  IsFiniteSet({f[x] : x \in S})
<1> DEFINE T == {f[x] : x \in S}
           g == [x \in S |-> f[x]]
<1>1. g \in Surjection(S, T)
  BY DEF Surjection
<1> HIDE DEF g, T
<1>2. IsFiniteSet(T)
  BY <1>1, FS_Surjection
<1> QED
  BY <1>2 DEF T

\* The payments of a company in a window are some of those that were ever made.
LEMMA PaidIn ==
    ASSUME RowsInv, NEW k, NEW start, NEW end
    PROVE  /\ PaidPayments(k, start, end) \in SUBSET PaidEver
           /\ IsFiniteSet(PaidPayments(k, start, end))
           /\ Numbers(Amount, PaidPayments(k, start, end))
           /\ Numbers(Amount, PaidEver) /\ Numbers(CommissionOf, PaidEver)
           /\ IsFiniteSet(PaidEver) /\ \A p \in PaidEver : payment[p] \in ConfirmedPayments
<1>1. PaidPayments(k, start, end) \in SUBSET PaidEver
  BY DEF PaidPayments
<1>2. ASSUME NEW p \in PaidEver PROVE payment[p] \in ConfirmedPayments
  BY DEF PaidEver, RowsInv, PaymentOK, None
<1>3. Numbers(Amount, PaidEver) /\ Numbers(CommissionOf, PaidEver)
  BY <1>2 DEF Amount, CommissionOf, Numbers, ConfirmedPayments
<1>4. IsFiniteSet(PaidEver)
  BY DashboardConstants, FS_Subset DEF PaidEver
<1> QED
  BY <1>1, <1>2, <1>3, <1>4, FS_Subset DEF Numbers

\* A table that adds the amounts up per value of key adds up to the revenue.
LEMMA TableAddsUp ==
    ASSUME NEW f, NEW S, IsFiniteSet(S), Numbers(f, S), NEW key, NEW table,
           DOMAIN table = {key[x] : x \in S},
           \A x \in DOMAIN table :
              table[x] = SumFunctionOnSet(f, {y \in S : key[y] = x})
    PROVE  SumFunction(table) = SumFunctionOnSet(f, S)
<1>1. PICK K : K = DOMAIN table
  OBVIOUS
<1>2. IsFiniteSet(K)
  BY <1>1, ImageFinite
<1>3. SumFunctionOnSet(table, K) = SumFunctionOnSet(f, S)
  BY <1>1, <1>2, SumOfParts
<1> QED
  BY <1>1, <1>3 DEF SumFunction

LEMMA ChartAddsUp ==
    ASSUME RowsInv, NEW k, NEW w
    PROVE  SumFunction(RevenueChart(k, w)) = Revenue(k, w.start, w.end)
<1>1. PICK paid : paid = PaidPayments(k, w.start, w.end)
  OBVIOUS
<1>2. PICK key : key = [b \in paid |-> Bucket(payment[b].paid_at, w)]
  OBVIOUS
<1>3. PICK chart : chart = RevenueChart(k, w)
  OBVIOUS
<1>4. chart = [bucket \in {Bucket(payment[b].paid_at, w) : b \in paid} |->
                  SumFunctionOnSet(Amount, {b \in paid : Bucket(payment[b].paid_at, w) = bucket})]
  BY <1>1, <1>3 DEF RevenueChart
<1>5. DOMAIN chart = {key[b] : b \in paid}
  BY <1>2, <1>4
<1>6. ASSUME NEW x \in DOMAIN chart
      PROVE  chart[x] = SumFunctionOnSet(Amount, {b \in paid : key[b] = x})
  <2>1. {b \in paid : key[b] = x} = {b \in paid : Bucket(payment[b].paid_at, w) = x}
    BY <1>2
  <2> QED
    BY <1>4, <2>1
<1>7. IsFiniteSet(paid) /\ Numbers(Amount, paid)
  BY <1>1, PaidIn
<1> QED
  BY <1>1, <1>3, <1>5, <1>6, <1>7, TableAddsUp DEF Revenue

LEMMA RoutesAddUp ==
    ASSUME RowsInv, NEW k, NEW w
    PROVE  LET all == RevenueByRoute(k, w)
           IN  /\ SumFunction(all) = Revenue(k, w.start, w.end)
               /\ IsFiniteSet(DOMAIN all) /\ Numbers(all, DOMAIN all)
<1>1. PICK paid, table : paid = PaidPayments(k, w.start, w.end) /\ table = RevenueByRoute(k, w)
  OBVIOUS
<1>2. PICK key : key = [p \in paid |-> RoutePaid(p)]
  OBVIOUS
<1>3. table = [r \in {RoutePaid(p) : p \in paid} |->
                  SumFunctionOnSet(Amount, {p \in paid : RoutePaid(p) = r})]
  BY <1>1 DEF RevenueByRoute
<1>4. DOMAIN table = {key[p] : p \in paid}
  BY <1>2, <1>3
<1>5. ASSUME NEW x \in DOMAIN table
      PROVE  table[x] = SumFunctionOnSet(Amount, {p \in paid : key[p] = x})
  <2>1. {p \in paid : key[p] = x} = {p \in paid : RoutePaid(p) = x}
    BY <1>2
  <2> QED
    BY <1>3, <2>1
<1>6. IsFiniteSet(paid) /\ Numbers(Amount, paid)
  BY <1>1, PaidIn
<1>7. IsFiniteSet(DOMAIN table)
  BY <1>4, <1>6, ImageFinite
<1>8. ASSUME NEW x \in DOMAIN table PROVE table[x] \in Int
  <2>1. PICK T \in SUBSET paid : T = {p \in paid : key[p] = x}
    OBVIOUS
  <2>2. IsFiniteSet(T) /\ Numbers(Amount, T)
    BY <1>6, FS_Subset DEF Numbers
  <2> QED
    BY <1>5, <2>1, <2>2, SumType
<1> QED
  BY <1>1, <1>4, <1>5, <1>6, <1>7, <1>8, TableAddsUp DEF Revenue, Numbers

\* A table of the best routes: the sums of the two parts of the routes.
LEMMA RoutesLead ==
    ASSUME RowsInv
    PROVE  TopRoutesLead
<1>1. ASSUME NEW k \in Companies, NEW w \in Windows, NEW table \in TopRoutes(k, w)
      PROVE  /\ Cardinality(DOMAIN table) = Cardinality(DOMAIN RevenueByRoute(k, w))
                   => SumFunction(table) = Revenue(k, w.start, w.end)
             /\ Cardinality(DOMAIN RevenueByRoute(k, w)) * SumFunction(table)
                   >= Cardinality(DOMAIN table) * Revenue(k, w.start, w.end)
  <2>1. PICK all, routes : all = RevenueByRoute(k, w) /\ routes = DOMAIN all
    OBVIOUS
  <2>2. /\ SumFunctionOnSet(all, routes) = Revenue(k, w.start, w.end)
        /\ IsFiniteSet(routes) /\ Numbers(all, routes)
    BY <2>1, RoutesAddUp DEF SumFunction
  <2>3. PICK A \in SUBSET routes :
          table = Restrict(all, A) /\ \A r \in A, o \in routes \ A : all[r] >= all[o]
    BY <2>1 DEF TopRoutes
  <2>4. table = [r \in A |-> all[r]] /\ DOMAIN table = A
    BY <2>3 DEF Restrict
  <2>5. PICK B : B = routes \ A
    OBVIOUS
  <2>6. A \cup B = routes /\ A \cap B = {} /\ IsFiniteSet(A) /\ IsFiniteSet(B)
    BY <2>2, <2>5, FS_Subset
  <2>7. SumFunction(table) = SumFunctionOnSet(all, A)
    <3>1. \A r \in A : table[r] = all[r]
      BY <2>4
    <3> QED
      BY <2>4, <2>6, <3>1, SumAgrees DEF SumFunction
  <2>8. Cardinality(routes) * SumFunctionOnSet(all, A)
          >= Cardinality(A) * SumFunctionOnSet(all, routes)
    <3>1. \A r \in A, o \in B : all[r] >= all[o]
      BY <2>3, <2>5
    <3>2. Numbers(all, A \cup B)
      BY <2>2, <2>6
    <3>3. Cardinality(A \cup B) * SumFunctionOnSet(all, A)
            >= Cardinality(A) * SumFunctionOnSet(all, A \cup B)
      BY <2>6, <3>1, <3>2, SumOfGreatest
    <3> QED
      BY <2>6, <3>3
  <2>9. Cardinality(A) = Cardinality(routes) => A = routes
    BY <2>2, FS_Subset
  <2> QED
    BY <2>1, <2>2, <2>4, <2>7, <2>8, <2>9
<1> QED
  BY <1>1 DEF TopRoutesLead

\* The amounts of the breakdown by method.
LEMMA BreakdownAddsUp ==
    ASSUME RowsInv, NEW k, NEW w
    PROVE  LET breakdown == PaymentBreakdown(k, w)
           IN  SumFunction([m \in DOMAIN breakdown |-> breakdown[m].amount])
                 = Revenue(k, w.start, w.end)
<1>1. PICK paid, used, amount :
        /\ paid = PaidPayments(k, w.start, w.end) /\ used = {payment[p].method : p \in paid}
        /\ amount = [m \in used |-> SumFunctionOnSet(Amount, {p \in paid : payment[p].method = m})]
  OBVIOUS
<1>2. PICK breakdown, column :
        /\ breakdown = PaymentBreakdown(k, w)
        /\ column = [m \in DOMAIN breakdown |-> breakdown[m].amount]
  OBVIOUS
<1>3. breakdown = [m \in used |-> [amount |-> amount[m],
                                  pct |-> Pct(amount[m], BreakdownTotal(k, w))]]
  BY <1>1, <1>2 DEF PaymentBreakdown
<1>4. column = amount
  BY <1>1, <1>2, <1>3
<1>5. PICK key : key = [p \in paid |-> payment[p].method]
  OBVIOUS
<1>6. DOMAIN amount = {key[p] : p \in paid}
  BY <1>1, <1>5
<1>7. ASSUME NEW m \in DOMAIN amount
      PROVE  amount[m] = SumFunctionOnSet(Amount, {p \in paid : key[p] = m})
  <2>1. {p \in paid : key[p] = m} = {p \in paid : payment[p].method = m}
    BY <1>5
  <2> QED
    BY <1>1, <2>1
<1>8. IsFiniteSet(paid) /\ Numbers(Amount, paid)
  BY <1>1, PaidIn
<1>9. SumFunction(amount) = SumFunctionOnSet(Amount, paid)
  BY <1>6, <1>7, <1>8, TableAddsUp
<1>10. SumFunction(column) = Revenue(k, w.start, w.end)
  BY <1>1, <1>4, <1>9 DEF Revenue
<1> QED
  BY <1>2, <1>10

\* The shares are each within a half of a hundredth of a percent.
LEMMA SharesAddUp ==
    ASSUME RowsInv, NEW k, NEW w, Revenue(k, w.start, w.end) > 0
    PROVE  LET breakdown == PaymentBreakdown(k, w)
           IN  SumFunction([m \in DOMAIN breakdown |-> breakdown[m].pct])
                 \in (10000 - Cardinality(Methods))..(10000 + Cardinality(Methods))
<1>1. PICK paid, R : paid = PaidPayments(k, w.start, w.end) /\ R = Revenue(k, w.start, w.end)
  OBVIOUS
<1>2. IsFiniteSet(paid) /\ Numbers(Amount, paid) /\ paid \in SUBSET PaidEver
  BY <1>1, PaidIn
<1>3. R \in Int /\ R > 0 /\ R = SumFunctionOnSet(Amount, paid)
  BY <1>1, <1>2, SumType DEF Revenue
<1>4. PICK used, amount :
        /\ used = {payment[p].method : p \in paid}
        /\ amount = [m \in used |-> SumFunctionOnSet(Amount, {p \in paid : payment[p].method = m})]
  OBVIOUS
<1>5. PICK breakdown, share :
        /\ breakdown = PaymentBreakdown(k, w)
        /\ share = [m \in DOMAIN breakdown |-> breakdown[m].pct]
  OBVIOUS
<1>6. breakdown = [m \in used |-> [amount |-> amount[m], pct |-> Pct(amount[m], R)]]
  BY <1>1, <1>4, <1>5 DEF PaymentBreakdown, BreakdownTotal
<1>7. share = [m \in used |-> Pct(amount[m], R)] /\ DOMAIN share = used
  BY <1>5, <1>6
<1>8. used \in SUBSET Methods
  BY <1>2, <1>4, PaidIn DEF ConfirmedPayments
<1>9. /\ IsFiniteSet(used) /\ Cardinality(used) \in Nat /\ Cardinality(Methods) \in Nat
      /\ Cardinality(used) <= Cardinality(Methods)
  BY <1>8, DashboardConstants, FS_Subset, FS_CardinalityType
<1>10. SumFunction(amount) = R
  <2>1. PICK key : key = [p \in paid |-> payment[p].method]
    OBVIOUS
  <2>2. DOMAIN amount = {key[p] : p \in paid}
    BY <1>4, <2>1
  <2>3. ASSUME NEW m \in DOMAIN amount
        PROVE  amount[m] = SumFunctionOnSet(Amount, {p \in paid : key[p] = m})
    <3>1. {p \in paid : key[p] = m} = {p \in paid : payment[p].method = m}
      BY <2>1
    <3> QED
      BY <1>4, <3>1
  <2> QED
    BY <1>2, <1>3, <2>2, <2>3, TableAddsUp
<1>11. Numbers(amount, used)
  <2>1. ASSUME NEW m \in used PROVE amount[m] \in Int
    <3>1. PICK T \in SUBSET paid : T = {p \in paid : payment[p].method = m}
      OBVIOUS
    <3>2. IsFiniteSet(T) /\ Numbers(Amount, T)
      BY <1>2, FS_Subset DEF Numbers
    <3> QED
      BY <1>4, <3>1, <3>2, SumType
  <2> QED
    BY <2>1 DEF Numbers
<1>12. ASSUME NEW m \in used
       PROVE  share[m] \in Int /\ (2 * R) * share[m] - 20000 * amount[m] \in (-R)..R
  <2>1. PICK s, a : s = share[m] /\ a = amount[m] /\ s = Pct(a, R) /\ a \in Int
    BY <1>7, <1>11 DEF Numbers
  <2>2. s \in Int /\ (2 * R) * s - 20000 * a \in (-R)..R
    <3>1. Near(Pct(a, R), Hundred * a, R)
      <4>1. a \in Int /\ R \in Int /\ R > 0
        BY <1>3, <2>1
      <4> QED
        BY <4>1, ShareIs, Zenon
    <3>2. Near(s, Hundred * a, R)
      BY <2>1, <3>1
    <3> QED
      BY <1>3, <2>1, <3>2 DEF Near, Hundred
  <2> QED
    BY <2>1, <2>2
<1>13. PICK total, n : total = SumFunctionOnSet(share, used) /\ n = Cardinality(used)
  OBVIOUS
<1>14. /\ total \in Int /\ n \in Nat
       /\ (2 * R) * total - 20000 * R \in (-(R * n))..(R * n)
  <2>1. Numbers(share, used)
    BY <1>12 DEF Numbers
  <2>2. SumFunctionOnSet(amount, used) = R
    BY <1>4, <1>10 DEF SumFunction
  <2>3. PICK A \in Int, B \in Int : A = 2 * R /\ B = 20000 /\ R \in Nat
    BY <1>3
  <2>4. \A m \in used : A * share[m] - B * amount[m] \in (-R)..R
    BY <1>12, <2>3
  <2>5. A * SumFunctionOnSet(share, used) - B * SumFunctionOnSet(amount, used)
          \in (-(R * Cardinality(used)))..(R * Cardinality(used))
    <3>1. IsFiniteSet(used) /\ Numbers(amount, used) /\ Numbers(share, used) /\ R \in Nat
      BY <1>9, <1>11, <2>1, <2>3
    <3> QED
      BY <2>4, <3>1, SumsClose, Zenon
  <2> QED
    BY <1>9, <1>13, <2>1, <2>2, <2>3, <2>5, SumType
<1>15. 2 * total - 20000 \in (-n)..n
  <2>1. PICK z : z = 2 * total - 20000 /\ z \in Int
    BY <1>14
  <2>2. R * z = (2 * R) * total - 20000 * R
    BY <1>3, <1>14, <2>1
  <2>3. R * z <= R * n /\ R * z >= -(R * n)
    BY <1>3, <1>14, <2>1, <2>2
  <2>4. ASSUME z >= n + 1 PROVE FALSE
    <3>1. R * z >= R * (n + 1) /\ R * (n + 1) = R * n + R /\ R * n \in Int
      BY <1>3, <1>14, <2>1, <2>4
    <3> QED
      BY <1>3, <2>1, <2>3, <3>1
  <2>5. ASSUME z <= -(n + 1) PROVE FALSE
    <3>1. R * z <= R * (-(n + 1)) /\ R * (-(n + 1)) = -(R * n) - R /\ R * n \in Int
      BY <1>3, <1>14, <2>1, <2>5
    <3> QED
      BY <1>3, <2>1, <2>3, <3>1
  <2> QED
    BY <1>14, <2>1, <2>4, <2>5
<1>16. total \in (10000 - Cardinality(Methods))..(10000 + Cardinality(Methods))
  BY <1>9, <1>13, <1>14, <1>15
<1> QED
  BY <1>5, <1>7, <1>13, <1>16 DEF SumFunction

LEMMA RevenueAlwaysAgrees ==
    ASSUME RowsInv
    PROVE  RevenueAgrees
  BY ChartAddsUp, BreakdownAddsUp, SharesAddUp DEF RevenueAgrees

LEMMA NeverTwice ==
    ASSUME RowsInv
    PROVE  NoPaymentTwice
<1>1. ASSUME NEW k, NEW w \in Windows
      PROVE  PaidPayments(k, w.start, w.end)
               \cap PaidPayments(k, w.previous_start, w.previous_end) = {}
  <2>1. PICK start \in Int, end \in Int : w = Window(start, end)
    BY WindowsHoldToday DEF RowsInv, DashboardTypeOK
  <2>2. w.start = start /\ w.previous_end = start
    BY <2>1 DEF Window
  <2>3. \A p \in PaidEver : payment[p].paid_at \in Int
    BY PaidIn DEF ConfirmedPayments
  <2> QED
    BY <2>2, <2>3 DEF PaidPayments
<1> QED
  BY <1>1 DEF NoPaymentTwice

\* A commission, times ten thousand, is within 5000 of what its payment owes.
NearOwed(c, o) == c \in Int /\ o \in Int /\ 10000 * c - o \in (-5000)..5000

LEMMA CommissionNearOwed ==
    ASSUME NEW x \in Int, NEW r \in Int
    PROVE  NearOwed(Commission(x, r), r * x)
<1>0. PICK c : c = Commission(x, r)
  OBVIOUS
<1>1. Near(c, x * r, Hundred)
  BY <1>0, CommissionIs, Zenon
<1>2. PICK n : n = x * r
  OBVIOUS
<1>3. n \in Int /\ n = r * x
  BY <1>2
<1>4. c \in Int /\ 2 * (Hundred * c - n) \in (-Hundred)..Hundred
  BY <1>1, <1>2 DEF Near
<1>5. 2 * (10000 * c - n) \in (-10000)..10000
  BY <1>4 DEF Hundred
<1>6. PICK m \in Int : m = 10000 * c - n
  BY <1>3, <1>4
<1>7. PICK g \in Int, h \in Int : g = 10000 /\ h = 5000 /\ g = 2 * h
  OBVIOUS
<1>8. 2 * m \in (-(2 * h))..(2 * h)
  <2>1. 2 * m \in (-g)..g
    BY <1>5, <1>6, <1>7
  <2> QED
    BY <1>7, <2>1
<1>9. m \in (-h)..h
  <2>1. m \in Int /\ h \in Int
    BY <1>6, <1>7
  <2> QED
    BY <1>8, <2>1, HalfOf, Zenon
<1>10. 10000 * c - n \in (-5000)..5000
  BY <1>6, <1>7, <1>9
<1>11. NearOwed(c, r * x)
  <2>1. NearOwed(c, n)
    BY <1>3, <1>4, <1>10 DEF NearOwed
  <2> QED
    BY <1>3, <2>1
<1> QED
  BY <1>0, <1>11, Zenon

LEMMA CommissionsAlwaysAgree ==
    ASSUME RowsInv
    PROVE  CommissionsAgree
<1>1. PICK key : key = [p \in PaidEver |-> CompanyPaid(p)]
  OBVIOUS
<1>2. PICK rows, commission :
        /\ rows = RevenueByCompany
        /\ commission = [k \in DOMAIN rows |-> rows[k].commission]
  OBVIOUS
<1>3. DOMAIN rows = {key[p] : p \in PaidEver} /\ DOMAIN commission = DOMAIN rows
  BY <1>1, <1>2 DEF RevenueByCompany
<1>4. ASSUME NEW k \in DOMAIN rows
      PROVE  rows[k].commission = SumFunctionOnSet(CommissionOf, PaidTo(k))
  BY <1>2 DEF RevenueByCompany
<1>5. /\ IsFiniteSet(PaidEver) /\ Numbers(CommissionOf, PaidEver)
      /\ \A p \in PaidEver : payment[p] \in ConfirmedPayments
  BY PaidIn
<1>6. SumFunction(commission) = TotalCommission
  <2>1. ASSUME NEW k \in DOMAIN commission
        PROVE  commission[k] = SumFunctionOnSet(CommissionOf, {p \in PaidEver : key[p] = k})
    <3>1. {p \in PaidEver : key[p] = k} = PaidTo(k)
      BY <1>1 DEF PaidTo
    <3> QED
      BY <1>2, <1>3, <1>4, <3>1
  <2>2. DOMAIN CommissionOf = PaidEver
    BY DEF CommissionOf
  <2>3. SumFunction(commission) = SumFunctionOnSet(CommissionOf, PaidEver)
    BY <1>3, <1>5, <2>1, TableAddsUp
  <2> QED
    BY <2>2, <2>3 DEF TotalCommission, SumFunction
<1>7. ASSUME NEW p \in PaidEver
      PROVE  NearOwed(CommissionOf[p], Owed[p])
  <2>1. PICK x, r, c : x = payment[p].amount /\ r = payment[p].rate /\ c = payment[p].commission
    OBVIOUS
  <2>2. x \in Int /\ r \in Int /\ c = Commission(x, r)
    <3>1. p \in Payments /\ payment[p].status = "paid" /\ PaymentOK(p)
      BY DEF PaidEver, RowsInv
    <3>2. payment[p] # None
      BY <3>1, RowTypes
    <3>3. c = Commission(x, r)
      BY <2>1, <3>1, <3>2 DEF PaymentOK
    <3>4. payment[p] \in ConfirmedPayments
      BY <1>5
    <3>5. payment[p].amount \in Int /\ payment[p].rate \in Int
      BY <3>4 DEF ConfirmedPayments
    <3> QED
      BY <2>1, <3>3, <3>5
  <2>3. NearOwed(c, r * x)
    BY <2>2, CommissionNearOwed, Zenon
  <2>4. Owed[p] = r * x /\ CommissionOf[p] = c
    BY <2>1 DEF Owed, CommissionOf
  <2> QED
    BY <2>3, <2>4, Zenon
<1>8. ASSUME NEW k \in DOMAIN rows
      PROVE  10000 * rows[k].commission - SumFunctionOnSet(Owed, PaidTo(k))
               \in (-(5000 * Cardinality(PaidTo(k))))..(5000 * Cardinality(PaidTo(k)))
  <2>1. PICK S \in SUBSET PaidEver : S = PaidTo(k)
    BY DEF PaidTo
  <2>2. IsFiniteSet(S) /\ Numbers(CommissionOf, S) /\ Numbers(Owed, S) /\ Cardinality(S) \in Nat
    BY <1>5, <1>7, FS_Subset, FS_CardinalityType DEF Numbers, NearOwed
  <2>3. PICK A \in Int, B \in Int, e \in Nat : A = 10000 /\ B = 1 /\ e = 5000
    OBVIOUS
  <2>4. \A p \in S : A * CommissionOf[p] - B * Owed[p] \in (-e)..e
    <3>1. ASSUME NEW p \in S PROVE A * CommissionOf[p] - B * Owed[p] \in (-e)..e
      <4>1. PICK c, o : c = CommissionOf[p] /\ o = Owed[p] /\ NearOwed(c, o)
        BY <1>7
      <4>2. c \in Int /\ o \in Int /\ 10000 * c - o \in (-5000)..5000
        BY <4>1 DEF NearOwed
      <4>3. A * c = 10000 * c /\ B * o = o
        BY <2>3, <4>2
      <4>4. A * c - B * o \in (-5000)..5000
        BY <4>2, <4>3
      <4>5. A * c - B * o \in (-e)..e
        BY <2>3, <4>4
      <4> QED
        BY <4>1, <4>5, Zenon
    <3> QED
      BY <3>1
  <2>5. A * SumFunctionOnSet(CommissionOf, S) - B * SumFunctionOnSet(Owed, S)
          \in (-(e * Cardinality(S)))..(e * Cardinality(S))
    BY <2>2, <2>4, SumsClose, Zenon
  <2>6. SumFunctionOnSet(CommissionOf, S) \in Int /\ SumFunctionOnSet(Owed, S) \in Int
    BY <2>2, SumType
  <2> QED
    BY <1>4, <2>1, <2>2, <2>3, <2>5, <2>6
<1> QED
  BY <1>2, <1>6, <1>8 DEF CommissionsAgree

------------------------------------------------------------------------------
(* Theorems *)

\* resolve_period: for every date of the calendar, today is in the window of each period,
\* the window it is compared with is as long, and no day falls between two reports.
THEOREM ReportsTile == Spec => []WindowsTile
<1>1. RowsInv => WindowsTile
  BY Comparable, NoDayBetween DEF RowsInv, DashboardTypeOK, WindowsTile
<1> QED
  BY <1>1, RowsInvariant, PTL

\* The figures of a company add up to its overview, its best routes bring at least their part
\* of it, and the commissions of the companies add up to the platform's, each what it was at
\* the rates of its payments: for any prices, changes of rates, numbers of payments and
\* lengths of the table, over bookings that were cancelled, revived and sold again.
THEOREM PagesAgree == Spec => []FiguresAgree
<1>1. RowsInv => FiguresAgree
  BY RevenueAlwaysAgrees, RoutesLead, NeverTwice, CommissionsAlwaysAgree
     DEF RowsInv, FiguresAgree
<1> QED
  BY <1>1, RowsInvariant, PTL

\* cache_page keeps the pages of two tokens apart.
THEOREM PagesAreOwn == Spec => []ServedIsOwn
<1>1. RowsInv => ServedIsOwn
  BY DEF RowsInv
<1> QED
  BY <1>1, RowsInvariant, PTL

==============================================================================
