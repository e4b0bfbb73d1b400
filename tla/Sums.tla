-------------------------------- MODULE Sums --------------------------------
(***************************************************************************)
(* Sums over finite sets, MapThenSumSet of the community modules, as the   *)
(* books of the components use them: a sum is an integer, changes by as    *)
(* much as one of its terms does, and is a product if all are equal.       *)
(* The provers have no induction over sets: in its place stands the        *)
(* principle of the least number, for the set of the sizes at which a      *)
(* claim fails.                                                            *)
(***************************************************************************)
EXTENDS Integers, FiniteSets, FiniteSetsExt, FiniteSetTheorems, TLAPS

SumOver(f, S) == MapThenSumSet(LAMBDA x : f[x], S)

-----------------------------------------------------------------------------
(* Least numbers and smallest sets *)

LEMMA LeastNumber ==
    ASSUME NEW T, T \subseteq Nat, T # {}
    PROVE  \E n \in T : \A m \in T : n <= m
<1> DEFINE Less == OpToRel(<, Nat)
<1>1. IsWellFoundedOn(Less, Nat)
    BY NatLessThanWellFounded
<1>2. ASSUME NEW m \in Nat, NEW n \in Nat, m < n
      PROVE  <<m, n>> \in Less
    BY <1>2 DEF OpToRel
<1> HIDE DEF Less
<1>3. PICK n \in T : \A m \in T : ~ (<<m, n>> \in Less)
    BY <1>1, WFMin, Zenon
<1>4. ASSUME NEW m \in T PROVE n <= m
    <2>1. ~ (m < n)
        BY <1>2, <1>3
    <2> QED BY <2>1
<1> QED BY <1>4

LEMMA SmallestSet ==
    ASSUME NEW S, IsFiniteSet(S), NEW B, B \subseteq SUBSET S, B # {}
    PROVE  \E s \in B : \A t \in B : t \subseteq s => t = s
<1> DEFINE sizes == {Cardinality(s) : s \in B}
<1>1. \A s \in B : IsFiniteSet(s) /\ Cardinality(s) \in Nat
    BY FS_Subset, FS_CardinalityType
<1>2. PICK n \in sizes : \A m \in sizes : n <= m
    <2>1. sizes \subseteq Nat /\ sizes # {}
        BY <1>1
    <2> HIDE DEF sizes
    <2> QED BY <2>1, LeastNumber
<1>3. PICK s \in B : n = Cardinality(s)
    OBVIOUS
<1>4. ASSUME NEW t \in B, t \subseteq s PROVE t = s
    <2>1. Cardinality(t) <= Cardinality(s)
        BY <1>1, <1>4, FS_Subset
    <2>2. Cardinality(s) <= Cardinality(t)
        BY <1>2, <1>3
    <2>3. Cardinality(t) = Cardinality(s)
        BY <1>1, <2>1, <2>2
    <2> QED BY <1>1, <1>4, <2>3, FS_Subset
<1> QED BY <1>4

-----------------------------------------------------------------------------
(* The fold is the recursion it stands for *)

Pick(s) == CHOOSE x \in s : TRUE

\* What the fold makes of s when it has the results for smaller sets in g.
SumStep(f, g, s) == IF s = {} THEN 0 ELSE f[Pick(s)] + g[s \ {Pick(s)}]

Fold(f, S) == CHOOSE g : g = [s \in SUBSET S |-> SumStep(f, g, s)]

LEMMA SumIsFold ==
    ASSUME NEW f, NEW S
    PROVE  SumOver(f, S) = Fold(f, S)[S]
BY DEF SumOver, MapThenSumSet, MapThenFoldSet, Fold, SumStep, Pick

LEMMA Picked ==
    ASSUME NEW s, s # {}
    PROVE  Pick(s) \in s
BY DEF Pick

Below(S, k) == {s \in SUBSET S : Cardinality(s) < k}

ObeysBelow(f, g, S, k) == \A s \in Below(S, k) : g[s] = SumStep(f, g, s)

\* For each size there is a function that obeys the recursion on all sets
\* below that size.
LEMMA PartialFold ==
    ASSUME NEW S, IsFiniteSet(S), NEW f \in [S -> Int], NEW n \in Nat
    PROVE  \E g \in [Below(S, n) -> Int] : ObeysBelow(f, g, S, n)
<1> USE DEF Below, ObeysBelow
<1> DEFINE bad == {k \in Nat : ~ \E g \in [Below(S, k) -> Int] : ObeysBelow(f, g, S, k)}
<1>0. \A s \in SUBSET S : IsFiniteSet(s) /\ Cardinality(s) \in Nat
    BY FS_Subset, FS_CardinalityType
<1>1. SUFFICES ASSUME bad # {} PROVE FALSE
    OBVIOUS
<1>2. PICK k \in bad : \A m \in bad : k <= m
    <2>1. bad \subseteq Nat
        OBVIOUS
    <2> HIDE DEF bad
    <2> QED BY <1>1, <2>1, LeastNumber
<1>3. CASE k = 0
    <2>1. Below(S, k) = {}
        BY <1>0, <1>3
    <2> DEFINE g == [s \in Below(S, k) |-> 0]
    <2>2. g \in [Below(S, k) -> Int] /\ ObeysBelow(f, g, S, k)
        BY <2>1
    <2> QED BY <2>2
<1>4. CASE k # 0
    <2>1. k - 1 \in Nat /\ k - 1 \notin bad
        <3>1. k \in Nat
            OBVIOUS
        <3> HIDE DEF bad
        <3> QED BY <1>2, <1>4, <3>1
    <2>2. PICK g \in [Below(S, k - 1) -> Int] : ObeysBelow(f, g, S, k - 1)
        BY <2>1
    <2> DEFINE h == [s \in Below(S, k) |-> SumStep(f, g, s)]
    <2>3. ASSUME NEW s \in Below(S, k), s # {}
          PROVE  /\ Pick(s) \in S
                 /\ s \ {Pick(s)} \in Below(S, k - 1)
        <3>1. Pick(s) \in s
            BY <2>3, Picked
        <3>2. Cardinality(s \ {Pick(s)}) = Cardinality(s) - 1
            BY <1>0, <3>1, FS_RemoveElement
        <3> QED BY <1>0, <3>1, <3>2
    <2>4. ASSUME NEW s \in Below(S, k) PROVE SumStep(f, g, s) \in Int
        BY <2>3 DEF SumStep
    <2>5. h \in [Below(S, k) -> Int]
        BY <2>4
    <2>6. ASSUME NEW s \in Below(S, k - 1) PROVE s \in Below(S, k) /\ h[s] = g[s]
        <3>1. s \in Below(S, k)
            BY <1>0
        <3> QED BY <2>2, <3>1
    <2>7. ASSUME NEW s \in Below(S, k) PROVE h[s] = SumStep(f, h, s)
        <3>1. CASE s = {}
            BY <3>1 DEF SumStep
        <3>2. CASE s # {}
            <4>1. h[s \ {Pick(s)}] = g[s \ {Pick(s)}]
                BY <2>3, <2>6, <3>2
            <4>2. h[s] = SumStep(f, g, s)
                OBVIOUS
            <4> HIDE DEF h
            <4> QED BY <4>1, <4>2, <3>2 DEF SumStep
        <3> QED BY <3>1, <3>2
    <2> HIDE DEF h
    <2> QED BY <2>5, <2>7
<1> QED BY <1>3, <1>4

LEMMA FoldObeys ==
    ASSUME NEW S, IsFiniteSet(S), NEW f \in [S -> Int]
    PROVE  /\ Fold(f, S) \in [SUBSET S -> Int]
           /\ \A s \in SUBSET S : Fold(f, S)[s] = SumStep(f, Fold(f, S), s)
<1>0. \A s \in SUBSET S : Cardinality(s) < Cardinality(S) + 1
    BY FS_Subset, FS_CardinalityType
<1>1. Cardinality(S) + 1 \in Nat
    BY FS_CardinalityType
<1>2. PICK g \in [Below(S, Cardinality(S) + 1) -> Int] : ObeysBelow(f, g, S, Cardinality(S) + 1)
    BY <1>1, PartialFold
<1>3. g \in [SUBSET S -> Int] /\ \A s \in SUBSET S : g[s] = SumStep(f, g, s)
    <2>1. Below(S, Cardinality(S) + 1) = SUBSET S
        BY <1>0 DEF Below
    <2> QED BY <1>2, <2>1 DEF ObeysBelow
<1>4. g = [s \in SUBSET S |-> SumStep(f, g, s)]
    BY <1>3
<1>5. Fold(f, S) = [s \in SUBSET S |-> SumStep(f, Fold(f, S), s)]
    BY <1>4 DEF Fold
<1> DEFINE F == Fold(f, S)
           untyped == {s \in SUBSET S : F[s] \notin Int}
<1>6. \A s \in SUBSET S : F[s] = SumStep(f, F, s)
    BY <1>5
<1>7. untyped = {}
    <2> SUFFICES ASSUME untyped # {} PROVE FALSE
        OBVIOUS
    <2>1. PICK s \in untyped : \A t \in untyped : t \subseteq s => t = s
        <3>1. untyped \subseteq SUBSET S
            OBVIOUS
        <3> HIDE DEF untyped
        <3> QED BY <3>1, SmallestSet
    <2>2. s # {}
        <3>1. F[{}] = 0
            BY <1>6 DEF SumStep
        <3> HIDE DEF F
        <3> QED BY <3>1
    <2>3. Pick(s) \in s
        BY <2>2, Picked
    <2>4. s \ {Pick(s)} \notin untyped /\ s \ {Pick(s)} \in SUBSET S
        BY <2>1, <2>3
    <2>5. F[s \ {Pick(s)}] \in Int
        BY <2>4
    <2>6. F[s] = f[Pick(s)] + F[s \ {Pick(s)}]
        BY <1>6, <2>2 DEF SumStep
    <2> HIDE DEF F
    <2> QED BY <2>3, <2>5, <2>6
<1>8. F \in [SUBSET S -> Int]
    <2>1. F = [s \in SUBSET S |-> F[s]]
        BY <1>5
    <2> HIDE DEF F
    <2> QED BY <1>7, <2>1
<1> QED BY <1>6, <1>8

-----------------------------------------------------------------------------
(* The facts that the books need *)

\* A sum over all smaller sets at once, by the smallest set where it fails.
LEMMA SumIsInt ==
    ASSUME NEW S, IsFiniteSet(S), NEW f \in [S -> Int]
    PROVE  SumOver(f, S) \in Int
<1>1. Fold(f, S) \in [SUBSET S -> Int]
    BY FoldObeys
<1> QED BY <1>1, SumIsFold

\* One term changes by d, and so does the sum.
LEMMA SumChanges ==
    ASSUME NEW S, IsFiniteSet(S), NEW f \in [S -> Int], NEW h \in [S -> Int],
           NEW x \in S, NEW d \in Int,
           h[x] = f[x] + d, \A y \in S \ {x} : h[y] = f[y]
    PROVE  SumOver(h, S) = SumOver(f, S) + d
<1> DEFINE F == Fold(f, S)
           H == Fold(h, S)
           Due(s) == IF x \in s THEN F[s] + d ELSE F[s]
           wrong == {s \in SUBSET S : H[s] # Due(s)}
<1>1. /\ F \in [SUBSET S -> Int] /\ \A s \in SUBSET S : F[s] = SumStep(f, F, s)
      /\ H \in [SUBSET S -> Int] /\ \A s \in SUBSET S : H[s] = SumStep(h, H, s)
    BY FoldObeys
<1> HIDE DEF F, H
<1>2. wrong = {}
    <2> SUFFICES ASSUME wrong # {} PROVE FALSE
        OBVIOUS
    <2>1. PICK s \in wrong : \A t \in wrong : t \subseteq s => t = s
        <3>1. wrong \subseteq SUBSET S
            OBVIOUS
        <3> HIDE DEF wrong
        <3> QED BY <3>1, SmallestSet
    <2> DEFINE p == Pick(s)
               t == s \ {p}
    <2>2. s # {}
        BY <1>1 DEF SumStep
    <2>3. p \in s /\ p \in S /\ t \in SUBSET S
        BY <2>2, Picked
    <2>4. H[t] = Due(t)
        BY <2>1, <2>3
    <2>5. F[s] = f[p] + F[t] /\ H[s] = h[p] + H[t]
        BY <1>1, <2>2 DEF SumStep
    <2>6. f[p] \in Int /\ h[p] \in Int /\ F[t] \in Int /\ f[x] \in Int
        BY <1>1, <2>3
    <2>7. H[s] = Due(s)
        <3>1. CASE p = x
            <4>1. x \in s /\ x \notin t
                BY <2>3, <3>1
            <4>2. H[t] = F[t] /\ Due(s) = F[s] + d
                BY <2>4, <4>1
            <4> HIDE DEF p, t, Due
            <4> QED BY <2>5, <2>6, <3>1, <4>2
        <3>2. CASE p # x
            <4>1. x \in s <=> x \in t
                BY <3>2
            <4>2. h[p] = f[p]
                BY <2>3, <3>2
            <4> HIDE DEF p, t
            <4> QED BY <2>4, <2>5, <2>6, <4>1, <4>2
        <3> QED BY <3>1, <3>2
    <2> QED BY <2>7
<1>3. H[S] = F[S] + d
    BY <1>2
<1> QED BY <1>3, SumIsFold DEF F, H

\* All terms are the same.
LEMMA SumOfEquals ==
    ASSUME NEW S, IsFiniteSet(S), NEW c \in Int, NEW f \in [S -> Int], \A x \in S : f[x] = c
    PROVE  SumOver(f, S) = c * Cardinality(S)
<1> DEFINE F == Fold(f, S)
           wrong == {s \in SUBSET S : F[s] # c * Cardinality(s)}
<1>1. F \in [SUBSET S -> Int] /\ \A s \in SUBSET S : F[s] = SumStep(f, F, s)
    BY FoldObeys
<1> HIDE DEF F
<1>2. wrong = {}
    <2> SUFFICES ASSUME wrong # {} PROVE FALSE
        OBVIOUS
    <2>1. PICK s \in wrong : \A t \in wrong : t \subseteq s => t = s
        <3>1. wrong \subseteq SUBSET S
            OBVIOUS
        <3> HIDE DEF wrong
        <3> QED BY <3>1, SmallestSet
    <2> DEFINE p == Pick(s)
               t == s \ {p}
    <2>2. s # {}
        <3>1. F[{}] = 0 /\ Cardinality({}) = 0
            BY <1>1, FS_EmptySet DEF SumStep
        <3>2. c * 0 = 0
            OBVIOUS
        <3>3. ASSUME s = {} PROVE F[s] = c * Cardinality(s)
            BY <3>1, <3>2, <3>3, Zenon
        <3> QED BY <3>3
    <2>3. p \in s /\ p \in S /\ t \in SUBSET S
        BY <2>2, Picked
    <2>4. F[t] = c * Cardinality(t)
        BY <2>1, <2>3
    <2>5. Cardinality(t) = Cardinality(s) - 1 /\ Cardinality(s) \in Nat
        BY <2>3, FS_Subset, FS_CardinalityType, FS_RemoveElement
    <2>6. F[s] = c + F[t]
        BY <1>1, <2>2, <2>3 DEF SumStep
    <2>7. c + c * (Cardinality(s) - 1) = c * Cardinality(s)
        BY <2>5
    <2> HIDE DEF p, t
    <2> QED BY <2>4, <2>5, <2>6, <2>7
<1> QED BY <1>2, SumIsFold DEF F
=============================================================================
