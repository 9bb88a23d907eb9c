----------------------------- MODULE FiniteSums -----------------------------
(***************************************************************************)
(* Sums of natural numbers over a finite set, as SumFunction of the        *)
(* community modules computes them: one element after the other, in an     *)
(* order that CHOOSE fixes.  Induction is stated over sets, as the least   *)
(* element of a set of naturals, because a theorem with a predicate as its *)
(* parameter cannot be instantiated.                                       *)
(***************************************************************************)
EXTENDS Integers, FiniteSets, Functions, FiniteSetTheorems, TLAPS

(* The element that is added next.                                         *)
Pick(s) == CHOOSE x \in s : TRUE

(* One step of the recursion of a sum, with the sums g of smaller sets.    *)
Added(f, g, s) == IF s = {} THEN 0 ELSE f[Pick(s)] + g[s \ {Pick(s)}]

(* g maps every subset of S to the sum of f over it.                       *)
Sums(f, S, g) == g = [s \in SUBSET S |-> Added(f, g, s)]

-----------------------------------------------------------------------------
(* Induction.                                                              *)
LEMMA LeastNatural ==
  ASSUME NEW T, T \subseteq Nat, T # {}
  PROVE  \E n \in T : \A m \in T : n <= m
<1> DEFINE R == OpToRel(<, Nat)
<1>1. IsWellFoundedOn(R, Nat)
  BY NatLessThanWellFounded
<1>2. \A m, n \in Nat : m < n => <<m, n>> \in R
  BY DEF OpToRel
<1> HIDE DEF R
<1>3. PICK n \in T : \A m \in T : ~(<<m, n>> \in R)
  BY <1>1, WFMin
<1>4. ASSUME NEW m \in T PROVE n <= m
  <2>1. n \in Nat /\ m \in Nat /\ ~(m < n)
    BY <1>2, <1>3
  <2> QED BY <2>1
<1> QED BY <1>4

LEMMA SetOfNaturals ==
  ASSUME NEW T, 0 \in T, \A n \in Nat : n \in T => n + 1 \in T
  PROVE  Nat \subseteq T
<1> SUFFICES ASSUME Nat \ T # {} PROVE FALSE
  OBVIOUS
<1>1. PICK n \in Nat \ T : \A m \in Nat \ T : n <= m
  BY LeastNatural
<1>2. n # 0 /\ n - 1 \in Nat
  BY <1>1
<1>3. n - 1 \in T
  BY <1>1, <1>2
<1>4. (n - 1) + 1 \in T
  BY <1>2, <1>3
<1> QED BY <1>1, <1>4

(* What holds of the empty set, and of a set if it holds without the       *)
(* picked element, holds of every subset of a finite set.                  *)
LEMMA PickSmaller ==
  ASSUME NEW s, IsFiniteSet(s), s # {}
  PROVE  /\ Pick(s) \in s
         /\ IsFiniteSet(s \ {Pick(s)})
         /\ Cardinality(s) \in Nat
         /\ Cardinality(s \ {Pick(s)}) \in Nat
         /\ Cardinality(s) = Cardinality(s \ {Pick(s)}) + 1
<1>1. Pick(s) \in s
  BY DEF Pick
<1>2. /\ IsFiniteSet(s \ {Pick(s)})
      /\ Cardinality(s \ {Pick(s)}) = Cardinality(s) - 1
  BY <1>1, FS_RemoveElement
<1>3. Cardinality(s) \in Nat /\ Cardinality(s \ {Pick(s)}) \in Nat
  BY <1>2, FS_CardinalityType
<1> QED BY <1>1, <1>2, <1>3

LEMMA SubsetInduction ==
  ASSUME NEW S, IsFiniteSet(S), NEW T, {} \in T,
         \A s \in SUBSET S : s # {} /\ s \ {Pick(s)} \in T => s \in T
  PROVE  SUBSET S \subseteq T
<1> DEFINE N == {n \in Nat : \A s \in SUBSET S : Cardinality(s) = n => s \in T}
<1>1. ASSUME NEW s \in SUBSET S PROVE IsFiniteSet(s) /\ Cardinality(s) \in Nat
  BY FS_Subset, FS_CardinalityType
<1>2. 0 \in N
  <2>1. ASSUME NEW s \in SUBSET S, Cardinality(s) = 0 PROVE s \in T
    <3>1. s = {}
      BY <1>1, <2>1, FS_EmptySet
    <3> QED BY <3>1
  <2> QED BY <2>1
<1>3. ASSUME NEW n \in Nat, n \in N PROVE n + 1 \in N
  <2>1. ASSUME NEW s \in SUBSET S, Cardinality(s) = n + 1 PROVE s \in T
    <3>1. s # {} /\ IsFiniteSet(s)
      BY <1>1, <2>1, FS_EmptySet
    <3>2. /\ Cardinality(s \ {Pick(s)}) \in Nat
          /\ n + 1 = Cardinality(s \ {Pick(s)}) + 1
      BY <2>1, <3>1, PickSmaller
    <3>3. Cardinality(s \ {Pick(s)}) = n
      BY <3>2
    <3> QED BY <1>3, <3>1, <3>3
  <2> QED BY <2>1
<1>4. Nat \subseteq N
  <2> HIDE DEF N
  <2> QED BY <1>2, <1>3, SetOfNaturals
<1> QED BY <1>1, <1>4

-----------------------------------------------------------------------------
(* The recursion of a sum has a solution.  It is built up by the size of   *)
(* the sets.                                                               *)
LEMMA SumsExist ==
  ASSUME NEW S, IsFiniteSet(S), NEW f
  PROVE  \E g : Sums(f, S, g)
<1> DEFINE Upto(n) == {s \in SUBSET S : Cardinality(s) <= n}
           N == {n \in Nat :
                   \E g : g = [s \in Upto(n) |-> Added(f, g, s)]}
<1>1. ASSUME NEW s \in SUBSET S PROVE IsFiniteSet(s) /\ Cardinality(s) \in Nat
  BY FS_Subset, FS_CardinalityType
<1>2. 0 \in N
  <2>1. \A s \in Upto(0) : s = {}
    BY <1>1, FS_EmptySet
  <2> DEFINE g == [s \in Upto(0) |-> 0]
  <2>2. g = [s \in Upto(0) |-> Added(f, g, s)]
    BY <2>1 DEF Added
  <2> QED BY <2>2
<1>3. ASSUME NEW n \in Nat, n \in N PROVE n + 1 \in N
  <2>1. PICK g : g = [s \in Upto(n) |-> Added(f, g, s)]
    BY <1>3
  <2> DEFINE h == [s \in Upto(n + 1) |-> Added(f, g, s)]
  <2>2. \A s \in Upto(n) : s \in Upto(n + 1)
    BY <1>1
  <2>3. \A s \in Upto(n) : h[s] = g[s]
    BY <2>1, <2>2
  <2>4. ASSUME NEW s \in Upto(n + 1), s # {} PROVE s \ {Pick(s)} \in Upto(n)
    BY <1>1, <2>4, PickSmaller
  <2> HIDE DEF Upto
  <2>5. \A s \in Upto(n + 1) : Added(f, g, s) = Added(f, h, s)
    <3> HIDE DEF h
    <3> QED BY <2>3, <2>4 DEF Added
  <2>6. h = [s \in Upto(n + 1) |-> Added(f, h, s)]
    BY <2>5
  <2>7. n + 1 \in Nat
    OBVIOUS
  <2> HIDE DEF h
  <2> QED BY <2>6, <2>7
<1>4. Nat \subseteq N
  <2> HIDE DEF N
  <2> QED BY <1>2, <1>3, SetOfNaturals
<1>5. Cardinality(S) \in N
  BY <1>1, <1>4
<1>6. Upto(Cardinality(S)) = SUBSET S
  BY FS_Subset, <1>1
<1> QED BY <1>5, <1>6 DEF Sums

(* SumFunction is such a solution, taken at the whole domain.              *)
LEMMA SumIsRecursive ==
  ASSUME NEW S, IsFiniteSet(S), NEW f, DOMAIN f = S
  PROVE  \E g : Sums(f, S, g) /\ SumFunction(f) = g[S]
<1> DEFINE h == CHOOSE g : Sums(f, S, g)
<1>1. Sums(f, S, h)
  BY SumsExist
<1>2. SumFunction(f) = h[S]
  BY DEF SumFunction, SumFunctionOnSet, FoldFunctionOnSet, MapThenFoldSet,
         Sums, Added, Pick
<1> QED BY <1>1, <1>2
-----------------------------------------------------------------------------
(* The theorems about sums.                                                *)
THEOREM SumIsNatural ==
  ASSUME NEW S, IsFiniteSet(S), NEW f \in [S -> Nat]
  PROVE  SumFunction(f) \in Nat
<1>1. PICK g : Sums(f, S, g) /\ SumFunction(f) = g[S]
  BY SumIsRecursive
<1> DEFINE T == {s \in SUBSET S : g[s] \in Nat}
<1>2. {} \in T
  BY <1>1 DEF Sums, Added
<1>3. ASSUME NEW s \in SUBSET S, s # {}, s \ {Pick(s)} \in T PROVE s \in T
  <2>1. g[s] = f[Pick(s)] + g[s \ {Pick(s)}]
    BY <1>1, <1>3 DEF Sums, Added
  <2>2. f[Pick(s)] \in Nat /\ g[s \ {Pick(s)}] \in Nat
    BY <1>3 DEF Pick
  <2> QED BY <2>1, <2>2
<1>4. SUBSET S \subseteq T
  <2> HIDE DEF T
  <2> QED BY <1>2, <1>3, SubsetInduction
<1> QED BY <1>1, <1>4

THEOREM SumOfZeros ==
  ASSUME NEW S, IsFiniteSet(S), NEW f \in [S -> Nat], \A x \in S : f[x] = 0
  PROVE  SumFunction(f) = 0
<1>1. PICK g : Sums(f, S, g) /\ SumFunction(f) = g[S]
  BY SumIsRecursive
<1> DEFINE T == {s \in SUBSET S : g[s] = 0}
<1>2. {} \in T
  BY <1>1 DEF Sums, Added
<1>3. ASSUME NEW s \in SUBSET S, s # {}, s \ {Pick(s)} \in T PROVE s \in T
  <2>1. g[s] = f[Pick(s)] + g[s \ {Pick(s)}]
    BY <1>1, <1>3 DEF Sums, Added
  <2>2. f[Pick(s)] = 0 /\ g[s \ {Pick(s)}] = 0
    BY <1>3 DEF Pick
  <2> QED BY <2>1, <2>2
<1>4. SUBSET S \subseteq T
  <2> HIDE DEF T
  <2> QED BY <1>2, <1>3, SubsetInduction
<1> QED BY <1>1, <1>4

(* When one term is replaced, the sum changes by the difference.           *)
THEOREM SumReplaced ==
  ASSUME NEW S, IsFiniteSet(S), NEW f \in [S -> Nat], NEW h \in [S -> Nat],
         NEW u \in S, \A x \in S \ {u} : h[x] = f[x]
  PROVE  SumFunction(h) + f[u] = SumFunction(f) + h[u]
<1>1. PICK g : Sums(f, S, g) /\ SumFunction(f) = g[S]
  BY SumIsRecursive
<1>2. PICK k : Sums(h, S, k) /\ SumFunction(h) = k[S]
  BY SumIsRecursive
<1> DEFINE T == {s \in SUBSET S :
                   /\ g[s] \in Nat /\ k[s] \in Nat
                   /\ IF u \in s THEN k[s] + f[u] = g[s] + h[u]
                                 ELSE k[s] = g[s]}
<1>3. {} \in T
  BY <1>1, <1>2 DEF Sums, Added
<1>4. ASSUME NEW s \in SUBSET S, s # {}, s \ {Pick(s)} \in T PROVE s \in T
  <2> DEFINE x == Pick(s)
             r == s \ {Pick(s)}
  <2>1. g[s] = f[x] + g[r] /\ k[s] = h[x] + k[r]
    BY <1>1, <1>2, <1>4 DEF Sums, Added
  <2>2. /\ x \in s /\ f[x] \in Nat /\ h[x] \in Nat
        /\ f[u] \in Nat /\ h[u] \in Nat
        /\ g[r] \in Nat /\ k[r] \in Nat
    BY <1>4 DEF Pick
  <2>3. CASE x = u
    <3>1. u \notin r /\ u \in s
      BY <2>2, <2>3
    <3>2. k[r] = g[r]
      BY <1>4, <3>1
    <3> HIDE DEF x, r
    <3> QED BY <2>1, <2>2, <2>3, <3>1, <3>2
  <2>4. CASE x # u
    <3>1. h[x] = f[x] /\ (u \in r <=> u \in s)
      BY <2>2, <2>4
    <3>2. IF u \in r THEN k[r] + f[u] = g[r] + h[u] ELSE k[r] = g[r]
      BY <1>4
    <3> HIDE DEF x, r
    <3> QED BY <2>1, <2>2, <3>1, <3>2
  <2> QED BY <2>3, <2>4
<1>5. SUBSET S \subseteq T
  <2> HIDE DEF T
  <2> QED BY <1>3, <1>4, SubsetInduction
<1> QED BY <1>1, <1>2, <1>5

(* No term exceeds the sum.                                                *)
THEOREM TermInSum ==
  ASSUME NEW S, IsFiniteSet(S), NEW f \in [S -> Nat], NEW u \in S
  PROVE  f[u] <= SumFunction(f)
<1> DEFINE h == [f EXCEPT ![u] = 0]
<1>1. h \in [S -> Nat] /\ h[u] = 0 /\ \A x \in S \ {u} : h[x] = f[x]
  OBVIOUS
<1> HIDE DEF h
<1>2. SumFunction(h) + f[u] = SumFunction(f) + 0
  BY <1>1, SumReplaced
<1>3. SumFunction(h) \in Nat /\ SumFunction(f) \in Nat /\ f[u] \in Nat
  BY <1>1, SumIsNatural
<1> QED BY <1>2, <1>3
=============================================================================
