-------------------------- MODULE Operators_proofs --------------------------
(***************************************************************************)
(* Lemmas about the operators of the community modules that the models use *)
(* and that are defined with CHOOSE or by recursion.                       *)
(***************************************************************************)
EXTENDS Integers, FiniteSetsExt, FiniteSetTheorems, WellFoundedInduction, TLAPS

-----------------------------------------------------------------------------
(* Extrema.  A set of numbers with a bound has a smallest distance to it.  *)

\* A set of naturals that is not empty has a least element.
LEMMA LeastNatural ==
    ASSUME NEW T \in SUBSET Nat, T # {}
    PROVE  \E x \in T : \A y \in T : x <= y
<1> DEFINE R == OpToRel(<, Nat)
<1>1. IsWellFoundedOn(R, Nat)
  BY NatLessThanWellFounded
<1>2. \A x, y \in Nat : <<y, x>> \in R <=> y < x
  BY DEF OpToRel
<1> HIDE DEF R
<1>3. PICK x \in T : \A y \in T : ~(<<y, x>> \in R)
  BY <1>1, WFMin
<1>4. \A y \in T : x <= y
  <2> TAKE y \in T
  <2>1. x \in Nat /\ y \in Nat /\ ~(y < x)
    BY <1>2, <1>3
  <2> QED BY <2>1
<1> QED BY <1>4

\* The maximum of a set of integers with an upper bound is its largest element.
LEMMA MaxIsLargest ==
    ASSUME NEW S \in SUBSET Int, S # {}, NEW n \in Int, \A x \in S : x <= n
    PROVE  Max(S) \in S /\ \A x \in S : x <= Max(S)
<1> DEFINE T == {n - x : x \in S}
<1>1. \A x \in S : x \in Int /\ n - x \in Nat
  OBVIOUS
<1>2. T \in SUBSET Nat /\ T # {}
  BY <1>1
<1>3. PICK d \in T : \A e \in T : d <= e
  BY <1>2, LeastNatural
<1>4. PICK m \in S : \A x \in S : n - m <= n - x
  BY <1>3
<1>5. \A x \in S : m >= x
  BY <1>1, <1>4
<1>6. Max(S) \in S /\ \A x \in S : Max(S) >= x
  BY <1>5 DEF Max
<1> QED BY <1>1, <1>6

\* The minimum of a set of integers with a lower bound is its smallest element.
LEMMA MinIsSmallest ==
    ASSUME NEW S \in SUBSET Int, S # {}, NEW n \in Int, \A x \in S : n <= x
    PROVE  Min(S) \in S /\ \A x \in S : Min(S) <= x
<1> DEFINE T == {x - n : x \in S}
<1>1. \A x \in S : x \in Int /\ x - n \in Nat
  OBVIOUS
<1>2. T \in SUBSET Nat /\ T # {}
  BY <1>1
<1>3. PICK d \in T : \A e \in T : d <= e
  BY <1>2, LeastNatural
<1>4. PICK m \in S : \A x \in S : m - n <= x - n
  BY <1>3
<1>5. \A x \in S : m <= x
  BY <1>1, <1>4
<1> QED BY <1>5 DEF Min

-----------------------------------------------------------------------------
(* Ranks: the place of an element in a set of numbers.                     *)

\* How many elements of a set of numbers are smaller.
Rank(S, d) == Cardinality({e \in S : e < d})

\* In a set of numbers up to n the rank is below the cardinality.
LEMMA RankNatural ==
    ASSUME NEW n \in Nat, NEW S \in SUBSET (1..n)
    PROVE  /\ IsFiniteSet(S) /\ Cardinality(S) \in Nat
           /\ \A d \in S : Rank(S, d) \in 0..(Cardinality(S) - 1)
<1>1. IsFiniteSet(S)
  <2>1. IsFiniteSet(1..n)
    BY FS_Interval
  <2> QED BY <2>1, FS_Subset
<1>2. ASSUME NEW d \in S PROVE Rank(S, d) \in 0..(Cardinality(S) - 1)
  <2>1. {e \in S : e < d} \in SUBSET S /\ {e \in S : e < d} # S
    OBVIOUS
  <2>2. Rank(S, d) <= Cardinality(S) /\ Rank(S, d) # Cardinality(S)
    BY <1>1, <2>1, FS_Subset DEF Rank
  <2>3. IsFiniteSet({e \in S : e < d})
    BY <1>1, <2>1, FS_Subset
  <2>4. Rank(S, d) \in Nat /\ Cardinality(S) \in Nat
    BY <1>1, <2>3, FS_CardinalityType DEF Rank
  <2> QED BY <2>2, <2>4
<1> QED BY <1>1, <1>2, FS_CardinalityType

\* A smaller element has a smaller rank.
LEMMA RankGrows ==
    ASSUME NEW n \in Nat, NEW S \in SUBSET (1..n), NEW c \in S, NEW d \in S, c < d
    PROVE  Rank(S, c) < Rank(S, d)
<1> DEFINE C == {e \in S : e < c}
           D == {e \in S : e < d}
<1>1. C \in SUBSET D /\ c \in D /\ c \notin C /\ D \in SUBSET S
  <2>1. \A e \in S : e \in Int
    OBVIOUS
  <2>2. \A e \in S : e < c => e < d
    BY <2>1
  <2>3. ~(c < c)
    BY <2>1
  <2>4. C \in SUBSET D
    BY <2>2
  <2> QED BY <2>3, <2>4
<1>2. IsFiniteSet(D)
  BY <1>1, FS_Subset, RankNatural
<1>3. Cardinality(C) <= Cardinality(D) /\ Cardinality(C) # Cardinality(D)
  BY <1>1, <1>2, FS_Subset
<1>4. Rank(S, c) \in Int /\ Rank(S, d) \in Int
  <2>1. Rank(S, c) \in 0..(Cardinality(S) - 1) /\ Rank(S, d) \in 0..(Cardinality(S) - 1)
    BY RankNatural
  <2> QED BY <2>1
<1> QED BY <1>3, <1>4 DEF Rank

\* Every rank below the number of elements is the rank of an element.
LEMMA RankTaken ==
    ASSUME NEW n \in Nat, NEW S \in SUBSET (1..n), NEW k \in 0..(Cardinality(S) - 1)
    PROVE  \E d \in S : Rank(S, d) = k
<1>1. PICK c \in Nat : c = Cardinality(S)
  BY RankNatural
<1> DEFINE f == [d \in S |-> Rank(S, d)]
<1>2. \A d \in S : f[d] = Rank(S, d) /\ Rank(S, d) \in 0..(c - 1)
  BY <1>1, RankNatural
<1>3. f \in [S -> 0..(c - 1)]
  BY <1>2
<1>4. ASSUME NEW x \in S, NEW y \in S, f[x] = f[y] PROVE x = y
  <2>1. ~(Rank(S, x) < Rank(S, y)) /\ ~(Rank(S, y) < Rank(S, x))
    BY <1>2, <1>4
  <2>2. ~(x < y) /\ ~(y < x)
    BY <2>1, RankGrows
  <2> QED BY <2>2
<1>5. f \in Injection(S, 0..(c - 1))
  BY <1>3, <1>4 DEF Injection, IsInjective
<1>6. IsFiniteSet(0..(c - 1)) /\ Cardinality(0..(c - 1)) = c
  BY FS_Interval
<1> HIDE DEF f
<1>7. f \in Surjection(S, 0..(c - 1))
  BY <1>1, <1>5, <1>6, FS_Injection
<1>8. k \in 0..(c - 1)
  BY <1>1
<1>9. \E d \in S : f[d] = k
  BY <1>7, <1>8 DEF Surjection
<1> QED BY <1>2, <1>9

\* Counting an element itself gives one more.
LEMMA RankThrough ==
    ASSUME NEW n \in Nat, NEW S \in SUBSET (1..n), NEW d \in S
    PROVE  Cardinality({e \in S : e <= d}) = Rank(S, d) + 1
<1> DEFINE below == {e \in S : e < d}
<1>1. {e \in S : e <= d} = below \cup {d} /\ d \notin below
  <2>1. d \in Int /\ \A e \in S : e \in Int
    OBVIOUS
  <2>2. \A e \in S : e <= d <=> (e < d \/ e = d)
    BY <2>1
  <2>3. ~(d < d)
    BY <2>1
  <2> QED BY <2>2, <2>3, Zenon
<1>2. IsFiniteSet(below)
  BY RankNatural, FS_Subset
<1>3. Cardinality(below \cup {d}) = Cardinality(below) + 1
  BY <1>1, <1>2, FS_AddElement
<1> QED BY <1>1, <1>3 DEF Rank

\* The element that has as many others up to it as the set has is the largest.
LEMMA LastIsLargest ==
    ASSUME NEW n \in Nat, NEW S \in SUBSET (1..n), NEW d \in S,
           Cardinality({e \in S : e <= d}) = Cardinality(S)
    PROVE  \A e \in S : e <= d
<1>1. {e \in S : e <= d} \in SUBSET S
  OBVIOUS
<1>2. {e \in S : e <= d} = S
  BY <1>1, RankNatural, FS_Subset
<1> QED BY <1>2

=============================================================================
