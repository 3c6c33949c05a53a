---------------------------- MODULE Folds_proofs ----------------------------
(***************************************************************************)
(* What FoldLeft computes, step by step, for every operator that is folded *)
(* and every sequence.  FoldLeft is defined by a recursion over sets of    *)
(* indices; that such a recursion has a solution is shown here, and from   *)
(* it what one more element does.                                          *)
(***************************************************************************)
EXTENDS Integers, Sequences, SequencesExt, Operators_proofs, TLAPS

CONSTANT Op(_, _)   \* the operator that is folded

Fold(base, seq) == FoldLeft(Op, base, seq)

\* One unfolding of the recursion, over the sets of the indices 1..n.
Unfolded(f, base, seq, n) ==
    [s \in SUBSET (1..n) |->
        IF s = {} THEN base ELSE Op(f[s \ {Max(s)}], seq[Max(s)])]

\* The largest index of a set.
LEMMA MaxIndex ==
    ASSUME NEW n \in Nat, NEW s \in SUBSET (1..n), s # {}
    PROVE  Max(s) \in s /\ \A i \in s : i <= Max(s)
<1>1. s \in SUBSET Int /\ n \in Int /\ \A i \in s : i <= n
  OBVIOUS
<1> QED BY <1>1, MaxIsLargest

\* The recursion has a solution on any number of indices: one index more adds
\* the sets that contain it, whose values rest on sets without it.
LEMMA Solvable ==
    ASSUME NEW base, NEW seq, NEW n \in Nat
    PROVE  \E f : f = Unfolded(f, base, seq, n)
<1> DEFINE Bad == {m \in Nat : ~\E f : f = Unfolded(f, base, seq, m)}
<1>1. SUFFICES ASSUME Bad # {} PROVE FALSE
  BY Zenon
<1>2. PICK m \in Bad : \A k \in Bad : m <= k
  BY <1>1, LeastNatural, Zenon
<1>3. m # 0
  <2> DEFINE zero == [s \in {{}} |-> base]
  <2>1. Unfolded(zero, base, seq, 0) = zero
    <3>1. SUBSET (1..0) = {{}}
      OBVIOUS
    <3> QED BY <3>1, Zenon DEF Unfolded
  <2> QED BY <2>1, <1>2, Zenon
<1>4. m \in Nat /\ m - 1 \in Nat /\ m - 1 \notin Bad
  BY <1>2, <1>3
<1>5. PICK f : f = Unfolded(f, base, seq, m - 1)
  BY <1>4, Zenon
<1> DEFINE g == [s \in SUBSET (1..m) |->
                    IF m \in s THEN Op(f[s \ {m}], seq[m]) ELSE f[s]]
<1>6. ASSUME NEW s \in SUBSET (1..m)
      PROVE  g[s] = IF s = {} THEN base ELSE Op(g[s \ {Max(s)}], seq[Max(s)])
  <2>1. CASE m \in s
    <3>1. Max(s) = m
      <4>1. Max(s) \in s /\ \A i \in s : i <= Max(s)
        BY <1>4, <2>1, MaxIndex
      <4>2. Max(s) \in 1..m /\ m <= Max(s)
        BY <2>1, <4>1
      <4> QED BY <1>4, <4>2
    <3>2. s \ {m} \in SUBSET (1..m) /\ m \notin s \ {m}
      OBVIOUS
    <3>3. g[s \ {m}] = f[s \ {m}]
      BY <3>2
    <3> QED BY <2>1, <3>1, <3>3
  <2>2. CASE m \notin s
    <3>1. s \in SUBSET (1..(m - 1))
      BY <1>4, <2>2
    <3>2. g[s] = f[s]
      BY <2>2
    <3>3. f[s] = IF s = {} THEN base ELSE Op(f[s \ {Max(s)}], seq[Max(s)])
      <4>1. Unfolded(f, base, seq, m - 1)[s] =
              IF s = {} THEN base ELSE Op(f[s \ {Max(s)}], seq[Max(s)])
        BY <3>1 DEF Unfolded
      <4> QED BY <1>5, <4>1, Zenon
    <3>4. s # {} => s \ {Max(s)} \in SUBSET (1..m) /\ m \notin s \ {Max(s)}
      BY <2>2
    <3>5. s # {} => g[s \ {Max(s)}] = f[s \ {Max(s)}]
      BY <3>4
    <3> QED BY <3>2, <3>3, <3>5
  <2> QED BY <2>1, <2>2
<1>7. g = Unfolded(g, base, seq, m)
  <2> HIDE DEF g
  <2>1. Unfolded(g, base, seq, m) = [s \in SUBSET (1..m) |-> g[s]]
    BY <1>6 DEF Unfolded
  <2>2. g = [s \in SUBSET (1..m) |-> g[s]]
    BY DEF g
  <2> QED BY <2>1, <2>2
<1>8. m \notin Bad
  BY <1>7, Zenon
<1> QED BY <1>2, <1>8

\* The values of a fold: base, then one application of Op for each element.
Steps(st, base, seq, n) ==
    /\ st[0] = base
    /\ \A k \in 1..n : st[k] = Op(st[k - 1], seq[k])

\* A fold is the last of its values.
THEOREM FoldSteps ==
    ASSUME NEW base, NEW seq, NEW n \in Nat, DOMAIN seq = 1..n
    PROVE  \E st : /\ DOMAIN st = 0..n /\ Steps(st, base, seq, n)
                   /\ Fold(base, seq) = st[n]
<1> DEFINE fix == CHOOSE f : f = Unfolded(f, base, seq, n)
<1>1. fix = Unfolded(fix, base, seq, n)
  BY Solvable, Zenon
<1>2. Fold(base, seq) = fix[1..n]
  BY Zenon DEF Fold, FoldLeft, MapThenFoldSet, Unfolded
<1> HIDE DEF fix
<1> DEFINE st == [k \in 0..n |-> fix[1..k]]
<1>3. st[0] = base
  <2>1. 1..0 = {} /\ {} \in SUBSET (1..n) /\ st[0] = fix[1..0]
    OBVIOUS
  <2>2. Unfolded(fix, base, seq, n)[{}] = base
    BY DEF Unfolded
  <2> QED BY <1>1, <2>1, <2>2, Zenon
<1>4. ASSUME NEW k \in 1..n PROVE st[k] = Op(st[k - 1], seq[k])
  <2>1. 1..k \in SUBSET (1..n) /\ 1..k # {} /\ k \in 1..k /\ k - 1 \in 0..n /\ k \in 0..n
    <3>1. k \in Int /\ 1 <= k /\ k <= n
      OBVIOUS
    <3>2. k \in 1..k /\ k - 1 \in 0..n /\ k \in 0..n
      BY <3>1
    <3>3. \A i \in 1..k : i \in 1..n
      BY <3>1
    <3> QED BY <3>2, <3>3
  <2>2. Max(1..k) = k
    <3>1. Max(1..k) \in 1..k /\ \A i \in 1..k : i <= Max(1..k)
      BY <2>1, MaxIndex
    <3> QED BY <2>1, <3>1
  <2>3. (1..k) \ {k} = 1..(k - 1)
    OBVIOUS
  <2>4. Unfolded(fix, base, seq, n)[1..k] = Op(fix[1..(k - 1)], seq[k])
    BY <2>1, <2>2, <2>3, Zenon DEF Unfolded
  <2>5. st[k] = fix[1..k] /\ st[k - 1] = fix[1..(k - 1)]
    BY <2>1
  <2> QED BY <1>1, <2>4, <2>5, Zenon
<1>5. DOMAIN st = 0..n /\ st[n] = fix[1..n]
  OBVIOUS
<1> HIDE DEF st
<1>6. Steps(st, base, seq, n)
  BY <1>3, <1>4 DEF Steps
<1> QED BY <1>2, <1>5, <1>6, Zenon

\* Two recordings of a fold agree as far as the sequences do.
LEMMA SameSteps ==
    ASSUME NEW base, NEW seq, NEW sequel, NEW n \in Nat,
           \A k \in 1..n : seq[k] = sequel[k],
           NEW st, Steps(st, base, seq, n), NEW su, Steps(su, base, sequel, n)
    PROVE  st[n] = su[n]
<1> DEFINE Bad == {m \in 0..n : st[m] # su[m]}
<1>1. SUFFICES ASSUME Bad # {} PROVE FALSE
  OBVIOUS
<1>2. PICK m \in Bad : \A k \in Bad : m <= k
  <2>1. Bad \in SUBSET Nat
    OBVIOUS
  <2> HIDE DEF Bad
  <2> QED BY <1>1, <2>1, LeastNatural
<1>3. m \in 0..n /\ st[m] # su[m]
  BY <1>2
<1>4. m # 0
  BY <1>3 DEF Steps
<1>5. m \in 1..n /\ m - 1 \in 0..n
  BY <1>3, <1>4
<1>6. st[m - 1] = su[m - 1]
  BY <1>2, <1>5
<1>7. st[m] = Op(st[m - 1], seq[m]) /\ su[m] = Op(su[m - 1], sequel[m])
  BY <1>5 DEF Steps
<1> QED BY <1>3, <1>5, <1>6, <1>7

\* The fold of nothing is the base.
THEOREM FoldEmpty == \A base : Fold(base, <<>>) = base
<1> TAKE base
<1>1. 0 \in Nat /\ DOMAIN <<>> = 1..0
  OBVIOUS
<1>2. PICK st : Steps(st, base, <<>>, 0) /\ Fold(base, <<>>) = st[0]
  BY <1>1, FoldSteps, Zenon
<1> QED BY <1>2, Zenon DEF Steps

\* One more element is one more application of the operator.
THEOREM FoldAppend ==
    ASSUME NEW base, NEW S, NEW seq \in Seq(S), NEW e \in S
    PROVE  Fold(base, Append(seq, e)) = Op(Fold(base, seq), e)
<1> DEFINE n == Len(seq)
           longer == Append(seq, e)
<1>1. /\ n \in Nat /\ n + 1 \in Nat /\ DOMAIN seq = 1..n /\ DOMAIN longer = 1..(n + 1)
      /\ longer[n + 1] = e
  OBVIOUS
<1>2. \A k \in 1..n : seq[k] = longer[k]
  OBVIOUS
<1> HIDE DEF n, longer
<1>3. PICK st : Steps(st, base, seq, n) /\ Fold(base, seq) = st[n]
  BY <1>1, FoldSteps, Zenon
<1>4. PICK su : /\ Steps(su, base, longer, n + 1)
                /\ Fold(base, longer) = su[n + 1]
  BY <1>1, FoldSteps, Zenon
<1>5. Steps(su, base, longer, n) /\ su[n + 1] = Op(su[n], e)
  <2>1. \A k \in 1..n : k \in 1..(n + 1)
    BY <1>1
  <2>2. n + 1 \in 1..(n + 1) /\ (n + 1) - 1 = n
    BY <1>1
  <2> QED BY <1>1, <1>4, <2>1, <2>2 DEF Steps
<1>6. st[n] = su[n]
  BY <1>1, <1>2, <1>3, <1>5, SameSteps
<1> QED BY <1>3, <1>4, <1>5, <1>6 DEF longer
=============================================================================
