----------------------------- MODULE FoldTheorems -----------------------------
(***************************************************************************)
(* Induction over FoldLeft of the community modules, for any operator.     *)
(* The provers cannot instantiate an operator that is a parameter of a     *)
(* theorem; so the folded operator and the predicate are constants here,   *)
(* and a proof that needs the rule takes an INSTANCE of this module.       *)
(* FoldLeft is defined by a recursive function on the subsets of the       *)
(* indices; that this function exists is shown by the least length for     *)
(* which it would not.                                                     *)
(***************************************************************************)
EXTENDS SequencesExt, SumTheorems

CONSTANTS
    Op(_, _, _),  \* the operator folded: environment, accumulator, element
    P(_, _, _)    \* what holds of the accumulator: environment, elements taken, accumulator

Folded(e, base, s) == FoldLeft(LAMBDA acc, el : Op(e, acc, el), base, s)

\* The recursion the fold is defined by, on the subsets in D.
IsFold(h, e, base, s, D) ==
    h = [t \in D |-> IF t = {} THEN base ELSE Op(e, h[t \ {Max(t)}], s[Max(t)])]

\* A non-empty set of indices has a largest one, which is what Max returns.
LEMMA MaxOfIndices ==
    ASSUME NEW n \in Nat, NEW t \in SUBSET (1..n), t # {}
    PROVE  Max(t) \in t /\ \A y \in t : y <= Max(t)
  <1> DEFINE B == {k \in Nat : \A y \in t : y <= k}
  <1>1. n \in B
    OBVIOUS
  <1>2. B \in SUBSET Nat /\ B # {}
    BY <1>1
  <1>3. PICK k \in B : \A m \in B : k <= m
    BY <1>2, LeastNat
  <1>4. k \in Nat /\ \A y \in t : y <= k
    BY <1>3
  <1>5. k \in t
    <2> SUFFICES ASSUME k \notin t
                 PROVE  FALSE
      OBVIOUS
    <2>1. \A y \in t : y \in Nat /\ y >= 1 /\ y < k
      BY <1>4
    <2>2. PICK z \in t : TRUE
      OBVIOUS
    <2>3. k - 1 \in Nat
      BY <1>4, <2>1, <2>2
    <2>4. k - 1 \in B
      BY <1>4, <2>1, <2>3
    <2> QED
      BY <1>3, <1>4, <2>4
  <1>6. \E x \in t : \A y \in t : x >= y
    BY <1>4, <1>5
  <1>7. Max(t) \in t /\ \A y \in t : Max(t) >= y
    BY <1>6 DEF Max
  <1> QED
    BY <1>7

\* The recursive function exists.
LEMMA FoldExists ==
    ASSUME NEW e, NEW base, NEW s, NEW len \in Nat
    PROVE  \E h : IsFold(h, e, base, s, SUBSET (1..len))
  <1> DEFINE T == {n \in Nat : ~ \E h : IsFold(h, e, base, s, SUBSET (1..n))}
  <1>1. ASSUME T # {}
        PROVE  FALSE
    <2>1. PICK n \in T : \A m \in T : n <= m
      BY <1>1, LeastNat
    <2>2. CASE n = 0
      <3>1. SUBSET (1..0) = {{}}
        OBVIOUS
      <3> DEFINE h == [t \in {{}} |-> base]
      <3>2. IsFold(h, e, base, s, {{}})
        BY DEF IsFold
      <3> QED
        BY <2>1, <2>2, <3>1, <3>2
    <2>3. CASE n # 0
      <3>1. n \in Nat
        OBVIOUS
      <3>2. n - 1 \in Nat /\ n - 1 \notin T
        <4> HIDE DEF T
        <4> QED
          BY <2>1, <2>3, <3>1
      <3>3. PICK g : IsFold(g, e, base, s, SUBSET (1..(n - 1)))
        BY <3>2
      <3> DEFINE D == SUBSET (1..n)
                 h == [t \in D |-> IF t = {} THEN base ELSE Op(e, g[t \ {Max(t)}], s[Max(t)])]
      <3>4. ASSUME NEW t \in SUBSET (1..(n - 1))
            PROVE  t \in D /\ h[t] = g[t]
        <4>1. 1..(n - 1) \subseteq 1..n
          BY <3>1
        <4>2. t \in D
          BY <4>1
        <4>3. g[t] = IF t = {} THEN base ELSE Op(e, g[t \ {Max(t)}], s[Max(t)])
          BY <3>3, <3>4 DEF IsFold
        <4> QED
          BY <4>2, <4>3
      <3>5. ASSUME NEW t \in D, t # {}
            PROVE  t \ {Max(t)} \in SUBSET (1..(n - 1))
        <4>1. Max(t) \in t /\ \A y \in t : y <= Max(t)
          BY <3>1, <3>5, MaxOfIndices
        <4>2. ASSUME NEW y \in t \ {Max(t)}
              PROVE  y \in 1..(n - 1)
          <5>1. y \in 1..n /\ Max(t) \in 1..n /\ y <= Max(t) /\ y # Max(t)
            BY <3>5, <4>1, <4>2
          <5> QED
            BY <3>1, <5>1
        <4> QED
          BY <4>2
      <3>6. \A t \in D : h[t] = IF t = {} THEN base ELSE Op(e, h[t \ {Max(t)}], s[Max(t)])
        BY <3>4, <3>5
      <3>7. IsFold(h, e, base, s, D)
        BY <3>6 DEF IsFold
      <3> QED
        BY <2>1, <3>7
    <2> QED
      BY <2>2, <2>3
  <1> QED
    BY <1>1

IsRun(run, e, base, s, len) ==
    /\ run[0] = base
    /\ \A i \in 1..len : run[i] = Op(e, run[i - 1], s[i])
    /\ Folded(e, base, s) = run[len]

\* The fold runs through the elements in order.
LEMMA FoldPrefix ==
    ASSUME NEW e, NEW base, NEW s, NEW len \in Nat, DOMAIN s = 1..len
    PROVE  \E run : IsRun(run, e, base, s, len)
  <1> DEFINE G == CHOOSE h : IsFold(h, e, base, s, SUBSET (1..len))
  <1>1. Folded(e, base, s) = G[1..len]
    BY DEF Folded, FoldLeft, MapThenFoldSet, IsFold
  <1>2. IsFold(G, e, base, s, SUBSET (1..len))
    BY FoldExists
  <1> HIDE DEF G
  <1> DEFINE run == [i \in 0..len |-> G[1..i]]
  <1>3. run[0] = base
    <2>1. 1..0 = {} /\ {} \in SUBSET (1..len)
      OBVIOUS
    <2>2. G[{}] = base
      BY <1>2, <2>1 DEF IsFold
    <2> QED
      BY <2>1, <2>2
  <1>4. ASSUME NEW i \in 1..len
        PROVE  run[i] = Op(e, run[i - 1], s[i])
    <2>1. 1..i \in SUBSET (1..len) /\ i \in 1..i /\ i \in Nat /\ i - 1 \in 0..len /\ i \in 0..len
      OBVIOUS
    <2>2. Max(1..i) \in 1..i /\ \A y \in 1..i : y <= Max(1..i)
      BY <2>1, MaxOfIndices
    <2>3. Max(1..i) = i
      BY <2>1, <2>2
    <2>4. (1..i) \ {i} = 1..(i - 1)
      BY <2>1
    <2>5. G[1..i] = Op(e, G[(1..i) \ {Max(1..i)}], s[Max(1..i)])
      BY <1>2, <2>1 DEF IsFold
    <2> QED
      BY <2>1, <2>3, <2>4, <2>5
  <1>5. run[len] = G[1..len]
    OBVIOUS
  <1>6. IsRun(run, e, base, s, len)
    BY <1>1, <1>3, <1>4, <1>5 DEF IsRun
  <1> QED
    BY <1>6

\* Induction along a fold: what holds before the first element and is kept by every
\* application holds of the result.
THEOREM FoldInduction ==
    ASSUME NEW e, NEW base, NEW s, NEW len \in Nat, DOMAIN s = 1..len,
           P(e, 0, base),
           \A i \in 1..len : \A a : P(e, i - 1, a) => P(e, i, Op(e, a, s[i]))
    PROVE  P(e, len, Folded(e, base, s))
  <1>1. PICK run : IsRun(run, e, base, s, len)
    BY FoldPrefix
  <1> DEFINE T == {i \in 0..len : ~ P(e, i, run[i])}
  <1>2. ASSUME T # {}
        PROVE  FALSE
    <2>1. PICK i \in T : \A j \in T : i <= j
      <3>1. T \in SUBSET Nat
        OBVIOUS
      <3> HIDE DEF T
      <3> QED
        BY <1>2, <3>1, LeastNat
    <2>2. i \in 0..len /\ ~ P(e, i, run[i])
      BY <2>1
    <2>3. i # 0
      BY <1>1, <2>2 DEF IsRun
    <2>4. i \in 1..len /\ i - 1 \in 0..len /\ ~ (i <= i - 1)
      BY <2>2, <2>3
    <2>5. P(e, i - 1, run[i - 1])
      BY <2>1, <2>4
    <2>6. P(e, i, Op(e, run[i - 1], s[i]))
      BY <2>4, <2>5
    <2> QED
      BY <1>1, <2>2, <2>4, <2>6 DEF IsRun
  <1> QED
    BY <1>1, <1>2 DEF IsRun
\* The fold over nothing is the base.
LEMMA FoldEmpty ==
    ASSUME NEW e, NEW base, NEW s, DOMAIN s = 1..0
    PROVE  Folded(e, base, s) = base
  <1>1. PICK run : IsRun(run, e, base, s, 0)
    BY FoldPrefix
  <1> QED
    BY <1>1 DEF IsRun

\* The fold over one element more is one more application of the operator.
THEOREM FoldAppends ==
    ASSUME NEW e, NEW base, NEW s, NEW r, NEW len \in Nat,
           DOMAIN s = 1..len, DOMAIN r = 1..(len + 1), \A i \in 1..len : r[i] = s[i]
    PROVE  Folded(e, base, r) = Op(e, Folded(e, base, s), r[len + 1])
  <1>1. PICK short : IsRun(short, e, base, s, len)
    BY FoldPrefix
  <1>2. len + 1 \in Nat
    OBVIOUS
  <1>3. PICK long : IsRun(long, e, base, r, len + 1)
    BY <1>2, FoldPrefix
  <1> DEFINE T == {i \in 0..len : short[i] # long[i]}
  <1>4. ASSUME T # {}
        PROVE  FALSE
    <2>1. PICK i \in T : \A j \in T : i <= j
      <3>1. T \in SUBSET Nat
        OBVIOUS
      <3> HIDE DEF T
      <3> QED
        BY <1>4, <3>1, LeastNat
    <2>2. i \in 0..len /\ short[i] # long[i]
      BY <2>1
    <2>3. i # 0
      BY <1>1, <1>3, <2>2 DEF IsRun
    <2>4. i \in 1..len /\ i \in 1..(len + 1) /\ i - 1 \in 0..len /\ ~ (i <= i - 1)
      BY <2>2, <2>3
    <2>5. short[i - 1] = long[i - 1]
      BY <2>1, <2>4
    <2>6. short[i] = Op(e, short[i - 1], s[i]) /\ long[i] = Op(e, long[i - 1], r[i])
      BY <1>1, <1>3, <2>4 DEF IsRun
    <2> QED
      BY <2>2, <2>4, <2>5, <2>6
  <1>5. short[len] = long[len]
    BY <1>4
  <1>6. len + 1 \in 1..(len + 1) /\ (len + 1) - 1 = len
    OBVIOUS
  <1>7. long[len + 1] = Op(e, long[len], r[len + 1])
    BY <1>3, <1>6 DEF IsRun
  <1> QED
    BY <1>1, <1>3, <1>5, <1>7 DEF IsRun

===============================================================================
