----------------------------- MODULE SumTheorems -----------------------------
(***************************************************************************)
(* What the proofs need to know of SumFunctionOnSet of the community       *)
(* modules.  It is a fold, defined by a recursive function on the subsets  *)
(* of its domain; that this function exists, and every fact about sums, is *)
(* shown by the least counterexample: of the subsets that contradict it    *)
(* take one of least cardinality, and remove an element.                   *)
(***************************************************************************)
EXTENDS Integers, Functions, FiniteSetTheorems, WellFoundedInduction, TLAPS

\* Every non-empty set of naturals has a least element.
LEMMA LeastNat ==
    ASSUME NEW T \in SUBSET Nat, T # {}
    PROVE  \E n \in T : \A m \in T : n <= m
  <1> DEFINE R == OpToRel(<, Nat)
  <1>1. IsWellFoundedOn(R, Nat)
    BY NatLessThanWellFounded
  <1>2. \A m, n \in Nat : m < n => <<m, n>> \in R
    BY DEF OpToRel
  <1> HIDE DEF R
  <1>3. PICK n \in T : \A m \in T : ~ (<<m, n>> \in R)
    BY <1>1, WFMin
  <1>4. ASSUME NEW m \in T
        PROVE  n <= m
    <2>1. m \in Nat /\ n \in Nat
      OBVIOUS
    <2>2. ~ (m < n)
      BY <1>2, <1>3, <2>1
    <2> QED
      BY <2>1, <2>2
  <1> QED
    BY <1>4

\* The recursion a sum over a set is defined by.
Pick(s) == CHOOSE x \in s : TRUE
IsIter(g, f, D) ==
    g = [s \in D |-> IF s = {} THEN 0 ELSE f[Pick(s)] + g[s \ {Pick(s)}]]
IterOver(g, f, I) == IsIter(g, f, SUBSET I)

\* The sum is the value at I of some function with that recursion.
LEMMA SumIsIter ==
    ASSUME NEW f, NEW I
    PROVE  SumFunctionOnSet(f, I) = (CHOOSE g : IsIter(g, f, SUBSET I))[I]
  BY DEF SumFunctionOnSet, FoldFunctionOnSet, MapThenFoldSet, IsIter, Pick

\* Two such functions agree where both are defined.
LEMMA IterUnique ==
    ASSUME NEW f, NEW I, IsFiniteSet(I), NEW J \in SUBSET I, NEW g, NEW h,
           IterOver(g, f, I), IterOver(h, f, J)
    PROVE  g[J] = h[J]
  <1> DEFINE Bad == {s \in SUBSET J : g[s] # h[s]}
             T == {Cardinality(s) : s \in Bad}
  <1> SUFFICES ASSUME Bad # {}
               PROVE  FALSE
    OBVIOUS
  <1> USE DEF IterOver
  <1>1. \A s \in SUBSET I : IsFiniteSet(s) /\ Cardinality(s) \in Nat
    BY FS_Subset, FS_CardinalityType
  <1>2. T \in SUBSET Nat /\ T # {}
    BY <1>1
  <1> HIDE DEF T
  <1>3. PICK n \in T : \A m \in T : n <= m
    BY <1>2, LeastNat
  <1>4. PICK s \in Bad : n = Cardinality(s)
    BY <1>3 DEF T
  <1>5. s # {}
    BY DEF IsIter
  <1> DEFINE x == Pick(s)
  <1>6. x \in s
    BY <1>5 DEF Pick
  <1> HIDE DEF x
  <1>7. s \ {x} \in SUBSET J /\ Cardinality(s \ {x}) = Cardinality(s) - 1
    BY <1>1, <1>6, FS_RemoveElement
  <1>8. Cardinality(s \ {x}) \notin T
    BY <1>1, <1>3, <1>4, <1>7
  <1>9. g[s \ {x}] = h[s \ {x}]
    BY <1>7, <1>8 DEF T
  <1>10. g[s] = f[x] + g[s \ {x}] /\ h[s] = f[x] + h[s \ {x}]
    BY <1>5 DEF IsIter, x
  <1> QED
    BY <1>9, <1>10

\* On a finite set such a function exists.
LEMMA IterExists ==
    ASSUME NEW f, NEW I, IsFiniteSet(I)
    PROVE  \E g : IsIter(g, f, SUBSET I)
  <1> DEFINE Small(n) == {s \in SUBSET I : Cardinality(s) <= n}
             T == {n \in Nat : ~ \E g : IsIter(g, f, Small(n))}
  <1>1. \A s \in SUBSET I : IsFiniteSet(s) /\ Cardinality(s) \in Nat
    BY FS_Subset, FS_CardinalityType
  <1>2. ASSUME T # {}
        PROVE  FALSE
    <2>1. PICK n \in T : \A m \in T : n <= m
      BY <1>2, LeastNat
    <2>2. CASE n = 0
      <3>1. Small(0) = {{}}
        BY <1>1, FS_EmptySet
      <3> DEFINE g == [s \in {{}} |-> 0]
      <3>2. IsIter(g, f, {{}})
        BY DEF IsIter
      <3> QED
        BY <2>1, <2>2, <3>1, <3>2
    <2>3. CASE n # 0
      <3>1. n \in Nat
        OBVIOUS
      <3>2. n - 1 \in Nat /\ n - 1 \notin T
        <4> HIDE DEF T
        <4> QED
          BY <2>1, <2>3, <3>1
      <3>3. PICK g : IsIter(g, f, Small(n - 1))
        BY <3>2
      <3> DEFINE h == [s \in Small(n) |-> IF s = {} THEN 0 ELSE f[Pick(s)] + g[s \ {Pick(s)}]]
      <3>4. ASSUME NEW s \in Small(n - 1)
            PROVE  s \in Small(n) /\ h[s] = g[s]
        <4>1. s \in SUBSET I /\ Cardinality(s) <= n - 1 /\ Cardinality(s) \in Nat
          BY <1>1, <3>4
        <4>2. s \in Small(n)
          BY <3>1, <4>1
        <4>3. g[s] = IF s = {} THEN 0 ELSE f[Pick(s)] + g[s \ {Pick(s)}]
          BY <3>3, <3>4 DEF IsIter
        <4> QED
          BY <4>2, <4>3
      <3>5. ASSUME NEW s \in Small(n), s # {}
            PROVE  s \ {Pick(s)} \in Small(n - 1)
        <4>1. Pick(s) \in s
          BY <3>5 DEF Pick
        <4>2. Cardinality(s \ {Pick(s)}) = Cardinality(s) - 1
          BY <1>1, <4>1, FS_RemoveElement
        <4> QED
          BY <1>1, <2>1, <4>2
      <3>6. \A s \in Small(n) :
               h[s] = IF s = {} THEN 0 ELSE f[Pick(s)] + h[s \ {Pick(s)}]
        BY <3>4, <3>5
      <3>7. h = [s \in Small(n) |-> IF s = {} THEN 0 ELSE f[Pick(s)] + h[s \ {Pick(s)}]]
        BY <3>6
      <3>8. IsIter(h, f, Small(n))
        BY <3>7 DEF IsIter
      <3> QED
        BY <2>1, <3>8
    <2> QED
      BY <2>2, <2>3
  <1>3. Cardinality(I) \in Nat /\ Cardinality(I) \notin T
    BY <1>1, <1>2
  <1>4. PICK g : IsIter(g, f, Small(Cardinality(I)))
    BY <1>3
  <1>5. Small(Cardinality(I)) = SUBSET I
    BY FS_Subset
  <1> QED
    BY <1>4, <1>5

\* So the sum can be unfolded.
LEMMA SumUnfolds ==
    ASSUME NEW f, NEW I, IsFiniteSet(I)
    PROVE  /\ SumFunctionOnSet(f, {}) = 0
           /\ I # {} => SumFunctionOnSet(f, I)
                           = f[Pick(I)] + SumFunctionOnSet(f, I \ {Pick(I)})
  <1> DEFINE G(J) == CHOOSE g : IsIter(g, f, SUBSET J)
  <1>1. ASSUME NEW J, IsFiniteSet(J)
        PROVE  IsIter(G(J), f, SUBSET J) /\ SumFunctionOnSet(f, J) = G(J)[J]
    BY <1>1, IterExists, SumIsIter
  <1> HIDE DEF G
  <1>2. SumFunctionOnSet(f, {}) = 0
    BY <1>1, FS_EmptySet DEF IsIter
  <1>3. ASSUME I # {}
        PROVE  SumFunctionOnSet(f, I) = f[Pick(I)] + SumFunctionOnSet(f, I \ {Pick(I)})
    <2>1. PICK J : J = I \ {Pick(I)}
      OBVIOUS
    <2>2. J \in SUBSET I /\ IsFiniteSet(J)
      BY <2>1, FS_Subset
    <2>3. PICK g : g = G(I)
      OBVIOUS
    <2>4. PICK h : h = G(J)
      OBVIOUS
    <2>5. IterOver(g, f, I) /\ IterOver(h, f, J)
      BY <1>1, <2>2, <2>3, <2>4 DEF IterOver
    <2>6. g[J] = h[J]
      BY <2>2, <2>5, IterUnique
    <2>7. g[I] = f[Pick(I)] + g[J]
      BY <1>3, <2>1, <2>5 DEF IsIter, IterOver
    <2> QED
      BY <1>1, <2>1, <2>2, <2>3, <2>4, <2>6, <2>7
  <1> QED
    BY <1>2, <1>3

\* A sum of integers is an integer.
LEMMA SumType ==
    ASSUME NEW f, NEW I, IsFiniteSet(I), \A x \in I : f[x] \in Int
    PROVE  SumFunctionOnSet(f, I) \in Int
  <1> DEFINE Bad == {s \in SUBSET I : SumFunctionOnSet(f, s) \notin Int}
             T == {Cardinality(s) : s \in Bad}
  <1> SUFFICES ASSUME Bad # {}
               PROVE  FALSE
    OBVIOUS
  <1>1. \A s \in SUBSET I : IsFiniteSet(s) /\ Cardinality(s) \in Nat
    BY FS_Subset, FS_CardinalityType
  <1>2. T \in SUBSET Nat /\ T # {}
    BY <1>1
  <1> HIDE DEF T
  <1>3. PICK n \in T : \A m \in T : n <= m
    BY <1>2, LeastNat
  <1>4. PICK s \in Bad : n = Cardinality(s)
    BY <1>3 DEF T
  <1>5. SumFunctionOnSet(f, {}) = 0
    BY SumUnfolds
  <1>6. s # {}
    BY <1>5
  <1>7. Pick(s) \in s
    BY <1>6 DEF Pick
  <1>8. s \ {Pick(s)} \in SUBSET I /\ Cardinality(s \ {Pick(s)}) = Cardinality(s) - 1
    BY <1>1, <1>7, FS_RemoveElement
  <1>9. Cardinality(s \ {Pick(s)}) \notin T
    BY <1>1, <1>3, <1>4, <1>8
  <1>10. SumFunctionOnSet(f, s \ {Pick(s)}) \in Int
    BY <1>8, <1>9 DEF T
  <1>11. SumFunctionOnSet(f, s) = f[Pick(s)] + SumFunctionOnSet(f, s \ {Pick(s)})
    BY <1>1, <1>6, SumUnfolds
  <1>12. SumFunctionOnSet(f, s) \in Int
    BY <1>7, <1>10, <1>11
  <1> QED
    BY <1>12

\* The sum may take any element first.
LEMMA SumTakes ==
    ASSUME NEW f, NEW I, IsFiniteSet(I), \A x \in I : f[x] \in Int, NEW a \in I
    PROVE  SumFunctionOnSet(f, I) = f[a] + SumFunctionOnSet(f, I \ {a})
  <1> DEFINE S(s) == SumFunctionOnSet(f, s)
             Bad == {s \in SUBSET I : \E x \in s : S(s) # f[x] + S(s \ {x})}
             T == {Cardinality(s) : s \in Bad}
  <1> SUFFICES ASSUME Bad # {}
               PROVE  FALSE
    OBVIOUS
  <1>1. \A s \in SUBSET I : IsFiniteSet(s) /\ Cardinality(s) \in Nat
    BY FS_Subset, FS_CardinalityType
  <1>2. T \in SUBSET Nat /\ T # {}
    BY <1>1
  <1>3. \A s \in SUBSET I : S(s) \in Int
    BY <1>1, SumType
  <1>4. \A s \in SUBSET I : s # {} => S(s) = f[Pick(s)] + S(s \ {Pick(s)})
    BY <1>1, SumUnfolds
  <1> HIDE DEF T, S
  <1>5. PICK n \in T : \A m \in T : n <= m
    BY <1>2, LeastNat
  <1>6. PICK s \in Bad : n = Cardinality(s)
    BY <1>5 DEF T
  <1>7. PICK x \in s : S(s) # f[x] + S(s \ {x})
    OBVIOUS
  <1> DEFINE c == Pick(s)
  <1>8. c \in s
    BY DEF Pick
  <1>9. S(s) = f[c] + S(s \ {c})
    BY <1>4, <1>8
  <1> HIDE DEF c
  <1>10. c # x
    BY <1>7, <1>9
  <1>11. ASSUME NEW u \in s, NEW v \in s, u # v
         PROVE  S(s \ {u}) = f[v] + S((s \ {u}) \ {v})
    <2>1. s \ {u} \in SUBSET I /\ Cardinality(s \ {u}) = Cardinality(s) - 1
      BY <1>1, FS_RemoveElement
    <2>2. Cardinality(s \ {u}) \notin T
      BY <1>1, <1>5, <1>6, <2>1
    <2>3. s \ {u} \notin Bad
      BY <2>1, <2>2 DEF T
    <2> QED
      BY <1>11, <2>1, <2>3
  <1>12. S(s \ {c}) = f[x] + S((s \ {c}) \ {x}) /\ S(s \ {x}) = f[c] + S((s \ {x}) \ {c})
    BY <1>8, <1>10, <1>11
  <1>13. (s \ {c}) \ {x} = (s \ {x}) \ {c} /\ (s \ {c}) \ {x} \in SUBSET I
    OBVIOUS
  <1>14. f[c] \in Int /\ f[x] \in Int /\ S((s \ {c}) \ {x}) \in Int
    BY <1>3, <1>8, <1>13
  <1>15. S(s) = f[c] + (f[x] + S((s \ {c}) \ {x}))
    BY <1>9, <1>12
  <1>16. f[x] + S(s \ {x}) = f[x] + (f[c] + S((s \ {c}) \ {x}))
    BY <1>12, <1>13
  <1>17. \A i, j, k \in Int : i + (j + k) = j + (i + k)
    OBVIOUS
  <1> QED
    BY <1>7, <1>14, <1>15, <1>16, <1>17

\* Functions that agree on a set have the same sum over it.
LEMMA SumAgrees ==
    ASSUME NEW f, NEW g, NEW I, IsFiniteSet(I), \A x \in I : f[x] = g[x]
    PROVE  SumFunctionOnSet(f, I) = SumFunctionOnSet(g, I)
  <1> DEFINE Bad == {s \in SUBSET I : SumFunctionOnSet(f, s) # SumFunctionOnSet(g, s)}
             T == {Cardinality(s) : s \in Bad}
  <1> SUFFICES ASSUME Bad # {}
               PROVE  FALSE
    OBVIOUS
  <1>1. \A s \in SUBSET I : IsFiniteSet(s) /\ Cardinality(s) \in Nat
    BY FS_Subset, FS_CardinalityType
  <1>2. T \in SUBSET Nat /\ T # {}
    BY <1>1
  <1> HIDE DEF T
  <1>3. PICK n \in T : \A m \in T : n <= m
    BY <1>2, LeastNat
  <1>4. PICK s \in Bad : n = Cardinality(s)
    BY <1>3 DEF T
  <1>5. s # {}
    BY <1>1, SumUnfolds
  <1>6. Pick(s) \in s
    BY <1>5 DEF Pick
  <1>7. s \ {Pick(s)} \in SUBSET I /\ Cardinality(s \ {Pick(s)}) = Cardinality(s) - 1
    BY <1>1, <1>6, FS_RemoveElement
  <1>8. Cardinality(s \ {Pick(s)}) \notin T
    BY <1>1, <1>3, <1>4, <1>7
  <1>9. SumFunctionOnSet(f, s \ {Pick(s)}) = SumFunctionOnSet(g, s \ {Pick(s)})
    BY <1>7, <1>8 DEF T
  <1>10. /\ SumFunctionOnSet(f, s) = f[Pick(s)] + SumFunctionOnSet(f, s \ {Pick(s)})
         /\ SumFunctionOnSet(g, s) = g[Pick(s)] + SumFunctionOnSet(g, s \ {Pick(s)})
    BY <1>1, <1>5, SumUnfolds
  <1> QED
    BY <1>6, <1>9, <1>10

\* Changing one value changes the sum by as much.
THEOREM SumChanges ==
    ASSUME NEW I, IsFiniteSet(I), NEW f, NEW g, NEW a \in I,
           \A x \in I : f[x] \in Int /\ g[x] \in Int,
           \A x \in I \ {a} : g[x] = f[x]
    PROVE  SumFunctionOnSet(g, I) = SumFunctionOnSet(f, I) - f[a] + g[a]
  <1> DEFINE J == I \ {a}
  <1>1. J \in SUBSET I /\ IsFiniteSet(J)
    BY FS_Subset
  <1>2. /\ SumFunctionOnSet(f, I) = f[a] + SumFunctionOnSet(f, J)
        /\ SumFunctionOnSet(g, I) = g[a] + SumFunctionOnSet(g, J)
    BY SumTakes
  <1>3. SumFunctionOnSet(f, J) = SumFunctionOnSet(g, J)
    BY <1>1, SumAgrees
  <1>4. SumFunctionOnSet(f, J) \in Int
    BY <1>1, SumType
  <1> QED
    BY <1>2, <1>3, <1>4

\* A sum of naturals is a natural, and no less than any of its terms.
THEOREM SumBounds ==
    ASSUME NEW f, NEW I, IsFiniteSet(I), \A x \in I : f[x] \in Nat
    PROVE  /\ SumFunctionOnSet(f, I) \in Nat
           /\ \A x \in I : f[x] <= SumFunctionOnSet(f, I)
  <1> DEFINE Bad == {s \in SUBSET I : SumFunctionOnSet(f, s) \notin Nat}
             T == {Cardinality(s) : s \in Bad}
  <1>1. \A s \in SUBSET I : IsFiniteSet(s) /\ Cardinality(s) \in Nat
    BY FS_Subset, FS_CardinalityType
  <1>2. ASSUME Bad # {}
        PROVE  FALSE
    <2>1. T \in SUBSET Nat /\ T # {}
      BY <1>1, <1>2
    <2> HIDE DEF T
    <2>2. PICK n \in T : \A m \in T : n <= m
      BY <2>1, LeastNat
    <2>3. PICK s \in Bad : n = Cardinality(s)
      BY <2>2 DEF T
    <2>4. SumFunctionOnSet(f, {}) = 0
      BY SumUnfolds
    <2>5. s # {}
      BY <2>4
    <2>6. Pick(s) \in s
      BY <2>5 DEF Pick
    <2>7. s \ {Pick(s)} \in SUBSET I /\ Cardinality(s \ {Pick(s)}) = Cardinality(s) - 1
      BY <1>1, <2>6, FS_RemoveElement
    <2>8. Cardinality(s \ {Pick(s)}) \notin T
      BY <1>1, <2>2, <2>3, <2>7
    <2>9. SumFunctionOnSet(f, s \ {Pick(s)}) \in Nat
      BY <2>7, <2>8 DEF T
    <2>10. SumFunctionOnSet(f, s) = f[Pick(s)] + SumFunctionOnSet(f, s \ {Pick(s)})
      BY <1>1, <2>5, SumUnfolds
    <2>11. SumFunctionOnSet(f, s) \in Nat
      BY <2>6, <2>9, <2>10
    <2> QED
      BY <2>11
  <1>3. \A s \in SUBSET I : SumFunctionOnSet(f, s) \in Nat
    BY <1>2
  <1>4. ASSUME NEW x \in I
        PROVE  f[x] <= SumFunctionOnSet(f, I)
    <2>1. SumFunctionOnSet(f, I) = f[x] + SumFunctionOnSet(f, I \ {x})
      BY SumTakes
    <2>2. SumFunctionOnSet(f, I \ {x}) \in Nat
      BY <1>3
    <2> QED
      BY <2>1, <2>2
  <1> QED
    BY <1>3, <1>4

\* The sum of the differences is the difference of the sums.
THEOREM SumSubtracts ==
    ASSUME NEW I, IsFiniteSet(I), NEW f, NEW g, NEW h,
           \A x \in I : f[x] \in Int /\ g[x] \in Int /\ h[x] = f[x] - g[x]
    PROVE  SumFunctionOnSet(h, I) = SumFunctionOnSet(f, I) - SumFunctionOnSet(g, I)
  <1> DEFINE F(s) == SumFunctionOnSet(f, s)
             G(s) == SumFunctionOnSet(g, s)
             H(s) == SumFunctionOnSet(h, s)
             Bad == {s \in SUBSET I : H(s) # F(s) - G(s)}
             T == {Cardinality(s) : s \in Bad}
  <1> SUFFICES ASSUME Bad # {}
               PROVE  FALSE
    OBVIOUS
  <1>1. \A s \in SUBSET I : IsFiniteSet(s) /\ Cardinality(s) \in Nat
    BY FS_Subset, FS_CardinalityType
  <1>2. T \in SUBSET Nat /\ T # {}
    BY <1>1
  <1>3. \A s \in SUBSET I : F(s) \in Int /\ G(s) \in Int
    BY <1>1, SumType
  <1>4. /\ F({}) = 0 /\ G({}) = 0 /\ H({}) = 0
        /\ \A s \in SUBSET I : s # {} =>
              /\ F(s) = f[Pick(s)] + F(s \ {Pick(s)})
              /\ G(s) = g[Pick(s)] + G(s \ {Pick(s)})
              /\ H(s) = h[Pick(s)] + H(s \ {Pick(s)})
    BY <1>1, SumUnfolds
  <1> HIDE DEF T, F, G, H
  <1>5. PICK n \in T : \A m \in T : n <= m
    BY <1>2, LeastNat
  <1>6. PICK s \in Bad : n = Cardinality(s)
    BY <1>5 DEF T
  <1>7. s # {}
    <2>1. H(s) # F(s) - G(s)
      OBVIOUS
    <2>2. ASSUME s = {}
          PROVE  H(s) = 0 /\ F(s) = 0 /\ G(s) = 0
      BY <1>4, <2>2, Zenon
    <2> QED
      BY <2>1, <2>2
  <1>8. PICK x \in s : x = Pick(s)
    BY <1>7 DEF Pick
  <1>9. s \ {x} \in SUBSET I /\ Cardinality(s \ {x}) = Cardinality(s) - 1
    BY <1>1, FS_RemoveElement
  <1>10. Cardinality(s \ {x}) \notin T
    BY <1>1, <1>5, <1>6, <1>9
  <1>11. H(s \ {x}) = F(s \ {x}) - G(s \ {x})
    BY <1>9, <1>10 DEF T
  <1>12. F(s) = f[x] + F(s \ {x}) /\ G(s) = g[x] + G(s \ {x}) /\ H(s) = h[x] + H(s \ {x})
    BY <1>4, <1>7, <1>8
  <1>13. /\ f[x] \in Int /\ g[x] \in Int /\ h[x] = f[x] - g[x]
         /\ F(s \ {x}) \in Int /\ G(s \ {x}) \in Int
    BY <1>3, <1>9
  <1>14. H(s) = F(s) - G(s)
    BY <1>11, <1>12, <1>13
  <1> QED
    BY <1>14

\* What no term exceeds, the sum does not exceed.
THEOREM SumMonotone ==
    ASSUME NEW I, IsFiniteSet(I), NEW f, NEW g,
           \A x \in I : f[x] \in Int /\ g[x] \in Int /\ f[x] <= g[x]
    PROVE  SumFunctionOnSet(f, I) <= SumFunctionOnSet(g, I)
  <1> DEFINE h == [x \in I |-> g[x] - f[x]]
  <1>1. \A x \in I : h[x] = g[x] - f[x] /\ h[x] \in Nat
    OBVIOUS
  <1> HIDE DEF h
  <1>2. SumFunctionOnSet(h, I) = SumFunctionOnSet(g, I) - SumFunctionOnSet(f, I)
    BY <1>1, SumSubtracts
  <1>3. SumFunctionOnSet(h, I) \in Nat
    BY <1>1, SumBounds
  <1>4. SumFunctionOnSet(g, I) \in Int /\ SumFunctionOnSet(f, I) \in Int
    BY SumType
  <1> QED
    BY <1>2, <1>3, <1>4

\* A new last entry adds its value.
THEOREM SumAppends ==
    ASSUME NEW n \in Nat, NEW f, NEW g, \A i \in 1..(n + 1) : g[i] \in Int,
           \A i \in 1..n : g[i] = f[i]
    PROVE  SumFunctionOnSet(g, 1..(n + 1)) = SumFunctionOnSet(f, 1..n) + g[n + 1]
  <1>1. IsFiniteSet(1..n) /\ IsFiniteSet(1..(n + 1))
    BY FS_Interval
  <1>2. n + 1 \in 1..(n + 1) /\ (1..(n + 1)) \ {n + 1} = 1..n
    OBVIOUS
  <1>3. SumFunctionOnSet(g, 1..(n + 1)) = g[n + 1] + SumFunctionOnSet(g, (1..(n + 1)) \ {n + 1})
    BY <1>1, <1>2, SumTakes
  <1>4. SumFunctionOnSet(g, 1..n) = SumFunctionOnSet(f, 1..n)
    BY <1>1, SumAgrees
  <1>5. SumFunctionOnSet(g, 1..n) \in Int /\ g[n + 1] \in Int
    BY <1>1, <1>2, SumType
  <1>6. SumFunctionOnSet(g, 1..(n + 1)) = g[n + 1] + SumFunctionOnSet(g, 1..n)
    BY <1>2, <1>3
  <1> QED
    BY <1>4, <1>5, <1>6

\* A sum of zeros, and a sum over nothing, is zero.
THEOREM SumZero ==
    ASSUME NEW I, IsFiniteSet(I), NEW f, \A x \in I : f[x] = 0
    PROVE  SumFunctionOnSet(f, I) = 0
  <1>1. \A x \in I : f[x] \in Int /\ f[x] \in Int /\ f[x] = f[x] - f[x]
    OBVIOUS
  <1>2. SumFunctionOnSet(f, I) = SumFunctionOnSet(f, I) - SumFunctionOnSet(f, I)
    BY <1>1, SumSubtracts
  <1>3. SumFunctionOnSet(f, I) \in Int
    BY <1>1, SumType
  <1> QED
    BY <1>2, <1>3

\* Terms that are zero may be left out.
THEOREM SumRestricts ==
    ASSUME NEW I, IsFiniteSet(I), NEW J \in SUBSET I, NEW f, NEW g,
           \A x \in J : f[x] \in Int /\ g[x] = f[x],
           \A x \in I \ J : g[x] = 0
    PROVE  SumFunctionOnSet(g, I) = SumFunctionOnSet(f, J)
  <1> DEFINE S(s) == SumFunctionOnSet(g, s)
             Bad == {s \in SUBSET I : J \subseteq s /\ S(s) # S(J)}
             T == {Cardinality(s) : s \in Bad}
  <1>1. \A s \in SUBSET I : IsFiniteSet(s) /\ Cardinality(s) \in Nat
    BY FS_Subset, FS_CardinalityType
  <1>2. \A x \in I : g[x] \in Int
    OBVIOUS
  <1>3. ASSUME Bad # {}
        PROVE  FALSE
    <2>1. T \in SUBSET Nat /\ T # {}
      BY <1>1, <1>3
    <2> HIDE DEF T
    <2>2. PICK n \in T : \A m \in T : n <= m
      BY <2>1, LeastNat
    <2>3. PICK s \in Bad : n = Cardinality(s)
      BY <2>2 DEF T
    <2>4. PICK a \in s : a \notin J
      BY <2>3
    <2>5. PICK r : r = s \ {a}
      OBVIOUS
    <2>6. r \in SUBSET I /\ J \subseteq r /\ Cardinality(r) = Cardinality(s) - 1
      BY <1>1, <2>4, <2>5, FS_RemoveElement
    <2>7. Cardinality(r) \notin T
      BY <1>1, <2>2, <2>3, <2>6
    <2>8. S(r) = S(J)
      BY <2>6, <2>7 DEF T
    <2>9. S(s) = g[a] + S(s \ {a})
      BY <1>1, <1>2, SumTakes
    <2>10. S(r) \in Int
      BY <1>1, <1>2, <2>6, SumType
    <2> QED
      BY <2>3, <2>4, <2>5, <2>8, <2>9, <2>10
  <1>4. S(I) = S(J)
    BY <1>3
  <1>5. SumFunctionOnSet(g, J) = SumFunctionOnSet(f, J)
    BY <1>1, SumAgrees
  <1> QED
    BY <1>4, <1>5

\* A sum of equal terms is the term times their number.
THEOREM SumConstant ==
    ASSUME NEW I, IsFiniteSet(I), NEW c \in Int, NEW f, \A x \in I : f[x] = c
    PROVE  SumFunctionOnSet(f, I) = c * Cardinality(I)
  <1> DEFINE S(s) == SumFunctionOnSet(f, s)
             Bad == {s \in SUBSET I : S(s) # c * Cardinality(s)}
             T == {Cardinality(s) : s \in Bad}
  <1> SUFFICES ASSUME Bad # {}
               PROVE  FALSE
    OBVIOUS
  <1>1. \A s \in SUBSET I : IsFiniteSet(s) /\ Cardinality(s) \in Nat
    BY FS_Subset, FS_CardinalityType
  <1>2. T \in SUBSET Nat /\ T # {}
    BY <1>1
  <1> HIDE DEF T
  <1>3. PICK n \in T : \A m \in T : n <= m
    BY <1>2, LeastNat
  <1>4. PICK s \in Bad : n = Cardinality(s)
    BY <1>3 DEF T
  <1>5. s # {}
    <2>1. S({}) = 0
      BY SumUnfolds
    <2>2. Cardinality({}) = 0
      BY FS_EmptySet
    <2>3. c * Cardinality({}) = 0
      BY <2>2
    <2>4. {} \notin Bad
      BY <2>1, <2>3
    <2> QED
      BY <1>4, <2>4, Zenon
  <1>6. Pick(s) \in s
    BY <1>5 DEF Pick
  <1>7. PICK r : r = s \ {Pick(s)}
    OBVIOUS
  <1>8. r \in SUBSET I /\ Cardinality(r) = Cardinality(s) - 1
    BY <1>1, <1>6, <1>7, FS_RemoveElement
  <1>9. Cardinality(r) \notin T
    BY <1>1, <1>3, <1>4, <1>8
  <1>10. S(r) = c * Cardinality(r)
    BY <1>8, <1>9 DEF T
  <1>11. S(s) = f[Pick(s)] + S(r) /\ f[Pick(s)] = c
    BY <1>1, <1>5, <1>6, <1>7, SumUnfolds
  <1>12. PICK q \in Nat : q = Cardinality(s)
    BY <1>1
  <1>13. S(s) = c + c * (q - 1)
    BY <1>8, <1>10, <1>11, <1>12
  <1>14. c + c * (q - 1) = c * q
    BY <1>12
  <1>15. S(s) # c * q
    BY <1>12
  <1> QED
    BY <1>13, <1>14, <1>15

\* A factor common to all terms can be taken out of the sum.
THEOREM SumScales ==
    ASSUME NEW I, IsFiniteSet(I), NEW c \in Int, NEW f, NEW g,
           \A x \in I : f[x] \in Int /\ g[x] = c * f[x]
    PROVE  SumFunctionOnSet(g, I) = c * SumFunctionOnSet(f, I)
  <1> DEFINE S(s) == SumFunctionOnSet(f, s)
             G(s) == SumFunctionOnSet(g, s)
             Bad == {s \in SUBSET I : G(s) # c * S(s)}
             T == {Cardinality(s) : s \in Bad}
  <1> SUFFICES ASSUME Bad # {}
               PROVE  FALSE
    OBVIOUS
  <1>1. \A s \in SUBSET I : IsFiniteSet(s) /\ Cardinality(s) \in Nat
    BY FS_Subset, FS_CardinalityType
  <1>2. T \in SUBSET Nat /\ T # {}
    BY <1>1
  <1> HIDE DEF T
  <1>3. PICK n \in T : \A m \in T : n <= m
    BY <1>2, LeastNat
  <1>4. PICK s \in Bad : n = Cardinality(s)
    BY <1>3 DEF T
  <1>5. s # {}
    <2>1. S({}) = 0 /\ G({}) = 0
      BY SumUnfolds
    <2>2. c * S({}) = 0
      BY <2>1
    <2>3. {} \notin Bad
      BY <2>1, <2>2
    <2> QED
      BY <1>4, <2>3, Zenon
  <1>6. Pick(s) \in s
    BY <1>5 DEF Pick
  <1>7. PICK r : r = s \ {Pick(s)}
    OBVIOUS
  <1>8. r \in SUBSET I /\ Cardinality(r) = Cardinality(s) - 1
    BY <1>1, <1>6, <1>7, FS_RemoveElement
  <1>9. Cardinality(r) \notin T
    BY <1>1, <1>3, <1>4, <1>8
  <1>10. G(r) = c * S(r)
    BY <1>8, <1>9 DEF T
  <1>11. \A x \in I : g[x] \in Int
    OBVIOUS
  <1>12. S(s) = f[Pick(s)] + S(r) /\ G(s) = g[Pick(s)] + G(r)
    BY <1>1, <1>5, <1>6, <1>7, <1>11, SumUnfolds
  <1>13. PICK a \in Int : a = f[Pick(s)] /\ g[Pick(s)] = c * a
    BY <1>6
  <1>14. PICK b \in Int : b = S(r)
    BY <1>1, <1>8, SumType
  <1>15. G(s) = c * a + c * b /\ S(s) = a + b
    BY <1>10, <1>12, <1>13, <1>14
  <1>16. c * a + c * b = c * (a + b)
    BY <1>13, <1>14
  <1>17. G(s) # c * (a + b)
    BY <1>15
  <1> QED
    BY <1>15, <1>16, <1>17

============================================================================
