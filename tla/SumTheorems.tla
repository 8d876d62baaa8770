---------------------------- MODULE SumTheorems ----------------------------
(***************************************************************************)
(* Sums over finite sets, as the ledger of the agents and the reputation   *)
(* of a user have them: SumFunctionOnSet(f, S), the fold of module         *)
(* Functions, adds f[x] for all x in S.  The induction is a counterexample *)
(* of the smallest size.                                                   *)
(***************************************************************************)
EXTENDS Integers, FiniteSets, Functions, FiniteSetTheorems, WellFoundedInduction, TLAPS

----------------------------------------------------------------------------
(* Induction.                                                              *)

\* There is a smallest number in a set of numbers.
LEMMA SmallestNumber ==
  ASSUME NEW N \in SUBSET Nat, N # {}
  PROVE  \E m \in N : \A n \in N : m <= n
<1>. DEFINE Less == OpToRel(<, Nat)
<1>1. PICK m \in N : \A n \in N : <<n, m>> \notin Less
  BY NatLessThanWellFounded, WFMin
<1>2. ASSUME NEW n \in N PROVE m <= n
  <2>1. ~ n < m BY <1>1 DEF OpToRel
  <2>. QED BY <2>1
<1>. QED BY <1>2

\* There is a smallest set among finite sets: without any of its elements, it is
\* not one of them.
LEMMA SmallestSet ==
  ASSUME NEW F, F # {}, \A S \in F : IsFiniteSet(S)
  PROVE  \E S \in F : \A x \in S : S \ {x} \notin F
<1>. DEFINE Sizes == {Cardinality(S) : S \in F}
<1>1. Sizes \in SUBSET Nat /\ Sizes # {} BY FS_CardinalityType
<1>2. PICK m \in Sizes : \A n \in Sizes : m <= n BY <1>1, SmallestNumber
<1>3. PICK S \in F : m = Cardinality(S) OBVIOUS
<1>. HIDE DEF Sizes
<1>4. ASSUME NEW x \in S, S \ {x} \in F PROVE FALSE
  <2>1. Cardinality(S \ {x}) = m - 1 BY <1>3, FS_RemoveElement
  <2>2. m \in Nat /\ m - 1 \in Sizes BY <1>1, <1>4, <2>1 DEF Sizes
  <2>. QED BY <1>1, <1>2, <2>2
<1>. QED BY <1>4

----------------------------------------------------------------------------
(* The fold is well-defined.                                               *)

\* What a fold of f does with each subset of S, given what it does with others.
Folded(f, S, iter) ==
  [s \in SUBSET S |-> IF s = {} THEN 0
                      ELSE LET x == CHOOSE x \in s : TRUE IN f[x] + iter[s \ {x}]]

\* There is such a fold.
LEMMA FoldExists ==
  ASSUME NEW f, NEW S, IsFiniteSet(S)
  PROVE  \E iter : iter = Folded(f, S, iter)
<1>. DEFINE Upto(n) == {s \in SUBSET S : Cardinality(s) <= n}
            Short(n, iter) ==
              [s \in Upto(n) |-> IF s = {} THEN 0
                 ELSE LET x == CHOOSE x \in s : TRUE IN f[x] + iter[s \ {x}]]
            Bad == {n \in Nat : ~ \E iter : iter = Short(n, iter)}
<1>0. \A s \in SUBSET S : IsFiniteSet(s) /\ Cardinality(s) \in Nat
  BY FS_Subset, FS_CardinalityType
<1>1. 0 \notin Bad
  <2>. DEFINE g == [s \in Upto(0) |-> 0]
  <2>1. \A s \in Upto(0) : s = {}
    <3>1. ASSUME NEW s \in Upto(0) PROVE s = {}
      <4>1. IsFiniteSet(s) /\ Cardinality(s) = 0 BY <1>0
      <4>. QED BY <4>1, FS_EmptySet
    <3>. QED BY <3>1
  <2>2. g = Short(0, g) BY <2>1
  <2>. QED BY <2>2
<1>2. ASSUME NEW n \in Nat, n \notin Bad PROVE n + 1 \notin Bad
  <2>1. PICK g : g = Short(n, g) BY <1>2
  <2>. DEFINE h == Short(n + 1, g)
  <2>2. ASSUME NEW s \in Upto(n + 1), s # {}, NEW x \in s PROVE h[s \ {x}] = g[s \ {x}]
    <3>. DEFINE t == s \ {x}
    <3>1. Cardinality(t) = Cardinality(s) - 1 BY <1>0, FS_RemoveElement
    <3>2. t \in Upto(n) BY <1>0, <3>1
    <3>3. t \in Upto(n + 1) BY <1>0, <3>2
    <3>4. h[t] = IF t = {} THEN 0
                 ELSE LET y == CHOOSE y \in t : TRUE IN f[y] + g[t \ {y}]
      BY <3>3
    <3>5. Short(n, g)[t] = IF t = {} THEN 0
                 ELSE LET y == CHOOSE y \in t : TRUE IN f[y] + g[t \ {y}]
      BY <3>2
    <3>. QED BY <2>1, <3>4, <3>5
  <2>3. h = Short(n + 1, h)
    <3>1. ASSUME NEW s \in Upto(n + 1) PROVE Short(n + 1, h)[s] = h[s]
      <4>1. CASE s = {} BY <4>1
      <4>2. CASE s # {}
        <5>. DEFINE x == CHOOSE x \in s : TRUE
        <5>1. x \in s BY <4>2
        <5>2. h[s \ {x}] = g[s \ {x}] BY <2>2, <4>2, <5>1
        <5>3. Short(n + 1, h)[s] = f[x] + h[s \ {x}] BY <4>2
        <5>4. h[s] = f[x] + g[s \ {x}] BY <4>2
        <5>. QED BY <5>2, <5>3, <5>4
      <4>. QED BY <4>1, <4>2
    <3>. HIDE DEF Upto
    <3>. QED BY <3>1
  <2>. QED BY <2>3
<1>3. Bad = {}
  <2>1. SUFFICES ASSUME Bad # {} PROVE FALSE OBVIOUS
  <2>2. PICK m \in Bad : \A n \in Bad : m <= n BY <2>1, SmallestNumber
  <2>3. m \in Nat OBVIOUS
  <2>. HIDE DEF Bad
  <2>4. m # 0 BY <1>1, <2>2
  <2>5. m - 1 \in Nat /\ m - 1 \notin Bad /\ (m - 1) + 1 = m BY <2>2, <2>3, <2>4
  <2>. QED BY <1>2, <2>2, <2>5
<1>4. Cardinality(S) \in Nat BY FS_CardinalityType
<1>5. PICK iter : iter = Short(Cardinality(S), iter) BY <1>3, <1>4
<1>6. Upto(Cardinality(S)) = SUBSET S
  BY FS_Subset
<1>. QED BY <1>5, <1>6 DEF Folded

\* The sum is that of such a fold.
LEMMA SumIsFold ==
  ASSUME NEW f, NEW S, IsFiniteSet(S)
  PROVE  \E iter : iter = Folded(f, S, iter) /\ SumFunctionOnSet(f, S) = iter[S]
<1>. DEFINE sum == CHOOSE iter : iter = Folded(f, S, iter)
<1>1. sum = Folded(f, S, sum) BY FoldExists
<1>2. SumFunctionOnSet(f, S) = sum[S]
  BY DEF SumFunctionOnSet, FoldFunctionOnSet, MapThenFoldSet, Folded
<1>. QED BY <1>1, <1>2

\* Two folds agree where what they add does.
LEMMA FoldsAgree ==
  ASSUME NEW f, NEW g, NEW S, NEW T, NEW i, NEW j, i = Folded(f, S, i), j = Folded(g, T, j),
         NEW U, IsFiniteSet(U), U \subseteq S \cap T, \A x \in U : f[x] = g[x]
  PROVE  i[U] = j[U]
<1>. DEFINE Bad == {s \in SUBSET U : i[s] # j[s]}
<1>1. SUFFICES ASSUME Bad # {} PROVE FALSE OBVIOUS
<1>2. PICK s \in Bad : \A x \in s : s \ {x} \notin Bad
  <2>1. \A s \in Bad : IsFiniteSet(s) BY FS_Subset
  <2>. HIDE DEF Bad
  <2>. QED BY <1>1, <2>1, SmallestSet
<1>. DEFINE x == CHOOSE x \in s : TRUE
<1>3. i[s] = IF s = {} THEN 0 ELSE f[x] + i[s \ {x}]
  <2>1. s \in SUBSET S OBVIOUS
  <2>2. Folded(f, S, i)[s] = IF s = {} THEN 0 ELSE f[x] + i[s \ {x}] BY <2>1 DEF Folded
  <2>. QED BY <2>2
<1>4. j[s] = IF s = {} THEN 0 ELSE g[x] + j[s \ {x}]
  <2>1. s \in SUBSET T OBVIOUS
  <2>2. Folded(g, T, j)[s] = IF s = {} THEN 0 ELSE g[x] + j[s \ {x}] BY <2>1 DEF Folded
  <2>. QED BY <2>2
<1>5. CASE s = {} BY <1>3, <1>4, <1>5
<1>6. CASE s # {}
  <2>1. x \in s /\ f[x] = g[x] BY <1>6
  <2>2. i[s \ {x}] = j[s \ {x}] BY <1>2, <2>1
  <2>. QED BY <1>3, <1>4, <1>6, <2>1, <2>2
<1>. QED BY <1>5, <1>6

\* A sum depends on what it adds only.
LEMMA SumSame ==
  ASSUME NEW f, NEW g, NEW S, IsFiniteSet(S), \A x \in S : f[x] = g[x]
  PROVE  SumFunctionOnSet(f, S) = SumFunctionOnSet(g, S)
<1>1. PICK i : i = Folded(f, S, i) /\ SumFunctionOnSet(f, S) = i[S] BY SumIsFold
<1>2. PICK j : j = Folded(g, S, j) /\ SumFunctionOnSet(g, S) = j[S] BY SumIsFold
<1>. QED BY <1>1, <1>2, FoldsAgree

----------------------------------------------------------------------------
(* Sums, element by element.                                               *)

\* Nothing adds up to zero.
LEMMA SumEmpty ==
  ASSUME NEW f
  PROVE  SumFunctionOnSet(f, {}) = 0
<1>1. PICK i : i = Folded(f, {}, i) /\ SumFunctionOnSet(f, {}) = i[{}]
  BY SumIsFold, FS_EmptySet
<1>2. Folded(f, {}, i)[{}] = 0 BY DEF Folded
<1>. QED BY <1>1, <1>2

\* The element that the fold takes first.
LEMMA SumFirst ==
  ASSUME NEW f, NEW S, IsFiniteSet(S), S # {}
  PROVE  \E x \in S : SumFunctionOnSet(f, S) = f[x] + SumFunctionOnSet(f, S \ {x})
<1>. DEFINE x == CHOOSE x \in S : TRUE
<1>1. x \in S OBVIOUS
<1>2. IsFiniteSet(S \ {x}) BY FS_RemoveElement
<1>3. PICK i : i = Folded(f, S, i) /\ SumFunctionOnSet(f, S) = i[S] BY SumIsFold
<1>4. PICK j : j = Folded(f, S \ {x}, j) /\ SumFunctionOnSet(f, S \ {x}) = j[S \ {x}]
  BY <1>2, SumIsFold
<1>5. i[S \ {x}] = j[S \ {x}]
  <2>1. S \ {x} \subseteq S \cap (S \ {x}) OBVIOUS
  <2>. HIDE DEF x
  <2>. QED BY <1>2, <1>3, <1>4, <2>1, FoldsAgree
<1>6. i[S] = f[x] + i[S \ {x}]
  <2>1. Folded(f, S, i)[S] = f[x] + i[S \ {x}] BY DEF Folded
  <2>. QED BY <1>3, <2>1
<1>. QED BY <1>1, <1>3, <1>4, <1>5, <1>6

\* A sum of integers is an integer.
LEMMA SumType ==
  ASSUME NEW f, NEW S, IsFiniteSet(S), \A x \in S : f[x] \in Int
  PROVE  SumFunctionOnSet(f, S) \in Int
<1>. DEFINE Bad == {s \in SUBSET S : SumFunctionOnSet(f, s) \notin Int}
<1>1. SUFFICES ASSUME Bad # {} PROVE FALSE OBVIOUS
<1>2. \A s \in Bad : IsFiniteSet(s) BY FS_Subset
<1>3. PICK s \in Bad : \A x \in s : s \ {x} \notin Bad
  <2>. HIDE DEF Bad
  <2>. QED BY <1>1, <1>2, SmallestSet
<1>4. s # {} BY SumEmpty
<1>5. PICK x \in s : SumFunctionOnSet(f, s) = f[x] + SumFunctionOnSet(f, s \ {x})
  BY <1>2, <1>4, SumFirst
<1>6. SumFunctionOnSet(f, s \ {x}) \in Int BY <1>3
<1>. QED BY <1>5, <1>6

\* Any element may be taken out of a sum.
LEMMA SumRemove ==
  ASSUME NEW f, NEW S, IsFiniteSet(S), \A x \in S : f[x] \in Int, NEW x \in S
  PROVE  SumFunctionOnSet(f, S) = f[x] + SumFunctionOnSet(f, S \ {x})
<1>. DEFINE Sum(s) == SumFunctionOnSet(f, s)
            Bad == {s \in SUBSET S : \E y \in s : Sum(s) # f[y] + Sum(s \ {y})}
<1>1. SUFFICES ASSUME Bad # {} PROVE FALSE OBVIOUS
<1>2. \A s \in SUBSET S : IsFiniteSet(s) /\ Sum(s) \in Int
  <2>1. ASSUME NEW s \in SUBSET S PROVE IsFiniteSet(s) /\ Sum(s) \in Int
    BY FS_Subset, SumType
  <2>. QED BY <2>1
<1>3. PICK s \in Bad : \A y \in s : s \ {y} \notin Bad
  <2>1. \A s \in Bad : IsFiniteSet(s) BY <1>2
  <2>. HIDE DEF Bad
  <2>. QED BY <1>1, <2>1, SmallestSet
<1>4. PICK y \in s : Sum(s) # f[y] + Sum(s \ {y}) OBVIOUS
<1>5. PICK z \in s : Sum(s) = f[z] + Sum(s \ {z}) BY <1>2, SumFirst
<1>6. y # z BY <1>4, <1>5
<1>7. Sum(s \ {z}) = f[y] + Sum((s \ {z}) \ {y}) BY <1>3, <1>6
<1>8. Sum(s \ {y}) = f[z] + Sum((s \ {y}) \ {z}) BY <1>3, <1>6
<1>9. Sum((s \ {z}) \ {y}) = Sum((s \ {y}) \ {z})
  <2>1. (s \ {z}) \ {y} = (s \ {y}) \ {z} OBVIOUS
  <2>. QED BY <2>1
<1>10. Sum((s \ {y}) \ {z}) \in Int /\ f[y] \in Int /\ f[z] \in Int BY <1>2
<1>. HIDE DEF Sum, Bad
<1>. QED BY <1>4, <1>5, <1>7, <1>8, <1>9, <1>10

\* What a new element adds.
LEMMA SumAdd ==
  ASSUME NEW f, NEW S, IsFiniteSet(S), NEW x, x \notin S, \A y \in S \cup {x} : f[y] \in Int
  PROVE  SumFunctionOnSet(f, S \cup {x}) = SumFunctionOnSet(f, S) + f[x]
<1>1. IsFiniteSet(S \cup {x}) BY FS_AddElement
<1>2. (S \cup {x}) \ {x} = S OBVIOUS
<1>3. SumFunctionOnSet(f, S) \in Int /\ f[x] \in Int BY SumType
<1>4. SumFunctionOnSet(f, S \cup {x}) = f[x] + SumFunctionOnSet(f, (S \cup {x}) \ {x})
  BY <1>1, SumRemove
<1>5. SumFunctionOnSet(f, S \cup {x}) = f[x] + SumFunctionOnSet(f, S)
  BY <1>2, <1>4
<1>. QED BY <1>3, <1>5

\* Disjoint sets add up.
LEMMA SumUnion ==
  ASSUME NEW f, NEW S, NEW T, IsFiniteSet(S), IsFiniteSet(T), S \cap T = {},
         \A x \in S \cup T : f[x] \in Int
  PROVE  SumFunctionOnSet(f, S \cup T) = SumFunctionOnSet(f, S) + SumFunctionOnSet(f, T)
<1>. DEFINE Sum(s) == SumFunctionOnSet(f, s)
            Bad == {s \in SUBSET T : Sum(S \cup s) # Sum(S) + Sum(s)}
<1>1. SUFFICES ASSUME Bad # {} PROVE FALSE OBVIOUS
<1>2. \A s \in SUBSET T : IsFiniteSet(s) /\ Sum(s) \in Int
  <2>1. ASSUME NEW s \in SUBSET T PROVE IsFiniteSet(s) /\ Sum(s) \in Int
    BY FS_Subset, SumType
  <2>. QED BY <2>1
<1>3. PICK s \in Bad : \A y \in s : s \ {y} \notin Bad
  <2>1. \A s \in Bad : IsFiniteSet(s) BY <1>2
  <2>. HIDE DEF Bad
  <2>. QED BY <1>1, <2>1, SmallestSet
<1>4. Sum(S) \in Int BY SumType
<1>5. s # {}
  <2>1. S \cup {} = S OBVIOUS
  <2>2. Sum({}) = 0 BY SumEmpty
  <2>3. Sum(S \cup {}) = Sum(S) + Sum({}) BY <1>4, <2>1, <2>2
  <2>. QED BY <2>3
<1>6. PICK y \in s : TRUE BY <1>5
<1>. DEFINE t == s \ {y}
<1>7. t \in SUBSET T /\ Sum(S \cup t) = Sum(S) + Sum(t) BY <1>3
<1>8. Sum(s) = f[y] + Sum(t) BY <1>2, SumRemove
<1>9. Sum(S \cup s) = f[y] + Sum(S \cup t)
  <2>1. IsFiniteSet(S \cup s) BY <1>2, FS_Union
  <2>2. \A x \in S \cup s : f[x] \in Int OBVIOUS
  <2>3. (S \cup s) \ {y} = S \cup t OBVIOUS
  <2>. HIDE DEF t
  <2>4. Sum(S \cup s) = f[y] + Sum((S \cup s) \ {y}) BY <2>1, <2>2, SumRemove
  <2>. QED BY <2>3, <2>4
<1>10. Sum(t) \in Int /\ f[y] \in Int BY <1>2, <1>7
<1>11. Sum(S \cup s) # Sum(S) + Sum(s) OBVIOUS
<1>. HIDE DEF Sum, Bad, t
<1>. QED BY <1>4, <1>7, <1>8, <1>9, <1>10, <1>11

\* A sum of natural numbers is one.
LEMMA SumNat ==
  ASSUME NEW f, NEW S, IsFiniteSet(S), \A x \in S : f[x] \in Nat
  PROVE  SumFunctionOnSet(f, S) \in Nat
<1>. DEFINE Bad == {s \in SUBSET S : SumFunctionOnSet(f, s) \notin Nat}
<1>1. SUFFICES ASSUME Bad # {} PROVE FALSE OBVIOUS
<1>2. \A s \in Bad : IsFiniteSet(s) BY FS_Subset
<1>3. PICK s \in Bad : \A x \in s : s \ {x} \notin Bad
  <2>. HIDE DEF Bad
  <2>. QED BY <1>1, <1>2, SmallestSet
<1>4. s # {} BY SumEmpty
<1>5. PICK x \in s : SumFunctionOnSet(f, s) = f[x] + SumFunctionOnSet(f, s \ {x})
  BY <1>2, <1>4, SumFirst
<1>6. SumFunctionOnSet(f, s \ {x}) \in Nat BY <1>3
<1>. QED BY <1>5, <1>6

\* A sum depends on what is added, not on what it is added for.
LEMMA SumRenamed ==
  ASSUME NEW f, NEW g, NEW h, NEW S, IsFiniteSet(S),
         \A x \in S : f[x] \in Int /\ g[h[x]] = f[x],
         \A x, y \in S : h[x] = h[y] => x = y
  PROVE  SumFunctionOnSet(g, {h[x] : x \in S}) = SumFunctionOnSet(f, S)
<1>. DEFINE Image(s) == {h[x] : x \in s}
            Bad == {s \in SUBSET S : SumFunctionOnSet(g, Image(s)) # SumFunctionOnSet(f, s)}
<1>1. SUFFICES ASSUME Bad # {} PROVE FALSE OBVIOUS
<1>2. \A s \in SUBSET S : IsFiniteSet(s) BY FS_Subset
<1>3. PICK s \in Bad : \A x \in s : s \ {x} \notin Bad
  <2>1. \A s \in Bad : IsFiniteSet(s) BY <1>2
  <2>. HIDE DEF Bad
  <2>. QED BY <1>1, <2>1, SmallestSet
<1>4. s # {}
  <2>1. Image({}) = {} OBVIOUS
  <2>2. SumFunctionOnSet(g, {}) = 0 /\ SumFunctionOnSet(f, {}) = 0 BY SumEmpty
  <2>. QED BY <2>1, <2>2
<1>5. PICK x \in s : TRUE BY <1>4
<1>. DEFINE t == s \ {x}
<1>6. t \in SUBSET S /\ SumFunctionOnSet(g, Image(t)) = SumFunctionOnSet(f, t) BY <1>3
<1>7. SumFunctionOnSet(f, s) = f[x] + SumFunctionOnSet(f, t)
  BY <1>2, SumRemove
<1>8. SumFunctionOnSet(f, t) \in Int
  <2>1. IsFiniteSet(t) /\ \A y \in t : f[y] \in Int BY <1>2, <1>6
  <2>. HIDE DEF t
  <2>. QED BY <2>1, SumType
<1>9. SumFunctionOnSet(g, Image(s)) = SumFunctionOnSet(g, Image(t)) + g[h[x]]
  <2>1. Image(s) = Image(t) \cup {h[x]} /\ h[x] \notin Image(t) OBVIOUS
  <2>2. IsFiniteSet(Image(t))
    <3>1. [y \in t |-> h[y]] \in Surjection(t, Image(t)) BY DEF Surjection
    <3>2. IsFiniteSet(t) BY <1>2, <1>6
    <3>. HIDE DEF Image, t
    <3>. QED BY <3>1, <3>2, FS_Surjection
  <2>3. \A y \in Image(t) \cup {h[x]} : g[y] \in Int OBVIOUS
  <2>. HIDE DEF Image, t
  <2>. QED BY <2>1, <2>2, <2>3, SumAdd
<1>10. SumFunctionOnSet(g, Image(s)) # SumFunctionOnSet(f, s) OBVIOUS
<1>11. g[h[x]] = f[x] /\ f[x] \in Int OBVIOUS
<1>. HIDE DEF Image, Bad, t
<1>. QED BY <1>6, <1>7, <1>8, <1>9, <1>10, <1>11

=============================================================================
