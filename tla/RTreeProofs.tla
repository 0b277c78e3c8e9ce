----------------------------- MODULE RTreeProofs -----------------------------
(***************************************************************************)
(* Theorems about the R-tree, for any items and batches, any fanout and    *)
(* any threshold.  The argument: a tree that is being worked on is as good *)
(* as one that is not, but for the nodes Tops, Big and Stale name, and     *)
(* each step moves these exceptions on (Good, HeapInv and IInv, below).    *)
(* A search has given what meets its query, less what is under the nodes   *)
(* it has yet to visit and under those it turned away from (SearchInv).    *)
(***************************************************************************)
EXTENDS RTree, FiniteSetTheorems, FunctionTheorems, WellFoundedInduction, TLAPS

-----------------------------------------------------------------------------
(***************************************************************************)
(* Orders.                                                                 *)
(***************************************************************************)
\* R is a total order of D: <<y, x>> for y before x or the same.
TotalOrder(D, R) ==
  /\ \A x \in D : <<x, x>> \in R
  /\ \A x, y \in D : <<x, y>> \in R \/ <<y, x>> \in R
  /\ \A x, y \in D : <<x, y>> \in R /\ <<y, x>> \in R => x = y
  /\ \A x, y, z \in D : <<x, y>> \in R /\ <<y, z>> \in R => <<x, z>> \in R

UpTo(D, R, x) == {y \in D : <<y, x>> \in R}

Numbered(D, R) ==
  /\ \A x \in D : Cardinality(UpTo(D, R, x)) \in 1..Cardinality(D)
  /\ \A x, y \in D : Cardinality(UpTo(D, R, x)) = Cardinality(UpTo(D, R, y)) => x = y
  /\ \A r \in 1..Cardinality(D) : \E x \in D : Cardinality(UpTo(D, R, x)) = r

\* Counting those not after it gives each member a place of its own, and
\* every place is taken.
LEMMA PlacesAreTaken ==
  ASSUME NEW D, IsFiniteSet(D), NEW R, TotalOrder(D, R)
  PROVE  Numbered(D, R)
<1> DEFINE rank == [x \in D |-> Cardinality(UpTo(D, R, x))]
<1>1. ASSUME NEW x \in D
      PROVE  /\ IsFiniteSet(UpTo(D, R, x)) /\ UpTo(D, R, x) \in SUBSET D /\ x \in UpTo(D, R, x)
             /\ Cardinality(UpTo(D, R, x)) \in 1..Cardinality(D)
  <2>1. UpTo(D, R, x) \in SUBSET D /\ x \in UpTo(D, R, x)
    BY DEF UpTo, TotalOrder
  <2>2. IsFiniteSet(UpTo(D, R, x)) /\ Cardinality(UpTo(D, R, x)) <= Cardinality(D)
    BY <2>1, FS_Subset
  <2>3. Cardinality(UpTo(D, R, x)) \in Nat /\ Cardinality(UpTo(D, R, x)) # 0 /\ Cardinality(D) \in Nat
    BY <2>1, <2>2, FS_CardinalityType, FS_EmptySet
  <2> QED
    BY <2>1, <2>2, <2>3
<1>2. ASSUME NEW x \in D, NEW y \in D, <<x, y>> \in R, rank[x] = rank[y]
      PROVE  x = y
  <2>1. UpTo(D, R, x) \in SUBSET UpTo(D, R, y)
    BY <1>2 DEF UpTo, TotalOrder
  <2>2. UpTo(D, R, x) = UpTo(D, R, y)
    BY <1>1, <1>2, <2>1, FS_Subset
  <2>3. <<y, x>> \in R
    BY <1>1, <2>2 DEF UpTo
  <2> QED
    BY <1>2, <2>3 DEF TotalOrder
<1>3. \A x, y \in D : rank[x] = rank[y] => x = y
  BY <1>2 DEF TotalOrder
<1>4. rank \in [D -> 1..Cardinality(D)]
  BY <1>1
<1>5. rank \in Injection(D, 1..Cardinality(D))
  BY <1>3, <1>4, Fun_IsInj
<1>6. IsFiniteSet(1..Cardinality(D)) /\ Cardinality(1..Cardinality(D)) = Cardinality(D)
  <2>1. Cardinality(D) \in Nat
    BY FS_CardinalityType
  <2> QED
    BY <2>1, FS_Interval
<1>7. rank \in Surjection(D, 1..Cardinality(D))
  BY <1>5, <1>6, FS_Injection
<1>8. \A r \in 1..Cardinality(D) : \E x \in D : rank[x] = r
  <2> HIDE DEF rank
  <2> QED
    BY <1>7, Zenon DEF Surjection
<1>9. \A x \in D : rank[x] = Cardinality(UpTo(D, R, x))
  OBVIOUS
<1> HIDE DEF rank
<1>10. \A r \in 1..Cardinality(D) : \E x \in D : Cardinality(UpTo(D, R, x)) = r
  BY <1>8, <1>9
<1>11. \A x, y \in D : Cardinality(UpTo(D, R, x)) = Cardinality(UpTo(D, R, y)) => x = y
  BY <1>3, <1>9
<1> QED
  BY <1>1, <1>10, <1>11 DEF Numbered

\* There is a first member.
LEMMA FirstIsThere ==
  ASSUME NEW D, IsFiniteSet(D), D # {}, NEW R, TotalOrder(D, R)
  PROVE  \E x \in D : \A y \in D : <<x, y>> \in R
<1>1. Cardinality(D) \in Nat /\ Cardinality(D) # 0
  BY FS_CardinalityType, FS_EmptySet
<1>2. PICK x \in D : Cardinality(UpTo(D, R, x)) = 1
  BY <1>1, PlacesAreTaken DEF Numbered
<1>3. UpTo(D, R, x) \in SUBSET D /\ x \in UpTo(D, R, x)
  BY DEF UpTo, TotalOrder
<1>4. UpTo(D, R, x) = {x}
  <2>1. IsFiniteSet(UpTo(D, R, x))
    BY <1>3, FS_Subset
  <2>2. PICK z : UpTo(D, R, x) = {z}
    BY <1>2, <2>1, FS_Singleton
  <2> QED
    BY <1>3, <2>2
<1>5. \A y \in D : <<x, y>> \in R
  BY <1>4 DEF UpTo, TotalOrder
<1> QED
  BY <1>5

\* A finite set of numbers has a least and a greatest one.
LEMMA MinAndMax ==
  ASSUME NEW S \in SUBSET Int, IsFiniteSet(S), S # {}
  PROVE  /\ Min(S) \in S /\ \A x \in S : Min(S) <= x
         /\ Max(S) \in S /\ \A x \in S : Max(S) >= x
<1> DEFINE R == {p \in S \X S : p[1] <= p[2]}
           Q == {p \in S \X S : p[1] >= p[2]}
<1>1. \A x, y \in S : (<<x, y>> \in R <=> x <= y) /\ (<<x, y>> \in Q <=> x >= y)
  OBVIOUS
<1> HIDE DEF R, Q
<1>2. TotalOrder(S, R) /\ TotalOrder(S, Q)
  BY <1>1 DEF TotalOrder
<1>3. (\E x \in S : \A y \in S : x <= y) /\ (\E x \in S : \A y \in S : x >= y)
  BY <1>1, <1>2, FirstIsThere
<1> QED
  BY <1>3 DEF Min, Max

\* The members of a finite set of numbers, each once.
LEMMA AscendingIs ==
  ASSUME NEW S \in SUBSET Int, IsFiniteSet(S)
  PROVE  /\ Ascending(S) \in Seq(S) /\ Len(Ascending(S)) = Cardinality(S)
         /\ IsInjective(Ascending(S)) /\ ToSet(Ascending(S)) = S
<1> DEFINE R == {p \in S \X S : p[1] <= p[2]}
           below(a) == {b \in S : b <= a}
<1>1. \A x, y \in S : <<x, y>> \in R <=> x <= y
  OBVIOUS
<1>2. \A x \in S : UpTo(S, R, x) = below(x)
  BY <1>1 DEF UpTo
<1> HIDE DEF R
<1>3. TotalOrder(S, R)
  BY <1>1 DEF TotalOrder
<1>4. /\ \A x \in S : Cardinality(below(x)) \in 1..Cardinality(S)
      /\ \A x, y \in S : Cardinality(below(x)) = Cardinality(below(y)) => x = y
      /\ \A r \in 1..Cardinality(S) : \E x \in S : Cardinality(below(x)) = r
  <2> HIDE DEF below
  <2>1. /\ \A x \in S : Cardinality(UpTo(S, R, x)) \in 1..Cardinality(S)
        /\ \A x, y \in S : Cardinality(UpTo(S, R, x)) = Cardinality(UpTo(S, R, y)) => x = y
        /\ \A r \in 1..Cardinality(S) : \E x \in S : Cardinality(UpTo(S, R, x)) = r
    <3>1. Numbered(S, R)
      BY <1>3, PlacesAreTaken
    <3> QED
      BY <3>1 DEF Numbered
  <2>2. \A x, y \in S : Cardinality(below(x)) = Cardinality(below(y)) => x = y
    BY <1>2, <2>1
  <2>3. ASSUME NEW r \in 1..Cardinality(S) PROVE \E x \in S : Cardinality(below(x)) = r
    BY <1>2, <2>1
  <2> QED
    BY <1>2, <2>1, <2>2, <2>3
<1> DEFINE t == Ascending(S)
<1>5. t = [r \in 1..Cardinality(S) |-> CHOOSE a \in S : Cardinality(below(a)) = r]
  BY DEF Ascending
<1> HIDE DEF t, below
<1>6. \A r \in 1..Cardinality(S) : t[r] \in S /\ Cardinality(below(t[r])) = r
  BY <1>4, <1>5
<1>7. Cardinality(S) \in Nat
  BY FS_CardinalityType
<1>8. t \in Seq(S) /\ Len(t) = Cardinality(S) /\ DOMAIN t = 1..Cardinality(S)
  BY <1>5, <1>6, <1>7
<1>9. IsInjective(t)
  BY <1>6, <1>8 DEF IsInjective
<1>10. \A x \in S : \E r \in DOMAIN t : t[r] = x
  <2> SUFFICES ASSUME NEW x \in S PROVE \E r \in DOMAIN t : t[r] = x
    OBVIOUS
  <2>1. Cardinality(below(x)) \in 1..Cardinality(S)
    BY <1>4
  <2>2. t[Cardinality(below(x))] \in S /\ Cardinality(below(t[Cardinality(below(x))])) = Cardinality(below(x))
    BY <1>6, <2>1
  <2>3. t[Cardinality(below(x))] = x
    BY <1>4, <2>2
  <2> QED
    BY <1>8, <2>1, <2>3
<1>11. ToSet(t) = S
  BY <1>6, <1>8, <1>10 DEF ToSet
<1> QED
  BY <1>8, <1>9, <1>11 DEF t

-----------------------------------------------------------------------------
(***************************************************************************)
(* Sorting.                                                                *)
(***************************************************************************)
\* Cheaper is a strict order of the keys of a length.
LEMMA CheaperIsOrder ==
  ASSUME NEW k \in Nat, NEW a \in [1..k -> Int], NEW b \in [1..k -> Int], NEW c \in [1..k -> Int]
  PROVE  /\ ~Cheaper(a, a)
         /\ a # b => Cheaper(a, b) \/ Cheaper(b, a)
         /\ ~(Cheaper(a, b) /\ Cheaper(b, a))
         /\ Cheaper(a, b) /\ Cheaper(b, c) => Cheaper(a, c)
<1>1. ~Cheaper(a, a)
  BY DEF Cheaper
<1>2. ASSUME a # b PROVE Cheaper(a, b) \/ Cheaper(b, a)
  <2> DEFINE D == {i \in 1..k : a[i] # b[i]}
  <2>1. D # {}
    <3> SUFFICES ASSUME \A i \in 1..k : a[i] = b[i] PROVE FALSE
      OBVIOUS
    <3>1. a = [i \in 1..k |-> a[i]] /\ b = [i \in 1..k |-> b[i]]
      OBVIOUS
    <3>2. a = b
      BY <3>1
    <3> QED
      BY <1>2, <3>2
  <2>2. D \in SUBSET Int /\ IsFiniteSet(D)
    <3>1. D \in SUBSET (1..k) /\ IsFiniteSet(1..k)
      BY FS_Interval
    <3> QED
      BY <3>1, FS_Subset
  <2> DEFINE m == Min(D)
  <2>3. m \in D /\ \A x \in D : m <= x
    <3> HIDE DEF D
    <3> QED
      BY <2>1, <2>2, MinAndMax
  <2> HIDE DEF m
  <2>4. m \in 1..k /\ a[m] # b[m] /\ \A j \in 1..(m - 1) : a[j] = b[j]
    BY <2>3
  <2>5. a[m] < b[m] \/ b[m] < a[m]
    BY <2>4
  <2> QED
    BY <2>4, <2>5 DEF Cheaper
<1>3. ASSUME Cheaper(a, b), Cheaper(b, a) PROVE FALSE
  <2>1. PICK i \in 1..k : a[i] < b[i] /\ \A j \in 1..(i - 1) : a[j] = b[j]
    BY <1>3 DEF Cheaper
  <2>2. PICK l \in 1..k : b[l] < a[l] /\ \A j \in 1..(l - 1) : b[j] = a[j]
    BY <1>3 DEF Cheaper
  <2>3. i < l \/ l < i \/ i = l
    OBVIOUS
  <2>4. (i < l => i \in 1..(l - 1)) /\ (l < i => l \in 1..(i - 1))
    OBVIOUS
  <2> QED
    BY <2>1, <2>2, <2>3, <2>4
<1>4. ASSUME Cheaper(a, b), Cheaper(b, c) PROVE Cheaper(a, c)
  <2>1. PICK i \in 1..k : a[i] < b[i] /\ \A j \in 1..(i - 1) : a[j] = b[j]
    BY <1>4 DEF Cheaper
  <2>2. PICK l \in 1..k : b[l] < c[l] /\ \A j \in 1..(l - 1) : b[j] = c[j]
    BY <1>4 DEF Cheaper
  <2>3. CASE i <= l
    <3>1. a[i] < c[i]
      <4>1. CASE i = l
        BY <2>1, <2>2, <4>1
      <4>2. CASE i < l
        BY <2>1, <2>2, <4>2
      <4> QED
        BY <2>3, <4>1, <4>2
    <3>2. \A j \in 1..(i - 1) : a[j] = c[j]
      BY <2>1, <2>2, <2>3
    <3> QED
      BY <3>1, <3>2 DEF Cheaper
  <2>4. CASE l < i
    <3>1. a[l] < c[l]
      BY <2>1, <2>2, <2>4
    <3>2. \A j \in 1..(l - 1) : a[j] = c[j]
      BY <2>1, <2>2, <2>4
    <3> QED
      BY <3>1, <3>2 DEF Cheaper
  <2> QED
    BY <2>3, <2>4
<1> QED
  BY <1>1, <1>2, <1>3, <1>4

\* A finite set of keys has a cheapest one.
LEMMA LeastOfIs ==
  ASSUME NEW k \in Nat, NEW S \in SUBSET [1..k -> Int], IsFiniteSet(S), S # {}
  PROVE  LeastOf(S) \in S
<1> DEFINE R == {p \in S \X S : ~Cheaper(p[2], p[1])}
<1>1. \A x, y \in S : <<x, y>> \in R <=> ~Cheaper(y, x)
  OBVIOUS
<1> HIDE DEF R
<1>2. TotalOrder(S, R)
  <2>1. \A x \in S : x \in [1..k -> Int]
    OBVIOUS
  <2>2. \A x, y \in S : x # y => Cheaper(x, y) \/ Cheaper(y, x)
    BY <2>1, CheaperIsOrder
  <2>3. \A x, y \in S : ~(Cheaper(x, y) /\ Cheaper(y, x))
    BY <2>1, CheaperIsOrder
  <2>4. \A x, y, z \in S : Cheaper(x, y) /\ Cheaper(y, z) => Cheaper(x, z)
    BY <2>1, CheaperIsOrder
  <2>5. \A x \in S : ~Cheaper(x, x)
    BY <2>1, CheaperIsOrder
  <2>6. \A x, y, z \in S : <<x, y>> \in R /\ <<y, z>> \in R => <<x, z>> \in R
    BY <1>1, <2>2, <2>3, <2>4
  <2> QED
    BY <1>1, <2>2, <2>3, <2>5, <2>6 DEF TotalOrder
<1>3. PICK x \in S : \A y \in S : <<x, y>> \in R
  BY <1>2, FirstIsThere
<1>4. \A y \in S \ {x} : Cheaper(x, y)
  <2> SUFFICES ASSUME NEW y \in S, y # x PROVE Cheaper(x, y)
    OBVIOUS
  <2>1. ~Cheaper(y, x)
    BY <1>1, <1>3
  <2>2. x \in [1..k -> Int] /\ y \in [1..k -> Int]
    OBVIOUS
  <2> QED
    BY <2>1, <2>2, CheaperIsOrder
<1> QED
  BY <1>4 DEF LeastOf

\* Sorting rearranges a sequence.
Rearranged(t, s, X) ==
  /\ t \in Seq(X) /\ Len(t) = Len(s) /\ ToSet(t) = ToSet(s)
  /\ IsInjective(s) => IsInjective(t)

\* A sequence is a function on its places.
LEMMA SequenceIsFunction ==
  ASSUME NEW S, NEW q \in Seq(S)
  PROVE  q \in [1..Len(q) -> S] /\ DOMAIN q = 1..Len(q) /\ Len(q) \in Nat
OBVIOUS

\* Sorting (sortByAxis, and the sorts of strBuild) loses nothing and doubles
\* nothing.
LEMMA SortedByIs ==
  ASSUME NEW X, NEW s \in Seq(X), NEW k \in Nat, NEW keys \in [1..Len(s) -> [1..k -> Int]]
  PROVE  Rearranged(SortedBy(s, keys), s, X)
<1> DEFINE D == DOMAIN s
           K(i) == Append(keys[i], i)
           R == {p \in D \X D : ~Cheaper(K(p[2]), K(p[1]))}
           t == SortedBy(s, keys)
<1>0. D = 1..Len(s)
  OBVIOUS
<1>1. \A i \in D : K(i) \in [1..(k + 1) -> Int]
  <2> SUFFICES ASSUME NEW i \in D PROVE K(i) \in [1..(k + 1) -> Int]
    OBVIOUS
  <2>1. keys[i] \in Seq(Int) /\ Len(keys[i]) = k
    <3>1. keys[i] \in [1..k -> Int]
      OBVIOUS
    <3> QED
      BY <3>1
  <2>2. Append(keys[i], i) \in Seq(Int) /\ Len(Append(keys[i], i)) = k + 1
    BY <2>1
  <2> DEFINE q == Append(keys[i], i)
  <2>3. q \in Seq(Int) /\ Len(q) = k + 1
    BY <2>2
  <2> HIDE DEF q
  <2>4. q \in [1..(k + 1) -> Int]
    BY <2>3, SequenceIsFunction
  <2> QED
    BY <2>4 DEF q
<1>2. \A i, j \in D : K(i) = K(j) => i = j
  <2> SUFFICES ASSUME NEW i \in D, NEW j \in D, K(i) = K(j) PROVE i = j
    OBVIOUS
  <2>1. keys[i] \in [1..k -> Int] /\ keys[j] \in [1..k -> Int]
    OBVIOUS
  <2>2. K(i)[k + 1] = i /\ K(j)[k + 1] = j
    <3>1. keys[i] \in Seq(Int) /\ Len(keys[i]) = k /\ keys[j] \in Seq(Int) /\ Len(keys[j]) = k
      BY <2>1
    <3> QED
      BY <3>1
  <2> QED
    BY <2>2
<1>3. D = 1..Len(s) /\ D = DOMAIN keys /\ IsFiniteSet(D) /\ Cardinality(D) = Len(s) /\ Len(s) \in Nat
  <2>1. D = 1..Len(s) /\ D = DOMAIN keys /\ Len(s) \in Nat
    OBVIOUS
  <2> HIDE DEF D
  <2>2. IsFiniteSet(D) /\ Cardinality(D) = Len(s)
    <3>1. 1 \in Int /\ Len(s) \in Int /\ (IF 1 > Len(s) THEN 0 ELSE Len(s) - 1 + 1) = Len(s)
      BY <2>1
    <3>2. IsFiniteSet(1..Len(s)) /\ Cardinality(1..Len(s)) = Len(s)
      BY <3>1, FS_Interval
    <3> QED
      BY <2>1, <3>2
  <2> QED
    BY <2>1, <2>2
<1>4. \A i, j \in D : <<j, i>> \in R <=> ~Cheaper(K(i), K(j))
  OBVIOUS
<1>5. \A i \in D : Place(keys, i) = Cardinality(UpTo(D, R, i))
  <2> SUFFICES ASSUME NEW i \in D PROVE Place(keys, i) = Cardinality(UpTo(D, R, i))
    OBVIOUS
  <2>1. {j \in DOMAIN keys : ~Cheaper(K(i), K(j))} = UpTo(D, R, i)
    <3> HIDE DEF K, R
    <3> QED
      BY <1>3, <1>4 DEF UpTo
  <2> QED
    BY <2>1 DEF Place
<1>6. t = [r \in D |-> s[CHOOSE i \in D : Place(keys, i) = r]]
  BY DEF SortedBy
<1> HIDE DEF K, R, t, D
<1>7. TotalOrder(D, R)
  <2>0. k + 1 \in Nat
    OBVIOUS
  <2>1. \A x, y \in D : x # y => Cheaper(K(x), K(y)) \/ Cheaper(K(y), K(x))
    BY <1>1, <1>2, <2>0, CheaperIsOrder
  <2>2. \A x, y \in D : ~(Cheaper(K(x), K(y)) /\ Cheaper(K(y), K(x)))
    BY <1>1, <2>0, CheaperIsOrder
  <2>3. \A x, y, z \in D : Cheaper(K(x), K(y)) /\ Cheaper(K(y), K(z)) => Cheaper(K(x), K(z))
    BY <1>1, <2>0, CheaperIsOrder
  <2>4. \A x \in D : ~Cheaper(K(x), K(x))
    BY <1>1, <2>0, CheaperIsOrder
  <2>5. \A x, y, z \in D : <<x, y>> \in R /\ <<y, z>> \in R => <<x, z>> \in R
    BY <1>4, <2>1, <2>2, <2>3
  <2> QED
    BY <1>4, <2>1, <2>2, <2>4, <2>5 DEF TotalOrder
<1>8. Numbered(D, R)
  BY <1>3, <1>7, PlacesAreTaken
<1>9. \A i, j \in D : Place(keys, i) = Place(keys, j) => i = j
  BY <1>5, <1>8 DEF Numbered
<1>10. \A i \in D : Place(keys, i) \in D
  BY <1>3, <1>5, <1>8 DEF Numbered, D
<1>11. \A r \in D : \E i \in D : Place(keys, i) = r
  <2> SUFFICES ASSUME NEW r \in D PROVE \E i \in D : Place(keys, i) = r
    OBVIOUS
  <2>1. r \in 1..Cardinality(D)
    BY <1>3 DEF D
  <2>2. PICK i \in D : Cardinality(UpTo(D, R, i)) = r
    BY <1>8, <2>1 DEF Numbered
  <2> QED
    BY <1>5, <2>2
<1> DEFINE seat(r) == CHOOSE i \in D : Place(keys, i) = r
<1>12. \A r \in D : seat(r) \in D /\ Place(keys, seat(r)) = r
  BY <1>11
<1>13. \A r \in D : t[r] = s[seat(r)]
  BY <1>6
<1> HIDE DEF seat
<1>14. \A i \in D : seat(Place(keys, i)) = i
  BY <1>9, <1>10, <1>12
<1>15. t \in Seq(X) /\ Len(t) = Len(s) /\ DOMAIN t = D
  <2>1. \A r \in D : t[r] \in X
    BY <1>3, <1>12, <1>13
  <2>2. t \in [D -> X]
    BY <1>6, <2>1
  <2> QED
    BY <1>3, <2>2 DEF D
<1>16. ToSet(t) = ToSet(s)
  <2>1. \A r \in D : \E i \in D : s[i] = t[r]
    BY <1>12, <1>13
  <2>2. \A i \in D : \E r \in D : t[r] = s[i]
    BY <1>10, <1>13, <1>14
  <2> QED
    <3>1. ToSet(t) = {t[r] : r \in D} /\ ToSet(s) = {s[i] : i \in D}
      BY <1>15 DEF ToSet, D
    <3> QED
      BY <2>1, <2>2, <3>1
<1>17. ASSUME IsInjective(s) PROVE IsInjective(t)
  <2> SUFFICES ASSUME NEW p \in D, NEW q \in D, t[p] = t[q] PROVE p = q
    BY <1>15 DEF IsInjective
  <2>1. s[seat(p)] = s[seat(q)]
    BY <1>13
  <2>2. seat(p) = seat(q)
    BY <1>3, <1>12, <1>17, <2>1 DEF IsInjective
  <2> QED
    BY <1>12, <2>2
<1> QED
  BY <1>15, <1>16, <1>17 DEF Rearranged, t

\* One rearrangement after another is one.
LEMMA RearrangedTwice ==
  ASSUME NEW X, NEW s, NEW t, NEW u, Rearranged(t, s, X), Rearranged(u, t, X)
  PROVE  Rearranged(u, s, X)
BY DEF Rearranged

-----------------------------------------------------------------------------
(***************************************************************************)
(* Envelopes.                                                              *)
(***************************************************************************)
Inside(a, b) == Expand(b, a) = b

\* One envelope lies in another.
LEMMA InsideIs ==
  ASSUME NEW a \in Envelope, NEW b \in Envelope
  PROVE  Inside(a, b) <=> b[1] <= a[1] /\ b[2] <= a[2] /\ a[3] <= b[3] /\ a[4] <= b[4]
<1>1. a # Empty /\ b # Empty
  <2>1. DOMAIN a = 1..4 /\ DOMAIN b = 1..4 /\ 1 \in 1..4
    BY DEF Envelope
  <2>2. DOMAIN Empty = {}
    BY DEF Empty
  <2> QED
    BY <2>1, <2>2
<1>2. Expand(b, a) = [k \in 1..4 |-> IF k <= 2 THEN Least(b[k], a[k]) ELSE Most(b[k], a[k])]
  BY <1>1 DEF Expand
<1>3. Expand(b, a) = b <=> \A k \in 1..4 : b[k] = IF k <= 2 THEN Least(b[k], a[k]) ELSE Most(b[k], a[k])
  <2>1. b = [k \in 1..4 |-> b[k]]
    BY DEF Envelope
  <2> QED
    BY <1>2, <2>1
<1>4. \A k \in 1..4 : k = 1 \/ k = 2 \/ k = 3 \/ k = 4
  OBVIOUS
<1>5. \A k \in 1..4 : a[k] \in Int /\ b[k] \in Int
  BY DEF Envelope
<1>6. Expand(b, a) = b <=> /\ b[1] = Least(b[1], a[1]) /\ b[2] = Least(b[2], a[2])
                           /\ b[3] = Most(b[3], a[3]) /\ b[4] = Most(b[4], a[4])
  BY <1>3, <1>4
<1> QED
  BY <1>5, <1>6 DEF Inside, Least, Most

\* Being inside is an order, and Expand finds the least envelope around two.
LEMMA InsideIsOrder ==
  ASSUME NEW a \in Envelope, NEW b \in Envelope, NEW c \in Envelope
  PROVE  /\ Inside(a, a)
         /\ Inside(a, b) /\ Inside(b, c) => Inside(a, c)
         /\ Inside(a, b) /\ Inside(b, a) => a = b
         /\ Expand(a, b) \in Envelope /\ Inside(a, Expand(a, b)) /\ Inside(b, Expand(a, b))
         /\ Inside(a, c) /\ Inside(b, c) => Inside(Expand(a, b), c)
<1>1. \A k \in 1..4 : a[k] \in Int /\ b[k] \in Int /\ c[k] \in Int
  BY DEF Envelope
<1>2. Inside(a, a)
  BY <1>1, InsideIs
<1>3. Inside(a, b) /\ Inside(b, c) => Inside(a, c)
  BY <1>1, InsideIs
<1>4. ASSUME Inside(a, b), Inside(b, a) PROVE a = b
  <2>1. a[1] = b[1] /\ a[2] = b[2] /\ a[3] = b[3] /\ a[4] = b[4]
    BY <1>1, <1>4, InsideIs
  <2>2. \A k \in 1..4 : k = 1 \/ k = 2 \/ k = 3 \/ k = 4
    OBVIOUS
  <2>3. \A k \in 1..4 : a[k] = b[k]
    BY <2>1, <2>2
  <2>4. a = [k \in 1..4 |-> a[k]] /\ b = [k \in 1..4 |-> b[k]]
    BY DEF Envelope
  <2> QED
    BY <2>3, <2>4
<1> DEFINE e == Expand(a, b)
<1>5. e \in Envelope /\ e[1] = Least(a[1], b[1]) /\ e[2] = Least(a[2], b[2])
      /\ e[3] = Most(a[3], b[3]) /\ e[4] = Most(a[4], b[4])
  <2>1. DOMAIN a = 1..4 /\ DOMAIN b = 1..4 /\ 1 \in 1..4 /\ DOMAIN Empty = {}
    BY DEF Envelope, Empty
  <2>2. e = [k \in 1..4 |-> IF k <= 2 THEN Least(a[k], b[k]) ELSE Most(a[k], b[k])]
    BY <2>1 DEF Expand
  <2>3. \A k \in 1..4 : Least(a[k], b[k]) \in Int /\ Most(a[k], b[k]) \in Int
    BY <1>1 DEF Least, Most
  <2> HIDE DEF e
  <2>4. e \in Envelope
    BY <2>2, <2>3 DEF Envelope
  <2> QED
    BY <2>2, <2>4
<1> HIDE DEF e
<1>6. Inside(a, e) /\ Inside(b, e)
  BY <1>1, <1>5, InsideIs DEF Least, Most
<1>7. Inside(a, c) /\ Inside(b, c) => Inside(e, c)
  <2>1. \A k \in 1..4 : e[k] \in Int
    BY <1>5 DEF Envelope
  <2> QED
    BY <1>1, <1>5, <2>1, InsideIs DEF Least, Most
<1> QED
  BY <1>2, <1>3, <1>4, <1>5, <1>6, <1>7 DEF e

\* Finitely many things have finitely many images.
LEMMA ImageIsFinite ==
  ASSUME NEW S, IsFiniteSet(S), NEW f
  PROVE  IsFiniteSet({f[x] : x \in S})
<1> DEFINE T == {f[x] : x \in S}
           g == [x \in S |-> f[x]]
<1>1. g \in [S -> T] /\ \A t \in T : \E x \in S : g[x] = t
  OBVIOUS
<1>2. g \in Surjection(S, T)
  BY <1>1, Fun_IsSurj
<1> QED
  BY <1>2, FS_Surjection

\* The hull of some envelopes is the least that has all of them inside.
LEMMA HullIs ==
  ASSUME NEW S \in SUBSET Envelope, IsFiniteSet(S), S # {}
  PROVE  /\ Hull(S) \in Envelope
         /\ \A e \in S : Inside(e, Hull(S))
         /\ \A c \in Envelope : (\A e \in S : Inside(e, c)) => Inside(Hull(S), c)
<1> DEFINE T(k) == {e[k] : e \in S}
<1>1. ASSUME NEW k \in 1..4
      PROVE  /\ Min(T(k)) \in Int /\ Max(T(k)) \in Int
             /\ \A e \in S : Min(T(k)) <= e[k] /\ e[k] <= Max(T(k))
             /\ \E e \in S : Min(T(k)) = e[k]
             /\ \E e \in S : Max(T(k)) = e[k]
  <2>1. \A e \in S : e[k] \in Int
    BY DEF Envelope
  <2>2. T(k) \in SUBSET Int /\ T(k) # {}
    BY <2>1
  <2>3. IsFiniteSet(T(k))
    <3> DEFINE f == [e \in S |-> e[k]]
    <3>1. {f[e] : e \in S} = T(k)
      OBVIOUS
    <3> HIDE DEF f
    <3> QED
      BY <3>1, ImageIsFinite
  <2>4. /\ Min(T(k)) \in T(k) /\ \A x \in T(k) : Min(T(k)) <= x
        /\ Max(T(k)) \in T(k) /\ \A x \in T(k) : Max(T(k)) >= x
    <3> HIDE DEF T
    <3> QED
      BY <2>2, <2>3, MinAndMax
  <2>5. \A e \in S : e[k] \in T(k)
    OBVIOUS
  <2>6. \A x \in T(k) : \E e \in S : x = e[k]
    OBVIOUS
  <2> HIDE DEF T
  <2> QED
    BY <2>1, <2>2, <2>4, <2>5, <2>6
<1> DEFINE h == Hull(S)
<1>2. h = [k \in 1..4 |-> IF k <= 2 THEN Min(T(k)) ELSE Max(T(k))]
  BY DEF Hull
<1> HIDE DEF T, h
<1>3. h \in Envelope
  BY <1>1, <1>2 DEF Envelope
<1>4. h[1] = Min(T(1)) /\ h[2] = Min(T(2)) /\ h[3] = Max(T(3)) /\ h[4] = Max(T(4))
  BY <1>2
<1>5. \A e \in S : Inside(e, h)
  <2> SUFFICES ASSUME NEW e \in S PROVE Inside(e, h)
    OBVIOUS
  <2>1. h[1] <= e[1] /\ h[2] <= e[2] /\ e[3] <= h[3] /\ e[4] <= h[4]
    BY <1>1, <1>4
  <2> QED
    BY <1>3, <2>1, InsideIs
<1>6. ASSUME NEW c \in Envelope, \A e \in S : Inside(e, c) PROVE Inside(h, c)
  <2>1. \A e \in S : c[1] <= e[1] /\ c[2] <= e[2] /\ e[3] <= c[3] /\ e[4] <= c[4]
    BY <1>6, InsideIs
  <2>2. c[1] <= h[1] /\ c[2] <= h[2] /\ h[3] <= c[3] /\ h[4] <= c[4]
    BY <1>1, <1>4, <2>1
  <2> QED
    BY <1>3, <2>2, InsideIs
<1> QED
  BY <1>3, <1>5, <1>6 DEF h

\* The same for the entries of a node.
LEMMA HullOfIs ==
  ASSUME NEW X, NEW s \in Seq(X), s # <<>>, NEW env, \A x \in ToSet(s) : env[x] \in Envelope
  PROVE  /\ HullOf(s, env) \in Envelope
         /\ \A x \in ToSet(s) : Inside(env[x], HullOf(s, env))
         /\ \A c \in Envelope : (\A x \in ToSet(s) : Inside(env[x], c)) => Inside(HullOf(s, env), c)
<1> DEFINE S == {env[s[i]] : i \in DOMAIN s}
<1>1. DOMAIN s = 1..Len(s) /\ Len(s) \in Nat /\ Len(s) # 0
  OBVIOUS
<1>2. IsFiniteSet(S)
  <2> DEFINE f == [i \in DOMAIN s |-> env[s[i]]]
  <2>1. {f[i] : i \in DOMAIN s} = S
    OBVIOUS
  <2>2. IsFiniteSet(DOMAIN s)
    BY <1>1, FS_Interval
  <2> HIDE DEF f, S
  <2>3. IsFiniteSet({f[i] : i \in DOMAIN s})
    BY <2>2, ImageIsFinite
  <2> QED
    BY <2>1, <2>3
<1>3. \A i \in DOMAIN s : s[i] \in ToSet(s) /\ env[s[i]] \in S
  BY DEF ToSet
<1>4. \A x \in ToSet(s) : env[x] \in S
  BY DEF ToSet
<1>5. \A e \in S : \E x \in ToSet(s) : e = env[x]
  BY <1>3
<1>6. S \in SUBSET Envelope
  BY <1>5
<1>7. S # {}
  <2>1. 1 \in DOMAIN s
    BY <1>1
  <2> QED
    BY <1>3, <2>1
<1>8. HullOf(s, env) = Hull(S)
  BY DEF HullOf
<1> HIDE DEF S
<1>9. /\ Hull(S) \in Envelope
      /\ \A e \in S : Inside(e, Hull(S))
      /\ \A c \in Envelope : (\A e \in S : Inside(e, c)) => Inside(Hull(S), c)
  BY <1>2, <1>6, <1>7, HullIs
<1>10. ASSUME NEW c \in Envelope, \A x \in ToSet(s) : Inside(env[x], c) PROVE Inside(Hull(S), c)
  BY <1>5, <1>9, <1>10
<1> QED
  BY <1>4, <1>8, <1>9, <1>10

\* It depends on the envelopes of the entries alone.
LEMMA SameHull ==
  ASSUME NEW s, NEW t, NEW env, NEW enw, ToSet(s) = ToSet(t), \A x \in ToSet(s) : env[x] = enw[x]
  PROVE  HullOf(s, env) = HullOf(t, enw)
<1>1. \A i \in DOMAIN s : \E j \in DOMAIN t : env[s[i]] = enw[t[j]]
  BY DEF ToSet
<1>2. \A j \in DOMAIN t : \E i \in DOMAIN s : env[s[i]] = enw[t[j]]
  BY DEF ToSet
<1>3. {env[s[i]] : i \in DOMAIN s} = {enw[t[j]] : j \in DOMAIN t}
  BY <1>1, <1>2
<1> QED
  BY <1>3 DEF HullOf

\* It grows when the entries or their envelopes do.
LEMMA HullGrows ==
  ASSUME NEW X, NEW s \in Seq(X), NEW t \in Seq(X), s # <<>>, t # <<>>, NEW env, NEW enw,
         \A x \in ToSet(s) : env[x] \in Envelope, \A x \in ToSet(t) : enw[x] \in Envelope,
         \A x \in ToSet(s) : Inside(env[x], HullOf(t, enw))
  PROVE  Inside(HullOf(s, env), HullOf(t, enw))
<1>1. HullOf(t, enw) \in Envelope
  BY HullOfIs
<1> QED
  BY <1>1, HullOfIs

-----------------------------------------------------------------------------
(***************************************************************************)
(* The R* split.                                                           *)
(***************************************************************************)
\* A piece of a sequence.
LEMMA PieceIs ==
  ASSUME NEW X, NEW s \in Seq(X), NEW a \in 1..Len(s), NEW b \in a..Len(s)
  PROVE  /\ SubSeq(s, a, b) \in Seq(X) /\ Len(SubSeq(s, a, b)) = b - a + 1
         /\ ToSet(SubSeq(s, a, b)) = {s[i] : i \in a..b}
         /\ IsInjective(s) => IsInjective(SubSeq(s, a, b))
<1> DEFINE p == SubSeq(s, a, b)
<1>1. p = [i \in 1..(b - a + 1) |-> s[a + i - 1]]
  OBVIOUS
<1>2. \A i \in 1..(b - a + 1) : a + i - 1 \in 1..Len(s) /\ s[a + i - 1] \in X
  OBVIOUS
<1>3. b - a + 1 \in Nat
  OBVIOUS
<1> HIDE DEF p
<1>4. p \in Seq(X) /\ Len(p) = b - a + 1 /\ DOMAIN p = 1..(b - a + 1)
  BY <1>1, <1>2, <1>3
<1>5. ToSet(p) = {s[i] : i \in a..b}
  <2>1. \A i \in DOMAIN p : a + i - 1 \in a..b /\ p[i] = s[a + i - 1]
    BY <1>1, <1>4
  <2>2. \A j \in a..b : j - a + 1 \in DOMAIN p /\ p[j - a + 1] = s[j]
    <3> SUFFICES ASSUME NEW j \in a..b PROVE j - a + 1 \in DOMAIN p /\ p[j - a + 1] = s[j]
      OBVIOUS
    <3>1. j - a + 1 \in 1..(b - a + 1) /\ a + (j - a + 1) - 1 = j
      OBVIOUS
    <3> QED
      BY <1>1, <1>4, <3>1
  <2>3. ToSet(p) = {p[i] : i \in DOMAIN p}
    BY DEF ToSet
  <2>4. \A x \in ToSet(p) : x \in {s[i] : i \in a..b}
    BY <2>1, <2>3
  <2>5. \A j \in a..b : s[j] \in ToSet(p)
    BY <2>2, <2>3
  <2> QED
    BY <2>4, <2>5
<1>6. ASSUME IsInjective(s) PROVE IsInjective(p)
  <2>1. \A i, j \in DOMAIN s : s[i] = s[j] => i = j
    BY <1>6 DEF IsInjective
  <2>2. \A i, j \in DOMAIN p : p[i] = p[j] => i = j
    BY <1>1, <1>2, <1>4, <2>1
  <2> QED
    BY <2>2 DEF IsInjective
<1> QED
  BY <1>4, <1>5, <1>6 DEF p

\* The halves of a sequence share it out.
LEMMA HalvesAre ==
  ASSUME NEW X, NEW s \in Seq(X), NEW cut \in 1..(Len(s) - 1)
  PROVE  /\ Lower(s, cut) \in Seq(X) /\ Len(Lower(s, cut)) = cut
         /\ Upper(s, cut) \in Seq(X) /\ Len(Upper(s, cut)) = Len(s) - cut
         /\ ToSet(Lower(s, cut)) \cup ToSet(Upper(s, cut)) = ToSet(s)
         /\ IsInjective(s) => /\ IsInjective(Lower(s, cut)) /\ IsInjective(Upper(s, cut))
                              /\ ToSet(Lower(s, cut)) \cap ToSet(Upper(s, cut)) = {}
<1>1. 1 \in 1..Len(s) /\ cut \in 1..Len(s) /\ cut + 1 \in 1..Len(s) /\ Len(s) \in (cut + 1)..Len(s)
  OBVIOUS
<1>2. /\ Lower(s, cut) \in Seq(X) /\ Len(Lower(s, cut)) = cut - 1 + 1
      /\ ToSet(Lower(s, cut)) = {s[i] : i \in 1..cut}
      /\ IsInjective(s) => IsInjective(Lower(s, cut))
  BY <1>1, PieceIs DEF Lower
<1>3. /\ Upper(s, cut) \in Seq(X) /\ Len(Upper(s, cut)) = Len(s) - (cut + 1) + 1
      /\ ToSet(Upper(s, cut)) = {s[i] : i \in (cut + 1)..Len(s)}
      /\ IsInjective(s) => IsInjective(Upper(s, cut))
  BY <1>1, PieceIs DEF Upper
<1>4. ToSet(s) = {s[i] : i \in 1..Len(s)}
  BY DEF ToSet
<1>5. ToSet(Lower(s, cut)) \cup ToSet(Upper(s, cut)) = ToSet(s)
  <2>1. \A i \in 1..Len(s) : i \in 1..cut \/ i \in (cut + 1)..Len(s)
    BY <1>1
  <2>2. \A i \in 1..cut : i \in 1..Len(s)
    BY <1>1
  <2>3. \A i \in (cut + 1)..Len(s) : i \in 1..Len(s)
    BY <1>1
  <2> QED
    BY <1>2, <1>3, <1>4, <2>1, <2>2, <2>3
<1>6. ASSUME IsInjective(s) PROVE ToSet(Lower(s, cut)) \cap ToSet(Upper(s, cut)) = {}
  <2>1. \A i \in 1..cut, j \in (cut + 1)..Len(s) : i \in DOMAIN s /\ j \in DOMAIN s /\ i # j
    BY <1>1
  <2>2. \A i \in 1..cut, j \in (cut + 1)..Len(s) : s[i] # s[j]
    BY <1>6, <2>1 DEF IsInjective
  <2> QED
    BY <1>2, <1>3, <2>2
<1>7. cut - 1 + 1 = cut /\ Len(s) - (cut + 1) + 1 = Len(s) - cut
  BY <1>1
<1> QED
  BY <1>2, <1>3, <1>5, <1>6, <1>7

\* The areas that are compared are numbers.
LEMMA AreasAreNumbers ==
  ASSUME NEW a \in Envelope, NEW b \in Envelope
  PROVE  Area(a) \in Int /\ OverlapArea(a, b) \in Int
<1>1. /\ a[1] \in Int /\ a[2] \in Int /\ a[3] \in Int /\ a[4] \in Int
      /\ b[1] \in Int /\ b[2] \in Int /\ b[3] \in Int /\ b[4] \in Int
  BY DEF Envelope
<1>2. \A x, y, z, w \in Int : (x - y) * (z - w) \in Int
  OBVIOUS
<1>3. \A x, y \in Int : Least(x, y) \in Int /\ Most(x, y) \in Int
  BY DEF Least, Most
<1>4. (a[3] - a[1]) * (a[4] - a[2]) \in Int
  BY <1>1, <1>2
<1>5. /\ Least(a[3], b[3]) \in Int /\ Most(a[1], b[1]) \in Int
      /\ Least(a[4], b[4]) \in Int /\ Most(a[2], b[2]) \in Int
  BY <1>1, <1>3
<1>6. (Least(a[3], b[3]) - Most(a[1], b[1])) * (Least(a[4], b[4]) - Most(a[2], b[2])) \in Int
  BY <1>2, <1>5
<1> QED
  BY <1>4, <1>6 DEF Area, OverlapArea

\* A cost is four numbers, the last two of them the axis's bound and the cut.
CostShape(s, env, c, kind) ==
  /\ Cost(s, env, c, kind) \in [1..4 -> Int]
  /\ Cost(s, env, c, kind)[3] = kind
  /\ Cost(s, env, c, kind)[4] = c

\* The hulls of the halves are envelopes, and costs are numbers.
LEMMA CostIs ==
  ASSUME NEW X, NEW s \in Seq(X), NEW env, \A x \in ToSet(s) : env[x] \in Envelope
  PROVE  \A c \in Cuts(s), kind \in {0, 1} : CostShape(s, env, c, kind)
<1> SUFFICES ASSUME NEW c \in Cuts(s), NEW kind \in {0, 1}
             PROVE  CostShape(s, env, c, kind)
  OBVIOUS
<1>1. c \in 1..(Len(s) - 1) /\ c \in Int
  BY FanoutAssumption DEF Cuts
<1> DEFINE l == HullOf(Lower(s, c), env)
           r == HullOf(Upper(s, c), env)
<1>2. l \in Envelope /\ r \in Envelope
  <2>1. Lower(s, c) \in Seq(X) /\ Lower(s, c) # <<>> /\ \A x \in ToSet(Lower(s, c)) : env[x] \in Envelope
    BY <1>1, HalvesAre
  <2>2. Upper(s, c) \in Seq(X) /\ Upper(s, c) # <<>> /\ \A x \in ToSet(Upper(s, c)) : env[x] \in Envelope
    BY <1>1, HalvesAre
  <2> QED
    BY <2>1, <2>2, HullOfIs
<1> DEFINE o == OverlapArea(l, r)
           t == Area(l) + Area(r)
<1>3. o \in Int /\ t \in Int
  <2> HIDE DEF l, r
  <2>1. Area(l) \in Int /\ Area(r) \in Int /\ OverlapArea(l, r) \in Int
    BY <1>2, AreasAreNumbers
  <2> QED
    BY <2>1
<1>4. Cost(s, env, c, kind) = <<o, t, kind, c>>
  BY DEF Cost
<1> HIDE DEF l, r, o, t
<1> QED
  BY <1>1, <1>3, <1>4 DEF CostShape

\* Sorting by an axis rearranges the entries.
LEMMA SortByAxisIs ==
  ASSUME NEW X, NEW s \in Seq(X), NEW env, \A x \in ToSet(s) : env[x] \in Envelope, NEW k \in 1..4
  PROVE  Rearranged(SortByAxis(s, env, k), s, X)
<1> DEFINE keys == [i \in DOMAIN s |-> <<env[s[i]][k]>>]
<1>1. DOMAIN s = 1..Len(s)
  OBVIOUS
<1>2. \A i \in DOMAIN s : env[s[i]][k] \in Int
  BY DEF ToSet, Envelope
<1>3. \A x \in Int : <<x>> \in [1..1 -> Int]
  OBVIOUS
<1>4. keys \in [1..Len(s) -> [1..1 -> Int]]
  BY <1>1, <1>2, <1>3
<1> HIDE DEF keys
<1>5. Rearranged(SortedBy(s, keys), s, X)
  BY <1>4, SortedByIs
<1> QED
  BY <1>5 DEF SortByAxis, keys

\* A split rearranges the entries and cuts them where it may.
LEMMA SplitAlongIs ==
  ASSUME NEW X, NEW s \in Seq(X), Len(s) >= 2 * MinEntries,
         NEW env, \A x \in ToSet(s) : env[x] \in Envelope, NEW low \in 1..2
  PROVE  Rearranged(SplitAlong(s, env, low).order, s, X) /\ SplitAlong(s, env, low).cut \in Cuts(s)
<1> DEFINE byMin == SortByAxis(s, env, low)
           byMax == SortByAxis(byMin, env, low + 2)
<1>1. Rearranged(byMin, s, X)
  BY SortByAxisIs
<1> HIDE DEF byMin
<1>2. byMin \in Seq(X) /\ (\A x \in ToSet(byMin) : env[x] \in Envelope) /\ low + 2 \in 1..4
  BY <1>1 DEF Rearranged
<1>3. Rearranged(byMax, s, X)
  <2>1. Rearranged(byMax, byMin, X)
    BY <1>2, SortByAxisIs
  <2> QED
    BY <1>1, <2>1, RearrangedTwice
<1> HIDE DEF byMax
<1>4. byMax \in Seq(X) /\ (\A x \in ToSet(byMax) : env[x] \in Envelope)
  BY <1>3 DEF Rearranged
<1>5. Cuts(byMin) = Cuts(s) /\ Cuts(byMax) = Cuts(s)
  BY <1>1, <1>3 DEF Rearranged, Cuts
<1> DEFINE C == {Cost(byMin, env, c, 0) : c \in Cuts(s)}
           D == {Cost(byMax, env, c, 1) : c \in Cuts(s)}
<1>6. ASSUME NEW c \in Cuts(s)
      PROVE  Cost(byMin, env, c, 0) \in [1..4 -> Int] /\ Cost(byMin, env, c, 0)[3] = 0 /\ Cost(byMin, env, c, 0)[4] = c
  <2>1. \A d \in Cuts(byMin), kind \in {0, 1} : CostShape(byMin, env, d, kind)
    BY <1>2, CostIs
  <2>2. CostShape(byMin, env, c, 0)
    BY <1>5, <2>1
  <2> QED
    BY <2>2 DEF CostShape
<1>7. ASSUME NEW c \in Cuts(s)
      PROVE  Cost(byMax, env, c, 1) \in [1..4 -> Int] /\ Cost(byMax, env, c, 1)[3] = 1 /\ Cost(byMax, env, c, 1)[4] = c
  <2>1. \A d \in Cuts(byMax), kind \in {0, 1} : CostShape(byMax, env, d, kind)
    BY <1>4, CostIs
  <2>2. CostShape(byMax, env, c, 1)
    BY <1>5, <2>1
  <2> QED
    BY <2>2 DEF CostShape
<1>8. IsFiniteSet(Cuts(s)) /\ MinEntries \in Cuts(s)
  <2>1. MinEntries \in Int /\ Len(s) \in Int /\ Len(s) - MinEntries \in Int /\ MinEntries <= Len(s) - MinEntries
    BY FanoutAssumption
  <2> QED
    BY <2>1, FS_Interval DEF Cuts
<1>9. IsFiniteSet(C) /\ IsFiniteSet(D)
  <2> DEFINE f == [c \in Cuts(s) |-> Cost(byMin, env, c, 0)]
             g == [c \in Cuts(s) |-> Cost(byMax, env, c, 1)]
  <2>1. C = {f[c] : c \in Cuts(s)} /\ D = {g[c] : c \in Cuts(s)}
    OBVIOUS
  <2> HIDE DEF f, g, C, D
  <2> QED
    BY <1>8, <2>1, ImageIsFinite
<1> DEFINE E == C \cup D
           best == LeastOf(E)
<1>10. E \in SUBSET [1..4 -> Int] /\ E # {} /\ IsFiniteSet(E)
  <2>1. C \in SUBSET [1..4 -> Int] /\ D \in SUBSET [1..4 -> Int] /\ C # {}
    BY <1>6, <1>7, <1>8
  <2> HIDE DEF C, D
  <2> QED
    BY <1>9, <2>1, FS_Union
<1>11. \A e \in E : e[3] \in {0, 1} /\ e[4] \in Cuts(s)
  BY <1>6, <1>7
<1> HIDE DEF E
<1>12. best \in E
  BY <1>10, LeastOfIs
<1>13. SplitAlong(s, env, low) = [order |-> SortByAxis(byMax, env, low + 2 * best[3]), cut |-> best[4]]
  BY <1>5 DEF SplitAlong, byMin, byMax, E
<1> HIDE DEF best
<1>14. low + 2 * best[3] \in 1..4
  BY <1>11, <1>12
<1>15. Rearranged(SortByAxis(byMax, env, low + 2 * best[3]), s, X)
  <2>1. Rearranged(SortByAxis(byMax, env, low + 2 * best[3]), byMax, X)
    BY <1>4, <1>14, SortByAxisIs
  <2> QED
    BY <1>3, <2>1, RearrangedTwice
<1> QED
  BY <1>11, <1>12, <1>13, <1>15

\* rstarSplit orders the entries anew and cuts them where neither half is too
\* small.
LEMMA RStarSplitIs ==
  ASSUME NEW X, NEW s \in Seq(X), Len(s) >= 2 * MinEntries,
         NEW env, \A x \in ToSet(s) : env[x] \in Envelope
  PROVE  Rearranged(RStarSplit(s, env).order, s, X) /\ RStarSplit(s, env).cut \in Cuts(s)
<1> DEFINE x1 == SortByAxis(s, env, 1)
           x2 == SortByAxis(x1, env, 3)
           y1 == SortByAxis(x2, env, 2)
           y2 == SortByAxis(y1, env, 4)
           low == IF Margins(y1, env) + Margins(y2, env) < Margins(x1, env) + Margins(x2, env) THEN 2 ELSE 1
<1>1. Rearranged(x1, s, X)
  BY SortByAxisIs
<1>2. RStarSplit(s, env) = SplitAlong(y2, env, low)
  BY DEF RStarSplit
<1> HIDE DEF x1
<1>3. ASSUME NEW t, Rearranged(t, s, X), NEW k \in 1..4 PROVE Rearranged(SortByAxis(t, env, k), s, X)
  <2>1. t \in Seq(X) /\ \A x \in ToSet(t) : env[x] \in Envelope
    BY <1>3 DEF Rearranged
  <2>2. Rearranged(SortByAxis(t, env, k), t, X)
    BY <2>1, SortByAxisIs
  <2> QED
    BY <1>3, <2>2, RearrangedTwice
<1>4. Rearranged(x2, s, X)
  BY <1>1, <1>3
<1> HIDE DEF x2
<1>5. Rearranged(y1, s, X)
  BY <1>3, <1>4
<1> HIDE DEF y1
<1>6. Rearranged(y2, s, X)
  BY <1>3, <1>5
<1>7. low \in 1..2
  OBVIOUS
<1> HIDE DEF y2, low
<1>8. y2 \in Seq(X) /\ Len(y2) = Len(s) /\ \A x \in ToSet(y2) : env[x] \in Envelope
  BY <1>6 DEF Rearranged
<1>9. Rearranged(SplitAlong(y2, env, low).order, y2, X) /\ SplitAlong(y2, env, low).cut \in Cuts(y2)
  BY <1>7, <1>8, SplitAlongIs
<1> QED
  BY <1>2, <1>6, <1>8, <1>9, RearrangedTwice DEF Cuts

-----------------------------------------------------------------------------
(***************************************************************************)
(* Packing.                                                                *)
(***************************************************************************)
LEMMA CeilDivIs ==
  ASSUME NEW a \in Nat \ {0}, NEW b \in Nat \ {0}
  PROVE  CeilDiv(a, b) \in Nat \ {0}
<1> DEFINE S == {q \in 0..a : q * b >= a}
<1>1. a \in S
  <2>1. a * b >= a
    OBVIOUS
  <2> QED
    BY <2>1
<1>2. S \in SUBSET Int /\ IsFiniteSet(S)
  <2>1. S \in SUBSET (0..a) /\ IsFiniteSet(0..a)
    BY FS_Interval
  <2> QED
    BY <2>1, FS_Subset
<1>3. Min(S) \in S
  <2> HIDE DEF S
  <2> QED
    BY <1>1, <1>2, MinAndMax
<1>4. 0 * b = 0
  OBVIOUS
<1>5. 0 \notin S
  BY <1>4
<1>6. \A q \in S : q \in Nat
  OBVIOUS
<1> HIDE DEF S
<1>7. Min(S) \in Nat \ {0}
  BY <1>3, <1>5, <1>6
<1> QED
  BY <1>7 DEF CeilDiv, S

\* The rounded root of a positive number is one.
LEMMA CeilSqrtIs ==
  ASSUME NEW a \in Nat \ {0}
  PROVE  CeilSqrt(a) \in Nat \ {0}
<1> DEFINE S == {r \in 0..a : r * r >= a}
<1>1. a \in S
  <2>1. a * a >= a
    OBVIOUS
  <2> QED
    BY <2>1
<1>2. S \in SUBSET Int /\ IsFiniteSet(S)
  <2>1. S \in SUBSET (0..a) /\ IsFiniteSet(0..a)
    BY FS_Interval
  <2> QED
    BY <2>1, FS_Subset
<1>3. Min(S) \in S
  <2> HIDE DEF S
  <2> QED
    BY <1>1, <1>2, MinAndMax
<1>4. 0 * 0 = 0
  OBVIOUS
<1>5. 0 \notin S
  BY <1>4
<1>6. \A q \in S : q \in Nat
  OBVIOUS
<1> HIDE DEF S
<1>7. Min(S) \in Nat \ {0}
  BY <1>3, <1>5, <1>6
<1> QED
  BY <1>7 DEF CeilSqrt, S

\* The fanout is positive.
LEMMA MaxEntriesIs == MaxEntries \in Nat \ {0}
BY FanoutAssumption

\* A strip is not empty.
LEMMA StripWidthIs ==
  ASSUME NEW n \in Nat \ {0}
  PROVE  StripWidth(n) \in Nat \ {0}
<1>1. CeilDiv(n, MaxEntries) \in Nat \ {0}
  BY MaxEntriesIs, CeilDivIs
<1>2. CeilSqrt(CeilDiv(n, MaxEntries)) \in Nat \ {0}
  BY <1>1, CeilSqrtIs
<1> QED
  BY <1>2, CeilDivIs DEF StripWidth

\* Tiling rearranges the entries.
LEMMA TiledIs ==
  ASSUME NEW X, NEW s \in Seq(X), s # <<>>, NEW env, \A x \in ToSet(s) : env[x] \in Envelope
  PROVE  Rearranged(Tiled(s, env), s, X)
<1> DEFINE kx == [i \in DOMAIN s |-> <<env[s[i]][1] + env[s[i]][3]>>]
           byX == SortedBy(s, kx)
           w == StripWidth(Len(s))
           ky == [i \in DOMAIN s |-> << (i - 1) \div w, env[byX[i]][2] + env[byX[i]][4] >>]
<1>1. DOMAIN s = 1..Len(s) /\ Len(s) \in Nat \ {0}
  OBVIOUS
<1>2. kx \in [1..Len(s) -> [1..1 -> Int]]
  <2>1. \A i \in DOMAIN s : env[s[i]] \in Envelope
    BY DEF ToSet
  <2>2. \A i \in DOMAIN s : env[s[i]][1] + env[s[i]][3] \in Int
    <3> SUFFICES ASSUME NEW i \in DOMAIN s PROVE env[s[i]][1] + env[s[i]][3] \in Int
      OBVIOUS
    <3>1. env[s[i]][1] \in Int /\ env[s[i]][3] \in Int
      BY <2>1 DEF Envelope
    <3> QED
      BY <3>1
  <2>3. \A x \in Int : <<x>> \in [1..1 -> Int]
    OBVIOUS
  <2> QED
    BY <1>1, <2>2, <2>3
<1>3. Rearranged(byX, s, X)
  <2> HIDE DEF kx
  <2> QED
    BY <1>2, SortedByIs
<1>4. Tiled(s, env) = SortedBy(byX, ky)
  BY DEF Tiled
<1>5. w \in Nat \ {0}
  BY <1>1, StripWidthIs
<1> HIDE DEF byX, w
<1>6. byX \in Seq(X) /\ Len(byX) = Len(s) /\ \A x \in ToSet(byX) : env[x] \in Envelope
  BY <1>3 DEF Rearranged
<1>7. ky \in [1..Len(byX) -> [1..2 -> Int]]
  <2>1. \A i \in DOMAIN s : env[byX[i]] \in Envelope
    BY <1>1, <1>6 DEF ToSet
  <2>2. \A i \in DOMAIN s : (i - 1) \div w \in Int
    BY <1>1, <1>5
  <2>3. \A i \in DOMAIN s : env[byX[i]][2] + env[byX[i]][4] \in Int
    <3> SUFFICES ASSUME NEW i \in DOMAIN s PROVE env[byX[i]][2] + env[byX[i]][4] \in Int
      OBVIOUS
    <3>1. env[byX[i]][2] \in Int /\ env[byX[i]][4] \in Int
      BY <2>1 DEF Envelope
    <3> QED
      BY <3>1
  <2>4. \A x, y \in Int : <<x, y>> \in [1..2 -> Int]
    OBVIOUS
  <2> QED
    BY <1>1, <1>6, <2>2, <2>3, <2>4
<1> HIDE DEF ky
<1>8. Rearranged(SortedBy(byX, ky), byX, X)
  BY <1>6, <1>7, SortedByIs
<1> QED
  BY <1>3, <1>4, <1>8, RearrangedTwice

\* Groups begin at the first entry, and each has at most MaxEntries.
LEMMA StartsAre ==
  ASSUME NEW n \in Nat \ {0}
  PROVE  /\ Starts(n) \in SUBSET (1..n) /\ 1 \in Starts(n) /\ IsFiniteSet(Starts(n))
         /\ \A a \in Starts(n) :
              /\ NextStart(n, a) \in (a + 1)..(n + 1) /\ NextStart(n, a) <= a + MaxEntries
              /\ \A b \in Starts(n) : b > a => NextStart(n, a) <= b
              /\ NextStart(n, a) \in Starts(n) \cup {n + 1}
<1> DEFINE w == StripWidth(n)
           M == MaxEntries
<1>1. w \in Nat \ {0} /\ M \in Nat \ {0}
  BY StripWidthIs, MaxEntriesIs
<1> HIDE DEF w, M
<1>2. \A i : i \in Starts(n) <=> i \in 1..n /\ \E strip, group \in 0..n : group * M < w /\ i = strip * w + group * M + 1
  BY DEF Starts, w, M
<1>3. Starts(n) \in SUBSET (1..n) /\ IsFiniteSet(Starts(n))
  <2>1. Starts(n) \in SUBSET (1..n) /\ IsFiniteSet(1..n)
    BY <1>2, FS_Interval
  <2> QED
    BY <2>1, FS_Subset
<1>4. 1 \in Starts(n)
  <2>1. 0 \in 0..n /\ 0 * M < w /\ 1 = 0 * w + 0 * M + 1 /\ 1 \in 1..n
    BY <1>1
  <2> QED
    BY <1>2, <2>1
<1>5. ASSUME NEW a \in Starts(n), a + M <= n PROVE \E b \in Starts(n) : a < b /\ b <= a + M
  <2>1. PICK strip \in 0..n, group \in 0..n : group * M < w /\ a = strip * w + group * M + 1
    BY <1>2, <1>5
  <2>2. a \in 1..n
    BY <1>3, <1>5
  <2>3. CASE (group + 1) * M < w
    <3>1. a + M = strip * w + (group + 1) * M + 1
      BY <1>1, <2>1
    <3>2. group + 1 \in 0..n
      <4>1. (group + 1) * M >= group + 1 /\ strip * w >= 0
        BY <1>1
      <4>2. (group + 1) * M \in Int /\ strip * w \in Int
        BY <1>1
      <4> QED
        BY <1>1, <1>5, <2>2, <3>1, <4>1, <4>2
    <3>3. a + M \in 1..n
      BY <1>1, <1>5, <2>2
    <3>4. a + M \in Starts(n)
      BY <1>2, <2>3, <3>1, <3>2, <3>3
    <3> QED
      BY <1>1, <2>2, <3>4
  <2>4. CASE (group + 1) * M >= w
    <3> DEFINE b == (strip + 1) * w + 0 * M + 1
    <3>1. b = strip * w + w + 1 /\ (group + 1) * M = group * M + M
      BY <1>1
    <3>2. strip * w \in Int /\ group * M \in Int
      BY <1>1
    <3>3. a < b /\ b <= a + M
      BY <1>1, <2>1, <2>2, <2>4, <3>1, <3>2
    <3>4. strip + 1 \in 0..n
      <4>1. (strip + 1) * w >= strip + 1
        BY <1>1
      <4>2. b = (strip + 1) * w + 1 /\ (strip + 1) * w \in Int
        BY <1>1
      <4> QED
        BY <1>1, <1>5, <2>2, <3>3, <4>1, <4>2
    <3>5. 0 * M < w /\ 0 \in 0..n
      BY <1>1
    <3>6. b \in 1..n
      BY <1>1, <1>5, <2>2, <3>1, <3>2, <3>3
    <3>7. b \in Starts(n)
      BY <1>2, <3>4, <3>5, <3>6
    <3> QED
      BY <3>3, <3>7
  <2> QED
    <3>1. (group + 1) * M \in Int
      BY <1>1
    <3> QED
      BY <1>1, <2>3, <2>4, <3>1
<1>6. ASSUME NEW a \in Starts(n)
      PROVE  /\ NextStart(n, a) \in (a + 1)..(n + 1) /\ NextStart(n, a) <= a + M
             /\ \A b \in Starts(n) : b > a => NextStart(n, a) <= b
             /\ NextStart(n, a) \in Starts(n) \cup {n + 1}
  <2> DEFINE S == {b \in Starts(n) : b > a} \cup {n + 1}
             m == Min(S)
  <2>1. a \in 1..n
    BY <1>3
  <2>2. S \in SUBSET (1..(n + 1)) /\ n + 1 \in S
    BY <1>3, <2>1
  <2>3. S \in SUBSET Int /\ IsFiniteSet(S)
    <3>1. IsFiniteSet(1..(n + 1))
      BY FS_Interval
    <3> HIDE DEF S
    <3>2. IsFiniteSet(S)
      BY <2>2, <3>1, FS_Subset
    <3>3. 1..(n + 1) \in SUBSET Int
      OBVIOUS
    <3> QED
      BY <2>2, <3>2, <3>3
  <2>4. m \in S /\ \A x \in S : m <= x
    <3> HIDE DEF S
    <3> QED
      BY <2>2, <2>3, MinAndMax
  <2>5. NextStart(n, a) = m
    BY DEF NextStart
  <2> HIDE DEF m
  <2>6. m \in (a + 1)..(n + 1)
    BY <1>3, <2>1, <2>4
  <2>7. m <= a + M
    <3>1. CASE a + M <= n
      BY <1>1, <1>3, <1>5, <2>1, <2>4, <2>6, <3>1
    <3>2. CASE ~(a + M <= n)
      BY <1>1, <2>1, <2>6, <3>2
    <3> QED
      BY <3>1, <3>2
  <2> QED
    BY <2>4, <2>5, <2>6, <2>7
<1> QED
  BY <1>3, <1>4, <1>6 DEF M

\* The groups share the entries out.
LEMMA GroupsAre ==
  ASSUME NEW X, NEW s \in Seq(X), s # <<>>
  PROVE  /\ \A a \in Starts(Len(s)) :
              /\ Group(s, a) \in Seq(X) /\ Len(Group(s, a)) \in 1..MaxEntries
              /\ IsInjective(s) => IsInjective(Group(s, a))
         /\ ToSet(s) = UNION {ToSet(Group(s, a)) : a \in Starts(Len(s))}
         /\ IsInjective(s) => \A a, b \in Starts(Len(s)) : a # b => ToSet(Group(s, a)) \cap ToSet(Group(s, b)) = {}
<1> DEFINE n == Len(s)
<1>1. n \in Nat \ {0} /\ DOMAIN s = 1..n
  OBVIOUS
<1>2. ASSUME NEW a \in Starts(n)
      PROVE  /\ a \in 1..n /\ NextStart(n, a) \in (a + 1)..(n + 1) /\ NextStart(n, a) <= a + MaxEntries
             /\ \A b \in Starts(n) : b > a => NextStart(n, a) <= b
  BY <1>1, StartsAre
<1>3. ASSUME NEW a \in Starts(n)
      PROVE  /\ Group(s, a) \in Seq(X) /\ Len(Group(s, a)) \in 1..MaxEntries
             /\ IsInjective(s) => IsInjective(Group(s, a))
             /\ ToSet(Group(s, a)) = {s[i] : i \in a..(NextStart(n, a) - 1)}
  <2> DEFINE b == NextStart(n, a) - 1
  <2>1. a \in 1..Len(s) /\ b \in a..Len(s)
    BY <1>1, <1>2
  <2>2. b - a + 1 \in 1..MaxEntries
    BY <1>1, <1>2, MaxEntriesIs
  <2>3. Group(s, a) = SubSeq(s, a, b)
    BY DEF Group
  <2> HIDE DEF b
  <2>4. /\ SubSeq(s, a, b) \in Seq(X) /\ Len(SubSeq(s, a, b)) = b - a + 1
        /\ ToSet(SubSeq(s, a, b)) = {s[i] : i \in a..b}
        /\ IsInjective(s) => IsInjective(SubSeq(s, a, b))
    BY <2>1, PieceIs
  <2> QED
    BY <2>2, <2>3, <2>4 DEF b
<1>4. \A a \in Starts(n) : \A i \in a..(NextStart(n, a) - 1) : i \in DOMAIN s
  BY <1>1, <1>2
<1>5. \A i \in DOMAIN s : \E a \in Starts(n) : i \in a..(NextStart(n, a) - 1)
  <2> SUFFICES ASSUME NEW i \in 1..n PROVE \E a \in Starts(n) : i \in a..(NextStart(n, a) - 1)
    BY <1>1
  <2> DEFINE S == {a \in Starts(n) : a <= i}
  <2>1. S \in SUBSET Starts(n) /\ 1 \in S /\ IsFiniteSet(Starts(n))
    BY <1>1, StartsAre
  <2>2. S \in SUBSET Int /\ IsFiniteSet(S)
    BY <1>2, <2>1, FS_Subset
  <2>3. Max(S) \in S /\ \A x \in S : Max(S) >= x
    <3> HIDE DEF S
    <3> QED
      BY <2>1, <2>2, MinAndMax
  <2> DEFINE a == Max(S)
  <2> HIDE DEF a
  <2>4. a \in Starts(n) /\ a <= i /\ \A x \in Starts(n) : x <= i => x <= a
    <3>1. a \in S /\ \A x \in S : x <= a
      BY <1>2, <2>2, <2>3 DEF a
    <3> QED
      BY <3>1
  <2>5. NextStart(n, a) \in Starts(n) \cup {n + 1} /\ NextStart(n, a) \in (a + 1)..(n + 1)
    BY <1>1, <2>4, StartsAre
  <2>6. a \in 1..n
    BY <1>2, <2>4
  <2>7. i < NextStart(n, a)
    BY <1>1, <2>4, <2>5, <2>6
  <2>8. i \in a..(NextStart(n, a) - 1)
    BY <1>1, <2>4, <2>5, <2>6, <2>7
  <2> QED
    BY <2>4, <2>8
<1>6. ToSet(s) = {s[i] : i \in DOMAIN s}
  BY DEF ToSet
<1> HIDE DEF n
<1>7. ToSet(s) = UNION {ToSet(Group(s, a)) : a \in Starts(n)}
  <2>1. ASSUME NEW x \in ToSet(s) PROVE \E a \in Starts(n) : x \in ToSet(Group(s, a))
    <3>1. PICK i \in DOMAIN s : x = s[i]
      BY <1>6
    <3>2. PICK a \in Starts(n) : i \in a..(NextStart(n, a) - 1)
      BY <1>5
    <3> QED
      BY <1>3, <3>1, <3>2
  <2>2. ASSUME NEW a \in Starts(n), NEW x \in ToSet(Group(s, a)) PROVE x \in ToSet(s)
    BY <1>3, <1>4, <1>6
  <2> QED
    BY <2>1, <2>2
<1>8. ASSUME IsInjective(s), NEW a \in Starts(n), NEW b \in Starts(n), a # b
      PROVE  ToSet(Group(s, a)) \cap ToSet(Group(s, b)) = {}
  <2>1. ASSUME NEW i \in a..(NextStart(n, a) - 1), NEW j \in b..(NextStart(n, b) - 1) PROVE i # j
    <3>1. a \in Int /\ b \in Int /\ NextStart(n, a) \in Int /\ NextStart(n, b) \in Int
      BY <1>1, <1>2
    <3>2. (a < b => NextStart(n, a) <= b) /\ (b < a => NextStart(n, b) <= a)
      BY <1>2, <3>1
    <3> QED
      BY <1>8, <3>1, <3>2
  <2>2. \A i \in a..(NextStart(n, a) - 1), j \in b..(NextStart(n, b) - 1) : s[i] # s[j]
    BY <1>4, <1>8, <2>1 DEF IsInjective
  <2> QED
    BY <1>3, <2>2
<1> QED
  BY <1>3, <1>7, <1>8 DEF n

-----------------------------------------------------------------------------
(***************************************************************************)
(* What holds of a tree h while a call works on it: of the nodes, whose    *)
(* leaves hold the items with the envelopes env.                           *)
(***************************************************************************)
NodeShape == [leaf : BOOLEAN, height : Nat, env : Envelope, entries : Seq(Nat)]

EnvsOf(h, env, n) == IF h[n].leaf THEN env ELSE EnvsIn(h)
Exact(h, env, n) == HullOf(h[n].entries, EnvsOf(h, env, n))
ExactTree(h, env) == \A n \in DOMAIN h : h[n].env = Exact(h, env, n)
ExactBut(h, env, narrow) == \A n \in DOMAIN h \ narrow : h[n].env = Exact(h, env, n)

Shaped(h) ==
  \A n \in DOMAIN h : h[n] \in NodeShape /\ h[n].leaf = (h[n].height = 0) /\ h[n].entries # <<>>

\* The leaves hold items, and the inner nodes all nodes but tops.
Whole(h, items, tops) ==
  /\ Held(h, TRUE) = items
  /\ tops \subseteq DOMAIN h /\ Held(h, FALSE) = DOMAIN h \ tops
  /\ Once(h)

Stepped(h) ==
  \A n \in DOMAIN h : ~h[n].leaf => \A m \in ToSet(h[n].entries) : h[m].height = h[n].height - 1

\* Only the nodes big may have an entry too many.
Sized(h, big) ==
  \A n \in DOMAIN h : Len(h[n].entries) <= MaxEntries + (IF n \in big THEN 1 ELSE 0)

\* Only the nodes stale may be narrow although they are near the leaves.
Tight(h, env, stale) ==
  \A n \in DOMAIN h :
    /\ Inside(h[n].env, Exact(h, env, n))
    /\ h[n].height <= 1 /\ n \notin stale => h[n].env = Exact(h, env, n)

Good(h, env, items, tops, big, stale) ==
  Shaped(h) /\ Whole(h, items, tops) /\ Stepped(h) /\ Sized(h, big) /\ Tight(h, env, stale)

\* A way from the node top down.
Chain(h, top, way) ==
  /\ way \in Seq(DOMAIN h) /\ way # <<>> /\ way[1] = top
  /\ \A k \in DOMAIN way : h[way[k]].height + k = h[top].height + 1
  /\ \A k \in 1..(Len(way) - 1) : way[k + 1] \in ToSet(h[way[k]].entries)

\* What the leaves, or the other nodes, hold.
LEMMA HeldIs ==
  ASSUME NEW h, NEW leaf, NEW x
  PROVE  x \in Held(h, leaf) <=> \E n \in DOMAIN h : h[n].leaf = leaf /\ x \in ToSet(h[n].entries)
BY DEF Held

\* All entries have envelopes, and so has the hull of those of a node.
LEMMA ExactIs ==
  ASSUME NEW h, Shaped(h), NEW env, \A x \in Held(h, TRUE) : env[x] \in Envelope,
         Held(h, FALSE) \subseteq DOMAIN h, NEW n \in DOMAIN h
  PROVE  /\ \A x \in ToSet(h[n].entries) : EnvsOf(h, env, n)[x] \in Envelope
         /\ h[n].entries \in Seq(Nat) /\ h[n].entries # <<>> /\ h[n].env \in Envelope
         /\ Exact(h, env, n) \in Envelope
         /\ \A x \in ToSet(h[n].entries) : Inside(EnvsOf(h, env, n)[x], Exact(h, env, n))
         /\ \A c \in Envelope : (\A x \in ToSet(h[n].entries) : Inside(EnvsOf(h, env, n)[x], c)) => Inside(Exact(h, env, n), c)
<1>1. h[n].entries \in Seq(Nat) /\ h[n].entries # <<>> /\ h[n].leaf \in BOOLEAN /\ h[n].env \in Envelope
  BY DEF Shaped, NodeShape
<1>2. ASSUME NEW x \in ToSet(h[n].entries) PROVE EnvsOf(h, env, n)[x] \in Envelope
  <2>1. CASE h[n].leaf
    BY <2>1, HeldIs DEF EnvsOf
  <2>2. CASE ~h[n].leaf
    <3>1. x \in DOMAIN h
      BY <1>1, <2>2, HeldIs
    <3>2. h[x].env \in Envelope
      BY <3>1 DEF Shaped, NodeShape
    <3> QED
      BY <2>2, <3>1, <3>2 DEF EnvsOf, EnvsIn
  <2> QED
    BY <1>1, <2>1, <2>2
<1> QED
  BY <1>1, <1>2, HullOfIs DEF Exact

\* A hull with one entry more.
LEMMA HullAppend ==
  ASSUME NEW X, NEW s \in Seq(X), s # <<>>, NEW x \in X, NEW env, env[x] \in Envelope,
         \A y \in ToSet(s) : env[y] \in Envelope
  PROVE  HullOf(Append(s, x), env) = Expand(HullOf(s, env), env[x])
<1> DEFINE t == Append(s, x)
           a == HullOf(t, env)
           b == HullOf(s, env)
           c == Expand(b, env[x])
<1>1. t \in Seq(X) /\ t # <<>> /\ ToSet(t) = ToSet(s) \cup {x}
  <2>1. t \in Seq(X) /\ Len(t) = Len(s) + 1 /\ t[Len(s) + 1] = x /\ \A i \in 1..Len(s) : t[i] = s[i]
    OBVIOUS
  <2>2. DOMAIN s = 1..Len(s) /\ DOMAIN t = 1..(Len(s) + 1) /\ Len(s) \in Nat
    BY <2>1
  <2> HIDE DEF t
  <2>3. \A i \in DOMAIN t : t[i] \in ToSet(s) \cup {x}
    BY <2>1, <2>2 DEF ToSet
  <2>4. \A i \in DOMAIN s : i \in DOMAIN t /\ t[i] = s[i]
    BY <2>1, <2>2
  <2>5. Len(s) + 1 \in DOMAIN t
    BY <2>2
  <2>6. \A y \in ToSet(s) \cup {x} : y \in ToSet(t)
    BY <2>1, <2>4, <2>5 DEF ToSet
  <2>7. \A y \in ToSet(t) : y \in ToSet(s) \cup {x}
    BY <2>3 DEF ToSet
  <2> QED
    BY <2>1, <2>2, <2>6, <2>7
<1> HIDE DEF t
<1>2. \A y \in ToSet(t) : env[y] \in Envelope
  BY <1>1
<1>3. /\ b \in Envelope /\ \A y \in ToSet(s) : Inside(env[y], b)
      /\ \A d \in Envelope : (\A y \in ToSet(s) : Inside(env[y], d)) => Inside(b, d)
  BY HullOfIs
<1>4. /\ a \in Envelope /\ \A y \in ToSet(t) : Inside(env[y], a)
      /\ \A d \in Envelope : (\A y \in ToSet(t) : Inside(env[y], d)) => Inside(a, d)
  BY <1>1, <1>2, HullOfIs
<1> HIDE DEF a, b
<1>5. c \in Envelope /\ Inside(b, c) /\ Inside(env[x], c)
  BY <1>3, InsideIsOrder
<1>6. Inside(b, a) /\ Inside(env[x], a)
  BY <1>1, <1>3, <1>4
<1>7. Inside(c, a)
  BY <1>3, <1>4, <1>6, InsideIsOrder
<1> HIDE DEF c
<1>8. \A y \in ToSet(t) : Inside(env[y], c)
  BY <1>1, <1>2, <1>3, <1>5, InsideIsOrder
<1>9. Inside(a, c)
  BY <1>4, <1>5, <1>8
<1>10. a = c
  BY <1>4, <1>5, <1>7, <1>9, InsideIsOrder
<1> QED
  BY <1>10 DEF a, b, c, t

\* And when some of the envelopes grow by another.
LEMMA HullGrowsBy ==
  ASSUME NEW X, NEW s \in Seq(X), s # <<>>, NEW env, NEW enw, NEW e \in Envelope,
         \A y \in ToSet(s) : env[y] \in Envelope,
         \A y \in ToSet(s) : enw[y] = env[y] \/ enw[y] = Expand(env[y], e),
         \E y \in ToSet(s) : enw[y] = Expand(env[y], e)
  PROVE  HullOf(s, enw) = Expand(HullOf(s, env), e)
<1> DEFINE a == HullOf(s, enw)
           b == HullOf(s, env)
           c == Expand(b, e)
<1>1. \A y \in ToSet(s) : enw[y] \in Envelope /\ Inside(env[y], enw[y])
  BY InsideIsOrder
<1>2. /\ b \in Envelope /\ \A y \in ToSet(s) : Inside(env[y], b)
      /\ \A d \in Envelope : (\A y \in ToSet(s) : Inside(env[y], d)) => Inside(b, d)
  BY HullOfIs
<1>3. /\ a \in Envelope /\ \A y \in ToSet(s) : Inside(enw[y], a)
      /\ \A d \in Envelope : (\A y \in ToSet(s) : Inside(enw[y], d)) => Inside(a, d)
  BY <1>1, HullOfIs
<1> HIDE DEF a, b
<1>4. c \in Envelope /\ Inside(b, c) /\ Inside(e, c)
  BY <1>2, InsideIsOrder
<1>5. \A y \in ToSet(s) : Inside(env[y], a)
  BY <1>1, <1>3, InsideIsOrder
<1>6. Inside(b, a)
  BY <1>2, <1>3, <1>5
<1>7. Inside(e, a)
  <2>1. PICK y \in ToSet(s) : enw[y] = Expand(env[y], e)
    OBVIOUS
  <2>2. Inside(e, enw[y])
    BY <2>1, InsideIsOrder
  <2> QED
    BY <1>1, <1>3, <2>2, InsideIsOrder
<1>8. Inside(c, a)
  BY <1>2, <1>3, <1>6, <1>7, InsideIsOrder
<1> HIDE DEF c
<1>9. ASSUME NEW y \in ToSet(s) PROVE Inside(enw[y], c)
  <2>1. Inside(env[y], c)
    BY <1>2, <1>4, InsideIsOrder
  <2>2. CASE enw[y] = env[y]
    BY <2>1, <2>2
  <2>3. CASE enw[y] = Expand(env[y], e)
    BY <1>4, <2>1, <2>3, InsideIsOrder
  <2> QED
    BY <2>2, <2>3
<1>10. Inside(a, c)
  BY <1>3, <1>4, <1>9
<1>11. a = c
  BY <1>3, <1>4, <1>8, <1>10, InsideIsOrder
<1> QED
  BY <1>11 DEF a, b, c

-----------------------------------------------------------------------------
(***************************************************************************)
(* Adding an item to a leaf.                                               *)
(***************************************************************************)
LEMMA AppendIs ==
  ASSUME NEW X, NEW s \in Seq(X), NEW x \in X
  PROVE  /\ Append(s, x) \in Seq(X) /\ Append(s, x) # <<>> /\ Len(Append(s, x)) = Len(s) + 1
         /\ ToSet(Append(s, x)) = ToSet(s) \cup {x}
         /\ IsInjective(s) /\ x \notin ToSet(s) => IsInjective(Append(s, x))
<1> DEFINE t == Append(s, x)
<1>1. t \in Seq(X) /\ Len(t) = Len(s) + 1 /\ t[Len(s) + 1] = x /\ \A i \in 1..Len(s) : t[i] = s[i]
  OBVIOUS
<1>2. DOMAIN s = 1..Len(s) /\ DOMAIN t = 1..(Len(s) + 1) /\ Len(s) \in Nat
  BY <1>1
<1> HIDE DEF t
<1>3. \A i \in DOMAIN t : (i \in DOMAIN s /\ t[i] = s[i]) \/ (i = Len(s) + 1 /\ t[i] = x)
  BY <1>1, <1>2
<1>4. \A i \in DOMAIN s : i \in DOMAIN t /\ t[i] = s[i]
  BY <1>1, <1>2
<1>5. Len(s) + 1 \in DOMAIN t
  BY <1>2
<1>6. ToSet(t) = ToSet(s) \cup {x}
  <2>1. \A y \in ToSet(s) \cup {x} : y \in ToSet(t)
    BY <1>1, <1>4, <1>5 DEF ToSet
  <2>2. \A y \in ToSet(t) : y \in ToSet(s) \cup {x}
    BY <1>3 DEF ToSet
  <2> QED
    BY <2>1, <2>2
<1>7. ASSUME IsInjective(s), x \notin ToSet(s) PROVE IsInjective(t)
  <2>1. \A i \in DOMAIN s : s[i] # x
    BY <1>7 DEF ToSet
  <2>2. \A i, j \in DOMAIN s : s[i] = s[j] => i = j
    BY <1>7 DEF IsInjective
  <2>3. \A i, j \in DOMAIN t : t[i] = t[j] => i = j
    BY <1>3, <2>1, <2>2
  <2> QED
    BY <2>3 DEF IsInjective
<1> QED
  BY <1>1, <1>2, <1>6, <1>7 DEF t

\* The tree g is h with the item x more in the leaf.
OneMore(g, h, leaf, x) ==
  /\ DOMAIN g = DOMAIN h /\ leaf \in DOMAIN h /\ h[leaf].leaf
  /\ \A n \in DOMAIN h :
       /\ g[n] \in NodeShape /\ g[n].leaf = h[n].leaf /\ g[n].height = h[n].height
       /\ g[n].entries = IF n = leaf THEN Append(h[n].entries, x) ELSE h[n].entries

\* A leaf with a new item makes the tree hold the items and that one.
LEMMA OneMoreIsWhole ==
  ASSUME NEW h, NEW g, NEW env, NEW items, NEW tops, NEW leaf, NEW x \in Nat, x \notin items,
         Good(h, env, items, tops, {}, {}), OneMore(g, h, leaf, x)
  PROVE  /\ Shaped(g) /\ Whole(g, items \cup {x}, tops) /\ Stepped(g) /\ Sized(g, {leaf})
         /\ Len(g[leaf].entries) <= MaxEntries => Sized(g, {})
<1>1. /\ Shaped(h) /\ Stepped(h) /\ Sized(h, {})
      /\ Held(h, TRUE) = items /\ tops \subseteq DOMAIN h /\ Held(h, FALSE) = DOMAIN h \ tops /\ Once(h)
  BY DEF Good, Whole
<1>2. ASSUME NEW n \in DOMAIN h PROVE h[n].entries \in Seq(Nat) /\ h[n].entries # <<>> /\ h[n].leaf \in BOOLEAN
  BY <1>1 DEF Shaped, NodeShape
<1>3. /\ leaf \in DOMAIN h /\ h[leaf].leaf /\ g[leaf].leaf /\ g[leaf].entries = Append(h[leaf].entries, x)
      /\ \A n \in DOMAIN h : n # leaf => g[n].entries = h[n].entries
      /\ DOMAIN g = DOMAIN h /\ \A n \in DOMAIN h : g[n].leaf = h[n].leaf /\ g[n].height = h[n].height
  BY DEF OneMore
<1>4. x \notin ToSet(h[leaf].entries)
  BY <1>1, <1>3, HeldIs
<1>5. /\ g[leaf].entries \in Seq(Nat) /\ g[leaf].entries # <<>> /\ Len(g[leaf].entries) = Len(h[leaf].entries) + 1
      /\ ToSet(g[leaf].entries) = ToSet(h[leaf].entries) \cup {x}
      /\ IsInjective(h[leaf].entries) => IsInjective(g[leaf].entries)
  BY <1>2, <1>3, <1>4, AppendIs
<1>6. Shaped(g)
  <2> SUFFICES ASSUME NEW n \in DOMAIN g PROVE g[n] \in NodeShape /\ g[n].leaf = (g[n].height = 0) /\ g[n].entries # <<>>
    BY DEF Shaped
  <2> QED
    BY <1>1, <1>3, <1>5 DEF Shaped, OneMore
<1>7. Held(g, TRUE) = items \cup {x}
  <2>1. ASSUME NEW y \in Held(g, TRUE) PROVE y \in items \cup {x}
    <3>1. PICK n \in DOMAIN g : g[n].leaf = TRUE /\ y \in ToSet(g[n].entries)
      BY HeldIs
    <3>2. n \in DOMAIN h /\ h[n].leaf = TRUE
      BY <1>3, <3>1
    <3>3. y \in ToSet(h[n].entries) \/ y = x
      <4>1. CASE n = leaf
        BY <1>5, <3>1, <4>1
      <4>2. CASE n # leaf
        BY <1>3, <3>1, <3>2, <4>2
      <4> QED
        BY <4>1, <4>2
    <3> QED
      BY <1>1, <3>2, <3>3, HeldIs
  <2>2. ASSUME NEW y \in items PROVE y \in Held(g, TRUE)
    <3>1. PICK n \in DOMAIN h : h[n].leaf = TRUE /\ y \in ToSet(h[n].entries)
      BY <1>1, HeldIs
    <3>2. y \in ToSet(g[n].entries) /\ g[n].leaf = TRUE
      BY <1>3, <1>5, <3>1
    <3> QED
      BY <1>3, <3>2, HeldIs
  <2>3. x \in Held(g, TRUE)
    <3>1. g[leaf].leaf = TRUE /\ x \in ToSet(g[leaf].entries)
      BY <1>1, <1>3, <1>5 DEF Shaped, NodeShape
    <3> QED
      BY <1>3, <3>1, HeldIs
  <2> QED
    BY <2>1, <2>2, <2>3
<1>8. Held(g, FALSE) = Held(h, FALSE)
  <2>1. \A n \in DOMAIN h : h[n].leaf = FALSE => n # leaf
    BY <1>3
  <2>2. ASSUME NEW y PROVE y \in Held(g, FALSE) <=> y \in Held(h, FALSE)
    <3>1. y \in Held(g, FALSE) <=> \E n \in DOMAIN g : g[n].leaf = FALSE /\ y \in ToSet(g[n].entries)
      BY HeldIs
    <3>2. y \in Held(h, FALSE) <=> \E n \in DOMAIN h : h[n].leaf = FALSE /\ y \in ToSet(h[n].entries)
      BY HeldIs
    <3> QED
      BY <1>3, <2>1, <3>1, <3>2
  <2> QED
    BY <2>2
<1>9. Once(g)
  <2> SUFFICES ASSUME NEW n \in DOMAIN g, NEW m \in DOMAIN g
               PROVE  /\ IsInjective(g[n].entries)
                      /\ n # m /\ g[n].leaf = g[m].leaf => ToSet(g[n].entries) \cap ToSet(g[m].entries) = {}
    BY DEF Once
  <2>1. IsInjective(h[n].entries) /\ (n # m /\ h[n].leaf = h[m].leaf => ToSet(h[n].entries) \cap ToSet(h[m].entries) = {})
    BY <1>1, <1>3 DEF Once
  <2>2. IsInjective(g[n].entries)
    BY <1>3, <1>5, <2>1
  <2>3. ASSUME NEW k \in DOMAIN h, k # leaf, h[k].leaf = h[leaf].leaf PROVE x \notin ToSet(h[k].entries)
    <3>1. h[k].leaf = TRUE
      BY <1>2, <1>3, <2>3
    <3> QED
      BY <1>1, <3>1, HeldIs
  <2>4. ASSUME n # m, g[n].leaf = g[m].leaf PROVE ToSet(g[n].entries) \cap ToSet(g[m].entries) = {}
    <3>1. CASE n = leaf
      <4>1. ToSet(g[n].entries) = ToSet(h[n].entries) \cup {x} /\ ToSet(g[m].entries) = ToSet(h[m].entries)
        BY <1>3, <1>5, <2>4, <3>1
      <4> QED
        BY <1>3, <2>1, <2>3, <2>4, <3>1, <4>1
    <3>2. CASE m = leaf
      <4>1. ToSet(g[m].entries) = ToSet(h[m].entries) \cup {x} /\ ToSet(g[n].entries) = ToSet(h[n].entries)
        BY <1>3, <1>5, <2>4, <3>2
      <4> QED
        BY <1>3, <2>1, <2>3, <2>4, <3>2, <4>1
    <3>3. CASE n # leaf /\ m # leaf
      BY <1>3, <2>1, <2>4, <3>3
    <3> QED
      BY <3>1, <3>2, <3>3
  <2> QED
    BY <2>2, <2>4
<1>10. Stepped(g)
  <2> SUFFICES ASSUME NEW n \in DOMAIN g, ~g[n].leaf, NEW m \in ToSet(g[n].entries)
               PROVE  g[m].height = g[n].height - 1
    BY DEF Stepped
  <2>1. n \in DOMAIN h /\ ~h[n].leaf /\ m \in ToSet(h[n].entries)
    BY <1>3
  <2>2. m \in DOMAIN h
    BY <1>1, <1>2, <2>1, HeldIs
  <2> QED
    BY <1>1, <1>3, <2>1, <2>2 DEF Stepped
<1>11. \A n \in DOMAIN h : Len(h[n].entries) <= MaxEntries /\ Len(h[n].entries) \in Nat
  <2>1. \A n \in DOMAIN h : Len(h[n].entries) <= MaxEntries + 0
    BY <1>1 DEF Sized
  <2> QED
    BY <1>2, <2>1, MaxEntriesIs
<1>12. Sized(g, {leaf})
  <2> SUFFICES ASSUME NEW n \in DOMAIN g PROVE Len(g[n].entries) <= MaxEntries + (IF n \in {leaf} THEN 1 ELSE 0)
    BY DEF Sized
  <2> QED
    BY <1>3, <1>5, <1>11, MaxEntriesIs
<1>13. ASSUME Len(g[leaf].entries) <= MaxEntries PROVE Sized(g, {})
  <2> SUFFICES ASSUME NEW n \in DOMAIN g PROVE Len(g[n].entries) <= MaxEntries + 0
    BY DEF Sized
  <2> QED
    BY <1>3, <1>11, <1>13, MaxEntriesIs
<1> QED
  BY <1>1, <1>3, <1>6, <1>7, <1>8, <1>9, <1>10, <1>12, <1>13 DEF Whole

\* The parent of a node of a chain is the one before it, and the first has none.
LEMMA ParentOnChain ==
  ASSUME NEW h, NEW env, NEW items, NEW top, NEW big, NEW stale,
         Good(h, env, items, {top}, big, stale),
         NEW way, Chain(h, top, way), NEW n \in DOMAIN h, ~h[n].leaf,
         NEW k \in DOMAIN way, way[k] \in ToSet(h[n].entries)
  PROVE  k > 1 /\ k - 1 \in DOMAIN way /\ n = way[k - 1]
<1>1. /\ way \in Seq(DOMAIN h) /\ way[1] = top /\ k \in 1..Len(way) /\ DOMAIN way = 1..Len(way)
      /\ \A i \in DOMAIN way : h[way[i]].height + i = h[top].height + 1
      /\ \A i \in 1..(Len(way) - 1) : way[i + 1] \in ToSet(h[way[i]].entries)
  BY DEF Chain
<1>2. Shaped(h) /\ Held(h, FALSE) = DOMAIN h \ {top} /\ Once(h) /\ top \in DOMAIN h
  BY DEF Good, Whole
<1>3. \A m \in DOMAIN h : h[m].leaf \in BOOLEAN /\ h[m].height \in Nat /\ h[m].leaf = (h[m].height = 0)
  BY <1>2 DEF Shaped, NodeShape
<1>4. way[k] # top
  <2>1. way[k] \in Held(h, FALSE)
    BY <1>3, HeldIs
  <2> QED
    BY <1>2, <2>1
<1>5. k > 1
  BY <1>1, <1>4
<1> DEFINE p == way[k - 1]
<1>6. p \in DOMAIN h /\ way[k] \in ToSet(h[p].entries) /\ k - 1 \in DOMAIN way
  <2>1. k - 1 \in 1..(Len(way) - 1) /\ (k - 1) + 1 = k /\ k - 1 \in DOMAIN way
    BY <1>1, <1>5
  <2> QED
    BY <1>1, <2>1
<1>7. ~h[p].leaf
  <2>1. h[p].height + (k - 1) = h[top].height + 1 /\ h[way[k]].height + k = h[top].height + 1 /\ way[k] \in DOMAIN h
    BY <1>1, <1>6
  <2>2. h[p].height # 0
    BY <1>1, <1>2, <1>3, <1>6, <2>1
  <2> QED
    BY <1>3, <1>6, <2>2
<1>8. n = p
  <2>1. h[n].leaf = h[p].leaf
    BY <1>3, <1>6, <1>7
  <2> QED
    BY <1>2, <1>6, <2>1 DEF Once
<1> QED
  BY <1>5, <1>6, <1>8

\* What the two lemmas after this one share: the leaf at the end of the way
\* takes in x and stays exact.
LEMMA LeafIsExact ==
  ASSUME NEW h, NEW g, NEW env, NEW items, NEW tops, NEW leaf, NEW x \in Nat, x \notin items,
         Good(h, env, items, tops, {}, {}), \A y \in items \cup {x} : env[y] \in Envelope,
         OneMore(g, h, leaf, x), g[leaf].env = Expand(h[leaf].env, env[x])
  PROVE  /\ g[leaf].env = Exact(g, env, leaf) /\ Inside(g[leaf].env, Exact(g, env, leaf))
         /\ \A n \in DOMAIN h : /\ \A y \in ToSet(h[n].entries) : EnvsOf(h, env, n)[y] \in Envelope
                                /\ h[n].entries \in Seq(Nat) /\ h[n].entries # <<>> /\ h[n].env \in Envelope
                                /\ h[n].leaf \in BOOLEAN /\ h[n].height \in Nat
                                /\ Exact(h, env, n) \in Envelope
                                /\ Inside(h[n].env, Exact(h, env, n))
                                /\ h[n].height <= 1 => h[n].env = Exact(h, env, n)
<1>1. Shaped(h) /\ Tight(h, env, {}) /\ Held(h, TRUE) = items /\ Held(h, FALSE) \subseteq DOMAIN h
  BY DEF Good, Whole
<1>2. ASSUME NEW n \in DOMAIN h
      PROVE  /\ \A y \in ToSet(h[n].entries) : EnvsOf(h, env, n)[y] \in Envelope
             /\ h[n].entries \in Seq(Nat) /\ h[n].entries # <<>> /\ h[n].env \in Envelope
             /\ Exact(h, env, n) \in Envelope
  BY <1>1, ExactIs
<1>3. \A n \in DOMAIN h : /\ Inside(h[n].env, Exact(h, env, n))
                          /\ h[n].height <= 1 => h[n].env = Exact(h, env, n)
                          /\ h[n].leaf \in BOOLEAN /\ h[n].height \in Nat
  BY <1>1 DEF Tight, Shaped, NodeShape
<1>4. /\ leaf \in DOMAIN h /\ h[leaf].leaf /\ g[leaf].leaf /\ h[leaf].height = 0
      /\ g[leaf].entries = Append(h[leaf].entries, x)
  BY <1>1 DEF OneMore, Shaped
<1>5. Exact(h, env, leaf) = HullOf(h[leaf].entries, env) /\ Exact(g, env, leaf) = HullOf(Append(h[leaf].entries, x), env)
  BY <1>4 DEF Exact, EnvsOf
<1>6. \A y \in ToSet(h[leaf].entries) : env[y] \in Envelope
  BY <1>2, <1>4 DEF EnvsOf
<1>7. HullOf(Append(h[leaf].entries, x), env) = Expand(HullOf(h[leaf].entries, env), env[x])
  BY <1>2, <1>4, <1>6, HullAppend
<1>8. g[leaf].env = Exact(g, env, leaf)
  BY <1>3, <1>4, <1>5, <1>7
<1>9. Expand(h[leaf].env, env[x]) \in Envelope
  BY <1>2, <1>4, InsideIsOrder
<1>10. Inside(g[leaf].env, g[leaf].env)
  BY <1>9, InsideIsOrder
<1> QED
  BY <1>2, <1>3, <1>8, <1>10

\* If the leaf is not overfull, the nodes above it grow by the item.
LEMMA ItemIsIn ==
  ASSUME NEW h, NEW g, NEW env, NEW items, NEW top, NEW way, NEW x \in Nat, x \notin items,
         Good(h, env, items, {top}, {}, {}), \A y \in items \cup {x} : env[y] \in Envelope,
         Chain(h, top, way), OneMore(g, h, way[Len(way)], x), Len(g[way[Len(way)]].entries) <= MaxEntries,
         \A n \in DOMAIN h : g[n].env = IF n \in ToSet(way) THEN Expand(h[n].env, env[x]) ELSE h[n].env
  PROVE  /\ Good(g, env, items \cup {x}, {top}, {}, {})
         /\ ExactTree(h, env) => ExactTree(g, env)
<1> DEFINE leaf == way[Len(way)]
           e == env[x]
<1>0. e \in Envelope
  OBVIOUS
<1>1. Shaped(g) /\ Whole(g, items \cup {x}, {top}) /\ Stepped(g) /\ Sized(g, {})
  BY OneMoreIsWhole
<1>2. /\ way \in Seq(DOMAIN h) /\ Len(way) \in Nat \ {0} /\ DOMAIN way = 1..Len(way)
      /\ \A k \in DOMAIN way : h[way[k]].height + k = h[top].height + 1
      /\ \A k \in 1..(Len(way) - 1) : way[k + 1] \in ToSet(h[way[k]].entries)
  BY DEF Chain
<1>3. leaf \in DOMAIN h /\ leaf \in ToSet(way) /\ ToSet(way) = {way[k] : k \in DOMAIN way} /\ h[leaf].leaf
  BY <1>2 DEF ToSet, OneMore
<1>4. g[leaf].env = Expand(h[leaf].env, e)
  BY <1>3
<1> HIDE DEF leaf
<1>5. g[leaf].env = Exact(g, env, leaf) /\ Inside(g[leaf].env, Exact(g, env, leaf))
  BY <1>4, LeafIsExact DEF leaf
<1>6. ASSUME NEW n \in DOMAIN h
      PROVE  /\ \A y \in ToSet(h[n].entries) : EnvsOf(h, env, n)[y] \in Envelope
             /\ h[n].entries \in Seq(Nat) /\ h[n].entries # <<>> /\ h[n].env \in Envelope
             /\ h[n].leaf \in BOOLEAN /\ h[n].height \in Nat
             /\ Exact(h, env, n) \in Envelope
             /\ Inside(h[n].env, Exact(h, env, n))
             /\ h[n].height <= 1 => h[n].env = Exact(h, env, n)
  BY <1>4, LeafIsExact DEF leaf
<1>7. /\ Shaped(h) /\ Held(h, FALSE) \subseteq DOMAIN h
      /\ DOMAIN g = DOMAIN h /\ \A n \in DOMAIN h : g[n].leaf = h[n].leaf /\ g[n].height = h[n].height
      /\ \A n \in DOMAIN h : n # leaf => g[n].entries = h[n].entries
  BY DEF Good, Whole, OneMore, leaf
<1>8. ASSUME NEW n \in DOMAIN h, n # leaf
      PROVE  Inside(g[n].env, Exact(g, env, n)) /\ (h[n].env = Exact(h, env, n) => g[n].env = Exact(g, env, n))
  <2>1. Exact(g, env, n) = HullOf(h[n].entries, EnvsOf(g, env, n))
    BY <1>7, <1>8 DEF Exact
  <2>2. CASE n \in ToSet(way)
    <3>1. PICK k \in DOMAIN way : n = way[k]
      BY <1>3, <2>2
    <3>2. k < Len(way)
      BY <1>2, <1>8, <3>1 DEF leaf
    <3> DEFINE c == way[k + 1]
    <3>3. c \in ToSet(h[n].entries) /\ c \in ToSet(way) /\ c \in DOMAIN h
      <4>1. k \in 1..(Len(way) - 1) /\ k + 1 \in DOMAIN way
        BY <1>2, <3>2
      <4> QED
        BY <1>2, <1>3, <3>1, <4>1
    <3>4. ~h[n].leaf
      <4>1. h[way[k]].height + k = h[top].height + 1 /\ h[way[Len(way)]].height + Len(way) = h[top].height + 1
        BY <1>2, <3>1
      <4>2. h[n].height # 0
        BY <1>2, <1>3, <1>6, <3>1, <3>2, <4>1 DEF leaf
      <4> QED
        BY <1>7, <4>2 DEF Shaped
    <3>5. EnvsOf(h, env, n) = EnvsIn(h) /\ EnvsOf(g, env, n) = EnvsIn(g)
      BY <1>7, <3>4 DEF EnvsOf
    <3>6. \A y \in ToSet(h[n].entries) : y \in DOMAIN h
      BY <1>6, <1>7, <3>4, HeldIs
    <3>7. \A y \in DOMAIN h : /\ EnvsIn(h)[y] = h[y].env
                              /\ EnvsIn(g)[y] = IF y \in ToSet(way) THEN Expand(h[y].env, e) ELSE h[y].env
      BY <1>7 DEF EnvsIn
    <3>8. HullOf(h[n].entries, EnvsIn(g)) = Expand(HullOf(h[n].entries, EnvsIn(h)), e)
      <4>1. \A y \in ToSet(h[n].entries) : EnvsIn(h)[y] \in Envelope
        BY <1>6, <3>5
      <4>2. \A y \in ToSet(h[n].entries) : EnvsIn(g)[y] = EnvsIn(h)[y] \/ EnvsIn(g)[y] = Expand(EnvsIn(h)[y], e)
        BY <3>6, <3>7
      <4>3. \E y \in ToSet(h[n].entries) : EnvsIn(g)[y] = Expand(EnvsIn(h)[y], e)
        BY <3>3, <3>7
      <4>4. h[n].entries \in Seq(Nat) /\ h[n].entries # <<>>
        BY <1>6
      <4> QED
        BY <1>0, <4>1, <4>2, <4>3, <4>4, HullGrowsBy
    <3>9. Exact(g, env, n) = Expand(Exact(h, env, n), e) /\ g[n].env = Expand(h[n].env, e)
      BY <2>1, <2>2, <3>5, <3>8 DEF Exact
    <3> DEFINE a == h[n].env
               b == Exact(h, env, n)
               d == Expand(b, e)
    <3>10. Inside(Expand(a, e), d)
      <4>1. a \in Envelope /\ b \in Envelope /\ Inside(a, b)
        BY <1>6
      <4> HIDE DEF a, b
      <4>2. d \in Envelope /\ Inside(b, d) /\ Inside(e, d)
        BY <1>0, <4>1, InsideIsOrder
      <4> HIDE DEF d
      <4>3. Inside(a, d)
        BY <4>1, <4>2, InsideIsOrder
      <4> QED
        BY <1>0, <4>1, <4>2, <4>3, InsideIsOrder
    <3> QED
      BY <1>6, <3>9, <3>10
  <2>3. CASE n \notin ToSet(way)
    <3>1. \A y \in ToSet(h[n].entries) : EnvsOf(g, env, n)[y] = EnvsOf(h, env, n)[y]
      <4>1. CASE h[n].leaf
        BY <1>7, <4>1 DEF EnvsOf
      <4>2. CASE ~h[n].leaf
        <5> SUFFICES ASSUME NEW y \in ToSet(h[n].entries) PROVE EnvsIn(g)[y] = EnvsIn(h)[y]
          BY <1>7, <4>2 DEF EnvsOf
        <5>1. y \in DOMAIN h
          BY <1>6, <1>7, <4>2, HeldIs
        <5>2. y \notin ToSet(way)
          <6> SUFFICES ASSUME NEW k \in DOMAIN way, y = way[k] PROVE FALSE
            BY <1>3
          <6>1. k - 1 \in DOMAIN way /\ n = way[k - 1]
            BY <4>2, ParentOnChain
          <6> QED
            BY <1>3, <2>3, <6>1
        <5> QED
          BY <1>7, <5>1, <5>2 DEF EnvsIn
      <4> QED
        BY <4>1, <4>2
    <3>2. Exact(g, env, n) = Exact(h, env, n)
      BY <2>1, <3>1, SameHull DEF Exact
    <3> QED
      BY <1>6, <2>3, <3>2
  <2> QED
    BY <2>2, <2>3
<1>9. Tight(g, env, {})
  BY <1>5, <1>6, <1>7, <1>8 DEF Tight
<1>10. ExactTree(h, env) => ExactTree(g, env)
  BY <1>5, <1>7, <1>8 DEF ExactTree
<1> QED
  BY <1>1, <1>9, <1>10 DEF Good

\* If it is, only the leaf has changed: its parent is out of date.
LEMMA LeafIsOver ==
  ASSUME NEW h, NEW g, NEW env, NEW items, NEW top, NEW way, NEW x \in Nat, x \notin items,
         Good(h, env, items, {top}, {}, {}), \A y \in items \cup {x} : env[y] \in Envelope,
         Chain(h, top, way), OneMore(g, h, way[Len(way)], x),
         \A n \in DOMAIN h : g[n].env = IF n = way[Len(way)] THEN Expand(h[n].env, env[x]) ELSE h[n].env
  PROVE  /\ Good(g, env, items \cup {x}, {top}, {way[Len(way)]}, IF Len(way) > 1 THEN {way[Len(way) - 1]} ELSE {})
         /\ Chain(g, top, way)
         /\ ExactTree(h, env) => ExactBut(g, env, IF Len(way) > 1 THEN {way[Len(way) - 1]} ELSE {})
<1> DEFINE leaf == way[Len(way)]
           e == env[x]
           stale == IF Len(way) > 1 THEN {way[Len(way) - 1]} ELSE {}
<1>0. e \in Envelope
  OBVIOUS
<1>1. Shaped(g) /\ Whole(g, items \cup {x}, {top}) /\ Stepped(g) /\ Sized(g, {leaf})
  BY OneMoreIsWhole
<1>2. /\ way \in Seq(DOMAIN h) /\ Len(way) \in Nat \ {0} /\ DOMAIN way = 1..Len(way) /\ way # <<>> /\ way[1] = top
      /\ \A k \in DOMAIN way : h[way[k]].height + k = h[top].height + 1
      /\ \A k \in 1..(Len(way) - 1) : way[k + 1] \in ToSet(h[way[k]].entries)
  BY DEF Chain
<1>3. leaf \in DOMAIN h /\ Len(way) \in DOMAIN way
  BY <1>2
<1> HIDE DEF leaf
<1>4. g[leaf].env = Expand(h[leaf].env, e)
  BY <1>3 DEF leaf
<1>5. g[leaf].env = Exact(g, env, leaf) /\ Inside(g[leaf].env, Exact(g, env, leaf))
  BY <1>4, LeafIsExact DEF leaf
<1>6. ASSUME NEW n \in DOMAIN h
      PROVE  /\ \A y \in ToSet(h[n].entries) : EnvsOf(h, env, n)[y] \in Envelope
             /\ h[n].entries \in Seq(Nat) /\ h[n].entries # <<>> /\ h[n].env \in Envelope
             /\ h[n].leaf \in BOOLEAN /\ h[n].height \in Nat
             /\ Exact(h, env, n) \in Envelope
             /\ Inside(h[n].env, Exact(h, env, n))
             /\ h[n].height <= 1 => h[n].env = Exact(h, env, n)
  BY <1>4, LeafIsExact DEF leaf
<1>7. /\ Shaped(h) /\ Held(h, FALSE) \subseteq DOMAIN h
      /\ DOMAIN g = DOMAIN h /\ \A n \in DOMAIN h : g[n].leaf = h[n].leaf /\ g[n].height = h[n].height
      /\ \A n \in DOMAIN h : n # leaf => g[n].entries = h[n].entries /\ g[n].env = h[n].env
      /\ g[leaf].entries = Append(h[leaf].entries, x)
  BY <1>3 DEF Good, Whole, OneMore, leaf
<1>8. ASSUME NEW n \in DOMAIN h, n # leaf
      PROVE  Inside(g[n].env, Exact(g, env, n)) /\ (h[n].env = Exact(h, env, n) /\ n \notin stale => g[n].env = Exact(g, env, n))
  <2>1. Exact(g, env, n) = HullOf(h[n].entries, EnvsOf(g, env, n))
    BY <1>7, <1>8 DEF Exact
  <2>2. CASE ~h[n].leaf /\ leaf \in ToSet(h[n].entries)
    <3>1. EnvsOf(h, env, n) = EnvsIn(h) /\ EnvsOf(g, env, n) = EnvsIn(g)
      BY <1>7, <2>2 DEF EnvsOf
    <3>2. \A y \in ToSet(h[n].entries) : y \in DOMAIN h
      BY <1>6, <1>7, <2>2, HeldIs
    <3>3. \A y \in DOMAIN h : EnvsIn(h)[y] = h[y].env /\ EnvsIn(g)[y] = IF y = leaf THEN Expand(h[y].env, e) ELSE h[y].env
      BY <1>4, <1>7 DEF EnvsIn
    <3>4. HullOf(h[n].entries, EnvsIn(g)) = Expand(HullOf(h[n].entries, EnvsIn(h)), e)
      <4>1. \A y \in ToSet(h[n].entries) : EnvsIn(h)[y] \in Envelope
        BY <1>6, <3>1
      <4>2. \A y \in ToSet(h[n].entries) : EnvsIn(g)[y] = EnvsIn(h)[y] \/ EnvsIn(g)[y] = Expand(EnvsIn(h)[y], e)
        BY <3>2, <3>3
      <4>3. \E y \in ToSet(h[n].entries) : EnvsIn(g)[y] = Expand(EnvsIn(h)[y], e)
        BY <1>3, <2>2, <3>3
      <4>4. h[n].entries \in Seq(Nat) /\ h[n].entries # <<>>
        BY <1>6
      <4> QED
        BY <1>0, <4>1, <4>2, <4>3, <4>4, HullGrowsBy
    <3>5. Exact(g, env, n) = Expand(Exact(h, env, n), e) /\ g[n].env = h[n].env
      BY <1>7, <1>8, <2>1, <3>1, <3>4 DEF Exact
    <3>6. Inside(h[n].env, Expand(Exact(h, env, n), e))
      <4> DEFINE a == h[n].env
                 b == Exact(h, env, n)
                 d == Expand(b, e)
      <4>1. a \in Envelope /\ b \in Envelope /\ Inside(a, b)
        BY <1>6
      <4> HIDE DEF a, b
      <4>2. d \in Envelope /\ Inside(b, d)
        BY <1>0, <4>1, InsideIsOrder
      <4> HIDE DEF d
      <4>3. Inside(a, d)
        BY <4>1, <4>2, InsideIsOrder
      <4> QED
        BY <4>3 DEF a, b, d
    <3>7. n \in stale
      <4>1. PICK k \in DOMAIN way : k = Len(way)
        BY <1>3
      <4>2. way[k] \in ToSet(h[n].entries)
        BY <2>2, <4>1 DEF leaf
      <4>3. ~h[n].leaf
        BY <2>2
      <4>4. k > 1 /\ k - 1 \in DOMAIN way /\ n = way[k - 1]
        <5> HIDE DEF e, stale
        <5> QED
          BY <4>2, <4>3, ParentOnChain
      <4> QED
        BY <1>2, <4>1, <4>4
    <3> QED
      BY <3>5, <3>6, <3>7
  <2>3. CASE h[n].leaf \/ leaf \notin ToSet(h[n].entries)
    <3>1. \A y \in ToSet(h[n].entries) : EnvsOf(g, env, n)[y] = EnvsOf(h, env, n)[y]
      <4>1. CASE h[n].leaf
        BY <1>7, <4>1 DEF EnvsOf
      <4>2. CASE ~h[n].leaf
        <5> SUFFICES ASSUME NEW y \in ToSet(h[n].entries) PROVE EnvsIn(g)[y] = EnvsIn(h)[y]
          BY <1>7, <4>2 DEF EnvsOf
        <5>1. y \in DOMAIN h /\ y # leaf
          BY <1>6, <1>7, <2>3, <4>2, HeldIs
        <5> QED
          BY <1>7, <5>1 DEF EnvsIn
      <4> QED
        BY <4>1, <4>2
    <3>2. Exact(g, env, n) = Exact(h, env, n) /\ g[n].env = h[n].env
      BY <1>7, <1>8, <2>1, <3>1, SameHull DEF Exact
    <3> QED
      BY <1>6, <3>2
  <2> QED
    BY <2>2, <2>3
<1>9. Tight(g, env, stale)
  BY <1>5, <1>6, <1>7, <1>8 DEF Tight
<1>10. Chain(g, top, way)
  <2>1. top \in DOMAIN h
    BY DEF Good, Whole
  <2>2. \A k \in DOMAIN way : way[k] \in DOMAIN h
    BY <1>2
  <2>3. \A k \in DOMAIN way : g[way[k]].height + k = g[top].height + 1
    BY <1>2, <1>7, <2>1, <2>2
  <2>4. ASSUME NEW k \in 1..(Len(way) - 1) PROVE way[k + 1] \in ToSet(g[way[k]].entries)
    <3>1. way[k + 1] \in ToSet(h[way[k]].entries) /\ way[k] \in DOMAIN h
      BY <1>2
    <3>2. way[k] # leaf
      <4>1. h[way[k]].height + k = h[way[Len(way)]].height + Len(way) /\ k < Len(way)
        BY <1>2
      <4>2. h[way[k]].height \in Nat /\ k \in Nat /\ Len(way) \in Nat
        BY <1>2, <1>6, <3>1
      <4> QED
        BY <4>1, <4>2 DEF leaf
    <3> QED
      BY <1>7, <3>1, <3>2
  <2> QED
    BY <1>2, <1>7, <2>3, <2>4 DEF Chain
<1>11. ExactTree(h, env) => ExactBut(g, env, stale)
  BY <1>5, <1>7, <1>8 DEF ExactTree, ExactBut
<1> QED
  BY <1>1, <1>9, <1>10, <1>11 DEF Good, leaf

-----------------------------------------------------------------------------
(***************************************************************************)
(* Splitting.                                                              *)
(***************************************************************************)
\* The nodes k are h with l and r in the place of n, which may still be
\* named by its parent.
Splits(k, h, env, n, l, r) ==
  /\ n \in DOMAIN h /\ l \in Nat \ DOMAIN h /\ r \in Nat \ DOMAIN h /\ l # r
  /\ DOMAIN k = (DOMAIN h \ {n}) \cup {l, r}
  /\ \A m \in DOMAIN h \ {n} : k[m] = h[m]
  /\ \A i \in {l, r} :
       /\ k[i] \in NodeShape /\ k[i].leaf = h[n].leaf /\ k[i].height = h[n].height
       /\ k[i].entries # <<>> /\ Len(k[i].entries) <= MaxEntries /\ IsInjective(k[i].entries)
       /\ k[i].env = HullOf(k[i].entries, EnvsOf(h, env, n))
  /\ ToSet(k[l].entries) \cup ToSet(k[r].entries) = ToSet(h[n].entries)
  /\ ToSet(k[l].entries) \cap ToSet(k[r].entries) = {}

\* What holds of a node of a good tree.
NodeFacts(h, env, tops, big, stale, n) ==
  /\ h[n] \in NodeShape /\ h[n].leaf \in BOOLEAN /\ h[n].height \in Nat /\ h[n].leaf = (h[n].height = 0)
  /\ h[n].entries \in Seq(Nat) /\ h[n].entries # <<>> /\ h[n].env \in Envelope /\ IsInjective(h[n].entries)
  /\ Len(h[n].entries) <= MaxEntries + (IF n \in big THEN 1 ELSE 0)
  /\ \A y \in ToSet(h[n].entries) : EnvsOf(h, env, n)[y] \in Envelope
  /\ Exact(h, env, n) \in Envelope /\ Inside(h[n].env, Exact(h, env, n))
  /\ h[n].height <= 1 /\ n \notin stale => h[n].env = Exact(h, env, n)
  /\ ~h[n].leaf => \A y \in ToSet(h[n].entries) :
                     y \in DOMAIN h /\ y \notin tops /\ h[y].height = h[n].height - 1 /\ y # n

\* What a good tree says of each of its nodes.
LEMMA GoodIs ==
  ASSUME NEW h, NEW env, NEW items, NEW tops, NEW big, NEW stale,
         Good(h, env, items, tops, big, stale), \A y \in items : env[y] \in Envelope
  PROVE  /\ Held(h, TRUE) = items /\ Held(h, FALSE) = DOMAIN h \ tops /\ tops \subseteq DOMAIN h
         /\ \A n \in DOMAIN h : NodeFacts(h, env, tops, big, stale, n)
<1>1. /\ Shaped(h) /\ Stepped(h) /\ Sized(h, big) /\ Tight(h, env, stale) /\ Once(h)
      /\ Held(h, TRUE) = items /\ tops \subseteq DOMAIN h /\ Held(h, FALSE) = DOMAIN h \ tops
  BY DEF Good, Whole
<1> SUFFICES ASSUME NEW n \in DOMAIN h PROVE NodeFacts(h, env, tops, big, stale, n)
  BY <1>1
<1>2. h[n] \in NodeShape /\ h[n].leaf \in BOOLEAN /\ h[n].height \in Nat /\ h[n].leaf = (h[n].height = 0)
  BY <1>1 DEF Shaped, NodeShape
<1>3. /\ h[n].entries \in Seq(Nat) /\ h[n].entries # <<>> /\ h[n].env \in Envelope
      /\ \A y \in ToSet(h[n].entries) : EnvsOf(h, env, n)[y] \in Envelope
      /\ Exact(h, env, n) \in Envelope
  BY <1>1, ExactIs
<1>4. IsInjective(h[n].entries)
  BY <1>1 DEF Once
<1>5. Inside(h[n].env, Exact(h, env, n)) /\ (h[n].height <= 1 /\ n \notin stale => h[n].env = Exact(h, env, n))
  BY <1>1 DEF Tight
<1>6. Len(h[n].entries) <= MaxEntries + (IF n \in big THEN 1 ELSE 0)
  BY <1>1 DEF Sized
<1>7. ASSUME ~h[n].leaf, NEW y \in ToSet(h[n].entries)
      PROVE  y \in DOMAIN h /\ y \notin tops /\ h[y].height = h[n].height - 1 /\ y # n
  <2>1. h[n].leaf = FALSE
    BY <1>2, <1>7
  <2>2. y \in DOMAIN h \ tops
    BY <1>1, <1>7, <2>1, HeldIs
  <2>3. h[y].height = h[n].height - 1
    BY <1>1, <1>7 DEF Stepped
  <2> QED
    BY <1>2, <2>2, <2>3
<1> QED
  BY <1>2, <1>3, <1>4, <1>5, <1>6, <1>7 DEF NodeFacts

\* An entry is in one node only.
LEMMA OneParent ==
  ASSUME NEW h, NEW env, NEW items, NEW tops, NEW big, NEW stale, Good(h, env, items, tops, big, stale),
         NEW n \in DOMAIN h, NEW m \in DOMAIN h, h[n].leaf = h[m].leaf,
         NEW y \in ToSet(h[n].entries), y \in ToSet(h[m].entries)
  PROVE  n = m
BY DEF Good, Whole, Once

\* The halves of n in a good tree.
SplitFacts(h, k, env, items, tops, n, l, r) ==
  /\ Shaped(k) /\ Sized(k, {}) /\ Once(k) /\ Held(k, TRUE) = items /\ Held(k, FALSE) = DOMAIN h \ tops
  /\ \A i \in {l, r} : k[i].env = Exact(k, env, i) /\ k[i].env \in Envelope /\ (~k[i].leaf => n \notin ToSet(k[i].entries))
  /\ \A c \in Envelope : Inside(k[l].env, c) /\ Inside(k[r].env, c) => Inside(h[n].env, c)
  /\ \A m \in DOMAIN k : ~k[m].leaf => \A y \in ToSet(k[m].entries) : y # n => y \in DOMAIN k /\ k[y].height = k[m].height - 1
  /\ \A m \in DOMAIN h \ {n} : h[m].leaf \/ n \notin ToSet(h[m].entries) => Exact(k, env, m) = Exact(h, env, m)

\* The halves of n: each is exact, together they are as wide as n was, and
\* they hold what n held.
LEMMA SplitIs ==
  ASSUME NEW h, NEW k, NEW env, NEW items, NEW tops, NEW n, NEW l, NEW r, NEW stale,
         Good(h, env, items, tops, {n}, stale), \A y \in items : env[y] \in Envelope,
         n \notin stale \/ h[n].height > 1,
         Splits(k, h, env, n, l, r)
  PROVE  SplitFacts(h, k, env, items, tops, n, l, r)
<1> DEFINE big == {n}
<1>0. Good(h, env, items, tops, big, stale)
  OBVIOUS
<1> HIDE DEF big
<1>1. /\ Held(h, TRUE) = items /\ Held(h, FALSE) = DOMAIN h \ tops /\ tops \subseteq DOMAIN h
      /\ \A m \in DOMAIN h :
           /\ h[m] \in NodeShape /\ h[m].leaf \in BOOLEAN /\ h[m].height \in Nat /\ h[m].leaf = (h[m].height = 0)
           /\ h[m].entries \in Seq(Nat) /\ h[m].entries # <<>> /\ h[m].env \in Envelope /\ IsInjective(h[m].entries)
           /\ Len(h[m].entries) <= MaxEntries + (IF m \in big THEN 1 ELSE 0)
           /\ \A y \in ToSet(h[m].entries) : EnvsOf(h, env, m)[y] \in Envelope
           /\ Exact(h, env, m) \in Envelope /\ Inside(h[m].env, Exact(h, env, m))
           /\ h[m].height <= 1 /\ m \notin stale => h[m].env = Exact(h, env, m)
           /\ ~h[m].leaf => \A y \in ToSet(h[m].entries) :
                              y \in DOMAIN h /\ y \notin tops /\ h[y].height = h[m].height - 1 /\ y # m
  <2>1. \A m \in DOMAIN h : NodeFacts(h, env, tops, big, stale, m)
    BY <1>0, GoodIs
  <2>2. Held(h, TRUE) = items /\ Held(h, FALSE) = DOMAIN h \ tops /\ tops \subseteq DOMAIN h
    BY <1>0, GoodIs
  <2> QED
    BY <2>1, <2>2 DEF NodeFacts
<1>2. /\ n \in DOMAIN h /\ l \notin DOMAIN h /\ r \notin DOMAIN h /\ l # r
      /\ DOMAIN k = (DOMAIN h \ {n}) \cup {l, r}
      /\ \A m \in DOMAIN h \ {n} : k[m] = h[m]
      /\ \A i \in {l, r} :
           /\ k[i] \in NodeShape /\ k[i].leaf = h[n].leaf /\ k[i].height = h[n].height
           /\ k[i].entries # <<>> /\ Len(k[i].entries) <= MaxEntries /\ IsInjective(k[i].entries)
           /\ k[i].env = HullOf(k[i].entries, EnvsOf(h, env, n))
      /\ ToSet(k[l].entries) \cup ToSet(k[r].entries) = ToSet(h[n].entries)
      /\ ToSet(k[l].entries) \cap ToSet(k[r].entries) = {}
  BY DEF Splits
<1>3. \A i \in {l, r} : k[i].entries \in Seq(Nat) /\ k[i].env \in Envelope
  BY <1>2 DEF NodeShape
<1>4. Shaped(k)
  <2> SUFFICES ASSUME NEW m \in DOMAIN k PROVE k[m] \in NodeShape /\ k[m].leaf = (k[m].height = 0) /\ k[m].entries # <<>>
    BY DEF Shaped
  <2>1. CASE m \in DOMAIN h \ {n}
    BY <1>1, <1>2, <2>1
  <2>2. CASE m \in {l, r}
    BY <1>1, <1>2, <2>2
  <2> QED
    BY <1>2, <2>1, <2>2
<1>5. Sized(k, {})
  <2> SUFFICES ASSUME NEW m \in DOMAIN k PROVE Len(k[m].entries) <= MaxEntries + 0
    BY DEF Sized
  <2>1. CASE m \in DOMAIN h \ {n}
    <3>1. Len(h[m].entries) <= MaxEntries + (IF m \in big THEN 1 ELSE 0) /\ m \notin big
      BY <1>1, <2>1 DEF big
    <3> QED
      BY <1>2, <2>1, <3>1
  <2>2. CASE m \in {l, r}
    BY <1>2, <2>2, MaxEntriesIs
  <2> QED
    BY <1>2, <2>1, <2>2
<1>6. \A i \in {l, r} : \A y \in ToSet(k[i].entries) : y \in ToSet(h[n].entries)
  BY <1>2
<1>7. Once(k)
  <2> SUFFICES ASSUME NEW a \in DOMAIN k, NEW b \in DOMAIN k
               PROVE  /\ IsInjective(k[a].entries)
                      /\ a # b /\ k[a].leaf = k[b].leaf => ToSet(k[a].entries) \cap ToSet(k[b].entries) = {}
    BY DEF Once
  <2>1. IsInjective(k[a].entries)
    BY <1>1, <1>2
  <2>2. ASSUME a # b, k[a].leaf = k[b].leaf, NEW y \in ToSet(k[a].entries), y \in ToSet(k[b].entries) PROVE FALSE
    <3>1. CASE a \in DOMAIN h \ {n} /\ b \in DOMAIN h \ {n}
      BY <1>2, <2>2, <3>1, OneParent
    <3>2. CASE a \in DOMAIN h \ {n} /\ b \in {l, r}
      <4>1. y \in ToSet(h[a].entries) /\ y \in ToSet(h[n].entries) /\ h[a].leaf = h[n].leaf
        BY <1>2, <1>6, <2>2, <3>2
      <4> QED
        BY <1>2, <3>2, <4>1, OneParent
    <3>3. CASE a \in {l, r} /\ b \in DOMAIN h \ {n}
      <4>1. y \in ToSet(h[b].entries) /\ y \in ToSet(h[n].entries) /\ h[b].leaf = h[n].leaf
        BY <1>2, <1>6, <2>2, <3>3
      <4> QED
        BY <1>2, <3>3, <4>1, OneParent
    <3>4. CASE a \in {l, r} /\ b \in {l, r}
      BY <1>2, <2>2, <3>4
    <3> QED
      BY <1>2, <3>1, <3>2, <3>3, <3>4
  <2> QED
    BY <2>1, <2>2
<1>8. ASSUME NEW leaf \in BOOLEAN PROVE Held(k, leaf) = Held(h, leaf)
  <2>1. ASSUME NEW y \in Held(k, leaf) PROVE y \in Held(h, leaf)
    <3>1. PICK m \in DOMAIN k : k[m].leaf = leaf /\ y \in ToSet(k[m].entries)
      BY HeldIs
    <3>2. CASE m \in DOMAIN h \ {n}
      BY <1>2, <3>1, <3>2, HeldIs
    <3>3. CASE m \in {l, r}
      <4>1. h[n].leaf = leaf /\ y \in ToSet(h[n].entries)
        BY <1>2, <1>6, <3>1, <3>3
      <4> QED
        BY <1>2, <4>1, HeldIs
    <3> QED
      BY <1>2, <3>2, <3>3
  <2>2. ASSUME NEW y \in Held(h, leaf) PROVE y \in Held(k, leaf)
    <3>1. PICK m \in DOMAIN h : h[m].leaf = leaf /\ y \in ToSet(h[m].entries)
      BY HeldIs
    <3>2. CASE m # n
      <4>1. m \in DOMAIN k /\ k[m].leaf = leaf /\ y \in ToSet(k[m].entries)
        BY <1>2, <3>1, <3>2
      <4> QED
        BY <4>1, HeldIs
    <3>3. CASE m = n
      <4>1. PICK i \in {l, r} : y \in ToSet(k[i].entries)
        BY <1>2, <3>1, <3>3
      <4>2. i \in DOMAIN k /\ k[i].leaf = leaf
        BY <1>2, <3>1, <3>3
      <4> QED
        BY <4>1, <4>2, HeldIs
    <3> QED
      BY <3>2, <3>3
  <2> QED
    BY <2>1, <2>2
<1>9. \A m \in DOMAIN k : ~k[m].leaf => \A y \in ToSet(k[m].entries) : y # n => y \in DOMAIN k /\ k[y].height = k[m].height - 1
  <2> SUFFICES ASSUME NEW m \in DOMAIN k, ~k[m].leaf, NEW y \in ToSet(k[m].entries), y # n
               PROVE  y \in DOMAIN k /\ k[y].height = k[m].height - 1
    OBVIOUS
  <2>1. \E o \in DOMAIN h : ~h[o].leaf /\ h[o].height = k[m].height /\ y \in ToSet(h[o].entries)
    <3>1. CASE m \in DOMAIN h \ {n}
      BY <1>2, <3>1
    <3>2. CASE m \in {l, r}
      BY <1>2, <1>6, <3>2
    <3> QED
      BY <1>2, <3>1, <3>2
  <2>2. y \in DOMAIN h \ {n} /\ h[y].height = k[m].height - 1
    BY <1>1, <2>1
  <2> QED
    BY <1>2, <2>2
\* The envelopes of the entries of a node other than n are what they were.
<1>10. ASSUME NEW m \in DOMAIN k, NEW o \in DOMAIN h, k[m].leaf = h[o].leaf,
              ToSet(k[m].entries) \subseteq ToSet(h[o].entries), h[o].leaf \/ n \notin ToSet(k[m].entries)
       PROVE  \A y \in ToSet(k[m].entries) : EnvsOf(k, env, m)[y] = EnvsOf(h, env, o)[y]
  <2>1. CASE h[o].leaf
    BY <1>10, <2>1 DEF EnvsOf
  <2>2. CASE ~h[o].leaf
    <3> SUFFICES ASSUME NEW y \in ToSet(k[m].entries) PROVE EnvsIn(k)[y] = EnvsIn(h)[y]
      BY <1>10, <2>2 DEF EnvsOf
    <3>1. y \in DOMAIN h \ {n}
      BY <1>1, <1>10, <2>2
    <3> QED
      BY <1>2, <3>1 DEF EnvsIn
  <2> QED
    BY <2>1, <2>2
<1>11. ASSUME NEW i \in {l, r} PROVE k[i].env = Exact(k, env, i) /\ (~k[i].leaf => n \notin ToSet(k[i].entries))
  <2>1. i \in DOMAIN k /\ ToSet(k[i].entries) \subseteq ToSet(h[n].entries) /\ k[i].leaf = h[n].leaf
    BY <1>2, <1>6
  <2>2. ~k[i].leaf => n \notin ToSet(k[i].entries)
    BY <1>1, <1>2, <2>1
  <2>3. \A y \in ToSet(k[i].entries) : EnvsOf(k, env, i)[y] = EnvsOf(h, env, n)[y]
    BY <1>2, <1>10, <2>1, <2>2
  <2>4. HullOf(k[i].entries, EnvsOf(k, env, i)) = HullOf(k[i].entries, EnvsOf(h, env, n))
    BY <2>3, SameHull
  <2> QED
    BY <1>2, <2>2, <2>4 DEF Exact
<1>12. ASSUME NEW m \in DOMAIN h \ {n}, h[m].leaf \/ n \notin ToSet(h[m].entries) PROVE Exact(k, env, m) = Exact(h, env, m)
  <2>1. m \in DOMAIN k /\ k[m] = h[m]
    BY <1>2
  <2>2. \A y \in ToSet(k[m].entries) : EnvsOf(k, env, m)[y] = EnvsOf(h, env, m)[y]
    BY <1>10, <1>12, <2>1
  <2>3. HullOf(k[m].entries, EnvsOf(k, env, m)) = HullOf(k[m].entries, EnvsOf(h, env, m))
    BY <2>2, SameHull
  <2> QED
    BY <2>1, <2>3 DEF Exact
<1>13. ASSUME NEW c \in Envelope, Inside(k[l].env, c), Inside(k[r].env, c) PROVE Inside(h[n].env, c)
  <2> DEFINE e == EnvsOf(h, env, n)
  <2>1. \A y \in ToSet(h[n].entries) : e[y] \in Envelope
    BY <1>1, <1>2
  <2> HIDE DEF e
  <2>2. ASSUME NEW i \in {l, r}, NEW y \in ToSet(k[i].entries) PROVE Inside(e[y], k[i].env)
    <3>1. /\ k[i].entries \in Seq(Nat) /\ k[i].entries # <<>> /\ k[i].env = HullOf(k[i].entries, e)
          /\ \A z \in ToSet(k[i].entries) : e[z] \in Envelope
      BY <1>2, <1>3, <1>6, <2>1 DEF e
    <3> QED
      BY <3>1, HullOfIs
  <2>3. ASSUME NEW y \in ToSet(h[n].entries) PROVE Inside(e[y], c)
    <3>1. PICK i \in {l, r} : y \in ToSet(k[i].entries)
      BY <1>2
    <3>2. Inside(e[y], k[i].env) /\ Inside(k[i].env, c) /\ k[i].env \in Envelope /\ e[y] \in Envelope
      BY <1>3, <1>13, <2>1, <2>2, <3>1
    <3> QED
      BY <3>2, InsideIsOrder
  <2>4. Inside(HullOf(h[n].entries, e), c)
    <3>1. h[n].entries \in Seq(Nat) /\ h[n].entries # <<>>
      BY <1>1, <1>2
    <3> QED
      BY <2>1, <2>3, <3>1, HullOfIs
  <2>5. Inside(Exact(h, env, n), c) /\ Exact(h, env, n) \in Envelope /\ Inside(h[n].env, Exact(h, env, n)) /\ h[n].env \in Envelope
    BY <1>1, <1>2, <2>4 DEF Exact, e
  <2> QED
    BY <2>5, InsideIsOrder
<1>14. Held(k, TRUE) = items /\ Held(k, FALSE) = DOMAIN h \ tops
  BY <1>1, <1>8
<1> QED
  BY <1>3, <1>4, <1>5, <1>7, <1>9, <1>11, <1>12, <1>13, <1>14 DEF SplitFacts

\* If n has no parent the halves are tops instead of it.
LEMMA HalvesAreTops ==
  ASSUME NEW h, NEW k, NEW env, NEW items, NEW n, NEW l, NEW r, NEW one, one = {n}, NEW none, none = {},
         Good(h, env, items, one, one, none), \A y \in items : env[y] \in Envelope,
         Splits(k, h, env, n, l, r)
  PROVE  Good(k, env, items, {l, r}, {}, {}) /\ (ExactTree(h, env) => ExactTree(k, env))
<1>1. SplitFacts(h, k, env, items, one, n, l, r)
  <2>1. Good(h, env, items, one, {n}, none) /\ n \notin none
    OBVIOUS
  <2> QED
    BY <2>1, SplitIs
<1>2. \A m \in DOMAIN h : NodeFacts(h, env, one, one, none, m)
  BY GoodIs
<1>3. /\ n \in DOMAIN h /\ l \notin DOMAIN h /\ r \notin DOMAIN h /\ l # r
      /\ DOMAIN k = (DOMAIN h \ {n}) \cup {l, r}
      /\ \A m \in DOMAIN h \ {n} : k[m] = h[m]
  BY DEF Splits
<1>4. /\ Shaped(k) /\ Sized(k, {}) /\ Once(k) /\ Held(k, TRUE) = items /\ Held(k, FALSE) = DOMAIN h \ one
      /\ \A i \in {l, r} : k[i].env = Exact(k, env, i) /\ k[i].env \in Envelope
      /\ \A m \in DOMAIN k : ~k[m].leaf => \A y \in ToSet(k[m].entries) : y # n => y \in DOMAIN k /\ k[y].height = k[m].height - 1
      /\ \A m \in DOMAIN h \ {n} : h[m].leaf \/ n \notin ToSet(h[m].entries) => Exact(k, env, m) = Exact(h, env, m)
  BY <1>1 DEF SplitFacts
<1>5. Whole(k, items, {l, r})
  BY <1>3, <1>4 DEF Whole
<1>6. \A m \in DOMAIN k : k[m].leaf \in BOOLEAN
  BY <1>4 DEF Shaped, NodeShape
<1>7. Stepped(k)
  <2> SUFFICES ASSUME NEW m \in DOMAIN k, ~k[m].leaf, NEW y \in ToSet(k[m].entries)
               PROVE  k[y].height = k[m].height - 1
    BY DEF Stepped
  <2>1. k[m].leaf = FALSE
    BY <1>6
  <2>2. y # n
    BY <1>4, <2>1, HeldIs
  <2> QED
    BY <1>4, <2>2
<1>8. \A i \in {l, r} : Inside(k[i].env, k[i].env)
  BY <1>4, InsideIsOrder
<1>9. \A m \in DOMAIN h \ {n} : Exact(k, env, m) = Exact(h, env, m) /\ k[m] = h[m]
  <2>1. \A m \in DOMAIN h : h[m].leaf \/ n \notin ToSet(h[m].entries)
    BY <1>2 DEF NodeFacts
  <2> QED
    BY <1>3, <1>4, <2>1
<1>10. \A m \in DOMAIN h : Inside(h[m].env, Exact(h, env, m)) /\ (h[m].height <= 1 => h[m].env = Exact(h, env, m))
  BY <1>2 DEF NodeFacts
<1>11. Tight(k, env, {})
  BY <1>3, <1>4, <1>8, <1>9, <1>10 DEF Tight
<1>12. ExactTree(h, env) => ExactTree(k, env)
  BY <1>3, <1>4, <1>9 DEF ExactTree
<1> QED
  BY <1>4, <1>5, <1>7, <1>11, <1>12 DEF Good

\* The nodes g are h with a level of nodes more, at this height, over all of below.
Level(g, h, env, new, height, below) ==
  /\ DOMAIN g = DOMAIN h \cup new /\ new \cap DOMAIN h = {}
  /\ \A m \in DOMAIN h : g[m] = h[m]
  /\ \A a \in new :
       /\ g[a] \in NodeShape /\ g[a].height = height /\ g[a].leaf = (height = 0)
       /\ g[a].entries # <<>> /\ Len(g[a].entries) <= MaxEntries /\ IsInjective(g[a].entries)
       /\ g[a].env = HullOf(g[a].entries, IF height = 0 THEN env ELSE EnvsIn(h))
  /\ below = UNION {ToSet(g[a].entries) : a \in new}
  /\ \A a, b \in new : a # b => ToSet(g[a].entries) \cap ToSet(g[b].entries) = {}

\* What is below a level is what its nodes hold.
LEMMA BelowIs ==
  ASSUME NEW g, NEW h, NEW env, NEW new, NEW height, NEW below, Level(g, h, env, new, height, below)
  PROVE  \A y : y \in below <=> \E a \in new : y \in ToSet(g[a].entries)
BY DEF Level

\* A level over an exact tree makes an exact tree.
LEMMA LevelIsExact ==
  ASSUME NEW h, NEW g, NEW env, NEW new, NEW height, NEW below, Level(g, h, env, new, height, below),
         ExactTree(h, env), height # 0 => below \subseteq DOMAIN h,
         \A n \in DOMAIN h : ~h[n].leaf => \A m \in ToSet(h[n].entries) : m \in DOMAIN h
  PROVE  ExactTree(g, env)
<1>1. /\ DOMAIN g = DOMAIN h \cup new /\ \A m \in DOMAIN h : g[m] = h[m]
      /\ \A a \in new : /\ g[a].leaf = (height = 0)
                        /\ g[a].env = HullOf(g[a].entries, IF height = 0 THEN env ELSE EnvsIn(h))
  BY DEF Level
<1>2. \A a \in new : ToSet(g[a].entries) \subseteq below
  BY DEF Level
<1>3. \A m \in DOMAIN h : EnvsIn(h)[m] = EnvsIn(g)[m]
  BY <1>1 DEF EnvsIn
<1>4. ASSUME NEW n \in DOMAIN h PROVE g[n].env = Exact(g, env, n)
  <2>1. g[n] = h[n] /\ h[n].env = HullOf(h[n].entries, EnvsOf(h, env, n))
    BY <1>1, <1>4 DEF ExactTree, Exact
  <2>2. \A x \in ToSet(h[n].entries) : EnvsOf(h, env, n)[x] = EnvsOf(g, env, n)[x]
    BY <1>3, <1>4, <2>1 DEF EnvsOf
  <2>3. HullOf(h[n].entries, EnvsOf(h, env, n)) = HullOf(h[n].entries, EnvsOf(g, env, n))
    BY <2>2, SameHull
  <2> QED
    BY <2>1, <2>3 DEF Exact
<1>5. ASSUME NEW a \in new PROVE g[a].env = Exact(g, env, a)
  <2> DEFINE envs == IF height = 0 THEN env ELSE EnvsIn(h)
  <2>1. g[a].env = HullOf(g[a].entries, envs)
    BY <1>1, <1>5
  <2>2. \A x \in ToSet(g[a].entries) : envs[x] = EnvsOf(g, env, a)[x]
    BY <1>1, <1>2, <1>3, <1>5 DEF EnvsOf
  <2> HIDE DEF envs
  <2>3. HullOf(g[a].entries, envs) = HullOf(g[a].entries, EnvsOf(g, env, a))
    BY <2>2, SameHull
  <2> QED
    BY <2>1, <2>3 DEF Exact
<1> QED
  BY <1>1, <1>4, <1>5 DEF ExactTree

\* Nodes over all tops are the tops.
LEMMA LevelIsGood ==
  ASSUME NEW h, NEW g, NEW env, NEW items, NEW tops, NEW new, NEW height \in Nat, height # 0, NEW none, none = {},
         Good(h, env, items, tops, none, none), \A y \in items : env[y] \in Envelope,
         Level(g, h, env, new, height, tops), \A m \in tops : h[m].height + 1 = height
  PROVE  Good(g, env, items, new, {}, {})
<1>1. /\ Held(h, TRUE) = items /\ Held(h, FALSE) = DOMAIN h \ tops /\ tops \subseteq DOMAIN h
      /\ \A m \in DOMAIN h : NodeFacts(h, env, tops, none, none, m)
  BY GoodIs
<1>2. \A m \in DOMAIN h :
        /\ h[m] \in NodeShape /\ h[m].leaf \in BOOLEAN /\ h[m].height \in Nat /\ h[m].leaf = (h[m].height = 0)
        /\ h[m].entries # <<>> /\ h[m].env \in Envelope /\ IsInjective(h[m].entries)
        /\ Len(h[m].entries) <= MaxEntries + 0
        /\ Inside(h[m].env, Exact(h, env, m)) /\ (h[m].height <= 1 => h[m].env = Exact(h, env, m))
        /\ ~h[m].leaf => \A y \in ToSet(h[m].entries) : y \in DOMAIN h /\ y \notin tops /\ h[y].height = h[m].height - 1
  BY <1>1 DEF NodeFacts
<1>3. /\ DOMAIN g = DOMAIN h \cup new /\ new \cap DOMAIN h = {}
      /\ \A m \in DOMAIN h : g[m] = h[m]
      /\ \A a \in new :
           /\ g[a] \in NodeShape /\ g[a].height = height /\ g[a].leaf = FALSE
           /\ g[a].entries # <<>> /\ Len(g[a].entries) <= MaxEntries /\ IsInjective(g[a].entries)
           /\ g[a].env = HullOf(g[a].entries, EnvsIn(h))
      /\ \A a, b \in new : a # b => ToSet(g[a].entries) \cap ToSet(g[b].entries) = {}
  BY DEF Level
<1>4. \A y : y \in tops <=> \E a \in new : y \in ToSet(g[a].entries)
  BY BelowIs
<1>5. Shaped(g)
  BY <1>2, <1>3 DEF Shaped
<1>6. Sized(g, {})
  <2> SUFFICES ASSUME NEW m \in DOMAIN g PROVE Len(g[m].entries) <= MaxEntries + 0
    BY DEF Sized
  <2> QED
    BY <1>2, <1>3, MaxEntriesIs
<1>7. \A y : y \in Held(h, FALSE) => y \notin tops
  BY <1>1
<1>8. Once(g)
  <2> SUFFICES ASSUME NEW a \in DOMAIN g, NEW b \in DOMAIN g
               PROVE  /\ IsInjective(g[a].entries)
                      /\ a # b /\ g[a].leaf = g[b].leaf => ToSet(g[a].entries) \cap ToSet(g[b].entries) = {}
    BY DEF Once
  <2>1. IsInjective(g[a].entries)
    BY <1>2, <1>3
  <2>2. ASSUME NEW m \in DOMAIN h, h[m].leaf = FALSE, NEW p \in new, NEW y \in ToSet(h[m].entries), y \in ToSet(g[p].entries)
        PROVE  FALSE
    <3>1. y \in Held(h, FALSE)
      BY <2>2, HeldIs
    <3> QED
      BY <1>4, <1>7, <2>2, <3>1
  <2>3. ASSUME a # b, g[a].leaf = g[b].leaf, NEW y \in ToSet(g[a].entries), y \in ToSet(g[b].entries) PROVE FALSE
    <3>1. CASE a \in DOMAIN h /\ b \in DOMAIN h
      BY <1>3, <2>3, <3>1, OneParent
    <3>2. CASE a \in DOMAIN h /\ b \in new
      BY <1>3, <2>2, <2>3, <3>2
    <3>3. CASE a \in new /\ b \in DOMAIN h
      BY <1>3, <2>2, <2>3, <3>3
    <3>4. CASE a \in new /\ b \in new
      BY <1>3, <2>3, <3>4
    <3> QED
      BY <1>3, <3>1, <3>2, <3>3, <3>4
  <2> QED
    BY <2>1, <2>3
<1>9. Held(g, TRUE) = items
  <2>1. \A y : y \in Held(g, TRUE) <=> \E m \in DOMAIN g : g[m].leaf = TRUE /\ y \in ToSet(g[m].entries)
    BY HeldIs
  <2>2. \A y : y \in Held(h, TRUE) <=> \E m \in DOMAIN h : h[m].leaf = TRUE /\ y \in ToSet(h[m].entries)
    BY HeldIs
  <2>3. Held(g, TRUE) = Held(h, TRUE)
    BY <1>3, <2>1, <2>2
  <2> QED
    BY <1>1, <2>3
<1>10. Held(g, FALSE) = DOMAIN g \ new
  <2>1. \A y : y \in Held(g, FALSE) <=> \E m \in DOMAIN g : g[m].leaf = FALSE /\ y \in ToSet(g[m].entries)
    BY HeldIs
  <2>2. \A y : y \in Held(h, FALSE) <=> \E m \in DOMAIN h : h[m].leaf = FALSE /\ y \in ToSet(h[m].entries)
    BY HeldIs
  <2>3. Held(g, FALSE) = Held(h, FALSE) \cup tops
    <3>1. ASSUME NEW y \in Held(g, FALSE) PROVE y \in Held(h, FALSE) \/ y \in tops
      <4>1. PICK m \in DOMAIN g : g[m].leaf = FALSE /\ y \in ToSet(g[m].entries)
        BY <2>1
      <4>2. CASE m \in DOMAIN h
        <5>1. h[m].leaf = FALSE /\ y \in ToSet(h[m].entries)
          BY <1>3, <4>1, <4>2
        <5> QED
          BY <2>2, <4>2, <5>1
      <4>3. CASE m \in new
        BY <1>4, <4>1, <4>3
      <4> QED
        BY <1>3, <4>2, <4>3
    <3>2. ASSUME NEW y \in Held(h, FALSE) PROVE y \in Held(g, FALSE)
      <4>1. PICK m \in DOMAIN h : h[m].leaf = FALSE /\ y \in ToSet(h[m].entries)
        BY <2>2
      <4>2. m \in DOMAIN g /\ g[m].leaf = FALSE /\ y \in ToSet(g[m].entries)
        BY <1>3, <4>1
      <4> QED
        BY <2>1, <4>2
    <3>3. ASSUME NEW y \in tops PROVE y \in Held(g, FALSE)
      BY <1>3, <1>4, <2>1
    <3> QED
      BY <3>1, <3>2, <3>3
  <2>4. Held(h, FALSE) = DOMAIN h \ tops /\ tops \subseteq DOMAIN h
    BY <1>1
  <2>5. DOMAIN g = DOMAIN h \cup new /\ new \cap DOMAIN h = {}
    BY <1>3
  <2>6. Held(g, FALSE) = DOMAIN h
    BY <2>3, <2>4
  <2> QED
    BY <2>5, <2>6
<1>11. \A m \in DOMAIN g : ~g[m].leaf => \A y \in ToSet(g[m].entries) : y \in DOMAIN h /\ g[y].height = g[m].height - 1
  <2> SUFFICES ASSUME NEW m \in DOMAIN g, ~g[m].leaf, NEW y \in ToSet(g[m].entries)
               PROVE  y \in DOMAIN h /\ g[y].height = g[m].height - 1
    OBVIOUS
  <2>1. CASE m \in DOMAIN h
    BY <1>2, <1>3, <2>1
  <2>2. CASE m \in new
    <3>1. y \in tops /\ y \in DOMAIN h /\ g[m].height = height /\ g[y] = h[y]
      BY <1>1, <1>3, <1>4, <2>2
    <3>2. h[y].height + 1 = height /\ h[y].height \in Nat
      BY <1>2, <3>1
    <3> QED
      BY <3>1, <3>2
  <2> QED
    BY <1>3, <2>1, <2>2
<1>12. Stepped(g)
  BY <1>11 DEF Stepped
<1>13. ASSUME NEW m \in DOMAIN g, NEW o, o = (IF g[m].leaf THEN env ELSE EnvsIn(h))
       PROVE  Exact(g, env, m) = HullOf(g[m].entries, o)
  <2>1. \A y \in ToSet(g[m].entries) : EnvsOf(g, env, m)[y] = o[y]
    <3>1. CASE g[m].leaf
      BY <1>13, <3>1 DEF EnvsOf
    <3>2. CASE ~g[m].leaf
      <4> SUFFICES ASSUME NEW y \in ToSet(g[m].entries) PROVE EnvsIn(g)[y] = EnvsIn(h)[y]
        BY <1>13, <3>2 DEF EnvsOf
      <4>1. y \in DOMAIN h
        BY <1>11, <3>2
      <4> QED
        BY <1>3, <4>1 DEF EnvsIn
    <3> QED
      BY <3>1, <3>2
  <2>2. HullOf(g[m].entries, EnvsOf(g, env, m)) = HullOf(g[m].entries, o)
    BY <2>1, SameHull
  <2> QED
    BY <2>2 DEF Exact
<1>14. Tight(g, env, {})
  <2> SUFFICES ASSUME NEW m \in DOMAIN g
               PROVE  Inside(g[m].env, Exact(g, env, m)) /\ (g[m].height <= 1 => g[m].env = Exact(g, env, m))
    BY DEF Tight
  <2>1. CASE m \in new
    <3>1. Exact(g, env, m) = HullOf(g[m].entries, EnvsIn(h))
      BY <1>3, <1>13, <2>1
    <3>2. g[m].env = Exact(g, env, m) /\ g[m].env \in Envelope
      BY <1>3, <2>1, <3>1 DEF NodeShape
    <3> QED
      BY <3>2, InsideIsOrder
  <2>2. CASE m \in DOMAIN h
    <3>1. Exact(g, env, m) = HullOf(g[m].entries, EnvsOf(h, env, m))
      BY <1>3, <1>13, <2>2 DEF EnvsOf
    <3>2. Exact(g, env, m) = Exact(h, env, m)
      BY <1>3, <2>2, <3>1 DEF Exact
    <3> QED
      BY <1>2, <1>3, <2>2, <3>2
  <2> QED
    BY <1>3, <2>1, <2>2
<1> QED
  BY <1>3, <1>5, <1>6, <1>8, <1>9, <1>10, <1>12, <1>14 DEF Good, Whole

\* Leaves over all items are a tree, or many.
LEMMA LeavesAreGood ==
  ASSUME NEW h, NEW g, NEW env, NEW items, NEW new, DOMAIN h = {}, \A y \in items : env[y] \in Envelope,
         Level(g, h, env, new, 0, items)
  PROVE  Good(g, env, items, new, {}, {})
<1>1. /\ DOMAIN g = new
      /\ \A a \in new :
           /\ g[a] \in NodeShape /\ g[a].height = 0 /\ g[a].leaf = TRUE
           /\ g[a].entries # <<>> /\ Len(g[a].entries) <= MaxEntries /\ IsInjective(g[a].entries)
           /\ g[a].env = HullOf(g[a].entries, env)
      /\ \A a, b \in new : a # b => ToSet(g[a].entries) \cap ToSet(g[b].entries) = {}
  BY DEF Level
<1>2. \A y : y \in items <=> \E a \in new : y \in ToSet(g[a].entries)
  BY BelowIs
<1>3. Shaped(g) /\ Stepped(g) /\ Once(g)
  BY <1>1 DEF Shaped, Stepped, Once
<1>4. Sized(g, {})
  <2> SUFFICES ASSUME NEW m \in DOMAIN g PROVE Len(g[m].entries) <= MaxEntries + 0
    BY DEF Sized
  <2> QED
    BY <1>1, MaxEntriesIs
<1>5. Held(g, TRUE) = items
  <2>1. \A y : y \in Held(g, TRUE) <=> \E m \in DOMAIN g : g[m].leaf = TRUE /\ y \in ToSet(g[m].entries)
    BY HeldIs
  <2> QED
    BY <1>1, <1>2, <2>1
<1>6. Held(g, FALSE) = {}
  <2>1. \A y : y \in Held(g, FALSE) => \E m \in DOMAIN g : g[m].leaf = FALSE /\ y \in ToSet(g[m].entries)
    BY HeldIs
  <2> QED
    BY <1>1, <2>1
<1>7. Tight(g, env, {})
  <2> SUFFICES ASSUME NEW m \in DOMAIN g
               PROVE  Inside(g[m].env, Exact(g, env, m)) /\ (g[m].height <= 1 => g[m].env = Exact(g, env, m))
    BY DEF Tight
  <2>1. Exact(g, env, m) = g[m].env /\ g[m].env \in Envelope
    BY <1>1 DEF Exact, EnvsOf, NodeShape
  <2> QED
    BY <2>1, InsideIsOrder
<1> QED
  BY <1>1, <1>3, <1>4, <1>5, <1>6, <1>7 DEF Good, Whole

\* The nodes g are k, where n has been split, after its parent p has taken the
\* halves in.
Holders(g, p) == {m \in DOMAIN g : ~g[m].leaf /\ p \in ToSet(g[m].entries)}

Adopts(g, k, h, n, p, l, r) ==
  /\ DOMAIN g = DOMAIN k
  /\ \A m \in DOMAIN k \ {p} : g[m] = k[m]
  /\ g[p] = [leaf |-> FALSE, height |-> h[p].height, env |-> g[p].env, entries |-> g[p].entries]
  /\ g[p].entries \in Seq(Nat) /\ g[p].entries # <<>> /\ IsInjective(g[p].entries)
  /\ Len(g[p].entries) = Len(h[p].entries) + 1
  /\ ToSet(g[p].entries) = (ToSet(h[p].entries) \ {n}) \cup {l, r}
  /\ g[p].env = HullOf(g[p].entries, EnvsIn(k))

\* splitAndPropagate: when a node has been split and its parent has taken the
\* halves in, the tree is good but for the parent, which may be overfull.
LEMMA ParentIsGood ==
  ASSUME NEW h, NEW k, NEW g, NEW env, NEW items, NEW tops, NEW n, NEW p \in DOMAIN h, NEW l, NEW r,
         NEW big, big = {n}, NEW stale, stale = {p},
         Good(h, env, items, tops, big, stale), \A y \in items : env[y] \in Envelope,
         ~h[p].leaf, n \in ToSet(h[p].entries), Splits(k, h, env, n, l, r), Adopts(g, k, h, n, p, l, r)
  PROVE  /\ Good(g, env, items, tops, {p}, {})
         /\ Len(g[p].entries) <= MaxEntries => Good(g, env, items, tops, {}, {})
         /\ ExactBut(h, env, stale) => ExactBut(g, env, Holders(g, p))
<1>1. Held(h, FALSE) = DOMAIN h \ tops /\ tops \subseteq DOMAIN h /\ \A m \in DOMAIN h : NodeFacts(h, env, tops, big, stale, m)
  BY GoodIs
<1>2. \A m \in DOMAIN h :
        /\ h[m] \in NodeShape /\ h[m].leaf \in BOOLEAN /\ h[m].height \in Nat /\ h[m].leaf = (h[m].height = 0)
        /\ h[m].entries \in Seq(Nat) /\ h[m].entries # <<>> /\ h[m].env \in Envelope
        /\ Len(h[m].entries) <= MaxEntries + (IF m \in big THEN 1 ELSE 0)
        /\ \A y \in ToSet(h[m].entries) : EnvsOf(h, env, m)[y] \in Envelope
        /\ Exact(h, env, m) \in Envelope /\ Inside(h[m].env, Exact(h, env, m))
        /\ h[m].height <= 1 /\ m \notin stale => h[m].env = Exact(h, env, m)
        /\ ~h[m].leaf => \A y \in ToSet(h[m].entries) : y \in DOMAIN h /\ y \notin tops /\ h[y].height = h[m].height - 1 /\ y # m
  BY <1>1 DEF NodeFacts
<1>3. n \in DOMAIN h /\ n # p /\ n \notin tops /\ h[n].height = h[p].height - 1 /\ h[p].height \in Nat \ {0} /\ h[p].leaf = FALSE
  BY <1>2
<1>4. SplitFacts(h, k, env, items, tops, n, l, r)
  <2>1. Good(h, env, items, tops, {n}, stale) /\ n \notin stale
    BY <1>3
  <2> QED
    BY <2>1, SplitIs
<1>5. /\ Shaped(k) /\ Sized(k, {}) /\ Once(k) /\ Held(k, TRUE) = items /\ Held(k, FALSE) = DOMAIN h \ tops
      /\ \A i \in {l, r} : k[i].env = Exact(k, env, i) /\ k[i].env \in Envelope /\ (~k[i].leaf => n \notin ToSet(k[i].entries))
      /\ \A c \in Envelope : Inside(k[l].env, c) /\ Inside(k[r].env, c) => Inside(h[n].env, c)
      /\ \A m \in DOMAIN k : ~k[m].leaf => \A y \in ToSet(k[m].entries) : y # n => y \in DOMAIN k /\ k[y].height = k[m].height - 1
      /\ \A m \in DOMAIN h \ {n} : h[m].leaf \/ n \notin ToSet(h[m].entries) => Exact(k, env, m) = Exact(h, env, m)
  BY <1>4 DEF SplitFacts
<1>6. /\ l \in Nat \ DOMAIN h /\ r \in Nat \ DOMAIN h /\ l # r
      /\ DOMAIN k = (DOMAIN h \ {n}) \cup {l, r}
      /\ \A m \in DOMAIN h \ {n} : k[m] = h[m]
      /\ \A i \in {l, r} : k[i].leaf = h[n].leaf /\ k[i].height = h[n].height
  BY DEF Splits
<1>7. /\ DOMAIN g = DOMAIN k /\ \A m \in DOMAIN k \ {p} : g[m] = k[m]
      /\ g[p] = [leaf |-> FALSE, height |-> h[p].height, env |-> g[p].env, entries |-> g[p].entries]
      /\ g[p].leaf = FALSE /\ g[p].height = h[p].height
      /\ g[p].entries \in Seq(Nat) /\ g[p].entries # <<>> /\ IsInjective(g[p].entries)
      /\ Len(g[p].entries) = Len(h[p].entries) + 1
      /\ g[p].env = HullOf(g[p].entries, EnvsIn(k))
  BY DEF Adopts
<1>8. \A y : y \in ToSet(g[p].entries) <=> (y \in ToSet(h[p].entries) /\ y # n) \/ y = l \/ y = r
  BY DEF Adopts
<1>9. p \in DOMAIN k /\ k[p] = h[p] /\ p # l /\ p # r
  BY <1>3, <1>6
<1>10. \A m \in DOMAIN k : k[m] \in NodeShape /\ k[m].leaf \in BOOLEAN /\ k[m].height \in Nat /\ k[m].env \in Envelope /\ k[m].entries \in Seq(Nat)
  BY <1>5 DEF Shaped, NodeShape
\* Only p has n below it.
<1>11. \A m \in DOMAIN k : m # p => k[m].leaf \/ n \notin ToSet(k[m].entries)
  <2> SUFFICES ASSUME NEW m \in DOMAIN k, m # p, k[m].leaf = FALSE, n \in ToSet(k[m].entries) PROVE FALSE
    BY <1>10
  <2>1. k[m].leaf = k[p].leaf /\ n \in ToSet(k[p].entries)
    BY <1>3, <1>9
  <2> QED
    BY <1>5, <1>9, <2>1 DEF Once
<1>12. \A m \in DOMAIN g : g[m].leaf = k[m].leaf /\ g[m].height = k[m].height
  BY <1>3, <1>7, <1>9
\* All entries of inner nodes are nodes, and not n any more.
<1>13. \A m \in DOMAIN g : g[m].leaf = FALSE => \A y \in ToSet(g[m].entries) : y \in DOMAIN k /\ y # n /\ g[y].height = g[m].height - 1
  <2> SUFFICES ASSUME NEW m \in DOMAIN g, g[m].leaf = FALSE, NEW y \in ToSet(g[m].entries)
               PROVE  y \in DOMAIN k /\ y # n /\ k[y].height = k[m].height - 1
    BY <1>7, <1>12
  <2>1. CASE m # p
    <3>1. m \in DOMAIN k /\ ~k[m].leaf /\ y \in ToSet(k[m].entries)
      BY <1>7, <2>1
    <3>2. y # n
      BY <1>11, <2>1, <3>1
    <3> QED
      BY <1>5, <3>1, <3>2
  <2>2. CASE m = p /\ y \in {l, r}
    <3>1. y \in DOMAIN k /\ y # n /\ k[y].height = h[n].height
      BY <1>3, <1>6, <2>2
    <3> QED
      BY <1>3, <1>9, <2>2, <3>1
  <2>3. CASE m = p /\ y \notin {l, r}
    <3>1. y \in ToSet(k[p].entries) /\ y # n /\ ~k[p].leaf
      BY <1>3, <1>8, <1>9, <2>3
    <3> QED
      BY <1>5, <1>9, <2>3, <3>1
  <2> QED
    BY <2>1, <2>2, <2>3
\* The parent is as wide as its entries, and no narrower than it was.
<1>14. /\ g[p].env \in Envelope /\ g[p].env = Exact(g, env, p)
       /\ \A y \in ToSet(g[p].entries) : Inside(k[y].env, g[p].env)
  <2> DEFINE s == g[p].entries
  <2>1. ASSUME NEW y \in ToSet(s) PROVE EnvsIn(k)[y] = k[y].env /\ EnvsIn(k)[y] \in Envelope /\ EnvsIn(g)[y] = EnvsIn(k)[y]
    <3>1. p \in DOMAIN g /\ y \in DOMAIN k /\ g[y].height = g[p].height - 1
      BY <1>7, <1>9, <1>13
    <3>2. y # p
      BY <1>3, <1>7, <3>1
    <3> QED
      BY <1>7, <1>10, <3>1, <3>2 DEF EnvsIn
  <2>2. s \in Seq(Nat) /\ s # <<>> /\ g[p].env = HullOf(s, EnvsIn(k)) /\ \A y \in ToSet(s) : EnvsIn(k)[y] \in Envelope
    BY <1>7, <2>1
  <2>3. Exact(g, env, p) = HullOf(s, EnvsIn(g))
    BY <1>7 DEF Exact, EnvsOf
  <2> HIDE DEF s
  <2>4. HullOf(s, EnvsIn(k)) \in Envelope /\ \A y \in ToSet(s) : Inside(EnvsIn(k)[y], HullOf(s, EnvsIn(k)))
    BY <2>2, HullOfIs
  <2>5. HullOf(s, EnvsIn(g)) = HullOf(s, EnvsIn(k))
    BY <2>1, SameHull
  <2>6. \A y \in ToSet(s) : Inside(k[y].env, g[p].env)
    BY <2>1, <2>2, <2>4
  <2> QED
    BY <2>2, <2>3, <2>4, <2>5, <2>6 DEF s
<1>15. Inside(h[p].env, g[p].env)
  <2>1. \A y \in ToSet(h[p].entries) : EnvsIn(h)[y] \in Envelope /\ EnvsIn(h)[y] = h[y].env
    <3>1. \A y \in ToSet(h[p].entries) : y \in DOMAIN h
      BY <1>2, <1>3
    <3> QED
      BY <1>2, <3>1 DEF EnvsIn
  <2>2. ASSUME NEW y \in ToSet(h[p].entries) PROVE Inside(h[y].env, g[p].env)
    <3>1. CASE y # n
      <4>1. y \in ToSet(g[p].entries) /\ y \in DOMAIN h \ {n}
        BY <1>2, <1>3, <1>8, <3>1
      <4> QED
        BY <1>6, <1>14, <4>1
    <3>2. CASE y = n
      <4>1. l \in ToSet(g[p].entries) /\ r \in ToSet(g[p].entries)
        BY <1>8
      <4> QED
        BY <1>5, <1>14, <3>2, <4>1
    <3> QED
      BY <3>1, <3>2
  <2>3. h[p].entries \in Seq(Nat) /\ h[p].entries # <<>> /\ Exact(h, env, p) = HullOf(h[p].entries, EnvsIn(h))
    BY <1>2, <1>3 DEF Exact, EnvsOf
  <2>4. Inside(HullOf(h[p].entries, EnvsIn(h)), g[p].env)
    BY <1>14, <2>1, <2>2, <2>3, HullOfIs
  <2>5. h[p].env \in Envelope /\ Exact(h, env, p) \in Envelope /\ Inside(h[p].env, Exact(h, env, p)) /\ Inside(Exact(h, env, p), g[p].env)
    BY <1>2, <2>3, <2>4
  <2> QED
    BY <1>14, <2>5, InsideIsOrder
<1>16. Shaped(g)
  <2>1. g[p] \in NodeShape /\ g[p].leaf = (g[p].height = 0) /\ g[p].entries # <<>>
    BY <1>3, <1>7, <1>14 DEF NodeShape
  <2> QED
    BY <1>5, <1>7, <2>1 DEF Shaped
<1>17. \A m \in DOMAIN k : Len(k[m].entries) <= MaxEntries
  <2>1. \A m \in DOMAIN k : Len(k[m].entries) <= MaxEntries + 0
    BY <1>5 DEF Sized
  <2> QED
    BY <1>10, <2>1, MaxEntriesIs
<1>18. Sized(g, {p})
  <2> SUFFICES ASSUME NEW m \in DOMAIN g PROVE Len(g[m].entries) <= MaxEntries + (IF m \in {p} THEN 1 ELSE 0)
    BY DEF Sized
  <2>1. Len(k[m].entries) <= MaxEntries /\ Len(k[m].entries) \in Nat
    BY <1>7, <1>10, <1>17
  <2> QED
    BY <1>7, <1>9, <2>1, MaxEntriesIs
<1>19. ASSUME Len(g[p].entries) <= MaxEntries PROVE Sized(g, {})
  <2> SUFFICES ASSUME NEW m \in DOMAIN g PROVE Len(g[m].entries) <= MaxEntries + 0
    BY DEF Sized
  <2>1. Len(k[m].entries) <= MaxEntries /\ Len(k[m].entries) \in Nat
    BY <1>7, <1>10, <1>17
  <2> QED
    BY <1>7, <1>19, <2>1, MaxEntriesIs
<1>20. \A y : y \in Held(k, FALSE) => y # l /\ y # r
  BY <1>5, <1>6
<1>21. Once(g)
  <2> SUFFICES ASSUME NEW a \in DOMAIN g, NEW b \in DOMAIN g
               PROVE  /\ IsInjective(g[a].entries)
                      /\ a # b /\ g[a].leaf = g[b].leaf => ToSet(g[a].entries) \cap ToSet(g[b].entries) = {}
    BY DEF Once
  <2>1. IsInjective(g[a].entries)
    <3>1. CASE a = p
      BY <1>7, <3>1
    <3>2. CASE a # p
      BY <1>5, <1>7, <3>2 DEF Once
    <3> QED
      BY <3>1, <3>2
  <2>2. ASSUME NEW m \in DOMAIN k \ {p}, k[m].leaf = FALSE, NEW y \in ToSet(k[m].entries), y \in ToSet(g[p].entries)
        PROVE  FALSE
    <3>1. y \in Held(k, FALSE)
      BY <2>2, HeldIs
    <3>2. y \in ToSet(k[p].entries) /\ k[p].leaf = k[m].leaf
      BY <1>3, <1>8, <1>9, <1>20, <2>2, <3>1
    <3> QED
      BY <1>5, <1>9, <2>2, <3>2 DEF Once
  <2>3. ASSUME a # b, g[a].leaf = g[b].leaf, NEW y \in ToSet(g[a].entries), y \in ToSet(g[b].entries) PROVE FALSE
    <3>1. CASE a # p /\ b # p
      BY <1>5, <1>7, <2>3, <3>1 DEF Once
    <3>2. CASE a = p
      BY <1>7, <2>2, <2>3, <3>2
    <3>3. CASE b = p
      BY <1>7, <2>2, <2>3, <3>3
    <3> QED
      BY <3>1, <3>2, <3>3
  <2> QED
    BY <2>1, <2>3
<1>22. Held(g, TRUE) = items
  <2> DEFINE leaf == TRUE
  <2>1. /\ DOMAIN g = DOMAIN k
        /\ \A m \in DOMAIN k : k[m].leaf = leaf <=> (g[m].leaf = leaf /\ m # p)
        /\ g[p].leaf # leaf /\ k[p].leaf # leaf
        /\ \A m \in DOMAIN k : m # p => ToSet(g[m].entries) = ToSet(k[m].entries)
    BY <1>3, <1>7, <1>9, <1>12
  <2> HIDE DEF leaf
  <2>2. \A y : y \in Held(g, leaf) <=> \E m \in DOMAIN g : g[m].leaf = leaf /\ y \in ToSet(g[m].entries)
    BY HeldIs
  <2>3. \A y : y \in Held(k, leaf) <=> \E m \in DOMAIN k : k[m].leaf = leaf /\ y \in ToSet(k[m].entries)
    BY HeldIs
  <2>4. Held(g, leaf) = Held(k, leaf)
    BY <2>1, <2>2, <2>3
  <2> QED
    BY <1>5, <2>4 DEF leaf
<1>23. Held(g, FALSE) = DOMAIN g \ tops
  <2>1. ASSUME NEW y \in Held(g, FALSE) PROVE y \in DOMAIN g \ tops
    <3>1. PICK m \in DOMAIN g : g[m].leaf = FALSE /\ y \in ToSet(g[m].entries)
      BY HeldIs
    <3>2. y \in DOMAIN k
      BY <1>13, <3>1
    <3>3. CASE m # p
      <4>1. k[m].leaf = FALSE /\ y \in ToSet(k[m].entries) /\ m \in DOMAIN k
        BY <1>7, <3>1, <3>3
      <4>2. y \in Held(k, FALSE)
        BY <4>1, HeldIs
      <4> QED
        BY <1>5, <1>7, <3>2, <4>2
    <3>4. CASE m = p /\ y \in ToSet(h[p].entries)
      BY <1>2, <1>3, <1>7, <3>2, <3>4
    <3>5. CASE m = p /\ y \in {l, r}
      BY <1>1, <1>6, <1>7, <3>5
    <3> QED
      BY <1>8, <3>1, <3>3, <3>4, <3>5
  <2>2. ASSUME NEW y \in DOMAIN g \ tops PROVE y \in Held(g, FALSE)
    <3>1. CASE y \in {l, r}
      <4>1. y \in ToSet(g[p].entries) /\ g[p].leaf = FALSE /\ p \in DOMAIN g
        BY <1>7, <1>8, <1>9, <3>1
      <4> QED
        BY <4>1, HeldIs
    <3>2. CASE y \notin {l, r}
      <4>1. y \in Held(k, FALSE) /\ y # n
        BY <1>5, <1>6, <1>7, <2>2, <3>2, <1>3
      <4>2. PICK m \in DOMAIN k : k[m].leaf = FALSE /\ y \in ToSet(k[m].entries)
        BY <4>1, HeldIs
      <4>3. m \in DOMAIN g /\ g[m].leaf = FALSE /\ y \in ToSet(g[m].entries)
        BY <1>7, <1>8, <1>9, <1>12, <4>1, <4>2
      <4> QED
        BY <4>3, HeldIs
    <3> QED
      BY <3>1, <3>2
  <2> QED
    BY <2>1, <2>2
<1>24. tops \subseteq DOMAIN g
  BY <1>1, <1>3, <1>6, <1>7
<1>25. \A m \in DOMAIN g : g[m].leaf \in BOOLEAN
  BY <1>7, <1>10, <1>12
<1>26. Stepped(g)
  BY <1>13, <1>25 DEF Stepped
<1>27. ASSUME NEW m \in DOMAIN k \ {p}, k[m].leaf \/ p \notin ToSet(k[m].entries) PROVE Exact(g, env, m) = Exact(k, env, m)
  <2>1. g[m] = k[m]
    BY <1>7
  <2>2. \A y \in ToSet(k[m].entries) : EnvsOf(g, env, m)[y] = EnvsOf(k, env, m)[y]
    <3>1. CASE k[m].leaf
      BY <2>1, <3>1 DEF EnvsOf
    <3>2. CASE ~k[m].leaf
      <4> SUFFICES ASSUME NEW y \in ToSet(k[m].entries) PROVE EnvsIn(g)[y] = EnvsIn(k)[y]
        BY <2>1, <3>2 DEF EnvsOf
      <4>1. y \in DOMAIN k /\ y # p
        BY <1>7, <1>10, <1>13, <1>27, <2>1, <3>2
      <4> QED
        BY <1>7, <4>1 DEF EnvsIn
    <3> QED
      BY <3>1, <3>2
  <2>3. HullOf(k[m].entries, EnvsOf(g, env, m)) = HullOf(k[m].entries, EnvsOf(k, env, m))
    BY <2>2, SameHull
  <2> QED
    BY <2>1, <2>3 DEF Exact
<1>28. ASSUME NEW m \in {l, r}
       PROVE  m \in DOMAIN k \ {p} /\ g[m] = k[m] /\ g[m].env \in Envelope /\ g[m].env = Exact(g, env, m)
  <2>1. m \in DOMAIN k \ {p} /\ g[m] = k[m] /\ k[m].env = Exact(k, env, m) /\ k[m].env \in Envelope
    BY <1>5, <1>6, <1>7, <1>9, <1>28
  <2>2. k[m].leaf \/ p \notin ToSet(k[m].entries)
    <3>1. SUFFICES ASSUME k[m].leaf = FALSE, p \in ToSet(k[m].entries) PROVE FALSE
      BY <1>10, <2>1
    <3>2. g[p].height = g[m].height - 1
      BY <1>7, <1>13, <2>1, <3>1
    <3> QED
      BY <1>3, <1>6, <1>7, <1>28, <2>1, <3>2
  <2> QED
    BY <1>27, <2>1, <2>2
<1>29. ASSUME NEW m \in DOMAIN h \ {n, p}
       PROVE  /\ m \in DOMAIN k \ {p} /\ g[m] = h[m] /\ k[m] = h[m]
              /\ h[m].leaf \/ p \notin ToSet(h[m].entries) => Exact(g, env, m) = Exact(h, env, m)
  <2>1. m \in DOMAIN k \ {p} /\ g[m] = h[m] /\ k[m] = h[m]
    BY <1>6, <1>7
  <2>2. Exact(k, env, m) = Exact(h, env, m)
    BY <1>5, <1>11, <2>1
  <2> QED
    BY <1>27, <2>1, <2>2
<1>30. Tight(g, env, {})
  <2> SUFFICES ASSUME NEW m \in DOMAIN g
               PROVE  Inside(g[m].env, Exact(g, env, m)) /\ (g[m].height <= 1 => g[m].env = Exact(g, env, m))
    BY DEF Tight
  <2>1. CASE m = p
    BY <1>14, <2>1, InsideIsOrder
  <2>2. CASE m \in {l, r}
    BY <1>28, <2>2, InsideIsOrder
  <2>3. CASE m \in DOMAIN h \ {n, p}
    <3>1. m \in DOMAIN k \ {p} /\ g[m] = h[m] /\ k[m] = h[m]
      BY <1>29, <2>3
    <3>3. CASE h[m].leaf \/ p \notin ToSet(h[m].entries)
      BY <1>2, <1>29, <2>3, <3>1, <3>3
    <3>4. CASE ~h[m].leaf /\ p \in ToSet(h[m].entries)
      <4>1. h[m].height > 1
        BY <1>2, <1>3, <2>3, <3>4
      <4>2. \A y \in ToSet(h[m].entries) : y \in DOMAIN g /\ y \in DOMAIN h /\ EnvsIn(h)[y] = h[y].env /\ EnvsIn(g)[y] = g[y].env
        <5>1. ASSUME NEW y \in ToSet(h[m].entries) PROVE y \in DOMAIN g /\ y \in DOMAIN h
          BY <1>2, <1>6, <1>7, <1>11, <2>3, <3>1, <3>4
        <5> QED
          BY <5>1 DEF EnvsIn
      <4>3. \A y \in ToSet(h[m].entries) : EnvsIn(h)[y] \in Envelope /\ EnvsIn(g)[y] \in Envelope /\ Inside(EnvsIn(h)[y], EnvsIn(g)[y])
        <5> SUFFICES ASSUME NEW y \in ToSet(h[m].entries)
                     PROVE  h[y].env \in Envelope /\ g[y].env \in Envelope /\ Inside(h[y].env, g[y].env)
          BY <4>2
        <5>1. h[y].env \in Envelope
          BY <1>2, <4>2
        <5>2. CASE y = p
          BY <1>14, <1>15, <5>1, <5>2
        <5>3. CASE y # p
          <6>1. y # n
            BY <1>11, <2>3, <3>1, <3>4
          <6>2. g[y] = h[y]
            BY <1>6, <1>7, <4>2, <5>3, <6>1
          <6> QED
            BY <5>1, <6>2, InsideIsOrder
        <5> QED
          BY <5>2, <5>3
      <4>4. Exact(h, env, m) = HullOf(h[m].entries, EnvsIn(h)) /\ Exact(g, env, m) = HullOf(h[m].entries, EnvsIn(g))
        BY <3>1, <3>4 DEF Exact, EnvsOf
      <4>5. h[m].entries \in Seq(Nat) /\ h[m].entries # <<>>
        BY <1>2, <2>3
      <4> DEFINE c == HullOf(h[m].entries, EnvsIn(g))
      <4>6. c \in Envelope /\ \A y \in ToSet(h[m].entries) : Inside(EnvsIn(g)[y], c)
        BY <4>3, <4>5, HullOfIs
      <4> HIDE DEF c
      <4>7. ASSUME NEW y \in ToSet(h[m].entries) PROVE Inside(EnvsIn(h)[y], c)
        <5>1. EnvsIn(h)[y] \in Envelope /\ EnvsIn(g)[y] \in Envelope /\ Inside(EnvsIn(h)[y], EnvsIn(g)[y]) /\ Inside(EnvsIn(g)[y], c)
          BY <4>3, <4>6
        <5> QED
          BY <4>6, <5>1, InsideIsOrder
      <4>8. Inside(HullOf(h[m].entries, EnvsIn(h)), c)
        BY <4>3, <4>5, <4>6, <4>7, HullOfIs
      <4>9. h[m].env \in Envelope /\ Exact(h, env, m) \in Envelope /\ Inside(h[m].env, Exact(h, env, m)) /\ Inside(Exact(h, env, m), c)
        BY <1>2, <2>3, <4>4, <4>8
      <4>10. Inside(h[m].env, c)
        BY <4>6, <4>9, InsideIsOrder
      <4>11. Inside(g[m].env, Exact(g, env, m))
        BY <3>1, <4>4, <4>10 DEF c
      <4>12. ~(g[m].height <= 1)
        BY <1>2, <2>3, <3>1, <4>1
      <4> QED
        BY <4>11, <4>12
    <3> QED
      BY <3>3, <3>4
  <2> QED
    BY <1>6, <1>7, <2>1, <2>2, <2>3
<1>31. ASSUME ExactBut(h, env, stale), NEW m \in DOMAIN g \ Holders(g, p)
       PROVE  g[m].env = Exact(g, env, m)
  <2>1. CASE m = p
    BY <1>14, <2>1
  <2>2. CASE m \in {l, r}
    BY <1>28, <2>2
  <2>3. CASE m \in DOMAIN h \ {n, p}
    <3>1. h[m].env = Exact(h, env, m) /\ (g[m].leaf \/ p \notin ToSet(g[m].entries))
      BY <1>31, <2>3 DEF ExactBut, Holders
    <3> QED
      BY <1>29, <2>3, <3>1
  <2> QED
    BY <1>6, <1>7, <2>1, <2>2, <2>3
<1> QED
  BY <1>16, <1>18, <1>19, <1>21, <1>22, <1>23, <1>24, <1>26, <1>30, <1>31 DEF Good, Whole, ExactBut

-----------------------------------------------------------------------------
(***************************************************************************)
(* Taking the tree apart, and other small steps.                           *)
(***************************************************************************)
\* A top is taken away: what it held are tops, or items no longer held.
LEMMA TopIsGone ==
  ASSUME NEW h, NEW g, NEW env, NEW items, NEW tops, NEW n \in tops, NEW none, none = {},
         Good(h, env, items, tops, none, none), \A y \in items : env[y] \in Envelope,
         DOMAIN g = DOMAIN h \ {n}, \A m \in DOMAIN g : g[m] = h[m],
         NEW rest, NEW left,
         h[n].leaf => rest = items \ ToSet(h[n].entries) /\ left = tops \ {n},
         ~h[n].leaf => rest = items /\ left = (tops \ {n}) \cup ToSet(h[n].entries)
  PROVE  Good(g, env, rest, left, {}, {})
<1>1. /\ Held(h, TRUE) = items /\ Held(h, FALSE) = DOMAIN h \ tops /\ tops \subseteq DOMAIN h
      /\ \A m \in DOMAIN h : NodeFacts(h, env, tops, none, none, m)
  BY GoodIs
<1>2. \A m \in DOMAIN h :
        /\ h[m] \in NodeShape /\ h[m].leaf \in BOOLEAN /\ h[m].leaf = (h[m].height = 0)
        /\ h[m].entries # <<>> /\ IsInjective(h[m].entries)
        /\ Len(h[m].entries) <= MaxEntries + 0
        /\ Inside(h[m].env, Exact(h, env, m)) /\ (h[m].height <= 1 => h[m].env = Exact(h, env, m))
        /\ ~h[m].leaf => \A y \in ToSet(h[m].entries) : y \in DOMAIN h /\ y \notin tops /\ h[y].height = h[m].height - 1
  BY <1>1 DEF NodeFacts
<1>3. n \in DOMAIN h /\ h[n].leaf \in BOOLEAN
  BY <1>1, <1>2
<1>4. \A m \in DOMAIN g : m \in DOMAIN h /\ m # n /\ g[m] = h[m]
  OBVIOUS
<1>5. Shaped(g) /\ Sized(g, {})
  BY <1>2, <1>4 DEF Shaped, Sized
<1>6. Once(g)
  BY <1>4 DEF Once, Good, Whole
<1>7. \A m \in DOMAIN g : ~g[m].leaf => \A y \in ToSet(g[m].entries) : y \in DOMAIN g /\ y \notin tops /\ g[y].height = g[m].height - 1
  BY <1>2, <1>4
<1>8. Stepped(g)
  BY <1>7 DEF Stepped
<1>9. ASSUME NEW m \in DOMAIN g PROVE Exact(g, env, m) = Exact(h, env, m)
  <2>1. \A y \in ToSet(h[m].entries) : EnvsOf(g, env, m)[y] = EnvsOf(h, env, m)[y]
    <3>1. CASE h[m].leaf
      BY <1>4, <3>1 DEF EnvsOf
    <3>2. CASE ~h[m].leaf
      <4> SUFFICES ASSUME NEW y \in ToSet(h[m].entries) PROVE EnvsIn(g)[y] = EnvsIn(h)[y]
        BY <1>4, <3>2 DEF EnvsOf
      <4>1. y \in DOMAIN g
        BY <1>4, <1>7, <3>2
      <4> QED
        BY <1>4, <4>1 DEF EnvsIn
    <3> QED
      BY <3>1, <3>2
  <2>2. HullOf(h[m].entries, EnvsOf(g, env, m)) = HullOf(h[m].entries, EnvsOf(h, env, m))
    BY <2>1, SameHull
  <2> QED
    BY <1>4, <2>2 DEF Exact
<1>10. Tight(g, env, {})
  BY <1>2, <1>4, <1>9 DEF Tight
<1>11. ASSUME NEW leaf \in BOOLEAN, NEW y
       PROVE  y \in Held(h, leaf) <=> y \in Held(g, leaf) \/ (h[n].leaf = leaf /\ y \in ToSet(h[n].entries))
  <2>1. ASSUME y \in Held(h, leaf) PROVE y \in Held(g, leaf) \/ (h[n].leaf = leaf /\ y \in ToSet(h[n].entries))
    <3>1. PICK m \in DOMAIN h : h[m].leaf = leaf /\ y \in ToSet(h[m].entries)
      BY <2>1, HeldIs
    <3>2. CASE m # n
      <4>1. m \in DOMAIN g /\ g[m].leaf = leaf /\ y \in ToSet(g[m].entries)
        BY <3>1, <3>2
      <4> QED
        BY <4>1, HeldIs
    <3> QED
      BY <3>1, <3>2
  <2>2. ASSUME y \in Held(g, leaf) PROVE y \in Held(h, leaf)
    <3>1. PICK m \in DOMAIN g : g[m].leaf = leaf /\ y \in ToSet(g[m].entries)
      BY <2>2, HeldIs
    <3>2. m \in DOMAIN h /\ h[m].leaf = leaf /\ y \in ToSet(h[m].entries)
      BY <1>4, <3>1
    <3> QED
      BY <3>2, HeldIs
  <2>3. ASSUME h[n].leaf = leaf, y \in ToSet(h[n].entries) PROVE y \in Held(h, leaf)
    BY <1>3, <2>3, HeldIs
  <2> QED
    BY <2>1, <2>2, <2>3
<1>12. ASSUME NEW leaf \in BOOLEAN, h[n].leaf = leaf, NEW y \in ToSet(h[n].entries) PROVE y \notin Held(g, leaf)
  <2> SUFFICES ASSUME NEW m \in DOMAIN g, g[m].leaf = leaf, y \in ToSet(g[m].entries) PROVE FALSE
    BY HeldIs
  <2>1. m \in DOMAIN h /\ m # n /\ h[m].leaf = h[n].leaf /\ y \in ToSet(h[m].entries)
    BY <1>4, <1>12
  <2> QED
    BY <1>3, <1>12, <2>1, OneParent
<1>13. CASE h[n].leaf
  <2>1. h[n].leaf = TRUE /\ rest = items \ ToSet(h[n].entries) /\ left = tops \ {n}
    BY <1>3, <1>13
  <2>2. Held(g, TRUE) = rest
    BY <1>1, <1>11, <1>12, <2>1
  <2>3. Held(g, FALSE) = Held(h, FALSE)
    BY <1>11, <2>1
  <2>4. left \subseteq DOMAIN g /\ DOMAIN g \ left = DOMAIN h \ tops
    BY <1>1, <2>1
  <2> QED
    BY <1>1, <1>5, <1>6, <1>8, <1>10, <2>2, <2>3, <2>4 DEF Good, Whole
<1>14. CASE ~h[n].leaf
  <2>1. h[n].leaf = FALSE /\ rest = items /\ left = (tops \ {n}) \cup ToSet(h[n].entries)
    BY <1>3, <1>14
  <2>2. Held(g, TRUE) = rest
    <3>1. \A y : y \in Held(h, TRUE) <=> y \in Held(g, TRUE)
      BY <1>11, <2>1
    <3> QED
      BY <1>1, <2>1, <3>1
  <2>3. \A y : y \in Held(g, FALSE) <=> y \in DOMAIN h \ tops /\ y \notin ToSet(h[n].entries)
    <3>1. \A y : y \in Held(h, FALSE) <=> y \in Held(g, FALSE) \/ y \in ToSet(h[n].entries)
      BY <1>11, <2>1
    <3>2. \A y \in ToSet(h[n].entries) : y \notin Held(g, FALSE)
      BY <1>12, <2>1
    <3> QED
      BY <1>1, <3>1, <3>2
  <2>4. \A y \in ToSet(h[n].entries) : y \in DOMAIN h \ tops
    BY <1>2, <1>3, <1>14
  <2>5. left \subseteq DOMAIN g
    BY <1>1, <2>1, <2>4
  <2>6. Held(g, FALSE) = DOMAIN g \ left
    BY <1>1, <2>1, <2>3, <2>4
  <2> QED
    BY <1>5, <1>6, <1>8, <1>10, <2>2, <2>5, <2>6 DEF Good, Whole
<1> QED
  BY <1>3, <1>13, <1>14

\* Every node is below a top: where there is no top there is nothing.
LEMMA NothingLeft ==
  ASSUME NEW h, NEW env, NEW items, Good(h, env, items, {}, {}, {}), IsFiniteSet(DOMAIN h)
  PROVE  items = {}
<1>1. Shaped(h) /\ Stepped(h) /\ Held(h, TRUE) = items /\ Held(h, FALSE) = DOMAIN h
  BY DEF Good, Whole
<1>2. \A n \in DOMAIN h : h[n].height \in Nat /\ h[n].leaf \in BOOLEAN
  BY <1>1 DEF Shaped, NodeShape
<1>3. DOMAIN h = {}
  <2> SUFFICES ASSUME DOMAIN h # {} PROVE FALSE
    OBVIOUS
  <2> DEFINE height == [n \in DOMAIN h |-> h[n].height]
             S == {height[n] : n \in DOMAIN h}
  <2>1. IsFiniteSet(S)
    BY ImageIsFinite
  <2>2. S \in SUBSET Int /\ S # {}
    BY <1>2
  <2>3. Max(S) \in S /\ \A x \in S : Max(S) >= x
    <3> HIDE DEF S
    <3> QED
      BY <2>1, <2>2, MinAndMax
  <2>4. PICK n \in DOMAIN h : h[n].height = Max(S)
    BY <2>3
  <2>5. PICK m \in DOMAIN h : h[m].leaf = FALSE /\ n \in ToSet(h[m].entries)
    BY <1>1, HeldIs
  <2>6. h[n].height = h[m].height - 1
    BY <1>1, <2>5 DEF Stepped
  <2>7. h[m].height \in S
    OBVIOUS
  <2> HIDE DEF S, height
  <2> QED
    BY <1>2, <2>3, <2>4, <2>6, <2>7
<1>4. \A y : y \notin Held(h, TRUE)
  BY <1>3, HeldIs
<1> QED
  BY <1>1, <1>4

\* The envelopes of items not held do not matter.
LEMMA SameItems ==
  ASSUME NEW h, NEW env, NEW enw, NEW items, NEW tops, NEW big, NEW stale,
         Good(h, env, items, tops, big, stale), \A y \in items : env[y] = enw[y]
  PROVE  Good(h, enw, items, tops, big, stale)
<1>1. Tight(h, env, stale) /\ Held(h, TRUE) = items
  BY DEF Good, Whole
<1>2. ASSUME NEW n \in DOMAIN h PROVE Exact(h, env, n) = Exact(h, enw, n)
  <2>1. \A y \in ToSet(h[n].entries) : EnvsOf(h, env, n)[y] = EnvsOf(h, enw, n)[y]
    <3>1. CASE h[n].leaf
      <4>1. h[n].leaf = TRUE
        BY <3>1 DEF Good, Shaped, NodeShape
      <4> QED
        BY <1>1, <4>1, HeldIs DEF EnvsOf
    <3>2. CASE ~h[n].leaf
      BY <3>2 DEF EnvsOf
    <3> QED
      BY <3>1, <3>2
  <2>2. HullOf(h[n].entries, EnvsOf(h, env, n)) = HullOf(h[n].entries, EnvsOf(h, enw, n))
    BY <2>1, SameHull
  <2> QED
    BY <2>2 DEF Exact
<1>3. Tight(h, enw, stale)
  BY <1>1, <1>2 DEF Tight
<1> QED
  BY <1>3 DEF Good

\* What is up to date may be called stale.
LEMMA MayBeStale ==
  ASSUME NEW h, NEW env, NEW items, NEW tops, NEW big, NEW stale, Good(h, env, items, tops, big, {})
  PROVE  Good(h, env, items, tops, big, stale)
BY DEF Good, Tight

-----------------------------------------------------------------------------
(***************************************************************************)
(* What the steps of the model do to the tree.                             *)
(***************************************************************************)
LEMMA NodeOfIs ==
  ASSUME NEW height \in Nat, NEW s \in Seq(Nat), s # <<>>, NEW env, \A x \in ToSet(s) : env[x] \in Envelope
  PROVE  /\ NodeOf(height, s, env) \in NodeShape
         /\ NodeOf(height, s, env).leaf = (height = 0) /\ NodeOf(height, s, env).height = height
         /\ NodeOf(height, s, env).entries = s /\ NodeOf(height, s, env).env = HullOf(s, env)
<1>1. HullOf(s, env) \in Envelope
  BY HullOfIs
<1> QED
  BY <1>1 DEF NodeOf, NodeShape

\* Adding nodes.
LEMMA WithIs ==
  ASSUME NEW h, NEW g
  PROVE  /\ DOMAIN With(h, g) = DOMAIN h \cup DOMAIN g
         /\ \A m \in DOMAIN g : With(h, g)[m] = g[m]
         /\ \A m \in DOMAIN h : m \notin DOMAIN g => With(h, g)[m] = h[m]
BY DEF With

\* Letting a node go.
LEMMA WithoutIs ==
  ASSUME NEW h, NEW n
  PROVE  DOMAIN Without(h, n) = DOMAIN h \ {n} /\ \A m \in DOMAIN h \ {n} : Without(h, n)[m] = h[m]
BY DEF Without

\* splitAndPropagate puts two proper halves in the place of an overfull node.
LEMMA HalvedIs ==
  ASSUME NEW items, NEW tops, NEW n \in DOMAIN nodes, NEW big, big = {n}, NEW stale,
         Good(nodes, given, items, tops, big, stale), \A y \in items : given[y] \in Envelope,
         Len(nodes[n].entries) > MaxEntries, made \in Nat, DOMAIN nodes \subseteq 1..made
  PROVE  Splits(Halved(n), nodes, given, n, made + 1, made + 2)
<1> DEFINE s == nodes[n].entries
           env == EnvsFor(nodes[n].leaf)
           order == RStarSplit(s, env).order
           cut == RStarSplit(s, env).cut
           l == made + 1
           r == made + 2
<1>1. NodeFacts(nodes, given, tops, big, stale, n)
  BY GoodIs
<1>2. /\ s \in Seq(Nat) /\ IsInjective(s) /\ \A x \in ToSet(s) : env[x] \in Envelope
      /\ nodes[n].height \in Nat /\ nodes[n].leaf = (nodes[n].height = 0)
      /\ Len(s) <= MaxEntries + (IF n \in big THEN 1 ELSE 0)
      /\ env = EnvsOf(nodes, given, n)
  BY <1>1 DEF NodeFacts, EnvsOf, EnvsFor
<1>3. MinEntries \in Nat \ {0} /\ MaxEntries \in Nat /\ MaxEntries + 1 >= 2 * MinEntries
  BY FanoutAssumption
<1>4. Len(s) \in Nat /\ Len(s) = MaxEntries + 1
  BY <1>2, <1>3
<1> HIDE DEF s, env
<1>5. Rearranged(order, s, Nat) /\ cut \in Cuts(s)
  BY <1>2, <1>3, <1>4, RStarSplitIs
<1> HIDE DEF order, cut
<1>6. order \in Seq(Nat) /\ Len(order) = Len(s) /\ ToSet(order) = ToSet(s) /\ IsInjective(order)
  BY <1>2, <1>5 DEF Rearranged
<1>7. cut \in Nat /\ cut >= MinEntries /\ cut <= Len(s) - MinEntries
  BY <1>3, <1>4, <1>5 DEF Cuts
<1>8. cut \in 1..(Len(order) - 1) /\ cut <= MaxEntries /\ Len(order) - cut <= MaxEntries /\ Len(order) - cut > 0
  BY <1>3, <1>4, <1>6, <1>7
<1> DEFINE a == Lower(order, cut)
           b == Upper(order, cut)
<1>9. /\ a \in Seq(Nat) /\ Len(a) = cut /\ b \in Seq(Nat) /\ Len(b) = Len(order) - cut
      /\ ToSet(a) \cup ToSet(b) = ToSet(order)
      /\ IsInjective(a) /\ IsInjective(b) /\ ToSet(a) \cap ToSet(b) = {}
  <2> DEFINE X == Nat
  <2>1. order \in Seq(X) /\ IsInjective(order) /\ cut \in 1..(Len(order) - 1)
    BY <1>6, <1>8
  <2> HIDE DEF X
  <2>2. /\ a \in Seq(X) /\ Len(a) = cut /\ b \in Seq(X) /\ Len(b) = Len(order) - cut
        /\ ToSet(a) \cup ToSet(b) = ToSet(order)
        /\ IsInjective(a) /\ IsInjective(b) /\ ToSet(a) \cap ToSet(b) = {}
    BY <2>1, HalvesAre
  <2> QED
    BY <2>2 DEF X
<1>10. HalvesOf(n) = [i \in {l, r} |-> NodeOf(nodes[n].height, IF i = l THEN a ELSE b, env)]
  BY DEF HalvesOf, s, env, order, cut
<1> HIDE DEF a, b
<1>11. a # <<>> /\ b # <<>> /\ Len(a) <= MaxEntries /\ Len(b) <= MaxEntries
  BY <1>8, <1>9
<1>12. l # r /\ l \in Nat /\ r \in Nat /\ l \notin DOMAIN nodes /\ r \notin DOMAIN nodes
  OBVIOUS
<1> HIDE DEF l, r
<1> DEFINE k == Halved(n)
<1>13. /\ DOMAIN k = (DOMAIN nodes \ {n}) \cup {l, r}
       /\ \A m \in DOMAIN nodes \ {n} : k[m] = nodes[m]
       /\ k[l] = NodeOf(nodes[n].height, a, env) /\ k[r] = NodeOf(nodes[n].height, b, env)
  <2>1. DOMAIN HalvesOf(n) = {l, r} /\ HalvesOf(n)[l] = NodeOf(nodes[n].height, a, env) /\ HalvesOf(n)[r] = NodeOf(nodes[n].height, b, env)
    BY <1>10, <1>12
  <2>2. DOMAIN Without(nodes, n) = DOMAIN nodes \ {n} /\ \A m \in DOMAIN nodes \ {n} : Without(nodes, n)[m] = nodes[m]
    BY WithoutIs
  <2> DEFINE w == Without(nodes, n)
             g == HalvesOf(n)
  <2>3. k = With(w, g)
    BY DEF Halved
  <2> HIDE DEF w, g
  <2>4. /\ DOMAIN With(w, g) = DOMAIN w \cup DOMAIN g
        /\ \A m \in DOMAIN g : With(w, g)[m] = g[m]
        /\ \A m \in DOMAIN w : m \notin DOMAIN g => With(w, g)[m] = w[m]
    BY WithIs
  <2> HIDE DEF k
  <2> QED
    BY <1>12, <2>1, <2>2, <2>3, <2>4 DEF w, g
<1> HIDE DEF k
<1>14. ASSUME NEW i \in {l, r}
       PROVE  /\ k[i] \in NodeShape /\ k[i].leaf = nodes[n].leaf /\ k[i].height = nodes[n].height
              /\ k[i].entries = (IF i = l THEN a ELSE b) /\ k[i].env = HullOf(k[i].entries, env)
  <2> DEFINE c == IF i = l THEN a ELSE b
  <2>1. c \in Seq(Nat) /\ c # <<>> /\ (\A x \in ToSet(c) : env[x] \in Envelope) /\ k[i] = NodeOf(nodes[n].height, c, env)
    <3>1. CASE i = l
      BY <1>2, <1>6, <1>9, <1>11, <1>13, <3>1
    <3>2. CASE i = r
      BY <1>2, <1>6, <1>9, <1>11, <1>12, <1>13, <3>2
    <3> QED
      BY <3>1, <3>2
  <2> HIDE DEF c
  <2>2. /\ k[i] \in NodeShape /\ k[i].leaf = (nodes[n].height = 0) /\ k[i].height = nodes[n].height
        /\ k[i].entries = c /\ k[i].env = HullOf(c, env)
    BY <1>2, <2>1, NodeOfIs
  <2> QED
    BY <1>2, <2>2 DEF c
<1>15. k[l].entries = a /\ k[r].entries = b
  BY <1>12, <1>14
<1>16. Splits(k, nodes, given, n, l, r)
  BY <1>2, <1>6, <1>9, <1>11, <1>12, <1>13, <1>14, <1>15 DEF Splits, s
<1> QED
  BY <1>16 DEF k, l, r

\* The left half takes the place of the node that was split, once.
LEMMA LeftForIs ==
  ASSUME NEW s \in Seq(Nat), IsInjective(s), NEW n \in ToSet(s), made \in Nat, made + 1 \notin ToSet(s)
  PROVE  /\ LeftFor(s, n) \in Seq(Nat) /\ Len(LeftFor(s, n)) = Len(s) /\ IsInjective(LeftFor(s, n))
         /\ \A y : y \in ToSet(LeftFor(s, n)) <=> (y \in ToSet(s) /\ y # n) \/ y = made + 1
<1> DEFINE t == LeftFor(s, n)
           l == made + 1
<1>1. s \in [1..Len(s) -> Nat] /\ DOMAIN s = 1..Len(s) /\ Len(s) \in Nat
  OBVIOUS
<1>2. l \in Nat
  OBVIOUS
<1>3. t = [i \in 1..Len(s) |-> IF s[i] = n THEN l ELSE s[i]]
  BY <1>1 DEF LeftFor
<1> HIDE DEF l
<1>4. DOMAIN t = 1..Len(s) /\ \A i \in 1..Len(s) : t[i] = (IF s[i] = n THEN l ELSE s[i]) /\ t[i] \in Nat
  BY <1>1, <1>2, <1>3
<1>5. t \in Seq(Nat) /\ Len(t) = Len(s)
  BY <1>1, <1>2, <1>3
<1> HIDE DEF t
<1>6. \A i \in 1..Len(s) : s[i] # l
  BY <1>1 DEF ToSet, l
<1>7. IsInjective(t)
  <2> SUFFICES ASSUME NEW i \in 1..Len(s), NEW j \in 1..Len(s), t[i] = t[j] PROVE i = j
    BY <1>4 DEF IsInjective
  <2>1. s[i] = s[j]
    BY <1>4, <1>6
  <2> QED
    BY <1>1, <2>1 DEF IsInjective
<1>8. ASSUME NEW y \in ToSet(t) PROVE (y \in ToSet(s) /\ y # n) \/ y = l
  <2>1. PICK i \in 1..Len(s) : y = t[i]
    BY <1>4 DEF ToSet
  <2> QED
    BY <1>1, <1>4, <2>1 DEF ToSet
<1>9. ASSUME NEW y \in ToSet(s), y # n PROVE y \in ToSet(t)
  <2>1. PICK i \in 1..Len(s) : y = s[i]
    BY <1>1 DEF ToSet
  <2> QED
    BY <1>4, <1>9, <2>1 DEF ToSet
<1>10. l \in ToSet(t)
  <2>1. PICK i \in 1..Len(s) : n = s[i]
    BY <1>1 DEF ToSet
  <2> QED
    BY <1>4, <2>1 DEF ToSet
<1>11. \A y : y \in ToSet(t) <=> (y \in ToSet(s) /\ y # n) \/ y = l
  BY <1>8, <1>9, <1>10
<1> QED
  BY <1>5, <1>7, <1>11 DEF t, l

\* And the right half is last.
LEMMA AdoptedIs ==
  ASSUME NEW n \in DOMAIN nodes, NEW p \in DOMAIN nodes, n # p, made \in Nat, DOMAIN nodes \subseteq 1..made,
         nodes[p].height \in Nat \ {0}, nodes[p].entries \in Seq(Nat), IsInjective(nodes[p].entries),
         n \in ToSet(nodes[p].entries), ToSet(nodes[p].entries) \subseteq DOMAIN nodes,
         NEW k, k = Halved(n), DOMAIN k = (DOMAIN nodes \ {n}) \cup {made + 1, made + 2},
         nodes' = [k EXCEPT ![p] = Adopted(p, n)]
  PROVE  Adopts(nodes', k, nodes, n, p, made + 1, made + 2) /\ nodes'[p] = Adopted(p, n)
<1> DEFINE s == nodes[p].entries
           t == LeftFor(s, n)
           u == Append(t, made + 2)
           l == made + 1
           r == made + 2
           g == nodes'
<1>1. l \notin ToSet(s) /\ r \notin ToSet(s) /\ l # r /\ r \in Nat /\ r # n
  OBVIOUS
<1>2. /\ t \in Seq(Nat) /\ Len(t) = Len(s) /\ IsInjective(t)
      /\ \A y : y \in ToSet(t) <=> (y \in ToSet(s) /\ y # n) \/ y = l
  BY <1>1, LeftForIs
<1> HIDE DEF t
<1>3. r \notin ToSet(t)
  BY <1>1, <1>2
<1>4. /\ u \in Seq(Nat) /\ u # <<>> /\ Len(u) = Len(t) + 1 /\ ToSet(u) = ToSet(t) \cup {r}
      /\ IsInjective(u)
  BY <1>1, <1>2, <1>3, AppendIs
<1>5. Adopted(p, n) = NodeOf(nodes[p].height, u, EnvsIn(k))
  BY DEF Adopted, t
<1> HIDE DEF u
<1>6. DOMAIN g = DOMAIN k /\ (\A m \in DOMAIN k \ {p} : g[m] = k[m]) /\ g[p] = Adopted(p, n)
  OBVIOUS
<1> HIDE DEF g
<1>7. /\ g[p] = [leaf |-> FALSE, height |-> nodes[p].height, env |-> HullOf(u, EnvsIn(k)), entries |-> u]
  BY <1>5, <1>6 DEF NodeOf
<1>8. g[p].env = HullOf(u, EnvsIn(k)) /\ g[p].entries = u
  BY <1>7
<1>9. ToSet(u) = (ToSet(s) \ {n}) \cup {l, r}
  BY <1>2, <1>4
<1> QED
  BY <1>2, <1>4, <1>6, <1>7, <1>8, <1>9 DEF Adopts, g

\* Pack puts a level of nodes over what is in row.
LEMMA PackIs ==
  ASSUME NEW height \in Nat, row \in Seq(Nat), row # <<>>, IsInjective(row),
         \A x \in ToSet(row) : EnvsFor(height = 0)[x] \in Envelope,
         made \in Nat, DOMAIN nodes \subseteq 1..made, Pack(height),
         NEW new, new = {made + a : a \in Starts(Len(row))}
  PROVE  /\ Level(nodes', nodes, given, new, height, ToSet(row))
         /\ made' \in Nat /\ DOMAIN nodes' \subseteq 1..made' /\ new \subseteq Nat
         /\ \/ at' = "idle" /\ root' = made + 1 /\ row' = <<>> /\ new = {root'}
            \/ /\ at' = "pack" /\ root' = root
               /\ row' \in Seq(new) /\ row' # <<>> /\ IsInjective(row') /\ ToSet(row') = new
<1> DEFINE env == EnvsFor(height = 0)
           s == Tiled(row, env)
           S == Starts(Len(s))
           firsts == Ascending(S)
           level == [n \in {made + a : a \in S} |-> NodeOf(height, Group(s, n - made), env)]
<1>1. /\ nodes' = With(nodes, level) /\ made' = made + Len(s)
      /\ IF Len(firsts) = 1 THEN at' = "idle" /\ root' = made + 1 /\ row' = <<>>
         ELSE at' = "pack" /\ row' = [i \in DOMAIN firsts |-> made + firsts[i]] /\ root' = root
  BY DEF Pack
<1> HIDE DEF env
<1>2. Rearranged(s, row, Nat)
  BY TiledIs DEF env
<1> HIDE DEF s
<1>3. s \in Seq(Nat) /\ Len(s) = Len(row) /\ ToSet(s) = ToSet(row) /\ IsInjective(s) /\ s # <<>> /\ Len(s) \in Nat \ {0}
  BY <1>2 DEF Rearranged
<1>4. S \in SUBSET (1..Len(s)) /\ 1 \in S /\ IsFiniteSet(S) /\ S \subseteq Nat \ {0}
  BY <1>3, StartsAre
<1>5. /\ \A a \in S : Group(s, a) \in Seq(Nat) /\ Len(Group(s, a)) \in 1..MaxEntries /\ IsInjective(Group(s, a))
      /\ ToSet(s) = UNION {ToSet(Group(s, a)) : a \in S}
      /\ \A a, b \in S : a # b => ToSet(Group(s, a)) \cap ToSet(Group(s, b)) = {}
  BY <1>3, GroupsAre
<1>6. new = {made + a : a \in S}
  BY <1>3
<1> HIDE DEF S
<1>7. ASSUME NEW a \in S
      PROVE  a \in Nat /\ made + a \in new /\ (made + a) - made = a /\ made + a \notin DOMAIN nodes /\ made + a \in 1..made'
  <2>1. a \in 1..Len(s) /\ Len(s) \in Nat /\ made' = made + Len(s)
    BY <1>1, <1>3, <1>4
  <2>2. made + a \in new
    BY <1>6
  <2> HIDE DEF level, firsts
  <2>3. a \in Nat /\ (made + a) - made = a /\ made + a \in 1..made' /\ made + a \notin 1..made
    BY <2>1
  <2> QED
    BY <2>2, <2>3
<1>8. ASSUME NEW n \in new PROVE n - made \in S /\ made + (n - made) = n /\ n \in Nat
  <2>1. PICK a \in S : n = made + a
    BY <1>6
  <2> QED
    BY <1>7, <2>1
<1>9. DOMAIN level = new /\ \A n \in new : level[n] = NodeOf(height, Group(s, n - made), env)
  BY <1>6
<1> HIDE DEF level
<1>10. /\ DOMAIN nodes' = DOMAIN nodes \cup new /\ new \cap DOMAIN nodes = {}
       /\ \A m \in DOMAIN nodes : nodes'[m] = nodes[m]
       /\ \A n \in new : nodes'[n] = NodeOf(height, Group(s, n - made), env)
  <2>1. /\ DOMAIN With(nodes, level) = DOMAIN nodes \cup DOMAIN level
        /\ \A m \in DOMAIN level : With(nodes, level)[m] = level[m]
        /\ \A m \in DOMAIN nodes : m \notin DOMAIN level => With(nodes, level)[m] = nodes[m]
    BY WithIs
  <2>2. new \cap DOMAIN nodes = {}
    BY <1>7, <1>8
  <2> QED
    BY <1>1, <1>9, <2>1, <2>2
<1>11. ASSUME NEW n \in new
       PROVE  /\ nodes'[n] \in NodeShape /\ nodes'[n].height = height /\ nodes'[n].leaf = (height = 0)
              /\ nodes'[n].entries # <<>> /\ Len(nodes'[n].entries) <= MaxEntries /\ IsInjective(nodes'[n].entries)
              /\ nodes'[n].entries = Group(s, n - made)
              /\ nodes'[n].env = HullOf(nodes'[n].entries, env)
  <2> DEFINE u == Group(s, n - made)
  <2>1. u \in Seq(Nat) /\ Len(u) \in 1..MaxEntries /\ IsInjective(u) /\ nodes'[n] = NodeOf(height, u, env)
    BY <1>5, <1>8, <1>10
  <2>2. \A x \in ToSet(u) : env[x] \in Envelope
    <3>1. \A x \in ToSet(u) : x \in ToSet(row)
      BY <1>3, <1>5, <1>8
    <3> QED
      BY <3>1 DEF env
  <2> HIDE DEF u
  <2>3. u # <<>>
    BY <2>1, MaxEntriesIs
  <2>4. /\ NodeOf(height, u, env) \in NodeShape
        /\ NodeOf(height, u, env).leaf = (height = 0) /\ NodeOf(height, u, env).height = height
        /\ NodeOf(height, u, env).entries = u /\ NodeOf(height, u, env).env = HullOf(u, env)
    BY <2>1, <2>2, <2>3, NodeOfIs
  <2>5. Len(u) <= MaxEntries
    BY <2>1, MaxEntriesIs
  <2> QED
    BY <2>1, <2>3, <2>4, <2>5 DEF u
<1>12. env = IF height = 0 THEN given ELSE EnvsIn(nodes)
  BY DEF env, EnvsFor
<1>13. ToSet(row) = UNION {ToSet(nodes'[a].entries) : a \in new}
  <2>1. ASSUME NEW y \in ToSet(row) PROVE \E a \in new : y \in ToSet(nodes'[a].entries)
    <3>1. PICK a \in S : y \in ToSet(Group(s, a))
      BY <1>3, <1>5
    <3> QED
      BY <1>7, <1>11, <3>1
  <2>2. ASSUME NEW a \in new, NEW y \in ToSet(nodes'[a].entries) PROVE y \in ToSet(row)
    BY <1>3, <1>5, <1>8, <1>11
  <2> QED
    BY <2>1, <2>2
<1>14. ASSUME NEW a \in new, NEW b \in new, a # b PROVE ToSet(nodes'[a].entries) \cap ToSet(nodes'[b].entries) = {}
  <2>1. a - made \in S /\ b - made \in S /\ a - made # b - made
    BY <1>8, <1>14
  <2> QED
    BY <1>5, <1>11, <2>1
<1>15. Level(nodes', nodes, given, new, height, ToSet(row))
  BY <1>10, <1>11, <1>12, <1>13, <1>14 DEF Level
<1>16. made' \in Nat /\ made' >= made /\ DOMAIN nodes' \subseteq 1..made' /\ new \subseteq Nat
  <2>1. made' \in Nat /\ made' >= made
    BY <1>1, <1>3
  <2>2. \A n \in new : n \in 1..made'
    BY <1>6, <1>7
  <2>3. \A n \in DOMAIN nodes : n \in 1..made'
    BY <2>1
  <2> QED
    BY <1>8, <1>10, <2>1, <2>2, <2>3
<1>17. /\ firsts \in Seq(S) /\ Len(firsts) = Cardinality(S) /\ IsInjective(firsts) /\ ToSet(firsts) = S
  <2>1. S \in SUBSET Int
    BY <1>4
  <2> QED
    BY <1>4, <2>1, AscendingIs
<1> HIDE DEF firsts
<1>18. DOMAIN firsts = 1..Len(firsts) /\ Len(firsts) \in Nat /\ \A i \in DOMAIN firsts : firsts[i] \in S
  BY <1>17
<1>19. CASE Len(firsts) = 1
  <2>1. \A a \in S : a = firsts[1]
    BY <1>17, <1>18, <1>19 DEF ToSet
  <2>2. new = {made + 1}
    BY <1>4, <1>6, <2>1
  <2> QED
    BY <1>1, <1>15, <1>16, <1>19, <2>2
<1>20. CASE Len(firsts) # 1
  <2>1. row' = [i \in 1..Len(firsts) |-> made + firsts[i]]
    BY <1>1, <1>18, <1>20
  <2>2. \A i \in 1..Len(firsts) : made + firsts[i] \in new
    BY <1>6, <1>18
  <2>3. row' \in Seq(new) /\ Len(row') = Len(firsts) /\ DOMAIN row' = 1..Len(firsts) /\ \A i \in 1..Len(firsts) : row'[i] = made + firsts[i]
    BY <1>18, <2>1, <2>2
  <2>4. firsts # <<>> /\ Len(firsts) # 0
    BY <1>4, <1>17, <1>18 DEF ToSet
  <2>5. row' # <<>>
    BY <2>3, <2>4
  <2>6. IsInjective(row')
    <3> SUFFICES ASSUME NEW i \in 1..Len(firsts), NEW j \in 1..Len(firsts), row'[i] = row'[j] PROVE i = j
      BY <2>3 DEF IsInjective
    <3>1. firsts[i] = firsts[j]
      <4>1. firsts[i] \in S /\ firsts[j] \in S /\ made + firsts[i] = made + firsts[j]
        BY <1>18, <2>3
      <4>2. firsts[i] \in Nat /\ firsts[j] \in Nat
        BY <1>7, <4>1
      <4> QED
        BY <4>1, <4>2
    <3> QED
      BY <1>17, <1>18, <3>1 DEF IsInjective
  <2>7. ToSet(row') = new
    <3>1. ASSUME NEW n \in new PROVE n \in ToSet(row')
      <4>1. PICK i \in DOMAIN firsts : firsts[i] = n - made
        BY <1>8, <1>17 DEF ToSet
      <4>2. i \in DOMAIN row' /\ row'[i] = n
        BY <1>8, <1>18, <2>3, <4>1
      <4> QED
        BY <4>2 DEF ToSet
    <3>2. \A n \in ToSet(row') : n \in new
      BY <2>2, <2>3 DEF ToSet
    <3> QED
      BY <3>1, <3>2
  <2>8. at' = "pack" /\ root' = root
    BY <1>1, <1>20
  <2> QED
    BY <1>15, <1>16, <2>3, <2>5, <2>6, <2>7, <2>8
<1> QED
  BY <1>19, <1>20

-----------------------------------------------------------------------------
(***************************************************************************)
(* The inductive invariant.                                                *)
(***************************************************************************)
\* The items in the tree, and the nodes that no other node has: while it is
\* taken apart those still to visit, while it is packed those of the last level.
Placed == IF at = "collect" THEN (1..count) \ ToSet(row) ELSE 1..count
Tops == IF at = "collect" THEN ToSet(path) ELSE IF at = "pack" THEN ToSet(row) ELSE {root}

\* While a node is to be split its parent has not seen the item.
Big == IF at = "split" THEN {Last(path)} ELSE {}
Stale == IF at = "split" /\ Len(path) > 1 THEN {path[Len(path) - 1]} ELSE {}

\* The root of the empty tree.
Blank == [leaf |-> TRUE, height |-> 0, env |-> Empty, entries |-> <<>>]

HeapInv ==
  IF at = "leaves" THEN nodes = NoNodes
  ELSE IF count = 0 THEN nodes = [n \in {root} |-> Blank]
  ELSE Good(nodes, given, Placed, Tops, Big, Stale)

\* What path and row are in each step.
StepInv ==
  /\ at \in {"idle", "choose", "split", "collect", "leaves", "pack", "search", "stopped"}
  /\ at \in {"idle", "search", "stopped"} => count = Len(given)
  /\ at = "choose" => count < Len(given)
  /\ at = "split" => count > 0 /\ Len(nodes[Last(path)].entries) > MaxEntries
  /\ at \in {"choose", "split"} => Chain(nodes, root, path)
  /\ at \in {"idle", "leaves", "pack", "stopped"} => path = <<>>
  /\ at \in {"idle", "choose", "split"} => row = <<>>
  /\ at = "collect" =>
       /\ count < Len(given)
       /\ path \in Seq(DOMAIN nodes) /\ IsInjective(path) /\ (count = 0 => path = <<>>)
       /\ row \in Seq(1..count) /\ IsInjective(row)
  /\ at = "leaves" => row \in Seq(1..Len(given)) /\ IsInjective(row) /\ ToSet(row) = 1..Len(given) /\ row # <<>>
  /\ at = "pack" =>
       /\ count = Len(given) /\ count > 0
       /\ row \in Seq(DOMAIN nodes) /\ IsInjective(row) /\ row # <<>>
       /\ \A i \in DOMAIN row : nodes[row[i]].height = nodes[row[1]].height

Numbers ==
  /\ given \in Seq(Box) /\ Len(given) <= MaxItems /\ count \in 0..Len(given)
  /\ made \in Nat /\ DOMAIN nodes \subseteq 1..made /\ root \in Nat

IInv == Numbers /\ HeapInv /\ StepInv

\* All nodes but the parent of the one that is to be split are exact.
OthersExact == ExactBut(nodes, given, Stale)

\* Outside of splits these are all nodes.
LEMMA OthersAreAll ==
  /\ at # "split" => (OthersExact <=> ExactTree(nodes, given))
  /\ at' # "split" => (OthersExact' <=> ExactTree(nodes', given'))
BY DEF OthersExact, ExactBut, ExactTree, Stale

\* An inner node other than the root takes two halves in and is not split: the
\* nodes above it are not recomputed.
Absorbed == SplitInner /\ at' # "split" /\ Len(path) > 2

\* Every item that was given has an envelope.
LEMMA HasEnvelopes ==
  ASSUME Numbers
  PROVE  /\ \A y \in 1..Len(given) : given[y] \in Envelope
         /\ \A y \in 1..count : given[y] \in Envelope
         /\ count \in Nat /\ Len(given) \in Nat /\ count <= Len(given)
<1>1. Box \subseteq Envelope
  BY InputAssumption
<1>2. given \in Seq(Box) /\ count \in 0..Len(given)
  BY DEF Numbers
<1> QED
  BY <1>1, <1>2

\* The last of a sequence.
LEMMA LastIs ==
  ASSUME NEW X, NEW s \in Seq(X), s # <<>>
  PROVE  Last(s) = s[Len(s)] /\ Len(s) \in Nat \ {0} /\ Len(s) \in DOMAIN s /\ DOMAIN s = 1..Len(s)
BY DEF Last

\* One node alone is a way.
LEMMA OneOnWay ==
  ASSUME NEW h, NEW n \in DOMAIN h, h[n].height \in Nat
  PROVE  Chain(h, n, <<n>>)
<1> DEFINE way == <<n>>
<1>1. way \in Seq(DOMAIN h) /\ way # <<>> /\ way[1] = n /\ Len(way) = 1 /\ DOMAIN way = 1..1
  OBVIOUS
<1> HIDE DEF way
<1>2. \A k \in DOMAIN way : h[way[k]].height + k = h[n].height + 1
  BY <1>1
<1>3. \A k \in 1..(Len(way) - 1) : way[k + 1] \in ToSet(h[way[k]].entries)
  BY <1>1
<1>4. Chain(h, n, way)
  BY <1>1, <1>2, <1>3 DEF Chain
<1> QED
  BY <1>4 DEF way

\* Between calls, and while a leaf is chosen, the tree is whole.
LEMMA WholeTree ==
  ASSUME Numbers, HeapInv, at \in {"idle", "choose", "search", "stopped"}
  PROVE  /\ root \in DOMAIN nodes /\ nodes[root].height \in Nat
         /\ count = 0 => nodes = [n \in {root} |-> Blank]
         /\ count # 0 => Good(nodes, given, 1..count, {root}, {}, {})
<1>1. CASE count = 0
  BY <1>1 DEF HeapInv, Blank
<1>2. CASE count # 0
  <2>1. Good(nodes, given, 1..count, {root}, {}, {})
    BY <1>2 DEF HeapInv, Placed, Tops, Big, Stale
  <2>2. root \in DOMAIN nodes /\ nodes[root].height \in Nat
    BY <2>1 DEF Good, Whole, Shaped, NodeShape
  <2> QED
    BY <1>2, <2>1, <2>2
<1> QED
  BY <1>1, <1>2

\* The empty tree satisfies the invariant.
LEMMA InitIs ==
  ASSUME Init
  PROVE  IInv
<1>1. /\ nodes = [n \in {1} |-> NodeOf(0, <<>>, <<>>)] /\ root = 1 /\ made = 1
      /\ count = 0 /\ given = <<>> /\ at = "idle" /\ path = <<>> /\ row = <<>>
  BY DEF Init
<1>2. NodeOf(0, <<>>, <<>>) = Blank
  <2> DEFINE env == <<>>
             s == <<>>
  <2>1. {env[s[i]] : i \in DOMAIN s} = {}
    OBVIOUS
  <2>2. HullOf(s, env) = Empty
    BY <2>1 DEF HullOf, Hull
  <2> QED
    BY <2>2 DEF NodeOf, Blank
<1>3. HeapInv
  BY <1>1, <1>2 DEF HeapInv
<1>4. StepInv
  BY <1>1 DEF StepInv
<1>5. Numbers
  <2>1. <<>> \in Seq(Box) /\ Len(<<>>) = 0 /\ MaxItems \in Nat
    BY InputAssumption
  <2>2. Len(given) = 0 /\ given \in Seq(Box)
    BY <1>1, <2>1
  <2> QED
    BY <1>1, <2>1, <2>2 DEF Numbers
<1> QED
  BY <1>3, <1>4, <1>5 DEF IInv

\* More items are asked for, and the call goes down from the root.
LEMMA ItemsAsked ==
  ASSUME IInv, at = "idle", given' \in Seq(Box), Len(given') <= MaxItems, Len(given') > Len(given),
         \A y \in 1..Len(given) : given'[y] = given[y],
         at' = "choose", path' = <<root>>, UNCHANGED <<nodes, root, count, row, made>>
  PROVE  IInv'
<1>1. Numbers /\ HeapInv /\ StepInv
  BY DEF IInv
<1>2. count \in Nat /\ Len(given) \in Nat /\ count = Len(given) /\ row = <<>>
  BY <1>1, HasEnvelopes DEF StepInv
<1>3. /\ root \in DOMAIN nodes /\ nodes[root].height \in Nat
      /\ count = 0 => nodes = [n \in {root} |-> Blank]
      /\ count # 0 => Good(nodes, given, 1..count, {root}, {}, {})
  BY <1>1, WholeTree
<1>4. Chain(nodes, root, <<root>>)
  BY <1>3, OneOnWay
<1>5. Numbers'
  BY <1>1, <1>2 DEF Numbers
<1>6. HeapInv'
  <2>1. CASE count = 0
    BY <1>3, <2>1 DEF HeapInv
  <2>2. CASE count # 0
    <3>1. Good(nodes, given', 1..count, {root}, {}, {})
      BY <1>2, <1>3, <2>2, SameItems
    <3> QED
      BY <2>2, <3>1 DEF HeapInv, Placed, Tops, Big, Stale
  <2> QED
    BY <2>1, <2>2
<1>7. StepInv'
  <2>1. Chain(nodes', root', path')
    BY <1>4
  <2> QED
    BY <1>2, <2>1 DEF StepInv
<1> QED
  BY <1>5, <1>6, <1>7 DEF IInv

\* What is appended leaves what was there.
LEMMA AppendGiven ==
  ASSUME NEW X, NEW s \in Seq(X), NEW t \in Seq(X)
  PROVE  /\ s \o t \in Seq(X) /\ Len(s \o t) = Len(s) + Len(t)
         /\ \A i \in 1..Len(s) : (s \o t)[i] = s[i]
OBVIOUS

\* The start of Insert keeps the invariant.
LEMMA InsertIs ==
  ASSUME IInv, Insert
  PROVE  IInv'
<1>1. given \in Seq(Box) /\ Len(given) \in Nat /\ MaxItems \in Nat
  BY InputAssumption DEF IInv, Numbers
<1>2. PICK env \in Box : given' = Append(given, env)
  BY DEF Insert
<1>3. given' \in Seq(Box) /\ Len(given') = Len(given) + 1 /\ \A y \in 1..Len(given) : given'[y] = given[y]
  BY <1>1, <1>2
<1>4. Len(given) < MaxItems /\ at = "idle" /\ at' = "choose" /\ path' = <<root>> /\ UNCHANGED <<nodes, root, count, row, made>>
  BY DEF Insert
<1>5. Len(given') <= MaxItems /\ Len(given') > Len(given)
  BY <1>1, <1>3, <1>4
<1> QED
  BY <1>3, <1>4, <1>5, ItemsAsked

\* So does that of Bulk with a small batch.
LEMMA BulkSmallIs ==
  ASSUME IInv, BulkSmall
  PROVE  IInv'
<1>1. given \in Seq(Box) /\ Len(given) \in Nat /\ MaxItems \in Nat /\ Batches \subseteq Seq(Box)
  BY InputAssumption DEF IInv, Numbers
<1>2. PICK batch \in Batches :
        /\ at = "idle" /\ Len(given) + Len(batch) <= MaxItems /\ given' = given \o batch
        /\ IF batch = <<>> THEN UNCHANGED <<at, path>> ELSE at' = "choose" /\ path' = <<root>>
        /\ UNCHANGED <<nodes, root, count, row, made, query>>
  BY DEF BulkSmall
<1>3. batch \in Seq(Box) /\ Len(batch) \in Nat
  BY <1>1
<1>4. CASE batch = <<>>
  <2>1. given' = given
    BY <1>1, <1>2, <1>4
  <2>2. UNCHANGED vars
    BY <1>2, <1>4, <2>1 DEF vars
  <2> QED
    BY <2>2 DEF vars, IInv, Numbers, HeapInv, StepInv, Placed, Tops, Big, Stale
<1>5. CASE batch # <<>>
  <2>1. given' \in Seq(Box) /\ Len(given') = Len(given) + Len(batch) /\ \A y \in 1..Len(given) : given'[y] = given[y]
    BY <1>1, <1>2, <1>3, AppendGiven
  <2>2. Len(batch) # 0
    BY <1>3, <1>5
  <2>3. Len(given') > Len(given) /\ Len(given') <= MaxItems
    BY <1>1, <1>2, <1>3, <2>1, <2>2
  <2> QED
    BY <1>2, <1>5, <2>1, <2>3, ItemsAsked
<1> QED
  BY <1>4, <1>5

-----------------------------------------------------------------------------
(***************************************************************************)
(* Inserting an item.                                                      *)
(***************************************************************************)

\* chooseLeafPath goes to an entry of the node.
LEMMA BestChildIs ==
  ASSUME NEW n \in DOMAIN nodes, nodes[n].entries \in Seq(DOMAIN nodes), nodes[n].entries # <<>>,
         \A m \in DOMAIN nodes : nodes[m].env \in Envelope, NEW env \in Envelope
  PROVE  BestChild(n, env) \in ToSet(nodes[n].entries)
<1> DEFINE s == nodes[n].entries
           Key(i) == << Area(Expand(nodes[s[i]].env, env)) - Area(nodes[s[i]].env), Area(nodes[s[i]].env), i >>
           S == {Key(i) : i \in DOMAIN s}
<1>1. DOMAIN s = 1..Len(s) /\ Len(s) \in Nat \ {0} /\ \A i \in DOMAIN s : s[i] \in DOMAIN nodes
  OBVIOUS
<1>2. BestChild(n, env) = s[LeastOf(S)[3]]
  BY DEF BestChild
<1> HIDE DEF s
<1>3. ASSUME NEW i \in DOMAIN s PROVE Key(i) \in [1..3 -> Int] /\ Key(i)[3] = i
  <2> DEFINE a == nodes[s[i]].env
             d == Area(Expand(a, env)) - Area(a)
             c == Area(a)
  <2>1. a \in Envelope
    BY <1>1
  <2> HIDE DEF a
  <2>2. Expand(a, env) \in Envelope
    BY <2>1, InsideIsOrder
  <2>3. Area(a) \in Int /\ Area(Expand(a, env)) \in Int
    BY <2>1, <2>2, AreasAreNumbers
  <2>4. d \in Int /\ c \in Int /\ i \in Int
    BY <1>1, <2>3
  <2>5. Key(i) = <<d, c, i>>
    BY DEF a
  <2> HIDE DEF d, c, Key
  <2> QED
    BY <2>4, <2>5
<1> HIDE DEF Key
<1>4. S \in SUBSET [1..3 -> Int] /\ S # {}
  <2>1. \A a \in S : a \in [1..3 -> Int]
    BY <1>3
  <2>2. 1 \in DOMAIN s
    BY <1>1
  <2>3. Key(1) \in S
    BY <2>2
  <2> QED
    BY <2>1, <2>3
<1>5. IsFiniteSet(S)
  <2> DEFINE f == [i \in DOMAIN s |-> Key(i)]
             T == {f[i] : i \in DOMAIN s}
  <2>1. IsFiniteSet(DOMAIN s)
    BY <1>1, FS_Interval
  <2>2. IsFiniteSet(T)
    <3> HIDE DEF f
    <3> QED
      BY <2>1, ImageIsFinite
  <2>3. T = S
    OBVIOUS
  <2> QED
    BY <2>2, <2>3
<1> HIDE DEF S
<1>6. LeastOf(S) \in S
  BY <1>4, <1>5, LeastOfIs
<1>7. PICK i \in DOMAIN s : LeastOf(S) = Key(i)
  BY <1>6 DEF S
<1>8. LeastOf(S)[3] = i
  BY <1>3, <1>7
<1> QED
  BY <1>2, <1>7, <1>8 DEF ToSet, s

\* A way that goes on to an entry of its last node.
LEMMA WayGoesOn ==
  ASSUME NEW h, NEW top, NEW way, Chain(h, top, way), \A n \in DOMAIN h : h[n].height \in Nat,
         NEW n \in DOMAIN h, n \in ToSet(h[way[Len(way)]].entries), h[n].height = h[way[Len(way)]].height - 1,
         top \in DOMAIN h
  PROVE  Chain(h, top, Append(way, n))
<1> DEFINE w == Append(way, n)
<1>1. /\ way \in Seq(DOMAIN h) /\ way # <<>> /\ way[1] = top
      /\ \A k \in DOMAIN way : h[way[k]].height + k = h[top].height + 1
      /\ \A k \in 1..(Len(way) - 1) : way[k + 1] \in ToSet(h[way[k]].entries)
  BY DEF Chain
<1>2. DOMAIN way = 1..Len(way) /\ Len(way) \in Nat \ {0} /\ \A k \in 1..Len(way) : way[k] \in DOMAIN h
  BY <1>1
<1>3. /\ w \in Seq(DOMAIN h) /\ w # <<>> /\ Len(w) = Len(way) + 1 /\ DOMAIN w = 1..(Len(way) + 1)
      /\ w[Len(way) + 1] = n /\ \A k \in 1..Len(way) : w[k] = way[k]
  BY <1>1, <1>2
<1> HIDE DEF w
<1>4. w[1] = top
  BY <1>1, <1>2, <1>3
<1>5. ASSUME NEW k \in DOMAIN w PROVE h[w[k]].height + k = h[top].height + 1
  <2>1. CASE k \in 1..Len(way)
    BY <1>1, <1>2, <1>3, <2>1
  <2>2. CASE k = Len(way) + 1
    <3>1. h[way[Len(way)]].height + Len(way) = h[top].height + 1 /\ h[way[Len(way)]].height \in Nat /\ h[n].height \in Nat /\ h[top].height \in Nat
      BY <1>1, <1>2
    <3> DEFINE a == h[way[Len(way)]].height
               b == h[n].height
               len == Len(way)
    <3>2. a + len = h[top].height + 1 /\ a \in Nat /\ b \in Nat /\ b = a - 1 /\ h[top].height \in Nat /\ len \in Nat /\ k = len + 1
      BY <1>2, <2>2, <3>1
    <3>3. w[k] = n
      BY <1>3, <2>2
    <3> HIDE DEF a, b, len
    <3>4. b + k = h[top].height + 1
      BY <3>2
    <3> QED
      BY <3>3, <3>4 DEF b
  <2> QED
    BY <1>2, <1>3, <2>1, <2>2
<1>6. ASSUME NEW k \in 1..(Len(w) - 1) PROVE w[k + 1] \in ToSet(h[w[k]].entries)
  <2>1. k \in 1..Len(way)
    BY <1>2, <1>3
  <2>2. CASE k = Len(way)
    <3>1. w[k + 1] = n /\ w[k] = way[Len(way)]
      BY <1>2, <1>3, <2>1, <2>2
    <3> QED
      BY <3>1
  <2>3. CASE k # Len(way)
    <3>1. k \in 1..(Len(way) - 1) /\ k + 1 \in 1..Len(way)
      <4> DEFINE len == Len(way)
      <4>1. k \in 1..len /\ k # len
        BY <2>1, <2>3
      <4>0. len \in Nat
        BY <1>2
      <4> HIDE DEF len
      <4>2. k \in 1..(len - 1) /\ k + 1 \in 1..len
        BY <4>0, <4>1
      <4> QED
        BY <4>2 DEF len
    <3>2. way[k + 1] \in ToSet(h[way[k]].entries)
      BY <1>1, <3>1
    <3>3. w[k + 1] = way[k + 1] /\ w[k] = way[k]
      BY <1>3, <2>1, <3>1
    <3> QED
      BY <3>2, <3>3
  <2> QED
    BY <2>2, <2>3
<1> QED
  BY <1>3, <1>4, <1>5, <1>6 DEF Chain, w

\* A step of chooseLeafPath keeps the invariant.
LEMMA ChooseChildIs ==
  ASSUME IInv, ChooseChild
  PROVE  IInv'
<1> DEFINE n == Last(path)
           m == BestChild(n, given[count + 1])
<1>1. /\ at = "choose" /\ ~nodes[n].leaf /\ path' = Append(path, m)
      /\ UNCHANGED <<nodes, root, count, given, at, row, made>>
  BY DEF ChooseChild
<1>2. Numbers /\ HeapInv /\ StepInv
  BY DEF IInv
<1>3. Chain(nodes, root, path) /\ count < Len(given) /\ row = <<>>
  BY <1>1, <1>2 DEF StepInv
<1>4. path \in Seq(DOMAIN nodes) /\ path # <<>> /\ n \in DOMAIN nodes /\ n = path[Len(path)]
  <2>1. path \in Seq(DOMAIN nodes) /\ path # <<>>
    BY <1>3 DEF Chain
  <2> QED
    BY <2>1, LastIs
<1> HIDE DEF n, m
<1>5. /\ root \in DOMAIN nodes
      /\ count = 0 => nodes = [i \in {root} |-> Blank]
      /\ count # 0 => Good(nodes, given, 1..count, {root}, {}, {})
  BY <1>1, <1>2, WholeTree
<1>6. count # 0
  BY <1>1, <1>4, <1>5 DEF Blank
<1>7. /\ count \in Nat /\ Len(given) \in Nat /\ given[count + 1] \in Envelope /\ \A y \in 1..count : given[y] \in Envelope
  <2>1. count \in Nat /\ Len(given) \in Nat /\ (\A y \in 1..Len(given) : given[y] \in Envelope) /\ \A y \in 1..count : given[y] \in Envelope
    BY <1>2, HasEnvelopes
  <2> QED
    BY <1>3, <2>1
<1> DEFINE items == 1..count
           tops == {root}
           none == {}
<1>8. Good(nodes, given, items, tops, none, none)
  BY <1>5, <1>6
<1> HIDE DEF items, tops, none
<1>9. \A i \in DOMAIN nodes : NodeFacts(nodes, given, tops, none, none, i)
  <2>1. \A y \in items : given[y] \in Envelope
    BY <1>7 DEF items
  <2> QED
    BY <1>8, <2>1, GoodIs
<1>10. /\ \A i \in DOMAIN nodes : nodes[i].env \in Envelope /\ nodes[i].height \in Nat
       /\ nodes[n].entries \in Seq(Nat) /\ nodes[n].entries # <<>>
       /\ \A y \in ToSet(nodes[n].entries) : y \in DOMAIN nodes /\ nodes[y].height = nodes[n].height - 1
  BY <1>1, <1>4, <1>9 DEF NodeFacts
<1>11. nodes[n].entries \in Seq(DOMAIN nodes)
  <2> DEFINE s == nodes[n].entries
  <2>1. \A i \in 1..Len(s) : s[i] \in DOMAIN nodes
    BY <1>10 DEF ToSet
  <2>2. s \in Seq(Nat)
    BY <1>10
  <2> HIDE DEF s
  <2>3. s \in Seq(DOMAIN nodes)
    BY <2>1, <2>2
  <2> QED
    BY <2>3 DEF s
<1>12. m \in ToSet(nodes[n].entries)
  BY <1>4, <1>7, <1>10, <1>11, BestChildIs DEF m
<1>13. m \in DOMAIN nodes /\ nodes[m].height = nodes[n].height - 1
  BY <1>10, <1>12
<1>14. Chain(nodes, root, Append(path, m))
  BY <1>3, <1>4, <1>5, <1>10, <1>12, <1>13, WayGoesOn
<1>15. StepInv'
  <2>1. Chain(nodes', root', path')
    BY <1>1, <1>14
  <2> QED
    BY <1>1, <1>3, <2>1 DEF StepInv
<1>16. Numbers'
  BY <1>1, <1>2 DEF Numbers
<1>17. HeapInv'
  BY <1>1, <1>5, <1>6 DEF HeapInv, Placed, Tops, Big, Stale
<1> QED
  BY <1>15, <1>16, <1>17 DEF IInv

\* When an item is in, the next one starts at the root.
LEMMA ItemDoneIs ==
  ASSUME Numbers', given' = given, count' # 0, Good(nodes', given', 1..count', {root'}, {}, {}), row' = <<>>, ItemDone
  PROVE  IInv'
<1>1. count' \in Nat /\ Len(given') \in Nat /\ count' <= Len(given')
  BY DEF Numbers
<1>2. root' \in DOMAIN nodes' /\ nodes'[root'].height \in Nat
  BY DEF Good, Whole, Shaped, NodeShape
<1>3. Chain(nodes', root', <<root'>>)
  BY <1>2, OneOnWay
<1>4. CASE count' < Len(given')
  <2>1. at' = "choose" /\ path' = <<root'>>
    BY <1>4 DEF ItemDone
  <2>2. HeapInv'
    BY <2>1 DEF HeapInv, Placed, Tops, Big, Stale
  <2>3. StepInv'
    BY <1>3, <1>4, <2>1 DEF StepInv
  <2> QED
    BY <2>2, <2>3 DEF IInv
<1>5. CASE ~(count' < Len(given'))
  <2>1. at' = "idle" /\ path' = <<>> /\ count' = Len(given')
    BY <1>1, <1>5 DEF ItemDone
  <2>2. HeapInv'
    BY <2>1 DEF HeapInv, Placed, Tops, Big, Stale
  <2>3. StepInv'
    BY <2>1 DEF StepInv
  <2> QED
    BY <2>2, <2>3 DEF IInv
<1> QED
  BY <1>4, <1>5

\* A node with the item of envelope env more.
WithItem(n, env, x) == [Grown(n, env) EXCEPT !.entries = Append(@, x)]

\* The fields of a node that grows.
LEMMA WithItemIs ==
  ASSUME NEW a, NEW b, NEW c, NEW d, NEW n, n = [leaf |-> a, height |-> b, env |-> c, entries |-> d], NEW env, NEW x
  PROVE  /\ Grown(n, env) = [leaf |-> a, height |-> b, env |-> Expand(c, env), entries |-> d]
         /\ WithItem(n, env, x) = [leaf |-> a, height |-> b, env |-> Expand(c, env), entries |-> Append(d, x)]
<1>1. Grown(n, env) = [leaf |-> a, height |-> b, env |-> Expand(c, env), entries |-> d]
  BY DEF Grown
<1> DEFINE g == Grown(n, env)
           e == Expand(c, env)
           t == Append(d, x)
<1>2. g = [leaf |-> a, height |-> b, env |-> e, entries |-> d] /\ WithItem(n, env, x) = [g EXCEPT !.entries = Append(@, x)]
  BY <1>1 DEF WithItem
<1>3. WithItem(n, env, x) = [g EXCEPT !.entries = t]
  BY <1>2
<1> HIDE DEF g, e, t
<1>4. [g EXCEPT !.entries = t] = [leaf |-> a, height |-> b, env |-> e, entries |-> t]
  BY <1>2
<1> QED
  BY <1>1, <1>3, <1>4 DEF e, t

\* A node is its four fields.
LEMMA NodeIs ==
  ASSUME NEW n \in NodeShape
  PROVE  n = [leaf |-> n.leaf, height |-> n.height, env |-> n.env, entries |-> n.entries]
BY DEF NodeShape

\* A node of a good tree can take an item in.
LEMMA NodeWithItem ==
  ASSUME NEW n \in NodeShape, NEW env \in Envelope, NEW x \in Nat
  PROVE  /\ Grown(n, env) \in NodeShape /\ WithItem(n, env, x) \in NodeShape
         /\ Grown(n, env).leaf = n.leaf /\ Grown(n, env).height = n.height
         /\ Grown(n, env).entries = n.entries /\ Grown(n, env).env = Expand(n.env, env)
         /\ WithItem(n, env, x).leaf = n.leaf /\ WithItem(n, env, x).height = n.height
         /\ WithItem(n, env, x).entries = Append(n.entries, x) /\ WithItem(n, env, x).env = Expand(n.env, env)
<1>1. n.leaf \in BOOLEAN /\ n.height \in Nat /\ n.env \in Envelope /\ n.entries \in Seq(Nat)
  BY DEF NodeShape
<1>2. Expand(n.env, env) \in Envelope
  BY <1>1, InsideIsOrder
<1>3. Append(n.entries, x) \in Seq(Nat)
  BY <1>1
<1>4. /\ Grown(n, env) = [leaf |-> n.leaf, height |-> n.height, env |-> Expand(n.env, env), entries |-> n.entries]
      /\ WithItem(n, env, x) = [leaf |-> n.leaf, height |-> n.height, env |-> Expand(n.env, env), entries |-> Append(n.entries, x)]
  BY NodeIs, WithItemIs
<1> DEFINE e == Expand(n.env, env)
           s == Append(n.entries, x)
<1> HIDE DEF e, s
<1>5. /\ Grown(n, env) = [leaf |-> n.leaf, height |-> n.height, env |-> e, entries |-> n.entries]
      /\ WithItem(n, env, x) = [leaf |-> n.leaf, height |-> n.height, env |-> e, entries |-> s]
      /\ e \in Envelope /\ s \in Seq(Nat)
  BY <1>2, <1>3, <1>4 DEF e, s
<1> DEFINE a == Grown(n, env)
           b == WithItem(n, env, x)
<1> HIDE DEF a, b
<1>6. /\ a = [leaf |-> n.leaf, height |-> n.height, env |-> e, entries |-> n.entries]
      /\ b = [leaf |-> n.leaf, height |-> n.height, env |-> e, entries |-> s]
  BY <1>5 DEF a, b
<1>7. a \in NodeShape /\ b \in NodeShape
  BY <1>1, <1>5, <1>6 DEF NodeShape
<1>8. /\ a.leaf = n.leaf /\ a.height = n.height /\ a.entries = n.entries /\ a.env = e
      /\ b.leaf = n.leaf /\ b.height = n.height /\ b.entries = s /\ b.env = e
  BY <1>6
<1> QED
  BY <1>7, <1>8 DEF a, b, e, s

\* The first item of all.
LEMMA FirstItem ==
  ASSUME NEW g, NEW n, NEW env, env[1] \in Envelope,
         g = [i \in {n} |-> [leaf |-> TRUE, height |-> 0, env |-> env[1], entries |-> << 1 >>]]
  PROVE  Good(g, env, {1}, {n}, {}, {})
<1> DEFINE s == << 1 >>
           e == env[1]
<1>1. s \in Seq(Nat) /\ s # <<>> /\ Len(s) = 1 /\ ToSet(s) = {1} /\ IsInjective(s)
  BY DEF ToSet, IsInjective
<1>2. DOMAIN g = {n} /\ g[n] = [leaf |-> TRUE, height |-> 0, env |-> e, entries |-> s]
  OBVIOUS
<1> HIDE DEF s, e
<1>3. HullOf(s, env) = e
  <2>1. e \in Envelope /\ \A y \in ToSet(s) : env[y] = e
    BY <1>1 DEF e
  <2>2. /\ HullOf(s, env) \in Envelope
        /\ \A y \in ToSet(s) : Inside(env[y], HullOf(s, env))
        /\ \A c \in Envelope : (\A y \in ToSet(s) : Inside(env[y], c)) => Inside(HullOf(s, env), c)
    BY <1>1, <2>1, HullOfIs
  <2>3. Inside(e, e)
    BY <2>1, InsideIsOrder
  <2>4. Inside(e, HullOf(s, env)) /\ Inside(HullOf(s, env), e)
    BY <1>1, <2>1, <2>2, <2>3
  <2> QED
    BY <2>1, <2>2, <2>4, InsideIsOrder
<1>4. g[n].leaf = TRUE /\ g[n].height = 0 /\ g[n].env = e /\ g[n].entries = s
  BY <1>2
<1>5. g[n] \in NodeShape
  BY <1>1, <1>2 DEF NodeShape, e
<1>6. Level(g, NoNodes, env, {n}, 0, {1})
  <2>1. DOMAIN NoNodes = {}
    BY DEF NoNodes
  <2>2. Len(s) <= MaxEntries
    BY <1>1, MaxEntriesIs
  <2> QED
    BY <1>1, <1>2, <1>3, <1>4, <1>5, <2>1, <2>2 DEF Level
<1>7. DOMAIN NoNodes = {} /\ \A y \in {1} : env[y] \in Envelope
  BY DEF NoNodes
<1> QED
  BY <1>6, <1>7, LeavesAreGood

\* The rest of insertItem keeps the invariant.
LEMMA AddItemIs ==
  ASSUME IInv, AddItem
  PROVE  IInv' /\ (OthersExact => OthersExact')
<1> DEFINE leaf == Last(path)
           x == count + 1
           env == given[x]
           added == WithItem(nodes[leaf], env, x)
           g == nodes'
<1>1. /\ at = "choose" /\ nodes[leaf].leaf /\ root' = root /\ given' = given /\ row' = row /\ made' = made /\ count' = x
      /\ Overfull(added) => /\ g = [nodes EXCEPT ![leaf] = added]
                            /\ at' = "split" /\ path' = path
      /\ ~Overfull(added) => /\ g = [n \in DOMAIN nodes |->
                                       IF n = leaf THEN added ELSE IF n \in ToSet(path) THEN Grown(nodes[n], env) ELSE nodes[n]]
                             /\ ItemDone
  BY DEF AddItem, WithItem
<1>2. Numbers /\ HeapInv /\ StepInv
  BY DEF IInv
<1>3. Chain(nodes, root, path) /\ count < Len(given) /\ row = <<>>
  BY <1>1, <1>2 DEF StepInv
<1>4. path \in Seq(DOMAIN nodes) /\ path # <<>> /\ leaf \in DOMAIN nodes /\ leaf = path[Len(path)] /\ leaf \in ToSet(path)
  <2>1. path \in Seq(DOMAIN nodes) /\ path # <<>>
    BY <1>3 DEF Chain
  <2> QED
    BY <2>1, LastIs DEF ToSet
<1> HIDE DEF leaf
<1>5. /\ root \in DOMAIN nodes
      /\ count = 0 => nodes = [i \in {root} |-> Blank]
      /\ count # 0 => Good(nodes, given, 1..count, {root}, {}, {})
  BY <1>1, <1>2, WholeTree
<1>6. /\ count \in Nat /\ Len(given) \in Nat /\ x \in 1..Len(given) /\ x \in Nat /\ x # 0
      /\ env \in Envelope /\ \A y \in 1..count : given[y] \in Envelope
  <2>1. count \in Nat /\ Len(given) \in Nat /\ (\A y \in 1..Len(given) : given[y] \in Envelope) /\ \A y \in 1..count : given[y] \in Envelope
    BY <1>2, HasEnvelopes
  <2>2. x \in 1..Len(given)
    BY <1>3, <2>1
  <2> QED
    BY <2>1, <2>2
<1>7. MaxEntries \in Nat \ {0}
  BY MaxEntriesIs
<1>8. DOMAIN g = DOMAIN nodes
  BY <1>1
<1>9. Numbers'
  BY <1>1, <1>2, <1>6, <1>8 DEF Numbers
<1>10. ItemDone => at' # "split"
  BY DEF ItemDone
\* The first item of all.
<1>11. CASE count = 0
  <2>1. nodes = [i \in {root} |-> Blank] /\ leaf = root /\ nodes[leaf] = Blank /\ x = 1
    BY <1>4, <1>5, <1>11
  <2>2. added = [leaf |-> TRUE, height |-> 0, env |-> env, entries |-> << 1 >>]
    <3>1. Expand(Empty, env) = env /\ Append(<<>>, 1) = << 1 >>
      BY DEF Expand
    <3>2. added = [leaf |-> TRUE, height |-> 0, env |-> Expand(Empty, env), entries |-> Append(<<>>, x)]
      <4> DEFINE n == nodes[leaf]
                 c == Empty
                 d == <<>>
                 a == TRUE
                 b == 0
      <4>1. n = [leaf |-> a, height |-> b, env |-> c, entries |-> d]
        BY <2>1 DEF Blank
      <4> HIDE DEF n, a, b, c, d, env, x, added
      <4>2. WithItem(n, env, x) = [leaf |-> a, height |-> b, env |-> Expand(c, env), entries |-> Append(d, x)]
        BY <4>1, WithItemIs
      <4> QED
        BY <4>2 DEF n, a, b, c, d, added
    <3> HIDE DEF added, env
    <3> QED
      BY <2>1, <3>1, <3>2
  <2>3. ~Overfull(added)
    <3> HIDE DEF added
    <3>1. Len(added.entries) = 1
      BY <2>2
    <3> QED
      BY <1>7, <3>1 DEF Overfull
  <2> HIDE DEF added, x
  <2>4. g = [n \in {root} |-> added] /\ ItemDone
    BY <1>1, <2>1, <2>3
  <2>5. g = [n \in {root} |-> [leaf |-> TRUE, height |-> 0, env |-> given[1], entries |-> << 1 >>]] /\ given[1] \in Envelope
    BY <1>6, <2>1, <2>2, <2>4
  <2>6. Good(g, given, {1}, {root}, {}, {})
    <3> HIDE DEF g
    <3> QED
      BY <2>5, FirstItem
  <2>7. 1..count' = {1}
    BY <1>1, <2>1
  <2>8. Good(nodes', given', 1..count', {root'}, {}, {})
    BY <1>1, <2>6, <2>7
  <2>9. ExactTree(g, given)
    <3> HIDE DEF g
    <3>1. \A n \in DOMAIN g : g[n].height = 0
      BY <2>5
    <3>2. \A n \in DOMAIN g : g[n].height <= 1 => g[n].env = Exact(g, given, n)
      BY <2>6 DEF Good, Tight
    <3> QED
      BY <3>1, <3>2 DEF ExactTree
  <2>10. OthersExact'
    BY <1>1, <1>10, <2>4, <2>9, OthersAreAll DEF g
  <2> QED
    BY <1>1, <1>3, <1>6, <1>9, <2>4, <2>8, <2>10, ItemDoneIs
<1>12. CASE count # 0
  <2> DEFINE items == 1..count
             none == {}
             tops == {root}
  <2>1. Good(nodes, given, items, {root}, {}, {})
    BY <1>5, <1>12
  <2>2. x \notin items /\ items \cup {x} = 1..x /\ \A y \in items \cup {x} : given[y] \in Envelope
    BY <1>6
  <2>3. \A n \in DOMAIN nodes : nodes[n] \in NodeShape
    BY <2>1 DEF Good, Shaped
  <2>4. /\ added \in NodeShape /\ added.leaf = nodes[leaf].leaf /\ added.height = nodes[leaf].height
        /\ added.entries = Append(nodes[leaf].entries, x) /\ added.env = Expand(nodes[leaf].env, env)
    BY <1>4, <1>6, <2>3, NodeWithItem
  <2>5. ASSUME NEW n \in DOMAIN nodes
        PROVE  /\ Grown(nodes[n], env) \in NodeShape
               /\ Grown(nodes[n], env).leaf = nodes[n].leaf /\ Grown(nodes[n], env).height = nodes[n].height
               /\ Grown(nodes[n], env).entries = nodes[n].entries /\ Grown(nodes[n], env).env = Expand(nodes[n].env, env)
    BY <1>6, <2>3, NodeWithItem
  <2> HIDE DEF items, added, x
  <2>6. CASE ~Overfull(added)
    <3>1. /\ g = [n \in DOMAIN nodes |->
                   IF n = leaf THEN added ELSE IF n \in ToSet(path) THEN Grown(nodes[n], env) ELSE nodes[n]]
          /\ ItemDone
      BY <1>1, <2>6
    <3> HIDE DEF g, env
    <3>2. OneMore(g, nodes, leaf, x)
      <4>1. \A n \in DOMAIN nodes : g[n] = IF n = leaf THEN added ELSE IF n \in ToSet(path) THEN Grown(nodes[n], env) ELSE nodes[n]
        BY <3>1
      <4>2. ASSUME NEW n \in DOMAIN nodes
            PROVE  /\ g[n] \in NodeShape /\ g[n].leaf = nodes[n].leaf /\ g[n].height = nodes[n].height
                   /\ g[n].entries = IF n = leaf THEN Append(nodes[n].entries, x) ELSE nodes[n].entries
        <5>1. CASE n = leaf
          BY <2>4, <4>1, <5>1
        <5>2. CASE n # leaf /\ n \in ToSet(path)
          BY <2>5, <4>1, <5>2
        <5>3. CASE n # leaf /\ n \notin ToSet(path)
          BY <2>3, <4>1, <5>3
        <5> QED
          BY <5>1, <5>2, <5>3
      <4> QED
        BY <1>1, <1>4, <1>8, <4>2 DEF OneMore, g
    <3>3. \A n \in DOMAIN nodes : g[n].env = IF n \in ToSet(path) THEN Expand(nodes[n].env, env) ELSE nodes[n].env
      <4>1. \A n \in DOMAIN nodes : g[n] = IF n = leaf THEN added ELSE IF n \in ToSet(path) THEN Grown(nodes[n], env) ELSE nodes[n]
        BY <3>1
      <4> SUFFICES ASSUME NEW n \in DOMAIN nodes PROVE g[n].env = IF n \in ToSet(path) THEN Expand(nodes[n].env, env) ELSE nodes[n].env
        OBVIOUS
      <4>2. CASE n = leaf
        BY <1>4, <2>4, <4>1, <4>2
      <4>3. CASE n # leaf /\ n \in ToSet(path)
        BY <2>5, <4>1, <4>3
      <4>4. CASE n # leaf /\ n \notin ToSet(path)
        BY <4>1, <4>4
      <4> QED
        BY <4>2, <4>3, <4>4
    <3>4. Len(g[path[Len(path)]].entries) <= MaxEntries
      <4>1. Len(added.entries) \in Nat
        BY <2>4 DEF NodeShape
      <4>2. Len(added.entries) <= MaxEntries
        BY <1>7, <2>6, <4>1 DEF Overfull
      <4>3. g[leaf] = added
        BY <1>4, <3>1
      <4> QED
        BY <1>4, <4>2, <4>3
    <3>5. OneMore(g, nodes, path[Len(path)], x)
      BY <1>4, <3>2
    <3>6. Good(g, given, items \cup {x}, {root}, {}, {}) /\ (ExactTree(nodes, given) => ExactTree(g, given))
      BY <1>3, <1>6, <2>1, <2>2, <3>3, <3>4, <3>5, ItemIsIn DEF env
    <3>7. Good(nodes', given', 1..count', {root'}, {}, {})
      BY <1>1, <2>2, <3>6 DEF g
    <3>8. count' # 0 /\ row' = <<>> /\ given' = given
      BY <1>1, <1>3, <1>6
    <3>9. OthersExact => OthersExact'
      BY <1>1, <1>10, <3>1, <3>6, OthersAreAll DEF g
    <3> QED
      BY <1>9, <3>1, <3>7, <3>8, <3>9, ItemDoneIs
  <2>7. CASE Overfull(added)
    <3>1. g = [nodes EXCEPT ![leaf] = added] /\ at' = "split" /\ path' = path
      BY <1>1, <2>7
    <3>2. \A n \in DOMAIN nodes : g[n] = IF n = leaf THEN added ELSE nodes[n]
      BY <3>1
    <3> HIDE DEF g, env
    <3>3. OneMore(g, nodes, leaf, x)
      <4>1. ASSUME NEW n \in DOMAIN nodes
            PROVE  /\ g[n] \in NodeShape /\ g[n].leaf = nodes[n].leaf /\ g[n].height = nodes[n].height
                   /\ g[n].entries = IF n = leaf THEN Append(nodes[n].entries, x) ELSE nodes[n].entries
        <5>1. CASE n = leaf
          BY <2>4, <3>2, <5>1
        <5>2. CASE n # leaf
          BY <2>3, <3>2, <5>2
        <5> QED
          BY <5>1, <5>2
      <4> QED
        BY <1>1, <1>4, <1>8, <4>1 DEF OneMore, g
    <3>4. \A n \in DOMAIN nodes : g[n].env = IF n = path[Len(path)] THEN Expand(nodes[n].env, env) ELSE nodes[n].env
      BY <1>4, <2>4, <3>2
    <3>5. OneMore(g, nodes, path[Len(path)], x)
      BY <1>4, <3>3
    <3> DEFINE stale == IF Len(path) > 1 THEN {path[Len(path) - 1]} ELSE {}
               big == {path[Len(path)]}
    <3>6. /\ Good(g, given, items \cup {x}, {root}, big, stale)
          /\ Chain(g, root, path)
          /\ ExactTree(nodes, given) => ExactBut(g, given, stale)
      BY <1>3, <1>6, <2>1, <2>2, <3>4, <3>5, LeafIsOver DEF env
    <3> HIDE DEF big, stale
    <3>7. Good(nodes', given', 1..count', {root'}, big, stale) /\ Chain(nodes', root', path')
      BY <1>1, <2>2, <3>1, <3>6 DEF g
    <3>8. Big' = big
      BY <1>4, <3>1 DEF Big, big, leaf
    <3>9. Stale' = stale
      BY <3>1 DEF Stale, stale
    <3>10. Placed' = 1..count' /\ Tops' = {root'}
      BY <3>1 DEF Placed, Tops
    <3>11. count' # 0 /\ count' > 0 /\ row' = <<>>
      BY <1>1, <1>3, <1>6
    <3>12. HeapInv'
      BY <3>1, <3>7, <3>8, <3>9, <3>10, <3>11 DEF HeapInv
    <3>13. Len(nodes'[Last(path')].entries) > MaxEntries
      <4>1. nodes'[leaf] = added
        BY <1>4, <3>2 DEF g
      <4> QED
        BY <2>7, <3>1, <4>1 DEF Overfull, leaf
    <3>14. StepInv'
      BY <3>1, <3>7, <3>11, <3>13 DEF StepInv
    <3>15. OthersExact => OthersExact'
      BY <1>1, <3>6, <3>9, OthersAreAll DEF OthersExact, g
    <3> QED
      BY <1>9, <3>12, <3>14, <3>15 DEF IInv
  <2> QED
    BY <2>6, <2>7
<1> QED
  BY <1>11, <1>12

-----------------------------------------------------------------------------
(***************************************************************************)
(* Splitting, as steps.                                                    *)
(***************************************************************************)

\* The entries of the new root.
LEMMA PairIs ==
  ASSUME NEW l \in Nat, NEW r \in Nat, l # r, NEW s, s = <<l, r>>
  PROVE  s \in Seq(Nat) /\ s # <<>> /\ Len(s) = 2 /\ ToSet(s) = {l, r} /\ IsInjective(s)
<1>1. s \in Seq(Nat) /\ Len(s) = 2 /\ s[1] = l /\ s[2] = r
  OBVIOUS
<1>2. DOMAIN s = 1..2
  BY <1>1
<1>3. DOMAIN s = {1, 2}
  BY <1>2
<1>4. ToSet(s) = {l, r}
  <2>1. \A y \in ToSet(s) : y \in {l, r}
    BY <1>1, <1>3 DEF ToSet
  <2>2. s[1] \in ToSet(s) /\ s[2] \in ToSet(s)
    BY <1>3 DEF ToSet
  <2> QED
    BY <1>1, <2>1, <2>2
<1>5. IsInjective(s)
  <2> SUFFICES ASSUME NEW i \in {1, 2}, NEW j \in {1, 2}, s[i] = s[j] PROVE i = j
    BY <1>3 DEF IsInjective
  <2> QED
    BY <1>1
<1>6. s # <<>>
  BY <1>1
<1> QED
  BY <1>1, <1>4, <1>5, <1>6

\* What the two splits start from.
LEMMA WhenSplit ==
  ASSUME IInv, at = "split"
  PROVE  /\ Good(nodes, given, 1..count, {root}, {Last(path)}, Stale)
         /\ Chain(nodes, root, path) /\ Len(nodes[Last(path)].entries) > MaxEntries
         /\ Last(path) \in DOMAIN nodes /\ root \in DOMAIN nodes
         /\ path \in Seq(DOMAIN nodes) /\ Len(path) \in Nat \ {0} /\ Last(path) = path[Len(path)]
         /\ \A n \in DOMAIN nodes : nodes[n].height \in Nat
         /\ Stale = IF Len(path) > 1 THEN {path[Len(path) - 1]} ELSE {}
         /\ Last(path) = root <=> Len(path) = 1
         /\ row = <<>> /\ count # 0 /\ made \in Nat /\ DOMAIN nodes \subseteq 1..made /\ root \in Nat
         /\ \A y \in 1..count : given[y] \in Envelope
<1>1. Numbers /\ HeapInv /\ StepInv
  BY DEF IInv
<1>2. /\ count > 0 /\ Len(nodes[Last(path)].entries) > MaxEntries /\ Chain(nodes, root, path) /\ row = <<>>
  BY <1>1 DEF StepInv
<1>3. Good(nodes, given, 1..count, {root}, {Last(path)}, Stale)
  BY <1>1, <1>2 DEF HeapInv, Placed, Tops, Big
<1>4. /\ path \in Seq(DOMAIN nodes) /\ path # <<>> /\ path[1] = root
      /\ \A k \in DOMAIN path : nodes[path[k]].height + k = nodes[root].height + 1
  BY <1>2 DEF Chain
<1>5. Last(path) = path[Len(path)] /\ Len(path) \in Nat \ {0} /\ Len(path) \in DOMAIN path
  BY <1>4, LastIs
<1>6. Last(path) \in DOMAIN nodes /\ root \in DOMAIN nodes
  <2>1. root \in DOMAIN nodes
    BY <1>3 DEF Good, Whole
  <2> QED
    BY <1>4, <1>5, <2>1
<1>7. \A n \in DOMAIN nodes : nodes[n].height \in Nat
  BY <1>3 DEF Good, Shaped, NodeShape
<1>8. Last(path) = root <=> Len(path) = 1
  <2>1. nodes[Last(path)].height + Len(path) = nodes[root].height + 1
    BY <1>4, <1>5
  <2>2. nodes[root].height \in Nat
    BY <1>6, <1>7
  <2>3. Last(path) = root => Len(path) = 1
    <3> DEFINE a == nodes[root].height
               len == Len(path)
    <3>1. len \in Nat /\ a \in Nat
      BY <1>5, <2>2
    <3>2. Last(path) = root => a + len = a + 1
      BY <2>1
    <3> HIDE DEF a, len
    <3>3. Last(path) = root => len = 1
      BY <3>1, <3>2
    <3> QED
      BY <3>3 DEF len
  <2> QED
    BY <1>4, <1>5, <2>3
<1>9. Stale = IF Len(path) > 1 THEN {path[Len(path) - 1]} ELSE {}
  BY DEF Stale
<1>10. \A y \in 1..count : given[y] \in Envelope
  BY <1>1, HasEnvelopes
<1>11. made \in Nat /\ DOMAIN nodes \subseteq 1..made /\ root \in Nat
  BY <1>1 DEF Numbers
<1>12. count # 0
  BY <1>2
<1> QED
  BY <1>2, <1>3, <1>4, <1>5, <1>6, <1>7, <1>8, <1>9, <1>10, <1>11, <1>12

\* Splitting the root keeps the invariant.
LEMMA SplitRootIs ==
  ASSUME IInv, SplitRoot
  PROVE  IInv' /\ (OthersExact => OthersExact')
<1> DEFINE k == Halved(root)
           l == made + 1
           r == made + 2
           t == made + 3
           s == <<l, r>>
           height == nodes[root].height + 1
           crown == [n \in {t} |-> NodeOf(height, s, EnvsIn(k))]
           one == {root}
           none == {}
           items == 1..count
           g == nodes'
<1>1. /\ at = "split" /\ Last(path) = root /\ g = With(k, crown) /\ root' = t /\ made' = t
      /\ count' = count /\ given' = given /\ row' = row /\ ItemDone
  BY DEF SplitRoot
<1>2. /\ Good(nodes, given, items, one, one, Stale)
      /\ Len(nodes[root].entries) > MaxEntries
      /\ root \in DOMAIN nodes /\ Len(path) = 1
      /\ nodes[root].height \in Nat
      /\ Stale = IF Len(path) > 1 THEN {path[Len(path) - 1]} ELSE {}
      /\ row = <<>> /\ count # 0 /\ made \in Nat /\ DOMAIN nodes \subseteq 1..made
      /\ \A y \in items : given[y] \in Envelope
  BY <1>1, WhenSplit
<1>3. Good(nodes, given, items, one, one, none)
  BY <1>2
<1>4. l \in Nat /\ r \in Nat /\ t \in Nat /\ l # r /\ t # l /\ t # r /\ t \notin DOMAIN nodes /\ height \in Nat /\ height # 0
  BY <1>2
<1>5. Splits(k, nodes, given, root, l, r)
  <2> HIDE DEF one, none, items
  <2>1. one = {root}
    BY DEF one
  <2> QED
    BY <1>2, <1>3, <2>1, HalvedIs
<1>6. s \in Seq(Nat) /\ s # <<>> /\ Len(s) = 2 /\ ToSet(s) = {l, r} /\ IsInjective(s)
  <2> DEFINE u == s
  <2>1. u = <<l, r>>
    OBVIOUS
  <2> HIDE DEF l, r, u
  <2>2. u \in Seq(Nat) /\ u # <<>> /\ Len(u) = 2 /\ ToSet(u) = {l, r} /\ IsInjective(u)
    BY <1>4, <2>1, PairIs
  <2> QED
    BY <2>2 DEF u
<1> HIDE DEF k, l, r, t, s, height
<1>7. Good(k, given, items, {l, r}, none, none) /\ (ExactTree(nodes, given) => ExactTree(k, given))
  <2> HIDE DEF items
  <2> QED
    BY <1>2, <1>3, <1>5, HalvesAreTops
<1>8. /\ DOMAIN k = (DOMAIN nodes \ {root}) \cup {l, r}
      /\ \A i \in {l, r} : k[i].height = nodes[root].height /\ k[i].env \in Envelope
  BY <1>5 DEF Splits, NodeShape
<1>9. \A y \in ToSet(s) : EnvsIn(k)[y] \in Envelope
  BY <1>6, <1>8 DEF EnvsIn
<1> DEFINE e == EnvsIn(k)
           c == NodeOf(height, s, e)
<1>10. /\ c \in NodeShape /\ c.leaf = (height = 0) /\ c.height = height /\ c.entries = s /\ c.env = HullOf(s, e)
  <2> HIDE DEF e
  <2>1. \A y \in ToSet(s) : e[y] \in Envelope
    BY <1>9 DEF e
  <2> QED
    BY <1>4, <1>6, <2>1, NodeOfIs
<1>11. DOMAIN crown = {t} /\ crown[t] = c
  OBVIOUS
<1> HIDE DEF crown, c, g
<1>12. DOMAIN g = DOMAIN k \cup {t} /\ t \notin DOMAIN k /\ g[t] = c /\ \A m \in DOMAIN k : g[m] = k[m]
  <2>1. /\ DOMAIN With(k, crown) = DOMAIN k \cup DOMAIN crown
        /\ \A m \in DOMAIN crown : With(k, crown)[m] = crown[m]
        /\ \A m \in DOMAIN k : m \notin DOMAIN crown => With(k, crown)[m] = k[m]
    BY WithIs
  <2>2. t \notin DOMAIN k
    BY <1>4, <1>8
  <2> QED
    BY <1>1, <1>11, <2>1, <2>2 DEF g
<1>13. Level(g, k, given, {t}, height, {l, r})
  <2>1. Len(s) <= MaxEntries
    <3>1. MaxEntries \in Nat \ {0, 1}
      BY FanoutAssumption
    <3> QED
      BY <1>6, <3>1
  <2>2. {t} \cap DOMAIN k = {}
    BY <1>12
  <2>3. UNION {ToSet(g[a].entries) : a \in {t}} = {l, r}
    BY <1>6, <1>10, <1>12
  <2>4. /\ g[t] \in NodeShape /\ g[t].height = height /\ g[t].leaf = (height = 0)
        /\ g[t].entries # <<>> /\ Len(g[t].entries) <= MaxEntries /\ IsInjective(g[t].entries)
        /\ g[t].env = HullOf(g[t].entries, IF height = 0 THEN given ELSE EnvsIn(k))
    BY <1>4, <1>6, <1>10, <1>12, <2>1
  <2> QED
    BY <1>12, <2>2, <2>3, <2>4 DEF Level
<1>14. Good(g, given, items, {t}, {}, {})
  <2> DEFINE tops == {l, r}
             new == {t}
  <2>1. \A m \in tops : k[m].height + 1 = height
    BY <1>8 DEF height
  <2>2. Good(k, given, items, tops, none, none) /\ Level(g, k, given, new, height, tops) /\ none = {}
    BY <1>7, <1>13
  <2> HIDE DEF tops, new, none, items
  <2>3. Good(g, given, items, new, {}, {})
    BY <1>2, <1>4, <2>1, <2>2, LevelIsGood
  <2> QED
    BY <2>3 DEF new
<1>15. Good(nodes', given', 1..count', {root'}, {}, {})
  BY <1>1, <1>14 DEF g
<1>16. Numbers'
  <2>1. \A m \in DOMAIN g : m \in 1..t
    <3>1. t = made + 3 /\ l = made + 1 /\ r = made + 2
      BY DEF t, l, r
    <3>2. l \in 1..t /\ r \in 1..t /\ t \in 1..t
      BY <1>2, <3>1
    <3>3. \A m \in DOMAIN nodes : m \in 1..t
      BY <1>2, <3>1
    <3> QED
      BY <1>8, <1>12, <3>2, <3>3
  <2>2. Numbers
    BY DEF IInv
  <2> QED
    BY <1>1, <1>4, <2>1, <2>2 DEF Numbers, g
\* The root has no parent.
<1>17. ASSUME OthersExact PROVE OthersExact'
  <2>1. ExactTree(nodes, given)
    BY <1>2, <1>17 DEF OthersExact, ExactBut, ExactTree
  <2>2. \A m \in DOMAIN k : ~k[m].leaf => \A y \in ToSet(k[m].entries) : y \in DOMAIN k
    <3> DEFINE tops == {l, r}
    <3>1. Good(k, given, items, tops, none, none)
      BY <1>7
    <3> HIDE DEF tops, none, items
    <3>2. \A m \in DOMAIN k : NodeFacts(k, given, tops, none, none, m)
      BY <1>2, <3>1, GoodIs
    <3> QED
      BY <3>2 DEF NodeFacts
  <2>3. ExactTree(g, given)
    <3> DEFINE tops == {l, r}
               new == {t}
    <3>1. Level(g, k, given, new, height, tops) /\ tops \subseteq DOMAIN k
      BY <1>8, <1>13
    <3> HIDE DEF tops, new
    <3> QED
      BY <1>7, <2>1, <2>2, <3>1, LevelIsExact
  <2>4. at' # "split"
    BY <1>1 DEF ItemDone
  <2> QED
    BY <1>1, <2>3, <2>4, OthersAreAll DEF g
<1> QED
  BY <1>1, <1>2, <1>15, <1>16, <1>17, ItemDoneIs

\* A sequence without its last.
LEMMA FrontIs ==
  ASSUME NEW X, NEW s \in Seq(X), Len(s) # 1, s # <<>>
  PROVE  /\ Front(s) \in Seq(X) /\ Front(s) # <<>> /\ Len(Front(s)) = Len(s) - 1
         /\ Len(s) - 1 \in Nat \ {0} /\ Len(s) - 1 \in DOMAIN s
         /\ DOMAIN Front(s) = 1..(Len(s) - 1) /\ DOMAIN Front(s) \subseteq DOMAIN s
         /\ \A k \in 1..(Len(s) - 1) : Front(s)[k] = s[k]
         /\ Last(Front(s)) = s[Len(s) - 1]
<1> DEFINE len == Len(s)
<1>1. len \in Nat /\ len # 0 /\ len # 1 /\ DOMAIN s = 1..len
  BY DEF len
<1>2. Front(s) = SubSeq(s, 1, len - 1)
  BY DEF Front
<1>3. len - 1 \in Nat \ {0} /\ 1..(len - 1) \subseteq 1..len /\ len - 1 \in 1..len
  <2> HIDE DEF len
  <2> QED
    BY <1>1
<1>4. /\ Front(s) \in Seq(X) /\ Len(Front(s)) = len - 1
      /\ \A k \in 1..(len - 1) : Front(s)[k] = s[k]
  BY <1>2, <1>3 DEF len
<1>5. DOMAIN Front(s) = 1..(len - 1) /\ Front(s) # <<>>
  BY <1>3, <1>4
<1>6. Last(Front(s)) = s[len - 1]
  BY <1>3, <1>4 DEF Last
<1> QED
  BY <1>1, <1>3, <1>4, <1>5, <1>6

\* The node above the one to be split.
LEMMA AboveIs ==
  ASSUME IInv, at = "split", Last(path) # root,
         NEW n, n = Last(path), NEW p, p = Last(Front(path))
  PROVE  /\ Len(path) \in Nat \ {0, 1} /\ p = path[Len(path) - 1] /\ Stale = {p}
         /\ p \in DOMAIN nodes /\ n \in DOMAIN nodes /\ n \in ToSet(nodes[p].entries)
         /\ nodes[p].height = nodes[n].height + 1 /\ nodes[p].height \in Nat \ {0} /\ ~nodes[p].leaf
         /\ n # p /\ Front(path) \in Seq(DOMAIN nodes) /\ Front(path) # <<>>
<1>1. /\ Chain(nodes, root, path) /\ path \in Seq(DOMAIN nodes) /\ Len(path) \in Nat \ {0}
      /\ n = path[Len(path)] /\ n \in DOMAIN nodes /\ Len(path) # 1
      /\ Stale = IF Len(path) > 1 THEN {path[Len(path) - 1]} ELSE {}
      /\ \A m \in DOMAIN nodes : nodes[m].height \in Nat
      /\ root \in DOMAIN nodes
  BY WhenSplit
<1>2. Good(nodes, given, 1..count, {root}, {Last(path)}, Stale)
  BY WhenSplit
<1>3. path # <<>>
  BY <1>1 DEF Chain
<1> DEFINE len == Len(path)
<1>4. /\ len - 1 \in Nat \ {0} /\ len - 1 \in DOMAIN path /\ p = path[len - 1]
      /\ Front(path) \in Seq(DOMAIN nodes) /\ Front(path) # <<>>
  BY <1>1, <1>3, FrontIs
<1>5. len \in Nat \ {0, 1} /\ len > 1 /\ len - 1 + 1 = len
  <2>1. len \in Nat \ {0, 1}
    BY <1>1
  <2> HIDE DEF len
  <2> QED
    BY <2>1
<1>6. Stale = {p}
  BY <1>1, <1>4, <1>5
<1>7. p \in DOMAIN nodes
  BY <1>1, <1>4
<1>8. n \in ToSet(nodes[p].entries)
  <2>1. \A k \in 1..(len - 1) : path[k + 1] \in ToSet(nodes[path[k]].entries)
    BY <1>1 DEF Chain
  <2>2. len - 1 \in 1..(len - 1)
    BY <1>4
  <2>3. path[len - 1 + 1] \in ToSet(nodes[path[len - 1]].entries)
    BY <2>1, <2>2
  <2> QED
    BY <1>1, <1>4, <1>5, <2>3
<1>9. nodes[p].height = nodes[n].height + 1
  <2>1. \A k \in DOMAIN path : nodes[path[k]].height + k = nodes[root].height + 1
    BY <1>1 DEF Chain
  <2>2. len \in DOMAIN path
    BY <1>1
  <2>3. nodes[p].height + (len - 1) = nodes[root].height + 1 /\ nodes[n].height + len = nodes[root].height + 1
    BY <1>1, <1>4, <2>1, <2>2
  <2> DEFINE a == nodes[p].height
             b == nodes[n].height
             c == nodes[root].height
  <2>4. a \in Nat /\ b \in Nat /\ c \in Nat
    BY <1>1, <1>7
  <2>5. a + (len - 1) = c + 1 /\ b + len = c + 1
    BY <2>3
  <2> HIDE DEF a, b, c, len
  <2>6. a = b + 1
    BY <1>5, <2>4, <2>5
  <2> QED
    BY <2>6 DEF a, b
<1>10. nodes[n].height \in Nat /\ nodes[p].height \in Nat \ {0} /\ n # p
  <2>1. nodes[n].height \in Nat
    BY <1>1
  <2> QED
    BY <1>9, <2>1
<1>11. ~nodes[p].leaf
  <2>1. nodes[p].leaf = (nodes[p].height = 0)
    BY <1>2, <1>7 DEF Good, Shaped
  <2> QED
    BY <1>10, <2>1
<1> QED
  BY <1>1, <1>4, <1>5, <1>6, <1>7, <1>8, <1>9, <1>10, <1>11

\* What holds the last node of a way is the one before it.
LEMMA HoldersOnWay ==
  ASSUME NEW h, NEW env, NEW items, NEW top, NEW big, NEW stale, Good(h, env, items, {top}, big, stale),
         NEW way, Chain(h, top, way)
  PROVE  Holders(h, Last(way)) \subseteq IF Len(way) > 1 THEN {way[Len(way) - 1]} ELSE {}
<1>1. way \in Seq(DOMAIN h) /\ way # <<>>
  BY DEF Chain
<1> DEFINE len == Len(way)
<1>2. len \in DOMAIN way /\ Last(way) = way[len]
  BY <1>1, LastIs
<1> HIDE DEF len
<1>3. ASSUME NEW n \in DOMAIN h, ~h[n].leaf, way[len] \in ToSet(h[n].entries) PROVE len > 1 /\ n = way[len - 1]
  <2> DEFINE k == len
  <2>1. k \in DOMAIN way /\ way[k] \in ToSet(h[n].entries)
    BY <1>2, <1>3
  <2> HIDE DEF k
  <2>2. k > 1 /\ n = way[k - 1]
    BY <1>3, <2>1, ParentOnChain
  <2> QED
    BY <2>2 DEF k
<1>4. ASSUME NEW n \in Holders(h, Last(way)) PROVE len > 1 /\ n = way[len - 1]
  BY <1>2, <1>3, <1>4 DEF Holders
<1> QED
  BY <1>4 DEF len

\* The way to a node's parent, when only the parent and what is below it
\* are no longer what they were.
LEMMA ShorterWay ==
  ASSUME NEW h, NEW g, NEW top, NEW way, Chain(h, top, way), Len(way) \in Nat \ {0, 1},
         \A m \in DOMAIN h : h[m].height \in Nat,
         NEW n, n = way[Len(way)], NEW p, p = way[Len(way) - 1],
         \A m \in DOMAIN h : m # n => m \in DOMAIN g /\ g[m].height = h[m].height /\ (m # p => g[m] = h[m])
  PROVE  Chain(g, top, Front(way))
<1> DEFINE len == Len(way)
           f == Front(way)
<1>1. /\ way \in Seq(DOMAIN h) /\ way # <<>> /\ way[1] = top
      /\ \A k \in DOMAIN way : h[way[k]].height + k = h[top].height + 1
      /\ \A k \in 1..(len - 1) : way[k + 1] \in ToSet(h[way[k]].entries)
  BY DEF Chain
<1>2. /\ f \in Seq(DOMAIN h) /\ f # <<>> /\ Len(f) = len - 1 /\ len - 1 \in Nat \ {0} /\ DOMAIN f = 1..(len - 1)
      /\ DOMAIN f \subseteq DOMAIN way /\ \A k \in 1..(len - 1) : f[k] = way[k]
  BY <1>1, FrontIs
<1>3. len \in Nat \ {0, 1} /\ len \in DOMAIN way /\ DOMAIN way = 1..len
  BY <1>1
<1> HIDE DEF f, len
<1>4. f[1] = top /\ 1 \in DOMAIN f /\ 1 \in DOMAIN way
  BY <1>1, <1>2, <1>3
<1>5. top \in DOMAIN h
  BY <1>1, <1>4
<1>6. \A k \in DOMAIN way : way[k] \in DOMAIN h
  BY <1>1
<1>7. \A j, k \in DOMAIN way : way[j] = way[k] => j = k
  <2> SUFFICES ASSUME NEW j \in DOMAIN way, NEW k \in DOMAIN way, way[j] = way[k] PROVE j = k
    OBVIOUS
  <2>1. h[way[j]].height + j = h[way[j]].height + k
    BY <1>1
  <2>2. h[way[j]].height \in Nat /\ j \in Nat /\ k \in Nat
    BY <1>3, <1>6
  <2> DEFINE a == h[way[j]].height
  <2> HIDE DEF a
  <2>3. a + j = a + k /\ a \in Nat
    BY <2>1, <2>2 DEF a
  <2> QED
    BY <2>2, <2>3
<1>8. \A k \in DOMAIN f : f[k] \in DOMAIN h /\ f[k] # n
  <2> SUFFICES ASSUME NEW k \in DOMAIN f PROVE f[k] \in DOMAIN h /\ f[k] # n
    OBVIOUS
  <2>1. k # len /\ k \in DOMAIN way /\ f[k] = way[k]
    BY <1>2, <1>3
  <2> QED
    BY <1>3, <1>6, <1>7, <2>1 DEF len
<1>9. \A k \in DOMAIN f : f[k] \in DOMAIN g /\ g[f[k]].height = h[way[k]].height
  BY <1>2, <1>8
<1>10. f \in Seq(DOMAIN g)
  <2>1. \A k \in 1..Len(f) : f[k] \in DOMAIN g
    BY <1>2, <1>9
  <2> QED
    BY <1>2, <2>1
<1>11. top \in DOMAIN g /\ g[top].height = h[top].height
  BY <1>1, <1>4, <1>9
<1>12. \A k \in DOMAIN f : g[f[k]].height + k = g[top].height + 1
  BY <1>1, <1>2, <1>9, <1>11
<1>13. \A k \in 1..(Len(f) - 1) : f[k + 1] \in ToSet(g[f[k]].entries)
  <2> SUFFICES ASSUME NEW k \in 1..(Len(f) - 1) PROVE f[k + 1] \in ToSet(g[f[k]].entries)
    OBVIOUS
  <2>1. k \in 1..(len - 1) /\ k + 1 \in 1..(len - 1) /\ k # len - 1 /\ k \in DOMAIN way /\ len - 1 \in DOMAIN way
    BY <1>2, <1>3
  <2>2. way[k] # p
    BY <1>7, <2>1 DEF len
  <2>3. f[k] = way[k] /\ f[k + 1] = way[k + 1] /\ f[k] \in DOMAIN h /\ f[k] # n
    BY <1>2, <1>8, <2>1
  <2>4. g[f[k]] = h[way[k]]
    BY <2>2, <2>3
  <2> QED
    BY <1>1, <2>1, <2>3, <2>4
<1>14. Chain(g, top, f)
  BY <1>2, <1>4, <1>10, <1>12, <1>13 DEF Chain
<1> QED
  BY <1>14 DEF f

\* Splitting another node, one turn of splitAndPropagate, keeps the invariant.
LEMMA SplitInnerIs ==
  ASSUME IInv, SplitInner
  PROVE  IInv' /\ (OthersExact /\ ~Absorbed => OthersExact')
<1> DEFINE n == Last(path)
           p == Last(Front(path))
           k == Halved(n)
           l == made + 1
           r == made + 2
           one == {root}
           big == {n}
           stale == {p}
           items == 1..count
           g == nodes'
<1>1. /\ at = "split" /\ n # root /\ g = [k EXCEPT ![p] = Adopted(p, n)] /\ root' = root /\ made' = r
      /\ count' = count /\ given' = given /\ row' = row
      /\ IF Overfull(Adopted(p, n)) THEN path' = Front(path) /\ at' = at ELSE ItemDone
  BY DEF SplitInner
<1>2. /\ Good(nodes, given, items, one, big, Stale)
      /\ Chain(nodes, root, path) /\ Len(nodes[n].entries) > MaxEntries /\ n = path[Len(path)]
      /\ \A m \in DOMAIN nodes : nodes[m].height \in Nat
      /\ row = <<>> /\ count # 0 /\ made \in Nat /\ DOMAIN nodes \subseteq 1..made
      /\ \A y \in items : given[y] \in Envelope
      /\ count \in Nat
  <2>1. count \in Nat
    BY HasEnvelopes DEF IInv
  <2> QED
    BY <1>1, <2>1, WhenSplit
<1>3. /\ Len(path) \in Nat \ {0, 1} /\ p = path[Len(path) - 1] /\ Stale = stale
      /\ p \in DOMAIN nodes /\ n \in DOMAIN nodes /\ n \in ToSet(nodes[p].entries)
      /\ nodes[p].height \in Nat \ {0} /\ ~nodes[p].leaf
      /\ n # p /\ Front(path) \in Seq(DOMAIN nodes) /\ Front(path) # <<>>
  BY <1>1, AboveIs
<1>4. Good(nodes, given, items, one, big, stale)
  BY <1>2, <1>3
<1>5. big = {n} /\ stale = {p} /\ one = {root}
  OBVIOUS
<1> HIDE DEF n, p, k, l, r, one, big, stale, items, g
<1>6. Splits(k, nodes, given, n, l, r)
  BY <1>2, <1>3, <1>4, <1>5, HalvedIs DEF k, l, r
<1>7. DOMAIN k = (DOMAIN nodes \ {n}) \cup {l, r} /\ \A m \in DOMAIN nodes \ {n} : k[m] = nodes[m]
  BY <1>6 DEF Splits
<1>8. NodeFacts(nodes, given, one, big, stale, p)
  BY <1>2, <1>3, <1>4, GoodIs
<1>9. nodes[p].entries \in Seq(Nat) /\ IsInjective(nodes[p].entries) /\ ToSet(nodes[p].entries) \subseteq DOMAIN nodes
  BY <1>3, <1>8 DEF NodeFacts
<1>10. Adopts(g, k, nodes, n, p, l, r) /\ g[p] = Adopted(p, n)
  <2>1. k = Halved(n) /\ nodes' = [k EXCEPT ![p] = Adopted(p, n)]
        /\ DOMAIN k = (DOMAIN nodes \ {n}) \cup {made + 1, made + 2}
    BY <1>1, <1>7 DEF k, l, r, g
  <2>2. Adopts(nodes', k, nodes, n, p, made + 1, made + 2) /\ nodes'[p] = Adopted(p, n)
    BY <1>2, <1>3, <1>9, <2>1, AdoptedIs
  <2> QED
    BY <2>2 DEF l, r, g
<1>11. /\ Good(g, given, items, one, {p}, {})
       /\ Len(g[p].entries) <= MaxEntries => Good(g, given, items, one, {}, {})
       /\ ExactBut(nodes, given, stale) => ExactBut(g, given, Holders(g, p))
  BY <1>2, <1>3, <1>4, <1>5, <1>6, <1>10, ParentIsGood
<1>12. DOMAIN g = (DOMAIN nodes \ {n}) \cup {l, r} /\ p \in DOMAIN g
  BY <1>3, <1>7, <1>10 DEF Adopts
<1>13. Numbers'
  <2>1. \A m \in DOMAIN g : m \in 1..r
    <3>1. r = made + 2 /\ l = made + 1
      BY DEF r, l
    <3>2. l \in 1..r /\ r \in 1..r
      BY <1>2, <3>1
    <3>3. \A m \in DOMAIN nodes : m \in 1..r
      BY <1>2, <3>1
    <3> QED
      BY <1>12, <3>2, <3>3
  <2>2. Numbers
    BY DEF IInv
  <2>3. r \in Nat
    BY <1>2 DEF r
  <2> QED
    BY <1>1, <2>1, <2>2, <2>3 DEF Numbers, g
<1>14. CASE Overfull(Adopted(p, n))
  <2>1. path' = Front(path) /\ at' = "split"
    BY <1>1, <1>14
  <2>2. Len(g[p].entries) > MaxEntries
    BY <1>10, <1>14 DEF Overfull
  <2>3. Last(path') = p
    BY <2>1 DEF p
  <2>4. Chain(g, root, path')
    <3>1. \A m \in DOMAIN nodes : m # n => m \in DOMAIN g /\ g[m].height = nodes[m].height /\ (m # p => g[m] = nodes[m])
      <4> SUFFICES ASSUME NEW m \in DOMAIN nodes, m # n
                   PROVE  m \in DOMAIN g /\ g[m].height = nodes[m].height /\ (m # p => g[m] = nodes[m])
        OBVIOUS
      <4>1. m \in DOMAIN g /\ m \in DOMAIN k /\ k[m] = nodes[m]
        BY <1>7, <1>12
      <4>2. CASE m = p
        <5>1. g[p] = [leaf |-> FALSE, height |-> nodes[p].height, env |-> g[p].env, entries |-> g[p].entries]
          BY <1>10 DEF Adopts
        <5>2. g[p].height = nodes[p].height
          BY <5>1
        <5> QED
          BY <4>1, <4>2, <5>2
      <4>3. CASE m # p
        BY <1>10, <4>1, <4>3 DEF Adopts
      <4> QED
        BY <4>2, <4>3
    <3> QED
      BY <1>2, <1>3, <2>1, <3>1, ShorterWay
  <2>5. Good(g, given, items, one, {p}, Stale')
    BY <1>11, MayBeStale
  <2>6. HeapInv'
    <3>1. Placed' = items /\ Tops' = one /\ Big' = {p}
      BY <1>1, <2>1, <2>3 DEF Placed, Tops, Big, items, one
    <3>2. count' # 0 /\ at' # "leaves" /\ given' = given
      BY <1>1, <1>2, <2>1
    <3>3. Good(nodes', given', Placed', Tops', Big', Stale')
      BY <2>5, <3>1, <3>2 DEF g
    <3> QED
      BY <3>2, <3>3 DEF HeapInv
  <2>7. StepInv'
    <3>1. count' > 0
      BY <1>1, <1>2
    <3> QED
      BY <1>1, <1>2, <2>1, <2>2, <2>3, <2>4, <3>1 DEF StepInv, g
\* Above p there is only the one before it on the way.
  <2>8. Holders(g, p) \subseteq Stale'
    <3> DEFINE top == root
               one1 == {p}
               none == {}
    <3>1. Good(g, given, items, {top}, one1, none) /\ Chain(g, top, path')
      BY <1>5, <1>11, <2>4
    <3> HIDE DEF top, one1, none
    <3>2. Holders(g, Last(path')) \subseteq IF Len(path') > 1 THEN {path'[Len(path') - 1]} ELSE {}
      BY <3>1, HoldersOnWay
    <3> QED
      BY <2>1, <2>3, <3>2 DEF Stale
  <2>9. OthersExact => OthersExact'
    BY <1>1, <1>3, <1>11, <2>8 DEF OthersExact, ExactBut, g
  <2> QED
    BY <1>13, <2>6, <2>7, <2>9 DEF IInv
<1>15. CASE ~Overfull(Adopted(p, n))
  <2>1. Len(g[p].entries) <= MaxEntries
    <3>1. Len(g[p].entries) \in Nat /\ MaxEntries \in Nat
      <4>1. g[p].entries \in Seq(Nat)
        BY <1>10 DEF Adopts
      <4> QED
        BY <4>1, FanoutAssumption
    <3> QED
      BY <1>10, <1>15, <3>1 DEF Overfull
  <2>2. Good(nodes', given', 1..count', {root'}, {}, {})
    BY <1>1, <1>11, <2>1 DEF g, items, one
  <2>3. at' # "split"
    BY <1>1, <1>15, Zenon DEF ItemDone
\* Above the root there is none.
  <2>4. ASSUME OthersExact, ~Absorbed PROVE OthersExact'
    <3>1. ~(Len(path) > 2)
      BY <2>3, <2>4, Zenon DEF Absorbed
    <3>2. Len(path) = 2
      <4> DEFINE len == Len(path)
      <4>1. len \in Nat \ {0, 1} /\ ~(len > 2)
        BY <1>3, <3>1
      <4> HIDE DEF len
      <4>2. len = 2
        BY <4>1
      <4> QED
        BY <4>2 DEF len
    <3>3. p = root
      <4>1. path[1] = root
        BY <1>2 DEF Chain
      <4> QED
        BY <1>3, <3>2, <4>1
    <3>4. p \notin Held(g, FALSE) /\ \A m \in DOMAIN g : g[m].leaf \in BOOLEAN
      BY <1>5, <1>11, <3>3 DEF Good, Whole, Shaped, NodeShape
    <3>5. Holders(g, p) = {}
      BY <3>4, HeldIs DEF Holders
    <3>6. ExactBut(g, given, Holders(g, p))
      BY <1>3, <1>11, <2>4 DEF OthersExact
    <3>7. ExactTree(g, given)
      BY <3>5, <3>6 DEF ExactBut, ExactTree
    <3> QED
      BY <1>1, <2>3, <3>7, OthersAreAll DEF g
  <2> QED
    BY <1>1, <1>2, <1>13, <1>15, <2>2, <2>4, ItemDoneIs
<1> QED
  BY <1>14, <1>15

-----------------------------------------------------------------------------
(***************************************************************************)
(* Rebuilding, as steps.                                                   *)
(***************************************************************************)

\* The empty sequence.
LEMMA NoneIs ==
  ASSUME NEW X, NEW s, s = <<>>
  PROVE  s \in Seq(X) /\ IsInjective(s) /\ ToSet(s) = {} /\ Len(s) = 0
<1>1. s \in Seq(X) /\ Len(s) = 0 /\ DOMAIN s = 1..0
  OBVIOUS
<1>2. DOMAIN s = {}
  BY <1>1
<1> QED
  BY <1>1, <1>2 DEF IsInjective, ToSet

\* A sequence of one.
LEMMA SingleIs ==
  ASSUME NEW X, NEW x \in X, NEW s, s = <<x>>
  PROVE  s \in Seq(X) /\ IsInjective(s) /\ ToSet(s) = {x} /\ s # <<>>
<1>1. s \in Seq(X) /\ Len(s) = 1 /\ s[1] = x /\ DOMAIN s = 1..1
  OBVIOUS
<1>2. DOMAIN s = {1}
  BY <1>1
<1> QED
  BY <1>1, <1>2 DEF IsInjective, ToSet

\* A sequence without its first.
LEMMA TailIs ==
  ASSUME NEW X, NEW s \in Seq(X), s # <<>>, IsInjective(s)
  PROVE  /\ Tail(s) \in Seq(X) /\ IsInjective(Tail(s)) /\ Head(s) \in X /\ Head(s) \in ToSet(s)
         /\ ToSet(Tail(s)) = ToSet(s) \ {Head(s)}
<1> DEFINE t == Tail(s)
           a == Head(s)
           len == Len(s)
<1>1. /\ len \in Nat \ {0} /\ DOMAIN s = 1..len /\ t \in Seq(X) /\ Len(t) = len - 1 /\ a = s[1]
      /\ \A i \in 1..(len - 1) : t[i] = s[i + 1]
  OBVIOUS
<1>2. DOMAIN t = 1..(len - 1)
  BY <1>1
<1>3. \A i \in DOMAIN s : s[i] \in X
  BY <1>1
<1> HIDE DEF t, a, len
<1>4. 1 \in DOMAIN s /\ a \in X /\ a \in ToSet(s)
  BY <1>1, <1>3 DEF ToSet
<1>5. \A i, j \in DOMAIN s : s[i] = s[j] => i = j
  BY DEF IsInjective
<1>6. IsInjective(t)
  <2> SUFFICES ASSUME NEW i \in DOMAIN t, NEW j \in DOMAIN t, t[i] = t[j] PROVE i = j
    BY DEF IsInjective
  <2>1. i + 1 \in DOMAIN s /\ j + 1 \in DOMAIN s /\ s[i + 1] = s[j + 1] /\ i \in Nat /\ j \in Nat
    BY <1>1, <1>2
  <2> QED
    BY <1>5, <2>1
<1>7. ASSUME NEW y \in ToSet(t) PROVE y \in ToSet(s) \ {a}
  <2>1. PICK i \in DOMAIN t : y = t[i]
    BY <1>7 DEF ToSet
  <2>2. i + 1 \in DOMAIN s /\ y = s[i + 1] /\ i + 1 # 1
    BY <1>1, <1>2, <2>1
  <2>3. y # s[1]
    BY <1>4, <1>5, <2>2
  <2> QED
    BY <1>1, <2>2, <2>3 DEF ToSet
<1>8. ASSUME NEW y \in ToSet(s), y # a PROVE y \in ToSet(t)
  <2>1. PICK i \in DOMAIN s : y = s[i]
    BY <1>8 DEF ToSet
  <2>2. i - 1 \in 1..(len - 1) /\ i - 1 + 1 = i
    BY <1>1, <1>8, <2>1
  <2>3. t[i - 1] = y
    BY <1>1, <2>1, <2>2
  <2> QED
    BY <1>2, <2>2, <2>3 DEF ToSet
<1>9. ToSet(t) = ToSet(s) \ {a}
  BY <1>7, <1>8
<1> QED
  BY <1>1, <1>4, <1>6, <1>9 DEF t, a

\* Two sequences with nothing in common, one after the other.
LEMMA JoinIs ==
  ASSUME NEW X, NEW s \in Seq(X), NEW t \in Seq(X), IsInjective(s), IsInjective(t),
         \A y \in ToSet(t) : y \notin ToSet(s)
  PROVE  /\ s \o t \in Seq(X) /\ IsInjective(s \o t) /\ ToSet(s \o t) = ToSet(s) \cup ToSet(t)
         /\ Len(s \o t) = Len(s) + Len(t)
<1> DEFINE u == s \o t
           a == Len(s)
           b == Len(t)
<1>1. /\ a \in Nat /\ b \in Nat /\ DOMAIN s = 1..a /\ DOMAIN t = 1..b
      /\ u \in Seq(X) /\ Len(u) = a + b
      /\ \A i \in 1..(a + b) : u[i] = IF i <= a THEN s[i] ELSE t[i - a]
  OBVIOUS
<1>2. DOMAIN u = 1..(a + b)
  BY <1>1
<1> HIDE DEF u, a, b
<1>3. ASSUME NEW i \in DOMAIN u
      PROVE  \/ i \in DOMAIN s /\ u[i] = s[i] /\ u[i] \in ToSet(s) /\ i <= a
             \/ i - a \in DOMAIN t /\ u[i] = t[i - a] /\ u[i] \in ToSet(t) /\ u[i] \notin ToSet(s) /\ i > a
  <2>1. i \in Nat /\ i >= 1 /\ i <= a + b
    BY <1>1, <1>2
  <2>2. CASE i <= a
    <3>1. i \in DOMAIN s /\ u[i] = s[i]
      BY <1>1, <1>2, <2>1, <2>2
    <3> QED
      BY <2>2, <3>1 DEF ToSet
  <2>3. CASE i > a
    <3>1. i - a \in DOMAIN t /\ u[i] = t[i - a]
      BY <1>1, <1>2, <2>1, <2>3
    <3>2. u[i] \in ToSet(t)
      BY <3>1 DEF ToSet
    <3> QED
      BY <2>3, <3>1, <3>2
  <2> QED
    BY <1>1, <2>1, <2>2, <2>3
<1>4. IsInjective(u)
  <2> SUFFICES ASSUME NEW i \in DOMAIN u, NEW j \in DOMAIN u, u[i] = u[j] PROVE i = j
    BY DEF IsInjective
  <2>1. \/ i \in DOMAIN s /\ j \in DOMAIN s /\ s[i] = s[j]
        \/ i - a \in DOMAIN t /\ j - a \in DOMAIN t /\ t[i - a] = t[j - a]
    BY <1>3
  <2>2. i = j \/ i - a = j - a
    BY <2>1 DEF IsInjective
  <2>3. i \in Nat /\ j \in Nat
    BY <1>1, <1>2
  <2> QED
    BY <1>1, <2>2, <2>3
<1>5. \A y \in ToSet(u) : y \in ToSet(s) \cup ToSet(t)
  BY <1>3 DEF ToSet
<1>6. \A y \in ToSet(s) : y \in ToSet(u)
  <2> SUFFICES ASSUME NEW y \in ToSet(s) PROVE y \in ToSet(u)
    OBVIOUS
  <2>1. PICK i \in DOMAIN s : y = s[i]
    BY DEF ToSet
  <2>2. i \in DOMAIN u /\ u[i] = y
    BY <1>1, <1>2, <2>1
  <2> QED
    BY <2>2 DEF ToSet
<1>7. \A y \in ToSet(t) : y \in ToSet(u)
  <2> SUFFICES ASSUME NEW y \in ToSet(t) PROVE y \in ToSet(u)
    OBVIOUS
  <2>1. PICK i \in DOMAIN t : y = t[i]
    BY DEF ToSet
  <2>2. a + i \in DOMAIN u /\ ~(a + i <= a) /\ a + i - a = i
    BY <1>1, <1>2, <2>1
  <2>3. u[a + i] = y
    BY <1>1, <1>2, <2>1, <2>2
  <2> QED
    BY <2>2, <2>3 DEF ToSet
<1>8. ToSet(u) = ToSet(s) \cup ToSet(t)
  BY <1>5, <1>6, <1>7
<1> QED
  BY <1>1, <1>4, <1>8 DEF u, a, b

\* A sequence with its members in Y is a sequence over Y.
LEMMA SeqInto ==
  ASSUME NEW X, NEW s \in Seq(X), NEW Y, \A y \in ToSet(s) : y \in Y
  PROVE  s \in Seq(Y)
<1>1. DOMAIN s = 1..Len(s) /\ Len(s) \in Nat /\ s = [i \in 1..Len(s) |-> s[i]]
  OBVIOUS
<1>2. \A i \in 1..Len(s) : s[i] \in Y
  BY <1>1 DEF ToSet
<1> QED
  BY <1>1, <1>2

\* The members of a sequence over X are in X.
LEMMA MembersAre ==
  ASSUME NEW X, NEW s \in Seq(X)
  PROVE  \A y \in ToSet(s) : y \in X
BY DEF ToSet

\* A sequence of all the numbers from one up has as many members as there
\* are numbers.
LEMMA AsLong ==
  ASSUME NEW n \in Nat, NEW s \in Seq(1..n), IsInjective(s), ToSet(s) = 1..n
  PROVE  Len(s) = n
<1> DEFINE len == Len(s)
           D == 1..len
           N == 1..n
<1>1. len \in Nat /\ DOMAIN s = D /\ s \in [D -> N]
  OBVIOUS
<1>2. s \in Injection(D, N)
  BY <1>1 DEF IsInjective, Injection
<1>3. \A y \in N : \E i \in D : s[i] = y
  BY <1>1 DEF ToSet
<1>4. s \in Surjection(D, N)
  BY <1>1, <1>3 DEF Surjection
<1>5. IsFiniteSet(N) /\ Cardinality(N) = IF 1 > n THEN 0 ELSE n - 1 + 1
  BY FS_Interval
<1>6. Cardinality(D) = IF 1 > len THEN 0 ELSE len - 1 + 1
  <2> HIDE DEF len
  <2>1. len \in Int /\ 1 \in Int
    BY <1>1
  <2> QED
    BY <2>1, FS_Interval
<1> HIDE DEF D, N, len
<1>7. Cardinality(D) = Cardinality(N)
  BY <1>2, <1>4, <1>5, FS_Injection
<1>8. len = n
  BY <1>1, <1>5, <1>6, <1>7
<1> QED
  BY <1>8 DEF len

\* The start of Bulk with a large batch keeps the invariant.
LEMMA BulkRebuildIs ==
  ASSUME IInv, BulkRebuild
  PROVE  IInv'
<1>1. Numbers /\ HeapInv /\ StepInv
  BY DEF IInv
<1>2. given \in Seq(Box) /\ MaxItems \in Nat /\ Batches \subseteq Seq(Box) /\ Threshold \in Nat \ {0}
  BY <1>1, InputAssumption DEF Numbers
<1>3. PICK batch \in Batches :
        /\ at = "idle" /\ Len(batch) >= Threshold /\ Len(given) + Len(batch) <= MaxItems /\ given' = given \o batch
        /\ at' = "collect" /\ path' = IF count > 0 THEN <<root>> ELSE <<>>
        /\ UNCHANGED <<nodes, root, count, row, made>>
  BY DEF BulkRebuild
<1>4. batch \in Seq(Box) /\ Len(batch) \in Nat \ {0}
  BY <1>2, <1>3
<1>5. count \in Nat /\ Len(given) \in Nat /\ count = Len(given) /\ row = <<>>
  BY <1>1, <1>3, HasEnvelopes DEF StepInv
<1>6. given' \in Seq(Box) /\ Len(given') = Len(given) + Len(batch) /\ \A y \in 1..Len(given) : given'[y] = given[y]
  BY <1>2, <1>3, <1>4, AppendGiven
<1>7. Len(given') <= MaxItems /\ Len(given') > Len(given) /\ Len(given') \in Nat
  BY <1>2, <1>3, <1>4, <1>5, <1>6
<1>8. /\ root \in DOMAIN nodes
      /\ count = 0 => nodes = [n \in {root} |-> Blank]
      /\ count # 0 => Good(nodes, given, 1..count, {root}, {}, {})
  BY <1>1, <1>3, WholeTree
<1>9. Numbers'
  BY <1>1, <1>3, <1>5, <1>6, <1>7 DEF Numbers
<1>10. row' = <<>> /\ row' \in Seq(1..count) /\ IsInjective(row') /\ ToSet(row') = {}
  <2>1. row' = <<>>
    BY <1>3, <1>5
  <2> QED
    BY <2>1, NoneIs
<1>11. /\ path' \in Seq(DOMAIN nodes) /\ IsInjective(path') /\ (count = 0 => path' = <<>>)
       /\ count # 0 => ToSet(path') = {root}
  <2>1. CASE count = 0
    BY <1>3, <2>1, NoneIs
  <2>2. CASE count # 0
    <3>1. path' = <<root>>
      BY <1>3, <1>5, <2>2
    <3> QED
      BY <1>8, <2>2, <3>1, SingleIs
  <2> QED
    BY <2>1, <2>2
<1>12. StepInv'
  BY <1>3, <1>5, <1>7, <1>10, <1>11 DEF StepInv
<1>13. HeapInv'
  <2>1. CASE count = 0
    BY <1>3, <1>8, <2>1 DEF HeapInv
  <2>2. CASE count # 0
    <3>1. Good(nodes, given', 1..count, {root}, {}, {})
      BY <1>5, <1>6, <1>8, <2>2, SameItems
    <3>2. Placed' = 1..count /\ Tops' = {root} /\ Big' = {} /\ Stale' = {}
      BY <1>3, <1>10, <1>11, <2>2 DEF Placed, Tops, Big, Stale
    <3>3. Good(nodes', given', Placed', Tops', Big', Stale')
      BY <1>3, <3>1, <3>2
    <3> QED
      BY <1>3, <2>2, <3>3 DEF HeapInv
  <2> QED
    BY <2>1, <2>2
<1> QED
  BY <1>9, <1>12, <1>13 DEF IInv

\* While the tree is taken apart.
LEMMA WhenCollected ==
  ASSUME IInv, at = "collect"
  PROVE  /\ count \in Nat /\ Len(given) \in Nat /\ count < Len(given)
         /\ path \in Seq(DOMAIN nodes) /\ IsInjective(path) /\ (count = 0 => path = <<>>)
         /\ row \in Seq(1..count) /\ IsInjective(row) /\ ToSet(row) \subseteq 1..count
         /\ count # 0 => Good(nodes, given, (1..count) \ ToSet(row), ToSet(path), {}, {})
         /\ \A y \in (1..count) \ ToSet(row) : given[y] \in Envelope
<1>1. Numbers /\ HeapInv /\ StepInv
  BY DEF IInv
<1>2. /\ count < Len(given) /\ path \in Seq(DOMAIN nodes) /\ IsInjective(path) /\ (count = 0 => path = <<>>)
      /\ row \in Seq(1..count) /\ IsInjective(row)
  BY <1>1 DEF StepInv
<1>3. count \in Nat /\ Len(given) \in Nat /\ \A y \in 1..count : given[y] \in Envelope
  BY <1>1, HasEnvelopes
<1>4. ToSet(row) \subseteq 1..count
  BY <1>2, MembersAre
<1>5. count # 0 => Good(nodes, given, (1..count) \ ToSet(row), ToSet(path), {}, {})
  BY <1>1 DEF HeapInv, Placed, Tops, Big, Stale
<1> QED
  BY <1>2, <1>3, <1>4, <1>5

\* A step of collectItems keeps the invariant.
LEMMA CollectNodeIs ==
  ASSUME IInv, CollectNode
  PROVE  IInv'
<1> DEFINE n == Head(path)
           e == nodes[n].entries
           g == nodes'
           items == (1..count) \ ToSet(row)
           tops == ToSet(path)
           none == {}
<1>1. /\ at = "collect" /\ path # <<>> /\ g = Without(nodes, n)
      /\ nodes[n].leaf => row' = row \o e /\ path' = Tail(path)
      /\ ~nodes[n].leaf => path' = e \o Tail(path) /\ row' = row
      /\ root' = root /\ count' = count /\ given' = given /\ at' = at /\ made' = made
  BY DEF CollectNode
<1>2. /\ count \in Nat \ {0} /\ Len(given) \in Nat /\ count < Len(given)
      /\ path \in Seq(DOMAIN nodes) /\ IsInjective(path)
      /\ row \in Seq(1..count) /\ IsInjective(row) /\ ToSet(row) \subseteq 1..count
      /\ Good(nodes, given, items, tops, none, none)
      /\ \A y \in items : given[y] \in Envelope
  BY <1>1, WhenCollected
<1>3. /\ Tail(path) \in Seq(DOMAIN nodes) /\ IsInjective(Tail(path)) /\ n \in DOMAIN nodes /\ n \in tops
      /\ ToSet(Tail(path)) = tops \ {n}
  BY <1>1, <1>2, TailIs
<1>4. none = {}
  OBVIOUS
<1>5. DOMAIN g = DOMAIN nodes \ {n} /\ \A m \in DOMAIN g : g[m] = nodes[m]
  BY <1>1, WithoutIs
<1> HIDE DEF n, e, g, items, tops, none
<1>6. /\ Held(nodes, TRUE) = items /\ Held(nodes, FALSE) = DOMAIN nodes \ tops /\ tops \subseteq DOMAIN nodes
      /\ NodeFacts(nodes, given, tops, none, none, n)
  BY <1>2, <1>3, GoodIs
<1>7. /\ e \in Seq(Nat) /\ IsInjective(e) /\ nodes[n].leaf \in BOOLEAN
      /\ ~nodes[n].leaf => \A y \in ToSet(e) : y \in DOMAIN nodes /\ y \notin tops /\ y # n
  BY <1>6 DEF NodeFacts, e
<1>8. nodes[n].leaf => \A y \in ToSet(e) : y \in items
  BY <1>3, <1>6, HeldIs DEF e
<1>9. /\ path' \in Seq(DOMAIN g) /\ IsInjective(path') /\ row' \in Seq(1..count) /\ IsInjective(row')
      /\ nodes[n].leaf => (1..count) \ ToSet(row') = items \ ToSet(nodes[n].entries) /\ ToSet(path') = tops \ {n}
      /\ ~nodes[n].leaf => (1..count) \ ToSet(row') = items /\ ToSet(path') = (tops \ {n}) \cup ToSet(nodes[n].entries)
  <2>1. CASE nodes[n].leaf
    <3>1. e \in Seq(1..count)
      BY <1>7, <1>8, <2>1, SeqInto DEF items
    <3>2. \A y \in ToSet(e) : y \notin ToSet(row)
      BY <1>8, <2>1 DEF items
    <3>3. row' \in Seq(1..count) /\ IsInjective(row') /\ ToSet(row') = ToSet(row) \cup ToSet(e)
      <4> DEFINE X == 1..count
      <4>1. row \in Seq(X) /\ e \in Seq(X) /\ IsInjective(row) /\ IsInjective(e)
        BY <1>2, <1>7, <3>1
      <4> HIDE DEF X
      <4>2. row \o e \in Seq(X) /\ IsInjective(row \o e) /\ ToSet(row \o e) = ToSet(row) \cup ToSet(e)
        BY <3>2, <4>1, JoinIs
      <4> QED
        BY <1>1, <2>1, <4>2 DEF X
    <3>4. path' = Tail(path)
      BY <1>1, <2>1
    <3>5. path' \in Seq(DOMAIN g)
      BY <1>3, <1>5, <3>4, SeqInto, MembersAre
    <3>6. (1..count) \ ToSet(row') = items \ ToSet(nodes[n].entries)
      BY <3>3 DEF items, e
    <3> QED
      BY <1>3, <2>1, <3>3, <3>4, <3>5, <3>6
  <2>2. CASE ~nodes[n].leaf
    <3>1. e \in Seq(DOMAIN nodes)
      BY <1>7, <2>2, SeqInto
    <3>2. \A y \in ToSet(Tail(path)) : y \notin ToSet(e)
      BY <1>3, <1>7, <2>2
    <3>3. path' \in Seq(DOMAIN nodes) /\ IsInjective(path') /\ ToSet(path') = ToSet(e) \cup (tops \ {n})
      <4> DEFINE X == DOMAIN nodes
                 t == Tail(path)
      <4>1. t \in Seq(X) /\ e \in Seq(X) /\ IsInjective(t) /\ IsInjective(e) /\ \A y \in ToSet(t) : y \notin ToSet(e)
        BY <1>3, <1>7, <3>1, <3>2
      <4>2. ToSet(t) = tops \ {n} /\ path' = e \o t
        BY <1>1, <1>3, <2>2
      <4> HIDE DEF X, t
      <4>3. e \o t \in Seq(X) /\ IsInjective(e \o t) /\ ToSet(e \o t) = ToSet(e) \cup ToSet(t)
        BY <4>1, JoinIs
      <4> QED
        BY <4>2, <4>3 DEF X
    <3>4. \A y \in ToSet(path') : y \in DOMAIN nodes \ {n}
      BY <1>6, <1>7, <2>2, <3>3
    <3>5. path' \in Seq(DOMAIN g)
      BY <1>5, <3>3, <3>4, SeqInto
    <3>6. row' = row
      BY <1>1, <2>2
    <3> QED
      BY <1>2, <2>2, <3>3, <3>5, <3>6 DEF items, e
  <2> QED
    BY <2>1, <2>2
<1> DEFINE rest == (1..count) \ ToSet(row')
           left == ToSet(path')
<1>10. /\ nodes[n].leaf => rest = items \ ToSet(nodes[n].entries) /\ left = tops \ {n}
       /\ ~nodes[n].leaf => rest = items /\ left = (tops \ {n}) \cup ToSet(nodes[n].entries)
  BY <1>9
<1> HIDE DEF rest, left
<1>11. Good(g, given, rest, left, {}, {})
  BY <1>2, <1>3, <1>4, <1>5, <1>10, TopIsGone
<1>12. HeapInv'
  <2>1. Placed' = rest /\ Tops' = left /\ Big' = {} /\ Stale' = {}
    BY <1>1 DEF Placed, Tops, Big, Stale, rest, left
  <2>2. Good(nodes', given', Placed', Tops', Big', Stale')
    BY <1>1, <1>11, <2>1 DEF g
  <2> QED
    BY <1>1, <1>2, <2>2 DEF HeapInv
<1>13. StepInv'
  BY <1>1, <1>2, <1>9 DEF StepInv, g
<1>14. Numbers'
  BY <1>1, <1>5 DEF IInv, Numbers, g
<1> QED
  BY <1>12, <1>13, <1>14 DEF IInv

\* When nothing is left to visit all items have been collected, and the batch
\* follows them.
LEMMA AppendBatchIs ==
  ASSUME IInv, AppendBatch
  PROVE  IInv'
<1> DEFINE len == Len(given)
           new == [i \in 1..(len - count) |-> count + i]
<1>1. /\ at = "collect" /\ path = <<>> /\ row' = row \o new
      /\ at' = "leaves" /\ nodes' = NoNodes
      /\ root' = root /\ count' = count /\ given' = given /\ path' = path /\ made' = made
  BY DEF AppendBatch
<1>2. /\ count \in Nat /\ len \in Nat /\ count < len
      /\ row \in Seq(1..count) /\ IsInjective(row) /\ ToSet(row) \subseteq 1..count
      /\ count # 0 => Good(nodes, given, (1..count) \ ToSet(row), ToSet(path), {}, {})
  BY <1>1, WhenCollected
<1>3. ToSet(row) = 1..count
  <2>1. CASE count = 0
    BY <1>2, <2>1
  <2>2. CASE count # 0
    <3> DEFINE items == (1..count) \ ToSet(row)
    <3>1. ToSet(path) = {}
      BY <1>1, NoneIs
    <3>2. Good(nodes, given, items, {}, {}, {})
      BY <1>2, <2>2, <3>1
    <3>3. IsFiniteSet(DOMAIN nodes)
      <4>1. DOMAIN nodes \subseteq 1..made /\ made \in Nat
        BY DEF IInv, Numbers
      <4>2. IsFiniteSet(1..made)
        BY <4>1, FS_Interval
      <4> QED
        BY <4>1, <4>2, FS_Subset
    <3> HIDE DEF items
    <3>4. items = {}
      BY <3>2, <3>3, NothingLeft
    <3> QED
      BY <1>2, <3>4 DEF items
  <2> QED
    BY <2>1, <2>2
<1> HIDE DEF len
<1> DEFINE more == len - count
<1>4. more \in Nat \ {0} /\ count + more = len
  BY <1>2
<1> HIDE DEF more
<1>5. new = [i \in 1..more |-> count + i]
  BY DEF more
<1> HIDE DEF new
<1>6. DOMAIN new = 1..more /\ \A i \in 1..more : new[i] = count + i
  BY <1>5
<1>7. new \in Seq(1..len)
  <2>1. \A i \in 1..more : count + i \in 1..len
    BY <1>2, <1>4
  <2> QED
    BY <1>4, <1>5, <2>1
<1>8. IsInjective(new)
  <2> SUFFICES ASSUME NEW i \in DOMAIN new, NEW j \in DOMAIN new, new[i] = new[j] PROVE i = j
    BY DEF IsInjective
  <2> QED
    BY <1>2, <1>4, <1>6
<1>9. \A y : y \in ToSet(new) <=> y \in (count + 1)..len
  <2>1. ASSUME NEW y \in ToSet(new) PROVE y \in (count + 1)..len
    <3>1. PICK i \in 1..more : y = new[i]
      BY <1>6 DEF ToSet
    <3> QED
      BY <1>2, <1>4, <1>6, <3>1
  <2>2. ASSUME NEW y \in (count + 1)..len PROVE y \in ToSet(new)
    <3>1. y - count \in 1..more /\ count + (y - count) = y
      BY <1>2, <1>4
    <3>2. new[y - count] = y
      BY <1>6, <3>1
    <3> QED
      BY <1>6, <3>1, <3>2 DEF ToSet
  <2> QED
    BY <2>1, <2>2
<1>10. row \in Seq(1..len)
  <2>1. \A y \in ToSet(row) : y \in 1..len
    BY <1>2
  <2> QED
    BY <1>2, <2>1, SeqInto
<1>11. \A y \in ToSet(new) : y \notin ToSet(row)
  BY <1>2, <1>3, <1>9
<1>12. /\ row' \in Seq(1..len) /\ IsInjective(row') /\ ToSet(row') = ToSet(row) \cup ToSet(new)
       /\ Len(row') = Len(row) + Len(new)
  BY <1>1, <1>2, <1>7, <1>8, <1>10, <1>11, JoinIs
<1>13. ToSet(row') = 1..len
  BY <1>2, <1>3, <1>9, <1>12
<1>14. row' # <<>>
  <2>1. 1 \in ToSet(row')
    BY <1>2, <1>13
  <2> QED
    BY <2>1, NoneIs
<1>15. StepInv'
  BY <1>1, <1>12, <1>13, <1>14 DEF StepInv, len
<1>16. Numbers'
  <2>1. DOMAIN NoNodes = {}
    BY DEF NoNodes
  <2> QED
    BY <1>1, <2>1 DEF IInv, Numbers
<1>17. HeapInv'
  BY <1>1 DEF HeapInv
<1> QED
  BY <1>15, <1>16, <1>17 DEF IInv

\* After a level is packed.
LEMMA PackedIs ==
  ASSUME Numbers', NEW new, NEW height, NEW none, none = {},
         Good(nodes', given', 1..count', new, none, none),
         count' = Len(given'), count' \in Nat \ {0}, path' = <<>>,
         new \subseteq DOMAIN nodes', \A m \in new : nodes'[m].height = height,
         \/ at' = "idle" /\ row' = <<>> /\ new = {root'}
         \/ at' = "pack" /\ row' \in Seq(new) /\ row' # <<>> /\ IsInjective(row') /\ ToSet(row') = new
  PROVE  IInv'
<1>1. CASE at' = "idle" /\ row' = <<>> /\ new = {root'}
  <2>1. HeapInv'
    <3>1. Placed' = 1..count' /\ Tops' = new /\ Big' = none /\ Stale' = none
      BY <1>1 DEF Placed, Tops, Big, Stale
    <3>2. Good(nodes', given', Placed', Tops', Big', Stale')
      BY <3>1
    <3> QED
      BY <1>1, <3>2 DEF HeapInv
  <2>2. StepInv'
    BY <1>1 DEF StepInv
  <2> QED
    BY <2>1, <2>2 DEF IInv
<1>2. CASE at' = "pack" /\ row' \in Seq(new) /\ row' # <<>> /\ IsInjective(row') /\ ToSet(row') = new
  <2>1. HeapInv'
    <3>1. Placed' = 1..count' /\ Tops' = new /\ Big' = none /\ Stale' = none
      BY <1>2 DEF Placed, Tops, Big, Stale
    <3>2. Good(nodes', given', Placed', Tops', Big', Stale')
      BY <3>1
    <3> QED
      BY <1>2, <3>2 DEF HeapInv
  <2>2. row' \in Seq(DOMAIN nodes')
    BY <1>2, SeqInto
  <2>3. \A i \in DOMAIN row' : row'[i] \in new
    BY <1>2
  <2>4. 1 \in DOMAIN row'
    BY <1>2
  <2>5. \A i \in DOMAIN row' : nodes'[row'[i]].height = nodes'[row'[1]].height
    BY <2>3, <2>4
  <2>6. StepInv'
    BY <1>2, <2>2, <2>5 DEF StepInv
  <2> QED
    BY <2>1, <2>6 DEF IInv
<1> QED
  BY <1>1, <1>2

\* strPackLeaves makes a level of leaves where nothing is left.
LEMMA LeavesAreLaid ==
  ASSUME IInv, PackLeaves, NEW new, new = {made + a : a \in Starts(Len(row))}
  PROVE  /\ nodes = NoNodes /\ Level(nodes', nodes, given, new, 0, 1..Len(given))
         /\ made' \in Nat /\ DOMAIN nodes' \subseteq 1..made' /\ new \subseteq Nat
         /\ \/ at' = "idle" /\ root' = made + 1 /\ row' = <<>> /\ new = {root'}
            \/ /\ at' = "pack" /\ root' = root
               /\ row' \in Seq(new) /\ row' # <<>> /\ IsInjective(row') /\ ToSet(row') = new
<1> DEFINE height == 0
           len == Len(given)
           items == 1..len
<1>1. at = "leaves" /\ Pack(height) /\ count' = Len(row) /\ given' = given /\ path' = path
  BY DEF PackLeaves
<1>2. Numbers /\ HeapInv /\ StepInv
  BY DEF IInv
<1>3. /\ nodes = NoNodes /\ path = <<>>
      /\ row \in Seq(items) /\ IsInjective(row) /\ ToSet(row) = items /\ row # <<>>
  BY <1>1, <1>2 DEF HeapInv, StepInv
<1>4. len \in Nat /\ \A y \in items : given[y] \in Envelope
  BY <1>2, HasEnvelopes
<1> HIDE DEF len
<1>5. height \in Nat /\ (height = 0) = TRUE /\ EnvsFor(height = 0) = given
  BY DEF EnvsFor
<1>6. row \in Seq(Nat)
  <2>1. \A y \in ToSet(row) : y \in Nat
    BY <1>3, <1>4
  <2> QED
    BY <1>3, <2>1, SeqInto
<1>7. made \in Nat /\ DOMAIN nodes \subseteq 1..made
  BY <1>2 DEF Numbers
<1>8. \A x \in ToSet(row) : EnvsFor(height = 0)[x] \in Envelope
  BY <1>3, <1>4, <1>5
<1> HIDE DEF height
<1>9. /\ Level(nodes', nodes, given, new, height, ToSet(row))
      /\ made' \in Nat /\ DOMAIN nodes' \subseteq 1..made' /\ new \subseteq Nat
      /\ \/ at' = "idle" /\ root' = made + 1 /\ row' = <<>> /\ new = {root'}
         \/ /\ at' = "pack" /\ root' = root
            /\ row' \in Seq(new) /\ row' # <<>> /\ IsInjective(row') /\ ToSet(row') = new
  BY <1>1, <1>3, <1>5, <1>6, <1>7, <1>8, PackIs
<1>10. Level(nodes', nodes, given, new, 0, items)
  BY <1>3, <1>9 DEF height
<1> QED
  BY <1>3, <1>9, <1>10 DEF len

\* strPackLeaves keeps the invariant.
LEMMA PackLeavesIs ==
  ASSUME IInv, PackLeaves
  PROVE  IInv'
<1> DEFINE height == 0
           new == {made + a : a \in Starts(Len(row))}
           len == Len(given)
           items == 1..len
           none == {}
<1>1. at = "leaves" /\ Pack(height) /\ count' = Len(row) /\ given' = given /\ path' = path
  BY DEF PackLeaves
<1>2. Numbers /\ HeapInv /\ StepInv
  BY DEF IInv
<1>3. /\ nodes = NoNodes /\ path = <<>>
      /\ row \in Seq(items) /\ IsInjective(row) /\ ToSet(row) = items /\ row # <<>>
  BY <1>1, <1>2 DEF HeapInv, StepInv
<1>4. len \in Nat /\ \A y \in items : given[y] \in Envelope
  BY <1>2, HasEnvelopes
<1> HIDE DEF len
<1>5. Len(row) = len
  BY <1>3, <1>4, AsLong
<1>6. len \in Nat \ {0} /\ count' = len
  <2>1. Len(row) # 0
    BY <1>3
  <2> QED
    BY <1>1, <1>4, <1>5, <2>1
<1>7. made \in Nat /\ DOMAIN nodes \subseteq 1..made
  BY <1>2 DEF Numbers
<1> HIDE DEF height, new
<1>8. new = {made + a : a \in Starts(Len(row))}
  BY DEF new
<1>9. /\ Level(nodes', nodes, given, new, 0, items)
       /\ made' \in Nat /\ DOMAIN nodes' \subseteq 1..made' /\ new \subseteq Nat
       /\ \/ at' = "idle" /\ root' = made + 1 /\ row' = <<>> /\ new = {root'}
          \/ /\ at' = "pack" /\ root' = root
             /\ row' \in Seq(new) /\ row' # <<>> /\ IsInjective(row') /\ ToSet(row') = new
  BY <1>8, LeavesAreLaid DEF len
<1>10. DOMAIN nodes = {}
  BY <1>3 DEF NoNodes
<1> HIDE DEF items
<1>11. Good(nodes', given, items, new, {}, {})
  BY <1>4, <1>9, <1>10, LeavesAreGood
<1>12. new \subseteq DOMAIN nodes' /\ \A m \in new : nodes'[m].height = height
  BY <1>9 DEF Level, height
<1>13. root' \in Nat
  <2>1. root \in Nat
    BY <1>2 DEF Numbers
  <2> QED
    BY <1>7, <1>9, <2>1
<1>14. Numbers'
  <2>1. len \in 0..len
    BY <1>4
  <2> QED
    BY <1>1, <1>2, <1>6, <1>9, <1>13, <2>1 DEF Numbers, len
<1>15. Good(nodes', given', 1..count', new, none, none) /\ none = {}
  BY <1>1, <1>6, <1>11 DEF items
<1>16. count' = Len(given') /\ count' \in Nat \ {0} /\ path' = <<>>
  BY <1>1, <1>3, <1>6 DEF len
<1> HIDE DEF none
<1> QED
  BY <1>9, <1>12, <1>14, <1>15, <1>16, PackedIs

\* strPackInternal makes a level of nodes over the last one.
LEMMA InnerAreLaid ==
  ASSUME IInv, PackInternal, NEW new, new = {made + a : a \in Starts(Len(row))},
         NEW height, height = nodes[row[1]].height + 1
  PROVE  /\ height \in Nat \ {0} /\ ToSet(row) \subseteq DOMAIN nodes
         /\ Level(nodes', nodes, given, new, height, ToSet(row))
         /\ made' \in Nat /\ DOMAIN nodes' \subseteq 1..made' /\ new \subseteq Nat
         /\ \/ at' = "idle" /\ root' = made + 1 /\ row' = <<>> /\ new = {root'}
            \/ /\ at' = "pack" /\ root' = root
               /\ row' \in Seq(new) /\ row' # <<>> /\ IsInjective(row') /\ ToSet(row') = new
<1> DEFINE items == 1..count
           tops == ToSet(row)
           none == {}
<1>1. at = "pack" /\ Pack(height) /\ count' = count /\ given' = given /\ path' = path
  BY DEF PackInternal
<1>2. Numbers /\ HeapInv /\ StepInv
  BY DEF IInv
<1>3. /\ count = Len(given) /\ count > 0 /\ path = <<>>
      /\ row \in Seq(DOMAIN nodes) /\ IsInjective(row) /\ row # <<>>
      /\ \A i \in DOMAIN row : nodes[row[i]].height = nodes[row[1]].height
  BY <1>1, <1>2 DEF StepInv
<1>4. Good(nodes, given, items, tops, none, none)
  BY <1>1, <1>2, <1>3 DEF HeapInv, Placed, Tops, Big, Stale
<1>5. count \in Nat \ {0} /\ \A y \in items : given[y] \in Envelope
  BY <1>2, <1>3, HasEnvelopes
<1>6. \A m \in DOMAIN nodes : nodes[m].height \in Nat /\ nodes[m].env \in Envelope
  BY <1>4 DEF Good, Shaped, NodeShape
<1>7. height \in Nat /\ height # 0
  <2>1. row[1] \in DOMAIN nodes
    BY <1>3
  <2>2. nodes[row[1]].height \in Nat
    BY <1>6, <2>1
  <2> QED
    BY <2>2
<1>8. made \in Nat /\ DOMAIN nodes \subseteq 1..made
  BY <1>2 DEF Numbers
<1>9. \A m \in tops : m \in DOMAIN nodes /\ m \in Nat
  <2>1. \A m \in tops : m \in DOMAIN nodes
    BY <1>3, MembersAre
  <2> QED
    BY <1>8, <2>1
<1>10. row \in Seq(Nat)
  BY <1>3, <1>9, SeqInto
<1>11. EnvsFor(height = 0) = EnvsIn(nodes)
  BY <1>7 DEF EnvsFor
<1>12. \A x \in ToSet(row) : EnvsFor(height = 0)[x] \in Envelope
  BY <1>6, <1>9, <1>11 DEF EnvsIn
<1>13. tops \subseteq DOMAIN nodes
  BY <1>9
<1>14. /\ Level(nodes', nodes, given, new, height, ToSet(row))
       /\ made' \in Nat /\ DOMAIN nodes' \subseteq 1..made' /\ new \subseteq Nat
       /\ \/ at' = "idle" /\ root' = made + 1 /\ row' = <<>> /\ new = {root'}
          \/ /\ at' = "pack" /\ root' = root
             /\ row' \in Seq(new) /\ row' # <<>> /\ IsInjective(row') /\ ToSet(row') = new
  BY <1>1, <1>3, <1>7, <1>8, <1>10, <1>12, PackIs
<1> QED
  BY <1>7, <1>13, <1>14

\* A level of strPackInternal keeps the invariant.
LEMMA PackInternalIs ==
  ASSUME IInv, PackInternal
  PROVE  IInv'
<1> DEFINE height == nodes[row[1]].height + 1
           new == {made + a : a \in Starts(Len(row))}
           items == 1..count
           tops == ToSet(row)
           none == {}
<1>1. at = "pack" /\ Pack(height) /\ count' = count /\ given' = given /\ path' = path
  BY DEF PackInternal
<1>2. Numbers /\ HeapInv /\ StepInv
  BY DEF IInv
<1>3. /\ count = Len(given) /\ count > 0 /\ path = <<>>
      /\ row \in Seq(DOMAIN nodes) /\ IsInjective(row) /\ row # <<>>
      /\ \A i \in DOMAIN row : nodes[row[i]].height = nodes[row[1]].height
  BY <1>1, <1>2 DEF StepInv
<1>4. Good(nodes, given, items, tops, none, none)
  BY <1>1, <1>2, <1>3 DEF HeapInv, Placed, Tops, Big, Stale
<1>5. count \in Nat \ {0} /\ \A y \in items : given[y] \in Envelope
  BY <1>2, <1>3, HasEnvelopes
<1>6. \A m \in DOMAIN nodes : nodes[m].height \in Nat /\ nodes[m].env \in Envelope
  BY <1>4 DEF Good, Shaped, NodeShape
<1>7. height \in Nat /\ height # 0
  <2>1. row[1] \in DOMAIN nodes
    BY <1>3
  <2>2. nodes[row[1]].height \in Nat
    BY <1>6, <2>1
  <2> QED
    BY <2>2
<1>8. \A m \in tops : nodes[m].height + 1 = height
  BY <1>3 DEF ToSet
<1>9. made \in Nat /\ DOMAIN nodes \subseteq 1..made
  BY <1>2 DEF Numbers
<1>10. new = {made + a : a \in Starts(Len(row))} /\ none = {} /\ tops = ToSet(row)
  OBVIOUS
<1>11. height = nodes[row[1]].height + 1
  OBVIOUS
<1> HIDE DEF height, new, items, tops, none
<1>12. /\ Level(nodes', nodes, given, new, height, ToSet(row))
       /\ made' \in Nat /\ DOMAIN nodes' \subseteq 1..made' /\ new \subseteq Nat
       /\ \/ at' = "idle" /\ root' = made + 1 /\ row' = <<>> /\ new = {root'}
          \/ /\ at' = "pack" /\ root' = root
             /\ row' \in Seq(new) /\ row' # <<>> /\ IsInjective(row') /\ ToSet(row') = new
  BY <1>10, <1>11, InnerAreLaid
<1>13. Level(nodes', nodes, given, new, height, tops)
  BY <1>10, <1>12
<1>14. Good(nodes', given, items, new, {}, {})
  BY <1>4, <1>5, <1>7, <1>8, <1>10, <1>13, LevelIsGood
<1>15. new \subseteq DOMAIN nodes' /\ \A m \in new : nodes'[m].height = height
  BY <1>13 DEF Level
<1>16. root' \in Nat
  <2>1. root \in Nat
    BY <1>2 DEF Numbers
  <2> QED
    BY <1>9, <1>12, <2>1
<1>17. Numbers'
  BY <1>1, <1>2, <1>12, <1>16 DEF Numbers
<1>18. Good(nodes', given', 1..count', new, none, none)
  BY <1>1, <1>10, <1>14 DEF items
<1>19. count' = Len(given') /\ count' \in Nat \ {0} /\ path' = <<>>
  BY <1>1, <1>3, <1>5
<1> QED
  BY <1>10, <1>12, <1>15, <1>17, <1>18, <1>19, PackedIs

-----------------------------------------------------------------------------
(***************************************************************************)
(* Theorems.                                                               *)
(***************************************************************************)

\* A search changes nothing in the tree.
LEMMA SearchingIs ==
  ASSUME IInv, Search \/ SearchNode \/ SearchStops \/ SearchReturns
  PROVE  IInv'
<1> USE DEF IInv
<1>1. /\ nodes' = nodes /\ root' = root /\ count' = count /\ given' = given /\ made' = made
      /\ at \in {"idle", "search", "stopped"} /\ at' \in {"idle", "search", "stopped"}
  BY DEF Search, SearchNode, SearchStops, SearchReturns
<1>2. /\ at' = "stopped" => path' = <<>>
      /\ at' = "idle" => path' = <<>> /\ row' = <<>>
  BY DEF Search, SearchNode, SearchStops, SearchReturns
<1>3. Numbers'
  BY <1>1 DEF Numbers
<1>4. HeapInv'
  BY <1>1 DEF HeapInv, Placed, Tops, Big, Stale
<1>5. StepInv'
  BY <1>1, <1>2 DEF StepInv
<1> QED
  BY <1>3, <1>4, <1>5

\* Every step keeps the invariant.
LEMMA NextIs ==
  ASSUME IInv, [Next]_vars
  PROVE  IInv'
<1>1. CASE UNCHANGED vars
  BY <1>1 DEF vars, IInv, Numbers, HeapInv, StepInv, Placed, Tops, Big, Stale
<1>2. CASE Insert
  BY <1>2, InsertIs
<1>3. CASE BulkSmall
  BY <1>3, BulkSmallIs
<1>4. CASE ChooseChild
  BY <1>4, ChooseChildIs
<1>5. CASE AddItem
  BY <1>5, AddItemIs
<1>6. CASE SplitRoot
  BY <1>6, SplitRootIs
<1>7. CASE SplitInner
  BY <1>7, SplitInnerIs
<1>8. CASE BulkRebuild
  BY <1>8, BulkRebuildIs
<1>9. CASE CollectNode
  BY <1>9, CollectNodeIs
<1>10. CASE AppendBatch
  BY <1>10, AppendBatchIs
<1>11. CASE PackLeaves
  BY <1>11, PackLeavesIs
<1>12. CASE PackInternal
  BY <1>12, PackInternalIs
<1>13. CASE Search \/ SearchNode \/ SearchStops \/ SearchReturns
  BY <1>13, SearchingIs
<1> QED
  BY <1>1, <1>2, <1>3, <1>4, <1>5, <1>6, <1>7, <1>8, <1>9, <1>10, <1>11, <1>12, <1>13 DEF Next

\* The invariant holds of every execution.
LEMMA Inductive == Spec => []IInv
<1>1. Init => IInv
  BY InitIs
<1>2. IInv /\ [Next]_vars => IInv'
  BY NextIs
<1> QED
  BY <1>1, <1>2, PTL DEF Spec

\* There is a query while a search runs.
QueryInv == query \in (IF at \in {"search", "stopped"} THEN Queries ELSE {Empty})

LEMMA QueryIs == Spec => []QueryInv
<1>1. Init => QueryInv
  BY DEF Init, QueryInv
<1>2. ASSUME QueryInv, [Next]_vars PROVE QueryInv'
  <2> USE DEF QueryInv
  <2>1. CASE UNCHANGED vars
    BY <1>2, <2>1 DEF vars
  <2>2. CASE Insert
    BY <1>2, <2>2 DEF Insert
  <2>3. CASE BulkSmall
    BY <1>2, <2>3 DEF BulkSmall
  <2>4. CASE ChooseChild
    BY <1>2, <2>4 DEF ChooseChild
  <2>5. CASE AddItem
    <3>1. query' = query /\ at = "choose" /\ at' \in {"split", "choose", "idle"}
      BY <2>5, Zenon DEF AddItem, ItemDone
    <3> QED
      BY <1>2, <3>1
  <2>6. CASE SplitRoot
    <3>1. query' = query /\ at = "split" /\ at' \in {"choose", "idle"}
      BY <2>6, Zenon DEF SplitRoot, ItemDone
    <3> QED
      BY <1>2, <3>1
  <2>7. CASE SplitInner
    <3>1. query' = query /\ at = "split" /\ at' \in {"split", "choose", "idle"}
      BY <2>7, Zenon DEF SplitInner, ItemDone
    <3> QED
      BY <1>2, <3>1
  <2>8. CASE BulkRebuild
    BY <1>2, <2>8 DEF BulkRebuild
  <2>9. CASE CollectNode
    BY <1>2, <2>9 DEF CollectNode
  <2>10. CASE AppendBatch
    BY <1>2, <2>10 DEF AppendBatch
  <2>11. CASE PackLeaves \/ PackInternal
    <3>1. query' = query /\ at \in {"leaves", "pack"} /\ at' \in {"idle", "pack"}
      BY <2>11, Zenon DEF PackLeaves, PackInternal, Pack
    <3> QED
      BY <1>2, <3>1
  <2>12. CASE Search
    BY <1>2, <2>12 DEF Search
  <2>13. CASE SearchNode
    BY <1>2, <2>13 DEF SearchNode
  <2>14. CASE SearchStops
    BY <1>2, <2>14 DEF SearchStops
  <2>15. CASE SearchReturns
    BY <1>2, <2>15 DEF SearchReturns
  <2> QED
    BY <1>2, <2>1, <2>2, <2>3, <2>4, <2>5, <2>6, <2>7, <2>8, <2>9, <2>10, <2>11, <2>12, <2>13, <2>14, <2>15 DEF Next
<1> QED
  BY <1>1, <1>2, PTL DEF Spec

\* The empty tree holds nothing.
LEMMA BlankTree ==
  ASSUME nodes = [n \in {root} |-> Blank]
  PROVE  /\ DOMAIN nodes = {root} /\ nodes[root] = Blank
         /\ Held(nodes, TRUE) = {} /\ Held(nodes, FALSE) = {} /\ Once(nodes)
<1>1. DOMAIN nodes = {root} /\ nodes[root] = Blank
  OBVIOUS
<1>2. nodes[root].leaf = TRUE /\ nodes[root].entries = <<>>
  BY <1>1 DEF Blank
<1>3. ToSet(nodes[root].entries) = {} /\ IsInjective(nodes[root].entries)
  <2> DEFINE s == nodes[root].entries
             X == Nat
  <2>1. s = <<>>
    BY <1>2
  <2> HIDE DEF s, X
  <2>2. ToSet(s) = {} /\ IsInjective(s)
    BY <2>1, NoneIs
  <2> QED
    BY <2>2 DEF s
<1>4. Held(nodes, TRUE) = {} /\ Held(nodes, FALSE) = {}
  BY <1>1, <1>2, <1>3 DEF Held
<1>5. Once(nodes)
  BY <1>1, <1>3 DEF Once
<1> QED
  BY <1>1, <1>4, <1>5

\* The invariant implies type correctness,
LEMMA TypeHolds ==
  ASSUME IInv, QueryInv
  PROVE  TypeOK
<1>1. Numbers /\ HeapInv /\ StepInv
  BY DEF IInv
<1>2. /\ given \in Seq(Box) /\ Len(given) <= MaxItems
      /\ count \in 0..Len(given) /\ (at = "idle" => count = Len(given))
      /\ at \in {"idle", "choose", "split", "collect", "leaves", "pack", "search", "stopped"}
      /\ query \in (IF at \in {"search", "stopped"} THEN Queries ELSE {Empty})
      /\ DOMAIN nodes \subseteq 1..made
  BY <1>1 DEF Numbers, StepInv, QueryInv
<1>3. ASSUME at \in {"idle", "choose", "split", "search", "stopped"} PROVE root \in DOMAIN nodes
  <2>1. CASE at = "split"
    BY <2>1, WhenSplit
  <2>2. CASE at \in {"idle", "choose", "search", "stopped"}
    BY <1>1, <2>2, WholeTree
  <2> QED
    BY <1>3, <2>1, <2>2
<1>4. ASSUME NEW n \in DOMAIN nodes
      PROVE  /\ DOMAIN nodes[n] = {"leaf", "height", "env", "entries"}
             /\ nodes[n].height \in Nat /\ nodes[n].leaf = (nodes[n].height = 0)
             /\ nodes[n].env \in Envelope \/ (nodes[n].env = Empty /\ count = 0)
  <2>1. CASE at = "leaves"
    <3>1. DOMAIN nodes = {}
      BY <1>1, <2>1 DEF HeapInv, NoNodes
    <3> QED
      BY <1>4, <3>1
  <2>2. CASE at # "leaves" /\ count = 0
    <3>1. nodes = [m \in {root} |-> Blank]
      BY <1>1, <2>2 DEF HeapInv
    <3>2. nodes[n] = Blank
      BY <1>4, <3>1
    <3>3. DOMAIN Blank = {"leaf", "height", "env", "entries"}
      BY DEF Blank
    <3>4. Blank.height = 0 /\ Blank.leaf = TRUE /\ Blank.env = Empty
      BY DEF Blank
    <3>5. Blank.height \in Nat
      BY <3>4
    <3>6. Blank.leaf = (Blank.height = 0)
      BY <3>4, Zenon
    <3> QED
      BY <2>2, <3>2, <3>3, <3>4, <3>5, <3>6
  <2>3. CASE at # "leaves" /\ count # 0
    <3>1. Shaped(nodes)
      BY <1>1, <2>3 DEF HeapInv, Good
    <3>2. nodes[n] \in NodeShape /\ nodes[n].leaf = (nodes[n].height = 0)
      BY <1>4, <3>1 DEF Shaped
    <3> QED
      BY <3>2 DEF NodeShape
  <2> QED
    BY <2>1, <2>2, <2>3
<1> QED
  BY <1>2, <1>3, <1>4 DEF TypeOK

\* and that the tree is kept.
LEMMA TreeHolds ==
  ASSUME IInv
  PROVE  TreeKept
<1> SUFFICES ASSUME at = "idle" PROVE ItemsKept /\ Balanced /\ TightNearLeaves
  BY DEF TreeKept
<1>1. Numbers /\ HeapInv /\ StepInv
  BY DEF IInv
<1>2. /\ count = Len(given) /\ count \in Nat /\ given \in Seq(Box)
      /\ \A y \in 1..count : given[y] \in Envelope
  BY <1>1, HasEnvelopes DEF StepInv, Numbers
<1>3. DOMAIN given = 1..count
  BY <1>2
<1>4. /\ root \in DOMAIN nodes
      /\ count = 0 => nodes = [n \in {root} |-> Blank]
      /\ count # 0 => Good(nodes, given, 1..count, {root}, {}, {})
  BY <1>1, WholeTree
<1>5. MaxEntries \in Nat
  BY FanoutAssumption
<1>6. CASE count = 0
  <2>1. /\ DOMAIN nodes = {root} /\ nodes[root] = Blank
        /\ Held(nodes, TRUE) = {} /\ Held(nodes, FALSE) = {} /\ Once(nodes)
    BY <1>4, <1>6, BlankTree
  <2>2. ItemsKept
    <3>1. DOMAIN given = {}
      BY <1>3, <1>6
    <3> QED
      BY <2>1, <3>1 DEF ItemsKept
  <2>3. \A n \in DOMAIN nodes : nodes[n].entries = <<>> /\ nodes[n].leaf /\ nodes[n].env = Empty
    BY <2>1 DEF Blank
  <2>4. Balanced
    BY <1>5, <1>6, <2>3 DEF Balanced
  <2>5. ASSUME NEW n \in DOMAIN nodes PROVE HullOf(nodes[n].entries, EnvsFor(nodes[n].leaf)) = Empty
    <3> DEFINE s == nodes[n].entries
               env == EnvsFor(nodes[n].leaf)
    <3>1. DOMAIN s = {}
      BY <2>3, <2>5
    <3> HIDE DEF s, env
    <3>2. {env[s[i]] : i \in DOMAIN s} = {}
      BY <3>1
    <3>3. HullOf(s, env) = Empty
      BY <3>2 DEF HullOf, Hull
    <3> QED
      BY <3>3 DEF s, env
  <2>6. TightNearLeaves
    <3>1. Expand(Empty, Empty) = Empty
      BY DEF Expand
    <3> QED
      BY <2>3, <2>5, <3>1 DEF TightNearLeaves
  <2> QED
    BY <2>2, <2>4, <2>6
<1>7. CASE count # 0
  <2> DEFINE one == {root}
             none == {}
             items == 1..count
  <2>1. Good(nodes, given, items, one, none, none)
    BY <1>4, <1>7
  <2>2. \A y \in items : given[y] \in Envelope
    BY <1>2
  <2>3. one = {root} /\ none = {} /\ items = DOMAIN given
    BY <1>3
  <2> HIDE DEF one, none, items
  <2>4. /\ Held(nodes, TRUE) = items /\ Held(nodes, FALSE) = DOMAIN nodes \ one /\ one \subseteq DOMAIN nodes
        /\ \A n \in DOMAIN nodes : NodeFacts(nodes, given, one, none, none, n)
    BY <2>1, <2>2, GoodIs
  <2>5. ItemsKept
    BY <2>1, <2>3, <2>4 DEF ItemsKept, Good, Whole
  <2>6. ASSUME NEW n \in DOMAIN nodes
        PROVE  /\ nodes[n].entries # <<>> /\ Len(nodes[n].entries) <= MaxEntries
               /\ ~nodes[n].leaf => \A m \in ToSet(nodes[n].entries) : nodes[m].height = nodes[n].height - 1
               /\ Inside(nodes[n].env, Exact(nodes, given, n))
               /\ nodes[n].height <= 1 => nodes[n].env = Exact(nodes, given, n)
    <3>1. NodeFacts(nodes, given, one, none, none, n)
      BY <2>4, <2>6
    <3>2. Len(nodes[n].entries) <= MaxEntries + 0
      BY <2>3, <3>1 DEF NodeFacts
    <3>3. Len(nodes[n].entries) <= MaxEntries
      BY <1>5, <3>2
    <3> QED
      BY <2>3, <3>1, <3>3 DEF NodeFacts
  <2>7. Balanced
    BY <2>6 DEF Balanced
  <2>8. ASSUME NEW n \in DOMAIN nodes PROVE HullOf(nodes[n].entries, EnvsFor(nodes[n].leaf)) = Exact(nodes, given, n)
    BY DEF Exact, EnvsOf, EnvsFor
  <2>9. TightNearLeaves
    BY <2>6, <2>8 DEF TightNearLeaves, Inside
  <2> QED
    BY <2>5, <2>7, <2>9
<1> QED
  BY <1>6, <1>7

\* For any items, batches, fanout and threshold: the state of the tree has its
\* type in every step of a call, and every node has the envelope of something.
\* (insertItem, splitAndPropagate, collectItems and strBuild.)
THEOREM TypeCorrect == Spec => []TypeOK
<1>1. IInv /\ QueryInv => TypeOK
  BY TypeHolds
<1> QED
  BY <1>1, Inductive, QueryIs, PTL

\* For any items, batches, fanout and threshold: whenever a call returns, no item
\* is lost or doubled, the nodes are one balanced tree with no node overfull or
\* empty, no envelope is wider than what is below it, and those near the leaves
\* are exact.  (Insert and Bulk, whichever and however often they are called.)
THEOREM TreesAreKept == Spec => []TreeKept
<1>1. IInv => TreeKept
  BY TreeHolds
<1> QED
  BY <1>1, Inductive, PTL

-----------------------------------------------------------------------------
(***************************************************************************)
(* Trees that were packed.                                                 *)
(***************************************************************************)
\* The envelopes that AllExact compares with.
LEMMA AllExactIs == /\ AllExact <=> ExactTree(nodes, given)
                    /\ AllExact' <=> ExactTree(nodes', given')
BY DEF AllExact, ExactTree, Exact, EnvsOf, EnvsFor

\* While levels are packed all nodes are exact.
PackedInv == at = "pack" => AllExact

\* strPackLeaves and strPackInternal keep them so.
LEMMA LevelsAreExact ==
  ASSUME IInv, PackedInv, PackLeaves \/ PackInternal
  PROVE  AllExact'
<1>1. CASE PackLeaves
  <2>1. PICK new : new = {made + a : a \in Starts(Len(row))}
    OBVIOUS
  <2>2. nodes = NoNodes /\ Level(nodes', nodes, given, new, 0, 1..Len(given))
    BY <1>1, <2>1, LeavesAreLaid
  <2>3. DOMAIN nodes = {}
    BY <2>2 DEF NoNodes
  <2>4. ExactTree(nodes, given)
    BY <2>3 DEF ExactTree
  <2>5. ExactTree(nodes', given)
    BY <2>2, <2>3, <2>4, LevelIsExact
  <2>6. given' = given
    BY <1>1 DEF PackLeaves
  <2> QED
    BY <2>5, <2>6, AllExactIs
<1>2. CASE PackInternal
  <2>1. PICK new : new = {made + a : a \in Starts(Len(row))}
    OBVIOUS
  <2>2. PICK height : height = nodes[row[1]].height + 1
    OBVIOUS
  <2>3. ToSet(row) \subseteq DOMAIN nodes /\ Level(nodes', nodes, given, new, height, ToSet(row))
    BY <1>2, <2>1, <2>2, InnerAreLaid
  <2>4. at = "pack" /\ given' = given
    BY <1>2 DEF PackInternal
  <2>5. ExactTree(nodes, given)
    BY <2>4, AllExactIs DEF PackedInv
  <2>6. \A n \in DOMAIN nodes : ~nodes[n].leaf => \A m \in ToSet(nodes[n].entries) : m \in DOMAIN nodes
    <3>1. count > 0
      BY <2>4 DEF IInv, StepInv
    <3>2. count # 0
      BY <3>1 DEF IInv, Numbers
    <3>3. Good(nodes, given, Placed, Tops, Big, Stale)
      BY <2>4, <3>2 DEF IInv, HeapInv
    <3>4. \A y \in Placed : given[y] \in Envelope
      BY <2>4, HasEnvelopes DEF IInv, Placed
    <3>5. \A n \in DOMAIN nodes : NodeFacts(nodes, given, Tops, Big, Stale, n)
      BY <3>3, <3>4, GoodIs
    <3> QED
      BY <3>5 DEF NodeFacts
  <2>7. ExactTree(nodes', given)
    BY <2>3, <2>5, <2>6, LevelIsExact
  <2> QED
    BY <2>4, <2>7, AllExactIs
<1> QED
  BY <1>1, <1>2

\* Nothing else starts or goes on packing levels.
LEMMA PackingGoesOn ==
  ASSUME IInv, PackedInv, [Next]_vars
  PROVE  PackedInv'
<1>1. CASE PackLeaves \/ PackInternal
  BY <1>1, LevelsAreExact DEF PackedInv
<1>2. CASE UNCHANGED vars
  BY <1>2 DEF vars, PackedInv, AllExact, EnvsFor
<1>3. CASE Insert \/ BulkSmall \/ ChooseChild \/ AddItem \/ SplitRoot \/ SplitInner
  <2>1. at' # "pack"
    BY <1>3 DEF Insert, BulkSmall, ChooseChild, AddItem, SplitRoot, SplitInner, ItemDone
  <2> QED
    BY <2>1 DEF PackedInv
<1>4. CASE BulkRebuild \/ CollectNode \/ AppendBatch \/ Search \/ SearchNode \/ SearchStops \/ SearchReturns
  <2>1. at' # "pack"
    BY <1>4 DEF BulkRebuild, CollectNode, AppendBatch, Search, SearchNode, SearchStops, SearchReturns
  <2> QED
    BY <2>1 DEF PackedInv
<1> QED
  BY <1>1, <1>2, <1>3, <1>4 DEF Next

\* Each level that strPackLeaves and strPackInternal add leaves every envelope
\* exactly as wide as what is below it, so after a rebuild a search finds
\* everything (SearchIsRight), until an insertion splits a node again.
THEOREM PackedAreExact == Spec => [][PackLeaves \/ PackInternal => AllExact']_vars
<1>1. Init => PackedInv
  BY DEF Init, PackedInv
<1>2. IInv /\ PackedInv /\ [Next]_vars => PackedInv'
  BY PackingGoesOn
<1>3. IInv /\ PackedInv /\ [Next]_vars => [PackLeaves \/ PackInternal => AllExact']_vars
  BY LevelsAreExact
<1> QED
  BY <1>1, <1>2, <1>3, Inductive, PTL DEF Spec

-----------------------------------------------------------------------------
(***************************************************************************)
(* Trees that were not packed.                                             *)
(***************************************************************************)
\* The leaves hold items of the tree.
LEMMA LeavesHoldItems ==
  ASSUME IInv, NEW n \in DOMAIN nodes, nodes[n].leaf, NEW y \in ToSet(nodes[n].entries)
  PROVE  y \in 1..count
<1>1. at # "leaves"
  BY DEF IInv, HeapInv, NoNodes
<1>2. CASE count = 0
  <2>1. nodes = [m \in {root} |-> Blank]
    BY <1>1, <1>2 DEF IInv, HeapInv
  <2>2. Held(nodes, TRUE) = {} /\ nodes[n] = Blank
    BY <2>1, BlankTree
  <2>3. nodes[n].leaf = TRUE
    BY <2>2 DEF Blank
  <2> QED
    BY <2>2, <2>3, HeldIs
<1>3. CASE count # 0
  <2>1. Good(nodes, given, Placed, Tops, Big, Stale)
    BY <1>1, <1>3 DEF IInv, HeapInv
  <2>2. Held(nodes, TRUE) = Placed /\ nodes[n].leaf = TRUE
    BY <2>1 DEF Good, Whole, Shaped, NodeShape
  <2>3. y \in Placed
    BY <2>2, HeldIs
  <2> QED
    BY <2>3 DEF Placed
<1> QED
  BY <1>2, <1>3

\* More items given change no envelope.
LEMMA GivingIsExact ==
  ASSUME IInv, OthersExact, at = "idle", Insert \/ BulkSmall \/ BulkRebuild
  PROVE  OthersExact'
<1>1. given \in Seq(Box) /\ count = Len(given) /\ Box \subseteq Envelope
  BY InputAssumption DEF IInv, Numbers, StepInv
<1>2. nodes' = nodes /\ at' # "split"
  BY DEF Insert, BulkSmall, BulkRebuild
<1>3. \A y \in 1..count : given'[y] = given[y]
  <2>1. CASE Insert
    BY <1>1, <2>1 DEF Insert
  <2>2. CASE BulkSmall \/ BulkRebuild
    <3>1. PICK batch \in Batches : given' = given \o batch
      BY <2>2 DEF BulkSmall, BulkRebuild
    <3>2. batch \in Seq(Box)
      BY InputAssumption
    <3> QED
      BY <1>1, <3>1, <3>2, AppendGiven
  <2> QED
    BY <2>1, <2>2
<1>4. ASSUME NEW n \in DOMAIN nodes PROVE nodes[n].env = Exact(nodes, given', n)
  <2>1. \A y \in ToSet(nodes[n].entries) : EnvsOf(nodes, given, n)[y] = EnvsOf(nodes, given', n)[y]
    BY <1>3, LeavesHoldItems DEF EnvsOf
  <2>2. Exact(nodes, given', n) = Exact(nodes, given, n)
    BY <2>1, SameHull DEF Exact
  <2> QED
    BY <2>2, OthersAreAll DEF ExactTree
<1> QED
  BY <1>2, <1>4, OthersAreAll DEF ExactTree

\* Nor does taking the tree apart from above.
LEMMA CollectingIsExact ==
  ASSUME IInv, OthersExact, CollectNode
  PROVE  OthersExact'
<1> DEFINE n == Head(path)
           items == (1..count) \ ToSet(row)
           tops == ToSet(path)
           none == {}
           g == nodes'
<1>1. at = "collect" /\ path # <<>> /\ g = Without(nodes, n) /\ given' = given /\ at' = at
  BY DEF CollectNode
<1>2. /\ path \in Seq(DOMAIN nodes) /\ IsInjective(path)
      /\ Good(nodes, given, items, tops, none, none) /\ \A y \in items : given[y] \in Envelope
  BY <1>1, WhenCollected
<1>3. n \in tops
  BY <1>1, <1>2, TailIs
<1>4. DOMAIN g = DOMAIN nodes \ {n} /\ \A m \in DOMAIN g : g[m] = nodes[m]
  BY <1>1, WithoutIs
<1> HIDE DEF n, items, tops, none, g
<1>5. \A m \in DOMAIN nodes : ~nodes[m].leaf => \A y \in ToSet(nodes[m].entries) : y \in DOMAIN nodes /\ y # n
  <2>1. \A m \in DOMAIN nodes : NodeFacts(nodes, given, tops, none, none, m)
    BY <1>2, GoodIs
  <2> QED
    BY <1>3, <2>1 DEF NodeFacts
<1>6. ASSUME NEW m \in DOMAIN g PROVE g[m].env = Exact(g, given, m)
  <2>1. m \in DOMAIN nodes /\ g[m] = nodes[m]
    BY <1>4
  <2>2. \A y \in ToSet(g[m].entries) : EnvsOf(nodes, given, m)[y] = EnvsOf(g, given, m)[y]
    BY <1>4, <1>5, <2>1 DEF EnvsOf, EnvsIn
  <2>3. Exact(nodes, given, m) = Exact(g, given, m)
    BY <2>1, <2>2, SameHull DEF Exact
  <2> QED
    BY <1>1, <2>1, <2>3, OthersAreAll DEF ExactTree
<1> QED
  BY <1>1, <1>6, OthersAreAll DEF ExactTree, g

\* Every step but Absorbed keeps the others exact.
LEMMA StaysExact ==
  ASSUME IInv, OthersExact, ~Absorbed, [Next]_vars
  PROVE  OthersExact'
<1>1. CASE UNCHANGED vars
  BY <1>1 DEF vars, OthersExact, ExactBut, Stale
<1>2. CASE Insert \/ BulkSmall \/ BulkRebuild
  <2>1. at = "idle"
    BY <1>2 DEF Insert, BulkSmall, BulkRebuild
  <2> QED
    BY <1>2, <2>1, GivingIsExact
<1>3. CASE ChooseChild \/ Search \/ SearchNode \/ SearchStops \/ SearchReturns
  <2>1. UNCHANGED <<nodes, given>> /\ at # "split" /\ at' # "split"
    BY <1>3 DEF ChooseChild, Search, SearchNode, SearchStops, SearchReturns
  <2> QED
    BY <2>1, OthersAreAll
<1>4. CASE AddItem
  BY <1>4, AddItemIs
<1>5. CASE SplitRoot
  BY <1>5, SplitRootIs
<1>6. CASE SplitInner
  BY <1>6, SplitInnerIs
<1>7. CASE CollectNode
  BY <1>7, CollectingIsExact
<1>8. CASE AppendBatch
  <2>1. nodes' = NoNodes /\ at' # "split"
    BY <1>8 DEF AppendBatch
  <2>2. DOMAIN nodes' = {}
    BY <2>1 DEF NoNodes
  <2> QED
    BY <2>1, <2>2, OthersAreAll DEF ExactTree
<1>9. CASE PackLeaves \/ PackInternal
  <2>1. at # "split" /\ at' # "split"
    BY <1>9 DEF PackLeaves, PackInternal, Pack
  <2>2. PackedInv
    BY <2>1, OthersAreAll, AllExactIs DEF PackedInv
  <2> QED
    BY <1>9, <2>1, <2>2, LevelsAreExact, OthersAreAll, AllExactIs
<1> QED
  BY <1>1, <1>2, <1>3, <1>4, <1>5, <1>6, <1>7, <1>8, <1>9 DEF Next

\* At first all envelopes are exact, and after every step they still are, but for
\* that of the parent of a node just to be split, unless in that step an inner
\* node other than the root takes two halves in and stays within the fanout:
\* there splitAndPropagate returns and the nodes above do not grow by the item.
\* Until then every search finds all (SearchIsRight).
THEOREM ExactTillAbsorbed == Spec => OthersExact /\ [][OthersExact /\ ~Absorbed => OthersExact']_vars
<1>1. ASSUME Init PROVE OthersExact
  <2>1. at # "split" /\ given = <<>> /\ nodes = [n \in {1} |-> NodeOf(0, <<>>, <<>>)]
    BY <1>1 DEF Init
  <2>2. DOMAIN nodes = {1} /\ nodes[1] = NodeOf(0, <<>>, given)
    BY <2>1
  <2>3. /\ NodeOf(0, <<>>, given).leaf = (0 = 0) /\ NodeOf(0, <<>>, given).entries = <<>>
        /\ NodeOf(0, <<>>, given).env = HullOf(<<>>, given)
    BY DEF NodeOf
  <2>4. nodes[1].leaf = TRUE /\ nodes[1].env = HullOf(nodes[1].entries, given)
    BY <2>2, <2>3
  <2> QED
    BY <2>1, <2>2, <2>4, OthersAreAll DEF ExactTree, Exact, EnvsOf
<1>2. IInv /\ [Next]_vars => [OthersExact /\ ~Absorbed => OthersExact']_vars
  BY StaysExact
<1> QED
  BY <1>1, <1>2, Inductive, PTL DEF Spec

-----------------------------------------------------------------------------
(***************************************************************************)
(* Searches.                                                               *)
(***************************************************************************)
\* A tree: every node but the top is the child of one other node.
Rooted(h, top) ==
  /\ top \in DOMAIN h /\ IsFiniteSet(DOMAIN h)
  /\ \A n \in DOMAIN h :
       /\ h[n].leaf \in BOOLEAN /\ h[n].height \in Nat
       /\ h[n].entries \in Seq(Nat) /\ IsInjective(h[n].entries)
       /\ ~h[n].leaf => \A m \in ToSet(h[n].entries) : m \in DOMAIN h /\ h[m].height < h[n].height
       /\ \A m, k \in ToSet(h[n].entries) : ~h[n].leaf => h[m].height = h[k].height
  /\ \A n, m \in DOMAIN h : h[n].leaf = h[m].leaf => n = m \/ \A y \in ToSet(h[n].entries) : y \notin ToSet(h[m].entries)
  /\ \A m \in DOMAIN h : m = top \/ \E p \in DOMAIN h : ~h[p].leaf /\ m \in ToSet(h[p].entries)

\* The nodes under n are the least set that has n and the children of its nodes.
LEMMA UnderIs ==
  ASSUME NEW h, NEW top, Rooted(h, top), NEW n \in DOMAIN h
  PROVE  /\ n \in Under(h, n) /\ Under(h, n) \subseteq DOMAIN h /\ HasChildren(h, Under(h, n))
         /\ \A S \in SUBSET DOMAIN h : n \in S /\ HasChildren(h, S) => Under(h, n) \subseteq S
<1>1. \A m : m \in Under(h, n) <=> m \in DOMAIN h /\ \A S \in SUBSET DOMAIN h : n \in S /\ HasChildren(h, S) => m \in S
  BY DEF Under
<1>2. n \in Under(h, n) /\ Under(h, n) \subseteq DOMAIN h
  BY <1>1
<1>3. \A S \in SUBSET DOMAIN h : n \in S /\ HasChildren(h, S) => Under(h, n) \subseteq S
  BY <1>1
<1>4. ASSUME NEW p \in Under(h, n), ~h[p].leaf, NEW y \in ToSet(h[p].entries) PROVE y \in Under(h, n)
  <2>1. p \in DOMAIN h /\ y \in DOMAIN h
    BY <1>2, <1>4 DEF Rooted
  <2>2. ASSUME NEW S \in SUBSET DOMAIN h, n \in S, HasChildren(h, S) PROVE y \in S
    <3>1. p \in S
      BY <1>1, <1>4, <2>2
    <3> QED
      BY <1>4, <2>2, <3>1 DEF HasChildren
  <2> QED
    BY <1>1, <2>1, <2>2
<1>5. HasChildren(h, Under(h, n))
  BY <1>4 DEF HasChildren
<1> QED
  BY <1>2, <1>3, <1>5

\* They are n and the nodes under its children, which are lower,
LEMMA UnderParts ==
  ASSUME NEW h, NEW top, Rooted(h, top), NEW n \in DOMAIN h
  PROVE  /\ h[n].leaf => Under(h, n) = {n}
         /\ ~h[n].leaf => /\ \A c \in ToSet(h[n].entries) : c \in DOMAIN h /\ Under(h, c) \subseteq Under(h, n)
                          /\ \A m \in Under(h, n) : m = n \/ \E c \in ToSet(h[n].entries) : m \in Under(h, c)
         /\ \A m \in Under(h, n) : m = n \/ h[m].height < h[n].height
<1>1. /\ n \in Under(h, n) /\ Under(h, n) \subseteq DOMAIN h /\ HasChildren(h, Under(h, n))
      /\ \A S \in SUBSET DOMAIN h : n \in S /\ HasChildren(h, S) => Under(h, n) \subseteq S
  BY UnderIs
<1>2. \A m \in DOMAIN h :
        h[m].height \in Nat /\ (~h[m].leaf => \A y \in ToSet(h[m].entries) : y \in DOMAIN h /\ h[y].height < h[m].height)
  BY DEF Rooted
<1>3. ASSUME h[n].leaf PROVE Under(h, n) = {n}
  <2>1. HasChildren(h, {n})
    BY <1>3 DEF HasChildren
  <2> QED
    BY <1>1, <2>1
<1>4. ASSUME ~h[n].leaf, NEW c \in ToSet(h[n].entries) PROVE c \in DOMAIN h /\ Under(h, c) \subseteq Under(h, n)
  <2>1. c \in DOMAIN h /\ c \in Under(h, n)
    BY <1>1, <1>2, <1>4 DEF HasChildren
  <2> QED
    BY <1>1, <2>1, UnderIs
<1>5. ASSUME ~h[n].leaf, NEW m \in Under(h, n) PROVE m = n \/ \E c \in ToSet(h[n].entries) : m \in Under(h, c)
  <2> DEFINE S == {n} \cup UNION {Under(h, c) : c \in ToSet(h[n].entries)}
  <2>1. \A y : y \in S <=> y = n \/ \E c \in ToSet(h[n].entries) : y \in Under(h, c)
    OBVIOUS
  <2> HIDE DEF S
  <2>2. \A c \in ToSet(h[n].entries) : c \in Under(h, c) /\ Under(h, c) \subseteq DOMAIN h /\ HasChildren(h, Under(h, c))
    BY <1>2, <1>5, UnderIs
  <2>3. S \in SUBSET DOMAIN h /\ n \in S
    BY <2>1, <2>2
  <2>4. ASSUME NEW p \in S, ~h[p].leaf, NEW y \in ToSet(h[p].entries) PROVE y \in S
    <3>1. CASE p = n
      BY <2>1, <2>2, <2>4, <3>1
    <3>2. CASE p # n
      <4>1. PICK c \in ToSet(h[n].entries) : p \in Under(h, c)
        BY <2>1, <3>2
      <4>2. y \in Under(h, c)
        BY <2>2, <2>4, <4>1 DEF HasChildren
      <4> QED
        BY <2>1, <4>2
    <3> QED
      BY <3>1, <3>2
  <2>5. HasChildren(h, S)
    BY <2>4 DEF HasChildren
  <2> QED
    BY <1>1, <2>1, <2>3, <2>5
<1>6. ASSUME NEW m \in Under(h, n) PROVE m = n \/ h[m].height < h[n].height
  <2> DEFINE S == {y \in DOMAIN h : y = n \/ h[y].height < h[n].height}
  <2>1. \A y : y \in S <=> y \in DOMAIN h /\ (y = n \/ h[y].height < h[n].height)
    OBVIOUS
  <2> HIDE DEF S
  <2>2. ASSUME NEW p \in S, ~h[p].leaf, NEW y \in ToSet(h[p].entries) PROVE y \in S
    <3>1. p \in DOMAIN h /\ y \in DOMAIN h /\ h[y].height < h[p].height
      BY <1>2, <2>1, <2>2
    <3>2. h[y].height \in Nat /\ h[p].height \in Nat /\ h[n].height \in Nat
      BY <1>2, <3>1
    <3>3. p = n \/ h[p].height < h[n].height
      BY <2>1
    <3>4. h[y].height < h[n].height
      BY <3>1, <3>2, <3>3
    <3> QED
      BY <2>1, <3>1, <3>4
  <2>3. HasChildren(h, S)
    BY <2>2 DEF HasChildren
  <2>4. S \in SUBSET DOMAIN h /\ n \in S
    BY <2>1
  <2> QED
    BY <1>1, <1>6, <2>1, <2>3, <2>4
<1> QED
  BY <1>3, <1>4, <1>5, <1>6

\* and each but n has its parent among them.
LEMMA ParentIsUnder ==
  ASSUME NEW h, NEW top, Rooted(h, top), NEW n \in DOMAIN h, NEW x \in Under(h, n), x # n
  PROVE  \E p \in Under(h, n) : ~h[p].leaf /\ x \in ToSet(h[p].entries)
<1> SUFFICES ASSUME \A p \in Under(h, n) : ~h[p].leaf => x \notin ToSet(h[p].entries) PROVE FALSE
  OBVIOUS
<1> DEFINE U == Under(h, n)
           S == U \ {x}
<1>1. /\ n \in U /\ U \subseteq DOMAIN h /\ HasChildren(h, U)
      /\ \A R \in SUBSET DOMAIN h : n \in R /\ HasChildren(h, R) => U \subseteq R
  BY UnderIs
<1>2. HasChildren(h, S)
  <2>1. \A p \in U : ~h[p].leaf => ToSet(h[p].entries) \subseteq U
    BY <1>1 DEF HasChildren
  <2> HIDE DEF U
  <2> QED
    BY <2>1 DEF HasChildren, U
<1> HIDE DEF U
<1> QED
  BY <1>1, <1>2 DEF U

\* A set of nodes has one that is not lower than any other.
LEMMA HighestIs ==
  ASSUME NEW h, NEW top, Rooted(h, top), NEW D \in SUBSET DOMAIN h, D # {}
  PROVE  \E m \in D : \A x \in D : h[x].height <= h[m].height
<1> DEFINE f == [x \in D |-> h[x].height]
           S == {f[x] : x \in D}
<1>1. IsFiniteSet(D) /\ \A x \in D : h[x].height \in Nat
  BY FS_Subset DEF Rooted
<1>2. S \in SUBSET Int /\ S # {}
  BY <1>1
<1>3. \A x \in D : f[x] = h[x].height /\ f[x] \in S
  OBVIOUS
<1>4. \A y \in S : \E x \in D : y = f[x]
  OBVIOUS
<1>5. IsFiniteSet(S)
  <2> HIDE DEF f
  <2> QED
    BY <1>1, ImageIsFinite
<1> HIDE DEF f, S
<1>6. Max(S) \in S /\ \A y \in S : Max(S) >= y
  BY <1>2, <1>5, MinAndMax
<1>7. PICK m \in D : Max(S) = f[m]
  BY <1>4, <1>6
<1>8. \A x \in D : h[m].height >= h[x].height
  BY <1>3, <1>6, <1>7
<1> QED
  BY <1>1, <1>8

\* No node is under two children of a node.
LEMMA ChildrenApart ==
  ASSUME NEW h, NEW top, Rooted(h, top), NEW n \in DOMAIN h, ~h[n].leaf,
         NEW a \in ToSet(h[n].entries), NEW b \in ToSet(h[n].entries), a # b
  PROVE  Under(h, a) \cap Under(h, b) = {}
<1> DEFINE D == Under(h, a) \cap Under(h, b)
<1> SUFFICES ASSUME D # {} PROVE FALSE
  OBVIOUS
<1>1. a \in DOMAIN h /\ b \in DOMAIN h /\ h[a].height = h[b].height /\ h[a].height \in Nat
  BY DEF Rooted
<1>2. Under(h, a) \subseteq DOMAIN h /\ Under(h, b) \subseteq DOMAIN h
  BY <1>1, UnderIs
<1>3. PICK m \in D : \A x \in D : h[x].height <= h[m].height
  <2>1. D \in SUBSET DOMAIN h
    BY <1>2
  <2> HIDE DEF D
  <2> QED
    BY <2>1, HighestIs
<1>4. m \in DOMAIN h /\ m # a /\ m # b
  <2>1. /\ \A x \in Under(h, a) : x = a \/ h[x].height < h[a].height
        /\ \A x \in Under(h, b) : x = b \/ h[x].height < h[b].height
    BY <1>1, UnderParts
  <2>2. m \in DOMAIN h
    BY <1>2
  <2>3. m # a
    BY <1>1, <2>1
  <2>4. m # b
    BY <1>1, <2>1
  <2> QED
    BY <2>2, <2>3, <2>4
<1>5. PICK p \in Under(h, a) : ~h[p].leaf /\ m \in ToSet(h[p].entries)
  BY <1>1, <1>4, ParentIsUnder
<1>6. PICK q \in Under(h, b) : ~h[q].leaf /\ m \in ToSet(h[q].entries)
  BY <1>1, <1>4, ParentIsUnder
<1>7. p = q
  <2>1. p \in DOMAIN h /\ q \in DOMAIN h /\ h[p].leaf \in BOOLEAN /\ h[q].leaf \in BOOLEAN
    BY <1>2, <1>5, <1>6 DEF Rooted
  <2>2. h[p].leaf = h[q].leaf
    BY <1>5, <1>6, <2>1
  <2> QED
    BY <1>5, <1>6, <2>1, <2>2 DEF Rooted
<1>8. p \in D /\ p \in DOMAIN h
  BY <1>2, <1>5, <1>6, <1>7
<1>9. h[m].height < h[p].height /\ h[p].height <= h[m].height /\ h[m].height \in Nat /\ h[p].height \in Nat
  BY <1>3, <1>4, <1>5, <1>8 DEF Rooted
<1> QED
  BY <1>9

\* All nodes are under the top.
LEMMA AllUnderTop ==
  ASSUME NEW h, NEW top, Rooted(h, top)
  PROVE  Under(h, top) = DOMAIN h
<1> DEFINE U == Under(h, top)
           D == DOMAIN h \ U
<1>1. top \in DOMAIN h /\ top \in U /\ U \subseteq DOMAIN h /\ HasChildren(h, U)
  <2>1. top \in DOMAIN h
    BY DEF Rooted
  <2> QED
    BY <2>1, UnderIs
<1> SUFFICES ASSUME D # {} PROVE FALSE
  BY <1>1
<1> HIDE DEF U
<1>2. PICK m \in D : \A x \in D : h[x].height <= h[m].height
  <2>1. D \in SUBSET DOMAIN h
    OBVIOUS
  <2> HIDE DEF D
  <2> QED
    BY <2>1, HighestIs
<1>3. m \in DOMAIN h /\ m \notin U /\ m # top
  BY <1>1
<1>4. PICK p \in DOMAIN h : ~h[p].leaf /\ m \in ToSet(h[p].entries)
  BY <1>3 DEF Rooted
<1>5. p \notin U
  BY <1>1, <1>3, <1>4 DEF HasChildren
<1>6. h[m].height < h[p].height /\ h[p].height <= h[m].height /\ h[m].height \in Nat /\ h[p].height \in Nat
  BY <1>2, <1>3, <1>4, <1>5 DEF Rooted
<1> QED
  BY <1>6

\* Of a sequence of items, those that meet the query.
LEMMA MeetingIs ==
  ASSUME NEW n, NEW X, nodes[n].entries \in Seq(X), IsInjective(nodes[n].entries)
  PROVE  /\ MeetingItems(n) \in Seq(X) /\ IsInjective(MeetingItems(n))
         /\ \A i : i \in ToSet(MeetingItems(n)) <=> i \in ToSet(nodes[n].entries) /\ Meets(given[i], query)
<1> DEFINE s == nodes[n].entries
           P == {k \in DOMAIN s : Meets(given[s[k]], query)}
           a == Ascending(P)
           t == MeetingItems(n)
<1>1. DOMAIN s = 1..Len(s) /\ Len(s) \in Nat /\ \A k \in DOMAIN s : s[k] \in X
  OBVIOUS
<1>2. t = [r \in DOMAIN a |-> s[a[r]]]
  BY DEF MeetingItems
<1>3. \A i, j \in DOMAIN s : s[i] = s[j] => i = j
  BY DEF IsInjective
<1>4. ToSet(s) = {s[k] : k \in DOMAIN s}
  BY <1>1 DEF ToSet
<1>5. \A k : k \in P <=> k \in DOMAIN s /\ Meets(given[s[k]], query)
  OBVIOUS
<1> HIDE DEF s, t, P
<1>6. P \in SUBSET Int /\ IsFiniteSet(P)
  <2>1. IsFiniteSet(1..Len(s)) /\ P \subseteq 1..Len(s)
    BY <1>1, <1>5, FS_Interval
  <2>2. IsFiniteSet(P)
    BY <2>1, FS_Subset
  <2>3. P \subseteq Int
    BY <2>1
  <2> QED
    BY <2>2, <2>3
<1>7. a \in Seq(P) /\ IsInjective(a) /\ ToSet(a) = P
  BY <1>6, AscendingIs
<1> HIDE DEF a
<1>8. DOMAIN a = 1..Len(a) /\ Len(a) \in Nat /\ \A r \in DOMAIN a : a[r] \in P
  BY <1>7
<1>9. \A k : k \in P <=> \E r \in DOMAIN a : a[r] = k
  BY <1>7, <1>8 DEF ToSet
<1>10. \A r \in DOMAIN a : t[r] = s[a[r]] /\ a[r] \in DOMAIN s
  BY <1>2, <1>5, <1>8
<1>11. t \in Seq(X) /\ DOMAIN t = DOMAIN a
  BY <1>1, <1>2, <1>8, <1>10
<1>12. IsInjective(t)
  <2> SUFFICES ASSUME NEW p \in DOMAIN t, NEW q \in DOMAIN t, t[p] = t[q] PROVE p = q
    BY DEF IsInjective
  <2>1. a[p] = a[q]
    BY <1>3, <1>10, <1>11
  <2> QED
    BY <1>7, <1>11, <2>1 DEF IsInjective
<1>13. ToSet(t) = {t[r] : r \in DOMAIN t}
  BY <1>11 DEF ToSet
<1>14. ASSUME NEW i PROVE i \in ToSet(t) <=> i \in ToSet(s) /\ Meets(given[i], query)
  <2>1. ASSUME i \in ToSet(t) PROVE i \in ToSet(s) /\ Meets(given[i], query)
    <3>1. PICK r \in DOMAIN a : i = s[a[r]]
      BY <1>10, <1>11, <1>13, <2>1
    <3> QED
      BY <1>4, <1>5, <1>8, <3>1
  <2>2. ASSUME i \in ToSet(s), Meets(given[i], query) PROVE i \in ToSet(t)
    <3>1. PICK k \in DOMAIN s : i = s[k]
      BY <1>4, <2>2
    <3>2. PICK r \in DOMAIN a : a[r] = k
      BY <1>5, <1>9, <2>2, <3>1
    <3> QED
      BY <1>10, <1>11, <1>13, <3>1, <3>2
  <2> QED
    BY <2>1, <2>2
<1> QED
  BY <1>11, <1>12, <1>14 DEF s, t

\* Between calls and while it is searched the tree is one tree, and its leaves
\* hold the items.
LEMMA TreeIsRooted ==
  ASSUME IInv, at \in {"idle", "search", "stopped"}
  PROVE  /\ Rooted(nodes, root)
         /\ \A i : i \in DOMAIN given <=> \E n \in DOMAIN nodes : nodes[n].leaf /\ i \in ToSet(nodes[n].entries)
<1>1. Numbers /\ HeapInv /\ StepInv
  BY DEF IInv
<1>2. /\ count = Len(given) /\ count \in Nat /\ given \in Seq(Box) /\ DOMAIN given = 1..count
      /\ \A y \in 1..count : given[y] \in Envelope
      /\ made \in Nat /\ DOMAIN nodes \subseteq 1..made
  BY <1>1, HasEnvelopes DEF StepInv, Numbers
<1>3. IsFiniteSet(DOMAIN nodes)
  <2>1. IsFiniteSet(1..made)
    BY <1>2, FS_Interval
  <2> QED
    BY <1>2, <2>1, FS_Subset
<1>4. /\ root \in DOMAIN nodes
      /\ count = 0 => nodes = [n \in {root} |-> Blank]
      /\ count # 0 => Good(nodes, given, 1..count, {root}, {}, {})
  BY <1>1, WholeTree
<1>5. CASE count = 0
  <2>1. DOMAIN nodes = {root} /\ nodes[root] = Blank
    BY <1>4, <1>5, BlankTree
  <2>2. nodes[root].leaf = TRUE /\ nodes[root].height = 0 /\ nodes[root].entries = <<>>
    BY <2>1 DEF Blank
  <2>3. nodes[root].entries \in Seq(Nat) /\ IsInjective(nodes[root].entries) /\ ToSet(nodes[root].entries) = {}
    <3> DEFINE s == nodes[root].entries
               X == Nat
    <3>1. s = <<>>
      BY <2>2
    <3> HIDE DEF s, X
    <3>2. s \in Seq(X) /\ IsInjective(s) /\ ToSet(s) = {}
      BY <3>1, NoneIs
    <3> QED
      BY <3>2 DEF s, X
  <2>4. Rooted(nodes, root)
    <3>1. nodes[root].leaf \in BOOLEAN
      BY <2>2
    <3>2. nodes[root].height \in Nat
      BY <2>2
    <3> QED
      BY <1>3, <2>1, <2>2, <2>3, <3>1, <3>2 DEF Rooted
  <2>5. DOMAIN given = {}
    BY <1>2, <1>5
  <2> QED
    BY <2>1, <2>3, <2>4, <2>5
<1>6. CASE count # 0
  <2> DEFINE one == {root}
             none == {}
             items == 1..count
  <2>1. Good(nodes, given, items, one, none, none) /\ (\A y \in items : given[y] \in Envelope)
    BY <1>2, <1>4, <1>6
  <2>2. one = {root} /\ none = {} /\ items = DOMAIN given
    BY <1>2
  <2> HIDE DEF one, none, items
  <2>3. /\ Held(nodes, TRUE) = items /\ Held(nodes, FALSE) = DOMAIN nodes \ one
        /\ \A n \in DOMAIN nodes : NodeFacts(nodes, given, one, none, none, n)
    BY <2>1, GoodIs
  <2>4. Once(nodes)
    BY <2>1 DEF Good, Whole
  <2>5. ASSUME NEW n \in DOMAIN nodes
        PROVE  /\ nodes[n].leaf \in BOOLEAN /\ nodes[n].height \in Nat
               /\ nodes[n].entries \in Seq(Nat) /\ IsInjective(nodes[n].entries)
               /\ ~nodes[n].leaf => \A m \in ToSet(nodes[n].entries) :
                                      m \in DOMAIN nodes /\ nodes[m].height = nodes[n].height - 1
    BY <2>3 DEF NodeFacts
  <2>6. ASSUME NEW n \in DOMAIN nodes, NEW m \in DOMAIN nodes, nodes[n].leaf = nodes[m].leaf, n # m,
               NEW y \in ToSet(nodes[n].entries)
        PROVE  y \notin ToSet(nodes[m].entries)
    BY <2>4, <2>6 DEF Once
  <2>7. ASSUME NEW m \in DOMAIN nodes, m # root
        PROVE  \E p \in DOMAIN nodes : ~nodes[p].leaf /\ m \in ToSet(nodes[p].entries)
    <3> DEFINE leaf == FALSE
    <3>1. m \in Held(nodes, leaf)
      BY <2>2, <2>3, <2>7
    <3> HIDE DEF leaf
    <3>2. PICK p \in DOMAIN nodes : nodes[p].leaf = leaf /\ m \in ToSet(nodes[p].entries)
      BY <3>1, HeldIs
    <3> QED
      BY <3>2 DEF leaf
  <2>8. Rooted(nodes, root)
    <3>1. \A n \in DOMAIN nodes : ~nodes[n].leaf => \A m \in ToSet(nodes[n].entries) : nodes[m].height < nodes[n].height
      BY <2>5
    <3>2. \A n \in DOMAIN nodes : \A m, k \in ToSet(nodes[n].entries) : ~nodes[n].leaf => nodes[m].height = nodes[k].height
      BY <2>5
    <3> QED
      BY <1>3, <1>4, <2>5, <2>6, <2>7, <3>1, <3>2 DEF Rooted
  <2>9. ASSUME NEW i
        PROVE  i \in DOMAIN given <=> \E n \in DOMAIN nodes : nodes[n].leaf /\ i \in ToSet(nodes[n].entries)
    <3> DEFINE leaf == TRUE
    <3>1. i \in DOMAIN given <=> i \in Held(nodes, leaf)
      BY <2>2, <2>3
    <3> HIDE DEF leaf
    <3>2. i \in Held(nodes, leaf) <=> \E n \in DOMAIN nodes : nodes[n].leaf = leaf /\ i \in ToSet(nodes[n].entries)
      BY HeldIs
    <3>3. \A n \in DOMAIN nodes : nodes[n].leaf = leaf <=> nodes[n].leaf
      BY <2>5 DEF leaf
    <3> QED
      BY <3>1, <3>2, <3>3
  <2> QED
    BY <2>8, <2>9
<1> QED
  BY <1>5, <1>6

\* The items under a node.
LEMMA ItemsUnderAre ==
  ASSUME NEW h, NEW n, NEW i
  PROVE  i \in ItemsUnder(h, n) <=> \E m \in Under(h, n) : h[m].leaf /\ i \in ToSet(h[m].entries)
BY DEF ItemsUnder

\* What is inside an envelope does not reach further.
LEMMA MeetsMore ==
  ASSUME NEW a \in Envelope, NEW b \in Envelope, NEW q \in Envelope \cup {Empty}, Inside(a, b), Meets(a, q)
  PROVE  Meets(b, q)
<1>1. a # Empty /\ b # Empty
  <2>1. DOMAIN a = 1..4 /\ DOMAIN b = 1..4 /\ 1 \in 1..4
    BY DEF Envelope
  <2>2. DOMAIN Empty = {}
    BY DEF Empty
  <2> QED
    BY <2>1, <2>2
<1>2. q # Empty /\ q[1] <= a[3] /\ a[1] <= q[3] /\ q[2] <= a[4] /\ a[2] <= q[4]
  BY DEF Meets
<1>3. \A k \in 1..4 : a[k] \in Int /\ b[k] \in Int /\ q[k] \in Int
  BY <1>2 DEF Envelope
<1>4. b[1] <= a[1] /\ b[2] <= a[2] /\ a[3] <= b[3] /\ a[4] <= b[4]
  BY InsideIs
<1>5. q[1] <= b[3] /\ b[1] <= q[3] /\ q[2] <= b[4] /\ b[2] <= q[4]
  BY <1>2, <1>3, <1>4
<1> QED
  BY <1>1, <1>2, <1>5 DEF Meets

\* Where all nodes under a node are exact, it reaches as far as the items do.
LEMMA ExactReaches ==
  ASSUME NEW h, NEW env, NEW items, NEW tops, NEW big, NEW stale, NEW top,
         Good(h, env, items, tops, big, stale), \A y \in items : env[y] \in Envelope, Rooted(h, top),
         NEW n \in DOMAIN h, \A m \in Under(h, n) : h[m].env = Exact(h, env, m),
         NEW i \in ItemsUnder(h, n)
  PROVE  env[i] \in Envelope /\ h[n].env \in Envelope /\ Inside(env[i], h[n].env)
<1>1. /\ n \in Under(h, n) /\ Under(h, n) \subseteq DOMAIN h /\ HasChildren(h, Under(h, n))
      /\ \A S \in SUBSET DOMAIN h : n \in S /\ HasChildren(h, S) => Under(h, n) \subseteq S
  BY UnderIs
<1>2. Shaped(h) /\ Held(h, TRUE) = items /\ Held(h, FALSE) = DOMAIN h \ tops
  BY DEF Good, Whole
<1>3. ASSUME NEW m \in Under(h, n), NEW y \in ToSet(h[m].entries)
      PROVE  EnvsOf(h, env, m)[y] \in Envelope /\ h[m].env \in Envelope /\ Inside(EnvsOf(h, env, m)[y], h[m].env)
  <2>1. m \in DOMAIN h
    BY <1>1
  <2> QED
    BY <1>2, <1>3, <2>1, ExactIs
<1>4. \A m \in DOMAIN h : h[m].env \in Envelope
  BY <1>2 DEF Shaped, NodeShape
<1> DEFINE S == {m \in Under(h, n) : Inside(h[m].env, h[n].env)}
<1>5. \A m : m \in S <=> m \in Under(h, n) /\ Inside(h[m].env, h[n].env)
  OBVIOUS
<1> HIDE DEF S
<1>6. S \in SUBSET DOMAIN h /\ n \in S
  BY <1>1, <1>4, <1>5, InsideIsOrder
<1>7. ASSUME NEW m \in S, ~h[m].leaf, NEW y \in ToSet(h[m].entries) PROVE y \in S
  <2>1. y \in Under(h, n) /\ m \in Under(h, n)
    BY <1>1, <1>5, <1>7 DEF HasChildren
  <2>2. EnvsOf(h, env, m)[y] = h[y].env
    BY <1>1, <1>7, <2>1 DEF EnvsOf, EnvsIn
  <2>3. Inside(h[y].env, h[m].env) /\ Inside(h[m].env, h[n].env)
    BY <1>3, <1>5, <1>7, <2>1, <2>2
  <2>4. h[y].env \in Envelope /\ h[m].env \in Envelope /\ h[n].env \in Envelope
    BY <1>1, <1>4, <2>1
  <2> QED
    BY <1>5, <2>1, <2>3, <2>4, InsideIsOrder
<1>8. Under(h, n) \subseteq S
  BY <1>1, <1>6, <1>7 DEF HasChildren
<1>9. PICK m \in Under(h, n) : h[m].leaf /\ i \in ToSet(h[m].entries)
  BY ItemsUnderAre
<1>10. EnvsOf(h, env, m) = env
  BY <1>9 DEF EnvsOf
<1>11. env[i] \in Envelope /\ Inside(env[i], h[m].env)
  BY <1>3, <1>9, <1>10
<1>12. Inside(h[m].env, h[n].env)
  BY <1>5, <1>8
<1>13. h[m].env \in Envelope /\ h[n].env \in Envelope
  BY <1>1, <1>4
<1> QED
  BY <1>11, <1>12, <1>13, InsideIsOrder

\* A node that does not meet the query although an item under it does is narrow:
\* not all nodes are exact, and it is not near the leaves.
LEMMA NarrowIs ==
  ASSUME IInv, at \in {"search", "stopped"}, query \in Envelope \cup {Empty},
         NEW n \in DOMAIN nodes, ~Meets(nodes[n].env, query),
         NEW i \in ItemsUnder(nodes, n), Meets(given[i], query)
  PROVE  ~AllExact /\ nodes[n].height > 1
<1>1. Numbers /\ HeapInv /\ StepInv
  BY DEF IInv
<1>2. /\ count = Len(given) /\ count \in Nat /\ DOMAIN given = 1..count
      /\ \A y \in 1..count : given[y] \in Envelope
  BY <1>1, HasEnvelopes DEF StepInv, Numbers
<1>3. /\ Rooted(nodes, root)
      /\ \A y : y \in DOMAIN given <=> \E m \in DOMAIN nodes : nodes[m].leaf /\ y \in ToSet(nodes[m].entries)
  BY TreeIsRooted
<1>4. /\ Under(nodes, n) \subseteq DOMAIN nodes
      /\ \A m \in Under(nodes, n) : m = n \/ nodes[m].height < nodes[n].height
      /\ \A m \in DOMAIN nodes : nodes[m].height \in Nat
  <2>1. \A m \in DOMAIN nodes : nodes[m].height \in Nat
    BY <1>3 DEF Rooted
  <2>2. Under(nodes, n) \subseteq DOMAIN nodes
    BY <1>3, UnderIs
  <2>3. \A m \in Under(nodes, n) : m = n \/ nodes[m].height < nodes[n].height
    BY <1>3, UnderParts
  <2> QED
    BY <2>1, <2>2, <2>3
<1>5. i \in 1..count
  <2>1. PICK m \in Under(nodes, n) : nodes[m].leaf /\ i \in ToSet(nodes[m].entries)
    BY ItemsUnderAre
  <2> QED
    BY <1>2, <1>3, <1>4, <2>1
<1>6. Good(nodes, given, 1..count, {root}, {}, {})
  BY <1>1, <1>2, <1>5, WholeTree
<1>7. \E m \in Under(nodes, n) : nodes[m].env # Exact(nodes, given, m)
  <2> SUFFICES ASSUME \A m \in Under(nodes, n) : nodes[m].env = Exact(nodes, given, m) PROVE FALSE
    OBVIOUS
  <2>1. given[i] \in Envelope /\ nodes[n].env \in Envelope /\ Inside(given[i], nodes[n].env)
    <3> DEFINE items == 1..count
               none == {}
               one == {root}
    <3>1. Good(nodes, given, items, one, none, none) /\ \A y \in items : given[y] \in Envelope
      BY <1>2, <1>6
    <3> HIDE DEF items, none, one
    <3> QED
      BY <1>3, <3>1, ExactReaches
  <2>2. Meets(nodes[n].env, query)
    BY <2>1, MeetsMore
  <2> QED
    BY <2>2
<1>8. PICK m \in Under(nodes, n) : nodes[m].env # Exact(nodes, given, m)
  BY <1>7
<1>9. ~AllExact
  <2>1. HullOf(nodes[m].entries, EnvsFor(nodes[m].leaf)) = Exact(nodes, given, m)
    BY DEF Exact, EnvsOf, EnvsFor
  <2> QED
    BY <1>4, <1>8, <2>1 DEF AllExact
<1>10. ~(nodes[m].height <= 1)
  <2>1. Tight(nodes, given, {})
    BY <1>6 DEF Good
  <2> QED
    BY <1>4, <1>8, <2>1 DEF Tight
<1>11. nodes[n].height > 1
  BY <1>4, <1>10
<1> QED
  BY <1>9, <1>11

\* What has been found, and what is yet to be visited: no item found is under a
\* node yet to be visited, no two of these have a node under both, and an item not
\* found is under one of them or under a node that does not meet the query.
FoundInv ==
  at \in {"search", "stopped"} =>
    row \in Seq(DOMAIN given) /\ IsInjective(row) /\ \A i \in ToSet(row) : Meets(given[i], query)

VisitInv ==
  at = "search" =>
    /\ path \in Seq(DOMAIN nodes) /\ IsInjective(path)
    /\ \A a, b \in ToSet(path) : a # b => Under(nodes, a) \cap Under(nodes, b) = {}
    /\ \A a \in ToSet(path) : ItemsUnder(nodes, a) \cap ToSet(row) = {}
    /\ \A i \in Answers \ ToSet(row) :
         \E n \in DOMAIN nodes : i \in ItemsUnder(nodes, n) /\ (n \in ToSet(path) \/ ~Meets(nodes[n].env, query))

SearchInv == FoundInv /\ VisitInv

\* A search begins with the root.
LEMMA SearchBegins ==
  ASSUME IInv, Search
  PROVE  SearchInv'
<1>1. /\ at = "idle" /\ at' = "search" /\ path' = <<root>> /\ row' = row
      /\ nodes' = nodes /\ root' = root /\ given' = given
  BY DEF Search
<1>2. /\ Rooted(nodes, root)
      /\ \A i : i \in DOMAIN given <=> \E n \in DOMAIN nodes : nodes[n].leaf /\ i \in ToSet(nodes[n].entries)
  BY <1>1, TreeIsRooted
<1>3. root \in DOMAIN nodes /\ Under(nodes, root) = DOMAIN nodes
  <2>1. root \in DOMAIN nodes
    BY <1>2 DEF Rooted
  <2> QED
    BY <1>2, <2>1, AllUnderTop
<1>4. row' \in Seq(DOMAIN given) /\ IsInjective(row') /\ ToSet(row') = {}
  <2> DEFINE X == DOMAIN given
             s == row'
  <2>1. s = <<>>
    BY <1>1 DEF IInv, StepInv
  <2> HIDE DEF X, s
  <2>2. s \in Seq(X) /\ IsInjective(s) /\ ToSet(s) = {}
    BY <2>1, NoneIs
  <2> QED
    BY <2>2 DEF X, s
<1>5. path' \in Seq(DOMAIN nodes) /\ IsInjective(path') /\ ToSet(path') = {root}
  <2> DEFINE X == DOMAIN nodes
             s == path'
  <2>1. s = <<root>> /\ root \in X
    BY <1>1, <1>3
  <2> HIDE DEF X, s
  <2>2. s \in Seq(X) /\ IsInjective(s) /\ ToSet(s) = {root}
    BY <2>1, SingleIs
  <2> QED
    BY <2>2 DEF X, s
<1>6. FoundInv'
  BY <1>1, <1>4 DEF FoundInv
<1>7. \A i \in Answers' : i \in ItemsUnder(nodes, root)
  <2> SUFFICES ASSUME NEW i \in DOMAIN given PROVE i \in ItemsUnder(nodes, root)
    BY <1>1 DEF Answers
  <2>1. PICK n \in DOMAIN nodes : nodes[n].leaf /\ i \in ToSet(nodes[n].entries)
    BY <1>2
  <2> QED
    BY <1>3, <2>1, ItemsUnderAre
<1>8. VisitInv'
  <2>1. \A i \in Answers' \ ToSet(row') : \E n \in DOMAIN nodes' : i \in ItemsUnder(nodes', n) /\ n \in ToSet(path')
    BY <1>1, <1>3, <1>5, <1>7
  <2> QED
    BY <1>1, <1>4, <1>5, <2>1 DEF VisitInv
<1> QED
  BY <1>6, <1>8 DEF SearchInv

\* What holds of the first node to visit.
LEMMA NextToVisit ==
  ASSUME IInv, SearchInv, at = "search", path # <<>>
  PROVE  /\ Rooted(nodes, root) /\ Head(path) \in DOMAIN nodes /\ Head(path) \in ToSet(path)
         /\ \A i : i \in DOMAIN given <=> \E n \in DOMAIN nodes : nodes[n].leaf /\ i \in ToSet(nodes[n].entries)
         /\ Tail(path) \in Seq(DOMAIN nodes) /\ IsInjective(Tail(path)) /\ ToSet(Tail(path)) = ToSet(path) \ {Head(path)}
         /\ nodes[Head(path)].leaf \in BOOLEAN
         /\ nodes[Head(path)].entries \in Seq(Nat) /\ IsInjective(nodes[Head(path)].entries)
<1>1. path \in Seq(DOMAIN nodes) /\ IsInjective(path)
  BY DEF SearchInv, VisitInv
<1>2. /\ Tail(path) \in Seq(DOMAIN nodes) /\ IsInjective(Tail(path)) /\ ToSet(Tail(path)) = ToSet(path) \ {Head(path)}
      /\ Head(path) \in DOMAIN nodes /\ Head(path) \in ToSet(path)
  BY <1>1, TailIs
<1>3. /\ Rooted(nodes, root)
      /\ \A i : i \in DOMAIN given <=> \E n \in DOMAIN nodes : nodes[n].leaf /\ i \in ToSet(nodes[n].entries)
  BY TreeIsRooted
<1>4. nodes[Head(path)].leaf \in BOOLEAN /\ nodes[Head(path)].entries \in Seq(Nat) /\ IsInjective(nodes[Head(path)].entries)
  BY <1>2, <1>3 DEF Rooted
<1> QED
  BY <1>2, <1>3, <1>4

\* The items of a leaf to visit that meet the query are found here first.
LEMMA LeafIsVisited ==
  ASSUME IInv, SearchInv, at = "search", path # <<>>, nodes[Head(path)].leaf
  PROVE  LET t == MeetingItems(Head(path))
         IN  /\ t \in Seq(DOMAIN given) /\ IsInjective(t)
             /\ \A i \in ToSet(t) : i \notin ToSet(row) /\ Meets(given[i], query)
             /\ \A i \in ItemsUnder(nodes, Head(path)) : Meets(given[i], query) => i \in ToSet(t)
             /\ \A a \in ToSet(path) \ {Head(path)} : ItemsUnder(nodes, a) \cap ToSet(t) = {}
<1> DEFINE n == Head(path)
           t == MeetingItems(n)
<1>1. /\ Rooted(nodes, root) /\ n \in DOMAIN nodes /\ n \in ToSet(path)
      /\ \A i : i \in DOMAIN given <=> \E m \in DOMAIN nodes : nodes[m].leaf /\ i \in ToSet(nodes[m].entries)
      /\ nodes[n].entries \in Seq(Nat) /\ IsInjective(nodes[n].entries)
      /\ path \in Seq(DOMAIN nodes)
  BY NextToVisit DEF SearchInv, VisitInv
<1>2. /\ \A a, b \in ToSet(path) : a # b => Under(nodes, a) \cap Under(nodes, b) = {}
      /\ \A a \in ToSet(path) : ItemsUnder(nodes, a) \cap ToSet(row) = {}
      /\ \A a \in ToSet(path) : a \in DOMAIN nodes
  BY <1>1, MembersAre DEF SearchInv, VisitInv
<1> HIDE DEF n, t
<1>3. nodes[n].leaf
  BY DEF n
<1>4. /\ t \in Seq(Nat) /\ IsInjective(t)
      /\ \A i : i \in ToSet(t) <=> i \in ToSet(nodes[n].entries) /\ Meets(given[i], query)
  <2> DEFINE X == Nat
  <2>1. nodes[n].entries \in Seq(X)
    BY <1>1
  <2> HIDE DEF X
  <2>2. /\ t \in Seq(X) /\ IsInjective(t)
        /\ \A i : i \in ToSet(t) <=> i \in ToSet(nodes[n].entries) /\ Meets(given[i], query)
    BY <1>1, <2>1, MeetingIs DEF t
  <2> QED
    BY <2>2 DEF X
<1>5. \A i : i \in ItemsUnder(nodes, n) <=> i \in ToSet(nodes[n].entries)
  <2>1. Under(nodes, n) = {n}
    BY <1>1, <1>3, UnderParts
  <2> QED
    BY <1>3, <2>1, ItemsUnderAre
<1>6. t \in Seq(DOMAIN given)
  <2>1. \A i \in ToSet(t) : i \in DOMAIN given
    BY <1>1, <1>3, <1>4
  <2> QED
    BY <1>4, <2>1, SeqInto
<1>7. ASSUME NEW a \in ToSet(path), a # n, NEW i \in ItemsUnder(nodes, a), i \in ToSet(t) PROVE FALSE
  <2>1. PICK m \in Under(nodes, a) : nodes[m].leaf /\ i \in ToSet(nodes[m].entries)
    BY <1>7, ItemsUnderAre
  <2>2. m \in DOMAIN nodes
    BY <1>1, <1>2, <1>7, <2>1, UnderIs
  <2>3. m = n
    <3>1. nodes[m].leaf = nodes[n].leaf
      <4>1. nodes[m].leaf \in BOOLEAN /\ nodes[n].leaf \in BOOLEAN
        BY <1>1, <2>2 DEF Rooted
      <4> QED
        BY <1>3, <2>1, <4>1
    <3>2. i \in ToSet(nodes[n].entries)
      BY <1>4, <1>7
    <3> QED
      BY <1>1, <2>1, <2>2, <3>1, <3>2 DEF Rooted
  <2>4. n \in Under(nodes, n)
    BY <1>1, UnderIs
  <2> QED
    BY <1>1, <1>2, <1>7, <2>1, <2>3, <2>4
<1>8. \A i \in ToSet(t) : i \notin ToSet(row)
  BY <1>1, <1>2, <1>4, <1>5
<1> QED
  BY <1>4, <1>5, <1>6, <1>7, <1>8 DEF n, t

\* One node further.
LEMMA SearchGoesOn ==
  ASSUME IInv, SearchInv, SearchNode
  PROVE  SearchInv'
<1> DEFINE n == Head(path)
           e == nodes[n].entries
           t == MeetingItems(n)
           todo == ToSet(path)
           rest == Tail(path)
<1>1. /\ at = "search" /\ path # <<>> /\ at' = at /\ nodes' = nodes /\ given' = given /\ query' = query
      /\ ~Meets(nodes[n].env, query) => path' = rest /\ row' = row
      /\ Meets(nodes[n].env, query) /\ nodes[n].leaf => path' = rest /\ row' = row \o t
      /\ Meets(nodes[n].env, query) /\ ~nodes[n].leaf => path' = e \o rest /\ row' = row
  BY DEF SearchNode
<1>2. /\ row \in Seq(DOMAIN given) /\ IsInjective(row) /\ \A i \in ToSet(row) : Meets(given[i], query)
      /\ path \in Seq(DOMAIN nodes) /\ IsInjective(path)
      /\ \A a, b \in todo : a # b => Under(nodes, a) \cap Under(nodes, b) = {}
      /\ \A a \in todo : ItemsUnder(nodes, a) \cap ToSet(row) = {}
      /\ \A i \in Answers \ ToSet(row) :
           \E m \in DOMAIN nodes : i \in ItemsUnder(nodes, m) /\ (m \in todo \/ ~Meets(nodes[m].env, query))
  BY <1>1 DEF SearchInv, FoundInv, VisitInv
<1>3. /\ Rooted(nodes, root) /\ n \in DOMAIN nodes /\ n \in todo
      /\ rest \in Seq(DOMAIN nodes) /\ IsInjective(rest) /\ ToSet(rest) = todo \ {n}
      /\ nodes[n].leaf \in BOOLEAN /\ e \in Seq(Nat) /\ IsInjective(e)
      /\ \A a \in todo : a \in DOMAIN nodes
  BY <1>1, <1>2, NextToVisit, MembersAre
<1>4. Answers' = Answers
  BY <1>1 DEF Answers
<1> HIDE DEF n, e, todo, rest
<1>5. SUFFICES /\ row' \in Seq(DOMAIN given) /\ IsInjective(row') /\ \A i \in ToSet(row') : Meets(given[i], query)
               /\ path' \in Seq(DOMAIN nodes) /\ IsInjective(path')
               /\ \A a, b \in ToSet(path') : a # b => Under(nodes, a) \cap Under(nodes, b) = {}
               /\ \A a \in ToSet(path') : ItemsUnder(nodes, a) \cap ToSet(row') = {}
               /\ \A i \in Answers \ ToSet(row') :
                    \E m \in DOMAIN nodes : i \in ItemsUnder(nodes, m) /\ (m \in ToSet(path') \/ ~Meets(nodes[m].env, query))
  BY <1>1, <1>4 DEF SearchInv, FoundInv, VisitInv
<1>6. CASE ~Meets(nodes[n].env, query)
  <2>1. path' = rest /\ row' = row /\ ToSet(path') = todo \ {n}
    BY <1>1, <1>3, <1>6
  <2>2. \A i \in Answers \ ToSet(row) :
          \E m \in DOMAIN nodes : i \in ItemsUnder(nodes, m) /\ (m \in todo \ {n} \/ ~Meets(nodes[m].env, query))
    BY <1>2, <1>6
  <2> QED
    BY <1>2, <1>3, <2>1, <2>2
<1>7. CASE Meets(nodes[n].env, query) /\ nodes[n].leaf
  <2>1. path' = rest /\ row' = row \o t /\ ToSet(path') = todo \ {n}
    BY <1>1, <1>3, <1>7
  <2>2. /\ t \in Seq(DOMAIN given) /\ IsInjective(t)
        /\ \A i \in ToSet(t) : i \notin ToSet(row) /\ Meets(given[i], query)
        /\ \A i \in ItemsUnder(nodes, n) : Meets(given[i], query) => i \in ToSet(t)
        /\ \A a \in todo \ {n} : ItemsUnder(nodes, a) \cap ToSet(t) = {}
    BY <1>1, <1>7, LeafIsVisited DEF n, todo
  <2> HIDE DEF t
  <2>3. row' \in Seq(DOMAIN given) /\ IsInjective(row') /\ ToSet(row') = ToSet(row) \cup ToSet(t)
    <3> DEFINE X == DOMAIN given
    <3>1. row \in Seq(X) /\ t \in Seq(X) /\ IsInjective(row) /\ IsInjective(t) /\ \A i \in ToSet(t) : i \notin ToSet(row)
      BY <1>2, <2>2
    <3> HIDE DEF X
    <3>2. row \o t \in Seq(X) /\ IsInjective(row \o t) /\ ToSet(row \o t) = ToSet(row) \cup ToSet(t)
      BY <3>1, JoinIs
    <3> QED
      BY <2>1, <3>2 DEF X
  <2>4. \A i \in ToSet(row') : Meets(given[i], query)
    BY <1>2, <2>2, <2>3
  <2>5. \A a \in ToSet(path') : ItemsUnder(nodes, a) \cap ToSet(row') = {}
    BY <1>2, <2>1, <2>2, <2>3
  <2>6. ASSUME NEW i \in Answers \ ToSet(row')
        PROVE  \E m \in DOMAIN nodes : i \in ItemsUnder(nodes, m) /\ (m \in ToSet(path') \/ ~Meets(nodes[m].env, query))
    <3>1. PICK m \in DOMAIN nodes : i \in ItemsUnder(nodes, m) /\ (m \in todo \/ ~Meets(nodes[m].env, query))
      BY <1>2, <2>3, <2>6
    <3>2. Meets(given[i], query)
      BY <2>6 DEF Answers
    <3>3. m # n
      BY <2>2, <2>3, <2>6, <3>1, <3>2
    <3> QED
      BY <2>1, <3>1, <3>3
  <2>7. \A a, b \in ToSet(path') : a # b => Under(nodes, a) \cap Under(nodes, b) = {}
    BY <1>2, <2>1
  <2>8. path' \in Seq(DOMAIN nodes) /\ IsInjective(path')
    BY <1>3, <2>1
  <2> QED
    BY <2>3, <2>4, <2>5, <2>6, <2>7, <2>8
<1>8. CASE Meets(nodes[n].env, query) /\ ~nodes[n].leaf
  <2>1. path' = e \o rest /\ row' = row
    BY <1>1, <1>8
  <2>2. /\ \A c \in ToSet(e) : c \in DOMAIN nodes /\ Under(nodes, c) \subseteq Under(nodes, n) /\ c \in Under(nodes, c)
        /\ \A m \in Under(nodes, n) : m = n \/ \E c \in ToSet(e) : m \in Under(nodes, c)
    <3>1. /\ \A c \in ToSet(e) : c \in DOMAIN nodes /\ Under(nodes, c) \subseteq Under(nodes, n)
          /\ \A m \in Under(nodes, n) : m = n \/ \E c \in ToSet(e) : m \in Under(nodes, c)
      BY <1>3, <1>8, UnderParts DEF e
    <3>2. \A c \in ToSet(e) : c \in Under(nodes, c)
      BY <1>3, <3>1, UnderIs
    <3> QED
      BY <3>1, <3>2
  <2>3. \A c \in ToSet(e) : c \notin todo \ {n}
    BY <1>2, <1>3, <2>2
  <2>4. path' \in Seq(DOMAIN nodes) /\ IsInjective(path') /\ ToSet(path') = ToSet(e) \cup (todo \ {n})
    <3> DEFINE X == DOMAIN nodes
    <3>1. e \in Seq(X)
      BY <1>3, <2>2, SeqInto
    <3>2. rest \in Seq(X) /\ IsInjective(e) /\ IsInjective(rest) /\ \A a \in ToSet(rest) : a \notin ToSet(e)
      BY <1>3, <2>3
    <3> HIDE DEF X
    <3>3. e \o rest \in Seq(X) /\ IsInjective(e \o rest) /\ ToSet(e \o rest) = ToSet(e) \cup ToSet(rest)
      BY <3>1, <3>2, JoinIs
    <3> QED
      BY <1>3, <2>1, <3>3 DEF X
  <2>5. ASSUME NEW a \in ToSet(path'), NEW b \in ToSet(path'), a # b PROVE Under(nodes, a) \cap Under(nodes, b) = {}
    <3>1. CASE a \in todo \ {n} /\ b \in todo \ {n}
      BY <1>2, <2>5, <3>1
    <3>2. CASE a \in ToSet(e) /\ b \in todo \ {n}
      BY <1>2, <1>3, <2>2, <3>2
    <3>3. CASE a \in todo \ {n} /\ b \in ToSet(e)
      BY <1>2, <1>3, <2>2, <3>3
    <3>4. CASE a \in ToSet(e) /\ b \in ToSet(e)
      BY <1>3, <1>8, <2>5, <3>4, ChildrenApart DEF e
    <3> QED
      BY <2>4, <2>5, <3>1, <3>2, <3>3, <3>4
  <2>6. ASSUME NEW i \in ItemsUnder(nodes, n) PROVE \E c \in ToSet(e) : i \in ItemsUnder(nodes, c)
    <3>1. PICK m \in Under(nodes, n) : nodes[m].leaf /\ i \in ToSet(nodes[m].entries)
      BY ItemsUnderAre
    <3>2. PICK c \in ToSet(e) : m \in Under(nodes, c)
      BY <1>8, <2>2, <3>1
    <3> QED
      BY <3>1, <3>2, ItemsUnderAre
  <2>7. ASSUME NEW c \in ToSet(e), NEW i \in ItemsUnder(nodes, c) PROVE i \in ItemsUnder(nodes, n)
    BY <2>2, <2>7, ItemsUnderAre
  <2>8. \A a \in ToSet(path') : ItemsUnder(nodes, a) \cap ToSet(row') = {}
    BY <1>2, <1>3, <2>1, <2>4, <2>7
  <2>9. ASSUME NEW i \in Answers \ ToSet(row')
        PROVE  \E m \in DOMAIN nodes : i \in ItemsUnder(nodes, m) /\ (m \in ToSet(path') \/ ~Meets(nodes[m].env, query))
    <3>1. PICK m \in DOMAIN nodes : i \in ItemsUnder(nodes, m) /\ (m \in todo \/ ~Meets(nodes[m].env, query))
      BY <1>2, <2>1, <2>9
    <3>2. CASE m = n
      <4>1. PICK c \in ToSet(e) : i \in ItemsUnder(nodes, c)
        BY <2>6, <3>1, <3>2
      <4> QED
        BY <2>2, <2>4, <4>1
    <3>3. CASE m # n
      BY <2>4, <3>1, <3>3
    <3> QED
      BY <3>2, <3>3
  <2> QED
    BY <1>2, <2>1, <2>4, <2>5, <2>8, <2>9
<1> QED
  BY <1>3, <1>6, <1>7, <1>8

\* The beginning of a sequence.
LEMMA BeginningIs ==
  ASSUME NEW X, NEW s \in Seq(X), IsInjective(s), NEW last \in DOMAIN s
  PROVE  /\ SubSeq(s, 1, last) \in Seq(X) /\ IsInjective(SubSeq(s, 1, last))
         /\ \A y \in ToSet(SubSeq(s, 1, last)) : y \in ToSet(s)
<1> DEFINE t == SubSeq(s, 1, last)
<1>1. last \in 1..Len(s) /\ Len(s) \in Nat /\ DOMAIN s = 1..Len(s)
  OBVIOUS
<1>2. t \in Seq(X) /\ Len(t) = last /\ \A k \in 1..last : t[k] = s[k]
  BY <1>1
<1>3. DOMAIN t = 1..last
  BY <1>1, <1>2
<1> HIDE DEF t
<1>4. \A k \in DOMAIN t : k \in DOMAIN s /\ t[k] = s[k]
  BY <1>1, <1>2, <1>3
<1>5. IsInjective(t)
  <2> SUFFICES ASSUME NEW j \in DOMAIN t, NEW k \in DOMAIN t, t[j] = t[k] PROVE j = k
    BY DEF IsInjective
  <2> QED
    BY <1>4 DEF IsInjective
<1>6. \A y \in ToSet(t) : y \in ToSet(s)
  BY <1>4 DEF ToSet
<1> QED
  BY <1>2, <1>5, <1>6 DEF t

\* A search that is stopped has found nothing wrong.
LEMMA SearchIsStopped ==
  ASSUME IInv, SearchInv, SearchStops
  PROVE  SearchInv'
<1> DEFINE t == MeetingItems(Head(path))
<1>1. /\ at = "search" /\ path # <<>> /\ nodes[Head(path)].leaf
      /\ at' = "stopped" /\ given' = given /\ query' = query
  BY DEF SearchStops
<1>2. PICK last \in DOMAIN t : row' = row \o SubSeq(t, 1, last)
  BY DEF SearchStops
<1>3. /\ t \in Seq(DOMAIN given) /\ IsInjective(t)
      /\ \A i \in ToSet(t) : i \notin ToSet(row) /\ Meets(given[i], query)
  BY <1>1, LeafIsVisited
<1>4. row \in Seq(DOMAIN given) /\ IsInjective(row) /\ \A i \in ToSet(row) : Meets(given[i], query)
  BY <1>1 DEF SearchInv, FoundInv
<1> DEFINE X == DOMAIN given
           u == SubSeq(t, 1, last)
<1> HIDE DEF t, X
<1>5. u \in Seq(X) /\ IsInjective(u) /\ \A y \in ToSet(u) : y \in ToSet(t)
  BY <1>3, BeginningIs DEF X
<1> HIDE DEF u
<1>6. row' \in Seq(X) /\ IsInjective(row') /\ ToSet(row') = ToSet(row) \cup ToSet(u)
  <2>1. row' = row \o u /\ row \in Seq(X) /\ \A y \in ToSet(u) : y \notin ToSet(row)
    BY <1>2, <1>3, <1>4, <1>5 DEF X, u
  <2> QED
    BY <1>4, <1>5, <2>1, JoinIs
<1>7. \A i \in ToSet(row') : Meets(given[i], query)
  BY <1>3, <1>4, <1>5, <1>6
<1> QED
  BY <1>1, <1>6, <1>7 DEF X, SearchInv, FoundInv, VisitInv

LEMMA SearchInvariant == Spec => []SearchInv
<1>1. Init => SearchInv
  BY DEF Init, SearchInv, FoundInv, VisitInv
<1>2. ASSUME IInv, SearchInv, [Next]_vars PROVE SearchInv'
  <2>1. ASSUME at' \notin {"search", "stopped"} PROVE SearchInv'
    BY <2>1 DEF SearchInv, FoundInv, VisitInv
  <2>2. CASE UNCHANGED vars
    BY <1>2, <2>2 DEF vars, SearchInv, FoundInv, VisitInv, Answers
  <2>3. CASE Insert \/ BulkSmall \/ ChooseChild \/ BulkRebuild \/ CollectNode \/ AppendBatch
    <3>1. at' \notin {"search", "stopped"}
      BY <2>3 DEF Insert, BulkSmall, ChooseChild, BulkRebuild, CollectNode, AppendBatch
    <3> QED
      BY <2>1, <3>1
  <2>4. CASE AddItem \/ SplitRoot \/ SplitInner
    <3>1. at \in {"choose", "split"} /\ at' \in {at, "split", "choose", "idle"}
      BY <2>4, Zenon DEF AddItem, SplitRoot, SplitInner, ItemDone
    <3> QED
      BY <2>1, <3>1
  <2>5. CASE PackLeaves \/ PackInternal
    <3>1. at' \in {"idle", "pack"}
      BY <2>5, Zenon DEF PackLeaves, PackInternal, Pack
    <3> QED
      BY <2>1, <3>1
  <2>6. CASE Search
    BY <1>2, <2>6, SearchBegins
  <2>7. CASE SearchNode
    BY <1>2, <2>7, SearchGoesOn
  <2>8. CASE SearchStops
    BY <1>2, <2>8, SearchIsStopped
  <2>9. CASE SearchReturns
    BY <2>1, <2>9 DEF SearchReturns
  <2> QED
    BY <1>2, <2>2, <2>3, <2>4, <2>5, <2>6, <2>7, <2>8, <2>9 DEF Next
<1> QED
  BY <1>1, <1>2, Inductive, PTL DEF Spec

\* What is missed is under a narrow node.
LEMMA SearchHolds ==
  ASSUME IInv, QueryInv, SearchInv
  PROVE  SearchIsRight
<1>1. ASSUME at \in {"search", "stopped"} PROVE IsInjective(row) /\ ToSet(row) \subseteq Answers
  <2>1. row \in Seq(DOMAIN given) /\ IsInjective(row) /\ \A i \in ToSet(row) : Meets(given[i], query)
    BY <1>1 DEF SearchInv, FoundInv
  <2> QED
    BY <2>1, MembersAre DEF Answers
<1>2. ASSUME at = "search", path = <<>>, NEW i \in Answers \ ToSet(row)
      PROVE  /\ ~AllExact
             /\ \E n \in DOMAIN nodes : nodes[n].height > 1 /\ ~Meets(nodes[n].env, query) /\ i \in ItemsUnder(nodes, n)
  <2>1. ToSet(path) = {}
    <3> DEFINE s == path
               X == Nat
    <3>1. s = <<>>
      BY <1>2
    <3> HIDE DEF s, X
    <3>2. ToSet(s) = {}
      BY <3>1, NoneIs
    <3> QED
      BY <3>2 DEF s
  <2>2. PICK n \in DOMAIN nodes : i \in ItemsUnder(nodes, n) /\ ~Meets(nodes[n].env, query)
    BY <1>2, <2>1 DEF SearchInv, VisitInv
  <2>3. query \in Envelope \cup {Empty}
    BY <1>2, InputAssumption DEF QueryInv, Empty
  <2>4. Meets(given[i], query)
    BY <1>2 DEF Answers
  <2>5. ~AllExact /\ nodes[n].height > 1
    BY <1>2, <2>2, <2>3, <2>4, NarrowIs
  <2> QED
    BY <2>2, <2>5
<1> QED
  BY <1>1, <1>2 DEF SearchIsRight

\* Whatever was inserted, bulk loaded or rebuilt before, and whenever its
\* callback stops it, Search with searchNode gives only items that meet the
\* query and none twice; and one that is not stopped misses only what lies
\* under a node higher than the parents of leaves whose envelope
\* splitAndPropagate left too narrow, so nothing where all are exact.
THEOREM SearchesAreRight == Spec => []SearchIsRight
<1>1. IInv /\ QueryInv /\ SearchInv => SearchIsRight
  BY SearchHolds
<1> QED
  BY <1>1, Inductive, QueryIs, SearchInvariant, PTL
=============================================================================
