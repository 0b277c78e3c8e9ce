-------------------------- MODULE OverlayNestProofs --------------------------
(***************************************************************************)
(* Theorems about the rings of an overlay and the polygons made of them,   *)
(* for any grid and any operands on it.                                    *)
(***************************************************************************)
EXTENDS OverlayGridProofs

-----------------------------------------------------------------------------
(***************************************************************************)
(* Odd numbers of things.                                                  *)
(***************************************************************************)
Odd(S) == Cardinality(S) % 2 = 1

\* One more is odd when the others are not.
LEMMA OddAdd ==
  ASSUME NEW S, IsFiniteSet(S), NEW a, a \notin S
  PROVE  Odd(S \cup {a}) <=> ~Odd(S)
<1>1. Cardinality(S \cup {a}) = Cardinality(S) + 1 /\ Cardinality(S) \in Nat
  BY FS_AddElement, FS_CardinalityType
<1> QED
  BY <1>1 DEF Odd

\* None is even, and one is odd.
LEMMA OddFirst == ~Odd({}) /\ \A a : Odd({a})
<1>1. Cardinality({}) = 0 /\ \A a : Cardinality({a}) = 1
  BY FS_EmptySet, FS_Singleton
<1>2. 0 % 2 = 0 /\ 1 % 2 = 1
  OBVIOUS
<1> QED
  BY <1>1, <1>2 DEF Odd

\* Two heaps together are odd when one of them is.
LEMMA OddUnion ==
  ASSUME NEW S, NEW T, IsFiniteSet(S), IsFiniteSet(T), S \cap T = {}
  PROVE  IsFiniteSet(S \cup T) /\ (Odd(S \cup T) <=> ~(Odd(S) <=> Odd(T)))
<1>1. /\ IsFiniteSet(S \cup T)
      /\ Cardinality(S \cup T) = Cardinality(S) + Cardinality(T) - Cardinality(S \cap T)
      /\ Cardinality(S \cap T) = 0
  BY FS_Union, FS_EmptySet
<1>2. Cardinality(S) \in Nat /\ Cardinality(T) \in Nat
  BY FS_CardinalityType
<1>3. PICK m \in Nat, n \in Nat : m = Cardinality(S) /\ n = Cardinality(T) /\ Cardinality(S \cup T) = m + n
  BY <1>1, <1>2
<1>4. (m + n) % 2 = 1 <=> ((m % 2 = 1) # (n % 2 = 1))
  OBVIOUS
<1> QED
  BY <1>1, <1>3, <1>4 DEF Odd

-----------------------------------------------------------------------------
(***************************************************************************)
(* What is inside a closed walk.                                           *)
(***************************************************************************)

\* The edge above the point <<x, y>>, and the one to the right of it, in
\* either direction.
Upright(E, x, y) == <<x, y, 2>> \in E \/ <<x, y + 1, 0>> \in E
Flat(E, x, y) == <<x, y, 1>> \in E \/ <<x + 1, y, 3>> \in E

\* No edge is walked in both directions.
OneWay(E) == E \subseteq Lattice /\ \A e \in E : Twin(e) \notin E

\* The half-edges and the cells beside them, by directions.
LEMMA South ==
  \A x, y \in Int : /\ Target(<<x, y, 0>>) = <<x, y - 1>>
                    /\ Twin(<<x, y, 0>>) = <<x, y - 1, 2>>
                    /\ LeftCell(<<x, y, 0>>) = <<x, y - 1>>
<1> SUFFICES ASSUME NEW x \in Int, NEW y \in Int
             PROVE  /\ Target(<<x, y, 0>>) = <<x, y - 1>>
                    /\ Twin(<<x, y, 0>>) = <<x, y - 1, 2>>
                    /\ LeftCell(<<x, y, 0>>) = <<x, y - 1>>
  OBVIOUS
<1>1. Target(<<x, y, 0>>) = <<x, y - 1>>
  BY DEF Target, Dx, Dy
<1>2. Twin(<<x, y, 0>>) = <<x, y - 1, 2>>
  BY <1>1, Quarters DEF Twin
<1>3. LeftCell(<<x, y, 0>>) = <<x, y - 1>>
  BY DEF LeftCell
<1> QED
  BY <1>1, <1>2, <1>3

\* East.
LEMMA East ==
  \A x, y \in Int : /\ Target(<<x, y, 1>>) = <<x + 1, y>>
                    /\ Twin(<<x, y, 1>>) = <<x + 1, y, 3>>
                    /\ LeftCell(<<x, y, 1>>) = <<x, y>>
<1> SUFFICES ASSUME NEW x \in Int, NEW y \in Int
             PROVE  /\ Target(<<x, y, 1>>) = <<x + 1, y>>
                    /\ Twin(<<x, y, 1>>) = <<x + 1, y, 3>>
                    /\ LeftCell(<<x, y, 1>>) = <<x, y>>
  OBVIOUS
<1>1. Target(<<x, y, 1>>) = <<x + 1, y>>
  BY DEF Target, Dx, Dy
<1>2. Twin(<<x, y, 1>>) = <<x + 1, y, 3>>
  BY <1>1, Quarters DEF Twin
<1>3. LeftCell(<<x, y, 1>>) = <<x, y>>
  BY DEF LeftCell
<1> QED
  BY <1>1, <1>2, <1>3

\* North.
LEMMA North ==
  \A x, y \in Int : /\ Target(<<x, y, 2>>) = <<x, y + 1>>
                    /\ Twin(<<x, y, 2>>) = <<x, y + 1, 0>>
                    /\ LeftCell(<<x, y, 2>>) = <<x - 1, y>>
<1> SUFFICES ASSUME NEW x \in Int, NEW y \in Int
             PROVE  /\ Target(<<x, y, 2>>) = <<x, y + 1>>
                    /\ Twin(<<x, y, 2>>) = <<x, y + 1, 0>>
                    /\ LeftCell(<<x, y, 2>>) = <<x - 1, y>>
  OBVIOUS
<1>1. Target(<<x, y, 2>>) = <<x, y + 1>>
  BY DEF Target, Dx, Dy
<1>2. Twin(<<x, y, 2>>) = <<x, y + 1, 0>>
  BY <1>1, Quarters DEF Twin
<1>3. LeftCell(<<x, y, 2>>) = <<x - 1, y>>
  BY DEF LeftCell
<1> QED
  BY <1>1, <1>2, <1>3

\* West.
LEMMA West ==
  \A x, y \in Int : /\ Target(<<x, y, 3>>) = <<x - 1, y>>
                    /\ Twin(<<x, y, 3>>) = <<x - 1, y, 1>>
                    /\ LeftCell(<<x, y, 3>>) = <<x - 1, y - 1>>
<1> SUFFICES ASSUME NEW x \in Int, NEW y \in Int
             PROVE  /\ Target(<<x, y, 3>>) = <<x - 1, y>>
                    /\ Twin(<<x, y, 3>>) = <<x - 1, y, 1>>
                    /\ LeftCell(<<x, y, 3>>) = <<x - 1, y - 1>>
  OBVIOUS
<1>1. Target(<<x, y, 3>>) = <<x - 1, y>>
  BY DEF Target, Dx, Dy
<1>2. Twin(<<x, y, 3>>) = <<x - 1, y, 1>>
  BY <1>1, Quarters DEF Twin
<1>3. LeftCell(<<x, y, 3>>) = <<x - 1, y - 1>>
  BY DEF LeftCell
<1> QED
  BY <1>1, <1>2, <1>3

\* Each half-edge is one of them.
LEMMA WhichWay ==
  ASSUME NEW e \in Lattice
  PROVE  /\ e[1] \in Int /\ e[2] \in Int
         /\ e \in {<<e[1], e[2], 0>>, <<e[1], e[2], 1>>, <<e[1], e[2], 2>>, <<e[1], e[2], 3>>}
<1>1. e = <<e[1], e[2], e[3]>> /\ e[1] \in 0..Width /\ e[2] \in 0..Height /\ e[3] \in {0, 1, 2, 3}
  BY OnGrid
<1> QED
  BY <1>1, Grid

\* The edges that a ray from the middle of a cell to the right crosses.
Crossed(E, x, y) == {e \in E : e[1] > x /\ (e = <<e[1], y, 2>> \/ e = <<e[1], y + 1, 0>>)}

\* A cell is inside a walk when that ray crosses an odd number of edges.
LEMMA InsideIs ==
  ASSUME NEW E \in SUBSET Lattice, NEW x \in Int, NEW y \in Int
  PROVE  IsFiniteSet(Crossed(E, x, y)) /\ (CellInside(<<x, y>>, E) <=> Odd(Crossed(E, x, y)))
<1> DEFINE crosses(e) == /\ (e[2] * 2 > 2 * y + 1) # (Target(e)[2] * 2 > 2 * y + 1)
                         /\ 2 * x + 1 < e[1] * 2
<1>1. ASSUME NEW e \in E
      PROVE  crosses(e) <=> e \in Crossed(E, x, y)
  <2>1. e[1] \in Int /\ e[2] \in Int
        /\ e \in {<<e[1], e[2], 0>>, <<e[1], e[2], 1>>, <<e[1], e[2], 2>>, <<e[1], e[2], 3>>}
    BY WhichWay
  <2>2. PICK u \in Int, v \in Int : u = e[1] /\ v = e[2]
    BY <2>1
  <2>3. 2 * x + 1 < u * 2 <=> u > x
    OBVIOUS
  <2>4. CASE e = <<u, v, 0>>
    <3>1. Target(e)[2] = v - 1
      BY <2>4, South
    <3>2. (v * 2 > 2 * y + 1) # ((v - 1) * 2 > 2 * y + 1) <=> v = y + 1
      OBVIOUS
    <3> QED
      BY <2>2, <2>3, <2>4, <3>1, <3>2 DEF Crossed
  <2>5. CASE e = <<u, v, 2>>
    <3>1. Target(e)[2] = v + 1
      BY <2>5, North
    <3>2. (v * 2 > 2 * y + 1) # ((v + 1) * 2 > 2 * y + 1) <=> v = y
      OBVIOUS
    <3> QED
      BY <2>2, <2>3, <2>5, <3>1, <3>2 DEF Crossed
  <2>6. CASE e = <<u, v, 1>> \/ e = <<u, v, 3>>
    <3>1. Target(e)[2] = v
      BY <2>6, East, West
    <3> QED
      BY <2>2, <2>6, <3>1 DEF Crossed
  <2> QED
    BY <2>1, <2>2, <2>4, <2>5, <2>6
<1>2. {e \in E : crosses(e)} = Crossed(E, x, y)
  BY <1>1 DEF Crossed
<1>3. <<x, y>>[1] = x /\ <<x, y>>[2] = y
  OBVIOUS
<1>4. CellInside(<<x, y>>, E) <=> Cardinality({e \in E : crosses(e)}) % 2 = 1
  BY <1>3 DEF CellInside, PointInside
<1>5. IsFiniteSet(Crossed(E, x, y))
  <2>1. Crossed(E, x, y) \subseteq Lattice
    BY DEF Crossed
  <2> QED
    BY <2>1, GridIsFinite, FS_Subset
<1> QED
  BY <1>2, <1>4, <1>5 DEF Odd

\* Right of the grid nothing is inside.
LEMMA OutsideRight ==
  ASSUME NEW E \in SUBSET Lattice, NEW x \in Int, NEW y \in Int, x >= Width
  PROVE  ~CellInside(<<x, y>>, E)
<1>1. \A e \in E : e[1] \in Int /\ e[1] <= Width
  BY OnGrid, Grid
<1>2. Crossed(E, x, y) = {}
  BY <1>1, Grid DEF Crossed
<1> QED
  BY <1>2, InsideIs, OddFirst

\* Of the two directions of an edge a walk takes one or none.
LEMMA OddPair ==
  ASSUME NEW E, OneWay(E), NEW a, NEW b, Twin(a) = b
  PROVE  IsFiniteSet(E \cap {a, b}) /\ (Odd(E \cap {a, b}) <=> a \in E \/ b \in E)
<1> DEFINE both == E \cap {a, b}
<1>1. ~(a \in E /\ b \in E)
  BY DEF OneWay
<1>2. both = {} \/ \E c : both = {c}
  BY <1>1
<1>3. both # {} <=> a \in E \/ b \in E
  OBVIOUS
<1>4. IsFiniteSet({}) /\ \A c : IsFiniteSet({c})
  BY FS_EmptySet, FS_Singleton
<1> HIDE DEF both
<1>5. IsFiniteSet(both) /\ (Odd(both) <=> both # {})
  BY <1>2, <1>4, OddFirst
<1> QED
  BY <1>3, <1>5 DEF both

\* A cell and the one to its right are both inside or both outside, but for an
\* edge between them.
LEMMA AcrossUpright ==
  ASSUME NEW E, OneWay(E), NEW x \in Int, NEW y \in Int
  PROVE  CellInside(<<x, y>>, E) <=> ~(CellInside(<<x + 1, y>>, E) <=> Upright(E, x + 1, y))
<1> DEFINE far == Crossed(E, x + 1, y)
           near == E \cap {<<x + 1, y, 2>>, <<x + 1, y + 1, 0>>}
<1>0. E \in SUBSET Lattice
  BY DEF OneWay
<1>1. Crossed(E, x, y) = far \cup near /\ far \cap near = {}
  <2>1. \A e \in E : e[1] \in Int
    BY <1>0, WhichWay
  <2>2. \A e \in E : e[1] > x <=> e[1] > x + 1 \/ e[1] = x + 1
    BY <2>1
  <2>3. \A e \in near : e[1] = x + 1 /\ ~(x + 1 > x + 1) /\ x + 1 > x
    OBVIOUS
  <2>4. \A e \in far : e \in E /\ e[1] > x + 1
    BY DEF Crossed
  <2>5. far \cap near = {}
    BY <2>3, <2>4
  <2>6. \A e : e \in Crossed(E, x, y) <=> e \in E /\ e[1] > x /\ (e = <<e[1], y, 2>> \/ e = <<e[1], y + 1, 0>>)
    BY DEF Crossed
  <2>7. \A e : e \in far <=> e \in E /\ e[1] > x + 1 /\ (e = <<e[1], y, 2>> \/ e = <<e[1], y + 1, 0>>)
    BY DEF Crossed
  <2>8. \A e : e \in near <=> e \in E /\ e[1] = x + 1 /\ (e = <<e[1], y, 2>> \/ e = <<e[1], y + 1, 0>>)
    BY DEF Crossed
  <2> HIDE DEF far, near
  <2> QED
    BY <2>2, <2>5, <2>6, <2>7, <2>8
<1>2. IsFiniteSet(near) /\ (Odd(near) <=> Upright(E, x + 1, y))
  <2>1. Twin(<<x + 1, y, 2>>) = <<x + 1, y + 1, 0>>
    BY North, x + 1 \in Int
  <2> QED
    BY <2>1, OddPair DEF Upright
<1>3. IsFiniteSet(far) /\ (CellInside(<<x + 1, y>>, E) <=> Odd(far))
  BY <1>0, InsideIs
<1>4. CellInside(<<x, y>>, E) <=> Odd(Crossed(E, x, y))
  BY <1>0, InsideIs
<1> HIDE DEF far, near
<1> QED
  BY <1>1, <1>2, <1>3, <1>4, OddUnion

\* A ring: a walk along the edges of the grid that ends where it began.
IsRound(r) ==
  /\ r \in Seq(Lattice) /\ Len(r) > 0
  /\ \A a, b \in DOMAIN r : r[a] = r[b] => a = b
  /\ \A a \in DOMAIN r : Target(r[a]) = Origin(r[After(r, a)])

\* The places of a ring in their circle.
LEMMA AfterIs ==
  ASSUME NEW r, Len(r) \in Nat, Len(r) > 0
  PROVE  /\ \A a \in 1..Len(r) : After(r, a) \in 1..Len(r)
         /\ \A a, b \in 1..Len(r) : After(r, a) = After(r, b) => a = b
         /\ \A a \in 1..Len(r) : a # Len(r) => After(r, a) = a + 1
         /\ After(r, Len(r)) = 1
<1>1. PICK n \in Nat : n = Len(r)
  OBVIOUS
<1>2. \A a : After(r, a) = IF a = n THEN 1 ELSE a + 1
  BY <1>1 DEF After
<1> QED
  BY <1>1, <1>2

\* It leaves every point as often as it enters it.
LEMMA AsManyInAsOut ==
  ASSUME NEW r, IsRound(r), NEW v
  PROVE  LET ins == {e \in ToSet(r) : Target(e) = v}
             outs == {e \in ToSet(r) : Origin(e) = v}
         IN  IsFiniteSet(ins) /\ IsFiniteSet(outs) /\ Cardinality(ins) = Cardinality(outs)
<1> DEFINE L == Len(r)
           ins == {e \in ToSet(r) : Target(e) = v}
           outs == {e \in ToSet(r) : Origin(e) = v}
           at(e) == CHOOSE a \in 1..L : r[a] = e
           f == [e \in ins |-> r[After(r, at(e))]]
<1>1. L \in Nat /\ L > 0 /\ DOMAIN r = 1..L
  BY DEF IsRound
<1>2. ToSet(r) = {r[a] : a \in 1..L} /\ ToSet(r) \subseteq Lattice
  BY <1>1 DEF ToSet, IsRound
<1>3. \A e \in ToSet(r) : at(e) \in 1..L /\ r[at(e)] = e
  BY <1>2
<1>4. \A a \in 1..L : After(r, a) \in 1..L
  BY <1>1, AfterIs
<1>5. \A a, b \in 1..L : After(r, a) = After(r, b) => a = b
  BY <1>1, AfterIs
<1>6. \A b \in 1..L : \E a \in 1..L : After(r, a) = b
  <2> SUFFICES ASSUME NEW b \in 1..L PROVE \E a \in 1..L : After(r, a) = b
    OBVIOUS
  <2> DEFINE a == IF b = 1 THEN L ELSE b - 1
  <2>1. a \in 1..L /\ After(r, a) = b
    BY <1>1, AfterIs
  <2> QED
    BY <2>1
<1>7. IsFiniteSet(ins) /\ IsFiniteSet(outs)
  BY <1>2, GridIsFinite, FS_Subset
<1> HIDE DEF at
<1>8. f \in [ins -> outs]
  <2> SUFFICES ASSUME NEW e \in ins PROVE r[After(r, at(e))] \in outs
    OBVIOUS
  <2>1. at(e) \in 1..L /\ r[at(e)] = e /\ Target(e) = v
    BY <1>3
  <2>2. Target(r[at(e)]) = Origin(r[After(r, at(e))])
    BY <1>1, <2>1 DEF IsRound
  <2> QED
    BY <1>2, <1>4, <2>1, <2>2
<1>9. \A e, g \in ins : f[e] = f[g] => e = g
  <2> SUFFICES ASSUME NEW e \in ins, NEW g \in ins, r[After(r, at(e))] = r[After(r, at(g))] PROVE e = g
    OBVIOUS
  <2>1. at(e) \in 1..L /\ r[at(e)] = e /\ at(g) \in 1..L /\ r[at(g)] = g
    BY <1>3
  <2>2. After(r, at(e)) = After(r, at(g))
    BY <1>1, <1>4, <2>1 DEF IsRound
  <2> QED
    BY <1>5, <2>1, <2>2
<1>10. \A g \in outs : \E e \in ins : f[e] = g
  <2> SUFFICES ASSUME NEW g \in outs PROVE \E e \in ins : f[e] = g
    OBVIOUS
  <2>1. PICK b \in 1..L : r[b] = g
    BY <1>2
  <2>2. PICK a \in 1..L : After(r, a) = b
    BY <1>6
  <2>3. Target(r[a]) = v
    BY <1>1, <2>1, <2>2 DEF IsRound
  <2>4. r[a] \in ins
    BY <1>2, <2>3
  <2>5. at(r[a]) = a
    BY <1>1, <1>3, <2>4 DEF IsRound
  <2> QED
    BY <2>1, <2>2, <2>4, <2>5
<1>11. f \in Bijection(ins, outs)
  <2> HIDE DEF f, ins, outs
  <2>1. DOMAIN f = ins
    BY <1>8
  <2> QED
    BY <1>8, <1>9, <1>10, <2>1 DEF Bijection, Injection, Surjection, IsInjective
<1>12. ExistsBijection(ins, outs)
  BY <1>11 DEF ExistsBijection
<1> HIDE DEF ins, outs, f
<1>13. Cardinality(ins) = Cardinality(outs)
  BY <1>7, <1>12, FS_Bijection
<1> QED
  BY <1>7, <1>13 DEF ins, outs

\* So the number of its edges at a point is even.
LEMMA EvenAtPoint ==
  ASSUME NEW r, IsRound(r), OneWay(ToSet(r)), NEW x \in Int, NEW y \in Int
  PROVE  LET E == ToSet(r)
         IN  (Upright(E, x, y) <=> Upright(E, x, y - 1)) <=> (Flat(E, x, y) <=> Flat(E, x - 1, y))
<1> DEFINE E == ToSet(r)
           ins == {e \in E : Target(e) = <<x, y>>}
           outs == {e \in E : Origin(e) = <<x, y>>}
           up == E \cap {<<x, y, 2>>, <<x, y + 1, 0>>}
           down == E \cap {<<x, y - 1, 2>>, <<x, y, 0>>}
           right == E \cap {<<x, y, 1>>, <<x + 1, y, 3>>}
           left == E \cap {<<x - 1, y, 1>>, <<x, y, 3>>}
<1>1. IsFiniteSet(ins) /\ IsFiniteSet(outs) /\ Cardinality(ins) = Cardinality(outs)
  BY AsManyInAsOut
<1>2. E \subseteq Lattice
  BY DEF OneWay
<1>3. ins \cap outs = {}
  BY <1>2, ThereAndBack
<1>4. ~Odd(ins \cup outs)
  BY <1>1, <1>3, OddUnion DEF Odd
<1>5. /\ IsFiniteSet(up) /\ (Odd(up) <=> Upright(E, x, y))
      /\ IsFiniteSet(down) /\ (Odd(down) <=> Upright(E, x, y - 1))
      /\ IsFiniteSet(right) /\ (Odd(right) <=> Flat(E, x, y))
      /\ IsFiniteSet(left) /\ (Odd(left) <=> Flat(E, x - 1, y))
  <2>1. /\ Twin(<<x, y, 2>>) = <<x, y + 1, 0>>
        /\ Twin(<<x, y, 1>>) = <<x + 1, y, 3>>
    BY North, East
  <2>2. y - 1 \in Int /\ x - 1 \in Int /\ (y - 1) + 1 = y /\ (x - 1) + 1 = x
    OBVIOUS
  <2>3. /\ Twin(<<x, y - 1, 2>>) = <<x, y, 0>>
        /\ Twin(<<x - 1, y, 1>>) = <<x, y, 3>>
    BY <2>2, North, East
  <2> QED
    BY <2>1, <2>2, <2>3, OddPair DEF Upright, Flat
<1>6. ins \cup outs = (up \cup down) \cup (right \cup left)
  <2>1. ASSUME NEW e \in E
        PROVE  e \in ins \cup outs <=> e \in (up \cup down) \cup (right \cup left)
    <3>1. PICK u \in Int, w \in Int : u = e[1] /\ w = e[2] /\ e \in {<<u, w, 0>>, <<u, w, 1>>, <<u, w, 2>>, <<u, w, 3>>}
      BY <1>2, WhichWay
    <3>2. Origin(e) = <<u, w>>
      BY <3>1 DEF Origin
    <3>3. CASE e = <<u, w, 0>>
      <4>1. Target(e) = <<u, w - 1>>
        BY <3>3, South
      <4> QED
        BY <3>2, <3>3, <4>1
    <3>4. CASE e = <<u, w, 1>>
      <4>1. Target(e) = <<u + 1, w>>
        BY <3>4, East
      <4> QED
        BY <3>2, <3>4, <4>1
    <3>5. CASE e = <<u, w, 2>>
      <4>1. Target(e) = <<u, w + 1>>
        BY <3>5, North
      <4> QED
        BY <3>2, <3>5, <4>1
    <3>6. CASE e = <<u, w, 3>>
      <4>1. Target(e) = <<u - 1, w>>
        BY <3>6, West
      <4> QED
        BY <3>2, <3>6, <4>1
    <3> QED
      BY <3>1, <3>3, <3>4, <3>5, <3>6
  <2> QED
    BY <2>1
<1>7. up \cap down = {} /\ right \cap left = {} /\ (up \cup down) \cap (right \cup left) = {}
  BY y + 1 # y - 1 /\ y + 1 # y /\ y - 1 # y /\ x - 1 # x /\ x + 1 # x - 1
<1> HIDE DEF up, down, left, right, ins, outs, E
<1>8. /\ IsFiniteSet(up \cup down) /\ (Odd(up \cup down) <=> ~(Odd(up) <=> Odd(down)))
      /\ IsFiniteSet(right \cup left) /\ (Odd(right \cup left) <=> ~(Odd(right) <=> Odd(left)))
  BY <1>5, <1>7, OddUnion
<1>9. Odd((up \cup down) \cup (right \cup left)) <=> ~(Odd(up \cup down) <=> Odd(right \cup left))
  BY <1>7, <1>8, OddUnion
<1>10. (Odd(up) <=> Odd(down)) <=> (Odd(right) <=> Odd(left))
  BY <1>4, <1>6, <1>8, <1>9
<1> QED
  BY <1>5, <1>10 DEF E

\* A cell and the one below it are both inside a ring or both outside, but for
\* an edge between them.  To the right of the grid that is so, and from there it
\* holds from point to point, as the number of edges at each of them is even.
LEMMA AcrossFlat ==
  ASSUME NEW r, IsRound(r), OneWay(ToSet(r)), NEW x \in Int, NEW y \in Int
  PROVE  CellInside(<<x, y>>, ToSet(r)) <=> ~(CellInside(<<x, y - 1>>, ToSet(r)) <=> Flat(ToSet(r), x, y))
<1> DEFINE E == ToSet(r)
           here(u) == CellInside(<<u, y>>, E)
           below(u) == CellInside(<<u, y - 1>>, E)
           Holds(u) == here(u) <=> ~(below(u) <=> Flat(E, u, y))
<1>0. E \in SUBSET Lattice /\ y - 1 \in Int /\ Width \in Int
  BY Grid DEF OneWay
<1>1. ASSUME NEW u \in Int, u >= Width
      PROVE  Holds(u)
  <2>1. ~here(u) /\ ~below(u)
    BY <1>0, <1>1, OutsideRight
  <2>2. <<u, y, 1>> \notin E
    <3> SUFFICES ASSUME <<u, y, 1>> \in Lattice PROVE FALSE
      BY <1>0
    <3>1. Target(<<u, y, 1>>) = <<u + 1, y>>
      BY East
    <3>2. Target(<<u, y, 1>>)[1] \in 0..Width
      BY OnGrid
    <3> QED
      BY <1>0, <1>1, <3>1, <3>2
  <2>3. <<u + 1, y, 3>> \notin E
    <3> SUFFICES ASSUME <<u + 1, y, 3>> \in Lattice PROVE FALSE
      BY <1>0
    <3>1. <<u + 1, y, 3>>[1] \in 0..Width
      BY OnGrid
    <3> QED
      BY <1>0, <1>1, <3>1
  <2> QED
    BY <2>1, <2>2, <2>3 DEF Flat
<1>2. ASSUME NEW u \in Int, Holds(u + 1)
      PROVE  Holds(u)
  <2>1. u + 1 \in Int
    OBVIOUS
  <2>2. here(u) <=> ~(here(u + 1) <=> Upright(E, u + 1, y))
    BY AcrossUpright
  <2>3. below(u) <=> ~(below(u + 1) <=> Upright(E, u + 1, y - 1))
    BY <1>0, AcrossUpright
  <2>4. (u + 1) - 1 = u
    OBVIOUS
  <2>5. (Upright(E, u + 1, y) <=> Upright(E, u + 1, y - 1)) <=> (Flat(E, u + 1, y) <=> Flat(E, u, y))
    BY <2>1, <2>4, EvenAtPoint
  <2> HIDE DEF here, below, E
  <2> QED
    BY <1>2, <2>2, <2>3, <2>5
<1>3. \A n \in Nat : Holds(Width - n)
  <2> DEFINE S == {n \in Nat : ~Holds(Width - n)}
  <2> SUFFICES ASSUME S # {} PROVE FALSE
    OBVIOUS
  <2> HIDE DEF Holds
  <2>1. PICK n \in S : \A j \in S : n <= j
    BY LeastNumber
  <2>2. n # 0
    BY <1>0, <1>1
  <2>3. n - 1 \in Nat /\ n - 1 \notin S
    BY <2>1, <2>2
  <2>4. Width - n \in Int /\ Width - (n - 1) = (Width - n) + 1
    BY <1>0
  <2>5. Holds((Width - n) + 1)
    BY <2>3, <2>4
  <2> QED
    BY <1>2, <2>4, <2>5
<1>4. Holds(x)
  <2>1. CASE x >= Width
    BY <1>1, <2>1
  <2>2. CASE ~(x >= Width)
    <3>1. Width - x \in Nat /\ Width - (Width - x) = x
      BY <1>0, <2>2
    <3> HIDE DEF Holds
    <3> QED
      BY <1>3, <3>1
  <2> QED
    BY <2>1, <2>2
<1> QED
  BY <1>4

\* The two sides of an edge of a ring are inside and outside, those of any
\* other edge both the one or both the other.
LEMMA AcrossEdge ==
  ASSUME NEW r, IsRound(r), OneWay(ToSet(r)), NEW e \in Lattice
  PROVE  (CellInside(LeftCell(e), ToSet(r)) <=> CellInside(LeftCell(Twin(e)), ToSet(r)))
           <=> ~(e \in ToSet(r) \/ Twin(e) \in ToSet(r))
<1> DEFINE E == ToSet(r)
           in(c) == CellInside(c, E)
<1>1. PICK x \in Int, y \in Int : e \in {<<x, y, 0>>, <<x, y, 1>>, <<x, y, 2>>, <<x, y, 3>>}
  BY WhichWay
<1>2. /\ x - 1 \in Int /\ y - 1 \in Int /\ x + 1 \in Int /\ y + 1 \in Int
      /\ (x - 1) + 1 = x /\ (x + 1) - 1 = x /\ (y - 1) + 1 = y /\ (y + 1) - 1 = y
  OBVIOUS
<1>3. \A u, v \in Int : in(<<u, v>>) <=> ~(in(<<u + 1, v>>) <=> Upright(E, u + 1, v))
  BY AcrossUpright
<1>4. \A u, v \in Int : in(<<u, v>>) <=> ~(in(<<u, v - 1>>) <=> Flat(E, u, v))
  BY AcrossFlat
<1> HIDE DEF in, E
<1>5. CASE e = <<x, y, 0>>
  <2>1. Twin(e) = <<x, y - 1, 2>> /\ LeftCell(e) = <<x, y - 1>>
    BY <1>5, South
  <2>2. LeftCell(Twin(e)) = <<x - 1, y - 1>>
    BY <1>2, <2>1, North
  <2>3. Upright(E, x, y - 1) <=> (e \in E \/ Twin(e) \in E)
    BY <1>2, <1>5, <2>1 DEF Upright
  <2>4. in(<<x - 1, y - 1>>) <=> ~(in(<<x, y - 1>>) <=> Upright(E, x, y - 1))
    BY <1>2, <1>3
  <2> QED
    BY <2>1, <2>2, <2>3, <2>4 DEF in, E
<1>6. CASE e = <<x, y, 1>>
  <2>1. Twin(e) = <<x + 1, y, 3>> /\ LeftCell(e) = <<x, y>>
    BY <1>6, East
  <2>2. LeftCell(Twin(e)) = <<x, y - 1>>
    BY <1>2, <2>1, West
  <2>3. Flat(E, x, y) <=> (e \in E \/ Twin(e) \in E)
    BY <1>2, <1>6, <2>1 DEF Flat
  <2>4. in(<<x, y>>) <=> ~(in(<<x, y - 1>>) <=> Flat(E, x, y))
    BY <1>4
  <2> QED
    BY <2>1, <2>2, <2>3, <2>4 DEF in, E
<1>7. CASE e = <<x, y, 2>>
  <2>1. Twin(e) = <<x, y + 1, 0>> /\ LeftCell(e) = <<x - 1, y>>
    BY <1>7, North
  <2>2. LeftCell(Twin(e)) = <<x, y>>
    BY <1>2, <2>1, South
  <2>3. Upright(E, x, y) <=> (e \in E \/ Twin(e) \in E)
    BY <1>2, <1>7, <2>1 DEF Upright
  <2>4. in(<<x - 1, y>>) <=> ~(in(<<x, y>>) <=> Upright(E, x, y))
    BY <1>2, <1>3
  <2> QED
    BY <2>1, <2>2, <2>3, <2>4 DEF in, E
<1>8. CASE e = <<x, y, 3>>
  <2>1. Twin(e) = <<x - 1, y, 1>> /\ LeftCell(e) = <<x - 1, y - 1>>
    BY <1>8, West
  <2>2. LeftCell(Twin(e)) = <<x - 1, y>>
    BY <1>2, <2>1, East
  <2>3. Flat(E, x - 1, y) <=> (e \in E \/ Twin(e) \in E)
    BY <1>2, <1>8, <2>1 DEF Flat
  <2>4. in(<<x - 1, y>>) <=> ~(in(<<x - 1, y - 1>>) <=> Flat(E, x - 1, y))
    BY <1>2, <1>4
  <2> QED
    BY <2>1, <2>2, <2>3, <2>4 DEF in, E
<1> QED
  BY <1>1, <1>5, <1>6, <1>7, <1>8

-----------------------------------------------------------------------------
(***************************************************************************)
(* Rings that border a set of cells: how two of them lie.                  *)
(***************************************************************************)

\* Walked with cells of R on the left and others on the right.
Borders(E, R) == \A e \in E : e \in Lattice /\ LeftCell(e) \in R /\ LeftCell(Twin(e)) \notin R

\* Such a walk has no edge in both directions.
LEMMA BorderIsOneWay ==
  ASSUME NEW E, NEW R, Borders(E, R)
  PROVE  OneWay(E)
  BY DEF Borders, OneWay

\* Two rings that border the same cells and have no edge in common.
TwoRings(r, s, R) ==
  /\ R \subseteq Cell
  /\ IsRound(r) /\ Borders(ToSet(r), R)
  /\ IsRound(s) /\ Borders(ToSet(s), R)
  /\ ToSet(r) \cap ToSet(s) = {}

\* An edge of the one is not between the inside and the outside of the other.
LEMMA EdgeInOrOut ==
  ASSUME NEW r, NEW s, NEW R, TwoRings(r, s, R), NEW e \in ToSet(r)
  PROVE  CellInside(LeftCell(e), ToSet(s)) <=> CellInside(LeftCell(Twin(e)), ToSet(s))
<1>1. e \in Lattice /\ LeftCell(e) \in R /\ LeftCell(Twin(e)) \notin R
  BY DEF TwoRings, Borders
<1>2. e \notin ToSet(s) /\ Twin(e) \notin ToSet(s)
  BY <1>1 DEF TwoRings, Borders
<1>3. IsRound(s) /\ OneWay(ToSet(s))
  BY BorderIsOneWay DEF TwoRings
<1> QED
  BY <1>1, <1>2, <1>3, AcrossEdge

\* Nor does the one cross the other at a point: the turn from one of its edges
\* to the next passes no edge of the other ring on one side or the other.
LEMMA TurnInOrOut ==
  ASSUME NEW r, NEW s, NEW R, TwoRings(r, s, R), NEW e \in ToSet(r), NEW f \in ToSet(r), Target(e) = Origin(f)
  PROVE  CellInside(LeftCell(e), ToSet(s)) <=> CellInside(LeftCell(f), ToSet(s))
<1> DEFINE v == Target(e)
           back == (e[3] + 2) % 4
           d == f[3]
           in(c) == CellInside(c, ToSet(s))
<1>1. /\ e \in Lattice /\ LeftCell(e) \in R /\ LeftCell(Twin(e)) \notin R
      /\ f \in Lattice /\ LeftCell(f) \in R /\ LeftCell(Twin(f)) \notin R
  BY DEF TwoRings, Borders
<1>2. /\ in(LeftCell(e)) <=> in(LeftCell(Twin(e)))
      /\ in(LeftCell(f)) <=> in(LeftCell(Twin(f)))
  BY EdgeInOrOut
<1>3. v \in Points /\ e[3] \in {0, 1, 2, 3} /\ d \in {0, 1, 2, 3} /\ f = <<v[1], v[2], d>>
  <2>1. f = <<f[1], f[2], f[3]>> /\ Origin(f) = <<f[1], f[2]>>
    BY <1>1, OnGrid DEF Origin
  <2> QED
    BY <1>1, <2>1, OnGrid
<1>4. LeftCell(e) = Sector(v, (back + 3) % 4) /\ LeftCell(Twin(e)) = Sector(v, back)
  BY <1>1, LeftIsSector
<1>5. LeftCell(f) = Sector(v, d) /\ LeftCell(Twin(f)) = Sector(v, (d + 3) % 4)
  <2>1. Sector(v, d) \in Cell
    BY <1>1, <1>3 DEF TwoRings, Sector
  <2> QED
    BY <1>3, <2>1, BetweenSectors
<1>6. back \in {0, 1, 2, 3}
  BY <1>3, Quarters
<1> HIDE DEF v, back, d
<1>7. CASE d = (back + 3) % 4
  BY <1>4, <1>5, <1>7
<1>8. CASE (d + 3) % 4 = back
  BY <1>2, <1>4, <1>5, <1>8 DEF in
<1>9. CASE d = back
  BY <1>1, <1>4, <1>5, <1>9
<1>10. CASE (d + 1) % 4 = (back + 3) % 4 /\ (((back + 3) % 4) + 3) % 4 = d
  <2> DEFINE k == (back + 3) % 4
             g == <<v[1], v[2], k>>
  <2>1. k \in {0, 1, 2, 3}
    BY <1>6, Quarters
  <2>2. Sector(v, k) \in Cell
    BY <1>1, <1>4 DEF TwoRings
  <2>3. g \in Lattice /\ LeftCell(g) = Sector(v, k) /\ LeftCell(Twin(g)) = Sector(v, (k + 3) % 4)
    BY <1>3, <2>1, <2>2, BetweenSectors
  <2>4. LeftCell(g) = LeftCell(e) /\ LeftCell(Twin(g)) = LeftCell(f)
    BY <1>4, <1>5, <1>10, <2>3
  <2>5. Twin(Twin(g)) = g
    BY <2>3, TwinOfTwin
  <2> HIDE DEF g
  <2>6. g \notin ToSet(s) /\ Twin(g) \notin ToSet(s)
    BY <1>1, <2>4, <2>5 DEF TwoRings, Borders
  <2>7. IsRound(s) /\ OneWay(ToSet(s))
    BY BorderIsOneWay DEF TwoRings
  <2> QED
    BY <2>3, <2>4, <2>6, <2>7, AcrossEdge
<1>11. \/ d = (back + 3) % 4 \/ (d + 3) % 4 = back \/ d = back
       \/ (d + 1) % 4 = (back + 3) % 4 /\ (((back + 3) % 4) + 3) % 4 = d
  BY <1>3, <1>6, Quarters DEF d
<1> QED
  BY <1>7, <1>8, <1>9, <1>10, <1>11

\* So a ring is inside another one as a whole, or outside as a whole.
LEMMA WholeInOrOut ==
  ASSUME NEW r, NEW s, NEW R, TwoRings(r, s, R), NEW e \in ToSet(r)
  PROVE  /\ CellInside(LeftCell(e), ToSet(s)) <=> CellInside(LeftCell(r[1]), ToSet(s))
         /\ CellInside(LeftCell(Twin(e)), ToSet(s)) <=> CellInside(LeftCell(r[1]), ToSet(s))
<1> DEFINE L == Len(r)
           in(a) == CellInside(LeftCell(r[a]), ToSet(s))
           S == {n \in Nat : n + 1 \in 1..L /\ ~(in(n + 1) <=> in(1))}
<1>1. L \in Nat /\ L > 0 /\ DOMAIN r = 1..L
  BY DEF TwoRings, IsRound
<1>2. \A a \in 1..L : r[a] \in ToSet(r)
  BY <1>1 DEF ToSet
<1>3. S = {}
  <2> SUFFICES ASSUME S # {} PROVE FALSE
    OBVIOUS
  <2> HIDE DEF in, L
  <2>1. PICK n \in S : \A j \in S : n <= j
    BY LeastNumber
  <2>2. n # 0 /\ n \in Nat /\ n + 1 \in 1..L
    BY <2>1
  <2>3. n - 1 \in Nat /\ (n - 1) + 1 = n /\ n \in 1..L /\ n # L
    BY <1>1, <2>2
  <2>4. in(n) <=> in(1)
    BY <2>1, <2>3
  <2>5. After(r, n) = n + 1
    BY <1>1, <2>3, AfterIs DEF L
  <2>6. Target(r[n]) = Origin(r[n + 1])
    BY <1>1, <2>3, <2>5 DEF TwoRings, IsRound, L
  <2>7. in(n) <=> in(n + 1)
    BY <1>2, <2>2, <2>3, <2>6, TurnInOrOut DEF in
  <2> QED
    BY <2>1, <2>4, <2>7
<1>4. PICK a \in 1..L : e = r[a]
  BY <1>1 DEF ToSet
<1>5. a - 1 \in Nat /\ (a - 1) + 1 = a
  BY <1>4
<1> HIDE DEF in
<1>6. in(a) <=> in(1)
  BY <1>3, <1>4, <1>5
<1> QED
  BY <1>4, <1>6, EdgeInOrOut DEF in

\* A set of cells without a border is empty if it has an end.
LEMMA NoBorder ==
  ASSUME NEW D,
         \A x, y \in Int : <<x, y>> \in D <=> <<x + 1, y>> \in D,
         \A x, y \in Int : x >= Width => <<x, y>> \notin D,
         NEW x \in Int, NEW y \in Int
  PROVE  <<x, y>> \notin D
<1> DEFINE S == {n \in Nat : <<Width - n, y>> \in D}
<1>0. Width \in Int
  BY Grid
<1>1. S = {}
  <2> SUFFICES ASSUME S # {} PROVE FALSE
    OBVIOUS
  <2>1. PICK n \in S : \A j \in S : n <= j
    BY LeastNumber
  <2>2. n # 0 /\ n \in Nat
    BY <1>0, <2>1
  <2>3. n - 1 \in Nat /\ Width - n \in Int /\ (Width - n) + 1 = Width - (n - 1)
    BY <1>0, <2>2
  <2>4. <<Width - (n - 1), y>> \in D
    BY <2>1, <2>3
  <2> QED
    BY <2>1, <2>3, <2>4
<1>2. CASE ~(x >= Width)
  <2>1. Width - x \in Nat /\ Width - (Width - x) = x
    BY <1>0, <1>2
  <2> QED
    BY <1>1, <2>1
<1> QED
  BY <1>2

\* Ring s has ring r inside it.
Holds(s, r) == CellInside(LeftCell(r[1]), ToSet(s))

\* Where one goes from the inside of r to its outside, to the right, all is
\* inside s or all is outside.
LEMMA AlongBorder ==
  ASSUME NEW r, NEW s, NEW R, TwoRings(r, s, R), NEW x \in Int, NEW y \in Int,
         ~(CellInside(<<x, y>>, ToSet(r)) <=> CellInside(<<x + 1, y>>, ToSet(r)))
  PROVE  /\ CellInside(<<x, y>>, ToSet(s)) <=> Holds(s, r)
         /\ CellInside(<<x + 1, y>>, ToSet(s)) <=> Holds(s, r)
<1> DEFINE g == <<x + 1, y, 2>>
           h == <<x + 1, y + 1, 0>>
<1>1. x + 1 \in Int /\ y + 1 \in Int /\ (x + 1) - 1 = x /\ (y + 1) - 1 = y
  OBVIOUS
<1>2. g \in ToSet(r) \/ h \in ToSet(r)
  BY AcrossUpright, BorderIsOneWay DEF TwoRings, Upright
<1>3. LeftCell(g) = <<x, y>> /\ Twin(g) = h /\ LeftCell(h) = <<x + 1, y>> /\ Twin(h) = g
  BY <1>1, North, South
<1> HIDE DEF g, h
<1> QED
  BY <1>2, <1>3, WholeInOrOut DEF Holds

\* Which of two rings comes first does not matter.
LEMMA OtherWay ==
  ASSUME NEW r, NEW s, NEW R, TwoRings(r, s, R)
  PROVE  TwoRings(s, r, R)
  BY DEF TwoRings

\* Two rings are one within the other or apart, just as their first edges say.
LEMMA NestedOrApart ==
  ASSUME NEW r, NEW s, NEW R, TwoRings(r, s, R)
  PROVE  /\ ~(Holds(r, s) /\ Holds(s, r))
         /\ Holds(s, r) => \A x, y \in Int : CellInside(<<x, y>>, ToSet(r)) => CellInside(<<x, y>>, ToSet(s))
         /\ ~Holds(r, s) /\ ~Holds(s, r) =>
              \A x, y \in Int : ~(CellInside(<<x, y>>, ToSet(r)) /\ CellInside(<<x, y>>, ToSet(s)))
<1> DEFINE in(x, y) == CellInside(<<x, y>>, ToSet(r))
           on(x, y) == CellInside(<<x, y>>, ToSet(s))
<1>1. \A x, y \in Int : ~(in(x, y) <=> in(x + 1, y)) => (on(x, y) <=> Holds(s, r)) /\ (on(x + 1, y) <=> Holds(s, r))
  BY AlongBorder
<1>2. \A x, y \in Int : ~(on(x, y) <=> on(x + 1, y)) => (in(x, y) <=> Holds(r, s)) /\ (in(x + 1, y) <=> Holds(r, s))
  BY OtherWay, AlongBorder
<1>3. \A x, y \in Int : x >= Width => ~in(x, y) /\ ~on(x, y)
  BY OutsideRight, BorderIsOneWay DEF TwoRings, OneWay
<1>4. LeftCell(s[1]) \in Int \X Int
  <2>1. s[1] \in ToSet(s)
    BY DEF TwoRings, IsRound, ToSet
  <2>2. LeftCell(s[1]) \in Cell
    BY <2>1 DEF TwoRings, Borders
  <2> QED
    BY <2>2, Grid DEF Cell
<1>5. PICK u \in Int, v \in Int : LeftCell(s[1]) = <<u, v>>
  BY <1>4
<1> HIDE DEF in, on
<1>6. ~(Holds(r, s) /\ Holds(s, r))
  <2> SUFFICES ASSUME Holds(r, s), Holds(s, r) PROVE FALSE
    OBVIOUS
  <2> DEFINE D == {c \in Int \X Int : in(c[1], c[2]) \/ on(c[1], c[2])}
  <2>1. \A x, y \in Int : <<x, y>> \in D <=> in(x, y) \/ on(x, y)
    OBVIOUS
  <2> HIDE DEF D
  <2>2. \A x, y \in Int : <<x, y>> \in D <=> <<x + 1, y>> \in D
    BY <1>1, <1>2, <2>1, \A x \in Int : x + 1 \in Int
  <2>3. \A x, y \in Int : x >= Width => <<x, y>> \notin D
    BY <1>3, <2>1
  <2>4. ~in(u, v)
    BY <2>1, <2>2, <2>3, NoBorder
  <2> QED
    BY <1>5, <2>4 DEF Holds, in
<1>7. ASSUME Holds(s, r)
      PROVE  \A x, y \in Int : in(x, y) => on(x, y)
  <2> DEFINE D == {c \in Int \X Int : in(c[1], c[2]) /\ ~on(c[1], c[2])}
  <2>1. \A x, y \in Int : <<x, y>> \in D <=> in(x, y) /\ ~on(x, y)
    OBVIOUS
  <2> HIDE DEF D
  <2>2. \A x, y \in Int : <<x, y>> \in D <=> <<x + 1, y>> \in D
    BY <1>1, <1>2, <1>6, <1>7, <2>1, \A x \in Int : x + 1 \in Int
  <2>3. \A x, y \in Int : x >= Width => <<x, y>> \notin D
    BY <1>3, <2>1
  <2> QED
    BY <2>1, <2>2, <2>3, NoBorder
<1>8. ASSUME ~Holds(r, s), ~Holds(s, r)
      PROVE  \A x, y \in Int : ~(in(x, y) /\ on(x, y))
  <2> DEFINE D == {c \in Int \X Int : in(c[1], c[2]) /\ on(c[1], c[2])}
  <2>1. \A x, y \in Int : <<x, y>> \in D <=> in(x, y) /\ on(x, y)
    OBVIOUS
  <2> HIDE DEF D
  <2>2. \A x, y \in Int : <<x, y>> \in D <=> <<x + 1, y>> \in D
    BY <1>1, <1>2, <1>8, <2>1, \A x \in Int : x + 1 \in Int
  <2>3. \A x, y \in Int : x >= Width => <<x, y>> \notin D
    BY <1>3, <2>1
  <2> QED
    BY <2>1, <2>2, <2>3, NoBorder
<1> QED
  BY <1>6, <1>7, <1>8 DEF in, on

-----------------------------------------------------------------------------
(***************************************************************************)
(* Any number of such rings: how they are nested.                          *)
(***************************************************************************)

\* The cell <<x, y>> lies inside ring i.
Within(x, y, i) == CellInside(<<x, y>>, ToSet(rings[i]))

\* The rings border the cells of R and have no edge in common.
RingsApart(R) == /\ rings \in Seq(Seq(Lattice))
                 /\ \A i, j \in DOMAIN rings : i # j => TwoRings(rings[i], rings[j], R)
                 /\ \A i \in DOMAIN rings : IsRound(rings[i]) /\ Borders(ToSet(rings[i]), R) /\ R \subseteq Cell

\* A ring has a first edge.
LEMMA FirstInRing ==
  ASSUME NEW r, IsRound(r)
  PROVE  r[1] \in ToSet(r)
  BY DEF IsRound, ToSet

\* The sample of a ring beside its first edge, left or right of it, says
\* whether another ring has it inside.
LEMMA EnclosesIs ==
  ASSUME NEW R, RingsApart(R), NEW i \in DOMAIN rings, NEW j \in DOMAIN rings
  PROVE  Encloses(i, j) <=> i # j /\ Holds(rings[i], rings[j])
<1>1. CASE i # j
  <2>1. TwoRings(rings[j], rings[i], R) /\ rings[j][1] \in ToSet(rings[j])
    BY <1>1, FirstInRing DEF RingsApart
  <2>2. RepresentativeCell(rings[j]) \in {LeftCell(rings[j][1]), LeftCell(Twin(rings[j][1]))}
    BY DEF RepresentativeCell
  <2>3. CellInside(RepresentativeCell(rings[j]), ToSet(rings[i])) <=> Holds(rings[i], rings[j])
    BY <2>1, <2>2, EdgeInOrOut DEF Holds
  <2> QED
    BY <1>1, <2>3 DEF Encloses
<1>2. CASE i = j
  BY <1>2 DEF Encloses
<1> QED
  BY <1>1, <1>2

\* The cells beside an edge have whole numbers.
LEMMA CellsOfEdge ==
  ASSUME NEW e \in Lattice
  PROVE  LeftCell(e) \in Int \X Int /\ LeftCell(Twin(e)) \in Int \X Int
<1>1. \A f \in Lattice : LeftCell(f) \in Int \X Int
  <2> SUFFICES ASSUME NEW f \in Lattice PROVE LeftCell(f) \in Int \X Int
    OBVIOUS
  <2>1. PICK x \in Int, y \in Int : f \in {<<x, y, 0>>, <<x, y, 1>>, <<x, y, 2>>, <<x, y, 3>>}
    BY WhichWay
  <2>2. LeftCell(f) \in {<<x, y>>, <<x - 1, y>>, <<x, y - 1>>, <<x - 1, y - 1>>}
    BY <2>1, South, East, North, West
  <2> QED
    BY <2>2
<1> QED
  BY <1>1, TwinOfTwin

\* Each ring has a cell inside.
LEMMA SomethingInside ==
  ASSUME NEW R, RingsApart(R), NEW i \in DOMAIN rings
  PROVE  \E x, y \in Int : Within(x, y, i)
<1> DEFINE e == rings[i][1]
<1>1. e \in ToSet(rings[i]) /\ IsRound(rings[i]) /\ Borders(ToSet(rings[i]), R)
  BY FirstInRing DEF RingsApart
<1>2. e \in Lattice /\ OneWay(ToSet(rings[i]))
  BY <1>1, BorderIsOneWay DEF Borders
<1>3. CellInside(LeftCell(e), ToSet(rings[i])) \/ CellInside(LeftCell(Twin(e)), ToSet(rings[i]))
  BY <1>1, <1>2, AcrossEdge
<1>4. LeftCell(e) \in Int \X Int /\ LeftCell(Twin(e)) \in Int \X Int
  BY <1>2, CellsOfEdge
<1> QED
  BY <1>3, <1>4 DEF Within

\* Rings lie in one another like boxes.
LEMMA Boxes ==
  ASSUME NEW R, RingsApart(R)
  PROVE  /\ \A i, j \in DOMAIN rings : ~(Encloses(i, j) /\ Encloses(j, i))
         /\ \A i, j \in DOMAIN rings : Encloses(i, j) => \A x, y \in Int : Within(x, y, j) => Within(x, y, i)
         /\ \A i, j \in DOMAIN rings : \A x, y \in Int :
              i # j /\ Within(x, y, i) /\ Within(x, y, j) => Encloses(i, j) \/ Encloses(j, i)
         /\ \A i, j, k \in DOMAIN rings : Encloses(i, j) /\ Encloses(j, k) => Encloses(i, k)
<1>1. \A i, j \in DOMAIN rings : Encloses(i, j) <=> i # j /\ Holds(rings[i], rings[j])
  BY EnclosesIs
<1>2. \A i, j \in DOMAIN rings : ~(Encloses(i, j) /\ Encloses(j, i))
  BY <1>1, NestedOrApart DEF RingsApart
<1>3. ASSUME NEW i \in DOMAIN rings, NEW j \in DOMAIN rings, Encloses(i, j), NEW x \in Int, NEW y \in Int, Within(x, y, j)
      PROVE  Within(x, y, i)
  <2>1. Holds(rings[i], rings[j]) /\ TwoRings(rings[j], rings[i], R)
    BY <1>1, <1>3 DEF RingsApart
  <2> QED
    BY <1>3, <2>1, NestedOrApart DEF Within
<1>4. ASSUME NEW i \in DOMAIN rings, NEW j \in DOMAIN rings, NEW x \in Int, NEW y \in Int,
             i # j, Within(x, y, i), Within(x, y, j)
      PROVE  Encloses(i, j) \/ Encloses(j, i)
  <2>1. TwoRings(rings[i], rings[j], R)
    BY <1>4 DEF RingsApart
  <2> QED
    BY <1>1, <1>4, <2>1, NestedOrApart DEF Within
<1>5. ASSUME NEW i \in DOMAIN rings, NEW j \in DOMAIN rings, NEW k \in DOMAIN rings, Encloses(i, j), Encloses(j, k)
      PROVE  Encloses(i, k)
  <2>1. PICK x \in Int, y \in Int : Within(x, y, k)
    BY SomethingInside
  <2>2. Within(x, y, j) /\ Within(x, y, i)
    BY <1>3, <1>5, <2>1
  <2>3. i # k
    BY <1>2, <1>5
  <2>4. ~Encloses(k, i)
    <3> SUFFICES ASSUME Encloses(k, i) PROVE FALSE
      OBVIOUS
    <3>1. Holds(rings[i], rings[j]) /\ Holds(rings[k], rings[i]) /\ i # j /\ i # k /\ j # k
      BY <1>1, <1>5
    <3>2. PICK u \in Int, v \in Int : Within(u, v, i)
      BY SomethingInside
    <3>3. \A a, b \in Int : Within(a, b, i) <=> Within(a, b, k)
      BY <1>3, <1>5
    <3>4. \A a, b \in Int : Within(a, b, i) <=> Within(a, b, j)
      BY <1>3, <1>5, <3>3
    <3> DEFINE e == rings[j][1]
    <3>5. e \in ToSet(rings[j]) /\ IsRound(rings[j]) /\ Borders(ToSet(rings[j]), R) /\ TwoRings(rings[j], rings[i], R)
      BY <3>1, FirstInRing DEF RingsApart
    <3>6. e \in Lattice /\ OneWay(ToSet(rings[j]))
      BY <3>5, BorderIsOneWay DEF Borders
    <3>7. ~(CellInside(LeftCell(e), ToSet(rings[j])) <=> CellInside(LeftCell(Twin(e)), ToSet(rings[j])))
      BY <3>5, <3>6, AcrossEdge
    <3>8. CellInside(LeftCell(e), ToSet(rings[i])) /\ CellInside(LeftCell(Twin(e)), ToSet(rings[i]))
      BY <3>1, <3>5, EdgeInOrOut DEF Holds
    <3>9. LeftCell(e) \in Int \X Int /\ LeftCell(Twin(e)) \in Int \X Int
      BY <3>6, CellsOfEdge
    <3> HIDE DEF e
    <3> QED
      BY <3>4, <3>7, <3>8, <3>9 DEF Within
  <2> QED
    BY <1>4, <2>1, <2>2, <2>3, <2>4
<1> QED
  BY <1>2, <1>3, <1>4, <1>5

-----------------------------------------------------------------------------
(***************************************************************************)
(* Shells and holes.                                                       *)
(***************************************************************************)

\* The rings around ring j, and those around a cell.
Around(j) == {i \in DOMAIN rings : Encloses(i, j)}
At(x, y) == {i \in DOMAIN rings : Within(x, y, i)}

\* Depths are numbers, and a ring is deeper than those around it.
LEMMA DeeperInside ==
  ASSUME NEW R, RingsApart(R)
  PROVE  /\ IsFiniteSet(DOMAIN rings)
         /\ \A j \in DOMAIN rings : Depth(j) \in Nat /\ Depth(j) <= Cardinality(DOMAIN rings)
         /\ \A i, j \in DOMAIN rings : Encloses(i, j) => Depth(i) < Depth(j)
<1>1. IsFiniteSet(DOMAIN rings)
  <2>1. Len(rings) \in Nat /\ DOMAIN rings = 1..Len(rings)
    BY DEF RingsApart
  <2> QED
    BY <2>1, FS_Interval
<1>2. \A j : Around(j) \subseteq DOMAIN rings /\ Depth(j) = Cardinality(Around(j))
  BY DEF Around, Depth
<1>3. \A j : IsFiniteSet(Around(j)) /\ Depth(j) \in Nat /\ Depth(j) <= Cardinality(DOMAIN rings)
  BY <1>1, <1>2, FS_Subset, FS_CardinalityType
<1>4. ASSUME NEW i \in DOMAIN rings, NEW j \in DOMAIN rings, Encloses(i, j)
      PROVE  Depth(i) < Depth(j)
  <2>1. i \notin Around(i) /\ IsFiniteSet(Around(i))
    BY <1>3 DEF Around, Encloses
  <2>2. Around(i) \cup {i} \subseteq Around(j)
    BY <1>4, Boxes DEF Around
  <2>3. IsFiniteSet(Around(i) \cup {i}) /\ Cardinality(Around(i) \cup {i}) = Depth(i) + 1
    BY <1>2, <2>1, FS_AddElement
  <2>4. Depth(i) + 1 <= Depth(j)
    BY <1>2, <1>3, <2>2, <2>3, FS_Subset
  <2> QED
    BY <1>3, <2>4
<1> QED
  BY <1>1, <1>3, <1>4

\* Some ring of any has the least depth, and some the greatest.
LEMMA ExtremeDepths ==
  ASSUME NEW R, RingsApart(R), NEW S \in SUBSET DOMAIN rings, S # {}
  PROVE  /\ \E m \in S : \A i \in S : Depth(m) <= Depth(i)
         /\ \E m \in S : \A i \in S : Depth(i) <= Depth(m)
<1> DEFINE N == Cardinality(DOMAIN rings)
           low == {Depth(i) : i \in S}
           high == {N - Depth(i) : i \in S}
<1>1. N \in Nat /\ \A i \in S : Depth(i) \in Nat /\ N - Depth(i) \in Nat
  <2>1. N \in Nat
    BY DeeperInside, FS_CardinalityType
  <2>2. \A i \in S : Depth(i) \in Nat /\ Depth(i) <= N
    BY DeeperInside
  <2> QED
    BY <2>1, <2>2
<1>2. \E m \in S : \A i \in S : Depth(m) <= Depth(i)
  <2>1. low \in SUBSET Nat /\ low # {}
    BY <1>1
  <2>2. PICK d \in low : \A j \in low : d <= j
    BY <2>1, LeastNumber
  <2>3. PICK m \in S : d = Depth(m)
    OBVIOUS
  <2> QED
    BY <2>2, <2>3
<1>3. \E m \in S : \A i \in S : Depth(i) <= Depth(m)
  <2> HIDE DEF N
  <2>1. high \in SUBSET Nat /\ high # {}
    BY <1>1
  <2>2. PICK d \in high : \A j \in high : d <= j
    BY <2>1, LeastNumber
  <2>3. PICK m \in S : d = N - Depth(m)
    OBVIOUS
  <2>4. \A i \in S : N - Depth(m) <= N - Depth(i)
    BY <2>2, <2>3
  <2> QED
    BY <1>1, <2>3, <2>4
<1> QED
  BY <1>2, <1>3

\* Among the rings around a place the deepest is inside all others, and has one
\* fewer around it than the place has.
LEMMA Innermost ==
  ASSUME NEW R, RingsApart(R), NEW x \in Int, NEW y \in Int, At(x, y) # {}
  PROVE  \E m \in At(x, y) : /\ \A i \in At(x, y) : i # m => Encloses(i, m)
                             /\ Cardinality(At(x, y)) = Depth(m) + 1
<1>1. At(x, y) \subseteq DOMAIN rings /\ IsFiniteSet(At(x, y))
  BY DeeperInside, FS_Subset DEF At
<1>2. PICK m \in At(x, y) : \A i \in At(x, y) : Depth(i) <= Depth(m)
  BY <1>1, ExtremeDepths
<1>3. ASSUME NEW i \in At(x, y), i # m
      PROVE  Encloses(i, m)
  <2>1. Encloses(i, m) \/ Encloses(m, i)
    BY <1>1, <1>3, Boxes DEF At
  <2>2. ~Encloses(m, i)
    <3> SUFFICES ASSUME Encloses(m, i) PROVE FALSE
      OBVIOUS
    <3>1. Depth(m) < Depth(i) /\ Depth(i) <= Depth(m) /\ Depth(m) \in Nat /\ Depth(i) \in Nat
      BY <1>1, <1>2, <1>3, DeeperInside
    <3> QED
      BY <3>1
  <2> QED
    BY <2>1, <2>2
<1>4. Around(m) = At(x, y) \ {m}
  <2>1. \A i \in Around(m) : i \in At(x, y)
    BY <1>1, Boxes DEF Around, At
  <2>2. m \notin Around(m)
    BY DEF Around, Encloses
  <2> QED
    BY <1>1, <1>3, <2>1, <2>2 DEF Around
<1>5. Depth(m) = Cardinality(At(x, y)) - 1 /\ Cardinality(At(x, y)) \in Nat
  <2>1. Depth(m) = Cardinality(Around(m))
    BY DEF Depth, Around
  <2> QED
    BY <1>1, <1>4, <2>1, FS_RemoveElement, FS_CardinalityType
<1> QED
  BY <1>3, <1>5

\* If a ring around a place is not the deepest, there is one in it that is just
\* one deeper.
LEMMA NextDeeper ==
  ASSUME NEW R, RingsApart(R), NEW x \in Int, NEW y \in Int,
         NEW i \in At(x, y), NEW j \in At(x, y), Encloses(i, j)
  PROVE  \E k \in At(x, y) : Encloses(i, k) /\ Depth(k) = Depth(i) + 1
<1> DEFINE S == {k \in At(x, y) : Encloses(i, k)}
<1>1. At(x, y) \subseteq DOMAIN rings
  BY DEF At
<1>2. PICK k \in S : \A l \in S : Depth(k) <= Depth(l)
  BY <1>1, ExtremeDepths
<1>3. Around(k) = Around(i) \cup {i}
  <2>1. \A l \in Around(i) \cup {i} : l \in Around(k)
    BY <1>1, Boxes DEF Around
  <2>2. ASSUME NEW l \in Around(k), l # i
        PROVE  l \in Around(i)
    <3>1. l \in At(x, y) /\ Encloses(l, k) /\ l \in DOMAIN rings
      BY <1>1, Boxes DEF Around, At
    <3>2. Encloses(i, l) \/ Encloses(l, i)
      BY <1>1, <2>2, <3>1, Boxes DEF At
    <3>3. ~Encloses(i, l)
      <4> SUFFICES ASSUME Encloses(i, l) PROVE FALSE
        OBVIOUS
      <4>1. Depth(l) < Depth(k) /\ Depth(l) \in Nat /\ Depth(k) \in Nat
        BY <1>1, <3>1, DeeperInside
      <4>2. Depth(k) <= Depth(l)
        BY <1>2, <3>1
      <4> QED
        BY <4>1, <4>2
    <3> QED
      BY <3>1, <3>2, <3>3 DEF Around
  <2> QED
    BY <2>1, <2>2
<1>4. i \notin Around(i) /\ IsFiniteSet(Around(i))
  BY DeeperInside, FS_Subset DEF Around, Encloses
<1>5. Depth(k) = Depth(i) + 1
  <2>1. Depth(k) = Cardinality(Around(k)) /\ Depth(i) = Cardinality(Around(i))
    BY DEF Depth, Around
  <2> QED
    BY <1>3, <1>4, <2>1, FS_AddElement
<1> QED
  BY <1>2, <1>5

\* What Assemble makes of the rings, in either case.
Shells == {i \in DOMAIN rings : Depth(i) % 2 = 0}
Assembly == {[shell |-> i, holes |-> HolesOf(i)] : i \in Shells}

\* A single ring is a shell, and so is one of several.
LEMMA AssemblyIs ==
  ASSUME NEW R, RingsApart(R)
  PROVE  (IF Len(rings) = 1 \/ Shells = {} THEN {[shell |-> i, holes |-> {}] : i \in DOMAIN rings} ELSE Assembly) = Assembly
<1>1. Len(rings) \in Nat /\ DOMAIN rings = 1..Len(rings)
  BY DEF RingsApart
<1>2. CASE Len(rings) = 1
  <2>1. DOMAIN rings = {1} /\ \A i, j \in DOMAIN rings : ~Encloses(i, j)
    BY <1>1, <1>2 DEF Encloses
  <2>2. \A i \in DOMAIN rings : HolesOf(i) = {} /\ Around(i) = {}
    BY <2>1 DEF HolesOf, Around
  <2>3. \A i \in DOMAIN rings : Depth(i) = 0
    BY <2>2, FS_EmptySet DEF Depth, Around
  <2>4. Shells = DOMAIN rings
    BY <2>3 DEF Shells
  <2> QED
    BY <1>2, <2>2, <2>4 DEF Assembly
<1>3. CASE Shells = {}
  <2>1. DOMAIN rings = {}
    <3> SUFFICES ASSUME DOMAIN rings # {} PROVE FALSE
      OBVIOUS
    <3>1. PICK m \in DOMAIN rings : \A i \in DOMAIN rings : Depth(m) <= Depth(i)
      BY ExtremeDepths
    <3>2. Around(m) = {}
      <4> SUFFICES ASSUME NEW i \in Around(m) PROVE FALSE
        OBVIOUS
      <4>1. i \in DOMAIN rings /\ Depth(i) < Depth(m) /\ Depth(i) \in Nat /\ Depth(m) \in Nat
        BY DeeperInside DEF Around
      <4> QED
        BY <3>1, <4>1
    <3>3. Depth(m) = 0
      BY <3>2, FS_EmptySet DEF Depth, Around
    <3> QED
      BY <1>3, <3>3 DEF Shells
  <2> QED
    BY <1>3, <2>1 DEF Assembly
<1> QED
  BY <1>2, <1>3

-----------------------------------------------------------------------------
(***************************************************************************)
(* Every cell of the result lies in an odd number of rings.                *)
(***************************************************************************)

\* Heaps that have nothing in common are odd together when an odd number of
\* them is odd.
LEMMA OddHeaps ==
  ASSUME NEW n \in Nat, NEW F, \A i \in 1..n : IsFiniteSet(F[i]),
         \A i, j \in 1..n : i # j => F[i] \cap F[j] = {}
  PROVE  Odd(UNION {F[i] : i \in 1..n}) <=> Odd({i \in 1..n : Odd(F[i])})
<1> DEFINE U(m) == UNION {F[i] : i \in 1..m}
           O(m) == {i \in 1..m : Odd(F[i])}
           Good(m) == IsFiniteSet(U(m)) /\ (Odd(U(m)) <=> Odd(O(m)))
           bad == {m \in 0..n : ~Good(m)}
<1>1. SUFFICES ASSUME bad # {} PROVE FALSE
  <2>1. n \in 0..n
    OBVIOUS
  <2> HIDE DEF Good
  <2>2. bad = {} => Good(n)
    BY <2>1
  <2> QED
    BY <2>2 DEF Good
<1>2. PICK m \in bad : \A j \in bad : m <= j
  <2>1. bad \in SUBSET Nat
    OBVIOUS
  <2> QED
    BY <1>1, <2>1, LeastNumber
<1>3. m \in 0..n /\ ~Good(m)
  BY <1>2
<1>4. CASE m = 0
  <2>1. U(m) = {} /\ O(m) = {}
    BY <1>4
  <2> HIDE DEF U, O
  <2> QED
    BY <1>3, <2>1, FS_EmptySet
<1>5. CASE m # 0
  <2>1. m - 1 \in 0..n /\ m \in 1..n /\ ~(m <= m - 1) /\ 1..m = (1..(m - 1)) \cup {m} /\ m \notin 1..(m - 1)
    BY <1>3, <1>5
  <2>2. Good(m - 1)
    BY <1>2, <2>1
  <2>3. /\ U(m) = U(m - 1) \cup F[m] /\ U(m - 1) \cap F[m] = {}
        /\ IsFiniteSet(F[m])
    BY <2>1
  <2>4. /\ Odd(F[m]) => O(m) = O(m - 1) \cup {m}
        /\ ~Odd(F[m]) => O(m) = O(m - 1)
    BY <2>1
  <2>5. m \notin O(m - 1) /\ IsFiniteSet(O(m - 1))
    <3>1. IsFiniteSet(1..(m - 1)) /\ O(m - 1) \subseteq 1..(m - 1)
      BY <2>1, FS_Interval
    <3> QED
      BY <2>1, <3>1, FS_Subset
  <2> HIDE DEF U, O
  <2>6. IsFiniteSet(U(m)) /\ (Odd(U(m)) <=> ~(Odd(U(m - 1)) <=> Odd(F[m])))
    BY <2>2, <2>3, OddUnion
  <2>7. Odd(O(m)) <=> ~(Odd(O(m - 1)) <=> Odd(F[m]))
    BY <2>4, <2>5, OddAdd
  <2> QED
    BY <1>3, <2>2, <2>6, <2>7
<1> QED
  BY <1>4, <1>5

\* The edges of some of the rings.
Along(J) == UNION {ToSet(rings[i]) : i \in J}

\* A place is inside these rings taken as one walk when it is inside an odd
\* number of them.
LEMMA Counted ==
  ASSUME NEW R, RingsApart(R), NEW J \in SUBSET DOMAIN rings, NEW x \in Int, NEW y \in Int
  PROVE  CellInside(<<x, y>>, Along(J)) <=> Odd(At(x, y) \cap J)
<1> DEFINE n == Len(rings)
           F == [i \in 1..n |-> IF i \in J THEN Crossed(ToSet(rings[i]), x, y) ELSE {}]
<1>1. n \in Nat /\ DOMAIN rings = 1..n
  BY DEF RingsApart
<1>2. \A i \in 1..n : ToSet(rings[i]) \in SUBSET Lattice
  BY <1>1 DEF RingsApart, Borders
<1>3. Along(J) \in SUBSET Lattice
  BY <1>1, <1>2 DEF Along
<1>4. CellInside(<<x, y>>, Along(J)) <=> Odd(Crossed(Along(J), x, y))
  BY <1>3, InsideIs
<1>5. Crossed(Along(J), x, y) = UNION {F[i] : i \in 1..n}
  BY <1>1 DEF Along, Crossed
<1>6. \A i \in 1..n : IsFiniteSet(F[i]) /\ (Odd(F[i]) <=> i \in J /\ Within(x, y, i))
  <2>1. \A i \in 1..n : LET C == Crossed(ToSet(rings[i]), x, y) IN IsFiniteSet(C) /\ (Odd(C) <=> Within(x, y, i))
    BY <1>2, InsideIs DEF Within
  <2> QED
    BY <2>1, OddFirst, FS_EmptySet
<1>7. \A i, j \in 1..n : i # j => F[i] \cap F[j] = {}
  <2>1. \A i, j \in 1..n : i # j => ToSet(rings[i]) \cap ToSet(rings[j]) = {}
    BY <1>1 DEF RingsApart, TwoRings
  <2> QED
    BY <2>1 DEF Crossed
<1> HIDE DEF F, n
<1>8. Odd(UNION {F[i] : i \in 1..n}) <=> Odd({i \in 1..n : Odd(F[i])})
  BY <1>1, <1>6, <1>7, OddHeaps
<1>9. {i \in 1..n : Odd(F[i])} = At(x, y) \cap J
  BY <1>1, <1>6 DEF At
<1> QED
  BY <1>4, <1>5, <1>8, <1>9

\* The edges of E are the border of the cells of R, and so are all the rings.
BorderOf(E, R) == \A e \in Lattice : e \in E <=> LeftCell(e) \in R /\ LeftCell(Twin(e)) \notin R
AllBorder(R) == BorderOf(InRings, R)

\* Beside a cell there are edges of the grid only.
LEMMA EdgesBeside ==
  ASSUME NEW x \in Int, NEW y \in Int, <<x, y>> \in Cell \/ <<x + 1, y>> \in Cell
  PROVE  <<x + 1, y, 2>> \in Lattice
<1>1. x + 1 \in 0..Width /\ y \in 0..Height /\ y + 1 \in 0..Height
  BY Grid DEF Cell
<1>2. Target(<<x + 1, y, 2>>) = <<x + 1, y + 1>>
  BY <1>1, Grid DEF Target, Dx, Dy
<1> QED
  BY <1>1, <1>2 DEF Lattice

\* From one cell to the next, one leaves or enters R just across an edge
\* of its border.
LEMMA AcrossBorder ==
  ASSUME NEW R \in SUBSET Cell, NEW E \in SUBSET Lattice, BorderOf(E, R), NEW x \in Int, NEW y \in Int
  PROVE  <<x, y>> \in R <=> ~(<<x + 1, y>> \in R <=> Upright(E, x + 1, y))
<1> DEFINE g == <<x + 1, y, 2>>
           h == <<x + 1, y + 1, 0>>
<1>1. x + 1 \in Int /\ y + 1 \in Int /\ (x + 1) - 1 = x /\ (y + 1) - 1 = y
  OBVIOUS
<1>2. LeftCell(g) = <<x, y>> /\ Twin(g) = h /\ LeftCell(h) = <<x + 1, y>> /\ Twin(h) = g
  BY <1>1, North, South
<1>3. g \notin Lattice => <<x, y>> \notin R /\ <<x + 1, y>> \notin R
  BY EdgesBeside
<1>4. Upright(E, x + 1, y) <=> g \in E \/ h \in E
  BY DEF Upright
<1> HIDE DEF g, h
<1>5. g \in Lattice <=> h \in Lattice
  BY <1>2, TwinOfTwin
<1>6. CASE g \in Lattice
  BY <1>2, <1>4, <1>5, <1>6 DEF BorderOf
<1>7. CASE g \notin Lattice
  BY <1>3, <1>4, <1>5, <1>7
<1> QED
  BY <1>6, <1>7

\* Cells that some of the rings border are those that an odd number of these
\* is around.
LEMMA OddOf ==
  ASSUME NEW R, RingsApart(R), NEW J \in SUBSET DOMAIN rings,
         NEW S \in SUBSET Cell, BorderOf(Along(J), S), NEW x \in Int, NEW y \in Int
  PROVE  <<x, y>> \in S <=> Odd(At(x, y) \cap J)
<1> DEFINE in(u, v) == CellInside(<<u, v>>, Along(J))
           D == {c \in Int \X Int : ~(c \in S <=> in(c[1], c[2]))}
<1>1. \A i \in DOMAIN rings : ToSet(rings[i]) \in SUBSET Lattice
  BY DEF RingsApart, Borders
<1>2. Along(J) \in SUBSET Lattice
  BY <1>1 DEF Along
<1>3. OneWay(Along(J))
  BY <1>2 DEF OneWay, BorderOf
<1>4. \A u, v \in Int : in(u, v) <=> ~(in(u + 1, v) <=> Upright(Along(J), u + 1, v))
  BY <1>3, AcrossUpright
<1>5. \A u, v \in Int : <<u, v>> \in S <=> ~(<<u + 1, v>> \in S <=> Upright(Along(J), u + 1, v))
  BY <1>2, AcrossBorder
<1>6. \A u, v \in Int : u >= Width => ~in(u, v) /\ <<u, v>> \notin S
  <2>1. \A u, v \in Int : u >= Width => <<u, v>> \notin Cell
    BY Grid DEF Cell
  <2> QED
    BY <1>2, <2>1, OutsideRight
<1> HIDE DEF in
<1>7. \A u, v \in Int : <<u, v>> \in D <=> ~(<<u, v>> \in S <=> in(u, v))
  OBVIOUS
<1> HIDE DEF D
<1>8. \A u, v \in Int : u + 1 \in Int
  OBVIOUS
<1>9. \A u, v \in Int : <<u, v>> \in D <=> <<u + 1, v>> \in D
  BY <1>4, <1>5, <1>7, <1>8
<1>10. <<x, y>> \notin D
  BY <1>6, <1>7, <1>9, NoBorder
<1> QED
  BY <1>7, <1>10, Counted DEF in

\* The cells of R are those that an odd number of rings is around.
LEMMA OddIn ==
  ASSUME NEW R, RingsApart(R), R \subseteq Cell, AllBorder(R), NEW x \in Int, NEW y \in Int
  PROVE  <<x, y>> \in R <=> Odd(At(x, y))
<1> DEFINE J == DOMAIN rings
<1>1. Along(J) = InRings /\ At(x, y) \cap J = At(x, y)
  BY DEF Along, InRings, At
<1>2. R \in SUBSET Cell /\ J \in SUBSET DOMAIN rings /\ BorderOf(Along(J), R)
  BY <1>1 DEF AllBorder
<1>3. <<x, y>> \in R <=> Odd(At(x, y) \cap J)
  <2> HIDE DEF J
  <2> QED
    BY <1>2, OddOf
<1> QED
  BY <1>1, <1>3

-----------------------------------------------------------------------------
(***************************************************************************)
(* What the polygons cover.                                                *)
(***************************************************************************)

\* The area of the polygon made of ring i and its holes, as a set of places.
InPolygon(x, y, i) == Within(x, y, i) /\ \A h \in HolesOf(i) : ~Within(x, y, h)

\* A place is in the polygon of the deepest ring around it and in no other.
LEMMA OnlyDeepest ==
  ASSUME NEW R, RingsApart(R), NEW x \in Int, NEW y \in Int, NEW i \in DOMAIN rings
  PROVE  InPolygon(x, y, i) <=> i \in At(x, y) /\ Cardinality(At(x, y)) = Depth(i) + 1
<1>1. At(x, y) \subseteq DOMAIN rings
  BY DEF At
<1>2. ASSUME InPolygon(x, y, i)
      PROVE  i \in At(x, y) /\ Cardinality(At(x, y)) = Depth(i) + 1
  <2>1. i \in At(x, y)
    BY <1>2 DEF InPolygon, At
  <2>2. PICK m \in At(x, y) : /\ \A k \in At(x, y) : k # m => Encloses(k, m)
                              /\ Cardinality(At(x, y)) = Depth(m) + 1
    BY <2>1, Innermost
  <2>3. i = m
    <3> SUFFICES ASSUME i # m PROVE FALSE
      OBVIOUS
    <3>1. PICK k \in At(x, y) : Encloses(i, k) /\ Depth(k) = Depth(i) + 1
      BY <2>1, <2>2, NextDeeper
    <3>2. k \in HolesOf(i) /\ Within(x, y, k)
      BY <1>1, <3>1 DEF HolesOf, At
    <3> QED
      BY <1>2, <3>2 DEF InPolygon
  <2> QED
    BY <2>1, <2>2, <2>3
<1>3. ASSUME i \in At(x, y), Cardinality(At(x, y)) = Depth(i) + 1
      PROVE  InPolygon(x, y, i)
  <2>1. PICK m \in At(x, y) : /\ \A k \in At(x, y) : k # m => Encloses(k, m)
                              /\ Cardinality(At(x, y)) = Depth(m) + 1
    BY <1>3, Innermost
  <2>2. i = m
    <3> SUFFICES ASSUME i # m PROVE FALSE
      OBVIOUS
    <3>1. Depth(i) < Depth(m) /\ Depth(i) \in Nat /\ Depth(m) \in Nat
      BY <1>1, <1>3, <2>1, DeeperInside
    <3> QED
      BY <1>3, <2>1, <3>1
  <2>3. ASSUME NEW h \in HolesOf(i), Within(x, y, h)
        PROVE  FALSE
    <3>1. h \in At(x, y) /\ Encloses(i, h) /\ h \in DOMAIN rings /\ h # i
      BY <2>3 DEF HolesOf, At, Encloses
    <3>2. Encloses(h, i)
      BY <2>1, <2>2, <3>1
    <3> QED
      BY <1>1, <3>1, <3>2, Boxes
  <2> QED
    BY <1>3, <2>3 DEF InPolygon, At
<1> QED
  BY <1>2, <1>3

\* So it is in at most one.
LEMMA OnePolygon ==
  ASSUME NEW R, RingsApart(R), NEW x \in Int, NEW y \in Int, NEW i \in DOMAIN rings, NEW j \in DOMAIN rings,
         InPolygon(x, y, i), InPolygon(x, y, j)
  PROVE  i = j
<1> SUFFICES ASSUME i # j PROVE FALSE
  OBVIOUS
<1>1. /\ i \in At(x, y) /\ Cardinality(At(x, y)) = Depth(i) + 1
      /\ j \in At(x, y) /\ Cardinality(At(x, y)) = Depth(j) + 1
  BY OnlyDeepest
<1>2. Encloses(i, j) \/ Encloses(j, i)
  BY <1>1, Boxes DEF At
<1>3. (Depth(i) < Depth(j) \/ Depth(j) < Depth(i)) /\ Depth(i) \in Nat /\ Depth(j) \in Nat
  BY <1>2, DeeperInside
<1> QED
  BY <1>1, <1>3

\* And the polygons together are what lies in an odd number of rings.
LEMMA OddIsCovered ==
  ASSUME NEW R, RingsApart(R), NEW x \in Int, NEW y \in Int
  PROVE  Odd(At(x, y)) <=> \E i \in Shells : InPolygon(x, y, i)
<1>1. \A d \in Nat : (d + 1) % 2 = 1 <=> d % 2 = 0
  OBVIOUS
<1>2. \A i \in DOMAIN rings : Depth(i) \in Nat
  BY DeeperInside
<1>3. ASSUME NEW i \in Shells, InPolygon(x, y, i)
      PROVE  Odd(At(x, y))
  <2>1. Cardinality(At(x, y)) = Depth(i) + 1 /\ Depth(i) \in Nat /\ Depth(i) % 2 = 0
    BY <1>2, <1>3, OnlyDeepest DEF Shells
  <2> QED
    BY <1>1, <2>1 DEF Odd
<1>4. ASSUME Odd(At(x, y))
      PROVE  \E i \in Shells : InPolygon(x, y, i)
  <2>1. At(x, y) # {}
    BY <1>4, OddFirst
  <2>2. PICK m \in At(x, y) : Cardinality(At(x, y)) = Depth(m) + 1
    BY <2>1, Innermost
  <2>3. m \in DOMAIN rings
    BY DEF At
  <2>4. Depth(m) % 2 = 0
    BY <1>1, <1>2, <1>4, <2>2, <2>3 DEF Odd
  <2> QED
    BY <2>2, <2>3, <2>4, OnlyDeepest DEF Shells
<1> QED
  BY <1>3, <1>4

\* A ring that is not outermost lies in one that is just one less deep, and in
\* one only.
LEMMA OneLessDeep ==
  ASSUME NEW R, RingsApart(R), NEW j \in DOMAIN rings, Depth(j) # 0
  PROVE  \E i \in DOMAIN rings : /\ Encloses(i, j) /\ Depth(j) = Depth(i) + 1
                                 /\ \A k \in DOMAIN rings : Encloses(k, j) /\ Depth(j) = Depth(k) + 1 => k = i
<1>1. Depth(j) = Cardinality(Around(j)) /\ Around(j) \subseteq DOMAIN rings
  BY DEF Depth, Around
<1>2. Around(j) # {}
  BY <1>1, FS_EmptySet
<1>3. PICK i \in Around(j) : \A k \in Around(j) : Depth(k) <= Depth(i)
  BY <1>1, <1>2, ExtremeDepths
<1>4. PICK x \in Int, y \in Int : Within(x, y, j)
  BY SomethingInside
<1>5. \A k \in Around(j) : k \in DOMAIN rings /\ k \in At(x, y) /\ Encloses(k, j) /\ Depth(k) \in Nat
  BY <1>4, Boxes, DeeperInside DEF Around, At
<1>6. \A k \in Around(j) : k # i => Encloses(i, k) \/ Encloses(k, i)
  BY <1>5, Boxes DEF At
<1>7. ASSUME NEW k \in Around(j), k # i
      PROVE  Encloses(k, i)
  <2> SUFFICES ASSUME Encloses(i, k) PROVE FALSE
    BY <1>6, <1>7
  <2>1. Depth(i) < Depth(k)
    BY <1>5, DeeperInside
  <2> QED
    BY <1>3, <1>5, <2>1
<1>8. Around(j) = Around(i) \cup {i}
  <2>1. \A k \in Around(i) : k \in Around(j)
    BY <1>5, Boxes DEF Around
  <2>2. \A k \in Around(j) : k # i => k \in Around(i)
    BY <1>5, <1>7 DEF Around
  <2> QED
    BY <2>1, <2>2
<1>9. i \notin Around(i) /\ IsFiniteSet(Around(i)) /\ Depth(i) = Cardinality(Around(i))
  BY DeeperInside, FS_Subset DEF Around, Encloses, Depth
<1>10. Depth(j) = Depth(i) + 1
  BY <1>1, <1>8, <1>9, FS_AddElement
<1>11. ASSUME NEW k \in DOMAIN rings, Encloses(k, j), Depth(j) = Depth(k) + 1, k # i
       PROVE  FALSE
  <2>1. k \in Around(j)
    BY <1>11 DEF Around
  <2>2. Depth(k) < Depth(i) /\ Depth(k) \in Nat /\ Depth(i) \in Nat
    BY <1>5, <1>7, <1>11, <2>1, DeeperInside
  <2> QED
    BY <1>10, <1>11, <2>2
<1> QED
  BY <1>5, <1>10, <1>11

\* Each ring is the shell or a hole of one polygon.
LEMMA InOnePolygon ==
  ASSUME NEW R, RingsApart(R), NEW j \in DOMAIN rings
  PROVE  Cardinality({p \in Assembly : j = p.shell \/ j \in p.holes}) = 1
<1> DEFINE poly(i) == [shell |-> i, holes |-> HolesOf(i)]
           S == {p \in Assembly : j = p.shell \/ j \in p.holes}
<1>1. \A d \in Nat : (d + 1) % 2 = 0 <=> ~(d % 2 = 0)
  OBVIOUS
<1>2. \A i \in DOMAIN rings : Depth(i) \in Nat
  BY DeeperInside
<1>3. \A p \in Assembly : p.shell \in Shells /\ p = poly(p.shell) /\ p.holes = HolesOf(p.shell)
  BY DEF Assembly
<1>4. \A i \in Shells : poly(i) \in Assembly /\ i \in DOMAIN rings /\ Depth(i) % 2 = 0
  BY DEF Assembly, Shells
<1>5. \E i : S = {poly(i)}
  <2>1. CASE j \in Shells
    <3>1. \A i \in Shells : j \notin HolesOf(i)
      <4> SUFFICES ASSUME NEW i \in Shells, j \in HolesOf(i) PROVE FALSE
        OBVIOUS
      <4>1. Depth(j) = Depth(i) + 1 /\ Depth(i) % 2 = 0 /\ Depth(j) % 2 = 0 /\ Depth(i) \in Nat
        BY <1>2, <1>4, <2>1 DEF HolesOf
      <4> QED
        BY <1>1, <4>1
    <3>2. S = {poly(j)}
      <4>1. \A p \in S : p = poly(j)
        BY <1>3, <3>1
      <4>2. poly(j) \in S
        BY <1>4, <2>1
      <4> QED
        BY <4>1, <4>2
    <3> QED
      BY <3>2
  <2>2. CASE j \notin Shells
    <3>1. Depth(j) \in Nat /\ Depth(j) % 2 # 0 /\ Depth(j) # 0
      <4>1. Depth(j) \in Nat /\ Depth(j) % 2 # 0
        BY <1>2, <2>2 DEF Shells
      <4>2. 0 % 2 = 0
        OBVIOUS
      <4> QED
        BY <4>1, <4>2
    <3>2. PICK i \in DOMAIN rings : /\ Encloses(i, j) /\ Depth(j) = Depth(i) + 1
                                    /\ \A k \in DOMAIN rings : Encloses(k, j) /\ Depth(j) = Depth(k) + 1 => k = i
      BY <3>1, OneLessDeep
    <3>3. i \in Shells /\ j \in HolesOf(i)
      BY <1>1, <1>2, <3>1, <3>2 DEF Shells, HolesOf
    <3>4. \A k \in Shells : j \in HolesOf(k) => k = i
      BY <1>4, <3>2 DEF HolesOf
    <3>5. S = {poly(i)}
      <4>1. \A p \in S : p = poly(i)
        BY <1>3, <2>2, <3>4
      <4>2. poly(i) \in S
        BY <1>4, <3>3
      <4> QED
        BY <4>1, <4>2
    <3> QED
      BY <3>5
  <2> QED
    BY <2>1, <2>2
<1> HIDE DEF S
<1>6. Cardinality(S) = 1
  BY <1>5, FS_Singleton
<1> QED
  BY <1>6 DEF S

\* Beside an edge of a ring, on the side that is inside of it, the ring is the
\* deepest.
LEMMA DeepestBeside ==
  ASSUME NEW R, RingsApart(R), NEW i \in DOMAIN rings, NEW e \in ToSet(rings[i]), NEW f \in {e, Twin(e)},
         NEW x \in Int, NEW y \in Int, LeftCell(f) = <<x, y>>, Within(x, y, i)
  PROVE  Cardinality(At(x, y)) = Depth(i) + 1
<1>1. IsRound(rings[i]) /\ Borders(ToSet(rings[i]), R)
  BY DEF RingsApart
<1>2. e \in Lattice /\ OneWay(ToSet(rings[i])) /\ Twin(Twin(e)) = e
  BY <1>1, BorderIsOneWay, TwinOfTwin DEF Borders
<1>3. PICK u \in Int, v \in Int : LeftCell(Twin(f)) = <<u, v>>
  BY <1>2, CellsOfEdge
<1>4. ~Within(u, v, i)
  BY <1>1, <1>2, <1>3, AcrossEdge DEF Within
<1>5. \A k \in DOMAIN rings : k # i /\ Within(x, y, k) => Within(u, v, k)
  <2> SUFFICES ASSUME NEW k \in DOMAIN rings, k # i, Within(x, y, k) PROVE Within(u, v, k)
    OBVIOUS
  <2>1. TwoRings(rings[i], rings[k], R)
    BY DEF RingsApart
  <2> QED
    BY <1>2, <1>3, <2>1, EdgeInOrOut DEF Within
<1>6. \A h \in HolesOf(i) : ~Within(x, y, h)
  <2> SUFFICES ASSUME NEW h \in HolesOf(i), Within(x, y, h) PROVE FALSE
    OBVIOUS
  <2>1. h \in DOMAIN rings /\ Encloses(i, h) /\ h # i
    BY DEF HolesOf, Encloses
  <2>2. Within(u, v, i)
    BY <1>5, <2>1, Boxes
  <2> QED
    BY <1>4, <2>2
<1>7. InPolygon(x, y, i)
  BY <1>6 DEF InPolygon
<1> QED
  BY <1>7, OnlyDeepest

\* It has its inside on the left just when it is a shell.
LEMMA InsideOnLeft ==
  ASSUME NEW R, RingsApart(R), R \subseteq Cell, AllBorder(R),
         NEW i \in DOMAIN rings, NEW e \in ToSet(rings[i])
  PROVE  CellInside(LeftCell(e), ToSet(rings[i])) <=> i \in Shells
<1>1. IsRound(rings[i]) /\ Borders(ToSet(rings[i]), R)
  BY DEF RingsApart
<1>2. e \in Lattice /\ OneWay(ToSet(rings[i])) /\ LeftCell(e) \in R /\ LeftCell(Twin(e)) \notin R
  BY <1>1, BorderIsOneWay DEF Borders
<1>3. PICK x \in Int, y \in Int : LeftCell(e) = <<x, y>>
  BY <1>2, CellsOfEdge
<1>4. PICK u \in Int, v \in Int : LeftCell(Twin(e)) = <<u, v>>
  BY <1>2, CellsOfEdge
<1>5. Odd(At(x, y)) /\ ~Odd(At(u, v))
  BY <1>2, <1>3, <1>4, OddIn
<1>6. \A d \in Nat : (d + 1) % 2 = 1 <=> d % 2 = 0
  OBVIOUS
<1>7. Depth(i) \in Nat
  BY DeeperInside
<1>8. CASE Within(x, y, i)
  <2>1. Cardinality(At(x, y)) = Depth(i) + 1
    BY <1>3, <1>8, DeepestBeside
  <2>2. Depth(i) % 2 = 0
    BY <1>5, <1>6, <1>7, <2>1 DEF Odd
  <2> QED
    BY <1>3, <1>8, <2>2 DEF Shells, Within
<1>9. CASE ~Within(x, y, i)
  <2>1. Within(u, v, i)
    BY <1>1, <1>2, <1>3, <1>4, <1>9, AcrossEdge DEF Within
  <2>2. Cardinality(At(u, v)) = Depth(i) + 1
    BY <1>4, <2>1, DeepestBeside
  <2>3. ~(Depth(i) % 2 = 0)
    BY <1>5, <1>6, <1>7, <2>2 DEF Odd
  <2> QED
    BY <1>3, <1>9, <2>3 DEF Shells, Within
<1> QED
  BY <1>8, <1>9

-----------------------------------------------------------------------------
(***************************************************************************)
(* The rings of an overlay are such rings.                                 *)
(***************************************************************************)

\* The stages after Assemble.
Late == {"lines", "forward", "backward", "done"}

\* The polygons are put together once, of rings that have edges.
Made ==
  Edges # {} =>
    /\ \A i \in DOMAIN rings : Len(rings[i]) > 0
    /\ stage \in Late =>
         polygons = IF Len(rings) = 1 \/ Shells = {} THEN {[shell |-> i, holes |-> {}] : i \in DOMAIN rings} ELSE Assembly

\* While the rings stay, so does all that is said of how they lie.
LEMMA SameRings == UNCHANGED rings => Shells' = Shells /\ Assembly' = Assembly
<1> SUFFICES ASSUME rings' = rings PROVE Shells' = Shells /\ Assembly' = Assembly
  OBVIOUS
<1>1. \A i, j : Encloses(i, j)' <=> Encloses(i, j)
  BY DEF Encloses
<1>2. \A j : Depth(j)' = Depth(j)
  BY <1>1 DEF Depth
<1>3. \A i : HolesOf(i)' = HolesOf(i)
  BY <1>1, <1>2 DEF HolesOf
<1> QED
  BY <1>2, <1>3 DEF Shells, Assembly

\* Only Assemble makes polygons, and no ring is made after it.
LEMMA MadeKept == RingInv /\ Made /\ [Next]_vars => Made'
<1> SUFFICES ASSUME RingInv, Made, [Next]_vars, Edges' # {} PROVE Made'
  BY DEF Made
<1> USE DEF RingInv, ResultInv
<1>1. CASE Build
  <2>1. rings' = <<>> /\ stage' \notin Late
    BY <1>1 DEF Build, areal, GridInv, Walked, Late
  <2> QED
    BY <2>1 DEF Made
<1>2. CASE CloseRing
  <2>1. Edges # {} /\ stage' \notin Late
    BY <1>2 DEF CloseRing, dcel, Edges, Late
  <2>2. rings \in Seq(Seq(Edges)) /\ (rings' = rings \/ (rings' = Append(rings, ring) /\ Len(ring) > 0))
    <3>1. Len(ring) >= 3 => Len(ring) > 0
      <4>1. Len(ring) \in Nat
        BY DEF GridInv, Walked
      <4> QED
        BY <4>1
    <3> QED
      BY <1>2, <2>1, <3>1 DEF CloseRing, Looped, RingsClosed
  <2>3. \A i \in DOMAIN rings' : Len(rings'[i]) > 0
    BY <2>1, <2>2 DEF Made
  <2> QED
    BY <2>1, <2>3 DEF Made
<1>3. CASE Assemble
  <2>1. Edges # {} /\ rings' = rings
    BY <1>3 DEF Assemble, dcel, Edges
  <2>2. polygons' = IF Len(rings) = 1 \/ Shells = {} THEN {[shell |-> i, holes |-> {}] : i \in DOMAIN rings} ELSE Assembly
    BY <1>3 DEF Assemble, Shells, Assembly
  <2> QED
    BY <2>1, <2>2, SameRings DEF Made
<1>4. CASE ~Build /\ ~CloseRing /\ ~Assemble
  <2>1. ~Prepare /\ ~Repair
    BY DEF Prepare, Repair, dcel, Edges, GridInv, Built
  <2>2. UNCHANGED <<tags, rings, polygons>> /\ (stage' \in Late => stage \in Late)
    BY <1>4, <2>1 DEF Next, vars, dcel, areal, Late, TraceFace, Classify, ApplyOp, StartRing, GrowRing,
               StartLine, GrowForward, GrowBackward, ExtractPoints, Done
  <2>3. Edges # {}
    BY <2>2 DEF Edges
  <2> QED
    BY <2>2, <2>3, SameRings DEF Made
<1> QED
  BY <1>1, <1>2, <1>3, <1>4

\* And so it always is.
LEMMA MadeAlways == Spec => [](RingInv /\ Made)
<1>1. Init => Made
  BY DEF Init, Made, Edges
<1> QED
  BY <1>1, MadeKept, RingAlways, PTL DEF Spec

\* All faces are judged right, and the rings are walked.
RingsDone == Edges # {} /\ stage \in Late /\ Misjudged = {}

\* The rings border the result, share no edge, and make the polygons.
LEMMA RingsLieApart ==
  ASSUME RingInv, Made, RingsDone
  PROVE  RingsApart(Result) /\ AllBorder(Result) /\ Result \subseteq Cell /\ polygons = Assembly
<1> USE DEF RingInv, ResultInv, RingsDone
<1>1. Result \subseteq Cell
  BY DEF Result
<1>2. AllBorder(Result)
  BY BoundarySo DEF RingsAreBoundary, AllBorder, BorderOf, Late
<1>3. Edges \subseteq Lattice
  BY EdgesOnGrid DEF GridInv
<1>4. rings \in Seq(Seq(Lattice)) /\ rings \in Seq(Seq(Edges))
  <2>1. rings \in Seq(Seq(Edges))
    BY DEF Looped, RingsClosed
  <2>2. Seq(Edges) \subseteq Seq(Lattice)
    BY <1>3
  <2> QED
    BY <2>1, <2>2
<1>5. /\ \A i \in DOMAIN rings : \A a \in DOMAIN rings[i] :
           Target(rings[i][a]) = Origin(rings[i][(a % Len(rings[i])) + 1])
      /\ \A i, j \in DOMAIN rings : \A a \in DOMAIN rings[i], b \in DOMAIN rings[j] :
           rings[i][a] = rings[j][b] => i = j /\ a = b
  BY ReturnSo DEF RingsReturn
<1>6. ASSUME NEW i \in DOMAIN rings
      PROVE  IsRound(rings[i]) /\ Borders(ToSet(rings[i]), Result)
  <2>1. rings[i] \in Seq(Lattice) /\ Len(rings[i]) > 0 /\ Len(rings[i]) \in Nat /\ DOMAIN rings[i] = 1..Len(rings[i])
    BY <1>4 DEF Made
  <2>2. \A a \in DOMAIN rings[i] : (a % Len(rings[i])) + 1 = After(rings[i], a)
    BY <2>1, RoundAgain DEF After
  <2>3. IsRound(rings[i])
    BY <1>5, <2>1, <2>2 DEF IsRound
  <2>4. \A e \in ToSet(rings[i]) : e \in InRings /\ e \in Lattice
    BY <2>1 DEF InRings, ToSet
  <2> QED
    BY <1>2, <2>3, <2>4 DEF Borders, AllBorder, BorderOf
<1>7. ASSUME NEW i \in DOMAIN rings, NEW j \in DOMAIN rings, i # j
      PROVE  ToSet(rings[i]) \cap ToSet(rings[j]) = {}
  BY <1>5, <1>7 DEF ToSet
<1>8. RingsApart(Result)
  BY <1>1, <1>4, <1>6, <1>7 DEF RingsApart, TwoRings
<1>9. polygons = Assembly
  BY <1>8, AssemblyIs DEF Made
<1> QED
  BY <1>1, <1>2, <1>8, <1>9

\* The shells are those of the polygons.
LEMMA ShellsAre ==
  ASSUME polygons = Assembly
  PROVE  \A i : i \in Shells <=> \E p \in polygons : p.shell = i
<1>1. ASSUME NEW i \in Shells
      PROVE  \E p \in polygons : p.shell = i
  <2> DEFINE p == [shell |-> i, holes |-> HolesOf(i)]
  <2>1. p \in polygons
    BY DEF Assembly
  <2>2. p.shell = i
    OBVIOUS
  <2> QED
    BY <2>1, <2>2
<1>2. \A p \in polygons : p.shell \in Shells
  BY DEF Assembly
<1> QED
  BY <1>1, <1>2

\* What lies inside a ring.
InRing(i) == {c \in Int \X Int : CellInside(c, ToSet(rings[i]))}

\* A cell belongs to the result just when an odd number of rings is around
\* it: the even-odd rule by which a reader of the polygons tells inside from
\* outside (extractResultRings, result.go:101).
EvenOddRule ==
  RingsDone => \A c \in Cell : c \in Result <=> Odd({i \in DOMAIN rings : c \in InRing(i)})

\* Of two rings either one lies in the other, and then the sample of the
\* inner one says so and that of the outer one does not, or they lie apart:
\* rings that touch at a vertex do not cross, so that one sample a hair beside
\* the first edge decides for the whole ring (AssembleOutputPolygons,
\* assemble.go:97-103).
RingsNest ==
  RingsDone => \A i, j \in DOMAIN rings : i # j =>
    \/ Encloses(i, j) /\ ~Encloses(j, i) /\ InRing(j) \subseteq InRing(i)
    \/ Encloses(j, i) /\ ~Encloses(i, j) /\ InRing(i) \subseteq InRing(j)
    \/ ~Encloses(i, j) /\ ~Encloses(j, i) /\ InRing(i) \cap InRing(j) = {}

\* The polygons cover the cells of the result, each cell once and none of them
\* for nothing, whatever islands lie in whatever holes.
PolygonsCover ==
  RingsDone =>
    /\ UNION {Inside(p) : p \in polygons} = Result
    /\ \A p, q \in polygons : p # q => Inside(p) \cap Inside(q) = {}
    /\ \A p \in polygons : Inside(p) # {}

\* Every ring belongs to one polygon, as the shell when it has its inside on
\* the left and as a hole when it has it on the right, and a hole lies in its
\* shell and apart from the other holes.
EachRingOnce ==
  RingsDone =>
    /\ \A i \in DOMAIN rings :
         /\ Cardinality({p \in polygons : i = p.shell \/ i \in p.holes}) = 1
         /\ \A e \in ToSet(rings[i]) : LeftCell(e) \in InRing(i) <=> i \in {p.shell : p \in polygons}
    /\ \A p \in polygons : \A h \in p.holes :
         /\ InRing(h) \subseteq InRing(p.shell)
         /\ \A g \in p.holes : g # h => InRing(g) \cap InRing(h) = {}

\* A cell is a pair of numbers.
LEMMA CellsAre == \A c \in Cell : c \in Int \X Int /\ c = <<c[1], c[2]>> /\ c[1] \in Int /\ c[2] \in Int
  BY Grid DEF Cell

\* The even-odd rule, of one state.
LEMMA EvenOddSo == RingInv /\ Made => EvenOddRule
<1> SUFFICES ASSUME RingInv, Made, RingsDone, NEW c \in Cell
             PROVE  c \in Result <=> Odd({i \in DOMAIN rings : c \in InRing(i)})
  BY DEF EvenOddRule
<1>1. PICK x \in Int, y \in Int : c = <<x, y>>
  BY CellsAre
<1>2. {i \in DOMAIN rings : c \in InRing(i)} = At(x, y)
  BY <1>1 DEF At, Within, InRing
<1>3. c \in Result <=> Odd(At(x, y))
  BY <1>1, RingsLieApart, OddIn
<1> QED
  BY <1>2, <1>3

\* The nesting, of one state.
LEMMA NestSo == RingInv /\ Made => RingsNest
<1> SUFFICES ASSUME RingInv, Made, RingsDone, NEW i \in DOMAIN rings, NEW j \in DOMAIN rings, i # j
             PROVE  \/ Encloses(i, j) /\ ~Encloses(j, i) /\ InRing(j) \subseteq InRing(i)
                    \/ Encloses(j, i) /\ ~Encloses(i, j) /\ InRing(i) \subseteq InRing(j)
                    \/ ~Encloses(i, j) /\ ~Encloses(j, i) /\ InRing(i) \cap InRing(j) = {}
  BY DEF RingsNest
<1>1. RingsApart(Result)
  BY RingsLieApart
<1>2. \A k, l \in DOMAIN rings : ~(Encloses(k, l) /\ Encloses(l, k))
  BY <1>1, Boxes
<1>3. \A c \in Int \X Int : c = <<c[1], c[2]>> /\ c[1] \in Int /\ c[2] \in Int
  OBVIOUS
<1>4. \A c \in Int \X Int : \A k : c \in InRing(k) <=> Within(c[1], c[2], k)
  BY <1>3 DEF InRing, Within
<1>5. \A k, l \in DOMAIN rings : Encloses(k, l) => InRing(l) \subseteq InRing(k)
  <2> SUFFICES ASSUME NEW k \in DOMAIN rings, NEW l \in DOMAIN rings, Encloses(k, l), NEW c \in InRing(l)
               PROVE  c \in InRing(k)
    OBVIOUS
  <2>1. c \in Int \X Int
    BY DEF InRing
  <2> QED
    BY <1>1, <1>3, <1>4, <2>1, Boxes
<1>6. ~Encloses(i, j) /\ ~Encloses(j, i) => InRing(i) \cap InRing(j) = {}
  <2> SUFFICES ASSUME ~Encloses(i, j), ~Encloses(j, i), NEW c \in InRing(i), c \in InRing(j) PROVE FALSE
    OBVIOUS
  <2>1. c \in Int \X Int
    BY DEF InRing
  <2> QED
    BY <1>1, <1>3, <1>4, <2>1, Boxes
<1> QED
  BY <1>2, <1>5, <1>6

\* The cover, of one state.
LEMMA CoverSo == RingInv /\ Made => PolygonsCover
<1> SUFFICES ASSUME RingInv, Made, RingsDone
             PROVE  /\ UNION {Inside(p) : p \in polygons} = Result
                    /\ \A p, q \in polygons : p # q => Inside(p) \cap Inside(q) = {}
                    /\ \A p \in polygons : Inside(p) # {}
  BY DEF PolygonsCover
<1>1. RingsApart(Result) /\ AllBorder(Result) /\ Result \subseteq Cell /\ polygons = Assembly
  BY RingsLieApart
<1>2. \A p \in polygons : p.shell \in Shells /\ p.shell \in DOMAIN rings /\ p = [shell |-> p.shell, holes |-> HolesOf(p.shell)] /\ p.holes = HolesOf(p.shell)
  BY <1>1 DEF Assembly, Shells
<1>3. \A i \in Shells : \E p \in polygons : p.shell = i
  BY <1>1, ShellsAre
<1>4. \A p \in polygons : \A x, y \in Int : <<x, y>> \in Inside(p) <=> <<x, y>> \in Cell /\ InPolygon(x, y, p.shell)
  BY <1>2 DEF Inside, InPolygon, Within
<1>5. \A p \in polygons : Inside(p) \subseteq Cell
  BY DEF Inside
<1>6. \A x, y \in Int : <<x, y>> \in Result <=> \E i \in Shells : InPolygon(x, y, i)
  BY <1>1, OddIn, OddIsCovered
<1>7. UNION {Inside(p) : p \in polygons} = Result
  <2>1. ASSUME NEW c \in Result
        PROVE  \E p \in polygons : c \in Inside(p)
    <3>1. PICK x \in Int, y \in Int : c = <<x, y>>
      BY <1>1, CellsAre
    <3>2. PICK i \in Shells : InPolygon(x, y, i)
      BY <1>6, <2>1, <3>1
    <3>3. PICK p \in polygons : p.shell = i
      BY <1>3
    <3> QED
      BY <1>1, <1>4, <3>1, <3>2, <3>3
  <2>2. ASSUME NEW p \in polygons, NEW c \in Inside(p)
        PROVE  c \in Result
    <3>1. PICK x \in Int, y \in Int : c = <<x, y>>
      BY <1>5, CellsAre
    <3> QED
      BY <1>2, <1>4, <1>6, <3>1
  <2> QED
    BY <2>1, <2>2
<1>8. ASSUME NEW p \in polygons, NEW q \in polygons, p # q, NEW c \in Inside(p), c \in Inside(q)
      PROVE  FALSE
  <2>1. PICK x \in Int, y \in Int : c = <<x, y>>
    BY <1>5, CellsAre
  <2>2. InPolygon(x, y, p.shell) /\ InPolygon(x, y, q.shell)
    BY <1>4, <1>8, <2>1
  <2>3. p.shell = q.shell
    BY <1>1, <1>2, <2>2, OnePolygon
  <2> QED
    BY <1>2, <1>8, <2>3
<1>9. ASSUME NEW p \in polygons
      PROVE  Inside(p) # {}
  <2> DEFINE i == p.shell
             e == rings[i][1]
  <2>1. i \in DOMAIN rings /\ i \in Shells
    BY <1>2
  <2>2. e \in ToSet(rings[i])
    BY <1>1, <2>1, FirstInRing DEF RingsApart
  <2>3. e \in Lattice /\ LeftCell(e) \in Result
    BY <1>1, <2>1, <2>2 DEF RingsApart, Borders
  <2>4. PICK x \in Int, y \in Int : LeftCell(e) = <<x, y>>
    BY <2>3, CellsOfEdge
  <2>5. Within(x, y, i)
    BY <1>1, <2>1, <2>2, <2>4, InsideOnLeft DEF Within
  <2> HIDE DEF e
  <2>6. Cardinality(At(x, y)) = Depth(i) + 1
    BY <1>1, <2>1, <2>2, <2>4, <2>5, DeepestBeside
  <2>7. InPolygon(x, y, i)
    BY <1>1, <2>1, <2>5, <2>6, OnlyDeepest DEF At
  <2>8. <<x, y>> \in Inside(p)
    BY <1>1, <1>4, <2>3, <2>4, <2>7
  <2> QED
    BY <2>8
<1> QED
  BY <1>7, <1>8, <1>9

\* The place of every ring, of one state.
LEMMA OnceSo == RingInv /\ Made => EachRingOnce
<1> SUFFICES ASSUME RingInv, Made, RingsDone
             PROVE  /\ \A i \in DOMAIN rings :
                         /\ Cardinality({p \in polygons : i = p.shell \/ i \in p.holes}) = 1
                         /\ \A e \in ToSet(rings[i]) : LeftCell(e) \in InRing(i) <=> i \in {p.shell : p \in polygons}
                    /\ \A p \in polygons : \A h \in p.holes :
                         /\ InRing(h) \subseteq InRing(p.shell)
                         /\ \A g \in p.holes : g # h => InRing(g) \cap InRing(h) = {}
  BY DEF EachRingOnce
<1>1. RingsApart(Result) /\ AllBorder(Result) /\ Result \subseteq Cell /\ polygons = Assembly
  BY RingsLieApart
<1>2. \A i : i \in Shells <=> i \in {p.shell : p \in polygons}
  BY <1>1, ShellsAre
<1>3. ASSUME NEW i \in DOMAIN rings, NEW e \in ToSet(rings[i])
      PROVE  LeftCell(e) \in InRing(i) <=> i \in Shells
  <2>1. e \in Lattice
    BY <1>1 DEF RingsApart, Borders
  <2>2. LeftCell(e) \in Int \X Int
    BY <2>1, CellsOfEdge
  <2> QED
    BY <1>1, <2>2, InsideOnLeft DEF InRing
<1>4. \A i \in DOMAIN rings : Cardinality({p \in polygons : i = p.shell \/ i \in p.holes}) = 1
  BY <1>1, InOnePolygon
<1>5. ASSUME NEW p \in polygons, NEW h \in p.holes
      PROVE  /\ InRing(h) \subseteq InRing(p.shell)
             /\ \A g \in p.holes : g # h => InRing(g) \cap InRing(h) = {}
  <2>1. p.shell \in DOMAIN rings /\ p.holes = HolesOf(p.shell)
    BY <1>1 DEF Assembly, Shells
  <2>2. \A g \in p.holes : g \in DOMAIN rings /\ Encloses(p.shell, g) /\ Depth(g) = Depth(p.shell) + 1
    BY <2>1 DEF HolesOf
  <2>3. RingsNest
    BY NestSo
  <2>4. InRing(h) \subseteq InRing(p.shell)
    <3>1. p.shell # h
      BY <2>2 DEF Encloses
    <3> QED
      BY <2>1, <2>2, <2>3, <3>1 DEF RingsNest
  <2>5. ASSUME NEW g \in p.holes, g # h
        PROVE  InRing(g) \cap InRing(h) = {}
    <3>1. Depth(g) = Depth(h)
      BY <2>2
    <3>2. \A i, j \in DOMAIN rings : Encloses(i, j) => Depth(i) < Depth(j)
      BY <1>1, DeeperInside
    <3>3. \A i \in DOMAIN rings : Depth(i) \in Nat
      BY <1>1, DeeperInside
    <3>4. ~Encloses(g, h) /\ ~Encloses(h, g)
      BY <2>2, <3>1, <3>2, <3>3
    <3> QED
      BY <2>2, <2>3, <2>5, <3>4 DEF RingsNest
  <2> QED
    BY <2>4, <2>5
<1> QED
  BY <1>2, <1>3, <1>4, <1>5

\* Whatever the operation and the operands: where no face is misjudged, the
\* rings obey the even-odd rule (extractResultRings, result.go:101).
THEOREM EvenOddHolds == Spec => []EvenOddRule
  BY MadeAlways, EvenOddSo, PTL

\* The rings lie in each other or apart, as their samples say
\* (AssembleOutputPolygons, assemble.go:97-103 and 144-166).
THEOREM RingsAreNested == Spec => []RingsNest
  BY MadeAlways, NestSo, PTL

\* The polygons that AssembleOutputPolygons makes of the rings cover the
\* result, each cell once.
THEOREM PolygonsCoverResult == Spec => []PolygonsCover
  BY MadeAlways, CoverSo, PTL

\* And every ring is a shell or a hole of one of them, turned the way that a
\* shell or a hole is.
THEOREM RingsHaveOnePolygon == Spec => []EachRingOnce
  BY MadeAlways, OnceSo, PTL

-----------------------------------------------------------------------------
(***************************************************************************)
(* The components of the kept faces.                                       *)
(***************************************************************************)

\* What a union-find of K gives once the links of L are joined: linked faces
\* have one answer, and faces with one answer are not told apart by anything
\* that does not tell linked ones apart.
Joined(K, L, find) ==
  /\ DOMAIN find = K
  /\ \A l \in L : find[l[1]] = find[l[2]]
  /\ \A X : (\A l \in L : l[1] \in X <=> l[2] \in X) =>
       \A f, g \in K : find[f] = find[g] => (f \in X <=> g \in X)

\* One more link joined.
LEMMA JoinOne ==
  ASSUME NEW K, NEW L, NEW find, Joined(K, L, find), NEW link \in K \X K, L \subseteq K \X K
  PROVE  Joined(K, L \cup {link}, JoinFaces(link, find))
<1> DEFINE new == JoinFaces(link, find)
           a == link[1]
           b == link[2]
<1>1. a \in K /\ b \in K /\ \A l \in L : l[1] \in K /\ l[2] \in K
  OBVIOUS
<1>2. DOMAIN new = K /\ \A f \in K : new[f] = IF find[f] = find[a] THEN find[b] ELSE find[f]
  BY DEF Joined, JoinFaces
<1> HIDE DEF new, a, b
<1>3. \A l \in L : new[l[1]] = new[l[2]]
  BY <1>1, <1>2 DEF Joined
<1>4. new[a] = new[b]
  BY <1>1, <1>2
<1>5. ASSUME NEW X, \A l \in L \cup {link} : l[1] \in X <=> l[2] \in X,
             NEW f \in K, NEW g \in K, new[f] = new[g]
      PROVE  f \in X <=> g \in X
  <2>1. \A h, i \in K : find[h] = find[i] => (h \in X <=> i \in X)
    BY <1>5 DEF Joined
  <2>2. a \in X <=> b \in X
    BY <1>5 DEF a, b
  <2> QED
    BY <1>1, <1>2, <1>5, <2>1, <2>2
<1> QED
  BY <1>2, <1>3, <1>4, <1>5 DEF Joined, new, a, b

\* The sets of links that a fold goes through.
Few(L, n) == {s \in SUBSET L : Cardinality(s) <= n}

\* The fold as a function of the links it has gone through.
Folded(L, find, it, T) ==
  it = [s \in T |-> IF s = {} THEN find ELSE JoinFaces(CHOOSE l \in s : TRUE, it[s \ {CHOOSE l \in s : TRUE}])]

\* A step of the fold takes one link away.
LEMMA OneFewer ==
  ASSUME NEW L, IsFiniteSet(L), NEW n \in Nat, NEW s \in Few(L, n + 1), s # {}
  PROVE  LET l == CHOOSE l \in s : TRUE
         IN  l \in s /\ s \ {l} \in Few(L, n) /\ Cardinality(s \ {l}) = Cardinality(s) - 1
<1> DEFINE l == CHOOSE l \in s : TRUE
<1>1. l \in s
  OBVIOUS
<1> HIDE DEF l
<1>2. s \subseteq L /\ Cardinality(s) <= n + 1
  BY DEF Few
<1>3. IsFiniteSet(s) /\ Cardinality(s) \in Nat
  BY <1>2, FS_Subset, FS_CardinalityType
<1>4. Cardinality(s \ {l}) = Cardinality(s) - 1
  BY <1>1, <1>3, FS_RemoveElement
<1>5. s \ {l} \in Few(L, n)
  BY <1>2, <1>3, <1>4 DEF Few
<1> QED
  BY <1>1, <1>4, <1>5 DEF l

\* So there is such a function, whatever the number of links.
LEMMA FoldExists ==
  ASSUME NEW L, IsFiniteSet(L), NEW find
  PROVE  \E it : Folded(L, find, it, SUBSET L)
<1> DEFINE Good == {m \in Nat : \E it : Folded(L, find, it, Few(L, m))}
           Bad == Nat \ Good
<1>1. ASSUME NEW m \in Nat, \A j \in Nat : j \in Good \/ m <= j
      PROVE  m \in Good
  <2>1. CASE m = 0
    <3>1. Few(L, m) = {{}}
      <4>1. \A s \in SUBSET L : Cardinality(s) <= 0 <=> s = {}
        <5> SUFFICES ASSUME NEW s \in SUBSET L PROVE Cardinality(s) <= 0 <=> s = {}
          OBVIOUS
        <5>1. IsFiniteSet(s) /\ Cardinality(s) \in Nat /\ (Cardinality(s) = 0 <=> s = {})
          BY FS_Subset, FS_CardinalityType, FS_EmptySet
        <5> QED
          BY <5>1
      <4> QED
        BY <2>1, <4>1 DEF Few
    <3> DEFINE it == [s \in {{}} |-> find]
    <3>2. Folded(L, find, it, {{}})
      BY DEF Folded
    <3> QED
      BY <2>1, <3>1, <3>2
  <2>2. CASE m # 0
    <3>1. m - 1 \in Nat /\ ~(m <= m - 1) /\ (m - 1) + 1 = m
      BY <2>2
    <3>2. PICK g : Folded(L, find, g, Few(L, m - 1))
      <4>1. m - 1 \in Good
        <5> HIDE DEF Good
        <5> QED
          BY <1>1, <3>1
      <4> QED
        BY <4>1
    <3> DEFINE it == [s \in Few(L, m) |-> IF s = {} THEN find ELSE JoinFaces(CHOOSE l \in s : TRUE, g[s \ {CHOOSE l \in s : TRUE}])]
    <3>3. \A s \in Few(L, m) : s # {} => s \ {CHOOSE l \in s : TRUE} \in Few(L, m - 1)
      BY <3>1, OneFewer
    <3>4. Few(L, m - 1) \subseteq Few(L, m)
      <4> SUFFICES ASSUME NEW s \in Few(L, m - 1) PROVE s \in Few(L, m)
        OBVIOUS
      <4>1. s \in SUBSET L /\ Cardinality(s) <= m - 1
        BY DEF Few
      <4>2. Cardinality(s) \in Nat
        BY <4>1, FS_Subset, FS_CardinalityType
      <4> QED
        BY <4>1, <4>2 DEF Few
    <3>5. \A s \in Few(L, m - 1) : g[s] = it[s]
      <4>1. \A s \in Few(L, m - 1) : g[s] = IF s = {} THEN find ELSE JoinFaces(CHOOSE l \in s : TRUE, g[s \ {CHOOSE l \in s : TRUE}])
        BY <3>2 DEF Folded
      <4> QED
        BY <3>4, <4>1
    <3>6. Folded(L, find, it, Few(L, m))
      <4> DEFINE F(s) == IF s = {} THEN find ELSE JoinFaces(CHOOSE l \in s : TRUE, g[s \ {CHOOSE l \in s : TRUE}])
                 G(s) == IF s = {} THEN find ELSE JoinFaces(CHOOSE l \in s : TRUE, it[s \ {CHOOSE l \in s : TRUE}])
      <4>1. it = [s \in Few(L, m) |-> F(s)]
        OBVIOUS
      <4>2. \A s \in Few(L, m) : s # {} => g[s \ {CHOOSE l \in s : TRUE}] = it[s \ {CHOOSE l \in s : TRUE}]
        BY <3>3, <3>5
      <4> HIDE DEF it
      <4>3. \A s \in Few(L, m) : F(s) = G(s)
        BY <4>2
      <4>4. it = [s \in Few(L, m) |-> G(s)]
        <5> HIDE DEF F, G
        <5> QED
          BY <4>1, <4>3
      <4> QED
        BY <4>4 DEF Folded
    <3> QED
      BY <3>6
  <2> QED
    BY <2>1, <2>2
<1>2. Bad = {}
  <2> SUFFICES ASSUME Bad # {} PROVE FALSE
    OBVIOUS
  <2>1. Bad \in SUBSET Nat
    OBVIOUS
  <2>2. PICK m \in Bad : \A j \in Bad : m <= j
    BY <2>1, LeastNumber
  <2> HIDE DEF Good
  <2> QED
    BY <1>1, <2>2
<1>3. Cardinality(L) \in Nat
  BY FS_CardinalityType
<1>4. Few(L, Cardinality(L)) = SUBSET L
  <2>1. \A s \in SUBSET L : Cardinality(s) <= Cardinality(L)
    BY FS_Subset
  <2> QED
    BY <2>1 DEF Few
<1>5. Cardinality(L) \in Good
  <2> HIDE DEF Good
  <2> QED
    BY <1>2, <1>3
<1> QED
  BY <1>4, <1>5

\* A fold of the links joins them all.
LEMMA FoldJoins ==
  ASSUME NEW K, NEW L, IsFiniteSet(L), L \subseteq K \X K
  PROVE  Joined(K, L, FoldSet(JoinFaces, [f \in K |-> f], L))
<1> DEFINE find == [f \in K |-> f]
           it == CHOOSE it : it = [s \in SUBSET L |-> IF s = {} THEN find ELSE JoinFaces(CHOOSE l \in s : TRUE, it[s \ {CHOOSE l \in s : TRUE}])]
           Bad == {s \in SUBSET L : ~Joined(K, s, it[s])}
           sizes == {Cardinality(s) : s \in Bad}
<1>1. FoldSet(JoinFaces, find, L) = it[L]
  BY DEF FoldSet, MapThenFoldSet
<1> HIDE DEF find
<1>2. Folded(L, find, it, SUBSET L)
  <2>1. \E i : Folded(L, find, i, SUBSET L)
    BY FoldExists
  <2>2. \E i : i = [s \in SUBSET L |-> IF s = {} THEN find ELSE JoinFaces(CHOOSE l \in s : TRUE, i[s \ {CHOOSE l \in s : TRUE}])]
    BY <2>1 DEF Folded
  <2>3. it = [s \in SUBSET L |-> IF s = {} THEN find ELSE JoinFaces(CHOOSE l \in s : TRUE, it[s \ {CHOOSE l \in s : TRUE}])]
    BY <2>2, Zenon
  <2> QED
    BY <2>3 DEF Folded
<1> HIDE DEF it
<1>3. ASSUME NEW s \in Bad, \A t \in Bad : Cardinality(s) <= Cardinality(t)
      PROVE  FALSE
  <2>1. s \in SUBSET L /\ ~Joined(K, s, it[s])
    OBVIOUS
  <2>2. IsFiniteSet(s) /\ Cardinality(s) \in Nat
    BY <2>1, FS_Subset, FS_CardinalityType
  <2>3. CASE s = {}
    <3>1. it[s] = find
      BY <1>2, <2>1, <2>3 DEF Folded
    <3>2. Joined(K, {}, find)
      BY DEF Joined, find
    <3> QED
      BY <2>1, <2>3, <3>1, <3>2
  <2>4. CASE s # {}
    <3> DEFINE l == CHOOSE l \in s : TRUE
               t == s \ {l}
    <3>1. l \in s
      BY <2>4
    <3>2. it[s] = JoinFaces(l, it[t])
      BY <1>2, <2>1, <2>4 DEF Folded
    <3> HIDE DEF l
    <3>3. Cardinality(t) = Cardinality(s) - 1 /\ t \in SUBSET L /\ t \cup {l} = s
      <4>1. Cardinality(s \ {l}) = Cardinality(s) - 1
        BY <2>2, <3>1, FS_RemoveElement
      <4>2. s \ {l} \in SUBSET L /\ (s \ {l}) \cup {l} = s
        BY <2>1, <3>1
      <4> QED
        BY <4>1, <4>2
    <3>4. ~(Cardinality(s) <= Cardinality(t))
      BY <2>2, <3>3
    <3>5. Joined(K, t, it[t])
      BY <1>3, <3>3, <3>4
    <3>6. l \in K \X K /\ t \subseteq K \X K
      BY <2>1, <3>1
    <3> HIDE DEF t
    <3>7. Joined(K, t \cup {l}, JoinFaces(l, it[t]))
      BY <3>5, <3>6, JoinOne
    <3> QED
      BY <2>1, <3>2, <3>3, <3>7
  <2> QED
    BY <2>3, <2>4
<1>4. Bad = {}
  <2> SUFFICES ASSUME Bad # {} PROVE FALSE
    OBVIOUS
  <2>1. \A s \in Bad : Cardinality(s) \in Nat
    BY FS_Subset, FS_CardinalityType
  <2>2. sizes \in SUBSET Nat /\ sizes # {}
    BY <2>1
  <2> HIDE DEF Bad
  <2>3. PICK n \in sizes : \A j \in sizes : n <= j
    BY <2>2, LeastNumber
  <2>4. PICK s \in Bad : n = Cardinality(s)
    OBVIOUS
  <2> QED
    BY <1>3, <2>3, <2>4
<1>5. L \in SUBSET L
  OBVIOUS
<1>6. Joined(K, L, it[L])
  BY <1>4, <1>5
<1> QED
  BY <1>1, <1>6 DEF find

\* A face is one cycle: what holds the half-edges before and after each of its
\* own holds all of the face or none of it.
Whole ==
  \A e \in DOMAIN face : \A Z \in SUBSET Edges :
    (\A x \in Edges : x \in Z <=> next[x] \in Z) => (e \in Z <=> face[e] \in Z)

\* The components are those of the kept faces.
Rooted == Edges # {} /\ stage \notin Early \cup {"op"} => root = Components(keep)

\* The invariant.
CompInv == RingInv /\ Whole /\ Rooted

\* A face is traced whole, and no other face is changed.
LEMMA WholeKept == GridInv /\ Whole /\ [Next]_vars => Whole'
<1> SUFFICES ASSUME GridInv, Whole, [Next]_vars PROVE Whole'
  OBVIOUS
<1>1. CASE TraceFace
  <2> DEFINE e == First(Edges \ DOMAIN face)
  <2>1. e \in Edges
    <3>1. Edges \ DOMAIN face \in SUBSET Lattice /\ Edges \ DOMAIN face # {}
      BY <1>1, EdgesOnGrid DEF TraceFace, GridInv
    <3> QED
      BY <3>1, FirstIsIn
  <2>2. /\ face' = [x \in DOMAIN face \cup Cycle(e) |-> IF x \in Cycle(e) THEN e ELSE face[x]]
        /\ next' = next /\ Edges' = Edges
    BY <1>1 DEF TraceFace, dcel, Edges
  <2> HIDE DEF e
  <2>3. DOMAIN face' = DOMAIN face \cup Cycle(e)
    BY <2>2
  <2> SUFFICES ASSUME NEW x \in DOMAIN face', NEW Z \in SUBSET Edges, \A y \in Edges : y \in Z <=> next[y] \in Z
               PROVE  x \in Z <=> face'[x] \in Z
    BY <2>2 DEF Whole
  <2>4. \A y \in Edges : next[y] \in Edges
    BY DEF GridInv, Built
  <2>5. IsFiniteSet(Edges)
    BY EdgesOnGrid DEF GridInv
  <2>6. CASE x \in Cycle(e)
    <3>1. face'[x] = e
      BY <2>2, <2>3, <2>6
    <3>2. e \in Z => Cycle(e) \subseteq Z
      <4>1. \A y \in Z : next[y] \in Z
        OBVIOUS
      <4> QED
        BY <2>5, <4>1, CycleStays
    <3>3. e \notin Z => Cycle(e) \subseteq Edges \ Z
      <4>1. \A y \in Edges \ Z : next[y] \in Edges \ Z
        BY <2>4
      <4> QED
        BY <2>1, <2>5, <4>1, CycleStays
    <3> QED
      BY <2>6, <3>1, <3>2, <3>3
  <2>7. CASE x \notin Cycle(e)
    <3>1. x \in DOMAIN face /\ face'[x] = face[x]
      BY <2>2, <2>3, <2>7
    <3> QED
      BY <3>1 DEF Whole
  <2> QED
    BY <2>6, <2>7
<1>2. CASE Build
  <2>1. face' = face /\ DOMAIN face = {}
    BY <1>2 DEF Build, GridInv, Built, Traced
  <2> QED
    BY <2>1 DEF Whole
<1>3. CASE UNCHANGED <<tags, next, face>>
  BY <1>3 DEF Whole, Edges
<1> QED
  BY <1>1, <1>2, <1>3, WhatChanges DEF TraceFace, Build

\* The components are found when the faces are chosen, and then they stay.
LEMMA RootedKept == ResultInv /\ Rooted /\ [Next]_vars => Rooted'
<1> SUFFICES ASSUME ResultInv, Rooted, [Next]_vars, Edges' # {}, stage' \notin Early \cup {"op"}
             PROVE  root' = Components(keep)'
  BY DEF Rooted
<1> USE DEF ResultInv
<1>1. CASE ApplyOp
  <2>1. UNCHANGED <<tags, face>> /\ root' = Components(keep')
    BY <1>1 DEF ApplyOp, dcel
  <2> QED
    BY <2>1 DEF Components, Edges
<1>2. CASE ~ApplyOp
  <2>1. stage \notin Early \cup {"op"} /\ Edges # {}
    <3>1. CASE Prepare \/ Repair
      <4>1. Edges = {} /\ tags' = tags
        BY <3>1 DEF GridInv, Built, Prepare, Repair, dcel
      <4> QED
        BY <4>1 DEF Edges
    <3>2. CASE ~Prepare /\ ~Repair
      <4>1. stage \notin Early \cup {"op"}
        BY <1>2, <3>2 DEF Early, Next, vars, Build, TraceFace, Classify, StartRing, GrowRing,
               CloseRing, Assemble, StartLine, GrowForward, GrowBackward, ExtractPoints, Done
      <4>2. UNCHANGED tags
        BY <4>1, WhatChanges DEF Early
      <4> QED
        BY <4>1, <4>2 DEF Edges
    <3> QED
      BY <3>1, <3>2
  <2>2. UNCHANGED <<tags, face, keep>>
    BY <1>2, <2>1, WhatChanges DEF Early
  <2>3. UNCHANGED root
    BY <1>2, <2>1 DEF Early, Next, vars, labels, Prepare, Repair, Build, TraceFace, Classify, StartRing, GrowRing,
               CloseRing, Assemble, StartLine, GrowForward, GrowBackward, ExtractPoints, Done
  <2> QED
    BY <2>1, <2>2, <2>3 DEF Rooted, Components, Edges
<1> QED
  BY <1>1, <1>2

\* It holds in every state.
LEMMA CompAlways == Spec => []CompInv
<1>1. Init => Whole /\ Rooted
  BY DEF Init, Whole, Rooted, Edges
<1>2. CompInv /\ [Next]_vars => Whole' /\ Rooted'
  BY WholeKept, RootedKept DEF CompInv, RingInv, ResultInv
<1>3. CompInv <=> RingInv /\ Whole /\ Rooted
  BY DEF CompInv
<1> QED
  BY <1>1, <1>2, <1>3, RingAlways, PTL DEF Spec

\* Kept faces that share an edge have one root, and nothing that holds both or
\* neither of any two such faces tells faces of one root apart.
LEMMA RootsAre ==
  ASSUME CompInv, Edges # {}, stage \notin Early \cup {"op"}
  PROVE  /\ \A e \in Edges : face[e] \in keep /\ face[Twin(e)] \in keep => root[face[e]] = root[face[Twin(e)]]
         /\ \A X : (\A e \in Edges : face[e] \in keep /\ face[Twin(e)] \in keep => (face[e] \in X <=> face[Twin(e)] \in X))
              => \A f, g \in keep : root[f] = root[g] => (f \in X <=> g \in X)
<1> DEFINE shared == {<<face[e], face[Twin(e)]>> : e \in Edges}
           L == shared \cap (keep \X keep)
<1>1. root = FoldSet(JoinFaces, [f \in keep |-> f], L)
  BY DEF CompInv, Rooted, Components
<1>2. IsFiniteSet(L)
  <2>1. IsFiniteSet(Edges)
    BY EdgesOnGrid DEF CompInv, RingInv, ResultInv, GridInv
  <2>2. keep \subseteq Edges
    BY DEF CompInv, RingInv, ResultInv, GridInv, Traced, Faces
  <2>3. IsFiniteSet(keep)
    BY <2>1, <2>2, FS_Subset
  <2>4. IsFiniteSet(keep \X keep)
    BY <2>3, FS_Product
  <2> QED
    BY <2>4, FS_Subset
<1>3. L \subseteq keep \X keep
  OBVIOUS
<1>4. \A e \in Edges : face[e] \in keep /\ face[Twin(e)] \in keep => <<face[e], face[Twin(e)]>> \in L
  OBVIOUS
<1>5. \A l \in L : \E e \in Edges : l = <<face[e], face[Twin(e)]>> /\ face[e] \in keep /\ face[Twin(e)] \in keep
  OBVIOUS
<1> HIDE DEF L
<1>6. Joined(keep, L, root)
  BY <1>1, <1>2, <1>3, FoldJoins
<1>7. ASSUME NEW e \in Edges, face[e] \in keep, face[Twin(e)] \in keep
      PROVE  root[face[e]] = root[face[Twin(e)]]
  <2> DEFINE l == <<face[e], face[Twin(e)]>>
  <2>1. l \in L
    BY <1>4, <1>7
  <2>2. root[l[1]] = root[l[2]]
    BY <1>6, <2>1 DEF Joined
  <2> QED
    BY <2>2
<1>8. \A X : (\A e \in Edges : face[e] \in keep /\ face[Twin(e)] \in keep => (face[e] \in X <=> face[Twin(e)] \in X))
              => \A f, g \in keep : root[f] = root[g] => (f \in X <=> g \in X)
  <2> SUFFICES ASSUME NEW X, \A e \in Edges : face[e] \in keep /\ face[Twin(e)] \in keep => (face[e] \in X <=> face[Twin(e)] \in X)
               PROVE  \A f, g \in keep : root[f] = root[g] => (f \in X <=> g \in X)
    OBVIOUS
  <2>1. \A l \in L : l[1] \in X <=> l[2] \in X
    BY <1>5
  <2> QED
    BY <1>6, <2>1 DEF Joined
<1>9. \A e \in Edges : face[e] \in keep /\ face[Twin(e)] \in keep => root[face[e]] = root[face[Twin(e)]]
  BY <1>7
<1> QED
  BY <1>8, <1>9

\* Cells that only the boundary of the result can border hold on the left of
\* half-edges whose faces have one root, of all of them or of none.
LEMMA SameSide ==
  ASSUME CompInv, Edges # {}, stage \notin Early \cup {"op"}, DOMAIN face = Edges, NEW D \in SUBSET Cell,
         \A e \in Lattice : LeftCell(e) \in D /\ LeftCell(Twin(e)) \notin D => IsBoundary(e) \/ IsBoundary(Twin(e)),
         NEW e \in Edges, NEW f \in Edges, face[e] \in keep, face[f] \in keep, root[face[e]] = root[face[f]]
  PROVE  LeftCell(e) \in D <=> LeftCell(f) \in D
<1> USE DEF CompInv, RingInv, ResultInv, GridInv
<1> DEFINE o == [cells |-> D, spikes |-> {}]
           Z == {x \in Edges : LeftCell(x) \in D}
<1>1. Edges \subseteq Lattice /\ \A x \in Edges : x \in Lattice /\ Twin(x) \in Edges /\ Twin(Twin(x)) = x
  BY EdgesOnGrid, TwinOfTwin
<1>2. IsOperand(o)
  BY DEF IsOperand
<1>3. RingEdges(o) \subseteq Edges
  <2> SUFFICES ASSUME NEW x \in RingEdges(o) PROVE x \in Edges
    OBVIOUS
  <2>1. x \in Lattice /\ (LeftCell(x) \in D) # (LeftCell(Twin(x)) \in D)
    BY DEF RingEdges
  <2>2. Twin(x) \in Lattice /\ Twin(Twin(x)) = x
    BY <2>1, TwinOfTwin
  <2>3. IsBoundary(x) \/ IsBoundary(Twin(x))
    BY <2>1, <2>2
  <2> QED
    BY <1>1, <2>2, <2>3 DEF IsBoundary
<1>4. \A x \in Edges : next[x] \in Edges /\ (LeftCell(x) \in D <=> LeftCell(next[x]) \in D)
  <2> SUFFICES ASSUME NEW x \in Edges
               PROVE  next[x] \in Edges /\ (LeftCell(x) \in D <=> LeftCell(next[x]) \in D)
    OBVIOUS
  <2>1. next[x] = NextEdge(x, Edges)
    BY DEF Ahead
  <2>2. o.cells = D
    OBVIOUS
  <2> HIDE DEF o
  <2>3. NextEdge(x, Edges) \in Edges /\ (LeftCell(x) \in o.cells <=> LeftCell(NextEdge(x, Edges)) \in o.cells)
    BY <1>1, <1>2, <1>3, NextSameSide
  <2> QED
    BY <2>1, <2>2, <2>3
<1>5. \A x \in Edges : face[x] \in Edges /\ (x \in Z <=> face[x] \in Z)
  <2>1. Z \in SUBSET Edges /\ \A x \in Edges : x \in Z <=> next[x] \in Z
    BY <1>4
  <2>2. \A x \in Edges : face[x] \in Edges
    BY DEF Traced
  <2> HIDE DEF Z
  <2> QED
    BY <2>1, <2>2 DEF Whole
<1>6. ASSUME NEW x \in Edges, face[x] \in keep, face[Twin(x)] \in keep
      PROVE  face[x] \in Z <=> face[Twin(x)] \in Z
  <2>1. ~IsBoundary(x) /\ ~IsBoundary(Twin(x))
    BY <1>1, <1>6 DEF IsBoundary
  <2>2. LeftCell(x) \in D <=> LeftCell(Twin(x)) \in D
    BY <1>1, <2>1
  <2>3. x \in Z <=> Twin(x) \in Z
    BY <1>1, <2>2
  <2> HIDE DEF Z
  <2> QED
    BY <1>1, <1>5, <2>3
<1>7. face[e] \in Z <=> face[f] \in Z
  <2> HIDE DEF Z
  <2>1. \A X : (\A x \in Edges : face[x] \in keep /\ face[Twin(x)] \in keep => (face[x] \in X <=> face[Twin(x)] \in X))
              => \A g, h \in keep : root[g] = root[h] => (g \in X <=> h \in X)
    BY RootsAre
  <2>2. \A g, h \in keep : root[g] = root[h] => (g \in Z <=> h \in Z)
    BY <1>6, <2>1
  <2> QED
    BY <2>2
<1> QED
  BY <1>5, <1>7

\* Round a vertex: from where a kept sector follows b clockwise, kept sectors
\* side by side lead on to the last of them.
LEMMA AroundInSet ==
  ASSUME NEW P \in SUBSET {0, 1, 2, 3}, NEW K \in SUBSET P,
         NEW b \in P, b \notin K, NEW Q \in SUBSET K, Clockwise(P, b) \in Q,
         \A d \in Q : Clockwise(P, d) \in K => Clockwise(P, d) \in Q
  PROVE  \E k \in 1..3 : LET d == (b + k) % 4 IN d \in Q /\ Clockwise(P, d) \notin K
<1>1. (0 + 3) % 4 = 3 /\ (0 + 2) % 4 = 2 /\ (0 + 1) % 4 = 1 /\ (1 + 3) % 4 = 0 /\ (1 + 2) % 4 = 3 /\ (1 + 1) % 4 = 2
      /\ (2 + 3) % 4 = 1 /\ (2 + 2) % 4 = 0 /\ (2 + 1) % 4 = 3 /\ (3 + 3) % 4 = 2 /\ (3 + 2) % 4 = 1 /\ (3 + 1) % 4 = 0
  OBVIOUS
<1>2. \A x \in P :
        /\ x = 0 => Clockwise(P, x) = IF 3 \in P THEN 3 ELSE IF 2 \in P THEN 2 ELSE IF 1 \in P THEN 1 ELSE 0
        /\ x = 1 => Clockwise(P, x) = IF 0 \in P THEN 0 ELSE IF 3 \in P THEN 3 ELSE IF 2 \in P THEN 2 ELSE 1
        /\ x = 2 => Clockwise(P, x) = IF 1 \in P THEN 1 ELSE IF 0 \in P THEN 0 ELSE IF 3 \in P THEN 3 ELSE 2
        /\ x = 3 => Clockwise(P, x) = IF 2 \in P THEN 2 ELSE IF 1 \in P THEN 1 ELSE IF 0 \in P THEN 0 ELSE 3
  BY <1>1, ClockwiseIs
<1>3. \A x \in P : x \in {0, 1, 2, 3}
  OBVIOUS
<1>4. \A x \in K : x \in P
  OBVIOUS
<1>5. \A x \in Q : x \in K
  OBVIOUS
<1>6. CASE b = 0
  <2>1. \E k \in {1, 2, 3} : (0 + k) % 4 \in Q /\ Clockwise(P, (0 + k) % 4) \notin K
    BY <1>1, <1>2, <1>3, <1>4, <1>5, <1>6
  <2> QED
    BY <1>6, <2>1
<1>7. CASE b = 1
  <2>1. \E k \in {1, 2, 3} : (1 + k) % 4 \in Q /\ Clockwise(P, (1 + k) % 4) \notin K
    BY <1>1, <1>2, <1>3, <1>4, <1>5, <1>7
  <2> QED
    BY <1>7, <2>1
<1>8. CASE b = 2
  <2>1. \E k \in {1, 2, 3} : (2 + k) % 4 \in Q /\ Clockwise(P, (2 + k) % 4) \notin K
    BY <1>1, <1>2, <1>3, <1>4, <1>5, <1>8
  <2> QED
    BY <1>8, <2>1
<1>9. CASE b = 3
  <2>1. \E k \in {1, 2, 3} : (3 + k) % 4 \in Q /\ Clockwise(P, (3 + k) % 4) \notin K
    BY <1>1, <1>2, <1>3, <1>4, <1>5, <1>9
  <2> QED
    BY <1>9, <2>1
<1> QED
  BY <1>3, <1>6, <1>7, <1>8, <1>9

\* The face beyond a half-edge out of a vertex is that of the next one clockwise.
LEMMA FaceBeyond ==
  ASSUME GridInv, Ahead, DOMAIN face = Edges, NEW v, v = <<v[1], v[2]>>, NEW d \in Out(v, Edges)
  PROVE  LET o == <<v[1], v[2], d>>
             c == Clockwise(Out(v, Edges), d)
         IN  o \in Edges /\ c \in Out(v, Edges) /\ face[Twin(o)] = face[<<v[1], v[2], c>>]
<1> DEFINE P == Out(v, Edges)
           o == <<v[1], v[2], d>>
           t == Twin(o)
<1>1. o \in Edges
  BY DEF Out
<1>2. o \in Lattice /\ t \in Edges /\ t \in Lattice /\ Twin(t) = o
  BY <1>1, EdgesOnGrid, TwinOfTwin DEF GridInv
<1>3. LET u == Target(t)
          c == (t[3] + 2) % 4
      IN  /\ u = <<u[1], u[2]>> /\ Twin(t) = <<u[1], u[2], c>>
          /\ Clockwise(Out(u, Edges), c) \in Out(u, Edges)
          /\ face[t] = face[<<u[1], u[2], Clockwise(Out(u, Edges), c)>>]
  BY <1>2, FaceAtEnd
<1>4. Target(t) = v /\ (t[3] + 2) % 4 = d
  <2> HIDE DEF t
  <2>1. <<v[1], v[2], d>> = <<Target(t)[1], Target(t)[2], (t[3] + 2) % 4>>
    BY <1>2, <1>3
  <2> QED
    BY <1>3, <2>1
<1>5. face[t] = face[<<v[1], v[2], Clockwise(P, d)>>] /\ Clockwise(P, d) \in P
  <2> HIDE DEF t
  <2> QED
    BY <1>3, <1>4 DEF P
<1> QED
  BY <1>1, <1>5

\* A ring stays in one component: there is always a way on in its own.
LEMMA StaysInComponent ==
  ASSUME CompInv, Edges # {}, stage \notin Early \cup {"op"}, DOMAIN face = Edges, NEW e, IsBoundary(e)
  PROVE  root[face[NextBoundary(e)]] = root[face[e]]
<1> USE DEF CompInv, RingInv, ResultInv
<1> DEFINE v == Target(e)
           b == (e[3] + 2) % 4
           P == Out(v, Edges)
           K == KeptAt(v)
           out(d) == <<v[1], v[2], d>>
           Q == {d \in K : root[face[out(d)]] = root[face[e]]}
           turn(k) == Turn(v, b, k)
           any == {k \in 1..3 : IsBoundary(turn(k))}
           same == {k \in any : root[face[turn(k)]] = root[face[e]]}
<1>1. e \in Edges
  BY DEF IsBoundary
<1>2. /\ v = <<v[1], v[2]>> /\ P \in SUBSET {0, 1, 2, 3} /\ b \in P
      /\ face[e] = face[out(Clockwise(P, b))]
  BY <1>1, FaceAtEnd
<1>3. b \notin K /\ Clockwise(P, b) \in K /\ K \in SUBSET P
  BY <1>1, WaysInAndOut DEF KeptAt
<1>4. Q \in SUBSET K /\ Clockwise(P, b) \in Q
  BY <1>2, <1>3
<1>5. ASSUME NEW d \in Q, Clockwise(P, d) \in K
      PROVE  Clockwise(P, d) \in Q
  <2>1. d \in P
    BY <1>3, <1>4
  <2>2. out(d) \in Edges /\ face[Twin(out(d))] = face[out(Clockwise(P, d))]
    <3> HIDE DEF v
    <3> QED
      BY <1>2, <2>1, FaceBeyond
  <2>3. face[out(d)] \in keep /\ face[out(Clockwise(P, d))] \in keep
    BY <1>5 DEF KeptAt
  <2>4. root[face[out(d)]] = root[face[Twin(out(d))]]
    <3> HIDE DEF out
    <3> QED
      BY <2>2, <2>3, RootsAre
  <2> HIDE DEF out, v, b, P, K
  <2> QED
    BY <1>5, <2>2, <2>4
<1>6. PICK k \in 1..3 : (b + k) % 4 \in Q /\ Clockwise(P, (b + k) % 4) \notin K
  <2>1. P \in SUBSET {0, 1, 2, 3} /\ K \in SUBSET P /\ b \in P /\ b \notin K
    BY <1>2, <1>3
  <2> HIDE DEF b, v, P, K, Q
  <2> QED
    BY <1>4, <1>5, <2>1, AroundInSet
<1>7. turn(k) = out((b + k) % 4)
  BY DEF Turn
<1>8. IsBoundary(out((b + k) % 4)) /\ root[face[out((b + k) % 4)]] = root[face[e]]
  BY <1>1, <1>3, <1>6, WaysInAndOut
<1>9. k \in same
  BY <1>7, <1>8
<1>10. NextBoundary(e) = IF same # {} THEN turn(Min(same)) ELSE IF any # {} THEN turn(Min(any)) ELSE Nil
  BY DEF NextBoundary
<1>11. Min(same) \in same
  <2>1. same \in SUBSET (1..4) /\ same # {}
    BY <1>9
  <2> HIDE DEF same
  <2> QED
    BY <2>1, LeastOfFour
<1>12. root[face[turn(Min(same))]] = root[face[e]]
  BY <1>11
<1> HIDE DEF same, any, turn
<1> QED
  BY <1>9, <1>10, <1>12

-----------------------------------------------------------------------------
(***************************************************************************)
(* What comes back to a vertex.                                            *)
(***************************************************************************)

\* No cell off the grid is inside a ring.
LEMMA OutsideGrid ==
  ASSUME NEW r, IsRound(r), OneWay(ToSet(r)), NEW x \in Int, NEW y \in Int, <<x, y>> \notin Cell
  PROVE  ~CellInside(<<x, y>>, ToSet(r))
<1> DEFINE E == ToSet(r)
           in(u, v) == CellInside(<<u, v>>, E)
           bad == {v \in 0..(Height - 1) : in(x, v)}
<1>0. E \in SUBSET Lattice /\ Width \in Nat /\ Height \in Nat
  BY Grid DEF OneWay
<1>1. \A u, v \in Int : ~(v \in 0..(Height - 1)) => ~in(u, v)
  <2> SUFFICES ASSUME NEW u \in Int, NEW v \in Int, ~(v \in 0..(Height - 1)) PROVE ~in(u, v)
    OBVIOUS
  <2>1. \A e \in E : e \notin Crossed(E, u, v)
    <3> SUFFICES ASSUME NEW e \in E, e \in Crossed(E, u, v) PROVE FALSE
      OBVIOUS
    <3>1. e \in Lattice
      BY <1>0
    <3>2. PICK a \in 0..Width, b \in 0..Height, d \in {0, 1, 2, 3} : e = <<a, b, d>> /\ Target(e)[2] \in 0..Height
      BY <3>1, OnGrid
    <3>3. (b = v /\ d = 2) \/ (b = v + 1 /\ d = 0)
      BY <3>2 DEF Crossed
    <3>4. Target(e)[2] = b + Dy[d + 1]
      BY <3>2 DEF Target
    <3>5. Dy[3] = 1 /\ Dy[1] = -1
      BY DEF Dy
    <3>6. CASE b = v /\ d = 2
      BY <1>0, <3>2, <3>4, <3>5, <3>6
    <3>7. CASE b = v + 1 /\ d = 0
      BY <1>0, <3>2, <3>4, <3>5, <3>7
    <3> QED
      BY <3>3, <3>6, <3>7
  <2>2. Crossed(E, u, v) = {}
    BY <2>1 DEF Crossed
  <2> QED
    BY <1>0, <2>2, InsideIs, OddFirst
<1>2. x >= Width => ~in(x, y)
  BY <1>0, OutsideRight
<1>3. x < 0 => \A v \in Int : in(x, v) <=> in(x, v - 1)
  <2> SUFFICES ASSUME x < 0, NEW v \in Int PROVE in(x, v) <=> in(x, v - 1)
    OBVIOUS
  <2>1. ~Flat(E, x, v)
    <3>1. <<x, v, 1>> \notin Lattice
      BY <1>0 DEF Lattice
    <3>2. <<x + 1, v, 3>> \notin Lattice
      <4>1. Target(<<x + 1, v, 3>>) = <<x + 1 + Dx[4], v + Dy[4]>>
        BY DEF Target
      <4>2. Dx[4] = -1
        BY DEF Dx
      <4>3. Target(<<x + 1, v, 3>>)[1] = x
        BY <4>1, <4>2
      <4> QED
        BY <1>0, <4>1, <4>3 DEF Lattice
    <3> QED
      BY <1>0, <3>1, <3>2 DEF Flat
  <2> QED
    BY <2>1, AcrossFlat
<1> HIDE DEF in
<1>4. SUFFICES ASSUME x < 0, y \in 0..(Height - 1), in(x, y) PROVE FALSE
  <2>1. x >= Width \/ x < 0 \/ ~(y \in 0..(Height - 1))
    BY <1>0 DEF Cell
  <2> QED
    BY <1>1, <1>2, <1>4, <2>1 DEF in
<1>5. PICK m \in bad : \A j \in bad : m <= j
  <2>1. bad \in SUBSET Nat /\ bad # {}
    BY <1>0, <1>4
  <2> QED
    BY <2>1, LeastNumber
<1>6. m \in Int /\ m - 1 \in Int /\ m \in 0..(Height - 1) /\ in(x, m) /\ ~(m <= m - 1)
  BY <1>0, <1>5
<1>7. in(x, m - 1)
  BY <1>3, <1>4, <1>6
<1>8. m - 1 \in 0..(Height - 1)
  BY <1>1, <1>6, <1>7
<1> QED
  BY <1>5, <1>6, <1>7, <1>8

\* What comes back to a point within a ring is a smaller ring.
LEMMA PartIsRound ==
  ASSUME NEW r, IsRound(r), NEW a \in DOMAIN r, NEW b \in DOMAIN r, a < b, Origin(r[a]) = Origin(r[b])
  PROVE  \E s : IsRound(s) /\ \A e : e \in ToSet(s) <=> \E c \in a..(b - 1) : e = r[c]
<1> DEFINE n == b - a
           s == [k \in 1..n |-> r[a + k - 1]]
<1>1. /\ Len(r) \in Nat /\ DOMAIN r = 1..Len(r) /\ r \in Seq(Lattice) /\ a \in 1..Len(r) /\ b \in 1..Len(r)
      /\ \A c \in 1..Len(r) : r[c] \in Lattice
  BY DEF IsRound
<1>2. n \in Nat /\ n > 0 /\ \A k \in 1..n : a + k - 1 \in 1..Len(r) /\ a + k - 1 # Len(r) /\ a + k - 1 \in a..(b - 1)
  BY <1>1
<1>3. s \in Seq(Lattice) /\ Len(s) = n /\ DOMAIN s = 1..n
  BY <1>1, <1>2
<1>4. \A k, l \in 1..n : s[k] = s[l] => k = l
  <2> SUFFICES ASSUME NEW k \in 1..n, NEW l \in 1..n, s[k] = s[l] PROVE k = l
    OBVIOUS
  <2>1. a + k - 1 = a + l - 1
    BY <1>1, <1>2 DEF IsRound
  <2> QED
    BY <1>1, <1>2, <2>1
<1>5. \A k \in 1..n : Target(s[k]) = Origin(s[After(s, k)])
  <2> SUFFICES ASSUME NEW k \in 1..n PROVE Target(s[k]) = Origin(s[After(s, k)])
    OBVIOUS
  <2>1. Target(s[k]) = Origin(r[a + k - 1 + 1])
    <3>1. After(r, a + k - 1) = a + k - 1 + 1
      BY <1>2 DEF After
    <3> QED
      BY <1>1, <1>2, <3>1 DEF IsRound
  <2>2. CASE k = n
    <3>1. After(s, k) = 1 /\ a + k - 1 + 1 = b /\ a + 1 - 1 = a /\ 1 \in 1..n
      BY <1>1, <1>2, <1>3, <2>2 DEF After
    <3>2. s[1] = r[a]
      BY <3>1
    <3> HIDE DEF s
    <3> QED
      BY <2>1, <3>1, <3>2
  <2>3. CASE k # n
    <3>1. After(s, k) = k + 1 /\ k + 1 \in 1..n /\ a + (k + 1) - 1 = a + k - 1 + 1
      BY <1>1, <1>2, <1>3, <2>3 DEF After
    <3>2. s[k + 1] = r[a + k - 1 + 1]
      BY <3>1
    <3> HIDE DEF s
    <3> QED
      BY <2>1, <3>1, <3>2
  <2> QED
    BY <2>2, <2>3
<1>6. \A e : e \in ToSet(s) <=> \E c \in a..(b - 1) : e = r[c]
  <2>1. \A e : e \in ToSet(s) <=> \E k \in 1..n : e = r[a + k - 1]
    BY <1>3 DEF ToSet
  <2>2. \A c \in a..(b - 1) : c - a + 1 \in 1..n /\ a + (c - a + 1) - 1 = c
    BY <1>1
  <2> QED
    BY <1>2, <2>1, <2>2
<1>7. IsRound(s)
  <2> HIDE DEF s
  <2> QED
    BY <1>2, <1>3, <1>4, <1>5 DEF IsRound
<1> QED
  BY <1>6, <1>7

\* A ring as a walk of the grid along the boundary.
LEMMA RingsAreWalks ==
  ASSUME RingInv, Edges # {}, NEW i \in DOMAIN rings
  PROVE  LET r == rings[i]
         IN  /\ stage \notin Early \cup {"op"} /\ DOMAIN face = Edges
             /\ Len(r) \in Nat /\ DOMAIN r = 1..Len(r)
             /\ \A a \in DOMAIN r : /\ r[a] \in Edges /\ r[a] \in Lattice /\ IsBoundary(r[a])
                                    /\ NextBoundary(r[a]) = r[After(r, a)] /\ Target(r[a]) = Origin(r[After(r, a)])
             /\ \A a, b \in DOMAIN r : r[a] = r[b] => a = b
             /\ Len(r) > 0 => IsRound(r)
<1> DEFINE r == rings[i]
<1> USE DEF RingInv, ResultInv
<1>1. stage \notin Early \cup {"op"} /\ DOMAIN face = Edges
  <2>1. rings # <<>>
    OBVIOUS
  <2> QED
    BY <2>1, RingsAreLate
<1>2. rings \in Seq(Seq(Edges)) /\ r \in Seq(Edges) /\ Len(r) \in Nat /\ DOMAIN r = 1..Len(r)
  BY DEF Looped, RingsClosed
<1>3. Edges \subseteq Lattice
  BY EdgesOnGrid DEF GridInv
<1>4. \A a \in DOMAIN r : r[a] \in Edges /\ r[a] \in Lattice /\ IsBoundary(r[a]) /\ NextBoundary(r[a]) = r[After(r, a)]
  BY <1>2, <1>3 DEF Bordered, ToSet, Looped, RingsClosed
<1>5. \A a \in DOMAIN r : Target(r[a]) = Origin(r[After(r, a)])
  <2> SUFFICES ASSUME NEW a \in DOMAIN r PROVE Target(r[a]) = Origin(r[After(r, a)])
    OBVIOUS
  <2>1. Origin(NextBoundary(r[a])) = Target(r[a])
    BY <1>1, <1>4, BoundaryGoesOn
  <2> QED
    BY <1>4, <2>1
<1>6. \A a, b \in DOMAIN r : r[a] = r[b] => a = b
  BY DEF Looped, RingsClosed
<1>7. r \in Seq(Lattice)
  BY <1>2, <1>3
<1>8. Len(r) > 0 => IsRound(r)
  BY <1>5, <1>6, <1>7 DEF IsRound
<1> QED
  BY <1>1, <1>2, <1>4, <1>5, <1>6, <1>8

\* All of a ring lies along one component.
LEMMA RootAlong ==
  ASSUME CompInv, Edges # {}, NEW i \in DOMAIN rings, NEW a \in DOMAIN rings[i], NEW b \in DOMAIN rings[i]
  PROVE  root[face[rings[i][a]]] = root[face[rings[i][b]]]
<1> DEFINE r == rings[i]
           is(c) == root[face[r[c]]] = root[face[r[1]]]
           bad == {c \in DOMAIN r : ~is(c)}
<1>1. /\ stage \notin Early \cup {"op"} /\ DOMAIN face = Edges /\ Len(r) \in Nat /\ DOMAIN r = 1..Len(r)
      /\ \A c \in DOMAIN r : IsBoundary(r[c]) /\ NextBoundary(r[c]) = r[After(r, c)]
  BY RingsAreWalks DEF CompInv
<1>2. SUFFICES bad = {}
  <2>1. is(a) /\ is(b)
    BY <1>2
  <2> QED
    BY <2>1
<1>3. SUFFICES ASSUME bad # {} PROVE FALSE
  OBVIOUS
<1>4. PICK m \in bad : \A j \in bad : m <= j
  <2>1. bad \in SUBSET Nat
    BY <1>1
  <2> QED
    BY <1>3, <2>1, LeastNumber
<1>5. m # 1 /\ m \in 1..Len(r) /\ ~is(m)
  BY <1>1, <1>4
<1>6. m - 1 \in DOMAIN r /\ After(r, m - 1) = m /\ ~(m <= m - 1)
  BY <1>1, <1>5 DEF After
<1>7. is(m - 1)
  BY <1>4, <1>6
<1>8. root[face[NextBoundary(r[m - 1])]] = root[face[r[m - 1]]]
  BY <1>1, <1>6, StaysInComponent
<1> QED
  BY <1>1, <1>5, <1>6, <1>7, <1>8

\* Where a boundary comes to one point twice, by edges that are left by edges
\* of one component, it leaves the point on the other side.
LEMMA CutAtPinch ==
  ASSUME GridInv, Ahead, DOMAIN face = Edges, NEW e, NEW f, IsBoundary(e), IsBoundary(f),
         Target(e) = Target(f), e # f, root[face[NextBoundary(e)]] = root[face[NextBoundary(f)]]
  PROVE  /\ LeftCell(NextBoundary(f)) = LeftCell(e)
         /\ LeftCell(Twin(NextBoundary(e))) = LeftCell(Twin(e))
<1> DEFINE v == Target(e)
           b == (e[3] + 2) % 4
           c == (f[3] + 2) % 4
           p == <<v[1], v[2], (b + 1) % 4>>
           q == <<v[1], v[2], (b + 3) % 4>>
<1>1. /\ v = <<v[1], v[2]>> /\ b \in {0, 1, 2, 3} /\ c = (b + 2) % 4 /\ IsBoundary(p) /\ IsBoundary(q)
      /\ NextBoundary(e) = IF root[face[p]] = root[face[q]] THEN p ELSE q
  BY AtPinch
<1>2. NextBoundary(f) = IF root[face[q]] = root[face[p]] THEN q ELSE p
  <2>1. (c + 1) % 4 = (b + 3) % 4 /\ (c + 3) % 4 = (b + 1) % 4
    <3> HIDE DEF b, c
    <3> QED
      BY <1>1
  <2>2. LET x == <<Target(f)[1], Target(f)[2], (c + 1) % 4>>
            y == <<Target(f)[1], Target(f)[2], (c + 3) % 4>>
        IN  NextBoundary(f) = IF root[face[x]] = root[face[y]] THEN x ELSE y
    BY AtPinch
  <2> HIDE DEF b, c
  <2> QED
    BY <2>1, <2>2
<1>3. NextBoundary(e) = p /\ NextBoundary(f) = q
  <2> HIDE DEF p, q
  <2> QED
    BY <1>1, <1>2
<1>4. e \in Lattice /\ p \in Lattice
  BY <1>1, EdgesOnGrid DEF IsBoundary, GridInv
<1>5. LeftCell(e) = Sector(v, (b + 3) % 4) /\ LeftCell(Twin(e)) = Sector(v, b)
  BY <1>4, LeftIsSector
<1>6. LeftCell(q) = Sector(v, (b + 3) % 4)
  BY DEF Sector
<1>7. LeftCell(Twin(p)) = Sector(v, b)
  <2> DEFINE t == Twin(p)
  <2>1. t \in Lattice /\ Twin(t) = p
    BY <1>4, TwinOfTwin
  <2>2. LeftCell(t) = Sector(Target(t), (((t[3] + 2) % 4) + 3) % 4)
    BY <2>1, LeftIsSector
  <2>3. Target(t) = v /\ (t[3] + 2) % 4 = (b + 1) % 4
    <3>1. Target(t) = <<Target(t)[1], Target(t)[2]>>
      BY <2>1, OnGrid
    <3>2. <<Target(t)[1], Target(t)[2], (t[3] + 2) % 4>> = p
      <4> HIDE DEF t
      <4> QED
        BY <2>1 DEF Twin
    <3> HIDE DEF t, v, b
    <3> QED
      BY <1>1, <3>1, <3>2
  <2>4. (((b + 1) % 4) + 3) % 4 = b
    <3> HIDE DEF b
    <3> QED
      BY <1>1
  <2> HIDE DEF t, b, v
  <2> QED
    BY <2>2, <2>3, <2>4 DEF t
<1> HIDE DEF p, q, b, v
<1> QED
  BY <1>3, <1>5, <1>6, <1>7

\* The cells inside a part of a ring that comes back to its first point cannot
\* have of one component both what lies on the left of the edge it leaves that
\* point by and what lies on the left of the edge the ring goes on with.
LEMMA OneVisit ==
  ASSUME CompInv, Edges # {}, NEW i \in DOMAIN rings, NEW a \in DOMAIN rings[i], NEW b \in DOMAIN rings[i], a < b
  PROVE  Origin(rings[i][a]) # Origin(rings[i][b])
<1> DEFINE r == rings[i]
<1>1. /\ stage \notin Early \cup {"op"} /\ DOMAIN face = Edges
      /\ Len(r) \in Nat /\ DOMAIN r = 1..Len(r)
      /\ \A c \in DOMAIN r : /\ r[c] \in Edges /\ r[c] \in Lattice /\ IsBoundary(r[c])
                             /\ NextBoundary(r[c]) = r[After(r, c)] /\ Target(r[c]) = Origin(r[After(r, c)])
      /\ \A c, d \in DOMAIN r : r[c] = r[d] => c = d
      /\ Len(r) > 0 => IsRound(r)
  BY RingsAreWalks DEF CompInv
<1> SUFFICES ASSUME Origin(r[a]) = Origin(r[b]) PROVE FALSE
  OBVIOUS
<1>2. a \in 1..Len(r) /\ b \in 1..Len(r) /\ IsRound(r)
  BY <1>1
<1>3. PICK s : IsRound(s) /\ \A e : e \in ToSet(s) <=> \E c \in a..(b - 1) : e = r[c]
  BY <1>2, PartIsRound
<1> DEFINE E == ToSet(s)
           j == IF a = 1 THEN Len(r) ELSE a - 1
           ra == r[a]
           rb == r[b]
           ia == r[j]
           ib == r[b - 1]
           in(c) == CellInside(c, E)
           D == {c \in Cell : in(c)}
<1>4. /\ j \in 1..Len(r) /\ b - 1 \in 1..Len(r) /\ j # b - 1 /\ After(r, j) = a /\ After(r, b - 1) = b
      /\ a \in a..(b - 1) /\ b - 1 \in a..(b - 1) /\ b \notin a..(b - 1)
      /\ \A c \in a..(b - 1) : c \in 1..Len(r)
  BY <1>1, <1>2 DEF After
<1>5. /\ IsBoundary(ia) /\ IsBoundary(ib) /\ IsBoundary(ra) /\ IsBoundary(rb)
      /\ NextBoundary(ia) = ra /\ NextBoundary(ib) = rb /\ ia # ib /\ Target(ia) = Target(ib)
      /\ ib \in Lattice /\ ra \in Lattice /\ rb \in Lattice /\ ra \in Edges /\ rb \in Edges
  BY <1>1, <1>2, <1>4
<1>6. root[face[ra]] = root[face[rb]]
  BY RootAlong
<1>7. LeftCell(ra) = LeftCell(ib) /\ LeftCell(Twin(rb)) = LeftCell(Twin(ib))
  <2> HIDE DEF ra, rb, ia, ib
  <2> QED
    BY <1>1, <1>5, <1>6, CutAtPinch DEF CompInv, RingInv, ResultInv
<1>8. \A e \in E : e \in Lattice /\ IsBoundary(e)
  BY <1>1, <1>3, <1>4
<1>9. OneWay(E)
  BY <1>8 DEF OneWay, IsBoundary
<1>10. ib \in E /\ rb \notin E
  BY <1>1, <1>2, <1>3, <1>4
<1>11. Twin(ib) \notin E /\ Twin(rb) \notin E
  <2>1. ~IsBoundary(Twin(ib)) /\ ~IsBoundary(Twin(rb))
    BY <1>5 DEF IsBoundary
  <2> QED
    BY <1>8, <2>1
<1> HIDE DEF ra, rb, ia, ib, E, j
<1>12. ~(in(LeftCell(ib)) <=> in(LeftCell(Twin(ib))))
  BY <1>3, <1>5, <1>9, <1>10, AcrossEdge DEF E
<1>13. in(LeftCell(rb)) <=> in(LeftCell(Twin(rb)))
  BY <1>3, <1>5, <1>9, <1>10, <1>11, AcrossEdge DEF E
<1>14. \A e \in Lattice : in(LeftCell(e)) <=> LeftCell(e) \in D
  <2> SUFFICES ASSUME NEW e \in Lattice, in(LeftCell(e)) PROVE LeftCell(e) \in Cell
    OBVIOUS
  <2>1. PICK x \in Int, y \in Int : LeftCell(e) = <<x, y>>
    BY CellsOfEdge
  <2> QED
    BY <1>3, <1>9, <2>1, OutsideGrid DEF E
<1>15. \A e \in Lattice : LeftCell(e) \in D /\ LeftCell(Twin(e)) \notin D => IsBoundary(e) \/ IsBoundary(Twin(e))
  <2> SUFFICES ASSUME NEW e \in Lattice, LeftCell(e) \in D, LeftCell(Twin(e)) \notin D
               PROVE  IsBoundary(e) \/ IsBoundary(Twin(e))
    OBVIOUS
  <2>1. Twin(e) \in Lattice
    BY TwinOfTwin
  <2>2. in(LeftCell(e)) /\ ~in(LeftCell(Twin(e)))
    BY <1>14, <2>1
  <2>3. e \in E \/ Twin(e) \in E
    BY <1>3, <1>9, <2>2, AcrossEdge DEF E
  <2> QED
    BY <1>8, <2>3
<1>16. D \in SUBSET Cell /\ face[ra] \in keep /\ face[rb] \in keep
  BY <1>5 DEF IsBoundary
<1> HIDE DEF D, in
<1>17. LeftCell(ra) \in D <=> LeftCell(rb) \in D
  BY <1>1, <1>5, <1>6, <1>15, <1>16, SameSide
<1> QED
  BY <1>5, <1>7, <1>12, <1>13, <1>14, <1>17

-----------------------------------------------------------------------------
(***************************************************************************)
(* The interior of a polygon.                                              *)
(***************************************************************************)

\* All places of a polygon have the same rings around them.
LEMMA SameAround ==
  ASSUME NEW R, RingsApart(R), NEW i \in DOMAIN rings, NEW x \in Int, NEW y \in Int, InPolygon(x, y, i)
  PROVE  At(x, y) = Around(i) \cup {i}
<1>1. i \in At(x, y) /\ At(x, y) \subseteq DOMAIN rings
  BY DEF InPolygon, At
<1>2. PICK m \in At(x, y) : /\ \A k \in At(x, y) : k # m => Encloses(k, m)
                            /\ Cardinality(At(x, y)) = Depth(m) + 1
  BY <1>1, Innermost
<1>3. InPolygon(x, y, m)
  BY <1>1, <1>2, OnlyDeepest
<1>4. m = i
  BY <1>1, <1>3, OnePolygon
<1>5. \A k \in Around(i) : k \in At(x, y)
  BY <1>1, Boxes DEF Around, At
<1> QED
  BY <1>1, <1>2, <1>4, <1>5 DEF Around

\* Two cells with an edge between them.
SideBySide(c, d) == \E e \in Lattice : c = LeftCell(e) /\ d = LeftCell(Twin(e))

\* Cells of a polygon that no step across an edge leaves within it.
ClosedWithin(K, I) == \A c \in K, d \in I : SideBySide(c, d) => d \in K

\* Beside such cells, other cells lie only across a ring.
LEMMA RingAroundPart ==
  ASSUME RingInv, Made, RingsDone, NEW p \in polygons, NEW K \in SUBSET Inside(p), ClosedWithin(K, Inside(p)),
         NEW e \in Lattice, LeftCell(e) \in K, LeftCell(Twin(e)) \notin K
  PROVE  e \in InRings
<1> SUFFICES ASSUME e \notin InRings PROVE FALSE
  OBVIOUS
<1>1. RingsApart(Result) /\ AllBorder(Result) /\ Result \subseteq Cell /\ polygons = Assembly
  BY RingsLieApart
<1>2. p.shell \in DOMAIN rings /\ p.holes = HolesOf(p.shell)
  BY <1>1 DEF Assembly, Shells
<1>3. PICK x \in Int, y \in Int : LeftCell(e) = <<x, y>>
  BY CellsOfEdge
<1>4. PICK u \in Int, v \in Int : LeftCell(Twin(e)) = <<u, v>>
  BY CellsOfEdge
<1>5. InPolygon(x, y, p.shell) /\ LeftCell(e) \in Inside(p)
  BY <1>2, <1>3 DEF Inside, InPolygon, Within
<1>6. Twin(e) \in Lattice /\ Twin(Twin(e)) = e
  BY TwinOfTwin
<1>7. LeftCell(e) \in Result
  BY <1>5, CoverSo DEF PolygonsCover
<1>8. LeftCell(Twin(e)) \in Result /\ Twin(e) \notin InRings
  BY <1>1, <1>6, <1>7 DEF AllBorder, BorderOf
<1>9. \A k \in DOMAIN rings : Within(x, y, k) <=> Within(u, v, k)
  <2> SUFFICES ASSUME NEW k \in DOMAIN rings PROVE Within(x, y, k) <=> Within(u, v, k)
    OBVIOUS
  <2>1. IsRound(rings[k]) /\ OneWay(ToSet(rings[k]))
    BY <1>1, BorderIsOneWay DEF RingsApart
  <2>2. e \notin ToSet(rings[k]) /\ Twin(e) \notin ToSet(rings[k])
    BY <1>8 DEF InRings
  <2> QED
    BY <1>3, <1>4, <2>1, <2>2, AcrossEdge DEF Within
<1>10. InPolygon(u, v, p.shell)
  BY <1>2, <1>5, <1>9 DEF InPolygon, HolesOf
<1>11. LeftCell(Twin(e)) \in Inside(p)
  BY <1>1, <1>2, <1>4, <1>8, <1>10 DEF Inside, InPolygon, Within
<1> QED
  BY <1>11 DEF ClosedWithin, SideBySide

\* The edges of a ring all have such cells on the left, or none has.
LEMMA RingBesidePart ==
  ASSUME CompInv, Made, RingsDone, NEW p \in polygons, NEW K \in SUBSET Inside(p), ClosedWithin(K, Inside(p)),
         NEW i \in DOMAIN rings, NEW e \in ToSet(rings[i]), NEW f \in ToSet(rings[i])
  PROVE  LeftCell(e) \in K <=> LeftCell(f) \in K
<1> USE DEF CompInv
<1>1. Edges # {} /\ K \in SUBSET Cell
  BY DEF RingsDone, Inside
<1>2. /\ stage \notin Early \cup {"op"} /\ DOMAIN face = Edges
      /\ \A a \in DOMAIN rings[i] : rings[i][a] \in Edges /\ IsBoundary(rings[i][a])
  BY <1>1, RingsAreWalks
<1>3. PICK a \in DOMAIN rings[i], b \in DOMAIN rings[i] : e = rings[i][a] /\ f = rings[i][b]
  BY DEF ToSet
<1>4. root[face[e]] = root[face[f]]
  BY <1>1, <1>3, RootAlong
<1>5. e \in Edges /\ f \in Edges /\ face[e] \in keep /\ face[f] \in keep
  BY <1>2, <1>3 DEF IsBoundary
<1>6. \A g \in Lattice : LeftCell(g) \in K /\ LeftCell(Twin(g)) \notin K => IsBoundary(g) \/ IsBoundary(Twin(g))
  <2> SUFFICES ASSUME NEW g \in Lattice, LeftCell(g) \in K, LeftCell(Twin(g)) \notin K PROVE IsBoundary(g)
    OBVIOUS
  <2>1. g \in InRings
    BY RingAroundPart
  <2> QED
    BY <1>1, <2>1, RingsAreWalks DEF InRings, ToSet
<1> QED
  BY <1>1, <1>2, <1>4, <1>5, <1>6, SameSide

\* The interior of every polygon is connected: no part of its cells but the
\* whole is closed across the edges within it.
PolygonsConnected ==
  RingsDone => \A p \in polygons : \A K \in SUBSET Inside(p) : K # {} /\ ClosedWithin(K, Inside(p)) => K = Inside(p)

\* Whole rings border such a part.  So it has in it all cells with an odd
\* number of these rings around, and all cells of a polygon have the same rings.
LEMMA ConnectedSo == CompInv /\ Made => PolygonsConnected
<1> SUFFICES ASSUME CompInv, Made, RingsDone, NEW p \in polygons, NEW K \in SUBSET Inside(p),
                    K # {}, ClosedWithin(K, Inside(p)), NEW d \in Inside(p)
             PROVE  d \in K
  BY DEF PolygonsConnected
<1> USE DEF CompInv
<1> DEFINE J == {i \in DOMAIN rings : \E e \in ToSet(rings[i]) : LeftCell(e) \in K}
           m == p.shell
<1>1. RingsApart(Result) /\ AllBorder(Result) /\ Result \subseteq Cell /\ polygons = Assembly
  BY RingsLieApart
<1>2. m \in DOMAIN rings /\ p.holes = HolesOf(m) /\ Inside(p) \subseteq Cell
  BY <1>1 DEF Assembly, Shells, Inside
<1>3. K \in SUBSET Cell /\ \A c \in K : c \in Result
  BY <1>2, CoverSo DEF PolygonsCover
<1>4. BorderOf(Along(J), K)
  <2>1. ASSUME NEW e \in Lattice, LeftCell(e) \in K, LeftCell(Twin(e)) \notin K
        PROVE  e \in Along(J)
    <3>1. PICK i \in DOMAIN rings : e \in ToSet(rings[i])
      BY <2>1, RingAroundPart DEF InRings
    <3> QED
      BY <2>1, <3>1 DEF Along
  <2>2. ASSUME NEW e \in Lattice, e \in Along(J)
        PROVE  LeftCell(e) \in K /\ LeftCell(Twin(e)) \notin K
    <3>1. PICK i \in J : e \in ToSet(rings[i])
      BY <2>2 DEF Along
    <3>2. PICK f \in ToSet(rings[i]) : LeftCell(f) \in K
      OBVIOUS
    <3>3. LeftCell(e) \in K
      BY <3>1, <3>2, RingBesidePart
    <3>4. LeftCell(Twin(e)) \notin Result
      BY <1>1, <3>1 DEF AllBorder, BorderOf, InRings
    <3> QED
      BY <1>3, <3>3, <3>4
  <2> HIDE DEF J
  <2> QED
    BY <2>1, <2>2 DEF BorderOf
<1>5. J \in SUBSET DOMAIN rings
  OBVIOUS
<1> HIDE DEF J
<1>6. \A c \in Inside(p) : c \in K <=> Odd((Around(m) \cup {m}) \cap J)
  <2> SUFFICES ASSUME NEW c \in Inside(p) PROVE c \in K <=> Odd((Around(m) \cup {m}) \cap J)
    OBVIOUS
  <2>1. PICK x \in Int, y \in Int : c = <<x, y>>
    BY <1>2, CellsAre
  <2>2. InPolygon(x, y, m)
    BY <1>2, <2>1 DEF Inside, InPolygon, Within
  <2>3. At(x, y) = Around(m) \cup {m}
    BY <1>1, <1>2, <2>2, SameAround
  <2>4. c \in K <=> Odd(At(x, y) \cap J)
    BY <1>1, <1>3, <1>4, <1>5, <2>1, OddOf
  <2> QED
    BY <2>3, <2>4
<1>7. PICK c \in K : TRUE
  OBVIOUS
<1> QED
  BY <1>6, <1>7

-----------------------------------------------------------------------------
(***************************************************************************)
(* Components, pinch points and connected polygons.                        *)
(***************************************************************************)

\* Two kept faces have one root just when nothing tells them apart that does
\* not tell two kept faces with a common edge apart: they are connected by kept
\* faces that share edges.
ComponentsAre ==
  Edges # {} /\ stage \notin Early \cup {"op"} =>
    \A f, g \in keep :
      root[f] = root[g] <=>
        \A X \in SUBSET keep :
          (\A e \in Edges : face[e] \in keep /\ face[Twin(e)] \in keep => (face[e] \in X <=> face[Twin(e)] \in X))
            => (f \in X <=> g \in X)

\* A ring has kept faces of one component on its left, all the way.
RingsStay ==
  Edges # {} => \A i \in DOMAIN rings : \A a, b \in DOMAIN rings[i] : root[face[rings[i][a]]] = root[face[rings[i][b]]]

\* No ring visits a vertex twice.
RingsVisitOnce ==
  Edges # {} => \A i \in DOMAIN rings : \A a, b \in DOMAIN rings[i] : Origin(rings[i][a]) = Origin(rings[i][b]) => a = b

\* The components, of one state.
LEMMA ComponentsSo == CompInv => ComponentsAre
<1> SUFFICES ASSUME CompInv, Edges # {}, stage \notin Early \cup {"op"}, NEW f \in keep, NEW g \in keep,
                    \A X \in SUBSET keep :
                      (\A e \in Edges : face[e] \in keep /\ face[Twin(e)] \in keep => (face[e] \in X <=> face[Twin(e)] \in X))
                        => (f \in X <=> g \in X)
             PROVE  root[f] = root[g]
  BY RootsAre DEF ComponentsAre
<1> DEFINE X == {h \in keep : root[h] = root[f]}
<1>1. \A e \in Edges : face[e] \in keep /\ face[Twin(e)] \in keep => (face[e] \in X <=> face[Twin(e)] \in X)
  BY RootsAre
<1>2. f \in X /\ X \in SUBSET keep
  OBVIOUS
<1>3. g \in X
  <2> HIDE DEF X
  <2> QED
    BY <1>1, <1>2
<1> QED
  BY <1>3

\* The walks, of one state.
LEMMA StaySo == CompInv => RingsStay
  BY RootAlong DEF RingsStay

\* Visits, of one state.
LEMMA VisitOnceSo == CompInv => RingsVisitOnce
<1> SUFFICES ASSUME CompInv, Edges # {}, NEW i \in DOMAIN rings, NEW a \in DOMAIN rings[i], NEW b \in DOMAIN rings[i],
                    Origin(rings[i][a]) = Origin(rings[i][b])
             PROVE  a = b
  BY DEF RingsVisitOnce
<1>1. ~(a < b) /\ ~(b < a)
  BY OneVisit
<1>2. a \in Nat /\ b \in Nat
  BY RingsAreWalks DEF CompInv
<1> QED
  BY <1>1, <1>2

\* The union-find over the kept faces, whatever the order in which the edges
\* are gone through, finds the components of the result: faces are joined by
\* edges and never by a vertex alone (extractResultRings, result.go:38-71).
THEOREM ComponentsRight == Spec => []ComponentsAre
  BY CompAlways, ComponentsSo, PTL

\* At every vertex that a ring comes to, an edge of its own component leads on:
\* the second loop of nextBoundaryAtVertex, for when there is none, is never
\* needed (result.go:141-163).
THEOREM RingsStayInComponent == Spec => []RingsStay
  BY CompAlways, StaySo, PTL

\* The walk by components cuts every ring at the pinch points it passes: no ring
\* comes to a vertex a second time, not even where a face is misjudged
\* (nextBoundaryAtVertex, result.go:114-165).
THEOREM RingsAreCut == Spec => []RingsVisitOnce
  BY CompAlways, VisitOnceSo, PTL

\* The interior of every polygon that is assembled is connected by edges, so
\* that there is no shell to split and no hole that parts a polygon
\* (AssembleOutputPolygons, assemble.go:89).
THEOREM PolygonsAreConnected == Spec => []PolygonsConnected
  BY CompAlways, MadeAlways, ConnectedSo, PTL

-----------------------------------------------------------------------------
(***************************************************************************)
(* What the driver makes of the polygons.                                  *)
(***************************************************************************)
\* The numbers of a set below one.
Under(S, i) == {j \in S : j < i}

\* They are fewer than all, and more for a greater number.
LEMMA UnderGrows ==
  ASSUME NEW S \in SUBSET Nat, IsFiniteSet(S), NEW i \in S
  PROVE  /\ Cardinality(Under(S, i)) \in 0..(Cardinality(S) - 1)
         /\ \A j \in S : i < j => Cardinality(Under(S, i)) < Cardinality(Under(S, j))
<1>1. ASSUME NEW T \in SUBSET S, i \in T, Under(S, i) \subseteq T
      PROVE  Cardinality(Under(S, i)) \in Nat /\ Cardinality(T) \in Nat /\ Cardinality(Under(S, i)) < Cardinality(T)
  <2>1. IsFiniteSet(T) /\ Under(S, i) \in SUBSET (T \ {i})
    <3>1. IsFiniteSet(T)
      BY FS_Subset
    <3>2. i \notin Under(S, i)
      BY DEF Under
    <3> QED
      BY <1>1, <3>1, <3>2
  <2>2. IsFiniteSet(T \ {i}) /\ Cardinality(T \ {i}) = Cardinality(T) - 1 /\ Cardinality(T) \in Nat
    BY <1>1, <2>1, FS_RemoveElement, FS_CardinalityType
  <2>3. IsFiniteSet(Under(S, i)) /\ Cardinality(Under(S, i)) <= Cardinality(T \ {i})
    BY <2>1, <2>2, FS_Subset
  <2> QED
    BY <2>2, <2>3, FS_CardinalityType
<1>2. Under(S, i) \subseteq S
  BY DEF Under
<1>3. ASSUME NEW j \in S, i < j PROVE Cardinality(Under(S, i)) < Cardinality(Under(S, j))
  <2>1. Under(S, j) \in SUBSET S /\ i \in Under(S, j)
    BY <1>3 DEF Under
  <2>2. Under(S, i) \subseteq Under(S, j)
    <3>1. \A k \in S : k < i => k < j
      <4>1. i \in Nat /\ j \in Nat /\ \A k \in S : k \in Nat
        OBVIOUS
      <4> QED
        BY <1>3, <4>1
    <3> QED
      BY <3>1 DEF Under
  <2> QED
    BY <1>1, <2>1, <2>2
<1> QED
  BY <1>1, <1>2, <1>3

\* Every number of a set has its place when they are put in order, and no
\* other has it.
LEMMA InOrderIs ==
  ASSUME NEW S \in SUBSET Nat, IsFiniteSet(S)
  PROVE  /\ DOMAIN InOrder(S) = 1..Cardinality(S) /\ Cardinality(S) \in Nat
         /\ \A k \in 1..Cardinality(S) : InOrder(S)[k] \in S
         /\ \A k, m \in 1..Cardinality(S) : InOrder(S)[k] = InOrder(S)[m] => k = m
<1> DEFINE n == Cardinality(S)
           rank == [i \in S |-> Cardinality(Under(S, i))]
<1>1. n \in Nat
  BY FS_CardinalityType
<1>2. rank \in [S -> 0..(n - 1)]
  BY UnderGrows
<1>3. \A i, j \in S : i < j => rank[i] < rank[j]
  BY UnderGrows
<1>4. \A i \in S : rank[i] = Cardinality(Under(S, i))
  OBVIOUS
<1> HIDE DEF n, rank
<1>5. \A i, j \in S : rank[i] = rank[j] => i = j
  <2> SUFFICES ASSUME NEW i \in S, NEW j \in S, rank[i] = rank[j] PROVE i = j
    OBVIOUS
  <2>1. rank[i] \in Int /\ rank[j] \in Int
    BY <1>1, <1>2
  <2>2. ~(i < j) /\ ~(j < i)
    BY <1>3, <2>1
  <2> QED
    BY <2>2
<1>6. rank \in Injection(S, 0..(n - 1))
  BY <1>2, <1>5 DEF Injection, IsInjective
<1>7. IsFiniteSet(0..(n - 1)) /\ Cardinality(0..(n - 1)) = n
  BY <1>1, FS_Interval
<1>8. rank \in Surjection(S, 0..(n - 1))
  BY <1>6, <1>7, FS_Injection DEF n
<1>9. \A k \in 1..n : \E i \in S : Cardinality(Under(S, i)) = k - 1
  <2> SUFFICES ASSUME NEW k \in 1..n PROVE \E i \in S : Cardinality(Under(S, i)) = k - 1
    OBVIOUS
  <2>1. k - 1 \in 0..(n - 1)
    BY <1>1
  <2>2. PICK i \in S : rank[i] = k - 1
    BY <1>8, <2>1 DEF Surjection
  <2> QED
    BY <1>4, <2>2
<1>10. InOrder(S) = [k \in 1..n |-> CHOOSE i \in S : Cardinality(Under(S, i)) = k - 1]
  BY DEF InOrder, n, Under
<1>11. \A k \in 1..n : InOrder(S)[k] \in S /\ Cardinality(Under(S, InOrder(S)[k])) = k - 1
  BY <1>9, <1>10
<1>12. \A k, m \in 1..n : InOrder(S)[k] = InOrder(S)[m] => k = m
  <2> SUFFICES ASSUME NEW k \in 1..n, NEW m \in 1..n, InOrder(S)[k] = InOrder(S)[m] PROVE k = m
    OBVIOUS
  <2>1. k - 1 = m - 1
    BY <1>11
  <2> QED
    BY <1>1, <2>1
<1> QED
  BY <1>1, <1>10, <1>11, <1>12 DEF n

\* A stretch by the tolerance keeps the order of numbers.
LEMMA Stretch ==
  ASSUME NEW a \in Int, NEW b \in Int
  PROVE  /\ Tolerance * a \in Int
         /\ a < b <=> Tolerance * a < Tolerance * b
         /\ a = b <=> Tolerance * a = Tolerance * b
<1>1. Tolerance \in Int /\ Tolerance >= 1
  BY ToleranceAssumption
<1>2. ASSUME NEW x \in Int, NEW y \in Int, x < y PROVE Tolerance * x < Tolerance * y
  BY <1>1, <1>2
<1> QED
  BY <1>1, <1>2

\* What is scaled tells points apart, and no scaled point lies within an edge.
LEMMA ScaledApart ==
  ASSUME NEW v \in Int \X Int, NEW w \in Int \X Int, Scaled(v) = Scaled(w)
  PROVE  v = w
<1>1. v = <<v[1], v[2]>> /\ w = <<w[1], w[2]>> /\ v[1] \in Int /\ v[2] \in Int /\ w[1] \in Int /\ w[2] \in Int
  OBVIOUS
<1>2. Tolerance * v[1] = Tolerance * w[1] /\ Tolerance * v[2] = Tolerance * w[2]
  BY DEF Scaled
<1>3. v[1] = w[1] /\ v[2] = w[2]
  BY <1>1, <1>2, Stretch
<1> QED
  BY <1>1, <1>3

LEMMA NothingWithin ==
  ASSUME NEW e \in Lattice, NEW w \in Int \X Int
  PROVE  ~Driver!PointOnSegmentInterior(Scaled(w), Scaled(Origin(e)), Scaled(Target(e)))
<1> SUFFICES ASSUME Driver!PointOnSegmentInterior(Scaled(w), Scaled(Origin(e)), Scaled(Target(e)))
             PROVE  FALSE
  OBVIOUS
<1> DEFINE v == Origin(e)
           u == Target(e)
<1>1. w = <<w[1], w[2]>> /\ w[1] \in Int /\ w[2] \in Int
  OBVIOUS
<1>2. v = <<v[1], v[2]>> /\ u = <<u[1], u[2]>> /\ v[1] \in Int /\ v[2] \in Int /\ u[1] \in Int /\ u[2] \in Int
  BY OnGrid, Grid DEF Origin
<1>3. \/ v[1] = u[1] /\ (u[2] = v[2] + 1 \/ v[2] = u[2] + 1)
      \/ v[2] = u[2] /\ (u[1] = v[1] + 1 \/ v[1] = u[1] + 1)
  BY <1>2, OnGrid, Grid DEF Origin, Target, Dx, Dy
<1> HIDE DEF v, u
<1>4. Scaled(w) # Scaled(v) /\ Scaled(w) # Scaled(u)
  BY DEF Driver!PointOnSegmentInterior, v, u
<1>5. /\ Driver!Between(Tolerance * v[1], Tolerance * w[1], Tolerance * u[1])
      /\ Driver!Between(Tolerance * v[2], Tolerance * w[2], Tolerance * u[2])
  BY DEF Driver!PointOnSegmentInterior, Driver!OnSegment, Scaled, v, u
<1>6. \A i \in {1, 2} : (v[i] <= w[i] /\ w[i] <= u[i]) \/ (u[i] <= w[i] /\ w[i] <= v[i])
  <2>1. ASSUME NEW a \in Int, NEW b \in Int, Tolerance * a <= Tolerance * b PROVE a <= b
    BY <2>1, Stretch
  <2> QED
    BY <1>1, <1>2, <1>5, <2>1 DEF Driver!Between
<1>7. (w[1] = v[1] /\ w[2] = v[2]) \/ (w[1] = u[1] /\ w[2] = u[2])
  BY <1>1, <1>2, <1>3, <1>6
<1>8. w = v \/ w = u
  BY <1>1, <1>2, <1>7
<1> QED
  BY <1>4, <1>8

\* The points and the sides of a ring as the driver sees it.
LEMMA AlongIs ==
  ASSUME CompInv, Edges # {}, Made, NEW i \in DOMAIN rings
  PROVE  LET r == rings[i]
             q == PointsAlong(r)
         IN  /\ Len(r) \in Nat /\ Len(r) > 0 /\ DOMAIN r = 1..Len(r)
             /\ q \in Seq(Int \X Int) /\ Len(q) = Len(r) + 1
             /\ \A k \in 1..Len(r) : q[k] = Scaled(Origin(r[k])) /\ q[k + 1] = Scaled(Target(r[k]))
             /\ q[Len(r) + 1] = q[1]
<1> DEFINE r == rings[i]
           n == Len(r)
           s == [k \in DOMAIN r |-> Scaled(Origin(r[k]))]
           q == PointsAlong(r)
<1> USE DEF CompInv
<1>1. n \in Nat /\ n > 0 /\ DOMAIN r = 1..n
  BY RingsAreWalks DEF Made
<1>2. \A k \in 1..n : Target(r[k]) = Origin(r[After(r, k)]) /\ r[k] \in Lattice
  BY <1>1, RingsAreWalks
<1>3. \A k \in 1..n : Scaled(Origin(r[k])) \in Int \X Int
  <2> SUFFICES ASSUME NEW k \in 1..n PROVE Scaled(Origin(r[k])) \in Int \X Int
    OBVIOUS
  <2>1. Origin(r[k])[1] \in Int /\ Origin(r[k])[2] \in Int
    BY <1>2, OnGrid, Grid DEF Origin
  <2> QED
    BY <2>1, Stretch DEF Scaled
<1>4. q = Append(s, Scaled(Origin(r[1])))
  BY DEF PointsAlong
<1> HIDE DEF r, n
<1>5. s \in Seq(Int \X Int) /\ Len(s) = n /\ \A k \in 1..n : s[k] = Scaled(Origin(r[k]))
  BY <1>1, <1>3
<1> HIDE DEF s, q
<1>6. Scaled(Origin(r[1])) \in Int \X Int
  BY <1>1, <1>3
<1>7. q \in Seq(Int \X Int) /\ Len(q) = n + 1 /\ q[n + 1] = Scaled(Origin(r[1])) /\ \A k \in 1..n : q[k] = s[k]
  BY <1>1, <1>4, <1>5, <1>6
<1>8. \A k \in 1..n : q[k + 1] = Scaled(Origin(r[After(r, k)]))
  <2> SUFFICES ASSUME NEW k \in 1..n PROVE q[k + 1] = Scaled(Origin(r[After(r, k)]))
    OBVIOUS
  <2>1. CASE k = n
    BY <1>7, <2>1 DEF After, n
  <2>2. CASE k # n
    <3>1. After(r, k) = k + 1
      BY <2>2 DEF After, n
    <3>2. k + 1 \in 1..n
      BY <1>1, <2>2
    <3> QED
      BY <1>5, <1>7, <3>1, <3>2
  <2> QED
    BY <2>1, <2>2
<1>9. \A k \in 1..n : q[k] = Scaled(Origin(r[k])) /\ q[k + 1] = Scaled(Target(r[k]))
  BY <1>2, <1>5, <1>7, <1>8
<1>10. q[n + 1] = q[1]
  BY <1>1, <1>7, <1>9
<1> QED
  BY <1>1, <1>7, <1>9, <1>10 DEF r, n, q

\* The vertices of such a ring are those of its edges, and so are its sides.
LEMMA VerticesAndSides ==
  ASSUME CompInv, Edges # {}, Made, NEW i \in DOMAIN rings
  PROVE  /\ \A v \in ToSet(PointsAlong(rings[i])) : \E k \in DOMAIN rings[i] : v = Scaled(Origin(rings[i][k]))
         /\ \A g \in Driver!SegmentsOf(PointsAlong(rings[i])) :
              \E k \in DOMAIN rings[i] : g[1] = Scaled(Origin(rings[i][k])) /\ g[2] = Scaled(Target(rings[i][k]))
<1> DEFINE r == rings[i]
           n == Len(r)
           q == PointsAlong(r)
<1>1. /\ n \in Nat /\ n > 0 /\ DOMAIN r = 1..n
      /\ q \in Seq(Int \X Int) /\ Len(q) = n + 1
      /\ \A k \in 1..n : q[k] = Scaled(Origin(r[k])) /\ q[k + 1] = Scaled(Target(r[k]))
      /\ q[n + 1] = q[1]
  BY AlongIs
<1> HIDE DEF r, n, q
<1>2. ASSUME NEW v \in ToSet(q) PROVE \E k \in DOMAIN r : v = Scaled(Origin(r[k]))
  <2>1. PICK k \in 1..(n + 1) : v = q[k]
    BY <1>1 DEF ToSet
  <2>2. CASE k = n + 1
    <3>1. 1 \in DOMAIN r /\ v = Scaled(Origin(r[1]))
      BY <1>1, <2>1, <2>2
    <3> QED
      BY <3>1
  <2>3. CASE k # n + 1
    <3>1. k \in DOMAIN r
      BY <1>1, <2>3
    <3> QED
      BY <1>1, <2>1, <3>1
  <2> QED
    BY <2>2, <2>3
<1>3. ASSUME NEW g \in Driver!SegmentsOf(q)
      PROVE  \E k \in DOMAIN r : g[1] = Scaled(Origin(r[k])) /\ g[2] = Scaled(Target(r[k]))
  <2>1. PICK k \in 1..(Len(q) - 1) : g = <<q[k], q[k + 1]>>
    BY DEF Driver!SegmentsOf
  <2>2. k \in 1..n
    BY <1>1, <2>1
  <2>3. g[1] = q[k] /\ g[2] = q[k + 1]
    BY <2>1
  <2> QED
    BY <1>1, <2>2, <2>3
<1> QED
  BY <1>2, <1>3 DEF r, q

\* No ring runs into a side of another one.
LEMMA RingsDoNotTouch ==
  ASSUME CompInv, Edges # {}, Made, NEW i \in DOMAIN rings, NEW j \in DOMAIN rings
  PROVE  ~Driver!Touch(PointsAlong(rings[i]), PointsAlong(rings[j]))
<1>1. ASSUME NEW a \in DOMAIN rings, NEW b \in DOMAIN rings, Driver!RunsInto(PointsAlong(rings[a]), PointsAlong(rings[b]))
      PROVE  FALSE
  <2>1. PICK v \in ToSet(PointsAlong(rings[a])), g \in Driver!SegmentsOf(PointsAlong(rings[b])) :
          Driver!PointOnSegmentInterior(v, g[1], g[2])
    BY <1>1 DEF Driver!RunsInto, Driver!ToSet, ToSet
  <2>2. PICK k \in DOMAIN rings[a] : v = Scaled(Origin(rings[a][k]))
    BY VerticesAndSides
  <2>3. PICK m \in DOMAIN rings[b] : g[1] = Scaled(Origin(rings[b][m])) /\ g[2] = Scaled(Target(rings[b][m]))
    BY VerticesAndSides
  <2>4. rings[a][k] \in Lattice /\ rings[b][m] \in Lattice
    BY RingsAreWalks DEF CompInv
  <2>5. Origin(rings[a][k]) \in Int \X Int
    BY <2>4, OnGrid, Grid DEF Origin
  <2> QED
    BY <2>1, <2>2, <2>3, <2>4, <2>5, NothingWithin
<1> QED
  BY <1>1 DEF Driver!Touch

\* No ring visits a vertex twice, so the driver sees none that repeats one.
LEMMA RingsDoNotRepeat ==
  ASSUME CompInv, Edges # {}, Made, NEW i \in DOMAIN rings
  PROVE  ~Driver!RingRepeatsInteriorVertex(PointsAlong(rings[i]))
<1> DEFINE r == rings[i]
           n == Len(r)
           q == PointsAlong(r)
           o == Driver!OpenRing(q)
<1>1. /\ n \in Nat /\ n > 0 /\ DOMAIN r = 1..n
      /\ q \in Seq(Int \X Int) /\ Len(q) = n + 1
      /\ \A k \in 1..n : q[k] = Scaled(Origin(r[k]))
      /\ q[n + 1] = q[1]
  BY AlongIs
<1>2. \A a, b \in 1..n : Origin(r[a]) = Origin(r[b]) => a = b
  BY <1>1, VisitOnceSo DEF RingsVisitOnce
<1>3. \A a \in 1..n : Origin(r[a]) \in Int \X Int
  <2> SUFFICES ASSUME NEW a \in 1..n PROVE Origin(r[a]) \in Int \X Int
    OBVIOUS
  <2>1. r[a] \in Lattice
    BY <1>1, RingsAreWalks DEF CompInv
  <2> QED
    BY <2>1, OnGrid, Grid DEF Origin
<1> HIDE DEF r, n, q
<1>4. o = SubSeq(q, 1, n)
  <2>1. q[1] = q[Len(q)]
    BY <1>1
  <2>2. Len(q) - 1 = n
    BY <1>1
  <2> QED
    BY <2>1, <2>2 DEF Driver!OpenRing, Driver!Last, Driver!Front
<1> HIDE DEF o
<1>5. Len(o) = n /\ DOMAIN o = 1..n /\ \A k \in 1..n : o[k] = q[k]
  BY <1>1, <1>4
<1>6. \A a, b \in 1..n : o[a] = o[b] => a = b
  BY <1>1, <1>2, <1>3, <1>5, ScaledApart
<1>7. Cardinality(ToSet(o)) = n
  <2> DEFINE f == [k \in 1..n |-> o[k]]
  <2>1. ToSet(o) = {o[k] : k \in 1..n}
    BY <1>5 DEF ToSet
  <2>2. f \in Bijection(1..n, ToSet(o))
    BY <1>6, <2>1 DEF Bijection, Injection, Surjection, IsInjective
  <2>3. IsFiniteSet(1..n) /\ Cardinality(1..n) = n
    BY <1>1, FS_Interval
  <2> QED
    BY <2>2, <2>3, FS_Bijection DEF ExistsBijection
<1>8. Driver!Cardinality(Driver!ToSet(o)) = n
  BY <1>7 DEF Driver!Cardinality, Cardinality, Driver!ToSet, ToSet
<1> QED
  BY <1>1, <1>5, <1>8 DEF Driver!RingRepeatsInteriorVertex, o, q, r

\* Half-edges with the same ends are the same, or the two of one edge.
LEMMA EndsTell ==
  ASSUME NEW e \in Lattice, NEW f \in Lattice
  PROVE  /\ Origin(e) = Origin(f) /\ Target(e) = Target(f) => e = f
         /\ Origin(e) = Target(f) /\ Target(e) = Origin(f) => f = Twin(e)
<1>1. PICK x \in 0..Width, y \in 0..Height, d \in {0, 1, 2, 3} : e = <<x, y, d>>
  BY OnGrid
<1>2. PICK u \in 0..Width, v \in 0..Height, c \in {0, 1, 2, 3} : f = <<u, v, c>>
  BY OnGrid
<1>3. x \in Int /\ y \in Int /\ u \in Int /\ v \in Int
  BY Grid
<1> USE DEF Origin, Target, Dx, Dy
<1>4. Origin(e) = Origin(f) /\ Target(e) = Target(f) => e = f
  BY <1>1, <1>2, <1>3
<1>5. Origin(e) = Target(f) /\ Target(e) = Origin(f) => f = Twin(e)
  BY <1>1, <1>2, <1>3, Quarters DEF Twin
<1> QED
  BY <1>4, <1>5

\* No two rings have a side in common.
LEMMA NoCommonSide ==
  ASSUME CompInv, Edges # {}, Made, NEW i \in DOMAIN rings, NEW j \in DOMAIN rings, i # j
  PROVE  Driver!UnorderedSegments(PointsAlong(rings[i])) \cap Driver!UnorderedSegments(PointsAlong(rings[j])) = {}
<1> SUFFICES ASSUME NEW g \in Driver!SegmentsOf(PointsAlong(rings[i])), NEW h \in Driver!SegmentsOf(PointsAlong(rings[j])),
                    {g[1], g[2]} = {h[1], h[2]}
             PROVE  FALSE
  BY DEF Driver!UnorderedSegments
<1>1. PICK k \in DOMAIN rings[i] : g[1] = Scaled(Origin(rings[i][k])) /\ g[2] = Scaled(Target(rings[i][k]))
  BY VerticesAndSides
<1>2. PICK m \in DOMAIN rings[j] : h[1] = Scaled(Origin(rings[j][m])) /\ h[2] = Scaled(Target(rings[j][m]))
  BY VerticesAndSides
<1> DEFINE e == rings[i][k]
           f == rings[j][m]
<1>3. e \in Lattice /\ f \in Lattice /\ IsBoundary(e) /\ IsBoundary(f)
  BY RingsAreWalks DEF CompInv
<1>4. e # f
  BY DEF CompInv, RingInv, Looped, RingsClosed
<1> HIDE DEF e, f
<1>5. Origin(e) \in Int \X Int /\ Target(e) \in Int \X Int /\ Origin(f) \in Int \X Int /\ Target(f) \in Int \X Int
  BY <1>3, OnGrid, Grid DEF Origin
<1>6. \/ g[1] = h[1] /\ g[2] = h[2]
      \/ g[1] = h[2] /\ g[2] = h[1]
  OBVIOUS
<1>7. \/ Origin(e) = Origin(f) /\ Target(e) = Target(f)
      \/ Origin(e) = Target(f) /\ Target(e) = Origin(f)
  BY <1>1, <1>2, <1>5, <1>6, ScaledApart DEF e, f
<1>8. f = Twin(e)
  BY <1>3, <1>4, <1>7, EndsTell
<1> QED
  BY <1>3, <1>8 DEF IsBoundary

\* The polygons as the driver sees them are made of rings of the answer: each
\* has its shell first, and no two have the same shell.
LEMMA PolygonsSeen ==
  ASSUME CompInv, Made, RingsDone
  PROVE  LET q == PolygonsInOrder
             shells == InOrder({p.shell : p \in polygons})
         IN  /\ DOMAIN q = DOMAIN shells /\ \A k \in DOMAIN q : shells[k] \in DOMAIN rings
             /\ \A k, m \in DOMAIN q : shells[k] = shells[m] => k = m
             /\ \A k \in DOMAIN q : /\ q[k][1] = PointsAlong(rings[shells[k]])
                                    /\ \A m \in 2..Len(q[k]) : \E j \in DOMAIN rings : q[k][m] = PointsAlong(rings[j])
<1> DEFINE S == {p.shell : p \in polygons}
           shells == InOrder(S)
           q == PolygonsInOrder
<1>1. polygons = Assembly /\ rings \in Seq(Seq(Lattice))
  BY RingsLieApart DEF RingsApart, CompInv
<1>2. DOMAIN rings \in SUBSET Nat /\ IsFiniteSet(DOMAIN rings)
  <2>1. Len(rings) \in Nat /\ DOMAIN rings = 1..Len(rings)
    BY <1>1
  <2> QED
    BY <2>1, FS_Interval
<1>3. \A p \in polygons : p.shell \in DOMAIN rings /\ p.holes \subseteq DOMAIN rings
  BY <1>1 DEF Assembly, Shells, HolesOf
<1>4. S \in SUBSET (DOMAIN rings) /\ S \in SUBSET Nat /\ IsFiniteSet(S)
  BY <1>2, <1>3, FS_Subset
<1> HIDE DEF S
<1>5. /\ DOMAIN shells = 1..Cardinality(S)
      /\ \A k \in DOMAIN shells : shells[k] \in S
      /\ \A k, m \in DOMAIN shells : shells[k] = shells[m] => k = m
  BY <1>4, InOrderIs
<1>6. DOMAIN q = DOMAIN shells /\ \A k \in DOMAIN shells : q[k] = RingsOfPolygon(shells[k])
  BY DEF PolygonsInOrder, S
<1>7. ASSUME NEW i \in DOMAIN rings
      PROVE  /\ RingsOfPolygon(i)[1] = PointsAlong(rings[i])
             /\ \A m \in 2..Len(RingsOfPolygon(i)) : \E j \in DOMAIN rings : RingsOfPolygon(i)[m] = PointsAlong(rings[j])
  <2> DEFINE H == UNION {p.holes : p \in {p \in polygons : p.shell = i}}
             ids == <<i>> \o InOrder(H)
  <2>1. H \in SUBSET (DOMAIN rings) /\ H \in SUBSET Nat /\ IsFiniteSet(H)
    <3>1. H \in SUBSET (DOMAIN rings)
      BY <1>3
    <3> QED
      BY <1>2, <3>1, FS_Subset
  <2>2. RingsOfPolygon(i) = [k \in DOMAIN ids |-> PointsAlong(rings[ids[k]])]
    BY DEF RingsOfPolygon
  <2> HIDE DEF H
  <2>3. /\ DOMAIN InOrder(H) = 1..Cardinality(H) /\ Cardinality(H) \in Nat
        /\ \A k \in 1..Cardinality(H) : InOrder(H)[k] \in H
    BY <2>1, InOrderIs
  <2>4. InOrder(H) \in Seq(DOMAIN rings)
    <3> DEFINE at(k) == CHOOSE j \in H : Cardinality({g \in H : g < j}) = k - 1
    <3>1. InOrder(H) = [k \in 1..Cardinality(H) |-> at(k)]
      BY DEF InOrder
    <3> HIDE DEF at
    <3>2. \A k \in 1..Cardinality(H) : InOrder(H)[k] \in DOMAIN rings
      BY <2>1, <2>3
    <3> QED
      BY <2>3, <3>1, <3>2
  <2>5. ids \in Seq(DOMAIN rings) /\ Len(ids) > 0 /\ ids[1] = i
    BY <2>4
  <2> HIDE DEF ids
  <2>6. DOMAIN ids = 1..Len(ids) /\ Len(ids) \in Nat /\ \A k \in 1..Len(ids) : ids[k] \in DOMAIN rings
    BY <2>5
  <2>7. Len(RingsOfPolygon(i)) = Len(ids) /\ \A k \in 1..Len(ids) : RingsOfPolygon(i)[k] = PointsAlong(rings[ids[k]])
    BY <2>2, <2>6
  <2>8. 1 \in 1..Len(ids) /\ \A m \in 2..Len(ids) : m \in 1..Len(ids)
    BY <2>5, <2>6
  <2> QED
    BY <2>5, <2>6, <2>7, <2>8
<1>8. \A k \in DOMAIN shells : shells[k] \in DOMAIN rings
  BY <1>4, <1>5
<1> HIDE DEF shells, q
<1> QED
  BY <1>5, <1>6, <1>7, <1>8 DEF S, shells, q

\* So there is nothing to canonicalize.
LEMMA NothingToCanonicalize ==
  ASSUME CompInv, Made, RingsDone
  PROVE  ~Driver!NeedsCanonicalize(PolygonsInOrder)
<1> DEFINE q == PolygonsInOrder
           shells == InOrder({p.shell : p \in polygons})
<1>1. /\ DOMAIN q = DOMAIN shells /\ \A k \in DOMAIN q : shells[k] \in DOMAIN rings
      /\ \A k, m \in DOMAIN q : shells[k] = shells[m] => k = m
      /\ \A k \in DOMAIN q : /\ q[k][1] = PointsAlong(rings[shells[k]])
                             /\ \A m \in 2..Len(q[k]) : \E j \in DOMAIN rings : q[k][m] = PointsAlong(rings[j])
  BY PolygonsSeen
<1> HIDE DEF q, shells
<1>2. Edges # {}
  BY DEF RingsDone
<1>3. \A k \in DOMAIN q : ~Driver!RingRepeatsInteriorVertex(q[k][1])
  BY <1>1, <1>2, RingsDoNotRepeat
<1>4. \A k \in DOMAIN q : \A m \in 2..Len(q[k]) : ~Driver!Touch(q[k][1], q[k][m])
  BY <1>1, <1>2, RingsDoNotTouch
<1>5. \A k, m \in DOMAIN q : ~Driver!Touch(q[k][1], q[m][1])
  BY <1>1, <1>2, RingsDoNotTouch
<1>6. \A k, m \in DOMAIN q : k # m => Driver!UnorderedSegments(q[k][1]) \cap Driver!UnorderedSegments(q[m][1]) = {}
  BY <1>1, <1>2, NoCommonSide
<1>7. \A k, m \in DOMAIN q : k < m => k # m
  <2>1. DOMAIN q \subseteq Int
    BY <1>1 DEF shells, InOrder
  <2> QED
    BY <2>1
<1>8. \A p \in Driver!ToSet(q) : \E k \in DOMAIN q : p = q[k]
  BY DEF Driver!ToSet
<1> QED
  BY <1>3, <1>4, <1>5, <1>6, <1>7, <1>8 DEF Driver!NeedsCanonicalize, q

\* Cells with an edge between them are neighbours in a row or a column.
LEMMA NeighboursAre ==
  ASSUME NEW e \in Lattice
  PROVE  LET c == LeftCell(e)
             d == LeftCell(Twin(e))
         IN  /\ c[1] - d[1] \in -1..1 /\ c[2] - d[2] \in -1..1
             /\ c[1] = d[1] \/ c[2] = d[2]
<1>1. PICK x \in 0..Width, y \in 0..Height, d \in {0, 1, 2, 3} : e = <<x, y, d>>
  BY OnGrid
<1>2. x \in Int /\ y \in Int
  BY Grid
<1>3. e[1] = x /\ e[2] = y /\ e[3] = d
  BY <1>1
<1>4. /\ d = 0 => LeftCell(e) = <<x, y - 1>> /\ Target(e) = <<x, y - 1>>
      /\ d = 1 => LeftCell(e) = <<x, y>> /\ Target(e) = <<x + 1, y>>
      /\ d = 2 => LeftCell(e) = <<x - 1, y>> /\ Target(e) = <<x, y + 1>>
      /\ d = 3 => LeftCell(e) = <<x - 1, y - 1>> /\ Target(e) = <<x - 1, y>>
  BY <1>2, <1>3 DEF LeftCell, Target, Dx, Dy
<1>5. Twin(e) = <<Target(e)[1], Target(e)[2], (d + 2) % 4>>
  BY <1>3 DEF Twin
<1>6. /\ d = 0 => Twin(e) = <<x, y - 1, 2>>
      /\ d = 1 => Twin(e) = <<x + 1, y, 3>>
      /\ d = 2 => Twin(e) = <<x, y + 1, 0>>
      /\ d = 3 => Twin(e) = <<x - 1, y, 1>>
  BY <1>4, <1>5, Quarters
<1>7. /\ d = 0 => LeftCell(Twin(e)) = <<x - 1, y - 1>>
      /\ d = 1 => LeftCell(Twin(e)) = <<x, y - 1>>
      /\ d = 2 => LeftCell(Twin(e)) = <<x, y>>
      /\ d = 3 => LeftCell(Twin(e)) = <<x - 1, y>>
  BY <1>2, <1>6 DEF LeftCell
<1> QED
  BY <1>2, <1>4, <1>7

\* The place after a place, around a ring.
LEMMA PlaceAfter ==
  ASSUME NEW n \in Nat, NEW a \in 1..n
  PROVE  (a % n) + 1 = IF a = n THEN 1 ELSE a + 1
<1>1. CASE a = n
  <2>1. n % n = 0
    BY <1>1
  <2> QED
    BY <1>1, <2>1
<1>2. CASE a # n
  <2>1. a \in 0..(n - 1)
    BY <1>2
  <2>2. a % n = a
    BY <2>1
  <2> QED
    BY <1>2, <2>2
<1> QED
  BY <1>1, <1>2

\* All of it, of one state.
LEMMA ValidSo == CompInv /\ Made => (Edges # {} /\ Misjudged = {} => PolygonsAreValid)
<1> SUFFICES ASSUME CompInv, Made, Edges # {}, Misjudged = {} PROVE PolygonsAreValid
  OBVIOUS
<1>1. Finished => RingsDone
  BY DEF Finished, RingsDone, Late
<1>2. RingsAreSimple
  <2>1. ASSUME NEW i \in DOMAIN rings
        PROVE  LET r == rings[i]
               IN  /\ \A a, b \in DOMAIN r : Origin(r[a]) = Origin(r[b]) => a = b
                   /\ \A a \in DOMAIN r : Target(r[a]) = Origin(r[(a % Len(r)) + 1])
    <3> DEFINE r == rings[i]
    <3>1. Len(r) \in Nat /\ DOMAIN r = 1..Len(r) /\ \A a \in DOMAIN r : Target(r[a]) = Origin(r[After(r, a)])
      BY RingsAreWalks DEF CompInv
    <3>2. \A a, b \in DOMAIN r : Origin(r[a]) = Origin(r[b]) => a = b
      BY VisitOnceSo DEF RingsVisitOnce
    <3> HIDE DEF r
    <3>3. \A a \in DOMAIN r : After(r, a) = (a % Len(r)) + 1
      BY <3>1, PlaceAfter DEF After
    <3> QED
      BY <3>1, <3>2, <3>3 DEF r
  <2> QED
    BY <1>1, <2>1, NothingToCanonicalize DEF RingsAreSimple
<1>3. ASSUME RingsDone, NEW p \in polygons
      PROVE  LET I == Inside(p)
                 near == {q \in I \X I : /\ q[1][1] - q[2][1] \in -1..1
                                         /\ q[1][2] - q[2][2] \in -1..1
                                         /\ q[1][1] = q[2][1] \/ q[1][2] = q[2][2]}
                 isClosed(K) == \A q \in near : q[1] \in K => q[2] \in K
             IN  I # {} /\ \A K \in SUBSET I : K # {} /\ isClosed(K) => K = I
  <2> DEFINE I == Inside(p)
             near == {q \in I \X I : /\ q[1][1] - q[2][1] \in -1..1
                                     /\ q[1][2] - q[2][2] \in -1..1
                                     /\ q[1][1] = q[2][1] \/ q[1][2] = q[2][2]}
  <2>1. I # {}
    BY <1>3, CoverSo DEF PolygonsCover, CompInv
  <2>2. \A c, d \in I : SideBySide(c, d) => <<c, d>> \in near
    <3> SUFFICES ASSUME NEW e \in Lattice, LeftCell(e) \in I, LeftCell(Twin(e)) \in I
                 PROVE  <<LeftCell(e), LeftCell(Twin(e))>> \in near
      BY DEF SideBySide
    <3> HIDE DEF I
    <3> QED
      BY NeighboursAre
  <2> HIDE DEF near
  <2>3. ASSUME NEW K \in SUBSET I, K # {}, \A q \in near : q[1] \in K => q[2] \in K
        PROVE  K = I
    <3>1. ClosedWithin(K, I)
      <4> SUFFICES ASSUME NEW c \in K, NEW d \in I, SideBySide(c, d) PROVE d \in K
        BY DEF ClosedWithin
      <4>1. <<c, d>> \in near
        BY <2>2
      <4> QED
        BY <2>3, <4>1
    <3> QED
      BY <1>3, <2>3, <3>1, ConnectedSo DEF PolygonsConnected
  <2> QED
    BY <2>1, <2>3 DEF near
<1>4. RingsDone => \A i \in DOMAIN rings : Cardinality({p \in polygons : i = p.shell \/ i \in p.holes}) = 1
  BY OnceSo DEF EachRingOnce, CompInv
<1> QED
  BY <1>1, <1>2, <1>3, <1>4 DEF PolygonsAreValid

\* For all operands but those with a misjudged face, what comes out of the
\* subdivision is valid: rings come back and visit no vertex twice, no ring runs
\* into another one, so that the driver finds nothing to canonicalize, every
\* ring is in one polygon, and the interior of a polygon is connected
\* (AssembleOutputPolygons, assemble.go:89; needsCanonicalize, overlay.go:997).
THEOREM PolygonsValid == Spec => [](Edges # {} /\ Misjudged = {} => PolygonsAreValid)
  BY CompAlways, MadeAlways, ValidSo, PTL

-----------------------------------------------------------------------------
(***************************************************************************)
(* The answer as a whole.                                                  *)
(***************************************************************************)
\* What is in one sequence after another.
LEMMA InEither ==
  ASSUME NEW S, NEW s \in Seq(S), NEW t \in Seq(S)
  PROVE  s \o t \in Seq(S) /\ ToSet(s \o t) = ToSet(s) \cup ToSet(t)
<1>1. /\ Len(s) \in Nat /\ Len(t) \in Nat /\ DOMAIN s = 1..Len(s) /\ DOMAIN t = 1..Len(t)
      /\ s \o t \in Seq(S) /\ DOMAIN (s \o t) = 1..(Len(s) + Len(t))
  OBVIOUS
<1>2. \A i \in 1..(Len(s) + Len(t)) : (s \o t)[i] = IF i <= Len(s) THEN s[i] ELSE t[i - Len(s)]
  BY <1>1
<1> DEFINE u == s \o t
<1>3. \A i \in 1..Len(s) : i \in DOMAIN u /\ u[i] = s[i]
  BY <1>1, <1>2
<1>4. \A i \in 1..Len(t) : Len(s) + i \in DOMAIN u /\ u[Len(s) + i] = t[i]
  BY <1>1, <1>2
<1>5. \A i \in DOMAIN u : u[i] \in ToSet(s) \cup ToSet(t)
  <2> SUFFICES ASSUME NEW i \in 1..(Len(s) + Len(t)) PROVE u[i] \in ToSet(s) \cup ToSet(t)
    BY <1>1
  <2>1. CASE i <= Len(s)
    BY <1>1, <1>2, <2>1 DEF ToSet
  <2>2. CASE ~(i <= Len(s))
    <3>1. i - Len(s) \in DOMAIN t /\ u[i] = t[i - Len(s)]
      BY <1>1, <1>2, <2>2
    <3> QED
      BY <3>1 DEF ToSet
  <2> QED
    BY <2>1, <2>2
<1> HIDE DEF u
<1>6. ToSet(s) \cup ToSet(t) \subseteq ToSet(u)
  BY <1>1, <1>3, <1>4 DEF ToSet
<1>7. ToSet(u) \subseteq ToSet(s) \cup ToSet(t)
  BY <1>5 DEF ToSet
<1> QED
  BY <1>1, <1>6, <1>7 DEF u

\* The members of one kind have these parts, and are of that kind.
LEMMA MemberIs ==
  ASSUME NEW T, NEW single \in T, NEW multi \in T, NEW parts, NEW G, [type : T, parts : {parts}] \subseteq G,
         NEW m, m = Driver!Member(single, multi, parts)
  PROVE  /\ m \in Seq(G) /\ (parts = {} => ToSet(m) = {})
         /\ parts # {} => \E g \in G : ToSet(m) = {g} /\ g.type \in T /\ g.parts = parts
<1> DEFINE g == Driver!Wrapped(single, multi, parts)
<1>1. g \in [type : T, parts : {parts}]
  BY DEF Driver!Wrapped, Driver!Geometry
<1> HIDE DEF g
<1>2. g \in G /\ g.type \in T /\ g.parts = parts
  BY <1>1
<1>3. <<>> \in Seq(G) /\ <<g>> \in Seq(G)
  BY <1>2
<1>4. ToSet(<<>>) = {} /\ ToSet(<<g>>) = {g}
  BY DEF ToSet
<1>5. m = IF parts = {} THEN <<>> ELSE <<g>>
  BY DEF Driver!Member, g
<1> QED
  BY <1>2, <1>3, <1>4, <1>5

\* The members of the answer have the polygons, lines and points.
LEMMA MembersAre ==
  /\ AnsweredPolygons = polygons
  /\ AnsweredLines = lines
  /\ AnsweredPoints = points
<1> DEFINE Pick == {"Polygon", "MultiPolygon"}
           Draw == {"LineString", "MultiLineString"}
           Dot == {"Point", "MultiPoint"}
           a == Driver!Member("Polygon", "MultiPolygon", polygons)
           b == Driver!Member("LineString", "MultiLineString", lines)
           c == Driver!Member("Point", "MultiPoint", points)
           G == [type : Pick \cup Draw \cup Dot, parts : {polygons, lines, points}]
<1>1. /\ a \in Seq(G) /\ (polygons = {} => ToSet(a) = {})
      /\ polygons # {} => \E g \in G : ToSet(a) = {g} /\ g.type \in Pick /\ g.parts = polygons
  <2>1. "Polygon" \in Pick /\ "MultiPolygon" \in Pick /\ [type : Pick, parts : {polygons}] \subseteq G
    OBVIOUS
  <2>2. a = Driver!Member("Polygon", "MultiPolygon", polygons)
    OBVIOUS
  <2> HIDE DEF G, Pick, Draw, Dot, a, b, c
  <2> QED
    BY <2>1, <2>2, MemberIs
<1>2. /\ b \in Seq(G) /\ (lines = {} => ToSet(b) = {})
      /\ lines # {} => \E g \in G : ToSet(b) = {g} /\ g.type \in Draw /\ g.parts = lines
  <2>1. "LineString" \in Draw /\ "MultiLineString" \in Draw /\ [type : Draw, parts : {lines}] \subseteq G
    OBVIOUS
  <2>2. b = Driver!Member("LineString", "MultiLineString", lines)
    OBVIOUS
  <2> HIDE DEF G, Pick, Draw, Dot, a, b, c
  <2> QED
    BY <2>1, <2>2, MemberIs
<1>3. /\ c \in Seq(G) /\ (points = {} => ToSet(c) = {})
      /\ points # {} => \E g \in G : ToSet(c) = {g} /\ g.type \in Dot /\ g.parts = points
  <2>1. "Point" \in Dot /\ "MultiPoint" \in Dot /\ [type : Dot, parts : {points}] \subseteq G
    OBVIOUS
  <2>2. c = Driver!Member("Point", "MultiPoint", points)
    OBVIOUS
  <2> HIDE DEF G, Pick, Draw, Dot, a, b, c
  <2> QED
    BY <2>1, <2>2, MemberIs
<1>4. Pick \cap Draw = {} /\ Pick \cap Dot = {} /\ Draw \cap Dot = {}
  OBVIOUS
<1> HIDE DEF Pick, Draw, Dot, a, b, c, G
<1>5. ToSet(Answer) = ToSet(a) \cup ToSet(b) \cup ToSet(c)
  <2>1. a \o b \in Seq(G) /\ ToSet(a \o b) = ToSet(a) \cup ToSet(b)
    BY <1>1, <1>2, InEither
  <2>2. ToSet((a \o b) \o c) = ToSet(a \o b) \cup ToSet(c)
    <3> DEFINE ab == a \o b
    <3>1. ab \in Seq(G) /\ c \in Seq(G)
      BY <1>3, <2>1
    <3> HIDE DEF ab
    <3>2. ToSet(ab \o c) = ToSet(ab) \cup ToSet(c)
      BY <3>1, InEither
    <3> QED
      BY <3>2 DEF ab
  <2>3. Answer = (a \o b) \o c
    BY DEF Answer, Driver!AssembleMixedDim, a, b, c
  <2> QED
    BY <2>1, <2>2, <2>3
<1>6. \A types : PartsOf(types) = UNION {g.parts : g \in {h \in ToSet(Answer) : h.type \in types}}
  BY DEF PartsOf, ToSet
<1>7. {h \in ToSet(Answer) : h.type \in Pick} = ToSet(a)
  BY <1>1, <1>2, <1>3, <1>4, <1>5
<1>8. {h \in ToSet(Answer) : h.type \in Draw} = ToSet(b)
  BY <1>1, <1>2, <1>3, <1>4, <1>5
<1>9. {h \in ToSet(Answer) : h.type \in Dot} = ToSet(c)
  BY <1>1, <1>2, <1>3, <1>4, <1>5
<1>10. PartsOf(Pick) = polygons /\ PartsOf(Draw) = lines /\ PartsOf(Dot) = points
  BY <1>1, <1>2, <1>3, <1>6, <1>7, <1>8, <1>9
<1> QED
  BY <1>10 DEF AnsweredPolygons, AnsweredLines, AnsweredPoints, Pick, Draw, Dot

\* The spikes of an operand, either way.
SpikesOf(s) == s.spikes \cup {Twin(e) : e \in s.spikes}

\* No spikes of both operands end in one point within the result.
SpikesApart ==
  \A e \in SpikesOf(input.subj), f \in SpikesOf(input.clip) :
    Origin(e) = Origin(f) => \E d \in {0, 1, 2, 3} : Sector(Origin(e), d) \notin Result

\* An operand that has a cell has an edge: the one to the left of a cell that
\* has no other one to its left.
LEMMA CellsHaveEdges ==
  ASSUME NEW s, IsOperand(s), s.cells # {}
  PROVE  RingEdges(s) # {}
<1> DEFINE X == {c[1] : c \in s.cells}
<1>1. \A c \in s.cells : c = <<c[1], c[2]>> /\ c[1] \in 0..(Width - 1) /\ c[2] \in 0..(Height - 1)
  BY DEF IsOperand, Cell
<1>2. X \in SUBSET Nat /\ X # {}
  BY <1>1, Grid
<1>3. PICK x \in X : \A y \in X : x <= y
  <2> HIDE DEF X
  <2> QED
    BY <1>2, LeastNumber
<1>4. PICK c \in s.cells : c[1] = x
  OBVIOUS
<1>5. <<c[1] - 1, c[2]>> \notin s.cells
  <2> SUFFICES ASSUME <<c[1] - 1, c[2]>> \in s.cells PROVE FALSE
    OBVIOUS
  <2>1. c[1] - 1 \in X
    OBVIOUS
  <2> QED
    BY <1>1, <1>3, <1>4, <2>1
<1> DEFINE e == <<c[1], c[2], 2>>
<1>6. PICK a \in 0..(Width - 1), b \in 0..(Height - 1) : c = <<a, b>>
  BY <1>1
<1>7. a \in Int /\ b \in Int /\ a \in 0..Width /\ b \in 0..Height /\ b + 1 \in 0..Height /\ e = <<a, b, 2>>
  BY <1>6, Grid
<1>8. Target(e) = <<a, b + 1>> /\ LeftCell(e) = <<a - 1, b>>
  BY <1>7 DEF Target, LeftCell, Dx, Dy
<1>9. e \in Lattice
  BY <1>7, <1>8 DEF Lattice
<1>10. Twin(e) = <<a, b + 1, 0>>
  BY <1>7, <1>8, Quarters DEF Twin
<1>11. LeftCell(Twin(e)) = <<a, b>>
  BY <1>7, <1>10 DEF LeftCell
<1> QED
  BY <1>4, <1>5, <1>6, <1>8, <1>9, <1>11 DEF RingEdges

\* A call that is given its operands has their edges once they are built.
Undrawn ==
  input.drawn = <<>> =>
    /\ stage \notin {"driver", "nothing"}
    /\ input.subj.cells # {}
    /\ stage # "build" => Edges = EdgesOf(input.subj, input.clip)

LEMMA UndrawnAlways == Spec => []Undrawn
<1>1. Init => Undrawn
  <2> SUFFICES ASSUME Init, input.drawn = <<>> PROVE Undrawn
    BY DEF Undrawn
  <2>1. (input.subj.cells # {}) = (input.drawn = <<>>) /\ stage = "build"
    BY InputsAssumption DEF Init
  <2> QED
    BY <2>1 DEF Undrawn
<1>2. GridInv /\ Undrawn /\ [Next]_vars => Undrawn'
  <2> SUFFICES ASSUME GridInv, Undrawn, [Next]_vars, (input.drawn = <<>>)' PROVE Undrawn'
    BY DEF Undrawn
  <2>1. CASE Prepare
    <3>1. input'.drawn = input.drawn
      BY <2>1 DEF Prepare, PrepareAs, GridInv, CallOK
    <3> QED
      BY <2>1, <3>1 DEF Undrawn, Prepare
  <2>2. CASE Repair
    <3>1. input'.drawn = input.drawn
      BY <2>2 DEF Repair, RepairBy, GridInv, CallOK
    <3> QED
      BY <2>2, <3>1 DEF Undrawn, Repair
  <2>3. CASE Build
    <3>1. input' = input /\ stage = "build" /\ stage' = "faces"
      BY <2>3 DEF Build
    <3>2. Edges' = EdgesOf(input.subj, input.clip)
      BY <2>3 DEF Build, Edges, EdgesOf
    <3>3. EdgesOf(input.subj, input.clip)' = EdgesOf(input.subj, input.clip)
      BY <3>1
    <3> QED
      BY <3>1, <3>2, <3>3 DEF Undrawn
  <2>4. CASE UNCHANGED <<input, tags>> /\ stage # "build" /\ stage' \notin {"driver", "nothing", "build"}
    BY <2>4 DEF Undrawn, Edges
  <2>5. CASE UNCHANGED vars
    BY <2>5 DEF Undrawn, Edges, vars
  <2>6. CASE TraceFace \/ Classify \/ ApplyOp
    BY <2>4, <2>6 DEF TraceFace, Classify, ApplyOp, dcel
  <2>7. CASE StartRing \/ GrowRing \/ CloseRing \/ Assemble
    BY <2>4, <2>7 DEF StartRing, GrowRing, CloseRing, Assemble, dcel
  <2>8. CASE StartLine \/ ExtractPoints
    BY <2>4, <2>8 DEF StartLine, ExtractPoints, dcel
  <2>9. CASE GrowForward
    <3>1. UNCHANGED <<input, tags>> /\ stage = "forward" /\ (stage' = stage \/ stage' = "backward")
      BY <2>9 DEF GrowForward, dcel
    <3> QED
      BY <2>4, <3>1
  <2>10. CASE GrowBackward
    <3>1. UNCHANGED <<input, tags>> /\ stage = "backward" /\ (stage' = stage \/ stage' = "lines")
      BY <2>10 DEF GrowBackward, dcel
    <3> QED
      BY <2>4, <3>1
  <2> QED
    BY <2>1, <2>2, <2>3, <2>5, <2>6, <2>7, <2>8, <2>9, <2>10 DEF Next, Done
<1>3. CompInv => GridInv
  BY DEF CompInv, RingInv, ResultInv
<1> QED
  BY <1>1, <1>2, <1>3, CompAlways, PTL DEF Spec

\* A half-edge ends where its other half begins.
LEMMA TargetOfTwin ==
  ASSUME NEW e \in Lattice
  PROVE  Target(Twin(e)) = Origin(e)
<1>1. e = <<Target(Twin(e))[1], Target(Twin(e))[2], (Twin(e)[3] + 2) % 4>>
  BY TwinOfTwin DEF Twin
<1>2. Target(Twin(e)) = <<Target(Twin(e))[1], Target(Twin(e))[2]>>
  BY DEF Target
<1>3. e[1] = Target(Twin(e))[1] /\ e[2] = Target(Twin(e))[2]
  BY <1>1
<1> QED
  BY <1>2, <1>3 DEF Origin

\* With no spikes that meet in it, an intersection has no point too many.
LEMMA NoPointTooMany ==
  ASSUME RingInv, Swept, stage = "done", Edges # {}, ~input.areal, input.op = "intersection", Misjudged = {},
         SpikesApart
  PROVE  points \subseteq PointsOfBoth
<1> SUFFICES ASSUME NEW v \in points, v \notin PointsOfBoth PROVE FALSE
  OBVIOUS
<1> USE DEF RingInv, ResultInv, GridInv
<1>1. v \in Vertices \ Covered /\ TagsAt(v) = {"subj", "clip"}
  BY DEF Swept
<1>2. Edges \subseteq Lattice /\ \A e \in Lattice : Twin(e) \in Lattice /\ Twin(Twin(e)) = e
  BY EdgesOnGrid, TwinOfTwin
<1>3. v \in Points /\ v = <<v[1], v[2]>>
  <2>1. PICK e \in Lattice : v = Origin(e)
    BY <1>1, <1>2 DEF Vertices
  <2> QED
    BY <2>1, OnGrid DEF Origin, Points
<1> DEFINE s == [cells |-> Result, spikes |-> {}]
<1>4. IsOperand(s)
  BY DEF IsOperand, Result
<1>5. PointIn(s, v)
  <2>1. PICK e \in Lattice : Origin(e) = v /\ BesideResult(e)
    BY WholeSo DEF IntersectionIsWhole
  <2>2. EdgeIn(s, e)
    BY <2>1 DEF EdgeIn, BesideResult
  <2> QED
    BY <2>1, <2>2 DEF PointIn
<1>6. ASSUME NEW d \in {0, 1, 2, 3}, <<v[1], v[2], d>> \in RingEdges(s)
      PROVE  FALSE
  <2> DEFINE g == <<v[1], v[2], d>>
  <2>1. g \in Lattice /\ (LeftCell(g) \in Result) # (LeftCell(Twin(g)) \in Result)
    BY <1>6 DEF RingEdges
  <2>2. Origin(g) = v /\ Target(Twin(g)) = v
    BY <1>3, <2>1, OnGrid, TargetOfTwin DEF Origin
  <2> HIDE DEF g
  <2>3. \A x \in Lattice : x \in InRings <=> LeftCell(x) \in Result /\ LeftCell(Twin(x)) \notin Result
    BY BoundarySo DEF RingsAreBoundary
  <2>4. g \in InRings \/ Twin(g) \in InRings
    BY <1>2, <2>1, <2>3
  <2>5. v \in Covered
    <3>1. PICK x \in InRings : v \in {Origin(x), Target(x)}
      BY <2>2, <2>4
    <3>2. PICK i \in DOMAIN rings : x \in ToSet(rings[i])
      BY DEF InRings
    <3>3. v \in PointsOf(rings[i])
      BY <3>1, <3>2 DEF PointsOf
    <3> QED
      BY <3>2, <3>3 DEF Covered
  <2> QED
    BY <1>1, <2>5
<1>7. \A d \in {0, 1, 2, 3} : Sector(v, d) \in Result
  BY <1>3, <1>4, <1>5, <1>6, RingOrInside
<1>8. \A o \in {input.subj, input.clip} : \A d \in {0, 1, 2, 3} : Sector(v, d) \in o.cells
  BY <1>7 DEF Result, Wanted, Subj, Clip
<1>9. ASSUME NEW o \in {input.subj, input.clip}, NEW e \in Edges, Origin(e) = v, e \in RingEdges(o)
      PROVE  e \in SpikesOf(o)
  <2>1. PICK d \in {0, 1, 2, 3} : e = <<v[1], v[2], d>>
    BY <1>2, <1>9, OnGrid DEF Origin
  <2>2. LeftCell(e) \in o.cells
    BY <1>8, <2>1 DEF Sector
  <2>3. LeftCell(Twin(e)) \in o.cells
    <3>1. Sector(v, d) \in o.cells /\ Sector(v, (d + 3) % 4) \in o.cells
      BY <1>8, Quarters
    <3>2. o.cells \subseteq Cell
      BY DEF CallOK, Operand
    <3> QED
      BY <1>3, <2>1, <3>1, <3>2, BetweenSectors
  <2> QED
    BY <1>9, <2>2, <2>3 DEF RingEdges, SpikesOf
<1>10. PICK a \in Edges : Origin(a) = v /\ "subj" \in tags[a]
  BY <1>1 DEF TagsAt
<1>11. PICK b \in Edges : Origin(b) = v /\ "clip" \in tags[b]
  BY <1>1 DEF TagsAt
<1>12. a \in SpikesOf(input.subj) /\ b \in SpikesOf(input.clip)
  BY <1>9, <1>10, <1>11 DEF Tagged
<1> QED
  BY <1>7, <1>10, <1>11, <1>12 DEF SpikesApart
\* The answer of a subdivision is the result of the operation.
LEMMA AnswerSo ==
  CompInv /\ Made /\ Swept =>
    (Edges # {} /\ Misjudged = {} => PolygonsAreResult /\ (SpikesApart => IntersectionIsRight))
<1> SUFFICES ASSUME CompInv, Made, Swept, Edges # {}, Misjudged = {}
             PROVE  PolygonsAreResult /\ (SpikesApart => IntersectionIsRight)
  OBVIOUS
<1>1. RingInv
  BY DEF CompInv
<1>2. PolygonsAreResult
  <2> SUFFICES ASSUME Finished PROVE PolygonsAreResult
    BY DEF PolygonsAreResult
  <2>1. RingsDone
    BY DEF Finished, RingsDone, Late
  <2> QED
    BY <1>1, <2>1, CoverSo, MembersAre DEF PolygonsCover, PolygonsAreResult
<1>3. ASSUME SpikesApart, Finished, input.op = "intersection", ~input.areal
      PROVE  IntersectionIsClosed
  <2> DEFINE lineEdges == UNION {ToSet(l) : l \in AnsweredLines}
             arealEdges == {e \in Lattice : {LeftCell(e), LeftCell(Twin(e))} \cap Result # {}}
             answered == lineEdges \cup {Twin(e) : e \in lineEdges}
             wanted == {e \in Lattice : EdgeIn(input.subj, e) /\ EdgeIn(input.clip, e)}
             apart == {v \in (0..Width) \X (0..Height) :
                         /\ PointIn(input.subj, v) /\ PointIn(input.clip, v)
                         /\ v \notin {Origin(e) : e \in wanted}}
  <2>1. stage = "done"
    BY <1>3 DEF Finished
  <2>2. lineEdges = OnLines
    <3>1. chain = <<>> /\ ToSet(<<>>) = {}
      BY <2>1 DEF Swept, ToSet
    <3> QED
      BY <3>1, MembersAre DEF OnLines
  <2>3. wanted = EdgesOfBoth /\ apart = PointsOfBoth
    BY DEF EdgesOfBoth, PointsOfBoth, Points
  <2>4. arealEdges = {e \in Lattice : BesideResult(e)}
    BY DEF BesideResult
  <2>5. OnLines \cup {Twin(e) : e \in OnLines} = {e \in EdgesOfBoth : ~BesideResult(e)} /\ PointsOfBoth \subseteq points
    BY <1>1, <1>3, <2>1, WholeSo DEF IntersectionIsWhole
  <2>6. points = PointsOfBoth
    BY <1>1, <1>3, <2>1, <2>5, NoPointTooMany
  <2>7. answered = wanted \ arealEdges
    <3>1. EdgesOfBoth \subseteq Lattice
      BY DEF EdgesOfBoth
    <3> HIDE DEF lineEdges, arealEdges, wanted
    <3> QED
      BY <2>2, <2>3, <2>4, <2>5, <3>1
  <2>8. AnsweredPoints = apart
    BY <2>3, <2>6, MembersAre
  <2> QED
    BY <2>7, <2>8 DEF IntersectionIsClosed
<1> QED
  BY <1>2, <1>3 DEF IntersectionIsRight

\* For all operands, drawn ones included, but for those with a misjudged face:
\* the polygons of the answer cover the result, each cell once; and unless
\* spikes of both operands end in one point within the result, an intersection
\* is complete as a closed set, and nothing in it is said twice
\* (extractResultRings, extract_lineal.go:60-238, assembleMixedDim).
THEOREM SubdivisionAnswers ==
  Spec => [](Edges # {} /\ Misjudged = {} => PolygonsAreResult /\ (SpikesApart => IntersectionIsRight))
  BY CompAlways, MadeAlways, SweptAlways, AnswerSo, PTL

\* What a call answers that is given operands on the grid is the operation on
\* them: for any operation and any operands, spikes and collapsed rings
\* included, without a misjudged face and without spikes that meet in the
\* result (overlayCorePolygonalMixed).
THEOREM AnswersRight ==
  Spec => [](input.drawn = <<>> /\ Misjudged = {} /\ SpikesApart => AnswerIsResult)
<1>1. CompInv /\ Made /\ Swept /\ Undrawn => (input.drawn = <<>> /\ Misjudged = {} /\ SpikesApart => AnswerIsResult)
  <2> SUFFICES ASSUME CompInv, Made, Swept, Undrawn, input.drawn = <<>>, Misjudged = {}, SpikesApart
               PROVE  AnswerIsResult
    OBVIOUS
  <2>1. Finished => Edges # {}
    <3>1. IsOperand(input.subj)
      BY OperandsOnGrid DEF CompInv, RingInv, ResultInv, GridInv, CallOK
    <3> QED
      BY <3>1, CellsHaveEdges DEF Undrawn, Finished, EdgesOf
  <2>2. PolygonsAreResult /\ IntersectionIsRight
    BY <2>1, AnswerSo DEF PolygonsAreResult, IntersectionIsRight
  <2>3. Len(input.drawn) = 0 /\ stage # "nothing"
    BY DEF Undrawn
  <2> QED
    BY <2>2, <2>3 DEF AnswerIsResult
<1> QED
  BY <1>1, CompAlways, MadeAlways, SweptAlways, UndrawnAlways, PTL
=============================================================================
