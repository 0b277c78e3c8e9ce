------------------------- MODULE OverlayGridProofs --------------------------
(***************************************************************************)
(* Theorems about the subdivision, for any grid and any operands on it.    *)
(***************************************************************************)
EXTENDS OverlayGrid, FiniteSetTheorems, FunctionTheorems, WellFoundedInduction, TLAPS

Points == (0..Width) \X (0..Height)

-----------------------------------------------------------------------------
(***************************************************************************)
(* Half-edges and the cells beside them.                                   *)
(***************************************************************************)

\* What the constants of an instance are.
LEMMA Grid == Width \in Nat /\ Height \in Nat
  BY InputsAssumption

\* Turning by quarters.
LEMMA Quarters ==
  /\ (0 + 2) % 4 = 2 /\ (1 + 2) % 4 = 3 /\ (2 + 2) % 4 = 0 /\ (3 + 2) % 4 = 1
  /\ (0 + 3) % 4 = 3 /\ (1 + 3) % 4 = 0 /\ (2 + 3) % 4 = 1 /\ (3 + 3) % 4 = 2
  OBVIOUS

\* The half-edges of the grid.
LEMMA OnGrid ==
  ASSUME NEW e \in Lattice
  PROVE  /\ e = <<e[1], e[2], e[3]>>
         /\ e[1] \in 0..Width /\ e[2] \in 0..Height /\ e[3] \in {0, 1, 2, 3}
         /\ Target(e) \in Points
         /\ Target(e) = <<Target(e)[1], Target(e)[2]>>
         /\ Target(e)[1] \in 0..Width /\ Target(e)[2] \in 0..Height
  BY Grid DEF Lattice, Points, Target

\* The other half is on the grid too, and has e as its other half.
LEMMA TwinOfTwin ==
  ASSUME NEW e \in Lattice
  PROVE  Twin(e) \in Lattice /\ Twin(Twin(e)) = e
<1>1. PICK x \in 0..Width, y \in 0..Height, d \in {0, 1, 2, 3} : e = <<x, y, d>>
  BY OnGrid
<1>2. x \in Int /\ y \in Int
  BY Grid, <1>1
<1>3. Target(e) \in Points /\ e[3] = d
  BY OnGrid, <1>1
<1>4. Twin(e) = <<Target(e)[1], Target(e)[2], (d + 2) % 4>>
  BY <1>3 DEF Twin
<1>5. SUFFICES ASSUME NEW u, NEW w, NEW c \in {0, 1, 2, 3}, Target(e) = <<u, w>>, (d + 2) % 4 = c
               PROVE  Target(<<u, w, c>>) = <<x, y>> /\ (c + 2) % 4 = d
  <2>1. Target(e) = <<Target(e)[1], Target(e)[2]>>
    BY OnGrid
  <2> DEFINE u == Target(e)[1]
             w == Target(e)[2]
             c == (d + 2) % 4
  <2>2. c \in {0, 1, 2, 3}
    BY Quarters
  <2>3. Twin(e) = <<u, w, c>> /\ Target(e) = <<u, w>> /\ <<u, w>> \in Points
    BY <1>3, <1>4, <2>1
  <2>4. Target(Twin(e)) = <<x, y>> /\ (c + 2) % 4 = d
    BY <1>5, <2>2, <2>3
  <2>5. Twin(Twin(e)) = <<x, y, d>>
    BY <2>3, <2>4 DEF Twin
  <2>6. <<u, w, c>> \in (0..Width) \X (0..Height) \X (0..3)
    BY <2>2, <2>3 DEF Points
  <2> QED
    BY <1>1, <2>3, <2>4, <2>5, <2>6 DEF Lattice
<1>6. CASE d = 0
  <2>1. Target(e) = <<x, y - 1>> /\ x \in Int /\ y - 1 \in Int
    BY <1>1, <1>2, <1>6 DEF Target, LeftCell, Dx, Dy
  <2>2. u = x /\ w = y - 1 /\ c = 2
    BY <1>5, <1>6, <2>1, Quarters
  <2>3. Target(<<x, y - 1, 2>>) = <<x, y>>
    BY <1>2, <2>1 DEF Target, LeftCell, Dx, Dy
  <2> QED
    BY <1>6, <2>2, <2>3, Quarters
<1>7. CASE d = 1
  <2>1. Target(e) = <<x + 1, y>> /\ x + 1 \in Int /\ y \in Int
    BY <1>1, <1>2, <1>7 DEF Target, LeftCell, Dx, Dy
  <2>2. u = x + 1 /\ w = y /\ c = 3
    BY <1>5, <1>7, <2>1, Quarters
  <2>3. Target(<<x + 1, y, 3>>) = <<x, y>>
    BY <1>2, <2>1 DEF Target, LeftCell, Dx, Dy
  <2> QED
    BY <1>7, <2>2, <2>3, Quarters
<1>8. CASE d = 2
  <2>1. Target(e) = <<x, y + 1>> /\ x \in Int /\ y + 1 \in Int
    BY <1>1, <1>2, <1>8 DEF Target, LeftCell, Dx, Dy
  <2>2. u = x /\ w = y + 1 /\ c = 0
    BY <1>5, <1>8, <2>1, Quarters
  <2>3. Target(<<x, y + 1, 0>>) = <<x, y>>
    BY <1>2, <2>1 DEF Target, LeftCell, Dx, Dy
  <2> QED
    BY <1>8, <2>2, <2>3, Quarters
<1>9. CASE d = 3
  <2>1. Target(e) = <<x - 1, y>> /\ x - 1 \in Int /\ y \in Int
    BY <1>1, <1>2, <1>9 DEF Target, LeftCell, Dx, Dy
  <2>2. u = x - 1 /\ w = y /\ c = 1
    BY <1>5, <1>9, <2>1, Quarters
  <2>3. Target(<<x - 1, y, 1>>) = <<x, y>>
    BY <1>2, <2>1 DEF Target, LeftCell, Dx, Dy
  <2> QED
    BY <1>9, <2>2, <2>3, Quarters
<1> QED
  BY <1>6, <1>7, <1>8, <1>9

\* The sector at a point that lies counterclockwise of a direction, as a cell.
Sector(v, d) == LeftCell(<<v[1], v[2], d>>)

\* The cell on the left of a half-edge is the sector at its end that lies
\* clockwise of the way back.
LEMMA LeftIsSector ==
  ASSUME NEW e \in Lattice
  PROVE  /\ LeftCell(e) = Sector(Target(e), (((e[3] + 2) % 4) + 3) % 4)
         /\ LeftCell(Twin(e)) = Sector(Target(e), (e[3] + 2) % 4)
<1>1. PICK x \in 0..Width, y \in 0..Height, d \in {0, 1, 2, 3} : e = <<x, y, d>>
  BY OnGrid
<1>2. x \in Int /\ y \in Int /\ x + 1 \in Int /\ x - 1 \in Int /\ y + 1 \in Int /\ y - 1 \in Int
  BY Grid, <1>1
<1>3. LeftCell(Twin(e)) = Sector(Target(e), (e[3] + 2) % 4)
  BY DEF Twin, Sector
<1>4. CASE d = 0
  <2>1. Target(e) = <<x, y - 1>> /\ LeftCell(e) = <<x, y - 1>> /\ (((e[3] + 2) % 4) + 3) % 4 = 1
    BY <1>1, <1>2, <1>4 DEF Target, LeftCell, Dx, Dy
  <2> QED
    BY <1>2, <1>3, <2>1 DEF Sector, Target, LeftCell, Dx, Dy
<1>5. CASE d = 1
  <2>1. Target(e) = <<x + 1, y>> /\ LeftCell(e) = <<x, y>> /\ (((e[3] + 2) % 4) + 3) % 4 = 2
    BY <1>1, <1>2, <1>5 DEF Target, LeftCell, Dx, Dy
  <2>2. LeftCell(<<x + 1, y, 2>>) = <<x + 1 - 1, y>>
    BY <1>2 DEF Target, LeftCell, Dx, Dy
  <2> QED
    BY <1>2, <1>3, <2>1, <2>2 DEF Sector
<1>6. CASE d = 2
  <2>1. Target(e) = <<x, y + 1>> /\ LeftCell(e) = <<x - 1, y>> /\ (((e[3] + 2) % 4) + 3) % 4 = 3
    BY <1>1, <1>2, <1>6 DEF Target, LeftCell, Dx, Dy
  <2>2. LeftCell(<<x, y + 1, 3>>) = <<x - 1, y + 1 - 1>>
    BY <1>2 DEF Target, LeftCell, Dx, Dy
  <2> QED
    BY <1>2, <1>3, <2>1, <2>2 DEF Sector
<1>7. CASE d = 3
  <2>1. Target(e) = <<x - 1, y>> /\ LeftCell(e) = <<x - 1, y - 1>> /\ (((e[3] + 2) % 4) + 3) % 4 = 0
    BY <1>1, <1>2, <1>7 DEF Target, LeftCell, Dx, Dy
  <2>2. LeftCell(<<x - 1, y, 0>>) = <<x - 1, y - 1>>
    BY <1>2 DEF Target, LeftCell, Dx, Dy
  <2> QED
    BY <1>2, <1>3, <2>1, <2>2 DEF Sector
<1> QED
  BY <1>1, <1>3, <1>4, <1>5, <1>6, <1>7

\* A direction that leaves the grid has no cell of it on either side, and any
\* other is a half-edge between its two sectors.
LEMMA BetweenSectors ==
  ASSUME NEW v \in Points, NEW d \in {0, 1, 2, 3}
  PROVE  LET e == <<v[1], v[2], d>>
         IN  \/ e \in Lattice /\ LeftCell(e) = Sector(v, d) /\ LeftCell(Twin(e)) = Sector(v, (d + 3) % 4)
             \/ Sector(v, d) \notin Cell /\ Sector(v, (d + 3) % 4) \notin Cell
<1>1. PICK x \in 0..Width, y \in 0..Height : v = <<x, y>>
  BY DEF Points
<1>2. x \in Int /\ y \in Int /\ x + 1 \in Int /\ x - 1 \in Int /\ y + 1 \in Int /\ y - 1 \in Int
  BY Grid, <1>1
<1> DEFINE e == <<x, y, d>>
<1>3. e = <<v[1], v[2], d>> /\ d \in 0..3
  BY <1>1
<1>4. e \in Lattice <=> Target(e) \in Points
  BY <1>3 DEF Lattice, Points
<1>5. LeftCell(e) = Sector(v, d)
  BY <1>3 DEF Sector
<1>6. CASE e \in Lattice
  <2>1. Twin(e) \in Lattice /\ Twin(Twin(e)) = e
    BY <1>6, TwinOfTwin
  <2>2. LeftCell(Twin(e)) = Sector(Target(Twin(e)), (((Twin(e)[3] + 2) % 4) + 3) % 4)
    BY <2>1, LeftIsSector
  <2>3. Target(Twin(e)) = v
    <3>1. Twin(Twin(e)) = <<Target(Twin(e))[1], Target(Twin(e))[2], (Twin(e)[3] + 2) % 4>>
      BY DEF Twin
    <3>2. Target(Twin(e)) = <<Target(Twin(e))[1], Target(Twin(e))[2]>>
      BY DEF Target
    <3> QED
      BY <1>1, <2>1, <3>1, <3>2
  <2>4. (Twin(e)[3] + 2) % 4 = d
    <3>1. Twin(Twin(e)) = <<Target(Twin(e))[1], Target(Twin(e))[2], (Twin(e)[3] + 2) % 4>>
      BY DEF Twin
    <3> QED
      BY <2>1, <3>1
  <2> QED
    BY <1>3, <1>5, <1>6, <2>2, <2>3, <2>4
<1>7. CASE e \notin Lattice
  <2>1. Cell = (0..Width - 1) \X (0..Height - 1)
    BY DEF Cell
  <2>2. CASE d = 0
    <3>1. Target(e) = <<x, y - 1>> /\ Sector(v, 0) = <<x, y - 1>> /\ Sector(v, 3) = <<x - 1, y - 1>>
      BY <1>1, <1>2, <2>2 DEF Sector, Target, LeftCell, Dx, Dy
    <3>2. y - 1 \notin 0..Height
      BY <1>1, <1>4, <1>7, <3>1 DEF Points
    <3> QED
      BY <2>1, <2>2, <3>1, <3>2, Grid
  <2>3. CASE d = 1
    <3>1. Target(e) = <<x + 1, y>> /\ Sector(v, 1) = <<x, y>> /\ Sector(v, 0) = <<x, y - 1>>
      BY <1>1, <1>2, <2>3 DEF Sector, Target, LeftCell, Dx, Dy
    <3>2. x + 1 \notin 0..Width
      BY <1>1, <1>4, <1>7, <3>1 DEF Points
    <3> QED
      BY <2>1, <2>3, <3>1, <3>2, <1>1, Grid
  <2>4. CASE d = 2
    <3>1. Target(e) = <<x, y + 1>> /\ Sector(v, 2) = <<x - 1, y>> /\ Sector(v, 1) = <<x, y>>
      BY <1>1, <1>2, <2>4 DEF Sector, Target, LeftCell, Dx, Dy
    <3>2. y + 1 \notin 0..Height
      BY <1>1, <1>4, <1>7, <3>1 DEF Points
    <3> QED
      BY <2>1, <2>4, <3>1, <3>2, <1>1, Grid
  <2>5. CASE d = 3
    <3>1. Target(e) = <<x - 1, y>> /\ Sector(v, 3) = <<x - 1, y - 1>> /\ Sector(v, 2) = <<x - 1, y>>
      BY <1>1, <1>2, <2>5 DEF Sector, Target, LeftCell, Dx, Dy
    <3>2. x - 1 \notin 0..Width
      BY <1>1, <1>4, <1>7, <3>1 DEF Points
    <3> QED
      BY <2>1, <2>5, <3>1, <3>2, <1>1, Grid
  <2> QED
    BY <2>2, <2>3, <2>4, <2>5
<1> QED
  BY <1>3, <1>6, <1>7

-----------------------------------------------------------------------------
(***************************************************************************)
(* The rings of an operand separate its area from the rest.                *)
(***************************************************************************)

\* Operands as they are once they are on the grid.
IsOperand(s) == s.cells \subseteq Cell /\ s.spikes \subseteq Lattice

\* The half-edges of rings come in pairs.
LEMMA RingsPaired ==
  ASSUME NEW s, IsOperand(s), NEW e \in RingEdges(s)
  PROVE  e \in Lattice /\ Twin(e) \in RingEdges(s)
<1>1. CASE e \in Lattice /\ (LeftCell(e) \in s.cells) # (LeftCell(Twin(e)) \in s.cells)
  <2>1. Twin(e) \in Lattice /\ Twin(Twin(e)) = e
    BY <1>1, TwinOfTwin
  <2>2. (LeftCell(Twin(e)) \in s.cells) # (LeftCell(Twin(Twin(e))) \in s.cells)
    BY <1>1, <2>1
  <2> QED
    BY <1>1, <2>1, <2>2 DEF RingEdges
<1>2. CASE e \in s.spikes
  BY <1>2 DEF RingEdges, IsOperand
<1>3. CASE \E f \in s.spikes : e = Twin(f)
  BY <1>3, TwinOfTwin DEF RingEdges, IsOperand
<1> QED
  BY <1>1, <1>2, <1>3 DEF RingEdges

\* In a direction without a ring of the operand, the sectors on both sides
\* are inside, or both are outside.
LEMMA NothingBetween ==
  ASSUME NEW s, IsOperand(s), NEW v \in Points, NEW d \in {0, 1, 2, 3},
         <<v[1], v[2], d>> \notin RingEdges(s)
  PROVE  Sector(v, d) \in s.cells <=> Sector(v, (d + 3) % 4) \in s.cells
<1> DEFINE e == <<v[1], v[2], d>>
<1>1. CASE e \in Lattice /\ LeftCell(e) = Sector(v, d) /\ LeftCell(Twin(e)) = Sector(v, (d + 3) % 4)
  <2>1. ~((LeftCell(e) \in s.cells) # (LeftCell(Twin(e)) \in s.cells))
    BY <1>1 DEF RingEdges
  <2> QED
    BY <1>1, <2>1
<1>2. CASE Sector(v, d) \notin Cell /\ Sector(v, (d + 3) % 4) \notin Cell
  BY <1>2 DEF IsOperand
<1> QED
  BY <1>1, <1>2, BetweenSectors

\* A number of a few is the least of them.
LEMMA LeastOfFour ==
  ASSUME NEW S \in SUBSET (1..4), S # {}
  PROVE  Min(S) \in S /\ \A j \in S : Min(S) <= j
<1>1. \E x \in S : \A y \in S : x <= y
  <2>1. CASE 1 \in S
    BY <2>1
  <2>2. CASE 1 \notin S /\ 2 \in S
    BY <2>2
  <2>3. CASE 1 \notin S /\ 2 \notin S /\ 3 \in S
    BY <2>3
  <2>4. CASE 1 \notin S /\ 2 \notin S /\ 3 \notin S
    <3>1. \A x \in S : x \in 1..4 /\ x # 1 /\ x # 2 /\ x # 3
      BY <2>4
    <3>2. \A x \in S : x = 4
      BY <3>1
    <3>3. PICK x \in S : TRUE
      OBVIOUS
    <3>4. x <= x /\ \A y \in S : y = x
      BY <3>2
    <3> QED
      BY <3>4
  <2> QED
    BY <2>1, <2>2, <2>3, <2>4
<1> QED
  BY <1>1 DEF Min

\* The subdivision of two operands.
EdgesOf(s, c) == RingEdges(s) \cup RingEdges(c)

\* The edge after e on its face: where all that borders some cells are edges,
\* the left of e is one of the cells just when the left of that edge is.
LEMMA NextSameSide ==
  ASSUME NEW E, \A x \in E : x \in Lattice /\ Twin(x) \in E, NEW e \in E,
         NEW o, IsOperand(o), RingEdges(o) \subseteq E
  PROVE  /\ NextEdge(e, E) \in E
         /\ LeftCell(e) \in o.cells <=> LeftCell(NextEdge(e, E)) \in o.cells
<1> DEFINE v == Target(e)
           back == (e[3] + 2) % 4
           K == {j \in 1..4 : (back + (4 - j)) % 4 \in Out(v, E)}
           k == Min(K)
           n == NextEdge(e, E)
<1>1. e \in Lattice /\ Twin(e) \in E
  OBVIOUS
<1>2. v \in Points /\ v = <<v[1], v[2]>> /\ back \in {0, 1, 2, 3}
  BY <1>1, OnGrid, Quarters
<1>3. Twin(e) = <<v[1], v[2], back>>
  BY DEF Twin
<1>4. n = <<v[1], v[2], (back + (4 - k)) % 4>>
  BY DEF NextEdge, Turn
<1>5. \A d \in {0, 1, 2, 3} : d \in Out(v, E) <=> <<v[1], v[2], d>> \in E
  BY DEF Out
<1>6. \A d \in {0, 1, 2, 3} : d \notin Out(v, E) => (Sector(v, d) \in o.cells <=> Sector(v, (d + 3) % 4) \in o.cells)
  BY <1>2, <1>5, NothingBetween
<1>7. LeftCell(e) = Sector(v, (back + 3) % 4)
  BY <1>1, LeftIsSector
<1>8. LeftCell(n) = Sector(v, (back + (4 - k)) % 4)
  BY <1>4 DEF Sector
<1>9. 4 \in K
  <2>1. (back + (4 - 4)) % 4 = back
    BY <1>2
  <2> QED
    BY <1>1, <1>2, <1>3, <1>5, <2>1
<1>10. k \in K /\ \A j \in K : k <= j
  BY <1>9, LeastOfFour
<1>11. k \in {1, 2, 3, 4} /\ (back + (4 - k)) % 4 \in Out(v, E)
  <2>1. \A j \in K : j \in {1, 2, 3, 4} /\ (back + (4 - j)) % 4 \in Out(v, E)
    OBVIOUS
  <2> HIDE DEF K, k
  <2> QED
    BY <1>10, <2>1
<1>12. n \in E
  <2>1. (back + (4 - k)) % 4 \in {0, 1, 2, 3}
    <3>1. back \in {0, 1, 2, 3} /\ k \in {1, 2, 3, 4}
      BY <1>2, <1>11
    <3> HIDE DEF back, k
    <3> QED
      BY <3>1
  <2> QED
    BY <1>4, <1>5, <1>11, <2>1
<1>13. \A j \in {1, 2, 3} : j < k => (back + (4 - j)) % 4 \notin Out(v, E)
  BY <1>10, <1>11
<1> HIDE DEF v, back, K, k, n
<1>14. LeftCell(e) \in o.cells <=> LeftCell(n) \in o.cells
  <2>1. CASE back = 0
    <3>2. (0 + (4 - 1)) % 4 = 3 /\ (0 + (4 - 2)) % 4 = 2 /\ (0 + (4 - 3)) % 4 = 1 /\ (0 + (4 - 4)) % 4 = 0
      OBVIOUS
    <3>3. k > 1 => (Sector(v, 3) \in o.cells <=> Sector(v, 2) \in o.cells)
      BY <1>6, <1>11, <1>13, <2>1, <3>2, Quarters
    <3>4. k > 2 => (Sector(v, 2) \in o.cells <=> Sector(v, 1) \in o.cells)
      BY <1>6, <1>11, <1>13, <2>1, <3>2, Quarters
    <3>5. k > 3 => (Sector(v, 1) \in o.cells <=> Sector(v, 0) \in o.cells)
      BY <1>6, <1>11, <1>13, <2>1, <3>2, Quarters
    <3> QED
      BY <1>7, <1>8, <1>11, <2>1, <3>2, <3>3, <3>4, <3>5, Quarters
  <2>2. CASE back = 1
    <3>2. (1 + (4 - 1)) % 4 = 0 /\ (1 + (4 - 2)) % 4 = 3 /\ (1 + (4 - 3)) % 4 = 2 /\ (1 + (4 - 4)) % 4 = 1
      OBVIOUS
    <3>3. k > 1 => (Sector(v, 0) \in o.cells <=> Sector(v, 3) \in o.cells)
      BY <1>6, <1>11, <1>13, <2>2, <3>2, Quarters
    <3>4. k > 2 => (Sector(v, 3) \in o.cells <=> Sector(v, 2) \in o.cells)
      BY <1>6, <1>11, <1>13, <2>2, <3>2, Quarters
    <3>5. k > 3 => (Sector(v, 2) \in o.cells <=> Sector(v, 1) \in o.cells)
      BY <1>6, <1>11, <1>13, <2>2, <3>2, Quarters
    <3> QED
      BY <1>7, <1>8, <1>11, <2>2, <3>2, <3>3, <3>4, <3>5, Quarters
  <2>3. CASE back = 2
    <3>2. (2 + (4 - 1)) % 4 = 1 /\ (2 + (4 - 2)) % 4 = 0 /\ (2 + (4 - 3)) % 4 = 3 /\ (2 + (4 - 4)) % 4 = 2
      OBVIOUS
    <3>3. k > 1 => (Sector(v, 1) \in o.cells <=> Sector(v, 0) \in o.cells)
      BY <1>6, <1>11, <1>13, <2>3, <3>2, Quarters
    <3>4. k > 2 => (Sector(v, 0) \in o.cells <=> Sector(v, 3) \in o.cells)
      BY <1>6, <1>11, <1>13, <2>3, <3>2, Quarters
    <3>5. k > 3 => (Sector(v, 3) \in o.cells <=> Sector(v, 2) \in o.cells)
      BY <1>6, <1>11, <1>13, <2>3, <3>2, Quarters
    <3> QED
      BY <1>7, <1>8, <1>11, <2>3, <3>2, <3>3, <3>4, <3>5, Quarters
  <2>4. CASE back = 3
    <3>2. (3 + (4 - 1)) % 4 = 2 /\ (3 + (4 - 2)) % 4 = 1 /\ (3 + (4 - 3)) % 4 = 0 /\ (3 + (4 - 4)) % 4 = 3
      OBVIOUS
    <3>3. k > 1 => (Sector(v, 2) \in o.cells <=> Sector(v, 1) \in o.cells)
      BY <1>6, <1>11, <1>13, <2>4, <3>2, Quarters
    <3>4. k > 2 => (Sector(v, 1) \in o.cells <=> Sector(v, 0) \in o.cells)
      BY <1>6, <1>11, <1>13, <2>4, <3>2, Quarters
    <3>5. k > 3 => (Sector(v, 0) \in o.cells <=> Sector(v, 3) \in o.cells)
      BY <1>6, <1>11, <1>13, <2>4, <3>2, Quarters
    <3> QED
      BY <1>7, <1>8, <1>11, <2>4, <3>2, <3>3, <3>4, <3>5, Quarters
  <2> QED
    BY <1>2, <2>1, <2>2, <2>3, <2>4 DEF back
<1> QED
  BY <1>12, <1>14 DEF n

\* So no ring lies between the left of e and the left of the edge after it:
\* they are inside the same operands.
LEMMA NextIsBeside ==
  ASSUME NEW s, NEW c, IsOperand(s), IsOperand(c), NEW e \in EdgesOf(s, c), NEW o \in {s, c}
  PROVE  /\ NextEdge(e, EdgesOf(s, c)) \in EdgesOf(s, c)
         /\ LeftCell(e) \in o.cells <=> LeftCell(NextEdge(e, EdgesOf(s, c))) \in o.cells
<1>1. IsOperand(o) /\ RingEdges(o) \subseteq EdgesOf(s, c)
  BY DEF EdgesOf
<1>2. \A x \in EdgesOf(s, c) : x \in Lattice /\ Twin(x) \in EdgesOf(s, c)
  BY RingsPaired DEF EdgesOf
<1> QED
  BY <1>1, <1>2, NextSameSide

-----------------------------------------------------------------------------
(***************************************************************************)
(* The walk around a face.                                                 *)
(***************************************************************************)

\* A set of numbers has a least one.
LEMMA LeastNumber ==
  ASSUME NEW S \in SUBSET Nat, S # {}
  PROVE  \E m \in S : \A j \in S : m <= j
<1> DEFINE R == OpToRel(<, Nat)
<1>1. IsWellFoundedOn(R, Nat)
  BY NatLessThanWellFounded
<1> HIDE DEF R
<1>2. PICK m \in S : \A j \in S : ~(<<j, m>> \in R)
  BY <1>1, WFMin
<1>3. \A j \in S : ~(j < m)
  BY <1>2 DEF R, OpToRel
<1> QED
  BY <1>3

\* A walk of any length along f exists.
LEMMA WalkExists ==
  ASSUME NEW f, NEW e, NEW n \in Nat
  PROVE  \E w : w = [k \in 0..n |-> IF k = 0 THEN e ELSE f[w[k - 1]]]
<1> DEFINE Good == {m \in Nat : \E w : w = [k \in 0..m |-> IF k = 0 THEN e ELSE f[w[k - 1]]]}
           Bad == Nat \ Good
<1> SUFFICES ASSUME Bad # {} PROVE FALSE
  OBVIOUS
<1>1. PICK m \in Bad : \A j \in Bad : m <= j
  <2>1. Bad \in SUBSET Nat
    OBVIOUS
  <2> HIDE DEF Bad
  <2> QED
    BY <2>1, LeastNumber
<1>2. m \in Nat /\ m \notin Good /\ \A j \in Nat : j \in Good \/ m <= j
  <2> HIDE DEF Good
  <2> QED
    BY <1>1
<1> HIDE DEF Bad
<1>3. CASE m = 0
  <2> DEFINE w == [k \in 0..0 |-> e]
  <2>1. \A k \in 0..0 : k = 0
    OBVIOUS
  <2>2. w = [k \in 0..0 |-> IF k = 0 THEN e ELSE f[w[k - 1]]]
    BY <2>1
  <2> QED
    BY <1>2, <1>3, <2>2
<1>4. CASE m # 0
  <2>1. m - 1 \in Nat /\ m - 1 < m
    BY <1>2, <1>4
  <2>2. PICK g : g = [k \in 0..(m - 1) |-> IF k = 0 THEN e ELSE f[g[k - 1]]]
    <3>1. m - 1 \in Good
      <4> HIDE DEF Good
      <4> QED
        BY <1>2, <2>1
    <3> QED
      BY <3>1
  <2> DEFINE w == [k \in 0..m |-> IF k = 0 THEN e ELSE f[g[k - 1]]]
  <2>3. \A k \in 0..(m - 1) : w[k] = g[k]
    BY <1>2, <2>2
  <2>4. \A k \in 0..m : k # 0 => k - 1 \in 0..(m - 1)
    BY <1>2
  <2>5. w = [k \in 0..m |-> IF k = 0 THEN e ELSE f[w[k - 1]]]
    <3>1. \A k \in 0..m : k # 0 => g[k - 1] = w[k - 1]
      BY <2>3, <2>4
    <3> HIDE DEF w
    <3>2. w = [k \in 0..m |-> IF k = 0 THEN e ELSE f[g[k - 1]]]
      BY DEF w
    <3> QED
      BY <3>1, <3>2
  <2> QED
    BY <1>2, <2>5
<1> QED
  BY <1>3, <1>4

\* A walk around a face stays among the half-edges that it starts among, when
\* the half-edge after each of them is one of them.
LEMMA CycleStays ==
  ASSUME IsFiniteSet(Edges), NEW S, NEW e \in S, \A x \in S : next[x] \in S
  PROVE  Cycle(e) \subseteq S
<1> DEFINE n == Cardinality(Edges)
           w == CHOOSE w : w = [k \in 0..n |-> IF k = 0 THEN e ELSE next[w[k - 1]]]
<1>1. n \in Nat
  BY FS_CardinalityType
<1>2. Cycle(e) = {w[k] : k \in 0..n}
  BY DEF Cycle
<1> HIDE DEF n
<1>3. w = [k \in 0..n |-> IF k = 0 THEN e ELSE next[w[k - 1]]]
  BY <1>1, WalkExists
<1> HIDE DEF w
<1> DEFINE Bad == {k \in 0..n : w[k] \notin S}
<1>4. Bad = {}
  <2> SUFFICES ASSUME Bad # {} PROVE FALSE
    OBVIOUS
  <2>1. Bad \in SUBSET Nat
    BY <1>1
  <2> HIDE DEF Bad
  <2>2. PICK k \in Bad : \A j \in Bad : k <= j
    BY <2>1, LeastNumber
  <2> USE DEF Bad
  <2>3. k \in 0..n /\ w[k] \notin S
    OBVIOUS
  <2>4. CASE k = 0
    <3>1. w[0] = e
      BY <1>1, <1>3
    <3> QED
      BY <2>3, <2>4, <3>1
  <2>5. CASE k # 0
    <3>1. k - 1 \in 0..n /\ ~(k <= k - 1)
      BY <1>1, <2>3, <2>5
    <3>2. w[k - 1] \in S
      BY <2>2, <3>1
    <3>3. w[k] = next[w[k - 1]]
      BY <1>3, <2>3, <2>5
    <3> QED
      BY <2>3, <3>2, <3>3
  <2> QED
    BY <2>4, <2>5
<1> QED
  BY <1>2, <1>4

\* There are finitely many half-edges on the grid, and any of them have a
\* first one.
LEMMA GridIsFinite == IsFiniteSet(Lattice)
<1> DEFINE A == (0..Width) \X (0..Height)
           B == A \X (0..3)
           T == (0..Width) \X (0..Height) \X (0..3)
           f == [p \in B |-> <<p[1][1], p[1][2], p[2]>>]
<1>1. IsFiniteSet(0..Width) /\ IsFiniteSet(0..Height) /\ IsFiniteSet(0..3)
  <2>1. \A n \in Nat : IsFiniteSet(0..n)
    BY FS_Interval
  <2> QED
    BY Grid, <2>1
<1>2. IsFiniteSet(A)
  BY <1>1, FS_Product
<1>3. IsFiniteSet(B)
  <2> HIDE DEF A
  <2> QED
    BY <1>1, <1>2, FS_Product
<1>4. f \in [B -> T]
  OBVIOUS
<1>5. \A t \in T : \E p \in B : f[p] = t
  <2> SUFFICES ASSUME NEW t \in T PROVE \E p \in B : f[p] = t
    OBVIOUS
  <2>1. <<<<t[1], t[2]>>, t[3]>> \in B /\ t = <<t[1], t[2], t[3]>>
    OBVIOUS
  <2> QED
    BY <2>1
<1>6. f \in Surjection(B, T)
  <2> HIDE DEF f, B, T
  <2> QED
    BY <1>4, <1>5 DEF Surjection
<1>7. IsFiniteSet(T)
  <2> HIDE DEF f, B, T
  <2> QED
    BY <1>3, <1>6, FS_Surjection
<1>8. Lattice \subseteq T
  BY DEF Lattice
<1> QED
  <2> HIDE DEF T
  <2> QED
    BY <1>7, <1>8, FS_Subset

\* The first of some half-edges is one of them.
LEMMA FirstIsIn ==
  ASSUME NEW S \in SUBSET Lattice, S # {}
  PROVE  First(S) \in S
<1> DEFINE R == {Rank(e) : e \in S}
<1>1. \A e \in S : Rank(e) \in Nat
  <2> SUFFICES ASSUME NEW e \in S PROVE Rank(e) \in Nat
    OBVIOUS
  <2>1. e[1] \in Nat /\ e[2] \in Nat /\ e[3] \in Nat /\ Height + 1 \in Nat
    BY Grid, OnGrid
  <2>2. e[1] * (Height + 1) \in Nat
    BY <2>1
  <2> QED
    BY <2>1, <2>2 DEF Rank
<1>2. R \in SUBSET Nat /\ R # {}
  BY <1>1
<1>3. PICK m \in R : \A j \in R : m <= j
  <2> HIDE DEF R
  <2> QED
    BY <1>2, LeastNumber
<1>4. PICK e \in S : m = Rank(e)
  OBVIOUS
<1>5. \A f \in S : Rank(e) <= Rank(f)
  BY <1>3, <1>4
<1> QED
  BY <1>5 DEF First

-----------------------------------------------------------------------------
(***************************************************************************)
(* The inductive invariant.                                                *)
(***************************************************************************)

Early == {"driver", "nothing", "build", "faces"}
Stages == {"driver", "nothing", "build", "faces", "op", "rings", "lines", "forward", "backward", "done"}

\* A call has operands on the grid.
CallOK ==
  /\ DOMAIN input = {"op", "subj", "clip", "drawn", "areal"}
  /\ input.op \in Ops \cup Repairs /\ input.subj \in Operand /\ input.clip \in Operand
  /\ stage \in Stages /\ (stage # "driver" => input.op \in Ops)

\* Two half-edges with the same operands on their left.
Beside(i, e, f) == \A o \in {i.subj, i.clip} : LeftCell(e) \in o.cells <=> LeftCell(f) \in o.cells

\* The edges are those of the two operands, and each goes on along its face.
Built ==
  /\ Edges = {} \/ Edges = EdgesOf(input.subj, input.clip)
  /\ stage \in {"driver", "nothing", "build"} => Edges = {}
  /\ DOMAIN next = Edges
  /\ \A e \in Edges : next[e] \in Edges /\ Beside(input, e, next[e])

\* A face is named by one of its edges, with the same operands on its left.
Traced ==
  /\ DOMAIN face \subseteq Edges
  /\ \A e \in DOMAIN face : face[e] \in Edges /\ Beside(input, e, face[e])
  /\ stage # "faces" => DOMAIN face = Edges
  /\ inSubj \cup inClip \cup keep \subseteq Faces
  /\ stage \in Early => inSubj \cup inClip \cup keep = {}

\* What is walked are half-edges, and those of a ring are all different.
Walked ==
  /\ visited \subseteq Edges
  /\ ring \in Seq(visited)
  /\ \A i, j \in 1..Len(ring) : ring[i] = ring[j] => i = j
  /\ stage # "done" => rings \in Seq(Seq(Edges))
  /\ stage \in {"driver", "nothing", "build", "faces", "op"} => rings = <<>>
  /\ chain \in Seq(Edges) /\ (stage \in {"forward", "backward"} => chain # <<>>)
  /\ lines \subseteq Seq(Edges)

\* The rings of a polygon are rings.
Assembled ==
  /\ \A p \in polygons : p.shell \in DOMAIN rings /\ p.holes \subseteq DOMAIN rings
  /\ stage \in {"driver", "nothing", "build", "faces", "op", "rings"} => polygons = {}

GridInv == CallOK /\ Built /\ Traced /\ Walked /\ Assembled

\* Operands on the grid separate their area from the rest.
LEMMA OperandsOnGrid == \A s \in Operand : IsOperand(s)
  BY DEF Operand, IsOperand

\* The edges of a subdivision are on the grid and come in pairs.
LEMMA EdgesOnGrid ==
  ASSUME CallOK, Built
  PROVE  /\ Edges \subseteq Lattice /\ IsFiniteSet(Edges)
         /\ \A e \in Edges : Twin(e) \in Edges
<1>1. IsOperand(input.subj) /\ IsOperand(input.clip)
  BY OperandsOnGrid DEF CallOK
<1>2. \A e \in EdgesOf(input.subj, input.clip) : e \in Lattice /\ Twin(e) \in EdgesOf(input.subj, input.clip)
  BY <1>1, RingsPaired DEF EdgesOf
<1>3. Edges \subseteq Lattice /\ \A e \in Edges : Twin(e) \in Edges
  BY <1>2 DEF Built
<1> QED
  BY <1>3, GridIsFinite, FS_Subset

\* The invariant holds of a call that has not begun.
LEMMA GridStart == Init => GridInv
<1> SUFFICES ASSUME Init PROVE GridInv
  OBVIOUS
<1>1. input \in Inputs /\ DOMAIN tags = {} /\ DOMAIN face = {} /\ DOMAIN next = {}
  BY DEF Init
<1>2. CallOK
  <2>1. input.op \in Repairs => input.drawn # <<>>
    BY <1>1, InputsAssumption
  <2> QED
    BY <1>1, <2>1, InputsAssumption DEF Init, CallOK, Stages
<1>3. Edges = {}
  BY <1>1 DEF Edges
<1>4. Built
  BY <1>1, <1>3 DEF Built
<1>5. Traced
  BY <1>1, <1>3 DEF Traced, Faces, Init
<1>6. Walked
  BY <1>3 DEF Walked, Init
<1>7. Assembled
  BY DEF Assembled, Init
<1> QED
  BY <1>2, <1>4, <1>5, <1>6, <1>7 DEF GridInv

\* What a repair does next.
LEMMA TasksAre ==
  ASSUME NEW polys
  PROVE  /\ Driver!RepairOnePolygon(polys).op \in {"keep", "union", "difference"}
         /\ Driver!CanonicalizeTouchingRings(polys).op \in {"keep", "union", "difference"}
<1>1. \A ps : Driver!CanonicalizeTouchingRings(ps).op \in {"keep", "union"}
  BY DEF Driver!CanonicalizeTouchingRings, Driver!Keep, Driver!Overlay, Driver!SplitOrUnited
<1> QED
  BY <1>1 DEF Driver!RepairOnePolygon, Driver!Overlay

\* A drawn operand is on the grid.
LEMMA OperandOfIs == \A o : OperandOf(o) \in Operand
  BY DEF OperandOf, Operand

\* Preparing and repairing leave operands on the grid, and an operation.
LEMMA CallKept == GridInv /\ [Next]_vars => CallOK'
<1> SUFFICES ASSUME GridInv, [Next]_vars PROVE CallOK'
  OBVIOUS
<1> USE DEF GridInv
<1>1. CASE Prepare
  <2>1. input' = [input EXCEPT !.subj = OperandOf(Driver!Prepared(input.drawn)[1]), !.clip = OperandOf(Driver!Prepared(input.drawn)[2])]
    BY <1>1 DEF Prepare, PrepareAs
  <2>2. stage' \in Stages /\ input.op \in Ops
    BY <1>1 DEF Prepare, PrepareAs, Stages, CallOK
  <2> QED
    BY <2>1, <2>2, OperandOfIs DEF CallOK
<1>2. CASE Repair
  <2>1. PICK task : RepairBy(task) /\ task.op \in {"keep", "union", "difference"}
    BY <1>2, TasksAre DEF Repair
  <2>2. CASE task.op = "keep"
    <3>1. /\ stage' = "done"
          /\ input' = [input EXCEPT !.op = "union", !.subj = AsOperand(input.drawn[1]), !.clip = AsOperand(input.drawn[1])]
      BY <2>1, <2>2 DEF RepairBy
    <3> QED
      BY <3>1, OperandOfIs DEF CallOK, AsOperand, Ops, Stages
  <2>3. CASE task.op # "keep"
    <3>1. /\ stage' = "build"
          /\ input' = [input EXCEPT !.op = task.op, !.subj = AsOperand(task.subj), !.clip = AsOperand(task.clip)]
      BY <2>1, <2>3 DEF RepairBy
    <3> QED
      BY <2>1, <2>3, <3>1, OperandOfIs DEF CallOK, AsOperand, Ops, Stages
  <2> QED
    BY <2>2, <2>3
<1>3. CASE ~Prepare /\ ~Repair
  <2>1. input' = input
    BY <1>3 DEF Next, vars, Build, TraceFace, Classify, ApplyOp, StartRing, GrowRing, CloseRing, Assemble,
               StartLine, GrowForward, GrowBackward, ExtractPoints, Done
  <2>2. stage' \in Stages /\ (stage = "driver" => stage' = "driver")
    BY <1>3 DEF Next, vars, Build, TraceFace, Classify, ApplyOp, StartRing, GrowRing, CloseRing, Assemble,
               StartLine, GrowForward, GrowBackward, ExtractPoints, Done, CallOK, Stages
  <2> QED
    BY <2>1, <2>2 DEF CallOK
<1> QED
  BY <1>1, <1>2, <1>3

\* The subdivision is built once, from the operands at that time.
LEMMA BuiltKept == GridInv /\ [Next]_vars => Built'
<1> SUFFICES ASSUME GridInv, [Next]_vars PROVE Built'
  OBVIOUS
<1> USE DEF GridInv
<1>1. CASE Build
  <2> DEFINE E == EdgesOf(input.subj, input.clip)
  <2>1. /\ input' = input /\ stage' = "faces"
        /\ DOMAIN tags' = E
        /\ next' = [e \in E |-> NextEdge(e, E)]
    BY <1>1 DEF Build, EdgesOf
  <2>2. Edges' = E
    BY <2>1 DEF Edges
  <2>3. IsOperand(input.subj) /\ IsOperand(input.clip)
    BY OperandsOnGrid DEF CallOK
  <2>4. \A e \in E : NextEdge(e, E) \in E /\ Beside(input, e, NextEdge(e, E))
    <3> SUFFICES ASSUME NEW e \in E PROVE NextEdge(e, E) \in E /\ Beside(input, e, NextEdge(e, E))
      OBVIOUS
    <3>1. \A o \in {input.subj, input.clip} :
            NextEdge(e, E) \in E /\ (LeftCell(e) \in o.cells <=> LeftCell(NextEdge(e, E)) \in o.cells)
      BY <2>3, NextIsBeside
    <3> HIDE DEF E
    <3> QED
      BY <3>1 DEF Beside
  <2> HIDE DEF E
  <2> QED
    BY <2>1, <2>2, <2>4 DEF Built, E
<1>2. CASE Prepare \/ Repair
  <2>1. Edges = {} /\ tags' = tags /\ next' = next
    BY <1>2 DEF Built, Prepare, Repair, dcel
  <2> QED
    BY <2>1 DEF Built, Edges
<1>3. CASE ~Prepare /\ ~Repair /\ ~Build
  <2>1. input' = input /\ tags' = tags /\ next' = next
    BY <1>3 DEF Next, vars, dcel, TraceFace, Classify, ApplyOp, StartRing, GrowRing, CloseRing, Assemble,
               StartLine, GrowForward, GrowBackward, ExtractPoints, Done
  <2>2. stage' \in {"driver", "nothing", "build"} => stage \in {"driver", "nothing", "build"}
    BY <1>3 DEF Next, vars, TraceFace, Classify, ApplyOp, StartRing, GrowRing, CloseRing, Assemble,
               StartLine, GrowForward, GrowBackward, ExtractPoints, Done
  <2> QED
    BY <2>1, <2>2 DEF Built, Edges
<1> QED
  BY <1>1, <1>2, <1>3

\* Tracing a face labels half-edges beside the one it starts with.
LEMMA TracedKept == GridInv /\ [Next]_vars => Traced'
<1> SUFFICES ASSUME GridInv, [Next]_vars PROVE Traced'
  OBVIOUS
<1> USE DEF GridInv
<1>1. CASE TraceFace
  <2> DEFINE e == First(Edges \ DOMAIN face)
             S == {x \in Edges : Beside(input, x, e)}
  <2>1. e \in Edges \ DOMAIN face
    <3>1. Edges \ DOMAIN face \in SUBSET Lattice /\ Edges \ DOMAIN face # {}
      BY <1>1, EdgesOnGrid DEF TraceFace
    <3> QED
      BY <3>1, FirstIsIn
  <2> HIDE DEF e
  <2>2. e \in S
    BY <2>1 DEF Beside
  <2>3. \A x \in S : next[x] \in S
    BY DEF Built, Beside
  <2>4. Cycle(e) \subseteq S
    <3>1. IsFiniteSet(Edges)
      BY EdgesOnGrid
    <3> HIDE DEF S
    <3> QED
      BY <2>2, <2>3, <3>1, CycleStays
  <2>5. /\ face' = [x \in DOMAIN face \cup Cycle(e) |-> IF x \in Cycle(e) THEN e ELSE face[x]]
        /\ input' = input /\ stage' = stage /\ Edges' = Edges /\ stage = "faces"
        /\ inSubj' = inSubj /\ inClip' = inClip /\ keep' = keep
    BY <1>1 DEF TraceFace, dcel, labels, Edges, e
  <2>6. DOMAIN face' = DOMAIN face \cup Cycle(e)
    BY <2>5
  <2>7. \A x \in DOMAIN face' : face'[x] \in Edges /\ Beside(input, x, face'[x])
    BY <2>1, <2>4, <2>5 DEF Early, Traced
  <2>8. inSubj = {} /\ inClip = {} /\ keep = {}
    BY <2>5 DEF Early, Traced
  <2> QED
    BY <2>4, <2>5, <2>6, <2>7, <2>8 DEF Early, Traced, Faces
<1>2. CASE Classify
  <2>1. /\ inSubj' \subseteq Faces /\ inClip' \subseteq Faces /\ DOMAIN face = Edges
        /\ stage' = "op"
        /\ UNCHANGED <<input, tags, face, keep>>
    BY <1>2 DEF Classify, dcel
  <2> QED
    BY <2>1 DEF Early, Traced, Faces, Edges
<1>3. CASE ApplyOp
  <2>1. /\ keep' \subseteq Faces /\ stage = "op" /\ stage' = "rings"
        /\ UNCHANGED <<input, tags, face, inSubj, inClip>>
    BY <1>3 DEF ApplyOp, dcel
  <2> QED
    BY <2>1 DEF Early, Traced, Faces, Edges
<1>4. CASE Prepare \/ Repair \/ Build
  <2>1. Edges = {} /\ UNCHANGED <<face, inSubj, inClip, keep>>
    BY <1>4 DEF Built, Prepare, Repair, Build, labels
  <2>2. DOMAIN face = {} /\ inSubj \cup inClip \cup keep = {}
    BY <1>4, <2>1 DEF Early, Traced, Prepare, Repair, Build
  <2>3. stage' = "faces" \/ tags' = tags
    BY <1>4 DEF Prepare, Repair, Build, dcel
  <2> QED
    BY <2>1, <2>2, <2>3 DEF Early, Traced, Faces, Edges
<1>5. CASE ~(Prepare \/ Repair \/ Build) /\ ~TraceFace /\ ~Classify /\ ~ApplyOp
  <2>1. UNCHANGED <<input, tags, face, inSubj, inClip, keep>>
    BY <1>5 DEF Next, vars, dcel, labels, StartRing, GrowRing, CloseRing, Assemble,
               StartLine, GrowForward, GrowBackward, ExtractPoints, Done
  <2>2. stage' # "faces" => stage # "faces"
    BY <1>5 DEF Next, vars, StartRing, GrowRing, CloseRing, Assemble,
               StartLine, GrowForward, GrowBackward, ExtractPoints, Done
  <2>3. stage' \in Early => stage' = stage
    BY <1>5 DEF Early, Next, vars, StartRing, GrowRing, CloseRing, Assemble,
               StartLine, GrowForward, GrowBackward, ExtractPoints, Done
  <2> QED
    BY <2>1, <2>2, <2>3 DEF Early, Traced, Faces, Edges
<1> QED
  BY <1>1, <1>2, <1>3, <1>4, <1>5

\* One element more.
LEMMA AppendIs ==
  ASSUME NEW S, NEW s \in Seq(S), NEW x \in S
  PROVE  /\ Append(s, x) \in Seq(S) /\ Append(s, x) # <<>>
         /\ Len(Append(s, x)) = Len(s) + 1
         /\ Append(s, x)[Len(s) + 1] = x
         /\ \A i \in 1..Len(s) : Append(s, x)[i] = s[i]
  OBVIOUS

\* The half-edge a ring goes on with is one of the boundary, and the one a
\* line goes on with is one to be harvested.
LEMMA NextBoundaryIs ==
  ASSUME NEW e, NextBoundary(e) # Nil
  PROVE  NextBoundary(e) \in Edges /\ IsBoundary(NextBoundary(e))
<1> DEFINE turn(k) == Turn(Target(e), (e[3] + 2) % 4, k)
           any == {k \in 1..3 : IsBoundary(turn(k))}
           same == {k \in any : root[face[turn(k)]] = root[face[e]]}
<1>1. \A k \in any : turn(k) \in Edges /\ IsBoundary(turn(k))
  BY DEF IsBoundary
<1>2. any \in SUBSET (1..4) /\ same \in SUBSET any
  OBVIOUS
<1>3. any # {} => Min(any) \in any
  <2> HIDE DEF any
  <2> QED
    BY <1>2, LeastOfFour
<1>4. same # {} => Min(same) \in any
  <2> HIDE DEF any, same
  <2>1. same \in SUBSET (1..4)
    BY <1>2
  <2> QED
    BY <1>2, <2>1, LeastOfFour
<1>5. NextBoundary(e) = IF same # {} THEN turn(Min(same)) ELSE IF any # {} THEN turn(Min(any)) ELSE Nil
  BY DEF NextBoundary
<1> HIDE DEF any, same, turn
<1> QED
  BY <1>1, <1>3, <1>4, <1>5

\* The half-edge a line goes on with is in the result.
LEMMA OnlyWayOnIs ==
  ASSUME CallOK, Built, NEW e, OnlyWayOn(e) # Nil
  PROVE  OnlyWayOn(e) \in Edges /\ InResult(OnlyWayOn(e))
<1> DEFINE ways == {f \in Unharvested : Origin(f) = Target(e) /\ f # Twin(e)}
<1>1. ways \subseteq Edges /\ IsFiniteSet(Edges) /\ \A f \in ways : InResult(f)
  BY EdgesOnGrid DEF Unharvested
<1>2. OnlyWayOn(e) = IF Cardinality(ways) = 1 THEN CHOOSE f \in ways : TRUE ELSE Nil
  BY DEF OnlyWayOn
<1> HIDE DEF ways
<1>3. Cardinality(ways) = 1
  BY <1>2
<1>4. ways # {}
  BY <1>3, FS_EmptySet
<1> QED
  BY <1>1, <1>2, <1>3, <1>4

\* The walks add half-edges of the subdivision, a ring none it has.
LEMMA WalkedKept == GridInv /\ [Next]_vars => Walked'
<1> SUFFICES ASSUME GridInv, [Next]_vars PROVE Walked'
  OBVIOUS
<1> USE DEF GridInv
<1>e. Edges \subseteq Lattice /\ \A e \in Edges : Twin(e) \in Edges
  BY EdgesOnGrid
<1>1. CASE StartRing
  <2> DEFINE e == First(Unwalked)
  <2>1. e \in Edges
    <3>1. Unwalked \in SUBSET Lattice /\ Unwalked # {} /\ Unwalked \subseteq Edges
      BY <1>1, <1>e DEF StartRing, Unwalked
    <3> QED
      BY <3>1, FirstIsIn
  <2>2. /\ ring' = <<e>> /\ visited' = visited \cup {e} /\ Edges' = Edges
        /\ UNCHANGED <<rings, chain, lines, stage>> /\ stage = "rings"
    BY <1>1 DEF StartRing, dcel, rest, Edges
  <2> HIDE DEF e
  <2> QED
    BY <2>1, <2>2 DEF Walked
<1>2. CASE GrowRing
  <2> DEFINE e == NextBoundary(Last(ring))
  <2>1. e \in Edges /\ e \notin visited
    BY <1>2, NextBoundaryIs DEF GrowRing
  <2>2. /\ ring' = Append(ring, e) /\ visited' = visited \cup {e} /\ Edges' = Edges
        /\ UNCHANGED <<rings, chain, lines, stage>>
    BY <1>2 DEF GrowRing, dcel, rest, Edges
  <2> HIDE DEF e
  <2>3. ring \in Seq(visited) /\ \A i \in 1..Len(ring) : ring[i] \in visited
    BY DEF Walked
  <2>4. ring \in Seq(visited') /\ e \in visited'
    BY <2>2, <2>3
  <2>5. ring' \in Seq(visited') /\ Len(ring') = Len(ring) + 1 /\ ring'[Len(ring) + 1] = e
        /\ \A i \in 1..Len(ring) : ring'[i] = ring[i]
    BY <2>2, <2>4, AppendIs
  <2>6. \A i, j \in 1..Len(ring') : ring'[i] = ring'[j] => i = j
    <3> SUFFICES ASSUME NEW i \in 1..Len(ring'), NEW j \in 1..Len(ring'), ring'[i] = ring'[j]
                 PROVE  i = j
      OBVIOUS
    <3>1. Len(ring) \in Nat /\ i \in 1..(Len(ring) + 1) /\ j \in 1..(Len(ring) + 1)
      BY <2>3, <2>5
    <3>2. CASE i \in 1..Len(ring) /\ j \in 1..Len(ring)
      BY <2>5, <3>2 DEF Walked
    <3>3. CASE i = Len(ring) + 1 /\ j \in 1..Len(ring)
      BY <2>1, <2>3, <2>5, <3>3
    <3>4. CASE j = Len(ring) + 1 /\ i \in 1..Len(ring)
      BY <2>1, <2>3, <2>5, <3>4
    <3> QED
      BY <3>1, <3>2, <3>3, <3>4
  <2> QED
    BY <2>1, <2>2, <2>5, <2>6 DEF Walked
<1>3. CASE CloseRing
  <2>1. /\ rings' = IF Len(ring) >= 3 THEN Append(rings, ring) ELSE rings
        /\ ring' = <<>> /\ stage = "rings" /\ Edges' = Edges
        /\ UNCHANGED <<visited, chain, lines, stage>>
    BY <1>3 DEF CloseRing, dcel, rest, Edges
  <2>2. ring \in Seq(Edges) /\ rings \in Seq(Seq(Edges))
    BY <2>1 DEF Walked
  <2>3. rings' \in Seq(Seq(Edges))
    BY <2>1, <2>2, AppendIs
  <2> QED
    BY <2>1, <2>3 DEF Walked
<1>4. CASE StartLine
  <2> DEFINE e == First(Unharvested)
  <2>1. e \in Edges
    <3>1. Unharvested \in SUBSET Lattice /\ Unharvested # {} /\ Unharvested \subseteq Edges
      BY <1>4, <1>e DEF StartLine, Unharvested
    <3> QED
      BY <3>1, FirstIsIn
  <2>2. /\ chain' = <<e>> /\ visited' = visited \cup {e, Twin(e)} /\ Edges' = Edges
        /\ stage = "lines" /\ stage' = "forward"
        /\ UNCHANGED <<ring, rings, lines>>
    BY <1>4 DEF StartLine, dcel, areal, Edges
  <2> HIDE DEF e
  <2>3. ring \in Seq(visited')
    BY <2>2 DEF Walked
  <2> QED
    BY <1>e, <2>1, <2>2, <2>3 DEF Walked
<1>5. CASE GrowForward
  <2> DEFINE e == OnlyWayOn(Last(chain))
  <2>1. /\ Edges' = Edges /\ stage = "forward" /\ stage' \in {"forward", "backward"}
        /\ UNCHANGED <<ring, rings, lines>>
    BY <1>5 DEF GrowForward, dcel, areal, Edges
  <2>2. CASE e # Nil
    <3>1. e \in Edges
      BY <2>2, OnlyWayOnIs
    <3>2. chain' = Append(chain, e) /\ visited' = visited \cup {e, Twin(e)}
      BY <1>5, <2>2 DEF GrowForward
    <3> HIDE DEF e
    <3>3. ring \in Seq(visited') /\ chain' \in Seq(Edges) /\ chain' # <<>>
      BY <3>1, <3>2, AppendIs DEF Walked
    <3> QED
      BY <1>e, <2>1, <3>1, <3>2, <3>3 DEF Walked
  <2>3. CASE e = Nil
    <3>1. UNCHANGED <<chain, visited>>
      BY <1>5, <2>3 DEF GrowForward
    <3> QED
      BY <2>1, <3>1 DEF Walked
  <2> QED
    BY <2>2, <2>3
<1>6. CASE GrowBackward
  <2> DEFINE e == OnlyWayOn(Twin(chain[1]))
  <2>1. /\ Edges' = Edges /\ stage = "backward" /\ stage' \in {"backward", "lines"}
        /\ UNCHANGED <<ring, rings>>
    BY <1>6 DEF GrowBackward, dcel, areal, Edges
  <2>2. CASE e # Nil
    <3>1. e \in Edges
      BY <2>2, OnlyWayOnIs
    <3>2. chain' = <<Twin(e)>> \o chain /\ visited' = visited \cup {e, Twin(e)} /\ lines' = lines
      BY <1>6, <2>2 DEF GrowBackward
    <3> HIDE DEF e
    <3>3. Twin(e) \in Edges
      BY <1>e, <3>1
    <3>4. <<Twin(e)>> \in Seq(Edges) /\ Len(<<Twin(e)>>) = 1
      BY <3>3
    <3>5. chain' \in Seq(Edges) /\ Len(chain') = 1 + Len(chain)
      BY <3>2, <3>4 DEF Walked
    <3>6. ring \in Seq(visited') /\ chain' # <<>>
      BY <3>2, <3>5 DEF Walked
    <3> QED
      BY <2>1, <3>1, <3>2, <3>3, <3>5, <3>6 DEF Walked
  <2>3. CASE e = Nil
    <3>1. visited' = visited /\ lines' = lines \cup {chain} /\ chain' = <<>> /\ stage' = "lines"
      BY <1>6, <2>3 DEF GrowBackward
    <3> QED
      BY <2>1, <3>1 DEF Walked
  <2> QED
    BY <2>2, <2>3
<1>7. CASE Assemble
  <2>1. /\ visited' = {} /\ ring = <<>> /\ ring' = <<>> /\ Edges' = Edges /\ stage = "rings"
        /\ stage' \in {"done", "lines"} /\ UNCHANGED <<rings, chain, lines>>
    BY <1>7 DEF Assemble, dcel, rest, Edges
  <2> QED
    BY <2>1 DEF Walked
<1>8. CASE Prepare \/ Repair \/ Build
  <2>1. Edges = {} /\ UNCHANGED <<visited, ring, chain, lines>>
    BY <1>8 DEF Built, Prepare, Repair, Build, areal, rest
  <2>2. visited = {} /\ ring = <<>> /\ chain = <<>> /\ lines \subseteq {<<>>}
    BY <2>1 DEF Walked
  <2>3. rings' = rings \/ stage' = "done"
    BY <1>8 DEF Prepare, Repair, RepairBy, Build, areal
  <2>4. rings = <<>> /\ stage' \notin {"forward", "backward"}
    BY <1>8 DEF Walked, Prepare, PrepareAs, Repair, RepairBy, Build
  <2>5. visited' \subseteq Edges' /\ ring' \in Seq(visited') /\ ring' = <<>>
    BY <2>1, <2>2
  <2>a. \A T : <<>> \in Seq(T)
    OBVIOUS
  <2>6. chain' \in Seq(Edges') /\ lines' \subseteq Seq(Edges')
    <3>1. chain' = <<>> /\ \A l \in lines' : l = <<>>
      BY <2>1, <2>2
    <3> QED
      BY <2>a, <3>1
  <2>7. stage' # "done" => rings' = <<>> /\ rings' \in Seq(Seq(Edges'))
    <3>1. stage' # "done" => rings' = <<>>
      BY <2>3, <2>4
    <3> QED
      BY <2>a, <3>1
  <2> QED
    BY <2>4, <2>5, <2>6, <2>7 DEF Walked
<1>9. CASE TraceFace \/ Classify \/ ApplyOp \/ ExtractPoints \/ Done \/ UNCHANGED vars
  <2>1. /\ UNCHANGED <<tags, visited, ring, rings, chain, lines>>
        /\ stage' \notin {"forward", "backward"} \/ stage' = stage
        /\ stage = "done" => stage' = "done"
        /\ stage' \in {"driver", "nothing", "build", "faces", "op"} => stage \in {"driver", "nothing", "build", "faces", "op"}
    BY <1>9 DEF TraceFace, Classify, ApplyOp, ExtractPoints, Done, vars, dcel, areal, rest
  <2> QED
    BY <2>1 DEF Walked, Edges
<1> QED
  BY <1>1, <1>2, <1>3, <1>4, <1>5, <1>6, <1>7, <1>8, <1>9 DEF Next

\* Polygons are put together of rings that there are.
LEMMA AssembledKept == GridInv /\ [Next]_vars => Assembled'
<1> SUFFICES ASSUME GridInv, [Next]_vars PROVE Assembled'
  OBVIOUS
<1> USE DEF GridInv
<1>1. CASE Assemble
  <2> DEFINE shells == {i \in DOMAIN rings : Depth(i) % 2 = 0}
  <2>1. /\ rings' = rings /\ stage' \in {"done", "lines"}
        /\ polygons' = IF Len(rings) = 1 \/ shells = {}
                       THEN {[shell |-> i, holes |-> {}] : i \in DOMAIN rings}
                       ELSE {[shell |-> i, holes |-> HolesOf(i)] : i \in shells}
    BY <1>1 DEF Assemble
  <2>2. \A i : HolesOf(i) \subseteq DOMAIN rings
    BY DEF HolesOf
  <2>3. shells \subseteq DOMAIN rings
    OBVIOUS
  <2> HIDE DEF shells
  <2> QED
    BY <2>1, <2>2, <2>3 DEF Assembled
<1>2. CASE Repair
  <2>1. PICK task : RepairBy(task)
    BY <1>2 DEF Repair
  <2>2. CASE task.op = "keep"
    <3> DEFINE kept == FlattenSeq(task.subj)
               owner == FlattenSeq([i \in DOMAIN task.subj |-> [k \in DOMAIN task.subj[i] |-> i]])
               ringsOf(k) == {j \in DOMAIN kept : owner[j] = owner[k]}
               shells == {k \in DOMAIN kept : \A j \in ringsOf(k) : k <= j}
    <3>1. /\ stage' = "done"
          /\ rings' = [k \in DOMAIN kept |-> WalkOf(kept[k])]
          /\ polygons' = {[shell |-> k, holes |-> ringsOf(k) \ {k}] : k \in shells}
      BY <2>1, <2>2 DEF RepairBy
    <3>2. shells \subseteq DOMAIN kept /\ \A k : ringsOf(k) \subseteq DOMAIN kept
      OBVIOUS
    <3> HIDE DEF kept, owner, ringsOf, shells
    <3> QED
      BY <3>1, <3>2 DEF Assembled
  <2>3. CASE task.op # "keep"
    BY <1>2, <2>1, <2>3 DEF RepairBy, Repair, Assembled
  <2> QED
    BY <2>2, <2>3
<1>3. CASE CloseRing
  BY <1>3 DEF Assembled, CloseRing
<1>4. CASE ~Assemble /\ ~Repair /\ ~CloseRing
  <2>1. UNCHANGED <<rings, polygons>>
    BY <1>4 DEF Next, vars, areal, Prepare, Build, TraceFace, Classify, ApplyOp, StartRing, GrowRing,
               StartLine, GrowForward, GrowBackward, ExtractPoints, Done
  <2>2. stage' \in {"driver", "nothing", "build", "faces", "op", "rings"}
          => stage \in {"driver", "nothing", "build", "faces", "op", "rings"}
    BY <1>4 DEF Next, vars, Prepare, Build, TraceFace, Classify, ApplyOp, StartRing, GrowRing,
               StartLine, GrowForward, GrowBackward, ExtractPoints, Done
  <2> QED
    BY <2>1, <2>2 DEF Assembled
<1> QED
  BY <1>1, <1>2, <1>3, <1>4

\* Every step keeps the invariant.
LEMMA GridKept == GridInv /\ [Next]_vars => GridInv'
  BY CallKept, BuiltKept, TracedKept, WalkedKept, AssembledKept DEF GridInv

\* A ring has no more edges than there are, as it has each once.
LEMMA RingIsShort == GridInv => Len(ring) <= Cardinality(Edges)
<1> SUFFICES ASSUME GridInv PROVE Len(ring) <= Cardinality(Edges)
  OBVIOUS
<1>1. IsFiniteSet(Edges)
  BY EdgesOnGrid DEF GridInv
<1>2. ring \in Seq(Edges) /\ Len(ring) \in Nat
  BY DEF GridInv, Walked
<1>3. ring \in [1..Len(ring) -> Edges]
  BY <1>2
<1>4. ring \in Injection(1..Len(ring), Edges)
  BY <1>3 DEF GridInv, Walked, Injection, IsInjective
<1>5. Cardinality(1..Len(ring)) <= Cardinality(Edges)
  BY <1>1, <1>4, FS_Injection
<1>6. Cardinality(1..Len(ring)) = Len(ring)
  BY <1>2, FS_Interval
<1> QED
  BY <1>5, <1>6

\* The subdivision, its labels, and what is walked and put together are of
\* their types; a ring walks no half-edge twice, so that its walk ends, and a
\* polygon consists of rings that there are.
THEOREM GridTyped == Spec => []TypeOK
<1>1. GridInv => TypeOK
  <2> SUFFICES ASSUME GridInv PROVE TypeOK
    OBVIOUS
  <2> USE DEF GridInv
  <2>1. input.op \in Ops \cup Repairs /\ input.subj.cells \cup input.clip.cells \subseteq Cell
    BY DEF CallOK, Operand
  <2>2. Edges \subseteq Lattice /\ DOMAIN next = Edges /\ DOMAIN face \subseteq Edges
    BY EdgesOnGrid DEF Built, Traced
  <2>3. visited \subseteq Edges /\ Len(ring) <= Cardinality(Edges)
    BY RingIsShort DEF Walked
  <2>4. \A T, l : l \in Seq(T) => ToSet(l) \subseteq T
    BY DEF ToSet
  <2>5. \A e \in ToSet(ring) \cup UNION {ToSet(l) : l \in lines} : e \in Edges
    <3>1. ring \in Seq(Edges) /\ \A l \in lines : l \in Seq(Edges)
      BY DEF Walked
    <3> QED
      BY <2>4, <3>1
  <2> QED
    BY <2>1, <2>2, <2>3, <2>5 DEF TypeOK, CallOK, Stages, Traced, Assembled
<1> QED
  BY <1>1, GridStart, GridKept, PTL DEF Spec

-----------------------------------------------------------------------------
(***************************************************************************)
(* Faces and what is extracted from them.                                  *)
(***************************************************************************)

\* What Classify, ApplyOp and the walks leave behind.
Judged ==
  stage \notin Early =>
    /\ inSubj = {f \in Faces : Classified(f, Subj, "subj", "clip")}
    /\ inClip = {f \in Faces : Classified(f, Clip, "clip", "subj")}

Chosen ==
  stage \notin Early \cup {"op"} => keep = {f \in Faces : Wanted(f \in inSubj, f \in inClip)}

Tagged ==
  \A e \in Edges : /\ "subj" \in tags[e] <=> e \in RingEdges(input.subj)
                   /\ "clip" \in tags[e] <=> e \in RingEdges(input.clip)
                   /\ tags[e] \subseteq {"subj", "clip"}

Bordered ==
  Edges # {} =>
    /\ \A e \in ToSet(ring) : IsBoundary(e)
    /\ \A i \in DOMAIN rings : \A e \in ToSet(rings[i]) : IsBoundary(e)
    /\ stage \in Early \cup {"op"} => ring = <<>>

Harvested(e) == InResult(e) \/ InResult(Twin(e))

Lined ==
  /\ \A l \in lines \cup {chain} : \A e \in ToSet(l) : Harvested(e)
  /\ stage \in Early \cup {"op", "rings"} => chain = <<>> /\ lines = {}

Pointed ==
  \/ points = {}
  \/ /\ stage = "done" /\ input.op = "intersection"
     /\ points \subseteq {v \in Vertices : TagsAt(v) = {"subj", "clip"}}

ResultInv == GridInv /\ Judged /\ Chosen /\ Tagged /\ Bordered /\ Lined /\ Pointed

\* Nothing is judged, chosen or walked at first.
LEMMA ResultStart == Init => ResultInv
<1> SUFFICES ASSUME Init PROVE ResultInv
  OBVIOUS
<1>1. GridInv /\ Edges = {} /\ stage \in Early /\ stage # "done"
  BY GridStart DEF Init, Edges, Early
<1>2. ToSet(<<>>) = {}
  BY DEF ToSet
<1>3. Judged /\ Chosen /\ Tagged /\ Bordered
  BY <1>1 DEF Judged, Chosen, Tagged, Bordered
<1>4. Lined /\ Pointed
  BY <1>2 DEF Init, Lined, Pointed
<1> QED
  BY <1>1, <1>3, <1>4 DEF ResultInv

\* Only Build changes the subdivision, and only a call that has none changes
\* what is called for.
LEMMA WhatChanges ==
  ASSUME GridInv, [Next]_vars
  PROVE  /\ UNCHANGED <<tags, next>> \/ Build
         /\ UNCHANGED input \/ (Edges = {} /\ Edges' = {} /\ stage' \in {"nothing", "build", "done"})
         /\ UNCHANGED face \/ TraceFace
         /\ UNCHANGED <<inSubj, inClip>> \/ Classify
         /\ UNCHANGED keep \/ ApplyOp
         /\ stage' \in Early => stage \in Early
         /\ stage' \in Early \cup {"op"} => stage \in Early \cup {"op"}
         /\ stage \notin {"driver", "build", "faces"} => UNCHANGED <<input, tags, next, face>>
<1>1. CASE Prepare \/ Repair
  <2>1. Edges = {} /\ UNCHANGED <<tags, next, face, inSubj, inClip, keep>> /\ stage = "driver"
    BY <1>1 DEF GridInv, Built, Prepare, Repair, dcel, labels
  <2>2. stage' \in {"nothing", "build", "done"}
    BY <1>1 DEF Prepare, PrepareAs, Repair, RepairBy
  <2> QED
    BY <2>1, <2>2 DEF Edges, Early
<1>2. CASE ~Prepare /\ ~Repair
  <2>1. UNCHANGED input
    BY <1>2 DEF Next, vars, Build, TraceFace, Classify, ApplyOp, StartRing, GrowRing, CloseRing, Assemble,
               StartLine, GrowForward, GrowBackward, ExtractPoints, Done
  <2>2. UNCHANGED <<tags, next>> \/ Build
    BY <1>2 DEF Next, vars, dcel, TraceFace, Classify, ApplyOp, StartRing, GrowRing, CloseRing, Assemble,
               StartLine, GrowForward, GrowBackward, ExtractPoints, Done
  <2>3. UNCHANGED face \/ TraceFace
    BY <1>2 DEF Next, vars, Build, Classify, ApplyOp, StartRing, GrowRing, CloseRing, Assemble,
               StartLine, GrowForward, GrowBackward, ExtractPoints, Done
  <2>4. UNCHANGED <<inSubj, inClip>> \/ Classify
    BY <1>2 DEF Next, vars, labels, Build, TraceFace, ApplyOp, StartRing, GrowRing, CloseRing, Assemble,
               StartLine, GrowForward, GrowBackward, ExtractPoints, Done
  <2>5. UNCHANGED keep \/ ApplyOp
    BY <1>2 DEF Next, vars, labels, Build, TraceFace, Classify, StartRing, GrowRing, CloseRing, Assemble,
               StartLine, GrowForward, GrowBackward, ExtractPoints, Done
  <2>6. /\ stage' \in Early => stage \in Early
        /\ stage' \in Early \cup {"op"} => stage \in Early \cup {"op"}
    BY <1>2 DEF Early, Next, vars, Build, TraceFace, Classify, ApplyOp, StartRing, GrowRing, CloseRing, Assemble,
               StartLine, GrowForward, GrowBackward, ExtractPoints, Done
  <2>7. stage \notin {"driver", "build", "faces"} => ~Build /\ ~TraceFace
    BY DEF Build, TraceFace
  <2> QED
    BY <2>1, <2>2, <2>3, <2>4, <2>5, <2>6, <2>7
<1> QED
  BY <1>1, <1>2

\* A step that leaves the subdivision alone leaves what is read off it alone.
LEMMA SameFaces ==
  ASSUME UNCHANGED <<input, tags, face>>
  PROVE  /\ Edges' = Edges /\ Faces' = Faces /\ Subj' = Subj /\ Clip' = Clip /\ Vertices' = Vertices
         /\ \A f, cells, tag, other : Classified(f, cells, tag, other)' <=> Classified(f, cells, tag, other)
         /\ \A s, c : Wanted(s, c)' <=> Wanted(s, c)
         /\ \A v : TagsAt(v)' = TagsAt(v)
         /\ UNCHANGED keep => \A e : IsBoundary(e)' <=> IsBoundary(e)
         /\ UNCHANGED <<keep, inSubj, inClip>> => \A e : Harvested(e)' <=> Harvested(e)
<1>1. Edges' = Edges /\ Faces' = Faces /\ Subj' = Subj /\ Clip' = Clip /\ Vertices' = Vertices
  BY DEF Edges, Faces, Subj, Clip, Vertices
<1>2. \A f, cells, tag, other : Classified(f, cells, tag, other)' <=> Classified(f, cells, tag, other)
  <2>1. \A f : FaceEdges(f)' = FaceEdges(f)
    BY <1>1 DEF FaceEdges
  <2>2. \A f : NonSpur(f)' = NonSpur(f)
    BY <2>1 DEF NonSpur
  <2>3. \A f, only : SampleCell(f, only)' = SampleCell(f, only)
    BY <2>1, <2>2 DEF SampleCell
  <2>4. \A f, cells, tag : Overruled(f, cells, tag)' <=> Overruled(f, cells, tag)
    <3>1. \A f : IsOuter(f)' <=> IsOuter(f)
      BY <2>1 DEF IsOuter
    <3>2. \A f, tag : AllOfTag(f, tag)' <=> AllOfTag(f, tag)
      BY <2>2 DEF AllOfTag
    <3>3. \A f, cells : CentroidInside(FaceEdges(f), cells)' <=> CentroidInside(FaceEdges(f), cells)
      BY <2>1
    <3> QED
      BY <3>1, <3>2, <3>3 DEF Overruled
  <2> QED
    BY <2>3, <2>4 DEF Classified
<1>3. \A s, c : Wanted(s, c)' <=> Wanted(s, c)
  BY DEF Wanted
<1>4. \A v : TagsAt(v)' = TagsAt(v)
  BY <1>1 DEF TagsAt
<1>5. UNCHANGED keep => \A e : IsBoundary(e)' <=> IsBoundary(e)
  BY <1>1 DEF IsBoundary
<1>6. UNCHANGED <<keep, inSubj, inClip>> => \A e : Harvested(e)' <=> Harvested(e)
  BY <1>3 DEF InResult, Harvested
<1> QED
  BY <1>1, <1>2, <1>3, <1>4, <1>5, <1>6

\* Labels are those of the last Build, Classify and ApplyOp.
LEMMA LabelsKept == ResultInv /\ [Next]_vars => Judged' /\ Chosen' /\ Tagged'
<1> SUFFICES ASSUME ResultInv, [Next]_vars PROVE Judged' /\ Chosen' /\ Tagged'
  OBVIOUS
<1> USE DEF ResultInv
<1>0. CASE stage = "driver" /\ stage' \notin Early
  <2>1. Repair
    BY <1>0 DEF Early, Next, vars, Prepare, PrepareAs, Build, TraceFace, Classify, ApplyOp, StartRing, GrowRing,
               CloseRing, Assemble, StartLine, GrowForward, GrowBackward, ExtractPoints, Done
  <2>2. Edges = {} /\ DOMAIN face = {} /\ inSubj \cup inClip \cup keep = {}
    BY <1>0 DEF GridInv, Built, Traced, Early
  <2>3. UNCHANGED <<tags, face, inSubj, inClip, keep>>
    BY <2>1 DEF Repair, dcel, labels
  <2>4. Faces' = {} /\ Edges' = {} /\ inSubj' = {} /\ inClip' = {} /\ keep' = {}
    BY <2>2, <2>3 DEF Faces, Edges
  <2> QED
    BY <2>4 DEF Judged, Chosen, Tagged
<1>1. CASE ~(stage = "driver" /\ stage' \notin Early)
  <2>1. Judged'
    <3>1. CASE Classify
      <4>1. /\ inSubj' = {f \in Faces : Classified(f, Subj, "subj", "clip")}
            /\ inClip' = {f \in Faces : Classified(f, Clip, "clip", "subj")}
            /\ UNCHANGED <<input, tags, face>>
        BY <3>1 DEF Classify, dcel
      <4> QED
        BY <4>1, SameFaces DEF Judged
    <3>2. CASE ~Classify /\ stage' \notin Early
      <4>1. stage \notin Early
        BY <1>1, <3>2 DEF Early, Next, vars, Prepare, PrepareAs, Repair, Build, TraceFace, ApplyOp, StartRing, GrowRing,
               CloseRing, Assemble, StartLine, GrowForward, GrowBackward, ExtractPoints, Done
      <4>2. UNCHANGED <<input, tags, face>>
        BY <4>1, WhatChanges DEF Early
      <4>3. UNCHANGED <<inSubj, inClip>>
        BY <3>2, WhatChanges
      <4> QED
        BY <4>1, <4>2, <4>3, SameFaces DEF Judged
    <3>3. CASE stage' \in Early
      BY <3>3 DEF Judged
    <3> QED
      BY <3>1, <3>2, <3>3
  <2>2. Chosen'
    <3>1. CASE ApplyOp
      <4>1. /\ keep' = {f \in Faces : Wanted(f \in inSubj, f \in inClip)}
            /\ UNCHANGED <<input, tags, face, inSubj, inClip>>
        BY <3>1 DEF ApplyOp, dcel
      <4> QED
        BY <4>1, SameFaces DEF Chosen
    <3>2. CASE ~ApplyOp /\ stage' \notin Early \cup {"op"}
      <4>1. stage \notin Early \cup {"op"}
        BY <1>1, <3>2 DEF Early, Next, vars, Prepare, PrepareAs, Repair, Build, TraceFace, Classify, StartRing, GrowRing,
               CloseRing, Assemble, StartLine, GrowForward, GrowBackward, ExtractPoints, Done
      <4>2. UNCHANGED <<input, tags, face>>
        BY <4>1, WhatChanges DEF Early
      <4>3. UNCHANGED <<inSubj, inClip, keep>>
        BY <3>2, <4>1, WhatChanges DEF Classify, Early
      <4> QED
        BY <4>1, <4>2, <4>3, SameFaces DEF Chosen
    <3>3. CASE stage' \in Early \cup {"op"}
      BY <3>3 DEF Chosen
    <3> QED
      BY <3>1, <3>2, <3>3
  <2>3. Tagged'
    <3>1. CASE Build
      <4>1. /\ UNCHANGED input
            /\ tags' = [e \in EdgesOf(input.subj, input.clip) |->
                          (IF e \in RingEdges(input.subj) THEN {"subj"} ELSE {})
                            \cup (IF e \in RingEdges(input.clip) THEN {"clip"} ELSE {})]
        BY <3>1 DEF Build, EdgesOf
      <4>2. Edges' = EdgesOf(input.subj, input.clip)
        BY <4>1 DEF Edges
      <4>3. \A e \in Edges' : /\ "subj" \in tags'[e] <=> e \in RingEdges(input.subj)
                              /\ "clip" \in tags'[e] <=> e \in RingEdges(input.clip)
                              /\ tags'[e] \subseteq {"subj", "clip"}
        BY <4>1, <4>2
      <4> QED
        BY <4>1, <4>3 DEF Tagged
    <3>2. CASE UNCHANGED <<input, tags>>
      BY <3>2 DEF Tagged, Edges
    <3>3. CASE Edges' = {}
      BY <3>3 DEF Tagged
    <3> QED
      BY <3>1, <3>2, <3>3, WhatChanges DEF Build
  <2> QED
    BY <2>1, <2>2, <2>3
<1> QED
  BY <1>0, <1>1

\* What is in a sequence, and in one with an element more.
LEMMA InAppend ==
  ASSUME NEW S, NEW s \in Seq(S), NEW x \in S
  PROVE  \A y \in ToSet(Append(s, x)) : y = x \/ y \in ToSet(s)
<1>1. /\ Append(s, x) \in Seq(S) /\ Len(Append(s, x)) = Len(s) + 1
      /\ Append(s, x)[Len(s) + 1] = x
      /\ \A i \in 1..Len(s) : Append(s, x)[i] = s[i]
  BY AppendIs
<1>2. \A i \in 1..(Len(s) + 1) : i \in 1..Len(s) \/ i = Len(s) + 1
  BY Len(s) \in Nat
<1>3. DOMAIN Append(s, x) = 1..(Len(s) + 1) /\ DOMAIN s = 1..Len(s)
  BY <1>1
<1> QED
  BY <1>1, <1>2, <1>3 DEF ToSet

\* What is in a sequence with an element in front of it.
LEMMA InConcat ==
  ASSUME NEW S, NEW s \in Seq(S), NEW x \in S
  PROVE  \A y \in ToSet(<<x>> \o s) : y = x \/ y \in ToSet(s)
<1>1. Len(s) \in Nat /\ DOMAIN s = 1..Len(s) /\ DOMAIN (<<x>> \o s) = 1..(Len(s) + 1)
  OBVIOUS
<1>2. \A i \in 1..(Len(s) + 1) : (<<x>> \o s)[i] = IF i = 1 THEN x ELSE s[i - 1]
  OBVIOUS
<1>3. \A i \in 1..(Len(s) + 1) : i # 1 => i - 1 \in 1..Len(s)
  BY <1>1
<1> QED
  BY <1>1, <1>2, <1>3 DEF ToSet

\* A half-edge is harvested with its twin.
LEMMA HarvestedBothWays ==
  ASSUME GridInv, NEW e \in Edges, Harvested(e)
  PROVE  Harvested(Twin(e))
<1>1. Twin(Twin(e)) = e
  BY EdgesOnGrid, TwinOfTwin DEF GridInv
<1> QED
  BY <1>1 DEF Harvested

\* Rings are of boundary edges.
LEMMA BorderedKept == ResultInv /\ [Next]_vars => Bordered'
<1> SUFFICES ASSUME ResultInv, [Next]_vars, Edges' # {} PROVE Bordered'
  BY DEF Bordered
<1> USE DEF ResultInv
<1>e. ToSet(<<>>) = {}
  BY DEF ToSet
<1>1. CASE stage \in {"driver", "build", "faces"}
  <2>1. stage' # "done"
    <3>1. CASE Repair
      <4>1. Edges' = {}
        BY <3>1 DEF Repair, dcel, Edges, GridInv, Built
      <4> QED
        BY <4>1
    <3>2. CASE ~Repair
      BY <1>1, <3>2 DEF Next, vars, Prepare, PrepareAs, Build, TraceFace, Classify, ApplyOp, StartRing, GrowRing,
               CloseRing, Assemble, StartLine, GrowForward, GrowBackward, ExtractPoints, Done
    <3> QED
      BY <3>1, <3>2
  <2>2. ring' = ring /\ rings' = rings
    <3>1. CASE Repair
      <4>1. Edges' = {}
        BY <3>1 DEF Repair, dcel, Edges, GridInv, Built
      <4> QED
        BY <4>1
    <3>2. CASE ~Repair
      BY <1>1, <3>2 DEF Next, vars, areal, Prepare, Build, TraceFace, Classify, ApplyOp, StartRing, GrowRing,
               CloseRing, Assemble, StartLine, GrowForward, GrowBackward, ExtractPoints, Done
    <3> QED
      BY <3>1, <3>2
  <2>3. ring = <<>> /\ rings = <<>>
    <3>1. CASE Edges = {}
      <4>1. visited = {}
        BY <3>1 DEF GridInv, Walked
      <4>2. ring = <<>>
        BY <4>1 DEF GridInv, Walked
      <4> QED
        BY <1>1, <4>2 DEF GridInv, Walked
    <3>2. CASE Edges # {}
      BY <1>1, <3>2 DEF Bordered, Early, GridInv, Walked
    <3> QED
      BY <3>1, <3>2
  <2> QED
    BY <1>e, <2>2, <2>3 DEF Bordered
<1>2. CASE stage \notin {"driver", "build", "faces"} /\ ~ApplyOp
  <2>1. UNCHANGED <<input, tags, next, face, keep>>
    BY <1>2, WhatChanges
  <2>2. Edges # {} /\ Edges' = Edges /\ \A e : IsBoundary(e)' <=> IsBoundary(e)
    BY <2>1, SameFaces
  <2>3. /\ \A e \in ToSet(ring) : IsBoundary(e)
        /\ \A i \in DOMAIN rings : \A e \in ToSet(rings[i]) : IsBoundary(e)
        /\ stage \in Early \cup {"op"} => ring = <<>>
    BY <2>2 DEF Bordered
  <2>4. SUFFICES /\ \A e \in ToSet(ring') : IsBoundary(e)
                 /\ \A i \in DOMAIN rings' : \A e \in ToSet(rings'[i]) : IsBoundary(e)
                 /\ stage' \in Early \cup {"op"} => ring' = <<>>
    BY <2>2 DEF Bordered
  <2>5. CASE StartRing
    <3>1. Unwalked \in SUBSET Lattice /\ Unwalked # {}
      BY <2>5, EdgesOnGrid DEF StartRing, Unwalked, GridInv
    <3>2. First(Unwalked) \in Unwalked
      BY <3>1, FirstIsIn
    <3>3. ring' = <<First(Unwalked)>> /\ rings' = rings /\ stage' = "rings"
      BY <2>5 DEF StartRing
    <3>4. \A e \in ToSet(ring') : e \in Unwalked
      BY <3>2, <3>3 DEF ToSet
    <3> QED
      BY <2>3, <3>3, <3>4 DEF Unwalked, Early
  <2>6. CASE GrowRing
    <3> DEFINE e == NextBoundary(Last(ring))
    <3>1. IsBoundary(e) /\ e \in Edges
      BY <2>6, NextBoundaryIs DEF GrowRing
    <3>2. ring' = Append(ring, e) /\ rings' = rings /\ stage' = "rings"
      BY <2>6 DEF GrowRing
    <3> HIDE DEF e
    <3>3. ring \in Seq(Edges)
      BY DEF GridInv, Walked
    <3>4. \A x \in ToSet(ring') : x = e \/ x \in ToSet(ring)
      BY <3>1, <3>2, <3>3, InAppend
    <3> QED
      BY <2>3, <3>1, <3>2, <3>4 DEF Early
  <2>7. CASE CloseRing
    <3>1. ring' = <<>> /\ rings' = IF Len(ring) >= 3 THEN Append(rings, ring) ELSE rings
      BY <2>7 DEF CloseRing
    <3>2. ring \in Seq(Edges) /\ rings \in Seq(Seq(Edges))
      BY <2>7 DEF GridInv, Walked, CloseRing
    <3>3. \A r \in ToSet(rings') : r = ring \/ r \in ToSet(rings)
      BY <3>1, <3>2, InAppend
    <3>4. \A i \in DOMAIN rings' : rings'[i] \in ToSet(rings')
      BY DEF ToSet
    <3>5. \A r \in ToSet(rings) : \A e \in ToSet(r) : IsBoundary(e)
      BY <2>3 DEF ToSet
    <3> QED
      BY <1>e, <2>3, <3>1, <3>3, <3>4, <3>5
  <2>8. CASE ~StartRing /\ ~GrowRing /\ ~CloseRing
    <3>1. ring' = ring /\ rings' = rings
      BY <1>2, <2>8 DEF Next, vars, areal, Prepare, Repair, Build, TraceFace, Classify, ApplyOp, Assemble,
               StartLine, GrowForward, GrowBackward, ExtractPoints, Done
    <3>2. stage' \in Early \cup {"op"} => stage \in Early \cup {"op"}
      BY WhatChanges
    <3> QED
      BY <2>3, <3>1, <3>2
  <2> QED
    BY <2>5, <2>6, <2>7, <2>8
<1>3. CASE ApplyOp
  <2>1. ring' = ring /\ rings' = rings /\ stage = "op" /\ Edges' = Edges
    BY <1>3 DEF ApplyOp, areal, dcel, Edges
  <2>2. ring = <<>> /\ rings = <<>>
    BY <2>1 DEF Bordered, GridInv, Walked
  <2> QED
    BY <1>e, <1>3, <2>1, <2>2 DEF Bordered, ApplyOp, Early
<1> QED
  BY <1>1, <1>2, <1>3

\* Lines are of edges in the result.
LEMMA LinedKept == ResultInv /\ [Next]_vars => Lined'
<1> SUFFICES ASSUME ResultInv, [Next]_vars PROVE Lined'
  OBVIOUS
<1> USE DEF ResultInv
<1>e. ToSet(<<>>) = {}
  BY DEF ToSet
<1>1. CASE stage \in Early \cup {"op", "rings"}
  <2>1. chain = <<>> /\ lines = {}
    BY <1>1 DEF Lined
  <2>2. chain' = chain /\ lines' = lines
    BY <1>1 DEF Early, Next, vars, rest, Prepare, Repair, Build, TraceFace, Classify, ApplyOp, StartRing, GrowRing,
               CloseRing, Assemble, StartLine, GrowForward, GrowBackward, ExtractPoints, Done
  <2> QED
    BY <1>e, <2>1, <2>2 DEF Lined
<1>2. CASE stage \notin Early \cup {"op", "rings"}
  <2>1. UNCHANGED <<input, tags, next, face, keep, inSubj, inClip>>
    BY <1>2, WhatChanges DEF Early, ApplyOp, Classify
  <2>2. Edges' = Edges /\ \A e : Harvested(e)' <=> Harvested(e)
    BY <2>1, SameFaces
  <2>3. \A l \in lines \cup {chain} : \A e \in ToSet(l) : Harvested(e)
    BY DEF Lined
  <2>4. stage' \notin Early \cup {"op", "rings"}
    BY <1>2 DEF Early, Next, vars, Prepare, Repair, Build, TraceFace, Classify, ApplyOp, StartRing, GrowRing,
               CloseRing, Assemble, StartLine, GrowForward, GrowBackward, ExtractPoints, Done
  <2>5. SUFFICES \A l \in lines' \cup {chain'} : \A e \in ToSet(l) : Harvested(e)
    BY <2>2, <2>4 DEF Lined
  <2>6. chain \in Seq(Edges)
    BY DEF GridInv, Walked
  <2>7. CASE StartLine
    <3>1. Unharvested \in SUBSET Lattice /\ Unharvested # {}
      BY <2>7, EdgesOnGrid DEF StartLine, Unharvested, GridInv
    <3>2. First(Unharvested) \in Unharvested
      BY <3>1, FirstIsIn
    <3>3. chain' = <<First(Unharvested)>> /\ lines' = lines
      BY <2>7 DEF StartLine
    <3>4. \A e \in ToSet(chain') : e \in Unharvested
      BY <3>2, <3>3 DEF ToSet
    <3> QED
      BY <2>3, <3>3, <3>4 DEF Unharvested, Harvested
  <2>8. CASE GrowForward
    <3> DEFINE e == OnlyWayOn(Last(chain))
    <3>1. CASE e # Nil
      <4>1. Harvested(e) /\ e \in Edges
        BY <3>1, OnlyWayOnIs DEF GridInv, Harvested
      <4>2. chain' = Append(chain, e) /\ lines' = lines
        BY <2>8, <3>1 DEF GrowForward
      <4> HIDE DEF e
      <4>3. \A x \in ToSet(chain') : x = e \/ x \in ToSet(chain)
        BY <2>6, <4>1, <4>2, InAppend
      <4> QED
        BY <2>3, <4>1, <4>2, <4>3
    <3>2. CASE e = Nil
      BY <2>3, <2>8, <3>2 DEF GrowForward
    <3> QED
      BY <3>1, <3>2
  <2>9. CASE GrowBackward
    <3> DEFINE e == OnlyWayOn(Twin(chain[1]))
    <3>1. CASE e # Nil
      <4>1. Harvested(e) /\ e \in Edges
        BY <3>1, OnlyWayOnIs DEF GridInv, Harvested
      <4>2. chain' = <<Twin(e)>> \o chain /\ lines' = lines
        BY <2>9, <3>1 DEF GrowBackward
      <4> HIDE DEF e
      <4>3. Harvested(Twin(e)) /\ Twin(e) \in Edges
        BY <4>1, HarvestedBothWays, EdgesOnGrid DEF GridInv
      <4>4. \A x \in ToSet(chain') : x = Twin(e) \/ x \in ToSet(chain)
        BY <2>6, <4>2, <4>3, InConcat
      <4> QED
        BY <2>3, <4>2, <4>3, <4>4
    <3>2. CASE e = Nil
      <4>1. lines' = lines \cup {chain} /\ chain' = <<>>
        BY <2>9, <3>2 DEF GrowBackward
      <4> QED
        BY <1>e, <2>3, <4>1
    <3> QED
      BY <3>1, <3>2
  <2>10. CASE ~StartLine /\ ~GrowForward /\ ~GrowBackward
    <3>1. chain' = chain /\ lines' = lines
      BY <1>2, <2>10 DEF Early, Next, vars, rest, Prepare, Repair, Build, TraceFace, Classify, ApplyOp, StartRing,
               GrowRing, CloseRing, Assemble, ExtractPoints, Done
    <3> QED
      BY <2>3, <3>1
  <2> QED
    BY <2>7, <2>8, <2>9, <2>10
<1> QED
  BY <1>1, <1>2

\* Points are where both operands meet.
LEMMA PointedKept == ResultInv /\ [Next]_vars => Pointed'
<1> SUFFICES ASSUME ResultInv, [Next]_vars PROVE Pointed'
  OBVIOUS
<1> USE DEF ResultInv
<1>1. CASE ExtractPoints
  <2>1. /\ points' = IF input.op = "intersection"
                     THEN {v \in Vertices \ Covered : TagsAt(v) = {"subj", "clip"}} ELSE {}
        /\ stage' = "done" /\ UNCHANGED <<input, tags, face>>
    BY <1>1 DEF ExtractPoints, dcel
  <2> QED
    BY <2>1, SameFaces DEF Pointed
<1>2. CASE ~ExtractPoints
  <2>1. points' = points
    BY <1>2 DEF Next, vars, rest, Prepare, Repair, Build, TraceFace, Classify, ApplyOp, StartRing, GrowRing,
               CloseRing, Assemble, StartLine, GrowForward, GrowBackward, Done
  <2>2. CASE points = {}
    BY <2>1, <2>2 DEF Pointed
  <2>3. CASE points # {}
    <3>1. stage = "done"
      BY <2>3 DEF Pointed
    <3>2. UNCHANGED vars
      BY <1>2, <3>1 DEF Next, Prepare, Repair, Build, TraceFace, Classify, ApplyOp, StartRing, GrowRing,
               CloseRing, Assemble, StartLine, GrowForward, GrowBackward, Done
    <3>3. UNCHANGED <<input, tags, face, points, stage>>
      BY <3>2 DEF vars
    <3> QED
      BY <2>3, <3>3, SameFaces DEF Pointed
  <2> QED
    BY <2>2, <2>3
<1> QED
  BY <1>1, <1>2

\* The invariant of the whole pipeline.
LEMMA ResultAlways == Spec => []ResultInv
<1>1. ResultInv /\ [Next]_vars => ResultInv'
  BY GridKept, LabelsKept, BorderedKept, LinedKept, PointedKept DEF ResultInv
<1> QED
  BY <1>1, ResultStart, PTL DEF Spec

-----------------------------------------------------------------------------
(***************************************************************************)
(* What the answer consists of.                                            *)
(***************************************************************************)

\* The faces that the centroid makes inside of an operand they are outside of.
Misjudged ==
  {f \in Faces : \/ Overruled(f, Subj, "subj") /\ LeftCell(f) \notin Subj
                 \/ Overruled(f, Clip, "clip") /\ LeftCell(f) \notin Clip}

\* Every face is inside or outside each operand as a whole, and judged so,
\* but for those that the centroid misjudges.
FacesJudged ==
  stage \notin Early =>
    \A e \in Edges : face[e] \notin Misjudged =>
      /\ face[e] \in inSubj <=> LeftCell(e) \in Subj
      /\ face[e] \in inClip <=> LeftCell(e) \in Clip

\* The sample of a face says the same as any of its edges.
LEMMA SampleIsBeside ==
  ASSUME GridInv, DOMAIN face = Edges, NEW e \in Edges, NEW only
  PROVE  /\ SampleCell(face[e], only) \in Subj <=> LeftCell(e) \in Subj
         /\ SampleCell(face[e], only) \in Clip <=> LeftCell(e) \in Clip
<1> DEFINE f == face[e]
           candidates == {x \in NonSpur(f) : tags[x] = {only}}
           S == IF candidates # {} THEN candidates ELSE IF NonSpur(f) # {} THEN NonSpur(f) ELSE FaceEdges(f)
<1>1. e \in FaceEdges(f) /\ NonSpur(f) \subseteq FaceEdges(f)
  BY DEF FaceEdges, NonSpur
<1>2. S # {} /\ S \subseteq FaceEdges(f)
  BY <1>1
<1>3. SampleCell(f, only) = LeftCell(First(S))
  BY DEF SampleCell
<1> HIDE DEF S
<1>4. First(S) \in FaceEdges(f)
  <2>1. S \in SUBSET Lattice
    BY <1>2, EdgesOnGrid DEF GridInv, FaceEdges
  <2> QED
    BY <1>2, <2>1, FirstIsIn
<1>5. Beside(input, e, f) /\ Beside(input, First(S), f)
  BY <1>4 DEF GridInv, Traced, FaceEdges
<1> QED
  BY <1>3, <1>5 DEF Beside, Subj, Clip

\* A face that its centroid does not misjudge is judged right.
LEMMA JudgedSo == ResultInv => FacesJudged
<1> SUFFICES ASSUME ResultInv, stage \notin Early, NEW e \in Edges, face[e] \notin Misjudged
             PROVE  /\ face[e] \in inSubj <=> LeftCell(e) \in Subj
                    /\ face[e] \in inClip <=> LeftCell(e) \in Clip
  BY DEF FacesJudged
<1> DEFINE f == face[e]
<1>1. DOMAIN face = Edges /\ f \in Faces
  BY DEF ResultInv, GridInv, Traced, Early, Faces
<1>2. /\ f \in inSubj <=> SampleCell(f, "clip") \in Subj \/ Overruled(f, Subj, "subj")
      /\ f \in inClip <=> SampleCell(f, "subj") \in Clip \/ Overruled(f, Clip, "clip")
  BY <1>1 DEF ResultInv, Judged, Classified
<1>3. /\ SampleCell(f, "clip") \in Subj <=> LeftCell(e) \in Subj
      /\ SampleCell(f, "subj") \in Clip <=> LeftCell(e) \in Clip
  BY <1>1, SampleIsBeside DEF ResultInv
<1>4. /\ LeftCell(f) \in Subj <=> LeftCell(e) \in Subj
      /\ LeftCell(f) \in Clip <=> LeftCell(e) \in Clip
  BY <1>1 DEF ResultInv, GridInv, Traced, Beside, Subj, Clip
<1>5. /\ Overruled(f, Subj, "subj") => LeftCell(f) \in Subj
      /\ Overruled(f, Clip, "clip") => LeftCell(f) \in Clip
  BY <1>1 DEF Misjudged
<1> QED
  BY <1>2, <1>3, <1>4, <1>5

\* A face is never cut by a ring: the walk that turns clockwise from the twin
\* of each edge leaves no ring of an operand between one edge and the next,
\* so that the one sample of a face speaks for all its edges.  Only a face
\* whose centroid overrules its sample may be judged wrong
\* (classify.go:26-85).
THEOREM FacesRight == Spec => [](FacesJudged /\ (Misjudged = {} => FacesClassified))
<1>1. ResultInv => FacesJudged /\ (Misjudged = {} => FacesClassified)
  BY JudgedSo DEF FacesJudged, FacesClassified, Early
<1> QED
  BY <1>1, ResultAlways, PTL

\* Every ring of the result has the result on its left and none of it on its
\* right, as far as the faces beside it are judged right.
RingsBorder ==
  Edges # {} =>
    \A i \in DOMAIN rings : \A e \in ToSet(rings[i]) :
      /\ face[e] \notin Misjudged => LeftCell(e) \in Result
      /\ face[Twin(e)] \notin Misjudged => LeftCell(Twin(e)) \notin Result

\* A cell beside an edge is one of the result when the face there is kept, if
\* that is not a cell off the grid.
LEMMA KeptIsWanted ==
  ASSUME ResultInv, stage \notin Early \cup {"op"}, NEW e \in Edges, face[e] \notin Misjudged
  PROVE  face[e] \in keep <=> Wanted(LeftCell(e) \in Subj, LeftCell(e) \in Clip)
<1>1. face[e] \in Faces
  BY DEF ResultInv, GridInv, Traced, Early, Faces
<1>2. face[e] \in keep <=> Wanted(face[e] \in inSubj, face[e] \in inClip)
  BY <1>1 DEF ResultInv, Chosen
<1>3. /\ (face[e] \in inSubj) = (LeftCell(e) \in Subj)
      /\ (face[e] \in inClip) = (LeftCell(e) \in Clip)
  BY JudgedSo DEF FacesJudged
<1> QED
  BY <1>2, <1>3

\* Nothing off the grid is asked for.
LEMMA WantedOnGrid ==
  ASSUME ResultInv, NEW c, input.op \in Ops
  PROVE  c \in Result <=> Wanted(c \in Subj, c \in Clip)
<1>1. Subj \subseteq Cell /\ Clip \subseteq Cell
  BY DEF ResultInv, GridInv, CallOK, Operand, Subj, Clip
<1>2. c \notin Cell => ~Wanted(c \in Subj, c \in Clip)
  <2>1. CASE input.op = "intersection"
    BY <1>1, <2>1 DEF Wanted
  <2>2. CASE input.op = "union"
    BY <1>1, <2>2 DEF Wanted
  <2>3. CASE input.op = "difference"
    BY <1>1, <2>3 DEF Wanted
  <2>4. CASE input.op = "symdiff"
    BY <1>1, <2>4 DEF Wanted
  <2> QED
    BY <2>1, <2>2, <2>3, <2>4 DEF Ops
<1> QED
  BY <1>2 DEF Result

\* A boundary edge lies between the result and the rest.
LEMMA BorderSo == ResultInv => RingsBorder
<1> SUFFICES ASSUME ResultInv, Edges # {}, NEW i \in DOMAIN rings, NEW e \in ToSet(rings[i])
             PROVE  /\ face[e] \notin Misjudged => LeftCell(e) \in Result
                    /\ face[Twin(e)] \notin Misjudged => LeftCell(Twin(e)) \notin Result
  BY DEF RingsBorder
<1>1. IsBoundary(e)
  BY DEF ResultInv, Bordered
<1>2. e \in Edges /\ Twin(e) \in Edges /\ face[e] \in keep /\ face[Twin(e)] \notin keep
  BY <1>1, EdgesOnGrid DEF IsBoundary, ResultInv, GridInv
<1>3. stage \notin Early \cup {"op"}
  <2>1. rings # <<>>
    OBVIOUS
  <2>2. stage \in {"driver", "nothing", "build", "faces", "op"} => rings = <<>>
    BY DEF ResultInv, GridInv, Walked
  <2> QED
    BY <2>1, <2>2 DEF Early
<1>4. input.op \in Ops
  BY <1>3 DEF ResultInv, GridInv, CallOK, Early
<1> QED
  BY <1>2, <1>3, <1>4, KeptIsWanted, WantedOnGrid

\* No ring of the answer runs through the result or away from it: a ring walk
\* takes boundary edges only, on from pinch points too, and the face on the
\* left of each is in the result and the one on its right is not
\* (result.go:74-165).
THEOREM RingsBorderResult == Spec => []RingsBorder
  BY ResultAlways, BorderSo, PTL

\* The lines and points of an intersection lie in both operands, and no line
\* lies beside a cell of the result, as far as faces are judged right.
IntersectionInBoth ==
  input.op = "intersection" =>
    /\ \A l \in lines : \A e \in ToSet(l) :
         {face[e], face[Twin(e)]} \cap Misjudged = {} =>
           /\ EdgeIn(input.subj, e) /\ EdgeIn(input.clip, e)
           /\ {LeftCell(e), LeftCell(Twin(e))} \cap Result = {}
    /\ \A v \in points : PointIn(input.subj, v) /\ PointIn(input.clip, v)

\* The edges of an operand's rings lie in it, in both directions.
LEMMA RingEdgeIsIn ==
  ASSUME NEW s, IsOperand(s), NEW e \in RingEdges(s)
  PROVE  EdgeIn(s, e)
<1>1. CASE (LeftCell(e) \in s.cells) # (LeftCell(Twin(e)) \in s.cells)
  BY <1>1 DEF EdgeIn
<1>2. CASE e \in s.spikes
  BY <1>2 DEF EdgeIn
<1>3. CASE \E f \in s.spikes : e = Twin(f)
  <2>1. PICK f \in s.spikes : e = Twin(f)
    BY <1>3
  <2>2. Twin(e) = f
    BY <2>1, TwinOfTwin DEF IsOperand
  <2> QED
    BY <2>1, <2>2 DEF EdgeIn
<1> QED
  BY <1>1, <1>2, <1>3 DEF RingEdges

\* A half-edge lies in an operand when its twin does.
LEMMA SameBothWays ==
  ASSUME NEW s, NEW e \in Lattice, EdgeIn(s, Twin(e))
  PROVE  EdgeIn(s, e)
<1>1. Twin(Twin(e)) = e
  BY TwinOfTwin
<1> QED
  BY <1>1 DEF EdgeIn

\* An edge harvested for an intersection lies in both operands.
LEMMA HarvestedIsInBoth ==
  ASSUME ResultInv, input.op = "intersection", stage \notin Early \cup {"op"},
         NEW e \in Edges, InResult(e), {face[e], face[Twin(e)]} \cap Misjudged = {}
  PROVE  /\ EdgeIn(input.subj, e) /\ EdgeIn(input.clip, e)
         /\ {LeftCell(e), LeftCell(Twin(e))} \cap Result = {}
<1> DEFINE f == face[e]
           g == face[Twin(e)]
<1>1. /\ Twin(e) \in Edges /\ IsOperand(input.subj) /\ IsOperand(input.clip)
      /\ f \notin Misjudged /\ g \notin Misjudged
  BY EdgesOnGrid, OperandsOnGrid DEF ResultInv, GridInv, CallOK
<1>2. /\ f \in inSubj <=> LeftCell(e) \in input.subj.cells
      /\ f \in inClip <=> LeftCell(e) \in input.clip.cells
      /\ g \in inSubj <=> LeftCell(Twin(e)) \in input.subj.cells
      /\ g \in inClip <=> LeftCell(Twin(e)) \in input.clip.cells
  BY <1>1, JudgedSo DEF FacesJudged, Subj, Clip
<1>3. f \notin keep /\ g \notin keep
  BY DEF InResult
<1>4. {LeftCell(e), LeftCell(Twin(e))} \cap Result = {}
  <2>1. input.op \in Ops
    BY DEF Ops
  <2>2. LeftCell(e) \notin Result
    BY <1>1, <1>3, <2>1, KeptIsWanted, WantedOnGrid
  <2>3. LeftCell(Twin(e)) \notin Result
    BY <1>1, <1>3, <2>1, KeptIsWanted, WantedOnGrid
  <2> QED
    BY <2>2, <2>3
<1>5. /\ f \in inSubj \/ g \in inSubj => EdgeIn(input.subj, e)
      /\ f \in inClip \/ g \in inClip => EdgeIn(input.clip, e)
  BY <1>2 DEF EdgeIn
<1>6. /\ "subj" \in tags[e] => EdgeIn(input.subj, e)
      /\ "clip" \in tags[e] => EdgeIn(input.clip, e)
  BY <1>1, RingEdgeIsIn DEF ResultInv, Tagged
<1>7. CASE f = g
  <2>1. (f \in inSubj \/ "subj" \in tags[e]) /\ (f \in inClip \/ "clip" \in tags[e])
    BY <1>7 DEF InResult, Wanted
  <2> QED
    BY <1>4, <1>5, <1>6, <2>1
<1>8. CASE f # g
  <2>1. \/ tags[e] = {"subj", "clip"}
        \/ "subj" \in tags[e] /\ {f, g} \subseteq inClip
        \/ "clip" \in tags[e] /\ {f, g} \subseteq inSubj
    BY <1>8 DEF InResult
  <2> QED
    BY <1>4, <1>5, <1>6, <2>1
<1> QED
  BY <1>7, <1>8

\* What an intersection answers lies in both operands.
LEMMA InBothSo == ResultInv => IntersectionInBoth
<1> SUFFICES ASSUME ResultInv, input.op = "intersection" PROVE IntersectionInBoth
  BY DEF IntersectionInBoth
<1>1. ASSUME NEW l \in lines, NEW e \in ToSet(l), {face[e], face[Twin(e)]} \cap Misjudged = {}
      PROVE  /\ EdgeIn(input.subj, e) /\ EdgeIn(input.clip, e)
             /\ {LeftCell(e), LeftCell(Twin(e))} \cap Result = {}
  <2>1. e \in Edges /\ Harvested(e) /\ stage \notin Early \cup {"op"}
    <3>1. l \in Seq(Edges)
      BY DEF ResultInv, GridInv, Walked
    <3> QED
      BY <3>1 DEF ResultInv, Lined, ToSet
  <2>2. e \in Lattice /\ Twin(e) \in Edges /\ Twin(Twin(e)) = e
    BY <2>1, EdgesOnGrid, TwinOfTwin DEF ResultInv, GridInv
  <2>3. CASE InResult(e)
    BY <1>1, <2>1, <2>3, HarvestedIsInBoth
  <2>4. CASE InResult(Twin(e))
    <3>1. {face[Twin(e)], face[Twin(Twin(e))]} \cap Misjudged = {}
      BY <1>1, <2>2
    <3>2. /\ EdgeIn(input.subj, Twin(e)) /\ EdgeIn(input.clip, Twin(e))
          /\ {LeftCell(Twin(e)), LeftCell(Twin(Twin(e)))} \cap Result = {}
      BY <2>1, <2>2, <2>4, <3>1, HarvestedIsInBoth
    <3> QED
      BY <2>2, <3>2, SameBothWays
  <2> QED
    BY <2>1, <2>3, <2>4 DEF Harvested
<1>2. ASSUME NEW v \in points
      PROVE  PointIn(input.subj, v) /\ PointIn(input.clip, v)
  <2>1. TagsAt(v) = {"subj", "clip"}
    BY DEF ResultInv, Pointed
  <2>2. PICK a \in Edges : Origin(a) = v /\ "subj" \in tags[a]
    BY <2>1 DEF TagsAt
  <2>3. PICK b \in Edges : Origin(b) = v /\ "clip" \in tags[b]
    BY <2>1 DEF TagsAt
  <2>4. /\ a \in Lattice /\ EdgeIn(input.subj, a)
        /\ b \in Lattice /\ EdgeIn(input.clip, b)
    BY <2>2, <2>3, EdgesOnGrid, OperandsOnGrid, RingEdgeIsIn DEF ResultInv, GridInv, CallOK, Tagged
  <2> QED
    BY <2>2, <2>3, <2>4 DEF PointIn
<1> QED
  BY <1>1, <1>2 DEF IntersectionInBoth

\* What an intersection answers besides polygons is right: its lines and its
\* isolated points lie in both operands as closed sets, and no line runs
\* inside or along the polygons of the answer (extract_lineal.go).
THEOREM NothingOutside == Spec => []IntersectionInBoth
  BY ResultAlways, InBothSo, PTL

-----------------------------------------------------------------------------
(***************************************************************************)
(* The walks of the rings: they come back, and leave nothing over.         *)
(***************************************************************************)

\* The first direction of P clockwise of d.
Clockwise(P, d) ==
  LET k == Min({j \in 1..4 : (d + (4 - j)) % 4 \in P}) IN (d + (4 - k)) % 4

\* It is the first of three others that is there, else d.
LEMMA ClockwiseIs ==
  ASSUME NEW P \in SUBSET {0, 1, 2, 3}, NEW d \in P
  PROVE  Clockwise(P, d) = IF (d + 3) % 4 \in P THEN (d + 3) % 4
                           ELSE IF (d + 2) % 4 \in P THEN (d + 2) % 4
                           ELSE IF (d + 1) % 4 \in P THEN (d + 1) % 4 ELSE d
<1> DEFINE K == {j \in 1..4 : (d + (4 - j)) % 4 \in P}
           k == Min(K)
<1>1. d \in {0, 1, 2, 3}
  OBVIOUS
<1>2. (d + (4 - 4)) % 4 = d /\ (d + (4 - 3)) % 4 = (d + 1) % 4 /\ (d + (4 - 2)) % 4 = (d + 2) % 4 /\ (d + (4 - 1)) % 4 = (d + 3) % 4
  BY <1>1
<1>3. 4 \in K
  BY <1>2
<1>4. k \in K /\ \A j \in K : k <= j
  BY <1>3, LeastOfFour
<1>5. Clockwise(P, d) = (d + (4 - k)) % 4
  BY DEF Clockwise
<1>6. \A j \in {1, 2, 3, 4} : j \in K <=> (d + (4 - j)) % 4 \in P
  OBVIOUS
<1>7. K \subseteq {1, 2, 3, 4}
  OBVIOUS
<1> HIDE DEF K, k
<1>8. CASE k = 1
  BY <1>2, <1>4, <1>5, <1>6, <1>8
<1>9. CASE k = 2
  <2>1. 1 \notin K
    BY <1>4, <1>9
  <2> QED
    BY <1>2, <1>4, <1>5, <1>6, <1>9, <2>1
<1>10. CASE k = 3
  <2>1. 1 \notin K /\ 2 \notin K
    BY <1>4, <1>10
  <2> QED
    BY <1>2, <1>4, <1>5, <1>6, <1>10, <2>1
<1>11. CASE k = 4
  <2>1. 1 \notin K /\ 2 \notin K /\ 3 \notin K
    BY <1>4, <1>11
  <2> QED
    BY <1>2, <1>4, <1>5, <1>6, <1>11, <2>1
<1> QED
  BY <1>4, <1>7, <1>8, <1>9, <1>10, <1>11

\* No two directions have the same one clockwise of them.
LEMMA ClockwiseInjective ==
  ASSUME NEW P \in SUBSET {0, 1, 2, 3}, NEW c \in P, NEW d \in P, Clockwise(P, c) = Clockwise(P, d)
  PROVE  c = d
<1>1. (0 + 3) % 4 = 3 /\ (0 + 2) % 4 = 2 /\ (0 + 1) % 4 = 1 /\ (1 + 3) % 4 = 0 /\ (1 + 2) % 4 = 3 /\ (1 + 1) % 4 = 2
      /\ (2 + 3) % 4 = 1 /\ (2 + 2) % 4 = 0 /\ (2 + 1) % 4 = 3 /\ (3 + 3) % 4 = 2 /\ (3 + 2) % 4 = 1 /\ (3 + 1) % 4 = 0
  OBVIOUS
<1>2. \A x \in P :
        /\ x = 0 => Clockwise(P, x) = IF 3 \in P THEN 3 ELSE IF 2 \in P THEN 2 ELSE IF 1 \in P THEN 1 ELSE 0
        /\ x = 1 => Clockwise(P, x) = IF 0 \in P THEN 0 ELSE IF 3 \in P THEN 3 ELSE IF 2 \in P THEN 2 ELSE 1
        /\ x = 2 => Clockwise(P, x) = IF 1 \in P THEN 1 ELSE IF 0 \in P THEN 0 ELSE IF 3 \in P THEN 3 ELSE 2
        /\ x = 3 => Clockwise(P, x) = IF 2 \in P THEN 2 ELSE IF 1 \in P THEN 1 ELSE IF 0 \in P THEN 0 ELSE 3
  BY <1>1, ClockwiseIs
<1>3. c \in {0, 1, 2, 3} /\ d \in {0, 1, 2, 3}
  OBVIOUS
<1> QED
  BY <1>2, <1>3

\* Around a vertex: where kept and other faces meet in two ways in, all four
\* directions are there, the ways in are opposite and so are the ways out.
LEMMA AroundVertex ==
  ASSUME NEW P \in SUBSET {0, 1, 2, 3}, NEW K \in SUBSET P,
         NEW b \in P, b \notin K, Clockwise(P, b) \in K
  PROVE  /\ \E k \in 1..3 : LET d == (b + k) % 4 IN d \in K /\ Clockwise(P, d) \notin K
         /\ \A c \in P : c # b /\ c \notin K /\ Clockwise(P, c) \in K =>
              /\ c = (b + 2) % 4 /\ P = {0, 1, 2, 3}
              /\ Clockwise(P, b) = (b + 3) % 4 /\ Clockwise(P, c) = (b + 1) % 4
<1>1. (0 + 3) % 4 = 3 /\ (0 + 2) % 4 = 2 /\ (0 + 1) % 4 = 1 /\ (1 + 3) % 4 = 0 /\ (1 + 2) % 4 = 3 /\ (1 + 1) % 4 = 2
      /\ (2 + 3) % 4 = 1 /\ (2 + 2) % 4 = 0 /\ (2 + 1) % 4 = 3 /\ (3 + 3) % 4 = 2 /\ (3 + 2) % 4 = 1 /\ (3 + 1) % 4 = 0
  OBVIOUS
<1>2. \A x \in P :
        /\ x = 0 => Clockwise(P, x) = IF 3 \in P THEN 3 ELSE IF 2 \in P THEN 2 ELSE IF 1 \in P THEN 1 ELSE 0
        /\ x = 1 => Clockwise(P, x) = IF 0 \in P THEN 0 ELSE IF 3 \in P THEN 3 ELSE IF 2 \in P THEN 2 ELSE 1
        /\ x = 2 => Clockwise(P, x) = IF 1 \in P THEN 1 ELSE IF 0 \in P THEN 0 ELSE IF 3 \in P THEN 3 ELSE 2
        /\ x = 3 => Clockwise(P, x) = IF 2 \in P THEN 2 ELSE IF 1 \in P THEN 1 ELSE IF 0 \in P THEN 0 ELSE 3
  BY <1>1, ClockwiseIs
<1>3. \A x \in P : x \in {0, 1, 2, 3}
  OBVIOUS
<1>4. \A x \in K : x \in P
  OBVIOUS
<1>5. {0, 1, 2, 3} \subseteq P => P = {0, 1, 2, 3}
  OBVIOUS
<1>6. CASE b = 0
  <2>1. \E k \in {1, 2, 3} : (0 + k) % 4 \in K /\ Clockwise(P, (0 + k) % 4) \notin K
    BY <1>1, <1>2, <1>3, <1>4, <1>6
  <2>2. ASSUME NEW c \in P, c # b, c \notin K, Clockwise(P, c) \in K
        PROVE  /\ c = 2 /\ {0, 1, 2, 3} \subseteq P
               /\ Clockwise(P, b) = 3 /\ Clockwise(P, c) = 1
    BY <1>2, <1>3, <1>4, <1>6, <2>2
  <2> QED
    BY <1>1, <1>5, <1>6, <2>1, <2>2
<1>7. CASE b = 1
  <2>1. \E k \in {1, 2, 3} : (1 + k) % 4 \in K /\ Clockwise(P, (1 + k) % 4) \notin K
    BY <1>1, <1>2, <1>3, <1>4, <1>7
  <2>2. ASSUME NEW c \in P, c # b, c \notin K, Clockwise(P, c) \in K
        PROVE  /\ c = 3 /\ {0, 1, 2, 3} \subseteq P
               /\ Clockwise(P, b) = 0 /\ Clockwise(P, c) = 2
    BY <1>2, <1>3, <1>4, <1>7, <2>2
  <2> QED
    BY <1>1, <1>5, <1>7, <2>1, <2>2
<1>8. CASE b = 2
  <2>1. \E k \in {1, 2, 3} : (2 + k) % 4 \in K /\ Clockwise(P, (2 + k) % 4) \notin K
    BY <1>1, <1>2, <1>3, <1>4, <1>8
  <2>2. ASSUME NEW c \in P, c # b, c \notin K, Clockwise(P, c) \in K
        PROVE  /\ c = 0 /\ {0, 1, 2, 3} \subseteq P
               /\ Clockwise(P, b) = 1 /\ Clockwise(P, c) = 3
    BY <1>2, <1>3, <1>4, <1>8, <2>2
  <2> QED
    BY <1>1, <1>5, <1>8, <2>1, <2>2
<1>9. CASE b = 3
  <2>1. \E k \in {1, 2, 3} : (3 + k) % 4 \in K /\ Clockwise(P, (3 + k) % 4) \notin K
    BY <1>1, <1>2, <1>3, <1>4, <1>9
  <2>2. ASSUME NEW c \in P, c # b, c \notin K, Clockwise(P, c) \in K
        PROVE  /\ c = 1 /\ {0, 1, 2, 3} \subseteq P
               /\ Clockwise(P, b) = 2 /\ Clockwise(P, c) = 0
    BY <1>2, <1>3, <1>4, <1>9, <2>2
  <2> QED
    BY <1>1, <1>5, <1>9, <2>1, <2>2
<1> QED
  BY <1>3, <1>6, <1>7, <1>8, <1>9

\* The edge after e is the first clockwise of the way back.
LEMMA NextIsClockwise ==
  ASSUME NEW E, NEW e
  PROVE  NextEdge(e, E) = <<Target(e)[1], Target(e)[2], Clockwise(Out(Target(e), E), (e[3] + 2) % 4)>>
  BY DEF NextEdge, Turn, Clockwise

\* What leaves a point comes from no other edge, and is met by no other.
LEMMA NextEdgeInjective ==
  ASSUME NEW E \in SUBSET Lattice, \A x \in E : Twin(x) \in E,
         NEW e \in E, NEW f \in E, NextEdge(e, E) = NextEdge(f, E)
  PROVE  e = f
<1> DEFINE P == Out(Target(e), E)
           b == (e[3] + 2) % 4
           c == (f[3] + 2) % 4
<1>1. Target(e) = <<Target(e)[1], Target(e)[2]>> /\ Target(f) = <<Target(f)[1], Target(f)[2]>>
  BY OnGrid
<1>2. Target(e)[1] = Target(f)[1] /\ Target(e)[2] = Target(f)[2] /\ Clockwise(P, b) = Clockwise(Out(Target(f), E), c)
  BY NextIsClockwise
<1>3. Target(e) = Target(f)
  BY <1>1, <1>2
<1>4. Twin(e) = <<Target(e)[1], Target(e)[2], b>> /\ Twin(f) = <<Target(f)[1], Target(f)[2], c>>
  BY DEF Twin
<1>5. b \in {0, 1, 2, 3} /\ c \in {0, 1, 2, 3}
  BY OnGrid, Quarters
<1>6. b \in P /\ c \in P /\ P \in SUBSET {0, 1, 2, 3}
  BY <1>3, <1>4, <1>5 DEF Out
<1>7. b = c
  BY <1>2, <1>3, <1>6, ClockwiseInjective
<1>8. Twin(e) = Twin(f)
  BY <1>3, <1>4, <1>7
<1> QED
  BY <1>8, TwinOfTwin

\* A walk along an injective function on finitely many elements comes back to
\* where it started, so that what it visits is entered from inside only.
LEMMA CycleIsClosed ==
  ASSUME IsFiniteSet(Edges), \A x \in Edges : next[x] \in Edges,
         \A x, y \in Edges : next[x] = next[y] => x = y, NEW e \in Edges
  PROVE  /\ Cycle(e) \subseteq Edges /\ e \in Cycle(e)
         /\ \A x \in Edges : x \in Cycle(e) <=> next[x] \in Cycle(e)
<1> DEFINE n == Cardinality(Edges)
           w == CHOOSE w : w = [k \in 0..n |-> IF k = 0 THEN e ELSE next[w[k - 1]]]
<1>1. n \in Nat
  BY FS_CardinalityType
<1>2. Cycle(e) = {w[k] : k \in 0..n}
  BY DEF Cycle
<1>3. Cardinality(0..n) = n + 1 /\ IsFiniteSet(0..n)
  BY <1>1, FS_Interval
<1>c. Cycle(e) \subseteq Edges
  BY CycleStays
<1>p. Cardinality(Edges) = n
  OBVIOUS
<1> HIDE DEF n
<1>4. w = [k \in 0..n |-> IF k = 0 THEN e ELSE next[w[k - 1]]]
  BY <1>1, WalkExists
<1> HIDE DEF w
<1>5. \A k \in 0..n : w[k] \in Edges
  BY <1>2, <1>c
<1>6. w[0] = e /\ \A k \in 0..n : k # 0 => w[k] = next[w[k - 1]]
  BY <1>1, <1>4
<1> DEFINE Again == {i \in 0..n : \E j \in 0..n : i < j /\ w[i] = w[j]}
<1>7. Again # {}
  <2>1. w \in [0..n -> Edges]
    BY <1>4, <1>5
  <2>2. \E i, j \in 0..n : i # j /\ w[i] = w[j]
    BY <1>1, <1>3, <1>p, <2>1, FS_PigeonHole
  <2>3. PICK i \in 0..n, j \in 0..n : i # j /\ w[i] = w[j]
    BY <2>2
  <2>4. i < j \/ j < i
    BY <1>1, <2>3
  <2> QED
    BY <2>3, <2>4
<1>8. PICK i \in Again : \A j \in Again : i <= j
  <2>1. Again \in SUBSET Nat
    BY <1>1
  <2> HIDE DEF Again
  <2> QED
    BY <1>7, <2>1, LeastNumber
<1>9. PICK p \in 0..n : i < p /\ w[i] = w[p]
  OBVIOUS
<1>10. i = 0
  <2> SUFFICES ASSUME i # 0 PROVE FALSE
    OBVIOUS
  <2>1. i - 1 \in 0..n /\ p - 1 \in 0..n /\ i - 1 < p - 1 /\ p # 0 /\ ~(i <= i - 1)
    BY <1>1, <1>9
  <2>2. next[w[i - 1]] = next[w[p - 1]]
    BY <1>6, <1>9, <2>1
  <2>3. w[i - 1] = w[p - 1]
    BY <1>5, <2>1, <2>2
  <2>4. i - 1 \in Again
    BY <2>1, <2>3
  <2> HIDE DEF Again
  <2> QED
    BY <1>8, <2>1, <2>4
<1> DEFINE D == {w[k] : k \in 0..(p - 1)}
<1>11. 0 \in 0..(p - 1) /\ p \in Nat /\ p <= n /\ w[p] = e
  BY <1>1, <1>6, <1>9, <1>10
<1>12. \A x \in D : next[x] \in D
  <2> SUFFICES ASSUME NEW k \in 0..(p - 1) PROVE next[w[k]] \in D
    OBVIOUS
  <2>1. k + 1 \in 0..n /\ k + 1 # 0 /\ (k + 1) - 1 = k
    BY <1>1, <1>11
  <2>2. next[w[k]] = w[k + 1]
    BY <1>6, <2>1
  <2>3. CASE k + 1 = p
    BY <1>6, <1>11, <2>2, <2>3
  <2>4. CASE k + 1 # p
    <3>1. k + 1 \in 0..(p - 1)
      BY <1>11, <2>4
    <3> QED
      BY <2>2, <3>1
  <2> QED
    BY <2>3, <2>4
<1>13. e \in D
  BY <1>6, <1>11
<1>14. Cycle(e) = D
  <2>1. D \subseteq Cycle(e)
    <3>1. \A k \in 0..(p - 1) : k \in 0..n
      BY <1>1, <1>11
    <3> QED
      BY <1>2, <3>1
  <2>2. Cycle(e) \subseteq D
    <3> HIDE DEF D
    <3> QED
      BY <1>12, <1>13, CycleStays
  <2> QED
    BY <2>1, <2>2
<1>15. ASSUME NEW x \in Edges, next[x] \in D
       PROVE  x \in D
  <2>1. PICK k \in 0..(p - 1) : next[x] = w[k]
    BY <1>15
  <2> DEFINE q == IF k = 0 THEN p ELSE k
  <2>2. w[q] = next[x] /\ q \in 0..n /\ q # 0 /\ q - 1 \in 0..(p - 1) /\ q - 1 \in 0..n
    BY <1>1, <1>6, <1>11, <2>1
  <2>3. next[w[q - 1]] = next[x] /\ w[q - 1] \in Edges
    BY <1>5, <1>6, <2>2
  <2>4. w[q - 1] = x
    BY <2>3
  <2> QED
    BY <2>2, <2>4
<1> QED
  <2> HIDE DEF D
  <2> QED
    BY <1>c, <1>12, <1>13, <1>14, <1>15

\* A face is labelled along its whole walk, and with one label.
Ahead ==
  /\ \A e \in Edges : next[e] = NextEdge(e, Edges)
  /\ \A e \in Edges : e \in DOMAIN face <=> next[e] \in DOMAIN face
  /\ \A e \in DOMAIN face : face[next[e]] = face[e]

\* Every step keeps that.
LEMMA AheadKept == GridInv /\ Ahead /\ [Next]_vars => Ahead'
<1> SUFFICES ASSUME GridInv, Ahead, [Next]_vars PROVE Ahead'
  OBVIOUS
<1>1. CASE Build
  <2> DEFINE E == EdgesOf(input.subj, input.clip)
  <2>1. DOMAIN tags' = E /\ next' = [e \in E |-> NextEdge(e, E)] /\ face' = face
    BY <1>1 DEF Build, EdgesOf
  <2>2. DOMAIN face = {}
    BY <1>1 DEF Build, GridInv, Built, Traced
  <2> HIDE DEF E
  <2>3. Edges' = E
    BY <2>1 DEF Edges
  <2> QED
    BY <2>1, <2>2, <2>3, GridKept DEF Ahead, GridInv, Built
<1>2. CASE TraceFace
  <2> DEFINE e == First(Edges \ DOMAIN face)
  <2>1. e \in Edges
    <3>1. Edges \ DOMAIN face \in SUBSET Lattice /\ Edges \ DOMAIN face # {}
      BY <1>2, EdgesOnGrid DEF TraceFace, GridInv
    <3> QED
      BY <3>1, FirstIsIn
  <2>2. /\ face' = [x \in DOMAIN face \cup Cycle(e) |-> IF x \in Cycle(e) THEN e ELSE face[x]]
        /\ next' = next /\ Edges' = Edges
    BY <1>2 DEF TraceFace, dcel, Edges
  <2> HIDE DEF e
  <2>3. Cycle(e) \subseteq Edges /\ \A x \in Edges : x \in Cycle(e) <=> next[x] \in Cycle(e)
    <3>1. IsFiniteSet(Edges) /\ Edges \in SUBSET Lattice /\ \A x \in Edges : Twin(x) \in Edges
      BY EdgesOnGrid DEF GridInv
    <3>2. \A x, y \in Edges : next[x] = next[y] => x = y
      BY <3>1, NextEdgeInjective DEF Ahead
    <3>3. \A x \in Edges : next[x] \in Edges
      BY DEF GridInv, Built
    <3> QED
      BY <2>1, <3>1, <3>2, <3>3, CycleIsClosed
  <2>4. DOMAIN face' = DOMAIN face \cup Cycle(e) /\ DOMAIN face \subseteq Edges
    BY <2>2 DEF GridInv, Traced
  <2>5. \A x \in DOMAIN face' : x \in Edges /\ next[x] \in DOMAIN face' /\ face'[next[x]] = face'[x]
    BY <2>2, <2>3, <2>4 DEF Ahead
  <2> QED
    BY <2>2, <2>3, <2>4, <2>5 DEF Ahead
<1>3. CASE Edges = {} /\ Edges' = {}
  <2>1. DOMAIN face' = {}
    BY <1>3, GridKept DEF GridInv, Traced
  <2> QED
    BY <1>3, <2>1 DEF Ahead
<1>4. CASE UNCHANGED <<tags, next, face>>
  BY <1>4 DEF Ahead, Edges
<1> QED
  BY <1>1, <1>2, <1>3, <1>4, WhatChanges DEF Build

\* The kept faces around a point, by the ways out they lie to the left of.
KeptAt(v) == {d \in Out(v, Edges) : face[<<v[1], v[2], d>>] \in keep}

\* The face of an edge is that of the first way out clockwise of its end.
LEMMA FaceAtEnd ==
  ASSUME GridInv, Ahead, DOMAIN face = Edges, NEW e \in Edges
  PROVE  LET v == Target(e)
             b == (e[3] + 2) % 4
             c == Clockwise(Out(v, Edges), b)
         IN  /\ v = <<v[1], v[2]>> /\ Out(v, Edges) \in SUBSET {0, 1, 2, 3}
             /\ Twin(e) = <<v[1], v[2], b>> /\ b \in Out(v, Edges)
             /\ <<v[1], v[2], c>> \in Edges /\ c \in Out(v, Edges)
             /\ face[e] = face[<<v[1], v[2], c>>]
<1> DEFINE v == Target(e)
           b == (e[3] + 2) % 4
           c == Clockwise(Out(v, Edges), b)
<1>1. Edges \subseteq Lattice /\ Twin(e) \in Edges
  BY EdgesOnGrid DEF GridInv
<1>2. v = <<v[1], v[2]>> /\ b \in {0, 1, 2, 3}
  BY <1>1, OnGrid, Quarters
<1>3. Twin(e) = <<v[1], v[2], b>>
  BY DEF Twin
<1>4. Out(v, Edges) \in SUBSET {0, 1, 2, 3} /\ b \in Out(v, Edges)
  BY <1>1, <1>2, <1>3 DEF Out
<1>5. next[e] = <<v[1], v[2], c>> /\ next[e] \in Edges /\ face[next[e]] = face[e]
  BY NextIsClockwise DEF Ahead, GridInv, Built
<1>6. c \in {0, 1, 2, 3}
  <2> HIDE DEF b, v
  <2>1. b \in {0, 1, 2, 3}
    BY <1>2
  <2> QED
    BY <1>4, <2>1, ClockwiseIs
<1> HIDE DEF c, b, v
<1>7. c \in Out(v, Edges)
  BY <1>5, <1>6 DEF Out
<1> QED
  BY <1>2, <1>3, <1>4, <1>5, <1>7 DEF c, b, v

\* Ways in and ways out of the boundary, by the kept faces around a point.
LEMMA WaysInAndOut ==
  ASSUME GridInv, Ahead, DOMAIN face = Edges, NEW e \in Edges
  PROVE  LET v == Target(e)
             b == (e[3] + 2) % 4
             P == Out(v, Edges)
         IN  /\ IsBoundary(e) <=> b \notin KeptAt(v) /\ Clockwise(P, b) \in KeptAt(v)
             /\ \A d \in P : IsBoundary(<<v[1], v[2], d>>) <=> d \in KeptAt(v) /\ Clockwise(P, d) \notin KeptAt(v)
             /\ \A d \in {0, 1, 2, 3} : IsBoundary(<<v[1], v[2], d>>) => d \in P
<1> DEFINE v == Target(e)
           b == (e[3] + 2) % 4
           P == Out(v, Edges)
<1>1. /\ v = <<v[1], v[2]>> /\ P \in SUBSET {0, 1, 2, 3}
      /\ Twin(e) = <<v[1], v[2], b>> /\ b \in P
      /\ Clockwise(P, b) \in P /\ face[e] = face[<<v[1], v[2], Clockwise(P, b)>>]
  BY FaceAtEnd
<1>2. IsBoundary(e) <=> b \notin KeptAt(v) /\ Clockwise(P, b) \in KeptAt(v)
  <2> HIDE DEF b, v
  <2> QED
    BY <1>1 DEF IsBoundary, KeptAt
<1>3. ASSUME NEW d \in P
      PROVE  IsBoundary(<<v[1], v[2], d>>) <=> d \in KeptAt(v) /\ Clockwise(P, d) \notin KeptAt(v)
  <2> DEFINE o == <<v[1], v[2], d>>
             t == Twin(o)
  <2>1. o \in Edges
    BY DEF Out
  <2>2. o \in Lattice /\ t \in Edges /\ t \in Lattice /\ Twin(t) = o
    BY <2>1, EdgesOnGrid, TwinOfTwin DEF GridInv
  <2>3. LET u == Target(t)
            c == (t[3] + 2) % 4
        IN  /\ u = <<u[1], u[2]>> /\ Twin(t) = <<u[1], u[2], c>>
            /\ Clockwise(Out(u, Edges), c) \in Out(u, Edges)
            /\ face[t] = face[<<u[1], u[2], Clockwise(Out(u, Edges), c)>>]
    BY <2>2, FaceAtEnd
  <2>4. Target(t) = v /\ (t[3] + 2) % 4 = d
    <3> HIDE DEF t, v
    <3>1. <<v[1], v[2], d>> = <<Target(t)[1], Target(t)[2], (t[3] + 2) % 4>>
      BY <2>2, <2>3
    <3> QED
      BY <1>1, <2>3, <3>1
  <2>5. face[t] = face[<<v[1], v[2], Clockwise(P, d)>>] /\ Clockwise(P, d) \in P
    <3> HIDE DEF t, v
    <3> QED
      BY <2>3, <2>4 DEF P
  <2> HIDE DEF v, t
  <2> QED
    BY <2>1, <2>5 DEF IsBoundary, KeptAt, t
<1>4. \A d \in {0, 1, 2, 3} : IsBoundary(<<v[1], v[2], d>>) => d \in P
  BY DEF IsBoundary, Out
<1> QED
  BY <1>2, <1>3, <1>4

\* A boundary edge never ends where no other goes on.
LEMMA BoundaryGoesOn ==
  ASSUME GridInv, Ahead, DOMAIN face = Edges, NEW e, IsBoundary(e)
  PROVE  /\ NextBoundary(e) # Nil /\ IsBoundary(NextBoundary(e)) /\ NextBoundary(e) \in Edges
         /\ Origin(NextBoundary(e)) = Target(e)
<1> DEFINE v == Target(e)
           b == (e[3] + 2) % 4
           P == Out(v, Edges)
           turn(k) == Turn(v, b, k)
           any == {k \in 1..3 : IsBoundary(turn(k))}
           same == {k \in any : root[face[turn(k)]] = root[face[e]]}
<1>1. e \in Edges
  BY DEF IsBoundary
<1>2. v = <<v[1], v[2]>> /\ P \in SUBSET {0, 1, 2, 3} /\ b \in P
  BY <1>1, FaceAtEnd
<1>3. \A k : turn(k) = <<v[1], v[2], (b + k) % 4>>
  BY DEF Turn
<1>4. any # {}
  <2>1. b \notin KeptAt(v) /\ Clockwise(P, b) \in KeptAt(v) /\ KeptAt(v) \in SUBSET P
    BY <1>1, WaysInAndOut DEF KeptAt
  <2>2. PICK k \in 1..3 : (b + k) % 4 \in KeptAt(v) /\ Clockwise(P, (b + k) % 4) \notin KeptAt(v)
    <3> HIDE DEF b, v, P
    <3> QED
      BY <1>2, <2>1, AroundVertex
  <2>3. IsBoundary(<<v[1], v[2], (b + k) % 4>>)
    BY <1>1, <2>1, <2>2, WaysInAndOut
  <2> QED
    BY <1>3, <2>3
<1>5. NextBoundary(e) = IF same # {} THEN turn(Min(same)) ELSE IF any # {} THEN turn(Min(any)) ELSE Nil
  BY DEF NextBoundary
<1>6. \E k : NextBoundary(e) = turn(k)
  <2> HIDE DEF any, same, turn
  <2> QED
    BY <1>4, <1>5
<1>7. PICK k : NextBoundary(e) = <<v[1], v[2], (b + k) % 4>>
  BY <1>3, <1>6
<1>8. NextBoundary(e) # Nil
  BY <1>7 DEF Nil
<1>9. Origin(NextBoundary(e)) = v
  <2> HIDE DEF v, b
  <2> QED
    BY <1>2, <1>7 DEF Origin
<1> QED
  BY <1>8, <1>9, NextBoundaryIs

\* At a pinch point, where two edges of the boundary come in, two go out, one
\* beside each, and which one follows is up to the components.
LEMMA AtPinch ==
  ASSUME GridInv, Ahead, DOMAIN face = Edges, NEW e, NEW f, IsBoundary(e), IsBoundary(f),
         Target(e) = Target(f), e # f
  PROVE  LET v == Target(e)
             b == (e[3] + 2) % 4
             p == <<v[1], v[2], (b + 1) % 4>>
             q == <<v[1], v[2], (b + 3) % 4>>
         IN  /\ v = <<v[1], v[2]>> /\ b \in {0, 1, 2, 3} /\ (f[3] + 2) % 4 = (b + 2) % 4
             /\ IsBoundary(p) /\ IsBoundary(q)
             /\ NextBoundary(e) = IF root[face[p]] = root[face[q]] THEN p ELSE q
<1>1. e \in Edges /\ f \in Edges
  BY DEF IsBoundary
<1>2. Target(e) = Target(f)
  OBVIOUS
<1> DEFINE v == Target(e)
           P == Out(v, Edges)
           b == (e[3] + 2) % 4
           c == (f[3] + 2) % 4
           out(d) == <<v[1], v[2], d>>
<1>0. b # c
  <2>1. Twin(e) = <<v[1], v[2], b>> /\ Twin(f) = <<v[1], v[2], c>>
    BY <1>2 DEF Twin
  <2>2. b = c => Twin(e) = Twin(f)
    BY <2>1
  <2> QED
    BY <1>1, <2>2, EdgesOnGrid, TwinOfTwin DEF GridInv
<1>3. /\ v = <<v[1], v[2]>> /\ P \in SUBSET {0, 1, 2, 3} /\ b \in P /\ c \in P
      /\ face[e] = face[out(Clockwise(P, b))] /\ face[f] = face[out(Clockwise(P, c))]
  BY <1>1, <1>2, FaceAtEnd
<1>4. /\ b \notin KeptAt(v) /\ Clockwise(P, b) \in KeptAt(v) /\ KeptAt(v) \in SUBSET P
      /\ c \notin KeptAt(v) /\ Clockwise(P, c) \in KeptAt(v)
  BY <1>1, <1>2, WaysInAndOut DEF KeptAt
<1>5. /\ c = (b + 2) % 4 /\ P = {0, 1, 2, 3}
      /\ Clockwise(P, b) = (b + 3) % 4 /\ Clockwise(P, c) = (b + 1) % 4
  <2>1. P \in SUBSET {0, 1, 2, 3} /\ b \in P /\ c \in P
    BY <1>3
  <2> HIDE DEF v, b, c, P
  <2> DEFINE K == KeptAt(v)
  <2>2. K \in SUBSET P /\ b \notin K /\ Clockwise(P, b) \in K /\ c \notin K /\ Clockwise(P, c) \in K
    BY <1>4
  <2> HIDE DEF K
  <2>3. \A x \in P : x # b /\ x \notin K /\ Clockwise(P, x) \in K =>
          /\ x = (b + 2) % 4 /\ P = {0, 1, 2, 3}
          /\ Clockwise(P, b) = (b + 3) % 4 /\ Clockwise(P, x) = (b + 1) % 4
    BY <2>1, <2>2, AroundVertex
  <2> QED
    BY <1>0, <2>1, <2>2, <2>3
<1>6. \A d \in P : IsBoundary(out(d)) <=> d \in KeptAt(v) /\ Clockwise(P, d) \notin KeptAt(v)
  BY <1>1, WaysInAndOut
<1> DEFINE p == (b + 1) % 4
           q == (b + 3) % 4
<1>7. /\ p \in {0, 1, 2, 3} /\ q \in {0, 1, 2, 3} /\ p # q
      /\ (c + 1) % 4 = q /\ (c + 3) % 4 = p /\ (c + 2) % 4 = b
  <2> HIDE DEF b, c
  <2>1. b \in {0, 1, 2, 3}
    BY <1>3
  <2> QED
    BY <1>5, <2>1
<1>8. Clockwise(P, p) = b /\ Clockwise(P, q) = c
  <2> HIDE DEF b, c, v, P
  <2>1. b \in {0, 1, 2, 3}
    BY <1>3
  <2>2. (p + 3) % 4 = b /\ (q + 3) % 4 = c
    BY <1>5, <2>1
  <2> HIDE DEF p, q
  <2>3. P = {0, 1, 2, 3} /\ p \in P /\ q \in P
    BY <1>5, <1>7
  <2>4. \A x \in P : Clockwise(P, x) = IF x = 0 THEN 3 ELSE IF x = 1 THEN 0 ELSE IF x = 2 THEN 1 ELSE 2
    BY <2>3, ClockwiseIs
  <2>5. \A x \in {0, 1, 2, 3} : (x + 3) % 4 = IF x = 0 THEN 3 ELSE IF x = 1 THEN 0 ELSE IF x = 2 THEN 1 ELSE 2
    OBVIOUS
  <2> QED
    BY <2>2, <2>3, <2>4, <2>5
<1>9. IsBoundary(out(p)) /\ IsBoundary(out(q)) /\ ~IsBoundary(out(b)) /\ ~IsBoundary(out(c))
  <2> HIDE DEF b, c, v, P, p, q, out
  <2> QED
    BY <1>3, <1>4, <1>5, <1>6, <1>7, <1>8
<1>10. ASSUME NEW g \in {e, f}, NEW z, z = (g[3] + 2) % 4, NEW y \in {p, q}, NEW x \in {p, q},
              (z + 1) % 4 = y, (z + 3) % 4 = x, (z + 2) % 4 \in {b, c}, face[g] = face[out(x)]
       PROVE  NextBoundary(g) = IF root[face[out(y)]] = root[face[out(x)]] THEN out(y) ELSE out(x)
  <2> DEFINE turn(k) == Turn(Target(g), (g[3] + 2) % 4, k)
             any == {k \in 1..3 : IsBoundary(turn(k))}
             same == {k \in any : root[face[turn(k)]] = root[face[g]]}
  <2>1. NextBoundary(g) = IF same # {} THEN turn(Min(same)) ELSE IF any # {} THEN turn(Min(any)) ELSE Nil
    BY DEF NextBoundary
  <2>2. turn(1) = out(y) /\ turn(3) = out(x) /\ turn(2) = out((z + 2) % 4)
    BY <1>2, <1>10 DEF Turn
  <2>3. any = {1, 3}
    <3>1. IsBoundary(turn(1)) /\ IsBoundary(turn(3)) /\ ~IsBoundary(turn(2))
      BY <1>9, <1>10, <2>2
    <3> HIDE DEF turn
    <3> QED
      BY <3>1
  <2>4. 3 \in same /\ (1 \in same <=> root[face[out(y)]] = root[face[out(x)]]) /\ same \in SUBSET {1, 3}
    BY <1>10, <2>2, <2>3
  <2> HIDE DEF same
  <2>5. Min(same) \in same /\ \A k \in same : Min(same) <= k
    <3>1. same \in SUBSET (1..4) /\ same # {}
      BY <2>4
    <3> QED
      BY <3>1, LeastOfFour
  <2>6. Min(same) = IF root[face[out(y)]] = root[face[out(x)]] THEN 1 ELSE 3
    <3>1. Min(same) \in {1, 3}
      BY <2>4, <2>5
    <3>2. CASE 1 \in same
      <4>1. Min(same) <= 1
        BY <2>5, <3>2
      <4> QED
        BY <2>4, <3>1, <3>2, <4>1
    <3>3. CASE 1 \notin same
      BY <2>4, <2>5, <3>1, <3>3
    <3> QED
      BY <3>2, <3>3
  <2> HIDE DEF any, turn
  <2> QED
    BY <2>1, <2>2, <2>4, <2>6
<1>11. NextBoundary(e) = IF root[face[out(p)]] = root[face[out(q)]] THEN out(p) ELSE out(q)
  <2>1. (b + 2) % 4 \in {b, c}
    BY <1>5
  <2> HIDE DEF out
  <2> QED
    BY <1>3, <1>5, <1>10, <2>1
<1>12. b \in {0, 1, 2, 3}
  BY <1>3
<1> QED
  BY <1>3, <1>5, <1>9, <1>11, <1>12

\* No two boundary edges go on with the same one: where two of them meet in a
\* point, each keeps to the other side of it, or both keep to their own.
LEMMA BoundaryInjective ==
  ASSUME GridInv, Ahead, DOMAIN face = Edges, NEW e, NEW f, IsBoundary(e), IsBoundary(f),
         NextBoundary(e) = NextBoundary(f)
  PROVE  e = f
<1> SUFFICES ASSUME e # f PROVE FALSE
  OBVIOUS
<1>1. Target(e) = Target(f)
  BY BoundaryGoesOn
<1> DEFINE v == Target(e)
           b == (e[3] + 2) % 4
           c == (f[3] + 2) % 4
           p == <<v[1], v[2], (b + 1) % 4>>
           q == <<v[1], v[2], (b + 3) % 4>>
<1>2. /\ b \in {0, 1, 2, 3} /\ c = (b + 2) % 4
      /\ NextBoundary(e) = IF root[face[p]] = root[face[q]] THEN p ELSE q
  BY <1>1, AtPinch
<1>3. LET x == <<v[1], v[2], (c + 1) % 4>>
          y == <<v[1], v[2], (c + 3) % 4>>
      IN  NextBoundary(f) = IF root[face[x]] = root[face[y]] THEN x ELSE y
  BY <1>1, AtPinch
<1>4. (c + 1) % 4 = (b + 3) % 4 /\ (c + 3) % 4 = (b + 1) % 4 /\ (b + 1) % 4 # (b + 3) % 4
  <2> HIDE DEF b, c
  <2> QED
    BY <1>2
<1>5. NextBoundary(f) = IF root[face[q]] = root[face[p]] THEN q ELSE p
  BY <1>3, <1>4
<1>6. p # q
  BY <1>4
<1> HIDE DEF p, q
<1> QED
  BY <1>2, <1>5, <1>6

\* A half-edge leads somewhere else, and only its twin leads back.
LEMMA ThereAndBack ==
  ASSUME NEW e \in Lattice, NEW f \in Lattice, Origin(f) = Target(e)
  PROVE  f # e /\ (Target(f) = Origin(e) => f = Twin(e))
<1>1. PICK x \in 0..Width, y \in 0..Height, d \in {0, 1, 2, 3} : f = <<x, y, d>>
  BY OnGrid
<1>2. PICK u \in 0..Width, v \in 0..Height, c \in {0, 1, 2, 3} : Twin(e) = <<u, v, c>>
  BY OnGrid, TwinOfTwin
<1>3. x \in Int /\ y \in Int /\ u \in Int /\ v \in Int
  BY Grid
<1>4. u = x /\ v = y
  <2>1. Twin(e) = <<Target(e)[1], Target(e)[2], (e[3] + 2) % 4>>
    BY DEF Twin
  <2>2. Target(e) = <<x, y>>
    BY <1>1 DEF Origin
  <2> QED
    BY <1>2, <2>1, <2>2
<1>5. Target(Twin(e)) = Origin(e)
  <2>1. e = <<Target(Twin(e))[1], Target(Twin(e))[2], (Twin(e)[3] + 2) % 4>>
    BY TwinOfTwin DEF Twin
  <2>2. Target(Twin(e)) = <<Target(Twin(e))[1], Target(Twin(e))[2]>>
    BY OnGrid, TwinOfTwin
  <2> HIDE DEF Twin, Target
  <2>3. e[1] = Target(Twin(e))[1] /\ e[2] = Target(Twin(e))[2]
    BY <2>1
  <2> QED
    BY <2>2, <2>3 DEF Origin
<1>6. \A w \in {0, 1, 2, 3} :
        Target(<<x, y, w>>) = CASE w = 0 -> <<x, y - 1>> [] w = 1 -> <<x + 1, y>>
                                [] w = 2 -> <<x, y + 1>> [] OTHER -> <<x - 1, y>>
  BY <1>3 DEF Target, Dx, Dy
<1>7. Target(f) = Target(Twin(e)) => d = c
  BY <1>1, <1>2, <1>3, <1>4, <1>6
<1>8. Target(f) # Origin(f)
  BY <1>1, <1>3, <1>6 DEF Origin
<1> QED
  BY <1>1, <1>2, <1>4, <1>5, <1>7, <1>8

\* A step that leaves the labels alone leaves alone where the boundary goes.
LEMMA SameBoundary ==
  ASSUME UNCHANGED <<input, tags, face, keep, root>>
  PROVE  /\ Edges' = Edges
         /\ \A e : IsBoundary(e)' <=> IsBoundary(e)
         /\ \A e : NextBoundary(e)' = NextBoundary(e)
<1>1. Edges' = Edges /\ \A e : IsBoundary(e)' <=> IsBoundary(e)
  BY SameFaces
<1>2. \A e : NextBoundary(e)' = NextBoundary(e)
  <2> SUFFICES ASSUME NEW e PROVE NextBoundary(e)' = NextBoundary(e)
    OBVIOUS
  <2> DEFINE turn(k) == Turn(Target(e), (e[3] + 2) % 4, k)
             any == {k \in 1..3 : IsBoundary(turn(k))}
             same == {k \in any : root[face[turn(k)]] = root[face[e]]}
  <2>1. any' = any /\ same' = same
    BY <1>1
  <2>2. NextBoundary(e) = IF same # {} THEN turn(Min(same)) ELSE IF any # {} THEN turn(Min(any)) ELSE Nil
    BY DEF NextBoundary
  <2>3. NextBoundary(e)' = IF same' # {} THEN turn(Min(same')) ELSE IF any' # {} THEN turn(Min(any')) ELSE Nil
    BY DEF NextBoundary
  <2> HIDE DEF turn, any, same
  <2> QED
    BY <2>1, <2>2, <2>3
<1> QED
  BY <1>1, <1>2

\* The edges of the rings that are closed, and the place after a in ring r.
InRings == UNION {ToSet(rings[i]) : i \in DOMAIN rings}
After(r, a) == IF a = Len(r) THEN 1 ELSE a + 1

\* A ring is a whole walk along the boundary, the one being walked a part of
\* one, no edge is in two places, and when no more can be started, every edge
\* of the boundary is in a ring.
RingsClosed ==
  /\ rings \in Seq(Seq(Edges))
  /\ \A i \in DOMAIN rings : \A a \in DOMAIN rings[i] : NextBoundary(rings[i][a]) = rings[i][After(rings[i], a)]
  /\ \A i, j \in DOMAIN rings : \A a \in DOMAIN rings[i], b \in DOMAIN rings[j] :
       rings[i][a] = rings[j][b] => i = j /\ a = b

Looped ==
  /\ stage \in Early \cup {"op"} => visited = {}
  /\ Edges # {} =>
       /\ RingsClosed
       /\ \A a \in 1..(Len(ring) - 1) : NextBoundary(ring[a]) = ring[a + 1]
       /\ stage = "rings" => visited = InRings \cup ToSet(ring) /\ InRings \cap ToSet(ring) = {}
       /\ stage \in {"lines", "forward", "backward", "done"} => \A e : IsBoundary(e) => e \in InRings

RingInv == ResultInv /\ Ahead /\ Looped

\* Before any ring there is none.
LEMMA NoRings ==
  ASSUME ResultInv, Edges # {}, stage \in Early \cup {"op"}
  PROVE  ring = <<>> /\ rings = <<>>
<1>1. ring = <<>>
  BY DEF ResultInv, Bordered
<1>2. stage # "nothing" /\ stage # "driver"
  BY DEF ResultInv, GridInv, Built
<1> QED
  BY <1>1, <1>2 DEF ResultInv, GridInv, Walked, Early

\* An edge of a ring has one before it.
LEMMA OneBefore ==
  ASSUME Edges # {}, Looped, NEW i \in DOMAIN rings, NEW b \in DOMAIN rings[i]
  PROVE  \E a \in DOMAIN rings[i] : NextBoundary(rings[i][a]) = rings[i][b]
<1> DEFINE r == rings[i]
           a == IF b = 1 THEN Len(r) ELSE b - 1
<1>1. Len(r) \in Nat /\ b \in 1..Len(r) /\ DOMAIN r = 1..Len(r)
  BY DEF Looped, RingsClosed
<1>2. a \in DOMAIN r /\ After(r, a) = b
  BY <1>1 DEF After
<1>3. NextBoundary(r[a]) = r[After(r, a)]
  BY <1>2 DEF Looped, RingsClosed
<1> QED
  BY <1>2, <1>3

\* A ring that cannot go on is back at its first edge, and has gone round.
LEMMA RingComesBack ==
  ASSUME RingInv, Edges # {}, stage = "rings", ring # <<>>,
         NextBoundary(Last(ring)) = Nil \/ NextBoundary(Last(ring)) \in visited
  PROVE  NextBoundary(Last(ring)) = ring[1] /\ Len(ring) >= 3
<1> DEFINE L == Len(ring)
           e == NextBoundary(Last(ring))
<1> USE DEF RingInv, ResultInv
<1>1. /\ ring \in Seq(Edges) /\ L \in Nat /\ L # 0 /\ Last(ring) = ring[L]
      /\ rings \in Seq(Seq(Edges)) /\ DOMAIN ring = 1..L
  BY DEF GridInv, Walked, Last
<1>2. DOMAIN face = Edges /\ Edges \subseteq Lattice
  BY EdgesOnGrid DEF GridInv, Traced
<1>3. \A a \in 1..L : ring[a] \in Edges /\ IsBoundary(ring[a]) /\ ring[a] \in ToSet(ring)
  BY <1>1 DEF Bordered, ToSet
<1>4. \A i \in DOMAIN rings : rings[i] \in Seq(Edges) /\ \A a \in DOMAIN rings[i] : IsBoundary(rings[i][a]) /\ rings[i][a] \in InRings
  BY <1>1 DEF Bordered, ToSet, InRings
<1>5. e # Nil /\ e \in Edges /\ Origin(e) = Target(ring[L])
  BY <1>1, <1>2, <1>3, BoundaryGoesOn
<1>6. e \in InRings \cup ToSet(ring) /\ InRings \cap ToSet(ring) = {}
  BY <1>5 DEF Looped
<1>7. e \notin InRings
  <2> SUFFICES ASSUME e \in InRings PROVE FALSE
    OBVIOUS
  <2>1. PICK i \in DOMAIN rings : \E b \in DOMAIN rings[i] : e = rings[i][b]
    BY DEF InRings, ToSet
  <2>2. PICK b \in DOMAIN rings[i] : e = rings[i][b]
    BY <2>1
  <2>3. PICK a \in DOMAIN rings[i] : NextBoundary(rings[i][a]) = rings[i][b]
    BY <1>4, OneBefore
  <2>4. rings[i][a] = ring[L]
    BY <1>1, <1>2, <1>3, <1>4, <2>2, <2>3, BoundaryInjective
  <2> QED
    BY <1>1, <1>3, <1>4, <1>6, <2>4
<1>8. PICK a \in 1..L : e = ring[a]
  BY <1>1, <1>6, <1>7 DEF ToSet
<1>9. a = 1
  <2> SUFFICES ASSUME a # 1 PROVE FALSE
    OBVIOUS
  <2>1. a - 1 \in 1..(L - 1) /\ (a - 1) + 1 = a /\ a - 1 \in 1..L /\ L \in 1..L
    BY <1>1
  <2>2. NextBoundary(ring[a - 1]) = ring[a]
    BY <2>1 DEF Looped
  <2>3. ring[a - 1] = ring[L]
    BY <1>1, <1>2, <1>3, <1>8, <2>1, <2>2, BoundaryInjective
  <2>4. a - 1 = L
    BY <2>1, <2>3 DEF GridInv, Walked
  <2> QED
    BY <1>1, <2>1, <2>4
<1>10. L # 1
  <2> SUFFICES ASSUME L = 1 PROVE FALSE
    OBVIOUS
  <2>1. e = ring[1] /\ ring[1] \in Lattice /\ Origin(ring[1]) = Target(ring[1])
    BY <1>2, <1>3, <1>5, <1>8, <1>9
  <2> QED
    BY <2>1, ThereAndBack
<1>11. L # 2
  <2> SUFFICES ASSUME L = 2 PROVE FALSE
    OBVIOUS
  <2>1. ring[1] \in Lattice /\ ring[2] \in Lattice /\ IsBoundary(ring[1]) /\ IsBoundary(ring[2])
    BY <1>2, <1>3
  <2>2. NextBoundary(ring[1]) = ring[2]
    BY <1>1 DEF Looped
  <2>3. Origin(ring[2]) = Target(ring[1]) /\ Origin(ring[1]) = Target(ring[2])
    BY <1>2, <1>5, <1>8, <1>9, <2>1, <2>2, BoundaryGoesOn
  <2>4. ring[2] = Twin(ring[1])
    BY <2>1, <2>3, ThereAndBack
  <2> QED
    BY <2>1, <2>4 DEF IsBoundary
<1> QED
  BY <1>1, <1>8, <1>9, <1>10, <1>11

\* Every step keeps rings whole and apart.
LEMMA LoopedKept == RingInv /\ [Next]_vars => Looped'
<1> SUFFICES ASSUME RingInv, [Next]_vars PROVE Looped'
  OBVIOUS
<1> USE DEF RingInv, ResultInv
<1>i. /\ ToSet(<<>>) = {} /\ Len(<<>>) = 0 /\ DOMAIN <<>> = {}
      /\ rings = <<>> => InRings = {}
  BY DEF ToSet, InRings
<1>1. CASE stage \in Early \cup {"op"}
  <2>1. visited = {} /\ visited' = visited
    BY <1>1 DEF Looped, Early, Next, vars, Prepare, Repair, Build, TraceFace, Classify, ApplyOp, StartRing, GrowRing,
               CloseRing, Assemble, StartLine, GrowForward, GrowBackward, ExtractPoints, Done
  <2>2. CASE Edges' = {}
    BY <2>1, <2>2 DEF Looped
  <2>3. CASE Edges' # {}
    <3>1. ~Prepare /\ ~Repair
      BY <2>3 DEF Prepare, Repair, dcel, Edges, GridInv, Built
    <3>2. rings' = rings /\ ring' = ring /\ stage' \in Early \cup {"op", "rings"}
      BY <1>1, <3>1 DEF Early, Next, vars, areal, Build, TraceFace, Classify, ApplyOp, StartRing, GrowRing,
               CloseRing, Assemble, StartLine, GrowForward, GrowBackward, ExtractPoints, Done
    <3>3. rings = <<>>
      BY <1>1, <3>2, <2>3 DEF GridInv, Walked, Early
    <3>4. ring = <<>>
      <4>1. visited = {} => ring \in Seq({})
        BY DEF GridInv, Walked
      <4> QED
        BY <2>1, <4>1
    <3>5. InRings' = {}
      BY <1>i, <3>2, <3>3 DEF InRings
    <3>6. RingsClosed'
      <4>1. \A T : <<>> \in Seq(T)
        OBVIOUS
      <4> QED
        BY <1>i, <3>2, <3>3, <4>1 DEF RingsClosed
    <3> QED
      BY <1>i, <2>1, <3>2, <3>4, <3>5, <3>6 DEF Looped, Early
  <2> QED
    BY <2>2, <2>3
<1>2. CASE stage \notin Early \cup {"op"}
  <2>1. UNCHANGED <<input, tags, face, keep, root>> /\ stage' \notin Early \cup {"op"}
    <3>1. UNCHANGED <<input, tags, face>> /\ stage' \notin Early \cup {"op"}
      BY <1>2, WhatChanges DEF Early
    <3>2. UNCHANGED <<keep, root>>
      BY <1>2 DEF Next, vars, labels, Early, Prepare, Repair, Build, TraceFace, Classify, ApplyOp, StartRing, GrowRing,
               CloseRing, Assemble, StartLine, GrowForward, GrowBackward, ExtractPoints, Done
    <3> QED
      BY <3>1, <3>2
  <2>2. /\ Edges' = Edges
        /\ \A e : IsBoundary(e)' <=> IsBoundary(e)
        /\ \A e : NextBoundary(e)' = NextBoundary(e)
    BY <2>1, SameBoundary
  <2>3. CASE Edges = {}
    BY <2>1, <2>2, <2>3 DEF Looped
  <2>4. CASE Edges # {} /\ StartRing
    <3> DEFINE e == First(Unwalked)
    <3>1. e \in Unwalked
      <4>1. Unwalked \in SUBSET Lattice /\ Unwalked # {}
        BY <2>4, EdgesOnGrid DEF StartRing, Unwalked, GridInv
      <4> QED
        BY <4>1, FirstIsIn
    <3>2. ring = <<>> /\ ring' = <<e>> /\ visited' = visited \cup {e} /\ rings' = rings /\ stage = "rings" /\ stage' = "rings"
      BY <2>4 DEF StartRing, areal
    <3> HIDE DEF e
    <3>3. ToSet(ring') = {e} /\ Len(ring') = 1 /\ InRings' = InRings
      BY <3>2 DEF ToSet, InRings
    <3>4. visited = InRings /\ e \notin visited
      BY <1>i, <2>4, <3>1, <3>2 DEF Looped, Unwalked
    <3>5. RingsClosed'
      BY <2>2, <2>4, <3>2 DEF Looped, RingsClosed, After
    <3> QED
      BY <2>1, <2>2, <3>2, <3>3, <3>4, <3>5 DEF Looped
  <2>5. CASE Edges # {} /\ GrowRing
    <3> DEFINE e == NextBoundary(Last(ring))
               L == Len(ring)
    <3>1. /\ ring # <<>> /\ ring' = Append(ring, e) /\ visited' = visited \cup {e} /\ rings' = rings
          /\ stage = "rings" /\ stage' = "rings" /\ e # Nil /\ e \notin visited
      BY <2>5 DEF GrowRing, areal
    <3>2. e \in Edges
      BY <3>1, NextBoundaryIs
    <3>3. ring \in Seq(Edges) /\ L \in Nat /\ L # 0 /\ e = NextBoundary(ring[L])
      BY <3>1 DEF GridInv, Walked, Last
    <3> HIDE DEF e
    <3>4. Len(ring') = L + 1 /\ ring'[L + 1] = e /\ \A i \in 1..L : ring'[i] = ring[i]
      BY <3>1, <3>2, <3>3, AppendIs
    <3>5. ToSet(ring') = ToSet(ring) \cup {e} /\ InRings' = InRings
      <4>1. DOMAIN ring' = 1..(L + 1) /\ DOMAIN ring = 1..L
        BY <3>1, <3>2, <3>3
      <4>2. \A i \in 1..(L + 1) : i \in 1..L \/ i = L + 1
        BY <3>3
      <4>3. L + 1 \in 1..(L + 1) /\ \A i \in 1..L : i \in 1..(L + 1)
        BY <3>3
      <4> QED
        BY <3>1, <3>4, <4>1, <4>2, <4>3 DEF ToSet, InRings
    <3>6. \A a \in 1..(Len(ring') - 1) : NextBoundary(ring'[a]) = ring'[a + 1]
      <4> SUFFICES ASSUME NEW a \in 1..L PROVE NextBoundary(ring'[a]) = ring'[a + 1]
        BY <3>3, <3>4
      <4>1. CASE a = L
        BY <3>3, <3>4, <4>1
      <4>2. CASE a # L
        <5>1. a \in 1..(L - 1) /\ a + 1 \in 1..L
          BY <3>3, <4>2
        <5>2. NextBoundary(ring[a]) = ring[a + 1]
          BY <2>5, <5>1 DEF Looped
        <5> QED
          BY <3>4, <5>1, <5>2
      <4> QED
        BY <4>1, <4>2
    <3>7. RingsClosed'
      BY <2>2, <2>5, <3>1 DEF Looped, RingsClosed, After
    <3>8. visited = InRings \cup ToSet(ring) /\ InRings \cap ToSet(ring) = {}
      BY <2>5, <3>1 DEF Looped
    <3> QED
      BY <2>1, <2>2, <3>1, <3>5, <3>6, <3>7, <3>8 DEF Looped
  <2>6. CASE Edges # {} /\ CloseRing
    <3> DEFINE L == Len(rings)
    <3>1. /\ ring # <<>> /\ ring' = <<>> /\ visited' = visited /\ stage = "rings" /\ stage' = "rings"
          /\ rings' = IF Len(ring) >= 3 THEN Append(rings, ring) ELSE rings
      BY <2>6 DEF CloseRing
    <3>2. NextBoundary(Last(ring)) = ring[1] /\ Len(ring) >= 3
      BY <2>6, <3>1, RingComesBack DEF CloseRing
    <3>3. /\ ring \in Seq(Edges) /\ rings \in Seq(Seq(Edges)) /\ L \in Nat /\ Last(ring) = ring[Len(ring)]
          /\ Len(ring) \in Nat /\ DOMAIN ring = 1..Len(ring) /\ DOMAIN rings = 1..L
      BY <3>1 DEF GridInv, Walked, Last
    <3>4. /\ rings' = Append(rings, ring) /\ rings' \in Seq(Seq(Edges)) /\ Len(rings') = L + 1 /\ rings'[L + 1] = ring
          /\ \A i \in 1..L : rings'[i] = rings[i]
      BY <3>1, <3>2, <3>3, AppendIs
    <3>5. DOMAIN rings' = 1..(L + 1) /\ \A i \in 1..(L + 1) : i \in 1..L \/ i = L + 1
      BY <3>3, <3>4
    <3>5a. L + 1 \in 1..(L + 1) /\ \A i \in 1..L : i \in 1..(L + 1) /\ i # L + 1
      BY <3>3
    <3>6. visited = InRings \cup ToSet(ring) /\ InRings \cap ToSet(ring) = {}
      BY <2>6, <3>1 DEF Looped
    <3> HIDE DEF L
    <3>7. InRings' = InRings \cup ToSet(ring)
      BY <3>3, <3>4, <3>5, <3>5a DEF InRings
    <3>8. \A a \in DOMAIN ring : NextBoundary(ring[a]) = ring[After(ring, a)]
      BY <2>6, <3>2, <3>3 DEF Looped, After
    <3>9. \A i \in DOMAIN rings : \A a \in DOMAIN rings[i] : rings[i][a] \in InRings
      BY DEF InRings, ToSet
    <3>10. \A a \in DOMAIN ring : ring[a] \in ToSet(ring)
      BY DEF ToSet
    <3>11. RingsClosed
      BY <2>6 DEF Looped
    <3>12. RingsClosed'
      <4>1. \A i \in DOMAIN rings' : \A a \in DOMAIN rings'[i] :
              NextBoundary(rings'[i][a]) = rings'[i][After(rings'[i], a)]
        BY <3>3, <3>4, <3>5, <3>8, <3>11 DEF RingsClosed
      <4>2. ASSUME NEW i \in DOMAIN rings', NEW j \in DOMAIN rings', NEW a \in DOMAIN rings'[i], NEW b \in DOMAIN rings'[j],
                   rings'[i][a] = rings'[j][b]
            PROVE  i = j /\ a = b
        <5>1. CASE i \in 1..L /\ j \in 1..L
          BY <3>3, <3>4, <3>11, <4>2, <5>1 DEF RingsClosed
        <5>2. CASE i \in 1..L /\ j = L + 1
          BY <3>3, <3>4, <3>6, <3>9, <3>10, <4>2, <5>2
        <5>3. CASE i = L + 1 /\ j \in 1..L
          BY <3>3, <3>4, <3>6, <3>9, <3>10, <4>2, <5>3
        <5>4. CASE i = L + 1 /\ j = L + 1
          BY <3>3, <3>4, <4>2, <5>4 DEF GridInv, Walked
        <5> QED
          BY <3>5, <5>1, <5>2, <5>3, <5>4
      <4> QED
        BY <2>2, <3>4, <4>1, <4>2 DEF RingsClosed, After
    <3> QED
      BY <1>i, <2>1, <3>1, <3>6, <3>7, <3>12 DEF Looped
  <2>7. CASE Edges # {} /\ Assemble
    <3>1. /\ stage = "rings" /\ stage' \in {"done", "lines"} /\ rings' = rings /\ ring' = ring /\ ring = <<>> /\ Unwalked = {}
      BY <2>7 DEF Assemble
    <3>2. visited = InRings /\ InRings' = InRings
      BY <1>i, <2>7, <3>1 DEF Looped, InRings
    <3>3. \A e : IsBoundary(e) => e \in InRings
      BY <3>1, <3>2 DEF Unwalked, IsBoundary
    <3>4. RingsClosed'
      BY <2>2, <2>7, <3>1 DEF Looped, RingsClosed, After
    <3> QED
      BY <1>i, <2>1, <2>2, <3>1, <3>2, <3>3, <3>4 DEF Looped
  <2>8. CASE Edges # {} /\ ~StartRing /\ ~GrowRing /\ ~CloseRing /\ ~Assemble
    <3>1. rings' = rings /\ ring' = ring
      BY <1>2, <2>8 DEF Early, Next, vars, areal, Prepare, Repair, Build, TraceFace, Classify, ApplyOp,
               StartLine, GrowForward, GrowBackward, ExtractPoints, Done
    <3>2. /\ stage' = "rings" => stage = "rings" /\ visited' = visited
          /\ stage' \in {"lines", "forward", "backward", "done"} => stage \in {"lines", "forward", "backward", "done"}
      BY <1>2, <2>8 DEF Early, Next, vars, Prepare, Repair, Build, TraceFace, Classify, ApplyOp,
               StartLine, GrowForward, GrowBackward, ExtractPoints, Done
    <3>3. RingsClosed' /\ InRings' = InRings
      BY <2>2, <2>8, <3>1 DEF Looped, RingsClosed, After, InRings
    <3> QED
      BY <2>1, <2>2, <2>8, <3>1, <3>2, <3>3 DEF Looped
  <2> QED
    BY <2>3, <2>4, <2>5, <2>6, <2>7, <2>8
<1> QED
  BY <1>1, <1>2

\* The invariant with the rings.
LEMMA RingAlways == Spec => []RingInv
<1>1. Init => RingInv
  <2> SUFFICES ASSUME Init PROVE RingInv
    OBVIOUS
  <2>1. ResultInv /\ Edges = {} /\ DOMAIN face = {} /\ visited = {}
    BY ResultStart DEF Init, Edges
  <2> QED
    BY <2>1 DEF RingInv, Ahead, Looped
<1>2. RingInv /\ [Next]_vars => RingInv'
  <2>1. ResultInv /\ [Next]_vars => ResultInv'
    BY GridKept, LabelsKept, BorderedKept, LinedKept, PointedKept DEF ResultInv
  <2> QED
    BY <2>1, AheadKept, LoopedKept DEF RingInv, ResultInv
<1> QED
  BY <1>1, <1>2, PTL DEF Spec

\* Every ring returns to its start, each edge of it begins where the one
\* before it ends, and no edge is walked twice, by one ring or by two; and when
\* the walks are over, every edge between a kept face and another is in a ring.
RingsReturn ==
  Edges # {} =>
    /\ \A i \in DOMAIN rings : \A a \in DOMAIN rings[i] :
         Target(rings[i][a]) = Origin(rings[i][(a % Len(rings[i])) + 1])
    /\ \A i, j \in DOMAIN rings : \A a \in DOMAIN rings[i], b \in DOMAIN rings[j] :
         rings[i][a] = rings[j][b] => i = j /\ a = b
    /\ stage \in {"lines", "forward", "backward", "done"} => InRings = {e \in Edges : IsBoundary(e)}

\* Where rings are, there is a subdivision with faces on both sides of every
\* edge.
LEMMA RingsAreLate ==
  ASSUME ResultInv, Edges # {}, rings # <<>> \/ stage \in {"lines", "forward", "backward", "done"}
  PROVE  stage \notin Early \cup {"op"} /\ DOMAIN face = Edges /\ input.op \in Ops
<1>1. stage \notin Early \cup {"op"}
  BY NoRings DEF Early
<1> QED
  BY <1>1 DEF ResultInv, GridInv, Traced, CallOK, Early

\* The place after the last one is the first.
LEMMA RoundAgain ==
  ASSUME NEW n \in Nat, NEW a \in 1..n
  PROVE  (a % n) + 1 = IF a = n THEN 1 ELSE a + 1
<1>1. CASE a = n
  BY <1>1
<1>2. CASE a # n
  BY <1>2
<1> QED
  BY <1>1, <1>2

\* The invariant gives what the walks are for.
LEMMA ReturnSo == RingInv => RingsReturn
<1> SUFFICES ASSUME RingInv, Edges # {} PROVE RingsReturn
  BY DEF RingsReturn
<1>1. ASSUME NEW i \in DOMAIN rings, NEW a \in DOMAIN rings[i]
      PROVE  Target(rings[i][a]) = Origin(rings[i][(a % Len(rings[i])) + 1])
  <2> DEFINE r == rings[i]
  <2>1. IsBoundary(r[a])
    BY DEF RingInv, ResultInv, Bordered, ToSet
  <2>2. DOMAIN face = Edges
    <3>1. rings # <<>>
      OBVIOUS
    <3> QED
      BY <3>1, RingsAreLate DEF RingInv
  <2>3. Origin(NextBoundary(r[a])) = Target(r[a])
    BY <2>1, <2>2, BoundaryGoesOn DEF RingInv, ResultInv
  <2>4. NextBoundary(r[a]) = r[After(r, a)]
    BY DEF RingInv, Looped, RingsClosed
  <2>5. (a % Len(r)) + 1 = After(r, a)
    <3>1. Len(r) \in Nat /\ a \in 1..Len(r)
      BY DEF RingInv, Looped, RingsClosed
    <3> QED
      BY <3>1, RoundAgain DEF After
  <2> QED
    BY <2>3, <2>4, <2>5
<1>2. ASSUME stage \in {"lines", "forward", "backward", "done"}
      PROVE  InRings = {e \in Edges : IsBoundary(e)}
  <2>1. \A e \in InRings : IsBoundary(e)
    BY DEF RingInv, ResultInv, Bordered, InRings
  <2>2. \A e : IsBoundary(e) => e \in InRings
    BY <1>2 DEF RingInv, Looped
  <2>3. \A e : IsBoundary(e) => e \in Edges
    BY DEF IsBoundary
  <2> QED
    BY <2>1, <2>2, <2>3
<1> QED
  BY <1>1, <1>2 DEF RingsReturn, RingInv, Looped, RingsClosed

\* The walk that leaves a pinch point by the first boundary edge of its own
\* component, and failing that of any, takes no edge that another walk needs:
\* two ways into a vertex never go on by the same way out.  So a ring walk ends
\* where it began and never in a ring that there is already, no boundary edge
\* is left over, and the filter of rings of fewer than three edges drops none
\* (result.go:74-165).
THEOREM RingsComeBack == Spec => []RingsReturn
  BY RingAlways, ReturnSo, PTL

\* The rings of the result are its boundary: the half-edges with a cell of the
\* result on the left and none on the right, each in one place of one ring, up
\* to those beside a face that its centroid misjudges.
RingsAreBoundary ==
  Edges # {} /\ stage \in {"lines", "forward", "backward", "done"} =>
    \A e \in Lattice :
      (e \in Edges => {face[e], face[Twin(e)]} \cap Misjudged = {}) =>
        (e \in InRings <=> LeftCell(e) \in Result /\ LeftCell(Twin(e)) \notin Result)

\* An edge of the subdivision is on the boundary just when the cells beside it
\* say so, and one that is not there has the same beside it on both sides.
LEMMA BoundarySo == RingInv => RingsAreBoundary
<1> SUFFICES ASSUME RingInv, Edges # {}, stage \in {"lines", "forward", "backward", "done"}, NEW e \in Lattice,
                    e \in Edges => {face[e], face[Twin(e)]} \cap Misjudged = {}
             PROVE  e \in InRings <=> LeftCell(e) \in Result /\ LeftCell(Twin(e)) \notin Result
  BY DEF RingsAreBoundary
<1> USE DEF RingInv
<1>1. stage \notin Early \cup {"op"} /\ DOMAIN face = Edges /\ input.op \in Ops
  BY RingsAreLate
<1>2. InRings = {x \in Edges : IsBoundary(x)}
  BY ReturnSo DEF RingsReturn
<1>3. ASSUME e \in Edges
      PROVE  IsBoundary(e) <=> LeftCell(e) \in Result /\ LeftCell(Twin(e)) \notin Result
  <2>1. Twin(e) \in Edges /\ face[e] \notin Misjudged /\ face[Twin(e)] \notin Misjudged
    BY <1>3, EdgesOnGrid DEF ResultInv, GridInv
  <2>2. /\ face[e] \in keep <=> LeftCell(e) \in Result
        /\ face[Twin(e)] \in keep <=> LeftCell(Twin(e)) \in Result
    BY <1>1, <1>3, <2>1, KeptIsWanted, WantedOnGrid
  <2> QED
    BY <1>3, <2>2 DEF IsBoundary
<1>4. ASSUME LeftCell(e) \in Result, LeftCell(Twin(e)) \notin Result
      PROVE  e \in Edges
  <2>1. /\ Wanted(LeftCell(e) \in Subj, LeftCell(e) \in Clip)
        /\ ~Wanted(LeftCell(Twin(e)) \in Subj, LeftCell(Twin(e)) \in Clip)
    BY <1>1, <1>4, WantedOnGrid
  <2>2. \/ (LeftCell(e) \in Subj) # (LeftCell(Twin(e)) \in Subj)
        \/ (LeftCell(e) \in Clip) # (LeftCell(Twin(e)) \in Clip)
    BY <2>1
  <2>3. e \in EdgesOf(input.subj, input.clip)
    BY <2>2 DEF EdgesOf, RingEdges, Subj, Clip
  <2> QED
    BY <2>3 DEF ResultInv, GridInv, Built
<1> QED
  BY <1>2, <1>3, <1>4

\* Nothing of the boundary of the result is missing from its rings and nothing
\* else is in them, whatever the operands: collapsed slivers, pinch points and
\* edges that both of them have (result.go:74-165).
THEOREM RingsBoundResult == Spec => []RingsAreBoundary
  BY RingAlways, BoundarySo, PTL

-----------------------------------------------------------------------------
(***************************************************************************)
(* The walks of the lines: an intersection is whole.                       *)
(***************************************************************************)

\* The edges of the lines, with the one that is being walked.
OnLines == UNION {ToSet(l) : l \in lines \cup {chain}}

\* What is walked are the lines, either way; and a call ends with nothing left
\* to harvest, and with the points that no line and no ring passes.
Swept ==
  Edges # {} =>
    /\ stage \in {"lines", "done"} => chain = <<>>
    /\ stage \in {"lines", "forward", "backward"} \/ (stage = "done" /\ ~input.areal) =>
         visited = OnLines \cup {Twin(e) : e \in OnLines}
    /\ stage = "done" /\ ~input.areal =>
         /\ Unharvested = {}
         /\ input.op = "intersection" => points = {v \in Vertices \ Covered : TagsAt(v) = {"subj", "clip"}}

\* An element more on lines.
LEMMA MoreOnLines ==
  ASSUME NEW s \in Seq(Edges), NEW x \in Edges
  PROVE  /\ ToSet(Append(s, x)) = ToSet(s) \cup {x}
         /\ ToSet(<<x>> \o s) = ToSet(s) \cup {x}
<1>1. Len(s) \in Nat /\ DOMAIN s = 1..Len(s)
  OBVIOUS
<1>2. ToSet(Append(s, x)) = ToSet(s) \cup {x}
  <2>1. DOMAIN Append(s, x) = 1..(Len(s) + 1) /\ Append(s, x)[Len(s) + 1] = x /\ \A i \in 1..Len(s) : Append(s, x)[i] = s[i]
    BY AppendIs
  <2>2. Len(s) + 1 \in 1..(Len(s) + 1) /\ \A i \in 1..Len(s) : i \in 1..(Len(s) + 1)
    BY <1>1
  <2>3. \A i \in 1..(Len(s) + 1) : i \in 1..Len(s) \/ i = Len(s) + 1
    BY <1>1
  <2> QED
    BY <1>1, <2>1, <2>2, <2>3 DEF ToSet
<1>3. ToSet(<<x>> \o s) = ToSet(s) \cup {x}
  <2>1. DOMAIN (<<x>> \o s) = 1..(Len(s) + 1) /\ \A i \in 1..(Len(s) + 1) : (<<x>> \o s)[i] = IF i = 1 THEN x ELSE s[i - 1]
    OBVIOUS
  <2>2. 1 \in 1..(Len(s) + 1) /\ \A i \in 1..Len(s) : i + 1 \in 1..(Len(s) + 1) /\ i + 1 # 1 /\ (i + 1) - 1 = i
    BY <1>1
  <2>3. \A i \in 1..(Len(s) + 1) : i = 1 \/ i - 1 \in 1..Len(s)
    BY <1>1
  <2>4. ToSet(<<x>> \o s) \subseteq ToSet(s) \cup {x}
    BY <1>1, <2>1, <2>3 DEF ToSet
  <2>5. \A i \in 1..Len(s) : (<<x>> \o s)[i + 1] = s[i]
    BY <2>1, <2>2
  <2>6. (<<x>> \o s)[1] = x
    BY <2>1, <2>2
  <2>7. ToSet(s) \cup {x} \subseteq ToSet(<<x>> \o s)
    <3> DEFINE w == <<x>> \o s
    <3>1. DOMAIN w = 1..(Len(s) + 1) /\ w[1] = x /\ \A i \in 1..Len(s) : w[i + 1] = s[i]
      BY <2>1, <2>5, <2>6
    <3> HIDE DEF w
    <3>2. \A i \in DOMAIN w : w[i] \in ToSet(w)
      BY DEF ToSet
    <3>3. x \in ToSet(w) /\ \A i \in 1..Len(s) : s[i] \in ToSet(w)
      BY <2>2, <3>1, <3>2
    <3>4. ToSet(s) \cup {x} \subseteq ToSet(w)
      BY <1>1, <3>3 DEF ToSet
    <3> QED
      BY <3>4 DEF w
  <2> QED
    BY <2>4, <2>7
<1> QED
  BY <1>2, <1>3

\* Every step keeps that.
LEMMA SweptKept == ResultInv /\ Swept /\ [Next]_vars => Swept'
<1> SUFFICES ASSUME ResultInv, Swept, [Next]_vars, Edges' # {} PROVE Swept'
  BY DEF Swept
<1>i. ToSet(<<>>) = {}
  BY DEF ToSet
<1> USE DEF ResultInv
<1>1. CASE stage \in Early \cup {"op"}
  <2>1. ~Prepare /\ ~Repair
    BY DEF Prepare, Repair, dcel, Edges, GridInv, Built
  <2>2. stage' \in Early \cup {"op", "rings"}
    BY <1>1, <2>1 DEF Early, Next, vars, Build, TraceFace, Classify, ApplyOp, StartRing, GrowRing,
               CloseRing, Assemble, StartLine, GrowForward, GrowBackward, ExtractPoints, Done
  <2> QED
    BY <2>2 DEF Early, Swept
<1>2. CASE stage \notin Early \cup {"op"}
  <2>1. UNCHANGED <<input, tags, face, inSubj, inClip, keep>> /\ stage' \notin Early \cup {"op"}
    BY <1>2, WhatChanges DEF Early, Classify, ApplyOp
  <2>2. /\ Edges' = Edges /\ Vertices' = Vertices
        /\ \A v : TagsAt(v)' = TagsAt(v)
        /\ \A e : InResult(e)' <=> InResult(e)
    BY <2>1, SameFaces DEF InResult
  <2>e. Edges \subseteq Lattice /\ \A e \in Edges : Twin(e) \in Edges /\ Twin(Twin(e)) = e
    BY EdgesOnGrid, TwinOfTwin DEF GridInv
  <2>3. CASE StartRing \/ GrowRing \/ CloseRing
    <3>1. stage' = "rings"
      BY <2>3 DEF StartRing, GrowRing, CloseRing
    <3> QED
      BY <3>1 DEF Swept
  <2>4. CASE Assemble
    <3>1. /\ stage = "rings" /\ stage' = (IF input.areal THEN "done" ELSE "lines") /\ visited' = {}
          /\ UNCHANGED <<chain, lines, points>>
      BY <2>4 DEF Assemble, rest
    <3>2. chain = <<>> /\ lines = {}
      BY <3>1 DEF Lined, Early
    <3>3. OnLines' = {}
      BY <1>i, <3>1, <3>2 DEF OnLines
    <3> QED
      BY <2>1, <3>1, <3>2, <3>3 DEF Swept
  <2>5. CASE StartLine
    <3> DEFINE e == First(Unharvested)
    <3>1. e \in Edges
      <4>1. Unharvested \in SUBSET Lattice /\ Unharvested # {} /\ Unharvested \subseteq Edges
        BY <2>5, <2>e DEF StartLine, Unharvested
      <4> QED
        BY <4>1, FirstIsIn
    <3>2. /\ stage = "lines" /\ stage' = "forward" /\ chain' = <<e>> /\ visited' = visited \cup {e, Twin(e)} /\ lines' = lines
      BY <2>5 DEF StartLine
    <3> HIDE DEF e
    <3>3. chain = <<>>
      BY <2>2, <3>2 DEF Swept
    <3>4. OnLines' = OnLines \cup {e}
      <4>1. ToSet(<<e>>) = {e}
        BY DEF ToSet
      <4> QED
        BY <1>i, <3>2, <3>3, <4>1 DEF OnLines
    <3> QED
      BY <2>e, <2>2, <3>1, <3>2, <3>4 DEF Swept
  <2>6. CASE GrowForward
    <3> DEFINE e == OnlyWayOn(Last(chain))
    <3>1. stage = "forward" /\ stage' \in {"forward", "backward"} /\ lines' = lines
      BY <2>6 DEF GrowForward
    <3>2. CASE e # Nil
      <4>1. e \in Edges
        BY <3>2, OnlyWayOnIs DEF GridInv
      <4>2. chain' = Append(chain, e) /\ visited' = visited \cup {e, Twin(e)}
        BY <2>6, <3>2 DEF GrowForward
      <4> HIDE DEF e
      <4>3. OnLines' = OnLines \cup {e}
        <5>1. ToSet(chain') = ToSet(chain) \cup {e}
          BY <4>1, <4>2, MoreOnLines DEF GridInv, Walked
        <5> QED
          BY <3>1, <5>1 DEF OnLines
      <4> QED
        BY <2>e, <2>2, <3>1, <4>1, <4>2, <4>3 DEF Swept
    <3>3. CASE e = Nil
      <4>1. UNCHANGED <<chain, visited>>
        BY <2>6, <3>3 DEF GrowForward
      <4>2. OnLines' = OnLines
        BY <3>1, <4>1 DEF OnLines
      <4> QED
        BY <2>2, <3>1, <4>1, <4>2 DEF Swept
    <3> QED
      BY <3>2, <3>3
  <2>7. CASE GrowBackward
    <3> DEFINE e == OnlyWayOn(Twin(chain[1]))
    <3>1. stage = "backward" /\ stage' \in {"backward", "lines"}
      BY <2>7 DEF GrowBackward
    <3>2. CASE e # Nil
      <4>1. e \in Edges
        BY <3>2, OnlyWayOnIs DEF GridInv
      <4>2. chain' = <<Twin(e)>> \o chain /\ visited' = visited \cup {e, Twin(e)} /\ lines' = lines /\ stage' = stage
        BY <2>7, <3>2 DEF GrowBackward
      <4> HIDE DEF e
      <4>3. OnLines' = OnLines \cup {Twin(e)}
        <5>1. ToSet(chain') = ToSet(chain) \cup {Twin(e)}
          BY <2>e, <4>1, <4>2, MoreOnLines DEF GridInv, Walked
        <5> QED
          BY <4>2, <5>1 DEF OnLines
      <4> QED
        BY <2>e, <2>2, <3>1, <4>1, <4>2, <4>3 DEF Swept
    <3>3. CASE e = Nil
      <4>1. visited' = visited /\ lines' = lines \cup {chain} /\ chain' = <<>> /\ stage' = "lines"
        BY <2>7, <3>3 DEF GrowBackward
      <4>2. OnLines' = OnLines
        BY <1>i, <4>1 DEF OnLines
      <4> QED
        BY <2>2, <3>1, <4>1, <4>2 DEF Swept
    <3> QED
      BY <3>2, <3>3
  <2>8. CASE ExtractPoints
    <3>1. /\ stage = "lines" /\ stage' = "done" /\ Unharvested = {} /\ UNCHANGED <<visited, rings, chain, lines>>
          /\ points' = IF input.op = "intersection" THEN {v \in Vertices \ Covered : TagsAt(v) = {"subj", "clip"}} ELSE {}
      BY <2>8 DEF ExtractPoints, areal
    <3>2. OnLines' = OnLines /\ Unharvested' = {} /\ Covered' = Covered
      BY <2>2, <3>1 DEF OnLines, Unharvested, Covered
    <3> QED
      BY <2>1, <2>2, <3>1, <3>2 DEF Swept
  <2>9. CASE UNCHANGED vars
    <3>1. OnLines' = OnLines /\ Unharvested' = Unharvested /\ Covered' = Covered
      BY <2>2, <2>9 DEF OnLines, Unharvested, Covered, vars
    <3> QED
      BY <2>2, <2>9, <3>1 DEF Swept, vars
  <2> QED
    BY <1>2, <2>3, <2>4, <2>5, <2>6, <2>7, <2>8, <2>9
       DEF Next, Done, Early, Prepare, Repair, Build, TraceFace, Classify, ApplyOp
<1> QED
  BY <1>1, <1>2

\* An edge that both operands have is harvested when no cell of the result is
\* beside it, as far as faces are judged right.
LEMMA InBothIsHarvested ==
  ASSUME ResultInv, Edges # {}, input.op = "intersection", stage \notin Early \cup {"op"}, Misjudged = {},
         NEW e \in Lattice, EdgeIn(input.subj, e), EdgeIn(input.clip, e),
         {LeftCell(e), LeftCell(Twin(e))} \cap Result = {}
  PROVE  e \in Edges /\ InResult(e)
<1> DEFINE a == LeftCell(e)
           b == LeftCell(Twin(e))
           f == face[e]
           g == face[Twin(e)]
<1>1. Twin(e) \in Lattice /\ Twin(Twin(e)) = e /\ IsOperand(input.subj) /\ IsOperand(input.clip)
  BY TwinOfTwin, OperandsOnGrid DEF ResultInv, GridInv, CallOK
<1>2. Edges = EdgesOf(input.subj, input.clip)
  BY DEF ResultInv, GridInv, Built
<1>3. ~(a \in Subj /\ a \in Clip) /\ ~(b \in Subj /\ b \in Clip)
  <2>1. Wanted(TRUE, TRUE)
    BY DEF Wanted
  <2>2. Subj \subseteq Cell
    BY <1>1 DEF IsOperand, Subj
  <2> QED
    BY <2>1, <2>2 DEF Result
\* What makes e an edge of an operand: a ring of it there, or area on both sides.
<1>4. /\ e \in RingEdges(input.subj) \/ (a \in Subj /\ b \in Subj)
      /\ e \in RingEdges(input.clip) \/ (a \in Clip /\ b \in Clip)
  <2>1. ASSUME NEW s \in {input.subj, input.clip}, EdgeIn(s, e)
        PROVE  e \in RingEdges(s) \/ (a \in s.cells /\ b \in s.cells)
    <3>1. CASE a \in s.cells \/ b \in s.cells
      BY <3>1 DEF RingEdges
    <3>2. CASE e \in s.spikes \/ Twin(e) \in s.spikes
      BY <1>1, <3>2 DEF RingEdges
    <3> QED
      BY <2>1, <3>1, <3>2 DEF EdgeIn
  <2> QED
    BY <2>1 DEF Subj, Clip
<1>5. e \in Edges
  BY <1>2, <1>3, <1>4 DEF EdgesOf
<1>6. Twin(e) \in Edges /\ DOMAIN face = Edges
  BY <1>5, EdgesOnGrid DEF ResultInv, GridInv, Traced, Early
<1>7. /\ f \in inSubj <=> a \in Subj
      /\ f \in inClip <=> a \in Clip
      /\ g \in inSubj <=> b \in Subj
      /\ g \in inClip <=> b \in Clip
  BY <1>5, <1>6, JudgedSo DEF FacesJudged
<1>8. f \notin keep /\ g \notin keep
  <2>1. input.op \in Ops
    BY DEF Ops
  <2> QED
    BY <1>5, <1>6, <2>1, KeptIsWanted, WantedOnGrid
<1>9. /\ "subj" \in tags[e] <=> e \in RingEdges(input.subj)
      /\ "clip" \in tags[e] <=> e \in RingEdges(input.clip)
      /\ tags[e] \subseteq {"subj", "clip"}
  BY <1>5 DEF ResultInv, Tagged
<1>10. CASE f = g
  <2>1. (f \in inSubj \/ "subj" \in tags[e]) /\ (f \in inClip \/ "clip" \in tags[e])
    BY <1>4, <1>7, <1>9
  <2> QED
    BY <1>5, <1>8, <1>10, <2>1 DEF InResult, Wanted
<1>11. CASE f # g
  <2>1. \/ tags[e] = {"subj", "clip"}
        \/ "subj" \in tags[e] /\ {f, g} \subseteq inClip
        \/ "clip" \in tags[e] /\ {f, g} \subseteq inSubj
    BY <1>3, <1>4, <1>7, <1>9
  <2> QED
    BY <1>5, <1>8, <1>11, <2>1 DEF InResult
<1> QED
  BY <1>5, <1>10, <1>11

\* A point of an operand is on a ring of it, or has its area all around.
LEMMA RingOrInside ==
  ASSUME NEW s, IsOperand(s), NEW v \in Points, PointIn(s, v)
  PROVE  \/ \E d \in {0, 1, 2, 3} : <<v[1], v[2], d>> \in RingEdges(s)
         \/ \A d \in {0, 1, 2, 3} : Sector(v, d) \in s.cells
<1> SUFFICES ASSUME \A d \in {0, 1, 2, 3} : <<v[1], v[2], d>> \notin RingEdges(s)
             PROVE  \A d \in {0, 1, 2, 3} : Sector(v, d) \in s.cells
  OBVIOUS
<1>1. PICK e \in Lattice : Origin(e) = v /\ EdgeIn(s, e)
  BY DEF PointIn
<1>2. PICK d \in {0, 1, 2, 3} : e = <<v[1], v[2], d>>
  BY <1>1, OnGrid DEF Origin
<1>3. Twin(e) \in Lattice /\ Twin(Twin(e)) = e
  BY TwinOfTwin
<1>4. e \notin s.spikes /\ Twin(e) \notin s.spikes
  BY <1>2, <1>3 DEF RingEdges
<1>5. LeftCell(e) \in s.cells \/ LeftCell(Twin(e)) \in s.cells
  BY <1>1, <1>4 DEF EdgeIn
<1>6. LeftCell(e) \in s.cells
  BY <1>2, <1>5 DEF RingEdges
<1>7. Sector(v, d) \in s.cells
  BY <1>2, <1>6 DEF Sector
<1>8. \A c \in {0, 1, 2, 3} : Sector(v, c) \in s.cells <=> Sector(v, (c + 3) % 4) \in s.cells
  BY NothingBetween
<1>9. /\ Sector(v, 0) \in s.cells <=> Sector(v, 3) \in s.cells
      /\ Sector(v, 1) \in s.cells <=> Sector(v, 0) \in s.cells
      /\ Sector(v, 2) \in s.cells <=> Sector(v, 1) \in s.cells
  <2>1. (0 + 3) % 4 = 3 /\ (1 + 3) % 4 = 0 /\ (2 + 3) % 4 = 1
    OBVIOUS
  <2> QED
    BY <1>8, <2>1
<1> QED
  BY <1>7, <1>9

\* The edges both operands have, and the points where they only meet.
EdgesOfBoth == {e \in Lattice : EdgeIn(input.subj, e) /\ EdgeIn(input.clip, e)}
PointsOfBoth ==
  {v \in Points : /\ PointIn(input.subj, v) /\ PointIn(input.clip, v)
                  /\ v \notin {Origin(e) : e \in EdgesOfBoth}}
BesideResult(e) == {LeftCell(e), LeftCell(Twin(e))} \cap Result # {}

\* Where the operands only meet in a point, there are edges of both.
LEMMA MeetingPointIsVertex ==
  ASSUME ResultInv, Edges # {}, NEW v \in PointsOfBoth
  PROVE  v \in Vertices /\ TagsAt(v) = {"subj", "clip"}
<1>1. IsOperand(input.subj) /\ IsOperand(input.clip) /\ Edges = EdgesOf(input.subj, input.clip)
  BY OperandsOnGrid DEF ResultInv, GridInv, CallOK, Built
<1>2. v = <<v[1], v[2]>> /\ v \in Points
  BY DEF PointsOfBoth, Points
<1>3. ASSUME NEW s, NEW t, {s, t} = {input.subj, input.clip}
      PROVE  \E d \in {0, 1, 2, 3} : <<v[1], v[2], d>> \in RingEdges(s)
  <2>1. PointIn(s, v) /\ PointIn(t, v) /\ IsOperand(s)
    BY <1>1, <1>3 DEF PointsOfBoth
  <2> SUFFICES ASSUME \A d \in {0, 1, 2, 3} : Sector(v, d) \in s.cells PROVE FALSE
    BY <1>2, <2>1, RingOrInside
  <2>2. PICK e \in Lattice : Origin(e) = v /\ EdgeIn(t, e)
    BY <2>1 DEF PointIn
  <2>3. PICK d \in {0, 1, 2, 3} : e = <<v[1], v[2], d>>
    BY <2>2, OnGrid DEF Origin
  <2>4. LeftCell(e) \in s.cells
    BY <2>3 DEF Sector
  <2>5. EdgeIn(s, e)
    BY <2>4 DEF EdgeIn
  <2>6. e \in EdgesOfBoth
    BY <1>3, <2>2, <2>5 DEF EdgesOfBoth
  <2> QED
    BY <2>2, <2>6 DEF PointsOfBoth
<1>4. PICK a \in RingEdges(input.subj) : Origin(a) = v
  <2>1. PICK d \in {0, 1, 2, 3} : <<v[1], v[2], d>> \in RingEdges(input.subj)
    BY <1>3
  <2> QED
    BY <1>2, <2>1 DEF Origin
<1>5. PICK b \in RingEdges(input.clip) : Origin(b) = v
  <2>1. PICK d \in {0, 1, 2, 3} : <<v[1], v[2], d>> \in RingEdges(input.clip)
    BY <1>3
  <2> QED
    BY <1>2, <2>1 DEF Origin
<1>6. a \in Edges /\ b \in Edges
  BY <1>1 DEF EdgesOf
<1>7. "subj" \in tags[a] /\ "clip" \in tags[b] /\ \A e \in Edges : tags[e] \subseteq {"subj", "clip"}
  BY <1>6 DEF ResultInv, Tagged
<1> QED
  BY <1>4, <1>5, <1>6, <1>7 DEF Vertices, TagsAt

\* An intersection is whole: its lines are the edges that both operands have
\* and no cell of the result is beside; where the operands only meet in a
\* point, it has that point; and its other points are on the edge of or within
\* its polygons.
IntersectionIsWhole ==
  stage = "done" /\ Edges # {} /\ ~input.areal /\ input.op = "intersection" /\ Misjudged = {} =>
    /\ OnLines \cup {Twin(e) : e \in OnLines} = {e \in EdgesOfBoth : ~BesideResult(e)}
    /\ PointsOfBoth \subseteq points
    /\ \A v \in points \ PointsOfBoth : \E e \in Lattice : Origin(e) = v /\ BesideResult(e)

\* The invariants of the walks give that.
LEMMA WholeSo == RingInv /\ Swept => IntersectionIsWhole
<1> SUFFICES ASSUME RingInv, Swept, stage = "done", Edges # {}, ~input.areal, input.op = "intersection", Misjudged = {}
             PROVE  IntersectionIsWhole
  BY DEF IntersectionIsWhole
<1> USE DEF RingInv
<1> DEFINE walked == OnLines \cup {Twin(e) : e \in OnLines}
<1>1. /\ visited = walked /\ Unharvested = {} /\ chain = <<>>
      /\ points = {v \in Vertices \ Covered : TagsAt(v) = {"subj", "clip"}}
  BY DEF Swept
<1>2. /\ Edges \subseteq Lattice /\ \A e \in Edges : Twin(e) \in Edges
      /\ \A e \in Lattice : Twin(e) \in Lattice /\ Twin(Twin(e)) = e
      /\ DOMAIN face = Edges /\ stage \notin Early \cup {"op"} /\ input.op \in Ops
  BY EdgesOnGrid, TwinOfTwin, RingsAreLate DEF ResultInv, GridInv
<1>3. OnLines = UNION {ToSet(l) : l \in lines} /\ OnLines \subseteq Edges
  <2>1. ToSet(<<>>) = {}
    BY DEF ToSet
  <2>2. \A l \in lines : ToSet(l) \subseteq Edges
    BY DEF ResultInv, GridInv, Walked, ToSet
  <2> QED
    BY <1>1, <2>1, <2>2 DEF OnLines
<1>4. walked = {e \in EdgesOfBoth : ~BesideResult(e)}
  <2>1. ASSUME NEW e \in OnLines
        PROVE  e \in EdgesOfBoth /\ Twin(e) \in EdgesOfBoth /\ ~BesideResult(e) /\ ~BesideResult(Twin(e))
    <3>1. PICK l \in lines : e \in ToSet(l)
      BY <1>3
    <3>2. EdgeIn(input.subj, e) /\ EdgeIn(input.clip, e) /\ {LeftCell(e), LeftCell(Twin(e))} \cap Result = {}
      BY <3>1, InBothSo DEF IntersectionInBoth
    <3>3. e \in Lattice /\ Twin(e) \in Lattice /\ Twin(Twin(e)) = e
      BY <1>2, <1>3
    <3> QED
      BY <3>2, <3>3, SameBothWays DEF EdgesOfBoth, BesideResult
  <2>2. ASSUME NEW e \in EdgesOfBoth, ~BesideResult(e)
        PROVE  e \in walked
    <3>1. e \in Edges /\ InResult(e)
      BY <1>2, <2>2, InBothIsHarvested DEF EdgesOfBoth, BesideResult
    <3> QED
      BY <1>1, <3>1 DEF Unharvested
  <2> QED
    BY <2>1, <2>2
<1>5. PointsOfBoth \subseteq points
  <2> SUFFICES ASSUME NEW v \in PointsOfBoth, v \in Covered PROVE FALSE
    BY <1>1, MeetingPointIsVertex
  <2>1. \A e \in EdgesOfBoth : Twin(e) \in EdgesOfBoth
    BY <1>2, SameBothWays DEF EdgesOfBoth
  <2>2. \A e \in EdgesOfBoth : Origin(e) # v /\ Target(e) # v
    <3>1. \A e \in EdgesOfBoth : Origin(e) # v
      BY DEF PointsOfBoth
    <3>2. \A e \in Lattice : Origin(Twin(e)) = Target(e)
      BY OnGrid DEF Origin, Twin
    <3> QED
      BY <2>1, <3>1, <3>2 DEF EdgesOfBoth
  <2>3. \A l \in lines : v \notin PointsOf(l)
    <3>1. \A l \in lines : ToSet(l) \subseteq EdgesOfBoth
      BY <1>3, <1>4
    <3> QED
      BY <2>2, <3>1 DEF PointsOf
  <2>4. \A i \in DOMAIN rings : v \notin PointsOf(rings[i])
    <3> SUFFICES ASSUME NEW i \in DOMAIN rings, NEW e \in ToSet(rings[i]) PROVE Origin(e) # v /\ Target(e) # v
      BY DEF PointsOf
    <3>1. LeftCell(e) \in Result /\ e \in Lattice
      <4>1. e \in Edges /\ LeftCell(e) \in Result
        BY BorderSo DEF ResultInv, Bordered, IsBoundary, RingsBorder
      <4> QED
        BY <1>2, <4>1
    <3>2. LeftCell(e) \in Subj /\ LeftCell(e) \in Clip
      BY <3>1 DEF Result, Wanted
    <3>3. e \in EdgesOfBoth
      BY <3>1, <3>2 DEF EdgesOfBoth, EdgeIn, Subj, Clip
    <3> QED
      BY <2>2, <3>3
  <2> QED
    BY <2>3, <2>4 DEF Covered
<1>6. ASSUME NEW v \in points, v \notin PointsOfBoth
      PROVE  \E e \in Lattice : Origin(e) = v /\ BesideResult(e)
  <2>1. PointIn(input.subj, v) /\ PointIn(input.clip, v)
    BY InBothSo DEF IntersectionInBoth
  <2>2. v \in Points
    <3>1. PICK e \in Edges : v = Origin(e)
      BY <1>1 DEF Vertices
    <3> QED
      BY <1>2, <3>1, OnGrid DEF Origin, Points
  <2>3. PICK e \in EdgesOfBoth : Origin(e) = v
    BY <1>6, <2>1, <2>2 DEF PointsOfBoth
  <2>4. BesideResult(e)
    <3> SUFFICES ASSUME ~BesideResult(e) PROVE FALSE
      OBVIOUS
    <3>1. e \in walked /\ v \notin Covered
      BY <1>1, <1>4
    <3>2. CASE e \in OnLines
      <4>1. PICK l \in lines : e \in ToSet(l)
        BY <1>3, <3>2
      <4>2. Origin(e) \in PointsOf(l)
        BY <4>1 DEF PointsOf
      <4> QED
        BY <2>3, <3>1, <4>2 DEF Covered
    <3>3. CASE \E x \in OnLines : e = Twin(x)
      <4>1. PICK x \in OnLines : e = Twin(x)
        BY <3>3
      <4>2. PICK l \in lines : x \in ToSet(l)
        BY <1>3
      <4>3. Target(x) = v
        <5>1. x \in Lattice
          BY <1>2, <1>3
        <5> QED
          BY <2>3, <4>1, <5>1, OnGrid DEF Origin, Twin
      <4>4. Target(x) \in PointsOf(l)
        BY <4>2 DEF PointsOf
      <4> QED
        BY <3>1, <4>3, <4>4 DEF Covered
    <3> QED
      BY <3>1, <3>2, <3>3
  <2> QED
    BY <2>3, <2>4 DEF EdgesOfBoth
<1> QED
  BY <1>4, <1>5, <1>6 DEF IntersectionIsWhole

\* So it is in every state.
LEMMA SweptAlways == Spec => []Swept
<1>1. Init => Swept
  BY DEF Init, Edges, Swept
<1>2. ResultInv /\ Swept /\ [Next]_vars => Swept'
  BY SweptKept
<1> QED
  BY <1>1, <1>2, ResultAlways, PTL DEF Spec

\* Nothing that both operands have is missing from an intersection: no line is
\* left behind where walks meet or stop, and a point where the operands touch
\* is answered even when it is in no polygon and on no line
\* (extract_lineal.go:60-238).
THEOREM NothingMissing == Spec => []IntersectionIsWhole
  BY RingAlways, SweptAlways, WholeSo, PTL
=============================================================================
