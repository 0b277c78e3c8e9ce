--------------------------- MODULE MCOverlayGrid ----------------------------
(* Small polygons with holes, pinch points, shared edges and spikes. *)
EXTENDS OverlayGrid

Area(c) == [cells |-> c, spikes |-> {}]
Spiked(c, s) == [cells |-> c, spikes |-> s]

Square == (0..2) \X (0..2)

MCSubj ==
  {Area(Square),
   Area(Square \ {<<1, 1>>}),                      \* a hole
   Area({<<0, 0>>, <<1, 1>>, <<2, 2>>}),           \* three squares in a row
   Area(Square \ {<<1, 1>>, <<2, 2>>}),            \* pinched onto its hole
   Area({<<0, 0>>, <<1, 0>>, <<2, 0>>, <<0, 1>>, <<0, 2>>}),
   Spiked({<<0, 0>>, <<0, 1>>}, {<<1, 1, 1>>, <<2, 1, 1>>}),
   Spiked({<<0, 0>>, <<1, 0>>, <<2, 0>>}, {<<1, 1, 2>>, <<1, 2, 1>>})}

(* Spikes that point inwards: in one operand only. *)
Slit == Spiked(Square, {<<0, 1, 1>>, <<1, 1, 1>>})

MCClip ==
  MCSubj \cup
  {Area({<<1, 1>>}), Area({<<2, 2>>}),
   Area({<<0, 1>>, <<1, 0>>, <<2, 1>>, <<1, 2>>}),
   Area({<<1, 1>>, <<2, 1>>, <<1, 2>>, <<2, 2>>}),
   Area({<<0, 2>>, <<1, 2>>, <<2, 2>>})}

(* A multipolygon whose second polygon is an island in the hole of the     *)
(* first: valid, and disjoint from the other operand.                      *)
Donut == ((0..4) \X (0..4)) \ ((1..3) \X (1..3))

MCIsland ==
  {[op |-> "union", subj |-> Area(Donut \cup {<<2, 2>>}), clip |-> Area({<<6, 0>>}), drawn |-> <<>>, areal |-> FALSE]}

(* Boxes drawn two units to the cell; every point on the way is a vertex. *)
Dense(corners) ==
  LET step(u, v) == IF u < v THEN 1 ELSE IF u > v THEN -1 ELSE 0
      distance(a, b) == (b[1] - a[1]) * step(a[1], b[1]) + (b[2] - a[2]) * step(a[2], b[2])
      side(a, b) == [k \in 1..distance(a, b) |-> <<a[1] + (k - 1) * step(a[1], b[1]), a[2] + (k - 1) * step(a[2], b[2])>>]
      sides == [i \in 1..(Len(corners) - 1) |-> side(corners[i], corners[i + 1])]
  IN  FlattenSeq(sides) \o <<corners[1]>>

Box(x1, y1, x2, y2) == Dense(<<<<x1, y1>>, <<x2, y1>>, <<x2, y2>>, <<x1, y2>>, <<x1, y1>>>>)

Whole == <<Box(0, 0, 6, 6)>>
Framed == <<Box(0, 0, 6, 6), Box(2, 2, 4, 4)>>
Narrow == <<Box(0, 0, 6, 6), Box(3, 1, 4, 5)>>                         \* the hole becomes a slit
Pinhole == <<Box(0, 0, 6, 6), Box(1, 1, 2, 2), Box(3, 3, 5, 5)>>      \* one hole is dropped
Slot == <<Box(0, 0, 6, 6), Box(1, 1, 3, 5)>>                           \* the hole touches the shell
Sliver == <<Box(2, 0, 2, 6)>>
Speck == <<Box(1, 1, 2, 2)>>
Flag == <<Dense(<<<<0, 0>>, <<4, 0>>, <<4, 4>>, <<2, 4>>, <<2, 6>>, <<2, 4>>, <<0, 4>>, <<0, 0>>>>)>>
Left == <<Box(0, 0, 3, 6)>>
Right == <<Box(4, 0, 6, 6)>>
Corner == <<Box(1, 3, 3, 5)>>

Drawings == {<<Whole>>, <<Framed>>, <<Pinhole>>, <<Slot>>, <<Sliver>>, <<Speck>>, <<Flag>>, <<Speck, Pinhole>>, <<Corner>>}

(* Edges inside the area in one operand only: where both have some, the    *)
(* vertices they share become points of an intersection, area or not.      *)
Slitted == {<<Narrow>>, <<Left, Right>>, <<Slot, Corner>>, <<Sliver, Pinhole>>, <<Speck, Left, Narrow>>}

MCPrepared ==
  {[op |-> o, subj |-> Area({}), clip |-> Area({}), drawn |-> <<s, c>>, areal |-> a] :
     o \in Ops, s \in Drawings \cup Slitted, c \in Drawings, a \in BOOLEAN}

(* Polygons to repair: holes that cross their shell or run along it, a     *)
(* shell that visits a vertex twice, polygons with a common edge.          *)
Sized(x1, y1, x2, y2) == <<<<x1, y1>>, <<x2, y1>>, <<x2, y2>>, <<x1, y2>>, <<x1, y1>>>>

Bow == <<<<0, 0>>, <<2, 0>>, <<2, 2>>, <<4, 2>>, <<4, 4>>, <<2, 4>>, <<2, 2>>, <<0, 2>>, <<0, 0>>>>
Chain == <<<<0, 0>>, <<2, 0>>, <<2, 2>>, <<4, 2>>, <<4, 4>>, <<6, 4>>, <<6, 6>>, <<4, 6>>, <<4, 4>>, <<2, 4>>,
           <<2, 2>>, <<0, 2>>, <<0, 0>>>>
Crossed == <<Sized(0, 0, 4, 6), Sized(2, 2, 6, 4)>>
Parted == <<Sized(0, 2, 6, 4), Sized(2, 0, 4, 6)>>
Bitten == <<Sized(0, 0, 6, 6), Sized(0, 2, 2, 4)>>
Tangled == <<Sized(0, 0, 6, 6), Sized(2, 2, 4, 4), Sized(2, 0, 4, 2)>>
Plain == <<Sized(0, 0, 6, 6), Sized(2, 2, 4, 4)>>

MCRepaired ==
  {[op |-> "repair", subj |-> Area({}), clip |-> Area({}), drawn |-> <<<<p>>>>, areal |-> TRUE] :
     p \in {<<Bow>>, <<Chain>>, Crossed, Parted, Bitten, Tangled, Plain}}
  \cup
  {[op |-> "canonicalize", subj |-> Area({}), clip |-> Area({}), drawn |-> <<ps>>, areal |-> TRUE] :
     ps \in {<<Plain>>, <<<<Bow>>, <<>>>>, <<<<>>, <<Sized(0, 0, 2, 4)>>, <<Sized(2, 0, 4, 4)>>>>,
             <<<<Bow>>, <<Sized(4, 0, 6, 2)>>>>, <<<<Sized(0, 0, 2, 4)>>, <<Sized(2, 0, 4, 4)>>>>,
             <<<<Sized(0, 0, 2, 4)>>, <<Sized(2, 2, 4, 6)>>>>, <<<<Sized(0, 0, 2, 2)>>, <<Sized(2, 2, 4, 4)>>>>,
             <<Bitten, <<Sized(0, 2, 2, 4)>>>>}}

MCInputs ==
  MCPrepared \cup MCRepaired \cup
  [op : {"intersection", "union", "difference", "symdiff"},
   subj : MCSubj \cup {Slit}, clip : MCClip, drawn : {<<>>}, areal : {FALSE}]
=============================================================================
