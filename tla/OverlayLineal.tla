---------------------------- MODULE OverlayLineal ----------------------------
(***************************************************************************)
(* internal/overlayng/overlay_lineal.go: an overlay of lines and points    *)
(* with a tolerance.  Lines are led through the cells they pass and noded, *)
(* pass after pass, until no vertex is new; then every edge is kept or not *)
(* by the operands that run along it, and the kept ones are joined.        *)
(*                                                                         *)
(* The odd lines are the first operand, the even ones the second, and a    *)
(* line with one vertex is a point.                                        *)
(***************************************************************************)
EXTENDS LineGraph, SnapGrid

VARIABLES segs,       \* the lines in pieces, the tag being the operand
          hotPixels,  \* the cells lines are led through
          round,      \* passes done
          overlaid    \* nothing, or the answer: [lines, points]

linealVars == <<segs, hotPixels, round, overlaid>>

LinealInit == segs = <<>> /\ hotPixels = {} /\ round = 0 /\ overlaid = <<>>

OperandOf(l) == 2 - (l % 2)

SnapVertex(p) == Rounded(Tolerance, Whole(p))

\* extractLinealOperand: both operands, points apart.
LineOperands ==
    LET kept == SelectSeq([l \in LineIds |-> Str(WithoutRepeats(lines[l]), OperandOf(l))], LAMBDA s : Len(s.coords) >= 2)
    IN  SelectSeq(kept, LAMBDA s : s.tag = 1) \o SelectSeq(kept, LAMBDA s : s.tag = 2)

PointOperands(tag) == {FirstOf(l) : l \in {l \in LineIds : Len(lines[l]) = 1 /\ OperandOf(l) = tag}}

SnapPoints(tag) == {SnapVertex(p) : p \in PointOperands(tag)}

-----------------------------------------------------------------------------
(***************************************************************************)
(* Splits at cells without their boundary.                                 *)
(***************************************************************************)
Frac(n, d) == [n |-> n, d |-> d]
Less(s, t) == s.n * t.d < t.n * s.d
Later(s, t) == IF Less(s, t) THEN t ELSE s
Earlier(s, t) == IF Less(s, t) THEN s ELSE t

\* One slab of segmentIntersectsCell: where a segment enters and leaves it.
Slab(a, b, c, i) ==
    LET low == c[i] - Half
        high == c[i] + Half
        d == b[i] - a[i]
    IN  IF d = 0 THEN [enter |-> Frac(IF a[i] <= low \/ a[i] >= high THEN 1 ELSE 0, 1), leave |-> Frac(1, 1)]
        ELSE IF d > 0 THEN [enter |-> Frac(low - a[i], d), leave |-> Frac(high - a[i], d)]
        ELSE [enter |-> Frac(a[i] - high, -d), leave |-> Frac(a[i] - low, -d)]

Enters(a, b, c) == Later(Frac(0, 1), Later(Slab(a, b, c, 1).enter, Slab(a, b, c, 2).enter))
Leaves(a, b, c) == Earlier(Frac(1, 1), Earlier(Slab(a, b, c, 1).leave, Slab(a, b, c, 2).leave))

SegmentIntersectsCell(a, b, c) == Less(Enters(a, b, c), Leaves(a, b, c))

\* segmentRectSplits: the cells a segment enters on its way, in that order.
SegmentRectSplits(a, b, cells) ==
    LET hit == {c \in QuerySegment(cells, a, b) \ {a, b} : SegmentIntersectsCell(a, b, c) /\ Enters(a, b, c).n > 0}
        sorted == InOrder({[t |-> Enters(a, b, c), at |-> c] : c \in hit})
    IN  [k \in DOMAIN sorted |-> sorted[k].at]

\* snapRoundSegments: led by the way of the segment as it was given.
SnapRoundSegments(strings, cells) ==
    LET splits(a, b) == SelectSeq(SegmentRectSplits(a, b, cells), LAMBDA c : c \notin {SnapVertex(a), SnapVertex(b)})
        led(pts) == Threaded([k \in DOMAIN pts |-> SnapVertex(pts[k])],
                             [i \in 1..(Len(pts) - 1) |-> splits(pts[i], pts[i + 1])])
    IN  SelectSeq([k \in DOMAIN strings |-> Str(led(strings[k].coords), strings[k].tag)], LAMBDA s : Len(s.coords) >= 2)

InsertHotPixelSplitsRect(strings, cells) ==
    LET led(pts) == Threaded(pts, [i \in 1..(Len(pts) - 1) |-> SegmentRectSplits(pts[i], pts[i + 1], cells)])
    IN  [k \in DOMAIN strings |->
            IF Len(strings[k].coords) < 2 THEN strings[k] ELSE Str(led(strings[k].coords), strings[k].tag)]

-----------------------------------------------------------------------------
(***************************************************************************)
(* Passes.  Giving up after the last of them is not reported.              *)
(***************************************************************************)
MaxRounds == 4

LinealStart ==
    /\ overlaid = <<>> /\ round = 0
    /\ hotPixels' = {SnapVertex(p) : p \in PixelsOf(SimpleNode(LineOperands, Tolerance))} \cup SnapPoints(1) \cup SnapPoints(2)
    /\ segs' = SnapRoundSegments(LineOperands, hotPixels')
    /\ round' = 1 /\ UNCHANGED <<lines, overlaid>>

LinealPass ==
    /\ overlaid = <<>> /\ round \in 1..MaxRounds
    /\ LET again == SnapAndDedupe(SimpleNode(segs, Tolerance))
           cells == hotPixels \cup PixelsOf(again)
           split == InsertHotPixelSplitsRect(again, cells)
       IN  /\ segs' = split /\ hotPixels' = cells
           /\ round' = IF cells = hotPixels /\ split = again THEN MaxRounds + 1 ELSE round + 1
    /\ UNCHANGED <<lines, overlaid>>

-----------------------------------------------------------------------------
(***************************************************************************)
(* The edges of the answer, and its points.                                *)
(***************************************************************************)
EdgesOf(s) == [i \in 1..(Len(s.coords) - 1) |-> {s.coords[i], s.coords[i + 1]}]

\* All edges, in the order first seen.
EdgeOrder ==
    FoldLeft(LAMBDA seen, e : IF e \in ToSet(seen) \/ Cardinality(e) = 1 THEN seen ELSE Append(seen, e),
             <<>>, FlattenSeq([k \in DOMAIN segs |-> EdgesOf(segs[k])]))

TagsOfEdge(e) == {segs[k].tag : k \in {k \in DOMAIN segs : e \in ToSet(EdgesOf(segs[k]))}}

Weight(p) == FoldLeft(LAMBDA sum, e : IF p \in e THEN sum + Cardinality(TagsOfEdge(e)) ELSE sum, 0, EdgeOrder)

WantedTags(op) ==
    CASE op = "intersection" -> {{1, 2}}
      [] op = "union" -> {{1}, {2}, {1, 2}}
      [] op = "difference" -> {{1}}
      [] op = "symdiff" -> {{1}, {2}}

Kept(op) == SelectSeq(EdgeOrder, LAMBDA e : TagsOfEdge(e) \in WantedTags(op))

\* One more edge at the end of a chain, through a vertex that nothing else
\* comes to.
OneLonger(kept, acc) ==
    LET tail == Last(acc.chain)
        ways == {e \in ToSet(kept) \ acc.used : tail \in e}
    IN  IF Weight(tail) = 2 /\ Cardinality(ways) = 1
        THEN [chain |-> Append(acc.chain, CHOOSE p \in UNION ways : p # tail), used |-> acc.used \cup ways]
        ELSE acc

Grown(kept, acc) == FoldLeft(LAMBDA a, e : OneLonger(kept, a), acc, kept)

Mirrored(acc) == [acc EXCEPT !.chain = Reverse(@)]

\* stitchEdgesXYAtNodes.
Stitched(kept) ==
    LET ends(e) == <<LeastPoint(e), CHOOSE p \in e : p # LeastPoint(e)>>
        grown(acc, e) == Mirrored(Grown(kept, Mirrored(Grown(kept, [chain |-> ends(e), used |-> acc.used \cup {e}]))))
        add(acc, e) == IF e \in acc.used THEN acc
                       ELSE LET g == grown(acc, e) IN [used |-> g.used, out |-> Append(acc.out, g.chain)]
    IN  FoldLeft(add, [used |-> {}, out |-> <<>>], kept).out

PointTags(p) == {tag \in {1, 2} : p \in SnapPoints(tag)}

VertexTags(p) == PointTags(p) \cup {segs[k].tag : k \in {k \in DOMAIN segs : p \in ToSet(segs[k].coords)}}

\* pointOnOriginalLine: a point that became p was on a line of the other side.
PointOnOriginalLine(p, tag) ==
    \E q \in PointOperands(tag), s \in ToSet(LineOperands) :
        SnapVertex(q) = p /\ s.tag # tag /\ \E g \in SegmentsOf(s.coords) : OnSegment(q, g[1], g[2])

ResultPoints(op) ==
    LET free == (SnapPoints(1) \cup SnapPoints(2) \cup PixelsOf(segs)) \ UNION ToSet(Kept(op))
        fused(p, tag) == PointTags(p) = {tag} /\ VertexTags(p) = {1, 2}
    IN  CASE op = "intersection" ->
               {p \in free : VertexTags(p) = {1, 2} /\ \A tag \in {1, 2} : fused(p, tag) => PointOnOriginalLine(p, tag)}
          [] op = "union" -> free \cap (SnapPoints(1) \cup SnapPoints(2))
          [] op = "difference" ->
               {p \in free \cap SnapPoints(1) : VertexTags(p) = {1} \/ (fused(p, 1) /\ ~PointOnOriginalLine(p, 1))}
          [] op = "symdiff" -> {p \in free : \E tag \in {1, 2} : p \in SnapPoints(tag) /\ VertexTags(p) = {tag}}

\* assembleLinealMixed: the members, points before lines.
Member(type, ls, ps) == [type |-> type, lines |-> ls, points |-> ps]

AssembleLinealMixed(ls, ps) ==
    LET pointal == Member(IF Cardinality(ps) = 1 THEN "Point" ELSE "MultiPoint", <<>>, ps)
        lineal == Member(IF Len(ls) = 1 THEN "LineString" ELSE "MultiLineString", ls, {})
    IN  IF ls = <<>> /\ ps = {} THEN <<Member("LineString", <<>>, {})>>
        ELSE (IF ps = {} THEN <<>> ELSE <<pointal>>) \o (IF ls = <<>> THEN <<>> ELSE <<lineal>>)

LinealFinish(op) ==
    /\ overlaid = <<>> /\ round > MaxRounds
    /\ overlaid' = AssembleLinealMixed(Stitched(Kept(op)), ResultPoints(op))
    /\ UNCHANGED <<lines, segs, hotPixels, round>>

LinealOver == overlaid # <<>>

=============================================================================
