---------------------------- MODULE OverlayDriver ----------------------------
(***************************************************************************)
(* internal/overlayng/overlay.go: what is done to the operands before they *)
(* become a subdivision, and to polygons whose rings touch.  A polygon is  *)
(* a sequence of closed rings, its shell first, and the empty one has no   *)
(* ring; an operand is a list of rings with the number of rings that each  *)
(* of its polygons has.                                                    *)
(***************************************************************************)
EXTENDS SnapGrid

\* snapAndPartition and snapAllRings: a hole that collapses is dropped, and a
\* polygon whose shell does.
SnapAndPartition(polys) ==
    LET kept == SelectSeq([i \in DOMAIN polys |-> SnapPolygon(polys[i])], LAMBDA p : p # <<>>)
    IN  [rings |-> FlattenSeq(kept), perPoly |-> [i \in DOMAIN kept |-> Len(kept[i])]]

\* hotPixelRoundCombined, for one of the operands.
HotPixelRound(operand, pixels) ==
    LET noded == [k \in DOMAIN operand.rings |-> NodeRing(pixels, operand.rings[k])]
    IN  [operand EXCEPT !.rings = SelectSeq(noded, LAMBDA r : r # <<>>)]

IsNothing(operands) == operands[1].rings = <<>> \/ operands[2].rings = <<>>

RoundedTogether(operands) ==
    LET pixels == UNION {ToSet(r) : r \in ToSet(operands[1].rings \o operands[2].rings)}
    IN  IF IsNothing(operands) THEN operands ELSE [i \in {1, 2} |-> HotPixelRound(operands[i], pixels)]

\* The operands of an overlay with a tolerance.
Prepared(polys) == RoundedTogether([i \in {1, 2} |-> SnapAndPartition(polys[i])])

\* The rings of the polygon i of an operand, by the counts.
RingsOf(operand, i) ==
    LET before == FoldLeft(LAMBDA sum, n : sum + n, 0, SubSeq(operand.perPoly, 1, i - 1))
    IN  SubSeq(operand.rings, before + 1, before + operand.perPoly[i])

\* Whether a point off all rings is in an operand.
IsIn(p, operand) ==
    \E i \in DOMAIN operand.perPoly :
        LET rings == RingsOf(operand, i)
        IN  /\ PointInRing(p, rings[1]) = Interior
            /\ \A k \in 2..Len(rings) : PointInRing(p, rings[k]) = Exterior

Runs(p, q, rings) == \E r \in rings : \E g \in SegmentsOf(r) : OnSegment(p, g[1], g[2]) /\ OnSegment(q, g[1], g[2])

-----------------------------------------------------------------------------
(***************************************************************************)
(* Rings that touch.                                                       *)
(***************************************************************************)
OpenRing(ring) == IF ring[1] = Last(ring) THEN Front(ring) ELSE ring

RingRepeatsInteriorVertex(ring) ==
    Len(ring) >= 5 /\ Cardinality(ToSet(OpenRing(ring))) < Len(OpenRing(ring))

PointOnSegmentInterior(p, a, b) == p \notin {a, b} /\ OnSegment(p, a, b)

SegmentsCrossProper(a, b, c, d) ==
    /\ Orient(a, b, c) * Orient(a, b, d) = -1
    /\ Orient(c, d, a) * Orient(c, d, b) = -1

\* A vertex of x lies inside a segment of y, of which it is no vertex.
RunsInto(x, y) ==
    \E v \in ToSet(x) \ ToSet(y) : \E g \in SegmentsOf(y) : PointOnSegmentInterior(v, g[1], g[2])

Touch(x, y) == RunsInto(x, y) \/ RunsInto(y, x)

UnorderedSegments(ring) == {{g[1], g[2]} : g \in SegmentsOf(ring)}

\* needsCanonicalize: a shell that visits a vertex twice, a hole and its
\* shell, or two shells, where one runs into the other, or two shells with
\* the same edge.
NeedsCanonicalize(polys) ==
    \/ \E p \in ToSet(polys) : RingRepeatsInteriorVertex(p[1])
    \/ \E p \in ToSet(polys) : \E k \in 2..Len(p) : Touch(p[1], p[k])
    \/ \E i, j \in DOMAIN polys :
        /\ i < j
        /\ Touch(polys[i][1], polys[j][1]) \/ UnorderedSegments(polys[i][1]) \cap UnorderedSegments(polys[j][1]) # {}

\* One vertex of splitSelfTouchingRing: seen before, it closes a loop.
PopLoop(acc, v) ==
    LET at == SelectInSeq(acc.stack, LAMBDA p : p = v)
        loop == SubSeq(acc.stack, at, Len(acc.stack)) \o <<v>>
    IN  IF at = 0 THEN [acc EXCEPT !.stack = Append(@, v)]
        ELSE [stack |-> SubSeq(acc.stack, 1, at),
              loops |-> IF Len(loop) >= 4 THEN Append(acc.loops, loop) ELSE acc.loops]

SplitSelfTouchingRing(ring) ==
    LET peeled == FoldLeft(PopLoop, [stack |-> <<>>, loops |-> <<>>], OpenRing(ring))
        loops == peeled.loops \o (IF Len(peeled.stack) >= 3 THEN <<Append(peeled.stack, peeled.stack[1])>> ELSE <<>>)
    IN  IF Len(ring) < 5 \/ loops = <<>> THEN <<ring>> ELSE loops

\* One pass of injectRingSelfContacts: the first vertex, by number, that lies
\* inside a segment away from it is put into the first such segment.
InjectContact(ring) ==
    LET n == Len(ring) - 1
        contacts == {vs \in (1..n) \X (1..n) :
                        /\ vs[2] \notin {vs[1], vs[1] - 1} /\ vs # <<1, n>>
                        /\ PointOnSegmentInterior(ring[vs[1]], ring[vs[2]], ring[vs[2] + 1])}
    IN  IF contacts = {} THEN ring
        ELSE LET first == LeastPoint(contacts) IN InsertAt(ring, first[2] + 1, ring[first[1]])

MaxPasses == 8

InjectRingSelfContacts(ring) ==
    IF Len(ring) < 5 THEN ring ELSE FoldLeft(LAMBDA r, k : InjectContact(r), ring, [k \in 1..MaxPasses |-> k])

InjectVertexEdgeContacts(poly) == [k \in DOMAIN poly |-> InjectRingSelfContacts(poly[k])]

\* canonicalizeTouchingRings, the first pass: the loops of the shells that
\* have any, without the holes of those.
Expanded(polys) ==
    FlattenSeq([i \in DOMAIN polys |->
        LET loops == SplitSelfTouchingRing(polys[i][1])
        IN  IF RingRepeatsInteriorVertex(polys[i][1]) /\ Len(loops) > 1
            THEN [k \in DOMAIN loops |-> <<loops[k]>>] ELSE <<polys[i]>>])

\* What is to be done with some polygons: they are kept, or they are operands
\* of an overlay.
Keep(polys) == [op |-> "keep", subj |-> polys, clip |-> polys]
Overlay(op, subj, clip) == [op |-> op, subj |-> subj, clip |-> clip]

\* The polygons with their contacts; an empty one is passed over.
Injected(polys) ==
    LET drawn == SelectSeq(polys, LAMBDA p : p # <<>>)
    IN  [i \in DOMAIN drawn |-> InjectVertexEdgeContacts(drawn[i])]

SplitOrUnited(injected, expanded) ==
    IF expanded # injected THEN Keep(expanded) ELSE Overlay("union", injected, injected)

CanonicalizeTouchingRings(polys) ==
    IF ~NeedsCanonicalize(Injected(polys)) THEN Keep(polys)
    ELSE SplitOrUnited(Injected(polys), Expanded(Injected(polys)))

PolygonHoleCrossesOuter(poly) ==
    \E k \in 2..Len(poly) : \E g \in SegmentsOf(poly[k]), h \in SegmentsOf(poly[1]) :
        SegmentsCrossProper(g[1], g[2], h[1], h[2])

\* repairOnePolygon; the difference is canonicalized once more.
RepairOnePolygon(poly) ==
    IF PolygonHoleCrossesOuter(poly)
    THEN Overlay("difference", <<<<poly[1]>>>>, [k \in 1..(Len(poly) - 1) |-> <<poly[k + 1]>>])
    ELSE CanonicalizeTouchingRings(<<poly>>)

-----------------------------------------------------------------------------
(***************************************************************************)
(* What an overlay returns.                                                *)
(***************************************************************************)
Geometry(type, parts) == [type |-> type, parts |-> parts]

\* WrapPolygonResult, wrapLinesResult and wrapPointsResult: one alone, or many.
Wrapped(single, multi, parts) ==
    IF Cardinality(parts) = 1 THEN Geometry(single, parts) ELSE Geometry(multi, parts)

\* assembleMixedDim: the members, one for each dimension that has any.
Member(single, multi, parts) == IF parts = {} THEN <<>> ELSE <<Wrapped(single, multi, parts)>>

AssembleMixedDim(polygons, lines, points) ==
    Member("Polygon", "MultiPolygon", polygons)
        \o Member("LineString", "MultiLineString", lines) \o Member("Point", "MultiPoint", points)

AnswerType(members) ==
    IF members = <<>> THEN "Polygon" ELSE IF Len(members) = 1 THEN members[1].type ELSE "GeometryCollection"

=============================================================================
