------------------------------ MODULE Validity ------------------------------
(***************************************************************************)
(* Package validate: Validate, with and without inverted rings, and the    *)
(* repairs of MakeValid and Fix.  A validator collects the kinds of the    *)
(* defects; messages and locations are left out.  The repairs call the     *)
(* overlay engine, which is taken as its operations on point sets.         *)
(***************************************************************************)
EXTENDS Planar, NamedPredicates

\* A vertex that is not finite: no point of the plane.
NotFinite == <<-1, -1>>
Finite(p) == p # NotFinite

When(holds, kind) == IF holds THEN {kind} ELSE {}

-----------------------------------------------------------------------------
\* Rings.
Distinct(ring) == Cardinality({ring[i] : i \in 1..(Len(ring) - 1)})
IsClosed(ring) == ring[1] = ring[Len(ring)]

\* collapseConsecutiveDuplicates.
Collapsed(line) == FoldLeft(LAMBDA out, p : IF out # <<>> /\ Last(out) = p THEN out ELSE Append(out, p), <<>>, line)

\* Edges i and j of a ring of n vertices that do not follow each other.
ApartInRing(i, j, n) == j >= i + 2 /\ ~(i = 1 /\ j + 1 = n)

\* ringSelfIntersection: a vertex that comes again, or edges that meet though
\* they do not follow each other.
SelfIntersects(line) ==
    LET ring == Collapsed(line)
        n == Len(ring)
    IN  n >= 4 /\ \/ \E i, j \in 1..(n - 1) : j - i > 1 /\ ring[i] = ring[j]
                  \/ \E i, j \in 1..(n - 1) :
                        /\ ApartInRing(i, j, n)
                        /\ SegmentIntersect(ring[i], ring[i + 1], ring[j], ring[j + 1]).kind # "none"

\* checkRing.
RingDefects(ring) ==
    IF Len(ring) < 4 \/ Distinct(ring) < 3 THEN {"ring-too-few-points"}
    ELSE IF TwiceRingArea(ring) = 0 THEN {"ring-self-intersection"}
    ELSE When(~IsClosed(ring), "ring-not-closed") \cup When(SelfIntersects(ring), "ring-self-intersection")

\* checkLinearRing and checkLineString.
LinearRingDefects(ring) ==
    IF ring = <<>> THEN {}
    ELSE IF Len(ring) < 4 THEN {"ring-too-few-points"}
    ELSE When(~IsClosed(ring), "ring-not-closed") \cup When(SelfIntersects(ring), "ring-self-intersection")

LineDefects(line) == When(line # <<>> /\ IsZeroLength(line), "line-too-few-points")

-----------------------------------------------------------------------------
\* Pairs of rings.
RingEquivalent(a, b) == Len(a) >= 4 /\ RingMatchAnyRotationOrReverse(a, b)

\* collinearShare, ringsShareCurve and ringTouchPointCount.
CollinearShare(g, h) ==
    /\ Cross(g[1], g[2], h[1]) = 0 /\ Cross(g[1], g[2], h[2]) = 0
    /\ SegmentIntersect(g[1], g[2], h[1], h[2]).kind = "overlap"

RingsShareCurve(a, b) == \E g \in SegmentsOf(a), h \in SegmentsOf(b) : CollinearShare(g, h)

TouchPoints(a, b) ==
    UNION {SegmentIntersection(g[1], g[2], h[1], h[2]) : g \in SegmentsOf(a), h \in SegmentsOf(b)}

\* checkHoleAgainstShell.
HoleDefects(hole, shell) ==
    IF \E p \in ToSet(hole) : PointInRing(p, shell) = Exterior THEN {"hole-outside-shell"}
    ELSE When(RingEquivalent(hole, shell), "duplicate-rings")
            \cup When(RingsShareCurve(hole, shell) \/ Cardinality(TouchPoints(hole, shell)) > 1, "self-intersection")

\* ringContainsRingVerts.
ContainsRingVerts(outer, inner) ==
    /\ \A p \in ToSet(inner) : PointInRing(p, outer) # Exterior
    /\ \E p \in ToSet(inner) : PointInRing(p, outer) = Interior

\* checkHolePair.
HolePairDefects(a, b) ==
    IF RingEquivalent(a, b) THEN {"duplicate-rings"}
    ELSE IF ContainsRingVerts(a, b) \/ ContainsRingVerts(b, a) THEN {"nested-holes"}
    ELSE When(RingsShareCurve(a, b) \/ Cardinality(TouchPoints(a, b)) > 1, "self-intersection")

\* ringsTouchPoint: the first vertex of a on b, else of b on a, if any.
VerticesOnRing(a, b) ==
    SelectSeq(Front(a), LAMBDA p : \E g \in SegmentsOf(b) : SegmentDistanceSq(p, g[1], g[2]).num = 0)

RingsTouch(a, b) ==
    LET found == VerticesOnRing(a, b) \o VerticesOnRing(b, a)
    IN  IF found = <<>> THEN {} ELSE {Head(found)}

\* checkInteriorConnectivity: the rings that touch, directly or through others,
\* are no tree, and touch in two points or more.
Touches(poly) ==
    {[between |-> {e[1], e[2]}, at |-> RingsTouch(poly[e[1]], poly[e[2]])] :
        e \in {e \in (DOMAIN poly) \X (DOMAIN poly) : e[1] < e[2] /\ RingsTouch(poly[e[1]], poly[e[2]]) # {}}}

Linked(touches, poly, i) ==
    FoldLeft(LAMBDA J, k : J \cup UNION {t.between : t \in {t \in touches : t.between \cap J # {}}}, {i}, poly)

InteriorDisconnected(poly) ==
    LET touches == Touches(poly)
    IN  \E i \in DOMAIN poly :
            LET rings == Linked(touches, poly, i)
                within == {t \in touches : t.between \subseteq rings}
            IN  /\ Len(poly) >= 3
                /\ Cardinality(within) > Cardinality(rings) - 1
                /\ Cardinality({t.at : t \in within}) >= 2

\* checkPolygonHoles.
HolesDefects(poly) ==
    UNION {HoleDefects(poly[k], poly[1]) : k \in 2..Len(poly)}
        \cup UNION {UNION {HolePairDefects(poly[i], poly[j]) : j \in (i + 1)..Len(poly)} : i \in 2..Len(poly)}

-----------------------------------------------------------------------------
\* Inverted rings: PolygonRing.  A node of a ring where it touches itself, with
\* the vertices around its two visits, and the touches of two rings.
At(ring, i) == ring[1 + (i % (Len(ring) - 1))]

\* ringEdgeCrossing: edges that meet, not in an end of theirs.
EdgeCrossing(ring) ==
    /\ Len(ring) >= 5
    /\ \E i, j \in 1..(Len(ring) - 1) :
        /\ ApartInRing(i, j, Len(ring))
        /\ LET met == SegmentIntersect(ring[i], ring[i + 1], ring[j], ring[j + 1])
           IN  met.kind = "point" /\ met.at \cap {ring[i], ring[i + 1], ring[j], ring[j + 1]} = {}

\* recordSelfTouches: the first visit of a vertex and each later one.
SelfTouches(ring) ==
    LET n == Len(ring) - 1
        first(p) == Min({k \in 0..(n - 1) : At(ring, k) = p})
    IN  IF n < 3 THEN {}
        ELSE {[at |-> At(ring, i), before |-> At(ring, first(At(ring, i)) + n - 1), other |-> At(ring, i + n - 1)] :
                i \in {i \in 0..(n - 1) : LET prev == first(At(ring, i))
                                          IN  i - prev > 1 /\ (prev # 0 \/ i # n - 1)}}

\* findInteriorSelfNode and selfNodeIsExterior.
InteriorSelfNode(ring, isShell) ==
    LET onRight == isShell # (TwiceRingArea(ring) > 0)
    IN  \E node \in SelfTouches(ring) :
            LET turn == Orient(node.before, node.at, node.other)
            IN  turn # 0 /\ (turn < 0) = onRight

\* ringRingTouchPoints and recordTouchBetween: the first vertex of ring i that
\* ring j has as well.
SharedVertices(a, b) == SelectSeq(Front(a), LAMBDA p : \E k \in 1..(Len(b) - 1) : b[k] = p)

RingTouches(poly, i) ==
    LET at(j) == SharedVertices(poly[Min({i, j})], poly[Max({i, j})])
    IN  {[ring |-> j, at |-> Head(at(j))] : j \in {j \in DOMAIN poly : j # i /\ at(j) # <<>>}}

\* findHoleCycleLocation: a walk from a ring over touches, each in another
\* point than the one before, that comes to a ring it has marked.  Touches are
\* kept in a map, so they come in any order: Walks are the stacks that are
\* left, each with the rings that are marked, or the cycle when it is found.
RECURSIVE CycleFrom(_, _, _)
CycleFrom(poly, stack, marked) ==
    /\ stack # {}
    /\ \E current \in stack :
        LET onward == {t \in RingTouches(poly, current.ring) : t.at # current.at}
        IN  \/ \E t \in onward : t.ring \in marked
            \/ CycleFrom(poly, (stack \ {current}) \cup onward, marked \cup {t.ring : t \in onward})

HoleCycle(poly, root) ==
    LET first == RingTouches(poly, root)
    IN  CycleFrom(poly, first, {root} \cup {t.ring : t \in first})

Joins(poly) == UNION {{[between |-> {i, t.ring}] : t \in RingTouches(poly, i)} : i \in DOMAIN poly}

\* findInvertedRingDefect; a ring that an earlier walk has marked starts none.
InvertedRingDefect(poly) ==
    \/ \E k \in DOMAIN poly : EdgeCrossing(poly[k])
    \/ \E k \in DOMAIN poly : InteriorSelfNode(poly[k], k = 1)
    \/ \E k \in DOMAIN poly :
        /\ \A j \in 1..(k - 1) : k \notin Linked(Joins(poly), poly, j)
        /\ HoleCycle(poly, k)

-----------------------------------------------------------------------------
\* checkPolygon, with applyInvertedRingRelaxation.
PolygonDefects(poly, invertedRingValid) ==
    LET strict == UNION {RingDefects(poly[k]) : k \in DOMAIN poly}
                    \cup HolesDefects(poly)
                    \cup When(InteriorDisconnected(poly), "disconnected-interior")
    IN  IF invertedRingValid /\ ~InvertedRingDefect(poly)
        THEN strict \ {"ring-self-intersection", "disconnected-interior"} ELSE strict

\* polygonHasPointInInterior; polygonPointLocation is PointInPolygon but for a
\* point on the shell, which no hole moves.
PolygonPointLocation(p, poly) ==
    IF PointInRing(p, poly[1]) = Interior THEN PointInPolygon(p, poly) ELSE PointInRing(p, poly[1])

HasPointInInterior(a, b) == \E p \in PointsOfPolygon(a) : PolygonPointLocation(p, b) = Interior

\* ringCentroidV: the centroid of the shell, with the scale of its coordinates.
CentroidOf(ring) ==
    LET part(i, k) == (ring[i][k] + ring[i + 1][k]) * (ring[i][1] * ring[i + 1][2] - ring[i + 1][1] * ring[i][2])
        sum(k) == FoldLeft(LAMBDA n, i : n + part(i, k), 0, [i \in 1..(Len(ring) - 1) |-> i])
        area == TwiceRingArea(ring)
    IN  [scale |-> 3 * Abs(area), at |-> <<Sign(area) * sum(1), Sign(area) * sum(2)>>]

HasRepeatedVertex(ring) == \E i \in 1..(Len(ring) - 1) : ring[i] = ring[i + 1]

\* multiPolygonInteriorOverlap.
CentroidWithin(a, b) ==
    /\ Len(a[1]) >= 4 /\ TwiceRingArea(a[1]) # 0
    /\ LET c == CentroidOf(a[1])
       IN  PolygonPointLocation(c.at, Scaled(b, c.scale)) = Interior

InteriorOverlap(a, b) ==
    /\ ~HasRepeatedVertex(a[1]) /\ ~HasRepeatedVertex(b[1])
    /\ CentroidWithin(a, b) \/ CentroidWithin(b, a)

\* checkMultiPolygon, for two of its polygons.
MemberDefects(a, b) ==
    IF RingEquivalent(a[1], b[1]) THEN {"duplicate-rings"}
    ELSE IF RingsShareCurve(a[1], b[1]) THEN {"self-intersection"}
    ELSE When(HasPointInInterior(a, b) \/ HasPointInInterior(b, a) \/ InteriorOverlap(a, b), "nested-shells")

MultiPolygonDefects(polys, invertedRingValid) ==
    UNION {PolygonDefects(polys[i], invertedRingValid) : i \in DOMAIN polys}
        \cup UNION {UNION {MemberDefects(polys[i], polys[j]) : j \in (i + 1)..Len(polys)} : i \in DOMAIN polys}

\* check: the coordinates, then the rules of each element.  What the rules say
\* of coordinates that are not finite is left out, such a geometry has a defect.
Defects(s, invertedRingValid) ==
    IF \E p \in CoordsOf(s) : ~Finite(p) THEN {"invalid-coordinate"}
    ELSE UNION {IF s.kind = "LinearRing" THEN LinearRingDefects(s.lines[i]) ELSE LineDefects(s.lines[i]) :
                    i \in DOMAIN s.lines}
            \cup UNION {MultiPolygonDefects(s.areas[i], invertedRingValid) : i \in DOMAIN s.areas}

Validate(s) == Defects(s, FALSE)

-----------------------------------------------------------------------------
\* Repairs.  closeRing leaves out vertices that are not finite or repeated.
Cleaned(line) == Collapsed(SelectSeq(line, Finite))

CloseRing(ring) ==
    LET r == Cleaned(ring)
    IN  IF r = <<>> \/ r[1] = Last(r) THEN r ELSE Append(r, r[1])

OrientCCW(ring) == IF TwiceRingArea(ring) < 0 THEN Reverse(ring) ELSE ring
OrientCW(ring) == IF TwiceRingArea(ring) > 0 THEN Reverse(ring) ELSE ring

\* collectFixedHoles.
FixedHoles(poly) ==
    SelectSeq([k \in 1..(Len(poly) - 1) |-> CloseRing(poly[k + 1])],
              LAMBDA hole : Len(hole) >= 4 /\ ~SelfIntersects(hole))

\* classifyHole: by the vertices alone.
ClassifyHole(hole, shell) ==
    LET at == {PointInRing(hole[i], shell) : i \in 1..(Len(hole) - 1)}
    IN  IF Exterior \notin at /\ Interior \in at THEN "inside"
        ELSE IF Interior \notin at THEN "outside"
        ELSE "overlap"

HolesThatAre(class, shell, holes) == SelectSeq(holes, LAMBDA hole : ClassifyHole(hole, shell) = class)

\* The faces of the drawing within a polygon: what the overlay of areas works on.
FacesWithin(poly) ==
    {f \in FacePoints : PointInRing(f, poly[1]) = Interior /\ \A k \in 2..Len(poly) : PointInRing(f, poly[k]) = Exterior}

\* overlay.Difference and overlay.Union as the repairs use them: an empty result
\* leaves what was there.
LessIfAny(area, ring) ==
    LET rest == area \ FacesWithin(<<ring>>) IN IF rest = {} THEN area ELSE rest

\* A slip to check against: every hole is subtracted.
ApplyAllHoles(shell, holes) ==
    [base |-> <<shell>>, area |-> FoldLeft(LessIfAny, FacesWithin(<<shell>>), holes)]

\* classifyAndApplyHoles: the polygon with the holes inside it, and the area
\* when the others have been subtracted and added.
ApplyHoles(shell, holes) ==
    LET inside == HolesThatAre("inside", shell, holes)
        base == <<shell>> \o [k \in DOMAIN inside |-> OrientCW(inside[k])]
        less == FoldLeft(LessIfAny, FacesWithin(base), HolesThatAre("overlap", shell, holes))
    IN  [base |-> base,
         area |-> FoldLeft(LAMBDA area, ring : area \cup FacesWithin(<<ring>>), less, HolesThatAre("outside", shell, holes))]

\* makeValidPolygon, of a shell that does not meet itself; the other shells go
\* through the overlay engine first and are left out.
IsRepairable(poly) == LET shell == CloseRing(poly[1]) IN Len(shell) >= 4 => ~SelfIntersects(shell)

MakeValidPolygon(poly) ==
    LET shell == CloseRing(poly[1])
    IN  IF Len(shell) < 4 THEN [base |-> <<>>, area |-> {}]
        ELSE ApplyHoles(OrientCCW(shell), FixedHoles(poly))

\* makeValidLineString: a line, or the point that is left of it.
MakeValidLine(line) == Cleaned(line)

\* makeValidMultiPolygon: the members are repaired one by one and united.
MakeValidMultiPolygon(polys) == UNION {MakeValidPolygon(polys[i]).area : i \in DOMAIN polys}

\* MakeValid: the points, the lines and the area of what it returns.  A line that
\* is left as a point is dropped from a multi-line.
MakeValid(s) ==
    LET fixed == [i \in DOMAIN s.lines |-> MakeValidLine(s.lines[i])]
        degraded == {i \in DOMAIN fixed : Len(fixed[i]) < 2}
    IN  [points |-> s.points \cup (IF s.kind = "MultiLineString" THEN {} ELSE {fixed[i][1] : i \in degraded}),
         lines |-> SelectSeq(fixed, LAMBDA line : Len(line) >= 2),
         area |-> MakeValidMultiPolygon(PolygonsOf(s))]

\* Fix: an empty geometry is returned as it is.
Fix(s) ==
    IF IsEmpty(s) THEN [points |-> s.points, lines |-> s.lines, area |-> {}] ELSE MakeValid(s)

=============================================================================
