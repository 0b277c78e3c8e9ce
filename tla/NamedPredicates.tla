-------------------------- MODULE NamedPredicates --------------------------
(***************************************************************************)
(* The public predicates (package predicate) and the prepared forms of     *)
(* their first operand (package prepare).  A predicate tries in turn the   *)
(* envelopes and dimensions, the prepared polygon, a direct test of a      *)
(* point in an area, and last the matrix of the relate engine, which it    *)
(* matches against patterns.  The kernel is planar and the boundary rule   *)
(* the default one.                                                        *)
(***************************************************************************)
EXTENDS RelateGeometry, RelatePredicate, TLC

\* A pattern from its nine entries in the order II, IB, IE, BI, ... EE.
PatternOf(seq) == [cell \in Cells |-> seq[3 * (2 - cell[1]) + (2 - cell[2]) + 1]]

T == AtLeastPoint
F == -1
S == DontCare

MatchesAny(im, patterns) == \E seq \in patterns : Matches(im, PatternOf(seq))

IsIntersects(im) ==
    MatchesAny(im, {<<T, S, S, S, S, S, S, S, S>>, <<S, T, S, S, S, S, S, S, S>>,
                    <<S, S, S, T, S, S, S, S, S>>, <<S, S, S, S, T, S, S, S, S>>})
IsContains(im) == Matches(im, PatternOf(<<T, S, S, S, S, S, F, F, S>>))
IsCovers(im) ==
    MatchesAny(im, {<<T, S, S, S, S, S, F, F, S>>, <<S, T, S, S, S, S, F, F, S>>,
                    <<S, S, S, T, S, S, F, F, S>>, <<S, S, S, S, T, S, F, F, S>>})
IsTouches(im) ==
    MatchesAny(im, {<<F, T, S, S, S, S, S, S, S>>, <<F, S, S, T, S, S, S, S, S>>,
                    <<F, S, S, S, T, S, S, S, S>>})
IsEquals(im) == Matches(im, PatternOf(<<T, S, F, S, S, F, F, F, S>>))
IsContainsProperly(im) == Matches(im, PatternOf(<<T, S, S, F, F, S, F, F, S>>))

IsCrosses(im, dimA, dimB) ==
    \/ dimA = 1 /\ dimB = 1 /\ Matches(im, PatternOf(<<0, S, S, S, S, S, S, S, S>>))
    \/ dimA < dimB /\ Matches(im, PatternOf(<<T, S, T, S, S, S, S, S, S>>))
    \/ dimA > dimB /\ Matches(im, PatternOf(<<T, S, S, S, S, S, T, S, S>>))

IsOverlaps(im, dimA, dimB) ==
    /\ dimA = dimB
    /\ Matches(im, PatternOf(<<IF dimA = 1 THEN 1 ELSE T, S, T, S, S, S, T, S, S>>))

-----------------------------------------------------------------------------
\* dimensionOf: by the type; a collection has that of its greatest member.
DimensionOf(s) ==
    CASE s.kind \in {"Point", "MultiPoint"} -> 0
      [] s.kind \in {"LineString", "MultiLineString"} -> 1
      [] s.kind \in {"Polygon", "MultiPolygon"} -> 2
      [] s.kind = "GeometryCollection" -> IF IsEmpty(s) THEN 0 ELSE Dimension(s)

IsZeroLengthLine(s) == s.kind = "LineString" /\ s.lines # <<>> /\ IsZeroLength(s.lines[1])

\* The type tells the dimension of the point set.
IsRegularShape(s) == s.kind # "GeometryCollection" /\ ~IsZeroLengthLine(s)

IsMulti(s) == s.kind \in {"MultiPoint", "MultiLineString", "MultiPolygon", "GeometryCollection"}

\* The short circuits: the operands that are refused without their topology.
EitherEmpty(a, b) == IsEmpty(a) \/ IsEmpty(b)
BothRegular(a, b) == IsRegularShape(a) /\ IsRegularShape(b)
Apart(a, b) == ~EnvelopesIntersect(Envelope(a), Envelope(b))

ScIntersects(a, b) == EitherEmpty(a, b) \/ Apart(a, b)

ScCovers(a, b) ==
    \/ EitherEmpty(a, b)
    \/ BothRegular(a, b) /\ DimensionOf(a) < DimensionOf(b)
    \/ ~EnvelopeContains(Envelope(a), Envelope(b))

ScOverlaps(a, b) == EitherEmpty(a, b) \/ DimensionOf(a) # DimensionOf(b) \/ Apart(a, b)

ScCrosses(a, b) ==
    \/ EitherEmpty(a, b)
    \/ BothRegular(a, b) /\ DimensionOf(a) = DimensionOf(b) /\ DimensionOf(a) # 1
    \/ Apart(a, b)

ScTouches(a, b) ==
    \/ EitherEmpty(a, b)
    \/ BothRegular(a, b) /\ DimensionOf(a) = 0 /\ DimensionOf(b) = 0 /\ ~IsMulti(a) /\ ~IsMulti(b)
    \/ Apart(a, b)

-----------------------------------------------------------------------------
IsPoint(s) == s.kind = "Point" /\ s.points # {}
PointOf(s) == CHOOSE p \in s.points : TRUE
IsPolygon(s) == s.kind = "Polygon" /\ s.areas # <<>>
PolygonOf(s) == s.areas[1][1]

\* pointInPolygon: the shell, then the first hole that the point is not
\* outside of.
PointInPolygon(p, poly) ==
    LET at(k) == LocateInRings(p, SegmentsOf(poly[k]))
        met == {k \in 2..Len(poly) : at(k) # Exterior}
    IN  IF at(1) = Exterior THEN Exterior
        ELSE IF met = {} THEN at(1)
        ELSE IF at(Min(met)) = Interior THEN Exterior ELSE Boundary

\* pointArealIntersects handles a point and polygons.
IsPointAreal(p, s) == IsPoint(p) /\ IsPolygonal(s)
PointArealIntersects(p, s) ==
    \E i \in DOMAIN PolygonsOf(s) : PointInPolygon(PointOf(p), PolygonsOf(s)[i]) # Exterior

\* Rings that agree but for where they start and which way they run.
RingMatchAnyRotationOrReverse(r, s) ==
    LET n == Len(r) - 1
    IN  /\ Len(r) = Len(s)
        /\ \E off \in 0..(n - 1) :
            \/ \A i \in 0..(n - 1) : r[i + 1] = s[((i + off) % n) + 1]
            \/ \A i \in 0..(n - 1) : r[i + 1] = s[((off - i + n) % n) + 1]

SamePolygon(poly, other) ==
    /\ Len(poly) = Len(other)
    /\ \A k \in DOMAIN poly : RingMatchAnyRotationOrReverse(poly[k], other[k])

\* The polygons of a multi-polygon may come in any order.
SameMembers(polys, others) ==
    /\ Len(polys) = Len(others)
    /\ \E pi \in Permutations(DOMAIN polys) : \A i \in DOMAIN polys : SamePolygon(polys[i], others[pi[i]])

StructuralEqual(a, b) ==
    /\ a.kind = b.kind
    /\ a.points = b.points
    /\ a.lines = b.lines
    /\ IF a.kind = "MultiPolygon" THEN SameMembers(PolygonsOf(a), PolygonsOf(b))
       ELSE /\ Len(a.areas) = Len(b.areas)
            /\ \A i \in DOMAIN a.areas : Len(a.areas[i]) = Len(b.areas[i])
            /\ \A i \in DOMAIN PolygonsOf(a) : SamePolygon(PolygonsOf(a)[i], PolygonsOf(b)[i])

PointZeroLengthLinePair(a, b) ==
    \/ a.kind = "Point" /\ IsZeroLengthLine(b)
    \/ IsZeroLengthLine(a) /\ b.kind = "Point"

-----------------------------------------------------------------------------
\* Prepared geometries.  The segment index only leaves out segments whose
\* envelope is apart from that of the query.
Opposite(n, m) == Sign(n) * Sign(m) = -1

ProperlyCross(g, h) ==
    /\ Opposite(Cross(g[1], g[2], h[1]), Cross(g[1], g[2], h[2]))
    /\ Opposite(Cross(h[1], h[2], g[1]), Cross(h[1], h[2], g[2]))

SegmentsTouch(g, h) ==
    \/ ProperlyCross(g, h)
    \/ \E i \in 1..2 : OnSegment(g[i], h[1], h[2]) \/ OnSegment(h[i], g[1], g[2])

AllSegmentsOf(s) ==
    UNION {SegmentsOf(s.lines[i]) : i \in DOMAIN s.lines}
        \cup UNION {SegmentsOfPolygon(PolygonsOf(s)[i]) : i \in DOMAIN PolygonsOf(s)}

SegmentHitsAnyEdge(g, edges) == \E h \in edges : SegmentsTouch(g, h)

EnvelopeContainsXY(e, p) == EnvelopeContains(e, EnvelopeOf({p}))

\* PreparedPolygon.ContainsPoint: one parity over all the rings.
ContainsPoint(poly, p) ==
    IF EnvelopeContainsXY(EnvelopeOf(PointsOfPolygon(poly)), p)
    THEN LocateInRings(p, SegmentsOfPolygon(poly)) ELSE Exterior

Corners4(e) == {<<x, y>> : x \in {e.minX, e.maxX}, y \in {e.minY, e.maxY}}

SegmentEnvelope(g) == EnvelopeOf({g[1], g[2]})

\* PreparedPolygon.IntersectsEnvelope: an edge near it, or a corner of it in
\* the envelope of the polygon.
PolygonIntersectsEnvelope(poly, e) ==
    LET env == EnvelopeOf(PointsOfPolygon(poly))
    IN  /\ EnvelopesIntersect(env, e)
        /\ \/ \E g \in SegmentsOfPolygon(poly) : EnvelopesIntersect(SegmentEnvelope(g), e)
           \/ \E c \in Corners4(e) : EnvelopeContainsXY(env, c)

\* pointInPolygonForPrepared and pointInGeometryCovers.
InPolygonForPrepared(p, poly) ==
    /\ LocateInRings(p, SegmentsOf(poly[1])) # Exterior
    /\ \A k \in 2..Len(poly) : LocateInRings(p, SegmentsOf(poly[k])) # Interior

PointInGeometryCovers(p, s) ==
    \/ p \in s.points
    \/ \E g \in AllSegmentsOf(s) : OnSegment(p, g[1], g[2])
    \/ \E i \in DOMAIN PolygonsOf(s) : InPolygonForPrepared(p, PolygonsOf(s)[i])

\* A slip to check against: no probe of the polygon within the other operand.
PolygonIntersectsNoProbe(poly, s) ==
    /\ EnvelopesIntersect(EnvelopeOf(PointsOfPolygon(poly)), Envelope(s))
    /\ \/ \E p \in CoordsOf(s) : ContainsPoint(poly, p) # Exterior
       \/ \E g \in AllSegmentsOf(s) : SegmentHitsAnyEdge(g, SegmentsOfPolygon(poly))

PolygonIntersects(poly, s) ==
    /\ EnvelopesIntersect(EnvelopeOf(PointsOfPolygon(poly)), Envelope(s))
    /\ \/ \E p \in CoordsOf(s) : ContainsPoint(poly, p) # Exterior
       \/ \E g \in AllSegmentsOf(s) : SegmentHitsAnyEdge(g, SegmentsOfPolygon(poly))
       \/ s.areas # <<>> /\ PointInGeometryCovers(poly[1][1], s)

\* representativeInteriorPoint: the mean of the vertices of the shell, else
\* the mean of three of them in a row; each with the scale of its coordinates.
MeanOf(points) ==
    [scale |-> Len(points),
     at |-> <<FoldLeft(LAMBDA n, p : n + p[1], 0, points), FoldLeft(LAMBDA n, p : n + p[2], 0, points)>>]

Scaled(poly, n) == [k \in DOMAIN poly |-> [i \in DOMAIN poly[k] |-> <<n * poly[k][i][1], n * poly[k][i][2]>>]]

\* The candidates in the order they are tried, and the one that is taken.
RepresentativeInteriorPoint(poly) ==
    LET n == Len(poly[1]) - 1
        candidates == <<MeanOf(SubSeq(poly[1], 1, n))>>
                          \o [i \in 1..(n - 2) |-> MeanOf(SubSeq(poly[1], i, i + 2))]
    IN  SelectSeq(candidates, LAMBDA c : InPolygonForPrepared(c.at, Scaled(poly, c.scale)))

\* PreparedPolygon.Covers.
PolygonCovers(poly, s) ==
    /\ EnvelopeContains(EnvelopeOf(PointsOfPolygon(poly)), Envelope(s))
    /\ \A p \in CoordsOf(s) : ContainsPoint(poly, p) # Exterior
    /\ \A g \in AllSegmentsOf(s) : \A h \in SegmentsOfPolygon(poly) : ~ProperlyCross(g, h)
    /\ \A i \in DOMAIN PolygonsOf(s) :
        LET reps == RepresentativeInteriorPoint(PolygonsOf(s)[i])
        IN  reps # <<>> => ContainsPoint(Scaled(poly, reps[1].scale), reps[1].at) # Exterior

\* PreparedPolygon.ContainsProperly.
PolygonContainsProperly(poly, s) ==
    /\ EnvelopeContains(EnvelopeOf(PointsOfPolygon(poly)), Envelope(s))
    /\ \A p \in CoordsOf(s) : ContainsPoint(poly, p) = Interior
    /\ \A g \in AllSegmentsOf(s) : ~SegmentHitsAnyEdge(g, SegmentsOfPolygon(poly))

\* PreparedLineString.Intersects.
LineStringIntersects(line, s) ==
    LET edges == SegmentsOf(line)
    IN  /\ EnvelopesIntersect(EnvelopeOf(ToSet(line)), Envelope(s))
        /\ \/ \E p \in s.points : \E h \in edges : OnSegment(p, h[1], h[2])
           \/ \E g \in AllSegmentsOf(s) : SegmentHitsAnyEdge(g, edges)
           \/ \E i \in DOMAIN PolygonsOf(s) : InPolygonForPrepared(line[1], PolygonsOf(s)[i])

\* PreparedLineString.IntersectsEnvelope: an end within, or a side that is
\* crossed; SegmentIntersection knows nothing of parallel segments.
Parallel(g, h) == Cross(g[1], g[2], h[1]) = Cross(g[1], g[2], h[2])

SegmentIntersectsEnvelope(g, e) ==
    \/ \E i \in 1..2 : EnvelopeContainsXY(e, g[i])
    \/ \E c, d \in Corners4(e) :
        /\ c[1] = d[1] \/ c[2] = d[2]
        /\ ~Parallel(g, <<c, d>>) /\ SegmentsTouch(g, <<c, d>>)

LineIntersectsEnvelope(line, e) ==
    \E g \in SegmentsOf(line) : EnvelopesIntersect(SegmentEnvelope(g), e) /\ SegmentIntersectsEnvelope(g, e)

-----------------------------------------------------------------------------
\* The predicates, from the matrix of the engine; "prepared" says that the
\* first operand, a polygon, comes with its prepared form.
IntersectsWith(a, b, im, prepared) ==
    /\ ~ScIntersects(a, b)
    /\ CASE prepared /\ IsPoint(b) -> ContainsPoint(PolygonOf(a), PointOf(b)) # Exterior
         [] prepared /\ ~IsPoint(b) -> PolygonIntersects(PolygonOf(a), b)
         [] ~prepared /\ IsPointAreal(b, a) -> PointArealIntersects(b, a)
         [] ~prepared /\ ~IsPointAreal(b, a) /\ IsPointAreal(a, b) -> PointArealIntersects(a, b)
         [] OTHER -> IsIntersects(im)

ContainsWith(a, b, im, prepared) ==
    /\ ~ScCovers(a, b)
    /\ CASE prepared /\ IsPoint(b) -> ContainsPoint(PolygonOf(a), PointOf(b)) = Interior
         [] ~prepared /\ IsPoint(b) /\ IsPolygon(a) -> PointInPolygon(PointOf(b), PolygonOf(a)) = Interior
         [] OTHER -> IsContains(im)

CoversWith(a, b, im, prepared) ==
    /\ ~ScCovers(a, b)
    /\ CASE prepared -> PolygonCovers(PolygonOf(a), b)
         [] ~prepared /\ IsPoint(b) /\ IsPolygon(a) -> PointInPolygon(PointOf(b), PolygonOf(a)) # Exterior
         [] OTHER -> IsCovers(im)

EqualsWith(a, b, im) ==
    IF EitherEmpty(a, b) THEN IsEmpty(a) /\ IsEmpty(b)
    ELSE /\ Envelope(a) = Envelope(b)
         /\ \/ StructuralEqual(a, b)
            \/ ~PointZeroLengthLinePair(a, b) /\ IsEquals(im)

TouchesWith(a, b, im) == ~ScTouches(a, b) /\ IsTouches(im)
CrossesWith(a, b, im) == ~ScCrosses(a, b) /\ IsCrosses(im, DimensionOf(a), DimensionOf(b))
OverlapsWith(a, b, im) == ~ScOverlaps(a, b) /\ IsOverlaps(im, DimensionOf(a), DimensionOf(b))
ContainsProperly(a, b, im) == ~EitherEmpty(a, b) /\ IsContainsProperly(im)

-----------------------------------------------------------------------------
\* Rectangles.  A point on the boundary of the envelope, and a segment along
\* one of its sides.
OnRectBoundary(p, e) == p[1] \in {e.minX, e.maxX} \/ p[2] \in {e.minY, e.maxY}

SegmentOnRectBoundary(g, e) ==
    CASE g[1] = g[2] -> OnRectBoundary(g[1], e)
      [] g[1] # g[2] /\ g[1][1] = g[2][1] -> g[1][1] \in {e.minX, e.maxX}
      [] g[1][1] # g[2][1] -> g[1][2] = g[2][2] /\ g[1][2] \in {e.minY, e.maxY}

RectangleContains(rect, s) ==
    LET e == Envelope(rect)
    IN  /\ ~EitherEmpty(rect, s)
        /\ EnvelopeContains(e, Envelope(s))
        /\ \/ s.areas # <<>>
           \/ \E p \in s.points : ~OnRectBoundary(p, e)
           \/ \E i \in DOMAIN s.lines : \E g \in SegmentsOf(s.lines[i]) : ~SegmentOnRectBoundary(g, e)

\* The connected components as sets of their vertices.
ComponentsOf(s) ==
    {{p} : p \in s.points} \cup {ToSet(s.lines[i]) : i \in DOMAIN s.lines}
        \cup {PointsOfPolygon(PolygonsOf(s)[i]) : i \in DOMAIN PolygonsOf(s)}

\* A component within the rectangle's columns or rows crosses it.
EnvelopeBisectsRect(s, e) ==
    \E c \in ComponentsOf(s) :
        LET ce == EnvelopeOf(c)
        IN  /\ EnvelopesIntersect(e, ce)
            /\ \/ EnvelopeContains(e, ce)
               \/ ce.minX >= e.minX /\ ce.maxX <= e.maxX
               \/ ce.minY >= e.minY /\ ce.maxY <= e.maxY

RectangleIntersects(rect, s) ==
    LET e == Envelope(rect)
    IN  /\ ~EitherEmpty(rect, s)
        /\ ~Apart(rect, s)
        /\ \/ EnvelopeBisectsRect(s, e)
           \/ \E i \in DOMAIN PolygonsOf(s) : \E c \in Corners4(e) : PointInPolygon(c, PolygonsOf(s)[i]) # Exterior
           \/ \E g \in AllSegmentsOf(s) : SegmentHitsAnyEdge(g, AllSegmentsOf(rect))

=============================================================================
