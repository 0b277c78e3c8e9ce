--------------------------- MODULE RelateGeometry ---------------------------
(***************************************************************************)
(* The operands of the relate engine and its point locator.  A shape is a  *)
(* record: its kind (the Go type), the set of its points, the sequence of  *)
(* its lines and the sequence of its areal members, each a sequence of     *)
(* polygons, each a sequence of rings with the shell first.  A simple      *)
(* geometry fills one of the three; a collection may fill them all.        *)
(***************************************************************************)
EXTENDS RelateNode

IsEmpty(s) == s.points = {} /\ s.lines = <<>> /\ s.areas = <<>>

PolygonsOf(s) == FlattenSeq(s.areas)

HasDimension(s, dim) ==
    CASE dim = DimP -> s.points # {}
      [] dim = DimL -> s.lines # <<>>
      [] dim = DimA -> s.areas # <<>>

\* The greatest dimension of an element, DimFalse for an empty geometry.
Dimension(s) ==
    CHOOSE d \in {DimFalse, DimP, DimL, DimA} :
        /\ d # DimFalse => HasDimension(s, d)
        /\ \A e \in {DimP, DimL, DimA} : HasDimension(s, e) => e <= d

IsZeroLength(line) == ToSet(line) = {line[1]}

\* DimensionReal: a geometry whose linear elements all have zero length, and
\* that has no areas, counts as points.
DimensionReal(s) ==
    IF Dimension(s) = DimL /\ \A i \in DOMAIN s.lines : IsZeroLength(s.lines[i])
    THEN DimP ELSE Dimension(s)

IsPolygonal(s) == s.kind \in {"Polygon", "MultiPolygon"}

\* A collection of one areal member needs no noding; points and polygonal
\* geometries never do.
IsSelfNodingRequired(s) ==
    /\ s.kind \notin {"Point", "MultiPoint", "Polygon", "MultiPolygon"}
    /\ ~ (s.kind = "GeometryCollection" /\ HasDimension(s, DimA)
            /\ Cardinality(s.points) + Len(s.lines) + Len(s.areas) = 1)
    /\ HasDimension(s, DimA) \/ HasDimension(s, DimL)

HasAreaAndLine(s) == HasDimension(s, DimA) /\ HasDimension(s, DimL)

\* Envelopes; the empty one has its least coordinates above its greatest.
EnvelopeOf(P) ==
    IF P = {} THEN [minX |-> 1, maxX |-> 0, minY |-> 1, maxY |-> 0]
    ELSE [minX |-> Min({p[1] : p \in P}), maxX |-> Max({p[1] : p \in P}),
          minY |-> Min({p[2] : p \in P}), maxY |-> Max({p[2] : p \in P})]

IsEmptyEnvelope(e) == e.minX > e.maxX \/ e.minY > e.maxY

EnvelopesIntersect(e, f) ==
    /\ ~IsEmptyEnvelope(e) /\ ~IsEmptyEnvelope(f)
    /\ f.minX <= e.maxX /\ f.maxX >= e.minX
    /\ f.minY <= e.maxY /\ f.maxY >= e.minY

EnvelopeContains(e, f) ==
    /\ ~IsEmptyEnvelope(e) /\ ~IsEmptyEnvelope(f)
    /\ f.minX >= e.minX /\ f.maxX <= e.maxX
    /\ f.minY >= e.minY /\ f.maxY <= e.maxY

PointsOfPolygon(poly) == UNION {ToSet(poly[i]) : i \in DOMAIN poly}

CoordsOf(s) ==
    s.points \cup UNION {ToSet(s.lines[i]) : i \in DOMAIN s.lines}
             \cup UNION {PointsOfPolygon(PolygonsOf(s)[i]) : i \in DOMAIN PolygonsOf(s)}

Envelope(s) == EnvelopeOf(CoordsOf(s))

(***************************************************************************)
(* Location.  A located point is a pair: the dimension of the element it   *)
(* lies on and its location there.                                         *)
(***************************************************************************)
Outside == <<DimFalse, Exterior>>

\* LinearBoundary: the ends of an odd number of lines, closed lines counting
\* twice (the Mod2 rule).
IsLineBoundary(s, p) ==
    LET ends == {<<i, j>> \in (DOMAIN s.lines) \X {0, 1} :
                    p = s.lines[i][IF j = 0 THEN 1 ELSE Len(s.lines[i])]}
    IN  Cardinality(ends) % 2 = 1

HasBoundary(s) == \E p \in CoordsOf(s) : IsLineBoundary(s, p)

LocateOnLines(s, p, isNode) ==
    IF IsLineBoundary(s, p) THEN Boundary
    ELSE IF isNode \/ \E i \in DOMAIN s.lines : \E g \in SegmentsOf(s.lines[i]) : OnSegment(p, g[1], g[2])
    THEN Interior ELSE Exterior

\* orientRing: shells run clockwise and holes counterclockwise.
TwiceArea(ring) ==
    FoldLeft(LAMBDA sum, i : sum + ring[i][1] * ring[i + 1][2] - ring[i + 1][1] * ring[i][2],
             0, [i \in 1..(Len(ring) - 1) |-> i])

Oriented(ring, clockwise) == IF clockwise = (TwiceArea(ring) > 0) THEN Reverse(ring) ELSE ring

OrientedRing(poly, k) == Oriented(poly[k], k = 1)

\* AdjacentEdgeLocator: a point on the boundaries of several members of a
\* collection is on the boundary of their union when an edge at the point has
\* the exterior beside it.  All the corners count as one polygon.
CornerAt(p, ring, i) ==
    LET start == ring[i]
        prev == IF p = start THEN ring[IF i = 1 THEN Len(ring) - 1 ELSE i - 1] ELSE start
    IN  [isA |-> TRUE, dim |-> DimA, id |-> 1, ring |-> 0, shell |-> TRUE, area |-> 0,
         v0 |-> Direction(p, prev), v1 |-> Direction(p, ring[i + 1])]

CornersAt(p, ring) ==
    LET at == SelectSeq([i \in 1..(Len(ring) - 1) |-> i],
                        LAMBDA i : p # ring[i + 1] /\ OnSegment(p, ring[i], ring[i + 1]))
    IN  [k \in DOMAIN at |-> CornerAt(p, ring, at[k])]

RingsOf(s) ==
    FlattenSeq([i \in DOMAIN PolygonsOf(s) |->
        [k \in DOMAIN PolygonsOf(s)[i] |-> OrientedRing(PolygonsOf(s)[i], k)]])

AllCornersAt(p, rings) == FlattenSeq([k \in DOMAIN rings |-> CornersAt(p, rings[k])])

AtCorners(corners) ==
    IF corners = <<>> \/ HasExteriorEdge(CreateNode(corners), TRUE) THEN Boundary ELSE Interior

LocateAdjacent(s, p) == AtCorners(AllCornersAt(p, RingsOf(s)))

SegmentsOfPolygon(poly) == UNION {SegmentsOf(poly[k]) : k \in DOMAIN poly}

SegmentsOfArea(s, i) ==
    UNION {SegmentsOfPolygon(s.areas[i][j]) : j \in DOMAIN s.areas[i]}

\* locateOnPolygonal: a node of the member is on its boundary.
LocateOnPolygonal(s, p, parent, i) ==
    IF parent = i THEN Boundary ELSE LocateInRings(p, SegmentsOfArea(s, i))

OnPolygons(s, p, located) ==
    LET on == {i \in DOMAIN located : located[i] = Boundary}
    IN  IF \E i \in DOMAIN located : located[i] = Interior THEN Interior
        ELSE IF on = {} THEN Exterior
        ELSE IF Cardinality(on) = 1 THEN Boundary
        ELSE LocateAdjacent(s, p)

LocateOnPolygons(s, p, parent) ==
    OnPolygons(s, p, [i \in DOMAIN s.areas |-> LocateOnPolygonal(s, p, parent, i)])

\* computeDimLocation: areas before lines before points.  The parent is the
\* areal member a node belongs to, 0 for none.
NoParent == 0

AreaFirst(onArea, otherwise) == IF onArea # Exterior THEN <<DimA, onArea>> ELSE otherwise

LineFirst(onLine, otherwise) == IF onLine # Exterior THEN <<DimL, onLine>> ELSE otherwise

ComputeDimLocation(s, p, isNode, parent) ==
    AreaFirst(LocateOnPolygons(s, p, parent),
              LineFirst(IF s.lines = <<>> THEN Exterior ELSE LocateOnLines(s, p, isNode),
                        IF p \in s.points THEN <<DimP, Interior>> ELSE Outside))

LocateWithDim(s, p) ==
    IF IsEmpty(s) THEN Outside ELSE ComputeDimLocation(s, p, FALSE, NoParent)

\* A node of a purely polygonal geometry is on its boundary.
LocateNodeWithDim(s, p, parent) ==
    IF IsEmpty(s) THEN Outside
    ELSE IF IsPolygonal(s) THEN <<DimA, Boundary>>
    ELSE ComputeDimLocation(s, p, TRUE, parent)

LocateNode(s, p, parent) == LocateNodeWithDim(s, p, parent)[2]

LocateLineEndWithDim(s, p) ==
    AreaFirst(LocateOnPolygons(s, p, NoParent),
              <<DimL, IF IsLineBoundary(s, p) THEN Boundary ELSE Interior>>)

\* The points of a geometry that no line or area of it covers; a line of zero
\* length counts as its point where both operands count as points.
EffectivePointSet(s) ==
    s.points \cup (IF DimensionReal(s) = DimP
                   THEN {s.lines[i][1] : i \in DOMAIN s.lines} ELSE {})

EffectivePoints(s) ==
    IF DimensionReal(s) <= DimP THEN s.points
    ELSE {p \in s.points : LocateWithDim(s, p)[1] = DimP}

(***************************************************************************)
(* Segment strings: the lines and rings of an operand that meet the clip   *)
(* envelope, and the sections they have at a point.                        *)
(***************************************************************************)
LineStrings(s, isA) ==
    {[isA |-> isA, dim |-> DimL, id |-> i, ring |-> -1, shell |-> FALSE, area |-> NoParent,
      pts |-> s.lines[i], closed |-> s.lines[i][1] = Last(s.lines[i])] : i \in DOMAIN s.lines}

AreaOf(s, n) ==
    CHOOSE i \in DOMAIN s.areas :
        /\ n > Len(FlattenSeq(SubSeq(s.areas, 1, i - 1)))
        /\ n <= Len(FlattenSeq(SubSeq(s.areas, 1, i)))

RingStrings(s, isA, n) ==
    {[isA |-> isA, dim |-> DimA, id |-> Len(s.lines) + n, ring |-> k - 1, shell |-> k = 1,
      area |-> AreaOf(s, n), pts |-> OrientedRing(PolygonsOf(s)[n], k), closed |-> TRUE]
        : k \in DOMAIN PolygonsOf(s)[n]}

ExtractSegmentStrings(s, isA, clip) ==
    {l \in LineStrings(s, isA) : EnvelopesIntersect(clip, EnvelopeOf(ToSet(l.pts)))}
        \cup UNION {RingStrings(s, isA, n) : n \in
                {m \in DOMAIN PolygonsOf(s) :
                    EnvelopesIntersect(clip, EnvelopeOf(PointsOfPolygon(PolygonsOf(s)[m])))}}

\* Directions from p to the vertex before it and the vertex after it, along
\* segment i of a string.
PrevVertex(str, i, p) ==
    IF str.pts[i] # p THEN Direction(p, str.pts[i])
    ELSE IF i > 1 THEN Direction(p, str.pts[i - 1])
    ELSE IF str.closed THEN Direction(p, str.pts[Len(str.pts) - 1]) ELSE NoVertex

NextVertex(str, i, p) ==
    IF str.pts[i + 1] # p THEN Direction(p, str.pts[i + 1])
    ELSE IF i < Len(str.pts) - 1 THEN Direction(p, str.pts[i + 2])
    ELSE IF str.closed THEN Direction(p, str.pts[2]) ELSE NoVertex

\* The segment that owns an intersection at p: the one that starts there, or
\* the last one of an open line.
IsContainingSegment(str, i, p) ==
    p = str.pts[i + 1] => (~str.closed /\ i = Len(str.pts) - 1)

CreateNodeSection(str, i, p) ==
    [isA |-> str.isA, dim |-> str.dim, id |-> str.id, ring |-> str.ring, shell |-> str.shell,
     area |-> str.area, v0 |-> PrevVertex(str, i, p), v1 |-> NextVertex(str, i, p)]

=============================================================================
