------------------------------ MODULE MCRelate ------------------------------
(***************************************************************************)
(* The relate engine on pairs of small shapes drawn on a lattice of three  *)
(* by three cells, under seven predicates: every answer is compared with   *)
(* the point sets of the shapes.                                           *)
(***************************************************************************)
EXTENDS Relate, RelateSteps, Validity

Shape(kind, points, lines, areas) == [kind |-> kind, points |-> points, lines |-> lines, areas |-> areas]

Ring(x0, y0, x1, y1) == <<<<x0, y0>>, <<x1, y0>>, <<x1, y1>>, <<x0, y1>>, <<x0, y0>>>>

Polygonal(rings) == Shape("Polygon", {}, <<>>, <<<<rings>>>>)
Lineal(line) == Shape("LineString", {}, <<line>>, <<>>)
Collection(points, lines, areas) == Shape("GeometryCollection", points, lines, areas)

Square == Ring(4, 4, 8, 8)
Quarter == Ring(0, 0, 8, 8)

Library ==
    ("empty" :> Shape("Point", {}, <<>>, <<>>)) @@
    ("point" :> Shape("Point", {<<4, 4>>}, <<>>, <<>>)) @@
    ("points" :> Shape("MultiPoint", {<<4, 4>>, <<6, 6>>, <<12, 4>>}, <<>>, <<>>)) @@
    ("across" :> Lineal(<<<<0, 4>>, <<12, 4>>>>)) @@
    ("rising" :> Lineal(<<<<0, 0>>, <<12, 12>>>>)) @@
    ("falling" :> Lineal(<<<<0, 12>>, <<6, 6>>, <<12, 0>>>>)) @@
    ("bent" :> Lineal(<<<<4, 4>>, <<8, 4>>, <<8, 12>>>>)) @@
    ("loop" :> Lineal(Square)) @@
    ("bowtie" :> Lineal(<<<<0, 0>>, <<8, 8>>, <<8, 0>>, <<0, 8>>>>)) @@
    ("fork" :> Shape("MultiLineString", {},
                     <<<<<<0, 4>>, <<4, 4>>>>, <<<<4, 4>>, <<12, 4>>>>, <<<<8, 8>>, <<4, 8>>>>, <<<<4, 8>>, <<4, 4>>>>>>, <<>>)) @@
    ("square" :> Polygonal(<<Square>>)) @@
    ("whole" :> Polygonal(<<Ring(0, 0, 12, 12)>>)) @@
    ("beside" :> Polygonal(<<Ring(8, 4, 12, 8)>>)) @@
    ("frame" :> Polygonal(<<Ring(0, 0, 12, 12), Square>>)) @@
    ("notched" :> Polygonal(<<Ring(0, 0, 12, 12), <<<<4, 0>>, <<8, 4>>, <<4, 8>>, <<4, 0>>>>>>)) @@
    ("corner" :> Polygonal(<<<<<<0, 0>>, <<12, 0>>, <<12, 4>>, <<4, 4>>, <<4, 12>>, <<0, 12>>, <<0, 0>>>>>>)) @@
    ("turned" :> Polygonal(<<Reverse(Square)>>)) @@
    ("stub" :> Lineal(<<<<4, 4>>, <<4, 4>>>>)) @@
    ("roof" :> Polygonal(<<<<<<4, 4>>, <<8, 8>>, <<12, 4>>, <<4, 4>>>>>>)) @@
    ("twins" :> Shape("MultiPolygon", {}, <<>>, <<<<<<Ring(0, 0, 4, 4)>>, <<Square>>>>>>)) @@
    ("joined" :> Collection({}, <<>>, <<<<<<Square>>>>, <<<<Ring(8, 4, 12, 8)>>>>>>)) @@
    ("layered" :> Collection({}, <<>>, <<<<<<Quarter>>>>, <<<<Ring(4, 4, 12, 12)>>>>>>)) @@
    ("mixed" :> Collection({<<4, 4>>, <<12, 4>>}, <<<<<<4, 4>>, <<12, 4>>>>>>, <<<<<<Quarter>>>>>>))

Names == DOMAIN Library

\* A node is complete when A is noded with itself, or when the areas of B are
\* one: TopologyComputer.IsSelfNodingRequired asks for A alone.
Noded(n, m) == IsSelfNodingRequired(Library[n]) \/ Len(Library[m].areas) <= 1

AnyPattern == [cell \in Cells |-> DontCare]

NamedPredicate ==
    ("relateMatrix" :> [kind |-> "matrix", pattern |-> AnyPattern]) @@
    ("intersects" :> [kind |-> "intersects", pattern |-> AnyPattern]) @@
    ("disjoint" :> [kind |-> "disjoint", pattern |-> AnyPattern]) @@
    ("equals" :> [kind |-> "pattern", pattern |-> PatternOf(<<T, S, F, S, S, F, F, F, S>>)]) @@
    ("contains" :> [kind |-> "pattern", pattern |-> PatternOf(<<T, S, S, S, S, S, F, F, S>>)]) @@
    ("within" :> [kind |-> "pattern", pattern |-> PatternOf(<<T, S, F, S, S, F, S, S, S>>)]) @@
    ("apart" :> [kind |-> "pattern", pattern |-> PatternOf(<<F, F, S, F, F, S, S, S, S>>)])

AllPredicates == {NamedPredicate[n] : n \in DOMAIN NamedPredicate}

\* A line of no length counts as a point, but as a line in the exterior and in
\* the interior of the other operand: it is related here to points alone.
Held(n, m) == IsZeroLengthLine(Library[m]) => Library[n].points # {} /\ Dimension(Library[n]) = DimP

\* Where a hole touches its shell within a segment, and the other operand runs
\* along that segment, the node has the hole and lacks the shell: polygons are
\* not noded with themselves.
Hidden(n, m) == {n, m} = {"whole", "notched"}

\* The operands; see Noded, Held and Hidden for the pairs that are left out.
Pairs == {<<n, m>> \in Names \X Names : Noded(n, m) /\ Held(n, m) /\ Held(m, n) /\ ~Hidden(n, m)}

\* The values of the constants.
MCPredicates == {NamedPredicate[n] : n \in DOMAIN NamedPredicate}

MCMeet(o) == EnvelopesMeet(Library[o[1]], Library[o[2]])

MCOpening(o) == InitExteriorDims(Library[o[1]], Library[o[2]])

MCSteps(o, p) == StepsOf(Library[o[1]], Library[o[2]], p)

-----------------------------------------------------------------------------
(***************************************************************************)
(* What relate means, stated on point sets and apart from the engine: the  *)
(* location of every sample of the drawing in a shape, and the matrix of   *)
(* two shapes as the dimensions of the samples they share.  A collection   *)
(* is the union of its areas, then of its lines, then of its points; lines *)
(* have the boundary of the Mod2 rule.                                     *)
(***************************************************************************)
\* Faces of the drawing within one polygon: inside the shell, in no hole.
FacesOf(poly) ==
    {f \in FacePoints :
        /\ LocateInRings(f, SegmentsOf(poly[1])) = Interior
        /\ \A k \in 2..Len(poly) : LocateInRings(f, SegmentsOf(poly[k])) = Exterior}

\* The faces around a sample: all those that have it in their closure.
Adjacent(p, f) ==
    LET dx == IF p[1] > f[1] THEN p[1] - f[1] ELSE f[1] - p[1]
        dy == IF p[2] > f[2] THEN p[2] - f[2] ELSE f[2] - p[2]
    IN  CASE p \in FacePoints -> p = f
          [] p \in EdgeMids \cup Centres -> dx + dy = 1
          [] p \in Corners -> {dx, dy} = {1, 2}

FacesAround == [p \in Samples |-> {f \in FacePoints : Adjacent(p, f)}]

\* A sample in the outer border of the drawing has the outside around it.
OnBorder(p) == p[1] \in {0, 4 * Side} \/ p[2] \in {0, 4 * Side}

PointLocation(s, covered, p) ==
    IF FacesAround[p] \subseteq covered /\ ~OnBorder(p) THEN Interior
    ELSE IF FacesAround[p] \cap covered # {} THEN Boundary
    ELSE IF \E i \in DOMAIN s.lines : \E g \in SegmentsOf(s.lines[i]) : OnSegment(p, g[1], g[2])
    THEN IF Cardinality({i \in DOMAIN s.lines : s.lines[i][1] = p /\ Last(s.lines[i]) # p})
            + Cardinality({i \in DOMAIN s.lines : Last(s.lines[i]) = p /\ s.lines[i][1] # p}) \in {1, 3, 5}
         THEN Boundary ELSE Interior
    ELSE IF p \in s.points THEN Interior ELSE Exterior

\* The faces that the areas of a shape cover.
Covered(s) == UNION {FacesOf(PolygonsOf(s)[i]) : i \in DOMAIN PolygonsOf(s)}

\* The matrix of two shapes, as facts, from the locations and the dimension
\* of every sample: {<<location in A, location in B, dimension>>}.
MatrixOf(located) ==
    {<<0, 0, d>> : d \in 0..2} \cup UNION {{<<l[1], l[2], d>> : d \in 0..l[3]} : l \in located}

-----------------------------------------------------------------------------
(***************************************************************************)
(* What validity means.  A ring is simple when it runs along no edge twice *)
(* and enters every vertex it visits once.  The rings of a polygon share   *)
(* no edge, its holes lie in the shell and apart, and its interior is one. *)
(***************************************************************************)
Edges(ring) == {i \in 1..(Len(ring) - 1) : ring[i] # ring[i + 1]}

Along1(ring, p) == Cardinality({i \in Edges(ring) : OnSegment(p, ring[i], ring[i + 1])})

\* Visits to a vertex: two ends of edges make one, as does an edge through it.
VertexEnds(ring, p) ==
    Cardinality({i \in Edges(ring) : ring[i] = p}) + Cardinality({i \in Edges(ring) : ring[i + 1] = p})

SimpleRing(ring) ==
    /\ ring[1] = ring[Len(ring)]
    /\ Edges(ring) # {}
    /\ \A m \in EdgeMids : Along1(ring, m) <= 1
    /\ \A v \in Vertices : 2 * Along1(ring, v) - VertexEnds(ring, v) \in {0, 2}

\* Two edges of the ring cross in a vertex that is inside both.
CrossesInside(ring) ==
    \E v \in Vertices, i, j \in Edges(ring) :
        /\ OnSegment(v, ring[i], ring[i + 1]) /\ OnSegment(v, ring[j], ring[j + 1])
        /\ v \notin {ring[i], ring[i + 1], ring[j], ring[j + 1]}
        /\ Cross(ring[i], ring[i + 1], ring[j]) # 0

OnRings(poly) == {m \in EdgeMids : \E k \in DOMAIN poly : Along1(poly[k], m) > 0}

BesideOf == [f \in FacePoints |-> {<<m, g>> \in EdgeMids \X FacePoints : f # g /\ {f, g} = FacesAround[m]}]

\* The faces that can be reached within some faces across the edges that are no wall.
Reached(faces, walls) ==
    FoldLeft(LAMBDA J, k : J \cup {mg[2] : mg \in {mg \in UNION {BesideOf[f] : f \in J} : mg[1] \notin walls /\ mg[2] \in faces}},
             {CHOOSE f \in faces : TRUE}, [k \in 1..Cardinality(faces) |-> k])

IsConnectedWithin(faces, walls) == faces # {} /\ Reached(faces, walls) = faces

InsideOf(ring) == {f \in FacePoints : LocateInRings(f, SegmentsOf(ring)) = Interior}

ShareNoEdge(r, s) == \A m \in EdgeMids : Along1(r, m) = 0 \/ Along1(s, m) = 0

ValidPolygon(poly) ==
    /\ \A k \in DOMAIN poly : SimpleRing(poly[k])
    /\ \A k, l \in DOMAIN poly : k < l =>
        /\ ShareNoEdge(poly[k], poly[l])
        /\ IF k = 1 THEN InsideOf(poly[l]) \subseteq InsideOf(poly[1]) ELSE InsideOf(poly[k]) \cap InsideOf(poly[l]) = {}
    /\ IsConnectedWithin(FacesOf(poly), OnRings(poly))

ValidPolygons(polys) ==
    /\ \A i \in DOMAIN polys : ValidPolygon(polys[i])
    /\ \A i, j \in DOMAIN polys : i < j =>
        /\ FacesOf(polys[i]) \cap FacesOf(polys[j]) = {}
        /\ OnRings(polys[i]) \cap OnRings(polys[j]) = {}

-----------------------------------------------------------------------------
LocationTable ==
    [at \in {<<n, p>> : n \in Names, p \in Samples} |-> PointLocation(Library[at[1]], Covered(Library[at[1]]), at[2])]

\* The cells of the drawing by their locations in two shapes and dimension.
Shared ==
    [o \in Pairs |->
        {<<LocationTable[<<o[1], p>>], LocationTable[<<o[2], p>>], CellDim(p)>> : p \in Samples}]

Reference == [o \in Pairs |-> MatrixOf(Shared[o])]

\* The public predicates on point sets.
Meeting(o) == \E l \in Shared[o] : l[1] # Exterior /\ l[2] # Exterior
WithinInterior(o) == \A l \in Shared[o] : l[2] # Exterior => l[1] = Interior
Covering(o) == Meeting(o) /\ \A l \in Shared[o] : l[2] # Exterior => l[1] # Exterior
Alike(o) == \A l \in Shared[o] : (l[1] = Exterior) = (l[2] = Exterior)
InteriorsMeet(o, dims) == \E l \in Shared[o] : l[1] = Interior /\ l[2] = Interior /\ l[3] \in dims
Beyond(o, i) == \E l \in Shared[o] : l[i] = Interior /\ l[3 - i] = Exterior
DimOf(o, i) == Max({-1} \cup {l[3] : l \in {m \in Shared[o] : m[i] # Exterior}})

Crossing(o) ==
    /\ InteriorsMeet(o, 0..2)
    /\ CASE DimOf(o, 1) < DimOf(o, 2) -> Beyond(o, 1)
         [] DimOf(o, 1) > DimOf(o, 2) -> Beyond(o, 2)
         [] OTHER -> DimOf(o, 1) = 1 /\ ~InteriorsMeet(o, {1})

Overlapping(o) ==
    /\ DimOf(o, 1) = DimOf(o, 2)
    /\ InteriorsMeet(o, {DimOf(o, 1)})
    /\ Beyond(o, 1) /\ Beyond(o, 2)

IsPreparable(o) == IsPolygon(Library[o[1]])
IsRectangle(o) == o[1] \in {"square", "beside"}

\* The operands keep off each other's lines.  PreparedPolygon.Covers is exact
\* there; it takes a line through vertices of a hole or a notch as covered.
Clear(a, b) == \A g \in AllSegmentsOf(b) : ~SegmentHitsAnyEdge(g, AllSegmentsOf(a))

\* Every public predicate, with and without the prepared form, is the
\* relation of the point sets, whichever of its short cuts answers.
PredicatesAgree(o, whole) ==
    LET a == Library[o[1]]
        b == Library[o[2]]
        forms == IF IsPreparable(o) THEN BOOLEAN ELSE {FALSE}
    IN  /\ \A prepared \in forms :
            /\ IntersectsWith(a, b, whole, prepared) = Meeting(o)
            /\ ContainsWith(a, b, whole, prepared) = (Covering(o) /\ InteriorsMeet(o, 0..2))
            /\ Covering(o) => CoversWith(a, b, whole, prepared)
            /\ CoversWith(a, b, whole, prepared) /\ (prepared => Clear(a, b)) => Covering(o)
        /\ EqualsWith(a, b, whole) = (Alike(o) /\ ~PointZeroLengthLinePair(a, b))
        /\ TouchesWith(a, b, whole) = (Meeting(o) /\ ~InteriorsMeet(o, 0..2))
        /\ CrossesWith(a, b, whole) = Crossing(o) \/ IsZeroLengthLine(a) \/ IsZeroLengthLine(b)
        /\ OverlapsWith(a, b, whole) = Overlapping(o)
        /\ ContainsProperly(a, b, whole) = (WithinInterior(o) /\ Meeting(o))

\* The forms that need no matrix.
ShortCutsAgree(o) ==
    LET a == Library[o[1]]
        b == Library[o[2]]
    IN  /\ IsPreparable(o) /\ ~IsEmpty(b) =>
            /\ PolygonContainsProperly(PolygonOf(a), b) = (WithinInterior(o) /\ Meeting(o))
            /\ Meeting(o) => PolygonIntersectsEnvelope(PolygonOf(a), Envelope(b))
        /\ a.kind = "LineString" /\ ~IsEmpty(b) => LineStringIntersects(a.lines[1], b) = Meeting(o)
        /\ a.kind = "LineString" /\ IsRectangle(<<o[2]>>) =>
            LineIntersectsEnvelope(a.lines[1], Envelope(b)) = Meeting(o)
        /\ IsRectangle(o) =>
            /\ RectangleIntersects(a, b) = Meeting(o)
            /\ RectangleContains(a, b) = (Covering(o) /\ InteriorsMeet(o, 0..2))

\* Polygonal geometries made of both operands: their polygons together, the one
\* shell with the other as its hole, and both shells as holes of a third.
Together(o) == PolygonsOf(Library[o[1]]) \o PolygonsOf(Library[o[2]])
ShellOf(n) == PolygonOf(Library[n])[1]
HoleIn(o) == <<ShellOf(o[1]), ShellOf(o[2])>>
HolesIn(o) == <<ShellOf("whole"), ShellOf(o[1]), ShellOf(o[2])>>

\* The roof over the hole of the frame has no vertex inside the frame, and its
\* centroid is on the hole: their overlap is missed.
Unseen(o) == {o[1], o[2]} = {"frame", "roof"}

\* A ring that runs along two lines.
RingAlong(a, b) == a.lines[1] \o b.lines[1] \o <<a.lines[1][1]>>
IsDrawn(ring) == \A i \in 1..(Len(ring) - 1) : ring[i] = ring[i + 1] \/ Drawn(ring[i], ring[i + 1])

RingValidity(ring) ==
    /\ (LinearRingDefects(ring) = {} /\ TwiceRingArea(ring) # 0) = SimpleRing(ring)
    /\ (PolygonDefects(<<ring>>, FALSE) = {}) = SimpleRing(ring)
    /\ PolygonDefects(<<ring>>, TRUE) \subseteq PolygonDefects(<<ring>>, FALSE)
    /\ PolygonDefects(<<ring>>, TRUE) = {} => ~CrossesInside(ring)

\* The repair takes a hole away that has a vertex in the shell and adds one that
\* is apart from it.
RepairedArea(shell, hole) ==
    IF InsideOf(shell) \cap InsideOf(hole) = {} THEN InsideOf(shell) \cup InsideOf(hole) ELSE InsideOf(shell) \ InsideOf(hole)

Repairs(o) ==
    LET shell == ShellOf(o[1])
        hole == ShellOf(o[2])
    IN  /\ IsRepairable(HoleIn(o))
        /\ ClassifyHole(hole, shell) # "outside" \/ InsideOf(shell) \cap InsideOf(hole) = {}
        =>
            MakeValidPolygon(<<shell, hole>>).area = RepairedArea(shell, hole)

\* Validate accepts what is valid as point sets, and nothing else.
ValidityAgrees(o) ==
    LET a == Library[o[1]]
        b == Library[o[2]]
    IN  /\ a.areas # <<>> /\ b.areas # <<>> /\ ~Unseen(o) =>
            (MultiPolygonDefects(Together(o), FALSE) = {}) = ValidPolygons(Together(o))
        /\ IsPolygon(a) /\ IsPolygon(b) =>
            /\ (PolygonDefects(HoleIn(o), FALSE) = {}) = ValidPolygon(HoleIn(o))
            /\ (PolygonDefects(HolesIn(o), FALSE) = {}) = ValidPolygon(HolesIn(o))
            /\ Repairs(o)
        /\ a.kind = "LineString" /\ b.kind = "LineString" /\ IsDrawn(RingAlong(a, b)) => RingValidity(RingAlong(a, b))
        /\ Validate(a) = (IF IsZeroLengthLine(a) THEN {"line-too-few-points"} ELSE {})
        /\ Fix(a).area = Covered(a) /\ Fix(a).points \subseteq CoordsOf(a)

\* Every answer is the one of the point sets: the matrix of the engine is the
\* matrix of the sets, and each predicate has the value it has there, however
\* early it is returned; what Validate says of the geometries is true there too.
AnswerIsPointSet ==
    answer # Unknown =>
        LET whole == Reference[query.of]
        IN  /\ answer = Known(ValueOf(query.predicate, whole))
            /\ query.predicate.kind = "matrix" =>
                im = whole /\ PredicatesAgree(query.of, im) /\ ShortCutsAgree(query.of) /\ ValidityAgrees(query.of)

=============================================================================
