------------------------------- MODULE Planar -------------------------------
(***************************************************************************)
(* The plane the geometries are drawn on, and the planar kernel            *)
(* (kernel/planar) on it.  The plane is a square of Side by Side cells,    *)
(* four units wide, with both diagonals of every cell drawn.  Where every  *)
(* segment of a geometry runs along a drawn line, two segments meet in     *)
(* drawn vertices only, and the geometry is known at finitely many sample  *)
(* points, one for each vertex, edge and face of the drawing.              *)
(***************************************************************************)
EXTENDS Integers, FiniteSets, SequencesExt

CONSTANT Side        \* number of cells along a side

ASSUME SideAssumption == Side \in Nat \ {0}

Span == 0..(4 * Side)

Corners == {<<4 * i, 4 * j>> : i \in 0..Side, j \in 0..Side}
Centres == {<<4 * i + 2, 4 * j + 2>> : i \in 0..(Side - 1), j \in 0..(Side - 1)}
Vertices == Corners \cup Centres

Shifted(P, dx, dy) == {<<p[1] + dx, p[2] + dy>> : p \in P}

\* One point in the middle of every drawn edge: the sides of the cells and
\* the half diagonals.
EdgeMids ==
    {p \in Shifted(Corners, 2, 0) \cup Shifted(Corners, 0, 2) : p[1] \in Span /\ p[2] \in Span}
        \cup UNION {Shifted(Centres, dx, dy) : dx \in {-1, 1}, dy \in {-1, 1}}

\* One point in each of the four triangles of every cell.
FacePoints == UNION {Shifted(Centres, d[1], d[2]) : d \in {<<1, 0>>, <<-1, 0>>, <<0, 1>>, <<0, -1>>}}

Samples == Vertices \cup EdgeMids \cup FacePoints

\* The dimension of the cell of the drawing that a sample point stands for.
CellDim(p) == IF p \in FacePoints THEN 2 ELSE IF p \in EdgeMids THEN 1 ELSE 0

\* Twice the signed area of the triangle a, b, p: positive when p is to the
\* left of the line from a to b.
Cross(a, b, p) ==
    (b[1] - a[1]) * (p[2] - a[2]) - (b[2] - a[2]) * (p[1] - a[1])

Between(u, v, w) == (u <= v /\ v <= w) \/ (w <= v /\ v <= u)

\* isOnSegment: collinear and within the envelope of the segment.
OnSegment(p, a, b) ==
    /\ Cross(a, b, p) = 0
    /\ Between(a[1], p[1], b[1])
    /\ Between(a[2], p[2], b[2])

Sign(n) == IF n > 0 THEN 1 ELSE IF n < 0 THEN -1 ELSE 0

Directions == 0..7

\* The direction from o to p, counted counterclockwise from the positive
\* x axis: the order of quadrantOf and compareAngle.
Direction(o, p) ==
    LET at == <<Sign(p[1] - o[1]), Sign(p[2] - o[2])>>
    IN  CASE at = <<1, 0>> -> 0
          [] at = <<1, 1>> -> 1
          [] at = <<0, 1>> -> 2
          [] at = <<-1, 1>> -> 3
          [] at = <<-1, 0>> -> 4
          [] at = <<-1, -1>> -> 5
          [] at = <<0, -1>> -> 6
          [] at = <<1, -1>> -> 7

\* compareAngle: which of two directions is the greater.
CompareAngle(d, e) == Sign(d - e)

\* The number of eighths of a turn from d to e, counterclockwise.
Turn(d, e) == (e - d + 8) % 8

\* A line the drawing holds: horizontal, vertical or diagonal, from vertex to
\* vertex; horizontal and vertical ones run along the sides of the cells.
Drawn(a, b) ==
    /\ a \in Vertices /\ b \in Vertices
    /\ \/ a[1] = b[1] /\ a[1] % 4 = 0
       \/ a[2] = b[2] /\ a[2] % 4 = 0
       \/ a[1] - b[1] \in {a[2] - b[2], b[2] - a[2]}

\* Vertices of the drawing on a segment.
VerticesOn(a, b) == {v \in Vertices : OnSegment(v, a, b)}

\* The even-odd rule of the ray casting counter: the edges of the rings that
\* a ray to the right of p crosses.
CrossesRay(p, a, b) ==
    /\ (a[2] > p[2]) # (b[2] > p[2])
    /\ (Cross(a, b, p) > 0) = (b[2] > a[2])

SegmentsOf(line) == {<<line[i], line[i + 1]>> : i \in 1..(Len(line) - 1)}

\* Locations and dimensions, with the values of the code.
Exterior == 0
Boundary == 1
Interior == 2
Locations == 0..2

DimFalse == -1
DimP == 0
DimL == 1
DimA == 2

\* IndexedPointLocator.Locate: on a segment of the rings, or by the parity
\* of the crossings.
LocateInRings(p, segments) ==
    IF \E s \in segments : OnSegment(p, s[1], s[2]) THEN Boundary
    ELSE IF Cardinality({s \in segments : CrossesRay(p, s[1], s[2])}) % 2 = 1
    THEN Interior ELSE Exterior

-----------------------------------------------------------------------------
(***************************************************************************)
(* The kernel on integer coordinates, where its arithmetic is exact:       *)
(* orientation, the two forms of the intersection of segments, distances,  *)
(* the point in ring test and the area of a ring.  An intersection point   *)
(* is a quotient; on the lattice it is a vertex.                           *)
(***************************************************************************)
\* The order of points: by x, then by y.
Before(p, q) == p[1] < q[1] \/ (p[1] = q[1] /\ p[2] < q[2])

LeastPoint(S) == CHOOSE p \in S : \A q \in S : p = q \/ Before(p, q)

Abs(n) == IF n < 0 THEN -n ELSE n

\* Orient: positive for a counterclockwise turn.
Orient(a, b, c) == Sign(Cross(a, b, c))

\* The parameters of the point where the lines of two segments meet.
Denominator(a1, a2, b1, b2) == (a2[1] - a1[1]) * (b2[2] - b1[2]) - (a2[2] - a1[2]) * (b2[1] - b1[1])
TNum(a1, b1, b2) == (b1[1] - a1[1]) * (b2[2] - b1[2]) - (b1[2] - a1[2]) * (b2[1] - b1[1])
UNum(a1, a2, b1) == (b1[1] - a1[1]) * (a2[2] - a1[2]) - (b1[2] - a1[2]) * (a2[1] - a1[1])

\* 0 <= n / d <= 1.
InUnit(n, d) == IF d > 0 THEN n \in 0..d ELSE n \in d..0

Along(a, b, n, d) ==
    LET part(i) == a[i] + ((n * Sign(d) * (b[i] - a[i])) \div Abs(d))
    IN  <<part(1), part(2)>>

\* SegmentIntersection: the point, if the segments are not parallel.
SegmentIntersection(a1, a2, b1, b2) ==
    LET d == Denominator(a1, a2, b1, b2)
    IN  IF d # 0 /\ InUnit(TNum(a1, b1, b2), d) /\ InUnit(UNum(a1, a2, b1), d)
        THEN {Along(a1, a2, TNum(a1, b1, b2), d)} ELSE {}

\* envelopeIntersects and pointOnSegment.
InEnvelope(a, b, p) == Between(a[1], p[1], b[1]) /\ Between(a[2], p[2], b[2])

NoMeeting == [kind |-> "none", at |-> {}]
MeetAt(p) == [kind |-> "point", at |-> {p}]
MeetAlong(p, q) == [kind |-> "overlap", at |-> {p, q}]

\* The collinear case: one end of each segment may lie in the other, and a
\* single shared end is a point.
Collinearly(a1, a2, b1, b2) ==
    LET inA == {b \in {b1, b2} : InEnvelope(a1, a2, b)}
        inB == {a \in {a1, a2} : InEnvelope(b1, b2, a)}
    IN  CASE a1 = a2 -> IF OnSegment(a1, b1, b2) THEN MeetAt(a1) ELSE NoMeeting
          [] a1 # a2 /\ inA = {b1, b2} -> IF b1 = b2 THEN MeetAt(b1) ELSE MeetAlong(b1, b2)
          [] a1 # a2 /\ inA # {b1, b2} /\ inB = {a1, a2} -> MeetAlong(a1, a2)
          [] a1 # a2 /\ inA # {b1, b2} /\ inB # {a1, a2} ->
                IF inA = {} \/ inB = {} THEN NoMeeting
                ELSE IF inA = inB THEN [kind |-> "point", at |-> inA]
                ELSE [kind |-> "overlap", at |-> inA \cup inB]

\* SegmentIntersect; a parameter of zero or one gives the end itself, which is
\* the quotient too where the arithmetic is exact.
SegmentIntersect(a1, a2, b1, b2) ==
    IF Denominator(a1, a2, b1, b2) # 0
    THEN LET p == SegmentIntersection(a1, a2, b1, b2)
         IN  IF p = {} THEN NoMeeting ELSE [kind |-> "point", at |-> p]
    ELSE IF Orient(a1, a2, b1) # 0 THEN NoMeeting
    ELSE Collinearly(a1, a2, b1, b2)

Squared(p, q) == (p[1] - q[1]) * (p[1] - q[1]) + (p[2] - q[2]) * (p[2] - q[2])

\* SegmentDistanceSq, as a quotient [num, den]: the distance from p to the
\* nearer end, or to the foot of the perpendicular when that is in between.
SegmentDistanceSq(p, a, b) ==
    LET den == Squared(a, b)
        t == (p[1] - a[1]) * (b[1] - a[1]) + (p[2] - a[2]) * (b[2] - a[2])
    IN  IF den = 0 \/ t <= 0 THEN [num |-> Squared(p, a), den |-> 1]
        ELSE IF t >= den THEN [num |-> Squared(p, b), den |-> 1]
        ELSE [num |-> Cross(a, b, p) * Cross(a, b, p), den |-> den]

\* PointInRing: on a segment, or by the parity of the crossings of a ray.
PointInRing(p, ring) ==
    LET edges == 1..(Len(ring) - 1)
    IN  IF Len(ring) < 4 THEN Exterior
        ELSE IF \E i \in edges : OnSegment(p, ring[i], ring[i + 1]) THEN Boundary
        ELSE IF Cardinality({i \in edges : CrossesRay(p, ring[i], ring[i + 1])}) % 2 = 1
        THEN Interior ELSE Exterior

\* RingArea, doubled.
TwiceRingArea(ring) ==
    IF Len(ring) < 3 THEN 0
    ELSE FoldLeft(LAMBDA sum, i : sum + ring[i][1] * ring[i + 1][2] - ring[i + 1][1] * ring[i][2],
                  0, [i \in 1..(Len(ring) - 1) |-> i])

=============================================================================
