------------------------------ MODULE SnapGrid ------------------------------
(***************************************************************************)
(* internal/snap and index/kdtree.go: what vertices are snapped to.  A     *)
(* Rounder rounds them to a grid whose cells have an even side, so that    *)
(* the corners of the cells are on the lattice; the k-d tree snaps the     *)
(* points it is given to points it holds.                                  *)
(***************************************************************************)
EXTENDS Noding, TLC

CONSTANT Tolerance    \* the side of a cell of the grid

ASSUME ToleranceAssumption == Tolerance \in Nat \ {0} /\ Tolerance % 2 = 0

Half == Tolerance \div 2

-----------------------------------------------------------------------------
(***************************************************************************)
(* Rounder.                                                                *)
(***************************************************************************)
Snapped(pts) == WithoutRepeats(OnGrid(pts, Tolerance))

\* SnapRing: closed again, or nothing if fewer than four vertices are left.
ClosedAgain(pts) == IF pts # <<>> /\ pts[1] # Last(pts) THEN Append(pts, pts[1]) ELSE pts

OrNothing(pts) == IF Len(pts) < 4 THEN <<>> ELSE pts

SnapRing(ring) == OrNothing(ClosedAgain(Snapped(ring)))

\* SnapPolygon: nothing without its shell; holes that collapse are dropped.
SnapPolygon(rings) ==
    IF rings = <<>> \/ SnapRing(rings[1]) = <<>> THEN <<>>
    ELSE SelectSeq([k \in DOMAIN rings |-> SnapRing(rings[k])], LAMBDA r : r # <<>>)

-----------------------------------------------------------------------------
(***************************************************************************)
(* Hot pixels.                                                             *)
(***************************************************************************)
\* QuerySegment: the pixels whose cell meets the envelope of a segment.
QuerySegment(pixels, a, b) ==
    {c \in pixels : \A i \in {1, 2} : c[i] + Half >= Low(a[i], b[i]) /\ c[i] - Half <= High(a[i], b[i])}

\* segmentIntersectsPixel: the cell without its top and its right side.
IntersectsPixel(a, b, c) ==
    LET p == IF a[1] > b[1] THEN b ELSE a
        q == IF a[1] > b[1] THEN a ELSE b
        side(dx, dy) == Orient(p, q, <<c[1] + dx * Half, c[2] + dy * Half>>)
        ul == side(-1, 1)
        ur == side(1, 1)
        ll == side(-1, -1)
        lr == side(1, -1)
    IN  /\ \A i \in {1, 2} : Low(p[i], q[i]) < c[i] + Half /\ High(p[i], q[i]) >= c[i] - Half
        /\ IF p[1] = q[1] \/ p[2] = q[2] THEN TRUE
           ELSE IF ul = 0 THEN p[2] >= q[2]
           ELSE IF ur = 0 THEN p[2] <= q[2]
           ELSE IF ul # ur \/ ll # ul THEN TRUE
           ELSE IF lr = 0 THEN p[2] >= q[2]
           ELSE ll # lr \/ lr # ur

\* projectedSegmentParam.
ProjectedParam(a, b, p) ==
    [n |-> (p[1] - a[1]) * (b[1] - a[1]) + (p[2] - a[2]) * (b[2] - a[2]), d |-> Squared(a, b)]

IsNear(p, a, b) ==
    LET sq == SegmentDistanceSq(p, a, b) IN sq.num < Tolerance * Tolerance * sq.den

\* Of two splits at the same place the first by coordinate is kept.
FirstAtTheirPlace(splits) ==
    {s \in splits : \A r \in splits : Before(r.at, s.at) => Sooner(r, s) \/ Sooner(s, r)}

PointsOf(splits) == [k \in DOMAIN splits |-> splits[k].at]

\* segmentSplits: the pixels a segment passes, by their place along it.
SegmentSplits(pixels, a, b, relaxed) ==
    LET passed(c) == IF relaxed THEN IsNear(c, a, b) ELSE IntersectsPixel(a, b, c)
        param(c) == IF relaxed THEN ProjectedParam(a, b, c) ELSE SegmentParam(a, b, Whole(c))
        splits == {[t |-> param(c), at |-> c] : c \in {c \in QuerySegment(pixels, a, b) \ {a, b} : passed(c)}}
    IN  PointsOf(InOrder(FirstAtTheirPlace({s \in splits : IsInside(s)})))

SegmentSplitsAt(pixels, a, b) == SegmentSplits(pixels, a, b, FALSE)
SegmentSplitsAtRelaxed(pixels, a, b) == SegmentSplits(pixels, a, b, TRUE)

SnapAndDedupe(strings) == [i \in DOMAIN strings |-> Str(Snapped(strings[i].coords), strings[i].tag)]

\* The hot pixels of some strings: their vertices.
PixelsOf(strings) == UNION {ToSet(strings[i].coords) : i \in DOMAIN strings}

\* Vertices with the points between them; splits[i] come after vertex i.
Threaded(pts, splits) ==
    WithoutRepeats(FlattenSeq([i \in DOMAIN splits |-> <<pts[i]>> \o splits[i]]) \o <<Last(pts)>>)

\* NodeRing: the vertices of a ring and the pixels between them.
NodeRing(pixels, ring) ==
    IF Len(ring) < 2 THEN ring
    ELSE OrNothing(ClosedAgain(Threaded(ring, [i \in 1..(Len(ring) - 1) |-> SegmentSplitsAt(pixels, ring[i], ring[i + 1])])))

-----------------------------------------------------------------------------
(***************************************************************************)
(* The k-d tree: a function from places to nodes, a place being the turns  *)
(* that lead to it from the root; nodes split by x at even depths and by y *)
(* at odd ones.                                                            *)
(***************************************************************************)
Turns == {"left", "right"}
Walks == Seq(Turns)

NoTree == [place \in {} |-> 0]
NoPlace == <<"none">>

AxisAt(place) == 1 + (Len(place) % 2)

\* The place below a node on whose side p is.
Below(tree, place, p) ==
    Append(place, IF p[AxisAt(place)] < tree[place].at[AxisAt(place)] THEN "left" ELSE "right")

\* queryEnvelope: nodes within a box, on the sides that the box reaches.
Reaches(tree, box, place, k) ==
    LET node == SubSeq(place, 1, k)
        split == tree[node].at[AxisAt(node)]
    IN  IF place[k + 1] = "left" THEN box[1][AxisAt(node)] <= split ELSE box[2][AxisAt(node)] >= split

QueryAll(tree, box) ==
    {place \in DOMAIN tree :
        /\ \A i \in {1, 2} : box[1][i] <= tree[place].at[i] /\ tree[place].at[i] <= box[2][i]
        /\ \A k \in 0..(Len(place) - 1) : Reaches(tree, box, place, k)}

\* findBestMatchNode: the nearest node within the tolerance, of several the
\* first by coordinate.
Matches(tree, p, tol) ==
    {place \in QueryAll(tree, <<<<p[1] - tol, p[2] - tol>>, <<p[1] + tol, p[2] + tol>>>>) :
        Squared(p, tree[place].at) <= tol * tol}

BestMatch(tree, p, tol) ==
    LET closer(q, r) == Squared(p, q) < Squared(p, r) \/ (Squared(p, q) = Squared(p, r) /\ Before(q, r))
    IN  CHOOSE m \in Matches(tree, p, tol) :
            \A n \in Matches(tree, p, tol) : n = m \/ closer(tree[m].at, tree[n].at)

\* insertExact: the walk to a free place, or to a node at the point.
PlaceOf(tree, p, tol) ==
    LET walk[place \in Walks] ==
            IF place \notin DOMAIN tree \/ Squared(p, tree[place].at) <= tol * tol THEN place
            ELSE walk[Below(tree, place, p)]
    IN  walk[<<>>]

Insert(tree, p, tol) ==
    LET snaps == tol > 0 /\ Matches(tree, p, tol) # {}
        place == IF snaps THEN BestMatch(tree, p, tol) ELSE PlaceOf(tree, p, tol)
    IN  IF place \in DOMAIN tree THEN [tree EXCEPT ![place].count = @ + 1]
        ELSE (place :> [at |-> p, count |-> 1]) @@ tree

\* The point that an inserted point became.
CanonOf(tree, p, tol) ==
    IF tol > 0 /\ Matches(tree, p, tol) # {} THEN tree[BestMatch(tree, p, tol)].at ELSE p

\* QueryPoint: the walk to a point, without a tolerance.
QueryPoint(tree, p) == PlaceOf(tree, p, 0)

\* NearestNeighbor: the side of the point first, the other side if the
\* splitting line is nearer than the best so far.
NearestNeighbor(tree, p) ==
    LET distance(place) == Squared(p, tree[place].at)
        visit[s \in [stack : Seq(Walks), best : Seq(Turns \cup {"none"})]] ==
            LET top == Last(s.stack)
                best == IF s.best = NoPlace THEN top ELSE IF distance(top) < distance(s.best) THEN top ELSE s.best
                diff == p[AxisAt(top)] - tree[top].at[AxisAt(top)]
                near == Append(top, IF diff < 0 THEN "left" ELSE "right")
                far == Append(top, IF diff < 0 THEN "right" ELSE "left")
                pushed ==
                    SelectSeq(<<far, near>>, LAMBDA c : c \in DOMAIN tree /\ (c = near \/ diff * diff < distance(best)))
            IN  IF s.stack = <<>> \/ (s.best # NoPlace /\ distance(s.best) = 0) THEN s.best
                ELSE visit[[stack |-> Front(s.stack) \o pushed, best |-> best]]
    IN  visit[[stack |-> IF tree = NoTree THEN <<>> ELSE <<<<>>>>, best |-> NoPlace]]

Depth(tree) == Max({0} \cup {Len(place) + 1 : place \in DOMAIN tree})

=============================================================================
