----------------------------- MODULE Polygonize -----------------------------
(***************************************************************************)
(* polygonize.Polygonize: closed lines that cross themselves are reported, *)
(* lines with a free end are removed one after another, the faces of what  *)
(* is left are traced, and every face but the outer one is a polygon or a  *)
(* hole in the smallest polygon around it.                                 *)
(***************************************************************************)
EXTENDS LineGraph

VARIABLES
    step,       \* "loops", "dangles", "trace" or "done"
    edges,      \* the half-edges to trace
    out,        \* the half-edges the nodes list
    queue,      \* nodes that may have a free end
    invalid,    \* closed lines that cross themselves
    dangles,    \* lines removed for their free end
    visited,    \* half-edges on a face
    rings,      \* the faces: their points and their half-edges
    answer      \* the polygons and the cut edges

polygonizeVars == <<step, edges, out, queue, invalid, dangles, visited, rings, answer>>

NoAnswer == [polygons |-> <<>>, cutEdges |-> {}]

\* addEdge: both directions of a line of two points or more.
Walkable == {l \in LineIds : Len(lines[l]) >= 2}
AllHalves == Walkable \X BOOLEAN

\* The list of all half-edges and those of the nodes are in the order of the
\* lines, each line's own direction first; nothing that is removed changes it.
IsEarlier(h, g) == h[1] < g[1] \/ (h[1] = g[1] /\ ~h[2] /\ g[2])

PolygonizeInit ==
    /\ step = "loops"
    /\ edges = AllHalves /\ out = AllHalves
    /\ queue = {} /\ invalid = {} /\ dangles = {} /\ visited = {} /\ rings = <<>>
    /\ answer = NoAnswer

\* segmentsCross: each segment has the ends of the other on different sides.
SegmentsCross(a, b, c, d) ==
    /\ Sign(Cross(a, b, c)) # Sign(Cross(a, b, d))
    /\ Sign(Cross(c, d, a)) # Sign(Cross(c, d, b))

\* ringLineworkSimple: segments that are not neighbours do not cross.
RingLineworkSimple(pts) ==
    LET n == Len(pts) - 1
    IN  /\ n >= 3
        /\ \A i, j \in 1..n :
              (j >= i + 2 /\ ~(i = 1 /\ j = n)) => ~SegmentsCross(pts[i], pts[i + 1], pts[j], pts[j + 1])

IsInvalidLoop(l) == IsClosed(l) /\ ~RingLineworkSimple(lines[l])

NodesOf(halves) == {From(h) : h \in halves}

\* degreeOf: the lines at a node, two for a closed one.
DegreeIn(halves, p) ==
    LET at == {h[1] : h \in {g \in halves : From(g) = p}}
    IN  IF \E l \in at : IsClosed(l) THEN 2 ELSE Cardinality(at)

FreeEnds(halves) == {p \in NodesOf(halves) : DegreeIn(halves, p) <= 1}

\* removeInvalidRingLoops, and the first nodes of removeDangles.  The forward
\* half of an invalid loop goes; its reverse half is kept, and with it both
\* halves in the lists of the nodes.
RemoveInvalidRingLoops ==
    /\ step = "loops"
    /\ invalid' = {h[1] : h \in {g \in edges : IsInvalidLoop(g[1])}}
    /\ edges' = {h \in edges : h[2] \/ ~IsInvalidLoop(h[1])}
    /\ out' = {h \in out : \E g \in edges' : g[1] = h[1]}
    /\ queue' = FreeEnds(out')
    /\ step' = "dangles"
    /\ UNCHANGED <<lines, dangles, visited, rings, answer>>

Without(halves, removed) == {h \in halves : h[1] \notin removed}

\* The lines at a node that is down to one of them, or none.
Removed(p) == IF p \in FreeEnds(out) THEN {h[1] : h \in {g \in out : From(g) = p}} ELSE {}

RemoveDangleOnce ==
    /\ step = "dangles"
    /\ \E p \in queue :
        /\ dangles' = dangles \cup Removed(p)
        /\ out' = Without(out, Removed(p))
        /\ queue' = queue \ {p}
    /\ UNCHANGED <<lines, step, edges, invalid, visited, rings, answer>>

\* removeDangles takes a node from the queue: the line with the free end is
\* dropped, and the node at its other end may have become free.  The queue
\* starts in the order of a map, so that any node may come next.
RemoveDangle ==
    /\ step = "dangles"
    /\ \E p \in queue :
        LET others == (UNION {EndsOf(l) : l \in Removed(p)}) \ {p}
        IN  /\ dangles' = dangles \cup Removed(p)
            /\ out' = Without(out, Removed(p))
            /\ queue' = (queue \ {p}) \cup (others \cap FreeEnds(out'))
    /\ UNCHANGED <<lines, step, edges, invalid, visited, rings, answer>>

StartTrace ==
    /\ step = "dangles" /\ queue = {}
    /\ edges' = Without(edges, dangles)
    /\ step' = "trace"
    /\ UNCHANGED <<lines, out, queue, invalid, dangles, visited, rings, answer>>

\* nextEdgeClockwise: of the half-edges that leave the node, the one with the
\* largest turn from the direction the walk came from; the way back only when
\* there is no other.
OutDirection(h) == Direction(Points(h)[1], Points(h)[2])

TurnFrom(h, g) ==
    IF OutDirection(Twin(h)) = OutDirection(g) THEN 8 ELSE Turn(OutDirection(Twin(h)), OutDirection(g))

\* Variant: the smallest turn.
NextEdgeCounterclockwise(h) ==
    LET other == {g \in out : From(g) = To(h)} \ {Twin(h)}
    IN  IF other = {} THEN Twin(h)
        ELSE CHOOSE g \in other :
                 \A f \in other \ {g} : \/ TurnFrom(h, g) < TurnFrom(h, f)
                                        \/ TurnFrom(h, g) = TurnFrom(h, f) /\ IsEarlier(g, f)

NextEdgeClockwise(h) ==
    LET other == {g \in out : From(g) = To(h)} \ {Twin(h)}
    IN  IF other = {} THEN Twin(h)
        ELSE CHOOSE g \in other :
                 \A f \in other \ {g} : \/ TurnFrom(h, g) > TurnFrom(h, f)
                                        \/ TurnFrom(h, g) = TurnFrom(h, f) /\ IsEarlier(g, f)

\* traceFace: until the walk is back at its start or on a half-edge that was
\* visited before.
Traced(start) ==
    FoldLeft(LAMBDA walk, i :
                 LET next == NextEdgeClockwise(Last(walk))
                 IN  IF next \in visited \cup ToSet(walk) THEN walk ELSE Append(walk, next),
             <<start>>, [i \in 1..Cardinality(out) |-> i])

Closed(pts) == IF pts[1] = Last(pts) THEN pts ELSE Append(pts, pts[1])

RingOfFace(walk) == [pts |-> Closed(Coordinates(walk)), edges |-> ToSet(walk)]

TraceFace ==
    /\ step = "trace"
    /\ ~ (edges \subseteq visited)
    /\ LET start == CHOOSE h \in edges \ visited : \A g \in (edges \ visited) \ {h} : IsEarlier(h, g)
           walk == Traced(start)
       IN  /\ visited' = visited \cup ToSet(walk)
           /\ rings' = IF Len(Coordinates(walk)) < 3 THEN rings ELSE Append(rings, RingOfFace(walk))
    /\ UNCHANGED <<lines, step, edges, out, queue, invalid, dangles, answer>>

\* classifyRings: the clockwise ring of the largest area is the outer face;
\* counterclockwise rings are shells, other clockwise ones are holes.
AreaOf(r) == ShoelaceOf(r.pts)

OuterRing(faces) ==
    {i \in DOMAIN faces :
        /\ AreaOf(faces[i]) < 0
        /\ \A j \in DOMAIN faces : AreaOf(faces[j]) < 0 =>
              AreaOf(faces[i]) < AreaOf(faces[j]) \/ (AreaOf(faces[i]) = AreaOf(faces[j]) /\ i <= j)}

Shells(faces) == {i \in DOMAIN faces : AreaOf(faces[i]) > 0}

Holes(faces) == {i \in DOMAIN faces : AreaOf(faces[i]) < 0} \ OuterRing(faces)

\* assignHolesToShells: the smallest shell with the first point of the hole
\* strictly inside; a hole that is in no shell is dropped.
Around(faces, h) ==
    {s \in Shells(faces) : LocateInRings(faces[h].pts[1], SegmentsOf(faces[s].pts)) = Interior}

ShellOf(faces, h) ==
    {s \in Around(faces, h) :
        \A t \in Around(faces, h) : AreaOf(faces[s]) < AreaOf(faces[t])
                                      \/ (AreaOf(faces[s]) = AreaOf(faces[t]) /\ s <= t)}

Chosen(faces, S) == SelectSeq([i \in DOMAIN faces |-> i], LAMBDA i : i \in S)

PolygonOf(faces, s) ==
    <<faces[s].pts>>
        \o [i \in DOMAIN Chosen(faces, {h \in Holes(faces) : s \in ShellOf(faces, h)}) |->
               faces[Chosen(faces, {h \in Holes(faces) : s \in ShellOf(faces, h)})[i]].pts]

\* collectCutEdges: lines with neither side on a shell or a hole.
CutEdges(faces) ==
    {h[1] : h \in edges}
        \ {h[1] : h \in UNION {faces[i].edges : i \in Shells(faces) \cup Holes(faces)}}

Assemble ==
    /\ step = "trace"
    /\ edges \subseteq visited
    /\ answer' = [polygons |-> [i \in DOMAIN Chosen(rings, Shells(rings)) |->
                                   PolygonOf(rings, Chosen(rings, Shells(rings))[i])],
                  cutEdges |-> CutEdges(rings)]
    /\ step' = "done"
    /\ UNCHANGED <<lines, edges, out, queue, invalid, dangles, visited, rings>>

PolygonizeOver == step = "done"

=============================================================================
