----------------------------- MODULE RelateSteps -----------------------------
(***************************************************************************)
(* The topology computer: what each test of the engine adds to the matrix. *)
(* None of it depends on the matrix so far, so an evaluation is a sequence *)
(* of phases that is fixed by the operands and the predicate; a phase is   *)
(* the set of the updates its tests make, in an order the code leaves to a *)
(* map or to an index (one update alone, where the code fixes the order).  *)
(***************************************************************************)
EXTENDS RelateGeometry, RelatePredicate

\* updateDimAB
RaiseAB(isAB, loc1, loc2, dim) ==
    IF isAB THEN Raise(loc1, loc2, dim) ELSE Raise(loc2, loc1, dim)

EnvelopesMeet(a, b) == EnvelopesIntersect(Envelope(a), Envelope(b))

\* initExteriorEmpty: the whole of a geometry is outside an empty one.
OutsideEmpty(s, isA) ==
    LET dim == Dimension(s)
    IN  IF dim = DimFalse THEN {}
        ELSE RaiseAB(isA, Interior, Exterior, dim)
                \cup (IF dim = DimA THEN RaiseAB(isA, Boundary, Exterior, DimL) ELSE {})
                \cup (IF dim = DimL /\ HasBoundary(s) THEN RaiseAB(isA, Boundary, Exterior, DimP) ELSE {})

\* initExteriorDims: the operand of the greater dimension lies partly outside
\* the other one.
Outreaches(s, t, isA) ==
    LET ds == DimensionReal(s)
        dt == DimensionReal(t)
    IN  IF dt \in {DimP, DimL} /\ ds > dt
        THEN RaiseAB(isA, Interior, Exterior, ds)
                \cup (IF ds = DimA /\ dt = DimP THEN RaiseAB(isA, Boundary, Exterior, DimL) ELSE {})
        ELSE {}

InitExteriorDims(a, b) ==
    IF IsEmpty(a) \/ IsEmpty(b)
    THEN OutsideEmpty(a, TRUE) \cup OutsideEmpty(b, FALSE)
    ELSE Outreaches(a, b, TRUE) \cup Outreaches(b, a, FALSE)

\* The images of the elements of a sequence.
MapSeq(seq, Op(_)) == [i \in DOMAIN seq |-> Op(seq[i])]

\* A phase of one test.
One(facts) == <<{facts}>>

\* computePP: the points of B, then one point of A that B does not have.
ComputePP(a, b) ==
    LET ptsA == EffectivePointSet(a)
        ptsB == EffectivePointSet(b)
    IN  <<{IF p \in ptsA THEN Raise(Interior, Interior, DimP)
                         ELSE Raise(Exterior, Interior, DimP) : p \in ptsB}>>
        \o (IF ptsA \subseteq ptsB THEN <<>> ELSE One(Raise(Interior, Exterior, DimP)))

\* DimensionExt: a point outside the target counts with the target's dimension.
DimensionExt(located, t) == IF located = Outside THEN Dimension(t) ELSE located[1]

\* AddPointOnGeometry, for a point of one operand located in the target t.
PointOnGeometry(isA, at, t) ==
    RaiseAB(isA, Interior, at[2], DimP)
        \cup (IF ~IsEmpty(t) /\ DimensionExt(at, t) = DimA
              THEN RaiseAB(isA, Exterior, Interior, DimA) \cup RaiseAB(isA, Exterior, Boundary, DimL)
              ELSE {})

ComputePoints(s, isA, t) ==
    IF HasDimension(s, DimP) THEN <<{PointOnGeometry(isA, LocateWithDim(t, p), t) : p \in EffectivePoints(s)}>> ELSE <<>>

\* AddLineEndOnGeometry
LineEndOnGeometry(isA, locEnd, at, dim, t) ==
    RaiseAB(isA, locEnd, at[2], DimP)
        \cup (IF IsEmpty(t) THEN {}
              ELSE IF dim = DimL /\ at[2] = Exterior THEN RaiseAB(isA, Interior, Exterior, DimL)
              ELSE IF dim = DimA /\ at[2] # Boundary
              THEN RaiseAB(isA, Interior, at[2], DimL) \cup RaiseAB(isA, Exterior, at[2], DimA)
              ELSE {})

LineEnds(line) == IF line[1] = Last(line) THEN <<line[1]>> ELSE <<line[1], Last(line)>>

\* An end of a line or a vertex of a ring, with its location in its own
\* geometry and in the target.
Located(own, target) == [own |-> own, target |-> target]

IsOutside(v) == v.target[2] = Exterior

\* A line end that an area of its own geometry covers says nothing.
TestedEnds(s, i, t) ==
    SelectSeq([k \in DOMAIN LineEnds(s.lines[i]) |->
                  Located(LocateLineEndWithDim(s, LineEnds(s.lines[i])[k]),
                          LocateWithDim(t, LineEnds(s.lines[i])[k]))],
              LAMBDA end : end.own[1] = DimL)

\* A line or polygon clear of the target is skipped once a vertex was seen
\* outside the target.
Tested(seen, reached) ==
    [i \in DOMAIN seen |->
        IF reached[i] \/ \A j \in 1..(i - 1) : \A k \in DOMAIN seen[j] : ~IsOutside(seen[j][k])
        THEN seen[i] ELSE <<>>]

ReachesEnvelope(P, t) == EnvelopesIntersect(EnvelopeOf(P), Envelope(t))

\* computeLineEnds
ComputeLineEnds(s, isA, t) ==
    LET ends == FlattenSeq(Tested([i \in DOMAIN s.lines |-> TestedEnds(s, i, t)],
                                  [i \in DOMAIN s.lines |-> ReachesEnvelope(ToSet(s.lines[i]), t)]))
        update(v) == LineEndOnGeometry(isA, v.own[2], v.target, DimensionExt(v.target, t), t)
    IN  MapSeq(ends, LAMBDA v : {update(v)})

\* AddAreaVertex and its three cases.
AreaVertexOnGeometry(isA, locArea, loc, dim) ==
    LET outer == RaiseAB(isA, Interior, Exterior, DimA)
        rim == IF locArea = Boundary
               THEN RaiseAB(isA, Boundary, Exterior, DimL) \cup RaiseAB(isA, Exterior, Exterior, DimA)
               ELSE {}
    IN  CASE loc = Exterior -> outer \cup rim
          [] loc # Exterior /\ dim = DimP -> RaiseAB(isA, locArea, Interior, DimP) \cup outer \cup rim
          [] loc # Exterior /\ dim = DimL ->
                 RaiseAB(isA, locArea, loc, DimP) \cup (IF locArea = Interior THEN outer ELSE {})
          [] loc = Boundary /\ dim = DimA /\ locArea = Boundary -> Raise(Boundary, Boundary, DimP)
          [] loc = Boundary /\ dim = DimA /\ locArea # Boundary ->
                 RaiseAB(isA, Interior, Interior, DimA) \cup RaiseAB(isA, Interior, Boundary, DimL) \cup outer
          [] loc = Interior /\ dim = DimA ->
                 RaiseAB(isA, Interior, loc, DimA)
                     \cup (IF locArea = Boundary
                           THEN RaiseAB(isA, Boundary, loc, DimL) \cup RaiseAB(isA, Exterior, loc, DimA)
                           ELSE {})

\* computeAreaVertex: the first vertex of every ring.
RingVertices(s, poly, t) ==
    [k \in DOMAIN poly |-> Located(LocateNodeWithDim(s, poly[k][1], NoParent),
                                   LocateWithDim(t, poly[k][1]))]

PolygonVertices(s, polys, t) ==
    FlattenSeq(Tested([i \in DOMAIN polys |-> RingVertices(s, polys[i], t)],
                      [i \in DOMAIN polys |-> ReachesEnvelope(PointsOfPolygon(polys[i]), t)]))

ComputeAreaVertex(s, isA, t) ==
    IF Dimension(t) < DimL THEN <<>>
    ELSE MapSeq(PolygonVertices(s, PolygonsOf(s), t),
                LAMBDA v : {AreaVertexOnGeometry(isA, v.own[2], v.target[2], DimensionExt(v.target, t))})

\* computeAtPoints
ComputeAtPoints(s, isA, t, p) ==
    ComputePoints(s, isA, t)
        \o (IF HasDimension(t, DimA) \/ RequireExteriorCheck(p)
            THEN ComputeLineEnds(s, isA, t) \o ComputeAreaVertex(s, isA, t)
            ELSE <<>>)

(***************************************************************************)
(* Edges.  A meeting is a pair of sections at a point where two segments   *)
(* meet, each the owner of the point.                                      *)
(***************************************************************************)
ClipEnvelope(a, b) ==
    LET e == Envelope(a)
        f == Envelope(b)
    IN  [minX |-> Max({e.minX, f.minX}), maxX |-> Min({e.maxX, f.maxX}),
         minY |-> Max({e.minY, f.minY}), maxY |-> Min({e.maxY, f.maxY})]

\* The segments of a set of strings, with the vertices on each.
SegmentsIn(strings) ==
    UNION {{[str |-> str, i |-> i, on |-> VerticesOn(str.pts[i], str.pts[i + 1])]
              : i \in 1..(Len(str.pts) - 1)} : str \in strings}

Ends(g) == {g.str.pts[g.i], g.str.pts[g.i + 1]}

\* SegmentIntersect: one common point, or the ends of a common part.
CommonPoints(g, h) ==
    LET shared == g.on \cap h.on
    IN  IF Cardinality(shared) <= 1 THEN shared ELSE shared \cap (Ends(g) \cup Ends(h))

\* handleIntersectionPt
Meetings(g, h) ==
    LET owned == {p \in CommonPoints(g, h) :
                     \/ p \notin Ends(g) \cup Ends(h)
                     \/ IsContainingSegment(g.str, g.i, p) /\ IsContainingSegment(h.str, h.i, p)}
    IN  {[at |-> p, first |-> CreateNodeSection(g.str, g.i, p),
          second |-> CreateNodeSection(h.str, h.i, p),
          proper |-> p \notin Ends(g) /\ p \notin Ends(h)] : p \in owned}

\* TopologyComputer.IsSelfNodingRequired
SelfNodes(a, b, p) == RequireSelfNoding(p) /\ (IsSelfNodingRequired(a) \/ HasAreaAndLine(b))

\* computeAtEdges and the intersector: A against B, then each operand with
\* itself when the predicate and the operands ask for it.
MeetingsOf(pairs) == UNION {Meetings(gh[1], gh[2]) : gh \in pairs}

FoundMeetings(edgesA, edgesB, selfNodes) ==
    IF edgesA = {} \/ edgesB = {} THEN [ab |-> {}, self |-> {}]
    ELSE [ab |-> MeetingsOf(edgesA \X edgesB),
          self |-> MeetingsOf(IF selfNodes
                              THEN {gh \in (edgesA \X edgesA) \cup (edgesB \X edgesB) : gh[1] # gh[2]}
                              ELSE {})]

EdgesOf(s, isA, clip) == SegmentsIn(ExtractSegmentStrings(s, isA, clip))

EdgeMeetings(a, b, p) ==
    IF EnvelopesMeet(a, b)
    THEN FoundMeetings(EdgesOf(a, TRUE, ClipEnvelope(a, b)), EdgesOf(b, FALSE, ClipEnvelope(a, b)),
                       SelfNodes(a, b, p))
    ELSE [ab |-> {}, self |-> {}]

\* updateIntersectionAB: areas that cross share interior; the node itself.
UpdateIntersection(m, a, b) ==
    LET s == m.first
        t == m.second
        crossing == /\ s.dim = DimA /\ t.dim = DimA
                    /\ m.proper \/ IsNodeCrossing(s.v0, s.v1, t.v0, t.v1)
    IN  (IF crossing THEN Raise(Interior, Interior, DimA) ELSE {})
            \cup Raise(LocateNode(a, m.at, s.area), LocateNode(b, m.at, t.area), DimP)

(***************************************************************************)
(* Nodes: the points where A meets B, with all the sections found there.   *)
(***************************************************************************)
SectionsAt(meetings, p) ==
    {m.first : m \in {n \in meetings : n.at = p}} \cup {m.second : m \in {n \in meetings : n.at = p}}

\* The areal member of the first section of an operand that has one.
PolygonalOf(sections, isA) ==
    LET own == {s \in sections : s.isA = isA /\ s.area # NoParent}
    IN  IF own = {} THEN NoParent
        ELSE (CHOOSE s \in own : \A t \in own : s.id <= t.id).area

NodeOf(a, b, p, sections) ==
    LET inArea(s, isA) == LocateNodeWithDim(s, p, PolygonalOf(sections, isA)) = <<DimA, Interior>>
        node == Finished(CreateNode(Listed(sections)), TRUE, inArea(a, TRUE))
    IN  Finished(node, FALSE, inArea(b, FALSE))

\* evaluateNodeEdges
EvaluateNode(a, b, node) ==
    LET areaArea == Dimension(a) = DimA /\ Dimension(b) = DimA
        ofEdge(e) == Raise(e[TRUE].on, e[FALSE].on, DimL)
                        \cup (IF areaArea
                              THEN Raise(e[TRUE].left, e[FALSE].left, DimA)
                                      \cup Raise(e[TRUE].right, e[FALSE].right, DimA)
                              ELSE {})
    IN  UNION {ofEdge(node[d]) : d \in DOMAIN node}

\* The order of the nodes: by x, then by y.
PointLess(p, q) == p[1] < q[1] \/ (p[1] = q[1] /\ p[2] < q[2])

\* evaluateNodes: the nodes in the order of their points.
Nodes(a, b, found) ==
    MapSeq(Sorted({m.at : m \in found.ab}, PointLess),
           LAMBDA q : {EvaluateNode(a, b, NodeOf(a, b, q, SectionsAt(found.ab \cup found.self, q)))})

AtMeetings(a, b, found) == <<{UpdateIntersection(m, a, b) : m \in found.ab}>> \o Nodes(a, b, found)

ComputeAtEdges(a, b, p) == AtMeetings(a, b, EdgeMeetings(a, b, p))

\* The phases of an evaluation after the exterior dimensions.
StepsOf(a, b, p) ==
    SelectSeq(IF DimensionReal(a) = DimP /\ DimensionReal(b) = DimP THEN ComputePP(a, b)
              ELSE ComputeAtPoints(b, FALSE, a, p) \o ComputeAtPoints(a, TRUE, b, p)
                       \o ComputeAtEdges(a, b, p),
              LAMBDA tests : tests # {})

=============================================================================
