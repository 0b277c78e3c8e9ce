------------------------------- MODULE Noding -------------------------------
(***************************************************************************)
(* internal/noding: strings of segments are broken where segments meet,    *)
(* by the pairwise noder and by the one that looks at monotone chains, and *)
(* validated, dissolved and reduced to boundaries.                         *)
(*                                                                         *)
(* A point where segments meet is a quotient [x, y, d]; the noder stores   *)
(* it rounded to Unit, which changes nothing where all of them are lattice *)
(* points, and is the rounding that snap rounding does next.               *)
(***************************************************************************)
EXTENDS Planar

Str(coords, tag) == [coords |-> coords, tag |-> tag]

NumSegments(s) == IF Len(s.coords) < 2 THEN 0 ELSE Len(s.coords) - 1

\* The segments of strings, as pairs of the string and the place in it.
SegmentIds(strings) == UNION {{i} \X (1..NumSegments(strings[i])) : i \in DOMAIN strings}

Start(strings, g) == strings[g[1]].coords[g[2]]
Stop(strings, g) == strings[g[1]].coords[g[2] + 1]

Precedes(g, h) == g[1] < h[1] \/ (g[1] = h[1] /\ g[2] < h[2])
AreAdjacent(g, h) == g[1] = h[1] /\ (g[2] = h[2] + 1 \/ h[2] = g[2] + 1)

-----------------------------------------------------------------------------
(***************************************************************************)
(* Points on segments.                                                     *)
(***************************************************************************)
Whole(p) == [x |-> p[1], y |-> p[2], d |-> 1]

\* SegmentIntersect: the points at which two segments meet, or the ends of
\* what they share.
MeetingPoints(a1, a2, b1, b2) ==
    LET den == Denominator(a1, a2, b1, b2)
        t == Sign(den) * TNum(a1, b1, b2)
        d == Abs(den)
    IN  IF den = 0 THEN {Whole(p) : p \in SegmentIntersect(a1, a2, b1, b2).at}
        ELSE IF InUnit(TNum(a1, b1, b2), den) /\ InUnit(UNum(a1, a2, b1), den)
        THEN {[x |-> a1[1] * d + t * (a2[1] - a1[1]), y |-> a1[2] * d + t * (a2[2] - a1[2]), d |-> d]}
        ELSE {}

IsPoint(q, p) == q.x = p[1] * q.d /\ q.y = p[2] * q.d

IsLatticePoint(q) == q.x % q.d = 0 /\ q.y % q.d = 0

\* segmentParam: along the longer axis, as a quotient [n, d].
SegmentParam(a, b, q) ==
    LET dx == b[1] - a[1]
        dy == b[2] - a[2]
    IN  IF Abs(dx) >= Abs(dy) THEN [n |-> Sign(dx) * (q.x - a[1] * q.d), d |-> q.d * Abs(dx)]
        ELSE [n |-> Sign(dy) * (q.y - a[2] * q.d), d |-> q.d * Abs(dy)]

\* A split is a parameter strictly inside a segment, with its point.
Split(a, b, q) == [t |-> SegmentParam(a, b, q), at |-> q]
IsInside(split) == 0 < split.t.n /\ split.t.n < split.t.d
Sooner(s, r) == s.t.n * r.t.d < r.t.n * s.t.d

\* Splits in order, one of each parameter.
InOrder(splits) ==
    FoldSet(LAMBDA s, seq :
                IF \E k \in DOMAIN seq : ~Sooner(s, seq[k]) /\ ~Sooner(seq[k], s) THEN seq
                ELSE SelectSeq(seq, LAMBDA r : Sooner(r, s)) \o <<s>> \o SelectSeq(seq, LAMBDA r : Sooner(s, r)),
            <<>>, splits)

\* math.Round of a quotient to a multiple of a unit: halves away from zero.
RoundTo(unit, n, d) == Sign(n) * ((2 * Abs(n) + d * unit) \div (2 * d * unit)) * unit

Rounded(unit, q) == <<RoundTo(unit, q.x, q.d), RoundTo(unit, q.y, q.d)>>

-----------------------------------------------------------------------------
(***************************************************************************)
(* Monotone chains: a chain goes on while its segments lie in one          *)
(* quadrant; segments of no length belong to any.                          *)
(***************************************************************************)
QuadrantOfX(p, q) == IF q[1] >= p[1] THEN 0 ELSE 1

Quadrant(p, q) ==
    IF q[1] >= p[1] THEN IF q[2] >= p[2] THEN 0 ELSE 3
    ELSE IF q[2] >= p[2] THEN 1 ELSE 2

\* The vertices where findChainEnd ends a chain and the next one begins.
TurnsAt(pts) ==
    LET moving == {k \in 1..(Len(pts) - 1) : pts[k] # pts[k + 1]}
        quadrant(k) == Quadrant(pts[k], pts[k + 1])
    IN  {k \in moving :
            \E j \in moving : j < k /\ quadrant(j) # quadrant(k) /\ \A m \in (j + 1)..(k - 1) : m \notin moving}

\* BuildMonotoneChains: the first and last vertex of each, with its string.
ChainsOf(strings) ==
    FlattenSeq([i \in DOMAIN strings |->
        LET pts == strings[i].coords
            ends == SelectSeq([k \in DOMAIN pts |-> k], LAMBDA k : k \in TurnsAt(pts) \cup {1, Len(pts)})
        IN  IF Len(pts) < 2 THEN <<>>
            ELSE [c \in 1..(Len(ends) - 1) |-> [string |-> i, first |-> ends[c], last |-> ends[c + 1]]]])

Low(u, v) == IF u < v THEN u ELSE v
High(u, v) == IF u < v THEN v ELSE u

\* rangesOverlap: the envelopes of two pairs of points, within a tolerance.
RangesOverlap(p1, p2, q1, q2, tol) ==
    \A i \in {1, 2} :
        Low(p1[i], p2[i]) <= High(q1[i], q2[i]) + tol /\ High(p1[i], p2[i]) >= Low(q1[i], q2[i]) - tol

\* computeOverlapsRange: both ranges are halved until single segments are
\* left; a pair of ranges apart from each other is dropped.
Overlaps(pts, qts, tol) ==
    LET N == 1..Len(pts)
        M == 1..Len(qts)
        in[r \in N \X N \X M \X M] ==
            LET cutP == (r[1] + r[2]) \div 2
                cutQ == (r[3] + r[4]) \div 2
                parts == {<<r[1], cutP>>, <<cutP, r[2]>>} \X {<<r[3], cutQ>>, <<cutQ, r[4]>>}
            IN  IF r[2] - r[1] = 1 /\ r[4] - r[3] = 1 THEN {<<r[1], r[3]>>}
                ELSE IF ~RangesOverlap(pts[r[1]], pts[r[2]], qts[r[3]], qts[r[4]], tol) THEN {}
                ELSE UNION {in[<<h[1][1], h[1][2], h[2][1], h[2][2]>>] :
                              h \in {h \in parts : h[1][1] < h[1][2] /\ h[2][1] < h[2][2]}}
    IN  in

\* The segments of two chains that may meet, if the envelopes do, which the
\* index holds widened by the tolerance on both sides.
ChainOverlaps(strings, others, c, d, tol) ==
    LET pts == strings[c.string].coords
        qts == others[d.string].coords
    IN  IF ~RangesOverlap(pts[c.first], pts[c.last], qts[d.first], qts[d.last], 2 * tol) THEN {}
        ELSE {<<<<c.string, p[1]>>, <<d.string, p[2]>>>> :
                p \in Overlaps(pts, qts, tol)[<<c.first, c.last, d.first, d.last>>]}

-----------------------------------------------------------------------------
(***************************************************************************)
(* The noders.                                                             *)
(***************************************************************************)
\* SimpleNoder: every pair of segments that are not neighbours.
SimplePairs(strings) ==
    LET ids == SegmentIds(strings)
    IN  {gh \in ids \X ids : Precedes(gh[1], gh[2]) /\ ~AreAdjacent(gh[1], gh[2])}

\* MCIndexNoder: the segments of a chain and of a later one.
ChainPairs(strings, tol) ==
    LET chains == ChainsOf(strings)
        between(c, d) == ChainOverlaps(strings, strings, chains[c], chains[d], tol)
    IN  {gh \in UNION {UNION {between(c, d) : d \in (c + 1)..Len(chains)} : c \in DOMAIN chains} :
            ~AreAdjacent(gh[1], gh[2])}

\* The splits on the segment g.
SplitsOn(strings, pairs, g) ==
    LET a == Start(strings, g)
        b == Stop(strings, g)
        others == {gh[1] : gh \in {p \in pairs : p[2] = g}} \cup {gh[2] : gh \in {p \in pairs : p[1] = g}}
        points == UNION {MeetingPoints(a, b, Start(strings, h), Stop(strings, h)) : h \in others}
    IN  InOrder({s \in {Split(a, b, q) : q \in points} : IsInside(s)})

\* The vertices of a string with its splits, and whether each one is a break.
BrokenAt(strings, pairs, i, unit) ==
    FlattenSeq([j \in 1..NumSegments(strings[i]) |->
        LET splits == SplitsOn(strings, pairs, <<i, j>>)
        IN  <<[at |-> strings[i].coords[j], break |-> FALSE]>>
                \o [k \in DOMAIN splits |-> [at |-> Rounded(unit, splits[k].at), break |-> TRUE]]])
        \o <<[at |-> Last(strings[i].coords), break |-> TRUE]>>

\* Strings in pieces, from break to break; the vertices they had are none.
Piece(nodes, first, last) == [k \in 1..(last - first + 1) |-> nodes[first + k - 1].at]

PiecesBetween(nodes, breaks, tag) ==
    [n \in 1..(Len(breaks) - 1) |-> Str(Piece(nodes, breaks[n], breaks[n + 1]), tag)]

PiecesOf(nodes, tag) ==
    PiecesBetween(nodes, SelectSeq([k \in DOMAIN nodes |-> k], LAMBDA k : k = 1 \/ nodes[k].break), tag)

Pieces(strings, pairs, i, unit) ==
    IF NumSegments(strings[i]) = 0 THEN <<strings[i]>>
    ELSE PiecesOf(BrokenAt(strings, pairs, i, unit), strings[i].tag)

Noded(strings, pairs, unit) == FlattenSeq([i \in DOMAIN strings |-> Pieces(strings, pairs, i, unit)])

SimpleNode(strings, unit) == Noded(strings, SimplePairs(strings), unit)

MCIndexNode(strings, tol, unit) == Noded(strings, ChainPairs(strings, tol), unit)

\* NodeAdaptive: the chains pay off from a number of segments on.
AdaptiveThreshold == 64

NodeAdaptive(strings, unit) ==
    Noded(strings,
          IF Cardinality(SegmentIds(strings)) < AdaptiveThreshold THEN SimplePairs(strings) ELSE ChainPairs(strings, 0),
          unit)

-----------------------------------------------------------------------------
(***************************************************************************)
(* Detectors and validators.                                               *)
(***************************************************************************)
Meets(strings, g, h) ==
    SegmentIntersect(Start(strings, g), Stop(strings, g), Start(strings, h), Stop(strings, h))

EndsAt(strings, g) == {Start(strings, g), Stop(strings, g)}

Meeting(strings, g, h) ==
    MeetingPoints(Start(strings, g), Stop(strings, g), Start(strings, h), Stop(strings, h))

\* The segments meet in a point that is an end of none, or not of both.
MeetProperly(strings, g, h) ==
    /\ Meets(strings, g, h).kind = "point"
    /\ \A q \in Meeting(strings, g, h), p \in EndsAt(strings, g) \cup EndsAt(strings, h) : ~IsPoint(q, p)

MeetInside(strings, g, h) ==
    /\ Meets(strings, g, h).kind = "point"
    /\ \A q \in Meeting(strings, g, h), p \in EndsAt(strings, g) \cap EndsAt(strings, h) : ~IsPoint(q, p)

\* SegmentIntersectionDetector: whether some pair is of the kind looked for.
Detect(strings, findProper, findAllTypes) ==
    \E gh \in SimplePairs(strings) :
        LET meet == Meets(strings, gh[1], gh[2])
        IN  /\ meet.kind # "none"
            /\ findProper => MeetProperly(strings, gh[1], gh[2])
            /\ findAllTypes \/ meet.kind # "overlap"

HasAnyIntersection(strings) == Detect(strings, FALSE, TRUE)

\* isInteriorVertexHit: a shared vertex that is inside one of the strings.
EndVertex(strings, g, k) ==
    IF k = 0 THEN g[2] = 1 ELSE g[2] + 1 = Len(strings[g[1]].coords)

InteriorVertexHit(strings, g, h) ==
    \E k, l \in {0, 1} :
        /\ ~(EndVertex(strings, g, k) /\ EndVertex(strings, h, l))
        /\ strings[g[1]].coords[g[2] + k] = strings[h[1]].coords[h[2] + l]

\* FastNodingValidator: the pairs of chains, each with itself too.
FastPairs(strings) ==
    LET chains == ChainsOf(strings)
        between(c, d) == ChainOverlaps(strings, strings, chains[c], chains[d], 0)
    IN  UNION {UNION {between(c, d) : d \in c..Len(chains)} : c \in DOMAIN chains}

FastIsValid(strings) ==
    \A gh \in FastPairs(strings) :
        LET g == gh[1]
            h == gh[2]
        IN  g # h =>
            /\ ~MeetProperly(strings, g, h)
            /\ AreAdjacent(g, h) \/ ~InteriorVertexHit(strings, g, h)

\* NodingValidator: a string that turns back on itself in one vertex, the end
\* of a string at a vertex inside one, and segments that meet elsewhere than
\* in ends of both.
HasCollapse(s) == \E i \in 1..(Len(s.coords) - 2) : s.coords[i] = s.coords[i + 2]

EndsInside(strings) ==
    \E i, k \in DOMAIN strings :
        LET pts == strings[i].coords
        IN  \E j \in 2..(Len(strings[k].coords) - 1) : strings[k].coords[j] \in {pts[1], Last(pts)}

CheckValid(strings) ==
    /\ \A i \in DOMAIN strings : ~HasCollapse(strings[i])
    /\ ~EndsInside(strings)
    /\ \A g, h \in SegmentIds(strings) :
        g # h => Meets(strings, g, h).kind # "overlap" /\ ~MeetInside(strings, g, h)

\* ValidatingNoder: the strings and the verdict on them.
ValidatingNode(strings, unit) ==
    LET out == MCIndexNode(strings, 0, unit) IN [strings |-> out, valid |-> CheckValid(out)]

\* The pairs that the two mutual intersectors visit, (base, query).
SimpleMutualPairs(base, query) ==
    {gh \in SegmentIds(base) \X SegmentIds(query) :
        RangesOverlap(Start(base, gh[1]), Stop(base, gh[1]), Start(query, gh[2]), Stop(query, gh[2]), 0)}

MCIndexMutualPairs(base, query) ==
    LET chains == ChainsOf(query)
        others == ChainsOf(base)
    IN  UNION {{<<hg[2], hg[1]>> : hg \in ChainOverlaps(query, base, chains[c], others[d], 0)}
                : c \in DOMAIN chains, d \in DOMAIN others}

-----------------------------------------------------------------------------
(***************************************************************************)
(* Strings reduced.                                                        *)
(***************************************************************************)
\* DissolveSegmentStrings: the first of the strings with the same points, in
\* either direction.
SameLine(s, r) == s.coords = r.coords \/ s.coords = Reverse(r.coords)

DissolveStrings(strings) ==
    FoldLeft(LAMBDA out, s : IF \E i \in DOMAIN out : SameLine(out[i], s) THEN out ELSE Append(out, s), <<>>, strings)

\* BoundaryChainNoder: the runs of segments that occur once, cut where the
\* runs end or meet.
Occurrences(strings, g) == Cardinality({h \in SegmentIds(strings) : EndsAt(strings, h) = EndsAt(strings, g)})

\* extractChains: from where a run begins up to where it ends.
RunsOf(strings, i) ==
    LET isOnce == [j \in 0..Len(strings[i].coords) |->
                     j \in 1..NumSegments(strings[i]) /\ Occurrences(strings, <<i, j>>) = 1]
        begins == SelectSeq([j \in 1..NumSegments(strings[i]) |-> j], LAMBDA j : isOnce[j] /\ ~isOnce[j - 1])
        endOf(j) == CHOOSE k \in j..NumSegments(strings[i]) : ~isOnce[k + 1] /\ \A m \in j..k : isOnce[m]
    IN  [n \in DOMAIN begins |-> Str(SubSeq(strings[i].coords, begins[n], endOf(begins[n]) + 1), strings[i].tag)]

\* findNodePoints: ends of runs, and points inside runs at two places.
InnerPlaces(runs, p) ==
    {g \in (DOMAIN runs) \X (2..50) : g[2] < Len(runs[g[1]].coords) /\ runs[g[1]].coords[g[2]] = p}

NodePoints(runs) ==
    UNION {{runs[i].coords[1], Last(runs[i].coords)} : i \in DOMAIN runs}
        \cup {p \in UNION {ToSet(runs[i].coords) : i \in DOMAIN runs} : Cardinality(InnerPlaces(runs, p)) >= 2}

CutAt(run, points) ==
    LET n == Len(run.coords)
        cuts == SelectSeq([k \in 1..n |-> k], LAMBDA k : k \in {1, n} \/ run.coords[k] \in points)
    IN  [m \in 1..(Len(cuts) - 1) |-> Str(SubSeq(run.coords, cuts[m], cuts[m + 1]), run.tag)]

BoundaryChains(strings) ==
    LET runs == FlattenSeq([i \in DOMAIN strings |-> RunsOf(strings, i)])
    IN  FlattenSeq([i \in DOMAIN runs |-> CutAt(runs[i], NodePoints(runs))])

-----------------------------------------------------------------------------
\* scaleInputs: vertices to the grid of an integer precision, consecutive
\* equal ones once; rescaleOutputs undoes the scale.
WithoutRepeats(coords) ==
    FoldLeft(LAMBDA out, p : IF out # <<>> /\ Last(out) = p THEN out ELSE Append(out, p), <<>>, coords)

OnGrid(coords, unit) == [k \in DOMAIN coords |-> Rounded(unit, Whole(coords[k]))]

ScaledInputs(strings, unit) ==
    [i \in DOMAIN strings |-> Str(WithoutRepeats(OnGrid(strings[i].coords, unit)), strings[i].tag)]

ScaledNode(strings, unit, out) == SimpleNode(ScaledInputs(strings, unit), out)

=============================================================================
