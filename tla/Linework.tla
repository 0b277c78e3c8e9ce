------------------------------ MODULE Linework ------------------------------
(***************************************************************************)
(* One call of a line tool on some lines: Polygonize, Merge, Sequence,     *)
(* dissolve.Lines, one of the noders, or an overlay of lines.  Each tool   *)
(* keeps its own state; the lines are shared and no tool changes them.     *)
(***************************************************************************)
EXTENDS Polygonize, LineMerge, NodeLines, OverlayLineal

CONSTANT Calls     \* the calls: a tool and its lines

VARIABLE tool

vars == <<lines, tool, polygonizeVars, mergeVars, sequenceVars, dissolveVars, nodeVars, linealVars>>

Noders == {"iterate", "round", "round and merge", "snap"}

Overlays == {"intersection", "union", "difference", "symdiff"}

Tools == {"polygonize", "merge", "sequence", "dissolve"} \cup Noders \cup Overlays

ASSUME CallsAssumption ==
    \A call \in Calls : call.tool \in Tools /\ call.lines \in Seq(Seq(Int \X Int) \ {<<>>})

Init ==
    /\ \E call \in Calls : tool = call.tool /\ lines = call.lines
    /\ PolygonizeInit /\ MergeInit /\ SequenceInit /\ DissolveInit /\ NodeInit /\ LinealInit

Polygonizing ==
    /\ tool = "polygonize"
    /\ RemoveInvalidRingLoops \/ RemoveDangle \/ StartTrace \/ TraceFace \/ Assemble
    /\ UNCHANGED <<tool, mergeVars, sequenceVars, dissolveVars, nodeVars, linealVars>>

Merging ==
    /\ tool = "merge"
    /\ MergeFromTip \/ MergeRing \/ GrowChain \/ EmitChain
    /\ UNCHANGED <<tool, polygonizeVars, sequenceVars, dissolveVars, nodeVars, linealVars>>

Sequencing ==
    /\ tool = "sequence"
    /\ StartComponent \/ Splice \/ FinishComponent \/ FinishSequence
    /\ UNCHANGED <<tool, polygonizeVars, mergeVars, dissolveVars, nodeVars, linealVars>>

Dissolving ==
    /\ tool = "dissolve"
    /\ DissolveFromEnd \/ DissolveRing
    /\ UNCHANGED <<tool, polygonizeVars, mergeVars, sequenceVars, nodeVars, linealVars>>

NodingLines ==
    /\ \/ tool = "iterate" /\ Iterate
       \/ tool = "round" /\ Round
       \/ tool = "round and merge" /\ RoundAndMerge
       \/ tool = "snap" /\ Snap
    /\ UNCHANGED <<tool, polygonizeVars, mergeVars, sequenceVars, dissolveVars, linealVars>>

Overlaying ==
    /\ tool \in Overlays
    /\ LinealStart \/ LinealPass \/ LinealFinish(tool)
    /\ UNCHANGED <<tool, polygonizeVars, mergeVars, sequenceVars, dissolveVars, nodeVars>>

IsOver ==
    CASE tool = "polygonize" -> PolygonizeOver
      [] tool = "merge" -> MergeOver
      [] tool = "sequence" -> SequenceOver
      [] tool = "dissolve" -> DissolveOver
      [] tool \in Noders -> NodeOver
      [] tool \in Overlays -> LinealOver

\* The call has returned; any other state without a step is a deadlock.
Over == IsOver /\ UNCHANGED vars

Next == Polygonizing \/ Merging \/ Sequencing \/ Dissolving \/ NodingLines \/ Overlaying \/ Over

Spec == Init /\ [][Next]_vars

-----------------------------------------------------------------------------
Point == Span \X Span

TypeOK ==
    /\ tool \in Tools
    /\ step \in {"loops", "dangles", "trace", "done"}
    /\ edges \subseteq Halves /\ out \subseteq Halves
    /\ queue \subseteq Point
    /\ visited \subseteq Halves
    /\ invalid \subseteq LineIds /\ dangles \subseteq LineIds /\ answer.cutEdges \subseteq LineIds
    /\ marked \subseteq LineIds
    /\ ToSet(chain) \subseteq Halves /\ \A i \in DOMAIN merged : ToSet(merged[i]) \subseteq Halves
    /\ used \subseteq LineIds /\ cursor \in 0..Len(trail)
    /\ ToSet(trail) \cup ToSet(sequence) \subseteq Halves
    /\ verdict \in {"running", "sequenced", "not sequenceable"}
    /\ \A s \in walked : s \subseteq Point /\ Cardinality(s) = 2
    /\ \A i \in DOMAIN dissolved : ToSet(dissolved[i]) \subseteq Point
    /\ \A i \in DOMAIN noded : noded[i].tag \in LineIds /\ PixelsOf(<<noded[i]>>) \subseteq Int \X Int
    /\ pass \in 0..(MaxIter + 1) /\ settled \in {"running", "converged", "not converged"}
    /\ \A place \in DOMAIN kd : ToSet(place) \subseteq Turns /\ kd[place].count \in Nat \ {0}
    /\ \A i \in DOMAIN segs : segs[i].tag \in {1, 2}
    /\ hotPixels \subseteq Int \X Int /\ round \in 0..(MaxRounds + 1)
    /\ \A i \in DOMAIN overlaid : overlaid[i].points \subseteq Int \X Int

(***************************************************************************)
(* Chains.                                                                 *)
(***************************************************************************)
\* The number of places of an element in a sequence of sequences.
Places(x, seqs) ==
    Cardinality({g \in (DOMAIN seqs) \X LineIds : g[2] \in DOMAIN seqs[g[1]] /\ seqs[g[1]][g[2]][1] = x})

IsWalk(walk) == \A j \in 1..(Len(walk) - 1) : To(walk[j]) = From(walk[j + 1])

\* A merged line runs from a node where not just two lines end to another
\* one, or is a ring, and most of its lines keep their direction.
IsChain(walk) ==
    /\ IsWalk(walk)
    /\ \A j \in 1..(Len(walk) - 1) : Degree(To(walk[j])) = 2
    /\ From(walk[1]) # To(Last(walk)) => Degree(From(walk[1])) # 2 /\ Degree(To(Last(walk))) # 2
    /\ 2 * Backward(walk) <= Len(walk)

\* Merged lines keep every line of those that were taken, once, and are as
\* long as they can be: each is a ring, or runs from a tip or junction to
\* another one, through nodes where just two lines end.  (walkChain.)
ChainsRight ==
    /\ \A i \in DOMAIN merged : IsChain(merged[i])
    /\ \A l \in marked \ LinesOf(chain) : \E i \in DOMAIN merged : l \in LinesOf(merged[i])
    /\ \A i, k \in DOMAIN merged : \A j \in DOMAIN merged[i], m \in DOMAIN merged[k] :
          merged[i][j][1] = merged[k][m][1] => i = k /\ j = m

\* Components of the sequence: where a line does not start at the end of the
\* one before it, a new component begins.
Apart(i) ==
    ToSet(Component(From(sequence[i]))) \cap ToSet(Component(From(sequence[i + 1]))) = {}

\* The first trail of a component starts at an odd node, or there is none.
WellStarted ==
    \A l \in LineIds :
        LET nodes == Component(FirstOf(l))
        IN  \/ Degree(LowestDegreeNode(nodes)) % 2 = 1
            \/ \A p \in ToSet(nodes) : Degree(p) % 2 = 0

RunsEndToEnd ==
    \A i \in 1..(Len(sequence) - 1) : To(sequence[i]) = From(sequence[i + 1]) \/ Apart(i)

(***************************************************************************)
(* Overlays of lines.                                                      *)
(***************************************************************************)
IsNoded(strings) == \A g, h \in SegmentIds(strings) : g # h => ~MeetInside(strings, g, h)

OnLineOf(p, tag) == \E l \in LineIds : OperandOf(l) = tag /\ \E g \in SegmentsOf(lines[l]) : OnSegment(p, g[1], g[2])

InOperand(p, tag) == OnLineOf(p, tag) \/ p \in PointOperands(tag)

Wanted(op, inA, inB) ==
    CASE op = "intersection" -> inA /\ inB
      [] op = "union" -> inA \/ inB
      [] op = "difference" -> inA /\ ~inB
      [] op = "symdiff" -> inA # inB

OverlaidLines == FlattenSeq([i \in DOMAIN overlaid |-> overlaid[i].lines])
OverlaidPoints == UNION {overlaid[i].points : i \in DOMAIN overlaid}

OnOverlaidLine(p) == \E i \in DOMAIN OverlaidLines : \E g \in SegmentsOf(OverlaidLines[i]) : OnSegment(p, g[1], g[2])

\* The vertices of the lines, and the points where they meet, are on the grid.
IsOnGrid ==
    \A p \in PixelsOf(SimpleNode(LineOperands, 1)) : SnapVertex(p) = p

\* A line of the answer breaks where the lines of the operands branch, and
\* nowhere else.
BrokenAtNodes ==
    \A i \in DOMAIN OverlaidLines :
        LET line == OverlaidLines[i]
            goesOn(p) == Weight(p) = 2 /\ Cardinality({j \in DOMAIN OverlaidLines : p \in {OverlaidLines[j][1], Last(OverlaidLines[j])}}) > 1
        IN  /\ \A k \in 2..(Len(line) - 1) : Weight(line[k]) = 2
            /\ line[1] # Last(line) => ~goesOn(line[1]) /\ ~goesOn(Last(line))

\* What an overlay of lines returns is the operation on the point sets: on
\* lines of the grid exactly, edge by edge and point by point - a point
\* counts as on a line if it was so before it was snapped - and elsewhere
\* near the lines; and it is noded within the passes there are.
OverlaidRight ==
    /\ IsNoded(segs)
    /\ BrokenAtNodes
    /\ IsOnGrid =>
        /\ \A m \in EdgeMids :
            LET runs == {g \in SegmentIds([i \in DOMAIN OverlaidLines |-> Str(OverlaidLines[i], i)]) :
                            OnSegment(m, OverlaidLines[g[1]][g[2]], OverlaidLines[g[1]][g[2] + 1])}
            IN  Cardinality(runs) = (IF Wanted(tool, OnLineOf(m, 1), OnLineOf(m, 2)) THEN 1 ELSE 0)
        /\ tool \in {"intersection", "union"} =>
            \A p \in Corners : Wanted(tool, InOperand(p, 1), InOperand(p, 2)) => OnOverlaidLine(p) \/ p \in OverlaidPoints
        /\ \A p \in PointOperands(1) \cup PointOperands(2) :
            LET at == SnapVertex(p)
            IN  IF Wanted(tool, InOperand(p, 1), InOperand(p, 2)) THEN OnOverlaidLine(at) \/ at \in OverlaidPoints
                ELSE at \notin OverlaidPoints
        /\ \A p \in OverlaidPoints : ~OnOverlaidLine(p)
    /\ \A i \in DOMAIN segs : \A p \in ToSet(segs[i].coords) :
        \E s \in ToSet(LineOperands) : s.tag = segs[i].tag /\
            \E g \in SegmentsOf(s.coords) :
                LET sq == SegmentDistanceSq(p, g[1], g[2]) IN 4 * sq.num <= 9 * Tolerance * Tolerance * sq.den

\* A sequence has every line once, and runs end to end through each component
\* that it starts at an odd node, or that has none; no sequence is refused
\* but for the nodes of odd degree.
SequenceRight ==
    /\ verdict = "sequenced" =>
        /\ \A l \in LineIds : Places(l, <<sequence>>) = 1
        /\ WellStarted => RunsEndToEnd
    /\ verdict = "not sequenceable" => ~HasEulerSequence(NextComponent)

\* Dissolved lines have each segment that was walked once and no others, and
\* run from tip or junction to tip or junction, or are rings.
DissolvedRight ==
    /\ \A s \in Edges :
        Cardinality({i \in DOMAIN dissolved : s \in SegmentSet(dissolved[i])}) = (IF s \in walked THEN 1 ELSE 0)
    /\ \A i \in DOMAIN dissolved :
        LET line == dissolved[i]
            degree(p) == Cardinality(Adjacent(Edges, p))
        IN  /\ SegmentSet(line) \subseteq Edges
            /\ \A j \in 2..(Len(line) - 1) : degree(line[j]) = 2
            /\ line[1] # Last(line) => degree(line[1]) # 2 /\ degree(Last(line)) # 2

\* What the other tools return keeps every line and every segment, once, and
\* is as long as it can be, and an overlay keeps the edges that its operation
\* wants and no others.
\* (Sequence, dissolve.Lines and OverlayLinealWithTolerance.)
LineworkKept ==
    /\ SequenceRight
    /\ DissolvedRight
    /\ overlaid # <<>> => OverlaidRight

(***************************************************************************)
(* Noded lines.                                                            *)
(***************************************************************************)
InputStrings == [l \in LineIds |-> Str(lines[l], l)]

OfLine(l) == SelectSeq(noded, LAMBDA s : s.tag = l)

SegmentsIn(strings) == {<<Start(strings, g), Stop(strings, g)>> : g \in SegmentIds(strings)}

\* The pieces of a line are in order, each from where the last one stopped.
PiecesJoined(l) ==
    \A i \in 1..(Len(OfLine(l)) - 1) : Last(OfLine(l)[i].coords) = OfLine(l)[i + 1].coords[1]

EndsKept(l) ==
    OfLine(l) # <<>> =>
        /\ OfLine(l)[1].coords[1] = Snapped(lines[l])[1]
        /\ Last(Last(OfLine(l)).coords) = Last(Snapped(lines[l]))

\* No vertex is farther from its line than so many halves of a tolerance.
StaysWithin(halves) ==
    \A i \in DOMAIN noded, p \in PixelsOf(noded) :
        p \in ToSet(noded[i].coords) =>
            \E g \in SegmentsOf(lines[noded[i].tag]) :
                LET sq == SegmentDistanceSq(p, g[1], g[2])
                IN  4 * sq.num <= halves * halves * Tolerance * Tolerance * sq.den

\* The pieces run along what their line runs along, as often.
SameEdges(l) ==
    \A m \in EdgeMids :
        Cardinality({g \in SegmentIds(OfLine(l)) : OnSegment(m, Start(OfLine(l), g), Stop(OfLine(l), g))})
            = Cardinality({g \in SegmentIds(<<InputStrings[l]>>) : OnSegment(m, lines[l][g[2]], lines[l][g[2] + 1])})

\* Two segments that are apart meet once their ends are rounded: the noder has
\* noded by then.
SnapMakes ==
    \E g, h \in SegmentIds(InputStrings) :
        /\ g # h /\ Meets(InputStrings, g, h).kind = "none"
        /\ MeetingPoints(Rounded(Tolerance, Whole(Start(InputStrings, g))), Rounded(Tolerance, Whole(Stop(InputStrings, g))),
                         Rounded(Tolerance, Whole(Start(InputStrings, h))), Rounded(Tolerance, Whole(Stop(InputStrings, h)))) # {}

\* What the pruning by chains skips meets nothing.
ChainsLoseNothing(strings) ==
    /\ MCIndexNode(strings, 0, 1) = SimpleNode(strings, 1)
    /\ \A gh \in SimplePairs(strings) \ FastPairs(strings) :
        ~MeetProperly(strings, gh[1], gh[2]) /\ ~InteriorVertexHit(strings, gh[1], gh[2])
    /\ LET base == SelectSeq(strings, LAMBDA s : s.tag % 2 = 0)
           query == SelectSeq(strings, LAMBDA s : s.tag % 2 = 1)
       IN  /\ SimpleMutualPairs(base, query) \subseteq MCIndexMutualPairs(base, query)
           /\ \A gh \in (SegmentIds(base) \X SegmentIds(query)) \ SimpleMutualPairs(base, query) :
                SegmentIntersect(Start(base, gh[1]), Stop(base, gh[1]), Start(query, gh[2]), Stop(query, gh[2])).kind = "none"

\* The noders that wrap others give what those give, and the validators agree.
WrappersAgree(strings) ==
    /\ PixelsOf(ScaledNode(strings, 1, 1)) = PixelsOf(SimpleNode(strings, 1))
    /\ NodeAdaptive(strings, 1) = ValidatingNode(strings, 1).strings
    /\ ~HasAnyIntersection(strings) => MCIndexNode(strings, 0, 1) = strings
    /\ ValidatingNode(strings, 1).valid => ~Detect(MCIndexNode(strings, 0, 1), TRUE, FALSE)

\* A ring that is snapped stays so, and is led past each of the pixels it
\* passes, or another one of them as far along.
RingsSnapped(pixels) ==
    \A l \in LineIds :
        LET ring == SnapRing(lines[l])
            led == NodeRing(pixels, ring)
        IN  /\ SnapPolygon(SnapPolygon(<<lines[l]>>)) = SnapPolygon(<<lines[l]>>)
            /\ \A i \in 1..(Len(ring) - 1), c \in pixels :
                LET t(p) == SegmentParam(ring[i], ring[i + 1], Whole(p))
                IN  IntersectsPixel(ring[i], ring[i + 1], c) =>
                        \E p \in ToSet(led) \cap QuerySegment(pixels, ring[i], ring[i + 1]) :
                            t(p).n = t(c).n \/ (t(c).n <= 0 /\ p = ring[i]) \/ (t(c).n >= t(c).d /\ p = ring[i + 1])

\* What is reduced keeps one of each, or those that occur once.
ReducedRight(strings) ==
    /\ \A i \in DOMAIN strings : Cardinality({j \in DOMAIN DissolveStrings(strings) : SameLine(strings[i], DissolveStrings(strings)[j])}) = 1
    /\ LET chains == BoundaryChains(strings)
           sides(strs, g) == {h \in SegmentIds(strs) : EndsAt(strs, h) = g}
       IN  /\ \A s \in SegmentsIn(strings) :
                Cardinality(sides(chains, {s[1], s[2]})) = (IF Cardinality(sides(strings, {s[1], s[2]})) = 1 THEN 1 ELSE 0)
           /\ \A i \in DOMAIN chains : ~EndsInside(<<chains[i]>>)

\* The k-d tree holds points apart from each other, and finds them.
TreeFinds(tree) ==
    /\ \A place, other \in DOMAIN tree : place # other => Squared(tree[place].at, tree[other].at) > Tolerance * Tolerance
    /\ \A place \in DOMAIN tree : QueryPoint(tree, tree[place].at) = place
    /\ \A p \in PixelsOf(InputStrings) :
        LET nearest == NearestNeighbor(tree, p)
            box == <<p, <<p[1] + 2 * Tolerance, p[2] + 2 * Tolerance>>>>
        IN  /\ tree # NoTree => \A place \in DOMAIN tree : Squared(p, tree[nearest].at) <= Squared(p, tree[place].at)
            /\ QueryAll(tree, box) = {place \in DOMAIN tree : \A i \in {1, 2} : tree[place].at[i] \in box[1][i]..box[2][i]}

\* What the noders return are the lines, in pieces that are joined end to end
\* and stay near them, and no two pieces meet but at vertices of both - unless
\* rounding the ends makes two lines meet, which is not looked at again.  The
\* monotone chains lose no intersection, and no number of passes is too small.
LinesNoded ==
    tool \in Noders =>
        /\ settled # "not converged"
        /\ \A l \in LineIds : PiecesJoined(l)
        /\ ChainsLoseNothing(noded) /\ ReducedRight(noded) /\ TreeFinds(kd)
        /\ settled = "converged" =>
            /\ IsNoded(noded) \/ (tool \notin {"iterate", "snap"} /\ SnapMakes)
            /\ WrappersAgree(noded) /\ (tool \in {"round", "round and merge"} => RingsSnapped(PixelsOf(noded)))
            /\ CheckValid(noded) \/ FastIsValid(noded) => ~Detect(noded, TRUE, FALSE)
        /\ tool = "iterate" => \A l \in LineIds : SameEdges(l)
        /\ tool \in {"round", "round and merge"} /\ settled = "converged" => StaysWithin(3) /\ \A l \in LineIds : EndsKept(l)
        /\ tool = "snap" => StaysWithin(4) /\ (pass = 1 => PixelsOf(noded) \subseteq {kd[place].at : place \in DOMAIN kd})

(***************************************************************************)
(* Faces.                                                                  *)
(***************************************************************************)
LinesLeft == Walkable \ dangles

\* Every line of a set has more than one line of the set at each end.
HasNoFreeEnd(S) ==
    \A l \in S : \A p \in EndsOf(l) :
        Cardinality(LinesAt(p) \cap S) >= 2 \/ \E k \in LinesAt(p) \cap S : IsClosed(k)

\* Lines of samples: the middles of the drawn edges that a line runs along.
AlongLines(S) == {p \in EdgeMids : \E l \in S : \E g \in SegmentsOf(lines[l]) : OnSegment(p, g[1], g[2])}

\* A face point is in a polygon: within its shell and in none of its holes.
InPolygon(f, poly) ==
    /\ LocateInRings(f, SegmentsOf(poly[1])) = Interior
    /\ \A k \in 2..Len(poly) : LocateInRings(f, SegmentsOf(poly[k])) = Exterior

\* The middle of every drawn edge with the face points on both sides of it;
\* an edge of the border of the drawing has one.
Sides ==
    {<<m, {f \in FacePoints : f \in {<<m[1] + 1, m[2]>>, <<m[1] - 1, m[2]>>, <<m[1], m[2] + 1>>, <<m[1], m[2] - 1>>}}>>
        : m \in EdgeMids}

\* The face points that are reached from outside without crossing a wall.
OutsideOf(walls) ==
    LET open == {s[2] : s \in {t \in Sides : t[1] \notin walls}}
    IN  FoldLeft(LAMBDA reached, i : reached \cup UNION {s \in open : s \cap reached # {}},
                 UNION {s \in open : Cardinality(s) = 1}, [i \in 1..(8 * Side) |-> i])

\* The faces as the answer has them: the face points of each polygon, and
\* those that are in none.
FacesOfAnswer ==
    {{f \in FacePoints : InPolygon(f, answer.polygons[i])} : i \in DOMAIN answer.polygons}

IsUndivided(faces, beside) ==
    \/ \E face \in faces : beside \subseteq face /\ Cardinality(beside) = 2
    \/ \A face \in faces : beside \cap face = {}

\* The dangles are the lines that no set without free ends holds, whatever the
\* order in which they went: what is left is the largest such set.
\* (removeDangles, dropLine, degreeOf.)
DanglesRight ==
    tool = "polygonize" /\ step \in {"trace", "done"} =>
        /\ HasNoFreeEnd(LinesLeft)
        /\ \A S \in SUBSET Walkable : HasNoFreeEnd(S) => S \subseteq LinesLeft

\* What the polygonizer returns are the faces: each point inside the linework
\* that is left without the dangles is in one polygon, no line but a cut edge
\* runs inside a polygon or between two outside points, and every other line
\* divides two faces.  (traceFaces, classifyRings, assignHolesToShells,
\* collectCutEdges.)
FacesFound ==
    tool = "polygonize" /\ step = "done" =>
        LET left == LinesLeft
            walls == AlongLines(left)
            outside == OutsideOf(walls)
            faces == FacesOfAnswer
        IN  /\ UNION faces = FacePoints \ outside
            /\ Cardinality(faces) = Len(answer.polygons)
            /\ \A face, other \in faces : face # other => face \cap other = {}
            /\ \A s \in Sides : IsUndivided(faces, s[2]) <=> s[1] \notin AlongLines(left \ answer.cutEdges)

=============================================================================
