----------------------------- MODULE LineMerge ------------------------------
(***************************************************************************)
(* Packages linemerge and dissolve: the tools that join lines end to end.  *)
(***************************************************************************)
EXTENDS LineGraph

(***************************************************************************)
(* linemerge.Merge: lines that meet at a node no other line ends at are    *)
(* joined into one, one chain after another: first the chains that start   *)
(* at a node where not just two lines end, then the rings that are left.   *)
(***************************************************************************)

VARIABLES marked,   \* the lines that are part of a chain
          chain,    \* the chain that is being walked, or <<>>
          merged    \* the chains before it, as walks

mergeVars == <<marked, chain, merged>>

MergeInit == marked = {} /\ chain = <<>> /\ merged = <<>>

Unmarked == LineIds \ marked

\* walkChain: the first line of a chain, from one of its ends.
StartChain(l, from) ==
    /\ chain' = <<Away(l, from)>>
    /\ marked' = marked \cup {l}
    /\ UNCHANGED <<lines, merged>>

\* A tip or a junction with a line that no chain has taken yet.
Tips == {p \in UNION {EndsOf(l) : l \in Unmarked} : Degree(p) # 2}

\* The first pass: nodes in the order of the lines, the start of a line
\* before its end.
MergeFromTip ==
    /\ chain = <<>> /\ Tips # {}
    /\ LET first == Min({l \in LineIds : EndsOf(l) \cap Tips # {}})
           tip == IF FirstOf(first) \in Tips THEN FirstOf(first) ELSE LastOf(first)
       IN  StartChain(Min(LinesAt(tip) \cap Unmarked), tip)

\* The second pass: what is left are rings.
MergeRing ==
    /\ chain = <<>> /\ Tips = {} /\ Unmarked # {}
    /\ StartChain(Min(Unmarked), FirstOf(Min(Unmarked)))

Reached == To(Last(chain))

\* Variant: through any node.
SiblingsAtAnyNode == IF Reached = From(chain[1]) THEN {} ELSE LinesAt(Reached) \cap Unmarked

\* The chain goes on through a node of degree two, to a line that is not
\* marked, until it is back where it began.
Siblings == IF Reached = From(chain[1]) \/ Degree(Reached) # 2 THEN {} ELSE LinesAt(Reached) \cap Unmarked

GrowChain ==
    /\ chain # <<>> /\ Siblings # {}
    /\ chain' = Append(chain, Away(Min(Siblings), Reached))
    /\ marked' = marked \cup {Min(Siblings)}
    /\ UNCHANGED <<lines, merged>>

\* The direction most of the lines have.
Backward(walk) == Cardinality({i \in DOMAIN walk : walk[i][2]})

Reversed(walk) == [i \in DOMAIN walk |-> Twin(walk[Len(walk) + 1 - i])]

ByMajority(walk) == IF 2 * Backward(walk) > Len(walk) THEN Reversed(walk) ELSE walk

EmitChain ==
    /\ chain # <<>> /\ Siblings = {}
    /\ merged' = Append(merged, ByMajority(chain))
    /\ chain' = <<>>
    /\ UNCHANGED <<lines, marked>>

MergeOver == Unmarked = {} /\ chain = <<>>

-----------------------------------------------------------------------------
(***************************************************************************)
(* linemerge.Sequence: for each connected component a trail through all    *)
(* its lines.  A first trail from a node of the lowest degree goes on      *)
(* until it is stuck; then the trail is searched backward for nodes with   *)
(* lines left over, and a trail from there is put in before the line that  *)
(* leaves the node.                                                        *)
(***************************************************************************)

VARIABLES used,       \* the lines that a trail has taken
          trail,      \* the trail of the current component
          cursor,     \* where the backward search stands
          sequence,   \* the trails of the components before it
          verdict     \* "running", "sequenced" or "not sequenceable"

sequenceVars == <<used, trail, cursor, sequence, verdict>>

SequenceInit ==
    used = {} /\ trail = <<>> /\ cursor = 0 /\ sequence = <<>> /\ verdict = "running"

\* connectedSubgraphs: the nodes of a component in the order of a search in
\* breadth.
Across(l, p) == IF FirstOf(l) = p THEN LastOf(l) ELSE FirstOf(l)

Fresh(p, seen) ==
    FoldLeft(LAMBDA new, l :
                 IF p \in EndsOf(l) /\ Across(l, p) \notin ToSet(seen) \cup ToSet(new)
                 THEN Append(new, Across(l, p)) ELSE new,
             <<>>, [l \in LineIds |-> l])

Component(p) ==
    FoldLeft(LAMBDA seen, k : IF k > Len(seen) THEN seen ELSE seen \o Fresh(seen[k], seen),
             <<p>>, [k \in 1..(2 * Len(lines)) |-> k])

HasEulerSequence(nodes) == Cardinality({p \in ToSet(nodes) : Degree(p) % 2 = 1}) <= 2

LowestDegreeNode(nodes) ==
    nodes[CHOOSE i \in DOMAIN nodes :
              \A j \in DOMAIN nodes :
                  \/ Degree(nodes[i]) < Degree(nodes[j])
                  \/ Degree(nodes[i]) = Degree(nodes[j]) /\ i <= j]

\* findUnvisitedBestOrientedOut: the last of the lines that start at p, or
\* the first of those that end there.
BestOut(p, taken) ==
    LET free == LinesAt(p) \ taken
        well == {l \in free : FirstOf(l) = p}
    IN  IF well # {} THEN <<Max(well), FALSE>> ELSE <<Min(free), TRUE>>

IsStuck(p, taken) == LinesAt(p) \ taken = {}

\* addReverseSubpath: the trail from a line until it is stuck.
Subpath(h) ==
    FoldLeft(LAMBDA walk, i :
                 LET p == To(Last(walk))
                     taken == used \cup LinesOf(walk)
                 IN  IF IsStuck(p, taken) THEN walk ELSE Append(walk, BestOut(p, taken)),
             <<h>>, [i \in LineIds |-> i])

\* The lines of the components that are done are those of the sequence.
NextComponent == Component(FirstOf(Min(LineIds \ used)))

StartComponentPastEnd ==
    /\ verdict = "running" /\ cursor = 0 /\ trail = <<>> /\ used # LineIds
    /\ HasEulerSequence(NextComponent)
    /\ LET p == LowestDegreeNode(NextComponent)
       IN  /\ trail' = Subpath(Away(Min(LinesAt(p)), p))
           /\ cursor' = Len(trail') + 1
           /\ used' = used \cup LinesOf(trail')
    /\ UNCHANGED <<lines, sequence, verdict>>

StartComponent ==
    /\ verdict = "running" /\ cursor = 0 /\ trail = <<>> /\ used # LineIds
    /\ IF HasEulerSequence(NextComponent)
       THEN LET p == LowestDegreeNode(NextComponent)
                walk == Subpath(Away(Min(LinesAt(p)), p))
            IN  /\ trail' = walk
                /\ cursor' = Len(walk)
                /\ used' = used \cup LinesOf(walk)
                /\ UNCHANGED <<sequence, verdict>>
       ELSE /\ verdict' = "not sequenceable"
            /\ UNCHANGED <<used, trail, cursor, sequence>>
    /\ UNCHANGED lines

\* A node of the trail has lines left: their trail goes in before the line
\* that leaves it, and the search goes on from its last line.
Splice ==
    /\ cursor > 0
    /\ LET p == From(trail[cursor])
       IN  IF IsStuck(p, used)
           THEN cursor' = cursor - 1 /\ UNCHANGED <<trail, used>>
           ELSE LET walk == Subpath(BestOut(p, used))
                IN  /\ trail' = SubSeq(trail, 1, cursor - 1) \o walk \o SubSeq(trail, cursor, Len(trail))
                    /\ cursor' = cursor + Len(walk) - 1
                    /\ used' = used \cup LinesOf(walk)
    /\ UNCHANGED <<lines, sequence, verdict>>

\* orient: a dead end that its line leaves is the better start, and one that
\* its line enters the better end.
Flips(walk) ==
    LET startsAtTip == Degree(From(walk[1])) = 1
        endsAtTip == Degree(To(Last(walk))) = 1
    IN  IF startsAtTip /\ ~walk[1][2] THEN FALSE
        ELSE (endsAtTip /\ Last(walk)[2]) \/ startsAtTip

Flipped(walk) == [i \in DOMAIN walk |-> Twin(walk[Len(walk) + 1 - i])]

\* buildLines keeps closed lines as they are.
Built(h) == IF IsClosed(h[1]) THEN <<h[1], FALSE>> ELSE h

FinishComponent ==
    /\ cursor = 0 /\ trail # <<>>
    /\ LET walk == IF Flips(trail) THEN Flipped(trail) ELSE trail
       IN  sequence' = sequence \o [i \in DOMAIN walk |-> Built(walk[i])]
    /\ trail' = <<>>
    /\ UNCHANGED <<lines, used, cursor, verdict>>

\* The defensive count of the lines.
FinishSequence ==
    /\ verdict = "running" /\ cursor = 0 /\ trail = <<>> /\ used = LineIds
    /\ verdict' = IF Len(sequence) = Len(lines) THEN "sequenced" ELSE "not sequenceable"
    /\ UNCHANGED <<lines, used, trail, cursor, sequence>>

SequenceOver == verdict # "running"

-----------------------------------------------------------------------------
(***************************************************************************)
(* dissolve.Lines: the segments of all lines, each once, joined into lines *)
(* that run between vertices where not just two segments meet; what is     *)
(* left are rings, which begin where a line began if they can.             *)
(***************************************************************************)

VARIABLES walked,      \* the segments that are part of a line
          dissolved    \* the lines, as sequences of points

dissolveVars == <<walked, dissolved>>

DissolveInit == walked = {} /\ dissolved = <<>>

\* addPts: the segments of a line, as sets of two points.
SegmentSet(pts) == {{pts[i], pts[i + 1]} : i \in {j \in 1..(Len(pts) - 1) : pts[j] # pts[j + 1]}}

\* addEdge: each segment once.
Edges == UNION {SegmentSet(lines[l]) : l \in LineIds}

\* The lines that bring a new segment mark their first vertex.
SegmentsBefore(l) == UNION {SegmentSet(lines[k]) : k \in 1..(l - 1)}

StartVerts == {FirstOf(l) : l \in {k \in LineIds : ~ (SegmentSet(lines[k]) \subseteq SegmentsBefore(k))}}

Adjacent(segments, p) == (UNION {s \in segments : p \in s}) \ {p}

\* Variant: the line goes on through any vertex.
ExtendedThroughJunctions(line) ==
    LET p == Last(line)
        next == Adjacent(Edges, p) \ {line[Len(line) - 1]}
    IN  IF next = {} \/ (Len(line) > 2 /\ p = line[1]) THEN line
        ELSE LET q == CHOOSE q \in next : TRUE
             IN  IF {p, q} \in walked \cup SegmentSet(line) THEN line ELSE Append(line, q)

\* walkChain: through vertices of degree two, up to a segment that was
\* walked before or back to the first vertex.
Extended(line) ==
    LET p == Last(line)
        next == Adjacent(Edges, p) \ {line[Len(line) - 1]}
    IN  IF Cardinality(Adjacent(Edges, p)) # 2 \/ (Len(line) > 2 /\ p = line[1]) THEN line
        ELSE LET q == CHOOSE q \in next : TRUE
             IN  IF {p, q} \in walked \cup SegmentSet(line) THEN line ELSE Append(line, q)

DissolveChain(p, q) ==
    FoldLeft(LAMBDA line, i : Extended(line), <<p, q>>, [i \in 1..Cardinality(Edges) |-> i])

Unwalked == Edges \ walked

Emit(p) ==
    LET line == DissolveChain(p, LeastPoint(Adjacent(Unwalked, p)))
    IN  /\ walked' = walked \cup SegmentSet(line)
        /\ dissolved' = Append(dissolved, line)
        /\ UNCHANGED lines

\* Vertices where a line of the answer may end.
EndVerts == {p \in UNION Unwalked : Cardinality(Adjacent(Edges, p)) # 2}

DissolveFromEnd == EndVerts # {} /\ Emit(LeastPoint(EndVerts))

\* The first of the segments that are left, in the order first seen.
NextEdge ==
    LET at(l) == {i \in 1..(Len(lines[l]) - 1) : {lines[l][i], lines[l][i + 1]} \in Unwalked}
        l == Min({k \in LineIds : at(k) # {}})
    IN  {lines[l][Min(at(l))], lines[l][Min(at(l)) + 1]}

\* pickRingStart: the least vertex of the ring that begins a line, or the
\* least one.
RingOf(s) == ToSet(DissolveChain(LeastPoint(s), LeastPoint(Adjacent(Edges, LeastPoint(s)))))

RingStart(s) ==
    LET begun == RingOf(s) \cap StartVerts
    IN  LeastPoint(IF begun # {} THEN begun ELSE RingOf(s))

DissolveRing ==
    /\ EndVerts = {} /\ Unwalked # {}
    /\ Emit(RingStart(NextEdge))

DissolveOver == Unwalked = {}

=============================================================================
