----------------------------- MODULE MCLinework -----------------------------
(***************************************************************************)
(* The line tools on every subset of a set of lines drawn on a lattice of  *)
(* four by four cells: a square with a diagonal and a second face beside   *)
(* it, a ring around them, a loop that hangs on a line, and a bridge from  *)
(* the ring to the square; and the noders on strokes that cross, touch,    *)
(* run along and meet themselves, and on scattered lines.                  *)
(***************************************************************************)
EXTENDS Linework

Drawing == <<
    <<<<4, 4>>, <<8, 4>>>>,                                        \*  1 to 4: a square
    <<<<8, 4>>, <<8, 8>>>>,
    <<<<8, 8>>, <<4, 8>>>>,
    <<<<4, 4>>, <<4, 8>>>>,
    <<<<4, 4>>, <<6, 6>>, <<8, 8>>>>,                              \*  5: its diagonal
    <<<<8, 4>>, <<12, 4>>, <<12, 8>>, <<8, 8>>>>,                  \*  6: the face beside
    <<<<0, 0>>, <<16, 0>>, <<16, 16>>, <<0, 16>>, <<0, 0>>>>,      \*  7: the ring around
    <<<<4, 8>>, <<4, 12>>>>,                                       \*  8: a line
    <<<<4, 12>>, <<8, 12>>, <<6, 14>>, <<4, 12>>>>,                \*  9: a loop at its end
    <<<<0, 0>>, <<4, 4>>>>,                                        \* 10: the bridge
    <<<<8, 8>>, <<8, 4>>, <<4, 4>>>> >>                            \* 11: lines 2 and 1 again

Ring == 7
Loop == {8, 9}
Bridge == 10
Again == 11

Picked(S) == SelectSeq([i \in DOMAIN Drawing |-> i], LAMBDA i : i \in S)

Subset(S) == [i \in 1..Cardinality(S) |-> Drawing[Picked(S)[i]]]

Turned(seq) == [i \in DOMAIN seq |-> IF i % 2 = 0 THEN Reverse(seq[i]) ELSE seq[i]]

Subsets == (SUBSET (DOMAIN Drawing)) \ {{}}

UpTo(n) == {S \in Subsets : Cardinality(S) <= n}

\* The polygonizer is given noded lines, and no line inside the ring that
\* divides no faces: it reports such a line only outside of all polygons.
Framed == {S \in Subsets : Again \notin S /\ (Ring \in S => Bridge \notin S /\ ~ (Loop \subseteq S))}

Strokes == <<
    <<<<0, 0>>, <<16, 16>>>>,
    <<<<0, 8>>, <<16, 8>>>>,
    <<<<4, 16>>, <<4, 0>>, <<12, 0>>, <<12, 16>>>>,
    <<<<12, 4>>, <<4, 12>>>>,
    <<<<0, 4>>, <<8, 12>>, <<16, 4>>, <<0, 4>>>>,
    <<<<8, 8>>, <<16, 8>>>>,
    <<<<0, 16>>, <<6, 10>>, <<6, 10>>, <<16, 0>>>>,
    <<<<16, 12>>, <<0, 12>>, <<8, 4>>, <<8, 16>>>> >>

Stroked(S) ==
    LET picked == SelectSeq([i \in DOMAIN Strokes |-> i], LAMBDA i : i \in S) IN [k \in DOMAIN picked |-> Strokes[picked[k]]]

StrokeSets == {S \in SUBSET (DOMAIN Strokes) : Cardinality(S) \in 1..3}

\* Points all over the lattice, and three lines through some of them.
Scattered(i) == <<(i * 7919 + (i \div 17) * 31) % 17, (i * 10427 + (i \div 17) * 17) % 17>>

ScatteredLines(i) == <<
    <<Scattered(i), Scattered(5 * i + 1)>>,
    <<Scattered(i + 2), Scattered(3 * i + 3), Scattered(i + 7)>>,
    <<Scattered(2 * i + 4), Scattered(((i * i) % 1009) + 5)>> >>

ScatteredRing(i) == <<Scattered(i), Scattered(3 * i + 1), Scattered(7 * i + 2), Scattered(i)>>

\* A line that visits a vertex twice which is near its first segment.
Folded == <<<<0, 0>>, <<24, 4>>, <<24, 12>>, <<8, 4>>, <<8, 12>>, <<16, 12>>, <<8, 4>>, <<0, 12>>>>

\* The SnappingNoder is not told a grid: the points where its lines meet are
\* lattice points.
MeetsOnLattice(ls) ==
    LET strings == SnapThrough(NoTree, [l \in DOMAIN ls |-> Str(ls[l], l)]).strings
    IN  \A g, h \in SegmentIds(strings) : g # h => \A q \in Meeting(strings, g, h) : IsLatticePoint(q)

NodingCalls ==
    {[tool |-> "iterate", lines |-> Stroked(S)] : S \in StrokeSets}
        \cup {[tool |-> "snap", lines |-> ScatteredLines(i)] : i \in {i \in 1..250 : MeetsOnLattice(ScatteredLines(i))}}
        \cup {[tool |-> t, lines |-> ScatteredLines(i)] : i \in 1..150, t \in {"round", "round and merge"}}
        \cup {[tool |-> "round", lines |-> <<ScatteredRing(i), ScatteredRing(i + 1)>>] : i \in 1..80}
        \cup {[tool |-> "round and merge", lines |-> ls] :
                ls \in {<<Folded>>, <<Folded, <<<<3, 14>>, <<15, 1>>>>>>, <<Reverse(Folded), <<<<9, 9>>, <<22, 1>>>>>>}}

\* Overlays: an operand is one line or two, or points; points off the grid
\* are given to the operations that tell whether they were on a line.
Crossing == <<
    <<<<0, 0>>, <<16, 16>>>>,
    <<<<0, 8>>, <<16, 8>>>>,
    <<<<4, 4>>, <<12, 4>>, <<12, 12>>, <<4, 12>>, <<4, 4>>>>,
    <<<<16, 0>>, <<0, 16>>>>,
    <<<<4, 8>>, <<12, 8>>>>,
    <<<<8, 0>>, <<8, 16>>, <<16, 16>>>> >>

GridPoints == {<<8, 8>>, <<4, 4>>, <<4, 16>>}
OffGrid == {<<5, 9>>, <<13, 8>>, <<7, 11>>, <<15, 14>>}

Operands == {<<Crossing[i]>> : i \in DOMAIN Crossing} \cup {<<Crossing[1], Crossing[2]>>, <<Crossing[4], Crossing[6]>>}
PointSets == {<<<<p>>>> : p \in GridPoints \cup OffGrid} \cup {<<<<<<8, 8>>>>, <<<<4, 16>>>>>>, <<<<<<4, 4>>>>, <<<<7, 11>>>>>>}

\* Two operands by turns: odd lines of the first, even ones of the second; the
\* shorter one is repeated, which says nothing new.
ByTurns(a, b) ==
    LET longer == IF Len(a) > Len(b) THEN Len(a) ELSE Len(b)
        at(s, k) == s[IF k > Len(s) THEN Len(s) ELSE k]
    IN  [k \in 1..(2 * longer) |-> IF k % 2 = 1 THEN at(a, (k + 1) \div 2) ELSE at(b, k \div 2)]

OverlayCalls ==
    {[tool |-> op, lines |-> ByTurns(a, b)] : op \in Overlays, a \in Operands, b \in Operands}
        \cup {[tool |-> op, lines |-> ByTurns(a, b)] : op \in {"intersection", "difference"}, a \in PointSets, b \in Operands}
        \cup {[tool |-> "intersection", lines |-> ByTurns(b, a)] : a \in PointSets, b \in Operands}
        \cup {[tool |-> op, lines |-> ByTurns(<<<<p>>>>, b)] : op \in {"union", "symdiff"}, p \in GridPoints, b \in Operands}
        \cup {[tool |-> op, lines |-> SubSeq(ScatteredLines(i), 1, 2)] : op \in {"intersection", "difference"}, i \in 1..60}

MCCalls ==
    NodingCalls \cup OverlayCalls \cup
    {[tool |-> "polygonize", lines |-> Subset(S)] : S \in Framed}
        \cup {[tool |-> "polygonize", lines |-> <<Drawing[1], <<<<8, 4>>>>, Drawing[Ring]>>]}
        \cup {[tool |-> "dissolve", lines |-> Subset(S)] : S \in UpTo(5)}
        \cup UNION {{[tool |-> t, lines |-> Subset(S)], [tool |-> t, lines |-> Turned(Subset(S))]}
                      : t \in {"merge", "sequence"}, S \in UpTo(4)}

=============================================================================
