----------------------------- MODULE NodeLines -----------------------------
(***************************************************************************)
(* internal/snaprounding, and the noders that take several passes over the *)
(* lines they are given.  Vertices are rounded to a grid, a segment that   *)
(* passes the cell of a vertex is led through it, and the lines are noded  *)
(* again until nothing is inserted.                                        *)
(***************************************************************************)
EXTENDS LineGraph, SnapGrid

CONSTANT MaxIter    \* maxIter and IteratedNoder.MaxIter: passes before giving up

ASSUME MaxIterAssumption == MaxIter \in Nat \ {0}

-----------------------------------------------------------------------------
(***************************************************************************)
(* snaprounding.Noder.                                                     *)
(***************************************************************************)
\* insertHotPixelSplits.
InsertSplits(strings) ==
    LET pixels == PixelsOf(strings)
        threaded(pts) == Threaded(pts, [i \in 1..(Len(pts) - 1) |-> SegmentSplitsAt(pixels, pts[i], pts[i + 1])])
    IN  [i \in DOMAIN strings |->
            IF Len(strings[i].coords) < 2 THEN strings[i] ELSE Str(threaded(strings[i].coords), strings[i].tag)]

\* chainHasInteriorRepeat: a vertex visited twice, not counting the closing.
OpenVertices(pts) == IF pts[1] = Last(pts) THEN Front(pts) ELSE pts

Times(pts, p) == Cardinality({k \in DOMAIN pts : pts[k] = p})

HasInteriorRepeat(pts) ==
    Len(pts) >= 4 /\ \E k \in DOMAIN OpenVertices(pts) : Times(OpenVertices(pts), pts[k]) > 1

\* insertSplitsRelaxedInto: only vertices that the string visits twice, and
\* not the ones next to the segment.
RelaxedInto(pts, pixels) ==
    LET beside(i) == {pts[k] : k \in {i - 1, i, i + 1, i + 2} \cap DOMAIN pts}
        twice(i) == SelectSeq(SegmentSplitsAtRelaxed(pixels, pts[i], pts[i + 1]),
                              LAMBDA p : p \notin beside(i) /\ Times(OpenVertices(pts), p) >= 2)
    IN  Threaded(pts, [i \in 1..(Len(pts) - 1) |-> twice(i)])

\* nearCollinearPass: within the strings of one tag.
NearCollinearPass(strings) ==
    LET pixels(tag) == PixelsOf(SelectSeq(strings, LAMBDA s : s.tag = tag))
    IN  [i \in DOMAIN strings |->
            LET s == strings[i]
            IN  IF Len(s.coords) >= 2 /\ HasInteriorRepeat(s.coords)
                THEN Str(RelaxedInto(s.coords, pixels(s.tag)), s.tag) ELSE s]

Finalise(strings) == SelectSeq(strings, LAMBDA s : Len(s.coords) >= 2)

-----------------------------------------------------------------------------
VARIABLES
    noded,      \* the strings as they are now, the tag of each being its line
    pass,       \* passes done
    settled,    \* "running", "converged" or "not converged"
    kd          \* the vertices that the SnappingNoder snaps to

nodeVars == <<noded, pass, settled, kd>>

NodeInit ==
    /\ noded = [l \in LineIds |-> Str(lines[l], l)]
    /\ pass = 0 /\ settled = "running" /\ kd = NoTree

IsRunning == settled = "running"

NextPass(strings) == noded' = strings /\ pass' = pass + 1 /\ UNCHANGED <<settled, kd, lines>>

End(verdict, strings) == settled' = verdict /\ noded' = strings /\ UNCHANGED <<pass, kd, lines>>

-----------------------------------------------------------------------------
\* IteratedNoder: until a pass changes nothing.
Signature(strings) == [i \in DOMAIN strings |-> strings[i].coords]

Iterate ==
    /\ IsRunning
    /\ LET next == MCIndexNode(noded, 0, 1)
       IN  IF pass = MaxIter THEN End("not converged", noded)
           ELSE IF Signature(next) = Signature(noded) THEN End("converged", next)
           ELSE NextPass(next)

-----------------------------------------------------------------------------
\* snaprounding.Noder.Node: the lines are noded; then, each pass, snapped and
\* led through the pixels they pass, and noded again if that added anything.
RoundFirst == IsRunning /\ pass = 0 /\ NextPass(NodeAdaptive(noded, Tolerance))

Rounding == IsRunning /\ pass \in 1..MaxIter

AllSnapped == SnapAndDedupe(noded)

Adds(strings) == InsertSplits(strings) # strings

RoundInsert ==
    /\ Rounding
    /\ LET snapped == AllSnapped
           next == InsertSplits(snapped)
       IN  next # snapped /\ NextPass(NodeAdaptive(next, Tolerance))

RoundConverge == Rounding /\ ~Adds(AllSnapped) /\ End("converged", Finalise(AllSnapped))

\* With MergeNearCollinear the end waits for one more pass.
MergedOrDone(merged) ==
    IF Adds(merged) THEN NextPass(merged) ELSE End("converged", Finalise(merged))

RoundMerge ==
    /\ Rounding /\ ~Adds(AllSnapped) /\ NearCollinearPass(AllSnapped) # AllSnapped
    /\ MergedOrDone(SnapAndDedupe(NodeAdaptive(NearCollinearPass(AllSnapped), Tolerance)))

RoundMerged == NearCollinearPass(AllSnapped) = AllSnapped /\ RoundConverge

\* The guard pass, after the last.
RoundGuard ==
    /\ IsRunning /\ pass = MaxIter + 1
    /\ End(IF Adds(AllSnapped) THEN "not converged" ELSE "converged", Finalise(AllSnapped))

Round == RoundFirst \/ RoundInsert \/ RoundConverge \/ RoundGuard
RoundAndMerge == RoundFirst \/ RoundInsert \/ RoundMerge \/ RoundMerged \/ RoundGuard

-----------------------------------------------------------------------------
\* SnappingNoder: every vertex becomes the one it is near, the lines are noded,
\* and the vertices of the pieces are snapped once more.
SnapThrough(tree, strings) ==
    LET snapPoint(acc, p) ==
            [tree |-> Insert(acc.tree, p, Tolerance), pts |-> Append(acc.pts, CanonOf(acc.tree, p, Tolerance))]
        snapString(acc, s) ==
            LET one == FoldLeft(snapPoint, [tree |-> acc.tree, pts |-> <<>>], s.coords)
            IN  [tree |-> one.tree, strings |-> Append(acc.strings, Str(WithoutRepeats(one.pts), s.tag))]
    IN  FoldLeft(snapString, [tree |-> tree, strings |-> <<>>], strings)

SnapVertices ==
    /\ IsRunning /\ pass = 0
    /\ LET snapped == SnapThrough(kd, noded) IN kd' = snapped.tree /\ noded' = snapped.strings
    /\ pass' = 1 /\ UNCHANGED <<settled, lines>>

NodeSnapped == IsRunning /\ pass = 1 /\ NextPass(MCIndexNode(noded, 2 * Tolerance, 1))

SnapAgain ==
    /\ IsRunning /\ pass = 2
    /\ LET snapped == SnapThrough(kd, noded) IN kd' = snapped.tree /\ noded' = Finalise(snapped.strings)
    /\ settled' = "converged" /\ UNCHANGED <<pass, lines>>

Snap == SnapVertices \/ NodeSnapped \/ SnapAgain

NodeOver == ~IsRunning

=============================================================================
