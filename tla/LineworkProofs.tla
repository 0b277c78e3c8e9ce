--------------------------- MODULE LineworkProofs ---------------------------
(***************************************************************************)
(* Theorems about the line tools, for any calls whatever their lines.      *)
(***************************************************************************)
EXTENDS Linework, FiniteSetTheorems, FunctionTheorems, WellFoundedInduction, TLAPS

LinesTyped == lines \in Seq(Seq(Int \X Int) \ {<<>>})

-----------------------------------------------------------------------------
(***************************************************************************)
(* Ends and half-edges.                                                    *)
(***************************************************************************)

\* There are finitely many lines.
LEMMA FinitelyMany == LinesTyped => IsFiniteSet(LineIds)
<1> SUFFICES ASSUME LinesTyped PROVE IsFiniteSet(LineIds)
  OBVIOUS
<1>1. LineIds = 1..Len(lines) /\ Len(lines) \in Nat
  BY DEF LinesTyped, LineIds
<1> QED
  BY <1>1, FS_Interval

\* A half-edge leaves one end of its line, and the other half the other end.
LEMMA FromEnds ==
  ASSUME LinesTyped, NEW l \in LineIds
  PROVE  /\ From(<<l, FALSE>>) = FirstOf(l)
         /\ From(<<l, TRUE>>) = LastOf(l)
         /\ To(<<l, FALSE>>) = LastOf(l)
         /\ To(<<l, TRUE>>) = FirstOf(l)
<1> DEFINE pts == lines[l]
<1>1. pts \in Seq(Int \X Int) /\ pts # <<>>
  BY DEF LinesTyped, LineIds
<1>2. Len(pts) \in Nat /\ Len(pts) >= 1
  BY <1>1
<1>3. Reverse(pts)[1] = pts[Len(pts)] /\ Reverse(pts)[Len(pts)] = pts[1]
  BY <1>2 DEF Reverse
<1>4. Len(Reverse(pts)) = Len(pts)
  BY <1>1, <1>2 DEF Reverse
<1> QED
  BY <1>3, <1>4 DEF From, To, Points, FirstOf, LastOf, Last

-----------------------------------------------------------------------------
(***************************************************************************)
(* removeDangles.                                                          *)
(***************************************************************************)

\* The half-edges of the lines that are left when the lines D are gone, and
\* those of the lines that end at a node.
HalvesWithout(D) == {h \in AllHalves : h[1] \notin D}
LeftAt(D, p) == LinesAt(p) \cap (Walkable \ D)

\* The lines a node lists are those that are left and end there.
LEMMA ListedAt ==
  ASSUME LinesTyped, NEW D, NEW p
  PROVE  {h[1] : h \in {g \in HalvesWithout(D) : From(g) = p}} = LeftAt(D, p)
<1>1. ASSUME NEW h \in HalvesWithout(D), From(h) = p
      PROVE  h[1] \in LeftAt(D, p)
  <2>1. h[1] \in Walkable /\ h[1] \in LineIds /\ h[1] \notin D /\ h = <<h[1], h[2]>> /\ h[2] \in BOOLEAN
    BY <1>1 DEF HalvesWithout, AllHalves, Walkable
  <2>2. p \in EndsOf(h[1])
    <3>1. CASE h[2] = FALSE
      BY <1>1, <2>1, <3>1, FromEnds DEF EndsOf
    <3>2. CASE h[2] = TRUE
      BY <1>1, <2>1, <3>2, FromEnds DEF EndsOf
    <3> QED
      BY <2>1, <3>1, <3>2
  <2> QED
    BY <2>1, <2>2 DEF LeftAt, LinesAt
<1>2. ASSUME NEW l \in LeftAt(D, p)
      PROVE  \E h \in HalvesWithout(D) : From(h) = p /\ h[1] = l
  <2>1. l \in LineIds /\ l \in Walkable /\ l \notin D /\ p \in EndsOf(l)
    BY DEF LeftAt, LinesAt, Walkable
  <2>2. From(<<l, FALSE>>) = p \/ From(<<l, TRUE>>) = p
    BY <2>1, FromEnds DEF EndsOf
  <2>3. <<l, FALSE>> \in HalvesWithout(D) /\ <<l, TRUE>> \in HalvesWithout(D)
    BY <2>1 DEF HalvesWithout, AllHalves
  <2> QED
    BY <2>2, <2>3
<1> QED
  BY <1>1, <1>2

\* A node has a free end when one line is left there and it is not closed.
LEMMA FreeEndsAre ==
  ASSUME LinesTyped, NEW D, NEW p
  PROVE  p \in FreeEnds(HalvesWithout(D)) <=>
           /\ LeftAt(D, p) # {}
           /\ \A l \in LeftAt(D, p) : ~IsClosed(l)
           /\ Cardinality(LeftAt(D, p)) <= 1
<1> DEFINE at == {h[1] : h \in {g \in HalvesWithout(D) : From(g) = p}}
<1>1. at = LeftAt(D, p)
  BY ListedAt
<1>2. p \in NodesOf(HalvesWithout(D)) <=> at # {}
  BY DEF NodesOf
<1>3. DegreeIn(HalvesWithout(D), p) = IF \E l \in at : IsClosed(l) THEN 2 ELSE Cardinality(at)
  BY DEF DegreeIn
<1> HIDE DEF at
<1>4. p \in FreeEnds(HalvesWithout(D)) <=> p \in NodesOf(HalvesWithout(D)) /\ DegreeIn(HalvesWithout(D), p) <= 1
  BY DEF FreeEnds
<1>5. CASE \E l \in at : IsClosed(l)
  BY <1>1, <1>3, <1>4, <1>5
<1>6. CASE ~ \E l \in at : IsClosed(l)
  BY <1>1, <1>2, <1>3, <1>4, <1>6
<1> QED
  BY <1>5, <1>6

\* Lines without a free end are not in the way of removing one: a node with a
\* free end has none of them.
LEMMA NoneOfThem ==
  ASSUME LinesTyped, NEW D, NEW p \in FreeEnds(HalvesWithout(D)),
         NEW S \in SUBSET Walkable, HasNoFreeEnd(S), S \cap D = {}
  PROVE  LeftAt(D, p) \cap S = {}
<1> SUFFICES ASSUME NEW l \in LeftAt(D, p), l \in S
             PROVE  FALSE
  OBVIOUS
<1>1. /\ \A k \in LeftAt(D, p) : ~IsClosed(k)
      /\ Cardinality(LeftAt(D, p)) <= 1
  BY FreeEndsAre
<1>2. LinesAt(p) \cap S \subseteq LeftAt(D, p)
  BY DEF LeftAt
<1>3. p \in EndsOf(l)
  BY DEF LeftAt, LinesAt
<1>4. Cardinality(LinesAt(p) \cap S) >= 2
  BY <1>1, <1>2, <1>3 DEF HasNoFreeEnd
<1>5. IsFiniteSet(LeftAt(D, p))
  <2>1. LeftAt(D, p) \subseteq LineIds
    BY DEF LeftAt, LinesAt
  <2> QED
    BY <2>1, FinitelyMany, FS_Subset
<1>6. Cardinality(LinesAt(p) \cap S) <= Cardinality(LeftAt(D, p))
  BY <1>2, <1>5, FS_Subset
<1>7. Cardinality(LinesAt(p) \cap S) \in Nat /\ Cardinality(LeftAt(D, p)) \in Nat
  BY <1>2, <1>5, FS_Subset, FS_CardinalityType
<1> QED
  BY <1>1, <1>4, <1>6, <1>7

\* A node that becomes free when lines go was free before, or one of these
\* lines ends there.
LEMMA BecomesFree ==
  ASSUME LinesTyped, NEW D, NEW R, NEW q \in FreeEnds(HalvesWithout(D \cup R)),
         q \notin FreeEnds(HalvesWithout(D))
  PROVE  \E l \in R : l \in LineIds /\ q \in EndsOf(l)
<1> SUFFICES ASSUME ~ \E l \in R : l \in LineIds /\ q \in EndsOf(l)
             PROVE  FALSE
  OBVIOUS
<1>1. LeftAt(D \cup R, q) = LeftAt(D, q)
  BY DEF LeftAt, LinesAt
<1> QED
  BY <1>1, FreeEndsAre

\* The lines that are left have no free end once no node has one.
LEMMA NoneLeftFree ==
  ASSUME LinesTyped, NEW D, FreeEnds(HalvesWithout(D)) = {}
  PROVE  HasNoFreeEnd(Walkable \ D)
<1> SUFFICES ASSUME NEW l \in Walkable \ D, NEW p \in EndsOf(l)
             PROVE  \/ Cardinality(LinesAt(p) \cap (Walkable \ D)) >= 2
                    \/ \E k \in LinesAt(p) \cap (Walkable \ D) : IsClosed(k)
  BY DEF HasNoFreeEnd
<1>1. l \in LeftAt(D, p)
  BY DEF LeftAt, LinesAt, Walkable
<1>2. \/ \E k \in LeftAt(D, p) : IsClosed(k)
      \/ ~(Cardinality(LeftAt(D, p)) <= 1)
  BY <1>1, FreeEndsAre
<1>3. Cardinality(LeftAt(D, p)) \in Nat
  <2>1. LeftAt(D, p) \subseteq LineIds
    BY DEF LeftAt, LinesAt
  <2> QED
    BY <2>1, FinitelyMany, FS_Subset, FS_CardinalityType
<1> QED
  BY <1>2, <1>3 DEF LeftAt

\* Operators of the lines do not change when the lines do not.
LEMMA SameLines ==
  ASSUME lines' = lines
  PROVE  /\ LinesTyped => LinesTyped'
         /\ Walkable' = Walkable /\ AllHalves' = AllHalves
         /\ HalvesWithout(dangles)' = HalvesWithout(dangles')
         /\ FreeEnds(out)' = FreeEnds(out')
         /\ \A S : HasNoFreeEnd(S)' <=> HasNoFreeEnd(S)
<1>1. LinesTyped => LinesTyped'
  BY DEF LinesTyped
<1>2. LineIds' = LineIds
  BY DEF LineIds
<1>3. Walkable' = Walkable
  BY <1>2 DEF Walkable
<1>4. AllHalves' = AllHalves
  BY <1>3 DEF AllHalves
<1>5. HalvesWithout(dangles)' = HalvesWithout(dangles')
  BY <1>4 DEF HalvesWithout
<1>6. \A h : From(h)' = From(h)
  BY DEF From, Points
<1>7. \A l : IsClosed(l)' <=> IsClosed(l)
  BY DEF IsClosed, FirstOf, LastOf
<1>8. NodesOf(out)' = NodesOf(out')
  BY <1>6 DEF NodesOf
<1>9. \A p : DegreeIn(out, p)' = DegreeIn(out', p)
  BY <1>6, <1>7 DEF DegreeIn
<1>10. FreeEnds(out)' = FreeEnds(out')
  BY <1>8, <1>9 DEF FreeEnds
<1>11. \A p : LinesAt(p)' = LinesAt(p)
  BY <1>2 DEF LinesAt, EndsOf, FirstOf, LastOf
<1>12. \A l : EndsOf(l)' = EndsOf(l)
  BY DEF EndsOf, FirstOf, LastOf
<1>13. \A S : HasNoFreeEnd(S)' <=> HasNoFreeEnd(S)
  BY <1>7, <1>11, <1>12 DEF HasNoFreeEnd
<1> QED
  BY <1>1, <1>3, <1>4, <1>5, <1>10, <1>13

\* What holds while free ends are removed: the nodes list the lines that are
\* not dangles, every node with a free end is waiting, and no line of a set
\* without free ends has gone.
DanglesInv ==
    /\ LinesTyped
    /\ step \in {"loops", "dangles", "trace", "done"}
    /\ step = "loops" => edges = AllHalves /\ out = AllHalves /\ dangles = {}
    /\ step # "loops" => out = HalvesWithout(dangles)
    /\ step = "dangles" => FreeEnds(out) \subseteq queue
    /\ step \in {"trace", "done"} => FreeEnds(out) = {}
    /\ \A S \in SUBSET Walkable : HasNoFreeEnd(S) => S \cap dangles = {}

\* Nothing is marked at first.
LEMMA DanglesStart == Init => DanglesInv
  BY CallsAssumption DEF Init, PolygonizeInit, DanglesInv, LinesTyped

\* Marking closed lines that are no rings keeps the invariant.
LEMMA LoopsKeep == DanglesInv /\ RemoveInvalidRingLoops => DanglesInv'
<1> SUFFICES ASSUME DanglesInv, RemoveInvalidRingLoops
             PROVE  DanglesInv'
  OBVIOUS
<1> USE DEF RemoveInvalidRingLoops
<1>1. edges = AllHalves /\ out = AllHalves /\ dangles = {} /\ dangles' = {} /\ lines' = lines
  BY DEF DanglesInv
<1>2. ASSUME NEW h \in AllHalves
      PROVE  h \in out'
  <2>1. <<h[1], TRUE>> \in edges'
    BY <1>1 DEF AllHalves
  <2> QED
    BY <1>1, <2>1
<1>3. out' = HalvesWithout(dangles')
  BY <1>1, <1>2 DEF HalvesWithout
<1>4. queue' = FreeEnds(out') /\ step' = "dangles"
  OBVIOUS
<1> QED
  BY <1>1, <1>3, <1>4, SameLines DEF DanglesInv

\* Removing a dangle keeps the invariant.
LEMMA RemovalKeeps == DanglesInv /\ RemoveDangle => DanglesInv'
<1> SUFFICES ASSUME DanglesInv, RemoveDangle
             PROVE  DanglesInv'
  OBVIOUS
<1>1. /\ step = "dangles" /\ step' = "dangles" /\ lines' = lines
      /\ out = HalvesWithout(dangles) /\ FreeEnds(out) \subseteq queue /\ LinesTyped
      /\ \A S \in SUBSET Walkable : HasNoFreeEnd(S) => S \cap dangles = {}
  BY DEF DanglesInv, RemoveDangle
<1>2. PICK p \in queue :
        LET others == (UNION {EndsOf(l) : l \in Removed(p)}) \ {p}
        IN  /\ dangles' = dangles \cup Removed(p)
            /\ out' = Without(out, Removed(p))
            /\ queue' = (queue \ {p}) \cup (others \cap FreeEnds(out'))
  BY DEF RemoveDangle
<1> DEFINE gone == Removed(p)
<1>3. gone = IF p \in FreeEnds(out) THEN LeftAt(dangles, p) ELSE {}
  BY <1>1, ListedAt DEF Removed
<1>4. out' = HalvesWithout(dangles')
  BY <1>1, <1>2 DEF HalvesWithout, Without
<1>5. dangles' = dangles \cup gone
  BY <1>2
<1>6. queue' = (queue \ {p}) \cup (((UNION {EndsOf(l) : l \in gone}) \ {p}) \cap FreeEnds(out'))
  BY <1>2
<1> HIDE DEF gone
<1>7. ASSUME NEW q \in FreeEnds(out')
      PROVE  q \in queue'
  <2>1. CASE q \in FreeEnds(out)
    <3>1. q # p
      <4>1. SUFFICES ASSUME q = p
                     PROVE  FALSE
        OBVIOUS
      <4>2. LeftAt(dangles', p) = {}
        BY <1>3, <1>5, <2>1, <4>1 DEF LeftAt
      <4> QED
        BY <1>1, <1>4, <1>7, <4>1, <4>2, FreeEndsAre
    <3> QED
      BY <1>1, <1>6, <2>1, <3>1
  <2>2. CASE q \notin FreeEnds(out)
    <3>1. PICK l \in gone : l \in LineIds /\ q \in EndsOf(l)
      BY <1>1, <1>4, <1>5, <1>7, <2>2, BecomesFree
    <3>2. q # p
      <4>1. p \in FreeEnds(out)
        BY <1>3, <3>1
      <4> QED
        BY <2>2, <4>1
    <3> QED
      BY <1>6, <1>7, <3>1, <3>2
  <2> QED
    BY <2>1, <2>2
<1>8. ASSUME NEW S \in SUBSET Walkable, HasNoFreeEnd(S)
      PROVE  S \cap dangles' = {}
  <2>1. S \cap dangles = {}
    BY <1>1, <1>8
  <2>2. S \cap gone = {}
    BY <1>1, <1>3, <1>8, <2>1, NoneOfThem
  <2> QED
    BY <1>5, <2>1, <2>2
<1> QED
  BY <1>1, <1>4, <1>7, <1>8, SameLines DEF DanglesInv

\* No other step touches the lines, their nodes or the dangles.
LEMMA OthersKeep ==
  DanglesInv /\ lines' = lines /\ out' = out /\ dangles' = dangles
    /\ (\/ step' = step /\ edges' = edges /\ queue' = queue
        \/ step = "dangles" /\ queue = {} /\ step' = "trace"
        \/ step = "trace" /\ step' \in {"trace", "done"}) => DanglesInv'
  BY SameLines DEF DanglesInv

\* One step of any tool.
LEMMA DanglesKept == DanglesInv /\ [Next]_vars => DanglesInv'
<1> SUFFICES ASSUME DanglesInv, [Next]_vars
             PROVE  DanglesInv'
  OBVIOUS
<1>1. CASE Polygonizing
  <2>1. CASE RemoveInvalidRingLoops
    BY <2>1, LoopsKeep
  <2>2. CASE RemoveDangle
    BY <2>2, RemovalKeeps
  <2>3. CASE StartTrace
    BY <2>3, OthersKeep DEF StartTrace
  <2>4. CASE TraceFace
    BY <2>4, OthersKeep DEF TraceFace
  <2>5. CASE Assemble
    BY <2>5, OthersKeep DEF Assemble
  <2> QED
    BY <1>1, <2>1, <2>2, <2>3, <2>4, <2>5 DEF Polygonizing
<1>2. CASE Merging
  BY <1>2, OthersKeep DEF Merging, polygonizeVars, MergeFromTip, MergeRing, StartChain, GrowChain, EmitChain
<1>3. CASE Sequencing
  BY <1>3, OthersKeep DEF Sequencing, polygonizeVars, StartComponent, Splice, FinishComponent, FinishSequence
<1>4. CASE Dissolving
  BY <1>4, OthersKeep DEF Dissolving, polygonizeVars, DissolveFromEnd, DissolveRing, Emit
<1>5. CASE NodingLines
  <2>1. lines' = lines
    BY <1>5 DEF NodingLines, Iterate, Round, RoundAndMerge, RoundFirst, RoundInsert, RoundConverge, RoundMerge,
                RoundMerged, RoundGuard, MergedOrDone, Snap, SnapVertices, NodeSnapped, SnapAgain, NextPass, End
  <2> QED
    BY <1>5, <2>1, OthersKeep DEF NodingLines, polygonizeVars
<1>6. CASE Overlaying
  BY <1>6, OthersKeep DEF Overlaying, polygonizeVars, LinealStart, LinealPass, LinealFinish
<1>7. CASE UNCHANGED vars
  BY <1>7, OthersKeep DEF vars, polygonizeVars
<1> QED
  BY <1>1, <1>2, <1>3, <1>4, <1>5, <1>6, <1>7 DEF Next, Over

\* Whatever the lines and the order in which the nodes come: what is left
\* without the dangles is the largest set of lines without a free end.
THEOREM DanglesFound == Spec => []DanglesRight
<1>1. DanglesInv => DanglesRight
  <2> SUFFICES ASSUME DanglesInv, step \in {"trace", "done"}
               PROVE  /\ HasNoFreeEnd(LinesLeft)
                      /\ \A S \in SUBSET Walkable : HasNoFreeEnd(S) => S \subseteq LinesLeft
    BY DEF DanglesRight
  <2>1. out = HalvesWithout(dangles) /\ FreeEnds(out) = {} /\ LinesTyped
    BY DEF DanglesInv
  <2>2. HasNoFreeEnd(LinesLeft)
    BY <2>1, NoneLeftFree DEF LinesLeft
  <2>3. \A S \in SUBSET Walkable : HasNoFreeEnd(S) => S \subseteq LinesLeft
    BY DEF DanglesInv, LinesLeft
  <2> QED
    BY <2>2, <2>3
<1> QED
  BY DanglesStart, DanglesKept, <1>1, PTL DEF Spec

-----------------------------------------------------------------------------
(***************************************************************************)
(* linemerge.Merge: walks.                                                 *)
(***************************************************************************)
\* A set of natural numbers has a least one.
LEMMA MinIsIn ==
  ASSUME NEW S \in SUBSET Nat, S # {}
  PROVE  Min(S) \in S /\ \A m \in S : Min(S) <= m
<1> DEFINE R == OpToRel(<, Nat)
<1>1. IsWellFoundedOn(R, Nat)
  BY NatLessThanWellFounded
<1>2. \A m, n \in Nat : m < n => <<m, n>> \in R
  BY DEF OpToRel
<1> HIDE DEF R
<1>3. PICK n \in S : \A m \in S : <<m, n>> \notin R
  BY <1>1, WFMin
<1>4. \A m \in S : ~(m < n)
  BY <1>2, <1>3
<1>5. \A m \in S : n <= m
  BY <1>4
<1> QED
  BY <1>5 DEF Min

\* A half-edge and its twin: the two halves of a line.
LEMMA TwinOf ==
  ASSUME LinesTyped, NEW h \in Halves
  PROVE  /\ Twin(h) \in Halves /\ Twin(h) # h /\ Twin(h)[1] = h[1]
         /\ From(Twin(h)) = To(h) /\ To(Twin(h)) = From(h)
         /\ EndsOf(h[1]) = {From(h), To(h)}
         /\ Twin(h)[2] <=> ~h[2]
         /\ \A g \in Halves : g[1] = h[1] => g \in {h, Twin(h)}
<1>1. h[1] \in LineIds /\ h[2] \in BOOLEAN /\ h = <<h[1], h[2]>>
  BY DEF Halves
<1>2. Twin(h) \in Halves /\ Twin(h)[1] = h[1] /\ (Twin(h)[2] <=> ~h[2])
  BY <1>1 DEF Twin, Halves
<1>3. ASSUME NEW g \in Halves, g[1] = h[1]
      PROVE  g = h \/ g = Twin(h)
  BY <1>1, <1>3 DEF Twin, Halves
<1>4. /\ From(Twin(h)) = To(h) /\ To(Twin(h)) = From(h)
      /\ EndsOf(h[1]) = {From(h), To(h)}
  <2>1. CASE h[2] = TRUE
    <3>1. h = <<h[1], TRUE>> /\ Twin(h) = <<h[1], FALSE>>
      BY <1>1, <2>1 DEF Twin
    <3> QED
      BY <1>1, <3>1, FromEnds DEF EndsOf
  <2>2. CASE h[2] = FALSE
    <3>1. h = <<h[1], FALSE>> /\ Twin(h) = <<h[1], TRUE>>
      BY <1>1, <2>2 DEF Twin
    <3> QED
      BY <1>1, <3>1, FromEnds DEF EndsOf
  <2> QED
    BY <1>1, <2>1, <2>2
<1> QED
  BY <1>2, <1>3, <1>4

\* A line walked away from one of its ends.
LEMMA AwayFrom ==
  ASSUME LinesTyped, NEW l \in LineIds, NEW p \in EndsOf(l)
  PROVE  Away(l, p) \in Halves /\ Away(l, p)[1] = l /\ From(Away(l, p)) = p
  BY FromEnds DEF Away, Halves, EndsOf

\* Just two half-edges leave a node of degree two.
LEMMA TwoHalves ==
  ASSUME LinesTyped, NEW p, Degree(p) = 2
  PROVE  /\ \A a, b, c \in Halves : From(a) = p /\ From(b) = p /\ From(c) = p => a = b \/ a = c \/ b = c
         /\ \A a \in Halves : From(a) = p => \E b \in Halves : From(b) = p /\ b # a
<1> DEFINE at == {h \in Halves : From(h) = p}
<1>1. IsFiniteSet(at) /\ Cardinality(at) = 2
  <2>1. IsFiniteSet(Halves)
    <3>1. IsFiniteSet(BOOLEAN)
      <4>1. BOOLEAN = {TRUE} \cup {FALSE} /\ IsFiniteSet({TRUE})
        BY FS_Singleton
      <4>2. IsFiniteSet({TRUE} \cup {FALSE})
        BY <4>1, FS_AddElement
      <4> QED
        BY <4>1, <4>2
    <3> QED
      BY <3>1, FinitelyMany, FS_Product DEF Halves
  <2> QED
    BY <2>1, FS_Subset DEF Degree
<1> HIDE DEF at
<1>2. ASSUME NEW a \in at, NEW b \in at, NEW c \in at, a # b, a # c, b # c
      PROVE  FALSE
  <2>1. IsFiniteSet({a}) /\ Cardinality({a}) = 1
    BY FS_Singleton
  <2>2. IsFiniteSet({a} \cup {b}) /\ Cardinality({a} \cup {b}) = 2
    BY <1>2, <2>1, FS_AddElement
  <2>3. IsFiniteSet(({a} \cup {b}) \cup {c}) /\ Cardinality(({a} \cup {b}) \cup {c}) = 3
    BY <1>2, <2>2, FS_AddElement
  <2>4. ({a} \cup {b}) \cup {c} \in SUBSET at
    OBVIOUS
  <2> QED
    BY <1>1, <2>3, <2>4, FS_Subset
<1>3. ASSUME NEW a \in at, \A b \in at : b = a
      PROVE  FALSE
  <2>1. at = {a}
    BY <1>3
  <2> QED
    BY <1>1, <2>1, FS_Singleton
<1>4. \A h \in Halves : From(h) = p => h \in at
  BY DEF at
<1>5. \A h \in at : h \in Halves /\ From(h) = p
  BY DEF at
<1>6. \A a, b, c \in Halves : From(a) = p /\ From(b) = p /\ From(c) = p => a = b \/ a = c \/ b = c
  BY <1>2, <1>4
<1>7. \A a \in Halves : From(a) = p => \E b \in Halves : From(b) = p /\ b # a
  BY <1>3, <1>4, <1>5
<1> QED
  BY <1>6, <1>7

LinesOnce(walk) == \A j, k \in DOMAIN walk : walk[j][1] = walk[k][1] => j = k

\* The other way round a walk is one as well, with its ends swapped.
LEMMA WalkReversed ==
  ASSUME LinesTyped, NEW w \in Seq(Halves), w # <<>>
  PROVE  /\ Reversed(w) \in Seq(Halves) /\ Len(Reversed(w)) = Len(w)
         /\ \A i \in 1..Len(w) :
              /\ Reversed(w)[i][1] = w[Len(w) + 1 - i][1]
              /\ From(Reversed(w)[i]) = To(w[Len(w) + 1 - i])
              /\ To(Reversed(w)[i]) = From(w[Len(w) + 1 - i])
         /\ IsWalk(w) => IsWalk(Reversed(w))
         /\ LinesOf(Reversed(w)) = LinesOf(w)
         /\ LinesOnce(w) => LinesOnce(Reversed(w))
<1> DEFINE n == Len(w)
           r == Reversed(w)
<1>1. n \in Nat /\ n >= 1 /\ DOMAIN w = 1..n /\ \A i \in 1..n : w[i] \in Halves
  OBVIOUS
<1>2. DOMAIN r = 1..n /\ \A i \in 1..n : r[i] = Twin(w[n + 1 - i]) /\ n + 1 - i \in 1..n
  BY <1>1 DEF Reversed
<1> HIDE DEF n, r
<1>3. ASSUME NEW i \in 1..n
      PROVE  /\ r[i] \in Halves /\ r[i][1] = w[n + 1 - i][1]
             /\ From(r[i]) = To(w[n + 1 - i]) /\ To(r[i]) = From(w[n + 1 - i])
  BY <1>1, <1>2, TwinOf
<1>4. r = [i \in 1..n |-> r[i]]
  BY <1>1 DEF r, n, Reversed
<1>5. r \in Seq(Halves) /\ Len(r) = n
  BY <1>1, <1>3, <1>4
<1>6. ASSUME IsWalk(w), NEW j \in 1..(n - 1)
      PROVE  To(r[j]) = From(r[j + 1])
  <2>1. n - j \in 1..(n - 1) /\ n + 1 - j = (n - j) + 1 /\ n + 1 - (j + 1) = n - j /\ j \in 1..n /\ j + 1 \in 1..n
    BY <1>1
  <2>2. To(w[n - j]) = From(w[(n - j) + 1])
    BY <1>6, <2>1 DEF n, IsWalk
  <2>3. To(r[j]) = From(w[(n - j) + 1]) /\ From(r[j + 1]) = To(w[n - j])
    BY <1>3, <2>1
  <2> QED
    BY <2>2, <2>3
<1>7. IsWalk(w) => IsWalk(r)
  BY <1>5, <1>6 DEF IsWalk
<1>9. LinesOf(r) = LinesOf(w)
  <2>1. ASSUME NEW i \in 1..n
        PROVE  r[i][1] \in LinesOf(w)
    BY <1>1, <1>2, <1>3 DEF LinesOf
  <2>2. ASSUME NEW i \in 1..n
        PROVE  w[i][1] \in LinesOf(r)
    <3>1. n + 1 - i \in 1..n /\ n + 1 - (n + 1 - i) = i
      BY <1>1
    <3>2. r[n + 1 - i][1] = w[i][1]
      BY <1>3, <3>1
    <3> QED
      BY <1>2, <3>1, <3>2 DEF LinesOf
  <2> QED
    BY <1>1, <1>2, <2>1, <2>2 DEF LinesOf
<1>10. LinesOnce(w) => LinesOnce(r)
  <2> SUFFICES ASSUME LinesOnce(w), NEW j \in 1..n, NEW k \in 1..n, r[j][1] = r[k][1]
               PROVE  j = k
    BY <1>2 DEF LinesOnce
  <2>1. w[n + 1 - j][1] = w[n + 1 - k][1]
    BY <1>3
  <2>2. n + 1 - j = n + 1 - k
    BY <1>1, <1>2, <2>1 DEF LinesOnce
  <2> QED
    BY <1>1, <2>2
<1> QED
  BY <1>3, <1>5, <1>7, <1>9, <1>10 DEF r, n

\* A walk through nodes of degree two.
IsRun(walk) ==
    /\ walk \in Seq(Halves) /\ walk # <<>>
    /\ IsWalk(walk)
    /\ \A j \in 1..(Len(walk) - 1) : Degree(To(walk[j])) = 2

LEMMA RunReversed ==
  ASSUME LinesTyped, NEW w, IsRun(w)
  PROVE  /\ IsRun(Reversed(w)) /\ Len(Reversed(w)) = Len(w)
         /\ From(Reversed(w)[1]) = To(Last(w)) /\ To(Last(Reversed(w))) = From(w[1])
         /\ LinesOf(Reversed(w)) = LinesOf(w)
         /\ LinesOnce(w) => LinesOnce(Reversed(w))
<1> DEFINE n == Len(w)
           r == Reversed(w)
<1>1. n \in Nat /\ n >= 1 /\ w \in Seq(Halves) /\ w # <<>> /\ IsWalk(w)
  BY DEF IsRun
<1>2. /\ r \in Seq(Halves) /\ Len(r) = n /\ IsWalk(r)
      /\ LinesOf(r) = LinesOf(w) /\ (LinesOnce(w) => LinesOnce(r))
  BY <1>1, WalkReversed
<1>3. \A i \in 1..n : From(r[i]) = To(w[n + 1 - i]) /\ To(r[i]) = From(w[n + 1 - i])
  BY <1>1, WalkReversed
<1>4. \A j \in 1..(n - 1) : Degree(To(w[j])) = 2 /\ To(w[j]) = From(w[j + 1])
  BY DEF IsRun, IsWalk
<1> HIDE DEF n, r
<1>5. ASSUME NEW j \in 1..(n - 1)
      PROVE  Degree(To(r[j])) = 2
  <2>1. n - j \in 1..(n - 1) /\ n + 1 - j = (n - j) + 1 /\ j \in 1..n
    BY <1>1
  <2> QED
    BY <1>3, <1>4, <2>1
<1>6. IsRun(r)
  <2>1. r # <<>>
    BY <1>1, <1>2
  <2> QED
    BY <1>2, <1>5, <2>1 DEF IsRun
<1>7. From(r[1]) = To(w[n]) /\ To(r[n]) = From(w[1])
  <2>1. 1 \in 1..n /\ n \in 1..n /\ n + 1 - 1 = n /\ n + 1 - n = 1
    BY <1>1
  <2> QED
    BY <1>3, <2>1
<1> QED
  BY <1>2, <1>6, <1>7 DEF r, n, Last

\* What was walked backward is then walked forward.
LEMMA BackwardReversed ==
  ASSUME LinesTyped, NEW w, IsRun(w)
  PROVE  /\ Backward(w) \in Nat /\ Backward(Reversed(w)) \in Nat
         /\ Backward(Reversed(w)) = Len(w) - Backward(w)
<1> DEFINE n == Len(w)
           r == Reversed(w)
           back == {i \in 1..n : w[i][2]}
           forth == (1..n) \ back
           there == {i \in 1..n : r[i][2]}
           f == [i \in forth |-> n + 1 - i]
<1>1. n \in Nat /\ n >= 1 /\ DOMAIN w = 1..n /\ \A i \in 1..n : w[i] \in Halves
  BY DEF IsRun
<1>2. DOMAIN r = 1..n /\ \A i \in 1..n : r[i] = Twin(w[n + 1 - i]) /\ n + 1 - i \in 1..n
  BY <1>1 DEF Reversed
<1>3. \A i \in 1..n : r[i][2] <=> ~ w[n + 1 - i][2]
  BY <1>1, <1>2, TwinOf
<1>4. Backward(w) = Cardinality(back) /\ Backward(r) = Cardinality(there)
  BY <1>1, <1>2 DEF Backward
<1> HIDE DEF n, r
<1>5. \A i \in forth : f[i] \in there
  <2> SUFFICES ASSUME NEW i \in forth
               PROVE  n + 1 - i \in there
    OBVIOUS
  <2>1. n + 1 - i \in 1..n /\ n + 1 - (n + 1 - i) = i /\ ~ w[i][2]
    BY <1>1
  <2> QED
    BY <1>3, <2>1
<1>6. \A k \in there : n + 1 - k \in forth /\ f[n + 1 - k] = k
  <2> SUFFICES ASSUME NEW k \in there
               PROVE  n + 1 - k \in forth /\ n + 1 - (n + 1 - k) = k
    OBVIOUS
  <2>1. n + 1 - k \in 1..n /\ n + 1 - (n + 1 - k) = k /\ ~ w[n + 1 - k][2]
    BY <1>1, <1>3
  <2> QED
    BY <2>1
<1>7. \A i, k \in forth : f[i] = f[k] => i = k
  BY <1>1
<1>8. IsFiniteSet(1..n) /\ Cardinality(1..n) = n
  BY <1>1, FS_Interval
<1>9. IsFiniteSet(forth) /\ Cardinality(forth) = n - Cardinality(back) /\ Cardinality(back) \in Nat
  <2>1. back \in SUBSET (1..n) /\ (1..n) \cap back = back
    OBVIOUS
  <2> HIDE DEF back
  <2>2. IsFiniteSet(back) /\ Cardinality(back) \in Nat
    BY <1>8, <2>1, FS_Subset, FS_CardinalityType
  <2>3. IsFiniteSet(forth) /\ Cardinality(forth) = Cardinality(1..n) - Cardinality((1..n) \cap back)
    BY <1>8, FS_Difference
  <2> QED
    BY <1>8, <2>1, <2>2, <2>3
<1>10. f \in Bijection(forth, there)
  <2> HIDE DEF back, there
  <2>1. f \in [forth -> there]
    BY <1>5
  <2> HIDE DEF f, forth
  <2> QED
    BY <1>6, <1>7, <2>1, Fun_IsBij
<1>11. Cardinality(there) = Cardinality(forth)
  BY <1>9, <1>10, FS_Bijection, Fun_ExistsBij
<1>12. Cardinality(there) \in Nat
  BY <1>8, FS_Subset, FS_CardinalityType
<1> QED
  BY <1>4, <1>9, <1>11, <1>12 DEF r, n

-----------------------------------------------------------------------------
(***************************************************************************)
(* The chains, from line to line.                                          *)
(***************************************************************************)
\* The lines at a node are all among M, or none of them is.
AllOrNone(M, p) ==
    \/ \A h \in Halves : From(h) = p => h[1] \in M
    \/ \A h \in Halves : From(h) = p => h[1] \notin M

\* The chain that is being walked: a run of lines that are marked.
WalkInv(M, c) ==
    /\ c \in Seq(Halves)
    /\ c # <<>> => IsRun(c)
    /\ M \subseteq LineIds /\ LinesOf(c) \subseteq M
    /\ LinesOnce(c)

\* The chains before it: all other marked lines, each once.
DoneInv(M, c, done) ==
    /\ done \in Seq(Seq(Halves))
    /\ \A i \in DOMAIN done : IsChain(done[i]) /\ LinesOf(done[i]) \subseteq M \ LinesOf(c)
    /\ \A l \in M \ LinesOf(c) : \E i \in DOMAIN done : l \in LinesOf(done[i])
    /\ \A i, k \in DOMAIN done : \A j \in DOMAIN done[i], m \in DOMAIN done[k] :
          done[i][j][1] = done[k][m][1] => i = k /\ j = m

\* A chain that can end where it is ends at a tip or a junction, and began at
\* one, unless only rings were left when it began.
EndsInv(M, c) ==
    c # <<>> =>
        /\ To(Last(c)) # From(c[1]) /\ Degree(To(Last(c))) = 2 => \E l \in LinesAt(To(Last(c))) : l \notin M
        /\ \/ Degree(From(c[1])) # 2
           \/ \A l \in LineIds : l \notin M \/ l \in LinesOf(c) => \A p \in EndsOf(l) : Degree(p) = 2

\* Both lines of a node of degree two are marked or none is, but at the ends
\* of the chain.
PairInv(M, c) ==
    \A p : Degree(p) = 2 /\ (c # <<>> => p # From(c[1]) /\ p # To(Last(c))) => AllOrNone(M, p)

JoinInv(M, c, done) == WalkInv(M, c) /\ DoneInv(M, c, done) /\ EndsInv(M, c) /\ PairInv(M, c)

\* The node at the other end of a line that is not marked yet has another one.
LEMMA GoesOn ==
  ASSUME LinesTyped, NEW M, NEW h \in Halves, h[1] \notin M,
         To(h) # From(h), Degree(To(h)) = 2, AllOrNone(M, To(h))
  PROVE  \E l \in LinesAt(To(h)) : l \notin M \cup {h[1]}
<1>1. Twin(h) \in Halves /\ From(Twin(h)) = To(h) /\ Twin(h)[1] = h[1]
  BY TwinOf
<1>2. \A g \in Halves : From(g) = To(h) => g[1] \notin M
  BY <1>1 DEF AllOrNone
<1>3. PICK b \in Halves : From(b) = To(h) /\ b # Twin(h)
  BY <1>1, TwoHalves
<1>4. b[1] # h[1]
  BY <1>3, TwinOf
<1>5. b[1] \in LinesAt(To(h))
  <2>1. b[1] \in LineIds /\ From(b) \in EndsOf(b[1])
    BY TwinOf DEF Halves
  <2> QED
    BY <1>3, <2>1 DEF LinesAt
<1> QED
  BY <1>2, <1>3, <1>4, <1>5

\* Marking a line changes nothing at a node it does not end at.
LEMMA PairsStay ==
  ASSUME LinesTyped, NEW M, NEW h \in Halves, NEW p, p # From(h), p # To(h), AllOrNone(M, p)
  PROVE  AllOrNone(M \cup {h[1]}, p)
<1>1. \A g \in Halves : From(g) = p => g[1] # h[1]
  BY TwinOf
<1> QED
  BY <1>1 DEF AllOrNone

\* A chain begins.
LEMMA ChainStarts ==
  ASSUME LinesTyped, NEW M, NEW done, JoinInv(M, <<>>, done),
         NEW h \in Halves, h[1] \notin M,
         \/ Degree(From(h)) # 2
         \/ \A l \in LineIds : l \notin M => \A p \in EndsOf(l) : Degree(p) = 2
  PROVE  JoinInv(M \cup {h[1]}, <<h>>, done)
<1> DEFINE N == M \cup {h[1]}
           c == <<h>>
<1>1. c \in Seq(Halves) /\ Len(c) = 1 /\ DOMAIN c = {1} /\ c[1] = h /\ Last(c) = h /\ c # <<>>
  BY DEF Last
<1>2. LinesOf(c) = {h[1]} /\ LinesOf(<<>>) = {}
  BY <1>1 DEF LinesOf
<1>3. h[1] \in LineIds
  BY DEF Halves
<1> HIDE DEF c
<1>4. WalkInv(N, c)
  <2>1. M \subseteq LineIds
    BY DEF JoinInv, WalkInv
  <2>2. IsRun(c)
    BY <1>1 DEF IsRun, IsWalk
  <2> QED
    BY <1>1, <1>2, <1>3, <2>1, <2>2 DEF WalkInv, LinesOnce
<1>5. DoneInv(N, c, done)
  <2>1. N \ LinesOf(c) = M \ LinesOf(<<>>)
    BY <1>2
  <2> QED
    BY <2>1 DEF JoinInv, DoneInv
<1>6. EndsInv(N, c)
  <2>1. To(h) # From(h) /\ Degree(To(h)) = 2 => \E l \in LinesAt(To(h)) : l \notin N
    <3>1. Degree(To(h)) = 2 => AllOrNone(M, To(h))
      BY DEF JoinInv, PairInv
    <3> QED
      BY <3>1, GoesOn
  <2>2. \/ Degree(From(h)) # 2
        \/ \A l \in LineIds : l \notin N \/ l \in LinesOf(c) => \A p \in EndsOf(l) : Degree(p) = 2
    BY <1>2
  <2> QED
    BY <1>1, <2>1, <2>2 DEF EndsInv
<1>7. PairInv(N, c)
  <2> SUFFICES ASSUME NEW p, Degree(p) = 2, p # From(h), p # To(h)
               PROVE  AllOrNone(N, p)
    BY <1>1 DEF PairInv
  <2>1. AllOrNone(M, p)
    BY DEF JoinInv, PairInv
  <2> QED
    BY <2>1, PairsStay
<1> QED
  BY <1>4, <1>5, <1>6, <1>7 DEF JoinInv, c

\* A chain grows.
LEMMA ChainGrows ==
  ASSUME LinesTyped, NEW M, NEW c, NEW done, JoinInv(M, c, done), c # <<>>,
         To(Last(c)) # From(c[1]), Degree(To(Last(c))) = 2,
         NEW h \in Halves, From(h) = To(Last(c)), h[1] \notin M
  PROVE  JoinInv(M \cup {h[1]}, Append(c, h), done)
<1> DEFINE N == M \cup {h[1]}
           d == Append(c, h)
           n == Len(c)
           p == To(Last(c))
           t == Twin(Last(c))
<1>1. IsRun(c) /\ c \in Seq(Halves) /\ LinesOf(c) \subseteq M /\ M \subseteq LineIds /\ LinesOnce(c)
  BY DEF JoinInv, WalkInv
<1>2. n \in Nat /\ n >= 1 /\ DOMAIN c = 1..n /\ c[n] \in Halves /\ Last(c) = c[n]
  BY <1>1 DEF Last
<1>3. d \in Seq(Halves) /\ Len(d) = n + 1 /\ DOMAIN d = 1..(n + 1) /\ d # <<>>
  BY <1>1, <1>2
<1>4. d[n + 1] = h /\ Last(d) = h /\ \A j \in 1..n : d[j] = c[j]
  BY <1>1, <1>2 DEF Last
<1>5. d[1] = c[1]
  BY <1>2, <1>4
<1>6. t \in Halves /\ From(t) = p /\ t[1] = c[n][1] /\ c[n][1] \in M
  <2>1. c[n][1] \in LinesOf(c)
    BY <1>2 DEF LinesOf
  <2> QED
    BY <1>1, <1>2, <2>1, TwinOf
<1>7. LinesOf(d) = LinesOf(c) \cup {h[1]}
  <2>1. \A j \in 1..(n + 1) : d[j][1] \in LinesOf(c) \cup {h[1]}
    BY <1>2, <1>4 DEF LinesOf
  <2>2. h[1] \in LinesOf(d)
    BY <1>2, <1>3, <1>4 DEF LinesOf
  <2>3. \A j \in 1..n : c[j][1] \in LinesOf(d)
    BY <1>2, <1>3, <1>4 DEF LinesOf
  <2> QED
    BY <1>2, <1>3, <2>1, <2>2, <2>3 DEF LinesOf
<1> HIDE DEF d, n
<1>8. To(h) # p
  <2>1. SUFFICES ASSUME To(h) = p
                 PROVE  FALSE
    OBVIOUS
  <2>2. Twin(h) \in Halves /\ From(Twin(h)) = p /\ Twin(h) # h /\ Twin(h)[1] = h[1]
    BY <2>1, TwinOf
  <2> QED
    BY <1>6, <2>2, TwoHalves
<1>9. WalkInv(N, d)
  <2>1. ASSUME NEW j \in 1..n
        PROVE  To(d[j]) = From(d[j + 1]) /\ Degree(To(d[j])) = 2
    <3>1. CASE j = n
      BY <1>2, <1>4, <3>1
    <3>2. CASE j # n
      <4>1. j \in 1..(n - 1) /\ j + 1 \in 1..n
        BY <1>2, <3>2
      <4>2. To(c[j]) = From(c[j + 1]) /\ Degree(To(c[j])) = 2
        BY <1>1, <4>1 DEF IsRun, IsWalk, n
      <4> QED
        BY <1>4, <4>1, <4>2
    <3> QED
      BY <3>1, <3>2
  <2>2. IsRun(d)
    BY <1>2, <1>3, <2>1 DEF IsRun, IsWalk
  <2>3. h[1] \in LineIds
    BY DEF Halves
  <2>4. ASSUME NEW j \in 1..(n + 1), NEW k \in 1..(n + 1), d[j][1] = d[k][1]
        PROVE  j = k
    <3>1. \A i \in 1..n : c[i][1] # h[1]
      BY <1>1, <1>2 DEF LinesOf
    <3>2. CASE j = n + 1 \/ k = n + 1
      BY <1>2, <1>4, <2>4, <3>1, <3>2
    <3>3. CASE j \in 1..n /\ k \in 1..n
      BY <1>1, <1>2, <1>4, <2>4, <3>3 DEF LinesOnce
    <3> QED
      BY <1>2, <3>2, <3>3
  <2> QED
    BY <1>1, <1>3, <1>7, <2>2, <2>3, <2>4 DEF WalkInv, LinesOnce
<1>10. DoneInv(N, d, done)
  <2>1. N \ LinesOf(d) = M \ LinesOf(c)
    BY <1>1, <1>7
  <2> QED
    BY <2>1 DEF JoinInv, DoneInv
<1>11. EndsInv(N, d)
  <2>1. To(h) # From(d[1]) /\ Degree(To(h)) = 2 => \E l \in LinesAt(To(h)) : l \notin N
    <3>1. To(h) # From(c[1]) /\ Degree(To(h)) = 2 => AllOrNone(M, To(h))
      BY <1>8 DEF JoinInv, PairInv
    <3> QED
      BY <1>5, <1>8, <3>1, GoesOn
  <2>2. \/ Degree(From(d[1])) # 2
        \/ \A l \in LineIds : l \notin N \/ l \in LinesOf(d) => \A r \in EndsOf(l) : Degree(r) = 2
    <3>1. \/ Degree(From(c[1])) # 2
          \/ \A l \in LineIds : l \notin M \/ l \in LinesOf(c) => \A r \in EndsOf(l) : Degree(r) = 2
      BY DEF JoinInv, EndsInv
    <3> QED
      BY <1>5, <1>7, <3>1
  <2> QED
    BY <1>4, <2>1, <2>2 DEF EndsInv
<1>12. PairInv(N, d)
  <2> SUFFICES ASSUME NEW r, Degree(r) = 2, r # From(c[1]), r # To(h)
               PROVE  AllOrNone(N, r)
    BY <1>3, <1>4, <1>5 DEF PairInv
  <2>1. CASE r = p
    <3>1. \A g \in Halves : From(g) = p => g = t \/ g = h
      <4>1. t # h
        BY <1>6
      <4> QED
        BY <1>6, <4>1, TwoHalves
    <3> QED
      BY <1>6, <2>1, <3>1 DEF AllOrNone
  <2>2. CASE r # p
    <3>1. AllOrNone(M, r)
      BY <2>2 DEF JoinInv, PairInv
    <3> QED
      BY <2>2, <3>1, PairsStay
  <2> QED
    BY <2>1, <2>2
<1> QED
  BY <1>9, <1>10, <1>11, <1>12 DEF JoinInv, d

\* A chain that is walked in the direction of most of its lines.
LEMMA MajorityIsChain ==
  ASSUME LinesTyped, NEW w, IsRun(w), LinesOnce(w),
         From(w[1]) # To(Last(w)) => Degree(From(w[1])) # 2 /\ Degree(To(Last(w))) # 2
  PROVE  LET r == ByMajority(w)
         IN  IsChain(r) /\ r \in Seq(Halves) /\ LinesOf(r) = LinesOf(w) /\ LinesOnce(r)
<1>1. CASE 2 * Backward(w) > Len(w)
  <2> DEFINE r == Reversed(w)
  <2>1. ByMajority(w) = r
    BY <1>1 DEF ByMajority
  <2>2. 2 * Backward(r) <= Len(r)
    <3>1. Len(w) \in Nat
      BY DEF IsRun
    <3> QED
      BY <1>1, <3>1, RunReversed, BackwardReversed
  <2>3. /\ IsRun(r) /\ From(r[1]) = To(Last(w)) /\ To(Last(r)) = From(w[1])
        /\ LinesOf(r) = LinesOf(w) /\ LinesOnce(r)
    BY RunReversed
  <2> HIDE DEF r
  <2> QED
    BY <2>1, <2>2, <2>3 DEF IsChain, IsRun
<1>2. CASE ~(2 * Backward(w) > Len(w))
  <2>1. ByMajority(w) = w
    BY <1>2 DEF ByMajority
  <2>2. 2 * Backward(w) <= Len(w)
    <3>1. Len(w) \in Nat
      BY DEF IsRun
    <3> QED
      BY <1>2, <3>1, BackwardReversed
  <2> QED
    BY <2>1, <2>2 DEF IsChain, IsRun
<1> QED
  BY <1>1, <1>2

\* A chain ends.
LEMMA ChainEnds ==
  ASSUME LinesTyped, NEW M, NEW c, NEW done, JoinInv(M, c, done), c # <<>>,
         \/ To(Last(c)) = From(c[1])
         \/ Degree(To(Last(c))) # 2
         \/ \A l \in LinesAt(To(Last(c))) : l \in M
  PROVE  JoinInv(M, <<>>, Append(done, ByMajority(c)))
<1> DEFINE n == Len(c)
           w == ByMajority(c)
           all == Append(done, w)
           m == Len(done)
           p == To(Last(c))
<1>1. IsRun(c) /\ LinesOf(c) \subseteq M /\ M \subseteq LineIds /\ LinesOnce(c)
  BY DEF JoinInv, WalkInv
<1>2. n \in Nat /\ n >= 1 /\ DOMAIN c = 1..n /\ c[1] \in Halves /\ c[n] \in Halves /\ Last(c) = c[n]
  BY <1>1 DEF IsRun, Last
<1>3. c[1][1] \in LinesOf(c) /\ c[n][1] \in LinesOf(c) /\ c[n][1] \in LineIds
  BY <1>2 DEF LinesOf, Halves
<1>4. From(c[1]) # p => Degree(From(c[1])) # 2 /\ Degree(p) # 2
  <2> SUFFICES ASSUME From(c[1]) # p
               PROVE  Degree(From(c[1])) # 2 /\ Degree(p) # 2
    OBVIOUS
  <2>1. Degree(p) # 2
    BY DEF JoinInv, EndsInv
  <2>2. p \in EndsOf(c[n][1])
    <3>1. EndsOf(c[n][1]) = {From(c[n]), To(c[n])}
      BY <1>2, TwinOf
    <3> QED
      BY <1>2, <3>1
  <2> QED
    BY <1>3, <2>1, <2>2 DEF JoinInv, EndsInv
<1>5. IsChain(w) /\ w \in Seq(Halves) /\ LinesOf(w) = LinesOf(c) /\ LinesOnce(w)
  BY <1>1, <1>4, MajorityIsChain
<1>6. done \in Seq(Seq(Halves)) /\ m \in Nat /\ DOMAIN done = 1..m
  BY DEF JoinInv, DoneInv
<1> HIDE DEF w, n
<1>7. /\ all \in Seq(Seq(Halves)) /\ DOMAIN all = 1..(m + 1) /\ all[m + 1] = w
      /\ \A i \in 1..m : all[i] = done[i]
  BY <1>5, <1>6
<1>8. LinesOf(<<>>) = {}
  BY DEF LinesOf
<1> HIDE DEF all, m
<1>9. WalkInv(M, <<>>)
  BY <1>1, <1>8 DEF WalkInv, LinesOnce
<1>10. DoneInv(M, <<>>, all)
  <2>1. ASSUME NEW i \in DOMAIN all
        PROVE  IsChain(all[i]) /\ LinesOf(all[i]) \subseteq M
    <3>1. CASE i = m + 1
      BY <1>1, <1>5, <1>7, <3>1
    <3>2. CASE i # m + 1
      <4>1. i \in DOMAIN done
        BY <1>6, <1>7, <3>2
      <4> QED
        BY <1>6, <1>7, <4>1 DEF JoinInv, DoneInv
    <3> QED
      BY <3>1, <3>2
  <2>2. ASSUME NEW l \in M
        PROVE  \E i \in DOMAIN all : l \in LinesOf(all[i])
    <3>1. CASE l \in LinesOf(c)
      BY <1>5, <1>6, <1>7, <3>1
    <3>2. CASE l \notin LinesOf(c)
      <4>1. PICK i \in DOMAIN done : l \in LinesOf(done[i])
        BY <3>2 DEF JoinInv, DoneInv
      <4>2. i \in DOMAIN all /\ all[i] = done[i]
        BY <1>6, <1>7
      <4> QED
        BY <4>1, <4>2
    <3> QED
      BY <3>1, <3>2
  <2>3. ASSUME NEW i \in DOMAIN all, NEW k \in DOMAIN all, NEW j \in DOMAIN all[i], NEW q \in DOMAIN all[k],
               all[i][j][1] = all[k][q][1]
        PROVE  i = k /\ j = q
    <3>1. \A h \in DOMAIN done : \A g \in DOMAIN done[h] : done[h][g][1] \notin LinesOf(w)
      <4>1. \A h \in DOMAIN done : LinesOf(done[h]) \cap LinesOf(w) = {}
        BY <1>5 DEF JoinInv, DoneInv
      <4> QED
        BY <4>1 DEF LinesOf
    <3>2. \A g \in DOMAIN w : w[g][1] \in LinesOf(w)
      BY DEF LinesOf
    <3>3. CASE i = m + 1 /\ k = m + 1
      BY <1>5, <1>7, <2>3, <3>3 DEF LinesOnce
    <3>4. CASE i = m + 1 /\ k # m + 1
      <4>1. k \in DOMAIN done /\ all[k] = done[k] /\ all[i] = w
        BY <1>6, <1>7, <3>4
      <4> QED
        BY <2>3, <3>1, <3>2, <4>1
    <3>5. CASE i # m + 1 /\ k = m + 1
      <4>1. i \in DOMAIN done /\ all[i] = done[i] /\ all[k] = w
        BY <1>6, <1>7, <3>5
      <4> QED
        BY <2>3, <3>1, <3>2, <4>1
    <3>6. CASE i # m + 1 /\ k # m + 1
      <4>1. i \in DOMAIN done /\ all[i] = done[i] /\ k \in DOMAIN done /\ all[k] = done[k]
        BY <1>6, <1>7, <3>6
      <4> QED
        BY <2>3, <4>1 DEF JoinInv, DoneInv
    <3> QED
      BY <3>3, <3>4, <3>5, <3>6
  <2> QED
    BY <1>7, <1>8, <2>1, <2>2, <2>3 DEF DoneInv
<1>11. EndsInv(M, <<>>)
  BY DEF EndsInv
<1>12. PairInv(M, <<>>)
  <2> SUFFICES ASSUME NEW r, Degree(r) = 2
               PROVE  AllOrNone(M, r)
    BY DEF PairInv
  <2>1. CASE r # From(c[1]) /\ r # p
    BY <2>1 DEF JoinInv, PairInv
  <2>2. CASE ~(r # From(c[1]) /\ r # p)
    <3> DEFINE t == Twin(c[n])
    <3>1. r = From(c[1]) /\ r = p
      BY <1>4, <2>2
    <3>2. t \in Halves /\ From(t) = r /\ t[1] = c[n][1]
      BY <1>2, <3>1, TwinOf
    <3>3. t # c[1]
      <4>1. SUFFICES ASSUME t = c[1]
                     PROVE  FALSE
        OBVIOUS
      <4>2. c[n][1] = c[1][1] /\ n \in DOMAIN c /\ 1 \in DOMAIN c
        BY <1>2, <3>2, <4>1
      <4>3. n = 1
        BY <1>1, <4>2 DEF LinesOnce
      <4> QED
        BY <1>2, <4>1, <4>3, TwinOf
    <3>4. \A g \in Halves : From(g) = r => g = t \/ g = c[1]
      BY <1>2, <3>1, <3>2, <3>3, TwoHalves
    <3> QED
      BY <1>1, <1>3, <3>2, <3>4 DEF AllOrNone
  <2> QED
    BY <2>1, <2>2
<1> QED
  BY <1>9, <1>10, <1>11, <1>12 DEF JoinInv, all, w

\* The merge so far.
MergeInv == LinesTyped /\ JoinInv(marked, chain, merged)

\* Operators of walks do not change when the lines do not.
LEMMA SameWalks ==
  ASSUME lines' = lines
  PROVE  JoinInv(marked, chain, merged)' <=> JoinInv(marked', chain', merged')
<1>1. LineIds' = LineIds /\ Halves' = Halves
  BY DEF LineIds, Halves
<1>2. \A h : From(h)' = From(h) /\ To(h)' = To(h)
  BY DEF From, To, Points
<1>3. \A p : Degree(p)' = Degree(p)
  BY <1>1, <1>2 DEF Degree
<1>4. \A l : EndsOf(l)' = EndsOf(l)
  BY DEF EndsOf, FirstOf, LastOf
<1>5. \A p : LinesAt(p)' = LinesAt(p)
  BY <1>1, <1>4 DEF LinesAt
<1>6. \A w : (IsChain(w)' <=> IsChain(w)) /\ (IsRun(w)' <=> IsRun(w))
  BY <1>1, <1>2, <1>3 DEF IsChain, IsRun, IsWalk
<1>7. WalkInv(marked, chain)' <=> WalkInv(marked', chain')
  BY <1>1, <1>2, <1>3 DEF WalkInv, IsRun, IsWalk
<1>8. DoneInv(marked, chain, merged)' <=> DoneInv(marked', chain', merged')
  BY <1>1, <1>6 DEF DoneInv
<1>9. EndsInv(marked, chain)' <=> EndsInv(marked', chain')
  BY <1>1, <1>2, <1>3, <1>4, <1>5 DEF EndsInv
<1>10. PairInv(marked, chain)' <=> PairInv(marked', chain')
  BY <1>1, <1>2, <1>3 DEF PairInv, AllOrNone
<1> QED
  BY <1>7, <1>8, <1>9, <1>10 DEF JoinInv

\* Nothing is merged at first.
LEMMA MergeStart == Init => MergeInv
<1> SUFFICES ASSUME Init
             PROVE  MergeInv
  OBVIOUS
<1>1. LinesTyped
  BY CallsAssumption DEF Init, LinesTyped
<1>2. marked = {} /\ chain = <<>> /\ merged = <<>>
  BY DEF Init, MergeInit
<1> QED
  BY <1>1, <1>2 DEF MergeInv, JoinInv, WalkInv, LinesOnce, LinesOf, DoneInv, EndsInv, PairInv, AllOrNone

\* The chain that a tip or a ring begins.
LEMMA BeginsRight ==
  ASSUME MergeInv, chain = <<>>, NEW l \in LineIds, l \notin marked, NEW p \in EndsOf(l), StartChain(l, p),
         Degree(p) # 2 \/ Tips = {}
  PROVE  MergeInv'
<1> DEFINE h == Away(l, p)
<1>1. h \in Halves /\ h[1] = l /\ From(h) = p
  BY AwayFrom DEF MergeInv
<1>2. Tips = {} => \A k \in LineIds : k \notin marked => \A q \in EndsOf(k) : Degree(q) = 2
  BY DEF Tips, Unmarked
<1>3. lines' = lines /\ marked' = marked \cup {l} /\ chain' = <<h>> /\ merged' = merged
  BY DEF StartChain
<1> HIDE DEF h
<1>4. JoinInv(marked \cup {h[1]}, <<h>>, merged)
  BY <1>1, <1>2, ChainStarts DEF MergeInv
<1> QED
  BY <1>1, <1>3, <1>4, SameWalks, SameLines DEF MergeInv

\* Every step of Merge keeps the invariant.
LEMMA MergeKeeps == MergeInv /\ Merging => MergeInv'
<1> SUFFICES ASSUME MergeInv, Merging
             PROVE  MergeInv'
  OBVIOUS
<1> LineIds \in SUBSET Nat
  <2>1. LineIds = 1..Len(lines) /\ Len(lines) \in Nat
    BY DEF MergeInv, LinesTyped, LineIds
  <2> QED
    BY <2>1
<1>1. CASE MergeFromTip
  <2> DEFINE first == Min({l \in LineIds : EndsOf(l) \cap Tips # {}})
             tip == IF FirstOf(first) \in Tips THEN FirstOf(first) ELSE LastOf(first)
             l == Min(LinesAt(tip) \cap Unmarked)
  <2>1. chain = <<>> /\ Tips # {} /\ StartChain(l, tip)
    BY <1>1 DEF MergeFromTip
  <2>2. PICK k \in LineIds : EndsOf(k) \cap Tips # {}
    BY <2>1 DEF Tips, Unmarked
  <2>3. first \in {i \in LineIds : EndsOf(i) \cap Tips # {}}
    BY <2>2, MinIsIn
  <2> HIDE DEF first
  <2>4. tip \in Tips
    BY <2>3 DEF EndsOf
  <2> HIDE DEF tip
  <2>5. Degree(tip) # 2 /\ LinesAt(tip) \cap Unmarked # {}
    BY <2>4 DEF Tips, LinesAt, Unmarked
  <2>6. l \in LinesAt(tip) \cap Unmarked
    BY <2>5, MinIsIn DEF Unmarked
  <2> HIDE DEF l
  <2>7. l \in LineIds /\ l \notin marked /\ tip \in EndsOf(l)
    BY <2>6 DEF LinesAt, Unmarked
  <2> QED
    BY <2>1, <2>5, <2>7, BeginsRight
<1>2. CASE MergeRing
  <2> DEFINE l == Min(Unmarked)
  <2>1. chain = <<>> /\ Tips = {} /\ StartChain(l, FirstOf(l)) /\ Unmarked # {}
    BY <1>2 DEF MergeRing
  <2>2. l \in Unmarked
    BY <2>1, MinIsIn DEF Unmarked
  <2> HIDE DEF l
  <2>3. l \in LineIds /\ l \notin marked /\ FirstOf(l) \in EndsOf(l)
    BY <2>2 DEF Unmarked, EndsOf
  <2> QED
    BY <2>1, <2>3, BeginsRight
<1>3. CASE GrowChain
  <2> DEFINE l == Min(Siblings)
             h == Away(l, Reached)
  <2>1. chain # <<>> /\ Siblings # {} /\ lines' = lines /\ merged' = merged
        /\ chain' = Append(chain, h) /\ marked' = marked \cup {l}
    BY <1>3 DEF GrowChain
  <2>2. Reached # From(chain[1]) /\ Degree(Reached) = 2 /\ Siblings = LinesAt(Reached) \cap Unmarked
    BY <2>1 DEF Siblings
  <2>3. l \in LinesAt(Reached) \cap Unmarked
    BY <2>1, <2>2, MinIsIn DEF Unmarked
  <2> HIDE DEF l
  <2>4. l \in LineIds /\ l \notin marked /\ Reached \in EndsOf(l)
    BY <2>3 DEF LinesAt, Unmarked
  <2>5. h \in Halves /\ h[1] = l /\ From(h) = Reached
    BY <2>4, AwayFrom DEF MergeInv
  <2> HIDE DEF h
  <2>6. JoinInv(marked \cup {h[1]}, Append(chain, h), merged)
    BY <2>1, <2>2, <2>4, <2>5, ChainGrows DEF MergeInv, Reached
  <2> QED
    BY <2>1, <2>5, <2>6, SameWalks, SameLines DEF MergeInv
<1>4. CASE EmitChain
  <2>1. chain # <<>> /\ Siblings = {} /\ lines' = lines /\ marked' = marked /\ chain' = <<>>
        /\ merged' = Append(merged, ByMajority(chain))
    BY <1>4 DEF EmitChain
  <2>2. \/ Reached = From(chain[1])
        \/ Degree(Reached) # 2
        \/ \A l \in LinesAt(Reached) : l \in marked
    BY <2>1 DEF Siblings, Unmarked, LinesAt
  <2>3. JoinInv(marked, <<>>, Append(merged, ByMajority(chain)))
    BY <2>1, <2>2, ChainEnds DEF MergeInv, Reached
  <2> QED
    BY <2>1, <2>3, SameWalks, SameLines DEF MergeInv
<1> QED
  BY <1>1, <1>2, <1>3, <1>4 DEF Merging

\* No other tool touches the chains.
LEMMA MergeKept == MergeInv /\ [Next]_vars => MergeInv'
<1> SUFFICES ASSUME MergeInv, [Next]_vars
             PROVE  MergeInv'
  OBVIOUS
<1>1. ASSUME lines' = lines, UNCHANGED mergeVars
      PROVE  MergeInv'
  BY <1>1, SameWalks, SameLines DEF MergeInv, mergeVars
<1>2. CASE Polygonizing
  BY <1>1, <1>2 DEF Polygonizing, RemoveInvalidRingLoops, RemoveDangle, StartTrace, TraceFace, Assemble
<1>3. CASE Merging
  BY <1>3, MergeKeeps
<1>4. CASE Sequencing
  BY <1>1, <1>4 DEF Sequencing, StartComponent, Splice, FinishComponent, FinishSequence
<1>5. CASE Dissolving
  BY <1>1, <1>5 DEF Dissolving, DissolveFromEnd, DissolveRing, Emit
<1>6. CASE NodingLines
  BY <1>1, <1>6 DEF NodingLines, Iterate, Round, RoundAndMerge, RoundFirst, RoundInsert, RoundConverge, RoundMerge,
                    RoundMerged, RoundGuard, MergedOrDone, Snap, SnapVertices, NodeSnapped, SnapAgain, NextPass, End
<1>7. CASE Overlaying
  BY <1>1, <1>7 DEF Overlaying, LinealStart, LinealPass, LinealFinish
<1>8. CASE UNCHANGED vars
  BY <1>1, <1>8 DEF vars, mergeVars
<1> QED
  BY <1>2, <1>3, <1>4, <1>5, <1>6, <1>7, <1>8 DEF Next, Over

\* Whatever the lines: each that is taken is in one merged line, once, and a
\* merged line is as long as it can be.
THEOREM ChainsKept == Spec => []ChainsRight
<1>1. MergeInv => ChainsRight
  BY DEF MergeInv, JoinInv, DoneInv, ChainsRight
<1> QED
  BY MergeStart, MergeKept, <1>1, PTL DEF Spec

-----------------------------------------------------------------------------
(***************************************************************************)
(* linemerge.Sequence: folds over numbers.                                 *)
(***************************************************************************)

\* What holds of zero, and of the next number after each that it holds of,
\* holds of all.
LEMMA FromZero ==
  ASSUME NEW S, 0 \in S, \A n \in Nat : n \in S => n + 1 \in S
  PROVE  Nat \subseteq S
<1> DEFINE Bad == Nat \ S
<1> SUFFICES ASSUME Bad # {} PROVE FALSE
  OBVIOUS
<1>1. Min(Bad) \in Bad
  BY MinIsIn
<1>2. \A k \in Bad : Min(Bad) <= k
  BY MinIsIn
<1>3. Min(Bad) # 0
  BY <1>1
<1>4. Min(Bad) - 1 \in Nat /\ Min(Bad) - 1 \notin Bad
  BY <1>1, <1>2, <1>3
<1>5. (Min(Bad) - 1) + 1 \in S
  BY <1>4
<1> QED
  BY <1>1, <1>5

\* The greatest of a set of numbers up to n that has n.
LEMMA MaxIs ==
  ASSUME NEW n \in Nat, NEW s \in SUBSET (1..n), n \in s
  PROVE  Max(s) = n
<1>1. \A y \in s : n >= y
  OBVIOUS
<1>2. \A x \in s : (\A y \in s : x >= y) => x = n
  OBVIOUS
<1> QED
  BY <1>1, <1>2 DEF Max

\* And a set of numbers has a greatest one in it.
LEMMA MaxIsIn ==
  ASSUME NEW n \in Nat, NEW s \in SUBSET (1..n), s # {}
  PROVE  Max(s) \in s /\ \A y \in s : Max(s) >= y
<1> DEFINE T == {n - x : x \in s}
<1>1. T \in SUBSET Nat /\ T # {}
  <2>1. \A x \in s : n - x \in Nat
    OBVIOUS
  <2> QED
    BY <2>1
<1>2. PICK t \in T : \A u \in T : t <= u
  BY <1>1, MinIsIn
<1>3. PICK x \in s : t = n - x
  OBVIOUS
<1>4. \A y \in s : x >= y
  <2> SUFFICES ASSUME NEW y \in s PROVE x >= y
    OBVIOUS
  <2>1. n - y \in T
    OBVIOUS
  <2> QED
    BY <1>2, <1>3, <2>1
<1> QED
  BY <1>4 DEF Max

\* The function that a fold over the numbers up to n is read from: of a set
\* of numbers, what the steps make of them in their order.
IsFold(n, base, g, it) ==
    it = [s \in SUBSET (1..n) |-> IF s = {} THEN base ELSE g[<<Max(s), it[s \ {Max(s)}]>>]]

\* There is one for every step function.
LEMMA FoldIsThere ==
  ASSUME NEW n \in Nat, NEW W, NEW base \in W, NEW g \in [(1..n) \X W -> W]
  PROVE  \E it \in [SUBSET (1..n) -> W] : IsFold(n, base, g, it)
<1> DEFINE HasOne(m) == \E it \in [SUBSET (1..m) -> W] : IsFold(m, base, g, it)
           Good == {m \in Nat : m <= n => HasOne(m)}
<1>1. 0 \in Good
  <2> DEFINE it == [s \in {{}} |-> base]
  <2>1. SUBSET (1..0) = {{}}
    <3>1. 1..0 = {}
      OBVIOUS
    <3> QED
      BY <3>1
  <2>2. it \in [{{}} -> W]
    OBVIOUS
  <2>3. \A s \in {{}} : base = IF s = {} THEN base ELSE g[<<Max(s), it[s \ {Max(s)}]>>]
    BY Zenon
  <2>4. it = [s \in {{}} |-> base]
    OBVIOUS
  <2> HIDE DEF it
  <2>5. it = [s \in {{}} |-> IF s = {} THEN base ELSE g[<<Max(s), it[s \ {Max(s)}]>>]]
    BY <2>3, <2>4, Zenon
  <2>6. IsFold(0, base, g, it) /\ it \in [SUBSET (1..0) -> W]
    BY <2>1, <2>2, <2>5 DEF IsFold
  <2> QED
    BY <2>6
<1>2. ASSUME NEW m \in Nat, m \in Good
      PROVE  m + 1 \in Good
  <2> SUFFICES ASSUME m + 1 <= n
               PROVE  HasOne(m + 1)
    <3> HIDE DEF HasOne
    <3> QED
      OBVIOUS
  <2>0. HasOne(m)
    <3> HIDE DEF HasOne
    <3> QED
      BY <1>2
  <2>1. PICK f \in [SUBSET (1..m) -> W] : IsFold(m, base, g, f)
    BY <2>0
  <2> DEFINE it == [s \in SUBSET (1..(m + 1)) |-> IF m + 1 \in s THEN g[<<m + 1, f[s \ {m + 1}]>>] ELSE f[s]]
             after(s) == IF s = {} THEN base ELSE g[<<Max(s), it[s \ {Max(s)}]>>]
  <2>2. \A s \in SUBSET (1..(m + 1)) : s \ {m + 1} \in SUBSET (1..m) /\ (m + 1 \notin s => s \in SUBSET (1..m))
    OBVIOUS
  <2>3. it \in [SUBSET (1..(m + 1)) -> W]
    <3> SUFFICES ASSUME NEW s \in SUBSET (1..(m + 1))
                 PROVE  (IF m + 1 \in s THEN g[<<m + 1, f[s \ {m + 1}]>>] ELSE f[s]) \in W
      OBVIOUS
    <3>1. m + 1 \notin s => f[s] \in W
      BY <2>2
    <3>2. f[s \ {m + 1}] \in W
      BY <2>2
    <3>3. <<m + 1, f[s \ {m + 1}]>> \in (1..n) \X W
      BY <3>2
    <3> QED
      BY <3>1, <3>3
  <2>4. \A s \in SUBSET (1..m) : it[s] = f[s]
    OBVIOUS
  <2>5. it = [s \in SUBSET (1..(m + 1)) |-> it[s]]
    OBVIOUS
  <2>6. \A s \in SUBSET (1..(m + 1)) : m + 1 \in s => it[s] = g[<<m + 1, f[s \ {m + 1}]>>]
    OBVIOUS
  <2> HIDE DEF it
  <2>7. ASSUME NEW s \in SUBSET (1..(m + 1))
        PROVE  it[s] = after(s)
    <3>1. CASE m + 1 \in s
      <4>1. Max(s) = m + 1
        BY <3>1, MaxIs
      <4> QED
        BY <2>2, <2>4, <2>6, <3>1, <4>1
    <3>2. CASE m + 1 \notin s /\ s = {}
      BY <2>1, <2>2, <2>4, <3>2 DEF IsFold
    <3>3. CASE m + 1 \notin s /\ s # {}
      <4>1. s \in SUBSET (1..m) /\ s \ {Max(s)} \in SUBSET (1..m)
        BY <2>2, <3>3
      <4>2. f[s] = g[<<Max(s), f[s \ {Max(s)}]>>]
        BY <2>1, <3>3, <4>1 DEF IsFold
      <4> QED
        BY <2>4, <3>3, <4>1, <4>2
    <3> QED
      BY <3>1, <3>2, <3>3
  <2> QED
    <3>1. it = [s \in SUBSET (1..(m + 1)) |-> after(s)]
      BY <2>5, <2>7, Zenon
    <3> QED
      BY <2>3, <3>1 DEF IsFold
<1> HIDE DEF Good, HasOne
<1>3. n \in Good
  BY <1>1, <1>2, FromZero
<1>4. HasOne(n)
  BY <1>3 DEF Good
<1> QED
  BY <1>4 DEF HasOne

\* The first k numbers, and the first k - 1.
LEMMA FirstNumbers ==
  ASSUME NEW n \in Nat, NEW k \in 1..n
  PROVE  /\ 1..k \in SUBSET (1..n) /\ 1..k # {} /\ Max(1..k) = k /\ (1..k) \ {Max(1..k)} = 1..(k - 1)
<1>1. 1..k \in SUBSET (1..n) /\ (1..k) \ {k} = 1..(k - 1) /\ k \in 1..k /\ k \in Nat
  OBVIOUS
<1>2. Max(1..k) = k
  BY <1>1, MaxIs
<1> QED
  BY <1>1, <1>2

-----------------------------------------------------------------------------
(***************************************************************************)
(* linemerge.Sequence: trails.                                             *)
(***************************************************************************)

\* The half-edges that leave a node, but for those of some lines, and whether
\* their number is odd.
Rest(U, x) == {h \in Halves : h[1] \notin U /\ From(h) = x}
Odd(U, x) == Cardinality(Rest(U, x)) % 2 = 1

LEMMA RestIsFinite ==
  ASSUME LinesTyped, NEW U, NEW x
  PROVE  IsFiniteSet(Rest(U, x)) /\ Cardinality(Rest(U, x)) \in Nat
<1>1. IsFiniteSet(BOOLEAN)
  <2>1. BOOLEAN = {TRUE} \cup {FALSE} /\ IsFiniteSet({TRUE})
    BY FS_Singleton
  <2>2. IsFiniteSet({TRUE} \cup {FALSE})
    BY <2>1, FS_AddElement
  <2> QED
    BY <2>1, <2>2
<1>2. IsFiniteSet(Halves)
  BY <1>1, FinitelyMany, FS_Product DEF Halves
<1>3. Rest(U, x) \in SUBSET Halves
  BY DEF Rest
<1> QED
  BY <1>2, <1>3, FS_Subset, FS_CardinalityType

\* A line that is taken away changes it at its two ends.
LEMMA OddChanges ==
  ASSUME LinesTyped, NEW U, NEW h \in Halves, h[1] \notin U, NEW x
  PROVE  Odd(U \cup {h[1]}, x) <=> (Odd(U, x) <=> (From(h) = x <=> To(h) = x))
<1> DEFINE R == Rest(U \cup {h[1]}, x)
           S == Rest(U, x)
           t == Twin(h)
<1>1. /\ t \in Halves /\ t # h /\ t[1] = h[1] /\ From(t) = To(h)
      /\ \A g \in Halves : g[1] = h[1] => g = h \/ g = t
  BY TwinOf
<1> HIDE DEF t
<1>2. /\ h \notin R /\ t \notin R
      /\ \A g : g \in S <=> g \in R \/ (g = h /\ From(h) = x) \/ (g = t /\ To(h) = x)
  BY <1>1 DEF Rest
<1>3. IsFiniteSet(R) /\ Cardinality(R) \in Nat
  BY RestIsFinite
<1> HIDE DEF R, S
<1>4. CASE From(h) = x /\ To(h) = x
  <2>1. S = (R \cup {h}) \cup {t}
    BY <1>2, <1>4
  <2>2. IsFiniteSet(R \cup {h}) /\ Cardinality(R \cup {h}) = Cardinality(R) + 1
    BY <1>2, <1>3, FS_AddElement
  <2>3. Cardinality((R \cup {h}) \cup {t}) = Cardinality(R) + 1 + 1
    BY <1>1, <1>2, <1>3, <2>2, FS_AddElement
  <2> QED
    BY <1>3, <1>4, <2>1, <2>3 DEF Odd, R, S
<1>5. CASE From(h) = x /\ To(h) # x
  <2>1. S = R \cup {h}
    BY <1>2, <1>5
  <2>2. Cardinality(R \cup {h}) = Cardinality(R) + 1
    BY <1>2, <1>3, FS_AddElement
  <2> QED
    BY <1>3, <1>5, <2>1, <2>2 DEF Odd, R, S
<1>6. CASE From(h) # x /\ To(h) = x
  <2>1. S = R \cup {t}
    BY <1>2, <1>6
  <2>2. Cardinality(R \cup {t}) = Cardinality(R) + 1
    BY <1>2, <1>3, FS_AddElement
  <2> QED
    BY <1>3, <1>6, <2>1, <2>2 DEF Odd, R, S
<1>7. CASE From(h) # x /\ To(h) # x
  <2>1. S = R
    BY <1>2, <1>7
  <2> QED
    BY <1>7, <2>1 DEF Odd, R, S
<1> QED
  BY <1>4, <1>5, <1>6, <1>7

\* At a node where no line is left nothing is odd.
LEMMA StuckIsEven ==
  ASSUME LinesTyped, NEW U, NEW x, IsStuck(x, U)
  PROVE  ~Odd(U, x)
<1>1. ASSUME NEW h \in Rest(U, x) PROVE FALSE
  <2>1. h \in Halves /\ h[1] \notin U /\ From(h) = x
    BY DEF Rest
  <2>2. x \in EndsOf(h[1]) /\ h[1] \in LineIds
    BY <2>1, TwinOf DEF Halves
  <2> QED
    BY <2>1, <2>2 DEF IsStuck, LinesAt
<1>2. Rest(U, x) = {}
  BY <1>1
<1>3. Cardinality(Rest(U, x)) = 0
  BY <1>2, FS_EmptySet
<1> QED
  BY <1>3 DEF Odd

\* A trail of lines outside of U, which begins with a half-edge.  What it
\* leaves is odd where it was, but that it changed at the two ends.
IsTrail(w, U, h) ==
    /\ w \in Seq(Halves) /\ w # <<>> /\ w[1] = h
    /\ IsWalk(w) /\ LinesOnce(w) /\ LinesOf(w) \cap U = {}
    /\ \A x : Odd(U \cup LinesOf(w), x) <=> (Odd(U, x) <=> (From(h) = x <=> To(Last(w)) = x))

LEMMA TrailBegins ==
  ASSUME LinesTyped, NEW U, NEW h \in Halves, h[1] \notin U
  PROVE  IsTrail(<<h>>, U, h)
<1> DEFINE w == <<h>>
<1>1. w \in Seq(Halves) /\ w # <<>> /\ Len(w) = 1 /\ w[1] = h /\ DOMAIN w = {1}
  OBVIOUS
<1> HIDE DEF w
<1>2. LinesOf(w) = {h[1]} /\ Last(w) = h
  BY <1>1 DEF LinesOf, Last
<1>3. IsWalk(w) /\ LinesOnce(w)
  BY <1>1 DEF IsWalk, LinesOnce
<1>4. \A x : Odd(U \cup {h[1]}, x) <=> (Odd(U, x) <=> (From(h) = x <=> To(h) = x))
  BY OddChanges
<1> QED
  BY <1>1, <1>2, <1>3, <1>4 DEF IsTrail, w

LEMMA TrailGrows ==
  ASSUME LinesTyped, NEW U, NEW h, NEW w, IsTrail(w, U, h),
         NEW g \in Halves, g[1] \notin U \cup LinesOf(w), From(g) = To(Last(w))
  PROVE  IsTrail(Append(w, g), U, h)
<1> DEFINE v == Append(w, g)
           n == Len(w)
<1>1. w \in Seq(Halves) /\ n \in Nat /\ n >= 1 /\ DOMAIN w = 1..n
  BY DEF IsTrail
<1>2. /\ v \in Seq(Halves) /\ Len(v) = n + 1 /\ DOMAIN v = 1..(n + 1) /\ v[n + 1] = g
      /\ \A i \in 1..n : v[i] = w[i]
  BY <1>1
<1> HIDE DEF v, n
<1>3. LinesOf(v) = LinesOf(w) \cup {g[1]}
  <2>0. \A i \in 1..n : w[i][1] \in LinesOf(w)
    BY <1>1 DEF LinesOf
  <2>1. ASSUME NEW i \in 1..(n + 1) PROVE v[i][1] \in LinesOf(w) \cup {g[1]}
    <3>1. i \in 1..n \/ i = n + 1
      BY <1>1
    <3> QED
      BY <1>2, <2>0, <3>1
  <2>2. ASSUME NEW i \in 1..n PROVE w[i][1] \in LinesOf(v)
    <3>1. i \in 1..(n + 1) /\ v[i] = w[i]
      BY <1>1, <1>2
    <3> QED
      BY <1>2, <3>1 DEF LinesOf
  <2>3. n + 1 \in 1..(n + 1)
    BY <1>1
  <2>4. g[1] \in LinesOf(v)
    BY <1>2, <2>3 DEF LinesOf
  <2>5. \A l \in LinesOf(v) : l \in LinesOf(w) \cup {g[1]}
    BY <1>2, <2>1 DEF LinesOf
  <2>6. \A l \in LinesOf(w) : l \in LinesOf(v)
    BY <1>1, <2>2 DEF LinesOf
  <2> QED
    BY <2>4, <2>5, <2>6
<1>4. IsWalk(v)
  <2> SUFFICES ASSUME NEW j \in 1..n PROVE To(v[j]) = From(v[j + 1])
    BY <1>1, <1>2 DEF IsWalk
  <2>1. CASE j = n
    BY <1>1, <1>2, <2>1 DEF Last, n
  <2>2. CASE j # n
    <3>1. j \in 1..(n - 1) /\ j + 1 \in 1..n
      BY <1>1, <2>2
    <3> QED
      BY <1>2, <3>1 DEF IsTrail, IsWalk, n
  <2> QED
    BY <2>1, <2>2
<1>5. LinesOnce(v)
  <2> SUFFICES ASSUME NEW j \in 1..(n + 1), NEW k \in 1..(n + 1), v[j][1] = v[k][1] PROVE j = k
    BY <1>2 DEF LinesOnce
  <2>1. \A i \in 1..n : v[i][1] # g[1]
    BY <1>1, <1>2 DEF LinesOf
  <2>2. CASE j \in 1..n /\ k \in 1..n
    BY <1>1, <1>2, <2>2 DEF IsTrail, LinesOnce
  <2> QED
    BY <1>1, <1>2, <2>1, <2>2
<1>6. Last(v) = g /\ v[1] = h /\ v # <<>>
  BY <1>1, <1>2 DEF Last, IsTrail
<1>7. LinesOf(v) \cap U = {}
  BY <1>3 DEF IsTrail
<1>8. ASSUME NEW x
      PROVE  Odd(U \cup LinesOf(v), x) <=> (Odd(U, x) <=> (From(h) = x <=> To(g) = x))
  <2>1. U \cup LinesOf(v) = (U \cup LinesOf(w)) \cup {g[1]}
    BY <1>3
  <2>2. Odd((U \cup LinesOf(w)) \cup {g[1]}, x) <=> (Odd(U \cup LinesOf(w), x) <=> (From(g) = x <=> To(g) = x))
    BY OddChanges
  <2>3. Odd(U \cup LinesOf(w), x) <=> (Odd(U, x) <=> (From(h) = x <=> To(Last(w)) = x))
    BY DEF IsTrail
  <2> QED
    BY <2>1, <2>2, <2>3
<1> QED
  BY <1>2, <1>4, <1>5, <1>6, <1>7, <1>8 DEF IsTrail, v

\* findUnvisitedBestOrientedOut gives a line that leaves the node and is free.
LEMMA BestOutIs ==
  ASSUME LinesTyped, NEW p, NEW U, ~IsStuck(p, U)
  PROVE  BestOut(p, U) \in Halves /\ From(BestOut(p, U)) = p /\ BestOut(p, U)[1] \notin U
<1> DEFINE free == LinesAt(p) \ U
           well == {l \in free : FirstOf(l) = p}
<1>1. LineIds = 1..Len(lines) /\ Len(lines) \in Nat
  BY DEF LinesTyped, LineIds
<1>2. free # {} /\ free \in SUBSET LineIds /\ \A l \in free : p \in EndsOf(l)
  BY DEF IsStuck, LinesAt
<1> HIDE DEF free
<1>3. BestOut(p, U) = IF well # {} THEN <<Max(well), FALSE>> ELSE <<Min(free), TRUE>>
  BY DEF BestOut, free
<1>4. CASE well # {}
  <2>1. well \in SUBSET (1..Len(lines))
    BY <1>1, <1>2
  <2>2. Max(well) \in well
    BY <1>1, <1>4, <2>1, MaxIsIn
  <2>3. Max(well) \in LineIds /\ FirstOf(Max(well)) = p /\ Max(well) \notin U
    BY <1>2, <2>2 DEF free
  <2>4. BestOut(p, U) = <<Max(well), FALSE>>
    BY <1>3, <1>4
  <2> HIDE DEF well
  <2>5. From(<<Max(well), FALSE>>) = p
    BY <2>3, FromEnds
  <2>6. <<Max(well), FALSE>> \in Halves /\ <<Max(well), FALSE>>[1] = Max(well)
    BY <2>3 DEF Halves
  <2> QED
    BY <2>3, <2>4, <2>5, <2>6
<1>5. CASE well = {}
  <2>1. free \in SUBSET Nat
    BY <1>1, <1>2
  <2>2. Min(free) \in free
    BY <1>2, <2>1, MinIsIn
  <2>3. Min(free) \in LineIds /\ LastOf(Min(free)) = p /\ Min(free) \notin U
    BY <1>2, <1>5, <2>2 DEF free, EndsOf
  <2>4. BestOut(p, U) = <<Min(free), TRUE>>
    BY <1>3, <1>5
  <2> HIDE DEF well
  <2>5. From(<<Min(free), TRUE>>) = p
    BY <2>3, FromEnds
  <2>6. <<Min(free), TRUE>> \in Halves /\ <<Min(free), TRUE>>[1] = Min(free)
    BY <2>3 DEF Halves
  <2> QED
    BY <2>3, <2>4, <2>5, <2>6
<1> QED
  BY <1>4, <1>5

\* There are n numbers up to n.
LEMMA UpTo ==
  ASSUME NEW n \in Nat
  PROVE  IsFiniteSet(1..n) /\ Cardinality(1..n) = n
<1>1. Cardinality(1..n) = IF 1 > n THEN 0 ELSE n - 1 + 1
  BY FS_Interval
<1> QED
  BY <1>1, FS_Interval

\* A trail has no more steps than there are lines.
LEMMA TrailIsShort ==
  ASSUME LinesTyped, NEW w \in Seq(Halves), LinesOnce(w)
  PROVE  Len(w) <= Len(lines)
<1> DEFINE f == [i \in 1..Len(w) |-> w[i][1]]
<1>1. LineIds = 1..Len(lines) /\ Len(lines) \in Nat /\ Len(w) \in Nat
  BY DEF LinesTyped, LineIds
<1>2. \A i \in 1..Len(w) : w[i][1] \in LineIds
  BY DEF Halves
<1>3. f \in Injection(1..Len(w), LineIds)
  BY <1>2 DEF Injection, LinesOnce, IsInjective
<1>4. IsFiniteSet(1..Len(w)) /\ Cardinality(1..Len(w)) = Len(w)
  BY <1>1, UpTo
<1>5. IsFiniteSet(LineIds) /\ Cardinality(LineIds) = Len(lines)
  BY <1>1, UpTo
<1> HIDE DEF f
<1>6. Cardinality(1..Len(w)) <= Cardinality(LineIds)
  BY <1>3, <1>4, <1>5, FS_Injection
<1> QED
  BY <1>4, <1>5, <1>6

\* addReverseSubpath walks a trail until it is stuck.
LEMMA SubpathIs ==
  ASSUME LinesTyped, NEW h \in Halves, h[1] \notin used
  PROVE  /\ IsTrail(Subpath(h), used, h)
         /\ IsStuck(To(Last(Subpath(h))), used \cup LinesOf(Subpath(h)))
<1> DEFINE n == Len(lines)
           W == Seq(Halves) \ {<<>>}
           taken(w) == used \cup LinesOf(w)
           longer(w) == IF IsStuck(To(Last(w)), taken(w)) THEN w ELSE Append(w, BestOut(To(Last(w)), taken(w)))
           g == [kw \in (1..n) \X W |-> longer(kw[2])]
           it == CHOOSE it : it = [s \in SUBSET (1..n) |-> IF s = {} THEN <<h>> ELSE longer(it[s \ {Max(s)}])]
<1>1. LineIds = 1..n /\ n \in Nat
  BY DEF LinesTyped, LineIds
<1>2. Subpath(h) = it[1..n]
  <2>1. DOMAIN [i \in LineIds |-> i] = 1..n
    BY <1>1
  <2> QED
    BY <2>1 DEF Subpath, FoldLeft, MapThenFoldSet
<1>3. \A w \in W : longer(w) \in W
  <2> SUFFICES ASSUME NEW w \in W, ~IsStuck(To(Last(w)), taken(w)) PROVE Append(w, BestOut(To(Last(w)), taken(w))) \in W
    OBVIOUS
  <2>1. BestOut(To(Last(w)), taken(w)) \in Halves
    BY BestOutIs
  <2> QED
    BY <2>1
<1> HIDE DEF longer, W
<1>4. g \in [(1..n) \X W -> W]
  BY <1>3
<1>5. <<h>> \in W
  BY DEF W
<1>6. \E i : i = [s \in SUBSET (1..n) |-> IF s = {} THEN <<h>> ELSE longer(i[s \ {Max(s)}])]
  <2> HIDE DEF g
  <2>1. PICK i \in [SUBSET (1..n) -> W] : IsFold(n, <<h>>, g, i)
    BY <1>1, <1>4, <1>5, FoldIsThere
  <2>2. \A s \in SUBSET (1..n) : s # {} => g[<<Max(s), i[s \ {Max(s)}]>>] = longer(i[s \ {Max(s)}])
    <3> SUFFICES ASSUME NEW s \in SUBSET (1..n), s # {}
                 PROVE  g[<<Max(s), i[s \ {Max(s)}]>>] = longer(i[s \ {Max(s)}])
      OBVIOUS
    <3>1. Max(s) \in 1..n
      BY <1>1, MaxIsIn
    <3>2. i[s \ {Max(s)}] \in W
      BY <2>1
    <3> QED
      BY <3>1, <3>2 DEF g
  <2>3. \A s \in SUBSET (1..n) : (IF s = {} THEN <<h>> ELSE g[<<Max(s), i[s \ {Max(s)}]>>])
                                = (IF s = {} THEN <<h>> ELSE longer(i[s \ {Max(s)}]))
    BY <2>2
  <2>4. i = [s \in SUBSET (1..n) |-> IF s = {} THEN <<h>> ELSE longer(i[s \ {Max(s)}])]
    BY <2>1, <2>3, Zenon DEF IsFold
  <2> QED
    BY <2>4
<1>7. it = [s \in SUBSET (1..n) |-> IF s = {} THEN <<h>> ELSE longer(it[s \ {Max(s)}])]
  BY <1>6, Zenon
<1> HIDE DEF it, g
<1>8. it[1..0] = <<h>> /\ \A k \in 1..n : it[1..k] = longer(it[1..(k - 1)])
  <2>1. 1..0 = {} /\ 1..0 \in SUBSET (1..n)
    OBVIOUS
  <2>2. it[1..0] = <<h>>
    BY <1>7, <2>1
  <2>3. ASSUME NEW k \in 1..n PROVE it[1..k] = longer(it[1..(k - 1)])
    <3>1. 1..k \in SUBSET (1..n) /\ 1..k # {} /\ (1..k) \ {Max(1..k)} = 1..(k - 1)
      BY <1>1, FirstNumbers
    <3> QED
      BY <1>7, <3>1
  <2> QED
    BY <2>2, <2>3
<1> DEFINE Stuck(w) == IsStuck(To(Last(w)), taken(w))
           Good == {k \in Nat : k <= n => IsTrail(it[1..k], used, h) /\ (Stuck(it[1..k]) \/ Len(it[1..k]) = k + 1)}
<1> HIDE DEF Stuck
<1>9. 0 \in Good
  <2>1. IsTrail(<<h>>, used, h)
    BY TrailBegins
  <2> QED
    BY <1>8, <2>1
<1>10. ASSUME NEW k \in Nat, k \in Good PROVE k + 1 \in Good
  <2> SUFFICES ASSUME k + 1 <= n
               PROVE  IsTrail(it[1..(k + 1)], used, h) /\ (Stuck(it[1..(k + 1)]) \/ Len(it[1..(k + 1)]) = k + 2)
    OBVIOUS
  <2> DEFINE w == it[1..k]
  <2>1. IsTrail(w, used, h) /\ (Stuck(w) \/ Len(w) = k + 1)
    BY <1>10
  <2>2. it[1..(k + 1)] = longer(w)
    <3>1. k + 1 \in 1..n /\ (k + 1) - 1 = k
      BY <1>1
    <3> QED
      BY <1>8, <3>1
  <2> HIDE DEF w
  <2>3. CASE Stuck(w)
    <3>1. longer(w) = w
      BY <2>3 DEF Stuck, longer
    <3> QED
      BY <2>1, <2>2, <2>3, <3>1
  <2>4. CASE ~Stuck(w)
    <3> DEFINE b == BestOut(To(Last(w)), taken(w))
    <3>1. longer(w) = Append(w, b)
      BY <2>4 DEF Stuck, longer
    <3>2. b \in Halves /\ From(b) = To(Last(w)) /\ b[1] \notin used \cup LinesOf(w)
      BY <2>4, BestOutIs DEF Stuck
    <3> HIDE DEF b
    <3>3. IsTrail(Append(w, b), used, h)
      BY <2>1, <3>2, TrailGrows
    <3>4. Len(w) = k + 1 /\ w \in Seq(Halves)
      BY <2>1, <2>4 DEF IsTrail
    <3>5. Len(Append(w, b)) = k + 2
      BY <3>4
    <3> QED
      BY <2>2, <3>1, <3>3, <3>5
  <2> QED
    BY <2>3, <2>4
<1> HIDE DEF Good
<1>11. Nat \subseteq Good
  BY <1>9, <1>10, FromZero
<1>12. IsTrail(it[1..n], used, h) /\ (Stuck(it[1..n]) \/ Len(it[1..n]) = n + 1)
  BY <1>1, <1>11 DEF Good
<1>13. it[1..n] \in Seq(Halves) /\ LinesOnce(it[1..n])
  BY <1>12 DEF IsTrail
<1>14. Len(it[1..n]) <= n
  BY <1>13, TrailIsShort
<1> QED
  BY <1>1, <1>2, <1>12, <1>14 DEF Stuck

-----------------------------------------------------------------------------
(***************************************************************************)
(* linemerge.Sequence: components.                                         *)
(***************************************************************************)
Nodes == UNION {EndsOf(l) : l \in LineIds}

\* No line leads out of these nodes.
Keeps(K) == \A l \in LineIds : EndsOf(l) \cap K # {} => EndsOf(l) \subseteq K

LEMMA AcrossIs ==
  ASSUME NEW p, NEW l \in LinesAt(p)
  PROVE  EndsOf(l) = {p, Across(l, p)} /\ Across(l, p) \in Nodes /\ p \in Nodes /\ l \in LineIds
  BY DEF LinesAt, Across, EndsOf, Nodes

LEMMA FewNodes ==
  ASSUME LinesTyped
  PROVE  IsFiniteSet(Nodes) /\ Cardinality(Nodes) <= 2 * Len(lines)
<1> DEFINE A == {FirstOf(l) : l \in LineIds}
           B == {LastOf(l) : l \in LineIds}
<1>1. LineIds = 1..Len(lines) /\ Len(lines) \in Nat
  BY DEF LinesTyped, LineIds
<1>2. IsFiniteSet(LineIds) /\ Cardinality(LineIds) = Len(lines)
  BY <1>1, UpTo
<1>3. IsFiniteSet(A) /\ Cardinality(A) <= Cardinality(LineIds)
  <2> DEFINE f == [l \in LineIds |-> FirstOf(l)]
  <2>1. f \in Surjection(LineIds, A)
    BY DEF Surjection
  <2> HIDE DEF f, A
  <2> QED
    BY <1>2, <2>1, FS_Surjection
<1>4. IsFiniteSet(B) /\ Cardinality(B) <= Cardinality(LineIds)
  <2> DEFINE f == [l \in LineIds |-> LastOf(l)]
  <2>1. f \in Surjection(LineIds, B)
    BY DEF Surjection
  <2> HIDE DEF f, B
  <2> QED
    BY <1>2, <2>1, FS_Surjection
<1>5. Nodes = A \cup B
  BY DEF Nodes, EndsOf
<1> HIDE DEF A, B
<1>6. IsFiniteSet(A \cup B) /\ Cardinality(A \cup B) = Cardinality(A) + Cardinality(B) - Cardinality(A \cap B)
  BY <1>3, <1>4, FS_Union
<1>7. Cardinality(A) \in Nat /\ Cardinality(B) \in Nat /\ Cardinality(A \cap B) \in Nat
  BY <1>3, <1>4, FS_CardinalityType, FS_Intersection
<1> QED
  BY <1>1, <1>2, <1>3, <1>4, <1>5, <1>6, <1>7

\* The elements of a longer sequence.
LEMMA OneMore ==
  ASSUME NEW S, NEW s \in Seq(S), NEW x \in S
  PROVE  /\ Append(s, x) \in Seq(S) /\ ToSet(Append(s, x)) = ToSet(s) \cup {x}
         /\ IsInjective(s) /\ x \notin ToSet(s) => IsInjective(Append(s, x))
<1> DEFINE v == Append(s, x)
           n == Len(s)
<1>1. n \in Nat /\ DOMAIN s = 1..n
  OBVIOUS
<1>2. v \in Seq(S) /\ DOMAIN v = 1..(n + 1) /\ v[n + 1] = x /\ \A i \in 1..n : v[i] = s[i]
  OBVIOUS
<1> HIDE DEF v, n
<1>3. \A i \in 1..(n + 1) : i \in 1..n \/ i = n + 1
  BY <1>1
<1>4. \A i \in 1..n : i \in 1..(n + 1) /\ s[i] \in ToSet(s)
  BY <1>1 DEF ToSet
<1>5. n + 1 \in 1..(n + 1)
  BY <1>1
<1>6. ToSet(v) = ToSet(s) \cup {x}
  <2>1. \A y \in ToSet(v) : y \in ToSet(s) \cup {x}
    BY <1>2, <1>3, <1>4 DEF ToSet
  <2>2. \A y \in ToSet(s) : y \in ToSet(v)
    BY <1>1, <1>2, <1>4 DEF ToSet
  <2>3. x \in ToSet(v)
    BY <1>2, <1>5 DEF ToSet
  <2> QED
    BY <2>1, <2>2, <2>3
<1>7. IsInjective(s) /\ x \notin ToSet(s) => IsInjective(v)
  <2> SUFFICES ASSUME IsInjective(s), x \notin ToSet(s), NEW i \in 1..(n + 1), NEW j \in 1..(n + 1), v[i] = v[j]
               PROVE  i = j
    BY <1>2 DEF IsInjective
  <2>1. CASE i \in 1..n /\ j \in 1..n
    BY <1>1, <1>2, <2>1 DEF IsInjective
  <2>2. CASE i = n + 1 /\ j \in 1..n
    BY <1>2, <1>4, <2>2
  <2>3. CASE i \in 1..n /\ j = n + 1
    BY <1>2, <1>4, <2>3
  <2> QED
    BY <1>3, <2>1, <2>2, <2>3
<1> QED
  BY <1>2, <1>6, <1>7 DEF v

LEMMA Joined ==
  ASSUME NEW S, NEW s \in Seq(S), NEW t \in Seq(S)
  PROVE  /\ s \o t \in Seq(S) /\ Len(s \o t) = Len(s) + Len(t)
         /\ ToSet(s \o t) = ToSet(s) \cup ToSet(t)
         /\ \A i \in 1..Len(s) : (s \o t)[i] = s[i]
         /\ IsInjective(s) /\ IsInjective(t) /\ ToSet(s) \cap ToSet(t) = {} => IsInjective(s \o t)
<1> DEFINE v == s \o t
           m == Len(s)
           n == Len(t)
<1>1. m \in Nat /\ DOMAIN s = 1..m /\ n \in Nat /\ DOMAIN t = 1..n
  OBVIOUS
<1>2. /\ v \in Seq(S) /\ Len(v) = m + n /\ DOMAIN v = 1..(m + n)
      /\ \A i \in 1..(m + n) : v[i] = IF i <= m THEN s[i] ELSE t[i - m]
  OBVIOUS
<1> HIDE DEF v, m, n
<1>3. \A i \in 1..(m + n) : \/ i \in 1..m /\ v[i] = s[i] /\ v[i] \in ToSet(s)
                            \/ i - m \in 1..n /\ ~(i <= m) /\ v[i] = t[i - m] /\ v[i] \in ToSet(t)
  <2> SUFFICES ASSUME NEW i \in 1..(m + n)
               PROVE  \/ i \in 1..m /\ v[i] = s[i] /\ v[i] \in ToSet(s)
                      \/ i - m \in 1..n /\ ~(i <= m) /\ v[i] = t[i - m] /\ v[i] \in ToSet(t)
    OBVIOUS
  <2>1. CASE i <= m
    <3>1. i \in 1..m /\ v[i] = s[i]
      BY <1>1, <1>2, <2>1
    <3> QED
      BY <1>1, <3>1 DEF ToSet
  <2>2. CASE ~(i <= m)
    <3>1. i - m \in 1..n /\ v[i] = t[i - m]
      BY <1>1, <1>2, <2>2
    <3> QED
      BY <1>1, <2>2, <3>1 DEF ToSet
  <2> QED
    BY <2>1, <2>2
<1>4. \A i \in 1..m : i \in 1..(m + n) /\ v[i] = s[i]
  BY <1>1, <1>2
<1>5. \A i \in 1..n : m + i \in 1..(m + n) /\ v[m + i] = t[i]
  <2> SUFFICES ASSUME NEW i \in 1..n PROVE m + i \in 1..(m + n) /\ v[m + i] = t[i]
    OBVIOUS
  <2>1. m + i \in 1..(m + n) /\ ~(m + i <= m) /\ (m + i) - m = i
    BY <1>1
  <2> QED
    BY <1>2, <2>1
<1>6. ToSet(v) = ToSet(s) \cup ToSet(t)
  <2>1. \A y \in ToSet(v) : y \in ToSet(s) \cup ToSet(t)
    <3> SUFFICES ASSUME NEW i \in 1..(m + n) PROVE v[i] \in ToSet(s) \cup ToSet(t)
      BY <1>2 DEF ToSet
    <3> QED
      BY <1>3
  <2>2. \A y \in ToSet(s) : y \in ToSet(v)
    BY <1>1, <1>2, <1>4 DEF ToSet
  <2>3. \A y \in ToSet(t) : y \in ToSet(v)
    <3> SUFFICES ASSUME NEW i \in 1..n PROVE t[i] \in ToSet(v)
      BY <1>1 DEF ToSet
    <3>1. m + i \in 1..(m + n) /\ v[m + i] = t[i]
      BY <1>5
    <3> QED
      BY <1>2, <3>1 DEF ToSet
  <2> QED
    BY <2>1, <2>2, <2>3
<1>7. IsInjective(s) /\ IsInjective(t) /\ ToSet(s) \cap ToSet(t) = {} => IsInjective(v)
  <2> SUFFICES ASSUME IsInjective(s), IsInjective(t), ToSet(s) \cap ToSet(t) = {},
                      NEW i \in 1..(m + n), NEW j \in 1..(m + n), v[i] = v[j]
               PROVE  i = j
    BY <1>2 DEF IsInjective
  <2>1. CASE i \in 1..m /\ j \in 1..m
    BY <1>1, <1>4, <2>1 DEF IsInjective
  <2>2. CASE i \notin 1..m /\ j \notin 1..m
    <3>1. i - m \in 1..n /\ j - m \in 1..n /\ t[i - m] = t[j - m]
      BY <1>3, <2>2
    <3>2. i - m = j - m
      BY <1>1, <3>1 DEF IsInjective
    <3> QED
      BY <1>1, <3>2
  <2>3. CASE (i \in 1..m) # (j \in 1..m)
    <3>1. v[i] \in ToSet(s) /\ v[i] \in ToSet(t)
      <4>1. \A k \in 1..(m + n) : k \in 1..m => ~(k - m \in 1..n)
        BY <1>1
      <4> QED
        BY <1>3, <2>3, <4>1
    <3> QED
      BY <3>1
  <2> QED
    BY <2>1, <2>2, <2>3
<1> QED
  BY <1>2, <1>4, <1>6, <1>7 DEF v, m, n

\* The nodes that a search in breadth finds across the lines at a node.
LEMMA FreshIs ==
  ASSUME LinesTyped, NEW p, NEW seen
  PROVE  /\ Fresh(p, seen) \in Seq(Nodes) /\ IsInjective(Fresh(p, seen))
         /\ ToSet(seen) \cap ToSet(Fresh(p, seen)) = {}
         /\ \A x \in ToSet(Fresh(p, seen)) : \E l \in LinesAt(p) : x = Across(l, p)
         /\ \A l \in LinesAt(p) : Across(l, p) \in ToSet(seen) \cup ToSet(Fresh(p, seen))
<1> DEFINE n == Len(lines)
           W == Seq(Nodes)
           isNew(new, l) == p \in EndsOf(l) /\ Across(l, p) \notin ToSet(seen) \cup ToSet(new)
           longer(new, l) == IF isNew(new, l) THEN Append(new, Across(l, p)) ELSE new
           g == [kw \in (1..n) \X W |-> longer(kw[2], kw[1])]
           ids == [l \in LineIds |-> l]
           it == CHOOSE it : it = [s \in SUBSET (1..n) |-> IF s = {} THEN <<>> ELSE longer(it[s \ {Max(s)}], ids[Max(s)])]
<1>1. LineIds = 1..n /\ n \in Nat
  BY DEF LinesTyped, LineIds
<1>2. Fresh(p, seen) = it[1..n]
  <2>1. DOMAIN ids = 1..n
    BY <1>1
  <2> QED
    BY <2>1 DEF Fresh, FoldLeft, MapThenFoldSet
<1>3. \A new \in W, l \in 1..n : longer(new, l) \in W
  <2> SUFFICES ASSUME NEW new \in W, NEW l \in 1..n, isNew(new, l) PROVE Append(new, Across(l, p)) \in W
    OBVIOUS
  <2>1. l \in LinesAt(p)
    BY <1>1 DEF LinesAt
  <2>2. Across(l, p) \in Nodes
    BY <2>1, AcrossIs
  <2> QED
    BY <2>2
<1>4. \A k \in 1..n : ids[k] = k
  BY <1>1
<1>5. <<>> \in W
  OBVIOUS
<1> HIDE DEF longer, W, ids
<1>6. g \in [(1..n) \X W -> W]
  BY <1>3
<1>7. \E i : i = [s \in SUBSET (1..n) |-> IF s = {} THEN <<>> ELSE longer(i[s \ {Max(s)}], ids[Max(s)])]
  <2> HIDE DEF g
  <2>1. PICK i \in [SUBSET (1..n) -> W] : IsFold(n, <<>>, g, i)
    BY <1>1, <1>5, <1>6, FoldIsThere
  <2>2. \A s \in SUBSET (1..n) : s # {} => g[<<Max(s), i[s \ {Max(s)}]>>] = longer(i[s \ {Max(s)}], ids[Max(s)])
    <3> SUFFICES ASSUME NEW s \in SUBSET (1..n), s # {}
                 PROVE  g[<<Max(s), i[s \ {Max(s)}]>>] = longer(i[s \ {Max(s)}], ids[Max(s)])
      OBVIOUS
    <3>1. Max(s) \in 1..n
      BY <1>1, MaxIsIn
    <3>2. i[s \ {Max(s)}] \in W
      BY <2>1
    <3> QED
      BY <1>4, <3>1, <3>2 DEF g
  <2>3. \A s \in SUBSET (1..n) : (IF s = {} THEN <<>> ELSE g[<<Max(s), i[s \ {Max(s)}]>>])
                                = (IF s = {} THEN <<>> ELSE longer(i[s \ {Max(s)}], ids[Max(s)]))
    BY <2>2
  <2>4. i = [s \in SUBSET (1..n) |-> IF s = {} THEN <<>> ELSE longer(i[s \ {Max(s)}], ids[Max(s)])]
    BY <2>1, <2>3, Zenon DEF IsFold
  <2> QED
    BY <2>4
<1>8. it = [s \in SUBSET (1..n) |-> IF s = {} THEN <<>> ELSE longer(it[s \ {Max(s)}], ids[Max(s)])]
  BY <1>7, Zenon
<1> HIDE DEF it, g
<1>9. it[1..0] = <<>> /\ \A k \in 1..n : it[1..k] = longer(it[1..(k - 1)], k)
  <2>1. 1..0 = {} /\ 1..0 \in SUBSET (1..n)
    OBVIOUS
  <2>2. it[1..0] = <<>>
    BY <1>8, <2>1
  <2>3. ASSUME NEW k \in 1..n PROVE it[1..k] = longer(it[1..(k - 1)], k)
    <3>1. 1..k \in SUBSET (1..n) /\ 1..k # {} /\ Max(1..k) = k /\ (1..k) \ {Max(1..k)} = 1..(k - 1)
      BY <1>1, FirstNumbers
    <3>2. it[1..k] = longer(it[(1..k) \ {Max(1..k)}], ids[Max(1..k)])
      BY <1>8, <3>1
    <3> QED
      BY <1>4, <3>1, <3>2
  <2> QED
    BY <2>2, <2>3
<1> DEFINE Right(new, k) ==
             /\ new \in Seq(Nodes) /\ IsInjective(new) /\ ToSet(seen) \cap ToSet(new) = {}
             /\ \A x \in ToSet(new) : \E l \in LinesAt(p) : x = Across(l, p)
             /\ \A l \in LinesAt(p) : l <= k => Across(l, p) \in ToSet(seen) \cup ToSet(new)
           Good == {k \in Nat : k <= n => Right(it[1..k], k)}
<1> HIDE DEF Right
<1>10. 0 \in Good
  <2>1. \A l \in LinesAt(p) : ~(l <= 0)
    BY <1>1 DEF LinesAt
  <2>2. Right(<<>>, 0)
    BY <2>1 DEF Right, IsInjective, ToSet
  <2> QED
    BY <1>9, <2>2
<1>11. ASSUME NEW k \in Nat, k \in Good PROVE k + 1 \in Good
  <2> SUFFICES ASSUME k + 1 <= n PROVE Right(it[1..(k + 1)], k + 1)
    OBVIOUS
  <2> DEFINE new == it[1..k]
             m == k + 1
  <2>1. Right(new, k)
    BY <1>11
  <2>2. it[1..m] = longer(new, m) /\ m \in LineIds
    <3>1. k + 1 \in 1..n /\ (k + 1) - 1 = k
      BY <1>1
    <3> QED
      BY <1>1, <1>9, <3>1
  <2>3. \A l \in LinesAt(p) : l <= m => l <= k \/ l = m
    BY <1>1 DEF LinesAt
  <2> HIDE DEF new, m
  <2>4. CASE isNew(new, m)
    <3> DEFINE x == Across(m, p)
    <3>1. m \in LinesAt(p) /\ x \notin ToSet(seen) \cup ToSet(new)
      BY <2>2, <2>4 DEF LinesAt
    <3>2. x \in Nodes
      BY <3>1, AcrossIs
    <3>3. longer(new, m) = Append(new, x)
      BY <2>4 DEF longer
    <3> HIDE DEF x
    <3>4. /\ Append(new, x) \in Seq(Nodes) /\ ToSet(Append(new, x)) = ToSet(new) \cup {x}
          /\ IsInjective(Append(new, x))
      BY <2>1, <3>1, <3>2, OneMore DEF Right
    <3>5. Right(Append(new, x), m)
      BY <2>1, <2>3, <3>1, <3>4 DEF Right, x
    <3> QED
      BY <2>2, <3>3, <3>5 DEF m
  <2>5. CASE ~isNew(new, m)
    <3>1. longer(new, m) = new
      BY <2>5 DEF longer
    <3>2. m \in LinesAt(p) => Across(m, p) \in ToSet(seen) \cup ToSet(new)
      BY <2>5 DEF LinesAt
    <3>3. Right(new, m)
      BY <2>1, <2>3, <3>2 DEF Right
    <3> QED
      BY <2>2, <3>1, <3>3 DEF m
  <2> QED
    BY <2>4, <2>5
<1> HIDE DEF Good
<1>12. Nat \subseteq Good
  BY <1>10, <1>11, FromZero
<1>13. Right(it[1..n], n)
  BY <1>1, <1>12 DEF Good
<1>14. \A l \in LinesAt(p) : l <= n
  BY <1>1 DEF LinesAt
<1> QED
  BY <1>2, <1>13, <1>14 DEF Right

\* The nodes that can be reached from one of them: all that lines lead to, each
\* once, and no others.
LEMMA ComponentIs ==
  ASSUME LinesTyped, NEW p \in Nodes
  PROVE  /\ Component(p) \in Seq(Nodes) /\ p \in ToSet(Component(p))
         /\ Keeps(ToSet(Component(p)))
         /\ \A K : Keeps(K) /\ p \in K => ToSet(Component(p)) \subseteq K
<1> DEFINE n == 2 * Len(lines)
           W == Seq(Nodes)
           longer(seen, k) == IF k > Len(seen) THEN seen ELSE seen \o Fresh(seen[k], seen)
           g == [kw \in (1..n) \X W |-> longer(kw[2], kw[1])]
           ids == [k \in 1..n |-> k]
           it == CHOOSE it : it = [s \in SUBSET (1..n) |-> IF s = {} THEN <<p>> ELSE longer(it[s \ {Max(s)}], ids[Max(s)])]
<1>1. LineIds = 1..Len(lines) /\ Len(lines) \in Nat /\ n \in Nat
  BY DEF LinesTyped, LineIds
<1>2. Component(p) = it[1..n]
  <2>1. DOMAIN ids = 1..n
    OBVIOUS
  <2> QED
    BY <2>1 DEF Component, FoldLeft, MapThenFoldSet
<1> HIDE DEF n
<1>3. \A seen \in W, k \in 1..n : longer(seen, k) \in W
  <2> SUFFICES ASSUME NEW seen \in W, NEW k \in 1..n PROVE seen \o Fresh(seen[k], seen) \in W
    OBVIOUS
  <2>1. Fresh(seen[k], seen) \in W
    BY FreshIs
  <2> QED
    BY <2>1
<1>4. \A k \in 1..n : ids[k] = k
  OBVIOUS
<1>5. <<p>> \in W
  OBVIOUS
<1> HIDE DEF longer, W, ids
<1>6. g \in [(1..n) \X W -> W]
  BY <1>3
<1>7. \E i : i = [s \in SUBSET (1..n) |-> IF s = {} THEN <<p>> ELSE longer(i[s \ {Max(s)}], ids[Max(s)])]
  <2> HIDE DEF g
  <2>1. PICK i \in [SUBSET (1..n) -> W] : IsFold(n, <<p>>, g, i)
    BY <1>1, <1>5, <1>6, FoldIsThere
  <2>2. \A s \in SUBSET (1..n) : s # {} => g[<<Max(s), i[s \ {Max(s)}]>>] = longer(i[s \ {Max(s)}], ids[Max(s)])
    <3> SUFFICES ASSUME NEW s \in SUBSET (1..n), s # {}
                 PROVE  g[<<Max(s), i[s \ {Max(s)}]>>] = longer(i[s \ {Max(s)}], ids[Max(s)])
      OBVIOUS
    <3>1. Max(s) \in 1..n
      BY <1>1, MaxIsIn
    <3>2. i[s \ {Max(s)}] \in W
      BY <2>1
    <3> QED
      BY <1>4, <3>1, <3>2 DEF g
  <2>3. \A s \in SUBSET (1..n) : (IF s = {} THEN <<p>> ELSE g[<<Max(s), i[s \ {Max(s)}]>>])
                                = (IF s = {} THEN <<p>> ELSE longer(i[s \ {Max(s)}], ids[Max(s)]))
    BY <2>2
  <2>4. i = [s \in SUBSET (1..n) |-> IF s = {} THEN <<p>> ELSE longer(i[s \ {Max(s)}], ids[Max(s)])]
    BY <2>1, <2>3, Zenon DEF IsFold
  <2> QED
    BY <2>4
<1>8. it = [s \in SUBSET (1..n) |-> IF s = {} THEN <<p>> ELSE longer(it[s \ {Max(s)}], ids[Max(s)])]
  BY <1>7, Zenon
<1> HIDE DEF it, g
<1>9. it[1..0] = <<p>> /\ \A k \in 1..n : it[1..k] = longer(it[1..(k - 1)], k)
  <2>1. 1..0 = {} /\ 1..0 \in SUBSET (1..n)
    OBVIOUS
  <2>2. it[1..0] = <<p>>
    BY <1>8, <2>1
  <2>3. ASSUME NEW k \in 1..n PROVE it[1..k] = longer(it[1..(k - 1)], k)
    <3>1. 1..k \in SUBSET (1..n) /\ 1..k # {} /\ Max(1..k) = k /\ (1..k) \ {Max(1..k)} = 1..(k - 1)
      BY <1>1, FirstNumbers
    <3>2. it[1..k] = longer(it[(1..k) \ {Max(1..k)}], ids[Max(1..k)])
      BY <1>8, <3>1
    <3> QED
      BY <1>4, <3>1, <3>2
  <2> QED
    BY <2>2, <2>3
<1> DEFINE Right(seen, k) ==
             /\ seen \in Seq(Nodes) /\ IsInjective(seen) /\ p \in ToSet(seen)
             /\ \A j \in 1..Len(seen) : j <= k => \A l \in LinesAt(seen[j]) : Across(l, seen[j]) \in ToSet(seen)
             /\ \A K : Keeps(K) /\ p \in K => ToSet(seen) \subseteq K
           Good == {k \in Nat : k <= n => Right(it[1..k], k)}
<1> HIDE DEF Right
<1>10. 0 \in Good
  <2>1. <<p>> \in Seq(Nodes) /\ Len(<<p>>) = 1 /\ DOMAIN <<p>> = {1} /\ <<p>>[1] = p
    OBVIOUS
  <2>2. ToSet(<<p>>) = {p} /\ IsInjective(<<p>>)
    BY <2>1 DEF ToSet, IsInjective
  <2>3. \A j \in 1..Len(<<p>>) : ~(j <= 0)
    OBVIOUS
  <2>4. Right(<<p>>, 0)
    BY <2>1, <2>2, <2>3 DEF Right
  <2> QED
    BY <1>9, <2>4
<1>11. ASSUME NEW k \in Nat, k \in Good PROVE k + 1 \in Good
  <2> SUFFICES ASSUME k + 1 <= n PROVE Right(it[1..(k + 1)], k + 1)
    OBVIOUS
  <2> DEFINE seen == it[1..k]
             m == k + 1
  <2>1. Right(seen, k)
    BY <1>1, <1>11
  <2>2. it[1..m] = longer(seen, m) /\ m \in Nat /\ m >= 1
    <3>1. k + 1 \in 1..n /\ (k + 1) - 1 = k
      BY <1>1
    <3> QED
      BY <1>9, <3>1
  <2>3. \A j \in Nat : j <= m => j <= k \/ j = m
    OBVIOUS
  <2> HIDE DEF seen, m
  <2>4. CASE m > Len(seen)
    <3>1. longer(seen, m) = seen
      BY <2>4 DEF longer
    <3>2. Len(seen) \in Nat
      BY <2>1 DEF Right
    <3>3. \A j \in 1..Len(seen) : j <= k
      BY <2>2, <2>3, <2>4, <3>2
    <3>4. Right(seen, m)
      BY <2>1, <3>3 DEF Right
    <3> QED
      BY <2>2, <3>1, <3>4 DEF m
  <2>5. CASE ~(m > Len(seen))
    <3> DEFINE q == seen[m]
               f == Fresh(q, seen)
    <3>1. longer(seen, m) = seen \o f
      BY <2>5 DEF longer
    <3>2. Len(seen) \in Nat /\ m \in 1..Len(seen) /\ q \in Nodes /\ q \in ToSet(seen)
      <4>1. Len(seen) \in Nat /\ DOMAIN seen = 1..Len(seen) /\ seen \in Seq(Nodes)
        BY <2>1 DEF Right
      <4>2. m \in 1..Len(seen)
        BY <2>2, <2>5, <4>1
      <4> QED
        BY <4>1, <4>2 DEF ToSet
    <3>3. /\ f \in Seq(Nodes) /\ IsInjective(f)
          /\ ToSet(seen) \cap ToSet(f) = {}
          /\ \A x \in ToSet(f) : \E l \in LinesAt(q) : x = Across(l, q)
          /\ \A l \in LinesAt(q) : Across(l, q) \in ToSet(seen) \cup ToSet(f)
      BY FreshIs
    <3> HIDE DEF f
    <3> DEFINE v == seen \o f
    <3>4. /\ v \in Seq(Nodes) /\ Len(v) = Len(seen) + Len(f) /\ ToSet(v) = ToSet(seen) \cup ToSet(f)
          /\ IsInjective(v) /\ \A i \in 1..Len(seen) : v[i] = seen[i]
      BY <2>1, <3>3, Joined DEF Right
    <3> HIDE DEF v
    <3>5. ASSUME NEW j \in 1..Len(v), j <= m, NEW l \in LinesAt(v[j])
          PROVE  Across(l, v[j]) \in ToSet(v)
      <4>1. j \in 1..Len(seen) /\ v[j] = seen[j] /\ (j <= k \/ j = m)
        <5>1. j \in Nat /\ j >= 1 /\ j <= Len(seen)
          BY <2>2, <3>2, <3>5
        <5> QED
          BY <2>3, <3>2, <3>4, <3>5, <5>1
      <4>2. CASE j <= k
        BY <2>1, <3>4, <3>5, <4>1, <4>2 DEF Right
      <4>3. CASE j = m
        BY <3>3, <3>4, <3>5, <4>1, <4>3
      <4> QED
        BY <4>1, <4>2, <4>3
    <3>6. ASSUME NEW K, Keeps(K), p \in K
          PROVE  ToSet(v) \subseteq K
      <4>1. ToSet(seen) \subseteq K
        BY <2>1, <3>6 DEF Right
      <4>2. ASSUME NEW x \in ToSet(f) PROVE x \in K
        <5>1. PICK l \in LinesAt(q) : x = Across(l, q)
          BY <3>3
        <5>2. EndsOf(l) = {q, x} /\ l \in LineIds
          BY <5>1, AcrossIs
        <5> QED
          BY <3>2, <3>6, <4>1, <5>2 DEF Keeps
      <4> QED
        BY <3>4, <4>1, <4>2
    <3>7. Right(v, m)
      BY <2>1, <3>4, <3>5, <3>6 DEF Right
    <3> QED
      BY <2>2, <3>1, <3>7 DEF m, v
  <2> QED
    BY <2>4, <2>5
<1> HIDE DEF Good
<1>12. Nat \subseteq Good
  BY <1>10, <1>11, FromZero
<1> DEFINE c == it[1..n]
<1>13. Right(c, n)
  BY <1>1, <1>12 DEF Good
<1> HIDE DEF c
<1>14. Len(c) <= n /\ Len(c) \in Nat /\ DOMAIN c = 1..Len(c)
  <2>1. c \in Seq(Nodes) /\ IsInjective(c)
    BY <1>13 DEF Right
  <2>2. Len(c) \in Nat /\ c \in [1..Len(c) -> Nodes] /\ DOMAIN c = 1..Len(c)
    BY <2>1
  <2>3. c \in Injection(1..Len(c), Nodes)
    BY <2>1, <2>2 DEF Injection, IsInjective
  <2>4. IsFiniteSet(1..Len(c)) /\ Cardinality(1..Len(c)) = Len(c)
    BY <2>2, UpTo
  <2>5. IsFiniteSet(Nodes) /\ Cardinality(Nodes) <= n /\ Cardinality(Nodes) \in Nat
    BY FewNodes, FS_CardinalityType DEF n
  <2>6. Cardinality(1..Len(c)) <= Cardinality(Nodes)
    BY <2>3, <2>4, <2>5, FS_Injection
  <2> QED
    BY <1>1, <2>2, <2>4, <2>5, <2>6
<1>15. Keeps(ToSet(c))
  <2> SUFFICES ASSUME NEW l \in LineIds, NEW q \in EndsOf(l), q \in ToSet(c)
               PROVE  EndsOf(l) \subseteq ToSet(c)
    BY DEF Keeps
  <2>1. l \in LinesAt(q)
    BY DEF LinesAt
  <2>2. PICK j \in 1..Len(c) : q = c[j]
    BY <1>14 DEF ToSet
  <2>3. j <= n
    BY <1>1, <1>14
  <2>4. Across(l, q) \in ToSet(c)
    BY <1>13, <2>1, <2>2, <2>3 DEF Right
  <2> QED
    BY <2>1, <2>4, AcrossIs
<1> QED
  BY <1>2, <1>13, <1>15 DEF Right, c

\* The first of the nodes of lowest degree is one of them.
LEMMA LowestIsIn ==
  ASSUME LinesTyped, NEW nodes \in Seq(Nodes), nodes # <<>>
  PROVE  LowestDegreeNode(nodes) \in ToSet(nodes)
<1> DEFINE n == Len(nodes)
           ds == {Degree(nodes[i]) : i \in 1..n}
           low == Min(ds)
           least == Min({i \in 1..n : Degree(nodes[i]) = low})
           isLowest(i) == \A j \in DOMAIN nodes : \/ Degree(nodes[i]) < Degree(nodes[j])
                                                  \/ Degree(nodes[i]) = Degree(nodes[j]) /\ i <= j
<1>1. n \in Nat /\ n >= 1 /\ DOMAIN nodes = 1..n
  OBVIOUS
<1>2. \A p : Degree(p) \in Nat
  <2>1. \A p : Rest({}, p) = {h \in Halves : From(h) = p}
    BY DEF Rest
  <2> QED
    BY <2>1, RestIsFinite DEF Degree
<1> HIDE DEF n
<1>3. low \in ds /\ \A d \in ds : low <= d
  <2>1. ds \in SUBSET Nat /\ Degree(nodes[1]) \in ds
    BY <1>1, <1>2
  <2> HIDE DEF ds
  <2> QED
    BY <2>1, MinIsIn
<1>4. \A i \in 1..n : low <= Degree(nodes[i])
  BY <1>3
<1>5. PICK i \in 1..n : Degree(nodes[i]) = low
  BY <1>3
<1> HIDE DEF low
<1>6. least \in {j \in 1..n : Degree(nodes[j]) = low} /\ \A j \in {j \in 1..n : Degree(nodes[j]) = low} : least <= j
  <2> DEFINE S == {j \in 1..n : Degree(nodes[j]) = low}
  <2>1. S \in SUBSET Nat /\ S # {}
    BY <1>1, <1>5
  <2> HIDE DEF S
  <2>2. Min(S) \in S /\ \A j \in S : Min(S) <= j
    BY <2>1, MinIsIn
  <2> QED
    BY <2>2 DEF S
<1> HIDE DEF least, ds
<1>7. least \in DOMAIN nodes /\ isLowest(least)
  <2> SUFFICES ASSUME NEW j \in 1..n
               PROVE  \/ Degree(nodes[least]) < Degree(nodes[j])
                      \/ Degree(nodes[least]) = Degree(nodes[j]) /\ least <= j
    BY <1>1, <1>6
  <2>1. Degree(nodes[least]) = low /\ Degree(nodes[j]) \in Nat /\ low \in Nat
    BY <1>2, <1>6
  <2>2. low <= Degree(nodes[j])
    BY <1>4
  <2>3. Degree(nodes[j]) = low => least <= j
    BY <1>6
  <2> QED
    BY <2>1, <2>2, <2>3
<1>8. LowestDegreeNode(nodes) = nodes[CHOOSE k \in DOMAIN nodes : isLowest(k)]
  BY DEF LowestDegreeNode
<1>9. (CHOOSE k \in DOMAIN nodes : isLowest(k)) \in DOMAIN nodes
  BY <1>7, Zenon
<1> QED
  BY <1>8, <1>9 DEF ToSet

\* A trail in a set of nodes that no line leads out of stays there.
LEMMA TrailStays ==
  ASSUME LinesTyped, NEW K, Keeps(K), NEW U, NEW h, NEW w, IsTrail(w, U, h), From(h) \in K
  PROVE  \A i \in DOMAIN w : From(w[i]) \in K /\ To(w[i]) \in K
<1> DEFINE n == Len(w)
           In(i) == From(w[i]) \in K /\ To(w[i]) \in K
           Good == {k \in Nat : k + 1 <= n => In(k + 1)}
<1>1. n \in Nat /\ DOMAIN w = 1..n /\ \A i \in 1..n : w[i] \in Halves
  BY DEF IsTrail
<1>2. \A i \in 1..n : From(w[i]) \in K => To(w[i]) \in K
  <2> SUFFICES ASSUME NEW i \in 1..n, From(w[i]) \in K PROVE To(w[i]) \in K
    OBVIOUS
  <2>1. EndsOf(w[i][1]) = {From(w[i]), To(w[i])} /\ w[i][1] \in LineIds
    BY <1>1, TwinOf DEF Halves
  <2> QED
    BY <2>1 DEF Keeps
<1> HIDE DEF n
<1>3. 0 \in Good
  <2> SUFFICES ASSUME 1 <= n PROVE In(1)
    OBVIOUS
  <2>1. w[1] = h /\ 1 \in 1..n
    BY <1>1 DEF IsTrail
  <2> QED
    BY <1>2, <2>1
<1>4. ASSUME NEW k \in Nat, k \in Good PROVE k + 1 \in Good
  <2> SUFFICES ASSUME (k + 1) + 1 <= n PROVE In((k + 1) + 1)
    OBVIOUS
  <2>1. k + 1 \in 1..(n - 1) /\ (k + 1) + 1 \in 1..n /\ In(k + 1)
    BY <1>1, <1>4
  <2>2. To(w[k + 1]) = From(w[(k + 1) + 1])
    BY <2>1 DEF IsTrail, IsWalk, n
  <2> QED
    BY <1>2, <2>1, <2>2
<1> HIDE DEF Good
<1>5. Nat \subseteq Good
  BY <1>3, <1>4, FromZero
<1>6. ASSUME NEW i \in 1..n PROVE In(i)
  <2>1. i - 1 \in Nat /\ (i - 1) + 1 = i /\ i <= n
    BY <1>1
  <2>2. i - 1 \in Good
    BY <1>5, <2>1
  <2>3. In((i - 1) + 1)
    BY <2>1, <2>2 DEF Good
  <2> QED
    BY <2>1, <2>3
<1> QED
  BY <1>1, <1>6

\* Of three nodes of a component one is even if it has an Euler sequence.
LEMMA FewOdd ==
  ASSUME NEW nodes, IsFiniteSet(ToSet(nodes)), HasEulerSequence(nodes),
         NEW p \in ToSet(nodes), NEW q \in ToSet(nodes), NEW r \in ToSet(nodes),
         p # q, p # r, q # r, Degree(p) % 2 = 1, Degree(q) % 2 = 1
  PROVE  Degree(r) % 2 # 1
<1> SUFFICES ASSUME Degree(r) % 2 = 1 PROVE FALSE
  OBVIOUS
<1> DEFINE S == {x \in ToSet(nodes) : Degree(x) % 2 = 1}
<1>1. IsFiniteSet(S) /\ Cardinality(S) <= 2 /\ Cardinality(S) \in Nat
  BY FS_Subset, FS_CardinalityType DEF HasEulerSequence
<1>2. ({p} \cup {q}) \cup {r} \in SUBSET S
  OBVIOUS
<1> HIDE DEF S
<1>3. IsFiniteSet({p}) /\ Cardinality({p}) = 1
  BY FS_Singleton
<1>4. IsFiniteSet({p} \cup {q}) /\ Cardinality({p} \cup {q}) = 2
  <2>1. q \notin {p}
    OBVIOUS
  <2>2. Cardinality({p} \cup {q}) = Cardinality({p}) + 1 /\ IsFiniteSet({p} \cup {q})
    BY <1>3, <2>1, FS_AddElement
  <2> QED
    BY <1>3, <2>2
<1>5. IsFiniteSet(({p} \cup {q}) \cup {r}) /\ Cardinality(({p} \cup {q}) \cup {r}) = 3
  <2>1. r \notin {p} \cup {q}
    OBVIOUS
  <2>2. Cardinality(({p} \cup {q}) \cup {r}) = Cardinality({p} \cup {q}) + 1 /\ IsFiniteSet(({p} \cup {q}) \cup {r})
    BY <1>4, <2>1, FS_AddElement
  <2> QED
    BY <1>4, <2>2
<1> QED
  BY <1>1, <1>2, <1>5, FS_Subset

\* After the first trail of a component nothing odd is left in it, if it began
\* at an odd node or there is none.
LEMMA FirstTrailEvens ==
  ASSUME LinesTyped, NEW nodes \in Seq(Nodes), Keeps(ToSet(nodes)), HasEulerSequence(nodes),
         NEW U, \A x \in ToSet(nodes) : LinesAt(x) \cap U = {},
         NEW h \in Halves, NEW w, IsTrail(w, U, h), IsStuck(To(Last(w)), U \cup LinesOf(w)),
         From(h) \in ToSet(nodes),
         Degree(From(h)) % 2 = 1 \/ \A x \in ToSet(nodes) : Degree(x) % 2 = 0
  PROVE  \A x \in ToSet(nodes) : ~Odd(U \cup LinesOf(w), x)
<1> DEFINE p == From(h)
           r == To(Last(w))
           V == U \cup LinesOf(w)
           isOdd(x) == Degree(x) % 2 = 1
<1>1. ASSUME NEW x \in ToSet(nodes)
      PROVE  (Odd(U, x) <=> isOdd(x)) /\ (Degree(x) % 2 = 0 <=> ~isOdd(x))
  <2>1. ASSUME NEW a \in Halves, From(a) = x PROVE a[1] \notin U
    <3>1. x \in EndsOf(a[1]) /\ a[1] \in LineIds
      <4>1. EndsOf(a[1]) = {From(a), To(a)}
        BY TwinOf
      <4>2. a[1] \in LineIds
        BY DEF Halves
      <4> QED
        BY <2>1, <4>1, <4>2
    <3> QED
      BY <3>1 DEF LinesAt
  <2>2. Rest(U, x) = {a \in Halves : From(a) = x}
    BY <2>1 DEF Rest
  <2>3. Cardinality(Rest(U, x)) \in Nat
    BY RestIsFinite
  <2> QED
    BY <2>2, <2>3 DEF Odd, Degree
<1>2. r \in ToSet(nodes)
  <2>1. Len(w) \in DOMAIN w
    BY DEF IsTrail
  <2> QED
    BY <2>1, TrailStays DEF Last
<1>3. \A x : Odd(V, x) <=> (Odd(U, x) <=> (p = x <=> r = x))
  BY DEF IsTrail
<1>4. ~Odd(V, r)
  BY StuckIsEven
<1>5. IsFiniteSet(ToSet(nodes))
  <2>1. ToSet(nodes) \in SUBSET Nodes
    BY DEF ToSet
  <2> QED
    BY <2>1, FewNodes, FS_Subset
<1>6. isOdd(p) \/ \A x \in ToSet(nodes) : ~isOdd(x)
  BY <1>1
<1>7. ASSUME NEW x \in ToSet(nodes), x # p, x # r, isOdd(p), isOdd(r), p # r PROVE ~isOdd(x)
  BY <1>2, <1>5, <1>7, FewOdd
<1> HIDE DEF p, r, V, isOdd
<1> SUFFICES ASSUME NEW x \in ToSet(nodes), Odd(V, x) PROVE FALSE
  BY DEF V
<1>8. p \in ToSet(nodes)
  BY DEF p
<1>9. CASE p = r
  <2>1. Odd(V, x) <=> Odd(U, x)
    BY <1>3, <1>9
  <2>2. ~Odd(U, r)
    BY <1>3, <1>4, <1>9
  <2>3. ~isOdd(p)
    BY <1>1, <1>2, <1>9, <2>2
  <2> QED
    BY <1>1, <1>6, <2>1, <2>3
<1>10. CASE p # r
  <2>1. isOdd(r)
    BY <1>1, <1>2, <1>3, <1>4, <1>10
  <2>2. isOdd(p)
    BY <1>2, <1>6, <2>1
  <2>3. CASE x = p
    BY <1>1, <1>3, <1>8, <1>10, <2>2, <2>3
  <2>4. CASE x = r
    BY <1>4, <2>4
  <2>5. CASE x # p /\ x # r
    BY <1>1, <1>3, <1>7, <1>10, <2>1, <2>2, <2>5
  <2> QED
    BY <2>3, <2>4, <2>5
<1> QED
  BY <1>9, <1>10

\* Where nothing is odd a trail that is stuck is back where it began, and
\* nothing is odd after it.
LEMMA TrailComesBack ==
  ASSUME LinesTyped, NEW K, Keeps(K), NEW U, \A x \in K : ~Odd(U, x),
         NEW h, NEW w, IsTrail(w, U, h), IsStuck(To(Last(w)), U \cup LinesOf(w)), From(h) \in K
  PROVE  To(Last(w)) = From(h) /\ \A x \in K : ~Odd(U \cup LinesOf(w), x)
<1>1. To(Last(w)) \in K
  <2>1. Len(w) \in DOMAIN w
    BY DEF IsTrail
  <2> QED
    BY <2>1, TrailStays DEF Last
<1>2. \A x : Odd(U \cup LinesOf(w), x) <=> (Odd(U, x) <=> (From(h) = x <=> To(Last(w)) = x))
  BY DEF IsTrail
<1>3. ~Odd(U \cup LinesOf(w), To(Last(w)))
  BY StuckIsEven
<1>4. To(Last(w)) = From(h)
  BY <1>1, <1>2, <1>3
<1> QED
  BY <1>2, <1>4

-----------------------------------------------------------------------------
(***************************************************************************)
(* linemerge.Sequence: the backward search.                                *)
(***************************************************************************)

\* What is in the trail T and in the sequence S is what is used, once.
Held(U, T, c, S) ==
    /\ S \in Seq(Halves) /\ LinesOnce(S) /\ T \in Seq(Halves) /\ LinesOnce(T) /\ c \in 0..Len(T)
    /\ LinesOf(S) \cap LinesOf(T) = {} /\ U = LinesOf(S) \cup LinesOf(T)

\* Of each node all lines are in D, or none.
WholeIn(D) == \A q : LinesAt(q) \subseteq D \/ LinesAt(q) \cap D = {}

\* A node of the trail has no lines left, or the search is still to come there.
Searched(U, T, c) ==
    \A i \in DOMAIN T : \A q \in {From(T[i]), To(T[i])} : IsStuck(q, U) \/ \E j \in 1..c : From(T[j]) = q

\* A sequence runs on but for where a component begins.
SeqRuns(S) ==
    \A i \in 1..(Len(S) - 1) :
        \/ To(S[i]) = From(S[i + 1])
        \/ ToSet(Component(From(S[i]))) \cap ToSet(Component(From(S[i + 1]))) = {}

\* A trail is one walk, and leaves nothing odd in its component.
Goes(U, T) ==
    /\ IsWalk(T)
    /\ \E K : Keeps(K) /\ (\A i \in DOMAIN T : From(T[i]) \in K) /\ \A x \in K : ~Odd(U, x)

\* The nodes of lines that are whole, and those of the others.
LEMMA WholeKeeps ==
  ASSUME LinesTyped, NEW D, WholeIn(D)
  PROVE  /\ Keeps({q \in Nodes : LinesAt(q) \subseteq D})
         /\ Keeps({q \in Nodes : LinesAt(q) \cap D = {}})
<1>1. ASSUME NEW l \in LineIds, NEW q \in EndsOf(l)
      PROVE  q \in Nodes /\ l \in LinesAt(q)
  BY DEF Nodes, LinesAt
<1>2. ASSUME NEW l \in LineIds, NEW q \in EndsOf(l), NEW r \in EndsOf(l), LinesAt(q) \subseteq D
      PROVE  LinesAt(r) \subseteq D
  BY <1>1, <1>2 DEF WholeIn
<1>3. ASSUME NEW l \in LineIds, NEW q \in EndsOf(l), NEW r \in EndsOf(l), LinesAt(q) \cap D = {}
      PROVE  LinesAt(r) \cap D = {}
  BY <1>1, <1>3 DEF WholeIn
<1> QED
  BY <1>1, <1>2, <1>3 DEF Keeps

\* The node that a component begins at, and its line.
LEMMA BeginIs ==
  ASSUME LinesTyped, NEW U, U \subseteq LineIds, U # LineIds, WholeIn(U)
  PROVE  LET nodes == Component(FirstOf(Min(LineIds \ U)))
             p == LowestDegreeNode(nodes)
             h == Away(Min(LinesAt(p)), p)
         IN  /\ Min(LineIds \ U) \in LineIds
             /\ nodes \in Seq(Nodes) /\ Keeps(ToSet(nodes)) /\ p \in ToSet(nodes)
             /\ \A x \in ToSet(nodes) : LinesAt(x) \cap U = {}
             /\ h \in Halves /\ From(h) = p /\ h[1] \notin U
<1> DEFINE l == Min(LineIds \ U)
           a == FirstOf(l)
           nodes == Component(a)
           p == LowestDegreeNode(nodes)
           k == Min(LinesAt(p))
           h == Away(k, p)
           K == {q \in Nodes : LinesAt(q) \cap U = {}}
<1>1. LineIds \in SUBSET Nat
  <2>1. LineIds = 1..Len(lines) /\ Len(lines) \in Nat
    BY DEF LinesTyped, LineIds
  <2> QED
    BY <2>1
<1>2. l \in LineIds \ U
  BY <1>1, MinIsIn
<1> HIDE DEF l
<1>3. a \in Nodes /\ l \in LinesAt(a)
  BY <1>2 DEF Nodes, EndsOf, LinesAt
<1> HIDE DEF a
<1>4. Keeps(K) /\ a \in K
  <2>1. a \in K
    BY <1>2, <1>3 DEF WholeIn
  <2> QED
    BY <2>1, WholeKeeps
<1>5. nodes \in Seq(Nodes) /\ a \in ToSet(nodes) /\ Keeps(ToSet(nodes)) /\ ToSet(nodes) \subseteq K
  BY <1>3, <1>4, ComponentIs
<1> HIDE DEF nodes, K
<1>6. nodes # <<>>
  BY <1>5 DEF ToSet
<1>7. p \in ToSet(nodes)
  BY <1>5, <1>6, LowestIsIn
<1> HIDE DEF p
<1>8. p \in K
  BY <1>5, <1>7
<1>9. p \in Nodes /\ LinesAt(p) \cap U = {}
  BY <1>8 DEF K
<1>10. PICK i \in LineIds : p \in EndsOf(i)
  BY <1>9 DEF Nodes
<1>11. LinesAt(p) \in SUBSET Nat /\ LinesAt(p) # {}
  BY <1>1, <1>10 DEF LinesAt
<1>12. k \in LinesAt(p)
  BY <1>11, MinIsIn
<1> HIDE DEF k
<1>13. k \in LineIds /\ p \in EndsOf(k) /\ k \notin U
  BY <1>9, <1>12 DEF LinesAt
<1>14. h \in Halves /\ h[1] = k /\ From(h) = p
  BY <1>13, AwayFrom
<1>15. \A x \in ToSet(nodes) : LinesAt(x) \cap U = {}
  BY <1>5 DEF K
<1> HIDE DEF h
<1> QED
  BY <1>2, <1>5, <1>7, <1>13, <1>14, <1>15 DEF l, a, nodes, p, k, h

\* Of a trail that is stuck all nodes are still to be searched, or stuck.
LEMMA TrailSearched ==
  ASSUME LinesTyped, NEW U, NEW h, NEW w, IsTrail(w, U, h), NEW V, IsStuck(To(Last(w)), V)
  PROVE  \A i \in DOMAIN w : \A q \in {From(w[i]), To(w[i])} : IsStuck(q, V) \/ \E j \in DOMAIN w : From(w[j]) = q
<1> DEFINE n == Len(w)
<1>1. n \in Nat /\ DOMAIN w = 1..n
  BY DEF IsTrail
<1> HIDE DEF n
<1>2. ASSUME NEW i \in 1..n
      PROVE  IsStuck(To(w[i]), V) \/ \E j \in 1..n : From(w[j]) = To(w[i])
  <2>1. CASE i = n
    BY <2>1 DEF Last, n
  <2>2. CASE i # n
    <3>1. i \in 1..(n - 1) /\ i + 1 \in 1..n
      BY <1>1, <2>2
    <3> QED
      BY <3>1 DEF IsTrail, IsWalk, n
  <2> QED
    BY <2>1, <2>2
<1> QED
  BY <1>1, <1>2

\* A component begins.
LEMMA ComponentBegins ==
  ASSUME LinesTyped, NEW U, NEW S, Held(U, <<>>, 0, S), WholeIn(U),
         NEW nodes \in Seq(Nodes), Keeps(ToSet(nodes)), HasEulerSequence(nodes),
         \A x \in ToSet(nodes) : LinesAt(x) \cap U = {},
         NEW h \in Halves, From(h) \in ToSet(nodes), NEW w, IsTrail(w, U, h),
         IsStuck(To(Last(w)), U \cup LinesOf(w))
  PROVE  /\ Held(U \cup LinesOf(w), w, Len(w), S) /\ Searched(U \cup LinesOf(w), w, Len(w)) /\ w # <<>>
         /\ Degree(From(h)) % 2 = 1 \/ (\A x \in ToSet(nodes) : Degree(x) % 2 = 0) => Goes(U \cup LinesOf(w), w)
<1> DEFINE V == U \cup LinesOf(w)
<1>1. w \in Seq(Halves) /\ w # <<>> /\ LinesOnce(w) /\ LinesOf(w) \cap U = {} /\ IsWalk(w) /\ w[1] = h
  BY DEF IsTrail
<1>2. LinesOf(<<>>) = {}
  BY DEF LinesOf
<1>3. Len(w) \in 0..Len(w) /\ DOMAIN w = 1..Len(w)
  BY <1>1
<1>4. Held(V, w, Len(w), S)
  BY <1>1, <1>2, <1>3 DEF Held
<1>5. Searched(V, w, Len(w))
  BY <1>3, TrailSearched DEF Searched
<1>6. ASSUME Degree(From(h)) % 2 = 1 \/ (\A x \in ToSet(nodes) : Degree(x) % 2 = 0)
      PROVE  Goes(V, w)
  <2>1. \A x \in ToSet(nodes) : ~Odd(V, x)
    BY <1>6, FirstTrailEvens
  <2>2. \A i \in DOMAIN w : From(w[i]) \in ToSet(nodes)
    BY TrailStays
  <2> QED
    BY <1>1, <2>1, <2>2 DEF Goes
<1> QED
  BY <1>1, <1>4, <1>5, <1>6

\* A trail with another one put in before its c-th line.
Spliced(T, w, c) == SubSeq(T, 1, c - 1) \o w \o SubSeq(T, c, Len(T))

LEMMA JoinedAt ==
  ASSUME NEW A, NEW s \in Seq(A), NEW t \in Seq(A)
  PROVE  /\ s \o t \in Seq(A) /\ Len(s \o t) = Len(s) + Len(t) /\ DOMAIN (s \o t) = 1..(Len(s) + Len(t))
         /\ \A i \in 1..(Len(s) + Len(t)) : (s \o t)[i] = IF i <= Len(s) THEN s[i] ELSE t[i - Len(s)]
<1> DEFINE v == s \o t
<1>1. v \in Seq(A) /\ Len(v) = Len(s) + Len(t)
  OBVIOUS
<1>2. \A i \in 1..(Len(s) + Len(t)) : v[i] = IF i <= Len(s) THEN s[i] ELSE t[i - Len(s)]
  OBVIOUS
<1> HIDE DEF v
<1>3. DOMAIN v = 1..(Len(s) + Len(t))
  BY <1>1
<1> QED
  BY <1>1, <1>2, <1>3 DEF v

LEMMA SplicedIs ==
  ASSUME NEW A, NEW T \in Seq(A), NEW w \in Seq(A), NEW c \in 1..Len(T)
  PROVE  /\ Spliced(T, w, c) \in Seq(A) /\ Len(Spliced(T, w, c)) = Len(T) + Len(w)
         /\ DOMAIN Spliced(T, w, c) = 1..(Len(T) + Len(w))
         /\ \A i \in 1..(Len(T) + Len(w)) :
              Spliced(T, w, c)[i] = IF i < c THEN T[i] ELSE IF i < c + Len(w) THEN w[i - c + 1] ELSE T[i - Len(w)]
<1> DEFINE n == Len(T)
           m == Len(w)
           a == SubSeq(T, 1, c - 1)
           b == SubSeq(T, c, n)
           v == a \o w
           s == Spliced(T, w, c)
           k == c - 1
           r == n - c + 1
<1>1. n \in Nat /\ m \in Nat /\ c \in 1..n /\ k \in Nat /\ r \in Nat /\ k + m \in Nat /\ (k + m) + r = n + m
  OBVIOUS
<1>2. a \in Seq(A) /\ Len(a) = k /\ \A i \in 1..k : a[i] = T[i]
  OBVIOUS
<1>3. b \in Seq(A) /\ Len(b) = r /\ \A i \in 1..r : b[i] = T[c + i - 1]
  OBVIOUS
<1>4. s = v \o b
  BY DEF Spliced
<1> HIDE DEF a, b, s, n, m
<1>5. v \in Seq(A) /\ Len(v) = k + m /\ \A i \in 1..(k + m) : v[i] = IF i <= k THEN a[i] ELSE w[i - k]
  <2> HIDE DEF k
  <2>1. a \o w \in Seq(A) /\ Len(a \o w) = Len(a) + Len(w)
    BY <1>2, JoinedAt
  <2>2. \A i \in 1..(Len(a) + Len(w)) : (a \o w)[i] = IF i <= Len(a) THEN a[i] ELSE w[i - Len(a)]
    BY <1>2, JoinedAt
  <2> QED
    BY <1>2, <2>1, <2>2, Zenon DEF m
<1> HIDE DEF v
<1>7. s \in Seq(A) /\ Len(s) = n + m /\ DOMAIN s = 1..(n + m)
      /\ \A i \in 1..(n + m) : s[i] = IF i <= k + m THEN v[i] ELSE b[i - (k + m)]
  <2> DEFINE e == k + m
  <2>1. e \in Nat /\ Len(v) = e /\ e + r = n + m /\ r \in Nat
    BY <1>1, <1>5
  <2> HIDE DEF e, k, r
  <2>2. v \in Seq(A) /\ b \in Seq(A) /\ Len(b) = r /\ Len(v) = e
    BY <1>3, <1>5, <2>1
  <2>4. v \o b \in Seq(A) /\ Len(v \o b) = Len(v) + Len(b) /\ DOMAIN (v \o b) = 1..(Len(v) + Len(b))
    BY <2>2, JoinedAt
  <2>5. \A i \in 1..(Len(v) + Len(b)) : (v \o b)[i] = IF i <= Len(v) THEN v[i] ELSE b[i - Len(v)]
    BY <2>2, JoinedAt
  <2>3. s \in Seq(A) /\ Len(s) = e + r /\ DOMAIN s = 1..(e + r)
        /\ \A i \in 1..(e + r) : s[i] = IF i <= e THEN v[i] ELSE b[i - e]
    BY <1>4, <2>2, <2>4, <2>5, Zenon
  <2> QED
    BY <2>1, <2>3 DEF e
<1>8. ASSUME NEW i \in 1..(n + m)
      PROVE  s[i] = IF i < c THEN T[i] ELSE IF i < c + m THEN w[i - c + 1] ELSE T[i - m]
  <2>1. CASE i < c
    <3>1. i \in 1..k /\ i <= k /\ i \in 1..(k + m) /\ i <= k + m
      BY <1>1, <2>1
    <3> HIDE DEF k
    <3> QED
      BY <1>2, <1>5, <1>7, <2>1, <3>1
  <2>2. CASE ~(i < c) /\ i < c + m
    <3>1. ~(i <= k) /\ i \in 1..(k + m) /\ i <= k + m /\ i - k = i - c + 1
      BY <1>1, <2>2
    <3> HIDE DEF k
    <3> QED
      BY <1>5, <1>7, <2>2, <3>1
  <2>3. CASE ~(i < c) /\ ~(i < c + m)
    <3>1. ~(i <= k + m) /\ i - (k + m) \in 1..r /\ c + (i - (k + m)) - 1 = i - m
      BY <1>1, <2>3
    <3> HIDE DEF k, r
    <3> QED
      BY <1>3, <1>7, <2>3, <3>1
  <2> QED
    BY <2>1, <2>2, <2>3
<1> QED
  BY <1>7, <1>8, Zenon DEF s, n, m

\* The trail from a node with lines left goes in before the line that leaves
\* the node.
LEMMA TrailSpliced ==
  ASSUME LinesTyped, NEW U, NEW T, NEW c, NEW S, Held(U, T, c, S), Searched(U, T, c), c > 0,
         NEW h \in Halves, From(h) = From(T[c]), NEW w, IsTrail(w, U, h), IsStuck(To(Last(w)), U \cup LinesOf(w))
  PROVE  LET V == U \cup LinesOf(w)
             s == Spliced(T, w, c)
         IN  /\ Held(V, s, c + Len(w) - 1, S) /\ Searched(V, s, c + Len(w) - 1)
             /\ Goes(U, T) => Goes(V, s)
<1> DEFINE n == Len(T)
           m == Len(w)
           V == U \cup LinesOf(w)
           s == Spliced(T, w, c)
           old(i) == IF i < c THEN i ELSE i - m
           inOld(i) == i < c \/ ~(i < c + m)
<1>1. /\ w \in Seq(Halves) /\ w # <<>> /\ LinesOnce(w) /\ LinesOf(w) \cap U = {} /\ IsWalk(w) /\ w[1] = h
      /\ T \in Seq(Halves) /\ LinesOnce(T) /\ LinesOf(T) \subseteq U
  BY DEF IsTrail, Held
<1>2. n \in Nat /\ m \in Nat /\ m >= 1 /\ c \in 1..n /\ DOMAIN T = 1..n /\ DOMAIN w = 1..m
  BY <1>1 DEF Held
<1>3. /\ s \in Seq(Halves) /\ Len(s) = n + m /\ DOMAIN s = 1..(n + m)
      /\ \A i \in 1..(n + m) : s[i] = IF i < c THEN T[i] ELSE IF i < c + m THEN w[i - c + 1] ELSE T[i - m]
  <2>1. T \in Seq(Halves) /\ w \in Seq(Halves) /\ c \in 1..Len(T)
    BY <1>1, <1>2
  <2>2. s \in Seq(Halves) /\ Len(s) = n + m /\ DOMAIN s = 1..(n + m)
    BY <2>1, SplicedIs
  <2>3. \A i \in 1..(n + m) : s[i] = IF i < c THEN T[i] ELSE IF i < c + m THEN w[i - c + 1] ELSE T[i - m]
    BY <2>1, SplicedIs
  <2> QED
    BY <2>2, <2>3
<1> HIDE DEF n, m, V, s
<1>4. ASSUME NEW i \in 1..(n + m), inOld(i)
      PROVE  old(i) \in 1..n /\ s[i] = T[old(i)]
  BY <1>2, <1>3, <1>4
<1>5. ASSUME NEW i \in 1..(n + m), ~inOld(i)
      PROVE  i - c + 1 \in 1..m /\ s[i] = w[i - c + 1]
  BY <1>2, <1>3, <1>5
<1>6. ASSUME NEW i \in 1..n
      PROVE  \E j \in 1..(n + m) : inOld(j) /\ old(j) = i /\ s[j] = T[i] /\ (i < c => j = i)
  <2>1. CASE i < c
    <3>1. i \in 1..(n + m)
      BY <1>2
    <3> QED
      BY <1>3, <2>1, <3>1
  <2>2. CASE ~(i < c)
    <3>1. i + m \in 1..(n + m) /\ ~(i + m < c) /\ ~(i + m < c + m) /\ (i + m) - m = i
      BY <1>2, <2>2
    <3> QED
      BY <1>3, <2>2, <3>1
  <2> QED
    BY <2>1, <2>2
<1>7. ASSUME NEW i \in 1..m
      PROVE  /\ i + c - 1 \in 1..(n + m) /\ ~inOld(i + c - 1) /\ s[i + c - 1] = w[i]
             /\ i + c - 1 \in 1..(c + m - 1)
  <2>1. i + c - 1 \in 1..(n + m) /\ ~(i + c - 1 < c) /\ i + c - 1 < c + m /\ (i + c - 1) - c + 1 = i
        /\ i + c - 1 \in 1..(c + m - 1)
    BY <1>2
  <2> QED
    BY <1>3, <2>1
<1>8. LinesOf(s) = LinesOf(T) \cup LinesOf(w)
  <2>1. ASSUME NEW i \in 1..(n + m) PROVE s[i][1] \in LinesOf(T) \cup LinesOf(w)
    <3>1. \A j \in 1..n : T[j][1] \in LinesOf(T)
      BY <1>2 DEF LinesOf
    <3>2. \A j \in 1..m : w[j][1] \in LinesOf(w)
      BY <1>2 DEF LinesOf
    <3>3. CASE inOld(i)
      <4>1. old(i) \in 1..n /\ s[i] = T[old(i)]
        BY <1>4, <3>3
      <4> HIDE DEF old
      <4> QED
        BY <3>1, <4>1
    <3>4. CASE ~inOld(i)
      <4>1. i - c + 1 \in 1..m /\ s[i] = w[i - c + 1]
        BY <1>5, <3>4
      <4> QED
        BY <3>2, <4>1
    <3> QED
      BY <3>3, <3>4
  <2>2. \A l \in LinesOf(s) : l \in LinesOf(T) \cup LinesOf(w)
    BY <1>3, <2>1 DEF LinesOf
  <2>3. \A l \in LinesOf(T) : l \in LinesOf(s)
    <3> SUFFICES ASSUME NEW i \in 1..n PROVE T[i][1] \in LinesOf(s)
      BY <1>2 DEF LinesOf
    <3>1. PICK j \in 1..(n + m) : s[j] = T[i]
      BY <1>6
    <3> QED
      BY <1>3, <3>1 DEF LinesOf
  <2>4. \A l \in LinesOf(w) : l \in LinesOf(s)
    <3> SUFFICES ASSUME NEW i \in 1..m PROVE w[i][1] \in LinesOf(s)
      BY <1>2 DEF LinesOf
    <3>1. i + c - 1 \in DOMAIN s /\ s[i + c - 1] = w[i]
      BY <1>3, <1>7
    <3> QED
      BY <3>1 DEF LinesOf
  <2> QED
    BY <2>2, <2>3, <2>4
<1>9. LinesOnce(s)
  <2> SUFFICES ASSUME NEW i \in 1..(n + m), NEW j \in 1..(n + m), s[i][1] = s[j][1] PROVE i = j
    BY <1>3 DEF LinesOnce
  <2>1. CASE inOld(i) /\ inOld(j)
    <3>1. old(i) \in 1..n /\ old(j) \in 1..n /\ T[old(i)][1] = T[old(j)][1]
      BY <1>4, <2>1
    <3>2. old(i) = old(j)
      <4> HIDE DEF old
      <4> QED
        BY <1>1, <1>2, <3>1 DEF LinesOnce
    <3> QED
      BY <1>2, <2>1, <3>2
  <2>2. CASE ~inOld(i) /\ ~inOld(j)
    <3>1. i - c + 1 \in 1..m /\ j - c + 1 \in 1..m /\ w[i - c + 1][1] = w[j - c + 1][1]
      BY <1>5, <2>2
    <3>2. i - c + 1 = j - c + 1
      BY <1>1, <1>2, <3>1 DEF LinesOnce
    <3> QED
      BY <1>2, <3>2
  <2>3. ASSUME NEW a \in 1..(n + m), NEW b \in 1..(n + m), inOld(a), ~inOld(b), s[a][1] = s[b][1] PROVE FALSE
    <3>1. s[a][1] \in LinesOf(T)
      <4>1. old(a) \in 1..n /\ s[a] = T[old(a)]
        BY <1>4, <2>3
      <4> HIDE DEF old
      <4> QED
        BY <1>2, <4>1 DEF LinesOf
    <3>2. s[b][1] \in LinesOf(w)
      <4>1. b - c + 1 \in 1..m /\ s[b] = w[b - c + 1]
        BY <1>5, <2>3
      <4> QED
        BY <1>2, <4>1 DEF LinesOf
    <3> QED
      BY <1>1, <2>3, <3>1, <3>2
  <2> QED
    BY <2>1, <2>2, <2>3
<1>10. Held(V, s, c + m - 1, S)
  <2>1. c + m - 1 \in 0..(n + m)
    BY <1>2
  <2>2. LinesOf(S) \subseteq U /\ LinesOf(S) \cap LinesOf(T) = {} /\ U = LinesOf(S) \cup LinesOf(T)
        /\ S \in Seq(Halves) /\ LinesOnce(S)
    BY DEF Held
  <2>3. LinesOf(S) \cap LinesOf(s) = {} /\ V = LinesOf(S) \cup LinesOf(s)
    BY <1>1, <1>8, <2>2 DEF V
  <2> QED
    BY <1>3, <1>9, <2>1, <2>2, <2>3 DEF Held
<1>11. Searched(V, s, c + m - 1)
  <2>1. U \subseteq V
    BY DEF V
  <2>2. ASSUME NEW q, IsStuck(q, U) PROVE IsStuck(q, V)
    BY <2>1, <2>2 DEF IsStuck
  <2>3. From(w[1]) = From(T[c]) /\ s[c] = w[1] /\ c \in 1..(c + m - 1)
    <3>1. c \in 1..(n + m) /\ ~(c < c) /\ c < c + m /\ c - c + 1 = 1 /\ c \in 1..(c + m - 1)
      BY <1>2
    <3>2. s[c] = w[1]
      BY <1>3, <3>1
    <3> QED
      BY <1>1, <3>1, <3>2
  <2>4. ASSUME NEW i \in 1..n, NEW q \in {From(T[i]), To(T[i])}
        PROVE  IsStuck(q, V) \/ \E j \in 1..(c + m - 1) : From(s[j]) = q
    <3>1. IsStuck(q, U) \/ \E j \in 1..c : From(T[j]) = q
      BY <1>2 DEF Searched
    <3>2. ASSUME NEW j \in 1..c, From(T[j]) = q PROVE \E k \in 1..(c + m - 1) : From(s[k]) = q
      <4>1. CASE j = c
        BY <2>3, <3>2, <4>1
      <4>2. CASE j # c
        <5>1. j < c /\ j \in 1..(n + m) /\ j \in 1..(c + m - 1)
          BY <1>2, <4>2
        <5>2. s[j] = T[j]
          BY <1>3, <5>1
        <5> QED
          BY <3>2, <5>1, <5>2
      <4> QED
        BY <4>1, <4>2
    <3> QED
      BY <2>2, <3>1, <3>2
  <2>5. ASSUME NEW i \in 1..m, NEW q \in {From(w[i]), To(w[i])}
        PROVE  IsStuck(q, V) \/ \E j \in 1..(c + m - 1) : From(s[j]) = q
    <3>1. IsStuck(q, V) \/ \E j \in 1..m : From(w[j]) = q
      BY <1>2, TrailSearched DEF V
    <3> QED
      BY <1>7, <3>1
  <2>6. ASSUME NEW i \in 1..(n + m), NEW q \in {From(s[i]), To(s[i])}
        PROVE  IsStuck(q, V) \/ \E j \in 1..(c + m - 1) : From(s[j]) = q
    <3>1. CASE inOld(i)
      <4>1. old(i) \in 1..n /\ s[i] = T[old(i)]
        BY <1>4, <3>1
      <4> HIDE DEF old
      <4> QED
        BY <2>4, <2>6, <4>1
    <3>2. CASE ~inOld(i)
      <4>1. i - c + 1 \in 1..m /\ s[i] = w[i - c + 1]
        BY <1>5, <3>2
      <4> QED
        BY <2>5, <2>6, <4>1
    <3> QED
      BY <3>1, <3>2
  <2> QED
    BY <1>3, <2>6 DEF Searched
<1>12. ASSUME Goes(U, T) PROVE Goes(V, s)
  <2>1. PICK K : Keeps(K) /\ (\A i \in 1..n : From(T[i]) \in K) /\ \A x \in K : ~Odd(U, x)
    BY <1>2, <1>12 DEF Goes
  <2>2. IsWalk(T)
    BY <1>12 DEF Goes
  <2>3. From(h) \in K
    BY <1>2, <2>1
  <2>4. \A i \in 1..m : From(w[i]) \in K
    BY <1>2, <2>1, <2>3, TrailStays
  <2>5. To(Last(w)) = From(h) /\ \A x \in K : ~Odd(V, x)
    BY <2>1, <2>3, TrailComesBack DEF V
  <2>6. ASSUME NEW i \in 1..(n + m) PROVE From(s[i]) \in K
    <3>1. CASE inOld(i)
      <4>1. old(i) \in 1..n /\ s[i] = T[old(i)]
        BY <1>4, <3>1
      <4> HIDE DEF old
      <4> QED
        BY <2>1, <4>1
    <3>2. CASE ~inOld(i)
      <4>1. i - c + 1 \in 1..m /\ s[i] = w[i - c + 1]
        BY <1>5, <3>2
      <4> QED
        BY <2>4, <4>1
    <3> QED
      BY <3>1, <3>2
  <2>7. To(w[m]) = From(T[c]) /\ From(w[1]) = From(T[c])
    BY <1>1, <2>5 DEF Last, m
  <2>8. ASSUME NEW i \in 1..((n + m) - 1) PROVE To(s[i]) = From(s[i + 1])
    <3>0. i \in 1..(n + m) /\ i + 1 \in 1..(n + m)
      BY <1>2
    <3>w. ASSUME NEW j \in 1..(n - 1) PROVE To(T[j]) = From(T[j + 1])
      BY <2>2 DEF IsWalk, n
    <3>v. ASSUME NEW j \in 1..(m - 1) PROVE To(w[j]) = From(w[j + 1])
      BY <1>1 DEF IsWalk, m
    <3>1. CASE i + 1 < c
      <4>1. i < c /\ i \in 1..(n - 1)
        BY <1>2, <3>1
      <4>2. s[i] = T[i] /\ s[i + 1] = T[i + 1]
        BY <1>3, <3>0, <3>1, <4>1
      <4> QED
        BY <3>w, <4>1, <4>2
    <3>2. CASE i + 1 = c
      <4>1. i < c /\ ~(i + 1 < c) /\ i + 1 < c + m /\ (i + 1) - c + 1 = 1 /\ i \in 1..(n - 1)
        BY <1>2, <3>2
      <4>2. s[i] = T[i] /\ s[i + 1] = w[1]
        BY <1>3, <3>0, <4>1
      <4> QED
        BY <2>7, <3>w, <3>2, <4>1, <4>2
    <3>3. CASE ~(i < c) /\ i + 1 < c + m
      <4>1. i < c + m /\ ~(i + 1 < c) /\ i - c + 1 \in 1..(m - 1) /\ (i + 1) - c + 1 = (i - c + 1) + 1
        BY <1>2, <3>3
      <4>2. s[i] = w[i - c + 1] /\ s[i + 1] = w[(i - c + 1) + 1]
        BY <1>3, <3>0, <3>3, <4>1
      <4> QED
        BY <3>v, <4>1, <4>2
    <3>4. CASE i + 1 = c + m
      <4>1. ~(i < c) /\ i < c + m /\ i - c + 1 = m /\ ~(i + 1 < c) /\ ~(i + 1 < c + m) /\ (i + 1) - m = c
        BY <1>2, <3>4
      <4>2. s[i] = w[m] /\ s[i + 1] = T[c]
        BY <1>3, <3>0, <4>1
      <4> QED
        BY <2>7, <4>2
    <3>5. CASE ~(i < c + m)
      <4>1. ~(i < c) /\ ~(i + 1 < c) /\ ~(i + 1 < c + m) /\ i - m \in 1..(n - 1) /\ (i + 1) - m = (i - m) + 1
        BY <1>2, <3>5
      <4>2. s[i] = T[i - m] /\ s[i + 1] = T[(i - m) + 1]
        BY <1>3, <3>0, <3>5, <4>1
      <4> QED
        BY <3>w, <4>1, <4>2
    <3> QED
      BY <1>2, <3>1, <3>2, <3>3, <3>4, <3>5
  <2>9. IsWalk(s)
    BY <1>3, <2>8 DEF IsWalk
  <2> QED
    BY <1>3, <2>1, <2>5, <2>6, <2>9 DEF Goes
<1> QED
  BY <1>10, <1>11, <1>12 DEF V, s, m

\* The search goes on to the line before.
LEMMA CursorGoesBack ==
  ASSUME NEW U, NEW T, NEW c, NEW S, Held(U, T, c, S), Searched(U, T, c), c > 0, IsStuck(From(T[c]), U)
  PROVE  Held(U, T, c - 1, S) /\ Searched(U, T, c - 1)
<1>1. Len(T) \in Nat /\ c \in 1..Len(T)
  BY DEF Held
<1>2. c - 1 \in 0..Len(T)
  BY <1>1
<1>3. ASSUME NEW i \in DOMAIN T, NEW q \in {From(T[i]), To(T[i])}
      PROVE  IsStuck(q, U) \/ \E j \in 1..(c - 1) : From(T[j]) = q
  <2>1. IsStuck(q, U) \/ \E j \in 1..c : From(T[j]) = q
    BY <1>3 DEF Searched
  <2>2. ASSUME NEW j \in 1..c, From(T[j]) = q PROVE IsStuck(q, U) \/ \E k \in 1..(c - 1) : From(T[k]) = q
    <3>1. CASE j = c
      BY <2>2, <3>1
    <3>2. CASE j # c
      <4>1. j \in 1..(c - 1)
        BY <1>1, <3>2
      <4> QED
        BY <2>2, <4>1
    <3> QED
      BY <3>1, <3>2
  <2> QED
    BY <2>1, <2>2
<1> QED
  BY <1>2, <1>3 DEF Held, Searched

\* buildLines keeps the nodes of a line.
LEMMA BuiltIs ==
  ASSUME LinesTyped, NEW h \in Halves
  PROVE  Built(h) \in Halves /\ Built(h)[1] = h[1] /\ From(Built(h)) = From(h) /\ To(Built(h)) = To(h)
<1>1. CASE IsClosed(h[1])
  <2>1. h[1] \in LineIds /\ <<h[1], FALSE>> \in Halves /\ Built(h) = <<h[1], FALSE>> /\ Built(h)[1] = h[1]
    BY <1>1 DEF Built, Halves
  <2>2. \A p, q \in EndsOf(h[1]) : p = q
    BY <1>1 DEF IsClosed, EndsOf
  <2>3. {From(h), To(h)} = EndsOf(h[1]) /\ {From(Built(h)), To(Built(h))} = EndsOf(h[1])
    BY <2>1, TwinOf
  <2> QED
    BY <2>1, <2>2, <2>3
<1>2. CASE ~IsClosed(h[1])
  BY <1>2 DEF Built
<1> QED
  BY <1>1, <1>2

\* The trail as it is written, in one of its directions.
Written(T) == [i \in DOMAIN T |-> Built(T[i])]

LEMMA WrittenIs ==
  ASSUME LinesTyped, NEW T \in Seq(Halves), LinesOnce(T)
  PROVE  /\ Written(T) \in Seq(Halves) /\ Len(Written(T)) = Len(T)
         /\ LinesOnce(Written(T)) /\ LinesOf(Written(T)) = LinesOf(T)
         /\ IsWalk(T) => IsWalk(Written(T))
<1> DEFINE n == Len(T)
           v == Written(T)
<1>1. n \in Nat /\ DOMAIN T = 1..n /\ \A i \in 1..n : T[i] \in Halves
  OBVIOUS
<1>2. v = [i \in 1..n |-> Built(T[i])]
  BY <1>1 DEF Written
<1> HIDE DEF n, v
<1>3. ASSUME NEW i \in 1..n
      PROVE  v[i] \in Halves /\ v[i][1] = T[i][1] /\ From(v[i]) = From(T[i]) /\ To(v[i]) = To(T[i])
  BY <1>1, <1>2, BuiltIs
<1>4. v \in Seq(Halves) /\ Len(v) = n /\ DOMAIN v = 1..n
  <2>1. \A i \in 1..n : Built(T[i]) \in Halves
    BY <1>1, BuiltIs
  <2> QED
    BY <1>1, <1>2, <2>1
<1>5. LinesOnce(v)
  BY <1>1, <1>3, <1>4 DEF LinesOnce
<1>6. LinesOf(v) = LinesOf(T)
  BY <1>1, <1>3, <1>4 DEF LinesOf
<1>7. ASSUME IsWalk(T) PROVE IsWalk(v)
  <2> SUFFICES ASSUME NEW i \in 1..(n - 1) PROVE To(v[i]) = From(v[i + 1])
    BY <1>4 DEF IsWalk
  <2>1. i \in 1..n /\ i + 1 \in 1..n
    BY <1>1
  <2>2. To(T[i]) = From(T[i + 1])
    BY <1>7 DEF IsWalk, n
  <2> QED
    BY <1>3, <2>1, <2>2
<1> QED
  BY <1>4, <1>5, <1>6, <1>7 DEF v, n

\* Two walks without a line in common, one after the other.
LEMMA LinesJoined ==
  ASSUME NEW S \in Seq(Halves), NEW V \in Seq(Halves), LinesOnce(S), LinesOnce(V), LinesOf(S) \cap LinesOf(V) = {}
  PROVE  S \o V \in Seq(Halves) /\ LinesOnce(S \o V) /\ LinesOf(S \o V) = LinesOf(S) \cup LinesOf(V)
<1> DEFINE n == Len(S)
           m == Len(V)
           s == S \o V
<1>1. n \in Nat /\ m \in Nat /\ DOMAIN S = 1..n /\ DOMAIN V = 1..m
  OBVIOUS
<1>2. s \in Seq(Halves) /\ DOMAIN s = 1..(n + m)
  BY JoinedAt
<1>3. \A i \in 1..(n + m) : s[i] = IF i <= n THEN S[i] ELSE V[i - n]
  BY JoinedAt
<1> HIDE DEF n, m, s
<1>4. ASSUME NEW i \in 1..(n + m), i <= n
      PROVE  i \in 1..n /\ s[i] = S[i] /\ s[i][1] \in LinesOf(S)
  <2>1. i \in 1..n /\ s[i] = S[i]
    BY <1>1, <1>3, <1>4
  <2> QED
    BY <1>1, <2>1 DEF LinesOf
<1>5. ASSUME NEW i \in 1..(n + m), ~(i <= n)
      PROVE  i - n \in 1..m /\ s[i] = V[i - n] /\ s[i][1] \in LinesOf(V)
  <2>1. i - n \in 1..m /\ s[i] = V[i - n]
    BY <1>1, <1>3, <1>5
  <2> QED
    BY <1>1, <2>1 DEF LinesOf
<1>6. LinesOnce(s)
  <2> SUFFICES ASSUME NEW i \in 1..(n + m), NEW j \in 1..(n + m), s[i][1] = s[j][1] PROVE i = j
    BY <1>2 DEF LinesOnce
  <2>1. CASE i <= n /\ j <= n
    BY <1>1, <1>4, <2>1 DEF LinesOnce
  <2>2. CASE ~(i <= n) /\ ~(j <= n)
    <3>1. i - n \in 1..m /\ j - n \in 1..m /\ V[i - n][1] = V[j - n][1]
      BY <1>5, <2>2
    <3>2. i - n = j - n
      BY <1>1, <3>1 DEF LinesOnce
    <3> QED
      BY <1>1, <3>2
  <2>3. CASE i <= n /\ ~(j <= n)
    BY <1>4, <1>5, <2>3
  <2>4. CASE ~(i <= n) /\ j <= n
    BY <1>4, <1>5, <2>4
  <2> QED
    BY <2>1, <2>2, <2>3, <2>4
<1>7. LinesOf(s) = LinesOf(S) \cup LinesOf(V)
  <2>1. \A l \in LinesOf(s) : l \in LinesOf(S) \cup LinesOf(V)
    <3> SUFFICES ASSUME NEW i \in 1..(n + m) PROVE s[i][1] \in LinesOf(S) \cup LinesOf(V)
      BY <1>2 DEF LinesOf
    <3> QED
      BY <1>4, <1>5
  <2>2. \A l \in LinesOf(S) : l \in LinesOf(s)
    <3> SUFFICES ASSUME NEW i \in 1..n PROVE S[i][1] \in LinesOf(s)
      BY <1>1 DEF LinesOf
    <3>1. i \in 1..(n + m) /\ i <= n
      BY <1>1
    <3>2. s[i] = S[i]
      BY <1>4, <3>1
    <3> QED
      BY <1>2, <3>1, <3>2 DEF LinesOf
  <2>3. \A l \in LinesOf(V) : l \in LinesOf(s)
    <3> SUFFICES ASSUME NEW i \in 1..m PROVE V[i][1] \in LinesOf(s)
      BY <1>1 DEF LinesOf
    <3>1. n + i \in 1..(n + m) /\ ~(n + i <= n) /\ (n + i) - n = i
      BY <1>1
    <3>2. s[n + i] = V[i]
      BY <1>3, <3>1
    <3> QED
      BY <1>2, <3>1, <3>2 DEF LinesOf
  <2> QED
    BY <2>1, <2>2, <2>3
<1> QED
  BY <1>2, <1>6, <1>7 DEF s

\* When the search is over, no node of the trail has a line left.
LEMMA SearchDone ==
  ASSUME LinesTyped, NEW U, NEW T, NEW S, Held(U, T, 0, S), Searched(U, T, 0), WholeIn(LinesOf(S))
  PROVE  WholeIn(U)
<1> DEFINE D == LinesOf(S)
           E == LinesOf(T)
<1>1. U = D \cup E /\ T \in Seq(Halves)
  BY DEF Held
<1> HIDE DEF D
<1>2. ASSUME NEW q, NEW l \in LinesAt(q), l \in E
      PROVE  LinesAt(q) \subseteq U
  <2>1. PICK i \in DOMAIN T : l = T[i][1]
    BY <1>2 DEF LinesOf
  <2>2. T[i] \in Halves
    BY <1>1, <2>1
  <2>3. q \in EndsOf(T[i][1])
    BY <1>2, <2>1 DEF LinesAt
  <2>4. q \in {From(T[i]), To(T[i])}
    BY <2>2, <2>3, TwinOf
  <2>5. IsStuck(q, U)
    BY <2>1, <2>4 DEF Searched
  <2> QED
    BY <2>5 DEF IsStuck
<1>3. ASSUME NEW q, NEW l \in LinesAt(q), l \in D
      PROVE  LinesAt(q) \subseteq U
  BY <1>1, <1>3 DEF WholeIn, D
<1> QED
  BY <1>1, <1>2, <1>3 DEF WholeIn

\* The components of a line that is whole and of one that is not are apart.
LEMMA PartsAreApart ==
  ASSUME LinesTyped, NEW D, WholeIn(D), NEW g \in Halves, g[1] \in D, NEW h \in Halves, h[1] \notin D
  PROVE  ToSet(Component(From(g))) \cap ToSet(Component(From(h))) = {}
<1> DEFINE K == {q \in Nodes : LinesAt(q) \subseteq D}
           M == {q \in Nodes : LinesAt(q) \cap D = {}}
<1>1. ASSUME NEW e \in Halves
      PROVE  e[1] \in LinesAt(From(e)) /\ From(e) \in Nodes
  <2>1. e[1] \in LineIds /\ From(e) \in EndsOf(e[1])
    BY TwinOf DEF Halves
  <2> QED
    BY <2>1 DEF LinesAt, Nodes
<1>2. From(g) \in K
  BY <1>1 DEF WholeIn
<1>3. From(h) \in M
  BY <1>1 DEF WholeIn
<1>4. Keeps(K) /\ Keeps(M)
  BY WholeKeeps
<1>5. K \cap M = {}
  <2> SUFFICES ASSUME NEW q \in Nodes, LinesAt(q) \subseteq D, LinesAt(q) \cap D = {} PROVE FALSE
    OBVIOUS
  <2>1. LinesAt(q) # {}
    BY DEF Nodes, LinesAt
  <2> QED
    BY <2>1
<1> HIDE DEF K, M
<1>6. ToSet(Component(From(g))) \subseteq K
  BY <1>1, <1>2, <1>4, ComponentIs
<1>7. ToSet(Component(From(h))) \subseteq M
  BY <1>1, <1>3, <1>4, ComponentIs
<1> QED
  BY <1>5, <1>6, <1>7

\* A sequence that runs on does so with the walk of another component.
LEMMA RunsOn ==
  ASSUME LinesTyped, NEW S \in Seq(Halves), NEW V \in Seq(Halves), SeqRuns(S), IsWalk(V),
         WholeIn(LinesOf(S)), LinesOf(S) \cap LinesOf(V) = {}
  PROVE  SeqRuns(S \o V)
<1> DEFINE n == Len(S)
           m == Len(V)
           s == S \o V
           runs(g, h) == \/ To(g) = From(h)
                         \/ ToSet(Component(From(g))) \cap ToSet(Component(From(h))) = {}
<1>1. n \in Nat /\ m \in Nat /\ DOMAIN S = 1..n /\ DOMAIN V = 1..m
  OBVIOUS
<1>2. s \in Seq(Halves) /\ Len(s) = n + m
  BY JoinedAt
<1>3. \A i \in 1..(n + m) : s[i] = IF i <= n THEN S[i] ELSE V[i - n]
  BY JoinedAt
<1>4. \A i \in 1..(n - 1) : runs(S[i], S[i + 1])
  BY DEF SeqRuns
<1>5. \A i \in 1..(m - 1) : To(V[i]) = From(V[i + 1])
  BY DEF IsWalk
<1>6. ASSUME n \in 1..n, 1 \in 1..m
      PROVE  runs(S[n], V[1])
  <2>1. S[n] \in Halves /\ S[n][1] \in LinesOf(S)
    BY <1>1, <1>6 DEF LinesOf
  <2>2. V[1] \in Halves /\ V[1][1] \in LinesOf(V)
    BY <1>1, <1>6 DEF LinesOf
  <2> QED
    BY <2>1, <2>2, PartsAreApart
<1> HIDE DEF n, m, s, runs
<1>7. ASSUME NEW i \in 1..((n + m) - 1)
      PROVE  runs(s[i], s[i + 1])
  <2>0. i \in 1..(n + m) /\ i + 1 \in 1..(n + m)
    BY <1>1
  <2>1. CASE i + 1 <= n
    <3>1. i \in 1..(n - 1) /\ i <= n
      BY <1>1, <2>1
    <3> QED
      BY <1>3, <1>4, <2>0, <2>1, <3>1
  <2>2. CASE i = n
    <3>1. i <= n /\ ~(i + 1 <= n) /\ (i + 1) - n = 1 /\ n \in 1..n /\ 1 \in 1..m
      BY <1>1, <2>2
    <3>2. s[i] = S[n] /\ s[i + 1] = V[1]
      BY <1>3, <2>0, <2>2, <3>1
    <3> QED
      BY <1>6, <3>1, <3>2
  <2>3. CASE i > n
    <3>1. ~(i <= n) /\ ~(i + 1 <= n) /\ (i + 1) - n = (i - n) + 1 /\ i - n \in 1..(m - 1)
      BY <1>1, <2>3
    <3>2. s[i] = V[i - n] /\ s[i + 1] = V[(i - n) + 1]
      BY <1>3, <2>0, <3>1
    <3> QED
      BY <1>5, <3>1, <3>2 DEF runs
  <2> QED
    BY <1>1, <2>1, <2>2, <2>3
<1>8. \A i \in 1..(Len(s) - 1) : runs(s[i], s[i + 1])
  BY <1>2, <1>7
<1> QED
  BY <1>8 DEF SeqRuns, runs, s

\* A component ends.
LEMMA ComponentEnds ==
  ASSUME LinesTyped, NEW U, NEW T, NEW S, Held(U, T, 0, S), Searched(U, T, 0), WholeIn(LinesOf(S)), T # <<>>,
         NEW walk, walk = T \/ walk = Flipped(T)
  PROVE  LET S2 == S \o [i \in DOMAIN walk |-> Built(walk[i])]
         IN  /\ Held(U, <<>>, 0, S2) /\ Searched(U, <<>>, 0) /\ WholeIn(LinesOf(S2))
             /\ SeqRuns(S) /\ IsWalk(T) => SeqRuns(S2)
<1> DEFINE V == Written(walk)
           S2 == S \o V
<1>1. /\ S \in Seq(Halves) /\ LinesOnce(S) /\ T \in Seq(Halves) /\ LinesOnce(T)
      /\ LinesOf(S) \cap LinesOf(T) = {} /\ U = LinesOf(S) \cup LinesOf(T)
  BY DEF Held
<1>2. walk \in Seq(Halves) /\ LinesOnce(walk) /\ LinesOf(walk) = LinesOf(T) /\ (IsWalk(T) => IsWalk(walk))
  <2>1. CASE walk = T
    BY <1>1, <2>1
  <2>2. CASE walk = Flipped(T)
    <3>1. walk = Reversed(T)
      BY <2>2 DEF Flipped, Reversed
    <3> QED
      BY <1>1, <3>1, WalkReversed
  <2> QED
    BY <2>1, <2>2
<1>3. V \in Seq(Halves) /\ LinesOnce(V) /\ LinesOf(V) = LinesOf(T) /\ (IsWalk(T) => IsWalk(V))
  BY <1>2, WrittenIs
<1> HIDE DEF V
<1>4. S2 \in Seq(Halves) /\ LinesOnce(S2) /\ LinesOf(S2) = U
  BY <1>1, <1>3, LinesJoined
<1>5. ASSUME SeqRuns(S), IsWalk(T) PROVE SeqRuns(S2)
  BY <1>1, <1>3, <1>5, RunsOn
<1>6. WholeIn(U)
  BY SearchDone
<1>7. <<>> \in Seq(Halves) /\ Len(<<>>) = 0 /\ LinesOnce(<<>>) /\ LinesOf(<<>>) = {} /\ DOMAIN <<>> = {}
  BY DEF LinesOnce, LinesOf
<1> HIDE DEF S2
<1>8. Held(U, <<>>, 0, S2)
  BY <1>4, <1>7 DEF Held
<1>9. Searched(U, <<>>, 0)
  BY <1>7 DEF Searched
<1>10. S2 = S \o [i \in DOMAIN walk |-> Built(walk[i])]
  BY DEF S2, V, Written
<1> QED
  BY <1>4, <1>5, <1>6, <1>8, <1>9, <1>10

\* All lines once are as many as there are lines.
LEMMA CountIs ==
  ASSUME LinesTyped, NEW S \in Seq(Halves), LinesOnce(S), LinesOf(S) = LineIds
  PROVE  Len(S) = Len(lines) /\ \A l \in LineIds : Places(l, <<S>>) = 1
<1> DEFINE n == Len(S)
           k == Len(lines)
<1>1. n \in Nat /\ k \in Nat /\ DOMAIN S = 1..n /\ LineIds = 1..k
  BY DEF LinesTyped, LineIds
<1>2. n <= k
  BY TrailIsShort
<1>3. \A l \in 1..k : \E i \in 1..n : S[i][1] = l
  BY <1>1 DEF LinesOf
<1>4. \A i, j \in 1..n : S[i][1] = S[j][1] => i = j
  BY <1>1 DEF LinesOnce
<1>5. \A i \in 1..n : S[i][1] \in 1..k
  BY <1>1 DEF Halves
<1> HIDE DEF n, k
<1>6. k <= n
  <2> DEFINE f == [i \in 1..n |-> S[i][1]]
  <2>1. f \in Surjection(1..n, 1..k)
    <3>1. f \in [1..n -> 1..k]
      BY <1>5
    <3>2. \A l \in 1..k : \E i \in 1..n : f[i] = l
      BY <1>3
    <3> QED
      BY <3>1, <3>2 DEF Surjection
  <2>2. IsFiniteSet(1..n) /\ Cardinality(1..n) = n /\ Cardinality(1..k) = k
    BY <1>1, UpTo
  <2> HIDE DEF f
  <2> QED
    BY <2>1, <2>2, FS_Surjection
<1>7. n = k
  BY <1>1, <1>2, <1>6
<1>8. ASSUME NEW l \in LineIds PROVE Places(l, <<S>>) = 1
  <2> DEFINE at == {g \in (DOMAIN <<S>>) \X LineIds : g[2] \in DOMAIN <<S>>[g[1]] /\ <<S>>[g[1]][g[2]][1] = l}
  <2>1. PICK i \in 1..n : S[i][1] = l
    BY <1>1, <1>3
  <2>2. DOMAIN <<S>> = {1} /\ <<S>>[1] = S
    OBVIOUS
  <2>3. at = {<<1, i>>}
    <3>1. <<1, i>> \in at
      BY <1>1, <1>7, <2>1, <2>2
    <3>2. ASSUME NEW g \in at PROVE g = <<1, i>>
      <4>1. g[1] = 1 /\ g[2] \in 1..n /\ S[g[2]][1] = l /\ g = <<g[1], g[2]>>
        BY <1>1, <2>2
      <4>2. g[2] = i
        BY <1>4, <2>1, <4>1
      <4> QED
        BY <4>1, <4>2
    <3> QED
      BY <3>1, <3>2
  <2>4. Cardinality({<<1, i>>}) = 1
    BY FS_Singleton
  <2> QED
    BY <2>3, <2>4 DEF Places
<1> QED
  BY <1>7, <1>8 DEF n, k

\* What is taken is in the trail and the sequence, of a component that is
\* done no line is left, and of the one that is searched none is passed by.
SearchInv(U, T, c, S) ==
    /\ Held(U, T, c, S)
    /\ WholeIn(LinesOf(S))
    /\ Searched(U, T, c)
    /\ WellStarted => SeqRuns(S) /\ (T # <<>> => Goes(U, T))

VerdictInv(U, T, v) ==
    /\ v = "sequenced" => U = LineIds /\ T = <<>>
    /\ v = "not sequenceable" => T = <<>> /\ ~HasEulerSequence(Component(FirstOf(Min(LineIds \ U))))

SequenceInv == LinesTyped /\ SearchInv(used, trail, cursor, sequence) /\ VerdictInv(used, trail, verdict)

\* These say the same of the same lines.
LEMMA SameSearch ==
  ASSUME lines' = lines
  PROVE  /\ SearchInv(used, trail, cursor, sequence)' <=> SearchInv(used', trail', cursor', sequence')
         /\ VerdictInv(used, trail, verdict)' <=> VerdictInv(used', trail', verdict')
<1>1. LineIds' = LineIds /\ Halves' = Halves
  BY DEF LineIds, Halves
<1>2. \A h : From(h)' = From(h) /\ To(h)' = To(h)
  BY DEF From, To, Points
<1>3. \A l : EndsOf(l)' = EndsOf(l) /\ FirstOf(l)' = FirstOf(l)
  BY DEF EndsOf, FirstOf, LastOf
<1>4. \A p : LinesAt(p)' = LinesAt(p)
  BY <1>1, <1>3 DEF LinesAt
<1>5. \A p : Component(p)' = Component(p)
  BY DEF Component, Fresh, FoldLeft, MapThenFoldSet, LineIds, FirstOf, LastOf, Across, EndsOf
<1>6. \A p : Degree(p)' = Degree(p)
  BY <1>1, <1>2 DEF Degree
<1>7. WellStarted' <=> WellStarted
  BY DEF WellStarted, Component, Fresh, FoldLeft, MapThenFoldSet, LineIds, Degree, LowestDegreeNode,
         FirstOf, LastOf, Across, EndsOf, Halves, From, Points
<1>8. \A n : HasEulerSequence(n)' <=> HasEulerSequence(n)
  BY <1>6 DEF HasEulerSequence
<1>9. \A U, x : Odd(U, x)' <=> Odd(U, x)
  BY <1>1, <1>2 DEF Odd, Rest
<1>10. \A K : Keeps(K)' <=> Keeps(K)
  BY <1>1, <1>3 DEF Keeps
<1>11. \A w : IsWalk(w)' <=> IsWalk(w)
  BY <1>2 DEF IsWalk
<1>12. \A q, U : IsStuck(q, U)' <=> IsStuck(q, U)
  BY <1>4 DEF IsStuck
<1>13. Held(used, trail, cursor, sequence)' <=> Held(used', trail', cursor', sequence')
  BY <1>1 DEF Held
<1>14. WholeIn(LinesOf(sequence))' <=> WholeIn(LinesOf(sequence'))
  BY <1>4 DEF WholeIn, LinesOf
<1>15. Searched(used, trail, cursor)' <=> Searched(used', trail', cursor')
  BY <1>2, <1>12 DEF Searched
<1>16. SeqRuns(sequence)' <=> SeqRuns(sequence')
  BY <1>2, <1>5 DEF SeqRuns
<1>17. Goes(used, trail)' <=> Goes(used', trail')
  BY <1>2, <1>9, <1>10, <1>11 DEF Goes
<1>18. VerdictInv(used, trail, verdict)' <=> VerdictInv(used', trail', verdict')
  BY <1>1, <1>3, <1>5, <1>8 DEF VerdictInv
<1> QED
  BY <1>7, <1>13, <1>14, <1>15, <1>16, <1>17, <1>18 DEF SearchInv

\* Nothing is sequenced at first.
LEMMA SequenceStart == Init => SequenceInv
<1> SUFFICES ASSUME Init
             PROVE  SequenceInv
  OBVIOUS
<1>1. LinesTyped
  BY CallsAssumption DEF Init, LinesTyped
<1>2. used = {} /\ trail = <<>> /\ cursor = 0 /\ sequence = <<>> /\ verdict = "running"
  BY DEF Init, SequenceInit
<1>3. <<>> \in Seq(Halves) /\ Len(<<>>) = 0 /\ LinesOnce(<<>>) /\ LinesOf(<<>>) = {} /\ DOMAIN <<>> = {}
  BY DEF LinesOnce, LinesOf
<1>4. Held({}, <<>>, 0, <<>>)
  BY <1>3 DEF Held
<1>5. WholeIn(LinesOf(<<>>)) /\ Searched({}, <<>>, 0)
  BY <1>3 DEF WholeIn, Searched
<1>6. SeqRuns(<<>>)
  <2>1. 1..(Len(<<>>) - 1) = {}
    BY <1>3
  <2> QED
    BY <2>1 DEF SeqRuns
<1>7. SearchInv({}, <<>>, 0, <<>>)
  BY <1>4, <1>5, <1>6 DEF SearchInv
<1>8. VerdictInv({}, <<>>, "running")
  BY DEF VerdictInv
<1> QED
  BY <1>1, <1>2, <1>7, <1>8 DEF SequenceInv

\* A component begins, or has too many odd nodes.
LEMMA ComponentStarted == SequenceInv /\ StartComponent => SequenceInv'
<1> SUFFICES ASSUME SequenceInv, StartComponent
             PROVE  SequenceInv'
  OBVIOUS
<1> DEFINE l == Min(LineIds \ used)
           nodes == Component(FirstOf(l))
           p == LowestDegreeNode(nodes)
           h == Away(Min(LinesAt(p)), p)
           w == Subpath(h)
<1>1. LinesTyped /\ Held(used, trail, cursor, sequence) /\ WholeIn(LinesOf(sequence))
      /\ Searched(used, trail, cursor) /\ (WellStarted => SeqRuns(sequence))
  BY DEF SequenceInv, SearchInv
<1>2. lines' = lines /\ verdict = "running" /\ cursor = 0 /\ trail = <<>> /\ used # LineIds
  BY DEF StartComponent
<1>3. LinesTyped'
  BY <1>1, <1>2, SameLines
<1>4. CASE ~HasEulerSequence(nodes)
  <2>1. used' = used /\ trail' = trail /\ cursor' = cursor /\ sequence' = sequence /\ verdict' = "not sequenceable"
    BY <1>4 DEF StartComponent, NextComponent
  <2>2. VerdictInv(used', trail', verdict')
    BY <1>2, <1>4, <2>1 DEF VerdictInv
  <2>3. SearchInv(used', trail', cursor', sequence')
    BY <2>1 DEF SequenceInv
  <2> QED
    BY <1>2, <1>3, <2>2, <2>3, SameSearch DEF SequenceInv
<1>5. CASE HasEulerSequence(nodes)
  <2>1. trail' = w /\ cursor' = Len(w) /\ used' = used \cup LinesOf(w) /\ sequence' = sequence /\ verdict' = verdict
    BY <1>5 DEF StartComponent, NextComponent
  <2>2. WholeIn(used)
    BY <1>1, <1>2, SearchDone
  <2>3. used \subseteq LineIds
    <3>1. used = LinesOf(sequence) \cup LinesOf(trail) /\ sequence \in Seq(Halves) /\ trail \in Seq(Halves)
      BY <1>1 DEF Held
    <3>2. \A s \in Seq(Halves) : LinesOf(s) \subseteq LineIds
      BY DEF LinesOf, Halves
    <3> QED
      BY <3>1, <3>2
  <2>4. /\ l \in LineIds /\ nodes \in Seq(Nodes) /\ Keeps(ToSet(nodes)) /\ p \in ToSet(nodes)
        /\ \A x \in ToSet(nodes) : LinesAt(x) \cap used = {}
        /\ h \in Halves /\ From(h) = p /\ h[1] \notin used
    BY <1>1, <1>2, <2>2, <2>3, BeginIs
  <2>5. WellStarted => Degree(p) % 2 = 1 \/ \A x \in ToSet(nodes) : Degree(x) % 2 = 0
    BY <2>4 DEF WellStarted
  <2> HIDE DEF l, nodes, p, h
  <2>6. IsTrail(w, used, h) /\ IsStuck(To(Last(w)), used \cup LinesOf(w))
    BY <1>1, <2>4, SubpathIs
  <2> HIDE DEF w
  <2>7. /\ Held(used \cup LinesOf(w), w, Len(w), sequence) /\ Searched(used \cup LinesOf(w), w, Len(w))
        /\ WellStarted => Goes(used \cup LinesOf(w), w)
    <3>1. Held(used, <<>>, 0, sequence)
      BY <1>1, <1>2
    <3> QED
      BY <1>1, <1>5, <2>2, <2>4, <2>5, <2>6, <3>1, ComponentBegins
  <2>8. SearchInv(used', trail', cursor', sequence')
    BY <1>1, <2>1, <2>7 DEF SearchInv
  <2>9. VerdictInv(used', trail', verdict')
    BY <1>2, <2>1 DEF VerdictInv
  <2> QED
    BY <1>2, <1>3, <2>8, <2>9, SameSearch DEF SequenceInv
<1> QED
  BY <1>4, <1>5

\* The search goes back a line, or a trail is put in.
LEMMA SearchWent == SequenceInv /\ Splice => SequenceInv'
<1> SUFFICES ASSUME SequenceInv, Splice
             PROVE  SequenceInv'
  OBVIOUS
<1> DEFINE p == From(trail[cursor])
           h == BestOut(p, used)
           w == Subpath(h)
<1>1. LinesTyped /\ Held(used, trail, cursor, sequence) /\ WholeIn(LinesOf(sequence))
      /\ Searched(used, trail, cursor) /\ (WellStarted => SeqRuns(sequence) /\ (trail # <<>> => Goes(used, trail)))
  BY DEF SequenceInv, SearchInv
<1>2. lines' = lines /\ cursor > 0 /\ sequence' = sequence /\ verdict' = verdict
  BY DEF Splice
<1>3. LinesTyped'
  BY <1>1, <1>2, SameLines
<1>4. trail # <<>> /\ Len(trail) \in Nat /\ cursor \in 1..Len(trail)
  BY <1>1, <1>2 DEF Held
<1>5. VerdictInv(used', trail', verdict')
  <2>1. verdict # "sequenced" /\ verdict # "not sequenceable"
    BY <1>4 DEF SequenceInv, VerdictInv
  <2> QED
    BY <1>2, <2>1 DEF VerdictInv
<1>6. CASE IsStuck(p, used)
  <2>1. cursor' = cursor - 1 /\ trail' = trail /\ used' = used
    BY <1>6 DEF Splice
  <2>2. Held(used, trail, cursor - 1, sequence) /\ Searched(used, trail, cursor - 1)
    BY <1>1, <1>2, <1>6, CursorGoesBack
  <2>3. SearchInv(used', trail', cursor', sequence')
    BY <1>1, <1>2, <2>1, <2>2 DEF SearchInv
  <2> QED
    BY <1>2, <1>3, <1>5, <2>3, SameSearch DEF SequenceInv
<1>7. CASE ~IsStuck(p, used)
  <2>1. /\ trail' = Spliced(trail, w, cursor) /\ cursor' = cursor + Len(w) - 1 /\ used' = used \cup LinesOf(w)
    BY <1>7 DEF Splice, Spliced
  <2>2. h \in Halves /\ From(h) = p /\ h[1] \notin used
    BY <1>1, <1>7, BestOutIs
  <2> HIDE DEF h
  <2>3. IsTrail(w, used, h) /\ IsStuck(To(Last(w)), used \cup LinesOf(w))
    BY <1>1, <2>2, SubpathIs
  <2> HIDE DEF w
  <2>4. /\ Held(used \cup LinesOf(w), Spliced(trail, w, cursor), cursor + Len(w) - 1, sequence)
        /\ Searched(used \cup LinesOf(w), Spliced(trail, w, cursor), cursor + Len(w) - 1)
        /\ Goes(used, trail) => Goes(used \cup LinesOf(w), Spliced(trail, w, cursor))
    BY <1>1, <1>2, <2>2, <2>3, TrailSpliced
  <2>5. SearchInv(used', trail', cursor', sequence')
    BY <1>1, <1>2, <1>4, <2>1, <2>4 DEF SearchInv
  <2> QED
    BY <1>2, <1>3, <1>5, <2>5, SameSearch DEF SequenceInv
<1> QED
  BY <1>6, <1>7

\* A component is done.
LEMMA ComponentDone == SequenceInv /\ FinishComponent => SequenceInv'
<1> SUFFICES ASSUME SequenceInv, FinishComponent
             PROVE  SequenceInv'
  OBVIOUS
<1> DEFINE walk == IF Flips(trail) THEN Flipped(trail) ELSE trail
           S2 == sequence \o [i \in DOMAIN walk |-> Built(walk[i])]
<1>1. LinesTyped /\ Held(used, trail, cursor, sequence) /\ WholeIn(LinesOf(sequence))
      /\ Searched(used, trail, cursor) /\ (WellStarted => SeqRuns(sequence) /\ (trail # <<>> => Goes(used, trail)))
  BY DEF SequenceInv, SearchInv
<1>2. lines' = lines /\ cursor = 0 /\ trail # <<>> /\ sequence' = S2 /\ trail' = <<>>
      /\ used' = used /\ cursor' = cursor /\ verdict' = verdict
  BY DEF FinishComponent
<1>3. LinesTyped'
  BY <1>1, <1>2, SameLines
<1>4. walk = trail \/ walk = Flipped(trail)
  OBVIOUS
<1> HIDE DEF walk
<1>5. /\ Held(used, <<>>, 0, S2) /\ Searched(used, <<>>, 0) /\ WholeIn(LinesOf(S2))
      /\ SeqRuns(sequence) /\ IsWalk(trail) => SeqRuns(S2)
  <2>1. Held(used, trail, 0, sequence) /\ Searched(used, trail, 0)
    BY <1>1, <1>2
  <2> QED
    BY <1>1, <1>2, <1>4, <2>1, ComponentEnds
<1> HIDE DEF S2
<1>6. WellStarted => SeqRuns(S2)
  BY <1>1, <1>2, <1>5 DEF Goes
<1>7. SearchInv(used', trail', cursor', sequence')
  BY <1>2, <1>5, <1>6 DEF SearchInv
<1>8. VerdictInv(used', trail', verdict')
  <2>1. verdict # "sequenced" /\ verdict # "not sequenceable"
    BY <1>2 DEF SequenceInv, VerdictInv
  <2> QED
    BY <1>2, <2>1 DEF VerdictInv
<1> QED
  BY <1>2, <1>3, <1>7, <1>8, SameSearch DEF SequenceInv

\* All lines are taken: they are as many as there are.
LEMMA SequenceDone == SequenceInv /\ FinishSequence => SequenceInv'
<1> SUFFICES ASSUME SequenceInv, FinishSequence
             PROVE  SequenceInv'
  OBVIOUS
<1>1. LinesTyped /\ Held(used, trail, cursor, sequence)
  BY DEF SequenceInv, SearchInv
<1>2. lines' = lines /\ trail = <<>> /\ used = LineIds
      /\ verdict' = (IF Len(sequence) = Len(lines) THEN "sequenced" ELSE "not sequenceable")
      /\ used' = used /\ trail' = trail /\ cursor' = cursor /\ sequence' = sequence
  BY DEF FinishSequence
<1>3. LinesTyped'
  BY <1>1, <1>2, SameLines
<1>4. sequence \in Seq(Halves) /\ LinesOnce(sequence) /\ LinesOf(sequence) = LineIds
  <2>1. LinesOf(<<>>) = {}
    BY DEF LinesOf
  <2> QED
    BY <1>1, <1>2, <2>1 DEF Held
<1>5. Len(sequence) = Len(lines)
  BY <1>1, <1>4, CountIs
<1>6. VerdictInv(used', trail', verdict')
  BY <1>2, <1>5 DEF VerdictInv
<1>7. SearchInv(used', trail', cursor', sequence')
  BY <1>2 DEF SequenceInv
<1> QED
  BY <1>2, <1>3, <1>6, <1>7, SameSearch DEF SequenceInv

\* No other tool touches the sequence.
LEMMA SequenceStays == SequenceInv /\ [Next]_vars => SequenceInv'
<1> SUFFICES ASSUME SequenceInv, [Next]_vars
             PROVE  SequenceInv'
  OBVIOUS
<1>1. ASSUME lines' = lines, UNCHANGED sequenceVars
      PROVE  SequenceInv'
  <2>1. used' = used /\ trail' = trail /\ cursor' = cursor /\ sequence' = sequence /\ verdict' = verdict
    BY <1>1 DEF sequenceVars
  <2>2. SearchInv(used', trail', cursor', sequence') /\ VerdictInv(used', trail', verdict')
    BY <2>1 DEF SequenceInv
  <2> QED
    BY <1>1, <2>2, SameSearch, SameLines DEF SequenceInv
<1>2. CASE Polygonizing
  BY <1>1, <1>2 DEF Polygonizing, RemoveInvalidRingLoops, RemoveDangle, StartTrace, TraceFace, Assemble
<1>3. CASE Merging
  BY <1>1, <1>3 DEF Merging, MergeFromTip, MergeRing, StartChain, GrowChain, EmitChain
<1>4. CASE Sequencing
  BY <1>4, ComponentStarted, SearchWent, ComponentDone, SequenceDone DEF Sequencing
<1>5. CASE Dissolving
  BY <1>1, <1>5 DEF Dissolving, DissolveFromEnd, DissolveRing, Emit
<1>6. CASE NodingLines
  BY <1>1, <1>6 DEF NodingLines, Iterate, Round, RoundAndMerge, RoundFirst, RoundInsert, RoundConverge, RoundMerge,
                    RoundMerged, RoundGuard, MergedOrDone, Snap, SnapVertices, NodeSnapped, SnapAgain, NextPass, End
<1>7. CASE Overlaying
  BY <1>1, <1>7 DEF Overlaying, LinealStart, LinealPass, LinealFinish
<1>8. CASE UNCHANGED vars
  BY <1>1, <1>8 DEF vars
<1> QED
  BY <1>2, <1>3, <1>4, <1>5, <1>6, <1>7, <1>8 DEF Next, Over

\* Whatever the lines: a sequence has each of them once, and runs end to end
\* through each component that begins at an odd node or has none; none is
\* refused but for its odd nodes, and the defensive count of the lines never
\* refuses one.  (linemerge.Sequence.)
THEOREM SequenceKept == Spec => []SequenceRight
<1>1. SequenceInv => SequenceRight
  <2> SUFFICES ASSUME SequenceInv
               PROVE  SequenceRight
    OBVIOUS
  <2>1. LinesTyped /\ Held(used, trail, cursor, sequence) /\ (WellStarted => SeqRuns(sequence))
        /\ VerdictInv(used, trail, verdict)
    BY DEF SequenceInv, SearchInv
  <2>2. ASSUME verdict = "sequenced"
        PROVE  (\A l \in LineIds : Places(l, <<sequence>>) = 1) /\ (WellStarted => RunsEndToEnd)
    <3>1. used = LineIds /\ trail = <<>>
      BY <2>1, <2>2 DEF VerdictInv
    <3>2. LinesOf(<<>>) = {}
      BY DEF LinesOf
    <3>3. sequence \in Seq(Halves) /\ LinesOnce(sequence) /\ LinesOf(sequence) = LineIds
      BY <2>1, <3>1, <3>2 DEF Held
    <3> QED
      BY <2>1, <3>3, CountIs DEF SeqRuns, RunsEndToEnd, Apart
  <2>3. verdict = "not sequenceable" => ~HasEulerSequence(NextComponent)
    BY <2>1 DEF VerdictInv, NextComponent
  <2> QED
    BY <2>2, <2>3 DEF SequenceRight
<1> QED
  BY SequenceStart, SequenceStays, <1>1, PTL DEF Spec

-----------------------------------------------------------------------------
(***************************************************************************)
(* dissolve.Lines: segments.                                               *)
(***************************************************************************)
Grid == Int \X Int

\* Of some points that are no more than k one is before the others.
LEMMA LeastOfMany ==
  ASSUME NEW S \in SUBSET Grid, IsFiniteSet(S), S # {}
  PROVE  LeastPoint(S) \in S
<1> DEFINE HasLeast(T) == \E p \in T : \A q \in T : p = q \/ Before(p, q)
           Good == {k \in Nat : \A T \in SUBSET S : Cardinality(T) = k /\ T # {} => HasLeast(T)}
<1>1. 0 \in Good
  <2> SUFFICES ASSUME NEW T \in SUBSET S, Cardinality(T) = 0, T # {} PROVE FALSE
    OBVIOUS
  <2>1. IsFiniteSet(T)
    BY FS_Subset
  <2> QED
    BY <2>1, FS_EmptySet
<1>2. ASSUME NEW k \in Nat, k \in Good PROVE k + 1 \in Good
  <2> SUFFICES ASSUME NEW T \in SUBSET S, Cardinality(T) = k + 1, T # {} PROVE HasLeast(T)
    OBVIOUS
  <2>1. PICK x \in T : TRUE
    OBVIOUS
  <2> DEFINE R == T \ {x}
  <2>2. IsFiniteSet(T)
    BY FS_Subset
  <2>3. Cardinality(R) = k
    <3>1. Cardinality(R) = Cardinality(T) - 1
      BY <2>1, <2>2, FS_RemoveElement
    <3> QED
      BY <3>1
  <2>4. CASE R = {}
    <3>1. \A q \in T : q = x
      BY <2>4
    <3> QED
      BY <2>1, <3>1
  <2>5. CASE R # {}
    <3>1. PICK p \in R : \A q \in R : p = q \/ Before(p, q)
      BY <1>2, <2>3, <2>5
    <3> HIDE DEF R, HasLeast
    <3>2. x \in Grid /\ p \in Grid /\ p \in T /\ \A q \in T : q = x \/ q \in R
      BY <2>1 DEF R
    <3>3. \A q \in R : q \in Grid
      BY DEF R
    <3>4. x[1] \in Int /\ x[2] \in Int /\ p[1] \in Int /\ p[2] \in Int
      BY <3>2 DEF Grid
    <3>5. CASE Before(x, p)
      <4>1. ASSUME NEW q \in R PROVE Before(x, q)
        <5>1. q[1] \in Int /\ q[2] \in Int
          BY <3>3 DEF Grid
        <5>2. p = q \/ Before(p, q)
          BY <3>1
        <5> QED
          BY <3>4, <3>5, <5>1, <5>2 DEF Before
      <4> QED
        BY <2>1, <3>2, <4>1 DEF HasLeast
    <3>6. CASE ~Before(x, p)
      <4>1. p = x \/ Before(p, x)
        <5>1. x = <<x[1], x[2]>> /\ p = <<p[1], p[2]>>
          BY <3>2 DEF Grid
        <5>2. x[1] = p[1] /\ x[2] = p[2] => p = x
          BY <5>1
        <5>3. (x[1] = p[1] /\ x[2] = p[2]) \/ Before(p, x)
          BY <3>4, <3>6 DEF Before
        <5> QED
          BY <5>2, <5>3
      <4> QED
        BY <3>1, <3>2, <4>1 DEF HasLeast
    <3> QED
      BY <3>5, <3>6
  <2> QED
    BY <2>4, <2>5
<1>3. Nat \subseteq Good
  <2> HIDE DEF Good
  <2> QED
    BY <1>1, <1>2, FromZero
<1>4. Cardinality(S) \in Nat
  BY FS_CardinalityType
<1>5. HasLeast(S)
  BY <1>3, <1>4
<1> QED
  BY <1>5 DEF LeastPoint

\* The segments are finitely many, each of two points.
LEMMA SegmentIs ==
  ASSUME LinesTyped, NEW s \in Edges
  PROVE  \E p, q \in Grid : p # q /\ s = {p, q}
<1>1. PICK l \in LineIds : s \in SegmentSet(lines[l])
  BY DEF Edges
<1>2. lines[l] \in Seq(Grid)
  BY <1>1 DEF LinesTyped, LineIds, Grid
<1> DEFINE w == lines[l]
<1> HIDE DEF w
<1>3. PICK i \in 1..(Len(w) - 1) : w[i] # w[i + 1] /\ s = {w[i], w[i + 1]}
  BY <1>1 DEF SegmentSet, w
<1>4. w \in Seq(Grid)
  BY <1>2 DEF w
<1>5. i \in 1..Len(w) /\ i + 1 \in 1..Len(w)
  BY <1>4
<1>6. w[i] \in Grid /\ w[i + 1] \in Grid
  BY <1>4, <1>5
<1> QED
  BY <1>3, <1>6

\* The elements that a function on a finite set has are finitely many.
LEMMA FiniteRange ==
  ASSUME NEW S, IsFiniteSet(S), NEW f, DOMAIN f = S
  PROVE  IsFiniteSet({f[x] : x \in S})
<1> DEFINE T == {f[x] : x \in S}
           e == [x \in S |-> f[x]]
<1>1. e \in Surjection(S, T)
  BY DEF Surjection
<1> HIDE DEF e
<1> QED
  BY <1>1, FS_Surjection

LEMMA FewSegments ==
  ASSUME LinesTyped
  PROVE  IsFiniteSet(Edges) /\ IsFiniteSet(UNION Edges) /\ UNION Edges \subseteq Grid
<1> DEFINE f == [l \in LineIds |-> SegmentSet(lines[l])]
<1>1. ASSUME NEW l \in LineIds PROVE IsFiniteSet(SegmentSet(lines[l]))
  <2> DEFINE w == lines[l]
             D == {j \in 1..(Len(w) - 1) : w[j] # w[j + 1]}
             g == [i \in D |-> {w[i], w[i + 1]}]
  <2>1. Len(w) - 1 \in Int
    BY DEF LinesTyped, LineIds
  <2>2. IsFiniteSet(1..(Len(w) - 1))
    BY <2>1, FS_Interval
  <2>3. IsFiniteSet(D)
    BY <2>2, FS_Subset
  <2>4. SegmentSet(w) = {g[i] : i \in D}
    BY DEF SegmentSet
  <2> HIDE DEF w
  <2>5. DOMAIN g = D
    OBVIOUS
  <2> HIDE DEF D, g
  <2>6. IsFiniteSet({g[i] : i \in D})
    BY <2>3, <2>5, FiniteRange
  <2> QED
    BY <2>4, <2>6 DEF w
<1>2. Edges = UNION {f[l] : l \in LineIds} /\ DOMAIN f = LineIds
  BY DEF Edges
<1>3. \A T \in {f[l] : l \in LineIds} : IsFiniteSet(T)
  BY <1>1
<1> HIDE DEF f
<1>4. IsFiniteSet({f[l] : l \in LineIds})
  BY <1>2, FinitelyMany, FiniteRange
<1>5. IsFiniteSet(Edges)
  BY <1>2, <1>3, <1>4, FS_UNION
<1>6. \A s \in Edges : IsFiniteSet(s) /\ s \subseteq Grid
  <2> SUFFICES ASSUME NEW s \in Edges PROVE IsFiniteSet(s) /\ s \subseteq Grid
    OBVIOUS
  <2>1. PICK p, q \in Grid : s = {p, q}
    BY SegmentIs
  <2>2. IsFiniteSet({p}) /\ {p, q} = {p} \cup {q}
    BY FS_Singleton
  <2>3. IsFiniteSet({p} \cup {q})
    BY <2>2, FS_AddElement
  <2> QED
    BY <2>1, <2>2, <2>3
<1> QED
  BY <1>5, <1>6, FS_UNION

\* The neighbours of a point among some segments.
LEMMA NeighboursAre ==
  ASSUME LinesTyped, NEW D \in SUBSET Edges, NEW p
  PROVE  /\ \A q : q \in Adjacent(D, p) <=> q # p /\ {p, q} \in D
         /\ IsFiniteSet(Adjacent(D, p)) /\ Adjacent(D, p) \subseteq Grid
<1>1. ASSUME NEW q, q \in Adjacent(D, p) PROVE q # p /\ {p, q} \in D /\ q \in UNION Edges
  <2>1. PICK s \in D : p \in s /\ q \in s /\ q # p
    BY <1>1 DEF Adjacent
  <2>2. PICK a, b \in Grid : s = {a, b}
    BY <2>1, SegmentIs
  <2>3. s = {p, q}
    BY <2>1, <2>2
  <2> QED
    BY <2>1, <2>3
<1>2. ASSUME NEW q, q # p, {p, q} \in D PROVE q \in Adjacent(D, p)
  BY <1>2 DEF Adjacent
<1>3. Adjacent(D, p) \subseteq UNION Edges
  BY <1>1
<1> QED
  BY <1>1, <1>2, <1>3, FewSegments, FS_Subset

\* Of two neighbours there are no others.
LEMMA TwoNeighbours ==
  ASSUME LinesTyped, NEW p, Cardinality(Adjacent(Edges, p)) = 2,
         NEW a \in Adjacent(Edges, p), NEW b \in Adjacent(Edges, p), a # b
  PROVE  Adjacent(Edges, p) = {a, b}
<1> DEFINE S == Adjacent(Edges, p)
<1>1. IsFiniteSet(S) /\ Cardinality(S) = 2
  BY NeighboursAre
<1> HIDE DEF S
<1>2. a \in S /\ b \in S
  BY DEF S
<1>3. ASSUME NEW c \in S, c # a, c # b PROVE FALSE
  <2>1. IsFiniteSet({a}) /\ Cardinality({a}) = 1
    BY FS_Singleton
  <2>2. IsFiniteSet({a} \cup {b}) /\ Cardinality({a} \cup {b}) = 2
    BY <2>1, FS_AddElement
  <2>3. IsFiniteSet(({a} \cup {b}) \cup {c}) /\ Cardinality(({a} \cup {b}) \cup {c}) = 3
    BY <1>3, <2>2, FS_AddElement
  <2>4. ({a} \cup {b}) \cup {c} \in SUBSET S
    BY <1>2
  <2> QED
    BY <1>1, <2>3, <2>4, FS_Subset
<1> QED
  BY <1>2, <1>3 DEF S

\* A node of degree two has another neighbour.
LEMMA OtherNeighbour ==
  ASSUME LinesTyped, NEW p, Cardinality(Adjacent(Edges, p)) = 2, NEW a
  PROVE  \E b \in Adjacent(Edges, p) : b # a
<1> DEFINE S == Adjacent(Edges, p)
<1> SUFFICES ASSUME \A b \in S : b = a PROVE FALSE
  OBVIOUS
<1>1. IsFiniteSet(S) /\ Cardinality(S) = 2
  BY NeighboursAre
<1> HIDE DEF S
<1>2. CASE S = {}
  BY <1>1, <1>2, FS_EmptySet
<1>3. CASE S # {}
  <2>1. S = {a}
    BY <1>3
  <2> QED
    BY <1>1, <2>1, FS_Singleton
<1> QED
  BY <1>2, <1>3

-----------------------------------------------------------------------------
(***************************************************************************)
(* dissolve.Lines: lines through vertices of degree two.                   *)
(***************************************************************************)
Busy(p) == Cardinality(Adjacent(Edges, p)) # 2

Step(w, i) == {w[i], w[i + 1]}

\* Through vertices of degree two along segments, each once and none of W.
Passes(w, W) ==
    /\ w \in Seq(Grid) /\ Len(w) >= 2
    /\ \A i \in 1..(Len(w) - 1) : w[i] # w[i + 1] /\ Step(w, i) \in Edges \ W
    /\ \A i, j \in 1..(Len(w) - 1) : Step(w, i) = Step(w, j) => i = j
    /\ \A i \in 2..(Len(w) - 1) : ~Busy(w[i])

\* Where a line stops.
Stops(w) == Busy(Last(w)) \/ (Len(w) > 2 /\ Last(w) = w[1])

\* Of a vertex of degree two both segments were walked, or none.
Both(W) == \A p : ~Busy(p) => \A a, b \in Adjacent(Edges, p) : {p, a} \in W => {p, b} \in W

LEMMA StepsOf ==
  ASSUME NEW w, NEW W, Passes(w, W)
  PROVE  SegmentSet(w) = {Step(w, i) : i \in 1..(Len(w) - 1)} /\ SegmentSet(w) \subseteq Edges /\ SegmentSet(w) \cap W = {}
  BY DEF Passes, SegmentSet, Step

\* The vertices before and after one on the way are its neighbours.
LEMMA OnTheWay ==
  ASSUME LinesTyped, NEW w, NEW W, Passes(w, W)
  PROVE  /\ \A i \in 1..(Len(w) - 1) : w[i] \in Adjacent(Edges, w[i + 1]) /\ w[i + 1] \in Adjacent(Edges, w[i])
         /\ \A i \in 2..(Len(w) - 1) : w[i - 1] # w[i + 1] /\ Adjacent(Edges, w[i]) = {w[i - 1], w[i + 1]}
<1> DEFINE n == Len(w)
<1>1. n \in Nat
  BY DEF Passes
<1>2. \A i \in 1..(n - 1) : w[i] # w[i + 1] /\ {w[i], w[i + 1]} \in Edges
  BY DEF Passes, Step
<1>3. \A i, j \in 1..(n - 1) : {w[i], w[i + 1]} = {w[j], w[j + 1]} => i = j
  BY DEF Passes, Step
<1>4. \A i \in 2..(n - 1) : Cardinality(Adjacent(Edges, w[i])) = 2
  BY DEF Passes, Busy
<1> HIDE DEF n
<1>5. ASSUME NEW i \in 1..(n - 1)
      PROVE  w[i] \in Adjacent(Edges, w[i + 1]) /\ w[i + 1] \in Adjacent(Edges, w[i])
  <2>1. w[i] # w[i + 1] /\ {w[i], w[i + 1]} \in Edges /\ {w[i + 1], w[i]} \in Edges
    <3>1. {w[i], w[i + 1]} = {w[i + 1], w[i]}
      OBVIOUS
    <3> QED
      BY <1>2, <3>1
  <2> QED
    BY <2>1, NeighboursAre
<1>6. ASSUME NEW i \in 2..(n - 1)
      PROVE  w[i - 1] # w[i + 1] /\ Adjacent(Edges, w[i]) = {w[i - 1], w[i + 1]}
  <2>1. i - 1 \in 1..(n - 1) /\ i \in 1..(n - 1) /\ (i - 1) + 1 = i /\ i - 1 # i
    BY <1>1
  <2>2. w[i - 1] # w[i + 1]
    <3>1. {w[i - 1], w[i]} # {w[i], w[i + 1]}
      BY <1>3, <2>1
    <3> QED
      BY <3>1
  <2>3. w[i - 1] \in Adjacent(Edges, w[i]) /\ w[i + 1] \in Adjacent(Edges, w[i])
    BY <1>5, <2>1
  <2> QED
    BY <1>4, <2>2, <2>3, TwoNeighbours
<1> QED
  BY <1>5, <1>6 DEF n

\* A line that does not stop goes on along a segment that is new.
LEMMA GoesFurther ==
  ASSUME LinesTyped, NEW w, Passes(w, walked), Both(walked), ~Stops(w)
  PROVE  \E q : Extended(w) = Append(w, q) /\ Passes(Append(w, q), walked)
<1> DEFINE n == Len(w)
           p == Last(w)
           a == w[n - 1]
           next == Adjacent(Edges, p) \ {a}
           q == CHOOSE r \in next : TRUE
           v == Append(w, q)
<1>1. n \in Nat /\ n >= 2 /\ w \in Seq(Grid) /\ p = w[n] /\ n - 1 \in 1..(n - 1) /\ (n - 1) + 1 = n
  BY DEF Passes, Last
<1>2. Cardinality(Adjacent(Edges, p)) = 2 /\ ~(n > 2 /\ p = w[1])
  BY DEF Stops, Busy
<1>3. /\ \A i \in 1..(n - 1) : w[i] # w[i + 1] /\ {w[i], w[i + 1]} \in Edges /\ {w[i], w[i + 1]} \notin walked
      /\ \A i, j \in 1..(n - 1) : {w[i], w[i + 1]} = {w[j], w[j + 1]} => i = j
      /\ \A i \in 2..(n - 1) : ~Busy(w[i])
  BY DEF Passes, Step
<1>4. /\ \A i \in 1..(n - 1) : w[i] \in Adjacent(Edges, w[i + 1]) /\ w[i + 1] \in Adjacent(Edges, w[i])
      /\ \A i \in 2..(n - 1) : w[i - 1] # w[i + 1] /\ Adjacent(Edges, w[i]) = {w[i - 1], w[i + 1]}
  BY OnTheWay
<1>5. Extended(w) = IF {p, q} \in walked \cup SegmentSet(w) THEN w ELSE v
  BY <1>2 DEF Extended
<1>6. SegmentSet(w) = {{w[i], w[i + 1]} : i \in 1..(n - 1)}
  BY StepsOf DEF Step
<1> HIDE DEF n
<1>7. a # p /\ a \in Adjacent(Edges, p) /\ {a, p} \notin walked
  BY <1>1, <1>3, <1>4
<1>8. q \in Adjacent(Edges, p) /\ q # a
  BY <1>2, OtherNeighbour
<1> HIDE DEF p, a, q, next, v
<1>9. q # p /\ {p, q} \in Edges /\ q \in Grid
  BY <1>8, NeighboursAre
<1>10. Adjacent(Edges, p) = {a, q}
  BY <1>2, <1>7, <1>8, TwoNeighbours
<1>11. {p, q} \notin walked
  <2>1. {p, q} \in walked => {p, a} \in walked
    BY <1>2, <1>7, <1>8 DEF Both, Busy
  <2>2. {p, a} = {a, p}
    OBVIOUS
  <2> QED
    BY <1>7, <2>1, <2>2
<1>12. ASSUME NEW i \in 1..(n - 1), {p, q} = {w[i], w[i + 1]}
       PROVE  FALSE
  <2>1. a = w[n - 1] /\ p = w[n]
    BY <1>1 DEF a, p
  <2>2. i # n - 1
    <3>1. i = n - 1 => {p, q} = {a, p}
      BY <1>1, <1>12, <2>1
    <3> QED
      BY <1>8, <1>9, <3>1
  <2>3. i < n - 1 /\ n > 2
    BY <1>1, <2>2
  <2>4. ASSUME NEW j \in 2..(n - 1), p = w[j] PROVE FALSE
    <3>1. {a, q} = {w[j - 1], w[j + 1]}
      BY <1>4, <1>10, <2>4
    <3>2. a = w[j - 1] \/ a = w[j + 1]
      BY <3>1
    <3>3. j - 1 \in 1..(n - 1) /\ j \in 1..(n - 1) /\ (j - 1) + 1 = j
      BY <1>1
    <3>4. CASE a = w[j - 1]
      <4>1. {w[j - 1], w[(j - 1) + 1]} = {w[n - 1], w[(n - 1) + 1]}
        BY <1>1, <2>1, <2>4, <3>3, <3>4
      <4>2. j - 1 = n - 1
        BY <1>1, <1>3, <3>3, <4>1
      <4> QED
        BY <1>1, <4>2
    <3>5. CASE a = w[j + 1]
      <4>1. {w[j], w[j + 1]} = {w[n - 1], w[(n - 1) + 1]}
        BY <1>1, <2>1, <2>4, <3>5
      <4>2. j = n - 1
        BY <1>1, <1>3, <3>3, <4>1
      <4> QED
        BY <1>7, <2>1, <2>4, <4>2
    <3> QED
      BY <3>2, <3>4, <3>5
  <2>5. CASE p = w[i]
    <3>1. i # 1
      BY <1>2, <2>3, <2>5
    <3>2. i \in 2..(n - 1)
      BY <1>1, <3>1
    <3> QED
      BY <2>4, <2>5, <3>2
  <2>6. CASE p = w[i + 1]
    <3>1. i + 1 \in 2..(n - 1)
      BY <1>1, <2>3
    <3> QED
      BY <2>4, <2>6, <3>1
  <2>7. p = w[i] \/ p = w[i + 1]
    BY <1>12
  <2> QED
    BY <2>5, <2>6, <2>7
<1>13. Extended(w) = v
  BY <1>5, <1>6, <1>11, <1>12
<1>14. /\ v \in Seq(Grid) /\ Len(v) = n + 1 /\ v[n + 1] = q
       /\ \A i \in 1..n : v[i] = w[i]
  BY <1>1, <1>9 DEF v, n
<1>15. \A i \in 1..((n + 1) - 1) : (i \in 1..(n - 1) /\ v[i] = w[i] /\ v[i + 1] = w[i + 1])
                                   \/ (i = n /\ v[i] = p /\ v[i + 1] = q)
  <2> SUFFICES ASSUME NEW i \in 1..((n + 1) - 1)
               PROVE  (i \in 1..(n - 1) /\ v[i] = w[i] /\ v[i + 1] = w[i + 1]) \/ (i = n /\ v[i] = p /\ v[i + 1] = q)
    OBVIOUS
  <2>1. i \in 1..n
    BY <1>1
  <2>2. CASE i = n
    BY <1>1, <1>14, <2>1, <2>2
  <2>3. CASE i # n
    <3>1. i \in 1..(n - 1) /\ i + 1 \in 1..n
      BY <1>1, <2>1, <2>3
    <3> QED
      BY <1>14, <2>1, <3>1
  <2> QED
    BY <2>2, <2>3
<1>16. ASSUME NEW i \in 1..((n + 1) - 1)
       PROVE  v[i] # v[i + 1] /\ {v[i], v[i + 1]} \in Edges \ walked
  <2>1. CASE i \in 1..(n - 1) /\ v[i] = w[i] /\ v[i + 1] = w[i + 1]
    <3>1. w[i] # w[i + 1] /\ {w[i], w[i + 1]} \in Edges /\ {w[i], w[i + 1]} \notin walked
      BY <1>3, <2>1
    <3>2. {v[i], v[i + 1]} = {w[i], w[i + 1]}
      BY <2>1
    <3> QED
      BY <2>1, <3>1, <3>2
  <2>2. CASE v[i] = p /\ v[i + 1] = q
    <3>1. {v[i], v[i + 1]} = {p, q}
      BY <2>2
    <3> QED
      BY <1>9, <1>11, <2>2, <3>1
  <2> QED
    BY <1>15, <2>1, <2>2
<1>17. ASSUME NEW i \in 1..((n + 1) - 1), NEW j \in 1..((n + 1) - 1), {v[i], v[i + 1]} = {v[j], v[j + 1]}
       PROVE  i = j
  <2>1. CASE i \in 1..(n - 1) /\ j \in 1..(n - 1)
    <3>1. v[i] = w[i] /\ v[i + 1] = w[i + 1] /\ v[j] = w[j] /\ v[j + 1] = w[j + 1]
      <4>1. i # n /\ j # n
        BY <1>1, <2>1
      <4> QED
        BY <1>15, <4>1
    <3> QED
      BY <1>3, <1>17, <2>1, <3>1
  <2>2. CASE i = n /\ j \in 1..(n - 1)
    <3>1. j # n /\ v[n] = p /\ v[n + 1] = q
      BY <1>1, <1>15, <2>2
    <3>2. v[j] = w[j] /\ v[j + 1] = w[j + 1]
      BY <1>15, <3>1
    <3> QED
      BY <1>12, <1>17, <2>2, <3>1, <3>2
  <2>3. CASE j = n /\ i \in 1..(n - 1)
    <3>1. i # n /\ v[n] = p /\ v[n + 1] = q
      BY <1>1, <1>15, <2>3
    <3>2. v[i] = w[i] /\ v[i + 1] = w[i + 1]
      BY <1>15, <3>1
    <3> QED
      BY <1>12, <1>17, <2>3, <3>1, <3>2
  <2>4. CASE i = n /\ j = n
    BY <2>4
  <2> QED
    BY <1>15, <2>1, <2>2, <2>3, <2>4
<1>18. ASSUME NEW i \in 2..((n + 1) - 1)
       PROVE  ~Busy(v[i])
  <2>1. i \in 2..n
    BY <1>1
  <2>2. CASE i = n
    <3>1. v[i] = p
      BY <1>1, <1>15, <2>2
    <3> QED
      BY <1>2, <3>1 DEF Busy
  <2>3. CASE i # n
    <3>1. i \in 2..(n - 1) /\ i \in 1..n
      BY <1>1, <2>1, <2>3
    <3> QED
      BY <1>3, <1>14, <3>1
  <2> QED
    BY <2>2, <2>3
<1>19. Passes(v, walked)
  <2>1. Len(v) >= 2
    BY <1>1, <1>14
  <2> QED
    BY <1>14, <1>16, <1>17, <1>18, <2>1 DEF Passes, Step
<1> QED
  BY <1>13, <1>19 DEF v

\* A line has no more segments than there are.
LEMMA PassesFew ==
  ASSUME LinesTyped, NEW w, NEW W, Passes(w, W)
  PROVE  Len(w) - 1 <= Cardinality(Edges)
<1> DEFINE m == Len(w) - 1
           f == [i \in 1..m |-> Step(w, i)]
           T == {Step(w, i) : i \in 1..m}
<1>1. m \in Nat /\ T \subseteq Edges /\ \A i, j \in 1..m : Step(w, i) = Step(w, j) => i = j
  BY DEF Passes
<1> HIDE DEF m
<1>2. IsFiniteSet(1..m) /\ Cardinality(1..m) = m
  BY <1>1, UpTo
<1>3. f \in Bijection(1..m, T)
  <2>1. f \in [1..m -> T]
    OBVIOUS
  <2>2. \A i, j \in 1..m : f[i] = f[j] => i = j
    BY <1>1
  <2>3. \A s \in T : \E i \in 1..m : f[i] = s
    OBVIOUS
  <2> QED
    BY <2>1, <2>2, <2>3, Fun_IsBij
<1> HIDE DEF f, T
<1>4. Cardinality(T) = m
  <2>1. ExistsBijection(1..m, T)
    BY <1>3 DEF ExistsBijection
  <2> QED
    BY <1>2, <2>1, FS_Bijection
<1>5. Cardinality(T) <= Cardinality(Edges)
  BY <1>1, FewSegments, FS_Subset
<1> QED
  BY <1>4, <1>5 DEF m

\* walkChain walks a line until it stops.
LEMMA ChainPasses ==
  ASSUME LinesTyped, Both(walked), NEW p, NEW q, p # q, {p, q} \in Edges \ walked
  PROVE  LET w == DissolveChain(p, q)
         IN  Passes(w, walked) /\ Stops(w) /\ w[1] = p
<1> DEFINE n == Cardinality(Edges)
           W == {w \in Seq(Grid) : Len(w) >= 2}
           g == [kw \in (1..n) \X W |-> Extended(kw[2])]
           it == CHOOSE it : it = [s \in SUBSET (1..n) |-> IF s = {} THEN <<p, q>> ELSE Extended(it[s \ {Max(s)}])]
<1>1. n \in Nat
  BY FewSegments, FS_CardinalityType
<1>2. DissolveChain(p, q) = it[1..n]
  <2>1. DOMAIN [i \in 1..n |-> i] = 1..n
    OBVIOUS
  <2> QED
    BY <2>1 DEF DissolveChain, FoldLeft, MapThenFoldSet
<1>3. \A w \in W : Extended(w) \in W
  <2> SUFFICES ASSUME NEW w \in W PROVE Extended(w) \in W
    OBVIOUS
  <2> DEFINE e == Last(w)
             next == Adjacent(Edges, e) \ {w[Len(w) - 1]}
             r == CHOOSE r \in next : TRUE
  <2>1. Extended(w) = w \/ (Cardinality(Adjacent(Edges, e)) = 2 /\ Extended(w) = Append(w, r))
    BY DEF Extended
  <2>2. ASSUME Cardinality(Adjacent(Edges, e)) = 2 PROVE Append(w, r) \in W
    <3>1. \E b \in next : TRUE
      BY <2>2, OtherNeighbour
    <3>2. r \in next
      BY <3>1
    <3> HIDE DEF r
    <3>3. r \in Grid
      BY <3>2, NeighboursAre
    <3>4. Append(w, r) \in Seq(Grid) /\ Len(Append(w, r)) = Len(w) + 1
      BY <3>3
    <3> QED
      BY <3>4
  <2> QED
    BY <2>1, <2>2
<1>4. g \in [(1..n) \X W -> W]
  BY <1>3
<1>5. <<p, q>> \in W /\ Passes(<<p, q>>, walked)
  <2>1. PICK a, b \in Grid : {p, q} = {a, b}
    BY SegmentIs
  <2>2. p \in Grid /\ q \in Grid
    BY <2>1
  <2> DEFINE w == <<p, q>>
  <2>3. w \in Seq(Grid) /\ Len(w) = 2 /\ w[1] = p /\ w[2] = q
    BY <2>2
  <2> HIDE DEF w
  <2>4. Passes(w, walked)
    <3>1. 1..(Len(w) - 1) = {1} /\ 2..(Len(w) - 1) = {}
      BY <2>3
    <3>2. \A i \in 1..(Len(w) - 1) : i = 1 /\ w[i] = p /\ w[i + 1] = q /\ Step(w, i) = {p, q}
      <4>1. w[1 + 1] = q
        BY <2>3
      <4>2. Step(w, 1) = {p, q}
        BY <2>3, <4>1 DEF Step
      <4> QED
        BY <2>3, <3>1, <4>1, <4>2
    <3>3. \A i \in 1..(Len(w) - 1) : w[i] # w[i + 1] /\ Step(w, i) \in Edges \ walked
      <4> SUFFICES ASSUME NEW i \in 1..(Len(w) - 1)
                   PROVE  w[i] # w[i + 1] /\ Step(w, i) \in Edges \ walked
        OBVIOUS
      <4>1. w[i] = p /\ w[i + 1] = q /\ Step(w, i) = {p, q}
        BY <3>2
      <4> HIDE DEF it, g, W, n
      <4>2. Step(w, i) \in Edges \ walked
        BY <4>1, Zenon
      <4> QED
        BY <4>1, <4>2, Zenon
    <3>4. \A i, j \in 1..(Len(w) - 1) : Step(w, i) = Step(w, j) => i = j
      BY <3>2
    <3>5. \A i \in 2..(Len(w) - 1) : ~Busy(w[i])
      BY <3>1
    <3> QED
      BY <2>3, <3>3, <3>4, <3>5 DEF Passes
  <2> QED
    BY <2>3, <2>4 DEF w
<1> HIDE DEF W, g, n
<1>6. \E i : i = [s \in SUBSET (1..n) |-> IF s = {} THEN <<p, q>> ELSE Extended(i[s \ {Max(s)}])]
  <2>1. PICK i \in [SUBSET (1..n) -> W] : IsFold(n, <<p, q>>, g, i)
    BY <1>1, <1>4, <1>5, FoldIsThere
  <2>2. \A s \in SUBSET (1..n) : s # {} => g[<<Max(s), i[s \ {Max(s)}]>>] = Extended(i[s \ {Max(s)}])
    <3> SUFFICES ASSUME NEW s \in SUBSET (1..n), s # {}
                 PROVE  g[<<Max(s), i[s \ {Max(s)}]>>] = Extended(i[s \ {Max(s)}])
      OBVIOUS
    <3>1. Max(s) \in 1..n
      BY <1>1, MaxIsIn
    <3>2. i[s \ {Max(s)}] \in W
      BY <2>1
    <3> QED
      BY <3>1, <3>2 DEF g
  <2>3. \A s \in SUBSET (1..n) : (IF s = {} THEN <<p, q>> ELSE g[<<Max(s), i[s \ {Max(s)}]>>])
                                = (IF s = {} THEN <<p, q>> ELSE Extended(i[s \ {Max(s)}]))
    BY <2>2
  <2>4. i = [s \in SUBSET (1..n) |-> IF s = {} THEN <<p, q>> ELSE Extended(i[s \ {Max(s)}])]
    BY <2>1, <2>3, Zenon DEF IsFold
  <2> QED
    BY <2>4
<1>7. it = [s \in SUBSET (1..n) |-> IF s = {} THEN <<p, q>> ELSE Extended(it[s \ {Max(s)}])]
  BY <1>6, Zenon
<1> HIDE DEF it
<1>8. it[1..0] = <<p, q>> /\ \A k \in 1..n : it[1..k] = Extended(it[1..(k - 1)])
  <2>1. 1..0 = {} /\ 1..0 \in SUBSET (1..n)
    OBVIOUS
  <2>2. it[1..0] = <<p, q>>
    BY <1>7, <2>1
  <2>3. ASSUME NEW k \in 1..n PROVE it[1..k] = Extended(it[1..(k - 1)])
    <3>1. 1..k \in SUBSET (1..n) /\ 1..k # {} /\ (1..k) \ {Max(1..k)} = 1..(k - 1)
      BY <1>1, FirstNumbers
    <3> QED
      BY <1>7, <3>1
  <2> QED
    BY <2>2, <2>3
<1> DEFINE right(w) == Passes(w, walked) /\ w[1] = p
           Good == {k \in Nat : k <= n => right(it[1..k]) /\ (Stops(it[1..k]) \/ Len(it[1..k]) = k + 2)}
<1>9. 0 \in Good
  <2>1. <<p, q>>[1] = p /\ Len(<<p, q>>) = 2
    OBVIOUS
  <2> QED
    BY <1>5, <1>8, <2>1
<1>10. ASSUME NEW k \in Nat, k \in Good PROVE k + 1 \in Good
  <2> SUFFICES ASSUME k + 1 <= n
               PROVE  right(it[1..(k + 1)]) /\ (Stops(it[1..(k + 1)]) \/ Len(it[1..(k + 1)]) = k + 3)
    OBVIOUS
  <2> DEFINE w == it[1..k]
  <2>1. right(w) /\ (Stops(w) \/ Len(w) = k + 2)
    BY <1>1, <1>10
  <2>2. it[1..(k + 1)] = Extended(w)
    <3>1. k + 1 \in 1..n /\ (k + 1) - 1 = k
      BY <1>1
    <3> QED
      BY <1>8, <3>1
  <2> HIDE DEF w
  <2>3. CASE Stops(w)
    <3>1. Extended(w) = w
      BY <2>3 DEF Stops, Busy, Extended
    <3> QED
      BY <2>1, <2>2, <2>3, <3>1
  <2>4. CASE ~Stops(w)
    <3>1. PICK r : Extended(w) = Append(w, r) /\ Passes(Append(w, r), walked)
      BY <2>1, <2>4, GoesFurther
    <3>2. Len(w) = k + 2 /\ w \in Seq(Grid)
      BY <2>1, <2>4 DEF Passes
    <3>3. Len(Append(w, r)) = k + 3 /\ Append(w, r)[1] = w[1]
      BY <3>2
    <3> QED
      BY <2>1, <2>2, <3>1, <3>3
  <2> QED
    BY <2>3, <2>4
<1> HIDE DEF Good
<1>11. Nat \subseteq Good
  BY <1>9, <1>10, FromZero
<1>12. right(it[1..n]) /\ (Stops(it[1..n]) \/ Len(it[1..n]) = n + 2)
  BY <1>1, <1>11 DEF Good
<1>13. Len(it[1..n]) - 1 <= n
  BY <1>12, PassesFew DEF n
<1>14. Len(it[1..n]) \in Nat
  BY <1>12 DEF Passes
<1> QED
  BY <1>1, <1>2, <1>12, <1>13, <1>14

\* A line that is walked between ends, or around a ring, leaves no vertex of
\* degree two with one segment walked.
LEMMA WalkKeepsBoth ==
  ASSUME LinesTyped, NEW W, NEW w, Passes(w, W), Both(W), Stops(w),
         Busy(w[1]) \/ (Len(w) > 2 /\ w[1] = Last(w))
  PROVE  Both(W \cup SegmentSet(w))
<1> DEFINE n == Len(w)
           V == W \cup SegmentSet(w)
<1>1. n \in Nat /\ n >= 2 /\ Last(w) = w[n]
  BY DEF Passes, Last
<1>2. SegmentSet(w) = {Step(w, i) : i \in 1..(n - 1)} /\ \A i, j \in 1..(n - 1) : Step(w, i) = Step(w, j) => i = j
  BY StepsOf DEF Passes
<1>3. /\ \A i \in 1..(n - 1) : w[i] \in Adjacent(Edges, w[i + 1]) /\ w[i + 1] \in Adjacent(Edges, w[i])
      /\ \A i \in 2..(n - 1) : w[i - 1] # w[i + 1] /\ Adjacent(Edges, w[i]) = {w[i - 1], w[i + 1]}
  BY OnTheWay
<1>4. /\ Busy(w[1]) \/ (n > 2 /\ w[1] = w[n])
      /\ Busy(w[n]) \/ (n > 2 /\ w[1] = w[n])
  BY <1>1 DEF Stops
<1> HIDE DEF n
<1>5. ASSUME NEW x, ~Busy(x), NEW a \in Adjacent(Edges, x), NEW b \in Adjacent(Edges, x), {x, a} \in V
      PROVE  {x, b} \in V
  <2>1. CASE {x, a} \in W
    BY <1>5, <2>1 DEF Both
  <2>2. ASSUME NEW j \in 2..(n - 1), x = w[j] PROVE {x, b} \in V
    <3>1. b = w[j - 1] \/ b = w[j + 1]
      BY <1>3, <2>2
    <3>2. j - 1 \in 1..(n - 1) /\ j \in 1..(n - 1) /\ (j - 1) + 1 = j
      BY <1>1
    <3>3. {x, w[j + 1]} = Step(w, j)
      BY <2>2 DEF Step
    <3>4. {x, w[j - 1]} = Step(w, j - 1)
      BY <2>2, <3>2 DEF Step
    <3>5. Step(w, j) \in SegmentSet(w) /\ Step(w, j - 1) \in SegmentSet(w)
      BY <1>2, <3>2
    <3> QED
      BY <3>1, <3>3, <3>4, <3>5
  <2>3. ASSUME x = w[1] \/ x = w[n] PROVE {x, b} \in V
    <3>1. n > 2 /\ x = w[1] /\ x = w[n]
      BY <1>4, <1>5, <2>3
    <3>2. 1 \in 1..(n - 1) /\ n - 1 \in 1..(n - 1) /\ 1 # n - 1 /\ 1 + 1 = 2 /\ (n - 1) + 1 = n
      BY <1>1, <3>1
    <3>3. {x, w[2]} = Step(w, 1)
      BY <3>1, <3>2 DEF Step
    <3>4. {x, w[n - 1]} = Step(w, n - 1)
      BY <3>1, <3>2 DEF Step
    <3>5. Step(w, 1) # Step(w, n - 1)
      BY <1>2, <3>2
    <3>6. w[2] # w[n - 1]
      BY <3>3, <3>4, <3>5
    <3>7. w[2] \in Adjacent(Edges, x) /\ w[n - 1] \in Adjacent(Edges, x)
      <4>1. w[1 + 1] \in Adjacent(Edges, w[1]) /\ w[n - 1] \in Adjacent(Edges, w[(n - 1) + 1])
        BY <1>3, <3>2
      <4> QED
        BY <3>1, <3>2, <4>1
    <3>8. Cardinality(Adjacent(Edges, x)) = 2
      BY <1>5 DEF Busy
    <3>9. Adjacent(Edges, x) = {w[2], w[n - 1]}
      BY <3>6, <3>7, <3>8, TwoNeighbours
    <3>10. Step(w, 1) \in SegmentSet(w) /\ Step(w, n - 1) \in SegmentSet(w)
      BY <1>2, <3>2
    <3> QED
      BY <3>3, <3>4, <3>9, <3>10
  <2>4. CASE {x, a} \in SegmentSet(w)
    <3>1. PICK i \in 1..(n - 1) : {x, a} = Step(w, i)
      BY <1>2, <2>4
    <3>2. x = w[i] \/ x = w[i + 1]
      BY <3>1 DEF Step
    <3>3. (i = 1 \/ i \in 2..(n - 1)) /\ (i + 1 = n \/ i + 1 \in 2..(n - 1))
      BY <1>1
    <3> QED
      BY <2>2, <2>3, <3>2, <3>3
  <2> QED
    BY <1>5, <2>1, <2>4
<1> QED
  BY <1>5 DEF Both

-----------------------------------------------------------------------------
(***************************************************************************)
(* dissolve.Lines: what is walked, and the lines it makes.                 *)
(***************************************************************************)
DissolvedInv(W, D) ==
    /\ D \in Seq(Seq(Grid))
    /\ Both(W)
    /\ \A i \in DOMAIN D : Passes(D[i], {}) /\ (D[i][1] # Last(D[i]) => Busy(D[i][1]) /\ Busy(Last(D[i])))
    /\ W = UNION {SegmentSet(D[i]) : i \in DOMAIN D}
    /\ \A i, j \in DOMAIN D : i # j => SegmentSet(D[i]) \cap SegmentSet(D[j]) = {}

DissolveInv == LinesTyped /\ DissolvedInv(walked, dissolved)

\* One more line.
LEMMA OneMoreLine ==
  ASSUME LinesTyped, NEW W, NEW D, DissolvedInv(W, D),
         NEW w, Passes(w, W), Stops(w), Busy(w[1]) \/ (Len(w) > 2 /\ w[1] = Last(w))
  PROVE  DissolvedInv(W \cup SegmentSet(w), Append(D, w))
<1> DEFINE E == Append(D, w)
           n == Len(D)
<1>1. D \in Seq(Seq(Grid)) /\ w \in Seq(Grid) /\ DOMAIN D = 1..n /\ n \in Nat
  BY DEF DissolvedInv, Passes
<1>2. E \in Seq(Seq(Grid)) /\ DOMAIN E = 1..(n + 1) /\ E[n + 1] = w /\ \A i \in 1..n : E[i] = D[i]
  BY <1>1
<1>3. Both(W \cup SegmentSet(w))
  BY WalkKeepsBoth DEF DissolvedInv
<1>4. Passes(w, {}) /\ (w[1] # Last(w) => Busy(w[1]) /\ Busy(Last(w)))
  <2>1. Passes(w, {})
    BY DEF Passes
  <2>2. w[1] # Last(w) => Busy(w[1]) /\ Busy(Last(w))
    BY DEF Stops
  <2> QED
    BY <2>1, <2>2
<1>5. /\ \A i \in 1..n : Passes(D[i], {}) /\ (D[i][1] # Last(D[i]) => Busy(D[i][1]) /\ Busy(Last(D[i])))
      /\ W = UNION {SegmentSet(D[i]) : i \in 1..n}
      /\ \A i, j \in 1..n : i # j => SegmentSet(D[i]) \cap SegmentSet(D[j]) = {}
  BY <1>1 DEF DissolvedInv
<1>6. SegmentSet(w) \cap W = {}
  BY StepsOf
<1> HIDE DEF E, n
<1>7. \A i \in 1..(n + 1) : i \in 1..n \/ i = n + 1
  BY <1>1
<1>8. \A i \in 1..(n + 1) : Passes(E[i], {}) /\ (E[i][1] # Last(E[i]) => Busy(E[i][1]) /\ Busy(Last(E[i])))
  BY <1>2, <1>4, <1>5, <1>7
<1>9. W \cup SegmentSet(w) = UNION {SegmentSet(E[i]) : i \in 1..(n + 1)}
  <2>1. n + 1 \in 1..(n + 1) /\ \A i \in 1..n : i \in 1..(n + 1)
    BY <1>1
  <2>2. ASSUME NEW s \in W \cup SegmentSet(w) PROVE \E i \in 1..(n + 1) : s \in SegmentSet(E[i])
    BY <1>2, <1>5, <2>1
  <2>3. ASSUME NEW i \in 1..(n + 1), NEW s \in SegmentSet(E[i]) PROVE s \in W \cup SegmentSet(w)
    BY <1>2, <1>5, <1>7
  <2> QED
    BY <2>2, <2>3
<1>10. ASSUME NEW i \in 1..(n + 1), NEW j \in 1..(n + 1), i # j
       PROVE  SegmentSet(E[i]) \cap SegmentSet(E[j]) = {}
  <2>1. \A k \in 1..n : SegmentSet(E[k]) \subseteq W
    BY <1>2, <1>5
  <2>2. CASE i \in 1..n /\ j \in 1..n
    BY <1>2, <1>5, <1>10, <2>2
  <2>3. CASE i \in 1..n /\ j = n + 1
    BY <1>2, <1>6, <2>1, <2>3
  <2>4. CASE j \in 1..n /\ i = n + 1
    BY <1>2, <1>6, <2>1, <2>4
  <2> QED
    BY <1>7, <1>10, <2>2, <2>3, <2>4
<1> QED
  BY <1>2, <1>3, <1>8, <1>9, <1>10 DEF DissolvedInv, E

\* These say the same of the same lines.
LEMMA SameDissolve ==
  ASSUME lines' = lines
  PROVE  DissolvedInv(walked, dissolved)' <=> DissolvedInv(walked', dissolved')
<1>1. \A w : SegmentSet(w)' = SegmentSet(w)
  BY DEF SegmentSet
<1>2. Edges' = Edges
  BY DEF Edges, SegmentSet, LineIds
<1>3. \A p : Adjacent(Edges, p)' = Adjacent(Edges, p)
  BY <1>2 DEF Adjacent
<1>4. \A p : Busy(p)' <=> Busy(p)
  BY <1>3 DEF Busy
<1>5. Both(walked)' <=> Both(walked')
  BY <1>3, <1>4 DEF Both
<1>6. \A w, W : Passes(w, W)' <=> Passes(w, W)
  BY <1>2, <1>4 DEF Passes, Step
<1> QED
  BY <1>1, <1>4, <1>5, <1>6 DEF DissolvedInv

\* Nothing is walked at first.
LEMMA DissolveStart == Init => DissolveInv
<1> SUFFICES ASSUME Init
             PROVE  DissolveInv
  OBVIOUS
<1>1. LinesTyped
  BY CallsAssumption DEF Init, LinesTyped
<1>2. walked = {} /\ dissolved = <<>>
  BY DEF Init, DissolveInit
<1>3. <<>> \in Seq(Seq(Grid)) /\ DOMAIN <<>> = {}
  OBVIOUS
<1>4. Both({})
  BY DEF Both
<1>5. DissolvedInv({}, <<>>)
  BY <1>3, <1>4 DEF DissolvedInv
<1> QED
  BY <1>1, <1>2, <1>5 DEF DissolveInv

\* A line is emitted that begins at an end, or is a ring when there is none.
LEMMA LineEmitted ==
  ASSUME DissolveInv, NEW p, Adjacent(Unwalked, p) # {}, Busy(p) \/ EndVerts = {}, Emit(p)
  PROVE  DissolveInv'
<1> DEFINE q == LeastPoint(Adjacent(Unwalked, p))
           w == DissolveChain(p, q)
<1>1. LinesTyped /\ DissolvedInv(walked, dissolved) /\ Both(walked)
  BY DEF DissolveInv, DissolvedInv
<1>2. q \in Adjacent(Unwalked, p)
  <2>1. Unwalked \in SUBSET Edges
    BY DEF Unwalked
  <2>2. IsFiniteSet(Adjacent(Unwalked, p)) /\ Adjacent(Unwalked, p) \in SUBSET Grid
    BY <1>1, <2>1, NeighboursAre
  <2> QED
    BY <2>2, LeastOfMany
<1>3. walked' = walked \cup SegmentSet(w) /\ dissolved' = Append(dissolved, w) /\ lines' = lines
  BY DEF Emit
<1> HIDE DEF q
<1>4. p # q /\ {p, q} \in Edges \ walked
  <2>1. Unwalked \in SUBSET Edges
    BY DEF Unwalked
  <2>2. p # q /\ {p, q} \in Unwalked
    BY <1>1, <1>2, <2>1, NeighboursAre
  <2> QED
    BY <2>2 DEF Unwalked
<1>5. Passes(w, walked) /\ Stops(w) /\ w[1] = p
  BY <1>1, <1>4, ChainPasses
<1> HIDE DEF w
<1>6. Busy(w[1]) \/ (Len(w) > 2 /\ w[1] = Last(w))
  <2>1. CASE Busy(p)
    BY <1>5, <2>1
  <2>2. CASE EndVerts = {}
    <3>1. SUFFICES ASSUME Busy(Last(w)) PROVE FALSE
      BY <1>5 DEF Stops
    <3>2. w \in Seq(Grid) /\ Len(w) >= 2 /\ Len(w) \in Nat /\ Last(w) = w[Len(w)]
      BY <1>5 DEF Passes, Last
    <3>3. Len(w) - 1 \in 1..(Len(w) - 1) /\ (Len(w) - 1) + 1 = Len(w)
      BY <3>2
    <3>4. Step(w, Len(w) - 1) \in Edges \ walked
      BY <1>5, <3>3 DEF Passes
    <3>5. Last(w) \in Step(w, Len(w) - 1)
      BY <3>2, <3>3 DEF Step
    <3>6. Last(w) \in UNION Unwalked
      BY <3>4, <3>5 DEF Unwalked
    <3> QED
      BY <2>2, <3>1, <3>6 DEF EndVerts, Busy
  <2> QED
    BY <2>1, <2>2
<1>7. DissolvedInv(walked', dissolved')
  BY <1>1, <1>3, <1>5, <1>6, OneMoreLine
<1> QED
  BY <1>1, <1>3, <1>7, SameDissolve, SameLines DEF DissolveInv

\* A vertex of a segment that is left has a neighbour along one.
LEMMA LeftHasNeighbour ==
  ASSUME LinesTyped, NEW p, p \in UNION Unwalked
  PROVE  Adjacent(Unwalked, p) # {}
<1>1. PICK s \in Unwalked : p \in s
  OBVIOUS
<1>2. s \in Edges
  BY DEF Unwalked
<1>3. PICK a, b \in Grid : a # b /\ s = {a, b}
  BY <1>2, SegmentIs
<1>4. PICK c \in s : c # p
  BY <1>3
<1>5. c \in (UNION {t \in Unwalked : p \in t}) \ {p}
  BY <1>1, <1>4
<1> QED
  BY <1>5 DEF Adjacent

\* A line begins at an end.
LEMMA EndDissolved == DissolveInv /\ DissolveFromEnd => DissolveInv'
<1> SUFFICES ASSUME DissolveInv, DissolveFromEnd
             PROVE  DissolveInv'
  OBVIOUS
<1> DEFINE p == LeastPoint(EndVerts)
<1>1. EndVerts # {} /\ Emit(p)
  BY DEF DissolveFromEnd
<1>2. LinesTyped
  BY DEF DissolveInv
<1>3. EndVerts \subseteq UNION Edges
  BY DEF EndVerts, Unwalked
<1>4. IsFiniteSet(EndVerts) /\ EndVerts \in SUBSET Grid
  BY <1>2, <1>3, FewSegments, FS_Subset
<1>5. p \in EndVerts
  BY <1>1, <1>4, LeastOfMany
<1> HIDE DEF p
<1>6. p \in UNION Unwalked /\ Busy(p)
  BY <1>5 DEF EndVerts, Busy
<1> QED
  BY <1>1, <1>2, <1>6, LeftHasNeighbour, LineEmitted

\* The segment that begins a ring is one that is left.
LEMMA NextIsLeft ==
  ASSUME LinesTyped, Unwalked # {}
  PROVE  NextEdge \in Unwalked
<1> DEFINE at(k) == {i \in 1..(Len(lines[k]) - 1) : {lines[k][i], lines[k][i + 1]} \in Unwalked}
           L == {k \in LineIds : at(k) # {}}
           l == Min(L)
           m == Min(at(l))
<1>1. NextEdge = {lines[l][m], lines[l][m + 1]}
  BY DEF NextEdge
<1>2. PICK s : s \in Unwalked /\ s \in Edges
  BY DEF Unwalked
<1>3. PICK k \in LineIds : s \in SegmentSet(lines[k])
  BY <1>2 DEF Edges
<1>4. PICK i \in 1..(Len(lines[k]) - 1) : s = {lines[k][i], lines[k][i + 1]}
  BY <1>3 DEF SegmentSet
<1>5. i \in at(k)
  BY <1>2, <1>4
<1>6. L \in SUBSET Nat /\ L # {}
  <2>1. LineIds \in SUBSET Nat
    <3>1. LineIds = 1..Len(lines) /\ Len(lines) \in Nat
      BY DEF LineIds, LinesTyped
    <3> QED
      BY <3>1
  <2>2. k \in L
    BY <1>5
  <2>3. L \subseteq LineIds
    OBVIOUS
  <2> HIDE DEF L
  <2> QED
    BY <2>1, <2>2, <2>3
<1> HIDE DEF L
<1>7. l \in L
  BY <1>6, MinIsIn
<1> HIDE DEF l
<1>8. at(l) # {} /\ at(l) \in SUBSET Nat
  <2>1. l \in LineIds /\ at(l) # {}
    BY <1>7 DEF L
  <2>2. Len(lines[l]) - 1 \in Int
    BY <2>1 DEF LineIds, LinesTyped
  <2>3. \A j \in at(l) : j \in Nat
    BY <2>2
  <2> QED
    BY <2>1, <2>3
<1> HIDE DEF at
<1>9. m \in at(l)
  BY <1>8, MinIsIn
<1> HIDE DEF m
<1> QED
  BY <1>1, <1>9 DEF at

\* What is left when no line has an end is rings.
LEMMA RingDissolved == DissolveInv /\ DissolveRing => DissolveInv'
<1> SUFFICES ASSUME DissolveInv, DissolveRing
             PROVE  DissolveInv'
  OBVIOUS
<1> DEFINE s == NextEdge
           x == LeastPoint(s)
           y == LeastPoint(Adjacent(Edges, x))
           w == DissolveChain(x, y)
           p == RingStart(s)
<1>1. LinesTyped /\ Both(walked) /\ EndVerts = {} /\ Unwalked # {} /\ Emit(p)
  BY DEF DissolveInv, DissolvedInv, DissolveRing
<1>2. s \in Unwalked /\ s \in Edges /\ s \notin walked
  BY <1>1, NextIsLeft DEF Unwalked
<1> HIDE DEF s
<1>3. PICK a, b \in Grid : a # b /\ s = {a, b}
  BY <1>1, <1>2, SegmentIs
<1>4. x \in s
  <2>1. s \in SUBSET UNION Edges
    BY <1>2
  <2>2. IsFiniteSet(s) /\ s \in SUBSET Grid /\ s # {}
    BY <1>1, <1>3, <2>1, FewSegments, FS_Subset
  <2> QED
    BY <2>2, LeastOfMany
<1> HIDE DEF x
<1>5. Cardinality(Adjacent(Edges, x)) = 2
  BY <1>1, <1>2, <1>4 DEF EndVerts
<1>6. y \in Adjacent(Edges, x)
  <2>1. Edges \in SUBSET Edges
    OBVIOUS
  <2>2. IsFiniteSet(Adjacent(Edges, x)) /\ Adjacent(Edges, x) \in SUBSET Grid
    BY <1>1, <2>1, NeighboursAre
  <2>3. Adjacent(Edges, x) # {}
    BY <1>1, <1>5, OtherNeighbour
  <2> QED
    BY <2>2, <2>3, LeastOfMany
<1> HIDE DEF y
<1>7. x # y /\ {x, y} \in Edges \ walked
  <2>1. x # y /\ {x, y} \in Edges
    BY <1>1, <1>6, NeighboursAre
  <2>2. PICK c : c # x /\ s = {x, c}
    BY <1>3, <1>4
  <2>3. c \in Adjacent(Edges, x)
    BY <1>1, <1>2, <2>2, NeighboursAre
  <2>4. {x, y} \in walked => {x, c} \in walked
    BY <1>1, <1>5, <1>6, <2>3 DEF Both, Busy
  <2> QED
    BY <1>2, <2>1, <2>2, <2>4
<1>8. Passes(w, walked)
  BY <1>1, <1>7, ChainPasses
<1>9. RingOf(s) = ToSet(w)
  BY DEF RingOf, x, y
<1> HIDE DEF w
<1>10. w \in Seq(Grid) /\ Len(w) >= 2 /\ Len(w) \in Nat
  BY <1>8 DEF Passes
<1>11. ToSet(w) \subseteq UNION Unwalked /\ ToSet(w) # {}
  <2>1. ToSet(w) = {w[i] : i \in 1..Len(w)}
    BY <1>10 DEF ToSet
  <2>2. \A i \in 1..(Len(w) - 1) : Step(w, i) \in Unwalked /\ w[i] \in Step(w, i) /\ w[i + 1] \in Step(w, i)
    BY <1>8 DEF Passes, Step, Unwalked
  <2>3. ASSUME NEW i \in 1..Len(w) PROVE w[i] \in UNION Unwalked
    <3>1. CASE i \in 1..(Len(w) - 1)
      BY <2>2, <3>1
    <3>2. CASE i = Len(w)
      <4>1. Len(w) - 1 \in 1..(Len(w) - 1) /\ (Len(w) - 1) + 1 = Len(w)
        BY <1>10
      <4> QED
        BY <2>2, <3>2, <4>1
    <3>3. i = Len(w) \/ i \in 1..(Len(w) - 1)
      BY <1>10
    <3> QED
      BY <3>1, <3>2, <3>3
  <2>4. 1 \in 1..Len(w)
    BY <1>10
  <2> QED
    BY <2>1, <2>3, <2>4
<1>12. p \in UNION Unwalked
  <2> DEFINE begun == RingOf(s) \cap StartVerts
             S == IF begun # {} THEN begun ELSE RingOf(s)
  <2>1. p = LeastPoint(S)
    BY DEF RingStart
  <2>2. S # {} /\ S \subseteq UNION Unwalked
    BY <1>9, <1>11
  <2> HIDE DEF S
  <2>3. UNION Unwalked \subseteq UNION Edges
    BY DEF Unwalked
  <2>4. IsFiniteSet(S) /\ S \in SUBSET Grid
    BY <1>1, <2>2, <2>3, FewSegments, FS_Subset
  <2>5. LeastPoint(S) \in S
    BY <2>2, <2>4, LeastOfMany
  <2> QED
    BY <2>1, <2>2, <2>5
<1> HIDE DEF p
<1> QED
  BY <1>1, <1>12, LeftHasNeighbour, LineEmitted

LEMMA DissolveStays == DissolveInv /\ [Next]_vars => DissolveInv'
<1> SUFFICES ASSUME DissolveInv, [Next]_vars
             PROVE  DissolveInv'
  OBVIOUS
<1>1. ASSUME lines' = lines, UNCHANGED dissolveVars
      PROVE  DissolveInv'
  <2>1. walked' = walked /\ dissolved' = dissolved
    BY <1>1 DEF dissolveVars
  <2>2. DissolvedInv(walked', dissolved')
    BY <2>1 DEF DissolveInv
  <2> QED
    BY <1>1, <2>2, SameDissolve, SameLines DEF DissolveInv
<1>2. CASE Polygonizing
  BY <1>1, <1>2 DEF Polygonizing, RemoveInvalidRingLoops, RemoveDangle, StartTrace, TraceFace, Assemble
<1>3. CASE Merging
  BY <1>1, <1>3 DEF Merging, MergeFromTip, MergeRing, StartChain, GrowChain, EmitChain
<1>4. CASE Sequencing
  BY <1>1, <1>4 DEF Sequencing, StartComponent, Splice, FinishComponent, FinishSequence
<1>5. CASE Dissolving
  BY <1>5, EndDissolved, RingDissolved DEF Dissolving
<1>6. CASE NodingLines
  BY <1>1, <1>6 DEF NodingLines, Iterate, Round, RoundAndMerge, RoundFirst, RoundInsert, RoundConverge, RoundMerge,
                    RoundMerged, RoundGuard, MergedOrDone, Snap, SnapVertices, NodeSnapped, SnapAgain, NextPass, End
<1>7. CASE Overlaying
  BY <1>1, <1>7 DEF Overlaying, LinealStart, LinealPass, LinealFinish
<1>8. CASE UNCHANGED vars
  BY <1>1, <1>8 DEF vars
<1> QED
  BY <1>2, <1>3, <1>4, <1>5, <1>6, <1>7, <1>8 DEF Next, Over

\* Whatever the lines: each segment that was walked is in one of the lines
\* made, once, and no other is in any; a line goes on through vertices where
\* just two segments meet, and ends at none, but a ring.  (dissolve.Lines.)
THEOREM DissolvedKept == Spec => []DissolvedRight
<1>1. DissolveInv => DissolvedRight
  <2> SUFFICES ASSUME DissolveInv
               PROVE  DissolvedRight
    OBVIOUS
  <2>1. /\ LinesTyped
        /\ \A i \in DOMAIN dissolved :
              /\ Passes(dissolved[i], {})
              /\ dissolved[i][1] # Last(dissolved[i]) => Busy(dissolved[i][1]) /\ Busy(Last(dissolved[i]))
        /\ walked = UNION {SegmentSet(dissolved[i]) : i \in DOMAIN dissolved}
        /\ \A i, j \in DOMAIN dissolved : i # j => SegmentSet(dissolved[i]) \cap SegmentSet(dissolved[j]) = {}
    BY DEF DissolveInv, DissolvedInv
  <2>2. ASSUME NEW s \in Edges
        PROVE  Cardinality({i \in DOMAIN dissolved : s \in SegmentSet(dissolved[i])}) = (IF s \in walked THEN 1 ELSE 0)
    <3> DEFINE I == {i \in DOMAIN dissolved : s \in SegmentSet(dissolved[i])}
    <3>1. CASE s \in walked
      <4>1. PICK i \in DOMAIN dissolved : s \in SegmentSet(dissolved[i])
        BY <2>1, <3>1
      <4>2. I = {i}
        BY <2>1, <4>1
      <4> QED
        BY <3>1, <4>2, FS_Singleton
    <3>2. CASE s \notin walked
      <4>1. I = {}
        BY <2>1, <3>2
      <4> QED
        BY <3>2, <4>1, FS_EmptySet
    <3> QED
      BY <3>1, <3>2
  <2>3. ASSUME NEW i \in DOMAIN dissolved
        PROVE  /\ SegmentSet(dissolved[i]) \subseteq Edges
               /\ \A j \in 2..(Len(dissolved[i]) - 1) : Cardinality(Adjacent(Edges, dissolved[i][j])) = 2
               /\ dissolved[i][1] # Last(dissolved[i]) =>
                     /\ Cardinality(Adjacent(Edges, dissolved[i][1])) # 2
                     /\ Cardinality(Adjacent(Edges, Last(dissolved[i]))) # 2
    <3>1. Passes(dissolved[i], {})
      BY <2>1
    <3>2. SegmentSet(dissolved[i]) \subseteq Edges
      BY <2>1, <3>1, StepsOf
    <3>3. \A j \in 2..(Len(dissolved[i]) - 1) : Cardinality(Adjacent(Edges, dissolved[i][j])) = 2
      BY <3>1 DEF Passes, Busy
    <3> QED
      BY <2>1, <3>2, <3>3 DEF Busy
  <2> QED
    BY <2>2, <2>3 DEF DissolvedRight
<1> QED
  BY DissolveStart, DissolveStays, <1>1, PTL DEF Spec

\* Whatever the lines, LineworkKept holds of every call but the overlays: none
\* of them leaves an answer of one behind, and what the tools make stays right.
\* (Sequence, IsSequenceable, dissolve.Lines.)
THEOREM OthersKept == Spec => [](tool \notin Overlays => LineworkKept)
<1> DEFINE OnlyOverlays == overlaid # <<>> => tool \in Overlays
<1>1. Init => OnlyOverlays
  BY DEF Init, LinealInit
<1>2. OnlyOverlays /\ [Next]_vars => OnlyOverlays'
  <2> SUFFICES ASSUME OnlyOverlays, [Next]_vars
               PROVE  OnlyOverlays'
    OBVIOUS
  <2>1. ASSUME tool' = tool, overlaid' = overlaid
        PROVE  OnlyOverlays'
    BY <2>1
  <2>2. CASE Polygonizing \/ Merging \/ Sequencing \/ Dissolving \/ NodingLines
    BY <2>1, <2>2 DEF Polygonizing, Merging, Sequencing, Dissolving, NodingLines, linealVars
  <2>3. CASE Overlaying
    BY <2>3 DEF Overlaying
  <2>4. CASE UNCHANGED vars
    BY <2>1, <2>4 DEF vars, linealVars
  <2> QED
    BY <2>2, <2>3, <2>4 DEF Next, Over
<1>3. OnlyOverlays /\ SequenceRight /\ DissolvedRight => (tool \notin Overlays => LineworkKept)
  BY DEF LineworkKept
<1> HIDE DEF OnlyOverlays
<1>4. Spec => []OnlyOverlays
  BY <1>1, <1>2, PTL DEF Spec
<1> QED
  BY <1>3, <1>4, SequenceKept, DissolvedKept, PTL

=============================================================================
