--------------------------- MODULE OverlayDispatch ---------------------------
(***************************************************************************)
(* Intersection, Union, Difference and SymmetricDifference: the dispatch   *)
(* by operand type, the ladder of tolerances around the polygon engine,    *)
(* the assembly of a symmetric difference and the second try at enhanced   *)
(* precision (package overlay), on the strip of CollectionUnion, whose     *)
(* UnaryUnion the dispatch calls on collections.                           *)
(*                                                                         *)
(* A frame is a call in progress; calls of calls are pushed on it.  The    *)
(* engine may fail in each attempt, in the ways the ladder looks for and   *)
(* in others.                                                              *)
(***************************************************************************)
EXTENDS CollectionUnion

CONSTANT Calls   \* [op, a, b, crs, enhanced], the calls that are made

Ops == {"intersection", "union", "difference", "symdiff"}
LastRung == 3    \* the attempts of tryOverlayNG, from 0

(* How the engine may fail a call: in the first attempt, in all four, or   *)
(* in a way no test of the ladder can see.                                 *)
Flaws == {"wrong first", "never right", "plausible"}

VARIABLES
  call,     \* the overlay that was called, or None
  frames,   \* its calls in progress, the innermost last
  answer,   \* what it returned
  fared     \* the flaws of the engine in this call

overlayVars == <<call, frames, answer, fared>>
unionVars == <<input, stack, result, pass, before>>

-----------------------------------------------------------------------------
Gaps(S) == {x \in S : x % 2 = 1}
Closed(gaps) == UNION {{x - 1, x, x + 1} : x \in gaps}
Covered(g) == UNION ToSet(g.parts)
Ends(g) == UNION {IF p = {} THEN {} ELSE {Min(p), Max(p)} : p \in ToSet(g.parts)}

EmptyOfDim(d) == Geom(<<"Point", "LineString", "Polygon">>[d + 1], <<{}>>)

DimensionOf(g) == Max({0} \cup {a.dim : a \in ToSet(Atoms(g))})

(* Lines or areas packed as one geometry, a simple one if they are one.    *)
Boxed(k, parts) == IF parts = <<>> THEN Geom(Single(k), <<{}>>) ELSE Packed(k, parts)

PointsToGeometry(pts) == Boxed("MultiPoint", pts)
ExtractPoints(g) == Deduped(NonEmpty(g.parts))
Singles(S) == [i \in 1..Cardinality(S) |-> {SetToSortSeq(S, <)[i]}]

(* predicate.Covers of a point. *)
PointCoveredBy(p, g) == \E a \in ToSet(Atoms(g)) : Covers(a.at, p)
Uncovered(pts, g) == SelectSeq(pts, LAMBDA p : ~PointCoveredBy(p, g))

-----------------------------------------------------------------------------
(***************************************************************************)
(* Lines with lines, and lines with polygons.                              *)
(***************************************************************************)
(* The noded edges of a geometry: the pieces of its parts from one node to *)
(* the next; a line along the middle crosses a polygon at its two sides.   *)
NodedEdges(g, nodes) ==
  {e \in nodes \X nodes :
     /\ e[1] < e[2] /\ ~\E x \in nodes : e[1] < x /\ x < e[2]
     /\ \E p \in ToSet(g.parts) : e[1]..e[2] \subseteq p}

EdgeEnds(E) == {e[1] : e \in E} \cup {e[2] : e \in E}

(* On the strip no node has more than two edges: a chain runs on until     *)
(* none is left.                                                           *)
StitchEdges(E) == Runs(<<UNION {e[1]..e[2] : e \in E}>>)

AssembleLinealResult(kept, points) ==
  LET lines == Boxed("MultiLineString", StitchEdges(kept))
      dots == PointsToGeometry(Singles(points))
  IN  IF points = {} THEN lines ELSE IF kept = {} THEN dots ELSE GC(<<dots, lines>>)

(* What an operation keeps of the nodes or edges of the two operands.      *)
KeptOf(op, A, B) ==
  CASE op = "intersection" -> A \cap B
    [] op = "union"        -> A \cup B
    [] op = "difference"   -> A \ B
    [] op = "symdiff"      -> (A \ B) \cup (B \ A)

LineLineOverlay(op, a, b) ==
  LET nodes == Ends(a) \cup Ends(b)
      kept == KeptOf(op, NodedEdges(a, nodes), NodedEdges(b, nodes))
      met == KeptOf(op, nodes \cap Covered(a), nodes \cap Covered(b))
  IN  AssembleLinealResult(kept, IF op \in {"intersection", "union"} THEN met \ EdgeEnds(kept) ELSE {})

(* The faces of a member and the edges of a line inside it: an edge from   *)
(* side to side parts it in two, edges that end inside leave it one.       *)
SubFaces(member, inside) ==
  LET crossed == member # {} /\ member = UNION {e[1]..e[2] : e \in {e \in inside : e[1]..e[2] \subseteq member}}
  IN  IF member = {} THEN <<>> ELSE IF crossed THEN <<member, member>> ELSE <<member>>

PolyMinusLineDecompose(polySide, inside) ==
  LET faces == FlattenSeq([i \in DOMAIN polySide.parts |-> SubFaces(polySide.parts[i], inside)])
      members == [i \in DOMAIN faces |-> Geom("Polygon", <<faces[i]>>)]
  IN  IF inside = {} THEN polySide ELSE IF Len(members) = 1 THEN members[1] ELSE GC(members)

(* The edges of the line by what holds their middle.                       *)
LinePolygonOverlay(op, a, b) ==
  LET lineSide == IF Lineal(a) THEN a ELSE b
      polySide == IF Lineal(a) THEN b ELSE a
      nodes == Ends(lineSide) \cup Ends(polySide)
      edges == NodedEdges(lineSide, nodes)
      inside == {e \in edges : (e[1] + e[2]) \div 2 \in Covered(polySide)}
      outside == edges \ inside
      touched == (nodes \cap Covered(lineSide) \cap Ends(polySide)) \ EdgeEnds(inside)
      both == IF outside = {} THEN polySide ELSE GC(<<polySide, Boxed("MultiLineString", StitchEdges(outside))>>)
  IN  CASE op = "intersection" -> AssembleLinealResult(inside, touched)
        [] op = "difference" /\ Lineal(a)  -> AssembleLinealResult(outside, {})
        [] op = "difference" /\ ~Lineal(a) -> PolyMinusLineDecompose(polySide, inside)
        [] op \in {"union", "symdiff"} -> both

WithLine(op, a, b) ==
  IF Lineal(a) /\ Lineal(b) THEN LineLineOverlay(op, a, b)
  ELSE IF (Lineal(a) /\ Areal(b)) \/ (Areal(a) /\ Lineal(b)) THEN LinePolygonOverlay(op, a, b)
  ELSE Err

-----------------------------------------------------------------------------
(***************************************************************************)
(* The four operations on operands that are not both polygonal.            *)
(***************************************************************************)
IntersectionNonPolygonal(a, b) ==
  LET covered(p, q) == PointsToGeometry(SelectSeq(ExtractPoints(p), LAMBDA x : PointCoveredBy(x, q)))
  IN  IF Pointal(a) THEN covered(a, b) ELSE IF Pointal(b) THEN covered(b, a) ELSE WithLine("intersection", a, b)

UnionNonPolygonal(a, b) ==
  LET other == IF Pointal(a) THEN b ELSE a
      rest == Uncovered(ExtractPoints(IF Pointal(a) THEN a ELSE b), other)
  IN  IF Pointal(a) /\ Pointal(b) THEN PointsToGeometry(ExtractPoints(Geom("MultiPoint", a.parts \o b.parts)))
      ELSE IF ~Pointal(a) /\ ~Pointal(b) THEN WithLine("union", a, b)
      ELSE IF rest = <<>> THEN other ELSE GC(<<other, PointsToGeometry(rest)>>)

DifferenceNonPolygonal(a, b) ==
  IF Pointal(a) THEN PointsToGeometry(Uncovered(ExtractPoints(a), b))
  ELSE IF Pointal(b) /\ ~IsGC(a) THEN a ELSE WithLine("difference", a, b)

SymDifferenceNonPolygonal(a, b) ==
  LET d1 == DifferenceNonPolygonal(a, b)
      d2 == DifferenceNonPolygonal(b, a)
      only(p, q) == Uncovered(ExtractPoints(p), q)
  IN  IF ~Pointal(a) /\ ~Pointal(b) THEN WithLine("symdiff", a, b)
      ELSE IF Pointal(a) /\ Pointal(b) THEN PointsToGeometry(only(a, b) \o only(b, a))
      ELSE IF Err \in {d1, d2} THEN Err ELSE IF IsEmpty(d1) THEN d2 ELSE IF IsEmpty(d2) THEN d1 ELSE GC(<<d1, d2>>)

NonPolygonal(op, a, b) ==
  CASE op = "intersection" -> IntersectionNonPolygonal(a, b)
    [] op = "union"        -> UnionNonPolygonal(a, b)
    [] op = "difference"   -> DifferenceNonPolygonal(a, b)
    [] op = "symdiff"      -> SymDifferenceNonPolygonal(a, b)

(* What is returned when an operand is empty, or None. *)
ForEmpty(op, a, b) ==
  LET da == DimensionOf(a)
      db == DimensionOf(b)
  IN  CASE ~IsEmpty(a) /\ ~IsEmpty(b) -> None
        [] op = "intersection" /\ (IsEmpty(a) \/ IsEmpty(b)) -> EmptyOfDim(Min({da, db}))
        [] op = "difference" /\ IsEmpty(a) -> EmptyOfDim(da)
        [] op # "intersection" /\ IsEmpty(b) /\ ~IsEmpty(a) -> a
        [] op \in {"union", "symdiff"} /\ IsEmpty(a) /\ ~IsEmpty(b) -> b
        [] op \in {"union", "symdiff"} /\ IsEmpty(a) /\ IsEmpty(b) -> EmptyOfDim(Max({da, db}))

-----------------------------------------------------------------------------
(***************************************************************************)
(* The engine on two sets of rectangles, and what it may return instead:   *)
(* [geom, simple], where simple says that no ring meets itself.            *)
(***************************************************************************)
ArealGaps(op, a, b) == KeptOf(op, Gaps(Covered(a)), Gaps(Covered(b)))
Shared(op, a, b) == IF op = "intersection" THEN (Covered(a) \cap Covered(b)) \ Closed(ArealGaps(op, a, b)) ELSE {}

(* Sides that only touch are lines. *)
Exact(op, a, b) ==
  LET areas == Runs(<<Closed(ArealGaps(op, a, b))>>)
      sides == Singles(Shared(op, a, b))
      lines == Boxed("MultiLineString", sides)
      polygons == Boxed("MultiPolygon", areas)
  IN  IF sides = <<>> THEN polygons ELSE IF areas = <<>> THEN lines ELSE GC(<<polygons, lines>>)

(* More than two operands have together. *)
Huge == Geom("Polygon", <<0..14>>)

(* Lines where there should be areas. *)
Degraded(a) == Packed("MultiLineString", Runs(<<Covered(a)>>))

Right(op, a, b) == [geom |-> Exact(op, a, b), simple |-> TRUE]

IsArealResult(g) == OfDim(g, 2) # <<>>

Area(g) == FoldLeft(LAMBDA sum, p : sum + Cardinality(Gaps(p)), 0, OfDim(g, 2))

EnvelopesIntersect(a, b) ==
  \E p \in ToSet(NonEmpty(a.parts)), q \in ToSet(NonEmpty(b.parts)) : Min(p) <= Max(q) /\ Min(q) <= Max(p)

OverlayCollapsedToLineal(g, op, a, b) ==
  ~IsArealResult(g) /\ (op = "union" \/ EnvelopesIntersect(a, b))

OverlayAreaIsConserved(g, op, a, b) ==
  Area(g) <= CASE op = "union"        -> Area(a) + Area(b)
               [] op = "intersection" -> Min({Area(a), Area(b)})
               [] op = "difference"   -> Area(a)

(* Wrong, but simple areas between the operands, and no more of them than  *)
(* there can be: one is missing, or too many, or elsewhere.                *)
Plausible(op, a, b) ==
  LET gaps == ArealGaps(op, a, b)
      held == Covered(a) \cup Covered(b)
      taken == {{}} \cup {{x} : x \in gaps}
      given == {{}} \cup {{x} : x \in Gaps(Min(held)..Max(held)) \ gaps}
      areas == {Boxed("MultiPolygon", Runs(<<Closed((gaps \ t) \cup g)>>)) : t \in taken, g \in given}
  IN  {[geom |-> g, simple |-> TRUE] :
         g \in {g \in areas \ {Exact(op, a, b)} : IsArealResult(g) /\ OverlayAreaIsConserved(g, op, a, b)}}

(* What the ladder looks for: errors, nothing, lines where there should be *)
(* areas, too much area, rings that meet themselves.                       *)
Noticeable(op, a, b) ==
  [geom : {Err, EmptyOfDim(2), Degraded(a), Huge} \ {Exact(op, a, b)}, simple : {TRUE}]
    \cup {[geom |-> Exact(op, a, b), simple |-> FALSE]}

(* Variant: the area is not looked at. *)
AcceptableOfAnyArea(o, op, a, b) ==
  ~OverlayCollapsedToLineal(o.geom, op, a, b) /\ (IsArealResult(o.geom) => o.simple)

OverlayResultIsAcceptable(o, op, a, b) ==
  /\ ~OverlayCollapsedToLineal(o.geom, op, a, b)
  /\ IsArealResult(o.geom) => o.simple /\ OverlayAreaIsConserved(o.geom, op, a, b)

(* The fast way: Sutherland-Hodgman against a convex clipper.              *)
Clipped(a, b) == Geom("Polygon", <<Covered(a) \cap Covered(b)>>)

(* The polygons of both, or the one there is. *)
CollectAsMultiPolygon(d1, d2) ==
  LET polys(d) == IF d.kind = "MultiPolygon" THEN d.parts ELSE IF d.kind = "Polygon" THEN NonEmpty(d.parts) ELSE <<>>
  IN  Boxed("MultiPolygon", polys(d1) \o polys(d2))

-----------------------------------------------------------------------------
(***************************************************************************)
(* Calls and returns.                                                      *)
(***************************************************************************)
NewFrame(op, a, b, onEarth) ==
  [op |-> op, a |-> a, b |-> b, onEarth |-> onEarth, at |-> "entry", got |-> None,
   rung |-> 0, right |-> FALSE, first |-> None,  \* of tryOverlayNG
   as |-> None,                                  \* of simplifyGCPair
   d1 |-> None, d2 |-> None]                     \* of symmetricDifferencePlanar

OverlayInit ==
  \/ /\ Init /\ call = None /\ frames = <<>> /\ answer = None /\ fared = {}
  \/ /\ call \in Calls
     /\ frames = <<NewFrame(call.op, call.a, call.b, call.crs = "earth")>>
     /\ answer = None /\ fared = {}
     /\ input = EmptyOfDim(0) /\ stack = <<>> /\ result = Err /\ pass = 0 /\ before = None

Now == Last(frames)
Turn(at) == frames # <<>> /\ Now.at = at /\ Now.got = None
Becomes(f) == frames' = [frames EXCEPT ![Len(frames)] = f]
IsMerge == Len(frames) = 2 /\ Now.op = "union"
Pushed(f, g) == frames' = Append([frames EXCEPT ![Len(frames)] = f], g)

(* Variant: the caller goes on as if the call were still running. *)
YieldsTwice(g) == answer' = g /\ UNCHANGED frames

Yields(g) ==
  LET n == Len(frames) - 1
  IN  IF n = 0 THEN frames' = <<>> /\ answer' = g
      ELSE frames' = [SubSeq(frames, 1, n) EXCEPT ![n].got = g] /\ UNCHANGED answer

(* requireSameCRS and the empty operands; geographic operands are put on a *)
(* plane first, which fails for those that are too far apart.              *)
Start ==
  /\ Turn("entry")
  /\ LET known == ForEmpty(Now.op, Now.a, Now.b)
     IN  IF None \in {Now.a, Now.b} \/ call.crs = "differ" THEN Yields(Err)
         ELSE IF known # None THEN Yields(known)
         ELSE \/ Becomes([Now EXCEPT !.at = "planar", !.onEarth = FALSE]) /\ UNCHANGED answer
              \/ Now.onEarth /\ Yields(Err)
  /\ UNCHANGED <<call, fared, unionVars>>

(* The planar bodies of the four operations; a convex ring is taken as one *)
(* only when it is counter-clockwise.                                      *)
Dispatch ==
  /\ Turn("planar")
  /\ LET a == Now.a
         b == Now.b
         areal == Areal(a) /\ Areal(b)
         single == Now.op = "intersection" /\ a.kind = "Polygon" /\ b.kind = "Polygon"
     IN  \/ single /\ Yields(Clipped(a, b))
         \/ /\ areal /\ Now.op = "symdiff"
            /\ Pushed([Now EXCEPT !.at = "first difference"], NewFrame("difference", a, b, FALSE)) /\ UNCHANGED answer
         \/ ~areal /\ (IsGC(a) \/ IsGC(b)) /\ Becomes([Now EXCEPT !.at = "simplify a"]) /\ UNCHANGED answer
         \/ ~areal /\ ~IsGC(a) /\ ~IsGC(b) /\ Yields(NonPolygonal(Now.op, a, b))
  /\ UNCHANGED <<call, fared, unionVars>>

EnterEngine ==
  /\ Turn("planar") /\ Areal(Now.a) /\ Areal(Now.b) /\ Now.op # "symdiff"
  /\ Becomes([Now EXCEPT !.at = "engine"])
  /\ UNCHANGED <<call, answer, fared, unionVars>>

(* simplifyGCPair calls UnaryUnion on each collection.                     *)
Simplify(g, await, otherwise) ==
  IF IsGC(g)
  THEN /\ input' = g /\ result' = None /\ Becomes([Now EXCEPT !.at = await])
       /\ UNCHANGED <<stack, pass, before>>
  ELSE Becomes(otherwise) /\ UNCHANGED unionVars

SimplifyPair ==
  /\ \/ Turn("simplify a") /\ Simplify(Now.a, "await a", [Now EXCEPT !.at = "simplify b", !.as = Now.a])
     \/ Turn("simplify b") /\ Simplify(Now.b, "await b", NewFrame(Now.op, Now.as, Now.b, FALSE))
  /\ UNCHANGED <<call, answer, fared>>

(* Variant: the collections are passed on as they were. *)
UnionForgotten ==
  /\ Turn("await a") \/ Turn("await b")
  /\ result # None /\ result' = Err
  /\ IF result = Err THEN Yields(NonPolygonal(Now.op, Now.a, Now.b))
     ELSE /\ Becomes(IF Now.at = "await a" THEN [Now EXCEPT !.as = Now.a, !.at = "simplify b"]
                                           ELSE NewFrame(Now.op, Now.as, Now.b, FALSE))
          /\ UNCHANGED answer
  /\ UNCHANGED <<call, fared, input, stack, pass, before>>

(* The operation is called again on what UnaryUnion returned, whatever     *)
(* that is: the test against endless calls compares the operands by        *)
(* identity, and UnaryUnion returns new ones.                              *)
UnionReturns ==
  /\ Turn("await a") \/ Turn("await b")
  /\ result # None /\ result' = Err
  /\ IF result = Err THEN Yields(NonPolygonal(Now.op, Now.a, Now.b))
     ELSE /\ Becomes(IF Now.at = "await a" THEN [Now EXCEPT !.as = result, !.at = "simplify b"]
                                           ELSE NewFrame(Now.op, Now.as, result, FALSE))
          /\ UNCHANGED answer
  /\ UNCHANGED <<call, fared, input, stack, pass, before>>

(***************************************************************************)
(* tryOverlayNG.                                                           *)
(***************************************************************************)
(* Each attempt is right or fails; areas far from each other give the      *)
(* engine no trouble.  The union that ends a symmetric difference may fail *)
(* as it likes, unless it has the area it must have.                       *)
Attempt ==
  /\ Turn("engine")
  /\ LET op == Now.op
         right == Right(op, Now.a, Now.b)
         plausible == IF EnvelopesIntersect(Now.a, Now.b) THEN Plausible(op, Now.a, Now.b) ELSE {}
         noticeable == IF EnvelopesIntersect(Now.a, Now.b) THEN Noticeable(op, Now.a, Now.b) ELSE {}
         accepted(o) == o.geom # Err /\ OverlayResultIsAcceptable(o, op, Now.a, Now.b)
         next(o) == [Now EXCEPT !.rung = @ + 1, !.right = @ \/ o = right, !.first = IF Now.rung = 0 THEN o.geom ELSE @]
         flaws(o) ==
           {flaw \in Flaws :
              \/ flaw = "wrong first" /\ ~IsMerge /\ Now.rung = 0 /\ o # right
              \/ flaw = "never right" /\ ~IsMerge /\ Now.rung = LastRung /\ ~accepted(o) /\ ~next(o).right
              \/ flaw = "plausible" /\ o \in plausible /\ (IsMerge => Area(o.geom) = Area(Now.a) + Area(Now.b))}
     IN  \E o \in {right} \cup plausible \cup noticeable :
           /\ \/ accepted(o) /\ Yields(o.geom)
              \/ ~accepted(o) /\ Now.rung = LastRung /\ Yields(Now.first)
              \/ ~accepted(o) /\ Now.rung < LastRung /\ Becomes(next(o)) /\ UNCHANGED answer
           /\ fared' = fared \cup flaws(o)
  /\ UNCHANGED <<call, unionVars>>

(***************************************************************************)
(* symmetricDifferencePlanar.                                              *)
(***************************************************************************)
Received(at) == frames # <<>> /\ Now.at = at /\ Now.got # None

SecondDifference ==
  /\ Received("first difference")
  /\ IF Now.got = Err THEN Yields(Err)
     ELSE /\ Pushed([Now EXCEPT !.at = "second difference", !.d1 = Now.got, !.got = None],
                    NewFrame("difference", Now.b, Now.a, FALSE))
          /\ UNCHANGED answer
  /\ UNCHANGED <<call, fared, unionVars>>

MergeDifferences ==
  /\ Received("second difference")
  /\ LET d1 == Now.d1
         d2 == Now.got
     IN  IF d2 = Err THEN Yields(Err)
         ELSE IF IsEmpty(d1) THEN Yields(d2)
         ELSE IF IsEmpty(d2) THEN Yields(d1)
         ELSE IF ~Areal(d1) \/ ~Areal(d2) THEN Yields(CollectAsMultiPolygon(d1, d2))
         ELSE /\ Pushed([Now EXCEPT !.at = "merge", !.d2 = d2, !.got = None], NewFrame("union", d1, d2, FALSE))
              /\ UNCHANGED answer
  /\ UNCHANGED <<call, fared, unionVars>>

(* Variant: the union is taken whatever its area. *)
KeepAnyUnion ==
  /\ Received("merge")
  /\ Yields(IF Now.got # Err /\ ~IsEmpty(Now.got) THEN Now.got ELSE CollectAsMultiPolygon(Now.d1, Now.d2))
  /\ UNCHANGED <<call, fared, unionVars>>

(* The union of the differences, when it has their area.                   *)
KeepUnion ==
  /\ Received("merge")
  /\ Yields(IF Now.got # Err /\ ~IsEmpty(Now.got) /\ Area(Now.got) = Area(Now.d1) + Area(Now.d2)
            THEN Now.got ELSE CollectAsMultiPolygon(Now.d1, Now.d2))
  /\ UNCHANGED <<call, fared, unionVars>>

(* enhancedPrecisionApply: once more on operands moved to the origin.      *)
Retry ==
  /\ answer = Err /\ call.enhanced /\ call.crs # "earth" /\ None \notin {call.a, call.b}
  /\ frames' = <<NewFrame(call.op, call.a, call.b, FALSE)>>
  /\ answer' = None /\ fared' = {}
  /\ call' = [call EXCEPT !.enhanced = FALSE]
  /\ UNCHANGED unionVars

UnaryUnion ==
  /\ AsIs \/ MultiPoint \/ MultiPolygon \/ Enter \/ SkipEmpty \/ Take \/ Descend \/ Return \/ Fail \/ Again
  /\ UNCHANGED overlayVars

Over == (answer # None \/ call = None) /\ Done /\ UNCHANGED overlayVars

OverlayNext ==
  \/ UnaryUnion
  \/ Start \/ Dispatch \/ SimplifyPair \/ UnionReturns
  \/ EnterEngine \/ Attempt \/ SecondDifference \/ MergeDifferences \/ KeepUnion
  \/ Retry \/ Over

overlaySpecVars == <<overlayVars, unionVars>>

Ended == IF call = None THEN result = Err \/ (pass = 2 /\ result # None) ELSE answer # None

(* A call is one goroutine that waits for no other: as long as it has not  *)
(* ended it takes another step.                                            *)
Fairness == []<>Ended \/ []<><<TRUE>>_overlaySpecVars

OverlaySpec == OverlayInit /\ [][OverlayNext]_overlaySpecVars /\ Fairness

-----------------------------------------------------------------------------
OverlayTypeOK ==
  /\ TypeOK
  /\ Len(frames) <= 2
  /\ \A f \in ToSet(frames) : f.op \in Ops /\ f.rung \in 0..LastRung /\ (f.rung > 0 => f.first # None)
  /\ answer # None => frames = <<>>
  /\ fared \subseteq Flaws

(* What is left of one operand when the other is taken away: an atom loses *)
(* what atoms of its dimension or a higher one cover, and keeps its ends.  *)
Left(g, h) ==
  LET over(d) == UNION {UNION ToSet(OfDim(h, e)) : e \in d..2}
      rest(d) == UNION {Closed(Gaps(p) \ over(d)) : p \in ToSet(OfDim(g, d))}
  IN  rest(1) \cup rest(2) \cup (UNION ToSet(OfDim(g, 0)) \ over(0))

PointSet(op, a, b) ==
  CASE op = "intersection" -> Positions(a) \cap Positions(b)
    [] op = "union"        -> Positions(a) \cup Positions(b)
    [] op = "difference"   -> Left(a, b)
    [] op = "symdiff"      -> Left(a, b) \cup Left(b, a)

Regions(g) == Gaps(UNION ToSet(OfDim(g, 2)))

(* An areal step of the overlay has a result without area: the acceptance  *)
(* test takes that for a failure where the envelopes meet.                 *)
NoArea(op, A, B) ==
  IF op = "symdiff" THEN A \subseteq B \/ B \subseteq A ELSE KeptOf(op, A, B) = {}

MostArea(op, A, B) ==
  CASE op \in {"union", "symdiff"} -> Cardinality(A) + Cardinality(B)
    [] op = "intersection"         -> Min({Cardinality(A), Cardinality(B)})
    [] op = "difference"           -> Cardinality(A)

(* The overlay of any two geometries is the overlay of their point sets,   *)
(* in area and in all, through every dispatch, collections and fallbacks   *)
(* included, when each use of the engine had a right attempt, unless       *)
(*   - a wrong attempt was plausible: the test bounds the area from above  *)
(*     only, so areas that are missing or elsewhere pass before a right    *)
(*     attempt is made; there are never more of them than there can be; or *)
(*   - the first attempt was wrong and the right result has no area: it is *)
(*     rejected in every attempt, and the first attempt returned.          *)
(* What the last union of a symmetric difference loses, its area tells.    *)
(* (tryOverlayNG, symmetricDifferencePlanar, the *NonPolygonal functions.) *)
AnswersAsSets ==
  LET A == Regions(call.a)
      B == Regions(call.b)
  IN  answer \notin {None, Err} /\ "never right" \notin fared /\ ("wrong first" \in fared => ~NoArea(call.op, A, B)) =>
        /\ Cardinality(Regions(answer)) <= MostArea(call.op, A, B)
        /\ "plausible" \notin fared =>
              /\ Positions(answer) = PointSet(call.op, call.a, call.b)
              /\ Regions(answer) = KeptOf(call.op, A, B)

(* Several dimensions are left of the collection by its union.             *)
StaysCollection(g) ==
  g # None /\ IsGC(g) /\ Cardinality(Classes(GC(<<Geom("MultiPolygon", Flat(g).areas),
    Geom("MultiLineString", Flat(g).lines), Geom("MultiPoint", Flat(g).points)>>))) > 1

(* Every call returns, unless an operand is a collection that its union    *)
(* leaves a collection.  (simplifyGCPair, tryOverlayNG.)                   *)
CallsAnswer == (call # None /\ (StaysCollection(call.a) \/ StaysCollection(call.b))) \/ <>Ended
=============================================================================
