--------------------------- MODULE CollectionUnion ---------------------------
(***************************************************************************)
(* UnaryUnion on every kind of geometry, and unionGeometryCollection with  *)
(* its recursion into nested collections (overlay/unary_union.go).         *)
(*                                                                         *)
(* The plane is a strip of height one.  Polygons are rectangles of its     *)
(* full height, lines run along its middle and points lie on that line, so *)
(* that a part of a geometry is the set of the positions it covers: even   *)
(* numbers for the grid points, odd ones for the gaps between them.        *)
(*                                                                         *)
(* The recursion is a stack of frames, one per collection being read; a    *)
(* step reads one member, or does all that follows the member loop.        *)
(***************************************************************************)
EXTENDS Integers, Sequences, FiniteSets, SequencesExt

CONSTANT Inputs   \* the geometries UnaryUnion is called with

Collection == "GeometryCollection"
Single(k) == CASE k = "MultiPolygon" -> "Polygon"
               [] k = "MultiLineString" -> "LineString"
               [] k = "MultiPoint" -> "Point"

Geom(k, parts) == [kind |-> k, parts |-> parts]
GC(members) == [kind |-> Collection, members |-> members]
Err == [kind |-> "error"]
None == [kind |-> "none"]

IsGC(g) == g.kind = Collection
Areal(g) == g.kind \in {"Polygon", "MultiPolygon"}
Lineal(g) == g.kind \in {"LineString", "MultiLineString"}
Pointal(g) == g.kind \in {"Point", "MultiPoint"}

(* Geometry.IsEmpty: a multi-geometry is empty when it has no members, not *)
(* when all its members are; the one part of an empty atom is the empty    *)
(* set.                                                                    *)
IsEmpty(g) ==
  IF IsGC(g) THEN g.members = <<>>
  ELSE g.parts = <<>> \/ (g.kind \in {"Polygon", "LineString", "Point"} /\ g.parts[1] = {})

NonEmpty(parts) == SelectSeq(parts, LAMBDA p : p # {})

(* A Multi geometry, or its only part alone. *)
Packed(k, parts) == Geom(IF Len(parts) = 1 THEN Single(k) ELSE k, parts)

-----------------------------------------------------------------------------
(***************************************************************************)
(* The dimension-wise unions.                                              *)
(***************************************************************************)
(* unionAllAreal on rectangles: the runs of positions they cover.          *)
Runs(parts) ==
  LET all == UNION ToSet(parts)
      Run(x) == {y \in all : \A z \in (IF x < y THEN x..y ELSE y..x) : z \in all}
      starts == SetToSortSeq({x \in all : x - 1 \notin all}, <)
  IN  [i \in DOMAIN starts |-> Run(starts[i])]

(* Variant: only the first two polygons are merged. *)
UnionFirstTwo(parts) ==
  IF parts = <<>> THEN Geom("Polygon", <<{}>>)
  ELSE LET n == IF Len(parts) < 2 THEN 1 ELSE 2
       IN  Packed("MultiPolygon", Runs(SubSeq(parts, 1, n)) \o SubSeq(parts, n + 1, Len(parts)))

(* unionAllAreal: no polygon gives the empty one, one is returned as is.   *)
UnionAllAreal(parts) ==
  IF parts = <<>> THEN Geom("Polygon", <<{}>>) ELSE Packed("MultiPolygon", Runs(parts))

(* The first occurrence of every point. *)
Deduped(pts) ==
  SelectSeq([i \in DOMAIN pts |-> IF \E j \in 1..(i - 1) : pts[j] = pts[i] THEN {} ELSE pts[i]],
            LAMBDA p : p # {})

DedupeMultiPoint(parts) == Packed("MultiPoint", Deduped(parts))

(* predicate.Covers between parts of these shapes. *)
Covers(p, q) == q \subseteq p

(* Variant: the lines are not tested against the polygons. *)
AbsorbedPoints(f) ==
  LET areal == Runs(f.polys)
      pts == SelectSeq(f.points, LAMBDA p :
               ~\E a \in ToSet(areal) \cup ToSet(f.lines) : Covers(a, p))
  IN  [f EXCEPT !.points = pts]

(* Lines under the areal union are dropped, then the points under it or    *)
(* under one of the lines that are left.                                   *)
Absorbed(f) ==
  LET areal == Runs(f.polys)
      lines == SelectSeq(f.lines, LAMBDA l : ~\E a \in ToSet(areal) : Covers(a, l))
      pts == SelectSeq(f.points, LAMBDA p :
               ~\E a \in ToSet(areal) \cup ToSet(lines) : Covers(a, p))
  IN  [f EXCEPT !.lines = lines, !.points = pts]

(* The members of the result, one of each dimension that is left. *)
Members(f) ==
  LET a == Absorbed(f)
  IN  (IF a.polys = <<>> THEN <<>> ELSE <<UnionAllAreal(a.polys)>>)
      \o (IF a.lines = <<>> THEN <<>> ELSE <<Packed("MultiLineString", a.lines)>>)
      \o (IF a.points = <<>> THEN <<>> ELSE <<DedupeMultiPoint(a.points)>>)

(* Variant: a single dimension is not unwrapped. *)
AnswerWrapped(f) == GC(Members(f))

Answer(f) ==
  LET m == Members(f)
  IN  IF Len(m) = 1 THEN m[1] ELSE GC(m)

(* What a frame takes over from the union of a nested collection: there is *)
(* no case for a collection.                                               *)
Absorb(f, sub) ==
  CASE Areal(sub)   -> [f EXCEPT !.polys = @ \o sub.parts]
    [] Lineal(sub)  -> [f EXCEPT !.lines = @ \o sub.parts]
    [] Pointal(sub) -> [f EXCEPT !.points = @ \o sub.parts]
    [] OTHER        -> f

-----------------------------------------------------------------------------
VARIABLES
  input,    \* the operand of the running call
  stack,    \* the frames of the recursion, the innermost last
  result,   \* what the running call returned
  pass,     \* the call: the second one is on the result of the first
  before    \* the result of the first call

vars == <<input, stack, result, pass, before>>

Init ==
  /\ input \in Inputs
  /\ stack = <<>> /\ result = None
  /\ pass = 1 /\ before = None

Top == Last(stack)
Idle == stack = <<>> /\ result = None

Frame(g) == [todo |-> g.members, polys |-> <<>>, lines |-> <<>>, points |-> <<>>]

(***************************************************************************)
(* UnaryUnion, by type.                                                    *)
(***************************************************************************)
AsIs ==
  /\ Idle
  /\ IsEmpty(input) \/ input.kind \in {"Point", "LineString", "Polygon", "MultiLineString"}
  /\ result' = input
  /\ UNCHANGED <<input, stack, pass, before>>

MultiPoint ==
  /\ Idle /\ ~IsEmpty(input) /\ input.kind = "MultiPoint"
  /\ result' = DedupeMultiPoint(input.parts)
  /\ UNCHANGED <<input, stack, pass, before>>

MultiPolygon ==
  /\ Idle /\ ~IsEmpty(input) /\ input.kind = "MultiPolygon"
  /\ result' = UnionAllAreal(NonEmpty(input.parts))
  /\ UNCHANGED <<input, stack, pass, before>>

Enter ==
  /\ Idle /\ ~IsEmpty(input) /\ IsGC(input)
  /\ stack' = <<Frame(input)>>
  /\ UNCHANGED <<input, result, pass, before>>

(***************************************************************************)
(* unionGeometryCollection.                                                *)
(***************************************************************************)
Reads(f) == f.todo # <<>>
Member == Top.todo[1]
Rest(f) == [f EXCEPT !.todo = Tail(@)]
Put(f) == [stack EXCEPT ![Len(stack)] = f]

SkipEmpty ==
  /\ stack # <<>> /\ Reads(Top) /\ IsEmpty(Member)
  /\ stack' = Put(Rest(Top))
  /\ UNCHANGED <<input, result, pass, before>>

(* Variant: the parts are not tested for emptiness. *)
TakeAll ==
  /\ stack # <<>> /\ Reads(Top) /\ ~IsEmpty(Member) /\ ~IsGC(Member)
  /\ stack' = Put(Absorb(Rest(Top), Member))
  /\ UNCHANGED <<input, result, pass, before>>

(* Polygon and MultiPolygon, LineString and MultiLineString, Point and     *)
(* MultiPoint: the non-empty parts join the class of their dimension.      *)
Take ==
  /\ stack # <<>> /\ Reads(Top) /\ ~IsEmpty(Member) /\ ~IsGC(Member)
  /\ stack' = Put(Absorb(Rest(Top), Geom(Member.kind, NonEmpty(Member.parts))))
  /\ UNCHANGED <<input, result, pass, before>>

Descend ==
  /\ stack # <<>> /\ Reads(Top) /\ ~IsEmpty(Member) /\ IsGC(Member)
  /\ stack' = Append(Put(Rest(Top)), Frame(Member))
  /\ UNCHANGED <<input, result, pass, before>>

(* The unions after the member loop, and the caller's switch on them. *)
Return ==
  /\ stack # <<>> /\ ~Reads(Top)
  /\ LET sub == Answer(Top)
         n == Len(stack) - 1
     IN  IF n = 0
         THEN stack' = <<>> /\ result' = sub
         ELSE /\ stack' = [SubSeq(stack, 1, n) EXCEPT ![n] = Absorb(@, sub)]
              /\ UNCHANGED result
  /\ UNCHANGED <<input, pass, before>>

(* The areal union fails, and so does every call of the recursion. *)
Fail ==
  /\ \/ stack # <<>> /\ ~Reads(Top) /\ Len(Top.polys) > 1
     \/ Idle /\ input.kind = "MultiPolygon" /\ Len(NonEmpty(input.parts)) > 1
  /\ stack' = <<>> /\ result' = Err
  /\ UNCHANGED <<input, pass, before>>

(* The caller unions the result again. *)
Again ==
  /\ pass = 1 /\ result \notin {None, Err}
  /\ input' = result /\ before' = result
  /\ result' = None /\ pass' = 2
  /\ UNCHANGED stack

Done == (result = Err \/ (pass = 2 /\ result # None)) /\ UNCHANGED vars

Next ==
  \/ AsIs \/ MultiPoint \/ MultiPolygon \/ Enter
  \/ SkipEmpty \/ Take \/ Descend \/ Return \/ Fail
  \/ Again \/ Done

Spec == Init /\ [][Next]_vars

-----------------------------------------------------------------------------
Answered == result \notin {None, Err}

(* The atoms of a geometry, however deep in it, in the order they appear.  *)
RECURSIVE Atoms(_)
Atoms(g) ==
  IF IsGC(g)
  THEN FlattenSeq([i \in DOMAIN g.members |-> Atoms(g.members[i])])
  ELSE [i \in DOMAIN g.parts |->
          [dim |-> IF Areal(g) THEN 2 ELSE IF Lineal(g) THEN 1 ELSE 0, at |-> g.parts[i]]]

Positions(g) == UNION {a.at : a \in ToSet(Atoms(g))}

OfDim(g, d) ==
  LET s == SelectSeq(Atoms(g), LAMBDA a : a.dim = d /\ a.at # {})
  IN  [i \in DOMAIN s |-> s[i].at]

(* The result read off the atoms, without frames or nesting. *)
Flat(g) ==
  [areas  |-> Runs(OfDim(g, 2)),
   lines  |-> SelectSeq(OfDim(g, 1), LAMBDA l :
                \E x \in l : \A a \in ToSet(OfDim(g, 2)) : x \notin a),
   points |-> Deduped(SelectSeq(OfDim(g, 0), LAMBDA p :
                \A a \in ToSet(OfDim(g, 2)) \cup ToSet(OfDim(g, 1)) : ~(p \subseteq a)))]

Classes(g) == {d \in 0..2 : OfDim(g, d) # <<>>}

TypeOK ==
  /\ pass \in 0..2
  /\ result.kind \in {"none", "error", Collection, "Polygon", "MultiPolygon",
                      "LineString", "MultiLineString", "Point", "MultiPoint"}
  /\ \A i \in DOMAIN stack : \A c \in {stack[i].polys, stack[i].lines, stack[i].points} :
       \A p \in ToSet(c) : p # {} /\ p \subseteq Int
  /\ result # None => stack = <<>>

(* The answer for a collection is the one for the flat list of its atoms:  *)
(* nesting changes nothing; and any answer is a collection if and only if  *)
(* more than one dimension survives; and a union of a union changes        *)
(* nothing.  (collectAtoms, assembleResult.)                               *)
AsFlattened ==
  /\ Answered /\ IsGC(input) =>
       Flat(input) = [areas |-> OfDim(result, 2), lines |-> OfDim(result, 1),
                      points |-> OfDim(result, 0)]
  /\ Answered /\ Positions(input) # {} =>
       (IsGC(result) <=> Cardinality(Classes(result)) > 1)
  /\ pass = 2 /\ result # None => result \in {before, Err}

(* No position of the operand is lost. *)
NothingLost == Answered => Positions(result) = Positions(input)
=============================================================================
