-------------------------- MODULE RelatePredicate --------------------------
(***************************************************************************)
(* The matrix of the relate engine and the predicates that read it.  The   *)
(* matrix has a dimension for each pair of a location in A and a location  *)
(* in B, and the engine only ever raises an entry.  It is modelled by the  *)
(* set of facts <<locA, locB, d>> such that the entry is at least d: an    *)
(* empty entry (F) has no fact, and raising an entry is a union.           *)
(***************************************************************************)
EXTENDS Integers

CONSTANT Predicates   \* the predicates that are evaluated: records, below

\* Locations: exterior, boundary and interior; dimensions of a fact.
Locs == 0..2
Cells == Locs \X Locs
Facts == Locs \X Locs \X (0..2)

\* Entries of a pattern: F is -1, a dimension is itself, * and T are the
\* constants of the code.
DontCare == -2
AtLeastPoint == -3
Entries == -3..2

\* A predicate: how its value follows from the matrix, and, for a pattern,
\* the entry of each cell.  "relateMatrix" is the predicate that is never
\* settled and is read for its matrix.
Kinds == {"matrix", "intersects", "disjoint", "pattern"}

ASSUME PredicatesAssumption ==
    Predicates \subseteq [kind : Kinds, pattern : [Cells -> Entries]]

\* A slip to check against: the exteriors meet in one dimension too many.
StartMatrixOver == {<<0, 0, d>> : d \in 0..3}

\* NewIMPredicate: the exteriors always meet in the plane.
StartMatrix == {<<0, 0, d>> : d \in 0..2}

\* The facts of updateDim(locA, locB, dim).
Raise(locA, locB, dim) == {<<locA, locB, d>> : d \in 0..dim}

\* The entry of the cell is at least d.
AtLeast(matrix, cell, d) == <<cell[1], cell[2], d>> \in matrix

\* The entry is above a concrete entry of the pattern, which cannot be undone.
Exceeds(matrix, cell, entry) ==
    entry \in -1..1 /\ \E d \in 0..2 : d > entry /\ AtLeast(matrix, cell, d)

\* Matches: the entry is the one the pattern asks for.
CellMatches(matrix, cell, entry) ==
    CASE entry = DontCare -> TRUE
      [] entry = AtLeastPoint -> AtLeast(matrix, cell, 0)
      [] entry \in -1..2 -> (entry >= 0 => AtLeast(matrix, cell, entry)) /\ ~Exceeds(matrix, cell, entry)

Matches(matrix, pattern) == \A cell \in Cells : CellMatches(matrix, cell, pattern[cell])

\* The order in which IsDetermined scans the cells.
ScannedBefore(c, d) == c[1] < d[1] \/ (c[1] = d[1] /\ c[2] < d[2])

\* A slip to check against: a T without a value settles the predicate.
IsDeterminedUnset(matrix, pattern) ==
    \E cell \in Cells :
        \/ Exceeds(matrix, cell, pattern[cell])
        \/ pattern[cell] = AtLeastPoint /\ ~AtLeast(matrix, cell, 0)

\* IMPatternMatcher.IsDetermined: a concrete entry is exceeded, and no T
\* without a value comes before it.
IsDetermined(matrix, pattern) ==
    \E cell \in Cells :
        /\ Exceeds(matrix, cell, pattern[cell])
        /\ \A c \in Cells : ScannedBefore(c, cell) /\ pattern[c] = AtLeastPoint => AtLeast(matrix, c, 0)

\* IsIntersection: some update was neither in the exterior of A nor of B.
Intersect(matrix) == \E cell \in Cells : cell[1] # 0 /\ cell[2] # 0 /\ AtLeast(matrix, cell, 0)

\* The value of a predicate on a whole matrix (Finish).
ValueOf(p, matrix) ==
    CASE p.kind = "matrix" -> TRUE
      [] p.kind = "intersects" -> Intersect(matrix)
      [] p.kind = "disjoint" -> ~Intersect(matrix)
      [] p.kind = "pattern" -> Matches(matrix, p.pattern)

\* An update settles the value.
Settles(p, matrix) ==
    \/ p.kind \in {"intersects", "disjoint"} /\ Intersect(matrix)
    \/ p.kind = "pattern" /\ IsDetermined(matrix, p.pattern)

\* What the engine may skip for a predicate.
InteractionCells == {1, 2} \X {1, 2}

RequireInteraction(p) ==
    CASE p.kind = "matrix" -> FALSE
      [] p.kind = "intersects" -> TRUE
      [] p.kind = "disjoint" -> FALSE
      [] p.kind = "pattern" -> \E c \in InteractionCells : p.pattern[c] \in {AtLeastPoint, 0, 1, 2}

RequireSelfNoding(p) == p.kind \in {"matrix", "pattern"}

RequireExteriorCheck(p) == p.kind \in {"matrix", "pattern"}

=============================================================================
