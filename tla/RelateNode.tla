----------------------------- MODULE RelateNode -----------------------------
(***************************************************************************)
(* A node of the relate engine: the edges of both operands that leave one  *)
(* point, in counterclockwise order, each with the location of its left    *)
(* side, its right side and the edge itself in both operands.  A node is a *)
(* function from the directions of its edges; the entry of a direction     *)
(* holds one record of locations for each operand (TRUE is operand A).     *)
(***************************************************************************)
EXTENDS Planar

\* The elements of a set in a fixed order, and in the order of Less.
Listed(S) == FoldSet(LAMBDA x, seq : Append(seq, x), <<>>, S)
Sorted(S, Less(_, _)) == SortSeq(Listed(S), Less)

NoSide == -1

NoSides == [dim |-> NoSide, left |-> NoSide, right |-> NoSide, on |-> NoSide]

\* The locations a new edge has in its own operand: the interior is to the
\* right of a forward area edge and to the left of a reverse one.
NewSides(dim, isForward) ==
    IF dim = DimL
    THEN [dim |-> DimL, left |-> Exterior, right |-> Exterior, on |-> Interior]
    ELSE [dim |-> DimA, on |-> Boundary,
          left |-> IF isForward THEN Exterior ELSE Interior,
          right |-> IF isForward THEN Interior ELSE Exterior]

\* merge: an interior side stays; a line edge becomes an area edge, never
\* the other way.
MergedSide(old, new) == IF old = Interior THEN Interior ELSE new

MergedSides(old, new) ==
    IF old.dim = NoSide THEN new
    ELSE LET raised == old.dim = DimL /\ new.dim = DimA
         IN  [dim |-> IF raised THEN DimA ELSE old.dim,
              on |-> IF raised THEN Boundary ELSE old.on,
              left |-> MergedSide(old.left, new.left),
              right |-> MergedSide(old.right, new.right)]

\* addEdge: merge with the edge of the same direction or insert a new one.
AddEdge(node, isA, d, dim, isForward) ==
    LET new == NewSides(dim, isForward)
    IN  IF d \in DOMAIN node
        THEN [node EXCEPT ![d][isA] = MergedSides(@, new)]
        ELSE [e \in DOMAIN node \cup {d} |->
                 IF e = d THEN [op \in BOOLEAN |-> IF op = isA THEN new ELSE NoSides]
                          ELSE node[e]]

\* setAreaInterior, for the edges in D.
InsideArea(node, isA, D) ==
    [d \in DOMAIN node |->
        IF d \in D
        THEN [node[d] EXCEPT ![isA] = [@ EXCEPT !.left = Interior, !.right = Interior, !.on = Interior]]
        ELSE node[d]]

\* The edge before and the edge after the edge in direction d, the edge
\* itself when it is the only one.
NextEdge(node, d) ==
    CHOOSE e \in DOMAIN node :
        \A f \in DOMAIN node : (e # d \/ f = d) /\ (f # d => Turn(d, e) <= Turn(d, f))

PrevEdge(node, d) ==
    CHOOSE e \in DOMAIN node :
        \A f \in DOMAIN node : (e # d \/ f = d) /\ (f # d => Turn(e, d) <= Turn(f, d))

\* updateEdgesInArea: the edges strictly between the two edges of the corner,
\* and every other edge when they have the same direction.
InCorner(node, d0, d1) ==
    {e \in DOMAIN node \ {d0} : Turn(d0, e) < (IF d0 = d1 THEN 8 ELSE Turn(d0, d1))}

\* A section is the pair of edges by which one line or ring passes the node:
\* v0 and v1 are the directions of the previous and the next vertex, -1 at
\* the end of a line.
NoVertex == -1

AddLineEdge(node, s, v) == IF v = NoVertex THEN node ELSE AddEdge(node, s.isA, v, DimL, FALSE)

AddLineSection(node, s) == AddLineEdge(AddLineEdge(node, s, s.v0), s, s.v1)

Cornered(node, s) == InsideArea(node, s.isA, InCorner(node, s.v0, s.v1))

\* A slip to check against: the first edge of a corner is not updated.
Unentered(node, s) == node

\* updateIfAreaPrev and updateIfAreaNext
Entered(node, s) ==
    InsideArea(node, s.isA, {d \in {s.v0} : node[PrevEdge(node, d)][s.isA].left = Interior})

Left(node, s) ==
    InsideArea(node, s.isA, {d \in {s.v1} : node[NextEdge(node, d)][s.isA].right = Interior})

AddAreaSection(node, s) ==
    Left(Entered(Cornered(AddEdge(AddEdge(node, s.isA, s.v0, DimA, FALSE), s.isA, s.v1, DimA, TRUE),
                          s), s), s)

AddSection(s, node) == IF s.dim = DimL THEN AddLineSection(node, s) ELSE AddAreaSection(node, s)

\* PolygonNodeConverter: the sections of one polygon in the order of their
\* first edges, one for each direction.  A shell and the holes after it, up
\* to the next shell, give corners that enclose the interior of the polygon;
\* so do the holes alone when no shell passes the node.
Converted(sections) ==
    LET n == Len(sections)
        after(i) == IF i = n THEN 1 ELSE i + 1
        shells == {i \in 1..n : sections[i].shell}
        first == CHOOSE i \in shells : \A j \in shells : i <= j
        \* position i of the walk that starts at the first shell
        at(k) == ((first + k - 2) % n) + 1
        shellOf(k) == LET before == {j \in 1..k : sections[at(j)].shell}
                      IN  at(CHOOSE j \in before : \A i \in before : i <= j)
        corner(i, outVertex) == [sections[i] EXCEPT !.v1 = outVertex, !.shell = TRUE]
    IN  IF n = 1 THEN sections
        ELSE IF shells = {}
        THEN [i \in 1..n |-> [sections[1] EXCEPT !.v0 = sections[i].v0,
                                                 !.v1 = sections[after(i)].v1, !.shell = TRUE]]
        ELSE [k \in 1..n |->
                 LET here == at(k)
                     next == after(here)
                 IN  corner(here, IF sections[next].shell THEN sections[shellOf(k)].v1
                                                          ELSE sections[next].v1)]

\* The sections of one polygon sorted by the angle of v0, the first of each
\* angle kept (extractUniquePolygonSections).
ByAngle(sections) ==
    LET one(d) == CHOOSE i \in DOMAIN sections :
                      sections[i].v0 = d /\ \A j \in DOMAIN sections : sections[j].v0 = d => i <= j
        angles == Sorted({sections[i].v0 : i \in DOMAIN sections}, <)
    IN  [k \in DOMAIN angles |-> sections[one(angles[k])]]

\* CreateNode: operand B first, lines before areas, the sections of each
\* polygon together and converted.
SectionLess(s, t) ==
    \/ ~s.isA /\ t.isA
    \/ s.isA = t.isA /\ s.dim < t.dim
    \/ s.isA = t.isA /\ s.dim = t.dim /\ s.id < t.id
    \/ s.isA = t.isA /\ s.dim = t.dim /\ s.id = t.id /\ s.ring < t.ring

EmptyNode == [d \in {} |-> 0]

CreateNode(sections) ==
    LET sorted == SortSeq(sections, SectionLess)
        polygon(s) == <<s.isA, s.id>>
        starts == {i \in DOMAIN sorted : i = 1 \/ polygon(sorted[i]) # polygon(sorted[i - 1])}
        group(i) == SelectSeq(sorted, LAMBDA s : polygon(s) = polygon(sorted[i]))
        ordered == FlattenSeq([k \in 1..Cardinality(starts) |->
                      LET g == group(Sorted(starts, <)[k])
                      IN  IF g[1].dim = DimA THEN Converted(ByAngle(g)) ELSE g])
    IN  FoldLeft(LAMBDA node, s : AddSection(s, node), EmptyNode, ordered)

\* finishNode: everything is inside, or the unknown locations take the left
\* side of the nearest edge before them that has one.
Finished(node, isA, isAreaInterior) ==
    LET known == {d \in DOMAIN node : node[d][isA].dim # NoSide}
        sided == {d \in DOMAIN node : node[d][isA].left # NoSide}
        source(d) == CHOOSE k \in sided : \A j \in sided : Turn(k, d) <= Turn(j, d)
        fill(loc, from) == IF loc = NoSide THEN from ELSE loc
    IN  IF isAreaInterior THEN InsideArea(node, isA, DOMAIN node)
        ELSE IF known = {} THEN node
        ELSE [d \in DOMAIN node |->
                 LET from == node[source(d)][isA].left
                     own == node[d][isA]
                 IN  [node[d] EXCEPT ![isA] = [own EXCEPT !.left = fill(@, from),
                                                          !.right = fill(@, from),
                                                          !.on = fill(@, from)]]]

HasExteriorEdge(node, isA) ==
    \E d \in DOMAIN node : Exterior \in {node[d][isA].left, node[d][isA].right}

\* isPolygonNodeCrossing: the corner b0, b1 has one side within the corner
\* a0, a1 and the other outside it.
BetweenAngles(d, lo, hi) ==
    IF d \in {lo, hi} THEN 0 ELSE IF lo < d /\ d < hi THEN 1 ELSE -1

IsNodeCrossing(a0, a1, b0, b1) ==
    LET lo == IF a0 > a1 THEN a1 ELSE a0
        hi == IF a0 > a1 THEN a0 ELSE a1
        c0 == BetweenAngles(b0, lo, hi)
        c1 == BetweenAngles(b1, lo, hi)
    IN  c0 # 0 /\ c1 # 0 /\ c0 # c1

=============================================================================
