----------------------------- MODULE LineGraph -----------------------------
(***************************************************************************)
(* The graph that the line tools build from the lines they are given: the  *)
(* nodes are the ends of the lines, and a line is walked in its own        *)
(* direction or against it.  A walk is a sequence of pairs of a line and   *)
(* whether it is walked in reverse.                                        *)
(***************************************************************************)
EXTENDS Planar

VARIABLE lines     \* the lines, each a sequence of points

LineIds == DOMAIN lines

FirstOf(l) == lines[l][1]
LastOf(l) == Last(lines[l])

EndsOf(l) == {FirstOf(l), LastOf(l)}

IsClosed(l) == FirstOf(l) = LastOf(l)

\* A line in one of its directions.
Points(h) == IF h[2] THEN Reverse(lines[h[1]]) ELSE lines[h[1]]

Halves == LineIds \X BOOLEAN

From(h) == Points(h)[1]
To(h) == Last(Points(h))
Twin(h) == <<h[1], ~h[2]>>

\* The line l walked away from its end p.
Away(l, p) == <<l, FirstOf(l) # p>>

\* A closed line counts twice at its node.
Degree(p) == Cardinality({h \in Halves : From(h) = p})

LinesAt(p) == {l \in LineIds : p \in EndsOf(l)}

LinesOf(walk) == {walk[i][1] : i \in DOMAIN walk}

\* The points of a walk, each joining point once.
Coordinates(walk) ==
    FoldLeft(LAMBDA pts, h : pts \o (IF pts = <<>> THEN Points(h) ELSE Tail(Points(h))), <<>>, walk)

\* Twice the signed area of a closed sequence of points.
ShoelaceOf(pts) ==
    FoldLeft(LAMBDA sum, i : sum + pts[i][1] * pts[i + 1][2] - pts[i + 1][1] * pts[i][2],
             0, [i \in 1..(Len(pts) - 1) |-> i])

=============================================================================
