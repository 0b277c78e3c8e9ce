------------------------------- MODULE MCDcel -------------------------------
(* All plane graphs on the edges and one diagonal of two adjacent squares. *)
EXTENDS Dcel

MCVertex == (0..2) \X (0..1)

MCSegments ==
  {<<<<x, y>>, <<x + 1, y>>>> : x \in 0..1, y \in 0..1}
    \cup {<<<<x, 0>>, <<x, 1>>>> : x \in 0..2}
    \cup {<<<<0, 0>>, <<1, 1>>>>}

MCHalfEdge == MCSegments \cup {Twin(e) : e \in MCSegments}

(* The direction of a half-edge in the order of pseudoAngle. *)
Direction(e) ==
  LET dx == e[2][1] - e[1][1]
      dy == e[2][2] - e[1][2]
  IN  CASE dx < 0 /\ dy < 0 -> 1
        [] dx = 0 /\ dy < 0 -> 2
        [] dx > 0 /\ dy < 0 -> 3
        [] dx > 0 /\ dy = 0 -> 4
        [] dx > 0 /\ dy > 0 -> 5
        [] dx = 0 /\ dy > 0 -> 6
        [] dx < 0 /\ dy > 0 -> 7
        [] OTHER -> 8

(* A set in the order of a numbering of its members. *)
InOrder(S, number(_)) ==
  [i \in 1..Cardinality(S) |->
     CHOOSE x \in S : Cardinality({y \in S : number(y) <= number(x)}) = i]

MCSorted ==
  [O \in UNION {SUBSET {e \in MCHalfEdge : e[1] = v} : v \in MCVertex} |->
     InOrder(O, Direction)]

(* Every set of segments once; and two operands that share segments, given *)
(* in opposite directions, with a degenerate segment between them.         *)
Number(e) == 10 * (2 * e[1][1] + e[1][2]) + Direction(e)
Given(S, t) ==
  LET s == InOrder(S, Number)
  IN  [i \in DOMAIN s |-> [from |-> s[i][1], to |-> s[i][2], tag |-> t]]
Reversed(S, t) ==
  LET s == InOrder(S, Number)
  IN  [i \in DOMAIN s |-> [from |-> s[i][2], to |-> s[i][1], tag |-> t]]

Dot == <<[from |-> <<1, 1>>, to |-> <<1, 1>>, tag |-> "clip"]>>
LeftSquare == {e \in MCSegments : e[2][1] <= 1 /\ e # <<<<0, 0>>, <<1, 1>>>>}

MCInputs ==
  {Given(S, "subj") : S \in SUBSET MCSegments}
    \cup {Given(LeftSquare, "subj") \o Dot \o Reversed(S, "clip") :
            S \in {T \in SUBSET MCSegments : Cardinality(T) = 3}}
=============================================================================
