-------------------------------- MODULE Dcel --------------------------------
(***************************************************************************)
(* The doubly-connected edge list of internal/overlayng/dcel.go, which     *)
(* every overlay and every buffer builds: buildDCELCore (tag mode) and     *)
(* traceFaceCycles, one step for each iteration of their loops.            *)
(*                                                                         *)
(* A vertex is a point after noding, a half-edge the pair of its origin    *)
(* and its target.  All that is used of the angular sort is that it puts   *)
(* the outgoing half-edges of a vertex in some order without losing or     *)
(* repeating one.                                                          *)
(***************************************************************************)
EXTENDS Integers, Sequences, FiniteSets

CONSTANTS
  Vertex,     \* the points of the noded input
  HalfEdge,   \* the pairs of points a segment may join, in both directions
  Tag,        \* the operands a segment may come from
  Inputs,     \* the noded inputs: sequences of segments
  Sorted      \* Sorted[O]: the half-edges O of one vertex, by angle

Twin(e) == <<e[2], e[1]>>
Fan(v) == {e \in HalfEdge : e[1] = v}
Segment == [from : Vertex, to : Vertex, tag : Tag]

ASSUME HalfEdgeAssumption ==
  /\ HalfEdge \subseteq {e \in Vertex \X Vertex : e[1] # e[2]}
  /\ \A e \in HalfEdge : Twin(e) \in HalfEdge

ASSUME InputsAssumption ==
  \A segs \in Inputs :
    /\ segs \in Seq(Segment)
    /\ \A i \in DOMAIN segs :
         segs[i].from = segs[i].to \/ <<segs[i].from, segs[i].to>> \in HalfEdge

ASSUME SortedAssumption ==
  \A v \in Vertex : \A O \in SUBSET Fan(v) :
    /\ Sorted[O] \in Seq(O)
    /\ \A e \in O : \E i \in DOMAIN Sorted[O] : Sorted[O][i] = e
    /\ \A i, j \in DOMAIN Sorted[O] : Sorted[O][i] = Sorted[O][j] => i = j

-----------------------------------------------------------------------------
VARIABLES
  segs,     \* the segments still to be added
  tags,     \* tags[e]: the operands half-edge e comes from; its domain is
            \* the set of half-edges of the list
  edges,    \* DCEL.Edges, in the order of creation
  out,      \* out[v]: Vertex.Out, once it is sorted
  face,     \* face[e]: the index of e's face, 0 for nil
  faces,    \* faces[k]: Face.Edges of face k
  pos,      \* the index in edges traceFaceCycles has come to
  stage,    \* "build", or the loop of traceFaceCycles that runs
  cur       \* the half-edge the inner loop stands at

vars == <<segs, tags, edges, out, face, faces, pos, stage, cur>>

Built == stage # "build"

Init ==
  /\ segs \in Inputs
  /\ tags = <<>> /\ edges = <<>>
  /\ out = <<>> /\ face = <<>> /\ faces = <<>>
  /\ pos = 1 /\ stage = "build" /\ cur = <<>>

(***************************************************************************)
(* buildDCELCore.                                                          *)
(***************************************************************************)
(* A segment of length zero is skipped. *)
SkipDegenerate ==
  /\ ~Built /\ segs # <<>> /\ segs[1].from = segs[1].to
  /\ segs' = Tail(segs)
  /\ UNCHANGED <<tags, edges, out, face, faces, pos, stage, cur>>

(* Variant: the tag goes to the co-directed half-edge only. *)
MergeForward ==
  LET s == segs[1]
      e == <<s.from, s.to>>
  IN  /\ ~Built /\ segs # <<>> /\ s.from # s.to
      /\ e \in DOMAIN tags
      /\ tags' = [tags EXCEPT ![e] = @ \cup {s.tag}]
      /\ segs' = Tail(segs)
      /\ UNCHANGED <<edges, out, face, faces, pos, stage, cur>>

(* A segment that is there already, in either direction, adds its tag. *)
Merge ==
  LET s == segs[1]
      e == <<s.from, s.to>>
  IN  /\ ~Built /\ segs # <<>> /\ s.from # s.to
      /\ e \in DOMAIN tags
      /\ tags' = [tags EXCEPT ![e] = @ \cup {s.tag}, ![Twin(e)] = @ \cup {s.tag}]
      /\ segs' = Tail(segs)
      /\ UNCHANGED <<edges, out, face, faces, pos, stage, cur>>

(* emitEdgePair. *)
Emit ==
  LET s == segs[1]
      e == <<s.from, s.to>>
  IN  /\ ~Built /\ segs # <<>> /\ s.from # s.to
      /\ e \notin DOMAIN tags
      /\ tags' = [x \in DOMAIN tags \cup {e, Twin(e)} |->
                    IF x \in {e, Twin(e)} THEN {s.tag} ELSE tags[x]]
      /\ edges' = edges \o <<e, Twin(e)>>
      /\ segs' = Tail(segs)
      /\ UNCHANGED <<out, face, faces, pos, stage, cur>>

(* The outgoing half-edges of every vertex are sorted. *)
Wire ==
  /\ ~Built /\ segs = <<>>
  /\ stage' = "outer"
  /\ out' = [v \in Vertex |-> Sorted[{e \in DOMAIN tags : e[1] = v}]]
  /\ face' = [e \in DOMAIN tags |-> 0]
  /\ UNCHANGED <<segs, tags, edges, faces, pos, cur>>

(* Vertex.Out is passed as o: the position of e in the order around its    *)
(* origin.                                                                 *)
OutIdx(o, e) == CHOOSE i \in DOMAIN o[e[1]] : o[e[1]][i] = e

(* Variant: the predecessor of the first edge does not wrap around. *)
PredecessorClamped(o, e) ==
  LET i == OutIdx(o, e)
  IN  IF i = 1 THEN o[e[1]][1] ELSE o[e[1]][i - 1]

(* The outgoing half-edge just before e in the cyclic order. *)
Predecessor(o, e) ==
  LET i == OutIdx(o, e)
  IN  IF i = 1 THEN o[e[1]][Len(o[e[1]])] ELSE o[e[1]][i - 1]

(* HalfEdge.next. *)
NextEdge(e) == Predecessor(out, Twin(e))

(***************************************************************************)
(* traceFaceCycles.                                                        *)
(***************************************************************************)
(* Variant: the outer loop does not move on. *)
SkipTracedStuck ==
  /\ stage = "outer" /\ pos <= Len(edges)
  /\ face[edges[pos]] # 0
  /\ UNCHANGED vars

SkipTraced ==
  /\ stage = "outer" /\ pos <= Len(edges)
  /\ face[edges[pos]] # 0
  /\ pos' = pos + 1
  /\ UNCHANGED <<segs, tags, edges, out, face, faces, stage, cur>>

StartFace ==
  /\ stage = "outer" /\ pos <= Len(edges)
  /\ face[edges[pos]] = 0
  /\ faces' = Append(faces, <<>>)
  /\ cur' = edges[pos]
  /\ stage' = "inner"
  /\ UNCHANGED <<segs, tags, edges, out, face, pos>>

(* Variant: the index of the face is the length after the append. *)
WalkIndexed ==
  LET back == NextEdge(cur) = edges[pos]
  IN  /\ stage = "inner"
      /\ face' = [face EXCEPT ![cur] = Len(faces) + 1]
      /\ faces' = [faces EXCEPT ![Len(faces)] = Append(@, cur)]
      /\ cur' = NextEdge(cur)
      /\ stage' = IF back THEN "outer" ELSE "inner"
      /\ pos' = IF back THEN pos + 1 ELSE pos
      /\ UNCHANGED <<segs, tags, edges, out>>

(* Variant: the walk stops at the end of a dangling edge. *)
WalkHalf ==
  LET k == Len(faces)
      n == NextEdge(cur)
      back == n = edges[pos] \/ n = Twin(cur)
  IN  /\ stage = "inner"
      /\ face' = [face EXCEPT ![cur] = k]
      /\ faces' = [faces EXCEPT ![k] = Append(@, cur)]
      /\ cur' = n
      /\ stage' = IF back THEN "outer" ELSE "inner"
      /\ pos' = IF back THEN pos + 1 ELSE pos
      /\ UNCHANGED <<segs, tags, edges, out>>

(* One turn of the inner loop, which ends when it is back at its start. *)
Walk ==
  LET k == Len(faces)
      back == NextEdge(cur) = edges[pos]
  IN  /\ stage = "inner"
      /\ face' = [face EXCEPT ![cur] = k]
      /\ faces' = [faces EXCEPT ![k] = Append(@, cur)]
      /\ cur' = NextEdge(cur)
      /\ stage' = IF back THEN "outer" ELSE "inner"
      /\ pos' = IF back THEN pos + 1 ELSE pos
      /\ UNCHANGED <<segs, tags, edges, out>>

Traced == stage = "outer" /\ pos > Len(edges)

Done == Traced /\ UNCHANGED vars

Next ==
  \/ SkipDegenerate \/ Merge \/ Emit \/ Wire
  \/ SkipTraced \/ StartFace \/ Walk
  \/ Done

Spec == Init /\ [][Next]_vars

(* The build is one sequential call that runs on. *)
FairSpec == Spec /\ WF_vars(Next)

-----------------------------------------------------------------------------
Listed(e, k) == \E i \in DOMAIN faces[k] : faces[k][i] = e

TypeOK ==
  /\ segs \in Seq(Segment)
  /\ DOMAIN tags \subseteq HalfEdge
  /\ \A e \in DOMAIN tags : tags[e] \subseteq Tag
  /\ edges \in Seq(HalfEdge)
  /\ pos \in Nat \ {0} /\ (pos <= Len(edges) + 1 \/ ~Built)
  /\ faces \in Seq(Seq(HalfEdge))
  /\ stage \in {"build", "outer", "inner"}
  /\ stage = "inner" => cur \in DOMAIN tags /\ pos <= Len(edges)
  /\ Built => face \in [DOMAIN tags -> 0..Len(faces)]

(* The list is symmetric: the twin of a half-edge is in it, with the same  *)
(* tags, however often and in whichever direction its segment was given.   *)
TwinsAgree ==
  \A e \in DOMAIN tags : Twin(e) \in DOMAIN tags /\ tags[Twin(e)] = tags[e]

(* A half-edge is in the boundary list of the face it points to, once, and *)
(* in no other (dcel.go:447-449).                                          *)
OneFace ==
  Built =>
    /\ \A e \in DOMAIN tags : face[e] # 0 => Listed(e, face[e])
    /\ \A k \in DOMAIN faces : \A i \in DOMAIN faces[k] : face[faces[k][i]] = k
    /\ \A k \in DOMAIN faces : \A i, j \in DOMAIN faces[k] :
         faces[k][i] = faces[k][j] => i = j

(* When the trace is over every half-edge has a face, and the face goes on *)
(* with the next half-edge: faces are whole cycles.                        *)
FacesAreCycles ==
  Traced => \A e \in DOMAIN tags : face[e] # 0 /\ face[NextEdge(e)] = face[e]

(* The face of a half-edge is never taken over by a later walk. *)
NeverReassigned ==
  [][\A e \in DOMAIN face : face[e] # 0 => face'[e] = face[e]]_vars

(* The inner loop always finds back to its start. *)
TraceEnds == <>Traced
=============================================================================
