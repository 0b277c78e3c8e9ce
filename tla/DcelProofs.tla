----------------------------- MODULE DcelProofs -----------------------------
(***************************************************************************)
(* Proofs about Dcel, for every noded input and every angular order.       *)
(*                                                                         *)
(* The face trace is right because "next" is injective: a cyclic rotation  *)
(* around each vertex after the twin involution.  A walk can then only be  *)
(* left through the half-edge it was entered by, so that it neither runs   *)
(* into an older face nor back into its own middle.  IInv says what the    *)
(* loops have built so far; Fresh is the step of the argument that needs   *)
(* the injectivity.                                                        *)
(***************************************************************************)
EXTENDS Dcel, SequenceTheorems, TLAPS

Succ(o, e) == Predecessor(o, Twin(e))

Proper(s) == s.from = s.to \/ <<s.from, s.to>> \in HalfEdge

(* What the build has made of the segments it has read. *)
BuildInv ==
  /\ segs \in Seq(Segment)
  /\ \A i \in 1..Len(segs) : Proper(segs[i])
  /\ DOMAIN tags \subseteq HalfEdge
  /\ tags \in [DOMAIN tags -> SUBSET Tag]
  /\ edges \in Seq(HalfEdge)
  /\ \A i \in 1..Len(edges) : edges[i] \in DOMAIN tags
  /\ \A e \in DOMAIN tags : \E i \in 1..Len(edges) : edges[i] = e
  /\ TwinsAgree
  /\ stage \in {"build", "outer", "inner"}
  /\ pos \in Nat \ {0}
  /\ stage = "build" => faces = <<>> /\ pos = 1 /\ face = <<>>

(* The sorted fan of every vertex. *)
Rotation(o, E) ==
  \A v \in Vertex :
    /\ o[v] \in Seq({e \in E : e[1] = v})
    /\ \A e \in E : e[1] = v => \E i \in 1..Len(o[v]) : o[v][i] = e
    /\ \A i, j \in 1..Len(o[v]) : o[v][i] = o[v][j] => i = j

(* A path of next, all of it claimed by face k of f and none of it twice.  *)
IsPath(s, k, f, o, E) ==
  /\ \A i \in 1..Len(s) : s[i] \in E /\ f[s[i]] = k
  /\ \A i, j \in 1..Len(s) : s[i] = s[j] => i = j
  /\ \A i \in 1..Len(s) : i > 1 => s[i] = Succ(o, s[i - 1])

IsClosed(s, o) == Len(s) > 0 /\ Succ(o, s[Len(s)]) = s[1]

IsListed(e, s) == \E i \in 1..Len(s) : s[i] = e

(* The faces traced so far are paths of next, the finished ones cycles. *)
TraceInv ==
  stage # "build" =>
    /\ Rotation(out, DOMAIN tags)
    /\ face \in [DOMAIN tags -> 0..Len(faces)]
    /\ faces \in Seq(Seq(HalfEdge))
    /\ pos <= Len(edges) + 1
    /\ \A j \in 1..Len(edges) : j < pos => face[edges[j]] # 0
    /\ \A e \in DOMAIN tags : face[e] # 0 => IsListed(e, faces[face[e]])
    /\ \A k \in 1..Len(faces) : IsPath(faces[k], k, face, out, DOMAIN tags)
    /\ \A k \in 1..Len(faces) :
         k < Len(faces) \/ stage = "outer" => IsClosed(faces[k], out)

(* Where the inner loop stands in the face it is walking. *)
WalkInv ==
  stage = "inner" =>
    /\ Len(faces) > 0
    /\ pos <= Len(edges)
    /\ cur \in DOMAIN tags
    /\ LET s == faces[Len(faces)]
       IN  IF Len(s) = 0
           THEN cur = edges[pos] /\ face[cur] = 0
           ELSE /\ s[1] = edges[pos]
                /\ cur = Succ(out, s[Len(s)])
                /\ cur # edges[pos]

IInv == BuildInv /\ TraceInv /\ WalkInv

-----------------------------------------------------------------------------
(* The twin of a half-edge is a half-edge, and its twin is the first one. *)
LEMMA TwinType ==
  ASSUME NEW e \in HalfEdge
  PROVE  Twin(e) \in HalfEdge /\ Twin(Twin(e)) = e /\ Twin(e) # e /\ Twin(e)[1] = e[2]
  BY HalfEdgeAssumption DEF Twin

(* A half-edge stands where its index says, in the fan of its origin. *)
LEMMA OutIdxType ==
  ASSUME NEW E \in SUBSET HalfEdge, NEW o, Rotation(o, E), NEW e \in E
  PROVE  /\ Len(o[e[1]]) \in Nat
         /\ OutIdx(o, e) \in 1..Len(o[e[1]])
         /\ o[e[1]][OutIdx(o, e)] = e
         /\ \A i \in 1..Len(o[e[1]]) : o[e[1]][i] \in E /\ o[e[1]][i][1] = e[1]
         /\ \A i, j \in 1..Len(o[e[1]]) : o[e[1]][i] = o[e[1]][j] => i = j
<1> DEFINE v == e[1]
           s == o[v]
           O == {x \in E : x[1] = v}
<1>1. v \in Vertex
  BY HalfEdgeAssumption
<1>2. /\ s \in Seq(O)
      /\ \E i \in 1..Len(s) : s[i] = e
      /\ \A i, j \in 1..Len(s) : s[i] = s[j] => i = j
  BY <1>1 DEF Rotation
<1>3. DOMAIN s = 1..Len(s) /\ Len(s) \in Nat /\ \A i \in 1..Len(s) : s[i] \in O
  BY <1>2
<1>4. OutIdx(o, e) = CHOOSE i \in 1..Len(s) : s[i] = e
  BY <1>3 DEF OutIdx
<1> HIDE DEF s
<1>5. OutIdx(o, e) \in 1..Len(s) /\ s[OutIdx(o, e)] = e
  BY <1>2, <1>4
<1> QED BY <1>2, <1>3, <1>5 DEF s

(* The half-edge after e is a half-edge of the list that leaves the vertex *)
(* e goes to.                                                              *)
LEMMA SuccType ==
  ASSUME NEW E \in SUBSET HalfEdge, NEW o, Rotation(o, E),
         \A x \in E : Twin(x) \in E,
         NEW e \in E
  PROVE  /\ Succ(o, e) \in E
         /\ Succ(o, e)[1] = e[2]
<1> DEFINE t == Twin(e)
           s == o[t[1]]
           i == OutIdx(o, t)
<1>1. t \in E /\ t[1] = e[2]
  BY TwinType
<1>2. /\ Len(s) \in Nat /\ i \in 1..Len(s)
      /\ \A j \in 1..Len(s) : s[j] \in E /\ s[j][1] = t[1]
  BY <1>1, OutIdxType
<1>3. Succ(o, e) = IF i = 1 THEN s[Len(s)] ELSE s[i - 1]
  BY DEF Succ, Predecessor
<1> HIDE DEF i, s, t
<1> QED BY <1>1, <1>2, <1>3

(* Two half-edges are never followed by the same one. *)
LEMMA SuccInjective ==
  ASSUME NEW E \in SUBSET HalfEdge, NEW o, Rotation(o, E),
         \A x \in E : Twin(x) \in E,
         NEW e \in E, NEW f \in E, Succ(o, e) = Succ(o, f)
  PROVE  e = f
<1> DEFINE v == e[2]
           s == o[v]
           i == OutIdx(o, Twin(e))
           j == OutIdx(o, Twin(f))
<1>1. f[2] = v
  BY SuccType
<1>2. /\ Twin(e) \in E /\ Twin(e)[1] = v
      /\ Twin(f) \in E /\ Twin(f)[1] = v
  BY <1>1, TwinType
<1>6a. \A t \in E : t[1] = v =>
        /\ Len(s) \in Nat /\ OutIdx(o, t) \in 1..Len(s) /\ s[OutIdx(o, t)] = t
        /\ \A x, y \in 1..Len(s) : s[x] = s[y] => x = y
  <2> TAKE t \in E
  <2> HAVE t[1] = v
  <2>1. /\ Len(o[t[1]]) \in Nat
        /\ OutIdx(o, t) \in 1..Len(o[t[1]])
        /\ o[t[1]][OutIdx(o, t)] = t
        /\ \A x, y \in 1..Len(o[t[1]]) : o[t[1]][x] = o[t[1]][y] => x = y
    BY OutIdxType
  <2> QED BY <2>1
<1>3. /\ Len(s) \in Nat /\ i \in 1..Len(s) /\ s[i] = Twin(e)
      /\ \A x, y \in 1..Len(s) : s[x] = s[y] => x = y
  BY <1>2, <1>6a
<1>4. j \in 1..Len(s) /\ s[j] = Twin(f)
  BY <1>2, <1>6a
<1>5. /\ Succ(o, e) = IF i = 1 THEN s[Len(s)] ELSE s[i - 1]
      /\ Succ(o, f) = IF j = 1 THEN s[Len(s)] ELSE s[j - 1]
  BY <1>2 DEF Succ, Predecessor
<1> HIDE DEF i, j, s
<1>6. i = j
  <2> DEFINE a == IF i = 1 THEN Len(s) ELSE i - 1
             b == IF j = 1 THEN Len(s) ELSE j - 1
  <2>1. a \in 1..Len(s) /\ b \in 1..Len(s)
    BY <1>3, <1>4
  <2>2. s[a] = s[b]
    BY <1>5
  <2>3. a = b
    BY <1>3, <2>1, <2>2
  <2> QED BY <1>3, <1>4, <2>3
<1>7. Twin(e) = Twin(f)
  BY <1>3, <1>4, <1>6
<1> QED BY <1>7, TwinType

-----------------------------------------------------------------------------
(* The invariant holds before the first segment is read. *)
LEMMA InitIInv == Init => IInv
<1> SUFFICES ASSUME Init PROVE IInv
  OBVIOUS
<1>1. segs \in Seq(Segment) /\ \A i \in 1..Len(segs) : Proper(segs[i])
  BY InputsAssumption DEF Init, Proper
<1>2. BuildInv
  BY <1>1 DEF Init, BuildInv, TwinsAgree
<1> QED BY <1>2 DEF Init, IInv, TraceInv, WalkInv

(* Reading a segment: what is left is still proper input. *)
LEMMA TailInput ==
  ASSUME segs \in Seq(Segment), \A i \in 1..Len(segs) : Proper(segs[i]),
         segs # <<>>, segs' = Tail(segs)
  PROVE  /\ segs' \in Seq(Segment)
         /\ \A i \in 1..Len(segs') : Proper(segs'[i])
         /\ segs[1] \in Segment /\ Proper(segs[1])
<1>1. Len(segs) \in Nat /\ Len(segs) > 0
  BY EmptySeq
<1>2. segs' \in Seq(Segment) /\ Len(segs') = Len(segs) - 1
  BY <1>1
<1>3. \A i \in 1..Len(segs') : segs'[i] = segs[i + 1]
  BY <1>1, <1>2
<1> QED BY <1>1, <1>2, <1>3

(* Each branch of the segment loop keeps the list symmetric and complete. *)
LEMMA BuildStep ==
  ASSUME IInv, SkipDegenerate \/ Merge \/ Emit
  PROVE  IInv'
<1> USE DEF Built
<1>0. stage = "build" /\ segs # <<>> /\ segs' = Tail(segs)
      /\ UNCHANGED <<out, face, faces, pos, stage, cur>>
  BY DEF SkipDegenerate, Merge, Emit
<1>1. /\ segs' \in Seq(Segment)
      /\ \A i \in 1..Len(segs') : Proper(segs'[i])
      /\ segs[1] \in Segment /\ Proper(segs[1])
  BY <1>0, TailInput DEF IInv, BuildInv
<1> DEFINE e == <<segs[1].from, segs[1].to>>
<1>2. CASE SkipDegenerate
  <2>1. UNCHANGED <<tags, edges>>
    BY <1>2 DEF SkipDegenerate
  <2> QED BY <1>0, <1>1, <2>1 DEF IInv, BuildInv, TraceInv, WalkInv, TwinsAgree
<1>3. ASSUME segs[1].from # segs[1].to
      PROVE  /\ e \in HalfEdge /\ Twin(e) \in HalfEdge
             /\ Twin(Twin(e)) = e /\ Twin(e) # e /\ segs[1].tag \in Tag
  BY <1>1, <1>3, TwinType DEF Proper, Segment
<1>4. CASE Merge
  <2>1. /\ e \in DOMAIN tags /\ edges' = edges
        /\ tags' = [tags EXCEPT ![e] = @ \cup {segs[1].tag},
                                ![Twin(e)] = @ \cup {segs[1].tag}]
        /\ segs[1].from # segs[1].to
    BY <1>4 DEF Merge
  <2>2. Twin(e) \in DOMAIN tags /\ tags[Twin(e)] = tags[e]
    BY <2>1 DEF IInv, BuildInv, TwinsAgree
  <2> DEFINE S == tags[e] \cup {segs[1].tag}
  <2>3. /\ DOMAIN tags' = DOMAIN tags
        /\ \A x \in DOMAIN tags :
             tags'[x] = IF x \in {e, Twin(e)} THEN S ELSE tags[x]
        /\ tags' \in [DOMAIN tags -> SUBSET Tag]
    BY <1>3, <2>1, <2>2 DEF IInv, BuildInv
  <2>4. TwinsAgree'
    <3> SUFFICES ASSUME NEW x \in DOMAIN tags
                 PROVE  Twin(x) \in DOMAIN tags /\ tags'[Twin(x)] = tags'[x]
      BY <2>3 DEF TwinsAgree
    <3>1. Twin(x) \in DOMAIN tags /\ tags[Twin(x)] = tags[x]
      BY DEF IInv, BuildInv, TwinsAgree
    <3>2. x \in HalfEdge /\ Twin(Twin(x)) = x
      BY TwinType DEF IInv, BuildInv
    <3>3. x \in {e, Twin(e)} <=> Twin(x) \in {e, Twin(e)}
      BY <1>3, <2>1, <3>2
    <3> QED BY <2>3, <3>1, <3>3
  <2> HIDE DEF S
  <2>5. BuildInv'
    BY <1>0, <1>1, <2>1, <2>3, <2>4 DEF IInv, BuildInv
  <2> QED BY <1>0, <2>5 DEF IInv, TraceInv, WalkInv
<1>5. CASE Emit
  <2>1. /\ e \notin DOMAIN tags /\ edges' = edges \o <<e, Twin(e)>>
        /\ tags' = [x \in DOMAIN tags \cup {e, Twin(e)} |->
                      IF x \in {e, Twin(e)} THEN {segs[1].tag} ELSE tags[x]]
        /\ segs[1].from # segs[1].to
    BY <1>5 DEF Emit
  <2>2. /\ DOMAIN tags' = DOMAIN tags \cup {e, Twin(e)}
        /\ DOMAIN tags' \subseteq HalfEdge
        /\ tags' \in [DOMAIN tags' -> SUBSET Tag]
    BY <1>3, <2>1 DEF IInv, BuildInv
  <2>3. /\ edges' \in Seq(HalfEdge) /\ Len(edges') = Len(edges) + 2
        /\ \A i \in 1..Len(edges) : edges'[i] = edges[i]
        /\ edges'[Len(edges) + 1] = e /\ edges'[Len(edges) + 2] = Twin(e)
    BY <1>3, <2>1 DEF IInv, BuildInv
  <2>4. \A i \in 1..Len(edges') : edges'[i] \in DOMAIN tags'
    <3> SUFFICES ASSUME NEW i \in 1..Len(edges') PROVE edges'[i] \in DOMAIN tags'
      OBVIOUS
    <3>1. i \in 1..Len(edges) \/ i = Len(edges) + 1 \/ i = Len(edges) + 2
      BY <2>3 DEF IInv, BuildInv
    <3> QED BY <2>2, <2>3, <3>1 DEF IInv, BuildInv
  <2>5. \A x \in DOMAIN tags' : \E i \in 1..Len(edges') : edges'[i] = x
    <3> SUFFICES ASSUME NEW x \in DOMAIN tags'
                 PROVE  \E i \in 1..Len(edges') : edges'[i] = x
      OBVIOUS
    <3>0. Len(edges) \in Nat
      BY DEF IInv, BuildInv
    <3>1. CASE x \in DOMAIN tags
      <4>1. PICK i \in 1..Len(edges) : edges[i] = x
        BY <3>1 DEF IInv, BuildInv
      <4>2. i \in 1..Len(edges') /\ edges'[i] = x
        BY <2>3, <3>0, <4>1
      <4> QED BY <4>2
    <3>2. CASE x = e
      <4>1. Len(edges) + 1 \in 1..Len(edges')
        BY <2>3, <3>0
      <4> QED BY <2>3, <3>2, <4>1
    <3>3. CASE x = Twin(e)
      <4>1. Len(edges) + 2 \in 1..Len(edges')
        BY <2>3, <3>0
      <4> QED BY <2>3, <3>3, <4>1
    <3> QED BY <2>2, <3>1, <3>2, <3>3
  <2>6. TwinsAgree'
    <3> SUFFICES ASSUME NEW x \in DOMAIN tags'
                 PROVE  Twin(x) \in DOMAIN tags' /\ tags'[Twin(x)] = tags'[x]
      BY DEF TwinsAgree
    <3>1. x \in HalfEdge /\ Twin(Twin(x)) = x
      BY <2>2, TwinType
    <3>2. CASE x \in {e, Twin(e)}
      <4>1. Twin(x) \in {e, Twin(e)}
        BY <1>3, <2>1, <3>2
      <4> QED BY <2>1, <2>2, <3>2, <4>1
    <3>3. CASE x \notin {e, Twin(e)}
      <4>1. Twin(x) \notin {e, Twin(e)}
        BY <1>3, <2>1, <3>1, <3>3
      <4>2. x \in DOMAIN tags /\ Twin(x) \in DOMAIN tags /\ tags[Twin(x)] = tags[x]
        BY <2>2, <3>3 DEF IInv, BuildInv, TwinsAgree
      <4> QED BY <2>1, <2>2, <3>3, <4>1, <4>2
    <3> QED BY <3>2, <3>3
  <2>7. BuildInv'
    BY <1>0, <1>1, <2>2, <2>3, <2>4, <2>5, <2>6 DEF IInv, BuildInv
  <2> QED BY <1>0, <2>7 DEF IInv, TraceInv, WalkInv
<1> QED BY <1>2, <1>4, <1>5

(* The sort gives every vertex its fan, and no half-edge has a face yet. *)
LEMMA WireStep ==
  ASSUME IInv, Wire
  PROVE  IInv'
<1> USE DEF Built
<1>1. /\ stage = "build" /\ stage' = "outer" /\ segs = <<>>
      /\ out' = [v \in Vertex |-> Sorted[{e \in DOMAIN tags : e[1] = v}]]
      /\ face' = [e \in DOMAIN tags |-> 0]
      /\ UNCHANGED <<segs, tags, edges, faces, pos, cur>>
      /\ faces = <<>> /\ pos = 1
  BY DEF Wire, IInv, BuildInv
<1>2. BuildInv'
  BY <1>1 DEF IInv, BuildInv, TwinsAgree
<1>3. Rotation(out', DOMAIN tags)
  <2> SUFFICES ASSUME NEW v \in Vertex
               PROVE  /\ out'[v] \in Seq({e \in DOMAIN tags : e[1] = v})
                      /\ \A e \in DOMAIN tags : e[1] = v =>
                           \E i \in 1..Len(out'[v]) : out'[v][i] = e
                      /\ \A i, j \in 1..Len(out'[v]) : out'[v][i] = out'[v][j] => i = j
    BY DEF Rotation
  <2> DEFINE O == {e \in DOMAIN tags : e[1] = v}
             s == Sorted[O]
  <2>1. O \in SUBSET Fan(v)
    BY DEF IInv, BuildInv, Fan
  <2> HIDE DEF O
  <2>2. /\ s \in Seq(O)
        /\ \A e \in O : \E i \in DOMAIN s : s[i] = e
        /\ \A i, j \in DOMAIN s : s[i] = s[j] => i = j
    BY <2>1, SortedAssumption
  <2>3. out'[v] = s
    BY <1>1 DEF O
  <2> HIDE DEF s
  <2>4. DOMAIN s = 1..Len(s)
    BY <2>2
  <2>5. \A e \in DOMAIN tags : e[1] = v => e \in O
    BY DEF O
  <2>6. s \in Seq({e \in DOMAIN tags : e[1] = v})
    BY <2>2 DEF O
  <2> QED BY <2>2, <2>3, <2>4, <2>5, <2>6
<1>4. TraceInv'
  BY <1>1, <1>3 DEF TraceInv, IInv, BuildInv
<1> QED BY <1>1, <1>2, <1>4 DEF IInv, WalkInv

-----------------------------------------------------------------------------
(* What the trace knows while it runs: the list is symmetric, its fans are *)
(* sorted, and the half-edges have their types.                            *)
LEMMA TraceTypes ==
  ASSUME IInv, Built
  PROVE  /\ DOMAIN tags \in SUBSET HalfEdge
         /\ Rotation(out, DOMAIN tags)
         /\ \A x \in DOMAIN tags : Twin(x) \in DOMAIN tags
         /\ \A x \in DOMAIN tags : Succ(out, x) \in DOMAIN tags
         /\ \A x, y \in DOMAIN tags : Succ(out, x) = Succ(out, y) => x = y
         /\ Len(faces) \in Nat /\ DOMAIN faces = 1..Len(faces)
         /\ \A k \in 1..Len(faces) : faces[k] \in Seq(HalfEdge) /\ Len(faces[k]) \in Nat
         /\ Len(edges) \in Nat /\ DOMAIN edges = 1..Len(edges)
         /\ DOMAIN face = DOMAIN tags
         /\ \A x \in DOMAIN tags : face[x] \in 0..Len(faces)
<1>1. /\ DOMAIN tags \in SUBSET HalfEdge
      /\ \A x \in DOMAIN tags : Twin(x) \in DOMAIN tags
      /\ edges \in Seq(HalfEdge)
  BY DEF IInv, BuildInv, TwinsAgree
<1>2. /\ Rotation(out, DOMAIN tags)
      /\ faces \in Seq(Seq(HalfEdge))
      /\ face \in [DOMAIN tags -> 0..Len(faces)]
  BY DEF IInv, TraceInv, Built
<1>3. \A x \in DOMAIN tags : Succ(out, x) \in DOMAIN tags
  BY <1>1, <1>2, SuccType
<1>4. \A x, y \in DOMAIN tags : Succ(out, x) = Succ(out, y) => x = y
  BY <1>1, <1>2, SuccInjective
<1>5. Len(faces) \in Nat /\ DOMAIN faces = 1..Len(faces)
  BY <1>2
<1>6. \A k \in 1..Len(faces) : faces[k] \in Seq(HalfEdge) /\ Len(faces[k]) \in Nat
  BY <1>2, <1>5
<1>7. Len(edges) \in Nat /\ DOMAIN edges = 1..Len(edges)
  BY <1>1
<1> QED BY <1>1, <1>2, <1>3, <1>4, <1>5, <1>6, <1>7

(* The half-edge the inner loop is about to claim has no face yet: it can  *)
(* only have been claimed through its one predecessor, which is the        *)
(* half-edge claimed last, or as the start of a face, which would be the   *)
(* start of this one or of a cycle that is closed.                         *)
LEMMA Fresh ==
  ASSUME IInv, stage = "inner"
  PROVE  cur \in DOMAIN tags /\ face[cur] = 0
<1> DEFINE n == Len(faces)
           s == faces[n]
           m == face[cur]
<1>1. Built
  BY DEF Built
<1>2. cur \in DOMAIN tags /\ n \in Nat /\ n > 0 /\ n \in 1..n /\ Len(s) \in Nat
  BY <1>1, TraceTypes DEF IInv, WalkInv
<1>3. SUFFICES ASSUME m # 0 PROVE FALSE
  BY <1>2
<1>4. Len(s) # 0 /\ s[1] = edges[pos] /\ cur = Succ(out, s[Len(s)]) /\ cur # edges[pos]
  BY <1>3 DEF IInv, WalkInv
<1>5. m \in 1..n /\ Len(faces[m]) \in Nat
  BY <1>1, <1>2, <1>3, TraceTypes
<1>6. PICK i \in 1..Len(faces[m]) : faces[m][i] = cur
  BY <1>1, <1>2, <1>3 DEF IInv, TraceInv, Built, IsListed
<1>7. \A k \in 1..n : \A j \in 1..Len(faces[k]) :
        /\ faces[k][j] \in DOMAIN tags /\ face[faces[k][j]] = k
        /\ j > 1 => faces[k][j] = Succ(out, faces[k][j - 1])
  BY <1>1 DEF IInv, TraceInv, Built, IsPath
<1>8. \A j, k \in 1..Len(s) : s[j] = s[k] => j = k
  BY <1>1, <1>2 DEF IInv, TraceInv, Built, IsPath
<1>9. \A x, y \in DOMAIN tags : Succ(out, x) = Succ(out, y) => x = y
  BY <1>1, TraceTypes
<1>10. Len(s) \in 1..Len(s) /\ s[Len(s)] \in DOMAIN tags /\ face[s[Len(s)]] = n
  BY <1>2, <1>4, <1>7
<1>11. CASE i > 1
  <2>1. i - 1 \in 1..Len(faces[m])
    BY <1>5, <1>6, <1>11
  <2>2. faces[m][i - 1] \in DOMAIN tags /\ face[faces[m][i - 1]] = m
    BY <1>5, <1>7, <2>1
  <2>3. Succ(out, faces[m][i - 1]) = Succ(out, s[Len(s)])
    BY <1>4, <1>5, <1>6, <1>7, <1>11
  <2>4. faces[m][i - 1] = s[Len(s)]
    BY <1>9, <1>10, <2>2, <2>3
  <2>5. m = n
    BY <1>10, <2>2, <2>4
  <2>6. i - 1 = Len(s)
    BY <1>8, <1>10, <2>1, <2>4, <2>5
  <2> QED BY <1>2, <1>6, <2>5, <2>6
<1>12. CASE i = 1
  <2>1. CASE m = n
    BY <1>4, <1>6, <1>12, <2>1
  <2>2. CASE m < n
    <3> DEFINE l == Len(faces[m])
    <3>1. l > 0 /\ Succ(out, faces[m][l]) = faces[m][1]
      BY <1>1, <1>5, <2>2 DEF IInv, TraceInv, Built, IsClosed
    <3>2. l \in 1..l
      BY <1>5, <3>1
    <3>3. faces[m][l] \in DOMAIN tags /\ face[faces[m][l]] = m
      BY <1>5, <1>7, <3>2
    <3>4. faces[m][l] = s[Len(s)]
      BY <1>4, <1>6, <1>9, <1>10, <1>12, <3>1, <3>3
    <3> QED BY <1>2, <1>5, <1>10, <2>2, <3>3, <3>4
  <2> QED BY <1>2, <1>5, <2>1, <2>2
<1> QED BY <1>5, <1>6, <1>11, <1>12

(* The outer loop moves past a half-edge that has a face. *)
LEMMA SkipTracedStep ==
  ASSUME IInv, SkipTraced
  PROVE  IInv'
<1>1. /\ stage = "outer" /\ pos <= Len(edges) /\ face[edges[pos]] # 0
      /\ pos' = pos + 1 /\ pos \in Nat \ {0} /\ Len(edges) \in Nat
      /\ UNCHANGED <<segs, tags, edges, out, face, faces, stage, cur>>
  BY DEF SkipTraced, IInv, BuildInv
<1>2. BuildInv'
  BY <1>1 DEF IInv, BuildInv, TwinsAgree
<1>3. \A j \in 1..Len(edges) : j < pos + 1 => face[edges[j]] # 0
  BY <1>1 DEF IInv, TraceInv
<1>4. TraceInv'
  BY <1>1, <1>3 DEF IInv, TraceInv
<1> QED BY <1>1, <1>2, <1>4 DEF IInv, WalkInv

(* A new face is an empty path. *)
LEMMA StartFaceStep ==
  ASSUME IInv, StartFace
  PROVE  IInv'
<1> DEFINE n == Len(faces)
<1>1. /\ stage = "outer" /\ pos <= Len(edges) /\ face[edges[pos]] = 0
      /\ stage' = "inner" /\ cur' = edges[pos] /\ faces' = Append(faces, <<>>)
      /\ UNCHANGED <<segs, tags, edges, out, face, pos>>
      /\ Built
  BY DEF StartFace, Built
<1>2. BuildInv'
  BY <1>1 DEF IInv, BuildInv, TwinsAgree
<1>3. /\ n \in Nat /\ Len(faces') = n + 1 /\ faces' \in Seq(Seq(HalfEdge))
      /\ \A k \in 1..n : faces'[k] = faces[k]
      /\ faces'[n + 1] = <<>> /\ Len(faces'[n + 1]) = 0
  BY <1>1, EmptySeq DEF IInv, TraceInv, Built
<1>4. pos \in 1..Len(edges) /\ edges[pos] \in DOMAIN tags
  BY <1>1 DEF IInv, BuildInv
<1>5. WalkInv'
  BY <1>1, <1>3, <1>4 DEF WalkInv
<1>6. face \in [DOMAIN tags -> 0..n]
  BY <1>1 DEF IInv, TraceInv, Built
<1>7. face' \in [DOMAIN tags' -> 0..Len(faces')]
  BY <1>1, <1>3, <1>6
<1>8. \A e \in DOMAIN tags : face[e] # 0 => IsListed(e, faces'[face[e]])
  <2> SUFFICES ASSUME NEW e \in DOMAIN tags, face[e] # 0
               PROVE  IsListed(e, faces'[face[e]])
    OBVIOUS
  <2>1. face[e] \in 1..n
    BY <1>3, <1>6
  <2> QED BY <1>1, <1>3, <2>1 DEF IInv, TraceInv, Built
<1>9. \A k \in 1..Len(faces') : IsPath(faces'[k], k, face, out, DOMAIN tags)
  <2> TAKE k \in 1..Len(faces')
  <2>1. CASE k = n + 1
    BY <1>3, <2>1 DEF IsPath
  <2>2. CASE k \in 1..n
    BY <1>1, <1>3, <2>2 DEF IInv, TraceInv, Built
  <2> QED BY <1>3, <2>1, <2>2
<1>10. \A k \in 1..Len(faces') : k < Len(faces') => IsClosed(faces'[k], out)
  <2> TAKE k \in 1..Len(faces')
  <2> HAVE k < Len(faces')
  <2>1. k \in 1..n
    BY <1>3
  <2> QED BY <1>1, <1>3, <2>1 DEF IInv, TraceInv, Built
<1>11. TraceInv'
  <2>1. /\ Rotation(out, DOMAIN tags)
        /\ pos <= Len(edges) + 1
        /\ \A j \in 1..Len(edges) : j < pos => face[edges[j]] # 0
    BY <1>1 DEF IInv, TraceInv, Built
  <2> QED BY <1>1, <1>3, <1>7, <1>8, <1>9, <1>10, <2>1 DEF TraceInv
<1> QED BY <1>2, <1>5, <1>11 DEF IInv

(* One turn of the inner loop lengthens the path by a fresh half-edge, and *)
(* closes it when it comes back to the start.                              *)
LEMMA WalkStep ==
  ASSUME IInv, Walk
  PROVE  IInv'
<1> DEFINE n == Len(faces)
           s == faces[n]
           t == Append(s, cur)
           back == Succ(out, cur) = edges[pos]
<1>1. /\ stage = "inner" /\ Built
      /\ face' = [face EXCEPT ![cur] = n]
      /\ faces' = [faces EXCEPT ![n] = t]
      /\ cur' = Succ(out, cur)
      /\ stage' = IF back THEN "outer" ELSE "inner"
      /\ pos' = IF back THEN pos + 1 ELSE pos
      /\ UNCHANGED <<segs, tags, edges, out>>
  BY DEF Walk, NextEdge, Succ, Built
<1>2. /\ cur \in DOMAIN tags /\ face[cur] = 0
      /\ n \in Nat /\ n > 0 /\ n \in 1..n /\ DOMAIN faces = 1..n
      /\ s \in Seq(HalfEdge) /\ Len(s) \in Nat
      /\ cur \in HalfEdge /\ Succ(out, cur) \in DOMAIN tags
  BY <1>1, Fresh, TraceTypes DEF WalkInv, IInv
<1>3. /\ faces \in Seq(Seq(HalfEdge)) /\ face \in [DOMAIN tags -> 0..n]
      /\ Rotation(out, DOMAIN tags)
      /\ pos <= Len(edges) /\ pos \in Nat \ {0} /\ Len(edges) \in Nat
      /\ \A k \in 1..n : IsPath(faces[k], k, face, out, DOMAIN tags)
  <2>1. /\ faces \in Seq(Seq(HalfEdge)) /\ face \in [DOMAIN tags -> 0..n]
        /\ Rotation(out, DOMAIN tags)
        /\ \A k \in 1..n : IsPath(faces[k], k, face, out, DOMAIN tags)
    BY <1>1 DEF IInv, TraceInv
  <2>2. edges \in Seq(HalfEdge) /\ pos \in Nat \ {0}
    BY DEF IInv, BuildInv
  <2>3. pos <= Len(edges)
    BY <1>1 DEF IInv, WalkInv
  <2> QED BY <2>1, <2>2, <2>3
<1>4. /\ t \in Seq(HalfEdge) /\ Len(t) = Len(s) + 1 /\ t[Len(s) + 1] = cur
      /\ \A i \in 1..Len(s) : t[i] = s[i]
  BY <1>2
<1>5. t[1] = edges[pos]
  <2>1. CASE Len(s) = 0
    BY <1>1, <1>4, <2>1 DEF IInv, WalkInv
  <2>2. CASE Len(s) # 0
    <3>1. s[1] = edges[pos] /\ 1 \in 1..Len(s)
      BY <1>1, <1>2, <2>2 DEF IInv, WalkInv
    <3> QED BY <1>4, <3>1
  <2> QED BY <2>1, <2>2
<1>6. t[Len(s) + 1] = cur /\ (Len(s) > 0 => cur = Succ(out, s[Len(s)]))
  BY <1>1, <1>2, <1>4 DEF IInv, WalkInv
<1> HIDE DEF t
<1>7. /\ faces' \in Seq(Seq(HalfEdge)) /\ Len(faces') = n
      /\ faces'[n] = t
      /\ \A k \in 1..n : k # n => faces'[k] = faces[k]
  <2>1. faces' = [faces EXCEPT ![n] = t]
    BY <1>1
  <2>2. t \in Seq(HalfEdge)
    BY <1>4
  <2>3. /\ [faces EXCEPT ![n] = t] \in Seq(Seq(HalfEdge))
        /\ Len([faces EXCEPT ![n] = t]) = n
        /\ \A j \in 1..n : [faces EXCEPT ![n] = t][j] = IF j = n THEN t ELSE faces[j]
    BY <1>2, <1>3, <2>2, ExceptSeq
  <2> QED BY <1>2, <2>1, <2>3
<1>8. /\ face' \in [DOMAIN tags -> 0..n] /\ face'[cur] = n
      /\ \A x \in DOMAIN tags : x # cur => face'[x] = face[x]
  BY <1>1, <1>2, <1>3
<1>9. \A k \in 1..n : \A i \in 1..Len(faces[k]) :
        /\ faces[k][i] \in DOMAIN tags /\ faces[k][i] # cur
        /\ face'[faces[k][i]] = k
  <2> TAKE k \in 1..n
  <2> TAKE i \in 1..Len(faces[k])
  <2>1. faces[k][i] \in DOMAIN tags /\ face[faces[k][i]] = k
    BY <1>3 DEF IsPath
  <2>2. faces[k][i] # cur
    BY <1>2, <2>1
  <2> QED BY <1>8, <2>1, <2>2
<1>10. IsPath(t, n, face', out, DOMAIN tags)
  <2>0. IsPath(s, n, face, out, DOMAIN tags)
    BY <1>2, <1>3
  <2>1. \A i \in 1..Len(t) : i \in 1..Len(s) \/ i = Len(s) + 1
    BY <1>2, <1>4
  <2>2. \A i \in 1..Len(s) : s[i] \in DOMAIN tags /\ s[i] # cur /\ face'[s[i]] = n
    BY <1>2, <1>9
  <2>3. \A i \in 1..Len(t) : t[i] \in DOMAIN tags /\ face'[t[i]] = n
    BY <1>2, <1>4, <1>8, <2>1, <2>2
  <2>4. \A i, j \in 1..Len(t) : t[i] = t[j] => i = j
    BY <1>2, <1>4, <2>0, <2>1, <2>2 DEF IsPath
  <2>5. \A i \in 1..Len(t) : i > 1 => t[i] = Succ(out, t[i - 1])
    <3> TAKE i \in 1..Len(t)
    <3> HAVE i > 1
    <3>1. CASE i = Len(s) + 1
      <4>1. i - 1 = Len(s) /\ i - 1 \in 1..Len(s)
        BY <1>2, <3>1
      <4> QED BY <1>2, <1>4, <1>6, <3>1, <4>1
    <3>2. CASE i \in 1..Len(s)
      <4>1. i - 1 \in 1..Len(s)
        BY <1>2, <3>2
      <4> QED BY <1>4, <2>0, <3>2, <4>1 DEF IsPath
    <3> QED BY <2>1, <3>1, <3>2
  <2> QED BY <2>3, <2>4, <2>5 DEF IsPath
<1>11. \A k \in 1..n : IsPath(faces'[k], k, face', out, DOMAIN tags)
  <2> TAKE k \in 1..n
  <2>1. CASE k = n
    BY <1>7, <1>10, <2>1
  <2>2. CASE k # n
    <3>1. faces'[k] = faces[k] /\ IsPath(faces[k], k, face, out, DOMAIN tags)
      BY <1>3, <1>7, <2>2
    <3> QED BY <1>9, <3>1 DEF IsPath
  <2> QED BY <2>1, <2>2
<1>12. \A e \in DOMAIN tags : face'[e] # 0 => IsListed(e, faces'[face'[e]])
  <2> SUFFICES ASSUME NEW e \in DOMAIN tags, face'[e] # 0
               PROVE  IsListed(e, faces'[face'[e]])
    OBVIOUS
  <2>1. CASE e = cur
    <3>1. Len(s) + 1 \in 1..Len(t)
      BY <1>2, <1>4
    <3>2. IsListed(cur, t)
      BY <1>4, <3>1 DEF IsListed
    <3> QED BY <1>7, <1>8, <2>1, <3>2
  <2>2. CASE e # cur
    <3>1. face'[e] = face[e] /\ face[e] \in 1..n
      BY <1>2, <1>3, <1>8, <2>2
    <3>2. PICK i \in 1..Len(faces[face[e]]) : faces[face[e]][i] = e
      BY <1>1, <3>1 DEF IInv, TraceInv, Built, IsListed
    <3>3. CASE face[e] = n
      <4>1. i \in 1..Len(t) /\ t[i] = e
        BY <1>2, <1>4, <3>2, <3>3
      <4> QED BY <1>7, <3>1, <3>3, <4>1 DEF IsListed
    <3>4. CASE face[e] # n
      BY <1>7, <3>1, <3>2, <3>4 DEF IsListed
    <3> QED BY <3>3, <3>4
  <2> QED BY <2>1, <2>2
<1>13. Len(t) > 0 /\ t[Len(t)] = cur
  BY <1>2, <1>4
<1>14. \A k \in 1..n : k < n \/ back => IsClosed(faces'[k], out)
  <2> TAKE k \in 1..n
  <2> HAVE k < n \/ back
  <2>1. CASE k = n
    <3>0. ~(k < n)
      BY <1>2, <2>1
    <3>1. back /\ faces'[k] = t
      BY <1>7, <2>1, <3>0
    <3>2. Succ(out, cur) = t[1]
      BY <1>5, <3>1
    <3>3. Succ(out, t[Len(t)]) = t[1]
      BY <1>13, <3>2
    <3> QED BY <1>13, <3>1, <3>3 DEF IsClosed
  <2>2. CASE k # n
    BY <1>1, <1>2, <1>7, <2>2 DEF IInv, TraceInv, Built
  <2> QED BY <2>1, <2>2
<1>15. pos' \in Nat \ {0} /\ pos' <= Len(edges) + 1
  BY <1>1, <1>3
<1>16. \A j \in 1..Len(edges) : j < pos' => face'[edges[j]] # 0
  <2> TAKE j \in 1..Len(edges)
  <2> HAVE j < pos'
  <2>1. edges[j] \in DOMAIN tags
    BY DEF IInv, BuildInv
  <2>2. CASE j < pos
    <3>1. face[edges[j]] # 0
      BY <1>1, <2>2 DEF IInv, TraceInv, Built
    <3> QED BY <1>2, <1>8, <2>1, <3>1
  <2>3. CASE j >= pos
    <3>1. j = pos
      BY <1>1, <1>3, <2>3
    <3>2. 1 \in 1..Len(t)
      BY <1>2, <1>4
    <3>3. face'[t[1]] = n
      BY <1>10, <3>2 DEF IsPath
    <3> QED BY <1>2, <1>5, <3>1, <3>3
  <2> QED BY <1>3, <2>2, <2>3
<1>17. BuildInv'
  BY <1>1, <1>15 DEF IInv, BuildInv, TwinsAgree
<1>18. stage' = "outer" => back
  BY <1>1
<1>19. TraceInv'
  <2>1. /\ out' = out /\ tags' = tags /\ edges' = edges
        /\ Len(faces') = n /\ faces' \in Seq(Seq(HalfEdge))
        /\ Rotation(out, DOMAIN tags) /\ face' \in [DOMAIN tags -> 0..n]
        /\ pos' <= Len(edges) + 1
    BY <1>1, <1>3, <1>7, <1>8, <1>15
  <2>2. \A k \in 1..n : k < n \/ stage' = "outer" => IsClosed(faces'[k], out)
    BY <1>14, <1>18
  <2> HIDE DEF n
  <2> QED BY <2>1, <2>2, <1>11, <1>12, <1>16 DEF TraceInv
<1>20. WalkInv'
  <2> SUFFICES ASSUME ~back PROVE WalkInv'
    BY <1>1 DEF WalkInv
  <2>1. cur' \in DOMAIN tags' /\ Len(faces') > 0 /\ pos' = pos /\ edges' = edges
    BY <1>1, <1>2, <1>7
  <2>2. /\ faces'[Len(faces')] = t /\ Len(t) # 0 /\ t[1] = edges[pos]
        /\ cur' = Succ(out', t[Len(t)]) /\ cur' # edges[pos]
    <3>1. cur' = Succ(out', cur) /\ cur' # edges[pos]
      BY <1>1
    <3>2. Len(t) # 0
      BY <1>2, <1>4
    <3> QED BY <1>5, <1>7, <1>13, <3>1, <3>2
  <2> QED BY <1>3, <2>1, <2>2 DEF WalkInv
<1> QED BY <1>17, <1>19, <1>20 DEF IInv

-----------------------------------------------------------------------------
(* Every step keeps the invariant. *)
LEMMA NextIInv == IInv /\ [Next]_vars => IInv'
<1> SUFFICES ASSUME IInv, [Next]_vars PROVE IInv'
  OBVIOUS
<1>1. CASE SkipDegenerate \/ Merge \/ Emit
  BY <1>1, BuildStep
<1>2. CASE Wire
  BY <1>2, WireStep
<1>3. CASE SkipTraced
  BY <1>3, SkipTracedStep
<1>4. CASE StartFace
  BY <1>4, StartFaceStep
<1>5. CASE Walk
  BY <1>5, WalkStep
<1>6. CASE UNCHANGED vars
  BY <1>6 DEF vars, IInv, BuildInv, TraceInv, WalkInv, TwinsAgree
<1> QED BY <1>1, <1>2, <1>3, <1>4, <1>5, <1>6 DEF Next, Done

(* The invariant holds in every behaviour. *)
LEMMA Invariance == Spec => []IInv
<1>1. Init => IInv
  BY InitIInv
<1>2. IInv /\ [Next]_vars => IInv'
  BY NextIInv
<1> QED BY <1>1, <1>2, PTL DEF Spec

(* The list and the faces have their types throughout the build and the    *)
(* trace (dcel.go:238-482).                                                *)
THEOREM TypeCorrect == Spec => []TypeOK
<1>1. IInv => TypeOK
  <2> SUFFICES ASSUME IInv PROVE TypeOK
    OBVIOUS
  <2>1. /\ segs \in Seq(Segment) /\ DOMAIN tags \subseteq HalfEdge
        /\ edges \in Seq(HalfEdge) /\ pos \in Nat \ {0}
        /\ stage \in {"build", "outer", "inner"}
        /\ \A e \in DOMAIN tags : tags[e] \subseteq Tag
    BY DEF IInv, BuildInv
  <2>2. faces \in Seq(Seq(HalfEdge))
    BY EmptySeq DEF IInv, BuildInv, TraceInv
  <2>3. Built => face \in [DOMAIN tags -> 0..Len(faces)] /\ pos <= Len(edges) + 1
    BY DEF IInv, TraceInv, Built
  <2>4. stage = "inner" => cur \in DOMAIN tags /\ pos <= Len(edges)
    BY DEF IInv, WalkInv
  <2> QED BY <2>1, <2>2, <2>3, <2>4 DEF TypeOK, Built
<1> QED BY <1>1, Invariance, PTL

(* However often and in whichever direction a segment is given, the two    *)
(* half-edges of it carry the same operands (dcel.go:262-305).             *)
THEOREM Symmetric == Spec => []TwinsAgree
<1>1. IInv => TwinsAgree
  BY DEF IInv, BuildInv
<1> QED BY <1>1, Invariance, PTL

(* No half-edge is on two faces, or on one twice (dcel.go:447-482).        *)
THEOREM Disjoint == Spec => []OneFace
<1>1. IInv => OneFace
  <2> SUFFICES ASSUME IInv, Built PROVE OneFace
    BY DEF OneFace
  <2>1. DOMAIN faces = 1..Len(faces)
    BY TraceTypes
  <2>2. \A k \in 1..Len(faces) : DOMAIN faces[k] = 1..Len(faces[k])
    BY TraceTypes
  <2>3. \A e \in DOMAIN tags : face[e] # 0 =>
          face[e] \in 1..Len(faces) /\ IsListed(e, faces[face[e]])
    BY TraceTypes DEF IInv, TraceInv, Built
  <2>4. \A k \in 1..Len(faces) : IsPath(faces[k], k, face, out, DOMAIN tags)
    BY DEF IInv, TraceInv, Built
  <2> QED BY <2>1, <2>2, <2>3, <2>4 DEF OneFace, Listed, IsListed, IsPath
<1> QED BY <1>1, Invariance, PTL

(* When the trace is over the faces are whole cycles of next, and together *)
(* they are all the half-edges: a half-edge and the one after it bound the *)
(* same face (dcel.go:431-482).                                            *)
THEOREM WholeCycles == Spec => []FacesAreCycles
<1>1. IInv => FacesAreCycles
  <2> SUFFICES ASSUME IInv, Traced, NEW e \in DOMAIN tags
               PROVE  face[e] # 0 /\ face[NextEdge(e)] = face[e]
    BY DEF FacesAreCycles
  <2>1. Built /\ stage = "outer" /\ pos > Len(edges) /\ pos \in Nat
    BY DEF Traced, Built, IInv, BuildInv
  <2>2. PICK j \in 1..Len(edges) : edges[j] = e
    BY DEF IInv, BuildInv
  <2>3. j < pos
    BY <2>1, <2>2, TraceTypes
  <2>4. face[e] # 0
    BY <2>1, <2>2, <2>3 DEF IInv, TraceInv
  <2> DEFINE k == face[e]
             s == faces[k]
  <2>5. k \in 1..Len(faces) /\ Len(s) \in Nat
    BY <2>1, <2>4, TraceTypes
  <2>6. PICK i \in 1..Len(s) : s[i] = e
    BY <2>1, <2>4 DEF IInv, TraceInv, IsListed
  <2>7. IsPath(s, k, face, out, DOMAIN tags) /\ IsClosed(s, out)
    BY <2>1, <2>5 DEF IInv, TraceInv
  <2>8. NextEdge(e) = Succ(out, e)
    BY DEF NextEdge, Succ
  <2> HIDE DEF k, s
  <2>9. CASE i < Len(s)
    <3>1. i + 1 \in 1..Len(s) /\ i + 1 > 1 /\ (i + 1) - 1 = i
      BY <2>5, <2>6, <2>9
    <3>2. s[i + 1] = Succ(out, s[i]) /\ face[s[i + 1]] = k
      BY <2>7, <3>1 DEF IsPath
    <3> QED BY <2>4, <2>6, <2>8, <3>2 DEF k
  <2>10. CASE i = Len(s)
    <3>1. Succ(out, s[i]) = s[1] /\ 1 \in 1..Len(s)
      BY <2>5, <2>7, <2>10 DEF IsClosed
    <3>2. face[s[1]] = k
      BY <2>7, <3>1 DEF IsPath
    <3> QED BY <2>4, <2>6, <2>8, <3>1, <3>2 DEF k
  <2> QED BY <2>5, <2>6, <2>9, <2>10
<1> QED BY <1>1, Invariance, PTL

(* A walk never takes a half-edge away from the face of an earlier one     *)
(* (dcel.go:447-482): the assignment is only ever to a half-edge without.  *)
THEOREM Keeps == Spec => NeverReassigned
<1> DEFINE A == \A e \in DOMAIN face : face[e] # 0 => face'[e] = face[e]
<1>1. IInv /\ [Next]_vars => [A]_vars
  <2> SUFFICES ASSUME IInv, Next PROVE A
    BY DEF vars
  <2>1. CASE Walk
    <3>1. face[cur] = 0 /\ face' = [face EXCEPT ![cur] = Len(faces)]
      BY <2>1, Fresh DEF Walk
    <3> QED BY <3>1
  <2>2. CASE Wire
    <3>1. face = <<>>
      BY <2>2 DEF Wire, Built, IInv, BuildInv
    <3> QED BY <3>1
  <2>3. CASE UNCHANGED face
    BY <2>3
  <2> QED BY <2>1, <2>2, <2>3
          DEF Next, SkipDegenerate, Merge, Emit, SkipTraced, StartFace, Done, vars
<1> QED BY <1>1, Invariance, PTL DEF Spec, NeverReassigned
=============================================================================
