----------------------------- MODULE OverlayGrid ----------------------------
(***************************************************************************)
(* The overlay-NG pipeline of internal/overlayng on exactly noded input:   *)
(* overlayCorePolygonalMixed from the noded edges of the two operands to   *)
(* polygons, lines and points.                                             *)
(*                                                                         *)
(* The operands live on a grid.  The area of an operand is a set of unit   *)
(* cells; its rings visit every grid point they pass, so that noding adds  *)
(* nothing and every edge of the subdivision is a unit edge.  An operand   *)
(* may also have spikes: unit edges its rings walk out and back, which is  *)
(* what snap rounding leaves of a collapsed sliver.  A point a hair to the *)
(* left of an edge is then the cell to the left of it, and the even-odd    *)
(* test of a point against an operand is membership of its cell.           *)
(*                                                                         *)
(* A half-edge is <<x, y, d>>: it leaves the grid point <<x, y>> in        *)
(* direction d, and 0..3 (south, east, north, west) is the order           *)
(* pseudoAngle gives the four directions.                                  *)
(***************************************************************************)
EXTENDS Integers, FiniteSetsExt, SequencesExt

CONSTANTS
  Width, Height,   \* the grid has Width x Height cells
  Tolerance,       \* the side of a cell, as drawn polygons are snapped to it
  Inputs           \* the calls: records [op, subj, clip, drawn, areal]

Cell == (0..Width - 1) \X (0..Height - 1)

Ops == {"intersection", "union", "difference", "symdiff"}
Repairs == {"repair", "canonicalize"}

Driver == INSTANCE OverlayDriver WITH Side <- Width

-----------------------------------------------------------------------------
(* Geometry of unit edges. *)
Origin(e) == <<e[1], e[2]>>
Dx == <<0, 1, 0, -1>>
Dy == <<-1, 0, 1, 0>>
Target(e) == <<e[1] + Dx[e[3] + 1], e[2] + Dy[e[3] + 1]>>
Twin(e) == <<Target(e)[1], Target(e)[2], (e[3] + 2) % 4>>
Turn(v, d, k) == <<v[1], v[2], (d + k) % 4>>

(* The cell a point nudged perpendicular to the left of e falls in. *)
LeftCell(e) ==
  CASE e[3] = 0 -> <<e[1], e[2] - 1>>
    [] e[3] = 1 -> <<e[1], e[2]>>
    [] e[3] = 2 -> <<e[1] - 1, e[2]>>
    [] OTHER   -> <<e[1] - 1, e[2] - 1>>

Lattice == {e \in (0..Width) \X (0..Height) \X (0..3) :
              Target(e) \in (0..Width) \X (0..Height)}

Operand == [cells : SUBSET Cell, spikes : SUBSET {e \in Lattice : e[3] \in {1, 2}}]

(* A call with drawn polygons has two operands to prepare, or one to repair. *)
ASSUME InputsAssumption ==
  /\ Width \in Nat \ {0} /\ Height \in Nat \ {0}
  /\ \A i \in Inputs :
       /\ DOMAIN i = {"op", "subj", "clip", "drawn", "areal"}
       /\ i.op \in Ops \cup Repairs
       /\ \A s \in {i.subj, i.clip} : s \in Operand /\ (s.cells # {}) = (i.drawn = <<>>)
       /\ Len(i.drawn) \in IF i.op \in Repairs THEN {1} ELSE {0, 2}

ASSUME ToleranceAssumption == Tolerance \in Nat \ {0}

(* The half-edges of an operand's rings, in both directions. *)
RingEdges(s) ==
  {e \in Lattice : (LeftCell(e) \in s.cells) # (LeftCell(Twin(e)) \in s.cells)}
    \cup s.spikes \cup {Twin(e) : e \in s.spikes}

(* Twice the signed area of a closed walk. *)
Area2(E) ==
  MapThenSumSet(LAMBDA e : e[1] * Target(e)[2] - Target(e)[1] * e[2], E)

(* Even-odd test of the point <<px, py>> / n against a closed walk: the    *)
(* edges a ray to the right crosses.                                       *)
PointInside(px, py, n, E) ==
  LET crosses(e) == /\ (e[2] * n > py) # (Target(e)[2] * n > py)
                    /\ px < e[1] * n
  IN  Cardinality({e \in E : crosses(e)}) % 2 = 1

CellInside(c, E) == PointInside(2 * c[1] + 1, 2 * c[2] + 1, 2, E)

(* The first of a set of half-edges in the order of DCEL.Edges. *)
Rank(e) == (e[1] * (Height + 1) + e[2]) * 4 + e[3]
First(S) == CHOOSE e \in S : \A f \in S : Rank(e) <= Rank(f)

Nil == <<>>

-----------------------------------------------------------------------------
VARIABLES
  input,      \* the call: operation and operands
  stage,      \* the function of the pipeline to run next
  tags,       \* tags[e]: the operands half-edge e comes from
  next,       \* next[e]: the half-edge after e on its face
  face,       \* face[e]: the half-edge the face of e was started from
  inSubj, inClip, \* the faces classified inside either operand
  keep,       \* the faces of the result
  root,       \* root[f]: the face that stands for the component of kept face f
  visited,    \* the half-edges (rings, then lines) already walked
  ring,       \* the ring being walked
  rings,      \* the rings of the result
  polygons,   \* the polygons of the result: a shell and its holes
  chain,      \* the line being walked
  lines,      \* the lines of the result
  points      \* the isolated points of the result

vars == <<input, stage, tags, next, face, inSubj, inClip, keep, root,
          visited, ring, rings, polygons, chain, lines, points>>
dcel == <<tags, next>>
labels == <<inSubj, inClip, keep, root>>
areal == <<ring, rings, polygons>>
rest == <<chain, lines, points>>

Edges == DOMAIN tags
Vertices == {Origin(e) : e \in Edges}
Faces == {face[e] : e \in DOMAIN face}
FaceEdges(f) == {e \in Edges : face[e] = f}
Subj == input.subj.cells
Clip == input.clip.cells

Init ==
  /\ input \in Inputs
  /\ stage = IF input.drawn = <<>> THEN "build" ELSE "driver"
  /\ tags = <<>> /\ next = <<>> /\ face = <<>>
  /\ inSubj = {} /\ inClip = {} /\ keep = {} /\ root = <<>>
  /\ visited = {} /\ ring = <<>> /\ rings = <<>> /\ polygons = {}
  /\ chain = <<>> /\ lines = {} /\ points = {}

(***************************************************************************)
(* The driver: polygons drawn on a finer lattice become operands.          *)
(***************************************************************************)
(* The point of the finer lattice in the middle of a cell, or of an edge.  *)
CellCentre(c) == <<Tolerance * c[1] + Tolerance \div 2, Tolerance * c[2] + Tolerance \div 2>>

Scaled(v) == <<Tolerance * v[1], Tolerance * v[2]>>

RunsAlong(e, walls) == Driver!Runs(Scaled(Origin(e)), Scaled(Target(e)), ToSet(walls))

OperandOf(o) ==
  LET cells == {c \in Cell : Driver!IsIn(CellCentre(c), o)}
  IN  [cells |-> cells,
       spikes |-> {e \in Lattice : /\ e[3] \in {1, 2} /\ RunsAlong(e, o.rings)
                                   /\ (LeftCell(e) \in cells) = (LeftCell(Twin(e)) \in cells)}]

Drawn(polys) ==
  LET held == SelectSeq(polys, LAMBDA p : p # <<>>)
  IN  [rings |-> FlattenSeq(held), perPoly |-> [i \in DOMAIN held |-> Len(held[i])]]

AsOperand(polys) == OperandOf(Drawn(polys))

(* The half-edges along a ring. *)
WalkOf(r) ==
  LET side(i) == LET from == <<r[i][1] \div Tolerance, r[i][2] \div Tolerance>>
                     to == <<r[i + 1][1] \div Tolerance, r[i + 1][2] \div Tolerance>>
                     d == CHOOSE d \in 0..3 : Driver!Sign(to[1] - from[1]) = Dx[d + 1] /\ Driver!Sign(to[2] - from[2]) = Dy[d + 1]
                     n == Driver!Abs(to[1] - from[1]) + Driver!Abs(to[2] - from[2])
                 IN  [k \in 1..n |-> <<from[1] + (k - 1) * Dx[d + 1], from[2] + (k - 1) * Dy[d + 1], d>>]
  IN  FlattenSeq([i \in 1..(Len(r) - 1) |-> side(i)])

(* OverlayPolygonalMixedDim and OverlayPolygonalWithTolerance: an operand  *)
(* that snapping leaves nothing of ends the call, whatever the operation.  *)
PrepareAs(operands) ==
  /\ input' = [input EXCEPT !.subj = OperandOf(operands[1]), !.clip = OperandOf(operands[2])]
  /\ stage' = IF Driver!IsNothing(operands) THEN "nothing" ELSE "build"

Prepare ==
  /\ stage = "driver" /\ input.op \notin Repairs
  /\ PrepareAs(Driver!Prepared(input.drawn))
  /\ UNCHANGED <<dcel, face, labels, visited, areal, rest>>

(* RepairSimplifiedPolygon and CanonicalizeTouchingRings: polygons that    *)
(* are kept are the answer, the others go through an overlay.              *)
RepairBy(task) ==
  LET kept == FlattenSeq(task.subj)
      owner == FlattenSeq([i \in DOMAIN task.subj |-> [k \in DOMAIN task.subj[i] |-> i]])
      ringsOf(k) == {j \in DOMAIN kept : owner[j] = owner[k]}
      shells == {k \in DOMAIN kept : \A j \in ringsOf(k) : k <= j}
  IN  IF task.op = "keep"
      THEN /\ stage' = "done"
           /\ rings' = [k \in DOMAIN kept |-> WalkOf(kept[k])]
           /\ polygons' = {[shell |-> k, holes |-> ringsOf(k) \ {k}] : k \in shells}
           /\ input' = [input EXCEPT !.op = "union", !.subj = AsOperand(input.drawn[1]), !.clip = AsOperand(input.drawn[1])]
      ELSE /\ stage' = "build"
           /\ input' = [input EXCEPT !.op = task.op, !.subj = AsOperand(task.subj), !.clip = AsOperand(task.clip)]
           /\ UNCHANGED <<rings, polygons>>

Repair ==
  LET polys == input.drawn[1]
  IN  /\ stage = "driver" /\ input.op \in Repairs
      /\ RepairBy(IF input.op = "repair" THEN Driver!RepairOnePolygon(polys[1]) ELSE Driver!CanonicalizeTouchingRings(polys))
      /\ UNCHANGED <<dcel, face, labels, visited, ring, rest>>

(***************************************************************************)
(* buildDCEL: coincident edges merge their tags, the outgoing half-edges   *)
(* of a vertex are sorted by angle, and the edge after e on its face is    *)
(* the one just clockwise of its twin.                                     *)
(***************************************************************************)
Out(v, E) == {d \in 0..3 : <<v[1], v[2], d>> \in E}

(* Variant: the edge just counter-clockwise of the twin. *)
NextCCW(e, E) ==
  LET back == (e[3] + 2) % 4
      k == Min({j \in 1..4 : (back + j) % 4 \in Out(Target(e), E)})
  IN  Turn(Target(e), back, k)

NextEdge(e, E) ==
  LET back == (e[3] + 2) % 4
      k == Min({j \in 1..4 : (back + (4 - j)) % 4 \in Out(Target(e), E)})
  IN  Turn(Target(e), back, 4 - k)

Build ==
  LET subj == RingEdges(input.subj)
      clip == RingEdges(input.clip)
      E == subj \cup clip
  IN  /\ stage = "build"
      /\ tags' = [e \in E |-> (IF e \in subj THEN {"subj"} ELSE {})
                                \cup (IF e \in clip THEN {"clip"} ELSE {})]
      /\ next' = [e \in E |-> NextEdge(e, E)]
      /\ stage' = "faces"
      /\ UNCHANGED <<input, face, labels, visited, areal, rest>>

(* traceFaceCycles: the walk from the first half-edge without a face. *)
Cycle(e) ==
  LET walk[k \in 0..Cardinality(Edges)] == IF k = 0 THEN e ELSE next[walk[k - 1]]
  IN  {walk[k] : k \in 0..Cardinality(Edges)}

TraceFace ==
  LET unassigned == Edges \ DOMAIN face
      e == First(unassigned)
      cycle == Cycle(e)
  IN  /\ stage = "faces" /\ unassigned # {}
      /\ face' = [x \in DOMAIN face \cup cycle |->
                    IF x \in cycle THEN e ELSE face[x]]
      /\ UNCHANGED <<input, stage, dcel, labels, visited, areal, rest>>

(***************************************************************************)
(* classifyFacesByPolygons.  The sample point of a face sits next to one   *)
(* of its edges: one that only the other operand contributed where there   *)
(* is one, never a spur (both sides on one face) where that can be helped. *)
(***************************************************************************)
NonSpur(f) == {e \in FaceEdges(f) : face[Twin(e)] # f}

SampleCell(f, only) ==
  LET candidates == {e \in NonSpur(f) : tags[e] = {only}}
  IN  LeftCell(First(IF candidates # {} THEN candidates
                     ELSE IF NonSpur(f) # {} THEN NonSpur(f)
                     ELSE FaceEdges(f)))

IsOuter(f) == Area2(FaceEdges(f)) <= 0

AllOfTag(f, tag) ==
  NonSpur(f) # {} /\ \A e \in NonSpur(f) : tags[e] = {tag}

(* The average of the face's vertices, when it lies inside the face's own  *)
(* boundary walk, overrules a sample that found the face outside.          *)
CentroidInside(E, cells) ==
  LET P == {Origin(e) : e \in E}
      n == Cardinality(P)
      x == MapThenSumSet(LAMBDA p : p[1], P)
      y == MapThenSumSet(LAMBDA p : p[2], P)
  IN  /\ PointInside(x, y, n, E)
      /\ <<x \div n, y \div n>> \in cells

Overruled(f, cells, tag) ==
  ~IsOuter(f) /\ AllOfTag(f, tag) /\ CentroidInside(FaceEdges(f), cells)

Classified(f, cells, tag, other) ==
  SampleCell(f, other) \in cells \/ Overruled(f, cells, tag)

Classify ==
  /\ stage = "faces" /\ DOMAIN face = Edges
  /\ inSubj' = {f \in Faces : Classified(f, Subj, "subj", "clip")}
  /\ inClip' = {f \in Faces : Classified(f, Clip, "clip", "subj")}
  /\ stage' = "op"
  /\ UNCHANGED <<input, dcel, face, keep, root, visited, areal, rest>>

-----------------------------------------------------------------------------
Wanted(s, c) ==
  CASE input.op = "intersection" -> s /\ c
    [] input.op = "union"        -> s \/ c
    [] input.op = "difference"   -> s /\ ~c
    [] input.op = "symdiff"      -> s # c

(* union: find answers for the faces of the component of one face what it  *)
(* answers for the other.                                                  *)
JoinFaces(link, find) ==
  [f \in DOMAIN find |-> IF find[f] = find[link[1]] THEN find[link[2]] ELSE find[f]]

(* The union-find over the kept faces, as extractResultRings begins: two   *)
(* that share an edge are joined.                                          *)
Components(kept) ==
  LET shared == {<<face[e], face[Twin(e)]>> : e \in Edges}
  IN  FoldSet(JoinFaces, [f \in kept |-> f], shared \cap (kept \X kept))

(* applyOp, and the components of what it keeps. *)
ApplyOp ==
  LET kept == {f \in Faces : Wanted(f \in inSubj, f \in inClip)}
  IN  /\ stage = "op"
      /\ keep' = kept
      /\ root' = Components(kept)
      /\ stage' = "rings"
      /\ UNCHANGED <<input, dcel, face, inSubj, inClip, visited, areal, rest>>

(***************************************************************************)
(* extractResultRings.                                                     *)
(***************************************************************************)
IsBoundary(e) == e \in Edges /\ face[e] \in keep /\ face[Twin(e)] \notin keep

(* Variant: no regard to components, as before the pinch-point fix. *)
NextBoundaryAnyComponent(e) ==
  LET turn(k) == Turn(Target(e), (e[3] + 2) % 4, k)
      any == {k \in 1..3 : IsBoundary(turn(k))}
  IN  IF any # {} THEN turn(Min(any)) ELSE Nil

(* The first boundary edge counter-clockwise from the twin of e, in e's    *)
(* component; failing that, in any.                                        *)
NextBoundary(e) ==
  LET turn(k) == Turn(Target(e), (e[3] + 2) % 4, k)
      any == {k \in 1..3 : IsBoundary(turn(k))}
      same == {k \in any : root[face[turn(k)]] = root[face[e]]}
  IN  IF same # {} THEN turn(Min(same))
      ELSE IF any # {} THEN turn(Min(any))
      ELSE Nil

Unwalked == {e \in Edges \ visited : IsBoundary(e)}

StartRing ==
  /\ stage = "rings" /\ ring = <<>> /\ Unwalked # {}
  /\ ring' = <<First(Unwalked)>>
  /\ visited' = visited \cup {First(Unwalked)}
  /\ UNCHANGED <<input, stage, dcel, face, labels, rings, polygons, rest>>

(* Variant: walked edges are not skipped. *)
GrowRingForever ==
  LET e == NextBoundary(Last(ring))
  IN  /\ stage = "rings" /\ ring # <<>> /\ e # Nil
      /\ ring' = Append(ring, e)
      /\ visited' = visited \cup {e}
      /\ UNCHANGED <<input, stage, dcel, face, labels, rings, polygons, rest>>

GrowRing ==
  LET e == NextBoundary(Last(ring))
  IN  /\ stage = "rings" /\ ring # <<>>
      /\ e # Nil /\ e \notin visited
      /\ ring' = Append(ring, e)
      /\ visited' = visited \cup {e}
      /\ UNCHANGED <<input, stage, dcel, face, labels, rings, polygons, rest>>

CloseRing ==
  LET e == NextBoundary(Last(ring))
  IN  /\ stage = "rings" /\ ring # <<>>
      /\ e = Nil \/ e \in visited
      /\ rings' = IF Len(ring) >= 3 THEN Append(rings, ring) ELSE rings
      /\ ring' = <<>>
      /\ UNCHANGED <<input, stage, dcel, face, labels, visited, polygons, rest>>

(***************************************************************************)
(* AssembleOutputPolygons: rings at an even containment depth are shells,  *)
(* the rings one deeper inside them their holes.  A ring's representative  *)
(* point is a hair inside its first edge (all edges have the same length). *)
(***************************************************************************)
RepresentativeCell(r) ==
  IF Area2(ToSet(r)) < 0 THEN LeftCell(Twin(r[1])) ELSE LeftCell(r[1])

(* Variant: a ring is tested against itself as well. *)
EnclosesItself(i, j) == CellInside(RepresentativeCell(rings[j]), ToSet(rings[i]))

Encloses(i, j) ==
  i # j /\ CellInside(RepresentativeCell(rings[j]), ToSet(rings[i]))

Depth(j) == Cardinality({i \in DOMAIN rings : Encloses(i, j)})

(* The test for a deeper container in between never fires: it skips the    *)
(* rings deeper than the shell, and only such a ring could be one.         *)
HolesOf(i) ==
  {j \in DOMAIN rings : Encloses(i, j) /\ Depth(j) = Depth(i) + 1}

Assemble ==
  LET shells == {i \in DOMAIN rings : Depth(i) % 2 = 0}
  IN  /\ stage = "rings" /\ ring = <<>> /\ Unwalked = {}
      /\ polygons' =
           IF Len(rings) = 1 \/ shells = {}
           THEN {[shell |-> i, holes |-> {}] : i \in DOMAIN rings}
           ELSE {[shell |-> i, holes |-> HolesOf(i)] : i \in shells}
      /\ stage' = IF input.areal THEN "done" ELSE "lines"
      /\ visited' = {}
      /\ UNCHANGED <<input, dcel, face, labels, ring, rings, rest>>

-----------------------------------------------------------------------------
(***************************************************************************)
(* lineEdgePredicate.                                                      *)
(***************************************************************************)
(* Variant: an edge of one operand inside the other one is forgotten. *)
InResultSharedOnly(e) ==
  LET f == face[e]
      g == face[Twin(e)]
  IN  IF f = g
      THEN f \notin keep /\ Wanted(f \in inSubj \/ "subj" \in tags[e],
                                   f \in inClip \/ "clip" \in tags[e])
      ELSE /\ input.op = "intersection"
           /\ f \notin keep /\ g \notin keep
           /\ tags[e] = {"subj", "clip"}

InResult(e) ==
  LET f == face[e]
      g == face[Twin(e)]
  IN  IF f = g
      THEN f \notin keep /\ Wanted(f \in inSubj \/ "subj" \in tags[e],
                                   f \in inClip \/ "clip" \in tags[e])
      ELSE /\ input.op = "intersection"
           /\ f \notin keep /\ g \notin keep
           /\ \/ tags[e] = {"subj", "clip"}
              \/ "subj" \in tags[e] /\ {f, g} \subseteq inClip
              \/ "clip" \in tags[e] /\ {f, g} \subseteq inSubj

Unharvested == {e \in Edges \ visited : InResult(e)}

(* nextInResultAt: the only way on from the end of half-edge e, if any. *)
OnlyWayOn(e) ==
  LET ways == {f \in Unharvested : Origin(f) = Target(e) /\ f # Twin(e)}
  IN  IF Cardinality(ways) = 1 THEN CHOOSE f \in ways : TRUE ELSE Nil

StartLine ==
  LET e == First(Unharvested)
  IN  /\ stage = "lines" /\ Unharvested # {}
      /\ chain' = <<e>>
      /\ visited' = visited \cup {e, Twin(e)}
      /\ stage' = "forward"
      /\ UNCHANGED <<input, dcel, face, labels, areal, lines, points>>

GrowForward ==
  LET e == OnlyWayOn(Last(chain))
  IN  /\ stage = "forward"
      /\ IF e # Nil
         THEN /\ chain' = Append(chain, e)
              /\ visited' = visited \cup {e, Twin(e)}
              /\ UNCHANGED stage
         ELSE /\ stage' = "backward"
              /\ UNCHANGED <<chain, visited>>
      /\ UNCHANGED <<input, dcel, face, labels, areal, lines, points>>

GrowBackward ==
  LET e == OnlyWayOn(Twin(chain[1]))
  IN  /\ stage = "backward"
      /\ IF e # Nil
         THEN /\ chain' = <<Twin(e)>> \o chain
              /\ visited' = visited \cup {e, Twin(e)}
              /\ UNCHANGED <<stage, lines>>
         ELSE /\ lines' = lines \cup {chain}
              /\ chain' = <<>>
              /\ stage' = "lines"
              /\ UNCHANGED visited
      /\ UNCHANGED <<input, dcel, face, labels, areal, points>>

PointsOf(r) == {Origin(e) : e \in ToSet(r)} \cup {Target(e) : e \in ToSet(r)}

Covered ==
  UNION ({PointsOf(l) : l \in lines} \cup {PointsOf(rings[i]) : i \in DOMAIN rings})

TagsAt(v) == UNION {tags[e] : e \in {x \in Edges : Origin(x) = v}}

(* extractResultPoints: where the operands meet in a vertex and nothing    *)
(* else of the result passes.                                              *)
ExtractPoints ==
  /\ stage = "lines" /\ Unharvested = {}
  /\ points' = IF input.op = "intersection"
               THEN {v \in Vertices \ Covered : TagsAt(v) = {"subj", "clip"}}
               ELSE {}
  /\ stage' = "done"
  /\ UNCHANGED <<input, dcel, face, labels, visited, areal, chain, lines>>

Done == stage \in {"nothing", "done"} /\ UNCHANGED vars

Next ==
  \/ Prepare \/ Repair
  \/ Build \/ TraceFace \/ Classify \/ ApplyOp
  \/ StartRing \/ GrowRing \/ CloseRing \/ Assemble
  \/ StartLine \/ GrowForward \/ GrowBackward \/ ExtractPoints
  \/ Done

Spec == Init /\ [][Next]_vars

-----------------------------------------------------------------------------
TypeOK ==
  /\ input.op \in Ops \cup Repairs /\ input.subj.cells \cup input.clip.cells \subseteq Cell
  /\ stage \in {"driver", "nothing", "build", "faces", "op", "rings", "lines", "forward", "backward", "done"}
  /\ Edges \subseteq Lattice /\ DOMAIN next = Edges /\ DOMAIN face \subseteq Edges
  /\ visited \subseteq Edges /\ Len(ring) <= Cardinality(Edges)
  /\ inSubj \cup inClip \cup keep \subseteq Faces
  /\ \A e \in ToSet(ring) \cup UNION {ToSet(l) : l \in lines} : e \in Edges
  /\ \A p \in polygons : p.shell \in DOMAIN rings /\ p.holes \subseteq DOMAIN rings

(* Every face is inside or outside each operand as a whole, and classified *)
(* so: the cell on the left of each of its edges says the same as its one  *)
(* sample point (classify.go:7-10).                                        *)
FacesClassified ==
  stage = "op" =>
    \A e \in Edges :
      /\ face[e] \in inSubj <=> LeftCell(e) \in Subj
      /\ face[e] \in inClip <=> LeftCell(e) \in Clip

Inside(p) ==
  {c \in Cell : /\ CellInside(c, ToSet(rings[p.shell]))
                /\ \A h \in p.holes : ~CellInside(c, ToSet(rings[h]))}

Result == {c \in Cell : Wanted(c \in Subj, c \in Clip)}

Finished == stage = "done"

(* assembleMixedDim: the members of the answer, by what they consist of.   *)
Answer == Driver!AssembleMixedDim(polygons, lines, points)

PartsOf(types) == UNION {Answer[k].parts : k \in {k \in DOMAIN Answer : Answer[k].type \in types}}

AnsweredPolygons == PartsOf({"Polygon", "MultiPolygon"})
AnsweredLines == PartsOf({"LineString", "MultiLineString"})
AnsweredPoints == PartsOf({"Point", "MultiPoint"})

(* Cells that are farther from what is drawn than snapping moves a vertex. *)
Clear(c, polys) ==
  \A r \in ToSet(FlattenSeq(polys)) : \A v \in ToSet(r) :
    \/ Driver!Abs(v[1] - CellCentre(c)[1]) > Tolerance \div 2
    \/ Driver!Abs(v[2] - CellCentre(c)[2]) > Tolerance \div 2

(* What is prepared is what was drawn, but next to the rings; the counts   *)
(* still say to which polygon a ring belongs; and a repair keeps the area. *)
CountsAreRight(prepared) == Len(prepared.rings) = FoldLeft(LAMBDA sum, n : sum + n, 0, prepared.perPoly)

AreaIsKept(polys, operand) ==
  \A c \in Cell : Clear(c, polys) => (c \in operand.cells <=> Driver!IsIn(CellCentre(c), Drawn(polys)))

(* The polygons of the answer, as the driver sees them. *)
PointsAlong(r) == Append([k \in DOMAIN r |-> Scaled(Origin(r[k]))], Scaled(Origin(r[1])))

(* A set of numbers as a sequence, the least one first. *)
InOrder(S) == [k \in 1..Cardinality(S) |-> CHOOSE i \in S : Cardinality({j \in S : j < i}) = k - 1]

RingsOfPolygon(i) ==
  LET holes == UNION {p.holes : p \in {p \in polygons : p.shell = i}}
      ids == <<i>> \o InOrder(holes)
  IN  [k \in DOMAIN ids |-> PointsAlong(rings[ids[k]])]

PolygonsInOrder ==
  LET shells == InOrder({p.shell : p \in polygons}) IN [k \in DOMAIN shells |-> RingsOfPolygon(shells[k])]

(* No ring of the answer visits a vertex twice, and every ring returns to  *)
(* its start: pinch points have been cut, and needsCanonicalize is never   *)
(* true of what the subdivision gives, so that a shell with holes is never *)
(* split (overlay.go:997).                                                 *)
RingsAreSimple ==
  Finished =>
    /\ ~Driver!NeedsCanonicalize(PolygonsInOrder)
    /\ \A i \in DOMAIN rings :
         LET r == rings[i]
         IN  /\ \A a, b \in DOMAIN r : Origin(r[a]) = Origin(r[b]) => a = b
             /\ \A a \in DOMAIN r : Target(r[a]) = Origin(r[(a % Len(r)) + 1])

(* The rings of every polygon are simple, its interior is connected by     *)
(* edges, its holes lie inside its shell, and every ring belongs to one    *)
(* polygon.  (AssembleOutputPolygons, canonicalizeTouchingRings.)          *)
PolygonsAreValid ==
  RingsAreSimple /\ (Finished =>
    /\ \A p \in polygons :
         LET I == Inside(p)
             near == {q \in I \X I : /\ q[1][1] - q[2][1] \in -1..1
                                     /\ q[1][2] - q[2][2] \in -1..1
                                     /\ q[1][1] = q[2][1] \/ q[1][2] = q[2][2]}
             isClosed(K) == \A q \in near : q[1] \in K => q[2] \in K
         IN  I # {} /\ \A K \in SUBSET I : K # {} /\ isClosed(K) => K = I
    /\ \A i \in DOMAIN rings :
         Cardinality({p \in polygons : i = p.shell \/ i \in p.holes}) = 1)

(* Membership of edges and points in an operand as a closed set. *)
EdgeIn(s, e) ==
  \/ {LeftCell(e), LeftCell(Twin(e))} \cap s.cells # {}
  \/ {e, Twin(e)} \cap s.spikes # {}
PointIn(s, v) == \E e \in Lattice : Origin(e) = v /\ EdgeIn(s, e)

(* What an intersection consists of besides polygons: the edges and points *)
(* of both operands that no cell of the result covers.                     *)
IntersectionIsClosed ==
  LET lineEdges == UNION {ToSet(l) : l \in AnsweredLines}
      arealEdges == {e \in Lattice : {LeftCell(e), LeftCell(Twin(e))} \cap Result # {}}
      answered == lineEdges \cup {Twin(e) : e \in lineEdges}
      wanted == {e \in Lattice : EdgeIn(input.subj, e) /\ EdgeIn(input.clip, e)}
      apart == {v \in (0..Width) \X (0..Height) :
                  /\ PointIn(input.subj, v) /\ PointIn(input.clip, v)
                  /\ v \notin {Origin(e) : e \in wanted}}
  IN  /\ answered = wanted \ arealEdges
      /\ AnsweredPoints = apart

(* The polygons of the answer cover the result, each cell of it once.      *)
PolygonsAreResult ==
  Finished =>
    /\ UNION {Inside(p) : p \in AnsweredPolygons} = Result
    /\ \A p, q \in AnsweredPolygons : p # q => Inside(p) \cap Inside(q) = {}

IntersectionIsRight == Finished /\ input.op = "intersection" /\ ~input.areal => IntersectionIsClosed

(* The polygons of the answer cover exactly the cells the operation asks   *)
(* for, each of them once, and the operands are what was drawn: a ring     *)
(* that snapping drops takes no other ring along (overlay.go:110), and a   *)
(* repair covers what the polygon covered.  An operand that snapping       *)
(* leaves nothing of leaves nothing of the other, by any operation.  And   *)
(* an intersection is complete as a closed set: an edge or a point lies in *)
(* polygons, lines and points of the answer exactly when it lies in both   *)
(* operands, and what a polygon or a line covers is not said again.        *)
AnswerIsResult ==
  /\ PolygonsAreResult
  /\ Finished /\ Len(input.drawn) = 1 =>
       Result = {c \in Cell : Driver!IsIn(CellCentre(c), Drawn(input.drawn[1]))}
  /\ stage = "build" /\ Len(input.drawn) = 2 =>
       /\ \A operand \in ToSet(Driver!Prepared(input.drawn)) : CountsAreRight(operand)
       /\ AreaIsKept(input.drawn[1], input.subj) /\ AreaIsKept(input.drawn[2], input.clip)
  /\ stage = "nothing" => Answer = <<>> /\ {} \in {input.subj.cells, input.clip.cells}
  /\ IntersectionIsRight
=============================================================================
