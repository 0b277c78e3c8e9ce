--------------------------- MODULE SpatialIndexes ---------------------------
(***************************************************************************)
(* The other indexes of the package index, each built from the items that  *)
(* the R-tree holds: the quadtree, the Hilbert-packed R-tree, the interval *)
(* tree, the packed tree of vertices, and the nearest-neighbour search of  *)
(* the R-tree itself.                                                      *)
(***************************************************************************)
EXTENDS RTree

CONSTANTS
  Capacity,      \* nodeCapacity and vsprNodeCapacity
  HilbertLevel   \* hpHilbertLevel

ASSUME CapacityAssumption == Capacity \in Nat \ {0, 1} /\ HilbertLevel \in 1..16

Given == [i \in DOMAIN given |-> [env |-> given[i], id |-> i]]

HullOfItems(s) == Hull({x.env : x \in ToSet(s)})

(* s in chunks of n, the last of which may be shorter. *)
Chunks(s, n) ==
  [c \in 1..CeilDiv(Len(s), n) |-> SubSeq(s, (c - 1) * n + 1, Least(c * n, Len(s)))]

Within(a, b) == b[1] <= a[1] /\ a[3] <= b[3] /\ b[2] <= a[2] /\ a[4] <= b[4]

-----------------------------------------------------------------------------
(***************************************************************************)
(* Quadtree: a function from squares <<x, y, size>> to the items they      *)
(* hold; <<>> is the root.  Coordinates are doubled: items without an      *)
(* extent get half a unit on each side.                                    *)
(***************************************************************************)
MinExtent == 2

RootSquare == <<>>
NoQuad == [s \in {RootSquare} |-> <<>>]

EnsureExtent(env) ==
  LET flat(k) == env[k] = env[k + 2]
      pad(k) == IF flat(k) THEN MinExtent \div 2 ELSE 0
      e == [k \in 1..4 |-> 2 * env[k]]
  IN  <<e[1] - pad(1), e[2] - pad(2), e[3] + pad(1), e[4] + pad(2)>>

EnvOf(s) == <<s[1], s[2], s[1] + s[3], s[2] + s[3]>>

Quadrants(s) == {<<s[1] + i * (s[3] \div 2), s[2] + j * (s[3] \div 2), s[3] \div 2>> : i, j \in {0, 1}}

(* getSubnodeIndex of the root: the quadrant of the plane, if it is one.   *)
PlaneQuadrant(env) ==
  LET side(k) == IF env[k] >= 0 THEN {1} ELSE IF env[k + 2] <= 0 THEN {-1} ELSE {}
  IN  side(1) \X side(2)

Powers == {2 ^ k : k \in 0..8}
Aligned(env, size) == <<(env[1] \div size) * size, (env[2] \div size) * size, size>>

(* createNodeFromKey: the least aligned square, of a size above that of    *)
(* the envelope, that contains it.                                         *)
KeySquare(env) ==
  LET fits(size) == size > Most(env[3] - env[1], env[4] - env[2]) /\ Within(env, EnvOf(Aligned(env, size)))
  IN  Aligned(env, CHOOSE size \in Powers : fits(size) /\ \A p \in Powers : fits(p) => size <= p)

(* The squares from one down to the least that contains an envelope: what  *)
(* insertChildNode and getOrCreateSubnode create.                          *)
RECURSIVE Descent(_, _)
Descent(s, env) ==
  LET inner == {q \in Quadrants(s) : Within(env, EnvOf(q))}
  IN  {s} \cup (IF inner = {} THEN {} ELSE UNION {Descent(q, env) : q \in inner})

TopSquares(quad, quarter) ==
  {s \in DOMAIN quad \ {RootSquare} :
     /\ PlaneQuadrant(EnvOf(s)) = quarter
     /\ \A t \in DOMAIN quad \ {RootSquare} : PlaneQuadrant(EnvOf(t)) = quarter => t[3] <= s[3]}

Smallest(S) == CHOOSE s \in S : \A t \in S : s[3] <= t[3]

WithNodes(quad, S) == [s \in DOMAIN quad \cup S |-> IF s \in DOMAIN quad THEN quad[s] ELSE <<>>]

(* qtRoot.insert, createExpanded and insertContained.                      *)
QuadInsert(quad, item) ==
  LET env == EnsureExtent(item.env)
      held == [env |-> env, id |-> item.id]
      quarter == PlaneQuadrant(env)
      old == TopSquares(quad, quarter)
      top == UNION {IF Within(env, EnvOf(s)) THEN {s} ELSE {KeySquare(Expand(env, EnvOf(s)))} : s \in old}
             \cup (IF old = {} THEN {KeySquare(env)} ELSE {})
      new == UNION {Descent(t, EnvOf(s)) \ Descent(s, EnvOf(s)) : t \in top, s \in old} \cup UNION {Descent(t, env) : t \in top}
      grown == WithNodes(quad, new)
  IN  IF quarter = {} THEN [quad EXCEPT ![RootSquare] = Append(@, held)]
      ELSE [grown EXCEPT ![Smallest(UNION {Descent(t, env) : t \in top})] = Append(@, held)]

QuadMatches(s, env) == s = RootSquare \/ Meets(EnvOf(s), env)

(* qtNodeBase.remove: the item goes, and the squares above it that are     *)
(* left empty without children go with it.                                 *)
QuadRemove(quad, item) ==
  LET env == EnsureExtent(item.env)
      has == {s \in DOMAIN quad : QuadMatches(s, env) /\ \E i \in DOMAIN quad[s] : quad[s][i].id = item.id}
      s == CHOOSE s \in has : TRUE
      left == [quad EXCEPT ![s] = SelectSeq(@, LAMBDA x : x.id # item.id)]
      isEmptyBelow(t) == \A u \in DOMAIN left \ {RootSquare} : Within(EnvOf(u), EnvOf(t)) => left[u] = <<>>
      pruned == {t \in DOMAIN left \ {RootSquare} :
                   s # RootSquare /\ Within(EnvOf(s), EnvOf(t)) /\ isEmptyBelow(t) /\ left[t] = <<>>
                     /\ \A u \in DOMAIN left \ {RootSquare} : Within(EnvOf(u), EnvOf(t)) => Within(EnvOf(s), EnvOf(u))}
  IN  IF has = {} THEN quad ELSE [t \in DOMAIN left \ pruned |-> left[t]]

(* visit: all that is held by squares that meet the query.                 *)
QuadFound(quad, q) == {x.id : x \in UNION {ToSet(quad[s]) : s \in {s \in DOMAIN quad : QuadMatches(s, [k \in 1..4 |-> 2 * q[k]])}}}

QuadAll(quad) == UNION {ToSet(quad[s]) : s \in DOMAIN quad}

-----------------------------------------------------------------------------
(***************************************************************************)
(* HPRtree: items in blocks along a Hilbert curve, under layers of bounds. *)
(***************************************************************************)
(* A word of 16 bits is the set of the positions of its ones. *)
Ones == 0..15
Word(n) == {k \in Ones : (n \div 2 ^ k) % 2 = 1}
Xor(x, y) == (x \ y) \cup (y \ x)
ShiftRight(x, n) == {k - n : k \in {k \in x : k >= n}}

HilbertStart(x, y) ==
  LET a == Xor(x, y)
      b == Ones \ a
      c == Ones \ (x \cup y)
      d == x \ y
  IN  [a |-> a \cup ShiftRight(b, 1),
       b |-> Xor(ShiftRight(a, 1), a),
       c |-> Xor(Xor(ShiftRight(c, 1), b \cap ShiftRight(d, 1)), c),
       d |-> Xor(Xor(a \cap ShiftRight(c, 1), ShiftRight(d, 1)), d)]

HilbertRound(w, n) ==
  [a |-> Xor(w.a \cap ShiftRight(w.a, n), w.b \cap ShiftRight(w.b, n)),
   b |-> Xor(w.a \cap ShiftRight(w.b, n), w.b \cap ShiftRight(Xor(w.a, w.b), n)),
   c |-> Xor(w.c, Xor(w.a \cap ShiftRight(w.c, n), w.b \cap ShiftRight(w.d, n))),
   d |-> Xor(w.d, Xor(w.b \cap ShiftRight(w.c, n), Xor(w.a, w.b) \cap ShiftRight(w.d, n)))]

(* The first bits of two words by turns, as a number. *)
Interleaved(odd, even, bits) ==
  LET digit(k) == (IF k \in odd THEN 2 ELSE 0) + (IF k \in even THEN 1 ELSE 0)
  IN  FoldLeft(LAMBDA sum, k : 4 * sum + digit(16 - k), 0, [k \in 1..bits |-> k])

HilbertCodeEncode(level, px, py) ==
  LET x == Word(px * 2 ^ (16 - level))
      y == Word(py * 2 ^ (16 - level))
      w == FoldLeft(HilbertRound, HilbertStart(x, y), <<2, 4, 8>>)
      even == Xor(x, y)
      odd == Xor(w.d, ShiftRight(w.d, 1)) \cup (Ones \ (even \cup Xor(w.c, ShiftRight(w.c, 1))))
  IN  Interleaved(odd, even, level)

HilbertSide == 2 ^ HilbertLevel - 1
HilbertCells == (0..HilbertSide) \X (0..HilbertSide)
HilbertCode == [cell \in HilbertCells |-> HilbertCodeEncode(HilbertLevel, cell[1], cell[2])]

(* hilbertEncoder.encode: the cell of the middle of an envelope.           *)
Encode(extent, env) ==
  LET cell(k) == LET width == extent[k + 2] - extent[k]
                 IN  IF width = 0 THEN 0 ELSE ((env[k] + env[k + 2] - 2 * extent[k]) * HilbertSide) \div (2 * width)
  IN  HilbertCode[<<cell(1), cell(2)>>]

(* hoarePartition; s is a sequence of items with their keys.               *)
RECURSIVE Partition(_, _, _, _)
Partition(s, pivot, low, high) ==
  LET i == Min({k \in DOMAIN s : k > low /\ s[k].key >= pivot})
      j == Max({k \in DOMAIN s : k < high /\ s[k].key <= pivot})
  IN  IF i >= j THEN [seq |-> s, at |-> j]
      ELSE Partition([s EXCEPT ![i] = s[j], ![j] = s[i]], pivot, i, j)

BlockOf(i) == (i - 1) \div Capacity

RECURSIVE QuickSortItemsIntoNodes(_, _, _)
QuickSortItemsIntoNodes(s, low, high) ==
  IF BlockOf(low) >= BlockOf(high) THEN s
  ELSE LET p == Partition(s, s[((low + high - 2) \div 2) + 1].key, low - 1, high + 1)
       IN  QuickSortItemsIntoNodes(QuickSortItemsIntoNodes(p.seq, low, p.at), p.at + 1, high)

HilbertSorted(items) ==
  LET withKey(x) == [key |-> Encode(HullOfItems(items), x.env), env |-> x.env, id |-> x.id]
      keyed == FoldLeft(LAMBDA s, x : Append(s, withKey(x)), <<>>, items)
  IN  IF Len(items) <= Capacity THEN keyed ELSE QuickSortItemsIntoNodes(keyed, 1, Len(items))

(* computeLeafNodeBounds and computeNodeBounds: a node takes in one entry  *)
(* more than it has.                                                       *)
Bounded(s) ==
  [n \in 1..CeilDiv(Len(s), Capacity) |->
     [env |-> HullOfItems(SubSeq(s, (n - 1) * Capacity + 1, Least(n * Capacity + 1, Len(s))))]]

RECURSIVE Layers(_)
Layers(bounds) == <<bounds>> \o (IF CeilDiv(Len(bounds), Capacity) <= 1 THEN <<>> ELSE Layers(Bounded(bounds)))

(* Variant: the last entry is left out. *)
BelowShort(n, size) == ((n - 1) * Capacity + 1)..Least(n * Capacity, size - 1)

Below(n, size) == ((n - 1) * Capacity + 1)..Least(n * Capacity, size)

(* queryNode; layer 0 are the items.                                       *)
RECURSIVE HprNode(_, _, _, _, _)
HprNode(items, layers, layer, n, q) ==
  IF ~Meets(layers[layer][n].env, q) THEN {}
  ELSE IF layer = 1 THEN {items[i].id : i \in {j \in Below(n, Len(items)) : Meets(items[j].env, q)}}
  ELSE UNION {HprNode(items, layers, layer - 1, m, q) : m \in Below(n, Len(layers[layer - 1]))}

HprFound(items, q) ==
  LET layers == Layers(Bounded(items))
      top == Len(layers)
  IN  IF ~Meets(HullOfItems(items), q) THEN {}
      ELSE IF Len(items) <= Capacity THEN {items[i].id : i \in {j \in DOMAIN items : Meets(items[j].env, q)}}
      ELSE UNION {HprNode(items, layers, top, n, q) : n \in DOMAIN layers[top]}

-----------------------------------------------------------------------------
(***************************************************************************)
(* IntervalRTree: by the midpoints, and then in pairs; an odd one goes up  *)
(* as it is.  An interval is an envelope without a height.                 *)
(***************************************************************************)
Flat(env) == <<env[1], 0, env[3], 0>>

RECURSIVE PackPairs(_)
PackPairs(level) ==
  IF Len(level) = 1 THEN level[1]
  ELSE LET pairs == Chunks(level, 2)
       IN  PackPairs([i \in DOMAIN pairs |->
             IF Len(pairs[i]) = 1 THEN pairs[i][1] ELSE [env |-> HullOfItems(pairs[i]), below |-> pairs[i]]])

IntervalTree(items) ==
  LET sorted == SortedBy(items, [i \in DOMAIN items |-> <<items[i].env[1] + items[i].env[3]>>])
  IN  PackPairs([i \in DOMAIN sorted |-> [env |-> Flat(sorted[i].env), id |-> sorted[i].id]])

(* query *)
RECURSIVE IntervalFound(_, _)
IntervalFound(n, q) ==
  IF ~Meets(n.env, q) THEN {}
  ELSE IF "id" \in DOMAIN n THEN {n.id} ELSE UNION {IntervalFound(m, q) : m \in ToSet(n.below)}

-----------------------------------------------------------------------------
(***************************************************************************)
(* VertexSequencePackedRtree: level 0 bounds the vertices, and the last    *)
(* level has a single node above a single node.                            *)
(***************************************************************************)
PointBox(p) == <<p[1], p[2], p[1], p[2]>>

RECURSIVE VertexLevels(_)
VertexLevels(s) ==
  LET chunks == Chunks(s, Capacity)
      level == [i \in DOMAIN chunks |-> [env |-> HullOfItems(chunks[i])]]
  IN  <<level>> \o (IF Len(level) <= 1 THEN <<level>> ELSE VertexLevels(level))

(* Remove: a leaf without vertices is no longer valid, nor is its parent   *)
(* without valid leaves.                                                   *)
Valid(pts, levels, removed, level, n) ==
  LET emptied(m) == Below(m, Len(pts)) \subseteq removed
  IN  ~ \/ level = 1 /\ emptied(n)
        \/ level = 2 /\ Len(levels) > 2 /\ \A m \in Below(n, Len(levels[1])) : emptied(m)

RECURSIVE VertexNode(_, _, _, _, _, _)
VertexNode(pts, levels, removed, level, n, q) ==
  IF ~Valid(pts, levels, removed, level, n) \/ ~Meets(q, levels[level][n].env) THEN {}
  ELSE IF level = 1 THEN {i \in Below(n, Len(pts)) \ removed : Meets(q, PointBox(pts[i]))}
  ELSE UNION {VertexNode(pts, levels, removed, level - 1, m, q) : m \in Below(n, Len(levels[level - 1]))}

VertexFound(pts, removed, q) ==
  LET levels == VertexLevels([i \in DOMAIN pts |-> [env |-> PointBox(pts[i])]])
  IN  IF pts = <<>> THEN {} ELSE VertexNode(pts, levels, removed, Len(levels), 1, q)

-----------------------------------------------------------------------------
(***************************************************************************)
(* RTree.Nearest, with squares of distances.                               *)
(***************************************************************************)
EnvelopeDistance(a, b) ==
  LET gap(k) == IF a[k + 2] < b[k] THEN b[k] - a[k + 2] ELSE IF b[k + 2] < a[k] THEN a[k] - b[k + 2] ELSE 0
  IN  gap(1) * gap(1) + gap(2) * gap(2)

Far == 1000000

(* One distance function: to the upper right corner.                       *)
CornerDistance(q, env) == EnvelopeDistance(q, <<env[3], env[4], env[3], env[4]>>)

EntryEnv(e) == IF e.isItem THEN given[e.entry] ELSE nodes[e.entry].env
Entries(n) == {[isItem |-> nodes[n].leaf, entry |-> x] : x \in ToSet(nodes[n].entries)}

(* The queue by the least bound first; the best item is [distance, id].    *)
RECURSIVE NearestFrom(_, _, _)
NearestFrom(queue, best, q) ==
  LET Bound(e) == EnvelopeDistance(q, EntryEnv(e))
      e == CHOOSE e \in queue : \A f \in queue : Bound(e) <= Bound(f)
      d == CornerDistance(q, EntryEnv(e))
      promising == {f \in Entries(e.entry) : Bound(f) < best.distance}
  IN  IF queue = {} \/ Bound(e) >= best.distance THEN best
      ELSE IF e.isItem THEN NearestFrom(queue \ {e}, IF d < best.distance THEN [distance |-> d, id |-> e.entry] ELSE best, q)
      ELSE NearestFrom((queue \ {e}) \cup promising, best, q)

Nearest(q) == NearestFrom({[isItem |-> FALSE, entry |-> root]}, [distance |-> Far, id |-> 0], q)

-----------------------------------------------------------------------------
Meeting(q) == {i \in DOMAIN given : Meets(given[i], q)}
Remaining(n) == {i \in DOMAIN given : i % n # 0}

(* A quadtree holds each item once, in the smallest of its squares that    *)
(* contains it, keeps no square without an item, and misses nothing.       *)
QuadHolds(quad, ids) ==
  /\ Cardinality(QuadAll(quad)) = Cardinality(ids) /\ {x.id : x \in QuadAll(quad)} = ids
  /\ \A s \in DOMAIN quad \ {RootSquare} :
       /\ \A x \in ToSet(quad[s]) : Within(x.env, EnvOf(s)) /\ \A t \in Quadrants(s) : ~Within(x.env, EnvOf(t))
       /\ \E t \in DOMAIN quad \ {RootSquare} : Within(EnvOf(t), EnvOf(s)) /\ quad[t] # <<>>
  /\ \A q \in Box : Meeting(q) \cap ids \subseteq QuadFound(quad, q)

QuadtreeFinds ==
  LET quad == FoldLeft(QuadInsert, NoQuad, Given)
      without(n) == FoldLeft(QuadRemove, quad, SelectSeq(Given, LAMBDA x : x.id % n = 0))
  IN  /\ QuadHolds(quad, DOMAIN given)
      /\ QuadHolds(without(2), Remaining(2)) /\ without(1) = NoQuad

HprTreeFinds ==
  LET sorted == HilbertSorted(Given)
  IN  /\ \A q \in Box : HprFound(sorted, q) = Meeting(q)
      /\ Len(given) > Capacity => \A i, j \in DOMAIN sorted : BlockOf(i) < BlockOf(j) => sorted[i].key <= sorted[j].key

(* The Hilbert curve visits every cell once, and moves to the next cell.   *)
HilbertIsCurve ==
  \A code \in 0..(4 ^ HilbertLevel - 1) :
    \E c \in HilbertCells :
      /\ HilbertCode[c] = code
      /\ code = 0 \/ \E d \in HilbertCells :
           HilbertCode[d] = code - 1 /\ (c[1] - d[1]) * (c[1] - d[1]) + (c[2] - d[2]) * (c[2] - d[2]) = 1

IntervalTreeFinds ==
  given # <<>> =>
    \A q \in Box : IntervalFound(IntervalTree(Given), Flat(q)) = {i \in DOMAIN given : Meets(Flat(given[i]), Flat(q))}

VertexTreeFinds ==
  LET pts == [i \in DOMAIN given |-> <<given[i][1], given[i][2]>>]
  IN  \A n \in 1..3, q \in Box :
        VertexFound(pts, DOMAIN given \ Remaining(n), q) = {i \in Remaining(n) : Meets(q, PointBox(pts[i]))}

NearestIsNearest ==
  given # <<>> /\ nodes[root].height <= 1 =>
    \A q \in Box : Nearest(q).distance = Min({CornerDistance(q, given[i]) : i \in DOMAIN given})

(* Whatever index holds the items, a search returns all that it should,    *)
(* before and after some are removed; the quadtree holds each item once    *)
(* and no empty squares; and Nearest is right on an R-tree of two levels.  *)
(* (Nearest, Quadtree, HPRtree, IntervalRTree, VertexSequencePackedRtree.) *)
SearchesFind ==
  at = "idle" =>
  /\ NearestIsNearest
  /\ QuadtreeFinds /\ HprTreeFinds /\ HilbertIsCurve /\ IntervalTreeFinds /\ VertexTreeFinds

=============================================================================
