-------------------------------- MODULE RTree --------------------------------
(***************************************************************************)
(* The R-tree of index/rtree.go, index/rstar.go and index/str.go: Insert   *)
(* with the R* split, Bulk with its packing, and Search.  Each call holds  *)
(* the mutex from its first step to its last; a step is one turn of a loop *)
(* or one level of a recursion, and the tree is whole where at is "idle".  *)
(* Searches share the mutex and change nothing, so one at a time will do.  *)
(*                                                                         *)
(* As in the code nodes are shared by reference: a node is a number, and   *)
(* so is an item, the place of its envelope in given.  Nodes that are no   *)
(* longer used are let go of.  Coordinates are integers.                   *)
(***************************************************************************)
EXTENDS Integers, Sequences, FiniteSets, SequencesExt, FiniteSetsExt

CONSTANTS
  Box,          \* the envelopes items may have, <<minX, minY, maxX, maxY>>
  Batches,      \* the sequences of envelopes Bulk is called with
  Queries,      \* the envelopes that are searched for
  MaxEntries,   \* the fanout above which a node is split
  MinEntries,   \* the least size of a half
  Threshold,    \* strBulkThreshold
  MaxItems      \* bound: the number of items

Envelope == [1..4 -> Int]

ASSUME FanoutAssumption ==
  MinEntries \in Nat \ {0} /\ MaxEntries \in Nat \ {0, 1} /\ MaxEntries + 1 >= 2 * MinEntries

ASSUME InputAssumption ==
  /\ Box \subseteq Envelope /\ Batches \subseteq Seq(Box) /\ Queries \subseteq Envelope \cup {<<>>}
  /\ Threshold \in Nat \ {0} /\ MaxItems \in Nat

-----------------------------------------------------------------------------
(***************************************************************************)
(* Envelopes.                                                              *)
(***************************************************************************)
Empty == <<>>

Least(a, b) == IF a < b THEN a ELSE b
Most(a, b) == IF a > b THEN a ELSE b

(* ExpandToInclude. *)
Expand(a, b) ==
  IF a = Empty THEN b ELSE IF b = Empty THEN a
  ELSE [k \in 1..4 |-> IF k <= 2 THEN Least(a[k], b[k]) ELSE Most(a[k], b[k])]

Area(a) == IF a = Empty THEN 0 ELSE (a[3] - a[1]) * (a[4] - a[2])
Margin(a) == IF a = Empty THEN 0 ELSE 2 * ((a[3] - a[1]) + (a[4] - a[2]))

(* Envelope.Intersects: closed boxes. *)
Meets(a, b) ==
  a # Empty /\ b # Empty /\ b[1] <= a[3] /\ a[1] <= b[3] /\ b[2] <= a[4] /\ a[2] <= b[4]

OverlapArea(a, b) ==
  IF ~Meets(a, b) THEN 0
  ELSE (Least(a[3], b[3]) - Most(a[1], b[1])) * (Least(a[4], b[4]) - Most(a[2], b[2]))

(* The envelope of some envelopes. *)
Hull(S) ==
  IF S = {} THEN Empty
  ELSE [k \in 1..4 |-> IF k <= 2 THEN Min({e[k] : e \in S}) ELSE Max({e[k] : e \in S})]

-----------------------------------------------------------------------------
(***************************************************************************)
(* Entries in order.  The entries of a node are a sequence s, and env has  *)
(* the envelope of each.                                                   *)
(***************************************************************************)
(* By the first coordinate in which they differ. *)
Cheaper(a, b) ==
  \E k \in DOMAIN a : a[k] < b[k] /\ \A j \in 1..(k - 1) : a[j] = b[j]

LeastOf(S) == CHOOSE a \in S : \A b \in S \ {a} : Cheaper(a, b)

(* A stable sort: the place of i is the number of those not after it.      *)
Place(keys, i) ==
  Cardinality({j \in DOMAIN keys : ~Cheaper(Append(keys[i], i), Append(keys[j], j))})

SortedBy(s, keys) == [r \in DOMAIN s |-> s[CHOOSE i \in DOMAIN s : Place(keys, i) = r]]

(* sortByAxis: by coordinate k of the envelope. *)
SortByAxis(s, env, k) == SortedBy(s, [i \in DOMAIN s |-> <<env[s[i]][k]>>])

HullOf(s, env) == Hull({env[s[i]] : i \in DOMAIN s})

-----------------------------------------------------------------------------
(***************************************************************************)
(* The R* split.                                                           *)
(***************************************************************************)
Lower(s, cut) == SubSeq(s, 1, cut)
Upper(s, cut) == SubSeq(s, cut + 1, Len(s))
Cuts(s) == MinEntries..(Len(s) - MinEntries)

(* totalMargin adds this up over the two orders of an axis. *)
Margins(s, env) ==
  MapThenSumSet(LAMBDA c : Margin(HullOf(Lower(s, c), env)) + Margin(HullOf(Upper(s, c), env)), Cuts(s))

(* A distribution of the entries and how bad it is: by overlap, then by    *)
(* area, then by the order they are tried in.                              *)
Cost(order, env, cut, kind) ==
  LET l == HullOf(Lower(order, cut), env)
      r == HullOf(Upper(order, cut), env)
  IN  <<OverlapArea(l, r), Area(l) + Area(r), kind, cut>>

(* chooseSplitIndex, and the last sort of rstarSplit: an order of the      *)
(* entries and where to cut it.                                            *)
SplitAlong(s, env, low) ==
  LET byMin == SortByAxis(s, env, low)
      byMax == SortByAxis(byMin, env, low + 2)
      best == LeastOf({Cost(byMin, env, c, 0) : c \in Cuts(s)} \cup {Cost(byMax, env, c, 1) : c \in Cuts(s)})
  IN  [order |-> SortByAxis(byMax, env, low + 2 * best[3]), cut |-> best[4]]

(* rstarSplit: along the axis of the smaller margin.  Each sort starts     *)
(* from the order the last one left.                                       *)
RStarSplit(s, env) ==
  LET x1 == SortByAxis(s, env, 1)
      x2 == SortByAxis(x1, env, 3)
      y1 == SortByAxis(x2, env, 2)
      y2 == SortByAxis(y1, env, 4)
  IN  SplitAlong(y2, env,
        IF Margins(y1, env) + Margins(y2, env) < Margins(x1, env) + Margins(x2, env) THEN 2 ELSE 1)

-----------------------------------------------------------------------------
(***************************************************************************)
(* Sort-Tile-Recursive packing (index/str.go).                             *)
(***************************************************************************)
CeilDiv(a, b) == Min({q \in 0..a : q * b >= a})
CeilSqrt(a) == Min({r \in 0..a : r * r >= a})

StripWidth(n) == CeilDiv(n, CeilSqrt(CeilDiv(n, MaxEntries)))

(* The entries by the centre on the x axis, and in each strip of them by   *)
(* the one on the y axis (centres times two).                              *)
Tiled(s, env) ==
  LET byX == SortedBy(s, [i \in DOMAIN s |-> <<env[s[i]][1] + env[s[i]][3]>>])
  IN  SortedBy(byX, [i \in DOMAIN s |-> << (i - 1) \div StripWidth(Len(s)), env[byX[i]][2] + env[byX[i]][4] >>])

(* Where the groups of at most MaxEntries begin, strip by strip.           *)
Starts(n) ==
  {i \in 1..n : \E strip, group \in 0..n :
     group * MaxEntries < StripWidth(n) /\ i = strip * StripWidth(n) + group * MaxEntries + 1}

(* A group ends before the next begins. *)
NextStart(n, start) == Min({b \in Starts(n) : b > start} \cup {n + 1})
Group(s, start) == SubSeq(s, start, NextStart(Len(s), start) - 1)

(* The members of a set of numbers in their order. *)
Ascending(S) == [r \in 1..Cardinality(S) |-> CHOOSE a \in S : Cardinality({b \in S : b <= a}) = r]

-----------------------------------------------------------------------------
(***************************************************************************)
(* The tree.                                                               *)
(***************************************************************************)
VARIABLES
  nodes,   \* the nodes there are
  root,
  count,   \* RTree.count
  given,   \* the envelopes of the items in the order they were given
  at,      \* where the call is that holds the mutex, or "idle"
  path,    \* insertPath; for collectItems and Search, the nodes yet to visit
  row,     \* what strBuild packs next: all items, or the nodes of a level;
           \* for Search, the items its callback was given
  query,   \* what is searched for
  made     \* auxiliary: the number of nodes ever made

vars == <<nodes, root, count, given, at, path, row, query, made>>

EnvsIn(h) == [n \in DOMAIN h |-> h[n].env]
EnvsFor(leaf) == IF leaf THEN given ELSE EnvsIn(nodes)

(* A node over the entries s, with the envelope of recomputeEnvelope.  Its *)
(* height above the leaves is auxiliary.                                   *)
NodeOf(height, s, env) ==
  [leaf |-> height = 0, height |-> height, env |-> HullOf(s, env), entries |-> s]

Without(h, n) == [m \in DOMAIN h \ {n} |-> h[m]]
With(h, g) == [m \in DOMAIN h \cup DOMAIN g |-> IF m \in DOMAIN g THEN g[m] ELSE h[m]]

NoNodes == [n \in {} |-> n]

Init ==
  /\ nodes = [n \in {1} |-> NodeOf(0, <<>>, <<>>)] /\ root = 1 /\ made = 1
  /\ count = 0 /\ given = <<>>
  /\ at = "idle" /\ path = <<>> /\ row = <<>> /\ query = Empty

-----------------------------------------------------------------------------
(***************************************************************************)
(* Insertion: of the item count + 1, until all that are given are in.      *)
(***************************************************************************)
Insert ==
  /\ at = "idle" /\ Len(given) < MaxItems
  /\ \E env \in Box : given' = Append(given, env)
  /\ at' = "choose" /\ path' = <<root>>
  /\ UNCHANGED <<nodes, root, count, row, made, query>>

(* A small batch is inserted item by item. *)
BulkSmall ==
  \E batch \in Batches :
    /\ at = "idle" /\ Len(batch) < Threshold /\ Len(given) + Len(batch) <= MaxItems
    /\ given' = given \o batch
    /\ IF batch = <<>> THEN UNCHANGED <<at, path>> ELSE at' = "choose" /\ path' = <<root>>
    /\ UNCHANGED <<nodes, root, count, row, made, query>>

(* chooseLeafPath: least enlargement, then least area, then first. *)
BestChild(n, env) ==
  LET Key(i) == << Area(Expand(nodes[nodes[n].entries[i]].env, env)) - Area(nodes[nodes[n].entries[i]].env),
                   Area(nodes[nodes[n].entries[i]].env), i >>
  IN  nodes[n].entries[LeastOf({Key(i) : i \in DOMAIN nodes[n].entries})[3]]

ChooseChild ==
  /\ at = "choose" /\ ~nodes[Last(path)].leaf
  /\ path' = Append(path, BestChild(Last(path), given[count + 1]))
  /\ UNCHANGED <<nodes, root, count, given, at, row, made, query>>

(* Variant: one entry too many is let through. *)
OverfullLate(n) == Len(n.entries) > MaxEntries + 1

Overfull(n) == Len(n.entries) > MaxEntries

(* The item is in: the next one, if there is any. *)
ItemDone ==
  IF count' < Len(given) THEN at' = "choose" /\ path' = <<root'>> ELSE at' = "idle" /\ path' = <<>>

Grown(n, env) == [n EXCEPT !.env = Expand(@, env)]

(* insertItem, from the leaf on: the leaf takes the item in, and if it is  *)
(* not split the nodes above it grow by the item.                          *)
AddItem ==
  /\ at = "choose" /\ nodes[Last(path)].leaf
  /\ UNCHANGED <<root, given, row, made, query>>
  /\ LET leaf == Last(path)
         env == given[count + 1]
         added == [Grown(nodes[leaf], env) EXCEPT !.entries = Append(@, count + 1)]
     IN  IF Overfull(added)
         THEN /\ nodes' = [nodes EXCEPT ![leaf] = added]
              /\ at' = "split" /\ count' = count + 1 /\ UNCHANGED path
         ELSE /\ nodes' = [n \in DOMAIN nodes |->
                             IF n = leaf THEN added ELSE IF n \in ToSet(path) THEN Grown(nodes[n], env) ELSE nodes[n]]
              /\ count' = count + 1 /\ ItemDone

(* splitAndPropagate: the two nodes that take the place of n, the left one *)
(* first, and the tree with these instead of n.                            *)
HalvesOf(n) ==
  LET old == nodes[n]
      split == RStarSplit(old.entries, EnvsFor(old.leaf))
      half(i) == IF i = made + 1 THEN Lower(split.order, split.cut) ELSE Upper(split.order, split.cut)
  IN  [i \in {made + 1, made + 2} |-> NodeOf(old.height, half(i), EnvsFor(old.leaf))]

Halved(n) == With(Without(nodes, n), HalvesOf(n))

SplitRoot ==
  /\ at = "split" /\ Last(path) = root
  /\ nodes' = With(Halved(root), [n \in {made + 3} |->
                NodeOf(nodes[root].height + 1, <<made + 1, made + 2>>, EnvsIn(Halved(root)))])
  /\ root' = made + 3 /\ made' = made + 3
  /\ UNCHANGED <<count, given, row, query>>
  /\ ItemDone

(* The entries of a node with the left half in the place of n. *)
LeftFor(s, n) == [i \in DOMAIN s |-> IF s[i] = n THEN made + 1 ELSE s[i]]

(* Variant: the parent of two halves is not recomputed. *)
AdoptedStale(p, n) == [nodes[p] EXCEPT !.entries = Append(LeftFor(@, n), made + 2)]

(* Variant: the right half is not taken in. *)
AdoptedLeft(p, n) == NodeOf(nodes[p].height, LeftFor(nodes[p].entries, n), EnvsIn(Halved(n)))

(* The parent p of n, when it has taken both halves in. *)
Adopted(p, n) == NodeOf(nodes[p].height, Append(LeftFor(nodes[p].entries, n), made + 2), EnvsIn(Halved(n)))

SplitInner ==
  /\ at = "split" /\ Last(path) # root
  /\ LET n == Last(path)
         p == Last(Front(path))
     IN  /\ nodes' = [Halved(n) EXCEPT ![p] = Adopted(p, n)]
         /\ made' = made + 2 /\ UNCHANGED <<root, count, given, row, query>>
         /\ IF Overfull(Adopted(p, n)) THEN path' = Front(path) /\ UNCHANGED at ELSE ItemDone

-----------------------------------------------------------------------------
(***************************************************************************)
(* Rebuilding.                                                             *)
(***************************************************************************)
(* Variant: what the tree held is not collected. *)
BulkRebuildReplace ==
  \E batch \in Batches :
    /\ at = "idle" /\ Len(batch) >= Threshold /\ Len(given) + Len(batch) <= MaxItems
    /\ given' = given \o batch
    /\ at' = "collect" /\ path' = <<>> /\ row' = <<>>
    /\ UNCHANGED <<nodes, root, count, made, query>>

(* A large batch is packed together with what the tree holds. *)
BulkRebuild ==
  \E batch \in Batches :
    /\ at = "idle" /\ Len(batch) >= Threshold /\ Len(given) + Len(batch) <= MaxItems
    /\ given' = given \o batch
    /\ at' = "collect" /\ path' = IF count > 0 THEN <<root>> ELSE <<>>
    /\ UNCHANGED <<nodes, root, count, row, made, query>>

(* collectItems. *)
CollectNode ==
  /\ at = "collect" /\ path # <<>>
  /\ LET n == nodes[Head(path)]
     IN  IF n.leaf THEN row' = row \o n.entries /\ path' = Tail(path)
                   ELSE path' = n.entries \o Tail(path) /\ UNCHANGED row
  /\ nodes' = Without(nodes, Head(path))
  /\ UNCHANGED <<root, count, given, at, made, query>>

AppendBatch ==
  /\ at = "collect" /\ path = <<>>
  /\ row' = row \o [i \in 1..(Len(given) - count) |-> count + i]
  /\ at' = "leaves" /\ nodes' = NoNodes
  /\ UNCHANGED <<root, count, given, path, made, query>>

(* One level above the entries in row; a row of one node is the root.        *)
Pack(height) ==
  LET s == Tiled(row, EnvsFor(height = 0))
      firsts == Ascending(Starts(Len(s)))
  IN  /\ nodes' = With(nodes, [n \in {made + a : a \in Starts(Len(s))} |->
                                 NodeOf(height, Group(s, n - made), EnvsFor(height = 0))])
      /\ made' = made + Len(s)
      /\ IF Len(firsts) = 1 THEN at' = "idle" /\ root' = made + 1 /\ row' = <<>>
         ELSE at' = "pack" /\ row' = [i \in DOMAIN firsts |-> made + firsts[i]] /\ UNCHANGED root

(* strPackLeaves *)
PackLeaves == at = "leaves" /\ Pack(0) /\ count' = Len(row) /\ UNCHANGED <<given, path, query>>

(* strPackInternal *)
PackInternal == at = "pack" /\ Pack(nodes[row[1]].height + 1) /\ UNCHANGED <<count, given, path, query>>

-----------------------------------------------------------------------------
(***************************************************************************)
(* Search.                                                                 *)
(***************************************************************************)
Search ==
  /\ at = "idle"
  /\ query' \in Queries /\ at' = "search" /\ path' = <<root>>
  /\ UNCHANGED <<nodes, root, count, given, row, made>>

(* The items of a leaf that meet the query, in their order. *)
MeetingItems(n) ==
  LET s == nodes[n].entries
      places == Ascending({k \in DOMAIN s : Meets(given[s[k]], query)})
  IN  [r \in DOMAIN places |-> s[places[r]]]

(* Variant: a node that only touches the query is left out. *)
SearchInside ==
  /\ at = "search" /\ path # <<>>
  /\ LET n == nodes[Head(path)]
     IN  IF OverlapArea(n.env, query) = 0 THEN path' = Tail(path) /\ UNCHANGED row
         ELSE IF n.leaf THEN row' = row \o MeetingItems(Head(path)) /\ path' = Tail(path)
         ELSE path' = n.entries \o Tail(path) /\ UNCHANGED row
  /\ UNCHANGED <<nodes, root, count, given, at, query, made>>

(* searchNode: the next node, when the callback wants all of its items. *)
SearchNode ==
  /\ at = "search" /\ path # <<>>
  /\ LET n == nodes[Head(path)]
     IN  IF ~Meets(n.env, query) THEN path' = Tail(path) /\ UNCHANGED row
         ELSE IF n.leaf THEN row' = row \o MeetingItems(Head(path)) /\ path' = Tail(path)
         ELSE path' = n.entries \o Tail(path) /\ UNCHANGED row
  /\ UNCHANGED <<nodes, root, count, given, at, query, made>>

(* The callback returns false: nothing more is visited. *)
SearchStops ==
  /\ at = "search" /\ path # <<>>
  /\ nodes[Head(path)].leaf /\ Meets(nodes[Head(path)].env, query)
  /\ LET items == MeetingItems(Head(path))
     IN  \E last \in DOMAIN items : row' = row \o SubSeq(items, 1, last)
  /\ at' = "stopped" /\ path' = <<>>
  /\ UNCHANGED <<nodes, root, count, given, query, made>>

SearchReturns ==
  /\ at \in {"search", "stopped"} /\ path = <<>>
  /\ at' = "idle" /\ row' = <<>> /\ query' = Empty
  /\ UNCHANGED <<nodes, root, count, given, path, made>>

-----------------------------------------------------------------------------
Next ==
  \/ Insert \/ BulkSmall \/ ChooseChild \/ AddItem \/ SplitRoot \/ SplitInner
  \/ BulkRebuild \/ CollectNode \/ AppendBatch \/ PackLeaves \/ PackInternal
  \/ Search \/ SearchNode \/ SearchStops \/ SearchReturns

Spec == Init /\ [][Next]_vars

-----------------------------------------------------------------------------
TypeOK ==
  /\ given \in Seq(Box) /\ Len(given) <= MaxItems
  /\ count \in 0..Len(given) /\ (at = "idle" => count = Len(given))
  /\ at \in {"idle", "choose", "split", "collect", "leaves", "pack", "search", "stopped"}
  /\ query \in (IF at \in {"search", "stopped"} THEN Queries ELSE {Empty})
  /\ DOMAIN nodes \subseteq 1..made
  /\ at \in {"idle", "choose", "split", "search", "stopped"} => root \in DOMAIN nodes
  /\ \A n \in DOMAIN nodes :
       /\ DOMAIN nodes[n] = {"leaf", "height", "env", "entries"}
       /\ nodes[n].height \in Nat /\ nodes[n].leaf = (nodes[n].height = 0)
       /\ nodes[n].env \in Envelope \/ (nodes[n].env = Empty /\ count = 0)

(* The entries of the leaves, or of the other nodes, of h.                 *)
Held(h, leaf) == UNION {ToSet(h[n].entries) : n \in {m \in DOMAIN h : h[m].leaf = leaf}}

(* No node has an entry twice, no two leaves have one in common, and no    *)
(* two other nodes do.                                                     *)
Once(h) ==
  \A n, m \in DOMAIN h :
    /\ IsInjective(h[n].entries)
    /\ n # m /\ h[n].leaf = h[m].leaf => ToSet(h[n].entries) \cap ToSet(h[m].entries) = {}

(* Every item is in one leaf, once, and every node but the root in one     *)
(* other node, once.                                                       *)
ItemsKept ==
  /\ Held(nodes, TRUE) = DOMAIN given
  /\ Held(nodes, FALSE) = DOMAIN nodes \ {root}
  /\ Once(nodes)

(* All leaves are equally deep, and no node is overfull or, but for the    *)
(* root of the empty tree, empty.                                          *)
Balanced ==
  \A n \in DOMAIN nodes :
    /\ Len(nodes[n].entries) <= MaxEntries
    /\ nodes[n].entries # <<>> \/ count = 0
    /\ ~nodes[n].leaf => \A m \in ToSet(nodes[n].entries) : nodes[m].height = nodes[n].height - 1

(* No envelope is wider than the entries below it, and those of the leaves *)
(* and of their parents are exactly as wide.                               *)
TightNearLeaves ==
  \A n \in DOMAIN nodes :
    LET exact == HullOf(nodes[n].entries, EnvsFor(nodes[n].leaf))
    IN  /\ Expand(exact, nodes[n].env) = exact
        /\ nodes[n].height <= 1 => nodes[n].env = exact

(* Whatever was split, bulk loaded or rebuilt, no item is lost or doubled, *)
(* the nodes are one balanced tree, and envelopes are as wide as they may  *)
(* be.  (Insert with insertItem and splitAndPropagate, and Bulk.)          *)
TreeKept == at = "idle" => ItemsKept /\ Balanced /\ TightNearLeaves

-----------------------------------------------------------------------------
Answers == {i \in DOMAIN given : Meets(given[i], query)}

(* The nodes from n down: those in every set that has n and, with a node,  *)
(* its children.                                                           *)
HasChildren(h, S) == \A p \in S : ~h[p].leaf => ToSet(h[p].entries) \subseteq S
Under(h, n) == {m \in DOMAIN h : \A S \in SUBSET DOMAIN h : n \in S /\ HasChildren(h, S) => m \in S}

ItemsUnder(h, n) == UNION {ToSet(h[m].entries) : m \in {m \in Under(h, n) : h[m].leaf}}

(* "Search invokes fn for every item whose envelope intersects query."     *)
(* (Search and searchNode, on the tree that insertItem left.)              *)
SearchFindsAll == at = "search" /\ path = <<>> => ToSet(row) = Answers

AllExact == \A n \in DOMAIN nodes : nodes[n].env = HullOf(nodes[n].entries, EnvsFor(nodes[n].leaf))

(* A search gives its callback nothing that does not meet the query and    *)
(* nothing twice, stopped or not.  If it was not stopped it gives all that *)
(* meets the query, but for what is below a node, not near the leaves,     *)
(* whose own envelope does not: one narrower than what is below it.  Where *)
(* no envelope is, it gives all.  (Search, searchNode and what insertItem, *)
(* splitAndPropagate and strBuild make of the envelopes.)                  *)
SearchIsRight ==
  /\ at \in {"search", "stopped"} => IsInjective(row) /\ ToSet(row) \subseteq Answers
  /\ at = "search" /\ path = <<>> =>
       /\ \A i \in Answers \ ToSet(row) :
            \E n \in DOMAIN nodes : nodes[n].height > 1 /\ ~Meets(nodes[n].env, query) /\ i \in ItemsUnder(nodes, n)
       /\ AllExact => ToSet(row) = Answers
=============================================================================
