---------------------------- MODULE SharedReaders ---------------------------
(***************************************************************************)
(* What goroutines share when they only read geometries: the structures    *)
(* that are filled in on first use.                                        *)
(*                                                                         *)
(*   - the envelope of a geometry and of a collection, published once with *)
(*     a compare-and-swap (geom/base.go, geom/multi.go);                   *)
(*   - HPRtree, packed by its first query under its mutex, which refuses   *)
(*     insertions from then on (index/hprtree.go);                         *)
(*   - IndexedPointLocator, which fills an IntervalRTree inside sync.Once; *)
(*     the tree packs itself under its own mutex, and the visit of a query *)
(*     asks the orientation cache (algorithm/locate,                       *)
(*     index/intervaltree.go);                                             *)
(*   - the orientation cache itself (kernel/planar/robust.go).             *)
(*                                                                         *)
(* Every goroutine makes up to MaxCalls calls, any of them, in any order.  *)
(* A step is what runs without another goroutine seeing the middle of it.  *)
(***************************************************************************)
EXTENDS Integers, FiniteSets

-----------------------------------------------------------------------------
(***************************************************************************)
(* The memoization cache of the adaptive orientation predicate,            *)
(* kernel/planar/robust.go (kernel/spherical/robust.go has the same one).  *)
(*                                                                         *)
(* A triple of points is decided by the float filter or, when the filter   *)
(* fails, by exact arithmetic; only the exact answers are cached.  The map *)
(* holds at most Cap answers and the ring says which key each slot has put *)
(* into the map: a store into a full map first evicts the key of the slot  *)
(* it is about to overwrite.  lookup runs under the read lock and store    *)
(* under the write lock, and neither calls anything else, so each is one   *)
(* step.                                                                   *)
(***************************************************************************)
CONSTANTS
  Cap,        \* orientCacheCap
  Triples,    \* the triples of points the filter cannot decide: the keys
  NoKey,      \* the zero key of the array: no triple the filter fails on
  Exact       \* Exact[k]: the sign exactOrient computes for k

Orientations == {"CounterClockwise", "Clockwise", "Collinear"}

ASSUME CapAssumption == Cap \in Nat \ {0}
ASSUME KeysAssumption == NoKey \notin Triples /\ Exact \in [Triples -> Orientations]

VARIABLES
  entries,    \* the map: key -> orientation
  order,      \* order[i]: the key stored from slot i
  next        \* the slot the next store takes

cacheVars == <<entries, order, next>>

CacheInit ==
  /\ entries = [k \in {} |-> "Collinear"]
  /\ order = [i \in 0..(Cap - 1) |-> NoKey]
  /\ next = 0

Cached(k) == k \in DOMAIN entries

(* Variant: the index wraps one slot too late. *)
AdvancePast(i) == IF i + 1 > Cap THEN 0 ELSE i + 1

Advance(i) == IF i + 1 >= Cap THEN 0 ELSE i + 1

(* The map once the slot at next has been evicted, if the map is full. *)
Kept ==
  IF Cardinality(DOMAIN entries) = Cap THEN DOMAIN entries \ {order[next]}
  ELSE DOMAIN entries

Put(k, o) ==
  /\ entries' = [j \in Kept \cup {k} |-> IF j = k THEN o ELSE entries[j]]
  /\ order' = [order EXCEPT ![next] = k]
  /\ next' = Advance(next)

(* Variant: a store that does not look again once it has the write lock. *)
StoreBlindly(k, o) == Put(k, o)

(* Another goroutine may have stored k since this one missed it. *)
Store(k, o) ==
  \/ Cached(k) /\ UNCHANGED cacheVars
  \/ ~Cached(k) /\ Put(k, o)

CacheTypeOK ==
  /\ DOMAIN entries \subseteq Triples
  /\ \A k \in DOMAIN entries : entries[k] \in Orientations
  /\ order \in [0..(Cap - 1) -> Triples \cup {NoKey}]
  /\ next \in 0..(Cap - 1)

(* The slots that have been written: all of them once next has wrapped. *)
Filled == {i \in 0..(Cap - 1) : order[i] # NoKey}

(***************************************************************************)
(* The ring and the map stay in step (orientCacheT.store): the keys of the *)
(* map are the keys of the written slots, no key in two slots, the slots   *)
(* are written in order, and every answer in the map is the exact one.     *)
(* The eviction relies on all of it: with a key in two slots the map would *)
(* lose an entry it counts as present and never be full again.             *)
(***************************************************************************)
KeysAreSlots == DOMAIN entries = {order[i] : i \in Filled}
NoKeyTwice == \A i, j \in Filled : order[i] = order[j] => i = j
FilledInOrder == Filled = 0..(Cap - 1) \/ Filled = 0..(next - 1)
AnswersExact == \A k \in DOMAIN entries : entries[k] = Exact[k]

RingInStep ==
  /\ KeysAreSlots
  /\ NoKeyTwice
  /\ FilledInOrder
  /\ AnswersExact

-----------------------------------------------------------------------------
(***************************************************************************)
(* The readers.                                                            *)
(***************************************************************************)
CONSTANTS
  Procs, Nobody, \* goroutines; Nobody is none of them
  MaxCalls,      \* calls each of them makes
  Items,         \* what may be inserted into the HPRtree
  NodeCapacity,  \* HPRtree.nodeCapacity
  Parts, Whole,  \* a collection, Whole, and its members
  Segments,      \* ring segments of the located polygon
  Points,        \* points to locate
  Stabbed        \* Stabbed[pt]: segments whose y-interval pt.Y stabs

ASSUME ReadersAssumption ==
  /\ Stabbed \in [Points -> SUBSET Segments]
  /\ Triples = {t \in Segments \X Points : t[1] \in Stabbed[t[2]]}
  /\ Segments # {} /\ Nobody \notin Procs /\ Whole \notin Parts
  /\ MaxCalls \in Nat /\ IsFiniteSet(Items)

Op == [op : {"Insert"}, arg : Items] \cup [op : {"Locate"}, arg : Points]
        \cup [op : {"Query", "Len", "Envelope"}, arg : {Whole}]

VARIABLES
  pc, call, calls,  \* control: where p is, its current or last call, how many
  answer,           \* answer[p]: what that call returned, as a set
  asked,            \* asked[p]: the items inserted before that call of Len
  env,              \* env[g]: the published envelope, a set of who and what
  got, child,       \* the members p has included, the one it is computing
  mu, numItems, itemsToLoad, nodes, itemValues, isBuilt,   \* the HPRtree
  inserted,         \* the items whose Insert has returned
  polygon,          \* the segments of the polygon to locate in
  once, geom, idx, isEmpty,                                \* the locator
  treeMu, built, root,                                     \* its IntervalRTree
  todo, crossed,    \* the segments p has still to visit, those it crossed
  missed            \* the segment p found no orientation for

control == <<pc, call, calls, answer, asked>>
envVars == <<env, got, child>>
hprVars == <<mu, numItems, itemsToLoad, nodes, itemValues, isBuilt, inserted>>
locVars == <<polygon, once, geom, idx, isEmpty>>
treeVars == <<treeMu, built, root>>
visitVars == <<todo, crossed, missed>>
vars == <<control, envVars, hprVars, locVars, treeVars, visitVars, cacheVars>>

Init ==
  /\ pc = [p \in Procs |-> "idle"]
  /\ call = [p \in Procs |-> [op |-> "Len", arg |-> Whole]]
  /\ calls = [p \in Procs |-> 0]
  /\ answer = [p \in Procs |-> {}]
  /\ asked = [p \in Procs |-> {}]
  /\ env = [g \in Parts \cup {Whole} |-> {}]
  /\ got = [p \in Procs |-> {}] /\ child = [p \in Procs |-> Whole]
  /\ mu = Nobody /\ numItems = 0 /\ itemsToLoad = {} /\ nodes = {}
  /\ itemValues = {} /\ isBuilt = FALSE /\ inserted = {}
  /\ polygon \in {Segments, {}}
  /\ once = "new" /\ geom = polygon /\ idx = {} /\ isEmpty = FALSE
  /\ treeMu = Nobody /\ built = FALSE /\ root = {}
  /\ todo = [p \in Procs |-> {}] /\ crossed = [p \in Procs |-> {}]
  /\ missed = [p \in Procs |-> {}]
  /\ CacheInit

-----------------------------------------------------------------------------
Goto(p, l) == pc' = [pc EXCEPT ![p] = l] /\ UNCHANGED <<call, calls, answer, asked>>

Return(p, a) ==
  /\ pc' = [pc EXCEPT ![p] = "idle"]
  /\ answer' = [answer EXCEPT ![p] = a]
  /\ UNCHANGED <<call, calls, asked>>

Entry(op) ==
  CASE op = "Insert" -> "insert" [] op = "Query" -> "build"
    [] op = "Len" -> "len" [] op = "Locate" -> "once" [] op = "Envelope" -> "load"

(* The next call of goroutine p.  An item is inserted once. *)
Call(p, c) ==
  /\ pc[p] = "idle" /\ calls[p] < MaxCalls
  /\ c.op = "Insert" =>
       c.arg \notin inserted /\ \A q \in Procs : call[q] # c
  /\ pc' = [pc EXCEPT ![p] = Entry(c.op)]
  /\ call' = [call EXCEPT ![p] = c]
  /\ calls' = [calls EXCEPT ![p] = @ + 1]
  /\ answer' = [answer EXCEPT ![p] = {}]
  /\ asked' = [asked EXCEPT ![p] = IF c.op = "Len" THEN inserted ELSE {}]
  /\ UNCHANGED <<envVars, hprVars, locVars, treeVars, visitVars, cacheVars>>

-----------------------------------------------------------------------------
(* Envelopes.  The value is what the envelope includes: the member itself, *)
(* or the members of the collection.                                       *)
EnvelopeOf(S, p) == {[by |-> p, of |-> S]}

(* Variant: a store instead of a compare-and-swap. *)
StoreEnvelope(g, e) == env' = [env EXCEPT ![g] = e]

CompareAndSwap(g, e) == env' = [env EXCEPT ![g] = IF @ = {} THEN e ELSE @]

Include(p, e) == got' = [got EXCEPT ![p] = @ \cup UNION {x.of : x \in e}]

LoadWhole(p) ==
  /\ pc[p] = "load"
  /\ IF env[Whole] # {}
     THEN \E e \in env[Whole] : Return(p, e.of)
     ELSE Goto(p, "children")
  /\ UNCHANGED <<envVars, hprVars, locVars, treeVars, visitVars, cacheVars>>

(* The members are taken in order; which is next does not matter here. *)
LoadChild(p, g) ==
  /\ pc[p] = "children" /\ g \in Parts \ got[p]
  /\ IF env[g] # {}
     THEN Include(p, env[g]) /\ UNCHANGED <<control, child>>
     ELSE Goto(p, "swap") /\ child' = [child EXCEPT ![p] = g] /\ UNCHANGED got
  /\ UNCHANGED <<env, hprVars, locVars, treeVars, visitVars, cacheVars>>

(* The swap of a member's envelope, and the load of whichever won. *)
SwapChild(p) ==
  /\ pc[p] = "swap"
  /\ CompareAndSwap(child[p], EnvelopeOf({child[p]}, p))
  /\ Include(p, env'[child[p]])
  /\ child' = [child EXCEPT ![p] = Whole]
  /\ Goto(p, "children")
  /\ UNCHANGED <<hprVars, locVars, treeVars, visitVars, cacheVars>>

SwapWhole(p) ==
  /\ pc[p] = "children" /\ got[p] = Parts
  /\ CompareAndSwap(Whole, EnvelopeOf(got[p], p))
  /\ \E e \in env'[Whole] : Return(p, e.of)
  /\ got' = [got EXCEPT ![p] = {}]
  /\ UNCHANGED <<child, hprVars, locVars, treeVars, visitVars, cacheVars>>

-----------------------------------------------------------------------------
(* HPRtree.  Variant: no deferred unlock, so the panic keeps the mutex. *)
InsertCountNoDefer(p) ==
  /\ pc[p] = "insert" /\ mu = Nobody
  /\ mu' = p
  /\ IF isBuilt
     THEN Return(p, {"panic"}) /\ UNCHANGED numItems
     ELSE numItems' = numItems + 1 /\ Goto(p, "append")
  /\ UNCHANGED <<itemsToLoad, nodes, itemValues, isBuilt, inserted>>
  /\ UNCHANGED <<envVars, locVars, treeVars, visitVars, cacheVars>>

(* Insert holds the mutex to its end, the panic included. *)
InsertCount(p) ==
  /\ pc[p] = "insert" /\ mu = Nobody
  /\ IF isBuilt
     THEN Return(p, {"panic"}) /\ UNCHANGED <<mu, numItems>>
     ELSE /\ mu' = p
          /\ numItems' = numItems + 1
          /\ Goto(p, "append")
  /\ UNCHANGED <<itemsToLoad, nodes, itemValues, isBuilt, inserted>>
  /\ UNCHANGED <<envVars, locVars, treeVars, visitVars, cacheVars>>

InsertAppend(p) ==
  /\ pc[p] = "append"
  /\ itemsToLoad' = itemsToLoad \cup {call[p].arg}
  /\ inserted' = inserted \cup {call[p].arg}
  /\ mu' = Nobody
  /\ Return(p, {"ok"})
  /\ UNCHANGED <<numItems, nodes, itemValues, isBuilt>>
  /\ UNCHANGED <<envVars, locVars, treeVars, visitVars, cacheVars>>

Build(p) ==
  /\ pc[p] = "build" /\ mu = Nobody
  /\ IF isBuilt
     THEN Goto(p, "query") /\ UNCHANGED mu
     ELSE Goto(p, "index") /\ mu' = p
  /\ UNCHANGED <<numItems, itemsToLoad, nodes, itemValues, isBuilt, inserted>>
  /\ UNCHANGED <<envVars, locVars, treeVars, visitVars, cacheVars>>

(* The layers of nodes, when the items do not fit one block. *)
PrepareIndex(p) ==
  /\ pc[p] = "index"
  /\ nodes' = IF Cardinality(itemsToLoad) <= NodeCapacity THEN nodes ELSE itemsToLoad
  /\ Goto(p, "items")
  /\ UNCHANGED <<mu, numItems, itemsToLoad, itemValues, isBuilt, inserted>>
  /\ UNCHANGED <<envVars, locVars, treeVars, visitVars, cacheVars>>

PrepareItems(p) ==
  /\ pc[p] = "items"
  /\ itemValues' = itemsToLoad
  /\ itemsToLoad' = {}
  /\ isBuilt' = TRUE
  /\ mu' = Nobody
  /\ Goto(p, "query")
  /\ UNCHANGED <<numItems, nodes, inserted>>
  /\ UNCHANGED <<envVars, locVars, treeVars, visitVars, cacheVars>>

(* The traversal takes no lock.  The search envelope meets every item. *)
QueryVisit(p) ==
  /\ pc[p] = "query"
  /\ Return(p, IF nodes = {} THEN itemValues ELSE itemValues \cap nodes)
  /\ UNCHANGED <<hprVars, envVars, locVars, treeVars, visitVars, cacheVars>>

(* Len takes no lock either: it may run between the two writes of Insert. *)
Len(p) ==
  /\ pc[p] = "len"
  /\ Return(p, 1..numItems)
  /\ UNCHANGED <<hprVars, envVars, locVars, treeVars, visitVars, cacheVars>>

-----------------------------------------------------------------------------
(* The locator.  sync.Once lets one goroutine in; the others wait for it.  *)
(* Variant: the index is filled when it is not there, without sync.Once.   *)
EnterUnguarded(p) ==
  /\ pc[p] = "once"
  /\ Goto(p, IF idx = {} /\ ~isEmpty THEN "fill" ELSE "tree")
  /\ once' = "running"
  /\ UNCHANGED <<polygon, geom, idx, isEmpty>>
  /\ UNCHANGED <<envVars, hprVars, treeVars, visitVars, cacheVars>>

Enter(p) ==
  /\ pc[p] = "once"
  /\ once \in {"new", "done"}
  /\ Goto(p, IF once = "new" THEN "fill" ELSE "tree")
  /\ once' = IF once = "new" THEN "running" ELSE once
  /\ UNCHANGED <<polygon, geom, idx, isEmpty>>
  /\ UNCHANGED <<envVars, hprVars, treeVars, visitVars, cacheVars>>

(* One interval per segment; the polygon is dropped once they are indexed. *)
EnsureIndex(p) ==
  /\ pc[p] = "fill"
  /\ IF geom = {} THEN isEmpty' = TRUE /\ UNCHANGED <<geom, idx>>
     ELSE idx' = geom /\ geom' = {} /\ UNCHANGED isEmpty
  /\ once' = "done"
  /\ Goto(p, "tree")
  /\ UNCHANGED polygon
  /\ UNCHANGED <<envVars, hprVars, treeVars, visitVars, cacheVars>>

LocateEmpty(p) ==
  /\ pc[p] = "tree" /\ isEmpty
  /\ Return(p, {"Exterior"})
  /\ UNCHANGED <<envVars, hprVars, locVars, treeVars, visitVars, cacheVars>>

(* IntervalRTree.build says it is built before it packs, under the mutex.  *)
TreeBuild(p) ==
  /\ pc[p] = "tree" /\ ~isEmpty /\ treeMu = Nobody
  /\ IF built THEN Goto(p, "read") /\ UNCHANGED treeMu
     ELSE Goto(p, "pack") /\ treeMu' = p
  /\ built' = TRUE
  /\ UNCHANGED root
  /\ UNCHANGED <<envVars, hprVars, locVars, visitVars, cacheVars>>

TreePack(p) ==
  /\ pc[p] = "pack"
  /\ root' = idx
  /\ treeMu' = Nobody
  /\ Goto(p, "read")
  /\ UNCHANGED built
  /\ UNCHANGED <<envVars, hprVars, locVars, visitVars, cacheVars>>

TreeQuery(p) ==
  /\ pc[p] = "read"
  /\ todo' = [todo EXCEPT ![p] = Stabbed[call[p].arg] \cap root]
  /\ crossed' = [crossed EXCEPT ![p] = {}]
  /\ Goto(p, "visit")
  /\ UNCHANGED <<missed, envVars, hprVars, locVars, treeVars, cacheVars>>

(* The locals of a visit that is over are forgotten. *)
Leave(p, a) ==
  /\ Return(p, a)
  /\ todo' = [todo EXCEPT ![p] = {}]
  /\ crossed' = [crossed EXCEPT ![p] = {}]

(* rayCrossingCounter: Boundary ends the visit, else the crossing parity.  *)
Count(p, s, o) ==
  \/ o = "Collinear" /\ Leave(p, {"Boundary"})
  \/ /\ o # "Collinear"
     /\ Goto(p, "visit")
     /\ todo' = [todo EXCEPT ![p] = @ \ {s}]
     /\ crossed' = IF o = "CounterClockwise"
                   THEN [crossed EXCEPT ![p] = @ \cup {s}] ELSE crossed

Triple(p, s) == <<s, call[p].arg>>

CountCached(p, s) ==
  /\ pc[p] = "visit" /\ s \in todo[p]
  /\ Cached(Triple(p, s))
  /\ Count(p, s, entries[Triple(p, s)])
  /\ UNCHANGED <<missed, envVars, hprVars, locVars, treeVars, cacheVars>>

(* A miss: the exact orientation is computed with no lock held. *)
Miss(p, s) ==
  /\ pc[p] = "visit" /\ s \in todo[p]
  /\ ~Cached(Triple(p, s))
  /\ Goto(p, "exact")
  /\ missed' = [missed EXCEPT ![p] = {s}]
  /\ UNCHANGED <<todo, crossed>>
  /\ UNCHANGED <<envVars, hprVars, locVars, treeVars, cacheVars>>

CountExact(p) ==
  /\ pc[p] = "exact"
  /\ \E s \in missed[p] :
       /\ Store(Triple(p, s), Exact[Triple(p, s)])
       /\ Count(p, s, Exact[Triple(p, s)])
  /\ missed' = [missed EXCEPT ![p] = {}]
  /\ UNCHANGED <<envVars, hprVars, locVars, treeVars>>

Parity(S) == IF Cardinality(S) % 2 = 1 THEN "Interior" ELSE "Exterior"

Locate(p) ==
  /\ pc[p] = "visit" /\ todo[p] = {}
  /\ Leave(p, {Parity(crossed[p])})
  /\ UNCHANGED <<missed, envVars, hprVars, locVars, treeVars, cacheVars>>

-----------------------------------------------------------------------------
Step(p) ==
  \/ \E c \in Op : Call(p, c)
  \/ LoadWhole(p) \/ SwapChild(p) \/ SwapWhole(p)
  \/ \E g \in Parts : LoadChild(p, g)
  \/ InsertCount(p) \/ InsertAppend(p) \/ Len(p)
  \/ Build(p) \/ PrepareIndex(p) \/ PrepareItems(p) \/ QueryVisit(p)
  \/ Enter(p) \/ EnsureIndex(p) \/ LocateEmpty(p)
  \/ TreeBuild(p) \/ TreePack(p) \/ TreeQuery(p) \/ Locate(p)
  \/ CountExact(p) \/ \E s \in Segments : CountCached(p, s) \/ Miss(p, s)

Terminated ==
  /\ \A p \in Procs : pc[p] = "idle" /\ calls[p] = MaxCalls
  /\ UNCHANGED vars

Next == (\E p \in Procs : Step(p)) \/ Terminated

Spec == Init /\ [][Next]_vars
FairSpec == Spec /\ \A p \in Procs : WF_vars(Step(p))

TypeOK ==
  /\ call \in [Procs -> Op] /\ calls \in [Procs -> 0..MaxCalls]
  /\ env \in [Parts \cup {Whole} -> SUBSET [by : Procs, of : SUBSET Parts]]
  /\ got \in [Procs -> SUBSET Parts]
  /\ mu \in Procs \cup {Nobody} /\ treeMu \in Procs \cup {Nobody}
  /\ numItems \in 0..Cardinality(Items) /\ inserted \subseteq Items
  /\ itemsToLoad \subseteq Items /\ itemValues \subseteq Items /\ nodes \subseteq Items
  /\ once \in {"new", "running", "done"}
  /\ polygon \subseteq Segments /\ geom \subseteq polygon /\ idx \subseteq Segments /\ root \subseteq Segments
  /\ todo \in [Procs -> SUBSET Segments] /\ crossed \in [Procs -> SUBSET Segments]
  /\ CacheTypeOK

Returned(p, op) == pc[p] = "idle" /\ calls[p] > 0 /\ call[p].op = op

(* Where a point is, looking at every segment it stabs. *)
Location(pt) ==
  LET Having(o) == {s \in Stabbed[pt] \cap polygon : Exact[<<s, pt>>] = o}
  IN  IF Having("Collinear") # {} THEN "Boundary" ELSE Parity(Having("CounterClockwise"))

Appending == {p \in Procs : pc[p] = "append"}

(***************************************************************************)
(* Every call returns what it would have with nobody else around: a query  *)
(* of HPRtree the items of all insertions that returned, since none can    *)
(* follow the packing; Insert panics only for a packed tree; Len, which    *)
(* reads without the mutex, a count between the insertions done when it    *)
(* was called and those begun; Locate the location the complete segment    *)
(* index and the exact signs give; an envelope the extent of all members.  *)
(***************************************************************************)
QueriesComplete == \A p \in Procs : Returned(p, "Query") => answer[p] = inserted
PanicsOnlyWhenBuilt ==
  \A p \in Procs : Returned(p, "Insert") =>
    IF answer[p] = {"ok"} THEN call[p].arg \in itemsToLoad \cup itemValues ELSE isBuilt
LenBetween ==
  \A p \in Procs : Returned(p, "Len") =>
    /\ Cardinality(answer[p]) >= Cardinality(asked[p])
    /\ Cardinality(answer[p]) <= Cardinality(inserted) + Cardinality(Appending)
LocatesRight ==
  \A p \in Procs : Returned(p, "Locate") => answer[p] = {Location(call[p].arg)}
EnvelopesComplete == \A p \in Procs : Returned(p, "Envelope") => answer[p] = Parts

AnswersRight ==
  /\ QueriesComplete
  /\ PanicsOnlyWhenBuilt
  /\ LenBetween
  /\ LocatesRight
  /\ EnvelopesComplete

(***************************************************************************)
(* What has been published is never replaced: an envelope pointer that a   *)
(* goroutine may have loaded, the items of a packed tree, the segment      *)
(* index behind sync.Once, the root of the interval tree.  The readers     *)
(* hold no lock while they use them.                                       *)
(***************************************************************************)
PublishedStays ==
  [][/\ \A g \in Parts \cup {Whole} : env[g] # {} => env'[g] = env[g]
     /\ isBuilt => itemValues' = itemValues /\ nodes' = nodes /\ numItems' = numItems
     /\ idx # {} => idx' = idx
     /\ root # {} => root' = root]_vars

(***************************************************************************)
(* No call waits for ever: not on a mutex a panic left locked, nor on      *)
(* sync.Once, nor on another reader.  Each goroutine is scheduled again    *)
(* and again (weak fairness); a mutex is free infinitely often because     *)
(* the calls are finitely many.                                            *)
(***************************************************************************)
CallsReturn == \A p \in Procs : []<>(pc[p] = "idle")
=============================================================================
