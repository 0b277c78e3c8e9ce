# A verification project for go-topology-suite

TLA+ models of the control logic of go-topology-suite, a planar geometry
library in Go, with the TLC runs that check them on small instances and TLAPS
proofs of the properties that hold for every instance. `PROJECT.json` lists the
components, the runs, the theorems and, for each definition, the source lines
it stands for; a short helper is listed with the definition that uses it.

Contents: [the system](#the-system), [the modules](#the-modules),
[the runs](#the-runs), [the proofs](#the-proofs), [what the runs
found](#what-the-runs-found), [what is not modelled](#what-is-not-modelled).

## The system

Most of the library is pure functions on immutable geometries. Its state is in a
few places; what is hard elsewhere is the control of long algorithms: which
special case answers, in which order, with what left over from the step before.

| component | state | operations | what is hard | what makes it correct |
|---|---|---|---|---|
| cascaded unary union (`overlay/unary_union.go`) | one token channel for the process; for each call a tree of subtasks, their results, a `done` channel for each spawned half | `UnaryUnion`, `cascadedBinaryUnion` | the only goroutines the library starts: spawn or not by the tokens free at that moment, join, errors and panics of either half | the answer does not depend on the schedule; tokens are conserved; nobody waits for ever |
| collections (`unionGeometryCollection`) | members sorted by dimension, on every level of nesting | partition, union of the areas, absorption, packing | empty parts, nesting, order of the members | nesting and order do not matter, nothing is lost, a second union changes nothing |
| overlay dispatch (`overlay/general.go`, `line_overlay.go`, `nonpolygonal.go`, ...) | a tolerance ladder around an engine that may fail | the four operations by type of operand | which result is returned when attempts are rejected; collections that call back into the dispatch | the overlay of the point sets, whatever path answers |
| overlay engine (`internal/overlayng`) | half-edges, faces, labels, rings | snap, node, subdivide, classify, extract, repair | pinch points, holes in holes, shared edges, collapsed slivers, loops that end only when lists are well formed | the answer is the point set the operation names, as valid polygons, lines and points |
| lineal overlay (`overlay_lineal.go`) | segments, hot pixels, rounds | lines and points with a tolerance | vertices that attract lines, which make vertices | the lines and points of the operation, joined |
| noding, snapping (`internal/noding`, `snap`, `snaprounding`) | segment strings, hot pixels, k-d tree | iterate to a fixed point | iteration caps, collapse | fully noded output close to the input |
| polygonizer, line merger, sequencer, dissolver | planar graphs with marks and deletions | batch algorithms | order of removals, traversals over marks | faces of the lines; every line once |
| relate engine, predicates (`internal/relateng`, `predicate`) | a matrix that only grows | evaluate with early exit | stopping before the matrix is complete; merging sections at a node | the early answer is the complete one, and that of the point sets |
| prepared geometries (`prepare`, `algorithm/locate`) | cached indexes | predicates | first use from many goroutines | same answer as unprepared |
| validation and repair (`validate`) | none | ring, hole, shell and member checks | combinations of touches | accepts what is valid and nothing else |
| spatial indexes (`index`) | trees with envelopes, counts, a mutex | insert, remove, pack, search, nearest | splits that travel up, first query from many readers at once | no item lost, a search finds everything |
| caches (`geom/base.go`, `geom/multi.go`, `kernel/planar/robust.go`) | an atomic envelope, a bounded map with a ring of keys | load, compute, store | racing stores and evictions | map and ring agree; one published value |
| formats (`wkt`, `wkb`, `geojson`, `gml`) | none | parse and write | layouts, empty and mixed parts, inherited reference systems | what a format loses, and nothing else, is lost |
| buffer, triangulation, simplification, coverages | planar graphs of their own | batch algorithms | traversals, termination | partition of the plane, validity |
| kernels, projections, measures, hulls, shapes | none | formulas in floating point | rounding | outside a finite model |

How they interact: `overlay` dispatches to `overlayng`, which nodes both
operands (`noding`, `snaprounding`), builds the DCEL, traces and classifies its
faces and extracts the answer; `UnaryUnion` calls `overlay.Union` from several
goroutines at once, and with it the envelope caches, the orientation cache and
the buffer pool, which are the only state those calls share; the buffer builds
the same DCEL with depths in place of tags and shares the ring assembly; the
ring assembly and the noders query the indexes; predicates go through
`relateng` unless a short cut or a prepared form answers.

`PROJECT.json` lists as "hazards" what can go wrong in this code where a test
would hardly look, each at its line, with the properties that would show it.

## The modules

| module | models | extends or instantiates |
|---|---|---|
| `UnionPromise` | what a caller of `UnaryUnion` is promised | |
| `CascadedUnion` | `unionAllAreal`, `cascadedBinaryUnion`, the token pool | INSTANCE `UnionPromise` |
| `CollectionUnion` | `UnaryUnion` by type, `unionGeometryCollection` | |
| `OverlayDispatch` | the four operations by type, the tolerance ladder, collections, the second try at enhanced precision | `CollectionUnion` |
| `Dcel` | `buildDCELCore` in tag mode, `traceFaceCycles` | |
| `OverlayDriver` | snapping of areas, hot-pixel rounding, repair of polygons whose rings touch | `SnapGrid` |
| `OverlayGrid` | `overlayCorePolygonalMixed`, with the driver's steps before and after | INSTANCE `OverlayDriver` |
| `OverlayLineal` | the overlay of lines and points | `LineGraph`, `SnapGrid` |
| `Planar` | the plane the geometries are drawn on; orientation, intersection, distance, point in ring, on integers | |
| `Noding` | the noders, validators, detectors, dissolver | `Planar` |
| `SnapGrid` | rounding, hot pixels, the k-d tree, ring noding | `Noding` |
| `NodeLines` | `snaprounding.Noder`, the iterated, scaled and snapping noders | `LineGraph`, `SnapGrid` |
| `LineGraph` | the graph the line tools build | `Planar` |
| `Polygonize`, `LineMerge` | `polygonize`; `linemerge` and `dissolve` | `LineGraph` |
| `Linework` | one call of any line tool; its properties | the four above |
| `RelateGeometry`, `RelateNode` | location of points, sections at a node and their propagation | `Planar` |
| `RelatePredicate` | the matrix and the predicates on it | |
| `RelateSteps` | the tests of the topology computer | the three above |
| `RelateAnswer` | what an evaluation promises | |
| `Relate` | one evaluation with early exit | `RelatePredicate`, INSTANCE `RelateAnswer` |
| `NamedPredicates` | package `predicate`, prepared forms, rectangles | `RelateGeometry`, `RelatePredicate` |
| `Validity` | package `validate` | |
| `RTree`, `SpatialIndexes` | the R-tree; quadtree, Hilbert tree, interval and vertex trees, `Nearest` | |
| `SharedReaders` | the orientation cache; everything that is filled on first use, under concurrent readers | |
| `Formats` | the geometry types; WKT, WKB, GeoJSON and GML | |
| `FormatChain` | a geometry that goes from format to format | `Formats` |
| `...Proofs` | the theorems of the module they are named after | |
| `MC...` | instances for TLC | the module they are named after |

### CascadedUnion

A task `<<c, start, end>>` is the call `cascadedBinaryUnion(geoms, start, end)`
made for caller `c`. A task is one activation, on one goroutine, so `pc[t]` is
its control state, `res[t]` what it returned or panicked with and `worker[t]`
the goroutine it spawned. `tokens` is `len(unaryUnionWorkers)`.

| `pc[t]` | the activation of t |
|---|---|
| `call` | entered, before the switch and the select |
| `left` | not spawned: runs its left half (line 211) |
| `right` | runs its right half (205 or 212) |
| `join` | in `<-done` (206) |
| `done` | returned or unwound |

One action is one step between two synchronisations: the non-blocking send
(`Spawn`, or `Sequentially` when it fails), the return of a half, the receive
that gives the token back (`Release`), `close(done)` (`Close`), the receive from
`done` with all that follows it (`Join`). A panic unwinds through `LeftReturned`
and `RightReturned`; when the right half panics while the left one runs in its
own goroutine, the task is gone and the goroutine stays. A geometry is the
expression it was computed by, so that two results are equal exactly when the
same unions were made of the same operands in the same order; which unions fail
or panic is part of the input (`fault`), the same for all schedules. The result
of the sequential code is the function `Sequential`, tied by its assumption to
the same leaf and combine rules.

A panic value is not compared: when both halves panic the sequential code
raises the left value and the concurrent code the right one.

### CollectionUnion

The plane is a strip: polygons are rectangles of its full height, lines and
points lie on its middle line, so a part is the set of positions it covers and
`Covers` is inclusion. A frame is one activation of `unionGeometryCollection`
(`polys`, `lines`, `points`, the members still to read); `Take`, `SkipEmpty` and
`Descend` are the cases of the member loop, `Return` all that follows it,
absorption included, and, in the caller, the switch on what the nested call
returned. A union may fail at any areal stage (`Fail`). `Again` calls
`UnaryUnion` on the answer.

### Dcel

One action for each iteration of each loop: `SkipDegenerate`, `Merge` or `Emit`
for a segment, `Wire` for the sort of the outgoing half-edges, then
`SkipTraced`, `StartFace` and `Walk` for the two loops of `traceFaceCycles`. A
half-edge is the pair of its vertices, so `edgeMap` is `DOMAIN tags`. The
angular sort is a constant of which the module assumes only that it loses and
repeats nothing. The slab arenas, which only place objects in memory, are left
out. So is the depth mode of the buffer: its caller merges coincident edges
before.

### OverlayGrid

The operands are sets of unit cells on a grid, with spikes where snap rounding
would have collapsed a sliver; rings visit every grid point, so noding adds
nothing. The DCEL has unit half-edges, `<<x, y, d>>`. A sample point a hair left
of an edge (`edgeNudgePoint`, `RingRepresentativePoint`) is the cell to its
left, and the even-odd test of a point against the operand is membership of the
cell; tests against boundary walks (`pointInFace`, ring against ring) are done
with the ray as in the code. `stage` runs through the functions of
`overlayCorePolygonalMixed`: `Build`, `TraceFace`, `Classify`, `ApplyOp`,
`StartRing`/`GrowRing`/`CloseRing`, `Assemble`,
`StartLine`/`GrowForward`/`GrowBackward`, `ExtractPoints`. Ties of "longest
edge" are broken by a fixed order of the edges, since all have the same length.
`root` is the union-find of the kept faces: two of them have the same root when
shared edges link them. `Overruled` is the second test of a face, by the average
of its vertices, for a face that its sample finds outside.

### RTree

As in the code nodes are shared by reference: `nodes` maps a number to a node,
an entry of an inner node is a number, an entry of a leaf is the place of its
item in `given`, and `path` is `insertPath`. A call holds the write lock from
its first step to its last, so no other call is seen in the middle, and the tree
may be read where `at` is `"idle"`; but the loops of a call change one node
after the other, so each turn of a loop is a step. An insertion goes down by
`ChooseChild` (`chooseLeafPath`), puts the item in by `AddItem`, which grows the
nodes of the path when the leaf has room and nothing but the leaf when it has
not, and splits by `SplitInner` and `SplitRoot` (`splitAndPropagate`): the
parent takes the two halves in and is recomputed, and when it has room nothing
further up is touched. A large batch is `BulkRebuild`, `CollectNode` for each
node the recursion of `collectItems` visits (`path` holds those to come),
`AppendBatch`, and `PackLeaves` and `PackInternal` for the levels of `strBuild`
(`row` is the slice that is packed next). `Place` is a stable sort. The sorts of
the split are (`slices.SortStableFunc`), and the order that one leaves decides
ties of the next; the sorts of the packing are not (`slices.SortFunc`), and what
they do with equal centres is taken to be the same. The theorems do not depend
on it: they use of a sort only that it loses and doubles nothing.

A search (`Search`) changes no node and holds the read lock, so that it meets
the tree between two calls that write and one search stands for any number of
them. `SearchNode` is one call of `searchNode`, with all that a leaf gives to
the callback: `path` holds the nodes yet to be visited and `row` what the
callback got. `SearchStops` is a leaf at one of whose items the callback
returns false.

### OverlayDriver

What `internal/overlayng/overlay.go` does around the engine. Before:
`SnapAndPartition` (rings that collapse are dropped, and with a shell its
polygon) and `HotPixelRound`, which leads the rings of both operands through the
hot pixels of both. After: `SplitOrUnited` for figure-8 shells,
`RepairOnePolygon` for holes that cross their shell (one polygon; the loop of
`RepairSimplifiedPolygon` over members is not modelled), `Injected` for contacts
of rings, `CanonicalizeTouchingRings`. `OverlayGrid` takes these steps in
`PrepareAs` (inputs drawn at half cells, so that snapping moves and collapses
them) and `RepairBy`.

### OverlayDispatch

A frame is a call in progress on two operands: `op`, the operands, the `rung` of
`tryOverlayNG` it has reached and the `first` result it will fall back on; a
symmetric difference and a collection push calls of their own. The engine is an
oracle: an attempt may give the right point set, fail in the ways the
acceptance test looks for (an error, lines in place of areas, an empty or too
large area, a ring that meets itself: `Noticeable`), or be simple polygons with
one piece missing, too many or elsewhere that the test cannot tell from right
ones (`Plausible`). `fared` remembers how the engine failed in the call: in the
first attempt, in all of them, or in that last way. `Retry` is the second try
at enhanced precision. Lines are taken apart into `NodedEdges`, selected by their
tags or middles and joined by `StitchEdges`. The geometry is the strip of
`CollectionUnion`, on which area tests are exact.

### The line tools

`Linework` is one call: a `tool` on some `lines`. Each tool has variables of its
own and a step for each round of its outer loop. `Polygonize`: one dangle node
or invalid ring after another, one face, one hole. `LineMerge`: one line
of a chain of `Merge`, one edge of a `Sequence`, one chain or ring of `dissolve`. `NodeLines`:
one pass over all lines. `OverlayLineal`: one round of hot pixels, then the
selection and joining of the edges.

`Noding` keeps a meeting point as a quotient `[x, y, d]`; the noders store it
rounded, exactly where the code's next step rounds it too. The index structures
of the noders only prune pairs; that the monotone chains lose none is a
property (`ChainsLoseNothing`, part of `LinesNoded`), as is that the k-d tree
finds what a scan finds.

### The relate engine

None of the tests of the topology computer reads the matrix, so an evaluation is
a sequence of phases fixed by operands and predicate (`RelateSteps`), each a set
of updates made in any order where the code goes over a map or an index.
`Relate` raises the matrix with them one at a time and returns as soon as the
predicate is settled, as `IsResultKnown` does; the envelopes may answer first.
The geometry (`RelateGeometry`, `RelateNode`) is on a lattice where every
segment runs along drawn lines, so all arithmetic is exact and a point set is
known at finitely many samples. `NamedPredicates` and `Validity` are functions
on the same geometries, evaluated for every pair of the run.

### SharedReaders

`pc[p]` is where goroutine p stands in its call; a step is what runs without
another goroutine seeing its middle: one atomic load or compare-and-swap, one
critical section, one call of `Once.Do` on its fast or slow path. `inserted` and
`asked` record what a call of `Len` may answer. The orientation cache comes
first, with `lookup` and `store` under its lock: `entries` the map, `order` the ring, `next`
the slot to overwrite.

### SpatialIndexes

What the other indexes are for the items of the R-tree: for each state of the
tree the quadtree built by the same insertions and after removing any of them,
the packed Hilbert tree with its implicit levels, the interval tree by centre
and the vertex tree. `Nearest` is the best-first search with its queue on the
R-tree itself.

### The formats

A geometry is its type, layout, reference system and sequence of parts;
ordinates are small integers and NaN. A writer gives the structure of the text
or bytes, a reader takes it apart or refuses. `FormatChain` writes, reads and
goes on with what it read. A feature has no box (`<<>>`), or one envelope, which
is the empty one `<<<<>>>>` when the program asks an empty geometry for it; what
is then written is not JSON (`IsJson`), and `RefusedAsFeature` ends the chain as
`RefusedAsText` does. `textFirst` and `boxed` are history: whether a text was read
before GeoJSON or GML dropped any ordinate, and whether the feature has a box.

## The runs

| run | instance | distinct states | properties |
|---|---|---|---|
| `cascaded_union` | two callers with six and three polygons, two tokens, threshold 3, eight combinations of failures | 68,440 | `TypeOK`, `SameAsSequential`, `TokenAccounting`, `NoOrphanWithoutPanic`, `ResultsAreStable`, `EverythingSettles`, `ImplementsPromise` |
| `overlay_calls` | four overlays on pairs of all types, with an engine that fails in up to four attempts; unary unions of three thousand collections | 80,326 | `OverlayTypeOK`, `AsFlattened`, `AnswersAsSets`, `CallsAnswer` |
| `dcel` | every set of the eight edges of two squares with a diagonal; two operands that share edges | 7,424 | `TypeOK`, `TwinsAgree`, `OneFace`, `FacesAreCycles`, `NeverReassigned`, `TraceEnds` |
| `overlay_grid` | four operations, 8 by 12 operands on 3 x 3 cells; drawings at half cells; polygons to repair | 26,063 | `TypeOK`, `FacesClassified`, `AnswerIsResult`, `PolygonsAreValid` |
| `linework` | each line tool on subsets of eleven drawn lines, each noder on strokes and scattered lines, lineal overlays of line and point operands | 35,571 | `TypeOK`, `LineworkKept`, `ChainsRight`, `DanglesRight`, `FacesFound`, `LinesNoded` |
| `relate` | each pair of twenty-three shapes under seven predicates | 25,951 | `TypeOK`, `AnswerIsPointSet`, `AnswersAsPromised` |
| `rtree` | all sequences of Insert and Bulk up to six items over five boxes, fanout 2, batches of two, three and five, packed from three on; searches for four boxes between these calls, stopped at any item or not; and the other indexes of the same items | 720,958 | `TypeOK`, `TreeKept`, `SearchIsRight`, `SearchesFind` |
| `shared_readers` | two goroutines, two calls each, a cache of two answers for three keys | 191,499 | `TypeOK`, `RingInStep`, `AnswersRight`, `PublishedStays`, `CallsReturn` |
| `formats` | up to three passes of a hundred and two geometries through seven formats | 140,597 | `LossIsByFormat`, which includes the shapes of geometries |
| `overlay_island` | one union with an island in a hole | | violates `FacesClassified` |
| `collection_nested` | nested collections of mixed dimension | | violates `NothingLost` |
| `rtree_search` | as `rtree` | | violates `SearchFindsAll` |

Why the bounds are enough to meet the cases that matter:

- Six polygons are the least for a spawned task that spawns in turn on both
  sides (threshold 3), and two tokens with two callers the least for a token
  taken by one caller to be missing in another one's tree. The code's threshold
  of 64 only moves the level where spawning stops; the proofs hold for any.
- Three cells of the strip give disjoint, adjacent and covered parts; pairs and
  triples with a nested collection before or after the other members cover the
  order. Four attempts are all that the ladder has.
- The eight edges contain dangling edges, isolated components, cycles that
  share an edge and a vertex of degree four; the second family of inputs repeats
  segments in both directions and has a segment of length zero.
- 3 x 3 cells are the least on which a hole, a pinch point inside and outside, a
  hole touching its shell and an island next to another operand all occur. The
  drawings at half cells have holes that become slits or vanish, a polygon that
  collapses, one polygon of two that does. Edges inside the area are given to
  one operand only: see `extract_lineal.go:233` below.
- The eleven lines hold a face beside a face, a diagonal, a ring around all, a
  loop at the end of a line, a bridge and a line drawn twice; merging and
  sequencing take every subset of up to four of them in both directions,
  dissolving up to five, polygonizing all. The strokes cross, touch, overlap and
  meet themselves, three at a time; the scattered lines come from a fixed
  pseudo-random sequence and bring the near misses that snapping is about.
  `MaxIter = 2` passes are a bound of the instance and are never exhausted.
- The shapes of `relate` are points, lines, polygons with holes and notches,
  multi-geometries, an empty one, a line of no length and collections; three by
  three cells give each its disjoint, touching, crossing, equal and nested
  partners. The predicates are of every kind, patterns included.
- Fanout 2 with six items reaches height three and splits at every level, which
  the code's fanout of 16 reaches only with hundreds of items. The bulk
  threshold is 3 in place of 100 for the same reason. `MaxItems` is the only
  bound on the behaviour; the tree stops there, hence `CHECK_DEADLOCK FALSE`.
- A cache of two with three keys evicts on every third miss; two calls each are
  enough for first use, second use and an insertion between them.
- Three passes let a loss in one format meet a loss in another in both orders,
  and a repetition of either. The geometries have parts of other layouts, with a
  different number of ordinates and with the same (Z beside M).

Fairness. `CascadedUnion` assumes `WF_vars(\E t \in Task : Step(t))`: the Go
scheduler does not leave the process idle while one of its goroutines can run.
It says nothing of which runs, and nothing makes a caller call: a caller may
never start. `SharedReaders` assumes `WF_vars(Step(p))` for each goroutine: a
goroutine inside a call that can run, runs at last; a lock that is free is
taken at last, which Go's mutex grants. `Dcel` assumes weak fairness of `Next`:
one sequential call that runs on. `OverlayDispatch` says the same in the form
that the call has ended again and again or steps go on for ever: one goroutine
that waits for no other. The other specifications state safety only.

Every property has a mutant in `PROJECT.json`: a definition of the same module,
marked as a variant, that changes one mapped definition the way a plausible bug
would, and under which TLC finds the property violated.

## The proofs

### CascadedUnion

For any finite set of tasks closed under halving, any number of callers and
tokens, any threshold and any set of failing overlays (`TaskAssumption`,
`WorkersAssumption`, `FaultsAssumption`, `SequentialAssumption`), the safety
properties of the run hold and the protocol implements `UnionPromise`.

None of the properties is inductive alone. `IInv` adds where the halves of a
task stand while the task stands somewhere: a task that has not split has idle
halves (`Fresh`), a task past its left half without a worker knows that half
returned normally, a joining task knows the same of its right half, and a worker
that gave its token back has finished its half (`Progress`). `Answer` carries
the result itself. The heart of the argument is that a task finishes only with
its halves done, whose results agree with the sequential ones by `Answer`; the
halves of different tasks are different (`OneParent`), so that a step of one
task disturbs no other. `TokenAccounting` is a count: `Spawn` adds one task to the
set of running workers and `Release` takes one out, by the library's cardinality
theorems. A running worker therefore always finds its token to give back. The refinement maps `result[c]` to `res[Root(c)]`
once the root is done: a step that finishes a root is `Return(c)`, every other
one stutters.

### Dcel

For every noded input and every angular order without loss or repetition.

The loops look as if they could fail: the inner loop writes the face of each
half-edge it meets without asking whether it has one, and stops only at its
start. It is right because `next` is injective: it is the twin involution
followed by a rotation of the fan of the target (`SuccInjective`). Then a walk
cannot run into an older face, which is a closed cycle of `next` (`TraceInv`),
nor into its own middle: the half-edge before the meeting point would be the
predecessor of one half-edge in two ways (`Fresh`). `IInv` is the conjunction of
what the build has made (`BuildInv`), the traced faces as paths and cycles of
`next` (`TraceInv`) and where the inner loop stands (`WalkInv`). From it follow
`OneFace`, `FacesAreCycles` and, as an action property, `NeverReassigned`.

### SharedReaders

For any number of goroutines and of calls, any finite set of items, any members
and segments and any capacity of the cache (`CapAssumption`, `KeysAssumption`,
`ReadersAssumption`).

`RingInStep`: the ring and the map of the orientation cache name the same keys.
The code evicts the key of the slot it is about to overwrite and only when the
map is full; that this is the right moment rests on the map being full exactly
when every slot has been written (`FullWhenWrapped`), a bijection between the
slots written and the keys held. Two goroutines that miss the same key both
store it, and the second store must then leave the ring alone.

`PublishedStays`: an envelope, a packed tree or a filled locator that one
goroutine has seen is never replaced. `IInv` says where a goroutine may stand
while the structure is in which state: nobody packs a tree that is built,
whoever is inside a mutex is its holder, the values in flight are those that
were there to read.

`AnswersRight`: each call answers what a call alone would. The envelope a
goroutine has computed is that of all members whoever else computes it, a tree
once packed holds the items inserted before and takes no more, so a query on it
finds them all, and a count lies between the items inserted when the call began
and when it ended.

### Relate

For any operands, any tests they give (`OperandsAssumption`) and any predicates
(`PredicatesAssumption`).

An evaluation answers early, with tests to come. `IInv` says that the matrix
so far and the facts of the tests to come are together the whole matrix
(`Complete`); entries are only raised, so a predicate that is settled on part of
the matrix has that value on all of it (`SettledIsFinal`, from `ExceedsGrows`,
`ExceededNoMatch`, `IntersectGrows` on the comparisons that settle). Hence
`EarlyAnswersRight`: the evaluation implements `RelateAnswer`, one answer for
each query whatever the order and however early. That the whole matrix is the
one of the point sets is checked by TLC on the shapes of the run.

### Linework

For any lines the tools are called with (`CallsAssumption`: each has a point).

`DanglesRight`. A set of lines has no free end when every end of a line in it is
shared with another of its lines, or the line is closed. Two facts make the
order of the removals indifferent: a line that is removed is in no such set
that avoids the lines removed before (`NoneOfThem`), and a node that becomes
free is an end of a line just removed (`BecomesFree`), so that looking at the
other ends of removed lines misses no node. `DanglesInv` keeps every node with a
free end in the queue; when that is empty the lines left are such a set
themselves, hence the largest.

`ChainsRight`. A chain is started at a node that is no link of two lines, or on
a line of a component without such a node, and takes at each link the one line
it has not come from. `MergeInv` says what the marks are worth in the middle of
a walk: the chain so far runs end to end through links, its lines and those of
the finished chains are the marked ones, and at a link both lines are marked or
neither is, except at the two ends of the chain. From this the walk cannot run
into its own middle or into an older chain.

`SequenceRight`, the part of `LineworkKept` on `Sequence`. `ComponentIs`: the
search in breadth gives the least set of nodes that no line leads out of, since
it can find no more nodes than there are. `SubpathIs`: a trail goes on to where
no line is left, and changes at its two ends only whether the number of
half-edges left at a node is odd (`OddChanges`). A node without a line left is
even (`StuckIsEven`); so the first trail of a component, when it begins at one
of at most two odd nodes or there is none, leaves nothing odd
(`FirstTrailEvens`), and every later trail comes back to the node it began at
(`TrailComesBack`) and can be put in before the line that leaves it
(`TrailSpliced`). `SearchInv` says where the backward search stands: a node of
the trail with a line left is left by a line of the trail at the cursor or before
it. At the end no node has one, the component is whole, and the next one has no
node in common with it (`PartsAreApart`).

`DissolvedRight`, the part on `dissolve.Lines`. Of a vertex where just two
segments meet both are walked or none is (`Both`): a line leads through it, or
ends in it only as a ring (`WalkKeepsBoth`). Therefore a walk never runs into a
segment of its own or of an older line but by closing (`GoesFurther`), and as it
takes a new segment each time, as many steps as there are segments bring it to
where it stops (`ChainPasses`). When no vertex is left to begin at, the rest is
rings and every vertex of the one chosen can begin it (`RingDissolved`): what
`result` has in reserve for a start without a segment, and for a ring that is
not closed, is not needed. `OthersKept` puts the two parts together: `LineworkKept`
holds of every call that is not an overlay.

### OverlayGrid

For any grid, any operation and any operands made of cells and spikes
(`InputsAssumption`).

The classification looks at one sample for each face, beside one edge; that this
speaks for the whole face is geometry. `NothingBetween` and `NextIsBeside`: from
an edge to the next of its face the turn sweeps only over edges that are not
there, so no ring lies between the cells to their left and each operand holds
both or neither. `WalkExists` and `CycleStays` carry this around the face, which
is a walk along `next` from one half-edge: what holds there and passes on to the
next half-edge holds on all of it. Then the sample of a face agrees with every edge of it
(`SampleIsBeside`), whichever edge the code picks. `GridInv` states where each
loop stands; `ResultInv` adds what the faces, the kept faces, rings, lines and
points are worth. The results:

- `FacesRight`: every face is judged as the cells beside it, and the
  classification is that of the point sets, but for faces in `Misjudged`. These
  are the ones that the second test, by the average of the vertices, declares
  inside though the operand does not hold them; run `overlay_island` shows that
  they exist, so the exception cannot be dropped. Without them the conclusion is
  `FacesClassified`.
- `RingsBorderResult`: each edge of a result ring has the result on its left and
  none of it on its right.
- `NothingOutside`: the lines and points of an intersection lie in both operands,
  and no line lies beside a cell of the result.
- `GridTyped`: the types, with the length of a ring bounded by the number of
  half-edges (`RingIsShort`: a ring never passes an edge twice).

- `RingsComeBack`: each ring returns to its start, no edge is in two places, and
  in the end every edge of the boundary is in a ring. The argument is one of
  counting. `NextEdgeInjective`: no two half-edges have the same next one, so
  the walk of a face comes back to where it began (`CycleIsClosed`, `Ahead`) and
  in the end `next` stays in its face (`FaceAtEnd`). Around a vertex, then, kept
  and dropped faces alternate: at most two boundary edges lead in and as many
  out, and two of them never go on by the same one (`WaysInAndOut`,
  `BoundaryInjective`), the choice at a pinch point by components included. A
  walk whose steps can be undone can only end where it began (`RingComesBack`).
- `RingsBoundResult`: the rings together are the boundary of the result: the
  half-edges with a cell of it on the left and none on the right, but for those
  beside a face in `Misjudged`.
- `NothingMissing`: without misjudged faces, the lines of an intersection are the
  edges that both operands have and no cell of the result is beside, and it has
  each point where the operands only meet. `Swept` says what the loops that
  extract lines have left to do. A further point may appear on or within a
  polygon of the answer, where spikes of both operands end inside it.

How the rings lie in each other is in `OverlayNestProofs`, for rings that are
walked where no face is misjudged (`RingsDone`). It would follow from the Jordan
curve theorem; on the grid, counting modulo two is enough. A closed walk has an
even number of edges at each point (`EvenAtPoint`), so the even-odd test changes
from a cell to the next just across one of its edges, upright or flat
(`AcrossEdge`). Two rings border the same cells and share no edge; where they
meet at a vertex the cells around it alternate, so that no ring goes from the
inside of another to its outside (`TurnInOrOut`, `WholeInOrOut`), and then one
lies in the other or they lie apart (`NestedOrApart`).

- `EvenOddHolds`: a cell is in the result when an odd number of rings is around
  it. Both sides of this change just across a ring, and hold nowhere far to the
  right (`OddIn`).
- `RingsAreNested`: the sample that `AssembleOutputPolygons` takes of a ring
  speaks for the whole ring, on whichever side of another one that is; rings are
  nested or apart. `Boxes` says the same of any number of them: the rings around
  a cell form a chain, of which the depths are 0, 1, 2 and so on (`Innermost`,
  `DeepestBeside`).
- `PolygonsCoverResult`: the polygons cover the result, each cell once. A cell
  lies in the polygon of its deepest ring of even depth (`OnlyDeepest`).
- `RingsHaveOnePolygon`: every ring is the shell or a hole of exactly one polygon
  and turns that way; a hole lies in its shell and apart from the other holes.

The same module says what the components of the kept faces are for.
`nextBoundaryAtVertex` keeps a ring in its component where four boundary edges
meet; the theorems are that this is always possible and always enough.

- `ComponentsRight`: `Components` folds `JoinFaces` over the edges. A set of
  faces that no edge with a kept face on both sides leaves is one that no join
  leaves either (`FoldJoins`), and each face of a component has its root, so that
  roots and components are one (`RootsAre`).
- `RingsStayInComponent`: around a vertex the kept faces between a boundary edge
  that leads in and the next one that leads out share edges. One way on is
  always of the component of the ring (`RootAlong`), and the second loop of
  `nextBoundaryAtVertex` (`result.go:141-163`) is never entered.
- `RingsAreCut`: no ring visits a vertex twice. Suppose one did: the part between
  the two visits is a closed walk of its own (`PartIsRound`), so an even-odd test
  tells cells inside it from cells outside. Faces with a common edge lie on the
  same side (`AroundInSet`, `FaceBeyond`), and so do those of one component
  (`SameSide`); but the ring leaves the vertex with a face of its component on
  the other side (`CutAtPinch`). This needs no condition on the faces judged.
- `PolygonsAreConnected`: a part of a polygon that no edge leads out of, but into
  cells outside of the polygon, is bordered by whole rings (`RingAroundPart`,
  `RingBesidePart`). All cells of a polygon have the same rings around them
  (`SameAround`), so the even-odd test by the rings of the part answers the same
  for all: the part is the polygon.
- `PolygonsValid`: `PolygonsAreValid` as a whole, for any operands without a
  misjudged face. What is new is the driver's test `needsCanonicalize`. A vertex
  drawn is a grid point times the tolerance, and nothing of that kind lies within
  a side of one unit but at its ends (`NothingWithin`), so no ring runs into
  another one (`RingsDoNotTouch`) and none repeats a vertex (`RingsAreCut`). Two
  rings have no side in common (`NoCommonSide`): it would be an edge and its
  twin, and both would have the result on their left. `Edges # {}` leaves out
  the repairs that are kept, which do not come from the subdivision.
- `AnswersRight` puts all of it together: for operands on the grid the answer, with
  its polygons, lines and points, is the operation on the point sets, as
  `AnswerIsResult` says. Two conditions remain, and both are needed: no misjudged
  face, and no spikes of both operands that end in one point within the result
  (`SpikesApart`), since there `extractResultPoints` emits a point that a polygon
  covers. What is new is that an intersection then has no point too many
  (`NoPointTooMany`): where one of its points is beside the result, an edge of the
  result would pass through it and cover it, so the result is all around, and only
  spikes can have brought the edges of both operands there. That a call without drawn
  polygons has edges at all is `CellsHaveEdges`; `MembersAre` reads the answer as
  `assembleMixedDim` packs it. `SubdivisionAnswers` says the same of operands that
  were drawn, once they are on the grid.

### RTree

For any items and batches, any fanout of two or more that leaves room for two
halves (`FanoutAssumption`; the code has 16 and 4), any threshold and any number
of items.

`TreesAreKept` speaks of the tree between calls, and the loops of a call break
it on purpose: a leaf has an entry too many until it is split, its parent is
narrower than its children until it is recomputed, nodes without a parent lie
about while a level is packed. `Good` says what holds of the nodes all the same:
each has entries and an envelope no wider than these, the leaves hold the items
(`items`) and the other nodes all nodes but `tops`, nothing is held twice,
heights go down by one, only the nodes of `big` may have one entry too many,
and only those of `stale` may differ from their exact envelope near the
leaves. `HeapInv` gives these sets for each step (`Placed`, `Tops`, `Big`,
`Stale`), and `StepInv` says what `path` and `row` are: the path of an
insertion leads down one level at a time (`Chain`), so the last node but one is
the parent, and its height tells it from the others; the nodes that are still to
be collected, and those that are to be packed, are the tops. The steps are
lemmas about `Good` that do not mention the variables: an item more in a leaf
(`OneMoreIsWhole`, `ItemIsIn`, `LeafIsOver`), two halves for a node
(`SplitFacts`, `HalvesAreTops`), a parent that takes the halves in
(`ParentIsGood`), a top that is let go of (`TopIsGone`), a new level
(`LevelIsGood`, `LeavesAreGood`). What they need of the algorithms is little: a
sort gives each entry a place of its own (`PlacesAreTaken`, `SortedByIs`), the
cut of a split leaves neither half empty or too large (`RStarSplitIs`), and the
groups of the packing have at most `MaxEntries` members and are disjoint and
together everything. That nothing is left when the collection has
no node to visit is an argument of height: of finitely many nodes none of which
is a top, the highest has no parent (`NothingLeft`).

The envelopes further up need not be exact, and no invariant says that they contain
what is below them: `rtree_search` shows that they need not. `SearchesAreRight`
says what a search makes of that, for any queries and whether or not its callback
stops it: it gives only items that meet the query and none twice, and one that is
not stopped misses only what lies under a node, higher than the parents of the
leaves, whose own envelope does not meet the query; where all envelopes are
exact (`AllExact`) it misses nothing. They are after a rebuild
(`PackedAreExact`, with `AllExact` as the invariant while levels are packed), and
insertions keep them so until one in which an inner node other than the root
takes two halves in and stays within the fanout (`ExactTillAbsorbed`, with
`Absorbed` for that step): the lemmas about insertions carry the set of nodes
that are not exact along, and it stays empty but for the parent of the node to
be split.
`SearchInv` is the argument: no item found is under a node yet to be visited, no
two of these have a node in common below them, and an item that meets the query
and is not found is under one of them or under a node that was turned away from.
What is below a node (`Under`) is the least set closed under children, since a
recursive operator is out of reach, and what the steps need of it is proved from
the tree being one (`Rooted`, which is what `TreeKept` says): the nodes under a
node are itself and those under its children, which are lower (`UnderParts`);
children share nothing (`ChildrenApart`), by the highest node they could share;
all nodes are under the root (`AllUnderTop`), by the highest that is not. Where
envelopes are exact that of a node has those of all items under it inside
(`ExactReaches`: the nodes inside it are closed under children), and leaves and
their parents always are exact (`NarrowIs`).

### Only model-checked

Liveness (`EverythingSettles`, `TraceEnds`, `CallsReturn`, `CallsAnswer`), since
the prover does not reason about fairness. Of the overlay: what
the driver makes of the operands drawn (the part of `AnswerIsResult` on snapping and
repairs), the repairs that are kept, and the answers where a face is misjudged or
spikes meet. Of the line tools `FacesFound` (areas), `LinesNoded`
(arithmetic on quotients), the part of `LineworkKept` on overlays, and `TypeOK`;
what relate computes (`AnswerIsPointSet`). `CollectionUnion`, `OverlayDispatch`,
`SpatialIndexes` and the formats are built on recursive operators over
nested data, which no theorem may reach: with them `SearchesFind`, on the other
indexes and `Nearest`, stays with TLC.

## What the runs found

Three runs end in a violation, each of a sentence of the repository:

1. `rtree_search`. `insertItem` returns after a split
   (`index/rtree.go:82-85`), and `splitAndPropagate` recomputes only the parents
   of the nodes it splits. In a tree of height two or more the envelopes further
   up may miss the new item, and `Search` does not find it. `TreeKept` and
   `SearchIsRight` say what is left: leaves and their parents are exact, and
   a search misses only what is under a node of height two or more that its
   query does not meet. `ExactTillAbsorbed` proves that there is no other
   way for an envelope to become too narrow.
2. `collection_nested`. The switch on the union of a nested collection
   (`overlay/unary_union.go:274-293`) has no case for a collection: a nested
   collection of mixed dimension disappears. The inputs of `overlay_calls`
   leave such collections out and show that all others are right.
3. `overlay_island`. The centroid check of `classifyFacesByPolygons`
   (`classify.go:70-83`) takes the centroid of a face for a point of the face
   when it is inside the face's own boundary walk. In a hole with an island the
   centroid may be in the island; the hole is then classified as inside. Every
   call with such an operand takes that path, at every tolerance; the area test
   of `overlay/general.go` may reject the result, but then returns it after all
   rungs of the ladder (`general.go:67-70`).

The following came up while the modules were written. Inputs that meet them are
left out of the passing runs, where the MC module says so by name.

Overlay calls (`OverlayDispatch`):

- `simplifyGCPair` (`overlay/nonpolygonal.go:15-44`) calls the operation again on
  the unary unions of its operands. A collection that stays a collection is
  passed again and again: the test that is to prevent it compares pointers of
  fresh values. `CallsAnswer` makes this its one exception.
- When all attempts are rejected the first result is returned, also when it is
  legitimately empty (operands that touch), after the other three were run for
  nothing; a wrong first result is then returned even if a later one was right
  but rejected. `AnswersAsSets` has this as an exception: a right result without area,
  after a first attempt that was wrong.
- The comment on `overlayResultIsAcceptable` (`general.go:83-91`) gives the test a
  lower bound ("Union ≥ max(A,B)") that "catches 'missing component' gaps";
  `overlayAreaIsConserved` (280-303) has upper bounds only, and says why. Simple
  polygons with a piece missing, or one elsewhere, are therefore accepted at the
  first rung, and the rungs that would be right are not tried. `AnswersAsSets` has
  this as its other exception (`"plausible"`) and says what the bounds leave: no
  more area than there can be. It asks for the exact answer also where the last
  union of a symmetric difference loses a piece in this way, which `KeepUnion`
  notices by its area.
- The convexity test (`overlay/overlay.go:84-106`) does not look at the corner
  where the ring starts, so a ring that starts at its one reflex corner takes
  the convex fast path. The fast path also returns a polygon of no area for
  operands that share only an edge.
- Polygon minus line returns a collection, and rounds vertices to whole numbers
  when all input is whole.

Overlay engine (`OverlayGrid`, `OverlayDriver`, `OverlayLineal`):

- Where both operands have an edge inside their own area at one place, an
  intersection lists shared vertices as isolated points though they lie inside
  the polygon of the answer (`extract_lineal.go:233`).
- An operand that snaps to nothing makes the answer empty for every operation,
  union and difference included (`overlay.go:65-74`, `207`); `AnswerIsResult`
  takes it as the code's rule.
- Splitting a figure-8 shell drops the holes (`overlay.go:997`); no
  subdivision gives such a shell, only a caller of the repair does.
- A hole that shares an edge with its shell from vertex to vertex is not
  noticed; contacts are injected up to eight for each ring.
- A symmetric difference drops a point of one operand that only snaps onto a
  line of the other, where the difference keeps it. Giving up after four
  rounds of noding is silent; no input of the run needs a fourth.

Relate, predicates, validation:

- `AddPointOnGeometry` (`topology_computer.go:178-191`) raises the exterior of a
  collection for a point of it outside the target, although a polygon of the
  collection may cover the target there.
- `IsSelfNodingRequired` (76-87) asks only for the first operand.
- `computeLineEnds` (`relate_ng.go:247-273`) skips lines clear of the target's
  envelope once any end was outside.
- A hole that touches its shell inside a segment is not noded there; with a
  second operand along that segment the node lacks a section (`Hidden`).
- `PreparedPolygon.Covers` takes a line or polygon that crosses a hole or notch
  through its vertices as covered; it is exact where the operands keep off each
  other's lines (`Clear`).
- A line of no length is a point to some tests and a line to others (`Held`).
- `checkMultiPolygon` misses an overlap when no vertex and no centroid of one
  polygon is strictly inside the other (`Unseen`); the inverted-ring mode
  accepts rings that run along an edge twice; `MakeValid` leaves holes that
  touch the shell along a line.

Line tools (`Linework`):

- `Sequence` may start at an even node of lowest degree; in a theta graph the
  result then does not run end to end, and is returned as a success.
- `removeInvalidRingLoops` keeps the reversed half of an invalid loop, and a
  bridge to an inner ring stays in the shell; both are left out of the inputs
  (`Framed`). Cut edges are reported on the outer face of the largest component
  only.
- Snap rounding may end "converged" with lines that cross: a vertex rounded
  in the last pass makes two segments meet, which is not looked at again
  (`SnapMakes` in `LinesNoded`), against the package's promise. The fast
  validator misses T-junctions, the other one touches of two inner vertices.
- A segment that touches the corner of a half-open cell before its start gets no
  vertex there, and of two pixels at one parameter only one is inserted.

Indexes and formats:

- The comment on `Bulk` says that items held before are flushed
  (`index/rtree.go:218-219`); the code keeps them (233-240), and so does the
  model. `Quadtree.Remove` looks at the value and not at the envelope. `Nearest`
  inherits the stale envelopes of item 1.
- `writeBBox` (`geojson/feature.go:103-106`) drops the error of `json.Marshal`, which
  does not take the infinite bounds of the empty envelope: a feature with the box
  of an empty geometry is written without error as `"bbox":,`, which cannot be
  read.
- An empty line or ring within another geometry is written as `()`, which the
  reader refuses where `EMPTY` would do.
- Text has one layout word for all lines or polygons of a geometry
  (`wkt/encode.go:220-252`), each of which is written with its own ordinates. Parts
  with another number of them cannot be read; beside Z an M comes back as Z, and
  the other way round, so that here the order of formats matters.
- GML keeps Z for points only (`gml/gml.go:178-185`), though `gml/doc.go:10-11` says
  that tuples are written "`x,y,z` when Z is present".

`LossIsByFormat` states each of these four as the format's rule.

## What is not modelled

- Floating-point arithmetic. The models start where coordinates are exact:
  grid cells, integer boxes, lattice points, quotients that are rounded where
  the code rounds. The kernels, projections, measures and offset curves are
  formulas and stay with the tests.
- The projection round trip for geographic operands, which wraps the same
  planar calls.
- The depth mode of the DCEL and the buffer above it.
- The sliver-hole filter of the overlay, the clipping arithmetic of the convex
  fast path, and the half-edge walk of polygon minus line: what they return is
  taken from the point sets.
- Boundary node rules other than Mod2, `snapNodePt`, `HasEdgeIntersection`.
- Readers of an index concurrent with writers, which the package documentation
  rules out.
- Tokenizers, number formats, byte order; KML; feature collections.
- Simplification, coverages, linear referencing, precision, measures, hulls,
  shapes; the generators; test harnesses.

