------------------------- MODULE SharedReadersProofs ------------------------
(***************************************************************************)
(* Proofs about SharedReaders for any number of goroutines and calls, any  *)
(* capacity of the orientation cache and any items, members and segments.  *)
(***************************************************************************)
EXTENDS SharedReaders, FiniteSetTheorems, TLAPS

(***************************************************************************)
(* The cache.  The type and the ring are an inductive invariant together;  *)
(* the point is that the map is full exactly when every slot is written.   *)
(***************************************************************************)
CInv == CacheTypeOK /\ RingInStep

LEMMA FullWhenWrapped ==
  ASSUME CInv
  PROVE  /\ Filled = 0..(Cap - 1) => Cardinality(DOMAIN entries) = Cap
         /\ Filled = 0..(next - 1) => Cardinality(DOMAIN entries) = next
<1> USE CapAssumption DEF CInv, CacheTypeOK
<1>1. ExistsBijection(Filled, DOMAIN entries)
  <2> DEFINE f == [i \in Filled |-> order[i]]
  <2>1. f \in Bijection(Filled, DOMAIN entries)
    BY DEF RingInStep, KeysAreSlots, NoKeyTwice, Bijection, Injection, Surjection,
           IsInjective
  <2> QED BY <2>1 DEF ExistsBijection
<1>2. \A n \in Nat : Filled = 0..(n - 1) => Cardinality(DOMAIN entries) = n
  <2> SUFFICES ASSUME NEW n \in Nat, Filled = 0..(n - 1)
               PROVE  Cardinality(DOMAIN entries) = n
    OBVIOUS
  <2>1. IsFiniteSet(Filled) /\ Cardinality(Filled) = n
    <3>1. IsFiniteSet(0..(n - 1))
          /\ Cardinality(0..(n - 1)) = IF 0 > n - 1 THEN 0 ELSE (n - 1) - 0 + 1
      BY FS_Interval
    <3> QED BY <3>1
  <2> QED BY <1>1, <2>1, FS_Bijection
<1> QED BY <1>2

LEMMA CacheStart == CacheInit => CInv
<1> SUFFICES ASSUME CacheInit PROVE CInv
  OBVIOUS
<1> USE CapAssumption, KeysAssumption DEF CacheInit
<1>1. Filled = {} /\ DOMAIN entries = {}
  BY DEF Filled
<1>2. CacheTypeOK
  BY <1>1 DEF CacheTypeOK
<1>3. RingInStep
  BY <1>1 DEF RingInStep, KeysAreSlots, NoKeyTwice, FilledInOrder, AnswersExact
<1> QED BY <1>2, <1>3 DEF CInv

(* A store of an exact answer keeps map and ring in step. *)
LEMMA StoreKeeps ==
  ASSUME CInv, NEW k \in Triples, Store(k, Exact[k])
  PROVE  CInv'
<1> USE CapAssumption, KeysAssumption DEF CInv
<1>1. CASE Cached(k)
  <2>1. UNCHANGED cacheVars
    BY <1>1 DEF Store, Put, Cached
  <2> QED
    BY <2>1 DEF cacheVars, CacheTypeOK, RingInStep, KeysAreSlots, NoKeyTwice,
                FilledInOrder, AnswersExact, Filled
<1>2. CASE ~Cached(k)
  <2>1. Put(k, Exact[k]) /\ k \notin DOMAIN entries
    BY <1>2 DEF Store, Cached
  <2>2. DOMAIN entries' = Kept \cup {k}
        /\ \A j \in Kept \cup {k} : entries'[j] = IF j = k THEN Exact[k] ELSE entries[j]
    BY <2>1 DEF Put
  <2>3. /\ order' \in [0..(Cap - 1) -> Triples \cup {NoKey}]
        /\ order'[next] = k
        /\ \A i \in 0..(Cap - 1) : i # next => order'[i] = order[i]
    BY <2>1 DEF Put, CacheTypeOK
  <2>4. next' \in 0..(Cap - 1) /\ next' = IF next + 1 >= Cap THEN 0 ELSE next + 1
    BY <2>1 DEF Put, Advance, CacheTypeOK
  <2>5. Kept \subseteq DOMAIN entries
    BY DEF Kept
  <2>6. CacheTypeOK'
    BY <2>2, <2>3, <2>4, <2>5 DEF CacheTypeOK, Orientations
  <2>7. AnswersExact'
    BY <2>2, <2>5 DEF AnswersExact, RingInStep
  <2>8. Filled' = Filled \cup {next}
    BY <2>3, k # NoKey DEF Filled, CacheTypeOK
  <2>9. CASE Filled = 0..(Cap - 1)
    <3>1. Kept = DOMAIN entries \ {order[next]}
      BY <2>9, FullWhenWrapped DEF Kept
    <3>2. Filled' = 0..(Cap - 1)
      BY <2>8, <2>9 DEF CacheTypeOK
    <3>3. KeysAreSlots'
      <4>1. DOMAIN entries' = {order[i] : i \in Filled \ {next}} \cup {k}
        BY <2>2, <3>1, <2>9 DEF RingInStep, KeysAreSlots, NoKeyTwice, CacheTypeOK
      <4>2. {order[i] : i \in Filled \ {next}} = {order'[i] : i \in Filled \ {next}}
        BY <2>3, <2>9
      <4> QED BY <4>1, <4>2, <2>3, <2>9, <3>2 DEF KeysAreSlots, CacheTypeOK
    <3>4. NoKeyTwice'
      BY <2>1, <2>3, <2>9, <3>2 DEF RingInStep, KeysAreSlots, NoKeyTwice
    <3> QED BY <2>6, <2>7, <3>2, <3>3, <3>4 DEF RingInStep, FilledInOrder
  <2>10. CASE Filled = 0..(next - 1)
    <3>1. Kept = DOMAIN entries
      <4>1. Cardinality(DOMAIN entries) # Cap
        BY <2>10, FullWhenWrapped DEF CacheTypeOK
      <4> QED BY <4>1 DEF Kept
    <3>2. Filled' = 0..next
      BY <2>8, <2>10 DEF CacheTypeOK
    <3>3. KeysAreSlots'
      <4>1. {order[i] : i \in Filled} = {order'[i] : i \in Filled}
        BY <2>3, <2>10 DEF CacheTypeOK
      <4> QED BY <2>2, <2>3, <2>8, <3>1, <4>1 DEF RingInStep, KeysAreSlots
    <3>4. NoKeyTwice'
      BY <2>1, <2>3, <2>8, <2>10 DEF RingInStep, KeysAreSlots, NoKeyTwice, CacheTypeOK
    <3>5. FilledInOrder'
      BY <2>4, <3>2 DEF FilledInOrder, CacheTypeOK
    <3> QED BY <2>6, <2>7, <3>3, <3>4, <3>5 DEF RingInStep
  <2> QED BY <2>9, <2>10 DEF RingInStep, FilledInOrder
<1> QED BY <1>1, <1>2

(* Only a goroutine that has computed an orientation writes the cache. *)
LEMMA CacheWriters ==
  ASSUME Next, \A p \in Procs : ~CountExact(p)
  PROVE  UNCHANGED cacheVars
BY DEF Next, Step, Call, LoadWhole, LoadChild, SwapChild, SwapWhole, InsertCount,
       InsertAppend, Len, Build, PrepareIndex, PrepareItems, QueryVisit, Enter,
       EnsureIndex, LocateEmpty, TreeBuild, TreePack, TreeQuery, CountCached, Miss,
       Locate, Terminated, vars, cacheVars

-----------------------------------------------------------------------------
(***************************************************************************)
(* Where the goroutines stand.  A goroutine in a critical section owns the *)
(* mutex, and what the section publishes is not published yet; sync.Once   *)
(* has one goroutine inside; the segments still to visit, and the one that *)
(* was missed, are segments the located point stabs.                       *)
(***************************************************************************)
Locating == {"once", "fill", "tree", "pack", "read", "visit", "exact"}

Labels ==
  Locating \cup {"idle", "load", "children", "swap", "insert", "append", "len",
                 "build", "index", "items", "query"}

PCType ==
  /\ pc \in [Procs -> Labels]
  /\ call \in [Procs -> Op]
  /\ todo \in [Procs -> SUBSET Segments] /\ missed \in [Procs -> SUBSET Segments]

Visiting(p) ==
  /\ pc[p] \in Locating => call[p].op = "Locate"
  /\ pc[p] \in {"visit", "exact"} => todo[p] \subseteq Stabbed[call[p].arg]
  /\ pc[p] = "exact" => missed[p] \subseteq Stabbed[call[p].arg]

Packing(p) ==
  /\ pc[p] \in {"append", "index", "items"} => mu = p /\ ~isBuilt
  /\ pc[p] = "pack" => treeMu = p /\ root = {} /\ built
  /\ pc[p] = "fill" => once = "running" /\ \A q \in Procs : pc[q] = "fill" => q = p

Published ==
  /\ ~built => root = {}
  /\ idx # {} => once = "done"

IInv ==
  /\ PCType
  /\ \A p \in Procs : Visiting(p)
  /\ \A p \in Procs : Packing(p)
  /\ Published

LEMMA Start == Init => IInv /\ CInv
<1> SUFFICES ASSUME Init PROVE IInv
  BY CacheStart DEF Init
<1> USE DEF Init
<1>1. [op |-> "Len", arg |-> Whole] \in Op
  BY DEF Op
<1>2. PCType
  BY <1>1 DEF PCType, Labels
<1>3. (\A p \in Procs : Visiting(p) /\ Packing(p)) /\ Published
  BY DEF Visiting, Packing, Published, Locating
<1> QED BY <1>2, <1>3 DEF IInv

LEMMA CallKeeps ==
  ASSUME IInv, NEW p \in Procs, NEW c \in Op, Call(p, c)
  PROVE  IInv'
<1>1. /\ pc' = [pc EXCEPT ![p] = Entry(c.op)] /\ call' = [call EXCEPT ![p] = c]
      /\ Entry(c.op) \in {"insert", "build", "len", "once", "load"}
      /\ Entry(c.op) = "once" => c.op = "Locate"
  BY DEF Call, Entry, Op
<1>2. UNCHANGED <<hprVars, locVars, treeVars, visitVars>>
  BY DEF Call
<1>3. PCType'
  BY <1>1, <1>2 DEF IInv, PCType, visitVars, Labels, Locating
<1>4. \A q \in Procs : Visiting(q)'
  BY <1>1, <1>2 DEF IInv, PCType, Visiting, visitVars, Locating
<1>5. (\A q \in Procs : Packing(q))' /\ Published'
  BY <1>1, <1>2 DEF IInv, PCType, Packing, Published, hprVars, locVars, treeVars
<1> QED BY <1>3, <1>4, <1>5 DEF IInv

(* Steps that concern neither the locator nor a mutex. *)
LEMMA ReadersKeep ==
  ASSUME IInv, NEW p \in Procs,
         \/ LoadWhole(p) \/ SwapChild(p) \/ SwapWhole(p)
         \/ \E g \in Parts : LoadChild(p, g)
         \/ Len(p) \/ QueryVisit(p) \/ LocateEmpty(p)
  PROVE  IInv'
<1>1. UNCHANGED <<hprVars, locVars, treeVars, visitVars, call>>
  BY DEF LoadWhole, SwapChild, SwapWhole, LoadChild, Len, QueryVisit, LocateEmpty,
         Return, Goto, control
<1>2. \E l \in {"idle", "children", "swap"} : pc' = [pc EXCEPT ![p] = l] \/ pc' = pc
  BY DEF LoadWhole, SwapChild, SwapWhole, LoadChild, Len, QueryVisit, LocateEmpty,
         Return, Goto, control
<1>3. pc' \in [Procs -> Labels]
  BY <1>2 DEF IInv, PCType, Labels
<1>4. \A q \in Procs : pc'[q] = pc[q] \/ pc'[q] \in {"idle", "children", "swap"}
  BY <1>2 DEF IInv, PCType
<1>5. PCType' /\ (\A q \in Procs : Visiting(q))'
  BY <1>1, <1>3, <1>4 DEF IInv, PCType, Visiting, Locating, visitVars
<1>6. (\A q \in Procs : Packing(q))' /\ Published'
  BY <1>1, <1>4 DEF IInv, Packing, Published, hprVars, locVars, treeVars
<1> QED BY <1>5, <1>6 DEF IInv

LEMMA TreeKeeps ==
  ASSUME IInv, NEW p \in Procs,
         InsertCount(p) \/ InsertAppend(p) \/ Build(p) \/ PrepareIndex(p) \/ PrepareItems(p)
  PROVE  IInv'
<1> USE ReadersAssumption
<1>1. UNCHANGED <<locVars, treeVars, visitVars, call>>
  BY DEF InsertCount, InsertAppend, Build, PrepareIndex, PrepareItems, Return, Goto
<1>2. \E l \in {"idle", "append", "query", "index", "items"} : pc' = [pc EXCEPT ![p] = l]
  BY DEF InsertCount, InsertAppend, Build, PrepareIndex, PrepareItems, Return, Goto
<1>3. PCType' /\ (\A q \in Procs : Visiting(q))' /\ Published'
  <2>1. pc' \in [Procs -> Labels]
    BY <1>2 DEF IInv, PCType, Labels
  <2>2. \A q \in Procs : pc'[q] \in Locating => pc'[q] = pc[q]
    BY <1>2 DEF IInv, PCType, Locating
  <2> QED
    BY <1>1, <2>1, <2>2
       DEF IInv, PCType, Visiting, Published, Locating, locVars, treeVars, visitVars
<1>4. ASSUME NEW q \in Procs PROVE Packing(q)'
  <2>1. CASE q = p
    BY <1>1, <1>2, <2>1
       DEF IInv, PCType, Packing, InsertCount, InsertAppend, Build, PrepareIndex,
           PrepareItems, Return, Goto, treeVars, locVars
  <2>2. CASE q # p
    <3>1. pc'[q] = pc[q] /\ (\A r \in Procs : pc'[r] = "fill" <=> pc[r] = "fill")
      BY <1>2, <2>2
         DEF IInv, PCType, Packing, InsertCount, InsertAppend, Build, PrepareIndex,
             PrepareItems, Return, Goto
    <3>2. pc[q] \in {"append", "index", "items"} => mu' = q /\ ~isBuilt'
      BY <2>2 DEF IInv, Packing, InsertCount, InsertAppend, Build, PrepareIndex, PrepareItems
    <3> QED BY <1>1, <3>1, <3>2 DEF IInv, Packing, treeVars, locVars
  <2> QED BY <2>1, <2>2
<1> QED BY <1>3, <1>4 DEF IInv

LEMMA OnceKeeps ==
  ASSUME IInv, NEW p \in Procs,
         Enter(p) \/ EnsureIndex(p) \/ TreeBuild(p) \/ TreePack(p)
  PROVE  IInv'
<1> USE ReadersAssumption
<1>1. UNCHANGED <<hprVars, visitVars, call>>
  BY DEF Enter, EnsureIndex, TreeBuild, TreePack, Goto
<1>2. /\ \E l \in {"fill", "tree", "read", "pack"} : pc' = [pc EXCEPT ![p] = l]
      /\ pc[p] \in Locating
  BY DEF Enter, EnsureIndex, TreeBuild, TreePack, Goto, Locating
<1>3. PCType' /\ (\A q \in Procs : Visiting(q))'
  <2>1. pc' \in [Procs -> Labels]
    BY <1>2 DEF IInv, PCType, Labels, Locating
  <2>2. \A q \in Procs : pc'[q] \in Locating => pc[q] \in Locating
    BY <1>2 DEF IInv, PCType
  <2>3. \A q \in Procs : pc'[q] \in {"visit", "exact"} => pc'[q] = pc[q]
    BY <1>2 DEF IInv, PCType
  <2> QED BY <1>1, <2>1, <2>2, <2>3 DEF IInv, PCType, Visiting, visitVars
<1>4. Published'
  <2>1. CASE Enter(p) \/ EnsureIndex(p)
    BY <2>1 DEF IInv, Published, Packing, Enter, EnsureIndex, locVars, treeVars
  <2>2. CASE TreeBuild(p) \/ TreePack(p)
    <3>1. UNCHANGED locVars /\ built'
      BY <2>2 DEF IInv, Packing, TreeBuild, TreePack
    <3> QED BY <3>1 DEF IInv, Published, locVars
  <2> QED BY <2>1, <2>2
<1>5. ASSUME NEW q \in Procs PROVE Packing(q)'
  <2>1. CASE Enter(p)
    BY <1>1, <1>2, <2>1 DEF IInv, PCType, Packing, Enter, Goto, hprVars, treeVars
  <2>2. CASE EnsureIndex(p)
    BY <1>1, <1>2, <2>2 DEF IInv, PCType, Packing, EnsureIndex, Goto, hprVars, treeVars
  <2>3. CASE TreeBuild(p)
    BY <1>1, <1>2, <2>3 DEF IInv, PCType, Packing, Published, TreeBuild, Goto, hprVars, locVars
  <2>4. CASE TreePack(p)
    BY <1>1, <1>2, <2>4 DEF IInv, PCType, Packing, TreePack, Goto, hprVars, locVars
  <2> QED BY <2>1, <2>2, <2>3, <2>4
<1> QED BY <1>3, <1>4, <1>5 DEF IInv

LEMMA VisitKeeps ==
  ASSUME IInv, NEW p \in Procs,
         \/ TreeQuery(p) \/ Locate(p) \/ CountExact(p)
         \/ \E s \in Segments : CountCached(p, s) \/ Miss(p, s)
  PROVE  IInv'
<1> USE ReadersAssumption
<1>1. UNCHANGED <<hprVars, locVars, treeVars, call>>
  BY DEF TreeQuery, Locate, CountExact, CountCached, Miss, Count, Leave, Return, Goto
<1>2. /\ \E l \in {"idle", "visit", "exact"} : pc' = [pc EXCEPT ![p] = l]
      /\ pc[p] \in {"read", "visit", "exact"}
  BY DEF TreeQuery, Locate, CountExact, CountCached, Miss, Count, Leave, Return, Goto
<1>3. (\A q \in Procs : Packing(q))' /\ Published'
  <2>1. \A q \in Procs : pc'[q] = pc[q] \/ pc'[q] \in {"idle", "visit", "exact"}
    BY <1>2 DEF IInv, PCType
  <2> QED BY <1>1, <2>1 DEF IInv, Packing, Published, hprVars, locVars, treeVars
<1>4. call[p].op = "Locate" /\ call[p].arg \in Points
  BY <1>2 DEF IInv, PCType, Visiting, Locating, Op
<1>5. PCType'
  <2>1. pc' \in [Procs -> Labels]
    BY <1>2 DEF IInv, PCType, Labels, Locating
  <2>2. todo' \in [Procs -> SUBSET Segments]
    BY <1>4 DEF IInv, PCType, TreeQuery, Locate, CountExact, CountCached, Miss, Count, Leave
  <2>3. missed' \in [Procs -> SUBSET Segments]
    BY DEF IInv, PCType, TreeQuery, Locate, CountExact, CountCached, Miss
  <2> QED BY <1>1, <2>1, <2>2, <2>3 DEF IInv, PCType
<1>6. ASSUME NEW q \in Procs PROVE Visiting(q)'
  <2>1. CASE q # p
    <3>1. pc'[q] = pc[q]
      BY <1>2, <2>1 DEF IInv, PCType
    <3>2. todo'[q] = todo[q] /\ missed'[q] = missed[q]
      BY <2>1 DEF IInv, PCType, TreeQuery, Locate, CountExact, CountCached, Miss, Count, Leave
    <3> QED BY <1>1, <3>1, <3>2 DEF IInv, Visiting
  <2>2. CASE q = p
    <3>1. pc'[p] \in Locating => call'[p].op = "Locate"
      BY <1>1, <1>4
    <3>2. pc'[p] = "exact" => missed'[p] \subseteq Stabbed[call[p].arg]
      <4>1. CASE \E s \in Segments : Miss(p, s)
        BY <4>1 DEF IInv, PCType, Visiting, Miss
      <4>2. CASE ~\E s \in Segments : Miss(p, s)
        <5>1. pc'[p] # "exact"
          BY <4>2 DEF IInv, PCType, TreeQuery, Locate, CountExact, CountCached, Count, Leave,
                      Return, Goto
        <5> QED BY <5>1
      <4> QED BY <4>1, <4>2
    <3>3. pc'[p] \in {"visit", "exact"} => todo'[p] \subseteq Stabbed[call[p].arg]
      <4>1. CASE TreeQuery(p) \/ Locate(p)
        BY <4>1 DEF IInv, PCType, TreeQuery, Locate, Leave
      <4>2. CASE CountExact(p) \/ \E s \in Segments : CountCached(p, s) \/ Miss(p, s)
        <5>1. pc[p] \in {"visit", "exact"} /\ todo'[p] \subseteq todo[p]
          BY <4>2 DEF IInv, PCType, CountExact, CountCached, Miss, Count, Leave
        <5> QED BY <5>1 DEF IInv, Visiting
      <4> QED BY <4>1, <4>2
    <3> QED BY <1>1, <2>2, <3>1, <3>2, <3>3 DEF Visiting
  <2> QED BY <2>1, <2>2
<1> QED BY <1>3, <1>5, <1>6 DEF IInv

LEMMA Inductive == IInv /\ [Next]_vars => IInv'
<1> SUFFICES ASSUME IInv, [Next]_vars PROVE IInv'
  OBVIOUS
<1>1. ASSUME NEW p \in Procs, Step(p) PROVE IInv'
  BY <1>1, CallKeeps, ReadersKeep, TreeKeeps, OnceKeeps, VisitKeeps DEF Step
<1>2. CASE UNCHANGED vars
  BY <1>2 DEF vars, control, visitVars, hprVars, locVars, treeVars, IInv, PCType, Visiting,
              Packing, Published
<1> QED BY <1>1, <1>2 DEF Next, Terminated

LEMMA CacheInductive == IInv /\ CInv /\ [Next]_vars => CInv'
<1> SUFFICES ASSUME IInv, CInv, [Next]_vars PROVE CInv'
  OBVIOUS
<1>1. ASSUME NEW p \in Procs, CountExact(p) PROVE CInv'
  <2>1. PICK s \in missed[p] : Store(Triple(p, s), Exact[Triple(p, s)])
    BY <1>1 DEF CountExact
  <2>2. Triple(p, s) \in Triples
    BY <1>1, <2>1, ReadersAssumption
       DEF IInv, PCType, Visiting, Locating, CountExact, Triple, Op
  <2> QED BY <2>1, <2>2, StoreKeeps
<1>2. CASE UNCHANGED cacheVars
  BY <1>2 DEF cacheVars, CInv, CacheTypeOK, RingInStep, KeysAreSlots, NoKeyTwice,
              FilledInOrder, AnswersExact, Filled
<1> QED BY <1>1, <1>2, CacheWriters DEF vars

-----------------------------------------------------------------------------
(***************************************************************************)
(* orientCacheT: whatever goroutines look up, miss and store at the same   *)
(* time, the ring and the map stay in step for every capacity and every    *)
(* answer in the map is exact.                                             *)
(***************************************************************************)
THEOREM RingKept == Spec => []RingInStep
<1>1. Init => IInv /\ CInv
  BY Start
<1>2. IInv /\ CInv /\ [Next]_vars => (IInv /\ CInv)'
  BY Inductive, CacheInductive
<1>3. IInv /\ CInv => RingInStep
  BY DEF CInv
<1> QED BY <1>1, <1>2, <1>3, PTL DEF Spec

(* What PublishedStays says of one step. *)
Stays ==
  /\ \A g \in Parts \cup {Whole} : env[g] # {} => env'[g] = env[g]
  /\ isBuilt => itemValues' = itemValues /\ nodes' = nodes /\ numItems' = numItems
  /\ idx # {} => idx' = idx
  /\ root # {} => root' = root

LEMMA StepStays ==
  ASSUME IInv, DOMAIN env = Parts \cup {Whole}, [Next]_vars
  PROVE  Stays /\ (DOMAIN env = Parts \cup {Whole})'
<1>1. /\ \A g \in Parts \cup {Whole} : env[g] # {} => env'[g] = env[g]
      /\ DOMAIN env' = Parts \cup {Whole}
  <2>1. ASSUME NEW p \in Procs, Step(p), env' # env
        PROVE  \E g, e : env' = [env EXCEPT ![g] = IF @ = {} THEN e ELSE @]
    BY <2>1 DEF Step, Call, LoadWhole, LoadChild, SwapChild, SwapWhole, InsertCount,
       InsertAppend, Len, Build, PrepareIndex, PrepareItems, QueryVisit, Enter,
       EnsureIndex, LocateEmpty, TreeBuild, TreePack, TreeQuery, CountCached, Miss,
       CountExact, Locate, CompareAndSwap, envVars
  <2>2. CASE env' = env
    BY <2>2
  <2> QED BY <2>1, <2>2 DEF Next, Terminated, vars, envVars
<1> DEFINE Fixed == /\ isBuilt => itemValues' = itemValues /\ nodes' = nodes
                                    /\ numItems' = numItems
                    /\ idx # {} => idx' = idx
                    /\ root # {} => root' = root
<1>2. Fixed
  <2>1. CASE UNCHANGED <<hprVars, locVars, treeVars>>
    BY <2>1 DEF hprVars, locVars, treeVars
  <2>2. ASSUME NEW p \in Procs, InsertCount(p) \/ InsertAppend(p) \/ Build(p)
                                 \/ PrepareIndex(p) \/ PrepareItems(p)
        PROVE  Fixed
    BY <2>2 DEF IInv, Packing, InsertCount, InsertAppend, Build, PrepareIndex,
                PrepareItems, locVars, treeVars
  <2>3. ASSUME NEW p \in Procs,
               Enter(p) \/ EnsureIndex(p) \/ TreeBuild(p) \/ TreePack(p)
        PROVE  Fixed
    BY <2>3 DEF IInv, Packing, Published, Enter, EnsureIndex, TreeBuild, TreePack,
                hprVars, locVars, treeVars
  <2>4. ASSUME NEW p \in Procs,
               \/ \E c \in Op : Call(p, c)
               \/ LoadWhole(p) \/ SwapChild(p) \/ SwapWhole(p) \/ Len(p)
               \/ \E g \in Parts : LoadChild(p, g)
               \/ QueryVisit(p) \/ LocateEmpty(p) \/ TreeQuery(p) \/ Locate(p)
               \/ CountExact(p) \/ \E s \in Segments : CountCached(p, s) \/ Miss(p, s)
        PROVE  UNCHANGED <<hprVars, locVars, treeVars>>
    BY <2>4 DEF Call, LoadWhole, SwapChild, SwapWhole, Len, LoadChild, QueryVisit,
                LocateEmpty, TreeQuery, Locate, CountExact, CountCached, Miss
  <2>5. CASE UNCHANGED vars
    BY <2>1, <2>5 DEF vars
  <2> QED BY <2>1, <2>2, <2>3, <2>4, <2>5 DEF Next, Terminated, Step
<1> QED BY <1>1, <1>2 DEF Stays

(***************************************************************************)
(* An envelope (baseGeom.envelope), a packed HPRtree, the segment index of *)
(* IndexedPointLocator and the root of the IntervalRTree are never         *)
(* replaced once a goroutine may have read them.                           *)
(***************************************************************************)
THEOREM PublishedKept == Spec => PublishedStays
<1> DEFINE EInv == DOMAIN env = Parts \cup {Whole}
           Keep == /\ \A g \in Parts \cup {Whole} : env[g] # {} => env'[g] = env[g]
                   /\ isBuilt => itemValues' = itemValues /\ nodes' = nodes /\ numItems' = numItems
                   /\ idx # {} => idx' = idx
                   /\ root # {} => root' = root
<1>1. Init => IInv /\ EInv
  BY Start DEF Init
<1>2. IInv /\ EInv /\ [Next]_vars => IInv' /\ EInv' /\ [Keep]_vars
  BY Inductive, StepStays DEF Stays
<1> HIDE DEF EInv
<1> QED BY <1>1, <1>2, PTL DEF Spec, PublishedStays

-----------------------------------------------------------------------------
(***************************************************************************)
(* The answers.  What a call returns is proved structure by structure: the *)
(* envelopes, the HPRtree and the locator share no variable but the        *)
(* control of the goroutines.                                              *)
(***************************************************************************)
LabelsOf(op) ==
  CASE op = "Insert" -> {"insert", "append"}
    [] op = "Query" -> {"build", "index", "items", "query"}
    [] op = "Len" -> {"len"}
    [] op = "Locate" -> Locating
    [] op = "Envelope" -> {"load", "children", "swap"}

(* A goroutine is idle or at a label of the operation it has called. *)
AtOwnLabel(p) == pc[p] = "idle" \/ pc[p] \in LabelsOf(call[p].op)

(* f is a function over S, whatever its values. *)
Maps(f, S) == DOMAIN f = S /\ f = [x \in S |-> f[x]]

Framed ==
  /\ calls \in [Procs -> 0..MaxCalls]
  /\ DOMAIN answer = Procs /\ DOMAIN asked = Procs
  /\ DOMAIN got = Procs /\ DOMAIN child = Procs /\ DOMAIN crossed = Procs
  /\ Maps(got, Procs) /\ Maps(child, Procs) /\ Maps(crossed, Procs)

(* The part of the invariant every structure below needs. *)
Control ==
  /\ PCType
  /\ Framed
  /\ \A p \in Procs : AtOwnLabel(p)

Rest(q) == <<pc[q], call[q], calls[q], answer[q], asked[q], got[q], child[q],
             todo[q], crossed[q], missed[q]>>

(* A step of one goroutine leaves what is local to the others alone. *)
LEMMA OthersStay ==
  ASSUME PCType, Framed, NEW p \in Procs, Step(p), NEW q \in Procs, q # p
  PROVE  Rest(q)' = Rest(q)
<1> USE DEF PCType, Framed, Maps
<1>1. /\ pc'[q] = pc[q] /\ call'[q] = call[q] /\ calls'[q] = calls[q]
      /\ answer'[q] = answer[q] /\ asked'[q] = asked[q]
  BY DEF Step, Call, LoadWhole, LoadChild, SwapChild, SwapWhole, InsertCount,
     InsertAppend, Len, Build, PrepareIndex, PrepareItems, QueryVisit, Enter,
     EnsureIndex, LocateEmpty, TreeBuild, TreePack, TreeQuery, CountCached, Miss,
     CountExact, Locate, Count, Leave, Return, Goto, control
<1>2. got'[q] = got[q] /\ child'[q] = child[q]
  BY DEF Step, Call, LoadWhole, LoadChild, SwapChild, SwapWhole, InsertCount,
     InsertAppend, Len, Build, PrepareIndex, PrepareItems, QueryVisit, Enter,
     EnsureIndex, LocateEmpty, TreeBuild, TreePack, TreeQuery, CountCached, Miss,
     CountExact, Locate, Include, envVars
<1>3. todo'[q] = todo[q] /\ crossed'[q] = crossed[q] /\ missed'[q] = missed[q]
  BY DEF Step, Call, LoadWhole, LoadChild, SwapChild, SwapWhole, InsertCount,
     InsertAppend, Len, Build, PrepareIndex, PrepareItems, QueryVisit, Enter,
     EnsureIndex, LocateEmpty, TreeBuild, TreePack, TreeQuery, CountCached, Miss,
     CountExact, Locate, Count, Leave, visitVars
<1> QED BY <1>1, <1>2, <1>3 DEF Rest

(* A goroutine that is idle after its step has returned from a call. *)
LEMMA Returning ==
  ASSUME PCType, NEW p \in Procs, AtOwnLabel(p), Step(p), pc'[p] = "idle"
  PROVE  call'[p] = call[p] /\ pc[p] # "idle" /\ pc[p] \in LabelsOf(call[p].op)
<1>1. call'[p] = call[p] /\ pc[p] # "idle"
  BY DEF PCType, Op, Entry, Step, Call, LoadWhole, LoadChild, SwapChild, SwapWhole,
     InsertCount, InsertAppend, Len, Build, PrepareIndex, PrepareItems, QueryVisit, Enter,
     EnsureIndex, LocateEmpty, TreeBuild, TreePack, TreeQuery, CountCached, Miss,
     CountExact, Locate, Count, Leave, Return, Goto, control
<1> QED BY <1>1 DEF AtOwnLabel

LEMMA ControlStart == Init => Control
<1> SUFFICES ASSUME Init PROVE Control
  OBVIOUS
<1> USE DEF Init
<1>1. PCType
  BY Start DEF IInv
<1>2. Framed
  BY ReadersAssumption DEF Framed, Maps
<1>3. \A p \in Procs : AtOwnLabel(p)
  BY DEF AtOwnLabel
<1> QED BY <1>1, <1>2, <1>3 DEF Control

LEMMA ControlKeeps == IInv /\ Control /\ [Next]_vars => Control'
<1> SUFFICES ASSUME IInv, Control, [Next]_vars PROVE Control'
  OBVIOUS
<1> USE DEF Control
<1>1. PCType'
  BY Inductive DEF IInv
<1>2. ASSUME NEW p \in Procs, Step(p) PROVE Framed' /\ \A q \in Procs : AtOwnLabel(q)'
  <2>1. calls' \in [Procs -> 0..MaxCalls]
    <3>1. calls' = calls \/ (calls[p] < MaxCalls /\ calls' = [calls EXCEPT ![p] = @ + 1])
      BY <1>2 DEF Step, Call, LoadWhole, LoadChild, SwapChild, SwapWhole, InsertCount,
         InsertAppend, Len, Build, PrepareIndex, PrepareItems, QueryVisit, Enter,
         EnsureIndex, LocateEmpty, TreeBuild, TreePack, TreeQuery, CountCached, Miss,
         CountExact, Locate, Count, Leave, Return, Goto, control
    <3> QED BY <3>1, ReadersAssumption DEF Framed
  <2>2. DOMAIN answer' = Procs /\ DOMAIN asked' = Procs
    BY <1>2 DEF Framed, Step, Call, LoadWhole, LoadChild, SwapChild, SwapWhole, InsertCount,
       InsertAppend, Len, Build, PrepareIndex, PrepareItems, QueryVisit, Enter,
       EnsureIndex, LocateEmpty, TreeBuild, TreePack, TreeQuery, CountCached, Miss,
       CountExact, Locate, Count, Leave, Return, Goto, control
  <2>3. Maps(got, Procs)' /\ Maps(child, Procs)' /\ Maps(crossed, Procs)'
    BY <1>2 DEF Framed, Maps, Step, Call, LoadWhole, LoadChild, SwapChild, SwapWhole, InsertCount,
       InsertAppend, Len, Build, PrepareIndex, PrepareItems, QueryVisit, Enter,
       EnsureIndex, LocateEmpty, TreeBuild, TreePack, TreeQuery, CountCached, Miss,
       CountExact, Locate, Count, Leave, Include, envVars, visitVars
  <2>4. ASSUME NEW q \in Procs PROVE AtOwnLabel(q)'
    <3>1. CASE q # p
      BY <1>2, <3>1, OthersStay DEF Rest, AtOwnLabel
    <3>2. CASE q = p
      <4>1. CASE \E c \in Op : Call(p, c)
        BY <3>2, <4>1 DEF PCType, Op, Call, Entry, AtOwnLabel, LabelsOf, Locating
      <4>2. CASE ~\E c \in Op : Call(p, c)
        <5>1. call' = call
          BY <1>2, <4>2 DEF Step, LoadWhole, LoadChild, SwapChild, SwapWhole, InsertCount,
             InsertAppend, Len, Build, PrepareIndex, PrepareItems, QueryVisit, Enter,
             EnsureIndex, LocateEmpty, TreeBuild, TreePack, TreeQuery, CountCached, Miss,
             CountExact, Locate, Count, Leave, Return, Goto, control
        <5>2. pc'[p] = "idle" \/ (pc[p] # "idle" /\ \A op \in {"Insert", "Query", "Len", "Locate", "Envelope"} :
                 pc[p] \in LabelsOf(op) => pc'[p] \in LabelsOf(op))
          BY <1>2, <4>2
             DEF PCType, LabelsOf, Locating, Step, LoadWhole, LoadChild, SwapChild, SwapWhole, InsertCount,
             InsertAppend, Len, Build, PrepareIndex, PrepareItems, QueryVisit, Enter,
             EnsureIndex, LocateEmpty, TreeBuild, TreePack, TreeQuery, CountCached, Miss,
             CountExact, Locate, Count, Leave, Return, Goto, control
        <5> QED BY <3>2, <5>1, <5>2 DEF AtOwnLabel, PCType, Op
      <4> QED BY <4>1, <4>2
    <3> QED BY <3>1, <3>2
  <2> QED BY <2>1, <2>2, <2>3, <2>4 DEF Framed, Maps
<1>3. CASE UNCHANGED vars
  BY <1>3 DEF vars, control, envVars, visitVars, PCType, Framed, AtOwnLabel
<1> QED BY <1>1, <1>2, <1>3 DEF Next, Terminated

-----------------------------------------------------------------------------
(***************************************************************************)
(* Envelopes.  Whoever publishes one publishes the same: the member, or    *)
(* all the members.                                                        *)
(***************************************************************************)
OnlyOf(g, S) == env[g] = {} \/ \E q \in Procs : env[g] = EnvelopeOf(S, q)

EnvInv ==
  /\ Maps(env, Parts \cup {Whole})
  /\ \A g \in Parts : OnlyOf(g, {g})
  /\ OnlyOf(Whole, Parts)
  /\ \A p \in Procs : got[p] \subseteq Parts
  /\ \A p \in Procs : pc[p] = "swap" => child[p] \in Parts
  /\ EnvelopesComplete

LEMMA EnvStart == Init => EnvInv
BY DEF Init, EnvInv, Maps, OnlyOf, EnvelopesComplete, Returned

(* A step that leaves the envelopes alone is a call or is no Envelope call. *)
LEMMA EnvAside ==
  ASSUME Control, EnvInv, NEW p \in Procs, Step(p), UNCHANGED envVars,
         pc'[p] # "swap", pc[p] \notin {"load", "children", "swap"}
  PROVE  EnvInv'
<1> USE DEF Control, envVars
<1>1. \A q \in Procs : pc'[q] = "swap" => child'[q] \in Parts
  BY OthersStay DEF EnvInv, Rest
<1>2. ASSUME NEW q \in Procs, Returned(q, "Envelope")' PROVE answer'[q] = Parts
  <2>1. CASE q # p
    BY <1>2, <2>1, OthersStay DEF EnvInv, EnvelopesComplete, Returned, Rest
  <2>2. CASE q = p
    BY <1>2, <2>2, Returning DEF Returned, LabelsOf
  <2> QED BY <2>1, <2>2
<1> QED BY <1>1, <1>2 DEF EnvInv, EnvelopesComplete, OnlyOf

(* What a step must show: the envelopes, and the part of its goroutine. *)
LEMMA EnvFrom ==
  ASSUME EnvInv, NEW p \in Procs, \A q \in Procs : q # p => Rest(q)' = Rest(q),
         (Maps(env, Parts \cup {Whole}))',
         (\A g \in Parts : OnlyOf(g, {g}))', OnlyOf(Whole, Parts)',
         got'[p] \subseteq Parts, pc'[p] = "swap" => child'[p] \in Parts,
         pc'[p] = "idle" => answer'[p] = Parts
  PROVE  EnvInv'
<1>1. ASSUME NEW q \in Procs
      PROVE  /\ got'[q] \subseteq Parts
             /\ pc'[q] = "swap" => child'[q] \in Parts
             /\ Returned(q, "Envelope")' => answer'[q] = Parts
  <2>1. CASE q = p
    BY <2>1 DEF Returned
  <2>2. CASE q # p
    <3>1. /\ pc'[q] = pc[q] /\ call'[q] = call[q] /\ calls'[q] = calls[q]
          /\ answer'[q] = answer[q] /\ got'[q] = got[q] /\ child'[q] = child[q]
      BY <2>2 DEF Rest
    <3> QED BY <3>1 DEF EnvInv, EnvelopesComplete, Returned
  <2> QED BY <2>1, <2>2
<1> QED BY <1>1 DEF EnvInv, EnvelopesComplete

LEMMA EnvKeeps == Control /\ EnvInv /\ [Next]_vars => EnvInv'
<1> SUFFICES ASSUME Control, EnvInv, [Next]_vars PROVE EnvInv'
  OBVIOUS
<1> USE ReadersAssumption DEF Control
<1>1. ASSUME NEW p \in Procs, \E c \in Op : Call(p, c) PROVE EnvInv'
  <2>1. pc'[p] \notin {"swap", "idle"} /\ pc[p] = "idle" /\ UNCHANGED envVars
    BY <1>1 DEF PCType, Call, Entry, Op
  <2> QED BY <1>1, <2>1, EnvAside DEF Step
<1>2. ASSUME NEW p \in Procs, LoadWhole(p) PROVE EnvInv'
  <2>1. \A q \in Procs : q # p => Rest(q)' = Rest(q)
    BY <1>2, OthersStay DEF Step
  <2>2. UNCHANGED envVars /\ call'[p] = call[p] /\ calls'[p] = calls[p] /\ pc'[p] # "swap"
    BY <1>2 DEF PCType, LoadWhole, Return, Goto
  <2>3. pc'[p] = "idle" => answer'[p] = Parts
    BY <1>2 DEF PCType, Framed, EnvInv, OnlyOf, EnvelopeOf, LoadWhole, Return, Goto
  <2>4. got'[p] \subseteq Parts /\ (Maps(env, Parts \cup {Whole}))'
        /\ (\A g \in Parts : OnlyOf(g, {g}))' /\ OnlyOf(Whole, Parts)'
    BY <2>2 DEF EnvInv, OnlyOf, envVars
  <2> QED BY <2>1, <2>2, <2>3, <2>4, EnvFrom
<1>3. ASSUME NEW p \in Procs, NEW g \in Parts, LoadChild(p, g) PROVE EnvInv'
  <2>1. \A q \in Procs : q # p => Rest(q)' = Rest(q)
    BY <1>3, OthersStay DEF Step
  <2>2. /\ env' = env /\ pc'[p] \in {"children", "swap"}
        /\ got'[p] \subseteq Parts /\ (pc'[p] = "swap" => child'[p] \in Parts)
    BY <1>3 DEF PCType, Framed, EnvInv, OnlyOf, EnvelopeOf, LoadChild, Include, Goto, control
  <2>3. (Maps(env, Parts \cup {Whole}))'
        /\ (\A h \in Parts : OnlyOf(h, {h}))' /\ OnlyOf(Whole, Parts)'
    BY <2>2 DEF EnvInv, OnlyOf
  <2> QED BY <2>1, <2>2, <2>3, EnvFrom
<1>4. ASSUME NEW p \in Procs, SwapChild(p) PROVE EnvInv'
  <2>1. \A q \in Procs : q # p => Rest(q)' = Rest(q)
    BY <1>4, OthersStay DEF Step
  <2>0. PICK c \in Parts : c = child[p]
    BY <1>4 DEF PCType, EnvInv, SwapChild
  <2>2. c # Whole /\ pc'[p] = "children"
    BY <1>4 DEF PCType, SwapChild, Goto
  <2>3. /\ Maps(env, Parts \cup {Whole})'
        /\ \A g \in Parts \cup {Whole} : g # c => env'[g] = env[g]
        /\ env'[c] = IF env[c] = {} THEN EnvelopeOf({c}, p) ELSE env[c]
    BY <1>4, <2>0, <2>2 DEF EnvInv, Maps, SwapChild, CompareAndSwap
  <2>4. (\A g \in Parts : OnlyOf(g, {g}))' /\ OnlyOf(Whole, Parts)'
    <3>1. \A g \in Parts : g # c => OnlyOf(g, {g})'
      BY <2>2, <2>3 DEF EnvInv, OnlyOf
    <3>2. OnlyOf(c, {c}) /\ OnlyOf(Whole, Parts)
      BY <2>2 DEF EnvInv
    <3>3. env'[c] = {} \/ \E q \in Procs : env'[c] = EnvelopeOf({c}, q)
      BY <2>3, <3>2 DEF OnlyOf
    <3>4. OnlyOf(Whole, Parts)'
      BY <2>2, <2>3, <3>2 DEF OnlyOf
    <3>5. OnlyOf(c, {c})'
      BY <3>3 DEF OnlyOf
    <3> QED BY <3>1, <3>4, <3>5
  <2>5. got'[p] \subseteq Parts
    <3>1. got'[p] = got[p] \cup UNION {x.of : x \in env'[c]}
      BY <1>4, <2>0 DEF Framed, SwapChild, Include
    <3>2. \A x \in env'[c] : x.of = {c}
      <4>1. OnlyOf(c, {c})'
        BY <2>2, <2>4
      <4> QED BY <4>1 DEF OnlyOf, EnvelopeOf
    <3> QED BY <2>2, <3>1, <3>2 DEF EnvInv
  <2> QED BY <2>1, <2>2, <2>3, <2>4, <2>5, EnvFrom
<1>5. ASSUME NEW p \in Procs, SwapWhole(p) PROVE EnvInv'
  <2>1. \A q \in Procs : q # p => Rest(q)' = Rest(q)
    BY <1>5, OthersStay DEF Step
  <2>2. /\ Maps(env, Parts \cup {Whole})'
        /\ \A g \in Parts : env'[g] = env[g]
        /\ env'[Whole] = IF env[Whole] = {} THEN EnvelopeOf(Parts, p) ELSE env[Whole]
    BY <1>5 DEF EnvInv, Maps, SwapWhole, CompareAndSwap
  <2>3. (\A g \in Parts : OnlyOf(g, {g}))' /\ OnlyOf(Whole, Parts)'
    BY <2>2 DEF EnvInv, OnlyOf
  <2>4. pc'[p] = "idle" /\ answer'[p] = Parts /\ got'[p] = {}
    BY <1>5, <2>2, <2>3 DEF PCType, Framed, EnvInv, OnlyOf, EnvelopeOf, SwapWhole, Return
  <2> QED BY <2>1, <2>2, <2>3, <2>4, EnvFrom
<1>6. ASSUME NEW p \in Procs,
             \/ InsertCount(p) \/ InsertAppend(p) \/ Len(p)
             \/ Build(p) \/ PrepareIndex(p) \/ PrepareItems(p) \/ QueryVisit(p)
             \/ Enter(p) \/ EnsureIndex(p) \/ LocateEmpty(p)
             \/ TreeBuild(p) \/ TreePack(p) \/ TreeQuery(p) \/ Locate(p)
             \/ CountExact(p) \/ \E s \in Segments : CountCached(p, s) \/ Miss(p, s)
      PROVE  EnvInv'
  <2>1. UNCHANGED envVars /\ pc'[p] # "swap" /\ pc[p] \notin {"load", "children", "swap"}
    BY <1>6 DEF PCType, InsertCount,
       InsertAppend, Len, Build, PrepareIndex, PrepareItems, QueryVisit, Enter,
       EnsureIndex, LocateEmpty, TreeBuild, TreePack, TreeQuery, CountCached, Miss,
       CountExact, Locate, Count, Leave, Return, Goto
  <2>2. Step(p)
    BY <1>6 DEF Step
  <2> QED BY <2>1, <2>2, EnvAside
<1>7. CASE UNCHANGED vars
  BY <1>7 DEF vars, control, envVars, EnvInv, EnvelopesComplete, Returned, OnlyOf
<1> QED BY <1>1, <1>2, <1>3, <1>4, <1>5, <1>6, <1>7 DEF Next, Terminated, Step

-----------------------------------------------------------------------------
(***************************************************************************)
(* HPRtree.  Before it is built the items wait in itemsToLoad and every    *)
(* insertion is counted before it is appended; from then on they are in    *)
(* itemValues and no insertion is under way.                               *)
(***************************************************************************)
InsertOnce ==
  /\ \A p \in Procs : pc[p] \in {"insert", "append"} => call[p].arg \notin inserted
  /\ \A p, q \in Procs : call[p].op = "Insert" /\ call[q] = call[p] => q = p

Packed ==
  /\ inserted \subseteq Items
  /\ inserted = itemsToLoad \cup itemValues
  /\ isBuilt => itemsToLoad = {} /\ nodes \in {{}, itemValues}
  /\ ~isBuilt => itemValues = {} /\ nodes \in {{}, itemsToLoad}
  /\ ~isBuilt /\ nodes # {} => \E p \in Procs : pc[p] = "items"
  /\ \A p \in Procs : pc[p] = "query" => isBuilt

Counted ==
  /\ mu \in Procs \cup {Nobody}
  /\ numItems = Cardinality(inserted) + Cardinality(Appending)

(* What the calls that are over have returned. *)
Answered(p) ==
  /\ asked[p] \subseteq inserted
  /\ pc[p] = "idle" /\ call[p].op = "Query" => isBuilt /\ answer[p] = inserted
  /\ pc[p] = "idle" /\ call[p].op = "Insert" =>
       IF answer[p] = {"ok"} THEN call[p].arg \in inserted ELSE isBuilt
  /\ pc[p] = "idle" /\ call[p].op = "Len" =>
       \E n \in 0..numItems : answer[p] = 1..n /\ Cardinality(asked[p]) <= n

HPRInv ==
  /\ InsertOnce
  /\ Packed
  /\ Counted
  /\ \A p \in Procs : Answered(p)

(* The mutex lets one goroutine at a time between the two writes of Insert. *)
LEMMA OneAppending ==
  ASSUME IInv, HPRInv
  PROVE  /\ \A p \in Procs : pc[p] = "append" => Appending = {p}
         /\ mu = Nobody => Appending = {}
         /\ IsFiniteSet(inserted) /\ Cardinality(inserted) \in Nat
         /\ IsFiniteSet(Appending) /\ Cardinality(Appending) \in {0, 1}
         /\ Appending = {} => Cardinality(Appending) = 0
         /\ Appending # {} => Cardinality(Appending) = 1
         /\ numItems \in Nat
<1>1. \A p, q \in Procs : pc[p] = "append" /\ pc[q] = "append" => p = q
  BY DEF IInv, Packing
<1>2. \A p \in Procs : pc[p] = "append" => Appending = {p}
  BY <1>1 DEF Appending
<1>3. mu = Nobody => Appending = {}
  BY ReadersAssumption DEF IInv, Packing, Appending
<1>4. IsFiniteSet(inserted) /\ Cardinality(inserted) \in Nat
  BY ReadersAssumption, FS_Subset, FS_CardinalityType DEF HPRInv, Packed
<1>5. /\ IsFiniteSet(Appending) /\ Cardinality(Appending) \in {0, 1}
      /\ Appending = {} => Cardinality(Appending) = 0
      /\ Appending # {} => Cardinality(Appending) = 1
  <2>1. CASE Appending = {}
    BY <2>1, FS_EmptySet
  <2>2. CASE Appending # {}
    <3>1. PICK p : Appending = {p}
      BY <1>2, <2>2 DEF Appending
    <3>2. IsFiniteSet({p}) /\ Cardinality({p}) = 1
      BY FS_Singleton
    <3> QED BY <2>2, <3>1, <3>2
  <2> QED BY <2>1, <2>2
<1> QED BY <1>2, <1>3, <1>4, <1>5 DEF HPRInv, Counted

LEMMA HPRStart == Init => HPRInv
<1> SUFFICES ASSUME Init PROVE HPRInv
  OBVIOUS
<1> USE DEF Init
<1>1. InsertOnce
  BY DEF InsertOnce
<1>2. Packed
  BY DEF Packed
<1>3. Counted
  <2>1. Appending = {}
    BY DEF Appending
  <2> QED BY <2>1, FS_EmptySet DEF Counted
<1>4. ASSUME NEW p \in Procs PROVE Answered(p)
  <2>1. answer[p] = 1..0 /\ Cardinality(asked[p]) <= 0
    BY FS_EmptySet
  <2> QED BY <2>1 DEF Answered
<1> QED BY <1>1, <1>2, <1>3, <1>4 DEF HPRInv

LEMMA HPRCallKeeps ==
  ASSUME IInv, Control, HPRInv, NEW p \in Procs, NEW c \in Op, Call(p, c)
  PROVE  HPRInv'
<1>1. \A q \in Procs : q # p => Rest(q)' = Rest(q)
  BY OthersStay DEF Step, Control
<1>2. /\ pc[p] = "idle" /\ pc'[p] = Entry(c.op) /\ call'[p] = c
      /\ asked'[p] \subseteq inserted
      /\ Entry(c.op) \notin {"idle", "append", "items", "query"}
      /\ Entry(c.op) = "insert" => c.op = "Insert"
      /\ c.op = "Insert" => c.arg \notin inserted /\ \A q \in Procs : call[q] # c
  BY DEF Call, Entry, Op, Control, PCType, Framed
<1>3. UNCHANGED hprVars
  BY DEF Call
<1>4. InsertOnce'
  BY <1>1, <1>2, <1>3 DEF HPRInv, InsertOnce, Rest, hprVars
<1>5. Packed'
  BY <1>1, <1>2, <1>3 DEF HPRInv, Packed, Rest, hprVars
<1>6. Counted'
  <2>1. Appending' = Appending
    BY <1>1, <1>2 DEF Appending, Rest
  <2> QED BY <1>3, <2>1 DEF HPRInv, Counted, hprVars
<1>7. ASSUME NEW q \in Procs PROVE Answered(q)'
  BY <1>1, <1>2, <1>3 DEF HPRInv, Answered, Rest, hprVars
<1> QED BY <1>4, <1>5, <1>6, <1>7 DEF HPRInv

LEMMA InsertCountKeeps ==
  ASSUME IInv, Control, HPRInv, NEW p \in Procs, InsertCount(p)
  PROVE  HPRInv'
<1>1. \A q \in Procs : q # p => Rest(q)' = Rest(q)
  BY OthersStay DEF Step, Control
<1>2. /\ pc[p] = "insert" /\ mu = Nobody /\ call' = call /\ asked' = asked
      /\ call[p].op = "Insert"
      /\ inserted' = inserted /\ isBuilt' = isBuilt /\ nodes' = nodes
      /\ itemsToLoad' = itemsToLoad /\ itemValues' = itemValues
  BY DEF InsertCount, Return, Goto, Control, AtOwnLabel, LabelsOf, PCType, Op, Locating
<1>3. \/ /\ isBuilt /\ pc'[p] = "idle" /\ answer'[p] = {"panic"} /\ UNCHANGED <<mu, numItems>>
      \/ /\ ~isBuilt /\ pc'[p] = "append" /\ mu' = p /\ numItems' = numItems + 1
  BY DEF InsertCount, Return, Goto, Control, PCType, Framed
<1>4. InsertOnce'
  BY <1>1, <1>2, <1>3 DEF HPRInv, InsertOnce, Rest
<1>5. Packed'
  BY <1>1, <1>2, <1>3 DEF HPRInv, Packed, Rest
<1>6. Counted'
  <2>1. Appending = {}
    BY <1>2, OneAppending
  <2>2. Appending' = IF isBuilt THEN {} ELSE {p}
    <3>1. \A q \in Procs : q # p => pc'[q] # "append"
      BY <1>1, <2>1 DEF Appending, Rest
    <3> QED BY <1>3, <3>1 DEF Appending
  <2>3. Cardinality({p}) = 1 /\ Cardinality({}) = 0
    BY FS_Singleton, FS_EmptySet
  <2> QED BY <1>2, <1>3, <2>1, <2>2, <2>3, OneAppending DEF HPRInv, Counted
<1>7. ASSUME NEW q \in Procs PROVE Answered(q)'
  <2>1. numItems' >= numItems /\ numItems' \in Nat /\ numItems \in Nat
    BY <1>3, OneAppending
  <2>2. CASE q # p
    BY <1>1, <1>2, <2>1, <2>2 DEF HPRInv, Answered, Rest
  <2>3. CASE q = p
    BY <1>2, <1>3, <2>3 DEF HPRInv, Answered
  <2> QED BY <2>2, <2>3
<1> QED BY <1>4, <1>5, <1>6, <1>7 DEF HPRInv

LEMMA InsertAppendKeeps ==
  ASSUME IInv, Control, HPRInv, NEW p \in Procs, InsertAppend(p)
  PROVE  HPRInv'
<1>1. \A q \in Procs : q # p => Rest(q)' = Rest(q)
  BY OthersStay DEF Step, Control
<1>2. /\ pc[p] = "append" /\ pc'[p] = "idle" /\ answer'[p] = {"ok"}
      /\ call' = call /\ asked' = asked /\ UNCHANGED <<numItems, nodes, itemValues, isBuilt>>
      /\ itemsToLoad' = itemsToLoad \cup {call[p].arg} /\ mu' = Nobody
      /\ inserted' = inserted \cup {call[p].arg}
  BY DEF InsertAppend, Return, Control, PCType, Framed
<1>3. call[p].op = "Insert" /\ call[p].arg \in Items
  BY <1>2 DEF Control, AtOwnLabel, LabelsOf, PCType, Op, Locating
<1>4. mu = p /\ ~isBuilt /\ call[p].arg \notin inserted
  BY <1>2 DEF IInv, Packing, HPRInv, InsertOnce
<1>5. InsertOnce'
  <2>1. ASSUME NEW q \in Procs, pc'[q] \in {"insert", "append"}
        PROVE  call'[q].arg \notin inserted'
    <3>1. q # p /\ pc[q] = pc'[q]
      BY <1>1, <1>2, <2>1 DEF Rest
    <3>2. call[q] \in Op /\ call[p] \in Op /\ call[q].op = "Insert"
      BY <2>1, <3>1 DEF Control, AtOwnLabel, LabelsOf, PCType, Op, Locating
    <3>3. call[q] # call[p]
      BY <1>3, <3>1 DEF HPRInv, InsertOnce
    <3>4. call[q].arg # call[p].arg
      BY <1>3, <3>2, <3>3 DEF Op
    <3> QED BY <1>2, <2>1, <3>1, <3>4 DEF HPRInv, InsertOnce
  <2> QED BY <1>2, <2>1 DEF HPRInv, InsertOnce
<1>6. Packed'
  <2>1. \A q \in Procs : pc[q] # "items"
    BY <1>2, <1>4 DEF IInv, Packing
  <2> QED BY <1>1, <1>2, <1>3, <1>4, <2>1 DEF HPRInv, Packed, Rest
<1>7. Counted'
  <2>1. Appending = {p}
    BY <1>2, OneAppending
  <2>2. Appending' = {}
    BY <1>1, <1>2, <2>1 DEF Appending, Rest
  <2>3. Cardinality({p}) = 1 /\ Cardinality({}) = 0
    BY FS_Singleton, FS_EmptySet
  <2>4. Cardinality(inserted \cup {call[p].arg}) = Cardinality(inserted) + 1
    BY <1>4, OneAppending, FS_AddElement
  <2> QED BY <1>2, <2>1, <2>2, <2>3, <2>4, OneAppending DEF HPRInv, Counted
<1>8. ASSUME NEW q \in Procs PROVE Answered(q)'
  <2>1. CASE q # p
    BY <1>1, <1>2, <1>4, <2>1 DEF HPRInv, Answered, Rest
  <2>2. CASE q = p
    BY <1>2, <1>3, <2>2 DEF HPRInv, Answered
  <2> QED BY <2>1, <2>2
<1> QED BY <1>5, <1>6, <1>7, <1>8 DEF HPRInv

LEMMA BuildKeeps ==
  ASSUME IInv, Control, HPRInv, NEW p \in Procs,
         Build(p) \/ PrepareIndex(p) \/ PrepareItems(p)
  PROVE  HPRInv'
<1>1. \A q \in Procs : q # p => Rest(q)' = Rest(q)
  BY OthersStay DEF Step, Control
<1>2. /\ call' = call /\ asked' = asked /\ UNCHANGED <<numItems, inserted>>
      /\ pc[p] \in {"build", "index", "items"} /\ pc'[p] \in {"index", "items", "query"}
      /\ isBuilt => isBuilt'
  BY DEF Build, PrepareIndex, PrepareItems, Goto, Control, PCType
<1>3. mu' \in {mu, p, Nobody}
  BY DEF Build, PrepareIndex, PrepareItems
<1>4. InsertOnce'
  BY <1>1, <1>2 DEF HPRInv, InsertOnce, Rest
<1>5. Packed'
  <2>1. \A q \in Procs : pc[q] = "items" /\ q # p => pc'[q] = "items"
    BY <1>1 DEF Rest
  <2>2. (\A q \in Procs : pc[q] = "query" => isBuilt) /\ (pc'[p] = "query" => isBuilt')
    BY DEF HPRInv, Packed, Build, PrepareIndex, PrepareItems, Goto, Control, PCType
  <2>3. \A q \in Procs : pc'[q] = "query" => isBuilt'
    BY <1>1, <1>2, <2>2 DEF Rest
  <2>4. CASE Build(p)
    BY <1>1, <1>2, <2>1, <2>3, <2>4 DEF HPRInv, Packed, Build, Rest
  <2>5. CASE PrepareIndex(p)
    <3>1. pc'[p] = "items"
      BY <2>5 DEF PrepareIndex, Goto, Control, PCType
    <3> QED BY <1>1, <1>2, <2>1, <2>3, <2>5, <3>1
               DEF HPRInv, Packed, PrepareIndex, IInv, Packing
  <2>6. CASE PrepareItems(p)
    BY <1>1, <1>2, <2>1, <2>3, <2>6 DEF HPRInv, Packed, PrepareItems, IInv, Packing
  <2> QED BY <2>4, <2>5, <2>6
<1>6. Counted'
  <2>1. Appending' = Appending
    BY <1>1, <1>2 DEF Appending, Rest
  <2> QED BY <1>2, <1>3, <2>1 DEF HPRInv, Counted
<1>7. ASSUME NEW q \in Procs PROVE Answered(q)'
  BY <1>1, <1>2 DEF HPRInv, Answered, Rest
<1> QED BY <1>4, <1>5, <1>6, <1>7 DEF HPRInv

(* A step that leaves the tree alone keeps all but what its goroutine returns. *)
LEMMA HPRFrom ==
  ASSUME Control, HPRInv, NEW p \in Procs, Step(p), UNCHANGED <<hprVars, call, asked>>,
         pc[p] \notin {"append", "items"},
         pc'[p] \notin {"insert", "append", "items", "query"}, Answered(p)'
  PROVE  HPRInv'
<1>1. \A q \in Procs : q # p => Rest(q)' = Rest(q)
  BY OthersStay DEF Control
<1>2. InsertOnce'
  BY <1>1 DEF HPRInv, InsertOnce, Rest, hprVars
<1>3. Packed'
  BY <1>1 DEF HPRInv, Packed, Rest, hprVars
<1>4. Counted'
  <2>1. Appending' = Appending
    BY <1>1 DEF Appending, Rest
  <2> QED BY <2>1 DEF HPRInv, Counted, hprVars
<1>5. ASSUME NEW q \in Procs PROVE Answered(q)'
  <2>1. CASE q # p
    BY <1>1, <2>1 DEF HPRInv, Answered, Rest, hprVars
  <2> QED BY <2>1
<1> QED BY <1>2, <1>3, <1>4, <1>5 DEF HPRInv

LEMMA HPRKeeps == IInv /\ Control /\ HPRInv /\ [Next]_vars => HPRInv'
<1> SUFFICES ASSUME IInv, Control, HPRInv, [Next]_vars PROVE HPRInv'
  OBVIOUS
<1>1. ASSUME NEW p \in Procs, QueryVisit(p) PROVE HPRInv'
  <2>1. /\ UNCHANGED <<hprVars, call, asked>> /\ pc[p] = "query" /\ pc'[p] = "idle"
        /\ answer'[p] = IF nodes = {} THEN itemValues ELSE itemValues \cap nodes
    BY <1>1 DEF QueryVisit, Return, Control, PCType, Framed
  <2>2. call[p].op = "Query"
    BY <2>1 DEF Control, AtOwnLabel, LabelsOf, PCType, Op, Locating
  <2>3. isBuilt /\ answer'[p] = inserted
    BY <2>1 DEF HPRInv, Packed
  <2>4. Answered(p)'
    BY <2>1, <2>2, <2>3 DEF HPRInv, Answered, hprVars
  <2> QED BY <1>1, <2>1, <2>4, HPRFrom DEF Step
<1>2. ASSUME NEW p \in Procs, Len(p) PROVE HPRInv'
  <2>1. /\ UNCHANGED <<hprVars, call, asked>> /\ pc[p] = "len" /\ pc'[p] = "idle"
        /\ answer'[p] = 1..numItems
    BY <1>2 DEF Len, Return, Control, PCType, Framed
  <2>2. call[p].op = "Len"
    BY <2>1 DEF Control, AtOwnLabel, LabelsOf, PCType, Op, Locating
  <2>3. Cardinality(asked[p]) <= numItems
    <3>1. asked[p] \subseteq inserted
      BY DEF HPRInv, Answered
    <3>2. /\ IsFiniteSet(asked[p]) /\ Cardinality(asked[p]) <= Cardinality(inserted)
          /\ Cardinality(asked[p]) \in Nat
      BY <3>1, OneAppending, FS_Subset, FS_CardinalityType
    <3> QED BY <3>2, OneAppending DEF HPRInv, Counted
  <2>4. Answered(p)'
    <3>1. numItems \in 0..numItems
      BY OneAppending
    <3> QED BY <2>1, <2>2, <2>3, <3>1 DEF HPRInv, Answered, hprVars
  <2> QED BY <1>2, <2>1, <2>4, HPRFrom DEF Step
<1>3. ASSUME NEW p \in Procs,
             \/ LoadWhole(p) \/ SwapChild(p) \/ SwapWhole(p)
             \/ \E g \in Parts : LoadChild(p, g)
             \/ Enter(p) \/ EnsureIndex(p) \/ LocateEmpty(p)
             \/ TreeBuild(p) \/ TreePack(p) \/ TreeQuery(p) \/ Locate(p)
             \/ CountExact(p) \/ \E s \in Segments : CountCached(p, s) \/ Miss(p, s)
      PROVE  HPRInv'
  <2>1. /\ UNCHANGED <<hprVars, call, asked>>
        /\ pc[p] \in Locating \cup {"load", "children", "swap"}
        /\ pc'[p] \in Locating \cup {"idle", "load", "children", "swap"}
    BY <1>3
       DEF Control, PCType, Locating, LoadWhole, LoadChild, SwapChild, SwapWhole, Enter,
           EnsureIndex, LocateEmpty, TreeBuild, TreePack, TreeQuery, CountCached, Miss,
           CountExact, Locate, Count, Leave, Return, Goto, control
  <2>2. call[p].op \in {"Locate", "Envelope"}
    BY <2>1 DEF Control, AtOwnLabel, LabelsOf, PCType, Op, Locating
  <2>3. Answered(p)'
    BY <2>1, <2>2 DEF HPRInv, Answered, hprVars
  <2>4. Step(p)
    BY <1>3 DEF Step
  <2> QED BY <2>1, <2>3, <2>4, HPRFrom DEF Locating
<1>4. CASE UNCHANGED vars
  <2>1. Appending' = Appending
    BY <1>4 DEF Appending, vars, control
  <2> QED BY <1>4, <2>1 DEF vars, control, hprVars, HPRInv, InsertOnce, Packed, Counted, Answered
<1> QED BY <1>1, <1>2, <1>3, <1>4, HPRCallKeeps, InsertCountKeeps, InsertAppendKeeps, BuildKeeps
        DEF Next, Terminated, Step

-----------------------------------------------------------------------------
(***************************************************************************)
(* The locator.  Past sync.Once the index is complete or the polygon is    *)
(* empty; past IntervalRTree.build the root is the index; and a visit has  *)
(* crossed, of the segments it has looked at, those that count, and met    *)
(* none that is collinear.                                                 *)
(***************************************************************************)
Indexed ==
  /\ polygon \subseteq Segments
  /\ once \in {"new", "running", "done"}
  /\ once # "done" => geom = polygon /\ idx = {} /\ ~isEmpty
  /\ once = "done" => geom = {} /\ idx = polygon /\ (isEmpty <=> polygon = {})
  /\ treeMu \in Procs \cup {Nobody}
  /\ treeMu # Nobody => pc[treeMu] = "pack"
  /\ built => once = "done" /\ (treeMu # Nobody \/ root = idx)
  /\ root \in {{}, idx}

Tallied(p) ==
  LET S == Stabbed[call[p].arg] \cap polygon
      Sign(s) == Exact[<<s, call[p].arg>>]
  IN  /\ todo[p] \subseteq S
      /\ crossed[p] = {s \in S \ todo[p] : Sign(s) = "CounterClockwise"}
      /\ \A s \in S \ todo[p] : Sign(s) # "Collinear"

LocateStands(p) ==
  /\ crossed[p] \subseteq Segments
  /\ pc[p] \in {"tree", "pack", "read", "visit", "exact"} => once = "done"
  /\ pc[p] \in {"pack", "read", "visit", "exact"} => ~isEmpty
  /\ pc[p] \in {"read", "visit", "exact"} => root = idx
  /\ pc[p] \in {"visit", "exact"} => Tallied(p)
  /\ pc[p] = "exact" => \E s \in todo[p] : missed[p] = {s}
  /\ pc[p] = "idle" /\ call[p].op = "Locate" => answer[p] = {Location(call[p].arg)}

LocInv ==
  /\ Indexed
  /\ \A p \in Procs : LocateStands(p)

LEMMA LocStart == Init => LocInv
<1> SUFFICES ASSUME Init PROVE LocInv
  OBVIOUS
<1> USE DEF Init
<1>1. Indexed
  BY ReadersAssumption DEF Indexed
<1>2. ASSUME NEW p \in Procs PROVE LocateStands(p)
  BY DEF LocateStands
<1> QED BY <1>1, <1>2 DEF LocInv

(* A step that leaves the index alone leaves the visits of the others alone. *)
LEMMA LocFrom ==
  ASSUME Control, LocInv, NEW p \in Procs, Step(p), UNCHANGED polygon,
         Indexed', LocateStands(p)',
         \A q \in Procs : q # p /\ pc[q] \in {"tree", "pack", "read", "visit", "exact"} =>
           /\ once' = once /\ isEmpty' = isEmpty
           /\ pc[q] \in {"read", "visit", "exact"} => root' = root /\ idx' = idx
  PROVE  LocInv'
<1>1. ASSUME NEW q \in Procs, q # p PROVE LocateStands(q)'
  <2>1. /\ pc'[q] = pc[q] /\ call'[q] = call[q] /\ answer'[q] = answer[q]
        /\ todo'[q] = todo[q] /\ crossed'[q] = crossed[q] /\ missed'[q] = missed[q]
    BY <1>1, OthersStay DEF Rest, Control
  <2>2. Tallied(q)' = Tallied(q) /\ Location(call[q].arg)' = Location(call[q].arg)
    BY <2>1 DEF Tallied, Location
  <2> QED BY <1>1, <2>1, <2>2 DEF LocInv, LocateStands
<1> QED BY <1>1 DEF LocInv

(* What the visit has found when it stops is where the point is. *)
LEMMA TallyLocates ==
  ASSUME NEW p \in Procs, Tallied(p)
  PROVE  /\ todo[p] = {} => Location(call[p].arg) = Parity(crossed[p])
         /\ \A s \in todo[p] : Exact[Triple(p, s)] = "Collinear" =>
              Location(call[p].arg) = "Boundary"
<1> DEFINE S == Stabbed[call[p].arg] \cap polygon
           Having(o) == {s \in S : Exact[<<s, call[p].arg>>] = o}
<1>1. Location(call[p].arg) =
        IF Having("Collinear") # {} THEN "Boundary" ELSE Parity(Having("CounterClockwise"))
  BY DEF Location
<1>2. ASSUME todo[p] = {} PROVE Having("Collinear") = {} /\ Having("CounterClockwise") = crossed[p]
  BY <1>2 DEF Tallied
<1>3. ASSUME NEW s \in todo[p], Exact[Triple(p, s)] = "Collinear" PROVE s \in Having("Collinear")
  BY <1>3 DEF Tallied, Triple
<1> HIDE DEF Having
<1> QED BY <1>1, <1>2, <1>3

LEMMA NoPolygonIsExterior ==
  ASSUME NEW pt, polygon = {} PROVE Location(pt) = "Exterior"
<1>1. Location(pt) = Parity({})
  BY DEF Location
<1>2. Cardinality({}) = 0
  BY FS_EmptySet
<1> QED BY <1>1, <1>2 DEF Parity

(* A counted segment leaves the visit with one segment less, or ends it. *)
LEMMA CountStands ==
  ASSUME Control, LocInv, NEW p \in Procs, pc[p] \in {"visit", "exact"},
         NEW s \in todo[p], Count(p, s, Exact[Triple(p, s)]), UNCHANGED <<locVars, treeVars>>
  PROVE  LocateStands(p)'
<1>1. Tallied(p) /\ once = "done" /\ ~isEmpty /\ root = idx /\ call' = call
      /\ crossed[p] \subseteq Segments /\ todo[p] \subseteq Segments
  BY DEF LocInv, LocateStands, Count, Leave, Return, Goto, Control, PCType
<1>2. polygon' = polygon /\ once' = once /\ isEmpty' = isEmpty /\ root' = root /\ idx' = idx
  BY DEF locVars, treeVars
<1>3. CASE Exact[Triple(p, s)] = "Collinear"
  <2>1. pc'[p] = "idle" /\ answer'[p] = {"Boundary"} /\ crossed'[p] = {}
    BY <1>3 DEF Count, Leave, Return, Control, PCType, Framed
  <2>2. Location(call[p].arg)' = "Boundary"
    BY <1>1, <1>2, <1>3, TallyLocates DEF Location
  <2> QED BY <1>1, <1>2, <2>1, <2>2 DEF LocateStands
<1>4. CASE Exact[Triple(p, s)] # "Collinear"
  <2>1. /\ pc'[p] = "visit" /\ todo'[p] = todo[p] \ {s}
        /\ crossed'[p] = IF Exact[Triple(p, s)] = "CounterClockwise"
                         THEN crossed[p] \cup {s} ELSE crossed[p]
    BY <1>4 DEF Count, Goto, Control, PCType, Framed
  <2>2. Tallied(p)'
    BY <1>1, <1>2, <1>4, <2>1 DEF Tallied, Triple
  <2>3. crossed'[p] \subseteq Segments
    BY <1>1, <2>1
  <2> QED BY <1>1, <1>2, <2>1, <2>2, <2>3 DEF LocateStands
<1> QED BY <1>3, <1>4

(* The visit: what it reads is fixed, and the cache answers as Exact does. *)
LEMMA VisitLocates ==
  ASSUME IInv, CInv, Control, LocInv, NEW p \in Procs,
         \/ TreeQuery(p) \/ Locate(p) \/ CountExact(p)
         \/ \E s \in Segments : CountCached(p, s) \/ Miss(p, s)
  PROVE  LocInv'
<1>1. /\ UNCHANGED <<locVars, treeVars, call>>
      /\ pc[p] \in {"read", "visit", "exact"} /\ pc'[p] \in {"idle", "visit", "exact"}
  BY DEF TreeQuery, Locate, CountExact, CountCached, Miss, Count, Leave, Return, Goto,
         Control, PCType
<1>2. Indexed'
  <2>1. treeMu # Nobody => pc'[treeMu] = "pack"
    <3>1. ASSUME treeMu # Nobody PROVE treeMu \in Procs /\ treeMu # p /\ pc[treeMu] = "pack"
      BY <1>1, <3>1 DEF LocInv, Indexed
    <3> QED BY <3>1, <1>1 DEF Control, PCType, TreeQuery, Locate, CountExact, CountCached,
             Miss, Count, Leave, Return, Goto
  <2> QED BY <1>1, <2>1 DEF LocInv, Indexed, locVars, treeVars
<1>3. LocateStands(p)'
  <2>1. CASE TreeQuery(p)
    <3>1. /\ once = "done" /\ ~isEmpty /\ root = idx /\ idx = polygon
          /\ polygon' = polygon /\ once' = once /\ isEmpty' = isEmpty /\ root' = root /\ idx' = idx
      BY <1>1, <2>1 DEF LocInv, LocateStands, Indexed, TreeQuery, locVars, treeVars
    <3>2. pc'[p] = "visit" /\ crossed'[p] = {} /\ todo'[p] = Stabbed[call[p].arg] \cap polygon
      BY <2>1, <3>1 DEF TreeQuery, Goto, Control, PCType, Framed
    <3>3. Tallied(p)'
      BY <1>1, <3>1, <3>2 DEF Tallied
    <3> QED BY <3>1, <3>2, <3>3 DEF LocateStands
  <2>2. CASE Locate(p)
    <3>1. /\ Tallied(p) /\ todo[p] = {} /\ pc'[p] = "idle" /\ crossed'[p] = {}
          /\ answer'[p] = {Parity(crossed[p])}
      BY <2>2 DEF LocInv, LocateStands, Locate, Leave, Return, Control, PCType, Framed
    <3>2. Location(call[p].arg)' = Parity(crossed[p])
      BY <1>1, <3>1, TallyLocates DEF Location, locVars
    <3> QED BY <3>1, <3>2 DEF LocateStands
  <2>3. CASE CountExact(p)
    <3>1. PICK s \in missed[p] : Count(p, s, Exact[Triple(p, s)])
      BY <2>3 DEF CountExact
    <3>2. s \in todo[p] /\ pc[p] = "exact"
      BY <2>3, <3>1 DEF LocInv, LocateStands, CountExact
    <3> QED BY <1>1, <3>1, <3>2, CountStands
  <2>4. ASSUME NEW s \in Segments, CountCached(p, s) PROVE LocateStands(p)'
    <3>1. entries[Triple(p, s)] = Exact[Triple(p, s)]
      BY <2>4 DEF CountCached, Cached, CInv, RingInStep, AnswersExact
    <3>2. s \in todo[p] /\ pc[p] = "visit" /\ Count(p, s, Exact[Triple(p, s)])
      BY <2>4, <3>1 DEF CountCached
    <3> QED BY <1>1, <3>2, CountStands
  <2>5. ASSUME NEW s \in Segments, Miss(p, s) PROVE LocateStands(p)'
    <3>1. /\ pc[p] = "visit" /\ pc'[p] = "exact" /\ s \in todo'[p] /\ missed'[p] = {s}
          /\ UNCHANGED <<todo, crossed, call>>
      BY <2>5 DEF Miss, Goto, Control, PCType
    <3>2. Tallied(p)' = Tallied(p)
      BY <1>1, <3>1 DEF Tallied, locVars
    <3> QED BY <1>1, <3>1, <3>2 DEF LocInv, LocateStands, locVars, treeVars
  <2> QED BY <2>1, <2>2, <2>3, <2>4, <2>5
<1>4. Step(p)
  BY DEF Step
<1> QED BY <1>1, <1>2, <1>3, <1>4, LocFrom DEF locVars, treeVars

(* Filling the index and packing the tree disturb nobody past them. *)
LEMMA OnceLocates ==
  ASSUME IInv, Control, LocInv, NEW p \in Procs,
         Enter(p) \/ EnsureIndex(p) \/ LocateEmpty(p) \/ TreeBuild(p) \/ TreePack(p)
  PROVE  LocInv'
<1> USE ReadersAssumption
<1>1. /\ call' = call /\ polygon' = polygon /\ UNCHANGED visitVars
      /\ \A q \in Procs : q # p => pc'[q] = pc[q]
      /\ Step(p) /\ crossed[p] \subseteq Segments
  BY DEF Step, Enter, EnsureIndex, LocateEmpty, TreeBuild, TreePack, Return, Goto, Control, PCType,
         visitVars, locVars, treeVars, LocInv, LocateStands
<1>2. CASE Enter(p)
  <2>1. /\ pc[p] = "once" /\ pc'[p] = IF once = "new" THEN "fill" ELSE "tree"
        /\ once \in {"new", "done"} /\ once' = IF once = "new" THEN "running" ELSE once
        /\ UNCHANGED <<geom, idx, isEmpty, treeVars>>
    BY <1>2 DEF Enter, Goto, Control, PCType
  <2>2. Indexed'
    BY <1>1, <2>1 DEF LocInv, Indexed, treeVars
  <2>3. LocateStands(p)'
    BY <1>1, <2>1 DEF LocInv, LocateStands, visitVars
  <2>4. \A q \in Procs : pc[q] \in {"tree", "pack", "read", "visit", "exact"} => once' = once
    BY <2>1 DEF LocInv, LocateStands
  <2> QED BY <1>1, <2>1, <2>2, <2>3, <2>4, LocFrom DEF treeVars
<1>3. CASE EnsureIndex(p)
  <2>1. /\ pc[p] = "fill" /\ pc'[p] = "tree" /\ once = "running" /\ once' = "done"
        /\ IF geom = {} THEN isEmpty' = TRUE /\ UNCHANGED <<geom, idx>>
           ELSE idx' = geom /\ geom' = {} /\ UNCHANGED isEmpty
        /\ UNCHANGED treeVars
    BY <1>3 DEF EnsureIndex, Goto, Control, PCType, IInv, Packing
  <2>2. Indexed'
    <3>1. geom = polygon /\ idx = {} /\ ~isEmpty /\ ~built /\ root = {}
      BY <2>1 DEF LocInv, Indexed, IInv, Published
    <3> QED BY <1>1, <2>1, <3>1 DEF LocInv, Indexed, treeVars
  <2>3. LocateStands(p)'
    BY <1>1, <2>1 DEF LocInv, LocateStands, visitVars
  <2>4. \A q \in Procs : pc[q] \notin {"tree", "pack", "read", "visit", "exact"}
    BY <2>1 DEF LocInv, LocateStands
  <2> QED BY <1>1, <2>1, <2>2, <2>3, <2>4, LocFrom
<1>4. CASE LocateEmpty(p)
  <2>1. /\ pc[p] = "tree" /\ isEmpty /\ pc'[p] = "idle" /\ answer'[p] = {"Exterior"}
        /\ UNCHANGED <<locVars, treeVars>>
    BY <1>4 DEF LocateEmpty, Return, Control, PCType, Framed
  <2>2. polygon = {}
    BY <2>1 DEF LocInv, LocateStands, Indexed
  <2>3. Location(call[p].arg)' = "Exterior"
    <3>1. Location(call[p].arg) = "Exterior"
      BY <2>2, NoPolygonIsExterior
    <3> QED BY <1>1, <3>1 DEF Location
  <2>4. LocateStands(p)'
    BY <1>1, <2>1, <2>3 DEF LocInv, LocateStands, visitVars
  <2>5. Indexed'
    BY <1>1, <2>1 DEF LocInv, Indexed, locVars, treeVars
  <2> QED BY <1>1, <2>1, <2>4, <2>5, LocFrom DEF locVars, treeVars
<1>5. CASE TreeBuild(p)
  <2>1. /\ pc[p] = "tree" /\ ~isEmpty /\ treeMu = Nobody /\ once = "done" /\ built'
        /\ IF built THEN pc'[p] = "read" /\ UNCHANGED treeMu ELSE pc'[p] = "pack" /\ treeMu' = p
        /\ UNCHANGED <<root, locVars>>
    BY <1>5 DEF TreeBuild, Goto, Control, PCType, LocInv, LocateStands
  <2>2. Indexed'
    BY <1>1, <2>1 DEF LocInv, Indexed, locVars
  <2>3. built => root = idx
    BY <2>1 DEF LocInv, Indexed
  <2>4. LocateStands(p)'
    BY <1>1, <2>1, <2>3 DEF LocInv, LocateStands, visitVars, locVars
  <2> QED BY <1>1, <2>1, <2>2, <2>4, LocFrom DEF locVars
<1>6. CASE TreePack(p)
  <2>1. /\ pc[p] = "pack" /\ pc'[p] = "read" /\ treeMu = p /\ treeMu' = Nobody /\ root' = idx
        /\ root = {} /\ UNCHANGED <<built, locVars>> /\ once = "done" /\ ~isEmpty
    BY <1>6 DEF TreePack, Goto, Control, PCType, IInv, Packing, LocInv, LocateStands
  <2>2. Indexed'
    BY <1>1, <2>1 DEF LocInv, Indexed, locVars
  <2>3. LocateStands(p)'
    BY <1>1, <2>1 DEF LocInv, LocateStands, visitVars, locVars
  <2>4. \A q \in Procs : pc[q] \in {"read", "visit", "exact"} => root' = root
    BY <2>1 DEF LocInv, LocateStands
  <2> QED BY <1>1, <2>1, <2>2, <2>3, <2>4, LocFrom DEF locVars
<1> QED BY <1>2, <1>3, <1>4, <1>5, <1>6

LEMMA LocKeeps == IInv /\ CInv /\ Control /\ LocInv /\ [Next]_vars => LocInv'
<1> SUFFICES ASSUME IInv, CInv, Control, LocInv, [Next]_vars PROVE LocInv'
  OBVIOUS
<1>1. ASSUME NEW p \in Procs,
             \/ \E c \in Op : Call(p, c)
             \/ LoadWhole(p) \/ SwapChild(p) \/ SwapWhole(p)
             \/ \E g \in Parts : LoadChild(p, g)
             \/ InsertCount(p) \/ InsertAppend(p) \/ Len(p)
             \/ Build(p) \/ PrepareIndex(p) \/ PrepareItems(p) \/ QueryVisit(p)
      PROVE  LocInv'
  <2>1. /\ UNCHANGED <<locVars, treeVars, visitVars>> /\ Step(p)
        /\ pc[p] \notin Locating /\ pc'[p] \notin Locating \ {"once"}
    BY <1>1
       DEF Step, Control, PCType, Locating, Op, Entry, Call, LoadWhole, LoadChild, SwapChild, SwapWhole,
           InsertCount, InsertAppend, Len, Build, PrepareIndex, PrepareItems, QueryVisit, Return,
           Goto, control
  <2>2. Indexed'
    <3>1. treeMu # Nobody => treeMu \in Procs /\ treeMu # p /\ pc[treeMu] = "pack"
      BY <2>1 DEF LocInv, Indexed, Locating
    <3>2. treeMu # Nobody => pc'[treeMu] = "pack"
      BY <2>1, <3>1, OthersStay DEF Control, Rest
    <3> QED BY <2>1, <3>2 DEF LocInv, Indexed, locVars, treeVars
  <2>3. LocateStands(p)'
    <3>1. pc'[p] = "idle" => call'[p].op # "Locate"
      BY <2>1, Returning DEF Control, LabelsOf
    <3> QED BY <2>1, <3>1 DEF LocInv, LocateStands, Locating, visitVars
  <2> QED BY <2>1, <2>2, <2>3, LocFrom DEF locVars, treeVars
<1>2. CASE UNCHANGED vars
  <2>1. \A p \in Procs : Tallied(p)' = Tallied(p)
    BY <1>2 DEF vars, control, locVars, visitVars, Tallied
  <2>2. \A p \in Procs : Location(call[p].arg)' = Location(call[p].arg)
    BY <1>2 DEF vars, control, locVars, Location
  <2>3. Indexed'
    BY <1>2 DEF vars, control, locVars, treeVars, LocInv, Indexed
  <2>4. ASSUME NEW p \in Procs PROVE LocateStands(p)'
    BY <1>2, <2>1, <2>2
       DEF vars, control, locVars, treeVars, visitVars, LocInv, LocateStands
  <2> QED BY <2>3, <2>4 DEF LocInv
<1> QED BY <1>1, <1>2, VisitLocates, OnceLocates DEF Next, Terminated, Step

-----------------------------------------------------------------------------
AInv == IInv /\ CInv /\ Control /\ EnvInv /\ HPRInv /\ LocInv

LEMMA AnswersInductive == Spec => []AInv
<1>1. Init => AInv
  BY Start, ControlStart, EnvStart, HPRStart, LocStart DEF AInv
<1>2. AInv /\ [Next]_vars => AInv'
  BY Inductive, CacheInductive, ControlKeeps, EnvKeeps, HPRKeeps, LocKeeps DEF AInv
<1> QED BY <1>1, <1>2, PTL DEF Spec

(* The types of everything goroutines share, for any number of them. *)
THEOREM ReadersTyped == Spec => []TypeOK
<1>1. AInv => TypeOK
  <2> SUFFICES ASSUME AInv PROVE TypeOK
    OBVIOUS
  <2>1. call \in [Procs -> Op] /\ calls \in [Procs -> 0..MaxCalls]
    BY DEF AInv, Control, PCType, Framed
  <2>2. env \in [Parts \cup {Whole} -> SUBSET [by : Procs, of : SUBSET Parts]]
    <3>1. env = [g \in Parts \cup {Whole} |-> env[g]]
      BY DEF AInv, EnvInv, Maps
    <3>2. ASSUME NEW g \in Parts \cup {Whole} PROVE env[g] \subseteq [by : Procs, of : SUBSET Parts]
      <4>1. \E S \in SUBSET Parts : OnlyOf(g, S)
        BY DEF AInv, EnvInv
      <4> QED BY <4>1 DEF OnlyOf, EnvelopeOf
    <3> QED BY <3>1, <3>2
  <2>3. got \in [Procs -> SUBSET Parts] /\ crossed \in [Procs -> SUBSET Segments]
    BY DEF AInv, Control, Framed, Maps, EnvInv, LocInv, LocateStands
  <2>4. mu \in Procs \cup {Nobody} /\ treeMu \in Procs \cup {Nobody}
    BY DEF AInv, HPRInv, Counted, LocInv, Indexed
  <2>5. /\ inserted \subseteq Items /\ itemsToLoad \subseteq Items
        /\ itemValues \subseteq Items /\ nodes \subseteq Items
    BY DEF AInv, HPRInv, Packed
  <2>6. numItems \in 0..Cardinality(Items)
    <3>1. numItems = Cardinality(inserted) + Cardinality(Appending)
      BY DEF AInv, HPRInv, Counted
    <3>2. inserted \in SUBSET Items /\ IsFiniteSet(Items) /\ Cardinality(Items) \in Nat
      BY ReadersAssumption, FS_CardinalityType DEF AInv, HPRInv, Packed
    <3>3. Cardinality(inserted) <= Cardinality(Items)
      BY <3>2, FS_Subset
    <3>4. CASE Appending = {}
      BY <3>1, <3>2, <3>3, <3>4, OneAppending DEF AInv
    <3>5. ASSUME NEW p \in Appending PROVE numItems <= Cardinality(Items)
      <4>1. call[p].arg \in Items \ inserted
        BY DEF Appending, AInv, Control, AtOwnLabel, LabelsOf, PCType, Op, Locating, HPRInv, InsertOnce
      <4>2. inserted \cup {call[p].arg} \in SUBSET Items
        BY <3>2, <4>1
      <4>3. Cardinality(inserted \cup {call[p].arg}) = Cardinality(inserted) + 1
        BY <4>1, OneAppending, FS_AddElement DEF AInv
      <4>4. Cardinality(inserted \cup {call[p].arg}) <= Cardinality(Items)
        BY <3>2, <4>2, FS_Subset
      <4> QED BY <3>1, <3>2, <4>3, <4>4, OneAppending DEF AInv
    <3>6. numItems \in Nat
      BY OneAppending DEF AInv
    <3> QED BY <3>2, <3>4, <3>5, <3>6
  <2>7. /\ once \in {"new", "running", "done"} /\ polygon \subseteq Segments
        /\ geom \subseteq polygon /\ idx \subseteq Segments /\ root \subseteq Segments
    BY DEF AInv, LocInv, Indexed
  <2>8. todo \in [Procs -> SUBSET Segments] /\ CacheTypeOK
    BY DEF AInv, IInv, PCType, CInv
  <2> QED BY <2>1, <2>2, <2>3, <2>4, <2>5, <2>6, <2>7, <2>8 DEF TypeOK
<1> QED BY <1>1, AnswersInductive, PTL

(***************************************************************************)
(* Whatever goroutines do at the same time, a call of Query, Insert, Len,  *)
(* Locate or Envelope returns what it would have with nobody else around.  *)
(***************************************************************************)
THEOREM AnswersKept == Spec => []AnswersRight
<1>1. AInv => AnswersRight
  <2> SUFFICES ASSUME AInv PROVE AnswersRight
    OBVIOUS
  <2>1. QueriesComplete
    BY DEF AInv, HPRInv, Answered, QueriesComplete, Returned
  <2>2. PanicsOnlyWhenBuilt
    BY DEF AInv, HPRInv, Packed, Answered, PanicsOnlyWhenBuilt, Returned
  <2>3. LenBetween
    <3> SUFFICES ASSUME NEW p \in Procs, Returned(p, "Len")
                 PROVE  /\ Cardinality(answer[p]) >= Cardinality(asked[p])
                        /\ Cardinality(answer[p]) <= Cardinality(inserted) + Cardinality(Appending)
      BY DEF LenBetween
    <3>1. PICK n \in 0..numItems : answer[p] = 1..n /\ Cardinality(asked[p]) <= n
      BY DEF AInv, HPRInv, Answered, Returned
    <3>2. numItems \in Nat /\ numItems = Cardinality(inserted) + Cardinality(Appending)
      BY OneAppending DEF AInv, HPRInv, Counted
    <3>3. Cardinality(1..n) = n
      BY <3>1, <3>2, FS_Interval
    <3>4. Cardinality(asked[p]) \in Nat
      BY OneAppending, FS_Subset, FS_CardinalityType DEF AInv, HPRInv, Answered
    <3> QED BY <3>1, <3>2, <3>3, <3>4
  <2>4. LocatesRight
    BY DEF AInv, LocInv, LocateStands, LocatesRight, Returned
  <2>5. EnvelopesComplete
    BY DEF AInv, EnvInv
  <2> QED BY <2>1, <2>2, <2>3, <2>4, <2>5 DEF AnswersRight
<1> QED BY <1>1, AnswersInductive, PTL
=============================================================================
