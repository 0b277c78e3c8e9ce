---------------------------- MODULE CascadedUnion ---------------------------
(***************************************************************************)
(* The concurrent cascaded union of overlay/unary_union.go.                *)
(*                                                                         *)
(* Every call of UnaryUnion on areal input recurses over a binary tree of  *)
(* index ranges of its sorted polygons.  A subtree wide enough may hand    *)
(* its left half to a new goroutine, when a token of the process-wide      *)
(* channel unaryUnionWorkers is free at that moment; the caller itself     *)
(* does the right half and then waits for the left one.  Otherwise both    *)
(* halves run in turn on the caller's goroutine.                           *)
(*                                                                         *)
(* A task <<c, start, end>> is the call cascadedBinaryUnion(geoms, start,  *)
(* end) made on behalf of caller c.  A goroutine is a chain of tasks, and  *)
(* every task runs on one goroutine, so one pc per task is the whole       *)
(* control state.  Geometry is abstracted to the expression it is the      *)
(* value of; whether the pairwise overlay of a task succeeds, fails with   *)
(* an error or panics is a property of the input (fault).                  *)
(***************************************************************************)
EXTENDS Integers, FiniteSets

CONSTANTS
  Callers,      \* concurrent callers of UnaryUnion in the process
  NumGeoms,     \* NumGeoms[c]: polygons in c's input
  Task,         \* the calls of cascadedBinaryUnion: <<caller, start, end>>
  Workers,      \* capacity of unaryUnionWorkers, GOMAXPROCS - 1
  Threshold,    \* parallelUnionThreshold
  Faults,       \* the inputs' behaviours: which pairwise overlays fail
  Sequential    \* Sequential[f][t]: outcome of t when nothing is spawned

(***************************************************************************)
(* The trees of tasks, one for each caller: finite, closed under halving,  *)
(* and every task below a root has one parent.                             *)
(***************************************************************************)
Root(c) == <<c, 0, NumGeoms[c]>>
Size(t) == t[3] - t[2]
Mid(t) == (t[2] + t[3]) \div 2
Left(t) == <<t[1], t[2], Mid(t)>>
Right(t) == <<t[1], Mid(t), t[3]>>

ASSUME TaskAssumption ==
  /\ NumGeoms \in [Callers -> Nat]
  /\ Task \subseteq {t \in Callers \X Nat \X Nat : t[2] <= t[3]}
  /\ IsFiniteSet(Task)
  /\ \A c \in Callers : Root(c) \in Task
  /\ \A t \in Task : Size(t) > 2 =>
       /\ Left(t) \in Task /\ Right(t) \in Task
       /\ \A c \in Callers : Root(c) \notin {Left(t), Right(t)}
  /\ \A t, u \in Task : t # u /\ Size(t) > 2 /\ Size(u) > 2 =>
       {Left(t), Right(t)} \cap {Left(u), Right(u)} = {}

ASSUME WorkersAssumption == Workers \in Nat /\ Threshold \in Int

ASSUME FaultsAssumption == Faults \subseteq [Task -> {"ok", "err", "panic"}]

(***************************************************************************)
(* Outcomes.  A geometry is the expression it was computed by.             *)
(***************************************************************************)
NilGeom == [nil |-> TRUE]
EmptyPolygon == [empty |-> TRUE]
Polygon(c, i) == [of |-> c, poly |-> i]

Ok(g) == [kind |-> "ok", val |-> g]
Err(t) == [kind |-> "err", val |-> [at |-> t]]
Panic(t) == [kind |-> "panic", val |-> [at |-> t]]
None == [kind |-> "none", val |-> NilGeom]

(* overlay.Union on two non-nil areal operands, at task t. *)
Union(f, t, g0, g1) ==
  CASE f[t] = "ok" -> Ok([left |-> g0, right |-> g1])
    [] f[t] = "err" -> Err(t)
    [] OTHER -> Panic(t)

(* The switch on end - start below three geometries. *)
LeafOutcome(f, t) ==
  IF Size(t) = 0 THEN Ok(NilGeom)
  ELSE IF Size(t) = 1 THEN Ok(Polygon(t[1], t[2]))
  ELSE Union(f, t, Polygon(t[1], t[2]), Polygon(t[1], t[2] + 1))

(* What a task returns once neither half has panicked: the left error wins. *)
Combine(f, t, o0, o1) ==
  IF o0.kind = "err" THEN o0
  ELSE IF o1.kind = "err" THEN o1
  ELSE IF o0.val = NilGeom THEN o1
  ELSE IF o1.val = NilGeom THEN o0
  ELSE Union(f, t, o0.val, o1.val)

(***************************************************************************)
(* The reference: the same recursion with no goroutine.                    *)
(***************************************************************************)
SequentialStep(f, t, o0, o1) ==
  IF Size(t) <= 2 THEN LeafOutcome(f, t)
  ELSE IF o0.kind = "panic" THEN o0
  ELSE IF o1.kind = "panic" THEN o1
  ELSE Combine(f, t, o0, o1)

ASSUME SequentialAssumption ==
  \A f \in Faults, t \in Task :
    Sequential[f][t] = SequentialStep(f, t, Sequential[f][Left(t)],
                                            Sequential[f][Right(t)])

-----------------------------------------------------------------------------
VARIABLES
  fault,      \* which pairwise overlays of this input fail, and how
  pc,         \* pc[t]: where the activation of task t stands
  res,        \* res[t]: the outcome t returned or panicked with
  worker,     \* worker[t]: the goroutine t spawned for its left half
  tokens      \* len(unaryUnionWorkers)

vars == <<fault, pc, res, worker, tokens>>

TypeOK ==
  /\ fault \in Faults
  /\ pc \in [Task -> {"idle", "call", "left", "right", "join", "done"}]
  /\ DOMAIN res = Task
  /\ worker \in [Task -> {"none", "running", "released", "closed"}]
  /\ tokens \in 0..Workers

Init ==
  /\ fault \in Faults
  /\ pc = [t \in Task |-> "idle"]
  /\ res = [t \in Task |-> None]
  /\ worker = [t \in Task |-> "none"]
  /\ tokens = 0

(***************************************************************************)
(* UnaryUnion enters unionAllAreal: no polygon and one polygon are         *)
(* answered at once, otherwise the recursion starts at the root.           *)
(***************************************************************************)
UnionAllAreal(c) ==
  /\ pc[Root(c)] = "idle"
  /\ IF NumGeoms[c] <= 1
     THEN /\ pc' = [pc EXCEPT ![Root(c)] = "done"]
          /\ res' = [res EXCEPT ![Root(c)] =
                       Ok(IF NumGeoms[c] = 0 THEN EmptyPolygon ELSE Polygon(c, 0))]
     ELSE /\ pc' = [pc EXCEPT ![Root(c)] = "call"]
          /\ UNCHANGED res
  /\ UNCHANGED <<fault, worker, tokens>>

Finish(t, o) ==
  /\ pc' = [pc EXCEPT ![t] = "done"]
  /\ res' = [res EXCEPT ![t] = o]

Leaf(t) ==
  /\ pc[t] = "call" /\ Size(t) <= 2
  /\ Finish(t, LeafOutcome(fault, t))
  /\ UNCHANGED <<fault, worker, tokens>>

(* Variant: a token is taken without looking at the capacity. *)
SpawnUnbounded(t) ==
  /\ pc[t] = "call" /\ Size(t) > 2 /\ Size(t) >= Threshold
  /\ tokens' = tokens + 1
  /\ worker' = [worker EXCEPT ![t] = "running"]
  /\ pc' = [pc EXCEPT ![t] = "right", ![Left(t)] = "call", ![Right(t)] = "call"]
  /\ UNCHANGED <<fault, res>>

(* The select takes its send case: a token is free. *)
Spawn(t) ==
  /\ pc[t] = "call" /\ Size(t) > 2
  /\ Size(t) >= Threshold /\ tokens < Workers
  /\ tokens' = tokens + 1
  /\ worker' = [worker EXCEPT ![t] = "running"]
  /\ pc' = [pc EXCEPT ![t] = "right", ![Left(t)] = "call", ![Right(t)] = "call"]
  /\ UNCHANGED <<fault, res>>

(* Too narrow, or the select takes its default case. *)
Sequentially(t) ==
  /\ pc[t] = "call" /\ Size(t) > 2
  /\ ~(Size(t) >= Threshold /\ tokens < Workers)
  /\ pc' = [pc EXCEPT ![t] = "left", ![Left(t)] = "call"]
  /\ UNCHANGED <<fault, res, worker, tokens>>

(* The left half, on this goroutine, is back: a panic unwinds through t. *)
LeftReturned(t) ==
  /\ pc[t] = "left" /\ pc[Left(t)] = "done"
  /\ IF res[Left(t)].kind = "panic"
     THEN Finish(t, res[Left(t)])
     ELSE /\ pc' = [pc EXCEPT ![t] = "right", ![Right(t)] = "call"]
          /\ UNCHANGED res
  /\ UNCHANGED <<fault, worker, tokens>>

(* Variant: an error of the right half returns at once, like a panic. *)
RightReturnedEarly(t) ==
  /\ pc[t] = "right" /\ pc[Right(t)] = "done"
  /\ IF res[Right(t)].kind # "ok" THEN Finish(t, res[Right(t)])
     ELSE IF worker[t] # "none"
     THEN /\ pc' = [pc EXCEPT ![t] = "join"]
          /\ UNCHANGED res
     ELSE Finish(t, Combine(fault, t, res[Left(t)], res[Right(t)]))
  /\ UNCHANGED <<fault, worker, tokens>>

(* The right half is back.  Its panic unwinds through t at once, even when *)
(* the spawned left half is still running.                                 *)
RightReturned(t) ==
  /\ pc[t] = "right" /\ pc[Right(t)] = "done"
  /\ IF res[Right(t)].kind = "panic" THEN Finish(t, res[Right(t)])
     ELSE IF worker[t] # "none"
     THEN /\ pc' = [pc EXCEPT ![t] = "join"]
          /\ UNCHANGED res
     ELSE Finish(t, Combine(fault, t, res[Left(t)], res[Right(t)]))
  /\ UNCHANGED <<fault, worker, tokens>>

(* Variant: the token is given back only on a normal return. *)
ReleaseUnlessPanic(t) ==
  /\ worker[t] = "running" /\ pc[Left(t)] = "done"
  /\ tokens' = IF res[Left(t)].kind = "panic" THEN tokens ELSE tokens - 1
  /\ worker' = [worker EXCEPT ![t] = "released"]
  /\ UNCHANGED <<fault, pc, res>>

(* The deferred function of the spawned goroutine: recover, give the token *)
(* back, then close(done).                                                 *)
Release(t) ==
  /\ worker[t] = "running" /\ pc[Left(t)] = "done"
  /\ tokens > 0
  /\ tokens' = tokens - 1
  /\ worker' = [worker EXCEPT ![t] = "released"]
  /\ UNCHANGED <<fault, pc, res>>

(* Variant: a recovered panic skips close(done). *)
CloseUnlessPanic(t) ==
  /\ worker[t] = "released" /\ res[Left(t)].kind # "panic"
  /\ worker' = [worker EXCEPT ![t] = "closed"]
  /\ UNCHANGED <<fault, pc, res, tokens>>

Close(t) ==
  /\ worker[t] = "released"
  /\ worker' = [worker EXCEPT ![t] = "closed"]
  /\ UNCHANGED <<fault, pc, res, tokens>>

(* Variants of the join: operands in the order the halves finished, the     *)
(* recovered panic forgotten, and the panicked half tried again.           *)
JoinSwapped(t) ==
  /\ pc[t] = "join" /\ worker[t] = "closed"
  /\ Finish(t, IF res[Left(t)].kind = "panic" THEN res[Left(t)]
               ELSE Combine(fault, t, res[Right(t)], res[Left(t)]))
  /\ UNCHANGED <<fault, worker, tokens>>

JoinForgetsPanic(t) ==
  /\ pc[t] = "join" /\ worker[t] = "closed"
  /\ Finish(t, IF res[Left(t)].kind = "panic" THEN res[Right(t)]
               ELSE Combine(fault, t, res[Left(t)], res[Right(t)]))
  /\ UNCHANGED <<fault, worker, tokens>>

JoinRetries(t) ==
  /\ pc[t] = "join" /\ worker[t] = "closed"
  /\ IF res[Left(t)].kind = "panic"
     THEN /\ pc' = [pc EXCEPT ![t] = "left", ![Left(t)] = "call"]
          /\ UNCHANGED res
     ELSE Finish(t, Combine(fault, t, res[Left(t)], res[Right(t)]))
  /\ UNCHANGED <<fault, worker, tokens>>

(* <-done, then re-raise what the goroutine recovered or combine. *)
Join(t) ==
  /\ pc[t] = "join" /\ worker[t] = "closed"
  /\ Finish(t, IF res[Left(t)].kind = "panic" THEN res[Left(t)]
               ELSE Combine(fault, t, res[Left(t)], res[Right(t)]))
  /\ UNCHANGED <<fault, worker, tokens>>

Step(t) ==
  \/ Leaf(t) \/ Spawn(t) \/ Sequentially(t)
  \/ LeftReturned(t) \/ RightReturned(t)
  \/ Release(t) \/ Close(t) \/ Join(t)

Quiescent ==
  /\ \A c \in Callers : pc[Root(c)] = "done"
  /\ \A t \in Task : worker[t] \in {"none", "closed"}
  /\ \A t \in Task : pc[t] \in {"idle", "done"}

Terminated == Quiescent /\ UNCHANGED vars

Next ==
  \/ \E c \in Callers : UnionAllAreal(c)
  \/ \E t \in Task : Step(t)
  \/ Terminated

Spec == Init /\ [][Next]_vars

(* The Go scheduler does not leave the whole process idle while one of the *)
(* library's goroutines can run.  (It is fair to each of them, but this    *)
(* much is enough.)  A caller may never call.                              *)
FairSpec == Spec /\ WF_vars(\E t \in Task : Step(t))

-----------------------------------------------------------------------------
(* What a caller must be answered: the outcome of the sequential code. *)
Expected(t) ==
  IF Size(t) = 0 THEN Ok(EmptyPolygon) ELSE Sequential[fault][t]

Agree(o, seq) == IF seq.kind = "panic" THEN o.kind = "panic" ELSE o = seq

(* A task that has returned returned what the sequential recursion would   *)
(* have: the same geometry (same operands in the same order), the same     *)
(* error (the left one, whichever goroutine finished first), or a panic    *)
(* exactly when the sequential code panics (unary_union.go:158-166).       *)
SameAsSequential ==
  \A t \in Task : pc[t] = "done" => Agree(res[t], Expected(t))

(* The tokens in the channel are exactly the spawned goroutines that have  *)
(* not given theirs back, over all callers of the process: the fan-out     *)
(* bound of unary_union.go:14-22 holds, no token leaks on an error or a    *)
(* panic, and the receive in the deferred function never blocks.           *)
TokenAccounting == tokens = Cardinality({t \in Task : worker[t] = "running"})

(* A goroutine outlives the task that spawned it only when that task is    *)
(* unwinding a panic of its right half: on every other path, errors        *)
(* included, the caller has waited for its worker.                         *)
NoOrphanWithoutPanic ==
  \A t \in Task :
    pc[t] = "done" /\ worker[t] \in {"running", "released"}
      => res[t].kind = "panic"

(* A result, once published by close(done) or a return, is never written   *)
(* again: the joined goroutine cannot race with its reader.                *)
ResultsAreStable ==
  [][\A t \in Task : pc[t] = "done" => pc'[t] = "done" /\ res'[t] = res[t]]_vars

(* Every call that was made returns, every worker finishes, and all tokens *)
(* find their way back, also after errors and panics: no caller waits for  *)
(* ever on its done channel and the pool is whole for the next call.       *)
EverythingSettles ==
  <>[](/\ \A t \in Task : pc[t] \in {"idle", "done"}
       /\ \A t \in Task : worker[t] \in {"none", "closed"}
       /\ tokens = 0)

(* The whole protocol implements the promise made to the callers. *)
Promise ==
  INSTANCE UnionPromise WITH
    expected <- [c \in Callers |-> Expected(Root(c))],
    result <- [c \in Callers |->
                 IF pc[Root(c)] = "done" THEN res[Root(c)] ELSE None]

ImplementsPromise == Promise!Spec
=============================================================================
