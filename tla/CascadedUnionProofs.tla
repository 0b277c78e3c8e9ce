------------------------- MODULE CascadedUnionProofs ------------------------
(***************************************************************************)
(* Proofs about CascadedUnion for any number of callers and polygons, any  *)
(* number of worker tokens, any threshold and any failing overlays.        *)
(***************************************************************************)
EXTENDS CascadedUnion, FiniteSetTheorems, TLAPS

(***************************************************************************)
(* The inductive invariant.  Beside what the theorems state it says where  *)
(* the children of a task stand while the task itself stands somewhere:    *)
(* a call that has not split has not touched its halves, a goroutine that  *)
(* gave its token back has finished its half, and a task past its left     *)
(* half without a worker knows that half returned without a panic.         *)
(***************************************************************************)
Fresh(t) ==
  pc[t] \in {"idle", "call"} =>
    /\ worker[t] = "none"
    /\ Size(t) > 2 => pc[Left(t)] = "idle" /\ pc[Right(t)] = "idle"

Progress(t) ==
  /\ pc[t] \in {"call", "left", "right", "join"} => Size(t) >= 1
  /\ pc[t] \in {"left", "right", "join"} => Size(t) > 2
  /\ pc[t] = "left" => worker[t] = "none" /\ pc[Right(t)] = "idle"
  /\ pc[t] = "right" /\ worker[t] = "none" =>
       pc[Left(t)] = "done" /\ res[Left(t)].kind # "panic"
  /\ pc[t] = "join" =>
       /\ worker[t] # "none"
       /\ pc[Right(t)] = "done" /\ res[Right(t)].kind # "panic"
  /\ worker[t] # "none" => Size(t) > 2
  /\ worker[t] \in {"released", "closed"} => pc[Left(t)] = "done"

Answer(t) ==
  pc[t] = "done" =>
    /\ Agree(res[t], Expected(t))
    /\ res[t].kind \in {"ok", "err", "panic"}
    /\ worker[t] \in {"running", "released"} => res[t].kind = "panic"

IInv ==
  /\ TypeOK
  /\ \A t \in Task : Fresh(t)
  /\ \A t \in Task : Progress(t)
  /\ \A t \in Task : Answer(t)

-----------------------------------------------------------------------------
(* The halves of a task wider than two polygons are tasks, not empty, and  *)
(* different from each other and from the task.                            *)
LEMMA Halves ==
  ASSUME NEW t \in Task, Size(t) > 2
  PROVE  /\ Left(t) \in Task /\ Right(t) \in Task
         /\ Size(Left(t)) >= 1 /\ Size(Right(t)) >= 1
         /\ Left(t) # t /\ Right(t) # t /\ Left(t) # Right(t)
<1>1. PICK c \in Callers, s \in Nat, e \in Nat : t = <<c, s, e>>
  BY TaskAssumption
<1>2. /\ (s + e) \div 2 > s /\ (s + e) \div 2 < e
      /\ Left(t) = <<c, s, (s + e) \div 2>>
      /\ Right(t) = <<c, (s + e) \div 2, e>>
  BY <1>1 DEF Size, Left, Right, Mid
<1>3. Left(t) \in Task /\ Right(t) \in Task
  BY TaskAssumption
<1>4. Size(Left(t)) >= 1 /\ Size(Right(t)) >= 1
  BY <1>2 DEF Size
<1>5. Left(t) # t /\ Right(t) # t /\ Left(t) # Right(t)
  BY <1>1, <1>2
<1> QED  BY <1>3, <1>4, <1>5

(* The width of a range of indices is a natural number. *)
LEMMA SizeType == \A t \in Task : Size(t) \in Nat
BY TaskAssumption DEF Size

(* No two tasks share a half, and a root is nobody's half. *)
LEMMA OneParent ==
  ASSUME NEW t \in Task, NEW u \in Task, Size(t) > 2, Size(u) > 2, t # u
  PROVE  /\ Left(u) # Left(t) /\ Left(u) # Right(t)
         /\ Right(u) # Left(t) /\ Right(u) # Right(t)
BY TaskAssumption

(* Handing a half over to a call: what stays true of every other task. *)
LEMMA FinishKeepsOthers ==
  ASSUME TypeOK, NEW t \in Task, NEW o, Finish(t, o)
  PROVE  /\ pc' \in [Task -> {"idle", "call", "left", "right", "join", "done"}]
         /\ DOMAIN res' = Task
         /\ pc'[t] = "done" /\ res'[t] = o
         /\ \A u \in Task \ {t} : pc'[u] = pc[u] /\ res'[u] = res[u]
BY DEF TypeOK, Finish

(* The invariant holds before the first call. *)
LEMMA InitIInv == Init => IInv
<1> SUFFICES ASSUME Init PROVE IInv
  OBVIOUS
<1>1. TypeOK
  BY WorkersAssumption DEF Init, TypeOK
<1>2. \A t \in Task : Fresh(t)
  BY Halves DEF Init, Fresh
<1>3. \A t \in Task : Progress(t) /\ Answer(t)
  BY DEF Init, Progress, Answer
<1> QED  BY <1>1, <1>2, <1>3 DEF IInv

(* A task that finishes with o, its own worker untouched, keeps IInv when  *)
(* o agrees with the sequential outcome and is a panic if t's worker may   *)
(* still run.                                                              *)
LEMMA FinishStep ==
  ASSUME IInv, NEW t \in Task, NEW o, Finish(t, o),
         UNCHANGED <<fault, worker, tokens>>,
         pc[t] # "done", pc[t] # "idle",
         Agree(o, Expected(t)), o.kind \in {"ok", "err", "panic"},
         worker[t] \in {"running", "released"} => o.kind = "panic"
  PROVE  IInv'
<1>1. TypeOK'
  BY FinishKeepsOthers DEF IInv, TypeOK
<1>2. ASSUME NEW u \in Task PROVE Fresh(u)'
  <2>1. CASE u = t
    BY <2>1, FinishKeepsOthers DEF IInv, Fresh
  <2>2. CASE u # t /\ Size(u) > 2 /\ pc[u] \in {"idle", "call"}
    BY <2>2, FinishKeepsOthers, Halves DEF IInv, Fresh
  <2>3. CASE u # t /\ ~(Size(u) > 2 /\ pc[u] \in {"idle", "call"})
    BY <2>3, FinishKeepsOthers DEF IInv, Fresh
  <2> QED  BY <2>1, <2>2, <2>3
<1>3. ASSUME NEW u \in Task PROVE Progress(u)'
  <2>1. CASE ~(Size(u) > 2)
    BY <2>1, FinishKeepsOthers DEF IInv, Progress
  <2>2. CASE Size(u) > 2
    <3>1. /\ Left(u) \in Task /\ Right(u) \in Task
          /\ Left(u) # u /\ Right(u) # u
      BY <2>2, Halves
    <3>2. CASE u = t
      BY <2>2, <3>1, <3>2, FinishKeepsOthers DEF IInv, Progress, TypeOK
    <3>3. CASE u # t
      BY <2>2, <3>1, <3>3, FinishKeepsOthers DEF IInv, Progress, TypeOK
    <3> QED  BY <3>2, <3>3
  <2> QED  BY <2>1, <2>2
<1>4. ASSUME NEW u \in Task PROVE Answer(u)'
  <2>1. Expected(u)' = Expected(u)
    BY DEF Expected
  <2>2. CASE u = t
    BY <2>1, <2>2, FinishKeepsOthers DEF IInv, Answer, Agree
  <2>3. CASE u # t
    BY <2>1, <2>3, FinishKeepsOthers DEF IInv, Answer, Agree
  <2> QED  BY <2>2, <2>3
<1> QED  BY <1>1, <1>2, <1>3, <1>4 DEF IInv

(* What the sequential recursion does at a task wider than two polygons,   *)
(* seen from the outcomes of its halves.                                   *)
LEMMA AgreeCombined ==
  ASSUME IInv, NEW t \in Task, Size(t) > 2,
         pc[Right(t)] = "done"
  PROVE  /\ res[Right(t)].kind = "panic" => Agree(res[Right(t)], Expected(t))
         /\ pc[Left(t)] = "done" /\ res[Left(t)].kind = "panic"
               => Agree(res[Left(t)], Expected(t))
         /\ /\ pc[Left(t)] = "done"
            /\ res[Left(t)].kind # "panic" /\ res[Right(t)].kind # "panic"
            => /\ Agree(Combine(fault, t, res[Left(t)], res[Right(t)]), Expected(t))
               /\ Combine(fault, t, res[Left(t)], res[Right(t)]).kind
                    \in {"ok", "err", "panic"}
<1>1. /\ Left(t) \in Task /\ Right(t) \in Task
      /\ Size(Left(t)) # 0 /\ Size(Right(t)) # 0 /\ Size(t) # 0 /\ ~(Size(t) <= 2)
  BY Halves, TaskAssumption DEF Size
<1> DEFINE S0 == Sequential[fault][Left(t)]
           S1 == Sequential[fault][Right(t)]
<1>2. fault \in Faults
  BY DEF IInv, TypeOK
<1>3. Expected(t) = IF S0.kind = "panic" THEN S0
                    ELSE IF S1.kind = "panic" THEN S1
                    ELSE Combine(fault, t, S0, S1)
  BY <1>1, <1>2, SequentialAssumption DEF Expected, SequentialStep
<1>4. Agree(res[Right(t)], S1)
  BY <1>1 DEF IInv, Answer, Expected
<1>5. pc[Left(t)] = "done" => Agree(res[Left(t)], S0)
  BY <1>1 DEF IInv, Answer, Expected
<1>6. /\ pc[Left(t)] = "done" => res[Left(t)].kind \in {"ok", "err", "panic"}
      /\ res[Right(t)].kind \in {"ok", "err", "panic"}
  BY <1>1 DEF IInv, Answer
<1>7. pc[Left(t)] = "done" =>
        Combine(fault, t, res[Left(t)], res[Right(t)]).kind \in {"ok", "err", "panic"}
  BY <1>6 DEF Combine, Union, Ok, Err, Panic
<1> HIDE DEF S0, S1
<1> QED  BY <1>3, <1>4, <1>5, <1>7 DEF Agree

(* The left half alone, on a goroutine that has not started the right one. *)
LEMMA AgreeLeftPanic ==
  ASSUME IInv, NEW t \in Task, Size(t) > 2,
         pc[Left(t)] = "done", res[Left(t)].kind = "panic"
  PROVE  Agree(res[Left(t)], Expected(t))
<1>1. /\ Left(t) \in Task /\ Size(Left(t)) # 0
      /\ Size(t) # 0 /\ ~(Size(t) <= 2)
  BY Halves, TaskAssumption DEF Size
<1> DEFINE S0 == Sequential[fault][Left(t)]
<1>2. fault \in Faults
  BY DEF IInv, TypeOK
<1>3. S0.kind = "panic" => Expected(t) = S0
  BY <1>1, <1>2, SequentialAssumption DEF Expected, SequentialStep
<1>4. Agree(res[Left(t)], S0)
  BY <1>1 DEF IInv, Answer, Expected
<1> HIDE DEF S0
<1> QED  BY <1>3, <1>4 DEF Agree

-----------------------------------------------------------------------------
(* A step that leaves fault, pc and res alone keeps every answer, if it    *)
(* only moves workers towards closed.                                      *)
LEMMA CallStep ==
  ASSUME IInv, NEW t \in Task, Size(t) > 2, pc[t] = "call",
         fault' = fault, res' = res, tokens' \in 0..Workers,
         \/ /\ worker' = [worker EXCEPT ![t] = "running"]
            /\ pc' = [pc EXCEPT ![t] = "right", ![Left(t)] = "call",
                                ![Right(t)] = "call"]
         \/ /\ worker' = worker
            /\ pc' = [pc EXCEPT ![t] = "left", ![Left(t)] = "call"]
  PROVE  IInv'
<1>1. /\ Left(t) \in Task /\ Right(t) \in Task
      /\ Size(Left(t)) >= 1 /\ Size(Right(t)) >= 1
      /\ Left(t) # t /\ Right(t) # t /\ Left(t) # Right(t)
  BY Halves
<1>2. TypeOK'
  BY <1>1 DEF IInv, TypeOK
<1>3. /\ pc[Left(t)] = "idle" /\ pc[Right(t)] = "idle"
      /\ worker[t] = "none" /\ worker[Left(t)] = "none" /\ worker[Right(t)] = "none"
  BY <1>1 DEF IInv, Fresh
<1>4. /\ pc'[t] \in {"left", "right"} /\ pc'[Left(t)] = "call"
      /\ pc'[Right(t)] \in {"idle", "call"}
      /\ \A u \in Task \ {t, Left(t), Right(t)} : pc'[u] = pc[u]
      /\ \A u \in Task \ {t} : worker'[u] = worker[u]
      /\ \/ pc'[t] = "right" /\ worker'[t] = "running"
         \/ pc'[t] = "left" /\ worker'[t] = "none" /\ pc'[Right(t)] = "idle"
  BY <1>1, <1>3 DEF IInv, TypeOK
<1>5. ASSUME NEW u \in Task, Size(u) > 2, u # t
      PROVE  /\ Left(u) \in Task /\ Right(u) \in Task
             /\ Left(u) \notin {Left(t), Right(t)}
             /\ Right(u) \notin {Left(t), Right(t)}
  BY <1>5, Halves, OneParent
<1>6. ASSUME NEW u \in Task PROVE Fresh(u)'
  <2>1. CASE u = t
    BY <2>1, <1>4 DEF Fresh
  <2>2. CASE u # t /\ ~(Size(u) > 2)
    BY <2>2, <1>3, <1>4 DEF IInv, Fresh
  <2>3. CASE u # t /\ Size(u) > 2
    <3>1. pc'[u] \in {"idle", "call"} => pc[u] \in {"idle", "call"}
      BY <2>3, <1>3, <1>4
    <3>2. pc[u] \in {"idle", "call"} =>
            /\ worker[u] = "none" /\ pc[Left(u)] = "idle" /\ pc[Right(u)] = "idle"
      BY <2>3 DEF IInv, Fresh
    <3>3. pc[Left(u)] = "idle" => Left(u) # t
      BY DEF IInv
    <3>4. pc[Right(u)] = "idle" => Right(u) # t
      BY DEF IInv
    <3> QED  BY <2>3, <3>1, <3>2, <3>3, <3>4, <1>4, <1>5 DEF Fresh
  <2> QED  BY <2>1, <2>2, <2>3
<1>7. ASSUME NEW u \in Task PROVE Progress(u)'
  <2>1. CASE u = t
    BY <2>1, <1>1, <1>4, SizeType DEF Progress
  <2>2. CASE u # t /\ ~(Size(u) > 2)
    BY <2>2, <1>1, <1>3, <1>4 DEF IInv, Progress
  <2>3. CASE u # t /\ Size(u) > 2
    <3>1. CASE u \in {Left(t), Right(t)}
      BY <2>3, <3>1, <1>3, <1>4, SizeType DEF Progress
    <3>2. CASE u \notin {Left(t), Right(t)}
      <4>1. pc'[u] = pc[u] /\ worker'[u] = worker[u] /\ res' = res
        BY <2>3, <3>2, <1>4
      <4>2. /\ pc[Left(u)] = "done" => pc'[Left(u)] = "done"
            /\ pc[Right(u)] = "done" => pc'[Right(u)] = "done"
            /\ pc[Right(u)] = "idle" => pc'[Right(u)] = "idle"
        BY <2>3, <1>4, <1>5
      <4> QED  BY <2>3, <4>1, <4>2 DEF IInv, Progress
    <3> QED  BY <3>1, <3>2
  <2> QED  BY <2>1, <2>2, <2>3
<1>8. ASSUME NEW u \in Task PROVE Answer(u)'
  <2>1. Expected(u)' = Expected(u)
    BY DEF Expected
  <2>2. pc'[u] = "done" => pc[u] = "done" /\ worker'[u] = worker[u]
    BY <1>4
  <2> QED  BY <2>1, <2>2 DEF IInv, Answer, Agree
<1> QED  BY <1>2, <1>6, <1>7, <1>8 DEF IInv

(* A step that only moves the worker of t along. *)
LEMMA WorkerStep ==
  ASSUME IInv, NEW t \in Task, pc[Left(t)] = "done",
         UNCHANGED <<fault, pc, res>>, tokens' \in 0..Workers,
         \/ worker[t] = "running" /\ worker' = [worker EXCEPT ![t] = "released"]
         \/ worker[t] = "released" /\ worker' = [worker EXCEPT ![t] = "closed"]
  PROVE  IInv'
<1>1. /\ worker' \in [Task -> {"none", "running", "released", "closed"}]
      /\ \A u \in Task \ {t} : worker'[u] = worker[u]
      /\ worker'[t] \in {"released", "closed"} /\ worker[t] # "none"
      /\ worker'[t] \in {"running", "released"} => worker[t] \in {"running", "released"}
  BY DEF IInv, TypeOK
<1>2. TypeOK'
  BY <1>1 DEF IInv, TypeOK
<1>3. ASSUME NEW u \in Task PROVE Fresh(u)' /\ Progress(u)'
  <2>1. CASE u = t
    BY <2>1, <1>1 DEF IInv, Fresh, Progress
  <2>2. CASE u # t
    BY <2>2, <1>1 DEF IInv, Fresh, Progress
  <2> QED  BY <2>1, <2>2
<1>4. ASSUME NEW u \in Task PROVE Answer(u)'
  <2>1. Expected(u)' = Expected(u)
    BY DEF Expected
  <2> QED  BY <2>1, <1>1 DEF IInv, Answer, Agree
<1> QED  BY <1>2, <1>3, <1>4 DEF IInv

(* A call enters the recursion at its root. *)
LEMMA EnterStep ==
  ASSUME IInv, NEW c \in Callers, NumGeoms[c] > 1, pc[Root(c)] = "idle",
         pc' = [pc EXCEPT ![Root(c)] = "call"],
         UNCHANGED <<fault, res, worker, tokens>>
  PROVE  IInv'
<1>1. /\ Root(c) \in Task /\ Size(Root(c)) >= 1
  BY TaskAssumption DEF Size, Root
<1>2. ASSUME NEW u \in Task, Size(u) > 2
      PROVE  /\ Left(u) \in Task /\ Right(u) \in Task
             /\ Left(u) # Root(c) /\ Right(u) # Root(c)
  BY <1>2, TaskAssumption
<1>3. /\ pc'[Root(c)] = "call"
      /\ \A u \in Task \ {Root(c)} : pc'[u] = pc[u]
  BY <1>1 DEF IInv, TypeOK
<1>4. TypeOK'
  BY <1>1 DEF IInv, TypeOK
<1>5. ASSUME NEW u \in Task PROVE Fresh(u)' /\ Progress(u)'
  <2>1. CASE Size(u) > 2
    <3>1. pc'[Left(u)] = pc[Left(u)] /\ pc'[Right(u)] = pc[Right(u)]
      BY <2>1, <1>2, <1>3
    <3> QED  BY <2>1, <3>1, <1>1, <1>3 DEF IInv, Fresh, Progress
  <2>2. CASE ~(Size(u) > 2)
    BY <2>2, <1>1, <1>3 DEF IInv, Fresh, Progress
  <2> QED  BY <2>1, <2>2
<1>6. ASSUME NEW u \in Task PROVE Answer(u)'
  <2>1. Expected(u)' = Expected(u)
    BY DEF Expected
  <2> QED  BY <2>1, <1>3 DEF IInv, Answer, Agree
<1> QED  BY <1>4, <1>5, <1>6 DEF IInv

(* The sequential caller goes on to the right half; the waiting caller of  *)
(* a worker goes on to the join.                                           *)
LEMMA AdvanceStep ==
  ASSUME IInv, NEW t \in Task, Size(t) > 2,
         UNCHANGED <<fault, res, worker, tokens>>,
         \/ /\ pc[t] = "left" /\ pc[Left(t)] = "done" /\ res[Left(t)].kind # "panic"
            /\ pc' = [pc EXCEPT ![t] = "right", ![Right(t)] = "call"]
         \/ /\ pc[t] = "right" /\ pc[Right(t)] = "done" /\ worker[t] # "none"
            /\ res[Right(t)].kind # "panic"
            /\ pc' = [pc EXCEPT ![t] = "join"]
  PROVE  IInv'
<1>1. /\ Left(t) \in Task /\ Right(t) \in Task /\ Size(Right(t)) >= 1
      /\ Left(t) # t /\ Right(t) # t /\ Left(t) # Right(t)
  BY Halves
<1>2. TypeOK'
  BY <1>1 DEF IInv, TypeOK
<1>3. pc[t] = "left" => pc[Right(t)] = "idle" /\ worker[Right(t)] = "none"
  BY <1>1 DEF IInv, Progress, Fresh
<1>4. /\ \A u \in Task \ {t, Right(t)} : pc'[u] = pc[u]
      /\ pc'[t] \in {"right", "join"} /\ pc'[Left(t)] = pc[Left(t)]
      /\ \/ pc[t] = "left" /\ pc'[t] = "right" /\ pc'[Right(t)] = "call"
         \/ pc[t] = "right" /\ pc'[t] = "join" /\ pc'[Right(t)] = pc[Right(t)]
  BY <1>1 DEF IInv, TypeOK
<1>5. ASSUME NEW u \in Task, Size(u) > 2, u # t
      PROVE  /\ Left(u) \in Task /\ Right(u) \in Task
             /\ Left(u) # Right(t) /\ Right(u) # Right(t)
  BY <1>5, Halves, OneParent
<1>6. ASSUME NEW u \in Task PROVE Fresh(u)'
  <2>1. CASE u = t
    BY <2>1, <1>4 DEF Fresh
  <2>2. CASE u # t /\ Size(u) > 2
    <3>1. pc'[u] \in {"idle", "call"} =>
            /\ worker[u] = "none" /\ pc[Left(u)] = "idle" /\ pc[Right(u)] = "idle"
      BY <2>2, <1>3, <1>4 DEF IInv, Fresh
    <3> QED  BY <2>2, <3>1, <1>4, <1>5 DEF Fresh
  <2>3. CASE u # t /\ ~(Size(u) > 2)
    BY <2>3, <1>3, <1>4 DEF IInv, Fresh
  <2> QED  BY <2>1, <2>2, <2>3
<1>7. ASSUME NEW u \in Task PROVE Progress(u)'
  <2>1. CASE u = t
    BY <2>1, <1>1, <1>4, SizeType DEF IInv, Progress
  <2>2. CASE u # t /\ ~(Size(u) > 2)
    BY <2>2, <1>1, <1>3, <1>4 DEF IInv, Progress
  <2>3. CASE u # t /\ Size(u) > 2
    <3>1. CASE u = Right(t) /\ pc'[u] = "call"
      BY <2>3, <3>1, <1>1, <1>3, <1>4, SizeType DEF IInv, Progress
    <3>2. CASE pc'[u] = pc[u]
      <4>1. /\ pc[Left(u)] = "done" => pc'[Left(u)] = "done"
            /\ pc[Right(u)] = "done" => pc'[Right(u)] = "done"
            /\ pc[Right(u)] = "idle" => pc'[Right(u)] = "idle"
        BY <2>3, <1>4, <1>5
      <4> QED  BY <2>3, <3>2, <4>1 DEF IInv, Progress
    <3> QED  BY <2>3, <3>1, <3>2, <1>4
  <2> QED  BY <2>1, <2>2, <2>3
<1>8. ASSUME NEW u \in Task PROVE Answer(u)'
  <2>1. Expected(u)' = Expected(u)
    BY DEF Expected
  <2>2. pc'[u] = "done" => pc[u] = "done"
    BY <1>4
  <2> QED  BY <2>1, <2>2 DEF IInv, Answer, Agree
<1> QED  BY <1>2, <1>6, <1>7, <1>8 DEF IInv

(* No polygon or one polygon: unionAllAreal answers without recursing. *)
LEMMA ShortStep ==
  ASSUME IInv, NEW c \in Callers, NumGeoms[c] <= 1, UnionAllAreal(c)
  PROVE  IInv'
<1> DEFINE r == Root(c)
           o == Ok(IF NumGeoms[c] = 0 THEN EmptyPolygon ELSE Polygon(c, 0))
<1>1. /\ r \in Task /\ Size(r) = NumGeoms[c] /\ NumGeoms[c] \in {0, 1}
      /\ r[1] = c /\ r[2] = 0
  BY TaskAssumption DEF Size, Root
<1>2. /\ pc[r] = "idle" /\ Finish(r, o)
      /\ UNCHANGED <<fault, worker, tokens>>
  BY DEF UnionAllAreal, Finish
<1>3. /\ worker[r] = "none"
  BY <1>1, <1>2 DEF IInv, Fresh
<1>4. Agree(o, Expected(r)) /\ o.kind = "ok"
  <2>1. CASE NumGeoms[c] = 0
    BY <2>1, <1>1 DEF Expected, Agree, Ok
  <2>2. CASE NumGeoms[c] = 1
    <3>1. fault \in Faults
      BY DEF IInv, TypeOK
    <3>2. Expected(r) = Ok(Polygon(c, 0))
      BY <2>2, <1>1, <3>1, SequentialAssumption
         DEF Expected, SequentialStep, LeafOutcome
    <3> QED  BY <2>2, <3>2 DEF Agree, Ok
  <2> QED  BY <1>1, <2>1, <2>2
<1> HIDE DEF r, o
<1>5. /\ pc'[r] = "done" /\ res'[r] = o
      /\ \A u \in Task \ {r} : pc'[u] = pc[u] /\ res'[u] = res[u]
      /\ TypeOK'
  BY <1>1, <1>2, FinishKeepsOthers DEF IInv, TypeOK
<1>6. ASSUME NEW u \in Task, Size(u) > 2
      PROVE  /\ Left(u) \in Task /\ Right(u) \in Task
             /\ Left(u) # r /\ Right(u) # r
  BY <1>6, TaskAssumption DEF r
<1>7. ASSUME NEW u \in Task PROVE Fresh(u)' /\ Progress(u)'
  <2>1. CASE Size(u) > 2
    <3>1. u # r
      BY <2>1, <1>1
    <3>2. /\ pc'[Left(u)] = pc[Left(u)] /\ res'[Left(u)] = res[Left(u)]
          /\ pc'[Right(u)] = pc[Right(u)] /\ res'[Right(u)] = res[Right(u)]
      BY <2>1, <1>5, <1>6
    <3> QED  BY <2>1, <3>1, <3>2, <1>2, <1>5 DEF IInv, Fresh, Progress
  <2>2. CASE ~(Size(u) > 2)
    BY <2>2, <1>1, <1>2, <1>3, <1>5 DEF IInv, Fresh, Progress
  <2> QED  BY <2>1, <2>2
<1>8. ASSUME NEW u \in Task PROVE Answer(u)'
  <2>1. Expected(u)' = Expected(u)
    BY <1>2 DEF Expected
  <2>2. CASE u = r
    BY <2>1, <2>2, <1>2, <1>3, <1>4, <1>5 DEF Answer, Agree
  <2>3. CASE u # r
    BY <2>1, <2>3, <1>2, <1>5 DEF IInv, Answer, Agree
  <2> QED  BY <2>2, <2>3
<1> QED  BY <1>5, <1>7, <1>8 DEF IInv

-----------------------------------------------------------------------------
(* Every step preserves it: a call of cascadedBinaryUnion that starts,     *)
(* spawns, returns, joins or gives its token back.                         *)
LEMMA NextIInv == IInv /\ [Next]_vars => IInv'
<1> SUFFICES ASSUME IInv, [Next]_vars PROVE IInv'
  OBVIOUS
<1>1. ASSUME NEW c \in Callers, UnionAllAreal(c) PROVE IInv'
  <2>1. CASE NumGeoms[c] <= 1
    BY <1>1, <2>1, ShortStep
  <2>2. CASE ~(NumGeoms[c] <= 1)
    BY <1>1, <2>2, EnterStep, TaskAssumption DEF UnionAllAreal
  <2> QED  BY <2>1, <2>2
<1>2. ASSUME NEW t \in Task, Leaf(t) PROVE IInv'
  <2>1. /\ Size(t) <= 2 /\ Size(t) # 0 /\ fault \in Faults /\ worker[t] = "none"
    BY <1>2, SizeType DEF Leaf, IInv, Progress, Fresh, TypeOK
  <2>2. Agree(LeafOutcome(fault, t), Expected(t))
    BY <2>1, SequentialAssumption DEF Expected, SequentialStep, Agree
  <2>3. LeafOutcome(fault, t).kind \in {"ok", "err", "panic"}
    BY DEF LeafOutcome, Union, Ok, Err, Panic
  <2> QED  BY <1>2, <2>1, <2>2, <2>3, FinishStep DEF Leaf
<1>3. ASSUME NEW t \in Task, Spawn(t) PROVE IInv'
  <2>1. tokens' \in 0..Workers
    BY <1>3, WorkersAssumption DEF Spawn, IInv, TypeOK
  <2> QED  BY <1>3, <2>1, CallStep DEF Spawn
<1>4. ASSUME NEW t \in Task, Sequentially(t) PROVE IInv'
  <2>1. tokens' \in 0..Workers
    BY <1>4 DEF Sequentially, IInv, TypeOK
  <2> QED  BY <1>4, <2>1, CallStep DEF Sequentially
<1>5. ASSUME NEW t \in Task, LeftReturned(t) PROVE IInv'
  <2>1. Size(t) > 2 /\ worker[t] = "none"
    BY <1>5 DEF LeftReturned, IInv, Progress
  <2>2. CASE res[Left(t)].kind = "panic"
    BY <1>5, <2>1, <2>2, AgreeLeftPanic, FinishStep DEF LeftReturned
  <2>3. CASE res[Left(t)].kind # "panic"
    BY <1>5, <2>1, <2>3, AdvanceStep DEF LeftReturned
  <2> QED  BY <2>2, <2>3
<1>6. ASSUME NEW t \in Task, RightReturned(t) PROVE IInv'
  <2>1. Size(t) > 2
    BY <1>6 DEF RightReturned, IInv, Progress
  <2>2. CASE res[Right(t)].kind = "panic"
    BY <1>6, <2>1, <2>2, AgreeCombined, FinishStep DEF RightReturned
  <2>3. CASE res[Right(t)].kind # "panic" /\ worker[t] # "none"
    BY <1>6, <2>1, <2>3, AdvanceStep DEF RightReturned
  <2>4. CASE res[Right(t)].kind # "panic" /\ worker[t] = "none"
    <3>1. pc[Left(t)] = "done" /\ res[Left(t)].kind # "panic"
      BY <1>6, <2>4 DEF RightReturned, IInv, Progress
    <3> QED  BY <1>6, <2>1, <2>4, <3>1, AgreeCombined, FinishStep DEF RightReturned
  <2> QED  BY <2>2, <2>3, <2>4
<1>7. ASSUME NEW t \in Task, Release(t) PROVE IInv'
  <2>1. tokens' \in 0..Workers
    BY <1>7, WorkersAssumption DEF Release, IInv, TypeOK
  <2> QED  BY <1>7, <2>1, WorkerStep DEF Release
<1>8. ASSUME NEW t \in Task, Close(t) PROVE IInv'
  <2>1. pc[Left(t)] = "done" /\ tokens' \in 0..Workers
    BY <1>8 DEF Close, IInv, Progress, TypeOK
  <2> QED  BY <1>8, <2>1, WorkerStep DEF Close
<1>9. ASSUME NEW t \in Task, Join(t) PROVE IInv'
  <2>1. /\ Size(t) > 2 /\ pc[Left(t)] = "done"
        /\ pc[Right(t)] = "done" /\ res[Right(t)].kind # "panic"
    BY <1>9 DEF Join, IInv, Progress
  <2> QED  BY <1>9, <2>1, AgreeCombined, FinishStep DEF Join
<1>10. CASE UNCHANGED vars
  BY <1>10 DEF vars, IInv, TypeOK, Fresh, Progress, Answer, Expected, Agree
<1> QED
  BY <1>1, <1>2, <1>3, <1>4, <1>5, <1>6, <1>7, <1>8, <1>9, <1>10
     DEF Next, Step, Terminated

(* So it holds of every run of any number of callers and workers. *)
LEMMA Invariance == Spec => []IInv
BY InitIInv, NextIInv, PTL DEF Spec

(* Every variable keeps its type: in particular the channel never holds    *)
(* more tokens than its capacity.                                          *)
THEOREM TypeCorrect == Spec => []TypeOK
<1>1. IInv => TypeOK
  BY DEF IInv
<1> QED  BY <1>1, Invariance, PTL

(* Whatever goroutines were spawned and however they were scheduled, every *)
(* task returns what the sequential recursion returns.                     *)
THEOREM Deterministic == Spec => []SameAsSequential
<1>1. IInv => SameAsSequential
  BY DEF IInv, Answer, SameAsSequential
<1> QED  BY <1>1, Invariance, PTL

(* Only a panic lets a worker goroutine outlive the call that spawned it. *)
THEOREM Structured == Spec => []NoOrphanWithoutPanic
<1>1. IInv => NoOrphanWithoutPanic
  BY DEF IInv, Answer, NoOrphanWithoutPanic
<1> QED  BY <1>1, Invariance, PTL

(* No action touches a task that is done. *)
LEMMA DoneStays ==
  ASSUME IInv, [Next]_vars
  PROVE  \A t \in Task : pc[t] = "done" => pc'[t] = "done" /\ res'[t] = res[t]
<1> SUFFICES ASSUME NEW t \in Task, pc[t] = "done"
             PROVE  pc'[t] = "done" /\ res'[t] = res[t]
  OBVIOUS
<1>1. /\ t \in DOMAIN pc /\ t \in DOMAIN res
  BY DEF IInv, TypeOK
<1>2. ASSUME NEW u \in Task, Size(u) > 2
      PROVE  /\ Left(u) \in Task /\ Right(u) \in Task
             /\ pc[u] = "call" => pc[Left(u)] = "idle" /\ pc[Right(u)] = "idle"
             /\ pc[u] = "left" => pc[Right(u)] = "idle"
  BY <1>2, Halves DEF IInv, Fresh, Progress
<1>3. \A u \in Task : pc[u] \in {"left", "right", "join"} => Size(u) > 2
  BY DEF IInv, Progress
<1>4. ASSUME NEW u \in Task, NEW o, pc[u] # "done", Finish(u, o)
      PROVE  pc'[t] = "done" /\ res'[t] = res[t]
  BY <1>1, <1>4 DEF Finish, IInv, TypeOK
<1>5. ASSUME NEW u \in Task, Spawn(u) \/ Sequentially(u)
      PROVE  pc'[t] = "done" /\ res'[t] = res[t]
  BY <1>1, <1>2, <1>5 DEF Spawn, Sequentially, IInv, TypeOK
<1>6. ASSUME NEW u \in Task, LeftReturned(u)
      PROVE  pc'[t] = "done" /\ res'[t] = res[t]
  BY <1>1, <1>2, <1>3, <1>4, <1>6 DEF LeftReturned, IInv, TypeOK
<1>7. ASSUME NEW u \in Task, RightReturned(u)
      PROVE  pc'[t] = "done" /\ res'[t] = res[t]
  BY <1>1, <1>4, <1>7 DEF RightReturned, IInv, TypeOK
<1>8. ASSUME NEW u \in Task, Leaf(u) \/ Join(u) \/ Release(u) \/ Close(u)
      PROVE  pc'[t] = "done" /\ res'[t] = res[t]
  BY <1>4, <1>8 DEF Leaf, Join, Release, Close
<1>9. ASSUME NEW c \in Callers, UnionAllAreal(c)
      PROVE  pc'[t] = "done" /\ res'[t] = res[t]
  BY <1>1, <1>9, TaskAssumption DEF UnionAllAreal, IInv, TypeOK
<1>10. CASE UNCHANGED vars
  BY <1>10 DEF vars
<1> QED
  BY <1>5, <1>6, <1>7, <1>8, <1>9, <1>10 DEF Next, Step, Terminated

(* A published result is never overwritten. *)
THEOREM Stable == Spec => ResultsAreStable
<1> DEFINE Keep == \A t \in Task : pc[t] = "done" => pc'[t] = "done" /\ res'[t] = res[t]
<1>1. IInv /\ [Next]_vars => [Keep]_vars
  BY DoneStays
<1> QED  BY <1>1, Invariance, PTL DEF Spec, ResultsAreStable

-----------------------------------------------------------------------------
Running == {t \in Task : worker[t] = "running"}

(* The tokens held are the running workers: none leaks, and the fan-out of *)
(* all callers together stays within the capacity of the channel.          *)
THEOREM TokensAccounted == Spec => []TokenAccounting
<1>1. Init => TokenAccounting
  <2> SUFFICES ASSUME Init PROVE TokenAccounting
    OBVIOUS
  <2>1. Running = {}
    BY DEF Init, Running
  <2> QED  BY <2>1, FS_EmptySet DEF TokenAccounting, Init, Running
<1>2. ASSUME IInv, TokenAccounting, [Next]_vars PROVE TokenAccounting'
  <2> USE <1>2
  <2>1. IsFiniteSet(Running) /\ tokens = Cardinality(Running)
    BY TaskAssumption, FS_Subset DEF Running, TokenAccounting
  <2>2. SUFFICES tokens' = Cardinality(Running')
    BY DEF TokenAccounting, Running
  <2>3. ASSUME NEW t \in Task, Spawn(t) PROVE tokens' = Cardinality(Running')
    <3>1. t \notin Running /\ Running' = Running \cup {t}
      BY <2>3 DEF Spawn, IInv, Fresh, TypeOK, Running
    <3> QED  BY <2>1, <2>3, <3>1, FS_AddElement DEF Spawn
  <2>4. ASSUME NEW t \in Task, Release(t) PROVE tokens' = Cardinality(Running')
    <3>1. t \in Running /\ Running' = Running \ {t}
      BY <2>4 DEF Release, IInv, TypeOK, Running
    <3> QED  BY <2>1, <2>4, <3>1, FS_RemoveElement DEF Release
  <2>5. ASSUME NEW t \in Task, Close(t) PROVE tokens' = Cardinality(Running')
    <3>1. Running' = Running
      BY <2>5 DEF Close, IInv, TypeOK, Running
    <3> QED  BY <2>1, <2>5, <3>1 DEF Close
  <2>6. CASE UNCHANGED <<worker, tokens>>
    BY <2>1, <2>6 DEF Running
  <2> QED
    BY <2>3, <2>4, <2>5, <2>6
       DEF Next, Step, UnionAllAreal, Leaf, Sequentially, LeftReturned,
           RightReturned, Join, Terminated, vars
<1>3. IInv /\ TokenAccounting /\ [Next]_vars => TokenAccounting'
  BY <1>2
<1> QED  BY <1>1, <1>3, Invariance, PTL DEF Spec

-----------------------------------------------------------------------------
(* One step completes one task at most. *)
LEMMA OneFinishes ==
  ASSUME IInv, [Next]_vars, NEW t \in Task, NEW u \in Task, t # u,
         pc[t] # "done", pc'[t] = "done", pc[u] # "done"
  PROVE  pc'[u] # "done"
<1>1. pc \in [Task -> {"idle", "call", "left", "right", "join", "done"}]
  BY DEF IInv, TypeOK
<1>2. ASSUME NEW v \in Task, NEW o, Finish(v, o) PROVE pc'[u] # "done"
  BY <1>1, <1>2 DEF Finish
<1>3. \A v \in Task : Size(v) > 2 => Left(v) \in Task /\ Right(v) \in Task
  BY Halves
<1>4. \A v \in Task : pc[v] = "left" => Size(v) > 2
  BY DEF IInv, Progress
<1>5. ASSUME NEW v \in Task, Spawn(v) \/ Sequentially(v) PROVE pc'[u] # "done"
  BY <1>1, <1>3, <1>5 DEF Spawn, Sequentially
<1>6. ASSUME NEW v \in Task, LeftReturned(v) PROVE pc'[u] # "done"
  BY <1>1, <1>2, <1>3, <1>4, <1>6 DEF LeftReturned
<1>7. ASSUME NEW v \in Task, RightReturned(v) PROVE pc'[u] # "done"
  BY <1>1, <1>2, <1>7 DEF RightReturned
<1>8. ASSUME NEW v \in Task, Leaf(v) \/ Join(v) \/ Release(v) \/ Close(v)
      PROVE  pc'[u] # "done"
  BY <1>2, <1>8 DEF Leaf, Join, Release, Close
<1>9. ASSUME NEW c \in Callers, UnionAllAreal(c) PROVE pc'[u] # "done"
  BY <1>1, <1>9, TaskAssumption DEF UnionAllAreal
<1> QED
  BY <1>5, <1>6, <1>7, <1>8, <1>9 DEF Next, Step, Terminated, vars

Answered == [c \in Callers |-> IF pc[Root(c)] = "done" THEN res[Root(c)] ELSE None]
Wanted == [c \in Callers |-> Expected(Root(c))]

(* The goroutines, tokens and joins implement the promise made to callers: *)
(* each call is answered once, as if it had run alone and sequentially.    *)
THEOREM Implementation == Spec => ImplementsPromise
<1>1. Init => Promise!Init
  BY TaskAssumption DEF Init, Promise!Init, None
<1>2. ASSUME IInv, IInv', [Next]_vars
      PROVE  [Promise!Next]_<<Wanted, Answered>>
  <2> USE <1>2
  <2>1. Wanted' = Wanted
    BY DEF Wanted, Expected, Next, Step, UnionAllAreal, Leaf, Spawn, Sequentially,
       LeftReturned, RightReturned, Release, Close, Join, Terminated, vars
  <2>2. ASSUME NEW c \in Callers
        PROVE  /\ Root(c) \in Task
               /\ pc[Root(c)] = "done" => Answered'[c] = Answered[c]
               /\ pc'[Root(c)] # "done" => Answered'[c] = Answered[c]
    BY DoneStays, TaskAssumption DEF Answered
  <2>3. CASE \A c \in Callers : pc'[Root(c)] = "done" => pc[Root(c)] = "done"
    <3>1. Answered' = Answered
      BY <2>2, <2>3 DEF Answered
    <3> QED  BY <2>1, <3>1
  <2>4. ASSUME NEW c \in Callers, pc[Root(c)] # "done", pc'[Root(c)] = "done"
        PROVE  Promise!Next
    <3>1. \A d \in Callers \ {c} : Answered'[d] = Answered[d]
      <4> SUFFICES ASSUME NEW d \in Callers \ {c} PROVE Answered'[d] = Answered[d]
        OBVIOUS
      <4>1. Root(d) # Root(c)
        BY DEF Root
      <4> QED  BY <2>2, <2>4, <4>1, OneFinishes
    <3>2. Answered' = [Answered EXCEPT ![c] = Answered'[c]]
      BY <3>1 DEF Answered
    <3>3. Answered[c] = None /\ Answered'[c] = res'[Root(c)]
      BY <2>4 DEF Answered
    <3>4. /\ Agree(Answered'[c], Expected(Root(c))')
          /\ Answered'[c].kind \in {"ok", "err", "panic"}
      BY <2>2, <2>4, <3>3 DEF IInv, Answer
    <3>5. Expected(Root(c))' = Wanted[c]
      BY <2>1 DEF Wanted
    <3>6. Answered'[c] # None
      BY <3>4 DEF None
    <3>7. Promise!Agree(Answered'[c], Wanted[c])
      BY <3>4, <3>5 DEF Agree, Promise!Agree
    <3> QED
      BY <2>1, <3>2, <3>3, <3>6, <3>7
         DEF Promise!Next, Promise!Return, Answered, Wanted
  <2> QED  BY <2>3, <2>4
<1>3. IInv /\ IInv' /\ [Next]_vars => [Promise!Next]_<<Wanted, Answered>>
  BY <1>2
<1> QED
  BY <1>1, <1>3, Invariance, PTL
     DEF Spec, ImplementsPromise, Promise!Spec, Promise!vars, Wanted, Answered
=============================================================================
