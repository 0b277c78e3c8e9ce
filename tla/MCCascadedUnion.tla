-------------------------- MODULE MCCascadedUnion ---------------------------
(* Two callers share one worker pool; every combination of failing unions. *)
EXTENDS CascadedUnion, TLC

CONSTANTS c1, c2

MCNumGeoms == (c1 :> 6) @@ (c2 :> 3)

(* The task tree, top down. *)
Halves(S) == UNION {{Left(t), Right(t)} : t \in {s \in S : Size(s) > 2}}
MCTask ==
  LET level0 == {<<c1, 0, 6>>, <<c2, 0, 3>>}
      level1 == Halves(level0)
  IN  level0 \cup level1 \cup Halves(level1)

(* The two halves of the first tree both work, one or both panic, both     *)
(* fail, or one fails and the other panics; or the second caller's tree    *)
(* panics while the first works.                                           *)
MCFaults ==
  LET Fault(e) == [t \in MCTask |-> IF t \in DOMAIN e THEN e[t] ELSE "ok"]
      Halves2 == {<<"ok", "ok">>, <<"ok", "panic">>, <<"panic", "ok">>,
                  <<"panic", "panic">>, <<"err", "err">>, <<"err", "panic">>,
                  <<"panic", "err">>}
  IN  {Fault((<<c1, 1, 3>> :> h[1]) @@ (<<c1, 4, 6>> :> h[2])) : h \in Halves2}
        \cup {Fault(<<c2, 1, 3>> :> "panic")}

MCSequential ==
  [f \in MCFaults |->
     LET o[t \in Task] ==
           IF Size(t) <= 2 THEN LeafOutcome(f, t)
           ELSE SequentialStep(f, t, o[Left(t)], o[Right(t)])
     IN  o]
=============================================================================
