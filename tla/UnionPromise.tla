---------------------------- MODULE UnionPromise ----------------------------
(***************************************************************************)
(* What overlay.UnaryUnion promises each of its callers, whatever the      *)
(* scheduling of its worker goroutines: a call returns once, and what it   *)
(* returns agrees with the outcome of the purely sequential recursion.     *)
(*                                                                         *)
(* "Agrees" is exact for a geometry and for an error.  For a panic only    *)
(* the fact that the call panics is promised: when both halves of a        *)
(* subtree panic the sequential code re-raises the left value and the      *)
(* parallel code the right one.                                            *)
(***************************************************************************)
CONSTANTS Callers,    \* goroutines that call UnaryUnion
          None        \* "the call has not returned"

VARIABLES expected,   \* expected[c]: the sequential outcome of c's call
          result      \* result[c]: what c's call returned

vars == <<expected, result>>

Agree(o, seq) == IF seq.kind = "panic" THEN o.kind = "panic" ELSE o = seq

Init == result = [c \in Callers |-> None]

Return(c) ==
  /\ result[c] = None
  /\ result'[c] # None
  /\ Agree(result'[c], expected[c])
  /\ result' = [result EXCEPT ![c] = result'[c]]
  /\ UNCHANGED expected

Next == \E c \in Callers : Return(c)

Spec == Init /\ [][Next]_vars
=============================================================================
