---------------------------- MODULE RelateAnswer ----------------------------
(***************************************************************************)
(* What an evaluation of the relate engine promises: one answer for each   *)
(* query, the value of the predicate on the whole matrix of the operands,  *)
(* whatever the order of the tests and however early it is given.          *)
(***************************************************************************)
EXTENDS Integers

CONSTANTS Queries,   \* the evaluations: operands and predicate
          Truth(_)   \* the answer of each query: 1 is false and 2 is true

VARIABLES query, answer

Init == query \in Queries /\ answer = 0

Answer ==
    /\ answer = 0 /\ answer' # 0
    /\ answer' = Truth(query)
    /\ UNCHANGED query

Spec == Init /\ [][Answer]_<<query, answer>>

=============================================================================
