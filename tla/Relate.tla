------------------------------- MODULE Relate -------------------------------
(***************************************************************************)
(* One evaluation of the relate engine (RelateNG.Evaluate): the envelopes  *)
(* may answer at once; otherwise the tests of the topology computer raise  *)
(* the matrix one after another, and after each of them the engine returns *)
(* if the predicate is settled.  A test is known by the facts it adds; the *)
(* module RelateSteps says which tests two operands give.                  *)
(***************************************************************************)
EXTENDS RelatePredicate, Sequences

CONSTANTS Operands,       \* the pairs of operands
          Meet(_),        \* the envelopes of a pair meet
          Opening(_),     \* what the dimensions of a pair alone say: facts
          Steps(_, _)     \* the tests of a pair under a predicate: a sequence
                          \* of sets of updates

ASSUME OperandsAssumption ==
    \A o \in Operands :
        /\ Meet(o) \in BOOLEAN
        /\ Opening(o) \subseteq Facts
        /\ \A p \in Predicates : Steps(o, p) \in Seq(SUBSET SUBSET Facts)

\* An evaluation: the operands and the predicate.
Queries == [of : Operands, predicate : Predicates]

\* The value of a predicate, as the code's triState.
Unknown == 0
Known(b) == IF b THEN 2 ELSE 1

\* InitEnv and the tests of Evaluate on the envelopes: operands that are
\* apart settle disjoint, and refuse what requires an interaction.
ByEnvelopes(q) ==
    IF Meet(q.of) THEN Unknown
    ELSE IF q.predicate.kind = "disjoint" THEN Known(TRUE)
    ELSE IF RequireInteraction(q.predicate) THEN Known(FALSE)
    ELSE Unknown

VARIABLES
    query,    \* the evaluation that runs
    im,       \* the matrix, as facts
    value,    \* the value of the predicate
    opened,   \* the topology computer exists
    todo,     \* the phases that remain, the current one first
    answer    \* what Evaluate returned, Unknown while it runs

vars == <<query, im, value, opened, todo, answer>>

Init ==
    /\ query \in Queries
    /\ im = StartMatrix
    /\ value = Unknown
    /\ opened = FALSE
    /\ todo = <<>>
    /\ answer = Unknown

\* UpdateDimension: the value is set once.
Settled(p, matrix) ==
    IF value = Unknown /\ Settles(p, matrix) THEN Known(ValueOf(p, matrix)) ELSE value

\* The envelopes answer.
Refuse ==
    /\ ~opened /\ answer = Unknown
    /\ ByEnvelopes(query) # Unknown
    /\ value' = ByEnvelopes(query)
    /\ answer' = value'
    /\ UNCHANGED <<query, im, opened, todo>>

\* NewTopologyComputer: the dimensions raise the exterior cells.
Open ==
    /\ ~opened /\ answer = Unknown
    /\ ByEnvelopes(query) = Unknown
    /\ opened' = TRUE
    /\ im' = im \cup Opening(query.of)
    /\ value' = Settled(query.predicate, im')
    /\ todo' = Steps(query.of, query.predicate)
    /\ UNCHANGED <<query, answer>>

\* One test of the current phase.
Test ==
    /\ answer = Unknown /\ value = Unknown
    /\ todo # <<>>
    /\ \E update \in todo[1] :
        /\ im' = im \cup update
        /\ todo' = <<todo[1] \ {update}>> \o Tail(todo)
    /\ value' = Settled(query.predicate, im')
    /\ UNCHANGED <<query, opened, answer>>

NextPhase ==
    /\ answer = Unknown /\ value = Unknown
    /\ todo # <<>> /\ todo[1] = {}
    /\ todo' = Tail(todo)
    /\ UNCHANGED <<query, im, value, opened, answer>>

\* Return early, or after Finish when no test is left.
Return ==
    /\ opened /\ answer = Unknown
    /\ value # Unknown \/ todo = <<>>
    /\ value' = IF value # Unknown THEN value ELSE Known(ValueOf(query.predicate, im))
    /\ answer' = value'
    /\ UNCHANGED <<query, im, opened, todo>>

\* The evaluation is over; any other state without a step is a deadlock.
Over == answer # Unknown /\ UNCHANGED vars

Next == Refuse \/ Open \/ Test \/ NextPhase \/ Return \/ Over

Spec == Init /\ [][Next]_vars

-----------------------------------------------------------------------------
\* The facts of a sequence of phases.
FactsOf(phases) == UNION {UNION phases[i] : i \in DOMAIN phases}

\* The matrix when every test has been made.
WholeMatrix(q) == StartMatrix \cup Opening(q.of) \cup FactsOf(Steps(q.of, q.predicate))

Truth(q) ==
    IF ByEnvelopes(q) # Unknown THEN ByEnvelopes(q)
    ELSE Known(ValueOf(q.predicate, WholeMatrix(q)))

\* Types: no phase adds anything that is not a fact.
TypeOK ==
    /\ query \in Queries
    /\ im \subseteq Facts
    /\ value \in 0..2
    /\ opened \in BOOLEAN
    /\ todo \in Seq(SUBSET SUBSET Facts)
    /\ answer \in 0..2

Promise == INSTANCE RelateAnswer

\* The engine implements its promise: whatever the order of the tests and
\* however early it returns, the one answer is that of the whole matrix.
\* (IMPatternMatcher.IsDetermined and the returns of Evaluate.)
AnswersAsPromised == Promise!Spec

=============================================================================
