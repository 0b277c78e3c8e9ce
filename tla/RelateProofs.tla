---------------------------- MODULE RelateProofs ----------------------------
(***************************************************************************)
(* One evaluation of the relate engine, proved for any operands, any tests *)
(* and any predicates.  The inductive invariant says that the matrix and   *)
(* the tests to come always make up the whole matrix; since entries are    *)
(* only raised, a predicate that is settled keeps its value.               *)
(***************************************************************************)
EXTENDS Relate, TLAPS

\* Raising entries keeps an entry above a concrete one of the pattern.
LEMMA ExceedsGrows ==
    ASSUME NEW m, NEW n, m \subseteq n, NEW cell, NEW entry, Exceeds(m, cell, entry)
    PROVE  Exceeds(n, cell, entry)
BY DEF Exceeds, AtLeast

\* A cell whose entry exceeds the pattern does not match it.
LEMMA ExceededNoMatch ==
    ASSUME NEW m, NEW pattern \in [Cells -> Entries], NEW cell \in Cells,
           Exceeds(m, cell, pattern[cell])
    PROVE  ~Matches(m, pattern)
<1>1. pattern[cell] \in -1..1
  BY DEF Exceeds
<1>2. ~CellMatches(m, cell, pattern[cell])
  <2> DEFINE e == pattern[cell]
  <2>1. e # DontCare /\ e # AtLeastPoint /\ e \in -1..2
    BY <1>1 DEF DontCare, AtLeastPoint
  <2>2. CellMatches(m, cell, e) = ((e >= 0 => AtLeast(m, cell, e)) /\ ~Exceeds(m, cell, e))
    BY <2>1 DEF CellMatches
  <2> QED
    BY <2>2
<1> QED
  BY <1>2 DEF Matches

\* An intersection is never undone.
LEMMA IntersectGrows ==
    ASSUME NEW m, NEW n, m \subseteq n, Intersect(m)
    PROVE  Intersect(n)
BY DEF Intersect, AtLeast

\* A predicate that a part of the matrix settles has the value of the whole
\* matrix (UpdateDimension returns early on it).
LEMMA SettledIsFinal ==
    ASSUME NEW p \in Predicates, NEW m, NEW n, m \subseteq n, Settles(p, m)
    PROVE  ValueOf(p, n) = ValueOf(p, m)
<1>1. p \in [kind : Kinds, pattern : [Cells -> Entries]]
  BY PredicatesAssumption
<1>2. CASE p.kind \in {"intersects", "disjoint"}
  <2>1. Intersect(m)
    BY <1>2 DEF Settles
  <2>2. Intersect(n)
    BY <2>1, IntersectGrows
  <2> QED
    BY <1>2, <2>1, <2>2 DEF ValueOf
<1>3. CASE p.kind = "pattern"
  <2>1. PICK cell \in Cells : Exceeds(m, cell, p.pattern[cell])
    BY <1>3 DEF Settles, IsDetermined
  <2>2. Exceeds(n, cell, p.pattern[cell])
    BY <2>1, ExceedsGrows
  <2>3. p.pattern \in [Cells -> Entries]
    BY <1>1
  <2>4. ~Matches(m, p.pattern) /\ ~Matches(n, p.pattern)
    BY <2>1, <2>2, <2>3, ExceededNoMatch
  <2> QED
    BY <1>3, <2>4 DEF ValueOf
<1> QED
  BY <1>1, <1>2, <1>3 DEF Settles

\* The facts of a sequence are those of its head and of its tail.
LEMMA FactsOfHead ==
    ASSUME NEW S, NEW q \in Seq(S)
    PROVE  FactsOf(<<>>) = {} /\ \A x : FactsOf(<<x>> \o q) = (UNION x) \cup FactsOf(q)
<1>1. FactsOf(<<>>) = {}
  BY DEF FactsOf
<1>2. ASSUME NEW x
      PROVE  FactsOf(<<x>> \o q) = (UNION x) \cup FactsOf(q)
  <2> DEFINE w == <<x>> \o q
  <2>0. q \in Seq(S \cup {x}) /\ <<x>> \in Seq(S \cup {x})
    OBVIOUS
  <2>1. Len(w) = Len(q) + 1 /\ DOMAIN w = 1..(Len(q) + 1) /\ DOMAIN q = 1..Len(q) /\ Len(q) \in Nat
    BY <2>0
  <2>2. w[1] = x
    BY <2>0
  <2>3. \A i \in 1..Len(q) : w[i + 1] = q[i]
    BY <2>0
  <2>4. \A i \in 2..(Len(q) + 1) : w[i] = q[i - 1] /\ i - 1 \in DOMAIN q
    BY <2>1, <2>3
  <2>5. {UNION w[i] : i \in DOMAIN w} = {UNION x} \cup {UNION q[i] : i \in DOMAIN q}
    <3>1. ASSUME NEW i \in DOMAIN w
          PROVE  UNION w[i] \in {UNION x} \cup {UNION q[j] : j \in DOMAIN q}
      <4>1. CASE i = 1
        BY <4>1, <2>2
      <4>2. CASE i # 1
        <5>1. i \in 2..(Len(q) + 1)
          BY <4>2, <2>1
        <5>2. w[i] = q[i - 1] /\ i - 1 \in DOMAIN q
          BY <5>1, <2>4
        <5> QED
          BY <5>2
      <4> QED
        BY <4>1, <4>2
    <3>2. ASSUME NEW j \in DOMAIN q
          PROVE  UNION q[j] \in {UNION w[i] : i \in DOMAIN w}
      <4>1. j + 1 \in DOMAIN w /\ w[j + 1] = q[j]
        BY <2>1, <2>3
      <4> QED
        BY <4>1
    <3>3. UNION x \in {UNION w[i] : i \in DOMAIN w}
      BY <2>1, <2>2
    <3> QED
      BY <3>1, <3>2, <3>3
  <2> QED
    BY <2>5 DEF FactsOf
<1> QED
  BY <1>1, <1>2

\* What a non-empty sequence of phases is made of.
LEMMA Split ==
    ASSUME NEW S, NEW q \in Seq(S), q # <<>>
    PROVE  /\ q[1] \in S
           /\ Tail(q) \in Seq(S)
           /\ q = <<q[1]>> \o Tail(q)
OBVIOUS

-----------------------------------------------------------------------------
\* Before the topology computer exists nothing is known but what the
\* envelopes say; after that the tests to come complete the matrix.
Unopened ==
    ~opened => /\ im = StartMatrix /\ todo = <<>>
               /\ answer = Unknown => value = Unknown
               /\ answer # Unknown => answer = Truth(query)

Complete ==
    opened => /\ ByEnvelopes(query) = Unknown
              /\ WholeMatrix(query) = im \cup FactsOf(todo)
              /\ value # Unknown => value = Truth(query)
              /\ answer # Unknown => answer = Truth(query)

IInv == TypeOK /\ Unopened /\ Complete

\* The parts a query is made of.
LEMMA QueryParts ==
    ASSUME NEW q \in Queries
    PROVE  /\ q.of \in Operands /\ q.predicate \in Predicates
           /\ Steps(q.of, q.predicate) \in Seq(SUBSET SUBSET Facts)
           /\ Opening(q.of) \subseteq Facts
           /\ ByEnvelopes(q) \in 0..2
BY OperandsAssumption DEF Queries, ByEnvelopes, Unknown, Known

\* The matrix starts with facts.
LEMMA StartIsFacts == StartMatrix \subseteq Facts
BY DEF StartMatrix, Facts, Locs

\* Settled keeps the type of the value, and gives the value of any matrix
\* that extends the one it looks at.
LEMMA SettledValue ==
    ASSUME NEW p \in Predicates, NEW m, NEW n, m \subseteq n, value \in 0..2,
           value # Unknown => value = Known(ValueOf(p, n))
    PROVE  /\ Settled(p, m) \in 0..2
           /\ Settled(p, m) # Unknown => Settled(p, m) = Known(ValueOf(p, n))
<1>1. CASE value = Unknown /\ Settles(p, m)
  BY <1>1, SettledIsFinal DEF Settled, Known, Unknown
<1>2. CASE ~(value = Unknown /\ Settles(p, m))
  BY <1>2 DEF Settled
<1> QED
  BY <1>1, <1>2

LEMMA InitIInv == Init => IInv
<1> SUFFICES ASSUME Init PROVE IInv
  OBVIOUS
<1>1. <<>> \in Seq(SUBSET SUBSET Facts)
  OBVIOUS
<1>2. TypeOK
  <2>1. query \in Queries /\ im \subseteq Facts
    BY StartIsFacts DEF Init
  <2>2. opened \in BOOLEAN
    BY DEF Init
  <2>3. value \in 0..2 /\ answer \in 0..2
    BY DEF Init, Unknown
  <2>4. todo \in Seq(SUBSET SUBSET Facts)
    BY <1>1, Zenon DEF Init
  <2> QED
    BY <2>1, <2>2, <2>3, <2>4 DEF TypeOK
<1> QED
  BY <1>2 DEF Init, IInv, Unopened, Complete

\* The engine's answer is of the whole matrix once the envelopes are passed.
LEMMA TruthOfWhole ==
    ASSUME NEW q, ByEnvelopes(q) = Unknown
    PROVE  Truth(q) = Known(ValueOf(q.predicate, WholeMatrix(q)))
BY DEF Truth

LEMMA OpenKeeps ==
    ASSUME IInv, Open
    PROVE  IInv'
<1> DEFINE p == query.predicate
<1>1. /\ query \in Queries /\ value = Unknown /\ im = StartMatrix /\ answer = Unknown
      /\ value \in 0..2 /\ im \subseteq Facts
  BY DEF IInv, Unopened, Open, TypeOK
<1>2. /\ p \in Predicates /\ Steps(query.of, p) \in Seq(SUBSET SUBSET Facts)
      /\ Opening(query.of) \subseteq Facts
  BY <1>1, QueryParts
<1>3. /\ im' = StartMatrix \cup Opening(query.of) /\ todo' = Steps(query.of, p)
      /\ value' = Settled(p, im') /\ opened' = TRUE /\ query' = query /\ answer' = answer
      /\ ByEnvelopes(query) = Unknown
  BY <1>1 DEF Open
<1>4. WholeMatrix(query) = im' \cup FactsOf(todo')
  BY <1>3 DEF WholeMatrix
<1>5. value' \in 0..2 /\ (value' # Unknown => value' = Known(ValueOf(p, WholeMatrix(query))))
  BY <1>1, <1>2, <1>3, <1>4, SettledValue
<1>6. TypeOK'
  BY <1>1, <1>2, <1>3, <1>5 DEF TypeOK, Unknown
<1>7. ByEnvelopes(query)' = ByEnvelopes(query) /\ WholeMatrix(query)' = WholeMatrix(query)
      /\ Truth(query)' = Truth(query)
  BY <1>3 DEF ByEnvelopes, WholeMatrix, Truth
<1>8. Complete'
  BY <1>1, <1>3, <1>4, <1>5, <1>7, TruthOfWhole DEF Complete, FactsOf
<1> QED
  BY <1>3, <1>6, <1>8 DEF IInv, Unopened

\* One test moves its facts from the tests to come to the matrix.
LEMMA TestKeeps ==
    ASSUME IInv, Test
    PROVE  IInv'
<1> DEFINE p == query.predicate
<1>1. /\ query \in Queries /\ value = Unknown /\ answer = Unknown
      /\ value \in 0..2 /\ im \subseteq Facts /\ todo \in Seq(SUBSET SUBSET Facts)
      /\ todo # <<>> /\ opened
  BY DEF IInv, Unopened, Test, TypeOK
<1>2. PICK update \in todo[1] :
        /\ im' = im \cup update
        /\ todo' = <<todo[1] \ {update}>> \o Tail(todo)
  BY DEF Test
<1>3. /\ value' = Settled(p, im') /\ query' = query /\ opened' = opened /\ answer' = answer
  BY DEF Test
<1>4. /\ todo[1] \in SUBSET SUBSET Facts /\ Tail(todo) \in Seq(SUBSET SUBSET Facts)
      /\ todo = <<todo[1]>> \o Tail(todo)
  BY <1>1, Split
<1>5. todo[1] \ {update} \in SUBSET SUBSET Facts /\ update \subseteq Facts
  BY <1>2, <1>4
<1>6. todo' \in Seq(SUBSET SUBSET Facts) /\ im' \subseteq Facts
  BY <1>1, <1>2, <1>4, <1>5
<1>7. FactsOf(todo) = (UNION todo[1]) \cup FactsOf(Tail(todo))
  BY <1>4, FactsOfHead
<1>8. FactsOf(todo') = (UNION (todo[1] \ {update})) \cup FactsOf(Tail(todo))
  BY <1>2, <1>4, FactsOfHead
<1>9. im' \cup FactsOf(todo') = im \cup FactsOf(todo)
  BY <1>2, <1>7, <1>8
<1>10. p \in Predicates
  BY <1>1, QueryParts
<1>11. WholeMatrix(query) = im' \cup FactsOf(todo') /\ ByEnvelopes(query) = Unknown
  BY <1>1, <1>9 DEF IInv, Complete
<1>12. value' \in 0..2 /\ (value' # Unknown => value' = Known(ValueOf(p, WholeMatrix(query))))
  BY <1>1, <1>3, <1>10, <1>11, SettledValue
<1>13. ByEnvelopes(query)' = ByEnvelopes(query) /\ WholeMatrix(query)' = WholeMatrix(query)
      /\ Truth(query)' = Truth(query)
  BY <1>3 DEF ByEnvelopes, WholeMatrix, Truth
<1>14. TypeOK'
  BY <1>1, <1>3, <1>6, <1>12 DEF TypeOK
<1>15. Complete'
  BY <1>1, <1>3, <1>11, <1>12, <1>13, TruthOfWhole DEF Complete, FactsOf
<1> QED
  BY <1>1, <1>3, <1>14, <1>15 DEF IInv, Unopened

LEMMA NextPhaseKeeps ==
    ASSUME IInv, NextPhase
    PROVE  IInv'
<1>1. /\ query \in Queries /\ value = Unknown /\ answer = Unknown
      /\ todo \in Seq(SUBSET SUBSET Facts) /\ todo # <<>> /\ opened /\ todo[1] = {}
      /\ todo' = Tail(todo)
      /\ UNCHANGED <<query, im, value, opened, answer>>
  BY DEF IInv, Unopened, NextPhase, TypeOK
<1>2. Tail(todo) \in Seq(SUBSET SUBSET Facts) /\ todo = <<todo[1]>> \o Tail(todo)
  BY <1>1, Split
<1>3. FactsOf(todo) = (UNION todo[1]) \cup FactsOf(Tail(todo))
  BY <1>2, FactsOfHead
<1>4. FactsOf(todo) = FactsOf(todo')
  BY <1>1, <1>3
<1>5. ByEnvelopes(query)' = ByEnvelopes(query) /\ WholeMatrix(query)' = WholeMatrix(query)
      /\ Truth(query)' = Truth(query)
  BY <1>1 DEF ByEnvelopes, WholeMatrix, Truth
<1>6. TypeOK'
  BY <1>1, <1>2 DEF IInv, TypeOK
<1>7. Complete'
  BY <1>1, <1>4, <1>5 DEF IInv, Complete, FactsOf
<1> QED
  BY <1>1, <1>6, <1>7 DEF IInv, Unopened

\* The answer of a return is that of the whole matrix.
LEMMA ReturnAnswers ==
    ASSUME IInv, Return
    PROVE  answer' = Truth(query) /\ answer' # Unknown /\ answer' \in 0..2
<1> DEFINE p == query.predicate
<1>1. ByEnvelopes(query) = Unknown /\ WholeMatrix(query) = im \cup FactsOf(todo) /\ value \in 0..2
  BY DEF IInv, Complete, Return, TypeOK
<1>2. CASE value # Unknown
  BY <1>1, <1>2 DEF IInv, Complete, Return
<1>3. CASE value = Unknown
  <2>1. todo = <<>> /\ answer' = Known(ValueOf(p, im))
    BY <1>3 DEF Return
  <2>2. FactsOf(<<>>) = {}
    BY DEF FactsOf
  <2>3. WholeMatrix(query) = im
    BY <1>1, <2>1, <2>2
  <2> QED
    BY <1>1, <2>1, <2>3, TruthOfWhole DEF Known, Unknown
<1> QED
  BY <1>2, <1>3

LEMMA ReturnKeeps ==
    ASSUME IInv, Return
    PROVE  IInv'
<1>1. /\ answer' = Truth(query) /\ answer' # Unknown /\ answer' \in 0..2
      /\ value' = answer' /\ opened
      /\ UNCHANGED <<query, im, opened, todo>>
  BY ReturnAnswers DEF Return
<1>2. ByEnvelopes(query)' = ByEnvelopes(query) /\ WholeMatrix(query)' = WholeMatrix(query)
      /\ Truth(query)' = Truth(query)
  BY <1>1 DEF ByEnvelopes, WholeMatrix, Truth
<1>3. TypeOK'
  BY <1>1 DEF IInv, TypeOK
<1>4. Complete'
  BY <1>1, <1>2 DEF IInv, Complete, FactsOf
<1> QED
  BY <1>1, <1>3, <1>4 DEF IInv, Unopened

LEMMA RefuseKeeps ==
    ASSUME IInv, Refuse
    PROVE  IInv' /\ answer' = Truth(query) /\ answer' # Unknown
<1>1. /\ query \in Queries /\ ~opened /\ ByEnvelopes(query) # Unknown
      /\ value' = ByEnvelopes(query) /\ answer' = ByEnvelopes(query)
      /\ UNCHANGED <<query, im, opened, todo>>
      /\ ByEnvelopes(query) \in 0..2
  BY QueryParts DEF IInv, TypeOK, Refuse
<1>2. Truth(query) = ByEnvelopes(query) /\ Truth(query)' = Truth(query)
  BY <1>1 DEF Truth, ByEnvelopes, WholeMatrix
<1>3. TypeOK'
  BY <1>1 DEF IInv, TypeOK
<1> QED
  BY <1>1, <1>2, <1>3 DEF IInv, Unopened, Complete

LEMMA StutterKeeps ==
    ASSUME IInv, UNCHANGED vars
    PROVE  IInv'
<1>1. UNCHANGED <<query, im, value, opened, todo, answer>>
  BY DEF vars
<1>2. ByEnvelopes(query)' = ByEnvelopes(query) /\ WholeMatrix(query)' = WholeMatrix(query)
      /\ Truth(query)' = Truth(query)
  BY <1>1 DEF ByEnvelopes, WholeMatrix, Truth
<1>3. TypeOK'
  BY <1>1 DEF IInv, TypeOK
<1> QED
  BY <1>1, <1>2, <1>3 DEF IInv, Unopened, Complete, FactsOf

\* Every step keeps the invariant.
LEMMA NextIInv == IInv /\ [Next]_vars => IInv'
BY OpenKeeps, TestKeeps, NextPhaseKeeps, ReturnKeeps, RefuseKeeps, StutterKeeps DEF Next, Over

LEMMA Invariance == Spec => []IInv
<1>1. Init => IInv
  BY InitIInv
<1>2. IInv /\ [Next]_vars => IInv'
  BY NextIInv
<1> QED
  BY <1>1, <1>2, PTL DEF Spec

\* Types, for every set of operands and tests: the matrix only ever holds
\* facts and the value is a triState (TopologyComputer, IMPredicate).
THEOREM TypesKept == Spec => []TypeOK
<1>1. IInv => TypeOK
  BY DEF IInv
<1> QED
  BY <1>1, Invariance, PTL

\* Every step of the engine is the one answer of the promise or a stutter.
LEMMA StepsAnswer == IInv /\ [Next]_vars => [Promise!Answer]_<<query, answer>>
<1> SUFFICES ASSUME IInv, [Next]_vars
             PROVE  [Promise!Answer]_<<query, answer>>
  OBVIOUS
<1>1. CASE Return
  <2>1. answer' = Truth(query) /\ answer' # Unknown /\ answer = Unknown /\ query' = query
    BY <1>1, ReturnAnswers DEF Return
  <2> QED
    BY <2>1 DEF Promise!Answer, Unknown
<1>2. CASE Refuse
  <2>1. answer' = Truth(query) /\ answer' # Unknown /\ answer = Unknown /\ query' = query
    BY <1>2, RefuseKeeps DEF Refuse
  <2> QED
    BY <2>1 DEF Promise!Answer, Unknown
<1>3. CASE Open \/ Test \/ NextPhase \/ Over \/ UNCHANGED vars
  BY <1>3 DEF Open, Test, NextPhase, Over, vars
<1> QED
  BY <1>1, <1>2, <1>3 DEF Next

\* The early answers of the engine are those of the whole matrix, whatever
\* the operands, the tests and the order in which they are made
\* (IMPatternMatcher.IsDetermined, the returns of Evaluate).
THEOREM EarlyAnswersRight == Spec => AnswersAsPromised
<1> DEFINE Seen == <<query, answer>>
<1>1. Init => Promise!Init
  BY DEF Init, Promise!Init, Unknown
<1>2. IInv /\ [Next]_vars => [Promise!Answer]_Seen
  BY StepsAnswer
<1>3. Spec => Promise!Init /\ [][Promise!Answer]_Seen
  BY <1>1, <1>2, Invariance, PTL DEF Spec
<1> QED
  BY <1>3 DEF AnswersAsPromised, Promise!Spec

=============================================================================
