SPECIFICATION Spec
CONSTANTS
    Side = 3
    Predicates <- MCPredicates
    Operands <- Pairs
    Meet <- MCMeet
    Opening <- MCOpening
    Steps <- MCSteps
INVARIANT TypeOK
INVARIANT AnswerIsPointSet
PROPERTY AnswersAsPromised
