SPECIFICATION OverlaySpec
CONSTANTS
  Inputs <- MCInputs
  Calls <- MCCalls
INVARIANTS
  OverlayTypeOK
  AsFlattened
  AnswersAsSets
PROPERTY CallsAnswer
