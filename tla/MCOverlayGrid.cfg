CONSTANTS
  Width = 3
  Height = 3
  Tolerance = 2
  Inputs <- MCInputs
SPECIFICATION Spec
INVARIANTS
  TypeOK
  FacesClassified
  AnswerIsResult
  PolygonsAreValid
