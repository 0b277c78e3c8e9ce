CONSTANTS
  Width = 7
  Height = 5
  Tolerance = 2
  Inputs <- MCIsland
SPECIFICATION Spec
INVARIANT FacesClassified
