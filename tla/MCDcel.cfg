CONSTANTS
  Vertex <- MCVertex
  HalfEdge <- MCHalfEdge
  Tag = {"subj", "clip"}
  Inputs <- MCInputs
  Sorted <- MCSorted
SPECIFICATION FairSpec
INVARIANTS
  TypeOK
  TwinsAgree
  OneFace
  FacesAreCycles
PROPERTIES
  NeverReassigned
  TraceEnds
