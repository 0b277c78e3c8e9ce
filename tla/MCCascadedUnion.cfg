CONSTANTS
  c1 = c1
  c2 = c2
  Callers = {c1, c2}
  NumGeoms <- MCNumGeoms
  Task <- MCTask
  Workers = 2
  Threshold = 3
  Faults <- MCFaults
  Sequential <- MCSequential
SPECIFICATION FairSpec
INVARIANTS
  TypeOK
  SameAsSequential
  TokenAccounting
  NoOrphanWithoutPanic
PROPERTIES
  ResultsAreStable
  EverythingSettles
  ImplementsPromise
