CONSTANTS
  Cap = 2
  NoKey = NoKey
  Procs = {g1, g2}
  Nobody = Nobody
  MaxCalls = 2
  Items = {i1, i2}
  NodeCapacity = 1
  Parts = {m1, m2}
  Whole = Whole
  s1 = s1
  s2 = s2
  s3 = s3
  pt1 = pt1
  pt2 = pt2
  Segments = {s1, s2, s3}
  Points = {pt1, pt2}
  Stabbed <- MCStabbed
  Triples <- MCTriples
  Exact <- MCExact
SPECIFICATION FairSpec
INVARIANTS
  TypeOK
  RingInStep
  AnswersRight
PROPERTIES
  PublishedStays
  CallsReturn
