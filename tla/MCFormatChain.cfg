SPECIFICATION Spec
CONSTANTS
    Geometries0 <- MCGeometries
    Systems <- MCSystems
    MaxPasses = 3
INVARIANT LossIsByFormat
