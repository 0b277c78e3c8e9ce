SPECIFICATION Spec
CONSTANTS
    Side = 4
    Calls <- MCCalls
    Tolerance = 4
    MaxIter = 2
INVARIANT TypeOK
INVARIANT ChainsRight
INVARIANT LineworkKept
INVARIANT DanglesRight
INVARIANT FacesFound
INVARIANT LinesNoded
