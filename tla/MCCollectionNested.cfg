SPECIFICATION OverlaySpec
CONSTANTS
  Inputs <- MCMixed
  Calls = {}
INVARIANT NothingLost
