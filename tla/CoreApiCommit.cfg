SPECIFICATION ApiSpec
CONSTANTS
  w1 = w1
  w2 = w2
  Writes = {w1, w2}
  MaxHash = 5
  MaxBuilt = 2
SYMMETRY Symmetry
PROPERTY LatestMutationKeepsPast
CHECK_DEADLOCK FALSE
