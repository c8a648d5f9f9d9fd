SPECIFICATION Spec
CONSTANTS
  w1 = w1
  w2 = w2
  g = g
  h1 = h1
  h2 = h2
  Waiters = {w1, w2}
  Hashes = {g, h1, h2}
  Genesis = g
  Origins <- MCOrigins
  Announced <- MCAnnounced
INVARIANTS NoImportMissed
PROPERTY AnnouncedIsHeard
CHECK_DEADLOCK FALSE
