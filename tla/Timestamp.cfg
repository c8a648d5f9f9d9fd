SPECIFICATION Spec
CONSTANTS
  Threads = {t1, t2}
  Deltas = {0, 2}
  Starts = {0, 3}
  None = None
  MaxTime = 6
  SlotDuration = 2
  MaxInstances = 2
  MaxTicks = 2
  MaxResets = 1
SYMMETRY Symmetry
INVARIANTS TypeOK IdsNotShared NoTickLost NextTimeIsLater SlotsAdvance
CHECK_DEADLOCK FALSE
