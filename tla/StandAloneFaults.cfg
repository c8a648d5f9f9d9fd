SPECIFICATION Spec
CONSTANTS
  Mutations = {m1, m2}
  Extrinsics = {x1, x2}
  NoBlock = NoBlock
  CommitFails = TRUE
  MaxHash = 6
  MaxCache = 1
SYMMETRY Symmetry
INVARIANTS
  ChainIntact
  PendingOnState
  NoReplay
  StateAccumulates
PROPERTIES
  OnlyTipChanges
