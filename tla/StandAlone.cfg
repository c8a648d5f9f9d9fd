SPECIFICATION Spec
CONSTANTS
  Mutations = {m1, m2}
  Extrinsics = {x1, x2}
  NoBlock = NoBlock
  CommitFails = FALSE
  MaxHash = 7
  MaxCache = 1
SYMMETRY Symmetry
INVARIANTS
  TypeOK
  ImportsMirrorChain
  CommittedSurvive
  NoExtrinsicLost
PROPERTIES
  ImplementsLedger
