SPECIFICATION Spec
CONSTANTS
  Paras = {p1, p2}
  Writes = {w}
  None = None
  Faults = {"import", "commit", "read", "reject"}
  MaxRelayHash = 6
  MaxParaHash = 4
  MaxOnboard = 2
SYMMETRY Symmetry
INVARIANTS ChainsIntact CollationsSound
CHECK_DEADLOCK FALSE
