SPECIFICATION Spec
CONSTANTS
  Paras = {p1, p2}
  Writes = {w}
  None = None
  Faults = {"import"}
  MaxRelayHash = 7
  MaxParaHash = 4
  MaxOnboard = 2
SYMMETRY Symmetry
INVARIANTS TypeOK ApprovalCannotFail RelayImportsMirror PendingNotCanonical
PROPERTIES EnactedBeforeApproved
CHECK_DEADLOCK FALSE
