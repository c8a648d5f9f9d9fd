SPECIFICATION CompanionSpec
CONSTANTS
  first = first
  second = second
  Paras = {first, second}
  Order <- MCOrder
  Writes = {w1}
  None = None
  Faults = {}
  MaxRelayHash = 60
  MaxParaHash = 12
  MaxOnboard = 2
  MaxEvolves = 3
  MaxErrs = 1
INVARIANTS EvolveAdvancesAll NoPanic RelayParentsAdvance
PROPERTIES ApprovedIsEnacted BuiltIsImported ImplementsHeadSync
CHECK_DEADLOCK FALSE
