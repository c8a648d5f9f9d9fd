SPECIFICATION CompanionSpec
CONSTANTS
  first = first
  second = second
  Paras = {first, second}
  Order <- MCOrder
  Writes = {w1}
  None = None
  Faults = {"import", "commit", "read", "reject"}
  MaxRelayHash = 60
  MaxParaHash = 12
  MaxOnboard = 2
  MaxEvolves = 3
  MaxErrs = 2
INVARIANTS TwoEvolvesHeal
PROPERTIES HalfEnactedIsRetried
CHECK_DEADLOCK FALSE
