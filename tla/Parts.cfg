SPECIFICATION PartsSpec
CONSTANTS
  Code = code
  TrieKeys = {tk}
  TrieVals = {t1, t2}
  Tries = {c1, c2}
  Infos = {i1, i2}
  NoStorage = NoStorage
  MaxInserts = 2
  Keys = {k1, k2}
  Vals = {v1, v2}
  MaxDepth = 3
  MaxOps = 4
  MaxRuns = 2
  Ids = {id1, id2}
  NoId = NoId
  MaxFields = 3
  MaxAttrs = 2
  ParaIds = {1, 2}
  Codes = {vc1, vc2, vc3}
  NoCode = NoCode
  MaxBlocks = 2
  MaxCalls = 4
  Mutations = {m1, m2}
  Extrinsics = {x1, x2}
  NoBlock = NoBlock
  MaxPoolHash = 5
  MaxCache = 1
  Writes = {w1, w2}
  MaxHash = 6
  MaxBuilt = 2
SYMMETRY Symmetry
INVARIANTS PartsTypeOK InsertOutcome AcceptsTheRight CodesResolvable AccountedOnce
PROPERTIES ClosureOutcome CodeHistoryKept OnlyDeepCommitsLoseFinal
CHECK_DEADLOCK FALSE
