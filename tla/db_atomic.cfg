SPECIFICATION Spec
CONSTANTS
  Threads = {t1, t2}
  Keys = {"k1"}
  Values = {"small"}
  NumTables = 2
  TableOf <- OneTable
  KeyLen <- MCKeyLen
  ValueLen <- MCValueLen
  WordLen = 1
  CasLen = 1
  FlagsLen = 1
  MemLimit = 60
  WordMod = 64
  AllocMayFail = FALSE
  Calls <- FlushCalls
  MaxTime = 1
  MaxTimestamp = 3
SYMMETRY ThreadSymmetry
PROPERTIES EngineSpec
CHECK_DEADLOCK FALSE
