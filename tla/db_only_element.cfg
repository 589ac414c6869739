SPECIFICATION Spec
CONSTANTS
  Threads = {t1}
  Keys = {"k1", "k2"}
  Values = {"small"}
  NumTables = 2
  TableOf <- OneTable
  KeyLen <- MCKeyLen
  ValueLen <- MCValueLen
  WordLen = 1
  CasLen = 1
  FlagsLen = 1
  MemLimit = 12
  WordMod = 64
  AllocMayFail = FALSE
  Calls <- StoreCalls
  MaxTime = 1
  MaxTimestamp = 3
PROPERTIES OnlyElementEvicted
CHECK_DEADLOCK FALSE
