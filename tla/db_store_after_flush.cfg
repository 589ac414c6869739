SPECIFICATION Spec
CONSTANTS
  Threads = {t1}
  Keys = {"k1", "k2"}
  Values = {"small"}
  NumTables = 2
  TableOf <- OneTable
  KeyLen <- MCKeyLen
  ValueLen <- MCValueLen
  WordLen = 1
  CasLen = 1
  FlagsLen = 1
  MemLimit = 60
  WordMod = 64
  AllocMayFail = FALSE
  Calls <- FlushCalls
  MaxTime = 1
  MaxTimestamp = 3
INVARIANTS StoredIsVisible
CHECK_DEADLOCK FALSE
