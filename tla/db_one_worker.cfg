SPECIFICATION Spec
CONSTANTS
  Threads = {t1}
  Keys = {"k1"}
  Values = {"small", "big"}
  NumTables = 2
  TableOf <- OneTable
  KeyLen <- MCKeyLen
  ValueLen <- MCValueLen
  WordLen = 1
  CasLen = 1
  FlagsLen = 1
  MemLimit = 18
  WordMod = 64
  AllocMayFail = TRUE
  Calls <- SequentialCalls
  MaxTime = 2
  MaxTimestamp = 5
  
PROPERTIES  CasReplacesWhatWasRead EngineSpec
CHECK_DEADLOCK FALSE
