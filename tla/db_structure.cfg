SPECIFICATION Spec
CONSTANTS
  Threads = {t1, t2}
  Keys = {"k1", "k2"}
  Values = {"small", "big"}
  NumTables = 2
  TableOf <- OneTable
  KeyLen <- MCKeyLen
  ValueLen <- MCValueLen
  WordLen = 1
  CasLen = 1
  FlagsLen = 1
  MemLimit = 18
  WordMod = 64
  AllocMayFail = FALSE
  Calls <- StoreCalls
  MaxTime = 1
  MaxTimestamp = 3
SYMMETRY ThreadSymmetry
INVARIANTS TypeOK CandidateStaysValid EveryEntryEvictable StampsBelongToOneKey
PROPERTIES RelinkTouchesOwnKeyOnly
CHECK_DEADLOCK FALSE
