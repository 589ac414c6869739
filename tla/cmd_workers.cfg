CONSTANTS
  w1 = w1
  w2 = w2
  k1 = k1
  k2 = k2
  Threads = {w1, w2}
  Keys = {k1, k2}
  Values <- Value
  CasTokens <- Tokens
  NoCas = 0
  WordMod = 16
  UIntMod = 16
  Base = 2
  Threshold = 2
  StartTime = 4
  MaxTime = 5
  Scripts <- Requests
  MayEvict = TRUE
SPECIFICATION CSpec
INVARIANTS TypeOK UninterruptedIsAtomic   AnswersAreTrue ExpiryAsAsked
SYMMETRY Symmetric
CHECK_DEADLOCK FALSE
