SPECIFICATION FairSpec
CONSTANTS
  Bytes <- Lengths
  Queries = {"get"}
  Streams <- AllStreams
  BufferLen = 7
  UIntMod = 128
  SizeMod = 128
INVARIANTS TypeOK HandledAsSent NothingLost NeverAsksTooMuch
PROPERTY EveryRequestHandled
CHECK_DEADLOCK FALSE
