SPECIFICATION FairSpec
CONSTANTS
  Bytes <- Lengths
  Queries = {"get"}
  Streams <- PlainStreams
  BufferLen = 5
  UIntMod = 128
  SizeMod = 1024
PROPERTY EveryRequestHandled
CHECK_DEADLOCK FALSE
