SPECIFICATION Spec
CONSTANTS
  MAGIC = "GIR1"
  OtherMagic = "GIR0"
  NameOrder <- MCNameOrder
  Ints <- MCInts
  Floats <- MCFloats
  NaNs <- MCNaNs
  Rounded <- MCRounded
  Uris <- MCUris
  NumEntries <- MCNumEntries
  Shapes <- MCShapes
  OutputLists <- MCOutputLists
  UriLists <- MCUriLists
  ChunkSizes = {2, 7}
  StepCounts = {3}
  Processes <- MCProcesses
  NoProcess = NoProcess
  MaxCalls = 2
  MaxPlanned = 2
  MaxSessions = 1
INVARIANTS
  RoundTripIdentical
CHECK_DEADLOCK FALSE
