SPECIFICATION Spec
CONSTANTS
  MAGIC = "GIR1"
  OtherMagic = "GIR0"
  NameOrder <- MCNameOrder
  Ints <- MCInts
  Floats <- MCFloats
  NaNs <- MCNaNs
  Rounded <- MCRounded
  Uris <- MCUris
  NumEntries <- MCNumEntries
  Shapes <- MCShapes
  OutputLists <- MCOutputLists
  UriLists <- MCUriLists
  ChunkSizes = {2, 7}
  StepCounts = {3}
  Processes <- MCProcesses
  NoProcess = NoProcess
  MaxCalls = 3
  MaxPlanned = 2
  MaxSessions = 2
INVARIANTS
  LoadedIsGraph
  LoadsOrRefuses
  ListsWhatWasRecorded
  EntriesReadOnce
  SameIdSameWork
CHECK_DEADLOCK FALSE
