SPECIFICATION FairSpec
CONSTANTS
  Recorders = {t1, t2}
  Readers = {t3}
  NoThread = NoThread
  NoKey = NoKey
  NoId = NoId
  Keys <- MCKeys
  MarkedIds <- MCMarkedIds
  OutputRequests <- MCOutputRequests
INVARIANTS
  TypeOK
  InternedOnce
  TableMatchesArena
  Topological
  ReplyNamesKey
  ViewsClosed
  MarksDistinct
PROPERTIES
  AppendOnly
  InternsAtomically
  LockReleased
