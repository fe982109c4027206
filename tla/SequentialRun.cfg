SPECIFICATION Spec
CONSTANTS
  Uris = {u1, u2, u3}
  MaxOpen = 2
  TaskKeys = {1, 2}
  MaxTasks = 3
  MaxUses = 4
  MayInterrupt = TRUE
CHECK_DEADLOCK FALSE
INVARIANTS
  EventsInOrder
  StartsInKeyOrder
  FoldsInKeyOrder
  HandlesReleased
  CacheIsMostRecent
