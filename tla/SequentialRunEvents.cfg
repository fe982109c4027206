SPECIFICATION Spec
CONSTANTS
  Uris = {u1}
  MaxOpen = 1
  TaskKeys = {1, 2}
  MaxTasks = 2
  MaxUses = 1
  MayInterrupt = FALSE
CHECK_DEADLOCK FALSE
INVARIANT StartedTasksEnd
