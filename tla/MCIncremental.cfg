SPECIFICATION Spec
CONSTANTS
  Threads = {t1}
  NoThread = NoThread
  Shapes <- RuleShapes
  MaxNodes = 4
  MaxOutputs = 2
  Modes <- SingleUseOnly
INVARIANTS
  MapIsExact
  NothingLeftToMerge
  FinalizeKeepsMeaning
  FinalizeMatchesReduceIfLive
