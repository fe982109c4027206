SPECIFICATION Spec
CONSTANTS
  Threads = {t1}
  NoThread = NoThread
  Shapes <- RuleShapes
  MaxNodes = 5
  MaxOutputs = 1
  Modes <- SingleUseOnly
INVARIANT FinalizeMatchesReduce
