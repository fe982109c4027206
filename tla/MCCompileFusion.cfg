SPECIFICATION Spec
CONSTANTS
  Shapes <- FanOutShapes
  MaxNodes = 5
  MaxOutputs = 1
  Modes <- BothModes
  AgainAllowed = TRUE
  MaxAgain = 4
INVARIANTS
  SemanticsPreserved
  EachNodeOnce
  MaximalFusesMore
  ReportCountsRebuilt
  ReducedIsFixpoint
