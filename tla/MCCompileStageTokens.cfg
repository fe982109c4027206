SPECIFICATION Spec
CONSTANTS
  Shapes <- StageShapes
  MaxNodes = 4
  MaxOutputs = 2
  Modes <- SingleUseOnly
  AgainAllowed = TRUE
  MaxAgain = 4
INVARIANTS
  ReductionSound
