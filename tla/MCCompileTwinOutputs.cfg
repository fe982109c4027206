SPECIFICATION Spec
CONSTANTS
  Shapes <- OutputShapes
  MaxNodes = 4
  MaxOutputs = 2
  Modes <- SingleUseOnly
  AgainAllowed = FALSE
  MaxAgain = 0
INVARIANTS
  RequestedOutputsKept
