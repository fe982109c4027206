SPECIFICATION Spec
CONSTANTS
  Shapes <- RuleShapes
  MaxNodes = 4
  MaxOutputs = 2
  Modes <- BothModes
  AgainAllowed = FALSE
  MaxAgain = 0
INVARIANTS
  TypeOK
  ClassesForced
  ExtractionOrdered
  SaturatedIsIrredundant
  SemanticsPreserved
  ResultWellFormed
