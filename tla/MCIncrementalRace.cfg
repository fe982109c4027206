SPECIFICATION Spec
CONSTANTS
  Threads = {t1, t2}
  NoThread = NoThread
  Shapes <- RaceShapes
  MaxNodes = 3
  MaxOutputs = 1
  Modes <- SingleUseOnly
INVARIANTS
  TypeOK
  WorkIsWatermark
  ConsumesInOrder
  FinalizeAccepts
