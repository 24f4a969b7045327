SPECIFICATION Spec
CONSTANTS
  MCBlocks = 5
  BlockUnits = 2
  ScratchLen = 4
  MaxWriters = 2
  Layouts <- MCLayouts
CHECK_DEADLOCK FALSE
INVARIANTS
  OnlyFileDataMissing
  FinishedImageIsExact
  FillsAscend
PROPERTIES
  PoisonIsFinal
  ImplementsContract
  CallsReturn
