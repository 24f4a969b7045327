SPECIFICATION VolumeSpec
CONSTANTS
  BlockUnits = 2
  GroupBlocks = 12
  GroupsPerFlex = 4
  GdtBlocks = 1
  InodesPerBlock = 2
  LostFoundIno = 4
  LostFoundBlocks = 2
  RootIno = 2
  JournalIno = 3
  DescsPerBlock = 5
  LogicalSpan = 64
  LossSizes = {}
  InlineExtents = 2
  PerLeaf = 2
  MaxExtent = 4
  MCFrom = 20
  MCTo = 60
  MCItables = {1, 2, 3}
  MCJournals = {1, 6, 9}
  Inputs <- MCAllInputs
CHECK_DEADLOCK FALSE
INVARIANTS
  NothingPastEnd
