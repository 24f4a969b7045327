SPECIFICATION Spec
CONSTANTS
  BlockUnits = 2
  MaxExtent = 2
  RootCapacity = 2
  NodeCapacity = 3
  LogicalSpan = 64
  Blocks = 60
  ReservedSets <- MCReserved
  Declarations <- MCDeclarations
CHECK_DEADLOCK FALSE
INVARIANTS
  ReadsBack
  WalkIsFaithful
  SearchFindsExtents
  TreeIsMinimal
