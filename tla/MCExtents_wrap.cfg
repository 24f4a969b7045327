SPECIFICATION Spec
CONSTANTS
  BlockUnits = 2
  MaxExtent = 2
  RootCapacity = 2
  NodeCapacity = 3
  LogicalSpan = 4
  Blocks = 60
  ReservedSets <- MCReserved
  Declarations <- MCWide
CHECK_DEADLOCK FALSE
INVARIANTS
  ExtentsAscend
