SPECIFICATION Spec
CONSTANTS
  MCDevice = 6
  MCRunLen = 3
  Starts = {0, 2}
  Ends = {6}
  ReservedLists <- MCReservedLists
  RequestSizes = {1, 2, 4}
  RunCaps = {1, 2, 9}
INVARIANTS
  GrantsAreFree
  GrantsAscend
  NoFreeBlockSkipped
PROPERTIES
  SplitsAreForced
  ImplementsSupply
  TakeReturns
