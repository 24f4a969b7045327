SPECIFICATION Spec
CONSTANTS
  ImageLens = {0, 4, 5}
  CallEnd = 6
  MaxCalls = 4
CHECK_DEADLOCK FALSE
INVARIANTS
  CoverageIsExact
  WholeImageIsWhole
PROPERTIES
  RefusesExactlyOverlaps
