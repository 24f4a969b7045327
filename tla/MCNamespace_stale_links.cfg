SPECIFICATION Spec
CONSTANTS
  a = a
  b = b
  Names = {a, b}
  LostFound = lostfound
  Sizes = {1}
  Metas = {m1}
  LinkMax = 4
  MaxSlots = 3
  MaxEntries = 3
  StaleHandles = TRUE
SYMMETRY Symmetry
CHECK_DEADLOCK FALSE
INVARIANTS
  LinkCountsMatch
