SPECIFICATION Spec
CONSTANTS
  a = a
  b = b
  Names = {a, b}
  LostFound = lostfound
  Sizes = {1}
  Metas = {m1}
  LinkMax = 4
  MaxSlots = 4
  MaxEntries = 2
  StaleHandles = FALSE
SYMMETRY Symmetry
CHECK_DEADLOCK FALSE
INVARIANTS
  LinkedFromLinked
  DeclaredBytesExact
  LinkCountsMatch
  DotDotIsInverse
  NamesAreUnique
