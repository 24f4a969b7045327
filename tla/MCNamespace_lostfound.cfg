SPECIFICATION Spec
CONSTANTS
  a = a
  b = b
  Names = {a, b}
  LostFound = b
  Sizes = {1}
  Metas = {m1}
  LinkMax = 4
  MaxSlots = 3
  MaxEntries = 2
  StaleHandles = FALSE
CHECK_DEADLOCK FALSE
INVARIANTS
  NamesAreUnique
