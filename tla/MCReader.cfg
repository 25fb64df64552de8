SPECIFICATION Spec
CONSTANTS
  Chars = {65, 255}
  MaxChars = 3
  InitialCapacity = 1
  EarlyInput = FALSE
INVARIANTS
  NothingMissing
  NoUseAfterFree
PROPERTIES
  SameContents
  Finishes
CHECK_DEADLOCK FALSE
