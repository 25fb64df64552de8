SPECIFICATION Spec
CONSTANTS
  Entries = {e1, e2, e3}
  Coroutines = {c1, c2}
  MaxDepth = 1
  MaxSignals = 2
  None = None
INVARIANTS
  WellFormed
PROPERTIES
  StopsWhereDue
CHECK_DEADLOCK FALSE
