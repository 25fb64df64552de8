SPECIFICATION Spec
CONSTANTS
  e1 = e1
  e2 = e2
  f1 = f1
  f2 = f2
  Files = {f1, f2}
  Entries = {e1, e2}
  FileOf <- MCFileOf
  Coroutines = {c1, c2}
  MaxDepth = 1
  Clients <- MCClients
  None = None
INVARIANTS
  WellFormed
  Inspection
PROPERTIES
  StopHolds
  StopsWhereDue
  Answered
CHECK_DEADLOCK FALSE
