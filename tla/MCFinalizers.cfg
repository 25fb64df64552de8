SPECIFICATION Spec
CONSTANTS
  MaxHandlers = 3
  MaxDepth = 2
  Sentinel = Sentinel
INVARIANTS
  WellFormed
PROPERTIES
  Finalized
