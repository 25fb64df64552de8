SPECIFICATION Spec
CONSTANTS
  MaxCoroutines = 3
  MaxSuspensions = 2
  PlainFrames = {p1}
  FinallyFrames = {q1}
  ThunkOps = {"break"}
INVARIANTS
  WellFormed
  DynamicContext
PROPERTIES
  FinallyBlocks
  FreesFinished
CHECK_DEADLOCK FALSE
