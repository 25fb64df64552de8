SPECIFICATION Spec
CONSTANTS
  Pids = {101, 102}
  MaxForks = 2
  MaxStops = 1
  Failures = {"errpipe", "vfork", "setup", "exec", "fdopen"}
  Reuse = TRUE
INVARIANTS
  WellFormed
  StatusOfProcess
  UpToDate
  MaskRestored
PROPERTIES
  WaitReturns
CHECK_DEADLOCK FALSE
