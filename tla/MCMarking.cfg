SPECIFICATION Spec
CONSTANTS
  Objects <- MCObjects
  Stacks <- MCStacks
  HeapLimit = 8
  MarkingStackSize = 1
  BitsInLong = 2
  Graphs <- MCGraphs
  NoStack = NoStack
INVARIANTS
  TypeOK
  MarksOnlyReachable
  MarksAllReachable
  FreesDeadStacksOnly
PROPERTIES
  Terminates
