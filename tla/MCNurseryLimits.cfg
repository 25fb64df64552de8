SPECIFICATION Spec
CONSTANTS
  Vars = {x1}
  Types = {"cell", "stack", "tracker"}
  InitialSize = 16
  MaxSize = 24
  PageSize = 4
  NurseryFraction = 8
  HeapLimits = {8}
  BitsInWord = 8
  Requests = {0, 3, 20, 24}
  MaxNested = 2
  MaxObjects = 3
INVARIANTS
  OutOfMemoryOnlyAtLimit
PROPERTIES
  ExtendHeapEnds
