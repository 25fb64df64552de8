SPECIFICATION SpecWithRefcpy
CONSTANTS
  Vars = {x1, x2}
  Types = {"box"}
  InitialSize = 16
  MaxSize = 24
  PageSize = 4
  NurseryFraction = 8
  HeapLimits = {}
  BitsInWord = 8
  Requests = {0, 3}
  MaxNested = 1
  MaxObjects = 3
INVARIANTS
  WriteBarrier
