SPECIFICATION MCSpec
CONSTANTS
  Vars = {x1, x2}
  Types <- MCTypes
  InitialSize = 16
  MaxSize = 24
  PageSize = 4
  NurseryFraction = 8
  HeapLimits = {}
  BitsInWord = 8
  Requests <- MCRequests
  MaxNested = 1
  MaxObjects = 4
SYMMETRY MCSymmetry
INVARIANTS
  WellFormed
  RememberedSet
  ToSpaceFits
PROPERTIES
  ImplementsObjectGraph
