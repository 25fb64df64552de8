SPECIFICATION ScanSpec
CONSTANTS
  BitsInWord = 3
  Size = 9
INVARIANTS
  VisitsMarked
  RangeFunctions
