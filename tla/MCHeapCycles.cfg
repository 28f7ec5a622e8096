CONSTANTS
  NPages = 6
  PageSize = 2
  CardSize = 2
  LargeSpan = 99
  YoungPageCap = 1
  Id = {i1, i2}
  Null = Null
  Root = {r1, r2}
  Static = {}
  Stack = {}
  Handle = {}
  Cycles = {"minor", "major", "full"}
  G0Threshold = 2
  G1Threshold = 2
  StaleBound = 0
SPECIFICATION Spec
SYMMETRY Symmetry
INVARIANTS
  TypeOK
  HeapClosed
  RememberedSet
  FreePagesListed
  BumpIsExclusive
PROPERTIES
  PromotionLeavesNothing
  ImplementsManagedHeap
CHECK_DEADLOCK FALSE
