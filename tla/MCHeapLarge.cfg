CONSTANTS
  NPages = 9
  PageSize = 1
  CardSize = 1
  LargeSpan = 2
  YoungPageCap = 2
  Id = {i1, i2}
  Null = Null
  Root = {r1}
  Static = {}
  Stack = {}
  Handle = {}
  Cycles = {"minor", "full"}
  G0Threshold = 2
  G1Threshold = 1
  StaleBound = 0
SPECIFICATION Spec
SYMMETRY Symmetry
INVARIANTS
  RememberedSet
  BumpIsExclusive
PROPERTIES
  ImplementsManagedHeap
CHECK_DEADLOCK FALSE
