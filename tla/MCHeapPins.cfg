CONSTANTS
  NPages = 5
  PageSize = 2
  CardSize = 1
  LargeSpan = 99
  YoungPageCap = 1
  Id = {i1, i2}
  Null = Null
  Root = {r1}
  Static = {}
  Stack = {s1}
  Handle = {h1}
  Cycles = {"minor", "full"}
  G0Threshold = 2
  G1Threshold = 1
  StaleBound = 0
SPECIFICATION Spec
SYMMETRY Symmetry
INVARIANTS
  HeapClosed
  PinsSurvive
  YoungEmptyBeforeCompaction
PROPERTIES
  FullReclaims
  ImplementsManagedHeap
CHECK_DEADLOCK FALSE
