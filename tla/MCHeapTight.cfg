CONSTANTS
  NPages = 3
  PageSize = 1
  CardSize = 1
  LargeSpan = 99
  YoungPageCap = 3
  Id = {i1, i2, i3}
  Null = Null
  Root = {r1}
  Static = {}
  Stack = {}
  Handle = {}
  Cycles = {"major"}
  G0Threshold = 1
  G1Threshold = 1
  StaleBound = 0
SPECIFICATION FairSpec
PROPERTIES
  CycleEnds
  ImplementsManagedHeap
CHECK_DEADLOCK FALSE
