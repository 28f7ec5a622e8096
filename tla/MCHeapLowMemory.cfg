CONSTANTS
  NPages = 4
  PageSize = 2
  CardSize = 2
  LargeSpan = 99
  YoungPageCap = 2
  Id = {i1, i2, i3}
  Null = Null
  Root = {r1}
  Static = {}
  Stack = {}
  Handle = {}
  Cycles = {"minor"}
  G0Threshold = 1
  G1Threshold = 2
  StaleBound = 0
SPECIFICATION Spec
SYMMETRY Symmetry
INVARIANTS
  PointersFollowed
CHECK_DEADLOCK FALSE
