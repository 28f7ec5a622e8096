CONSTANTS
  NPages = 6
  PageSize = 3
  CardSize = 3
  LargeSpan = 99
  YoungPageCap = 1
  Id = {i1, i2, i3}
  Null = Null
  Root = {r1, r2}
  Static = {}
  Stack = {s1, s2}
  Handle = {}
  Cycles = {"minor"}
  G0Threshold = 1
  G1Threshold = 9
  StaleBound = 0
SPECIFICATION Spec
SYMMETRY Symmetry
INVARIANTS
  RememberedSet
CHECK_DEADLOCK FALSE
