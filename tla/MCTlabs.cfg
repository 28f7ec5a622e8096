CONSTANTS
  m1 = m1
  m2 = m2
  Mutator = {m1, m2}
  NPages = 4
  PageCells = 2
  YoungPageCap = 3
  InitialTlab = 2
  MaxTlab = 2
  FreeListBound = 4
  Uses <- BoxedAndSlab
  Sizes = {1}
  SlabSizes = {1}
  LargeSpans = {2}
  Evacuations <- MarkedOrNot
  Refusable = {1}
  MaxPins = 1
  None = None
SPECIFICATION UncutSpec
INVARIANTS
  TypeOK
  OneOwner
  HandsOutZeros
  WatermarkCovers
  RunsWhole
PROPERTIES
  ObjectsStay
  YoungWithinCap
CHECK_DEADLOCK FALSE
