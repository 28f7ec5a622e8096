CONSTANTS
  m1 = m1
  m2 = m2
  Mutator = {m1}
  NPages = 3
  PageCells = 2
  YoungPageCap = 3
  InitialTlab = 1
  MaxTlab = 1
  FreeListBound = 6
  Uses <- Boxed
  Sizes = {1}
  SlabSizes = {}
  LargeSpans = {2}
  Evacuations <- Marked
  Refusable = {}
  MaxPins = 1
  None = None
SPECIFICATION Spec
PROPERTIES
  ObjectsStay
CHECK_DEADLOCK FALSE
