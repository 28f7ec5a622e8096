CONSTANTS
  Id = {i1, i2}
  Name = {x}
  Cycles <- PromotionOrMajor
  MaxArgs = 2
  MaxCells = 1
  MaxDepth = 2
  MaxStack = 3
  MaxFrames = 1
  AnyInit = TRUE
SPECIFICATION Spec
SYMMETRY Symmetry
INVARIANTS
  WordsNameTheirObjects
CHECK_DEADLOCK FALSE
