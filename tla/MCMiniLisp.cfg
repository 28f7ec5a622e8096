CONSTANTS
  Id = {i1, i2}
  Name = {x}
  Cycles <- MinorOrFull
  MaxArgs = 2
  MaxCells = 1
  MaxDepth = 2
  MaxStack = 3
  MaxFrames = 1
  AnyInit = FALSE
SPECIFICATION Spec
SYMMETRY Symmetry
INVARIANTS
  WordsNameTheirObjects
  StackDiscipline
PROPERTIES
  CollectionsAreInvisible
CHECK_DEADLOCK FALSE
