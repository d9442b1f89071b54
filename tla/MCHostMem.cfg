CONSTANTS
  Base = 2
  NotNumber = NotNumber
  None = None
  Mem = {m1, m2}
  SizeMod = 8
  User = {5, 6}
  MaxLen = 2
  May = {"dma", "struct"}
SPECIFICATION Spec
INVARIANTS BoundsExact BlocksOwned ReadsArea
PROPERTIES DmaReturned ImplementsArrays
SYMMETRY Symmetry
CHECK_DEADLOCK FALSE
