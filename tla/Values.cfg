SPECIFICATION Spec
CONSTANTS
  Vars = {x, y}
  NarrowBits = 2
  WordBits = 4
  RawNarrow = FALSE
  FloatOp <- MCFloatOp
  FloatHolds <- MCFloatHolds
INVARIANTS Represents PanicsAsMeant
CHECK_DEADLOCK FALSE
