SPECIFICATION Spec
CONSTANTS
  Vars = {x, y, z}
  Objs = {o1, o2, o3}
  Null = Null
  Types = {A, B}
  Texts <- MCTexts
  MaxCaptures = 2
  Pinned = {FALSE, TRUE}
SYMMETRY Symmetric
INVARIANT FreedAsAllocated
CHECK_DEADLOCK FALSE
