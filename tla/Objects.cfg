SPECIFICATION Spec
CONSTANTS
  Vars = {x, y, z}
  Objs = {o1, o2, o3}
  Null = Null
  Types = {A, B}
  Texts <- MCTexts
  MaxCaptures = 2
  Pinned = {FALSE}
SYMMETRY Symmetric
INVARIANTS RcExact WellTyped LeaksAreCycles BackEndsAgree
CHECK_DEADLOCK FALSE
