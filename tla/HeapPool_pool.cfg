SPECIFICATION Spec
CONSTANTS
  Null = Null
  SlotsPerPage = 1
  Builds = {FALSE, TRUE}
  AllocFails = TRUE
  MaxPages = 4
  MaxFields = 1
  MaxRefs = 1
INVARIANTS TypeOK FreeListExact ListSound RefCountsMatch SweepFreesAll
CHECK_DEADLOCK FALSE
