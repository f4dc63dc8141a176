SPECIFICATION FairSpec
CONSTANTS
  Null = Null
  SlotsPerPage = 3
  Builds = {FALSE}
  AllocFails = FALSE
  MaxPages = 1
  MaxFields = 2
  MaxRefs = 1
INVARIANTS RcExact NoDangling
PROPERTY ReleaseReturns
CHECK_DEADLOCK FALSE
