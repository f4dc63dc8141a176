\* A future is dropped before its task completes.
CONSTANTS
  t1 = t1
  t2 = t2
  t3 = t3
  main = main
  Nobody = Nobody
  Main <- MainIs
  Tasks <- TwoTasks
  MaxWorkers = 1
  Spawners <- OnlyMain
  Dropped <- TwoTasks
  Boxed <- None
  Panicking <- None
  Endless <- None
SPECIFICATION Spec
INVARIANT NoWriteToFreed
CHECK_DEADLOCK FALSE
