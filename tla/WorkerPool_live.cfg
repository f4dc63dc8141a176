\* The main thread spawns three tasks that return; two workers.
CONSTANTS
  t1 = t1
  t2 = t2
  t3 = t3
  main = main
  Nobody = Nobody
  Main <- MainIs
  Tasks <- ThreeTasks
  MaxWorkers = 2
  Spawners <- OnlyMain
  Dropped <- None
  Boxed <- None
  Panicking <- None
  Endless <- None
SPECIFICATION FairSpec
PROPERTIES EveryTaskCompletes AwaitReturns
\* A failure to start an OS thread stops the process.
CHECK_DEADLOCK FALSE
