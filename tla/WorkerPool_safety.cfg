\* Three tasks, two workers; the main thread and the first task spawn and await.
CONSTANTS
  t1 = t1
  t2 = t2
  t3 = t3
  main = main
  Nobody = Nobody
  Main <- MainIs
  Tasks <- ThreeTasks
  MaxWorkers = 2
  Spawners <- MainAndFirst
  Dropped <- None
  Boxed <- ThreeTasks
  Panicking <- ThreeTasks
  Endless <- None
SPECIFICATION Spec
SYMMETRY SymmetryTwo
INVARIANTS TypeOK LastIsTail OnePlace CountersMatch NoLostWakeup NoWriteToFreed AwaitedInFull
PROPERTIES StartedInOrder FuturesKeepTheirPromise
\* A panic or an aborting await stops the process.
CHECK_DEADLOCK FALSE
