---------------------------- MODULE MCWorkerPool ----------------------------
(* Small instances of WorkerPool for TLC.                                  *)
EXTENDS WorkerPool, TLC

CONSTANTS t1, t2, t3, main

(* The main thread and the first task spawn; the program awaits what it    *)
(* spawns unless a run says otherwise.                                     *)
ThreeTasks == {t1, t2, t3}
TwoTasks == {t1, t2}
None == {}
OnlyMain == {main}
MainAndFirst == {main, t1}

MainIs == main

SymmetryTwo == Permutations({t2, t3})
=============================================================================
