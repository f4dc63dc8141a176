-------------------------- MODULE WorkerPoolProofs --------------------------
(***************************************************************************)
(* Proofs about spawn, the worker pool and shared futures, for any number  *)
(* of tasks and workers.                                                   *)
(***************************************************************************)
EXTENDS WorkerPool, FiniteSetTheorems, SequenceTheorems, TLAPS

(* A VM thread in a call of spawn or await is in it for a task.            *)
ArgIsTask ==
  \A a \in VmThreads : tpc[a] \notin {"off", "run"} => arg[a] \in Tasks

(* A worker has a task from its popFirst until it destroys it.             *)
AtTask == {"run", "send", "cas", "tag", "payload", "publish", "destroy"}

CurIsTask ==
  \A w \in Workers : cur[w] \in Tasks <=> wpc[w] \in AtTask

(* The OS threads are started in slot order.                               *)
SlotsInOrder ==
  \A w \in Workers : wpc[w] = "unborn" <=> w > num

TypeInv == TypeOK /\ ArgIsTask /\ CurIsTask /\ SlotsInOrder

(* The tasks that a VM thread is adding, those in the list, and those that *)
(* a worker has.                                                           *)
Adding(a) == tpc[a] \in {"lock", "request", "link"}
InSpawn == {t \in Tasks : \E a \in VmThreads : Adding(a) /\ arg[a] = t}
InQueue == {t \in Tasks : \E i \in DOMAIN queue : queue[i] = t}
InWorker == {t \in Tasks : \E w \in Workers : cur[w] = t}

(* A task is in each of these places once at most...                       *)
Once ==
  /\ \A a, b \in VmThreads : Adding(a) /\ Adding(b) /\ arg[a] = arg[b] => a = b
  /\ \A i, j \in DOMAIN queue : queue[i] = queue[j] => i = j
  /\ \A v, w \in Workers : cur[v] \in Tasks /\ cur[v] = cur[w] => v = w

(* ...and in one of the three only...                                      *)
Apart ==
  InSpawn \cap InQueue = {} /\ InSpawn \cap InWorker = {} /\ InQueue \cap InWorker = {}

(* ...from its spawn until its thread is destroyed, and not before or after. *)
LiveTasks == {t \in Tasks : thread[t] = "live"}

LiveIsPlaced ==
  /\ \A t \in Tasks : owner[t] = Nobody <=> thread[t] = "none"
  /\ InSpawn \cup InQueue \cup InWorker \subseteq LiveTasks
  /\ crash = "none" => LiveTasks \subseteq InSpawn \cup InQueue \cup InWorker

(* The VM thread of a task runs only while a worker calls its function.    *)
RunsInWorker ==
  \A t \in Tasks : tpc[t] # "off" => \E w \in Workers : cur[w] = t /\ wpc[w] = "run"

PlaceInv == LastIsTail /\ Once /\ Apart /\ LiveIsPlaced /\ RunsInWorker

-----------------------------------------------------------------------------
(* The list of tasks.                                                      *)

(* Linking at the last node appends.                                       *)
LEMMA LinkAfterLast ==
  ASSUME TypeInv, LastIsTail, Once, NEW t \in Tasks
  PROVE  LinkAfter(queue, last, t) = Append(queue, t)
<1> USE DEF TypeInv, TypeOK, LastIsTail, LinkAfter
<1>1. CASE queue = <<>>
  BY <1>1
<1>2. CASE queue # <<>>
  <2>1. /\ Len(queue) \in DOMAIN queue /\ queue[Len(queue)] = last
        /\ last # Nobody
    BY <1>2, WorkerPoolAssumption DEF VmThreads
  <2> DEFINE i == CHOOSE i \in DOMAIN queue : queue[i] = last
             f(k) == [j \in 1..(Len(queue) + 1) |->
                        IF j <= k THEN queue[j] ELSE IF j = k + 1 THEN t ELSE queue[j - 1]]
             q == [j \in 1..(Len(queue) + 1) |-> IF j <= Len(queue) THEN queue[j] ELSE t]
  <2>2. i = Len(queue)
    BY <2>1 DEF Once
  <2>3. LinkAfter(queue, last, t) = f(i)
    BY <2>1
  <2>4. q = f(Len(queue))
    OBVIOUS
  <2>5. LinkAfter(queue, last, t) = q
    <3> HIDE DEF f, i, q
    <3> QED BY <2>2, <2>3, <2>4
  <2>6. q \in Seq(Tasks) /\ Len(q) = Len(queue) + 1
    OBVIOUS
  <2>7. /\ Append(queue, t) \in Seq(Tasks) /\ Len(Append(queue, t)) = Len(queue) + 1
        /\ \A j \in 1..(Len(queue) + 1) : Append(queue, t)[j] = q[j]
    BY AppendProperties
  <2> HIDE DEF q
  <2>8. q = Append(queue, t)
    BY <2>6, <2>7, SeqEqual
  <2> QED
    BY <2>5, <2>8
<1> QED
  BY <1>1, <1>2

(* What add_thread_task leaves in the list.                                *)
LEMMA QueueLink ==
  ASSUME TypeInv, PlaceInv, NEW a \in VmThreads, LinkTask(a)
  PROVE  /\ arg[a] \in Tasks
         /\ queue' = Append(queue, arg[a])
         /\ queue' \in Seq(Tasks) /\ Len(queue') = Len(queue) + 1 /\ queue' # <<>>
         /\ \A i \in 1..Len(queue) : queue'[i] = queue[i]
         /\ queue'[Len(queue) + 1] = arg[a]
<1>1. arg[a] \in Tasks
  BY DEF TypeInv, ArgIsTask, LinkTask, Step
<1>2. queue' = Append(queue, arg[a])
  BY <1>1, LinkAfterLast DEF LinkTask, PlaceInv
<1> QED
  BY <1>1, <1>2, AppendProperties DEF TypeInv, TypeOK

(* The tasks in the list after a link, none of them twice.                 *)
LEMMA LinkMoves ==
  ASSUME TypeInv, PlaceInv, NEW a \in VmThreads, LinkTask(a)
  PROVE  /\ InQueue' = InQueue \cup {arg[a]}
         /\ \A i, j \in DOMAIN queue' : queue'[i] = queue'[j] => i = j
<1>1. queue \in Seq(Tasks) /\ DOMAIN queue = 1..Len(queue) /\ Len(queue) \in Nat
  BY DEF TypeInv, TypeOK
<1>2. DOMAIN queue' = 1..(Len(queue) + 1)
  BY <1>1, QueueLink
<1>3. \A i \in DOMAIN queue : queue'[i] = queue[i]
  BY <1>1, QueueLink
<1>4. queue'[Len(queue) + 1] = arg[a] /\ arg[a] \in Tasks
  BY QueueLink
<1>5. \A i \in DOMAIN queue' : i \in DOMAIN queue \/ i = Len(queue) + 1
  BY <1>1, <1>2
<1>6. InQueue' = InQueue \cup {arg[a]}
  BY <1>1, <1>2, <1>3, <1>4, <1>5 DEF InQueue
<1>7. arg[a] \in InSpawn
  BY <1>4 DEF InSpawn, Adding, LinkTask, Step
<1>8. \A i \in DOMAIN queue : queue[i] # arg[a]
  BY <1>4, <1>7 DEF PlaceInv, Apart, InQueue
<1> QED
  BY <1>1, <1>2, <1>3, <1>4, <1>5, <1>6, <1>8 DEF PlaceInv, Once

(* What popFirst takes and leaves.                                         *)
LEMMA QueuePop ==
  ASSUME TypeInv, NEW w \in Workers, WorkerPop(w)
  PROVE  /\ Head(queue) \in Tasks /\ Head(queue) = queue[1] /\ Len(queue) \in Nat \ {0}
         /\ queue' \in Seq(Tasks) /\ Len(queue') = Len(queue) - 1
         /\ \A i \in 1..Len(queue') : queue'[i] = queue[i + 1]
BY HeadTailProperties, EmptySeq DEF TypeInv, TypeOK, WorkerPop

(* The tasks in the list after a popFirst, none of them twice.             *)
LEMMA PopMoves ==
  ASSUME TypeInv, PlaceInv, NEW w \in Workers, WorkerPop(w)
  PROVE  /\ Head(queue) \in InQueue
         /\ InQueue' = InQueue \ {Head(queue)}
         /\ \A i, j \in DOMAIN queue' : queue'[i] = queue'[j] => i = j
<1> DEFINE n == Len(queue)
<1>1. /\ n \in Nat \ {0} /\ DOMAIN queue = 1..n /\ DOMAIN queue' = 1..(n - 1)
      /\ \A i \in 1..(n - 1) : queue'[i] = queue[i + 1]
      /\ queue[1] = Head(queue) /\ Head(queue) \in Tasks
  BY QueuePop DEF TypeInv, TypeOK
<1> HIDE DEF n
<1>2. \A i \in DOMAIN queue' : i + 1 \in DOMAIN queue /\ queue'[i] = queue[i + 1]
  BY <1>1
<1>3. \A i \in DOMAIN queue : i = 1 \/ (i - 1 \in DOMAIN queue' /\ queue'[i - 1] = queue[i])
  <2> SUFFICES ASSUME NEW i \in DOMAIN queue, i # 1
               PROVE  i - 1 \in DOMAIN queue' /\ queue'[i - 1] = queue[i]
    OBVIOUS
  <2>1. i - 1 \in DOMAIN queue' /\ (i - 1) + 1 = i
    BY <1>1
  <2> QED
    BY <1>2, <2>1
<1>4. \A i, j \in DOMAIN queue : queue[i] = queue[j] => i = j
  BY DEF PlaceInv, Once
<1>5. \A i, j \in DOMAIN queue' : queue'[i] = queue'[j] => i = j
  <2> SUFFICES ASSUME NEW i \in DOMAIN queue', NEW j \in DOMAIN queue', queue'[i] = queue'[j]
               PROVE  i = j
    OBVIOUS
  <2>1. i + 1 = j + 1
    BY <1>2, <1>4
  <2> QED
    BY <1>1, <2>1
<1>6. 1 \in DOMAIN queue /\ queue[1] = Head(queue) /\ Head(queue) \in Tasks
  BY <1>1
<1>7. \A i \in DOMAIN queue' : queue'[i] # Head(queue)
  <2> SUFFICES ASSUME NEW i \in DOMAIN queue', queue'[i] = Head(queue) PROVE FALSE
    OBVIOUS
  <2>1. i + 1 = 1
    BY <1>2, <1>4, <1>6
  <2> QED
    BY <1>1, <2>1
<1>8. InQueue' = InQueue \ {Head(queue)}
  <2>1. ASSUME NEW t \in InQueue' PROVE t \in InQueue \ {Head(queue)}
    BY <1>2, <1>7 DEF InQueue
  <2>2. ASSUME NEW t \in InQueue, t # Head(queue) PROVE t \in InQueue'
    BY <2>2, <1>3, <1>6 DEF InQueue
  <2> QED
    BY <2>1, <2>2
<1> QED
  BY <1>5, <1>6, <1>8 DEF InQueue

(* A popFirst that leaves a task leaves the last one.                      *)
LEMMA PopLast ==
  ASSUME TypeInv, NEW w \in Workers, WorkerPop(w), Len(queue) # 1
  PROVE  queue # <<>> /\ queue' # <<>> /\ queue'[Len(queue')] = queue[Len(queue)]
<1> DEFINE n == Len(queue)
<1>1. /\ n \in Nat \ {0, 1} /\ Len(queue') = n - 1
      /\ \A i \in 1..(n - 1) : queue'[i] = queue[i + 1]
  BY QueuePop
<1>2. queue # <<>> /\ queue' # <<>>
  BY <1>1
<1> HIDE DEF n
<1>3. n - 1 \in 1..(n - 1) /\ (n - 1) + 1 = n
  BY <1>1
<1>4. queue'[n - 1] = queue[n]
  BY <1>1, <1>3
<1> QED
  BY <1>1, <1>2, <1>4 DEF n

(* One more task in a place.                                               *)
LEMMA SpawnPlus ==
  ASSUME TypeInv, NEW a \in VmThreads, NEW t \in Tasks, ~Adding(a), Adding(a)', arg'[a] = t,
         \A b \in VmThreads \ {a} : (Adding(b)' <=> Adding(b)) /\ arg'[b] = arg[b]
  PROVE  InSpawn' = InSpawn \cup {t}
<1> HIDE DEF Adding
<1> QED
  BY DEF InSpawn

LEMMA WorkerPlus ==
  ASSUME TypeInv, NEW w \in Workers, NEW t \in Tasks, cur[w] \notin Tasks, cur'[w] = t,
         \A v \in Workers \ {w} : cur'[v] = cur[v]
  PROVE  InWorker' = InWorker \cup {t}
BY DEF InWorker

-----------------------------------------------------------------------------
(* Every step keeps the variables in their types.                          *)
LEMMA TypeInvStep ==
  ASSUME TypeInv, PlaceInv, [Next]_vars
  PROVE  TypeInv'
<1> USE DEF TypeInv, TypeOK, ArgIsTask, CurIsTask, SlotsInOrder, AtTask, TPCs,
           WPCs, Workers, VmThreads, Step, WStep, poolVars, futVars
<1>1. ASSUME NEW a \in VmThreads, NEW t \in Tasks, Spawn(a, t) PROVE TypeInv'
  BY <1>1 DEF Spawn
<1>2. ASSUME NEW a \in VmThreads, NEW t \in Tasks, Await(a, t) PROVE TypeInv'
  BY <1>2 DEF Await
<1>3. ASSUME NEW a \in VmThreads, NEW t \in Tasks, Drop(a, t) PROVE TypeInv'
  BY <1>3 DEF Drop
<1>4. ASSUME NEW a \in VmThreads, AddFails(a) PROVE TypeInv'
  BY <1>4 DEF AddFails
<1>5. ASSUME NEW a \in VmThreads, AddLock(a) PROVE TypeInv'
  BY <1>5 DEF AddLock
<1>6. ASSUME NEW a \in VmThreads, RequestWorker(a) PROVE TypeInv'
  <2>1. CASE NeedsWorker
    <3>1. num + 1 \in Workers /\ wpc[num + 1] = "unborn"
      BY <2>1, WorkerPoolAssumption DEF NeedsWorker
    <3>2. wpc' = [wpc EXCEPT ![num + 1] = "lock"] /\ num' = num + 1
      BY <1>6, <2>1 DEF RequestWorker
    <3>3. TypeOK'
      BY <1>6, <3>1, <3>2 DEF RequestWorker
    <3>4. SlotsInOrder'
      BY <3>1, <3>2
    <3>5. ArgIsTask' /\ CurIsTask'
      BY <1>6, <3>1, <3>2 DEF RequestWorker
    <3> QED BY <3>3, <3>4, <3>5
  <2>2. CASE ~NeedsWorker
    BY <1>6, <2>2 DEF RequestWorker
  <2> QED BY <2>1, <2>2
<1>7. ASSUME NEW a \in VmThreads, LinkTask(a) PROVE TypeInv'
  BY <1>7, QueueLink DEF LinkTask
<1>8. ASSUME NEW a \in VmThreads, Signal(a) PROVE TypeInv'
  <2>1. CASE Waiting = {}
    BY <1>8, <2>1 DEF Signal
  <2>2. CASE Waiting # {}
    <3>1. PICK w \in Waiting : wpc' = [wpc EXCEPT ![w] = "lock"]
      BY <1>8, <2>2 DEF Signal
    <3> QED BY <1>8, <3>1 DEF Signal, Waiting
  <2> QED BY <2>1, <2>2
<1>9. ASSUME NEW a \in VmThreads, AwaitDone(a) PROVE TypeInv'
  BY <1>9 DEF AwaitDone
<1>10. ASSUME NEW a \in VmThreads, AwaitAborts(a) PROVE TypeInv'
  BY <1>10 DEF AwaitAborts
<1>11. ASSUME NEW a \in VmThreads, ReadResult(a) PROVE TypeInv'
  BY <1>11 DEF ReadResult
<1>12. ASSUME NEW w \in Workers, WorkerLock(w) PROVE TypeInv'
  BY <1>12 DEF WorkerLock
<1>13. ASSUME NEW w \in Workers, WorkerPop(w) PROVE TypeInv'
  BY <1>13, QueuePop DEF WorkerPop
<1>14. ASSUME NEW w \in Workers, WorkerWait(w) PROVE TypeInv'
  BY <1>14 DEF WorkerWait
<1>15. ASSUME NEW w \in Workers, TaskReturns(w) PROVE TypeInv'
  BY <1>15 DEF TaskReturns
<1>16. ASSUME NEW w \in Workers, WorkerSent(w) PROVE TypeInv'
  BY <1>16 DEF WorkerSent
<1>17. ASSUME NEW w \in Workers, WorkerClaim(w) PROVE TypeInv'
  BY <1>17 DEF WorkerClaim
<1>18. ASSUME NEW w \in Workers, WorkerTag(w) PROVE TypeInv'
  BY <1>18 DEF WorkerTag
<1>19. ASSUME NEW w \in Workers, WorkerPayload(w) PROVE TypeInv'
  BY <1>19 DEF WorkerPayload
<1>20. ASSUME NEW w \in Workers, WorkerPublish(w) PROVE TypeInv'
  BY <1>20 DEF WorkerPublish
<1>21. ASSUME NEW w \in Workers, WorkerDestroy(w) PROVE TypeInv'
  BY <1>21, WorkerPoolAssumption DEF WorkerDestroy
<1>22. ASSUME NEW w \in Workers, WorkerRelock(w) PROVE TypeInv'
  BY <1>22 DEF WorkerRelock
<1>23. ASSUME NEW w \in Workers, SpuriousWakeup(w) PROVE TypeInv'
  BY <1>23 DEF SpuriousWakeup
<1>24. ASSUME NEW w \in Workers, TaskPanics(w) PROVE TypeInv'
  BY <1>24 DEF TaskPanics
<1>25. ASSUME MainEnds PROVE TypeInv'
  BY <1>25 DEF MainEnds
<1>26. CASE UNCHANGED vars
  BY <1>26 DEF vars
<1> QED BY <1>1, <1>2, <1>3, <1>4, <1>5, <1>6, <1>7, <1>8, <1>9, <1>10, <1>11,
           <1>12, <1>13, <1>14, <1>15, <1>16, <1>17, <1>18, <1>19, <1>20,
           <1>21, <1>22, <1>23, <1>24, <1>25, <1>26
    DEF Next, UserStep, InCall, WorkerStep, vars

(* The two ends of the list stay together.                                  *)
LEMMA LastIsTailStep ==
  ASSUME TypeInv, PlaceInv, [Next]_vars
  PROVE  LastIsTail'
<1> USE DEF TypeInv, TypeOK, ArgIsTask, CurIsTask, SlotsInOrder, AtTask, TPCs,
           WPCs, Workers, VmThreads, Step, WStep, poolVars, futVars, PlaceInv,
           LastIsTail
<1>1. ASSUME NEW a \in VmThreads, NEW t \in Tasks, Spawn(a, t) PROVE LastIsTail'
  BY <1>1 DEF Spawn
<1>2. ASSUME NEW a \in VmThreads, NEW t \in Tasks, Await(a, t) PROVE LastIsTail'
  BY <1>2 DEF Await
<1>3. ASSUME NEW a \in VmThreads, NEW t \in Tasks, Drop(a, t) PROVE LastIsTail'
  BY <1>3 DEF Drop
<1>4. ASSUME NEW a \in VmThreads, AddFails(a) PROVE LastIsTail'
  BY <1>4 DEF AddFails
<1>5. ASSUME NEW a \in VmThreads, AddLock(a) PROVE LastIsTail'
  BY <1>5 DEF AddLock
<1>6. ASSUME NEW a \in VmThreads, RequestWorker(a) PROVE LastIsTail'
  BY <1>6 DEF RequestWorker
<1>7. ASSUME NEW a \in VmThreads, LinkTask(a) PROVE LastIsTail'
  <2>1. last' = arg[a]
    BY <1>7 DEF LinkTask
  <2>2. queue' # <<>> /\ queue'[Len(queue')] = arg[a]
    BY <1>7, QueueLink
  <2> QED BY <2>1, <2>2
<1>8. ASSUME NEW a \in VmThreads, Signal(a) PROVE LastIsTail'
  BY <1>8 DEF Signal
<1>9. ASSUME NEW a \in VmThreads, AwaitDone(a) PROVE LastIsTail'
  BY <1>9 DEF AwaitDone
<1>10. ASSUME NEW a \in VmThreads, AwaitAborts(a) PROVE LastIsTail'
  BY <1>10 DEF AwaitAborts
<1>11. ASSUME NEW a \in VmThreads, ReadResult(a) PROVE LastIsTail'
  BY <1>11 DEF ReadResult
<1>12. ASSUME NEW w \in Workers, WorkerLock(w) PROVE LastIsTail'
  BY <1>12 DEF WorkerLock
<1>13. ASSUME NEW w \in Workers, WorkerPop(w) PROVE LastIsTail'
  <2>1. CASE Len(queue) = 1
    BY <1>13, <2>1, QueuePop DEF WorkerPop
  <2>2. CASE Len(queue) # 1
    <3>1. queue # <<>> /\ queue' # <<>> /\ queue'[Len(queue')] = queue[Len(queue)]
      BY <1>13, <2>2, PopLast
    <3> QED BY <1>13, <2>2, <3>1 DEF WorkerPop
  <2> QED BY <2>1, <2>2
<1>14. ASSUME NEW w \in Workers, WorkerWait(w) PROVE LastIsTail'
  BY <1>14 DEF WorkerWait
<1>15. ASSUME NEW w \in Workers, TaskReturns(w) PROVE LastIsTail'
  BY <1>15 DEF TaskReturns
<1>16. ASSUME NEW w \in Workers, WorkerSent(w) PROVE LastIsTail'
  BY <1>16 DEF WorkerSent
<1>17. ASSUME NEW w \in Workers, WorkerClaim(w) PROVE LastIsTail'
  BY <1>17 DEF WorkerClaim
<1>18. ASSUME NEW w \in Workers, WorkerTag(w) PROVE LastIsTail'
  BY <1>18 DEF WorkerTag
<1>19. ASSUME NEW w \in Workers, WorkerPayload(w) PROVE LastIsTail'
  BY <1>19 DEF WorkerPayload
<1>20. ASSUME NEW w \in Workers, WorkerPublish(w) PROVE LastIsTail'
  BY <1>20 DEF WorkerPublish
<1>21. ASSUME NEW w \in Workers, WorkerDestroy(w) PROVE LastIsTail'
  BY <1>21 DEF WorkerDestroy
<1>22. ASSUME NEW w \in Workers, WorkerRelock(w) PROVE LastIsTail'
  BY <1>22 DEF WorkerRelock
<1>23. ASSUME NEW w \in Workers, SpuriousWakeup(w) PROVE LastIsTail'
  BY <1>23 DEF SpuriousWakeup
<1>24. ASSUME NEW w \in Workers, TaskPanics(w) PROVE LastIsTail'
  BY <1>24 DEF TaskPanics
<1>25. ASSUME MainEnds PROVE LastIsTail'
  BY <1>25 DEF MainEnds
<1>26. CASE UNCHANGED vars
  BY <1>26 DEF vars
<1> QED BY <1>1, <1>2, <1>3, <1>4, <1>5, <1>6, <1>7, <1>8, <1>9, <1>10, <1>11,
           <1>12, <1>13, <1>14, <1>15, <1>16, <1>17, <1>18, <1>19, <1>20,
           <1>21, <1>22, <1>23, <1>24, <1>25, <1>26
    DEF Next, UserStep, InCall, WorkerStep, vars

(* A task is nowhere twice.                                                *)
LEMMA OnceStep ==
  ASSUME TypeInv, PlaceInv, [Next]_vars
  PROVE  Once'
<1> USE DEF TypeInv, TypeOK, ArgIsTask, CurIsTask, SlotsInOrder, AtTask, TPCs,
           WPCs, Workers, VmThreads, Step, WStep, poolVars, futVars, PlaceInv,
           Once, Apart, LiveIsPlaced, RunsInWorker, Adding, InSpawn, InQueue,
           InWorker
<1>1. ASSUME NEW a \in VmThreads, NEW t \in Tasks, Spawn(a, t) PROVE Once'
  <2>1. t \notin InSpawn
    BY <1>1, WorkerPoolAssumption DEF Spawn, LiveTasks
  <2>2. \A b \in VmThreads : Adding(b)' => b = a \/ (Adding(b) /\ arg'[b] = arg[b])
    BY <1>1 DEF Spawn
  <2>3. arg'[a] = t
    BY <1>1 DEF Spawn
  <2> QED BY <1>1, <2>1, <2>2, <2>3 DEF Spawn
<1>2. ASSUME NEW a \in VmThreads, NEW t \in Tasks, Await(a, t) PROVE Once'
  BY <1>2, WorkerPoolAssumption DEF Await
<1>3. ASSUME NEW a \in VmThreads, NEW t \in Tasks, Drop(a, t) PROVE Once'
  BY <1>3, WorkerPoolAssumption DEF Drop
<1>4. ASSUME NEW a \in VmThreads, AddFails(a) PROVE Once'
  <2>1. tpc' = [tpc EXCEPT ![a] = "off"] /\ UNCHANGED <<arg, queue, cur>> /\ a \in VmThreads
    BY <1>4 DEF AddFails
  <2> QED
    BY <2>1, WorkerPoolAssumption
<1>5. ASSUME NEW a \in VmThreads, AddLock(a) PROVE Once'
  BY <1>5, WorkerPoolAssumption DEF AddLock
<1>6. ASSUME NEW a \in VmThreads, RequestWorker(a) PROVE Once'
  BY <1>6, WorkerPoolAssumption DEF RequestWorker
<1>7. ASSUME NEW a \in VmThreads, LinkTask(a) PROVE Once'
  <2>1. \A b \in VmThreads : Adding(b)' => Adding(b)
    BY <1>7 DEF LinkTask
  <2>2. \A i, j \in DOMAIN queue' : queue'[i] = queue'[j] => i = j
    BY <1>7, LinkMoves
  <2> QED BY <1>7, <2>1, <2>2 DEF LinkTask
<1>8. ASSUME NEW a \in VmThreads, Signal(a) PROVE Once'
  BY <1>8, WorkerPoolAssumption DEF Signal
<1>9. ASSUME NEW a \in VmThreads, AwaitDone(a) PROVE Once'
  BY <1>9, WorkerPoolAssumption DEF AwaitDone
<1>10. ASSUME NEW a \in VmThreads, AwaitAborts(a) PROVE Once'
  BY <1>10, WorkerPoolAssumption DEF AwaitAborts
<1>11. ASSUME NEW a \in VmThreads, ReadResult(a) PROVE Once'
  BY <1>11, WorkerPoolAssumption DEF ReadResult
<1>12. ASSUME NEW w \in Workers, WorkerLock(w) PROVE Once'
  BY <1>12, WorkerPoolAssumption DEF WorkerLock
<1>13. ASSUME NEW w \in Workers, WorkerPop(w) PROVE Once'
  <2>1. \A i, j \in DOMAIN queue' : queue'[i] = queue'[j] => i = j
    BY <1>13, PopMoves
  <2>2. \A v \in Workers : cur[v] # Head(queue)
    <3>1. Head(queue) \in InQueue
      BY <1>13, PopMoves
    <3>2. Head(queue) \notin InWorker /\ Head(queue) \in Tasks
      BY <3>1
    <3> QED BY <3>2
  <2>3. \A v, u \in Workers : cur'[v] \in Tasks /\ cur'[v] = cur'[u] => v = u
    BY <1>13, <2>2, QueuePop DEF WorkerPop
  <2>4. Head(queue) \notin InSpawn /\ \A b \in VmThreads : (Adding(b))' => Adding(b)
    BY <1>13, PopMoves DEF WorkerPop
  <2> QED BY <1>13, <2>1, <2>3, <2>4, QueuePop DEF WorkerPop
<1>14. ASSUME NEW w \in Workers, WorkerWait(w) PROVE Once'
  BY <1>14, WorkerPoolAssumption DEF WorkerWait
<1>15. ASSUME NEW w \in Workers, TaskReturns(w) PROVE Once'
  BY <1>15, WorkerPoolAssumption DEF TaskReturns
<1>16. ASSUME NEW w \in Workers, WorkerSent(w) PROVE Once'
  BY <1>16, WorkerPoolAssumption DEF WorkerSent
<1>17. ASSUME NEW w \in Workers, WorkerClaim(w) PROVE Once'
  BY <1>17, WorkerPoolAssumption DEF WorkerClaim
<1>18. ASSUME NEW w \in Workers, WorkerTag(w) PROVE Once'
  BY <1>18, WorkerPoolAssumption DEF WorkerTag
<1>19. ASSUME NEW w \in Workers, WorkerPayload(w) PROVE Once'
  BY <1>19, WorkerPoolAssumption DEF WorkerPayload
<1>20. ASSUME NEW w \in Workers, WorkerPublish(w) PROVE Once'
  BY <1>20, WorkerPoolAssumption DEF WorkerPublish
<1>21. ASSUME NEW w \in Workers, WorkerDestroy(w) PROVE Once'
  BY <1>21, WorkerPoolAssumption DEF WorkerDestroy
<1>22. ASSUME NEW w \in Workers, WorkerRelock(w) PROVE Once'
  BY <1>22, WorkerPoolAssumption DEF WorkerRelock
<1>23. ASSUME NEW w \in Workers, SpuriousWakeup(w) PROVE Once'
  BY <1>23, WorkerPoolAssumption DEF SpuriousWakeup
<1>24. ASSUME NEW w \in Workers, TaskPanics(w) PROVE Once'
  BY <1>24, WorkerPoolAssumption DEF TaskPanics
<1>25. ASSUME MainEnds PROVE Once'
  BY <1>25, WorkerPoolAssumption DEF MainEnds
<1>26. CASE UNCHANGED vars
  BY <1>26, WorkerPoolAssumption DEF vars
<1> HIDE DEF Once
<1> QED BY <1>1, <1>2, <1>3, <1>4, <1>5, <1>6, <1>7, <1>8, <1>9, <1>10, <1>11,
           <1>12, <1>13, <1>14, <1>15, <1>16, <1>17, <1>18, <1>19, <1>20,
           <1>21, <1>22, <1>23, <1>24, <1>25, <1>26
    DEF Next, UserStep, InCall, WorkerStep, vars

-----------------------------------------------------------------------------
(* A step moves at most one task from one place to the next.               *)
Places(S, Q, W) == InSpawn' = S /\ InQueue' = Q /\ InWorker' = W

Stays ==
  Places(InSpawn, InQueue, InWorker) /\ UNCHANGED <<owner, thread>> /\ crash = "none"

IsSpawned(t) ==
  /\ crash = "none"
  /\ owner[t] = Nobody
  /\ Places(InSpawn \cup {t}, InQueue, InWorker)
  /\ thread' = [thread EXCEPT ![t] = "live"]
  /\ \E a \in VmThreads : owner' = [owner EXCEPT ![t] = a]

IsQueued(t) ==
  /\ crash = "none"
  /\ t \in InSpawn
  /\ Places(InSpawn \ {t}, InQueue \cup {t}, InWorker)
  /\ UNCHANGED <<owner, thread>>

IsPopped(t) ==
  /\ crash = "none"
  /\ t \in InQueue
  /\ Places(InSpawn, InQueue \ {t}, InWorker \cup {t})
  /\ UNCHANGED <<owner, thread>>

IsDestroyed(t) ==
  /\ crash = "none"
  /\ t \in InWorker
  /\ Places(InSpawn, InQueue, InWorker \ {t})
  /\ thread' = [thread EXCEPT ![t] = "freed"]
  /\ UNCHANGED owner

IsRefused(t) ==
  /\ Places(InSpawn \ {t}, InQueue, InWorker)
  /\ crash' # "none"
  /\ UNCHANGED <<owner, thread>>

Moves ==
  \/ Stays
  \/ \E t \in Tasks : \/ IsSpawned(t) \/ IsQueued(t) \/ IsPopped(t)
                      \/ IsDestroyed(t) \/ IsRefused(t)

(* Each action is one of these moves.                                       *)
LEMMA MovesStep ==
  ASSUME TypeInv, PlaceInv, [Next]_vars
  PROVE  Moves \/ UNCHANGED vars
<1> USE DEF TypeInv, TypeOK, ArgIsTask, CurIsTask, SlotsInOrder, AtTask, TPCs,
           WPCs, Workers, VmThreads, Step, WStep, poolVars, futVars, PlaceInv,
           Once, RunsInWorker, Adding, InSpawn, InQueue, InWorker, Places
<1>1. ASSUME NEW a \in VmThreads, NEW t \in Tasks, Spawn(a, t) PROVE Moves \/ UNCHANGED vars
  <2>1. Adding(a)' /\ ~Adding(a) /\ \A b \in VmThreads \ {a} : Adding(b)' <=> Adding(b)
    BY <1>1 DEF Spawn
  <2>2. arg'[a] = t /\ \A b \in VmThreads \ {a} : arg'[b] = arg[b]
    BY <1>1 DEF Spawn
  <2>3. InSpawn' = InSpawn \cup {t}
    <3> HIDE DEF Adding
    <3> QED BY <2>1, <2>2, SpawnPlus DEF TypeInv
  <2>4. InQueue' = InQueue /\ InWorker' = InWorker
    BY <1>1 DEF Spawn
  <2>5. IsSpawned(t)
    BY <1>1, <2>3, <2>4 DEF Spawn, IsSpawned
  <2> QED BY <2>5 DEF Moves
<1>2. ASSUME NEW a \in VmThreads, NEW t \in Tasks, Await(a, t) PROVE Moves \/ UNCHANGED vars
  BY <1>2 DEF Await, Moves, Stays
<1>3. ASSUME NEW a \in VmThreads, NEW t \in Tasks, Drop(a, t) PROVE Moves \/ UNCHANGED vars
  BY <1>3 DEF Drop, Moves, Stays
<1>4. ASSUME NEW a \in VmThreads, AddFails(a) PROVE Moves \/ UNCHANGED vars
  <2>1. PICK t \in Tasks : t = arg[a]
    BY <1>4 DEF AddFails
  <2>2. IsRefused(t)
    BY <1>4, <2>1 DEF AddFails, IsRefused
  <2> QED BY <2>2 DEF Moves
<1>5. ASSUME NEW a \in VmThreads, AddLock(a) PROVE Moves \/ UNCHANGED vars
  BY <1>5 DEF AddLock, Moves, Stays
<1>6. ASSUME NEW a \in VmThreads, RequestWorker(a) PROVE Moves \/ UNCHANGED vars
  BY <1>6 DEF RequestWorker, Moves, Stays
<1>7. ASSUME NEW a \in VmThreads, LinkTask(a) PROVE Moves \/ UNCHANGED vars
  <2>1. PICK t \in Tasks : t = arg[a]
    BY <1>7, QueueLink
  <2>2. InQueue' = InQueue \cup {t}
    BY <1>7, <2>1, LinkMoves
  <2>3. InSpawn' = InSpawn \ {t} /\ t \in InSpawn
    BY <1>7, <2>1 DEF LinkTask
  <2>4. InWorker' = InWorker /\ UNCHANGED <<owner, thread, crash>> /\ crash = "none"
    BY <1>7 DEF LinkTask
  <2>5. IsQueued(t)
    <3> HIDE DEF InSpawn, InQueue, InWorker
    <3> QED BY <2>2, <2>3, <2>4 DEF IsQueued
  <2> QED BY <2>5 DEF Moves
<1>8. ASSUME NEW a \in VmThreads, Signal(a) PROVE Moves \/ UNCHANGED vars
  BY <1>8 DEF Signal, Waiting, Moves, Stays
<1>9. ASSUME NEW a \in VmThreads, AwaitDone(a) PROVE Moves \/ UNCHANGED vars
  BY <1>9 DEF AwaitDone, Moves, Stays
<1>10. ASSUME NEW a \in VmThreads, AwaitAborts(a) PROVE Moves \/ UNCHANGED vars
  BY <1>10 DEF AwaitAborts, Moves, Stays
<1>11. ASSUME NEW a \in VmThreads, ReadResult(a) PROVE Moves \/ UNCHANGED vars
  BY <1>11 DEF ReadResult, Moves, Stays
<1>12. ASSUME NEW w \in Workers, WorkerLock(w) PROVE Moves \/ UNCHANGED vars
  BY <1>12 DEF WorkerLock, Moves, Stays
<1>13. ASSUME NEW w \in Workers, WorkerPop(w) PROVE Moves \/ UNCHANGED vars
  <2>1. PICK t \in Tasks : t = Head(queue)
    BY <1>13, QueuePop
  <2>2. InQueue' = InQueue \ {t} /\ t \in InQueue
    BY <1>13, <2>1, PopMoves
  <2>3. cur'[w] = t /\ cur[w] \notin Tasks /\ \A v \in Workers \ {w} : cur'[v] = cur[v]
    <3>1. cur' = [cur EXCEPT ![w] = t] /\ wpc[w] = "pop"
      BY <1>13, <2>1 DEF WorkerPop
    <3>2. cur[w] \notin Tasks
      BY <3>1
    <3>3. cur'[w] = t
      BY <3>1
    <3>4. \A v \in Workers \ {w} : cur'[v] = cur[v]
      BY <3>1
    <3> QED BY <3>2, <3>3, <3>4
  <2>4. InWorker' = InWorker \cup {t}
    BY <2>3, WorkerPlus DEF TypeInv
  <2>5. ~Adding(t) /\ ~Adding(t)' /\ \A b \in VmThreads \ {t} : Adding(b)' <=> Adding(b)
    BY <1>13, <2>1, <2>2 DEF WorkerPop, Apart
  <2>6. InSpawn' = InSpawn
    BY <1>13, <2>5 DEF WorkerPop
  <2>7. IsPopped(t)
    BY <1>13, <2>2, <2>4, <2>6 DEF WorkerPop, IsPopped
  <2> QED BY <2>7 DEF Moves
<1>14. ASSUME NEW w \in Workers, WorkerWait(w) PROVE Moves \/ UNCHANGED vars
  BY <1>14 DEF WorkerWait, Moves, Stays
<1>15. ASSUME NEW w \in Workers, TaskReturns(w) PROVE Moves \/ UNCHANGED vars
  BY <1>15 DEF TaskReturns, Moves, Stays
<1>16. ASSUME NEW w \in Workers, WorkerSent(w) PROVE Moves \/ UNCHANGED vars
  BY <1>16 DEF WorkerSent, Moves, Stays
<1>17. ASSUME NEW w \in Workers, WorkerClaim(w) PROVE Moves \/ UNCHANGED vars
  BY <1>17 DEF WorkerClaim, Moves, Stays
<1>18. ASSUME NEW w \in Workers, WorkerTag(w) PROVE Moves \/ UNCHANGED vars
  BY <1>18 DEF WorkerTag, Moves, Stays
<1>19. ASSUME NEW w \in Workers, WorkerPayload(w) PROVE Moves \/ UNCHANGED vars
  BY <1>19 DEF WorkerPayload, Moves, Stays
<1>20. ASSUME NEW w \in Workers, WorkerPublish(w) PROVE Moves \/ UNCHANGED vars
  BY <1>20 DEF WorkerPublish, Moves, Stays
<1>21. ASSUME NEW w \in Workers, WorkerDestroy(w) PROVE Moves \/ UNCHANGED vars
  <2>1. PICK t \in Tasks : t = cur[w]
    BY <1>21 DEF WorkerDestroy
  <2>2. InWorker' = InWorker \ {t} /\ t \in InWorker
    BY <1>21, <2>1, WorkerPoolAssumption DEF WorkerDestroy
  <2>3. InSpawn' = InSpawn /\ InQueue' = InQueue
    BY <1>21 DEF WorkerDestroy
  <2>4. IsDestroyed(t)
    BY <1>21, <2>1, <2>2, <2>3 DEF WorkerDestroy, IsDestroyed
  <2> QED BY <2>4 DEF Moves
<1>22. ASSUME NEW w \in Workers, WorkerRelock(w) PROVE Moves \/ UNCHANGED vars
  BY <1>22 DEF WorkerRelock, Moves, Stays
<1>23. ASSUME NEW w \in Workers, SpuriousWakeup(w) PROVE Moves \/ UNCHANGED vars
  BY <1>23 DEF SpuriousWakeup, Moves, Stays
<1>24. ASSUME NEW w \in Workers, TaskPanics(w) PROVE Moves \/ UNCHANGED vars
  BY <1>24 DEF TaskPanics, Moves, Stays
<1>25. ASSUME MainEnds PROVE Moves \/ UNCHANGED vars
  BY <1>25 DEF MainEnds, Moves, Stays
<1>26. CASE UNCHANGED vars
  BY <1>26
<1> QED BY <1>1, <1>2, <1>3, <1>4, <1>5, <1>6, <1>7, <1>8, <1>9, <1>10, <1>11,
           <1>12, <1>13, <1>14, <1>15, <1>16, <1>17, <1>18, <1>19, <1>20,
           <1>21, <1>22, <1>23, <1>24, <1>25, <1>26
    DEF Next, UserStep, InCall, WorkerStep, vars

(* The three places stay apart.                                            *)
LEMMA ApartStep ==
  ASSUME TypeInv, PlaceInv, [Next]_vars
  PROVE  Apart'
<1>1. CASE Moves
  BY <1>1 DEF PlaceInv, Apart, LiveIsPlaced, LiveTasks, Moves, Stays, IsSpawned, IsQueued,
              IsPopped, IsDestroyed, IsRefused, Places
<1>2. CASE UNCHANGED vars
  BY <1>2 DEF PlaceInv, Apart, InSpawn, InQueue, InWorker, Adding, vars, poolVars, futVars
<1> QED BY <1>1, <1>2, MovesStep

(* The live tasks stay those that are in a place.                          *)
LEMMA LiveIsPlacedStep ==
  ASSUME TypeInv, PlaceInv, [Next]_vars
  PROVE  LiveIsPlaced'
<1> USE DEF TypeInv, TypeOK, PlaceInv, Apart, LiveIsPlaced, LiveTasks, Places
<1>1. CASE Stays
  BY <1>1 DEF Stays
<1>2. ASSUME NEW t \in Tasks, IsSpawned(t) PROVE LiveIsPlaced'
  BY <1>2, WorkerPoolAssumption DEF IsSpawned
<1>3. ASSUME NEW t \in Tasks, IsQueued(t) PROVE LiveIsPlaced'
  BY <1>3 DEF IsQueued
<1>4. ASSUME NEW t \in Tasks, IsPopped(t) PROVE LiveIsPlaced'
  BY <1>4 DEF IsPopped
<1>5. ASSUME NEW t \in Tasks, IsDestroyed(t) PROVE LiveIsPlaced'
  BY <1>5 DEF IsDestroyed
<1>6. ASSUME NEW t \in Tasks, IsRefused(t) PROVE LiveIsPlaced'
  BY <1>6 DEF IsRefused
<1>7. CASE UNCHANGED vars
  BY <1>7 DEF InSpawn, InQueue, InWorker, Adding, vars, poolVars, futVars
<1> QED BY <1>1, <1>2, <1>3, <1>4, <1>5, <1>6, <1>7, MovesStep DEF Moves

(* A worker that is woken or started was not running a task.               *)
LEMMA OthersRun ==
  ASSUME TypeInv, NEW u \in Workers, wpc[u] # "run", wpc' = [wpc EXCEPT ![u] = "lock"]
  PROVE  \A v \in Workers : wpc[v] = "run" => wpc'[v] = "run"
BY DEF TypeInv, TypeOK


(* The VM thread of a task does not outlive the call.                       *)
LEMMA RunsInWorkerStep ==
  ASSUME TypeInv, PlaceInv, [Next]_vars
  PROVE  RunsInWorker'
<1> USE DEF TypeInv, TypeOK, ArgIsTask, CurIsTask, SlotsInOrder, AtTask, TPCs,
           WPCs, Workers, VmThreads, Step, WStep, poolVars, futVars, PlaceInv,
           Once, Apart, RunsInWorker, Adding, InSpawn, InQueue, InWorker
<1>1. ASSUME NEW a \in VmThreads, NEW t \in Tasks, Spawn(a, t) PROVE RunsInWorker'
  BY <1>1 DEF Spawn
<1>2. ASSUME NEW a \in VmThreads, NEW t \in Tasks, Await(a, t) PROVE RunsInWorker'
  BY <1>2 DEF Await
<1>3. ASSUME NEW a \in VmThreads, NEW t \in Tasks, Drop(a, t) PROVE RunsInWorker'
  BY <1>3 DEF Drop
<1>4. ASSUME NEW a \in VmThreads, AddFails(a) PROVE RunsInWorker'
  BY <1>4 DEF AddFails
<1>5. ASSUME NEW a \in VmThreads, AddLock(a) PROVE RunsInWorker'
  BY <1>5 DEF AddLock
<1>6. ASSUME NEW a \in VmThreads, RequestWorker(a) PROVE RunsInWorker'
  <2>1. NeedsWorker => /\ num + 1 \in Workers /\ wpc[num + 1] = "unborn"
                       /\ wpc' = [wpc EXCEPT ![num + 1] = "lock"]
    BY <1>6, WorkerPoolAssumption DEF RequestWorker, NeedsWorker
  <2>2. ~NeedsWorker => wpc' = wpc
    BY <1>6 DEF RequestWorker
  <2>3. \A v \in Workers : wpc[v] = "run" => wpc'[v] = "run"
    <3> DEFINE u == num + 1
    <3>1. CASE NeedsWorker
      <4>1. u \in Workers /\ wpc[u] = "unborn" /\ wpc' = [wpc EXCEPT ![u] = "lock"]
        BY <2>1, <3>1
      <4> HIDE DEF u
      <4> QED BY <4>1, OthersRun DEF TypeInv
    <3> QED BY <2>2, <3>1
  <2> QED BY <1>6, <2>3 DEF RequestWorker
<1>7. ASSUME NEW a \in VmThreads, LinkTask(a) PROVE RunsInWorker'
  BY <1>7 DEF LinkTask
<1>8. ASSUME NEW a \in VmThreads, Signal(a) PROVE RunsInWorker'
  <2>1. Waiting # {} => \E v \in Waiting : wpc' = [wpc EXCEPT ![v] = "lock"]
    BY <1>8 DEF Signal
  <2>2. Waiting = {} => wpc' = wpc
    BY <1>8 DEF Signal
  <2>3. \A v \in Workers : wpc[v] = "run" => wpc'[v] = "run"
    <3>1. CASE Waiting = {}
      BY <2>2, <3>1
    <3>2. CASE Waiting # {}
      <4>1. PICK u \in Waiting : wpc' = [wpc EXCEPT ![u] = "lock"]
        BY <2>1, <3>2
      <4> QED BY <4>1, OthersRun DEF Waiting, TypeInv
    <3> QED BY <3>1, <3>2
  <2> QED BY <1>8, <2>3 DEF Signal
<1>9. ASSUME NEW a \in VmThreads, AwaitDone(a) PROVE RunsInWorker'
  BY <1>9 DEF AwaitDone
<1>10. ASSUME NEW a \in VmThreads, AwaitAborts(a) PROVE RunsInWorker'
  BY <1>10 DEF AwaitAborts
<1>11. ASSUME NEW a \in VmThreads, ReadResult(a) PROVE RunsInWorker'
  BY <1>11 DEF ReadResult
<1>12. ASSUME NEW w \in Workers, WorkerLock(w) PROVE RunsInWorker'
  BY <1>12 DEF WorkerLock
<1>13. ASSUME NEW w \in Workers, WorkerPop(w) PROVE RunsInWorker'
  BY <1>13, QueuePop DEF WorkerPop
<1>14. ASSUME NEW w \in Workers, WorkerWait(w) PROVE RunsInWorker'
  BY <1>14 DEF WorkerWait
<1>15. ASSUME NEW w \in Workers, TaskReturns(w) PROVE RunsInWorker'
  BY <1>15 DEF TaskReturns
<1>16. ASSUME NEW w \in Workers, WorkerSent(w) PROVE RunsInWorker'
  BY <1>16 DEF WorkerSent
<1>17. ASSUME NEW w \in Workers, WorkerClaim(w) PROVE RunsInWorker'
  BY <1>17 DEF WorkerClaim
<1>18. ASSUME NEW w \in Workers, WorkerTag(w) PROVE RunsInWorker'
  BY <1>18 DEF WorkerTag
<1>19. ASSUME NEW w \in Workers, WorkerPayload(w) PROVE RunsInWorker'
  BY <1>19 DEF WorkerPayload
<1>20. ASSUME NEW w \in Workers, WorkerPublish(w) PROVE RunsInWorker'
  BY <1>20 DEF WorkerPublish
<1>21. ASSUME NEW w \in Workers, WorkerDestroy(w) PROVE RunsInWorker'
  BY <1>21 DEF WorkerDestroy
<1>22. ASSUME NEW w \in Workers, WorkerRelock(w) PROVE RunsInWorker'
  BY <1>22 DEF WorkerRelock
<1>23. ASSUME NEW w \in Workers, SpuriousWakeup(w) PROVE RunsInWorker'
  BY <1>23 DEF SpuriousWakeup
<1>24. ASSUME NEW w \in Workers, TaskPanics(w) PROVE RunsInWorker'
  BY <1>24 DEF TaskPanics
<1>25. ASSUME MainEnds PROVE RunsInWorker'
  BY <1>25 DEF MainEnds
<1>26. CASE UNCHANGED vars
  BY <1>26 DEF vars
<1> QED BY <1>1, <1>2, <1>3, <1>4, <1>5, <1>6, <1>7, <1>8, <1>9, <1>10, <1>11,
           <1>12, <1>13, <1>14, <1>15, <1>16, <1>17, <1>18, <1>19, <1>20,
           <1>21, <1>22, <1>23, <1>24, <1>25, <1>26
    DEF Next, UserStep, InCall, WorkerStep, vars

-----------------------------------------------------------------------------
(* The invariant.                                                          *)
Inv == TypeInv /\ PlaceInv

(* It holds when the program starts...                                     *)
LEMMA InvInit == Init => Inv
<1> SUFFICES ASSUME Init PROVE Inv
  OBVIOUS
<1> USE DEF Init, TypeInv, TypeOK, ArgIsTask, CurIsTask, SlotsInOrder, AtTask, TPCs, WPCs,
            Workers, VmThreads
<1>1. TypeInv
  BY WorkerPoolAssumption
<1>2. LastIsTail
  BY DEF LastIsTail
<1>3. InSpawn = {} /\ InQueue = {} /\ InWorker = {} /\ LiveTasks = {}
  <2>1. InSpawn = {}
    BY DEF InSpawn, Adding
  <2>2. InQueue = {}
    BY DEF InQueue
  <2>3. InWorker = {}
    BY WorkerPoolAssumption DEF InWorker
  <2>4. LiveTasks = {}
    BY DEF LiveTasks
  <2> QED
    BY <2>1, <2>2, <2>3, <2>4
<1>4. Once
  BY WorkerPoolAssumption DEF Once, Adding
<1>5. Apart /\ LiveIsPlaced
  BY <1>3 DEF Apart, LiveIsPlaced
<1>6. RunsInWorker
  BY WorkerPoolAssumption DEF RunsInWorker
<1> QED
  BY <1>1, <1>2, <1>4, <1>5, <1>6 DEF Inv, PlaceInv

(* ...and after every step.                                                *)
LEMMA InvNext == Inv /\ [Next]_vars => Inv'
BY TypeInvStep, LastIsTailStep, OnceStep, ApartStep, LiveIsPlacedStep, RunsInWorkerStep
   DEF Inv, PlaceInv

(* The pool, its list and its tasks are always as the invariant says.      *)
THEOREM InvHolds == Spec => []Inv
BY InvInit, InvNext, PTL DEF Spec

(* The variables of the pool, its workers and its futures keep their types. *)
THEOREM TypeCorrect == Spec => []TypeOK
<1>1. Inv => TypeOK
  BY DEF Inv, TypeInv
<1> QED
  BY <1>1, InvHolds, PTL

(* last_task_node points to the last node of the list, or is null.         *)
THEOREM LastTaskNode == Spec => []LastIsTail
<1>1. Inv => LastIsTail
  BY DEF Inv, PlaceInv
<1> QED
  BY <1>1, InvHolds, PTL

(* A set without two distinct members has at most one.                     *)
LEMMA AtMostOne ==
  ASSUME NEW S, \A x, y \in S : x = y
  PROVE  Cardinality(S) = IF S = {} THEN 0 ELSE 1
<1>1. CASE S = {}
  BY <1>1, FS_EmptySet
<1>2. CASE S # {}
  <2>1. PICK x \in S : S = {x}
    BY <1>2
  <2> QED
    BY <1>2, <2>1, FS_Singleton
<1> QED
  BY <1>1, <1>2

(* At most once in each place and in one place only: once in all.          *)
LEMMA InvOnePlace == Inv => OnePlace
<1> SUFFICES ASSUME Inv, crash = "none", NEW t \in Tasks
             PROVE  Cardinality(AddingIt(t)) + Cardinality(QueuedAt(t)) + Cardinality(RunningIt(t))
                      = IF thread[t] = "live" THEN 1 ELSE 0
  BY DEF OnePlace
<1>1. Cardinality(AddingIt(t)) = IF t \in InSpawn THEN 1 ELSE 0
  <2>1. /\ \A a, b \in AddingIt(t) : a = b
        /\ AddingIt(t) = {} <=> t \notin InSpawn
    BY DEF Inv, PlaceInv, Once, AddingIt, InSpawn, Adding
  <2> QED
    BY <2>1, AtMostOne
<1>2. Cardinality(QueuedAt(t)) = IF t \in InQueue THEN 1 ELSE 0
  <2>1. /\ \A i, j \in QueuedAt(t) : i = j
        /\ QueuedAt(t) = {} <=> t \notin InQueue
    BY DEF Inv, PlaceInv, Once, QueuedAt, InQueue
  <2> QED
    BY <2>1, AtMostOne
<1>3. Cardinality(RunningIt(t)) = IF t \in InWorker THEN 1 ELSE 0
  <2>1. /\ \A v, w \in RunningIt(t) : v = w
        /\ RunningIt(t) = {} <=> t \notin InWorker
    BY DEF Inv, PlaceInv, Once, RunningIt, InWorker
  <2> QED
    BY <2>1, AtMostOne
<1>4. thread[t] = "live" <=> t \in InSpawn \/ t \in InQueue \/ t \in InWorker
  BY DEF Inv, PlaceInv, LiveIsPlaced, LiveTasks
<1>5. /\ ~(t \in InSpawn /\ t \in InQueue)
      /\ ~(t \in InSpawn /\ t \in InWorker)
      /\ ~(t \in InQueue /\ t \in InWorker)
  BY DEF Inv, PlaceInv, Apart
<1> QED
  BY <1>1, <1>2, <1>3, <1>4, <1>5

(* No spawned task is lost and none is run twice, however many spawners,   *)
(* tasks and workers there are.                                            *)
THEOREM TasksInOnePlace == Spec => []OnePlace
BY InvOnePlace, InvHolds, PTL

(* The list is first in, first out.                                        *)
THEOREM TasksStartInOrder == Spec => StartedInOrder
<1> DEFINE InOrder ==
      \/ queue # <<>> /\ queue' = Tail(queue)
      \/ Len(queue) <= Len(queue') /\ SubSeq(queue', 1, Len(queue)) = queue
<1>1. ASSUME Inv, [Next]_vars PROVE InOrder \/ UNCHANGED queue
  <2>1. ASSUME NEW a \in VmThreads, LinkTask(a) PROVE InOrder
    <3>1. /\ queue \in Seq(Tasks) /\ queue' \in Seq(Tasks) /\ Len(queue') = Len(queue) + 1
          /\ \A i \in 1..Len(queue) : queue'[i] = queue[i]
      BY <1>1, <2>1, QueueLink DEF Inv, TypeInv, TypeOK
    <3> DEFINE s == SubSeq(queue', 1, Len(queue))
    <3>2. s \in Seq(Tasks) /\ Len(s) = Len(queue) /\ \A i \in 1..Len(queue) : s[i] = queue[i]
      BY <3>1, SubSeqProperties
    <3> HIDE DEF s
    <3>3. s = queue
      BY <3>1, <3>2, SeqEqual
    <3>4. SubSeq(queue', 1, Len(queue)) = queue
      BY <3>3 DEF s
    <3>5. Len(queue) <= Len(queue')
      BY <3>1
    <3> QED
      BY <3>4, <3>5
  <2>2. ASSUME NEW w \in Workers, WorkerPop(w) PROVE InOrder
    BY <2>2 DEF WorkerPop
  <2>3. (\E a \in VmThreads : LinkTask(a)) \/ (\E w \in Workers : WorkerPop(w)) \/ UNCHANGED queue
    BY <1>1 DEF Next, UserStep, InCall, WorkerStep, Spawn, Await, Drop, AddFails, AddLock,
                RequestWorker, Signal, AwaitDone, AwaitAborts, ReadResult, WorkerLock,
                WorkerWait, TaskReturns, WorkerSent, WorkerClaim, WorkerTag, WorkerPayload,
                WorkerPublish, WorkerDestroy, WorkerRelock, SpuriousWakeup, TaskPanics,
                MainEnds, vars, poolVars, futVars
  <2> QED
    BY <2>1, <2>2, <2>3
<1> QED
  BY <1>1, InvHolds, PTL DEF Spec, StartedInOrder

-----------------------------------------------------------------------------
(* The counters and the wake-ups.                                          *)

(* What the counters count, as sets.                                       *)
Sets == <<Waiting, Signalling, Awake, Busy>>

CountInv == NoLostWakeup /\ active = Cardinality(Busy)

(* There are finitely many of each, so that they can be counted.           *)
LEMMA FiniteSets ==
  ASSUME TypeInv
  PROVE  /\ IsFiniteSet(Signalling) /\ IsFiniteSet(Awake) /\ IsFiniteSet(Busy)
         /\ Cardinality(Signalling) \in Nat /\ Cardinality(Awake) \in Nat
         /\ Cardinality(Busy) \in Nat /\ Len(queue) \in Nat
<1>1. IsFiniteSet(Workers)
  BY FS_Interval, WorkerPoolAssumption DEF Workers
<1>2. IsFiniteSet(VmThreads)
  BY FS_AddElement, WorkerPoolAssumption DEF VmThreads
<1>3. Signalling \subseteq VmThreads /\ Awake \subseteq Workers /\ Busy \subseteq Workers
  BY DEF Signalling, Awake, Busy
<1>4. IsFiniteSet(Signalling) /\ IsFiniteSet(Awake) /\ IsFiniteSet(Busy)
  BY <1>1, <1>2, <1>3, FS_Subset
<1> QED
  BY <1>4, FS_CardinalityType DEF TypeInv, TypeOK

(* A step that changes none of the sets, and neither the list nor active.  *)
LEMMA SameSets ==
  ASSUME CountInv, UNCHANGED <<Sets, queue, active>>, crash = "none"
  PROVE  CountInv'
BY DEF CountInv, NoLostWakeup, Sets

(* Every step keeps the count of wake-ups and of active workers.           *)
LEMMA CountStep ==
  ASSUME TypeInv, PlaceInv, CountInv, [Next]_vars
  PROVE  CountInv'
<1> USE DEF TypeInv, TypeOK, TPCs, WPCs, VmThreads, Step, WStep, poolVars,
           futVars, Sets, Waiting, Signalling, Awake, Busy
<1>1. ASSUME NEW a \in VmThreads, NEW t \in Tasks, Spawn(a, t) PROVE CountInv'
  <2>1. UNCHANGED <<Sets, queue, active>> /\ crash = "none"
    BY <1>1 DEF Spawn
  <2> QED BY <2>1, SameSets
<1>2. ASSUME NEW a \in VmThreads, NEW t \in Tasks, Await(a, t) PROVE CountInv'
  <2>1. UNCHANGED <<Sets, queue, active>> /\ crash = "none"
    BY <1>2 DEF Await
  <2> QED BY <2>1, SameSets
<1>3. ASSUME NEW a \in VmThreads, NEW t \in Tasks, Drop(a, t) PROVE CountInv'
  <2>1. UNCHANGED <<Sets, queue, active>> /\ crash = "none"
    BY <1>3 DEF Drop
  <2> QED BY <2>1, SameSets
<1>4. ASSUME NEW a \in VmThreads, AddFails(a) PROVE CountInv'
  <2>1. Busy' = Busy /\ active' = active /\ crash' # "none"
    BY <1>4 DEF AddFails
  <2> QED BY <2>1 DEF CountInv, NoLostWakeup
<1>5. ASSUME NEW a \in VmThreads, AddLock(a) PROVE CountInv'
  <2>1. UNCHANGED <<Sets, queue, active>> /\ crash = "none"
    BY <1>5 DEF AddLock
  <2> QED BY <2>1, SameSets
<1>6. ASSUME NEW a \in VmThreads, RequestWorker(a) PROVE CountInv'
  <2>1. CASE ~NeedsWorker
    <3>1. UNCHANGED <<Sets, queue, active>> /\ crash = "none"
      BY <1>6, <2>1 DEF RequestWorker
    <3> QED BY <3>1, SameSets
  <2>2. CASE NeedsWorker
    <3> DEFINE w == num + 1
    <3>1. w \in Workers /\ wpc[w] = "unborn"
      BY <2>2, WorkerPoolAssumption DEF NeedsWorker, SlotsInOrder, Workers
    <3>2. /\ wpc' = [wpc EXCEPT ![w] = "lock"] /\ crash = "none"
          /\ UNCHANGED <<Signalling, queue, active>>
      BY <1>6, <2>2 DEF RequestWorker
    <3> HIDE DEF w
    <3>3. /\ Waiting' = Waiting /\ Busy' = Busy
          /\ Awake' = Awake \cup {w} /\ w \notin Awake
      BY <3>1, <3>2
    <3> HIDE DEF Waiting, Signalling, Awake, Busy, TypeOK, TypeInv
    <3>4. Cardinality(Awake') = Cardinality(Awake) + 1
      BY <3>3, FiniteSets, FS_AddElement
    <3> QED BY <3>2, <3>3, <3>4, FiniteSets DEF CountInv, NoLostWakeup
  <2> QED BY <2>1, <2>2
<1>7. ASSUME NEW a \in VmThreads, LinkTask(a) PROVE CountInv'
  <2>1. /\ Waiting' = Waiting /\ Busy' = Busy /\ Awake' = Awake /\ active' = active
        /\ Signalling' = Signalling \cup {a} /\ a \notin Signalling /\ crash = "none"
    BY <1>7 DEF LinkTask
  <2>2. Len(queue') = Len(queue) + 1
    BY <1>7, QueueLink
  <2> HIDE DEF Waiting, Signalling, Awake, Busy, TypeOK, TypeInv
  <2>3. Cardinality(Signalling') = Cardinality(Signalling) + 1
    BY <2>1, FiniteSets, FS_AddElement
  <2> QED BY <2>1, <2>2, <2>3, FiniteSets DEF CountInv, NoLostWakeup
<1>8. ASSUME NEW a \in VmThreads, Signal(a) PROVE CountInv'
  <2>1. /\ Signalling' = Signalling \ {a} /\ a \in Signalling /\ crash = "none"
        /\ UNCHANGED <<queue, active>>
    BY <1>8 DEF Signal
  <2>2. Cardinality(Signalling') = Cardinality(Signalling) - 1
    <3> HIDE DEF Waiting, Signalling, Awake, Busy, TypeOK, TypeInv
    <3> QED BY <2>1, FiniteSets, FS_RemoveElement
  <2>3. CASE Waiting = {}
    <3>1. Waiting' = {} /\ Busy' = Busy
      BY <1>8, <2>3 DEF Signal
    <3> QED BY <2>1, <3>1 DEF CountInv, NoLostWakeup
  <2>4. CASE Waiting # {}
    <3>1. PICK w \in Waiting : wpc' = [wpc EXCEPT ![w] = "lock"]
      BY <1>8, <2>4 DEF Signal
    <3>2. Awake' = Awake \cup {w} /\ w \notin Awake /\ Busy' = Busy
      BY <3>1
    <3> HIDE DEF Waiting, Signalling, Awake, Busy, TypeOK, TypeInv
    <3>3. Cardinality(Awake') = Cardinality(Awake) + 1
      BY <3>2, FiniteSets, FS_AddElement
    <3> QED BY <2>1, <2>2, <2>4, <3>2, <3>3, FiniteSets DEF CountInv, NoLostWakeup
  <2> QED BY <2>3, <2>4
<1>9. ASSUME NEW a \in VmThreads, AwaitDone(a) PROVE CountInv'
  <2>1. UNCHANGED <<Sets, queue, active>> /\ crash = "none"
    BY <1>9 DEF AwaitDone
  <2> QED BY <2>1, SameSets
<1>10. ASSUME NEW a \in VmThreads, AwaitAborts(a) PROVE CountInv'
  <2>1. Busy' = Busy /\ active' = active /\ crash' # "none"
    BY <1>10 DEF AwaitAborts
  <2> QED BY <2>1 DEF CountInv, NoLostWakeup
<1>11. ASSUME NEW a \in VmThreads, ReadResult(a) PROVE CountInv'
  <2>1. UNCHANGED <<Sets, queue, active>> /\ crash = "none"
    BY <1>11 DEF ReadResult
  <2> QED BY <2>1, SameSets
<1>12. ASSUME NEW w \in Workers, WorkerLock(w) PROVE CountInv'
  <2>1. UNCHANGED <<Sets, queue, active>> /\ crash = "none"
    BY <1>12 DEF WorkerLock
  <2> QED BY <2>1, SameSets
<1>13. ASSUME NEW w \in Workers, WorkerPop(w) PROVE CountInv'
  <2>1. /\ wpc[w] = "pop" /\ wpc' = [wpc EXCEPT ![w] = "run"]
        /\ active' = active + 1 /\ crash = "none"
    BY <1>13 DEF WorkerPop
  <2>2. /\ Waiting' = Waiting
        /\ Awake' = Awake \ {w} /\ w \in Awake
        /\ Busy' = Busy \cup {w} /\ w \notin Busy
    BY <2>1
  <2>3. Signalling' = Signalling
    <3>1. PICK t \in Tasks : t = Head(queue)
      BY <1>13, QueuePop
    <3>2. t \notin InWorker
      BY <1>13, <3>1, PopMoves DEF PlaceInv, Apart
    <3>3. tpc[t] = "off"
      BY <3>2 DEF PlaceInv, RunsInWorker, InWorker
    <3>4. tpc' = [tpc EXCEPT ![t] = "run"]
      BY <1>13, <3>1 DEF WorkerPop
    <3> QED BY <3>3, <3>4
  <2>4. Len(queue') = Len(queue) - 1
    BY <1>13, QueuePop
  <2> HIDE DEF Waiting, Signalling, Awake, Busy, TypeOK, TypeInv
  <2>5. /\ Cardinality(Awake') = Cardinality(Awake) - 1
        /\ Cardinality(Busy') = Cardinality(Busy) + 1
    BY <2>2, FiniteSets, FS_AddElement, FS_RemoveElement
  <2> QED BY <2>1, <2>2, <2>3, <2>4, <2>5, FiniteSets DEF CountInv, NoLostWakeup
<1>14. ASSUME NEW w \in Workers, WorkerWait(w) PROVE CountInv'
  <2>1. /\ Len(queue') = 0 /\ Busy' = Busy /\ active' = active
        /\ Signalling' = Signalling /\ Awake' = Awake \ {w}
    BY <1>14 DEF WorkerWait
  <2> HIDE DEF Waiting, Signalling, Awake, Busy, TypeOK, TypeInv
  <2>2. Cardinality(Signalling') \in Nat /\ Cardinality(Awake') \in Nat
    BY <2>1, FiniteSets, FS_RemoveElement, FS_CardinalityType
  <2> QED BY <2>1, <2>2 DEF CountInv, NoLostWakeup
<1>15. ASSUME NEW w \in Workers, TaskReturns(w) PROVE CountInv'
  <2>1. UNCHANGED <<Sets, queue, active>> /\ crash = "none"
    BY <1>15 DEF TaskReturns
  <2> QED BY <2>1, SameSets
<1>16. ASSUME NEW w \in Workers, WorkerSent(w) PROVE CountInv'
  <2>1. UNCHANGED <<Sets, queue, active>> /\ crash = "none"
    BY <1>16 DEF WorkerSent
  <2> QED BY <2>1, SameSets
<1>17. ASSUME NEW w \in Workers, WorkerClaim(w) PROVE CountInv'
  <2>1. UNCHANGED <<Sets, queue, active>> /\ crash = "none"
    BY <1>17 DEF WorkerClaim
  <2> QED BY <2>1, SameSets
<1>18. ASSUME NEW w \in Workers, WorkerTag(w) PROVE CountInv'
  <2>1. UNCHANGED <<Sets, queue, active>> /\ crash = "none"
    BY <1>18 DEF WorkerTag
  <2> QED BY <2>1, SameSets
<1>19. ASSUME NEW w \in Workers, WorkerPayload(w) PROVE CountInv'
  <2>1. UNCHANGED <<Sets, queue, active>> /\ crash = "none"
    BY <1>19 DEF WorkerPayload
  <2> QED BY <2>1, SameSets
<1>20. ASSUME NEW w \in Workers, WorkerPublish(w) PROVE CountInv'
  <2>1. UNCHANGED <<Sets, queue, active>> /\ crash = "none"
    BY <1>20 DEF WorkerPublish
  <2> QED BY <2>1, SameSets
<1>21. ASSUME NEW w \in Workers, WorkerDestroy(w) PROVE CountInv'
  <2>1. /\ Waiting' \subseteq Waiting /\ Busy' = Busy /\ Signalling' = Signalling
        /\ Awake' = Awake \cup {w} /\ w \notin Awake
        /\ UNCHANGED <<queue, active>> /\ crash = "none"
    BY <1>21 DEF WorkerDestroy
  <2> HIDE DEF Waiting, Signalling, Awake, Busy, TypeOK, TypeInv
  <2>2. Cardinality(Awake') = Cardinality(Awake) + 1
    BY <2>1, FiniteSets, FS_AddElement
  <2> QED BY <2>1, <2>2, FiniteSets DEF CountInv, NoLostWakeup
<1>22. ASSUME NEW w \in Workers, WorkerRelock(w) PROVE CountInv'
  <2>1. /\ Waiting' = Waiting /\ Signalling' = Signalling /\ Awake' = Awake
        /\ Busy' = Busy \ {w} /\ w \in Busy /\ active' = active - 1 /\ queue' = queue
        /\ crash = "none"
    BY <1>22 DEF WorkerRelock
  <2> HIDE DEF Waiting, Signalling, Awake, Busy, TypeOK, TypeInv
  <2>2. Cardinality(Busy') = Cardinality(Busy) - 1
    BY <2>1, FiniteSets, FS_RemoveElement
  <2> QED BY <2>1, <2>2, FiniteSets DEF CountInv, NoLostWakeup
<1>23. ASSUME NEW w \in Workers, SpuriousWakeup(w) PROVE CountInv'
  <2>1. /\ Waiting' \subseteq Waiting /\ Busy' = Busy /\ Signalling' = Signalling
        /\ Awake' = Awake \cup {w} /\ w \notin Awake
        /\ UNCHANGED <<queue, active>> /\ crash = "none"
    BY <1>23 DEF SpuriousWakeup
  <2> HIDE DEF Waiting, Signalling, Awake, Busy, TypeOK, TypeInv
  <2>2. Cardinality(Awake') = Cardinality(Awake) + 1
    BY <2>1, FiniteSets, FS_AddElement
  <2> QED BY <2>1, <2>2, FiniteSets DEF CountInv, NoLostWakeup
<1>24. ASSUME NEW w \in Workers, TaskPanics(w) PROVE CountInv'
  <2>1. Busy' = Busy /\ active' = active /\ crash' # "none"
    BY <1>24 DEF TaskPanics
  <2> QED BY <2>1 DEF CountInv, NoLostWakeup
<1>25. ASSUME MainEnds PROVE CountInv'
  <2>1. UNCHANGED <<Sets, queue, active>> /\ crash = "none"
    BY <1>25 DEF MainEnds
  <2> QED BY <2>1, SameSets
<1>26. CASE UNCHANGED vars
  <2>1. UNCHANGED <<Sets, queue, active, crash>>
    BY <1>26 DEF vars
  <2> QED BY <2>1 DEF Sets, CountInv, NoLostWakeup
<1> QED BY <1>1, <1>2, <1>3, <1>4, <1>5, <1>6, <1>7, <1>8, <1>9, <1>10, <1>11,
           <1>12, <1>13, <1>14, <1>15, <1>16, <1>17, <1>18, <1>19, <1>20,
           <1>21, <1>22, <1>23, <1>24, <1>25, <1>26
    DEF Next, UserStep, InCall, WorkerStep, vars

(* At the start nobody sleeps and nobody is busy.                          *)
LEMMA CountInit == Init => CountInv
<1> SUFFICES ASSUME Init PROVE CountInv
  OBVIOUS
<1>1. Waiting = {} /\ Busy = {}
  BY DEF Init, Waiting, Busy, Workers, WPCs
<1> QED
  BY <1>1, FS_EmptySet DEF Init, CountInv, NoLostWakeup

(* The counts hold in every state.                                         *)
LEMMA CountInvHolds == Spec => []CountInv
<1>1. Inv /\ CountInv /\ [Next]_vars => CountInv'
  BY CountStep DEF Inv
<1> QED
  BY <1>1, CountInit, InvHolds, PTL DEF Spec

(* No task is left in the list with every worker that could take it asleep *)
(* and no signal coming.                                                   *)
THEOREM WakeupsSuffice == Spec => []NoLostWakeup
<1>1. CountInv => NoLostWakeup
  BY DEF CountInv
<1> QED
  BY <1>1, CountInvHolds, PTL

(* request_idle_worker decides on counts that are right.                   *)
THEOREM CountersAreRight == Spec => []CountersMatch
<1>1. Inv /\ CountInv => CountersMatch
  BY DEF Inv, TypeInv, SlotsInOrder, CountInv, CountersMatch
<1> QED
  BY <1>1, CountInvHolds, InvHolds, PTL

-----------------------------------------------------------------------------
(* Futures: what an await reads, and that they implement FutureSpec.       *)

(* The FutureValue of a task before its worker writes it, and after.       *)
Empty(t) == state[t] = 0 /\ data[t] = "none"
Full(t) == state[t] = 2 /\ data[t] = "full"

(* A worker writes the option tag and the payload between the two stores   *)
(* of the state byte.                                                      *)
Written ==
  \A w \in Workers :
    /\ wpc[w] \in {"run", "send", "cas"} => Empty(cur[w])
    /\ wpc[w] = "tag" => state[cur[w]] = 1 /\ data[cur[w]] = "none"
    /\ wpc[w] = "payload" => state[cur[w]] = 1 /\ data[cur[w]] = "tagged"
    /\ wpc[w] = "publish" => state[cur[w]] = 1 /\ data[cur[w]] = "full"
    /\ wpc[w] = "destroy" => Full(cur[w])

(* No one writes to it before or after.                                    *)
Unwritten ==
  \A t \in Tasks \ InWorker : IF thread[t] = "freed" THEN Full(t) ELSE Empty(t)

(* What is completed stays completed, from the load of zAwait on.          *)
Loaded == \A a \in VmThreads : tpc[a] = "read" => state[arg[a]] = 2
Returned == \A t \in Tasks : got[t] # "none" => got[t] = "full" /\ state[t] = 2

FutureInv == Written /\ Unwritten /\ Loaded /\ Returned

(* State 2 is only seen on data that is written in full.                   *)
LEMMA CompletedIsFull ==
  ASSUME Inv, Written, Unwritten, NEW t \in Tasks, state[t] = 2
  PROVE  data[t] = "full"
<1>1. CASE t \in InWorker
  <2>1. PICK w \in Workers : cur[w] = t /\ wpc[w] \in AtTask
    BY <1>1 DEF InWorker, Inv, TypeInv, CurIsTask
  <2> QED
    BY <2>1 DEF AtTask, Written, Empty, Full
<1>2. CASE t \notin InWorker
  BY <1>2 DEF Unwritten, Empty, Full
<1> QED
  BY <1>1, <1>2

(* The state byte and the data of a future change together.               *)
LEMMA WrittenStep ==
  ASSUME Inv, FutureInv, [Next]_vars
  PROVE  Written' /\ Unwritten'
<1> USE DEF Inv, TypeInv, TypeOK, ArgIsTask, CurIsTask, AtTask, TPCs, WPCs,
           Workers, VmThreads, Step, WStep, poolVars, futVars, InWorker,
           Empty, Full, Once, Written, Unwritten, FutureInv, PlaceInv
<1>1. ASSUME NEW a \in VmThreads, NEW t \in Tasks, Spawn(a, t) PROVE Written' /\ Unwritten'
  <2>1. thread[t] = "none"
    BY <1>1 DEF Spawn, LiveIsPlaced
  <2>2. Written'
    BY <1>1 DEF Spawn
  <2>3. Unwritten'
    BY <1>1, <2>1 DEF Spawn
  <2> QED BY <2>2, <2>3
<1>2. ASSUME NEW a \in VmThreads, NEW t \in Tasks, Await(a, t) PROVE Written' /\ Unwritten'
  BY <1>2 DEF Await
<1>3. ASSUME NEW a \in VmThreads, NEW t \in Tasks, Drop(a, t) PROVE Written' /\ Unwritten'
  BY <1>3 DEF Drop
<1>4. ASSUME NEW a \in VmThreads, AddFails(a) PROVE Written' /\ Unwritten'
  BY <1>4 DEF AddFails
<1>5. ASSUME NEW a \in VmThreads, AddLock(a) PROVE Written' /\ Unwritten'
  BY <1>5 DEF AddLock
<1>6. ASSUME NEW a \in VmThreads, RequestWorker(a) PROVE Written' /\ Unwritten'
  <2>1. \A w \in Workers : wpc'[w] = wpc[w] \/ wpc'[w] = "lock"
    BY <1>6, WorkerPoolAssumption DEF RequestWorker, NeedsWorker, Waiting
  <2> QED BY <1>6, <2>1 DEF RequestWorker
<1>7. ASSUME NEW a \in VmThreads, LinkTask(a) PROVE Written' /\ Unwritten'
  BY <1>7 DEF LinkTask
<1>8. ASSUME NEW a \in VmThreads, Signal(a) PROVE Written' /\ Unwritten'
  <2>1. \A w \in Workers : wpc'[w] = wpc[w] \/ wpc'[w] = "lock"
    BY <1>8, WorkerPoolAssumption DEF Signal, NeedsWorker, Waiting
  <2> QED BY <1>8, <2>1 DEF Signal
<1>9. ASSUME NEW a \in VmThreads, AwaitDone(a) PROVE Written' /\ Unwritten'
  BY <1>9 DEF AwaitDone
<1>10. ASSUME NEW a \in VmThreads, AwaitAborts(a) PROVE Written' /\ Unwritten'
  BY <1>10 DEF AwaitAborts
<1>11. ASSUME NEW a \in VmThreads, ReadResult(a) PROVE Written' /\ Unwritten'
  BY <1>11 DEF ReadResult
<1>12. ASSUME NEW w \in Workers, WorkerLock(w) PROVE Written' /\ Unwritten'
  BY <1>12 DEF WorkerLock
<1>13. ASSUME NEW w \in Workers, WorkerPop(w) PROVE Written' /\ Unwritten'
  <2>1. PICK t \in Tasks : t = Head(queue)
    BY <1>13, QueuePop
  <2>2. t \in InQueue
    BY <1>13, <2>1, PopMoves
  <2>3. t \notin InWorker /\ thread[t] = "live"
    BY <2>2 DEF Apart, LiveIsPlaced, LiveTasks
  <2>4. Empty(t)
    BY <2>3
  <2>5. /\ cur[w] \notin Tasks /\ cur' = [cur EXCEPT ![w] = t]
        /\ wpc' = [wpc EXCEPT ![w] = "run"] /\ UNCHANGED <<state, data, thread>>
    BY <1>13, <2>1 DEF WorkerPop
  <2>6. Written'
    BY <2>4, <2>5
  <2>7. InWorker \subseteq InWorker'
    BY <2>5
  <2>8. Unwritten'
    BY <2>5, <2>7
  <2> QED BY <2>6, <2>8
<1>14. ASSUME NEW w \in Workers, WorkerWait(w) PROVE Written' /\ Unwritten'
  BY <1>14 DEF WorkerWait
<1>15. ASSUME NEW w \in Workers, TaskReturns(w) PROVE Written' /\ Unwritten'
  BY <1>15 DEF TaskReturns
<1>16. ASSUME NEW w \in Workers, WorkerSent(w) PROVE Written' /\ Unwritten'
  BY <1>16 DEF WorkerSent
<1>17. ASSUME NEW w \in Workers, WorkerClaim(w) PROVE Written' /\ Unwritten'
  BY <1>17 DEF WorkerClaim
<1>18. ASSUME NEW w \in Workers, WorkerTag(w) PROVE Written' /\ Unwritten'
  BY <1>18 DEF WorkerTag
<1>19. ASSUME NEW w \in Workers, WorkerPayload(w) PROVE Written' /\ Unwritten'
  BY <1>19 DEF WorkerPayload
<1>20. ASSUME NEW w \in Workers, WorkerPublish(w) PROVE Written' /\ Unwritten'
  BY <1>20 DEF WorkerPublish
<1>21. ASSUME NEW w \in Workers, WorkerDestroy(w) PROVE Written' /\ Unwritten'
  BY <1>21 DEF WorkerDestroy
<1>22. ASSUME NEW w \in Workers, WorkerRelock(w) PROVE Written' /\ Unwritten'
  BY <1>22 DEF WorkerRelock
<1>23. ASSUME NEW w \in Workers, SpuriousWakeup(w) PROVE Written' /\ Unwritten'
  BY <1>23 DEF SpuriousWakeup
<1>24. ASSUME NEW w \in Workers, TaskPanics(w) PROVE Written' /\ Unwritten'
  BY <1>24 DEF TaskPanics
<1>25. ASSUME MainEnds PROVE Written' /\ Unwritten'
  BY <1>25 DEF MainEnds
<1>26. CASE UNCHANGED vars
  BY <1>26 DEF vars
<1> QED BY <1>1, <1>2, <1>3, <1>4, <1>5, <1>6, <1>7, <1>8, <1>9, <1>10, <1>11,
           <1>12, <1>13, <1>14, <1>15, <1>16, <1>17, <1>18, <1>19, <1>20,
           <1>21, <1>22, <1>23, <1>24, <1>25, <1>26
    DEF Next, UserStep, InCall, WorkerStep, vars

(* An await reads after the future is completed.                          *)
LEMMA ReadStep ==
  ASSUME Inv, FutureInv, [Next]_vars
  PROVE  Loaded' /\ Returned'
<1> USE DEF Inv, TypeInv, TypeOK, ArgIsTask, TPCs, WPCs, Workers, VmThreads,
           Step, WStep, poolVars, futVars, FutureInv, Loaded, Returned
<1>1. ASSUME NEW a \in VmThreads, NEW t \in Tasks, Spawn(a, t) PROVE Loaded' /\ Returned'
  BY <1>1 DEF Spawn
<1>2. ASSUME NEW a \in VmThreads, NEW t \in Tasks, Await(a, t) PROVE Loaded' /\ Returned'
  BY <1>2 DEF Await
<1>3. ASSUME NEW a \in VmThreads, NEW t \in Tasks, Drop(a, t) PROVE Loaded' /\ Returned'
  BY <1>3 DEF Drop
<1>4. ASSUME NEW a \in VmThreads, AddFails(a) PROVE Loaded' /\ Returned'
  BY <1>4 DEF AddFails
<1>5. ASSUME NEW a \in VmThreads, AddLock(a) PROVE Loaded' /\ Returned'
  BY <1>5 DEF AddLock
<1>6. ASSUME NEW a \in VmThreads, RequestWorker(a) PROVE Loaded' /\ Returned'
  BY <1>6 DEF RequestWorker
<1>7. ASSUME NEW a \in VmThreads, LinkTask(a) PROVE Loaded' /\ Returned'
  BY <1>7 DEF LinkTask
<1>8. ASSUME NEW a \in VmThreads, Signal(a) PROVE Loaded' /\ Returned'
  BY <1>8 DEF Signal
<1>9. ASSUME NEW a \in VmThreads, AwaitDone(a) PROVE Loaded' /\ Returned'
  BY <1>9 DEF AwaitDone
<1>10. ASSUME NEW a \in VmThreads, AwaitAborts(a) PROVE Loaded' /\ Returned'
  BY <1>10 DEF AwaitAborts
<1>11. ASSUME NEW a \in VmThreads, ReadResult(a) PROVE Loaded' /\ Returned'
  <2>1. PICK t \in Tasks : t = arg[a]
    BY <1>11 DEF ReadResult
  <2>2. state[t] = 2 /\ data[t] = "full"
    BY <1>11, <2>1, CompletedIsFull DEF ReadResult
  <2> QED BY <1>11, <2>1, <2>2 DEF ReadResult
<1>12. ASSUME NEW w \in Workers, WorkerLock(w) PROVE Loaded' /\ Returned'
  BY <1>12 DEF WorkerLock
<1>13. ASSUME NEW w \in Workers, WorkerPop(w) PROVE Loaded' /\ Returned'
  BY <1>13, QueuePop DEF WorkerPop
<1>14. ASSUME NEW w \in Workers, WorkerWait(w) PROVE Loaded' /\ Returned'
  BY <1>14 DEF WorkerWait
<1>15. ASSUME NEW w \in Workers, TaskReturns(w) PROVE Loaded' /\ Returned'
  BY <1>15 DEF TaskReturns
<1>16. ASSUME NEW w \in Workers, WorkerSent(w) PROVE Loaded' /\ Returned'
  BY <1>16 DEF WorkerSent
<1>17. ASSUME NEW w \in Workers, WorkerClaim(w) PROVE Loaded' /\ Returned'
  BY <1>17 DEF WorkerClaim
<1>18. ASSUME NEW w \in Workers, WorkerTag(w) PROVE Loaded' /\ Returned'
  BY <1>18 DEF WorkerTag
<1>19. ASSUME NEW w \in Workers, WorkerPayload(w) PROVE Loaded' /\ Returned'
  BY <1>19 DEF WorkerPayload
<1>20. ASSUME NEW w \in Workers, WorkerPublish(w) PROVE Loaded' /\ Returned'
  BY <1>20 DEF WorkerPublish
<1>21. ASSUME NEW w \in Workers, WorkerDestroy(w) PROVE Loaded' /\ Returned'
  BY <1>21 DEF WorkerDestroy
<1>22. ASSUME NEW w \in Workers, WorkerRelock(w) PROVE Loaded' /\ Returned'
  BY <1>22 DEF WorkerRelock
<1>23. ASSUME NEW w \in Workers, SpuriousWakeup(w) PROVE Loaded' /\ Returned'
  BY <1>23 DEF SpuriousWakeup
<1>24. ASSUME NEW w \in Workers, TaskPanics(w) PROVE Loaded' /\ Returned'
  BY <1>24 DEF TaskPanics
<1>25. ASSUME MainEnds PROVE Loaded' /\ Returned'
  BY <1>25 DEF MainEnds
<1>26. CASE UNCHANGED vars
  BY <1>26 DEF vars
<1> QED BY <1>1, <1>2, <1>3, <1>4, <1>5, <1>6, <1>7, <1>8, <1>9, <1>10, <1>11,
           <1>12, <1>13, <1>14, <1>15, <1>16, <1>17, <1>18, <1>19, <1>20,
           <1>21, <1>22, <1>23, <1>24, <1>25, <1>26
    DEF Next, UserStep, InCall, WorkerStep, vars

(* No future is written at the start.                                      *)
LEMMA FutureInit == Init => FutureInv
BY WorkerPoolAssumption DEF Init, FutureInv, Written, Unwritten, Loaded, Returned, Empty, Full, VmThreads

(* The four parts are inductive together.                                  *)
LEMMA FutureNext == Inv /\ FutureInv /\ [Next]_vars => FutureInv'
BY WrittenStep, ReadStep DEF FutureInv

(* The state byte and the data of a future always agree with where its     *)
(* worker is.                                                              *)
THEOREM FutureInvHolds == Spec => []FutureInv
BY FutureInit, FutureNext, InvHolds, PTL DEF Spec

(* An await never returns a value that is half written.                    *)
THEOREM AwaitReadsAll == Spec => []AwaitedInFull
<1>1. FutureInv => AwaitedInFull
  BY DEF FutureInv, Returned, AwaitedInFull
<1> QED
  BY <1>1, FutureInvHolds, PTL

(* Each step of the program is a step of the abstract future or leaves it   *)
(* unchanged: WorkerPublish completes and ReadResult awaits.               *)
LEMMA AbstractStep ==
  ASSUME Inv, FutureInv, [Next]_vars
  PROVE  [Abstract!Next]_(Abstract!vars)
<1> USE DEF Inv, TypeInv, TypeOK, ArgIsTask, CurIsTask, AtTask, Step, WStep,
           poolVars, futVars, Abstract!vars, FutureInv, Written, Returned,
           Empty, Full
<1>1. ASSUME NEW a \in VmThreads, NEW t \in Tasks, Spawn(a, t) PROVE [Abstract!Next]_(Abstract!vars)
  BY <1>1 DEF Spawn
<1>2. ASSUME NEW a \in VmThreads, NEW t \in Tasks, Await(a, t) PROVE [Abstract!Next]_(Abstract!vars)
  BY <1>2 DEF Await
<1>3. ASSUME NEW a \in VmThreads, NEW t \in Tasks, Drop(a, t) PROVE [Abstract!Next]_(Abstract!vars)
  BY <1>3 DEF Drop
<1>4. ASSUME NEW a \in VmThreads, AddFails(a) PROVE [Abstract!Next]_(Abstract!vars)
  BY <1>4 DEF AddFails
<1>5. ASSUME NEW a \in VmThreads, AddLock(a) PROVE [Abstract!Next]_(Abstract!vars)
  BY <1>5 DEF AddLock
<1>6. ASSUME NEW a \in VmThreads, RequestWorker(a) PROVE [Abstract!Next]_(Abstract!vars)
  BY <1>6 DEF RequestWorker
<1>7. ASSUME NEW a \in VmThreads, LinkTask(a) PROVE [Abstract!Next]_(Abstract!vars)
  BY <1>7 DEF LinkTask
<1>8. ASSUME NEW a \in VmThreads, Signal(a) PROVE [Abstract!Next]_(Abstract!vars)
  BY <1>8 DEF Signal
<1>9. ASSUME NEW a \in VmThreads, AwaitDone(a) PROVE [Abstract!Next]_(Abstract!vars)
  BY <1>9 DEF AwaitDone
<1>10. ASSUME NEW a \in VmThreads, AwaitAborts(a) PROVE [Abstract!Next]_(Abstract!vars)
  BY <1>10 DEF AwaitAborts
<1>11. ASSUME NEW a \in VmThreads, ReadResult(a) PROVE [Abstract!Next]_(Abstract!vars)
  <2>1. PICK t \in Tasks : t = arg[a]
    BY <1>11 DEF ReadResult
  <2>2. state[t] = 2 /\ data[t] = "full"
    BY <1>11, <2>1, CompletedIsFull DEF ReadResult, Loaded
  <2>3. Abstract!Await(t)
    BY <1>11, <2>1, <2>2 DEF ReadResult, Abstract!Await
  <2> QED BY <2>3 DEF Abstract!Next
<1>12. ASSUME NEW w \in Workers, WorkerLock(w) PROVE [Abstract!Next]_(Abstract!vars)
  BY <1>12 DEF WorkerLock
<1>13. ASSUME NEW w \in Workers, WorkerPop(w) PROVE [Abstract!Next]_(Abstract!vars)
  BY <1>13 DEF WorkerPop
<1>14. ASSUME NEW w \in Workers, WorkerWait(w) PROVE [Abstract!Next]_(Abstract!vars)
  BY <1>14 DEF WorkerWait
<1>15. ASSUME NEW w \in Workers, TaskReturns(w) PROVE [Abstract!Next]_(Abstract!vars)
  BY <1>15 DEF TaskReturns
<1>16. ASSUME NEW w \in Workers, WorkerSent(w) PROVE [Abstract!Next]_(Abstract!vars)
  BY <1>16 DEF WorkerSent
<1>17. ASSUME NEW w \in Workers, WorkerClaim(w) PROVE [Abstract!Next]_(Abstract!vars)
  <2>1. PICK t \in Tasks : t = cur[w]
    BY <1>17 DEF WorkerClaim
  <2> QED BY <1>17, <2>1 DEF WorkerClaim
<1>18. ASSUME NEW w \in Workers, WorkerTag(w) PROVE [Abstract!Next]_(Abstract!vars)
  <2>1. PICK t \in Tasks : t = cur[w] /\ state[t] = 1
    BY <1>18 DEF WorkerTag
  <2> QED BY <1>18, <2>1 DEF WorkerTag
<1>19. ASSUME NEW w \in Workers, WorkerPayload(w) PROVE [Abstract!Next]_(Abstract!vars)
  <2>1. PICK t \in Tasks : t = cur[w] /\ state[t] = 1
    BY <1>19 DEF WorkerPayload
  <2> QED BY <1>19, <2>1 DEF WorkerPayload
<1>20. ASSUME NEW w \in Workers, WorkerPublish(w) PROVE [Abstract!Next]_(Abstract!vars)
  <2>1. PICK t \in Tasks : t = cur[w] /\ state[t] = 1 /\ data[t] = "full"
    BY <1>20 DEF WorkerPublish
  <2> DEFINE V == [u \in Tasks |-> IF state[u] = 2 THEN data[u] ELSE "none"]
  <2>2. state' = [state EXCEPT ![t] = 2] /\ UNCHANGED <<data, got>>
    BY <1>20, <2>1 DEF WorkerPublish
  <2>3. V[t] = "none"
    BY <2>1
  <2>4. V' = [V EXCEPT ![t] = "full"]
    <3>1. \A u \in Tasks : V'[u] = IF u = t THEN "full" ELSE V[u]
      BY <2>1, <2>2
    <3>2. V' = [u \in Tasks |-> V'[u]] /\ V = [u \in Tasks |-> V[u]]
      OBVIOUS
    <3> HIDE DEF V
    <3> QED BY <3>1, <3>2
  <2>5. Abstract!Complete(t)
    BY <2>2, <2>3, <2>4 DEF Abstract!Complete
  <2> QED BY <2>5 DEF Abstract!Next
<1>21. ASSUME NEW w \in Workers, WorkerDestroy(w) PROVE [Abstract!Next]_(Abstract!vars)
  BY <1>21 DEF WorkerDestroy
<1>22. ASSUME NEW w \in Workers, WorkerRelock(w) PROVE [Abstract!Next]_(Abstract!vars)
  BY <1>22 DEF WorkerRelock
<1>23. ASSUME NEW w \in Workers, SpuriousWakeup(w) PROVE [Abstract!Next]_(Abstract!vars)
  BY <1>23 DEF SpuriousWakeup
<1>24. ASSUME NEW w \in Workers, TaskPanics(w) PROVE [Abstract!Next]_(Abstract!vars)
  BY <1>24 DEF TaskPanics
<1>25. ASSUME MainEnds PROVE [Abstract!Next]_(Abstract!vars)
  BY <1>25 DEF MainEnds
<1>26. CASE UNCHANGED vars
  BY <1>26 DEF vars
<1> QED BY <1>1, <1>2, <1>3, <1>4, <1>5, <1>6, <1>7, <1>8, <1>9, <1>10, <1>11,
           <1>12, <1>13, <1>14, <1>15, <1>16, <1>17, <1>18, <1>19, <1>20,
           <1>21, <1>22, <1>23, <1>24, <1>25, <1>26
    DEF Next, UserStep, InCall, WorkerStep, vars

(* A shared future is completed once, by its worker, and an await returns  *)
(* the completed value after that: worker.zig and zAwait implement         *)
(* FutureSpec.                                                             *)
THEOREM FuturesImplementSpec == Spec => FuturesKeepTheirPromise
<1>1. Init => Abstract!Init
  BY DEF Init, Abstract!Init
<1>2. Inv /\ FutureInv /\ [Next]_vars => [Abstract!Next]_(Abstract!vars)
  BY AbstractStep
<1> QED
  BY <1>1, <1>2, InvHolds, FutureInvHolds, PTL DEF Spec, FuturesKeepTheirPromise, Abstract!Spec

-----------------------------------------------------------------------------
(* The memory a worker writes to.                                          *)
HeldWhilePending == \A t \in Tasks : owner[t] # Nobody /\ state[t] # 2 => held[t]

(* A future that is not awaited yet is held, when no program lets one go.   *)
LEMMA HeldStep ==
  ASSUME Inv, FutureInv, Dropped = {}, HeldWhilePending, [Next]_vars
  PROVE  HeldWhilePending'
<1> USE DEF Inv, TypeInv, TypeOK, ArgIsTask, TPCs, WPCs, Workers, VmThreads,
           Step, WStep, poolVars, futVars, FutureInv, Loaded, Returned,
           HeldWhilePending, MayFree, Owned
<1>1. ASSUME NEW a \in VmThreads, NEW t \in Tasks, Spawn(a, t) PROVE HeldWhilePending'
  <2>1. held' = [held EXCEPT ![t] = TRUE] /\ owner' = [owner EXCEPT ![t] = a] /\ state' = state
    BY <1>1 DEF Spawn
  <2> QED BY <2>1
<1>2. ASSUME NEW a \in VmThreads, NEW t \in Tasks, Await(a, t) PROVE HeldWhilePending'
  BY <1>2 DEF Await
<1>3. ASSUME NEW a \in VmThreads, NEW t \in Tasks, Drop(a, t) PROVE HeldWhilePending'
  BY <1>3 DEF Drop
<1>4. ASSUME NEW a \in VmThreads, AddFails(a) PROVE HeldWhilePending'
  BY <1>4 DEF AddFails
<1>5. ASSUME NEW a \in VmThreads, AddLock(a) PROVE HeldWhilePending'
  BY <1>5 DEF AddLock
<1>6. ASSUME NEW a \in VmThreads, RequestWorker(a) PROVE HeldWhilePending'
  BY <1>6 DEF RequestWorker
<1>7. ASSUME NEW a \in VmThreads, LinkTask(a) PROVE HeldWhilePending'
  BY <1>7 DEF LinkTask
<1>8. ASSUME NEW a \in VmThreads, Signal(a) PROVE HeldWhilePending'
  BY <1>8 DEF Signal
<1>9. ASSUME NEW a \in VmThreads, AwaitDone(a) PROVE HeldWhilePending'
  BY <1>9 DEF AwaitDone
<1>10. ASSUME NEW a \in VmThreads, AwaitAborts(a) PROVE HeldWhilePending'
  BY <1>10 DEF AwaitAborts
<1>11. ASSUME NEW a \in VmThreads, ReadResult(a) PROVE HeldWhilePending'
  BY <1>11 DEF ReadResult
<1>12. ASSUME NEW w \in Workers, WorkerLock(w) PROVE HeldWhilePending'
  BY <1>12 DEF WorkerLock
<1>13. ASSUME NEW w \in Workers, WorkerPop(w) PROVE HeldWhilePending'
  BY <1>13 DEF WorkerPop
<1>14. ASSUME NEW w \in Workers, WorkerWait(w) PROVE HeldWhilePending'
  BY <1>14 DEF WorkerWait
<1>15. ASSUME NEW w \in Workers, TaskReturns(w) PROVE HeldWhilePending'
  BY <1>15 DEF TaskReturns
<1>16. ASSUME NEW w \in Workers, WorkerSent(w) PROVE HeldWhilePending'
  BY <1>16 DEF WorkerSent
<1>17. ASSUME NEW w \in Workers, WorkerClaim(w) PROVE HeldWhilePending'
  <2>1. PICK t \in Tasks : t = cur[w]
    BY <1>17 DEF WorkerClaim, CurIsTask, AtTask
  <2> QED BY <1>17, <2>1 DEF WorkerClaim
<1>18. ASSUME NEW w \in Workers, WorkerTag(w) PROVE HeldWhilePending'
  BY <1>18 DEF WorkerTag
<1>19. ASSUME NEW w \in Workers, WorkerPayload(w) PROVE HeldWhilePending'
  BY <1>19 DEF WorkerPayload
<1>20. ASSUME NEW w \in Workers, WorkerPublish(w) PROVE HeldWhilePending'
  <2>1. PICK t \in Tasks : t = cur[w]
    BY <1>20 DEF WorkerPublish, CurIsTask, AtTask
  <2> QED BY <1>20, <2>1 DEF WorkerPublish
<1>21. ASSUME NEW w \in Workers, WorkerDestroy(w) PROVE HeldWhilePending'
  BY <1>21 DEF WorkerDestroy
<1>22. ASSUME NEW w \in Workers, WorkerRelock(w) PROVE HeldWhilePending'
  BY <1>22 DEF WorkerRelock
<1>23. ASSUME NEW w \in Workers, SpuriousWakeup(w) PROVE HeldWhilePending'
  BY <1>23 DEF SpuriousWakeup
<1>24. ASSUME NEW w \in Workers, TaskPanics(w) PROVE HeldWhilePending'
  BY <1>24 DEF TaskPanics
<1>25. ASSUME MainEnds PROVE HeldWhilePending'
  BY <1>25 DEF MainEnds
<1>26. CASE UNCHANGED vars
  BY <1>26 DEF vars
<1> QED BY <1>1, <1>2, <1>3, <1>4, <1>5, <1>6, <1>7, <1>8, <1>9, <1>10, <1>11,
           <1>12, <1>13, <1>14, <1>15, <1>16, <1>17, <1>18, <1>19, <1>20,
           <1>21, <1>22, <1>23, <1>24, <1>25, <1>26
    DEF Next, UserStep, InCall, WorkerStep, vars

(* When no program lets a future go before it has awaited it, a worker     *)
(* never writes to a FutureValue that its owner has freed.  Without that   *)
(* hypothesis it may.                                                      *)
THEOREM NoWriteAfterFree ==
  ASSUME Dropped = {}
  PROVE  Spec => []NoWriteToFreed
<1>1. Init => HeldWhilePending
  BY DEF Init, HeldWhilePending
<1>2. Inv /\ FutureInv /\ HeldWhilePending /\ [Next]_vars => HeldWhilePending'
  BY HeldStep
<1>3. Inv /\ FutureInv /\ HeldWhilePending => NoWriteToFreed
  <2> SUFFICES ASSUME Inv, FutureInv, HeldWhilePending,
                      NEW w \in Workers, wpc[w] \in {"tag", "payload", "publish"}
               PROVE  held[cur[w]]
    BY DEF NoWriteToFreed
  <2>1. PICK t \in Tasks : t = cur[w]
    BY DEF Inv, TypeInv, CurIsTask, AtTask
  <2>2. state[t] = 1
    BY <2>1 DEF FutureInv, Written
  <2>3. t \in LiveTasks
    BY <2>1 DEF Inv, PlaceInv, LiveIsPlaced, InWorker
  <2>4. owner[t] # Nobody
    BY <2>3 DEF Inv, PlaceInv, LiveIsPlaced, LiveTasks
  <2> QED
    BY <2>1, <2>2, <2>4 DEF HeldWhilePending
<1> QED
  BY <1>1, <1>2, <1>3, InvHolds, FutureInvHolds, PTL DEF Spec
=============================================================================
