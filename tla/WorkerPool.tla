----------------------------- MODULE WorkerPool -----------------------------
(***************************************************************************)
(* `spawn`, the worker pool that runs spawned threads, and the futures     *)
(* that carry their results back: worker.zig, the shared state of          *)
(* sync.zig, zAwait of vm.zig and the spawn code of builtins/core.{cy,zig}.*)
(*                                                                         *)
(* A task is one call of `spawn`: a function to run in a VM thread of its  *)
(* own, and a future owned by the VM thread that called spawn.  The VM     *)
(* threads are the main one and one per task; they run on OS threads, the  *)
(* main one and the workers of the pool.  Every access to shared memory    *)
(* that another OS thread can see is a step of its own.                    *)
(***************************************************************************)
EXTENDS Integers, Sequences, FiniteSets

CONSTANTS
  Tasks,       (* the calls of spawn a program makes (bound)             *)
  Main,        (* the main VM thread                                     *)
  Nobody,      (* no task, no thread                                     *)
  MaxWorkers,  (* slots of the pool: the number of CPUs less one         *)
  (* the program: what its user code does                                *)
  Spawners,    (* the VM threads that call spawn                         *)
  Dropped,     (* futures their owner may let go without awaiting them   *)
  Boxed,       (* tasks whose result @send copies to the owner's heap    *)
  Panicking,   (* tasks whose function may panic                         *)
  Endless      (* tasks whose function never returns                     *)

VmThreads == Tasks \cup {Main}
Workers == 1..MaxWorkers

ASSUME WorkerPoolAssumption ==
  /\ IsFiniteSet(Tasks)
  /\ Main \notin Tasks /\ Nobody \notin VmThreads
  /\ MaxWorkers \in Nat
  /\ (VmThreads \cup {Nobody}) \cap Workers = {}
  /\ Spawners \subseteq VmThreads
  /\ Dropped \subseteq Tasks /\ Boxed \subseteq Tasks
  /\ Panicking \subseteq Tasks /\ Endless \subseteq Tasks

VARIABLES
  mutex,    (* Pool.mutex: the OS thread inside, a worker or the VM thread *)
            (* that runs on it, or Nobody                                  *)
  queue,    (* Pool.task_queue, first node first                           *)
  last,     (* Pool.last_task_node                                         *)
  active,   (* Pool.active_workers                                         *)
  num,      (* Pool.num_workers                                            *)
  wpc, cur, (* each worker: where it is, and its task                      *)
  tpc, arg, (* each VM thread: where it is, and the task it spawns/awaits  *)
  owner,    (* the VM thread that holds the future of each task            *)
  thread,   (* the VM thread object of each task                           *)
  held,     (* is the FutureValue of each task allocated                   *)
  state,    (* the FutureSyncState byte of each task                       *)
  data,     (* the `data` option of each FutureValue, as memory shows it   *)
  got,      (* what the await of each future read                          *)
  crash     (* what stopped the process, "none" while it runs              *)

poolVars == <<mutex, queue, last, active, num>>
futVars == <<owner, thread, held, state, data, got>>
vars == <<poolVars, wpc, cur, tpc, arg, futVars, crash>>

Init ==
  /\ mutex = Nobody /\ queue = <<>> /\ last = Nobody /\ active = 0 /\ num = 0
  /\ wpc = [w \in Workers |-> "unborn"]
  /\ cur = [w \in Workers |-> Nobody]
  /\ tpc = [a \in VmThreads |-> IF a = Main THEN "run" ELSE "off"]
  /\ arg = [a \in VmThreads |-> Nobody]
  /\ owner = [t \in Tasks |-> Nobody]
  /\ thread = [t \in Tasks |-> "none"]
  /\ held = [t \in Tasks |-> FALSE]
  /\ state = [t \in Tasks |-> 0]
  /\ data = [t \in Tasks |-> "none"]
  /\ got = [t \in Tasks |-> "none"]
  /\ crash = "none"

(* A VM thread or a worker moves on, while the process runs.               *)
Step(a, from, to) ==
  crash = "none" /\ tpc[a] = from /\ tpc' = [tpc EXCEPT ![a] = to]
WStep(w, from, to) ==
  crash = "none" /\ wpc[w] = from /\ wpc' = [wpc EXCEPT ![w] = to]

-----------------------------------------------------------------------------
(* spawn.                                                                  *)

(* The body of `spawn` up to @start_thread: a new VM thread, its arguments *)
(* sent to its heap, a future with a shared state byte of 0.               *)
Spawn(a, t) ==
  /\ a \in Spawners /\ owner[t] = Nobody
  /\ Step(a, "run", "lock")
  /\ arg' = [arg EXCEPT ![a] = t]
  /\ owner' = [owner EXCEPT ![t] = a]
  /\ thread' = [thread EXCEPT ![t] = "live"]
  /\ held' = [held EXCEPT ![t] = TRUE]
  /\ UNCHANGED <<poolVars, wpc, cur, state, data, got, crash>>

(* add_thread_task takes the pool mutex.                                   *)
AddLock(a) ==
  /\ Step(a, "lock", "request")
  /\ mutex = Nobody /\ mutex' = a
  /\ UNCHANGED <<queue, last, active, num, wpc, cur, arg, futVars, crash>>

(* Faulty variants: the limit is forgotten; a worker is only requested when *)
(* more are active than there are.                                         *)
NeedsWorker_no_limit == ~(active < num)
NeedsWorker_never == ~(active <= num) /\ num # MaxWorkers

(* request_idle_worker: nothing when a started worker is not active or the *)
(* slots are used up, else a new OS thread in the next slot.               *)
NeedsWorker == ~(active < num) /\ num # MaxWorkers

RequestWorker(a) ==
  /\ Step(a, "request", "link")
  /\ IF NeedsWorker
     THEN /\ num' = num + 1
          /\ wpc' = [wpc EXCEPT ![num + 1] = "lock"]
     ELSE UNCHANGED <<num, wpc>>
  /\ UNCHANGED <<mutex, queue, last, active, cur, arg, futVars, crash>>

(* std.Thread.spawn can fail, and so can the allocation of the Task, after *)
(* a worker may have been started for it: the error leaves add_thread_task *)
(* through its deferred unlock and start_thread raises it as a panic.      *)
AddFails(a) ==
  /\ \/ Step(a, "request", "off") /\ NeedsWorker
     \/ Step(a, "link", "off")
  /\ mutex' = Nobody
  /\ crash' = "spawn"
  /\ UNCHANGED <<queue, last, active, num, wpc, cur, arg, futVars>>

(* A faulty variant: the new node becomes the first.                       *)
LinkAfter_first(q, at, t) == <<t>> \o q

(* The list after linking t at `at`, the node last_task_node points to: a  *)
(* null pointer makes t the first node of the list, and a node that is no  *)
(* longer in the list links t to nothing.                                  *)
LinkAfter(q, at, t) ==
  IF at = Nobody THEN <<t>>
  ELSE IF \E i \in DOMAIN q : q[i] = at
       THEN LET i == CHOOSE i \in DOMAIN q : q[i] = at
            IN  [j \in 1..(Len(q) + 1) |->
                   IF j <= i THEN q[j] ELSE IF j = i + 1 THEN t ELSE q[j - 1]]
       ELSE q

(* A faulty variant: last_task_node is set for the first node only.        *)
LinkTask_last_once(a) ==
  /\ Step(a, "link", "signal")
  /\ queue' = LinkAfter(queue, last, arg[a])
  /\ last' = IF last = Nobody THEN arg[a] ELSE last
  /\ mutex' = Nobody
  /\ UNCHANGED <<active, num, wpc, cur, arg, futVars, crash>>

(* The rest of the critical section: a Task node is linked, and the mutex  *)
(* released by the deferred unlock.                                        *)
LinkTask(a) ==
  /\ Step(a, "link", "signal")
  /\ queue' = LinkAfter(queue, last, arg[a])
  /\ last' = arg[a]
  /\ mutex' = Nobody
  /\ UNCHANGED <<active, num, wpc, cur, arg, futVars, crash>>

(* cond.signal, outside the critical section, wakes one waiting worker.    *)
Waiting == {w \in Workers : wpc[w] = "wait"}

(* A faulty variant: no signal while a worker is active, which will look   *)
(* at the list when it is done.                                            *)
Signal_when_idle(a) ==
  /\ Step(a, "signal", "run")
  /\ arg' = [arg EXCEPT ![a] = Nobody]
  /\ IF Waiting = {} \/ active > 0 THEN UNCHANGED wpc
     ELSE \E w \in Waiting : wpc' = [wpc EXCEPT ![w] = "lock"]
  /\ UNCHANGED <<poolVars, cur, futVars, crash>>

Signal(a) ==
  /\ Step(a, "signal", "run")
  /\ arg' = [arg EXCEPT ![a] = Nobody]
  /\ IF Waiting = {} THEN UNCHANGED wpc
     ELSE \E w \in Waiting : wpc' = [wpc EXCEPT ![w] = "lock"]
  /\ UNCHANGED <<poolVars, cur, futVars, crash>>

-----------------------------------------------------------------------------
(* Worker.run.                                                             *)

(* A new or a woken worker takes the mutex.                                *)
WorkerLock(w) ==
  /\ WStep(w, "lock", "pop")
  /\ mutex = Nobody /\ mutex' = w
  /\ UNCHANGED <<queue, last, active, num, cur, tpc, arg, futVars, crash>>

(* A faulty variant: last_task_node still points to the node just taken.   *)
WorkerPop_keeps_last(w) ==
  /\ WStep(w, "pop", "run")
  /\ queue # <<>>
  /\ queue' = Tail(queue)
  /\ active' = active + 1
  /\ mutex' = Nobody
  /\ cur' = [cur EXCEPT ![w] = Head(queue)]
  /\ tpc' = [tpc EXCEPT ![Head(queue)] = "run"]
  /\ UNCHANGED <<last, num, arg, futVars, crash>>

(* popFirst succeeds: the worker is active, leaves the mutex and calls the *)
(* task's function.                                                        *)
WorkerPop(w) ==
  /\ WStep(w, "pop", "run")
  /\ queue # <<>>
  /\ queue' = Tail(queue)
  /\ last' = IF Len(queue) = 1 THEN Nobody ELSE last
  /\ active' = active + 1
  /\ mutex' = Nobody
  /\ cur' = [cur EXCEPT ![w] = Head(queue)]
  /\ tpc' = [tpc EXCEPT ![Head(queue)] = "run"]
  /\ UNCHANGED <<num, arg, futVars, crash>>

(* popFirst finds no task: cond.wait leaves the mutex and sleeps in one    *)
(* step.                                                                   *)
WorkerWait(w) ==
  /\ WStep(w, "pop", "wait")
  /\ queue = <<>>
  /\ mutex' = Nobody
  /\ UNCHANGED <<queue, last, active, num, cur, tpc, arg, futVars, crash>>

(* std.Thread.Condition allows a wake-up that no signal caused.            *)
SpuriousWakeup(w) ==
  /\ WStep(w, "wait", "lock")
  /\ UNCHANGED <<poolVars, cur, tpc, arg, futVars, crash>>

(* The futures a VM thread may free: those it has awaited, and those the   *)
(* program lets go.                                                        *)
Owned(a) == {t \in Tasks : owner[t] = a}
MayFree(t) == got[t] # "none" \/ t \in Dropped \/ ~held[t]

(* The function of @thread_entry returns and releases the futures it       *)
(* holds; a boxed result is then copied to the heap of the future's owner. *)
TaskReturns(w) ==
  LET t == cur[w] IN
  /\ WStep(w, "run", IF t \in Boxed THEN "send" ELSE "cas")
  /\ t \notin Endless
  /\ \A u \in Owned(t) : MayFree(u)
  /\ Step(t, "run", "off")
  /\ held' = [u \in Tasks |-> held[u] /\ u \notin Owned(t)]
  /\ UNCHANGED <<poolVars, cur, arg, owner, thread, state, data, got, crash>>

(* callFunc2 fails when the function panics, and the worker stops the      *)
(* process with std.debug.panic.                                           *)
TaskPanics(w) ==
  /\ crash = "none"
  /\ wpc[w] = "run" /\ cur[w] \in Panicking /\ tpc[cur[w]] = "run"
  /\ crash' = "task"
  /\ UNCHANGED <<poolVars, wpc, cur, tpc, arg, futVars>>

WorkerSent(w) ==
  /\ WStep(w, "send", "cas")
  /\ UNCHANGED <<poolVars, cur, tpc, arg, futVars, crash>>

(* A faulty variant: the future is marked completed before it is written.  *)
WorkerClaim_completes(w) ==
  /\ WStep(w, "cas", "tag")
  /\ state[cur[w]] = 0
  /\ state' = [state EXCEPT ![cur[w]] = 2]
  /\ UNCHANGED <<poolVars, cur, tpc, arg, owner, thread, held, data, got, crash>>

(* The compare-and-swap from pending (0) to writing (1) when it succeeds.  *)
(* No code stores 3, so the loop never meets an invalidated future.        *)
WorkerClaim(w) ==
  /\ WStep(w, "cas", "tag")
  /\ state[cur[w]] = 0
  /\ state' = [state EXCEPT ![cur[w]] = 1]
  /\ UNCHANGED <<poolVars, cur, tpc, arg, owner, thread, held, data, got, crash>>

(* The option tag of fut.data.                                             *)
WorkerTag(w) ==
  /\ WStep(w, "tag", "payload")
  /\ data' = [data EXCEPT ![cur[w]] = "tagged"]
  /\ UNCHANGED <<poolVars, cur, tpc, arg, owner, thread, held, state, got, crash>>

(* The payload of fut.data.                                                *)
WorkerPayload(w) ==
  /\ WStep(w, "payload", "publish")
  /\ data' = [data EXCEPT ![cur[w]] = "full"]
  /\ UNCHANGED <<poolVars, cur, tpc, arg, owner, thread, held, state, got, crash>>

(* A faulty variant: the future is left in the writing state.              *)
WorkerPublish_forgets(w) ==
  /\ WStep(w, "publish", "destroy")
  /\ UNCHANGED <<poolVars, cur, tpc, arg, futVars, crash>>

(* The releasing store of completed (2).                                   *)
WorkerPublish(w) ==
  /\ WStep(w, "publish", "destroy")
  /\ state' = [state EXCEPT ![cur[w]] = 2]
  /\ UNCHANGED <<poolVars, cur, tpc, arg, owner, thread, held, data, got, crash>>

(* thread.deinit, and the Thread and Task objects are destroyed.  (A Trace *)
(* build stops the program before, when the thread's heap is not empty;    *)
(* what is left in a heap is the matter of HeapPool and Objects.)          *)
WorkerDestroy(w) ==
  /\ WStep(w, "destroy", "relock")
  /\ thread' = [thread EXCEPT ![cur[w]] = "freed"]
  /\ cur' = [cur EXCEPT ![w] = Nobody]
  /\ UNCHANGED <<poolVars, tpc, arg, owner, held, state, data, got, crash>>

(* A faulty variant: the worker stays counted as active.                   *)
WorkerRelock_stays_active(w) ==
  /\ WStep(w, "relock", "pop")
  /\ mutex = Nobody /\ mutex' = w
  /\ UNCHANGED <<queue, last, active, num, cur, tpc, arg, futVars, crash>>

(* The deferred end of an iteration: back in the mutex, no longer active,  *)
(* and on to the next popFirst without leaving the mutex.                  *)
WorkerRelock(w) ==
  /\ WStep(w, "relock", "pop")
  /\ mutex = Nobody /\ mutex' = w
  /\ active' = active - 1
  /\ UNCHANGED <<queue, last, num, cur, tpc, arg, futVars, crash>>

-----------------------------------------------------------------------------
(* Owners of futures.                                                      *)

(* Future.await enters zAwait.                                             *)
Await(a, t) ==
  /\ owner[t] = a /\ held[t] /\ got[t] = "none"
  /\ Step(a, "run", "await")
  /\ arg' = [arg EXCEPT ![a] = t]
  /\ UNCHANGED <<poolVars, wpc, cur, futVars, crash>>

(* A faulty variant: any state but pending ends the wait.                  *)
AwaitDone_not_pending(a) ==
  /\ Step(a, "await", "read")
  /\ state[arg[a]] # 0
  /\ UNCHANGED <<poolVars, wpc, cur, arg, futVars, crash>>

(* zAwait loads completed: at once, or at last in the main thread's loop.  *)
AwaitDone(a) ==
  /\ Step(a, "await", "read")
  /\ state[arg[a]] = 2
  /\ UNCHANGED <<poolVars, wpc, cur, arg, futVars, crash>>

(* Any other VM thread stops the process: @panic("TODO").                  *)
AwaitAborts(a) ==
  /\ crash = "none"
  /\ tpc[a] = "await" /\ a # Main /\ state[arg[a]] # 2
  /\ crash' = "await"
  /\ UNCHANGED <<poolVars, wpc, cur, tpc, arg, futVars>>

(* await returns the payload of `data`.                                    *)
ReadResult(a) ==
  /\ Step(a, "read", "run")
  /\ got' = [got EXCEPT ![arg[a]] = data[arg[a]]]
  /\ arg' = [arg EXCEPT ![a] = Nobody]
  /\ UNCHANGED <<poolVars, wpc, cur, owner, thread, held, state, data, crash>>

(* The last reference to a future goes: its FutureValue is freed.          *)
Drop(a, t) ==
  /\ crash = "none"
  /\ tpc[a] = "run" /\ owner[t] = a /\ held[t] /\ MayFree(t)
  /\ held' = [held EXCEPT ![t] = FALSE]
  /\ UNCHANGED <<poolVars, wpc, cur, tpc, arg, owner, thread, state, data, got, crash>>

(* The main program ends: what it holds is released.                       *)
MainEnds ==
  /\ Step(Main, "run", "off")
  /\ \A t \in Owned(Main) : MayFree(t)
  /\ held' = [t \in Tasks |-> held[t] /\ t \notin Owned(Main)]
  /\ UNCHANGED <<poolVars, wpc, cur, arg, owner, thread, state, data, got, crash>>

-----------------------------------------------------------------------------
(* A call a VM thread is in, as opposed to what its program does next.     *)
InCall(a) ==
  \/ AddLock(a) \/ RequestWorker(a) \/ LinkTask(a) \/ Signal(a)
  \/ AwaitDone(a) \/ AwaitAborts(a) \/ ReadResult(a)

WorkerStep(w) ==
  \/ WorkerLock(w) \/ WorkerPop(w) \/ WorkerWait(w)
  \/ TaskReturns(w) \/ WorkerSent(w) \/ WorkerClaim(w) \/ WorkerTag(w)
  \/ WorkerPayload(w) \/ WorkerPublish(w) \/ WorkerDestroy(w) \/ WorkerRelock(w)

UserStep(a) ==
  \/ \E t \in Tasks : Spawn(a, t) \/ Await(a, t) \/ Drop(a, t)
  \/ AddFails(a)

Next ==
  \/ \E a \in VmThreads : UserStep(a) \/ InCall(a)
  \/ \E w \in Workers : WorkerStep(w) \/ SpuriousWakeup(w) \/ TaskPanics(w)
  \/ MainEnds

Spec == Init /\ [][Next]_vars

(* The operating system runs every OS thread, so a call that is under way  *)
(* and a worker with something to do go on; contention for the mutex is    *)
(* resolved in favour of each contender in the end.  A spawned function    *)
(* returns unless the program says it does not (Endless).  Nothing obliges *)
(* a program to spawn, await or end.                                       *)
Fairness ==
  /\ \A a \in Spawners :
       /\ WF_vars(InCall(a))
       /\ SF_vars(AddLock(a))
  /\ \A w \in Workers :
       /\ WF_vars(WorkerStep(w))
       /\ SF_vars(WorkerLock(w) \/ WorkerRelock(w))

FairSpec == Spec /\ Fairness
-----------------------------------------------------------------------------
(* Properties.                                                             *)

WPCs == {"unborn", "lock", "pop", "wait", "run", "send", "cas", "tag",
         "payload", "publish", "destroy", "relock"}
TPCs == {"off", "run", "lock", "request", "link", "signal", "await", "read"}

TypeOK ==
  /\ mutex \in VmThreads \cup Workers \cup {Nobody}
  /\ queue \in Seq(Tasks) /\ last \in Tasks \cup {Nobody}
  /\ active \in Int /\ num \in 0..MaxWorkers
  /\ wpc \in [Workers -> WPCs] /\ cur \in [Workers -> Tasks \cup {Nobody}]
  /\ tpc \in [VmThreads -> TPCs] /\ arg \in [VmThreads -> Tasks \cup {Nobody}]
  /\ owner \in [Tasks -> VmThreads \cup {Nobody}]
  /\ thread \in [Tasks -> {"none", "live", "freed"}]
  /\ held \in [Tasks -> BOOLEAN]
  /\ state \in [Tasks -> 0..2]
  /\ data \in [Tasks -> {"none", "tagged", "full"}]
  /\ got \in [Tasks -> {"none", "tagged", "full"}]
  /\ crash \in {"none", "spawn", "await", "task"}

(* last_task_node is the last node of the list, and null exactly when the  *)
(* list is empty: popFirst and add_thread_task keep it so together.        *)
LastIsTail == last = IF queue = <<>> THEN Nobody ELSE queue[Len(queue)]

(* A spawned task is in one place only, from its spawn until its thread is *)
(* destroyed: with the VM thread that adds it, in the list, or with one    *)
(* worker.  So it is neither lost nor run twice.                           *)
AddingIt(t) == {a \in VmThreads : tpc[a] \in {"lock", "request", "link"} /\ arg[a] = t}
QueuedAt(t) == {i \in DOMAIN queue : queue[i] = t}
RunningIt(t) == {w \in Workers : cur[w] = t}

OnePlace ==
  crash = "none" => \A t \in Tasks :
    Cardinality(AddingIt(t)) + Cardinality(QueuedAt(t)) + Cardinality(RunningIt(t))
      = IF thread[t] = "live" THEN 1 ELSE 0

(* num_workers counts the OS threads started, in slot order, and           *)
(* active_workers those between popFirst and the end of their iteration;   *)
(* request_idle_worker decides on nothing else.                            *)
Busy == {w \in Workers : wpc[w] \in WPCs \ {"unborn", "lock", "pop", "wait"}}

CountersMatch ==
  /\ \A w \in Workers : wpc[w] = "unborn" <=> w > num
  /\ active = Cardinality(Busy)

(* No wake-up is lost: while a worker sleeps in cond.wait, every task in    *)
(* the list has a signal on its way or a worker that is awake and about to *)
(* look at the list.  Spurious wake-ups, and signals that find nobody      *)
(* asleep, cannot make up a deficit.                                       *)
Signalling == {a \in VmThreads : tpc[a] = "signal"}
Awake == {w \in Workers : wpc[w] \in {"lock", "pop", "relock"}}

NoLostWakeup ==
  (crash = "none" /\ Waiting # {})
    => Len(queue) <= Cardinality(Signalling) + Cardinality(Awake)

(* The owner of a future has it for as long as a worker writes to it.      *)
(* sync.zig: state 1 is there "to prevent a race when the owner            *)
(* invalidates the future".                                                *)
NoWriteToFreed ==
  \A w \in Workers : wpc[w] \in {"tag", "payload", "publish"} => held[cur[w]]

(* docs.md: "When `await` resumes, the expression evaluates to the         *)
(* completed value": never to a value half written.                        *)
AwaitedInFull ==
  \A t \in Tasks : got[t] # "none" => got[t] = "full" /\ state[t] = 2

(* Tasks start in the order they were added: the list is only taken from   *)
(* at its front and added to at its back, although its two ends are held   *)
(* through two pointers that workers and spawners move.                    *)
StartedInOrder ==
  [][ \/ queue # <<>> /\ queue' = Tail(queue)
      \/ Len(queue) <= Len(queue') /\ SubSeq(queue', 1, Len(queue)) = queue]_queue

(* Under fairness: a task that was spawned completes its future, unless    *)
(* the process stops.                                                      *)
EveryTaskCompletes ==
  \A t \in Tasks : thread[t] = "live" ~> (state[t] = 2 \/ crash # "none")

(* Under fairness: the main thread gets out of every await.                *)
AwaitReturns == tpc[Main] = "await" ~> (tpc[Main] = "run" \/ crash # "none")

(* The futures of spawned tasks are futures: completed when the shared     *)
(* state says so.                                                          *)
Abstract == INSTANCE FutureSpec WITH
  Futures <- Tasks, Values <- {"full"}, Pending <- "none",
  value <- [t \in Tasks |-> IF state[t] = 2 THEN data[t] ELSE "none"]

FuturesKeepTheirPromise == Abstract!Spec
=============================================================================
