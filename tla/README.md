# Cyber: a TLA+ model of the concurrent runtime

Cyber is a scripting language: a compiler to bytecode (or C), a register VM, reference-counted
heaps, and threads. This directory holds TLA+ modules that model the parts of its runtime where
order and interleaving matter, TLC configurations that check them on small instances, and proofs,
checked by TLAPS, for instances of any size. Paths below are relative to `src/src/` unless they
start with `docs/`.

Run from this directory:

    tlc -workers 2 -config WorkerPool_safety.cfg MCWorkerPool
    tlapm WorkerPoolProofs.tla

## 1. The system: components, state, interactions

| Component | Source | State it keeps | Operations | Model |
|---|---|---|---|---|
| Reader/writer spin lock | `sync.zig` 46-82 | one byte: 7-bit reader count, writing bit | `read_lock`, `read_unlock`, `write_lock`, `write_unlock` | `RWLock` |
| Worker pool | `worker.zig` | task list with a tail pointer, counters, mutex, condition | `add_thread_task`, `request_idle_worker`, `Worker.run` | `WorkerPool` |
| Shared futures | `sync.zig` 3-10, `worker.zig`, `vm.zig` 952, `builtins/core.cy` | state byte and `data` of a `FutureValue`, who holds it | `spawn`, `await`, release | `WorkerPool` |
| Heap of a thread | `heap.zig`, `heap_value.zig`, `vm.c` 90-217, `thread.zig` 105 | pages, free list, reference counts, trace counters | allocate, retain, release, destroy, sweep | `HeapPool` |
| Stack of a thread, calls, unwinding | `vm.c`, `thread.zig`, `bc_gen.zig` 2012 | registers, frames, pointers into the stack | call, return, `CHK_STK`, grow, patch, unwind | `Frames` |
| Generators | `vm.c` 1341-1437 | saved registers, status, the frame to return to | `RET_GEN`, `GEN_NEXT`, `RET_Y`, `GEN_END` | `Frames` |
| Interpreter: integers | `vm.c`, `bc_gen.zig` 1628-1700 | the words of registers | arithmetic, comparisons, conversions, memory | `Values` |
| Interpreter and C runtime: references | `vm.c`, `aot.c`, `sema.zig`, `builtins/core.cy` 2700-2800 | variables, objects, two sets of counts | copy, assign, destruct, cast, closures, strings | `Objects` |
| Line editor of the REPL | `lib/linenoise/linenoise.c`, `cli.zig` 438 | the line, the history, the terminal | a key, completion, drawing, history | `LineEdit` |
| Local futures | `builtins/core.{cy,zig}`, `vm.c` AWAIT | continuation list, `completed` | `FutureResolver.complete`, `await` | planned |
| Sequence lock | `sync.zig` 12-44 | one counter | read, retry, write | none (no user) |
| Collections, queues, caches | `map.zig`, `fifo.zig`, `cache.zig` | hash table, ring buffer | put, get, remove, grow | planned |
| Template expansion | `template.zig`, `cte.zig`, `sema_*.zig` | instances by arguments | expand once, recursive use | planned |
| Compiler front end | `tokenizer.zig`, `parser.zig`, `sema.zig`, `chunk.zig`, `compiler.zig` | tokens, tree, symbols, IR | passes in sequence | but for ownership, none |
| Back ends | `bc_gen.zig`, `cgen.zig`, `jit/`, `llvm_gen.zig` | buffers of code | emit | what is emitted for integers and frames |
| Embedding, CLI, std | `capi.zig`, `lib.zig`, `main.zig`, `cli.zig`, `std/` | - | calls, I/O | none |

How they interact. The main VM thread runs the program. `spawn` makes a VM thread object with a
heap of its own, copies the arguments there, makes a future in the spawner's heap and hands a task
to the pool. A worker, an OS thread, pops the task, calls the function in the task's VM thread,
copies a result that is not a plain value to the *spawner's* heap (`@thread_entry`, `@send`),
writes the result to the future, publishes it through the state byte and destroys the VM thread
object. The spawner reads it in `await`. Each VM thread frees what it holds by reference counting;
a panic frees its whole heap in one sweep. All VM threads read run-time type names under the
reader/writer lock, which the compiler takes for writing.

What is hard here: the list's two ends move under a mutex but its wake-ups do not; the future is
shared with no lock but a byte; one thread allocates in the heap of another; destruction is
nested and re-entered; the free list is threaded through memory that is reused; growth and
allocation fail half-way; the stack moves under pointers into it; two back ends and an editor each keep
a picture of a state that something else changes. What each component must do to be correct is listed in section 3, with
the property that says it. PROJECT.json lists the hazards at their lines.

## 2. Modules

    RWLockSpec   <- RWLock       <- MCRWLock        RWLockProofs
    FutureSpec   <- WorkerPool   <- MCWorkerPool    WorkerPoolProofs
                    HeapPool     <- MCHeapPool      HeapProofs
    CallStack    <- Frames       <- MCFrames        FramesProofs
                    Values       <- MCValues        ValuesProofs
                    Objects      <- MCObjects       ObjectsProofs
    Editing      <- LineEdit     <- MCLineEdit      LineEditProofs <- LineEditScreen

In each row the module on the left is the abstract specification that the next one implements; the
proofs extend the module itself, never its instance for TLC.

`RWLock`. One action per atomic access: the load that ends the spin (`ReadLoad`, `WriteLoad`), the
compare-and-swap that succeeds (`ReadCas`, `WriteCas`), the unlocks. A failed compare-and-swap
changes nothing. `seen` is the local `state`, which the code never loads again: this is why a
reader that saw others may wait for a count that does not come back (`LoneReaderAcquires` is the
part of the promise that holds). The overflow of `readers + 1` is a state of its own. `MinusOne`
is the subtraction on the whole byte, with its borrow. `RWLockSpec` is the lock with no word.

`WorkerPool`. `queue` and `last` are `task_queue` and `last_task_node`; `LinkAfter` links at the
node `last` points to, wherever that is, so a stale tail shows. `active` and `num` are the
counters. A worker (`wpc`, `cur`) goes `lock, pop, run, [send], cas, tag, payload, publish,
destroy, relock, pop ...`, or waits. `WorkerWait` leaves the mutex and sleeps in one step, as a
condition variable does; `Signal` runs outside the mutex, as in the code, and `SpuriousWakeup` is
what `std.Thread.Condition` allows. A VM thread (`tpc`, `arg`) goes `run, lock, request, link,
signal, run` in `spawn` and `run, await, read, run` in `await`. The result is written in two
memory writes (the option tag, then the payload) between a compare-and-swap and a releasing store.
`held` says whether the `FutureValue` is allocated. The constants `Spawners`, `Dropped`, `Boxed`,
`Panicking`, `Endless` are the program: who spawns, which futures may be let go unawaited, which
results are copied to the owner's heap, and which functions may panic or never return. `Step` and
`WStep` have the guard `crash = "none"`: a stopped process does nothing more. `FutureSpec` is what
a future promises its owner.

`HeapPool`. The heap of one VM thread, which only the OS thread that runs it uses. `next`, `head`,
`tail` are the links of the free list, `meta` what a slot holds. An object is named by its slot; a
big object has memory of its own and its slot holds the pointer, so small and big objects differ
only where an allocation fails (`BigFails` leaves the slot "half"). `refs` counts the references
in registers and globals, `fields` those in objects; `rc` and `refCounts` are the program's
counts of the same. The calls of `destroyObject` under way are the stack `work`: destruction is one
step per field, so that the states in between are checked. `Panic` and the allocation failures
begin the sweep, which goes over the slots one by one. `SweepLost` is reached when the sweep follows
a pointer that nothing wrote; what happens then is not defined and the model stops there. `Trace`
chooses between the two free-list disciplines (front without Trace, back with it).

`CallStack` and `Frames`. `CallStack` is what calls promise a program: a sequence of activations with
locals of their own, references that name an activation and a local, generators, and a trace of a panic.
Its constant `YieldKeeps` says what a resumed generator finds in its locals: what it held at its last yield, as
the documentation has it (`Documented`), or the arguments it was made with and nothing else, as in the code
(`Abstract`): RET_GEN copies the arguments, each resume lays out this copy, and RET_Y writes nothing to it.
`Frames` is the stack of `vm.c` and `thread.zig`:
registers with tagged words, the layout that `bc_gen.zig` gives a frame, one action per instruction
that touches a frame, `ChkStk` with the room it asks for, `GrowInPlace` and `GrowMove` for the two
ways `growStackPrecise` ends, `Patched` for its walk over the frames and the table of pointers by pc
(`PtrRegs`), `Unwind` for the walk of a panic. The frames are walked by three parts of the code, by
returning, growing and panicking, and each reads the headers in its own way (`Step`, `Chain`). A walk that meets a word it does not expect is `Lost`,
the use of such a word gives `mode = "undefined"`, which no step of `CallStack` allows.

`Values`. The registers as words, beside the values the language gives the variables in them. An
integer of a narrow type lies in the low bits of a word, and each instruction leaves above it what
`vm.c` leaves there; an action is an expression, with the extensions `bc_gen.zig` emits for it.
Floats are bit patterns and the operations on them constants of the model.

`Objects`. Each action is a statement that `sema.zig` compiles to retains, releases and moves, carried
out by two machines at once: `vm` (what `vm.c` does) and `aot` (what `aot.c` does). A destructor
(`builtins/core.cy`, `@deinitObject`) runs in steps on the stack `todo`. A field is set in two halves:
`SetField` owns the new value (the hidden local `_res`, here `store`) and destroys the old one, and only when
the destructors it started have ended does `FieldSet` overwrite the field, which until then holds the words of
a value that may be gone (`sema.zig` 1472-1483). For the counts the object owns the new value from the
start (`Owns`). The destructors are those the compiler generates: a method `@deinit` of the program, which
`@destruct` calls first (`builtins/core.cy` 2818) and which could read such a field, is not modelled.
An option of a reference is unwrapped with a default (`UnwrapOr`), which both back ends compile; `!` on it is the
instruction UnwrapNZ in the VM, for which `cgen.zig` generates nothing (`genExpr` answers `error.TODO`), so it is
no statement of a program that both run. Where a machine decides
something (a cast, the last release, whether strings are equal), each decides from its own state and
`mode = "diverged"` records that they differ. `pool` and `spoilt` tell whether an object's memory went
back to where it came from.

`Editing` and `LineEdit`. `Editing` is what an editor promises the person at the keyboard: a line in
two parts, before and after the cursor, a completion that may be shown instead (`choice`), and a history. Each
of its actions says which keys, by name, it is for, and both modules record in `asked` the key that was read
(or the call that was made), so that an implementation in which Home goes to the end of the line is none.
`LineEdit` is `linenoise.c` with its zero-ended
buffer, its `memmove`s, the places in the history it keeps by an index from the end, the completion
that is shown without being in the buffer, and the escape sequences of both ways of drawing, sent to a
terminal of rows and columns. The terminal is external: a cursor that has filled a row stays behind its
last cell until something more is written, and erasing to the right from there erases nothing.

The definitions named `X_something` beside a definition `X` are faulty variants of it: each
property is seen to fail when one of them replaces `X`.

## 3. Runs

Passing runs:

| Run | Instance | What it shows |
|---|---|---|
| `rwlock` | readers r1, r2, m; writers r1, m; any number of acquisitions | The byte counts who is inside (`WordCounts`), readers and writers exclude each other (`Exclusion`), no overflow while threads fit the count (`NoOverflow`); with fair threads a writer, and a reader whose load saw no other, gets in unless others come and go for ever (`WriterAcquires`, `LoneReaderAcquires`); the lock implements `RWLockSpec` (`AbstractSpec`) |
| `pool_safety` | 3 tasks, 2 workers, main and one task spawn; tasks may panic, results are boxed | The two ends of the list agree (`LastIsTail`), no task is lost or run twice (`OnePlace`), counters are right (`CountersMatch`), no wake-up is lost (`NoLostWakeup`), futures are neither written when freed nor read half written (`NoWriteToFreed`, `AwaitedInFull`), tasks start in order (`StartedInOrder`), futures implement `FutureSpec` (`FuturesKeepTheirPromise`) |
| `pool_live` | 3 tasks, 2 workers, fair threads | Every task completes (`EveryTaskCompletes`), the main thread leaves `await` (`AwaitReturns`) |
| `heap_pool` | both builds, one slot a page, growth 1, 2, 4, failures, panics | The free list holds free slots only (`ListSound`) and without Trace all of them, once (`FreeListExact`); the global count is the sum (`RefCountsMatch`); a sweep that ends freed all (`SweepFreesAll`) |
| `heap_graph` | 3 objects, 2 fields each, every graph | Counts are exact and nothing dangles, also within a destruction (`RcExact`, `NoDangling`); a release returns (`ReleaseReturns`) |
| `frames` | main, a function with pointers that calls itself and another, a generator that assigns to its parameter and to a local; 3 activations, two growths | The stack implements a sequence of activations (`CallStackSpec`), no pointer is left into memory the stack was moved out of (`NoStalePointers`), every running frame has room for itself and the calls it makes (`InBounds`), a trace names the active functions (`TraceIsTheCalls`) |
| `values` | 2 variables, integers of 2 bits in words of 4 | After any sequence of operations each register holds its value, whatever is above it (`Represents`); a division stops the program when the program's divisor is zero and only then (`PanicsAsMeant`) |
| `objects` | 3 variables, 3 objects, 2 types, captures of up to 2 | Counts are exact in both machines at each step of each destructor (`RcExact`), a typed reference has an object of that type (`WellTyped`), what a finished program leaves is a cycle and the C program's check says so (`LeaksAreCycles`), the machines decide alike (`BackEndsAgree`) |
| `line_edit` | lines of up to 3 bytes, terminals of 2 and 3 columns, both ways of drawing, histories of 1 to 3, pipes, `fgets` | The screen shows the line or the part around the cursor and nothing older (`ScreenShowsLine`); each key, by its name, does what `Editing` says it is for, and so do the history and its file (`EditsAsMeant`) |

Runs that refute what the repository says, each with its line under "findings" in PROJECT.json:

| Run | Refuted | What happens |
|---|---|---|
| `pool_dropped` | `NoWriteToFreed` | The owner lets a future go while its task runs. The state `invalidated` that `sync.zig` describes is stored by nobody, so the worker writes to a freed `FutureValue` |
| `frames_yield` | `YieldPauses` | `docs/docs.md` 2953: `yield` pauses a generator. `RET_Y` saves no register, and `GEN_NEXT` lays out the ones `RET_GEN` took once, the arguments: at the next resume a parameter that was assigned to has its first value again, and a local declared later has none |
| `objects_pinned` | `FreedAsAllocated` | `builtins/core.cy` 2738: `@freeObject` frees an object given its byte size. A pinned closure answers 24 whatever it captures, so one of two captures, a big object, is freed as a slot of the pool |

### Known divergences

Behaviour met while modelling that has no run of its own, because nothing in the repository says
otherwise or because the constants of a run leave it out. Where the model contains it, the definition is
named.

Threads and the pool:

* A task behind one that never returns waits although a slot is free: a worker started for one task
  counts as idle until it pops, so the next `spawn` starts none (`worker.zig` 58). `Endless` is empty
  in the runs that check liveness.
* A Trace build stops the process when a task's VM thread still holds references at its end
  (`worker.zig` 160-166). `WorkerDestroy` frees the VM thread whatever it holds, as the other builds do.
* With one CPU the pool has no slot (`worker.zig` 59): `spawn` succeeds and nothing runs the task.
  `request_idle_worker` answers no error (`WorkerPool` with `MaxWorkers = 0`).
* `RWLock` is not fair. `write_lock` retries a compare-and-swap of the free word, so readers that overlap keep
  a writer out for as long as they come and go; a reader may be overtaken in the same way, and one whose load
  saw other readers may spin for ever even on a free lock. `WriterAcquires` and `LoneReaderAcquires` say what
  is left: who is not overtaken for ever gets in.
* `await` of a future that is not complete, in a spawned thread, is `@panic("TODO")` (`vm.zig` 985,
  `AwaitAborts`); a panic in a spawned function stops the process (`worker.zig` 142, `TaskPanics`).
* `@send` of a result allocates in the spawner's heap on the worker's OS thread while the spawner runs
  (`core.cy` 4354); heaps have no lock. `HeapPool` is sequential.
* `next_thread_id` is read and incremented by any VM thread without a lock (`core.zig` 1575), and
  `SeqLock.read_needs_retry` answers true when the value has not changed (`sync.zig` 24); the first is
  no part of a modelled state, the second has no user.
* AWAIT goes on with the next instruction when `zAwait` returned a panic (`vm.c` 1443).

Heap:

* An allocation fails after the slot of a big object is taken, or after the page array has grown
  (`heap.zig` 1007, 389): the sweep that follows reads a pointer nothing wrote (`SweepLost`).
* In a Trace build a free does not advance the tail of the free list (`heap.zig` 236): of slots freed in
  a row only the last stays in the list. `FreeListExact` is therefore stated without Trace.
* `count_objects` passes over the first slot of each page (`heap.zig` 144).

Stack, registers, objects:

* The table of pointers has entries for direct calls. A pointer held by a function that calls through a
  pointer, a union or a trait, or by main, is left into the old memory when the stack moves.
  `IndirectRefs` and `MainRefs` are FALSE in the runs; with TRUE TLC finds `NoStalePointers` violated.
* The room for the calls of a generator's body is checked when it is created and not where it is resumed,
  and `growStackPrecise` walks the frame of a generator as if it were a call's (`prev_context`). In the
  runs the bodies of generators make no calls (`GenCalls` is FALSE); with TRUE and a generator that calls
  TLC finds `InBounds` violated.
* Divisions, powers and `>>` of narrow integers read the whole register, with what is above the value.
  `RawNarrow` is FALSE in the run; with TRUE TLC finds `Represents` violated.
* Shifts by the width of a type and more, negative exponents, and the least integer divided by -1 have no
  defined result in C or in the language and are not among the operations of `Values` (`Defined`).
* `cb_cmp_str` compares with `strncmp`, which stops at a zero byte (`aot.c` 320), CMP_STR does not; the
  texts of the run have no zero byte. `1 << 63` on an `int` at `vm.c` 1647 has no defined result.
  JUMP_T jumps when the condition is false; nothing emits it.

Line editor: `fgets` hands a line that fills its buffer over in pieces, and `EditsAsMeant` says so
(`Pieces`); a line from the history is cut to one byte less than can be typed (`MaxRecalled`); a prompt
as wide as the terminal makes the window's width negative and is excluded by an assumption; the length
of a line that a completion replaces is what `snprintf` answers (`linenoise.c` 421), the length of the
completion also where the buffer held less of it, so completions in the run are shorter than the buffer;
`linenoiseHistoryLoad` returns -1 for a file that is missing, where its comment says 0.

Keys that arrive as an escape sequence (the arrows, Home, End, Delete) are what their names say only while no
completion is shown. While one is, `completeLine` takes the ESC, gives the completion up and answers that the
key is dealt with (`linenoise.c` 412-417, 948), and the rest of the sequence arrives as characters that are typed:
`LineEdit` has the ESC as the key `escape` and the characters as keys of their own. ESC typed by itself waits for
two more bytes and drops them (1008), `Forgotten`. Characters have one column and are neither a zero nor
the end of a line; the code's `default` case would also insert a byte 0 or a newline that a terminal in raw mode
can send, after which the buffer, the screen and the history disagree on where the line ends. A tab
is a character like the others where no completion is offered, while on a terminal it moves to the next stop.

### Bounds

* Lock: three threads show every pair of roles and a third that interferes; they acquire the lock any number
  of times, the state space is finite as it is. `MaxReaders` is 127 in the code and 3 here, so that the
  overflow guard is reachable.
* Pool: three tasks let the list grow, empty, and grow again while a worker is between
  `popFirst` and `relock`; two workers compete for the list and one may sleep while the other
  works; a task that spawns makes two OS threads add at once. Tasks `t2`, `t3` are symmetric in
  the safety run; the liveness run uses no symmetry.
* Heap: a page has 102 slots in the code and 1 to 3 here; one page of one slot makes growth happen
  at once and twice (1, 2, 4 pages), and puts a page boundary between any two slots of the list. Three
  objects of two fields have shared children, chains and cycles. `MaxRefs` and `MaxFields` bound the
  program, not the heap.

* Frames: 12 registers at the start and growth by at least 6 (16 in the code) overflow at the second and
  third activation; `MaxStack` lets the stack grow twice, so that a patched frame is patched again.
  Three activations put a frame between main and the one that overflows; `MaxGens` is 1, the generator
  can be created, resumed, dropped and ended under each of the others. The functions are those of
  `MCFrames`: results of none, one and two registers, pointers that are parameters and that are locals.
* Values: 2 bits in 4 have values with and without sign, carries out of the narrow part and rubbish
  above it, and memory of two fields; two variables are enough for every operation to have operands that
  are the same and that differ. The instructions for 8, 16 and 32 bits differ in width only.
* Objects: three objects allow a chain and a cycle of two with one outside; three variables hold a
  source, a destination and a third reference. `MaxCaptures` of 2 makes a closure of 5 words, the first
  that is no slot of the pool. `SYMMETRY` permutes variables and addresses, which the code does not order.
* Line editor: 3 bytes hold a word, a space and a word; with a prompt of 1 column, 2 and 3 columns are
  less than the line, and a line can end exactly with a row. Histories of 1, 2 and 3 places are full,
  and recall the oldest. `Rows` is the height of the terminal, more than any line takes: nothing scrolls.

`CHECK_DEADLOCK FALSE` stands where the program may stop: threads that spin (a load or a compare-and-swap that
fails changes nothing and is no step of the model), a process that was stopped, a heap after its sweep, a thread that ended or panicked, a
program that ended. The line editor never stops, and its run checks that.

### Fairness

Lock: weak fairness of each thread inside a call and in its critical section (the OS runs every
thread, and the critical sections of the lock's callers are finite); none for starting a call. This does not make
the lock itself fair: a compare-and-swap is enabled only at the moments the word is the expected one, so the
two liveness properties except executions in which others are inside again and again.
Pool: weak fairness of each call of `spawn` or `await` under way and of each worker; strong
fairness for taking the mutex, which is enabled again and again rather than always: `std.Thread.Mutex`
does not promise this by itself, the scheduler that lets every contender run in a moment
the mutex is free does. A task's function returns unless the program says it does not (`Endless`).
Nothing makes a program spawn, await or end. Heap: weak fairness of the step the thread is in
(`HeapStep`), none for the program's next operation. The other modules state no
fairness: what they promise is safety.

## 4. Proofs

The proofs are for all values of the constants: any number of threads, tasks and workers, of pages,
slots, objects, variables and captures, any functions, any size of the stack, any width of integers, of the
editor's buffer and of the terminal. What they assume of the constants is what the module assumes
(`RWLockAssumption`, `WorkerPoolAssumption`, `HeapPoolAssumption`, `FramesAssumption`,
`ObjectsAssumption`, `ValuesAssumption`, `LineEditAssumption`), which TLC evaluates on every run; some
theorems have a hypothesis on the program that is run, stated with the theorem and explained below. Every
safety property of a passing run is the conclusion of a theorem.

`RWLockProofs`. The invariant is `TypeOK /\ WordCounts` with three facts on what a thread's loaded
word can be (`ExpectsFree`, `ExpectsNoWriter`, `FieldsApart`): a writer in its compare-and-swap
expects the free word and a reader one without the writing bit, so a compare-and-swap that
succeeds succeeds on a word that, by `WordCounts`, describes who is inside. From it: `TypeOK`, `WordCounts`, `Exclusion`,
`NoOverflow` (by counting) and the implementation of `RWLockSpec`.

`WorkerPoolProofs` has three parts.

* The list. `OnePlace` is not inductive: that a task linked at `last` is not lost needs
  `last` to be the last node (`LastIsTail`), this needs the nodes in the list to be distinct
  (`Once`), this needs a task to be nowhere else while it is added (`Apart`), and this needs that a
  task was not spawned before (`LiveIsPlaced`, with `RunsInWorker` to know that the VM thread of a
  task in the list is not running). The invariant `Inv` is these with the types. Every step moves at
  most one task from one place to the next (`MovesStep`), from which `Apart` and `LiveIsPlaced`
  follow without looking at the actions again. Results: `TypeOK`, `LastIsTail`, `OnePlace`,
  `StartedInOrder`.
* Wake-ups. On top of `Inv`, `NoLostWakeup` is inductive: linking a task adds a signal, a
  signal that finds a sleeper makes it awake, a worker that pops takes one task with it, and a worker
  goes to sleep only when the list is empty. The cardinalities are counted with the theorems on
  finite sets. Results: `NoLostWakeup`, `CountersMatch`.
* Futures. `FutureInv` ties the state byte and the data of each future to where its worker is
  (`Written`) and says that nobody else writes it (`Unwritten`). Results: `AwaitedInFull`; under the
  hypothesis `Dropped = {}`, `NoWriteToFreed` (the run `pool_dropped` shows that the hypothesis is
  needed); and `FuturesKeepTheirPromise`, the implementation of `FutureSpec`.

`HeapProofs`. The free list is described by an enumeration of its slots (`Links`), and each
operation on the list is shown to turn one enumeration into another: the head or a new tail removed or
added, a page's slots appended. `Complete` (without Trace every free slot is in it) is part of the
invariant, because a page can be added only when the list is empty. That the list ends, and that
`Walk` returns exactly the enumeration, follows because the enumeration has no slot twice and the
first number of steps that leads to the end exists.

The count of an object is `refs` plus the *cardinality* of the set of fields that
refer to it, so each store, copy and release is a set with one member more or less. In the middle of a
destruction `RcExact` alone says nothing of the objects whose count is zero: `Dying` adds that these are
exactly those on the stack of destructions, each once, so that the same object is never destroyed again
by a cycle or a shared child. From the invariant: `TypeOK`, `ListSound`, `FreeListExact`, `RcExact`,
`NoDangling`, `RefCountsMatch` (a sum of counts as the cardinality of a set of pairs) and
`SweepFreesAll`.

`ObjectsProofs`. A statement is two or three moves of one reference: a count is taken, a variable or a
field is overwritten, what was there is given up and may start a destructor. The invariant `Good` is
therefore stated of a state *and one reference on the way*, and each move has one lemma; a statement is a
chain of them that starts and ends with none on the way. Destructors that run stand on a stack, and the
fields that one has still to give up are part of what holds an object. The hypotheses:

* `NoPins`, for all results: no closure captures locals it must not outlive. For pinned closures the C
  program retains the captures and the VM does not, so that the two sets of counts differ by
  design and the counts of the VM are not those of `RcExact`; the run `objects_pinned` has such closures.
* `NoZeroBytes`, for `BackEndsAgree` only: no text has a zero byte, at which `strncmp` stops (`aot.c` 320)
  and CMP_STR does not. Without it `mode = "diverged"` is reached by comparing two such texts.

`ValuesProofs`. The relation between a register and the variable it stands for is congruence modulo
`Narrow` (`Stands`), which addition, multiplication, the bit operations and the truncations preserve and
which division, comparison and shifts do not: these are applied to words that were extended first. Bit
operations are sums over bits, and that the low bits of the sum are the sum of the low bits is shown by
induction on the number of bits. `ipow` is shown to compute the power (`IpowIsPower`) by an invariant of
its loop on the bits of the exponent. `Represents` and `PanicsAsMeant` have the hypothesis `~RawNarrow`:
the program gives `/`, `%`, `**` and `>>` operands of the full width only. As section 3 says, the code
generator would not widen narrow ones, and with `RawNarrow` TLC refutes the properties. The theorems say
that this is all that can go wrong, at any width.

`FramesProofs`. A program may have any functions, with any parameters, locals, results and pointers
(also to locals of callers further out), call to any depth and grow the stack by any amounts. The
registers are described by the sequence of the frames in them, outermost first (`Good`): each frame
follows the one before, its header leads to its caller (`Linked`), a pointer in it is to a variable of the
frame itself or of one of its callers (`Target`). A call or a resume appends a frame (`Pushed`), a
return or a yield drops the last (`Popped`), every other instruction writes a local (`LocalWritten`) or
registers above the frames (`AboveChanged`). The three walks, of returning, growing and panicking, are shown
to be that sequence read backwards (`ChainIs`), by induction on the number of frames; so what `Patched` copies
can be said register by register (`PatchedIs`). Three parts of the invariant are there because the rest is not
inductive without them:

* `Quiets`: main, and a function that has called by value, trait or union, hold no pointer, for the walk of
  the growth patches none of theirs; this is also why a function that main calls so holds none when it starts.
* `Clear`: above the last frame nothing is left, so that a new frame starts with empty locals. A pointer
  of an earlier call left there would be read by the next.
* `Fits`: CHK_STK compares with `>=`, which leaves one register more than a frame and its calls need
  (`Spare`). A generator, whose room nothing checks, may need just that one.

Results: `TypeOK` (no instruction takes a register for what it is not: the mode is never "undefined"),
`NoStalePointers`, `InBounds` and `TraceIsTheCalls`. The hypotheses:

* `PlainCalls`: pointers are passed in calls by name, not by main and not by generators that call. These are the
  calls with an entry in the table of pointers; for the others section 3 says what is lost.
* `GeneratorsFit`: generators hold no pointers, give one register, and the frame of whoever can resume one has
  room for it. RET_Y, `unwindStack` and GEN_NEXT count on this, and nothing in the code checks it: a generator
  that gives two registers has its header where `unwindStack` does not look.

The second half of `FramesProofs`: `Frames` implements `CallStack` (`Refinement`). What a program sees is computed by `AbsCalls` with a walk
over the registers; the frames of the invariant give the same view (`Seen`), one activation per frame,
and a pointer means the local whose register it points to, of which there is exactly one (`RefIs`). Each
instruction is then shown to change the view as `CallStack` says: a write changes one local of one activation
(`ViewWritten`), a call adds an activation at the end and a return takes it away (`ViewPushed`, `ViewPopped`),
the growth changes nothing although every pointer changes (`ViewGrown`). `Promised` strengthens the invariant by
what the frames do not say: a result lies in the register its caller will read, and the frame of a running
generator names an object of the same function. Of generators the theorem promises what the code keeps, the
arguments (`YieldKeeps` is FALSE in `CallStackSpec`); for the promise of the documentation `frames_yield`
is the counterexample, with the same program.

`MCFrames` states (`MCProgram`), and TLC evaluates, that the program of the runs satisfies both hypotheses.

`LineEditProofs` has two parts.

* The bytes. `LineInv` says that the buffer holds characters and then a zero at `l->len`, that no zero
  comes before it, that the cursor is not behind it, and that the line has its place in a history no
  longer than its limit. Each key's `memmove`s, copies and lengths are followed byte by byte. The code
  finds the end of a line in two ways, by `l->len` and by `strlen`, and the invariant is what makes them
  the same (`TextIs`). Result: `EditorTypes`.
* `LineEdit` implements `Editing` (`EditorMeant`). The text on each side of the cursor (`Sides`, `LineOf`)
  is determined by the bytes, and each key changes it as `Editing` says (`Edited`); a completion that is
  shown and in no buffer is the `choice` of `Editing`, from which the next key starts (`Before`, `Behind`).
  The two sides agree on the key as well, so the theorem is about each key by itself. `Between` adds to the
  invariant what the bytes do not say: between two lines the line is empty, and the index of a completion that is
  shown is that of one there is (`Rounds`). For the file, a history that is loaded line by line, each line cut in pieces, is shown to
  be after each piece what a history of that length keeps of all pieces so far (`KeepsOf`), although the
  code compares with the last line it kept and `Once` with the last it read.

`LineEditScreen`. What the terminal shows. Cells are counted along the rows from the first row of the line,
so that what is written there is one sequence wherever a row ends (`Count`, `Written`). The code draws again
only on what it remembers of the last drawing, where the cursor was and how many rows there were, and every
key changes the line before that is read. The invariant `ScreenInv` says of each phase what is
on the screen (`Pictured`: the line in one row or in several, its hint, the cursor) and, with several
rows, that what is remembered describes it (`Kept`). Whoever draws next needs less
(`Clearable`): the way down from the cursor leads past the last row that was written and the way up from
there to the row where the line began, and then what is cleared is all there is (`Empty`). That is true of
a line that was drawn, of one that is hidden and of one that was never shown, and it does not depend on the
line that is drawn next. Result: `EditorScreen`.

The theorems of both modules have one hypothesis, `CompletionsFit`: what the program offers to complete a
line is text shorter than the buffer (section 3 says why). That neither a zero nor the end of a line is a character that can be
typed, and that the terminal is wider than the prompt, is part of `LineEditAssumption`. `MCLineEdit`
states (`MCFit`), and TLC evaluates, that the completions of the run fit.

Induction is stated in the modules that need it as a fact on sets (a set of numbers that has each number
whose predecessor it has), in the form the provers can apply, next to the existence of functions defined
by recursion.

Only model-checked:

* all liveness (`WriterAcquires`, `LoneReaderAcquires`, `EveryTaskCompletes`, `AwaitReturns`,
  `ReleaseReturns`): TLAPS has no rules for `ENABLED` or fairness that apply here;
* that `NoWriteToFreed`, `CallStackSpec` and `FreedAsAllocated` fail without the hypotheses of the
  theorems: the runs that refute them.

## 5. Not modelled

* The compiler front end but for where it owns, moves and destroys values, and the back ends but for
  the code they emit for integers and frames: sequential passes over large data.
* Of the interpreter: moves of several words, jumps, traps, calls of host functions that run the
  interpreter again (`callFunc`).
* `VM.deinit` while workers run (they are neither stopped nor joined): the process ends after it.
* The memory order of the lock's loads and stores: `RWLock` uses monotonic and acquire orders; the
  model is sequentially consistent. In `WorkerPool` the state byte is published with release and
  read with acquire, and the mutex orders the rest, so this loses nothing there.
* Of the line editor: raw mode, the query of the terminal's width and position, bytes of UTF-8 (the code
  counts bytes as columns too), and failures of `malloc`.
* Bindings to the operating system, FFI, the other vendored libraries, editor extensions, docs.

## 6. Plan

1. `LocalFuture`: `FutureResolver`, the continuation list, the AWAIT instruction and the run queue
   of ready fibers, with an abstract specification shared with `FutureSpec`.
2. `HashMap` (`map.zig`: probing, tombstones, growth) against a function as its specification;
   `RingBuffer` (`fifo.zig`) against a sequence.
3. `SpecCache`: templates expanded once per argument tuple, recursive and mutually recursive use.
4. Raw buffers and the object trace map in `HeapPool`.

Order: what several threads or callbacks touch comes first, then what a long sequence of calls can
break, then the compiler's caches.
