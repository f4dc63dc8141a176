------------------------------- MODULE RWLock -------------------------------
(***************************************************************************)
(* sync.zig RWLock, the spin lock behind `VM.rw_lock`.  It guards the      *)
(* run-time type table: bc_gen.zig writes it after a compilation, and      *)
(* zGetTypeName, zGetExternFunc and meta.type_name_rt read it from any     *)
(* thread of the program.                                                  *)
(*                                                                         *)
(* The lock is one byte: a 7-bit count of readers and one writing bit.     *)
(* An acquisition is two steps, a load that spins while the lock is held   *)
(* and a compare-and-swap of the LOADED word that is retried with the same *)
(* expected word until it succeeds.  A failed (or spuriously failed)       *)
(* compare-and-swap changes nothing: it is a stuttering step here.         *)
(***************************************************************************)
EXTENDS Integers, FiniteSets

CONSTANTS
  Readers,     (* threads that call read_lock                            *)
  Writers,     (* threads that call write_lock                           *)
  MaxReaders   (* greatest value of the readers field: 127 in the code   *)

ASSUME RWLockAssumption ==
  /\ IsFiniteSet(Readers) /\ IsFiniteSet(Writers)
  /\ MaxReaders \in Nat

Threads == Readers \cup Writers

VARIABLES
  word,   (* the lock byte                                              *)
  seen,   (* the word each thread loaded last (local `state`)           *)
  pc      (* where each thread is                                       *)

vars == <<word, seen, pc>>

Word == [readers : 0..MaxReaders, writing : 0..1]
Free == [readers |-> 0, writing |-> 0]

Init ==
  /\ word = Free
  /\ seen = [t \in Threads |-> Free]
  /\ pc = [t \in Threads |-> "idle"]

Goto(t, from, to) == pc[t] = from /\ pc' = [pc EXCEPT ![t] = to]

(* A call of read_lock or write_lock enters its load loop.                 *)
Call(t, entry) ==
  /\ Goto(t, "idle", entry)
  /\ UNCHANGED <<word, seen>>

(* The load that leaves the spin loop of read_lock.  The new word is built *)
(* next: `readers + 1` overflows its 7 bits when the count is at its       *)
(* limit, which stops the program in a build with safety checks.           *)
ReadLoad(t) ==
  /\ word.writing = 0
  /\ seen' = [seen EXCEPT ![t] = word]
  /\ Goto(t, "rl_load", IF word.readers < MaxReaders THEN "rl_cas" ELSE "overflow")
  /\ UNCHANGED word

(* A faulty variant: the compare-and-swap stores the new word whatever the *)
(* byte holds now.                                                         *)
ReadCas_blind(t) ==
  /\ Goto(t, "rl_cas", "reading")
  /\ word' = [readers |-> seen[t].readers + 1, writing |-> 0]
  /\ UNCHANGED seen

(* A faulty variant: a reader is counted twice.                            *)
ReadCas_twice(t) ==
  /\ Goto(t, "rl_cas", "reading")
  /\ word = seen[t]
  /\ word' = [readers |-> seen[t].readers + 2, writing |-> 0]
  /\ UNCHANGED seen

(* The compare-and-swap of read_lock when it succeeds.                     *)
ReadCas(t) ==
  /\ Goto(t, "rl_cas", "reading")
  /\ word = seen[t]
  /\ word' = [readers |-> seen[t].readers + 1, writing |-> 0]
  /\ UNCHANGED seen

(* Subtracting 1 from the byte borrows from the writing bit at 0 readers.  *)
MinusOne(w) ==
  IF w.readers > 0 THEN [readers |-> w.readers - 1, writing |-> w.writing]
                   ELSE [readers |-> MaxReaders, writing |-> 1 - w.writing]

(* A faulty variant: read_unlock forgets the decrement.                    *)
ReadUnlock_forgets(t) ==
  /\ Goto(t, "reading", "idle")
  /\ UNCHANGED <<word, seen>>

ReadUnlock(t) ==
  /\ Goto(t, "reading", "idle")
  /\ word' = MinusOne(word)
  /\ UNCHANGED seen

(* A faulty variant: write_lock waits for the writing bit only.            *)
WriteLoad_ignores_readers(t) ==
  /\ Goto(t, "wl_load", "wl_cas")
  /\ word.writing = 0
  /\ seen' = [seen EXCEPT ![t] = word]
  /\ UNCHANGED word

(* The load that leaves the spin loop of write_lock.                       *)
WriteLoad(t) ==
  /\ Goto(t, "wl_load", "wl_cas")
  /\ word.readers = 0 /\ word.writing = 0
  /\ seen' = [seen EXCEPT ![t] = word]
  /\ UNCHANGED word

WriteCas(t) ==
  /\ Goto(t, "wl_cas", "writing")
  /\ word = seen[t]
  /\ word' = [readers |-> 0, writing |-> 1]
  /\ UNCHANGED seen

(* A faulty variant: write_unlock clears the readers field only.           *)
WriteUnlock_keeps_bit(t) ==
  /\ Goto(t, "writing", "idle")
  /\ word' = [word EXCEPT !.readers = 0]
  /\ UNCHANGED seen

(* write_unlock stores a whole byte, whatever the byte held.               *)
WriteUnlock(t) ==
  /\ Goto(t, "writing", "idle")
  /\ word' = Free
  /\ UNCHANGED seen

ReaderStep(t) ==
  \/ Call(t, "rl_load") \/ ReadLoad(t) \/ ReadCas(t) \/ ReadUnlock(t)

WriterStep(t) ==
  \/ Call(t, "wl_load") \/ WriteLoad(t) \/ WriteCas(t) \/ WriteUnlock(t)

Next ==
  \/ \E t \in Readers : ReaderStep(t)
  \/ \E t \in Writers : WriterStep(t)

Spec == Init /\ [][Next]_vars

(* The operating system runs every thread; a thread need not start another *)
(* acquisition, but it leaves a critical section it has entered.           *)
Fairness ==
  /\ \A t \in Readers : WF_vars(ReadLoad(t) \/ ReadCas(t) \/ ReadUnlock(t))
  /\ \A t \in Writers : WF_vars(WriteLoad(t) \/ WriteCas(t) \/ WriteUnlock(t))

FairSpec == Spec /\ Fairness
-----------------------------------------------------------------------------
ReadingThreads == {t \in Threads : pc[t] = "reading"}
WritingThreads == {t \in Threads : pc[t] = "writing"}

PCs == {"idle", "rl_load", "rl_cas", "reading", "overflow",
        "wl_load", "wl_cas", "writing"}

(* Type invariant: the byte stays in its two fields and every thread is at *)
(* a point of the code.                                                    *)
TypeOK ==
  /\ word \in Word
  /\ seen \in [Threads -> Word]
  /\ pc \in [Threads -> PCs]

(* The lock word tells the truth about who is inside: the readers field    *)
(* counts the threads between read_lock and read_unlock, and the writing   *)
(* bit is set exactly while a thread is between write_lock and             *)
(* write_unlock.  The whole-byte store of write_unlock would erase a       *)
(* reader if it were not so.                                               *)
WordCounts ==
  /\ word.readers = Cardinality(ReadingThreads)
  /\ word.writing = Cardinality(WritingThreads)

(* vm.h: type info is "Protected by `rw_lock`".  No thread reads the type  *)
(* table while another writes it, and one thread at a time writes it.      *)
Exclusion ==
  \A w \in Writers : pc[w] = "writing" =>
    \A t \in Threads \ {w} : pc[t] \notin {"reading", "writing"}

(* While no more threads read than the field can count, the increment in   *)
(* read_lock never overflows, although it is made on a word that may be    *)
(* stale by the time it is used.                                           *)
NoOverflow ==
  Cardinality(Readers) <= MaxReaders => \A t \in Readers : pc[t] # "overflow"

(* Some other thread is inside.                                            *)
OthersInside(t) == \E o \in Threads \ {t} : pc[o] \in {"reading", "writing"}

(* A writer that calls write_lock gets the lock unless others come and go  *)
(* for ever: every compare-and-swap may meet a reader, and the retry is    *)
(* not in any queue.  Nothing else keeps it waiting: no word that was left *)
(* behind, and no thread that only wants the lock.                         *)
WriterAcquires ==
  \A t \in Writers :
    \/ pc[t] = "wl_load" ~> pc[t] = "writing"
    \/ []<>OthersInside(t)

(* So does a reader whose load saw no other reader: the word it expects    *)
(* comes back when the others are gone.  (A reader that saw another reader *)
(* may wait for ever on a free lock: the retry keeps the word of its load, *)
(* which may never come back.)                                             *)
LoneReaderAcquires ==
  \A t \in Readers :
    \/ (pc[t] = "rl_cas" /\ seen[t].readers = 0) ~> pc[t] = "reading"
    \/ []<>OthersInside(t)

(* The spin lock implements the abstract reader/writer lock.               *)
Abstract == INSTANCE RWLockSpec WITH reading <- ReadingThreads, writing <- WritingThreads
AbstractSpec == Abstract!Spec
=============================================================================
