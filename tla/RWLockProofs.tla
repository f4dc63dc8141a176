---------------------------- MODULE RWLockProofs ----------------------------
(***************************************************************************)
(* Proofs about the reader/writer spin lock, for any number of threads.    *)
(***************************************************************************)
EXTENDS RWLock, FiniteSetTheorems, TLAPS

(* A thread is where its kind of acquisition can take it, and a writer at  *)
(* its compare-and-swap expects the free word: that is why a stale         *)
(* expected word cannot let it in beside a reader.                         *)
ExpectsFree ==
  \A t \in Threads : pc[t] = "wl_cas" => seen[t] = Free

(* A reader at its compare-and-swap expects a word without the writing bit.*)
ExpectsNoWriter ==
  \A t \in Threads : pc[t] = "rl_cas" => seen[t].writing = 0 /\ seen[t].readers < MaxReaders

(* The two fields of the word are never both in use.                       *)
FieldsApart == word.writing = 1 => word.readers = 0

(* The inductive invariant.                                                *)
IInv == TypeOK /\ WordCounts /\ ExpectsFree /\ ExpectsNoWriter /\ FieldsApart

-----------------------------------------------------------------------------
LEMMA ThreadsFinite == IsFiniteSet(Threads)
BY RWLockAssumption, FS_Union DEF Threads

(* The threads at a given point of the code form a finite set.             *)
LEMMA GroupsFinite ==
  /\ IsFiniteSet(ReadingThreads) /\ Cardinality(ReadingThreads) \in Nat
  /\ IsFiniteSet(WritingThreads) /\ Cardinality(WritingThreads) \in Nat
<1>1. ReadingThreads \subseteq Threads /\ WritingThreads \subseteq Threads
  BY DEF ReadingThreads, WritingThreads
<1> QED
  BY <1>1, ThreadsFinite, FS_Subset, FS_CardinalityType

(* Read off the word: a free word means nobody is inside.                  *)
LEMMA EmptyGroups ==
  ASSUME TypeOK, WordCounts
  PROVE  /\ word.readers = 0 <=> ReadingThreads = {}
         /\ word.writing = 0 <=> WritingThreads = {}
BY GroupsFinite, FS_EmptySet DEF WordCounts

-----------------------------------------------------------------------------
(* The lock is made free.                                                  *)
LEMMA InitIInv == Init => IInv
<1> SUFFICES ASSUME Init PROVE IInv
  OBVIOUS
<1>1. ReadingThreads = {} /\ WritingThreads = {}
  BY DEF Init, ReadingThreads, WritingThreads
<1>2. WordCounts
  BY <1>1, FS_EmptySet DEF WordCounts, Init, Free
<1> QED
  BY <1>2, RWLockAssumption
  DEF Init, IInv, TypeOK, ExpectsFree, ExpectsNoWriter, FieldsApart, Word, Free, PCs

(* A step that moves no thread in or out of the lock.                      *)
LEMMA CallIInv ==
  ASSUME IInv, NEW t \in Threads, NEW entry \in {"rl_load", "wl_load"}, Call(t, entry)
  PROVE  IInv'
<1> USE DEF IInv
<1>1. TypeOK'
  BY RWLockAssumption DEF TypeOK, Call, Goto, PCs
<1>2. ReadingThreads' = ReadingThreads /\ WritingThreads' = WritingThreads
  BY DEF TypeOK, Call, Goto, ReadingThreads, WritingThreads
<1>3. WordCounts'
  BY <1>2 DEF WordCounts, Call
<1>4. ExpectsFree' /\ ExpectsNoWriter' /\ FieldsApart'
  BY DEF TypeOK, Call, Goto, ExpectsFree, ExpectsNoWriter, FieldsApart
<1> QED
  BY <1>1, <1>3, <1>4

(* A load moves no thread in or out either, and what it saw is the word.   *)
LEMMA LoadIInv ==
  ASSUME IInv, NEW t \in Threads, ReadLoad(t) \/ WriteLoad(t)
  PROVE  IInv'
<1> USE DEF IInv
<1>1. TypeOK'
  BY DEF TypeOK, ReadLoad, WriteLoad, Goto, PCs
<1>2. ReadingThreads' = ReadingThreads /\ WritingThreads' = WritingThreads
  BY DEF TypeOK, ReadLoad, WriteLoad, Goto, ReadingThreads, WritingThreads
<1>3. WordCounts'
  BY <1>2 DEF WordCounts, ReadLoad, WriteLoad
<1>4. ExpectsFree' /\ ExpectsNoWriter' /\ FieldsApart'
  BY DEF TypeOK, ReadLoad, WriteLoad, Goto, ExpectsFree, ExpectsNoWriter,
         FieldsApart, Free, Word
<1> QED
  BY <1>1, <1>3, <1>4

LEMMA ReadCasIInv ==
  ASSUME IInv, NEW t \in Threads, ReadCas(t)
  PROVE  IInv'
<1> USE DEF IInv
<1>1. word.writing = 0 /\ word.readers < MaxReaders /\ word.readers \in Nat
  BY DEF TypeOK, ReadCas, Goto, ExpectsNoWriter, Word
<1>2. /\ word'.readers = word.readers + 1
      /\ word'.writing = 0
  BY DEF ReadCas
<1>3. TypeOK'
  BY <1>1, RWLockAssumption DEF TypeOK, ReadCas, Goto, PCs, Word
<1>4. t \notin ReadingThreads /\ t \notin WritingThreads
  BY DEF ReadCas, Goto, ReadingThreads, WritingThreads
<1>5. ReadingThreads' = ReadingThreads \cup {t} /\ WritingThreads' = WritingThreads
  BY <1>4 DEF TypeOK, ReadCas, Goto, PCs, ReadingThreads, WritingThreads
<1>6. Cardinality(ReadingThreads') = Cardinality(ReadingThreads) + 1
  BY <1>4, <1>5, GroupsFinite, FS_AddElement
<1>7. WordCounts'
  BY <1>1, <1>2, <1>5, <1>6 DEF WordCounts
<1>8. ExpectsFree' /\ ExpectsNoWriter' /\ FieldsApart'
  BY <1>2 DEF TypeOK, ReadCas, Goto, ExpectsFree, ExpectsNoWriter, FieldsApart
<1> QED
  BY <1>3, <1>7, <1>8

LEMMA ReadUnlockIInv ==
  ASSUME IInv, NEW t \in Threads, ReadUnlock(t)
  PROVE  IInv'
<1> USE DEF IInv
<1>1. t \in ReadingThreads /\ t \notin WritingThreads
  BY DEF ReadUnlock, Goto, ReadingThreads, WritingThreads
<1>2. word.readers \in Nat /\ word.readers > 0 /\ word.writing = 0
  <2>1. word.readers # 0
    BY <1>1, EmptyGroups
  <2> QED
    BY <2>1 DEF TypeOK, Word, FieldsApart
<1>3. /\ word'.readers = word.readers - 1
      /\ word'.writing = 0
      /\ word' \in Word
  BY <1>2, RWLockAssumption DEF ReadUnlock, MinusOne, TypeOK, Word
<1>4. TypeOK'
  BY <1>3 DEF TypeOK, ReadUnlock, Goto, PCs
<1>5. ReadingThreads' = ReadingThreads \ {t} /\ WritingThreads' = WritingThreads
  BY <1>1 DEF TypeOK, ReadUnlock, Goto, PCs, ReadingThreads, WritingThreads
<1>6. Cardinality(ReadingThreads') = Cardinality(ReadingThreads) - 1
  BY <1>1, <1>5, GroupsFinite, FS_RemoveElement
<1>7. WordCounts'
  BY <1>2, <1>3, <1>5, <1>6 DEF WordCounts
<1>8. ExpectsFree' /\ ExpectsNoWriter' /\ FieldsApart'
  BY <1>3 DEF TypeOK, ReadUnlock, Goto, ExpectsFree, ExpectsNoWriter, FieldsApart
<1> QED
  BY <1>4, <1>7, <1>8

LEMMA WriteCasIInv ==
  ASSUME IInv, NEW t \in Threads, WriteCas(t)
  PROVE  IInv'
<1> USE DEF IInv
<1>1. word = Free
  BY DEF WriteCas, Goto, ExpectsFree
<1>2. ReadingThreads = {} /\ WritingThreads = {}
  BY <1>1, EmptyGroups DEF Free
<1>3. ReadingThreads' = {} /\ WritingThreads' = {t}
  BY <1>2 DEF TypeOK, WriteCas, Goto, PCs, ReadingThreads, WritingThreads
<1>4. word' = [readers |-> 0, writing |-> 1]
  BY DEF WriteCas
<1>5. WordCounts'
  BY <1>3, <1>4, FS_EmptySet, FS_Singleton DEF WordCounts
<1>6. TypeOK'
  BY <1>4, RWLockAssumption DEF TypeOK, WriteCas, Goto, PCs, Word
<1>7. ExpectsFree' /\ ExpectsNoWriter' /\ FieldsApart'
  BY <1>4 DEF TypeOK, WriteCas, Goto, ExpectsFree, ExpectsNoWriter, FieldsApart
<1> QED
  BY <1>5, <1>6, <1>7

(* While one thread writes, the word says so and nobody else is inside:    *)
(* the whole-byte store of write_unlock forgets nobody.                    *)
LEMMA WriteUnlockIInv ==
  ASSUME IInv, NEW t \in Threads, WriteUnlock(t)
  PROVE  IInv'
<1> USE DEF IInv
<1>1. t \in WritingThreads
  BY DEF WriteUnlock, Goto, WritingThreads
<1>2. word.writing = 1
  BY <1>1, EmptyGroups DEF TypeOK, Word
<1>3. ReadingThreads = {}
  BY <1>2, EmptyGroups DEF FieldsApart
<1>4. Cardinality(WritingThreads) = 1
  BY <1>2 DEF WordCounts
<1>5. /\ ReadingThreads' = {}
      /\ WritingThreads' = WritingThreads \ {t}
  BY <1>3 DEF TypeOK, WriteUnlock, Goto, PCs, ReadingThreads, WritingThreads
<1>6. Cardinality(WritingThreads') = 0
  <2>1. Cardinality(WritingThreads \ {t}) = Cardinality(WritingThreads) - 1
    BY <1>1, GroupsFinite, FS_RemoveElement
  <2> QED
    BY <1>4, <1>5, <2>1
<1>7. WordCounts'
  BY <1>5, <1>6, FS_EmptySet DEF WordCounts, WriteUnlock, Free
<1>8. TypeOK'
  BY RWLockAssumption DEF TypeOK, WriteUnlock, Goto, PCs, Word, Free
<1>9. ExpectsFree' /\ ExpectsNoWriter' /\ FieldsApart'
  BY DEF TypeOK, WriteUnlock, Goto, ExpectsFree, ExpectsNoWriter, FieldsApart, Free
<1> QED
  BY <1>7, <1>8, <1>9

LEMMA NextIInv == IInv /\ [Next]_vars => IInv'
<1> SUFFICES ASSUME IInv, [Next]_vars PROVE IInv'
  OBVIOUS
<1>1. CASE UNCHANGED vars
  BY <1>1 DEF vars, IInv, TypeOK, WordCounts, ExpectsFree, ExpectsNoWriter,
              FieldsApart, ReadingThreads, WritingThreads
<1>2. ASSUME NEW t \in Readers, ReaderStep(t) PROVE IInv'
  BY <1>2, CallIInv, LoadIInv, ReadCasIInv, ReadUnlockIInv DEF ReaderStep, Threads
<1>3. ASSUME NEW t \in Writers, WriterStep(t) PROVE IInv'
  BY <1>3, CallIInv, LoadIInv, WriteCasIInv, WriteUnlockIInv DEF WriterStep, Threads
<1> QED
  BY <1>1, <1>2, <1>3 DEF Next

LEMMA SpecIInv == Spec => []IInv
BY InitIInv, NextIInv, PTL DEF Spec

-----------------------------------------------------------------------------
(* The byte never holds a count above seven bits and no thread goes on with *)
(* a word it could not have loaded (TypeOK), for any number of threads.    *)
THEOREM TypeCorrect == Spec => []TypeOK
<1>1. IInv => TypeOK
  BY DEF IInv
<1> QED
  BY <1>1, SpecIInv, PTL

(* The lock word always counts the threads inside (WordCounts, with the    *)
(* type invariant it needs), for any number of threads.                    *)
THEOREM WordCountsAlways == Spec => [](TypeOK /\ WordCounts)
<1>1. IInv => TypeOK /\ WordCounts
  BY DEF IInv
<1> QED
  BY <1>1, SpecIInv, PTL

(* Nobody reads or writes the type table beside a writer (Exclusion).      *)
THEOREM ExclusionAlways == Spec => []Exclusion
<1>1. IInv => Exclusion
  <2> SUFFICES ASSUME IInv, NEW w \in Writers, pc[w] = "writing",
                      NEW t \in Threads \ {w}
               PROVE  pc[t] \notin {"reading", "writing"}
    BY DEF Exclusion
  <2> USE DEF IInv
  <2>1. w \in WritingThreads
    BY DEF WritingThreads, Threads
  <2>2. word.writing = 1
    BY <2>1, EmptyGroups DEF TypeOK, Word
  <2>3. ReadingThreads = {}
    BY <2>2, EmptyGroups DEF FieldsApart
  <2>4. Cardinality(WritingThreads) = 1
    BY <2>2 DEF WordCounts
  <2>5. Cardinality(WritingThreads \ {w}) = 0
    <3>1. Cardinality(WritingThreads \ {w}) = Cardinality(WritingThreads) - 1
      BY <2>1, GroupsFinite, FS_RemoveElement
    <3> QED
      BY <2>4, <3>1
  <2>6. WritingThreads \ {w} = {}
    BY <2>5, GroupsFinite, FS_RemoveElement, FS_EmptySet
  <2> QED
    BY <2>3, <2>6 DEF ReadingThreads, WritingThreads
<1> QED
  BY <1>1, SpecIInv, PTL

(* No overflow of the readers field with at most MaxReaders readers        *)
(* (NoOverflow): the threads already inside when a reader loads the word   *)
(* are readers other than itself.                                          *)
NoOverflowYet ==
  /\ \A t \in Threads : pc[t] \in {"rl_load", "rl_cas", "reading"} => t \in Readers
  /\ NoOverflow

LEMMA NoOverflowStep ==
  ASSUME IInv, NoOverflowYet, Cardinality(Readers) <= MaxReaders,
         NEW t \in Readers, ReadLoad(t)
  PROVE  word.readers < MaxReaders
<1>1. t \in Readers \ ReadingThreads
  BY DEF ReadLoad, Goto, ReadingThreads
<1>2. ReadingThreads \subseteq Readers \ {t}
  BY <1>1 DEF NoOverflowYet, ReadingThreads
<1>3. /\ IsFiniteSet(Readers) /\ Cardinality(Readers) \in Nat
      /\ IsFiniteSet(Readers \ {t})
      /\ Cardinality(Readers \ {t}) = Cardinality(Readers) - 1
  BY RWLockAssumption, FS_RemoveElement, FS_CardinalityType
<1>4. Cardinality(ReadingThreads) <= Cardinality(Readers \ {t})
  BY <1>2, <1>3, FS_Subset
<1>5. word.readers = Cardinality(ReadingThreads) /\ Cardinality(ReadingThreads) \in Nat
  BY GroupsFinite DEF IInv, WordCounts
<1> QED
  BY <1>3, <1>4, <1>5, RWLockAssumption

THEOREM NoOverflowAlways == Spec => []NoOverflow
<1>1. Init => NoOverflowYet
  BY DEF Init, NoOverflowYet, NoOverflow, Threads
<1>2. IInv /\ NoOverflowYet /\ [Next]_vars => NoOverflowYet'
  <2> SUFFICES ASSUME IInv, NoOverflowYet, [Next]_vars PROVE NoOverflowYet'
    OBVIOUS
  <2> USE DEF IInv
  <2>1. CASE UNCHANGED vars
    BY <2>1 DEF vars, NoOverflowYet, NoOverflow
  <2>2. ASSUME NEW t \in Readers, ReadLoad(t) PROVE NoOverflowYet'
    <3>1. Cardinality(Readers) <= MaxReaders => pc' = [pc EXCEPT ![t] = "rl_cas"]
      BY <2>2, NoOverflowStep DEF ReadLoad, Goto
    <3> QED
      BY <2>2, <3>1 DEF ReadLoad, Goto, NoOverflowYet, NoOverflow, TypeOK, Threads
  <2>3. ASSUME NEW t \in Readers, Call(t, "rl_load") \/ ReadCas(t) \/ ReadUnlock(t)
        PROVE NoOverflowYet'
    BY <2>3 DEF Call, ReadCas, ReadUnlock, Goto, NoOverflowYet, NoOverflow, TypeOK, Threads
  <2>4. ASSUME NEW t \in Writers, WriterStep(t) PROVE NoOverflowYet'
    BY <2>4 DEF WriterStep, Call, WriteLoad, WriteCas, WriteUnlock, Goto,
                NoOverflowYet, NoOverflow, TypeOK, Threads
  <2> QED
    BY <2>1, <2>2, <2>3, <2>4 DEF Next, ReaderStep
<1>3. NoOverflowYet => NoOverflow
  BY DEF NoOverflowYet
<1> QED
  BY <1>1, <1>2, <1>3, SpecIInv, PTL DEF Spec

-----------------------------------------------------------------------------
(* Every step of the spin lock is a step of the abstract lock or leaves it *)
(* unchanged (AbstractSpec): what a client of the lock sees is readers and *)
(* writers entering and leaving, never a stale word.                       *)
LEMMA AbstractStep ==
  ASSUME IInv, [Next]_vars
  PROVE  [Abstract!Next]_(Abstract!vars)
<1> USE DEF IInv
<1>1. CASE UNCHANGED vars
  BY <1>1 DEF vars, Abstract!vars, ReadingThreads, WritingThreads
<1>2. ASSUME NEW t \in Threads,
             \/ Call(t, "rl_load") \/ ReadLoad(t)
             \/ Call(t, "wl_load") \/ WriteLoad(t)
      PROVE  UNCHANGED <<ReadingThreads, WritingThreads>>
  BY <1>2 DEF Call, ReadLoad, WriteLoad, Goto, TypeOK, PCs, ReadingThreads, WritingThreads
<1>3. ASSUME NEW t \in Readers, ReadCas(t) PROVE Abstract!AcquireRead(t)
  <2>1. WritingThreads = {}
    BY <1>3, EmptyGroups DEF ReadCas, Goto, ExpectsNoWriter, Threads
  <2>2. t \notin ReadingThreads
    BY <1>3 DEF ReadCas, Goto, ReadingThreads
  <2>3. /\ ReadingThreads' = ReadingThreads \cup {t}
        /\ WritingThreads' = WritingThreads
    BY <1>3 DEF ReadCas, Goto, TypeOK, PCs, Threads, ReadingThreads, WritingThreads
  <2> QED
    BY <2>1, <2>2, <2>3 DEF Abstract!AcquireRead
<1>4. ASSUME NEW t \in Readers, ReadUnlock(t) PROVE Abstract!ReleaseRead(t)
  BY <1>4 DEF ReadUnlock, Goto, TypeOK, PCs, Threads, ReadingThreads, WritingThreads,
              Abstract!ReleaseRead
<1>5. ASSUME NEW t \in Writers, WriteCas(t) PROVE Abstract!AcquireWrite(t)
  <2>1. ReadingThreads = {} /\ WritingThreads = {}
    BY <1>5, EmptyGroups DEF WriteCas, Goto, ExpectsFree, Free, Threads
  <2>2. /\ WritingThreads' = WritingThreads \cup {t}
        /\ ReadingThreads' = ReadingThreads
    BY <1>5 DEF WriteCas, Goto, TypeOK, PCs, Threads, ReadingThreads, WritingThreads
  <2> QED
    BY <2>1, <2>2 DEF Abstract!AcquireWrite
<1>6. ASSUME NEW t \in Writers, WriteUnlock(t) PROVE Abstract!ReleaseWrite(t)
  BY <1>6 DEF WriteUnlock, Goto, TypeOK, PCs, Threads, ReadingThreads, WritingThreads,
              Abstract!ReleaseWrite
<1> QED
  BY <1>1, <1>2, <1>3, <1>4, <1>5, <1>6
  DEF Next, ReaderStep, WriterStep, Threads, Abstract!Next, Abstract!vars

(* RWLock of sync.zig implements the abstract reader/writer lock.          *)
THEOREM Refinement == Spec => AbstractSpec
<1>1. Init => Abstract!Init
  BY DEF Init, Abstract!Init, ReadingThreads, WritingThreads
<1>2. IInv /\ [Next]_vars => [Abstract!Next]_(Abstract!vars)
  BY AbstractStep
<1> QED
  BY <1>1, <1>2, SpecIInv, PTL DEF Spec, AbstractSpec, Abstract!Spec
=============================================================================
