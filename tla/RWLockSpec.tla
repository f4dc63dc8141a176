----------------------------- MODULE RWLockSpec -----------------------------
(***************************************************************************)
(* What a reader/writer lock promises, with no lock word: a set of threads *)
(* that read and a set of threads that write.  RWLock, the spin lock of    *)
(* sync.zig, implements it.                                                *)
(***************************************************************************)
CONSTANTS Readers,  (* the threads that may take the lock for reading  *)
          Writers   (* the threads that may take the lock for writing  *)

VARIABLES reading,  (* the threads that hold the lock for reading      *)
          writing   (* the threads that hold the lock for writing      *)

vars == <<reading, writing>>

Init == reading = {} /\ writing = {}

AcquireRead(t) ==
  /\ t \notin reading
  /\ writing = {}
  /\ reading' = reading \cup {t}
  /\ UNCHANGED writing

ReleaseRead(t) ==
  /\ t \in reading
  /\ reading' = reading \ {t}
  /\ UNCHANGED writing

AcquireWrite(t) ==
  /\ reading = {} /\ writing = {}
  /\ writing' = {t}
  /\ UNCHANGED reading

ReleaseWrite(t) ==
  /\ t \in writing
  /\ writing' = writing \ {t}
  /\ UNCHANGED reading

Next ==
  \/ \E t \in Readers : AcquireRead(t) \/ ReleaseRead(t)
  \/ \E t \in Writers : AcquireWrite(t) \/ ReleaseWrite(t)

Spec == Init /\ [][Next]_vars
=============================================================================
