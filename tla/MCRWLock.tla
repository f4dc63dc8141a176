------------------------------ MODULE MCRWLock ------------------------------
(* A small instance of RWLock for TLC.                                     *)
EXTENDS RWLock

CONSTANTS r1, r2, m

(* The main thread m compiles (writes) and also asks for type names, as do *)
(* two others; one of them also writes.                                    *)
ThreeReaders == {r1, r2, m}
TwoWriters == {r1, m}
=============================================================================
