----------------------------- MODULE MCHeapPool -----------------------------
(* Small instances of HeapPool for TLC.                                    *)
EXTENDS HeapPool
=============================================================================
