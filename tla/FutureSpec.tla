----------------------------- MODULE FutureSpec -----------------------------
(***************************************************************************)
(* What a future promises the thread that owns it: it is completed at most *)
(* once, and an `await` returns only after that, with the completed value. *)
(***************************************************************************)
CONSTANTS Futures,  (* the futures                                        *)
          Values,   (* the values a future can be completed with          *)
          Pending   (* "no value yet"                                     *)

VARIABLES value,    (* the value each future was completed with           *)
          got       (* what the await of each future returned             *)

vars == <<value, got>>

Init ==
  /\ value = [f \in Futures |-> Pending]
  /\ got = [f \in Futures |-> Pending]

Complete(f) ==
  /\ value[f] = Pending
  /\ \E v \in Values : value' = [value EXCEPT ![f] = v]
  /\ UNCHANGED got

Await(f) ==
  /\ value[f] # Pending
  /\ got' = [got EXCEPT ![f] = value[f]]
  /\ UNCHANGED value

Next == \E f \in Futures : Complete(f) \/ Await(f)

Spec == Init /\ [][Next]_vars
=============================================================================
