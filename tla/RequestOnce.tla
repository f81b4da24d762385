------------------------------ MODULE RequestOnce ------------------------------
(***************************************************************************)
(* What an idempotency key promises its caller, whatever the service does  *)
(* with the request: it is decided once, and a caller that asks again is   *)
(* told what was decided, however often and however late it asks.          *)
(***************************************************************************)
CONSTANTS Key, None

VARIABLES
  decided, \* what the request under a key came to, None if it had no effect yet
  told     \* what its caller was last told

Init == decided = [k \in Key |-> None] /\ told = [k \in Key |-> None]

(* The caller may not hear of it. *)
Decide(k) ==
  /\ decided[k] = None /\ decided'[k] # None
  /\ decided' = [decided EXCEPT ![k] = decided'[k]]
  /\ told' \in {told, [told EXCEPT ![k] = decided'[k]]}

Tell(k) ==
  /\ decided[k] # None
  /\ told' = [told EXCEPT ![k] = decided[k]]
  /\ UNCHANGED decided

Next == \E k \in Key : Decide(k) \/ Tell(k)

Spec == Init /\ [][Next]_<<decided, told>>
=============================================================================
