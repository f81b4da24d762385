-------------------------- MODULE PublicationPromise --------------------------
(***************************************************************************)
(* What protocol v2 promises whoever shares its bridge: production effects *)
(* are taken one at a time, each of them at most once, and each that ends  *)
(* ends for good, accepted or recovered.  An effect may stay open for ever *)
(* (an outcome nobody can determine keeps its reservation).                *)
(***************************************************************************)
CONSTANT Operation

VARIABLE phase  \* [Operation -> {"none", "open", "accepted", "recovered"}]

Init == phase = [o \in Operation |-> "none"]

(* An effect begins when no other is open. *)
Begin(o) ==
  /\ phase[o] = "none"
  /\ \A p \in Operation : phase[p] # "open"
  /\ phase' = [phase EXCEPT ![o] = "open"]

(* It ends. *)
End(o, outcome) ==
  /\ phase[o] = "open"
  /\ phase' = [phase EXCEPT ![o] = outcome]

Next == \E o \in Operation : Begin(o) \/ \E s \in {"accepted", "recovered"} : End(o, s)

Spec == Init /\ [][Next]_phase
=============================================================================
