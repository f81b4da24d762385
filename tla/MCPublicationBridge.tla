------------------------- MODULE MCPublicationBridge -------------------------
(***************************************************************************)
(* Bridge mode with the instance "carried".  While b is not claimed, a and *)
(* c, which plan one effect, act beside the legacy publisher without a     *)
(* bound.  Once b is claimed, which puts back what they publish, a step    *)
(* keeps to these bounds: the legacy publisher stays away, a and b do not  *)
(* stop in their preflight, c is driven when a has ended, whoever is       *)
(* driven has the person's receipt, and the effect of b, which nobody else *)
(* plans, is not registered.                                               *)
(***************************************************************************)
EXTENDS MCPublication

Unclaimed == state'[b] = "absent"

Reversed ==
  /\ writer' = None /\ Legacy \notin registry'
  /\ \A o \in Operation \ {c} : ~Retryable(o)'
  /\ pc'[c] # "idle" => Resolved(a)
  /\ pc' # pc => human = humanGated
  /\ acceptedEffects'["reverse"] = NoEntry

Bounded == Unclaimed \/ Reversed
=============================================================================
