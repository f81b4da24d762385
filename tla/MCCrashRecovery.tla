--------------------------- MODULE MCCrashRecovery ---------------------------
(***************************************************************************)
(* Protocols about files, rows or a registry that outlive the programs     *)
(* that write them: the coordinator beside the legacy publisher, the       *)
(* routine publisher itself, the owners of a database, the recorders of    *)
(* the observation ledger and the databases built from the registry of     *)
(* public jobs.  They share no state: a behaviour is about the one `part`  *)
(* names.                                                                  *)
(***************************************************************************)
EXTENDS MCPublication, RoutineRelease, LifetimeOwnership, ObservationLedger, PublicJobIdentity

CONSTANTS p1, p2, f1, f2, d1, d2, b1, b2, i1, i2, x, y, www, api, l1, l2, c1, c2, cp

VARIABLE part

recoveryVars == <<vars, routineVars, ownershipVars, ledgerVars, identityVars, part>>

\* l1 and l2 are two spellings of one legacy path.
LowerCase == [p \in Paths |-> IF p = l2 THEN l1 ELSE p]

Part(p, next, others) == part = p /\ next /\ UNCHANGED <<others, part>>

InitRecovery ==
  /\ Init /\ InitRoutine /\ InitOwnership /\ InitLedger /\ InitIdentity
  /\ part \in {"coordinator", "routine", "ownership", "observations", "identities"}
  /\ part # "routine" => job = NoJob
  /\ part # "ownership" => database = b1

NextRecovery ==
  \/ Part("coordinator", Next, <<routineVars, ownershipVars, ledgerVars, identityVars>>)
  \/ Part("routine", NextRoutine, <<vars, ownershipVars, ledgerVars, identityVars>>)
  \/ Part("ownership", NextOwnership, <<vars, routineVars, ledgerVars, identityVars>>)
  \/ Part("observations", NextLedger, <<vars, routineVars, ownershipVars, identityVars>>)
  \/ Part("identities", NextIdentity, <<vars, routineVars, ownershipVars, ledgerVars>>)

SpecRecovery == InitRecovery /\ [][NextRecovery]_recoveryVars
=============================================================================
