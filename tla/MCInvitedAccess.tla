--------------------------- MODULE MCInvitedAccess ---------------------------
(***************************************************************************)
(* The way of an invited person into the product, on small instances: the  *)
(* operator's invitations, the logins that use them, the profile made from *)
(* a reviewed draft and its corrections.  They share no state while they   *)
(* run: a behaviour is about one of them, the one `part` names, and the    *)
(* others stay as they start.                                              *)
(***************************************************************************)
EXTENDS InvitationIssue, OidcTransactions, ProfileCreation, ProfileCorrections

CONSTANTS p1, q1, q2, b1, b2, e1, e2

VARIABLE part

accessVars == <<invitationVars, oidcVars, creationVars, correctionVars, part>>

Part(p, next, others) == part = p /\ next /\ UNCHANGED <<others, part>>

InitAccess ==
  /\ InitInvitations /\ InitOidc /\ InitCreation /\ InitCorrections
  /\ part \in {"invitations", "logins", "creation", "corrections"}
  /\ profile # 0 => part = "creation"  \* the other parts do not look at it

NextAccess ==
  \/ Part("invitations", NextInvitations, <<oidcVars, creationVars, correctionVars>>)
  \/ Part("logins", NextOidc, <<invitationVars, creationVars, correctionVars>>)
  \/ Part("creation", NextCreation, <<invitationVars, oidcVars, correctionVars>>)
  \/ Part("corrections", NextCorrections, <<invitationVars, oidcVars, creationVars>>)

SpecAccess == InitAccess /\ [][NextAccess]_accessVars
=============================================================================
