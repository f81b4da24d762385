------------------------ MODULE ProfileCorrections ------------------------
(***************************************************************************)
(* Corrections of a durable profile: a review made on one revision, the    *)
(* artifact the vault keeps for it, and the requests that claim it, append *)
(* one revision and remember how that ended.  A commit may be uncertain,   *)
(* an artifact expires, the service closes while requests run, and the     *)
(* process dies and starts again; what was committed is found again by its *)
(* idempotency key.  One account, one session, one profile.                *)
(***************************************************************************)
EXTENDS Naturals, Sequences, FiniteSets

CONSTANTS MaxReviews,      \* reviews confirmed, each with an artifact of its own
          MaxApplies,      \* requests that apply an artifact
          MaxTime,         \* bound on the monotonic clock
          SlipCapacity,    \* PROFILE_CORRECTION_ARTIFACT_CAPACITY
          SlipLifetime     \* PROFILE_CORRECTION_ARTIFACT_LIFETIME_SECONDS

ASSUME CorrectionAssumption ==
  {MaxReviews, MaxApplies, MaxTime} \subseteq Nat /\ {SlipCapacity, SlipLifetime} \subseteq Nat \ {0}

VARIABLES time,       \* the monotonic clock
          revisions,  \* product_profile_revisions: the artifact of each, 0 for the first
          review,     \* per review: the revision it was made on, and how far it got
          slips,      \* ConfirmedProfileCorrectionArtifactVault._records
          service,    \* "active", "closing" or "closed"
          operations, \* _operations: the applies close() waits for
          apply,      \* requests
          restarted   \* the process has started again

correctionVars == <<time, revisions, review, slips, service, operations, apply, restarted>>

Reviews == 1..MaxReviews
Applies == 1..MaxApplies  \* in the order they arrive
NoReview == [stage |-> "none", base |-> 0]
NoSlip == [state |-> "none", deadline |-> 0]
NewApply == [step |-> "idle", slip |-> 0, outcome |-> "none"]

Applied(k) == \E n \in DOMAIN revisions : revisions[n] = k
Outlived(k) ==
  slips[k].state \notin {"none", "in_flight"} /\ time >= slips[k].deadline
PurgedSlips == [k \in Reviews |-> IF Outlived(k) THEN NoSlip ELSE slips[k]]

----------------------------------------------------------------------------
(* The review and its artifact *)

\* authorize_request reads the current revision; the grant keeps it.
AuthorizeReview(k) ==
  /\ service = "active"
  /\ review[k].stage = "none" /\ \A j \in 1..(k - 1) : review[j].stage # "none"
  /\ review' = [review EXCEPT ![k] = [stage |-> "authorized", base |-> Len(revisions)]]
  /\ UNCHANGED <<time, revisions, slips, service, operations, apply, restarted>>

\* issue_confirmed_artifact: the profile may have moved on since the grant.
IssueSlip(k) ==
  /\ review[k].stage = "authorized"
  /\ \/ /\ service = "active"
        /\ Cardinality({j \in Reviews : PurgedSlips[j].state # "none"}) < SlipCapacity
        /\ slips' = [PurgedSlips EXCEPT ![k] =
             [state |-> "available", deadline |-> time + SlipLifetime]]
        /\ review' = [review EXCEPT ![k].stage = "offered"]
     \/ /\ review' = [review EXCEPT ![k].stage = "failed"]
        /\ slips' = IF service = "active" THEN PurgedSlips ELSE slips
  /\ UNCHANGED <<time, revisions, service, operations, apply, restarted>>

----------------------------------------------------------------------------
(* The artifact is applied *)

Steps(c, step) == apply' = [apply EXCEPT ![c].step = step]

\* The answer, and _finish_consume.
Responds(c, outcome) ==
  /\ apply' = [apply EXCEPT ![c] =
       [step |-> "done", slip |-> apply[c].slip, outcome |-> outcome]]
  /\ operations' = operations \ {c}

\* A closed service says "gone" whatever became of the artifact: "shut" here.
BeginConsume(c, k) ==
  /\ apply[c].step = "idle" /\ \A b \in 1..(c - 1) : apply[b].step # "idle"
  /\ review[k].stage = "offered"
  /\ \/ /\ service # "active"
        /\ \E why \in {"shut", "unavailable"} :
             apply' = [apply EXCEPT ![c] = [step |-> "done", slip |-> k, outcome |-> why]]
        /\ UNCHANGED operations
     \/ /\ service = "active" /\ operations' = operations \union {c}
        /\ apply' = [apply EXCEPT ![c] = [step |-> "claiming", slip |-> k, outcome |-> "none"]]
  /\ UNCHANGED <<time, revisions, review, slips, service, restarted>>

\* claim, each time round its loop: an artifact in flight is waited for.
ClaimSlip(c) ==
  /\ apply[c].step = "claiming"
  /\ LET k == apply[c].slip
         state == PurgedSlips[k].state
     IN  \/ service # "active" /\ Responds(c, "unavailable") /\ UNCHANGED slips
         \/ /\ service = "active"
            /\ \/ state = "none" /\ Steps(c, "looking") /\ UNCHANGED operations
               \/ state = "completed" /\ Responds(c, "corrected")
               \/ state = "stale" /\ Responds(c, "stale")
               \/ state = "in_flight" /\ Responds(c, "temporary_contention")  \* waited too long
               \/ state \in {"available", "reconcile"} /\ Steps(c, "appending") /\ UNCHANGED operations
            /\ slips' = IF state \in {"available", "reconcile"}
                        THEN [PurgedSlips EXCEPT ![k].state = "in_flight"] ELSE PurgedSlips
  /\ UNCHANGED <<time, revisions, review, service, restarted>>

\* Mutant: a revision the key already made is not looked for.
AppendUnreplayed(c) ==
  /\ apply[c].step = "appending"
  /\ LET longer == Append(revisions, apply[c].slip)
         current == Len(revisions) = review[apply[c].slip].base
     IN  \/ current /\ revisions' = longer /\ \E step \in {"corrected", "unavailable"} : Steps(c, step)
         \/ current /\ UNCHANGED revisions /\ Steps(c, "unavailable")
         \/ ~current /\ UNCHANGED revisions /\ Steps(c, "stale")
  /\ UNCHANGED <<time, review, slips, service, operations, restarted>>

\* append in one transaction: the replay by key, then the revision the artifact expects.
AppendRevision(c) ==
  /\ apply[c].step = "appending"
  /\ LET k == apply[c].slip
         current == Len(revisions) = review[k].base
         longer == Append(revisions, k)
     IN  \/ Applied(k) /\ Steps(c, "corrected") /\ UNCHANGED revisions
         \/ ~Applied(k) /\ ~current /\ Steps(c, "stale") /\ UNCHANGED revisions
         \/ ~Applied(k) /\ current /\ revisions' = longer /\ Steps(c, "corrected")
         \/ /\ ~Applied(k) /\ current /\ revisions' = longer   \* the outcome is uncertain
            /\ \E step \in {"unavailable", "raised"} : Steps(c, step)
         \/ /\ UNCHANGED revisions                             \* rolled back, or refused
            /\ \E step \in {"temporary_contention", "unavailable", "raised"} : Steps(c, step)
  /\ UNCHANGED <<time, review, slips, service, operations, restarted>>

\* The record remembers what is final and can be claimed again otherwise.
Remembers(step) ==
  CASE step = "corrected" -> "completed"
    [] step = "stale" -> "stale"
    [] step = "temporary_contention" -> "available"
    [] OTHER -> "reconcile"

SettleSlip(c) ==
  /\ apply[c].step \in {"corrected", "stale", "temporary_contention", "unavailable", "raised"}
  /\ LET k == apply[c].slip
         still == slips[k].state = "in_flight"
     IN  /\ slips' = IF still THEN [slips EXCEPT ![k].state = Remembers(apply[c].step)] ELSE slips
         /\ Responds(c, IF ~still \/ apply[c].step = "raised" THEN "unavailable" ELSE apply[c].step)
  /\ UNCHANGED <<time, revisions, review, service, restarted>>

\* _replay_completed_artifact: the artifact is gone, a revision with its key may be there.
ReplayCompletedSlip(c) ==
  /\ apply[c].step = "looking"
  /\ \/ Responds(c, IF Applied(apply[c].slip) THEN "corrected" ELSE "gone")
     \/ Responds(c, "unavailable")
  /\ UNCHANGED <<time, revisions, review, slips, service, restarted>>

----------------------------------------------------------------------------
CloseService ==
  /\ service = "active" /\ service' = "closing"
  /\ UNCHANGED <<time, revisions, review, slips, operations, apply, restarted>>

\* Mutant: close does not wait for the operations.
CloseAtOnce ==
  /\ service = "closing" /\ service' = "closed"
  /\ slips' = [k \in Reviews |-> NoSlip]
  /\ UNCHANGED <<time, revisions, review, operations, apply, restarted>>

\* close() waits a bounded time and may be called again until no operation is left.
CloseEnds ==
  /\ service = "closing" /\ operations = {} /\ service' = "closed"
  /\ slips' = [k \in Reviews |-> NoSlip]
  /\ UNCHANGED <<time, revisions, review, operations, apply, restarted>>

\* The process ends, in the middle of what it does or closed, and another one starts.
RestartService ==
  /\ ~restarted /\ restarted' = TRUE
  /\ service' = "active" /\ operations' = {}
  /\ slips' = [k \in Reviews |-> NoSlip]
  /\ review' = [k \in Reviews |->
       IF review[k].stage = "authorized" THEN [review[k] EXCEPT !.stage = "failed"] ELSE review[k]]
  /\ apply' = [c \in Applies |->
       IF apply[c].step = "idle" THEN apply[c] ELSE [apply[c] EXCEPT !.step = "done"]]
  /\ UNCHANGED <<time, revisions>>

TimeGoesOn ==
  /\ time < MaxTime /\ time' = time + 1
  /\ UNCHANGED <<revisions, review, slips, service, operations, apply, restarted>>

InitCorrections ==
  /\ time = 0 /\ revisions = <<0>>
  /\ review = [k \in Reviews |-> NoReview]
  /\ slips = [k \in Reviews |-> NoSlip]
  /\ service = "active" /\ operations = {}
  /\ apply = [c \in Applies |-> NewApply]
  /\ restarted = FALSE

NextCorrections ==
  \/ \E k \in Reviews : AuthorizeReview(k) \/ IssueSlip(k)
  \/ \E c \in Applies, k \in Reviews : BeginConsume(c, k)
  \/ \E c \in Applies : ClaimSlip(c) \/ AppendRevision(c) \/ SettleSlip(c) \/ ReplayCompletedSlip(c)
  \/ CloseService \/ CloseEnds \/ RestartService \/ TimeGoesOn

SpecCorrections == InitCorrections /\ [][NextCorrections]_correctionVars

----------------------------------------------------------------------------
\* Every correction stands on the very revision its reviewer saw, so no correction is
\* applied twice or over another one (append, expected_current_revision_number).
CorrectionsChain ==
  \A n \in 2..Len(revisions) : review[revisions[n]].base = n - 1

\* What a request is told about its artifact is so, and stays so: after uncertain commits,
\* after the artifact expired and after a restart (claim, _replay_completed_artifact).
ToldOfCorrection ==
  \A c \in Applies :
    /\ apply[c].outcome = "corrected" => Applied(apply[c].slip)
    /\ apply[c].outcome \in {"stale", "gone"} => ~Applied(apply[c].slip)

\* Corrections form one chain, and what is said of each is so.
CorrectionsSound == CorrectionsChain /\ ToldOfCorrection

\* After a close that succeeded no admitted correction is appended any more
\* ("guarantees that no admitted correction append can commit afterward").
ClosedIsStill == [][service = "closed" => UNCHANGED revisions]_correctionVars
=============================================================================
