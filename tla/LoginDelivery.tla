--------------------------- MODULE LoginDelivery ---------------------------
(***************************************************************************)
(* A login request, from a verified assertion to a cookie in a browser:    *)
(* complete_trusted_login commits a session whose secrets exist only in    *)
(* the request's vault, makes them deliverable, leases them to the         *)
(* response writer, and either acknowledges the delivery or revokes the    *)
(* session as undelivered.  The rows survive a crash of the process, the   *)
(* vault and the result do not.                                            *)
(***************************************************************************)
EXTENDS AccountSessions

CONSTANTS Requests, LoginKeys

\* The scope of a login's key is a hash of the caller's, that of a rotation another prefix.
ASSUME LoginKeysAssumption == "rotation" \notin LoginKeys

VARIABLES request,   \* one record per HTTP request that completes a login
          held       \* sessions whose cookie some browser has received

vars == <<clock, account, sessions, request, held>>

Idle == [phase |-> "idle", session |-> 0, status |-> "none", entry |-> "none",
         now |-> 0, tries |-> 0, outcome |-> "none"]

Undeliverable == {"pending_commit", "issued", "delivery_pending"}

Set(r, record) == request' = [request EXCEPT ![r] = record]
Finish(r, status, outcome) ==
  Set(r, [request[r] EXCEPT !.phase = "done", !.status = status, !.entry = "closed",
                            !.outcome = outcome])
SessionOf(r) == sessions[request[r].session]

----------------------------------------------------------------------------
(* complete_trusted_login: one transaction over the account, the key's     *)
(* binding and the new row.                                                *)

\* Mutant: a key whose session was revoked as undelivered is free again.
BoundWhileDeliverable(key) ==
  {s \in Rows : sessions[s].key.scope = key /\ ~sessions[s].key.undelivered}

\* _require_idempotency_binding: the rows whose key starts with the caller's scope.
Bound(key) == {s \in Rows : sessions[s].key.scope = key}

CompleteLogin(r, a, key) == \E now \in Readings : \E accepted \in 1..now :
  LET bound == Key(key, <<a, accepted>>)
      answer(outcome) ==
        /\ Set(r, [Idle EXCEPT !.phase = "done", !.outcome = outcome, !.entry = "closed"])
        /\ UNCHANGED sessions
  IN
  /\ request[r].phase = "idle"
  /\ \/ /\ account[a].status # "active"
        /\ answer("authentication_denied")
     \/ /\ Eligible(a, now) /\ Bound(key) = {}
        /\ CreateRow(a, accepted, now, bound)
        /\ Set(r, [Idle EXCEPT !.phase = "finalizing", !.session = Len(sessions) + 1,
                               !.status = "pending_commit", !.entry = "pending", !.now = now])
     \/ /\ Eligible(a, now) /\ \E s \in Bound(key) : sessions[s].key # bound
        /\ answer("idempotency_conflict")
     \/ /\ Eligible(a, now)
        /\ \E s \in Bound(key) : /\ sessions[s].key = bound
                                 /\ answer(IF RotationRelationshipValid(s, now)
                                           THEN "already_completed" ELSE "unavailable")
  /\ UNCHANGED <<clock, account, held>>

----------------------------------------------------------------------------
(* _finalize_pending_with_retry: two attempts, each of which may fail.     *)

FinalizeSucceeds(r) ==
  /\ request[r].phase = "finalizing"
  /\ Live(request[r].session) /\ SessionOf(r).version = 1
  /\ Set(r, [request[r] EXCEPT !.phase = "returned", !.status = "issued",
                               !.entry = "ready", !.tries = 0, !.outcome = "issued"])
  /\ UNCHANGED <<clock, account, sessions, held>>

\* The row is no longer the one that was committed: the secrets are discarded.
FinalizeRejects(r) ==
  /\ request[r].phase = "finalizing"
  /\ ~(Live(request[r].session) /\ SessionOf(r).version = 1)
  /\ Finish(r, "terminal_failed", "unavailable")
  /\ UNCHANGED <<clock, account, sessions, held>>

\* An attempt raises: once more, or straight to compensation (a control-flow
\* exception, or a connection that no longer answers).
FinalizeFails(r) ==
  /\ request[r].phase = "finalizing"
  /\ \/ /\ request[r].tries = 0
        /\ Set(r, [request[r] EXCEPT !.tries = 1])
     \/ Set(r, [request[r] EXCEPT !.phase = "compensating", !.tries = 0,
                                  !.outcome = "unavailable"])
  /\ UNCHANGED <<clock, account, sessions, held>>

\* The result object cannot be built, after the session was made deliverable.
ResultFails(r) ==
  /\ request[r].phase = "returned"
  /\ Set(r, [request[r] EXCEPT !.phase = "compensating", !.outcome = "unavailable"])
  /\ UNCHANGED <<clock, account, sessions, held>>

----------------------------------------------------------------------------
(* Delivery *)

\* _prepare_issued_session_delivery: the result is marked before the vault is
\* asked, so whatever fails afterwards is compensated.
PrepareDelivery(r) == \E now \in Readings :
  /\ request[r].phase = "returned" /\ request[r].status = "issued"
  /\ \/ /\ EffectiveExpiry(request[r].session) > now
        /\ Set(r, [request[r] EXCEPT !.phase = "leased", !.status = "delivery_pending",
                                     !.entry = "delivering", !.now = now])
     \/ Set(r, [request[r] EXCEPT !.phase = "compensating", !.status = "delivery_pending",
                                  !.entry = "delivering", !.now = now,
                                  !.outcome = "unavailable"])
  /\ UNCHANGED <<clock, account, sessions, held>>

\* The response headers reach the browser.
Deliver(r) ==
  /\ request[r].phase = "leased" /\ request[r].session \notin held
  /\ held' = held \cup {request[r].session}
  /\ UNCHANGED <<clock, account, sessions, request>>

\* Only once the headers were accepted; whatever fails here is not compensated.
AcknowledgeDelivery(r) ==
  /\ request[r].phase = "leased" /\ request[r].session \in held
  /\ Finish(r, "delivery_acknowledged", "issued")
  /\ UNCHANGED <<clock, account, sessions, held>>

\* Writing the headers raised, before or after the browser had them.
FailDelivery(r) ==
  /\ request[r].phase = "leased"
  /\ Set(r, [request[r] EXCEPT !.phase = "compensating", !.outcome = "unavailable"])
  /\ UNCHANGED <<clock, account, sessions, held>>

----------------------------------------------------------------------------
(* Compensation: two ordinary attempts, then two forced ones, then nothing. *)

AlreadyCompensated(r) ==
  /\ SessionOf(r).version = 2 /\ SessionOf(r).rotated = 0 /\ ~Live(request[r].session)
  /\ SessionOf(r).reason = "security_reset" /\ SessionOf(r).key.undelivered
  /\ SessionOf(r).revoked <= request[r].now

ExactIssuance(r) == SessionOf(r).predecessor = 0 /\ Replacements(request[r].session) = {}

Compensable(r) ==
  /\ request[r].status \in Undeliverable /\ request[r].entry \in {"pending", "ready", "delivering"}
  /\ ExactIssuance(r)
  /\ \/ AlreadyCompensated(r)
     \/ /\ SessionOf(r).version = 1 /\ Live(request[r].session)
        /\ ~SessionOf(r).key.undelivered
        /\ \A s \in Rows : sessions[s].key # Undelivered(SessionOf(r).key)

Compensated(r) ==
  IF AlreadyCompensated(r) THEN sessions
  ELSE [sessions EXCEPT ![request[r].session] =
         [SessionOf(r) EXCEPT !.revoked = request[r].now, !.reason = "security_reset",
                              !.version = 2, !.key = Undelivered(SessionOf(r).key)]]

\* Mutant: there is no forced kind.
GiveUp(r, usable) ==
  IF request[r].tries = 0 /\ usable THEN [request[r] EXCEPT !.tries = 1]
  ELSE [request[r] EXCEPT !.phase = "done", !.entry = "closed", !.status = "terminal_failed"]

\* What follows an attempt that failed or could not be verified: the same kind once
\* more, unless the connection no longer answers; then the forced kind; then nothing.
NextAttempt(r, usable) ==
  IF request[r].tries = 0 /\ usable
  THEN [request[r] EXCEPT !.tries = 1]
  ELSE IF request[r].phase = "compensating"
  THEN [request[r] EXCEPT !.phase = "forcing", !.tries = 0]
  ELSE [request[r] EXCEPT !.phase = "done", !.outcome = "exhausted", !.entry = "closed",
                          !.status = "terminal_failed"]

\* One attempt: it commits and is verified, it commits and the verification fails, or
\* the row is not compensable or the database refuses, and nothing changed.
Attempt(r) ==
  \/ /\ Compensable(r)
     /\ sessions' = Compensated(r)
     /\ \/ Finish(r, "terminal_failed", "unavailable")
        \/ \E usable \in BOOLEAN : Set(r, NextAttempt(r, usable))
  \/ /\ UNCHANGED sessions
     /\ \E usable \in BOOLEAN : Set(r, NextAttempt(r, usable))

CompensateUndelivered(r) ==
  /\ request[r].phase = "compensating" /\ Attempt(r)
  /\ UNCHANGED <<clock, account, held>>

ForceCompensateUndelivered(r) ==
  /\ request[r].phase = "forcing" /\ Attempt(r)
  /\ UNCHANGED <<clock, account, held>>

\* The process dies with the request's vault; the database keeps the row.
Crash(r) ==
  /\ request[r].phase \notin {"idle", "done", "crashed"}
  /\ Set(r, [request[r] EXCEPT !.phase = "crashed", !.entry = "closed", !.status = "none"])
  /\ UNCHANGED <<clock, account, sessions, held>>

----------------------------------------------------------------------------
InitLogin ==
  /\ InitSessions
  /\ request = [r \in Requests |-> Idle]
  /\ held = {}

Serve(r) ==
  \/ FinalizeSucceeds(r) \/ FinalizeRejects(r) \/ FinalizeFails(r)
  \/ PrepareDelivery(r) \/ AcknowledgeDelivery(r) \/ FailDelivery(r)
  \/ CompensateUndelivered(r) \/ ForceCompensateUndelivered(r)

\* What a browser that holds the cookie of s may ask for.
Browse(s) ==
  \/ RotateSession(s) /\ held' = held \cup {Len(sessions) + 1} /\ UNCHANGED request
  \/ RevokeSession(s, "user_logout") /\ UNCHANGED <<request, held>>

NextLogin ==
  \/ AccountStep /\ UNCHANGED <<request, held>>
  \/ \E s \in held : Browse(s)
  \/ \E r \in Requests :
       \/ \E a \in Accounts, key \in LoginKeys : CompleteLogin(r, a, key)
       \/ Serve(r) \/ Deliver(r) \/ ResultFails(r) \/ Crash(r)

\* A handler that runs finishes: its retries are bounded, and the response writer
\* acknowledges or fails its lease in a finally block.
SpecLogin == InitLogin /\ [][NextLogin]_vars /\ \A r \in Requests : WF_vars(Serve(r))

----------------------------------------------------------------------------
\* A login's chain of rotations has one usable end: two sessions that are both
\* unrevoked never descend from the same login (account_session_rotations).
OneLivePerLineage ==
  \A s, t \in Rows : Live(s) /\ Live(t) /\ Root(s) = Root(t) => s = t

\* An account that is suspended, asked to be deleted or is deactivated has no
\* unrevoked session left that a later reactivation could bring back.
InactiveAccountHasNoSession ==
  \A s \in Rows : Live(s) => account[sessions[s].account].status = "active"

\* What is unrevoked is what a login is entitled to: one session of each lineage, and only
\* of active accounts.
LiveSessionsAreLegitimate == OneLivePerLineage /\ InactiveAccountHasNoSession

\* The lineage checks of authentication never turn against a good session: one that
\* is unrevoked, unexpired and of an active account is an actor, whatever happened
\* to the sessions around it.
LiveSessionAuthenticates ==
  \A s \in Rows :
    Live(s) /\ EffectiveExpiry(s) > clock => Authenticate(s, clock) = "actor"

\* A token that was refused once is refused for ever: no reactivation, cancelled
\* deletion or replayed request makes it good again.
RefusedStaysRefused ==
  [][\A s \in Rows : Authenticate(s, clock) # "actor" => Authenticate(s, clock)' # "actor"]_vars

\* "No status or exception leaves an active undelivered session"
\* (persistent_profile_services.md:844), as far as the code can keep it: a login that
\* ends without handing over its cookie leaves its session dead, unless the process
\* died or every attempt to revoke it failed.
UndeliveredIsDead ==
  \A r \in Requests :
    /\ request[r].phase = "done" /\ request[r].session # 0
    /\ request[r].outcome # "exhausted"
    /\ request[r].status # "delivery_acknowledged"
    => ~Live(request[r].session)

\* A caller key creates one session at most, ever: not a second one for a replay, for
\* another account, nor for a retry after the first was revoked as undelivered.
OneSessionPerLoginKey ==
  \A s, t \in Rows : sessions[s].key.scope \in LoginKeys
                     /\ sessions[s].key.scope = sessions[t].key.scope => s = t

\* No login request that has begun stays unfinished, however its attempts fail: again and
\* again there is none under way (each begins once).
LoginEnds == []<>(\A r \in Requests : request[r].phase \in {"idle", "done", "crashed"})
============================================================================
