-------------------------- MODULE AccountSessions --------------------------
(***************************************************************************)
(* Accounts and their browser sessions as the identity database holds      *)
(* them: every operation is one BEGIN IMMEDIATE transaction, so it is one  *)
(* step here.  What is not atomic is time: an operation reads the clock    *)
(* before it waits for the write lock, so it may act on a reading that is  *)
(* up to Lag old (Readings).  Timestamps have the code's granularity, one  *)
(* tick; 0 stands for NULL.                                                *)
(***************************************************************************)
EXTENDS Naturals, Sequences, FiniteSets

CONSTANTS Accounts,      \* the accounts that may be invited
          MaxSessions,   \* bound on rows of account_sessions
          MaxTime,       \* bound on the clock
          MaxMutations,  \* bound on an account's row_version
          IdleTtl, AbsoluteTtl, CoolingPeriod,
          MaxDepth,      \* MAX_SESSION_ROTATION_DEPTH
          Lag            \* how old a clock reading may be when it is used

ASSUME SessionsAssumption ==
  /\ {MaxSessions, MaxTime, MaxMutations, MaxDepth, Lag} \subseteq Nat
  /\ IdleTtl \in Nat \ {0} /\ AbsoluteTtl \in Nat \ {0} /\ CoolingPeriod \in Nat \ {0}
  /\ IdleTtl <= AbsoluteTtl

VARIABLES clock,     \* wall clock of the host
          account,   \* users, with the open row of account_deletion_requests
          sessions   \* account_sessions in insertion order, with its rotation edge

sessionVars == <<clock, account, sessions>>

Earlier(a, b) == IF a <= b THEN a ELSE b
Readings == {t \in 1..clock : clock <= t + Lag}
Rows == DOMAIN sessions
OwnedBy(a) == {s \in Rows : sessions[s].account = a}
Live(s) == sessions[s].revoked = 0
EffectiveExpiry(s) == Earlier(sessions[s].idle, sessions[s].absolute)

----------------------------------------------------------------------------
(* The rotation lineage, which authentication re-derives on every request. *)

Replacements(s) == {t \in Rows : sessions[t].predecessor = s}

\* The chain from s back to the session the login created.
Depth(s) ==
  LET d[t \in Rows] == IF sessions[t].predecessor = 0 THEN 0
                       ELSE 1 + d[sessions[t].predecessor]
  IN  d[s]
Root(s) ==
  LET r[t \in Rows] == IF sessions[t].predecessor = 0 THEN t
                       ELSE r[sessions[t].predecessor]
  IN  r[s]
Ancestors(s) ==
  LET up[t \in Rows] == IF sessions[t].predecessor = 0 THEN {}
                        ELSE {sessions[t].predecessor} \cup up[sessions[t].predecessor]
  IN  up[s]

\* One edge, seen from the replacement r.
EdgeHolds(r) ==
  LET p == sessions[r].predecessor
  IN  /\ sessions[p].account = sessions[r].account
      /\ sessions[p].created <= sessions[r].created
      /\ sessions[p].rotated = sessions[r].edge
      /\ sessions[p].revoked = sessions[r].edge
      /\ sessions[p].reason = "session_rotated"
      /\ sessions[p].absolute = sessions[r].absolute
      /\ sessions[p].version > 1

AncestorLineageValid(s, now) ==
  /\ Depth(s) <= MaxDepth
  /\ \A t \in {s} \cup Ancestors(s) :
       sessions[t].predecessor # 0 => EdgeHolds(t) /\ sessions[t].edge <= now

RotationRelationshipValid(s, now) ==
  /\ Cardinality(Replacements(s)) <= 1
  /\ AncestorLineageValid(s, now)
  /\ \A r \in Replacements(s) :
       /\ EdgeHolds(r) /\ sessions[r].edge <= now
       /\ sessions[r].rotated = 0 /\ sessions[r].revoked = 0
  /\ (sessions[s].rotated = 0) <=> (Replacements(s) = {})

\* What a request that carries the token of s is taken for at time now.
Authenticate(s, now) ==
  LET row == sessions[s]
      owner == account[row.account]
  IN  CASE ~RotationRelationshipValid(s, now) -> "unavailable"
        [] now < row.created -> "anonymous"
        [] row.rotated > now \/ row.revoked > now -> "unavailable"
        [] EffectiveExpiry(s) <= now \/ ~Live(s) -> "anonymous"
        [] owner.updated > now \/ row.created < owner.created -> "unavailable"
        [] owner.status # "active" -> "anonymous"
        [] OTHER -> "actor"

----------------------------------------------------------------------------
(* Accounts *)

NoAccount == [status |-> "absent", version |-> 0, created |-> 0, updated |-> 0,
              restore |-> "active", requested |-> 0]

\* _eligible_account_for_existing_session
Eligible(a, now) ==
  /\ account[a].status = "active"
  /\ account[a].created <= now /\ account[a].updated <= now

\* UPDATE account_sessions ... WHERE user_id = ? AND revoked_at IS NULL; a
\* CHECK of the table refuses a revocation earlier than the session's creation.
CanRevokeAll(a, now) == \A s \in OwnedBy(a) : Live(s) => sessions[s].created <= now
\* Mutant: only the session the login created.
RevokeRoots(a, reason, now) ==
  [s \in Rows |-> IF sessions[s].account = a /\ Live(s) /\ sessions[s].predecessor = 0
                  THEN [sessions[s] EXCEPT !.revoked = now, !.reason = reason]
                  ELSE sessions[s]]

RevokeAll(a, reason, now) ==
  [s \in Rows |-> IF sessions[s].account = a /\ Live(s)
                  THEN [sessions[s] EXCEPT !.revoked = now, !.reason = reason,
                                           !.version = @ + 1]
                  ELSE sessions[s]]

\* A lifecycle event and its users row; the account's CHECKs bound the times.
Moved(a, status, now) ==
  [account EXCEPT ![a].status = status, ![a].version = @ + 1, ![a].updated = now]

MayMove(a, now) == account[a].version < MaxMutations /\ account[a].created <= now

CreateInvitedUser(a) == \E now \in Readings :
  /\ account[a].status = "absent"
  /\ account' = [account EXCEPT ![a] = [NoAccount EXCEPT
       !.status = "active", !.version = 1, !.created = now, !.updated = now]]
  /\ UNCHANGED <<clock, sessions>>

\* Mutant: the sessions are left to the account's status.
SuspendOnly(a) == \E now \in Readings :
  /\ account[a].status = "active" /\ MayMove(a, now)
  /\ account' = Moved(a, "suspended", now)
  /\ UNCHANGED <<clock, sessions>>

SuspendUser(a) == \E now \in Readings :
  /\ account[a].status = "active" /\ MayMove(a, now)
  /\ CanRevokeAll(a, now)
  /\ account' = Moved(a, "suspended", now)
  /\ sessions' = RevokeAll(a, "account_suspended", now)
  /\ UNCHANGED clock

\* The suspension's idempotency key again: the stored event is returned, and the
\* sessions are revoked at the account's updated_at, whatever it is by now.
SuspendUserReplay(a) ==
  /\ account[a].version > 1
  /\ CanRevokeAll(a, account[a].updated)
  /\ sessions' = RevokeAll(a, "account_suspended", account[a].updated)
  /\ UNCHANGED <<clock, account>>

ReactivateUser(a) == \E now \in Readings :
  /\ account[a].status = "suspended" /\ MayMove(a, now)
  /\ account' = Moved(a, "active", now)
  /\ UNCHANGED <<clock, sessions>>

RequestAccountDeletion(a) == \E now \in Readings :
  /\ account[a].status \in {"active", "suspended"} /\ MayMove(a, now)
  /\ CanRevokeAll(a, now)
  /\ account' = [Moved(a, "deletion_requested", now) EXCEPT
       ![a].restore = account[a].status, ![a].requested = now]
  /\ sessions' = RevokeAll(a, "account_deactivation_requested", now)
  /\ UNCHANGED clock

FinishDeletionRequest(a, action) == \E now \in Readings :
  /\ account[a].status = "deletion_requested" /\ MayMove(a, now)
  /\ account[a].requested <= now
  /\ action = "deactivate" => account[a].requested + CoolingPeriod <= now
  /\ CanRevokeAll(a, now)
  /\ account' = Moved(a, IF action = "deactivate" THEN "deactivated_pending_purge"
                         ELSE account[a].restore, now)
  /\ sessions' = RevokeAll(a, "account_deactivation_requested", now)
  /\ UNCHANGED clock

----------------------------------------------------------------------------
(* Sessions *)

\* creation_idempotency_key: the caller's key (its hash is the prefix), the digest
\* of everything else the login binds, and the suffix a compensation appends.
Key(scope, bound) == [scope |-> scope, bound |-> bound, undelivered |-> FALSE]
Undelivered(key) == [key EXCEPT !.undelivered = TRUE]

NewRow(a, created, idle, absolute, key, predecessor) ==
  [account |-> a, created |-> created, idle |-> idle, absolute |-> absolute,
   key |-> key, predecessor |-> predecessor,
   edge |-> IF predecessor = 0 THEN 0 ELSE created,
   rotated |-> 0, revoked |-> 0, reason |-> "none", version |-> 1]

RoomForSession == Len(sessions) < MaxSessions

\* _create_browser_session: the row of a login accepted at `accepted`.
CreateRow(a, accepted, now, key) ==
  /\ RoomForSession
  /\ accepted <= now /\ Eligible(a, now) /\ account[a].created <= accepted
  /\ accepted + IdleTtl > now
  /\ sessions' = Append(sessions,
       NewRow(a, accepted, accepted + IdleTtl, accepted + AbsoluteTtl, key, 0))

\* A session that may still be rotated or revoked, judged at the command's time.
ActiveCurrent(s, accepted) ==
  /\ RotationRelationshipValid(s, accepted)
  /\ sessions[s].version = 1 /\ Live(s)
  /\ sessions[s].created <= accepted /\ accepted < EffectiveExpiry(s)

\* Mutant: one rotation more than authentication accepts.
MayRotateOnceMore(s) == Depth(s) <= MaxDepth
MayRotate(s) == Depth(s) < MaxDepth
RetirePredecessor(s, at) ==
  [sessions EXCEPT ![s].rotated = at, ![s].revoked = at,
                   ![s].reason = "session_rotated", ![s].version = 2]

RotateSession(s) == \E now \in Readings, accepted \in Readings :
  LET idle == Earlier(accepted + IdleTtl, sessions[s].absolute)
  IN  /\ RoomForSession
      /\ accepted <= now /\ Eligible(sessions[s].account, now)
      /\ ActiveCurrent(s, accepted)
      /\ MayRotate(s)
      /\ EffectiveExpiry(s) > now /\ idle > now
      /\ sessions' = Append(RetirePredecessor(s, accepted), 
           NewRow(sessions[s].account, accepted, idle, sessions[s].absolute,
                  Key("rotation", <<s>>), s))
      /\ UNCHANGED <<clock, account>>

\* revoke_browser_session; accounts.revoke_current_session, the logout, is the
\* case accepted = now.
RevokeSession(s, reason) == \E now \in Readings, accepted \in Readings :
  /\ accepted <= now /\ Eligible(sessions[s].account, now)
  /\ ActiveCurrent(s, accepted)
  /\ sessions' = [sessions EXCEPT ![s].revoked = accepted, ![s].reason = reason,
                                  ![s].version = 2]
  /\ UNCHANGED <<clock, account>>

Tick ==
  /\ clock < MaxTime
  /\ clock' = clock + 1
  /\ UNCHANGED <<account, sessions>>

InitSessions ==
  /\ clock = 1
  /\ account = [a \in Accounts |-> NoAccount]
  /\ sessions = <<>>

AccountStep ==
  \/ \E a \in Accounts :
       \/ CreateInvitedUser(a) \/ SuspendUser(a) \/ SuspendUserReplay(a)
       \/ ReactivateUser(a) \/ RequestAccountDeletion(a)
       \/ \E action \in {"cancel", "deactivate"} : FinishDeletionRequest(a, action)
  \/ Tick
============================================================================
