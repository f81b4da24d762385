------------------------ MODULE LoginDelivery_proofs ------------------------
(***************************************************************************)
(* What the runs check of logins and their sessions on a few accounts, for *)
(* any number of them.  The argument: rows only grow in number, keep their *)
(* account and the scope of their key, and a revoked row stays revoked; a  *)
(* new row belongs to an active account and has a scope no login has used; *)
(* a login ends without a delivery only over a row it found or made dead.  *)
(* For lineages: a row replaces an older one, which the step that adds it  *)
(* ends; a live row ends its chain, so authentication never refuses it.    *)
(***************************************************************************)
EXTENDS LoginDelivery, SequenceTheorems, FiniteSetTheorems, WellFoundedInduction, TLAPS

Account == [status : {"absent", "active", "suspended", "deletion_requested",
                      "deactivated_pending_purge"},
            version : Nat, created : Nat, updated : Nat,
            restore : {"active", "suspended"}, requested : Nat]
SessionKey == [scope : LoginKeys \cup {"rotation"}, bound : (Accounts \X Nat) \cup Seq(Nat),
               undelivered : BOOLEAN]
Reasons == {"none", "session_rotated", "account_suspended", "account_deactivation_requested",
            "security_reset", "user_logout"}
Session == [account : Accounts, created : Nat, idle : Nat, absolute : Nat, key : SessionKey,
            predecessor : Nat, edge : Nat, rotated : Nat, revoked : Nat, reason : Reasons,
            version : Nat]
Phases == {"idle", "finalizing", "returned", "leased", "compensating", "forcing", "done", "crashed"}
Statuses == {"none", "pending_commit", "issued", "delivery_pending", "delivery_acknowledged",
             "terminal_failed"}
Entries == {"none", "pending", "ready", "delivering", "closed"}
Outcomes == {"none", "issued", "unavailable", "exhausted", "authentication_denied",
             "idempotency_conflict", "already_completed"}
LoginRequest ==
  [phase : Phases, session : Nat, status : Statuses, entry : Entries, now : Nat, tries : Nat,
   outcome : Outcomes]

LoginTypeOK ==
  /\ clock \in Nat
  /\ account \in [Accounts -> Account]
  /\ sessions \in Seq(Session)
  /\ request \in [Requests -> LoginRequest]

\* A row is at its first version exactly while nothing revoked it, and then its account
\* is active.
RowOK(s) ==
  /\ sessions[s].version = 1 <=> Live(s)
  /\ Live(s) => account[sessions[s].account].status = "active"

\* A login under way has a row and a time; one that ended undelivered left it dead.
RecordOK(q) ==
  /\ q.session # 0 => q.session \in Rows
  /\ q.phase \notin {"idle", "done", "crashed"} => q.session # 0 /\ q.now # 0
  /\ q.phase = "done" /\ q.session # 0 /\ q.outcome # "exhausted"
     /\ q.status # "delivery_acknowledged" => ~Live(q.session)

LoginIInv ==
  /\ LoginTypeOK
  /\ \A s \in Rows : RowOK(s)
  /\ \A r \in Requests : RecordOK(request[r])
  /\ OneSessionPerLoginKey
  /\ \A a \in Accounts : account[a].version > 1 => account[a].updated # 0

\* What every step does to the table: rows keep their account and scope and stay revoked,
\* and at most one is added, of an active account and under a scope that is new.
Follows(new) ==
  /\ new \in Seq(Session) /\ Rows \subseteq DOMAIN new
  /\ \A s \in DOMAIN new : new[s].version = 1 <=> new[s].revoked = 0
  /\ \A s \in Rows : /\ new[s].account = sessions[s].account
                     /\ new[s].key.scope = sessions[s].key.scope
                     /\ new[s].revoked = 0 => Live(s)
  /\ \A s, t \in DOMAIN new : s \notin Rows /\ t \notin Rows => s = t
  /\ \A s \in DOMAIN new : s \notin Rows =>
       /\ account[new[s].account].status = "active"
       /\ \/ new[s].key.scope = "rotation"
          \/ \A t \in Rows : sessions[t].key.scope # new[s].key.scope

----------------------------------------------------------------------------
\* A request stays one when one of its fields takes another of its values.
LEMMA FieldsTyped ==
  \A x \in LoginRequest :
    /\ \A p \in Phases : [x EXCEPT !.phase = p] \in LoginRequest
    /\ \A t \in Statuses : [x EXCEPT !.status = t] \in LoginRequest
    /\ \A e \in Entries : [x EXCEPT !.entry = e] \in LoginRequest
    /\ \A n \in Nat : /\ [x EXCEPT !.now = n] \in LoginRequest
                      /\ [x EXCEPT !.tries = n] \in LoginRequest
    /\ \A o \in Outcomes : [x EXCEPT !.outcome = o] \in LoginRequest
<1>1. ASSUME NEW x \in LoginRequest, NEW p \in Phases
      PROVE  [x EXCEPT !.phase = p] \in LoginRequest  BY DEF LoginRequest
<1>2. ASSUME NEW x \in LoginRequest, NEW t \in Statuses
      PROVE  [x EXCEPT !.status = t] \in LoginRequest  BY DEF LoginRequest
<1>3. ASSUME NEW x \in LoginRequest, NEW e \in Entries
      PROVE  [x EXCEPT !.entry = e] \in LoginRequest  BY DEF LoginRequest
<1>4. ASSUME NEW x \in LoginRequest, NEW n \in Nat
      PROVE  /\ [x EXCEPT !.now = n] \in LoginRequest
             /\ [x EXCEPT !.tries = n] \in LoginRequest
  BY DEF LoginRequest
<1>5. ASSUME NEW x \in LoginRequest, NEW o \in Outcomes
      PROVE  [x EXCEPT !.outcome = o] \in LoginRequest  BY DEF LoginRequest
<1> QED BY <1>1, <1>2, <1>3, <1>4, <1>5

----------------------------------------------------------------------------
(* What follows from the table's growth *)

\* The table as it is follows itself.
LEMMA NothingNew == ASSUME LoginIInv PROVE Follows(sessions)
  BY DEF LoginIInv, LoginTypeOK, RowOK, Follows, Rows, Live

\* The rows of the invariant, once the accounts are known to suit them.
LEMMA RowsFollow ==
  ASSUME LoginIInv, Follows(sessions'),
         \A s \in Rows : sessions'[s].revoked = 0 => account'[sessions[s].account].status = "active",
         \A s \in DOMAIN sessions' : s \notin Rows =>
           account'[sessions'[s].account].status = "active"
  PROVE  /\ sessions' \in Seq(Session)
         /\ \A s \in Rows' : RowOK(s)'
         /\ OneSessionPerLoginKey'
<1>1. sessions' \in Seq(Session)  BY DEF Follows
<1>2. ASSUME NEW s \in Rows' PROVE RowOK(s)'
  <2>1. CASE s \in Rows  BY <2>1, <1>2 DEF Follows, RowOK, Rows, Live
  <2>2. CASE s \notin Rows  BY <2>2, <1>2 DEF Follows, RowOK, Rows, Live
  <2> QED BY <2>1, <2>2
<1>3. OneSessionPerLoginKey'
  <2> SUFFICES ASSUME NEW s \in Rows', NEW t \in Rows',
                      sessions'[s].key.scope \in LoginKeys,
                      sessions'[s].key.scope = sessions'[t].key.scope
               PROVE  s = t
    BY DEF OneSessionPerLoginKey
  <2>1. sessions'[s].key.scope # "rotation"  BY LoginKeysAssumption
  <2>2. CASE s \in Rows /\ t \in Rows
    BY <2>2 DEF LoginIInv, OneSessionPerLoginKey, Follows
  <2>3. CASE s \notin Rows \/ t \notin Rows  BY <2>1, <2>3 DEF Follows, Rows
  <2> QED BY <2>2, <2>3
<1> QED BY <1>1, <1>2, <1>3

\* A request that no step touches stays right.
LEMMA RequestKept ==
  ASSUME LoginIInv, Follows(sessions'), NEW q \in LoginRequest, RecordOK(q)
  PROVE  RecordOK(q)'
  BY DEF RecordOK, Follows, Rows, Live, LoginRequest, Phases, Statuses, Entries, Outcomes

\* A step over requests that changes one of them, or none.
LEMMA RequestsFollow ==
  ASSUME LoginIInv, Follows(sessions'),
         \/ request' = request
         \/ \E r \in Requests, q \in LoginRequest :
              RecordOK(q)' /\ request' = [request EXCEPT ![r] = q]
  PROVE  /\ request' \in [Requests -> LoginRequest]
         /\ \A r \in Requests : RecordOK(request[r])'
<1>1. CASE request' = request
  <2>1. \A q \in LoginRequest : RecordOK(q) => RecordOK(q)'  BY RequestKept
  <2>2. ASSUME NEW r \in Requests PROVE RecordOK(request[r])'
    <3>1. PICK q \in LoginRequest : q = request[r] /\ RecordOK(q)
      BY DEF LoginIInv, LoginTypeOK
    <3> QED BY <3>1, <2>1, <1>1 DEF RecordOK
  <2> QED BY <2>2, <1>1 DEF LoginIInv, LoginTypeOK
<1>2. CASE \E r \in Requests, q \in LoginRequest :
              RecordOK(q)' /\ request' = [request EXCEPT ![r] = q]
  <2>1. \A q \in LoginRequest : RecordOK(q) => RecordOK(q)'  BY RequestKept
  <2>2. PICK r \in Requests, q \in LoginRequest :
              RecordOK(q)' /\ request' = [request EXCEPT ![r] = q]
    BY <1>2
  <2>3. request' \in [Requests -> LoginRequest]  BY <2>2 DEF LoginIInv, LoginTypeOK
  <2>4. ASSUME NEW p \in Requests PROVE RecordOK(request[p])'
    <3>1. PICK o \in LoginRequest : o = request[p] /\ RecordOK(o)
      BY DEF LoginIInv, LoginTypeOK
    <3>2. CASE p = r
      <4>1. request'[p] = q  BY <3>2, <2>2 DEF LoginIInv, LoginTypeOK
      <4> QED BY <4>1, <2>2 DEF RecordOK
    <3>3. CASE p # r
      <4>1. request'[p] = o  BY <3>1, <3>3, <2>2 DEF LoginIInv, LoginTypeOK
      <4> QED BY <4>1, <3>1, <2>1 DEF RecordOK
    <3> QED BY <3>2, <3>3
  <2> QED BY <2>3, <2>4
<1> QED BY <1>1, <1>2

----------------------------------------------------------------------------
(* The operations on the table *)

\* The table is a sequence of rows.
LEMMA SessionsAreRows ==
  ASSUME LoginIInv
  PROVE  /\ Len(sessions) \in Nat /\ Rows = 1..Len(sessions)
         /\ \A s \in Rows : sessions[s] \in Session
  BY LenProperties DEF LoginIInv, LoginTypeOK, Rows

\* A row with the columns a revocation writes.
Gone(x, at, reason, v) == [x EXCEPT !.revoked = at, !.reason = reason, !.version = v]

\* A row that is revoked keeps its type, its account and its key.
LEMMA RevokedRow ==
  ASSUME NEW x \in Session, NEW at \in Nat \ {0}, NEW reason \in Reasons, NEW v \in Nat
  PROVE  /\ Gone(x, at, reason, v) \in Session
         /\ Gone(x, at, reason, v).account = x.account
         /\ Gone(x, at, reason, v).key = x.key
         /\ Gone(x, at, reason, v).revoked = at
         /\ Gone(x, at, reason, v).version = v
  BY DEF Session, Gone

\* Revoking all of an account's sessions leaves none of them.
LEMMA RevokeAllFollows ==
  ASSUME LoginIInv, NEW a \in Accounts, NEW reason \in Reasons, NEW now \in Nat \ {0}
  PROVE  /\ Follows(RevokeAll(a, reason, now))
         /\ DOMAIN RevokeAll(a, reason, now) = Rows
         /\ \A s \in Rows : RevokeAll(a, reason, now)[s].revoked = 0 => sessions[s].account # a
<1> DEFINE new == RevokeAll(a, reason, now)
           gone(x) == Gone(x, now, reason, x.version + 1)
<1>1. Len(sessions) \in Nat /\ Rows = 1..Len(sessions) /\ \A s \in Rows : sessions[s] \in Session
  BY SessionsAreRows
<1>2. DOMAIN new = Rows
      /\ \A s \in Rows : new[s] = IF sessions[s].account = a /\ Live(s) THEN gone(sessions[s])
                                  ELSE sessions[s]
  BY DEF RevokeAll, Gone
<1>3. \A s \in Rows : /\ gone(sessions[s]) \in Session
                      /\ gone(sessions[s]).account = sessions[s].account
                      /\ gone(sessions[s]).key = sessions[s].key
                      /\ gone(sessions[s]).revoked = now
                      /\ gone(sessions[s]).version = sessions[s].version + 1
  <2> TAKE s \in Rows
  <2>1. sessions[s] \in Session /\ sessions[s].version + 1 \in Nat  BY <1>1 DEF Session
  <2> QED BY <2>1, RevokedRow
<1>4. \A s \in Rows : Live(s) => sessions[s].version = 1
  BY DEF LoginIInv, RowOK
<1>5. \A s \in Rows : ~Live(s) => sessions[s].version # 1
  BY DEF LoginIInv, RowOK
<1> HIDE DEF gone
<1>6. new \in Seq(Session)
  <2>1. \A s \in Rows : new[s] \in Session  BY <1>1, <1>2, <1>3
  <2>2. new = [s \in 1..Len(sessions) |-> new[s]]  BY <1>1, <1>2 DEF RevokeAll
  <2>3. new \in [1..Len(sessions) -> Session]  BY <2>1, <2>2, <1>1
  <2> QED BY <2>3, <1>1, SeqDef
<1>7. \A s \in Rows : /\ new[s].account = sessions[s].account
                      /\ new[s].key = sessions[s].key
                      /\ new[s].revoked = 0 => Live(s) /\ sessions[s].account # a
                      /\ new[s].version = 1 <=> new[s].revoked = 0
  BY <1>2, <1>3, <1>4, <1>5 DEF Live
<1> HIDE DEF new
<1>8. Follows(new)  BY <1>2, <1>6, <1>7 DEF Follows
<1> QED BY <1>2, <1>7, <1>8 DEF new

\* Replacing one live row by a revoked one of the same account and scope.
LEMMA ReplaceFollows ==
  ASSUME LoginIInv, NEW i \in Rows, NEW x \in Session,
         x.account = sessions[i].account, x.key.scope = sessions[i].key.scope,
         x.revoked # 0, x.version # 1
  PROVE  LET new == [sessions EXCEPT ![i] = x]
         IN  Follows(new) /\ DOMAIN new = Rows /\ new[i] = x
<1> DEFINE new == [sessions EXCEPT ![i] = x]
<1>1. Len(sessions) \in Nat /\ Rows = 1..Len(sessions)
  BY SessionsAreRows
<1>2. new \in Seq(Session)  BY <1>1, ExceptSeq DEF LoginIInv, LoginTypeOK
<1>3. DOMAIN new = Rows /\ \A s \in Rows : new[s] = IF s = i THEN x ELSE sessions[s]
  BY DEF Rows
<1> HIDE DEF new
<1>4. Follows(new)  BY <1>2, <1>3 DEF Follows, LoginIInv, RowOK, Live
<1> QED BY <1>3, <1>4 DEF new

\* Appending a live row of an active account to a table that follows this one row for row.
LEMMA AppendFollows ==
  ASSUME LoginIInv, NEW old, Follows(old), DOMAIN old = Rows,
         NEW x \in Session, x.revoked = 0, x.version = 1,
         account[x.account].status = "active",
         x.key.scope = "rotation" \/ \A t \in Rows : sessions[t].key.scope # x.key.scope
  PROVE  /\ Follows(Append(old, x))
         /\ DOMAIN Append(old, x) = 1..(Len(sessions) + 1) /\ Rows = 1..Len(sessions)
         /\ \A s \in Rows : Append(old, x)[s] = old[s]
         /\ Append(old, x)[Len(sessions) + 1] = x
<1> DEFINE new == Append(old, x)
<1>1. Len(sessions) \in Nat /\ Rows = 1..Len(sessions)
  BY SessionsAreRows
<1>2. old \in Seq(Session) /\ Len(old) \in Nat /\ DOMAIN old = 1..Len(old)
  BY LenProperties DEF Follows
<1>3. Len(old) = Len(sessions)  BY <1>1, <1>2
<1>4. /\ new \in Seq(Session) /\ DOMAIN new = 1..(Len(sessions) + 1)
      /\ \A s \in Rows : new[s] = old[s]
      /\ new[Len(sessions) + 1] = x
  BY <1>1, <1>2, <1>3
<1>5. \A s \in DOMAIN new : s \notin Rows => s = Len(sessions) + 1  BY <1>1, <1>4
<1>6. Rows \subseteq DOMAIN new  BY <1>1, <1>4
<1> HIDE DEF new
<1>7. Follows(new)  BY <1>4, <1>5, <1>6 DEF Follows
<1> QED BY <1>1, <1>4, <1>7 DEF new


\* The row of a new session.
LEMMA NewRowIsARow ==
  ASSUME NEW a \in Accounts, NEW created \in Nat, NEW idle \in Nat, NEW absolute \in Nat,
         NEW key \in SessionKey, NEW predecessor \in Nat
  PROVE  NewRow(a, created, idle, absolute, key, predecessor) \in Session
  BY DEF NewRow, Session, Reasons

----------------------------------------------------------------------------
(* The invariant is kept *)

\* Accounts are typed, and one that was ever changed says when.
AccountsOK(new) ==
  /\ new \in [Accounts -> Account]
  /\ \A a \in Accounts : new[a].version > 1 => new[a].updated # 0

\* At most one request changes, into one that is right in the next state.
RequestStep ==
  \/ request' = request
  \/ \E r \in Requests, q \in LoginRequest :
       RecordOK(q)' /\ request' = [request EXCEPT ![r] = q]

\* The invariant holds again, and no row is lost.
Kept == LoginIInv' /\ Rows \subseteq Rows'

\* What a step has to show.
LEMMA StepKeeps ==
  ASSUME LoginIInv, clock' \in Nat, AccountsOK(account'), Follows(sessions'), RequestStep,
         \A s \in Rows : sessions'[s].revoked = 0 => account'[sessions[s].account].status = "active",
         \A s \in DOMAIN sessions' : s \notin Rows =>
           account'[sessions'[s].account].status = "active"
  PROVE  Kept
<1>1. sessions' \in Seq(Session) /\ (\A s \in Rows' : RowOK(s)') /\ OneSessionPerLoginKey'
  BY RowsFollow
<1>2. request' \in [Requests -> LoginRequest] /\ \A r \in Requests : RecordOK(request[r])'
  BY RequestsFollow DEF RequestStep
<1>3. Rows \subseteq Rows'  BY DEF Follows, Rows
<1> QED BY <1>1, <1>2, <1>3 DEF Kept, LoginIInv, LoginTypeOK, AccountsOK

\* A step that leaves the accounts alone.
LEMMA SessionStepKeeps ==
  ASSUME LoginIInv, UNCHANGED <<clock, account>>, Follows(sessions'), RequestStep
  PROVE  Kept
<1>1. clock' \in Nat /\ AccountsOK(account')  BY DEF LoginIInv, LoginTypeOK, AccountsOK
<1>2. \A s \in Rows : sessions'[s].revoked = 0 => account'[sessions[s].account].status = "active"
  BY DEF Follows, LoginIInv, RowOK, Live
<1>3. \A s \in DOMAIN sessions' : s \notin Rows =>
           account'[sessions'[s].account].status = "active"
  BY DEF Follows
<1> QED BY <1>1, <1>2, <1>3, StepKeeps

\* A step that leaves the rows alone changes an account whose rows are dead or that is
\* active afterwards, or revokes them all.
LEMMA AccountStepKeeps ==
  ASSUME LoginIInv, UNCHANGED <<clock, request>>, AccountsOK(account'),
         NEW a \in Accounts, \A b \in Accounts : b # a => account'[b].status = account[b].status,
         \/ /\ sessions' = sessions
            /\ account'[a].status = "active" \/ account[a].status # "active"
         \/ \E reason \in Reasons, now \in Nat \ {0} : sessions' = RevokeAll(a, reason, now)
  PROVE  Kept
<1>1. clock' \in Nat /\ RequestStep  BY DEF LoginIInv, LoginTypeOK, RequestStep
<1>2. \A s \in Rows : sessions[s].account \in Accounts
  BY SessionsAreRows DEF Session
<1>3. Follows(sessions') /\ DOMAIN sessions' = Rows
  BY NothingNew, RevokeAllFollows DEF Rows
<1>4. \A s \in Rows : sessions'[s].revoked = 0 => account'[sessions[s].account].status = "active"
  <2>1. \A s \in Rows : Live(s) => account[sessions[s].account].status = "active"
    BY DEF LoginIInv, RowOK
  <2>2. CASE /\ sessions' = sessions
             /\ account'[a].status = "active" \/ account[a].status # "active"
    BY <2>1, <2>2, <1>2 DEF Live
  <2>3. CASE \E reason \in Reasons, now \in Nat \ {0} : sessions' = RevokeAll(a, reason, now)
    <3>1. \A s \in Rows : sessions'[s].revoked = 0 => sessions[s].account # a
      BY <2>3, RevokeAllFollows
    <3> QED BY <3>1, <2>1, <1>2, <1>3 DEF Follows
  <2> QED BY <2>2, <2>3
<1> QED BY <1>1, <1>3, <1>4, StepKeeps

\* A lifecycle event on an account.
LEMMA MovedIsOK ==
  ASSUME LoginIInv, NEW a \in Accounts, NEW now \in Nat \ {0},
         NEW status \in {"active", "suspended", "deletion_requested", "deactivated_pending_purge"}
  PROVE  /\ AccountsOK(Moved(a, status, now))
         /\ Moved(a, status, now)[a].status = status
         /\ Moved(a, status, now)[a].updated = now
         /\ \A b \in Accounts : b # a => Moved(a, status, now)[b] = account[b]
<1>1. account \in [Accounts -> Account] /\ account[a].version \in Nat
  BY DEF LoginIInv, LoginTypeOK, Account
<1>2. \A b \in Accounts : account[b] \in Account /\ (account[b].version > 1 => account[b].updated # 0)
  BY DEF LoginIInv, LoginTypeOK
<1>3. \A x \in Account : \A v \in Nat :
        [x EXCEPT !.status = status, !.version = v, !.updated = now] \in Account
  BY DEF Account
<1>4. account[a].version + 1 \in Nat  BY <1>1
<1>5. [account[a] EXCEPT !.status = status, !.version = account[a].version + 1,
                         !.updated = now] \in Account
  BY <1>2, <1>3, <1>4
<1> DEFINE kept == Moved(a, status, now)
<1>6. /\ kept \in [Accounts -> Account] /\ kept[a].status = status /\ kept[a].updated = now
      /\ \A b \in Accounts : b # a => kept[b] = account[b]
  BY <1>1, <1>2, <1>5 DEF Moved, Account
<1> HIDE DEF kept
<1>7. AccountsOK(kept)  BY <1>2, <1>6 DEF AccountsOK
<1> QED BY <1>6, <1>7 DEF kept

\* A clock reading is never NULL.
LEMMA ReadingsArePositive == LoginIInv => Readings \subseteq Nat \ {0}
  BY DEF LoginIInv, LoginTypeOK, Readings

\* The accounts' own operations.
LEMMA AccountActionsKeep ==
  ASSUME LoginIInv, AccountStep, UNCHANGED <<request, held>>
  PROVE  Kept
<1>1. Readings \subseteq Nat \ {0}  BY ReadingsArePositive
<1>2. account \in [Accounts -> Account] /\ AccountsOK(account)
  BY DEF LoginIInv, LoginTypeOK, AccountsOK
<1>3. ASSUME NEW a \in Accounts, CreateInvitedUser(a) PROVE Kept
  <2>1. PICK now \in Readings :
          /\ account[a].status = "absent"
          /\ account' = [account EXCEPT ![a] = [NoAccount EXCEPT
               !.status = "active", !.version = 1, !.created = now, !.updated = now]]
          /\ UNCHANGED <<clock, sessions>>
    BY <1>3 DEF CreateInvitedUser
  <2>2. PICK x : x = [NoAccount EXCEPT
               !.status = "active", !.version = 1, !.created = now, !.updated = now]
    OBVIOUS
  <2>3. x \in Account /\ x.status = "active" /\ x.version = 1
    BY <1>1, <2>2 DEF NoAccount, Account
  <2>4. account' = [account EXCEPT ![a] = x]  BY <2>1, <2>2
  <2>5. AccountsOK(account') /\ account'[a].status = "active"
        /\ \A b \in Accounts : b # a => account'[b].status = account[b].status
    BY <1>2, <2>3, <2>4 DEF AccountsOK
  <2> QED BY <2>1, <2>5, AccountStepKeeps
<1>4. ASSUME NEW a \in Accounts, SuspendUser(a) PROVE Kept
  <2>1. PICK now \in Readings :
          /\ account' = Moved(a, "suspended", now)
          /\ sessions' = RevokeAll(a, "account_suspended", now)
          /\ UNCHANGED clock
    BY <1>4 DEF SuspendUser
  <2>2. AccountsOK(account') /\ \A b \in Accounts : b # a => account'[b] = account[b]
    BY <1>1, <2>1, MovedIsOK
  <2>3. now \in Nat \ {0} /\ "account_suspended" \in Reasons  BY <1>1 DEF Reasons
  <2> QED BY <2>1, <2>2, <2>3, AccountStepKeeps
<1>5. ASSUME NEW a \in Accounts, SuspendUserReplay(a) PROVE Kept
  <2>1. account[a].updated \in Nat \ {0}
    BY <1>2, <1>5 DEF SuspendUserReplay, AccountsOK, Account
  <2>2. "account_suspended" \in Reasons  BY DEF Reasons
  <2>3. AccountsOK(account') /\ account' = account /\ clock' = clock
    BY <1>2, <1>5 DEF SuspendUserReplay
  <2>4. sessions' = RevokeAll(a, "account_suspended", account[a].updated)
    BY <1>5 DEF SuspendUserReplay
  <2> QED BY <2>1, <2>2, <2>3, <2>4, AccountStepKeeps
<1>6. ASSUME NEW a \in Accounts, ReactivateUser(a) PROVE Kept
  <2>1. PICK now \in Readings :
          account' = Moved(a, "active", now) /\ UNCHANGED <<clock, sessions>>
    BY <1>6 DEF ReactivateUser
  <2>2. /\ AccountsOK(account') /\ account'[a].status = "active"
        /\ \A b \in Accounts : b # a => account'[b] = account[b]
    BY <1>1, <2>1, MovedIsOK
  <2> QED BY <2>1, <2>2, AccountStepKeeps
<1>7. ASSUME NEW a \in Accounts, RequestAccountDeletion(a) PROVE Kept
  <2>1. PICK now \in Readings :
          /\ account[a].status \in {"active", "suspended"}
          /\ account' = [Moved(a, "deletion_requested", now) EXCEPT
               ![a].restore = account[a].status, ![a].requested = now]
          /\ sessions' = RevokeAll(a, "account_deactivation_requested", now)
          /\ UNCHANGED clock
    BY <1>7 DEF RequestAccountDeletion
  <2>2. now \in Nat \ {0} /\ "account_deactivation_requested" \in Reasons
    BY <1>1 DEF Reasons
  <2>3. PICK restore \in {"active", "suspended"} : restore = account[a].status
    BY <2>1
  <2>4. account' = [Moved(a, "deletion_requested", now) EXCEPT
               ![a].restore = restore, ![a].requested = now]
    BY <2>1, <2>3
  <2>5. AccountsOK(account') /\ \A b \in Accounts : b # a => account'[b] = account[b]
    <3>1. PICK kept, asked :
            /\ kept = Moved(a, "deletion_requested", now)
            /\ asked = [kept EXCEPT ![a].restore = restore, ![a].requested = now]
            /\ asked = account'
      BY <2>4
    <3>2. /\ AccountsOK(kept) /\ kept[a].updated = now
          /\ \A b \in Accounts : b # a => kept[b] = account[b]
      BY <2>2, <3>1, MovedIsOK
    <3>3. kept \in [Accounts -> Account] /\ kept[a] \in Account  BY <3>2 DEF AccountsOK
    <3>4. [kept[a] EXCEPT !.restore = restore, !.requested = now] \in Account
          /\ [kept[a] EXCEPT !.restore = restore, !.requested = now].updated = now
      BY <2>2, <2>3, <3>2, <3>3 DEF Account
    <3>5. /\ asked \in [Accounts -> Account] /\ asked[a].updated = now
          /\ \A b \in Accounts : b # a => asked[b] = kept[b]
      BY <3>1, <3>3, <3>4
    <3>6. \A b \in Accounts : asked[b].version > 1 => asked[b].updated # 0
      <4> TAKE b \in Accounts
      <4>1. CASE b = a  BY <4>1, <2>2, <3>5
      <4>2. CASE b # a  BY <4>2, <3>2, <3>5 DEF AccountsOK
      <4> QED BY <4>1, <4>2
    <3>7. AccountsOK(asked)  BY <3>5, <3>6 DEF AccountsOK
    <3> QED BY <3>1, <3>2, <3>5, <3>7
  <2> QED BY <2>1, <2>2, <2>5, AccountStepKeeps
<1>8. ASSUME NEW a \in Accounts, NEW action \in {"cancel", "deactivate"},
             FinishDeletionRequest(a, action)
      PROVE  Kept
  <2>1. PICK now \in Readings :
          /\ account' = Moved(a, IF action = "deactivate" THEN "deactivated_pending_purge"
                                 ELSE account[a].restore, now)
          /\ sessions' = RevokeAll(a, "account_deactivation_requested", now)
          /\ UNCHANGED clock
    BY <1>8 DEF FinishDeletionRequest
  <2>2. now \in Nat \ {0} /\ "account_deactivation_requested" \in Reasons
    BY <1>1 DEF Reasons
  <2>3. PICK status \in {"active", "suspended", "deletion_requested",
                         "deactivated_pending_purge"} :
          account' = Moved(a, status, now)
    <3>1. account[a].restore \in {"active", "suspended"}  BY <1>2 DEF Account
    <3>2. CASE action = "deactivate"  BY <2>1, <3>2
    <3>3. CASE action # "deactivate"  BY <2>1, <3>1, <3>3
    <3> QED BY <3>2, <3>3
  <2>4. AccountsOK(account') /\ \A b \in Accounts : b # a => account'[b] = account[b]
    BY <2>2, <2>3, MovedIsOK
  <2> QED BY <2>1, <2>2, <2>4, AccountStepKeeps
<1>9. CASE Tick
  <2>1. clock' \in Nat /\ AccountsOK(account')
    BY <1>2, <1>9 DEF Tick, LoginIInv, LoginTypeOK
  <2>2. Follows(sessions') /\ RequestStep /\ DOMAIN sessions' = Rows
    BY <1>9, NothingNew DEF Tick, RequestStep, Rows
  <2>3. \A s \in Rows :
          sessions'[s].revoked = 0 => account'[sessions[s].account].status = "active"
    BY <1>9 DEF Tick, LoginIInv, RowOK, Live
  <2> QED BY <2>1, <2>2, <2>3, StepKeeps
<1> QED BY <1>3, <1>4, <1>5, <1>6, <1>7, <1>8, <1>9 DEF AccountStep

\* A browser rotates or revokes its session.
LEMMA BrowseKeeps ==
  ASSUME LoginIInv, NEW s \in Rows, Browse(s), held \subseteq Rows
  PROVE  Kept /\ held' \subseteq Rows'
<1>1. Readings \subseteq Nat \ {0}  BY ReadingsArePositive
<1>2. sessions[s] \in Session  BY SessionsAreRows
<1>3. RequestStep  BY DEF Browse, RequestStep
<1>4. ASSUME RotateSession(s) PROVE Kept /\ Len(sessions) + 1 \in Rows'
  <2>1. PICK now \in Readings, accepted \in Readings :
          /\ Eligible(sessions[s].account, now)
          /\ sessions' = Append(RetirePredecessor(s, accepted),
               NewRow(sessions[s].account, accepted,
                      Earlier(accepted + IdleTtl, sessions[s].absolute), sessions[s].absolute,
                      Key("rotation", <<s>>), s))
          /\ UNCHANGED <<clock, account>>
    BY <1>4 DEF RotateSession
  <2>2. PICK retired : retired = [sessions[s] EXCEPT !.rotated = accepted, !.revoked = accepted,
                                    !.reason = "session_rotated", !.version = 2]
    OBVIOUS
  <2>3. /\ retired \in Session /\ retired.account = sessions[s].account
        /\ retired.key.scope = sessions[s].key.scope
        /\ retired.revoked # 0 /\ retired.version # 1
    <3>1. accepted \in Nat \ {0} /\ "session_rotated" \in Reasons  BY <1>1 DEF Reasons
    <3>2. \A x \in Session :
            [x EXCEPT !.rotated = accepted, !.revoked = accepted,
                      !.reason = "session_rotated", !.version = 2] \in Session
      BY <3>1 DEF Session
    <3>3. retired \in Session  BY <1>2, <2>2, <3>2
    <3>4. /\ retired.account = sessions[s].account /\ retired.key = sessions[s].key
          /\ retired.revoked = accepted /\ retired.version = 2
      BY <1>2, <2>2 DEF Session
    <3> QED BY <3>1, <3>3, <3>4
  <2>4. PICK old : old = [sessions EXCEPT ![s] = retired]  OBVIOUS
  <2>5. RetirePredecessor(s, accepted) = old
    BY <2>2, <2>4 DEF RetirePredecessor
  <2>6. Follows(old) /\ DOMAIN old = Rows  BY <2>3, <2>4, ReplaceFollows
  <2>7. Key("rotation", <<s>>) \in SessionKey /\ Key("rotation", <<s>>).scope = "rotation"
    <3>1. <<s>> \in Seq(Nat) /\ s \in Nat  BY SessionsAreRows
    <3> QED BY <3>1 DEF Key, SessionKey
  <2>8. /\ sessions[s].account \in Accounts /\ accepted \in Nat /\ s \in Nat
        /\ sessions[s].absolute \in Nat
        /\ Earlier(accepted + IdleTtl, sessions[s].absolute) \in Nat
    <3>1. sessions[s].account \in Accounts /\ sessions[s].absolute \in Nat
      BY <1>2 DEF Session
    <3>2. s \in Nat /\ accepted \in Nat  BY <1>1, SessionsAreRows
    <3>3. accepted + IdleTtl \in Nat  BY <3>2, SessionsAssumption
    <3>4. Earlier(accepted + IdleTtl, sessions[s].absolute) \in Nat
      BY <3>1, <3>3 DEF Earlier
    <3> QED BY <3>1, <3>2, <3>4
  <2>9. PICK a \in Accounts, idle \in Nat, absolute \in Nat, key \in SessionKey, x \in Session :
          /\ a = sessions[s].account
          /\ idle = Earlier(accepted + IdleTtl, sessions[s].absolute)
          /\ absolute = sessions[s].absolute
          /\ key = Key("rotation", <<s>>)
          /\ x = NewRow(a, accepted, idle, absolute, key, s)
    <3>1. PICK a \in Accounts, idle \in Nat, absolute \in Nat, key \in SessionKey :
          /\ a = sessions[s].account
          /\ idle = Earlier(accepted + IdleTtl, sessions[s].absolute)
          /\ absolute = sessions[s].absolute
          /\ key = Key("rotation", <<s>>)
      BY <2>7, <2>8
    <3>2. NewRow(a, accepted, idle, absolute, key, s) \in Session
      BY <2>8, <3>1, NewRowIsARow
    <3> QED BY <3>1, <3>2
  <2>10. /\ x \in Session /\ x.account = sessions[s].account /\ x.key.scope = "rotation"
         /\ x.revoked = 0 /\ x.version = 1
    <3>1. accepted \in Nat /\ s \in Nat  BY <2>8
    <3>2. x \in Session /\ x.account = a /\ x.key = key /\ x.revoked = 0 /\ x.version = 1
      BY <3>1, <2>9 DEF NewRow, Session, Reasons
    <3> QED BY <3>2, <2>7, <2>9
  <2>11. account[x.account].status = "active"  BY <2>1, <2>10 DEF Eligible
  <2>12. Follows(Append(old, x)) /\ DOMAIN Append(old, x) = 1..(Len(sessions) + 1)
    BY <2>6, <2>10, <2>11, AppendFollows
  <2>13. sessions' = Append(old, x)  BY <2>1, <2>5, <2>9
  <2>14. Len(sessions) + 1 \in Rows'  BY <2>12, <2>13, SessionsAreRows DEF Rows
  <2> QED BY <2>1, <2>12, <2>13, <2>14, <1>3, SessionStepKeeps
<1>5. ASSUME RevokeSession(s, "user_logout") PROVE Kept
  <2>1. PICK now \in Readings, accepted \in Readings :
          /\ sessions' = [sessions EXCEPT ![s].revoked = accepted, ![s].reason = "user_logout",
                                          ![s].version = 2]
          /\ UNCHANGED <<clock, account>>
    BY <1>5 DEF RevokeSession
  <2>2. PICK x : x = Gone(sessions[s], accepted, "user_logout", 2)  OBVIOUS
  <2>3. /\ x \in Session /\ x.account = sessions[s].account /\ x.key = sessions[s].key
        /\ x.revoked # 0 /\ x.version # 1
    <3>1. accepted \in Nat \ {0} /\ "user_logout" \in Reasons /\ 2 \in Nat
      BY <1>1 DEF Reasons
    <3>2. /\ x \in Session /\ x.account = sessions[s].account /\ x.key = sessions[s].key
          /\ x.revoked = accepted /\ x.version = 2
      BY <1>2, <2>2, <3>1, RevokedRow
    <3> QED BY <3>1, <3>2
  <2>4. sessions' = [sessions EXCEPT ![s] = x]  BY <2>1, <2>2 DEF Gone
  <2>5. Follows(sessions')  BY <2>3, <2>4, ReplaceFollows
  <2> QED BY <2>1, <2>5, <1>3, SessionStepKeeps
<1> QED BY <1>4, <1>5 DEF Browse, Kept

\* A login that begins: an answer without a session, or a row of its own.
LEMMA CompleteLoginKeeps ==
  ASSUME LoginIInv, NEW r \in Requests, NEW a \in Accounts, NEW scope \in LoginKeys,
         CompleteLogin(r, a, scope)
  PROVE  Kept
<1>1. Readings \subseteq Nat \ {0}  BY ReadingsArePositive
<1>2. ASSUME NEW outcome \in {"authentication_denied", "idempotency_conflict",
                              "already_completed", "unavailable"},
             Set(r, [Idle EXCEPT !.phase = "done", !.outcome = outcome, !.entry = "closed"]),
             UNCHANGED <<clock, account, sessions>>
      PROVE  Kept
  <2>1. PICK q : q = [Idle EXCEPT !.phase = "done", !.outcome = outcome, !.entry = "closed"]
    OBVIOUS
  <2>2. q \in LoginRequest /\ q.session = 0 /\ q.phase = "done"
    BY <2>1 DEF Idle, LoginRequest, Phases, Statuses, Entries, Outcomes
  <2>3. RecordOK(q)'  BY <2>2 DEF RecordOK
  <2>4. RequestStep  BY <1>2, <2>1, <2>2, <2>3 DEF RequestStep, Set
  <2> QED BY <1>2, <2>4, NothingNew, SessionStepKeeps
<1>3. ASSUME NEW now \in Readings, NEW accepted \in 1..now, Eligible(a, now), Bound(scope) = {},
             CreateRow(a, accepted, now, Key(scope, <<a, accepted>>)),
             Set(r, [Idle EXCEPT !.phase = "finalizing", !.session = Len(sessions) + 1,
                                 !.status = "pending_commit", !.entry = "pending", !.now = now]),
             UNCHANGED <<clock, account>>
      PROVE  Kept
  <2>1. now \in Nat \ {0} /\ accepted \in Nat  BY <1>1
  <2>2. Key(scope, <<a, accepted>>) \in SessionKey /\ Key(scope, <<a, accepted>>).scope = scope
    <3>1. <<a, accepted>> \in Accounts \X Nat  BY <2>1
    <3> QED BY <3>1 DEF Key, SessionKey
  <2>3. PICK idle \in Nat, absolute \in Nat, key \in SessionKey, x \in Session :
          /\ idle = accepted + IdleTtl /\ absolute = accepted + AbsoluteTtl
          /\ key = Key(scope, <<a, accepted>>)
          /\ x = NewRow(a, accepted, idle, absolute, key, 0)
    <3>1. PICK idle \in Nat, absolute \in Nat, key \in SessionKey :
          /\ idle = accepted + IdleTtl /\ absolute = accepted + AbsoluteTtl
          /\ key = Key(scope, <<a, accepted>>)
      BY <2>1, <2>2, SessionsAssumption
    <3>2. NewRow(a, accepted, idle, absolute, key, 0) \in Session
      BY <2>1, <3>1, NewRowIsARow
    <3> QED BY <3>1, <3>2
  <2>4. x \in Session /\ x.account = a /\ x.key = key /\ x.revoked = 0 /\ x.version = 1
    BY <2>1, <2>3 DEF NewRow, Session, Reasons
  <2>5. account[x.account].status = "active"  BY <1>3, <2>4 DEF Eligible
  <2>6. \A t \in Rows : sessions[t].key.scope # x.key.scope
    BY <1>3, <2>2, <2>3, <2>4 DEF Bound
  <2>7. sessions' = Append(sessions, x)  BY <1>3, <2>3 DEF CreateRow
  <2>8. Follows(sessions') /\ DOMAIN sessions' = 1..(Len(sessions) + 1)
        /\ sessions'[Len(sessions) + 1] = x
    BY <2>4, <2>5, <2>6, <2>7, NothingNew, AppendFollows DEF Rows
  <2>9. PICK q : q = [Idle EXCEPT !.phase = "finalizing", !.session = Len(sessions) + 1,
                                 !.status = "pending_commit", !.entry = "pending", !.now = now]
    OBVIOUS
  <2>10. /\ q \in LoginRequest /\ q.session = Len(sessions) + 1 /\ q.session # 0
         /\ q.phase = "finalizing" /\ q.now # 0
    <3>1. PICK n \in Nat \ {0} : n = Len(sessions) + 1  BY SessionsAreRows
    <3>2. q = [Idle EXCEPT !.phase = "finalizing", !.session = n,
                           !.status = "pending_commit", !.entry = "pending", !.now = now]
      BY <2>9, <3>1
    <3>3. q \in LoginRequest  BY <2>1, <3>2
        DEF Idle, LoginRequest, Phases, Statuses, Entries, Outcomes
    <3>4. q.session = n /\ q.phase = "finalizing" /\ q.now = now  BY <3>2 DEF Idle
    <3> QED BY <2>1, <3>1, <3>3, <3>4
  <2>11. q.session \in Rows'  BY <2>8, <2>10, SessionsAreRows DEF Rows
  <2>12. RecordOK(q)'  BY <2>10, <2>11 DEF RecordOK
  <2>13. RequestStep  BY <1>3, <2>9, <2>10, <2>12 DEF RequestStep, Set
  <2> QED BY <1>3, <2>8, <2>13, SessionStepKeeps
<1> QED BY <1>2, <1>3 DEF CompleteLogin

----------------------------------------------------------------------------
(* A login under way *)

UnderWay(q) == q.phase \notin {"idle", "done", "crashed"}

\* A request that goes on or ends, over a table that has grown.
LEMMA RequestGoesOn ==
  ASSUME LoginIInv, Follows(sessions'), UNCHANGED <<clock, account>>,
         NEW r \in Requests, UnderWay(request[r]), NEW q \in LoginRequest,
         request' = [request EXCEPT ![r] = q],
         q.session = request[r].session, UnderWay(q) => q.now # 0,
         \/ UnderWay(q) \/ q.phase = "crashed" \/ q.outcome = "exhausted"
         \/ q.status = "delivery_acknowledged" \/ sessions'[q.session].revoked # 0
  PROVE  Kept
<1>1. q.session \in Rows /\ q.session # 0
  BY DEF LoginIInv, RecordOK, UnderWay
<1>2. RecordOK(q)'
  BY <1>1 DEF RecordOK, UnderWay, Follows, Rows, Live
<1>3. RequestStep  BY <1>2 DEF RequestStep
<1> QED BY <1>3, SessionStepKeeps

\* The attempts that fail: the request goes on, or is given up as exhausted.
LEMMA NextAttemptGoesOn ==
  ASSUME LoginIInv, NEW r \in Requests, request[r].phase \in {"compensating", "forcing"},
         NEW usable \in BOOLEAN, NEW q, q = NextAttempt(r, usable)
  PROVE  /\ q \in LoginRequest /\ q.session = request[r].session /\ q.now = request[r].now
         /\ UnderWay(q) \/ (q.phase = "done" /\ q.outcome = "exhausted")
<1>1. request[r] \in LoginRequest  BY DEF LoginIInv, LoginTypeOK
<1>2. CASE request[r].tries = 0 /\ usable
  <2>1. q = [request[r] EXCEPT !.tries = 1]  BY <1>2 DEF NextAttempt
  <2>2. q \in LoginRequest  BY <1>1, <2>1 DEF LoginRequest, Phases, Statuses, Entries, Outcomes
  <2>3. q.session = request[r].session /\ q.now = request[r].now /\ q.phase = request[r].phase
    BY <1>1, <2>1 DEF LoginRequest, Phases, Statuses, Entries, Outcomes
  <2> QED BY <2>2, <2>3 DEF UnderWay
<1>3. CASE ~(request[r].tries = 0 /\ usable) /\ request[r].phase = "compensating"
  <2>1. q = [request[r] EXCEPT !.phase = "forcing", !.tries = 0]  BY <1>3 DEF NextAttempt
  <2>2. q \in LoginRequest
    <3>1. \A x \in LoginRequest : [x EXCEPT !.phase = "forcing", !.tries = 0] \in LoginRequest
      BY FieldsTyped DEF Phases, Statuses, Entries, Outcomes
    <3> QED BY <1>1, <2>1, <3>1
  <2>3. q.session = request[r].session /\ q.now = request[r].now /\ q.phase = "forcing"
    BY <1>1, <2>1 DEF LoginRequest, Phases, Statuses, Entries, Outcomes
  <2> QED BY <2>2, <2>3 DEF UnderWay
<1>4. CASE ~(request[r].tries = 0 /\ usable) /\ request[r].phase # "compensating"
  <2>1. q = [request[r] EXCEPT !.phase = "done", !.outcome = "exhausted", !.entry = "closed",
                               !.status = "terminal_failed"]
    BY <1>4 DEF NextAttempt
  <2> QED BY <1>1, <2>1 DEF LoginRequest, Phases, Statuses, Entries, Outcomes, UnderWay
<1> QED BY <1>2, <1>3, <1>4

\* A compensation revokes the row, or finds it revoked already.
LEMMA CompensatedFollows ==
  ASSUME LoginIInv, NEW r \in Requests, UnderWay(request[r]), Compensable(r)
  PROVE  Follows(Compensated(r)) /\ Compensated(r)[request[r].session].revoked # 0
<1> DEFINE i == request[r].session
<1>1. i \in Rows /\ request[r].now \in Nat \ {0}
  BY DEF LoginIInv, LoginTypeOK, LoginRequest, Phases, Statuses, Entries, Outcomes, RecordOK,
     UnderWay
<1>2. CASE AlreadyCompensated(r)
  BY <1>2, NothingNew DEF Compensated, AlreadyCompensated, Live
<1>3. CASE ~AlreadyCompensated(r)
  <2>1. PICK x : x = [sessions[i] EXCEPT !.revoked = request[r].now, !.reason = "security_reset",
                        !.version = 2, !.key = Undelivered(sessions[i].key)]
    OBVIOUS
  <2>2. sessions[i] \in Session  BY <1>1, SessionsAreRows
  <2>3. Undelivered(sessions[i].key) \in SessionKey
        /\ Undelivered(sessions[i].key).scope = sessions[i].key.scope
    BY <2>2 DEF Session, SessionKey, Undelivered
  <2>4. "security_reset" \in Reasons  BY DEF Reasons
  <2>5. \A y \in Session : \A k \in SessionKey :
          [y EXCEPT !.revoked = request[r].now, !.reason = "security_reset",
                    !.version = 2, !.key = k] \in Session
    BY <1>1, <2>4 DEF Session
  <2>6. x \in Session  BY <2>1, <2>2, <2>3, <2>5
  <2>7. /\ x.account = sessions[i].account /\ x.key = Undelivered(sessions[i].key)
        /\ x.revoked = request[r].now /\ x.version = 2
    BY <2>1, <2>2 DEF Session
  <2>8. Compensated(r) = [sessions EXCEPT ![i] = x]  BY <1>3, <2>1 DEF Compensated, SessionOf
  <2>9. Follows([sessions EXCEPT ![i] = x]) /\ [sessions EXCEPT ![i] = x][i] = x
    BY <1>1, <2>3, <2>6, <2>7, ReplaceFollows
  <2> QED BY <1>1, <2>7, <2>8, <2>9
<1> QED BY <1>2, <1>3

\* One attempt at a compensation.
LEMMA AttemptKeeps ==
  ASSUME LoginIInv, NEW r \in Requests, request[r].phase \in {"compensating", "forcing"},
         Attempt(r), UNCHANGED <<clock, account>>
  PROVE  Kept
<1>1. UnderWay(request[r]) /\ request[r] \in LoginRequest /\ request[r].now # 0
  BY DEF UnderWay, LoginIInv, LoginTypeOK, RecordOK
<1>2. ASSUME NEW usable \in BOOLEAN, Set(r, NextAttempt(r, usable)), Follows(sessions')
      PROVE  Kept
  <2>1. PICK q : q = NextAttempt(r, usable)  OBVIOUS
  <2>2. /\ q \in LoginRequest /\ q.session = request[r].session /\ q.now = request[r].now
        /\ UnderWay(q) \/ (q.phase = "done" /\ q.outcome = "exhausted")
    BY <2>1, NextAttemptGoesOn
  <2>3. request' = [request EXCEPT ![r] = q]  BY <1>2, <2>1 DEF Set
  <2> QED BY <1>1, <1>2, <2>2, <2>3, RequestGoesOn
<1>3. ASSUME Compensable(r), sessions' = Compensated(r)
      PROVE  Follows(sessions') /\ sessions'[request[r].session].revoked # 0
  BY <1>1, <1>3, CompensatedFollows
<1>4. ASSUME Compensable(r), sessions' = Compensated(r), Finish(r, "terminal_failed", "unavailable")
      PROVE  Kept
  <2>1. PICK q : q = [request[r] EXCEPT !.phase = "done", !.status = "terminal_failed",
                                        !.entry = "closed", !.outcome = "unavailable"]
    OBVIOUS
  <2>2. q \in LoginRequest
    <3>1. \A x \in LoginRequest :
            [x EXCEPT !.phase = "done", !.status = "terminal_failed", !.entry = "closed",
                      !.outcome = "unavailable"] \in LoginRequest
      BY FieldsTyped DEF Phases, Statuses, Entries, Outcomes
    <3> QED BY <1>1, <2>1, <3>1
  <2>3. q.session = request[r].session /\ q.phase = "done"  BY <1>1, <2>1
      DEF LoginRequest, Phases, Statuses, Entries, Outcomes
  <2>4. request' = [request EXCEPT ![r] = q]  BY <1>4, <2>1 DEF Finish, Set
  <2>5. ~UnderWay(q)  BY <2>3 DEF UnderWay
  <2> QED BY <1>1, <1>3, <1>4, <2>2, <2>3, <2>4, <2>5, RequestGoesOn
<1>5. ASSUME sessions' = sessions PROVE Follows(sessions')  BY <1>5, NothingNew
<1> QED BY <1>2, <1>3, <1>4, <1>5 DEF Attempt

\* The steps of a login under way that leave the table alone.
LEMMA QuietStepKeeps ==
  ASSUME LoginIInv, NEW r \in Requests, UNCHANGED <<clock, account, sessions>>,
         \/ FinalizeSucceeds(r) \/ FinalizeRejects(r) \/ FinalizeFails(r) \/ ResultFails(r)
         \/ PrepareDelivery(r) \/ AcknowledgeDelivery(r) \/ FailDelivery(r) \/ Crash(r)
  PROVE  Kept
<1>1. request[r] \in LoginRequest  BY DEF LoginIInv, LoginTypeOK
<1>2. ASSUME NEW q \in LoginRequest, UnderWay(request[r]), Set(r, q),
             q.session = request[r].session, UnderWay(q) => q.now # 0,
             \/ UnderWay(q) \/ q.phase = "crashed" \/ q.outcome = "exhausted"
             \/ q.status = "delivery_acknowledged" \/ sessions[q.session].revoked # 0
      PROVE  Kept
  <2>1. request' = [request EXCEPT ![r] = q]  BY <1>2 DEF Set
  <2>2. Follows(sessions')  BY NothingNew
  <2> QED BY <1>2, <2>1, <2>2, RequestGoesOn
<1>3. UnderWay(request[r]) => request[r].now # 0 /\ request[r].session \in Rows
  BY DEF UnderWay, LoginIInv, RecordOK
<1>4. ASSUME FinalizeSucceeds(r) PROVE Kept
  <2>1. \A x \in LoginRequest :
          [x EXCEPT !.phase = "returned", !.status = "issued", !.entry = "ready", !.tries = 0,
                    !.outcome = "issued"] \in LoginRequest
    BY FieldsTyped DEF Phases, Statuses, Entries, Outcomes
  <2>2. PICK q \in LoginRequest :
          q = [request[r] EXCEPT !.phase = "returned", !.status = "issued",
                                 !.entry = "ready", !.tries = 0, !.outcome = "issued"]
    BY <1>1, <2>1
  <2>3. q.session = request[r].session /\ q.now = request[r].now /\ q.phase = "returned"
    BY <1>1, <2>2 DEF LoginRequest, Phases, Statuses, Entries, Outcomes
  <2>4. UnderWay(request[r]) /\ UnderWay(q)  BY <1>4, <2>3 DEF FinalizeSucceeds, UnderWay
  <2> QED BY <1>2, <1>3, <1>4, <2>2, <2>3, <2>4 DEF FinalizeSucceeds
<1>5. ASSUME FinalizeRejects(r) PROVE Kept
  <2>1. \A x \in LoginRequest :
          [x EXCEPT !.phase = "done", !.status = "terminal_failed", !.entry = "closed",
                    !.outcome = "unavailable"] \in LoginRequest
    BY FieldsTyped DEF Phases, Statuses, Entries, Outcomes
  <2>2. PICK q \in LoginRequest :
          q = [request[r] EXCEPT !.phase = "done", !.status = "terminal_failed",
                                 !.entry = "closed", !.outcome = "unavailable"]
    BY <1>1, <2>1
  <2>3. q.session = request[r].session /\ q.phase = "done"
    BY <1>1, <2>2 DEF LoginRequest, Phases, Statuses, Entries, Outcomes
  <2>4. UnderWay(request[r]) /\ ~UnderWay(q)  BY <1>5, <2>3 DEF FinalizeRejects, UnderWay
  <2>5. sessions[q.session].revoked # 0
    BY <1>3, <1>5, <2>3, <2>4 DEF FinalizeRejects, SessionOf, LoginIInv, RowOK, Live
  <2>6. Set(r, q)  BY <1>5, <2>2 DEF FinalizeRejects, Finish
  <2> QED BY <1>2, <2>3, <2>4, <2>5, <2>6
<1>6. ASSUME FinalizeFails(r) PROVE Kept
  <2>1. /\ \A x \in LoginRequest : [x EXCEPT !.tries = 1] \in LoginRequest
        /\ \A x \in LoginRequest :
             [x EXCEPT !.phase = "compensating", !.tries = 0,
                       !.outcome = "unavailable"] \in LoginRequest
    BY FieldsTyped DEF Phases, Statuses, Entries, Outcomes
  <2>2. PICK q \in LoginRequest :
          /\ Set(r, q)
          /\ \/ q = [request[r] EXCEPT !.tries = 1]
             \/ q = [request[r] EXCEPT !.phase = "compensating", !.tries = 0,
                                       !.outcome = "unavailable"]
    BY <1>1, <1>6, <2>1 DEF FinalizeFails
  <2>3. /\ q.session = request[r].session /\ q.now = request[r].now
        /\ q.phase \in {request[r].phase, "compensating"}
    BY <1>1, <2>2 DEF LoginRequest, Phases, Statuses, Entries, Outcomes
  <2>4. UnderWay(request[r]) /\ UnderWay(q)  BY <1>6, <2>3 DEF FinalizeFails, UnderWay
  <2> QED BY <1>2, <1>3, <2>2, <2>3, <2>4
<1>7. ASSUME ResultFails(r) \/ FailDelivery(r) PROVE Kept
  <2>1. \A x \in LoginRequest :
          [x EXCEPT !.phase = "compensating", !.outcome = "unavailable"] \in LoginRequest
    BY FieldsTyped DEF Phases, Statuses, Entries, Outcomes
  <2>2. PICK q \in LoginRequest :
          q = [request[r] EXCEPT !.phase = "compensating", !.outcome = "unavailable"]
    BY <1>1, <2>1
  <2>3. q.session = request[r].session /\ q.now = request[r].now /\ q.phase = "compensating"
    BY <1>1, <2>2 DEF LoginRequest, Phases, Statuses, Entries, Outcomes
  <2>4. UnderWay(request[r]) /\ UnderWay(q)
    BY <1>7, <2>3 DEF ResultFails, FailDelivery, UnderWay
  <2> QED BY <1>2, <1>3, <1>7, <2>2, <2>3, <2>4 DEF ResultFails, FailDelivery
<1>8. ASSUME PrepareDelivery(r) PROVE Kept
  <2>1. PICK now \in Readings :
          /\ request[r].phase = "returned"
          /\ \/ Set(r, [request[r] EXCEPT !.phase = "leased", !.status = "delivery_pending",
                                          !.entry = "delivering", !.now = now])
             \/ Set(r, [request[r] EXCEPT !.phase = "compensating",
                                          !.status = "delivery_pending",
                                          !.entry = "delivering", !.now = now,
                                          !.outcome = "unavailable"])
    BY <1>8 DEF PrepareDelivery
  <2>2. now \in Nat \ {0}  BY <2>1, ReadingsArePositive
  <2>3. /\ \A x \in LoginRequest :
             [x EXCEPT !.phase = "leased", !.status = "delivery_pending",
                       !.entry = "delivering", !.now = now] \in LoginRequest
        /\ \A x \in LoginRequest :
             [x EXCEPT !.phase = "compensating", !.status = "delivery_pending",
                       !.entry = "delivering", !.now = now,
                       !.outcome = "unavailable"] \in LoginRequest
    BY <2>2, FieldsTyped DEF Phases, Statuses, Entries, Outcomes
  <2>4. PICK q \in LoginRequest :
          /\ Set(r, q)
          /\ \/ q = [request[r] EXCEPT !.phase = "leased", !.status = "delivery_pending",
                                       !.entry = "delivering", !.now = now]
             \/ q = [request[r] EXCEPT !.phase = "compensating",
                                       !.status = "delivery_pending",
                                       !.entry = "delivering", !.now = now,
                                       !.outcome = "unavailable"]
    BY <1>1, <2>1, <2>3
  <2>5. /\ q.session = request[r].session /\ q.now # 0
        /\ q.phase \in {"leased", "compensating"}
    BY <1>1, <2>2, <2>4 DEF LoginRequest, Phases, Statuses, Entries, Outcomes
  <2>6. UnderWay(request[r]) /\ UnderWay(q)  BY <2>1, <2>5 DEF UnderWay
  <2> QED BY <1>2, <2>4, <2>5, <2>6
<1>9. ASSUME AcknowledgeDelivery(r) PROVE Kept
  <2>1. \A x \in LoginRequest :
          [x EXCEPT !.phase = "done", !.status = "delivery_acknowledged", !.entry = "closed",
                    !.outcome = "issued"] \in LoginRequest
    BY FieldsTyped DEF Phases, Statuses, Entries, Outcomes
  <2>2. PICK q \in LoginRequest :
          q = [request[r] EXCEPT !.phase = "done", !.status = "delivery_acknowledged",
                                 !.entry = "closed", !.outcome = "issued"]
    BY <1>1, <2>1
  <2>3. /\ q.session = request[r].session /\ q.phase = "done"
        /\ q.status = "delivery_acknowledged"
    BY <1>1, <2>2 DEF LoginRequest, Phases, Statuses, Entries, Outcomes
  <2>4. UnderWay(request[r]) /\ ~UnderWay(q)  BY <1>9, <2>3 DEF AcknowledgeDelivery, UnderWay
  <2>5. Set(r, q)  BY <1>9, <2>2 DEF AcknowledgeDelivery, Finish
  <2> QED BY <1>2, <2>3, <2>4, <2>5
<1>10. ASSUME Crash(r) PROVE Kept
  <2>1. \A x \in LoginRequest :
          [x EXCEPT !.phase = "crashed", !.entry = "closed", !.status = "none"] \in LoginRequest
    BY FieldsTyped DEF Phases, Statuses, Entries, Outcomes
  <2>2. PICK q \in LoginRequest :
          q = [request[r] EXCEPT !.phase = "crashed", !.entry = "closed", !.status = "none"]
    BY <1>1, <2>1
  <2>3. q.session = request[r].session /\ q.phase = "crashed"
    BY <1>1, <2>2 DEF LoginRequest, Phases, Statuses, Entries, Outcomes
  <2>4. UnderWay(request[r]) /\ ~UnderWay(q)  BY <1>10, <2>3 DEF Crash, UnderWay
  <2> QED BY <1>2, <1>10, <2>2, <2>3, <2>4 DEF Crash
<1> QED BY <1>4, <1>5, <1>6, <1>7, <1>8, <1>9, <1>10

----------------------------------------------------------------------------
(* The theorems *)

LoginInv == LoginIInv /\ held \subseteq Rows

\* Every reachable state of logins and sessions satisfies the strengthened invariant.
THEOREM LoginInvariant == SpecLogin => []LoginInv
<1>1. InitLogin => LoginInv
  <2> SUFFICES ASSUME InitLogin PROVE LoginInv  OBVIOUS
  <2>1. sessions = <<>> /\ Rows = {} /\ held = {} /\ clock = 1
    BY DEF InitLogin, InitSessions, Rows
  <2>2. NoAccount \in Account /\ NoAccount.version = 0
    BY DEF NoAccount, Account
  <2>3. Idle \in LoginRequest /\ Idle.session = 0 /\ Idle.phase = "idle"
    BY DEF Idle, LoginRequest, Phases, Statuses, Entries, Outcomes
  <2>4. LoginTypeOK
    BY <2>1, <2>2, <2>3, EmptySeq DEF LoginTypeOK, InitLogin, InitSessions
  <2>5. \A r \in Requests : RecordOK(request[r])
    BY <2>3 DEF InitLogin, RecordOK
  <2>6. \A a \in Accounts : account[a].version > 1 => account[a].updated # 0
    BY <2>2 DEF InitLogin, InitSessions
  <2>7. OneSessionPerLoginKey /\ \A s \in Rows : RowOK(s)
    BY <2>1 DEF OneSessionPerLoginKey
  <2> QED BY <2>1, <2>4, <2>5, <2>6, <2>7 DEF LoginInv, LoginIInv
<1>2. LoginInv /\ [NextLogin]_vars => LoginInv'
  <2> SUFFICES ASSUME LoginInv, [NextLogin]_vars PROVE LoginInv'  OBVIOUS
  <2> USE DEF LoginInv
  <2>1. ASSUME Kept, UNCHANGED held PROVE LoginInv'
    BY <2>1 DEF Kept
  <2>2. CASE AccountStep /\ UNCHANGED <<request, held>>
    BY <2>1, <2>2, AccountActionsKeep
  <2>3. ASSUME NEW s \in held, Browse(s) PROVE LoginInv'
    BY <2>3, BrowseKeeps DEF Kept
  <2>4. ASSUME NEW r \in Requests, NEW a \in Accounts, NEW key \in LoginKeys,
               CompleteLogin(r, a, key)
        PROVE  LoginInv'
    BY <2>1, <2>4, CompleteLoginKeeps DEF CompleteLogin
  <2>5. ASSUME NEW r \in Requests,
               \/ FinalizeSucceeds(r) \/ FinalizeRejects(r) \/ FinalizeFails(r) \/ ResultFails(r)
               \/ PrepareDelivery(r) \/ AcknowledgeDelivery(r) \/ FailDelivery(r) \/ Crash(r)
        PROVE  LoginInv'
    <3>1. UNCHANGED <<clock, account, sessions, held>>
      BY <2>5 DEF FinalizeSucceeds, FinalizeRejects, FinalizeFails, ResultFails,
                  PrepareDelivery, AcknowledgeDelivery, FailDelivery, Crash
    <3>2. Kept  BY <2>5, <3>1, QuietStepKeeps
    <3> QED BY <2>1, <3>1, <3>2
  <2>6. ASSUME NEW r \in Requests, CompensateUndelivered(r) \/ ForceCompensateUndelivered(r)
        PROVE  LoginInv'
    <3>1. /\ request[r].phase \in {"compensating", "forcing"} /\ Attempt(r)
          /\ UNCHANGED <<clock, account, held>>
      BY <2>6 DEF CompensateUndelivered, ForceCompensateUndelivered
    <3> QED BY <2>1, <3>1, AttemptKeeps
  <2>7. ASSUME NEW r \in Requests, Deliver(r) PROVE LoginInv'
    <3>1. request[r].session \in Rows
      BY <2>7 DEF Deliver, LoginIInv, RecordOK
    <3>2. Kept
      BY <2>7, NothingNew, SessionStepKeeps DEF Deliver, RequestStep
    <3> QED BY <2>7, <3>1, <3>2 DEF Deliver, Kept
  <2>8. CASE UNCHANGED vars
    <3>1. Kept  BY <2>8, NothingNew, SessionStepKeeps DEF vars, RequestStep
    <3> QED BY <2>1, <2>8, <3>1 DEF vars
  <2> QED BY <2>2, <2>3, <2>4, <2>5, <2>6, <2>7, <2>8 DEF NextLogin, Serve
<1> QED BY <1>1, <1>2, PTL DEF SpecLogin

\* A caller key creates at most one session, whoever presents it and however often
\* (_require_idempotency_binding), for any number of accounts, keys and logins.
THEOREM OneSessionTheorem == SpecLogin => []OneSessionPerLoginKey
<1>1. LoginInv => OneSessionPerLoginKey  BY DEF LoginInv, LoginIInv
<1> QED BY <1>1, LoginInvariant, PTL

\* A login that ends without handing over its cookie leaves a dead session, short of a
\* crash or of four failed attempts (complete_trusted_login's compensation).
THEOREM UndeliveredTheorem == SpecLogin => []UndeliveredIsDead
<1>1. LoginInv => UndeliveredIsDead
  BY DEF LoginInv, LoginIInv, RecordOK, UndeliveredIsDead
<1> QED BY <1>1, LoginInvariant, PTL

\* No account that is suspended, being deleted or deactivated keeps an unrevoked session
\* (accounts.py revokes them in the lifecycle event's transaction).
THEOREM InactiveTheorem == SpecLogin => []InactiveAccountHasNoSession
<1>1. LoginInv => InactiveAccountHasNoSession
  BY DEF LoginInv, LoginIInv, RowOK, InactiveAccountHasNoSession
<1> QED BY <1>1, LoginInvariant, PTL

----------------------------------------------------------------------------
(* Lineages: what Root, Depth and Ancestors compute, whatever their length. *)

\* A set of naturals that holds 0 and climbs holds every one up to n.
LEMMA Climb ==
  ASSUME NEW n \in Nat, NEW S \in SUBSET (0..n), 0 \in S,
         \A k \in S : k < n => k + 1 \in S
  PROVE  \A k \in 0..n : k \in S
<1> DEFINE missing == (0..n) \ S
           R == OpToRel(<, Nat)
<1> SUFFICES ASSUME missing # {} PROVE FALSE
  OBVIOUS
<1>1. IsWellFoundedOn(R, Nat)  BY NatLessThanWellFounded
<1>2. \A x, y \in Nat : y < x => <<y, x>> \in R  BY DEF OpToRel
<1>3. missing \in SUBSET Nat  OBVIOUS
<1> HIDE DEF R, missing
<1>4. PICK x \in missing : \A y \in missing : ~(<<y, x>> \in R)
  BY <1>1, <1>3, WFMin
<1>5. x \in 1..n /\ x \notin S  BY <1>4 DEF missing
<1>6. x \in Nat /\ x - 1 \in Nat /\ x - 1 < x  BY <1>5
<1>8. <<x - 1, x>> \in R  BY <1>2, <1>6
<1>9. x - 1 \notin missing  BY <1>4, <1>8
<1>10. x - 1 \in 0..n /\ x - 1 < n /\ (x - 1) + 1 = x  BY <1>5
<1>11. x - 1 \in S  BY <1>9, <1>10 DEF missing
<1> QED BY <1>5, <1>10, <1>11

\* f gives each row what it starts with, or makes of what its predecessor has.
Inherits(f, n, P, B, G) ==
  \A t \in 1..n : f[t] = IF P[t] = 0 THEN B[t] ELSE G[t][f[P[t]]]

\* What a row inherits from the one before it in a chain is well defined: the chain
\* goes back.
LEMMA Inherited ==
  ASSUME NEW n \in Nat, NEW P \in [1..n -> Nat], \A t \in 1..n : P[t] < t,
         NEW V, NEW B \in [1..n -> V], NEW G \in [1..n -> [V -> V]]
  PROVE  \E f \in [1..n -> V] : Inherits(f, n, P, B, G)
<1> DEFINE Upto(k, f) == \A t \in 1..k : f[t] = IF P[t] = 0 THEN B[t] ELSE G[t][f[P[t]]]
           S == {k \in 0..n : \E f \in [1..k -> V] : Upto(k, f)}
<1>1. S \in SUBSET (0..n)  OBVIOUS
<1>2. 0 \in S
  <2>0. [t \in 1..0 |-> t] \in [1..0 -> V]
    <3>1. \A t \in 1..0 : t \in V  OBVIOUS
    <3> QED BY <3>1
  <2>1. PICK f \in [1..0 -> V] : TRUE  BY <2>0
  <2>2. Upto(0, f)  OBVIOUS
  <2>3. 0 \in 0..n  OBVIOUS
  <2> HIDE DEF Upto
  <2> QED BY <2>1, <2>2, <2>3
<1>3. ASSUME NEW k \in S, k < n PROVE k + 1 \in S
  <2>1. PICK f \in [1..k -> V] : Upto(k, f)  BY <1>3
  <2>2. k + 1 \in 1..n /\ P[k + 1] \in 0..k  BY <1>3
  <2> DEFINE v == IF P[k + 1] = 0 THEN B[k + 1] ELSE G[k + 1][f[P[k + 1]]]
             g == [t \in 1..(k + 1) |-> IF t = k + 1 THEN v ELSE f[t]]
  <2>3. v \in V
    <3>1. CASE P[k + 1] = 0  BY <2>2, <3>1
    <3>2. CASE P[k + 1] # 0
      <4>1. f[P[k + 1]] \in V /\ G[k + 1] \in [V -> V]  BY <2>2, <3>2
      <4> QED BY <4>1, <3>2
    <3> QED BY <3>1, <3>2
  <2>4. g \in [1..(k + 1) -> V]
    <3>1. \A t \in 1..(k + 1) : t # k + 1 => t \in 1..k  BY <1>3
    <3> HIDE DEF v
    <3> QED BY <2>3, <3>1
  <2>5. \A t \in 1..k : g[t] = f[t]  BY <1>3
  <2>6. g[k + 1] = v  BY <2>2
  <2> HIDE DEF g
  <2>7. Upto(k + 1, g)
    <3> SUFFICES ASSUME NEW t \in 1..(k + 1)
                 PROVE  g[t] = IF P[t] = 0 THEN B[t] ELSE G[t][g[P[t]]]
      OBVIOUS
    <3>1. CASE t = k + 1
      <4>1. P[k + 1] # 0 => g[P[k + 1]] = f[P[k + 1]]  BY <2>2, <2>5
      <4> QED BY <4>1, <3>1, <2>6
    <3>2. CASE t # k + 1
      <4>1. t \in 1..k /\ P[t] \in 0..k  BY <1>3, <3>2
      <4>2. P[t] # 0 => g[P[t]] = f[P[t]]  BY <4>1, <2>5
      <4>3. f[t] = IF P[t] = 0 THEN B[t] ELSE G[t][f[P[t]]]  BY <4>1, <2>1
      <4> QED BY <4>1, <4>2, <4>3, <2>5
    <3> QED BY <3>1, <3>2
  <2>8. k + 1 \in 0..n  BY <2>2
  <2> HIDE DEF Upto
  <2> QED BY <2>4, <2>7, <2>8
<1> HIDE DEF S
<1>4. n \in S
  <2>1. \A k \in S : k < n => k + 1 \in S  BY <1>3
  <2>2. \A k \in 0..n : k \in S  BY <1>1, <1>2, <2>1, Climb
  <2> QED BY <2>2
<1>5. \E f \in [1..n -> V] : Upto(n, f)
  <2> HIDE DEF Upto
  <2> QED BY <1>4 DEF S
<1> QED BY <1>5 DEF Inherits

----------------------------------------------------------------------------
(* Lineages *)

\* Every row was inserted after the one it replaced.
Backward ==
  /\ Len(sessions) \in Nat /\ Rows = 1..Len(sessions)
  /\ \A t \in Rows : sessions[t].predecessor \in 0..(t - 1)

RootRecurs == \A s \in Rows :
  Root(s) = IF sessions[s].predecessor = 0 THEN s ELSE Root(sessions[s].predecessor)
DepthRecurs == \A s \in Rows :
  Depth(s) = IF sessions[s].predecessor = 0 THEN 0 ELSE 1 + Depth(sessions[s].predecessor)
AncestorsRecur == \A s \in Rows :
  Ancestors(s) = IF sessions[s].predecessor = 0 THEN {}
                 ELSE {sessions[s].predecessor} \cup Ancestors(sessions[s].predecessor)


\* The root of a row is that of the row it replaced.
LEMMA RootOfChain == Backward => RootRecurs
<1> SUFFICES ASSUME Backward PROVE RootRecurs
  OBVIOUS
<1> DEFINE n == Len(sessions)
           P == [t \in 1..n |-> sessions[t].predecessor]
           V == 1..n
           B == [t \in 1..n |-> t]
           G == [t \in 1..n |-> [v \in V |-> v]]
           next(f) == [t \in Rows |-> IF sessions[t].predecessor = 0 THEN t
                                      ELSE f[sessions[t].predecessor]]
           r == CHOOSE f : f = next(f)
<1>1. n \in Nat /\ Rows = 1..n /\ P \in [1..n -> Nat] /\ \A t \in 1..n : P[t] \in 0..(t - 1)
  BY DEF Backward
<1>2. B \in [1..n -> V] /\ G \in [1..n -> [V -> V]]
  <2>1. \A t \in 1..n : t \in V  OBVIOUS
  <2>2. \A t \in 1..n : \A v \in V : v \in V  OBVIOUS
  <2> HIDE DEF V, n
  <2>3. B \in [1..n -> V]  BY <2>1
  <2>4. \A t \in 1..n : [v \in V |-> v] \in [V -> V]  BY <2>2
  <2> QED BY <2>3, <2>4
<1>3. \E f : f = next(f)
  <2> HIDE DEF n, V, P, B, G
  <2>1. n \in Nat /\ \A t \in 1..n : P[t] < t  BY <1>1
  <2>2. PICK f \in [1..n -> V] : Inherits(f, n, P, B, G)
    BY <1>1, <1>2, <2>1, Inherited
  <2>3. ASSUME NEW t \in 1..n PROVE f[t] = next(f)[t]
    <3>1. P[t] = sessions[t].predecessor  BY DEF P
    <3>2. CASE P[t] = 0  BY <1>1, <2>2, <3>1, <3>2 DEF B, Inherits
    <3>3. CASE P[t] # 0
      <4>1. P[t] \in 1..n  BY <1>1, <3>3
      <4>2. f[P[t]] \in V  BY <4>1, <2>2
      <4> DEFINE v == f[P[t]]
      <4> HIDE DEF v
      <4>3. G[t][v] = v  BY <4>2 DEF G, v
      <4> QED BY <1>1, <2>2, <3>1, <3>3, <4>3 DEF Inherits, v
    <3> QED BY <3>2, <3>3
  <2>4. f = next(f)  BY <2>3, <1>1
  <2> QED BY <2>4
<1>4. r = next(r)  BY <1>3
<1>5. \A s : Root(s) = r[s]  BY DEF Root
<1> HIDE DEF r
<1> QED BY <1>1, <1>4, <1>5 DEF RootRecurs

\* A row is one deeper than the row it replaced.
LEMMA DepthOfChain == Backward => DepthRecurs
<1> SUFFICES ASSUME Backward PROVE DepthRecurs
  OBVIOUS
<1> DEFINE n == Len(sessions)
           P == [t \in 1..n |-> sessions[t].predecessor]
           V == Nat
           B == [t \in 1..n |-> 0]
           G == [t \in 1..n |-> [v \in V |-> 1 + v]]
           next(f) == [t \in Rows |-> IF sessions[t].predecessor = 0 THEN 0
                                      ELSE 1 + f[sessions[t].predecessor]]
           r == CHOOSE f : f = next(f)
<1>1. n \in Nat /\ Rows = 1..n /\ P \in [1..n -> Nat] /\ \A t \in 1..n : P[t] \in 0..(t - 1)
  BY DEF Backward
<1>2. B \in [1..n -> V] /\ G \in [1..n -> [V -> V]]
  <2>1. \A t \in 1..n : 0 \in V  OBVIOUS
  <2>2. \A t \in 1..n : \A v \in V : 1 + v \in V  OBVIOUS
  <2> HIDE DEF V, n
  <2>3. B \in [1..n -> V]  BY <2>1
  <2>4. \A t \in 1..n : [v \in V |-> 1 + v] \in [V -> V]  BY <2>2
  <2> QED BY <2>3, <2>4
<1>3. \E f : f = next(f)
  <2> HIDE DEF n, V, P, B, G
  <2>1. n \in Nat /\ \A t \in 1..n : P[t] < t  BY <1>1
  <2>2. PICK f \in [1..n -> V] : Inherits(f, n, P, B, G)
    BY <1>1, <1>2, <2>1, Inherited
  <2>3. ASSUME NEW t \in 1..n PROVE f[t] = next(f)[t]
    <3>1. P[t] = sessions[t].predecessor  BY DEF P
    <3>2. CASE P[t] = 0  BY <1>1, <2>2, <3>1, <3>2 DEF B, Inherits
    <3>3. CASE P[t] # 0
      <4>1. P[t] \in 1..n  BY <1>1, <3>3
      <4>2. f[P[t]] \in V  BY <4>1, <2>2
      <4> DEFINE v == f[P[t]]
      <4> HIDE DEF v
      <4>3. G[t][v] = 1 + v  BY <4>2 DEF G, v
      <4> QED BY <1>1, <2>2, <3>1, <3>3, <4>3 DEF Inherits, v
    <3> QED BY <3>2, <3>3
  <2>4. f = next(f)  BY <2>3, <1>1
  <2> QED BY <2>4
<1>4. r = next(r)  BY <1>3
<1>5. \A s : Depth(s) = r[s]  BY DEF Depth
<1> HIDE DEF r
<1> QED BY <1>1, <1>4, <1>5 DEF DepthRecurs

\* The ancestors of a row are the row it replaced and that one's.
LEMMA AncestorsOfChain == Backward => AncestorsRecur
<1> SUFFICES ASSUME Backward PROVE AncestorsRecur
  OBVIOUS
<1> DEFINE n == Len(sessions)
           P == [t \in 1..n |-> sessions[t].predecessor]
           V == SUBSET (0..n)
           B == [t \in 1..n |-> {}]
           G == [t \in 1..n |-> [v \in V |-> {sessions[t].predecessor} \cup v]]
           next(f) == [t \in Rows |-> IF sessions[t].predecessor = 0 THEN {}
                                      ELSE {sessions[t].predecessor} \cup f[sessions[t].predecessor]]
           r == CHOOSE f : f = next(f)
<1>1. n \in Nat /\ Rows = 1..n /\ P \in [1..n -> Nat] /\ \A t \in 1..n : P[t] \in 0..(t - 1)
  BY DEF Backward
<1>2. B \in [1..n -> V] /\ G \in [1..n -> [V -> V]]
  <2>1. \A t \in 1..n : {} \in V  OBVIOUS
  <2>2. ASSUME NEW t \in 1..n, NEW v \in V PROVE {sessions[t].predecessor} \cup v \in V
    <3>1. sessions[t].predecessor \in 0..n  BY <1>1 DEF Backward
    <3> QED BY <3>1
  <2> HIDE DEF V, n
  <2>3. B \in [1..n -> V]  BY <2>1
  <2>4. \A t \in 1..n : [v \in V |-> {sessions[t].predecessor} \cup v] \in [V -> V]  BY <2>2
  <2> QED BY <2>3, <2>4
<1>3. \E f : f = next(f)
  <2> HIDE DEF n, V, P, B, G
  <2>1. n \in Nat /\ \A t \in 1..n : P[t] < t  BY <1>1
  <2>2. PICK f \in [1..n -> V] : Inherits(f, n, P, B, G)
    BY <1>1, <1>2, <2>1, Inherited
  <2>3. ASSUME NEW t \in 1..n PROVE f[t] = next(f)[t]
    <3>1. P[t] = sessions[t].predecessor  BY DEF P
    <3>2. CASE P[t] = 0  BY <1>1, <2>2, <3>1, <3>2 DEF B, Inherits
    <3>3. CASE P[t] # 0
      <4>1. P[t] \in 1..n  BY <1>1, <3>3
      <4>2. f[P[t]] \in V  BY <4>1, <2>2
      <4> DEFINE v == f[P[t]]
      <4> HIDE DEF v
      <4>3. G[t][v] = {sessions[t].predecessor} \cup v  BY <4>2 DEF G, v
      <4> QED BY <1>1, <2>2, <3>1, <3>3, <4>3 DEF Inherits, v
    <3> QED BY <3>2, <3>3
  <2>4. f = next(f)  BY <2>3, <1>1
  <2> QED BY <2>4
<1>4. r = next(r)  BY <1>3
<1>5. \A s : Ancestors(s) = r[s]  BY DEF Ancestors
<1> HIDE DEF r
<1> QED BY <1>1, <1>4, <1>5 DEF AncestorsRecur

\* What lineages are made of.
LineageTypes ==
  \A s \in Rows : Root(s) \in Rows /\ Depth(s) \in Nat /\ Ancestors(s) \subseteq Rows

\* A backward lineage has depths and roots of the right type.
LEMMA LineageTyped == Backward => LineageTypes
<1> SUFFICES ASSUME Backward PROVE LineageTypes  OBVIOUS
<1> DEFINE n == Len(sessions)
           OK(s) == Root(s) \in Rows /\ Depth(s) \in Nat /\ Ancestors(s) \subseteq Rows
           S == {k \in 0..n : \A s \in 1..k : OK(s)}
<1>1. n \in Nat /\ Rows = 1..n /\ RootRecurs /\ DepthRecurs /\ AncestorsRecur
  BY RootOfChain, DepthOfChain, AncestorsOfChain DEF Backward
<1>2. S \in SUBSET (0..n) /\ 0 \in S  BY <1>1
<1>3. ASSUME NEW k \in S, k < n PROVE k + 1 \in S
  <2>1. k + 1 \in Rows /\ k \in Nat /\ sessions[k + 1].predecessor \in 0..k  BY <1>1, <1>3 DEF Backward
  <2>2. OK(k + 1)
    <3>1. CASE sessions[k + 1].predecessor = 0
      BY <1>1, <2>1, <3>1 DEF RootRecurs, DepthRecurs, AncestorsRecur
    <3>2. CASE sessions[k + 1].predecessor # 0
      <4>1. OK(sessions[k + 1].predecessor) /\ sessions[k + 1].predecessor \in Rows
        BY <1>1, <1>3, <2>1, <3>2
      <4> QED BY <1>1, <2>1, <3>2, <4>1 DEF RootRecurs, DepthRecurs, AncestorsRecur
    <3> QED BY <3>1, <3>2
  <2>3. \A s \in 1..(k + 1) : s = k + 1 \/ s \in 1..k  BY <2>1
  <2> HIDE DEF OK
  <2> QED BY <1>1, <2>1, <2>2, <2>3
<1> HIDE DEF S
<1>4. n \in S
  <2>1. \A k \in S : k < n => k + 1 \in S  BY <1>3
  <2> HIDE DEF n
  <2>2. \A k \in 0..n : k \in S  BY <1>1, <1>2, <2>1, Climb
  <2> QED BY <1>1, <2>2
<1> QED BY <1>1, <1>4 DEF S, LineageTypes

\* Rows keep their place in their lineage when the table grows and no row changes its
\* predecessor.
LEMMA LineagesStay ==
  ASSUME Backward, Backward', Rows \subseteq Rows',
         \A s \in Rows : sessions'[s].predecessor = sessions[s].predecessor
  PROVE  \A s \in Rows : Root(s)' = Root(s) /\ Depth(s)' = Depth(s)
<1> DEFINE n == Len(sessions)
           S == {k \in 0..n : \A s \in 1..k : Root(s)' = Root(s) /\ Depth(s)' = Depth(s)}
<1>1. n \in Nat /\ Rows = 1..n /\ RootRecurs /\ DepthRecurs
  BY RootOfChain, DepthOfChain DEF Backward
<1>2. RootRecurs' /\ DepthRecurs'
  BY RootOfChain, DepthOfChain, PTL
<1>3. S \in SUBSET (0..n) /\ 0 \in S  BY <1>1
<1>4. ASSUME NEW k \in S, k < n PROVE k + 1 \in S
  <2> DEFINE p == sessions[k + 1].predecessor
  <2>1. k + 1 \in Rows /\ k + 1 \in Rows' /\ k \in Nat /\ p \in 0..k  BY <1>1, <1>4 DEF Backward
  <2>2. sessions'[k + 1].predecessor = p  BY <2>1
  <2>3. Root(k + 1)' = Root(k + 1) /\ Depth(k + 1)' = Depth(k + 1)
    <3>1. CASE p = 0
      BY <1>1, <1>2, <2>1, <2>2, <3>1 DEF RootRecurs, DepthRecurs
    <3>2. CASE p # 0
      <4>1. Root(p)' = Root(p) /\ Depth(p)' = Depth(p)  BY <1>1, <1>4, <2>1, <3>2
      <4>2. Root(k + 1) = Root(p) /\ Depth(k + 1) = 1 + Depth(p)
        BY <1>1, <2>1, <3>2 DEF RootRecurs, DepthRecurs
      <4>3. Root(k + 1)' = Root(p)' /\ Depth(k + 1)' = 1 + Depth(p)'
        BY <1>2, <2>1, <2>2, <3>2 DEF RootRecurs, DepthRecurs
      <4> QED BY <4>1, <4>2, <4>3
    <3> QED BY <3>1, <3>2
  <2>4. \A s \in 1..(k + 1) : s = k + 1 \/ s \in 1..k  BY <2>1
  <2> QED BY <1>1, <2>1, <2>3, <2>4
<1> HIDE DEF S
<1>5. n \in S
  <2>1. \A k \in S : k < n => k + 1 \in S  BY <1>4
  <2> HIDE DEF n
  <2>2. \A k \in 0..n : k \in S  BY <1>1, <1>3, <2>1, Climb
  <2> QED BY <1>1, <2>2
<1> QED BY <1>1, <1>5 DEF S
----------------------------------------------------------------------------
(* Every session is at its place in its lineage *)

\* A row replaced at most an older one, whose retirement it dates; a live row is the end
\* of its chain and no older than its account.
PlaceOK(s) ==
  /\ sessions[s].predecessor \in 0..(s - 1)
  /\ sessions[s].predecessor # 0 => EdgeHolds(s) /\ sessions[s].edge <= clock
  /\ Depth(s) <= MaxDepth
  /\ Live(s) => /\ sessions[s].rotated = 0 /\ Replacements(s) = {}
                /\ sessions[s].created <= clock
                /\ account[sessions[s].account].created <= sessions[s].created

LineageIInv ==
  /\ \A s \in Rows : PlaceOK(s)
  /\ \A a \in Accounts : account[a].updated <= clock
  /\ OneLivePerLineage

\* What a step does to a row: nothing, or it ends a live one.
Retires(x, y) ==
  /\ x.revoked = 0 /\ y.revoked # 0
  /\ y.predecessor = x.predecessor /\ y.edge = x.edge /\ y.account = x.account
  /\ y.created = x.created /\ y.absolute = x.absolute

\* A row that is added is the first of its lineage, or replaces a live one that the step ends.
Replaces(new, s) ==
  LET p == new[s].predecessor
  IN  /\ p \in Rows /\ Live(p) /\ Depth(p) < MaxDepth
      /\ new[p].revoked # 0
      /\ new[p].account = new[s].account /\ new[p].created <= new[s].created
      /\ new[p].rotated = new[s].edge /\ new[p].revoked = new[s].edge
      /\ new[p].reason = "session_rotated" /\ new[p].absolute = new[s].absolute
      /\ new[p].version > 1
      /\ new[s].edge <= clock

Begins(new, s) ==
  /\ s = Len(sessions) + 1
  /\ new[s].revoked = 0 /\ new[s].rotated = 0 /\ new[s].created <= clock
  /\ account[new[s].account].status = "active"
  /\ account[new[s].account].created <= new[s].created
  /\ new[s].predecessor = 0 \/ Replaces(new, s)

TableStep(new) ==
  /\ Rows \subseteq DOMAIN new
  /\ \A s \in Rows : new[s] = sessions[s] \/ Retires(sessions[s], new[s])
  /\ \A s \in DOMAIN new : s \in Rows \/ Begins(new, s)

\* Time goes on, and an account that is in use keeps its birthday.
TimesStep ==
  /\ clock <= clock'
  /\ \A a \in Accounts : account'[a].updated <= clock'
  /\ \A a \in Accounts : account[a].status = "active" => account'[a].created = account[a].created

\* The invariant of the lineages makes every row replace an older one.
LEMMA LineageIsBackward == LoginInv /\ LineageIInv => Backward
  BY SessionsAreRows DEF LoginInv, LineageIInv, PlaceOK, Backward

\* A step that does this much to the table keeps every row at its place.
LEMMA LineageStep ==
  ASSUME LoginInv, LoginInv', LineageIInv, TableStep(sessions'), TimesStep
  PROVE  LineageIInv'
<1> USE DEF LoginInv
<1>1. /\ Len(sessions) \in Nat /\ Rows = 1..Len(sessions)
      /\ \A s \in Rows : sessions[s] \in Session
  BY SessionsAreRows
<1>2. /\ Len(sessions') \in Nat /\ Rows' = 1..Len(sessions')
      /\ \A s \in Rows' : sessions'[s] \in Session
  BY LenProperties DEF LoginIInv, LoginTypeOK, Rows
<1>3. Rows \subseteq Rows' /\ \A s \in Rows' : s \in Rows \/ Begins(sessions', s)
  BY DEF TableStep, Rows
<1>4. \A s \in Rows : /\ sessions'[s].predecessor = sessions[s].predecessor
                      /\ sessions'[s].edge = sessions[s].edge
                      /\ sessions'[s].account = sessions[s].account
                      /\ sessions'[s].created = sessions[s].created
                      /\ sessions'[s].absolute = sessions[s].absolute
                      /\ sessions[s].revoked # 0 \/ sessions'[s].revoked = 0
                           => sessions'[s] = sessions[s]
  BY DEF TableStep, Retires
<1>5. Backward  BY LineageIsBackward
<1>6. \A s \in Rows' : sessions'[s].predecessor \in 0..(s - 1)
  <2> SUFFICES ASSUME NEW s \in Rows' PROVE sessions'[s].predecessor \in 0..(s - 1)
    OBVIOUS
  <2>1. CASE s \in Rows  BY <2>1, <1>4, <1>5 DEF Backward
  <2>2. CASE s \notin Rows
    <3>1. s = Len(sessions) + 1 /\ sessions'[s].predecessor \in {0} \cup Rows
      BY <2>2, <1>3 DEF Begins, Replaces
    <3> QED BY <3>1, <1>1
  <2> QED BY <2>1, <2>2
<1>7. Backward'  BY <1>2, <1>6 DEF Backward
<1>8. \A s \in Rows : Root(s)' = Root(s) /\ Depth(s)' = Depth(s)
  BY <1>3, <1>4, <1>5, <1>7, LineagesStay
<1>9. LineageTypes  BY <1>5, LineageTyped
<1>10. RootRecurs' /\ DepthRecurs'  BY <1>7, RootOfChain, DepthOfChain, PTL
<1>11. clock \in Nat /\ clock' \in Nat /\ clock <= clock'
  BY DEF LoginIInv, LoginTypeOK, TimesStep
<1>12. ASSUME NEW s \in Rows', sessions'[s].predecessor # 0
       PROVE  EdgeHolds(s)' /\ sessions'[s].edge <= clock'
  <2>1. CASE s \in Rows
    <3> DEFINE p == sessions[s].predecessor
    <3>1. p # 0 /\ sessions'[s].predecessor = p  BY <1>4, <1>12, <2>1
    <3>2. EdgeHolds(s) /\ sessions[s].edge <= clock  BY <2>1, <3>1 DEF LineageIInv, PlaceOK
    <3>3. p \in Rows /\ s \in Replacements(p)
      BY <1>1, <1>5, <2>1, <3>1 DEF Backward, Replacements
    <3>4. ~Live(p)  BY <3>3 DEF LineageIInv, PlaceOK
    <3>5. sessions'[p] = sessions[p]  BY <1>4, <3>3, <3>4 DEF Live
    <3>6. EdgeHolds(s)'  BY <1>4, <2>1, <3>1, <3>2, <3>5 DEF EdgeHolds
    <3>7. sessions[s].edge \in Nat /\ sessions'[s].edge = sessions[s].edge
      BY <1>1, <1>4, <2>1 DEF Session
    <3> QED BY <1>11, <3>2, <3>6, <3>7
  <2>2. CASE s \notin Rows
    <3>1. Replaces(sessions', s)  BY <1>3, <1>12, <2>2 DEF Begins
    <3>2. sessions'[s].edge \in Nat  BY <1>2 DEF Session
    <3> QED BY <1>11, <3>1, <3>2 DEF Replaces, EdgeHolds
  <2> QED BY <2>1, <2>2
<1>13. ASSUME NEW s \in Rows' PROVE Depth(s)' <= MaxDepth
  <2>1. CASE s \in Rows  BY <1>8, <2>1 DEF LineageIInv, PlaceOK
  <2>2. CASE s \notin Rows
    <3> DEFINE p == sessions'[s].predecessor
    <3>0. MaxDepth \in Nat  BY SessionsAssumption
    <3>1. CASE p = 0  BY <1>10, <3>0, <3>1 DEF DepthRecurs
    <3>2. CASE p # 0
      <4>1. p \in Rows /\ Depth(p) < MaxDepth  BY <1>3, <2>2, <3>2 DEF Begins, Replaces
      <4>2. Depth(s)' = 1 + Depth(p)  BY <1>8, <1>10, <3>2, <4>1 DEF DepthRecurs
      <4>3. Depth(p) \in Nat  BY <1>9, <4>1 DEF LineageTypes
      <4> QED BY <3>0, <4>1, <4>2, <4>3
    <3> QED BY <3>1, <3>2
  <2> QED BY <2>1, <2>2
<1>14. ASSUME NEW s \in Rows', NEW t \in Rows', Live(s)' PROVE sessions'[t].predecessor # s
  <2> SUFFICES ASSUME sessions'[t].predecessor = s PROVE FALSE  OBVIOUS
  <2>1. s # 0  BY <1>2
  <2>2. CASE t \in Rows
    <3>1. s \in Rows /\ t \in Replacements(s)
      BY <1>1, <1>4, <1>5, <2>1, <2>2 DEF Backward, Replacements
    <3>2. ~Live(s)  BY <3>1 DEF LineageIInv, PlaceOK
    <3> QED BY <1>4, <1>14, <3>1, <3>2 DEF Live
  <2>3. CASE t \notin Rows
    <3>1. Replaces(sessions', t)  BY <1>3, <2>1, <2>3 DEF Begins
    <3> QED BY <1>14, <3>1 DEF Replaces, Live
  <2> QED BY <2>2, <2>3
<1>15. ASSUME NEW s \in Rows', Live(s)'
       PROVE  /\ sessions'[s].rotated = 0 /\ Replacements(s)' = {}
              /\ sessions'[s].created <= clock'
              /\ account'[sessions'[s].account].created <= sessions'[s].created
  <2>1. Replacements(s)' = {}  BY <1>14, <1>15 DEF Replacements
  <2>2. /\ sessions'[s].rotated = 0 /\ sessions'[s].created <= clock
        /\ account[sessions'[s].account].created <= sessions'[s].created
        /\ account[sessions'[s].account].status = "active"
    <3>1. CASE s \in Rows
      <4>1. sessions'[s] = sessions[s] /\ Live(s)  BY <1>4, <1>15, <3>1 DEF Live
      <4> QED BY <3>1, <4>1 DEF LineageIInv, PlaceOK, LoginIInv, RowOK
    <3>2. CASE s \notin Rows  BY <1>3, <3>2 DEF Begins
    <3> QED BY <3>1, <3>2
  <2>3. sessions'[s].account \in Accounts /\ sessions'[s].created \in Nat  BY <1>2 DEF Session
  <2>4. account'[sessions'[s].account].created = account[sessions'[s].account].created
    BY <2>2, <2>3 DEF TimesStep
  <2>5. sessions'[s].created <= clock'  BY <1>11, <2>2, <2>3
  <2> QED BY <2>1, <2>2, <2>4, <2>5
<1>16. OneLivePerLineage'
  <2> SUFFICES ASSUME NEW s \in Rows', NEW t \in Rows', Live(s)', Live(t)', Root(s)' = Root(t)'
               PROVE  s = t
    BY DEF OneLivePerLineage
  <2>1. \A x \in Rows : sessions'[x].revoked = 0 => Live(x)  BY <1>4 DEF Live
  <2>2. ASSUME NEW x \in Rows', NEW y \in Rows', Live(x)', Live(y)', Root(x)' = Root(y)',
               x \in Rows, y \notin Rows
        PROVE  FALSE
    <3>1. Begins(sessions', y) /\ Live(x) /\ Root(x)' = Root(x) /\ Root(x) \in Rows
      BY <1>3, <1>8, <1>9, <2>1, <2>2 DEF Live, LineageTypes
    <3> DEFINE p == sessions'[y].predecessor
    <3>2. CASE p = 0  BY <1>10, <2>2, <3>1, <3>2 DEF RootRecurs
    <3>3. CASE p # 0
      <4>1. Replaces(sessions', y)  BY <3>1, <3>3 DEF Begins
      <4>2. p \in Rows /\ Live(p) /\ sessions'[p].revoked # 0  BY <4>1 DEF Replaces
      <4>3. Root(y)' = Root(p)  BY <1>8, <1>10, <3>3, <4>2 DEF RootRecurs
      <4>4. x = p  BY <2>2, <3>1, <4>2, <4>3 DEF LineageIInv, OneLivePerLineage
      <4> QED BY <2>2, <4>2, <4>4 DEF Live
    <3> QED BY <3>2, <3>3
  <2>3. CASE s \in Rows /\ t \in Rows
    BY <1>8, <2>1, <2>3 DEF LineageIInv, OneLivePerLineage, Live
  <2>4. CASE s \notin Rows /\ t \notin Rows  BY <1>3, <2>4 DEF Begins
  <2> QED BY <2>2, <2>3, <2>4
<1> QED BY <1>6, <1>12, <1>13, <1>15, <1>16 DEF LineageIInv, PlaceOK, TimesStep
----------------------------------------------------------------------------
(* What each operation does to the table and the times *)

\* A row that is revoked and otherwise the same retires.
LEMMA GoneRetires ==
  ASSUME NEW x \in Session, x.revoked = 0, NEW at \in Nat \ {0}, NEW reason \in Reasons,
         NEW v \in Nat
  PROVE  Retires(x, Gone(x, at, reason, v))
  BY DEF Session, Gone, Retires

\* Nothing happens to the table.
LEMMA TableKept == TableStep(sessions)
  BY DEF TableStep, Rows

\* One live row is revoked.
LEMMA OneGone ==
  ASSUME LoginInv, NEW i \in Rows, Live(i), NEW x, Retires(sessions[i], x)
  PROVE  TableStep([sessions EXCEPT ![i] = x])
  BY DEF TableStep, Rows

\* All live rows of an account are revoked.
LEMMA AllGone ==
  ASSUME LoginInv, NEW a \in Accounts, NEW reason \in Reasons, NEW now \in Nat \ {0}
  PROVE  TableStep(RevokeAll(a, reason, now))
<1> DEFINE new == RevokeAll(a, reason, now)
<1>1. \A s \in Rows : sessions[s] \in Session /\ sessions[s].version + 1 \in Nat
  BY SessionsAreRows DEF LoginInv, Session
<1>2. DOMAIN new = Rows
      /\ \A s \in Rows : new[s] = IF sessions[s].account = a /\ Live(s)
                                  THEN Gone(sessions[s], now, reason, sessions[s].version + 1)
                                  ELSE sessions[s]
  BY DEF RevokeAll, Gone
<1> HIDE DEF new
<1>3. \A s \in Rows : new[s] = sessions[s] \/ Retires(sessions[s], new[s])
  BY <1>1, <1>2, GoneRetires DEF Live
<1>4. TableStep(new)  BY <1>2, <1>3 DEF TableStep
<1> QED BY <1>4 DEF new

\* A lifecycle event is dated and leaves the account's birthday alone.
LEMMA MovedIsDated ==
  ASSUME LoginInv, LineageIInv, NEW a \in Accounts, NEW now \in Nat, now <= clock,
         NEW status, clock' = clock,
         \A b \in Accounts : /\ account'[b].updated = Moved(a, status, now)[b].updated
                             /\ account'[b].created = Moved(a, status, now)[b].created
  PROVE  TimesStep
<1>1. account \in [Accounts -> Account] /\ clock \in Nat
  BY DEF LoginInv, LoginIInv, LoginTypeOK
<1>2. \A b \in Accounts : Moved(a, status, now)[b].updated = IF b = a THEN now ELSE account[b].updated
  BY <1>1 DEF Moved, Account
<1>3. \A b \in Accounts : Moved(a, status, now)[b].created = account[b].created
  BY <1>1 DEF Moved, Account
<1> QED BY <1>1, <1>2, <1>3 DEF TimesStep, LineageIInv

\* The accounts' own operations.
LEMMA AccountStepAges ==
  ASSUME LoginInv, LineageIInv, AccountStep
  PROVE  TableStep(sessions') /\ TimesStep
<1>1. Readings \subseteq Nat \ {0} /\ \A now \in Readings : now <= clock
  BY ReadingsArePositive DEF LoginInv, Readings
<1>2. /\ account \in [Accounts -> Account] /\ clock \in Nat
      /\ \A a \in Accounts : account[a].version > 1 => account[a].updated # 0
  BY DEF LoginInv, LoginIInv, LoginTypeOK
<1>3. {"account_suspended", "account_deactivation_requested"} \subseteq Reasons  BY DEF Reasons
<1>4. ASSUME UNCHANGED <<clock, account>> PROVE TimesStep
  BY <1>2, <1>4 DEF TimesStep, LineageIInv
<1>5. ASSUME NEW a \in Accounts, CreateInvitedUser(a) PROVE TableStep(sessions') /\ TimesStep
  <2>1. PICK now \in Readings :
          /\ account[a].status = "absent"
          /\ account' = [account EXCEPT ![a] = [NoAccount EXCEPT
               !.status = "active", !.version = 1, !.created = now, !.updated = now]]
          /\ UNCHANGED <<clock, sessions>>
    BY <1>5 DEF CreateInvitedUser
  <2>2. \A b \in Accounts : account'[b].updated = IF b = a THEN now ELSE account[b].updated
    BY <1>2, <2>1 DEF NoAccount
  <2>3. \A b \in Accounts : b # a => account'[b].created = account[b].created
    BY <1>2, <2>1
  <2>4. TimesStep  BY <1>1, <1>2, <2>1, <2>2, <2>3 DEF TimesStep, LineageIInv
  <2> QED BY <2>1, <2>4, TableKept
<1>6. ASSUME NEW a \in Accounts, SuspendUser(a) PROVE TableStep(sessions') /\ TimesStep
  <2>1. PICK now \in Readings :
          /\ account' = Moved(a, "suspended", now)
          /\ sessions' = RevokeAll(a, "account_suspended", now)
          /\ UNCHANGED clock
    BY <1>6 DEF SuspendUser
  <2> QED BY <1>1, <1>3, <2>1, AllGone, MovedIsDated
<1>7. ASSUME NEW a \in Accounts, SuspendUserReplay(a) PROVE TableStep(sessions') /\ TimesStep
  <2>1. account[a].updated \in Nat \ {0}
    BY <1>2, <1>7 DEF SuspendUserReplay, Account
  <2>2. sessions' = RevokeAll(a, "account_suspended", account[a].updated)
        /\ UNCHANGED <<clock, account>>
    BY <1>7 DEF SuspendUserReplay
  <2> QED BY <1>3, <1>4, <2>1, <2>2, AllGone
<1>8. ASSUME NEW a \in Accounts, ReactivateUser(a) PROVE TableStep(sessions') /\ TimesStep
  <2>1. PICK now \in Readings :
          account' = Moved(a, "active", now) /\ UNCHANGED <<clock, sessions>>
    BY <1>8 DEF ReactivateUser
  <2>2. TimesStep  BY <1>1, <2>1, MovedIsDated
  <2> QED BY <2>1, <2>2, TableKept
<1>9. ASSUME NEW a \in Accounts, RequestAccountDeletion(a) PROVE TableStep(sessions') /\ TimesStep
  <2>1. PICK now \in Readings :
          /\ account' = [Moved(a, "deletion_requested", now) EXCEPT
               ![a].restore = account[a].status, ![a].requested = now]
          /\ sessions' = RevokeAll(a, "account_deactivation_requested", now)
          /\ UNCHANGED clock
    BY <1>9 DEF RequestAccountDeletion
  <2>2. \A b \in Accounts :
          /\ account'[b].updated = Moved(a, "deletion_requested", now)[b].updated
          /\ account'[b].created = Moved(a, "deletion_requested", now)[b].created
    BY <1>2, <2>1 DEF Moved, Account
  <2>3. TimesStep  BY <1>1, <2>1, <2>2, MovedIsDated
  <2> QED BY <1>1, <1>3, <2>1, <2>3, AllGone
<1>10. ASSUME NEW a \in Accounts, NEW action \in {"cancel", "deactivate"},
              FinishDeletionRequest(a, action)
       PROVE  TableStep(sessions') /\ TimesStep
  <2>1. PICK now \in Readings :
          /\ \E status : account' = Moved(a, status, now)
          /\ sessions' = RevokeAll(a, "account_deactivation_requested", now)
          /\ UNCHANGED clock
    BY <1>10 DEF FinishDeletionRequest
  <2>2. PICK status : account' = Moved(a, status, now)  BY <2>1
  <2>3. /\ account' = Moved(a, status, now)
        /\ sessions' = RevokeAll(a, "account_deactivation_requested", now)
        /\ UNCHANGED clock
    BY <2>1, <2>2
  <2>4. TimesStep  BY <1>1, <2>3, MovedIsDated
  <2> QED BY <1>1, <1>3, <2>3, <2>4, AllGone
<1>11. CASE Tick
  <2>1. TimesStep
    <3>1. account' = account /\ clock' = clock + 1 /\ sessions' = sessions  BY <1>11 DEF Tick
    <3>2. \A a \in Accounts : account[a].updated \in Nat /\ account[a].updated <= clock
      BY <1>2 DEF LineageIInv, Account
    <3> QED BY <1>2, <3>1, <3>2 DEF TimesStep
  <2> QED BY <1>11, <2>1, TableKept DEF Tick
<1> QED BY <1>5, <1>6, <1>7, <1>8, <1>9, <1>10, <1>11 DEF AccountStep

\* A row that a session's rotation or a login adds.
LEMMA OneBegins ==
  ASSUME LoginInv, NEW old \in Seq(Session), DOMAIN old = Rows,
         \A s \in Rows : old[s] = sessions[s] \/ Retires(sessions[s], old[s]),
         NEW x, Begins(Append(old, x), Len(sessions) + 1)
  PROVE  TableStep(Append(old, x))
<1>1. Len(sessions) \in Nat /\ Rows = 1..Len(sessions)  BY SessionsAreRows DEF LoginInv
<1>2. Len(old) = Len(sessions)  BY <1>1, LenProperties
<1>3. /\ DOMAIN Append(old, x) = 1..(Len(sessions) + 1)
      /\ \A s \in Rows : Append(old, x)[s] = old[s]
  BY <1>1, <1>2
<1>4. \A s \in 1..(Len(sessions) + 1) : s \in Rows \/ s = Len(sessions) + 1  BY <1>1
<1>5. Rows \subseteq 1..(Len(sessions) + 1)  BY <1>1
<1> QED BY <1>3, <1>4, <1>5 DEF TableStep

\* Whatever leaves clock and accounts alone leaves the times in order.
LEMMA SameTimes ==
  ASSUME LoginInv, LineageIInv, UNCHANGED <<clock, account>>
  PROVE  TimesStep
<1>1. clock \in Nat  BY DEF LoginInv, LoginIInv, LoginTypeOK
<1> QED BY <1>1 DEF TimesStep, LineageIInv

\* A rotation ends the session and begins its replacement.
LEMMA RotationAges ==
  ASSUME LoginInv, LineageIInv, NEW s \in Rows, RotateSession(s)
  PROVE  TableStep(sessions') /\ TimesStep
<1>1. PICK now \in Readings, accepted \in Readings :
        /\ Eligible(sessions[s].account, now) /\ ActiveCurrent(s, accepted) /\ MayRotate(s)
        /\ sessions' = Append(RetirePredecessor(s, accepted),
             NewRow(sessions[s].account, accepted,
                    Earlier(accepted + IdleTtl, sessions[s].absolute), sessions[s].absolute,
                    Key("rotation", <<s>>), s))
        /\ UNCHANGED <<clock, account>>
  BY DEF RotateSession
<1>2. accepted \in Nat \ {0} /\ accepted <= clock
  BY ReadingsArePositive DEF LoginInv, Readings
<1>3. /\ sessions[s] \in Session /\ Len(sessions) \in Nat /\ Rows = 1..Len(sessions)
      /\ sessions \in Seq(Session)
  BY SessionsAreRows DEF LoginInv, LoginIInv, LoginTypeOK
<1> DEFINE old == RetirePredecessor(s, accepted)
           x == NewRow(sessions[s].account, accepted,
                       Earlier(accepted + IdleTtl, sessions[s].absolute), sessions[s].absolute,
                       Key("rotation", <<s>>), s)
           n == Len(sessions) + 1
           gone == [sessions[s] EXCEPT !.rotated = accepted, !.revoked = accepted,
                                       !.reason = "session_rotated", !.version = 2]
<1>4. gone \in Session
  <2>1. "session_rotated" \in Reasons  BY DEF Reasons
  <2> QED BY <1>2, <1>3, <2>1 DEF Session
<1>5. old = [sessions EXCEPT ![s] = gone]  BY DEF RetirePredecessor
<1>6. /\ gone.rotated = accepted /\ gone.revoked = accepted /\ gone.reason = "session_rotated"
      /\ gone.version = 2
      /\ gone.account = sessions[s].account /\ gone.created = sessions[s].created
      /\ gone.absolute = sessions[s].absolute
      /\ gone.predecessor = sessions[s].predecessor /\ gone.edge = sessions[s].edge
  BY <1>3 DEF Session
<1> HIDE DEF gone
<1>7. /\ old \in Seq(Session) /\ DOMAIN old = Rows
      /\ \A t \in Rows : old[t] = IF t = s THEN gone ELSE sessions[t]
  BY <1>3, <1>4, <1>5, ExceptSeq DEF Rows
<1>8. Live(s) /\ sessions[s].created <= accepted /\ Depth(s) < MaxDepth
  BY <1>1 DEF ActiveCurrent, MayRotate
<1>9. \A t \in Rows : old[t] = sessions[t] \/ Retires(sessions[t], old[t])
  BY <1>2, <1>6, <1>7, <1>8 DEF Retires, Live
<1>10. /\ x.account = sessions[s].account /\ x.created = accepted
       /\ x.absolute = sessions[s].absolute /\ x.predecessor = s /\ x.edge = accepted
       /\ x.rotated = 0 /\ x.revoked = 0
  BY <1>3 DEF NewRow
<1> HIDE DEF x, old
<1>11. Append(old, x)[n] = x /\ \A t \in Rows : Append(old, x)[t] = old[t]
  <2>1. Len(old) = Len(sessions)  BY <1>3, <1>7, LenProperties
  <2> QED BY <1>3, <1>7, <2>1
<1>12. Begins(Append(old, x), n)
  <2>1. /\ account[sessions[s].account].status = "active"
        /\ account[sessions[s].account].created <= sessions[s].created
        /\ account[sessions[s].account].created \in Nat
    BY <1>3, <1>8 DEF LineageIInv, PlaceOK, LoginInv, LoginIInv, LoginTypeOK, RowOK, Session, Account
  <2>2. sessions[s].created \in Nat  BY <1>3 DEF Session
  <2>3. account[x.account].created <= x.created  BY <1>2, <1>8, <1>10, <2>1, <2>2
  <2>4. Replaces(Append(old, x), n)
    BY <1>2, <1>6, <1>7, <1>8, <1>10, <1>11 DEF Replaces
  <2> QED BY <1>2, <1>10, <1>11, <2>1, <2>3, <2>4 DEF Begins
<1>13. sessions' = Append(old, x)  BY <1>1 DEF old, x
<1>14. TableStep(Append(old, x))  BY <1>7, <1>9, <1>12, OneBegins
<1> QED BY <1>1, <1>13, <1>14, SameTimes

\* Logging out ends the session.
LEMMA LogoutAges ==
  ASSUME LoginInv, LineageIInv, NEW s \in Rows, RevokeSession(s, "user_logout")
  PROVE  TableStep(sessions') /\ TimesStep
<1>1. PICK now \in Readings, accepted \in Readings :
        /\ ActiveCurrent(s, accepted)
        /\ sessions' = [sessions EXCEPT ![s].revoked = accepted, ![s].reason = "user_logout",
                                        ![s].version = 2]
        /\ UNCHANGED <<clock, account>>
  BY DEF RevokeSession
<1>2. accepted \in Nat \ {0} /\ sessions[s] \in Session /\ "user_logout" \in Reasons
  BY ReadingsArePositive, SessionsAreRows DEF LoginInv, Reasons
<1>3. sessions' = [sessions EXCEPT ![s] = Gone(sessions[s], accepted, "user_logout", 2)]
  BY <1>1 DEF Gone
<1>4. Live(s) /\ sessions[s].revoked = 0  BY <1>1 DEF ActiveCurrent, Live
<1>5. Retires(sessions[s], Gone(sessions[s], accepted, "user_logout", 2))
  BY <1>2, <1>4, GoneRetires
<1>6. TableStep(sessions')  BY <1>3, <1>4, <1>5, OneGone
<1> QED BY <1>1, <1>6, SameTimes

\* A login begins a lineage or leaves the table alone.
LEMMA CompletionAges ==
  ASSUME LoginInv, LineageIInv, NEW r \in Requests, NEW a \in Accounts, NEW key \in LoginKeys,
         CompleteLogin(r, a, key)
  PROVE  TableStep(sessions') /\ TimesStep
<1>1. UNCHANGED <<clock, account>>  BY DEF CompleteLogin
<1>2. CASE UNCHANGED sessions  BY <1>1, <1>2, TableKept, SameTimes
<1>3. ASSUME NEW now \in Readings, NEW accepted \in 1..now,
             CreateRow(a, accepted, now, Key(key, <<a, accepted>>))
      PROVE  TableStep(sessions') /\ TimesStep
  <2> DEFINE x == NewRow(a, accepted, accepted + IdleTtl, accepted + AbsoluteTtl,
                         Key(key, <<a, accepted>>), 0)
  <2>1. now \in Nat /\ now <= clock /\ accepted \in Nat /\ accepted <= clock /\ clock \in Nat
    BY ReadingsArePositive DEF LoginInv, LoginIInv, LoginTypeOK, Readings
  <2>2. x.account = a /\ x.created = accepted /\ x.predecessor = 0 /\ x.rotated = 0 /\ x.revoked = 0
    BY DEF NewRow
  <2>3. /\ account[a].status = "active" /\ account[a].created <= accepted
        /\ sessions' = Append(sessions, x)
    BY <1>3 DEF CreateRow, Eligible
  <2> HIDE DEF x
  <2>4. sessions \in Seq(Session) /\ Append(sessions, x)[Len(sessions) + 1] = x
    BY DEF LoginInv, LoginIInv, LoginTypeOK
  <2>5. Begins(Append(sessions, x), Len(sessions) + 1)  BY <2>1, <2>2, <2>3, <2>4 DEF Begins
  <2>6. TableStep(Append(sessions, x))  BY <2>4, <2>5, OneBegins DEF Rows
  <2> QED BY <1>1, <2>3, <2>6, SameTimes
<1> QED BY <1>2, <1>3 DEF CompleteLogin

\* A compensation ends the session it is for, or finds it ended.
LEMMA CompensationAges ==
  ASSUME LoginInv, LineageIInv, NEW r \in Requests, Attempt(r),
         request[r].phase \in {"compensating", "forcing"}, UNCHANGED <<clock, account>>
  PROVE  TableStep(sessions') /\ TimesStep
<1>1. CASE UNCHANGED sessions  BY <1>1, TableKept, SameTimes
<1>2. CASE Compensable(r) /\ sessions' = Compensated(r) /\ ~AlreadyCompensated(r)
  <2> DEFINE i == request[r].session
             key == Undelivered(SessionOf(r).key)
             x == [SessionOf(r) EXCEPT !.revoked = request[r].now, !.reason = "security_reset",
                                       !.version = 2, !.key = key]
  <2>1. i \in Rows /\ request[r].now # 0 /\ sessions[i] \in Session
    BY SessionsAreRows DEF LoginInv, LoginIInv, RecordOK
  <2>2. Live(i) /\ sessions[i].revoked = 0  BY <1>2 DEF Compensable, Live
  <2>3. sessions' = [sessions EXCEPT ![i] = x]  BY <1>2 DEF Compensated
  <2>4. Retires(sessions[i], x)
    <3> HIDE DEF key
    <3> QED BY <2>1, <2>2 DEF Retires, SessionOf, Session
  <2> HIDE DEF x
  <2> QED BY <2>1, <2>2, <2>3, <2>4, OneGone, SameTimes
<1>3. CASE sessions' = Compensated(r) /\ AlreadyCompensated(r)
  BY <1>3, TableKept, SameTimes DEF Compensated
<1> QED BY <1>1, <1>2, <1>3 DEF Attempt

\* Every step does no more than that to the table and the times.
LEMMA StepAges ==
  ASSUME LoginInv, LineageIInv, [NextLogin]_vars
  PROVE  TableStep(sessions') /\ TimesStep
<1>1. CASE UNCHANGED <<clock, account, sessions>>  BY <1>1, TableKept, SameTimes
<1>2. ASSUME NEW s \in held, Browse(s) PROVE TableStep(sessions') /\ TimesStep
  <2>1. s \in Rows  BY DEF LoginInv
  <2> QED BY <1>2, <2>1, RotationAges, LogoutAges DEF Browse
<1>3. ASSUME NEW r \in Requests,
             CompensateUndelivered(r) \/ ForceCompensateUndelivered(r)
      PROVE  TableStep(sessions') /\ TimesStep
  BY <1>3, CompensationAges DEF CompensateUndelivered, ForceCompensateUndelivered
<1>4. ASSUME NEW r \in Requests, Serve(r) \/ Deliver(r) \/ ResultFails(r) \/ Crash(r)
      PROVE  TableStep(sessions') /\ TimesStep
  BY <1>1, <1>3, <1>4 DEF Serve, FinalizeSucceeds, FinalizeRejects, FinalizeFails, ResultFails,
     PrepareDelivery, AcknowledgeDelivery, FailDelivery, Deliver, Crash
<1> QED BY <1>1, <1>2, <1>4, AccountStepAges, CompletionAges DEF NextLogin, vars

----------------------------------------------------------------------------
(* What authentication makes of it *)

\* A session that is unrevoked and unexpired is an actor.
LEMMA LiveIsActor ==
  ASSUME LoginInv, LineageIInv, NEW s \in Rows, Live(s), EffectiveExpiry(s) > clock
  PROVE  Authenticate(s, clock) = "actor"
<1>1. LineageTypes /\ \A t \in Rows : sessions[t] \in Session
  BY LineageIsBackward, LineageTyped, SessionsAreRows DEF LoginInv
<1>2. Replacements(s) = {} /\ sessions[s].rotated = 0 /\ Cardinality(Replacements(s)) = 0
  BY FS_EmptySet DEF LineageIInv, PlaceOK
<1>3. {s} \cup Ancestors(s) \subseteq Rows  BY <1>1 DEF LineageTypes
<1>4. RotationRelationshipValid(s, clock)
  BY <1>2, <1>3 DEF RotationRelationshipValid, AncestorLineageValid, LineageIInv, PlaceOK
<1>5. clock \in Nat /\ sessions[s].created \in Nat /\ sessions[s].account \in Accounts
      /\ account[sessions[s].account] \in Account
      /\ EffectiveExpiry(s) \in Nat
  BY <1>1 DEF LoginInv, LoginIInv, LoginTypeOK, Session, EffectiveExpiry, Earlier
<1>6. /\ sessions[s].created <= clock /\ account[sessions[s].account].updated <= clock
      /\ account[sessions[s].account].created <= sessions[s].created
      /\ account[sessions[s].account].status = "active"
      /\ sessions[s].revoked = 0
  BY <1>5 DEF LineageIInv, PlaceOK, LoginInv, LoginIInv, RowOK, Live
<1> QED BY <1>2, <1>4, <1>5, <1>6 DEF Authenticate, Account

\* A refused session stays refused in every step.
LEMMA StepRefuses ==
  ASSUME LoginInv, LoginInv', LineageIInv, [NextLogin]_vars,
         NEW s \in Rows, Authenticate(s, clock) # "actor"
  PROVE  Authenticate(s, clock)' # "actor"
<1> SUFFICES ASSUME Authenticate(s, clock)' = "actor" PROVE FALSE
  OBVIOUS
<1>1. TableStep(sessions') /\ TimesStep  BY StepAges
<1>2. sessions'[s].revoked = 0 /\ ~(EffectiveExpiry(s)' <= clock')
  BY DEF Authenticate, Live
<1>3. sessions'[s] = sessions[s]  BY <1>1, <1>2 DEF TableStep, Retires
<1>4. sessions[s] \in Session /\ clock \in Nat /\ clock' \in Nat /\ clock <= clock'
  BY <1>1, SessionsAreRows DEF LoginInv, LoginIInv, LoginTypeOK, TimesStep
<1>5. EffectiveExpiry(s)' = EffectiveExpiry(s) /\ EffectiveExpiry(s) \in Nat
  BY <1>3, <1>4 DEF EffectiveExpiry, Earlier, Session
<1>6. Live(s) /\ EffectiveExpiry(s) > clock  BY <1>2, <1>3, <1>4, <1>5 DEF Live
<1> QED BY <1>6, LiveIsActor

\* Every session is at its place in its lineage, in every reachable state.
THEOREM LineageInvariant == SpecLogin => [](LoginInv /\ LineageIInv)
<1>1. InitLogin => LineageIInv
  BY DEF InitLogin, InitSessions, LineageIInv, Rows, NoAccount, OneLivePerLineage
<1>2. LoginInv /\ LoginInv' /\ LineageIInv /\ [NextLogin]_vars => LineageIInv'
  BY StepAges, LineageStep
<1> QED BY <1>1, <1>2, LoginInvariant, PTL DEF SpecLogin

\* A login's chain of rotations has one usable end, and only of an active account
\* (browser_session_lifecycle.py's rotation, accounts.py's lifecycle events).
THEOREM LegitimateTheorem == SpecLogin => []LiveSessionsAreLegitimate
<1>1. LoginInv /\ LineageIInv => LiveSessionsAreLegitimate
  BY DEF LoginInv, LoginIInv, RowOK, LineageIInv, LiveSessionsAreLegitimate,
         InactiveAccountHasNoSession
<1> QED BY <1>1, LineageInvariant, PTL

\* The lineage checks of browser_session_authentication.py never refuse a session that
\* is unrevoked and unexpired.
THEOREM AuthenticationTheorem == SpecLogin => []LiveSessionAuthenticates
<1>1. LoginInv /\ LineageIInv => LiveSessionAuthenticates
  BY LiveIsActor DEF LiveSessionAuthenticates
<1> QED BY <1>1, LineageInvariant, PTL

\* A token that was refused once is refused for ever, whatever happens to its account.
THEOREM RefusedTheorem == SpecLogin => RefusedStaysRefused
<1>1. LoginInv /\ LoginInv' /\ LineageIInv /\ [NextLogin]_vars
      => [\A s \in Rows : Authenticate(s, clock) # "actor"
                          => Authenticate(s, clock)' # "actor"]_vars
  BY StepRefuses
<1> QED BY <1>1, LineageInvariant, PTL DEF SpecLogin, RefusedStaysRefused
=============================================================================
