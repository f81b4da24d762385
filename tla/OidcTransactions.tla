-------------------------- MODULE OidcTransactions --------------------------
(***************************************************************************)
(* A Google login from its start to the session: the authorization         *)
(* transaction that is prepared in the database, the callback that claims  *)
(* it, and the account, identity, invitation and principal the callback    *)
(* finds or creates.  Every database step is a transaction of its own and  *)
(* the process may die between any two; the clock is read under the lock   *)
(* and may have been set back; a restart may bring other key versions and  *)
(* another configuration.  One person, one invitation.                     *)
(***************************************************************************)
EXTENDS Naturals, Sequences, FiniteSets

CONSTANTS Browsers,
          MaxTransactions, MaxCallbacks, MaxNow, MaxVersion,  \* bounds on rows, callbacks,
                                                             \* the clock, key versions
          Ttl,         \* _TRANSACTION_TTL
          Retention,   \* terminal_retention_seconds
          MaxAge       \* _MAX_AUTHENTICATION_AGE_SECONDS

ASSUME OidcAssumption ==
  /\ {MaxTransactions, MaxCallbacks, MaxNow, MaxVersion, Retention, MaxAge} \subseteq Nat
  /\ Ttl \in Nat \ {0}

VARIABLES now,           \* the host's clock
          transactions,  \* google_oidc_authorization_transactions, by insertion
          starter,       \* the browser that started each of them
          keys,          \* key versions the running server accepts, and the active one
          cookie,        \* per browser, the transaction its cookie names, or 0
          callback,      \* callback requests
          identity,      \* auth_identities and users of the person
          invitation,    \* the person's row of account_invitations
          principal      \* the account-native principal exists

oidcVars == <<now, transactions, starter, keys, cookie, callback, identity, invitation, principal>>

Nothing == [lifecycle |-> "deleted", created |-> 0, terminal |-> 0, version |-> 0]
NoCallback == [step |-> "idle", tx |-> 0, bound |-> FALSE, mine |-> FALSE, row |-> Nothing, at |-> 0,
               authenticated |-> 0, provisioned |-> FALSE, outcome |-> "none"]

Txs == DOMAIN transactions
Callbacks == 1..MaxCallbacks  \* in the order they arrive
Put(c, record) == callback' = [callback EXCEPT ![c] = record]
Ended(c, outcome) ==
  [NoCallback EXCEPT !.step = "done", !.tx = callback[c].tx, !.mine = callback[c].mine,
                     !.provisioned = callback[c].provisioned, !.outcome = outcome]
Answer(c, outcome) == Put(c, Ended(c, outcome))
Expires(row) == row.created + Ttl

----------------------------------------------------------------------------
(* The transaction store *)

\* The row is inserted before the browser learns anything; what follows the commit
\* may fail, and then nobody holds the state.
PrepareTransaction(b) ==
  /\ Len(transactions) < MaxTransactions
  /\ transactions' = Append(transactions,
       [lifecycle |-> "prepared", created |-> now, terminal |-> 0, version |-> keys.active])
  /\ starter' = Append(starter, b)
  /\ \/ cookie' = [cookie EXCEPT ![b] = Len(transactions) + 1]
     \/ UNCHANGED cookie
  /\ UNCHANGED <<now, keys, callback, identity, invitation, principal>>

\* Mutant: the transition is not written.
StaysPrepared(row) == row

\* What the callback that found the row makes of it.
Terminalized(row) ==
  LET end(lifecycle, at) == [row EXCEPT !.lifecycle = lifecycle, !.terminal = at]
  IN  IF now < row.created THEN end("invalidated", row.created)
      ELSE IF now >= Expires(row) THEN end("expired", now)
      ELSE IF row.version \notin keys.protection THEN end("invalidated", now)
      ELSE end("consumed", now)

\* Claiming precedes every other judgement of the callback: whatever fails later, the
\* transaction is spent.
ClaimTransaction(c, b, t) ==
  /\ callback[c].step = "idle" /\ \A d \in 1..(c - 1) : callback[d].step # "idle"
  /\ \/ /\ transactions[t].lifecycle # "prepared" \/ transactions[t].version \notin keys.lookup
        /\ Answer(c, "refused")
        /\ UNCHANGED transactions
     \/ /\ transactions[t].lifecycle = "prepared" /\ transactions[t].version \in keys.lookup
        /\ LET row == Terminalized(transactions[t])
           IN  /\ transactions' = [transactions EXCEPT ![t] = row]
               /\ IF row.lifecycle \in {"consumed", "prepared"}
                  THEN Put(c, [NoCallback EXCEPT !.step = "claimed", !.tx = t, !.row = row,
                                                  !.bound = (cookie[b] = t),
                                                  !.mine = (starter[t] = b)])
                  ELSE Answer(c, "refused")
  /\ UNCHANGED <<starter, now, keys, cookie, identity, invitation, principal>>

\* The database has a row per state, and no other material is shared: two candidates
\* mean a damaged table, which this model has not.
Expirable(t) ==
  /\ transactions[t].lifecycle = "prepared" /\ Expires(transactions[t]) <= now
  /\ transactions[t].version \in keys.lookup \cap keys.protection

Deletable(t) ==
  /\ transactions[t].lifecycle \in {"consumed", "expired", "invalidated"}
  /\ transactions[t].terminal + Retention <= now
  /\ transactions[t].version \in keys.lookup \cap keys.protection

\* The choices of n rows with the earliest times; equal times are settled by the rows'
\* random identifiers.
Earliest(S, at, n) ==
  {T \in SUBSET S : /\ Cardinality(T) = IF Cardinality(S) < n THEN Cardinality(S) ELSE n
                    /\ \A t \in T, u \in S \ T : at[t] <= at[u]}

\* One run with a limit of `limit` mutations, expiries before deletions.
CleanupTransactions(limit) ==
  LET expiry == [t \in Txs |-> Expires(transactions[t])]
      terminal == [t \in Txs |-> transactions[t].terminal]
  IN  \E expire \in Earliest({t \in Txs : Expirable(t)}, expiry, limit) :
      \E delete \in Earliest({t \in Txs : Deletable(t)}, terminal, limit - Cardinality(expire)) :
      /\ expire \cup delete # {}
      /\ transactions' = [t \in Txs |->
           CASE t \in expire -> [transactions[t] EXCEPT !.lifecycle = "expired", !.terminal = now]
             [] t \in delete -> Nothing
             [] OTHER -> transactions[t]]
      /\ UNCHANGED <<starter, now, keys, cookie, callback, identity, invitation, principal>>

----------------------------------------------------------------------------
(* The callback after its claim *)

\* The cookie that came with the request named this transaction.
BindingMatches(c) == callback[c].bound

CheckBinding(c) ==
  /\ callback[c].step = "claimed"
  /\ IF BindingMatches(c) THEN Put(c, [callback[c] EXCEPT !.step = "verify"])
                          ELSE Answer(c, "refused")
  /\ UNCHANGED <<starter, now, transactions, keys, cookie, identity, invitation, principal>>

Fresh(row) == row.terminal <= now /\ now < Expires(row)

\* The code is exchanged and the identity token verified.  auth_time is when the person
\* last signed in at Google; the reading taken here is the time of the whole completion.
VerifyProvider(c) ==
  /\ callback[c].step = "verify"
  /\ \/ /\ Fresh(callback[c].row)
        /\ \E authenticated \in 1..now :
             /\ now <= authenticated + MaxAge
             /\ Put(c, [callback[c] EXCEPT !.step = "resolve", !.at = now,
                                            !.authenticated = authenticated])
     \/ Answer(c, "refused")
  /\ UNCHANGED <<starter, now, transactions, keys, cookie, identity, invitation, principal>>

\* The identity is found; or it is missing, and the transaction carries an invitation.
ResolveIdentity(c) ==
  /\ callback[c].step = "resolve"
  /\ \/ /\ identity.status = "active"
        /\ identity.created <= callback[c].authenticated /\ identity.created <= callback[c].at
        /\ Put(c, [callback[c] EXCEPT !.step = "principal"])
     \/ /\ identity.status # "none"
        /\ \/ identity.status = "suspended" \/ identity.created > callback[c].authenticated
           \/ identity.created > callback[c].at
        /\ Answer(c, "refused")
     \/ /\ identity.status = "none"
        /\ Put(c, [callback[c] EXCEPT !.step = "provision"]) \/ Answer(c, "refused")
  /\ UNCHANGED <<starter, now, transactions, keys, cookie, identity, invitation, principal>>

\* Mutant: the invitation's status is left to the check of the operator.
InvitationUsable == invitation # "revoked"

InvitationOpen == invitation = "pending"

\* _create_invited_user, one transaction that looks at everything again.
Provision(c) ==
  /\ callback[c].step = "provision"
  /\ \/ /\ InvitationOpen
        /\ identity' = [status |-> "active", created |-> callback[c].at]
        /\ invitation' = "consumed"
        /\ Put(c, [callback[c] EXCEPT !.step = "principal", !.provisioned = TRUE])
     \/ /\ ~InvitationOpen
        /\ Answer(c, "refused") /\ UNCHANGED <<identity, invitation>>
  /\ UNCHANGED <<starter, now, transactions, keys, cookie, principal>>

\* ensure_account_native_principal: created or resolved, for an active account only.
EnsurePrincipal(c) ==
  /\ callback[c].step = "principal"
  /\ \/ /\ identity.status = "active" /\ identity.created <= callback[c].at
        /\ principal' = TRUE
        /\ Put(c, [callback[c] EXCEPT !.step = "login"])
     \/ Answer(c, "refused") /\ UNCHANGED principal
  /\ UNCHANGED <<starter, now, transactions, keys, cookie, identity, invitation>>

\* The verifications of complete_trusted_login; LoginDelivery takes over from "issued".
TrustedLogin(c) ==
  /\ callback[c].step = "login"
  /\ IF /\ identity.status = "active"
        /\ callback[c].at < Expires(callback[c].row)
        /\ callback[c].at < callback[c].authenticated + MaxAge
        /\ identity.created <= callback[c].authenticated
     THEN Answer(c, "issued") ELSE Answer(c, "denied")
  /\ UNCHANGED <<starter, now, transactions, keys, cookie, identity, invitation, principal>>

----------------------------------------------------------------------------
(* The world *)

Suspend ==
  /\ identity.status = "active" /\ identity' = [identity EXCEPT !.status = "suspended"]
  /\ UNCHANGED <<starter, now, transactions, keys, cookie, callback, invitation, principal>>

RevokeInvitation ==
  /\ invitation = "pending" /\ invitation' = "revoked"
  /\ UNCHANGED <<starter, now, transactions, keys, cookie, callback, identity, principal>>

ClockTicks ==
  /\ now < MaxNow /\ now' = now + 1
  /\ UNCHANGED <<starter, transactions, keys, cookie, callback, identity, invitation, principal>>

ClockSetBack ==
  /\ now > 1 /\ now' = now - 1
  /\ UNCHANGED <<starter, transactions, keys, cookie, callback, identity, invitation, principal>>

\* Requests in flight are lost.  The next server may use a new key version, and accept
\* the older ones for lookups, for protected material, for both or not at all.
CrashAndRestart ==
  /\ callback' = [c \in Callbacks |->
       IF callback[c].step \in {"idle", "done"} THEN callback[c]
       ELSE Ended(c, "crashed")]
  /\ \/ UNCHANGED keys
     \/ /\ keys.active < MaxVersion
        /\ \E L, P \in SUBSET (1..keys.active) :
             keys' = [active |-> keys.active + 1, lookup |-> L \cup {keys.active + 1},
                      protection |-> P \cup {keys.active + 1}]
  /\ UNCHANGED <<starter, now, transactions, cookie, identity, invitation, principal>>

InitOidc ==
  /\ now = 1
  /\ transactions = <<>>
  /\ starter = <<>>
  /\ keys = [active |-> 1, lookup |-> {1}, protection |-> {1}]
  /\ cookie = [b \in Browsers |-> 0]
  /\ callback = [c \in Callbacks |-> NoCallback]
  /\ identity = [status |-> "none", created |-> 0]
  /\ invitation = "pending"
  /\ principal = FALSE

NextOidc ==
  \/ \E b \in Browsers : PrepareTransaction(b)
  \/ \E c \in Callbacks :
       \/ \E b \in Browsers, t \in Txs : ClaimTransaction(c, b, t)
       \/ CheckBinding(c) \/ VerifyProvider(c) \/ ResolveIdentity(c) \/ Provision(c)
       \/ EnsurePrincipal(c) \/ TrustedLogin(c)
  \/ CleanupTransactions(1)
  \/ Suspend \/ RevokeInvitation
  \/ ClockTicks \/ ClockSetBack \/ CrashAndRestart

SpecOidc == InitOidc /\ [][NextOidc]_oidcVars

----------------------------------------------------------------------------
\* A transaction logs at most one callback in, and only one that came from the browser
\* it was started in: across concurrent callbacks, cleanup, clock changes, crashes and
\* key rotation (claim_google_oidc_authorization_transaction).
OneLoginPerTransaction ==
  \A c \in Callbacks : callback[c].outcome = "issued" =>
    /\ callback[c].mine
    /\ \A d \in Callbacks \ {c} : callback[d].tx # callback[c].tx

\* One invitation makes one account: the invitation is consumed exactly when the
\* identity exists, one callback at most created it, and a login that was issued has a
\* principal that owns its data (durable_google_login_browser.md, "Every durable
\* completion then passes the canonical account").
ProvisionedTogether ==
  /\ (identity.status # "none") <=> (invitation = "consumed")
  /\ Cardinality({c \in Callbacks : callback[c].provisioned}) <= 1
  /\ (\E c \in Callbacks : callback[c].outcome = "issued") => principal /\ identity.status # "none"

\* durable_google_login_browser.md:1022 "atomically consumes the invitation and creates
\* the active account, Google identity, and account lifecycle event before trusted-login
\* completion issues the session": a first login that provisioned an account which is
\* still active is not denied.  The code does NOT keep it: the identity is created at
\* the time of the callback, and trusted login refuses an auth_time that precedes it.
InvitedLoginIssues ==
  \A c \in Callbacks :
    callback[c].provisioned /\ callback[c].outcome = "denied" => identity.status # "active"
============================================================================
