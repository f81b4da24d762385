----------------------- MODULE OidcTransactions_proofs -----------------------
(***************************************************************************)
(* What the runs check of the logins, for any number of transactions,      *)
(* callbacks, browsers and key versions.  The argument: a transaction      *)
(* leaves "prepared" once and never returns, so the callback that took it  *)
(* is the only one that names it; and the invitation is spent in the step  *)
(* that creates the identity, so whoever finds it pending finds no         *)
(* identity.                                                               *)
(* And of the invitations an operator issues, for any number of operators  *)
(* and invitees: whoever is at work owns the database, so nobody else      *)
(* moves files or rows; a credential is flushed before its row commits.    *)
(***************************************************************************)
EXTENDS OidcTransactions, InvitationIssue, FiniteSetTheorems, SequenceTheorems, TLAPS

Row == [lifecycle : {"prepared", "consumed", "expired", "invalidated", "deleted"},
        created : Nat, terminal : Nat, version : Nat]
Login == [step : {"idle", "claimed", "verify", "resolve", "provision", "principal", "login", "done"},
          tx : Nat, bound : BOOLEAN, mine : BOOLEAN, row : Row, at : Nat, authenticated : Nat,
          provisioned : BOOLEAN,
          outcome : {"none", "refused", "issued", "denied", "crashed"}]

\* Only the shape of the records matters to the proofs below.
OidcTypeOK ==
  /\ now \in Nat
  /\ transactions \in Seq(Row)
  /\ starter \in Seq(Browsers) /\ Len(starter) = Len(transactions)
  /\ keys.active \in Nat
  /\ cookie \in [Browsers -> Nat]
  /\ callback \in [Callbacks -> Login]
  /\ identity \in [status : {"none", "active", "suspended"}, created : Nat]
  /\ invitation \in {"pending", "consumed", "revoked"}

\* A cookie names a transaction of its own browser.
CookieOK == \A b \in Browsers : cookie[b] # 0 => cookie[b] \in Txs /\ starter[cookie[b]] = b

\* What a callback holds, and what its progress says of the account.
CallbackOK(c) ==
  /\ callback[c].step = "idle" => callback[c].tx = 0 /\ callback[c].outcome = "none"
  /\ callback[c].tx # 0 =>
       callback[c].tx \in Txs /\ transactions[callback[c].tx].lifecycle # "prepared"
  /\ callback[c].step \notin {"idle", "done"} =>
       callback[c].tx # 0 /\ callback[c].outcome = "none"
  /\ callback[c].step \notin {"idle", "done", "claimed"} \/ callback[c].bound => callback[c].mine
  /\ callback[c].step \in {"principal", "login"} \/ callback[c].provisioned =>
       identity.status # "none"
  /\ callback[c].step = "login" => principal
  /\ callback[c].outcome = "issued" =>
       callback[c].tx # 0 /\ callback[c].mine /\ principal /\ identity.status # "none"

\* No two callbacks share a transaction, or created the identity.
Apart(c, d) ==
  /\ callback[c].tx # 0 => callback[d].tx # callback[c].tx
  /\ callback[c].provisioned => ~callback[d].provisioned

\* The invitation is spent exactly when the identity exists.
SpentTogether == identity.status # "none" <=> invitation = "consumed"

OidcIInv ==
  /\ OidcTypeOK
  /\ CookieOK
  /\ \A c \in Callbacks : CallbackOK(c)
  /\ \A c, d \in Callbacks : c # d => Apart(c, d)
  /\ SpentTogether

----------------------------------------------------------------------------
(* The records of the callbacks *)

\* A callback that ends keeps what it took and what it created (Ended).
LEMMA EndedLemma ==
  ASSUME OidcTypeOK, NEW c \in Callbacks,
         NEW outcome \in {"refused", "issued", "denied", "crashed"}
  PROVE  /\ Ended(c, outcome) \in Login
         /\ Ended(c, outcome).step = "done" /\ Ended(c, outcome).outcome = outcome
         /\ Ended(c, outcome).tx = callback[c].tx
         /\ Ended(c, outcome).bound = FALSE
         /\ Ended(c, outcome).mine = callback[c].mine
         /\ Ended(c, outcome).provisioned = callback[c].provisioned
<1>1. /\ callback[c].tx \in Nat /\ callback[c].mine \in BOOLEAN /\ callback[c].provisioned \in BOOLEAN
  BY DEF OidcTypeOK, Login
<1>2. Nothing \in Row
  BY DEF Nothing, Row
<1>3. NoCallback \in Login /\ NoCallback.bound = FALSE
  BY <1>2 DEF NoCallback, Login
<1> QED
  BY <1>1, <1>3 DEF Ended, Login

\* A callback that goes on keeps all but what the step names.
LEMMA MovedLemma ==
  ASSUME NEW x \in Login, NEW step \in {"verify", "resolve", "provision", "principal", "login"}
  PROVE  /\ [x EXCEPT !.step = step] \in Login
         /\ [x EXCEPT !.step = step].step = step
         /\ [x EXCEPT !.step = step].outcome = x.outcome
         /\ [x EXCEPT !.step = step].tx = x.tx
         /\ [x EXCEPT !.step = step].bound = x.bound
         /\ [x EXCEPT !.step = step].mine = x.mine
         /\ [x EXCEPT !.step = step].provisioned = x.provisioned
  BY DEF Login

\* What a step of one callback must respect to keep the invariant: the transactions and
\* cookies stay as they are, the account only grows.
LEMMA CallbackStepLemma ==
  ASSUME OidcIInv, NEW c \in Callbacks, NEW new \in Login, Put(c, new),
         UNCHANGED <<starter, now, transactions, keys, cookie>>,
         identity' \in [status : {"none", "active", "suspended"}, created : Nat],
         invitation' \in {"pending", "consumed", "revoked"}, SpentTogether',
         identity.status # "none" => identity'.status # "none",
         principal => principal',
         new.step # "idle",
         new.tx = callback[c].tx, new.mine = callback[c].mine,
         new.bound => callback[c].bound,
         new.provisioned => callback[c].provisioned \/ identity.status = "none",
         new.step # "done" => callback[c].step \notin {"idle", "done"} /\ new.outcome = "none",
         new.step \notin {"done", "claimed"} => new.mine,
         new.step \in {"principal", "login"} \/ new.provisioned => identity'.status # "none",
         new.step = "login" => principal',
         new.outcome = "issued" => new.tx # 0 /\ new.mine /\ principal' /\ identity'.status # "none"
  PROVE  OidcIInv'
<1> USE DEF OidcIInv
<1>1. /\ callback'[c] = new /\ callback' \in [Callbacks -> Login]
      /\ \A d \in Callbacks \ {c} : callback'[d] = callback[d]
  BY DEF Put, OidcTypeOK
<1>2. OidcTypeOK' /\ CookieOK'
  BY <1>1 DEF OidcTypeOK, CookieOK, Txs
<1>3. \A d \in Callbacks : CallbackOK(d)'
  <2> SUFFICES ASSUME NEW d \in Callbacks PROVE CallbackOK(d)'
    OBVIOUS
  <2>1. CASE d = c
    <3>1. CallbackOK(c)
      OBVIOUS
    <3> QED
      BY <1>1, <2>1, <3>1 DEF CallbackOK, Txs
  <2>2. CASE d # c
    <3>1. CallbackOK(d) /\ callback'[d] = callback[d]
      BY <1>1, <2>2
    <3> QED
      BY <3>1 DEF CallbackOK, Txs
  <2> QED
    BY <2>1, <2>2
<1>4. \A d, e \in Callbacks : d # e => Apart(d, e)'
  <2>1. identity.status = "none" => \A d \in Callbacks : ~callback[d].provisioned
    BY DEF CallbackOK
  <2> QED
    BY <1>1, <2>1 DEF Apart
<1> QED
  BY <1>2, <1>3, <1>4

\* A callback that ends without a session (Answer).
LEMMA RefusedLemma ==
  ASSUME OidcIInv, NEW c \in Callbacks, NEW outcome \in {"refused", "denied"}, Answer(c, outcome),
         UNCHANGED <<starter, now, transactions, keys, cookie, identity, invitation, principal>>
  PROVE  OidcIInv'
<1>0. OidcTypeOK /\ outcome \in {"refused", "issued", "denied", "crashed"}
  BY DEF OidcIInv
<1> DEFINE new == Ended(c, outcome)
<1>1. /\ new \in Login /\ new.step = "done" /\ new.outcome = outcome
      /\ new.tx = callback[c].tx /\ new.mine = callback[c].mine /\ new.bound = FALSE
      /\ new.provisioned = callback[c].provisioned
  BY <1>0, EndedLemma
<1>2. Put(c, new)
  BY DEF Answer
<1>3. CallbackOK(c) /\ OidcTypeOK /\ SpentTogether
  BY DEF OidcIInv
<1>4. new.provisioned => identity'.status # "none"
  BY <1>1, <1>3 DEF CallbackOK
<1>5. SpentTogether' /\ identity' \in [status : {"none", "active", "suspended"}, created : Nat]
      /\ invitation' \in {"pending", "consumed", "revoked"}
  BY <1>3 DEF SpentTogether, OidcTypeOK
<1> HIDE DEF new
<1> QED
  BY <1>1, <1>2, <1>4, <1>5, CallbackStepLemma

\* A callback that goes on while the account stays as it is.
LEMMA GoesOnLemma ==
  ASSUME OidcIInv, NEW c \in Callbacks, NEW new \in Login, Put(c, new),
         UNCHANGED <<starter, now, transactions, keys, cookie, identity, invitation>>,
         callback[c].step \notin {"idle", "done"}, new.step \notin {"idle", "done", "claimed"},
         new.tx = callback[c].tx, new.mine = callback[c].mine, new.mine,
         new.bound = callback[c].bound, new.provisioned = callback[c].provisioned,
         new.outcome = callback[c].outcome,
         new.step \in {"principal", "login"} => identity.status # "none",
         principal => principal', new.step = "login" => principal'
  PROVE  OidcIInv'
<1>1. CallbackOK(c) /\ OidcTypeOK /\ SpentTogether
  BY DEF OidcIInv
<1>2. SpentTogether' /\ identity' \in [status : {"none", "active", "suspended"}, created : Nat]
      /\ invitation' \in {"pending", "consumed", "revoked"}
  BY <1>1 DEF SpentTogether, OidcTypeOK
<1>3. new.outcome = "none"
  BY <1>1 DEF CallbackOK
<1>4. new.provisioned => identity.status # "none"
  BY <1>1 DEF CallbackOK
<1> QED
  BY <1>2, <1>3, <1>4, CallbackStepLemma

\* The cookie decides whether the callback is the starter's (CheckBinding).
LEMMA BindingLemma ==
  ASSUME OidcIInv, NEW c \in Callbacks, CheckBinding(c)
  PROVE  OidcIInv'
<1> DEFINE new == [callback[c] EXCEPT !.step = "verify"]
<1>1. callback[c] \in Login /\ CallbackOK(c) /\ callback[c].step = "claimed"
  BY DEF OidcIInv, OidcTypeOK, CheckBinding
<1>2. /\ new \in Login /\ new.step = "verify" /\ new.outcome = callback[c].outcome
      /\ new.tx = callback[c].tx /\ new.bound = callback[c].bound /\ new.mine = callback[c].mine
      /\ new.provisioned = callback[c].provisioned
  BY <1>1, MovedLemma
<1>3. CASE Answer(c, "refused")
  BY <1>1, <1>3, RefusedLemma DEF CheckBinding
<1>4. CASE callback[c].bound /\ Put(c, new)
  <2>1. new.mine
    BY <1>1, <1>2, <1>4 DEF CallbackOK
  <2>2. UNCHANGED <<starter, now, transactions, keys, cookie, identity, invitation, principal>>
    BY DEF CheckBinding
  <2> HIDE DEF new
  <2> QED
    BY <1>1, <1>2, <1>4, <2>1, <2>2, GoesOnLemma
<1> QED
  BY <1>3, <1>4 DEF CheckBinding, BindingMatches

\* The provider's answer (VerifyProvider).
LEMMA VerifyLemma ==
  ASSUME OidcIInv, NEW c \in Callbacks, VerifyProvider(c)
  PROVE  OidcIInv'
<1>1. callback[c] \in Login /\ CallbackOK(c) /\ callback[c].step = "verify" /\ now \in Nat
  BY DEF OidcIInv, OidcTypeOK, VerifyProvider
<1>2. UNCHANGED <<starter, now, transactions, keys, cookie, identity, invitation, principal>>
  BY DEF VerifyProvider
<1>3. CASE Answer(c, "refused")
  BY <1>1, <1>2, <1>3, RefusedLemma
<1>4. ASSUME NEW authenticated \in 1..now,
             Put(c, [callback[c] EXCEPT !.step = "resolve", !.at = now, !.authenticated = authenticated])
      PROVE  OidcIInv'
  <2> DEFINE new == [callback[c] EXCEPT !.step = "resolve", !.at = now, !.authenticated = authenticated]
  <2>1. /\ new \in Login /\ new.step = "resolve" /\ new.outcome = callback[c].outcome
        /\ new.tx = callback[c].tx /\ new.bound = callback[c].bound /\ new.mine = callback[c].mine
        /\ new.provisioned = callback[c].provisioned
    <3>1. authenticated \in Nat
      BY <1>1, <1>4
    <3> QED
      BY <1>1, <3>1 DEF Login
  <2>2. new.mine
    BY <1>1, <2>1 DEF CallbackOK
  <2>3. Put(c, new)
    BY <1>4
  <2> HIDE DEF new
  <2> QED
    BY <1>1, <1>2, <2>1, <2>2, <2>3, GoesOnLemma
<1> QED
  BY <1>3, <1>4 DEF VerifyProvider

\* The identity decides the way on (ResolveIdentity).
LEMMA ResolveLemma ==
  ASSUME OidcIInv, NEW c \in Callbacks, ResolveIdentity(c)
  PROVE  OidcIInv'
<1>1. callback[c] \in Login /\ CallbackOK(c) /\ callback[c].step = "resolve"
  BY DEF OidcIInv, OidcTypeOK, ResolveIdentity
<1>2. UNCHANGED <<starter, now, transactions, keys, cookie, identity, invitation, principal>>
  BY DEF ResolveIdentity
<1>3. CASE Answer(c, "refused")
  BY <1>1, <1>2, <1>3, RefusedLemma
<1>4. ASSUME NEW step \in {"principal", "provision"},
             step = "principal" => identity.status # "none",
             Put(c, [callback[c] EXCEPT !.step = step])
      PROVE  OidcIInv'
  <2> DEFINE new == [callback[c] EXCEPT !.step = step]
  <2>1. /\ new \in Login /\ new.step = step /\ new.outcome = callback[c].outcome
        /\ new.tx = callback[c].tx /\ new.bound = callback[c].bound /\ new.mine = callback[c].mine
        /\ new.provisioned = callback[c].provisioned
    <3>1. step \in {"verify", "resolve", "provision", "principal", "login"}
      BY <1>4
    <3> QED
      BY <1>1, <3>1, MovedLemma
  <2>2. new.mine
    BY <1>1, <2>1 DEF CallbackOK
  <2>3. Put(c, new)
    BY <1>4
  <2> HIDE DEF new
  <2> QED
    BY <1>1, <1>2, <1>4, <2>1, <2>2, <2>3, GoesOnLemma
<1> QED
  BY <1>3, <1>4 DEF ResolveIdentity

\* The identity is created and the invitation spent in one step, at most once (Provision).
LEMMA ProvisionLemma ==
  ASSUME OidcIInv, NEW c \in Callbacks, Provision(c)
  PROVE  OidcIInv'
<1>1. callback[c] \in Login /\ CallbackOK(c) /\ callback[c].step = "provision" /\ SpentTogether
  BY DEF OidcIInv, OidcTypeOK, Provision
<1>2. CASE Answer(c, "refused") /\ UNCHANGED <<identity, invitation>>
  BY <1>1, <1>2, RefusedLemma DEF Provision
<1>3. CASE /\ InvitationOpen /\ identity' = [status |-> "active", created |-> callback[c].at]
           /\ invitation' = "consumed"
           /\ Put(c, [callback[c] EXCEPT !.step = "principal", !.provisioned = TRUE])
  <2> DEFINE new == [callback[c] EXCEPT !.step = "principal", !.provisioned = TRUE]
  <2>1. /\ new \in Login /\ new.step = "principal" /\ new.outcome = callback[c].outcome
        /\ new.tx = callback[c].tx /\ new.bound = callback[c].bound /\ new.mine = callback[c].mine
        /\ new.provisioned
    BY <1>1 DEF Login
  <2>2. identity.status = "none"
    BY <1>1, <1>3 DEF InvitationOpen, SpentTogether
  <2>3. new.mine /\ new.outcome = "none"
    BY <1>1, <2>1 DEF CallbackOK
  <2>4. SpentTogether' /\ identity' \in [status : {"none", "active", "suspended"}, created : Nat]
        /\ identity'.status # "none" /\ invitation' \in {"pending", "consumed", "revoked"}
    BY <1>1, <1>3 DEF SpentTogether, Login
  <2>5. UNCHANGED <<starter, now, transactions, keys, cookie, principal>> /\ Put(c, new)
    BY <1>3 DEF Provision
  <2> HIDE DEF new
  <2> QED
    BY <1>1, <2>1, <2>2, <2>3, <2>4, <2>5, CallbackStepLemma
<1> QED
  BY <1>2, <1>3 DEF Provision

\* The principal exists before the login (EnsurePrincipal).
LEMMA PrincipalLemma ==
  ASSUME OidcIInv, NEW c \in Callbacks, EnsurePrincipal(c)
  PROVE  OidcIInv'
<1>1. callback[c] \in Login /\ CallbackOK(c) /\ callback[c].step = "principal"
  BY DEF OidcIInv, OidcTypeOK, EnsurePrincipal
<1>2. UNCHANGED <<starter, now, transactions, keys, cookie, identity, invitation>>
  BY DEF EnsurePrincipal
<1>3. CASE Answer(c, "refused") /\ UNCHANGED principal
  BY <1>1, <1>2, <1>3, RefusedLemma
<1>4. CASE identity.status = "active" /\ principal' = TRUE /\ Put(c, [callback[c] EXCEPT !.step = "login"])
  <2> DEFINE new == [callback[c] EXCEPT !.step = "login"]
  <2>1. /\ new \in Login /\ new.step = "login" /\ new.outcome = callback[c].outcome
        /\ new.tx = callback[c].tx /\ new.bound = callback[c].bound /\ new.mine = callback[c].mine
        /\ new.provisioned = callback[c].provisioned
    BY <1>1, MovedLemma
  <2>2. new.mine
    BY <1>1, <2>1 DEF CallbackOK
  <2>3. Put(c, new) /\ principal' /\ identity.status # "none"
    BY <1>4
  <2> HIDE DEF new
  <2> QED
    BY <1>1, <1>2, <2>1, <2>2, <2>3, GoesOnLemma
<1> QED
  BY <1>3, <1>4 DEF EnsurePrincipal

\* A session is issued or denied (TrustedLogin).
LEMMA TrustedLemma ==
  ASSUME OidcIInv, NEW c \in Callbacks, TrustedLogin(c)
  PROVE  OidcIInv'
<1>1. callback[c] \in Login /\ CallbackOK(c) /\ callback[c].step = "login" /\ OidcTypeOK /\ SpentTogether
  BY DEF OidcIInv, OidcTypeOK, TrustedLogin
<1>2. UNCHANGED <<starter, now, transactions, keys, cookie, identity, invitation, principal>>
  BY DEF TrustedLogin
<1>3. CASE Answer(c, "denied")
  BY <1>1, <1>2, <1>3, RefusedLemma
<1>4. CASE Answer(c, "issued")
  <2> DEFINE new == Ended(c, "issued")
  <2>1. /\ new \in Login /\ new.step = "done" /\ new.outcome = "issued"
        /\ new.tx = callback[c].tx /\ new.mine = callback[c].mine /\ new.bound = FALSE
        /\ new.provisioned = callback[c].provisioned
    BY <1>1, EndedLemma
  <2>2. new.tx # 0 /\ new.mine /\ principal' /\ identity'.status # "none"
    BY <1>1, <1>2, <2>1 DEF CallbackOK
  <2>3. SpentTogether' /\ identity' \in [status : {"none", "active", "suspended"}, created : Nat]
        /\ invitation' \in {"pending", "consumed", "revoked"}
    BY <1>1, <1>2 DEF SpentTogether, OidcTypeOK
  <2>4. Put(c, new)
    BY <1>4 DEF Answer
  <2> HIDE DEF new
  <2> QED
    BY <1>1, <1>2, <2>1, <2>2, <2>3, <2>4, CallbackStepLemma
<1> QED
  BY <1>3, <1>4 DEF TrustedLogin

----------------------------------------------------------------------------
(* The transactions *)

\* No transaction becomes "prepared" again, so the callbacks keep what they took.
LEMMA RowsLemma ==
  ASSUME OidcIInv, UNCHANGED <<callback, identity, invitation, principal>>,
         Len(transactions') >= Len(transactions), transactions' \in Seq(Row),
         \A t \in Txs : transactions[t].lifecycle # "prepared" => transactions'[t].lifecycle # "prepared"
  PROVE  /\ \A c \in Callbacks : CallbackOK(c)'
         /\ \A c, d \in Callbacks : c # d => Apart(c, d)'
         /\ SpentTogether'
<1> USE DEF OidcIInv
<1>1. \A t \in Txs : t \in Txs'
  BY DEF Txs, OidcTypeOK
<1>2. \A c \in Callbacks : CallbackOK(c)'
  <2> SUFFICES ASSUME NEW c \in Callbacks PROVE CallbackOK(c)'
    OBVIOUS
  <2>1. CallbackOK(c)
    OBVIOUS
  <2>2. callback[c].tx # 0 => /\ callback[c].tx \in Txs'
                              /\ transactions'[callback[c].tx].lifecycle # "prepared"
    BY <1>1, <2>1 DEF CallbackOK
  <2> QED
    BY <2>1, <2>2 DEF CallbackOK
<1> QED
  BY <1>2 DEF Apart, SpentTogether

\* A new transaction and its cookie (PrepareTransaction).
LEMMA PrepareLemma ==
  ASSUME OidcIInv, NEW b \in Browsers, PrepareTransaction(b)
  PROVE  OidcIInv'
<1> USE DEF OidcIInv
<1> DEFINE row == [lifecycle |-> "prepared", created |-> now, terminal |-> 0, version |-> keys.active]
           n == Len(transactions) + 1
<1>1. /\ transactions' = Append(transactions, row) /\ starter' = Append(starter, b)
      /\ cookie' = cookie \/ cookie' = [cookie EXCEPT ![b] = n]
      /\ UNCHANGED <<now, keys, callback, identity, invitation, principal>>
  BY DEF PrepareTransaction
<1>2. row \in Row
  BY DEF OidcTypeOK, Row
<1>3. /\ transactions' \in Seq(Row) /\ Len(transactions') = n /\ n \in Nat
      /\ starter' \in Seq(Browsers) /\ Len(starter') = n
      /\ \A t \in Txs : /\ transactions'[t] = transactions[t] /\ starter'[t] = starter[t]
                        /\ t \in Txs'
      /\ n \in Txs' /\ starter'[n] = b
  <2>1. transactions \in Seq(Row) /\ starter \in Seq(Browsers) /\ Len(starter) = Len(transactions)
    BY DEF OidcTypeOK
  <2> HIDE DEF row
  <2> QED
    BY <1>1, <1>2, <2>1 DEF Txs
<1>4. OidcTypeOK'
  BY <1>1, <1>3 DEF OidcTypeOK
<1>5. CookieOK'
  <2> SUFFICES ASSUME NEW d \in Browsers, cookie'[d] # 0
               PROVE  cookie'[d] \in Txs' /\ starter'[cookie'[d]] = d
    BY DEF CookieOK
  <2>1. CASE cookie'[d] = cookie[d]
    BY <1>3, <2>1 DEF CookieOK
  <2>2. CASE d = b /\ cookie'[d] = n
    BY <1>3, <2>2
  <2> HIDE DEF n
  <2> QED
    BY <1>1, <2>1, <2>2 DEF OidcTypeOK
<1>6. /\ \A c \in Callbacks : CallbackOK(c)'
      /\ \A c, d \in Callbacks : c # d => Apart(c, d)'
      /\ SpentTogether'
  <2>1. \A t \in Txs : transactions[t].lifecycle # "prepared" => transactions'[t].lifecycle # "prepared"
    BY <1>3
  <2>2. Len(transactions') >= Len(transactions) /\ UNCHANGED <<callback, identity, invitation, principal>>
    BY <1>1, <1>3 DEF OidcTypeOK
  <2> HIDE DEF row, n
  <2> QED
    BY <1>3, <2>1, <2>2, RowsLemma
<1> QED
  BY <1>4, <1>5, <1>6

\* Rows expire and go (CleanupTransactions).
LEMMA CleanupLemma ==
  ASSUME OidcIInv, NEW limit, CleanupTransactions(limit)
  PROVE  OidcIInv'
<1> USE DEF OidcIInv
<1>1. PICK expire, delete :
        /\ transactions' = [t \in Txs |->
             CASE t \in expire -> [transactions[t] EXCEPT !.lifecycle = "expired", !.terminal = now]
               [] t \in delete -> Nothing
               [] OTHER -> transactions[t]]
        /\ UNCHANGED <<starter, now, keys, cookie, callback, identity, invitation, principal>>
  BY DEF CleanupTransactions
<1>2. \A t \in Txs :
        /\ transactions'[t] \in Row
        /\ transactions[t].lifecycle # "prepared" => transactions'[t].lifecycle # "prepared"
  <2> SUFFICES ASSUME NEW t \in Txs
               PROVE  /\ transactions'[t] \in Row
                      /\ transactions[t].lifecycle # "prepared"
                           => transactions'[t].lifecycle # "prepared"
    OBVIOUS
  <2>1. transactions[t] \in Row /\ now \in Nat
    BY DEF OidcTypeOK, Txs
  <2>2. /\ [transactions[t] EXCEPT !.lifecycle = "expired", !.terminal = now] \in Row
        /\ [transactions[t] EXCEPT !.lifecycle = "expired", !.terminal = now].lifecycle = "expired"
    BY <2>1 DEF Row
  <2>3. Nothing \in Row /\ Nothing.lifecycle = "deleted"
    BY DEF Nothing, Row
  <2> QED
    BY <1>1, <2>1, <2>2, <2>3
<1>3. transactions' \in Seq(Row) /\ Len(transactions') = Len(transactions)
  <2>1. Txs = 1..Len(transactions) /\ Len(transactions) \in Nat
    BY DEF OidcTypeOK, Txs
  <2>2. transactions' \in [1..Len(transactions) -> Row]
    BY <1>1, <1>2, <2>1
  <2> QED
    BY <2>1, <2>2
<1>4. OidcTypeOK' /\ CookieOK'
  BY <1>1, <1>3 DEF OidcTypeOK, CookieOK, Txs
<1>5. /\ \A c \in Callbacks : CallbackOK(c)'
      /\ \A c, d \in Callbacks : c # d => Apart(c, d)'
      /\ SpentTogether'
  <2>1. Len(transactions') >= Len(transactions)
    BY <1>3 DEF OidcTypeOK
  <2>2. UNCHANGED <<callback, identity, invitation, principal>>
    BY <1>1
  <2> QED
    BY <1>2, <1>3, <2>1, <2>2, RowsLemma
<1> QED
  BY <1>4, <1>5

\* The callback that finds a transaction prepared is the only one that takes it
\* (ClaimTransaction).
LEMMA ClaimLemma ==
  ASSUME OidcIInv, NEW c \in Callbacks, NEW b \in Browsers, NEW t \in Txs, ClaimTransaction(c, b, t)
  PROVE  OidcIInv'
<1> USE DEF OidcIInv
<1> DEFINE row == Terminalized(transactions[t])
           new == [NoCallback EXCEPT !.step = "claimed", !.tx = t, !.row = row,
                                     !.bound = (cookie[b] = t), !.mine = (starter[t] = b)]
<1>1. UNCHANGED <<starter, now, keys, cookie, identity, invitation, principal>>
  BY DEF ClaimTransaction
<1>2. CASE Answer(c, "refused") /\ UNCHANGED transactions
  BY <1>1, <1>2, RefusedLemma
<1>3. CASE /\ transactions[t].lifecycle = "prepared" /\ transactions' = [transactions EXCEPT ![t] = row]
           /\ Answer(c, "refused") \/ Put(c, new)
  <2>1. row \in Row /\ row.lifecycle # "prepared"
    <3>1. transactions[t] \in Row /\ now \in Nat
      BY DEF OidcTypeOK, Txs
    <3>2. \A x \in Row, lifecycle \in {"consumed", "expired", "invalidated"}, at \in Nat :
            /\ [x EXCEPT !.lifecycle = lifecycle, !.terminal = at] \in Row
            /\ [x EXCEPT !.lifecycle = lifecycle, !.terminal = at].lifecycle = lifecycle
      BY DEF Row
    <3>3. transactions[t].created \in Nat
      BY <3>1 DEF Row
    <3>4. \E lifecycle \in {"consumed", "expired", "invalidated"}, at \in Nat :
            row = [transactions[t] EXCEPT !.lifecycle = lifecycle, !.terminal = at]
      BY <3>1, <3>3 DEF Terminalized
    <3>5. PICK lifecycle \in {"consumed", "expired", "invalidated"}, at \in Nat :
            row = [transactions[t] EXCEPT !.lifecycle = lifecycle, !.terminal = at]
      BY <3>4
    <3> HIDE DEF row
    <3> QED
      BY <3>1, <3>2, <3>5
  <2>2. /\ transactions' \in Seq(Row) /\ Len(transactions') = Len(transactions) /\ Txs' = Txs
        /\ transactions'[t] = row /\ \A u \in Txs \ {t} : transactions'[u] = transactions[u]
        /\ t # 0
    <3> HIDE DEF row
    <3> QED
      BY <1>3, <2>1 DEF OidcTypeOK, Txs
  <2>3. \A d \in Callbacks : callback[d].tx # t
    BY <1>3, <2>2 DEF CallbackOK
  <2>4. PICK record \in Login :
          /\ Put(c, record) /\ record.step \in {"claimed", "done"} /\ record.outcome \in {"none", "refused"}
          /\ record.provisioned => callback[c].provisioned
          /\ record.bound => record.mine
          /\ \/ record.step = "claimed" /\ record.tx = t /\ record.outcome = "none"
             \/ record.step = "done" /\ record.tx = callback[c].tx
    <3>1. CASE Answer(c, "refused")
      BY <3>1, EndedLemma DEF Answer
    <3>2. CASE Put(c, new)
      <4>1. Nothing \in Row
        BY DEF Nothing, Row
      <4>2. NoCallback \in Login /\ NoCallback.provisioned = FALSE /\ NoCallback.outcome = "none"
        BY <4>1 DEF NoCallback, Login
      <4>3. t \in Nat /\ (cookie[b] = t => starter[t] = b)
        BY <2>2 DEF CookieOK, OidcTypeOK, Txs
      <4>4. /\ new \in Login /\ new.step = "claimed" /\ new.tx = t /\ new.outcome = "none"
            /\ new.provisioned = FALSE /\ new.bound = (cookie[b] = t) /\ new.mine = (starter[t] = b)
        <5> HIDE DEF row
        <5> QED
          BY <2>1, <4>2, <4>3 DEF Login
      <4> HIDE DEF new
      <4> QED
        BY <3>2, <4>3, <4>4
    <3> QED
      BY <1>3, <3>1, <3>2
  <2>5. /\ callback'[c] = record /\ callback' \in [Callbacks -> Login]
        /\ \A d \in Callbacks \ {c} : callback'[d] = callback[d]
    BY <2>4 DEF Put, OidcTypeOK
  <2>6. OidcTypeOK' /\ CookieOK' /\ SpentTogether'
    BY <1>1, <2>2, <2>5 DEF OidcTypeOK, CookieOK, SpentTogether
  <2>7. CallbackOK(c)'
    <3>1. CallbackOK(c)
      OBVIOUS
    <3>2. record.tx # 0 => record.tx \in Txs /\ transactions'[record.tx].lifecycle # "prepared"
      BY <2>1, <2>2, <2>3, <2>4, <3>1 DEF CallbackOK
    <3> QED
      BY <1>1, <2>2, <2>4, <2>5, <3>1, <3>2 DEF CallbackOK
  <2>8. \A d \in Callbacks \ {c} : CallbackOK(d)'
    <3> SUFFICES ASSUME NEW d \in Callbacks \ {c} PROVE CallbackOK(d)'
      OBVIOUS
    <3>1. CallbackOK(d) /\ callback'[d] = callback[d] /\ callback[d].tx # t
      BY <2>3, <2>5
    <3> QED
      BY <1>1, <2>2, <3>1 DEF CallbackOK
  <2>9. \A d, e \in Callbacks : d # e => Apart(d, e)'
    BY <2>3, <2>4, <2>5 DEF Apart
  <2> QED
    BY <2>6, <2>7, <2>8, <2>9
<1> QED
  BY <1>2, <1>3 DEF ClaimTransaction

----------------------------------------------------------------------------
(* The world *)

\* The account is suspended, the invitation revoked, the clock moves either way.
LEMMA WorldLemma ==
  ASSUME OidcIInv, Suspend \/ RevokeInvitation \/ ClockTicks \/ ClockSetBack \/ UNCHANGED oidcVars
  PROVE  OidcIInv'
<1> USE DEF OidcIInv
<1>1. UNCHANGED <<starter, transactions, keys, cookie, callback, principal>>
  BY DEF Suspend, RevokeInvitation, ClockTicks, ClockSetBack, oidcVars
<1>2. /\ now' \in Nat
      /\ identity' \in [status : {"none", "active", "suspended"}, created : Nat]
      /\ invitation' \in {"pending", "consumed", "revoked"}
      /\ identity.status # "none" <=> identity'.status # "none"
      /\ SpentTogether'
  <2>1. OidcTypeOK /\ SpentTogether
    OBVIOUS
  <2>2. CASE Suspend
    BY <2>1, <2>2 DEF Suspend, OidcTypeOK, SpentTogether
  <2>3. CASE RevokeInvitation
    BY <2>1, <2>3 DEF RevokeInvitation, OidcTypeOK, SpentTogether
  <2>4. CASE ClockTicks
    BY <2>1, <2>4 DEF ClockTicks, OidcTypeOK, SpentTogether
  <2>5. CASE ClockSetBack
    BY <2>1, <2>5 DEF ClockSetBack, OidcTypeOK, SpentTogether
  <2>6. CASE UNCHANGED oidcVars
    BY <2>1, <2>6 DEF oidcVars, OidcTypeOK, SpentTogether
  <2> QED
    BY <2>2, <2>3, <2>4, <2>5, <2>6
<1>3. OidcTypeOK' /\ CookieOK'
  BY <1>1, <1>2 DEF OidcTypeOK, CookieOK, Txs
<1>4. \A c \in Callbacks : CallbackOK(c)'
  BY <1>1, <1>2 DEF CallbackOK, Txs
<1>5. \A c, d \in Callbacks : c # d => Apart(c, d)'
  BY <1>1 DEF Apart
<1> QED
  BY <1>2, <1>3, <1>4, <1>5

\* Callbacks in flight end with what they took (CrashAndRestart).
LEMMA CrashLemma ==
  ASSUME OidcIInv, CrashAndRestart
  PROVE  OidcIInv'
<1> USE DEF OidcIInv
<1>1. UNCHANGED <<starter, now, transactions, cookie, identity, invitation, principal>>
  BY DEF CrashAndRestart
<1>2. \A c \in Callbacks :
        /\ callback'[c] \in Login
        /\ callback'[c].tx = callback[c].tx /\ callback'[c].provisioned = callback[c].provisioned
        /\ \/ callback'[c] = callback[c] /\ callback[c].step \in {"idle", "done"}
           \/ callback'[c].step = "done" /\ callback'[c].outcome = "crashed" /\ callback'[c].bound = FALSE
  <2> SUFFICES ASSUME NEW c \in Callbacks
               PROVE  /\ callback'[c] \in Login
                      /\ callback'[c].tx = callback[c].tx
                      /\ callback'[c].provisioned = callback[c].provisioned
                      /\ \/ callback'[c] = callback[c] /\ callback[c].step \in {"idle", "done"}
                         \/ /\ callback'[c].step = "done" /\ callback'[c].outcome = "crashed"
                            /\ callback'[c].bound = FALSE
    OBVIOUS
  <2>1. callback'[c] = IF callback[c].step \in {"idle", "done"} THEN callback[c] ELSE Ended(c, "crashed")
    BY DEF CrashAndRestart
  <2>2. callback[c] \in Login
    BY DEF OidcTypeOK
  <2> QED
    BY <2>1, <2>2, EndedLemma
<1>3. keys'.active \in Nat
  BY DEF CrashAndRestart, OidcTypeOK
<1>4. callback' \in [Callbacks -> Login]
  <2>1. callback' = [c \in Callbacks |->
          IF callback[c].step \in {"idle", "done"} THEN callback[c] ELSE Ended(c, "crashed")]
    BY DEF CrashAndRestart
  <2> QED
    BY <1>2, <2>1
<1>5. OidcTypeOK' /\ CookieOK' /\ SpentTogether'
  BY <1>1, <1>3, <1>4 DEF OidcTypeOK, CookieOK, SpentTogether, Txs
<1>6. \A c \in Callbacks : CallbackOK(c)'
  <2> SUFFICES ASSUME NEW c \in Callbacks PROVE CallbackOK(c)'
    OBVIOUS
  <2>1. CallbackOK(c)
    OBVIOUS
  <2> QED
    BY <1>1, <1>2, <2>1 DEF CallbackOK, Txs
<1>7. \A c, d \in Callbacks : c # d => Apart(c, d)'
  BY <1>2 DEF Apart
<1> QED
  BY <1>5, <1>6, <1>7

\* Nothing has been started (InitOidc).
LEMMA InitOidcLemma == InitOidc => OidcIInv
<1> SUFFICES ASSUME InitOidc PROVE OidcIInv
  OBVIOUS
<1>1. Nothing \in Row
  BY DEF Nothing, Row
<1>2. /\ NoCallback \in Login /\ NoCallback.step = "idle" /\ NoCallback.tx = 0
      /\ NoCallback.outcome = "none" /\ NoCallback.bound = FALSE /\ NoCallback.provisioned = FALSE
  BY <1>1 DEF NoCallback, Login
<1>3. /\ callback \in [Callbacks -> Login]
      /\ \A c \in Callbacks : callback[c] = NoCallback
  BY <1>2 DEF InitOidc
<1>4. OidcTypeOK
  BY <1>3 DEF InitOidc, OidcTypeOK
<1>5. CookieOK /\ SpentTogether
  BY DEF InitOidc, CookieOK, SpentTogether
<1>6. (\A c \in Callbacks : CallbackOK(c)) /\ (\A c, d \in Callbacks : c # d => Apart(c, d))
  BY <1>2, <1>3 DEF CallbackOK, Apart
<1> QED
  BY <1>4, <1>5, <1>6 DEF OidcIInv

\* Every step keeps the invariant (NextOidc).
LEMMA NextOidcLemma == OidcIInv /\ [NextOidc]_oidcVars => OidcIInv'
<1> SUFFICES ASSUME OidcIInv, [NextOidc]_oidcVars PROVE OidcIInv'
  OBVIOUS
<1>1. CASE \E b \in Browsers : PrepareTransaction(b)
  BY <1>1, PrepareLemma
<1>2. CASE \E c \in Callbacks, b \in Browsers, t \in Txs : ClaimTransaction(c, b, t)
  BY <1>2, ClaimLemma
<1>3. CASE \E c \in Callbacks : \/ CheckBinding(c) \/ VerifyProvider(c) \/ ResolveIdentity(c)
                                \/ Provision(c) \/ EnsurePrincipal(c) \/ TrustedLogin(c)
  BY <1>3, BindingLemma, VerifyLemma, ResolveLemma, ProvisionLemma, PrincipalLemma, TrustedLemma
<1>4. CASE CleanupTransactions(1)
  BY <1>4, CleanupLemma
<1>5. CASE Suspend \/ RevokeInvitation \/ ClockTicks \/ ClockSetBack \/ UNCHANGED oidcVars
  BY <1>5, WorldLemma
<1>6. CASE CrashAndRestart
  BY <1>6, CrashLemma
<1> QED
  BY <1>1, <1>2, <1>3, <1>4, <1>5, <1>6 DEF NextOidc

\* The invariant holds always.
LEMMA OidcIInvLemma == SpecOidc => []OidcIInv
  BY InitOidcLemma, NextOidcLemma, PTL DEF SpecOidc

\* A transaction logs one callback in at most, the one of the browser that started it
\* (claim_google_oidc_authorization_transaction), for any number of callbacks.
THEOREM OneLoginTheorem == SpecOidc => []OneLoginPerTransaction
<1>1. OidcIInv => OneLoginPerTransaction
  BY DEF OidcIInv, OneLoginPerTransaction, CallbackOK, Apart
<1> QED
  BY <1>1, OidcIInvLemma, PTL

\* One invitation makes one account, and nobody is logged in without a principal
\* (_create_invited_user, ensure_account_native_principal).
THEOREM ProvisionedTheorem == SpecOidc => []ProvisionedTogether
<1>1. ASSUME OidcIInv PROVE ProvisionedTogether
  <2> DEFINE P == {c \in Callbacks : callback[c].provisioned}
  <2>1. Cardinality(P) <= 1
    <3>1. CASE P = {}
      BY <3>1, FS_EmptySet
    <3>2. CASE P # {}
      <4>1. PICK c \in P : TRUE
        BY <3>2
      <4>2. P = {c}
        BY <1>1, <4>1 DEF OidcIInv, Apart
      <4> QED
        BY <4>2, FS_Singleton
    <3> QED
      BY <3>1, <3>2
  <2>2. identity.status # "none" <=> invitation = "consumed"
    BY <1>1 DEF OidcIInv, SpentTogether
  <2>3. (\E c \in Callbacks : callback[c].outcome = "issued") => principal /\ identity.status # "none"
    BY <1>1 DEF OidcIInv, CallbackOK
  <2> QED
    BY <2>1, <2>2, <2>3 DEF ProvisionedTogether
<1> QED
  BY <1>1, OidcIInvLemma, PTL

-----------------------------------------------------------------------------
\* Invitations.

File == [secret : Nat, whole : BOOLEAN]
Directory == [stage : File, final : File]
Invited == [status : {"none", "pending", "consumed", "revoked"}, secret : Nat]
InvitationAnswer == {"none", "OWNERSHIP_BUSY", "DATABASE_ATTESTATION_FAILED", "INTERNAL_FAILURE", "CLEANUP_INCOMPLETE",
           "COMMITTED_RETRY_REQUIRED", "REFUSED", "created", "recovered", "replayed", "found",
           "revoked", "INVITATION_NOT_PENDING"}
Command == [step : {"idle", "retained", "open", "create", "stage", "write", "staged", "commit", "publish",
                    "unlink", "flush", "status", "revoke"},
            kind : {"none", "create", "status", "revoke"}, request : Invitees \cup {"none"},
            secret : Nat, staged : BOOLEAN, committing : BOOLEAN, publishing : BOOLEAN,
            preexisting : BOOLEAN, before : Invited, answer : InvitationAnswer]

InvitationTypeOK ==
  /\ invitations \in [Invitees -> Invited]
  /\ journal \in BOOLEAN
  /\ disk \in Directory /\ flushed \in Directory
  /\ command \in [Operators -> Command]
  /\ minted \in Seq(Invitees)
  /\ taken \subseteq DOMAIN minted

\* Every file is of a secret that was generated, and a row has the secret that was
\* generated for it.
SecretsKnown ==
  /\ \A d \in {disk, flushed} : \A file \in {d.stage, d.final} :
       file = NoFile \/ file.secret \in DOMAIN minted
  /\ \A q \in Invitees :
       IF invitations[q].status = "none" THEN invitations[q] = NoRow
       ELSE invitations[q].secret \in DOMAIN minted /\ minted[invitations[q].secret] = q

Credential(s) == [secret |-> s, whole |-> TRUE]
Writing == {"stage", "write", "staged"}
Finishing == {"publish", "unlink", "flush"}

\* What a command at work has around it.
CommandOK(p) ==
  LET c == command[p] IN
  /\ c.step # "idle" => ownership = p
  /\ c.step \notin {"idle", "retained"} => c.request \in Invitees
  /\ c.step \in {"open", "create", "status", "revoke", "commit"} \cup Writing => c.before = RowOf(p)
  /\ c.step \in {"open", "create", "status", "revoke", "stage", "write"} => ~c.staged
  /\ c.step \in {"open", "create", "status", "revoke"} \cup Writing => ~c.committing
  /\ c.step = "open" => c.kind # "none"
  /\ c.step \in {"create"} \cup Writing \cup Finishing => c.kind = "create"
  /\ c.step \in {"status", "revoke"} => c.kind = c.step
  /\ c.step \in {"commit"} \cup Finishing => c.committing
  /\ c.step = "commit" => c.kind \in {"create", "revoke"}
  /\ c.step \in Writing \/ (c.step = "commit" /\ c.kind = "create") =>
       RowOf(p) = NoRow /\ c.secret \in DOMAIN minted /\ minted[c.secret] = c.request
  /\ c.step = "write" => disk.stage.secret = c.secret
  /\ c.step = "staged" \/ (c.step = "commit" /\ c.kind = "create") =>
       disk.stage = Credential(c.secret) /\ flushed.stage = disk.stage
  /\ c.step = "commit" /\ c.kind = "revoke" => RowOf(p).status = "pending"
  /\ c.step \in Finishing => RowOf(p).status # "none" /\ RowOf(p).secret = c.secret
  /\ c.step \in {"publish", "unlink"} => disk.stage = Credential(c.secret)
  /\ c.step = "unlink" => disk.final = disk.stage \/ c.secret \in taken
  /\ c.step \notin {"idle", "retained"} => c.answer \in {"none", "replayed"}
  /\ c.step \notin {"idle", "retained"} /\ c.answer # "none" => c.step = "flush"

\* PublishedIsCommitted, also of what a power loss brings back.
PublishedKept ==
  /\ \A s \in taken : invitations[minted[s]].secret = s
  /\ \A d \in {disk, flushed} : Exists(d.final) => invitations[minted[d.final.secret]].secret = d.final.secret

DataOK == SecretsKnown /\ CommittedIsRecoverable /\ PublishedKept

InvitationIInv == InvitationTypeOK /\ DataOK /\ \A p \in Operators : CommandOK(p)

\* At the start nobody is at work and no credential exists.
LEMMA InitInvitation == InitInvitations => InvitationIInv
<1> SUFFICES ASSUME InitInvitations PROVE InvitationIInv
  OBVIOUS
<1>1. NoCommand \in Command /\ NoCommand.step = "idle" /\ NoRow \in Invited /\ NoRow.status = "none" /\ NoFile \in File
  BY DEF NoCommand, Command, InvitationAnswer, NoRow, Invited, NoFile, File
<1>2. InvitationTypeOK
  <2>1. disk \in Directory /\ flushed \in Directory
    BY <1>1 DEF InitInvitations, Directory
  <2>2. minted \in Seq(Invitees) /\ taken \subseteq DOMAIN minted
    BY DEF InitInvitations
  <2>3. command \in [Operators -> Command] /\ invitations \in [Invitees -> Invited] /\ journal \in BOOLEAN
    BY <1>1 DEF InitInvitations
  <2> QED
    BY <2>1, <2>2, <2>3 DEF InvitationTypeOK
<1>3. SecretsKnown /\ CommittedIsRecoverable
  BY <1>1 DEF InitInvitations, SecretsKnown, CommittedIsRecoverable
<1>4. PublishedKept
  BY DEF InitInvitations, PublishedKept, Exists
<1>5. \A p \in Operators : CommandOK(p)
  BY <1>1 DEF InitInvitations, CommandOK, Writing, Finishing
<1> QED
  BY <1>2, <1>3, <1>4, <1>5 DEF InvitationIInv, DataOK

\* Nobody else is at work while a command is.
LEMMA OthersWait ==
  ASSUME InvitationIInv, NEW p \in Operators, ~At(p, "idle")
  PROVE  ownership = p /\ \A r \in Operators \ {p} : command[r].step = "idle"
BY DEF InvitationIInv, CommandOK, At, Run

\* Whose step is idle has nothing around it.
LEMMA IdleOK ==
  ASSUME NEW r \in Operators, command'[r].step = "idle" \/ (command'[r].step = "retained" /\ ownership' = r)
  PROVE  CommandOK(r)'
BY DEF CommandOK, Writing, Finishing

\* A command that goes on is the only one that has anything around it.
LEMMA Steps ==
  ASSUME InvitationIInv, NEW p \in Operators, ~At(p, "idle"), NEW x \in Command, Becomes(p, x)
  PROVE  /\ command' \in [Operators -> Command] /\ command'[p] = x
         /\ \A r \in Operators \ {p} : CommandOK(r)'
<1>1. command' \in [Operators -> Command] /\ command'[p] = x /\ \A r \in Operators \ {p} : command'[r] = command[r]
  BY DEF Becomes, InvitationIInv, InvitationTypeOK
<1> QED
  BY <1>1, OthersWait, IdleOK

\* A command that ends leaves nobody at work, or only the one that keeps the
\* database because its stage file could not be discarded.
LEMMA EndsKeep ==
  ASSUME InvitationIInv, NEW p \in Operators, ~At(p, "idle"), NEW c \in Command, NEW answer \in InvitationAnswer,
         Ends(p, c, answer)
  PROVE  /\ command' \in [Operators -> Command]
         /\ \A r \in Operators : CommandOK(r)'
         /\ command'[p].step \in {"idle", "retained"}
         /\ command'[p].answer \in {answer, CleanupAnswer(c)}
<1> DEFINE x == [NoCommand EXCEPT !.answer = answer]
           y == [c EXCEPT !.step = "retained", !.answer = CleanupAnswer(c)]
<1>1. x \in Command /\ x.step = "idle" /\ x.answer = answer
  BY DEF Command, NoCommand, NoRow, Invited, InvitationAnswer
<1>2. y \in Command /\ y.step = "retained" /\ y.answer = CleanupAnswer(c)
  <2>1. CleanupAnswer(c) \in InvitationAnswer
    BY DEF CleanupAnswer, InvitationAnswer
  <2> HIDE DEF CleanupAnswer
  <2> QED
    BY <2>1 DEF Command
<1>3. CASE Becomes(p, x)
  BY <1>1, <1>3, Steps, IdleOK
<1>4. CASE Becomes(p, y) /\ UNCHANGED ownership
  <2>1. ownership' = p
    BY <1>4, OthersWait
  <2> HIDE DEF y
  <2> QED
    BY <1>2, <1>4, <2>1, Steps, IdleOK
<1> QED
  BY <1>3, <1>4 DEF Ends

\* A step that writes no row, and after which the disk and its flushed state are each one
\* or the other of what they were, leaves the data sound.
LEMMA SameData ==
  ASSUME DataOK, UNCHANGED <<invitations, minted, taken>>, disk' \in {disk, flushed}, flushed' \in {disk, flushed}
  PROVE  DataOK'
BY DEF DataOK, SecretsKnown, CommittedIsRecoverable, PublishedKept

\* What is known of a command at work.
LEMMA AtWork ==
  ASSUME InvitationIInv, NEW p \in Operators
  PROVE  /\ Run(p) \in Command /\ CommandOK(p)
         /\ Run(p).step \notin {"idle", "retained"} => Run(p).request \in Invitees /\ RowOf(p) \in Invited
BY DEF InvitationIInv, InvitationTypeOK, CommandOK, Run, RowOf

\* A command begins: it has the database to itself, or is refused.
LEMMA BeginStep ==
  ASSUME InvitationIInv, NEW p \in Operators, NEW kind \in {"create", "status", "revoke"}, NEW q \in Invitees,
         Begin(p, kind, q)
  PROVE  InvitationIInv'
<1> DEFINE c == [NoCommand EXCEPT !.kind = kind, !.request = q, !.before = invitations[q]]
           x == [c EXCEPT !.step = "open"]
           y == [c EXCEPT !.answer = "OWNERSHIP_BUSY"]
<1>1. x \in Command /\ x.step = "open" /\ x.request = q /\ x.before = invitations[q] /\ ~x.staged /\ ~x.committing
        /\ x.answer = "none" /\ x.kind = kind
  BY DEF Command, NoCommand, NoRow, Invited, InvitationAnswer, InvitationIInv, InvitationTypeOK
<1>2. y \in Command /\ y.step = "idle"
  BY DEF Command, NoCommand, NoRow, Invited, InvitationAnswer, InvitationIInv, InvitationTypeOK
<1>3. DataOK' /\ UNCHANGED <<invitations, journal, disk, flushed, minted, taken>>
  BY SameData DEF Begin, InvitationIInv
<1>4. CASE ownership = Nobody /\ ownership' = p /\ Becomes(p, x)
  <2> HIDE DEF x
  <2>1. command' \in [Operators -> Command] /\ command'[p] = x /\ \A r \in Operators \ {p} : command'[r] = command[r]
    BY <1>1, <1>4 DEF Becomes, InvitationIInv, InvitationTypeOK
  <2>2. \A r \in Operators : command[r].step = "idle"
    BY <1>4, InvitationAssumption DEF InvitationIInv, CommandOK
  <2>3. \A r \in Operators \ {p} : CommandOK(r)'
    BY <2>1, <2>2, IdleOK
  <2>4. CommandOK(p)'
    BY <1>1, <1>3, <1>4, <2>1 DEF CommandOK, RowOf, Run, Writing, Finishing
  <2> QED
    BY <1>3, <2>1, <2>3, <2>4 DEF InvitationIInv, InvitationTypeOK
<1>5. CASE Becomes(p, y) /\ UNCHANGED ownership
  <2> HIDE DEF y
  <2>1. command' \in [Operators -> Command] /\ command'[p] = y /\ \A r \in Operators \ {p} : command'[r] = command[r]
    BY <1>2, <1>5 DEF Becomes, InvitationIInv, InvitationTypeOK
  <2>2. \A r \in Operators \ {p} : CommandOK(r)'
    BY <1>3, <1>5, <2>1 DEF InvitationIInv, CommandOK, RowOf, Run
  <2>3. CommandOK(p)'
    BY <1>2, <2>1, IdleOK
  <2> QED
    BY <1>3, <2>1, <2>2, <2>3 DEF InvitationIInv, InvitationTypeOK
<1> QED
  BY <1>4, <1>5 DEF Begin

\* A retained database is given up.
LEMMA DrainStep ==
  ASSUME InvitationIInv, NEW p \in Operators, DrainRetained(p)
  PROVE  InvitationIInv'
<1>1. NoCommand \in Command /\ NoCommand.step = "idle"
  BY DEF Command, NoCommand, NoRow, Invited, InvitationAnswer
<1>2. DataOK' /\ UNCHANGED <<invitations, journal, disk, flushed, minted, taken>>
  BY SameData DEF DrainRetained, InvitationIInv
<1>3. command' \in [Operators -> Command] /\ command'[p] = NoCommand /\ \A r \in Operators \ {p} : CommandOK(r)'
  BY <1>1, Steps DEF DrainRetained, At
<1>4. CommandOK(p)'
  BY <1>1, <1>3, IdleOK
<1> QED
  BY <1>2, <1>3, <1>4 DEF InvitationIInv, InvitationTypeOK

\* A command that ends without a change of the data.
LEMMA EndKeeps ==
  ASSUME InvitationIInv, NEW p \in Operators, ~At(p, "idle"), NEW c \in Command, NEW answer \in InvitationAnswer,
         Ends(p, c, answer), UNCHANGED <<invitations, journal, disk, flushed, minted, taken>>
  PROVE  InvitationIInv'
BY EndsKeep, SameData DEF InvitationIInv, InvitationTypeOK

\* A command that goes on without a change of the data.
LEMMA GoKeeps ==
  ASSUME InvitationIInv, NEW p \in Operators, ~At(p, "idle"), NEW x \in Command, Becomes(p, x), CommandOK(p)',
         journal' \in BOOLEAN, UNCHANGED <<invitations, disk, flushed, minted, taken>>
  PROVE  InvitationIInv'
BY Steps, SameData DEF InvitationIInv, InvitationTypeOK

\* Opening the database and reading the row.
LEMMA OpenStep ==
  ASSUME InvitationIInv, NEW p \in Operators, OpenDatabase(p)
  PROVE  InvitationIInv'
<1>1. Run(p) \in Command /\ CommandOK(p) /\ Run(p).step = "open"
  BY AtWork DEF OpenDatabase, At
<1>2. ~At(p, "idle") /\ ownership = p
  BY <1>1, OthersWait DEF At
<1>3. ASSUME NEW s \in {"create", "status", "revoke"}, Goto(p, s), s = Run(p).kind, UNCHANGED ownership
      PROVE  InvitationIInv'
  <2> DEFINE x == [Run(p) EXCEPT !.step = s]
  <2>1. x \in Command /\ x = [Run(p) EXCEPT !.step = s]
    BY <1>1 DEF Command
  <2>2. command'[p] = x
    BY <2>1, <1>2, <1>3, Steps DEF Goto
  <2>3. UNCHANGED <<invitations, disk, flushed, minted, taken>> /\ journal' \in BOOLEAN
    BY DEF OpenDatabase, InvitationIInv, InvitationTypeOK
  <2>4. CommandOK(p)'
    BY <1>1, <1>2, <1>3, <2>2, <2>3 DEF CommandOK, RowOf, Run, Writing, Finishing, Command
  <2> HIDE DEF x
  <2> QED
    BY <1>2, <1>3, <2>1, <2>3, <2>4, GoKeeps DEF Goto
<1>4. CASE Ends(p, Run(p), "DATABASE_ATTESTATION_FAILED") /\ UNCHANGED journal
  BY <1>1, <1>2, <1>4, EndKeeps DEF OpenDatabase, InvitationAnswer
<1>5. Run(p).kind \in {"create", "status", "revoke"}
  BY <1>1 DEF Command, CommandOK, Run
<1> QED
  BY <1>3, <1>4, <1>5 DEF OpenDatabase

\* `status` answers and ends.
LEMMA StatusStep ==
  ASSUME InvitationIInv, NEW p \in Operators, Status(p)
  PROVE  InvitationIInv'
BY AtWork, EndKeeps DEF Status, At, InvitationAnswer

\* `revoke` finds its row pending or ends.
LEMMA RevokeStep ==
  ASSUME InvitationIInv, NEW p \in Operators, Revoke(p)
  PROVE  InvitationIInv'
<1>1. Run(p) \in Command /\ CommandOK(p) /\ Run(p).step = "revoke" /\ ~At(p, "idle") /\ ownership = p
  BY AtWork, OthersWait DEF Revoke, At
<1>2. CASE RowOf(p).status = "pending" /\ Becomes(p, [Run(p) EXCEPT !.step = "commit", !.committing = TRUE])
           /\ UNCHANGED ownership
  <2> DEFINE x == [Run(p) EXCEPT !.step = "commit", !.committing = TRUE]
  <2>1. x \in Command
    BY <1>1 DEF Command
  <2>2. command'[p] = x
    BY <2>1, <1>1, <1>2, Steps
  <2>3. UNCHANGED <<invitations, disk, flushed, minted, taken, ownership, journal>>
    BY <1>2 DEF Revoke
  <2>4. CommandOK(p)'
    BY <1>1, <1>2, <2>2, <2>3 DEF CommandOK, RowOf, Run, Writing, Finishing, Command
  <2>6. Becomes(p, x)
    BY <1>2
  <2> HIDE DEF x
  <2>5. journal' \in BOOLEAN
    BY <2>3 DEF InvitationIInv, InvitationTypeOK
  <2> QED
    BY <1>1, <2>1, <2>3, <2>4, <2>5, <2>6, GoKeeps
<1>3. CASE Ends(p, [Run(p) EXCEPT !.preexisting = TRUE], "replayed")
  <2>1. [Run(p) EXCEPT !.preexisting = TRUE] \in Command
    BY <1>1 DEF Command
  <2> QED
    BY <1>1, <1>3, <2>1, EndKeeps DEF Revoke, InvitationAnswer
<1>4. CASE Ends(p, Run(p), "INVITATION_NOT_PENDING")
  BY <1>1, <1>4, EndKeeps DEF Revoke, InvitationAnswer
<1> QED
  BY <1>2, <1>3, <1>4 DEF Revoke

\* The commit of the journal begins.
LEMMA BeginCommitStep ==
  ASSUME InvitationIInv, NEW p \in Operators, BeginCommit(p)
  PROVE  InvitationIInv'
<1>1. Run(p) \in Command /\ CommandOK(p) /\ Run(p).step = "staged" /\ ~At(p, "idle") /\ ownership = p
  BY AtWork, OthersWait DEF BeginCommit, At
<1> DEFINE x == [Run(p) EXCEPT !.step = "commit", !.committing = TRUE]
<1>2. x \in Command
  BY <1>1 DEF Command
<1>3. command'[p] = x
  BY <1>1, <1>2, Steps DEF BeginCommit
<1>4. UNCHANGED <<invitations, disk, flushed, minted, taken, ownership, journal>>
  BY DEF BeginCommit
<1>5. CommandOK(p)'
  BY <1>1, <1>3, <1>4 DEF CommandOK, RowOf, Run, Writing, Finishing, Command
<1> HIDE DEF x
<1>6. journal' \in BOOLEAN
  BY <1>4 DEF InvitationIInv, InvitationTypeOK
<1>7. Becomes(p, x)
  BY DEF BeginCommit, x
<1> QED
  BY <1>1, <1>2, <1>4, <1>5, <1>6, <1>7, GoKeeps

\* A create that finds its row committed: a replay, a recovery, or a refusal.
LEMMA RecoverStep ==
  ASSUME InvitationIInv, NEW p \in Operators, RecoverCommittedCreate(p)
  PROVE  InvitationIInv'
<1>1. Run(p) \in Command /\ CommandOK(p) /\ Run(p).step = "create" /\ ~At(p, "idle") /\ ownership = p
      /\ RowOf(p) \in Invited /\ Run(p).request \in Invitees
  BY AtWork, OthersWait DEF RecoverCommittedCreate, At
<1>2. PICK file \in {disk.stage, disk.final} :
       /\ Authentic(file, Run(p).request) /\ file.secret = RowOf(p).secret
       /\ LET c == [Run(p) EXCEPT !.preexisting = TRUE, !.committing = TRUE,
                                  !.secret = file.secret]
          IN  \/ /\ file = disk.final /\ file = disk.stage /\ RowOf(p).status = "pending"
                 /\ Becomes(p, [c EXCEPT !.step = "unlink"])
              \/ /\ file = disk.stage /\ ~Exists(disk.final)
                 /\ Becomes(p, [c EXCEPT !.step = "publish"])
              \/ /\ file = disk.final /\ ~Exists(disk.stage)
                 /\ Becomes(p, [c EXCEPT !.step = "flush", !.publishing = TRUE,
                                         !.answer = "replayed"])
  BY DEF RecoverCommittedCreate
<1>3. UNCHANGED <<invitations, disk, flushed, minted, taken, ownership, journal>> /\ journal' \in BOOLEAN
  BY DEF RecoverCommittedCreate, InvitationIInv, InvitationTypeOK
<1>4. RowOf(p).status # "none" /\ RowOf(p) # NoRow /\ file.whole
  BY <1>1, <1>2 DEF RecoverCommittedCreate, InvitationIInv, DataOK, SecretsKnown, RowOf, Authentic
<1>5. file \in File /\ file = Credential(file.secret)
  BY <1>2, <1>4 DEF InvitationIInv, InvitationTypeOK, Directory, File, Credential
<1>6. ASSUME NEW x \in Command, Becomes(p, x), x.step \in Finishing, x.kind = Run(p).kind, x.request = Run(p).request,
             x.secret = file.secret, x.committing, x.answer # "none" => x.step = "flush" /\ x.answer = "replayed",
             x.step = "unlink" => file = disk.final,
             x.step # "flush" => file = disk.stage
      PROVE  InvitationIInv'
  <2>1. command'[p] = x
    BY <1>1, <1>6, Steps
  <2>2. CommandOK(p)'
    BY <1>1, <1>2, <1>3, <1>4, <1>5, <1>6, <2>1 DEF CommandOK, RowOf, Run, Writing, Finishing
  <2> QED
    BY <1>1, <1>3, <1>6, <2>2, GoKeeps
<1> DEFINE c == [Run(p) EXCEPT !.preexisting = TRUE, !.committing = TRUE, !.secret = file.secret]
<1>7. c \in Command /\ c.kind = Run(p).kind /\ c.request = Run(p).request /\ c.secret = file.secret /\ c.committing
      /\ c.answer = "none"
  BY <1>1, <1>5 DEF Command, File, CommandOK, Run
<1>8. ASSUME NEW t \in {"unlink", "publish"}, Becomes(p, [c EXCEPT !.step = t]), file = disk.stage,
             t = "unlink" => file = disk.final
      PROVE  InvitationIInv'
  <2> DEFINE x == [c EXCEPT !.step = t]
  <2>1. x \in Command /\ x.step = t /\ x.kind = Run(p).kind /\ x.request = Run(p).request
        /\ x.secret = file.secret /\ x.committing /\ x.answer = "none"
    BY <1>7 DEF Command
  <2>2. Becomes(p, x)
    BY <1>8
  <2> HIDE DEF x
  <2> QED
    BY <1>6, <1>8, <2>1, <2>2 DEF Finishing
<1>9. ASSUME Becomes(p, [c EXCEPT !.step = "flush", !.publishing = TRUE, !.answer = "replayed"])
      PROVE  InvitationIInv'
  <2> DEFINE x == [c EXCEPT !.step = "flush", !.publishing = TRUE, !.answer = "replayed"]
  <2>1. x \in Command /\ x.step = "flush" /\ x.kind = Run(p).kind /\ x.request = Run(p).request
        /\ x.secret = file.secret /\ x.committing /\ x.answer = "replayed"
    BY <1>7 DEF Command, InvitationAnswer
  <2>2. Becomes(p, x)
    BY <1>9
  <2> HIDE DEF x
  <2> QED
    BY <1>6, <2>1, <2>2 DEF Finishing
<1> QED
  BY <1>2, <1>8, <1>9

\* A directory has the credential of a secret.
Held(d, s) == \E file \in {d.stage, d.final} : file.whole /\ file.secret = s

\* Files move in the directory, and it may be flushed.
LEMMA DiskMoves ==
  ASSUME InvitationIInv, disk' \in Directory, flushed' \in {flushed, disk'}, UNCHANGED <<invitations, minted, taken>>,
         \A file \in {disk'.stage, disk'.final} : file = NoFile \/ file.secret \in DOMAIN minted,
         \A q \in Invitees : invitations[q].status = "pending" /\ invitations[q].secret \notin taken
            /\ Held(disk, invitations[q].secret) => Held(disk', invitations[q].secret),
         Exists(disk'.final) => invitations[minted[disk'.final.secret]].secret = disk'.final.secret
  PROVE  DataOK' /\ flushed' \in Directory
<1> USE DEF InvitationIInv, DataOK
<1>1. SecretsKnown'
  BY DEF SecretsKnown
<1>2. CommittedIsRecoverable'
  <2>1. \A q \in Invitees : invitations[q].status = "pending" /\ invitations[q].secret \notin taken =>
          Held(disk, invitations[q].secret) /\ Held(flushed, invitations[q].secret)
    BY DEF CommittedIsRecoverable, Held
  <2>2. \A q \in Invitees : invitations[q].status = "pending" /\ invitations[q].secret \notin taken =>
          Held(disk', invitations[q].secret) /\ Held(flushed', invitations[q].secret)
    BY <2>1
  <2> QED
    BY <2>2 DEF CommittedIsRecoverable, Held
<1>3. PublishedKept'
  BY DEF PublishedKept
<1>4. flushed' \in Directory
  BY DEF InvitationTypeOK
<1> QED
  BY <1>1, <1>2, <1>3, <1>4

\* A secret whose row is not committed is no row's.
LEMMA NoRowYet ==
  ASSUME InvitationIInv, NEW q \in Invitees, NEW s \in DOMAIN minted, minted[s] = q, invitations[q] = NoRow,
         NEW r \in Invitees, invitations[r].status = "pending"
  PROVE  invitations[r].secret # s
BY DEF InvitationIInv, DataOK, SecretsKnown, NoRow

\* The files of a directory.
LEMMA Files ==
  ASSUME InvitationIInv
  PROVE  /\ disk.stage \in File /\ disk.final \in File /\ flushed.stage \in File /\ flushed.final \in File
         /\ \A x, y \in File : [stage |-> x, final |-> y] \in Directory
         /\ \A x \in File : [disk EXCEPT !.stage = x] = [stage |-> x, final |-> disk.final]
         /\ \A x \in File : [disk EXCEPT !.final = x] = [stage |-> disk.stage, final |-> x]
         /\ NoFile \in File /\ ~NoFile.whole
BY DEF InvitationIInv, InvitationTypeOK, Directory, File, NoFile

\* A file that is written whole is a credential.
LEMMA Whole == \A f \in File : [f EXCEPT !.whole = TRUE] = [secret |-> f.secret, whole |-> TRUE]
<1> TAKE f \in File
<1> DEFINE g == [f EXCEPT !.whole = TRUE]
<1>1. g \in File /\ g.secret = f.secret /\ g.whole = TRUE
  BY DEF File
<1>2. \A x \in File : x = [secret |-> x.secret, whole |-> x.whole]
  BY DEF File
<1> HIDE DEF g
<1> QED
  BY <1>1, <1>2 DEF g

\* The stage file is created, still empty.
LEMMA CreateStageStep ==
  ASSUME InvitationIInv, NEW p \in Operators, CreateStageFile(p)
  PROVE  InvitationIInv'
<1>1. Run(p) \in Command /\ CommandOK(p) /\ Run(p).step = "stage" /\ ~At(p, "idle") /\ ownership = p
      /\ RowOf(p) \in Invited /\ Run(p).request \in Invitees
  BY AtWork, OthersWait DEF CreateStageFile, At
<1> DEFINE x == [Run(p) EXCEPT !.step = "write"]
           torn == [secret |-> Run(p).secret, whole |-> FALSE]
<1>2. x \in Command /\ Becomes(p, x)
  BY <1>1 DEF Command, CreateStageFile, Goto
<1>3. command' \in [Operators -> Command] /\ command'[p] = x /\ \A r \in Operators \ {p} : CommandOK(r)'
  <2> HIDE DEF x
  <2> QED BY <1>1, <1>2, Steps
<1>4. torn \in File
  BY <1>1 DEF File, Command
<1>5. disk' = [stage |-> torn, final |-> disk.final]
  BY <1>4, Files DEF CreateStageFile
<1>6. UNCHANGED <<invitations, journal, flushed, ownership, minted, taken>> /\ ~Exists(disk.stage)
  BY DEF CreateStageFile
<1>7. DataOK' /\ flushed' \in Directory /\ disk' \in Directory
  <2>1. disk' \in Directory
    BY <1>4, <1>5, Files
  <2>2. \A file \in {disk'.stage, disk'.final} : file = NoFile \/ file.secret \in DOMAIN minted
    BY <1>1, <1>5 DEF InvitationIInv, DataOK, SecretsKnown, CommandOK, Run, Writing
  <2>3. \A s : Held(disk, s) => Held(disk', s)
    BY <1>5, <1>6 DEF Held, Exists, NoFile
  <2>4. Exists(disk'.final) => invitations[minted[disk'.final.secret]].secret = disk'.final.secret
    BY <1>5 DEF InvitationIInv, DataOK, PublishedKept
  <2> QED
    BY <1>6, <2>1, <2>2, <2>3, <2>4, DiskMoves
<1>8. CommandOK(p)'
  BY <1>1, <1>3, <1>5, <1>6 DEF CommandOK, RowOf, Run, Writing, Finishing, Command
<1> QED
  BY <1>3, <1>6, <1>7, <1>8 DEF InvitationIInv, InvitationTypeOK

\* The credential is written to the stage file, wholly or in part.
LEMMA WriteStageStep ==
  ASSUME InvitationIInv, NEW p \in Operators, WriteStageFile(p)
  PROVE  InvitationIInv'
<1>1. Run(p) \in Command /\ CommandOK(p) /\ Run(p).step = "write" /\ ~At(p, "idle") /\ ownership = p
      /\ RowOf(p) \in Invited /\ Run(p).request \in Invitees
  BY AtWork, OthersWait DEF WriteStageFile, At
<1> DEFINE x == [Run(p) EXCEPT !.step = "staged", !.staged = TRUE]
<1>2. x \in Command /\ Becomes(p, x)
  BY <1>1 DEF Command, WriteStageFile
<1>3. command' \in [Operators -> Command] /\ command'[p] = x /\ \A r \in Operators \ {p} : CommandOK(r)'
  <2> HIDE DEF x
  <2> QED BY <1>1, <1>2, Steps
<1>4. Credential(Run(p).secret) \in File
  BY <1>1 DEF File, Command, Credential
<1>5. disk' = [stage |-> Credential(Run(p).secret), final |-> disk.final] /\ flushed' = disk'
  <2>1. disk.stage.secret = Run(p).secret
    BY <1>1 DEF CommandOK, Run
  <2>2. [disk EXCEPT !.stage.whole = TRUE] = [disk EXCEPT !.stage = [disk.stage EXCEPT !.whole = TRUE]]
    BY DEF InvitationIInv, InvitationTypeOK, Directory
  <2>3. [disk.stage EXCEPT !.whole = TRUE] = Credential(Run(p).secret)
    BY <2>1, Files, Whole DEF Credential
  <2>4. [disk EXCEPT !.stage = Credential(Run(p).secret)] = [stage |-> Credential(Run(p).secret), final |-> disk.final]
    BY <1>4, Files
  <2> QED
    BY <2>2, <2>3, <2>4 DEF WriteStageFile
<1>6. UNCHANGED <<invitations, journal, ownership, minted, taken>>
  BY DEF WriteStageFile
<1>7. DataOK' /\ flushed' \in Directory /\ disk' \in Directory
  <2>1. disk' \in Directory
    BY <1>4, <1>5, Files
  <2>2. \A file \in {disk'.stage, disk'.final} : file = NoFile \/ file.secret \in DOMAIN minted
    BY <1>1, <1>5 DEF InvitationIInv, DataOK, SecretsKnown, CommandOK, Run, Writing, Credential
  <2>3. disk.stage.secret = Run(p).secret
    BY <1>1 DEF CommandOK, Run
  <2>4. \A s : Held(disk, s) => Held(disk', s)
    BY <1>5, <2>3 DEF Held, Credential
  <2>5. Exists(disk'.final) => invitations[minted[disk'.final.secret]].secret = disk'.final.secret
    BY <1>5 DEF InvitationIInv, DataOK, PublishedKept
  <2> QED
    BY <1>5, <1>6, <2>1, <2>2, <2>4, <2>5, DiskMoves
<1>8. CommandOK(p)'
  BY <1>1, <1>3, <1>5, <1>6 DEF CommandOK, RowOf, Run, Writing, Finishing, Command
<1> QED
  BY <1>3, <1>6, <1>7, <1>8 DEF InvitationIInv, InvitationTypeOK

\* A secret nobody had before is generated and the row inserted, not yet committed.
LEMMA InsertStep ==
  ASSUME InvitationIInv, NEW p \in Operators, InsertRow(p)
  PROVE  InvitationIInv'
<1>1. Run(p) \in Command /\ CommandOK(p) /\ Run(p).step = "create" /\ ~At(p, "idle") /\ ownership = p
      /\ RowOf(p) = NoRow /\ Run(p).request \in Invitees
  BY AtWork, OthersWait DEF InsertRow, At
<1> DEFINE n == Len(minted) + 1
           x == [Run(p) EXCEPT !.step = "stage", !.secret = n]
<1>0. minted \in Seq(Invitees)
  BY DEF InvitationIInv, InvitationTypeOK
<1>2. x \in Command /\ Becomes(p, x)
  <2>1. n \in Nat
    BY <1>0
  <2>2. \A k \in Nat : [Run(p) EXCEPT !.step = "stage", !.secret = k] \in Command
    BY <1>1 DEF Command
  <2>3. Becomes(p, x)
    BY DEF InsertRow
  <2> QED
    BY <2>1, <2>2, <2>3
<1>3. command' \in [Operators -> Command] /\ command'[p] = x /\ \A r \in Operators \ {p} : CommandOK(r)'
  <2> HIDE DEF x
  <2> QED BY <1>1, <1>2, Steps
<1>4. /\ minted' \in Seq(Invitees) /\ n \in DOMAIN minted' /\ minted'[n] = Run(p).request
      /\ \A s \in DOMAIN minted : s \in DOMAIN minted' /\ minted'[s] = minted[s]
  BY <1>0, <1>1 DEF InsertRow
<1>5. UNCHANGED <<invitations, journal, ownership, taken>>
  BY DEF InsertRow
<1>6. /\ disk' \in Directory /\ flushed' \in {flushed, disk'}
      /\ disk'.stage \in {disk.stage, NoFile} /\ disk'.final = disk.final
      /\ ~Exists(disk.final)
      /\ disk' = disk \/ Authentic(disk.stage, Run(p).request)
  <2>1. CASE Exists(disk.stage)
    <3>1. disk' = [stage |-> NoFile, final |-> disk.final] /\ flushed' = disk'
      BY <2>1, Files DEF InsertRow
    <3>2. disk' \in Directory
      BY <3>1, Files
    <3> QED
      BY <2>1, <3>1, <3>2 DEF InsertRow
  <2>2. CASE ~Exists(disk.stage)
    BY <2>2 DEF InsertRow, InvitationIInv, InvitationTypeOK
  <2> QED
    BY <2>1, <2>2
<1>7. SecretsKnown'
  BY <1>4, <1>5, <1>6 DEF InvitationIInv, DataOK, SecretsKnown
<1>8. PublishedKept'
  <2>1. \A s \in taken : s \in DOMAIN minted
    BY DEF InvitationIInv, InvitationTypeOK
  <2>2. Exists(flushed.final) => flushed.final.secret \in DOMAIN minted
    BY DEF InvitationIInv, DataOK, SecretsKnown, Exists
  <2> QED
    BY <1>4, <1>5, <1>6, <2>1, <2>2 DEF InvitationIInv, DataOK, PublishedKept
<1>9. CommittedIsRecoverable'
  <2> SUFFICES ASSUME NEW q \in Invitees, invitations[q].status = "pending", invitations[q].secret \notin taken
               PROVE  Held(disk', invitations[q].secret) /\ Held(flushed', invitations[q].secret)
    BY <1>5 DEF CommittedIsRecoverable, Held
  <2>1. Held(disk, invitations[q].secret) /\ Held(flushed, invitations[q].secret)
    BY DEF InvitationIInv, DataOK, CommittedIsRecoverable, Held
  <2>2. disk.stage.whole /\ disk.stage.secret = invitations[q].secret
    BY <1>6, <2>1, Files DEF Held, Exists
  <2>3. minted[invitations[q].secret] = q /\ q # Run(p).request
    BY <1>1 DEF InvitationIInv, DataOK, SecretsKnown, RowOf, NoRow
  <2>4. disk' = disk
    BY <1>6, <2>2, <2>3 DEF Authentic
  <2> QED
    BY <1>6, <2>1, <2>4
<1>10. CommandOK(p)'
  BY <1>1, <1>3, <1>4, <1>5 DEF CommandOK, RowOf, Run, Writing, Finishing, Command
<1>11. flushed' \in Directory /\ taken' \subseteq DOMAIN minted'
  BY <1>4, <1>5, <1>6 DEF InvitationIInv, InvitationTypeOK
<1> QED
  BY <1>3, <1>4, <1>5, <1>6, <1>7, <1>8, <1>9, <1>10, <1>11 DEF InvitationIInv, InvitationTypeOK, DataOK

\* What a commit makes of the rows.
LEMMA CommitRows ==
  ASSUME InvitationIInv, NEW p \in Operators, At(p, "commit"), Committed(p), UNCHANGED <<minted, taken>>,
         disk' \in {disk, flushed}, flushed' \in {disk, flushed}
  PROVE  /\ DataOK' /\ invitations' \in [Invitees -> Invited]
         /\ Run(p).kind = "revoke" => invitations'[Run(p).request].status = "revoked"
<1> DEFINE q == Run(p).request
           c == Run(p)
<1>1. c \in Command /\ CommandOK(p) /\ c.step = "commit" /\ q \in Invitees /\ RowOf(p) \in Invited
  BY AtWork DEF At
<1>2. CASE c.kind = "create"
  <2> DEFINE row == [status |-> "pending", secret |-> c.secret]
  <2>1. row \in Invited /\ row.status = "pending" /\ row.secret = c.secret
    BY <1>1 DEF Invited, Command
  <2>2. invitations' = [invitations EXCEPT ![q] = row]
    BY <1>2 DEF Committed
  <2>3. invitations' \in [Invitees -> Invited] /\ invitations'[q] = row
        /\ \A r \in Invitees \ {q} : invitations'[r] = invitations[r]
    BY <1>1, <2>1, <2>2 DEF InvitationIInv, InvitationTypeOK
  <2>4. invitations[q] = NoRow /\ c.secret \in DOMAIN minted /\ minted[c.secret] = q
        /\ disk.stage = Credential(c.secret) /\ flushed.stage = disk.stage
    BY <1>1, <1>2 DEF CommandOK, RowOf, Run
  <2>5. SecretsKnown'
    BY <2>1, <2>3, <2>4 DEF InvitationIInv, DataOK, SecretsKnown
  <2>6. CommittedIsRecoverable'
    BY <2>1, <2>3, <2>4 DEF InvitationIInv, DataOK, CommittedIsRecoverable, Credential
  <2>7. PublishedKept'
    <3>1. ASSUME NEW s \in DOMAIN minted, invitations[minted[s]].secret = s PROVE invitations'[minted[s]].secret = s
      <4>1. minted[s] \in Invitees
        BY DEF InvitationIInv, InvitationTypeOK
      <4>2. minted[s] # q
        BY <2>4, <3>1 DEF NoRow, InvitationIInv, InvitationTypeOK
      <4> QED
        BY <2>3, <3>1, <4>1, <4>2
    <3> QED
      BY <3>1 DEF InvitationIInv, InvitationTypeOK, DataOK, PublishedKept, SecretsKnown, Exists
  <2> QED
    BY <1>2, <2>3, <2>5, <2>6, <2>7 DEF DataOK
<1>3. CASE c.kind = "revoke"
  <2> DEFINE row == [invitations[q] EXCEPT !.status = "revoked"]
  <2>1. row \in Invited /\ row.status = "revoked" /\ row.secret = invitations[q].secret
    BY <1>1 DEF Invited, RowOf
  <2>2. invitations' = [invitations EXCEPT ![q] = row]
    BY <1>3 DEF Committed
  <2>3. invitations' \in [Invitees -> Invited] /\ invitations'[q] = row
        /\ \A r \in Invitees \ {q} : invitations'[r] = invitations[r]
    BY <1>1, <2>1, <2>2 DEF InvitationIInv, InvitationTypeOK
  <2>4. invitations[q].status = "pending"
    BY <1>1, <1>3 DEF CommandOK, RowOf, Run
  <2> HIDE DEF row
  <2>5. SecretsKnown'
    BY <2>1, <2>3, <2>4 DEF InvitationIInv, DataOK, SecretsKnown
  <2>6. CommittedIsRecoverable'
    BY <2>1, <2>3, <2>4 DEF InvitationIInv, DataOK, CommittedIsRecoverable
  <2>7. PublishedKept'
    <3>1. \A r \in Invitees : invitations'[r].secret = invitations[r].secret
      BY <2>1, <2>3
    <3>2. \A s \in DOMAIN minted : minted[s] \in Invitees
      BY DEF InvitationIInv, InvitationTypeOK
    <3> QED
      BY <3>1, <3>2 DEF InvitationIInv, InvitationTypeOK, DataOK, PublishedKept, SecretsKnown, Exists
  <2> QED
    BY <1>3, <2>1, <2>3, <2>5, <2>6, <2>7 DEF DataOK
<1> QED
  BY <1>1, <1>2, <1>3 DEF CommandOK, Run

\* The row is committed, or the commit fails.
LEMMA CommitStep ==
  ASSUME InvitationIInv, NEW p \in Operators, Commit(p)
  PROVE  InvitationIInv'
<1> DEFINE c == Run(p)
           q == Run(p).request
<1>1. c \in Command /\ CommandOK(p) /\ c.step = "commit" /\ ~At(p, "idle") /\ ownership = p /\ At(p, "commit")
      /\ q \in Invitees
  BY AtWork, OthersWait DEF Commit, At
<1>2. UNCHANGED <<journal, disk, flushed, minted, taken>>
  BY DEF Commit
<1>3. DataOK' /\ invitations' \in [Invitees -> Invited]
  BY <1>1, <1>2, CommitRows, SameData DEF Commit, InvitationIInv, InvitationTypeOK
<1>4. ASSUME NEW answer \in InvitationAnswer, Ends(p, c, answer) PROVE InvitationIInv'
  BY <1>1, <1>2, <1>3, <1>4, EndsKeep DEF InvitationIInv, InvitationTypeOK
<1>5. ErrorAnswer(c, "INTERNAL_FAILURE") \in InvitationAnswer
  BY DEF ErrorAnswer, InvitationAnswer
<1>6. CASE Committed(p) /\ c.kind = "create" /\ Goto(p, "publish") /\ UNCHANGED ownership
  <2> DEFINE x == [c EXCEPT !.step = "publish"]
  <2>1. x \in Command /\ Becomes(p, x)
    BY <1>1, <1>6 DEF Command, Goto
  <2>2. command' \in [Operators -> Command] /\ command'[p] = x /\ \A r \in Operators \ {p} : CommandOK(r)'
    <3> HIDE DEF x
    <3> QED BY <1>1, <2>1, Steps
  <2>3. invitations'[q] = [status |-> "pending", secret |-> c.secret]
    BY <1>1, <1>6 DEF Committed, InvitationIInv, InvitationTypeOK
  <2>4. CommandOK(p)'
    BY <1>1, <1>2, <1>6, <2>2, <2>3 DEF CommandOK, RowOf, Run, Writing, Finishing, Command
  <2> QED
    BY <1>2, <1>3, <2>2, <2>4 DEF InvitationIInv, InvitationTypeOK
<1> QED
  BY <1>4, <1>5, <1>6 DEF Commit, InvitationAnswer

\* A command that renames or removes files.
LEMMA MoveKeeps ==
  ASSUME InvitationIInv, NEW p \in Operators, ~At(p, "idle"), NEW x \in Command, Becomes(p, x), CommandOK(p)',
         DataOK', disk' \in Directory, flushed' \in Directory, UNCHANGED <<invitations, journal, minted, taken>>
  PROVE  InvitationIInv'
BY Steps DEF InvitationIInv, InvitationTypeOK

\* The stage file is linked under its final name.
LEMMA PublishStep ==
  ASSUME InvitationIInv, NEW p \in Operators, PublishStage(p)
  PROVE  InvitationIInv'
<1> DEFINE c == Run(p)
<1>1. c \in Command /\ CommandOK(p) /\ c.step = "publish" /\ ~At(p, "idle") /\ ownership = p
      /\ RowOf(p) \in Invited /\ c.request \in Invitees
  BY AtWork, OthersWait DEF PublishStage, At
<1>2. UNCHANGED <<invitations, journal, flushed, ownership, minted, taken>> /\ ~Exists(disk.final)
  BY DEF PublishStage
<1>3. disk.stage = Credential(c.secret) /\ RowOf(p).secret = c.secret /\ RowOf(p).status # "none"
  BY <1>1 DEF CommandOK, Finishing, Run, RowOf
<1>4. c.secret \in DOMAIN minted /\ minted[c.secret] = c.request /\ invitations[minted[c.secret]].secret = c.secret
  BY <1>1, <1>3 DEF InvitationIInv, DataOK, SecretsKnown, RowOf
<1>5. disk' = [stage |-> NoFile, final |-> disk.stage] \/ disk' = [stage |-> disk.stage, final |-> disk.stage]
  BY Files DEF PublishStage
<1>6. DataOK' /\ disk' \in Directory /\ flushed' \in Directory
  <2>1. disk' \in Directory
    BY <1>5, Files
  <2>2. \A file \in {disk'.stage, disk'.final} : file = NoFile \/ file.secret \in DOMAIN minted
    BY <1>3, <1>4, <1>5 DEF Credential
  <2>3. \A s : Held(disk, s) => Held(disk', s)
    BY <1>2, <1>5, Files DEF Held, Exists
  <2>4. Exists(disk'.final) => invitations[minted[disk'.final.secret]].secret = disk'.final.secret
    BY <1>3, <1>4, <1>5 DEF Credential
  <2> QED
    BY <1>2, <2>1, <2>2, <2>3, <2>4, DiskMoves
<1>7. ASSUME NEW t \in {"flush", "unlink"}, Becomes(p, [c EXCEPT !.step = t, !.publishing = TRUE]),
             t = "unlink" => disk' = [stage |-> disk.stage, final |-> disk.stage]
      PROVE  InvitationIInv'
  <2> DEFINE x == [c EXCEPT !.step = t, !.publishing = TRUE]
  <2>1. x \in Command
    BY <1>1 DEF Command
  <2>2. command'[p] = x
    <3> HIDE DEF x
    <3>1. Becomes(p, x) BY <1>7 DEF x
    <3> QED BY <1>1, <2>1, <3>1, Steps
  <2>3. CommandOK(p)'
    BY <1>1, <1>2, <1>3, <1>7, <2>2 DEF CommandOK, RowOf, Run, Writing, Finishing, Command
  <2>4. Becomes(p, x)
    BY <1>7
  <2> HIDE DEF x
  <2> QED
    BY <1>1, <1>2, <1>6, <2>1, <2>3, <2>4, MoveKeeps
<1>8. [disk EXCEPT !.final = disk.stage] = [stage |-> disk.stage, final |-> disk.stage]
  BY Files
<1> QED
  BY <1>7, <1>8 DEF PublishStage

\* The stage name is removed once the final name is there.
LEMMA UnlinkStep ==
  ASSUME InvitationIInv, NEW p \in Operators, UnlinkStage(p)
  PROVE  InvitationIInv'
<1> DEFINE c == Run(p)
           x == [c EXCEPT !.step = "flush", !.publishing = TRUE]
<1>1. c \in Command /\ CommandOK(p) /\ c.step = "unlink" /\ ~At(p, "idle") /\ ownership = p
      /\ RowOf(p) \in Invited /\ c.request \in Invitees
  BY AtWork, OthersWait DEF UnlinkStage, At
<1>2. UNCHANGED <<invitations, journal, flushed, ownership, minted, taken>>
  BY DEF UnlinkStage
<1>3. disk.stage = Credential(c.secret) /\ RowOf(p).secret = c.secret /\ RowOf(p).status # "none"
      /\ (disk.final = disk.stage \/ c.secret \in taken)
  BY <1>1 DEF CommandOK, Finishing, Run, RowOf
<1>4. disk' = [stage |-> NoFile, final |-> disk.final]
  BY Files DEF UnlinkStage
<1>5. DataOK' /\ disk' \in Directory /\ flushed' \in Directory
  <2>1. disk' \in Directory
    BY <1>4, Files
  <2>2. \A file \in {disk'.stage, disk'.final} : file = NoFile \/ file.secret \in DOMAIN minted
    BY <1>4 DEF InvitationIInv, DataOK, SecretsKnown
  <2>3. \A s : s \notin taken /\ Held(disk, s) => Held(disk', s)
    BY <1>3, <1>4 DEF Held, Credential
  <2>4. Exists(disk'.final) => invitations[minted[disk'.final.secret]].secret = disk'.final.secret
    BY <1>4 DEF InvitationIInv, DataOK, PublishedKept
  <2> QED
    BY <1>2, <2>1, <2>2, <2>3, <2>4, DiskMoves
<1>6. x \in Command /\ Becomes(p, x)
  BY <1>1 DEF Command, UnlinkStage
<1>7. command'[p] = x
  <2> HIDE DEF x
  <2> QED BY <1>1, <1>6, Steps
<1>8. CommandOK(p)'
  BY <1>1, <1>2, <1>3, <1>7 DEF CommandOK, RowOf, Run, Writing, Finishing, Command
<1> HIDE DEF x
<1> QED
  BY <1>1, <1>2, <1>5, <1>6, <1>8, MoveKeeps

\* The directory is flushed and the create answers.
LEMMA FlushStep ==
  ASSUME InvitationIInv, NEW p \in Operators, FlushFinal(p)
  PROVE  InvitationIInv'
<1>1. Run(p) \in Command /\ ~At(p, "idle")
  BY AtWork DEF FlushFinal, At
<1>2. UNCHANGED <<invitations, journal, disk, minted, taken>> /\ flushed' = disk
  BY DEF FlushFinal
<1>3. DataOK' /\ disk' \in Directory /\ flushed' \in Directory
  BY <1>2 DEF InvitationIInv, InvitationTypeOK, DataOK, SecretsKnown, CommittedIsRecoverable, PublishedKept
<1>4. \A answer \in InvitationAnswer : Ends(p, Run(p), answer) =>
        command' \in [Operators -> Command] /\ \A r \in Operators : CommandOK(r)'
  BY <1>1, EndsKeep
<1>5. command' \in [Operators -> Command] /\ \A r \in Operators : CommandOK(r)'
  BY <1>4 DEF FlushFinal, InvitationAnswer
<1> QED
  BY <1>2, <1>3, <1>5 DEF InvitationIInv, InvitationTypeOK

\* A stage file that is discarded is of a row that was never committed.
LEMMA DiscardKeeps ==
  ASSUME InvitationIInv, NEW p \in Operators, Run(p).step \in {"write", "staged"},
         disk' = [disk EXCEPT !.stage = NoFile], flushed' = disk', UNCHANGED <<invitations, minted, taken>>
  PROVE  DataOK' /\ disk' \in Directory /\ flushed' \in Directory
<1>1. CommandOK(p) /\ Run(p).request \in Invitees
  BY AtWork
<1>2. /\ disk.stage.secret = Run(p).secret /\ RowOf(p) = NoRow
      /\ Run(p).secret \in DOMAIN minted /\ minted[Run(p).secret] = Run(p).request
  BY <1>1 DEF CommandOK, Writing, Run, RowOf, Credential
<1>3. disk' = [stage |-> NoFile, final |-> disk.final]
  BY Files
<1>4. disk' \in Directory
  BY <1>3, Files
<1>5. \A file \in {disk'.stage, disk'.final} : file = NoFile \/ file.secret \in DOMAIN minted
  BY <1>3 DEF InvitationIInv, DataOK, SecretsKnown
<1>6. \A q \in Invitees : invitations[q].status = "pending" => invitations[q].secret # disk.stage.secret
  BY <1>1, <1>2, NoRowYet DEF RowOf
<1>7. \A s : s # disk.stage.secret /\ Held(disk, s) => Held(disk', s)
  BY <1>3 DEF Held
<1>8. Exists(disk'.final) => invitations[minted[disk'.final.secret]].secret = disk'.final.secret
  BY <1>3 DEF InvitationIInv, DataOK, PublishedKept
<1> QED
  BY <1>4, <1>5, <1>6, <1>7, <1>8, DiskMoves

\* What fails: the command, its own stage file, and what it answers.
FailedRun(p) == IF At(p, "create") /\ RowOf(p) # NoRow THEN [Run(p) EXCEPT !.preexisting = TRUE] ELSE Run(p)

\* What a failure does: the stage file of a row that was not committed may go.
LEMMA FailParts ==
  ASSUME InvitationIInv, NEW p \in Operators, Fail(p)
  PROVE  /\ FailedRun(p) \in Command /\ FailedRun(p).committing = Run(p).committing
         /\ FailedRun(p).publishing = Run(p).publishing
         /\ \E why \in {"REFUSED", "CLEANUP_INCOMPLETE"} :
              Ends(p, FailedRun(p), ErrorAnswer(FailedRun(p), why))
         /\ \/ UNCHANGED <<disk, flushed>>
            \/ /\ Run(p).step \in {"write", "staged"}
               /\ disk' = [disk EXCEPT !.stage = NoFile] /\ flushed' = disk'
<1> DEFINE c == FailedRun(p)
           own == At(p, "write") \/ (c.staged /\ DiscardsStage(p))
<1>1. Run(p) \in Command /\ CommandOK(p)
  BY AtWork
<1>2. c \in Command /\ c.staged = Run(p).staged /\ c.committing = Run(p).committing /\ c.publishing = Run(p).publishing
  BY <1>1 DEF FailedRun, Command
<1>3. \/ /\ disk' = IF own THEN [disk EXCEPT !.stage = NoFile] ELSE disk
         /\ flushed' = IF own THEN disk' ELSE flushed
         /\ Ends(p, c, ErrorAnswer(c, "REFUSED"))
      \/ /\ own /\ UNCHANGED <<disk, flushed>>
         /\ Ends(p, c, ErrorAnswer(c, "CLEANUP_INCOMPLETE"))
  BY DEF Fail, FailedRun
<1>4. own => Run(p).step \in {"write", "staged"}
  BY <1>1, <1>2 DEF Fail, CommandOK, DiscardsStage, At, Finishing, Run
<1>5. own \/ ~own
  OBVIOUS
<1>6. \E why \in {"REFUSED", "CLEANUP_INCOMPLETE"} : Ends(p, c, ErrorAnswer(c, why))
  BY <1>3
<1>7. \/ UNCHANGED <<disk, flushed>>
      \/ /\ Run(p).step \in {"write", "staged"}
         /\ disk' = [disk EXCEPT !.stage = NoFile] /\ flushed' = disk'
  BY <1>3, <1>4
<1> QED
  BY <1>2, <1>6, <1>7

\* A failure leaves the data sound.
LEMMA FailStep ==
  ASSUME InvitationIInv, NEW p \in Operators, Fail(p)
  PROVE  InvitationIInv'
<1> DEFINE c == FailedRun(p)
<1>1. ~At(p, "idle")
  BY DEF Fail, At
<1>2. UNCHANGED <<invitations, journal, minted, taken>>
  BY DEF Fail
<1>3. DataOK' /\ disk' \in Directory /\ flushed' \in Directory
  BY <1>2, FailParts, DiscardKeeps, SameData DEF InvitationIInv, InvitationTypeOK
<1>4. PICK why \in {"REFUSED", "CLEANUP_INCOMPLETE"} : Ends(p, c, ErrorAnswer(c, why))
  BY FailParts
<1>5. ErrorAnswer(c, why) \in InvitationAnswer /\ c \in Command
  BY FailParts DEF ErrorAnswer, InvitationAnswer
<1>6. command' \in [Operators -> Command] /\ \A r \in Operators : CommandOK(r)'
  <2> HIDE DEF c
  <2> QED BY <1>1, <1>4, <1>5, EndsKeep
<1> QED
  BY <1>2, <1>3, <1>6 DEF InvitationIInv, InvitationTypeOK

\* The dead leave nothing but a journal, or a committed row.
LEMMA KilledKeeps ==
  ASSUME InvitationIInv, NEW dead, Killed(dead), \A r \in Operators \ dead : command[r].step = "idle",
         disk' \in {disk, flushed}, flushed' \in {disk, flushed}, UNCHANGED <<minted, taken>>
  PROVE  InvitationIInv'
<1>1. NoCommand \in Command /\ NoCommand.step = "idle"
  BY DEF Command, NoCommand, NoRow, Invited, InvitationAnswer
<1>2. command' = [p \in Operators |-> IF p \in dead THEN NoCommand ELSE command[p]]
  BY DEF Killed
<1>3. command' \in [Operators -> Command] /\ \A r \in Operators : command'[r].step = "idle"
  BY <1>1, <1>2 DEF InvitationIInv, InvitationTypeOK
<1>4. \A r \in Operators : CommandOK(r)'
  BY <1>3, IdleOK
<1>5. DataOK' /\ invitations' \in [Invitees -> Invited]
  BY CommitRows, SameData DEF Killed, InvitationIInv, InvitationTypeOK
<1>6. journal' \in BOOLEAN /\ disk' \in Directory /\ flushed' \in Directory
  BY DEF Killed, InvitationIInv, InvitationTypeOK
<1> QED
  BY <1>3, <1>4, <1>5, <1>6 DEF InvitationIInv, InvitationTypeOK

\* The invitee takes the published file.
LEMMA TakeStep ==
  ASSUME InvitationIInv, NEW keep \in BOOLEAN, TakeCredential(keep)
  PROVE  InvitationIInv'
<1>1. UNCHANGED <<invitations, journal, flushed, ownership, command, minted>> /\ Exists(disk.final)
      /\ taken' = taken \cup {disk.final.secret}
  BY DEF TakeCredential
<1>2. disk' = disk \/ disk' = [stage |-> disk.stage, final |-> NoFile]
  BY Files DEF TakeCredential
<1>3. disk' \in Directory
  BY <1>2, Files DEF InvitationIInv, InvitationTypeOK
<1>4. disk.final.secret \in DOMAIN minted
  BY <1>1 DEF InvitationIInv, DataOK, SecretsKnown, Exists
<1>5. SecretsKnown'
  BY <1>1, <1>2 DEF InvitationIInv, DataOK, SecretsKnown
<1>6. \A s : s # disk.final.secret /\ Held(disk, s) => Held(disk', s)
  BY <1>2 DEF Held
<1>7. CommittedIsRecoverable'
  BY <1>1, <1>6 DEF InvitationIInv, DataOK, CommittedIsRecoverable, Held
<1>8. PublishedKept'
  BY <1>1, <1>2 DEF InvitationIInv, DataOK, PublishedKept, Exists
<1>9. \A p \in Operators : CommandOK(p)'
  BY <1>1, <1>2 DEF InvitationIInv, CommandOK, RowOf, Run, Credential
<1> QED
  BY <1>1, <1>3, <1>4, <1>5, <1>7, <1>8, <1>9 DEF InvitationIInv, InvitationTypeOK, DataOK

\* A login spends a pending invitation.
LEMMA ConsumeStep ==
  ASSUME InvitationIInv, NEW q \in Invitees, ConsumeInvitation(q)
  PROVE  InvitationIInv'
<1> DEFINE row == [invitations[q] EXCEPT !.status = "consumed"]
<1>1. row \in Invited /\ row.status = "consumed" /\ row.secret = invitations[q].secret
  BY DEF Invited, InvitationIInv, InvitationTypeOK
<1>2. invitations' = [invitations EXCEPT ![q] = row] /\ invitations[q].status = "pending"
      /\ UNCHANGED <<journal, disk, flushed, ownership, command, minted, taken>>
  BY DEF ConsumeInvitation
<1> HIDE DEF row
<1>3. invitations' \in [Invitees -> Invited] /\ invitations'[q] = row
      /\ \A r \in Invitees \ {q} : invitations'[r] = invitations[r]
  BY <1>1, <1>2 DEF InvitationIInv, InvitationTypeOK
<1>4. SecretsKnown'
  BY <1>1, <1>2, <1>3 DEF InvitationIInv, DataOK, SecretsKnown
<1>5. CommittedIsRecoverable'
  BY <1>1, <1>2, <1>3 DEF InvitationIInv, DataOK, CommittedIsRecoverable
<1>6. PublishedKept'
  <2>1. \A r \in Invitees : invitations'[r].secret = invitations[r].secret
    BY <1>1, <1>3
  <2>2. \A s \in DOMAIN minted : minted[s] \in Invitees
    BY DEF InvitationIInv, InvitationTypeOK
  <2> QED
    BY <1>2, <2>1, <2>2 DEF InvitationIInv, InvitationTypeOK, DataOK, PublishedKept, SecretsKnown, Exists
<1>7. \A p \in Operators : command'[p].step = "idle"
  BY <1>2, InvitationAssumption DEF InvitationIInv, CommandOK, ConsumeInvitation
<1>8. \A p \in Operators : CommandOK(p)'
  BY <1>7, IdleOK
<1> QED
  BY <1>2, <1>3, <1>4, <1>5, <1>6, <1>8 DEF InvitationIInv, InvitationTypeOK, DataOK

\* Serving the application, stopping it, and the invitations expiring.
LEMMA RestStep ==
  ASSUME InvitationIInv, ServeOrStop \/ Expire \/ UNCHANGED invitationVars
  PROVE  InvitationIInv'
<1>1. UNCHANGED <<invitations, disk, flushed, command, minted, taken, journal>>
  BY DEF ServeOrStop, Expire, invitationVars
<1>2. \A p \in Operators : CommandOK(p)'
  <2>1. CASE UNCHANGED ownership
    BY <1>1, <2>1 DEF InvitationIInv, CommandOK, RowOf, Run
  <2>2. CASE ServeOrStop
    <3>1. \A p \in Operators : command'[p].step = "idle"
      BY <1>1, <2>2, InvitationAssumption DEF InvitationIInv, CommandOK, ServeOrStop
    <3> QED
      BY <3>1, IdleOK
  <2> QED
    BY <2>1, <2>2 DEF Expire, invitationVars
<1> QED
  BY <1>1, <1>2, SameData DEF InvitationIInv, InvitationTypeOK

\* Every step keeps the inductive invariant.
LEMMA NextInvitation == InvitationIInv /\ [NextInvitations]_invitationVars => InvitationIInv'
<1> SUFFICES ASSUME InvitationIInv, [NextInvitations]_invitationVars PROVE InvitationIInv'
  OBVIOUS
<1>1. ASSUME NEW p \in Operators, OperatorDies(p) PROVE InvitationIInv'
  <2>1. \A r \in Operators \ {p} : command[r].step = "idle"
    BY <1>1, OthersWait DEF OperatorDies
  <2> QED
    BY <1>1, <2>1, KilledKeeps DEF OperatorDies
<1>2. CASE PowerLoss
  BY <1>2, KilledKeeps DEF PowerLoss
<1>3. ASSUME NEW p \in Operators,
             \/ \E kind \in {"create", "status", "revoke"}, q \in Invitees : Begin(p, kind, q)
             \/ DrainRetained(p) \/ OpenDatabase(p)
             \/ InsertRow(p) \/ CreateStageFile(p) \/ WriteStageFile(p) \/ BeginCommit(p)
             \/ Commit(p) \/ PublishStage(p) \/ UnlinkStage(p) \/ FlushFinal(p)
             \/ RecoverCommittedCreate(p) \/ Fail(p) \/ Status(p) \/ Revoke(p)
      PROVE  InvitationIInv'
  BY <1>3, BeginStep, DrainStep, OpenStep, InsertStep, CreateStageStep, WriteStageStep, BeginCommitStep,
     CommitStep, PublishStep, UnlinkStep, FlushStep, RecoverStep, FailStep, StatusStep, RevokeStep
<1> QED
  BY <1>1, <1>2, <1>3, TakeStep, ConsumeStep, RestStep DEF NextInvitations

\* The inductive invariant holds in every reachable state.
LEMMA InvitationInvariant == SpecInvitations => []InvitationIInv
BY InitInvitation, NextInvitation, PTL DEF SpecInvitations

\* The row and the credential stand or fall together.  A pending invitation never loses
\* its secret: a whole file with it lies in the stage or under the final name, on the disk
\* and after a power loss, or a person took it; and a secret that was published or taken is
\* the one its row was committed with, so none is published for a row that was rolled back
\* (`_perform_create`, `_recover_committed_create`).
THEOREM CredentialTheorem == SpecInvitations => []CredentialMatchesRow
<1>1. InvitationIInv => CredentialMatchesRow
  BY DEF InvitationIInv, DataOK, CredentialMatchesRow, PublishedKept, PublishedIsCommitted
<1> QED
  BY <1>1, InvitationInvariant, PTL

\* A command that ends where something durable may have happened.
LEMMA EndAtBoundary ==
  ASSUME InvitationIInv, NEW p \in Operators, ~At(p, "idle"), NEW c \in Command, NEW answer \in InvitationAnswer,
         Ends(p, c, answer), c.committing, answer = "COMMITTED_RETRY_REQUIRED"
  PROVE  HonestEnd(p)
<1>1. command'[p].answer \in {answer, CleanupAnswer(c)}
  BY EndsKeep
<1>2. CleanupAnswer(c) = "COMMITTED_RETRY_REQUIRED"
  BY DEF CleanupAnswer, DurableMayHaveOccurred
<1> QED
  BY <1>1, <1>2 DEF HonestEnd, Run

\* A create that answers from the flush of the directory has its credential flushed
\* under its final name, or taken.
LEMMA HonestFlush ==
  ASSUME InvitationIInv, NEW p \in Operators, FlushFinal(p)
  PROVE  HonestEnd(p)
<1>1. Run(p) \in Command /\ CommandOK(p) /\ Run(p).step = "flush" /\ ~At(p, "idle") /\ Run(p).request \in Invitees
  BY AtWork DEF FlushFinal, At
<1>2. PICK answer \in {"created", "replayed", "recovered"} : Ends(p, Run(p), answer)
  BY DEF FlushFinal
<1>3. command'[p].answer \in {answer, CleanupAnswer(Run(p))}
  BY <1>1, <1>2, EndsKeep DEF InvitationAnswer
<1>4. CleanupAnswer(Run(p)) = "COMMITTED_RETRY_REQUIRED" /\ Run(p).kind = "create"
  BY <1>1 DEF CleanupAnswer, DurableMayHaveOccurred, CommandOK, Finishing, Run
<1>5. flushed' = disk /\ UNCHANGED invitations /\ Authentic(disk.final, Run(p).request)
  BY DEF FlushFinal
<1>6. RowOf(p).secret = disk.final.secret /\ RowOf(p) # NoRow
  <2>1. Exists(disk.final)
    BY <1>5 DEF Exists, Authentic, NoFile
  <2>2. RowOf(p).status # "none"
    BY <1>1 DEF CommandOK, Finishing, Run, RowOf
  <2> QED
    BY <1>5, <2>1, <2>2 DEF InvitationIInv, DataOK, PublishedKept, RowOf, Authentic, NoRow
<1>7. flushed'.final.secret = invitations'[Run(p).request].secret /\ invitations'[Run(p).request] # NoRow
  BY <1>5, <1>6 DEF RowOf
<1> QED
  BY <1>2, <1>3, <1>4, <1>7 DEF HonestEnd, Run

\* What a commit answers, done or failed, is true of the row.
LEMMA HonestCommit ==
  ASSUME InvitationIInv, NEW p \in Operators, Commit(p)
  PROVE  HonestEnd(p)
<1>1. Run(p) \in Command /\ CommandOK(p) /\ At(p, "commit") /\ ~At(p, "idle") /\ Run(p).committing
  BY AtWork DEF Commit, At, CommandOK, Run
<1>2. CASE Committed(p) /\ Run(p).kind = "create" /\ Goto(p, "publish")
  <2> DEFINE x == [Run(p) EXCEPT !.step = "publish"]
  <2>1. x \in Command /\ x.step = "publish" /\ Becomes(p, x)
    BY <1>1, <1>2 DEF Command, Goto
  <2> HIDE DEF x
  <2>2. command'[p].step = "publish"
    BY <1>1, <2>1, Steps
  <2> QED
    BY <2>2 DEF HonestEnd, Run
<1>3. CASE Committed(p) /\ Run(p).kind # "create" /\ Ends(p, Run(p), "revoked")
  <2>1. Run(p).kind = "revoke" /\ invitations'[Run(p).request].status = "revoked"
    BY <1>1, <1>3, CommitRows DEF CommandOK, Run, Commit, At
  <2>2. command'[p].answer \in {"revoked", CleanupAnswer(Run(p))}
    BY <1>1, <1>3, EndsKeep DEF InvitationAnswer
  <2>3. CleanupAnswer(Run(p)) = "COMMITTED_RETRY_REQUIRED"
    BY <1>1 DEF CleanupAnswer, DurableMayHaveOccurred
  <2> QED
    BY <2>1, <2>2, <2>3 DEF HonestEnd, Run
<1>4. CASE Ends(p, Run(p), ErrorAnswer(Run(p), "INTERNAL_FAILURE"))
  <2>1. ErrorAnswer(Run(p), "INTERNAL_FAILURE") = "COMMITTED_RETRY_REQUIRED"
    BY <1>1 DEF ErrorAnswer, IndeterminateBoundary
  <2> QED
    BY <1>1, <1>4, <2>1, EndAtBoundary DEF InvitationAnswer
<1> QED
  BY <1>2, <1>3, <1>4 DEF Commit

\* What a failure answers is true of the row.
LEMMA HonestFail ==
  ASSUME InvitationIInv, NEW p \in Operators, Fail(p)
  PROVE  HonestEnd(p)
<1> DEFINE c == FailedRun(p)
<1>1. Run(p) \in Command /\ CommandOK(p) /\ ~At(p, "idle")
  BY AtWork DEF Fail, At
<1>2. c \in Command /\ c.committing = Run(p).committing /\ c.publishing = Run(p).publishing /\ UNCHANGED invitations
  BY FailParts DEF Fail
<1>3. PICK why \in {"REFUSED", "CLEANUP_INCOMPLETE"} : Ends(p, c, ErrorAnswer(c, why))
  BY FailParts
<1> HIDE DEF c
<1>4. CASE c.committing
  <2>1. ErrorAnswer(c, why) = "COMMITTED_RETRY_REQUIRED"
    BY <1>4 DEF ErrorAnswer, IndeterminateBoundary
  <2> QED
    BY <1>1, <1>2, <1>3, <1>4, <2>1, EndAtBoundary DEF InvitationAnswer
<1>5. CASE ~c.committing
  <2>1. Run(p).step \in {"open", "create", "stage", "write", "staged", "status", "revoke"}
    BY <1>1, <1>2, <1>5 DEF Fail, CommandOK, Finishing, Run
  <2>2. command'[p].answer \in {ErrorAnswer(c, why), CleanupAnswer(c)}
    BY <1>1, <1>2, <1>3, EndsKeep DEF ErrorAnswer, InvitationAnswer
  <2>3. command'[p].answer \in {"REFUSED", "CLEANUP_INCOMPLETE", "COMMITTED_RETRY_REQUIRED"}
    BY <2>2 DEF ErrorAnswer, CleanupAnswer
  <2>4. Run(p).before = invitations'[Run(p).request]
    BY <1>1, <1>2, <2>1 DEF CommandOK, Writing, Run, RowOf
  <2> QED
    BY <2>3, <2>4 DEF HonestEnd, Run
<1> QED
  BY <1>4, <1>5

\* What opening the database, `status` and `revoke` answer is true of the row.
LEMMA HonestRest ==
  ASSUME InvitationIInv, NEW p \in Operators, OpenDatabase(p) \/ Status(p) \/ Revoke(p)
  PROVE  HonestEnd(p)
<1>1. Run(p) \in Command /\ CommandOK(p) /\ ~At(p, "idle") /\ UNCHANGED invitations
      /\ Run(p).step \in {"open", "status", "revoke"}
  BY AtWork DEF OpenDatabase, Status, Revoke, At
<1>2. Run(p).before = invitations'[Run(p).request] /\ RowOf(p) = invitations'[Run(p).request]
  BY <1>1 DEF CommandOK, Run, RowOf
<1>3. ASSUME NEW c \in Command, NEW answer \in {"DATABASE_ATTESTATION_FAILED", "found", "INVITATION_NOT_PENDING"},
             Ends(p, c, answer)
      PROVE  HonestEnd(p)
  <2>1. command'[p].answer \in {answer, CleanupAnswer(c)}
    BY <1>1, <1>3, EndsKeep DEF InvitationAnswer
  <2>2. command'[p].answer \in {"DATABASE_ATTESTATION_FAILED", "found", "INVITATION_NOT_PENDING",
                                "CLEANUP_INCOMPLETE", "COMMITTED_RETRY_REQUIRED"}
    BY <2>1 DEF CleanupAnswer
  <2> QED
    BY <1>2, <2>2 DEF HonestEnd, Run
<1>4. ASSUME RowOf(p).status = "revoked", Run(p).kind = "revoke",
             Ends(p, [Run(p) EXCEPT !.preexisting = TRUE], "replayed")
      PROVE  HonestEnd(p)
  <2> DEFINE c == [Run(p) EXCEPT !.preexisting = TRUE]
  <2>1. c \in Command /\ c.preexisting
    BY <1>1 DEF Command
  <2>2. Ends(p, c, "replayed")
    BY <1>4
  <2> HIDE DEF c
  <2>3. command'[p].answer \in {"replayed", CleanupAnswer(c)}
    BY <1>1, <2>1, <2>2, EndsKeep DEF InvitationAnswer
  <2>4. CleanupAnswer(c) = "COMMITTED_RETRY_REQUIRED"
    BY <2>1 DEF CleanupAnswer, DurableMayHaveOccurred
  <2> QED
    BY <1>2, <1>4, <2>3, <2>4 DEF HonestEnd, Run
<1>5. ASSUME NEW x \in Command, Becomes(p, x), x.step \notin {"idle", "retained"} PROVE HonestEnd(p)
  <2>1. command'[p].step \notin {"idle", "retained"}
    BY <1>1, <1>5, Steps
  <2> QED
    BY <2>1 DEF HonestEnd, Run
<1>6. ASSUME NEW t \in {"create", "status", "revoke"}, Goto(p, t) PROVE HonestEnd(p)
  <2> DEFINE x == [Run(p) EXCEPT !.step = t]
  <2>1. x \in Command /\ x.step = t /\ Becomes(p, x)
    BY <1>1, <1>6 DEF Command, Goto
  <2> HIDE DEF x
  <2> QED
    BY <1>5, <2>1
<1>7. ASSUME Becomes(p, [Run(p) EXCEPT !.step = "commit", !.committing = TRUE]) PROVE HonestEnd(p)
  <2> DEFINE x == [Run(p) EXCEPT !.step = "commit", !.committing = TRUE]
  <2>1. x \in Command /\ x.step = "commit" /\ Becomes(p, x)
    BY <1>1, <1>7 DEF Command
  <2> HIDE DEF x
  <2> QED
    BY <1>5, <2>1
<1>8. Run(p).step = "open" => Run(p).kind \in {"create", "status", "revoke"}
  BY <1>1 DEF Command, CommandOK, Run
<1>9. CASE OpenDatabase(p)
  BY <1>1, <1>3, <1>6, <1>8, <1>9 DEF OpenDatabase, At
<1>10. CASE Status(p)
  BY <1>1, <1>3, <1>10 DEF Status
<1>11. CASE Revoke(p)
  <2>1. Run(p).kind = "revoke"
    BY <1>1, <1>11 DEF Revoke, At, CommandOK, Run
  <2> QED
    BY <1>1, <1>3, <1>4, <1>7, <1>11, <2>1 DEF Revoke
<1> QED
  BY <1>9, <1>10, <1>11

\* Whoever waits, goes on, or dies ends nothing.
LEMMA NothingEnds ==
  ASSUME NEW p \in Operators,
         \/ command[p].step \in {"idle", "retained"} \/ command'[p] = command[p]
         \/ command'[p].step \notin {"idle", "retained"} \/ command'[p].answer = "none"
  PROVE  HonestEnd(p)
BY DEF HonestEnd, Run

\* A step that leaves the command at work ends nothing.
LEMMA GoesOn ==
  ASSUME InvitationIInv, NEW p \in Operators,
         InsertRow(p) \/ CreateStageFile(p) \/ WriteStageFile(p) \/ BeginCommit(p) \/ PublishStage(p)
           \/ UnlinkStage(p) \/ RecoverCommittedCreate(p)
  PROVE  command'[p].step \notin {"idle", "retained"}
<1>1. Run(p) \in Command /\ command \in [Operators -> Command]
  BY AtWork DEF InvitationIInv, InvitationTypeOK
<1>2. \A x : Becomes(p, x) => command'[p] = x
  BY <1>1 DEF Becomes
<1>3. /\ Becomes(p, [Run(p) EXCEPT !.step = "stage", !.secret = Len(minted) + 1])
         => command'[p].step = "stage"
      /\ Goto(p, "write") => command'[p].step = "write"
      /\ Becomes(p, [Run(p) EXCEPT !.step = "staged", !.staged = TRUE]) => command'[p].step = "staged"
      /\ Becomes(p, [Run(p) EXCEPT !.step = "commit", !.committing = TRUE]) => command'[p].step = "commit"
      /\ Becomes(p, [Run(p) EXCEPT !.step = "flush", !.publishing = TRUE]) => command'[p].step = "flush"
      /\ Becomes(p, [Run(p) EXCEPT !.step = "unlink", !.publishing = TRUE]) => command'[p].step = "unlink"
  BY <1>1, <1>2 DEF Goto, Command
<1>4. CASE InsertRow(p)
  BY <1>3, <1>4 DEF InsertRow
<1>5. CASE CreateStageFile(p)
  BY <1>3, <1>5 DEF CreateStageFile
<1>6. CASE WriteStageFile(p) \/ BeginCommit(p)
  BY <1>3, <1>6 DEF WriteStageFile, BeginCommit
<1>7. CASE PublishStage(p) \/ UnlinkStage(p)
  BY <1>3, <1>7 DEF PublishStage, UnlinkStage
<1>8. CASE RecoverCommittedCreate(p)
  <2> DEFINE c(s) == [Run(p) EXCEPT !.preexisting = TRUE, !.committing = TRUE, !.secret = s]
  <2>1. PICK s \in {disk.stage.secret, disk.final.secret} :
          \/ Becomes(p, [c(s) EXCEPT !.step = "unlink"])
          \/ Becomes(p, [c(s) EXCEPT !.step = "publish"])
          \/ Becomes(p, [c(s) EXCEPT !.step = "flush", !.publishing = TRUE, !.answer = "replayed"])
    BY <1>8 DEF RecoverCommittedCreate
  <2>2. c(s) \in [{"step", "kind", "request", "secret", "staged", "committing", "publishing", "preexisting",
                   "before", "answer"} -> {c(s)[f] : f \in {"step", "kind", "request", "secret", "staged",
                   "committing", "publishing", "preexisting", "before", "answer"}}]
    BY <1>1 DEF Command
  <2> HIDE DEF c
  <2>3. [c(s) EXCEPT !.step = "unlink"].step = "unlink" /\ [c(s) EXCEPT !.step = "publish"].step = "publish"
        /\ [c(s) EXCEPT !.step = "flush", !.publishing = TRUE, !.answer = "replayed"].step = "flush"
    BY <2>2
  <2> QED
    BY <1>2, <2>1, <2>3
<1> QED
  BY <1>4, <1>5, <1>6, <1>7, <1>8

\* Every step that ends a command tells the truth of its row.
LEMMA HonestStep == InvitationIInv /\ [NextInvitations]_invitationVars
                      => [\A p \in Operators : HonestEnd(p)]_invitationVars
<1> SUFFICES ASSUME InvitationIInv, NextInvitations, NEW o \in Operators PROVE HonestEnd(o)
  OBVIOUS
<1>1. ASSUME NEW p \in Operators, p # o, ~At(p, "idle") PROVE HonestEnd(o)
  BY <1>1, OthersWait, NothingEnds
<1>2. ASSUME NEW p \in Operators, NEW kind \in {"create", "status", "revoke"}, NEW q \in Invitees, Begin(p, kind, q)
      PROVE  HonestEnd(o)
  <2>1. command[p].step = "idle" /\ (p # o => command'[o] = command[o])
    BY <1>2 DEF Begin, Becomes, At, Run, InvitationIInv, InvitationTypeOK
  <2> QED
    BY <2>1, NothingEnds
<1>3. ASSUME NEW p \in Operators, OperatorDies(p) PROVE HonestEnd(o)
  <2>1. command'[o] \in {NoCommand, command[o]}
    BY <1>3 DEF OperatorDies, Killed
  <2> QED
    BY <2>1, NothingEnds DEF NoCommand
<1>4. CASE PowerLoss
  <2>1. command'[o] = NoCommand
    BY <1>4 DEF PowerLoss, Killed
  <2> QED
    BY <2>1, NothingEnds DEF NoCommand
<1>5. ASSUME NEW p \in Operators,
             \/ DrainRetained(p) \/ OpenDatabase(p)
             \/ InsertRow(p) \/ CreateStageFile(p) \/ WriteStageFile(p) \/ BeginCommit(p)
             \/ Commit(p) \/ PublishStage(p) \/ UnlinkStage(p) \/ FlushFinal(p)
             \/ RecoverCommittedCreate(p) \/ Fail(p) \/ Status(p) \/ Revoke(p)
      PROVE  HonestEnd(o)
  <2>1. ~At(p, "idle")
    BY <1>5 DEF DrainRetained, OpenDatabase, InsertRow, CreateStageFile, WriteStageFile, BeginCommit, Commit,
       PublishStage, UnlinkStage, FlushFinal, RecoverCommittedCreate, Fail, Status, Revoke, At
  <2>2. DrainRetained(p) => command[p].step = "retained"
    BY DEF DrainRetained, At, Run
  <2>3. HonestEnd(p)
    BY <1>5, <2>2, GoesOn, NothingEnds, HonestFlush, HonestCommit, HonestFail, HonestRest
  <2> QED
    BY <1>1, <2>1, <2>3
<1>6. CASE (\E keep \in BOOLEAN : TakeCredential(keep)) \/ ServeOrStop \/ (\E q \in Invitees : ConsumeInvitation(q)) \/ Expire
  BY <1>6, NothingEnds DEF TakeCredential, ServeOrStop, ConsumeInvitation, Expire
<1> QED
  BY <1>2, <1>3, <1>4, <1>5, <1>6 DEF NextInvitations

\* A command that ends tells the truth of its row: a create that reports success leaves
\* a row whose credential is on disk for good or was taken, a revoke that reports success
\* leaves the row revoked, and an error short of the commit leaves the row as it was
\* (`_execute_owned_operation` and the boundary it reports).
THEOREM HonestTheorem == SpecInvitations => HonestAnswer
BY InvitationInvariant, HonestStep, PTL DEF SpecInvitations, HonestAnswer
=============================================================================
