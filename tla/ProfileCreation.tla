-------------------------- MODULE ProfileCreation --------------------------
(***************************************************************************)
(* From a reviewed draft to the one durable profile of a principal.  The   *)
(* run registry lets one request at a time confirm a draft; the vault      *)
(* issues the artifact the browser gets for it; a later request claims the *)
(* artifact and runs its create command, and a coordinator thread takes    *)
(* back the claims whose request failed.  Registry and vault live in the   *)
(* process: a restart is a new Init with the profile that was there.       *)
(***************************************************************************)
EXTENDS Naturals, FiniteSets

CONSTANTS MaxDrafts, Edits, \* reviewed drafts, and what a reviewer may submit for one
          MaxConfirms, MaxPosts, \* requests to /find-matches and to /account/profile
          MaxArtifacts, MaxClock, \* bounds on artifacts and on the monotonic clock
          RunLimit,        \* MATCH_RUN_REGISTRY_LIMIT
          VaultCapacity,   \* PROFILE_CREATE_ARTIFACT_CAPACITY
          Lifetime,        \* PROFILE_CREATE_ARTIFACT_LIFETIME_SECONDS
          Retain           \* PROFILE_CONFIRMATION_RETENTION_SECONDS

ASSUME CreationAssumption ==
  /\ {MaxDrafts, MaxConfirms, MaxPosts, MaxArtifacts, MaxClock} \subseteq Nat
  /\ {RunLimit, VaultCapacity, Lifetime, Retain} \subseteq Nat \ {0}

VARIABLES clock,       \* the monotonic clock
          drafts,      \* MatchRunRegistry._runs and ._confirmations
          confirm,     \* the requests that confirm a draft
          issued,      \* how many artifacts the vault has issued
          records,     \* ConfirmedProfileArtifactVault._records, by reference
          references,  \* _confirmation_references: the artifact of a draft, or 0
          vaultOpen,   \* the vault and its cleanup thread run
          watched,     \* _ClaimCleanupCoordinator._owners
          post,        \* the requests that use an artifact
          profile      \* durable: the artifact that made the profile, Earlier, or 0

creationVars == <<clock, drafts, confirm, issued, records, references, vaultOpen, watched, post, profile>>
vaultVars == <<issued, records, references, vaultOpen, watched>>

Artifacts == 1..MaxArtifacts
Drafts == 1..MaxDrafts      \* drafts and requests, in the order they arrive
Confirms == 1..MaxConfirms
Posts == 1..MaxPosts
Earlier == MaxArtifacts + 1   \* a profile an earlier process or another path made
NoEdit == "none"
NoOwner == 0
NewDraft == [state |-> "new", owner |-> NoOwner, edit |-> NoEdit, recovery |-> FALSE,
             offer |-> 0, until |-> 0]
NewConfirm == [step |-> "idle", draft |-> 0, edit |-> NoEdit, recovery |-> FALSE,
               mayExist |-> FALSE, offer |-> 0, answer |-> "none"]
NoRecord == [state |-> "none", draft |-> 0, edit |-> NoEdit, deadline |-> 0,
             claim |-> NoOwner, recovery |-> "none"]
NewPost == [step |-> "idle", artifact |-> 0, target |-> "none", answer |-> "none"]

----------------------------------------------------------------------------
(* The registry of drafts *)

Pinned(d) == drafts[d].state \in {"issuing", "maybe_issued", "completed"}
Stored(d) == drafts[d].state \notin {"new", "gone"}
Gone == [NewDraft EXCEPT !.state = "gone"]

\* Every access first drops the outcomes whose time has passed, run and all.
PurgedDrafts ==
  [d \in Drafts |-> IF /\ drafts[d].state \in {"maybe_issued", "completed"}
                       /\ drafts[d].until # 0 /\ clock >= drafts[d].until
                    THEN Gone ELSE drafts[d]]

\* A new run displaces one that nothing pins, or is refused.
CreateRun(d) ==
  /\ drafts[d].state = "new" /\ \A x \in 1..(d - 1) : drafts[x].state # "new"
  /\ LET room == Cardinality({x \in Drafts : Stored(x)}) < RunLimit
         loose == {x \in Drafts : Stored(x) /\ ~Pinned(x)}
         made == [NewDraft EXCEPT !.state = "draft"]
     IN  \/ room /\ drafts' = [drafts EXCEPT ![d] = made]
         \/ ~room /\ \E x \in loose : drafts' = [drafts EXCEPT ![d] = made, ![x] = Gone]
         \/ ~room /\ loose = {} /\ drafts' = [drafts EXCEPT ![d] = Gone]
  /\ UNCHANGED <<clock, confirm, vaultVars, post, profile>>

Turns(c, record) == confirm' = [confirm EXCEPT ![c] = record]
Says(c, why) == Turns(c, [confirm[c] EXCEPT !.step = "done", !.answer = why])

\* acquire_profile_confirmation: the lease on a fresh draft, the lease to look for what a
\* failed attempt may have issued, the completed offer, a wait, or a refusal.
Acquire(c, d, e) ==
  /\ \/ /\ confirm[c].step = "idle" /\ drafts[d].state # "new"
        /\ \A k \in 1..(c - 1) : confirm[k].step # "idle"
     \/ confirm[c].step = "waiting" /\ confirm[c].draft = d /\ confirm[c].edit = e
  /\ LET known == PurgedDrafts[d]
         mine == [NewConfirm EXCEPT !.draft = d, !.edit = e]
         leased(recovery) ==
           /\ drafts' = [PurgedDrafts EXCEPT ![d] =
                [known EXCEPT !.state = "issuing", !.owner = c, !.edit = e, !.recovery = recovery]]
           /\ Turns(c, [mine EXCEPT !.step = "leased", !.recovery = recovery,
                                    !.mayExist = recovery])
     IN  \/ known.state = "draft" /\ leased(FALSE)
         \/ known.state = "maybe_issued" /\ known.edit = e /\ leased(TRUE)
         \/ /\ known.state = "completed" /\ known.edit = e
            /\ Turns(c, [mine EXCEPT !.step = "replaying", !.offer = known.offer])
            /\ drafts' = PurgedDrafts
         \/ /\ known.state = "issuing" /\ known.edit = e /\ confirm[c].step = "idle"
            /\ Turns(c, [mine EXCEPT !.step = "waiting"])
            /\ drafts' = PurgedDrafts
         \/ /\ known.state = "gone" \/ (known.state # "draft" /\ known.edit # e)
            /\ Turns(c, [mine EXCEPT !.step = "done", !.answer = "refused"])
            /\ drafts' = PurgedDrafts
  /\ UNCHANGED <<clock, vaultVars, post, profile>>

WaitTimesOut(c) ==
  /\ confirm[c].step = "waiting" /\ Says(c, "unavailable")
  /\ UNCHANGED <<clock, drafts, vaultVars, post, profile>>

\* A completed offer is given again to a request that is authorized now, if the
\* completion is still the one that was found.
ReplayCompleted(c) ==
  /\ confirm[c].step = "replaying"
  /\ LET d == confirm[c].draft
         still == PurgedDrafts[d].state = "completed" /\ PurgedDrafts[d].offer = confirm[c].offer
     IN  \/ Says(c, "refused") /\ UNCHANGED drafts
         \/ still /\ Says(c, "offered") /\ drafts' = PurgedDrafts
         \/ ~still /\ Says(c, "refused") /\ drafts' = PurgedDrafts
  /\ UNCHANGED <<clock, vaultVars, post, profile>>

\* complete_profile_confirmation
CompletedDraft(c) ==
  LET d == confirm[c].draft
  IN  IF confirm[c].offer # 0 /\ drafts[d].state = "issuing" /\ drafts[d].owner = c
      THEN [drafts[d] EXCEPT !.state = "completed", !.owner = NoOwner, !.recovery = FALSE,
                             !.offer = confirm[c].offer,
                             !.until = IF @ = 0 THEN clock + Retain ELSE @]
      ELSE drafts[d]

Completes(c) ==
  /\ confirm[c].step = "offering"
  /\ drafts' = [drafts EXCEPT ![confirm[c].draft] = CompletedDraft(c)]
  /\ Turns(c, [confirm[c] EXCEPT !.step = "returning"])
  /\ UNCHANGED <<clock, vaultVars, post, profile>>

\* The offer is recorded a second time by the caller: it may have been dropped since.
Returns(c) ==
  /\ confirm[c].step = "returning"
  /\ IF drafts[confirm[c].draft].state = "completed"
     THEN Says(c, "offered") ELSE Turns(c, [confirm[c] EXCEPT !.step = "settling"])
  /\ UNCHANGED <<clock, drafts, vaultVars, post, profile>>

\* Mutant: what may have been issued is taken for absent.
SettleAbsent(c) ==
  /\ confirm[c].step = "settling"
  /\ LET d == confirm[c].draft
     IN  drafts' = [drafts EXCEPT ![d] =
           IF @.state = "issuing" /\ @.owner = c THEN [NewDraft EXCEPT !.state = "draft"] ELSE @]
  /\ Says(c, "unavailable")
  /\ UNCHANGED <<clock, vaultVars, post, profile>>

\* The finally clause: fail_profile_confirmation gives the draft back as it was, or keeps
\* it for a lookup when an artifact may exist.
Settle(c) ==
  /\ confirm[c].step = "settling"
  /\ LET d == confirm[c].draft
         left == CompletedDraft(c)
         failed == IF confirm[c].mayExist
                   THEN [left EXCEPT !.state = "maybe_issued", !.owner = NoOwner, !.recovery = FALSE,
                                     !.until = IF @ = 0 THEN clock + Retain ELSE @]
                   ELSE [NewDraft EXCEPT !.state = "draft"]
     IN  drafts' = [drafts EXCEPT ![d] =
           IF left.state = "issuing" /\ left.owner = c THEN failed ELSE left]
  /\ Says(c, "unavailable")
  /\ UNCHANGED <<clock, vaultVars, post, profile>>

----------------------------------------------------------------------------
(* The vault *)

Live(a) == records[a].state # "none"
Purged(a) == Live(a) /\ records[a].state # "in_flight" /\ clock >= records[a].deadline
PurgedRecords == [a \in Artifacts |-> IF Purged(a) THEN NoRecord ELSE records[a]]

AuthorizeConfirm(c) ==
  /\ confirm[c].step = "leased"
  /\ \E step \in {"authorized", "settling"} : Turns(c, [confirm[c] EXCEPT !.step = step])
  /\ UNCHANGED <<clock, drafts, vaultVars, post, profile>>

\* The references kept beyond the capacity belong to artifacts that are gone.
Remembered(d, a, kept) ==
  LET added == [references EXCEPT ![d] = a]
      known == {x \in Drafts : added[x] # 0}
      idle == {x \in known : \A b \in Artifacts : kept[b].draft # x}
  IN  IF Cardinality(known) <= VaultCapacity THEN {added}
      ELSE {[added EXCEPT ![x] = 0] : x \in idle}

\* The vault issues, inside its lock; afterwards the offer is built, or that fails.
Issue(c) ==
  /\ confirm[c].step = "authorized" /\ ~confirm[c].recovery
  /\ LET d == confirm[c].draft
         kept == PurgedRecords
         full == Cardinality({a \in Artifacts : kept[a].state # "none"}) >= VaultCapacity
         made == [NoRecord EXCEPT !.state = "available", !.draft = d, !.edit = confirm[c].edit,
                                  !.deadline = clock + Lifetime]
         lost(step) == [confirm[c] EXCEPT !.step = step, !.mayExist = TRUE]
         added == [kept EXCEPT ![issued + 1] = made]
     IN  \/ /\ Turns(c, [confirm[c] EXCEPT !.step = "settling"])   \* nothing was prepared
            /\ UNCHANGED <<issued, records, references>>
         \/ /\ vaultOpen /\ (full \/ references[d] # 0)
            /\ records' = kept
            /\ Turns(c, [confirm[c] EXCEPT !.step = "settling"])
            /\ UNCHANGED <<issued, references>>
         \/ /\ vaultOpen /\ ~full /\ references[d] = 0 /\ issued < MaxArtifacts
            /\ issued' = issued + 1
            /\ records' = added
            /\ references' \in Remembered(d, issued + 1, added)
            /\ \/ Turns(c, [lost("offering") EXCEPT !.offer = issued + 1])
               \/ Turns(c, lost("settling"))
  /\ UNCHANGED <<clock, drafts, vaultOpen, watched, post, profile>>

\* recover_confirmation: a lookup, never another issuance.
RecoverConfirmation(c) ==
  /\ confirm[c].step = "authorized" /\ confirm[c].recovery
  /\ LET a == references[confirm[c].draft]
         after(may) == [confirm[c] EXCEPT !.step = "settling", !.mayExist = may]
     IN  \/ ~vaultOpen /\ Turns(c, after(TRUE)) /\ UNCHANGED records
         \/ /\ vaultOpen /\ records' = PurgedRecords
            /\ \/ a = 0 /\ Turns(c, after(FALSE))
               \/ a # 0 /\ Turns(c, after(TRUE))      \* gone, or bound to another authority
               \/ /\ a # 0 /\ PurgedRecords[a].state # "none"
                  /\ Turns(c, [confirm[c] EXCEPT !.step = "offering", !.mayExist = TRUE, !.offer = a])
  /\ UNCHANGED <<clock, drafts, issued, references, vaultOpen, watched, post, profile>>

----------------------------------------------------------------------------
(* The artifact is used *)

Moves(p, record) == post' = [post EXCEPT ![p] = record]
Replies(p, why) == Moves(p, [post[p] EXCEPT !.step = "done", !.answer = why])
Mine(p) == records[post[p].artifact].claim = p

\* The cleanup owner is registered before the record is looked at, with the operation
\* gate held; the record is claimed under the vault's lock.
Claim(p, a) ==
  /\ post[p].step = "idle" /\ \A q \in 1..(p - 1) : post[q].step # "idle"
  /\ \E c \in Confirms : confirm[c].answer = "offered" /\ confirm[c].offer = a
  /\ LET replies(why) == Moves(p, [NewPost EXCEPT !.step = "done", !.artifact = a, !.answer = why])
         state == records[a].state
         expired == Live(a) /\ state # "in_flight" /\ clock >= records[a].deadline
     IN  \/ replies("denied") /\ UNCHANGED <<records, watched>>
         \/ ~vaultOpen /\ replies("gone") /\ UNCHANGED <<records, watched>>
         \/ /\ vaultOpen /\ watched' = watched \union {p}
            /\ \/ replies("gone") /\ ~Live(a) /\ records' = PurgedRecords
               \/ replies("gone") /\ expired /\ records' = [records EXCEPT ![a] = NoRecord]
               \/ /\ Live(a) /\ ~expired
                  /\ \/ state = "in_flight" /\ replies("temporary_contention")
                     \/ state \in {"created", "conflict"} /\ replies(state)
                     \/ state = "retired" /\ replies("gone")
                  /\ UNCHANGED records
               \/ /\ state \in {"available", "reconcile"} /\ ~expired
                  /\ records' = [records EXCEPT ![a].state = "in_flight", ![a].claim = p,
                                                ![a].recovery = state]
                  /\ Moves(p, [NewPost EXCEPT !.step = "claimed", !.artifact = a])
  /\ UNCHANGED <<clock, drafts, confirm, issued, references, vaultOpen, profile>>

Leaves(p, step) == Moves(p, [post[p] EXCEPT !.step = step])

\* A request that raises leaves the gate, wakes the coordinator and waits a bounded time.
Raised(p, target) ==
  Moves(p, [post[p] EXCEPT !.step = "done", !.target = target, !.answer = "error"])

\* repository_invocation_started, once a write connection is there.
MarkReconcile(p) ==
  /\ post[p].step = "claimed"
  /\ \/ Leaves(p, "refused") /\ UNCHANGED records     \* the command does not fit
     \/ Raised(p, "none") /\ UNCHANGED records        \* no connection
     \/ /\ Mine(p)
        /\ records' = [records EXCEPT ![post[p].artifact].recovery = "reconcile"]
        /\ Moves(p, [post[p] EXCEPT !.step = "creating", !.target = "reconcile"])
     \/ ~Mine(p) /\ Raised(p, "reconcile") /\ UNCHANGED records
  /\ UNCHANGED <<clock, drafts, confirm, issued, references, vaultOpen, watched, profile>>

\* Mutant: the idempotency key of an earlier commit is not looked up.
CreateUnreplayed(p) ==
  /\ post[p].step = "creating"
  /\ LET a == post[p].artifact
     IN  \/ profile = 0 /\ profile' = a /\ Leaves(p, "committed")
         \/ profile = 0 /\ profile' \in {a, profile} /\ Leaves(p, "uncertain")
         \/ profile # 0 /\ Leaves(p, "exists") /\ UNCHANGED profile
  /\ UNCHANGED <<clock, drafts, confirm, vaultVars>>

\* create_account_native in one transaction: the idempotency key finds an earlier commit
\* of the same command, and the principal has one profile.
CreateProfile(p) ==
  /\ post[p].step = "creating"
  /\ LET a == post[p].artifact
         other == profile \notin {0, a}
     IN  \/ ~other /\ profile' = a /\ Leaves(p, "committed")
         \/ ~other /\ profile' \in {a, profile} /\ Leaves(p, "uncertain")
         \/ ~other /\ profile' = a /\ Raised(p, "reconcile")  \* the connection failed to close
         \/ other /\ Leaves(p, "exists") /\ UNCHANGED profile
         \/ Leaves(p, "rolled_back") /\ UNCHANGED profile
         \/ Leaves(p, "refused") /\ UNCHANGED profile
  /\ UNCHANGED <<clock, drafts, confirm, vaultVars>>

\* _release_core compares token and owner before it gives the record back.
Released(p, target) ==
  LET a == post[p].artifact
  IN  IF ~Mine(p) THEN records
      ELSE [records EXCEPT ![a].claim = NoOwner, ![a].recovery = "none",
              ![a].state = IF target # "none" THEN target ELSE records[a].recovery]

Terminal(p, state) ==
  [records EXCEPT ![post[p].artifact].state = state, ![post[p].artifact].claim = NoOwner,
                  ![post[p].artifact].recovery = "none"]

Finish(p) ==
  /\ \/ /\ post[p].step = "committed" /\ Mine(p)
        /\ records' = Terminal(p, "created") /\ Replies(p, "created")
     \/ post[p].step = "committed" /\ ~Mine(p) /\ Raised(p, "reconcile") /\ UNCHANGED records
     \/ /\ post[p].step = "exists" /\ Mine(p)
        /\ records' = Terminal(p, "conflict") /\ Replies(p, "conflict")
     \/ post[p].step = "exists" /\ ~Mine(p) /\ Replies(p, "unavailable") /\ UNCHANGED records
     \/ /\ post[p].step = "rolled_back" /\ records' = Released(p, "available")
        /\ \E why \in {"temporary_contention", "unavailable"} : Replies(p, why)
     \/ /\ post[p].step = "refused" /\ records' = Released(p, "retired")
        /\ Replies(p, "unavailable")
     \/ /\ post[p].step = "uncertain" /\ records' = Released(p, post[p].target)
        /\ Replies(p, "unavailable")
  /\ UNCHANGED <<clock, drafts, confirm, issued, references, vaultOpen, watched, profile>>

\* The coordinator thread takes an owner whose gate is free.
CleanupOwner(p) ==
  /\ p \in watched /\ post[p].step = "done"
  /\ records' = Released(p, post[p].target)
  /\ watched' = watched \ {p}
  /\ UNCHANGED <<clock, drafts, confirm, issued, references, vaultOpen, post, profile>>

\* close: the records are dropped under the claims in flight.
CloseVault ==
  /\ vaultOpen /\ vaultOpen' = FALSE
  /\ records' = [a \in Artifacts |-> NoRecord]
  /\ references' = [d \in Drafts |-> 0]
  /\ watched' = {}
  /\ UNCHANGED <<clock, drafts, confirm, issued, post, profile>>

TimePasses ==
  /\ clock < MaxClock /\ clock' = clock + 1
  /\ UNCHANGED <<drafts, confirm, vaultVars, post, profile>>

----------------------------------------------------------------------------
InitCreation ==
  /\ clock = 0
  /\ drafts = [d \in Drafts |-> NewDraft]
  /\ confirm = [c \in Confirms |-> NewConfirm]
  /\ issued = 0 /\ records = [a \in Artifacts |-> NoRecord]
  /\ references = [d \in Drafts |-> 0]
  /\ vaultOpen = TRUE /\ watched = {}
  /\ post = [p \in Posts |-> NewPost]
  /\ profile \in {0, Earlier}

ConfirmStep(c) ==
  \/ \E d \in Drafts, e \in Edits : confirm[c].step = "waiting" /\ Acquire(c, d, e)
  \/ WaitTimesOut(c) \/ ReplayCompleted(c) \/ AuthorizeConfirm(c) \/ Issue(c)
  \/ RecoverConfirmation(c) \/ Completes(c) \/ Returns(c) \/ Settle(c)
PostStep(p) == MarkReconcile(p) \/ CreateProfile(p) \/ Finish(p)

NextCreation ==
  \/ \E d \in Drafts : CreateRun(d)
  \/ \E c \in Confirms, d \in Drafts, e \in Edits : confirm[c].step = "idle" /\ Acquire(c, d, e)
  \/ \E c \in Confirms : ConfirmStep(c)
  \/ \E p \in Posts, a \in Artifacts : Claim(p, a)
  \/ \E p \in Posts : PostStep(p) \/ CleanupOwner(p)
  \/ CloseVault \/ TimePasses

SpecCreation == InitCreation /\ [][NextCreation]_creationVars

----------------------------------------------------------------------------
\* A draft that can be issued again has no artifact left in the vault, a draft has at
\* most one, and whoever is offered one for a draft is offered the same, made from the
\* edits it sent (fail_profile_confirmation, recover_confirmation; "never another
\* issuance" in docs/persistent_profile_services.md).
OneOfferPerDraft ==
  /\ \A a \in Artifacts : Live(a) =>
       /\ drafts[records[a].draft].state # "draft"
       /\ \A b \in Artifacts : Live(b) /\ records[a].draft = records[b].draft => a = b
  /\ \A c, k \in Confirms : confirm[c].answer = "offered" =>
       LET a == confirm[c].offer
       IN  /\ Live(a) => records[a].draft = confirm[c].draft /\ records[a].edit = confirm[c].edit
           /\ confirm[k].answer = "offered" =>
                (confirm[k].draft = confirm[c].draft <=> confirm[k].offer = a)

\* While the vault is open, the request that runs an artifact's command holds its record:
\* no cleanup of an earlier claim and no purge takes it (_release_core, _purge_expired_locked).
ClaimIsKept ==
  \A p \in Posts :
    vaultOpen /\ post[p].step \notin {"idle", "done"} =>
      records[post[p].artifact].state = "in_flight" /\ Mine(p)

\* Whoever is told that the profile was created or that another one exists is told the
\* truth, also after commits whose outcome was uncertain (_consume_claim, _create).
ToldTheTruth ==
  /\ \A p \in Posts :
       /\ post[p].answer = "created" => profile = post[p].artifact
       /\ post[p].answer = "conflict" => profile \notin {0, post[p].artifact}
  /\ \A a \in Artifacts : /\ records[a].state = "created" => profile = a
                          /\ records[a].state = "conflict" => profile \notin {0, a}

\* No lease on a draft and no claim on an artifact outlives the request that took it: a
\* draft being issued has its owner at work, and an artifact in flight its claimant, or the
\* coordinator still watches over the claim (fail_profile_confirmation, register, _run).
NoHoldIsAbandoned ==
  /\ \A d \in Drafts : drafts[d].state = "issuing" =>
       LET c == drafts[d].owner
       IN  c \in Confirms /\ confirm[c].draft = d /\ confirm[c].step \notin {"idle", "waiting", "done"}
  /\ \A a \in Artifacts : records[a].state = "in_flight" =>
       LET p == records[a].claim
       IN  p \in watched /\ post[p].artifact = a

\* What is held is held by the request at work on it, as long as it is and no longer.
HoldsMatchRequests == ClaimIsKept /\ NoHoldIsAbandoned

\* A reviewed draft leads to one artifact, whatever failed on the way, and who holds the
\* draft or the artifact is at work on it.
CreationSound == OneOfferPerDraft /\ HoldsMatchRequests
=============================================================================
