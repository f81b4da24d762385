# WahoJobs: a verification project

TLA+ models of the parts of WahoJobs that keep state other parts rely on, the
TLC runs that check them on small instances, and theorems about them that the
TLA+ proof system checks for every instance. Paths are relative to the
repository's root (`src/` in `PROJECT.json`). `PROJECT.json` maps every
definition to the lines it models and lists the runs, the hazards, the mutants
(one plausible bug per property that the property detects) and the theorems.

1. [Inventory](#1-inventory)
2. [Plan](#2-plan)
3. [Publication protocol v2](#3-publication-protocol-v2)
4. [Crawl lifecycle](#4-crawl-lifecycle)
5. [Pipeline state and actions](#5-pipeline-state-and-actions)
6. [Accounts, sessions and logins](#6-accounts-sessions-and-logins)
7. [Invitations and profiles](#7-invitations-and-profiles)
8. [Programs that die](#8-programs-that-die)
9. [Runs and bounds](#9-runs-and-bounds)
10. [Proofs](#10-proofs)
11. [Known disagreements](#11-known-disagreements)
12. [What is not modelled](#12-what-is-not-modelled)

## 1. Inventory

WahoJobs collects remote job postings, tracks their life in a SQLite database,
lets a signed-in user act on them, and publishes code, catalogues and policies
to several hosts. It is a set of Python programs around one database per
product environment plus a publication coordinator with a database of its own.

| Component | State it keeps | Operations | Hard behaviour | What makes it correct |
|---|---|---|---|---|
| **Publication coordinator** `scripts/publication.py` | `operations`, `events`, `completions`, `accepted_effects` in `protocol.sqlite`; one lock per operation; the legacy registry file | claim, drive a step (observe, intend, apply, check, return, clean up, complete), enter and leave the bridge, register effects | crash between any two steps, timed-out and lost worker answers, drivers in competition, a legacy publisher beside it | conflicting targets are one operation's at a time; no effect is requested twice; a recorded end rests on what is there and is final; the bridge is given back |
| **Publication worker** `scripts/publication_worker.py` | `apply-intent.json`, `recover-intent.json`, `state.json`; the production targets | observe, apply, check, recover, cleanup for files, SQLite, modules, Vercel | several targets replaced one by one; hooks that fail; a worker that outlives its driver | a return never overwrites a successor; the observation tells what the targets hold |
| **Routine publisher** `scripts/routine_release.py` | its journal of intents and ends per run; a row of the registry; `.writer.lock` | publish, execute, promote, look, smoke, return, finish, stop | the provider answers late or never and moves aliases one by one; the publisher dies between two writes and the run is resumed | a promotion that may still change production has its row; a free resource serves what is recorded; never beside a row of the coordinator |
| **Publication satellites** `scripts/publication_*.py` | transition ledger, queue, build records | build, read back, move between modes, queue | external I/O | queue order, one transition at a time |
| **Crawl lifecycle** `wahojobs/crawler/pipeline.py`, `tracking/service.py`, `canonical/service.py` | `jobs`, `job_events`, `crawl_runs`, `canonical_opportunities` | run_crawl: start, fetch, assess, track or drift, fail | overlapping runs of one company, stale baselines, partial answers, failures after the `running` row | the event history tells the rows; counts add up; nothing is closed by an answer without authority |
| **Greenhouse pilot** `crawler/greenhouse_pilot.py`, `greenhouse_observations.py` | the observation ledger: bundles, receipts, a lock | count drop policy, record an invocation, verify the history, readiness | recorders that overlap or die between link and unlink, a clock set back | an anomalous result closes nothing; what is published whole is read whole; readiness rests on observations made apart |
| **Providers, registry** `crawler/providers`, `source_registry.py` | none | parse external pages | changing contracts | an incomplete answer is told as such |
| **Pipeline state service** `wahojobs/pipeline_state.py` | `user_pipeline_state`, `user_pipeline_transitions` | initialise, change workflow, resolve, visibility, reminder, undo, correct, replay | retries under a key, optimistic versions, undo of anything in any order | one chain of transitions; a key has one effect; the funnel exists |
| **Pipeline actions** `wahojobs/pipeline_actions.py` | old columns of `user_pipeline_items`, `applicant_status_updates` | ten product actions, creation, replay, migration, reconcile | several rows in one transaction, checks after the writes, a database-wide readiness gate | what an action writes always reconciles |
| **Browser sessions** `browser_session_lifecycle.py`, `browser_session_authentication.py` | session rows, rotation edges, delivery and revocation | create, rotate, revoke, prepare delivery, acknowledge, compensate, authenticate | rotation against use, stale clock readings, delivery that fails after commit | one live session per login; a refused token is refused for ever; an undelivered session is dead |
| **Google OIDC transactions, gateway** `google_oidc_authorization_transaction_*.py`, `google_oidc_gateway.py` | one row per login attempt, 10-minute life; the cached provider keys | prepare, claim, verify, provision, clean up; fetch and share the keys | two callbacks for one attempt, expiry at the claim, clock and key changes; threads that wait for another's fetch | one login per attempt, in the browser that began it; one fetch at a time and every waiter answered |
| **Trusted login completion** `trusted_login_completion.py` | accounts, identities, sessions in one transaction | complete a verified login | compensation after a failed delivery | a login gives one session to one account, or none |
| **Durable login runtime** `durable_google_login_*.py`, `scripts/durable_google_login_app.py` | the server's threads, sockets, readiness; the cleanup coordinator | start, admit, serve, stop, clean up in order of dependency | a signal, a lost ownership or a failing cleanup at any point | the database outlives the requests; a clean exit left nothing behind |
| **WorkOS AuthKit login** `workos_authkit*.py` | process-local flows, bounded tables | begin, callback, expire | table full, expiry against callback | a flow is used once |
| **Accounts, ownership** `accounts.py`, `ownership*.py` | accounts, identities, owner rows | create, link, bind old users, reconcile | two links of one identity | an identity has one account |
| **Private beta invitations** `private_beta_invitation_operations.py` | invitation rows; credential files | create, recover, status, revoke | death and power loss between stage file, commit, rename and flush | a pending row has its credential; a published credential has its row; the answer says what was done |
| **Persistent profiles** `persistent_profile*.py` and the registry of `local_product_app.py` | reviewed drafts, artifacts in a vault, the profile and its revisions | confirm a draft, issue, claim, create; review, correct, close | a retry of what may have been issued, uncertain commits, expiry, close and restart | one artifact per draft; what is told is so; corrections form one chain |
| **Database lifetime ownership** `database_lifetime_ownership.py` | a lock file, a registry per process | acquire, require, release, clean up | forks, deaths, replaced files, closings that fail | one authority per database; no lock is forgotten |
| **Agent operations** `agent_operations.py` | none (dormant, pure) | task lifecycle, approvals, replay, audit chain | replays of decisions | approval before action; the chain detects gaps |
| **Public job identity, release** `public_job*.py`, migration 009 | permanent identities, paths, redirects, bindings; exports | allocate, alias, merge, retire, restore, rebind, export, import | merges of merged identities, databases built from older exports | redirects end in one hop; a published link is for ever; a copy leads home |
| **Enrichment, matching, normaliser, reports** | none of their own | pure functions over text | – | – |
| **Local product application, gateways** `scripts/local_product_app.py`, `deploy/` | none | route, refuse, mutate through pipeline actions | – | – |

How they interact. The crawl writes the inventory that reports, matching and
the product read. A browser mutation goes through the local product
application, which asks that the whole pipeline database reconcile
(`require_browser_pipeline_ready`) and then calls `perform_pipeline_action`,
which uses the state service inside one transaction. A login goes from the
gateway to an OIDC transaction, to the trusted completion, to a browser
session, all inside the server whose coordinator closes them in order and gives
the database's lifetime ownership back last; an operator's invitation command
holds that same ownership, so the two exclude each other. The publication coordinator calls workers as subprocesses and shares
`.writer.lock` and the registry file with the routine publisher; it shares
nothing with the product database.

The hazards, each at the line where it bites, are in `PROJECT.json`.

## 2. Plan

Done, in this order: the publication protocol (what goes wrong there is in
production, and no test kills a host between two steps), the crawl lifecycle,
the pipeline state and its actions; then accounts, sessions and the delivery of
a login, the provider's keys, the login server, OIDC transactions, invitations,
profiles and their corrections, the lifetime ownership of a database, the
routine publisher, the observation ledger and the identities of public jobs.

What would come next, most important first.

1. The closed schema of the OIDC transactions
   (`scripts/google_oidc_authorization_transactions_migration.py`): its
   convergence when it dies between two statements and is run again.
2. `PublicationTransition` and the queue, joined to `Publication` and
   `RoutineRelease` by the registry they share: what the mode allows is all a
   publisher does. `Publication` has its own view of the legacy publisher and
   `RoutineRelease` its own view of the rival; both abstract the same file.
3. The closing of the WorkOS staging server, and the Mindrift cooldown of
   `run_daily`.
4. `AgentOperations`: pure transition, approval and replay functions, against
   a reference definition over bounded inputs.

Conventions: parameters are CONSTANTS with named assumptions, one action is one
transaction or one call boundary of the code, invariants are conjunctions of
named parts, a promise worth stating is a module of its own that the detailed
one implements through INSTANCE.

**Parts of one run.** `MCDurableLogin`, `MCInvitedAccess` and `MCCrashRecovery`
put several modules under one specification. Where modules share nothing in the
code but the program they are in, a behaviour is about the one that `part`
names and the others stay as they start: the run checks each by itself, once,
instead of the product of all.

## 3. Publication protocol v2

Modules: `FilesWorker` (the files worker and the targets), `Publication` (the
coordinator, the drivers, the legacy publisher, crashes; EXTENDS
`FilesWorker`), `PublicationPromise` (the abstract promise),
`PublicationRefinement` (the mapping), `MCPublication` and
`MCPublicationBridge` (the instances).

**State.** `state`, `events`, `receipt`, `bound` are an operation's row, the
kinds of its events that a guard reads, and its last terminal receipt with the
worker the receipt binds. `completions` and `acceptedEffects` are the reuse
indexes. `registry` is the legacy registry, `writer` a holder of `.writer.lock`
that keeps it longer than one transaction. `pc`, `entered`, `seen`, `prior`
are the locals of `drive`; the per-operation driver lock makes it one driver
per operation. `content` is what each target holds; `applyOnce`,
`recoverOnce`, `stateJson` are the worker's files; `wpc`, `left` are the worker
process, and `compared` the target a return has compared and is about to put
back. `overtaken` is history: the targets an outsider wrote after a worker had
compared them and before it wrote them.

**Actions.** `Claim` is `Coordinator.claim` called by `execute` with its
dependency rule. From there one action is one durable step of `drive`:
`LegacyEnter`, `LookUpPrior`, `ObserveFirst`, `ApplyIntent`, `DispatchApply`,
`ApplyResponse` or `ApplyResponseMissing`, `Reobserve`, `Judge`, `CheckAccepted`
or `CheckNotAccepted`, `ObserveOwn`, `RecoverIntent`, `DispatchRecover`,
`RecoverResponse` or `RecoverResponseMissing`, `Settle`, `Cleanup`, `Complete`,
`LegacyExit`; `TerminalObserve` and `TerminalExit` are the branch of an
operation that has ended, `CompleteReuse` the branch that carries another's
effect; `Fails`, `Abort`, `AbortExit` are the `try` and its handler. The worker
moves between its own durable points. An apply compares all targets and then
replaces them one by one (`ApplyStopped`, `ApplyReplace`); a return compares
each target and then, once the pending file is written and flushed, replaces or
unlinks it without another look (`RecoverCompare`, `RecoverReverse`:
`publication_worker.py:232`, `146`, `167`). Whatever is written in between is
lost, and the model has both windows. `DriverCrash` leaves the worker running
(`OrphanExit` ends it), `HostCrash` stops every process, `...Missing` and
`CheckNotAccepted` kill a worker at any point (timeout), `Intrude` is a writer outside
the protocol.

**Abstractions.** A plan, its digests and artifacts are constants. A check that
`drive` makes after an observation of an ended operation is part of the
observation. The SQLite, module and Vercel workers
(`publication_worker.py:240-396`) are workers of `uncertain` operations, whose
observation may be `unknown`. The payload's order of targets is any order.

By design an operation stays open for ever when its driver dies between the
durable apply intent and the dispatch, or after the recover intent: the code
never replays. The promise and the liveness property leave room for it.

**Fairness** (`FairSpec`, used by `BridgeReleased` alone). An unfinished step is
driven again, so each retried driver step is strongly fair; the lock a legacy
publication holds is released (weak fairness of `LegacyUnlock`), and none begins
once the transition is active (`publish` refuses with
`legacy_publisher_retired`). Nothing is assumed of workers, of their answers or
of crashes.

**Properties.** `ExclusiveReservation`, `TargetsOwnedWhileOpen`,
`NeverReplayed`, `BridgeHold`, `CompletionRecordSound` (what a completion and
the index of reuse rest on is so, however often an effect was carried or put
back in between), `GatesObserved` (no step before what it needs, none accepted
before its person), `SuccessorSpared` (what an outsider wrote is overwritten
only by a worker that had compared that very target before), `BridgeReleased`,
and the refinement `OneAtATime`: in bridge mode production effects are taken one
at a time, each at most once, and each end is final. Where a property has an
exception (`Retryable`), the exception is a behaviour of the code; section 11
says which and the run without it shows it.

## 4. Crawl lifecycle

Modules: `CrawlLifecycle`, `MCCrawl`.

**State.** `known`, `active`, `link` are the rows of `jobs`; `variants` the
rollups of `canonical_opportunities`; `lastEvent` the last `job_events` row;
`ledger` the sum of the counts in the finished runs; `accepted`, `recent`,
`fresh` what later runs read of the successes (`earlier`: who started before the
one whose count is accepted; `outrun`: history, below); `pc`, `fetched`, `began` the
processes; `board` and `title` the provider's site.

**Actions.** `Start` commits the `running` row; `FetchSnapshot` and
`FetchOther` are the provider's answer (whole, partial, sample, drifted, or,
with `Truncates`, incomplete and called complete); `Assess` is the Greenhouse
count drop policy, with a count read outside the transaction; `Track` is
`track_crawl_result` with the Mindrift guard, the events, the canonical sync,
the rollups and `finish_crawl_run`, one transaction; `Drift` finishes a run
whose page contract changed; `Fail` is an exception (rolled back) or a crash
(the row stays `running`; nothing reads it again). `Edit` changes one posting of the site and
`Age` passes the 72 hours after which a baseline is not fresh.

**Abstractions.** SQLite serialises two transactions or one of them fails.
Time is `fresh` and the order of starts. `last_accepted_snapshot_count` reads the
success with the latest `finished_at`, in whole seconds, and among equals the one
with the greater id, that is the later start (`pipeline.py:155-169`); so of two
runs that overlap and finish in one second the one that committed first may stay
the accepted one. `Accept` has both outcomes, and `outrun` notes that the second
happened. That the clock is not set back is assumed.
Percentages and minimums are parameters so that two or three postings reach
them. `[SIMULATION]` rows and the 12-hour Mindrift cooldown of `run_daily` are
left out.

**Fairness** (`Converges` alone). `run_daily` starts every source again and
again (WF `Start`), a run ends (WF `Fail`), a fetch tried for ever answers some
time and an authorised result tried for ever commits (SF), a baseline nobody
renews grows old (WF `Age`). `Converges` is checked with `Truncates` false: a
provider that lies for ever keeps the inventory wrong for ever. It leaves out
the empty board, which Mindrift never reports as validated.

## 5. Pipeline state and actions

Modules: `PipelineLedger` (the state service), `RequestOnce` (what a key
promises), `PipelineRequests` (the mapping), `PipelineActions` (the product
actions, EXTENDS `PipelineLedger`), `MCPipeline`, `MCPipelineActions`.

**State.** `projection` and `history` are `user_pipeline_state` and
`user_pipeline_transitions` of an item; a transition is named by its place,
which is its `state_version_after`. `answer` is what a key's caller last heard.
`mirror` is the old columns of `user_pipeline_items`, `applicants` the rows of
`applicant_status_updates` under their `update_id`, `day` the date, `fault`
the call that failed the checks made after its own writes.

**Actions.** A service call is one IMMEDIATE transaction, so one action; a call
that raises changes nothing and has none. `Extend` appends the rows of a call
and loses or delivers its answer; `Replay` is the retry. `Create`, `Act` and
`Retry` are `perform_pipeline_action` with everything it writes: one or two
transitions, the projection, the old columns, the applicant row. They are
guarded by `Reconciled`, as the browser is by `require_browser_pipeline_ready`,
and `Reconciled` is also an invariant (in `RecordsAgree`): an action that left a finding behind
would close the product to every user.

**Abstractions.** `ActionsInit` is the migrated, reconciled database: the
migration backfills every item in one transaction and the writers of the old
columns are gone, so drift they would cause is not modelled. Metadata JSON and
its fingerprints are `request`. Undo, correction, clearing of a reminder and
`set_visibility` have no product caller; they are checked in
`PipelineLedger`, not in `PipelineActions`. `MaxVersion` and `Days` bound the
histories and the calendar; keys are never freed, so a run may stop, and
deadlock is not checked in these runs. There is nothing the service must
eventually do, so there is no fairness.

## 6. Accounts, sessions and logins

Modules: `AccountSessions`, `LoginDelivery` (EXTENDS it), `JwksCache`,
`LoginServer`, and `MCDurableLogin`.

**`AccountSessions`** is the identity database: `account` is `users` with its
open deletion request, `sessions` is `account_sessions` with its rotation edge.
Every operation is one `BEGIN IMMEDIATE` transaction and so one action:
`CreateInvitedUser`, `SuspendUser` and its replay, `ReactivateUser`,
`RequestAccountDeletion`, `FinishDeletionRequest`, `RotateSession`,
`RevokeSession`. What is not atomic is time: the code reads the clock before it
waits for the write lock, so an action works on a reading that is up to `Lag`
old. `Authenticate` is what a request with a token is taken for; it walks the
whole lineage of rotations, as the code does. The maximal depth of rotations is
a parameter.

**`LoginDelivery`** is one login request from a verified assertion to the
cookie. `CompleteLogin` commits the row; `FinalizeSucceeds`, `FinalizeRejects`,
`FinalizeFails` make its secrets deliverable; `PrepareDelivery`, `Deliver`,
`AcknowledgeDelivery`, `FailDelivery` hand them to the response;
`CompensateUndelivered` and `ForceCompensateUndelivered` revoke what was not
handed over, two ordinary attempts and two forced ones, each of which may
commit and still look failed. A crash loses the request and its vault, never
the rows. Cookies, digests, CSRF and the attestation of connections are data.

**`JwksCache`** is the cache of the provider's keys that the callback threads
share: one flight at a time, fetched outside the lock, waited for on a
condition variable, a forced refresh for an unknown key, and a gateway closed
under all of them. A flight is an element of `flights`, so that a thread may
still hold one that the cache has dropped.

**`LoginServer`** is the process from its prepared runtime to its exit: the
main thread, the serving thread, a thread per request, and the cleanup
coordinator. `entry` and `Dependencies` are the coordinator's, `Following` its
two passes and its second attempt. A signal or the loss of the lifetime
ownership may come between any two steps, every wait may time out, and a
cleanup action may raise with or without its effect (`MaxFaults`). The TLS
workspace, the composition of gateway, keys and secrets, the profile
integration, the handlers of signals and the reservation of an activation
handoff are left out: the coordinator closes them as it closes the others.

**Fairness.** A handler that runs finishes: its attempts are bounded and the
response writer acknowledges or fails its lease in a `finally` (WF
`Serve(r)`). A runnable thread runs, and the provider's answer or the
request's timeout comes (WF `ThreadStep(t)`). The server's two threads run and
each of their waits has a timeout (WF `MainStep`, `ServeStep`). Nothing is
assumed of clients, signals, clocks or crashes. `EveryoneIsAnswered` needs no
more.

**Properties.** `LiveSessionsAreLegitimate` (one usable end per lineage, none of
an inactive account), `LiveSessionAuthenticates` (the checks of lineage never turn
against a good session), `RefusedStaysRefused`, `UndeliveredIsDead`,
`OneSessionPerLoginKey`, `OneFetchAtATime`, `OrderedEnd`, `EveryoneIsAnswered`.

## 7. Invitations and profiles

Modules: `InvitationIssue`, `OidcTransactions`, `ProfileCreation`,
`ProfileCorrections`, and `MCInvitedAccess`.

**`InvitationIssue`** is the operator's offline commands. The row and the
credential file cannot change together, so the credential waits in a stage
file while the row commits and is then renamed; `disk` is the output directory
as processes see it, `flushed` as it would come back after a power loss. Any
step may fail (`Fail`), a commit may raise after its effect, the process may
die, and a later create finishes what an earlier one committed
(`RecoverCommittedCreate`). The answer is part of the state: `HonestAnswer`
relates it to what was there before and is there now. Checks of modes, owners
and parents of paths are `Fail`.

**`OidcTransactions`** is a login from its start to the session: `Prepare`,
`Claim` (which precedes every other judgement: whatever fails later, the
transaction is spent), the binding to the browser, the provider, the identity,
the invitation (`Provision`), the principal and the trusted completion, each a
transaction of its own with crashes between them; cleanup with its limit; clocks
set back; a restart with other key versions. One person and one invitation:
nothing in the code relates two.

**`ProfileCreation`** joins three things of one process: the registry of
reviewed drafts (`drafts`), the vault of artifacts (`records`, `references`),
and the requests that confirm a draft or use an artifact; and one thing that
outlives it, the profile. A confirmation that fails after the vault may have
issued leaves the draft `maybe_issued`: the next one looks for the artifact and
never issues another. A request that uses an artifact registers with the
cleanup coordinator before it claims, so that a claim whose request raised is
taken back. The commit may be uncertain. A restart is a new `Init` with the
profile that was there. Other sessions and accounts, the absolute lifetime of a
run, reading and the pages are left out.

**`ProfileCorrections`** is a review made on one revision, its artifact, and the
requests that apply it: `ClaimSlip`, `AppendRevision` (replay by key, then
the expected revision, in one transaction), `SettleSlip`,
`ReplayCompletedSlip` for an artifact that is gone, `CloseService` and
`CloseEnds`, and a restart. A service that is closed answers "gone" even for an
artifact that was applied; the model calls that answer `shut`, so that
`ToldOfCorrection` is about the answers that speak of the artifact. The state
"conflict" of a correction's record cannot be reached for an artifact of its own key,
and the confirmation of a correction is `IssueSlip`.

**Properties.** `CredentialMatchesRow`, `HonestAnswer`;
`OneLoginPerTransaction`, `ProvisionedTogether`; `CreationSound` (one artifact per draft,
every hold has a holder at work), `ToldTheTruth`; `CorrectionsSound`, `ClosedIsStill`
(`docs/persistent_profile_services.md:1270-1290`, `1420-1424`,
`1458-1463`). There is no liveness here: the code promises a retry an answer,
not that anybody retries.

## 8. Programs that die

Modules: `LifetimeOwnership`, `RoutineRelease`, `ObservationLedger`,
`PublicJobIdentity`, and `MCCrashRecovery`, which adds the coordinator of
section 3 on the instance with a chain and a human gate.

**`LifetimeOwnership`.** `kernel` is the open file descriptions and their locks,
`descriptors` what each process has open, `owner` each process's record.
A fork shares descriptions and copies nothing else; a description goes with its
last descriptor; closing may raise with the file closed, open or unknown. Python
calls a `FileIO` closed whose `close` raised, so an outcome that is unknown may
leave a descriptor open that nobody can close again: `strays`. An acquisition
that failed gives the registry lock back before it cleans up (`cleaner`), so
`CleanUpFailed` finds whatever another thread has made of the record since, an
unknown close included. Lock file and database may be replaced. POSIX alone: on
Windows the locking call differs. A descriptor that leaks unlocked from an open
that failed is left out, and so is a child that execs; a database's inode is not
used again.

**`RoutineRelease`.** `files` is what is in each run's directory, `row` and
`writerLock` the registry, `inFlight` the promotions the provider has neither taken
nor lost, `job` its last alias request, `serving` what each alias names. The
answer of a promotion is not used by the code, so the model has none.
`Observe` is `execute` deciding from the intents on disk what an observation
lets it do: a run that was resumed never promotes twice. An observation of all
aliases is one step. Smoke tests, qualification and time budgets are `Stops`.
`Intrudes` is a promotion from a console.

**`ObservationLedger`.** Two kinds of artifact, bundle then receipt, each
staged, linked, unlinked; a lock; a clock that may be set back. `Verified` is
the whole-history check of the readers and `SnapshotReady` what they conclude.
Nothing repairs the directory: a recorder that dies in between leaves a history
no reader accepts, and `RefusedIsLeftAlone` says that to be all the harm: nothing is added to it.

**`PublicJobIdentity`.** The registry of one issuing database and of databases
built from an export of it. Operations are savepoints with the guards of the
Python code and of the triggers of migration 009. Ids are named in the order of
minting, a collision that is retried is the choice of a fresh id, timestamps
are left out (a clock set back is a refusal), a stale `binding_version` is a
call that changes nothing. Copies only import and bind, as
`docs/public_job_identity_foundation.md` has it; an export imported late is an
earlier import.

**Properties.** `OwnershipSound`, `ReleaseSound`, `EvidenceSound`, `LinksSound`,
and `GatesObserved` and `SuccessorSpared` of the coordinator. No fairness: what
these programs promise is that a death leaves something the next one can go on
from or refuses.

## 9. Runs and bounds

| Run | Instance | Shows |
|---|---|---|
| `publication_scoped` | scoped mode; `a` replaces two targets, `b` one of them | `ExclusiveReservation`, `TargetsOwnedWhileOpen`, `NeverReplayed` with every crash, lost answer, timeout and retry |
| `publication_bridge` | bridge mode; `a` (with a human gate) and `c` plan one effect under two signatures, `b` puts back what they publish; the legacy publisher | `BridgeHold`, `CompletionRecordSound`, `OneAtATime` |
| `publication_released` | bridge mode, one operation, the legacy publisher, `FairSpec` | `BridgeReleased` |
| `publication_unreserved` | the instance of `publication_scoped` | a violation, section 11 |
| `crawl_inventory` | Greenhouse; two crawlers, two postings, two groups; a drop policy that one of two rows trips | `LedgerBalances`, `InventorySound`, `AcceptedIsFloor` |
| `crawl_guard` | Mindrift; two crawlers, two postings, `FairSpec`; a guard that a single removal trips | `SharpDropRefused`, `Converges` |
| `pipeline_service` | one item, a known and an unknown legacy row, four keys, five transitions, three corrections | `LedgerChain`, `FunnelSound`, `EachRequestOnce` |
| `pipeline_actions` | two items of one title or two, three keys, four transitions, two days, legacy rows | `RecordsAgree`, `NeverMalformed` |
| `durable_login` | sessions: one account, two requests, one key, three sessions, clock to 3; keys: three threads, three key sets; server: two connections, one failing cleanup | `LiveSessionsAreLegitimate`, `LiveSessionAuthenticates`, `UndeliveredIsDead`, `OneSessionPerLoginKey`, `RefusedStaysRefused`, `OneFetchAtATime`, `OrderedEnd`, `EveryoneIsAnswered` |
| `invited_access` | one operator, two invitees, three secrets; two browsers, two transactions, two callbacks, two key versions; two drafts, two confirmations, two posts, a vault of one; three reviews, two applies, a vault of two | `CredentialMatchesRow`, `HonestAnswer`, `OneLoginPerTransaction`, `ProvisionedTogether`, `CreationSound`, `ToldTheTruth`, `CorrectionsSound`, `ClosedIsStill` |
| `invited_login` | the same with a longer clock | a violation, section 11 |
| `crash_recovery` | coordinator: a chain of two with a human gate, an inconclusive worker, an intruder; two runs, two aliases; two processes, two lock files, two descriptions, two databases; two recorders, two bundles, clock to 4; three jobs, two spellings of a legacy path, two opportunities, one copy | `GatesObserved`, `SuccessorSpared`, `ReleaseSound`, `OwnershipSound`, `EvidenceSound`, `LinksSound` |

Every passing run is exhaustive within its bounds. The largest are `invited_access`
(3.3 million distinct states), `crawl_inventory` (2.5 million), `crash_recovery`
(1.9 million: a million of the ledger, 654 000 of the ownership, a quarter
million of the coordinator, 44 000 of the identities, 6 000 of the publisher),
`publication_bridge` and `publication_scoped` (1.6 and 1.2 million) and
`durable_login` (0.6 million, with liveness); each ends in two minutes or a
little more on two cores.

Type invariants are not listed as properties of the runs: where a module has
proofs its invariant contains the typing, for every instance.

Why these bounds.

- *Publication.* Two operations are enough for the guards, which compare an
  operation with one other, and a driver is replaced by the next driver of the
  same operation. They are not enough for the index of completions: an effect
  that is carried can be put back by a third operation and published again, so
  `publication_bridge` has three. While `b`, which puts the effect back, is not
  claimed, the other two and the legacy publisher act without a bound. Afterwards
  `MCPublicationBridge` bounds the steps: the legacy publisher stays away, `a` and
  `b` do not stop in their preflight, `c` is driven when `a` has ended, whoever is
  driven has the person's receipt, and the effect of `b`, which nobody else plans,
  is not registered. The same three operations and the legacy publisher without
  any of these bounds, but with no human gate, were explored once: 30 097 824
  distinct states, no error. Two targets are the least a partial apply needs, one shared target
  the least a conflict needs. Nothing in these runs counts: an operation is
  retried, crashes and is driven again without a bound.
- *Crawl.* Two crawlers are the least that overlap; a third would only be the
  next run of one of them, and the runs of a crawler are unbounded. Two postings
  suffice for closing one and keeping one. The high-water mark of the guard is
  read over two runs instead of three.
- *Pipeline.* No guard looks at more than one reference back, and five
  transitions fit a baseline, a move, a hide, an undo of either and a move again;
  two items share nothing but the applicant rows, the key and the gate.
- *Logins.* Two requests under one key are the least that race; three sessions hold
  a login, its rotation and a second login. An account's mutations (three) fit a
  suspension, a return and another change. A reading one tick old is the least
  stale one. Three threads are an owner, a waiter and one that comes after. Two
  connections are one being admitted and one being served; one fault per cleanup,
  because a second entry that fails meets the same coordinator.
- *Invitations.* Two requests are needed for one output name to be contended;
  three secrets for a discarded attempt, a good one and another request's.
- *OIDC.* Two transactions and two callbacks; a clock of two ticks passes a
  life of one tick; cleanup has a limit of one row so that it must choose.
- *Profiles.* A vault of one artifact is full at once, two drafts contend for
  it, two requests per artifact are the claimant and the next.
  A third review is made on the revision the second one wrote.
- *Ownership.* Two processes suffice because the property is about pairs and a fork
  makes the second. With two descriptions at most two lock files are open, and a
  further file at the path differs in nothing from an absent one. Three lock files
  with two descriptions (2 007 800 states) and two with three descriptions
  (9 713 796) were explored once, without an error.
- *Ledger.* A history of two is enough for order between neighbours, which is all
  the readers compare; a streak of two is the least streak.
- *Identities.* Three jobs make a chain of two merges.

Symmetry permutes only values that no constant tells apart, and only in runs
without liveness. Deadlock is checked in the publication and crawl runs;
elsewhere a behaviour ends when its bounded keys, clocks or requests are used
up, which is not a fault.

## 10. Proofs

| Module | Theorem | Says, for every value of the constants |
|---|---|---|
| `Publication_proofs` | `Invariant`, `TypeCorrect` | `IInv`; `TypeOK` |
| | `Exclusion`, `BridgeExclusion` | `ExclusiveReservation`; `BridgeHold` |
| | `AtMostOnce`, `Finality` | `NeverReplayed`; a dispatched operation that ended stays so (`TerminalIsFinal`), in either mode |
| | `Implementation` | in bridge mode `Spec` implements `PublicationPromise` (`OneAtATime`) |
| | `GatesTheorem` | `GatesObserved` |
| | `SparedTheorem` | `SuccessorSpared`, if no plan expects or publishes what an outsider writes |
| | `OwnedTargetsTheorem` | `TargetsOwnedWhileOpen`, if every effect is one operation's |
| | `CompletionTheorem` | `CompletionRecordSound`, of every plan |
| `CrawlLifecycle_proofs` | `LedgerTheorem`, `InventoryTheorem`, `FloorTheorem` | `LedgerBalances`, `InventorySound`, `AcceptedIsFloor` |
| | `DropTheorem` | `SharpDropRefused` |
| `PipelineLedger_proofs` | `LedgerInvariant`, `LedgerTypeCorrect`, `LedgerChained` | `IInv`; `LedgerTypeOK`; `LedgerChain` |
| | `Implementation` | every history of requests implements `RequestOnce` (`EachRequestOnce`) |
| | `FunnelTheorem` | `FunnelSound` |
| | `RecordsTheorem`, `MalformedTheorem` | `RecordsAgree`, if the database reconciles when it opens; `NeverMalformed` |
| | `ActionsImplementation` | the browser's actions implement `RequestOnce` |
| `LoginDelivery_proofs` | `LoginInvariant` | the inductive invariant of a login |
| | `OneSessionTheorem`, `UndeliveredTheorem` | `OneSessionPerLoginKey`; `UndeliveredIsDead` |
| | `InactiveTheorem` | no session of an inactive account is usable |
| | `LineageInvariant` | the shape of every lineage, beside the invariant of the logins |
| | `LegitimateTheorem`, `AuthenticationTheorem` | `LiveSessionsAreLegitimate`; `LiveSessionAuthenticates` |
| | `RefusedTheorem` | `RefusedStaysRefused` |
| `OidcTransactions_proofs` | `OneLoginTheorem`, `ProvisionedTheorem` | `OneLoginPerTransaction`; `ProvisionedTogether` |
| | `CredentialTheorem`, `HonestTheorem` | `CredentialMatchesRow`; `HonestAnswer` |
| `JwksCache_proofs` | `OneFetchTheorem` | `OneFetchAtATime` |
| | `ServerInvariant`, `OrderedEndTheorem` | the inductive invariant of the server's end; `OrderedEnd` |
| `ProfileCorrections_proofs` | `CorrectionsTheorem`, `ClosedTheorem` | `CorrectionsSound`; `ClosedIsStill` |
| | `CreationInvariant` | the inductive invariant of drafts, artifacts and their requests |
| | `CreationTheorem`, `ToldTheorem` | `CreationSound`; `ToldTheTruth` |
| `CrashRecovery_proofs` | `IdentityInvariant`, `LinksTheorem` | the registry and its copies are well formed; `LinksSound` |
| | `OwnershipTheorem` | `OwnershipSound` |
| | `ReleaseTheorem` | `ReleaseSound` |
| | `LedgerInvariant`, `EvidenceTheorem` | the inductive invariant of the observation ledger; `EvidenceSound` |

The modules put together for one run are proved about one by one, against the
specification each has in its own module; the runs check the same properties
of the parts.

**Assumptions.** Each module names what it assumes of its constants, and TLC
evaluates every one of them: `WorkerAssumption`, `PublicationAssumption` (the
plan is well typed, an operation publishes something other than what it
expects, a step reserves what it replaces, conflict is reflexive and symmetric,
one effect is one replacement, the gated and the uncertain are operations of the
plan), `CrawlAssumption` (finitely many postings, thresholds are natural
numbers), `LedgerAssumption`, `ActionsAssumption` (names are distinct, legacy
rows are well typed), and `SessionsAssumption`,
`LoginKeysAssumption`, `OidcAssumption`, `JwksAssumption`, `ServerAssumption`,
`InvitationAssumption`, `CreationAssumption`, `CorrectionAssumption`,
`OwnershipAssumption`, `RoutineAssumption`, `LedgerBounds`, `IdentityAssumption`
(bounds are natural numbers, the absent value is none of the values).

**Publication.** None of the properties is inductive alone. `NeverReplayed` says
that a worker sent an apply has no apply-intent file; that needs "the driver
about to dispatch has never dispatched", which needs "before the intent no
event says apply-intent, and a worker's file implies the event" (`OnceShape`).
`BridgeHold` needs "a driver past `legacy_enter` owns the only row"
(`BridgeShape`), which needs "the handler removes a row only of an operation
that was never dispatched" (`DriverShape`). `ExclusiveReservation` needs "a
driver at work is reserved or had a preflight exit" (`ReservationShape`).
`IInv` joins them; there is one lemma per part, with one step per action, and
`NextIInv` collects them. For the refinement, `MoveStep` shows that a step
leaves the phase of every operation alone, opens one, or ends one; that no
other is open when one opens is `BridgeShape`.

`GatesObserved` is about a receipt of *another* operation, which must not be
taken back between the moment `execute` read the result and the dispatch.
`GateShape` says that a result `accepted` is of an operation that is accepted and
driven by nobody but to be observed again (`AcceptedForGood`), and `GoodStep`
that this lasts for ever; `Waits` says that whoever is driven, or was dispatched,
found what it needs in that state.

`TargetsOwnedWhileOpen` and `CompletionRecordSound` rest on `OInv` beside `IInv`,
and that on two facts about single steps: a target changes only by a worker that
visits it (`Writers`), and what was observed of an operation at work goes on
holding of its own files (`Continues`). A worker that shares a target with an
operation at work belongs to an open operation, which in bridge mode the registry
excludes and in scoped mode the reservation, unless one of the two gave it up
(`Excluded`).

Effects may be carried from plan to plan. An operation that finds another's
receipt of its effect is completed without a look at its own worker, and that
worker may still write: such an operation is `Overridden`. `CarryShape` says that
only a worker of an overridden operation outlives its operation, and that what is
reused, and what a receipt binds, published this very effect; with `PlainShape`
it gives `ReuseIndexSound`, the half of `CompletionRecordSound` about the stored
receipts, for every plan. `OwnShape` gives the other half, that the observation a
completion rests on still holds, with the exceptions the code has: a target an
outsider may write, a conflicting operation that gave its reservation up
(`Retryable`), and an overridden worker on the same target, which for a completion
by observation takes a fourth operation. `OwnedTargetsTheorem` supposes
`OneEffectEach`, each effect in one operation of the plan, because
an overridden worker may write below anybody: without that hypothesis
`TargetsOwnedWhileOpen` is false (section 11, `EndedIsSettled`).

`SparedTheorem` is about one step: who overwrites what an outsider wrote had the
target among those it had compared, and the outsider came after. It supposes that
what an outsider writes is what no plan expects or publishes (`OutsideContent`):
nobody can tell a copy of its own artifact from it.

**Crawl.** The invariant is `Typed` with the three properties, which support
one another: `LedgerBalances` follows from a lemma on cardinalities
(`InventoryCount`): the active rows after a transaction are those before, and
the new ones, and the returned ones, without the closed ones, all disjoint.
`AcceptedIsFloor` needs that a run that succeeds leaves every posting it
fetched active and that a run that closes rows replaces the count, unless the
count stays that of a run that finished in the same second (`outrun`): until the
next success the count may then exceed the rows, and the property leaves that out. `DropTheorem`
is about one step: the baseline, a greatest of finitely many naturals, exists
(`Least`, `Bounded`, `Greatest`) and is no smaller than the active rows
(`BaselineAbove`), so what the guard tolerates of the baseline it tolerates of
them (`Tolerated`); and a run's count stays what it was when it finished.

**Pipeline.** The rows a call appends are linked (`Linked`: typed, each from
the state the one before it left, the last under the call's key and the others
under none); `ExtendKeeps` shows that linked rows keep `IInv`, and one lemma
per kind of call shows that its rows are linked. For the refinement, a history
only grows, so a key that was found at a place is found there for ever
(`DecidedAt`), and it is found at one place only (`KeysUnique`).

`FunnelSound` reads each row with the undos that refer to it, which follows
references of any length. It is not inductive alone: an undo takes back the last row, and
nothing of the projection alone says what the rows before it leave. `HistoryInv`
adds that an undo refers to a row that refers to none (`RootOfUncorrected`: so
the chain of references has one step), and what every prefix of a history leaves
(`Road`, `Counted`): each row starts from what those before it left.
`CountedAfter` and `RoadAfter` carry that over an append, and `ServesKeeps` over
each of the service's calls.

**Actions.** `RecordsAgree` joins the projection, the history, the receipts and
the browser's own table. `ActionsInv` says which row each of them tells of
(`RowsTell`, `TargetAimed`); `CompleteKeeps` and `FailKeeps` are the two ways a
command ends. The theorem supposes that the database reconciles when the browser
opens (`Reconciled`): a legacy row under an unknown status does not, and then
every action is refused (`BlockedStep`). `NeverMalformed` needs no such
hypothesis. That what `PipelineActions` does with a key is also
`RequestOnce` is shown by `ActionsDecide`, again from histories that only grow.

**A login.** Every operation leaves rows that follow from those before
(`Follows`): a row keeps its account and its scope and stays revoked, and at
most one is added, of an active account and under a new scope. Whatever keeps
that relation keeps one session per key and no usable session of an inactive
account, so each of the many operations is shown only to keep the relation.
`UndeliveredIsDead` adds what a request's vault and the row it waits for have
to do with each other. Exactly where the properties make an exception, a crash
or a compensation that failed every time, the invariant records why.

**A lineage.** The three theorems about lineages rest on `LineageIInv`: a row that
replaces another is younger, at most one row replaces it, a replaced row is
revoked, and its neighbours have one account and one scope. A live row
therefore ends its chain and is its only live one. The depth and the root of a
row are functions that recur from it to the row it replaced. That such a
function exists, and is the one the recursion says, is shown once (`Inherited`,
from `Inherits`, by induction over sets of rows, `Climb`); a step that adds one
row leaves every chain of the others as it was (`LineagesStay`), and one that
revokes leaves all (`GoneRetires`). Then `LineageStep` takes the operations
together, and `StepRefuses` the refusals: what makes a session refused is
revocation, an inactive account, a newer auth revision or time, and none of
these is taken back.

**A transaction, the keys, corrections.** A transaction leaves `prepared` once
and only for the callback that claims it, so two callbacks that both hold a
claim are one. A thread that fetches owns the flight the cache knows, until the
gateway is closed and the cache empty. A
correction's record, its claim and its revision move together, and a revision
extends the one it was reviewed on; a service that closed leaves nothing to
claim.

**The creation of a profile.** `OfferInv` is about drafts and offers. Wherever an
artifact is written down (the reference of a draft, its completed offer, the offer
a request holds, the vault's record), it was issued and is of one draft
(`NamesOK`). A request that says nothing may have been issued is on a draft the
vault has no record of, and holds no offer (`ConfirmOK`), so a failure gives only
such a draft back as new; and who is leased a draft is its one owner, with the
edits the lease was asked for. Hence a second issuance for a draft finds its
reference and is refused, and two accepted offers of one draft are the same
(`SaidAlike`). `HoldInv` is about the use: a record in flight names a request that
the coordinator watches, and a request in work while the vault is open has its own
name on the record. What is said of the profile stays true because a profile that
was made stays, and the key of the command finds its own commit again. Each part
has a lemma per step that says what the others may rely on (`Turned`, `Used`,
`HoldOthers`, `PostMoves`).

**Invitations.** Whoever is at work on a command owns the database, so nobody else
moves its files or rows; that part of the invariant (`CommandOK`) says, step by
step, what the command has around it. A staged credential is whole, on the disk
and flushed before its row commits; the stage file a failure discards is of a row
that was never committed; from the commit until the directory is flushed the
committed secret is in the stage or the final file, before and after a power loss
(`DataOK`). `HonestTheorem` is about the step that ends a command: short of the
commit the row is still the one it was when the command began (`before`), and past
it the answer can only be a success or `COMMITTED_RETRY_REQUIRED`.

**The server's end.** `ServerIInv` joins four parts. Who says that serving is
over has stopped the server or is its dead thread (`HaltShape`), so from the first
cleanup action on nothing is admitted (`Winds`): what was closed stays closed. An
entry is terminal only when what it stands for is gone (`EntryShape`). The
coordinator stands at an entry it does not skip, and between an action and its
conclusion the dependencies of the entry stay settled (`CleanupShape`). So when
the database's connections go, the drain of the request threads is terminal
(`NothingLive`), through a browser integration that may itself have failed. The
number of actions that fail is not bounded in the proof.

**Identities.** A redirect ends at an identity that redirects nowhere, in one
hop; all operations extend the registry (`Extends`, a preorder: ids, paths and
history stay), so that what a copy took from an export stays true at home.

**Ownership.** There is one locked description per file; apart from strays a
process has open at most what its record names, and nothing after a close whose
outcome is unknown; two records name one description only if one of them has
nothing left to do but to clean up. What a thread does on its way out of a failed
acquisition, whatever the record has become, is one lemma (`LeavingKeeps`). Hence
no lock is held that neither a record nor a stray accounts for.

**Routine publisher.** `RoutineIInv`: at most one promotion is unanswered; it was
recorded before it was asked for and has its row in the registry; it was asked for
while no alias served its target. Hence aliases that all serve it were moved by
it and it has ended. With "the files say where the publisher is" and "the
records of what was observed are true short of an intrusion", every action
keeps it.

**The observation ledger.** What was published is in order whoever published it and
however it ended (`HistoryOK`), and the one recorder inside the lock knows where the
history stands (`RecorderOK`): from the check until its bundle is linked nothing
moves under it, so the bundle is still added to a history the readers accept. For
readiness, the walk back of `_evaluate_board_readiness` is compared with the longest
streak (`Trail`): both satisfy the recursion of `Trailing`, and only one function
does, since two would differ first somewhere (`TrailingIsTrail`). The observations of
a streak are apart since each bundle starts after the one before completed
(`BundlesApart`).

**Model-checked only.** `BridgeReleased`, `Converges` and `EveryoneIsAnswered` are
liveness under fairness, out of the prover's reach.

## 11. Known disagreements

Kept as runs that find a violation; `PROJECT.json` quotes the lines.

- `publication_unreserved`: an operation that stopped before its intent is
  `unchanged`; a second claim drives it without writing `reserved`, so a
  conflicting operation may be claimed beside it
  (`scripts/publication.py:103-118`, `docs/publication.md:59`). The bridge row
  still excludes it in bridge mode (`BridgeHold`); in scoped mode nothing does.
  `ExclusiveReservation` and `TargetsOwnedWhileOpen` hold of all others.
- `invited_login`: the identity an invitation creates is dated at the callback,
  the proof at the earlier second the person signed in, and trusted completion
  denies a login older than its identity
  (`trusted_login_completion.py:1205`). The invitation is consumed, the account
  exists, the first login answers as if it had failed; the documentation promises
  the session (`docs/durable_google_login_browser.md:1022-1024`).

Stated in the modules, not kept as runs. Checking each one, as an INVARIANT or a
PROPERTY, with the constants named here shows it.

- `HumanGate` (`Publication`; a plan with a human gate and a conclusive worker):
  the worker's check writes `accepted` in its journal before the human acceptance
  is verified (`publication.py:500`, `:419-420`). When the acceptance is missing
  and the return does not start, the journal says `accepted`, and the
  observation after the return is recorded as such. `GatesObserved` says what
  does hold.
- `AcceptedStaysAccepted` (`Publication`; `PublicationBridge.cfg`;
  `docs/publication.md:24`): an operation that carries another's effect is
  recorded accepted and then leaves the bridge inside the same `try`
  (`publication.py:465`). If the writer lock is busy, the handler finds no apply
  intent and rewrites the row to `unchanged`; the receipt stays.
  `TerminalIsFinal` holds of every dispatched operation.
- `CompensationEnds` (`Publication`; `PublicationReleased.cfg` with
  `Scoped = TRUE`, under `FairSpec`): a files worker that failed and changed
  nothing reports `failed`, the drive takes it for `recovered`
  (`publication.py:514-517`), the worker's cleanup answers `failed` again, so
  the comparison (`publication.py:518`) refuses and the reservation stays for ever.
- `EndedIsSettled` (`Publication`; `PublicationBridge.cfg`;
  `docs/publication.md:25`, an unknown outcome keeps the reservation): a drive
  looks for another operation's receipt of its effect before it looks at its own
  worker (`publication.py:453-466`). If the effect of `a` is registered after `c`
  looked, and the driver of `c` dies once it has dispatched, the next drive of
  `c` completes by the receipt of `a`, reservation and registry row go, and the
  worker of `c` still writes.
- `AnomalousClosesNothing` (`CrawlLifecycle`; `CrawlInventory.cfg` with three
  postings; `docs/greenhouse_pilot.md:21-25`): the count a Greenhouse result is
  measured against is read before the transaction (`crawler/pipeline.py:87`); a
  run that finishes in between raises it, and the result closes rows the policy
  protects.
- `CreationAccepted` (`PipelineActions`; two items of one title;
  `docs/pipeline_state.md:122-123`): two items of one source and title with
  different URLs share the `update_id` of a day; the second "applied" keeps the
  row that names the first item and fails its own check
  (`applicant_action_binding_mismatch`, `pipeline_actions.py:948`).
- `PublishedPairIsRead` (`ObservationLedger`; `docs/greenhouse_pilot.md:162-163`):
  a recorder that dies between `os.link` and `unlink` leaves a bundle with two
  names, and the readers refuse a file that has two; one that dies between the
  two `mkdir` leaves a directory that nobody may use again.

Met while reading, each visible in the model as behaviour.

- "No status or exception leaves an active undelivered session"
  (`docs/persistent_profile_services.md:844`) holds short of a crash and of four
  failed attempts (`UndeliveredIsDead` says so), and `already_completed`
  (about line 862) also answers a login that is in flight or died before its
  delivery. A deposit that fails after the commit may leave a row nobody holds.
- A token of a rotated session whose replacement was rotated or revoked in turn
  answers "unavailable", not "anonymous"; a rotation's delivery cannot be
  compensated; the replay of a suspension revokes at the current `updated_at`.
- `cleanup_google_oidc_authorization_transactions` has no caller in the
  program: finished rows stay until an operator calls it.
- An invitation's stage file that was torn is never reclaimed, and the committed
  create of an invitation that expired since can no longer be recovered.
- In the login server's cleanup an entry whose action raised (but for
  `request_threads`) no longer holds back what depends on it, so the database's
  connections may close although the integration above them is still open.
- "An indeterminate native close fails closed until process exit rather than being
  reported as released" (`docs/durable_google_login_browser.md:184`): the cleanup
  of a failed acquisition takes the record as it finds it
  (`database_lifetime_ownership.py:379-388`). Over a close that another thread left
  unknown it closes a closed `FileIO`, which succeeds, and retires the record; a
  fork's child drops such a record too (`:1103`). The descriptor may still be open,
  with its lock: no second owner comes of it, but while the lock file is the same
  nobody can own the database before the process exits.
- Of two overlapping crawls that finish in one second the one with the greater id is
  the baseline of the next, though the other committed last
  (`crawler/pipeline.py:155-169`).
- Between a worker's comparison of a target and its replacement an outside write is
  lost (`publication_worker.py:209-212` for an apply, `:232` and `:146` or `:167`
  for a return). `SuccessorSpared` says that nothing else overwrites one.
- A correction service that is closed answers "gone" even for an artifact it
  applied.
- A builder that dies between its create-only manifest and `temporary.replace`
  leaves a manifest without its database, and the next build refuses the path.

## 12. What is not modelled

The map covers about 8 % of the implementation's lines. The rest is mostly not
state: a large part of every module checks shapes, paths, modes, digests and
versions of what it is handed before the few statements that change something,
and a model has one refusal for all of them; the longest scripts declare a
schema and verify it statement by statement, or render pages.

- *Pure functions of free text*: parsing of providers' pages, matching,
  normalisation, enrichment, rendering, reports. The models take their results
  from small sets.
- *The outside*: the publication workers other than `files`, builders, readbacks,
  object storage, host adapters, deployment filters, HTTP, TLS. What the
  coordinator may conclude from a worker it cannot see is in the model
  (`uncertain`).
- *Digests, signatures, cryptography, capability tokens and attestation of
  connections*: taken to do what they say.
- *Schemas and migrations*: DDL and one-shot conversions. Where a schema's
  triggers guard an operation (public identities), the guard is the operation's.
- *WorkOS AuthKit login*: a dictionary under one lock, each operation one locked
  step. *Agent operations*: dormant and pure. Both are in the plan.
- *Browser pages and routing* of the two applications; the mutations behind them
  are modelled.
- *Time inside a transaction*: the enrichment calls a model inside the lifecycle
  transaction, so other writers wait; a writer that gives up is `Fail`.
- *Drift made by hand* or by old writers in the pipeline database: it blocks the
  browser by design.
- *In profiles*: eviction of references beyond the vault's capacity within the
  window before it is noticed, other sessions and accounts, the absolute life of
  a run.
