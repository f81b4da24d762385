---------------------------- MODULE CrawlLifecycle ----------------------------
(***************************************************************************)
(* One company's inventory under run_crawl (wahojobs/crawler/pipeline.py)  *)
(* and track_crawl_result (wahojobs/tracking/service.py).                  *)
(*                                                                         *)
(* A crawler is a process that runs run_crawl again and again; two of them *)
(* may overlap.  The board is the provider's site.  Everything between     *)
(* BEGIN and commit is one action: SQLite serializes the transactions, or  *)
(* one of them fails.  The fetch, and the read of the previous accepted    *)
(* count, happen before the transaction.                                   *)
(***************************************************************************)
EXTENDS Integers, FiniteSets, Sequences

CONSTANTS
  Crawler,       \* processes that may run run_crawl for this company
  Posting,       \* source identities (source_hash)
  Canonical,     \* canonical opportunities a posting can be grouped under
  Provider,      \* "plain", "mindrift" (guarded) or "greenhouse" (count drop)
  Truncates,     \* the provider may call an incomplete list complete
  GuardPercent,  \* MINDRIFT_PARTIAL_DROP_THRESHOLD, in percent
  GuardMissing,  \* MINDRIFT_MIN_REMOVALS_FOR_GUARD
  BaselineRuns,  \* MINDRIFT_BASELINE_SUCCESS_RUNS
  RetainPercent, \* minimum_retained_fraction, in percent
  RetainMinimum, \* minimum_previous_count
  None

ASSUME CrawlAssumption ==
  /\ IsFiniteSet(Posting)
  /\ Provider \in {"plain", "mindrift", "greenhouse"}
  /\ Truncates \in BOOLEAN
  /\ {GuardPercent, GuardMissing, BaselineRuns, RetainPercent, RetainMinimum} \subseteq Nat
  /\ None \notin Canonical /\ None \notin Nat

VARIABLES
  board,     \* postings the provider lists now
  title,     \* the canonical group the provider's text puts a posting in
  known,     \* rows of jobs
  active,    \* rows with is_active = 1
  link,      \* jobs.canonical_opportunity_id
  variants,  \* canonical_opportunities.variant_count (is_active = variants > 0)
  lastEvent, \* the last job_events row of a posting
  ledger,    \* over all finished runs: new + reactivated - removed
  accepted,  \* last_accepted_snapshot_count: the count of the last success
  earlier,   \* the running crawlers that started before that success did
  outrun,    \* history: a success finished since, in the same second
  recent,    \* the last successes, in the order their runs started
  fresh,     \* the last success is at most LIVE_FEED_MAX_AGE_HOURS old
  pc,        \* where a crawler is
  fetched,   \* its CompanyCrawlResult
  began      \* the running crawlers, in the order they started

inventory == <<known, active, link, variants, lastEvent, ledger>>
runs      == <<accepted, earlier, outrun, recent, fresh>>
vars      == <<board, title, inventory, runs, pc, fetched, began>>

Outcome == {"success", "partial", "anomalous", "contract_drift"}
Answers == [jobs : SUBSET Posting, title : [Posting -> Canonical \cup {None}],
            outcome : Outcome, complete : BOOLEAN, sample : BOOLEAN, emptyValidated : BOOLEAN]
Result  == {f \in Answers : \A q \in f.jobs : f.title[q] \in Canonical}

TypeOK ==
  /\ board \subseteq Posting
  /\ title \in [Posting -> Canonical]
  /\ known \subseteq Posting /\ active \subseteq known
  /\ link \in [Posting -> Canonical \cup {None}]
  /\ variants \in [Canonical -> Nat]
  /\ lastEvent \in [Posting -> {"none", "discovered", "removed", "reactivated"}]
  /\ ledger \in Int
  /\ accepted \in Nat \cup {None}
  /\ earlier \subseteq Crawler /\ outrun \in BOOLEAN
  /\ recent \in Seq([count : Nat, elders : SUBSET Crawler])
  /\ fresh \in BOOLEAN
  /\ pc \in [Crawler -> {"idle", "fetching", "fetched", "assessed"}]
  /\ fetched \in [Crawler -> Result \cup {None}]
  /\ \A p \in Crawler : fetched[p] = None <=> pc[p] \in {"idle", "fetching"}
  /\ began \in Seq(Crawler)
  /\ \A p \in Crawler :
       Cardinality({i \in 1 .. Len(began) : began[i] = p}) = IF pc[p] = "idle" THEN 0 ELSE 1

Init ==
  /\ board \in SUBSET Posting
  /\ title \in [Posting -> Canonical]
  /\ known = {} /\ active = {}
  /\ link = [q \in Posting |-> None]
  /\ variants = [c \in Canonical |-> 0]
  /\ lastEvent = [q \in Posting |-> "none"]
  /\ ledger = 0
  /\ accepted = None /\ earlier = {} /\ outrun = FALSE
  /\ recent = << >>
  /\ fresh = FALSE
  /\ pc = [p \in Crawler |-> "idle"]
  /\ fetched = [p \in Crawler |-> None]
  /\ began = << >>

-----------------------------------------------------------------------------
(* Mutant: a complete anomalous snapshot still closes rows. *)
AuthorizedUnlessPartial(f) ==
  /\ f.outcome # "partial" /\ f.complete /\ ~f.sample
  /\ f.jobs = {} => f.emptyValidated

(* evaluate_removal_authorization *)
Authorized(f) ==
  /\ f.outcome = "success" /\ f.complete /\ ~f.sample
  /\ f.jobs = {} => f.emptyValidated

(* crawl_run_status_for_result *)
Succeeds(f) ==
  /\ f.outcome # "contract_drift"
  /\ f.sample \/ (f.outcome = "success" /\ Authorized(f))

(* snapshot_is_complete and the retained fraction of apply_count_drop_policy. *)
DropsTooFar(f) ==
  /\ f.outcome = "success" /\ f.complete /\ f.jobs # {}
  /\ accepted # None /\ accepted >= RetainMinimum
  /\ Cardinality(f.jobs) * 100 < RetainPercent * accepted

(* get_recent_mindrift_success_high_water_mark, with the active rows. *)
Baseline ==
  LET counts == {recent[i].count : i \in 1 .. Len(recent)} \cup {Cardinality(active)}
  IN  CHOOSE n \in counts : \A m \in counts : m <= n

(* Mutant: the guard trusts a baseline of any age. *)
SuspiciousWhenStale(f) ==
  /\ Provider = "mindrift" /\ ~f.sample /\ active # {}
  /\ (Baseline - Cardinality(f.jobs)) * 100 > GuardPercent * Baseline
  /\ Cardinality(active \ f.jobs) >= GuardMissing

(* Mutant: the baseline leaves out the rows that are active now. *)
SuspiciousByRuns(f) ==
  LET counts == {0} \cup {recent[i].count : i \in 1 .. Len(recent)}
      most   == CHOOSE n \in counts : \A m \in counts : m <= n
  IN  /\ Provider = "mindrift" /\ ~f.sample /\ fresh /\ active # {}
      /\ (most - Cardinality(f.jobs)) * 100 > GuardPercent * most
      /\ Cardinality(active \ f.jobs) >= GuardMissing

(* guard_suspicious_mindrift_partial_crawl raises. *)
Suspicious(f) ==
  /\ Provider = "mindrift" /\ ~f.sample /\ fresh /\ active # {}
  /\ (Baseline - Cardinality(f.jobs)) * 100 > GuardPercent * Baseline
  /\ Cardinality(active \ f.jobs) >= GuardMissing

(* refresh_canonical_rollups *)
RollUp(rows, group) == [c \in Canonical |-> Cardinality({q \in rows : group[q] = c})]

-----------------------------------------------------------------------------
(* Which runs a crawler's own start precedes: the successes it is an elder *)
(* of started after it.                                                    *)
Elders(p) == {began[i] : i \in {j \in 1 .. Len(began) :
                                  \E k \in 1 .. Len(began) : began[k] = p /\ j < k}}

Forget(p, s) == [i \in 1 .. Len(s) |-> [s[i] EXCEPT !.elders = @ \ {p}]]

Last(n, s) == IF Len(s) <= n THEN s ELSE SubSeq(s, Len(s) - n + 1, Len(s))

(* The successes by start: p's goes before those that started after it.    *)
Insert(p, n) ==
  LET older == Cardinality({i \in 1 .. Len(recent) : p \notin recent[i].elders})
  IN  Last(BaselineRuns, SubSeq(recent, 1, older) \o <<[count |-> n, elders |-> Elders(p)]>>
                           \o SubSeq(recent, older + 1, Len(recent)))

Ends(p) ==
  /\ pc' = [pc EXCEPT ![p] = "idle"]
  /\ fetched' = [fetched EXCEPT ![p] = None]
  /\ began' = SelectSeq(began, LAMBDA q : q # p)

(* The last success is that of the latest second, then of the highest id:  *)
(* a run that finishes in the same second as one that started after it     *)
(* does not become the last one.  The count is kept for the provider whose *)
(* policy reads it.                                                        *)
Accept(p, n) ==
  \/ /\ accepted' = IF Provider = "greenhouse" THEN n ELSE None
     /\ earlier' = IF Provider = "greenhouse" THEN Elders(p) ELSE {}
     /\ outrun' = FALSE
  \/ /\ p \in earlier
     /\ earlier' = earlier \ {p} /\ outrun' = TRUE
     /\ UNCHANGED accepted

(* A run that ends without a success is nothing to later runs. *)
Forgotten(p) ==
  /\ recent' = Forget(p, recent)
  /\ earlier' = earlier \ {p}
  /\ UNCHANGED <<accepted, outrun, fresh>>

(* finish_crawl_run: what later runs read of this one. *)
Finish(p, f) ==
  /\ Ends(p)
  /\ IF Succeeds(f) /\ ~f.sample
     THEN /\ Accept(p, Cardinality(f.jobs))
          /\ recent' = Forget(p, Insert(p, Cardinality(f.jobs)))
          /\ fresh' = (Provider = "mindrift")
     ELSE Forgotten(p)

-----------------------------------------------------------------------------
(* create_crawl_run, committed before the fetch. *)
Start(p) ==
  /\ pc[p] = "idle"
  /\ pc' = [pc EXCEPT ![p] = "fetching"]
  /\ began' = Append(began, p)
  /\ UNCHANGED <<board, title, inventory, runs, fetched>>

Fetch(p, f) ==
  /\ pc[p] = "fetching"
  /\ fetched' = [fetched EXCEPT ![p] = f]
  /\ pc' = [pc EXCEPT ![p] = IF Provider = "greenhouse" THEN "fetched" ELSE "assessed"]
  /\ UNCHANGED <<board, title, inventory, runs, began>>

Answer(jobs, outcome, complete, sample) ==
  [jobs |-> jobs, title |-> [q \in Posting |-> IF q \in jobs THEN title[q] ELSE None],
   outcome |-> outcome, complete |-> complete, sample |-> sample,
   emptyValidated |-> Provider = "plain"]

(* An authoritative snapshot, the whole board. *)
FetchSnapshot(p) == Fetch(p, Answer(board, "success", TRUE, FALSE))

(* Anything less: part of the board, told as such or not, sample rows,     *)
(* or a page whose contract changed.                                       *)
FetchOther(p) ==
  \/ \E jobs \in SUBSET board :
       \/ Fetch(p, Answer(jobs, "partial", FALSE, FALSE))
       \/ Truncates /\ Fetch(p, Answer(jobs, "success", TRUE, FALSE))
  \/ \E jobs \in SUBSET Posting : Fetch(p, Answer(jobs, "partial", FALSE, TRUE))
  \/ Fetch(p, Answer({}, "contract_drift", FALSE, FALSE))

(* apply_count_drop_policy, with the count read outside the transaction. *)
Assess(p) ==
  /\ pc[p] = "fetched"
  /\ fetched' = IF DropsTooFar(fetched[p])
                THEN [fetched EXCEPT ![p].outcome = "anomalous"] ELSE fetched
  /\ pc' = [pc EXCEPT ![p] = "assessed"]
  /\ UNCHANGED <<board, title, inventory, runs, began>>

(* summarize_crawl_result_without_lifecycle: nothing of the inventory moves. *)
Drift(p) ==
  /\ pc[p] = "assessed" /\ fetched[p].outcome = "contract_drift"
  /\ Finish(p, fetched[p])
  /\ UNCHANGED <<board, title, inventory>>

(* Mutant: a reactivated row is counted as updated. *)
CountUpdated(new, back, gone) == ledger' = ledger + Cardinality(new) - Cardinality(gone)

(* jobs_new_count, jobs_reactivated_count and jobs_removed_count. *)
Count(new, back, gone) ==
  ledger' = ledger + Cardinality(new) + Cardinality(back) - Cardinality(gone)

(* create_job_event *)
Record(new, back, gone) ==
  lastEvent' = [q \in Posting |-> IF q \in new THEN "discovered"
                                  ELSE IF q \in back THEN "reactivated"
                                  ELSE IF q \in gone THEN "removed" ELSE lastEvent[q]]

(* Mutant: only the groups of the fetched postings are refreshed. *)
SyncSeen(f, rows) ==
  /\ link' = [q \in Posting |-> IF q \in f.jobs THEN f.title[q] ELSE link[q]]
  /\ variants' = [c \in Canonical |-> IF \E q \in f.jobs : f.title[q] = c
                                      THEN RollUp(rows, link')[c] ELSE variants[c]]

(* sync_*_canonical_opportunities and the fallback, then the rollups. *)
Sync(f, rows) ==
  /\ link' = [q \in Posting |-> IF q \in f.jobs THEN f.title[q] ELSE link[q]]
  /\ variants' = RollUp(rows, link')

(* track_crawl_result and finish_crawl_run in one transaction. *)
Track(p) ==
  /\ pc[p] = "assessed" /\ fetched[p].outcome # "contract_drift"
  /\ LET f    == fetched[p]
         new  == f.jobs \ known
         back == f.jobs \cap (known \ active)
         gone == IF Authorized(f) THEN active \ f.jobs ELSE {}
     IN  /\ ~(Authorized(f) /\ Suspicious(f))
         /\ known' = known \cup f.jobs
         /\ active' = (active \cup f.jobs) \ gone
         /\ Record(new, back, gone)
         /\ Count(new, back, gone)
         /\ Sync(f, active')
         /\ Finish(p, f)
  /\ UNCHANGED <<board, title>>

(* An exception anywhere rolls the transaction back and marks the run      *)
(* failed; a crash leaves its row running.  Neither is read again.         *)
Fail(p) ==
  /\ pc[p] # "idle"
  /\ Ends(p)
  /\ Forgotten(p)
  /\ UNCHANGED <<board, title, inventory>>

(* The provider edits its board: a posting comes, goes or is reworded. *)
Edit ==
  /\ \E q \in Posting :
       \/ board' \in {board \cup {q}, board \ {q}} /\ title' = title
       \/ \E g \in Canonical : title' = [title EXCEPT ![q] = g] /\ board' = board
  /\ <<board', title'>> # <<board, title>>
  /\ UNCHANGED <<inventory, runs, pc, fetched, began>>

(* Time passes: the last success is no fresh baseline any more. *)
Age ==
  /\ fresh
  /\ fresh' = FALSE
  /\ UNCHANGED <<board, title, inventory, accepted, earlier, outrun, recent, pc, fetched, began>>

Next ==
  \/ \E p \in Crawler :
       \/ Start(p) \/ FetchSnapshot(p) \/ FetchOther(p) \/ Assess(p)
       \/ Drift(p) \/ Track(p) \/ Fail(p)
  \/ Edit \/ Age

Spec == Init /\ [][Next]_vars

(* run_daily runs every source again and again, a run ends, a fetch that   *)
(* is tried forever answers some time, and a baseline without a new        *)
(* success grows old.  Nothing is assumed of Edit, of partial answers or   *)
(* of crashes.                                                             *)
FairSpec ==
  /\ Spec
  /\ \A p \in Crawler :
       /\ WF_vars(Start(p))
       /\ SF_vars(FetchSnapshot(p))
       /\ SF_vars(Track(p) /\ Authorized(fetched[p]))
       /\ WF_vars(Fail(p))
  /\ WF_vars(Age)

-----------------------------------------------------------------------------
(* The counts of the finished runs add up to the inventory: no posting is  *)
(* counted twice, or closed or reopened without being counted, whatever    *)
(* runs overlap (tracking/service.py, jobs_new + jobs_reactivated -        *)
(* jobs_removed).                                                          *)
LedgerBalances == ledger = Cardinality(active)

(* A posting's event history tells its row: active after "discovered" or   *)
(* "reactivated", inactive after "removed", no row without an event.       *)
EventsTell ==
  \A q \in Posting :
    /\ q \in active <=> lastEvent[q] \in {"discovered", "reactivated"}
    /\ q \in known <=> lastEvent[q] # "none"

(* After every transaction a canonical opportunity counts exactly the      *)
(* active postings linked to it, those of groups the run did not fetch     *)
(* included (refresh_canonical_rollups); no row is left without a group.   *)
RollupSound ==
  /\ variants = RollUp(active, link)
  /\ \A q \in known : link[q] # None

(* What is derived from the rows, the events and the counts of the groups, *)
(* agrees with them after every transaction.                               *)
InventorySound == EventsTell /\ RollupSound

(* While its baseline is fresh, a mindrift run that closes GuardMissing    *)
(* rows or more leaves an inventory within GuardPercent of the rows it     *)
(* found active (guard_suspicious_mindrift_partial_crawl).                 *)
SharpDropRefused ==
  [][Provider = "mindrift" /\ fresh /\ Cardinality(active \ active') >= GuardMissing
       => (Cardinality(active) - Cardinality(active')) * 100
            <= GuardPercent * Cardinality(active)]_vars

(* The guard cannot block a real mass closure for ever: once the board     *)
(* stays as it is and is not empty, the inventory is the board again and   *)
(* again (tracking/service.py:247-251, "allow that complete snapshot to recover  *)
(* freshness").                                                            *)
Converges == <>[][FALSE]_<<board, title>> => []<>(active = board \/ board = {})

(* The count the next drop is measured against is never above the          *)
(* inventory: a failed, partial or anomalous run does not replace it, and  *)
(* no run closes rows without replacing it (last_accepted_snapshot_count). *)
(* Excepted: a success that finished in the second of one that started     *)
(* after it closes rows without becoming the last success.                 *)
AcceptedIsFloor == accepted # None /\ ~outrun => accepted <= Cardinality(active)

(* docs/greenhouse_pilot.md:21-25: a result retaining less than the policy *)
(* asks of the last accepted count "cannot close missing rows".  The code  *)
(* does NOT keep it: the count is read before the run's transaction.       *)
AnomalousClosesNothing ==
  [][(/\ Provider = "greenhouse" /\ accepted # None /\ accepted >= RetainMinimum
      /\ ~(active \subseteq active'))
       => Cardinality(active') * 100 >= RetainPercent * accepted]_vars
=============================================================================
