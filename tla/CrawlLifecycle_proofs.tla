------------------------ MODULE CrawlLifecycle_proofs ------------------------
(***************************************************************************)
(* The inventory invariants of CrawlLifecycle, for every set of crawlers,  *)
(* postings and groups, every provider and every threshold.                *)
(***************************************************************************)
EXTENDS CrawlLifecycle, FiniteSetTheorems, SequenceTheorems, WellFoundedInduction,
        TLAPS

(* What the step of a run needs to know of the state it starts from.       *)
Typed ==
  /\ board \subseteq Posting
  /\ title \in [Posting -> Canonical]
  /\ known \subseteq Posting /\ active \subseteq known
  /\ link \in [Posting -> Canonical \cup {None}]
  /\ lastEvent \in [Posting -> {"none", "discovered", "removed", "reactivated"}]
  /\ accepted \in Nat \cup {None} /\ outrun \in BOOLEAN
  /\ pc \in [Crawler -> {"idle", "fetching", "fetched", "assessed"}]
  /\ fetched \in [Crawler -> Result \cup {None}]
  /\ \A p \in Crawler : pc[p] \in {"fetched", "assessed"} => fetched[p] \in Result

Inv == Typed /\ LedgerBalances /\ EventsTell /\ RollupSound /\ AcceptedIsFloor

-----------------------------------------------------------------------------
(* A run's three sets are what the inventory gains and loses.              *)
LEMMA InventoryCount ==
  ASSUME NEW jobs \in SUBSET Posting, NEW rows \in SUBSET Posting, NEW live \in SUBSET rows,
         NEW gone \in SUBSET (live \ jobs)
  PROVE  Cardinality((live \cup jobs) \ gone)
           = Cardinality(live) + Cardinality(jobs \ rows)
             + Cardinality(jobs \cap (rows \ live)) - Cardinality(gone)
<1> DEFINE new == jobs \ rows
           back == jobs \cap (rows \ live)
<1>1. IsFiniteSet(Posting)
  BY CrawlAssumption
<1>2. /\ IsFiniteSet(live) /\ IsFiniteSet(new) /\ IsFiniteSet(back) /\ IsFiniteSet(gone)
      /\ IsFiniteSet(live \cup new) /\ IsFiniteSet((live \cup new) \cup back)
  <2>1. /\ live \subseteq Posting /\ new \subseteq Posting /\ back \subseteq Posting
        /\ gone \subseteq Posting
        /\ live \cup new \subseteq Posting /\ (live \cup new) \cup back \subseteq Posting
    OBVIOUS
  <2> QED
    BY <1>1, <2>1, FS_Subset
<1>3. Cardinality(live \cup new) = Cardinality(live) + Cardinality(new)
  <2>1. live \cap new = {}
    OBVIOUS
  <2>2. /\ Cardinality(live \cup new)
             = Cardinality(live) + Cardinality(new) - Cardinality(live \cap new)
        /\ Cardinality(live) \in Nat /\ Cardinality(new) \in Nat
    BY <1>2, FS_Union, FS_CardinalityType
  <2> HIDE DEF new
  <2> QED
    BY <2>1, <2>2, FS_EmptySet
<1>4. Cardinality((live \cup new) \cup back)
        = Cardinality(live) + Cardinality(new) + Cardinality(back)
  <2>1. (live \cup new) \cap back = {}
    OBVIOUS
  <2>2. /\ Cardinality((live \cup new) \cup back)
             = Cardinality(live \cup new) + Cardinality(back)
               - Cardinality((live \cup new) \cap back)
        /\ Cardinality(live) \in Nat /\ Cardinality(new) \in Nat /\ Cardinality(back) \in Nat
    BY <1>2, FS_Union, FS_CardinalityType
  <2> HIDE DEF new, back
  <2> QED
    BY <1>3, <2>1, <2>2, FS_EmptySet
<1>5. (live \cup jobs) \ gone = ((live \cup new) \cup back) \ gone
  OBVIOUS
<1>6. ((live \cup new) \cup back) \cap gone = gone
  OBVIOUS
<1>7. Cardinality(((live \cup new) \cup back) \ gone)
        = Cardinality((live \cup new) \cup back) - Cardinality(gone)
  <2> HIDE DEF new, back
  <2> QED
    BY <1>2, <1>6, FS_Difference
<1> HIDE DEF new, back
<1>8. (live \cup jobs) \ gone = ((live \cup new) \cup back) \ gone
  BY <1>5
<1>9. Cardinality((live \cup jobs) \ gone)
        = Cardinality(live) + Cardinality(new) + Cardinality(back) - Cardinality(gone)
  <2> DEFINE after == (live \cup jobs) \ gone
             all   == (live \cup new) \cup back
             rest  == all \ gone
  <2>1. after = rest
    BY <1>8
  <2>2. Cardinality(rest) = Cardinality(all) - Cardinality(gone)
    BY <1>7
  <2>3. Cardinality(all) = Cardinality(live) + Cardinality(new) + Cardinality(back)
    BY <1>4
  <2> HIDE DEF after, all, rest
  <2>4. /\ Cardinality(live) \in Nat /\ Cardinality(new) \in Nat
        /\ Cardinality(back) \in Nat /\ Cardinality(gone) \in Nat
    BY <1>2, FS_CardinalityType
  <2>5. Cardinality(after)
          = Cardinality(live) + Cardinality(new) + Cardinality(back) - Cardinality(gone)
    BY <2>1, <2>2, <2>3, <2>4
  <2> QED
    BY <2>5 DEF after
<1> QED
  BY <1>9 DEF new, back

-----------------------------------------------------------------------------
\* The first state of the inventory.
LEMMA InvInit == Init => Inv
<1> SUFFICES ASSUME Init PROVE Inv
  OBVIOUS
<1>1. Typed
  BY DEF Init, Typed
<1>2. LedgerBalances /\ EventsTell /\ AcceptedIsFloor
  BY FS_EmptySet DEF Init, LedgerBalances, EventsTell, AcceptedIsFloor
<1>3. RollupSound
  <2>1. \A c \in Canonical : {q \in active : link[q] = c} = {}
    BY DEF Init
  <2>2. RollUp(active, link) = [c \in Canonical |-> 0]
    BY <2>1, FS_EmptySet DEF RollUp
  <2> QED
    BY <2>2 DEF Init, RollupSound
<1> QED
  BY <1>1, <1>2, <1>3 DEF Inv

(* The steps that leave the inventory and the last accepted count alone.   *)
LEMMA InventoryKept ==
  ASSUME Inv, Typed', UNCHANGED inventory, UNCHANGED <<accepted, outrun>>
  PROVE  Inv'
BY DEF Inv, inventory, LedgerBalances, EventsTell, RollupSound, RollUp, AcceptedIsFloor

\* One posting tracked keeps the balance of the run and the shape of the rows.
LEMMA TrackKeeps ==
  ASSUME Inv, NEW p \in Crawler, Track(p)
  PROVE  Inv'
<1> DEFINE f    == fetched[p]
           new  == f.jobs \ known
           back == f.jobs \cap (known \ active)
           gone == IF Authorized(f) THEN active \ f.jobs ELSE {}
<1>1. /\ f \in Result /\ f.jobs \in SUBSET Posting
      /\ f.title \in [Posting -> Canonical \cup {None}]
      /\ \A q \in f.jobs : f.title[q] \in Canonical
      /\ known \subseteq Posting /\ active \subseteq known
  BY DEF Track, Inv, Typed, Result, Answers
<1>2. /\ known' = known \cup f.jobs
      /\ active' = (active \cup f.jobs) \ gone
      /\ Record(new, back, gone) /\ Count(new, back, gone)
      /\ Sync(f, active') /\ Finish(p, f)
      /\ UNCHANGED <<board, title>>
  BY DEF Track
<1>3. gone \subseteq active \ f.jobs
  OBVIOUS
<1>4. Typed'
  <2>1. known' \subseteq Posting /\ active' \subseteq known'
    BY <1>1, <1>2
  <2>2. link' \in [Posting -> Canonical \cup {None}]
    BY <1>1, <1>2 DEF Sync, Inv, Typed
  <2>3. lastEvent' \in [Posting -> {"none", "discovered", "removed", "reactivated"}]
    BY <1>2 DEF Record, Inv, Typed
  <2>4. /\ pc' \in [Crawler -> {"idle", "fetching", "fetched", "assessed"}]
        /\ fetched' \in [Crawler -> Result \cup {None}]
        /\ \A q \in Crawler : pc'[q] \in {"fetched", "assessed"} => fetched'[q] \in Result
    BY <1>2 DEF Finish, Ends, Inv, Typed
  <2>5. accepted' \in Nat \cup {None} /\ outrun' \in BOOLEAN
    <3>1. Cardinality(f.jobs) \in Nat
      BY <1>1, CrawlAssumption, FS_Subset, FS_CardinalityType
    <3> QED
      BY <1>2, <3>1 DEF Finish, Accept, Forgotten, Inv, Typed
  <2> QED
    BY <1>2, <2>1, <2>2, <2>3, <2>4, <2>5 DEF Inv, Typed
<1>5. LedgerBalances'
  <2>1. Cardinality(active')
          = Cardinality(active) + Cardinality(new) + Cardinality(back) - Cardinality(gone)
    <3> HIDE DEF f
    <3>1. f.jobs \in SUBSET Posting /\ known \in SUBSET Posting /\ active \in SUBSET known
      BY <1>1
    <3>2. gone \in SUBSET (active \ f.jobs)
      BY <1>3
    <3> HIDE DEF gone
    <3>3. Cardinality((active \cup f.jobs) \ gone)
            = Cardinality(active) + Cardinality(new) + Cardinality(back) - Cardinality(gone)
      <4> DEFINE jobs == f.jobs
      <4>1. jobs \in SUBSET Posting
        BY <3>1
      <4>2. gone \in SUBSET (active \ jobs)
        BY <3>2
      <4> HIDE DEF jobs
      <4>3. Cardinality((active \cup jobs) \ gone)
              = Cardinality(active) + Cardinality(jobs \ known)
                + Cardinality(jobs \cap (known \ active)) - Cardinality(gone)
        <5>1. known \in SUBSET Posting /\ active \in SUBSET known
          BY <3>1
        <5> QED
          BY <4>1, <4>2, <5>1, InventoryCount
      <4> QED
        BY <4>3 DEF jobs
    <3> QED
      BY <1>2, <3>3
  <2> QED
    BY <1>2, <2>1 DEF Count, LedgerBalances, Inv
<1>6. EventsTell'
  <2> SUFFICES ASSUME NEW q \in Posting
               PROVE  /\ q \in active' <=> lastEvent'[q] \in {"discovered", "reactivated"}
                      /\ q \in known' <=> lastEvent'[q] # "none"
    BY DEF EventsTell
  <2>1. /\ q \in active <=> lastEvent[q] \in {"discovered", "reactivated"}
        /\ q \in known <=> lastEvent[q] # "none"
    BY DEF Inv, EventsTell
  <2>2. lastEvent'[q] = IF q \in new THEN "discovered"
                        ELSE IF q \in back THEN "reactivated"
                        ELSE IF q \in gone THEN "removed" ELSE lastEvent[q]
    BY <1>2 DEF Record
  <2> QED
    BY <1>1, <1>2, <1>3, <2>1, <2>2
<1>7. RollupSound'
  <2>1. variants' = RollUp(active', link')
    BY <1>2 DEF Sync
  <2>2. ASSUME NEW q \in known'
        PROVE  link'[q] # None
    <3>1. q \in Posting /\ link'[q] = IF q \in f.jobs THEN f.title[q] ELSE link[q]
      BY <1>1, <1>2 DEF Sync
    <3>2. CASE q \in f.jobs
      BY <1>1, <3>1, <3>2, CrawlAssumption
    <3>3. CASE q \notin f.jobs
      BY <1>2, <3>1, <3>3 DEF Inv, RollupSound
    <3> QED
      BY <3>2, <3>3
  <2> QED
    BY <2>1, <2>2 DEF RollupSound, RollUp
<1>8. AcceptedIsFloor'
  <2>1. CASE Succeeds(f) /\ ~f.sample
    <3>1. active' = f.jobs
      BY <1>2, <2>1 DEF Succeeds
    <3>2. accepted' \in {Cardinality(f.jobs), None} \/ outrun'
      BY <1>2, <2>1 DEF Finish, Accept
    <3>3. Cardinality(f.jobs) \in Nat
      BY <1>1, CrawlAssumption, FS_Subset, FS_CardinalityType
    <3> HIDE DEF f
    <3> QED
      BY <3>1, <3>2, <3>3 DEF AcceptedIsFloor
  <2>2. CASE ~(Succeeds(f) /\ ~f.sample)
    <3>1. accepted' = accepted /\ outrun' = outrun
      BY <1>2, <2>2 DEF Finish, Forgotten
    <3>2. ~Authorized(f)
      BY <2>2 DEF Succeeds, Authorized
    <3>3. active \subseteq active' /\ active' \subseteq Posting
      BY <1>1, <1>2, <3>2
    <3>4. /\ Cardinality(active) <= Cardinality(active')
          /\ Cardinality(active) \in Nat /\ Cardinality(active') \in Nat
      BY <1>1, <3>3, CrawlAssumption, FS_Subset, FS_CardinalityType
    <3>5. accepted = None \/ outrun \/ (accepted \in Nat /\ accepted <= Cardinality(active))
      BY DEF Inv, Typed, AcceptedIsFloor
    <3>6. accepted = None \/ outrun \/ accepted <= Cardinality(active')
      BY <3>4, <3>5
    <3> QED
      BY <3>1, <3>6 DEF AcceptedIsFloor
  <2> QED
    BY <2>1, <2>2
<1> QED
  BY <1>4, <1>5, <1>6, <1>7, <1>8 DEF Inv

\* Every step keeps the inductive invariant.
LEMMA InvNext == Inv /\ [Next]_vars => Inv'
<1> SUFFICES ASSUME Inv, [Next]_vars PROVE Inv'
  OBVIOUS
<1>1. ASSUME NEW p \in Crawler, Start(p)
      PROVE  Inv'
  <2>1. Typed'
    BY <1>1 DEF Start, inventory, runs, Inv, Typed
  <2> QED
    BY <1>1, <2>1, InventoryKept DEF Start, runs
<1>2. ASSUME NEW p \in Crawler, NEW g \in Result, Fetch(p, g)
      PROVE  Inv'
  <2>1. Typed'
    BY <1>2 DEF Fetch, inventory, runs, Inv, Typed
  <2> QED
    BY <1>2, <2>1, InventoryKept DEF Fetch, runs
<1>3. ASSUME NEW p \in Crawler, FetchSnapshot(p) \/ FetchOther(p)
      PROVE  Inv'
  <2>1. ASSUME NEW jobs \in SUBSET Posting,
               NEW outcome \in Outcome, NEW complete \in BOOLEAN, NEW sample \in BOOLEAN
        PROVE  Answer(jobs, outcome, complete, sample) \in Result
    BY DEF Answer, Result, Answers, Inv, Typed
  <2>2. board \in SUBSET Posting /\ {} \in SUBSET Posting
    BY DEF Inv, Typed
  <2>3. {"success", "partial", "contract_drift"} \subseteq Outcome
    BY DEF Outcome
  <2>4. PICK g \in Result : Fetch(p, g)
    BY <1>3, <2>1, <2>2, <2>3 DEF FetchSnapshot, FetchOther
  <2> QED
    BY <1>2, <2>4
<1>4. ASSUME NEW p \in Crawler, Assess(p)
      PROVE  Inv'
  <2>1. fetched[p] \in Result /\ [fetched[p] EXCEPT !.outcome = "anomalous"] \in Result
    BY <1>4 DEF Assess, Inv, Typed, Result, Answers, Outcome
  <2>2. fetched' \in [Crawler -> Result \cup {None}] /\ fetched'[p] \in Result
        /\ \A q \in Crawler \ {p} : fetched'[q] = fetched[q]
    BY <1>4, <2>1 DEF Assess, Inv, Typed
  <2>3. Typed'
    BY <1>4, <2>2 DEF Assess, inventory, runs, Inv, Typed
  <2> QED
    BY <1>4, <2>3, InventoryKept DEF Assess, runs
<1>5. ASSUME NEW p \in Crawler, Drift(p)
      PROVE  Inv'
  <2>1. Typed'
    BY <1>5 DEF Drift, Finish, Forgotten, Ends, Succeeds, inventory, Inv, Typed
  <2>2. UNCHANGED <<accepted, outrun>>
    BY <1>5 DEF Drift, Finish, Forgotten, Succeeds
  <2> QED
    BY <1>5, <2>1, <2>2, InventoryKept DEF Drift
<1>6. ASSUME NEW p \in Crawler, Fail(p)
      PROVE  Inv'
  <2>1. Typed'
    BY <1>6 DEF Fail, Forgotten, Ends, inventory, Inv, Typed
  <2> QED
    BY <1>6, <2>1, InventoryKept DEF Fail, Forgotten
<1>7. ASSUME Edit
      PROVE  Inv'
  <2>1. Typed'
    BY <1>7 DEF Edit, inventory, runs, Inv, Typed
  <2> QED
    BY <1>7, <2>1, InventoryKept DEF Edit, runs
<1>8. ASSUME Age
      PROVE  Inv'
  <2>1. Typed'
    BY <1>8 DEF Age, inventory, Inv, Typed
  <2> QED
    BY <1>8, <2>1, InventoryKept DEF Age
<1>9. CASE UNCHANGED vars
  <2>1. Typed'
    BY <1>9 DEF vars, inventory, runs, Inv, Typed
  <2> QED
    BY <1>9, <2>1, InventoryKept DEF vars, runs
<1> QED
  BY <1>1, <1>3, <1>4, <1>5, <1>6, <1>7, <1>8, <1>9, TrackKeeps DEF Next

\* The inductive invariant of the inventory: rows, keys and the counts of a run agree in
\* every state (repository.py, tracking/service.py).
THEOREM InventoryInvariant == Spec => []Inv
BY InvInit, InvNext, PTL DEF Spec

-----------------------------------------------------------------------------
(* The counts of the finished runs add up to the active rows.              *)
THEOREM LedgerTheorem == Spec => []LedgerBalances
<1>1. Inv => LedgerBalances
  BY DEF Inv
<1> QED
  BY <1>1, InventoryInvariant, PTL

(* The event history tells every row's state.                              *)
THEOREM EventsTheorem == Spec => []EventsTell
<1>1. Inv => EventsTell
  BY DEF Inv
<1> QED
  BY <1>1, InventoryInvariant, PTL

(* Every canonical opportunity counts exactly its active postings.         *)
THEOREM RollupTheorem == Spec => []RollupSound
<1>1. Inv => RollupSound
  BY DEF Inv
<1> QED
  BY <1>1, InventoryInvariant, PTL

(* Events and counts agree with the rows after every transaction.          *)
THEOREM InventoryTheorem == Spec => []InventorySound
<1>1. EventsTell /\ RollupSound => InventorySound
  BY DEF InventorySound
<1> QED
  BY <1>1, EventsTheorem, RollupTheorem, PTL

(* The last accepted count never exceeds the inventory, unless a success   *)
(* finished since in the second of that count's run and does not count as  *)
(* the last one (last_accepted_snapshot_count).                            *)
THEOREM FloorTheorem == Spec => []AcceptedIsFloor
<1>1. Inv => AcceptedIsFloor
  BY DEF Inv
<1> QED
  BY <1>1, InventoryInvariant, PTL
-----------------------------------------------------------------------------
(* The guard on sharp drops.  Only its baseline, a greatest element of the *)
(* counts, needs more than the inventory's shape: that finitely many       *)
(* naturals have a greatest one.                                           *)

Counts(E) == Seq([count : Nat, elders : E])
Counted == \E E : recent \in Counts(E)

\* A non-empty set of naturals has a least element.
LEMMA Least ==
  ASSUME NEW S \in SUBSET Nat, S # {}
  PROVE  \E n \in S : \A m \in S : n <= m
<1> DEFINE R == OpToRel(<, Nat)
<1>1. IsWellFoundedOn(R, Nat)  BY NatLessThanWellFounded
<1>2. \A x, y \in Nat : y < x => <<y, x>> \in R  BY DEF OpToRel
<1> HIDE DEF R
<1>3. PICK x \in S : \A y \in S : ~(<<y, x>> \in R)
  BY <1>1, WFMin
<1>4. \A y \in S : ~(y < x)
  BY <1>2, <1>3
<1>5. x \in Nat /\ \A y \in S : y \in Nat
  OBVIOUS
<1> QED BY <1>4, <1>5

\* Finitely many naturals have an upper bound.
LEMMA Bounded ==
  ASSUME NEW n \in Nat, NEW c \in [1..n -> Nat]
  PROVE  \E b \in Nat : \A i \in 1..n : c[i] <= b
<1> DEFINE Unbounded == {k \in 0..n : ~\E b \in Nat : \A i \in 1..k : c[i] <= b}
<1>1. SUFFICES ASSUME Unbounded # {} PROVE FALSE
  <2>1. n \notin Unbounded  BY <1>1
  <2> QED BY <2>1
<1>2. Unbounded \in SUBSET Nat  OBVIOUS
<1> HIDE DEF Unbounded
<1>3. PICK k \in Unbounded : \A m \in Unbounded : k <= m
  BY <1>1, <1>2, Least
<1>4. k \in 0..n /\ ~\E b \in Nat : \A i \in 1..k : c[i] <= b
  BY DEF Unbounded
<1>5. k # 0
  BY <1>4
<1>6. k - 1 \in 0..n /\ k - 1 \notin Unbounded
  BY <1>2, <1>3, <1>4, <1>5
<1>7. PICK b \in Nat : \A i \in 1..(k - 1) : c[i] <= b
  BY <1>6 DEF Unbounded
<1>8. c[k] \in Nat  BY <1>4, <1>5
<1>9. \A i \in 1..k : c[i] <= b + c[k]
  BY <1>4, <1>7, <1>8
<1> QED BY <1>4, <1>7, <1>8, <1>9

\* A non-empty set of naturals with an upper bound has a greatest element.
LEMMA Greatest ==
  ASSUME NEW S \in SUBSET Nat, S # {}, NEW b \in Nat, \A m \in S : m <= b
  PROVE  \E n \in S : \A m \in S : m <= n
<1> DEFINE Above == {u \in Nat : \A m \in S : m <= u}
<1>1. Above \in SUBSET Nat /\ b \in Above  OBVIOUS
<1> HIDE DEF Above
<1>2. PICK u \in Above : \A v \in Above : u <= v
  BY <1>1, Least
<1>3. u \in Nat /\ \A m \in S : m <= u
  BY <1>1 DEF Above
<1>4. ASSUME u \notin S PROVE FALSE
  <2>0. \A m \in S : m \in Nat /\ m <= u /\ m # u  BY <1>3, <1>4
  <2>1. \A m \in S : m \in Nat /\ m < u  BY <1>3, <2>0
  <2>2. PICK m \in S : TRUE  OBVIOUS
  <2>4. u - 1 \in Nat  BY <1>3, <2>1, <2>2
  <2>3. u - 1 \in Above  BY <1>3, <2>1, <2>4 DEF Above
  <2> QED BY <1>2, <1>3, <2>3
<1> QED BY <1>3, <1>4

\* The baseline is no less than the rows that are active.
LEMMA BaselineAbove ==
  ASSUME Counted, active \subseteq Posting
  PROVE  Baseline \in Nat /\ Cardinality(active) <= Baseline
<1> DEFINE n == Len(recent)
           c == [i \in 1..n |-> recent[i].count]
           counts == {recent[i].count : i \in 1 .. Len(recent)} \cup {Cardinality(active)}
<1>0. PICK E : recent \in Counts(E)  BY DEF Counted
<1>1. n \in Nat /\ c \in [1..n -> Nat]
  <2>1. n \in Nat /\ \A i \in 1..n : recent[i] \in [count : Nat, elders : E]
    BY <1>0, ElementOfSeq, LenProperties DEF Counts
  <2> QED BY <2>1
<1>2. Cardinality(active) \in Nat
  BY CrawlAssumption, FS_Subset, FS_CardinalityType
<1>3. PICK b \in Nat : \A i \in 1..n : c[i] <= b
  BY <1>1, Bounded
<1>4. counts \in SUBSET Nat /\ counts # {} /\ \A m \in counts : m <= b + Cardinality(active)
  <2>1. \A i \in 1..n : recent[i].count = c[i] /\ c[i] \in Nat  BY <1>1
  <2> HIDE DEF n, c
  <2>2. counts = {c[i] : i \in 1..n} \cup {Cardinality(active)}
    BY <2>1 DEF n
  <2> HIDE DEF counts
  <2> QED BY <1>1, <1>2, <1>3, <2>1, <2>2
<1>5. Baseline = CHOOSE x \in counts : \A m \in counts : m <= x
  BY DEF Baseline
<1>6. Cardinality(active) \in counts  OBVIOUS
<1> HIDE DEF counts
<1>7. \E x \in counts : \A m \in counts : m <= x
  <2>1. b + Cardinality(active) \in Nat  BY <1>2, <1>3
  <2> QED BY <1>4, <2>1, Greatest
<1> QED BY <1>4, <1>5, <1>6, <1>7

\* A drop that a larger baseline tolerates is tolerated for fewer rows.
LEMMA Tolerated ==
  ASSUME NEW A \in Nat, NEW B \in Nat, NEW n \in Nat, A <= B,
         (B - n) * 100 <= GuardPercent * B
  PROVE  (A - n) * 100 <= GuardPercent * A
<1> DEFINE K == 100 - GuardPercent
<1>0. GuardPercent \in Nat  BY CrawlAssumption
<1>1. CASE GuardPercent > 100
  <2>1. 100 * A <= GuardPercent * A  BY <1>0, <1>1
  <2> QED BY <1>0, <2>1
<1>2. CASE GuardPercent <= 100
  <2>1. K \in Nat /\ K * A <= K * B  BY <1>0, <1>2
  <2>2. K * A = 100 * A - GuardPercent * A /\ K * B = 100 * B - GuardPercent * B
    BY <1>0
  <2>3. GuardPercent * A \in Int /\ GuardPercent * B \in Int  BY <1>0
  <2> HIDE DEF K
  <2> QED BY <1>0, <2>1, <2>2, <2>3
<1> QED BY <1>0, <1>1, <1>2
-----------------------------------------------------------------------------
\* The successes kept for the baseline stay successes.
LEMMA ForgetKeeps ==
  ASSUME NEW E, NEW s \in Counts(E), NEW p
  PROVE  Forget(p, s) \in Counts({e \ {p} : e \in E})
<1>1. \A x \in [count : Nat, elders : E] :
        [x EXCEPT !.elders = @ \ {p}] \in [count : Nat, elders : {e \ {p} : e \in E}]
  OBVIOUS
<1>2. Len(s) \in Nat /\ \A i \in 1..Len(s) : s[i] \in [count : Nat, elders : E]
  BY ElementOfSeq, LenProperties DEF Counts
<1>3. Forget(p, s) \in [1..Len(s) -> [count : Nat, elders : {e \ {p} : e \in E}]]
  BY <1>1, <1>2 DEF Forget
<1> DEFINE new == [count : Nat, elders : {e \ {p} : e \in E}]
<1>4. Forget(p, s) \in [1..Len(s) -> new]  BY <1>3
<1> HIDE DEF new
<1>5. Forget(p, s) \in Seq(new)  BY <1>2, <1>4, SeqDef
<1> QED BY <1>5 DEF Counts, new

\* The recent counts stay counts of runs when one is inserted.
LEMMA InsertKeeps ==
  ASSUME NEW E, recent \in Counts(E), NEW p, NEW n \in Nat
  PROVE  Insert(p, n) \in Counts(E \cup {Elders(p)})
<1> DEFINE F == [count : Nat, elders : E \cup {Elders(p)}]
           len == Len(recent)
           older == Cardinality({i \in 1 .. Len(recent) : p \notin recent[i].elders})
           new == [count |-> n, elders |-> Elders(p)]
           all == SubSeq(recent, 1, older) \o <<new>> \o SubSeq(recent, older + 1, len)
<1>1. len \in Nat /\ \A i \in 1..len : recent[i] \in F
  <2>1. len \in Nat /\ \A i \in 1..len : recent[i] \in [count : Nat, elders : E]
    BY ElementOfSeq, LenProperties DEF Counts
  <2>2. [count : Nat, elders : E] \subseteq F  OBVIOUS
  <2> HIDE DEF F, len
  <2> QED BY <2>1, <2>2
<1>2. older \in Nat /\ older <= len
  <2> DEFINE I == {i \in 1 .. Len(recent) : p \notin recent[i].elders}
  <2>1. I \subseteq 1..len  BY Zenon
  <2> HIDE DEF I, len
  <2>2. IsFiniteSet(1..len) /\ Cardinality(1..len) = len
    <3>1. len \in Int /\ 1 \in Int /\ len >= 0  BY <1>1
    <3> QED BY <3>1, FS_Interval
  <2> QED BY <1>1, <2>1, <2>2, FS_Subset, FS_CardinalityType DEF I
<1>3. new \in F  OBVIOUS
<1> HIDE DEF older, new, F
<1>4. SubSeq(recent, 1, older) \in Seq(F) /\ SubSeq(recent, older + 1, len) \in Seq(F)
  BY <1>1, <1>2, SubSeqProperties
<1>5. all \in Seq(F)
  BY <1>3, <1>4
<1>6. Last(BaselineRuns, all) \in Seq(F)
  <2> DEFINE k == Len(all) - BaselineRuns + 1
  <2> HIDE DEF all
  <2>1. Len(all) \in Nat /\ \A i \in 1..Len(all) : all[i] \in F
    BY <1>5, ElementOfSeq, LenProperties
  <2>2. CASE Len(all) <= BaselineRuns  BY <1>5, <2>2 DEF Last
  <2>3. CASE ~(Len(all) <= BaselineRuns)
    <3>0. BaselineRuns \in Nat  BY CrawlAssumption
    <3>1. k \in 1..Len(all) + 1  BY <2>1, <2>3, <3>0
    <3>2. SubSeq(all, k, Len(all)) \in Seq(F)
      BY <2>1, <3>1, SubSeqProperties
    <3> QED BY <2>3, <3>2 DEF Last
  <2> QED BY <2>2, <2>3
<1>7. Insert(p, n) = Last(BaselineRuns, all)
  BY DEF Insert, older, new
<1> QED BY <1>6, <1>7 DEF F, Counts

\* A run that finishes inserts the number of its jobs.
LEMMA FinishCounts ==
  ASSUME Counted, NEW p, NEW f, Cardinality(f.jobs) \in Nat, Finish(p, f)
  PROVE  Counted'
<1>1. PICK E : recent \in Counts(E)  BY DEF Counted
<1>2. \/ recent' = Forget(p, recent)
      \/ recent' = Forget(p, Insert(p, Cardinality(f.jobs)))
  BY DEF Finish, Forgotten
<1>3. Insert(p, Cardinality(f.jobs)) \in Counts(E \cup {Elders(p)})
  BY <1>1, InsertKeeps
<1>4. \E E2 : recent' \in Counts(E2)
  <2>1. CASE recent' = Forget(p, recent)  BY <1>1, <2>1, ForgetKeeps
  <2>2. CASE recent' = Forget(p, Insert(p, Cardinality(f.jobs)))
    BY <1>3, <2>2, ForgetKeeps
  <2> QED BY <1>2, <2>1, <2>2
<1> QED BY <1>4 DEF Counted, Counts

\* Every step keeps the recent counts natural numbers.
LEMMA CountedStays == Inv /\ Counted /\ [Next]_vars => Counted'
<1> SUFFICES ASSUME Inv, Counted, [Next]_vars PROVE Counted'
  OBVIOUS
<1>1. \A q \in Crawler : fetched[q] \in Result => Cardinality(fetched[q].jobs) \in Nat
  BY CrawlAssumption, FS_Subset, FS_CardinalityType DEF Result, Answers
<1>2. ASSUME NEW p \in Crawler, Drift(p) \/ Track(p) PROVE Counted'
  <2>1. pc[p] = "assessed" /\ Finish(p, fetched[p])
    BY <1>2 DEF Drift, Track
  <2>2. Cardinality(fetched[p].jobs) \in Nat
    BY <1>1, <2>1 DEF Inv, Typed
  <2> QED BY <2>1, <2>2, FinishCounts
<1>3. ASSUME NEW p \in Crawler, Fail(p) PROVE Counted'
  <2>1. PICK E : recent \in Counts(E)  BY DEF Counted
  <2>2. recent' \in Counts({e \ {p} : e \in E})
    BY <1>3, <2>1, ForgetKeeps DEF Fail, Forgotten
  <2> QED BY <2>2 DEF Counted, Counts
<1>4. ASSUME UNCHANGED recent PROVE Counted'
  BY <1>4 DEF Counted, Counts
<1> QED
  BY <1>2, <1>3, <1>4
     DEF Next, Start, FetchSnapshot, FetchOther, Fetch, Assess, Edit, Age, runs, vars

\* There are no counts at first.
LEMMA CountedInit == Init => Counted
<1> SUFFICES ASSUME Init PROVE Counted
  OBVIOUS
<1>1. recent \in Counts({})  BY DEF Init, Counts
<1> QED BY <1>1 DEF Counted

\* A step that closes as many rows as the guard looks at was tolerated by it.
DropTolerated ==
  Provider = "mindrift" /\ fresh /\ Cardinality(active \ active') >= GuardMissing
    => (Cardinality(active) - Cardinality(active')) * 100
         <= GuardPercent * Cardinality(active)

\* A step that closes as many rows as the guard looks at was tolerated by it.
LEMMA StepTolerated == Inv /\ Counted /\ [Next]_vars => DropTolerated
<1> SUFFICES ASSUME Inv, Counted, [Next]_vars, Inv' PROVE DropTolerated
  BY InvNext
<1>0. /\ active \subseteq Posting /\ active' \subseteq Posting
      /\ Cardinality(active) \in Nat /\ Cardinality(active') \in Nat /\ GuardPercent \in Nat
  BY CrawlAssumption, FS_Subset, FS_CardinalityType DEF Inv, Typed
<1>1. ASSUME active \subseteq active' PROVE DropTolerated
  <2>1. Cardinality(active) <= Cardinality(active')
    BY <1>0, <1>1, CrawlAssumption, FS_Subset
  <2>2. GuardPercent * Cardinality(active) \in Nat  BY <1>0
  <2> QED BY <1>0, <2>1, <2>2 DEF DropTolerated
<1>2. ASSUME NEW p \in Crawler, Track(p), Authorized(fetched[p]) PROVE DropTolerated
  <2> DEFINE f == fetched[p]
  <2>1. ~Suspicious(f) /\ ~f.sample /\ active' = f.jobs
    BY <1>2 DEF Track, Authorized
  <2>2. CASE active = {}  BY <1>1, <2>2
  <2>3. CASE active # {}
    <3> SUFFICES ASSUME Provider = "mindrift", fresh,
                        Cardinality(active \ active') >= GuardMissing
                 PROVE  (Cardinality(active) - Cardinality(active')) * 100
                          <= GuardPercent * Cardinality(active)
      BY DEF DropTolerated
    <3>1. ~((Baseline - Cardinality(active')) * 100 > GuardPercent * Baseline)
      BY <2>1, <2>3 DEF Suspicious
    <3>2. Baseline \in Nat /\ Cardinality(active) <= Baseline
      <4>1. PICK E : recent \in Counts(E)  BY DEF Counted
      <4> QED BY <1>0, BaselineAbove
    <3>3. (Baseline - Cardinality(active')) * 100 <= GuardPercent * Baseline
      BY <1>0, <3>1, <3>2
    <3> QED BY <1>0, <3>2, <3>3, Tolerated
  <2> QED BY <2>2, <2>3
<1>3. ASSUME NEW p \in Crawler, Track(p), ~Authorized(fetched[p]) PROVE DropTolerated
  <2>1. active \subseteq active'  BY <1>3 DEF Track
  <2> QED BY <1>1, <2>1
<1>4. ASSUME UNCHANGED active PROVE DropTolerated
  BY <1>1, <1>4
<1> QED
  BY <1>2, <1>3, <1>4
     DEF Next, Start, FetchSnapshot, FetchOther, Fetch, Assess, Drift, Fail, Edit, Age,
         inventory, vars

(* While its baseline is fresh, the guard refuses every sharp drop         *)
(* (guard_suspicious_mindrift_partial_crawl), whatever runs overlap.       *)
THEOREM DropTheorem == Spec => SharpDropRefused
<1>1. Inv /\ Counted /\ [Next]_vars
        => [Provider = "mindrift" /\ fresh /\ Cardinality(active \ active') >= GuardMissing
              => (Cardinality(active) - Cardinality(active')) * 100
                   <= GuardPercent * Cardinality(active)]_vars
  BY StepTolerated DEF DropTolerated
<1>2. Spec => [](Inv /\ Counted)
  <2>1. Inv /\ Counted /\ [Next]_vars => (Inv /\ Counted)'
    BY InvNext, CountedStays
  <2> QED BY InvInit, CountedInit, <2>1, PTL DEF Spec
<1> QED BY <1>1, <1>2, PTL DEF Spec, SharpDropRefused
=============================================================================
