------------------------- MODULE ObservationLedger -------------------------
(***************************************************************************)
(* The observation ledger of the Greenhouse pilot: a directory to which    *)
(* each invocation appends a bundle and then its receipt, under a lock.    *)
(* A recorder may die, or fail, between any two writes; nothing repairs    *)
(* the directory, and its readers accept a whole history or none.  What    *)
(* they accept decides the readiness of a board.                           *)
(***************************************************************************)
EXTENDS Integers, Sequences, SequencesExt

CONSTANTS Recorders, Nobody,
          MaxClock,      \* bound on the clock
          MaxBundles,    \* bound on the history
          Streak, Span   \* operational observations, and what they span, for readiness

ASSUME LedgerBounds == {MaxClock, MaxBundles, Streak, Span} \subseteq Nat /\ Streak > 0 /\ Nobody \notin Recorders

VARIABLES
  clock,          \* datetime.now
  directories,    \* of bundles/, receipts/, working/, the ones made
  bundles, receipts,  \* the published artifacts, in the order of their sequences
  residue,        \* whether working/ holds a staging file of its own
  linked,         \* the published artifact whose staging file is still there
  lockedBy,       \* .ledger-lock
  recorder        \* the invocations at work

ledgerVars == <<clock, directories, bundles, receipts, residue, linked, lockedBy, recorder>>
artifacts == <<directories, bundles, receipts, residue, linked>>

Evidence == {"operational", "changed", "failed"}
NewRecorder == [step |-> "idle", started |-> 0, completed |-> 0, published |-> 0]

At(i, step) == recorder[i].step = step
Turns(i, step) == recorder' = [recorder EXCEPT ![i].step = step]
Leaves(i) == /\ recorder' = [recorder EXCEPT ![i] = NewRecorder]
             /\ lockedBy' = IF lockedBy = i THEN Nobody ELSE lockedBy

\* _validate_ledger_layout and the file checks: no half-made layout, no hard link.
LayoutValid ==
  /\ "bundles" \in directories <=> "receipts" \in directories
  /\ linked = "none"

Continuous ==
  \A n \in 2..Len(bundles) :
    bundles[n].started > bundles[n - 1].completed /\ receipts[n] > receipts[n - 1]

\* _load_verified_ledger_unlocked: the whole history, or an error.
Verified ==
  /\ LayoutValid /\ Len(bundles) = Len(receipts)
  /\ Continuous
  /\ \A n \in 1..Len(bundles) :
       bundles[n].started < bundles[n].completed /\ receipts[n] >= bundles[n].completed

Starts(i) ==
  /\ At(i, "idle")
  /\ recorder' = [recorder EXCEPT ![i].step = "started", ![i].started = clock]
  /\ UNCHANGED <<clock, artifacts, lockedBy>>

\* The boards are fetched and judged.
Completes(i) ==
  /\ At(i, "started")
  /\ LET started == recorder[i].started
     IN  recorder' = [recorder EXCEPT ![i].step = "completed",
                        ![i].completed = IF clock > started THEN clock ELSE started + 1]
  /\ UNCHANGED <<clock, artifacts, lockedBy>>

Locks(i) ==
  /\ At(i, "completed") /\ lockedBy = Nobody
  /\ lockedBy' = i /\ Turns(i, "locked")
  /\ UNCHANGED <<clock, artifacts>>

\* A ledger that has artifacts is verified; another gets its directories, one at a time.
Loads(i) ==
  /\ At(i, "locked")
  /\ \/ /\ directories \cap {"bundles", "receipts"} = {} /\ LayoutValid
        /\ directories' = directories \cup {"bundles"} /\ Turns(i, "making") /\ UNCHANGED residue
     \/ /\ directories \cap {"bundles", "receipts"} # {} /\ Verified
        /\ directories' = directories \cup {"working"}
        /\ residue' = FALSE /\ Turns(i, "loaded")
  /\ UNCHANGED <<clock, bundles, receipts, linked, lockedBy>>

Makes(i) ==
  /\ At(i, "making")
  /\ \/ "receipts" \notin directories /\ directories' = directories \cup {"receipts"} /\ UNCHANGED recorder
     \/ /\ "receipts" \in directories
        /\ directories' = directories \cup {"working"} /\ Turns(i, "loaded")
  /\ UNCHANGED <<clock, bundles, receipts, residue, linked, lockedBy>>

\* Mutant: the chronology of the invocation is not compared with the head.
PlanUnordered(i) ==
  /\ At(i, "loaded") /\ Len(bundles) < MaxBundles
  /\ clock >= recorder[i].completed
  /\ (bundles # <<>> => clock > Last(receipts))
  /\ recorder' = [recorder EXCEPT ![i].step = "planned", ![i].published = clock]
  /\ UNCHANGED <<clock, artifacts, lockedBy>>

\* _validate_append_plan, before anything is staged.
Plans(i) ==
  /\ At(i, "loaded") /\ Len(bundles) < MaxBundles
  /\ clock >= recorder[i].completed
  /\ (bundles # <<>> => clock > Last(receipts) /\ recorder[i].started > Last(bundles).completed)
  /\ recorder' = [recorder EXCEPT ![i].step = "planned", ![i].published = clock]
  /\ UNCHANGED <<clock, artifacts, lockedBy>>

\* _publish_artifact, once for the bundle and once for the receipt: a staging file is
\* written, linked to its name and unlinked.
Stages(i) ==
  /\ \/ At(i, "planned") /\ Turns(i, "bundle_staged")
     \/ At(i, "bundled") /\ Turns(i, "receipt_staged")
  /\ residue' = TRUE
  /\ UNCHANGED <<clock, directories, bundles, receipts, linked, lockedBy>>

\* The report was evaluated within the invocation (another is refused).  Its evidence for
\* the board is operational, operational under another contract than before, or neither.
LinksBundle(i) ==
  /\ At(i, "bundle_staged") /\ Turns(i, "bundle_linked")
  /\ \E evidence \in Evidence, observed \in recorder[i].started..recorder[i].completed :
       bundles' = Append(bundles, [started |-> recorder[i].started, observed |-> observed,
                                   completed |-> recorder[i].completed, evidence |-> evidence])
  /\ linked' = "bundle" /\ residue' = FALSE
  /\ UNCHANGED <<clock, directories, receipts, lockedBy>>

LinksReceipt(i) ==
  /\ At(i, "receipt_staged") /\ Turns(i, "receipt_linked")
  /\ receipts' = Append(receipts, recorder[i].published)
  /\ linked' = "receipt" /\ residue' = FALSE
  /\ UNCHANGED <<clock, directories, bundles, lockedBy>>

Unlinks(i) ==
  /\ \/ At(i, "bundle_linked") /\ Turns(i, "bundled") /\ UNCHANGED lockedBy
     \/ At(i, "receipt_linked") /\ Leaves(i)
  /\ linked' = "none"
  /\ UNCHANGED <<clock, directories, bundles, receipts, residue>>

\* An error or a refusal: the invocation's own staging file goes, what it published stays.
RecorderFails(i) ==
  /\ recorder[i].step # "idle" /\ Leaves(i)
  /\ IF recorder[i].step \in {"bundle_linked", "receipt_linked"} THEN linked' = "none" ELSE UNCHANGED linked
  /\ IF recorder[i].step \in {"bundle_staged", "receipt_staged"} THEN residue' = FALSE ELSE UNCHANGED residue
  /\ UNCHANGED <<clock, directories, bundles, receipts>>

\* The process dies: the lock goes with it, its files stay as they are.
RecorderDies(i) ==
  /\ ~At(i, "idle") /\ Leaves(i)
  /\ UNCHANGED <<clock, artifacts>>

\* The clock goes on; it may also be set back.
ClockMoves ==
  /\ clock' \in {clock + 1, clock - 1} \cap (1..MaxClock)
  /\ UNCHANGED <<artifacts, lockedBy, recorder>>

InitLedger ==
  /\ clock = 1 /\ directories = {} /\ bundles = <<>> /\ receipts = <<>>
  /\ residue = FALSE /\ linked = "none" /\ lockedBy = Nobody
  /\ recorder = [i \in Recorders |-> NewRecorder]

NextLedger ==
  \/ \E i \in Recorders :
       \/ Starts(i) \/ Completes(i) \/ Locks(i) \/ Loads(i) \/ Makes(i) \/ Plans(i)
       \/ Stages(i) \/ LinksBundle(i) \/ LinksReceipt(i) \/ Unlinks(i)
       \/ RecorderFails(i) \/ RecorderDies(i)
  \/ ClockMoves

SpecLedger == InitLedger /\ [][NextLedger]_ledgerVars

----------------------------------------------------------------------------
\* _evaluate_board_readiness: the trailing streak of a verified history.
Trailing[n \in Nat] ==
  IF n = 0 \/ n > Len(bundles) THEN <<>>
  ELSE CASE bundles[n].evidence = "operational" -> Append(Trailing[n - 1], bundles[n])
         [] bundles[n].evidence = "changed" -> <<bundles[n]>>
         [] OTHER -> <<>>

SnapshotReady ==
  Verified /\
  LET trail == Trailing[Len(bundles)]
  IN  Len(trail) >= Streak /\ Last(trail).observed - Head(trail).observed >= Span

\* Only an interruption makes a history unreadable: what a recorder publishes whole is
\* what the readers accept, although the clock moves and recorders overlap.  And a receipt
\* is only of a bundle that is there (record_observation_bundle, _validate_append_plan).
UnreadableOnlyWhenInterrupted ==
  /\ Len(receipts) \in {Len(bundles), Len(bundles) - 1}
  /\ lockedBy = Nobody /\ ~Verified =>
       \/ Len(receipts) # Len(bundles)
       \/ ~LayoutValid

\* A board becomes ready only through observations made apart from each other, over the
\* time asked for, none of the last of them failed (docs/greenhouse_pilot.md:139-144).
ReadinessIsEarned ==
  SnapshotReady =>
    \E first \in 1..(Len(bundles) - Streak + 1) :
      /\ \A n \in first..Len(bundles) :
           bundles[n].evidence = "operational" \/ (n = first /\ bundles[n].evidence = "changed")
      /\ \A m, n \in first..Len(bundles) : m < n => bundles[m].completed < bundles[n].started
      /\ bundles[Len(bundles)].observed - bundles[first].observed >= Span

\* Nothing is taken back, a bundle is added only to a history that the readers accept, and
\* only who holds the lock changes the directory, although what was read is not read again
\* before it is appended to (record_observation_bundle).
RefusedIsLeftAlone ==
  [][/\ IsPrefix(bundles, bundles') /\ IsPrefix(receipts, receipts')
     /\ bundles' # bundles => Verified
     /\ lockedBy = Nobody => UNCHANGED artifacts]_ledgerVars

EvidenceSound == [](UnreadableOnlyWhenInterrupted /\ ReadinessIsEarned) /\ RefusedIsLeftAlone

\* docs/greenhouse_pilot.md:162-163 has it that a pair is complete, and so verified, once its
\* receipt is published.  The code does NOT keep it: a recorder that dies before it has
\* unlinked the staging file leaves a receipt with two links, which no reader accepts.
PublishedPairIsRead ==
  lockedBy = Nobody /\ bundles # <<>> /\ Len(receipts) = Len(bundles) => Verified
=============================================================================
