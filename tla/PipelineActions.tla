---------------------------- MODULE PipelineActions ----------------------------
(***************************************************************************)
(* The actions a user takes in the browser (wahojobs/pipeline_actions.py): *)
(* each extends an item's ledger by one or two rows, mirrors the state     *)
(* into the old columns of the item, and may write a row of the applicant  *)
(* funnel, all in one transaction, on a database whose reconciliation      *)
(* finds nothing.  The old writers are gone once the database is migrated, *)
(* and the migration backfills every item in its own transaction, so the   *)
(* items it found are there initially.                                     *)
(***************************************************************************)
EXTENDS PipelineLedger

CONSTANTS
  Title, \* a source and a title, as postings give them
  Days   \* bound on the calendar days

ASSUME ActionsAssumption ==
  /\ Days \in Nat \ {0}
  /\ None \notin [status : LegacyStatus, reminder : Reminder \cup {None}]

VARIABLES
  titleOf,    \* the posting of an item, never changed; the URL tells items of
              \* one title apart
  mirror,     \* [status, reminder] of user_pipeline_items, None if there is no row
  applicants, \* applicant_status_updates: [title, status, day] is the update_id
  day,        \* the date of the clock
  fault       \* the call that last failed the checks made after its writes

actions == <<projection, history, answer, titleOf, mirror, applicants, day, fault>>

WORKFLOW_ACTIONS ==
  [save |-> "saved", applied |-> "applied", assessment_started |-> "assessment_started",
   assessment_completed |-> "assessment_completed", accepted |-> "accepted",
   rejected |-> "rejected"]

(* CREATION_ACTION_CONTRACTS *)
CreationActions == {"save", "applied", "not_interested"}

Created == [status |-> "saved", provenance |-> "known", visibility |-> "visible",
            reminder |-> None]

(* deterministic_compatibility_from_state *)
Compatibility(st) ==
  [status |-> IF st.visibility = "hidden" THEN "not_interested"
              ELSE IF st.status # None THEN st.status ELSE "remind_later",
   reminder |-> st.reminder]

(* _validate_current_invariants: a status nobody knows, and nothing to remind of. *)
Adrift(st) == st.status = None /\ st.visibility = "visible" /\ st.reminder = None

-----------------------------------------------------------------------------
(* accepted_noop_state *)
AcceptedNoop(st, action, r) ==
  \/ action \in DOMAIN WORKFLOW_ACTIONS /\ st.status = WORKFLOW_ACTIONS[action]
  \/ action = "remind_later" /\ st.reminder = r
  \/ action = "not_interested" /\ st.visibility = "hidden"
  \/ action = "show_again" /\ st.status = "saved" /\ st.visibility = "visible"

(* _plan_target: None when it raises. *)
Target(st, action, r) ==
  CASE AcceptedNoop(st, action, r) -> st
    [] /\ action \in DOMAIN WORKFLOW_ACTIONS
       /\ st.status = None \/ WORKFLOW_ACTIONS[action] \in Forward(st.status) ->
         [st EXCEPT !.status = WORKFLOW_ACTIONS[action], !.provenance = "known"]
    [] action = "remind_later" -> [st EXCEPT !.reminder = r]
    [] action = "not_interested" -> [st EXCEPT !.visibility = "hidden"]
    [] action = "show_again" /\ st.status # None /\ st.visibility = "hidden" ->
         [st EXCEPT !.visibility = "visible"]
    [] action = "show_again_as_saved" /\ st.status = None /\ st.visibility = "hidden" ->
         [st EXCEPT !.status = "saved", !.provenance = "known", !.visibility = "visible"]
    [] OTHER -> None

Dim(action) ==
  CASE action \in DOMAIN WORKFLOW_ACTIONS -> "workflow"
    [] action = "remind_later" -> "reminder"
    [] OTHER -> "visibility"

(* Mutant: an item of unknown status is shown as saved in one row. *)
RowsUnresolved(st, action, r, k, e) ==
  IF AcceptedNoop(st, action, r)
  THEN <<Row("workflow", "operation_noop", st, st, k, e, action)>>
  ELSE <<Row(Dim(action), "none", st, Target(st, action, r), k, e, action)>>

(* The preparatory row of show_again_as_saved, and _apply_terminal_transition. *)
Rows(st, action, r, k, e) ==
  LET resolved == [st EXCEPT !.status = "saved", !.provenance = "known"]
  IN  IF AcceptedNoop(st, action, r)
      THEN <<Row("workflow", "operation_noop", st, st, k, e, action)>>
      ELSE IF action = "show_again_as_saved"
      THEN <<Row("workflow", "none", st, resolved, None, e, action),
             Row("visibility", "none", resolved, Target(st, action, r), k, e, action)>>
      ELSE <<Row(Dim(action), "none", st, Target(st, action, r), k, e, action)>>

(* APPLICANT_EFFECTS: the funnel row an action that is no no-op writes. *)
Reports(st, action, r) ==
  action \in DOMAIN WORKFLOW_ACTIONS \ {"save"} /\ ~AcceptedNoop(st, action, r)

UpdateId(i, action) == [title |-> titleOf[i], status |-> WORKFLOW_ACTIONS[action], day |-> day]

(* _upsert_applicant_update: a row under the same id keeps the item it names. *)
Upsert(i, action) ==
  LET id == UpdateId(i, action)
  IN  IF \E row \in applicants : row.id = id THEN applicants
      ELSE applicants \cup {[id |-> id, item |-> i]}

(* validate_terminal_operation_metadata of the applicant row: it names this item. *)
Bound(i, st, action, r) ==
  Reports(st, action, r) => [id |-> UpdateId(i, action), item |-> i] \in Upsert(i, action)

(* Mutant: the reminder is not copied to the old column. *)
MirroredStatus(i, st, action, r) ==
  IF AcceptedNoop(st, action, r) /\ mirror[i] # None THEN mirror[i]
  ELSE [status |-> Compatibility(Target(st, action, r)).status,
        reminder |-> IF mirror[i] = None THEN None ELSE mirror[i].reminder]

(* The old columns after the action: a no-op leaves them alone. *)
Mirrored(i, st, action, r) ==
  IF AcceptedNoop(st, action, r) /\ mirror[i] # None THEN mirror[i]
  ELSE Compatibility(Target(st, action, r))

(* The checks made after the writes, which roll all of them back. *)
Checked(i, st, action, r) ==
  /\ Bound(i, st, action, r)
  /\ Mirrored(i, st, action, r) = Compatibility(Target(st, action, r))

(* The part of perform_pipeline_action that follows the first rows. *)
Complete(i, st, first, action, r, k, e) ==
  /\ Target(st, action, r) # None
  /\ Checked(i, st, action, r)
  /\ Extend(i, first \o Rows(st, action, r, k, e), k)
  /\ mirror' = [mirror EXCEPT ![i] = Mirrored(i, st, action, r)]
  /\ applicants' = IF Reports(st, action, r) THEN Upsert(i, action) ELSE applicants
  /\ UNCHANGED <<titleOf, day, fault>>

(* It fails its own checks: nothing stays but the error its caller gets. *)
Fail(i, st, action, r, call) ==
  /\ Target(st, action, r) # None
  /\ ~Checked(i, st, action, r)
  /\ fault' = call
  /\ UNCHANGED <<projection, history, answer, titleOf, mirror, applicants, day>>

-----------------------------------------------------------------------------
(* Ledger diagnostics, mirrors and applicant rows: reconcile_pipeline_state *)
(* has nothing to block on.                                                 *)
Reconciled ==
  /\ Reconciles
  /\ \A i \in Item : mirror[i] = None <=> projection[i] = None
  /\ \A i \in Item : projection[i] # None =>
       /\ mirror[i] = Compatibility(projection[i])
       /\ ~Adrift(projection[i])
  /\ \A i \in Item : \A n \in 1 .. Version(i) :
       LET t == history[i][n]
       IN  t.class = "none" /\ t.request \in DOMAIN WORKFLOW_ACTIONS \ {"save"} =>
             \E row \in applicants : row.item = i /\ row.id.status = t.after.status

(* An item no one has: its row, its first transition and the action on it. *)
Create(i, k, action) ==
  /\ ~Used(k)
  /\ mirror[i] = None
  /\ action \in CreationActions
  /\ LET first == <<Row("workflow", "user_initialization", None, Created, None, 0, action)>>
     IN  \/ Complete(i, Created, first, action, None, k, 0)
         \/ Fail(i, Created, action, None, "creation")

(* An action on an item, at the version its page was rendered with. *)
Act(i, k, e, action, r) ==
  /\ Fresh(i, k, e)
  /\ ~Adrift(projection[i])
  /\ \/ Complete(i, projection[i], << >>, action, r, k, e)
     \/ Fail(i, projection[i], action, r, "update")

Retry(k) == Replay(k) /\ UNCHANGED <<titleOf, mirror, applicants, day, fault>>

Midnight ==
  /\ day < Days
  /\ day' = day + 1
  /\ UNCHANGED <<projection, history, answer, titleOf, mirror, applicants, fault>>

ActionsInit ==
  /\ titleOf \in [Item -> Title]
  /\ \E found \in [Item -> Legacy \cup {None}] :
       /\ mirror = [i \in Item |-> IF found[i] = None THEN None
                                   ELSE [status |-> found[i].status, reminder |-> found[i].reminder]]
       /\ projection = [i \in Item |-> IF found[i] = None THEN None
                                       ELSE LegacyProjection(found[i])]
       /\ history = [i \in Item |-> IF found[i] = None THEN << >>
                       ELSE <<Row("baseline", "none", None, LegacyProjection(found[i]), None, 0, "legacy")>>]
  /\ answer = [k \in Key |-> None]
  /\ applicants = {}
  /\ day = 1
  /\ fault = "none"

(* The browser asks for a reconciled database first. *)
ActionsNext ==
  \/ /\ Reconciled
     /\ \/ \E i \in Item, k \in Key, action \in CreationActions : Create(i, k, action)
        \/ \E i \in Item, k \in Key, e \in 1 .. MaxVersion, action \in SUPPORTED_ACTIONS :
             \E r \in IF action = "remind_later" THEN Reminder ELSE {None} : Act(i, k, e, action, r)
        \/ \E k \in Key : Retry(k)
  \/ Midnight

ActionsSpec == ActionsInit /\ [][ActionsNext]_actions

-----------------------------------------------------------------------------
ActionsTypeOK ==
  /\ LedgerTypeOK
  /\ titleOf \in [Item -> Title]
  /\ mirror \in [Item -> [status : LegacyStatus, reminder : Reminder \cup {None}] \cup {None}]
  /\ applicants \subseteq [id : [title : Title, status : Status, day : 1 .. Days], item : Item]
  /\ day \in 1 .. Days
  /\ fault \in {"none", "creation", "update"}

(* When no two items share a title, the checks a product action makes on   *)
(* its own writes never fail: they are assertions, not behaviour.          *)
NeverMalformed ==
  (\A i, j \in Item : titleOf[i] = titleOf[j] => i = j) => fault = "none"

(* docs/pipeline_state.md: new items may start with Save, Applied, or Not  *)
(* Interested, so none of the three fails because of what the service      *)
(* itself wrote for another item.  The code does NOT keep it when two      *)
(* items share a title.                                                    *)
CreationAccepted == fault # "creation"

(* The applicant funnel has no row of a move the ledger does not have: its *)
(* items moved to that status, by an action that no-ops and hides do not   *)
(* count for.                                                              *)
ApplicantsMoved ==
  \A row \in applicants : \E n \in 1 .. Version(row.item) :
    LET t == history[row.item][n]
    IN  t.class = "none" /\ t.dim = "workflow" /\ t.after.status = row.id.status
          /\ t.request \in DOMAIN WORKFLOW_ACTIONS

(* The ledger, the old columns and the applicant rows tell one story.      *)
RecordsAgree == Reconciled /\ ApplicantsMoved
=============================================================================
