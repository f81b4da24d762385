---------------------------- MODULE PipelineLedger ----------------------------
(***************************************************************************)
(* The pipeline state of a user's items (wahojobs/pipeline_state.py): an   *)
(* append-only ledger of transitions, the projection of its last row, and  *)
(* the answers given to requests that are retried under a key.             *)
(*                                                                         *)
(* Every service call is one IMMEDIATE transaction, so one action.  A call *)
(* that raises changes nothing and has no action.  A transition is named   *)
(* by its place in the item's history, which is its state_version_after.   *)
(***************************************************************************)
EXTENDS Integers, FiniteSets, Sequences

CONSTANTS
  Item,        \* pipeline items
  Key,         \* idempotency keys callers choose
  Reminder,    \* reminder timestamps
  Corrections, \* states a correction may ask for
  Legacy,      \* legacy rows: [status, reminder], reminder None if not valid
  MaxVersion,  \* bound on the transitions of an item
  None

Status == {"recommended", "saved", "applied", "waiting", "assessment_invited",
           "assessment_started", "assessment_completed", "accepted", "active_worker",
           "paid_task_received", "rejected", "expired"}

(* WORKFLOW_TRANSITIONS *)
Forward(s) ==
  CASE s = "recommended" -> {"saved", "applied"}
    [] s = "saved" -> {"applied"}
    [] s = "applied" -> {"waiting", "assessment_invited", "assessment_started"}
    [] s = "waiting" -> {"assessment_invited", "assessment_started"}
    [] s = "assessment_invited" -> {"assessment_started"}
    [] s = "assessment_started" -> {"assessment_completed"}
    [] s = "assessment_completed" -> {"waiting", "accepted", "rejected"}
    [] s = "accepted" -> {"active_worker"}
    [] s = "active_worker" -> {"paid_task_received"}
    [] OTHER -> {}

(* Texts of the legacy column; "other" is any that the backfill does not know. *)
LegacyStatus == Status \cup {"not_interested", "remind_later", "other"}

(* What validate_state accepts. *)
State == [status : Status \cup {None},
          provenance : {"known", "inferred_legacy", "unknown_legacy"},
          visibility : {"visible", "hidden"},
          reminder : Reminder \cup {None}]

Answer == [item : Item, after : State, version : Nat]

ASSUME LedgerAssumption ==
  /\ None \notin Answer
  /\ None \notin Status \cup Key \cup Reminder \cup State
  /\ Corrections \subseteq State
  /\ Legacy \subseteq [status : LegacyStatus, reminder : Reminder \cup {None}]
  /\ MaxVersion \in Nat

VARIABLES
  projection, \* user_pipeline_state, None before initialization
  history,    \* user_pipeline_transitions of an item, by version
  answer      \* the answer a key's caller last received

ledger == <<projection, history, answer>>

Dimension == {"baseline", "workflow", "visibility", "reminder", "undo", "correction"}
Class     == {"none", "user_initialization", "operation_noop"}

SUPPORTED_ACTIONS ==
  {"save", "applied", "assessment_started", "assessment_completed", "accepted", "rejected",
   "remind_later", "not_interested", "show_again", "show_again_as_saved"}

(* What a fingerprint tells apart here. *)
Request == SUPPORTED_ACTIONS \cup
  {"legacy", "change", "resolve", "visible", "hidden", "reminder", "undo", "correct"}

Transition ==
  [dim : Dimension, class : Class, before : State \cup {None}, after : State,
   key : Key \cup {None}, expected : Nat, request : Request, undoOf : Nat, correctionOf : Nat]

Version(i) == Len(history[i])

LedgerTypeOK ==
  /\ projection \in [Item -> State \cup {None}]
  /\ history \in [Item -> Seq(Transition)]
  /\ answer \in [Key -> Answer \cup {None}]
  /\ \A i \in Item : projection[i] = None <=> history[i] = << >>

LedgerInit ==
  /\ projection = [i \in Item |-> None]
  /\ history = [i \in Item |-> << >>]
  /\ answer = [k \in Key |-> None]

-----------------------------------------------------------------------------
(* legacy_projection *)
LegacyProjection(row) ==
  [status     |-> IF row.status \in Status THEN row.status ELSE None,
   provenance |-> IF row.status \in Status THEN "inferred_legacy" ELSE "unknown_legacy",
   visibility |-> IF row.status = "not_interested" THEN "hidden" ELSE "visible",
   reminder   |-> row.reminder]

Used(k) == \E i \in Item : \E n \in 1 .. Version(i) : history[i][n].key = k

Row(dim, class, before, after, k, e, request) ==
  [dim |-> dim, class |-> class, before |-> before, after |-> after, key |-> k,
   expected |-> e, request |-> request, undoOf |-> 0, correctionOf |-> 0]

(* insert_transition of the rows of one transaction, and the projection.   *)
(* The answer may be lost on its way to the caller.                        *)
Extend(i, rows, k) ==
  LET h    == history[i] \o rows
      last == h[Len(h)].after
  IN  /\ Len(h) <= MaxVersion
      /\ history' = [history EXCEPT ![i] = h]
      /\ projection' = [projection EXCEPT ![i] = last]
      /\ \E lost \in BOOLEAN :
           answer' = IF lost \/ k = None THEN answer
                     ELSE [answer EXCEPT ![k] = [item |-> i, after |-> last, version |-> Len(h)]]

(* Mutant: the optimistic check of the version is left to the caller. *)
FreshUnchecked(i, k, e) == ~Used(k) /\ projection[i] # None

(* apply_mutation up to the builder: the key, the projection, the version. *)
Fresh(i, k, e) ==
  /\ ~Used(k)
  /\ projection[i] # None
  /\ Version(i) = e

(* apply_mutation with the state its builder made. *)
Mutate(i, k, e, dim, request, after) ==
  /\ Fresh(i, k, e)
  /\ after # projection[i]
  /\ Extend(i, <<Row(dim, "none", projection[i], after, k, e, request)>>, k)

(* Mutant: a retry is answered with the state the item has by now. *)
ReplayCurrent(k) ==
  \E i \in Item : \E n \in 1 .. Version(i) :
    /\ history[i][n].key = k
    /\ answer' = [answer EXCEPT ![k] = [item |-> i, after |-> projection[i],
                                        version |-> Version(i)]]
    /\ UNCHANGED <<projection, history>>

(* replay_result: the same request under a key that was used. *)
Replay(k) ==
  \E i \in Item : \E n \in 1 .. Version(i) :
    /\ history[i][n].key = k
    /\ answer' = [answer EXCEPT ![k] = [item |-> i, after |-> history[i][n].after,
                                        version |-> n]]
    /\ UNCHANGED <<projection, history>>

-----------------------------------------------------------------------------
(* initialize_projection, as backfill_legacy_pipeline_state calls it. *)
Backfill(i, row) ==
  /\ history[i] = << >>
  /\ Extend(i, <<Row("baseline", "none", None, LegacyProjection(row), None, 0, "legacy")>>, None)

ChangeWorkflow(i, k, e, s) ==
  /\ projection[i] # None /\ projection[i].status # None
  /\ s \in Forward(projection[i].status)
  /\ Mutate(i, k, e, "workflow", "change",
            [projection[i] EXCEPT !.status = s, !.provenance = "known"])

ResolveUnknown(i, k, e, s) ==
  /\ projection[i] # None
  /\ projection[i].status = None /\ projection[i].provenance = "unknown_legacy"
  /\ Mutate(i, k, e, "workflow", "resolve",
            [projection[i] EXCEPT !.status = s, !.provenance = "known"])

SetVisibility(i, k, e, v) ==
  /\ projection[i] # None
  /\ Mutate(i, k, e, "visibility", v, [projection[i] EXCEPT !.visibility = v])

(* set_reminder, and clear_reminder for None. *)
SetReminder(i, k, e, r) ==
  /\ projection[i] # None
  /\ Mutate(i, k, e, "reminder", "reminder", [projection[i] EXCEPT !.reminder = r])

(* require_transition_has_no_child *)
Childless(h, n) == \A m \in 1 .. Len(h) : h[m].undoOf # n /\ h[m].correctionOf # n

(* Mutant: an undo can be undone. *)
UndoableUndo(i, n, e) ==
  /\ history[i][n].dim # "baseline"
  /\ history[i][n].class = "none"
  /\ Childless(history[i], n)
  /\ n = e
  /\ projection[i] = history[i][n].after
  /\ history[i][n].before # None

Undoable(i, n, e) ==
  /\ history[i][n].dim \notin {"baseline", "undo"}
  /\ history[i][n].class = "none"
  /\ Childless(history[i], n)
  /\ n = e
  /\ projection[i] = history[i][n].after
  /\ history[i][n].before # None

UndoTransition(i, k, e, n) ==
  /\ n \in 1 .. Version(i)
  /\ Fresh(i, k, e)
  /\ Undoable(i, n, e)
  /\ history[i][n].before # projection[i]
  /\ Extend(i, <<[Row("undo", "none", projection[i], history[i][n].before, k, e, "undo")
                     EXCEPT !.undoOf = n]>>, k)

Correctable(i, n) ==
  /\ history[i][n].dim \in {"workflow", "correction"}
  /\ history[i][n].class = "none"
  /\ Childless(history[i], n)
  /\ \A m \in n + 1 .. Version(i) : history[i][m].dim \notin {"workflow", "undo", "correction"}

CorrectState(i, k, e, n, target) ==
  /\ n \in 1 .. Version(i)
  /\ Fresh(i, k, e)
  /\ Correctable(i, n)
  /\ target # projection[i]
  /\ Extend(i, <<[Row("correction", "none", projection[i], target, k, e, "correct")
                     EXCEPT !.correctionOf = n]>>, k)

Service(i, k, e) ==
  \/ \E s \in Status : ChangeWorkflow(i, k, e, s) \/ ResolveUnknown(i, k, e, s)
  \/ \E v \in {"visible", "hidden"} : SetVisibility(i, k, e, v)
  \/ \E r \in Reminder \cup {None} : SetReminder(i, k, e, r)
  \/ \E n \in 1 .. e : UndoTransition(i, k, e, n)
  \/ \E n \in 1 .. e, target \in Corrections : CorrectState(i, k, e, n, target)

LedgerNext ==
  \/ \E i \in Item, row \in Legacy : Backfill(i, row)
  \/ \E i \in Item, k \in Key, e \in 1 .. MaxVersion : Service(i, k, e)
  \/ \E k \in Key : Replay(k)

LedgerSpec == LedgerInit /\ [][LedgerNext]_ledger

-----------------------------------------------------------------------------
Ref(t) == IF t.undoOf # 0 THEN t.undoOf ELSE t.correctionOf

(* The transition a chain of corrections goes back to. *)
Root(h) ==
  LET root[n \in 1 .. Len(h)] == IF Ref(h[n]) = 0 THEN n ELSE root[Ref(h[n])]
  IN  root

(* is_genuine_workflow_transition *)
Genuine(t) ==
  /\ t.class = "none"
  /\ t.before # None /\ t.before.status # None
  /\ t.after.status \in Forward(t.before.status)

(* list_effective_funnel_transitions: the last row of every chain that     *)
(* starts at a workflow transition and does not end in an undo.            *)
Effective(h) ==
  {n \in 1 .. Len(h) : /\ h[n].dim # "undo" /\ h[Root(h)[n]].dim = "workflow"
                       /\ Childless(h, n) /\ Genuine(h[n])}

(* The history is one chain: every row starts from the state the row       *)
(* before it left, the projection is what the last row left, and a row was *)
(* asked for at the version before it, so that no caller overwrites what   *)
(* it did not see; only rows its own request prepared come between         *)
(* (_ledger_diagnostics: contiguous versions and states).                  *)
LedgerChain ==
  \A i \in Item :
    /\ \A n \in 2 .. Version(i) : history[i][n].before = history[i][n - 1].after
    /\ history[i] # << >> => projection[i] = history[i][Version(i)].after
    /\ \A n \in 1 .. Version(i) : history[i][n].key # None =>
         \A m \in history[i][n].expected + 1 .. n - 1 :
           history[i][m].key = None /\ history[i][m].request = history[i][n].request

(* _valid_dimension_change *)
DimensionKept(t) ==
  CASE t.dim = "workflow" ->
         /\ t.before.visibility = t.after.visibility /\ t.before.reminder = t.after.reminder
         /\ IF t.before.status = None
            THEN t.before.provenance = "unknown_legacy" /\ t.after.status \in Status
                 /\ t.after.provenance = "known"
            ELSE t.after.status \in Forward(t.before.status)
    [] t.dim = "visibility" -> t.after = [t.before EXCEPT !.visibility = t.after.visibility]
    [] t.dim = "reminder"   -> t.after = [t.before EXCEPT !.reminder = t.after.reminder]
    [] OTHER -> TRUE

(* No history the service writes is one its reconciler blocks: each row    *)
(* changes its own dimension only, references go back to a row that may be *)
(* superseded, and no row is superseded twice, so that the effective       *)
(* funnel of docs/pipeline_state.md always exists.                         *)
Reconciles ==
  \A i \in Item :
    LET h == history[i]
    IN  /\ \A n \in 2 .. Len(h) : h[n].class = "none" => DimensionKept(h[n])
        /\ \A n \in 1 .. Len(h) :
             /\ Ref(h[n]) < n
             /\ h[n].undoOf # 0 => h[h[n].undoOf].dim \notin {"baseline", "undo"}
             /\ h[n].correctionOf # 0 => h[h[n].correctionOf].dim \in {"workflow", "correction"}
             /\ Ref(h[n]) # 0 => h[Ref(h[n])].class = "none"
        /\ \A n, m \in 1 .. Len(h) : n # m /\ Ref(h[n]) # 0 => Ref(h[n]) # Ref(h[m])

(* Of an item never corrected, what the funnel counts is the road it took: *)
(* each counted move starts where the one before it ended, and the last    *)
(* ends in the state the item is in, hides, reminders, no-ops and undone   *)
(* moves left out.                                                         *)
FunnelIsRoad ==
  \A i \in Item :
    LET h == history[i]
        E == Effective(h)
        corrected == \E n \in 1 .. Len(h) : h[n].dim = "correction"
    IN  ~corrected => \A n \in E :
          LET later == {m \in E : m > n}
          IN  IF later = {} THEN h[n].after.status = projection[i].status
              ELSE \E m \in later : /\ \A l \in later : m <= l
                                    /\ h[m].before.status = h[n].after.status

(* What undos and corrections leave behind, in any order, is a history the *)
(* reconciler accepts and the funnel can be read from.                     *)
FunnelSound == Reconciles /\ FunnelIsRoad
=============================================================================
