----------------------------- MODULE FilesWorker -----------------------------
(***************************************************************************)
(* The "files" publication worker of scripts/publication_worker.py: an    *)
(* owned, conditional replacement of a set of targets, journalled so that  *)
(* neither the forward effect nor its return is ever run twice.            *)
(*                                                                         *)
(* One worker process at most runs for an operation (worker.lock).  It is  *)
(* a subprocess of the driver: the driver kills it on a timeout, and it    *)
(* outlives a driver that dies.  Hooks (stop, start, check, ...) are       *)
(* external commands that succeed or fail.                                 *)
(***************************************************************************)
EXTENDS Naturals, FiniteSets

CONSTANTS
  Operation,   \* operation ids: one per (plan, step)
  Resource,    \* the files, pointers and policy keys that are replaced
  Version,     \* contents a target can have
  targets,     \* [Operation -> SUBSET Resource]: p['files']
  before,      \* [Operation -> Version]: the content each item expects
  after,       \* [Operation -> Version]: the artifact of each item
  Successor    \* content written by somebody outside the protocol

ASSUME WorkerAssumption ==
  /\ targets \in [Operation -> SUBSET Resource]
  /\ before \in [Operation -> Version]
  /\ after \in [Operation -> Version]
  /\ \A o \in Operation : before[o] # after[o] /\ targets[o] # {}
  /\ Successor \in Version

VARIABLES
  content,     \* [Resource -> Version]: the production targets
  applyOnce,   \* the worker's apply-intent.json exists
  recoverOnce, \* the worker's recover-intent.json exists
  stateJson,   \* the state in the worker's state.json
  wpc,         \* where the worker process of an operation is
  left,        \* targets the current apply or recover has still to visit
  compared,    \* the target a return has compared and is about to put back
  overtaken    \* history: targets an outsider wrote after they were compared

journal    == <<applyOnce, recoverOnce, stateJson>>
visit      == <<left, compared, overtaken>>
workerVars == <<content, journal, wpc, visit>>

JournalState == {"none", "failed", "applied", "accepted", "recovered"}

(* wpc = "absent" when no worker process runs; "answered" and "raised" are *)
(* the two ways a call ends before its driver takes the result.            *)
WorkerStep == {"absent", "apply", "stop", "replace", "check",
               "recover", "return", "reverse", "answered", "raised"}

VisitTypeOK == /\ left \in [Operation -> SUBSET Resource]
               /\ compared \in [Operation -> SUBSET Resource]
               /\ overtaken \in [Operation -> SUBSET Resource]

WorkerTypeOK ==
  /\ content \in [Resource -> Version]
  /\ applyOnce \in [Operation -> BOOLEAN]
  /\ recoverOnce \in [Operation -> BOOLEAN]
  /\ stateJson \in [Operation -> JournalState]
  /\ wpc \in [Operation -> WorkerStep]
  /\ VisitTypeOK

WorkerInit ==
  /\ content \in [Resource -> {before[o] : o \in Operation}]
  /\ applyOnce = [o \in Operation |-> FALSE]
  /\ recoverOnce = [o \in Operation |-> FALSE]
  /\ stateJson = [o \in Operation |-> "none"]
  /\ wpc = [o \in Operation |-> "absent"]
  /\ left = [o \in Operation |-> {}]
  /\ compared = [o \in Operation |-> {}]
  /\ overtaken = [o \in Operation |-> {}]

-----------------------------------------------------------------------------
(* files_observe: what the targets and the journal together say. *)

AllAre(o, v) == \A r \in targets[o] : content[r] = v

FilesObserve(o) ==
  CASE \E r \in targets[o] : content[r] \notin {before[o], after[o]} -> "foreign"
    [] AllAre(o, after[o]) ->
         IF stateJson[o] = "accepted" THEN "accepted" ELSE "applied"
    [] AllAre(o, before[o]) ->
         IF recoverOnce[o] /\ stateJson[o] = "recovered" THEN "recovered"
         ELSE IF stateJson[o] = "failed" THEN "compensated" ELSE "before"
    [] OTHER -> "partial"

(* "compensated" is 'failed' with recovery_required False, "partial" is    *)
(* 'failed' with recovery_required True.                                   *)
Observation == {"foreign", "accepted", "applied", "recovered", "compensated", "before", "partial"}

-----------------------------------------------------------------------------
(* files('apply') *)

Ends(o, how) == /\ wpc' = [wpc EXCEPT ![o] = how]
                /\ left' = [left EXCEPT ![o] = {}]
                /\ compared' = [compared EXCEPT ![o] = {}]
                /\ overtaken' = [overtaken EXCEPT ![o] = {}]

Records(o, s) == /\ stateJson' = [stateJson EXCEPT ![o] = s]
                 /\ UNCHANGED <<applyOnce, recoverOnce>>

(* Preconditions and the preflight hooks; then the once-only apply-intent. *)
ApplyBegin(o) ==
  /\ wpc[o] = "apply"
  /\ UNCHANGED content
  /\ \/ /\ ~applyOnce[o]
        /\ FilesObserve(o) = "before"
        /\ applyOnce' = [applyOnce EXCEPT ![o] = TRUE]
        /\ UNCHANGED <<recoverOnce, stateJson>>
        /\ wpc' = [wpc EXCEPT ![o] = "stop"]
        /\ UNCHANGED visit
     \/ Ends(o, "raised") /\ UNCHANGED journal

(* Inside the try: every exception leaves state.json 'failed' and raises. *)
ApplyFails(o) ==
  /\ wpc[o] \in {"stop", "replace"}
  /\ Records(o, "failed")
  /\ Ends(o, "raised")
  /\ UNCHANGED content

(* The stop hooks passed and every target is compared again. *)
ApplyStopped(o) ==
  /\ wpc[o] = "stop"
  /\ FilesObserve(o) = "before"
  /\ wpc' = [wpc EXCEPT ![o] = "replace"]
  /\ left' = [left EXCEPT ![o] = targets[o]]
  /\ UNCHANGED <<content, journal, compared, overtaken>>

(* One os.replace; the payload's order is abstracted to any order.         *)
ApplyReplace(o) ==
  /\ wpc[o] = "replace"
  /\ \E r \in left[o] :
       /\ content' = [content EXCEPT ![r] = after[o]]
       /\ left' = [left EXCEPT ![o] = @ \ {r}]
  /\ UNCHANGED <<journal, wpc, compared, overtaken>>

(* Every target replaced and the start hooks passed. *)
ApplyStarted(o) ==
  /\ wpc[o] = "replace" /\ left[o] = {}
  /\ Records(o, "applied")
  /\ Ends(o, "answered")
  /\ UNCHANGED content

(* files('check') *)
Check(o) ==
  /\ wpc[o] = "check"
  /\ \/ /\ FilesObserve(o) \in {"applied", "accepted"}
        /\ Records(o, "accepted")
        /\ Ends(o, "answered")
     \/ Ends(o, "raised") /\ UNCHANGED journal
  /\ UNCHANGED content

(* files('recover') *)
RecoverBegin(o) ==
  /\ wpc[o] = "recover"
  /\ UNCHANGED content
  /\ \/ /\ FilesObserve(o) \in {"applied", "accepted", "compensated", "partial"}
        /\ ~recoverOnce[o]
        /\ recoverOnce' = [recoverOnce EXCEPT ![o] = TRUE]
        /\ UNCHANGED <<applyOnce, stateJson>>
        /\ wpc' = [wpc EXCEPT ![o] = "return"]
        /\ UNCHANGED visit
     \/ Ends(o, "raised") /\ UNCHANGED journal

(* The stop hooks passed and no target is foreign. *)
RecoverStopped(o) ==
  /\ wpc[o] = "return"
  /\ FilesObserve(o) # "foreign"
  /\ wpc' = [wpc EXCEPT ![o] = "reverse"]
  /\ left' = [left EXCEPT ![o] = targets[o]]
  /\ UNCHANGED <<content, journal, compared, overtaken>>

(* Mutant: every target is put back, whoever wrote it. *)
RecoverCompareAll(o) ==
  /\ wpc[o] = "reverse" /\ compared[o] = {}
  /\ \E r \in left[o] :
       /\ left' = [left EXCEPT ![o] = @ \ {r}]
       /\ compared' = [compared EXCEPT ![o] = {r}]
  /\ UNCHANGED <<content, journal, wpc, overtaken>>

(* The next target is read; only this operation's artifact is put back. *)
RecoverCompare(o) ==
  /\ wpc[o] = "reverse" /\ compared[o] = {}
  /\ \E r \in left[o] :
       /\ left' = [left EXCEPT ![o] = @ \ {r}]
       /\ compared' = [compared EXCEPT ![o] = {r} \cap {t \in targets[o] : content[t] = after[o]}]
  /\ UNCHANGED <<content, journal, wpc, overtaken>>

(* os.replace or unlink, after the pending file was written and synced:    *)
(* what is in the target by then is not looked at again.                   *)
RecoverReverse(o) ==
  /\ wpc[o] = "reverse"
  /\ \E r \in compared[o] : content' = [content EXCEPT ![r] = before[o]]
  /\ compared' = [compared EXCEPT ![o] = {}]
  /\ UNCHANGED <<journal, wpc, left, overtaken>>

(* start and recovered_check hooks passed. *)
RecoverStarted(o) ==
  /\ wpc[o] = "reverse" /\ left[o] = {} /\ compared[o] = {}
  /\ Records(o, "recovered")
  /\ Ends(o, "answered")
  /\ UNCHANGED content

(* A hook or a replacement of the return fails: nothing is written. *)
RecoverFails(o) ==
  /\ wpc[o] \in {"return", "reverse"}
  /\ Ends(o, "raised")
  /\ UNCHANGED <<content, journal>>

WorkerNext(o) ==
  \/ ApplyBegin(o) \/ ApplyFails(o) \/ ApplyStopped(o) \/ ApplyReplace(o) \/ ApplyStarted(o)
  \/ Check(o)
  \/ RecoverBegin(o) \/ RecoverStopped(o) \/ RecoverCompare(o) \/ RecoverReverse(o)
  \/ RecoverStarted(o) \/ RecoverFails(o)

(* The targets a worker will write on the word of an earlier comparison. *)
ToWrite(o) == compared[o] \cup (IF wpc[o] = "replace" THEN left[o] ELSE {})

(* Somebody outside the protocol replaces a target. *)
ForeignWrite(r) ==
  /\ content' = [content EXCEPT ![r] = Successor]
  /\ overtaken' = [o \in Operation |-> overtaken[o] \cup ({r} \cap ToWrite(o))]
  /\ UNCHANGED <<journal, wpc, left, compared>>
=============================================================================
