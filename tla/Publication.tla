----------------------------- MODULE Publication -----------------------------
(***************************************************************************)
(* Publication protocol v2: the coordinator and drivers of                 *)
(* scripts/publication.py over the workers of FilesWorker, with crashes of *)
(* drivers, workers and the host, lost worker answers, a retry at any      *)
(* later time, and the legacy publisher of scripts/routine_release.py      *)
(* behind the shared registry.                                             *)
(*                                                                         *)
(* A driver is a run of drive() for one step; the per-operation driver     *)
(* lock makes it the only one, so pc[o] is its program counter.  Each      *)
(* action is one durable transaction, one worker call boundary, or one     *)
(* decision between them.                                                  *)
(***************************************************************************)
EXTENDS FilesWorker

CONSTANTS
  Signature,   \* step signatures (step_signature)
  Effect,      \* effect signatures, coarser than step signatures
  signature,   \* [Operation -> Signature]
  effect,      \* [Operation -> Effect]
  resources,   \* [Operation -> SUBSET Resource]: what the step reserves
  conflicts,   \* pairs of resources of which one is the other or contains it
  needs,       \* [Operation -> SUBSET Operation]: steps it depends on
  humanGated,  \* operations whose step names a human_acceptance receipt
  uncertain,   \* operations whose worker may answer 'unknown' (vercel, module)
  exposed,     \* resources somebody outside the protocol may write
  Scoped,      \* TRUE for mode 'scoped', FALSE for 'legacy-bridge'
  None

ASSUME PublicationAssumption ==
  /\ signature \in [Operation -> Signature]
  /\ effect \in [Operation -> Effect]
  /\ resources \in [Operation -> SUBSET Resource]
  /\ \A o \in Operation : targets[o] \subseteq resources[o]
  /\ \A r \in Resource : <<r, r>> \in conflicts
  /\ \A r, s \in Resource : <<r, s>> \in conflicts => <<s, r>> \in conflicts
  /\ needs \in [Operation -> SUBSET Operation]
  /\ \A o, p \in Operation :
        /\ signature[o] = signature[p] => effect[o] = effect[p]
        /\ effect[o] = effect[p] => /\ targets[o] = targets[p]
                                   /\ before[o] = before[p]
                                   /\ after[o] = after[p]
  /\ humanGated \cup uncertain \subseteq Operation
  /\ exposed \subseteq Resource
  /\ Scoped \in BOOLEAN
  /\ None \notin Operation
  /\ "legacy" \notin Operation \cup {None}

VARIABLES
  state,           \* operations.state; "absent" before the row is inserted
  events,          \* kinds of the operation's events that a guard reads
  receipt,         \* state in the operation's last terminal receipt
  bound,           \* operation whose worker that receipt binds (native_binding)
  completions,     \* signature -> the accepted receipt stored under it
  acceptedEffects, \* effect -> the accepted receipt stored under it
  registry,        \* active rows of the legacy registry
  writer,          \* holder of the registry's .writer.lock beyond one transaction
  pc,              \* the driver of an operation
  entered,         \* drive's flag: legacy_enter returned
  seen,            \* the driver's last observation
  prior,           \* the driver's prior accepted operation
  human,           \* operations whose human_acceptance receipt exists
  result           \* what the last drive of a step another needs returned to execute

durable  == <<state, events, receipt, bound, completions, acceptedEffects>>
volatile == <<pc, entered, seen, prior>>
vars     == <<workerVars, durable, registry, writer, volatile, human, result>>

(* Mutant: the hold of an unknown outcome forgotten. *)
ActiveWithoutUnknown == {"reserved", "intent", "running", "applied", "recovering"}
ACTIVE   == {"reserved", "intent", "running", "unknown", "applied", "recovering"}
Terminal == {"accepted", "recovered"}
State    == ACTIVE \cup Terminal \cup {"absent", "unchanged"}
Kind     == {"apply-intent", "recover-intent", "preflight-stopped"}
Result   == {"none", "accepted", "recovered", "unknown", "attention"}
Legacy   == "legacy"

(* A stored receipt: whose it is, and whose worker it binds. *)
Entry   == [operation : Operation \cup {None}, worker : Operation \cup {None}]
NoEntry == [operation |-> None, worker |-> None]

(* Steps of drive inside its try block, before and after the apply intent. *)
Preflight == {"enter", "prior", "reuse", "observe", "intend"}
Dispatched == {"dispatch", "applying", "reobserve", "judge", "checking", "own",
               "recoverIntent", "recoverDispatch", "recovering", "settle"}
Finishing == {"cleanup", "complete"}
InTry == Preflight \cup Dispatched \cup Finishing
Step  == InTry \cup {"idle", "terminal", "terminalExit", "exit", "abort", "abortExit"}

(* Mutant: overlap taken for equality. *)
ConflictWhenEqual(o, p) == resources[o] = resources[p]
Conflict(o, p) == \E r \in resources[o], s \in resources[p] : <<r, s>> \in conflicts
Active(o)      == state[o] \in ACTIVE
Has(o, k)      == k \in events[o]

DriverTypeOK ==
  /\ pc \in [Operation -> Step]
  /\ entered \in [Operation -> BOOLEAN]
  /\ seen \in [Operation -> Observation \cup {"none", "unknown"}]
  /\ prior \in [Operation -> Operation \cup {None}]
  /\ result \in [Operation -> Result]

TypeOK ==
  /\ WorkerTypeOK
  /\ state \in [Operation -> State]
  /\ events \in [Operation -> SUBSET Kind]
  /\ receipt \in [Operation -> Terminal \cup {"none"}]
  /\ bound \in [Operation -> Operation \cup {None}]
  /\ completions \in [Signature -> Entry]
  /\ acceptedEffects \in [Effect -> Entry]
  /\ registry \subseteq Operation \cup {Legacy}
  /\ writer \in {None, Legacy}
  /\ human \subseteq Operation
  /\ DriverTypeOK

Init ==
  /\ WorkerInit
  /\ state = [o \in Operation |-> "absent"]
  /\ events = [o \in Operation |-> {}]
  /\ receipt = [o \in Operation |-> "none"]
  /\ bound = [o \in Operation |-> None]
  /\ completions = [s \in Signature |-> NoEntry]
  /\ acceptedEffects = [e \in Effect |-> NoEntry]
  /\ registry = {}
  /\ writer = None
  /\ pc = [o \in Operation |-> "idle"]
  /\ entered = [o \in Operation |-> FALSE]
  /\ seen = [o \in Operation |-> "none"]
  /\ prior = [o \in Operation |-> None]
  /\ human = {}
  /\ result = [o \in Operation |-> "none"]

-----------------------------------------------------------------------------
(* Small vocabulary of a driver's step. *)

Goto(o, s)    == pc' = [pc EXCEPT ![o] = s]
SetState(o, s) == state' = [state EXCEPT ![o] = s]
Emit(o, k)    == events' = [events EXCEPT ![o] = @ \cup {k}]
Saw(o, v)     == seen' = [seen EXCEPT ![o] = v]

(* execute asks only for the results of steps that others need. *)
Awaited(o) == \E p \in Operation : o \in needs[p]

(* drive leaves the claim: the driver lock is released, its locals are gone. *)
Leave(o, how) ==
  /\ Goto(o, "idle")
  /\ entered' = [entered EXCEPT ![o] = FALSE]
  /\ seen' = [seen EXCEPT ![o] = "none"]
  /\ prior' = [prior EXCEPT ![o] = None]
  /\ result' = [result EXCEPT ![o] = IF Awaited(o) THEN how ELSE "none"]

(* An exception in the try block reaches drive's except clause. *)
Raise(o) == Goto(o, "abort") /\ UNCHANGED <<entered, seen, prior, result>>

(* worker.call('observe'): worker.lock refuses while a worker is running. *)
Observes(o, v) ==
  /\ wpc[o] = "absent"
  /\ v \in {FilesObserve(o)} \cup (IF o \in uncertain THEN {"unknown"} ELSE {})

(* verify_acceptance *)
HumanAccepted(o) == o \in humanGated => o \in human

(* Some other process is inside its short registry transaction.            *)
WriterFree == writer = None
WriterBusy(o) ==
  \/ writer # None
  \/ \E p \in Operation \ {o} : pc[p] \in {"terminalExit", "enter", "exit", "abortExit"}

-----------------------------------------------------------------------------
(* Coordinator.claim, from execute: dependencies were accepted, the driver *)
(* lock is free, and a row that is not terminal conflicts with no other    *)
(* ACTIVE row.  Only a new row is inserted as 'reserved'.                  *)
Claim(o) ==
  /\ pc[o] = "idle"
  /\ \A n \in needs[o] : result[n] = "accepted"
  /\ IF state[o] \in Terminal
     THEN Goto(o, "terminal")
     ELSE /\ \A p \in Operation \ {o} : Active(p) => ~Conflict(o, p)
          /\ Goto(o, "enter")
  /\ state' = [state EXCEPT ![o] = IF @ = "absent" THEN "reserved" ELSE @]
  /\ result' = [result EXCEPT ![o] = "none"]
  /\ UNCHANGED <<workerVars, events, receipt, bound, completions, acceptedEffects,
                 registry, writer, entered, seen, prior, human>>

(* A terminal operation is observed again, never applied again. *)
TerminalObserve(o) ==
  /\ pc[o] = "terminal"
  /\ \/ /\ Observes(bound[o], state[o])
        /\ state[o] = "accepted" => HumanAccepted(o)
        /\ Goto(o, "terminalExit")
        /\ UNCHANGED <<entered, seen, prior, result>>
     \/ Leave(o, "attention")
  /\ UNCHANGED <<workerVars, durable, registry, writer, human>>

(* Mutant: a terminal operation always returns 'accepted'. *)
TerminalExitAccepted(o) ==
  /\ pc[o] = "terminalExit"
  /\ Scoped \/ WriterFree
  /\ registry' = IF Scoped THEN registry ELSE registry \ {o}
  /\ Leave(o, "accepted")
  /\ UNCHANGED <<workerVars, durable, writer, human>>

(* Mutant: the bridge row a crash left behind stays. *)
TerminalExitKeepsRow(o) ==
  /\ pc[o] = "terminalExit"
  /\ Leave(o, state[o])
  /\ UNCHANGED <<workerVars, durable, registry, writer, human>>

(* The bridge row a crash left behind is removed. *)
TerminalExit(o) ==
  /\ pc[o] = "terminalExit"
  /\ \/ /\ Scoped \/ WriterFree
        /\ registry' = IF Scoped THEN registry ELSE registry \ {o}
        /\ Leave(o, state[o])
     \/ /\ ~Scoped /\ WriterBusy(o)
        /\ UNCHANGED registry
        /\ Leave(o, "attention")
  /\ UNCHANGED <<workerVars, durable, writer, human>>

(* legacy_enter *)
LegacyEnter(o) ==
  /\ pc[o] = "enter"
  /\ \/ /\ Scoped \/ (WriterFree /\ registry \subseteq {o})
        /\ registry' = IF Scoped THEN registry ELSE registry \cup {o}
        /\ entered' = [entered EXCEPT ![o] = TRUE]
        /\ Goto(o, "prior")
        /\ UNCHANGED <<seen, prior, result>>
     \/ /\ ~Scoped /\ (WriterBusy(o) \/ ~(registry \subseteq {o}))
        /\ UNCHANGED registry
        /\ Raise(o)
  /\ UNCHANGED <<workerVars, durable, writer, human>>

(* completion(signature) or accepted_effect(step) *)
Prior(o) == IF completions[signature[o]] # NoEntry THEN completions[signature[o]]
            ELSE acceptedEffects[effect[o]]

(* An accepted effect of another operation is carried, if it still holds. *)
LookUpPrior(o) ==
  /\ pc[o] = "prior"
  /\ LET p == Prior(o) IN
       IF p.operation \in {None, o}
       THEN Goto(o, "observe") /\ UNCHANGED <<entered, seen, prior, result>>
       ELSE /\ Observes(p.worker, "accepted")
            /\ HumanAccepted(o)
            /\ prior' = [prior EXCEPT ![o] = p.worker]
            /\ Goto(o, "reuse")
            /\ UNCHANGED <<entered, seen, result>>
  /\ UNCHANGED <<workerVars, durable, registry, writer, human>>

(* complete: the terminal event, the row and the reuse index in one transaction. *)
CompleteAs(o, s, b) ==
  /\ SetState(o, s)
  /\ receipt' = [receipt EXCEPT ![o] = s]
  /\ bound' = [bound EXCEPT ![o] = b]
  /\ completions' = IF s = "accepted"
                    THEN [completions EXCEPT ![signature[o]] = [operation |-> o, worker |-> b]]
                    ELSE completions
  /\ UNCHANGED <<events, acceptedEffects>>

CompleteReuse(o) ==
  /\ pc[o] = "reuse"
  /\ CompleteAs(o, "accepted", prior[o])
  /\ seen' = [seen EXCEPT ![o] = "accepted"]
  /\ Goto(o, "exit")
  /\ UNCHANGED <<workerVars, registry, writer, entered, prior, human, result>>

-----------------------------------------------------------------------------
(* The first observation decides what this drive may still do. *)
ObserveFirst(o) ==
  /\ pc[o] = "observe"
  /\ \E v \in Observation \cup {"unknown"} :
       /\ Observes(o, v)
       /\ \/ /\ v = "unknown"
             /\ SetState(o, "unknown")
             /\ Leave(o, "unknown")
          \/ /\ v = "recovered" /\ Has(o, "recover-intent")
             /\ Saw(o, v) /\ Goto(o, "cleanup")
             /\ UNCHANGED <<state, entered, prior, result>>
          \/ /\ v = "before" /\ events[o] \cap {"recover-intent", "apply-intent"} = {}
             /\ Saw(o, v) /\ Goto(o, "intend")
             /\ UNCHANGED <<state, entered, prior, result>>
          \/ /\ v \notin {"unknown", "before", "foreign"}
             /\ Has(o, "apply-intent") /\ ~Has(o, "recover-intent")
             /\ Saw(o, v) /\ Goto(o, "judge")
             /\ UNCHANGED <<state, entered, prior, result>>
  /\ UNCHANGED <<workerVars, events, receipt, bound, completions, acceptedEffects,
                 registry, writer, human>>

(* Mutant: only the row's state is written. *)
IntentUnrecorded(o) ==
  /\ pc[o] = "intend"
  /\ SetState(o, "intent") /\ UNCHANGED events
  /\ Goto(o, "dispatch")
  /\ UNCHANGED <<workerVars, receipt, bound, completions, acceptedEffects,
                 registry, writer, entered, seen, prior, human, result>>

(* The intent is durable before the dispatch. *)
ApplyIntent(o) ==
  /\ pc[o] = "intend"
  /\ Emit(o, "apply-intent") /\ SetState(o, "intent")
  /\ Goto(o, "dispatch")
  /\ UNCHANGED <<workerVars, receipt, bound, completions, acceptedEffects,
                 registry, writer, entered, seen, prior, human, result>>

(* worker.call(action): the worker process starts, or the call fails at once. *)
Start(o, w) == wpc' = [wpc EXCEPT ![o] = w] /\ UNCHANGED <<content, journal, visit>>

DispatchApply(o) ==
  /\ pc[o] = "dispatch" /\ wpc[o] = "absent"
  /\ Start(o, "apply") /\ Goto(o, "applying")
  /\ UNCHANGED <<durable, registry, writer, entered, seen, prior, human, result>>

(* The worker process is gone: it answered, raised, or was killed on a timeout. *)
Reap(o) == Ends(o, "absent") /\ UNCHANGED <<content, journal>>

ApplyResponse(o) ==
  /\ pc[o] = "applying" /\ wpc[o] = "answered"
  /\ Reap(o)
  /\ SetState(o, "running") /\ Goto(o, "reobserve")
  /\ UNCHANGED <<events, receipt, bound, completions, acceptedEffects,
                 registry, writer, entered, seen, prior, human, result>>

ApplyResponseMissing(o) ==
  /\ pc[o] \in {"dispatch", "applying"}
  /\ Reap(o)
  /\ SetState(o, "unknown") /\ Goto(o, "reobserve")
  /\ UNCHANGED <<events, receipt, bound, completions, acceptedEffects,
                 registry, writer, entered, seen, prior, human, result>>

Reobserve(o) ==
  /\ pc[o] = "reobserve"
  /\ \E v \in (Observation \cup {"unknown"}) \ {"before"} :
       /\ Observes(o, v)
       /\ IF v = "unknown"
          THEN SetState(o, "unknown") /\ Leave(o, "unknown")
          ELSE /\ Saw(o, v) /\ Goto(o, "judge")
               /\ UNCHANGED <<state, entered, prior, result>>
  /\ UNCHANGED <<workerVars, events, receipt, bound, completions, acceptedEffects,
                 registry, writer, human>>

(* What the observation calls for: a check, a return, or the end. *)
Judge(o) ==
  /\ pc[o] = "judge"
  /\ \/ /\ seen[o] \in {"applied", "accepted"}
        /\ wpc[o] = "absent"
        /\ Start(o, "check") /\ Goto(o, "checking") /\ UNCHANGED seen
     \/ /\ seen[o] = "partial"
        /\ Goto(o, "own") /\ UNCHANGED <<seen, workerVars>>
     \/ /\ seen[o] \in {"compensated", "recovered"}
        /\ Saw(o, "recovered") /\ Goto(o, "cleanup") /\ UNCHANGED workerVars
  /\ UNCHANGED <<durable, registry, writer, entered, prior, human, result>>

CheckAccepted(o) ==
  /\ pc[o] = "checking" /\ wpc[o] = "answered"
  /\ HumanAccepted(o)
  /\ Reap(o)
  /\ Saw(o, "accepted") /\ Goto(o, "cleanup")
  /\ UNCHANGED <<durable, registry, writer, entered, prior, human, result>>

(* The check raised, timed out or lost its answer, or acceptance is missing. *)
CheckNotAccepted(o) ==
  /\ pc[o] = "checking"
  /\ Reap(o)
  /\ Goto(o, "own")
  /\ UNCHANGED <<durable, registry, writer, entered, seen, prior, human, result>>

(* Ownership is observed again: an error never undoes a successor. *)
ObserveOwn(o) ==
  /\ pc[o] = "own"
  /\ \E v \in {"applied", "accepted", "compensated", "partial"} : Observes(o, v)
  /\ Goto(o, "recoverIntent")
  /\ UNCHANGED <<workerVars, durable, registry, writer, entered, seen, prior, human, result>>

RecoverIntent(o) ==
  /\ pc[o] = "recoverIntent"
  /\ Emit(o, "recover-intent") /\ SetState(o, "recovering")
  /\ Goto(o, "recoverDispatch")
  /\ UNCHANGED <<workerVars, receipt, bound, completions, acceptedEffects,
                 registry, writer, entered, seen, prior, human, result>>

DispatchRecover(o) ==
  /\ pc[o] = "recoverDispatch" /\ wpc[o] = "absent"
  /\ Start(o, "recover") /\ Goto(o, "recovering")
  /\ UNCHANGED <<durable, registry, writer, entered, seen, prior, human, result>>

RecoverResponse(o) ==
  /\ pc[o] = "recovering" /\ wpc[o] = "answered"
  /\ Reap(o) /\ Goto(o, "settle")
  /\ UNCHANGED <<durable, registry, writer, entered, seen, prior, human, result>>

RecoverResponseMissing(o) ==
  /\ pc[o] \in {"recoverDispatch", "recovering"}
  /\ Reap(o)
  /\ SetState(o, "unknown") /\ Goto(o, "settle")
  /\ UNCHANGED <<events, receipt, bound, completions, acceptedEffects,
                 registry, writer, entered, seen, prior, human, result>>

Settle(o) ==
  /\ pc[o] = "settle"
  /\ \E v \in Terminal :
       Observes(o, v) /\ Saw(o, v)
  /\ Goto(o, "cleanup")
  /\ UNCHANGED <<workerVars, durable, registry, writer, entered, prior, human, result>>

(* Mutant: the worker's answer to cleanup is not compared. *)
CleanupUncompared(o) ==
  /\ pc[o] = "cleanup" /\ wpc[o] = "absent"
  /\ Goto(o, "complete")
  /\ UNCHANGED <<workerVars, durable, registry, writer, entered, seen, prior, human, result>>

(* worker.call('cleanup'): the hooks, then the worker's own observation. *)
Cleanup(o) ==
  /\ pc[o] = "cleanup"
  /\ Observes(o, seen[o])
  /\ Goto(o, "complete")
  /\ UNCHANGED <<workerVars, durable, registry, writer, entered, seen, prior, human, result>>

Complete(o) ==
  /\ pc[o] = "complete"
  /\ CompleteAs(o, seen[o], o)
  /\ Goto(o, "exit")
  /\ UNCHANGED <<workerVars, registry, writer, entered, seen, prior, human, result>>

(* legacy_exit after completion. *)
LegacyExit(o) ==
  /\ pc[o] = "exit"
  /\ \/ /\ Scoped \/ (WriterFree /\ o \in registry)
        /\ registry' = IF Scoped THEN registry ELSE registry \ {o}
        /\ Leave(o, seen[o])
     \/ /\ ~Scoped /\ (WriterBusy(o) \/ o \notin registry)
        /\ UNCHANGED registry
        /\ Raise(o)
  /\ UNCHANGED <<workerVars, durable, writer, human>>

-----------------------------------------------------------------------------
(* A requirement, a worker call, a deadline or a database transaction of   *)
(* the try block fails.                                                    *)
Fails(o) ==
  /\ pc[o] \in {"prior", "reuse", "observe", "intend", "reobserve", "own",
                "recoverIntent", "settle", "cleanup", "complete"}
     \/ (pc[o] = "judge" /\ seen[o] = "foreign")
  /\ Raise(o)
  /\ UNCHANGED <<workerVars, durable, registry, writer, human>>

(* Mutant: the release does not ask for the apply intent. *)
AbortAlways(o) ==
  /\ pc[o] = "abort"
  /\ Emit(o, "preflight-stopped") /\ SetState(o, "unchanged")
  /\ IF entered[o]
     THEN Goto(o, "abortExit") /\ UNCHANGED <<entered, seen, prior, result>>
     ELSE Leave(o, "attention")
  /\ UNCHANGED <<workerVars, receipt, bound, completions, acceptedEffects,
                 registry, writer, human>>

(* except BaseException: without an apply intent the operation is released. *)
Abort(o) ==
  /\ pc[o] = "abort"
  /\ IF Has(o, "apply-intent")
     THEN Leave(o, "attention") /\ UNCHANGED <<events, state>>
     ELSE /\ Emit(o, "preflight-stopped") /\ SetState(o, "unchanged")
          /\ IF entered[o]
             THEN Goto(o, "abortExit") /\ UNCHANGED <<entered, seen, prior, result>>
             ELSE Leave(o, "attention")
  /\ UNCHANGED <<workerVars, receipt, bound, completions, acceptedEffects,
                 registry, writer, human>>

AbortExit(o) ==
  /\ pc[o] = "abortExit"
  /\ Leave(o, "attention")
  /\ registry' \in {IF Scoped \/ ~WriterFree THEN registry ELSE registry \ {o}}
                  \cup (IF WriterBusy(o) THEN {registry} ELSE {})
  /\ UNCHANGED <<workerVars, durable, writer, human>>

(* register_effects, at the start and the end of execute. *)
RegisterEffect(o) ==
  /\ completions[signature[o]].operation = o
  /\ acceptedEffects' = [acceptedEffects EXCEPT ![effect[o]] = completions[signature[o]]]
  /\ UNCHANGED <<workerVars, state, events, receipt, bound, completions,
                 registry, writer, volatile, human, result>>

(* A human acceptance receipt is written by a person. *)
AcceptByHuman(o) ==
  /\ o \in humanGated
  /\ human' = human \cup {o}
  /\ UNCHANGED <<workerVars, durable, registry, writer, volatile, result>>

-----------------------------------------------------------------------------
(* Failures. *)

(* A driver dies; its worker, if any, runs on. *)
DriverCrash(o) ==
  /\ pc[o] # "idle"
  /\ Leave(o, "attention")
  /\ UNCHANGED <<workerVars, durable, registry, writer, human>>

(* The worker of a dead driver ends by itself. *)
OrphanExit(o) ==
  /\ wpc[o] \in {"answered", "raised"}
  /\ pc[o] \notin {"applying", "checking", "recovering"}
  /\ Reap(o)
  /\ UNCHANGED <<durable, registry, writer, volatile, human, result>>

(* The coordinator host restarts: every process is gone. *)
HostCrash ==
  /\ pc' = [o \in Operation |-> "idle"]
  /\ entered' = [o \in Operation |-> FALSE]
  /\ seen' = [o \in Operation |-> "none"]
  /\ prior' = [o \in Operation |-> None]
  /\ result' = [o \in Operation |-> "none"]
  /\ wpc' = [o \in Operation |-> "absent"]
  /\ left' = [o \in Operation |-> {}]
  /\ compared' = [o \in Operation |-> {}]
  /\ overtaken' = [o \in Operation |-> {}]
  /\ writer' = None
  /\ UNCHANGED <<content, journal, durable, registry, human>>

(* The legacy publisher holds the writer lock for its whole publication:   *)
(* it binds its row if no other row is active, and removes it at the end,  *)
(* unless it dies with its outcome unknown.                                *)
LegacyLock ==
  /\ ~Scoped /\ WriterFree
  /\ writer' = Legacy
  /\ UNCHANGED <<workerVars, durable, registry, volatile, human, result>>

(* Mutant: the legacy publisher binds beside the rows of others. *)
LegacyBindUnchecked ==
  /\ writer = Legacy
  /\ registry' = registry \cup {Legacy}
  /\ UNCHANGED <<workerVars, durable, writer, volatile, human, result>>

LegacyBind ==
  /\ writer = Legacy /\ registry \subseteq {Legacy}
  /\ registry' = {Legacy}
  /\ UNCHANGED <<workerVars, durable, writer, volatile, human, result>>

LegacyUnlock ==
  /\ writer = Legacy
  /\ writer' = None
  /\ registry' \in {registry, registry \ {Legacy}}
  /\ UNCHANGED <<workerVars, durable, volatile, human, result>>

-----------------------------------------------------------------------------
Drive(o) ==
  \/ Claim(o) \/ TerminalObserve(o) \/ TerminalExit(o)
  \/ LegacyEnter(o) \/ LookUpPrior(o) \/ CompleteReuse(o)
  \/ ObserveFirst(o) \/ ApplyIntent(o) \/ DispatchApply(o)
  \/ ApplyResponse(o) \/ ApplyResponseMissing(o) \/ Reobserve(o)
  \/ Judge(o) \/ CheckAccepted(o) \/ CheckNotAccepted(o)
  \/ ObserveOwn(o) \/ RecoverIntent(o) \/ DispatchRecover(o)
  \/ RecoverResponse(o) \/ RecoverResponseMissing(o) \/ Settle(o)
  \/ Cleanup(o) \/ Complete(o) \/ LegacyExit(o)
  \/ Fails(o) \/ Abort(o) \/ AbortExit(o)

Work(o) == WorkerNext(o) /\ UNCHANGED <<durable, registry, writer, volatile, human, result>>

Intrude(r) == ForeignWrite(r) /\ UNCHANGED <<durable, registry, writer, volatile, human, result>>

Next ==
  \/ \E o \in Operation :
       \/ Drive(o) \/ Work(o) \/ RegisterEffect(o) \/ AcceptByHuman(o)
       \/ DriverCrash(o) \/ OrphanExit(o)
  \/ \E r \in exposed : Intrude(r)
  \/ HostCrash \/ LegacyLock \/ LegacyBind \/ LegacyUnlock

Spec == Init /\ [][Next]_vars

(* A step that was not finished is driven again, and neither a crash nor a *)
(* busy lock strikes at the same place for ever: whatever a drive can do   *)
(* again and again it does at last.  Nothing is assumed of a worker or of  *)
(* its answers.  A legacy publication ends, and none begins any more once  *)
(* the transition is active (publish: legacy_publisher_retired).           *)
Retried(o) ==
  /\ SF_vars(Claim(o))
  /\ SF_vars(TerminalObserve(o) /\ pc'[o] = "terminalExit")
  /\ SF_vars(TerminalExit(o) /\ o \notin registry')
  /\ SF_vars(LegacyEnter(o) /\ pc'[o] = "prior")
  /\ SF_vars(LookUpPrior(o)) /\ SF_vars(CompleteReuse(o))
  /\ SF_vars(ObserveFirst(o)) /\ SF_vars(Judge(o))
  /\ SF_vars(Cleanup(o)) /\ SF_vars(Complete(o))
  /\ SF_vars(LegacyExit(o) /\ pc'[o] = "idle")
  /\ SF_vars(Fails(o)) /\ SF_vars(Abort(o))
  /\ SF_vars(AbortExit(o) /\ o \notin registry')

Retired == WF_vars(LegacyUnlock) /\ <>[][~LegacyLock]_vars

FairSpec == Spec /\ Retired /\ \A o \in Operation : Retried(o)

-----------------------------------------------------------------------------
(* Properties *)

Dispatches(o) == Has(o, "apply-intent")
Resolved(o)   == receipt[o] \in Terminal
Open(o)       == Dispatches(o) /\ state[o] \notin Terminal
Retryable(o)  == Has(o, "preflight-stopped")

(* Two operations whose resources conflict are not both reserved.  A       *)
(* preflight exit gives the reservation up and claim does not take it      *)
(* again, so only operations that never made one are covered.              *)
ExclusiveReservation ==
  \A o, p \in Operation :
    o # p /\ Conflict(o, p) /\ Active(o) /\ Active(p) => Retryable(o) \/ Retryable(p)

(* The reservation as docs/publication.md:59 promises it ("Claim no host   *)
(* conflita com seus servicos e bancos filhos"), without that exception.   *)
ConflictingClaimsExclude ==
  \A o, p \in Operation : o # p /\ Conflict(o, p) => ~(Active(o) /\ Active(p))

(* In bridge mode an operation that was dispatched and is not terminal     *)
(* keeps its registry row, and no other publisher, old or new, has one.    *)
BridgeHold ==
  ~Scoped => \A o \in Operation : Open(o) => registry = {o}

(* While an operation's outcome is open, every one of its targets holds    *)
(* what the plan expected or what the plan published: no other operation   *)
(* writes below it.                                                        *)
TargetsOwnedWhileOpen ==
  \A o \in Operation : Open(o) =>
    \A r \in targets[o] \ exposed :
      \/ content[r] \in {before[o], after[o]}
      \/ Scoped /\ \E p \in Operation \ {o} :
           r \in targets[p] /\ (Retryable(o) \/ Retryable(p))

(* The coordinator never sends a worker an apply or a recover that the     *)
(* worker's own once-only journal would have to refuse: whatever crashed   *)
(* and was retried, each effect is requested at most once.                 *)
NeverReplayed ==
  \A o \in Operation :
    /\ wpc[o] = "apply" => ~applyOnce[o]
    /\ wpc[o] = "recover" => ~recoverOnce[o]

(* An operation recorded accepted on another's receipt although it had     *)
(* dispatched an effect of its own: drive looks the prior receipt up       *)
(* before it looks at the operation's own worker (publication.py:453),     *)
(* which may still be running.                                             *)
Overridden(o) == Dispatches(o) /\ state[o] = "accepted" /\ bound[o] # o

(* The observation a completion rests on still holds when the completion   *)
(* is recorded, although calls, crashes and other drivers lie between.     *)
(* Excepted: an inconclusive observation, targets somebody outside the     *)
(* protocol writes, reservations given up in a preflight exit, and the     *)
(* worker of an operation that is, or is being, Overridden.                *)
CompletionIsCurrent ==
  \A o \in Operation :
    LET w == IF pc[o] = "reuse" THEN prior[o] ELSE o
        v == IF pc[o] = "reuse" THEN "accepted" ELSE seen[o]
    IN  pc[o] \in {"reuse", "complete"} =>
          \/ FilesObserve(w) = v
          \/ v = "unknown"
          \/ targets[o] \cap exposed # {}
          \/ pc[o] = "reuse" /\ Dispatches(o)
          \/ \E p \in Operation \ {o} :
               /\ targets[o] \cap targets[p] # {}
               /\ Overridden(p) \/ (Scoped /\ (Retryable(o) \/ Retryable(p)))

(* The worker of an operation that published an effect and ended accepted. *)
Native(w) == Dispatches(w) /\ state[w] = "accepted" /\ receipt[w] = "accepted" /\ bound[w] = w

(* However often an effect was carried from plan to plan, and whatever     *)
(* became of the operations that carried it, a stored receipt binds the    *)
(* worker of an operation that published this very effect and ended        *)
(* accepted; and what was accepted is found by its signature.              *)
ReuseIndexSound ==
  /\ \A g \in Signature : LET found == completions[g] IN
       found # NoEntry => /\ signature[found.operation] = g /\ Native(found.worker)
                          /\ effect[found.worker] = effect[found.operation]
  /\ \A e \in Effect : LET found == acceptedEffects[e] IN
       found # NoEntry => Native(found.worker) /\ effect[found.worker] = e
  /\ \A o \in Operation : receipt[o] = "accepted" => completions[signature[o]] # NoEntry

(* What a completion, or a plan that reuses one, rests on is so: the       *)
(* observation it is written from and the stored receipt it is found by.   *)
CompletionRecordSound == CompletionIsCurrent /\ ReuseIndexSound

(* A step is dispatched only after every step it needs was accepted.       *)
DependenciesFirst ==
  \A o \in Operation : Dispatches(o) => \A n \in needs[o] : receipt[n] = "accepted"

(* A step that needs a human acceptance and was not sent back is accepted  *)
(* only after a person wrote the receipt.                                  *)
HumanGateObserved ==
  \A o \in humanGated :
    receipt[o] = "accepted" /\ ~Has(o, "recover-intent") => o \in human

(* No step is dispatched before what it depends on, nor accepted before    *)
(* the person it waits for.                                                *)
GatesObserved == DependenciesFirst /\ HumanGateObserved

(* The gate without that exception: verify_acceptance requires             *)
(* "genuine_required_acceptance_not_observed" of every acceptance.  The    *)
(* code does NOT keep it: a step sent back for a missing acceptance whose  *)
(* return does not start is recorded accepted.                             *)
HumanGate == \A o \in humanGated : receipt[o] = "accepted" => o \in human

(* A dispatched operation's terminal state is never rewritten.             *)
TerminalIsFinal ==
  [][\A o \in Operation :
       Dispatches(o) /\ state[o] \in Terminal => state'[o] = state[o]]_vars

(* docs/publication.md:24 "accepted e reobservado sem novo deploy": an     *)
(* accepted row stays accepted, carried or dispatched.  The code does NOT  *)
(* promise it of a carried row: when legacy_exit finds the writer busy,    *)
(* drive's handler rewrites the row it has just completed to 'unchanged'.  *)
(* Only the dispatched rows keep their end (TerminalIsFinal).              *)
AcceptedStaysAccepted ==
  [][\A o \in Operation : state[o] = "accepted" => state'[o] = "accepted"]_vars

(* What a successor wrote is overwritten by nobody who could have seen it: *)
(* only by a worker that had compared this very target before the          *)
(* successor appeared in it, an apply before its first replacement, a      *)
(* return before it prepared the file it puts back.                        *)
SuccessorSpared ==
  [][\A r \in Resource :
       content[r] = Successor /\ content'[r] # Successor
         => \E o \in Operation : r \in overtaken[o] \cap ToWrite(o)]_vars

(* The registry row of an operation with a receipt does not block the      *)
(* other publishers for ever, whatever crashed after the completion.       *)
BridgeReleased ==
  \A o \in Operation : (Resolved(o) /\ o \in registry) ~> (o \notin registry)

(* publication.py:514 "A worker may have completed its own qualified       *)
(* compensation": a drive that finds one ends in a terminal receipt.  The  *)
(* code does NOT do so for a files worker: the worker goes on answering    *)
(* 'failed' to the cleanup of a drive that compares with 'recovered'.      *)
CompensationEnds ==
  \A o \in Operation : (pc[o] = "judge" /\ seen[o] = "compensated") ~> Resolved(o)

(* docs/publication.md:25 "unknown conserva a reserva": no operation ends   *)
(* while its worker may still write.  The code does NOT hold to it where   *)
(* another operation's receipt of the same effect is found first: drive    *)
(* completes by it (publication.py:454-466), an effect of its own that it  *)
(* had asked for included, before it looks at its own worker.              *)
EndedIsSettled == \A o \in Operation : state[o] \in Terminal => wpc[o] = "absent"

-----------------------------------------------------------------------------
(* The inductive invariant behind the proofs of Publication_proofs, in     *)
(* parts.  Each part holds of the reachable states; together they are      *)
(* preserved by every step.                                                *)

(* Where a driver is says what its locals and its row are. *)
DriverShape ==
  \A o \in Operation :
    /\ pc[o] \in {"terminal", "terminalExit"} => state[o] \in Terminal
    /\ pc[o] \in {"cleanup", "complete", "exit"} => seen[o] \in Terminal
    /\ pc[o] = "reuse" => prior[o] # None
    /\ pc[o] = "exit" => state[o] \in Terminal
    /\ pc[o] = "abortExit" => ~Dispatches(o)
    /\ state[o] \in Terminal => Resolved(o)
    /\ Resolved(o) => bound[o] # None
    /\ state[o] = "absent" => pc[o] = "idle"
    /\ Has(o, "recover-intent") => Dispatches(o)
    /\ pc[o] \in Dispatched => Dispatches(o)
    /\ pc[o] \in InTry => state[o] \notin Terminal

(* A stored receipt names its operation and the worker it binds. *)
IndexShape ==
  /\ \A g \in Signature : LET found == completions[g] IN
       found # NoEntry => found.operation # None /\ found.worker # None
  /\ \A e \in Effect : LET found == acceptedEffects[e] IN
       found # NoEntry => found.operation # None /\ found.worker # None

(* Registry rows: one at most, and a driver past legacy_enter owns it. *)
BridgeShape ==
  ~Scoped =>
    /\ \A x, y \in registry : x = y
    /\ \A o \in Operation :
         /\ Open(o) => o \in registry
         /\ entered[o] => o \in registry
         /\ pc[o] \in (InTry \ {"enter"}) \cup {"exit", "abortExit"} => entered[o]
         /\ pc[o] = "idle" => ~entered[o]

(* A driver in the try block that never made a preflight exit is reserved. *)
ReservationShape ==
  \A o \in Operation :
    /\ state[o] = "unchanged" => Retryable(o)
    /\ pc[o] \in InTry => Active(o) \/ Retryable(o)

(* The durable intent precedes the request, the request the journal entry. *)
BeforeRecover == {"intend", "dispatch", "applying", "reobserve", "judge", "checking",
                  "own", "recoverIntent"}
WorkerAbsent  == {"intend", "dispatch", "reobserve", "judge", "own", "recoverIntent",
                  "recoverDispatch", "settle", "cleanup", "complete"}

OnceShape ==
  \A o \in Operation :
    /\ wpc[o] # "absent" => Dispatches(o)
    /\ applyOnce[o] => Dispatches(o)
    /\ recoverOnce[o] => Has(o, "recover-intent")
    /\ wpc[o] \in {"recover", "return", "reverse"} => Has(o, "recover-intent")
    /\ pc[o] = "intend" => ~Dispatches(o)
    /\ pc[o] \in {"recoverDispatch", "recovering"} => Has(o, "recover-intent")
    /\ pc[o] \in BeforeRecover => ~Has(o, "recover-intent")
    /\ pc[o] = "dispatch" => ~applyOnce[o]
    /\ pc[o] = "recoverDispatch" => ~recoverOnce[o]
    /\ pc[o] \in WorkerAbsent => wpc[o] = "absent"

IInv ==
  /\ TypeOK /\ DriverShape /\ IndexShape
  /\ BridgeShape
  /\ ReservationShape /\ ExclusiveReservation
  /\ OnceShape /\ NeverReplayed
=============================================================================
