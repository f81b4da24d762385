--------------------------- MODULE RoutineRelease ---------------------------
(***************************************************************************)
(* The routine publisher: a run binds the resource in the shared registry, *)
(* promotes its deployment once, looks at what the provider serves, and    *)
(* accepts it or promotes the accepted one back.  The provider answers     *)
(* late or never and moves the aliases one by one; a publisher may die     *)
(* between any two of its writes and the run is then resumed.              *)
(***************************************************************************)
EXTENDS Naturals, FiniteSets

CONSTANTS Runs,       \* the runs planned for one resource; a run names its deployment
          Aliases,    \* the production aliases
          lastAccepted, \* the deployment every plan has as accepted
          foreign,    \* a deployment of no plan
          NoRun, other  \* nobody; a row of another publisher

ASSUME RoutineAssumption ==
  /\ {lastAccepted, foreign, NoRun, other} \cap Runs = {} /\ lastAccepted # foreign /\ NoRun # other
  /\ Aliases # {}

VARIABLES
  row,        \* whose row of the registry is active
  writerLock, \* .writer.lock and the resource's lock
  files,      \* the files in the directory of each run
  step,       \* where the publisher of each run is
  inFlight,   \* promotions sent that the provider has neither taken nor lost
  job,        \* the provider's lastAliasRequest
  serving,    \* the deployment of each alias
  intruded    \* whether a program outside the registry has promoted

routineVars == <<row, writerLock, files, step, inFlight, job, serving, intruded>>
cloudVars == <<inFlight, job, serving, intruded>>

NoJob == [of |-> NoRun, to |-> NoRun, status |-> "none"]
Pending == job.status = "pending"

\* selection: one deployment for all aliases, read before the run may go on.
Selected(d) == \A a \in Aliases : serving[a] = d

\* Mutant: aliases that converge are taken for a promotion that has ended.
Converged(d) == Selected(d)

\* promotion(target): the job is the terminal one to the target, or the provider has
\* dropped it and everything already names the target.
PromotionEnded(d) == ~Pending /\ (job = NoJob \/ (job.to = d /\ job.status = "succeeded")) /\ Selected(d)

Goes(r, place) == step' = [step EXCEPT ![r] = place]
Writes(r, file) == files' = [files EXCEPT ![r] = @ \cup {file}]
Ended(r) == files[r] \cap {"accepted", "recovered"} # {}
GivesBack(r) == Goes(r, "idle") /\ writerLock' = NoRun

\* publish takes the locks and refuses another's row.  An ended run only frees its row.
Enter(r) ==
  /\ step[r] = "idle" /\ writerLock = NoRun /\ row \in {NoRun, r}
  /\ \/ Ended(r) /\ row' = NoRun /\ UNCHANGED <<writerLock, files, step>>
     \/ /\ ~Ended(r) /\ row = r
        /\ Goes(r, "observe") /\ writerLock' = r /\ UNCHANGED <<row, files>>
     \/ /\ ~Ended(r) /\ row = NoRun /\ "bind_intent" \notin files[r]
        /\ Writes(r, "bind_intent") /\ Goes(r, "bind") /\ writerLock' = r /\ UNCHANGED row
  /\ UNCHANGED cloudVars

Bind(r) ==
  /\ step[r] = "bind" /\ row' = r /\ Goes(r, "observe")
  /\ UNCHANGED <<writerLock, files, cloudVars>>

\* execute decides from the intents what an observation lets it do.
Observe(r) ==
  /\ step[r] = "observe"
  /\ \/ "return_intent" \in files[r] /\ PromotionEnded(lastAccepted) /\ Goes(r, "recovered")
     \/ /\ "return_intent" \notin files[r] /\ "forward_intent" \in files[r]
        /\ Selected(r) /\ Goes(r, "live")
     \/ /\ files[r] \cap {"forward_intent", "return_intent"} = {}
        /\ Selected(lastAccepted) /\ Goes(r, "checked")
  /\ UNCHANGED <<row, writerLock, files, cloudVars>>

ForwardIntent(r) ==
  /\ step[r] = "checked" /\ ~Pending
  /\ Writes(r, "forward_intent") /\ Goes(r, "forward")
  /\ UNCHANGED <<row, writerLock, cloudVars>>

\* The answer of a promotion is not used: it may have been taken, or come later, or never.
Promote(r) ==
  /\ \/ step[r] = "forward" /\ inFlight' = inFlight \cup {<<r, r>>} /\ Goes(r, "live")
     \/ step[r] = "return" /\ inFlight' = inFlight \cup {<<r, lastAccepted>>} /\ Goes(r, "returned")
  /\ UNCHANGED <<row, writerLock, files, job, serving, intruded>>

Live(r) ==
  /\ step[r] = "live" /\ PromotionEnded(r) /\ Goes(r, "smoke")
  /\ UNCHANGED <<row, writerLock, files, cloudVars>>

\* The checks of the live deployment pass, or they fail and it is still ours to return.
Smoke(r) ==
  /\ step[r] = "smoke"
  /\ \/ Selected(r) /\ Goes(r, "accepted")
     \/ PromotionEnded(r) /\ Goes(r, "returnable")
  /\ UNCHANGED <<row, writerLock, files, cloudVars>>

ReturnIntent(r) ==
  /\ step[r] = "returnable"
  /\ Writes(r, "return_intent") /\ Goes(r, "return")
  /\ UNCHANGED <<row, writerLock, cloudVars>>

Returned(r) ==
  /\ step[r] = "returned" /\ PromotionEnded(lastAccepted) /\ Goes(r, "recovered")
  /\ UNCHANGED <<row, writerLock, files, cloudVars>>

Finish(r) ==
  /\ step[r] \in {"accepted", "recovered"}
  /\ Writes(r, step[r]) /\ Goes(r, "leave")
  /\ UNCHANGED <<row, writerLock, cloudVars>>

\* The handler of publish: a run without a forward intent gives its row back.
Stops(r) ==
  /\ step[r] \notin {"idle", "bind", "leave", "stopping"}
  /\ IF "forward_intent" \in files[r]
     THEN GivesBack(r) /\ UNCHANGED files
     ELSE Writes(r, "preflight_stopped") /\ Goes(r, "stopping") /\ UNCHANGED writerLock
  /\ UNCHANGED <<row, cloudVars>>

LeaveRegistry(r) ==
  /\ step[r] \in {"leave", "stopping"} /\ row' = NoRun /\ GivesBack(r)
  /\ UNCHANGED <<files, cloudVars>>

PublisherDies(r) ==
  /\ step[r] # "idle" /\ GivesBack(r)
  /\ UNCHANGED <<row, files, cloudVars>>

----------------------------------------------------------------------------
\* Another publisher of the registry, under the same lock.
OtherRow ==
  /\ writerLock = NoRun
  /\ \/ row = NoRun /\ row' = other
     \/ row = other /\ row' = NoRun
  /\ UNCHANGED <<writerLock, files, step, cloudVars>>

\* The provider takes a promotion, or the promotion is lost.
Takes(p) ==
  /\ p \in inFlight /\ inFlight' = inFlight \ {p}
  /\ \/ ~Pending /\ job' = [of |-> p[1], to |-> p[2], status |-> "pending"]
     \/ UNCHANGED job
  /\ UNCHANGED <<row, writerLock, files, step, serving, intruded>>

MovesAlias(a) ==
  /\ Pending /\ serving[a] # job.to /\ serving' = [serving EXCEPT ![a] = job.to]
  /\ UNCHANGED <<row, writerLock, files, step, inFlight, job, intruded>>

EndsJob ==
  /\ Pending
  /\ \/ Selected(job.to) /\ job' \in {NoJob, [job EXCEPT !.status = "succeeded"]}
     \/ job' = [job EXCEPT !.status = "failed"]
  /\ UNCHANGED <<row, writerLock, files, step, inFlight, serving, intruded>>

\* A promotion from a console, outside the registry.
Intrudes ==
  /\ ~Pending /\ ~intruded /\ intruded' = TRUE
  /\ serving' = [a \in Aliases |-> foreign]
  /\ job' = [of |-> NoRun, to |-> foreign, status |-> "succeeded"]
  /\ UNCHANGED <<row, writerLock, files, step, inFlight>>

InitRoutine ==
  /\ row = NoRun /\ writerLock = NoRun
  /\ files = [r \in Runs |-> {}] /\ step = [r \in Runs |-> "idle"]
  /\ inFlight = {} /\ intruded = FALSE
  /\ job \in {NoJob, [of |-> NoRun, to |-> lastAccepted, status |-> "succeeded"]}
  /\ serving = [a \in Aliases |-> lastAccepted]

NextRoutine ==
  \/ \E r \in Runs :
       \/ Enter(r) \/ Bind(r) \/ Observe(r) \/ ForwardIntent(r) \/ Promote(r) \/ Live(r)
       \/ Smoke(r) \/ ReturnIntent(r) \/ Returned(r) \/ Finish(r) \/ Stops(r) \/ LeaveRegistry(r) \/ PublisherDies(r)
  \/ OtherRow \/ EndsJob \/ Intrudes
  \/ \E p \in inFlight : Takes(p)
  \/ \E a \in Aliases : MovesAlias(a)

SpecRoutine == InitRoutine /\ [][NextRoutine]_routineVars

----------------------------------------------------------------------------
\* A promotion that may still change production has its run's row in the registry: no
\* other publisher starts beside it, however late the provider is (publish, replace_registry).
EffectIsHeld ==
  /\ \A p \in inFlight : row = p[1]
  /\ Pending => row = job.of

\* When the resource is free and nobody went past the registry, production serves the
\* deployment of the run that recorded `accepted`, or the one all plans had accepted
\* (finish, and the return of execute).
ServedAsRecorded ==
  row = NoRun /\ ~intruded =>
    \E d \in Runs \cup {lastAccepted} :
      /\ Selected(d)
      /\ \A r \in Runs : "accepted" \in files[r] <=> d = r

ReleaseSound == EffectIsHeld /\ ServedAsRecorded
=============================================================================
