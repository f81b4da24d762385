-------------------------- MODULE Publication_proofs --------------------------
(***************************************************************************)
(* Proofs that the protocol of Publication keeps its inductive invariant   *)
(* IInv for every set of operations, resources and plans, in both modes,   *)
(* that in bridge mode it implements PublicationPromise, that gates are    *)
(* observed, that a successor is spared by whoever could have seen it,     *)
(* that completions and stored receipts rest on what is so however effects *)
(* are carried, and, where no effect is shared, that nobody writes below   *)
(* an open operation.                                                      *)
(***************************************************************************)
EXTENDS PublicationRefinement, TLAPS

-----------------------------------------------------------------------------
(* Types of the vocabulary *)

(* files_observe answers with one of the observations. *)
LEMMA ObservationType == \A o : FilesObserve(o) \in Observation
  BY DEF FilesObserve, Observation

USE WorkerAssumption, PublicationAssumption
    DEF Goto, SetState, Emit, Saw, Ends, Records, Reap, Start, workerVars, durable, volatile,
        journal, visit

(* Leaving the claim clears a driver's locals and records a result. *)
LEMMA LeaveType ==
  ASSUME TypeOK, NEW o \in Operation, NEW how \in Result, Leave(o, how)
  PROVE  DriverTypeOK'
<1>1. (IF Awaited(o) THEN how ELSE "none") \in Result
  BY DEF Result
<1> QED BY <1>1 DEF Leave, TypeOK, DriverTypeOK, Step

(* So does an exception that reaches drive's handler. *)
LEMMA RaiseType ==
  ASSUME TypeOK, NEW o \in Operation, Raise(o)
  PROVE  DriverTypeOK'
  BY DEF Raise, TypeOK, DriverTypeOK, Step

\* The names of the results are results.
LEMMA ResultNames == Terminal \cup {"none", "unknown", "attention"} \subseteq Result
  BY DEF Result, Terminal

(* Every step keeps the types. *)
LEMMA TypeStep == IInv /\ [Next]_vars => TypeOK'
<1> SUFFICES ASSUME TypeOK, DriverShape, IndexShape, [Next]_vars PROVE TypeOK'
  BY DEF IInv
<1> USE DEF TypeOK, WorkerTypeOK, VisitTypeOK
<1>1. ASSUME NEW o \in Operation, Claim(o) PROVE TypeOK'
  BY <1>1, SMTT(60) DEF Claim, Active, DriverTypeOK, Step, InTry, Preflight, Result, State, ACTIVE
<1>2. ASSUME NEW o \in Operation, TerminalObserve(o) PROVE TypeOK'
  <2>1. CASE Leave(o, "attention")
    BY <1>2, <2>1, LeaveType, ResultNames DEF TerminalObserve
  <2>2. CASE Goto(o, "terminalExit") /\ UNCHANGED <<entered, seen, prior, result>>
    BY <1>2, <2>2 DEF TerminalObserve, DriverTypeOK, Step
  <2> QED BY <1>2, <2>1, <2>2 DEF TerminalObserve
<1>3. ASSUME NEW o \in Operation, TerminalExit(o) PROVE TypeOK'
  <2>1. state[o] \in Result /\ "attention" \in Result
    BY <1>3, ResultNames DEF TerminalExit, DriverShape
  <2>2. DriverTypeOK'
    BY <1>3, <2>1, LeaveType DEF TerminalExit
  <2> QED BY <1>3, <2>2 DEF TerminalExit
<1>4. ASSUME NEW o \in Operation, LegacyEnter(o) PROVE TypeOK'
  <2>1. CASE Goto(o, "prior") /\ entered' = [entered EXCEPT ![o] = TRUE] /\ UNCHANGED <<seen, prior, result>>
    BY <1>4, <2>1 DEF LegacyEnter, DriverTypeOK, Step, InTry, Preflight
  <2>2. CASE Raise(o)
    BY <1>4, <2>2, RaiseType DEF LegacyEnter
  <2> QED BY <1>4, <2>1, <2>2 DEF LegacyEnter
<1>5. ASSUME NEW o \in Operation, LookUpPrior(o) PROVE TypeOK'
  <2>0. Prior(o) \in Entry
    BY DEF Prior
  <2>1. CASE prior' = [prior EXCEPT ![o] = Prior(o).worker]
    <3>1. Prior(o).worker \in Operation \cup {None}
      BY <2>0 DEF Entry
    <3> QED BY <1>5, <2>1, <3>1, SMTT(60) DEF LookUpPrior, DriverTypeOK, Step, InTry, Preflight
  <2>2. CASE UNCHANGED prior
    <3>1. pc' = [pc EXCEPT ![o] = "observe"] \/ pc' = [pc EXCEPT ![o] = "reuse"]
      BY <1>5 DEF LookUpPrior
    <3>2. UNCHANGED <<workerVars, durable, registry, writer, entered, seen, human, result>>
      BY <1>5 DEF LookUpPrior
    <3> QED BY <2>2, <3>1, <3>2 DEF DriverTypeOK, Step, InTry, Preflight
  <2> QED BY <1>5, <2>1, <2>2 DEF LookUpPrior
<1>6. ASSUME NEW o \in Operation, CompleteReuse(o) PROVE TypeOK'
  BY <1>6
     DEF CompleteReuse, CompleteAs, Entry, DriverTypeOK, DriverShape, Resolved, State, Terminal, Step,
     Observation
<1>7. ASSUME NEW o \in Operation, ObserveFirst(o) PROVE TypeOK'
  <2>1. state' \in [Operation -> State]
    BY <1>7 DEF ObserveFirst, State, ACTIVE
  <2>2. CASE Leave(o, "unknown")
    BY <1>7, <2>1, <2>2, LeaveType, ResultNames DEF ObserveFirst
  <2>3. CASE /\ UNCHANGED <<entered, prior, result>>
             /\ \E v \in Observation, s \in {"cleanup", "intend", "judge"} : Saw(o, v) /\ Goto(o, s)
    BY <1>7, <2>1, <2>3
       DEF ObserveFirst, DriverTypeOK, Step, InTry, Preflight, Dispatched, Finishing
  <2> QED BY <1>7, <2>2, <2>3 DEF ObserveFirst
<1>8. ASSUME NEW o \in Operation, ApplyIntent(o) PROVE TypeOK'
  BY <1>8 DEF ApplyIntent, DriverTypeOK, Step, InTry, Dispatched, State, ACTIVE, Kind
<1>9. ASSUME NEW o \in Operation, DispatchApply(o) PROVE TypeOK'
  BY <1>9 DEF DispatchApply, DriverTypeOK, Step, InTry, Dispatched, WorkerStep
<1>10. ASSUME NEW o \in Operation, ApplyResponse(o) PROVE TypeOK'
  BY <1>10 DEF ApplyResponse, DriverTypeOK, Step, InTry, Dispatched, State, ACTIVE, WorkerStep
<1>11. ASSUME NEW o \in Operation, ApplyResponseMissing(o) PROVE TypeOK'
  BY <1>11
     DEF ApplyResponseMissing, DriverTypeOK, Step, InTry, Dispatched, State, ACTIVE, WorkerStep
<1>12. ASSUME NEW o \in Operation, Reobserve(o) PROVE TypeOK'
  <2>1. state' \in [Operation -> State]
    BY <1>12 DEF Reobserve, State, ACTIVE
  <2>2. CASE Leave(o, "unknown")
    BY <1>12, <2>1, <2>2, LeaveType, ResultNames DEF Reobserve
  <2>3. CASE /\ UNCHANGED <<entered, prior, result>>
             /\ \E v \in Observation, s \in {"cleanup", "intend", "judge"} : Saw(o, v) /\ Goto(o, s)
    BY <1>12, <2>1, <2>3 DEF Reobserve, DriverTypeOK, Step, InTry, Preflight, Dispatched, Finishing
  <2> QED BY <1>12, <2>2, <2>3 DEF Reobserve
<1>13. ASSUME NEW o \in Operation, Judge(o) PROVE TypeOK'
  <2>1. wpc' \in [Operation -> WorkerStep] /\ UNCHANGED <<content, journal, visit>>
    <3>1. wpc' = [wpc EXCEPT ![o] = "check"] \/ wpc' = wpc
      BY <1>13 DEF Judge
    <3> QED BY <1>13, <3>1, SMTT(60) DEF Judge, WorkerStep
  <2>2. seen' \in [Operation -> Observation \cup {"none", "unknown"}]
    BY <1>13 DEF Judge, DriverTypeOK, Observation
  <2>3. pc' \in [Operation -> Step]
    BY <1>13 DEF Judge, DriverTypeOK, Step, InTry, Dispatched, Finishing
  <2> QED BY <1>13, <2>1, <2>2, <2>3 DEF Judge, DriverTypeOK
<1>14. ASSUME NEW o \in Operation, CheckAccepted(o) PROVE TypeOK'
  BY <1>14 DEF CheckAccepted, DriverTypeOK, Step, InTry, Finishing, WorkerStep, Observation
<1>15. ASSUME NEW o \in Operation, CheckNotAccepted(o) PROVE TypeOK'
  BY <1>15 DEF CheckNotAccepted, DriverTypeOK, Step, InTry, Dispatched, WorkerStep
<1>16. ASSUME NEW o \in Operation, ObserveOwn(o) PROVE TypeOK'
  BY <1>16 DEF ObserveOwn, Observes, DriverTypeOK, Step, InTry, Dispatched
<1>17. ASSUME NEW o \in Operation, RecoverIntent(o) PROVE TypeOK'
  <2>1. events' \in [Operation -> SUBSET Kind]
    BY <1>17 DEF RecoverIntent, Kind
  <2>2. state' \in [Operation -> State]
    BY <1>17 DEF RecoverIntent, State, ACTIVE
  <2>3. pc' \in [Operation -> Step]
    BY <1>17 DEF RecoverIntent, DriverTypeOK, Step, InTry, Dispatched
  <2> QED BY <1>17, <2>1, <2>2, <2>3 DEF RecoverIntent, DriverTypeOK
<1>18. ASSUME NEW o \in Operation, DispatchRecover(o) PROVE TypeOK'
  BY <1>18 DEF DispatchRecover, DriverTypeOK, Step, InTry, Dispatched, WorkerStep
<1>19. ASSUME NEW o \in Operation, RecoverResponse(o) PROVE TypeOK'
  BY <1>19 DEF RecoverResponse, DriverTypeOK, Step, InTry, Dispatched, WorkerStep
<1>20. ASSUME NEW o \in Operation, RecoverResponseMissing(o) PROVE TypeOK'
  BY <1>20
     DEF RecoverResponseMissing, DriverTypeOK, Step, InTry, Dispatched, State, ACTIVE, WorkerStep
<1>21. ASSUME NEW o \in Operation, Settle(o) PROVE TypeOK'
  BY <1>21 DEF Settle, Observes, DriverTypeOK, Step, InTry, Finishing, Terminal, Observation
<1>22. ASSUME NEW o \in Operation, Cleanup(o) PROVE TypeOK'
  BY <1>22 DEF Cleanup, Observes, DriverTypeOK, Step, InTry, Finishing
<1>23. ASSUME NEW o \in Operation, Complete(o) PROVE TypeOK'
  BY <1>23 DEF Complete, CompleteAs, Entry, DriverTypeOK, DriverShape, Step, State, Terminal
<1>24. ASSUME NEW o \in Operation, LegacyExit(o) PROVE TypeOK'
  <2>1. seen[o] \in Result
    BY <1>24, ResultNames DEF LegacyExit, DriverShape
  <2>2. DriverTypeOK'
    BY <1>24, <2>1, LeaveType, RaiseType DEF LegacyExit
  <2> QED BY <1>24, <2>2 DEF LegacyExit
<1>25. ASSUME NEW o \in Operation, Fails(o) PROVE TypeOK'
  BY <1>25, RaiseType DEF Fails
<1>26. ASSUME NEW o \in Operation, Abort(o) PROVE TypeOK'
  <2>1. state' \in [Operation -> State] /\ events' \in [Operation -> SUBSET Kind]
    <3>1. state' \in [Operation -> State]
      BY <1>26 DEF Abort, State
    <3>2. CASE events' = events
      BY <3>1, <3>2
    <3>3. CASE events' = [events EXCEPT ![o] = @ \cup {"preflight-stopped"}]
      BY <3>1, <3>3 DEF Kind
    <3> QED BY <1>26, <3>2, <3>3 DEF Abort
  <2>2. CASE Leave(o, "attention")
    BY <1>26, <2>1, <2>2, LeaveType, ResultNames DEF Abort
  <2>3. CASE Goto(o, "abortExit") /\ UNCHANGED <<entered, seen, prior, result>>
    BY <1>26, <2>1, <2>3 DEF Abort, DriverTypeOK, Step
  <2> QED BY <1>26, <2>2, <2>3 DEF Abort
<1>27. ASSUME NEW o \in Operation, AbortExit(o) PROVE TypeOK'
  BY <1>27, LeaveType, ResultNames DEF AbortExit
<1>28. ASSUME NEW o \in Operation, RegisterEffect(o) PROVE TypeOK'
  BY <1>28 DEF RegisterEffect, DriverTypeOK, DriverShape, IndexShape
<1>29. ASSUME NEW o \in Operation, AcceptByHuman(o) PROVE TypeOK'
  BY <1>29 DEF AcceptByHuman, DriverTypeOK
<1>30. ASSUME NEW o \in Operation, DriverCrash(o) PROVE TypeOK'
  BY <1>30, LeaveType, ResultNames DEF DriverCrash
<1>31. ASSUME NEW o \in Operation, OrphanExit(o) PROVE TypeOK'
  BY <1>31 DEF OrphanExit, DriverTypeOK, WorkerStep
<1>32. ASSUME NEW o \in Operation, ApplyBegin(o), Work(o) PROVE TypeOK'
  <2>1. /\ applyOnce' \in [Operation -> BOOLEAN] /\ recoverOnce' \in [Operation -> BOOLEAN]
        /\ stateJson' \in [Operation -> JournalState]
    BY <1>32 DEF ApplyBegin, JournalState
  <2>2. wpc' \in [Operation -> WorkerStep] /\ VisitTypeOK'
    <3>1. \/ wpc' = [wpc EXCEPT ![o] = "stop"]
          \/ wpc' = [wpc EXCEPT ![o] = "raised"]
      BY <1>32 DEF ApplyBegin
    <3>2. \/ UNCHANGED visit
          \/ /\ left' = [left EXCEPT ![o] = {}] /\ compared' = [compared EXCEPT ![o] = {}]
             /\ overtaken' = [overtaken EXCEPT ![o] = {}]
      BY <1>32 DEF ApplyBegin
    <3>3. VisitTypeOK'
      BY <3>2
    <3> QED BY <3>1, <3>3 DEF WorkerStep
  <2> QED BY <1>32, <2>1, <2>2 DEF ApplyBegin, Work, DriverTypeOK
<1>33. ASSUME NEW o \in Operation, ApplyFails(o), Work(o) PROVE TypeOK'
  <2>1. /\ applyOnce' \in [Operation -> BOOLEAN] /\ recoverOnce' \in [Operation -> BOOLEAN]
        /\ stateJson' \in [Operation -> JournalState]
    BY <1>33 DEF ApplyFails, JournalState
  <2>2. wpc' \in [Operation -> WorkerStep] /\ VisitTypeOK'
    <3>1. \/ wpc' = [wpc EXCEPT ![o] = "raised"]
          \/ wpc' = [wpc EXCEPT ![o] = "raised"]
      BY <1>33 DEF ApplyFails
    <3>2. \/ UNCHANGED visit
          \/ /\ left' = [left EXCEPT ![o] = {}] /\ compared' = [compared EXCEPT ![o] = {}]
             /\ overtaken' = [overtaken EXCEPT ![o] = {}]
      BY <1>33 DEF ApplyFails
    <3> QED BY <3>1, <3>2 DEF WorkerStep, VisitTypeOK
  <2> QED BY <1>33, <2>1, <2>2 DEF ApplyFails, Work, DriverTypeOK
<1>34. ASSUME NEW o \in Operation, ApplyStopped(o), Work(o) PROVE TypeOK'
  BY <1>34 DEF ApplyStopped, Work, DriverTypeOK, WorkerStep
<1>35. ASSUME NEW o \in Operation, ApplyReplace(o), Work(o) PROVE TypeOK'
  BY <1>35 DEF ApplyReplace, Work, DriverTypeOK, WorkerStep
<1>36. ASSUME NEW o \in Operation, ApplyStarted(o), Work(o) PROVE TypeOK'
  <2>1. /\ applyOnce' \in [Operation -> BOOLEAN] /\ recoverOnce' \in [Operation -> BOOLEAN]
        /\ stateJson' \in [Operation -> JournalState]
    BY <1>36 DEF ApplyStarted, JournalState
  <2>2. wpc' \in [Operation -> WorkerStep] /\ VisitTypeOK'
    <3>1. \/ wpc' = [wpc EXCEPT ![o] = "answered"]
          \/ wpc' = [wpc EXCEPT ![o] = "raised"]
      BY <1>36 DEF ApplyStarted
    <3>2. \/ UNCHANGED visit
          \/ /\ left' = [left EXCEPT ![o] = {}] /\ compared' = [compared EXCEPT ![o] = {}]
             /\ overtaken' = [overtaken EXCEPT ![o] = {}]
      BY <1>36 DEF ApplyStarted
    <3> QED BY <3>1, <3>2 DEF WorkerStep, VisitTypeOK
  <2> QED BY <1>36, <2>1, <2>2 DEF ApplyStarted, Work, DriverTypeOK
<1>37. ASSUME NEW o \in Operation, Check(o), Work(o) PROVE TypeOK'
  <2>1. /\ applyOnce' \in [Operation -> BOOLEAN] /\ recoverOnce' \in [Operation -> BOOLEAN]
        /\ stateJson' \in [Operation -> JournalState]
    BY <1>37, SMTT(60) DEF Check, JournalState
  <2>2. wpc' \in [Operation -> WorkerStep] /\ VisitTypeOK'
    <3>1. \/ wpc' = [wpc EXCEPT ![o] = "answered"]
          \/ wpc' = [wpc EXCEPT ![o] = "raised"]
      BY <1>37 DEF Check
    <3>2. \/ UNCHANGED visit
          \/ /\ left' = [left EXCEPT ![o] = {}] /\ compared' = [compared EXCEPT ![o] = {}]
             /\ overtaken' = [overtaken EXCEPT ![o] = {}]
      BY <1>37 DEF Check
    <3> QED BY <3>1, <3>2 DEF WorkerStep, VisitTypeOK
  <2> QED BY <1>37, <2>1, <2>2 DEF Check, Work, DriverTypeOK
<1>38. ASSUME NEW o \in Operation, RecoverBegin(o), Work(o) PROVE TypeOK'
  <2>1. /\ applyOnce' \in [Operation -> BOOLEAN] /\ recoverOnce' \in [Operation -> BOOLEAN]
        /\ stateJson' \in [Operation -> JournalState]
    BY <1>38 DEF RecoverBegin, JournalState
  <2>2. wpc' \in [Operation -> WorkerStep] /\ VisitTypeOK'
    <3>1. \/ wpc' = [wpc EXCEPT ![o] = "return"]
          \/ wpc' = [wpc EXCEPT ![o] = "raised"]
      BY <1>38 DEF RecoverBegin
    <3>2. \/ UNCHANGED visit
          \/ /\ left' = [left EXCEPT ![o] = {}] /\ compared' = [compared EXCEPT ![o] = {}]
             /\ overtaken' = [overtaken EXCEPT ![o] = {}]
      BY <1>38 DEF RecoverBegin
    <3> QED BY <3>1, <3>2 DEF WorkerStep, VisitTypeOK
  <2> QED BY <1>38, <2>1, <2>2 DEF RecoverBegin, Work, DriverTypeOK
<1>39. ASSUME NEW o \in Operation, RecoverStopped(o), Work(o) PROVE TypeOK'
  BY <1>39 DEF RecoverStopped, Work, DriverTypeOK, WorkerStep
<1>40. ASSUME NEW o \in Operation, RecoverReverse(o), Work(o) PROVE TypeOK'
  BY <1>40 DEF RecoverReverse, Work, DriverTypeOK, WorkerStep
<1>41. ASSUME NEW o \in Operation, RecoverStarted(o), Work(o) PROVE TypeOK'
  <2>1. /\ applyOnce' \in [Operation -> BOOLEAN] /\ recoverOnce' \in [Operation -> BOOLEAN]
        /\ stateJson' \in [Operation -> JournalState]
    BY <1>41 DEF RecoverStarted, JournalState
  <2>2. wpc' \in [Operation -> WorkerStep] /\ VisitTypeOK'
    <3>1. \/ wpc' = [wpc EXCEPT ![o] = "answered"]
          \/ wpc' = [wpc EXCEPT ![o] = "raised"]
      BY <1>41 DEF RecoverStarted
    <3>2. \/ UNCHANGED visit
          \/ /\ left' = [left EXCEPT ![o] = {}] /\ compared' = [compared EXCEPT ![o] = {}]
             /\ overtaken' = [overtaken EXCEPT ![o] = {}]
      BY <1>41 DEF RecoverStarted
    <3> QED BY <3>1, <3>2 DEF WorkerStep, VisitTypeOK
  <2> QED BY <1>41, <2>1, <2>2 DEF RecoverStarted, Work, DriverTypeOK
<1>42. ASSUME NEW o \in Operation, RecoverFails(o), Work(o) PROVE TypeOK'
  BY <1>42 DEF RecoverFails, Work, DriverTypeOK, WorkerStep
<1>43. ASSUME NEW r \in exposed, Intrude(r) PROVE TypeOK'
  BY <1>43 DEF Intrude, ForeignWrite, DriverTypeOK
<1>44. CASE HostCrash
  BY <1>44 DEF HostCrash, DriverTypeOK, Step, Result, WorkerStep
<1>45. CASE LegacyLock
  BY <1>45 DEF LegacyLock, DriverTypeOK
<1>46. CASE LegacyBind
  BY <1>46 DEF LegacyBind, DriverTypeOK
<1>47. CASE LegacyUnlock
  BY <1>47 DEF LegacyUnlock, DriverTypeOK
<1>49. ASSUME NEW o \in Operation, RecoverCompare(o), Work(o) PROVE TypeOK'
  BY <1>49 DEF RecoverCompare, Work, DriverTypeOK, WorkerStep
<1>48. CASE UNCHANGED vars
  BY <1>48 DEF vars, DriverTypeOK
<1> QED
  BY <1>1, <1>2, <1>3, <1>4, <1>5, <1>6, <1>7, <1>8, <1>9, <1>10, <1>11,
     <1>12, <1>13, <1>14, <1>15, <1>16, <1>17, <1>18, <1>19, <1>20, <1>21,
     <1>22, <1>23, <1>24, <1>25, <1>26, <1>27, <1>28, <1>29, <1>30, <1>31,
     <1>32, <1>33, <1>34, <1>35, <1>36, <1>37, <1>38, <1>39, <1>40, <1>41,
     <1>42, <1>43, <1>44, <1>45, <1>46, <1>47, <1>48, <1>49 DEF Next, Drive, Work,
     WorkerNext

(* A driver's position keeps describing its locals and its row. *)
LEMMA DriverStep == IInv /\ [Next]_vars => DriverShape'
<1> SUFFICES ASSUME TypeOK, DriverShape, IndexShape, OnceShape, [Next]_vars PROVE DriverShape'
  BY DEF IInv
<1> USE DEF TypeOK, WorkerTypeOK, DriverTypeOK, DriverShape, Resolved, Dispatches, Has, Terminal,
            Dispatched, InTry, Preflight, Finishing
<1>1. ASSUME NEW o \in Operation, Claim(o) PROVE DriverShape'
  BY <1>1 DEF Claim, Active
<1>2. ASSUME NEW o \in Operation, TerminalObserve(o) PROVE DriverShape'
  BY <1>2 DEF TerminalObserve, Leave
<1>3. ASSUME NEW o \in Operation, TerminalExit(o) PROVE DriverShape'
  BY <1>3 DEF TerminalExit, Leave
<1>4. ASSUME NEW o \in Operation, LegacyEnter(o) PROVE DriverShape'
  BY <1>4 DEF LegacyEnter, Raise
<1>5. ASSUME NEW o \in Operation, LookUpPrior(o) PROVE DriverShape'
  <2>1. Prior(o).operation # None => Prior(o).worker # None
    BY DEF Prior, IndexShape, NoEntry
  <2> QED BY <1>5, <2>1 DEF LookUpPrior, Observes
<1>6. ASSUME NEW o \in Operation, CompleteReuse(o) PROVE DriverShape'
  BY <1>6 DEF CompleteReuse, CompleteAs
<1>7. ASSUME NEW o \in Operation, ObserveFirst(o) PROVE DriverShape'
  BY <1>7 DEF ObserveFirst, Leave, Observes
<1>8. ASSUME NEW o \in Operation, ApplyIntent(o) PROVE DriverShape'
  BY <1>8 DEF ApplyIntent
<1>9. ASSUME NEW o \in Operation, DispatchApply(o) PROVE DriverShape'
  BY <1>9 DEF DispatchApply
<1>10. ASSUME NEW o \in Operation, ApplyResponse(o) PROVE DriverShape'
  BY <1>10 DEF ApplyResponse
<1>11. ASSUME NEW o \in Operation, ApplyResponseMissing(o) PROVE DriverShape'
  BY <1>11 DEF ApplyResponseMissing
<1>12. ASSUME NEW o \in Operation, Reobserve(o) PROVE DriverShape'
  BY <1>12 DEF Reobserve, Leave, Observes
<1>13. ASSUME NEW o \in Operation, Judge(o) PROVE DriverShape'
  BY <1>13 DEF Judge
<1>14. ASSUME NEW o \in Operation, CheckAccepted(o) PROVE DriverShape'
  BY <1>14 DEF CheckAccepted
<1>15. ASSUME NEW o \in Operation, CheckNotAccepted(o) PROVE DriverShape'
  BY <1>15 DEF CheckNotAccepted
<1>16. ASSUME NEW o \in Operation, ObserveOwn(o) PROVE DriverShape'
  BY <1>16 DEF ObserveOwn, Observes
<1>17. ASSUME NEW o \in Operation, RecoverIntent(o) PROVE DriverShape'
  BY <1>17 DEF RecoverIntent, OnceShape
<1>18. ASSUME NEW o \in Operation, DispatchRecover(o) PROVE DriverShape'
  BY <1>18 DEF DispatchRecover
<1>19. ASSUME NEW o \in Operation, RecoverResponse(o) PROVE DriverShape'
  BY <1>19 DEF RecoverResponse
<1>20. ASSUME NEW o \in Operation, RecoverResponseMissing(o) PROVE DriverShape'
  BY <1>20 DEF RecoverResponseMissing
<1>21. ASSUME NEW o \in Operation, Settle(o) PROVE DriverShape'
  BY <1>21 DEF Settle, Observes, Terminal
<1>22. ASSUME NEW o \in Operation, Cleanup(o) PROVE DriverShape'
  BY <1>22 DEF Cleanup, Observes
<1>23. ASSUME NEW o \in Operation, Complete(o) PROVE DriverShape'
  BY <1>23 DEF Complete, CompleteAs
<1>24. ASSUME NEW o \in Operation, LegacyExit(o) PROVE DriverShape'
  BY <1>24 DEF LegacyExit, Leave, Raise
<1>25. ASSUME NEW o \in Operation, Fails(o) PROVE DriverShape'
  BY <1>25 DEF Fails, Raise
<1>26. ASSUME NEW o \in Operation, Abort(o) PROVE DriverShape'
  BY <1>26 DEF Abort, Leave
<1>27. ASSUME NEW o \in Operation, AbortExit(o) PROVE DriverShape'
  BY <1>27 DEF AbortExit, Leave
<1>28. ASSUME NEW o \in Operation, RegisterEffect(o) PROVE DriverShape'
  BY <1>28 DEF RegisterEffect
<1>29. ASSUME NEW o \in Operation, AcceptByHuman(o) PROVE DriverShape'
  BY <1>29 DEF AcceptByHuman
<1>30. ASSUME NEW o \in Operation, DriverCrash(o) PROVE DriverShape'
  BY <1>30 DEF DriverCrash, Leave
<1>31. ASSUME NEW o \in Operation, OrphanExit(o) PROVE DriverShape'
  BY <1>31 DEF OrphanExit
<1>32. ASSUME NEW o \in Operation, ApplyBegin(o), Work(o) PROVE DriverShape'
  BY <1>32 DEF ApplyBegin, Work
<1>33. ASSUME NEW o \in Operation, ApplyFails(o), Work(o) PROVE DriverShape'
  BY <1>33 DEF ApplyFails, Work
<1>34. ASSUME NEW o \in Operation, ApplyStopped(o), Work(o) PROVE DriverShape'
  BY <1>34 DEF ApplyStopped, Work
<1>35. ASSUME NEW o \in Operation, ApplyReplace(o), Work(o) PROVE DriverShape'
  BY <1>35 DEF ApplyReplace, Work
<1>36. ASSUME NEW o \in Operation, ApplyStarted(o), Work(o) PROVE DriverShape'
  BY <1>36 DEF ApplyStarted, Work
<1>37. ASSUME NEW o \in Operation, Check(o), Work(o) PROVE DriverShape'
  BY <1>37 DEF Check, Work
<1>38. ASSUME NEW o \in Operation, RecoverBegin(o), Work(o) PROVE DriverShape'
  BY <1>38 DEF RecoverBegin, Work
<1>39. ASSUME NEW o \in Operation, RecoverStopped(o), Work(o) PROVE DriverShape'
  BY <1>39 DEF RecoverStopped, Work
<1>40. ASSUME NEW o \in Operation, RecoverReverse(o), Work(o) PROVE DriverShape'
  BY <1>40 DEF RecoverReverse, Work
<1>41. ASSUME NEW o \in Operation, RecoverStarted(o), Work(o) PROVE DriverShape'
  BY <1>41 DEF RecoverStarted, Work
<1>42. ASSUME NEW o \in Operation, RecoverFails(o), Work(o) PROVE DriverShape'
  BY <1>42 DEF RecoverFails, Work
<1>43. ASSUME NEW r \in exposed, Intrude(r) PROVE DriverShape'
  BY <1>43 DEF Intrude, ForeignWrite
<1>44. CASE HostCrash
  BY <1>44 DEF HostCrash
<1>45. CASE LegacyLock
  BY <1>45 DEF LegacyLock
<1>46. CASE LegacyBind
  BY <1>46 DEF LegacyBind
<1>47. CASE LegacyUnlock
  BY <1>47 DEF LegacyUnlock
<1>49. ASSUME NEW o \in Operation, RecoverCompare(o), Work(o) PROVE DriverShape'
  BY <1>49 DEF RecoverCompare, Work
<1>48. CASE UNCHANGED vars
  BY <1>48 DEF vars
<1> QED
  BY <1>1, <1>2, <1>3, <1>4, <1>5, <1>6, <1>7, <1>8, <1>9, <1>10, <1>11,
     <1>12, <1>13, <1>14, <1>15, <1>16, <1>17, <1>18, <1>19, <1>20, <1>21,
     <1>22, <1>23, <1>24, <1>25, <1>26, <1>27, <1>28, <1>29, <1>30, <1>31,
     <1>32, <1>33, <1>34, <1>35, <1>36, <1>37, <1>38, <1>39, <1>40, <1>41,
     <1>42, <1>43, <1>44, <1>45, <1>46, <1>47, <1>48, <1>49 DEF Next, Drive, Work,
     WorkerNext

(* A stored receipt keeps naming an operation and a worker. *)
LEMMA IndexStep == IInv /\ [Next]_vars => IndexShape'
<1> SUFFICES ASSUME TypeOK, DriverShape, IndexShape, [Next]_vars PROVE IndexShape'
  BY DEF IInv
<1> USE DEF TypeOK, WorkerTypeOK, DriverTypeOK, IndexShape, Resolved, Terminal
<1>1. ASSUME NEW o \in Operation, Claim(o) PROVE IndexShape'
  BY <1>1 DEF Claim, Active
<1>2. ASSUME NEW o \in Operation, TerminalObserve(o) PROVE IndexShape'
  BY <1>2 DEF TerminalObserve, Leave
<1>3. ASSUME NEW o \in Operation, TerminalExit(o) PROVE IndexShape'
  BY <1>3 DEF TerminalExit, Leave
<1>4. ASSUME NEW o \in Operation, LegacyEnter(o) PROVE IndexShape'
  BY <1>4 DEF LegacyEnter, Raise
<1>5. ASSUME NEW o \in Operation, LookUpPrior(o) PROVE IndexShape'
  BY <1>5 DEF LookUpPrior, Prior, Observes
<1>6. ASSUME NEW o \in Operation, CompleteReuse(o) PROVE IndexShape'
  BY <1>6 DEF CompleteReuse, CompleteAs, DriverShape
<1>7. ASSUME NEW o \in Operation, ObserveFirst(o) PROVE IndexShape'
  BY <1>7 DEF ObserveFirst, Leave, Observes
<1>8. ASSUME NEW o \in Operation, ApplyIntent(o) PROVE IndexShape'
  BY <1>8 DEF ApplyIntent
<1>9. ASSUME NEW o \in Operation, DispatchApply(o) PROVE IndexShape'
  BY <1>9 DEF DispatchApply
<1>10. ASSUME NEW o \in Operation, ApplyResponse(o) PROVE IndexShape'
  BY <1>10 DEF ApplyResponse
<1>11. ASSUME NEW o \in Operation, ApplyResponseMissing(o) PROVE IndexShape'
  BY <1>11 DEF ApplyResponseMissing
<1>12. ASSUME NEW o \in Operation, Reobserve(o) PROVE IndexShape'
  BY <1>12 DEF Reobserve, Leave, Observes
<1>13. ASSUME NEW o \in Operation, Judge(o) PROVE IndexShape'
  BY <1>13 DEF Judge
<1>14. ASSUME NEW o \in Operation, CheckAccepted(o) PROVE IndexShape'
  BY <1>14 DEF CheckAccepted
<1>15. ASSUME NEW o \in Operation, CheckNotAccepted(o) PROVE IndexShape'
  BY <1>15 DEF CheckNotAccepted
<1>16. ASSUME NEW o \in Operation, ObserveOwn(o) PROVE IndexShape'
  BY <1>16 DEF ObserveOwn, Observes
<1>17. ASSUME NEW o \in Operation, RecoverIntent(o) PROVE IndexShape'
  BY <1>17 DEF RecoverIntent
<1>18. ASSUME NEW o \in Operation, DispatchRecover(o) PROVE IndexShape'
  BY <1>18 DEF DispatchRecover
<1>19. ASSUME NEW o \in Operation, RecoverResponse(o) PROVE IndexShape'
  BY <1>19 DEF RecoverResponse
<1>20. ASSUME NEW o \in Operation, RecoverResponseMissing(o) PROVE IndexShape'
  BY <1>20 DEF RecoverResponseMissing
<1>21. ASSUME NEW o \in Operation, Settle(o) PROVE IndexShape'
  BY <1>21 DEF Settle, Observes
<1>22. ASSUME NEW o \in Operation, Cleanup(o) PROVE IndexShape'
  BY <1>22 DEF Cleanup, Observes
<1>23. ASSUME NEW o \in Operation, Complete(o) PROVE IndexShape'
  BY <1>23 DEF Complete, CompleteAs, DriverShape
<1>24. ASSUME NEW o \in Operation, LegacyExit(o) PROVE IndexShape'
  BY <1>24 DEF LegacyExit, Leave, Raise
<1>25. ASSUME NEW o \in Operation, Fails(o) PROVE IndexShape'
  BY <1>25 DEF Fails, Raise
<1>26. ASSUME NEW o \in Operation, Abort(o) PROVE IndexShape'
  BY <1>26 DEF Abort, Leave
<1>27. ASSUME NEW o \in Operation, AbortExit(o) PROVE IndexShape'
  BY <1>27 DEF AbortExit, Leave
<1>28. ASSUME NEW o \in Operation, RegisterEffect(o) PROVE IndexShape'
  BY <1>28 DEF RegisterEffect
<1>29. ASSUME NEW o \in Operation, AcceptByHuman(o) PROVE IndexShape'
  BY <1>29 DEF AcceptByHuman
<1>30. ASSUME NEW o \in Operation, DriverCrash(o) PROVE IndexShape'
  BY <1>30 DEF DriverCrash, Leave
<1>31. ASSUME NEW o \in Operation, OrphanExit(o) PROVE IndexShape'
  BY <1>31 DEF OrphanExit
<1>32. ASSUME NEW o \in Operation, ApplyBegin(o), Work(o) PROVE IndexShape'
  BY <1>32 DEF ApplyBegin, Work
<1>33. ASSUME NEW o \in Operation, ApplyFails(o), Work(o) PROVE IndexShape'
  BY <1>33 DEF ApplyFails, Work
<1>34. ASSUME NEW o \in Operation, ApplyStopped(o), Work(o) PROVE IndexShape'
  BY <1>34 DEF ApplyStopped, Work
<1>35. ASSUME NEW o \in Operation, ApplyReplace(o), Work(o) PROVE IndexShape'
  BY <1>35 DEF ApplyReplace, Work
<1>36. ASSUME NEW o \in Operation, ApplyStarted(o), Work(o) PROVE IndexShape'
  BY <1>36 DEF ApplyStarted, Work
<1>37. ASSUME NEW o \in Operation, Check(o), Work(o) PROVE IndexShape'
  BY <1>37 DEF Check, Work
<1>38. ASSUME NEW o \in Operation, RecoverBegin(o), Work(o) PROVE IndexShape'
  BY <1>38 DEF RecoverBegin, Work
<1>39. ASSUME NEW o \in Operation, RecoverStopped(o), Work(o) PROVE IndexShape'
  BY <1>39 DEF RecoverStopped, Work
<1>40. ASSUME NEW o \in Operation, RecoverReverse(o), Work(o) PROVE IndexShape'
  BY <1>40 DEF RecoverReverse, Work
<1>41. ASSUME NEW o \in Operation, RecoverStarted(o), Work(o) PROVE IndexShape'
  BY <1>41 DEF RecoverStarted, Work
<1>42. ASSUME NEW o \in Operation, RecoverFails(o), Work(o) PROVE IndexShape'
  BY <1>42 DEF RecoverFails, Work
<1>43. ASSUME NEW r \in exposed, Intrude(r) PROVE IndexShape'
  BY <1>43 DEF Intrude, ForeignWrite
<1>44. CASE HostCrash
  BY <1>44 DEF HostCrash
<1>45. CASE LegacyLock
  BY <1>45 DEF LegacyLock
<1>46. CASE LegacyBind
  BY <1>46 DEF LegacyBind
<1>47. CASE LegacyUnlock
  BY <1>47 DEF LegacyUnlock
<1>49. ASSUME NEW o \in Operation, RecoverCompare(o), Work(o) PROVE IndexShape'
  BY <1>49 DEF RecoverCompare, Work
<1>48. CASE UNCHANGED vars
  BY <1>48 DEF vars
<1> QED
  BY <1>1, <1>2, <1>3, <1>4, <1>5, <1>6, <1>7, <1>8, <1>9, <1>10, <1>11,
     <1>12, <1>13, <1>14, <1>15, <1>16, <1>17, <1>18, <1>19, <1>20, <1>21,
     <1>22, <1>23, <1>24, <1>25, <1>26, <1>27, <1>28, <1>29, <1>30, <1>31,
     <1>32, <1>33, <1>34, <1>35, <1>36, <1>37, <1>38, <1>39, <1>40, <1>41,
     <1>42, <1>43, <1>44, <1>45, <1>46, <1>47, <1>48, <1>49 DEF Next, Drive, Work,
     WorkerNext

(* One row at most in the registry, and it is its driver's to remove. *)
LEMMA BridgeStep == IInv /\ [Next]_vars => BridgeShape'
<1> SUFFICES ASSUME TypeOK, DriverShape, BridgeShape, OnceShape, [Next]_vars PROVE BridgeShape'
  BY DEF IInv
<1> USE DEF TypeOK, WorkerTypeOK, DriverTypeOK, BridgeShape, Open, Dispatches, Has, Terminal,
            InTry, Preflight, Dispatched, Finishing
<1>1. ASSUME NEW o \in Operation, Claim(o) PROVE BridgeShape'
  BY <1>1 DEF Claim, Active
<1>2. ASSUME NEW o \in Operation, TerminalObserve(o) PROVE BridgeShape'
  BY <1>2 DEF TerminalObserve, Leave
<1>3. ASSUME NEW o \in Operation, TerminalExit(o) PROVE BridgeShape'
  <2>1. CASE Scoped
    BY <2>1
  <2>2. CASE ~Scoped
    <3>1. state[o] \in Terminal
      BY <1>3 DEF TerminalExit, DriverShape
    <3>2. /\ registry' \in {registry, registry \ {o}} /\ UNCHANGED durable
          /\ pc' = [pc EXCEPT ![o] = "idle"] /\ entered' = [entered EXCEPT ![o] = FALSE]
      BY <1>3, <2>2 DEF TerminalExit, Leave
    <3> QED BY <2>2, <3>1, <3>2
  <2> QED BY <2>1, <2>2
<1>4. ASSUME NEW o \in Operation, LegacyEnter(o) PROVE BridgeShape'
  <2>1. CASE Scoped
    BY <2>1
  <2>2. CASE ~Scoped /\ Raise(o) /\ registry' = registry
    BY <1>4, <2>2 DEF LegacyEnter, Raise
  <2>3. CASE /\ ~Scoped /\ registry \subseteq {o} /\ registry' = {o}
             /\ entered' = [entered EXCEPT ![o] = TRUE]
             /\ pc' = [pc EXCEPT ![o] = "prior"] /\ UNCHANGED <<events, state>>
    BY <2>3
  <2> QED BY <1>4, <2>1, <2>2, <2>3 DEF LegacyEnter
<1>5. ASSUME NEW o \in Operation, LookUpPrior(o) PROVE BridgeShape'
  BY <1>5 DEF LookUpPrior, Prior, Observes
<1>6. ASSUME NEW o \in Operation, CompleteReuse(o) PROVE BridgeShape'
  BY <1>6 DEF CompleteReuse, CompleteAs
<1>7. ASSUME NEW o \in Operation, ObserveFirst(o) PROVE BridgeShape'
  BY <1>7 DEF ObserveFirst, Leave, Observes
<1>8. ASSUME NEW o \in Operation, ApplyIntent(o) PROVE BridgeShape'
  BY <1>8 DEF ApplyIntent
<1>9. ASSUME NEW o \in Operation, DispatchApply(o) PROVE BridgeShape'
  BY <1>9 DEF DispatchApply
<1>10. ASSUME NEW o \in Operation, ApplyResponse(o) PROVE BridgeShape'
  BY <1>10 DEF ApplyResponse
<1>11. ASSUME NEW o \in Operation, ApplyResponseMissing(o) PROVE BridgeShape'
  BY <1>11 DEF ApplyResponseMissing
<1>12. ASSUME NEW o \in Operation, Reobserve(o) PROVE BridgeShape'
  <2>1. /\ UNCHANGED <<registry, events>>
        /\ state[o] \notin Terminal
        /\ state' = state \/ state' = [state EXCEPT ![o] = "unknown"]
    BY <1>12 DEF Reobserve, DriverShape
  <2>2. CASE Leave(o, "unknown")
    BY <1>12, <2>1, <2>2 DEF Leave
  <2>3. CASE pc' = [pc EXCEPT ![o] = "judge"] /\ UNCHANGED entered
    BY <1>12, <2>1, <2>3 DEF Reobserve
  <2> QED BY <1>12, <2>2, <2>3 DEF Reobserve
<1>13. ASSUME NEW o \in Operation, Judge(o) PROVE BridgeShape'
  BY <1>13 DEF Judge
<1>14. ASSUME NEW o \in Operation, CheckAccepted(o) PROVE BridgeShape'
  BY <1>14 DEF CheckAccepted
<1>15. ASSUME NEW o \in Operation, CheckNotAccepted(o) PROVE BridgeShape'
  BY <1>15 DEF CheckNotAccepted
<1>16. ASSUME NEW o \in Operation, ObserveOwn(o) PROVE BridgeShape'
  BY <1>16 DEF ObserveOwn, Observes
<1>17. ASSUME NEW o \in Operation, RecoverIntent(o) PROVE BridgeShape'
  BY <1>17 DEF RecoverIntent
<1>18. ASSUME NEW o \in Operation, DispatchRecover(o) PROVE BridgeShape'
  BY <1>18 DEF DispatchRecover
<1>19. ASSUME NEW o \in Operation, RecoverResponse(o) PROVE BridgeShape'
  BY <1>19 DEF RecoverResponse
<1>20. ASSUME NEW o \in Operation, RecoverResponseMissing(o) PROVE BridgeShape'
  BY <1>20 DEF RecoverResponseMissing
<1>21. ASSUME NEW o \in Operation, Settle(o) PROVE BridgeShape'
  BY <1>21 DEF Settle, Observes
<1>22. ASSUME NEW o \in Operation, Cleanup(o) PROVE BridgeShape'
  BY <1>22 DEF Cleanup, Observes
<1>23. ASSUME NEW o \in Operation, Complete(o) PROVE BridgeShape'
  BY <1>23 DEF Complete, CompleteAs, DriverShape
<1>24. ASSUME NEW o \in Operation, LegacyExit(o) PROVE BridgeShape'
  BY <1>24 DEF LegacyExit, Leave, Raise, DriverShape
<1>25. ASSUME NEW o \in Operation, Fails(o) PROVE BridgeShape'
  BY <1>25 DEF Fails, Raise
<1>26. ASSUME NEW o \in Operation, Abort(o) PROVE BridgeShape'
  BY <1>26 DEF Abort, Leave
<1>27. ASSUME NEW o \in Operation, AbortExit(o) PROVE BridgeShape'
  BY <1>27 DEF AbortExit, Leave, DriverShape
<1>28. ASSUME NEW o \in Operation, RegisterEffect(o) PROVE BridgeShape'
  BY <1>28 DEF RegisterEffect
<1>29. ASSUME NEW o \in Operation, AcceptByHuman(o) PROVE BridgeShape'
  BY <1>29 DEF AcceptByHuman
<1>30. ASSUME NEW o \in Operation, DriverCrash(o) PROVE BridgeShape'
  BY <1>30 DEF DriverCrash, Leave
<1>31. ASSUME NEW o \in Operation, OrphanExit(o) PROVE BridgeShape'
  BY <1>31 DEF OrphanExit
<1>32. ASSUME NEW o \in Operation, ApplyBegin(o), Work(o) PROVE BridgeShape'
  BY <1>32 DEF ApplyBegin, Work
<1>33. ASSUME NEW o \in Operation, ApplyFails(o), Work(o) PROVE BridgeShape'
  BY <1>33 DEF ApplyFails, Work
<1>34. ASSUME NEW o \in Operation, ApplyStopped(o), Work(o) PROVE BridgeShape'
  BY <1>34 DEF ApplyStopped, Work
<1>35. ASSUME NEW o \in Operation, ApplyReplace(o), Work(o) PROVE BridgeShape'
  BY <1>35 DEF ApplyReplace, Work
<1>36. ASSUME NEW o \in Operation, ApplyStarted(o), Work(o) PROVE BridgeShape'
  BY <1>36 DEF ApplyStarted, Work
<1>37. ASSUME NEW o \in Operation, Check(o), Work(o) PROVE BridgeShape'
  BY <1>37 DEF Check, Work
<1>38. ASSUME NEW o \in Operation, RecoverBegin(o), Work(o) PROVE BridgeShape'
  BY <1>38 DEF RecoverBegin, Work
<1>39. ASSUME NEW o \in Operation, RecoverStopped(o), Work(o) PROVE BridgeShape'
  BY <1>39 DEF RecoverStopped, Work
<1>40. ASSUME NEW o \in Operation, RecoverReverse(o), Work(o) PROVE BridgeShape'
  BY <1>40 DEF RecoverReverse, Work
<1>41. ASSUME NEW o \in Operation, RecoverStarted(o), Work(o) PROVE BridgeShape'
  BY <1>41 DEF RecoverStarted, Work
<1>42. ASSUME NEW o \in Operation, RecoverFails(o), Work(o) PROVE BridgeShape'
  BY <1>42 DEF RecoverFails, Work
<1>43. ASSUME NEW r \in exposed, Intrude(r) PROVE BridgeShape'
  BY <1>43 DEF Intrude, ForeignWrite
<1>44. CASE HostCrash
  BY <1>44 DEF HostCrash
<1>45. CASE LegacyLock
  BY <1>45 DEF LegacyLock
<1>46. CASE LegacyBind
  BY <1>46 DEF LegacyBind, Legacy
<1>47. CASE LegacyUnlock
  BY <1>47 DEF LegacyUnlock, Legacy
<1>49. ASSUME NEW o \in Operation, RecoverCompare(o), Work(o) PROVE BridgeShape'
  BY <1>49 DEF RecoverCompare, Work
<1>48. CASE UNCHANGED vars
  BY <1>48 DEF vars
<1> QED
  BY <1>1, <1>2, <1>3, <1>4, <1>5, <1>6, <1>7, <1>8, <1>9, <1>10, <1>11,
     <1>12, <1>13, <1>14, <1>15, <1>16, <1>17, <1>18, <1>19, <1>20, <1>21,
     <1>22, <1>23, <1>24, <1>25, <1>26, <1>27, <1>28, <1>29, <1>30, <1>31,
     <1>32, <1>33, <1>34, <1>35, <1>36, <1>37, <1>38, <1>39, <1>40, <1>41,
     <1>42, <1>43, <1>44, <1>45, <1>46, <1>47, <1>48, <1>49 DEF Next, Drive, Work,
     WorkerNext

(* A driver past claim is reserved, unless it once gave its reservation up. *)
LEMMA ReservationStep == IInv /\ [Next]_vars => ReservationShape'
<1> SUFFICES ASSUME TypeOK, DriverShape, ReservationShape, [Next]_vars PROVE ReservationShape'
  BY DEF IInv
<1> USE DEF TypeOK, WorkerTypeOK, DriverTypeOK, ReservationShape, Retryable, Active, Has, InTry,
            Preflight, Dispatched, Finishing, ACTIVE, Terminal
<1>1. ASSUME NEW o \in Operation, Claim(o) PROVE ReservationShape'
  BY <1>1 DEF Claim, Active, DriverShape, State
<1>2. ASSUME NEW o \in Operation, TerminalObserve(o) PROVE ReservationShape'
  BY <1>2 DEF TerminalObserve, Leave
<1>3. ASSUME NEW o \in Operation, TerminalExit(o) PROVE ReservationShape'
  BY <1>3 DEF TerminalExit, Leave
<1>4. ASSUME NEW o \in Operation, LegacyEnter(o) PROVE ReservationShape'
  BY <1>4 DEF LegacyEnter, Raise
<1>5. ASSUME NEW o \in Operation, LookUpPrior(o) PROVE ReservationShape'
  BY <1>5 DEF LookUpPrior, Prior, Observes
<1>6. ASSUME NEW o \in Operation, CompleteReuse(o) PROVE ReservationShape'
  BY <1>6 DEF CompleteReuse, CompleteAs
<1>7. ASSUME NEW o \in Operation, ObserveFirst(o) PROVE ReservationShape'
  BY <1>7 DEF ObserveFirst, Leave, Observes
<1>8. ASSUME NEW o \in Operation, ApplyIntent(o) PROVE ReservationShape'
  BY <1>8 DEF ApplyIntent
<1>9. ASSUME NEW o \in Operation, DispatchApply(o) PROVE ReservationShape'
  BY <1>9 DEF DispatchApply
<1>10. ASSUME NEW o \in Operation, ApplyResponse(o) PROVE ReservationShape'
  BY <1>10 DEF ApplyResponse
<1>11. ASSUME NEW o \in Operation, ApplyResponseMissing(o) PROVE ReservationShape'
  BY <1>11 DEF ApplyResponseMissing
<1>12. ASSUME NEW o \in Operation, Reobserve(o) PROVE ReservationShape'
  BY <1>12 DEF Reobserve, Leave, Observes
<1>13. ASSUME NEW o \in Operation, Judge(o) PROVE ReservationShape'
  BY <1>13 DEF Judge
<1>14. ASSUME NEW o \in Operation, CheckAccepted(o) PROVE ReservationShape'
  BY <1>14 DEF CheckAccepted
<1>15. ASSUME NEW o \in Operation, CheckNotAccepted(o) PROVE ReservationShape'
  BY <1>15 DEF CheckNotAccepted
<1>16. ASSUME NEW o \in Operation, ObserveOwn(o) PROVE ReservationShape'
  BY <1>16 DEF ObserveOwn, Observes
<1>17. ASSUME NEW o \in Operation, RecoverIntent(o) PROVE ReservationShape'
  BY <1>17 DEF RecoverIntent
<1>18. ASSUME NEW o \in Operation, DispatchRecover(o) PROVE ReservationShape'
  BY <1>18 DEF DispatchRecover
<1>19. ASSUME NEW o \in Operation, RecoverResponse(o) PROVE ReservationShape'
  BY <1>19 DEF RecoverResponse
<1>20. ASSUME NEW o \in Operation, RecoverResponseMissing(o) PROVE ReservationShape'
  BY <1>20 DEF RecoverResponseMissing
<1>21. ASSUME NEW o \in Operation, Settle(o) PROVE ReservationShape'
  BY <1>21 DEF Settle, Observes
<1>22. ASSUME NEW o \in Operation, Cleanup(o) PROVE ReservationShape'
  BY <1>22 DEF Cleanup, Observes
<1>23. ASSUME NEW o \in Operation, Complete(o) PROVE ReservationShape'
  BY <1>23 DEF Complete, CompleteAs, DriverShape
<1>24. ASSUME NEW o \in Operation, LegacyExit(o) PROVE ReservationShape'
  BY <1>24 DEF LegacyExit, Leave, Raise
<1>25. ASSUME NEW o \in Operation, Fails(o) PROVE ReservationShape'
  BY <1>25 DEF Fails, Raise
<1>26. ASSUME NEW o \in Operation, Abort(o) PROVE ReservationShape'
  BY <1>26 DEF Abort, Leave
<1>27. ASSUME NEW o \in Operation, AbortExit(o) PROVE ReservationShape'
  BY <1>27 DEF AbortExit, Leave
<1>28. ASSUME NEW o \in Operation, RegisterEffect(o) PROVE ReservationShape'
  BY <1>28 DEF RegisterEffect
<1>29. ASSUME NEW o \in Operation, AcceptByHuman(o) PROVE ReservationShape'
  BY <1>29 DEF AcceptByHuman
<1>30. ASSUME NEW o \in Operation, DriverCrash(o) PROVE ReservationShape'
  BY <1>30 DEF DriverCrash, Leave
<1>31. ASSUME NEW o \in Operation, OrphanExit(o) PROVE ReservationShape'
  BY <1>31 DEF OrphanExit
<1>32. ASSUME NEW o \in Operation, ApplyBegin(o), Work(o) PROVE ReservationShape'
  BY <1>32 DEF ApplyBegin, Work
<1>33. ASSUME NEW o \in Operation, ApplyFails(o), Work(o) PROVE ReservationShape'
  BY <1>33 DEF ApplyFails, Work
<1>34. ASSUME NEW o \in Operation, ApplyStopped(o), Work(o) PROVE ReservationShape'
  BY <1>34 DEF ApplyStopped, Work
<1>35. ASSUME NEW o \in Operation, ApplyReplace(o), Work(o) PROVE ReservationShape'
  BY <1>35 DEF ApplyReplace, Work
<1>36. ASSUME NEW o \in Operation, ApplyStarted(o), Work(o) PROVE ReservationShape'
  BY <1>36 DEF ApplyStarted, Work
<1>37. ASSUME NEW o \in Operation, Check(o), Work(o) PROVE ReservationShape'
  BY <1>37 DEF Check, Work
<1>38. ASSUME NEW o \in Operation, RecoverBegin(o), Work(o) PROVE ReservationShape'
  BY <1>38 DEF RecoverBegin, Work
<1>39. ASSUME NEW o \in Operation, RecoverStopped(o), Work(o) PROVE ReservationShape'
  BY <1>39 DEF RecoverStopped, Work
<1>40. ASSUME NEW o \in Operation, RecoverReverse(o), Work(o) PROVE ReservationShape'
  BY <1>40 DEF RecoverReverse, Work
<1>41. ASSUME NEW o \in Operation, RecoverStarted(o), Work(o) PROVE ReservationShape'
  BY <1>41 DEF RecoverStarted, Work
<1>42. ASSUME NEW o \in Operation, RecoverFails(o), Work(o) PROVE ReservationShape'
  BY <1>42 DEF RecoverFails, Work
<1>43. ASSUME NEW r \in exposed, Intrude(r) PROVE ReservationShape'
  BY <1>43 DEF Intrude, ForeignWrite
<1>44. CASE HostCrash
  BY <1>44 DEF HostCrash
<1>45. CASE LegacyLock
  BY <1>45 DEF LegacyLock
<1>46. CASE LegacyBind
  BY <1>46 DEF LegacyBind
<1>47. CASE LegacyUnlock
  BY <1>47 DEF LegacyUnlock
<1>49. ASSUME NEW o \in Operation, RecoverCompare(o), Work(o) PROVE ReservationShape'
  BY <1>49 DEF RecoverCompare, Work
<1>48. CASE UNCHANGED vars
  BY <1>48 DEF vars
<1> QED
  BY <1>1, <1>2, <1>3, <1>4, <1>5, <1>6, <1>7, <1>8, <1>9, <1>10, <1>11,
     <1>12, <1>13, <1>14, <1>15, <1>16, <1>17, <1>18, <1>19, <1>20, <1>21,
     <1>22, <1>23, <1>24, <1>25, <1>26, <1>27, <1>28, <1>29, <1>30, <1>31,
     <1>32, <1>33, <1>34, <1>35, <1>36, <1>37, <1>38, <1>39, <1>40, <1>41,
     <1>42, <1>43, <1>44, <1>45, <1>46, <1>47, <1>48, <1>49 DEF Next, Drive, Work,
     WorkerNext

(* Whoever newly holds a reservation was absent, and found no reserved        *)
(* operation in conflict with it.                                          *)
Unshared ==
  \A p \in Operation :
    Active(p)' /\ ~Retryable(p)' =>
      \/ Active(p) /\ ~Retryable(p)
      \/ \A q \in Operation \ {p} : (Active(q)' => Active(q)) /\ (Active(q) => ~Conflict(p, q))

\* No step reserves what another operation holds.
LEMMA NewReservation == IInv /\ [Next]_vars => Unshared
<1> SUFFICES ASSUME TypeOK, ReservationShape, [Next]_vars PROVE Unshared
  BY DEF IInv
<1> USE DEF TypeOK, WorkerTypeOK, DriverTypeOK, Unshared, ReservationShape, Retryable, Active, Has,
            InTry, Preflight, Dispatched, Finishing, ACTIVE, Terminal
<1>1. ASSUME NEW o \in Operation, Claim(o) PROVE Unshared
  BY <1>1 DEF Claim, Active
<1>2. ASSUME NEW o \in Operation, TerminalObserve(o) PROVE Unshared
  BY <1>2 DEF TerminalObserve, Leave
<1>3. ASSUME NEW o \in Operation, TerminalExit(o) PROVE Unshared
  BY <1>3 DEF TerminalExit, Leave
<1>4. ASSUME NEW o \in Operation, LegacyEnter(o) PROVE Unshared
  BY <1>4 DEF LegacyEnter, Raise
<1>5. ASSUME NEW o \in Operation, LookUpPrior(o) PROVE Unshared
  BY <1>5 DEF LookUpPrior, Prior, Observes
<1>6. ASSUME NEW o \in Operation, CompleteReuse(o) PROVE Unshared
  BY <1>6 DEF CompleteReuse, CompleteAs
<1>7. ASSUME NEW o \in Operation, ObserveFirst(o) PROVE Unshared
  BY <1>7 DEF ObserveFirst, Leave, Observes
<1>8. ASSUME NEW o \in Operation, ApplyIntent(o) PROVE Unshared
  BY <1>8 DEF ApplyIntent
<1>9. ASSUME NEW o \in Operation, DispatchApply(o) PROVE Unshared
  BY <1>9 DEF DispatchApply
<1>10. ASSUME NEW o \in Operation, ApplyResponse(o) PROVE Unshared
  BY <1>10 DEF ApplyResponse
<1>11. ASSUME NEW o \in Operation, ApplyResponseMissing(o) PROVE Unshared
  BY <1>11 DEF ApplyResponseMissing
<1>12. ASSUME NEW o \in Operation, Reobserve(o) PROVE Unshared
  BY <1>12 DEF Reobserve, Leave, Observes
<1>13. ASSUME NEW o \in Operation, Judge(o) PROVE Unshared
  BY <1>13 DEF Judge
<1>14. ASSUME NEW o \in Operation, CheckAccepted(o) PROVE Unshared
  BY <1>14 DEF CheckAccepted
<1>15. ASSUME NEW o \in Operation, CheckNotAccepted(o) PROVE Unshared
  BY <1>15 DEF CheckNotAccepted
<1>16. ASSUME NEW o \in Operation, ObserveOwn(o) PROVE Unshared
  BY <1>16 DEF ObserveOwn, Observes
<1>17. ASSUME NEW o \in Operation, RecoverIntent(o) PROVE Unshared
  BY <1>17 DEF RecoverIntent
<1>18. ASSUME NEW o \in Operation, DispatchRecover(o) PROVE Unshared
  BY <1>18 DEF DispatchRecover
<1>19. ASSUME NEW o \in Operation, RecoverResponse(o) PROVE Unshared
  BY <1>19 DEF RecoverResponse
<1>20. ASSUME NEW o \in Operation, RecoverResponseMissing(o) PROVE Unshared
  BY <1>20 DEF RecoverResponseMissing
<1>21. ASSUME NEW o \in Operation, Settle(o) PROVE Unshared
  BY <1>21 DEF Settle, Observes
<1>22. ASSUME NEW o \in Operation, Cleanup(o) PROVE Unshared
  BY <1>22 DEF Cleanup, Observes
<1>23. ASSUME NEW o \in Operation, Complete(o) PROVE Unshared
  BY <1>23 DEF Complete, CompleteAs
<1>24. ASSUME NEW o \in Operation, LegacyExit(o) PROVE Unshared
  BY <1>24 DEF LegacyExit, Leave, Raise
<1>25. ASSUME NEW o \in Operation, Fails(o) PROVE Unshared
  BY <1>25 DEF Fails, Raise
<1>26. ASSUME NEW o \in Operation, Abort(o) PROVE Unshared
  BY <1>26 DEF Abort, Leave
<1>27. ASSUME NEW o \in Operation, AbortExit(o) PROVE Unshared
  BY <1>27 DEF AbortExit, Leave
<1>28. ASSUME NEW o \in Operation, RegisterEffect(o) PROVE Unshared
  BY <1>28 DEF RegisterEffect
<1>29. ASSUME NEW o \in Operation, AcceptByHuman(o) PROVE Unshared
  BY <1>29 DEF AcceptByHuman
<1>30. ASSUME NEW o \in Operation, DriverCrash(o) PROVE Unshared
  BY <1>30 DEF DriverCrash, Leave
<1>31. ASSUME NEW o \in Operation, OrphanExit(o) PROVE Unshared
  BY <1>31 DEF OrphanExit
<1>32. ASSUME NEW o \in Operation, ApplyBegin(o), Work(o) PROVE Unshared
  BY <1>32 DEF ApplyBegin, Work
<1>33. ASSUME NEW o \in Operation, ApplyFails(o), Work(o) PROVE Unshared
  BY <1>33 DEF ApplyFails, Work
<1>34. ASSUME NEW o \in Operation, ApplyStopped(o), Work(o) PROVE Unshared
  BY <1>34 DEF ApplyStopped, Work
<1>35. ASSUME NEW o \in Operation, ApplyReplace(o), Work(o) PROVE Unshared
  BY <1>35 DEF ApplyReplace, Work
<1>36. ASSUME NEW o \in Operation, ApplyStarted(o), Work(o) PROVE Unshared
  BY <1>36 DEF ApplyStarted, Work
<1>37. ASSUME NEW o \in Operation, Check(o), Work(o) PROVE Unshared
  BY <1>37 DEF Check, Work
<1>38. ASSUME NEW o \in Operation, RecoverBegin(o), Work(o) PROVE Unshared
  BY <1>38 DEF RecoverBegin, Work
<1>39. ASSUME NEW o \in Operation, RecoverStopped(o), Work(o) PROVE Unshared
  BY <1>39 DEF RecoverStopped, Work
<1>40. ASSUME NEW o \in Operation, RecoverReverse(o), Work(o) PROVE Unshared
  BY <1>40 DEF RecoverReverse, Work
<1>41. ASSUME NEW o \in Operation, RecoverStarted(o), Work(o) PROVE Unshared
  BY <1>41 DEF RecoverStarted, Work
<1>42. ASSUME NEW o \in Operation, RecoverFails(o), Work(o) PROVE Unshared
  BY <1>42 DEF RecoverFails, Work
<1>43. ASSUME NEW r \in exposed, Intrude(r) PROVE Unshared
  BY <1>43 DEF Intrude, ForeignWrite
<1>44. CASE HostCrash
  BY <1>44 DEF HostCrash
<1>45. CASE LegacyLock
  BY <1>45 DEF LegacyLock
<1>46. CASE LegacyBind
  BY <1>46 DEF LegacyBind
<1>47. CASE LegacyUnlock
  BY <1>47 DEF LegacyUnlock
<1>49. ASSUME NEW o \in Operation, RecoverCompare(o), Work(o) PROVE Unshared
  BY <1>49 DEF RecoverCompare, Work
<1>48. CASE UNCHANGED vars
  BY <1>48 DEF vars
<1> QED
  BY <1>1, <1>2, <1>3, <1>4, <1>5, <1>6, <1>7, <1>8, <1>9, <1>10, <1>11,
     <1>12, <1>13, <1>14, <1>15, <1>16, <1>17, <1>18, <1>19, <1>20, <1>21,
     <1>22, <1>23, <1>24, <1>25, <1>26, <1>27, <1>28, <1>29, <1>30, <1>31,
     <1>32, <1>33, <1>34, <1>35, <1>36, <1>37, <1>38, <1>39, <1>40, <1>41,
     <1>42, <1>43, <1>44, <1>45, <1>46, <1>47, <1>48, <1>49 DEF Next, Drive, Work,
     WorkerNext

(* So no two reservations are in conflict, up to a given-up one. *)
LEMMA ExclusiveStep == IInv /\ [Next]_vars => ExclusiveReservation'
<1> SUFFICES ASSUME IInv, [Next]_vars,
                    NEW o \in Operation, NEW p \in Operation,
                    o # p, Conflict(o, p), Active(o)', Active(p)',
                    ~Retryable(o)', ~Retryable(p)'
             PROVE  FALSE
  BY DEF ExclusiveReservation, Conflict
<1>1. Unshared
  BY NewReservation
<1>2. Conflict(p, o)
  <2>1. PICK r \in resources[o], s \in resources[p] : <<r, s>> \in conflicts
    BY DEF Conflict
  <2>2. r \in Resource /\ s \in Resource
    OBVIOUS
  <2> QED BY <2>1, <2>2 DEF Conflict
<1>3. CASE Active(o) /\ ~Retryable(o) /\ Active(p) /\ ~Retryable(p)
  BY <1>3 DEF IInv, ExclusiveReservation
<1>4. CASE \A q \in Operation \ {o} : (Active(q)' => Active(q)) /\ (Active(q) => ~Conflict(o, q))
  BY <1>4
<1>5. CASE \A q \in Operation \ {p} : (Active(q)' => Active(q)) /\ (Active(q) => ~Conflict(p, q))
  BY <1>2, <1>5
<1> QED BY <1>1, <1>3, <1>4, <1>5 DEF Unshared

(* Intent before request before journal entry, each at most once. *)
LEMMA OnceStep == IInv /\ [Next]_vars => OnceShape'
<1> SUFFICES ASSUME TypeOK, DriverShape, OnceShape, NeverReplayed, [Next]_vars PROVE OnceShape'
  BY DEF IInv
<1> USE DEF TypeOK, WorkerTypeOK, DriverTypeOK, OnceShape, NeverReplayed, Dispatches, Has,
            BeforeRecover, WorkerAbsent
<1>1. ASSUME NEW o \in Operation, Claim(o) PROVE OnceShape'
  BY <1>1 DEF Claim, Active
<1>2. ASSUME NEW o \in Operation, TerminalObserve(o) PROVE OnceShape'
  BY <1>2 DEF TerminalObserve, Leave
<1>3. ASSUME NEW o \in Operation, TerminalExit(o) PROVE OnceShape'
  BY <1>3 DEF TerminalExit, Leave
<1>4. ASSUME NEW o \in Operation, LegacyEnter(o) PROVE OnceShape'
  BY <1>4 DEF LegacyEnter, Raise
<1>5. ASSUME NEW o \in Operation, LookUpPrior(o) PROVE OnceShape'
  BY <1>5 DEF LookUpPrior, Prior, Observes
<1>6. ASSUME NEW o \in Operation, CompleteReuse(o) PROVE OnceShape'
  BY <1>6 DEF CompleteReuse, CompleteAs
<1>7. ASSUME NEW o \in Operation, ObserveFirst(o) PROVE OnceShape'
  BY <1>7 DEF ObserveFirst, Leave, Observes
<1>8. ASSUME NEW o \in Operation, ApplyIntent(o) PROVE OnceShape'
  BY <1>8 DEF ApplyIntent
<1>9. ASSUME NEW o \in Operation, DispatchApply(o) PROVE OnceShape'
  BY <1>9 DEF DispatchApply, DriverShape, Dispatched
<1>10. ASSUME NEW o \in Operation, ApplyResponse(o) PROVE OnceShape'
  BY <1>10 DEF ApplyResponse
<1>11. ASSUME NEW o \in Operation, ApplyResponseMissing(o) PROVE OnceShape'
  BY <1>11 DEF ApplyResponseMissing
<1>12. ASSUME NEW o \in Operation, Reobserve(o) PROVE OnceShape'
  BY <1>12 DEF Reobserve, Leave, Observes
<1>13. ASSUME NEW o \in Operation, Judge(o) PROVE OnceShape'
  BY <1>13 DEF Judge, DriverShape, Dispatched
<1>14. ASSUME NEW o \in Operation, CheckAccepted(o) PROVE OnceShape'
  BY <1>14 DEF CheckAccepted
<1>15. ASSUME NEW o \in Operation, CheckNotAccepted(o) PROVE OnceShape'
  BY <1>15 DEF CheckNotAccepted
<1>16. ASSUME NEW o \in Operation, ObserveOwn(o) PROVE OnceShape'
  BY <1>16 DEF ObserveOwn, Observes
<1>17. ASSUME NEW o \in Operation, RecoverIntent(o) PROVE OnceShape'
  BY <1>17 DEF RecoverIntent
<1>18. ASSUME NEW o \in Operation, DispatchRecover(o) PROVE OnceShape'
  BY <1>18 DEF DispatchRecover, DriverShape, Dispatched
<1>19. ASSUME NEW o \in Operation, RecoverResponse(o) PROVE OnceShape'
  BY <1>19 DEF RecoverResponse
<1>20. ASSUME NEW o \in Operation, RecoverResponseMissing(o) PROVE OnceShape'
  BY <1>20 DEF RecoverResponseMissing
<1>21. ASSUME NEW o \in Operation, Settle(o) PROVE OnceShape'
  BY <1>21 DEF Settle, Observes
<1>22. ASSUME NEW o \in Operation, Cleanup(o) PROVE OnceShape'
  BY <1>22 DEF Cleanup, Observes
<1>23. ASSUME NEW o \in Operation, Complete(o) PROVE OnceShape'
  BY <1>23 DEF Complete, CompleteAs
<1>24. ASSUME NEW o \in Operation, LegacyExit(o) PROVE OnceShape'
  BY <1>24 DEF LegacyExit, Leave, Raise
<1>25. ASSUME NEW o \in Operation, Fails(o) PROVE OnceShape'
  BY <1>25 DEF Fails, Raise
<1>26. ASSUME NEW o \in Operation, Abort(o) PROVE OnceShape'
  BY <1>26 DEF Abort, Leave
<1>27. ASSUME NEW o \in Operation, AbortExit(o) PROVE OnceShape'
  BY <1>27 DEF AbortExit, Leave
<1>28. ASSUME NEW o \in Operation, RegisterEffect(o) PROVE OnceShape'
  BY <1>28 DEF RegisterEffect
<1>29. ASSUME NEW o \in Operation, AcceptByHuman(o) PROVE OnceShape'
  BY <1>29 DEF AcceptByHuman
<1>30. ASSUME NEW o \in Operation, DriverCrash(o) PROVE OnceShape'
  BY <1>30 DEF DriverCrash, Leave
<1>31. ASSUME NEW o \in Operation, OrphanExit(o) PROVE OnceShape'
  BY <1>31 DEF OrphanExit
<1>32. ASSUME NEW o \in Operation, ApplyBegin(o), Work(o) PROVE OnceShape'
  BY <1>32 DEF ApplyBegin, Work
<1>33. ASSUME NEW o \in Operation, ApplyFails(o), Work(o) PROVE OnceShape'
  BY <1>33 DEF ApplyFails, Work
<1>34. ASSUME NEW o \in Operation, ApplyStopped(o), Work(o) PROVE OnceShape'
  BY <1>34 DEF ApplyStopped, Work
<1>35. ASSUME NEW o \in Operation, ApplyReplace(o), Work(o) PROVE OnceShape'
  BY <1>35 DEF ApplyReplace, Work
<1>36. ASSUME NEW o \in Operation, ApplyStarted(o), Work(o) PROVE OnceShape'
  BY <1>36 DEF ApplyStarted, Work
<1>37. ASSUME NEW o \in Operation, Check(o), Work(o) PROVE OnceShape'
  BY <1>37 DEF Check, Work
<1>38. ASSUME NEW o \in Operation, RecoverBegin(o), Work(o) PROVE OnceShape'
  BY <1>38 DEF RecoverBegin, Work
<1>39. ASSUME NEW o \in Operation, RecoverStopped(o), Work(o) PROVE OnceShape'
  BY <1>39 DEF RecoverStopped, Work
<1>40. ASSUME NEW o \in Operation, RecoverReverse(o), Work(o) PROVE OnceShape'
  BY <1>40 DEF RecoverReverse, Work
<1>41. ASSUME NEW o \in Operation, RecoverStarted(o), Work(o) PROVE OnceShape'
  BY <1>41 DEF RecoverStarted, Work
<1>42. ASSUME NEW o \in Operation, RecoverFails(o), Work(o) PROVE OnceShape'
  BY <1>42 DEF RecoverFails, Work
<1>43. ASSUME NEW r \in exposed, Intrude(r) PROVE OnceShape'
  BY <1>43 DEF Intrude, ForeignWrite
<1>44. CASE HostCrash
  BY <1>44 DEF HostCrash
<1>45. CASE LegacyLock
  BY <1>45 DEF LegacyLock
<1>46. CASE LegacyBind
  BY <1>46 DEF LegacyBind
<1>47. CASE LegacyUnlock
  BY <1>47 DEF LegacyUnlock
<1>49. ASSUME NEW o \in Operation, RecoverCompare(o), Work(o) PROVE OnceShape'
  BY <1>49 DEF RecoverCompare, Work
<1>48. CASE UNCHANGED vars
  BY <1>48 DEF vars
<1> QED
  BY <1>1, <1>2, <1>3, <1>4, <1>5, <1>6, <1>7, <1>8, <1>9, <1>10, <1>11,
     <1>12, <1>13, <1>14, <1>15, <1>16, <1>17, <1>18, <1>19, <1>20, <1>21,
     <1>22, <1>23, <1>24, <1>25, <1>26, <1>27, <1>28, <1>29, <1>30, <1>31,
     <1>32, <1>33, <1>34, <1>35, <1>36, <1>37, <1>38, <1>39, <1>40, <1>41,
     <1>42, <1>43, <1>44, <1>45, <1>46, <1>47, <1>48, <1>49 DEF Next, Drive, Work,
     WorkerNext

(* A request finds its journal entry unwritten. *)
LEMMA ReplayStep == IInv /\ [Next]_vars => NeverReplayed'
<1> SUFFICES ASSUME TypeOK, OnceShape, NeverReplayed, [Next]_vars PROVE NeverReplayed'
  BY DEF IInv
<1> USE DEF TypeOK, WorkerTypeOK, DriverTypeOK, NeverReplayed
<1>1. ASSUME NEW o \in Operation, Claim(o) PROVE NeverReplayed'
  BY <1>1 DEF Claim, Active
<1>2. ASSUME NEW o \in Operation, TerminalObserve(o) PROVE NeverReplayed'
  BY <1>2 DEF TerminalObserve, Leave
<1>3. ASSUME NEW o \in Operation, TerminalExit(o) PROVE NeverReplayed'
  BY <1>3 DEF TerminalExit, Leave
<1>4. ASSUME NEW o \in Operation, LegacyEnter(o) PROVE NeverReplayed'
  BY <1>4 DEF LegacyEnter, Raise
<1>5. ASSUME NEW o \in Operation, LookUpPrior(o) PROVE NeverReplayed'
  BY <1>5 DEF LookUpPrior, Prior, Observes
<1>6. ASSUME NEW o \in Operation, CompleteReuse(o) PROVE NeverReplayed'
  BY <1>6 DEF CompleteReuse, CompleteAs
<1>7. ASSUME NEW o \in Operation, ObserveFirst(o) PROVE NeverReplayed'
  BY <1>7 DEF ObserveFirst, Leave, Observes
<1>8. ASSUME NEW o \in Operation, ApplyIntent(o) PROVE NeverReplayed'
  BY <1>8 DEF ApplyIntent
<1>9. ASSUME NEW o \in Operation, DispatchApply(o) PROVE NeverReplayed'
  BY <1>9 DEF DispatchApply, OnceShape
<1>10. ASSUME NEW o \in Operation, ApplyResponse(o) PROVE NeverReplayed'
  BY <1>10 DEF ApplyResponse
<1>11. ASSUME NEW o \in Operation, ApplyResponseMissing(o) PROVE NeverReplayed'
  BY <1>11 DEF ApplyResponseMissing
<1>12. ASSUME NEW o \in Operation, Reobserve(o) PROVE NeverReplayed'
  BY <1>12 DEF Reobserve, Leave, Observes
<1>13. ASSUME NEW o \in Operation, Judge(o) PROVE NeverReplayed'
  BY <1>13 DEF Judge
<1>14. ASSUME NEW o \in Operation, CheckAccepted(o) PROVE NeverReplayed'
  BY <1>14 DEF CheckAccepted
<1>15. ASSUME NEW o \in Operation, CheckNotAccepted(o) PROVE NeverReplayed'
  BY <1>15 DEF CheckNotAccepted
<1>16. ASSUME NEW o \in Operation, ObserveOwn(o) PROVE NeverReplayed'
  BY <1>16 DEF ObserveOwn, Observes
<1>17. ASSUME NEW o \in Operation, RecoverIntent(o) PROVE NeverReplayed'
  BY <1>17 DEF RecoverIntent
<1>18. ASSUME NEW o \in Operation, DispatchRecover(o) PROVE NeverReplayed'
  BY <1>18 DEF DispatchRecover, OnceShape
<1>19. ASSUME NEW o \in Operation, RecoverResponse(o) PROVE NeverReplayed'
  BY <1>19 DEF RecoverResponse
<1>20. ASSUME NEW o \in Operation, RecoverResponseMissing(o) PROVE NeverReplayed'
  BY <1>20 DEF RecoverResponseMissing
<1>21. ASSUME NEW o \in Operation, Settle(o) PROVE NeverReplayed'
  BY <1>21 DEF Settle, Observes
<1>22. ASSUME NEW o \in Operation, Cleanup(o) PROVE NeverReplayed'
  BY <1>22 DEF Cleanup, Observes
<1>23. ASSUME NEW o \in Operation, Complete(o) PROVE NeverReplayed'
  BY <1>23 DEF Complete, CompleteAs
<1>24. ASSUME NEW o \in Operation, LegacyExit(o) PROVE NeverReplayed'
  BY <1>24 DEF LegacyExit, Leave, Raise
<1>25. ASSUME NEW o \in Operation, Fails(o) PROVE NeverReplayed'
  BY <1>25 DEF Fails, Raise
<1>26. ASSUME NEW o \in Operation, Abort(o) PROVE NeverReplayed'
  BY <1>26 DEF Abort, Leave
<1>27. ASSUME NEW o \in Operation, AbortExit(o) PROVE NeverReplayed'
  BY <1>27 DEF AbortExit, Leave
<1>28. ASSUME NEW o \in Operation, RegisterEffect(o) PROVE NeverReplayed'
  BY <1>28 DEF RegisterEffect
<1>29. ASSUME NEW o \in Operation, AcceptByHuman(o) PROVE NeverReplayed'
  BY <1>29 DEF AcceptByHuman
<1>30. ASSUME NEW o \in Operation, DriverCrash(o) PROVE NeverReplayed'
  BY <1>30 DEF DriverCrash, Leave
<1>31. ASSUME NEW o \in Operation, OrphanExit(o) PROVE NeverReplayed'
  BY <1>31 DEF OrphanExit
<1>32. ASSUME NEW o \in Operation, ApplyBegin(o), Work(o) PROVE NeverReplayed'
  BY <1>32 DEF ApplyBegin, Work
<1>33. ASSUME NEW o \in Operation, ApplyFails(o), Work(o) PROVE NeverReplayed'
  BY <1>33 DEF ApplyFails, Work
<1>34. ASSUME NEW o \in Operation, ApplyStopped(o), Work(o) PROVE NeverReplayed'
  BY <1>34 DEF ApplyStopped, Work
<1>35. ASSUME NEW o \in Operation, ApplyReplace(o), Work(o) PROVE NeverReplayed'
  BY <1>35 DEF ApplyReplace, Work
<1>36. ASSUME NEW o \in Operation, ApplyStarted(o), Work(o) PROVE NeverReplayed'
  BY <1>36 DEF ApplyStarted, Work
<1>37. ASSUME NEW o \in Operation, Check(o), Work(o) PROVE NeverReplayed'
  BY <1>37 DEF Check, Work
<1>38. ASSUME NEW o \in Operation, RecoverBegin(o), Work(o) PROVE NeverReplayed'
  <2>1. CASE /\ wpc' = [wpc EXCEPT ![o] = "return"] /\ UNCHANGED applyOnce
             /\ recoverOnce' = [recoverOnce EXCEPT ![o] = TRUE]
    BY <2>1
  <2>2. CASE wpc' = [wpc EXCEPT ![o] = "raised"] /\ UNCHANGED journal
    BY <2>2
  <2> QED BY <1>38, <2>1, <2>2 DEF RecoverBegin
<1>39. ASSUME NEW o \in Operation, RecoverStopped(o), Work(o) PROVE NeverReplayed'
  BY <1>39 DEF RecoverStopped, Work
<1>40. ASSUME NEW o \in Operation, RecoverReverse(o), Work(o) PROVE NeverReplayed'
  BY <1>40 DEF RecoverReverse, Work
<1>41. ASSUME NEW o \in Operation, RecoverStarted(o), Work(o) PROVE NeverReplayed'
  BY <1>41 DEF RecoverStarted, Work
<1>42. ASSUME NEW o \in Operation, RecoverFails(o), Work(o) PROVE NeverReplayed'
  BY <1>42 DEF RecoverFails, Work
<1>43. ASSUME NEW r \in exposed, Intrude(r) PROVE NeverReplayed'
  BY <1>43 DEF Intrude, ForeignWrite
<1>44. CASE HostCrash
  BY <1>44 DEF HostCrash
<1>45. CASE LegacyLock
  BY <1>45 DEF LegacyLock
<1>46. CASE LegacyBind
  BY <1>46 DEF LegacyBind
<1>47. CASE LegacyUnlock
  BY <1>47 DEF LegacyUnlock
<1>49. ASSUME NEW o \in Operation, RecoverCompare(o), Work(o) PROVE NeverReplayed'
  BY <1>49 DEF RecoverCompare, Work
<1>48. CASE UNCHANGED vars
  BY <1>48 DEF vars
<1> QED
  BY <1>1, <1>2, <1>3, <1>4, <1>5, <1>6, <1>7, <1>8, <1>9, <1>10, <1>11,
     <1>12, <1>13, <1>14, <1>15, <1>16, <1>17, <1>18, <1>19, <1>20, <1>21,
     <1>22, <1>23, <1>24, <1>25, <1>26, <1>27, <1>28, <1>29, <1>30, <1>31,
     <1>32, <1>33, <1>34, <1>35, <1>36, <1>37, <1>38, <1>39, <1>40, <1>41,
     <1>42, <1>43, <1>44, <1>45, <1>46, <1>47, <1>48, <1>49 DEF Next, Drive, Work,
     WorkerNext

(* A dispatched operation's terminal row is not rewritten by any step. *)
TerminalKept ==
  \A o \in Operation : Dispatches(o) /\ state[o] \in Terminal => state'[o] = state[o]

\* No step leaves a terminal result.
LEMMA TerminalStep == IInv /\ [Next]_vars => TerminalKept
<1> SUFFICES ASSUME TypeOK, DriverShape, [Next]_vars PROVE TerminalKept
  BY DEF IInv
<1> USE DEF TypeOK, WorkerTypeOK, DriverTypeOK, TerminalKept, DriverShape, Resolved, Dispatches,
            Has, InTry, Preflight, Dispatched, Finishing, ACTIVE, Terminal
<1>1. ASSUME NEW o \in Operation, Claim(o) PROVE TerminalKept
  BY <1>1 DEF Claim, Active
<1>2. ASSUME NEW o \in Operation, TerminalObserve(o) PROVE TerminalKept
  BY <1>2 DEF TerminalObserve, Leave
<1>3. ASSUME NEW o \in Operation, TerminalExit(o) PROVE TerminalKept
  BY <1>3 DEF TerminalExit, Leave
<1>4. ASSUME NEW o \in Operation, LegacyEnter(o) PROVE TerminalKept
  BY <1>4 DEF LegacyEnter, Raise
<1>5. ASSUME NEW o \in Operation, LookUpPrior(o) PROVE TerminalKept
  BY <1>5 DEF LookUpPrior, Prior, Observes
<1>6. ASSUME NEW o \in Operation, CompleteReuse(o) PROVE TerminalKept
  BY <1>6 DEF CompleteReuse, CompleteAs
<1>7. ASSUME NEW o \in Operation, ObserveFirst(o) PROVE TerminalKept
  BY <1>7 DEF ObserveFirst, Leave, Observes
<1>8. ASSUME NEW o \in Operation, ApplyIntent(o) PROVE TerminalKept
  BY <1>8 DEF ApplyIntent
<1>9. ASSUME NEW o \in Operation, DispatchApply(o) PROVE TerminalKept
  BY <1>9 DEF DispatchApply
<1>10. ASSUME NEW o \in Operation, ApplyResponse(o) PROVE TerminalKept
  BY <1>10 DEF ApplyResponse
<1>11. ASSUME NEW o \in Operation, ApplyResponseMissing(o) PROVE TerminalKept
  BY <1>11 DEF ApplyResponseMissing
<1>12. ASSUME NEW o \in Operation, Reobserve(o) PROVE TerminalKept
  BY <1>12 DEF Reobserve, Leave, Observes
<1>13. ASSUME NEW o \in Operation, Judge(o) PROVE TerminalKept
  BY <1>13 DEF Judge
<1>14. ASSUME NEW o \in Operation, CheckAccepted(o) PROVE TerminalKept
  BY <1>14 DEF CheckAccepted
<1>15. ASSUME NEW o \in Operation, CheckNotAccepted(o) PROVE TerminalKept
  BY <1>15 DEF CheckNotAccepted
<1>16. ASSUME NEW o \in Operation, ObserveOwn(o) PROVE TerminalKept
  BY <1>16 DEF ObserveOwn, Observes
<1>17. ASSUME NEW o \in Operation, RecoverIntent(o) PROVE TerminalKept
  BY <1>17 DEF RecoverIntent
<1>18. ASSUME NEW o \in Operation, DispatchRecover(o) PROVE TerminalKept
  BY <1>18 DEF DispatchRecover
<1>19. ASSUME NEW o \in Operation, RecoverResponse(o) PROVE TerminalKept
  BY <1>19 DEF RecoverResponse
<1>20. ASSUME NEW o \in Operation, RecoverResponseMissing(o) PROVE TerminalKept
  BY <1>20 DEF RecoverResponseMissing
<1>21. ASSUME NEW o \in Operation, Settle(o) PROVE TerminalKept
  BY <1>21 DEF Settle, Observes
<1>22. ASSUME NEW o \in Operation, Cleanup(o) PROVE TerminalKept
  BY <1>22 DEF Cleanup, Observes
<1>23. ASSUME NEW o \in Operation, Complete(o) PROVE TerminalKept
  BY <1>23 DEF Complete, CompleteAs
<1>24. ASSUME NEW o \in Operation, LegacyExit(o) PROVE TerminalKept
  BY <1>24 DEF LegacyExit, Leave, Raise
<1>25. ASSUME NEW o \in Operation, Fails(o) PROVE TerminalKept
  BY <1>25 DEF Fails, Raise
<1>26. ASSUME NEW o \in Operation, Abort(o) PROVE TerminalKept
  BY <1>26 DEF Abort, Leave
<1>27. ASSUME NEW o \in Operation, AbortExit(o) PROVE TerminalKept
  BY <1>27 DEF AbortExit, Leave
<1>28. ASSUME NEW o \in Operation, RegisterEffect(o) PROVE TerminalKept
  BY <1>28 DEF RegisterEffect
<1>29. ASSUME NEW o \in Operation, AcceptByHuman(o) PROVE TerminalKept
  BY <1>29 DEF AcceptByHuman
<1>30. ASSUME NEW o \in Operation, DriverCrash(o) PROVE TerminalKept
  BY <1>30 DEF DriverCrash, Leave
<1>31. ASSUME NEW o \in Operation, OrphanExit(o) PROVE TerminalKept
  BY <1>31 DEF OrphanExit
<1>32. ASSUME NEW o \in Operation, ApplyBegin(o), Work(o) PROVE TerminalKept
  BY <1>32 DEF ApplyBegin, Work
<1>33. ASSUME NEW o \in Operation, ApplyFails(o), Work(o) PROVE TerminalKept
  BY <1>33 DEF ApplyFails, Work
<1>34. ASSUME NEW o \in Operation, ApplyStopped(o), Work(o) PROVE TerminalKept
  BY <1>34 DEF ApplyStopped, Work
<1>35. ASSUME NEW o \in Operation, ApplyReplace(o), Work(o) PROVE TerminalKept
  BY <1>35 DEF ApplyReplace, Work
<1>36. ASSUME NEW o \in Operation, ApplyStarted(o), Work(o) PROVE TerminalKept
  BY <1>36 DEF ApplyStarted, Work
<1>37. ASSUME NEW o \in Operation, Check(o), Work(o) PROVE TerminalKept
  BY <1>37 DEF Check, Work
<1>38. ASSUME NEW o \in Operation, RecoverBegin(o), Work(o) PROVE TerminalKept
  BY <1>38 DEF RecoverBegin, Work
<1>39. ASSUME NEW o \in Operation, RecoverStopped(o), Work(o) PROVE TerminalKept
  BY <1>39 DEF RecoverStopped, Work
<1>40. ASSUME NEW o \in Operation, RecoverReverse(o), Work(o) PROVE TerminalKept
  BY <1>40 DEF RecoverReverse, Work
<1>41. ASSUME NEW o \in Operation, RecoverStarted(o), Work(o) PROVE TerminalKept
  BY <1>41 DEF RecoverStarted, Work
<1>42. ASSUME NEW o \in Operation, RecoverFails(o), Work(o) PROVE TerminalKept
  BY <1>42 DEF RecoverFails, Work
<1>43. ASSUME NEW r \in exposed, Intrude(r) PROVE TerminalKept
  BY <1>43 DEF Intrude, ForeignWrite
<1>44. CASE HostCrash
  BY <1>44 DEF HostCrash
<1>45. CASE LegacyLock
  BY <1>45 DEF LegacyLock
<1>46. CASE LegacyBind
  BY <1>46 DEF LegacyBind
<1>47. CASE LegacyUnlock
  BY <1>47 DEF LegacyUnlock
<1>49. ASSUME NEW o \in Operation, RecoverCompare(o), Work(o) PROVE TerminalKept
  BY <1>49 DEF RecoverCompare, Work
<1>48. CASE UNCHANGED vars
  BY <1>48 DEF vars
<1> QED
  BY <1>1, <1>2, <1>3, <1>4, <1>5, <1>6, <1>7, <1>8, <1>9, <1>10, <1>11,
     <1>12, <1>13, <1>14, <1>15, <1>16, <1>17, <1>18, <1>19, <1>20, <1>21,
     <1>22, <1>23, <1>24, <1>25, <1>26, <1>27, <1>28, <1>29, <1>30, <1>31,
     <1>32, <1>33, <1>34, <1>35, <1>36, <1>37, <1>38, <1>39, <1>40, <1>41,
     <1>42, <1>43, <1>44, <1>45, <1>46, <1>47, <1>48, <1>49 DEF Next, Drive, Work,
     WorkerNext

-----------------------------------------------------------------------------
(* Theorems *)

\* The first state of the coordinator.
LEMMA InitIInv == Init => IInv
<1> SUFFICES ASSUME Init PROVE IInv
  OBVIOUS
<1> USE DEF Init, WorkerInit
<1>1. TypeOK
  BY DEF TypeOK, WorkerTypeOK, VisitTypeOK, DriverTypeOK, Entry, NoEntry, WorkerStep, JournalState, State, Step, Result
<1>2. DriverShape /\ IndexShape /\ BridgeShape
  BY DEF DriverShape, IndexShape, BridgeShape, Open, Resolved, Dispatches, Has, Terminal,
         Dispatched, InTry, Preflight, Finishing
<1>3. ReservationShape /\ ExclusiveReservation /\ OnceShape /\ NeverReplayed
  BY DEF ReservationShape, ExclusiveReservation, OnceShape, NeverReplayed, Active, ACTIVE,
         Dispatches, Has, InTry, Preflight, Dispatched, Finishing, WorkerAbsent, BeforeRecover
<1> QED BY <1>1, <1>2, <1>3 DEF IInv

\* Every step keeps the inductive invariant.
LEMMA NextIInv == IInv /\ [Next]_vars => IInv'
<1> SUFFICES ASSUME IInv, [Next]_vars PROVE IInv'
  OBVIOUS
<1> QED
  BY TypeStep, DriverStep, IndexStep, BridgeStep, ReservationStep, ExclusiveStep, OnceStep,
     ReplayStep DEF IInv

(* The inductive invariant holds of every reachable state. *)
THEOREM Invariant == Spec => []IInv
  BY InitIInv, NextIInv, PTL DEF Spec

(* Every variable keeps its type, for every plan and mode. *)
THEOREM TypeCorrect == Spec => []TypeOK
<1>1. IInv => TypeOK
  BY DEF IInv
<1> QED BY Invariant, <1>1, PTL

(* claim: conflicting operations that never made a preflight exit are      *)
(* never reserved together.                                                *)
THEOREM Exclusion == Spec => []ExclusiveReservation
<1>1. IInv => ExclusiveReservation
  BY DEF IInv
<1> QED BY Invariant, <1>1, PTL

(* legacy_enter and legacy_exit: in bridge mode an operation that was      *)
(* dispatched and is not terminal is alone in the registry.                *)
THEOREM BridgeExclusion == Spec => []BridgeHold
<1>1. IInv => BridgeHold
  BY DEF IInv, BridgeShape, BridgeHold, TypeOK
<1> QED BY Invariant, <1>1, PTL

(* drive: no effect and no return is requested of a worker twice.          *)
THEOREM AtMostOnce == Spec => []NeverReplayed
<1>1. IInv => NeverReplayed
  BY DEF IInv
<1> QED BY Invariant, <1>1, PTL

(* drive: the terminal state of a dispatched operation is final.           *)
THEOREM Finality == Spec => TerminalIsFinal
<1>1. IInv /\ [Next]_vars => [TerminalKept]_vars
  BY TerminalStep
<1>2. [TerminalKept]_vars
      => [\A o \in Operation :
           Dispatches(o) /\ state[o] \in Terminal => state'[o] = state[o]]_vars
  BY DEF TerminalKept
<1> QED BY Invariant, <1>1, <1>2, PTL DEF Spec, TerminalIsFinal
-----------------------------------------------------------------------------
(* The refinement *)

(* What a step may do to the phases: nothing, open one, or close one. *)
Quiet == \A p \in Operation :
           /\ Dispatches(p)' <=> Dispatches(p)
           /\ Dispatches(p) /\ state[p] \notin Terminal => state'[p] \notin Terminal
           /\ Dispatches(p) /\ state[p] \in Terminal => state'[p] = state[p]

Opens(o) == /\ ~Dispatches(o)
            /\ events' = [events EXCEPT ![o] = @ \cup {"apply-intent"}]
            /\ state' = [state EXCEPT ![o] = "intent"]

Closes(o, s) == /\ UNCHANGED events /\ state[o] \notin Terminal
                /\ state' = [state EXCEPT ![o] = s]

Moves == \/ Quiet
         \/ \E o \in Operation : Opens(o)
         \/ \E o \in Operation, s \in Terminal : Closes(o, s)

(* Only the apply intent opens, only complete() closes. *)
LEMMA MoveStep == IInv /\ [Next]_vars => Moves
<1> SUFFICES ASSUME TypeOK, DriverShape, OnceShape, [Next]_vars PROVE Moves
  BY DEF IInv
<1> USE DEF Moves
<1>1. ASSUME NEW o \in Operation, Claim(o) PROVE Moves
  BY <1>1
     DEF Claim, Active, Quiet, TypeOK, WorkerTypeOK, DriverTypeOK, DriverShape, Dispatches, Has,
     InTry, Preflight, Dispatched, Finishing, Terminal
<1>2. ASSUME NEW o \in Operation, TerminalObserve(o) PROVE Moves
  BY <1>2
     DEF TerminalObserve, Leave, Quiet, TypeOK, WorkerTypeOK, DriverTypeOK, DriverShape,
     Dispatches, Has, InTry, Preflight, Dispatched, Finishing, Terminal
<1>3. ASSUME NEW o \in Operation, TerminalExit(o) PROVE Moves
  BY <1>3
     DEF TerminalExit, Leave, Quiet, TypeOK, WorkerTypeOK, DriverTypeOK, DriverShape, Dispatches,
     Has, InTry, Preflight, Dispatched, Finishing, Terminal
<1>4. ASSUME NEW o \in Operation, LegacyEnter(o) PROVE Moves
  BY <1>4
     DEF LegacyEnter, Raise, Quiet, TypeOK, WorkerTypeOK, DriverTypeOK, DriverShape, Dispatches,
     Has, InTry, Preflight, Dispatched, Finishing, Terminal
<1>5. ASSUME NEW o \in Operation, LookUpPrior(o) PROVE Moves
  BY <1>5
     DEF LookUpPrior, Prior, Observes, Quiet, TypeOK, WorkerTypeOK, DriverTypeOK, DriverShape,
     Dispatches, Has, InTry, Preflight, Dispatched, Finishing, Terminal
<1>6. ASSUME NEW o \in Operation, CompleteReuse(o) PROVE Moves
  <2>1. state[o] \notin Terminal /\ "accepted" \in Terminal
    BY <1>6 DEF CompleteReuse, DriverShape, InTry, Preflight, Terminal
  <2> QED BY <1>6, <2>1 DEF CompleteReuse, CompleteAs, Closes
<1>7. ASSUME NEW o \in Operation, ObserveFirst(o) PROVE Moves
  BY <1>7
     DEF ObserveFirst, Leave, Observes, Quiet, TypeOK, WorkerTypeOK, DriverTypeOK, DriverShape,
     Dispatches, Has, InTry, Preflight, Dispatched, Finishing, Terminal
<1>8. ASSUME NEW o \in Operation, ApplyIntent(o) PROVE Moves
  BY <1>8 DEF ApplyIntent, Opens, OnceShape, Dispatches, Has
<1>9. ASSUME NEW o \in Operation, DispatchApply(o) PROVE Moves
  BY <1>9
     DEF DispatchApply, Quiet, TypeOK, WorkerTypeOK, DriverTypeOK, DriverShape, Dispatches, Has,
     InTry, Preflight, Dispatched, Finishing, Terminal
<1>10. ASSUME NEW o \in Operation, ApplyResponse(o) PROVE Moves
  BY <1>10
     DEF ApplyResponse, Quiet, TypeOK, WorkerTypeOK, DriverTypeOK, DriverShape, Dispatches, Has,
     InTry, Preflight, Dispatched, Finishing, Terminal
<1>11. ASSUME NEW o \in Operation, ApplyResponseMissing(o) PROVE Moves
  BY <1>11
     DEF ApplyResponseMissing, Quiet, TypeOK, WorkerTypeOK, DriverTypeOK, DriverShape, Dispatches,
     Has, InTry, Preflight, Dispatched, Finishing, Terminal
<1>12. ASSUME NEW o \in Operation, Reobserve(o) PROVE Moves
  BY <1>12
     DEF Reobserve, Leave, Observes, Quiet, TypeOK, WorkerTypeOK, DriverTypeOK, DriverShape,
     Dispatches, Has, InTry, Preflight, Dispatched, Finishing, Terminal
<1>13. ASSUME NEW o \in Operation, Judge(o) PROVE Moves
  BY <1>13
     DEF Judge, Quiet, TypeOK, WorkerTypeOK, DriverTypeOK, DriverShape, Dispatches, Has, InTry,
     Preflight, Dispatched, Finishing, Terminal
<1>14. ASSUME NEW o \in Operation, CheckAccepted(o) PROVE Moves
  BY <1>14
     DEF CheckAccepted, Quiet, TypeOK, WorkerTypeOK, DriverTypeOK, DriverShape, Dispatches, Has,
     InTry, Preflight, Dispatched, Finishing, Terminal
<1>15. ASSUME NEW o \in Operation, CheckNotAccepted(o) PROVE Moves
  BY <1>15
     DEF CheckNotAccepted, Quiet, TypeOK, WorkerTypeOK, DriverTypeOK, DriverShape, Dispatches, Has,
     InTry, Preflight, Dispatched, Finishing, Terminal
<1>16. ASSUME NEW o \in Operation, ObserveOwn(o) PROVE Moves
  BY <1>16
     DEF ObserveOwn, Observes, Quiet, TypeOK, WorkerTypeOK, DriverTypeOK, DriverShape, Dispatches,
     Has, InTry, Preflight, Dispatched, Finishing, Terminal
<1>17. ASSUME NEW o \in Operation, RecoverIntent(o) PROVE Moves
  BY <1>17
     DEF RecoverIntent, Quiet, TypeOK, WorkerTypeOK, DriverTypeOK, DriverShape, Dispatches, Has,
     InTry, Preflight, Dispatched, Finishing, Terminal
<1>18. ASSUME NEW o \in Operation, DispatchRecover(o) PROVE Moves
  BY <1>18
     DEF DispatchRecover, Quiet, TypeOK, WorkerTypeOK, DriverTypeOK, DriverShape, Dispatches, Has,
     InTry, Preflight, Dispatched, Finishing, Terminal
<1>19. ASSUME NEW o \in Operation, RecoverResponse(o) PROVE Moves
  BY <1>19
     DEF RecoverResponse, Quiet, TypeOK, WorkerTypeOK, DriverTypeOK, DriverShape, Dispatches, Has,
     InTry, Preflight, Dispatched, Finishing, Terminal
<1>20. ASSUME NEW o \in Operation, RecoverResponseMissing(o) PROVE Moves
  BY <1>20
     DEF RecoverResponseMissing, Quiet, TypeOK, WorkerTypeOK, DriverTypeOK, DriverShape,
     Dispatches, Has, InTry, Preflight, Dispatched, Finishing, Terminal
<1>21. ASSUME NEW o \in Operation, Settle(o) PROVE Moves
  BY <1>21
     DEF Settle, Observes, Quiet, TypeOK, WorkerTypeOK, DriverTypeOK, DriverShape, Dispatches, Has,
     InTry, Preflight, Dispatched, Finishing, Terminal
<1>22. ASSUME NEW o \in Operation, Cleanup(o) PROVE Moves
  BY <1>22
     DEF Cleanup, Observes, Quiet, TypeOK, WorkerTypeOK, DriverTypeOK, DriverShape, Dispatches,
     Has, InTry, Preflight, Dispatched, Finishing, Terminal
<1>23. ASSUME NEW o \in Operation, Complete(o) PROVE Moves
  BY <1>23 DEF Complete, CompleteAs, Closes, DriverShape, InTry, Finishing
<1>24. ASSUME NEW o \in Operation, LegacyExit(o) PROVE Moves
  BY <1>24
     DEF LegacyExit, Leave, Raise, Quiet, TypeOK, WorkerTypeOK, DriverTypeOK, DriverShape,
     Dispatches, Has, InTry, Preflight, Dispatched, Finishing, Terminal
<1>25. ASSUME NEW o \in Operation, Fails(o) PROVE Moves
  BY <1>25
     DEF Fails, Raise, Quiet, TypeOK, WorkerTypeOK, DriverTypeOK, DriverShape, Dispatches, Has,
     InTry, Preflight, Dispatched, Finishing, Terminal
<1>26. ASSUME NEW o \in Operation, Abort(o) PROVE Moves
  BY <1>26, SMTT(60)
     DEF Abort, Leave, Quiet, TypeOK, WorkerTypeOK, DriverTypeOK, DriverShape, Dispatches, Has,
     InTry, Preflight, Dispatched, Finishing, Terminal
<1>27. ASSUME NEW o \in Operation, AbortExit(o) PROVE Moves
  BY <1>27
     DEF AbortExit, Leave, Quiet, TypeOK, WorkerTypeOK, DriverTypeOK, DriverShape, Dispatches, Has,
     InTry, Preflight, Dispatched, Finishing, Terminal
<1>28. ASSUME NEW o \in Operation, RegisterEffect(o) PROVE Moves
  BY <1>28
     DEF RegisterEffect, Quiet, TypeOK, WorkerTypeOK, DriverTypeOK, DriverShape, Dispatches, Has,
     InTry, Preflight, Dispatched, Finishing, Terminal
<1>29. ASSUME NEW o \in Operation, AcceptByHuman(o) PROVE Moves
  BY <1>29
     DEF AcceptByHuman, Quiet, TypeOK, WorkerTypeOK, DriverTypeOK, DriverShape, Dispatches, Has,
     InTry, Preflight, Dispatched, Finishing, Terminal
<1>30. ASSUME NEW o \in Operation, DriverCrash(o) PROVE Moves
  BY <1>30
     DEF DriverCrash, Leave, Quiet, TypeOK, WorkerTypeOK, DriverTypeOK, DriverShape, Dispatches,
     Has, InTry, Preflight, Dispatched, Finishing, Terminal
<1>31. ASSUME NEW o \in Operation, OrphanExit(o) PROVE Moves
  BY <1>31
     DEF OrphanExit, Quiet, TypeOK, WorkerTypeOK, DriverTypeOK, DriverShape, Dispatches, Has,
     InTry, Preflight, Dispatched, Finishing, Terminal
<1>32. ASSUME NEW o \in Operation, ApplyBegin(o), Work(o) PROVE Moves
  BY <1>32
     DEF ApplyBegin, Work, Quiet, TypeOK, WorkerTypeOK, DriverTypeOK, DriverShape, Dispatches, Has,
     InTry, Preflight, Dispatched, Finishing, Terminal
<1>33. ASSUME NEW o \in Operation, ApplyFails(o), Work(o) PROVE Moves
  BY <1>33
     DEF ApplyFails, Work, Quiet, TypeOK, WorkerTypeOK, DriverTypeOK, DriverShape, Dispatches, Has,
     InTry, Preflight, Dispatched, Finishing, Terminal
<1>34. ASSUME NEW o \in Operation, ApplyStopped(o), Work(o) PROVE Moves
  BY <1>34
     DEF ApplyStopped, Work, Quiet, TypeOK, WorkerTypeOK, DriverTypeOK, DriverShape, Dispatches,
     Has, InTry, Preflight, Dispatched, Finishing, Terminal
<1>35. ASSUME NEW o \in Operation, ApplyReplace(o), Work(o) PROVE Moves
  BY <1>35
     DEF ApplyReplace, Work, Quiet, TypeOK, WorkerTypeOK, DriverTypeOK, DriverShape, Dispatches,
     Has, InTry, Preflight, Dispatched, Finishing, Terminal
<1>36. ASSUME NEW o \in Operation, ApplyStarted(o), Work(o) PROVE Moves
  BY <1>36
     DEF ApplyStarted, Work, Quiet, TypeOK, WorkerTypeOK, DriverTypeOK, DriverShape, Dispatches,
     Has, InTry, Preflight, Dispatched, Finishing, Terminal
<1>37. ASSUME NEW o \in Operation, Check(o), Work(o) PROVE Moves
  BY <1>37
     DEF Check, Work, Quiet, TypeOK, WorkerTypeOK, DriverTypeOK, DriverShape, Dispatches, Has,
     InTry, Preflight, Dispatched, Finishing, Terminal
<1>38. ASSUME NEW o \in Operation, RecoverBegin(o), Work(o) PROVE Moves
  BY <1>38
     DEF RecoverBegin, Work, Quiet, TypeOK, WorkerTypeOK, DriverTypeOK, DriverShape, Dispatches,
     Has, InTry, Preflight, Dispatched, Finishing, Terminal
<1>39. ASSUME NEW o \in Operation, RecoverStopped(o), Work(o) PROVE Moves
  BY <1>39
     DEF RecoverStopped, Work, Quiet, TypeOK, WorkerTypeOK, DriverTypeOK, DriverShape, Dispatches,
     Has, InTry, Preflight, Dispatched, Finishing, Terminal
<1>40. ASSUME NEW o \in Operation, RecoverReverse(o), Work(o) PROVE Moves
  BY <1>40
     DEF RecoverReverse, Work, Quiet, TypeOK, WorkerTypeOK, DriverTypeOK, DriverShape, Dispatches,
     Has, InTry, Preflight, Dispatched, Finishing, Terminal
<1>41. ASSUME NEW o \in Operation, RecoverStarted(o), Work(o) PROVE Moves
  BY <1>41
     DEF RecoverStarted, Work, Quiet, TypeOK, WorkerTypeOK, DriverTypeOK, DriverShape, Dispatches,
     Has, InTry, Preflight, Dispatched, Finishing, Terminal
<1>42. ASSUME NEW o \in Operation, RecoverFails(o), Work(o) PROVE Moves
  BY <1>42
     DEF RecoverFails, Work, Quiet, TypeOK, WorkerTypeOK, DriverTypeOK, DriverShape, Dispatches,
     Has, InTry, Preflight, Dispatched, Finishing, Terminal
<1>43. ASSUME NEW r \in exposed, Intrude(r) PROVE Moves
  BY <1>43
     DEF Intrude, ForeignWrite, Quiet, TypeOK, WorkerTypeOK, DriverTypeOK, DriverShape, Dispatches,
     Has, InTry, Preflight, Dispatched, Finishing, Terminal
<1>44. CASE HostCrash
  BY <1>44
     DEF HostCrash, Quiet, TypeOK, WorkerTypeOK, DriverTypeOK, DriverShape, Dispatches, Has, InTry,
     Preflight, Dispatched, Finishing, Terminal
<1>45. CASE LegacyLock
  BY <1>45
     DEF LegacyLock, Quiet, TypeOK, WorkerTypeOK, DriverTypeOK, DriverShape, Dispatches, Has,
     InTry, Preflight, Dispatched, Finishing, Terminal
<1>46. CASE LegacyBind
  BY <1>46
     DEF LegacyBind, Quiet, TypeOK, WorkerTypeOK, DriverTypeOK, DriverShape, Dispatches, Has,
     InTry, Preflight, Dispatched, Finishing, Terminal
<1>47. CASE LegacyUnlock
  BY <1>47
     DEF LegacyUnlock, Quiet, TypeOK, WorkerTypeOK, DriverTypeOK, DriverShape, Dispatches, Has,
     InTry, Preflight, Dispatched, Finishing, Terminal
<1>49. ASSUME NEW o \in Operation, RecoverCompare(o), Work(o) PROVE Moves
  BY <1>49
     DEF RecoverCompare, Work, Quiet, TypeOK, WorkerTypeOK, DriverTypeOK, DriverShape, Dispatches,
     Has, InTry, Preflight, Dispatched, Finishing, Terminal
<1>48. CASE UNCHANGED vars
  BY <1>48
     DEF vars, Quiet, TypeOK, WorkerTypeOK, DriverTypeOK, DriverShape, Dispatches, Has, InTry,
     Preflight, Dispatched, Finishing, Terminal
<1> QED
  BY <1>1, <1>2, <1>3, <1>4, <1>5, <1>6, <1>7, <1>8, <1>9, <1>10, <1>11,
     <1>12, <1>13, <1>14, <1>15, <1>16, <1>17, <1>18, <1>19, <1>20, <1>21,
     <1>22, <1>23, <1>24, <1>25, <1>26, <1>27, <1>28, <1>29, <1>30, <1>31,
     <1>32, <1>33, <1>34, <1>35, <1>36, <1>37, <1>38, <1>39, <1>40, <1>41,
     <1>42, <1>43, <1>44, <1>45, <1>46, <1>47, <1>48, <1>49 DEF Next, Drive, Work,
     WorkerNext

\* The first state is a first state of the promise.
LEMMA InitPromise == Init => Promise!Init
<1> SUFFICES ASSUME Init PROVE phase = [o \in Operation |-> "none"]
  BY DEF Promise!Init
<1> QED BY DEF Init, phase, Dispatches, Has

\* Every step in bridge mode is a step of the promise, or none.
LEMMA NextPromise == ~Scoped /\ IInv /\ IInv' /\ [Next]_vars => [Promise!Next]_phase
<1> SUFFICES ASSUME ~Scoped, IInv, IInv', [Next]_vars
             PROVE  Promise!Next \/ phase' = phase
  OBVIOUS
<1> USE DEF IInv, TypeOK
<1>1. CASE Quiet
  <2>1. \A p \in Operation : phase'[p] = phase[p]
    BY <1>1 DEF Quiet, phase
  <2> QED BY <2>1 DEF phase
<1>2. CASE \E o \in Operation : Opens(o)
  <2> PICK o \in Operation : Opens(o)
    BY <1>2
  <2>1. Open(o)'
    BY DEF Opens, Open, Dispatches, Has, Terminal
  <2>2. registry' = {o}
    BY <2>1 DEF BridgeShape
  <2>3. \A p \in Operation \ {o} : Open(p)' <=> Open(p)
    BY DEF Opens, Open, Dispatches, Has
  <2>4. \A p \in Operation \ {o} : ~Open(p)
    BY <2>2, <2>3 DEF BridgeShape
  <2>5. phase[o] = "none"
    BY DEF Opens, phase
  <2>6. \A p \in Operation : phase[p] # "open"
    BY <2>4, <2>5 DEF Open, phase, Terminal
  <2>7. phase' = [phase EXCEPT ![o] = "open"]
    <3>1. phase'[o] = "open"
      BY <2>1 DEF phase, Open
    <3>2. \A p \in Operation \ {o} : phase'[p] = phase[p]
      BY DEF Opens, phase, Dispatches, Has
    <3> QED BY <3>1, <3>2 DEF phase
  <2> QED BY <2>5, <2>6, <2>7 DEF Promise!Next, Promise!Begin
<1>3. CASE \E o \in Operation, s \in Terminal : Closes(o, s)
  <2> PICK o \in Operation, s \in Terminal : Closes(o, s)
    BY <1>3
  <2>1. \A p \in Operation \ {o} : phase'[p] = phase[p]
    BY DEF Closes, phase, Dispatches, Has
  <2>2. CASE Dispatches(o)
    <3>1. phase[o] = "open"
      BY <2>2 DEF Closes, phase
    <3>2. phase'[o] = s
      BY <2>2 DEF Closes, phase, Dispatches, Has
    <3>3. /\ phase = [p \in Operation |-> phase[p]]
          /\ phase' = [p \in Operation |-> phase'[p]]
      BY DEF phase
    <3>4. phase' = [phase EXCEPT ![o] = s]
      BY <2>1, <3>2, <3>3
    <3> QED BY <3>1, <3>4 DEF Promise!Next, Promise!End, Terminal
  <2>3. CASE ~Dispatches(o)
    <3>1. phase'[o] = phase[o]
      BY <2>3 DEF Closes, phase, Dispatches, Has
    <3> QED BY <2>1, <3>1 DEF phase
  <2> QED BY <2>2, <2>3
<1> QED BY MoveStep, <1>1, <1>2, <1>3 DEF Moves

(* drive, legacy_enter and legacy_exit with every crash and retry implement *)
(* the promise of one open effect at a time.                                *)
THEOREM Implementation == ~Scoped => (Spec => OneAtATime)
<1> SUFFICES ASSUME ~Scoped PROVE Spec => OneAtATime
  OBVIOUS
<1>1. IInv /\ IInv' /\ [Next]_vars => [Promise!Next]_phase
  BY NextPromise
<1> QED BY Invariant, InitPromise, <1>1, PTL DEF Spec, OneAtATime, Promise!Spec

----------------------------------------------------------------------------
(* Gates *)

(* Whoever is accepted for good is never driven again. *)
AcceptedForGood(o) ==
  receipt[o] = "accepted" /\ state[o] = "accepted" /\ pc[o] \in {"idle", "terminal", "terminalExit"}

(* A terminal row has the receipt that says so, and a driver that leaves   *)
(* returns what its row says.                                              *)
ResultShape ==
  \A o \in Operation :
    /\ state[o] \in Terminal => receipt[o] = state[o]
    /\ pc[o] = "exit" => seen[o] = state[o]
    /\ result[o] = "accepted" => AcceptedForGood(o)

(* What a driver, or an operation that was dispatched, waited for. *)
NeedsShape ==
  \A o \in Operation :
    pc[o] # "idle" \/ Dispatches(o) => \A n \in needs[o] : AcceptedForGood(n)

(* A step leaves an idle driver idle, or the step waited for what it needs. *)
Waits ==
  \A q \in Operation :
    pc[q] = "idle" /\ ~Dispatches(q)
      => (pc'[q] = "idle" /\ ~Dispatches(q)') \/ \A n \in needs[q] : result[n] = "accepted"

(* Who is about to be accepted was accepted by the person it waits for, or *)
(* was sent back.                                                          *)
HumanShape ==
  \A o \in humanGated :
    /\ pc[o] = "reuse" => o \in human
    /\ pc[o] = "settle" => Has(o, "recover-intent")
    /\ pc[o] \in {"cleanup", "complete"} /\ seen[o] = "accepted"
         => Has(o, "recover-intent") \/ o \in human
    /\ receipt[o] = "accepted" /\ ~Has(o, "recover-intent") => o \in human

(* Rows, receipts and results go together. *)
LEMMA ResultStep ==
  ASSUME TypeOK, DriverShape, OnceShape, ResultShape, [Next]_vars
  PROVE  ResultShape'
<1> USE DEF TypeOK, WorkerTypeOK, DriverTypeOK, DriverShape, ResultShape, AcceptedForGood, Resolved, Dispatches, Has, Terminal,
            Dispatched, InTry, Preflight, Finishing
<1>1. ASSUME NEW o \in Operation, Claim(o) PROVE ResultShape'
  BY <1>1 DEF Claim, Active
<1>2. ASSUME NEW o \in Operation, TerminalObserve(o) PROVE ResultShape'
  BY <1>2 DEF TerminalObserve, Leave
<1>3. ASSUME NEW o \in Operation, TerminalExit(o) PROVE ResultShape'
  BY <1>3 DEF TerminalExit, Leave
<1>4. ASSUME NEW o \in Operation, LegacyEnter(o) PROVE ResultShape'
  BY <1>4 DEF LegacyEnter, Raise
<1>5. ASSUME NEW o \in Operation, LookUpPrior(o) PROVE ResultShape'
  <2>1. UNCHANGED <<durable, result, seen>> /\ (Goto(o, "observe") \/ Goto(o, "reuse"))
    BY <1>5 DEF LookUpPrior
  <2>2. pc[o] = "prior" BY <1>5 DEF LookUpPrior
  <2> QED BY <2>1, <2>2
<1>6. ASSUME NEW o \in Operation, CompleteReuse(o) PROVE ResultShape'
  BY <1>6 DEF CompleteReuse, CompleteAs
<1>7. ASSUME NEW o \in Operation, ObserveFirst(o) PROVE ResultShape'
  <2>1. CASE SetState(o, "unknown") /\ Leave(o, "unknown")
    BY <1>7, <2>1 DEF ObserveFirst, Leave
  <2>2. CASE /\ UNCHANGED <<state, result>>
             /\ \E v \in Observation, s \in {"cleanup", "intend", "judge"} : Saw(o, v) /\ Goto(o, s)
    BY <1>7, <2>2 DEF ObserveFirst
  <2> QED BY <1>7, <2>1, <2>2 DEF ObserveFirst, Observes
<1>8. ASSUME NEW o \in Operation, ApplyIntent(o) PROVE ResultShape'
  BY <1>8 DEF ApplyIntent
<1>9. ASSUME NEW o \in Operation, DispatchApply(o) PROVE ResultShape'
  BY <1>9 DEF DispatchApply
<1>10. ASSUME NEW o \in Operation, ApplyResponse(o) PROVE ResultShape'
  BY <1>10 DEF ApplyResponse
<1>11. ASSUME NEW o \in Operation, ApplyResponseMissing(o) PROVE ResultShape'
  BY <1>11 DEF ApplyResponseMissing
<1>12. ASSUME NEW o \in Operation, Reobserve(o) PROVE ResultShape'
  BY <1>12 DEF Reobserve, Leave, Observes
<1>13. ASSUME NEW o \in Operation, Judge(o) PROVE ResultShape'
  BY <1>13 DEF Judge
<1>14. ASSUME NEW o \in Operation, CheckAccepted(o) PROVE ResultShape'
  BY <1>14 DEF CheckAccepted
<1>15. ASSUME NEW o \in Operation, CheckNotAccepted(o) PROVE ResultShape'
  BY <1>15 DEF CheckNotAccepted
<1>16. ASSUME NEW o \in Operation, ObserveOwn(o) PROVE ResultShape'
  BY <1>16 DEF ObserveOwn, Observes
<1>17. ASSUME NEW o \in Operation, RecoverIntent(o) PROVE ResultShape'
  BY <1>17 DEF RecoverIntent
<1>18. ASSUME NEW o \in Operation, DispatchRecover(o) PROVE ResultShape'
  BY <1>18 DEF DispatchRecover
<1>19. ASSUME NEW o \in Operation, RecoverResponse(o) PROVE ResultShape'
  BY <1>19 DEF RecoverResponse
<1>20. ASSUME NEW o \in Operation, RecoverResponseMissing(o) PROVE ResultShape'
  BY <1>20 DEF RecoverResponseMissing
<1>21. ASSUME NEW o \in Operation, Settle(o) PROVE ResultShape'
  BY <1>21 DEF Settle, Observes
<1>22. ASSUME NEW o \in Operation, Cleanup(o) PROVE ResultShape'
  BY <1>22 DEF Cleanup, Observes
<1>23. ASSUME NEW o \in Operation, Complete(o) PROVE ResultShape'
  BY <1>23 DEF Complete, CompleteAs
<1>24. ASSUME NEW o \in Operation, LegacyExit(o) PROVE ResultShape'
  BY <1>24 DEF LegacyExit, Leave, Raise
<1>25. ASSUME NEW o \in Operation, Fails(o) PROVE ResultShape'
  BY <1>25 DEF Fails, Raise
<1>26. ASSUME NEW o \in Operation, Abort(o) PROVE ResultShape'
  <2>1. CASE Has(o, "apply-intent")
    BY <1>26, <2>1 DEF Abort, Leave
  <2>2. CASE SetState(o, "unchanged") /\ (Leave(o, "attention") \/ (Goto(o, "abortExit") /\ UNCHANGED <<seen, result>>))
    BY <1>26, <2>2 DEF Abort, Leave
  <2> QED BY <1>26, <2>1, <2>2 DEF Abort
<1>27. ASSUME NEW o \in Operation, AbortExit(o) PROVE ResultShape'
  BY <1>27 DEF AbortExit, Leave
<1>28. ASSUME NEW o \in Operation, RegisterEffect(o) PROVE ResultShape'
  BY <1>28 DEF RegisterEffect
<1>29. ASSUME NEW o \in Operation, AcceptByHuman(o) PROVE ResultShape'
  BY <1>29 DEF AcceptByHuman
<1>30. ASSUME NEW o \in Operation, DriverCrash(o) PROVE ResultShape'
  BY <1>30 DEF DriverCrash, Leave
<1>31. ASSUME NEW o \in Operation, OrphanExit(o) PROVE ResultShape'
  BY <1>31 DEF OrphanExit
<1>32. ASSUME NEW o \in Operation, ApplyBegin(o), Work(o) PROVE ResultShape'
  BY <1>32 DEF ApplyBegin, Work
<1>33. ASSUME NEW o \in Operation, ApplyFails(o), Work(o) PROVE ResultShape'
  BY <1>33 DEF ApplyFails, Work
<1>34. ASSUME NEW o \in Operation, ApplyStopped(o), Work(o) PROVE ResultShape'
  BY <1>34 DEF ApplyStopped, Work
<1>35. ASSUME NEW o \in Operation, ApplyReplace(o), Work(o) PROVE ResultShape'
  BY <1>35 DEF ApplyReplace, Work
<1>36. ASSUME NEW o \in Operation, ApplyStarted(o), Work(o) PROVE ResultShape'
  BY <1>36 DEF ApplyStarted, Work
<1>37. ASSUME NEW o \in Operation, Check(o), Work(o) PROVE ResultShape'
  BY <1>37 DEF Check, Work
<1>38. ASSUME NEW o \in Operation, RecoverBegin(o), Work(o) PROVE ResultShape'
  BY <1>38 DEF RecoverBegin, Work
<1>39. ASSUME NEW o \in Operation, RecoverStopped(o), Work(o) PROVE ResultShape'
  BY <1>39 DEF RecoverStopped, Work
<1>40. ASSUME NEW o \in Operation, RecoverReverse(o), Work(o) PROVE ResultShape'
  BY <1>40 DEF RecoverReverse, Work
<1>41. ASSUME NEW o \in Operation, RecoverStarted(o), Work(o) PROVE ResultShape'
  BY <1>41 DEF RecoverStarted, Work
<1>42. ASSUME NEW o \in Operation, RecoverFails(o), Work(o) PROVE ResultShape'
  BY <1>42 DEF RecoverFails, Work
<1>43. ASSUME NEW r \in exposed, Intrude(r) PROVE ResultShape'
  BY <1>43 DEF Intrude, ForeignWrite
<1>44. CASE HostCrash
  BY <1>44 DEF HostCrash
<1>45. CASE LegacyLock
  BY <1>45 DEF LegacyLock
<1>46. CASE LegacyBind
  BY <1>46 DEF LegacyBind
<1>47. CASE LegacyUnlock
  BY <1>47 DEF LegacyUnlock
<1>49. ASSUME NEW o \in Operation, RecoverCompare(o), Work(o) PROVE ResultShape'
  BY <1>49 DEF RecoverCompare, Work
<1>48. CASE UNCHANGED vars
  BY <1>48 DEF vars
<1> QED
  BY <1>1, <1>2, <1>3, <1>4, <1>5, <1>6, <1>7, <1>8, <1>9, <1>10, <1>11, <1>12, <1>13, <1>14,
     <1>15, <1>16, <1>17, <1>18, <1>19, <1>20, <1>21, <1>22, <1>23, <1>24, <1>25, <1>26, <1>27,
     <1>28, <1>29, <1>30, <1>31, <1>32, <1>33, <1>34, <1>35, <1>36, <1>37, <1>38, <1>39, <1>40,
     <1>41, <1>42, <1>43, <1>44, <1>45, <1>46, <1>47, <1>48, <1>49 DEF Next, Drive, Work, WorkerNext

(* What was accepted for good stays so. *)
LEMMA GoodStep ==
  ASSUME TypeOK, DriverShape, ResultShape, [Next]_vars
  PROVE  \A n \in Operation : AcceptedForGood(n) => AcceptedForGood(n)'
<1> USE DEF TypeOK, WorkerTypeOK, DriverTypeOK, DriverShape, ResultShape, AcceptedForGood, Terminal,
            Dispatched, InTry, Preflight, Finishing
<1>1. ASSUME NEW o \in Operation, Claim(o) PROVE \A n \in Operation : AcceptedForGood(n) => AcceptedForGood(n)'
  BY <1>1 DEF Claim, Active
<1>2. ASSUME NEW o \in Operation, TerminalObserve(o) PROVE \A n \in Operation : AcceptedForGood(n) => AcceptedForGood(n)'
  BY <1>2 DEF TerminalObserve, Leave
<1>3. ASSUME NEW o \in Operation, TerminalExit(o) PROVE \A n \in Operation : AcceptedForGood(n) => AcceptedForGood(n)'
  BY <1>3 DEF TerminalExit, Leave
<1>4. ASSUME NEW o \in Operation, LegacyEnter(o) PROVE \A n \in Operation : AcceptedForGood(n) => AcceptedForGood(n)'
  BY <1>4 DEF LegacyEnter, Raise
<1>5. ASSUME NEW o \in Operation, LookUpPrior(o) PROVE \A n \in Operation : AcceptedForGood(n) => AcceptedForGood(n)'
  BY <1>5 DEF LookUpPrior, Prior, Observes
<1>6. ASSUME NEW o \in Operation, CompleteReuse(o) PROVE \A n \in Operation : AcceptedForGood(n) => AcceptedForGood(n)'
  BY <1>6 DEF CompleteReuse, CompleteAs
<1>7. ASSUME NEW o \in Operation, ObserveFirst(o) PROVE \A n \in Operation : AcceptedForGood(n) => AcceptedForGood(n)'
  BY <1>7 DEF ObserveFirst, Leave, Observes
<1>8. ASSUME NEW o \in Operation, ApplyIntent(o) PROVE \A n \in Operation : AcceptedForGood(n) => AcceptedForGood(n)'
  BY <1>8 DEF ApplyIntent
<1>9. ASSUME NEW o \in Operation, DispatchApply(o) PROVE \A n \in Operation : AcceptedForGood(n) => AcceptedForGood(n)'
  BY <1>9 DEF DispatchApply
<1>10. ASSUME NEW o \in Operation, ApplyResponse(o) PROVE \A n \in Operation : AcceptedForGood(n) => AcceptedForGood(n)'
  BY <1>10 DEF ApplyResponse
<1>11. ASSUME NEW o \in Operation, ApplyResponseMissing(o) PROVE \A n \in Operation : AcceptedForGood(n) => AcceptedForGood(n)'
  BY <1>11 DEF ApplyResponseMissing
<1>12. ASSUME NEW o \in Operation, Reobserve(o) PROVE \A n \in Operation : AcceptedForGood(n) => AcceptedForGood(n)'
  BY <1>12 DEF Reobserve, Leave, Observes
<1>13. ASSUME NEW o \in Operation, Judge(o) PROVE \A n \in Operation : AcceptedForGood(n) => AcceptedForGood(n)'
  BY <1>13 DEF Judge
<1>14. ASSUME NEW o \in Operation, CheckAccepted(o) PROVE \A n \in Operation : AcceptedForGood(n) => AcceptedForGood(n)'
  BY <1>14 DEF CheckAccepted
<1>15. ASSUME NEW o \in Operation, CheckNotAccepted(o) PROVE \A n \in Operation : AcceptedForGood(n) => AcceptedForGood(n)'
  BY <1>15 DEF CheckNotAccepted
<1>16. ASSUME NEW o \in Operation, ObserveOwn(o) PROVE \A n \in Operation : AcceptedForGood(n) => AcceptedForGood(n)'
  BY <1>16 DEF ObserveOwn, Observes
<1>17. ASSUME NEW o \in Operation, RecoverIntent(o) PROVE \A n \in Operation : AcceptedForGood(n) => AcceptedForGood(n)'
  BY <1>17 DEF RecoverIntent
<1>18. ASSUME NEW o \in Operation, DispatchRecover(o) PROVE \A n \in Operation : AcceptedForGood(n) => AcceptedForGood(n)'
  BY <1>18 DEF DispatchRecover
<1>19. ASSUME NEW o \in Operation, RecoverResponse(o) PROVE \A n \in Operation : AcceptedForGood(n) => AcceptedForGood(n)'
  BY <1>19 DEF RecoverResponse
<1>20. ASSUME NEW o \in Operation, RecoverResponseMissing(o) PROVE \A n \in Operation : AcceptedForGood(n) => AcceptedForGood(n)'
  BY <1>20 DEF RecoverResponseMissing
<1>21. ASSUME NEW o \in Operation, Settle(o) PROVE \A n \in Operation : AcceptedForGood(n) => AcceptedForGood(n)'
  BY <1>21 DEF Settle, Observes
<1>22. ASSUME NEW o \in Operation, Cleanup(o) PROVE \A n \in Operation : AcceptedForGood(n) => AcceptedForGood(n)'
  BY <1>22 DEF Cleanup, Observes
<1>23. ASSUME NEW o \in Operation, Complete(o) PROVE \A n \in Operation : AcceptedForGood(n) => AcceptedForGood(n)'
  BY <1>23 DEF Complete, CompleteAs
<1>24. ASSUME NEW o \in Operation, LegacyExit(o) PROVE \A n \in Operation : AcceptedForGood(n) => AcceptedForGood(n)'
  BY <1>24 DEF LegacyExit, Leave, Raise
<1>25. ASSUME NEW o \in Operation, Fails(o) PROVE \A n \in Operation : AcceptedForGood(n) => AcceptedForGood(n)'
  BY <1>25 DEF Fails, Raise
<1>26. ASSUME NEW o \in Operation, Abort(o) PROVE \A n \in Operation : AcceptedForGood(n) => AcceptedForGood(n)'
  BY <1>26 DEF Abort, Leave
<1>27. ASSUME NEW o \in Operation, AbortExit(o) PROVE \A n \in Operation : AcceptedForGood(n) => AcceptedForGood(n)'
  BY <1>27 DEF AbortExit, Leave
<1>28. ASSUME NEW o \in Operation, RegisterEffect(o) PROVE \A n \in Operation : AcceptedForGood(n) => AcceptedForGood(n)'
  BY <1>28 DEF RegisterEffect
<1>29. ASSUME NEW o \in Operation, AcceptByHuman(o) PROVE \A n \in Operation : AcceptedForGood(n) => AcceptedForGood(n)'
  BY <1>29 DEF AcceptByHuman
<1>30. ASSUME NEW o \in Operation, DriverCrash(o) PROVE \A n \in Operation : AcceptedForGood(n) => AcceptedForGood(n)'
  BY <1>30 DEF DriverCrash, Leave
<1>31. ASSUME NEW o \in Operation, OrphanExit(o) PROVE \A n \in Operation : AcceptedForGood(n) => AcceptedForGood(n)'
  BY <1>31 DEF OrphanExit
<1>32. ASSUME NEW o \in Operation, ApplyBegin(o), Work(o) PROVE \A n \in Operation : AcceptedForGood(n) => AcceptedForGood(n)'
  BY <1>32 DEF ApplyBegin, Work
<1>33. ASSUME NEW o \in Operation, ApplyFails(o), Work(o) PROVE \A n \in Operation : AcceptedForGood(n) => AcceptedForGood(n)'
  BY <1>33 DEF ApplyFails, Work
<1>34. ASSUME NEW o \in Operation, ApplyStopped(o), Work(o) PROVE \A n \in Operation : AcceptedForGood(n) => AcceptedForGood(n)'
  BY <1>34 DEF ApplyStopped, Work
<1>35. ASSUME NEW o \in Operation, ApplyReplace(o), Work(o) PROVE \A n \in Operation : AcceptedForGood(n) => AcceptedForGood(n)'
  BY <1>35 DEF ApplyReplace, Work
<1>36. ASSUME NEW o \in Operation, ApplyStarted(o), Work(o) PROVE \A n \in Operation : AcceptedForGood(n) => AcceptedForGood(n)'
  BY <1>36 DEF ApplyStarted, Work
<1>37. ASSUME NEW o \in Operation, Check(o), Work(o) PROVE \A n \in Operation : AcceptedForGood(n) => AcceptedForGood(n)'
  BY <1>37 DEF Check, Work
<1>38. ASSUME NEW o \in Operation, RecoverBegin(o), Work(o) PROVE \A n \in Operation : AcceptedForGood(n) => AcceptedForGood(n)'
  BY <1>38 DEF RecoverBegin, Work
<1>39. ASSUME NEW o \in Operation, RecoverStopped(o), Work(o) PROVE \A n \in Operation : AcceptedForGood(n) => AcceptedForGood(n)'
  BY <1>39 DEF RecoverStopped, Work
<1>40. ASSUME NEW o \in Operation, RecoverReverse(o), Work(o) PROVE \A n \in Operation : AcceptedForGood(n) => AcceptedForGood(n)'
  BY <1>40 DEF RecoverReverse, Work
<1>41. ASSUME NEW o \in Operation, RecoverStarted(o), Work(o) PROVE \A n \in Operation : AcceptedForGood(n) => AcceptedForGood(n)'
  BY <1>41 DEF RecoverStarted, Work
<1>42. ASSUME NEW o \in Operation, RecoverFails(o), Work(o) PROVE \A n \in Operation : AcceptedForGood(n) => AcceptedForGood(n)'
  BY <1>42 DEF RecoverFails, Work
<1>43. ASSUME NEW r \in exposed, Intrude(r) PROVE \A n \in Operation : AcceptedForGood(n) => AcceptedForGood(n)'
  BY <1>43 DEF Intrude, ForeignWrite
<1>44. CASE HostCrash
  BY <1>44 DEF HostCrash
<1>45. CASE LegacyLock
  BY <1>45 DEF LegacyLock
<1>46. CASE LegacyBind
  BY <1>46 DEF LegacyBind
<1>47. CASE LegacyUnlock
  BY <1>47 DEF LegacyUnlock
<1>49. ASSUME NEW o \in Operation, RecoverCompare(o), Work(o) PROVE \A n \in Operation : AcceptedForGood(n) => AcceptedForGood(n)'
  BY <1>49 DEF RecoverCompare, Work
<1>48. CASE UNCHANGED vars
  BY <1>48 DEF vars
<1> QED
  BY <1>1, <1>2, <1>3, <1>4, <1>5, <1>6, <1>7, <1>8, <1>9, <1>10, <1>11, <1>12, <1>13, <1>14,
     <1>15, <1>16, <1>17, <1>18, <1>19, <1>20, <1>21, <1>22, <1>23, <1>24, <1>25, <1>26, <1>27,
     <1>28, <1>29, <1>30, <1>31, <1>32, <1>33, <1>34, <1>35, <1>36, <1>37, <1>38, <1>39, <1>40,
     <1>41, <1>42, <1>43, <1>44, <1>45, <1>46, <1>47, <1>48, <1>49 DEF Next, Drive, Work, WorkerNext

(* A driver begins with a claim, and only a driver dispatches. *)
LEMMA WaitStep ==
  ASSUME TypeOK, DriverShape, OnceShape, [Next]_vars
  PROVE  Waits
<1> USE DEF TypeOK, WorkerTypeOK, DriverTypeOK, Waits, Dispatches, Has
<1>1. ASSUME NEW o \in Operation, Claim(o) PROVE Waits
  BY <1>1 DEF Claim, Active
<1>2. ASSUME NEW o \in Operation, TerminalObserve(o) PROVE Waits
  BY <1>2 DEF TerminalObserve, Leave
<1>3. ASSUME NEW o \in Operation, TerminalExit(o) PROVE Waits
  BY <1>3 DEF TerminalExit, Leave
<1>4. ASSUME NEW o \in Operation, LegacyEnter(o) PROVE Waits
  BY <1>4 DEF LegacyEnter, Raise
<1>5. ASSUME NEW o \in Operation, LookUpPrior(o) PROVE Waits
  BY <1>5 DEF LookUpPrior, Prior, Observes
<1>6. ASSUME NEW o \in Operation, CompleteReuse(o) PROVE Waits
  BY <1>6 DEF CompleteReuse, CompleteAs
<1>7. ASSUME NEW o \in Operation, ObserveFirst(o) PROVE Waits
  BY <1>7 DEF ObserveFirst, Leave, Observes
<1>8. ASSUME NEW o \in Operation, ApplyIntent(o) PROVE Waits
  BY <1>8 DEF ApplyIntent
<1>9. ASSUME NEW o \in Operation, DispatchApply(o) PROVE Waits
  BY <1>9 DEF DispatchApply
<1>10. ASSUME NEW o \in Operation, ApplyResponse(o) PROVE Waits
  BY <1>10 DEF ApplyResponse
<1>11. ASSUME NEW o \in Operation, ApplyResponseMissing(o) PROVE Waits
  BY <1>11 DEF ApplyResponseMissing
<1>12. ASSUME NEW o \in Operation, Reobserve(o) PROVE Waits
  BY <1>12 DEF Reobserve, Leave, Observes
<1>13. ASSUME NEW o \in Operation, Judge(o) PROVE Waits
  BY <1>13 DEF Judge
<1>14. ASSUME NEW o \in Operation, CheckAccepted(o) PROVE Waits
  BY <1>14 DEF CheckAccepted
<1>15. ASSUME NEW o \in Operation, CheckNotAccepted(o) PROVE Waits
  BY <1>15 DEF CheckNotAccepted
<1>16. ASSUME NEW o \in Operation, ObserveOwn(o) PROVE Waits
  BY <1>16 DEF ObserveOwn, Observes
<1>17. ASSUME NEW o \in Operation, RecoverIntent(o) PROVE Waits
  BY <1>17 DEF RecoverIntent
<1>18. ASSUME NEW o \in Operation, DispatchRecover(o) PROVE Waits
  BY <1>18 DEF DispatchRecover
<1>19. ASSUME NEW o \in Operation, RecoverResponse(o) PROVE Waits
  BY <1>19 DEF RecoverResponse
<1>20. ASSUME NEW o \in Operation, RecoverResponseMissing(o) PROVE Waits
  BY <1>20 DEF RecoverResponseMissing
<1>21. ASSUME NEW o \in Operation, Settle(o) PROVE Waits
  BY <1>21 DEF Settle, Observes
<1>22. ASSUME NEW o \in Operation, Cleanup(o) PROVE Waits
  BY <1>22 DEF Cleanup, Observes
<1>23. ASSUME NEW o \in Operation, Complete(o) PROVE Waits
  BY <1>23 DEF Complete, CompleteAs
<1>24. ASSUME NEW o \in Operation, LegacyExit(o) PROVE Waits
  BY <1>24 DEF LegacyExit, Leave, Raise
<1>25. ASSUME NEW o \in Operation, Fails(o) PROVE Waits
  BY <1>25 DEF Fails, Raise
<1>26. ASSUME NEW o \in Operation, Abort(o) PROVE Waits
  BY <1>26 DEF Abort, Leave
<1>27. ASSUME NEW o \in Operation, AbortExit(o) PROVE Waits
  BY <1>27 DEF AbortExit, Leave
<1>28. ASSUME NEW o \in Operation, RegisterEffect(o) PROVE Waits
  BY <1>28 DEF RegisterEffect
<1>29. ASSUME NEW o \in Operation, AcceptByHuman(o) PROVE Waits
  BY <1>29 DEF AcceptByHuman
<1>30. ASSUME NEW o \in Operation, DriverCrash(o) PROVE Waits
  BY <1>30 DEF DriverCrash, Leave
<1>31. ASSUME NEW o \in Operation, OrphanExit(o) PROVE Waits
  BY <1>31 DEF OrphanExit
<1>32. ASSUME NEW o \in Operation, ApplyBegin(o), Work(o) PROVE Waits
  BY <1>32 DEF ApplyBegin, Work
<1>33. ASSUME NEW o \in Operation, ApplyFails(o), Work(o) PROVE Waits
  BY <1>33 DEF ApplyFails, Work
<1>34. ASSUME NEW o \in Operation, ApplyStopped(o), Work(o) PROVE Waits
  BY <1>34 DEF ApplyStopped, Work
<1>35. ASSUME NEW o \in Operation, ApplyReplace(o), Work(o) PROVE Waits
  BY <1>35 DEF ApplyReplace, Work
<1>36. ASSUME NEW o \in Operation, ApplyStarted(o), Work(o) PROVE Waits
  BY <1>36 DEF ApplyStarted, Work
<1>37. ASSUME NEW o \in Operation, Check(o), Work(o) PROVE Waits
  BY <1>37 DEF Check, Work
<1>38. ASSUME NEW o \in Operation, RecoverBegin(o), Work(o) PROVE Waits
  BY <1>38 DEF RecoverBegin, Work
<1>39. ASSUME NEW o \in Operation, RecoverStopped(o), Work(o) PROVE Waits
  BY <1>39 DEF RecoverStopped, Work
<1>40. ASSUME NEW o \in Operation, RecoverReverse(o), Work(o) PROVE Waits
  BY <1>40 DEF RecoverReverse, Work
<1>41. ASSUME NEW o \in Operation, RecoverStarted(o), Work(o) PROVE Waits
  BY <1>41 DEF RecoverStarted, Work
<1>42. ASSUME NEW o \in Operation, RecoverFails(o), Work(o) PROVE Waits
  BY <1>42 DEF RecoverFails, Work
<1>43. ASSUME NEW r \in exposed, Intrude(r) PROVE Waits
  BY <1>43 DEF Intrude, ForeignWrite
<1>44. CASE HostCrash
  BY <1>44 DEF HostCrash
<1>45. CASE LegacyLock
  BY <1>45 DEF LegacyLock
<1>46. CASE LegacyBind
  BY <1>46 DEF LegacyBind
<1>47. CASE LegacyUnlock
  BY <1>47 DEF LegacyUnlock
<1>49. ASSUME NEW o \in Operation, RecoverCompare(o), Work(o) PROVE Waits
  BY <1>49 DEF RecoverCompare, Work
<1>48. CASE UNCHANGED vars
  BY <1>48 DEF vars
<1> QED
  BY <1>1, <1>2, <1>3, <1>4, <1>5, <1>6, <1>7, <1>8, <1>9, <1>10, <1>11, <1>12, <1>13, <1>14,
     <1>15, <1>16, <1>17, <1>18, <1>19, <1>20, <1>21, <1>22, <1>23, <1>24, <1>25, <1>26, <1>27,
     <1>28, <1>29, <1>30, <1>31, <1>32, <1>33, <1>34, <1>35, <1>36, <1>37, <1>38, <1>39, <1>40,
     <1>41, <1>42, <1>43, <1>44, <1>45, <1>46, <1>47, <1>48, <1>49 DEF Next, Drive, Work, WorkerNext

(* A person's acceptance is never taken back. *)
LEMMA HumanStep ==
  ASSUME TypeOK, DriverShape, OnceShape, HumanShape, [Next]_vars
  PROVE  HumanShape'
<1> USE DEF TypeOK, WorkerTypeOK, DriverTypeOK, DriverShape, OnceShape, HumanShape, Has, HumanAccepted, Terminal, BeforeRecover
<1>1. ASSUME NEW o \in Operation, Claim(o) PROVE HumanShape'
  BY <1>1 DEF Claim, Active
<1>2. ASSUME NEW o \in Operation, TerminalObserve(o) PROVE HumanShape'
  BY <1>2 DEF TerminalObserve, Leave
<1>3. ASSUME NEW o \in Operation, TerminalExit(o) PROVE HumanShape'
  BY <1>3 DEF TerminalExit, Leave
<1>4. ASSUME NEW o \in Operation, LegacyEnter(o) PROVE HumanShape'
  BY <1>4 DEF LegacyEnter, Raise
<1>5. ASSUME NEW o \in Operation, LookUpPrior(o) PROVE HumanShape'
  BY <1>5 DEF LookUpPrior, Prior, Observes
<1>6. ASSUME NEW o \in Operation, CompleteReuse(o) PROVE HumanShape'
  BY <1>6 DEF CompleteReuse, CompleteAs
<1>7. ASSUME NEW o \in Operation, ObserveFirst(o) PROVE HumanShape'
  <2>1. UNCHANGED <<events, receipt, human>>
    BY <1>7 DEF ObserveFirst
  <2>2. CASE Leave(o, "unknown")
    BY <2>1, <2>2 DEF Leave
  <2>3. CASE \E v \in Observation :
               Saw(o, v) /\ (Goto(o, "intend") \/ Goto(o, "judge") \/ (v = "recovered" /\ Goto(o, "cleanup")))
    BY <2>1, <2>3
  <2> QED BY <1>7, <2>2, <2>3 DEF ObserveFirst, Observes
<1>8. ASSUME NEW o \in Operation, ApplyIntent(o) PROVE HumanShape'
  BY <1>8 DEF ApplyIntent
<1>9. ASSUME NEW o \in Operation, DispatchApply(o) PROVE HumanShape'
  BY <1>9 DEF DispatchApply
<1>10. ASSUME NEW o \in Operation, ApplyResponse(o) PROVE HumanShape'
  BY <1>10 DEF ApplyResponse
<1>11. ASSUME NEW o \in Operation, ApplyResponseMissing(o) PROVE HumanShape'
  BY <1>11 DEF ApplyResponseMissing
<1>12. ASSUME NEW o \in Operation, Reobserve(o) PROVE HumanShape'
  <2>1. UNCHANGED <<events, receipt, human>>
    BY <1>12 DEF Reobserve
  <2>2. CASE Leave(o, "unknown")
    BY <2>1, <2>2 DEF Leave
  <2>3. CASE \E v \in Observation : Saw(o, v) /\ Goto(o, "judge")
    BY <2>1, <2>3
  <2> QED BY <1>12, <2>2, <2>3 DEF Reobserve, Observes
<1>13. ASSUME NEW o \in Operation, Judge(o) PROVE HumanShape'
  BY <1>13 DEF Judge
<1>14. ASSUME NEW o \in Operation, CheckAccepted(o) PROVE HumanShape'
  BY <1>14 DEF CheckAccepted
<1>15. ASSUME NEW o \in Operation, CheckNotAccepted(o) PROVE HumanShape'
  BY <1>15 DEF CheckNotAccepted
<1>16. ASSUME NEW o \in Operation, ObserveOwn(o) PROVE HumanShape'
  BY <1>16 DEF ObserveOwn, Observes
<1>17. ASSUME NEW o \in Operation, RecoverIntent(o) PROVE HumanShape'
  BY <1>17 DEF RecoverIntent
<1>18. ASSUME NEW o \in Operation, DispatchRecover(o) PROVE HumanShape'
  BY <1>18 DEF DispatchRecover
<1>19. ASSUME NEW o \in Operation, RecoverResponse(o) PROVE HumanShape'
  BY <1>19 DEF RecoverResponse
<1>20. ASSUME NEW o \in Operation, RecoverResponseMissing(o) PROVE HumanShape'
  BY <1>20 DEF RecoverResponseMissing
<1>21. ASSUME NEW o \in Operation, Settle(o) PROVE HumanShape'
  BY <1>21 DEF Settle, Observes
<1>22. ASSUME NEW o \in Operation, Cleanup(o) PROVE HumanShape'
  BY <1>22 DEF Cleanup, Observes
<1>23. ASSUME NEW o \in Operation, Complete(o) PROVE HumanShape'
  BY <1>23 DEF Complete, CompleteAs
<1>24. ASSUME NEW o \in Operation, LegacyExit(o) PROVE HumanShape'
  BY <1>24 DEF LegacyExit, Leave, Raise
<1>25. ASSUME NEW o \in Operation, Fails(o) PROVE HumanShape'
  BY <1>25 DEF Fails, Raise
<1>26. ASSUME NEW o \in Operation, Abort(o) PROVE HumanShape'
  BY <1>26 DEF Abort, Leave
<1>27. ASSUME NEW o \in Operation, AbortExit(o) PROVE HumanShape'
  BY <1>27 DEF AbortExit, Leave
<1>28. ASSUME NEW o \in Operation, RegisterEffect(o) PROVE HumanShape'
  BY <1>28 DEF RegisterEffect
<1>29. ASSUME NEW o \in Operation, AcceptByHuman(o) PROVE HumanShape'
  BY <1>29 DEF AcceptByHuman
<1>30. ASSUME NEW o \in Operation, DriverCrash(o) PROVE HumanShape'
  BY <1>30 DEF DriverCrash, Leave
<1>31. ASSUME NEW o \in Operation, OrphanExit(o) PROVE HumanShape'
  BY <1>31 DEF OrphanExit
<1>32. ASSUME NEW o \in Operation, ApplyBegin(o), Work(o) PROVE HumanShape'
  BY <1>32 DEF ApplyBegin, Work
<1>33. ASSUME NEW o \in Operation, ApplyFails(o), Work(o) PROVE HumanShape'
  BY <1>33 DEF ApplyFails, Work
<1>34. ASSUME NEW o \in Operation, ApplyStopped(o), Work(o) PROVE HumanShape'
  BY <1>34 DEF ApplyStopped, Work
<1>35. ASSUME NEW o \in Operation, ApplyReplace(o), Work(o) PROVE HumanShape'
  BY <1>35 DEF ApplyReplace, Work
<1>36. ASSUME NEW o \in Operation, ApplyStarted(o), Work(o) PROVE HumanShape'
  BY <1>36 DEF ApplyStarted, Work
<1>37. ASSUME NEW o \in Operation, Check(o), Work(o) PROVE HumanShape'
  BY <1>37 DEF Check, Work
<1>38. ASSUME NEW o \in Operation, RecoverBegin(o), Work(o) PROVE HumanShape'
  BY <1>38 DEF RecoverBegin, Work
<1>39. ASSUME NEW o \in Operation, RecoverStopped(o), Work(o) PROVE HumanShape'
  BY <1>39 DEF RecoverStopped, Work
<1>40. ASSUME NEW o \in Operation, RecoverReverse(o), Work(o) PROVE HumanShape'
  BY <1>40 DEF RecoverReverse, Work
<1>41. ASSUME NEW o \in Operation, RecoverStarted(o), Work(o) PROVE HumanShape'
  BY <1>41 DEF RecoverStarted, Work
<1>42. ASSUME NEW o \in Operation, RecoverFails(o), Work(o) PROVE HumanShape'
  BY <1>42 DEF RecoverFails, Work
<1>43. ASSUME NEW r \in exposed, Intrude(r) PROVE HumanShape'
  BY <1>43 DEF Intrude, ForeignWrite
<1>44. CASE HostCrash
  BY <1>44 DEF HostCrash
<1>45. CASE LegacyLock
  BY <1>45 DEF LegacyLock
<1>46. CASE LegacyBind
  BY <1>46 DEF LegacyBind
<1>47. CASE LegacyUnlock
  BY <1>47 DEF LegacyUnlock
<1>49. ASSUME NEW o \in Operation, RecoverCompare(o), Work(o) PROVE HumanShape'
  BY <1>49 DEF RecoverCompare, Work
<1>48. CASE UNCHANGED vars
  BY <1>48 DEF vars
<1> QED
  BY <1>1, <1>2, <1>3, <1>4, <1>5, <1>6, <1>7, <1>8, <1>9, <1>10, <1>11, <1>12, <1>13, <1>14,
     <1>15, <1>16, <1>17, <1>18, <1>19, <1>20, <1>21, <1>22, <1>23, <1>24, <1>25, <1>26, <1>27,
     <1>28, <1>29, <1>30, <1>31, <1>32, <1>33, <1>34, <1>35, <1>36, <1>37, <1>38, <1>39, <1>40,
     <1>41, <1>42, <1>43, <1>44, <1>45, <1>46, <1>47, <1>48, <1>49 DEF Next, Drive, Work, WorkerNext

\* No step dispatches what still needs another.
LEMMA NeedsStep == IInv /\ ResultShape /\ NeedsShape /\ [Next]_vars => NeedsShape'
<1> SUFFICES ASSUME IInv, ResultShape, NeedsShape, [Next]_vars
             PROVE  NeedsShape'
  OBVIOUS
<1>1. \A n \in Operation : AcceptedForGood(n) => AcceptedForGood(n)'
  BY GoodStep DEF IInv
<1>2. Waits
  BY WaitStep DEF IInv
<1>3. ASSUME NEW q \in Operation, pc'[q] # "idle" \/ Dispatches(q)', NEW n \in needs[q]
      PROVE  AcceptedForGood(n)
  <2>1. n \in Operation
    BY <1>3
  <2> QED BY <1>2, <1>3, <2>1 DEF Waits, NeedsShape, ResultShape
<1> QED
  BY <1>1, <1>3 DEF NeedsShape

GateShape == ResultShape /\ NeedsShape /\ HumanShape

\* The first state of the gates.
LEMMA InitGate == Init => GateShape
  BY DEF Init, WorkerInit, GateShape, ResultShape, NeedsShape, HumanShape, Dispatches, Has, Terminal

\* Every step keeps the gates.
LEMMA GateStep == IInv /\ GateShape /\ [Next]_vars => GateShape'
  BY ResultStep, NeedsStep, HumanStep DEF GateShape, IInv

(* No step is dispatched before what it depends on was accepted, nor       *)
(* accepted before the person it waits for (Coordinator.claim and          *)
(* verify_acceptance), in both modes and for every plan.                   *)
THEOREM GatesTheorem == Spec => []GatesObserved
<1>1. IInv /\ GateShape => GatesObserved
  BY DEF GateShape, NeedsShape, HumanShape, AcceptedForGood, GatesObserved, DependenciesFirst,
         HumanGateObserved
<1>2. Spec => []GateShape
  <2>1. Spec => []IInv
    BY Invariant
  <2> QED BY <2>1, InitGate, GateStep, PTL DEF Spec
<1> QED
  BY <1>1, <1>2, Invariant, PTL

----------------------------------------------------------------------------
(* A successor *)

(* What somebody outside the protocol writes is in nobody's plan. *)
OutsideContent == \A o \in Operation : Successor \notin {before[o], after[o]}

(* A successor in a target about to be written came after the comparison. *)
Watched ==
  \A o \in Operation : \A r \in ToWrite(o) : content[r] = Successor => r \in overtaken[o]

Spared ==
  \A r \in Resource :
    content[r] = Successor /\ content'[r] # Successor
      => \E o \in Operation : r \in overtaken[o] \cap ToWrite(o)

Watch == Watched' /\ Spared

\* The observation 'before' is of targets that all hold the expected content.
LEMMA BeforeView ==
  ASSUME NEW o \in Operation, FilesObserve(o) = "before"
  PROVE  AllAre(o, before[o])
<1>1. ~ \E r \in targets[o] : content[r] \notin {before[o], after[o]}
  BY DEF FilesObserve, AllAre
<1>2. ~AllAre(o, after[o])
  BY <1>1 DEF FilesObserve, AllAre
<1> QED BY <1>1, <1>2 DEF FilesObserve

(* Only what was compared before the successor came is still written. *)
LEMMA SparedStep ==
  ASSUME TypeOK, OutsideContent, Watched, [Next]_vars
  PROVE  Watch
<1> USE DEF TypeOK, WorkerTypeOK, VisitTypeOK, OutsideContent, Watched, Watch, Spared,
            ToWrite
<1>1. ASSUME NEW o \in Operation, Claim(o) PROVE Watch
  BY <1>1 DEF Claim, Active
<1>2. ASSUME NEW o \in Operation, TerminalObserve(o) PROVE Watch
  BY <1>2 DEF TerminalObserve, Leave
<1>3. ASSUME NEW o \in Operation, TerminalExit(o) PROVE Watch
  BY <1>3 DEF TerminalExit, Leave
<1>4. ASSUME NEW o \in Operation, LegacyEnter(o) PROVE Watch
  BY <1>4 DEF LegacyEnter, Raise
<1>5. ASSUME NEW o \in Operation, LookUpPrior(o) PROVE Watch
  BY <1>5 DEF LookUpPrior, Prior, Observes
<1>6. ASSUME NEW o \in Operation, CompleteReuse(o) PROVE Watch
  BY <1>6 DEF CompleteReuse, CompleteAs
<1>7. ASSUME NEW o \in Operation, ObserveFirst(o) PROVE Watch
  BY <1>7 DEF ObserveFirst, Leave, Observes
<1>8. ASSUME NEW o \in Operation, ApplyIntent(o) PROVE Watch
  BY <1>8 DEF ApplyIntent
<1>9. ASSUME NEW o \in Operation, DispatchApply(o) PROVE Watch
  BY <1>9 DEF DispatchApply
<1>10. ASSUME NEW o \in Operation, ApplyResponse(o) PROVE Watch
  BY <1>10 DEF ApplyResponse
<1>11. ASSUME NEW o \in Operation, ApplyResponseMissing(o) PROVE Watch
  BY <1>11 DEF ApplyResponseMissing
<1>12. ASSUME NEW o \in Operation, Reobserve(o) PROVE Watch
  BY <1>12 DEF Reobserve, Leave, Observes
<1>13. ASSUME NEW o \in Operation, Judge(o) PROVE Watch
  BY <1>13 DEF Judge
<1>14. ASSUME NEW o \in Operation, CheckAccepted(o) PROVE Watch
  BY <1>14 DEF CheckAccepted
<1>15. ASSUME NEW o \in Operation, CheckNotAccepted(o) PROVE Watch
  BY <1>15 DEF CheckNotAccepted
<1>16. ASSUME NEW o \in Operation, ObserveOwn(o) PROVE Watch
  BY <1>16 DEF ObserveOwn, Observes
<1>17. ASSUME NEW o \in Operation, RecoverIntent(o) PROVE Watch
  BY <1>17 DEF RecoverIntent
<1>18. ASSUME NEW o \in Operation, DispatchRecover(o) PROVE Watch
  BY <1>18 DEF DispatchRecover
<1>19. ASSUME NEW o \in Operation, RecoverResponse(o) PROVE Watch
  BY <1>19 DEF RecoverResponse
<1>20. ASSUME NEW o \in Operation, RecoverResponseMissing(o) PROVE Watch
  BY <1>20 DEF RecoverResponseMissing
<1>21. ASSUME NEW o \in Operation, Settle(o) PROVE Watch
  BY <1>21 DEF Settle, Observes
<1>22. ASSUME NEW o \in Operation, Cleanup(o) PROVE Watch
  BY <1>22 DEF Cleanup, Observes
<1>23. ASSUME NEW o \in Operation, Complete(o) PROVE Watch
  BY <1>23 DEF Complete, CompleteAs
<1>24. ASSUME NEW o \in Operation, LegacyExit(o) PROVE Watch
  BY <1>24 DEF LegacyExit, Leave, Raise
<1>25. ASSUME NEW o \in Operation, Fails(o) PROVE Watch
  BY <1>25 DEF Fails, Raise
<1>26. ASSUME NEW o \in Operation, Abort(o) PROVE Watch
  BY <1>26 DEF Abort, Leave
<1>27. ASSUME NEW o \in Operation, AbortExit(o) PROVE Watch
  BY <1>27 DEF AbortExit, Leave
<1>28. ASSUME NEW o \in Operation, RegisterEffect(o) PROVE Watch
  BY <1>28 DEF RegisterEffect
<1>29. ASSUME NEW o \in Operation, AcceptByHuman(o) PROVE Watch
  BY <1>29 DEF AcceptByHuman
<1>30. ASSUME NEW o \in Operation, DriverCrash(o) PROVE Watch
  BY <1>30 DEF DriverCrash, Leave
<1>31. ASSUME NEW o \in Operation, OrphanExit(o) PROVE Watch
  BY <1>31 DEF OrphanExit
<1>32. ASSUME NEW o \in Operation, ApplyBegin(o), Work(o) PROVE Watch
  BY <1>32 DEF ApplyBegin, Work
<1>33. ASSUME NEW o \in Operation, ApplyFails(o), Work(o) PROVE Watch
  BY <1>33 DEF ApplyFails, Work
<1>34. ASSUME NEW o \in Operation, ApplyStopped(o), Work(o) PROVE Watch
  BY <1>34, BeforeView DEF AllAre, ApplyStopped, Work
<1>35. ASSUME NEW o \in Operation, ApplyReplace(o), Work(o) PROVE Watch
  BY <1>35 DEF ApplyReplace, Work
<1>36. ASSUME NEW o \in Operation, ApplyStarted(o), Work(o) PROVE Watch
  BY <1>36 DEF ApplyStarted, Work
<1>37. ASSUME NEW o \in Operation, Check(o), Work(o) PROVE Watch
  BY <1>37 DEF Check, Work
<1>38. ASSUME NEW o \in Operation, RecoverBegin(o), Work(o) PROVE Watch
  <2>1. \/ wpc' = [wpc EXCEPT ![o] = "return"] /\ UNCHANGED visit
        \/ Ends(o, "raised")
    BY <1>38 DEF RecoverBegin
  <2>2. content' = content
    BY <1>38 DEF RecoverBegin
  <2>3. CASE wpc' = [wpc EXCEPT ![o] = "return"] /\ UNCHANGED visit
    BY <2>2, <2>3
  <2>4. CASE Ends(o, "raised")
    BY <2>2, <2>4
  <2> QED BY <2>1, <2>3, <2>4
<1>39. ASSUME NEW o \in Operation, RecoverStopped(o), Work(o) PROVE Watch
  BY <1>39 DEF RecoverStopped, Work
<1>40. ASSUME NEW o \in Operation, RecoverReverse(o), Work(o) PROVE Watch
  BY <1>40 DEF RecoverReverse, Work
<1>41. ASSUME NEW o \in Operation, RecoverStarted(o), Work(o) PROVE Watch
  BY <1>41 DEF RecoverStarted, Work
<1>42. ASSUME NEW o \in Operation, RecoverFails(o), Work(o) PROVE Watch
  BY <1>42 DEF RecoverFails, Work
<1>43. ASSUME NEW r \in exposed, Intrude(r) PROVE Watch
  BY <1>43 DEF Intrude, ForeignWrite
<1>44. CASE HostCrash
  BY <1>44 DEF HostCrash
<1>45. CASE LegacyLock
  BY <1>45 DEF LegacyLock
<1>46. CASE LegacyBind
  BY <1>46 DEF LegacyBind
<1>47. CASE LegacyUnlock
  BY <1>47 DEF LegacyUnlock
<1>49. ASSUME NEW o \in Operation, RecoverCompare(o), Work(o) PROVE Watch
  BY <1>49 DEF RecoverCompare, Work
<1>48. CASE UNCHANGED vars
  BY <1>48 DEF vars
<1> QED
  BY <1>1, <1>2, <1>3, <1>4, <1>5, <1>6, <1>7, <1>8, <1>9, <1>10, <1>11, <1>12, <1>13, <1>14,
     <1>15, <1>16, <1>17, <1>18, <1>19, <1>20, <1>21, <1>22, <1>23, <1>24, <1>25, <1>26, <1>27,
     <1>28, <1>29, <1>30, <1>31, <1>32, <1>33, <1>34, <1>35, <1>36, <1>37, <1>38, <1>39, <1>40,
     <1>41, <1>42, <1>43, <1>44, <1>45, <1>46, <1>47, <1>48, <1>49 DEF Next, Drive, Work, WorkerNext

(* No return and no apply overwrites what a successor wrote unless it had  *)
(* compared the target before the successor came (files_apply and          *)
(* files_recover of publication_worker.py).                                *)
THEOREM SparedTheorem == OutsideContent => (Spec => SuccessorSpared)
<1> SUFFICES ASSUME OutsideContent
             PROVE  Spec => SuccessorSpared
  OBVIOUS
<1>1. Init => Watched
  BY DEF Init, WorkerInit, Watched, ToWrite
<1>2. IInv /\ Watched /\ [Next]_vars => Watched' /\ [Spared]_vars
  BY SparedStep DEF IInv, Watch
<1> QED
  BY <1>1, <1>2, Invariant, PTL DEF Spec, SuccessorSpared, Spared

----------------------------------------------------------------------------
(* What an operation owns *)

(* A worker visits its own targets; a row that is not there has no events; *)
(* an end is recorded of a dispatched operation.                           *)
PlainShape ==
  \A o \in Operation :
    /\ left[o] \subseteq targets[o] /\ compared[o] \subseteq targets[o]
    /\ state[o] = "absent" => events[o] = {}
    /\ pc[o] \in Finishing => Dispatches(o)

(* A worker outlives only an operation that was overridden; what is about  *)
(* to be reused, and what a receipt binds, published this very effect.     *)
CarryShape ==
  \A o \in Operation :
    /\ state[o] \in Terminal /\ wpc[o] # "absent" => Overridden(o)
    /\ pc[o] = "reuse" => Native(prior[o]) /\ effect[prior[o]] = effect[o]
    /\ bound[o] # None => effect[bound[o]] = effect[o]

(* A step changes a target only as the worker that visits it, or from      *)
(* outside.                                                                *)
Writers ==
  \A r \in Resource \ exposed :
    content'[r] # content[r] =>
      \E p \in Operation : /\ wpc[p] \in {"replace", "reverse"} /\ r \in left[p] \cup compared[p]
                           /\ content'[r] \in {before[p], after[p]}

(* What a step leaves of an operation at work. *)
Continues(q) ==
  /\ events[q] \subseteq events'[q]
  /\ wpc[q] = "absent" => stateJson'[q] = stateJson[q] /\ recoverOnce'[q] = recoverOnce[q]
  /\ Open(q)' \/ pc'[q] = "intend" =>
       \/ Open(q) \/ pc[q] = "intend"
       \/ AllAre(q, before[q]) /\ content' = content
  /\ pc'[q] = "complete" =>
       /\ seen'[q] = seen[q]
       /\ \/ pc[q] = "complete"
          \/ FilesObserve(q) = seen[q] /\ UNCHANGED <<content, journal>>

(* What it leaves of one about to be completed from another's receipt. *)
Carries(q) ==
  pc'[q] = "reuse" =>
    \/ pc[q] = "reuse" /\ prior'[q] = prior[q]
    \/ /\ Prior(q).operation # None /\ prior'[q] = Prior(q).worker
       /\ FilesObserve(prior'[q]) = "accepted" /\ UNCHANGED <<content, journal>>

(* What it may do to an end. *)
Ended(q) ==
  /\ state[q] \in Terminal => receipt'[q] = receipt[q] /\ bound'[q] = bound[q]
  /\ bound'[q] # bound[q] =>
       \/ bound'[q] = q
       \/ pc[q] = "reuse" /\ bound'[q] = prior[q]
  /\ state'[q] \in Terminal /\ wpc'[q] # "absent" =>
       /\ wpc[q] # "absent"
       /\ \/ state[q] \in Terminal
          \/ pc[q] = "reuse" /\ state'[q] = "accepted" /\ bound'[q] = prior[q]

Persists(q) == Continues(q) /\ Carries(q) /\ Ended(q)

(* Only workers and outsiders write. *)
LEMMA WriterStep ==
  ASSUME TypeOK, [Next]_vars
  PROVE  Writers
<1> USE DEF TypeOK, WorkerTypeOK, Writers
<1>1. ASSUME NEW o \in Operation, Claim(o) PROVE Writers
  BY <1>1 DEF Claim, Active
<1>2. ASSUME NEW o \in Operation, TerminalObserve(o) PROVE Writers
  BY <1>2 DEF TerminalObserve, Leave
<1>3. ASSUME NEW o \in Operation, TerminalExit(o) PROVE Writers
  BY <1>3 DEF TerminalExit, Leave
<1>4. ASSUME NEW o \in Operation, LegacyEnter(o) PROVE Writers
  BY <1>4 DEF LegacyEnter, Raise
<1>5. ASSUME NEW o \in Operation, LookUpPrior(o) PROVE Writers
  BY <1>5 DEF LookUpPrior, Prior, Observes
<1>6. ASSUME NEW o \in Operation, CompleteReuse(o) PROVE Writers
  BY <1>6 DEF CompleteReuse, CompleteAs
<1>7. ASSUME NEW o \in Operation, ObserveFirst(o) PROVE Writers
  BY <1>7 DEF ObserveFirst, Leave, Observes
<1>8. ASSUME NEW o \in Operation, ApplyIntent(o) PROVE Writers
  BY <1>8 DEF ApplyIntent
<1>9. ASSUME NEW o \in Operation, DispatchApply(o) PROVE Writers
  BY <1>9 DEF DispatchApply
<1>10. ASSUME NEW o \in Operation, ApplyResponse(o) PROVE Writers
  BY <1>10 DEF ApplyResponse
<1>11. ASSUME NEW o \in Operation, ApplyResponseMissing(o) PROVE Writers
  BY <1>11 DEF ApplyResponseMissing
<1>12. ASSUME NEW o \in Operation, Reobserve(o) PROVE Writers
  BY <1>12 DEF Reobserve, Leave, Observes
<1>13. ASSUME NEW o \in Operation, Judge(o) PROVE Writers
  BY <1>13 DEF Judge
<1>14. ASSUME NEW o \in Operation, CheckAccepted(o) PROVE Writers
  BY <1>14 DEF CheckAccepted
<1>15. ASSUME NEW o \in Operation, CheckNotAccepted(o) PROVE Writers
  BY <1>15 DEF CheckNotAccepted
<1>16. ASSUME NEW o \in Operation, ObserveOwn(o) PROVE Writers
  BY <1>16 DEF ObserveOwn, Observes
<1>17. ASSUME NEW o \in Operation, RecoverIntent(o) PROVE Writers
  BY <1>17 DEF RecoverIntent
<1>18. ASSUME NEW o \in Operation, DispatchRecover(o) PROVE Writers
  BY <1>18 DEF DispatchRecover
<1>19. ASSUME NEW o \in Operation, RecoverResponse(o) PROVE Writers
  BY <1>19 DEF RecoverResponse
<1>20. ASSUME NEW o \in Operation, RecoverResponseMissing(o) PROVE Writers
  BY <1>20 DEF RecoverResponseMissing
<1>21. ASSUME NEW o \in Operation, Settle(o) PROVE Writers
  BY <1>21 DEF Settle, Observes
<1>22. ASSUME NEW o \in Operation, Cleanup(o) PROVE Writers
  BY <1>22 DEF Cleanup, Observes
<1>23. ASSUME NEW o \in Operation, Complete(o) PROVE Writers
  BY <1>23 DEF Complete, CompleteAs
<1>24. ASSUME NEW o \in Operation, LegacyExit(o) PROVE Writers
  BY <1>24 DEF LegacyExit, Leave, Raise
<1>25. ASSUME NEW o \in Operation, Fails(o) PROVE Writers
  BY <1>25 DEF Fails, Raise
<1>26. ASSUME NEW o \in Operation, Abort(o) PROVE Writers
  BY <1>26 DEF Abort, Leave
<1>27. ASSUME NEW o \in Operation, AbortExit(o) PROVE Writers
  BY <1>27 DEF AbortExit, Leave
<1>28. ASSUME NEW o \in Operation, RegisterEffect(o) PROVE Writers
  BY <1>28 DEF RegisterEffect
<1>29. ASSUME NEW o \in Operation, AcceptByHuman(o) PROVE Writers
  BY <1>29 DEF AcceptByHuman
<1>30. ASSUME NEW o \in Operation, DriverCrash(o) PROVE Writers
  BY <1>30 DEF DriverCrash, Leave
<1>31. ASSUME NEW o \in Operation, OrphanExit(o) PROVE Writers
  BY <1>31 DEF OrphanExit
<1>32. ASSUME NEW o \in Operation, ApplyBegin(o), Work(o) PROVE Writers
  BY <1>32 DEF ApplyBegin, Work
<1>33. ASSUME NEW o \in Operation, ApplyFails(o), Work(o) PROVE Writers
  BY <1>33 DEF ApplyFails, Work
<1>34. ASSUME NEW o \in Operation, ApplyStopped(o), Work(o) PROVE Writers
  BY <1>34 DEF ApplyStopped, Work
<1>35. ASSUME NEW o \in Operation, ApplyReplace(o), Work(o) PROVE Writers
  BY <1>35 DEF ApplyReplace, Work
<1>36. ASSUME NEW o \in Operation, ApplyStarted(o), Work(o) PROVE Writers
  BY <1>36 DEF ApplyStarted, Work
<1>37. ASSUME NEW o \in Operation, Check(o), Work(o) PROVE Writers
  BY <1>37 DEF Check, Work
<1>38. ASSUME NEW o \in Operation, RecoverBegin(o), Work(o) PROVE Writers
  BY <1>38 DEF RecoverBegin, Work
<1>39. ASSUME NEW o \in Operation, RecoverStopped(o), Work(o) PROVE Writers
  BY <1>39 DEF RecoverStopped, Work
<1>40. ASSUME NEW o \in Operation, RecoverReverse(o), Work(o) PROVE Writers
  BY <1>40 DEF RecoverReverse, Work
<1>41. ASSUME NEW o \in Operation, RecoverStarted(o), Work(o) PROVE Writers
  BY <1>41 DEF RecoverStarted, Work
<1>42. ASSUME NEW o \in Operation, RecoverFails(o), Work(o) PROVE Writers
  BY <1>42 DEF RecoverFails, Work
<1>43. ASSUME NEW r \in exposed, Intrude(r) PROVE Writers
  BY <1>43 DEF Intrude, ForeignWrite
<1>44. CASE HostCrash
  BY <1>44 DEF HostCrash
<1>45. CASE LegacyLock
  BY <1>45 DEF LegacyLock
<1>46. CASE LegacyBind
  BY <1>46 DEF LegacyBind
<1>47. CASE LegacyUnlock
  BY <1>47 DEF LegacyUnlock
<1>49. ASSUME NEW o \in Operation, RecoverCompare(o), Work(o) PROVE Writers
  BY <1>49 DEF RecoverCompare, Work
<1>48. CASE UNCHANGED vars
  BY <1>48 DEF vars
<1> QED
  BY <1>1, <1>2, <1>3, <1>4, <1>5, <1>6, <1>7, <1>8, <1>9, <1>10, <1>11, <1>12, <1>13, <1>14,
     <1>15, <1>16, <1>17, <1>18, <1>19, <1>20, <1>21, <1>22, <1>23, <1>24, <1>25, <1>26, <1>27,
     <1>28, <1>29, <1>30, <1>31, <1>32, <1>33, <1>34, <1>35, <1>36, <1>37, <1>38, <1>39, <1>40,
     <1>41, <1>42, <1>43, <1>44, <1>45, <1>46, <1>47, <1>48, <1>49 DEF Next, Drive, Work, WorkerNext

(* What was observed of an operation at work goes on holding of it alone. *)
LEMMA ContinueStep ==
  ASSUME TypeOK, DriverShape, OnceShape, [Next]_vars
  PROVE  \A q \in Operation : Persists(q)
<1> USE DEF TypeOK, WorkerTypeOK, DriverTypeOK, DriverShape, OnceShape, Persists, Continues, Carries, Ended, Open, Dispatches, Has, Terminal, Dispatched, InTry, Preflight, Finishing,
            WorkerAbsent
<1>1. ASSUME NEW o \in Operation, Claim(o) PROVE \A q \in Operation : Persists(q)
  BY <1>1 DEF Claim, Active
<1>2. ASSUME NEW o \in Operation, TerminalObserve(o) PROVE \A q \in Operation : Persists(q)
  BY <1>2 DEF TerminalObserve, Leave
<1>3. ASSUME NEW o \in Operation, TerminalExit(o) PROVE \A q \in Operation : Persists(q)
  BY <1>3 DEF TerminalExit, Leave
<1>4. ASSUME NEW o \in Operation, LegacyEnter(o) PROVE \A q \in Operation : Persists(q)
  BY <1>4 DEF LegacyEnter, Raise
<1>5. ASSUME NEW o \in Operation, LookUpPrior(o) PROVE \A q \in Operation : Persists(q)
  BY <1>5 DEF LookUpPrior, Prior, Observes
<1>6. ASSUME NEW o \in Operation, CompleteReuse(o) PROVE \A q \in Operation : Persists(q)
  BY <1>6 DEF CompleteReuse, CompleteAs
<1>7. ASSUME NEW o \in Operation, ObserveFirst(o) PROVE \A q \in Operation : Persists(q)
  <2>1. PICK v \in Observation \cup {"unknown"} :
          /\ Observes(o, v)
          /\ \/ v = "unknown" /\ SetState(o, "unknown") /\ Leave(o, "unknown")
             \/ v = "recovered" /\ Saw(o, v) /\ Goto(o, "cleanup") /\ UNCHANGED <<state, prior>>
             \/ /\ v = "before" /\ events[o] \cap {"recover-intent", "apply-intent"} = {}
                /\ Saw(o, v) /\ Goto(o, "intend") /\ UNCHANGED <<state, prior>>
             \/ Saw(o, v) /\ Goto(o, "judge") /\ UNCHANGED <<state, prior>>
    BY <1>7 DEF ObserveFirst
  <2>2. UNCHANGED <<content, journal, events, wpc, receipt, bound>> /\ pc[o] = "observe"
    BY <1>7 DEF ObserveFirst
  <2>3. CASE v = "unknown" /\ SetState(o, "unknown") /\ Leave(o, "unknown")
    BY <2>2, <2>3 DEF Leave
  <2>4. CASE v = "recovered" /\ Saw(o, v) /\ Goto(o, "cleanup") /\ UNCHANGED <<state, prior>>
    BY <2>2, <2>4
  <2>5. CASE /\ v = "before" /\ events[o] \cap {"recover-intent", "apply-intent"} = {}
             /\ Saw(o, v) /\ Goto(o, "intend") /\ UNCHANGED <<state, prior>>
    <3>1. FilesObserve(o) = "before"
      BY <2>1, <2>5 DEF Observes
    <3>2. AllAre(o, before[o])
      BY <3>1, BeforeView
    <3> QED
      BY <2>2, <2>5, <3>2
  <2>6. CASE Saw(o, v) /\ Goto(o, "judge") /\ UNCHANGED <<state, prior>>
    BY <2>2, <2>6
  <2> QED
    BY <2>1, <2>3, <2>4, <2>5, <2>6
<1>8. ASSUME NEW o \in Operation, ApplyIntent(o) PROVE \A q \in Operation : Persists(q)
  BY <1>8 DEF ApplyIntent
<1>9. ASSUME NEW o \in Operation, DispatchApply(o) PROVE \A q \in Operation : Persists(q)
  BY <1>9 DEF DispatchApply
<1>10. ASSUME NEW o \in Operation, ApplyResponse(o) PROVE \A q \in Operation : Persists(q)
  BY <1>10 DEF ApplyResponse
<1>11. ASSUME NEW o \in Operation, ApplyResponseMissing(o) PROVE \A q \in Operation : Persists(q)
  BY <1>11 DEF ApplyResponseMissing
<1>12. ASSUME NEW o \in Operation, Reobserve(o) PROVE \A q \in Operation : Persists(q)
  BY <1>12 DEF Reobserve, Leave, Observes
<1>13. ASSUME NEW o \in Operation, Judge(o) PROVE \A q \in Operation : Persists(q)
  BY <1>13 DEF Judge
<1>14. ASSUME NEW o \in Operation, CheckAccepted(o) PROVE \A q \in Operation : Persists(q)
  BY <1>14 DEF CheckAccepted
<1>15. ASSUME NEW o \in Operation, CheckNotAccepted(o) PROVE \A q \in Operation : Persists(q)
  BY <1>15 DEF CheckNotAccepted
<1>16. ASSUME NEW o \in Operation, ObserveOwn(o) PROVE \A q \in Operation : Persists(q)
  BY <1>16 DEF ObserveOwn, Observes
<1>17. ASSUME NEW o \in Operation, RecoverIntent(o) PROVE \A q \in Operation : Persists(q)
  BY <1>17 DEF RecoverIntent
<1>18. ASSUME NEW o \in Operation, DispatchRecover(o) PROVE \A q \in Operation : Persists(q)
  BY <1>18 DEF DispatchRecover
<1>19. ASSUME NEW o \in Operation, RecoverResponse(o) PROVE \A q \in Operation : Persists(q)
  BY <1>19 DEF RecoverResponse
<1>20. ASSUME NEW o \in Operation, RecoverResponseMissing(o) PROVE \A q \in Operation : Persists(q)
  BY <1>20 DEF RecoverResponseMissing
<1>21. ASSUME NEW o \in Operation, Settle(o) PROVE \A q \in Operation : Persists(q)
  BY <1>21 DEF Settle, Observes
<1>22. ASSUME NEW o \in Operation, Cleanup(o) PROVE \A q \in Operation : Persists(q)
  <2>1. wpc[o] = "absent" /\ FilesObserve(o) = seen[o]
    BY <1>22 DEF Cleanup, Observes
  <2>2. /\ pc' = [pc EXCEPT ![o] = "complete"] /\ pc[o] = "cleanup"
        /\ UNCHANGED <<workerVars, durable, seen, prior>>
    BY <1>22 DEF Cleanup
  <2> QED
    BY <2>1, <2>2
<1>23. ASSUME NEW o \in Operation, Complete(o) PROVE \A q \in Operation : Persists(q)
  <2>1. pc[o] = "complete" /\ wpc[o] = "absent" /\ UNCHANGED <<workerVars, events, seen, prior>>
    BY <1>23 DEF Complete, CompleteAs
  <2>2. /\ pc' = [pc EXCEPT ![o] = "exit"] /\ state' = [state EXCEPT ![o] = seen[o]]
        /\ receipt' = [receipt EXCEPT ![o] = seen[o]] /\ bound' = [bound EXCEPT ![o] = o]
        /\ seen[o] \in Terminal
    BY <1>23 DEF Complete, CompleteAs
  <2>3. \A q \in Operation \ {o} : UNCHANGED <<pc[q], state[q], receipt[q], bound[q]>>
    BY <2>2
  <2>4. pc'[o] = "exit" /\ state'[o] \in Terminal /\ bound'[o] = o /\ state[o] \notin Terminal
    BY <2>1, <2>2
  <2>5. Persists(o)
    BY <2>1, <2>4
  <2>6. ASSUME NEW q \in Operation \ {o} PROVE Persists(q)
    BY <2>1, <2>3, <2>6
  <2> QED
    BY <2>5, <2>6
<1>24. ASSUME NEW o \in Operation, LegacyExit(o) PROVE \A q \in Operation : Persists(q)
  BY <1>24 DEF LegacyExit, Leave, Raise
<1>25. ASSUME NEW o \in Operation, Fails(o) PROVE \A q \in Operation : Persists(q)
  BY <1>25 DEF Fails, Raise
<1>26. ASSUME NEW o \in Operation, Abort(o) PROVE \A q \in Operation : Persists(q)
  BY <1>26 DEF Abort, Leave
<1>27. ASSUME NEW o \in Operation, AbortExit(o) PROVE \A q \in Operation : Persists(q)
  BY <1>27 DEF AbortExit, Leave
<1>28. ASSUME NEW o \in Operation, RegisterEffect(o) PROVE \A q \in Operation : Persists(q)
  BY <1>28 DEF RegisterEffect
<1>29. ASSUME NEW o \in Operation, AcceptByHuman(o) PROVE \A q \in Operation : Persists(q)
  BY <1>29 DEF AcceptByHuman
<1>30. ASSUME NEW o \in Operation, DriverCrash(o) PROVE \A q \in Operation : Persists(q)
  BY <1>30 DEF DriverCrash, Leave
<1>31. ASSUME NEW o \in Operation, OrphanExit(o) PROVE \A q \in Operation : Persists(q)
  BY <1>31 DEF OrphanExit
<1>32. ASSUME NEW o \in Operation, ApplyBegin(o), Work(o) PROVE \A q \in Operation : Persists(q)
  BY <1>32 DEF ApplyBegin, Work
<1>33. ASSUME NEW o \in Operation, ApplyFails(o), Work(o) PROVE \A q \in Operation : Persists(q)
  BY <1>33 DEF ApplyFails, Work
<1>34. ASSUME NEW o \in Operation, ApplyStopped(o), Work(o) PROVE \A q \in Operation : Persists(q)
  BY <1>34 DEF ApplyStopped, Work
<1>35. ASSUME NEW o \in Operation, ApplyReplace(o), Work(o) PROVE \A q \in Operation : Persists(q)
  BY <1>35 DEF ApplyReplace, Work
<1>36. ASSUME NEW o \in Operation, ApplyStarted(o), Work(o) PROVE \A q \in Operation : Persists(q)
  BY <1>36 DEF ApplyStarted, Work
<1>37. ASSUME NEW o \in Operation, Check(o), Work(o) PROVE \A q \in Operation : Persists(q)
  BY <1>37 DEF Check, Work
<1>38. ASSUME NEW o \in Operation, RecoverBegin(o), Work(o) PROVE \A q \in Operation : Persists(q)
  BY <1>38 DEF RecoverBegin, Work
<1>39. ASSUME NEW o \in Operation, RecoverStopped(o), Work(o) PROVE \A q \in Operation : Persists(q)
  BY <1>39 DEF RecoverStopped, Work
<1>40. ASSUME NEW o \in Operation, RecoverReverse(o), Work(o) PROVE \A q \in Operation : Persists(q)
  BY <1>40 DEF RecoverReverse, Work
<1>41. ASSUME NEW o \in Operation, RecoverStarted(o), Work(o) PROVE \A q \in Operation : Persists(q)
  BY <1>41 DEF RecoverStarted, Work
<1>42. ASSUME NEW o \in Operation, RecoverFails(o), Work(o) PROVE \A q \in Operation : Persists(q)
  BY <1>42 DEF RecoverFails, Work
<1>43. ASSUME NEW r \in exposed, Intrude(r) PROVE \A q \in Operation : Persists(q)
  BY <1>43 DEF Intrude, ForeignWrite
<1>44. CASE HostCrash
  BY <1>44 DEF HostCrash
<1>45. CASE LegacyLock
  BY <1>45 DEF LegacyLock
<1>46. CASE LegacyBind
  BY <1>46 DEF LegacyBind
<1>47. CASE LegacyUnlock
  BY <1>47 DEF LegacyUnlock
<1>49. ASSUME NEW o \in Operation, RecoverCompare(o), Work(o) PROVE \A q \in Operation : Persists(q)
  BY <1>49 DEF RecoverCompare, Work
<1>48. CASE UNCHANGED vars
  BY <1>48 DEF vars
<1> HIDE DEF Persists
<1> QED
  BY <1>1, <1>2, <1>3, <1>4, <1>5, <1>6, <1>7, <1>8, <1>9, <1>10, <1>11, <1>12, <1>13, <1>14,
     <1>15, <1>16, <1>17, <1>18, <1>19, <1>20, <1>21, <1>22, <1>23, <1>24, <1>25, <1>26, <1>27,
     <1>28, <1>29, <1>30, <1>31, <1>32, <1>33, <1>34, <1>35, <1>36, <1>37, <1>38, <1>39, <1>40,
     <1>41, <1>42, <1>43, <1>44, <1>45, <1>46, <1>47, <1>48, <1>49 DEF Next, Drive, Work, WorkerNext

(* What an accepted operation published and who was overridden stays so. *)
Kept == \A q \in Operation : (Native(q) => Native(q)') /\ (Overridden(q) => Overridden(q)')

\* An end is never taken back.
LEMMA KeptStep ==
  ASSUME TerminalKept, \A q \in Operation : Persists(q)
  PROVE  Kept
BY DEF TerminalKept, Persists, Continues, Ended, Kept, Native, Overridden, Dispatches, Has, Terminal

\* An acceptance stored with the worker that published its effect.
LEMMA Recorded ==
  ASSUME TypeOK, ReuseIndexSound, Kept, NEW o \in Operation, NEW w \in Operation,
         \A g \in Signature : completions[g] # NoEntry =>
           completions[g].operation \in Operation /\ completions[g].worker \in Operation,
         \A e \in Effect : acceptedEffects[e] # NoEntry => acceptedEffects[e].worker \in Operation,
         Native(w)', effect[w] = effect[o],
         receipt' = [receipt EXCEPT ![o] = "accepted"], acceptedEffects' = acceptedEffects,
         completions' = [completions EXCEPT ![signature[o]] = [operation |-> o, worker |-> w]]
  PROVE  ReuseIndexSound'
<1>1. completions'[signature[o]].operation = o /\ completions'[signature[o]].worker = w
  BY DEF TypeOK
<1>2. \A g \in Signature : g # signature[o] => completions'[g] = completions[g]
  BY DEF TypeOK
<1>3. completions'[signature[o]] # NoEntry
  BY <1>1 DEF NoEntry
<1>4. \A g \in Signature : completions'[g] # NoEntry =>
         /\ signature[completions'[g].operation] = g /\ Native(completions[g].worker)'
         /\ effect[completions'[g].worker] = effect[completions'[g].operation]
  <2> SUFFICES ASSUME NEW g \in Signature, completions'[g] # NoEntry
               PROVE  /\ signature[completions'[g].operation] = g /\ Native(completions[g].worker)'
                      /\ effect[completions'[g].worker] = effect[completions'[g].operation]
    OBVIOUS
  <2>1. CASE g = signature[o]
    BY <2>1, <1>1 DEF Native, Dispatches, Has
  <2>2. CASE g # signature[o]
    BY <2>2, <1>2 DEF ReuseIndexSound, Kept, Native, Dispatches, Has
  <2> QED
    BY <2>1, <2>2
<1>5. \A e \in Effect : acceptedEffects'[e] # NoEntry =>
         Native(acceptedEffects[e].worker)' /\ effect[acceptedEffects'[e].worker] = e
  BY DEF ReuseIndexSound, Kept, Native, Dispatches, Has
<1>6. \A q \in Operation : receipt'[q] = "accepted" => completions'[signature[q]] # NoEntry
  BY <1>2, <1>3 DEF ReuseIndexSound, TypeOK
<1> QED
  BY <1>4, <1>5, <1>6 DEF ReuseIndexSound

(* A stored receipt binds the worker that published its effect. *)
LEMMA NamesStep ==
  ASSUME TypeOK, IndexShape, DriverShape, CarryShape, PlainShape, ReuseIndexSound, Kept, [Next]_vars
  PROVE  ReuseIndexSound'
<1>0. /\ \A g \in Signature : completions[g] # NoEntry =>
           completions[g].operation \in Operation /\ completions[g].worker \in Operation
      /\ \A e \in Effect : acceptedEffects[e] # NoEntry => acceptedEffects[e].worker \in Operation
  BY DEF TypeOK, Entry, IndexShape
<1>a. ASSUME UNCHANGED <<completions, acceptedEffects, receipt>> PROVE ReuseIndexSound'
  BY <1>0, <1>a DEF ReuseIndexSound, Kept
<1> USE DEF TypeOK
<1>1. ASSUME NEW o \in Operation, Claim(o) PROVE ReuseIndexSound'
  BY <1>a, <1>1 DEF Claim, Active
<1>2. ASSUME NEW o \in Operation, TerminalObserve(o) PROVE ReuseIndexSound'
  BY <1>a, <1>2 DEF TerminalObserve, Leave
<1>3. ASSUME NEW o \in Operation, TerminalExit(o) PROVE ReuseIndexSound'
  BY <1>a, <1>3 DEF TerminalExit, Leave
<1>4. ASSUME NEW o \in Operation, LegacyEnter(o) PROVE ReuseIndexSound'
  BY <1>a, <1>4 DEF LegacyEnter, Raise
<1>5. ASSUME NEW o \in Operation, LookUpPrior(o) PROVE ReuseIndexSound'
  BY <1>a, <1>5 DEF LookUpPrior, Prior, Observes
<1>6. ASSUME NEW o \in Operation, CompleteReuse(o) PROVE ReuseIndexSound'
  <2>1. prior[o] \in Operation /\ Native(prior[o]) /\ effect[prior[o]] = effect[o]
    BY <1>6 DEF CompleteReuse, CarryShape, DriverShape, DriverTypeOK
  <2>2. Native(prior[o])'
    BY <2>1, <1>6 DEF Kept, CompleteReuse
  <2>3. /\ receipt' = [receipt EXCEPT ![o] = "accepted"] /\ acceptedEffects' = acceptedEffects
        /\ completions' = [completions EXCEPT ![signature[o]] = [operation |-> o, worker |-> prior[o]]]
    BY <1>6 DEF CompleteReuse, CompleteAs
  <2> QED
    BY <2>1, <2>2, <2>3, <1>0, Recorded DEF Kept
<1>7. ASSUME NEW o \in Operation, ObserveFirst(o) PROVE ReuseIndexSound'
  BY <1>a, <1>7 DEF ObserveFirst, Leave, Observes
<1>8. ASSUME NEW o \in Operation, ApplyIntent(o) PROVE ReuseIndexSound'
  BY <1>a, <1>8 DEF ApplyIntent
<1>9. ASSUME NEW o \in Operation, DispatchApply(o) PROVE ReuseIndexSound'
  BY <1>a, <1>9 DEF DispatchApply
<1>10. ASSUME NEW o \in Operation, ApplyResponse(o) PROVE ReuseIndexSound'
  BY <1>a, <1>10 DEF ApplyResponse
<1>11. ASSUME NEW o \in Operation, ApplyResponseMissing(o) PROVE ReuseIndexSound'
  BY <1>a, <1>11 DEF ApplyResponseMissing
<1>12. ASSUME NEW o \in Operation, Reobserve(o) PROVE ReuseIndexSound'
  BY <1>a, <1>12 DEF Reobserve, Leave, Observes
<1>13. ASSUME NEW o \in Operation, Judge(o) PROVE ReuseIndexSound'
  BY <1>a, <1>13 DEF Judge
<1>14. ASSUME NEW o \in Operation, CheckAccepted(o) PROVE ReuseIndexSound'
  BY <1>a, <1>14 DEF CheckAccepted
<1>15. ASSUME NEW o \in Operation, CheckNotAccepted(o) PROVE ReuseIndexSound'
  BY <1>a, <1>15 DEF CheckNotAccepted
<1>16. ASSUME NEW o \in Operation, ObserveOwn(o) PROVE ReuseIndexSound'
  BY <1>a, <1>16 DEF ObserveOwn, Observes
<1>17. ASSUME NEW o \in Operation, RecoverIntent(o) PROVE ReuseIndexSound'
  BY <1>a, <1>17 DEF RecoverIntent
<1>18. ASSUME NEW o \in Operation, DispatchRecover(o) PROVE ReuseIndexSound'
  BY <1>a, <1>18 DEF DispatchRecover
<1>19. ASSUME NEW o \in Operation, RecoverResponse(o) PROVE ReuseIndexSound'
  BY <1>a, <1>19 DEF RecoverResponse
<1>20. ASSUME NEW o \in Operation, RecoverResponseMissing(o) PROVE ReuseIndexSound'
  BY <1>a, <1>20 DEF RecoverResponseMissing
<1>21. ASSUME NEW o \in Operation, Settle(o) PROVE ReuseIndexSound'
  BY <1>a, <1>21 DEF Settle, Observes
<1>22. ASSUME NEW o \in Operation, Cleanup(o) PROVE ReuseIndexSound'
  BY <1>a, <1>22 DEF Cleanup, Observes
<1>23. ASSUME NEW o \in Operation, Complete(o) PROVE ReuseIndexSound'
  <2>1. CASE seen[o] = "accepted"
    <3>1. Native(o)'
      BY <1>23, <2>1 DEF Complete, CompleteAs, Native, Dispatches, Has, PlainShape, Finishing
    <3>2. /\ receipt' = [receipt EXCEPT ![o] = "accepted"] /\ acceptedEffects' = acceptedEffects
          /\ completions' = [completions EXCEPT ![signature[o]] = [operation |-> o, worker |-> o]]
      BY <1>23, <2>1 DEF Complete, CompleteAs
    <3> QED
      BY <3>1, <3>2, <1>0, Recorded DEF Kept
  <2>2. CASE seen[o] # "accepted"
    <3>1. /\ receipt' = [receipt EXCEPT ![o] = seen[o]]
          /\ completions' = completions /\ acceptedEffects' = acceptedEffects
      BY <1>23, <2>2 DEF Complete, CompleteAs
    <3> QED
      BY <2>2, <3>1, <1>0 DEF ReuseIndexSound, Kept
  <2> QED
    BY <2>1, <2>2
<1>24. ASSUME NEW o \in Operation, LegacyExit(o) PROVE ReuseIndexSound'
  BY <1>a, <1>24 DEF LegacyExit, Leave, Raise
<1>25. ASSUME NEW o \in Operation, Fails(o) PROVE ReuseIndexSound'
  BY <1>a, <1>25 DEF Fails, Raise
<1>26. ASSUME NEW o \in Operation, Abort(o) PROVE ReuseIndexSound'
  BY <1>a, <1>26 DEF Abort, Leave
<1>27. ASSUME NEW o \in Operation, AbortExit(o) PROVE ReuseIndexSound'
  BY <1>a, <1>27 DEF AbortExit, Leave
<1>28. ASSUME NEW o \in Operation, RegisterEffect(o) PROVE ReuseIndexSound'
  <2>1. /\ completions[signature[o]] # NoEntry /\ completions[signature[o]].operation = o
        /\ completions' = completions /\ receipt' = receipt
        /\ acceptedEffects' = [acceptedEffects EXCEPT ![effect[o]] = completions[signature[o]]]
    BY <1>28 DEF RegisterEffect, NoEntry
  <2> QED
    BY <2>1, <1>0 DEF ReuseIndexSound, Kept
<1>29. ASSUME NEW o \in Operation, AcceptByHuman(o) PROVE ReuseIndexSound'
  BY <1>a, <1>29 DEF AcceptByHuman
<1>30. ASSUME NEW o \in Operation, DriverCrash(o) PROVE ReuseIndexSound'
  BY <1>a, <1>30 DEF DriverCrash, Leave
<1>31. ASSUME NEW o \in Operation, OrphanExit(o) PROVE ReuseIndexSound'
  BY <1>a, <1>31 DEF OrphanExit
<1>32. ASSUME NEW o \in Operation, ApplyBegin(o), Work(o) PROVE ReuseIndexSound'
  BY <1>a, <1>32 DEF ApplyBegin, Work
<1>33. ASSUME NEW o \in Operation, ApplyFails(o), Work(o) PROVE ReuseIndexSound'
  BY <1>a, <1>33 DEF ApplyFails, Work
<1>34. ASSUME NEW o \in Operation, ApplyStopped(o), Work(o) PROVE ReuseIndexSound'
  BY <1>a, <1>34 DEF ApplyStopped, Work
<1>35. ASSUME NEW o \in Operation, ApplyReplace(o), Work(o) PROVE ReuseIndexSound'
  BY <1>a, <1>35 DEF ApplyReplace, Work
<1>36. ASSUME NEW o \in Operation, ApplyStarted(o), Work(o) PROVE ReuseIndexSound'
  BY <1>a, <1>36 DEF ApplyStarted, Work
<1>37. ASSUME NEW o \in Operation, Check(o), Work(o) PROVE ReuseIndexSound'
  BY <1>a, <1>37 DEF Check, Work
<1>38. ASSUME NEW o \in Operation, RecoverBegin(o), Work(o) PROVE ReuseIndexSound'
  BY <1>a, <1>38 DEF RecoverBegin, Work
<1>39. ASSUME NEW o \in Operation, RecoverStopped(o), Work(o) PROVE ReuseIndexSound'
  BY <1>a, <1>39 DEF RecoverStopped, Work
<1>40. ASSUME NEW o \in Operation, RecoverReverse(o), Work(o) PROVE ReuseIndexSound'
  BY <1>a, <1>40 DEF RecoverReverse, Work
<1>41. ASSUME NEW o \in Operation, RecoverStarted(o), Work(o) PROVE ReuseIndexSound'
  BY <1>a, <1>41 DEF RecoverStarted, Work
<1>42. ASSUME NEW o \in Operation, RecoverFails(o), Work(o) PROVE ReuseIndexSound'
  BY <1>a, <1>42 DEF RecoverFails, Work
<1>43. ASSUME NEW r \in exposed, Intrude(r) PROVE ReuseIndexSound'
  BY <1>a, <1>43 DEF Intrude, ForeignWrite
<1>44. CASE HostCrash
  BY <1>a, <1>44 DEF HostCrash
<1>45. CASE LegacyLock
  BY <1>a, <1>45 DEF LegacyLock
<1>46. CASE LegacyBind
  BY <1>a, <1>46 DEF LegacyBind
<1>47. CASE LegacyUnlock
  BY <1>a, <1>47 DEF LegacyUnlock
<1>49. ASSUME NEW o \in Operation, RecoverCompare(o), Work(o) PROVE ReuseIndexSound'
  BY <1>a, <1>49 DEF RecoverCompare, Work
<1>48. CASE UNCHANGED vars
  BY <1>a, <1>48 DEF vars
<1> QED
  BY <1>1, <1>2, <1>3, <1>4, <1>5, <1>6, <1>7, <1>8, <1>9, <1>10, <1>11, <1>12, <1>13, <1>14,
     <1>15, <1>16, <1>17, <1>18, <1>19, <1>20, <1>21, <1>22, <1>23, <1>24, <1>25, <1>26, <1>27,
     <1>28, <1>29, <1>30, <1>31, <1>32, <1>33, <1>34, <1>35, <1>36, <1>37, <1>38, <1>39, <1>40,
     <1>41, <1>42, <1>43, <1>44, <1>45, <1>46, <1>47, <1>48, <1>49 DEF Next, Drive, Work, WorkerNext

(* A worker keeps to its targets, a driver to the order of its steps. *)
LEMMA PlainStep ==
  ASSUME TypeOK, DriverShape, OnceShape, PlainShape, [Next]_vars
  PROVE  PlainShape'
<1> USE DEF TypeOK, WorkerTypeOK, VisitTypeOK, DriverTypeOK, DriverShape, OnceShape, PlainShape, Resolved, Dispatches, Has, Terminal, Finishing,
            Dispatched, InTry, Preflight, WorkerAbsent
<1>1. ASSUME NEW o \in Operation, Claim(o) PROVE PlainShape'
  BY <1>1 DEF Claim, Active
<1>2. ASSUME NEW o \in Operation, TerminalObserve(o) PROVE PlainShape'
  BY <1>2 DEF TerminalObserve, Leave
<1>3. ASSUME NEW o \in Operation, TerminalExit(o) PROVE PlainShape'
  BY <1>3 DEF TerminalExit, Leave
<1>4. ASSUME NEW o \in Operation, LegacyEnter(o) PROVE PlainShape'
  BY <1>4 DEF LegacyEnter, Raise
<1>5. ASSUME NEW o \in Operation, LookUpPrior(o) PROVE PlainShape'
  BY <1>5 DEF LookUpPrior
<1>6. ASSUME NEW o \in Operation, CompleteReuse(o) PROVE PlainShape'
  BY <1>6 DEF CompleteReuse, CompleteAs
<1>7. ASSUME NEW o \in Operation, ObserveFirst(o) PROVE PlainShape'
  BY <1>7 DEF ObserveFirst, Leave, Observes
<1>8. ASSUME NEW o \in Operation, ApplyIntent(o) PROVE PlainShape'
  BY <1>8 DEF ApplyIntent
<1>9. ASSUME NEW o \in Operation, DispatchApply(o) PROVE PlainShape'
  BY <1>9 DEF DispatchApply
<1>10. ASSUME NEW o \in Operation, ApplyResponse(o) PROVE PlainShape'
  BY <1>10 DEF ApplyResponse
<1>11. ASSUME NEW o \in Operation, ApplyResponseMissing(o) PROVE PlainShape'
  BY <1>11 DEF ApplyResponseMissing
<1>12. ASSUME NEW o \in Operation, Reobserve(o) PROVE PlainShape'
  BY <1>12 DEF Reobserve, Leave, Observes
<1>13. ASSUME NEW o \in Operation, Judge(o) PROVE PlainShape'
  BY <1>13 DEF Judge
<1>14. ASSUME NEW o \in Operation, CheckAccepted(o) PROVE PlainShape'
  BY <1>14 DEF CheckAccepted
<1>15. ASSUME NEW o \in Operation, CheckNotAccepted(o) PROVE PlainShape'
  BY <1>15 DEF CheckNotAccepted
<1>16. ASSUME NEW o \in Operation, ObserveOwn(o) PROVE PlainShape'
  BY <1>16 DEF ObserveOwn, Observes
<1>17. ASSUME NEW o \in Operation, RecoverIntent(o) PROVE PlainShape'
  BY <1>17 DEF RecoverIntent
<1>18. ASSUME NEW o \in Operation, DispatchRecover(o) PROVE PlainShape'
  BY <1>18 DEF DispatchRecover
<1>19. ASSUME NEW o \in Operation, RecoverResponse(o) PROVE PlainShape'
  BY <1>19 DEF RecoverResponse
<1>20. ASSUME NEW o \in Operation, RecoverResponseMissing(o) PROVE PlainShape'
  BY <1>20 DEF RecoverResponseMissing
<1>21. ASSUME NEW o \in Operation, Settle(o) PROVE PlainShape'
  BY <1>21 DEF Settle, Observes
<1>22. ASSUME NEW o \in Operation, Cleanup(o) PROVE PlainShape'
  BY <1>22 DEF Cleanup, Observes
<1>23. ASSUME NEW o \in Operation, Complete(o) PROVE PlainShape'
  BY <1>23 DEF Complete, CompleteAs
<1>24. ASSUME NEW o \in Operation, LegacyExit(o) PROVE PlainShape'
  BY <1>24 DEF LegacyExit, Leave, Raise
<1>25. ASSUME NEW o \in Operation, Fails(o) PROVE PlainShape'
  BY <1>25 DEF Fails, Raise
<1>26. ASSUME NEW o \in Operation, Abort(o) PROVE PlainShape'
  BY <1>26 DEF Abort, Leave
<1>27. ASSUME NEW o \in Operation, AbortExit(o) PROVE PlainShape'
  BY <1>27 DEF AbortExit, Leave
<1>28. ASSUME NEW o \in Operation, RegisterEffect(o) PROVE PlainShape'
  BY <1>28 DEF RegisterEffect
<1>29. ASSUME NEW o \in Operation, AcceptByHuman(o) PROVE PlainShape'
  BY <1>29 DEF AcceptByHuman
<1>30. ASSUME NEW o \in Operation, DriverCrash(o) PROVE PlainShape'
  BY <1>30 DEF DriverCrash, Leave
<1>31. ASSUME NEW o \in Operation, OrphanExit(o) PROVE PlainShape'
  BY <1>31 DEF OrphanExit
<1>32. ASSUME NEW o \in Operation, ApplyBegin(o), Work(o) PROVE PlainShape'
  <2>1. UNCHANGED <<durable, pc>>
    BY <1>32 DEF Work
  <2>2. UNCHANGED visit \/ Ends(o, "raised")
    BY <1>32 DEF ApplyBegin
  <2>3. \A q \in Operation : left'[q] \subseteq targets[q] /\ compared'[q] \subseteq targets[q]
    BY <2>2
  <2> QED
    BY <2>1, <2>3
<1>33. ASSUME NEW o \in Operation, ApplyFails(o), Work(o) PROVE PlainShape'
  BY <1>33 DEF ApplyFails, Work
<1>34. ASSUME NEW o \in Operation, ApplyStopped(o), Work(o) PROVE PlainShape'
  BY <1>34 DEF ApplyStopped, Work
<1>35. ASSUME NEW o \in Operation, ApplyReplace(o), Work(o) PROVE PlainShape'
  BY <1>35 DEF ApplyReplace, Work
<1>36. ASSUME NEW o \in Operation, ApplyStarted(o), Work(o) PROVE PlainShape'
  BY <1>36 DEF ApplyStarted, Work
<1>37. ASSUME NEW o \in Operation, Check(o), Work(o) PROVE PlainShape'
  BY <1>37 DEF Check, Work
<1>38. ASSUME NEW o \in Operation, RecoverBegin(o), Work(o) PROVE PlainShape'
  <2>1. UNCHANGED <<durable, pc>>
    BY <1>38 DEF Work
  <2>2. UNCHANGED visit \/ Ends(o, "raised")
    BY <1>38 DEF RecoverBegin
  <2>3. \A q \in Operation : left'[q] \subseteq targets[q] /\ compared'[q] \subseteq targets[q]
    BY <2>2
  <2> QED
    BY <2>1, <2>3
<1>39. ASSUME NEW o \in Operation, RecoverStopped(o), Work(o) PROVE PlainShape'
  BY <1>39 DEF RecoverStopped, Work
<1>40. ASSUME NEW o \in Operation, RecoverReverse(o), Work(o) PROVE PlainShape'
  BY <1>40 DEF RecoverReverse, Work
<1>41. ASSUME NEW o \in Operation, RecoverStarted(o), Work(o) PROVE PlainShape'
  BY <1>41 DEF RecoverStarted, Work
<1>42. ASSUME NEW o \in Operation, RecoverFails(o), Work(o) PROVE PlainShape'
  BY <1>42 DEF RecoverFails, Work
<1>43. ASSUME NEW r \in exposed, Intrude(r) PROVE PlainShape'
  BY <1>43 DEF Intrude, ForeignWrite
<1>44. CASE HostCrash
  BY <1>44 DEF HostCrash
<1>45. CASE LegacyLock
  BY <1>45 DEF LegacyLock
<1>46. CASE LegacyBind
  BY <1>46 DEF LegacyBind
<1>47. CASE LegacyUnlock
  BY <1>47 DEF LegacyUnlock
<1>49. ASSUME NEW o \in Operation, RecoverCompare(o), Work(o) PROVE PlainShape'
  BY <1>49 DEF RecoverCompare, Work
<1>48. CASE UNCHANGED vars
  BY <1>48 DEF vars
<1> QED
  BY <1>1, <1>2, <1>3, <1>4, <1>5, <1>6, <1>7, <1>8, <1>9, <1>10, <1>11, <1>12, <1>13, <1>14,
     <1>15, <1>16, <1>17, <1>18, <1>19, <1>20, <1>21, <1>22, <1>23, <1>24, <1>25, <1>26, <1>27,
     <1>28, <1>29, <1>30, <1>31, <1>32, <1>33, <1>34, <1>35, <1>36, <1>37, <1>38, <1>39, <1>40,
     <1>41, <1>42, <1>43, <1>44, <1>45, <1>46, <1>47, <1>48, <1>49 DEF Next, Drive, Work, WorkerNext

\* The entry a driver finds was stored for its own effect.
LEMMA PriorNative ==
  ASSUME TypeOK, IndexShape, ReuseIndexSound, NEW o \in Operation, Prior(o).operation # None
  PROVE  /\ Prior(o).worker \in Operation /\ Native(Prior(o).worker)
         /\ effect[Prior(o).worker] = effect[o]
<1>1. CASE completions[signature[o]] # NoEntry
  <2>1. /\ completions[signature[o]].operation \in Operation
        /\ completions[signature[o]].worker \in Operation
    BY <1>1 DEF TypeOK, Entry, IndexShape
  <2> QED
    BY <1>1, <2>1 DEF Prior, ReuseIndexSound
<1>2. CASE completions[signature[o]] = NoEntry
  <2>1. acceptedEffects[effect[o]] # NoEntry
    BY <1>2 DEF Prior, NoEntry
  <2>2. acceptedEffects[effect[o]].worker \in Operation
    BY <2>1 DEF TypeOK, Entry, IndexShape
  <2> QED
    BY <1>2, <2>1, <2>2 DEF Prior, ReuseIndexSound
<1> QED
  BY <1>1, <1>2

\* A driver's prior stays the worker it was.
LEMMA KeptPrior ==
  ASSUME Kept, NEW o \in Operation, NEW w \in Operation, Native(w), prior'[o] = w
  PROVE  Native(prior[o])'
BY DEF Kept, Native, Dispatches, Has

(* Whoever completes an operation from a receipt rests on its publisher. *)
LEMMA CarryStep ==
  ASSUME TypeOK, DriverShape, OnceShape, IndexShape, CarryShape, ReuseIndexSound, Kept,
         \A q \in Operation : Persists(q)
  PROVE  CarryShape'
<1> SUFFICES ASSUME NEW o \in Operation
             PROVE  /\ state'[o] \in Terminal /\ wpc'[o] # "absent" => Overridden(o)'
                    /\ pc'[o] = "reuse" => Native(prior[o])' /\ effect[prior'[o]] = effect[o]
                    /\ bound'[o] # None => effect[bound'[o]] = effect[o]
  BY DEF CarryShape
<1>1. pc[o] = "reuse" => /\ prior[o] \in Operation \ {o} /\ Native(prior[o])
                         /\ effect[prior[o]] = effect[o]
  BY DEF CarryShape, DriverShape, TypeOK, DriverTypeOK, InTry, Preflight, Native, Terminal
<1>2. ASSUME state'[o] \in Terminal, wpc'[o] # "absent" PROVE Overridden(o)'
  <2>1. wpc[o] # "absent" /\ Dispatches(o) /\ Dispatches(o)'
    BY <1>2 DEF Persists, Ended, Continues, OnceShape, Dispatches, Has
  <2>2. CASE state[o] \in Terminal
    BY <2>1, <2>2 DEF CarryShape, Kept
  <2>3. CASE pc[o] = "reuse" /\ state'[o] = "accepted" /\ bound'[o] = prior[o]
    BY <2>1, <2>3, <1>1 DEF Overridden
  <2> QED
    BY <1>2, <2>2, <2>3 DEF Persists, Ended
<1>3. ASSUME pc'[o] = "reuse" PROVE Native(prior[o])' /\ effect[prior'[o]] = effect[o]
  <2>1. CASE pc[o] = "reuse" /\ prior'[o] = prior[o]
    BY <2>1, <1>1, KeptPrior
  <2>2. CASE Prior(o).operation # None /\ prior'[o] = Prior(o).worker
    <3>1. /\ Prior(o).worker \in Operation /\ Native(Prior(o).worker)
          /\ effect[Prior(o).worker] = effect[o]
      BY <2>2, PriorNative
    <3> QED
      BY <2>2, <3>1, KeptPrior
  <2> QED
    BY <1>3, <2>1, <2>2 DEF Persists, Carries
<1>4. ASSUME bound'[o] # None PROVE effect[bound'[o]] = effect[o]
  BY <1>1, <1>4 DEF Persists, Ended, CarryShape
<1> QED
  BY <1>2, <1>3, <1>4

(* Where an operation at work may find another's artifact. *)
Overlaid(o, r) ==
  \E p \in Operation \ {o} :
    /\ r \in targets[p]
    /\ Overridden(p) \/ (Scoped /\ (Retryable(o) \/ Retryable(p)))

Guarded(o) ==
  \A r \in targets[o] \ exposed :
    content[r] \in {before[o], after[o]} \/ Overlaid(o, r)

(* What the worker w answered, v, and the targets of o, are still so. *)
Current(o, w, v) ==
  \/ FilesObserve(w) = v
  \/ targets[o] \cap exposed # {}
  \/ \E r \in targets[o] : Overlaid(o, r)

AtWork(o) == Open(o) \/ pc[o] \in {"reuse", "intend", "complete"}

(* What an operation at work, and one about to complete, has around it. *)
OwnShape ==
  \A o \in Operation :
    /\ Open(o) \/ pc[o] = "intend" => Guarded(o)
    /\ pc[o] = "complete" => Current(o, o, seen[o])
    /\ pc[o] = "reuse" => Dispatches(o) \/ Current(o, prior[o], "accepted")

OInv == ReuseIndexSound /\ PlainShape /\ CarryShape /\ OwnShape

(* A worker that shares a target with an operation at work was overridden, *)
(* or runs where one of the two gave its reservation up.                   *)
LEMMA Excluded ==
  ASSUME IInv, PlainShape, CarryShape,
         NEW o \in Operation, NEW p \in Operation \ {o}, NEW r \in targets[o] \cap targets[p],
         AtWork(o), wpc[p] # "absent"
  PROVE  Overlaid(o, r)
<1> SUFFICES ASSUME ~Overridden(p)
             PROVE  Overlaid(o, r)
  BY DEF Overlaid
<1>1. Open(p) /\ TypeOK
  BY DEF IInv, OnceShape, CarryShape, Open
<1>2. Scoped
  <2>1. ~Scoped => p \in registry /\ \A x, y \in registry : x = y
    BY <1>1 DEF IInv, BridgeShape
  <2>2. ~Scoped => o \in registry
    BY DEF IInv, BridgeShape, AtWork, InTry, Preflight, Finishing
  <2> QED
    BY <2>1, <2>2
<1>3. ASSUME NEW q \in Operation, AtWork(q) PROVE Active(q) \/ Retryable(q)
  <2>1. CASE Open(q)
    BY <2>1, <1>1 DEF Open, Dispatches, Has, Retryable, Active, PlainShape, IInv, ReservationShape,
              TypeOK, State, Terminal
  <2>2. CASE pc[q] \in {"reuse", "intend", "complete"}
    BY <2>2 DEF IInv, ReservationShape, InTry, Preflight, Finishing
  <2> QED
    BY <1>3, <2>1, <2>2 DEF AtWork
<1>4. Active(o) \/ Retryable(o)
  BY <1>3
<1>5. Active(p) \/ Retryable(p)
  BY <1>1, <1>3 DEF AtWork
<1>6. Conflict(o, p)
  BY DEF Conflict
<1>7. Retryable(o) \/ Retryable(p)
  BY <1>4, <1>5, <1>6 DEF IInv, ExclusiveReservation
<1> QED
  BY <1>2, <1>7 DEF Overlaid

(* A target of an operation at work that changes is written by its own     *)
(* worker, or by one that was overridden or gave its reservation up.       *)
LEMMA WrittenBy ==
  ASSUME IInv, PlainShape, CarryShape, Writers,
         NEW o \in Operation, AtWork(o), NEW r \in targets[o] \ exposed,
         content'[r] # content[r]
  PROVE  \/ wpc[o] # "absent" /\ content'[r] \in {before[o], after[o]}
         \/ Overlaid(o, r)
<1>1. PICK p \in Operation : /\ wpc[p] \in {"replace", "reverse"} /\ r \in left[p] \cup compared[p]
                             /\ content'[r] \in {before[p], after[p]}
  BY DEF Writers, IInv, TypeOK, WorkerTypeOK
<1>2. CASE p = o
  BY <1>1, <1>2
<1>3. CASE p # o
  <2>1. r \in targets[p]
    BY <1>1 DEF PlainShape
  <2> QED
    BY <1>1, <1>3, <2>1, Excluded
<1> QED
  BY <1>2, <1>3

(* Neither an overridden operation nor a given reservation is taken back. *)
LEMMA OverlaidKept ==
  ASSUME Kept, \A q \in Operation : Persists(q), NEW o \in Operation, NEW r, Overlaid(o, r)
  PROVE  Overlaid(o, r)'
BY DEF Overlaid, Retryable, Has, Persists, Continues, Kept

(* The files of an operation look the same while nothing it looks at moves. *)
LEMMA SameView ==
  ASSUME NEW o \in Operation, \A r \in targets[o] : content'[r] = content[r],
         stateJson'[o] = stateJson[o], recoverOnce'[o] = recoverOnce[o]
  PROVE  FilesObserve(o)' = FilesObserve(o)
<1>1. (\E r \in targets[o] : content[r] \notin {before[o], after[o]})'
        <=> \E r \in targets[o] : content[r] \notin {before[o], after[o]}
  OBVIOUS
<1>2. (AllAre(o, after[o])' <=> AllAre(o, after[o])) /\ (AllAre(o, before[o])' <=> AllAre(o, before[o]))
  BY DEF AllAre
<1> QED
  BY <1>1, <1>2 DEF FilesObserve

(* What was observed of a worker that is gone, about targets an operation  *)
(* at work holds, goes on holding.                                         *)
LEMMA CurrentKept ==
  ASSUME IInv, PlainShape, CarryShape, Writers, Kept, \A q \in Operation : Persists(q),
         NEW o \in Operation, AtWork(o), wpc[o] = "absent",
         NEW w \in Operation, wpc[w] = "absent", targets[w] = targets[o],
         NEW v, Current(o, w, v)
  PROVE  \/ FilesObserve(w)' = v
         \/ targets[o] \cap exposed # {}
         \/ \E r \in targets[o] : Overlaid(o, r)'
<1>1. CASE \E r \in targets[o] : Overlaid(o, r)
  BY <1>1, OverlaidKept
<1>2. CASE FilesObserve(w) = v /\ targets[o] \cap exposed = {}
  <2>1. stateJson'[w] = stateJson[w] /\ recoverOnce'[w] = recoverOnce[w]
    BY DEF Persists, Continues
  <2>2. CASE \A r \in targets[o] : content'[r] = content[r]
    BY <1>2, <2>1, <2>2, SameView
  <2>3. ASSUME NEW r \in targets[o], content'[r] # content[r] PROVE Overlaid(o, r)'
    <3>1. Overlaid(o, r)
      BY <1>2, <2>3, WrittenBy
    <3> QED
      BY <3>1, OverlaidKept
  <2> QED
    BY <2>2, <2>3
<1> QED
  BY <1>1, <1>2 DEF Current

(* No step of another takes from an operation at work what it rests on. *)
LEMMA OwnStep ==
  ASSUME IInv, IInv', PlainShape, CarryShape, OwnShape, Writers, Kept,
         \A q \in Operation : Persists(q)
  PROVE  OwnShape'
<1>2. ASSUME NEW o \in Operation, Open(o)' \/ pc'[o] = "intend" PROVE Guarded(o)'
  <2> SUFFICES ASSUME NEW r \in targets[o] \ exposed
               PROVE  content'[r] \in {before[o], after[o]} \/ Overlaid(o, r)'
    BY DEF Guarded
  <2>1. CASE Open(o) \/ pc[o] = "intend"
    <3>1. CASE content'[r] = content[r]
      BY <2>1, <3>1, OverlaidKept DEF OwnShape, Guarded
    <3>2. CASE content'[r] # content[r]
      BY <2>1, <3>2, WrittenBy, OverlaidKept DEF AtWork
    <3> QED
      BY <3>1, <3>2
  <2>2. CASE AllAre(o, before[o]) /\ content' = content
    BY <2>2 DEF AllAre
  <2> QED
    BY <1>2, <2>1, <2>2 DEF Persists, Continues
<1>3. ASSUME NEW o \in Operation, pc'[o] = "complete" PROVE Current(o, o, seen[o])'
  <2>0. seen'[o] = seen[o]
    BY <1>3 DEF Persists, Continues
  <2>1. CASE FilesObserve(o) = seen[o] /\ UNCHANGED <<content, journal>>
    <3>1. FilesObserve(o)' = FilesObserve(o)
      BY <2>1, SameView DEF journal
    <3> QED
      BY <2>0, <2>1, <3>1 DEF Current
  <2>2. CASE pc[o] = "complete"
    <3>1. wpc[o] = "absent" /\ AtWork(o)
      BY <2>2 DEF IInv, OnceShape, WorkerAbsent, AtWork
    <3>2. Current(o, o, seen[o])
      BY <2>2 DEF OwnShape
    <3>3. \/ FilesObserve(o)' = seen[o]
          \/ targets[o] \cap exposed # {}
          \/ \E r \in targets[o] : Overlaid(o, r)'
      BY <3>1, <3>2, CurrentKept
    <3> QED
      BY <2>0, <3>3 DEF Current
  <2> QED
    BY <1>3, <2>1, <2>2 DEF Persists, Continues
<1>4. ASSUME NEW o \in Operation, pc'[o] = "reuse", ~Dispatches(o)'
      PROVE  Current(o, prior[o], "accepted")'
  <2>0. ~Dispatches(o)
    BY <1>4 DEF Persists, Continues, Dispatches, Has
  <2>1. CASE /\ FilesObserve(prior'[o]) = "accepted" /\ prior'[o] \in Operation
             /\ UNCHANGED <<content, journal>>
    <3>1. PICK w \in Operation : w = prior'[o]
      BY <2>1
    <3>2. FilesObserve(w)' = FilesObserve(w)
      BY <2>1, SameView DEF journal
    <3>3. FilesObserve(w)' = "accepted"
      BY <2>1, <3>1, <3>2
    <3> QED
      BY <3>1, <3>3 DEF Current, FilesObserve, AllAre
  <2>2. CASE pc[o] = "reuse" /\ prior'[o] = prior[o]
    <3>1. /\ prior[o] \in Operation /\ Native(prior[o]) /\ effect[prior[o]] = effect[o]
          /\ Current(o, prior[o], "accepted")
      BY <2>0, <2>2 DEF CarryShape, OwnShape, IInv, DriverShape, TypeOK, DriverTypeOK
    <3>2. PICK w \in Operation : w = prior[o]
      BY <3>1
    <3>3. wpc[w] = "absent" /\ targets[w] = targets[o]
      BY <3>1, <3>2 DEF CarryShape, Native, Overridden, Terminal
    <3>4. wpc[o] = "absent" /\ AtWork(o)
      BY <2>0, <2>2 DEF IInv, OnceShape, AtWork
    <3>5. \/ FilesObserve(w)' = "accepted"
          \/ targets[o] \cap exposed # {}
          \/ \E r \in targets[o] : Overlaid(o, r)'
      BY <3>1, <3>2, <3>3, <3>4, CurrentKept
    <3> QED
      BY <2>2, <3>2, <3>5 DEF Current, FilesObserve, AllAre
  <2>3. prior'[o] \in Operation
    BY <1>4 DEF IInv, DriverShape, TypeOK, DriverTypeOK
  <2> QED
    BY <1>4, <2>1, <2>2, <2>3 DEF Persists, Carries
<1> QED
  BY <1>2, <1>3, <1>4 DEF OwnShape

(* The parts hold before anything runs. *)
LEMMA InitOwn == Init => OInv
BY DEF Init, OInv, ReuseIndexSound, PlainShape, CarryShape, OwnShape, Open, Dispatches, Has,
       Terminal, Finishing, WorkerInit

(* Together they are preserved by every step. *)
LEMMA OInvStep == IInv /\ IInv' /\ OInv /\ [Next]_vars => OInv'
<1> SUFFICES ASSUME IInv, IInv', OInv, [Next]_vars PROVE OInv'
  OBVIOUS
<1>1. TerminalKept /\ Writers /\ \A q \in Operation : Persists(q)
  BY TerminalStep, WriterStep, ContinueStep DEF IInv
<1>2. Kept
  BY <1>1, KeptStep
<1>3. ReuseIndexSound'
  BY <1>2, NamesStep DEF IInv, OInv
<1>4. PlainShape'
  BY PlainStep DEF IInv, OInv
<1>5. CarryShape'
  BY <1>1, <1>2, CarryStep DEF IInv, OInv
<1>6. OwnShape'
  BY <1>1, <1>2, <1>5, OwnStep DEF OInv
<1> QED
  BY <1>3, <1>4, <1>5, <1>6 DEF OInv

(* All of this always holds. *)
LEMMA OwnInvariant == Spec => []OInv
BY OInvStep, InitOwn, Invariant, PTL DEF Spec

(* Every effect is one operation's: nothing is carried over. *)
OneEffectEach == \A o, p \in Operation : effect[o] = effect[p] => o = p

(* No other operation writes below one whose outcome is open, in any plan  *)
(* that has each effect once (claim and legacy_enter of publication.py).   *)
THEOREM OwnedTargetsTheorem == OneEffectEach => (Spec => []TargetsOwnedWhileOpen)
<1> SUFFICES ASSUME OneEffectEach PROVE Spec => []TargetsOwnedWhileOpen
  OBVIOUS
<1>1. ASSUME IInv, OInv PROVE \A p \in Operation : ~Overridden(p)
  <2> SUFFICES ASSUME NEW p \in Operation, Overridden(p) PROVE FALSE
    OBVIOUS
  <2>1. bound[p] \in Operation /\ effect[bound[p]] = effect[p]
    BY <1>1 DEF Overridden, IInv, DriverShape, TypeOK, Terminal, OInv, CarryShape
  <2> QED
    BY <2>1 DEF OneEffectEach, Overridden
<1>2. IInv /\ OInv => TargetsOwnedWhileOpen
  BY <1>1 DEF OInv, OwnShape, Guarded, Overlaid, TargetsOwnedWhileOpen
<1> QED
  BY <1>2, OwnInvariant, Invariant, PTL

(* However effects are carried from plan to plan, a completion rests on an *)
(* observation that still holds, and a stored receipt on a worker that     *)
(* published the effect (drive, complete and register_effects of           *)
(* publication.py).                                                        *)
THEOREM CompletionTheorem == Spec => []CompletionRecordSound
<1>1. OInv => CompletionIsCurrent
  <2> SUFFICES ASSUME OInv, NEW o \in Operation, pc[o] \in {"reuse", "complete"},
                      ~(pc[o] = "reuse" /\ Dispatches(o))
               PROVE  \/ FilesObserve(IF pc[o] = "reuse" THEN prior[o] ELSE o)
                           = (IF pc[o] = "reuse" THEN "accepted" ELSE seen[o])
                      \/ targets[o] \cap exposed # {}
                      \/ \E p \in Operation \ {o} :
                           /\ targets[o] \cap targets[p] # {}
                           /\ Overridden(p) \/ (Scoped /\ (Retryable(o) \/ Retryable(p)))
    BY DEF CompletionIsCurrent
  <2>1. ASSUME \E r \in targets[o] : Overlaid(o, r)
        PROVE  \E p \in Operation \ {o} :
                 /\ targets[o] \cap targets[p] # {}
                 /\ Overridden(p) \/ (Scoped /\ (Retryable(o) \/ Retryable(p)))
    BY <2>1 DEF Overlaid
  <2>2. CASE pc[o] = "complete"
    <3>1. Current(o, o, seen[o])
      BY <2>2 DEF OInv, OwnShape
    <3> QED
      BY <2>1, <2>2, <3>1 DEF Current
  <2>3. CASE pc[o] = "reuse"
    <3>1. Current(o, prior[o], "accepted")
      BY <2>3 DEF OInv, OwnShape
    <3> QED
      BY <2>1, <2>3, <3>1 DEF Current
  <2> QED
    BY <2>2, <2>3
<1> QED
  BY <1>1, OwnInvariant, PTL DEF CompletionRecordSound, OInv
=============================================================================
