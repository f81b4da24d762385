------------------------- MODULE LifetimeOwnership -------------------------
(***************************************************************************)
(* Who owns a database for the lifetime of a process: a lock file beside   *)
(* the database, an flock on it, and a registry in every process.  The     *)
(* processes fork, die and start again; the lock file and the database may *)
(* be replaced under them; closing a descriptor may fail.  POSIX: a lock   *)
(* belongs to an open file description, which a fork shares, and goes with *)
(* its last descriptor.                                                    *)
(***************************************************************************)
EXTENDS Naturals, FiniteSets

CONSTANTS Processes,
          LockFiles,      \* files the coordination path may name
          Descriptions,   \* open file descriptions the kernel has to give
          Databases,      \* files the database path may name
          NoFile, NoOne

ASSUME OwnershipAssumption == NoFile \notin LockFiles /\ NoOne \notin Descriptions

VARIABLES
  running,        \* the processes that live
  database,       \* the file at the database path
  lockFile,       \* the file at the coordination path, NoFile when absent
  kernel,         \* the open descriptions: the file of each and whether it has the lock
  descriptors,    \* the descriptions each process has open
  strays,         \* those it still has open though their FileIO answers that it is closed
  owner           \* _OWNERS of each process: its record for this database

ownershipVars == <<running, database, lockFile, kernel, descriptors, strays, owner>>

\* A record: `opening`, while a thread of the process holds the registry lock; `failed`,
\* acquisition_failed; `cleaner`, the acquisition that failed has yet to clean up; `leased`,
\* a token of this process's epoch is out.
NoRecord == [state |-> "none", opening |-> FALSE, failed |-> FALSE, cleaner |-> FALSE,
             leased |-> FALSE, descriptor |-> NoOne, database |-> NoFile]

NotOpen == [file |-> NoFile, locked |-> FALSE]
Files == {kernel[d].file : d \in Descriptions} \ {NoFile}

\* _revalidate_record_files: the paths still name what the record holds.
Fits(p) == /\ owner[p].descriptor # NoOne
           /\ database = owner[p].database
           /\ lockFile = kernel[owner[p].descriptor].file

\* What require_database_lifetime_ownership answers True for.
Authority(p) == p \in running /\ owner[p].state = "owned" /\ owner[p].leased /\ Fits(p)

\* A description goes, with its lock, when no process has it open.
Survive(held, left) ==
  /\ descriptors' = held /\ strays' = left
  /\ kernel' = [d \in Descriptions |->
                  IF \E p \in Processes : d \in held[p] \cup left[p] THEN kernel[d] ELSE NotOpen]

Closed(p, d) == Survive([descriptors EXCEPT ![p] = @ \ {d}], strays)

\* The FileIO is closed and its close raised: the descriptor may be gone or not.
Doubtful(p, d) ==
  \/ Closed(p, d)
  \/ Survive([descriptors EXCEPT ![p] = @ \ {d}], [strays EXCEPT ![p] = @ \cup {d}])

\* _close_record_descriptor: closed, raised with the file open, or raised with the outcome
\* unknown.  Closing again what the FileIO calls closed does nothing and succeeds.
Closing(p, record, closed) ==
  \/ /\ record.descriptor = NoOne \/ record.state = "cleanup_indeterminate"
     /\ owner' = [owner EXCEPT ![p] = closed] /\ UNCHANGED <<kernel, descriptors, strays>>
  \/ /\ record.descriptor # NoOne /\ record.state # "cleanup_indeterminate"
     /\ \/ Closed(p, record.descriptor) /\ owner' = [owner EXCEPT ![p] = closed]
        \/ /\ owner' = [owner EXCEPT ![p] = [record EXCEPT !.state = "cleanup_pending"]]
           /\ UNCHANGED <<kernel, descriptors, strays>>
        \/ /\ owner' = [owner EXCEPT ![p] = [record EXCEPT !.state = "cleanup_indeterminate"]]
           /\ Doubtful(p, record.descriptor)

Free(p) == p \in running /\ ~owner[p].opening
Opening == [NoRecord EXCEPT !.state = "opening", !.opening = TRUE, !.failed = TRUE, !.database = database]

AcquireOwnership(p) ==
  /\ Free(p) /\ owner[p] = NoRecord
  /\ owner' = [owner EXCEPT ![p] = Opening]
  /\ UNCHANGED <<running, database, lockFile, kernel, descriptors, strays>>

\* _retry_record_cleanup_locked: what a failed acquisition left is closed first.  A record
\* of another kind is contention, and changes nothing.
AcquireOverFailed(p) ==
  /\ Free(p) /\ owner[p].failed /\ owner[p].state # "cleanup_indeterminate"
  /\ Closing(p, owner[p], Opening)
  /\ UNCHANGED <<running, database, lockFile>>

OpenCoordination(p) ==
  /\ p \in running /\ owner[p].state = "opening"
  /\ \E d \in Descriptions, f \in LockFiles :
       /\ kernel[d] = NotOpen
       /\ IF lockFile = NoFile THEN f \notin Files ELSE f = lockFile
       /\ lockFile' = f
       /\ kernel' = [kernel EXCEPT ![d].file = f]
       /\ descriptors' = [descriptors EXCEPT ![p] = @ \cup {d}]
       /\ owner' = [owner EXCEPT ![p].state = "coordination_open", ![p].descriptor = d]
  /\ UNCHANGED <<running, database, strays>>

\* LOCK_EX | LOCK_NB: refused while another description holds the file's lock.
NativeAcquire(p) ==
  /\ p \in running /\ owner[p].state = "coordination_open"
  /\ \A d \in Descriptions : kernel[d].locked => kernel[d].file # kernel[owner[p].descriptor].file
  /\ kernel' = [kernel EXCEPT ![owner[p].descriptor].locked = TRUE]
  /\ owner' = [owner EXCEPT ![p].state = "native_owned"]
  /\ UNCHANGED <<running, database, lockFile, descriptors, strays>>

\* The lease is made and given to the publisher.
Publish(p) ==
  /\ p \in running /\ owner[p].state = "native_owned" /\ Fits(p)
  /\ owner' = [owner EXCEPT ![p].state = "owned", ![p].leased = TRUE]
  /\ UNCHANGED <<running, database, lockFile, kernel, descriptors, strays>>

Acquired(p) ==
  /\ p \in running /\ owner[p].opening /\ owner[p].state = "owned"
  /\ owner' = [owner EXCEPT ![p].opening = FALSE, ![p].failed = FALSE]
  /\ UNCHANGED <<running, database, lockFile, kernel, descriptors, strays>>

\* Contention, an unsafe file, a replaced file or an interruption: the registry lock is
\* given back before the cleanup takes it again.
AcquireFails(p) ==
  /\ p \in running /\ owner[p].opening
  /\ owner' = [owner EXCEPT ![p].opening = FALSE, ![p].cleaner = TRUE]
  /\ UNCHANGED <<running, database, lockFile, kernel, descriptors, strays>>

\* _retire_failed_acquisition_locked, whatever another thread's acquisition, release or
\* check made of the record in between; the state is overwritten first, so a close whose
\* outcome was unknown then passes for done.  A record retired meanwhile is left alone.
CleanUpFailed(p) ==
  /\ Free(p) /\ owner[p].cleaner
  /\ Closing(p, [owner[p] EXCEPT !.cleaner = FALSE], NoRecord)
  /\ UNCHANGED <<running, database, lockFile>>

\* A required lease that no longer fits, or whose check was interrupted (which may happen
\* at any time), is lost for good.
RequireLoses(p) ==
  /\ Free(p) /\ owner[p].leased /\ owner[p].state = "owned"
  /\ owner' = [owner EXCEPT ![p].state = "lost"]
  /\ UNCHANGED <<running, database, lockFile, kernel, descriptors, strays>>

ReleaseOwnership(p) ==
  /\ Free(p) /\ owner[p].leased /\ owner[p].state \in {"owned", "cleanup_pending", "lost"}
  /\ \/ Closing(p, owner[p], NoRecord)
     \/ /\ owner' = [owner EXCEPT ![p].state = "cleanup_pending"]   \* before_native_release raised
        /\ UNCHANGED <<kernel, descriptors, strays>>
  /\ UNCHANGED <<running, database, lockFile>>

----------------------------------------------------------------------------
\* Mutant: the child keeps the epoch and the records of its parent.
ForkKeeps(p, q) ==
  /\ Free(p) /\ q \in Processes \ running
  /\ running' = running \cup {q}
  /\ descriptors' = [descriptors EXCEPT ![q] = descriptors[p]]
  /\ owner' = [owner EXCEPT ![q] = owner[p]]
  /\ strays' = [strays EXCEPT ![q] = strays[p]]
  /\ UNCHANGED <<database, lockFile, kernel>>

\* _before_fork waits for the registry lock; _after_fork_child closes what was inherited,
\* keeps the records it could not close, and starts another epoch; the thread that has to
\* clean up is not copied.
Fork(p, q) ==
  /\ Free(p) /\ q \in Processes \ running
  /\ running' = running \cup {q}
  /\ LET d == owner[p].descriptor
         Inherited(state) ==
           [owner[p] EXCEPT !.leased = FALSE, !.cleaner = FALSE, !.failed = TRUE, !.state = state]
     IN  \/ /\ owner' = [owner EXCEPT ![q] = NoRecord]
            /\ descriptors' = [descriptors EXCEPT ![q] = descriptors[p] \ {d}]
            /\ strays' = [strays EXCEPT ![q] = strays[p]]
         \/ /\ d # NoOne /\ owner[p].state # "cleanup_indeterminate"
            /\ \/ /\ owner' = [owner EXCEPT ![q] = Inherited("cleanup_pending")]
                  /\ descriptors' = [descriptors EXCEPT ![q] = descriptors[p]]
                  /\ strays' = [strays EXCEPT ![q] = strays[p]]
               \/ /\ owner' = [owner EXCEPT ![q] = Inherited("cleanup_indeterminate")]
                  /\ descriptors' = [descriptors EXCEPT ![q] = descriptors[p] \ {d}]
                  /\ \E left \in {strays[p], strays[p] \cup {d}} : strays' = [strays EXCEPT ![q] = left]
  /\ UNCHANGED <<database, lockFile, kernel>>

ProcessDies(p) ==
  /\ p \in running
  /\ running' = running \ {p}
  /\ Survive([descriptors EXCEPT ![p] = {}], [strays EXCEPT ![p] = {}])
  /\ owner' = [owner EXCEPT ![p] = NoRecord]
  /\ UNCHANGED <<database, lockFile>>

StartsAgain(p) ==
  /\ p \in Processes \ running /\ running' = running \cup {p}
  /\ UNCHANGED <<database, lockFile, kernel, descriptors, strays, owner>>

\* Programs outside the protocol: the database or the lock file is replaced.
Replaced ==
  /\ \/ database' \in Databases \ {database} /\ UNCHANGED lockFile
     \/ /\ \E f \in LockFiles \cup {NoFile} :
             f # lockFile /\ f \notin Files /\ lockFile' = f
        /\ UNCHANGED database
  /\ UNCHANGED <<running, kernel, descriptors, strays, owner>>

InitOwnership ==
  /\ running = Processes
  /\ database \in Databases /\ lockFile = NoFile
  /\ kernel = [d \in Descriptions |-> NotOpen]
  /\ descriptors = [p \in Processes |-> {}] /\ strays = [p \in Processes |-> {}]
  /\ owner = [p \in Processes |-> NoRecord]

NextOwnership ==
  \/ \E p \in Processes :
       \/ AcquireOwnership(p) \/ AcquireOverFailed(p) \/ OpenCoordination(p) \/ NativeAcquire(p)
       \/ Publish(p) \/ Acquired(p) \/ AcquireFails(p) \/ CleanUpFailed(p)
       \/ RequireLoses(p) \/ ReleaseOwnership(p) \/ ProcessDies(p) \/ StartsAgain(p)
       \/ \E q \in Processes : Fork(p, q)
  \/ Replaced

SpecOwnership == InitOwnership /\ [][NextOwnership]_ownershipVars

----------------------------------------------------------------------------
\* One process at most has the authority of the database, whatever was forked, replaced,
\* left by a dead process or not closed (docs/durable_google_login_browser.md:126-132).
OneAuthority == \A p, q \in Processes : Authority(p) /\ Authority(q) => p = q

\* A lock that a process still has through a descriptor it could close is one its registry
\* knows, so that a later acquisition closes it or is refused: release, cleanup and fork
\* forget no such descriptor.  A stray is all the registry may forget: it has the record of
\* an unknown outcome replaced by a cleanup that was already on its way, and a fork drop it.
NoLockForgotten ==
  \A p \in Processes : \A d \in descriptors[p] : kernel[d].locked => owner[p].descriptor = d

OwnershipSound == OneAuthority /\ NoLockForgotten
============================================================================
