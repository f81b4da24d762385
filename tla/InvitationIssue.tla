-------------------------- MODULE InvitationIssue --------------------------
(***************************************************************************)
(* The operator's offline commands on invitations.  Creating one commits a *)
(* row and leaves its credential, whose secret the database keeps only as  *)
(* a keyed hash, in a private file.  The two cannot change together:       *)
(* the credential waits in a stage file of the output directory while the  *)
(* row commits, and is then renamed to its final name.  Any step may fail, *)
(* the process may die, the host may lose power and with it the directory  *)
(* changes that were not flushed.                                          *)
(*                                                                         *)
(* All requests here name one output file.  Every command and the product  *)
(* server exclude each other by the lifetime ownership of the database.    *)
(***************************************************************************)
EXTENDS Naturals, Sequences

CONSTANTS Operators,    \* operator processes
          Invitees,     \* request ids
          MaxSecrets,   \* bound on generated credentials
          Server, Nobody

ASSUME InvitationAssumption == MaxSecrets \in Nat /\ Server \notin Operators /\ Nobody \notin Operators

VARIABLES invitations,  \* account_invitations, by request id
          journal,      \* a hot rollback journal lies beside the database
          disk,         \* the output directory as processes see it
          flushed,      \* the output directory as it was last flushed
          ownership,    \* who holds the lifetime ownership
          command,      \* per operator, the command it runs
          minted,       \* the request of every secret generated so far
          taken,        \* secrets a person has copied from the final file
          expired       \* the invitations' expiry has passed

invitationVars == <<invitations, journal, disk, flushed, ownership, command, minted, taken, expired>>

NoFile == [secret |-> 0, whole |-> FALSE]
NoRow == [status |-> "none", secret |-> 0]
NoCommand == [step |-> "idle", kind |-> "none", request |-> "none", secret |-> 0,
              staged |-> FALSE, committing |-> FALSE, publishing |-> FALSE,
              preexisting |-> FALSE, before |-> NoRow, answer |-> "none"]

Run(p) == command[p]
At(p, step) == Run(p).step = step
RowOf(p) == invitations[Run(p).request]
Becomes(p, record) == command' = [command EXCEPT ![p] = record]
Goto(p, step) == Becomes(p, [Run(p) EXCEPT !.step = step])
Exists(file) == file # NoFile

\* _authenticate_envelope: an envelope of this request; torn bytes are nobody's.
Authentic(file, request) == file.whole /\ minted[file.secret] = request

----------------------------------------------------------------------------
(* The answer of a command *)

DurableMayHaveOccurred(c) == c.preexisting \/ c.committing \/ c.publishing
IndeterminateBoundary(c) == c.committing \/ c.publishing

\* Mutant: an error is reported as it was raised.
ErrorAsRaised(c, code) == code

\* What the caller is told of an error that was raised as `code`.
ErrorAnswer(c, code) ==
  IF IndeterminateBoundary(c) \/ (c.preexisting /\ code = "CLEANUP_INCOMPLETE")
  THEN "COMMITTED_RETRY_REQUIRED" ELSE code

CleanupAnswer(c) ==
  IF DurableMayHaveOccurred(c) THEN "COMMITTED_RETRY_REQUIRED" ELSE "CLEANUP_INCOMPLETE"

\* The resources are closed and the ownership is released, or some resist, are kept
\* with the ownership, and the answer only says so.
Ends(p, c, answer) ==
  \/ /\ Becomes(p, [NoCommand EXCEPT !.answer = answer])
     /\ ownership' = Nobody
  \/ /\ Becomes(p, [c EXCEPT !.step = "retained", !.answer = CleanupAnswer(c)])
     /\ UNCHANGED ownership

----------------------------------------------------------------------------
(* Opening *)

Begin(p, kind, q) ==
  /\ At(p, "idle")
  /\ LET c == [NoCommand EXCEPT !.kind = kind, !.request = q, !.before = invitations[q]]
     IN  \/ /\ ownership = Nobody
            /\ ownership' = p
            /\ Becomes(p, [c EXCEPT !.step = "open"])
         \/ /\ ownership # Nobody
            /\ Becomes(p, [c EXCEPT !.answer = "OWNERSHIP_BUSY"])
            /\ UNCHANGED ownership
  /\ UNCHANGED <<invitations, journal, disk, flushed, minted, taken, expired>>

\* The next call of the process drains what an earlier one could not close.
DrainRetained(p) ==
  /\ At(p, "retained")
  /\ ownership' = Nobody
  /\ Becomes(p, NoCommand)
  /\ UNCHANGED <<invitations, journal, disk, flushed, minted, taken, expired>>

\* A hot journal is recovered by a create alone; the other commands and the server
\* refuse a database that has one.
OpenDatabase(p) ==
  /\ At(p, "open")
  /\ \/ /\ Run(p).kind = "create"
        /\ journal' = FALSE /\ Goto(p, "create") /\ UNCHANGED ownership
     \/ /\ Run(p).kind # "create" /\ ~journal
        /\ Goto(p, Run(p).kind) /\ UNCHANGED <<journal, ownership>>
     \/ /\ Run(p).kind # "create" /\ journal
        /\ Ends(p, Run(p), "DATABASE_ATTESTATION_FAILED") /\ UNCHANGED journal
  /\ UNCHANGED <<invitations, disk, flushed, minted, taken, expired>>

----------------------------------------------------------------------------
(* Create *)

\* The row is inserted, uncommitted, with a fresh secret.  A stage file an earlier
\* run of the request left behind, before its row committed, is removed first.
InsertRow(p) ==
  /\ At(p, "create") /\ ~expired
  /\ RowOf(p) = NoRow /\ ~Exists(disk.final)
  /\ Exists(disk.stage) => Authentic(disk.stage, Run(p).request)
  /\ Len(minted) < MaxSecrets
  /\ minted' = Append(minted, Run(p).request)
  /\ Becomes(p, [Run(p) EXCEPT !.step = "stage", !.secret = Len(minted) + 1])
  /\ IF Exists(disk.stage)
     THEN disk' = [disk EXCEPT !.stage = NoFile] /\ flushed' = disk'
     ELSE UNCHANGED <<disk, flushed>>
  /\ UNCHANGED <<invitations, journal, ownership, taken, expired>>

CreateStageFile(p) ==
  /\ At(p, "stage") /\ ~Exists(disk.stage)
  /\ disk' = [disk EXCEPT !.stage = [secret |-> Run(p).secret, whole |-> FALSE]]
  /\ Goto(p, "write")
  /\ UNCHANGED <<invitations, journal, flushed, ownership, minted, taken, expired>>

\* Written, synced, its directory flushed, read again and authenticated.
WriteStageFile(p) ==
  /\ At(p, "write")
  /\ disk' = [disk EXCEPT !.stage.whole = TRUE] /\ flushed' = disk'
  /\ Becomes(p, [Run(p) EXCEPT !.step = "staged", !.staged = TRUE])
  /\ UNCHANGED <<invitations, journal, ownership, minted, taken, expired>>

\* The destination is checked once more, then the commit is announced.
BeginCommit(p) ==
  /\ At(p, "staged") /\ ~Exists(disk.final)
  /\ Becomes(p, [Run(p) EXCEPT !.step = "commit", !.committing = TRUE])
  /\ UNCHANGED <<invitations, journal, disk, flushed, ownership, minted, taken, expired>>

Committed(p) ==
  invitations' = [invitations EXCEPT ![Run(p).request] =
                    IF Run(p).kind = "create" THEN [status |-> "pending", secret |-> Run(p).secret]
                    ELSE [@ EXCEPT !.status = "revoked"]]

\* The commit succeeds; it raises after it took effect; it raises without effect.
Commit(p) ==
  /\ At(p, "commit")
  /\ \/ /\ Committed(p)
        /\ IF Run(p).kind = "create"
           THEN Goto(p, "publish") /\ UNCHANGED ownership
           ELSE Ends(p, Run(p), "revoked")
     \/ /\ Committed(p) \/ UNCHANGED invitations
        /\ Ends(p, Run(p), ErrorAnswer(Run(p), "INTERNAL_FAILURE"))
  /\ UNCHANGED <<journal, disk, flushed, minted, taken, expired>>

\* renameat2 where the file system has it; else linkat and then unlinkat.
PublishStage(p) ==
  /\ At(p, "publish") /\ ~Exists(disk.final) /\ Exists(disk.stage)
  /\ \/ /\ disk' = [stage |-> NoFile, final |-> disk.stage]
        /\ Becomes(p, [Run(p) EXCEPT !.step = "flush", !.publishing = TRUE])
     \/ /\ disk' = [disk EXCEPT !.final = disk.stage]
        /\ Becomes(p, [Run(p) EXCEPT !.step = "unlink", !.publishing = TRUE])
  /\ UNCHANGED <<invitations, journal, flushed, ownership, minted, taken, expired>>

UnlinkStage(p) ==
  /\ At(p, "unlink")
  /\ disk' = [disk EXCEPT !.stage = NoFile]
  /\ Becomes(p, [Run(p) EXCEPT !.step = "flush", !.publishing = TRUE])
  /\ UNCHANGED <<invitations, journal, flushed, ownership, minted, taken, expired>>

\* The directory is flushed, the final file read again and authenticated.
FlushFinal(p) ==
  /\ At(p, "flush") /\ Authentic(disk.final, Run(p).request)
  /\ flushed' = disk
  /\ Ends(p, Run(p), IF ~Run(p).preexisting THEN "created"
                     ELSE IF Run(p).answer = "replayed" THEN "replayed" ELSE "recovered")
  /\ UNCHANGED <<invitations, journal, disk, minted, taken, expired>>

\* The request's row is committed already: finish what its run left undone.
RecoverCommittedCreate(p) ==
  /\ At(p, "create") /\ ~expired /\ RowOf(p) # NoRow
  /\ \E file \in {disk.stage, disk.final} :
       /\ Authentic(file, Run(p).request) /\ file.secret = RowOf(p).secret
       /\ LET c == [Run(p) EXCEPT !.preexisting = TRUE, !.committing = TRUE,
                                  !.secret = file.secret]
          IN  \/ /\ file = disk.final /\ file = disk.stage /\ RowOf(p).status = "pending"
                 /\ Becomes(p, [c EXCEPT !.step = "unlink"])
              \/ /\ file = disk.stage /\ ~Exists(disk.final)
                 /\ Becomes(p, [c EXCEPT !.step = "publish"])
              \/ /\ file = disk.final /\ ~Exists(disk.stage)
                 /\ Becomes(p, [c EXCEPT !.step = "flush", !.publishing = TRUE,
                                         !.answer = "replayed"])
  /\ UNCHANGED <<invitations, journal, disk, flushed, ownership, minted, taken, expired>>

\* Mutant: whoever staged a file removes it when the run fails.
DiscardAlways(p) == TRUE

\* The run's own stage file is removed unless its commit was attempted.
DiscardsStage(p) == ~Run(p).committing

\* A check refuses or a step raises: the transaction is rolled back, the stage file of
\* the run is discarded, or resists.
Fail(p) ==
  /\ Run(p).step \in {"open", "create", "stage", "write", "staged", "publish", "unlink",
                      "flush", "status", "revoke"}
  /\ LET c == IF At(p, "create") /\ RowOf(p) # NoRow
              THEN [Run(p) EXCEPT !.preexisting = TRUE] ELSE Run(p)
         own == At(p, "write") \/ (c.staged /\ DiscardsStage(p))
     IN  \/ /\ disk' = IF own THEN [disk EXCEPT !.stage = NoFile] ELSE disk
            /\ flushed' = IF own THEN disk' ELSE flushed
            /\ Ends(p, c, ErrorAnswer(c, "REFUSED"))
         \/ /\ own /\ UNCHANGED <<disk, flushed>>
            /\ Ends(p, c, ErrorAnswer(c, "CLEANUP_INCOMPLETE"))
  /\ UNCHANGED <<invitations, journal, minted, taken, expired>>

----------------------------------------------------------------------------
(* Status and revocation *)

Status(p) ==
  /\ At(p, "status") /\ RowOf(p) # NoRow
  /\ Ends(p, Run(p), "found")
  /\ UNCHANGED <<invitations, journal, disk, flushed, minted, taken, expired>>

Revoke(p) ==
  /\ At(p, "revoke")
  /\ \/ /\ RowOf(p).status = "pending" /\ ~expired
        /\ Becomes(p, [Run(p) EXCEPT !.step = "commit", !.committing = TRUE])
        /\ UNCHANGED ownership
     \/ /\ RowOf(p).status = "revoked"
        /\ Ends(p, [Run(p) EXCEPT !.preexisting = TRUE], "replayed")
     \/ /\ RowOf(p).status = "consumed" \/ (RowOf(p).status = "pending" /\ expired)
        /\ Ends(p, Run(p), "INVITATION_NOT_PENDING")
  /\ UNCHANGED <<invitations, journal, disk, flushed, minted, taken, expired>>

----------------------------------------------------------------------------
(* The world *)

\* The kernel releases the ownership of a dead process.  Death inside a commit leaves
\* a hot journal, which rolls the transaction back, or a committed row.
Killed(dead) ==
  /\ command' = [p \in Operators |-> IF p \in dead THEN NoCommand ELSE command[p]]
  /\ ownership' = IF ownership \in dead THEN Nobody ELSE ownership
  /\ \E p \in dead \cap Operators :
       \/ At(p, "commit") /\ Committed(p) /\ UNCHANGED journal
       \/ journal' = (journal \/ At(p, "commit")) /\ UNCHANGED invitations

OperatorDies(p) ==
  /\ ~At(p, "idle")
  /\ Killed({p})
  /\ UNCHANGED <<disk, flushed, minted, taken, expired>>

\* The directory comes back as it was last flushed or with what followed.
PowerLoss ==
  /\ Killed(Operators \cup {Server})
  /\ disk' \in {disk, flushed}
  /\ flushed' = disk'
  /\ UNCHANGED <<minted, taken, expired>>

\* A person reads the credential, and may move the file away.
TakeCredential(keep) ==
  /\ Exists(disk.final)
  /\ taken' = taken \cup {disk.final.secret}
  /\ disk' = IF keep THEN disk ELSE [disk EXCEPT !.final = NoFile]
  /\ UNCHANGED <<invitations, journal, flushed, ownership, command, minted, expired>>

ServeOrStop ==
  /\ \/ ownership = Nobody /\ ~journal /\ ownership' = Server
     \/ ownership = Server /\ ownership' = Nobody
  /\ UNCHANGED <<invitations, journal, disk, flushed, command, minted, taken, expired>>

ConsumeInvitation(q) ==
  /\ ownership = Server /\ ~expired
  /\ invitations[q].status = "pending" /\ invitations[q].secret \in taken
  /\ invitations' = [invitations EXCEPT ![q].status = "consumed"]
  /\ UNCHANGED <<journal, disk, flushed, ownership, command, minted, taken, expired>>

Expire ==
  /\ ~expired /\ expired' = TRUE
  /\ UNCHANGED <<invitations, journal, disk, flushed, ownership, command, minted, taken>>

InitInvitations ==
  /\ invitations = [q \in Invitees |-> NoRow]
  /\ journal = FALSE
  /\ disk = [stage |-> NoFile, final |-> NoFile]
  /\ flushed = disk
  /\ ownership = Nobody
  /\ command = [p \in Operators |-> NoCommand]
  /\ minted = <<>>
  /\ taken = {}
  /\ expired = FALSE

NextInvitations ==
  \/ \E p \in Operators :
       \/ \E kind \in {"create", "status", "revoke"}, q \in Invitees : Begin(p, kind, q)
       \/ DrainRetained(p) \/ OpenDatabase(p)
       \/ InsertRow(p) \/ CreateStageFile(p) \/ WriteStageFile(p) \/ BeginCommit(p)
       \/ Commit(p) \/ PublishStage(p) \/ UnlinkStage(p) \/ FlushFinal(p)
       \/ RecoverCommittedCreate(p) \/ Fail(p) \/ Status(p) \/ Revoke(p) \/ OperatorDies(p)
  \/ PowerLoss \/ \E keep \in BOOLEAN : TakeCredential(keep)
  \/ ServeOrStop \/ \E q \in Invitees : ConsumeInvitation(q)
  \/ Expire

SpecInvitations == InitInvitations /\ [][NextInvitations]_invitationVars

----------------------------------------------------------------------------
\* A pending invitation is never a row whose credential is lost: the secret the row
\* was committed with is in the final or in the stage file, on the disk and after a
\* power loss, or a person has it (_perform_create, _recover_committed_create).
CommittedIsRecoverable ==
  \A q \in Invitees :
    invitations[q].status = "pending" =>
      \/ invitations[q].secret \in taken
      \/ \A d \in {disk, flushed} : \E file \in {d.stage, d.final} :
           file.whole /\ file.secret = invitations[q].secret

\* A credential that reached the final name, or a person, opens the invitation of its
\* request: none is published for a row that was rolled back.
PublishedIsCommitted ==
  \A s \in taken \cup (IF Exists(disk.final) THEN {disk.final.secret} ELSE {}) :
    invitations[minted[s]].secret = s

\* The row and the credential stand or fall together.
CredentialMatchesRow == CommittedIsRecoverable /\ PublishedIsCommitted

\* A command that ends tells the truth of its row.
HonestEnd(p) ==
  LET c == Run(p)
      answer == Run(p)'.answer
      row == invitations'[c.request]
  IN  c.step \notin {"idle", "retained"} /\ Run(p)'.step \in {"idle", "retained"} /\ answer # "none" =>
        /\ answer \in {"created", "recovered", "replayed"} /\ c.kind = "create" =>
             row # NoRow /\ (flushed'.final.secret = row.secret \/ row.secret \in taken')
        /\ answer \in {"revoked", "replayed"} /\ c.kind = "revoke" => row.status = "revoked"
        /\ answer \notin {"created", "recovered", "revoked", "replayed", "COMMITTED_RETRY_REQUIRED"} =>
             row = c.before

\* A success is durable, and an error that does not ask for a retry left the database
\* as it was (_execute_owned_operation, "COMMITTED_RETRY_REQUIRED").
HonestAnswer == [][\A p \in Operators : HonestEnd(p)]_invitationVars
============================================================================
