---------------------------- MODULE RetentionSweep ----------------------------
(***************************************************************************)
(* tools/Fogell.Retention: the sweep that expires finished builds, its     *)
(* deletion journal build_retention (migration 0017) and those it races:   *)
(* retries, other writers of the state root, kills, power failures and     *)
(* restores of a paired backup.                                            *)
(*                                                                         *)
(* A build's files are numbered in the order of their removal; the first   *)
(* is the definition that must agree with the database.  A file is known   *)
(* by its identity (inode, birth time, content), and every file made by    *)
(* others or by a restore has one of its own.  A sweep goes through its    *)
(* pending builds in any order.                                            *)
(***************************************************************************)
EXTENDS Naturals, FiniteSets

CONSTANTS
    Builds,
    FileCount,
    LogCount,       \* chunks of a finished build
    MaxCandidates,  \* --max-candidates
    MaxEntries,     \* --max-entries, and what planning reaches in --budget-seconds
    MaxOperations,  \* --max-operations
    KeepBuilds,     \* --keep-builds
    MaxFaults,      \* bound: replaced files, kills, power failures, budgets
                    \* that ran out, failing statements, restores
    None

ASSUME RetentionBounds ==
    /\ {FileCount, MaxCandidates, MaxEntries, MaxOperations} \subseteq Nat \ {0}
    /\ {LogCount, KeepBuilds, MaxFaults} \subseteq Nat

\* Made by Fogell, by somebody else, or of a kind that no inventory takes: a special
\* file, one with a second link, on another mount, or a link in a root's place.
Kinds == {"fogell", "foreign", "refused"}
ASSUME NoneIsNoFile == None \notin [identity : Nat, kind : Kinds]

Files == 1..FileCount

VARIABLES
    build,      \* builds and their attempts
    evidence,   \* log_chunks and build_definitions
    row,        \* build_retention
    epoch,      \* controller_metadata.restore_epoch
    file,       \* directory entries of every file, as processes see them
    disk,       \* and as a power failure may leave them
    sweep,      \* the process that holds the advisory lock
    backup,     \* a paired backup
    unlinked,   \* history: identities the sweep unlinked
    faults

database == <<build, evidence, row, epoch>>
files == <<file, disk, unlinked>>
retentionVars == <<database, files, sweep, backup, faults>>
-----------------------------------------------------------------------------
NoRow == [state |-> "none"]
NoSweep == [at |-> "none", todo |-> {}, build |-> None, cursor |-> 0,
            pending |-> FALSE, left |-> 0]

\* name is the entry under the file's own name, quarantine the one removeNext
\* moves it to.
Entry(found) == [name |-> found, quarantine |-> None]
Original == [identity |-> 0, kind |-> "fogell"]

Init ==
    /\ build = [b \in Builds |-> "running"]
    /\ evidence = [b \in Builds |-> [logs |-> 0, definition |-> TRUE]]
    /\ row = [b \in Builds |-> NoRow]
    /\ epoch = 0
    /\ file = [b \in Builds |-> [f \in Files |-> Entry(Original)]]
    /\ disk = file
    /\ sweep = NoSweep
    /\ backup = None
    /\ unlinked = {}
    /\ faults = 0

Fault == faults < MaxFaults /\ faults' = faults + 1
-----------------------------------------------------------------------------
\* Others.

\* terminal: every condition of `eligibility`.  Otherwise the build ends with an
\* attempt or an effect that somebody has to look at.
Finish(b) ==
    /\ build[b] = "running"
    /\ \E ended \in {"terminal", "held"} : build' = [build EXCEPT ![b] = ended]
    /\ evidence' = [evidence EXCEPT ![b].logs = LogCount]
    /\ UNCHANGED <<row, epoch, files, sweep, backup, faults>>

\* Mutant: no trigger on retry_decisions.
Retry_Unguarded(b) ==
    /\ build[b] = "terminal"
    /\ build' = [build EXCEPT ![b] = "retried"]
    /\ UNCHANGED <<evidence, row, epoch, files, sweep, backup, faults>>

\* DecideRetry under fogell_retention_guard_write.
Retry(b) ==
    /\ build[b] = "terminal" /\ row[b] = NoRow
    /\ build' = [build EXCEPT ![b] = "retried"]
    /\ UNCHANGED <<evidence, row, epoch, files, sweep, backup, faults>>

\* Somebody puts a file of his own in a file's place, durably.
Replace(b, f) ==
    /\ Fault
    /\ \E kind \in Kinds \ {"fogell"} :
          file' = [file EXCEPT ![b][f].name = [identity |-> faults', kind |-> kind]]
    /\ disk' = [disk EXCEPT ![b][f] = file'[b][f]]
    /\ UNCHANGED <<database, unlinked, sweep, backup>>

Kill ==
    /\ sweep # NoSweep /\ Fault
    /\ sweep' = NoSweep
    /\ UNCHANGED <<database, files, backup>>

\* Of every directory entry the synced or the newer state is left.
PowerFails ==
    /\ Fault
    /\ \E lost \in SUBSET (Builds \X Files) :
          file' = [b \in Builds |-> [f \in Files |->
                     IF <<b, f>> \in lost THEN disk[b][f] ELSE file[b][f]]]
    /\ disk' = file'
    /\ sweep' = NoSweep
    /\ UNCHANGED <<database, unlinked, backup>>

\* With the writers quiesced, and the sweep is one of them.
TakeBackup ==
    /\ sweep = NoSweep /\ backup = None
    /\ backup' = [build |-> build, evidence |-> evidence, row |-> row, file |-> file]
    /\ UNCHANGED <<database, files, sweep, faults>>

\* Database and state root of one pair; what is extracted is a new file.
Restore ==
    /\ sweep = NoSweep /\ backup # None /\ Fault
    /\ build' = backup.build /\ evidence' = backup.evidence /\ row' = backup.row
    /\ epoch' = epoch + 1
    /\ LET Extracted(found) == IF found = None THEN None
                               ELSE [found EXCEPT !.identity = faults']
       IN  file' = [b \in Builds |-> [f \in Files |->
                      [name |-> Extracted(backup.file[b][f].name),
                       quarantine |-> Extracted(backup.file[b][f].quarantine)]]]
    /\ disk' = file'
    /\ UNCHANGED <<sweep, backup, unlinked>>
-----------------------------------------------------------------------------
\* Planning.

Candidates == {b \in Builds : build[b] = "terminal" /\ row[b] = NoRow}

\* The inventory takes every file.
Listable(b) == \A f \in Files : LET found == file[b][f].name
                              IN  found # None => found.kind # "refused"

\* The database has a definition, and verifyDefinition finds it in its file.
Agrees(b) ==
    LET found == file[b][1].name
    IN  evidence[b].definition /\ found # None /\ found.kind = "fogell"

\* Whatever else there is to delete: a plan is made for every candidate, the ones
\* to be kept too, or for none.
Plannable ==
    /\ Cardinality(Candidates) <= MaxCandidates
    /\ Cardinality({x \in Candidates \X Files : file[x[1]][x[2]].name # None}) <= MaxEntries
    /\ \A b \in Candidates : Listable(b) /\ Agrees(b)

\* One transaction for all candidates, which locks each of them and its attempts.  A
\* sweep whose plan is refused ends there.
Plan ==
    /\ sweep = NoSweep
    /\ Plannable
    /\ \E keep \in SUBSET Candidates :
          /\ Cardinality(keep) <= KeepBuilds
          /\ row' = [b \in Builds |->
                IF b \in Candidates \ keep
                THEN [state |-> "selected", epoch |-> epoch, cursor |-> 0,
                      pending |-> FALSE,
                      manifest |-> [f \in Files |-> file[b][f].name]]
                ELSE row[b]]
    /\ sweep' = [NoSweep EXCEPT !.at = "list", !.left = MaxOperations]
    /\ UNCHANGED <<build, evidence, epoch, files, backup, faults>>

Unsettled(b) == row[b].state \in {"selected", "deleting"}

\* As many of them as a sweep takes, oldest first, which may be any.
Listed(rows) ==
    \E chosen \in SUBSET rows :
        /\ chosen = rows \/ Cardinality(chosen) = MaxCandidates
        /\ Cardinality(chosen) <= MaxCandidates
        /\ sweep' = [sweep EXCEPT !.at = "next", !.todo = chosen]

\* Mutant: a row in deleting is left to the sweep that put it there.
ReadPending_SelectedOnly ==
    /\ sweep.at = "list"
    /\ Listed({b \in Builds : row[b].state = "selected"})
    /\ UNCHANGED <<database, files, backup, faults>>

ReadPending ==
    /\ sweep.at = "list"
    /\ Listed({b \in Builds : Unsettled(b)})
    /\ UNCHANGED <<database, files, backup, faults>>

EndSweep ==
    /\ sweep.at = "next" /\ (sweep.todo = {} \/ sweep.left = 0)
    /\ sweep' = NoSweep
    /\ UNCHANGED <<database, files, backup, faults>>

\* --budget-seconds, looked at before a build and before an entry.
OutOfTime ==
    /\ \/ sweep.at = "next"
       \/ sweep.at = "entry" /\ sweep.cursor < FileCount
    /\ Fault
    /\ sweep' = NoSweep
    /\ UNCHANGED <<database, files, backup>>
-----------------------------------------------------------------------------
\* One build.

At(phase) == sweep.at = phase
Go(phase) == sweep' = [sweep EXCEPT !.at = phase]
NextBuild == sweep' = [sweep EXCEPT !.at = "next", !.build = None]
Current == row[sweep.build].epoch = epoch

\* save, of the manifest the sweep goes on with.
Save(state) ==
    row' = [row EXCEPT ![sweep.build] =
              [@ EXCEPT !.state = state, !.cursor = sweep'.cursor, !.pending = sweep'.pending]]

\* An epoch that changed is a reason to hold, like every other error.
BeginBuild(b) ==
    /\ At("next") /\ sweep.left > 0
    /\ b \in sweep.todo
    /\ sweep' = [sweep EXCEPT !.at = IF row[b].epoch = epoch THEN "entry" ELSE "hold",
                    !.todo = @ \ {b}, !.build = b,
                    !.cursor = row[b].cursor, !.pending = row[b].pending]
    /\ row' = IF row[b].epoch = epoch THEN [row EXCEPT ![b].state = "deleting"] ELSE row
    /\ UNCHANGED <<build, evidence, epoch, files, backup, faults>>

\* The entry the manifest's cursor is at, and what it should be.
Target == sweep.cursor + 1
Found == file[sweep.build][Target]
Expected == row[sweep.build].manifest[Target]

More == At("entry") /\ sweep.cursor < FileCount /\ sweep.left > 0

\* The intent is durable before anything is moved.
Intend ==
    /\ More /\ ~sweep.pending
    /\ IF Found.name = Expected /\ Current
       THEN /\ sweep' = [sweep EXCEPT !.at = "inspect", !.pending = TRUE]
            /\ Save("deleting")
       ELSE Go("hold") /\ UNCHANGED row
    /\ UNCHANGED <<build, evidence, epoch, files, backup, faults>>

\* A sweep that goes on where an earlier one was cut off.
Resume ==
    /\ More /\ sweep.pending
    /\ Go("inspect")
    /\ UNCHANGED <<database, files, backup, faults>>

\* removeNext looks at both names.
Inspect ==
    /\ At("inspect")
    /\ Go(CASE Found.name # None /\ Found.quarantine # None -> "hold"
            [] Found.name # None /\ Found.quarantine = None ->
                 IF Found.name = Expected THEN "move" ELSE "hold"
            [] Found.name = None -> "unlink")
    /\ UNCHANGED <<database, files, backup, faults>>

\* RENAME_NOREPLACE of whatever bears the name by now; then fsync.
Move ==
    /\ At("move")
    /\ file' = [file EXCEPT ![sweep.build][Target] =
                  [name |-> None, quarantine |-> Found.name]]
    /\ Go("unlink")
    /\ UNCHANGED <<database, disk, unlinked, backup, faults>>

SyncFile == disk' = [disk EXCEPT ![sweep.build][Target] = file[sweep.build][Target]]

\* Mutant: what is in the quarantine is taken for the entry.
Moved_Unchecked == Found.quarantine # None
\* sameMoved.
Moved == Found.quarantine = Expected

\* What was moved must be the entry itself, or be gone already.
Unlink ==
    /\ At("unlink")
    /\ IF Found.quarantine = None THEN Go("sync") /\ SyncFile /\ UNCHANGED <<file, unlinked>>
       ELSE IF Moved
       THEN /\ file' = [file EXCEPT ![sweep.build][Target].quarantine = None]
            /\ unlinked' = unlinked \cup {<<sweep.build, Target, Found.quarantine>>}
            /\ SyncFile /\ Go("sync")
       ELSE Go("hold") /\ SyncFile /\ UNCHANGED <<file, unlinked>>
    /\ UNCHANGED <<database, backup, faults>>

\* Mutant: the directory is not synced after the unlink.
Record_Unsynced ==
    /\ At("sync")
    /\ UNCHANGED disk
    /\ sweep' = [sweep EXCEPT !.at = "entry", !.cursor = @ + 1, !.pending = FALSE,
                              !.left = @ - 1]
    /\ Save("deleting")
    /\ UNCHANGED <<build, evidence, epoch, file, unlinked, backup, faults>>

\* fsync, then the cursor.
Record ==
    /\ At("sync")
    /\ SyncFile
    /\ sweep' = [sweep EXCEPT !.at = "entry", !.cursor = @ + 1, !.pending = FALSE,
                              !.left = @ - 1]
    /\ Save("deleting")
    /\ UNCHANGED <<build, evidence, epoch, file, unlinked, backup, faults>>

\* Every root must be gone, then the log goes as far as the operations reach, and
\* with its last chunk the definition: one transaction.
Purge ==
    /\ At("entry") /\ sweep.cursor = FileCount /\ sweep.left > 0
    /\ Current /\ \A f \in Files : file[sweep.build][f].name = None
    /\ \E n \in 0..LogCount :
          LET logs == evidence[sweep.build].logs
              done == n = logs /\ n < sweep.left
          IN
          /\ n = logs \/ n = sweep.left
          /\ n <= logs /\ n <= sweep.left
          /\ evidence' = [evidence EXCEPT ![sweep.build] =
                            [logs |-> logs - n, definition |-> ~done]]
          /\ row' = IF done THEN [row EXCEPT ![sweep.build].state = "expired"] ELSE row
          /\ sweep' = [sweep EXCEPT !.at = "next", !.build = None,
                          !.left = @ - (IF done THEN n + 1 ELSE n)]
    /\ UNCHANGED <<build, epoch, files, backup, faults>>

Unexpected ==
    /\ At("entry") /\ sweep.cursor = FileCount /\ sweep.left > 0
    /\ ~Current \/ \E f \in Files : file[sweep.build][f].name # None
    /\ Go("hold")
    /\ UNCHANGED <<database, files, backup, faults>>

\* No operation is left for this build.
Postpone ==
    /\ At("entry") /\ sweep.left = 0
    /\ NextBuild
    /\ UNCHANGED <<database, files, backup, faults>>

\* A statement or a system call fails; the transaction is rolled back, what was
\* moved or unlinked is not.
OperationFails ==
    /\ sweep.at \in {"entry", "inspect", "move", "unlink", "sync"}
    /\ Go("hold") /\ Fault
    /\ UNCHANGED <<database, files, backup>>

Hold ==
    /\ At("hold")
    /\ NextBuild /\ Save("held")
    /\ UNCHANGED <<build, evidence, epoch, files, backup, faults>>

SweepStep ==
    \/ Plan \/ ReadPending \/ EndSweep
    \/ \E b \in Builds : BeginBuild(b)
    \/ Intend \/ Resume \/ Inspect \/ Move \/ Unlink \/ Record
    \/ Purge \/ Unexpected \/ Postpone \/ Hold

Next ==
    \/ SweepStep \/ OutOfTime \/ OperationFails
    \/ \E b \in Builds : Finish(b) \/ Retry(b) \/ \E f \in Files : Replace(b, f)
    \/ Kill \/ PowerFails \/ TakeBackup \/ Restore

\* Sweeps are run again and again and go on while nothing stops them.
Spec == Init /\ [][Next]_retentionVars /\ WF_retentionVars(SweepStep)
-----------------------------------------------------------------------------
\* Whatever is put in a file's place and whenever the sweep is cut off and run
\* again: nothing is unlinked but the very file the selection found, and only
\* while the row, durably, says that it is the next to go.
OnlyTheIntendedIsUnlinked ==
    [][unlinked' # unlinked =>
          \E b \in Builds, f \in Files :
              /\ row[b].state = "deleting" /\ row[b].pending /\ row[b].cursor + 1 = f
              /\ unlinked' = unlinked \cup {<<b, f, row[b].manifest[f]>>}
      ]_retentionVars

\* Evidence is whole or accounted for: a build that is running, was retried or
\* waits for somebody has all of it, and an expired one has nothing left that a
\* power failure could bring back, through restores to any earlier moment.
EvidenceIsWholeOrExpired ==
    \A b \in Builds :
        /\ build[b] # "terminal" \/ row[b] = NoRow =>
              /\ evidence[b].definition
              /\ build[b] # "running" => evidence[b].logs = LogCount
              /\ \A f \in Files : file[b][f].name # None
        /\ row[b].state = "expired" =>
              /\ evidence[b] = [logs |-> 0, definition |-> FALSE]
              /\ \A f \in Files, entries \in {file[b], disk[b]} :
                    row[b].manifest[f] \notin
                        {entries[f].name, entries[f].quarantine}

\* Unless plans are refused from some moment on, a selected build is expired or held
\* in the end, by sweeps of few operations that are cut off and run again.  Other
\* builds may have every plan refused, and with it every sweep.
SelectedIsSettled ==
    \A b \in Builds : []<>Plannable => (Unsettled(b) ~> ~Unsettled(b))
=============================================================================
