------------------------ MODULE RetentionSweep_proofs ------------------------
(***************************************************************************)
(* Proofs about RetentionSweep, for any number of builds, files, log       *)
(* chunks and faults and whatever the sweep may keep and do in one run.    *)
(***************************************************************************)
EXTENDS RetentionSweep, TLAPS

-----------------------------------------------------------------------------
\* The inductive invariant.

File == [identity : Nat, kind : Kinds]
Directory == [name : File \cup {None}, quarantine : File \cup {None}]
Selection == [state : {"selected", "deleting", "held", "expired"}, epoch : Nat,
              cursor : 0..FileCount, pending : BOOLEAN, manifest : [Files -> File]]
Row == Selection \cup {NoRow}
Evidence == [logs : Nat, definition : BOOLEAN]
BuildStates == {"running", "terminal", "held", "retried"}
Backup == [build : [Builds -> BuildStates], evidence : [Builds -> Evidence],
           row : [Builds -> Row], file : [Builds -> [Files -> Directory]]]

\* The phases in which the sweep has an entry in its hands, and those in which it
\* has a build.
Removing == {"inspect", "move", "unlink", "sync"}
Working == {"entry", "hold"} \cup Removing
Sweep == [at : {"none", "list", "next"} \cup Working, todo : SUBSET Builds,
          build : Builds \cup {None}, cursor : 0..FileCount, pending : BOOLEAN, left : Nat]

RetentionTypeOK ==
    /\ build \in [Builds -> BuildStates]
    /\ evidence \in [Builds -> Evidence]
    /\ row \in [Builds -> Row]
    /\ epoch \in Nat
    /\ file \in [Builds -> [Files -> Directory]]
    /\ disk \in [Builds -> [Files -> Directory]]
    /\ sweep \in Sweep
    /\ backup \in Backup \cup {None}
    /\ faults \in Nat

\* No file is newer than the last fault, so that a later one is another file.
Dated(files_, at) ==
    \A b \in Builds : \A f \in Files : \A found \in {files_[b][f].name, files_[b][f].quarantine} :
        found # None => found.identity <= at
RowsDated(rows) ==
    \A b \in Builds : rows[b] # NoRow => \A f \in Files : rows[b].manifest[f].identity <= faults

\* A build without a row has everything; one with a row is terminal.
Whole(builds, kept, rows) ==
    \A b \in Builds :
        /\ rows[b] # NoRow => builds[b] = "terminal"
        /\ rows[b] = NoRow => /\ kept[b].definition
                              /\ builds[b] # "running" => kept[b].logs = LogCount
        /\ rows[b] # NoRow /\ rows[b].state = "expired" =>
              kept[b] = [logs |-> 0, definition |-> FALSE] /\ rows[b].cursor = FileCount
FilesWhole(rows, files_) ==
    \A b \in Builds : rows[b] = NoRow => \A f \in Files : files_[b][f].name # None

\* What the cursor has passed is gone.
Gone(rows, files_) ==
    \A b \in Builds : rows[b] # NoRow => \A f \in Files : f <= rows[b].cursor =>
        rows[b].manifest[f] \notin {files_[b][f].name, files_[b][f].quarantine}

\* The row says what the sweep that works on it is about to do, and what it was to
\* unlink is not under its own name any more when it does.
SweepOK ==
    /\ sweep.at \in Working \cup {"next"} => \A b \in sweep.todo : Unsettled(b)
    /\ sweep.at \in Working =>
          /\ sweep.build \in Builds \ sweep.todo
          /\ Unsettled(sweep.build)
          /\ row[sweep.build].cursor = sweep.cursor
          /\ row[sweep.build].pending = sweep.pending
    /\ sweep.at \in Removing \cup {"entry"} => row[sweep.build].state = "deleting"
    /\ sweep.at \in Removing => sweep.pending /\ sweep.cursor < FileCount /\ sweep.left > 0
    /\ sweep.at \in {"unlink", "sync"} => Found.name # Expected
    /\ sweep.at = "sync" => Found.quarantine # Expected

BackupOK ==
    backup # None =>
        /\ Whole(backup.build, backup.evidence, backup.row)
        /\ RowsDated(backup.row)
        /\ FilesWhole(backup.row, backup.file)

RetentionInvariant ==
    /\ RetentionTypeOK
    /\ Dated(file, faults) /\ Dated(disk, faults)
    /\ RowsDated(row)
    /\ Whole(build, evidence, row)
    /\ FilesWhole(row, file) /\ FilesWhole(row, disk)
    /\ Gone(row, file) /\ Gone(row, disk)
    /\ SweepOK
    /\ BackupOK
-----------------------------------------------------------------------------
\* Facts about rows and files.

\* A build without a row is told by the state of the row.
LEMMA RowCases ==
    ASSUME NEW r \in Row
    PROVE  /\ r # NoRow => r \in Selection
           /\ r # NoRow <=> r.state \in {"selected", "deleting", "held", "expired"}
BY SMT DEF Row, Selection, NoRow

\* None is not a file, and the first file is one.
LEMMA FileFacts == None \notin File /\ 1 \in Files /\ FileCount \in Nat
BY NoneIsNoFile, RetentionBounds, SMT DEF File, Files

\* What Save makes of a row.
LEMMA SavedRow ==
    ASSUME RetentionTypeOK, sweep' \in Sweep, sweep.build \in Builds, row[sweep.build] # NoRow,
           NEW state \in {"selected", "deleting", "held", "expired"}, Save(state)
    PROVE  \E r \in Selection :
              /\ row' = [row EXCEPT ![sweep.build] = r]
              /\ r.state = state /\ r.cursor = sweep'.cursor /\ r.pending = sweep'.pending
              /\ r.epoch = row[sweep.build].epoch
              /\ r.manifest = row[sweep.build].manifest
<1> DEFINE b == sweep.build
           at == sweep'.cursor
           pending == sweep'.pending
           r == [row[b] EXCEPT !.state = state, !.cursor = at, !.pending = pending]
<1>1. row[b] \in Selection
  BY RowCases, SMT DEF RetentionTypeOK
<1>2. at \in 0..FileCount /\ pending \in BOOLEAN
  BY Zenon DEF Sweep
<1>3. row' = [row EXCEPT ![b] = r]
  BY DEF Save
<1> HIDE DEF b, at, pending
<1>4. r \in Selection
  BY <1>1, <1>2, Zenon DEF Selection
<1>5. /\ r.state = state /\ r.cursor = at /\ r.pending = pending
      /\ r.epoch = row[b].epoch /\ r.manifest = row[b].manifest
  BY <1>1, SMT DEF Selection
<1> QED
  BY <1>3, <1>4, <1>5 DEF b, at, pending

-----------------------------------------------------------------------------
\* The initial states.

LEMMA RetentionInit == Init => RetentionInvariant
<1> SUFFICES ASSUME Init PROVE RetentionInvariant
  OBVIOUS
<1> USE FileFacts DEF Init
<1>1. /\ Original \in File
      /\ Entry(Original) \in Directory
      /\ Entry(Original).name = Original /\ Entry(Original).quarantine = None
  BY SMT DEF Original, Entry, File, Directory, Kinds
<1>2. /\ file = [b \in Builds |-> [f \in Files |-> Entry(Original)]]
      /\ disk = [b \in Builds |-> [f \in Files |-> Entry(Original)]]
  OBVIOUS
<1>3. sweep \in Sweep
  BY SMT DEF NoSweep, Sweep
<1>4. RetentionTypeOK
  BY <1>1, <1>2, <1>3, SMT DEF RetentionTypeOK, BuildStates, Evidence, Row
<1>5. Dated(file, faults) /\ Dated(disk, faults)
  BY <1>1, <1>2, SMT DEF Dated, Original
<1>6. RowsDated(row) /\ Whole(build, evidence, row)
  BY SMT DEF RowsDated, Whole
<1>7. FilesWhole(row, file) /\ FilesWhole(row, disk)
  BY <1>1, <1>2, SMT DEF FilesWhole
<1>8. Gone(row, file) /\ Gone(row, disk)
  BY SMT DEF Gone
<1>9. SweepOK /\ BackupOK
  BY SMT DEF SweepOK, BackupOK, NoSweep, Working, Removing
<1> QED
  BY <1>4, <1>5, <1>6, <1>7, <1>8, <1>9 DEF RetentionInvariant

-----------------------------------------------------------------------------
\* What the steps have in common.

Phases == {"none", "list", "next"} \cup Working

LEMMA SweepGoes ==
    ASSUME RetentionTypeOK, NEW phase \in Phases, Go(phase)
    PROVE  /\ sweep' \in Sweep
           /\ sweep'.at = phase /\ sweep'.todo = sweep.todo /\ sweep'.build = sweep.build
           /\ sweep'.cursor = sweep.cursor /\ sweep'.pending = sweep.pending
           /\ sweep'.left = sweep.left
<1>1. sweep \in Sweep /\ sweep' = [sweep EXCEPT !.at = phase]
  BY DEF RetentionTypeOK, Go
<1>2. sweep' \in Sweep
  BY <1>1, Zenon DEF Sweep, Phases
<1> QED
  BY <1>1, <1>2, SMT DEF Sweep

LEMMA SweepLeaves ==
    ASSUME RetentionTypeOK, NextBuild
    PROVE  /\ sweep' \in Sweep
           /\ sweep'.at = "next" /\ sweep'.todo = sweep.todo
           /\ sweep'.cursor = sweep.cursor /\ sweep'.pending = sweep.pending
           /\ sweep'.left = sweep.left
<1>1. sweep \in Sweep /\ sweep' = [sweep EXCEPT !.at = "next", !.build = None]
  BY DEF RetentionTypeOK, NextBuild
<1>2. sweep' \in Sweep
  BY <1>1, Zenon DEF Sweep
<1> QED
  BY <1>1, <1>2, SMT DEF Sweep

LEMMA SweepStops ==
    NoSweep \in Sweep /\ NoSweep.at = "none"
BY FileFacts, SMT DEF NoSweep, Sweep

\* A step of the sweep, or its end, that leaves the database and the files alone.
LEMMA OnlySweep ==
    ASSUME RetentionInvariant, UNCHANGED <<database, files, backup>>,
           faults' \in {faults, faults + 1}, sweep' \in Sweep, SweepOK'
    PROVE  RetentionInvariant'
<1> USE DEF RetentionInvariant
<1>1. /\ build' = build /\ evidence' = evidence /\ row' = row /\ epoch' = epoch
      /\ file' = file /\ disk' = disk /\ backup' = backup
  BY DEF database, files
<1>2. faults \in Nat /\ faults' \in Nat /\ faults <= faults'
  BY SMT DEF RetentionTypeOK
<1>3. RetentionTypeOK'
  BY <1>1, <1>2, SMT DEF RetentionTypeOK
<1>4. Dated(file, faults)' /\ Dated(disk, faults)'
  BY <1>1, <1>2, SMT DEF Dated, RetentionTypeOK, Directory, File
<1>5. RowsDated(row)'
  BY <1>1, <1>2, RowCases, SMT DEF RowsDated, RetentionTypeOK, Selection, File
<1>6. Whole(build, evidence, row)' /\ FilesWhole(row, file)' /\ FilesWhole(row, disk)'
      /\ Gone(row, file)' /\ Gone(row, disk)'
  BY <1>1, SMT DEF Whole, FilesWhole, Gone
<1>7. BackupOK'
  BY <1>1, <1>2, RowCases, SMT DEF BackupOK, Whole, RowsDated, FilesWhole, RetentionTypeOK,
       Backup, Selection, File
<1> QED
  BY <1>3, <1>4, <1>5, <1>6, <1>7

\* One row goes on, with the manifest it has.
LEMMA RowMoves ==
    ASSUME RetentionInvariant, NEW b \in Builds, row[b] # NoRow, row[b].state # "expired",
           NEW r \in Selection, row' = [row EXCEPT ![b] = r],
           r.manifest = row[b].manifest, r.state # "expired",
           UNCHANGED <<build, evidence, faults>>
    PROVE  /\ row' \in [Builds -> Row]
           /\ row'[b] = r /\ r # NoRow
           /\ \A c \in Builds \ {b} : row'[c] = row[c]
           /\ RowsDated(row)' /\ Whole(build, evidence, row)'
           /\ FilesWhole(row', file) /\ FilesWhole(row', disk)
           /\ r.cursor <= row[b].cursor => Gone(row', file) /\ Gone(row', disk)
<1> USE DEF RetentionInvariant
<1>1. row \in [Builds -> Row] /\ row[b] \in Selection /\ r \in Row /\ r # NoRow
  BY RowCases, SMT DEF RetentionTypeOK, Row, Selection, NoRow
<1>2. /\ row' \in [Builds -> Row] /\ row'[b] = r
      /\ \A c \in Builds \ {b} : row'[c] = row[c]
  BY <1>1, SMT
<1>3. RowsDated(row)'
  BY <1>1, <1>2, SMT DEF RowsDated
<1>4. Whole(build, evidence, row)'
  BY <1>1, <1>2, SMT DEF Whole
<1>5. FilesWhole(row', file) /\ FilesWhole(row', disk)
  BY <1>1, <1>2, SMT DEF FilesWhole
<1>6. ASSUME r.cursor <= row[b].cursor PROVE Gone(row', file) /\ Gone(row', disk)
  <2>1. \A f \in Files : f <= r.cursor => f <= row[b].cursor
    BY <1>1, <1>6, FileFacts, SMT DEF Selection, Files
  <2> QED
    BY <1>1, <1>2, <2>1, SMT DEF Gone
<1> QED
  BY <1>1, <1>2, <1>3, <1>4, <1>5, <1>6

\* What may be put in a directory entry: nothing newer than at, nothing the cursor
\* has passed, and no gap where there is no row.
MayBear(b, f, entry, at) ==
    /\ \A found \in {entry.name, entry.quarantine} : found # None => found.identity <= at
    /\ row[b] = NoRow => entry.name # None
    /\ row[b] # NoRow /\ f <= row[b].cursor =>
          row[b].manifest[f] \notin {entry.name, entry.quarantine}

Put(old, new, b, f, entry) == new = [old EXCEPT ![b][f] = entry]

\* A directory entry is replaced by another.
LEMMA Placed ==
    ASSUME RetentionTypeOK, NEW b \in Builds, NEW f \in Files,
           NEW old \in [Builds -> [Files -> Directory]], NEW at \in Nat, faults <= at,
           Dated(old, faults), FilesWhole(row, old), Gone(row, old),
           NEW entry \in Directory,
           MayBear(b, f, entry, at),
           NEW new, Put(old, new, b, f, entry)
    PROVE  /\ new \in [Builds -> [Files -> Directory]]
           /\ Dated(new, at) /\ FilesWhole(row, new) /\ Gone(row, new)
           /\ new[b][f] = entry
<1>1. /\ new \in [Builds -> [Files -> Directory]]
      /\ new[b][f] = entry
      /\ \A c \in Builds : \A g \in Files : c # b \/ g # f => new[c][g] = old[c][g]
  BY SMT DEF Put
<1>2. Dated(new, at)
  <2> SUFFICES ASSUME NEW c \in Builds, NEW g \in Files,
                      NEW found \in {new[c][g].name, new[c][g].quarantine}, found # None
               PROVE  found.identity <= at
    BY DEF Dated
  <2>1. CASE c = b /\ g = f
    BY <1>1, <2>1 DEF MayBear
  <2>2. CASE c # b \/ g # f
    <3>1. found \in {old[c][g].name, old[c][g].quarantine}
      BY <1>1, <2>2
    <3>2. found.identity <= faults /\ found \in File
      BY <3>1, SMT DEF Dated, Directory
    <3> QED
      BY <3>2, SMT DEF RetentionTypeOK, File
  <2> QED
    BY <2>1, <2>2
<1>3. FilesWhole(row, new)
  BY <1>1, SMT DEF FilesWhole, MayBear
<1>4. Gone(row, new)
  <2> SUFFICES ASSUME NEW c \in Builds, row[c] # NoRow, NEW g \in Files, g <= row[c].cursor
               PROVE  row[c].manifest[g] \notin {new[c][g].name, new[c][g].quarantine}
    BY DEF Gone
  <2>1. CASE c = b /\ g = f
    BY <1>1, <2>1 DEF MayBear
  <2>2. CASE c # b \/ g # f
    BY <1>1, <2>2 DEF Gone
  <2> QED
    BY <2>1, <2>2
<1> QED
  BY <1>1, <1>2, <1>3, <1>4

-----------------------------------------------------------------------------
\* The steps of the sweep that leave the database and the files alone.

LEMMA IdleStep ==
    ASSUME RetentionInvariant, sweep' = NoSweep, UNCHANGED <<database, files, backup>>,
           Fault \/ UNCHANGED faults
    PROVE  RetentionInvariant'
<1>1. faults' \in {faults, faults + 1}
  BY DEF Fault
<1>2. SweepOK'
  BY SweepStops, SMT DEF SweepOK, Working, Removing
<1> QED
  BY <1>1, <1>2, SweepStops, OnlySweep

LEMMA ReadPendingStep == ASSUME RetentionInvariant, ReadPending PROVE RetentionInvariant'
<1>1. sweep \in Sweep
  BY DEF RetentionInvariant, RetentionTypeOK
<1>2. /\ sweep' \in Sweep /\ sweep'.at = "next"
      /\ sweep'.todo \subseteq {b \in Builds : Unsettled(b)}
  <2>0. PICK waiting \in SUBSET {b \in Builds : Unsettled(b)} :
           sweep' = [sweep EXCEPT !.at = "next", !.todo = waiting]
    BY DEF ReadPending, Listed
  <2>1. waiting \in SUBSET Builds /\ sweep' = [sweep EXCEPT !.at = "next", !.todo = waiting]
    BY <2>0
  <2>2. sweep' \in Sweep
    BY <1>1, <2>1, Zenon DEF Sweep
  <2>3. sweep'.at = "next" /\ sweep'.todo = waiting
    BY <1>1, <2>1, SMT DEF Sweep
  <2> QED
    BY <2>0, <2>2, <2>3
<1>3. SweepOK'
  <2>1. row' = row
    BY DEF ReadPending, database
  <2>2. \A b \in sweep'.todo : Unsettled(b)'
    BY <1>2, <2>1 DEF Unsettled
  <2> QED
    BY <1>2, <2>2, SMT DEF SweepOK, Working, Removing
<1> QED
  BY <1>2, <1>3, OnlySweep DEF ReadPending, database, files

\* To put an entry in doubt aside, or all of a build whose roots are not gone.
LEMMA HoldStep ==
    ASSUME RetentionInvariant, sweep.at \in Removing \cup {"entry"}, Go("hold"),
           UNCHANGED <<database, files, backup>>, Fault \/ UNCHANGED faults
    PROVE  RetentionInvariant'
<1>1. RetentionTypeOK /\ SweepOK /\ "hold" \in Phases
  BY SMT DEF RetentionInvariant, Phases, Working
<1>2. /\ sweep' \in Sweep
      /\ sweep'.at = "hold" /\ sweep'.todo = sweep.todo /\ sweep'.build = sweep.build
      /\ sweep'.cursor = sweep.cursor /\ sweep'.pending = sweep.pending
  BY <1>1, SweepGoes
<1>3. row' = row
  BY DEF database
<1>4. SweepOK'
  BY <1>1, <1>2, <1>3, SMT DEF SweepOK, Working, Removing, Unsettled
<1>5. faults' \in {faults, faults + 1}
  BY DEF Fault
<1> QED
  BY <1>2, <1>4, <1>5, OnlySweep

LEMMA ResumeStep == ASSUME RetentionInvariant, Resume PROVE RetentionInvariant'
<1>1. RetentionTypeOK /\ SweepOK /\ "inspect" \in Phases
  BY SMT DEF RetentionInvariant, Phases, Working, Removing
<1>2. /\ sweep.at = "entry" /\ sweep.cursor < FileCount /\ sweep.left > 0 /\ sweep.pending
      /\ Go("inspect") /\ UNCHANGED <<database, files, backup, faults>>
  BY DEF Resume, More, At
<1>3. /\ sweep' \in Sweep /\ sweep'.at = "inspect"
      /\ sweep'.todo = sweep.todo /\ sweep'.build = sweep.build
      /\ sweep'.cursor = sweep.cursor /\ sweep'.pending = sweep.pending
      /\ sweep'.left = sweep.left
  BY <1>1, <1>2, SweepGoes
<1>4. row' = row
  BY <1>2 DEF database
<1>5. SweepOK'
  <2>0. sweep.at = "entry"
    BY <1>2
  <2>1. /\ sweep.build \in Builds \ sweep.todo /\ Unsettled(sweep.build)
        /\ row[sweep.build].cursor = sweep.cursor /\ row[sweep.build].pending = sweep.pending
        /\ row[sweep.build].state = "deleting"
        /\ \A b \in sweep.todo : Unsettled(b)
    BY <1>1, <2>0, SMT DEF SweepOK, Working, Removing
  <2>2. sweep'.pending
    BY <1>2, <1>3
  <2> QED
    BY <1>2, <1>3, <1>4, <2>1, <2>2, SMT DEF SweepOK, Working, Removing, Unsettled
<1> QED
  BY <1>2, <1>3, <1>5, OnlySweep DEF database, files

LEMMA PostponeStep == ASSUME RetentionInvariant, Postpone PROVE RetentionInvariant'
<1> USE DEF Postpone, At
<1>1. RetentionTypeOK /\ SweepOK
  BY DEF RetentionInvariant
<1>2. sweep' \in Sweep /\ sweep'.at = "next" /\ sweep'.todo = sweep.todo
  BY <1>1, SweepLeaves
<1>3. row' = row
  BY DEF database
<1>4. SweepOK'
  BY <1>1, <1>2, <1>3, SMT DEF SweepOK, Working, Removing, Unsettled
<1> QED
  BY <1>2, <1>4, OnlySweep DEF database, files

\* Where an entry is in the hands of the sweep.
LEMMA InHand ==
    ASSUME RetentionInvariant, sweep.at \in Removing
    PROVE  /\ sweep.build \in Builds /\ Target \in Files
           /\ row[sweep.build] \in Selection
           /\ row[sweep.build].state = "deleting"
           /\ row[sweep.build].cursor = sweep.cursor
           /\ row[sweep.build].pending = sweep.pending /\ sweep.pending
           /\ sweep.build \notin sweep.todo
           /\ Expected \in File /\ Expected # None /\ Expected.identity <= faults
           /\ Found \in Directory
           /\ sweep.cursor \in Nat /\ sweep.cursor < FileCount /\ Target = sweep.cursor + 1
<1> USE DEF RetentionInvariant
<1>1. /\ sweep.build \in Builds \ sweep.todo /\ Unsettled(sweep.build)
      /\ row[sweep.build].cursor = sweep.cursor /\ row[sweep.build].pending = sweep.pending
      /\ row[sweep.build].state = "deleting" /\ sweep.pending /\ sweep.cursor < FileCount
  BY SMT DEF SweepOK, Working, Removing
<1>2. sweep.cursor \in Nat /\ Target \in Files /\ Target = sweep.cursor + 1
  BY <1>1, FileFacts, SMT DEF RetentionTypeOK, Sweep, Target, Files
<1>3. row[sweep.build] \in Selection /\ row[sweep.build] # NoRow
  <2>1. row[sweep.build] \in Row /\ row[sweep.build].state = "deleting"
    BY <1>1 DEF RetentionTypeOK
  <2> QED
    BY <2>1, RowCases, SMT
<1>4. Expected \in File /\ Expected # None /\ Expected.identity <= faults
  BY <1>1, <1>2, <1>3, FileFacts, SMT DEF Expected, Selection, RowsDated
<1>5. Found \in Directory
  BY <1>1, <1>2 DEF Found, RetentionTypeOK
<1> QED
  BY <1>1, <1>2, <1>3, <1>4, <1>5

LEMMA InspectStep == ASSUME RetentionInvariant, Inspect PROVE RetentionInvariant'
<1> USE DEF Inspect, At
<1>1. RetentionTypeOK /\ SweepOK /\ sweep.at \in Removing /\ {"hold", "move", "unlink"} \subseteq Phases
  BY SMT DEF RetentionInvariant, Phases, Working, Removing
<1>2. PICK phase \in {"hold", "move", "unlink"} :
         Go(phase) /\ (phase = "unlink" => Found.name = None)
  BY SMT
<1>3. /\ sweep' \in Sweep /\ sweep'.at = phase
      /\ sweep'.todo = sweep.todo /\ sweep'.build = sweep.build
      /\ sweep'.cursor = sweep.cursor /\ sweep'.pending = sweep.pending
      /\ sweep'.left = sweep.left
  BY <1>1, <1>2, SweepGoes
<1>4. row' = row /\ file' = file
  BY DEF database, files
<1>5. phase = "unlink" => (Found.name # Expected)'
  BY <1>1, <1>2, <1>3, <1>4, InHand, SMTT(30) DEF Found, Expected, Target
<1>6. SweepOK'
  BY <1>1, <1>2, <1>3, <1>4, <1>5, SMTT(30) DEF SweepOK, Working, Removing, Unsettled
<1> QED
  BY <1>3, <1>6, OnlySweep DEF database, files

-----------------------------------------------------------------------------
\* The steps of the sweep that write a row.

LEMMA BackupStays ==
    ASSUME RetentionInvariant, backup' = backup, faults' \in {faults, faults + 1}
    PROVE  BackupOK'
<1> USE DEF RetentionInvariant
<1>1. faults \in Nat /\ faults' \in Nat /\ faults <= faults'
  BY SMT DEF RetentionTypeOK
<1> QED
  BY <1>1, RowCases, SMT DEF BackupOK, Whole, RowsDated, FilesWhole, RetentionTypeOK,
       Backup, Selection, File

\* A row that moves, and no file.
LEMMA OnlyRow ==
    ASSUME RetentionInvariant, NEW b \in Builds, row[b] # NoRow, row[b].state # "expired",
           NEW r \in Selection, row' = [row EXCEPT ![b] = r],
           r.manifest = row[b].manifest, r.state # "expired", r.cursor = row[b].cursor,
           UNCHANGED <<build, evidence, epoch, files, backup, faults>>,
           sweep' \in Sweep, SweepOK'
    PROVE  RetentionInvariant'
<1>1. /\ row' \in [Builds -> Row]
      /\ RowsDated(row)' /\ Whole(build, evidence, row)'
      /\ FilesWhole(row', file) /\ FilesWhole(row', disk)
      /\ Gone(row', file) /\ Gone(row', disk)
  <2>1. r.cursor <= row[b].cursor
    BY FileFacts, SMT DEF Selection
  <2> QED
    BY <2>1, RowMoves
<1>2. file' = file /\ disk' = disk
  BY DEF files
<1>3. RetentionTypeOK'
  BY <1>1, <1>2, SMT DEF RetentionInvariant, RetentionTypeOK
<1>4. Dated(file, faults)' /\ Dated(disk, faults)'
  BY <1>2 DEF RetentionInvariant, Dated
<1>5. BackupOK'
  BY BackupStays
<1> QED
  BY <1>1, <1>2, <1>3, <1>4, <1>5, Zenon DEF RetentionInvariant, FilesWhole, Gone

\* Where the sweep has a build.
LEMMA BuildInHand ==
    ASSUME RetentionInvariant, sweep.at \in Working
    PROVE  /\ sweep.build \in Builds /\ sweep.build \notin sweep.todo
           /\ row[sweep.build] \in Selection /\ row[sweep.build] # NoRow
           /\ row[sweep.build].state \in {"selected", "deleting"}
           /\ row[sweep.build].cursor = sweep.cursor
           /\ row[sweep.build].pending = sweep.pending
           /\ \A b \in sweep.todo : b \in Builds /\ Unsettled(b)
           /\ sweep.cursor \in 0..FileCount /\ sweep.pending \in BOOLEAN
           /\ sweep \in Sweep
<1> USE DEF RetentionInvariant
<1>1. /\ sweep.build \in Builds \ sweep.todo /\ Unsettled(sweep.build)
      /\ row[sweep.build].cursor = sweep.cursor /\ row[sweep.build].pending = sweep.pending
      /\ \A b \in sweep.todo : Unsettled(b)
  BY SMT DEF SweepOK
<1>2. row[sweep.build] \in Row /\ row[sweep.build].state \in {"selected", "deleting"}
  BY <1>1 DEF RetentionTypeOK, Unsettled
<1>3. row[sweep.build] \in Selection /\ row[sweep.build] # NoRow
  BY <1>2, RowCases, SMT
<1>4. sweep \in Sweep
  BY DEF RetentionTypeOK
<1>5. sweep.todo \subseteq Builds /\ sweep.cursor \in 0..FileCount /\ sweep.pending \in BOOLEAN
  BY <1>4, Zenon DEF Sweep
<1> QED
  BY <1>1, <1>2, <1>3, <1>4, <1>5

LEMMA BeginBuildStep ==
    ASSUME RetentionInvariant, NEW b \in Builds, BeginBuild(b)
    PROVE  RetentionInvariant'
<1>1. /\ sweep.at = "next" /\ sweep.left > 0 /\ b \in sweep.todo
      /\ UNCHANGED <<build, evidence, epoch, files, backup, faults>>
  BY DEF BeginBuild, At
<1>2. RetentionTypeOK /\ SweepOK /\ sweep \in Sweep
  BY DEF RetentionInvariant, RetentionTypeOK
<1>3. /\ Unsettled(b) /\ row[b] \in Selection /\ row[b] # NoRow
      /\ \A c \in sweep.todo : Unsettled(c)
  <2>1. \A c \in sweep.todo : Unsettled(c)
    BY <1>1, <1>2, SMT DEF SweepOK
  <2>2. row[b] \in Row /\ row[b].state \in {"selected", "deleting"}
    BY <1>1, <1>2, <2>1 DEF RetentionTypeOK, Unsettled
  <2> QED
    BY <1>1, <2>1, <2>2, RowCases, SMT
<1>4. row[b].cursor \in 0..FileCount /\ row[b].pending \in BOOLEAN
  BY <1>3, Zenon DEF Selection
<1> DEFINE phase == IF row[b].epoch = epoch THEN "entry" ELSE "hold"
           r == IF row[b].epoch = epoch THEN [row[b] EXCEPT !.state = "deleting"] ELSE row[b]
<1>5. /\ sweep' = [sweep EXCEPT !.at = phase, !.todo = sweep.todo \ {b}, !.build = b,
                                !.cursor = row[b].cursor, !.pending = row[b].pending]
      /\ row' = [row EXCEPT ![b] = r]
  <2>1. row = [row EXCEPT ![b] = row[b]]
    BY <1>2 DEF RetentionTypeOK
  <2> QED
    BY <2>1 DEF BeginBuild
<1>6. phase \in {"entry", "hold"}
  OBVIOUS
<1>7. /\ r \in Selection /\ r.manifest = row[b].manifest /\ r.cursor = row[b].cursor
      /\ r.state \in {"selected", "deleting"} /\ (phase = "entry" => r.state = "deleting")
      /\ r.pending = row[b].pending
  <2>1. [row[b] EXCEPT !.state = "deleting"] \in Selection
    BY <1>3, Zenon DEF Selection
  <2> QED
    BY <1>3, <2>1, SMT DEF Selection, Unsettled
<1> HIDE DEF phase, r
<1>8. /\ sweep' \in Sweep /\ sweep'.at = phase /\ sweep'.todo = sweep.todo \ {b}
      /\ sweep'.build = b /\ sweep'.cursor = row[b].cursor /\ sweep'.pending = row[b].pending
  <2>1. sweep.todo \ {b} \in SUBSET Builds /\ phase \in {"none", "list", "next"} \cup Working
    BY <1>2, <1>6, SMT DEF Sweep, Working
  <2>2. sweep' \in Sweep
    BY <1>2, <1>4, <1>5, <2>1, Zenon DEF Sweep
  <2> QED
    BY <1>2, <1>5, <2>2, SMT DEF Sweep
<1>9. row[b].state # "expired" /\ r.state # "expired"
  BY <1>3, <1>7, SMT DEF Unsettled
<1>10. /\ row'[b] = r
       /\ \A c \in Builds \ {b} : row'[c] = row[c]
  BY <1>2, <1>5, SMT DEF RetentionTypeOK
<1>11. SweepOK'
  <2>1. \A c \in sweep'.todo : Unsettled(c)'
    <3> SUFFICES ASSUME NEW c \in sweep'.todo PROVE Unsettled(c)'
      OBVIOUS
    <3>1. c \in Builds \ {b} /\ Unsettled(c)
      BY <1>2, <1>3, <1>8, SMT DEF Sweep
    <3> QED
      BY <3>1, <1>10, SMT DEF Unsettled
  <2>2. b \in Builds \ sweep'.todo /\ Unsettled(b)'
    BY <1>7, <1>8, <1>10, SMT DEF Unsettled
  <2> QED
    BY <1>6, <1>7, <1>8, <1>10, <2>1, <2>2, SMT DEF SweepOK, Working, Removing
<1> QED
  BY <1>1, <1>3, <1>5, <1>7, <1>8, <1>9, <1>11, OnlyRow

LEMMA IntendStep == ASSUME RetentionInvariant, Intend PROVE RetentionInvariant'
<1>1. /\ sweep.at = "entry" /\ sweep.cursor < FileCount /\ sweep.left > 0
      /\ UNCHANGED <<build, evidence, epoch, files, backup, faults>>
  BY DEF Intend, More, At
<1>2. CASE ~(Found.name = Expected /\ Current)
  <2>1. Go("hold") /\ UNCHANGED <<database, files, backup>>
    BY <1>2 DEF Intend, database
  <2> QED
    BY <1>1, <2>1, HoldStep
<1>3. CASE Found.name = Expected /\ Current
  <2>1. /\ sweep' = [sweep EXCEPT !.at = "inspect", !.pending = TRUE]
        /\ Save("deleting")
    BY <1>3 DEF Intend
  <2>2. sweep.at \in Working
    BY <1>1, SMT DEF Working
  <2>0. PICK b \in Builds : b = sweep.build
    BY <2>2, BuildInHand
  <2>3. /\ sweep' \in Sweep /\ sweep'.at = "inspect" /\ sweep'.pending = TRUE
        /\ sweep'.cursor = sweep.cursor /\ sweep'.build = b /\ sweep'.todo = sweep.todo
        /\ sweep'.left = sweep.left
    <3>0. sweep.build = b
      BY <2>0
    <3>1. sweep \in Sweep /\ "inspect" \in {"none", "list", "next"} \cup Working
      BY <2>2, BuildInHand, SMT DEF Working, Removing
    <3>2. sweep' \in Sweep
      BY <2>1, <3>1, Zenon DEF Sweep
    <3> QED
      BY <2>1, <3>0, <3>1, <3>2, SMT DEF Sweep
  <2>4. /\ b \in Builds /\ row[b] # NoRow /\ row[b].state # "expired" /\ b \notin sweep.todo
        /\ \A c \in sweep.todo : c \in Builds /\ Unsettled(c)
        /\ row[b].cursor = sweep.cursor
    BY <2>0, <2>2, BuildInHand, SMT
  <2>5. RetentionTypeOK /\ sweep' \in Sweep
    BY <2>3 DEF RetentionInvariant
  <2>6. PICK r \in Selection :
           /\ row' = [row EXCEPT ![b] = r]
           /\ r.state = "deleting" /\ r.cursor = sweep'.cursor /\ r.pending = sweep'.pending
           /\ r.manifest = row[b].manifest
    <3>1. row[sweep.build] # NoRow /\ sweep.build \in Builds /\ "deleting" \in {"selected", "deleting", "held", "expired"}
      BY <2>0, <2>4, SMT
    <3>2. \E r \in Selection :
             /\ row' = [row EXCEPT ![sweep.build] = r]
             /\ r.state = "deleting" /\ r.cursor = sweep'.cursor /\ r.pending = sweep'.pending
             /\ r.epoch = row[sweep.build].epoch
             /\ r.manifest = row[sweep.build].manifest
      BY <2>1, <2>5, <3>1, SavedRow
    <3> QED
      BY <2>0, <3>2
  <2>7. row'[b] = r /\ \A c \in Builds \ {b} : row'[c] = row[c]
    BY <2>4, <2>5, <2>6, SMT DEF RetentionTypeOK
  <2>8. SweepOK'
    <3>1. \A c \in sweep'.todo : Unsettled(c)'
      BY <2>3, <2>4, <2>7, SMT DEF Unsettled
    <3>2. b \in Builds \ sweep'.todo /\ Unsettled(b)'
      BY <2>3, <2>4, <2>6, <2>7, SMT DEF Unsettled
    <3>3. sweep'.pending
      BY <2>3
    <3>4. row'[b].state = "deleting" /\ row'[b].cursor = sweep'.cursor
          /\ row'[b].pending = sweep'.pending
      BY <2>6, <2>7
    <3>5. sweep'.at = "inspect" /\ sweep'.build = b /\ sweep'.cursor < FileCount
          /\ sweep'.left > 0
      BY <1>1, <2>3
    <3>6. (\A c \in sweep.todo : Unsettled(c))'
      BY <3>1
    <3>7. (/\ sweep.build \in Builds \ sweep.todo
           /\ Unsettled(sweep.build)
           /\ row[sweep.build].cursor = sweep.cursor
           /\ row[sweep.build].pending = sweep.pending)'
      BY <3>2, <3>4, <3>5, SMT DEF Unsettled
    <3>8. (row[sweep.build].state = "deleting")'
      BY <3>4, <3>5
    <3>9. (sweep.pending /\ sweep.cursor < FileCount /\ sweep.left > 0)'
      BY <3>3, <3>5
    <3>10. sweep'.at \notin {"unlink", "sync"}
      BY <3>5
    <3> QED
      BY <3>6, <3>7, <3>8, <3>9, <3>10 DEF SweepOK
  <2> QED
    BY <1>1, <2>0, <2>3, <2>4, <2>6, <2>8, OnlyRow
<1> QED
  BY <1>2, <1>3

LEMMA HoldingStep == ASSUME RetentionInvariant, Hold PROVE RetentionInvariant'
<1>1. /\ sweep.at = "hold" /\ NextBuild /\ Save("held")
      /\ UNCHANGED <<build, evidence, epoch, files, backup, faults>>
  BY DEF Hold, At
<1>2. RetentionTypeOK /\ sweep.at \in Working
  BY <1>1, SMT DEF RetentionInvariant, Working
<1>3. /\ sweep' \in Sweep /\ sweep'.at = "next" /\ sweep'.todo = sweep.todo
      /\ sweep'.cursor = sweep.cursor
  BY <1>1, <1>2, SweepLeaves
<1>4. PICK b \in Builds : b = sweep.build
  BY <1>2, BuildInHand
<1>5. /\ row[b] # NoRow /\ row[b].state # "expired" /\ b \notin sweep.todo
      /\ \A c \in sweep.todo : c \in Builds /\ Unsettled(c)
      /\ row[b].cursor = sweep.cursor
  BY <1>2, <1>4, BuildInHand, SMT
<1>6. PICK r \in Selection :
         /\ row' = [row EXCEPT ![b] = r]
         /\ r.state = "held" /\ r.cursor = sweep.cursor /\ r.manifest = row[b].manifest
  <2>1. "held" \in {"selected", "deleting", "held", "expired"} /\ row[sweep.build] # NoRow
        /\ sweep.build \in Builds
    BY <1>4, <1>5
  <2>2. \E r \in Selection :
           /\ row' = [row EXCEPT ![sweep.build] = r]
           /\ r.state = "held" /\ r.cursor = sweep'.cursor /\ r.pending = sweep'.pending
           /\ r.epoch = row[sweep.build].epoch
           /\ r.manifest = row[sweep.build].manifest
    BY <1>1, <1>2, <1>3, <2>1, SavedRow
  <2> QED
    BY <1>3, <1>4, <2>2
<1>7. \A c \in Builds \ {b} : row'[c] = row[c]
  BY <1>2, <1>6, SMT DEF RetentionTypeOK
<1>8. SweepOK'
  <2>1. (\A c \in sweep.todo : Unsettled(c))'
    BY <1>3, <1>5, <1>7, SMT DEF Unsettled
  <2>2. sweep'.at \notin Working
    BY <1>3, SMT DEF Working, Removing
  <2>3. sweep'.at \notin Removing \cup {"entry"} /\ sweep'.at \notin {"unlink", "sync"}
    BY <1>3, SMT DEF Removing
  <2> QED
    BY <1>3, <2>1, <2>2, <2>3 DEF SweepOK
<1> QED
  BY <1>1, <1>3, <1>4, <1>5, <1>6, <1>8, OnlyRow

LEMMA RecordStep == ASSUME RetentionInvariant, Record PROVE RetentionInvariant'
<1>1. /\ sweep.at = "sync" /\ SyncFile
      /\ sweep' = [sweep EXCEPT !.at = "entry", !.cursor = @ + 1, !.pending = FALSE,
                                !.left = @ - 1]
      /\ Save("deleting")
      /\ UNCHANGED <<build, evidence, epoch, file, unlinked, backup, faults>>
  BY DEF Record, At
<1>2. RetentionTypeOK /\ SweepOK /\ sweep.at \in Working /\ sweep.at \in Removing
  BY <1>1, SMT DEF RetentionInvariant, Working, Removing
<1>3. PICK b \in Builds : b = sweep.build
  BY <1>2, BuildInHand
<1>4. PICK f \in Files : f = Target
  BY <1>2, InHand
<1>5. /\ row[b] # NoRow /\ row[b].state = "deleting" /\ b \notin sweep.todo
      /\ \A c \in sweep.todo : c \in Builds /\ Unsettled(c)
      /\ row[b].cursor = sweep.cursor
      /\ row[b] \in Selection
  BY <1>2, <1>3, BuildInHand, InHand, SMT
<1>6. /\ sweep.cursor \in Nat /\ sweep.left \in Nat \ {0} /\ sweep.cursor < FileCount
      /\ f = sweep.cursor + 1 /\ sweep \in Sweep
  BY <1>2, <1>4, InHand, SMT DEF SweepOK, RetentionTypeOK, Sweep
<1>7. /\ sweep' \in Sweep /\ sweep'.at = "entry" /\ sweep'.todo = sweep.todo
      /\ sweep'.build = b /\ sweep'.cursor = f
  <2>1. /\ sweep.cursor + 1 \in 0..FileCount /\ sweep.left - 1 \in Nat
        /\ "entry" \in {"none", "list", "next"} \cup Working
    BY <1>6, FileFacts, SMT DEF Working
  <2>2. sweep' \in Sweep
    BY <1>1, <1>6, <2>1, Zenon DEF Sweep
  <2>3. sweep.build = b
    BY <1>3
  <2> QED
    BY <1>1, <1>6, <2>2, <2>3, SMT DEF Sweep
<1>8. PICK r \in Selection :
         /\ row' = [row EXCEPT ![b] = r]
         /\ r.state = "deleting" /\ r.cursor = f /\ r.pending = sweep'.pending
         /\ r.manifest = row[b].manifest
  <2>1. "deleting" \in {"selected", "deleting", "held", "expired"} /\ row[sweep.build] # NoRow
        /\ sweep.build \in Builds
    BY <1>3, <1>5
  <2>2. \E r \in Selection :
           /\ row' = [row EXCEPT ![sweep.build] = r]
           /\ r.state = "deleting" /\ r.cursor = sweep'.cursor /\ r.pending = sweep'.pending
           /\ r.epoch = row[sweep.build].epoch
           /\ r.manifest = row[sweep.build].manifest
    BY <1>1, <1>2, <1>7, <2>1, SavedRow
  <2> QED
    BY <1>3, <1>7, <2>2
<1>9. /\ row' \in [Builds -> Row] /\ row'[b] = r /\ r # NoRow
      /\ \A c \in Builds \ {b} : row'[c] = row[c]
      /\ RowsDated(row)' /\ Whole(build, evidence, row)'
      /\ FilesWhole(row', file)
  <2>1. row[b].state # "expired" /\ r.state # "expired"
    BY <1>5, <1>8
  <2>2. UNCHANGED <<build, evidence, faults>>
    BY <1>1
  <2> QED
    BY <1>5, <1>8, <2>1, <2>2, RowMoves
<1>10. /\ Found = file[b][f] /\ Found \in Directory /\ Expected = row[b].manifest[f]
       /\ Expected \notin {Found.name, Found.quarantine}
  BY <1>1, <1>2, <1>3, <1>4, InHand, SMT DEF Found, Expected, SweepOK
<1>11. /\ disk' \in [Builds -> [Files -> Directory]]
       /\ Dated(disk', faults) /\ FilesWhole(row, disk') /\ Gone(row, disk')
       /\ disk'[b][f] = Found
  <2>1. Put(disk, disk', b, f, Found)
    BY <1>1, <1>3, <1>4, <1>10 DEF SyncFile, Put
  <2>2. MayBear(b, f, Found, faults)
    BY <1>5, <1>10 DEF MayBear, RetentionInvariant, Dated
  <2>3. faults \in Nat /\ faults <= faults
    BY <1>2, SMT DEF RetentionTypeOK
  <2>4. /\ disk \in [Builds -> [Files -> Directory]] /\ Dated(disk, faults)
        /\ FilesWhole(row, disk) /\ Gone(row, disk)
    BY <1>2 DEF RetentionInvariant, RetentionTypeOK
  <2>5. Found \in Directory /\ RetentionTypeOK
    BY <1>2, <1>10
  <2> QED
    BY <2>1, <2>2, <2>3, <2>4, <2>5, Placed
<1>12. FilesWhole(row', disk')
  BY <1>9, <1>11, SMT DEF FilesWhole
<1>13. ASSUME NEW files_, Gone(row, files_), files_[b][f] = Found
       PROVE  Gone(row', files_)
  <2> SUFFICES ASSUME NEW c \in Builds, row'[c] # NoRow, NEW g \in Files, g <= row'[c].cursor
               PROVE  row'[c].manifest[g] \notin {files_[c][g].name, files_[c][g].quarantine}
    BY DEF Gone
  <2>1. CASE c # b
    BY <1>9, <1>13, <2>1, SMT DEF Gone
  <2>2. CASE c = b /\ g = f
    BY <1>8, <1>9, <1>10, <1>13, <2>2, SMT
  <2>3. CASE c = b /\ g # f
    <3>1. g \in Nat /\ g <= row[b].cursor
      BY <1>5, <1>6, <1>8, <1>9, <2>3, SMT DEF Files
    <3> QED
      BY <1>5, <1>8, <1>9, <1>13, <2>3, <3>1, SMT DEF Gone
  <2> QED
    BY <2>1, <2>2, <2>3
<1>14. Gone(row', file') /\ Gone(row', disk')
  <2>1. Gone(row', file)
    BY <1>10, <1>13 DEF RetentionInvariant
  <2>2. Gone(row', disk')
    BY <1>11, <1>13
  <2>3. file' = file
    BY <1>1
  <2> QED
    BY <2>1, <2>2, <2>3
<1>15. RetentionTypeOK'
  BY <1>1, <1>2, <1>7, <1>9, <1>11, SMT DEF RetentionTypeOK
<1>16. SweepOK'
  <2>1. (\A c \in sweep.todo : Unsettled(c))'
    BY <1>5, <1>7, <1>9, SMT DEF Unsettled
  <2>2. (/\ sweep.build \in Builds \ sweep.todo
         /\ Unsettled(sweep.build)
         /\ row[sweep.build].cursor = sweep.cursor
         /\ row[sweep.build].pending = sweep.pending
         /\ row[sweep.build].state = "deleting")'
    BY <1>5, <1>7, <1>8, <1>9, SMT DEF Unsettled
  <2>3. sweep'.at \notin Removing /\ sweep'.at \notin {"unlink", "sync"}
    BY <1>7, SMT DEF Removing
  <2> QED
    BY <1>7, <2>1, <2>2, <2>3 DEF SweepOK
<1>17. BackupOK'
  BY <1>1, BackupStays
<1>18. Dated(file, faults)' /\ Dated(disk, faults)'
  BY <1>1, <1>11 DEF RetentionInvariant, Dated
<1>19. FilesWhole(row', file')
  BY <1>1, <1>9 DEF FilesWhole
<1> QED
  BY <1>9, <1>12, <1>14, <1>15, <1>16, <1>17, <1>18, <1>19, Zenon
     DEF RetentionInvariant, Gone, FilesWhole

LEMMA PurgeStep == ASSUME RetentionInvariant, Purge PROVE RetentionInvariant'
<1>1. /\ sweep.at = "entry" /\ sweep.cursor = FileCount
      /\ UNCHANGED <<build, epoch, files, backup, faults>>
  BY DEF Purge, At
<1>2. RetentionTypeOK /\ SweepOK /\ sweep.at \in Working
  BY <1>1, SMT DEF RetentionInvariant, Working
<1>3. PICK b \in Builds : b = sweep.build
  BY <1>2, BuildInHand
<1>4. /\ row[b] # NoRow /\ row[b].state = "deleting" /\ b \notin sweep.todo
      /\ \A c \in sweep.todo : c \in Builds /\ Unsettled(c)
      /\ row[b].cursor = FileCount
      /\ row[b] \in Selection
  <2>1. row[sweep.build].state = "deleting"
    BY <1>1, <1>2, SMT DEF SweepOK
  <2> QED
    BY <1>1, <1>2, <1>3, <2>1, BuildInHand, SMT
<1>5. PICK logs \in Nat, n \in 0..LogCount :
         LET done == n = logs /\ n < sweep.left
         IN  /\ n <= logs /\ n <= sweep.left
             /\ evidence' = [evidence EXCEPT ![b] = [logs |-> logs - n, definition |-> ~done]]
             /\ row' = IF done THEN [row EXCEPT ![b].state = "expired"] ELSE row
             /\ sweep' = [sweep EXCEPT !.at = "next", !.build = None,
                             !.left = @ - (IF done THEN n + 1 ELSE n)]
  <2>1. evidence[b] \in Evidence
    BY <1>2 DEF RetentionTypeOK
  <2>2. evidence[b].logs \in Nat
    BY <2>1 DEF Evidence
  <2> QED
    BY <1>3, <2>2 DEF Purge
<1> DEFINE done == n = logs /\ n < sweep.left
           spent == IF done THEN n + 1 ELSE n
           rest == [logs |-> logs - n, definition |-> ~done]
<1>6. sweep \in Sweep /\ sweep.left \in Nat /\ n \in Nat /\ n <= sweep.left /\ n <= logs
  BY <1>2, <1>5, RetentionBounds, SMT DEF RetentionTypeOK, Sweep
<1>7. /\ sweep' \in Sweep /\ sweep'.at = "next" /\ sweep'.todo = sweep.todo
  <2>1. sweep' = [sweep EXCEPT !.at = "next", !.build = None, !.left = sweep.left - spent]
    BY <1>5
  <2>2. sweep.left - spent \in Nat
    BY <1>6, SMT
  <2> HIDE DEF spent
  <2>3. sweep' \in Sweep
    BY <1>6, <2>1, <2>2, Zenon DEF Sweep
  <2> QED
    BY <1>6, <2>1, <2>3, SMT DEF Sweep
<1>8. rest \in Evidence /\ (done => rest = [logs |-> 0, definition |-> FALSE])
  <2>1. logs - n \in Nat /\ (done => logs - n = 0)
    BY <1>6, SMT
  <2>2. CASE done
    <3>1. rest = [logs |-> 0, definition |-> FALSE]
      BY <2>1, <2>2
    <3> QED
      BY <3>1, SMT DEF Evidence
  <2>3. CASE ~done
    <3>1. rest = [logs |-> logs - n, definition |-> TRUE]
      BY <2>3
    <3> HIDE DEF done, rest
    <3> QED
      BY <2>1, <2>3, <3>1, SMT DEF Evidence
  <2> QED
    BY <2>2, <2>3
<1>9. evidence' = [evidence EXCEPT ![b] = rest]
  BY <1>5
<1>10. PICK r \in Selection :
          /\ row' = [row EXCEPT ![b] = r]
          /\ r.manifest = row[b].manifest /\ r.cursor = FileCount
          /\ r.state = "deleting" \/ (done /\ r.state = "expired")
  <2>1. row = [row EXCEPT ![b] = row[b]]
    BY <1>2 DEF RetentionTypeOK
  <2>2. CASE ~done
    <3>1. row' = row
      BY <1>5, <2>2
    <3> HIDE DEF done
    <3> QED
      BY <1>4, <2>1, <3>1
  <2>3. CASE done
    <3>1. row' = [row EXCEPT ![b] = [row[b] EXCEPT !.state = "expired"]]
      BY <1>5, <2>3
    <3>2. [row[b] EXCEPT !.state = "expired"] \in Selection
      BY <1>4, Zenon DEF Selection
    <3>3. /\ [row[b] EXCEPT !.state = "expired"].manifest = row[b].manifest
          /\ [row[b] EXCEPT !.state = "expired"].cursor = row[b].cursor
          /\ [row[b] EXCEPT !.state = "expired"].state = "expired"
      BY <1>4, SMT DEF Selection
    <3> QED
      BY <1>4, <2>3, <3>1, <3>2, <3>3
  <2> QED
    BY <2>2, <2>3
<1> HIDE DEF done, rest
<1>11. row \in [Builds -> Row] /\ r \in Row /\ r # NoRow /\ evidence \in [Builds -> Evidence]
  BY <1>2, SMT DEF RetentionTypeOK, Row, Selection, NoRow
<1>12. /\ row' \in [Builds -> Row] /\ row'[b] = r
       /\ \A c \in Builds \ {b} : row'[c] = row[c]
       /\ evidence' \in [Builds -> Evidence] /\ evidence'[b] = rest
       /\ \A c \in Builds \ {b} : evidence'[c] = evidence[c]
  BY <1>8, <1>9, <1>10, <1>11, SMT
<1>13. build' = build /\ file' = file /\ disk' = disk /\ epoch' = epoch /\ faults' = faults
       /\ backup' = backup
  BY <1>1 DEF files
<1>14. RetentionTypeOK'
  BY <1>2, <1>7, <1>12, <1>13, SMT DEF RetentionTypeOK
<1>15. RowsDated(row)'
  BY <1>4, <1>10, <1>12, <1>13, SMT DEF RetentionInvariant, RowsDated
<1>16. Whole(build, evidence, row)'
  BY <1>4, <1>8, <1>10, <1>11, <1>12, <1>13, SMT DEF RetentionInvariant, Whole
<1>17. FilesWhole(row, file)' /\ FilesWhole(row, disk)'
  BY <1>4, <1>11, <1>12, <1>13, SMT DEF RetentionInvariant, FilesWhole
<1>18. Gone(row, file)' /\ Gone(row, disk)'
  BY <1>4, <1>10, <1>12, <1>13, SMT DEF RetentionInvariant, Gone
<1>19. SweepOK'
  <2>1. (\A c \in sweep.todo : Unsettled(c))'
    BY <1>4, <1>7, <1>12, SMT DEF Unsettled
  <2>2. sweep'.at \notin Working
    BY <1>7, SMT DEF Working, Removing
  <2>3. sweep'.at \notin Removing \cup {"entry"} /\ sweep'.at \notin {"unlink", "sync"}
    BY <1>7, SMT DEF Removing
  <2> QED
    BY <1>7, <2>1, <2>2, <2>3 DEF SweepOK
<1>20. Dated(file, faults)' /\ Dated(disk, faults)'
  BY <1>13 DEF RetentionInvariant, Dated
<1>21. BackupOK'
  BY <1>13, BackupStays
<1> QED
  BY <1>14, <1>15, <1>16, <1>17, <1>18, <1>19, <1>20, <1>21 DEF RetentionInvariant

LEMMA PlanStep == ASSUME RetentionInvariant, Plan PROVE RetentionInvariant'
<1>1. UNCHANGED <<build, evidence, epoch, files, backup, faults>>
  BY DEF Plan
<1>2. PICK chosen \in SUBSET Candidates :
         row' = [b \in Builds |->
                   IF b \in chosen
                   THEN [state |-> "selected", epoch |-> epoch, cursor |-> 0,
                         pending |-> FALSE,
                         manifest |-> [f \in Files |-> file[b][f].name]]
                   ELSE row[b]]
  BY DEF Plan
<1>3. /\ RetentionTypeOK
      /\ build' = build /\ evidence' = evidence /\ file' = file /\ disk' = disk
      /\ epoch' = epoch /\ faults' = faults /\ backup' = backup
  BY <1>1 DEF files, RetentionInvariant
<1>4. \A b \in chosen : b \in Builds /\ build[b] = "terminal" /\ row[b] = NoRow
  BY DEF Candidates
<1>5. ASSUME NEW b \in chosen
      PROVE  /\ row'[b] \in Selection /\ row'[b] # NoRow
             /\ row'[b].state = "selected" /\ row'[b].cursor = 0
             /\ \A f \in Files : row'[b].manifest[f].identity <= faults
  <2> DEFINE found == [f \in Files |-> file[b][f].name]
  <2>1. \A f \in Files : /\ file[b][f].name \in File
                         /\ file[b][f].name.identity <= faults
    <3> SUFFICES ASSUME NEW f \in Files
                 PROVE  file[b][f].name \in File /\ file[b][f].name.identity <= faults
      OBVIOUS
    <3>1. file[b][f] \in Directory /\ file[b][f].name # None
      BY <1>3, <1>4, <1>5 DEF RetentionInvariant, RetentionTypeOK, FilesWhole
    <3>2. file[b][f].name \in File
      BY <3>1, SMT DEF Directory
    <3> QED
      BY <1>4, <1>5, <3>1, <3>2 DEF RetentionInvariant, Dated
  <2>2. found \in [Files -> File] /\ \A f \in Files : found[f].identity <= faults
    BY <2>1
  <2>3. row'[b] = [state |-> "selected", epoch |-> epoch, cursor |-> 0,
                   pending |-> FALSE, manifest |-> found]
    BY <1>2, <1>4, <1>5
  <2> HIDE DEF found
  <2>4. epoch \in Nat /\ 0 \in 0..FileCount
    BY <1>3, FileFacts, SMT DEF RetentionTypeOK
  <2>5. row'[b] \in Selection
    BY <2>2, <2>3, <2>4, SMT DEF Selection
  <2> QED
    BY <2>2, <2>3, <2>5, RowCases, SMT DEF Row
<1>6. \A b \in Builds \ chosen : row'[b] = row[b]
  BY <1>2
<1>7. row' \in [Builds -> Row]
  <2>1. \A b \in Builds : row'[b] \in Row
    BY <1>3, <1>5, <1>6 DEF RetentionTypeOK, Row
  <2> QED
    BY <1>2, <2>1
<1>8. sweep' \in Sweep /\ sweep'.at = "list"
  <2>1. sweep' = [NoSweep EXCEPT !.at = "list", !.left = MaxOperations] /\ NoSweep \in Sweep
    BY SweepStops DEF Plan
  <2>2. MaxOperations \in Nat
    BY RetentionBounds
  <2>3. sweep' \in Sweep
    BY <2>1, <2>2, Zenon DEF Sweep
  <2> QED
    BY <2>1, <2>3, SMT DEF Sweep
<1>9. RetentionTypeOK'
  BY <1>3, <1>7, <1>8, SMT DEF RetentionTypeOK
<1>10. RowsDated(row)'
  BY <1>3, <1>5, <1>6, SMT DEF RetentionInvariant, RowsDated
<1>11. Whole(build, evidence, row)'
  BY <1>3, <1>4, <1>5, <1>6, SMT DEF RetentionInvariant, Whole
<1>12. FilesWhole(row, file)' /\ FilesWhole(row, disk)'
  BY <1>3, <1>5, <1>6, SMT DEF RetentionInvariant, FilesWhole
<1>13. Gone(row, file)' /\ Gone(row, disk)'
  <2>1. \A f \in Files : ~(f <= 0)
    BY FileFacts, SMT DEF Files
  <2> QED
    BY <1>3, <1>5, <1>6, <2>1, SMT DEF RetentionInvariant, Gone
<1>14. SweepOK'
  BY <1>8, SMT DEF SweepOK, Working, Removing
<1>15. Dated(file, faults)' /\ Dated(disk, faults)'
  BY <1>3 DEF RetentionInvariant, Dated
<1>16. BackupOK'
  BY <1>3, BackupStays
<1> QED
  BY <1>9, <1>10, <1>11, <1>12, <1>13, <1>14, <1>15, <1>16 DEF RetentionInvariant

-----------------------------------------------------------------------------
\* The steps that change a directory.

\* The entry in hand, as the sweep leaves it.
LEMMA MayLeave ==
    ASSUME RetentionInvariant, sweep.at \in Removing, NEW entry \in Directory,
           entry.name \in {Found.name, Found.quarantine, None},
           entry.quarantine \in {Found.name, Found.quarantine, None}
    PROVE  MayBear(sweep.build, Target, entry, faults)
<1>1. PICK b \in Builds, f \in Files : b = sweep.build /\ f = Target
  BY InHand
<1>2. /\ Found = file[b][f] /\ row[b] # NoRow /\ ~(f <= row[b].cursor)
  <2>1. row[b].cursor \in Nat /\ f = row[b].cursor + 1 /\ row[b] \in Selection
    BY <1>1, InHand, SMT
  <2> QED
    BY <1>1, <2>1, SMT DEF Found, Selection, NoRow
<1>3. \A found \in {entry.name, entry.quarantine} : found # None => found.identity <= faults
  BY <1>1, <1>2 DEF RetentionInvariant, Dated
<1>4. MayBear(b, f, entry, faults)
  BY <1>2, <1>3 DEF MayBear
<1> QED
  BY <1>1, <1>4

\* What the sweep does to the entry in hand changes nothing else.
LEMMA EntryChanges ==
    ASSUME RetentionInvariant, sweep.at \in Removing,
           UNCHANGED <<database, backup, faults>>,
           NEW entry \in Directory, MayBear(sweep.build, Target, entry, faults),
           Put(file, file', sweep.build, Target, entry) \/ file' = file,
           NEW synced \in Directory, MayBear(sweep.build, Target, synced, faults),
           Put(disk, disk', sweep.build, Target, synced) \/ disk' = disk,
           sweep' \in Sweep, SweepOK'
    PROVE  RetentionInvariant'
<1>1. PICK b \in Builds, f \in Files : b = sweep.build /\ f = Target
  BY InHand
<1>2. /\ RetentionTypeOK
      /\ build' = build /\ evidence' = evidence /\ row' = row /\ epoch' = epoch
      /\ backup' = backup /\ faults' = faults
  BY DEF database, RetentionInvariant
<1>3. faults \in Nat /\ faults <= faults
  BY <1>2, SMT DEF RetentionTypeOK
<1>4. MayBear(b, f, entry, faults) /\ MayBear(b, f, synced, faults)
  BY <1>1
<1>5. ASSUME NEW old \in [Builds -> [Files -> Directory]],
             Dated(old, faults), FilesWhole(row, old), Gone(row, old),
             NEW put \in Directory, MayBear(b, f, put, faults),
             NEW new, Put(old, new, b, f, put) \/ new = old
      PROVE  /\ new \in [Builds -> [Files -> Directory]]
             /\ Dated(new, faults) /\ FilesWhole(row, new) /\ Gone(row, new)
  <2>1. CASE new = old
    BY <1>5, <2>1
  <2>2. CASE Put(old, new, b, f, put)
    BY <1>2, <1>3, <1>5, <2>2, Placed
  <2> QED
    BY <1>5, <2>1, <2>2
<1>6. /\ file' \in [Builds -> [Files -> Directory]]
      /\ Dated(file', faults) /\ FilesWhole(row, file') /\ Gone(row, file')
  <2>1. Put(file, file', b, f, entry) \/ file' = file
    BY <1>1
  <2>2. /\ file \in [Builds -> [Files -> Directory]]
        /\ Dated(file, faults) /\ FilesWhole(row, file) /\ Gone(row, file)
    BY <1>2 DEF RetentionInvariant, RetentionTypeOK
  <2> QED
    BY <1>4, <1>5, <2>1, <2>2
<1>7. /\ disk' \in [Builds -> [Files -> Directory]]
      /\ Dated(disk', faults) /\ FilesWhole(row, disk') /\ Gone(row, disk')
  <2>1. Put(disk, disk', b, f, synced) \/ disk' = disk
    BY <1>1
  <2>2. /\ disk \in [Builds -> [Files -> Directory]]
        /\ Dated(disk, faults) /\ FilesWhole(row, disk) /\ Gone(row, disk)
    BY <1>2 DEF RetentionInvariant, RetentionTypeOK
  <2> QED
    BY <1>4, <1>5, <2>1, <2>2
<1>8. RetentionTypeOK'
  BY <1>2, <1>6, <1>7, SMT DEF RetentionTypeOK
<1>9. RowsDated(row)' /\ Whole(build, evidence, row)' /\ BackupOK'
  BY <1>2, BackupStays DEF RetentionInvariant, RowsDated, Whole
<1>10. Dated(file, faults)' /\ Dated(disk, faults)'
  BY <1>2, <1>6, <1>7 DEF Dated
<1>11. FilesWhole(row, file)' /\ FilesWhole(row, disk)'
  BY <1>2, <1>6, <1>7 DEF FilesWhole
<1>12. Gone(row, file)' /\ Gone(row, disk)'
  BY <1>2, <1>6, <1>7 DEF Gone
<1> QED
  BY <1>8, <1>9, <1>10, <1>11, <1>12 DEF RetentionInvariant

\* The sweep still works on the entry it has in its hands.
LEMMA StillInHand ==
    ASSUME RetentionInvariant, sweep.at \in Removing, UNCHANGED <<database, backup, faults>>,
           NEW phase \in {"unlink", "sync", "hold"}, Go(phase),
           phase \in {"unlink", "sync"} => (Found.name # Expected)',
           phase = "sync" => (Found.quarantine # Expected)'
    PROVE  sweep' \in Sweep /\ SweepOK'
<1>1. RetentionTypeOK /\ SweepOK /\ phase \in Phases
  BY SMT DEF RetentionInvariant, Phases, Working, Removing
<1>2. /\ sweep' \in Sweep /\ sweep'.at = phase
      /\ sweep'.todo = sweep.todo /\ sweep'.build = sweep.build
      /\ sweep'.cursor = sweep.cursor /\ sweep'.pending = sweep.pending
      /\ sweep'.left = sweep.left
  BY <1>1, SweepGoes
<1>3. row' = row
  BY DEF database
<1>4. SweepOK'
  BY <1>1, <1>2, <1>3, SMT DEF SweepOK, Working, Removing, Unsettled
<1> QED
  BY <1>2, <1>4

LEMMA MoveStep == ASSUME RetentionInvariant, Move PROVE RetentionInvariant'
<1> DEFINE entry == [name |-> None, quarantine |-> Found.name]
<1>1. /\ sweep.at = "move" /\ Go("unlink")
      /\ Put(file, file', sweep.build, Target, entry)
      /\ UNCHANGED <<database, disk, backup, faults>>
  BY DEF Move, At, Put
<1>2. sweep.at \in Removing /\ "unlink" \in Phases /\ RetentionTypeOK
  BY <1>1, SMT DEF Removing, RetentionInvariant, Phases, Working
<1>3. entry \in Directory
  BY <1>2, InHand, SMT DEF Directory
<1>4. entry.name = None /\ entry.quarantine = Found.name
  OBVIOUS
<1> HIDE DEF entry
<1>5. MayBear(sweep.build, Target, entry, faults)
  BY <1>2, <1>3, <1>4, MayLeave
<1>6. (Found.name # Expected)'
  <2>1. sweep'.build = sweep.build /\ Target' = Target
    BY <1>1, <1>2, SweepGoes DEF Target
  <2>2. file'[sweep.build][Target] = entry
    BY <1>1, <1>2, InHand, SMT DEF RetentionTypeOK, Put
  <2>3. Expected' = Expected /\ Found' = entry
    BY <1>1, <2>1, <2>2 DEF Expected, Found, database
  <2> QED
    BY <1>2, <1>4, <2>3, InHand
<1>7. sweep' \in Sweep /\ SweepOK'
  BY <1>1, <1>2, <1>6, StillInHand
<1> QED
  BY <1>1, <1>2, <1>3, <1>5, <1>7, EntryChanges

LEMMA UnlinkStep == ASSUME RetentionInvariant, Unlink PROVE RetentionInvariant'
<1>1. /\ sweep.at = "unlink" /\ UNCHANGED <<database, backup, faults>>
  BY DEF Unlink, At
<1>2. sweep.at \in Removing /\ RetentionTypeOK /\ SweepOK
  BY <1>1, SMT DEF Removing, RetentionInvariant
<1>3. Found.name # Expected /\ Found \in Directory /\ Expected # None
  BY <1>1, <1>2, InHand, SMT DEF SweepOK
<1>4. PICK b \in Builds, f \in Files : b = sweep.build /\ f = Target
  BY <1>2, InHand
<1>5. file \in [Builds -> [Files -> Directory]]
  BY <1>2 DEF RetentionTypeOK
<1>6. CASE Found.quarantine = None \/ ~Moved
  <2>1. PICK phase \in {"sync", "hold"} :
           /\ Go(phase) /\ SyncFile /\ file' = file
           /\ phase = "sync" => Found.quarantine = None
    BY <1>6 DEF Unlink
  <2>2. Put(disk, disk', sweep.build, Target, Found)
    BY <2>1 DEF SyncFile, Put, Found
  <2>3. MayBear(sweep.build, Target, Found, faults)
    BY <1>2, <1>3, MayLeave
  <2>4. Found' = Found /\ Expected' = Expected
    <3>1. sweep'.build = sweep.build /\ sweep'.cursor = sweep.cursor
      <4>1. phase \in Phases
        BY <2>1, SMT DEF Phases, Working, Removing
      <4> QED
        BY <1>2, <2>1, <4>1, SweepGoes
    <3> QED
      BY <1>1, <2>1, <3>1 DEF Found, Expected, Target, database
  <2>5. sweep' \in Sweep /\ SweepOK'
    <3>1. phase = "sync" => Found.quarantine # Expected
      BY <1>3, <2>1
    <3>2. phase \in {"unlink", "sync", "hold"}
      OBVIOUS
    <3> QED
      BY <1>1, <1>2, <1>3, <2>1, <2>4, <3>1, <3>2, StillInHand
  <2> QED
    BY <1>1, <1>2, <1>3, <2>1, <2>2, <2>3, <2>5, EntryChanges
<1>7. CASE Found.quarantine # None /\ Moved
  <2> DEFINE entry == [Found EXCEPT !.quarantine = None]
  <2>1. /\ Go("sync") /\ SyncFile
        /\ file' = [file EXCEPT ![sweep.build][Target].quarantine = None]
    BY <1>7 DEF Unlink
  <2>2. entry \in Directory /\ entry.name = Found.name /\ entry.quarantine = None
    BY <1>3, SMT DEF Directory
  <2>3. file' = [file EXCEPT ![sweep.build][Target] = entry]
    BY <1>4, <1>5, <2>1 DEF Found
  <2> HIDE DEF entry
  <2>4. file'[sweep.build][Target] = entry
    BY <1>4, <1>5, <2>3
  <2>5. Put(file, file', sweep.build, Target, entry)
    BY <2>3 DEF Put
  <2>6. MayBear(sweep.build, Target, entry, faults)
    BY <1>2, <2>2, MayLeave
  <2>7. "sync" \in Phases
    BY SMT DEF Phases, Working, Removing
  <2>8. sweep'.build = sweep.build /\ sweep'.cursor = sweep.cursor
    BY <1>2, <2>1, <2>7, SweepGoes
  <2>9. Found' = entry /\ Expected' = Expected
    BY <1>1, <2>4, <2>8 DEF Found, Expected, Target, database
  <2>10. sweep' \in Sweep /\ SweepOK'
    BY <1>1, <1>2, <1>3, <2>1, <2>2, <2>9, StillInHand
  <2>11. Put(disk, disk', sweep.build, Target, Found)
    BY <2>1 DEF SyncFile, Put, Found
  <2>12. MayBear(sweep.build, Target, Found, faults)
    BY <1>2, <1>3, MayLeave
  <2> QED
    BY <1>1, <1>2, <1>3, <2>2, <2>5, <2>6, <2>10, <2>11, <2>12, EntryChanges
<1> QED
  BY <1>6, <1>7

\* The file of somebody else is another file than any manifest names.
LEMMA ReplaceStep ==
    ASSUME RetentionInvariant, NEW b \in Builds, NEW f \in Files, Replace(b, f)
    PROVE  RetentionInvariant'
<1>0. PICK kind \in Kinds : file' = [file EXCEPT ![b][f].name = [identity |-> faults', kind |-> kind]]
  BY DEF Replace
<1> DEFINE foreign == [identity |-> faults', kind |-> kind]
           entry == [file[b][f] EXCEPT !.name = foreign]
<1>1. /\ faults' = faults + 1
      /\ file' = [file EXCEPT ![b][f].name = foreign]
      /\ disk' = [disk EXCEPT ![b][f] = file'[b][f]]
      /\ UNCHANGED <<database, unlinked, sweep, backup>>
  BY <1>0 DEF Replace, Fault
<1>2. /\ RetentionTypeOK /\ SweepOK
      /\ build' = build /\ evidence' = evidence /\ row' = row /\ epoch' = epoch
      /\ backup' = backup /\ sweep' = sweep
  BY <1>1 DEF database, RetentionInvariant
<1>3. faults \in Nat /\ faults' \in Nat /\ faults <= faults' /\ faults < faults'
  BY <1>1, <1>2, SMT DEF RetentionTypeOK
<1>4. file[b][f] \in Directory
  BY <1>2 DEF RetentionTypeOK
<1>5. foreign \in File /\ foreign.identity = faults' /\ foreign # None
  <2>1. foreign \in File
    BY <1>3, Zenon DEF File
  <2> QED
    BY <2>1, FileFacts, Zenon
<1> HIDE DEF foreign
<1>6. entry \in Directory /\ entry.name = foreign /\ entry.quarantine = file[b][f].quarantine
  BY <1>4, <1>5, SMT DEF Directory
<1>7. file' = [file EXCEPT ![b][f] = entry]
  BY <1>1, <1>2 DEF RetentionTypeOK
<1> HIDE DEF entry
<1>8. file'[b][f] = entry
  BY <1>2, <1>7 DEF RetentionTypeOK
<1>9. Put(file, file', b, f, entry) /\ Put(disk, disk', b, f, entry)
  BY <1>1, <1>7, <1>8 DEF Put
<1>10. ASSUME NEW c \in Builds, row[c] # NoRow, NEW g \in Files
       PROVE  row[c].manifest[g] # foreign
  <2>1. row[c] \in Row
    BY <1>2 DEF RetentionTypeOK
  <2>2. row[c] \in Selection
    BY <1>10, <2>1, RowCases
  <2>3. row[c].manifest[g] \in File
    BY <2>2, SMT DEF Selection
  <2>4. row[c].manifest[g].identity <= faults
    BY <1>10 DEF RetentionInvariant, RowsDated
  <2>5. row[c].manifest[g].identity \in Nat
    BY <2>3, SMT DEF File
  <2>6. row[c].manifest[g].identity # faults'
    BY <1>3, <2>4, <2>5, SMT
  <2> QED
    BY <1>5, <2>6
<1>11. MayBear(b, f, entry, faults')
  <2>1. ASSUME NEW found \in {entry.name, entry.quarantine}, found # None
        PROVE  found.identity <= faults'
    <3>1. CASE found = foreign
      BY <1>3, <1>5, <3>1, SMT
    <3>2. CASE found = file[b][f].quarantine
      <4>1. found \in File
        BY <1>4, <2>1, <3>2, SMT DEF Directory
      <4>2. found.identity <= faults /\ found.identity \in Nat
        BY <2>1, <3>2, <4>1, SMT DEF RetentionInvariant, Dated, File
      <4> QED
        BY <1>3, <4>2, SMT
    <3> QED
      BY <1>6, <2>1, <3>1, <3>2
  <2>2. ASSUME row[b] # NoRow, f <= row[b].cursor
        PROVE  row[b].manifest[f] \notin {entry.name, entry.quarantine}
    BY <1>6, <1>10, <2>2 DEF RetentionInvariant, Gone
  <2> QED
    BY <1>5, <1>6, <2>1, <2>2 DEF MayBear
<1>12. /\ file' \in [Builds -> [Files -> Directory]]
       /\ Dated(file', faults') /\ FilesWhole(row, file') /\ Gone(row, file')
  <2>1. /\ file \in [Builds -> [Files -> Directory]]
        /\ Dated(file, faults) /\ FilesWhole(row, file) /\ Gone(row, file)
    BY <1>2 DEF RetentionInvariant, RetentionTypeOK
  <2> QED
    BY <1>2, <1>3, <1>6, <1>9, <1>11, <2>1, Placed
<1>13. /\ disk' \in [Builds -> [Files -> Directory]]
       /\ Dated(disk', faults') /\ FilesWhole(row, disk') /\ Gone(row, disk')
  <2>1. /\ disk \in [Builds -> [Files -> Directory]]
        /\ Dated(disk, faults) /\ FilesWhole(row, disk) /\ Gone(row, disk)
    BY <1>2 DEF RetentionInvariant, RetentionTypeOK
  <2> QED
    BY <1>2, <1>3, <1>6, <1>9, <1>11, <2>1, Placed
<1>14. RetentionTypeOK'
  BY <1>2, <1>3, <1>12, <1>13, SMT DEF RetentionTypeOK
<1>15. RowsDated(row)'
  <2> SUFFICES ASSUME NEW c \in Builds, row[c] # NoRow, NEW g \in Files
               PROVE  row[c].manifest[g].identity <= faults'
    BY <1>2 DEF RowsDated
  <2>1. row[c] \in Selection
    BY <1>2, RowCases DEF RetentionTypeOK
  <2>2. row[c].manifest[g].identity <= faults /\ row[c].manifest[g].identity \in Nat
    BY <2>1, SMT DEF RetentionInvariant, RowsDated, Selection, File
  <2> QED
    BY <1>3, <2>2, SMT
<1>16. SweepOK'
  <2>1. ASSUME sweep.at \in {"unlink", "sync"}
        PROVE  (Found.name # Expected)'
    <3>1. sweep.at \in Removing
      BY <2>1, SMT DEF Removing
    <3>2. PICK c \in Builds, g \in Files : c = sweep.build /\ g = Target
      BY <3>1, InHand
    <3>3. Expected' = row[c].manifest[g] /\ Found' = file'[c][g] /\ row[c] # NoRow
      BY <1>2, <3>1, <3>2, InHand, SMT DEF Expected, Found, Target, Selection, NoRow
    <3>4. CASE c = b /\ g = f
      BY <1>6, <1>8, <1>10, <3>3, <3>4
    <3>5. CASE c # b \/ g # f
      <4>1. file'[c][g] = file[c][g]
        BY <1>2, <1>7, <3>5, SMT DEF RetentionTypeOK
      <4>2. Found' = Found /\ Expected' = Expected
        BY <3>2, <3>3, <4>1 DEF Found, Expected
      <4> QED
        BY <1>2, <2>1, <4>2 DEF SweepOK
    <3> QED
      BY <3>4, <3>5
  <2>2. ASSUME sweep.at = "sync"
        PROVE  (Found.quarantine # Expected)'
    <3>1. sweep.at \in Removing
      BY <2>2, SMT DEF Removing
    <3>2. PICK c \in Builds, g \in Files : c = sweep.build /\ g = Target
      BY <3>1, InHand
    <3>3. /\ Expected' = Expected /\ Found' = file'[c][g] /\ Found = file[c][g]
      BY <1>2, <3>2 DEF Expected, Found, Target
    <3>4. file'[c][g].quarantine = file[c][g].quarantine
      BY <1>2, <1>6, <1>7, SMT DEF RetentionTypeOK
    <3> QED
      BY <1>2, <2>2, <3>3, <3>4 DEF SweepOK
  <2> QED
    BY <1>2, <2>1, <2>2 DEF SweepOK, Unsettled
<1>17. BackupOK'
  BY <1>1, <1>2, BackupStays
<1>18. Whole(build, evidence, row)' /\ Dated(file, faults)' /\ Dated(disk, faults)'
  BY <1>2, <1>12, <1>13 DEF RetentionInvariant, Whole, Dated
<1>19. /\ FilesWhole(row, file)' /\ FilesWhole(row, disk)'
       /\ Gone(row, file)' /\ Gone(row, disk)'
  BY <1>2, <1>12, <1>13 DEF FilesWhole, Gone
<1> QED
  BY <1>14, <1>15, <1>16, <1>17, <1>18, <1>19 DEF RetentionInvariant

LEMMA PowerFailsStep == ASSUME RetentionInvariant, PowerFails PROVE RetentionInvariant'
<1>1. /\ faults' = faults + 1 /\ disk' = file' /\ sweep' = NoSweep
      /\ UNCHANGED <<database, unlinked, backup>>
      /\ file' \in [Builds -> [Files -> Directory]]
      /\ \A b \in Builds : \A f \in Files : file'[b][f] \in {disk[b][f], file[b][f]}
  <2>1. PICK lost \in SUBSET (Builds \X Files) :
          file' = [b \in Builds |-> [f \in Files |->
                     IF <<b, f>> \in lost THEN disk[b][f] ELSE file[b][f]]]
    BY DEF PowerFails
  <2>2. file \in [Builds -> [Files -> Directory]] /\ disk \in [Builds -> [Files -> Directory]]
    BY DEF RetentionInvariant, RetentionTypeOK
  <2>3. file' \in [Builds -> [Files -> Directory]]
    BY <2>1, <2>2, SMT
  <2>4. \A b \in Builds : \A f \in Files : file'[b][f] \in {disk[b][f], file[b][f]}
    BY <2>1, SMT
  <2> QED
    BY <2>3, <2>4 DEF PowerFails, Fault
<1>2. /\ RetentionTypeOK
      /\ build' = build /\ evidence' = evidence /\ row' = row /\ epoch' = epoch
      /\ backup' = backup
  BY <1>1 DEF database, RetentionInvariant
<1>3. faults \in Nat /\ faults' \in Nat /\ faults < faults' /\ faults <= faults'
  BY <1>1, <1>2, SMT DEF RetentionTypeOK
<1>4. RetentionTypeOK'
  BY <1>1, <1>2, <1>3, SweepStops, SMT DEF RetentionTypeOK
<1>5. Dated(file', faults')
  <2> SUFFICES ASSUME NEW b \in Builds, NEW f \in Files,
                      NEW found \in {file'[b][f].name, file'[b][f].quarantine}, found # None
               PROVE  found.identity <= faults'
    BY DEF Dated
  <2>1. PICK entry \in {disk[b][f], file[b][f]} : found \in {entry.name, entry.quarantine}
    BY <1>1
  <2>2. entry \in Directory /\ found.identity <= faults
    BY <1>2, <2>1, SMT DEF RetentionInvariant, RetentionTypeOK, Dated
  <2>3. found.identity \in Nat
    BY <2>1, <2>2, SMT DEF Directory, File
  <2> QED
    BY <1>3, <2>2, <2>3, SMT
<1>6. RowsDated(row)'
  <2> SUFFICES ASSUME NEW c \in Builds, row[c] # NoRow, NEW g \in Files
               PROVE  row[c].manifest[g].identity <= faults'
    BY <1>2 DEF RowsDated
  <2>1. row[c] \in Selection
    BY <1>2, RowCases DEF RetentionTypeOK
  <2>2. row[c].manifest[g].identity <= faults /\ row[c].manifest[g].identity \in Nat
    BY <2>1, SMT DEF RetentionInvariant, RowsDated, Selection, File
  <2> QED
    BY <1>3, <2>2, SMT
<1>7. FilesWhole(row, file') /\ Gone(row, file')
  <2>1. FilesWhole(row, file')
    BY <1>1, SMT DEF RetentionInvariant, FilesWhole
  <2>2. Gone(row, file')
    <3> SUFFICES ASSUME NEW b \in Builds, row[b] # NoRow, NEW f \in Files, f <= row[b].cursor
                 PROVE  row[b].manifest[f] \notin {file'[b][f].name, file'[b][f].quarantine}
      BY DEF Gone
    <3>1. /\ row[b].manifest[f] \notin {file[b][f].name, file[b][f].quarantine}
          /\ row[b].manifest[f] \notin {disk[b][f].name, disk[b][f].quarantine}
      BY DEF RetentionInvariant, Gone
    <3>2. file'[b][f] = disk[b][f] \/ file'[b][f] = file[b][f]
      BY <1>1
    <3> QED
      BY <3>1, <3>2
  <2> QED
    BY <2>1, <2>2
<1>8. SweepOK'
  BY <1>1, SweepStops, SMT DEF SweepOK, Working, Removing
<1>9. BackupOK'
  BY <1>1, <1>2, BackupStays
<1>10. Whole(build, evidence, row)' /\ Dated(file, faults)' /\ Dated(disk, faults)'
  BY <1>1, <1>2, <1>5 DEF RetentionInvariant, Whole, Dated
<1>11. /\ FilesWhole(row, file)' /\ FilesWhole(row, disk)'
       /\ Gone(row, file)' /\ Gone(row, disk)'
  BY <1>1, <1>2, <1>7 DEF FilesWhole, Gone
<1> QED
  BY <1>4, <1>6, <1>8, <1>9, <1>10, <1>11 DEF RetentionInvariant

\* A backup is of a moment the invariant held, and what is extracted from it is no
\* file of any manifest.
LEMMA RestoreStep == ASSUME RetentionInvariant, Restore PROVE RetentionInvariant'
<1> DEFINE Extracted(found) == IF found = None THEN None
                               ELSE [found EXCEPT !.identity = faults']
<1>1. /\ sweep = NoSweep /\ backup # None /\ faults' = faults + 1
      /\ build' = backup.build /\ evidence' = backup.evidence /\ row' = backup.row
      /\ epoch' = epoch + 1 /\ disk' = file' /\ sweep' = sweep /\ backup' = backup
      /\ file' = [b \in Builds |-> [f \in Files |->
                    [name |-> Extracted(backup.file[b][f].name),
                     quarantine |-> Extracted(backup.file[b][f].quarantine)]]]
  BY DEF Restore, Fault
<1>2. RetentionTypeOK /\ backup \in Backup
  BY <1>1 DEF RetentionInvariant, RetentionTypeOK
<1>3. faults \in Nat /\ faults' \in Nat /\ faults < faults' /\ epoch' \in Nat
  BY <1>1, <1>2, SMT DEF RetentionTypeOK
<1>4. /\ build' \in [Builds -> BuildStates] /\ evidence' \in [Builds -> Evidence]
      /\ row' \in [Builds -> Row] /\ backup.file \in [Builds -> [Files -> Directory]]
  BY <1>1, <1>2, SMT DEF Backup
<1>5. ASSUME NEW found \in File \cup {None}
      PROVE  /\ Extracted(found) \in File \cup {None}
             /\ Extracted(found) = None <=> found = None
             /\ Extracted(found) # None => Extracted(found).identity = faults'
  <2>1. CASE found = None
    BY <2>1
  <2>2. CASE found # None
    <3>1. found \in File /\ Extracted(found) = [found EXCEPT !.identity = faults']
      BY <1>5, <2>2
    <3>2. Extracted(found) \in File
      BY <1>3, <3>1, Zenon DEF File
    <3>3. Extracted(found).identity = faults'
      BY <3>1, SMT DEF File
    <3> HIDE DEF Extracted
    <3> QED
      BY <2>2, <3>2, <3>3, FileFacts
  <2> QED
    BY <2>1, <2>2
<1> HIDE DEF Extracted
<1>6. ASSUME NEW b \in Builds, NEW f \in Files
      PROVE  /\ file'[b][f] \in Directory
             /\ backup.file[b][f].name # None => file'[b][f].name # None
             /\ \A found \in {file'[b][f].name, file'[b][f].quarantine} :
                   found # None => found.identity = faults'
  <2>1. backup.file[b][f] \in Directory
    BY <1>4
  <2>2. /\ backup.file[b][f].name \in File \cup {None}
        /\ backup.file[b][f].quarantine \in File \cup {None}
    BY <2>1 DEF Directory
  <2>3. file'[b][f] = [name |-> Extracted(backup.file[b][f].name),
                       quarantine |-> Extracted(backup.file[b][f].quarantine)]
    BY <1>1
  <2> QED
    BY <1>5, <2>2, <2>3, SMT DEF Directory
<1>7. file' \in [Builds -> [Files -> Directory]]
  BY <1>1, <1>6
<1>8. RetentionTypeOK'
  BY <1>1, <1>2, <1>3, <1>4, <1>7, SweepStops, SMT DEF RetentionTypeOK
<1>9. Dated(file', faults')
  BY <1>3, <1>6, SMT DEF Dated
<1>10. /\ Whole(backup.build, backup.evidence, backup.row) /\ RowsDated(backup.row)
       /\ FilesWhole(backup.row, backup.file)
  BY <1>1 DEF RetentionInvariant, BackupOK
<1>11. ASSUME NEW b \in Builds, row'[b] # NoRow, NEW f \in Files
       PROVE  /\ row'[b].manifest[f].identity \in Nat
              /\ row'[b].manifest[f].identity < faults' /\ row'[b].manifest[f] # None
  <2>1. row'[b] \in Row
    BY <1>4
  <2>2. row'[b] \in Selection
    BY <1>11, <2>1, RowCases
  <2>3. row'[b].manifest[f] \in File
    BY <2>2, SMT DEF Selection
  <2>4. row'[b].manifest[f].identity <= faults
    BY <1>1, <1>10, <1>11 DEF RowsDated
  <2>5. row'[b].manifest[f].identity \in Nat /\ row'[b].manifest[f] # None
    BY <2>3, FileFacts, SMT DEF File
  <2> QED
    BY <1>3, <2>4, <2>5, SMT
<1>12. RowsDated(row)'
  BY <1>3, <1>11, SMT DEF RowsDated
<1>13. Whole(build, evidence, row)'
  BY <1>1, <1>10 DEF Whole
<1>14. FilesWhole(row', file')
  BY <1>1, <1>6, <1>10 DEF FilesWhole
<1>15. Gone(row', file')
  <2> SUFFICES ASSUME NEW b \in Builds, row'[b] # NoRow, NEW f \in Files,
                      row'[b].manifest[f] \in {file'[b][f].name, file'[b][f].quarantine}
               PROVE  FALSE
    BY DEF Gone
  <2>1. row'[b].manifest[f].identity = faults'
    BY <1>6, <1>11
  <2>2. row'[b].manifest[f].identity < faults' /\ row'[b].manifest[f].identity \in Nat
    BY <1>11
  <2> QED
    BY <1>3, <2>1, <2>2, SMT
<1>16. SweepOK'
  BY <1>1, SweepStops, SMT DEF SweepOK, Working, Removing
<1>17. BackupOK'
  BY <1>1, BackupStays
<1>18. Dated(file, faults)' /\ Dated(disk, faults)'
  BY <1>1, <1>9 DEF Dated
<1>19. /\ FilesWhole(row, file)' /\ FilesWhole(row, disk)'
       /\ Gone(row, file)' /\ Gone(row, disk)'
  BY <1>1, <1>14, <1>15 DEF FilesWhole, Gone
<1> QED
  BY <1>8, <1>12, <1>13, <1>16, <1>17, <1>18, <1>19 DEF RetentionInvariant

-----------------------------------------------------------------------------
\* The steps of the builds, and the backup.

LEMMA BuildStep ==
    ASSUME RetentionInvariant, NEW b \in Builds, Finish(b) \/ Retry(b)
    PROVE  RetentionInvariant'
<1>1. /\ UNCHANGED <<row, epoch, files, sweep, backup, faults>>
      /\ file' = file /\ disk' = disk
      /\ RetentionTypeOK /\ row[b] = NoRow
  <2>1. row[b] # NoRow => build[b] = "terminal"
    BY DEF RetentionInvariant, Whole
  <2> QED
    BY <2>1 DEF Finish, Retry, files, RetentionInvariant
<1>2. PICK ended \in {"terminal", "held", "retried"} : build' = [build EXCEPT ![b] = ended]
  BY DEF Finish, Retry
<1>3. /\ build \in [Builds -> BuildStates] /\ evidence \in [Builds -> Evidence]
      /\ row \in [Builds -> Row]
  BY <1>1 DEF RetentionTypeOK
<1>4. /\ evidence' \in [Builds -> Evidence]
      /\ evidence'[b].definition /\ evidence'[b].logs = LogCount
      /\ \A c \in Builds \ {b} : evidence'[c] = evidence[c]
  <2>1. /\ evidence[b] \in Evidence /\ evidence[b].definition
        /\ build[b] # "running" => evidence[b].logs = LogCount
    BY <1>1, <1>3 DEF RetentionInvariant, Whole
  <2>2. CASE Retry(b)
    BY <1>3, <2>1, <2>2 DEF Retry
  <2>3. CASE Finish(b)
    <3>1. LogCount \in Nat
      BY RetentionBounds
    <3>2. evidence' = [evidence EXCEPT ![b] = [evidence[b] EXCEPT !.logs = LogCount]]
      BY <1>3, <2>3 DEF Finish
    <3>3. [evidence[b] EXCEPT !.logs = LogCount] \in Evidence
      BY <2>1, <3>1, Zenon DEF Evidence
    <3>4. [evidence[b] EXCEPT !.logs = LogCount].definition
      BY <2>1, Zenon DEF Evidence
    <3>5. [evidence[b] EXCEPT !.logs = LogCount].logs = LogCount
      BY <2>1, SMT DEF Evidence
    <3>6. /\ evidence' \in [Builds -> Evidence]
          /\ evidence'[b] = [evidence[b] EXCEPT !.logs = LogCount]
          /\ \A c \in Builds \ {b} : evidence'[c] = evidence[c]
      BY <1>3, <3>2, <3>3
    <3> QED
      BY <3>4, <3>5, <3>6
  <2> QED
    BY <2>2, <2>3
<1>5. /\ build' \in [Builds -> BuildStates] /\ build'[b] = ended
      /\ \A c \in Builds \ {b} : build'[c] = build[c]
  BY <1>2, <1>3, SMT DEF BuildStates
<1>6. RetentionTypeOK'
  BY <1>1, <1>4, <1>5, SMT DEF RetentionTypeOK
<1>7. Whole(build, evidence, row)'
  <2> SUFFICES ASSUME NEW c \in Builds
               PROVE  /\ row[c] # NoRow => build'[c] = "terminal"
                      /\ row[c] = NoRow => /\ evidence'[c].definition
                                           /\ build'[c] # "running" =>
                                                 evidence'[c].logs = LogCount
                      /\ row[c] # NoRow /\ row[c].state = "expired" =>
                            /\ evidence'[c] = [logs |-> 0, definition |-> FALSE]
                            /\ row[c].cursor = FileCount
    BY <1>1 DEF Whole
  <2>1. CASE c = b
    BY <1>1, <1>4, <2>1
  <2>2. CASE c # b
    <3>1. build'[c] = build[c] /\ evidence'[c] = evidence[c]
      BY <1>4, <1>5, <2>2
    <3> QED
      BY <3>1 DEF RetentionInvariant, Whole
  <2> QED
    BY <2>1, <2>2
<1>8. SweepOK'
  BY <1>1 DEF RetentionInvariant, SweepOK, Unsettled, Found, Expected, Target
<1>9. BackupOK'
  BY <1>1, BackupStays
<1>10. /\ Dated(file, faults)' /\ Dated(disk, faults)' /\ RowsDated(row)'
       /\ FilesWhole(row, file)' /\ FilesWhole(row, disk)'
       /\ Gone(row, file)' /\ Gone(row, disk)'
  BY <1>1 DEF RetentionInvariant, Dated, RowsDated, FilesWhole, Gone
<1> QED
  BY <1>6, <1>7, <1>8, <1>9, <1>10 DEF RetentionInvariant

LEMMA TakeBackupStep == ASSUME RetentionInvariant, TakeBackup PROVE RetentionInvariant'
<1>1. /\ backup' = [build |-> build, evidence |-> evidence, row |-> row, file |-> file]
      /\ build' = build /\ evidence' = evidence /\ row' = row /\ epoch' = epoch
      /\ file' = file /\ disk' = disk /\ sweep' = sweep /\ faults' = faults
      /\ RetentionTypeOK
  BY DEF TakeBackup, database, files, RetentionInvariant
<1>2. backup' \in Backup
  BY <1>1, SMT DEF Backup, RetentionTypeOK
<1>3. RetentionTypeOK'
  BY <1>1, <1>2 DEF RetentionTypeOK
<1>4. BackupOK'
  <2>1. /\ backup'.build = build /\ backup'.evidence = evidence
        /\ backup'.row = row /\ backup'.file = file
    BY <1>1
  <2> QED
    BY <1>1, <2>1 DEF RetentionInvariant, BackupOK, Whole, RowsDated, FilesWhole
<1>5. SweepOK'
  BY <1>1 DEF RetentionInvariant, SweepOK, Unsettled, Found, Expected, Target
<1>6. /\ Dated(file, faults)' /\ Dated(disk, faults)' /\ RowsDated(row)'
      /\ Whole(build, evidence, row)'
      /\ FilesWhole(row, file)' /\ FilesWhole(row, disk)'
      /\ Gone(row, file)' /\ Gone(row, disk)'
  BY <1>1 DEF RetentionInvariant, Dated, RowsDated, Whole, FilesWhole, Gone
<1> QED
  BY <1>3, <1>4, <1>5, <1>6 DEF RetentionInvariant

-----------------------------------------------------------------------------
\* Every step.

LEMMA RetentionStep == RetentionInvariant /\ [Next]_retentionVars => RetentionInvariant'
<1> SUFFICES ASSUME RetentionInvariant, [Next]_retentionVars PROVE RetentionInvariant'
  OBVIOUS
<1>1. CASE SweepStep
  <2>1. CASE Plan
    BY <2>1, PlanStep
  <2>2. CASE ReadPending
    BY <2>2, ReadPendingStep
  <2>3. CASE EndSweep
    BY <2>3, IdleStep DEF EndSweep
  <2>4. CASE \E b \in Builds : BeginBuild(b)
    BY <2>4, BeginBuildStep
  <2>5. CASE Intend
    BY <2>5, IntendStep
  <2>6. CASE Resume
    BY <2>6, ResumeStep
  <2>7. CASE Inspect
    BY <2>7, InspectStep
  <2>8. CASE Move
    BY <2>8, MoveStep
  <2>9. CASE Unlink
    BY <2>9, UnlinkStep
  <2>10. CASE Record
    BY <2>10, RecordStep
  <2>11. CASE Purge
    BY <2>11, PurgeStep
  <2>12. CASE Unexpected
    <3>1. sweep.at \in Removing \cup {"entry"}
      BY <2>12 DEF Unexpected, At
    <3> QED
      BY <2>12, <3>1, HoldStep DEF Unexpected
  <2>13. CASE Postpone
    BY <2>13, PostponeStep
  <2>14. CASE Hold
    BY <2>14, HoldingStep
  <2> QED
    BY <1>1, <2>1, <2>2, <2>3, <2>4, <2>5, <2>6, <2>7, <2>8, <2>9, <2>10, <2>11, <2>12, <2>13,
       <2>14 DEF SweepStep
<1>2. CASE OutOfTime
  BY <1>2, IdleStep DEF OutOfTime
<1>3. CASE OperationFails
  <2>1. sweep.at \in Removing \cup {"entry"}
    BY <1>3, SMT DEF OperationFails, Removing
  <2> QED
    BY <1>3, <2>1, HoldStep DEF OperationFails
<1>4. CASE \E b \in Builds : Finish(b) \/ Retry(b)
  BY <1>4, BuildStep
<1>5. CASE \E b \in Builds : \E f \in Files : Replace(b, f)
  BY <1>5, ReplaceStep
<1>6. CASE Kill
  BY <1>6, IdleStep DEF Kill
<1>7. CASE PowerFails
  BY <1>7, PowerFailsStep
<1>8. CASE TakeBackup
  BY <1>8, TakeBackupStep
<1>9. CASE Restore
  BY <1>9, RestoreStep
<1>10. CASE UNCHANGED retentionVars
  <2>1. /\ UNCHANGED <<database, files, backup>> /\ faults' = faults /\ sweep' = sweep
        /\ file' = file /\ row' = row
    BY <1>10 DEF retentionVars, database, files
  <2>2. sweep' \in Sweep /\ SweepOK'
    BY <2>1 DEF RetentionInvariant, RetentionTypeOK, SweepOK, Unsettled, Found, Expected, Target
  <2> QED
    BY <2>1, <2>2, OnlySweep
<1> QED
  BY <1>1, <1>2, <1>3, <1>4, <1>5, <1>6, <1>7, <1>8, <1>9, <1>10 DEF Next

\* The invariant of the sweep, in which everything below is.
THEOREM Retention == Spec => []RetentionInvariant
<1>1. Init => RetentionInvariant
  BY RetentionInit
<1>2. RetentionInvariant /\ [Next]_retentionVars => RetentionInvariant'
  BY RetentionStep
<1> QED
  BY <1>1, <1>2, PTL DEF Spec

\* Whatever is replaced, killed, cut off by a power failure or restored: a build that
\* is not expired by a journalled deletion has all its evidence, and of an expired one
\* nothing the selection found can come back.
THEOREM WholeOrExpired == Spec => []EvidenceIsWholeOrExpired
<1>1. RetentionInvariant => EvidenceIsWholeOrExpired
  <2> SUFFICES ASSUME RetentionInvariant, NEW b \in Builds
               PROVE  /\ build[b] # "terminal" \/ row[b] = NoRow =>
                            /\ evidence[b].definition
                            /\ build[b] # "running" => evidence[b].logs = LogCount
                            /\ \A f \in Files : file[b][f].name # None
                      /\ row[b].state = "expired" =>
                            /\ evidence[b] = [logs |-> 0, definition |-> FALSE]
                            /\ \A f \in Files, entries \in {file[b], disk[b]} :
                                  row[b].manifest[f] \notin
                                      {entries[f].name, entries[f].quarantine}
    BY DEF EvidenceIsWholeOrExpired
  <2>1. ASSUME build[b] # "terminal" \/ row[b] = NoRow
        PROVE  /\ evidence[b].definition
               /\ build[b] # "running" => evidence[b].logs = LogCount
               /\ \A f \in Files : file[b][f].name # None
    BY <2>1 DEF RetentionInvariant, Whole, FilesWhole
  <2>2. ASSUME row[b].state = "expired"
        PROVE  /\ evidence[b] = [logs |-> 0, definition |-> FALSE]
               /\ \A f \in Files, entries \in {file[b], disk[b]} :
                     row[b].manifest[f] \notin {entries[f].name, entries[f].quarantine}
    <3>1. row[b] \in Row
      BY DEF RetentionInvariant, RetentionTypeOK
    <3>2. row[b] # NoRow
      BY <2>2, <3>1, RowCases, SMT
    <3>3. evidence[b] = [logs |-> 0, definition |-> FALSE] /\ row[b].cursor = FileCount
      BY <2>2, <3>2 DEF RetentionInvariant, Whole
    <3>4. \A f \in Files : f <= row[b].cursor
      BY <3>3, FileFacts, SMT DEF Files
    <3> QED
      BY <3>2, <3>3, <3>4 DEF RetentionInvariant, Gone
  <2> QED
    BY <2>1, <2>2
<1> QED
  BY <1>1, Retention, PTL

\* The one step that unlinks a file unlinks what the row, durably, says is next, and
\* nothing but the very file the selection found.
LEMMA UnlinkIsIntended ==
    ASSUME RetentionInvariant, [Next]_retentionVars, unlinked' # unlinked
    PROVE  \E b \in Builds, f \in Files :
              /\ row[b].state = "deleting" /\ row[b].pending /\ row[b].cursor + 1 = f
              /\ unlinked' = unlinked \cup {<<b, f, row[b].manifest[f]>>}
<1>1. Unlink
  BY DEF Next, SweepStep, Plan, ReadPending, EndSweep, BeginBuild, Intend, Resume, Inspect, Move,
         Record, Purge, Unexpected, Postpone, Hold, OutOfTime, OperationFails, Finish, Retry,
         Replace, Kill, PowerFails, TakeBackup, Restore, database, files, retentionVars
<1>2. sweep.at \in Removing
  BY <1>1, SMT DEF Unlink, At, Removing
<1>3. PICK b \in Builds, f \in Files : b = sweep.build /\ f = Target
  BY <1>2, InHand
<1>4. unlinked' = unlinked \cup {<<b, f, row[b].manifest[f]>>}
  BY <1>1, <1>3 DEF Unlink, Moved, Expected
<1>5. /\ row[b].state = "deleting" /\ row[b].cursor = sweep.cursor
      /\ row[b].pending = sweep.pending /\ sweep.pending /\ f = sweep.cursor + 1
  BY <1>2, <1>3, InHand
<1>6. row[b].pending /\ row[b].cursor + 1 = f
  BY <1>5
<1> QED
  BY <1>4, <1>5, <1>6

THEOREM Intended == Spec => OnlyTheIntendedIsUnlinked
<1>1. RetentionInvariant /\ [Next]_retentionVars =>
         [unlinked' # unlinked =>
             \E b \in Builds, f \in Files :
                /\ row[b].state = "deleting" /\ row[b].pending /\ row[b].cursor + 1 = f
                /\ unlinked' = unlinked \cup {<<b, f, row[b].manifest[f]>>}]_retentionVars
  BY UnlinkIsIntended
<1> QED
  BY <1>1, Retention, PTL DEF Spec, OnlyTheIntendedIsUnlinked
=============================================================================
