---------------------------- MODULE PairedBackup ----------------------------
(***************************************************************************)
(* Recovery points: scripts/paired-backup.py create and check, and the     *)
(* operator's scripts/qualification/operator-check.py that reads them.     *)
(*                                                                         *)
(* The state root is read file by file three times and the database once,  *)
(* while writers that should be quiesced may still run; the tool records   *)
(* the operator's assertion and stops nobody.  A change gives a file a     *)
(* content it never had.  Each invocation of create writes one output.     *)
(* The clock is read by everybody and never runs backwards.                *)
(***************************************************************************)
EXTENDS Naturals, Sequences, FiniteSets

CONSTANTS
    Outputs,        \* recovery points, one per create
    FileCount,      \* files in the state root, in the order of a walk
    MaxAge,         \* --max-backup-age-hours
    MaxCaptures,    \* bound: creates between their first and last walk at once
    MaxVersion,     \* bound: changes of a file
    MaxTime,        \* bound: clock readings
    None

ASSUME FileCountAssumption == FileCount \in Nat \ {0}
ASSUME BackupBounds ==
    /\ MaxAge \in Nat \ {0} /\ MaxCaptures \in Nat \ {0}
    /\ MaxVersion \in Nat /\ MaxTime \in Nat
ASSUME NoneIsNoTime == None \notin Nat

\* Under the state root, which never holds an output.
Files == 1..FileCount
Versions == 0..MaxVersion

VARIABLES
    state,      \* content of every file under the state root
    now,        \* the clock
    point,      \* per output: the create and what it left on disk
    failed_at,  \* per output: when its create took the time of its failure
    record,     \* per output: its failure record on disk
    monitor     \* an operator-check and what it has read

failures == <<failed_at, record>>
backupVars == <<state, now, point, failures, monitor>>
-----------------------------------------------------------------------------
\* whole: the output's three files are there, with the digests and sizes of the
\* manifest.  before, tar and after are the inventories of the two walks and the archive.
\* created is what the manifest will say.  History: truth is what the state root was
\* when pg_dump took its snapshot, and behind the outputs whose failure had been
\* stamped when created was taken.
Nothing == [at |-> "absent", dir |-> FALSE, whole |-> FALSE,
            before |-> <<>>, tar |-> <<>>, after |-> <<>>, truth |-> <<>>,
            created |-> None, behind |-> {}]

NotChecking == [at |-> "idle", now |-> None, listed |-> {}, noted |-> {}, failed |-> {},
                complete |-> {}, invalid |-> FALSE]

BackupInit ==
    /\ state = [f \in Files |-> 0]
    /\ now = 0
    /\ point = [o \in Outputs |-> Nothing]
    /\ failed_at = [o \in Outputs |-> None]
    /\ record = [o \in Outputs |-> "none"]
    /\ monitor = NotChecking
-----------------------------------------------------------------------------
\* Writers, and the clock.

WriteState(f) ==
    /\ state[f] < MaxVersion
    /\ state' = [state EXCEPT ![f] = @ + 1]
    /\ UNCHANGED <<now, point, failures, monitor>>

Tick ==
    /\ now < MaxTime
    /\ now' = now + 1
    /\ UNCHANGED <<state, point, failures, monitor>>
-----------------------------------------------------------------------------
\* create.

\* Mutant: the database is dumped before the state root is walked.
Stages_DumpFirst == <<"dump", "walk", "tar", "rewalk", "manifest", "digest", "check", "ended">>

Stages == <<"walk", "dump", "tar", "rewalk", "manifest", "digest", "check", "ended">>

Following(stage) == LET i == CHOOSE i \in DOMAIN Stages : Stages[i] = stage
                IN  Stages[i + 1]
Walking == {"walk", "dump", "tar", "rewalk"}
Capturing == Walking \cup {"manifest", "digest", "check"}

Update(o, r) ==
    /\ point' = [point EXCEPT ![o] = r]
    /\ UNCHANGED <<state, now, monitor>>

Create(o) ==
    /\ point[o].at = "absent"
    /\ Cardinality({x \in Outputs : point[x].at \in Walking}) < MaxCaptures
    /\ Update(o, [point[o] EXCEPT !.at = Head(Stages), !.dir = TRUE])
    /\ UNCHANGED failures

\* A walk reads the next file, and ends with the last one.
Read(seen) == Append(seen, state[Len(seen) + 1])
Onwards(seen, stage) == IF Len(seen) + 1 = FileCount THEN Following(stage) ELSE stage

Walk(o) ==
    /\ point[o].at = "walk"
    /\ Update(o, [point[o] EXCEPT !.before = Read(@),
                                  !.at = Onwards(point[o].before, "walk")])
    /\ UNCHANGED failures

\* pg_dump reads one snapshot of the database.
Dump(o) ==
    /\ point[o].at = "dump"
    /\ Update(o, [point[o] EXCEPT !.at = Following("dump"), !.truth = state])
    /\ UNCHANGED failures

Tar(o) ==
    /\ point[o].at = "tar"
    /\ Update(o, [point[o] EXCEPT !.tar = Read(@),
                                  !.at = Onwards(point[o].tar, "tar")])
    /\ UNCHANGED failures

\* The second walk; when it ends it is compared with the first.
Rewalk(o) ==
    LET after == Read(point[o].after) IN
    /\ point[o].at = "rewalk"
    /\ Update(o, IF Len(after) < FileCount
                 THEN [point[o] EXCEPT !.after = after]
                 ELSE [point[o] EXCEPT !.after = <<>>,
                          !.at = IF after = point[o].before
                                 THEN Following("rewalk") ELSE "discard"])
    /\ UNCHANGED failures

Stamped == {o \in Outputs : failed_at[o] # None}

\* The manifest's time is taken.
StampManifest(o) ==
    /\ point[o].at = "manifest"
    /\ Update(o, [point[o] EXCEPT !.at = Following("manifest"), !.created = now,
                                  !.behind = Stamped])
    /\ UNCHANGED failures

\* The two files were digested; the manifest names them and the first inventory.
WriteManifest(o) ==
    /\ point[o].at = "digest"
    /\ Update(o, [point[o] EXCEPT !.at = Following("digest"), !.whole = TRUE])
    /\ UNCHANGED failures

\* The archive's inventory is the manifest's.
ArchiveMatches(o) == point[o].tar = point[o].before

\* check: a whole manifest, both files with its digests, and such an archive.
Accepted(o) == point[o].whole /\ ArchiveMatches(o)

CheckOutput(o) ==
    /\ point[o].at = "check"
    /\ Update(o, [point[o] EXCEPT !.at =
                      IF Accepted(o) THEN Following("check") ELSE "discard"])
    /\ UNCHANGED failures

\* Any exception, also of a tool that check needs and does not find.
Fails(o) ==
    /\ point[o].at \in Capturing
    /\ Update(o, [point[o] EXCEPT !.at = "discard"])
    /\ UNCHANGED failures

\* A create that stopped, and what it left on disk.  Of an output that is not
\* whole nothing more is read.
Left(at, dir, whole, r) ==
    IF whole THEN [r EXCEPT !.at = at, !.dir = dir]
             ELSE [Nothing EXCEPT !.at = at, !.dir = dir]

\* rmtree, which may fail with any part of the output left.
Discard(o) ==
    /\ point[o].at = "discard"
    /\ \/ Update(o, Left("record", FALSE, FALSE, point[o]))
       \/ \E whole \in {FALSE, point[o].whole} :
             Update(o, Left("record", TRUE, whole, point[o]))
    /\ UNCHANGED failures

\* record_failed_attempt: the time is taken, then a record appears and is filled
\* with it.
Recording == {"stamped", "recording"}

StampFailure(o) ==
    /\ point[o].at = "record"
    /\ Update(o, [point[o] EXCEPT !.at = "stamped"])
    /\ failed_at' = [failed_at EXCEPT ![o] = now]
    /\ UNCHANGED record

OpenRecord(o) ==
    /\ point[o].at = "stamped"
    /\ Update(o, [point[o] EXCEPT !.at = "recording"])
    /\ record' = [record EXCEPT ![o] = "cut"]
    /\ UNCHANGED failed_at

FinishRecord(o) ==
    /\ point[o].at = "recording"
    /\ Update(o, [point[o] EXCEPT !.at = "ended"])
    /\ record' = [record EXCEPT ![o] = "whole"]
    /\ UNCHANGED failed_at

\* An OSError: no record, or one that cannot be read.
RecordFails(o) ==
    /\ point[o].at \in Recording
    /\ Update(o, [point[o] EXCEPT !.at = "ended"])
    /\ UNCHANGED failures

\* The create is killed; what it wrote stays.
Kill(o) ==
    /\ point[o].at \in Capturing \cup {"discard", "record"} \cup Recording
    /\ Update(o, Left("ended", point[o].dir, point[o].whole, point[o]))
    /\ UNCHANGED failures

\* A file of a point changes on disk, or disappears.
Damage(o) ==
    /\ point[o].whole
    /\ Update(o, Left(point[o].at, TRUE, FALSE, point[o]))
    /\ UNCHANGED failures
-----------------------------------------------------------------------------
\* operator-check: the clock is read first, then the database and the file
\* systems are asked, then the evidence directory is listed once and its entries,
\* points and failure records, are read one by one.

\* The next invocation.
StartCheck ==
    /\ monitor.at \in {"idle", "silent", "alert"}
    /\ monitor' = [NotChecking EXCEPT !.at = "started", !.now = now]
    /\ UNCHANGED <<state, now, point, failures>>

\* Whether the database or a file system gave an alert; it may.
OtherAlerts == BOOLEAN

ListEvidence ==
    /\ monitor.at = "started"
    /\ monitor' = [monitor EXCEPT !.at = "examining",
                                  !.listed = {o \in Outputs : point[o].dir},
                                  !.noted = {o \in Outputs : record[o] # "none"}]
    /\ UNCHANGED <<state, now, point, failures>>

\* What the report of check says of an accepted point; behind is history.
Found(o) == [created |-> point[o].created, behind |-> point[o].behind]

\* An entry that is no directory any more is passed over.
Examine(o) ==
    /\ monitor.at = "examining" /\ o \in monitor.listed
    /\ monitor' = [monitor EXCEPT
           !.listed = @ \ {o},
           !.complete = IF Accepted(o) THEN @ \cup {Found(o)} ELSE @,
           !.invalid = @ \/ (point[o].dir /\ ~Accepted(o))]
    /\ UNCHANGED <<state, now, point, failures>>

\* A record's name comes after its output's.  One that is not whole has no time.
ReadRecord(o) ==
    /\ monitor.at = "examining" /\ o \in monitor.noted \ monitor.listed
    /\ monitor' = [monitor EXCEPT
           !.noted = @ \ {o},
           !.failed = @ \cup {[output |-> o,
                               time |-> IF record[o] = "whole" THEN failed_at[o] ELSE None]}]
    /\ UNCHANGED <<state, now, point, failures>>

Newest(p) ==
    /\ p \in monitor.complete
    /\ \A x \in monitor.complete : x.created <= p.created

\* Mutant: a failure in the same instant counts as settled by the point.
Resolved_SameInstant(f, p) == f.time # None /\ p.created >= f.time

\* Settled by a later verified point.
Resolved(f, p) == f.time # None /\ p.created > f.time

\* No alert about the recovery points.
Silent ==
    /\ ~monitor.invalid
    /\ \E p \in monitor.complete :
          /\ Newest(p)
          /\ \A f \in monitor.failed : Resolved(f, p)
          /\ monitor.now <= p.created + MaxAge

Report ==
    /\ monitor.at = "examining" /\ monitor.listed = {} /\ monitor.noted = {}
    /\ \E alerted \in OtherAlerts :
          monitor' = [NotChecking EXCEPT !.at = IF Silent /\ ~alerted
                                               THEN "silent" ELSE "alert"]
    /\ UNCHANGED <<state, now, point, failures>>

BackupNext ==
    \/ \E f \in Files : WriteState(f)
    \/ Tick
    \/ \E o \in Outputs :
          \/ Create(o) \/ Walk(o) \/ Dump(o) \/ Tar(o) \/ Rewalk(o)
          \/ StampManifest(o) \/ WriteManifest(o) \/ CheckOutput(o) \/ Fails(o)
          \/ Discard(o) \/ StampFailure(o) \/ OpenRecord(o) \/ FinishRecord(o)
          \/ RecordFails(o) \/ Kill(o) \/ Damage(o)
          \/ Examine(o) \/ ReadRecord(o)
    \/ StartCheck \/ ListEvidence \/ Report

BackupSpec == BackupInit /\ [][BackupNext]_backupVars
-----------------------------------------------------------------------------
\* A point that check accepts, whatever became of the create that made it, is
\* the system at one moment: when the database snapshot was taken, the state
\* root was what the archive holds, although both were captured while writers
\* ran.
PairIsOneMoment ==
    \A o \in Outputs : Accepted(o) => point[o].tar = point[o].truth

\* operator-check stays silent only over a point that took its time after every
\* failure whose record was listed had been stamped, although the clock is coarse
\* and the entries are read while creates run; so never over the point of a create
\* that failed, could not remove its output and recorded it.  The record itself may
\* have appeared after the point: both times are taken before what they stand in is
\* written.
SilentMeansRecovered ==
    [][monitor.at = "examining" /\ monitor'.at = "silent" =>
          \E p \in monitor.complete :
              Newest(p) /\ \A f \in monitor.failed : f.output \in p.behind]_backupVars
=============================================================================
