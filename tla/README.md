# Fogell: a TLA+ verification project

Fogell is a CI controller: it admits pipelines over HTTP, keeps the truth about
builds in PostgreSQL, lets workers claim attempts under fenced leases, runs each
attempt in a child process (`Run.Host`) that journals its steps, drains the
child's events into the build log, publishes one terminal status and performs
registered external effects. Operators initialise and recover the workspace pool,
take and watch recovery points, qualify test commands and audit reviews with the
scripts beside it. This directory holds TLA+ models of that program,
the TLC runs that check them on small instances, and proofs, checked by TLAPS,
of the properties that matter most for every instance.

Every definition is translated from the source; `PROJECT.json` maps each one to
the lines it stands for (`map`), each run to its properties, each property to a
changed copy of a definition (`mutants`) under which the run must fail, and lists
the hazards the properties are aimed at. Paths below are relative to the
repository.

Run a check with `tlc -workers 2 -config MCExecutionAuthority_all.cfg
MCExecutionAuthority.tla`, a proof with `tlapm ExecutionAuthority_proofs.tla`.

## 1. Inventory

### Execution authority (`src/Fogell.Store/Store.fs`, migrations 0001-0011)

*State.* `builds`, `nodes` (one per build), `attempts` (state, fence, lease owner
and expiry, restore epoch, result, ordinal, `retry_of`), `retry_decisions`,
`controller_metadata.restore_epoch`, `events` and `outbox`.

*Operations.* `AdmitBuild`, `ClaimNextExecution` (with quarantine of damaged
definitions), `ClaimNext`, `OfferAttempt`, `AcceptAttempt`, `BeginExecution`,
`RenewLease`, `PublishTerminal`, `RequeueOwnedAttempt`, `RequireReconciliation`,
`RequeueExpiredLocalAttempts`, `ActivateRestore`, `RequestCancellation`,
`DecideRetry`. Each is one transaction.

*Hard.* Transactions of workers, the API, the recovery tool and operators
interleave; leases expire under running children; a restore takes the database
back; every transition must keep three tables and the outbox in agreement.

*Correct when.* A fence is handed out once; only the last holder publishes; a
settled attempt never changes and is announced once; a build never runs twice at
once; an accepted cancellation is not erased; the tables and the outbox agree.

### External effects (`Store.fs`, `Controller.Host/EffectDispatch.fs`, `EffectRegistry.fs`)

*State.* `effect_checkpoints` (prepared, applied, confirmed, uncertain), the
destination (a pinned drop directory), `effect.uncertain` messages.

*Operations.* `PrepareEffect`, `AdvanceEffect`, the destination write and the
evidence read between them, `ReconcileStaleEffects` from the cadence of
`reconciliationLoop`, classification inside `ActivateRestore`.

*Hard.* Two systems without a common transaction; the worker can die, lose its
lease or lose a reply between any two of four writes; classification races the
worker; a restore takes the ledger back but not the destination.

*Correct when.* An effect is invoked at most once per attempt; the ledger is
ahead of the destination; nothing ambiguous is published over; every ambiguous
row comes to the operators, once.

### Listing of uncertain effects (`Store.fs`, migration 0014)

*State.* `uncertain_seq`, its sequence, the restore epoch, cursors that clients
keep. *Hard.* Sequence values are drawn before the rows commit; a restore takes
the sequence back while cursors survive, and timelines restored from backups of one
epoch share an epoch. *Correct when.* A cursor that is accepted in the timeline it
was given in hides no row, and a finished walk has listed every row.

### Build log and event stream (`Store.fs` log members, `Controller.Host/EventStream.fs`)

*State.* `log_chunks`, `next_log_sequence`; per claim the offset, the retained
tail and the oversized-frame flag of the event file; a client's cursor.
*Operations.* `AppendLogBatchFenced`, diagnostics, feedback reads; bounded drain
slices while the child runs and the final drain up to a frozen boundary. *Hard.*
The file grows while it is read; an append may be refused or its reply lost; two
fences and the server write one sequence; clients read in between and stop by
rules of their own. *Correct when.* The log is each child's frames, once and in
order; a terminal publication means all of them; no client misses a chunk.

### Local worker (`Controller.Host/Worker.fs`, `WorkerScheduling.fs`, `WorkerLaunch.fs`)

*State.* The rotation over organizations, the claim it runs, cancellation and
lease flags, the child. *Operations.* Scan, claim, materialize, begin, launch,
poll (renew, drain, look for cancellation), stop, final drain, snapshot, effects,
publish or reconcile; a second loop reconciles in between. *Hard.* Shutdown,
cancellation, lease loss and natural exit race; each exit must leave exactly one
durable disposition. *Correct when.* A terminal status is published only after a
natural exit with the child group gone and all events drained; a claim that
started is never silently dropped; no organization starves.

### Run.Host, journal and resume (`tools/Fogell.Run.Host`, `Fogell.Journal`, `Fogell.Runtime`)

*State.* An append-only journal with fsync at step and stage boundaries, the
workspace. *Operations.* Append, tail repair, resume planning, step execution.
*Hard.* A kill between any two records; a torn tail; a changed definition or
workspace on resume. *Correct when.* A finished step is not repeated, an
interrupted one is never guessed, and the terminal record is the last word.

### Storage pool (`Controller.Host/StorageAdmission.fs`, `StoragePoolLease.fs`, `scripts/storage-pool.py`)

*State.* The marker and the 0600 state record in the pool, the directory's flock,
the durable decision, recovery receipts. *Operations.* Controller: lease, check,
begin, complete, uncertain. Operator: `init` with its rollback, `status`,
`recover` in two parts with an attested record. *Hard.* Marker, record, decision
and receipt are separate writes; each may be torn, fail or be the last; an
operator acts on a record read earlier; a file may be replaced under its name.
*Correct when.* A child's process group that may still write the pool is named by
its record; a record is cleared by its owner or after a receipt, by an operator only
over an attempt of which nothing is left; an init leaves a usable pool or an
empty one.

### Recovery points (`scripts/paired-backup.py`, `scripts/qualification/operator-check.py`)

*State.* A directory per point (dump, archive, manifest), failure records, the
monitor's verdict. *Operations.* `create` (walk, dump, archive, rewalk, manifest,
check, discard, record), `check`, the monitor's listing and examination. *Hard.*
Nothing stops the writers during a capture; discarding and recording may fail
too; times are taken before what they stand in is written, and the monitor compares
them. *Correct when.* An accepted point is one moment of the system; silence means a
point that took its time after every failure on record had been stamped.

### Review coverage (`scripts/review-coverage.py`)

*State.* None of its own beyond one invocation; it reads pull requests, reviews
and comments by separate calls. *Hard.* All of them change between the calls.
*Correct when.* "Covered" is about the head there is when it is said, and an
audit about the commit that landed.

### Reaper (`scripts/qualification/reap-descendants.py`)

*State.* The command, the orphans adopted, the deadline and the quiet period.
*Hard.* Two parties wait for children; process numbers are reused; a descendant
may never end. *Correct when.* The command's status survives, the wrapper ends,
and an early end means that nobody is left.

### Retention (`tools/Fogell.Retention`, migration 0017)

*State.* A sweep's manifest, cursor and intent; a tombstone per build. *Hard.*
Unlinking files and recording progress are separate steps; a restore, a hold or a
retry may arrive in between; a plan is made for all eligible builds or refused, and
with it the sweep. *Correct when.* Only what the manifest names is deleted, of builds
nobody can use any more, and unless plans are refused a resumed sweep finishes.

### The rest

Artifact snapshots (one per attempt, before publication), process containment
(`ProcessGroup.fs`), native step execution and publication, the parser, the
intermediate representation and admission limits (pure functions), the HTTP API
(stateless routes over Store calls), configuration, migrations and row-level
security, the operator tools, and the proof, benchmark and qualification drivers (of which
only the reading clients are modelled). `PROJECT.json` `components` names the files and
the reason each is or is not modelled.

### How they interact

The API calls `AdmitBuild`, `RequestCancellation` and `DecideRetry`. A worker
claims and holds an attempt through the authority calls; everything it writes
(log, source verification, effects, terminal status) is refused unless fence,
owner, lease, state and epoch are current. `Run.Host` talks to the worker through
the journal and the event file. Operators see the outbox and the listing.
`ActivateRestore` cuts across all of it, from a pair that `paired-backup.py` took.
The worker asks `StorageAdmission` before it claims and again before it launches,
and tells it how the claim ended; the record it leaves behind is what
`storage-pool.py` recovers. Clients read the log the drain fills.

## 2. Modules

| Module | What it is |
| --- | --- |
| `ExecutionAuthority` | Every authority transaction as one action, over the tables |
| `MCExecutionAuthority` | its instance for TLC (two configurations) |
| `ExecutionAuthority_proofs` | its two inductive invariants, the proof of the refinement below, and the theorems of section 5 |
| `AttemptLease` | the abstract lease: who may act on an attempt, and whether its work has begun |
| `AuthorityImplementsLease` | the refinement mapping of `ExecutionAuthority` to `AttemptLease` |
| `EffectLedger` | the effect of an attempt, on top of `AttemptLease` |
| `MCEffectLedger` | its instance |
| `EffectLedger_proofs` | its inductive invariant and the theorems of section 5 |
| `EffectListing` | classification sequence, cursors and restores |
| `MCEffectListing` | its instance |
| `EffectListing_proofs` | its inductive invariant and the theorems of section 5 |
| `RunJournal` | Run.Host: journal, resume and the step loop, with kills inside and between writes |
| `MCRunJournal` | its instance |
| `RunJournal_proofs` | its inductive invariant and the theorems of section 5 |
| `BuildLog` | the event file, the drain, the append, diagnostics and three clients |
| `MCBuildLog` | its instance, with the streams a child may write |
| `BuildLog_proofs` | its inductive invariant and the theorems of section 5 |
| `LocalWorker` | the scan loop: rotation, recovery, claims and how they end |
| `MCLocalWorker` | its instance |
| `StoragePool` | controllers and operators over one pool |
| `MCStoragePool` | its instance |
| `StoragePool_proofs` | its inductive invariant and the theorems of section 5 |
| `PairedBackup` | captures, their failures, and the monitor |
| `MCPairedBackup` | its instance |
| `ReviewCoverage` | both modes of the script against a changing GitHub |
| `MCReviewCoverage` | its instance |
| `ReapDescendants` | the wrapper against a process table that reuses numbers |
| `MCReapDescendants` | its instance |
| `Operations_proofs` | the inductive invariants and theorems of `LocalWorker`, `PairedBackup`, `ReviewCoverage` and `ReapDescendants` |
| `RetentionSweep` | sweeps of the state root, their journal, and what cuts them off |
| `MCRetentionSweep` | its instance |
| `RetentionSweep_proofs` | its inductive invariant and the theorems of section 5 |

`LocalWorker`, `PairedBackup`, `ReviewCoverage` and `ReapDescendants` are four
components that share nothing; their specifications have names of their own
(`WorkerSpec`, `BackupSpec`, `CoverageSpec`, `ReaperSpec`) so that one proof module
can extend all four.

### `ExecutionAuthority`

A Store method is a database transaction that locks the rows it decides on, so
each is one action, named after the method; where a method has two committed
outcomes they are two actions (`BeginExecution` and `CancelBeforeStart`,
`CreateRetryChild` and `ExhaustRetryBudget`, `ClaimNextExecution` and
`QuarantineOnly`). `attempts`, `nodes`, `builds`, `retry_decisions` and
`restore_epoch` are the tables; `outbox` keeps, per build, the committed
messages reduced to topic, status and authority. `lease_left` counts the ticks
to the lease's expiry and `Tick` is the database clock. Two variables are not in
the database: `claims`, every authority ever handed out (any of them may still be
used by a caller that does not know it is stale), and `executing`, the claims
whose child may still exist; `ChildExtinct` is the worker's verified extinction.
One organization suffices because every statement filters by it. Placement and
FIFO order are left out: a claim may take any eligible attempt, which SKIP LOCKED
permits anyway.

### `AttemptLease`

Per attempt: `fence`, `holder` (or `None`) and `taken` (its work may have begun).
A holder may come (`Grant`, under the next fence, only while the work has not
begun), take the work, give the claim back, lose it, or settle the attempt. It is
what the rest of the system relies on. `AuthorityImplementsLease` maps `holder`
to the owner of a row whose lease is live and in the current epoch, and `taken`
to "past the offer"; a tick that ends several leases, a restore and a recovery
pass that settle several attempts are single abstract steps over sets.

### `EffectLedger`

Builds on `AttemptLease`, not on the whole authority module, so that the effect
protocol can be explored to the end; the refinement is what justifies that. One
worker process per owner moves through the phases of `runReadyClaim` and
`EffectDispatch.run`: claimed, starting, executing, dispatch, invoke, apply,
evidence, confirm, publish, reconcile. Every step may be the last (`Crash`), and
every Store call may commit and lose its reply, in which case the worker takes
the error path although the row changed. `receipts` is the destination, which no
transaction covers and no restore takes back. `TakeBackup` and `RestoreBackup`
happen with the writers quiesced, as the recovery tool demands
(`activate-restore --writers-quiesced`).

### `EffectListing`

`ClassifyChunk` is the statement that draws sequence values, `CommitChunk` makes
them visible; `RollbackChunk` loses them. The client's page is the code's two
reads (`ReadTimeline`, `ReadPage`), which other transactions may separate, and
its cursor lives across everything, restores included. `backups` are all the moments
that were kept; each can be restored at any later time and any number of times, also
one that is older than the last. A restore is two steps, `LoadBackup` and
`ActivateRestore`, and a client may read in between. An activation adds one to the
epoch of the backup, so two restores from backups of one epoch get the same epoch.
`timeline` numbers the activations apart, and `Forked` says that the client's cursor is
from another timeline than the present one although the epochs agree;
`client.crossed` remembers that such a cursor was used. Rows are
numbered in the order `(prepared_at, attempt_id, effect_key)` in which a
statement hands out values.

### `RunJournal`

`file` is the journal as bytes matter: its complete lines, and possibly a last
one without newline, cut off or whole (`ReadAllLines` would take a whole one for a
record). `Invoke` is everything the host decides before it changes the
workspace: the terminal check on the durable prefix, the tail repair, the plan
and the three refusals; a refused invocation still repairs. `Wipe`,
`Materialize`, `RecordDigest`, `RecordWorkspace`, `SkipFinished`, `PassOver`,
`StartStep`, `Execute`, `FinishStep`, `CommitStage` and `EndBuild` follow the
program; each record is appended in one action and announced to the worker
(`events`) in the next, so that a kill can separate the two. `Kill` may come at
any phase; in one with a pending append it leaves any prefix of the group.
`RunnerFails` is an executor that throws, `PublicationFails` an event file that
cannot be written. `OperatorReconciles` is external: the operator's appended
finish, after an invocation named the interrupted step. The plan is computed by
quantifiers over record positions instead of the code's fold. Definitions and
workspaces are the identities the host compares. A failed or aborted step is taken to
carry a reason; the missing one is the prefix a kill leaves.

### `BuildLog`

The drain at the granularity of bytes: `Inspect` is one turn of `drainBatch`'s
loop, `Batch` folds it over a slice, `Slice` commits the staged state only when
the append committed. An append may be refused, fail, or commit and lose its
reply. A supervisor is active (`ActiveSlice`), sees the child exit or stops it
(`Exited`, `Forced`), freezes the boundary once the group is extinct, drains to it
(`FinalSlice`) and ends by `Stop` in one of the code's four outcomes; only a
drained one may publish, and with its lease still held it may also be reconciled (no
verdict in the journal, artifacts or an effect that failed, a shutdown). A child
may have left a process that still writes.
Attempts of the build follow one another by `Retry`. The clients are the watch
command, which follows `next_sequence` and also stops at
`reconciliation_required`, a pager that starts once the build is terminal, and a
poller that reads from the beginning until it gets everything in one page.
A frame of more than one content byte is too long, and a child's stream is one of
three, in which empty, whole, oversized and incomplete frames occur.

### `LocalWorker`

Per organization `work` is its oldest unsettled attempt. A worker takes a
snapshot of the organizations (`todo`) and probes them in the order that starts
after the cursor (`ScannedBefore`); for each it recovers expired leases and then
claims at most once. A claim runs in the scan:
it may be requeued before it started, be poisoned, lose its lease, finish, or be
cut off. A call that throws for one organization ends the iteration, because the
`try` encloses the loop, not its body; the cursor is moved before the claim is
run and only in memory, so a crash resets it. Shutdown is not modelled.

### `RetentionSweep`

One sweep at a time (the advisory lock): `Plan` selects in one transaction,
`ReadPending` lists what is unsettled, and per build `BeginBuild`, then per entry
`Intend` (the durable intent), `Inspect`, `Move` (to the quarantine name), `Unlink`
and `Record` (the cursor); after the last entry `Purge` takes log chunks and the
definition. Whatever fails comes to `Hold`. `Plannable` has every refusal of the plan
that lasts until somebody acts: more candidates than `MaxCandidates` or more entries
than `MaxEntries` (which also stands for what planning reaches in its budget), a
candidate with a file that no inventory takes, and a definition that is missing or
disagrees. A refused sweep ends before it reads what is pending, so it changes
nothing. A file is its identity and its kind; `file` is what
processes see, `disk` what a power failure may leave. Others replace files at any
time, but do not delete them and do not write quarantine names; retries meet the
trigger of migration 0017; a pair is restored only while no sweep runs, with new
identities for all files and a new epoch. A build's entries are flat and numbered
in removal order, its first is the definition; the policy is any choice that keeps
at most `KeepBuilds` candidates. `held` is final, as the runbook has it.

### `StoragePool`

`content` is every state file there ever was, by identity, `path` the one the
name refers to: descriptors outlive a replacement (`Copy`). A record is idle, an
attempt's identity or torn; a write takes several steps where a kill or a failure
between them matters. Controllers follow `StorageAdmission` over the lease
(`TakeLease`, `Check`, `Begin`, `MarkActive`, `ConfirmMark`, `DecideActive`,
`Launch`, `StopGroup`, then `Complete` or `Uncertain`, with `Compensate`); operators
`init`, `status` and `recover`. `children` are the attempts whose child's process group
may write the pool, `detached` those with a writer in a session outside that group,
which any child may leave behind (`Detach`). Completion is guarded by what the
controller knows, that it stopped the group or never started a child, not by who is
left: the worker verifies the extinction of the outer group only, so a published claim
clears the record while detached writers may remain. Operators may attest
that writers are extinct, detached ones included, only when they are, as the runbook
demands of them; what starts afterwards the attestation does not cover.
`excused` marks an init that
was killed, or reported that its rollback failed, or whose file was replaced.

### `PairedBackup`

The state root is a sequence of files that writers change at any time; a walk
and the archive read them one by one, the dump reads the database at one moment.
A changed file never returns to an earlier content, and the clock does not run
backwards. `point[o].truth` is the state root at the moment of the dump. The times
and what they stand in are separate steps: `StampManifest` and `WriteManifest` (the
digests lie between), `StampFailure`, `OpenRecord` and `FinishRecord` (a record is
visible before it is whole); other creates and the monitor run in between.
`point[o].behind` are the outputs whose failure had been stamped when the manifest's
time was taken; their records may not be there yet. What
else the monitor looks at (database, file systems) may or may not alert.

### `ReviewCoverage`

One action per call to GitHub, and GitHub's own steps in between. A review, once
submitted, is not withdrawn; pages of one call are read at one moment. With no
expected reviewers everything is covered, as in the script.

### `ReapDescendants`

`proc` is the process table, in which a number is reused as soon as somebody
waited for it; `Die` hands children to the subreaper. `List` and `Wait` are apart,
because that is where a number may change hands. The child list of procfs is
taken to be exact, and SIGCHLD not to be ignored.

## 3. Runs

| Run | Shows | Bounds |
| --- | --- | --- |
| `authority` | all safety and action properties of `ExecutionAuthority`, and that it implements `AttemptLease` | 2 builds, 2 attempts, 2 local workers, 1 agent, 2 offers per attempt, 1 restore, limits 1 and 2, lease of 1 tick |
| `notbuilt` | (violated) a cancellation is accepted after a `not_built` publication | small |
| `effects` | at-most-once effects, ledger ahead of destination, no ambiguous publication, one announcement, and that ambiguity is resolved | 1 attempt, 2 owners, 3 offers, 1 backup restored up to twice |
| `listing` | a cursor that is accepted hides no row, and a finished walk is complete, unless a cursor was used across two timelines of one epoch | 3 rows, 2 sessions, pages of 1, chunks of 2, 3 sequence values, 2 backups, 2 restores |
| `journal` | no step twice, no mixing of two builds, no skipped step whose effect was wiped, earned boundaries, durable announcements | 3 steps in 2 stages, 1 always step, 4 statuses, 2 definitions, 2 workspaces, 3 faults, any number of invocations |
| `log` | the log follows the stream, is whole at the terminal status, and no client misses a chunk | 2 attempts, 3 streams of up to 6 bytes, slices of 4 bytes or 2 frames, pages of 2 |
| `worker` | no organization is passed over, everyone is served in the end | 2 workers, 2 organizations, 2 faults |
| `pool` | a child's group is marked, clears are accounted for, a recovery is of an attempt nobody is left of, "ready" is true, an init leaves all or nothing | 2 controllers, 2 operators, 3 attempts, 3 state files |
| `backup` | a pair is one moment; silence means recovered | 2 points, 2 files, each changed once, 3 clock readings, one capture at a time, any overlap of what follows it |
| `coverage` | covered means reviewed | 1 pull request, 2 commits, 2 reviewers |
| `retention` | only what the manifest names is unlinked, evidence is whole or expired for good, selected builds are settled unless plans are refused from some moment on | 2 builds of 2 files and 1 chunk, 3 entries and 2 operations per sweep, 2 faults, any number of sweeps |
| `reaper` | the status is kept, quiet means extinct, the wrapper ends | 3 process numbers, 2 statuses |

The `.cfg` files give the exact values.

*Why the bounds are enough.* Authority conflicts need two claims of one attempt
by different or the same owner, so two workers and two or three offers; a
lineage conflict needs two attempts of one build; what crosses builds
(quarantine, recovery and restore over sets) needs two builds. Attempts are
independent in the effect ledger except that classification and restore act on
sets of them, so one attempt explores its protocol completely; three offers let a
restored attempt be offered again after a first and a second holder. A listing
skips a row only if three rows are ordered differently by drawing, by commit and
by page, which two sessions and pages of one row allow; two backups of one epoch and
two restores give two timelines that share one, from one backup or from two. A resumed build goes
wrong between two kills, one that leaves the journal behind and one during the
recovery, so three faults (`MaxFaults`) leave one to spare; three steps give a
stage with two, a step passed over and an always step after a failure. The streams
of `log` are longer than a slice in bytes and in frames, and have frames that end
before, at and after a slice's end. A worker bypasses an organization between two
claims of another one, so two organizations and two workers do; faults are few
because service is promised only once they stop. Pool conflicts are between an
old owner, a new one and an operator with an old record; three attempts and three
files let each of them meet its successor's. A capture is torn by one change of
one of two files. A point is taken for a recovery wrongly when two creates stamp in
one order and write in the other, so two creates and two clock readings, of which
`backup` has three. A sweep goes wrong when it is cut off and finds a replaced file,
or a power failure undoes what it recorded, so two faults; two operations end it in
the middle of a build and before its definition. Three entries
are fewer than two candidates have, so plans are refused for a time and for good,
while two selected builds are still worked through by one sweep.
Every bound cuts off repetition only: `MaxFence` (offers),
`MaxEpoch` and `MaxRestores` (restores), `MaxBackups` (backups kept), `MaxSeq` (values drawn), `MaxFiles`
(state files), `MaxCaptures`, `MaxVersion` and `MaxTime` (of a backup),
`MaxAttempts` (of a build), `MaxFaults`.

*Deadlock* is checked only where the configuration does not say
`CHECK_DEADLOCK FALSE`: in the bounded authority and ledger instances every
attempt ends up settled or at a bound, and the system then has nothing to do; a
build's log, a pool whose attempts are used up, a clock at its last reading and a
wrapper that exited are at their end likewise. It is checked for `listing`,
`journal`, `coverage`, `worker` and the runs of `RetentionSweep`, which never end.

*Fairness.* In `EffectLedger` a lease that nobody renews runs out (the clock), and
`ReconcileStaleEffects` eventually finds a stale row whose attempt is not locked,
because `reconciliationLoop` runs on its own task and its own cadence,
independent of the scan loop that may be busy for the length of a build. No
worker step is fair there: a worker may stop at any point. `AmbiguityIsResolved`
follows. In `LocalWorker` a worker that is alive goes on (the loop delays and
comes round whatever an iteration threw; a build is taken to end) and leases
nobody renews run out; nothing is assumed about organizations that always have
work, and claims need not be granted to a particular one of them.
`EveryoneIsServed` follows. In `ReapDescendants` the wrapper runs and its
deadline passes; the command's descendants owe nothing. `WrapperEnds` follows. In
`RetentionSweep` sweeps are invoked again and again, as the runbook asks of the
operator, and go on while nothing stops them; what stops them is bounded by
`MaxFaults`. A sweep whose plan is refused is no step, so nothing is assumed about it.
`SelectedIsSettled` follows, whose premise is that plans are possible again and again.

## 4. Disagreements between code and its documentation

* `notbuilt`: `PublishTerminal`'s comment says a cancellation after a terminal
  publication reports `AlreadyTerminal`; `RequestCancellation`'s list of terminal
  statuses omits `not_built`.

Met while modelling and not the subject of a run:

* The host's comment at the fresh wipe (`Run.Host/Program.fs`) says
  "metadata-present always implies workspace-prepared". The digest and the
  workspace identity are two appends. After a kill between them the journal holds a
  digest and no workspace; an invocation with another workspace is then not
  refused, counts as resuming, skips the wipe and runs in a tree nobody prepared.
  The worker always passes the same path, so this takes a manual invocation or a
  retargeted link, which the surrounding comments mean to refuse.
* `Domain/Model.fs` says that a transition absent from its table "is a bug, not a
  state"; no Store method consults the table, and the Store takes attempts from
  offered to running and from running to queued.
* `Worker.fs` says registered effects run "while this attempt's lease is live".
  The lease is checked when the effect is prepared and when it is recorded, not
  when it is invoked. At-most-once does not depend on it (`EffectAtMostOnce`
  holds), but an operator may find the row uncertain and the destination empty
  shortly before the receipt appears.
* The comment of `ListUncertainEffectsPage` says that "a cursor
  retained across a database restore cannot hide the restored timeline's
  classifications". `ActivateRestore` adds one to the epoch in the backup, so two
  ordinary backups of one epoch, each restored once, lead to timelines of the same
  epoch. The remaining test, that the cursor is not past the last value issued,
  refuses a cursor of the first in the second only until the second's sequence has
  caught up; then it is accepted, and the rows up to it are never listed to that
  client. `CursorHidesNothing` and `WalkIsComplete` hold with that exception, which
  `Forked` and `client.crossed` state; without it TLC finds the case in `listing`.
* `docs/runbooks/retention.md` says "Pending work is normal:
  invoke the same sweep again to resume its durable deletion cursor". A sweep plans
  before it reads what is pending, and the plan throws when the eligible builds, those
  to be kept too, exceed a limit, or when one of them has a file of a kind that is
  refused or a definition that is missing or disagrees. The runbook names these
  refusals, but not that they also stop every deletion that had begun. No fault is
  needed: two more builds that end are enough for a limit of one.
  `SelectedIsSettled` has the premise that plans are possible again and again; without
  it TLC finds the case in `retention`.
* `docs/runbooks/storage-pool.md` says that Fogell clears the state record "only after a
  durable terminal result", and asks an operator who recovers to see that detached
  descendants have stopped. The worker does the former (`Worker.fs` 386-392) without
  the latter: its comment (796-798) says that cleanup proves only the outer `Run.Host`
  group. After an ordinary completion the record is therefore idle, and the next
  attempt may start, while a session that left the group still writes the pool.
  `WritersAreMarked` and `ReadyIsTrue` are about the group for that reason;
  `RecoveryFollowsExtinction` about everybody.
* `docs/runbooks/alerts.md` and `docs/runbooks/recovery.md` let a failure count as
  resolved by a newer verified point. Both times are taken before what they stand in is
  written, so a record may appear after the point that resolves it, and the point was
  then made by somebody who could not have read it. `SilentMeansRecovered` claims the
  order of the stamps, not that of the records.
* `paired-backup.py` says "Rewalk both sources"; the state root is walked again,
  the database is not read again. `PairIsOneMoment` needs no more, because the
  dump is one snapshot between the two walks.
* The client's watch ends with status 5 when the build is
  `reconciliation_required` even if its page has more; the chunks are not lost,
  only not shown. `CursorMissesNothing` claims the whole log only for clients
  that wait for the terminal status.
* In `reap-descendants.py` the command's number is skipped for ever, also after it
  was waited for. A descendant that is given the same number is then invisible to
  the wrapper, the one exception in `QuietMeansExtinct`.

## 5. Proofs

TLC checks an instance; the theorems hold for every value of the constants. Each
proof module names its inductive invariant first and then takes the actions of
the next-state relation one by one. TLC found each of the inductive invariants true of
the instances of section 3.

### Authority

`ExecutionAuthority_proofs`, for any sets of builds, attempts and owners, any
limits and any number of retries and restores:

| Theorem | Statement |
| --- | --- |
| `Typing` | `Spec => []TypeOK` |
| `Authority_holds` | `Spec => []AuthorityInvariant` |
| `Fences` | `Spec => []ClaimsNeverShared` |
| `Lineages` | `Spec => []LineageAgrees` |
| `OneChild` | `Spec => []OneChildPerBuild` |
| `Settlement` | `Spec => SettledIsFinal` |
| `Publication` | `Spec => []PublicationInvariant` |
| `Once` | `Spec => []SettledOnce` |
| `Told` | `Spec => []OutboxTellsStatus` |
| `LastHolder` | `Spec => []PublishedByLastHolder` |
| `Cancellation` | `Spec => CancellationIsHonoured` |

The module also proves `Implements`: `Spec => ImplementsLease`.

*The tables.* None of the properties is inductive alone. `AuthorityInvariant` is
the conjunction of seven parts that need one another: typing; `RowShape` (an
inserted attempt has an admitted build, and has an owner exactly in the active
states); `ClaimsNeverShared`; `NoStaleEpoch` (no open attempt is left from an
earlier epoch: the statements that offer, accept and recover do not compare
epochs, so their correctness rests on it); `RetryChain` (a build's attempts form
one chain, so that "the newest attempt" is unique and a transition's roll-up
cannot overwrite another attempt's status); `ExecutionShape` (a child belongs to
its attempt's last holder, and its attempt is past the offer); `LineageAgrees`.
`OneChildPerBuild` then follows: two executions of one build would have two
different newest attempts, or one attempt with two holders. Lemmas state
once what `RollUp`, `Reconcile`, an offer, a release and a publication do to a
well-formed state. The refinement adds that every authority step is an abstract
step or a stutter, including a clock tick that ends several leases at once.

*The outbox.* `OutboxStep` reduces every action to one of two shapes for each build:
it says nothing, settles no attempt of the build and moves its status at most
between queued and running (`Silent`); or it says one message, of one attempt,
which it settles exactly if the message's topic is a settling one, in the words the
row then uses, and under the attempt's last fence if it bears one (`Says`).
`PublicationInvariant` follows from that alone. A late claim cannot overtake a
published fence, because a settled attempt is never claimed again.

### Effects

`EffectLedger_proofs`, for any attempts, workers, offers, backups in time and
restores, over `SafeSpec` (the specification without its fairness, which `Spec`
implies):

| Theorem | Statement |
| --- | --- |
| `Ledger` | `SafeSpec => []LedgerInvariant` |
| `AtMostOnce` | `SafeSpec => []EffectAtMostOnce` |
| `Knowledge` | `SafeSpec => []LedgerKnows` |
| `NoStatusHidesAnEffect` | `SafeSpec => []TerminalImpliesConfirmed` |

`LedgerInvariant` says what a worker may rely on by its phase (`ClaimOK`: a claim
that took its attempt up stays the last one, before its dispatch no row has its
fence, at its invocation there was none before, afterwards the receipt is its own),
that no two workers share a claim, what a row says of the destination (`RowsOK`,
and `BackupOK` the same of the backup's rows), and `HistoryOK`: an attempt that was
invoked in an earlier timeline is over, because a restore settles every open attempt of
the backup, the queued ones too (`Invalidated`), and the workers are quiesced. The restore is the hard
case: it takes the row back, so that at-most-once rests on nobody ever working on
that attempt again.

### Journal

`RunJournal_proofs`, for any pipeline, definitions and workspaces, and any number
of invocations, kills, torn appends and operator reconciliations:

| Theorem | Statement |
| --- | --- |
| `Journal` | `Spec => []RunInvariant` |
| `OnceEach` | `Spec => []ExecutedAtMostOnce` |
| `OneBuildOnly` | `Spec => []OneBuild` |
| `SkippedIsThere` | `Spec => []EffectsSurvive` |
| `Boundaries` | `Spec => []BoundariesAreEarned` |
| `ToldIsDurable` | `Spec => []EventsAreDurable` |

`RunInvariant` has a part about the lines (`JournalOK`: metadata, a step's finish
and the terminal record occur once, metadata comes before the steps, a step was
carried out at most once and only behind its start, and only the recorded workspace
has effects) and a part about a running host by its phase (`HostOK`): the journal
names the build it works for (`Named`); it is where its phase says (`Placed`); what
it read of the steps ahead when it started is still so (`Ahead`), which is why
acting on a plan computed once is sound; and the steps behind are settled with its
status the worst of theirs (`Behind`), from which the terminal record is earned.
Lemmas state what one more line changes in what a reader finds (`FirstAfter`,
`FinishedAfter`, `BegunAfter`) and that the journal stays well formed (`JournalGrows`);
a kill leaves the lines as they were or with a step's finish more, because a torn
tail is no line. That the host's status is the maximum of its steps' is proved from
the defining property of `Max` (`MaxIs`, `WorstIs`), which needs no induction.

### Pool

`StoragePool_proofs`, for any controllers, operators, attempts and state files:

| Theorem | Statement |
| --- | --- |
| `Pool` | `Spec => []PoolInvariant` |
| `OneMarkedWriter` | `Spec => []WritersAreMarked` |
| `ReadyMeansQuiet` | `Spec => []ReadyIsTrue` |
| `AllOrNothing` | `Spec => []InitLeavesAllOrNothing` |
| `Accounted` | `Spec => ClearsAreAccountedFor` |
| `RecoveredAreExtinct` | `Spec => RecoveryFollowsExtinction` |

`PoolInvariant` is built around the one lock: whoever is inside has it
(`Exclusive`), so a process's view of its descriptor changes only by its own steps,
with the exception of a replacement under the name, which `Descriptors` covers: a
name is never used twice, so a stale descriptor never becomes the path again.
`ControllerOK` and `OperatorOK` then say which record a process has in its hands by
what it does next, in particular that a controller which knows its child's group to be
extinct is right; an operator's attestation stays true, of the group and of what
detached from it, because an attempt begins only once (`AllBegun`) and only a child
detaches. Nothing is claimed of detached writers after a completion. `InitOK` is the same for an init, unless it is excused.

### Retention

`RetentionSweep_proofs`, for any builds, files, log chunks, operations per sweep
and faults:

| Theorem | Statement |
| --- | --- |
| `Retention` | `Spec => []RetentionInvariant` |
| `WholeOrExpired` | `Spec => []EvidenceIsWholeOrExpired` |
| `Intended` | `Spec => OnlyTheIntendedIsUnlinked` |

`RetentionInvariant` says the same of the directory that processes see and of the one
a power failure leaves: a build without a row is whole, and what the cursor has
passed is gone from both (`Gone`), which holds because `Record` moves the cursor only
with the directory synced. `SweepOK` is the sweep's memory against its durable row, and
`Dated` that a replaced file is a new one. `Spec` has fairness here; safety does not
use it.

### Listing

`EffectListing_proofs`, for any finite set of effects, any classifying sessions, page
and chunk sizes, backups in time and restores:

| Theorem | Statement |
| --- | --- |
| `Listing` | `Spec => []ListingInvariant` |
| `NothingHidden` | `Spec => []CursorHidesNothing` |
| `WholeWalk` | `Spec => WalkIsComplete` |

`ListingInvariant` rests on the advisory lock: only one transaction at a time has
drawn values that are not committed (`Serialized`), so committed values are unique
(`Numbered`) and an open transaction's come after all of them (`Coming`), which is
why sequence order and commit order agree. `BackupsOK` says that the backups of one
timeline are moments of it: up to the last value of the earlier one they number the
same rows alike (`Same`), whichever of them was loaded meanwhile; backups of different
timelines need not agree on anything, even with the same epoch. `WalkOK` is the walk,
unless a cursor of it was used across two timelines of one epoch: every row up to the
cursor was listed and none will come there (`Covered`), in the database as long as
it is in the cursor's timeline and in every backup of that timeline, because any of
them may be loaded next; within a page because loading another database
cuts the page off. That a page's last row leaves nothing out at or before it is
proved by counting (`Ranks`, `Pages`): a page is the rows with fewer than
`PageLimit` fetched rows before them.

### Build log

`BuildLog_proofs`, for any outputs, frame size, budgets, page limit, number of attempts
and interleaving:

| Theorem | Statement |
| --- | --- |
| `LogIsKept` | `Spec => []LogInvariant` |
| `LogFollows` | `Spec => []LogFollowsStream` |
| `WholeLog` | `Spec => []TerminalHasWholeLog` |
| `CursorMisses` | `Spec => []CursorMissesNothing` |

`LogInvariant` says that the build's numbers are dense (`Dense`), that an attempt's
chunks are the first frames of its stream, each once (`PublishedTo`), that the drain
state is the parse of the stream up to its offset (`ParsedTo`: the tail since the last
newline, or nothing of a frame that is too long), that the drain's own sequence, while
it runs, is the number of frames it passed (`StreamOK`), that a drained stream and a
terminal attempt have all of them (`StagesOK`), and that a client has what is below its
cursor (`ClientOK`). The step that matters is the slice. `InspectByte` says what
one byte does to the parse and to the staged frames; `DrainedIs` extends it to a run of
the loop of any length, and `BatchIs` to a whole slice with its budgets. An append that
committed and lost its reply leaves the chunks without the state, after which the
drain never runs on (it ends in `reconcile`), so no frame is appended twice.

### Operations

`Operations_proofs`, for any processes and statuses; any pull requests, commits and
reviewers; any outputs, files, captures and failures; any organizations, workers and
faults:

| Theorem | Statement |
| --- | --- |
| `ReaperIsKept` | `ReaperSpec => []ReaperInvariant` |
| `CommandStatus` | `ReaperSpec => []StatusIsKept` |
| `NobodyLeft` | `ReaperSpec => []QuietMeansExtinct` |
| `CoverageIsKept` | `CoverageSpec => []CoverageInvariant` |
| `AuditIsRight` | `CoverageSpec => []AuditIsOfWhatLanded` |
| `CoveredIsReviewed` | `CoverageSpec => CoveredMeansReviewed` |
| `BackupIsKept` | `BackupSpec => []BackupInvariant` |
| `OneMoment` | `BackupSpec => []PairIsOneMoment` |
| `SilenceIsRecovery` | `BackupSpec => SilentMeansRecovered` |
| `RotationIsKept` | `WorkerSpec => []WorkerInvariant` |
| `NobodyIsBypassed` | `WorkerSpec => NobodyBypassed` |

*Reaper.* The process table is a tree under the wrapper (`TableOK`: each parent runs or
is the wrapper, and no set of processes has all its parents within), so a wrapper
without children has no descendants; without acyclicity that does not follow, which
is why the invariant states it. The command stays the wrapper's child until its status
was taken (`CommandOK`), and a quiet period began when nobody was left (`QuietOK`); after
that nobody can come, because only descendants make processes.

*Review coverage.* Submitted reviews and comments stay and a merged pull request keeps its
head, so what was read at several moments is still so at the last one (`ReadingOK`);
the script's second reading of the head closes the one gap, a head that moved.

*Recovery points.* Contents of a file only move forward. What the first walk read, what
was so at the dump and what the second walk read therefore come in this order, file by
file (`CaptureOK`); when the two walks are equal, the dump's moment lies between equals.
The monitor's half is `Covers`: a manifest stamped at a time has behind it every failure
stamped at an earlier time, whether or not its record was written by then, and the clock
does not run backwards; an output is stamped as failed once (`StampedOnce`), so the
record a monitor reads bears that time.

*Scan.* From the last claim for an organization on, every organization passed in favour
of another comes before that one in the scans that follow (`Rotation`), because the
cursor moves to the claimed one before its claim runs. So it is probed before the same
organization is claimed again.

### Assumptions

Those named in the modules, which TLC evaluates in every run: published results are
wire statuses; limits, the lease term, `FileCount`, `MaxCandidates`, `MaxEntries`,
`MaxOperations` and `MaxFiles` are positive and the other bounds naturals; the frame size, the budgets and the page
limits are positive; the effects of the listing are finitely many and numbered; an
output is a sequence of bytes, of any length; success is one of the statuses a process may end
with and Codex one of the reviewers; local workers and agents, and
controllers and operators, have different names; stages are numbered in the order
of the steps, and what steps end in are statuses; and `None` and the other marks for
an absent value are none of the values they stand beside (`NoneAssumption`,
`NullAssumption`, `NoAttemptAssumption`, `NoStateAssumption`, `NoneIsNoFile`,
`NoneIsNoName`, `NoneAndMarksAreNoAttempts`, `NoneIsNothing`, `NoneIsNoEffect`,
`NoneIsNoTime`, `UnsetIsNoPR`, `DiagnosticAssumption`). None is about the
behaviour of the code.

### Only model-checked

Every safety invariant and every action property of the runs is a theorem;
`AuditIsRight` is one besides that no run repeats. The
liveness properties `AmbiguityIsResolved`, `EveryoneIsServed`, `WrapperEnds` and
`SelectedIsSettled` rest on fairness and `ENABLED`, which are out of the prover's
reach; TLC checks them on the instances of section 3.

The library's induction theorems take an operator as a parameter, which the installed
provers cannot instantiate. The drain's loop, a recursive function, is reasoned about
by a least counterexample instead: the lemma `Least` (a set of naturals that is not
empty has a least member, from the well-founded order on the naturals) needs no such
parameter.

## 6. Plan

Done: `ExecutionAuthority`, `AttemptLease` and the refinement, `EffectLedger`,
`EffectListing`, `RunJournal`, `BuildLog` with the drain, `LocalWorker`,
`StoragePool`, `PairedBackup`, `ReviewCoverage`, `ReapDescendants`, `RetentionSweep`;
a proof of every safety property the runs check. Every module avoids RECURSIVE
operators, so that what is added to it can be proved about. Left, in this order:

1. An abstract specification of a journaled build (each step at most once, one
   terminal record) that `RunJournal` implements.
2. `LockOrder`: the waits between transactions that lock several rows.
3. `ProcessContainment`: the controller's process groups; `ArtifactSnapshots`.

## 7. Not modelled

Tenancy (every statement filters by organization), HTTP and authorization,
parsing and admission limits, byte-level output filtering, the controller's
process groups (the reaper's process numbers are modelled), artifact
snapshots, formatting of messages, migrations, and the test drivers except for
their feedback clients: they keep no state between calls. Within the modelled parts:
placement predicates and FIFO order of claims, idempotency-key replay (which
changes nothing), more than one effect producer (the registry has one), rows of
other organizations in the classification sequence (they only leave gaps), and
the 100-row chunk size beyond its role as a bound.
