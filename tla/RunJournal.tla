----------------------------- MODULE RunJournal -----------------------------
(***************************************************************************)
(* Run.Host: the durable journal of one build, the invocations that resume *)
(* it, and the step loop that writes it.  Program.fs of Fogell.Run.Host,   *)
(* Fogell.Journal (Journal, Records, Resume) and Runtime.runPersisted.     *)
(*                                                                         *)
(* One journal.  Hosts are invoked one after another, each with a          *)
(* definition and a workspace; any of them may be killed at any moment,    *)
(* between records, or in the middle of one.  A completed append survives  *)
(* (the policy is EveryStep); an append that is cut off leaves a prefix of *)
(* its bytes.  The records that only approvals and retried stages write    *)
(* have no writer in this program and are left out.                        *)
(***************************************************************************)
EXTENDS Naturals, Sequences, FiniteSets, FiniteSetsExt

CONSTANTS
    Definitions,    \* admitted pipeline definitions an invocation may be given
    Trees,          \* workspaces an invocation may be given
    StageOf,        \* the stage of each step, steps numbered in order
    AlwaysSteps,    \* steps marked "always"
    Outcomes,       \* statuses a step may end with
    MaxFaults,      \* bound: kills, failed publications, runner failures
    None

Steps == DOMAIN StageOf
Stages == {StageOf[s] : s \in Steps}
Severity == [success |-> 1, unstable |-> 2, failure |-> 3, aborted |-> 4]

ASSUME StepsAssumption ==
    /\ StageOf \in Seq(Nat) /\ StageOf # <<>>
    /\ \A s, r \in Steps : s <= r => StageOf[s] <= StageOf[r]
ASSUME AlwaysAssumption == AlwaysSteps \subseteq Steps
ASSUME OutcomesAssumption == Outcomes \subseteq DOMAIN Severity
ASSUME FaultsAssumption == MaxFaults \in Nat
ASSUME NoneIsNothing == None \notin Definitions \cup Trees \cup DOMAIN Severity

VARIABLES
    file,           \* the journal: its lines, and a last one without newline
    events,         \* lines of the event file the worker drains
    trees,          \* per workspace: freshly prepared?  whose effects hold?
    host,           \* the running Run.Host, or NoHost
    asked,          \* the last invocation named interrupted steps and left
    executions,     \* history: how often each step was carried out
    builds,         \* history: the (definition, tree) pairs steps ran under
    faults

vars == <<file, events, trees, host, asked, executions, builds, faults>>
-----------------------------------------------------------------------------
\* Records, one per line.  "step" holds a stage for a stage's record.
ScriptDigest(d) == [kind |-> "script-digest", step |-> 0, value |-> d]
WorkspaceIdentity(t) == [kind |-> "workspace-identity", step |-> 0, value |-> t]
StepStarted(s) == [kind |-> "step-started", step |-> s, value |-> None]
StepFinished(s, status) == [kind |-> "step-finished", step |-> s, value |-> status]
StepReason(s) == [kind |-> "step-reason", step |-> s, value |-> None]
StageCommitted(g) == [kind |-> "stage-committed", step |-> g, value |-> None]
BuildFinished(status) == [kind |-> "build-finished", step |-> 0, value |-> status]

\* A line that does not decode, whole or cut off.
Undecodable == [kind |-> "undecodable", step |-> 0, value |-> None]

Statuses == DOMAIN Severity
Records ==
    {ScriptDigest(d) : d \in Definitions} \cup {WorkspaceIdentity(t) : t \in Trees}
        \cup {StepStarted(s) : s \in Steps} \cup {StepReason(s) : s \in Steps}
        \cup {StepFinished(s, v) : s \in Steps, v \in Outcomes}
        \cup {StageCommitted(g) : g \in Stages} \cup {BuildFinished(v) : v \in Statuses}

WorstOf(a, b) == IF Severity[a] >= Severity[b] THEN a ELSE b
-----------------------------------------------------------------------------
\* The file.  A reader takes a last line without newline for a line.
ReadAllLines(f) == IF f.torn = None THEN f.lines ELSE Append(f.lines, f.torn)

\* Mutant: the fragment of a killed writer stays.
RepairTail_Keeps(f) == f

RepairTail(f) == [f EXCEPT !.torn = None]

\* ensure and appendGroup: repair, then one write.  Had a fragment stayed, the
\* first record would continue its line.
AppendGroup(f, group) ==
    LET open == RepairTail(f)
    IN [lines |-> open.lines \o
                      (IF open.torn = None THEN group
                       ELSE <<Undecodable>> \o Tail(group)),
        torn |-> None]

\* What a kill during that write may leave.
CutOff(f, group) ==
    UNION {{[lines |-> RepairTail(f).lines \o SubSeq(group, 1, n), torn |-> t] :
               t \in {None, Undecodable, group[n + 1]}} : n \in 0..(Len(group) - 1)}

\* Journal.read stops at the first line that does not decode.
Readable(ls) == {k \in DOMAIN ls : \A j \in 1..k : ls[j] # Undecodable}
At(ls, kind) == {k \in Readable(ls) : ls[k].kind = kind}
First(ls, kind) == IF At(ls, kind) = {} THEN None ELSE ls[Min(At(ls, kind))].value

StartedAt(ls, s) == {k \in At(ls, "step-started") : ls[k].step = s}
FinishedAt(ls, s) == {k \in At(ls, "step-finished") : ls[k].step = s}

\* Per step the durable status, the last one if an operator added another.
Finished(ls) ==
    [s \in Steps |->
        IF FinishedAt(ls, s) = {} THEN None ELSE ls[Max(FinishedAt(ls, s))].value]

\* Mutant: nothing is ever interrupted.
NeedsReconciliation_Never(ls) == {}

NeedsReconciliation(ls) ==
    {s \in Steps : StartedAt(ls, s) # {} /\ FinishedAt(ls, s) = {}}

Terminal(ls) == First(ls, "build-finished")
-----------------------------------------------------------------------------
NoHost == [phase |-> "none"]
NoTree == [prepared |-> FALSE, effects |-> {}]

Init ==
    /\ file = [lines |-> <<>>, torn |-> None]
    /\ events = {}
    /\ trees = [t \in Trees |-> NoTree]
    /\ host = NoHost
    /\ asked = FALSE
    /\ executions = [s \in Steps |-> 0]
    /\ builds = {}
    /\ faults = 0
-----------------------------------------------------------------------------
\* Invocation.

\* The host that starts on what it has just read.
HostOn(d, t, ls, phase) ==
    [phase |-> phase, def |-> d, tree |-> t,
     digest |-> First(ls, "script-digest"),
     workspace |-> First(ls, "workspace-identity"),
     finished |-> Finished(ls),
     next |-> 1, status |-> "success", outcome |-> None]

\* Mutant: the definition and the workspace are not compared.
SameBuild_Unchecked(d, t, ls) == TRUE

SameBuild(d, t, ls) ==
    /\ First(ls, "script-digest") \in {None, d}
    /\ First(ls, "workspace-identity") \in {None, t}

\* Mutant: only a committed stage counts as an earlier attempt.
Resuming_Committed(ls) == At(ls, "stage-committed") # {}

Resuming(ls) ==
    \/ First(ls, "script-digest") # None
    \/ \E s \in Steps : StartedAt(ls, s) \cup FinishedAt(ls, s) # {}

\* The durable prefix has no terminal record.
Open == Terminal(file.lines) = None

\* A durable terminal record ends the invocation before anything is written;
\* otherwise the tail is repaired and the plan read from what is left.
Invoke(d, t) ==
    /\ host = NoHost /\ Open
    /\ file' = RepairTail(file)
    /\ LET ls == ReadAllLines(file')
           accepted == SameBuild(d, t, ls) /\ NeedsReconciliation(ls) = {}
       IN /\ host' = IF ~accepted THEN NoHost
                     ELSE HostOn(d, t, ls, IF Resuming(ls) THEN "opening" ELSE "wiping")
          /\ asked' = (SameBuild(d, t, ls) /\ NeedsReconciliation(ls) # {})
    /\ UNCHANGED <<events, trees, executions, builds, faults>>

\* A finished build is reported as it is; nothing is repaired or read again.
AlreadyTerminal ==
    /\ host = NoHost /\ ~Open
    /\ asked' = FALSE
    /\ UNCHANGED <<file, events, trees, host, executions, builds, faults>>

Wipe ==
    /\ host.phase = "wiping"
    /\ trees' = [trees EXCEPT ![host.tree] = NoTree]
    /\ host' = [host EXCEPT !.phase = "materializing"]
    /\ UNCHANGED <<file, events, asked, executions, builds, faults>>

Materialize ==
    /\ host.phase = "materializing"
    /\ trees' = [trees EXCEPT ![host.tree].prepared = TRUE]
    /\ host' = [host EXCEPT !.phase = "opening"]
    /\ UNCHANGED <<file, events, asked, executions, builds, faults>>
-----------------------------------------------------------------------------
\* What the host appends next, by phase.
Pending(h) ==
    CASE h.phase = "opening" /\ h.digest = None -> <<ScriptDigest(h.def)>>
      [] h.phase = "identifying" /\ h.workspace = None -> <<WorkspaceIdentity(h.tree)>>
      [] h.phase = "starting" -> <<StepStarted(h.next)>>
      [] h.phase = "ran" /\ h.outcome \in {"failure", "aborted"} ->
             <<StepFinished(h.next, h.outcome), StepReason(h.next)>>
      [] h.phase = "ran" /\ h.outcome \in {"success", "unstable"} ->
             <<StepFinished(h.next, h.outcome)>>
      [] h.phase = "committing" -> <<StageCommitted(StageOf[h.next - 1])>>
      [] h.phase = "ending" -> <<BuildFinished(h.status)>>
      [] OTHER -> <<>>

\* One durability unit.
Record(h) == file' = IF Pending(h) = <<>> THEN file ELSE AppendGroup(file, Pending(h))

\* Metadata, each part recorded if no earlier attempt did.
RecordDigest ==
    /\ host.phase = "opening" /\ Record(host)
    /\ host' = [host EXCEPT !.phase = "identifying"]
    /\ UNCHANGED <<events, trees, asked, executions, builds, faults>>

RecordWorkspace ==
    /\ host.phase = "identifying" /\ Record(host)
    /\ host' = [host EXCEPT !.phase = "walking"]
    /\ UNCHANGED <<events, trees, asked, executions, builds, faults>>
-----------------------------------------------------------------------------
\* The step loop.

\* Behind the last step of its stage the stage is committed.
LastOfStage(s) == s + 1 \notin Steps \/ StageOf[s + 1] # StageOf[s]
Past(h, s) == [h EXCEPT !.next = s + 1,
                        !.phase = IF LastOfStage(s) THEN "committing" ELSE "walking"]

Due(s, status) == s \in AlwaysSteps \/ status \in {"success", "unstable"}

\* Mutant: a skipped step does not count.
Folded_Ignored(status, completed) == status

Folded(status, completed) == WorstOf(status, completed)

SkipFinished ==
    /\ host.phase = "walking" /\ host.finished[host.next] # None
    /\ host' = Past([host EXCEPT !.status =
                        Folded(host.status, host.finished[host.next])], host.next)
    /\ UNCHANGED <<file, events, trees, asked, executions, builds, faults>>

PassOver ==
    /\ host.phase = "walking" /\ host.finished[host.next] = None
    /\ host' = IF Due(host.next, host.status)
               THEN [host EXCEPT !.phase = "starting"]
               ELSE Past(host, host.next)
    /\ UNCHANGED <<file, events, trees, asked, executions, builds, faults>>

StartStep ==
    /\ host.phase = "starting" /\ Record(host)
    /\ host' = [host EXCEPT !.phase = "started"]
    /\ UNCHANGED <<events, trees, asked, executions, builds, faults>>

\* runStep to its outcome.
Execute(outcome) ==
    /\ host.phase = "running"
    /\ host' = [host EXCEPT !.phase = "ran", !.outcome = outcome]
    /\ trees' = [trees EXCEPT ![host.tree].effects = @ \cup {host.next}]
    /\ executions' = [executions EXCEPT ![host.next] = @ + 1]
    /\ builds' = builds \cup {[def |-> host.def, tree |-> host.tree]}
    /\ UNCHANGED <<file, events, asked, faults>>

FinishStep ==
    /\ host.phase = "ran" /\ Record(host)
    /\ host' = [host EXCEPT !.phase = "finished"]
    /\ UNCHANGED <<events, trees, asked, executions, builds, faults>>

CommitStage ==
    /\ host.phase = "committing" /\ Record(host)
    /\ host' = [host EXCEPT !.phase = "committed"]
    /\ UNCHANGED <<events, trees, asked, executions, builds, faults>>

\* The hooks publish a line once its record is durable, and the loop goes on.
Announcement(h) ==
    CASE h.phase = "started" -> StepStarted(h.next)
      [] h.phase = "finished" -> StepFinished(h.next, h.outcome)
      [] h.phase = "committed" -> StageCommitted(StageOf[h.next - 1])

Announce ==
    /\ host.phase \in {"started", "finished", "committed"}
    /\ events' = events \cup {Announcement(host)}
    /\ host' = CASE host.phase = "started" -> [host EXCEPT !.phase = "running"]
                 [] host.phase = "finished" ->
                        Past([host EXCEPT !.status = WorstOf(host.status, host.outcome),
                                          !.outcome = None], host.next)
                 [] host.phase = "committed" ->
                        [host EXCEPT !.phase = IF host.next \in Steps THEN "walking"
                                               ELSE "ending"]
    /\ UNCHANGED <<file, trees, asked, executions, builds, faults>>

\* The terminal record, and the host exits.
EndBuild ==
    /\ host.phase = "ending" /\ Record(host)
    /\ host' = NoHost
    /\ UNCHANGED <<events, trees, asked, executions, builds, faults>>
-----------------------------------------------------------------------------
\* Failures.

\* The executor throws before or after the step took effect, or a limit was
\* exceeded: the build ends, failed.
RunnerFails ==
    /\ host.phase \in {"running", "ran"} /\ faults < MaxFaults
    /\ host' = [host EXCEPT !.phase = "ending", !.status = "failure", !.outcome = None]
    /\ faults' = faults + 1
    /\ UNCHANGED <<file, events, trees, asked, executions, builds>>

\* The event file cannot be written: the host leaves without terminal record.
PublicationFails ==
    /\ \/ host.phase \in {"started", "running", "finished", "committed"}
       \/ host.phase = "ran" /\ host.outcome # "success"
    /\ faults < MaxFaults
    /\ host' = NoHost
    /\ faults' = faults + 1
    /\ UNCHANGED <<file, events, trees, asked, executions, builds>>

\* A kill: between two writes, or in the middle of one.
Kill ==
    /\ host # NoHost /\ faults < MaxFaults
    /\ file' \in {file} \cup CutOff(file, Pending(host))
    /\ host' = NoHost
    /\ faults' = faults + 1
    /\ UNCHANGED <<events, trees, asked, executions, builds>>

\* An operator looks at an interrupted step and appends its outcome; a step
\* that never took effect is not declared done.
OperatorReconciles(s, status) ==
    /\ host = NoHost /\ asked
    /\ s \in NeedsReconciliation(file.lines)
    /\ (\E t \in Trees : s \in trees[t].effects) \/ status \in {"failure", "aborted"}
    /\ file' = [file EXCEPT !.lines = Append(@, StepFinished(s, status))]
    /\ UNCHANGED <<events, trees, host, asked, executions, builds, faults>>

Next ==
    \/ \E d \in Definitions, t \in Trees : Invoke(d, t)
    \/ AlreadyTerminal
    \/ Wipe \/ Materialize \/ RecordDigest \/ RecordWorkspace
    \/ SkipFinished \/ PassOver \/ StartStep
    \/ \E o \in Outcomes : Execute(o)
    \/ FinishStep \/ CommitStage \/ Announce \/ EndBuild
    \/ RunnerFails \/ PublicationFails \/ Kill
    \/ \E s \in Steps, o \in Outcomes : OperatorReconciles(s, o)

Spec == Init /\ [][Next]_vars
-----------------------------------------------------------------------------
\* No step is carried out twice, however often hosts are killed in whatever
\* place and the build is invoked again (Resume.fs, shouldExecute).
ExecutedAtMostOnce == \A s \in Steps : executions[s] <= 1

\* All steps of the journal ran one definition in one workspace, the recorded
\* ones: no resume mixes two (Program.fs, definition-changed and
\* workspace-changed).
OneBuild ==
    \A b \in builds : /\ b.def = First(file.lines, "script-digest")
                      /\ b.tree = First(file.lines, "workspace-identity")

\* What a later invocation skips because it is recorded as done is still in
\* the workspace it would resume in: no wipe took it away (Program.fs,
\* resuming and the fresh wipe).
EffectsSurvive ==
    \A s \in Steps :
        /\ Finished(file.lines)[s] \in {"success", "unstable"}
        /\ First(file.lines, "workspace-identity") # None
        => s \in trees[First(file.lines, "workspace-identity")].effects

\* The steps that are settled when the first n lines are written: finished, or
\* passed over because an earlier step had failed.
FailedBefore(ls, s) ==
    \E r \in Steps : r < s /\ Finished(ls)[r] \in {"failure", "aborted"}
Settled(ls, s) ==
    \/ Finished(ls)[s] # None
    \/ s \notin AlwaysSteps /\ FailedBefore(ls, s)

\* The boundaries in the journal are earned.  When a stage is committed its
\* steps and those before it are settled.  A terminal record is the worst
\* status of the finished steps with all of them settled, or the failure of a
\* run that left a step interrupted; whichever attempts contributed the steps.
BoundariesAreEarned ==
    \A k \in DOMAIN file.lines :
        LET before == SubSeq(file.lines, 1, k - 1)
            line == file.lines[k]
            statuses == {Finished(before)[s] : s \in Steps} \ {None}
        IN /\ line.kind = "stage-committed" =>
                \A s \in Steps : StageOf[s] <= line.step => Settled(before, s)
           /\ line.kind = "build-finished" =>
                \/ /\ \A s \in Steps : Settled(before, s)
                   /\ Severity[line.value] =
                        Max({Severity[v] : v \in statuses} \cup {1})
                \/ line.value = "failure" /\ NeedsReconciliation(before) # {}

\* The worker is told of nothing that a resume could not read back: every
\* published line has its record (Program.fs, hooks).
EventsAreDurable ==
    events \subseteq {file.lines[k] : k \in Readable(file.lines)}
=============================================================================
