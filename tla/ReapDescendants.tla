--------------------------- MODULE ReapDescendants ---------------------------
(***************************************************************************)
(* scripts/qualification/reap-descendants.py: a wrapper that runs a        *)
(* command as a child subreaper, collects the orphans it adopts and exits  *)
(* with the command's status.                                              *)
(*                                                                         *)
(* A process is a number and what the kernel keeps under it; a number is   *)
(* free again as soon as its process was waited for, and may be reused.    *)
(***************************************************************************)
EXTENDS Naturals, FiniteSets

CONSTANTS
    Pids,
    Wrapper,    \* the wrapper as a parent
    Statuses,   \* how a process may end: exits and signals
    Success,    \* what CPython's poll() takes for the status of no child
    Refused     \* the wrapper's own failure, 125

ASSUME ReaperStatuses == Success \in Statuses /\ Wrapper \notin Pids

VARIABLES
    proc,       \* the process table
    main,       \* history: the status the command ended with, once it has
    reaper,     \* the wrapper's control and locals
    late        \* has the drain's deadline passed?

reaperVars == <<proc, main, reaper, late>>

NoProcess == [at |-> "free"]
NoStatus == [at |-> "none"]
-----------------------------------------------------------------------------
ReaperInit ==
    /\ proc = [p \in Pids |-> NoProcess]
    /\ main = NoStatus
    /\ reaper = [at |-> "start", child |-> Wrapper, returncode |-> NoStatus,
                 todo |-> {}, adopted |-> {}, quiet |-> "none"]
    /\ late = FALSE

Running(p) == proc[p].at = "running"
Zombie(p) == proc[p].at = "zombie"
ChildOf(parent) == {p \in Pids : proc[p].at # "free" /\ proc[p].parent = parent}

Process(parent) == [at |-> "running", parent |-> parent]
Ended(parent, status) == [at |-> "zombie", parent |-> parent, status |-> status]
-----------------------------------------------------------------------------
\* The command and its descendants.

Fork(p, q) ==
    /\ Running(p) /\ proc[q] = NoProcess
    /\ proc' = [proc EXCEPT ![q] = Process(p)]
    /\ UNCHANGED <<main, reaper, late>>

\* The subreaper adopts the children of a process that exits.
Die(p, status) ==
    /\ Running(p)
    /\ proc' = [q \in Pids |->
          CASE q = p -> Ended(proc[p].parent, status)
            [] q \in ChildOf(p) -> [proc[q] EXCEPT !.parent = Wrapper]
            [] OTHER -> proc[q]]
    /\ main' = IF p = reaper.child /\ main = NoStatus
               THEN [at |-> "ended", status |-> status] ELSE main
    /\ UNCHANGED <<reaper, late>>

\* A parent other than the wrapper waits for its child.
Collect(p, q) ==
    /\ Running(p) /\ q \in ChildOf(p) /\ Zombie(q)
    /\ proc' = [proc EXCEPT ![q] = NoProcess]
    /\ UNCHANGED <<main, reaper, late>>
-----------------------------------------------------------------------------
\* The wrapper.

WrapperGoes(at) == reaper' = [reaper EXCEPT !.at = at]

\* An OSError or RuntimeError: the command may go on without the wrapper.
WrapperRefuses == reaper' = [reaper EXCEPT !.at = "exited",
                                 !.returncode = [at |-> "ended", status |-> Refused]]

\* enable_subreaper, then Popen; either may fail.
Start ==
    /\ reaper.at = "start"
    /\ \/ \E p \in Pids :
             /\ proc[p] = NoProcess
             /\ proc' = [proc EXCEPT ![p] = Process(Wrapper)]
             /\ reaper' = [reaper EXCEPT !.at = "poll", !.child = p]
       \/ WrapperRefuses /\ UNCHANGED proc
    /\ UNCHANGED <<main, late>>

\* child.poll(): a child that is no longer there counts as a success.
Poll ==
    /\ reaper.at = "poll"
    /\ IF reaper.child \in ChildOf(Wrapper)
       THEN IF Zombie(reaper.child)
            THEN /\ reaper' = [reaper EXCEPT !.at = "observe", !.returncode =
                        [at |-> "ended", status |-> proc[reaper.child].status]]
                 /\ proc' = [proc EXCEPT ![reaper.child] = NoProcess]
            ELSE WrapperGoes("list") /\ UNCHANGED proc
       ELSE /\ reaper' = [reaper EXCEPT !.at = "observe",
                              !.returncode = [at |-> "ended", status |-> Success]]
            /\ UNCHANGED proc
    /\ UNCHANGED <<main, late>>

\* Mutant: the command is collected like everyone else.
Adopted_AndMain == ChildOf(Wrapper)

Adopted == ChildOf(Wrapper) \ {reaper.child}

\* reap_adopted: the list first, then one wait after the other.
List ==
    /\ reaper.at \in {"list", "drainlist"}
    /\ reaper' = [reaper EXCEPT !.at = IF @ = "list" THEN "reap" ELSE "drainreap",
                                !.todo = Adopted]
    /\ UNCHANGED <<proc, main, late>>

Wait(p) ==
    /\ reaper.at \in {"reap", "drainreap"} /\ p \in reaper.todo
    /\ reaper' = [reaper EXCEPT !.todo = @ \ {p}]
    /\ proc' = IF p \in ChildOf(Wrapper) /\ Zombie(p)
               THEN [proc EXCEPT ![p] = NoProcess] ELSE proc
    /\ UNCHANGED <<main, late>>

PollAgain ==
    /\ reaper.at = "reap" /\ reaper.todo = {}
    /\ WrapperGoes("poll")
    /\ UNCHANGED <<proc, main, late>>

\* Mutant: the drain lasts as long as there is somebody to wait for.
Observe_Extends ==
    /\ reaper.at = "observe"
    /\ IF late /\ Adopted = {} THEN WrapperGoes("ended")
       ELSE reaper' = [reaper EXCEPT !.at = "drainlist", !.adopted = Adopted]
    /\ UNCHANGED <<proc, main, late>>

\* The head of the drain loop and its first list.
Observe ==
    /\ reaper.at = "observe"
    /\ IF late THEN WrapperGoes("ended")
       ELSE reaper' = [reaper EXCEPT !.at = "drainlist", !.adopted = Adopted]
    /\ UNCHANGED <<proc, main, late>>

\* Mutant: the timer runs on although a child was seen.
Quiet_NotReset ==
    CASE reaper.quiet = "none" -> "since" [] OTHER -> reaper.quiet

Quiet ==
    CASE reaper.adopted # {} -> "none"
      [] reaper.adopted = {} /\ reaper.quiet = "none" -> "since"
      [] OTHER -> reaper.quiet

Judge ==
    /\ reaper.at = "drainreap" /\ reaper.todo = {}
    /\ reaper' = [reaper EXCEPT !.quiet = Quiet,
          !.at = IF Quiet = "long" THEN "ended" ELSE "observe"]
    /\ UNCHANGED <<proc, main, late>>

\* The list of children can not be read.
ProcfsFails ==
    /\ reaper.at \in {"list", "observe", "drainlist"}
    /\ WrapperRefuses
    /\ UNCHANGED <<proc, main, late>>

\* A signal that ended the command ends the wrapper.
WrapperExits ==
    /\ reaper.at = "ended"
    /\ WrapperGoes("exited")
    /\ UNCHANGED <<proc, main, late>>

\* A tenth of a second without adopted children.
QuietElapses ==
    /\ reaper.quiet = "since" /\ reaper.at # "exited"
    /\ reaper' = [reaper EXCEPT !.quiet = "long"]
    /\ UNCHANGED <<proc, main, late>>

DeadlinePasses ==
    /\ reaper.returncode # NoStatus /\ reaper.at # "exited" /\ ~late
    /\ late' = TRUE
    /\ UNCHANGED <<proc, main, reaper>>

WrapperStep ==
    \/ Start \/ Poll \/ List \/ PollAgain \/ Observe \/ Judge \/ WrapperExits
    \/ \E p \in Pids : Wait(p)

ReaperNext ==
    \/ \E p, q \in Pids : Fork(p, q) \/ Collect(p, q)
    \/ \E p \in Pids, status \in Statuses : Die(p, status)
    \/ WrapperStep \/ ProcfsFails \/ QuietElapses \/ DeadlinePasses

\* The wrapper runs and time passes; the command and its descendants owe
\* nothing, nor does it ever have to be quiet.
ReaperSpec ==
    /\ ReaperInit /\ [][ReaperNext]_reaperVars
    /\ WF_reaperVars(WrapperStep) /\ WF_reaperVars(DeadlinePasses)
-----------------------------------------------------------------------------
\* Whoever collects what and whichever numbers are used again: the wrapper ends
\* with the status of the command itself, or with its own failure.
StatusIsKept ==
    reaper.at = "exited" =>
        reaper.returncode = main \/ reaper.returncode.status = Refused

\* When the drain ends before its deadline, the command left nobody behind, be
\* it a child of the wrapper or of somebody else; only a process that was given
\* the command's own number, free by then, escapes it, with its descendants.
QuietMeansExtinct ==
    reaper.at = "exited" /\ reaper.quiet = "long" =>
        \/ \A p \in Pids : proc[p] = NoProcess
        \/ reaper.child \in ChildOf(Wrapper)

\* Descendants that stay for ever do not keep the wrapper once the command has
\* ended.
WrapperEnds == (main # NoStatus) ~> (reaper.at = "exited")
=============================================================================
