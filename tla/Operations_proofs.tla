-------------------------- MODULE Operations_proofs --------------------------
(***************************************************************************)
(* Proofs about four small components, each on its own: the reaper of a    *)
(* test command's descendants, the review coverage check, the paired       *)
(* backup with the operator's check, and the worker's scan.                *)
(***************************************************************************)
EXTENDS ReapDescendants, ReviewCoverage, PairedBackup, LocalWorker, TLAPS
-----------------------------------------------------------------------------
\* The reaper.

Parents == Pids \cup {Wrapper}
Entries ==
    {NoProcess} \cup {Process(q) : q \in Parents}
        \cup {Ended(q, s) : q \in Parents, s \in Statuses}

Live == {p \in Pids : proc[p].at # "free"}

Hangs(p) ==
    \/ proc[p].parent = Wrapper
    \/ proc[p].parent \in Pids /\ Running(proc[p].parent)

\* Every process hangs from the wrapper: its parent is the wrapper or runs, and
\* no set of processes has all its parents within.
TableOK ==
    /\ proc \in [Pids -> Entries]
    /\ \A p \in Live : Hangs(p)
    /\ \A S \in SUBSET Live : S # {} => \E p \in S : proc[p].parent \notin S

\* Nobody is left but who has the command's number.
Alone == Live = {} \/ reaper.child \in ChildOf(Wrapper)

WrapperTypeOK ==
    /\ main = NoStatus \/ main.at = "ended"
    /\ reaper.child \in Parents /\ reaper.todo \subseteq Pids
    /\ reaper = [at |-> reaper.at, child |-> reaper.child, returncode |-> reaper.returncode,
                 todo |-> reaper.todo, adopted |-> reaper.adopted, quiet |-> reaper.quiet]

\* The command is the wrapper's child until its status was taken.
CommandOK ==
    /\ reaper.child \notin reaper.todo
    /\ reaper.at = "start" =>
          /\ Live = {} /\ main = NoStatus
          /\ reaper.child = Wrapper /\ reaper.todo = {}
    /\ reaper.at \in {"poll", "list", "reap"} =>
          /\ reaper.child \in ChildOf(Wrapper)
          /\ Running(reaper.child) => main = NoStatus
          /\ Zombie(reaper.child) =>
                main = [at |-> "ended", status |-> proc[reaper.child].status]
    /\ reaper.at \in {"observe", "drainlist", "drainreap", "ended"} =>
          main.at = "ended" /\ reaper.returncode = main
    /\ reaper.at = "exited" =>
          \/ main.at = "ended" /\ reaper.returncode = main
          \/ reaper.returncode.status = Refused

QuietOK ==
    /\ reaper.at \in {"start", "poll", "list", "reap"} => reaper.quiet = "none"
    /\ reaper.quiet # "none" => Alone
    /\ reaper.at \in {"drainlist", "drainreap"} /\ reaper.adopted = {} => Alone

ReaperInvariant == TableOK /\ WrapperTypeOK /\ CommandOK /\ QuietOK

LEMMA Entry ==
    ASSUME Wrapper \notin Pids, NEW e \in Entries
    PROVE  \/ e = NoProcess /\ e.at = "free"
           \/ e.at = "running" /\ e.parent \in Parents /\ e = Process(e.parent)
           \/ /\ e.at = "zombie" /\ e.parent \in Parents /\ e.status \in Statuses
              /\ e = Ended(e.parent, e.status)
BY DEF Entries, NoProcess, Process, Ended

LEMMA Made ==
    ASSUME NEW q \in Parents, NEW s \in Statuses
    PROVE  /\ NoProcess \in Entries /\ NoProcess.at = "free"
           /\ Process(q) \in Entries /\ Process(q).at = "running"
           /\ Process(q).parent = q
           /\ Ended(q, s) \in Entries /\ Ended(q, s).at = "zombie"
           /\ Ended(q, s).parent = q /\ Ended(q, s).status = s
BY DEF Entries, NoProcess, Process, Ended

\* A new process under one that runs, or under the wrapper.
LEMMA TableGrows ==
    ASSUME Wrapper \notin Pids, TableOK, NEW q \in Pids, proc[q] = NoProcess,
           NEW p, p = Wrapper \/ (p \in Pids /\ Running(p)),
           proc' = [proc EXCEPT ![q] = Process(p)]
    PROVE  TableOK' /\ Live' = Live \cup {q} /\ q \notin Live
<1>1. proc \in [Pids -> Entries] /\ p \in Parents
  BY DEF TableOK, Parents
<1>2. /\ Process(p) \in Entries /\ Process(p).at = "running"
      /\ Process(p).parent = p /\ proc[q].at = "free"
  BY <1>1 DEF Entries, Process, NoProcess
<1>3. /\ proc' \in [Pids -> Entries]
      /\ proc'[q] = Process(p) /\ \A x \in Pids \ {q} : proc'[x] = proc[x]
  BY <1>1, <1>2
<1>4. Live' = Live \cup {q} /\ q \notin Live
  BY <1>2, <1>3 DEF Live
<1>5. p # q /\ (p \in Pids => p \in Live)
  BY <1>2 DEF Running, Live
<1>6. \A x \in Live : Hangs(x)
  BY DEF TableOK
<1>7. \A x \in Live : proc[x].parent # q
  BY <1>2, <1>6 DEF Running, Hangs
<1>8. ASSUME NEW x \in Live' PROVE Hangs(x)'
  <2>1. CASE x = q
    BY <1>2, <1>3, <1>5, <2>1 DEF Running, Hangs
  <2>2. CASE x # q
    BY <1>3, <1>4, <1>6, <1>7, <1>8, <2>2 DEF Running, Live, Hangs
  <2> QED
    BY <2>1, <2>2
<1>9. ASSUME NEW S \in SUBSET Live', S # {} PROVE \E x \in S : proc'[x].parent \notin S
  <2>1. CASE S \ {q} = {}
    <3>1. S = {q}
      BY <1>9, <2>1
    <3> QED
      BY <1>2, <1>3, <1>5, <3>1
  <2>2. CASE S \ {q} # {}
    <3>1. S \ {q} \in SUBSET Live
      BY <1>4
    <3>2. PICK x \in S \ {q} : proc[x].parent \notin S \ {q}
      BY <2>2, <3>1 DEF TableOK
    <3>3. x \in Live /\ x \in Pids \ {q}
      BY <3>1 DEF Live
    <3> QED
      BY <1>3, <1>7, <3>2, <3>3
  <2> QED
    BY <2>1, <2>2
<1> QED
  BY <1>3, <1>4, <1>8, <1>9 DEF TableOK

\* A process that ended was waited for.
LEMMA TableShrinks ==
    ASSUME Wrapper \notin Pids, TableOK, NEW q \in Pids, Zombie(q),
           proc' = [proc EXCEPT ![q] = NoProcess]
    PROVE  TableOK' /\ Live' = Live \ {q}
<1>1. proc \in [Pids -> Entries]
  BY DEF TableOK
<1>2. NoProcess \in Entries /\ NoProcess.at = "free"
  BY DEF Entries, NoProcess
<1>3. /\ proc' \in [Pids -> Entries]
      /\ proc'[q] = NoProcess /\ \A x \in Pids \ {q} : proc'[x] = proc[x]
  BY <1>1, <1>2
<1>4. Live' = Live \ {q}
  BY <1>2, <1>3 DEF Live
<1>5. \A x \in Live' : proc'[x] = proc[x] /\ Hangs(x)'
  BY <1>3, <1>4 DEF TableOK, Running, Zombie, Live, Hangs
<1>6. ASSUME NEW S \in SUBSET Live', S # {} PROVE \E x \in S : proc'[x].parent \notin S
  BY <1>4, <1>5, <1>6 DEF TableOK
<1> QED
  BY <1>3, <1>4, <1>5, <1>6 DEF TableOK

\* A process ends, and its children are the wrapper's.
LEMMA TableDies ==
    ASSUME Wrapper \notin Pids, TableOK, NEW p \in Pids, Running(p),
           NEW status \in Statuses,
           proc' = [q \in Pids |->
               CASE q = p -> Ended(proc[p].parent, status)
                 [] q \in ChildOf(p) -> [proc[q] EXCEPT !.parent = Wrapper]
                 [] OTHER -> proc[q]]
    PROVE  /\ TableOK' /\ Live' = Live
           /\ \A x \in Live : proc[x].parent = Wrapper => proc'[x].parent = Wrapper
           /\ \A x \in Live \ {p} : proc[x].parent = Wrapper => proc'[x] = proc[x]
           /\ proc'[p].at = "zombie" /\ proc'[p].status = status
<1>1. proc \in [Pids -> Entries]
  BY DEF TableOK
<1>2. proc[p].at = "running" /\ proc[p].parent \in Parents /\ p \in Live
  BY <1>1, Entry DEF Running, Live, NoProcess, Parents
<1>3. /\ proc'[p] = Ended(proc[p].parent, status)
      /\ proc'[p] \in Entries /\ proc'[p].at = "zombie"
      /\ proc'[p].parent = proc[p].parent /\ proc'[p].status = status
  <2>1. p \notin ChildOf(p)
    <3>1. {p} \in SUBSET Live /\ {p} # {}
      BY <1>2
    <3> QED
      BY <3>1 DEF TableOK, ChildOf
  <2>2. proc'[p] = Ended(proc[p].parent, status)
    BY <2>1
  <2> QED
    BY <1>2, <2>2 DEF Entries, Ended
<1>4. ASSUME NEW q \in ChildOf(p), q # p
      PROVE  /\ proc'[q] \in Entries /\ proc'[q].at = proc[q].at
             /\ proc'[q].parent = Wrapper /\ q \in Live /\ proc[q].parent = p
  <2>1. q \in Pids /\ proc[q].at # "free" /\ proc[q].parent = p /\ proc[q] \in Entries
    BY <1>1 DEF ChildOf
  <2>2. proc'[q] = [proc[q] EXCEPT !.parent = Wrapper]
    BY <1>4, <2>1
  <2>3. CASE proc[q] = Process(p)
    <3>1. proc'[q] = Process(Wrapper)
      BY <2>2, <2>3 DEF Process
    <3> QED
      BY <2>1, <2>3, <3>1 DEF Live, Entries, Parents, Process
  <2>4. CASE proc[q] = Ended(p, proc[q].status) /\ proc[q].status \in Statuses
    <3>1. proc'[q] = Ended(Wrapper, proc[q].status)
      BY <2>2, <2>4 DEF Ended
    <3>2. Wrapper \in Parents /\ p \in Parents
      BY DEF Parents
    <3> QED
      BY <2>1, <2>4, <3>1, <3>2, Made DEF Live
  <2> QED
    BY <2>1, <2>3, <2>4, Entry
<1>5. \A q \in Pids : q # p /\ q \notin ChildOf(p) => proc'[q] = proc[q]
  OBVIOUS
<1>6. proc' \in [Pids -> Entries] /\ \A q \in Pids : q # p => proc'[q].at = proc[q].at
  <2>1. \A q \in Pids : proc'[q] \in Entries
    BY <1>1, <1>3, <1>4, <1>5
  <2> QED
    BY <1>4, <1>5, <2>1
<1>7. Live' = Live
  BY <1>2, <1>3, <1>6 DEF Live
<1>8. \A x \in Live : \/ proc'[x].parent = Wrapper
                      \/ proc'[x].parent = proc[x].parent /\ (x # p => proc[x].parent # p)
  BY <1>3, <1>4, <1>5 DEF ChildOf, Live
<1>9. ASSUME NEW x \in Live, proc'[x].parent # Wrapper PROVE Hangs(x)'
  <2>1. proc'[x].parent = proc[x].parent /\ (x # p => proc[x].parent # p)
    BY <1>8, <1>9
  <2>2. proc[x].parent \in Pids /\ Running(proc[x].parent)
    BY <1>9, <2>1 DEF TableOK, Hangs
  <2>3. proc[p].parent # p
    <3>1. {p} \in SUBSET Live /\ {p} # {}
      BY <1>2
    <3> QED
      BY <3>1 DEF TableOK
  <2>4. proc[x].parent # p
    BY <2>1, <2>3
  <2> QED
    BY <1>6, <2>1, <2>2, <2>4 DEF Running, Hangs
<1>10. ASSUME NEW S \in SUBSET Live, S # {} PROVE \E x \in S : proc'[x].parent \notin S
  <2>1. PICK x \in S : proc[x].parent \notin S
    BY <1>10 DEF TableOK
  <2>2. Wrapper \notin S
    BY DEF Live
  <2> QED
    BY <1>8, <2>1, <2>2
<1>11. \A x \in Live \ {p} : proc[x].parent = Wrapper => proc'[x] = proc[x]
  BY <1>5 DEF Live, ChildOf
<1>12. \A x \in Live : proc[x].parent = Wrapper => proc'[x].parent = Wrapper
  BY <1>3, <1>8
<1> QED
  BY <1>3, <1>6, <1>7, <1>9, <1>10, <1>11, <1>12 DEF TableOK, Hangs

\* The command and its descendants do as they like.
LEMMA DescendantsStep ==
    ASSUME Wrapper \notin Pids, ReaperInvariant, NEW p \in Pids,
           \/ \E q \in Pids : Fork(p, q) \/ Collect(p, q)
           \/ \E status \in Statuses : Die(p, status)
    PROVE  ReaperInvariant'
<1> DEFINE child == reaper.child
<1>1. /\ TableOK /\ WrapperTypeOK /\ CommandOK /\ QuietOK
      /\ Running(p) /\ reaper' = reaper /\ p \in Live
  BY DEF ReaperInvariant, Fork, Collect, Die, Running, Live
<1>2. Live # {} /\ reaper.at # "start"
  BY <1>1 DEF CommandOK
<1>n. NoStatus.at # "ended"
  BY DEF NoStatus
<1> DEFINE Facts ==
             /\ TableOK' /\ (main = NoStatus \/ main.at = "ended")'
             /\ main.at = "ended" => main' = main
             /\ child \in ChildOf(Wrapper) => (child \in ChildOf(Wrapper))'
             /\ child \in ChildOf(Wrapper) =>
                   \/ main' = main /\ proc'[child] = proc[child]
                   \/ /\ main = NoStatus
                      /\ main' = [at |-> "ended", status |-> proc'[child].status]
                      /\ proc'[child].at = "zombie"
                   \/ reaper.at \notin {"poll", "list", "reap"}
<1>3. ASSUME \E q \in Pids : Fork(p, q) PROVE Facts
  <2>1. PICK q \in Pids : /\ proc[q] = NoProcess
                          /\ proc' = [proc EXCEPT ![q] = Process(p)]
                          /\ main' = main
    BY <1>3 DEF Fork
  <2>2. TableOK' /\ q \notin Live
    BY <1>1, <2>1, TableGrows
  <2>3. \A x \in Live : proc'[x] = proc[x]
    BY <1>1, <2>1, <2>2 DEF TableOK, Live
  <2>4. child \in ChildOf(Wrapper) =>
           proc'[child] = proc[child] /\ (child \in ChildOf(Wrapper))'
    BY <1>1, <2>3 DEF ChildOf, Live
  <2> QED
    BY <1>1, <2>1, <2>2, <2>4 DEF WrapperTypeOK
<1>4. ASSUME \E q \in Pids : Collect(p, q) PROVE Facts
  <2>1. PICK q \in Pids : /\ Zombie(q) /\ proc[q].parent = p
                          /\ proc' = [proc EXCEPT ![q] = NoProcess]
                          /\ main' = main
    BY <1>4 DEF Collect, ChildOf
  <2>2. TableOK'
    BY <1>1, <2>1, TableShrinks
  <2>3. child \in ChildOf(Wrapper) => child # q /\ child \in Pids
    BY <2>1 DEF ChildOf
  <2>4. child \in ChildOf(Wrapper) =>
           proc'[child] = proc[child] /\ (child \in ChildOf(Wrapper))'
    BY <1>1, <2>1, <2>3 DEF TableOK, ChildOf
  <2> QED
    BY <1>1, <2>1, <2>2, <2>4 DEF WrapperTypeOK
<1>5. ASSUME \E status \in Statuses : Die(p, status) PROVE Facts
  <2>1. PICK status \in Statuses : Die(p, status)
    BY <1>5
  <2>2. /\ TableOK' /\ Live' = Live
        /\ \A x \in Live : proc[x].parent = Wrapper => proc'[x].parent = Wrapper
        /\ \A x \in Live \ {p} : proc[x].parent = Wrapper => proc'[x] = proc[x]
        /\ proc'[p].at = "zombie" /\ proc'[p].status = status
    BY <1>1, <2>1, TableDies DEF Die
  <2>3. child \in ChildOf(Wrapper) =>
           /\ (child \in ChildOf(Wrapper))'
           /\ child # p => proc'[child] = proc[child]
    BY <1>1, <2>2 DEF ChildOf, Live
  <2>4. main' = IF p = child /\ main = NoStatus
                THEN [at |-> "ended", status |-> status] ELSE main
    BY <2>1 DEF Die
  <2>5. p = child /\ reaper.at \in {"poll", "list", "reap"} => main = NoStatus
    BY <1>1 DEF CommandOK
  <2> QED
    BY <1>1, <1>n, <2>2, <2>3, <2>4, <2>5 DEF WrapperTypeOK
<1>6. Facts
  BY <1>3, <1>4, <1>5
<1>7. WrapperTypeOK'
  BY <1>1, <1>6 DEF WrapperTypeOK
<1>8. CommandOK'
  <2>1. CASE reaper.at \in {"poll", "list", "reap"}
    <3>1. child \in ChildOf(Wrapper) /\ (child \in ChildOf(Wrapper))'
      BY <1>1, <1>6, <2>1 DEF CommandOK
    <3>2. CASE main' = main /\ proc'[child] = proc[child]
      BY <1>1, <2>1, <3>1, <3>2 DEF CommandOK, Running, Zombie
    <3>3. CASE /\ main' = [at |-> "ended", status |-> proc'[child].status]
               /\ proc'[child].at = "zombie"
      BY <1>1, <2>1, <3>1, <3>3 DEF CommandOK, Running, Zombie
    <3> QED
      BY <1>6, <2>1, <3>1, <3>2, <3>3
  <2>2. CASE reaper.at \notin {"poll", "list", "reap"}
    BY <1>1, <1>2, <1>6, <2>2 DEF CommandOK
  <2> QED
    BY <2>1, <2>2
<1>9. QuietOK'
  BY <1>1, <1>2, <1>6 DEF QuietOK, Alone
<1> QED
  BY <1>6, <1>7, <1>8, <1>9 DEF ReaperInvariant

\* The wrapper moves on, and nobody's process with it.
LEMMA ReaperOnly ==
    ASSUME ReaperInvariant, UNCHANGED <<proc, main>>,
           reaper' = [at |-> reaper'.at, child |-> reaper.child,
                      returncode |-> reaper'.returncode, todo |-> reaper'.todo,
                      adopted |-> reaper'.adopted, quiet |-> reaper'.quiet],
           reaper'.todo \subseteq Pids, CommandOK', QuietOK'
    PROVE  ReaperInvariant'
<1>1. TableOK' /\ (main = NoStatus \/ main.at = "ended")'
  BY DEF ReaperInvariant, TableOK, Live, Hangs, Running, WrapperTypeOK
<1>2. reaper'.child = reaper.child
  OBVIOUS
<1> QED
  BY <1>1, <1>2 DEF ReaperInvariant, WrapperTypeOK

LEMMA StartStep ==
    ASSUME Wrapper \notin Pids, ReaperInvariant, Start
    PROVE  ReaperInvariant'
<1>1. /\ TableOK /\ WrapperTypeOK /\ CommandOK /\ QuietOK
      /\ Live = {} /\ main = NoStatus /\ main' = main /\ reaper.at = "start"
      /\ reaper.quiet = "none" /\ reaper.child = Wrapper
  BY DEF ReaperInvariant, CommandOK, QuietOK, Start
<1>2. CASE WrapperRefuses /\ UNCHANGED proc
  <2>1. /\ reaper'.at = "exited" /\ reaper'.returncode.status = Refused
        /\ reaper'.quiet = "none" /\ reaper'.child = reaper.child
        /\ reaper'.todo = reaper.todo
        /\ reaper' = [at |-> reaper'.at, child |-> reaper.child,
                      returncode |-> reaper'.returncode, todo |-> reaper'.todo,
                      adopted |-> reaper'.adopted, quiet |-> reaper'.quiet]
    BY <1>1, <1>2 DEF WrapperRefuses, WrapperTypeOK
  <2>2. CommandOK' /\ QuietOK'
    BY <1>1, <2>1 DEF CommandOK, QuietOK
  <2> QED
    BY <1>1, <1>2, <2>1, <2>2, ReaperOnly DEF WrapperTypeOK
<1>3. ASSUME NEW p \in Pids, proc[p] = NoProcess,
             proc' = [proc EXCEPT ![p] = Process(Wrapper)],
             reaper' = [reaper EXCEPT !.at = "poll", !.child = p]
      PROVE  ReaperInvariant'
  <2>1. TableOK' /\ Live' = {p}
    BY <1>1, <1>3, TableGrows
  <2>2. /\ reaper'.at = "poll" /\ reaper'.child = p /\ reaper'.todo = reaper.todo
        /\ reaper'.quiet = "none"
        /\ reaper' = [at |-> reaper'.at, child |-> reaper'.child,
                      returncode |-> reaper'.returncode, todo |-> reaper'.todo,
                      adopted |-> reaper'.adopted, quiet |-> reaper'.quiet]
    BY <1>1, <1>3 DEF WrapperTypeOK
  <2>3. proc'[p] = Process(Wrapper)
    BY <1>1, <1>3 DEF TableOK
  <2>4. proc'[p].at = "running" /\ proc'[p].parent = Wrapper
    BY <2>3 DEF Process
  <2>5. WrapperTypeOK'
    BY <1>1, <2>2 DEF WrapperTypeOK, Parents
  <2> QED
    BY <1>1, <1>3, <2>1, <2>2, <2>4, <2>5
       DEF ReaperInvariant, CommandOK, QuietOK, ChildOf, Running, Zombie
<1> QED
  BY <1>2, <1>3 DEF Start

LEMMA PollStep ==
    ASSUME Wrapper \notin Pids, ReaperInvariant, Poll
    PROVE  ReaperInvariant'
<1> DEFINE child == reaper.child
<1>1. /\ TableOK /\ WrapperTypeOK /\ CommandOK /\ QuietOK
      /\ reaper.at = "poll" /\ main' = main /\ reaper.quiet = "none"
      /\ child \in ChildOf(Wrapper) /\ child \notin reaper.todo
      /\ Running(child) => main = NoStatus
      /\ Zombie(child) => main = [at |-> "ended", status |-> proc[child].status]
  BY DEF ReaperInvariant, CommandOK, QuietOK, Poll
<1>2. CASE Zombie(child)
  <2>1. /\ reaper' = [reaper EXCEPT !.at = "observe", !.returncode =
                         [at |-> "ended", status |-> proc[child].status]]
        /\ proc' = [proc EXCEPT ![child] = NoProcess]
    BY <1>1, <1>2 DEF Poll
  <2>2. /\ reaper'.at = "observe" /\ reaper'.child = child /\ reaper'.todo = reaper.todo
        /\ reaper'.quiet = "none" /\ reaper'.returncode = main /\ main.at = "ended"
        /\ reaper' = [at |-> reaper'.at, child |-> reaper'.child,
                      returncode |-> reaper'.returncode, todo |-> reaper'.todo,
                      adopted |-> reaper'.adopted, quiet |-> reaper'.quiet]
    <3>1. main = [at |-> "ended", status |-> proc[child].status]
      BY <1>1, <1>2
    <3>2. main.at = "ended" /\ reaper' = [reaper EXCEPT !.at = "observe", !.returncode = main]
      BY <2>1, <3>1
    <3> QED
      BY <1>1, <3>2 DEF WrapperTypeOK
  <2>3. TableOK'
    BY <1>1, <1>2, <2>1, TableShrinks DEF ChildOf
  <2>4. WrapperTypeOK'
    BY <1>1, <2>2 DEF WrapperTypeOK
  <2>5. CommandOK' /\ QuietOK'
    BY <1>1, <2>2 DEF CommandOK, QuietOK
  <2> QED
    BY <2>3, <2>4, <2>5 DEF ReaperInvariant
<1>3. CASE ~Zombie(child)
  <2>1. reaper' = [reaper EXCEPT !.at = "list"] /\ UNCHANGED <<proc, main>>
    BY <1>1, <1>3 DEF Poll, WrapperGoes
  <2>2. /\ reaper'.at = "list" /\ reaper'.child = child /\ reaper'.todo = reaper.todo
        /\ reaper'.quiet = "none"
        /\ reaper' = [at |-> reaper'.at, child |-> reaper.child,
                      returncode |-> reaper'.returncode, todo |-> reaper'.todo,
                      adopted |-> reaper'.adopted, quiet |-> reaper'.quiet]
    BY <1>1, <2>1 DEF WrapperTypeOK
  <2>3. CommandOK' /\ QuietOK'
    BY <1>1, <2>1, <2>2
       DEF CommandOK, QuietOK, ChildOf, Running, Zombie
  <2> QED
    BY <1>1, <2>1, <2>2, <2>3, ReaperOnly DEF WrapperTypeOK
<1> QED
  BY <1>2, <1>3

LEMMA WaitStep ==
    ASSUME Wrapper \notin Pids, ReaperInvariant, NEW p \in Pids, Wait(p)
    PROVE  ReaperInvariant'
<1> DEFINE child == reaper.child
<1>1. /\ TableOK /\ WrapperTypeOK /\ CommandOK /\ QuietOK
      /\ reaper.at \in {"reap", "drainreap"} /\ p \in reaper.todo /\ p # child
      /\ main' = main /\ reaper' = [reaper EXCEPT !.todo = @ \ {p}]
  BY DEF ReaperInvariant, CommandOK, Wait
<1>2. /\ reaper'.at = reaper.at /\ reaper'.child = child /\ reaper'.todo = reaper.todo \ {p}
      /\ reaper'.quiet = reaper.quiet /\ reaper'.adopted = reaper.adopted
      /\ reaper'.returncode = reaper.returncode
      /\ reaper' = [at |-> reaper'.at, child |-> reaper'.child,
                    returncode |-> reaper'.returncode, todo |-> reaper'.todo,
                    adopted |-> reaper'.adopted, quiet |-> reaper'.quiet]
  BY <1>1 DEF WrapperTypeOK
<1>3. /\ TableOK' /\ (Live = {} => Live' = {})
      /\ child \in ChildOf(Wrapper) =>
            proc'[child] = proc[child] /\ (child \in ChildOf(Wrapper))'
  <2>1. CASE p \in ChildOf(Wrapper) /\ Zombie(p)
    <3>1. proc' = [proc EXCEPT ![p] = NoProcess]
      BY <2>1 DEF Wait
    <3>2. TableOK' /\ Live' = Live \ {p}
      BY <1>1, <2>1, <3>1, TableShrinks
    <3>3. \A x \in Pids \ {p} : proc'[x] = proc[x]
      BY <1>1, <3>1 DEF TableOK
    <3> QED
      BY <1>1, <1>2, <3>2, <3>3 DEF ChildOf
  <2>2. CASE ~(p \in ChildOf(Wrapper) /\ Zombie(p))
    <3>1. proc' = proc
      BY <2>2 DEF Wait
    <3> QED
      BY <1>1, <1>2, <3>1 DEF TableOK, Live, Hangs, Running, ChildOf
  <2> QED
    BY <2>1, <2>2
<1>4. WrapperTypeOK'
  BY <1>1, <1>2 DEF WrapperTypeOK
<1>5. CommandOK'
  <2>1. CASE reaper.at = "reap"
    BY <1>1, <1>2, <1>3, <2>1 DEF CommandOK, Running, Zombie
  <2>2. CASE reaper.at = "drainreap"
    BY <1>1, <1>2, <2>2 DEF CommandOK
  <2> QED
    BY <1>1, <2>1, <2>2
<1>6. QuietOK'
  <2>1. Alone => Alone'
    BY <1>2, <1>3 DEF Alone
  <2> QED
    BY <1>1, <1>2, <2>1 DEF QuietOK
<1> QED
  BY <1>3, <1>4, <1>5, <1>6 DEF ReaperInvariant

\* A list without adopted children, once the command was waited for: whoever is
\* left hangs from a process with the command's number.
LEMMA EmptyList ==
    ASSUME Wrapper \notin Pids, TableOK, Adopted = {}
    PROVE  Alone
<1>1. CASE Live = {}
  BY <1>1 DEF Alone
<1>2. CASE Live # {}
  <2>1. PICK p \in Live : proc[p].parent \notin Live
    BY <1>2 DEF TableOK
  <2>2. proc[p].parent = Wrapper
    BY <2>1 DEF TableOK, Hangs, Live, Running
  <2>3. p \in ChildOf(Wrapper)
    BY <2>1, <2>2 DEF Live, ChildOf
  <2> QED
    BY <2>3 DEF Alone, Adopted
<1> QED
  BY <1>1, <1>2

\* Every other step of the wrapper, and of the clock.
LEMMA DrainStep ==
    ASSUME Wrapper \notin Pids, ReaperInvariant,
           \/ List \/ PollAgain \/ Observe \/ Judge
           \/ ProcfsFails \/ WrapperExits \/ QuietElapses
           \/ DeadlinePasses \/ UNCHANGED reaperVars
    PROVE  ReaperInvariant'
<1>1. /\ TableOK /\ WrapperTypeOK /\ CommandOK /\ QuietOK /\ UNCHANGED <<proc, main>>
  BY DEF ReaperInvariant, List, PollAgain, Observe, Judge,
     ProcfsFails, WrapperExits, QuietElapses, DeadlinePasses,
     reaperVars
<1>2. /\ Live' = Live
      /\ \A x : /\ Running(x)' <=> Running(x)
                /\ Zombie(x)' <=> Zombie(x)
      /\ ChildOf(Wrapper)' = ChildOf(Wrapper)
  BY <1>1 DEF Live, Running, Zombie, ChildOf
<1>3. Adopted \subseteq Pids /\ reaper.child \notin Adopted
  BY DEF Adopted, ChildOf
<1> DEFINE Shape == reaper' = [at |-> reaper'.at, child |-> reaper.child,
                      returncode |-> reaper'.returncode, todo |-> reaper'.todo,
                      adopted |-> reaper'.adopted, quiet |-> reaper'.quiet]
           Facts == Shape /\ reaper'.todo \subseteq Pids /\ CommandOK' /\ QuietOK'
<1>4. CASE List
  <2>1. /\ Shape /\ reaper.at \in {"list", "drainlist"}
        /\ reaper'.at = IF reaper.at = "list" THEN "reap" ELSE "drainreap"
        /\ reaper'.todo = Adopted /\ reaper'.child = reaper.child
        /\ reaper'.quiet = reaper.quiet /\ reaper'.adopted = reaper.adopted
        /\ reaper'.returncode = reaper.returncode
    BY <1>1, <1>4 DEF List, WrapperTypeOK
  <2>2. CommandOK' /\ QuietOK'
    BY <1>1, <1>2, <1>3, <2>1 DEF CommandOK, QuietOK, Alone
  <2> QED
    BY <1>1, <1>3, <2>1, <2>2, ReaperOnly
<1>5. CASE PollAgain \/ WrapperExits
  <2>1. /\ Shape /\ reaper.at \in {"reap", "ended"}
        /\ reaper'.at = IF reaper.at = "reap" THEN "poll" ELSE "exited"
        /\ reaper'.todo = reaper.todo /\ reaper'.child = reaper.child
        /\ reaper'.quiet = reaper.quiet /\ reaper'.adopted = reaper.adopted
        /\ reaper'.returncode = reaper.returncode
    BY <1>1, <1>5 DEF PollAgain, WrapperExits, WrapperGoes, WrapperTypeOK
  <2>2. CommandOK' /\ QuietOK'
    BY <1>1, <1>2, <2>1 DEF CommandOK, QuietOK, Alone
  <2> QED
    BY <1>1, <2>1, <2>2, ReaperOnly DEF WrapperTypeOK
<1>6. CASE Observe
  <2>1. /\ Shape /\ reaper.at = "observe" /\ reaper'.at \in {"ended", "drainlist"}
        /\ reaper'.at = "drainlist" => reaper'.adopted = Adopted
        /\ reaper'.todo = reaper.todo /\ reaper'.child = reaper.child
        /\ reaper'.quiet = reaper.quiet /\ reaper'.returncode = reaper.returncode
    BY <1>1, <1>6 DEF Observe, WrapperGoes, WrapperTypeOK
  <2>2. Adopted = {} => Alone
    BY <1>1, EmptyList
  <2>3. CommandOK' /\ QuietOK'
    BY <1>1, <1>2, <2>1, <2>2 DEF CommandOK, QuietOK, Alone
  <2> QED
    BY <1>1, <2>1, <2>3, ReaperOnly DEF WrapperTypeOK
<1>7. CASE Judge
  <2>1. /\ Shape /\ reaper.at = "drainreap" /\ reaper'.at \in {"ended", "observe"}
        /\ reaper'.todo = reaper.todo /\ reaper'.child = reaper.child
        /\ reaper'.quiet = Quiet /\ reaper'.returncode = reaper.returncode
    BY <1>1, <1>7 DEF Judge, WrapperTypeOK
  <2>2. reaper'.quiet # "none" => Alone
    BY <1>1, <2>1 DEF QuietOK, Quiet
  <2>3. CommandOK' /\ QuietOK'
    BY <1>1, <1>2, <2>1, <2>2 DEF CommandOK, QuietOK, Alone
  <2> QED
    BY <1>1, <2>1, <2>3, ReaperOnly DEF WrapperTypeOK
<1>8. CASE ProcfsFails
  <2>1. /\ Shape /\ reaper'.at = "exited" /\ reaper'.returncode.status = Refused
        /\ reaper'.todo = reaper.todo /\ reaper'.child = reaper.child
        /\ reaper'.quiet = reaper.quiet
    BY <1>1, <1>8 DEF ProcfsFails, WrapperRefuses, WrapperTypeOK
  <2>2. CommandOK' /\ QuietOK'
    BY <1>1, <1>2, <2>1 DEF CommandOK, QuietOK, Alone
  <2> QED
    BY <1>1, <2>1, <2>2, ReaperOnly DEF WrapperTypeOK
<1>9. CASE QuietElapses
  <2>1. /\ Shape /\ reaper.quiet = "since" /\ reaper'.at = reaper.at
        /\ reaper'.todo = reaper.todo /\ reaper'.child = reaper.child
        /\ reaper'.adopted = reaper.adopted /\ reaper'.returncode = reaper.returncode
    BY <1>1, <1>9 DEF QuietElapses, WrapperTypeOK
  <2>2. CommandOK' /\ QuietOK'
    BY <1>1, <1>2, <2>1 DEF CommandOK, QuietOK, Alone
  <2> QED
    BY <1>1, <2>1, <2>2, ReaperOnly DEF WrapperTypeOK
<1>10. CASE DeadlinePasses \/ UNCHANGED reaperVars
  <2>1. reaper' = reaper
    BY <1>10 DEF DeadlinePasses, reaperVars
  <2>2. Shape /\ CommandOK' /\ QuietOK'
    BY <1>1, <1>2, <2>1 DEF CommandOK, QuietOK, Alone, WrapperTypeOK
  <2> QED
    BY <1>1, <2>1, <2>2, ReaperOnly DEF WrapperTypeOK
<1> QED
  BY <1>4, <1>5, <1>6, <1>7, <1>8, <1>9, <1>10

LEMMA ReaperStarts ==
    ASSUME Wrapper \notin Pids, ReaperInit
    PROVE  ReaperInvariant
<1>1. /\ proc = [p \in Pids |-> NoProcess] /\ main = NoStatus
      /\ reaper = [at |-> "start", child |-> Wrapper, returncode |-> NoStatus,
                   todo |-> {}, adopted |-> {}, quiet |-> "none"]
  BY DEF ReaperInit
<1>2. Live = {} /\ proc \in [Pids -> Entries]
  BY <1>1 DEF Live, Entries, NoProcess
<1> QED
  BY <1>1, <1>2
     DEF ReaperInvariant, TableOK, WrapperTypeOK, CommandOK, QuietOK, Parents

LEMMA ReaperSteps ==
    ASSUME Wrapper \notin Pids, ReaperInvariant, [ReaperNext]_reaperVars
    PROVE  ReaperInvariant'
<1>1. CASE \E p, q \in Pids : Fork(p, q) \/ Collect(p, q)
  BY <1>1, DescendantsStep
<1>2. CASE \E p \in Pids, status \in Statuses : Die(p, status)
  BY <1>2, DescendantsStep
<1>3. CASE Start
  BY <1>3, StartStep
<1>4. CASE Poll
  BY <1>4, PollStep
<1>5. CASE \E p \in Pids : Wait(p)
  BY <1>5, WaitStep
<1>6. CASE \/ List \/ PollAgain \/ Observe \/ Judge
           \/ ProcfsFails \/ WrapperExits \/ QuietElapses
           \/ DeadlinePasses \/ UNCHANGED reaperVars
  BY <1>6, DrainStep
<1> QED
  BY <1>1, <1>2, <1>3, <1>4, <1>5, <1>6 DEF ReaperNext, WrapperStep

\* The process table is a tree under the wrapper, and the wrapper's locals say
\* what is true of it (reap_adopted, the poll and drain loops).
THEOREM ReaperIsKept ==
    ReaperSpec => []ReaperInvariant
<1>1. Wrapper \notin Pids
  BY ReaperStatuses
<1>2. ReaperInit => ReaperInvariant
  BY <1>1, ReaperStarts
<1>3. ReaperInvariant /\ [ReaperNext]_reaperVars => ReaperInvariant'
  BY <1>1, ReaperSteps
<1> QED
  BY <1>2, <1>3, PTL DEF ReaperSpec

\* Whoever collects what and whichever numbers are used again: the wrapper ends
\* with the status of the command itself, or with its own failure (main, poll).
THEOREM CommandStatus ==
    ReaperSpec => []StatusIsKept
<1>1. ReaperInvariant => StatusIsKept
  BY DEF ReaperInvariant, CommandOK, StatusIsKept
<1> QED
  BY <1>1, ReaperIsKept, PTL

\* When the drain ends before its deadline the command left nobody behind, but
\* for a process with its own number and what hangs from it (the drain loop).
THEOREM NobodyLeft ==
    ReaperSpec => []QuietMeansExtinct
<1>1. ReaperInvariant => QuietMeansExtinct
  <2> SUFFICES ASSUME ReaperInvariant, reaper.quiet = "long", Live = {}, NEW p \in Pids
               PROVE  proc[p] = NoProcess
    BY DEF ReaperInvariant, QuietOK, Alone, QuietMeansExtinct
  <2>1. proc[p].at = "free" /\ proc[p] \in Entries
    BY DEF ReaperInvariant, TableOK, Live
  <2> QED
    BY <2>1 DEF Entries, Process, Ended
<1> QED
  BY <1>1, ReaperIsKept, PTL
-----------------------------------------------------------------------------
\* The review coverage check.

Votes == [reviewer : Reviewers, commit : Commits, submitted : BOOLEAN]

GitHubTypeOK ==
    /\ pr \in [PRs -> [state : {"open", "closed", "merged"}, head : Commits]]
    /\ reviews \in [PRs -> SUBSET Votes]
    /\ comments \in [PRs -> SUBSET Commits]

CheckerTypeOK ==
    checker = [at |-> checker.at, mode |-> checker.mode, expected |-> checker.expected,
               todo |-> checker.todo, target |-> checker.target,
               before |-> checker.before, seen |-> checker.seen,
               said |-> checker.said, rows |-> checker.rows]

Landed(p, head) == p \in PRs /\ pr[p].state = "merged" /\ pr[p].head = head

\* What was read of the pull request at hand is still so.
ReadingOK ==
    checker.at \in {"before", "reviews", "comments", "after", "row"} =>
        /\ checker.target \in PRs
        /\ checker.said \subseteq comments[checker.target]
        /\ \A v \in checker.seen :
              v.submitted => Submitted(v.reviewer, v.commit) \in reviews[checker.target]
        /\ checker.mode = "pr" => checker.at # "row"
        /\ checker.mode # "pr" =>
              /\ checker.at \notin {"before", "after"}
              /\ Landed(checker.target, checker.before.head)

\* What is still to be audited landed, and so did what was.
AuditOK ==
    /\ checker.at = "next" => checker.mode # "pr"
    /\ \A t \in checker.todo : Landed(t.pr, t.head)
    /\ \A row \in checker.rows :
          /\ Landed(row.pr, row.head)
          /\ row.covered => \A r \in checker.expected : Reviewed(row.pr, r, row.head)

CoverageInvariant == GitHubTypeOK /\ CheckerTypeOK /\ ReadingOK /\ AuditOK

\* Whatever happens on GitHub: what was submitted or said stays, and what landed
\* stays as it is.
LEMMA GitHubKeeps ==
    ASSUME GitHubTypeOK, NEW p \in PRs, NEW r \in Reviewers, NEW c \in Commits,
           \/ Close(p) \/ Reopen(p) \/ Merge(p) \/ Push(p, c)
           \/ CommentClean(p, c) \/ BeginReview(p, r) \/ Submit(p, r, c)
    PROVE  /\ GitHubTypeOK' /\ checker' = checker
           /\ \A q \in PRs :
                 /\ pr[q].state = "merged" => pr'[q] = pr[q]
                 /\ comments[q] \subseteq comments'[q]
                 /\ \A v \in reviews[q] : v.submitted => v \in reviews'[q]
<1> USE DEF GitHubTypeOK
<1>1. CASE Close(p) \/ Reopen(p) \/ Merge(p) \/ Push(p, c)
  BY <1>1, SMT DEF Close, Reopen, Merge, Push
<1>2. CASE CommentClean(p, c)
  BY <1>2, SMT DEF CommentClean, Pending, Votes
<1>3. CASE BeginReview(p, r)
  <2>1. PICK v : v = Pending(r, pr[p].head) /\ reviews' = [reviews EXCEPT ![p] = @ \cup {v}]
    BY <1>3 DEF BeginReview
  <2>2. v \in Votes
    BY <2>1 DEF Pending, Votes
  <2> QED
    BY <1>3, <2>1, <2>2, SMT DEF BeginReview
<1>4. CASE Submit(p, r, c)
  <2>1. PICK u, v : /\ u = Pending(r, c) /\ v = Submitted(r, c)
                    /\ reviews' = [reviews EXCEPT ![p] = (@ \ {u}) \cup {v}]
    BY <1>4 DEF Submit
  <2>2. u \in Votes /\ ~u.submitted /\ v \in Votes
    BY <2>1 DEF Pending, Submitted, Votes
  <2> QED
    BY <1>4, <2>1, <2>2, SMT DEF Submit
<1> QED
  BY <1>1, <1>2, <1>3, <1>4

LEMMA GitHubStep ==
    ASSUME CoverageInvariant, NEW p \in PRs, NEW r \in Reviewers, NEW c \in Commits,
           \/ Close(p) \/ Reopen(p) \/ Merge(p) \/ Push(p, c)
           \/ CommentClean(p, c) \/ BeginReview(p, r) \/ Submit(p, r, c)
    PROVE  CoverageInvariant'
<1>1. /\ GitHubTypeOK' /\ checker' = checker
      /\ \A q \in PRs :
            /\ pr[q].state = "merged" => pr'[q] = pr[q]
            /\ comments[q] \subseteq comments'[q]
            /\ \A v \in reviews[q] : v.submitted => v \in reviews'[q]
  BY GitHubKeeps DEF CoverageInvariant
<1>2. \A q, h : Landed(q, h) => Landed(q, h)'
  BY <1>1 DEF Landed
<1>3. \A q \in PRs : \A x, h : Submitted(x, h) \in reviews[q] => Submitted(x, h) \in reviews'[q]
  BY <1>1 DEF Submitted
<1>4. \A q \in PRs : \A x, h : Reviewed(q, x, h) => Reviewed(q, x, h)'
  BY <1>1, <1>3 DEF Reviewed
<1>5. ReadingOK'
  BY <1>1, <1>2, <1>3 DEF CoverageInvariant, ReadingOK
<1>6. AuditOK'
  BY <1>1, <1>2, <1>4 DEF CoverageInvariant, AuditOK, Landed
<1>7. CheckerTypeOK'
  BY <1>1 DEF CoverageInvariant, CheckerTypeOK
<1> QED
  BY <1>1, <1>5, <1>6, <1>7 DEF CoverageInvariant

\* Whom the verdict calls covering did review that head.
LEMMA CoveringReviewed ==
    ASSUME ReadingOK, checker.at \in {"after", "row"}, NEW head,
           NEW r \in Covering(head, checker.expected)
    PROVE  r \in checker.expected /\ Reviewed(checker.target, r, head)
<1>1. /\ r \in checker.expected
      /\ [reviewer |-> r, commit |-> head] \in
            Formal(checker.seen) \cup CleanComments(checker.said)
  BY DEF Covering
<1>2. CASE [reviewer |-> r, commit |-> head] \in Formal(checker.seen)
  <2>1. PICK v \in checker.seen :
           v.submitted /\ [reviewer |-> r, commit |-> head]
                             = [reviewer |-> v.reviewer, commit |-> v.commit]
    BY <1>2 DEF Formal
  <2>2. v.reviewer = r /\ v.commit = head
    BY <2>1
  <2> QED
    BY <1>1, <2>1, <2>2 DEF ReadingOK, Reviewed
<1>3. CASE [reviewer |-> r, commit |-> head] \in CleanComments(checker.said)
  <2>1. PICK c \in checker.said :
           [reviewer |-> r, commit |-> head] = [reviewer |-> Codex, commit |-> c]
    BY <1>3 DEF CleanComments
  <2>2. r = Codex /\ c = head
    BY <2>1
  <2> QED
    BY <1>1, <2>1, <2>2 DEF ReadingOK, Reviewed
<1> QED
  BY <1>1, <1>2, <1>3

\* The script's own steps: GitHub does not change, and what the checker has is
\* kept or replaced as a whole.
LEMMA CheckerStep ==
    ASSUME CoverageInvariant, UNCHANGED github, CheckerTypeOK', ReadingOK', AuditOK'
    PROVE  CoverageInvariant'
BY DEF CoverageInvariant, github, GitHubTypeOK

LEMMA SameGitHub ==
    ASSUME UNCHANGED github
    PROVE  /\ \A q, h : Landed(q, h)' = Landed(q, h)
           /\ \A q, x, h : Reviewed(q, x, h)' = Reviewed(q, x, h)
           /\ pr' = pr /\ reviews' = reviews /\ comments' = comments
BY DEF github, Landed, Reviewed

LEMMA ReadStep ==
    ASSUME CoverageInvariant, Before \/ ReadReviews \/ ReadComments
    PROVE  CoverageInvariant'
<1>1. UNCHANGED github
  BY DEF Before, ReadReviews, ReadComments, Refuse, Answer
<1>2. /\ checker'.todo = checker.todo /\ checker'.rows = checker.rows
      /\ checker'.expected = checker.expected /\ checker'.mode = checker.mode
      /\ checker'.target = checker.target /\ CheckerTypeOK'
      /\ checker'.at # "next"
  <2>1. CASE ReadReviews
    BY <2>1 DEF CoverageInvariant, CheckerTypeOK, ReadReviews
  <2>2. CASE ReadComments
    BY <2>2 DEF CoverageInvariant, CheckerTypeOK, ReadComments
  <2>3. CASE Before
    BY <2>3 DEF CoverageInvariant, CheckerTypeOK, Before, Refuse, Answer
  <2> QED
    BY <2>1, <2>2, <2>3
<1>3. AuditOK'
  BY <1>1, <1>2, SameGitHub DEF CoverageInvariant, AuditOK
<1>4. ReadingOK'
  <2>1. CASE Before
    <3>1. checker.at = "before" /\ checker.mode = "pr"
      BY <2>1 DEF Before, CoverageInvariant, ReadingOK
    <3>2. /\ checker'.seen = checker.seen /\ checker'.said = checker.said
          /\ checker'.at \in {"after", "reviews", "refused"}
      BY <2>1 DEF Before, CoverageInvariant, CheckerTypeOK, Refuse, Answer
    <3> QED
      BY <1>1, <1>2, <3>1, <3>2, SameGitHub DEF CoverageInvariant, ReadingOK
  <2>2. CASE ReadReviews
    <3>1. /\ checker.at = "reviews" /\ checker'.at = "comments"
          /\ checker'.seen = reviews[checker.target] /\ checker'.said = checker.said
          /\ checker'.before = checker.before
      BY <2>2 DEF ReadReviews, CoverageInvariant, CheckerTypeOK
    <3>2. \A v \in checker'.seen :
             v.submitted => Submitted(v.reviewer, v.commit) \in reviews[checker.target]
      <4>1. \A v \in checker'.seen : v \in Votes
        BY <3>1 DEF CoverageInvariant, ReadingOK, GitHubTypeOK
      <4>2. \A v \in Votes : v.submitted => v = Submitted(v.reviewer, v.commit)
        BY DEF Votes, Submitted
      <4> QED
        BY <3>1, <4>1, <4>2
    <3> QED
      BY <1>1, <1>2, <3>1, <3>2, SameGitHub DEF CoverageInvariant, ReadingOK
  <2>3. CASE ReadComments
    <3>1. /\ checker.at = "comments"
          /\ checker'.at = IF checker.mode = "pr" THEN "after" ELSE "row"
          /\ checker'.said = comments[checker.target] /\ checker'.seen = checker.seen
          /\ checker'.before = checker.before
      BY <2>3 DEF ReadComments, CoverageInvariant, CheckerTypeOK
    <3> QED
      BY <1>1, <1>2, <3>1, SameGitHub DEF CoverageInvariant, ReadingOK
  <2> QED
    BY <2>1, <2>2, <2>3
<1> QED
  BY <1>1, <1>2, <1>3, <1>4, CheckerStep

\* A verdict, a refusal and the end of an invocation.
LEMMA AnswerStep ==
    ASSUME CoverageInvariant, After \/ AuditEnds \/ CallFails \/ Exit
    PROVE  CoverageInvariant'
<1>1. UNCHANGED github
  BY DEF After, AuditEnds, CallFails, Exit, Refuse, Answer
<1>2. CASE Exit
  BY <1>1, <1>2, CheckerStep
     DEF Exit, NotInvoked, CheckerTypeOK, ReadingOK, AuditOK
<1>3. CASE After \/ AuditEnds \/ CallFails
  <2>1. /\ checker'.todo = checker.todo /\ checker'.rows = checker.rows
        /\ checker'.expected = checker.expected /\ CheckerTypeOK'
        /\ checker'.at \in Outcomes
    BY <1>3 DEF CoverageInvariant, CheckerTypeOK, After, AuditEnds, CallFails,
                Refuse, Answer, Outcomes
  <2>2. AuditOK'
    BY <1>1, <2>1, SameGitHub DEF CoverageInvariant, AuditOK, Outcomes
  <2>3. ReadingOK'
    BY <2>1 DEF ReadingOK, Outcomes
  <2> QED
    BY <1>1, <2>1, <2>2, <2>3, CheckerStep
<1> QED
  BY <1>2, <1>3

LEMMA InvocationStep ==
    ASSUME CoverageInvariant, NEW expected,
           StartAudit(expected) \/ \E p \in PRs : StartPR(p, expected)
    PROVE  CoverageInvariant'
<1>1. UNCHANGED github
  BY DEF StartAudit, StartPR
<1>2. CASE StartAudit(expected)
  <2>1. PICK list : list = {[pr |-> p, head |-> pr[p].head] :
                                p \in {p \in PRs : Audited(p)}}
    OBVIOUS
  <2>2. checker' = [at |-> "next", mode |-> "audit", expected |-> expected,
                    todo |-> list, target |-> Unset, before |-> Unset,
                    seen |-> {}, said |-> {}, rows |-> {}]
    BY <1>2, <2>1 DEF StartAudit, NotInvoked
  <2>3. \A t \in list : Landed(t.pr, t.head)
    BY <2>1 DEF Audited, Landed
  <2> QED
    BY <1>1, <2>2, <2>3, CheckerStep, SameGitHub DEF CheckerTypeOK, ReadingOK, AuditOK
<1>3. ASSUME NEW p \in PRs, StartPR(p, expected)
      PROVE  CoverageInvariant'
  <2>1. checker' = [at |-> "before", mode |-> "pr", expected |-> expected,
                    todo |-> {}, target |-> p, before |-> Unset,
                    seen |-> {}, said |-> {}, rows |-> {}]
    BY <1>3 DEF StartPR, NotInvoked
  <2> QED
    BY <1>1, <2>1, CheckerStep DEF CheckerTypeOK, ReadingOK, AuditOK
<1> QED
  BY <1>2, <1>3

LEMMA NextPRStep ==
    ASSUME CoverageInvariant, NextPR
    PROVE  CoverageInvariant'
<1>1. UNCHANGED github /\ checker.at = "next"
  BY DEF NextPR
<1>2. PICK t \in checker.todo :
         checker' = [checker EXCEPT !.todo = @ \ {t}, !.target = t.pr,
                         !.before = [state |-> "merged", head |-> t.head],
                         !.seen = {}, !.said = {},
                         !.at = IF checker.expected = {} THEN "row" ELSE "reviews"]
  BY DEF NextPR
<1>3. checker' = [at |-> IF checker.expected = {} THEN "row" ELSE "reviews",
                  mode |-> checker.mode, expected |-> checker.expected,
                  todo |-> checker.todo \ {t}, target |-> t.pr,
                  before |-> [state |-> "merged", head |-> t.head],
                  seen |-> {}, said |-> {}, rows |-> checker.rows]
  BY <1>2 DEF CoverageInvariant, CheckerTypeOK
<1>4. Landed(t.pr, t.head) /\ checker.mode # "pr"
  BY <1>1 DEF CoverageInvariant, AuditOK
<1>5. ReadingOK'
  BY <1>1, <1>3, <1>4, SameGitHub DEF ReadingOK, Landed
<1>6. AuditOK' /\ CheckerTypeOK'
  BY <1>1, <1>3, SameGitHub DEF CoverageInvariant, AuditOK, CheckerTypeOK
<1> QED
  BY <1>1, <1>5, <1>6, CheckerStep

LEMMA RowStep ==
    ASSUME CoverageInvariant, Row
    PROVE  CoverageInvariant'
<1>1. UNCHANGED github /\ checker.at = "row"
  BY DEF Row
<1>2. PICK row :
         row = [pr |-> checker.target, head |-> checker.before.head,
                covered |-> Covering(checker.before.head, checker.expected)
                               = checker.expected]
  OBVIOUS
<1>3. checker' = [at |-> "next", mode |-> checker.mode, expected |-> checker.expected,
                  todo |-> checker.todo, target |-> checker.target,
                  before |-> checker.before, seen |-> checker.seen,
                  said |-> checker.said, rows |-> checker.rows \cup {row}]
  BY <1>2 DEF Row, CoverageInvariant, CheckerTypeOK
<1>4. /\ checker.mode # "pr" /\ Landed(row.pr, row.head)
      /\ row.covered => \A r \in checker.expected : Reviewed(row.pr, r, row.head)
  <2>1. checker.mode # "pr" /\ Landed(row.pr, row.head)
    BY <1>1, <1>2 DEF CoverageInvariant, ReadingOK
  <2>2. ASSUME row.covered, NEW r \in checker.expected
        PROVE  Reviewed(row.pr, r, row.head)
    <3>1. r \in Covering(checker.before.head, checker.expected)
      BY <1>2, <2>2
    <3> QED
      BY <1>1, <1>2, <3>1, CoveringReviewed DEF CoverageInvariant
  <2> QED
    BY <2>1, <2>2
<1>5. ReadingOK' /\ CheckerTypeOK'
  BY <1>3 DEF ReadingOK, CheckerTypeOK
<1>6. AuditOK'
  BY <1>1, <1>3, <1>4, SameGitHub DEF CoverageInvariant, AuditOK
<1> QED
  BY <1>1, <1>5, <1>6, CheckerStep

LEMMA CoverageStarts ==
    ASSUME CoverageInit
    PROVE  CoverageInvariant
<1>1. GitHubTypeOK
  BY DEF CoverageInit, GitHubTypeOK
<1> QED
  BY <1>1 DEF CoverageInit, NotInvoked, CoverageInvariant, CheckerTypeOK,
              ReadingOK, AuditOK

LEMMA CoverageSteps ==
    ASSUME CoverageInvariant, [CoverageNext]_coverageVars
    PROVE  CoverageInvariant'
<1>1. CASE UNCHANGED coverageVars
  <2>1. UNCHANGED github /\ checker' = checker
    BY <1>1 DEF coverageVars, github
  <2>2. CheckerTypeOK' /\ ReadingOK' /\ AuditOK'
    BY <2>1, SameGitHub DEF CoverageInvariant, CheckerTypeOK, ReadingOK, AuditOK
  <2> QED
    BY <2>1, <2>2, CheckerStep
<1>2. ASSUME NEW p \in PRs, Close(p) \/ Reopen(p) \/ Merge(p)
      PROVE  CoverageInvariant'
  <2>1. PICK c : c \in Commits
    BY <1>2 DEF CoverageInvariant, GitHubTypeOK
  <2> QED
    BY <1>2, <2>1, CodexIsAReviewer, GitHubStep
<1>3. ASSUME NEW p \in PRs, NEW c \in Commits, Push(p, c) \/ CommentClean(p, c)
      PROVE  CoverageInvariant'
  BY <1>3, CodexIsAReviewer, GitHubStep
<1>4. ASSUME NEW p \in PRs, NEW r \in Reviewers, BeginReview(p, r)
      PROVE  CoverageInvariant'
  <2>1. pr[p].head \in Commits
    BY DEF CoverageInvariant, GitHubTypeOK
  <2> QED
    BY <1>4, <2>1, GitHubStep
<1>5. ASSUME NEW p \in PRs, NEW r \in Reviewers, NEW c \in Commits, Submit(p, r, c)
      PROVE  CoverageInvariant'
  BY <1>5, GitHubStep
<1>6. CASE \E expected \in SUBSET Reviewers :
              StartAudit(expected) \/ \E p \in PRs : StartPR(p, expected)
  BY <1>6, InvocationStep
<1>7. CASE Before \/ ReadReviews \/ ReadComments
  BY <1>7, ReadStep
<1>8. CASE After \/ AuditEnds \/ CallFails \/ Exit
  BY <1>8, AnswerStep
<1>9. CASE NextPR
  BY <1>9, NextPRStep
<1>10. CASE Row
  BY <1>10, RowStep
<1> QED
  BY <1>1, <1>2, <1>3, <1>4, <1>5, <1>6, <1>7, <1>8, <1>9, <1>10 DEF CoverageNext

\* What the checker read is still so, and what it audits landed (pr_coverage,
\* audit_merged).
THEOREM CoverageIsKept ==
    CoverageSpec => []CoverageInvariant
<1>1. CoverageInit => CoverageInvariant
  BY CoverageStarts
<1>2. CoverageInvariant /\ [CoverageNext]_coverageVars => CoverageInvariant'
  BY CoverageSteps
<1> QED
  BY <1>1, <1>2, PTL DEF CoverageSpec

\* Every row of an audit is about the commit that landed, and one that says
\* covered is right about every expected reviewer (audit_merged).
THEOREM AuditIsRight ==
    CoverageSpec => []AuditIsOfWhatLanded
<1>1. CoverageInvariant => AuditIsOfWhatLanded
  BY DEF CoverageInvariant, AuditOK, Landed, AuditIsOfWhatLanded
<1> QED
  BY <1>1, CoverageIsKept, PTL

\* "covered" is said of a pull request that is open or merged, at a moment when
\* every expected reviewer has reviewed the head it has then (pr_coverage).
THEOREM CoveredIsReviewed ==
    CoverageSpec => CoveredMeansReviewed
<1> DEFINE Right ==
        checker.at = "after" /\ checker'.at = "covered" =>
           LET p == checker.target IN
           /\ pr[p].state # "closed"
           /\ \A r \in checker.expected : Reviewed(p, r, pr[p].head)
<1>1. ASSUME CoverageInvariant, CoverageNext,
             checker.at = "after", checker'.at = "covered"
      PROVE  /\ pr[checker.target].state # "closed"
             /\ \A r \in checker.expected :
                   Reviewed(checker.target, r, pr[checker.target].head)
  <2>1. After
    BY <1>1 DEF CoverageInvariant, CheckerTypeOK, CoverageNext, Close, Reopen, Merge, Push,
       CommentClean, BeginReview, Submit, StartAudit, StartPR, Before, ReadReviews,
       ReadComments, NextPR, Row, AuditEnds, CallFails, Exit, Refuse, Answer,
       Outcomes, NotInvoked
  <2>2. /\ Trusted(pr[checker.target]) /\ checker.before = pr[checker.target]
        /\ Covering(checker.before.head, checker.expected) = checker.expected
    BY <1>1, <2>1 DEF CoverageInvariant, CheckerTypeOK, After, Refuse, Answer, Unmoved
  <2>3. \A r \in checker.expected : Reviewed(checker.target, r, checker.before.head)
    BY <1>1, <2>2, CoveringReviewed DEF CoverageInvariant
  <2> QED
    BY <2>2, <2>3 DEF Trusted
<1>2. CoverageInvariant /\ [CoverageNext]_coverageVars => [Right]_coverageVars
  BY <1>1
<1>3. CoverageSpec => [][Right]_coverageVars
  BY <1>2, CoverageIsKept, PTL DEF CoverageSpec
<1> QED
  BY <1>3 DEF CoveredMeansReviewed
-----------------------------------------------------------------------------
\* The paired backup and the operator's check.

\* Nowhere along the first n files is s ahead of t.
Below(s, t, n) == \A i \in 1..n : s[i] <= t[i]

IsPoint(r) ==
    r = [at |-> r.at, dir |-> r.dir, whole |-> r.whole, before |-> r.before,
         tar |-> r.tar, after |-> r.after, truth |-> r.truth,
         created |-> r.created, behind |-> r.behind]

\* The two walks enclose the dump: what the first read, what was so when the
\* database was dumped, what the second read and what is so now come in this
\* order, file by file.
CaptureOK(r) ==
    /\ r.at = "absent" => r = Nothing
    /\ r.before \in Seq(Nat) /\ r.after \in Seq(Nat)
    /\ r.at \in Walking \cup {"manifest", "digest"} => ~r.whole
    /\ r.at = "walk" => Len(r.before) < FileCount /\ Below(r.before, state, Len(r.before))
    /\ r.at = "dump" => Len(r.before) = FileCount /\ Below(r.before, state, FileCount)
    /\ r.at \in {"walk", "dump", "tar"} => r.after = <<>>
    /\ r.at \in {"tar", "rewalk"} =>
          /\ Len(r.before) = FileCount /\ r.truth \in [Files -> Nat]
          /\ Below(r.before, r.truth, FileCount) /\ Below(r.truth, state, FileCount)
          /\ Len(r.after) < FileCount /\ Below(r.truth, r.after, Len(r.after))
    /\ r.whole \/ r.at \in {"manifest", "digest"} => r.truth = r.before

\* A manifest of this time leaves no failure of an earlier time out.
Covers(created, behind) ==
    /\ created \in Nat /\ created <= now
    /\ \A x \in Stamped : failed_at[x] < created => x \in behind

PointOK(r) ==
    /\ IsPoint(r) /\ CaptureOK(r)
    /\ r.whole \/ r.at = "digest" => Covers(r.created, r.behind)

MonitorOK ==
    /\ monitor = [at |-> monitor.at, now |-> monitor.now, listed |-> monitor.listed,
                  noted |-> monitor.noted, failed |-> monitor.failed,
                  complete |-> monitor.complete, invalid |-> monitor.invalid]
    /\ \A f \in monitor.failed :
          f.time # None => f.output \in Stamped /\ f.time = failed_at[f.output]
    /\ \A p \in monitor.complete : Covers(p.created, p.behind)

ClockOK ==
    /\ state \in [Files -> Nat] /\ now \in Nat
    /\ failed_at \in [Outputs -> Nat \cup {None}]
    /\ \A x \in Stamped : failed_at[x] <= now

\* The time of a failure is taken once.
StampedOnce == \A o \in Stamped : point[o].at \in Recording \cup {"ended"}

BackupInvariant ==
    /\ ClockOK
    /\ point = [o \in Outputs |-> point[o]]
    /\ \A o \in Outputs : PointOK(point[o])
    /\ StampedOnce /\ MonitorOK

LEMMA StageOrder ==
    /\ Head(Stages) = "walk" /\ Following("walk") = "dump" /\ Following("dump") = "tar"
    /\ Following("tar") = "rewalk" /\ Following("rewalk") = "manifest"
    /\ Following("manifest") = "digest" /\ Following("digest") = "check"
    /\ Following("check") = "ended"
<1>1. /\ DOMAIN Stages = 1..8 /\ Head(Stages) = "walk"
      /\ Stages[1] = "walk" /\ Stages[2] = "dump" /\ Stages[3] = "tar"
      /\ Stages[4] = "rewalk" /\ Stages[5] = "manifest" /\ Stages[6] = "digest"
      /\ Stages[7] = "check" /\ Stages[8] = "ended"
  BY DEF Stages
<1>2. ASSUME NEW n \in 1..7
      PROVE  Following(Stages[n]) = Stages[n + 1]
  <2>1. \A i \in DOMAIN Stages : Stages[i] = Stages[n] => i = n
    BY <1>1
  <2>2. (CHOOSE i \in DOMAIN Stages : Stages[i] = Stages[n]) = n
    BY <1>1, <2>1
  <2> QED
    BY <2>2 DEF Following
<1>3. /\ Following(Stages[1]) = Stages[1 + 1] /\ Following(Stages[2]) = Stages[2 + 1]
      /\ Following(Stages[3]) = Stages[3 + 1] /\ Following(Stages[4]) = Stages[4 + 1]
      /\ Following(Stages[5]) = Stages[5 + 1] /\ Following(Stages[6]) = Stages[6 + 1]
      /\ Following(Stages[7]) = Stages[7 + 1]
  BY <1>2
<1> QED
  BY <1>1, <1>3

\* What becomes of the failures' times: some are taken now, none is lost.
StampsKept ==
    /\ failed_at' \in [Outputs -> Nat \cup {None}]
    /\ \A x \in Outputs :
          failed_at'[x] = failed_at[x] \/ (failed_at[x] = None /\ failed_at'[x] = now)

\* Files change, time passes, and failures of now are stamped.
LEMMA PointsKept ==
    ASSUME ClockOK, state' \in [Files -> Nat], Below(state, state', FileCount),
           now' \in Nat, now <= now', StampsKept
    PROVE  /\ ClockOK'
           /\ \A c, b : Covers(c, b) => Covers(c, b)'
           /\ \A r : PointOK(r) => PointOK(r)'
<1>1. ClockOK'
  BY DEF ClockOK, StampsKept, Stamped
<1>2. ASSUME NEW c, NEW b, Covers(c, b)
      PROVE  Covers(c, b)'
  BY <1>2, NoneIsNoTime DEF ClockOK, Covers, StampsKept, Stamped
<1>3. FileCount \in Nat /\ Files = 1..FileCount
  BY FileCountAssumption DEF Files
<1>4. ASSUME NEW s, NEW n \in Nat, n <= FileCount, \A i \in 1..n : s[i] \in Nat,
             Below(s, state, n)
      PROVE  Below(s, state', n)
  BY <1>3, <1>4 DEF Below, ClockOK
<1>5. ASSUME NEW r, CaptureOK(r)
      PROVE  CaptureOK(r)'
  <2>1. CASE r.at = "walk"
    <3>0. /\ r.before \in Seq(Nat) /\ Len(r.before) < FileCount
          /\ Below(r.before, state, Len(r.before))
      BY <1>5, <2>1 DEF CaptureOK
    <3>1. /\ Len(r.before) \in Nat /\ Len(r.before) <= FileCount
          /\ \A i \in 1..Len(r.before) : r.before[i] \in Nat
          /\ Below(r.before, state, Len(r.before))
      BY <1>3, <3>0
    <3>2. Below(r.before, state', Len(r.before))
      BY <1>4, <3>1
    <3> QED
      BY <1>5, <2>1, <3>2 DEF CaptureOK
  <2>2. CASE r.at = "dump"
    <3>0. /\ r.before \in Seq(Nat) /\ Len(r.before) = FileCount
          /\ Below(r.before, state, FileCount)
      BY <1>5, <2>2 DEF CaptureOK
    <3>1. /\ \A i \in 1..FileCount : r.before[i] \in Nat
          /\ Below(r.before, state, FileCount)
      BY <1>3, <3>0
    <3>2. Below(r.before, state', FileCount)
      BY <1>3, <1>4, <3>1
    <3> QED
      BY <1>5, <2>2, <3>2 DEF CaptureOK
  <2>3. CASE r.at \in {"tar", "rewalk"}
    <3>1. /\ \A i \in 1..FileCount : r.truth[i] \in Nat
          /\ Below(r.truth, state, FileCount)
      BY <1>3, <1>5, <2>3 DEF CaptureOK
    <3>2. Below(r.truth, state', FileCount)
      BY <1>3, <1>4, <3>1
    <3> QED
      BY <1>5, <2>3, <3>2 DEF CaptureOK
  <2>4. CASE r.at \notin {"walk", "dump", "tar", "rewalk"}
    BY <1>5, <2>4 DEF CaptureOK
  <2> QED
    BY <2>1, <2>2, <2>3, <2>4
<1>6. ASSUME NEW r, PointOK(r)
      PROVE  PointOK(r)'
  BY <1>2, <1>5, <1>6 DEF PointOK, IsPoint
<1> QED
  BY <1>1, <1>2, <1>6

LEMMA NothingChanges ==
    ASSUME ClockOK
    PROVE  Below(state, state, FileCount)
BY FileCountAssumption DEF ClockOK, Files, Below

\* What the monitor read stays so.
LEMMA MonitorKept ==
    ASSUME BackupInvariant, UNCHANGED monitor, StampsKept,
           \A c, b : Covers(c, b) => Covers(c, b)'
    PROVE  MonitorOK'
<1>1. \A x \in Stamped : x \in Stamped' /\ failed_at'[x] = failed_at[x]
  BY DEF StampsKept, Stamped
<1> QED
  BY <1>1 DEF BackupInvariant, MonitorOK

\* A step of one create, or of what happens to its output.
LEMMA PointStep ==
    ASSUME BackupInvariant, NEW o \in Outputs, NEW r, Update(o, r), PointOK(r),
           NEW t, failed_at' = [failed_at EXCEPT ![o] = t],
           t = failed_at[o] \/ (failed_at[o] = None /\ t = now),
           t # None => r.at \in Recording \cup {"ended"}
    PROVE  BackupInvariant'
<1>1. /\ state' = state /\ now' = now /\ monitor' = monitor
      /\ point' = [point EXCEPT ![o] = r]
  BY DEF Update
<1>2. /\ ClockOK /\ state' \in [Files -> Nat] /\ now' \in Nat /\ now <= now'
      /\ Below(state, state', FileCount)
  BY <1>1, NothingChanges DEF BackupInvariant, ClockOK
<1>3. StampsKept
  BY <1>2 DEF ClockOK, StampsKept
<1>4. /\ ClockOK'
      /\ \A c, b : Covers(c, b) => Covers(c, b)'
      /\ \A q : PointOK(q) => PointOK(q)'
  BY <1>2, <1>3, PointsKept
<1>5. point' = [x \in Outputs |-> IF x = o THEN r ELSE point[x]]
  BY <1>1 DEF BackupInvariant
<1>6. \A x \in Outputs : PointOK(point[x])'
  BY <1>4, <1>5 DEF BackupInvariant
<1>7. StampedOnce'
  <2> SUFFICES ASSUME NEW x \in Outputs, failed_at'[x] # None
               PROVE  point'[x].at \in Recording \cup {"ended"}
    BY DEF StampedOnce, Stamped
  <2>1. CASE x = o
    BY <1>2, <1>5, <2>1 DEF ClockOK
  <2>2. CASE x # o
    BY <1>2, <1>5, <2>2 DEF ClockOK, BackupInvariant, StampedOnce, Stamped
  <2> QED
    BY <2>1, <2>2
<1>8. MonitorOK'
  BY <1>1, <1>3, <1>4, MonitorKept
<1> QED
  BY <1>4, <1>5, <1>6, <1>7, <1>8 DEF BackupInvariant

\* A step in which no failure's time is taken.
LEMMA QuietPointStep ==
    ASSUME BackupInvariant, NEW o \in Outputs, NEW r, Update(o, r), PointOK(r),
           UNCHANGED failed_at,
           \/ point[o].at \notin Recording \cup {"ended"}
           \/ r.at \in Recording \cup {"ended"}
    PROVE  BackupInvariant'
<1>1. failed_at' = [failed_at EXCEPT ![o] = failed_at[o]]
  BY DEF BackupInvariant, ClockOK
<1>2. failed_at[o] # None => r.at \in Recording \cup {"ended"}
  BY DEF BackupInvariant, StampedOnce, Stamped
<1> QED
  BY <1>1, <1>2, PointStep

LEMMA MonitorStep ==
    ASSUME BackupInvariant, UNCHANGED <<state, now, point, failures>>, MonitorOK'
    PROVE  BackupInvariant'
<1>1. Below(state, state', FileCount)
  BY NothingChanges DEF BackupInvariant
<1>2. /\ ClockOK /\ state' \in [Files -> Nat] /\ now' \in Nat /\ now <= now' /\ StampsKept
  BY DEF BackupInvariant, ClockOK, StampsKept, failures
<1>3. ClockOK' /\ \A q : PointOK(q) => PointOK(q)'
  BY <1>1, <1>2, PointsKept
<1>4. StampedOnce'
  BY DEF BackupInvariant, StampedOnce, Stamped, failures
<1> QED
  BY <1>3, <1>4 DEF BackupInvariant

LEMMA WorldStep ==
    ASSUME BackupInvariant, Tick \/ \E f \in Files : WriteState(f)
    PROVE  BackupInvariant'
<1>1. /\ state' \in [Files -> Nat] /\ now' \in Nat /\ now <= now'
      /\ Below(state, state', FileCount)
  <2>1. state \in [Files -> Nat] /\ now \in Nat /\ Files = 1..FileCount
    BY DEF BackupInvariant, ClockOK, Files
  <2>2. CASE Tick
    BY <2>1, <2>2, NothingChanges DEF Tick, BackupInvariant
  <2>3. ASSUME NEW f \in Files, WriteState(f)
        PROVE  /\ state' \in [Files -> Nat] /\ now' = now
               /\ Below(state, state', FileCount)
    BY <2>1, <2>3 DEF WriteState, Below
  <2> QED
    BY <2>1, <2>2, <2>3
<1>2. /\ ClockOK /\ failed_at' = failed_at /\ point' = point /\ monitor' = monitor /\ StampsKept
  BY DEF BackupInvariant, Tick, WriteState, ClockOK, StampsKept, failures
<1>3. /\ ClockOK' /\ \A q : PointOK(q) => PointOK(q)'
      /\ \A c, b : Covers(c, b) => Covers(c, b)'
  BY <1>1, <1>2, PointsKept
<1>4. MonitorOK'
  BY <1>2, <1>3, MonitorKept
<1>5. StampedOnce'
  BY <1>2 DEF BackupInvariant, StampedOnce, Stamped
<1> QED
  BY <1>2, <1>3, <1>4, <1>5 DEF BackupInvariant

\* An output that is not written to any more.
LEMMA PointMoves ==
    ASSUME NEW q, PointOK(q), NEW r, IsPoint(r),
           r.at \notin Walking \cup {"manifest", "digest", "absent"}, r.whole => q.whole,
           r.before = q.before, r.after \in Seq(Nat), r.truth = q.truth,
           r.created = q.created, r.behind = q.behind
    PROVE  PointOK(r)
BY DEF PointOK, CaptureOK, Walking

LEMMA PointLeft ==
    ASSUME NEW q, PointOK(q), NEW w \in {FALSE, q.whole}, NEW d,
           NEW a, a \notin Walking \cup {"manifest", "digest", "absent"}
    PROVE  PointOK(Left(a, d, w, q))
<1>1. PICK r : r = Left(a, d, w, q)
  OBVIOUS
<1>2. CASE w
  <2>1. r = [q EXCEPT !.at = a, !.dir = d]
    BY <1>1, <1>2 DEF Left
  <2>2. PICK p : p = [q EXCEPT !.at = a] /\ r = [p EXCEPT !.dir = d]
    BY <2>1 DEF PointOK, IsPoint
  <2>3. /\ IsPoint(p) /\ p.at = a /\ p.before = q.before /\ p.after = q.after
        /\ p.truth = q.truth /\ p.created = q.created /\ p.behind = q.behind
        /\ p.whole = q.whole
    BY <2>2 DEF PointOK, IsPoint
  <2>4. /\ IsPoint(r) /\ r.at = a /\ r.before = q.before /\ r.after = q.after
        /\ r.truth = q.truth /\ r.created = q.created /\ r.behind = q.behind
        /\ r.whole = q.whole
    BY <2>2, <2>3 DEF IsPoint
  <2> QED
    BY <1>1, <2>4, PointMoves DEF PointOK, CaptureOK
<1>3. CASE ~w
  <2>1. r = [Nothing EXCEPT !.at = a, !.dir = d]
    BY <1>1, <1>3 DEF Left
  <2>2. IsPoint(r) /\ r.at = a /\ r.before = <<>> /\ r.after = <<>> /\ r.whole = FALSE
    BY <2>1 DEF Nothing, IsPoint
  <2>3. <<>> \in Seq(Nat)
    OBVIOUS
  <2> QED
    BY <1>1, <2>2, <2>3 DEF PointOK, CaptureOK, Walking
<1> QED
  BY <1>2, <1>3

LEMMA CreateStep ==
    ASSUME BackupInvariant, NEW o \in Outputs, Create(o)
    PROVE  BackupInvariant'
<1>1. point[o] = Nothing
  BY DEF BackupInvariant, PointOK, CaptureOK, Create
<1>2. PICK r : r = [at |-> "walk", dir |-> TRUE, whole |-> FALSE, before |-> <<>>,
                    tar |-> <<>>, after |-> <<>>, truth |-> <<>>,
                    created |-> None, behind |-> {}]
  OBVIOUS
<1>3. Update(o, r) /\ UNCHANGED failed_at
  <2>1. PICK q : q = [Nothing EXCEPT !.at = "walk"]
    OBVIOUS
  <2>2. q = [at |-> "walk", dir |-> FALSE, whole |-> FALSE, before |-> <<>>,
             tar |-> <<>>, after |-> <<>>, truth |-> <<>>,
             created |-> None, behind |-> {}]
    BY <2>1 DEF Nothing
  <2>3. PICK p : p = [q EXCEPT !.dir = TRUE]
    OBVIOUS
  <2>4. p = [at |-> "walk", dir |-> TRUE, whole |-> FALSE, before |-> <<>>,
             tar |-> <<>>, after |-> <<>>, truth |-> <<>>,
             created |-> None, behind |-> {}]
    BY <2>2, <2>3
  <2>5. p = r
    BY <1>2, <2>4, Zenon
  <2>6. [Nothing EXCEPT !.at = "walk", !.dir = TRUE] = p
    BY <2>1, <2>3
  <2> QED
    BY <1>1, <2>5, <2>6, StageOrder DEF Create, failures
<1>4. <<>> \in Seq(Nat) /\ Len(<<>>) = 0
  OBVIOUS
<1>5. PointOK(r)
  BY <1>2, <1>4, FileCountAssumption DEF PointOK, IsPoint, CaptureOK, Below
<1> QED
  BY <1>3, <1>5, <1>1, QuietPointStep DEF Recording, Nothing

\* One more file, in the order of the walk.
LEMMA OneMoreFile ==
    ASSUME ClockOK, NEW s \in Seq(Nat), Len(s) < FileCount
    PROVE  /\ Read(s) \in Seq(Nat) /\ Len(Read(s)) = Len(s) + 1
           /\ Read(s)[Len(s) + 1] = state[Len(s) + 1] /\ state[Len(s) + 1] \in Nat
           /\ \A i \in 1..Len(s) : Read(s)[i] = s[i]
<1>1. Len(s) \in Nat /\ Len(s) + 1 \in 1..FileCount
  BY FileCountAssumption
<1>2. state[Len(s) + 1] \in Nat
  BY <1>1 DEF ClockOK, Files
<1> QED
  BY <1>1, <1>2 DEF Read

LEMMA WalkStep ==
    ASSUME BackupInvariant, NEW o \in Outputs, Walk(o)
    PROVE  BackupInvariant'
<1>1. PICK q : q = point[o] /\ PointOK(q) /\ q.at = "walk"
  BY DEF Walk, BackupInvariant
<1>2. PICK s : s = Read(q.before)
  OBVIOUS
<1>3. PICK r : r = [at |-> Onwards(q.before, "walk"), dir |-> q.dir, whole |-> q.whole,
                    before |-> s, tar |-> q.tar, after |-> q.after, truth |-> q.truth,
                    created |-> q.created, behind |-> q.behind]
  OBVIOUS
<1>4. Update(o, r) /\ UNCHANGED failed_at
  <2>1. PICK q1 : q1 = [q EXCEPT !.before = s]
    OBVIOUS
  <2>2. q1 = [at |-> q.at, dir |-> q.dir, whole |-> q.whole, before |-> s,
              tar |-> q.tar, after |-> q.after, truth |-> q.truth,
              created |-> q.created, behind |-> q.behind]
    BY <1>1, <2>1 DEF PointOK, IsPoint
  <2>3. [q1 EXCEPT !.at = Onwards(q.before, "walk")] = r
    BY <1>3, <2>2
  <2>4. [q EXCEPT !.before = s, !.at = Onwards(q.before, "walk")]
           = [q1 EXCEPT !.at = Onwards(q.before, "walk")]
    BY <2>1
  <2> QED
    BY <1>1, <1>2, <2>3, <2>4 DEF Walk, failures
<1>5. /\ q.before \in Seq(Nat) /\ Len(q.before) < FileCount /\ ~q.whole /\ q.after = <<>>
      /\ Below(q.before, state, Len(q.before)) /\ Len(q.before) \in Nat
  BY <1>1 DEF PointOK, CaptureOK, Walking
<1>6. /\ s \in Seq(Nat) /\ Len(s) = Len(q.before) + 1
      /\ s[Len(s)] = state[Len(s)] /\ state[Len(s)] \in Nat
      /\ \A i \in 1..Len(q.before) : s[i] = q.before[i]
  BY <1>2, <1>5, OneMoreFile DEF BackupInvariant
<1>7. Below(s, state, Len(s))
  <2> SUFFICES ASSUME NEW i \in 1..Len(s) PROVE s[i] <= state[i]
    BY DEF Below
  <2>1. CASE i = Len(s)
    BY <1>6, <2>1
  <2>2. CASE i # Len(s)
    <3>1. i \in 1..Len(q.before)
      BY <1>5, <1>6, <2>2
    <3> QED
      BY <1>5, <1>6, <3>1 DEF Below
  <2> QED
    BY <2>1, <2>2
<1>8. CASE Len(s) = FileCount
  <2>1. r.at = "dump"
    BY <1>3, <1>6, <1>8, StageOrder DEF Onwards
  <2>2. PointOK(r)
    BY <1>3, <1>5, <1>6, <1>7, <1>8, <2>1 DEF PointOK, IsPoint, CaptureOK, Walking
  <2> QED
    BY <1>4, <2>2, <1>1, QuietPointStep DEF Recording
<1>9. CASE Len(s) # FileCount
  <2>1. r.at = "walk" /\ Len(s) < FileCount
    BY <1>3, <1>5, <1>6, <1>9, FileCountAssumption DEF Onwards
  <2>2. PointOK(r)
    BY <1>3, <1>5, <1>6, <1>7, <2>1 DEF PointOK, IsPoint, CaptureOK, Walking
  <2> QED
    BY <1>4, <2>2, <1>1, QuietPointStep DEF Recording
<1> QED
  BY <1>8, <1>9

\* The dump is of this moment.
LEMMA DumpStep ==
    ASSUME BackupInvariant, NEW o \in Outputs, Dump(o)
    PROVE  BackupInvariant'
<1>1. PICK q : q = point[o] /\ PointOK(q) /\ q.at = "dump"
  BY DEF Dump, BackupInvariant
<1>2. PICK r : r = [at |-> "tar", dir |-> q.dir, whole |-> q.whole,
                    before |-> q.before, tar |-> q.tar, after |-> q.after, truth |-> state,
                    created |-> q.created, behind |-> q.behind]
  OBVIOUS
<1>3. Update(o, r) /\ UNCHANGED failed_at
  <2>1. PICK q1 : q1 = [q EXCEPT !.at = "tar"]
    OBVIOUS
  <2>2. q1 = [at |-> "tar", dir |-> q.dir, whole |-> q.whole,
              before |-> q.before, tar |-> q.tar, after |-> q.after,
              truth |-> q.truth, created |-> q.created,
              behind |-> q.behind]
    BY <1>1, <2>1 DEF PointOK, IsPoint
  <2>3. [q1 EXCEPT !.truth = state] = r
    BY <1>2, <2>2
  <2>4. [q EXCEPT !.at = "tar", !.truth = state] = [q1 EXCEPT !.truth = state]
    BY <2>1
  <2> QED
    BY <1>1, <2>3, <2>4, StageOrder DEF Dump, failures
<1>4. /\ q.before \in Seq(Nat) /\ Len(q.before) = FileCount /\ ~q.whole /\ q.after = <<>>
      /\ Below(q.before, state, FileCount) /\ state \in [Files -> Nat]
      /\ Below(state, state, FileCount)
  BY <1>1, NothingChanges DEF PointOK, CaptureOK, Walking, BackupInvariant, ClockOK
<1>5. <<>> \in Seq(Nat) /\ Len(<<>>) = 0
  OBVIOUS
<1>6. PointOK(r)
  BY <1>2, <1>4, <1>5, FileCountAssumption
     DEF PointOK, IsPoint, CaptureOK, Walking, Below
<1> QED
  BY <1>3, <1>6, <1>1, QuietPointStep DEF Recording

LEMMA TarStep ==
    ASSUME BackupInvariant, NEW o \in Outputs, Tar(o)
    PROVE  BackupInvariant'
<1>1. PICK q : q = point[o] /\ PointOK(q) /\ q.at = "tar"
  BY DEF Tar, BackupInvariant
<1>2. PICK r : r = [at |-> Onwards(q.tar, "tar"), dir |-> q.dir, whole |-> q.whole,
                    before |-> q.before, tar |-> Read(q.tar), after |-> q.after,
                    truth |-> q.truth, created |-> q.created, behind |-> q.behind]
  OBVIOUS
<1>3. Update(o, r) /\ UNCHANGED failed_at
  <2>1. PICK q1 : q1 = [q EXCEPT !.tar = Read(q.tar)]
    OBVIOUS
  <2>2. q1 = [at |-> q.at, dir |-> q.dir, whole |-> q.whole,
              before |-> q.before, tar |-> Read(q.tar), after |-> q.after,
              truth |-> q.truth, created |-> q.created,
              behind |-> q.behind]
    BY <1>1, <2>1 DEF PointOK, IsPoint
  <2>3. [q1 EXCEPT !.at = Onwards(q.tar, "tar")] = r
    BY <1>2, <2>2
  <2>4. [q EXCEPT !.tar = Read(q.tar), !.at = Onwards(q.tar, "tar")]
           = [q1 EXCEPT !.at = Onwards(q.tar, "tar")]
    BY <2>1
  <2> QED
    BY <1>1, <2>3, <2>4 DEF Tar, failures
<1>4. r.at \in {"tar", "rewalk"}
  BY <1>2, StageOrder DEF Onwards
<1>5. PointOK(r)
  BY <1>1, <1>2, <1>4 DEF PointOK, IsPoint, CaptureOK, Walking
<1> QED
  BY <1>3, <1>5, <1>1, QuietPointStep DEF Recording

\* What lies between two equal walks is equal to them.
LEMMA RewalkStep ==
    ASSUME BackupInvariant, NEW o \in Outputs, Rewalk(o)
    PROVE  BackupInvariant'
<1>1. PICK q : q = point[o] /\ PointOK(q) /\ q.at = "rewalk"
  BY DEF Rewalk, BackupInvariant
<1>2. PICK s : s = Read(q.after)
  OBVIOUS
<1>3. /\ q.before \in Seq(Nat) /\ Len(q.before) = FileCount /\ ~q.whole
      /\ q.after \in Seq(Nat) /\ Len(q.after) < FileCount /\ Len(q.after) \in Nat
      /\ q.truth \in [Files -> Nat] /\ Below(q.before, q.truth, FileCount)
      /\ Below(q.truth, state, FileCount) /\ Below(q.truth, q.after, Len(q.after))
  BY <1>1 DEF PointOK, CaptureOK, Walking
<1>4. /\ s \in Seq(Nat) /\ Len(s) = Len(q.after) + 1 /\ Len(s) <= FileCount
      /\ s[Len(s)] = state[Len(s)] /\ state[Len(s)] \in Nat
      /\ \A i \in 1..Len(q.after) : s[i] = q.after[i]
  <2>1. /\ Read(q.after) \in Seq(Nat) /\ Len(Read(q.after)) = Len(q.after) + 1
        /\ Read(q.after)[Len(q.after) + 1] = state[Len(q.after) + 1]
        /\ state[Len(q.after) + 1] \in Nat
        /\ \A i \in 1..Len(q.after) : Read(q.after)[i] = q.after[i]
    BY <1>3, OneMoreFile DEF BackupInvariant
  <2>2. Len(s) <= FileCount
    BY <1>2, <1>3, <2>1, FileCountAssumption
  <2> QED
    BY <1>2, <2>1, <2>2
<1>5. Below(q.truth, s, Len(s))
  <2> SUFFICES ASSUME NEW i \in 1..Len(s) PROVE q.truth[i] <= s[i]
    BY DEF Below
  <2>1. CASE i = Len(s)
    <3>1. i \in 1..FileCount
      BY <1>3, <1>4, <2>1, FileCountAssumption
    <3> QED
      BY <1>3, <1>4, <2>1, <3>1 DEF Below
  <2>2. CASE i # Len(s)
    <3>1. i \in 1..Len(q.after)
      BY <1>3, <1>4, <2>2
    <3> QED
      BY <1>3, <1>4, <3>1 DEF Below
  <2> QED
    BY <2>1, <2>2
<1>6. CASE Len(s) < FileCount
  <2>1. PICK r : r = [at |-> "rewalk", dir |-> q.dir, whole |-> q.whole,
                      before |-> q.before, tar |-> q.tar, after |-> s,
                      truth |-> q.truth, created |-> q.created, behind |-> q.behind]
    OBVIOUS
  <2>2. Update(o, r) /\ UNCHANGED failed_at
    <3>1. [q EXCEPT !.after = s] = r
      BY <1>1, <2>1 DEF PointOK, IsPoint
    <3> QED
      BY <1>1, <1>2, <1>6, <3>1 DEF Rewalk, failures
  <2>3. PointOK(r)
    BY <1>3, <1>4, <1>5, <1>6, <2>1 DEF PointOK, IsPoint, CaptureOK, Walking
  <2> QED
    BY <2>2, <2>3, <1>1, QuietPointStep DEF Recording
<1>7. CASE ~(Len(s) < FileCount)
  <2>0. PICK a : a = IF s = q.before THEN "manifest" ELSE "discard"
    OBVIOUS
  <2>1. PICK r : r = [at |-> a, dir |-> q.dir, whole |-> q.whole,
                      before |-> q.before, tar |-> q.tar, after |-> <<>>,
                      truth |-> q.truth, created |-> q.created, behind |-> q.behind]
    OBVIOUS
  <2>2. Update(o, r) /\ UNCHANGED failed_at
    <3>1. PICK q1 : q1 = [q EXCEPT !.after = <<>>]
      OBVIOUS
    <3>2. q1 = [at |-> q.at, dir |-> q.dir, whole |-> q.whole,
                before |-> q.before, tar |-> q.tar, after |-> <<>>,
                truth |-> q.truth, created |-> q.created,
                behind |-> q.behind]
      BY <1>1, <3>1 DEF PointOK, IsPoint
    <3>3. [q1 EXCEPT !.at = a] = r
      BY <2>0, <2>1, <3>2
    <3>4. [q EXCEPT !.after = <<>>, !.at = a] = [q1 EXCEPT !.at = a]
      BY <3>1
    <3> QED
      BY <1>1, <1>2, <1>7, <2>0, <3>3, <3>4, StageOrder DEF Rewalk, failures
  <2>3. <<>> \in Seq(Nat)
    OBVIOUS
  <2>4. CASE s = q.before
    <3>1. /\ Files = 1..FileCount /\ q.before \in [1..FileCount -> Nat]
          /\ q.truth \in [1..FileCount -> Nat]
      BY <1>3 DEF Files
    <3>2. Len(s) = FileCount
      BY <1>3, <2>4
    <3>3. \A i \in 1..FileCount : q.before[i] = q.truth[i]
      <4> SUFFICES ASSUME NEW i \in 1..FileCount PROVE q.before[i] = q.truth[i]
        OBVIOUS
      <4>1. /\ q.before[i] <= q.truth[i] /\ q.truth[i] <= q.before[i]
            /\ q.before[i] \in Nat /\ q.truth[i] \in Nat
        BY <1>3, <1>5, <2>4, <3>1, <3>2 DEF Below
      <4> QED
        BY <4>1
    <3>4. q.before = q.truth
      <4>1. PICK b, t, S : b = q.before /\ t = q.truth /\ S = 1..FileCount
        OBVIOUS
      <4>2. b \in [S -> Nat] /\ t \in [S -> Nat] /\ \A i \in S : b[i] = t[i]
        BY <3>1, <3>3, <4>1
      <4>3. /\ b = [i \in S |-> b[i]] /\ t = [i \in S |-> t[i]]
            /\ [i \in S |-> b[i]] = [i \in S |-> t[i]]
        BY <4>2, Zenon
      <4> QED
        BY <4>1, <4>3
    <3>5. PointOK(r)
      BY <1>3, <2>0, <2>1, <2>3, <2>4, <3>4 DEF PointOK, IsPoint, CaptureOK, Walking
    <3> QED
      BY <2>2, <3>5, <1>1, QuietPointStep DEF Recording
  <2>5. CASE s # q.before
    <3>1. IsPoint(r) /\ r.at = "discard" /\ r.after = <<>> /\ r.whole = q.whole
          /\ r.before = q.before /\ r.truth = q.truth /\ r.created = q.created
          /\ r.behind = q.behind
      BY <2>0, <2>1, <2>5 DEF IsPoint
    <3>2. PointOK(r)
      BY <1>1, <2>3, <3>1, PointMoves DEF Walking
    <3> QED
      BY <2>2, <3>2, <1>1, QuietPointStep DEF Recording
  <2> QED
    BY <2>4, <2>5
<1> QED
  BY <1>6, <1>7

LEMMA StampManifestStep ==
    ASSUME BackupInvariant, NEW o \in Outputs, StampManifest(o)
    PROVE  BackupInvariant'
<1>1. PICK q : q = point[o] /\ PointOK(q) /\ q.at = "manifest"
  BY DEF StampManifest, BackupInvariant
<1>2. PICK r : r = [at |-> "digest", dir |-> q.dir, whole |-> q.whole,
                    before |-> q.before, tar |-> q.tar, after |-> q.after,
                    truth |-> q.truth, created |-> now, behind |-> Stamped]
  OBVIOUS
<1>3. Update(o, r) /\ UNCHANGED failed_at
  <2>1. PICK q1 : q1 = [q EXCEPT !.at = "digest"]
    OBVIOUS
  <2>2. q1 = [at |-> "digest", dir |-> q.dir, whole |-> q.whole,
              before |-> q.before, tar |-> q.tar, after |-> q.after,
              truth |-> q.truth, created |-> q.created,
              behind |-> q.behind]
    BY <1>1, <2>1 DEF PointOK, IsPoint
  <2>3. PICK q2 : q2 = [q1 EXCEPT !.created = now]
    OBVIOUS
  <2>4. q2 = [at |-> "digest", dir |-> q.dir, whole |-> q.whole,
              before |-> q.before, tar |-> q.tar, after |-> q.after,
              truth |-> q.truth, created |-> now, behind |-> q.behind]
    BY <1>1, <2>3, <2>2 DEF PointOK, IsPoint
  <2>5. PICK q3 : q3 = [q2 EXCEPT !.behind = Stamped]
    OBVIOUS
  <2>6. q3 = r
    BY <1>2, <2>4, <2>5
  <2>7. [q EXCEPT !.at = "digest", !.created = now, !.behind = Stamped] = q3
    BY <2>1, <2>3, <2>5
  <2> QED
    BY <1>1, <2>6, <2>7, StageOrder DEF StampManifest, failures
<1>4. Covers(now, Stamped)
  BY DEF Covers, BackupInvariant, ClockOK
<1>5. PointOK(r)
  BY <1>1, <1>2, <1>4 DEF PointOK, IsPoint, CaptureOK, Walking
<1> QED
  BY <1>1, <1>3, <1>5, QuietPointStep DEF Recording

LEMMA WriteManifestStep ==
    ASSUME BackupInvariant, NEW o \in Outputs, WriteManifest(o)
    PROVE  BackupInvariant'
<1>1. PICK q : q = point[o] /\ PointOK(q) /\ q.at = "digest"
  BY DEF WriteManifest, BackupInvariant
<1>2. PICK r : r = [at |-> "check", dir |-> q.dir, whole |-> TRUE,
                    before |-> q.before, tar |-> q.tar, after |-> q.after,
                    truth |-> q.truth, created |-> q.created, behind |-> q.behind]
  OBVIOUS
<1>3. Update(o, r) /\ UNCHANGED failed_at
  <2>1. PICK q1 : q1 = [q EXCEPT !.at = "check"]
    OBVIOUS
  <2>2. q1 = [at |-> "check", dir |-> q.dir, whole |-> q.whole,
              before |-> q.before, tar |-> q.tar, after |-> q.after,
              truth |-> q.truth, created |-> q.created,
              behind |-> q.behind]
    BY <1>1, <2>1 DEF PointOK, IsPoint
  <2>3. PICK q2 : q2 = [q1 EXCEPT !.whole = TRUE]
    OBVIOUS
  <2>4. q2 = [at |-> "check", dir |-> q.dir, whole |-> TRUE,
              before |-> q.before, tar |-> q.tar, after |-> q.after,
              truth |-> q.truth, created |-> q.created,
              behind |-> q.behind]
    BY <2>2, <2>3
  <2>5. q2 = r
    BY <1>2, <2>4, Zenon
  <2>6. [q EXCEPT !.at = "check", !.whole = TRUE] = q2
    BY <2>1, <2>3
  <2> QED
    BY <1>1, <2>5, <2>6, StageOrder DEF WriteManifest, failures
<1>4. PointOK(r)
  BY <1>1, <1>2 DEF PointOK, IsPoint, CaptureOK, Walking
<1> QED
  BY <1>1, <1>3, <1>4, QuietPointStep DEF Recording

\* The end of a create, however it comes, and damage afterwards.
Final == {"check", "discard", "record", "stamped", "recording", "ended"}

LEMMA EndStep ==
    ASSUME BackupInvariant, NEW o \in Outputs,
           \/ CheckOutput(o) \/ Fails(o) \/ Discard(o) \/ StampFailure(o)
           \/ OpenRecord(o) \/ FinishRecord(o) \/ RecordFails(o) \/ Kill(o) \/ Damage(o)
    PROVE  BackupInvariant'
<1>1. PICK q : q = point[o] /\ PointOK(q)
  BY DEF BackupInvariant
<1>2. Final \cap (Walking \cup {"manifest", "digest", "absent"}) = {}
  BY DEF Final, Walking
<1>3. ASSUME NEW a \in Final
      PROVE  PointOK([point[o] EXCEPT !.at = a]) /\ [point[o] EXCEPT !.at = a].at = a
  <2>1. PICK r : r = [q EXCEPT !.at = a]
    OBVIOUS
  <2>2. IsPoint(r) /\ r.at = a /\ r.whole = q.whole /\ r.before = q.before
        /\ r.after = q.after /\ r.truth = q.truth /\ r.created = q.created
        /\ r.behind = q.behind
    BY <1>1, <2>1 DEF PointOK, IsPoint
  <2>3. PointOK(r)
    BY <1>1, <1>2, <2>2, PointMoves DEF PointOK, CaptureOK
  <2> QED
    BY <1>1, <2>1, <2>2, <2>3
<1>4. ASSUME NEW a \in Final, NEW d, NEW w \in {FALSE, point[o].whole}
      PROVE  PointOK(Left(a, d, w, point[o])) /\ Left(a, d, w, point[o]).at = a
  <2>1. PointOK(Left(a, d, w, point[o]))
    BY <1>1, <1>2, PointLeft
  <2>2. point[o] = [at |-> point[o].at, dir |-> point[o].dir, whole |-> point[o].whole,
                    before |-> point[o].before, tar |-> point[o].tar,
                    after |-> point[o].after, truth |-> point[o].truth,
                    created |-> point[o].created, behind |-> point[o].behind]
    BY <1>1 DEF PointOK, IsPoint
  <2>3. CASE w
    <3>1. PICK p : p = [point[o] EXCEPT !.at = a]
      OBVIOUS
    <3>2. p.at = a /\ p = [at |-> a, dir |-> point[o].dir, whole |-> point[o].whole,
                           before |-> point[o].before, tar |-> point[o].tar,
                           after |-> point[o].after, truth |-> point[o].truth,
                           created |-> point[o].created, behind |-> point[o].behind]
      BY <2>2, <3>1
    <3>3. [p EXCEPT !.dir = d].at = a
      BY <3>2
    <3>4. Left(a, d, w, point[o]) = [p EXCEPT !.dir = d]
      BY <2>3, <3>1 DEF Left
    <3> QED
      BY <2>1, <3>3, <3>4
  <2>4. CASE ~w
    BY <2>1, <2>4 DEF Left, Nothing
  <2> QED
    BY <2>3, <2>4
<1>5. CASE CheckOutput(o)
  <2>1. PICK a \in Final : Update(o, [point[o] EXCEPT !.at = a])
    BY <1>5, StageOrder DEF CheckOutput, Final
  <2>2. point[o].at \notin Recording \cup {"ended"} /\ UNCHANGED failed_at
    BY <1>5 DEF CheckOutput, Recording, failures
  <2> QED
    BY <1>3, <2>1, <2>2, QuietPointStep
<1>6. CASE Fails(o)
  <2>1. /\ point[o].at \notin Recording \cup {"ended"} /\ UNCHANGED failed_at
        /\ Update(o, [point[o] EXCEPT !.at = "discard"]) /\ "discard" \in Final
    BY <1>6 DEF Fails, Capturing, Walking, Recording, failures, Final
  <2> QED
    BY <1>3, <2>1, QuietPointStep
<1>7. CASE Discard(o)
  <2>1. PICK d \in BOOLEAN, w \in {FALSE, point[o].whole} : Update(o, Left("record", d, w, point[o]))
    BY <1>7 DEF Discard
  <2>2. /\ point[o].at \notin Recording \cup {"ended"} /\ UNCHANGED failed_at
        /\ "record" \in Final
    BY <1>7 DEF Discard, Recording, failures, Final
  <2> QED
    BY <1>4, <2>1, <2>2, QuietPointStep
<1>8. CASE StampFailure(o)
  <2>1. /\ Update(o, [point[o] EXCEPT !.at = "stamped"])
        /\ failed_at' = [failed_at EXCEPT ![o] = now]
        /\ "stamped" \in Final /\ "stamped" \in Recording
    BY <1>8 DEF StampFailure, Final, Recording
  <2>2. failed_at[o] = None
    BY <1>8 DEF StampFailure, Recording, BackupInvariant, StampedOnce, Stamped
  <2>3. PICK r : r = [point[o] EXCEPT !.at = "stamped"]
    OBVIOUS
  <2>4. Update(o, r) /\ PointOK(r) /\ r.at \in Recording \cup {"ended"}
    BY <1>3, <2>1, <2>3
  <2> QED
    BY <2>1, <2>2, <2>4, PointStep
<1>9. CASE OpenRecord(o)
  <2>1. /\ Update(o, [point[o] EXCEPT !.at = "recording"]) /\ UNCHANGED failed_at
        /\ "recording" \in Final /\ "recording" \in Recording
    BY <1>9 DEF OpenRecord, Final, Recording
  <2> QED
    BY <1>3, <2>1, QuietPointStep
<1>10. CASE FinishRecord(o) \/ RecordFails(o)
  <2>1. /\ Update(o, [point[o] EXCEPT !.at = "ended"]) /\ UNCHANGED failed_at
        /\ "ended" \in Final
    BY <1>10 DEF FinishRecord, RecordFails, Final, failures
  <2> QED
    BY <1>3, <2>1, QuietPointStep
<1>11. CASE Kill(o)
  <2>1. /\ Update(o, Left("ended", point[o].dir, point[o].whole, point[o]))
        /\ UNCHANGED failed_at /\ "ended" \in Final
    BY <1>11 DEF Kill, Final, failures
  <2> QED
    BY <1>4, <2>1, QuietPointStep
<1>12. CASE Damage(o)
  <2>1. q.whole /\ q.at \notin Walking \cup {"manifest", "digest", "absent"}
    BY <1>1, <1>12 DEF Damage, PointOK, CaptureOK, Walking, Nothing
  <2>2. PICK r : r = Left(q.at, TRUE, FALSE, q)
    OBVIOUS
  <2>3. r = [Nothing EXCEPT !.at = q.at, !.dir = TRUE]
    BY <2>2 DEF Left
  <2>4. r.at = q.at
    BY <2>3 DEF Nothing
  <2>5. PointOK(r) /\ Update(o, r) /\ UNCHANGED failed_at
    BY <1>1, <1>12, <2>1, <2>2, PointLeft DEF Damage, failures
  <2> QED
    BY <1>1, <2>4, <2>5, QuietPointStep
<1> QED
  BY <1>5, <1>6, <1>7, <1>8, <1>9, <1>10, <1>11, <1>12

\* The monitor's own steps.
LEMMA CheckStep ==
    ASSUME BackupInvariant,
           StartCheck \/ ListEvidence \/ Report
           \/ \E o \in Outputs : Examine(o) \/ ReadRecord(o)
    PROVE  BackupInvariant'
<1>1. CASE StartCheck \/ Report
  <2>1. /\ UNCHANGED <<state, now, point, failures>>
        /\ monitor'.failed = {} /\ monitor'.complete = {}
        /\ monitor' = [at |-> monitor'.at, now |-> monitor'.now,
                       listed |-> monitor'.listed, noted |-> monitor'.noted,
                       failed |-> monitor'.failed, complete |-> monitor'.complete,
                       invalid |-> monitor'.invalid]
    BY <1>1 DEF StartCheck, Report, NotChecking
  <2> QED
    BY <2>1, MonitorStep DEF MonitorOK
<1>2. CASE ListEvidence
  <2>1. monitor' = [at |-> "examining", now |-> monitor.now,
                    listed |-> {o \in Outputs : point[o].dir},
                    noted |-> {o \in Outputs : record[o] # "none"}, failed |-> monitor.failed,
                    complete |-> monitor.complete, invalid |-> monitor.invalid]
    BY <1>2 DEF ListEvidence, BackupInvariant, MonitorOK
  <2>2. UNCHANGED <<state, now, point, failures>>
    BY <1>2 DEF ListEvidence
  <2>3. MonitorOK'
    BY <2>1, <2>2 DEF BackupInvariant, MonitorOK, Covers, Stamped, failures
  <2> QED
    BY <2>2, <2>3, MonitorStep
<1>3. ASSUME NEW o \in Outputs, Examine(o)
      PROVE  BackupInvariant'
  <2>1. PICK l, c, v : /\ l = monitor.listed \ {o}
                       /\ c = IF Accepted(o) THEN monitor.complete \cup {Found(o)}
                                             ELSE monitor.complete
                       /\ v = (monitor.invalid \/ (point[o].dir /\ ~Accepted(o)))
    OBVIOUS
  <2>2. monitor' = [at |-> monitor.at, now |-> monitor.now, listed |-> l,
                    noted |-> monitor.noted, failed |-> monitor.failed, complete |-> c, invalid |-> v]
    BY <1>3, <2>1 DEF Examine, BackupInvariant, MonitorOK
  <2>3. UNCHANGED <<state, now, point, failures>>
    BY <1>3 DEF Examine
  <2>4. \A p \in c : Covers(p.created, p.behind)
    <3> SUFFICES ASSUME NEW p \in c PROVE Covers(p.created, p.behind)
      OBVIOUS
    <3>1. CASE p \in monitor.complete
      BY <3>1 DEF BackupInvariant, MonitorOK
    <3>2. CASE p \notin monitor.complete
      <4>1. p = Found(o) /\ Accepted(o)
        BY <2>1, <3>2
      <4> QED
        BY <4>1 DEF Found, Accepted, BackupInvariant, PointOK
    <3> QED
      BY <3>1, <3>2
  <2>5. MonitorOK'
    BY <2>2, <2>3, <2>4 DEF BackupInvariant, MonitorOK, Covers, Stamped, failures
  <2> QED
    BY <2>3, <2>5, MonitorStep
<1>4. ASSUME NEW o \in Outputs, ReadRecord(o)
      PROVE  BackupInvariant'
  <2>1. PICK f : f = [output |-> o,
                      time |-> IF record[o] = "whole" THEN failed_at[o] ELSE None]
    OBVIOUS
  <2>2. monitor' = [at |-> monitor.at, now |-> monitor.now, listed |-> monitor.listed,
                    noted |-> monitor.noted \ {o}, failed |-> monitor.failed \cup {f},
                    complete |-> monitor.complete, invalid |-> monitor.invalid]
    BY <1>4, <2>1 DEF ReadRecord, BackupInvariant, MonitorOK
  <2>3. UNCHANGED <<state, now, point, failures>>
    BY <1>4 DEF ReadRecord
  <2>4. f.time # None => f.output \in Stamped /\ f.time = failed_at[f.output]
    BY <2>1 DEF Stamped
  <2>5. MonitorOK'
    BY <2>2, <2>3, <2>4 DEF BackupInvariant, MonitorOK, Covers, Stamped, failures
  <2> QED
    BY <2>3, <2>5, MonitorStep
<1> QED
  BY <1>1, <1>2, <1>3, <1>4

LEMMA BackupStarts ==
    ASSUME BackupInit
    PROVE  BackupInvariant
<1>1. <<>> \in Seq(Nat)
  OBVIOUS
<1>2. PointOK(Nothing)
  BY <1>1 DEF Nothing, PointOK, IsPoint, CaptureOK, Walking
<1> QED
  BY <1>2 DEF BackupInit, BackupInvariant, ClockOK, StampedOnce, Stamped, MonitorOK, NotChecking

LEMMA BackupSteps ==
    ASSUME BackupInvariant, [BackupNext]_backupVars
    PROVE  BackupInvariant'
<1>1. CASE UNCHANGED backupVars
  BY <1>1 DEF backupVars, BackupInvariant, ClockOK, MonitorOK, PointOK, IsPoint,
              CaptureOK, Covers, StampedOnce, Stamped, failures
<1>2. CASE Tick \/ \E f \in Files : WriteState(f)
  BY <1>2, WorldStep
<1>3. ASSUME NEW o \in Outputs,
             \/ Create(o) \/ Walk(o) \/ Dump(o) \/ Tar(o) \/ Rewalk(o)
             \/ StampManifest(o) \/ WriteManifest(o) \/ CheckOutput(o) \/ Fails(o)
             \/ Discard(o) \/ StampFailure(o) \/ OpenRecord(o) \/ FinishRecord(o)
             \/ RecordFails(o) \/ Kill(o) \/ Damage(o)
      PROVE  BackupInvariant'
  BY <1>3, CreateStep, WalkStep, DumpStep, TarStep, RewalkStep,
     StampManifestStep, WriteManifestStep, EndStep
<1>4. CASE StartCheck \/ ListEvidence \/ Report
           \/ \E o \in Outputs : Examine(o) \/ ReadRecord(o)
  BY <1>4, CheckStep
<1> QED
  BY <1>1, <1>2, <1>3, <1>4 DEF BackupNext

\* The two walks of a create enclose its dump, and no manifest leaves a failure
\* stamped at an earlier time out (create, check, check_backup_evidence).
THEOREM BackupIsKept ==
    BackupSpec => []BackupInvariant
<1>1. BackupInit => BackupInvariant
  BY BackupStarts
<1>2. BackupInvariant /\ [BackupNext]_backupVars => BackupInvariant'
  BY BackupSteps
<1> QED
  BY <1>1, <1>2, PTL DEF BackupSpec

\* A point that check accepts is the system at one moment: when the database
\* snapshot was taken, the state root was what the archive holds (check).
THEOREM OneMoment ==
    BackupSpec => []PairIsOneMoment
<1>1. BackupInvariant => PairIsOneMoment
  BY DEF BackupInvariant, PointOK, CaptureOK, PairIsOneMoment, Accepted, ArchiveMatches
<1> QED
  BY <1>1, BackupIsKept, PTL

\* operator-check stays silent only over a point that took its time after every
\* failure whose record was listed had been stamped (check_backup_evidence,
\* record_failed_attempt, create).
THEOREM SilenceIsRecovery ==
    BackupSpec => SilentMeansRecovered
<1> DEFINE Recovered ==
        monitor.at = "examining" /\ monitor'.at = "silent" =>
           \E p \in monitor.complete :
              Newest(p) /\ \A f \in monitor.failed : f.output \in p.behind
<1>1. ASSUME BackupInvariant, BackupNext, monitor.at = "examining", monitor'.at = "silent"
      PROVE  \E p \in monitor.complete :
                Newest(p) /\ \A f \in monitor.failed : f.output \in p.behind
  <2>1. monitor' # monitor
    BY <1>1
  <2>2. Report
    BY <1>1, <2>1 DEF BackupNext, WriteState, Tick, Create, Walk, Dump, Tar, Rewalk,
       StampManifest, WriteManifest, CheckOutput, Fails, Discard, StampFailure, OpenRecord,
       FinishRecord, RecordFails, Kill, Damage, Update, Examine, ReadRecord, StartCheck,
       ListEvidence, BackupInvariant, MonitorOK
  <2>3. Silent
    BY <1>1, <2>2 DEF Report, NotChecking
  <2>4. PICK p \in monitor.complete :
           Newest(p) /\ \A f \in monitor.failed : Resolved(f, p)
    BY <2>3 DEF Silent
  <2>5. ASSUME NEW f \in monitor.failed PROVE f.output \in p.behind
    <3>1. /\ f.time # None /\ p.created > f.time
          /\ f.output \in Stamped /\ f.time = failed_at[f.output]
      BY <1>1, <2>4, <2>5 DEF BackupInvariant, MonitorOK, Resolved
    <3>2. Covers(p.created, p.behind) /\ failed_at[f.output] \in Nat
      BY <1>1, <3>1 DEF BackupInvariant, MonitorOK, ClockOK, Stamped
    <3> QED
      BY <3>1, <3>2 DEF Covers
  <2> QED
    BY <2>4, <2>5
<1>2. BackupInvariant /\ [BackupNext]_backupVars => [Recovered]_backupVars
  BY <1>1
<1>3. BackupSpec => [][Recovered]_backupVars
  BY <1>2, BackupIsKept, PTL DEF BackupSpec
<1> QED
  BY <1>3 DEF SilentMeansRecovered
-----------------------------------------------------------------------------
\* The worker's scan.

WorkerRecords ==
    [at : {"idle", "recover", "claim", "offered", "running"},
     known : SUBSET Organizations, todo : SUBSET Organizations,
     last : Organizations \cup {NoOrganization},
     claim : Organizations \cup {NoOrganization}]

WorkerVarsTypeOK ==
    /\ organizations \subseteq Organizations
    /\ worker \in [Workers -> WorkerRecords]
    /\ since \in [Workers -> [Organizations -> SUBSET Organizations]]

Scanning(w) == worker[w].at \in {"recover", "claim"}

\* From the last claim on, whoever it was made past comes before whom it was
\* made for; a scan has probed whom it found and has no longer to do.
Rotation(w) ==
    /\ worker[w].known \subseteq organizations /\ worker[w].todo \subseteq worker[w].known
    /\ \A o \in Organizations : since[w][o] # {} =>
          o \in organizations /\ (Scanning(w) => o \in worker[w].known)
    /\ \A o \in Organizations : \A c \in since[w][o] :
          c = o \/ ScannedBefore(worker[w].last, o, c)
    /\ Scanning(w) => \A o \in worker[w].known \ worker[w].todo : since[w][o] = {}
    /\ \A o \in Organizations : Probing(w, "claim", o) => since[w][o] = {}

WorkerInvariant == WorkerVarsTypeOK /\ \A w \in Workers : Rotation(w)

LEMMA Numbers ==
    /\ Organizations \subseteq Nat /\ NoOrganization \in Nat
    /\ NoOrganization \notin Organizations
BY WorkerBounds DEF Organizations, NoOrganization

\* The order of a scan is a strict one.
LEMMA ScanOrder ==
    ASSUME NEW l \in Nat, NEW o \in Nat, NEW p \in Nat, NEW q \in Nat
    PROVE  /\ ~(ScannedBefore(l, o, p) /\ ScannedBefore(l, p, o))
           /\ ScannedBefore(l, o, p) /\ ScannedBefore(l, p, q) => ScannedBefore(o, p, q)
           /\ o # p => ScannedBefore(p, o, p)
BY DEF ScannedBefore

\* A worker that takes no part in a step.
LEMMA OtherWorkers ==
    ASSUME NEW v, Rotation(v), worker'[v] = worker[v], since'[v] = since[v],
           organizations \subseteq organizations'
    PROVE  Rotation(v)'
BY DEF Rotation, Scanning, Probing

\* A worker whose scan is over, with its cursor where it was.
LEMMA Resting ==
    ASSUME NEW w, Rotation(w), ~Scanning(w)', since'[w] = since[w],
           worker'[w].last = worker[w].last, organizations \subseteq organizations',
           worker'[w].known \subseteq organizations', worker'[w].todo \subseteq worker'[w].known
    PROVE  Rotation(w)'
BY DEF Rotation, Scanning, Probing

LEMMA OneWorker ==
    ASSUME WorkerInvariant, NEW w \in Workers, NEW r \in WorkerRecords,
           worker' = [worker EXCEPT ![w] = r], UNCHANGED organizations,
           NEW f \in [Organizations -> SUBSET Organizations],
           since' = [since EXCEPT ![w] = f],
           Rotation(w)'
    PROVE  WorkerInvariant'
<1>1. WorkerVarsTypeOK' /\ \A v \in Workers \ {w} : worker'[v] = worker[v] /\ since'[v] = since[v]
  BY DEF WorkerInvariant, WorkerVarsTypeOK
<1>2. \A v \in Workers \ {w} : Rotation(v)'
  BY <1>1, OtherWorkers DEF WorkerInvariant
<1> QED
  BY <1>1, <1>2 DEF WorkerInvariant

LEMMA RestStep ==
    ASSUME WorkerInvariant, NEW w \in Workers, UNCHANGED <<organizations, since>>,
           Rest(w)
    PROVE  WorkerInvariant'
<1>1. PICK r : r = [Idle EXCEPT !.last = worker[w].last]
  OBVIOUS
<1>2. /\ r \in WorkerRecords /\ r.at = "idle" /\ r.last = worker[w].last
      /\ r.known = {} /\ r.todo = {}
  BY <1>1 DEF WorkerInvariant, WorkerVarsTypeOK, WorkerRecords, Idle
<1>3. worker' = [worker EXCEPT ![w] = r] /\ worker'[w] = r
  BY <1>1 DEF Rest, WorkerInvariant, WorkerVarsTypeOK
<1>4. /\ since[w] \in [Organizations -> SUBSET Organizations]
      /\ since' = [since EXCEPT ![w] = since[w]] /\ Rotation(w)
  BY DEF WorkerInvariant, WorkerVarsTypeOK
<1>5. Rotation(w)'
  BY <1>2, <1>3, <1>4, Resting DEF Scanning
<1> QED
  BY <1>2, <1>3, <1>4, <1>5, OneWorker

\* A worker goes from one phase of its claim to the next.
LEMMA PhaseStep ==
    ASSUME WorkerInvariant, NEW w \in Workers, UNCHANGED <<organizations, since>>,
           Go(w, "running")
    PROVE  WorkerInvariant'
<1>1. PICK r : r = [worker[w] EXCEPT !.at = "running"]
  OBVIOUS
<1>2. /\ r \in WorkerRecords /\ r.at = "running" /\ r.last = worker[w].last
      /\ r.known = worker[w].known /\ r.todo = worker[w].todo
  BY <1>1 DEF WorkerInvariant, WorkerVarsTypeOK, WorkerRecords
<1>3. worker' = [worker EXCEPT ![w] = r] /\ worker'[w] = r
  BY <1>1 DEF Go, WorkerInvariant, WorkerVarsTypeOK
<1>4. /\ since[w] \in [Organizations -> SUBSET Organizations]
      /\ since' = [since EXCEPT ![w] = since[w]] /\ Rotation(w)
  BY DEF WorkerInvariant, WorkerVarsTypeOK
<1>5. Rotation(w)'
  BY <1>2, <1>3, <1>4, Resting DEF Scanning, Rotation
<1> QED
  BY <1>2, <1>3, <1>4, <1>5, OneWorker

LEMMA ScanStarts ==
    ASSUME WorkerInvariant, NEW w \in Workers, StartScan(w)
    PROVE  WorkerInvariant'
<1>1. PICK r : /\ r.at = "recover" /\ r.known = organizations /\ r.todo = organizations
               /\ r.last = worker[w].last /\ r \in WorkerRecords
               /\ worker' = [worker EXCEPT ![w] = r]
  <2>1. PICK r : r = [worker[w] EXCEPT !.at = "recover", !.known = organizations,
                                       !.todo = organizations]
    OBVIOUS
  <2>2. worker[w] \in WorkerRecords /\ organizations \subseteq Organizations
    BY DEF WorkerInvariant, WorkerVarsTypeOK
  <2>3. /\ r.at = "recover" /\ r.known = organizations /\ r.todo = organizations
        /\ r.last = worker[w].last /\ r \in WorkerRecords
    BY <2>1, <2>2 DEF WorkerRecords
  <2>4. worker' = [worker EXCEPT ![w] = r]
    BY <2>1 DEF StartScan
  <2> QED
    BY <2>3, <2>4
<1>2. /\ worker'[w] = r /\ UNCHANGED <<organizations, since>>
      /\ since[w] \in [Organizations -> SUBSET Organizations]
      /\ since' = [since EXCEPT ![w] = since[w]] /\ Rotation(w)
  BY <1>1 DEF StartScan, WorkerInvariant, WorkerVarsTypeOK
<1>3. Rotation(w)'
  BY <1>1, <1>2 DEF Rotation, Scanning, Probing
<1> QED
  BY <1>1, <1>2, <1>3, OneWorker

LEMMA RecoverStep ==
    ASSUME WorkerInvariant, NEW w \in Workers, NEW o \in Organizations, Recover(w, o)
    PROVE  WorkerInvariant'
<1>1. PICK r : /\ r = [worker[w] EXCEPT !.at = "claim"]
               /\ worker' = [worker EXCEPT ![w] = r]
  BY DEF Recover, Go
<1>2. /\ r.at = "claim" /\ r.known = worker[w].known /\ r.todo = worker[w].todo
      /\ r.last = worker[w].last /\ r \in WorkerRecords
  BY <1>1 DEF WorkerInvariant, WorkerVarsTypeOK, WorkerRecords
<1>3. PICK f : /\ f = [since[w] EXCEPT ![o] = {}]
               /\ since' = [since EXCEPT ![w] = f]
  BY DEF Recover
<1>4. /\ f \in [Organizations -> SUBSET Organizations] /\ f[o] = {}
      /\ \A p \in Organizations : p # o => f[p] = since[w][p]
      /\ worker'[w] = r /\ since'[w] = f /\ UNCHANGED organizations
      /\ Rotation(w) /\ Probing(w, "recover", o)
  BY <1>1, <1>3 DEF Recover, WorkerInvariant, WorkerVarsTypeOK
<1>5. \A p \in Organizations : Probing(w, "claim", p)' => p = o
  <2> SUFFICES ASSUME NEW p \in Organizations, Probing(w, "claim", p)', p # o
               PROVE  FALSE
    OBVIOUS
  <2>1. /\ ScannedBefore(worker[w].last, o, p) /\ ScannedBefore(worker[w].last, p, o)
        /\ worker[w].last \in Nat
    BY <1>2, <1>4, Numbers DEF Probing, WorkerRecords
  <2> QED
    BY <2>1, Numbers, ScanOrder
<1>6. Rotation(w)'
  <2>1. Scanning(w)
    BY <1>4 DEF Probing, Scanning
  <2>2. \A p \in Organizations : f[p] \subseteq since[w][p]
    BY <1>4
  <2>3. \A p \in Organizations : f[p] # {} =>
           p \in organizations' /\ p \in worker'[w].known
    BY <1>2, <1>4, <2>1, <2>2 DEF Rotation
  <2>4. \A p \in Organizations : \A c \in f[p] :
           c = p \/ ScannedBefore(worker'[w].last, p, c)
    BY <1>2, <1>4, <2>2 DEF Rotation
  <2>5. \A p \in worker'[w].known \ worker'[w].todo : f[p] = {}
    <3> SUFFICES ASSUME NEW p \in worker[w].known \ worker[w].todo
                 PROVE  f[p] = {}
      BY <1>2, <1>4
    <3>1. p \in Organizations /\ since[w][p] = {}
      BY <1>4, <2>1 DEF Rotation, WorkerInvariant, WorkerVarsTypeOK
    <3> QED
      BY <2>2, <3>1
  <2>6. /\ worker'[w].known \subseteq organizations'
        /\ worker'[w].todo \subseteq worker'[w].known
    BY <1>2, <1>4 DEF Rotation
  <2> QED
    BY <1>4, <1>5, <2>3, <2>4, <2>5, <2>6 DEF Rotation
<1> QED
  BY <1>1, <1>2, <1>3, <1>4, <1>6, OneWorker

\* The claim moves the cursor to its organization, and everyone else the scan
\* found has seen it pass.
LEMMA ClaimStep ==
    ASSUME WorkerInvariant, NEW w \in Workers, NEW o \in Organizations, Claim(w, o)
    PROVE  WorkerInvariant'
<1>1. PICK r : /\ r = [worker[w] EXCEPT !.at = "offered", !.claim = o, !.last = o]
               /\ worker' = [worker EXCEPT ![w] = r]
  BY DEF Claim
<1>2. /\ r.at = "offered" /\ r.known = worker[w].known /\ r.todo = worker[w].todo
      /\ r.last = o /\ r \in WorkerRecords
  <2>1. worker[w] \in WorkerRecords
    BY DEF WorkerInvariant, WorkerVarsTypeOK
  <2> QED
    BY <1>1, <2>1 DEF WorkerRecords
<1>3. PICK f : /\ f = [p \in Organizations |->
                          IF p \in worker[w].known THEN since[w][p] \cup {o} ELSE since[w][p]]
               /\ since' = [since EXCEPT ![w] = f]
  BY DEF Claim
<1>4. /\ f \in [Organizations -> SUBSET Organizations]
      /\ \A p \in Organizations :
            \/ p \in worker[w].known /\ f[p] = since[w][p] \cup {o}
            \/ p \notin worker[w].known /\ f[p] = since[w][p]
      /\ worker'[w] = r /\ since'[w] = f /\ UNCHANGED organizations
      /\ Rotation(w) /\ Probing(w, "claim", o) /\ worker[w].last \in Nat
  BY <1>1, <1>3, Numbers DEF Claim, WorkerInvariant, WorkerVarsTypeOK, WorkerRecords
<1>5. ASSUME NEW p \in Organizations, NEW c \in f[p], c # p
      PROVE  ScannedBefore(o, p, c)
  <2>1. c \in Nat /\ p \in Nat /\ o \in Nat /\ c \in Organizations
    BY <1>4, Numbers
  <2>2. CASE c = o
    BY <1>5, <2>1, <2>2, ScanOrder
  <2>3. CASE c # o
    <3>1. c \in since[w][p] /\ ScannedBefore(worker[w].last, p, c)
      BY <1>4, <1>5, <2>3 DEF Rotation
    <3>2. p \in worker[w].todo /\ p # o
      BY <1>4, <3>1 DEF Rotation, Scanning, Probing
    <3>3. ScannedBefore(worker[w].last, o, p)
      BY <1>4, <3>2 DEF Probing
    <3> QED
      BY <1>4, <2>1, <3>1, <3>3, ScanOrder
  <2> QED
    BY <2>2, <2>3
<1>6. Rotation(w)'
  <2>1. \A p \in Organizations : f[p] # {} => p \in organizations
    BY <1>4 DEF Rotation
  <2> QED
    BY <1>2, <1>4, <1>5, <2>1 DEF Rotation, Scanning, Probing
<1> QED
  BY <1>1, <1>2, <1>3, <1>4, <1>6, OneWorker

LEMMA NoClaimStep ==
    ASSUME WorkerInvariant, NEW w \in Workers, NEW o \in Organizations, NoClaim(w, o)
    PROVE  WorkerInvariant'
<1>1. CASE worker[w].todo = {o}
  BY <1>1, RestStep DEF NoClaim, Pass
<1>2. CASE worker[w].todo # {o}
  <2>1. PICK r : /\ r = [worker[w] EXCEPT !.todo = @ \ {o}, !.at = "recover"]
                 /\ worker' = [worker EXCEPT ![w] = r]
    BY <1>2 DEF NoClaim, Pass
  <2>2. /\ r.at = "recover" /\ r.known = worker[w].known /\ r.todo = worker[w].todo \ {o}
        /\ r.last = worker[w].last /\ r \in WorkerRecords
    <3>1. worker[w] \in WorkerRecords
      BY DEF WorkerInvariant, WorkerVarsTypeOK
    <3> QED
      BY <2>1, <3>1 DEF WorkerRecords
  <2>3. /\ worker'[w] = r /\ UNCHANGED <<organizations, since>>
        /\ since[w] \in [Organizations -> SUBSET Organizations]
        /\ since' = [since EXCEPT ![w] = since[w]]
        /\ Rotation(w) /\ Probing(w, "claim", o)
    BY <2>1 DEF NoClaim, WorkerInvariant, WorkerVarsTypeOK
  <2>4. Rotation(w)'
    BY <2>2, <2>3 DEF Rotation, Scanning, Probing
  <2> QED
    BY <2>1, <2>2, <2>3, <2>4, OneWorker
<1> QED
  BY <1>1, <1>2

LEMMA CrashStep ==
    ASSUME WorkerInvariant, NEW w \in Workers, Crash(w)
    PROVE  WorkerInvariant'
<1>1. PICK f : /\ f = [o \in Organizations |-> {}] /\ since' = [since EXCEPT ![w] = f]
               /\ worker' = [worker EXCEPT ![w] = Idle] /\ UNCHANGED organizations
  BY DEF Crash
<1>2. Idle \in WorkerRecords /\ f \in [Organizations -> SUBSET Organizations]
  BY <1>1, Numbers DEF Idle, WorkerRecords
<1>3. worker'[w] = Idle /\ since'[w] = f
  BY <1>1 DEF WorkerInvariant, WorkerVarsTypeOK
<1>4. Rotation(w)'
  BY <1>1, <1>3 DEF Rotation, Scanning, Probing, Idle
<1> QED
  BY <1>1, <1>2, <1>4, OneWorker

LEMMA WorkerStarts ==
    ASSUME WorkerInit
    PROVE  WorkerInvariant
<1>1. Idle \in WorkerRecords
  BY Numbers DEF Idle, WorkerRecords
<1>2. WorkerVarsTypeOK
  BY <1>1 DEF WorkerInit, WorkerVarsTypeOK
<1> QED
  BY <1>2 DEF WorkerInit, WorkerInvariant, Rotation, Scanning, Probing, Idle

LEMMA WorkerSteps ==
    ASSUME WorkerInvariant, [WorkerNext]_workerVars
    PROVE  WorkerInvariant'
<1>1. CASE \/ UNCHANGED workerVars
           \/ \E o \in Organizations : CreateOrganization(o) \/ Admit(o) \/ Lapse(o)
  <2>1. /\ worker' = worker /\ since' = since /\ organizations \subseteq organizations'
        /\ organizations' \subseteq Organizations
    BY <1>1 DEF workerVars, CreateOrganization, Admit, Lapse, WorkerInvariant, WorkerVarsTypeOK
  <2>2. \A w \in Workers : Rotation(w)'
    BY <2>1, OtherWorkers DEF WorkerInvariant
  <2> QED
    BY <2>1, <2>2 DEF WorkerInvariant, WorkerVarsTypeOK
<1>2. ASSUME NEW w \in Workers, StartScan(w) \/ Crash(w)
      PROVE  WorkerInvariant'
  BY <1>2, ScanStarts, CrashStep
<1>3. ASSUME NEW w \in Workers, NEW o \in Organizations,
             \/ Recover(w, o) \/ Claim(w, o) \/ NoClaim(w, o) \/ ScanFails(w, o)
             \/ RequeueUnstarted(w, o) \/ Begin(w, o) \/ Poisoned(w, o) \/ Finish(w, o)
      PROVE  WorkerInvariant'
  <2>1. CASE Recover(w, o)
    BY <2>1, RecoverStep
  <2>2. CASE Claim(w, o)
    BY <2>2, ClaimStep
  <2>3. CASE NoClaim(w, o)
    BY <2>3, NoClaimStep
  <2>4. CASE \/ ScanFails(w, o) \/ RequeueUnstarted(w, o) \/ Poisoned(w, o) \/ Finish(w, o)
             \/ Begin(w, o) /\ ~Holds(w, o)
    <3>1. Rest(w) /\ UNCHANGED <<organizations, since>>
      BY <2>4 DEF ScanFails, RequeueUnstarted, Poisoned, Finish, Begin
    <3> QED
      BY <3>1, RestStep
  <2>5. CASE Begin(w, o) /\ Holds(w, o)
    BY <2>5, PhaseStep DEF Begin
  <2> QED
    BY <1>3, <2>1, <2>2, <2>3, <2>4, <2>5
<1> QED
  BY <1>1, <1>2, <1>3 DEF WorkerNext

\* Whom a claim passed comes before its organization in the scans that follow
\* (organizationsAfter, scanLoop).
THEOREM RotationIsKept ==
    WorkerSpec => []WorkerInvariant
<1>1. WorkerInit => WorkerInvariant
  BY WorkerStarts
<1>2. WorkerInvariant /\ [WorkerNext]_workerVars => WorkerInvariant'
  BY WorkerSteps
<1> QED
  BY <1>1, <1>2, PTL DEF WorkerSpec

\* A worker does not claim twice for one organization before it has probed every
\* other one its scans found, whatever fails in between (scanOrganization).
THEOREM NobodyIsBypassed ==
    WorkerSpec => []NobodyBypassed
<1>1. WorkerInvariant => NobodyBypassed
  <2> SUFFICES ASSUME WorkerInvariant, NEW w \in Workers, NEW o \in worker[w].known,
                      NEW p \in Organizations, Probing(w, "claim", p),
                      p \in since[w][o], p # o
               PROVE  FALSE
    BY DEF NobodyBypassed
  <2>1. /\ Rotation(w) /\ o \in Organizations /\ worker[w].last \in Nat
    BY Numbers DEF WorkerInvariant, WorkerVarsTypeOK, WorkerRecords
  <2>2. o \in worker[w].todo
    BY <2>1 DEF Rotation, Scanning, Probing
  <2>3. /\ ScannedBefore(worker[w].last, o, p)
        /\ ScannedBefore(worker[w].last, p, o)
    BY <2>1, <2>2 DEF Rotation, Probing
  <2> QED
    BY <2>1, <2>3, Numbers, ScanOrder
<1> QED
  BY <1>1, RotationIsKept, PTL
=============================================================================
