-------------------------- MODULE RunJournal_proofs --------------------------
(***************************************************************************)
(* Proofs about RunJournal, for any pipeline, any definitions and          *)
(* workspaces and any number of invocations and faults.                    *)
(***************************************************************************)
EXTENDS RunJournal, TLAPS

-----------------------------------------------------------------------------
\* What is read from the lines of a journal, and when one more line may follow.

Digest(ls) == First(ls, "script-digest")
Tree(ls) == First(ls, "workspace-identity")
Begun(ls, s) == StartedAt(ls, s) # {}
Durable(ls) == {ls[k] : k \in Readable(ls)}

\* Lines of which a journal has one: metadata, the terminal record and, per step,
\* its finish.
Single == {"script-digest", "workspace-identity", "build-finished"}
SameKey(a, b) ==
    /\ a.kind = b.kind
    /\ a.kind \in Single \/ (a.kind = "step-finished" /\ a.step = b.step)
Unique(ls) == \A j, k \in DOMAIN ls : SameKey(ls[j], ls[k]) => j = k

Fresh(ls, r) ==
    /\ r.kind \in Single => First(ls, r.kind) = None
    /\ r.kind = "step-finished" => Finished(ls)[r.step] = None

\* What BoundariesAreEarned says of a line and those before it.
Earned(before, line) ==
    /\ line.kind = "stage-committed" =>
          \A s \in Steps : StageOf[s] <= line.step => Settled(before, s)
    /\ line.kind = "build-finished" =>
          \/ /\ \A s \in Steps : Settled(before, s)
             /\ Severity[line.value] =
                   Max({Severity[v] : v \in {Finished(before)[s] : s \in Steps} \ {None}}
                          \cup {1})
          \/ line.value = "failure" /\ NeedsReconciliation(before) # {}

-----------------------------------------------------------------------------
\* The inductive invariant: what holds of the lines and what steps left behind,
\* and of a running host, by its phase.

BoundariesOf(ls) ==
    \A k \in DOMAIN ls : Earned(SubSeq(ls, 1, k - 1), ls[k])

\* Metadata comes first; a step is carried out behind its start; what has
\* effects is the recorded workspace.
JournalOK(ls, ran, ranUnder, left, told) ==
    /\ Unique(ls)
    /\ Tree(ls) # None => Digest(ls) # None
    /\ \A s \in Steps : Begun(ls, s) \/ Finished(ls)[s] # None => Tree(ls) # None
    /\ \A s \in Steps : ran[s] = 0 \/ (ran[s] = 1 /\ Begun(ls, s))
    /\ \A b \in ranUnder : b.def = Digest(ls) /\ b.tree = Tree(ls)
    /\ \A t \in Trees : left[t].effects # {} => Tree(ls) = t
    /\ \A s \in Steps : Finished(ls)[s] \in {"success", "unstable"} =>
                            s \in left[Tree(ls)].effects
    /\ told \subseteq Durable(ls)
    /\ BoundariesOf(ls)

Preparing == {"wiping", "materializing", "opening"}
Entering == Preparing \cup {"identifying"}
AtStep == {"started", "running", "ran", "finished"}
Between == {"committing", "committed"}
Phases == Entering \cup {"walking", "starting"} \cup AtStep \cup Between \cup {"ending"}

\* The host works for the build the journal names.
Named(ls, h) ==
    /\ Terminal(ls) = None
    /\ h.digest \in {None, h.def} /\ h.workspace \in {None, h.tree}
    /\ Digest(ls) = IF h.phase \in Preparing THEN h.digest ELSE h.def
    /\ Tree(ls) = IF h.phase \in Entering THEN h.workspace ELSE h.tree
    /\ h.phase \in Preparing \ {"opening"} => h.digest = None
    /\ h.phase \in Entering => h.next = 1 /\ h.status = "success"

\* What the host read of the steps ahead is still so, and none is interrupted.
Ahead(ls, h) ==
    \A s \in Steps :
        s > h.next \/ (s = h.next /\ h.phase \notin AtStep) =>
            /\ h.finished[s] = Finished(ls)[s]
            /\ Begun(ls, s) => Finished(ls)[s] # None

\* The steps behind are settled and their worst status is the host's.
Behind(ls, h) ==
    /\ \A s \in Steps : s < h.next =>
          /\ Settled(ls, s)
          /\ Finished(ls)[s] # None => Severity[Finished(ls)[s]] <= Severity[h.status]
    /\ \/ h.status = "success"
       \/ \E s \in Steps : s < h.next /\ Finished(ls)[s] = h.status

\* The step or the boundary the host is at.
Placed(ls, h, ran, left) ==
    /\ h.phase \notin Between \cup {"ending"} => h.next \in Steps
    /\ h.phase = "starting" => h.finished[h.next] = None
    /\ h.phase \in {"started", "running", "ran"} =>
          Begun(ls, h.next) /\ Finished(ls)[h.next] = None
    /\ h.phase \in {"started", "running"} => ran[h.next] = 0
    /\ h.phase = "started" => StepStarted(h.next) \in Durable(ls)
    /\ h.phase \in {"ran", "finished"} => h.outcome \in Outcomes
    /\ h.phase = "ran" => h.next \in left[h.tree].effects
    /\ h.phase = "finished" => /\ Finished(ls)[h.next] = h.outcome
                               /\ StepFinished(h.next, h.outcome) \in Durable(ls)
    /\ h.phase \in Between => h.next - 1 \in Steps /\ LastOfStage(h.next - 1)
    /\ h.phase = "committed" => StageCommitted(StageOf[h.next - 1]) \in Durable(ls)

\* How a run ends.
Ending(ls, h) ==
    \/ Behind(ls, h) /\ \A s \in Steps : s < h.next
    \/ h.status = "failure" /\ NeedsReconciliation(ls) # {}

HostOK(ls, h, ran, left) ==
    /\ Named(ls, h)
    /\ Placed(ls, h, ran, left)
    /\ IF h.phase = "ending" THEN Ending(ls, h) ELSE Ahead(ls, h) /\ Behind(ls, h)

Hosts ==
    [phase : Phases, def : Definitions, tree : Trees, digest : Definitions \cup {None},
     workspace : Trees \cup {None}, finished : [Steps -> Outcomes \cup {None}],
     next : Nat, status : Statuses, outcome : Outcomes \cup {None}]

RunTypeOK ==
    /\ file \in [lines : Seq(Records), torn : Records \cup {None, Undecodable}]
    /\ events \subseteq Records
    /\ trees \in [Trees -> [prepared : BOOLEAN, effects : SUBSET Steps]]
    /\ host \in Hosts \cup {NoHost}
    /\ asked \in BOOLEAN
    /\ executions \in [Steps -> Nat]
    /\ builds \subseteq [def : Definitions, tree : Trees]
    /\ faults \in Nat

RunInvariant ==
    /\ RunTypeOK
    /\ JournalOK(file.lines, executions, builds, trees, events)
    /\ host # NoHost => HostOK(file.lines, host, executions, trees)
-----------------------------------------------------------------------------
\* Facts about the constants.

LEMMA SeverityFacts ==
    /\ Statuses = {"success", "unstable", "failure", "aborted"}
    /\ Severity["success"] = 1 /\ Severity["unstable"] = 2
    /\ Severity["failure"] = 3 /\ Severity["aborted"] = 4
BY SMT DEF Statuses, Severity

LEMMA NoneFacts ==
    /\ None \notin Definitions /\ None \notin Trees /\ None \notin Statuses
    /\ None \notin Outcomes /\ Outcomes \subseteq Statuses
BY NoneIsNothing, OutcomesAssumption DEF Statuses

LEMMA StepFacts ==
    /\ Len(StageOf) \in Nat \ {0} /\ Steps = 1..Len(StageOf)
    /\ \A s \in Steps : StageOf[s] \in Nat /\ s \in Nat
    /\ \A s, r \in Steps : s <= r => StageOf[s] <= StageOf[r]
    /\ \A s \in Steps : StageOf[s] \in Stages
    /\ AlwaysSteps \subseteq Steps
BY StepsAssumption, AlwaysAssumption, SMT DEF Steps, Stages

LEMMA SingletonBounds ==
    ASSUME NEW k \in Nat
    PROVE  Min({k}) = k /\ Max({k}) = k
BY SMT DEF Min, Max

LEMMA MaxIs ==
    ASSUME NEW S \in SUBSET Nat, NEW m \in S, \A y \in S : m >= y
    PROVE  Max(S) = m
<1>1. \E x \in S : \A y \in S : x >= y
  OBVIOUS
<1>2. Max(S) \in S /\ \A y \in S : Max(S) >= y
  BY <1>1 DEF Max
<1>3. Max(S) >= m /\ m >= Max(S) /\ m \in Nat /\ Max(S) \in Nat
  BY <1>2
<1> QED
  BY <1>3, SMT
-----------------------------------------------------------------------------
\* Reading lines.

\* The kinds of records, and what each holds.
LEMMA RecordKinds ==
    ASSUME NEW r \in Records
    PROVE  /\ r # Undecodable
           /\ r.kind = "script-digest" => r.value \in Definitions
           /\ r.kind = "workspace-identity" => r.value \in Trees
           /\ r.kind = "step-started" => r.step \in Steps
           /\ r.kind = "step-finished" => r.step \in Steps /\ r.value \in Outcomes
           /\ r.kind = "build-finished" => r.value \in Statuses
BY SMT DEF Records, Undecodable, ScriptDigest, WorkspaceIdentity, StepStarted, StepReason,
   StepFinished, StageCommitted, BuildFinished

LEMMA Builders ==
    /\ \A d \in Definitions : ScriptDigest(d) \in Records /\ ScriptDigest(d).kind = "script-digest"
                              /\ ScriptDigest(d).value = d
    /\ \A t \in Trees : /\ WorkspaceIdentity(t) \in Records
                        /\ WorkspaceIdentity(t).kind = "workspace-identity"
                        /\ WorkspaceIdentity(t).value = t
    /\ \A s \in Steps : /\ StepStarted(s) \in Records /\ StepStarted(s).kind = "step-started"
                        /\ StepStarted(s).step = s
                        /\ StepReason(s) \in Records /\ StepReason(s).kind = "step-reason"
    /\ \A s \in Steps, v \in Outcomes :
          /\ StepFinished(s, v) \in Records /\ StepFinished(s, v).kind = "step-finished"
          /\ StepFinished(s, v).step = s /\ StepFinished(s, v).value = v
    /\ \A g \in Stages : /\ StageCommitted(g) \in Records
                         /\ StageCommitted(g).kind = "stage-committed"
                         /\ StageCommitted(g).step = g
    /\ \A v \in Statuses : /\ BuildFinished(v) \in Records
                           /\ BuildFinished(v).kind = "build-finished"
                           /\ BuildFinished(v).value = v
<1>1. ASSUME NEW d \in Definitions PROVE ScriptDigest(d) \in Records
  BY <1>1 DEF Records
<1>2. ASSUME NEW t \in Trees PROVE WorkspaceIdentity(t) \in Records
  BY <1>2 DEF Records
<1>3. ASSUME NEW s \in Steps PROVE StepStarted(s) \in Records /\ StepReason(s) \in Records
  <2>1. StepStarted(s) \in {StepStarted(x) : x \in Steps}
    OBVIOUS
  <2>2. StepReason(s) \in {StepReason(x) : x \in Steps}
    OBVIOUS
  <2> QED
    BY <2>1, <2>2 DEF Records
<1>4. ASSUME NEW s \in Steps, NEW v \in Outcomes PROVE StepFinished(s, v) \in Records
  BY <1>4 DEF Records
<1>5. ASSUME NEW g \in Stages PROVE StageCommitted(g) \in Records
  BY <1>5 DEF Records
<1>6. ASSUME NEW v \in Statuses PROVE BuildFinished(v) \in Records
  BY <1>6 DEF Records
<1>7. /\ \A x : ScriptDigest(x).kind = "script-digest" /\ ScriptDigest(x).value = x
      /\ \A x : WorkspaceIdentity(x).kind = "workspace-identity" /\ WorkspaceIdentity(x).value = x
      /\ \A x : StepStarted(x).kind = "step-started" /\ StepStarted(x).step = x
      /\ \A x : StepReason(x).kind = "step-reason"
      /\ \A x, y : /\ StepFinished(x, y).kind = "step-finished"
                   /\ StepFinished(x, y).step = x /\ StepFinished(x, y).value = y
      /\ \A x : StageCommitted(x).kind = "stage-committed" /\ StageCommitted(x).step = x
      /\ \A x : BuildFinished(x).kind = "build-finished" /\ BuildFinished(x).value = x
  BY DEF ScriptDigest, WorkspaceIdentity, StepStarted, StepReason, StepFinished,
         StageCommitted, BuildFinished
<1> QED
  BY <1>1, <1>2, <1>3, <1>4, <1>5, <1>6, <1>7

\* Every line is readable, so a line of a kind is found wherever it is.
LEMMA ReadableAll ==
    ASSUME NEW ls \in Seq(Records)
    PROVE  /\ Readable(ls) = DOMAIN ls
           /\ \A kind : At(ls, kind) = {k \in DOMAIN ls : ls[k].kind = kind}
           /\ \A s : StartedAt(ls, s) =
                        {k \in DOMAIN ls : ls[k].kind = "step-started" /\ ls[k].step = s}
           /\ \A s : FinishedAt(ls, s) =
                        {k \in DOMAIN ls : ls[k].kind = "step-finished" /\ ls[k].step = s}
<1>1. \A k \in DOMAIN ls : ls[k] \in Records /\ ls[k] # Undecodable
  BY RecordKinds
<1>2. Readable(ls) = DOMAIN ls
  <2>1. \A k \in DOMAIN ls : \A j \in 1..k : j \in DOMAIN ls
    BY SMT
  <2> QED
    BY <1>1, <2>1 DEF Readable
<1>3. \A kind : At(ls, kind) = {k \in DOMAIN ls : ls[k].kind = kind}
  BY <1>2 DEF At
<1> QED
  BY <1>2, <1>3 DEF StartedAt, FinishedAt

\* The first line of a kind that there is once, and that there is none.
LEMMA FirstIs ==
    ASSUME NEW ls \in Seq(Records), Unique(ls), NEW kind \in Single
    PROVE  /\ \A k \in DOMAIN ls : ls[k].kind = kind => First(ls, kind) = ls[k].value
           /\ (\A k \in DOMAIN ls : ls[k].kind # kind) => First(ls, kind) = None
<1>1. At(ls, kind) = {k \in DOMAIN ls : ls[k].kind = kind}
  BY ReadableAll
<1>2. ASSUME NEW k \in DOMAIN ls, ls[k].kind = kind PROVE First(ls, kind) = ls[k].value
  <2>1. \A j \in DOMAIN ls : ls[j].kind = kind => j = k
    BY <1>2 DEF Unique, SameKey
  <2>2. At(ls, kind) = {k}
    BY <1>1, <1>2, <2>1
  <2>3. k \in Nat
    BY SMT
  <2> QED
    BY <2>2, <2>3, SingletonBounds DEF First
<1>3. ASSUME \A k \in DOMAIN ls : ls[k].kind # kind PROVE First(ls, kind) = None
  <2>1. At(ls, kind) = {}
    BY <1>1, <1>3
  <2> QED
    BY <2>1 DEF First
<1> QED
  BY <1>2, <1>3

LEMMA FirstNone ==
    ASSUME NEW ls \in Seq(Records), Unique(ls), NEW kind \in Single
    PROVE  First(ls, kind) = None <=> \A k \in DOMAIN ls : ls[k].kind # kind
<1>1. \A k \in DOMAIN ls : ls[k].kind = kind => ls[k].value # None
  BY RecordKinds, NoneFacts DEF Single
<1> QED
  BY <1>1, FirstIs

LEMMA FinishedIs ==
    ASSUME NEW ls \in Seq(Records), Unique(ls), NEW s \in Steps
    PROVE  /\ \A k \in DOMAIN ls : ls[k].kind = "step-finished" /\ ls[k].step = s =>
                  Finished(ls)[s] = ls[k].value
           /\ (\A k \in DOMAIN ls : ~(ls[k].kind = "step-finished" /\ ls[k].step = s)) =>
                  Finished(ls)[s] = None
<1>1. FinishedAt(ls, s) = {k \in DOMAIN ls : ls[k].kind = "step-finished" /\ ls[k].step = s}
  BY ReadableAll
<1>2. ASSUME NEW k \in DOMAIN ls, ls[k].kind = "step-finished" /\ ls[k].step = s
      PROVE  Finished(ls)[s] = ls[k].value
  <2>1. \A j \in DOMAIN ls : ls[j].kind = "step-finished" /\ ls[j].step = s => j = k
    BY <1>2 DEF Unique, SameKey
  <2>2. FinishedAt(ls, s) = {k}
    BY <1>1, <1>2, <2>1
  <2>3. k \in Nat
    BY SMT
  <2> QED
    BY <2>2, <2>3, SingletonBounds DEF Finished
<1>3. ASSUME \A k \in DOMAIN ls : ~(ls[k].kind = "step-finished" /\ ls[k].step = s)
      PROVE  Finished(ls)[s] = None
  <2>1. FinishedAt(ls, s) = {}
    BY <1>1, <1>3
  <2> QED
    BY <2>1 DEF Finished
<1> QED
  BY <1>2, <1>3

LEMMA FinishedNone ==
    ASSUME NEW ls \in Seq(Records), Unique(ls), NEW s \in Steps
    PROVE  /\ Finished(ls)[s] = None <=>
                  \A k \in DOMAIN ls : ~(ls[k].kind = "step-finished" /\ ls[k].step = s)
           /\ Finished(ls)[s] \in Outcomes \cup {None}
<1>1. \A k \in DOMAIN ls : ls[k].kind = "step-finished" => ls[k].value \in Outcomes
  BY RecordKinds
<1> QED
  BY <1>1, NoneFacts, FinishedIs

\* One more line changes what it says and nothing else.
LEMMA Appended ==
    ASSUME NEW ls \in Seq(Records), NEW r \in Records, NEW more, more = Append(ls, r)
    PROVE  \E n : /\ more \in Seq(Records) /\ n \notin DOMAIN ls
                  /\ DOMAIN more = DOMAIN ls \cup {n}
                  /\ more[n] = r /\ \A k \in DOMAIN ls : more[k] = ls[k]
<1> DEFINE m == Len(ls) + 1
<1>1. /\ more \in Seq(Records) /\ m \notin DOMAIN ls
      /\ DOMAIN more = DOMAIN ls \cup {m}
      /\ more[m] = r /\ \A k \in DOMAIN ls : more[k] = ls[k]
  BY SMT
<1> QED
  BY <1>1

LEMMA StaysUnique ==
    ASSUME NEW ls \in Seq(Records), Unique(ls), NEW r \in Records, Fresh(ls, r),
           NEW more, more = Append(ls, r)
    PROVE  more \in Seq(Records) /\ Unique(more)
<1>1. PICK n : /\ more \in Seq(Records) /\ n \notin DOMAIN ls
               /\ DOMAIN more = DOMAIN ls \cup {n}
               /\ more[n] = r /\ \A k \in DOMAIN ls : more[k] = ls[k]
  BY Appended
<1>2. /\ r.kind \in Single => \A k \in DOMAIN ls : ls[k].kind # r.kind
      /\ r.kind = "step-finished" =>
            \A k \in DOMAIN ls : ~(ls[k].kind = "step-finished" /\ ls[k].step = r.step)
  BY FirstNone, FinishedNone, RecordKinds DEF Fresh
<1>3. Unique(more)
  BY <1>1, <1>2, SMT DEF Unique, SameKey
<1> QED
  BY <1>1, <1>3

LEMMA FirstAfter ==
    ASSUME NEW ls \in Seq(Records), Unique(ls), NEW r \in Records, Fresh(ls, r),
           NEW more, more = Append(ls, r),
           NEW kind \in Single
    PROVE  /\ r.kind = kind => First(more, kind) = r.value
           /\ r.kind # kind => First(more, kind) = First(ls, kind)
<1>1. PICK n : /\ more \in Seq(Records) /\ n \notin DOMAIN ls
               /\ DOMAIN more = DOMAIN ls \cup {n}
               /\ more[n] = r /\ \A k \in DOMAIN ls : more[k] = ls[k]
  BY Appended
<1>3. Unique(more)
  BY StaysUnique
<1>4. /\ \A k \in DOMAIN more : more[k].kind = kind => First(more, kind) = more[k].value
      /\ (\A k \in DOMAIN more : more[k].kind # kind) => First(more, kind) = None
  BY <1>1, <1>3, FirstIs
<1>5. CASE r.kind = kind
  BY <1>1, <1>4, <1>5
<1>6. CASE r.kind # kind
  <2>1. CASE \A k \in DOMAIN ls : ls[k].kind # kind
    BY <1>1, <1>4, <1>6, <2>1, FirstIs
  <2>2. CASE \E k \in DOMAIN ls : ls[k].kind = kind
    BY <1>1, <1>4, <1>6, <2>2, FirstIs
  <2> QED
    BY <2>1, <2>2
<1> QED
  BY <1>5, <1>6

LEMMA FinishedAfter ==
    ASSUME NEW ls \in Seq(Records), Unique(ls), NEW r \in Records, Fresh(ls, r),
           NEW more, more = Append(ls, r),
           NEW s \in Steps
    PROVE  /\ r.kind = "step-finished" /\ r.step = s => Finished(more)[s] = r.value
           /\ ~(r.kind = "step-finished" /\ r.step = s) => Finished(more)[s] = Finished(ls)[s]
<1>1. PICK n : /\ more \in Seq(Records) /\ n \notin DOMAIN ls
               /\ DOMAIN more = DOMAIN ls \cup {n}
               /\ more[n] = r /\ \A k \in DOMAIN ls : more[k] = ls[k]
  BY Appended
<1>3. Unique(more)
  BY StaysUnique
<1>4. /\ \A k \in DOMAIN more : more[k].kind = "step-finished" /\ more[k].step = s =>
            Finished(more)[s] = more[k].value
      /\ (\A k \in DOMAIN more : ~(more[k].kind = "step-finished" /\ more[k].step = s)) =>
            Finished(more)[s] = None
  BY <1>1, <1>3, FinishedIs
<1>5. CASE r.kind = "step-finished" /\ r.step = s
  BY <1>1, <1>4, <1>5
<1>6. CASE ~(r.kind = "step-finished" /\ r.step = s)
  <2>1. CASE \A k \in DOMAIN ls : ~(ls[k].kind = "step-finished" /\ ls[k].step = s)
    BY <1>1, <1>4, <1>6, <2>1, FinishedIs
  <2>2. CASE \E k \in DOMAIN ls : ls[k].kind = "step-finished" /\ ls[k].step = s
    BY <1>1, <1>4, <1>6, <2>2, FinishedIs
  <2> QED
    BY <2>1, <2>2
<1> QED
  BY <1>5, <1>6

LEMMA BegunAfter ==
    ASSUME NEW ls \in Seq(Records), NEW r \in Records, NEW more, more = Append(ls, r)
    PROVE  \A s \in Steps :
              Begun(more, s) <=> Begun(ls, s) \/ (r.kind = "step-started" /\ r.step = s)
<1>1. PICK n : /\ more \in Seq(Records) /\ n \notin DOMAIN ls
               /\ DOMAIN more = DOMAIN ls \cup {n}
               /\ more[n] = r /\ \A k \in DOMAIN ls : more[k] = ls[k]
  BY Appended
<1> TAKE s \in Steps
<1>2. StartedAt(ls, s) = {k \in DOMAIN ls : ls[k].kind = "step-started" /\ ls[k].step = s}
  BY ReadableAll
<1>3. StartedAt(more, s) =
         {k \in DOMAIN more : more[k].kind = "step-started" /\ more[k].step = s}
  BY <1>1, ReadableAll
<1> QED
  BY <1>1, <1>2, <1>3 DEF Begun

LEMMA ReadsDurable ==
    ASSUME NEW ls \in Seq(Records), NEW r \in Records, NEW more, more = Append(ls, r)
    PROVE  Durable(more) = Durable(ls) \cup {r}
<1>1. PICK n : /\ more \in Seq(Records) /\ n \notin DOMAIN ls
               /\ DOMAIN more = DOMAIN ls \cup {n}
               /\ more[n] = r /\ \A k \in DOMAIN ls : more[k] = ls[k]
  BY Appended
<1>2. Readable(ls) = DOMAIN ls /\ Readable(more) = DOMAIN more
  BY <1>1, ReadableAll
<1> QED
  BY <1>1, <1>2 DEF Durable

\* The three together, of all kinds and all steps.
FirstWith(ls, more, r) ==
    \A kind \in Single : /\ r.kind = kind => First(more, kind) = r.value
                         /\ r.kind # kind => First(more, kind) = First(ls, kind)
FinishedWith(ls, more, r) ==
    \A s \in Steps :
        /\ r.kind = "step-finished" /\ r.step = s => Finished(more)[s] = r.value
        /\ ~(r.kind = "step-finished" /\ r.step = s) => Finished(more)[s] = Finished(ls)[s]
BegunWith(ls, more, r) ==
    \A s \in Steps : Begun(more, s) <=> Begun(ls, s) \/ (r.kind = "step-started" /\ r.step = s)

LEMMA Reads ==
    ASSUME NEW ls \in Seq(Records), Unique(ls), NEW r \in Records, Fresh(ls, r),
           NEW more, more = Append(ls, r)
    PROVE  FirstWith(ls, more, r) /\ FinishedWith(ls, more, r) /\ BegunWith(ls, more, r)
<1>1. FirstWith(ls, more, r)
  <2> SUFFICES ASSUME NEW kind \in Single
               PROVE  /\ r.kind = kind => First(more, kind) = r.value
                      /\ r.kind # kind => First(more, kind) = First(ls, kind)
    BY DEF FirstWith
  <2>1. r.kind = kind => First(more, kind) = r.value
    BY FirstAfter
  <2>2. r.kind # kind => First(more, kind) = First(ls, kind)
    BY FirstAfter
  <2> QED
    BY <2>1, <2>2
<1>2. FinishedWith(ls, more, r)
  <2> SUFFICES ASSUME NEW s \in Steps
               PROVE  /\ r.kind = "step-finished" /\ r.step = s => Finished(more)[s] = r.value
                      /\ ~(r.kind = "step-finished" /\ r.step = s) =>
                            Finished(more)[s] = Finished(ls)[s]
    BY DEF FinishedWith
  <2> QED
    BY FinishedAfter
<1>3. BegunWith(ls, more, r)
  BY BegunAfter DEF BegunWith
<1> QED
  BY <1>1, <1>2, <1>3

-----------------------------------------------------------------------------
\* One more line.

\* What a line needs to be written.
Permitted(ls, r, left) ==
    /\ Fresh(ls, r)
    /\ r.kind = "workspace-identity" => Digest(ls) # None
    /\ r.kind \in {"step-started", "step-finished"} => Tree(ls) # None
    /\ r.kind = "step-finished" /\ r.value \in {"success", "unstable"} =>
          r.step \in left[Tree(ls)].effects
    /\ Earned(ls, r)

LEMMA BoundariesGrow ==
    ASSUME NEW ls \in Seq(Records), NEW r \in Records, BoundariesOf(ls), Earned(ls, r)
    PROVE  BoundariesOf(Append(ls, r))
<1> SUFFICES ASSUME NEW k \in DOMAIN Append(ls, r)
             PROVE  Earned(SubSeq(Append(ls, r), 1, k - 1), Append(ls, r)[k])
  BY DEF BoundariesOf
<1>1. CASE k = Len(ls) + 1
  <2>1. Append(ls, r)[k] = r
    BY <1>1, SMT
  <2>2. SubSeq(Append(ls, r), 1, k - 1) = ls
    BY <1>1, SMT
  <2> QED
    BY <2>1, <2>2
<1>2. CASE k # Len(ls) + 1
  <2>1. k \in DOMAIN ls /\ k \in 1..Len(ls)
    BY <1>2, SMT
  <2>2. Append(ls, r)[k] = ls[k]
    BY <2>1, SMT
  <2>3. SubSeq(Append(ls, r), 1, k - 1) = SubSeq(ls, 1, k - 1)
    BY <2>1, SMT
  <2> QED
    BY <2>1, <2>2, <2>3 DEF BoundariesOf
<1> QED
  BY <1>1, <1>2

LEMMA JournalGrows ==
    ASSUME NEW ls \in Seq(Records), NEW r \in Records,
           NEW ran, NEW ranUnder, NEW left, NEW told,
           JournalOK(ls, ran, ranUnder, left, told), Permitted(ls, r, left),
           \A b \in ranUnder : b.def # None /\ b.tree # None
    PROVE  JournalOK(Append(ls, r), ran, ranUnder, left, told)
<1>m. PICK more : more = Append(ls, r)
  OBVIOUS
<1>u. Unique(ls) /\ Fresh(ls, r)
  BY DEF JournalOK, Permitted
<1>1. Unique(more) /\ Durable(more) = Durable(ls) \cup {r}
  BY <1>u, <1>m, StaysUnique, ReadsDurable
<1>r. FirstWith(ls, more, r) /\ FinishedWith(ls, more, r) /\ BegunWith(ls, more, r)
  BY <1>u, <1>m, Reads
<1>b. \A s \in Steps :
         Begun(more, s) <=> Begun(ls, s) \/ (r.kind = "step-started" /\ r.step = s)
  BY <1>r DEF BegunWith
<1>f. \A s \in Steps :
         /\ r.kind = "step-finished" /\ r.step = s => Finished(more)[s] = r.value
         /\ ~(r.kind = "step-finished" /\ r.step = s) => Finished(more)[s] = Finished(ls)[s]
  BY <1>r DEF FinishedWith
<1>2. BoundariesOf(more)
  BY <1>m, BoundariesGrow DEF JournalOK, Permitted
<1>3. /\ Digest(more) = IF r.kind = "script-digest" THEN r.value ELSE Digest(ls)
      /\ Tree(more) = IF r.kind = "workspace-identity" THEN r.value ELSE Tree(ls)
  BY <1>r DEF FirstWith, Digest, Tree, Single
<1>4. /\ r.kind = "script-digest" => Digest(ls) = None /\ r.value # None
      /\ r.kind = "workspace-identity" => Tree(ls) = None /\ r.value # None
  BY <1>u, RecordKinds, NoneFacts DEF Fresh, Digest, Tree, Single
<1>5. Tree(more) # None => Digest(more) # None
  BY <1>3, <1>4 DEF JournalOK, Permitted
<1>6. \A s \in Steps : Begun(more, s) \/ Finished(more)[s] # None => Tree(more) # None
  BY <1>b, <1>3, <1>4, <1>f DEF JournalOK, Permitted
<1>7. \A s \in Steps : ran[s] = 0 \/ (ran[s] = 1 /\ Begun(more, s))
  BY <1>b DEF JournalOK
<1>8. \A b \in ranUnder : b.def = Digest(more) /\ b.tree = Tree(more)
  BY <1>3, <1>4 DEF JournalOK
<1>9. \A t \in Trees : left[t].effects # {} => Tree(more) = t
  BY <1>3, <1>4, NoneFacts DEF JournalOK
<1>10. ASSUME NEW s \in Steps, Finished(more)[s] \in {"success", "unstable"}
       PROVE  s \in left[Tree(more)].effects
  <2>1. CASE r.kind = "step-finished" /\ r.step = s
    BY <1>3, <1>f, <1>10, <2>1 DEF Permitted
  <2>2. CASE ~(r.kind = "step-finished" /\ r.step = s)
    <3>1. Finished(ls)[s] \in {"success", "unstable"}
      BY <1>f, <1>10, <2>2
    <3>2. "success" # None /\ "unstable" # None
      BY NoneFacts, SeverityFacts
    <3>3. Tree(ls) # None /\ s \in left[Tree(ls)].effects
      BY <3>1, <3>2 DEF JournalOK
    <3> QED
      BY <1>3, <1>4, <3>3
  <2> QED
    BY <2>1, <2>2
<1>11. told \subseteq Durable(more)
  BY <1>1 DEF JournalOK
<1> QED
  BY <1>m, <1>1, <1>2, <1>5, <1>6, <1>7, <1>8, <1>9, <1>10, <1>11 DEF JournalOK

-----------------------------------------------------------------------------
\* What a host knows, as the journal grows.

LEMMA Interrupted ==
    ASSUME NEW ls \in Seq(Records), Unique(ls)
    PROVE  NeedsReconciliation(ls) = {s \in Steps : Begun(ls, s) /\ Finished(ls)[s] = None}
<1>1. ASSUME NEW s \in Steps PROVE FinishedAt(ls, s) = {} <=> Finished(ls)[s] = None
  <2>1. FinishedAt(ls, s) = {k \in DOMAIN ls : ls[k].kind = "step-finished" /\ ls[k].step = s}
    BY ReadableAll
  <2>2. Finished(ls)[s] = None <=>
           \A k \in DOMAIN ls : ~(ls[k].kind = "step-finished" /\ ls[k].step = s)
    BY FinishedNone
  <2> QED
    BY <2>1, <2>2
<1> QED
  BY <1>1 DEF NeedsReconciliation, Begun

\* A status that is durable stays, and what is settled by it.
LEMMA SettledStays ==
    ASSUME NEW ls, NEW more,
           \A s \in Steps : Finished(ls)[s] # None => Finished(more)[s] = Finished(ls)[s]
    PROVE  \A s \in Steps : Settled(ls, s) => Settled(more, s)
<1>1. "failure" # None /\ "aborted" # None
  BY NoneFacts, SeverityFacts
<1>2. \A s \in Steps : FailedBefore(ls, s) => FailedBefore(more, s)
  BY <1>1 DEF FailedBefore
<1> QED
  BY <1>2 DEF Settled

\* A line that no step begins or ends with.
Bystander == {"script-digest", "workspace-identity", "step-reason", "stage-committed",
              "build-finished"}

SameOfSteps(ls, more) ==
    /\ \A s \in Steps : Finished(more)[s] = Finished(ls)[s]
    /\ \A s \in Steps : Begun(more, s) <=> Begun(ls, s)

LEMMA NothingOfSteps ==
    ASSUME NEW ls \in Seq(Records), Unique(ls), NEW r \in Records, Fresh(ls, r),
           NEW more, more = Append(ls, r), r.kind \in Bystander
    PROVE  SameOfSteps(ls, more)
<1>1. r.kind # "step-finished" /\ r.kind # "step-started"
  BY DEF Bystander
<1>2. FinishedWith(ls, more, r) /\ BegunWith(ls, more, r)
  BY Reads
<1>3. \A s \in Steps : Finished(more)[s] = Finished(ls)[s]
  BY <1>1, <1>2 DEF FinishedWith
<1>4. \A s \in Steps : Begun(more, s) <=> Begun(ls, s)
  BY <1>1, <1>2 DEF BegunWith
<1> QED
  BY <1>3, <1>4 DEF SameOfSteps

LEMMA SameSteps ==
    ASSUME NEW ls, NEW more, NEW h, SameOfSteps(ls, more)
    PROVE  /\ Ahead(ls, h) => Ahead(more, h)
           /\ Behind(ls, h) => Behind(more, h)
<1>1. \A s \in Steps : Settled(ls, s) => Settled(more, s)
  BY SettledStays DEF SameOfSteps
<1>2. Ahead(ls, h) => Ahead(more, h)
  BY DEF Ahead, SameOfSteps
<1>3. Behind(ls, h) => Behind(more, h)
  BY <1>1 DEF Behind, SameOfSteps
<1> QED
  BY <1>2, <1>3

-----------------------------------------------------------------------------
\* What a step starts from.

Files == [lines : Seq(Records), torn : Records \cup {None, Undecodable}]

LEMMA WhatIsThere ==
    ASSUME RunInvariant
    PROVE  /\ RunTypeOK /\ file \in Files /\ file.lines \in Seq(Records)
           /\ Unique(file.lines)
           /\ JournalOK(file.lines, executions, builds, trees, events)
           /\ \A b \in builds : b.def # None /\ b.tree # None
<1>1. file \in Files /\ builds \subseteq [def : Definitions, tree : Trees]
  BY DEF RunInvariant, RunTypeOK, Files
<1>2. file.lines \in Seq(Records)
  BY <1>1 DEF Files
<1>3. \A b \in builds : b.def # None /\ b.tree # None
  BY <1>1, NoneFacts
<1> QED
  BY <1>1, <1>2, <1>3 DEF RunInvariant, JournalOK

LEMMA TheHost ==
    ASSUME RunInvariant, host.phase # "none"
    PROVE  /\ host # NoHost /\ host \in Hosts /\ host.phase \in Phases
           /\ host.def \in Definitions /\ host.tree \in Trees /\ host.next \in Nat
           /\ host.status \in Statuses
           /\ HostOK(file.lines, host, executions, trees)
           /\ Named(file.lines, host)
           /\ Placed(file.lines, host, executions, trees)
           /\ host.phase # "ending" =>
                 Ahead(file.lines, host) /\ Behind(file.lines, host)
           /\ host.phase = "ending" => Ending(file.lines, host)
<1>1. host # NoHost
  BY DEF NoHost
<1>2. host \in Hosts /\ HostOK(file.lines, host, executions, trees)
  BY <1>1 DEF RunInvariant, RunTypeOK
<1>3. /\ host.phase \in Phases /\ host.def \in Definitions /\ host.tree \in Trees
      /\ host.next \in Nat /\ host.status \in Statuses
  BY <1>2 DEF Hosts
<1> QED
  BY <1>1, <1>2, <1>3 DEF HostOK

LEMMA Goes ==
    ASSUME NEW h \in Hosts, NEW p \in Phases, NEW g, g = [h EXCEPT !.phase = p]
    PROVE  /\ g \in Hosts /\ g # NoHost /\ g.phase = p
           /\ g.def = h.def /\ g.tree = h.tree /\ g.digest = h.digest
           /\ g.workspace = h.workspace /\ g.finished = h.finished
           /\ g.next = h.next /\ g.status = h.status /\ g.outcome = h.outcome
<1>1. g \in Hosts
  BY Zenon DEF Hosts
<1>2. /\ g.phase = p
      /\ g.def = h.def /\ g.tree = h.tree /\ g.digest = h.digest
      /\ g.workspace = h.workspace /\ g.finished = h.finished
      /\ g.next = h.next /\ g.status = h.status /\ g.outcome = h.outcome
  BY DEF Hosts
<1>3. p # "none"
  BY DEF Phases, Entering, Preparing, AtStep, Between
<1> QED
  BY <1>1, <1>2, <1>3 DEF NoHost

\* One write of one record.
LEMMA Writes ==
    ASSUME NEW f \in Files, NEW r \in Records
    PROVE  /\ AppendGroup(f, <<r>>) \in Files
           /\ AppendGroup(f, <<r>>).lines = Append(f.lines, r)
<1>1. f.lines \in Seq(Records)
  BY DEF Files
<1>2. RepairTail(f).torn = None /\ RepairTail(f).lines = f.lines
  BY DEF RepairTail, Files
<1>3. f.lines \o <<r>> = Append(f.lines, r) /\ Append(f.lines, r) \in Seq(Records)
  BY <1>1, SMT
<1>4. AppendGroup(f, <<r>>) = [lines |-> Append(f.lines, r), torn |-> None]
  BY <1>2, <1>3 DEF AppendGroup
<1>5. PICK more : more = Append(f.lines, r)
  OBVIOUS
<1>6. more \in Seq(Records) /\ AppendGroup(f, <<r>>) = [lines |-> more, torn |-> None]
  BY <1>3, <1>4, <1>5
<1>7. [lines |-> more, torn |-> None] \in Files /\ [lines |-> more, torn |-> None].lines = more
  BY <1>6 DEF Files
<1> QED
  BY <1>5, <1>6, <1>7

LEMMA WritesTwo ==
    ASSUME NEW f \in Files, NEW r \in Records, NEW q \in Records
    PROVE  /\ AppendGroup(f, <<r, q>>) \in Files
           /\ AppendGroup(f, <<r, q>>).lines = Append(Append(f.lines, r), q)
<1>1. f.lines \in Seq(Records)
  BY DEF Files
<1>2. RepairTail(f).torn = None /\ RepairTail(f).lines = f.lines
  BY DEF RepairTail, Files
<1>3. /\ f.lines \o <<r, q>> = Append(Append(f.lines, r), q)
      /\ Append(Append(f.lines, r), q) \in Seq(Records)
  <2>1. PICK ls : ls = f.lines /\ ls \in Seq(Records)
    BY <1>1
  <2>2. PICK a : a = ls \o <<r, q>>
    OBVIOUS
  <2>3. PICK b : b = Append(ls, r)
    OBVIOUS
  <2>4. PICK c : c = Append(b, q)
    OBVIOUS
  <2>5. b \in Seq(Records) /\ Len(b) = Len(ls) + 1 /\ b[Len(ls) + 1] = r
        /\ \A k \in 1..Len(ls) : b[k] = ls[k]
    BY <2>1, <2>3, SMT
  <2>6. c \in Seq(Records) /\ Len(c) = Len(b) + 1 /\ c[Len(b) + 1] = q
        /\ \A k \in 1..Len(b) : c[k] = b[k]
    BY <2>4, <2>5, SMT
  <2>7. a \in Seq(Records) /\ Len(a) = Len(ls) + 2 /\ a[Len(ls) + 1] = r
        /\ a[Len(ls) + 2] = q /\ \A k \in 1..Len(ls) : a[k] = ls[k]
    BY <2>1, <2>2, SMT
  <2>8. Len(a) = Len(c) /\ \A k \in 1..Len(a) : a[k] = c[k]
    <3>1. Len(ls) \in Nat /\ Len(b) = Len(ls) + 1 /\ Len(c) = Len(ls) + 2
      BY <2>1, <2>5, <2>6
    <3>2. c[Len(ls) + 1] = r /\ c[Len(ls) + 2] = q
      BY <2>5, <2>6, <3>1
    <3>3. \A k \in 1..Len(ls) : c[k] = ls[k]
      BY <2>5, <2>6, <3>1
    <3>4. \A k \in 1..Len(a) : k \in 1..Len(ls) \/ k = Len(ls) + 1 \/ k = Len(ls) + 2
      BY <2>7, <3>1
    <3> QED
      BY <2>7, <3>1, <3>2, <3>3, <3>4
  <2>9. a = c
    BY <2>6, <2>7, <2>8, SMT
  <2> QED
    BY <2>1, <2>2, <2>3, <2>4, <2>6, <2>9
<1>4. AppendGroup(f, <<r, q>>) = [lines |-> Append(Append(f.lines, r), q), torn |-> None]
  <2> DEFINE group == <<r, q>>
  <2>1. f.lines \o group = Append(Append(f.lines, r), q)
    BY <1>3
  <2> HIDE DEF group
  <2>2. AppendGroup(f, group) = [lines |-> f.lines \o group, torn |-> None]
    BY <1>2 DEF AppendGroup
  <2> QED
    BY <2>1, <2>2 DEF group
<1>5. PICK more : more = Append(Append(f.lines, r), q)
  OBVIOUS
<1>6. more \in Seq(Records) /\ AppendGroup(f, <<r, q>>) = [lines |-> more, torn |-> None]
  BY <1>3, <1>4, <1>5
<1>7. [lines |-> more, torn |-> None] \in Files /\ [lines |-> more, torn |-> None].lines = more
  BY <1>6 DEF Files
<1> QED
  BY <1>5, <1>6, <1>7

-----------------------------------------------------------------------------
\* A host records for which build it works.

\* RunInvariant of the next state, from its parts.
LEMMA ForNext ==
    ASSUME RunTypeOK',
           JournalOK(file'.lines, executions', builds', trees', events'),
           host' # NoHost => HostOK(file'.lines, host', executions', trees')
    PROVE  RunInvariant'
  BY DEF RunInvariant

\* A host writes a line that no step begins or ends with.
LEMMA WritesBystander ==
    ASSUME RunInvariant, NEW r \in Records, r.kind \in Bystander,
           Record(host), Pending(host) = <<r>>, Permitted(file.lines, r, trees),
           NEW ls, ls = file.lines, NEW more, more = file'.lines
    PROVE  /\ file' \in Files
           /\ JournalOK(more, executions, builds, trees, events)
           /\ SameOfSteps(ls, more)
           /\ Durable(more) = Durable(ls) \cup {r}
           /\ Digest(more) = IF r.kind = "script-digest" THEN r.value ELSE Digest(ls)
           /\ Tree(more) = IF r.kind = "workspace-identity" THEN r.value ELSE Tree(ls)
           /\ Terminal(more) = IF r.kind = "build-finished" THEN r.value ELSE Terminal(ls)
<1>w. /\ file \in Files /\ file.lines \in Seq(Records) /\ Unique(file.lines)
      /\ JournalOK(file.lines, executions, builds, trees, events)
      /\ \A b \in builds : b.def # None /\ b.tree # None
  BY WhatIsThere
<1>f. Fresh(ls, r)
  BY DEF Permitted
<1>1. file' \in Files /\ more = Append(ls, r)
  <2>1. <<r>> # <<>>
    OBVIOUS
  <2>2. file' = AppendGroup(file, <<r>>)
    BY <2>1 DEF Record
  <2>3. /\ AppendGroup(file, <<r>>) \in Files
        /\ AppendGroup(file, <<r>>).lines = Append(file.lines, r)
    BY <1>w, Writes
  <2> QED
    BY <2>2, <2>3
<1>2. JournalOK(more, executions, builds, trees, events)
  BY <1>w, <1>1, JournalGrows
<1>3. SameOfSteps(ls, more)
  BY <1>w, <1>1, <1>f, NothingOfSteps
<1>4. Durable(more) = Durable(ls) \cup {r}
  BY <1>w, <1>1, <1>f, ReadsDurable
<1>5. FirstWith(ls, more, r)
  BY <1>w, <1>1, <1>f, Reads
<1>6. /\ Digest(more) = IF r.kind = "script-digest" THEN r.value ELSE Digest(ls)
      /\ Tree(more) = IF r.kind = "workspace-identity" THEN r.value ELSE Tree(ls)
      /\ Terminal(more) = IF r.kind = "build-finished" THEN r.value ELSE Terminal(ls)
  BY <1>5 DEF FirstWith, Digest, Tree, Terminal, Single
<1> QED
  BY <1>1, <1>2, <1>3, <1>4, <1>6

LEMMA DigestStep == ASSUME RunInvariant, RecordDigest PROVE RunInvariant'
<1>p. /\ host.phase = "opening" /\ Record(host)
      /\ host' = [host EXCEPT !.phase = "identifying"]
      /\ UNCHANGED <<events, trees, asked, executions, builds, faults>>
  BY DEF RecordDigest
<1>h. /\ host # NoHost /\ host \in Hosts /\ host.def \in Definitions /\ host.tree \in Trees
      /\ Named(file.lines, host) /\ Placed(file.lines, host, executions, trees)
      /\ Ahead(file.lines, host) /\ Behind(file.lines, host)
  BY <1>p, TheHost
<1>w. /\ RunTypeOK /\ file \in Files /\ file.lines \in Seq(Records) /\ Unique(file.lines)
      /\ JournalOK(file.lines, executions, builds, trees, events)
      /\ \A b \in builds : b.def # None /\ b.tree # None
  BY WhatIsThere
<1>k. "identifying" \in Phases
  BY DEF Phases, Entering
<1>g. /\ host' \in Hosts /\ host' # NoHost /\ host'.phase = "identifying"
      /\ host'.def = host.def /\ host'.tree = host.tree /\ host'.digest = host.digest
      /\ host'.workspace = host.workspace /\ host'.finished = host.finished
      /\ host'.next = host.next /\ host'.status = host.status
  BY <1>p, <1>h, <1>k, Goes
<1>1. PICK ls : ls = file.lines
  OBVIOUS
<1>2. PICK more : more = file'.lines
  OBVIOUS
<1>n. /\ host.digest \in {None, host.def} /\ Digest(ls) = host.digest
      /\ Tree(ls) = host.workspace /\ Terminal(ls) = None
      /\ host.workspace \in {None, host.tree} /\ host.next = 1 /\ host.status = "success"
  BY <1>p, <1>h, <1>1 DEF Named, Preparing, Entering
<1>3. /\ file' \in Files
      /\ JournalOK(more, executions, builds, trees, events)
      /\ Digest(more) = host.def /\ Tree(more) = Tree(ls) /\ Terminal(more) = Terminal(ls)
      /\ SameOfSteps(ls, more)
  <2>1. CASE host.digest = None
    <3>1. PICK r : r = ScriptDigest(host.def)
      OBVIOUS
    <3>2. r \in Records /\ r.kind = "script-digest" /\ r.value = host.def
      BY <1>h, <3>1, Builders
    <3>3. Pending(host) = <<r>>
      BY <1>p, <2>1, <3>1 DEF Pending
    <3>5. Fresh(ls, r) /\ r.kind \in Bystander
      BY <1>n, <2>1, <3>2 DEF Fresh, Digest, Single, Bystander
    <3>6. Permitted(ls, r, trees)
      BY <3>2, <3>5 DEF Permitted, Earned
    <3> QED
      BY <1>p, <1>1, <1>2, <3>2, <3>3, <3>5, <3>6, WritesBystander
  <2>2. CASE host.digest # None
    <3>1. Pending(host) = <<>>
      BY <1>p, <2>2 DEF Pending
    <3>2. file' = file /\ more = ls
      BY <1>p, <1>1, <1>2, <3>1 DEF Record
    <3> QED
      BY <1>w, <1>n, <1>1, <2>2, <3>2 DEF SameOfSteps
  <2> QED
    BY <2>1, <2>2
<1>4. Named(more, host')
  BY <1>n, <1>g, <1>3 DEF Named, Preparing, Entering
<1>5. Placed(more, host', executions, trees)
  BY <1>p, <1>h, <1>g DEF Placed, Between
<1>6. Ahead(more, host) /\ Behind(more, host)
  BY <1>h, <1>1, <1>3, SameSteps
<1>7. Ahead(more, host') /\ Behind(more, host')
  BY <1>p, <1>6, <1>g DEF Ahead, Behind, AtStep
<1>8. HostOK(more, host', executions, trees)
  BY <1>4, <1>5, <1>7, <1>g DEF HostOK
<1>9. RunTypeOK'
  BY <1>p, <1>w, <1>3, <1>g DEF RunTypeOK, Files
<1> QED
  BY <1>p, <1>2, <1>3, <1>8, <1>9, ForNext

LEMMA WorkspaceStep == ASSUME RunInvariant, RecordWorkspace PROVE RunInvariant'
<1>p. /\ host.phase = "identifying" /\ Record(host)
      /\ host' = [host EXCEPT !.phase = "walking"]
      /\ UNCHANGED <<events, trees, asked, executions, builds, faults>>
  BY DEF RecordWorkspace
<1>h. /\ host # NoHost /\ host \in Hosts /\ host.def \in Definitions /\ host.tree \in Trees
      /\ Named(file.lines, host) /\ Placed(file.lines, host, executions, trees)
      /\ Ahead(file.lines, host) /\ Behind(file.lines, host)
  BY <1>p, TheHost
<1>w. /\ RunTypeOK /\ file \in Files /\ file.lines \in Seq(Records) /\ Unique(file.lines)
      /\ JournalOK(file.lines, executions, builds, trees, events)
      /\ \A b \in builds : b.def # None /\ b.tree # None
  BY WhatIsThere
<1>k. "walking" \in Phases
  BY DEF Phases
<1>g. /\ host' \in Hosts /\ host' # NoHost /\ host'.phase = "walking"
      /\ host'.def = host.def /\ host'.tree = host.tree /\ host'.digest = host.digest
      /\ host'.workspace = host.workspace /\ host'.finished = host.finished
      /\ host'.next = host.next /\ host'.status = host.status
  BY <1>p, <1>h, <1>k, Goes
<1>1. PICK ls : ls = file.lines
  OBVIOUS
<1>2. PICK more : more = file'.lines
  OBVIOUS
<1>n. /\ host.digest \in {None, host.def} /\ Digest(ls) = host.def
      /\ Tree(ls) = host.workspace /\ Terminal(ls) = None
      /\ host.workspace \in {None, host.tree} /\ host.next = 1 /\ host.status = "success"
  BY <1>p, <1>h, <1>1 DEF Named, Preparing, Entering
<1>3. /\ file' \in Files
      /\ JournalOK(more, executions, builds, trees, events)
      /\ Digest(more) = Digest(ls) /\ Tree(more) = host.tree /\ Terminal(more) = Terminal(ls)
      /\ SameOfSteps(ls, more)
  <2>1. CASE host.workspace = None
    <3>1. PICK r : r = WorkspaceIdentity(host.tree)
      OBVIOUS
    <3>2. r \in Records /\ r.kind = "workspace-identity" /\ r.value = host.tree
      BY <1>h, <3>1, Builders
    <3>3. Pending(host) = <<r>>
      BY <1>p, <2>1, <3>1 DEF Pending
    <3>5. Fresh(ls, r) /\ r.kind \in Bystander
      BY <1>n, <2>1, <3>2 DEF Fresh, Tree, Single, Bystander
    <3>6. Permitted(ls, r, trees)
      BY <1>h, <1>n, <3>2, <3>5, NoneFacts DEF Permitted, Earned
    <3> QED
      BY <1>p, <1>1, <1>2, <3>2, <3>3, <3>5, <3>6, WritesBystander
  <2>2. CASE host.workspace # None
    <3>1. Pending(host) = <<>>
      BY <1>p, <2>2 DEF Pending
    <3>2. file' = file /\ more = ls
      BY <1>p, <1>1, <1>2, <3>1 DEF Record
    <3> QED
      BY <1>w, <1>n, <1>1, <2>2, <3>2 DEF SameOfSteps
  <2> QED
    BY <2>1, <2>2
<1>4. Named(more, host')
  BY <1>n, <1>g, <1>3 DEF Named, Preparing, Entering
<1>5. Placed(more, host', executions, trees)
  BY <1>p, <1>h, <1>g DEF Placed, Between
<1>6. Ahead(more, host) /\ Behind(more, host)
  BY <1>h, <1>1, <1>3, SameSteps
<1>7. Ahead(more, host') /\ Behind(more, host')
  BY <1>p, <1>6, <1>g DEF Ahead, Behind, AtStep
<1>8. HostOK(more, host', executions, trees)
  BY <1>4, <1>5, <1>7, <1>g DEF HostOK
<1>9. RunTypeOK'
  BY <1>p, <1>w, <1>3, <1>g DEF RunTypeOK, Files
<1> QED
  BY <1>p, <1>2, <1>3, <1>8, <1>9, ForNext

-----------------------------------------------------------------------------
\* The step loop goes past a step.

LEMMA PastIs ==
    ASSUME NEW h \in Hosts, h.next \in Steps, NEW g, g = Past(h, h.next)
    PROVE  /\ g \in Hosts /\ g # NoHost /\ g.next = h.next + 1
           /\ g.phase = IF LastOfStage(h.next) THEN "committing" ELSE "walking"
           /\ g.def = h.def /\ g.tree = h.tree /\ g.digest = h.digest
           /\ g.workspace = h.workspace /\ g.finished = h.finished
           /\ g.status = h.status /\ g.outcome = h.outcome
<1>1. PICK p : p = IF LastOfStage(h.next) THEN "committing" ELSE "walking"
  OBVIOUS
<1>2. p \in Phases
  BY <1>1 DEF Phases, Between
<1>3. PICK n : n = h.next + 1
  OBVIOUS
<1>4. n \in Nat
  BY <1>3, StepFacts
<1>5. g = [h EXCEPT !.next = n, !.phase = p]
  BY <1>1, <1>3 DEF Past
<1>6. g \in Hosts
  BY <1>2, <1>4, <1>5, Zenon DEF Hosts
<1>7. /\ g.next = n /\ g.phase = p
      /\ g.def = h.def /\ g.tree = h.tree /\ g.digest = h.digest
      /\ g.workspace = h.workspace /\ g.finished = h.finished
      /\ g.status = h.status /\ g.outcome = h.outcome
  BY <1>5 DEF Hosts
<1>8. g # NoHost
  BY <1>1, <1>7 DEF NoHost
<1> QED
  BY <1>1, <1>3, <1>6, <1>7, <1>8

LEMMA Advances ==
    ASSUME NEW ls \in Seq(Records), Unique(ls), NEW h \in Hosts,
           h.next \in Steps, h.phase \in {"walking", "finished"},
           Named(ls, h), Ahead(ls, h), Behind(ls, h), Settled(ls, h.next),
           NEW g \in Hosts, g.next = h.next + 1,
           g.phase = (IF LastOfStage(h.next) THEN "committing" ELSE "walking"),
           g.def = h.def, g.tree = h.tree, g.digest = h.digest,
           g.workspace = h.workspace, g.finished = h.finished,
           \/ Finished(ls)[h.next] = None /\ g.status = h.status
           \/ /\ Finished(ls)[h.next] # None
              /\ g.status = WorstOf(h.status, Finished(ls)[h.next]),
           NEW ran, NEW left
    PROVE  HostOK(ls, g, ran, left)
<1>t. h.next \in Nat /\ \A s \in Steps : s \in Nat
  BY StepFacts
<1>1. Named(ls, g)
  BY DEF Named, Preparing, Entering
<1>2. Ahead(ls, g)
  <2>1. ASSUME NEW s \in Steps, s > g.next \/ (s = g.next /\ g.phase \notin AtStep)
        PROVE  s > h.next
    BY <1>t, <2>1
  <2> QED
    BY <2>1 DEF Ahead
<1>3. Placed(ls, g, ran, left)
  <2>1. CASE LastOfStage(h.next)
    <3>1. g.next - 1 = h.next /\ g.phase = "committing"
      BY <1>t, <2>1
    <3> QED
      BY <2>1, <3>1 DEF Placed, Between
  <2>2. CASE ~LastOfStage(h.next)
    <3>1. g.next \in Steps /\ g.phase = "walking"
      BY <2>2 DEF LastOfStage
    <3> QED
      BY <3>1 DEF Placed, Between
  <2> QED
    BY <2>1, <2>2
<1>4. Behind(ls, g)
  <2>0. \A s \in Steps : s < g.next => s < h.next \/ s = h.next
    BY <1>t
  <2>1. \A s \in Steps : s < g.next => Settled(ls, s)
    BY <2>0 DEF Behind
  <2>2. h.status \in Statuses /\ g.status \in Statuses
    BY DEF Hosts
  <2>3. \A s \in Steps : Finished(ls)[s] # None => Finished(ls)[s] \in Statuses
    BY FinishedNone, NoneFacts
  <2>4. \A v \in Statuses : Severity[v] \in Nat
    BY SeverityFacts
  <2>5. /\ Severity[h.status] <= Severity[g.status]
        /\ Finished(ls)[h.next] # None =>
              Severity[Finished(ls)[h.next]] <= Severity[g.status]
    BY <2>2, <2>3, <2>4 DEF WorstOf
  <2>6. \A s \in Steps : s < g.next /\ Finished(ls)[s] # None =>
            Severity[Finished(ls)[s]] <= Severity[g.status]
    <3> SUFFICES ASSUME NEW s \in Steps, s < g.next, Finished(ls)[s] # None
                 PROVE  Severity[Finished(ls)[s]] <= Severity[g.status]
      OBVIOUS
    <3>1. CASE s = h.next
      BY <2>5, <3>1
    <3>2. CASE s < h.next
      <4>1. Severity[Finished(ls)[s]] <= Severity[h.status]
        BY <3>2 DEF Behind
      <4>2. /\ Severity[Finished(ls)[s]] \in Nat /\ Severity[h.status] \in Nat
            /\ Severity[g.status] \in Nat
        BY <2>2, <2>3, <2>4
      <4> QED
        BY <2>5, <4>1, <4>2
    <3> QED
      BY <2>0, <3>1, <3>2
  <2>7. \/ g.status = "success"
        \/ \E s \in Steps : s < g.next /\ Finished(ls)[s] = g.status
    <3>1. CASE g.status = h.status
      <4>1. \A s \in Steps : s < h.next => s < g.next
        BY <1>t
      <4> QED
        BY <3>1, <4>1 DEF Behind
    <3>2. CASE g.status # h.status
      <4>1. g.status = Finished(ls)[h.next]
        BY <3>2 DEF WorstOf
      <4>2. h.next < g.next
        BY <1>t
      <4> QED
        BY <4>1, <4>2
    <3> QED
      BY <3>1, <3>2
  <2> QED
    BY <2>1, <2>6, <2>7 DEF Behind
<1>5. g.phase # "ending"
  OBVIOUS
<1> QED
  BY <1>1, <1>2, <1>3, <1>4, <1>5 DEF HostOK

LEMMA SkipStep == ASSUME RunInvariant, SkipFinished PROVE RunInvariant'
<1>p. /\ host.phase = "walking" /\ host.finished[host.next] # None
      /\ host' = Past([host EXCEPT !.status =
                          Folded(host.status, host.finished[host.next])], host.next)
      /\ UNCHANGED <<file, events, trees, asked, executions, builds, faults>>
  BY DEF SkipFinished
<1>h. /\ host # NoHost /\ host \in Hosts /\ host.status \in Statuses
      /\ Named(file.lines, host) /\ Placed(file.lines, host, executions, trees)
      /\ Ahead(file.lines, host) /\ Behind(file.lines, host)
  BY <1>p, TheHost
<1>w. RunTypeOK /\ file.lines \in Seq(Records) /\ Unique(file.lines)
      /\ JournalOK(file.lines, executions, builds, trees, events)
  BY WhatIsThere
<1>1. host.next \in Steps
  BY <1>p, <1>h DEF Placed, Between
<1>2. host.finished[host.next] = Finished(file.lines)[host.next]
  BY <1>p, <1>h, <1>1 DEF Ahead, AtStep
<1>3. Finished(file.lines)[host.next] \in Statuses
  BY <1>p, <1>w, <1>1, <1>2, FinishedNone, NoneFacts
<1>4. PICK v : v = WorstOf(host.status, Finished(file.lines)[host.next])
  OBVIOUS
<1>5. v \in Statuses
  BY <1>h, <1>3, <1>4 DEF WorstOf
<1>6. PICK h : h = [host EXCEPT !.status = v]
  OBVIOUS
<1>7. h \in Hosts
  BY <1>h, <1>5, <1>6, Zenon DEF Hosts
<1>8. /\ h.status = v /\ h.phase = host.phase /\ h.next = host.next
      /\ h.def = host.def /\ h.tree = host.tree /\ h.digest = host.digest
      /\ h.workspace = host.workspace /\ h.finished = host.finished
  BY <1>h, <1>6 DEF Hosts
<1>9. host' = Past(h, h.next)
  BY <1>p, <1>2, <1>4, <1>6, <1>8 DEF Folded
<1>10. /\ host' \in Hosts /\ host' # NoHost /\ host'.next = host.next + 1
       /\ host'.phase = (IF LastOfStage(host.next) THEN "committing" ELSE "walking")
       /\ host'.def = host.def /\ host'.tree = host.tree /\ host'.digest = host.digest
       /\ host'.workspace = host.workspace /\ host'.finished = host.finished
       /\ host'.status = v
  BY <1>1, <1>7, <1>8, <1>9, PastIs
<1>11. Finished(file.lines)[host.next] # None /\ Settled(file.lines, host.next)
  BY <1>p, <1>2 DEF Settled
<1>12. HostOK(file.lines, host', executions, trees)
  BY <1>p, <1>h, <1>w, <1>1, <1>4, <1>10, <1>11, Advances
<1>13. RunTypeOK'
  BY <1>p, <1>w, <1>10 DEF RunTypeOK
<1> QED
  BY <1>p, <1>w, <1>12, <1>13, ForNext

LEMMA PassStep == ASSUME RunInvariant, PassOver PROVE RunInvariant'
<1>p. /\ host.phase = "walking" /\ host.finished[host.next] = None
      /\ host' = IF Due(host.next, host.status)
                 THEN [host EXCEPT !.phase = "starting"]
                 ELSE Past(host, host.next)
      /\ UNCHANGED <<file, events, trees, asked, executions, builds, faults>>
  BY DEF PassOver
<1>h. /\ host # NoHost /\ host \in Hosts /\ host.status \in Statuses
      /\ Named(file.lines, host) /\ Placed(file.lines, host, executions, trees)
      /\ Ahead(file.lines, host) /\ Behind(file.lines, host)
  BY <1>p, TheHost
<1>w. RunTypeOK /\ file.lines \in Seq(Records) /\ Unique(file.lines)
      /\ JournalOK(file.lines, executions, builds, trees, events)
  BY WhatIsThere
<1>1. host.next \in Steps
  BY <1>p, <1>h DEF Placed, Between
<1>2. Finished(file.lines)[host.next] = None
  BY <1>p, <1>h, <1>1 DEF Ahead, AtStep
<1>3. host' \in Hosts /\ host' # NoHost /\ HostOK(file.lines, host', executions, trees)
  <2>1. CASE Due(host.next, host.status)
    <3>1. "starting" \in Phases
      BY DEF Phases
    <3>2. /\ host' \in Hosts /\ host' # NoHost /\ host'.phase = "starting"
          /\ host'.def = host.def /\ host'.tree = host.tree /\ host'.digest = host.digest
          /\ host'.workspace = host.workspace /\ host'.finished = host.finished
          /\ host'.next = host.next /\ host'.status = host.status
      BY <1>p, <1>h, <2>1, <3>1, Goes
    <3>3. Named(file.lines, host')
      BY <1>p, <1>h, <3>2 DEF Named, Preparing, Entering
    <3>4. Placed(file.lines, host', executions, trees)
      BY <1>p, <1>1, <3>2 DEF Placed, Between
    <3>5. Ahead(file.lines, host') /\ Behind(file.lines, host')
      BY <1>p, <1>h, <3>2 DEF Ahead, Behind, AtStep
    <3> QED
      BY <3>2, <3>3, <3>4, <3>5 DEF HostOK
  <2>2. CASE ~Due(host.next, host.status)
    <3>1. host' = Past(host, host.next)
      BY <1>p, <2>2
    <3>2. /\ host' \in Hosts /\ host' # NoHost /\ host'.next = host.next + 1
          /\ host'.phase = (IF LastOfStage(host.next) THEN "committing" ELSE "walking")
          /\ host'.def = host.def /\ host'.tree = host.tree /\ host'.digest = host.digest
          /\ host'.workspace = host.workspace /\ host'.finished = host.finished
          /\ host'.status = host.status
      BY <1>1, <1>h, <3>1, PastIs
    <3>3. host.next \notin AlwaysSteps /\ host.status \in {"failure", "aborted"}
      BY <1>h, <2>2, SeverityFacts DEF Due
    <3>4. FailedBefore(file.lines, host.next)
      BY <1>h, <3>3 DEF Behind, FailedBefore
    <3>5. Settled(file.lines, host.next)
      BY <3>3, <3>4 DEF Settled
    <3>6. HostOK(file.lines, host', executions, trees)
      BY <1>p, <1>h, <1>w, <1>1, <1>2, <3>2, <3>5, Advances
    <3> QED
      BY <3>2, <3>6
  <2> QED
    BY <2>1, <2>2
<1>4. RunTypeOK'
  BY <1>p, <1>w, <1>3 DEF RunTypeOK
<1> QED
  BY <1>p, <1>w, <1>3, <1>4, ForNext

-----------------------------------------------------------------------------
\* An invocation reads the journal and prepares the workspace.

LEMMA HostOnIs ==
    ASSUME NEW ls \in Seq(Records), Unique(ls), NEW d \in Definitions, NEW t \in Trees,
           NEW p \in Phases, NEW g, g = HostOn(d, t, ls, p)
    PROVE  /\ g \in Hosts /\ g # NoHost /\ g.phase = p /\ g.def = d /\ g.tree = t
           /\ g.digest = Digest(ls) /\ g.workspace = Tree(ls) /\ g.finished = Finished(ls)
           /\ g.next = 1 /\ g.status = "success"
<1>1. /\ g.phase = p /\ g.def = d /\ g.tree = t
      /\ g.digest = Digest(ls) /\ g.workspace = Tree(ls) /\ g.finished = Finished(ls)
      /\ g.next = 1 /\ g.status = "success"
  BY DEF HostOn, Digest, Tree
<1>2. Digest(ls) \in Definitions \cup {None} /\ Tree(ls) \in Trees \cup {None}
  <2>1. \A kind \in Single :
           \/ First(ls, kind) = None
           \/ \E k \in DOMAIN ls : ls[k].kind = kind /\ First(ls, kind) = ls[k].value
    BY FirstIs
  <2> QED
    BY <2>1, RecordKinds DEF Digest, Tree, Single
<1>3. Finished(ls) \in [Steps -> Outcomes \cup {None}]
  <2>1. \A s \in Steps : Finished(ls)[s] \in Outcomes \cup {None}
    BY FinishedNone
  <2>2. Finished(ls) = [s \in Steps |-> Finished(ls)[s]]
    BY DEF Finished
  <2> QED
    BY <2>1, <2>2
<1>4. "success" \in Statuses
  BY SeverityFacts
<1>5. g = [phase |-> p, def |-> d, tree |-> t, digest |-> Digest(ls), workspace |-> Tree(ls),
           finished |-> Finished(ls), next |-> 1, status |-> "success", outcome |-> None]
  BY DEF HostOn, Digest, Tree
<1>6. g \in Hosts
  BY <1>2, <1>3, <1>4, <1>5 DEF Hosts
<1>7. p # "none"
  BY DEF Phases, Entering, Preparing, AtStep, Between
<1> QED
  BY <1>1, <1>6, <1>7 DEF NoHost

LEMMA InvokeStep ==
    ASSUME RunInvariant, NEW d \in Definitions, NEW t \in Trees, Invoke(d, t)
    PROVE  RunInvariant'
<1>w. /\ RunTypeOK /\ file \in Files /\ file.lines \in Seq(Records) /\ Unique(file.lines)
      /\ JournalOK(file.lines, executions, builds, trees, events)
  BY WhatIsThere
<1>1. PICK ls : ls = file.lines
  OBVIOUS
<1>2. /\ file' \in Files /\ file'.lines = ls /\ ReadAllLines(file') = ls
  <2>1. file' = RepairTail(file)
    BY DEF Invoke
  <2>2. file'.lines = ls /\ file'.torn = None
    BY <1>w, <1>1, <2>1 DEF RepairTail, Files
  <2>3. file' \in Files
    BY <1>w, <2>1 DEF RepairTail, Files
  <2> QED
    BY <2>2, <2>3 DEF ReadAllLines
<1>3. PICK p : p = IF Resuming(ls) THEN "opening" ELSE "wiping"
  OBVIOUS
<1>p. /\ Terminal(ls) = None
      /\ \/ host' = NoHost
         \/ /\ host' = HostOn(d, t, ls, p)
            /\ SameBuild(d, t, ls) /\ NeedsReconciliation(ls) = {}
      /\ asked' \in BOOLEAN
      /\ UNCHANGED <<events, trees, executions, builds, faults>>
  BY <1>1, <1>2, <1>3 DEF Invoke, Open
<1>4. p \in Phases /\ p \in Preparing /\ p # "ending" /\ p \notin AtStep \cup Between
  BY <1>3 DEF Phases, Entering, Preparing, AtStep, Between
<1>5. ASSUME host' = HostOn(d, t, ls, p), SameBuild(d, t, ls), NeedsReconciliation(ls) = {}
      PROVE  host' \in Hosts /\ HostOK(ls, host', executions, trees)
  <2>1. /\ host' \in Hosts /\ host' # NoHost /\ host'.phase = p /\ host'.def = d
        /\ host'.tree = t /\ host'.digest = Digest(ls) /\ host'.workspace = Tree(ls)
        /\ host'.finished = Finished(ls) /\ host'.next = 1 /\ host'.status = "success"
    BY <1>w, <1>1, <1>4, <1>5, HostOnIs
  <2>2. Named(ls, host')
    <3>1. Digest(ls) \in {None, d} /\ Tree(ls) \in {None, t}
      BY <1>5 DEF SameBuild, Digest, Tree
    <3>2. p # "opening" => Digest(ls) = None
      BY <1>3 DEF Resuming, Digest
    <3> QED
      BY <1>p, <1>4, <2>1, <3>1, <3>2 DEF Named, Entering
  <2>3. Placed(ls, host', executions, trees)
    <3>1. 1 \in Steps
      BY StepFacts
    <3> QED
      BY <1>4, <2>1, <3>1 DEF Placed, Preparing, AtStep, Between
  <2>4. Ahead(ls, host')
    <3>1. \A s \in Steps : Begun(ls, s) => Finished(ls)[s] # None
      BY <1>w, <1>1, <1>5, Interrupted
    <3> QED
      BY <2>1, <3>1 DEF Ahead
  <2>5. Behind(ls, host')
    <3>1. \A s \in Steps : ~(s < 1)
      BY StepFacts
    <3> QED
      BY <2>1, <3>1 DEF Behind
  <2> QED
    BY <1>4, <2>1, <2>2, <2>3, <2>4, <2>5 DEF HostOK
<1>6. host' = NoHost \/ (host' \in Hosts /\ HostOK(ls, host', executions, trees))
  BY <1>p, <1>5
<1>7. RunTypeOK'
  BY <1>w, <1>p, <1>2, <1>6 DEF RunTypeOK, Files
<1> QED
  BY <1>w, <1>1, <1>p, <1>2, <1>6, <1>7, ForNext

LEMMA TerminalStep == ASSUME RunInvariant, AlreadyTerminal PROVE RunInvariant'
<1>1. /\ host = NoHost /\ asked' = FALSE
      /\ UNCHANGED <<file, events, trees, host, executions, builds, faults>>
  BY DEF AlreadyTerminal
<1>2. RunTypeOK /\ JournalOK(file.lines, executions, builds, trees, events)
  BY WhatIsThere
<1>3. RunTypeOK'
  BY <1>1, <1>2 DEF RunTypeOK
<1> QED
  BY <1>1, <1>2, <1>3, ForNext

LEMMA WipeStep == ASSUME RunInvariant, Wipe PROVE RunInvariant'
<1>p. /\ host.phase = "wiping"
      /\ trees' = [trees EXCEPT ![host.tree] = NoTree]
      /\ host' = [host EXCEPT !.phase = "materializing"]
      /\ UNCHANGED <<file, events, asked, executions, builds, faults>>
  BY DEF Wipe
<1>h. /\ host # NoHost /\ host \in Hosts /\ host.tree \in Trees
      /\ Named(file.lines, host) /\ Placed(file.lines, host, executions, trees)
      /\ Ahead(file.lines, host) /\ Behind(file.lines, host)
  BY <1>p, TheHost
<1>w. RunTypeOK /\ file.lines \in Seq(Records) /\ Unique(file.lines)
      /\ JournalOK(file.lines, executions, builds, trees, events)
  BY WhatIsThere
<1>k. "materializing" \in Phases
  BY DEF Phases, Entering, Preparing
<1>g. /\ host' \in Hosts /\ host' # NoHost /\ host'.phase = "materializing"
      /\ host'.def = host.def /\ host'.tree = host.tree /\ host'.digest = host.digest
      /\ host'.workspace = host.workspace /\ host'.finished = host.finished
      /\ host'.next = host.next /\ host'.status = host.status
  BY <1>p, <1>h, <1>k, Goes
<1>1. /\ trees' \in [Trees -> [prepared : BOOLEAN, effects : SUBSET Steps]]
      /\ trees'[host.tree].effects = {}
      /\ \A t \in Trees \ {host.tree} : trees'[t] = trees[t]
  <2>1. trees \in [Trees -> [prepared : BOOLEAN, effects : SUBSET Steps]]
    BY <1>w DEF RunTypeOK
  <2>2. NoTree \in [prepared : BOOLEAN, effects : SUBSET Steps] /\ NoTree.effects = {}
    BY DEF NoTree
  <2> QED
    BY <1>p, <1>h, <2>1, <2>2
<1>2. Digest(file.lines) = None
  BY <1>p, <1>h DEF Named, Preparing
<1>3. \A s \in Steps : Finished(file.lines)[s] = None
  BY <1>w, <1>2 DEF JournalOK
<1>4. \A t \in Trees : trees'[t].effects # {} => trees[t].effects # {}
  BY <1>1
<1>5. JournalOK(file.lines, executions, builds, trees', events)
  <2>1. "success" # None /\ "unstable" # None
    BY NoneFacts, SeverityFacts
  <2> QED
    BY <1>w, <1>3, <1>4, <2>1 DEF JournalOK
<1>6. Named(file.lines, host')
  BY <1>p, <1>h, <1>g DEF Named, Preparing, Entering
<1>7. Placed(file.lines, host', executions, trees')
  BY <1>p, <1>h, <1>g DEF Placed, Between
<1>8. Ahead(file.lines, host') /\ Behind(file.lines, host')
  BY <1>p, <1>h, <1>g DEF Ahead, Behind, AtStep
<1>9. HostOK(file.lines, host', executions, trees')
  BY <1>6, <1>7, <1>8, <1>g DEF HostOK
<1>10. RunTypeOK'
  BY <1>p, <1>w, <1>1, <1>g DEF RunTypeOK
<1> QED
  BY <1>p, <1>5, <1>9, <1>10, ForNext

LEMMA MaterializeStep == ASSUME RunInvariant, Materialize PROVE RunInvariant'
<1>p. /\ host.phase = "materializing"
      /\ trees' = [trees EXCEPT ![host.tree].prepared = TRUE]
      /\ host' = [host EXCEPT !.phase = "opening"]
      /\ UNCHANGED <<file, events, asked, executions, builds, faults>>
  BY DEF Materialize
<1>h. /\ host # NoHost /\ host \in Hosts /\ host.tree \in Trees
      /\ Named(file.lines, host) /\ Placed(file.lines, host, executions, trees)
      /\ Ahead(file.lines, host) /\ Behind(file.lines, host)
  BY <1>p, TheHost
<1>w. RunTypeOK /\ file.lines \in Seq(Records)
      /\ JournalOK(file.lines, executions, builds, trees, events)
  BY WhatIsThere
<1>k. "opening" \in Phases
  BY DEF Phases, Entering, Preparing
<1>g. /\ host' \in Hosts /\ host' # NoHost /\ host'.phase = "opening"
      /\ host'.def = host.def /\ host'.tree = host.tree /\ host'.digest = host.digest
      /\ host'.workspace = host.workspace /\ host'.finished = host.finished
      /\ host'.next = host.next /\ host'.status = host.status
  BY <1>p, <1>h, <1>k, Goes
<1>1. /\ trees' \in [Trees -> [prepared : BOOLEAN, effects : SUBSET Steps]]
      /\ \A t \in Trees : trees'[t].effects = trees[t].effects
  BY <1>p, <1>h, <1>w DEF RunTypeOK
<1>2. JournalOK(file.lines, executions, builds, trees', events)
  <2>1. \A s \in Steps : Finished(file.lines)[s] \in {"success", "unstable"} =>
                             Tree(file.lines) \in Trees
    <3>1. "success" # None /\ "unstable" # None
      BY NoneFacts, SeverityFacts
    <3>2. Tree(file.lines) = None \/ Tree(file.lines) = host.tree
      BY <1>p, <1>h DEF Named, Entering, Preparing
    <3> QED
      BY <1>h, <1>w, <3>1, <3>2 DEF JournalOK
  <2> QED
    BY <1>w, <1>1, <2>1 DEF JournalOK
<1>6. Named(file.lines, host')
  BY <1>p, <1>h, <1>g DEF Named, Preparing, Entering
<1>7. Placed(file.lines, host', executions, trees')
  BY <1>p, <1>h, <1>g DEF Placed, Between
<1>8. Ahead(file.lines, host') /\ Behind(file.lines, host')
  BY <1>p, <1>h, <1>g DEF Ahead, Behind, AtStep
<1>9. HostOK(file.lines, host', executions, trees')
  BY <1>6, <1>7, <1>8, <1>g DEF HostOK
<1>10. RunTypeOK'
  BY <1>p, <1>w, <1>1, <1>g DEF RunTypeOK
<1> QED
  BY <1>p, <1>2, <1>9, <1>10, ForNext

-----------------------------------------------------------------------------
\* A step starts, takes effect and finishes.

\* Only metadata and a terminal record are read as metadata and a terminal record.
SameNames(ls, more) ==
    Digest(more) = Digest(ls) /\ Tree(more) = Tree(ls) /\ Terminal(more) = Terminal(ls)

LEMMA NamesStay ==
    ASSUME NEW ls \in Seq(Records), Unique(ls), NEW r \in Records, Fresh(ls, r),
           NEW more, more = Append(ls, r), r.kind \notin Single
    PROVE  SameNames(ls, more)
<1>1. FirstWith(ls, more, r)
  BY Reads
<1>2. \A kind \in Single : First(more, kind) = First(ls, kind)
  BY <1>1 DEF FirstWith
<1> QED
  BY <1>2 DEF SameNames, Digest, Tree, Terminal, Single

LEMMA StartStepStep == ASSUME RunInvariant, StartStep PROVE RunInvariant'
<1>p. /\ host.phase = "starting" /\ Record(host)
      /\ host' = [host EXCEPT !.phase = "started"]
      /\ UNCHANGED <<events, trees, asked, executions, builds, faults>>
  BY DEF StartStep
<1>h. /\ host # NoHost /\ host \in Hosts /\ host.def \in Definitions /\ host.tree \in Trees
      /\ Named(file.lines, host) /\ Placed(file.lines, host, executions, trees)
      /\ Ahead(file.lines, host) /\ Behind(file.lines, host)
  BY <1>p, TheHost
<1>w. /\ RunTypeOK /\ file \in Files /\ file.lines \in Seq(Records) /\ Unique(file.lines)
      /\ JournalOK(file.lines, executions, builds, trees, events)
      /\ \A b \in builds : b.def # None /\ b.tree # None
  BY WhatIsThere
<1>k. "started" \in Phases
  BY DEF Phases, AtStep
<1>g. /\ host' \in Hosts /\ host' # NoHost /\ host'.phase = "started"
      /\ host'.def = host.def /\ host'.tree = host.tree /\ host'.digest = host.digest
      /\ host'.workspace = host.workspace /\ host'.finished = host.finished
      /\ host'.next = host.next /\ host'.status = host.status
  BY <1>p, <1>h, <1>k, Goes
<1>1. PICK ls : ls = file.lines
  OBVIOUS
<1>2. PICK more : more = file'.lines
  OBVIOUS
<1>n. host.next \in Steps /\ host.finished[host.next] = None
  BY <1>p, <1>h DEF Placed, Between
<1>a. ~Begun(ls, host.next) /\ Finished(ls)[host.next] = None
  BY <1>p, <1>h, <1>n, <1>1 DEF Ahead, AtStep
<1>3. PICK r : r = StepStarted(host.next)
  OBVIOUS
<1>4. r \in Records /\ r.kind = "step-started" /\ r.step = host.next
  BY <1>n, <1>3, Builders
<1>5. Pending(host) = <<r>>
  BY <1>p, <1>3 DEF Pending
<1>6. file' \in Files /\ more = Append(ls, r)
  BY <1>p, <1>w, <1>1, <1>2, <1>4, <1>5, Writes DEF Record
<1>7. Fresh(ls, r) /\ r.kind \notin Single
  BY <1>4 DEF Fresh, Single
<1>8. Digest(ls) = host.def /\ Tree(ls) = host.tree /\ Terminal(ls) = None /\ Tree(ls) # None
  BY <1>p, <1>h, <1>1, NoneFacts DEF Named, Preparing, Entering
<1>9. Permitted(ls, r, trees)
  BY <1>4, <1>7, <1>8 DEF Permitted, Earned
<1>10. JournalOK(more, executions, builds, trees, events)
  BY <1>w, <1>1, <1>4, <1>6, <1>9, JournalGrows
<1>11. SameNames(ls, more)
  BY <1>w, <1>1, <1>4, <1>6, <1>7, NamesStay
<1>r. FinishedWith(ls, more, r) /\ BegunWith(ls, more, r)
  BY <1>w, <1>1, <1>4, <1>6, <1>7, Reads
<1>12. \A s \in Steps : Finished(more)[s] = Finished(ls)[s]
  BY <1>4, <1>r DEF FinishedWith
<1>13. \A s \in Steps : Begun(more, s) <=> Begun(ls, s) \/ (r.kind = "step-started" /\ r.step = s)
  BY <1>r DEF BegunWith
<1>14. Durable(more) = Durable(ls) \cup {r}
  BY <1>w, <1>1, <1>4, <1>6, ReadsDurable
<1>15. Named(more, host')
  BY <1>p, <1>h, <1>8, <1>11, <1>g DEF Named, SameNames, Preparing, Entering
<1>16. Placed(more, host', executions, trees)
  <2>1. Begun(more, host'.next) /\ Finished(more)[host'.next] = None
    BY <1>4, <1>n, <1>a, <1>12, <1>13, <1>g
  <2>2. executions[host'.next] = 0
    BY <1>w, <1>n, <1>a, <1>1, <1>g DEF JournalOK
  <2>3. StepStarted(host'.next) \in Durable(more)
    BY <1>3, <1>14, <1>g
  <2> QED
    BY <1>n, <1>g, <2>1, <2>2, <2>3 DEF Placed, Between
<1>17. Ahead(more, host')
  <2>1. ASSUME NEW s \in Steps, s > host'.next \/ (s = host'.next /\ host'.phase \notin AtStep)
        PROVE  s > host.next /\ s # host.next
    BY <2>1, <1>n, <1>g, StepFacts DEF AtStep
  <2>2. ASSUME NEW s \in Steps, s > host.next, s # host.next
        PROVE  /\ host.finished[s] = Finished(more)[s]
               /\ Begun(more, s) => Finished(more)[s] # None
    <3>1. /\ host.finished[s] = Finished(ls)[s]
          /\ Begun(ls, s) => Finished(ls)[s] # None
      BY <1>h, <1>1, <2>2 DEF Ahead
    <3>2. Begun(more, s) => Begun(ls, s)
      BY <1>4, <1>13, <2>2
    <3> QED
      BY <3>1, <3>2, <1>12
  <2> QED
    BY <2>1, <2>2, <1>g DEF Ahead
<1>18. Behind(more, host')
  <2>1. \A s \in Steps : Settled(ls, s) => Settled(more, s)
    BY <1>12, SettledStays
  <2> QED
    BY <1>h, <1>1, <1>12, <2>1, <1>g DEF Behind
<1>19. HostOK(more, host', executions, trees)
  BY <1>15, <1>16, <1>17, <1>18, <1>g DEF HostOK
<1>20. RunTypeOK'
  BY <1>p, <1>w, <1>6, <1>g DEF RunTypeOK, Files
<1> QED
  BY <1>p, <1>2, <1>10, <1>19, <1>20, ForNext

LEMMA ExecuteStep ==
    ASSUME RunInvariant, NEW outcome \in Outcomes, Execute(outcome)
    PROVE  RunInvariant'
<1>p. /\ host.phase = "running"
      /\ host' = [host EXCEPT !.phase = "ran", !.outcome = outcome]
      /\ trees' = [trees EXCEPT ![host.tree].effects = @ \cup {host.next}]
      /\ executions' = [executions EXCEPT ![host.next] = @ + 1]
      /\ builds' = builds \cup {[def |-> host.def, tree |-> host.tree]}
      /\ UNCHANGED <<file, events, asked, faults>>
  BY DEF Execute
<1>h. /\ host # NoHost /\ host \in Hosts /\ host.def \in Definitions /\ host.tree \in Trees
      /\ Named(file.lines, host) /\ Placed(file.lines, host, executions, trees)
      /\ Ahead(file.lines, host) /\ Behind(file.lines, host)
  BY <1>p, TheHost
<1>w. RunTypeOK /\ JournalOK(file.lines, executions, builds, trees, events)
  BY WhatIsThere
<1>g. /\ host' \in Hosts /\ host' # NoHost /\ host'.phase = "ran" /\ host'.outcome = outcome
      /\ host'.def = host.def /\ host'.tree = host.tree /\ host'.digest = host.digest
      /\ host'.workspace = host.workspace /\ host'.finished = host.finished
      /\ host'.next = host.next /\ host'.status = host.status
  <2>1. "ran" \in Phases
    BY DEF Phases, AtStep
  <2>2. host' \in Hosts
    BY <1>p, <1>h, <2>1, Zenon DEF Hosts
  <2> QED
    BY <1>p, <1>h, <2>2 DEF Hosts, NoHost
<1>1. PICK ls : ls = file.lines
  OBVIOUS
<1>n. /\ host.next \in Steps /\ Begun(ls, host.next) /\ Finished(ls)[host.next] = None
      /\ executions[host.next] = 0
  BY <1>p, <1>h, <1>1 DEF Placed, Between
<1>d. Digest(ls) = host.def /\ Tree(ls) = host.tree
  BY <1>p, <1>h, <1>1 DEF Named, Preparing, Entering
<1>2. /\ trees' \in [Trees -> [prepared : BOOLEAN, effects : SUBSET Steps]]
      /\ trees'[host.tree].effects = trees[host.tree].effects \cup {host.next}
      /\ \A t \in Trees \ {host.tree} : trees'[t] = trees[t]
  <2>1. trees \in [Trees -> [prepared : BOOLEAN, effects : SUBSET Steps]]
    BY <1>w DEF RunTypeOK
  <2>2. PICK e : e = trees[host.tree].effects \cup {host.next}
    OBVIOUS
  <2>3. e \in SUBSET Steps /\ trees' = [trees EXCEPT ![host.tree].effects = e]
    BY <1>p, <1>h, <1>n, <2>1, <2>2
  <2> QED
    BY <1>h, <2>1, <2>2, <2>3
<1>3. /\ executions' \in [Steps -> Nat] /\ executions'[host.next] = 1
      /\ \A s \in Steps \ {host.next} : executions'[s] = executions[s]
  BY <1>p, <1>w, <1>n DEF RunTypeOK
<1>4. JournalOK(ls, executions', builds', trees', events)
  <2>1. \A s \in Steps : executions'[s] = 0 \/ (executions'[s] = 1 /\ Begun(ls, s))
    <3> TAKE s \in Steps
    <3>1. CASE s = host.next
      BY <1>n, <1>3, <3>1
    <3>2. CASE s # host.next
      <4>1. executions'[s] = executions[s]
        BY <1>3, <3>2
      <4> QED
        BY <1>w, <1>1, <4>1 DEF JournalOK
    <3> QED
      BY <3>1, <3>2
  <2>2. \A b \in builds' : b.def = Digest(ls) /\ b.tree = Tree(ls)
    BY <1>p, <1>w, <1>1, <1>d DEF JournalOK
  <2>3. \A t \in Trees : trees'[t].effects # {} => Tree(ls) = t
    BY <1>w, <1>1, <1>2, <1>d DEF JournalOK
  <2>4. \A s \in Steps : Finished(ls)[s] \in {"success", "unstable"} =>
                             s \in trees'[Tree(ls)].effects
    BY <1>w, <1>1, <1>2, <1>d DEF JournalOK
  <2> QED
    BY <1>w, <1>1, <2>1, <2>2, <2>3, <2>4 DEF JournalOK
<1>5. Named(ls, host')
  BY <1>p, <1>h, <1>1, <1>g DEF Named, Preparing, Entering
<1>6. Placed(ls, host', executions', trees')
  BY <1>n, <1>2, <1>g DEF Placed, Between
<1>7. Ahead(ls, host') /\ Behind(ls, host')
  BY <1>p, <1>h, <1>1, <1>g DEF Ahead, Behind, AtStep
<1>8. HostOK(ls, host', executions', trees')
  BY <1>5, <1>6, <1>7, <1>g DEF HostOK
<1>9. RunTypeOK'
  BY <1>p, <1>h, <1>w, <1>2, <1>3, <1>g DEF RunTypeOK
<1> QED
  BY <1>p, <1>1, <1>4, <1>8, <1>9, ForNext

\* What the step left in the workspace is there when its finish is written.
LEMMA MayFinish ==
    ASSUME RunInvariant, host.phase = "ran",
           NEW r, r = StepFinished(host.next, host.outcome)
    PROVE  /\ r \in Records /\ r.kind = "step-finished" /\ r.step = host.next
           /\ r.value = host.outcome /\ host.next \in Steps /\ host.outcome \in Outcomes
           /\ Permitted(file.lines, r, trees)
<1>h. /\ host.tree \in Trees
      /\ Named(file.lines, host) /\ Placed(file.lines, host, executions, trees)
  BY TheHost
<1>1. /\ host.next \in Steps /\ host.outcome \in Outcomes
      /\ Finished(file.lines)[host.next] = None
      /\ host.next \in trees[host.tree].effects
  BY <1>h DEF Placed, Between
<1>2. /\ r \in Records /\ r.kind = "step-finished" /\ r.step = host.next
      /\ r.value = host.outcome
  BY <1>1, Builders
<1>3. Tree(file.lines) = host.tree /\ Tree(file.lines) # None
  BY <1>h, NoneFacts DEF Named, Preparing, Entering
<1>4. Fresh(file.lines, r)
  BY <1>1, <1>2 DEF Fresh, Single
<1>5. Permitted(file.lines, r, trees)
  BY <1>1, <1>2, <1>3, <1>4 DEF Permitted, Earned
<1> QED
  BY <1>1, <1>2, <1>5

\* The lines say of the host's step that it finished, and nothing else is new.
FinishWritten(ls, more, h) ==
    /\ SameNames(ls, more)
    /\ Finished(more)[h.next] = h.outcome
    /\ \A s \in Steps \ {h.next} : Finished(more)[s] = Finished(ls)[s]
    /\ \A s \in Steps : Begun(more, s) => Begun(ls, s)
    /\ StepFinished(h.next, h.outcome) \in Durable(more)

LEMMA Finishes ==
    ASSUME RunInvariant, host.phase = "ran", NEW ls, ls = file.lines,
           NEW more, more = Append(ls, StepFinished(host.next, host.outcome))
    PROVE  /\ more \in Seq(Records) /\ Unique(more)
           /\ JournalOK(more, executions, builds, trees, events)
           /\ FinishWritten(ls, more, host)
<1>w. /\ ls \in Seq(Records) /\ Unique(ls)
      /\ JournalOK(ls, executions, builds, trees, events)
      /\ \A b \in builds : b.def # None /\ b.tree # None
  BY WhatIsThere
<1>1. PICK r : r = StepFinished(host.next, host.outcome)
  OBVIOUS
<1>2. /\ r \in Records /\ r.kind = "step-finished" /\ r.step = host.next
      /\ r.value = host.outcome /\ host.next \in Steps /\ Permitted(ls, r, trees)
  BY <1>1, MayFinish
<1>3. Fresh(ls, r) /\ r.kind \notin Single
  BY <1>2 DEF Permitted, Single
<1>4. more = Append(ls, r)
  BY <1>1
<1>5. more \in Seq(Records) /\ Unique(more)
  BY <1>w, <1>2, <1>3, <1>4, StaysUnique
<1>6. JournalOK(more, executions, builds, trees, events)
  BY <1>w, <1>2, <1>4, JournalGrows
<1>7. SameNames(ls, more)
  BY <1>w, <1>2, <1>3, <1>4, NamesStay
<1>r. FinishedWith(ls, more, r) /\ BegunWith(ls, more, r)
  BY <1>w, <1>2, <1>3, <1>4, Reads
<1>8. Finished(more)[host.next] = host.outcome
  BY <1>2, <1>r DEF FinishedWith
<1>9. \A s \in Steps \ {host.next} : Finished(more)[s] = Finished(ls)[s]
  BY <1>2, <1>r DEF FinishedWith
<1>10. \A s \in Steps : Begun(more, s) => Begun(ls, s)
  BY <1>2, <1>r DEF BegunWith
<1>11. Durable(more) = Durable(ls) \cup {r}
  BY <1>w, <1>2, <1>4, ReadsDurable
<1> QED
  BY <1>1, <1>5, <1>6, <1>7, <1>8, <1>9, <1>10, <1>11 DEF FinishWritten

LEMMA FinishStepStep == ASSUME RunInvariant, FinishStep PROVE RunInvariant'
<1>p. /\ host.phase = "ran" /\ Record(host)
      /\ host' = [host EXCEPT !.phase = "finished"]
      /\ UNCHANGED <<events, trees, asked, executions, builds, faults>>
  BY DEF FinishStep
<1>h. /\ host # NoHost /\ host \in Hosts
      /\ Named(file.lines, host) /\ Placed(file.lines, host, executions, trees)
      /\ Ahead(file.lines, host) /\ Behind(file.lines, host)
  BY <1>p, TheHost
<1>w. /\ RunTypeOK /\ file \in Files /\ file.lines \in Seq(Records) /\ Unique(file.lines)
      /\ \A b \in builds : b.def # None /\ b.tree # None
  BY WhatIsThere
<1>k. "finished" \in Phases
  BY DEF Phases, AtStep
<1>g. /\ host' \in Hosts /\ host' # NoHost /\ host'.phase = "finished"
      /\ host'.def = host.def /\ host'.tree = host.tree /\ host'.digest = host.digest
      /\ host'.workspace = host.workspace /\ host'.finished = host.finished
      /\ host'.next = host.next /\ host'.status = host.status
      /\ host'.outcome = host.outcome
  BY <1>p, <1>h, <1>k, Goes
<1>1. PICK ls : ls = file.lines
  OBVIOUS
<1>2. PICK more : more = file'.lines
  OBVIOUS
<1>3. PICK r : r = StepFinished(host.next, host.outcome)
  OBVIOUS
<1>4. /\ r \in Records /\ host.next \in Steps /\ host.outcome \in Outcomes
  BY <1>p, <1>3, MayFinish
<1>5. PICK mid : mid = Append(ls, r)
  OBVIOUS
<1>6. /\ mid \in Seq(Records) /\ Unique(mid)
      /\ JournalOK(mid, executions, builds, trees, events)
      /\ FinishWritten(ls, mid, host)
  BY <1>p, <1>1, <1>3, <1>5, Finishes
<1>7. /\ file' \in Files /\ JournalOK(more, executions, builds, trees, events)
      /\ FinishWritten(ls, more, host)
  <2>0. host.outcome \in {"success", "unstable", "failure", "aborted"}
    BY <1>4, NoneFacts, SeverityFacts
  <2>1. CASE host.outcome \in {"failure", "aborted"}
    <3>1. PICK q : q = StepReason(host.next)
      OBVIOUS
    <3>2. q \in Records /\ q.kind = "step-reason"
      BY <1>4, <3>1, Builders
    <3>3. Pending(host) = <<r, q>>
      BY <1>p, <1>3, <2>1, <3>1 DEF Pending
    <3>4. <<r, q>> # <<>>
      OBVIOUS
    <3>5. file' = AppendGroup(file, <<r, q>>)
      BY <1>p, <3>3, <3>4 DEF Record
    <3>6. /\ AppendGroup(file, <<r, q>>) \in Files
          /\ AppendGroup(file, <<r, q>>).lines = Append(Append(file.lines, r), q)
      BY <1>w, <1>4, <3>2, WritesTwo
    <3>7. file' \in Files /\ more = Append(mid, q)
      BY <1>1, <1>2, <1>5, <3>5, <3>6
    <3>8. Fresh(mid, q) /\ q.kind \in Bystander /\ q.kind \notin Single
      BY <3>2 DEF Fresh, Bystander, Single
    <3>9. Permitted(mid, q, trees)
      BY <3>2, <3>8 DEF Permitted, Earned
    <3>10. JournalOK(more, executions, builds, trees, events)
      BY <1>w, <1>6, <3>2, <3>7, <3>9, JournalGrows
    <3>11. SameNames(mid, more)
      BY <1>6, <3>2, <3>7, <3>8, NamesStay
    <3>12. SameOfSteps(mid, more)
      BY <1>6, <3>2, <3>7, <3>8, NothingOfSteps
    <3>13. Durable(more) = Durable(mid) \cup {q}
      BY <1>6, <3>2, <3>7, ReadsDurable
    <3>14. FinishWritten(ls, more, host)
      BY <1>4, <1>6, <3>11, <3>12, <3>13 DEF FinishWritten, SameNames, SameOfSteps
    <3> QED
      BY <3>7, <3>10, <3>14
  <2>2. CASE host.outcome \in {"success", "unstable"}
    <3>1. Pending(host) = <<r>>
      BY <1>p, <1>3, <2>2 DEF Pending
    <3>2. file' \in Files /\ more = mid
      BY <1>p, <1>w, <1>1, <1>2, <1>4, <1>5, <3>1, Writes DEF Record
    <3> QED
      BY <1>6, <3>2
  <2> QED
    BY <2>0, <2>1, <2>2
<1>8. Named(more, host')
  BY <1>p, <1>h, <1>1, <1>7, <1>g DEF FinishWritten, SameNames, Named, Preparing, Entering
<1>9. Placed(more, host', executions, trees)
  BY <1>4, <1>7, <1>g DEF FinishWritten, Placed, Between
<1>10. Ahead(more, host')
  <2>1. ASSUME NEW s \in Steps, s > host'.next \/ (s = host'.next /\ host'.phase \notin AtStep)
        PROVE  s > host.next /\ s \in Steps \ {host.next}
    BY <2>1, <1>4, <1>g, StepFacts DEF AtStep
  <2>2. ASSUME NEW s \in Steps \ {host.next}, s > host.next
        PROVE  /\ host.finished[s] = Finished(more)[s]
               /\ Begun(more, s) => Finished(more)[s] # None
    <3>1. /\ host.finished[s] = Finished(ls)[s]
          /\ Begun(ls, s) => Finished(ls)[s] # None
      BY <1>h, <1>1, <2>2 DEF Ahead
    <3> QED
      BY <3>1, <1>7 DEF FinishWritten
  <2> QED
    BY <2>1, <2>2, <1>g DEF Ahead
<1>11. Behind(more, host')
  <2>1. Finished(ls)[host.next] = None
    BY <1>p, <1>h, <1>1 DEF Placed
  <2>2. \A s \in Steps : Finished(ls)[s] # None => Finished(more)[s] = Finished(ls)[s]
    BY <1>7, <2>1 DEF FinishWritten
  <2>3. \A s \in Steps : Settled(ls, s) => Settled(more, s)
    BY <2>2, SettledStays
  <2>4. \A s \in Steps : s < host.next => s \in Steps \ {host.next}
    BY <1>4, StepFacts
  <2>5. \A s \in Steps : s < host.next => Finished(more)[s] = Finished(ls)[s]
    BY <1>7, <2>4 DEF FinishWritten
  <2> QED
    BY <1>h, <1>1, <2>3, <2>5, <1>g DEF Behind
<1>12. HostOK(more, host', executions, trees)
  BY <1>8, <1>9, <1>10, <1>11, <1>g DEF HostOK
<1>13. RunTypeOK'
  BY <1>p, <1>w, <1>7, <1>g DEF RunTypeOK, Files
<1> QED
  BY <1>p, <1>2, <1>7, <1>12, <1>13, ForNext

-----------------------------------------------------------------------------
\* The boundaries.

\* The steps of a stage are the ones up to its last.
LEMMA StageEnds ==
    ASSUME NEW n \in Nat, n - 1 \in Steps, LastOfStage(n - 1),
           NEW s \in Steps, StageOf[s] <= StageOf[n - 1]
    PROVE  s < n
<1>1. s \in Nat /\ n - 1 \in Nat /\ n = (n - 1) + 1
  BY StepFacts
<1> SUFFICES ASSUME ~(s < n) PROVE FALSE
  OBVIOUS
<1>2. n <= s
  BY <1>1
<1>3. n \in Steps
  BY <1>1, <1>2, StepFacts
<1>4. StageOf[n] # StageOf[n - 1]
  BY <1>1, <1>3 DEF LastOfStage
<1>5. StageOf[n - 1] <= StageOf[n] /\ StageOf[n] <= StageOf[s]
  BY <1>1, <1>2, <1>3, StepFacts
<1>6. StageOf[n - 1] \in Nat /\ StageOf[n] \in Nat /\ StageOf[s] \in Nat
  BY <1>3, StepFacts
<1> QED
  BY <1>4, <1>5, <1>6

LEMMA CommitStep == ASSUME RunInvariant, CommitStage PROVE RunInvariant'
<1>p. /\ host.phase = "committing" /\ Record(host)
      /\ host' = [host EXCEPT !.phase = "committed"]
      /\ UNCHANGED <<events, trees, asked, executions, builds, faults>>
  BY DEF CommitStage
<1>h. /\ host # NoHost /\ host \in Hosts /\ host.next \in Nat
      /\ Named(file.lines, host) /\ Placed(file.lines, host, executions, trees)
      /\ Ahead(file.lines, host) /\ Behind(file.lines, host)
  BY <1>p, TheHost
<1>w. RunTypeOK
  BY WhatIsThere
<1>k. "committed" \in Phases
  BY DEF Phases, Between
<1>g. /\ host' \in Hosts /\ host' # NoHost /\ host'.phase = "committed"
      /\ host'.def = host.def /\ host'.tree = host.tree /\ host'.digest = host.digest
      /\ host'.workspace = host.workspace /\ host'.finished = host.finished
      /\ host'.next = host.next /\ host'.status = host.status
  BY <1>p, <1>h, <1>k, Goes
<1>1. PICK ls : ls = file.lines
  OBVIOUS
<1>2. PICK more : more = file'.lines
  OBVIOUS
<1>n. host.next - 1 \in Steps /\ LastOfStage(host.next - 1)
  BY <1>p, <1>h DEF Placed, Between
<1>3. PICK r : r = StageCommitted(StageOf[host.next - 1])
  OBVIOUS
<1>4. r \in Records /\ r.kind = "stage-committed" /\ r.step = StageOf[host.next - 1]
  BY <1>n, <1>3, StepFacts, Builders
<1>5. Pending(host) = <<r>>
  BY <1>p, <1>3 DEF Pending
<1>6. Earned(ls, r)
  <2>1. ASSUME NEW s \in Steps, StageOf[s] <= r.step PROVE Settled(ls, s)
    <3>1. s < host.next
      BY <1>h, <1>n, <1>4, <2>1, StageEnds
    <3> QED
      BY <1>h, <1>1, <3>1 DEF Behind
  <2> QED
    BY <1>4, <2>1 DEF Earned
<1>7. Permitted(ls, r, trees) /\ r.kind \in Bystander
  BY <1>4, <1>6 DEF Permitted, Fresh, Single, Bystander
<1>8. /\ file' \in Files /\ JournalOK(more, executions, builds, trees, events)
      /\ SameOfSteps(ls, more) /\ Durable(more) = Durable(ls) \cup {r}
      /\ Digest(more) = Digest(ls) /\ Tree(more) = Tree(ls) /\ Terminal(more) = Terminal(ls)
  BY <1>p, <1>1, <1>2, <1>4, <1>5, <1>7, WritesBystander
<1>9. Named(more, host')
  BY <1>p, <1>h, <1>1, <1>8, <1>g DEF Named, Preparing, Entering
<1>10. Placed(more, host', executions, trees)
  BY <1>n, <1>3, <1>8, <1>g DEF Placed, Between
<1>11. Ahead(more, host) /\ Behind(more, host)
  BY <1>h, <1>1, <1>8, SameSteps
<1>12. Ahead(more, host') /\ Behind(more, host')
  BY <1>p, <1>11, <1>g DEF Ahead, Behind, AtStep
<1>13. HostOK(more, host', executions, trees)
  BY <1>9, <1>10, <1>12, <1>g DEF HostOK
<1>14. RunTypeOK'
  BY <1>p, <1>w, <1>8, <1>g DEF RunTypeOK, Files
<1> QED
  BY <1>p, <1>2, <1>8, <1>13, <1>14, ForNext

\* The status of a run with every step behind it is the worst of their statuses.
LEMMA WorstIs ==
    ASSUME NEW ls \in Seq(Records), Unique(ls), NEW h \in Hosts,
           Behind(ls, h), \A s \in Steps : s < h.next
    PROVE  Severity[h.status] =
              Max({Severity[v] : v \in {Finished(ls)[s] : s \in Steps} \ {None}} \cup {1})
<1>1. PICK S : S = {Severity[v] : v \in {Finished(ls)[s] : s \in Steps} \ {None}} \cup {1}
  OBVIOUS
<1>2. h.status \in Statuses
  BY DEF Hosts
<1>3. \A s \in Steps : Finished(ls)[s] # None => Finished(ls)[s] \in Statuses
  BY FinishedNone, NoneFacts
<1>4. \A v \in Statuses : Severity[v] \in Nat /\ Severity[v] >= 1
  BY SeverityFacts
<1>5. S \in SUBSET Nat
  BY <1>1, <1>3, <1>4
<1>6. Severity[h.status] \in S
  <2>1. CASE h.status = "success"
    BY <1>1, <2>1, SeverityFacts
  <2>2. CASE h.status # "success"
    <3>1. PICK s \in Steps : Finished(ls)[s] = h.status
      BY <2>2 DEF Behind
    <3>2. h.status # None
      BY <1>2, NoneFacts
    <3> QED
      BY <1>1, <3>1, <3>2
  <2> QED
    BY <2>1, <2>2
<1>7. \A y \in S : Severity[h.status] >= y
  <2> SUFFICES ASSUME NEW y \in S PROVE Severity[h.status] >= y
    OBVIOUS
  <2>1. CASE y = 1
    BY <1>2, <1>4, <2>1
  <2>2. CASE y # 1
    <3>1. PICK s \in Steps : Finished(ls)[s] # None /\ y = Severity[Finished(ls)[s]]
      BY <1>1, <2>2
    <3>2. y <= Severity[h.status]
      BY <3>1 DEF Behind
    <3>3. y \in Nat /\ Severity[h.status] \in Nat
      BY <1>2, <1>3, <1>4, <3>1
    <3> QED
      BY <3>2, <3>3
  <2> QED
    BY <2>1, <2>2
<1>8. Max(S) = Severity[h.status]
  BY <1>5, <1>6, <1>7, MaxIs
<1> QED
  BY <1>1, <1>8

LEMMA EndStep == ASSUME RunInvariant, EndBuild PROVE RunInvariant'
<1>p. /\ host.phase = "ending" /\ Record(host) /\ host' = NoHost
      /\ UNCHANGED <<events, trees, asked, executions, builds, faults>>
  BY DEF EndBuild
<1>h. /\ host \in Hosts /\ host.status \in Statuses
      /\ Named(file.lines, host) /\ Ending(file.lines, host)
  BY <1>p, TheHost
<1>w. RunTypeOK /\ file.lines \in Seq(Records) /\ Unique(file.lines)
  BY WhatIsThere
<1>1. PICK ls : ls = file.lines
  OBVIOUS
<1>2. PICK more : more = file'.lines
  OBVIOUS
<1>3. PICK r : r = BuildFinished(host.status)
  OBVIOUS
<1>4. r \in Records /\ r.kind = "build-finished" /\ r.value = host.status
  BY <1>h, <1>3, Builders
<1>5. Pending(host) = <<r>>
  BY <1>p, <1>3 DEF Pending
<1>6. Earned(ls, r)
  <2>1. CASE Behind(ls, host) /\ \A s \in Steps : s < host.next
    <3>1. \A s \in Steps : Settled(ls, s)
      BY <2>1 DEF Behind
    <3>2. Severity[r.value] =
             Max({Severity[v] : v \in {Finished(ls)[s] : s \in Steps} \ {None}} \cup {1})
      BY <1>h, <1>w, <1>1, <1>4, <2>1, WorstIs
    <3> QED
      BY <1>4, <3>1, <3>2 DEF Earned
  <2>2. CASE host.status = "failure" /\ NeedsReconciliation(ls) # {}
    BY <1>4, <2>2 DEF Earned
  <2> QED
    BY <1>h, <1>1, <2>1, <2>2 DEF Ending
<1>7. Permitted(ls, r, trees) /\ r.kind \in Bystander
  <2>1. First(ls, "build-finished") = None
    BY <1>h, <1>1 DEF Named, Terminal
  <2> QED
    BY <1>4, <1>6, <2>1 DEF Permitted, Fresh, Single, Bystander
<1>8. file' \in Files /\ JournalOK(more, executions, builds, trees, events)
  BY <1>p, <1>1, <1>2, <1>4, <1>5, <1>7, WritesBystander
<1>9. RunTypeOK'
  BY <1>p, <1>w, <1>8 DEF RunTypeOK, Files
<1> QED
  BY <1>p, <1>2, <1>8, <1>9, ForNext

-----------------------------------------------------------------------------
\* A line is published, and the loop goes on.

LEMMA AnnouncedIsDurable ==
    ASSUME RunInvariant, host.phase \in {"started", "finished", "committed"}
    PROVE  Announcement(host) \in Durable(file.lines)
<1>h. Placed(file.lines, host, executions, trees)
  BY TheHost
<1>1. CASE host.phase = "started"
  BY <1>h, <1>1 DEF Placed, Announcement
<1>2. CASE host.phase = "finished"
  BY <1>h, <1>2 DEF Placed, Announcement
<1>3. CASE host.phase = "committed"
  BY <1>h, <1>3 DEF Placed, Announcement
<1> QED
  BY <1>1, <1>2, <1>3

LEMMA AnnounceStep == ASSUME RunInvariant, Announce PROVE RunInvariant'
<1>p. /\ host.phase \in {"started", "finished", "committed"}
      /\ events' = events \cup {Announcement(host)}
      /\ UNCHANGED <<file, trees, asked, executions, builds, faults>>
  BY DEF Announce
<1>h. /\ host # NoHost /\ host \in Hosts /\ host.next \in Nat /\ host.status \in Statuses
      /\ Named(file.lines, host) /\ Placed(file.lines, host, executions, trees)
      /\ Ahead(file.lines, host) /\ Behind(file.lines, host)
  BY <1>p, TheHost
<1>w. RunTypeOK /\ file.lines \in Seq(Records) /\ Unique(file.lines)
      /\ JournalOK(file.lines, executions, builds, trees, events)
  BY WhatIsThere
<1>1. PICK ls : ls = file.lines
  OBVIOUS
<1>2. Announcement(host) \in Durable(ls)
  BY <1>p, <1>1, AnnouncedIsDurable
<1>3. Durable(ls) \subseteq Records
  <2>1. Readable(ls) = DOMAIN ls
    BY <1>w, <1>1, ReadableAll
  <2> QED
    BY <1>w, <1>1, <2>1 DEF Durable
<1>4. events' \subseteq Records
  BY <1>p, <1>w, <1>2, <1>3 DEF RunTypeOK
<1>5. JournalOK(ls, executions, builds, trees, events')
  BY <1>p, <1>w, <1>1, <1>2 DEF JournalOK
<1>6. host' \in Hosts /\ HostOK(ls, host', executions, trees)
  <2>1. CASE host.phase = "started"
    <3>1. "running" \in Phases
      BY DEF Phases, AtStep
    <3>2. host' = [host EXCEPT !.phase = "running"]
      BY <2>1 DEF Announce
    <3>3. /\ host' \in Hosts /\ host' # NoHost /\ host'.phase = "running"
          /\ host'.def = host.def /\ host'.tree = host.tree /\ host'.digest = host.digest
          /\ host'.workspace = host.workspace /\ host'.finished = host.finished
          /\ host'.next = host.next /\ host'.status = host.status
      BY <1>h, <3>1, <3>2, Goes
    <3>4. Named(ls, host')
      BY <1>h, <1>1, <2>1, <3>3 DEF Named, Preparing, Entering
    <3>5. Placed(ls, host', executions, trees)
      BY <1>h, <1>1, <2>1, <3>3 DEF Placed, Between
    <3>6. Ahead(ls, host') /\ Behind(ls, host')
      BY <1>h, <1>1, <2>1, <3>3 DEF Ahead, Behind, AtStep
    <3> QED
      BY <3>3, <3>4, <3>5, <3>6 DEF HostOK
  <2>2. CASE host.phase = "finished"
    <3>1. PICK v : v = WorstOf(host.status, host.outcome)
      OBVIOUS
    <3>2. /\ host.next \in Steps /\ host.outcome \in Outcomes
          /\ Finished(ls)[host.next] = host.outcome
      BY <1>h, <1>1, <2>2 DEF Placed, Between
    <3>3. host.outcome \in Statuses /\ host.outcome # None
      BY <3>2, NoneFacts
    <3>4. v \in Statuses
      BY <1>h, <3>1, <3>3 DEF WorstOf
    <3>5. PICK h : h = [host EXCEPT !.status = v, !.outcome = None]
      OBVIOUS
    <3>6. h \in Hosts
      BY <1>h, <3>4, <3>5, Zenon DEF Hosts
    <3>7. /\ h.status = v /\ h.phase = host.phase /\ h.next = host.next
          /\ h.def = host.def /\ h.tree = host.tree /\ h.digest = host.digest
          /\ h.workspace = host.workspace /\ h.finished = host.finished
      BY <1>h, <3>5 DEF Hosts
    <3>8. host' = Past(h, h.next)
      BY <2>2, <3>1, <3>5, <3>7 DEF Announce
    <3>9. /\ host' \in Hosts /\ host' # NoHost /\ host'.next = host.next + 1
          /\ host'.phase = (IF LastOfStage(host.next) THEN "committing" ELSE "walking")
          /\ host'.def = host.def /\ host'.tree = host.tree /\ host'.digest = host.digest
          /\ host'.workspace = host.workspace /\ host'.finished = host.finished
          /\ host'.status = v
      BY <3>2, <3>6, <3>7, <3>8, PastIs
    <3>10. Settled(ls, host.next)
      BY <3>2, <3>3 DEF Settled
    <3>11. Finished(ls)[host.next] # None
           /\ host'.status = WorstOf(host.status, Finished(ls)[host.next])
      BY <3>1, <3>2, <3>3, <3>9
    <3>12. HostOK(ls, host', executions, trees)
      BY <1>h, <1>w, <1>1, <2>2, <3>2, <3>9, <3>10, <3>11, Advances
    <3> QED
      BY <3>9, <3>12
  <2>3. CASE host.phase = "committed"
    <3>1. PICK p : p = IF host.next \in Steps THEN "walking" ELSE "ending"
      OBVIOUS
    <3>2. p \in Phases
      BY <3>1 DEF Phases
    <3>3. host' = [host EXCEPT !.phase = p]
      BY <2>3, <3>1 DEF Announce
    <3>4. /\ host' \in Hosts /\ host' # NoHost /\ host'.phase = p
          /\ host'.def = host.def /\ host'.tree = host.tree /\ host'.digest = host.digest
          /\ host'.workspace = host.workspace /\ host'.finished = host.finished
          /\ host'.next = host.next /\ host'.status = host.status
      BY <1>h, <3>2, <3>3, Goes
    <3>5. Named(ls, host')
      BY <1>h, <1>1, <2>3, <3>1, <3>4 DEF Named, Preparing, Entering
    <3>6. Placed(ls, host', executions, trees)
      BY <3>1, <3>4 DEF Placed, Between
    <3>7. Ahead(ls, host') /\ Behind(ls, host')
      BY <1>h, <1>1, <2>3, <3>1, <3>4 DEF Ahead, Behind, AtStep
    <3>8. p = "ending" => \A s \in Steps : s < host.next
      <4>1. host.next - 1 \in Steps
        BY <1>h, <2>3 DEF Placed, Between
      <4> QED
        BY <1>h, <3>1, <4>1, StepFacts
    <3>9. host'.phase = "ending" => Ending(ls, host')
      BY <3>4, <3>7, <3>8 DEF Ending
    <3> QED
      BY <3>4, <3>5, <3>6, <3>7, <3>9 DEF HostOK
  <2> QED
    BY <1>p, <2>1, <2>2, <2>3
<1>7. RunTypeOK'
  BY <1>p, <1>w, <1>4, <1>6 DEF RunTypeOK
<1> QED
  BY <1>p, <1>1, <1>5, <1>6, <1>7, ForNext

-----------------------------------------------------------------------------
\* Failures, and what an operator adds.

LEMMA RunnerFailsStep == ASSUME RunInvariant, RunnerFails PROVE RunInvariant'
<1>p. /\ host.phase \in {"running", "ran"}
      /\ host' = [host EXCEPT !.phase = "ending", !.status = "failure", !.outcome = None]
      /\ faults' = faults + 1
      /\ UNCHANGED <<file, events, trees, asked, executions, builds>>
  BY DEF RunnerFails
<1>h. /\ host # NoHost /\ host \in Hosts
      /\ Named(file.lines, host) /\ Placed(file.lines, host, executions, trees)
  BY <1>p, TheHost
<1>w. RunTypeOK /\ file.lines \in Seq(Records) /\ Unique(file.lines)
      /\ JournalOK(file.lines, executions, builds, trees, events)
  BY WhatIsThere
<1>g. /\ host' \in Hosts /\ host' # NoHost /\ host'.phase = "ending"
      /\ host'.def = host.def /\ host'.tree = host.tree /\ host'.digest = host.digest
      /\ host'.workspace = host.workspace /\ host'.status = "failure"
  <2>1. "ending" \in Phases /\ "failure" \in Statuses
    BY SeverityFacts DEF Phases
  <2>2. host' \in Hosts
    BY <1>p, <1>h, <2>1, Zenon DEF Hosts
  <2> QED
    BY <1>p, <1>h, <2>2 DEF Hosts, NoHost
<1>1. NeedsReconciliation(file.lines) # {}
  <2>1. /\ host.next \in Steps /\ Begun(file.lines, host.next)
        /\ Finished(file.lines)[host.next] = None
    BY <1>p, <1>h DEF Placed, Between
  <2>2. host.next \in NeedsReconciliation(file.lines)
    BY <1>w, <2>1, Interrupted
  <2> QED
    BY <2>2
<1>2. Named(file.lines, host')
  BY <1>p, <1>h, <1>g DEF Named, Preparing, Entering
<1>3. Placed(file.lines, host', executions, trees)
  BY <1>g DEF Placed, Between
<1>4. Ending(file.lines, host')
  BY <1>1, <1>g DEF Ending
<1>5. HostOK(file.lines, host', executions, trees)
  BY <1>2, <1>3, <1>4, <1>g DEF HostOK
<1>6. RunTypeOK'
  BY <1>p, <1>w, <1>g DEF RunTypeOK
<1> QED
  BY <1>p, <1>w, <1>5, <1>6, ForNext

LEMMA PublicationFailsStep == ASSUME RunInvariant, PublicationFails PROVE RunInvariant'
<1>1. /\ host' = NoHost /\ faults' = faults + 1
      /\ UNCHANGED <<file, events, trees, asked, executions, builds>>
  BY DEF PublicationFails
<1>2. RunTypeOK /\ JournalOK(file.lines, executions, builds, trees, events)
  BY WhatIsThere
<1>3. RunTypeOK'
  BY <1>1, <1>2 DEF RunTypeOK
<1> QED
  BY <1>1, <1>2, <1>3, ForNext

\* What a host may be writing.
LEMMA PendingIs ==
    ASSUME RunInvariant, host # NoHost
    PROVE  \/ Pending(host) = <<>>
           \/ \E r \in Records : Pending(host) = <<r>>
           \/ host.phase = "ran" /\
                 \E q \in Records :
                    Pending(host) = <<StepFinished(host.next, host.outcome), q>>
<1>0. host \in Hosts
  BY DEF RunInvariant, RunTypeOK
<1>h. /\ host.phase # "none" /\ host.def \in Definitions /\ host.tree \in Trees
      /\ host.status \in Statuses
  BY <1>0 DEF Hosts, Phases, Entering, Preparing, AtStep, Between
<1>q. Placed(file.lines, host, executions, trees)
  BY <1>h, TheHost
<1>1. CASE host.phase = "opening"
  <2>1. Pending(host) = <<>> \/ Pending(host) = <<ScriptDigest(host.def)>>
    BY <1>1 DEF Pending
  <2> QED
    BY <1>h, <2>1, Builders
<1>2. CASE host.phase = "identifying"
  <2>1. Pending(host) = <<>> \/ Pending(host) = <<WorkspaceIdentity(host.tree)>>
    BY <1>2 DEF Pending
  <2> QED
    BY <1>h, <2>1, Builders
<1>3. CASE host.phase = "starting"
  <2>1. Pending(host) = <<StepStarted(host.next)>>
    BY <1>3 DEF Pending
  <2>2. host.next \in Steps
    BY <1>3, <1>q DEF Placed, Between
  <2> QED
    BY <2>1, <2>2, Builders
<1>4. CASE host.phase = "ran"
  <2>1. \/ Pending(host) = <<>>
        \/ Pending(host) = <<StepFinished(host.next, host.outcome)>>
        \/ Pending(host) = <<StepFinished(host.next, host.outcome), StepReason(host.next)>>
    BY <1>4 DEF Pending
  <2>2. host.next \in Steps /\ host.outcome \in Outcomes
    BY <1>4, <1>q DEF Placed, Between
  <2>3. /\ StepFinished(host.next, host.outcome) \in Records
        /\ StepReason(host.next) \in Records
    BY <2>2, Builders
  <2> QED
    BY <1>4, <2>1, <2>3
<1>5. CASE host.phase = "committing"
  <2>1. Pending(host) = <<StageCommitted(StageOf[host.next - 1])>>
    BY <1>5 DEF Pending
  <2>2. StageOf[host.next - 1] \in Stages
    BY <1>5, <1>q, StepFacts DEF Placed, Between
  <2> QED
    BY <2>1, <2>2, Builders
<1>6. CASE host.phase = "ending"
  <2>1. Pending(host) = <<BuildFinished(host.status)>>
    BY <1>6 DEF Pending
  <2> QED
    BY <1>h, <2>1, Builders
<1>7. CASE host.phase \notin {"opening", "identifying", "starting", "ran", "committing", "ending"}
  <2>1. Pending(host) = <<>>
    BY <1>7 DEF Pending
  <2> QED
    BY <2>1
<1> QED
  BY <1>1, <1>2, <1>3, <1>4, <1>5, <1>6, <1>7

LEMMA FirstOfTwo ==
    ASSUME NEW r \in Records, NEW q \in Records
    PROVE  SubSeq(<<r, q>>, 1, 1) = <<r>>
<1>1. PICK g : g = <<r, q>>
  OBVIOUS
<1>2. g \in Seq(Records) /\ Len(g) = 2 /\ g[1] = r
  BY <1>1
<1>3. PICK c : c = SubSeq(g, 1, 1)
  OBVIOUS
<1>4. c \in Seq(Records) /\ Len(c) = 1 /\ c[1] = r
  BY <1>2, <1>3, SMT
<1>5. c = <<r>>
  BY <1>4, SMT
<1> QED
  BY <1>1, <1>3, <1>5

LEMMA KillStep == ASSUME RunInvariant, Kill PROVE RunInvariant'
<1>p. /\ host # NoHost /\ host' = NoHost /\ faults' = faults + 1
      /\ file' \in {file} \cup CutOff(file, Pending(host))
      /\ UNCHANGED <<events, trees, asked, executions, builds>>
  BY DEF Kill
<1>w. /\ RunTypeOK /\ file \in Files /\ file.lines \in Seq(Records)
      /\ JournalOK(file.lines, executions, builds, trees, events)
  BY WhatIsThere
<1>1. /\ file' \in Files
      /\ \/ file'.lines = file.lines
         \/ /\ host.phase = "ran"
            /\ file'.lines = Append(file.lines, StepFinished(host.next, host.outcome))
  <2>1. CASE file' = file
    BY <1>w, <2>1
  <2>2. CASE file' \in CutOff(file, Pending(host))
    <3>1. RepairTail(file).lines = file.lines
      BY <1>w DEF RepairTail, Files
    <3>2. PICK group : group = Pending(host)
      OBVIOUS
    <3>0. PICK n \in 0..(Len(group) - 1) :
             \E t \in {None, Undecodable, group[n + 1]} :
                file' = [lines |-> file.lines \o SubSeq(group, 1, n), torn |-> t]
      BY <2>2, <3>1, <3>2 DEF CutOff
    <3>3. PICK t \in {None, Undecodable, group[n + 1]} :
             file' = [lines |-> file.lines \o SubSeq(group, 1, n), torn |-> t]
      BY <3>0
    <3>4. file'.lines = file.lines \o SubSeq(group, 1, n) /\ file'.torn = t
      BY <3>3
    <3>5. CASE group = <<>>
      BY <3>3, <3>5, SMT
    <3>6. ASSUME NEW r \in Records, group = <<r>>
          PROVE  file' \in Files /\ file'.lines = file.lines
      <4>1. n = 0 /\ group[n + 1] = r
        BY <3>3, <3>6, SMT
      <4>2. file.lines \o SubSeq(group, 1, n) = file.lines
        BY <1>w, <3>6, <4>1, SMT
      <4>3. file' = [lines |-> file.lines, torn |-> t] /\ t \in Records \cup {None, Undecodable}
        BY <3>3, <3>6, <4>1, <4>2
      <4> QED
        BY <1>w, <4>3 DEF Files
    <3>7. ASSUME NEW r \in Records, NEW q \in Records, group = <<r, q>>
          PROVE  file' \in Files /\ file'.lines \in {file.lines, Append(file.lines, r)}
      <4>1. n \in {0, 1} /\ group[n + 1] \in Records
        BY <3>3, <3>7, SMT
      <4>2. PICK ls : ls = file.lines \o SubSeq(group, 1, n)
        OBVIOUS
      <4>3. CASE n = 0
        <5>1. ls = file.lines
          BY <1>w, <3>7, <4>2, <4>3, SMT
        <5>2. file' = [lines |-> ls, torn |-> t] /\ t \in Records \cup {None, Undecodable}
          BY <3>3, <4>1, <4>2
        <5>3. ls \in Seq(Records)
          BY <1>w, <5>1
        <5>4. file' \in Files /\ file'.lines = ls
          BY <5>2, <5>3 DEF Files
        <5> QED
          BY <5>1, <5>4
      <4>4. CASE n = 1
        <5>1. SubSeq(group, 1, n) = <<r>>
          BY <3>7, <4>4, FirstOfTwo
        <5>2. file.lines \o <<r>> = Append(file.lines, r) /\ Append(file.lines, r) \in Seq(Records)
          BY <1>w, SMT
        <5>3. ls = Append(file.lines, r) /\ ls \in Seq(Records)
          BY <4>2, <5>1, <5>2
        <5>4. file' = [lines |-> ls, torn |-> t] /\ t \in Records \cup {None, Undecodable}
          BY <3>3, <4>1, <4>2
        <5>5. file' \in Files /\ file'.lines = ls
          BY <5>3, <5>4 DEF Files
        <5> QED
          BY <5>3, <5>5
      <4> QED
        BY <4>1, <4>3, <4>4
    <3>8. \/ group = <<>>
          \/ \E r \in Records : group = <<r>>
          \/ host.phase = "ran" /\
                \E q \in Records : group = <<StepFinished(host.next, host.outcome), q>>
      BY <1>p, <3>2, PendingIs
    <3>9. host.phase = "ran" => StepFinished(host.next, host.outcome) \in Records
      BY MayFinish
    <3> QED
      BY <3>5, <3>6, <3>7, <3>8, <3>9
  <2> QED
    BY <1>p, <2>1, <2>2
<1>2. JournalOK(file'.lines, executions, builds, trees, events)
  <2>1. CASE file'.lines = file.lines
    BY <1>w, <2>1
  <2>2. CASE /\ host.phase = "ran"
             /\ file'.lines = Append(file.lines, StepFinished(host.next, host.outcome))
    <3>1. PICK ls : ls = file.lines
      OBVIOUS
    <3>2. PICK more : more = file'.lines
      OBVIOUS
    <3>3. more = Append(ls, StepFinished(host.next, host.outcome))
      BY <2>2, <3>1, <3>2
    <3>4. JournalOK(more, executions, builds, trees, events)
      BY <2>2, <3>1, <3>3, Finishes
    <3> QED
      BY <3>2, <3>4
  <2> QED
    BY <1>1, <2>1, <2>2
<1>3. RunTypeOK'
  BY <1>p, <1>w, <1>1 DEF RunTypeOK, Files
<1> QED
  BY <1>p, <1>2, <1>3, ForNext

LEMMA OperatorStep ==
    ASSUME RunInvariant, NEW s \in Steps, NEW status \in Outcomes,
           OperatorReconciles(s, status)
    PROVE  RunInvariant'
<1>p. /\ host = NoHost /\ s \in NeedsReconciliation(file.lines)
      /\ (\E t \in Trees : s \in trees[t].effects) \/ status \in {"failure", "aborted"}
      /\ file' = [file EXCEPT !.lines = Append(@, StepFinished(s, status))]
      /\ UNCHANGED <<events, trees, host, asked, executions, builds, faults>>
  BY DEF OperatorReconciles
<1>w. /\ RunTypeOK /\ file \in Files /\ file.lines \in Seq(Records) /\ Unique(file.lines)
      /\ JournalOK(file.lines, executions, builds, trees, events)
      /\ \A b \in builds : b.def # None /\ b.tree # None
  BY WhatIsThere
<1>1. PICK ls : ls = file.lines
  OBVIOUS
<1>2. PICK r : r = StepFinished(s, status)
  OBVIOUS
<1>3. r \in Records /\ r.kind = "step-finished" /\ r.step = s /\ r.value = status
  BY <1>2, Builders
<1>4. PICK more : more = Append(ls, r)
  OBVIOUS
<1>5. file'.lines = more /\ file' \in Files
  <2>1. more \in Seq(Records)
    BY <1>w, <1>1, <1>3, <1>4
  <2> QED
    BY <1>p, <1>w, <1>1, <1>2, <1>4, <2>1 DEF Files
<1>6. Begun(ls, s) /\ Finished(ls)[s] = None
  BY <1>p, <1>w, <1>1, Interrupted
<1>7. Tree(ls) # None
  BY <1>w, <1>1, <1>6 DEF JournalOK
<1>8. status \in {"success", "unstable"} => s \in trees[Tree(ls)].effects
  <2>1. ASSUME NEW t \in Trees, s \in trees[t].effects PROVE s \in trees[Tree(ls)].effects
    BY <1>w, <1>1, <2>1 DEF JournalOK
  <2> QED
    BY <1>p, <2>1
<1>9. Permitted(ls, r, trees)
  BY <1>3, <1>6, <1>7, <1>8 DEF Permitted, Fresh, Earned, Single
<1>10. JournalOK(more, executions, builds, trees, events)
  BY <1>w, <1>1, <1>3, <1>4, <1>9, JournalGrows
<1>11. RunTypeOK'
  BY <1>p, <1>w, <1>5 DEF RunTypeOK, Files
<1> QED
  BY <1>p, <1>5, <1>10, <1>11, ForNext

-----------------------------------------------------------------------------
\* The invariant, and what it says of the journal.

LEMMA InitHolds == Init => RunInvariant
<1> SUFFICES ASSUME Init PROVE RunInvariant
  OBVIOUS
<1>1. PICK ls : ls = file.lines
  OBVIOUS
<1>2. ls = <<>> /\ ls \in Seq(Records) /\ DOMAIN ls = {} /\ file.torn = None
  BY <1>1 DEF Init
<1>3. Unique(ls) /\ BoundariesOf(ls)
  BY <1>2 DEF Unique, BoundariesOf
<1>4. \A kind \in Single : First(ls, kind) = None
  BY <1>2, <1>3, FirstIs
<1>5. Digest(ls) = None /\ Tree(ls) = None
  BY <1>4 DEF Digest, Tree, Single
<1>6. ASSUME NEW s \in Steps PROVE ~Begun(ls, s) /\ Finished(ls)[s] = None
  <2>1. StartedAt(ls, s) = {k \in DOMAIN ls : ls[k].kind = "step-started" /\ ls[k].step = s}
    BY <1>2, ReadableAll
  <2>2. ~Begun(ls, s)
    BY <1>2, <2>1 DEF Begun
  <2>3. Finished(ls)[s] = None
    BY <1>2, <1>3, FinishedIs
  <2> QED
    BY <2>2, <2>3
<1>7. /\ executions = [s \in Steps |-> 0] /\ builds = {} /\ events = {}
      /\ trees = [t \in Trees |-> NoTree] /\ host = NoHost /\ asked = FALSE /\ faults = 0
  BY DEF Init
<1>8. NoTree \in [prepared : BOOLEAN, effects : SUBSET Steps] /\ NoTree.effects = {}
  BY DEF NoTree
<1>9. JournalOK(ls, executions, builds, trees, events)
  <2>1. \A s \in Steps : executions[s] = 0
    BY <1>7
  <2>2. \A t \in Trees : trees[t].effects = {}
    BY <1>7, <1>8
  <2>3. "success" # None /\ "unstable" # None
    BY NoneFacts, SeverityFacts
  <2>4. \A s \in Steps : Finished(ls)[s] \notin {"success", "unstable"}
    BY <1>6, <2>3
  <2> QED
    BY <1>3, <1>5, <1>6, <1>7, <2>1, <2>2, <2>4 DEF JournalOK
<1>10. RunTypeOK
  <2>1. file \in [lines : Seq(Records), torn : Records \cup {None, Undecodable}]
    <3>1. file = [lines |-> ls, torn |-> None]
      BY <1>2 DEF Init
    <3> QED
      BY <1>2, <3>1
  <2> QED
    BY <1>7, <1>8, <2>1 DEF RunTypeOK
<1> QED
  BY <1>1, <1>7, <1>9, <1>10 DEF RunInvariant

LEMMA NextHolds == RunInvariant /\ [Next]_vars => RunInvariant'
<1> SUFFICES ASSUME RunInvariant, [Next]_vars PROVE RunInvariant'
  OBVIOUS
<1>1. ASSUME NEW d \in Definitions, NEW t \in Trees, Invoke(d, t) PROVE RunInvariant'
  BY <1>1, InvokeStep
<1>2. CASE AlreadyTerminal
  BY <1>2, TerminalStep
<1>3. CASE Wipe
  BY <1>3, WipeStep
<1>4. CASE Materialize
  BY <1>4, MaterializeStep
<1>5. CASE RecordDigest
  BY <1>5, DigestStep
<1>6. CASE RecordWorkspace
  BY <1>6, WorkspaceStep
<1>7. CASE SkipFinished
  BY <1>7, SkipStep
<1>8. CASE PassOver
  BY <1>8, PassStep
<1>9. CASE StartStep
  BY <1>9, StartStepStep
<1>10. ASSUME NEW o \in Outcomes, Execute(o) PROVE RunInvariant'
  BY <1>10, ExecuteStep
<1>11. CASE FinishStep
  BY <1>11, FinishStepStep
<1>12. CASE CommitStage
  BY <1>12, CommitStep
<1>13. CASE Announce
  BY <1>13, AnnounceStep
<1>14. CASE EndBuild
  BY <1>14, EndStep
<1>15. CASE RunnerFails
  BY <1>15, RunnerFailsStep
<1>16. CASE PublicationFails
  BY <1>16, PublicationFailsStep
<1>17. CASE Kill
  BY <1>17, KillStep
<1>18. ASSUME NEW s \in Steps, NEW o \in Outcomes, OperatorReconciles(s, o)
       PROVE  RunInvariant'
  BY <1>18, OperatorStep
<1>19. CASE UNCHANGED vars
  <2>1. UNCHANGED <<file, events, trees, host, asked, executions, builds, faults>>
    BY <1>19 DEF vars
  <2>2. RunTypeOK'
    BY <2>1 DEF RunInvariant, RunTypeOK
  <2> QED
    BY <2>1, <2>2, ForNext DEF RunInvariant
<1> QED
  BY <1>1, <1>2, <1>3, <1>4, <1>5, <1>6, <1>7, <1>8, <1>9, <1>10, <1>11, <1>12, <1>13,
     <1>14, <1>15, <1>16, <1>17, <1>18, <1>19 DEF Next

\* The journal is well formed and every host knows where it is in it: metadata
\* before steps, one finish for each step, one terminal record, and a running
\* host's memory of the steps ahead is what the lines say (Resume.fs, build;
\* Runtime.runPersisted).
THEOREM Journal == Spec => []RunInvariant
<1> QED
  BY InitHolds, NextHolds, PTL DEF Spec

\* No step is carried out twice, whichever hosts were killed in between and
\* however often the build was invoked again (Resume.fs, shouldExecute).
THEOREM OnceEach == Spec => []ExecutedAtMostOnce
<1>1. RunInvariant => ExecutedAtMostOnce
  BY DEF RunInvariant, JournalOK, ExecutedAtMostOnce
<1> QED
  BY <1>1, Journal, PTL

\* All steps ran the recorded definition in the recorded workspace: no resume
\* mixes two builds (Program.fs, definition-changed and workspace-changed).
THEOREM OneBuildOnly == Spec => []OneBuild
<1>1. RunInvariant => OneBuild
  BY DEF RunInvariant, JournalOK, OneBuild, Digest, Tree
<1> QED
  BY <1>1, Journal, PTL

\* What a later invocation skips as done is in the workspace it resumes in: no
\* wipe took it away (Program.fs, resuming and the fresh wipe).
THEOREM SkippedIsThere == Spec => []EffectsSurvive
<1>1. RunInvariant => EffectsSurvive
  BY DEF RunInvariant, JournalOK, EffectsSurvive, Tree
<1> QED
  BY <1>1, Journal, PTL

\* A committed stage and a terminal record say of the lines before them what
\* is so: the steps are settled, and the status is the worst of theirs, or the
\* failure of a run that left a step interrupted (Runtime.runPersisted).
THEOREM Boundaries == Spec => []BoundariesAreEarned
<1>1. RunInvariant => BoundariesAreEarned
  BY DEF RunInvariant, JournalOK, BoundariesOf, Earned, BoundariesAreEarned
<1> QED
  BY <1>1, Journal, PTL

\* The worker is told of nothing that a resume could not read back (Program.fs,
\* hooks).
THEOREM ToldIsDurable == Spec => []EventsAreDurable
<1>1. RunInvariant => EventsAreDurable
  BY DEF RunInvariant, JournalOK, Durable, EventsAreDurable
<1> QED
  BY <1>1, Journal, PTL

=============================================================================
