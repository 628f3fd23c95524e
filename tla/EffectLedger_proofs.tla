------------------------- MODULE EffectLedger_proofs -------------------------
(***************************************************************************)
(* Proofs about EffectLedger, for any sets of attempts and workers and any *)
(* number of offers, backups in time and restores.                         *)
(***************************************************************************)
EXTENDS EffectLedger, SequenceTheorems, TLAPS

-----------------------------------------------------------------------------
\* The inductive invariant.

Phases == {"claimed", "starting", "executing", "dispatch", "invoke",
           "apply", "evidence", "confirm", "publish", "reconcile"}

\* Of these, the phases of a claim that has not come to its row, those in which the
\* attempt is taken up and not given back, and those after the invocation.
BeforeRow == {"claimed", "starting", "executing", "dispatch"}
AfterInvoke == {"apply", "evidence", "confirm"}
Holding == {"starting", "executing", "dispatch", "invoke", "publish"} \cup AfterInvoke

RowStates == {"prepared", "applied", "confirmed", "uncertain"}
Row == [state : RowStates, fence : Nat, owner : Owners, from : Ambiguous \cup {None}]
           \cup {NoRow}
WorkerState == [at : Phases, attempt : Attempts, fence : Nat \ {0}] \cup {Idle}
Backup == [fence : [Attempts -> Nat], holder : [Attempts -> Owners \cup {None}],
           taken : [Attempts -> BOOLEAN], admitted : SUBSET Attempts,
           checkpoint : [Attempts -> Row], announced : [Attempts -> Seq(Ambiguous)],
           published : SUBSET Attempts]
Invocation == [fence : Nat, timeline : Nat]

LedgerTypeOK ==
    /\ fence \in [Attempts -> Nat]
    /\ holder \in [Attempts -> Owners \cup {None}]
    /\ taken \in [Attempts -> BOOLEAN]
    /\ admitted \in SUBSET Attempts
    /\ checkpoint \in [Attempts -> Row]
    /\ announced \in [Attempts -> Seq(Ambiguous)]
    /\ published \in SUBSET Attempts
    /\ worker \in [Owners -> WorkerState]
    /\ receipts \in [Attempts -> Nat \cup {None}]
    /\ backup \in Backup \cup {None}
    /\ issued \in SUBSET Attempts
    /\ invocations \in [Attempts -> Seq(Invocation)]
    /\ timeline \in Nat

\* What worker w may rely on, phase by phase.  A claim that took its attempt up
\* stays the last one; before its dispatch no row has its fence, at its invocation
\* there was none before, and afterwards the receipt is its own.
ClaimOK(w) ==
    LET a == worker[w].attempt
        f == worker[w].fence
    IN /\ worker[w] # Idle => f <= fence[a] /\ a \in issued
       /\ worker[w].at \in Holding => f = fence[a] /\ taken[a]
       /\ worker[w].at \in BeforeRow => checkpoint[a].fence # f
       /\ At(w, "invoke") => /\ checkpoint[a].fence = f
                             /\ checkpoint[a].state # "absent"
                             /\ invocations[a] = <<>>
       /\ worker[w].at \in AfterInvoke => /\ checkpoint[a].fence = f
                                          /\ receipts[a] = f
                                          /\ invocations[a] # <<>>
       /\ At(w, "publish") => checkpoint[a].state = "confirmed"

\* No two workers share a claim.
ClaimsDiffer ==
    \A v, w \in Owners :
        /\ worker[v] # Idle /\ worker[w] # Idle
        /\ worker[v].attempt = worker[w].attempt /\ worker[v].fence = worker[w].fence
        => v = w

\* A row is no newer than the last offer, says of the destination what is there,
\* was announced if it is uncertain, and is confirmed if a status was published.
RowOK(a, row, offered, said, settled) ==
    /\ row.fence <= offered
    /\ row.state \in {"applied", "confirmed"} \/ row.from = "applied"
          => receipts[a] = row.fence /\ invocations[a] # <<>>
    /\ said = IF row.state = "uncertain" THEN <<row.from>> ELSE <<>>
    /\ a \in settled => row.state = "confirmed"

RowsOK == \A a \in Attempts :
    RowOK(a, checkpoint[a], fence[a], announced[a], published)
BackupOK == backup # None => \A a \in Attempts :
    RowOK(a, backup.checkpoint[a], backup.fence[a], backup.announced[a],
          backup.published)

\* Nobody can ever again work on an attempt of an earlier timeline.
Over(a) ==
    /\ a \in admitted => taken[a] /\ holder[a] = None
    /\ \A w \in Owners : worker[w].attempt # a

HistoryOK ==
    /\ admitted \subseteq issued
    /\ backup # None => backup.admitted \subseteq issued
    /\ \A a \in Attempts :
          /\ Len(invocations[a]) <= 1
          /\ receipts[a] # None => invocations[a] # <<>>
          /\ \A i \in DOMAIN invocations[a] :
                /\ invocations[a][i].timeline <= timeline
                /\ a \in issued
                /\ invocations[a][i].timeline = timeline =>
                      /\ checkpoint[a].state # "absent"
                      /\ checkpoint[a].fence = invocations[a][i].fence
                /\ invocations[a][i].timeline # timeline => Over(a)

LedgerInvariant ==
    /\ LedgerTypeOK
    /\ \A w \in Owners : ClaimOK(w)
    /\ ClaimsDiffer
    /\ RowsOK
    /\ BackupOK
    /\ HistoryOK
-----------------------------------------------------------------------------
\* Typing.

LEMMA TypeInit == Init => LedgerTypeOK
  <1> SUFFICES ASSUME Init PROVE LedgerTypeOK
    OBVIOUS
  <1>1. NoRow \in Row /\ Idle \in WorkerState
    BY DEF Row, WorkerState
  <1>2. announced \in [Attempts -> Seq(Ambiguous)] /\ invocations \in [Attempts -> Seq(Invocation)]
    BY EmptySeq DEF Init
  <1> QED
    BY <1>1, <1>2 DEF Init, LeaseInit, LedgerTypeOK

\* A worker's next phase is a phase.
LEMMA PhaseTypes ==
    /\ {Disposition("confirmed"), Disposition("uncertain"), Disposition("refused")}
          \subseteq Phases
    /\ \A state \in RowStates : Continuation(state) \in Phases
  BY DEF Disposition, Continuation, Phases, RowStates

LEMMA WorkerTypes ==
    ASSUME LedgerTypeOK, NEW w \in Owners
    PROVE  /\ worker[w].at \in Phases => worker[w].attempt \in Attempts
           /\ \A phase \in Phases : worker[w].at \in Phases /\ Goto(w, phase)
                 => worker' \in [Owners -> WorkerState]
           /\ Stop(w) => worker' \in [Owners -> WorkerState]
  <1>1. worker \in [Owners -> WorkerState]
    BY DEF LedgerTypeOK
  <1>2. Idle \in WorkerState /\ Idle.at \notin Phases
    BY DEF Idle, WorkerState, Phases
  <1>3. worker[w].at \in Phases
           => worker[w] \in [at : Phases, attempt : Attempts, fence : Nat \ {0}]
    BY <1>1, <1>2 DEF WorkerState
  <1>4. ASSUME NEW phase \in Phases, worker[w].at \in Phases
        PROVE  [worker[w] EXCEPT !.at = phase] \in WorkerState
    BY <1>3, <1>4 DEF WorkerState
  <1> QED
    BY <1>1, <1>2, <1>3, <1>4 DEF Goto, Stop

LEMMA ClassifiedType ==
    ASSUME NEW rows \in [Attempts -> Row], NEW messages \in [Attempts -> Seq(Ambiguous)],
           NEW S \in SUBSET Attempts, \A a \in S : rows[a].state \in Ambiguous
    PROVE  /\ Classified(rows, S) \in [Attempts -> Row]
           /\ Announced(messages, rows, S) \in [Attempts -> Seq(Ambiguous)]
  <1>1. ASSUME NEW a \in S PROVE Append(messages[a], rows[a].state) \in Seq(Ambiguous)
    BY <1>1, AppendProperties
  <1>2. ASSUME NEW a \in S
        PROVE  [rows[a] EXCEPT !.state = "uncertain", !.from = rows[a].state] \in Row
    <2>1. rows[a] # NoRow
      BY DEF NoRow, Ambiguous
    <2> QED
      BY <2>1 DEF Row, RowStates
  <1> QED
    BY <1>1, <1>2 DEF Announced, Classified

LEMMA TypeStep ==
    ASSUME LedgerTypeOK, [Next]_ledgerVars
    PROVE  LedgerTypeOK'
  <1> USE DEF LedgerTypeOK, history, leaseVars, database
  <1>1. ASSUME UNCHANGED ledgerVars PROVE LedgerTypeOK'
    BY <1>1 DEF ledgerVars
  <1>2. ASSUME NEW a \in Attempts, Admit(a) \/ SettleUntaken(a) PROVE LedgerTypeOK'
    BY <1>2 DEF Admit, SettleUntaken, Settle, WithoutHolder, TakenWith
  <1>3. ASSUME NEW S \in SUBSET Attempts, Expire(S) PROVE LedgerTypeOK'
    BY <1>3 DEF Expire, Lose, WithoutHolder
  <1>4. ASSUME NEW S \in SUBSET Attempts, ReconcileStaleEffects(S) PROVE LedgerTypeOK'
    BY <1>4, ClassifiedType DEF ReconcileStaleEffects, Stale
  <1>5. ASSUME TakeBackup PROVE LedgerTypeOK'
    BY <1>5 DEF TakeBackup, Backup
  <1>6. ASSUME RestoreBackup PROVE LedgerTypeOK'
    <2> DEFINE stale == {a \in Attempts : backup.checkpoint[a].state \in Ambiguous}
    <2>1. backup \in Backup
      BY <1>6 DEF RestoreBackup
    <2>2. /\ Classified(backup.checkpoint, stale) \in [Attempts -> Row]
          /\ Announced(backup.announced, backup.checkpoint, stale)
                \in [Attempts -> Seq(Ambiguous)]
      BY <2>1, ClassifiedType DEF Backup
    <2>3. timeline' \in Nat
      BY <1>6 DEF RestoreBackup
    <2> QED
      BY <1>6, <2>1, <2>2, <2>3 DEF RestoreBackup, Backup, Invalidated
  <1>7. ASSUME NEW w \in Owners, Work(w) PROVE LedgerTypeOK'
    <2>a. /\ {"claimed", "starting", "executing", "dispatch", "invoke", "apply",
                "evidence", "confirm", "publish", "reconcile"} \subseteq Phases
          /\ BeforeChild \subseteq Phases
      BY DEF Phases, BeforeChild
    <2> USE DEF At
    <2>1. ASSUME NEW a \in Attempts, Claim(w, a) PROVE LedgerTypeOK'
      <3>1. fence[a] + 1 \in Nat \ {0}
        OBVIOUS
      <3> QED
        BY <2>1, <3>1, <2>a DEF Claim, Grant, WithoutHolder, TakenWith, WorkerState
    <2>2. ASSUME BeginExecution(w) \/ RequeueOwnedAttempt(w) PROVE LedgerTypeOK'
      BY <2>2, <2>a, WorkerTypes DEF BeginExecution, RequeueOwnedAttempt, Take, GiveBack
    <2>3. ASSUME Launch(w) \/ Finish(w) \/ Fail(w) \/ RefuseDispatch(w) \/ ReadEvidence(w)
                    \/ GiveUpDispatch(w) \/ RefusePublication(w)
          PROVE  LedgerTypeOK'
      <3>1. worker' \in [Owners -> WorkerState]
        BY <2>3, <2>a, PhaseTypes, WorkerTypes
           DEF Launch, Finish, Fail, RefuseDispatch, ReadEvidence, GiveUpDispatch,
               RefusePublication
      <3> QED
        BY <2>3, <3>1 DEF Launch, Finish, Fail, RefuseDispatch, ReadEvidence,
               GiveUpDispatch, RefusePublication
    <2>4. ASSUME PrepareEffect(w) PROVE LedgerTypeOK'
      <3> DEFINE a == worker[w].attempt
                 row == IF checkpoint[a] = NoRow THEN Prepared(w) ELSE checkpoint[a]
      <3>1. Prepared(w) \in Row /\ Prepared(w) # NoRow
        <4>1. worker[w].fence \in Nat
          BY DEF WorkerState, Idle
        <4> QED
          BY <4>1 DEF Prepared, Row, RowStates, NoRow
      <3>2. checkpoint' \in [Attempts -> Row]
        BY <2>4, <3>1 DEF PrepareEffect
      <3>3. Continuation(row.state) \in Phases
        <4>1. a \in Attempts
          BY <2>4, <2>a, WorkerTypes DEF PrepareEffect
        <4>2. row \in Row \ {NoRow}
          BY <3>1, <4>1
        <4>3. row.state \in RowStates
          BY <4>2 DEF Row
        <4> QED
          BY <4>3, PhaseTypes
      <3>4. worker' \in [Owners -> WorkerState]
        BY <2>4, <2>a, <3>3, PhaseTypes, WorkerTypes DEF PrepareEffect
      <3> QED
        BY <2>4, <3>2, <3>4 DEF PrepareEffect
    <2>5. ASSUME Invoke(w) PROVE LedgerTypeOK'
      <3> DEFINE a == worker[w].attempt
                 invocation == [fence |-> worker[w].fence, timeline |-> timeline]
      <3>1. worker[w].fence \in Nat /\ invocation \in Invocation
        BY DEF Invocation, WorkerState, Idle
      <3>2. invocations' \in [Attempts -> Seq(Invocation)]
        BY <2>5, <3>1, AppendProperties DEF Invoke
      <3>3. receipts' \in [Attempts -> Nat \cup {None}]
        BY <2>5, <3>1 DEF Invoke
      <3>4. worker' \in [Owners -> WorkerState]
        BY <2>5, <2>a, PhaseTypes, WorkerTypes DEF Invoke
      <3> QED
        BY <2>5, <3>2, <3>3, <3>4 DEF Invoke
    <2>6. ASSUME NEW before \in Ambiguous, NEW after \in RowStates, NEW next \in Phases,
                 worker[w].at \in Phases, AdvanceEffect(w, before, after, next)
          PROVE  LedgerTypeOK'
      <3> DEFINE a == worker[w].attempt
      <3>1. checkpoint' \in [Attempts -> Row]
        <4>1. a \in Attempts => checkpoint[a] # NoRow
          BY <2>6 DEF AdvanceEffect, Ambiguous, NoRow
        <4>2. a \in Attempts => [checkpoint[a] EXCEPT !.state = after] \in Row
          BY <4>1 DEF Row
        <4> QED
          BY <2>6, <4>2 DEF AdvanceEffect
      <3>2. worker' \in [Owners -> WorkerState]
        BY <2>6, PhaseTypes, WorkerTypes DEF AdvanceEffect
      <3> QED
        BY <2>6, <3>1, <3>2 DEF AdvanceEffect
    <2>7. ASSUME RecordApplied(w) \/ RecordConfirmed(w) PROVE LedgerTypeOK'
      BY <2>7, <2>6, <2>a, PhaseTypes DEF RecordApplied, RecordConfirmed, Ambiguous, RowStates
    <2>8. ASSUME PublishTerminal(w) \/ RequireReconciliation(w) PROVE LedgerTypeOK'
      <3>1. worker' \in [Owners -> WorkerState]
        BY <2>8, <2>a, WorkerTypes DEF PublishTerminal, RequireReconciliation
      <3>2. worker[w].attempt \in Attempts
        BY <2>8, <2>a, WorkerTypes DEF PublishTerminal, RequireReconciliation
      <3>3. published' \in SUBSET Attempts
        BY <2>8, <3>2 DEF PublishTerminal, RequireReconciliation
      <3> QED
        BY <2>8, <3>1, <3>3
           DEF PublishTerminal, RequireReconciliation, Settle, WithoutHolder, TakenWith
    <2>9. ASSUME Crash(w) PROVE LedgerTypeOK'
      BY <2>9, WorkerTypes DEF Crash
    <2> QED
      BY <1>7, <2>1, <2>2, <2>3, <2>4, <2>5, <2>7, <2>8, <2>9 DEF Work
  <1> QED
    BY <1>1, <1>2, <1>3, <1>4, <1>5, <1>6, <1>7 DEF Next
-----------------------------------------------------------------------------
\* Every step keeps the invariant.

LEMMA InvariantInit == Init => LedgerInvariant
  <1> SUFFICES ASSUME Init PROVE LedgerInvariant
    OBVIOUS
  <1>1. LedgerTypeOK
    BY TypeInit
  <1>2. \A w \in Owners : ClaimOK(w)
    BY DEF Init, LeaseInit, ClaimOK, At, Idle, Holding, BeforeRow, AfterInvoke
  <1>3. ClaimsDiffer
    BY DEF Init, ClaimsDiffer
  <1>4. RowsOK /\ BackupOK
    BY NoStateAssumption DEF Init, LeaseInit, RowsOK, RowOK, BackupOK, NoRow
  <1>5. HistoryOK
    BY DEF Init, HistoryOK
  <1> QED
    BY <1>1, <1>2, <1>3, <1>4, <1>5 DEF LedgerInvariant

\* What follows from the typing of a worker at work.
LEMMA AtWork ==
    ASSUME LedgerTypeOK, NEW w \in Owners
    PROVE  /\ worker[w].at \in Phases <=> worker[w] # Idle
           /\ worker[w] # Idle => /\ worker[w].attempt \in Attempts
                                  /\ worker[w].fence \in Nat \ {0}
           /\ worker[w] = Idle => worker[w].attempt = None /\ At(w, "idle")
  BY DEF LedgerTypeOK, WorkerState, Idle, Phases, At

LEMMA WorkerMoves ==
    ASSUME LedgerTypeOK, NEW w \in Owners, worker[w].at \in Phases
    PROVE  /\ \A next \in Phases : Goto(w, next) =>
                /\ worker'[w].at = next /\ worker'[w] # Idle
                /\ worker'[w].attempt = worker[w].attempt
                /\ worker'[w].fence = worker[w].fence
           /\ Stop(w) => worker'[w] = Idle
           /\ Stop(w) \/ (\E next \in Phases : Goto(w, next))
                => \A v \in Owners : v # w => worker'[v] = worker[v]
  <1>1. worker[w] \in [at : Phases, attempt : Attempts, fence : Nat \ {0}]
    BY DEF LedgerTypeOK, WorkerState, Idle, Phases
  <1>2. \A next \in Phases : Goto(w, next) =>
            worker' = [worker EXCEPT ![w] = [worker[w] EXCEPT !.at = next]]
    BY DEF Goto
  <1>3. \A next \in Phases : next # "idle"
    BY DEF Phases
  <1> QED
    BY <1>1, <1>2, <1>3 DEF Stop, LedgerTypeOK, Idle

LEMMA FencesAreNumbers ==
    ASSUME LedgerTypeOK, NEW a \in Attempts
    PROVE  fence[a] \in Nat /\ checkpoint[a].fence \in Nat
  BY DEF LedgerTypeOK, Row, NoRow

\* A worker goes on and changes nothing else.
LEMMA MoveStep ==
    ASSUME LedgerInvariant, LedgerTypeOK', NEW w \in Owners, NEW next \in Phases,
           worker[w].at \in Phases, Goto(w, next),
           UNCHANGED <<database, receipts, backup, history>>,
           next \in Holding => worker[w].at \in Holding,
           next \in BeforeRow => worker[w].at \in BeforeRow,
           next \in AfterInvoke => worker[w].at \in AfterInvoke,
           next \notin {"invoke", "publish"}
    PROVE  LedgerInvariant'
  <1> USE DEF LedgerInvariant, database, leaseVars, history
  <1>1. worker[w] # Idle /\ worker'[w] # Idle /\ worker'[w].at = next
    BY AtWork, WorkerMoves
  <1>2. \A v \in Owners : /\ worker'[v].attempt = worker[v].attempt
                          /\ worker'[v].fence = worker[v].fence
                          /\ v # w => worker'[v] = worker[v]
                          /\ worker'[v] = Idle <=> worker[v] = Idle
    BY <1>1, WorkerMoves
  <1>4. \A v \in Owners : ClaimOK(v)'
    BY <1>1, <1>2 DEF ClaimOK, At
  <1>5. ClaimsDiffer'
    BY <1>2 DEF ClaimsDiffer
  <1>6. RowsOK' /\ BackupOK'
    BY DEF RowsOK, RowOK, BackupOK
  <1>7. HistoryOK'
    BY <1>2 DEF HistoryOK, Over
  <1> QED
    BY <1>4, <1>5, <1>6, <1>7

\* The holder of an attempt ends or takes up its claim.  Nobody else works on that
\* claim, so what changes about the attempt's lease matters to nobody else.
LEMMA HolderStep ==
    ASSUME LedgerInvariant, LedgerTypeOK', NEW w \in Owners, worker[w].at \in Phases,
           Authorized(w),
           UNCHANGED <<fence, admitted, checkpoint, announced, receipts, backup, history>>,
           \A b \in Attempts : b # worker[w].attempt =>
               holder'[b] = holder[b] /\ taken'[b] = taken[b],
           \/ Stop(w)
           \/ /\ taken'[worker[w].attempt]
              /\ \/ At(w, "claimed") /\ Goto(w, "starting")
                 \/ Goto(w, "reconcile"),
           \/ published' = published
           \/ /\ published' = published \cup {worker[w].attempt}
              /\ At(w, "publish")
    PROVE  LedgerInvariant'
  <1> USE DEF LedgerInvariant, history
  <1> DEFINE a == worker[w].attempt
  <1>1. a \in Attempts /\ worker[w].fence = fence[a] /\ worker[w] # Idle
    BY AtWork DEF Authorized, Authority
  <1>2. \A v \in Owners : worker[v] # Idle /\ worker[v].attempt = a /\ worker[v].fence = fence[a]
                             => v = w
    BY <1>1 DEF ClaimsDiffer
  <1>3. /\ \A v \in Owners : v # w => worker'[v] = worker[v]
        /\ \/ worker'[w] = Idle
           \/ /\ worker'[w].attempt = a /\ worker'[w].fence = worker[w].fence
              /\ \/ worker'[w].at = "starting" /\ worker[w].at = "claimed"
                 \/ worker'[w].at = "reconcile"
              /\ taken'[a]
    <2>1. "starting" \in Phases /\ "reconcile" \in Phases
      BY DEF Phases
    <2> QED
      BY <2>1, WorkerMoves DEF At
  <1>4. \A v \in Owners : ClaimOK(v)'
    <2> SUFFICES ASSUME NEW v \in Owners PROVE ClaimOK(v)'
      OBVIOUS
    <2>1. CASE v = w
      BY <2>1, <1>1, <1>3 DEF ClaimOK, At, Idle, Holding, BeforeRow, AfterInvoke
    <2>2. CASE v # w
      <3>1. worker'[v] = worker[v] /\ ClaimOK(v)
        BY <2>2, <1>3
      <3>2. worker[v].at \in Holding
               => worker[v].attempt \in Attempts /\ worker[v].attempt # a
        BY <2>2, <1>2, AtWork DEF ClaimOK, Holding, AfterInvoke, Phases
      <3> QED
        BY <3>1, <3>2 DEF ClaimOK, At
    <2> QED
      BY <2>1, <2>2
  <1>5. ClaimsDiffer'
    BY <1>1, <1>3 DEF ClaimsDiffer
  <1>6. RowsOK' /\ BackupOK'
    BY <1>1 DEF RowsOK, RowOK, BackupOK, ClaimOK
  <1>7. HistoryOK'
    <2>1. \A b \in Attempts : Over(b) => Over(b)'
      BY <1>1, <1>3, NoAttemptAssumption DEF Over, Idle
    <2> QED
      BY <2>1 DEF HistoryOK
  <1> QED
    BY <1>4, <1>5, <1>6, <1>7

\* A worker dies.
LEMMA CrashStep ==
    ASSUME LedgerInvariant, LedgerTypeOK', NEW w \in Owners, Crash(w)
    PROVE  LedgerInvariant'
  <1> USE DEF LedgerInvariant, database, leaseVars, history, Crash
  <1>1. worker'[w] = Idle /\ \A v \in Owners : v # w => worker'[v] = worker[v]
    BY DEF Stop, LedgerTypeOK
  <1>2. \A v \in Owners : ClaimOK(v)'
    BY <1>1 DEF ClaimOK, At, Idle, Holding, BeforeRow, AfterInvoke
  <1>3. ClaimsDiffer'
    BY <1>1 DEF ClaimsDiffer
  <1>4. RowsOK' /\ BackupOK'
    BY DEF RowsOK, RowOK, BackupOK
  <1>5. HistoryOK'
    BY <1>1, NoAttemptAssumption DEF HistoryOK, Over, Idle
  <1> QED
    BY <1>2, <1>3, <1>4, <1>5

\* A claim is the newest of its attempt, so it is nobody else's and no row's.
LEMMA ClaimStep ==
    ASSUME LedgerInvariant, LedgerTypeOK', NEW w \in Owners, NEW a \in Attempts, Claim(w, a)
    PROVE  LedgerInvariant'
  <1> USE DEF LedgerInvariant, history, Claim
  <1>1. /\ ~taken[a] /\ fence' = [fence EXCEPT ![a] = @ + 1]
        /\ holder' = [holder EXCEPT ![a] = w] /\ taken' = taken
    BY DEF Grant, WithoutHolder, TakenWith, LedgerTypeOK
  <1>2. /\ worker'[w] = [at |-> "claimed", attempt |-> a, fence |-> fence[a] + 1]
        /\ \A v \in Owners : v # w => worker'[v] = worker[v]
    BY DEF LedgerTypeOK
  <1>3. \A b \in Attempts : fence[b] \in Nat /\ fence[b] <= fence'[b]
    BY <1>1 DEF LedgerTypeOK
  <1>4. \A v \in Owners : worker[v] # Idle /\ worker[v].attempt = a
                             => worker[v].fence < fence[a] + 1
    BY AtWork, <1>3 DEF ClaimOK
  <1>5. \A v \in Owners : ClaimOK(v)'
    <2> SUFFICES ASSUME NEW v \in Owners PROVE ClaimOK(v)'
      OBVIOUS
    <2>1. CASE v = w
      <3>1. checkpoint[a].fence <= fence[a] /\ checkpoint[a].fence \in Nat
        BY DEF RowsOK, RowOK, LedgerTypeOK, Row, NoRow
      <3> QED
        <4>1. worker'[w].at \notin Holding \cup AfterInvoke \cup {"invoke", "publish"}
          BY <1>2 DEF Holding, AfterInvoke
        <4>2. worker'[w].attempt = a /\ worker'[w].fence = fence[a] + 1
          BY <1>2
        <4>3. fence'[a] = fence[a] + 1 /\ fence[a] \in Nat
          BY <1>1, <1>3 DEF LedgerTypeOK
        <4> QED
          BY <2>1, <3>1, <4>1, <4>2, <4>3 DEF ClaimOK, At, HistoryOK
    <2>2. CASE v # w
      <3>1. worker'[v] = worker[v] /\ ClaimOK(v)
        BY <2>2, <1>2
      <3>2. worker[v].at \in Holding
               => worker[v].attempt \in Attempts /\ worker[v].attempt # a
        BY <1>1, <3>1, AtWork DEF ClaimOK, Holding, AfterInvoke, Phases
      <3> QED
        BY <3>1, <3>2, <1>1, <1>3, AtWork DEF ClaimOK, At
    <2> QED
      BY <2>1, <2>2
  <1>6. ClaimsDiffer'
    <2>1. worker'[w].attempt = a /\ worker'[w].fence = fence[a] + 1 /\ fence[a] \in Nat
      BY <1>2, <1>3
    <2> QED
      BY <2>1, <1>2, <1>4, AtWork DEF ClaimsDiffer
  <1>7. RowsOK' /\ BackupOK'
    <2>1. \A b \in Attempts : checkpoint[b].fence <= fence'[b]
      BY <1>3, FencesAreNumbers DEF RowsOK, RowOK, LedgerTypeOK
    <2> QED
      BY <2>1 DEF RowsOK, RowOK, BackupOK
  <1>8. HistoryOK'
    <2>1. ~Over(a)
      BY <1>1 DEF Over
    <2>2. \A b \in Attempts : Over(b) => Over(b)'
      BY <2>1, <1>1, <1>2 DEF Over, LedgerTypeOK
    <2> QED
      BY <2>2 DEF HistoryOK
  <1> QED
    BY <1>5, <1>6, <1>7, <1>8

\* The first row of a claim: nothing of this timeline was invoked before it, and
\* nobody works on an attempt of an earlier one.
LEMMA PrepareStep ==
    ASSUME LedgerInvariant, LedgerTypeOK', NEW w \in Owners, PrepareEffect(w)
    PROVE  LedgerInvariant'
  <1> USE DEF LedgerInvariant, history, leaseVars
  <1> DEFINE a == worker[w].attempt
             f == worker[w].fence
  <1>1. /\ At(w, "dispatch") /\ worker[w].at \in Phases /\ worker[w] # Idle
        /\ a \in Attempts /\ f \in Nat \ {0} /\ f = fence[a] /\ checkpoint[a].fence # f
    BY AtWork DEF PrepareEffect, At, Phases, ClaimOK, Holding, BeforeRow
  <1>2. checkpoint[a] = NoRow /\ checkpoint' = [checkpoint EXCEPT ![a] = Prepared(w)]
    BY <1>1 DEF PrepareEffect, OwnRow
  <1>3. Goto(w, "invoke") \/ Goto(w, "reconcile")
    BY <1>2 DEF PrepareEffect, Continuation, Disposition, Prepared
  <1>4. /\ \A v \in Owners : v # w => worker'[v] = worker[v]
        /\ worker'[w].at \in {"invoke", "reconcile"} /\ worker'[w] # Idle
        /\ worker'[w].attempt = a /\ worker'[w].fence = f
    BY <1>1, <1>3, WorkerMoves DEF Phases
  <1>5. /\ checkpoint'[a].state = "prepared" /\ checkpoint'[a].fence = f
        /\ checkpoint'[a].from = None
        /\ \A b \in Attempts : b # a => checkpoint'[b] = checkpoint[b]
    BY <1>1, <1>2 DEF Prepared, LedgerTypeOK
  <1>6. invocations[a] = <<>>
    <2>1. \A i \in DOMAIN invocations[a] : FALSE
      BY <1>1, <1>2 DEF HistoryOK, Over, NoRow
    <2>2. /\ invocations[a] \in Seq(Invocation) /\ Len(invocations[a]) \in Nat
          /\ DOMAIN invocations[a] = 1..Len(invocations[a])
      BY <1>1, LenProperties DEF LedgerTypeOK
    <2>3. Len(invocations[a]) > 0 => 1 \in DOMAIN invocations[a]
      BY <2>2
    <2>4. Len(invocations[a]) = 0
      BY <2>1, <2>2, <2>3
    <2> QED
      BY <2>2, <2>4, EmptySeq
  <1>7. \A v \in Owners : ClaimOK(v)'
    <2> SUFFICES ASSUME NEW v \in Owners PROVE ClaimOK(v)'
      OBVIOUS
    <2>1. CASE v = w
      BY <2>1, <1>1, <1>4, <1>5, <1>6 DEF PrepareEffect, ClaimOK, At, Holding, BeforeRow, AfterInvoke
    <2>2. CASE v # w
      <3>1. worker'[v] = worker[v] /\ ClaimOK(v)
        BY <2>2, <1>4
      <3>2. worker[v] # Idle /\ worker[v].attempt = a => worker[v].fence # f
        BY <2>2, <1>1 DEF ClaimsDiffer
      <3>3. worker[v].at \in BeforeRow \cup AfterInvoke \cup {"invoke", "publish"}
               => worker[v] # Idle /\ worker[v].attempt \in Attempts
        BY AtWork DEF BeforeRow, AfterInvoke, Phases
      <3>4. worker[v].at \in AfterInvoke \cup {"invoke", "publish"}
               => worker[v].attempt # a
        BY <1>1, <3>1, <3>2, <3>3 DEF ClaimOK, Holding
      <3> QED
        BY <3>1, <3>2, <3>3, <3>4, <1>5 DEF PrepareEffect, ClaimOK, At
    <2> QED
      BY <2>1, <2>2
  <1>8. ClaimsDiffer'
    BY <1>1, <1>4 DEF ClaimsDiffer
  <1>9. RowsOK' /\ BackupOK'
    <2>1. RowOK(a, checkpoint[a], fence[a], announced[a], published)
      BY <1>1 DEF RowsOK
    <2>2. a \notin published
      BY <1>2, <2>1 DEF RowOK, NoRow
    <2>3. announced[a] = <<>>
      BY <1>2, <2>1 DEF RowOK, NoRow
    <2> QED
      BY <2>2, <2>3, <1>1, <1>5, NoStateAssumption, SMTT(30)
         DEF PrepareEffect, RowsOK, RowOK, BackupOK
  <1>10. HistoryOK'
    <2>1. \A b \in Attempts : Over(b) => Over(b)'
      BY <1>1, <1>4 DEF Over, PrepareEffect
    <2> QED
      BY <2>1, <1>5, <1>6 DEF HistoryOK, PrepareEffect
  <1> QED
    BY <1>7, <1>8, <1>9, <1>10

\* The one invocation: the row is there, and no earlier invocation.
LEMMA InvokeStep ==
    ASSUME LedgerInvariant, LedgerTypeOK', NEW w \in Owners, Invoke(w)
    PROVE  LedgerInvariant'
  <1> USE DEF LedgerInvariant, history, leaseVars, database
  <1> DEFINE a == worker[w].attempt
             f == worker[w].fence
  <1>1. /\ At(w, "invoke") /\ worker[w].at \in Phases /\ worker[w] # Idle
        /\ a \in Attempts /\ f \in Nat \ {0} /\ f = fence[a] /\ checkpoint[a].fence = f
        /\ checkpoint[a].state # "absent" /\ invocations[a] = <<>>
    BY AtWork DEF Invoke, At, Phases, ClaimOK, Holding
  <1>2. receipts[a] = None
    BY <1>1 DEF HistoryOK
  <1>3. /\ invocations'[a] = <<[fence |-> f, timeline |-> timeline]>>
        /\ \A b \in Attempts : b # a => invocations'[b] = invocations[b]
                                    /\ receipts'[b] = receipts[b]
    BY <1>1 DEF Invoke, LedgerTypeOK
  <1>4. \/ Goto(w, "apply") /\ receipts'[a] = f
        \/ Goto(w, "reconcile")
    BY <1>1, <1>2 DEF Invoke, Disposition, LedgerTypeOK
  <1>5. /\ \A v \in Owners : v # w => worker'[v] = worker[v]
        /\ (worker'[w].at = "apply" /\ receipts'[a] = f) \/ worker'[w].at = "reconcile"
        /\ worker'[w] # Idle
        /\ worker'[w].attempt = a /\ worker'[w].fence = f
    BY <1>1, <1>4, WorkerMoves DEF Phases
  <1>6. invocations'[a] # <<>> /\ Len(invocations'[a]) = 1 /\ DOMAIN invocations'[a] = {1}
    BY <1>3
  <1>7. \A v \in Owners : ClaimOK(v)'
    <2> SUFFICES ASSUME NEW v \in Owners PROVE ClaimOK(v)'
      OBVIOUS
    <2>1. CASE v = w
      BY <2>1, <1>1, <1>5, <1>6 DEF Invoke, ClaimOK, At, Holding, BeforeRow, AfterInvoke
    <2>2. CASE v # w
      <3>1. worker'[v] = worker[v] /\ ClaimOK(v)
        BY <2>2, <1>5
      <3>2. worker[v] # Idle /\ worker[v].attempt = a => worker[v].fence # f
        BY <2>2, <1>1 DEF ClaimsDiffer
      <3>3. worker[v].at \in AfterInvoke \cup {"invoke"}
               => worker[v].attempt \in Attempts /\ worker[v].attempt # a
        BY <1>1, <3>1, <3>2, AtWork DEF ClaimOK, Holding, AfterInvoke, Phases
      <3> QED
        BY <3>1, <3>3, <1>3 DEF Invoke, ClaimOK, At
    <2> QED
      BY <2>1, <2>2
  <1>8. ClaimsDiffer'
    BY <1>1, <1>5 DEF ClaimsDiffer
  <1>9. RowsOK' /\ BackupOK'
    <2>1. /\ checkpoint[a].state \notin {"applied", "confirmed"}
          /\ checkpoint[a].from # "applied"
          /\ backup # None =>
                /\ backup.checkpoint[a].state \notin {"applied", "confirmed"}
                /\ backup.checkpoint[a].from # "applied"
      BY <1>1 DEF RowsOK, BackupOK, RowOK
    <2> QED
      BY <2>1, <1>3, SMTT(30) DEF Invoke, RowsOK, RowOK, BackupOK
  <1>10. HistoryOK'
    <2>1. \A b \in Attempts : Over(b) => Over(b)'
      BY <1>1, <1>5 DEF Over, Invoke
    <2>2. a \in issued
      BY <1>1 DEF ClaimOK
    <2>3. invocations'[a][1].timeline = timeline /\ invocations'[a][1].fence = f
      BY <1>3
    <2> QED
      BY <2>1, <2>2, <2>3, <1>1, <1>3, <1>6 DEF HistoryOK, Invoke, LedgerTypeOK
  <1> QED
    BY <1>7, <1>8, <1>9, <1>10

\* The holder of a row advances it; the evidence it goes by is its own receipt.
LEMMA AdvanceStep ==
    ASSUME LedgerInvariant, LedgerTypeOK', NEW w \in Owners,
           RecordApplied(w) \/ RecordConfirmed(w)
    PROVE  LedgerInvariant'
  <1> USE DEF LedgerInvariant, history, leaseVars
  <1> DEFINE a == worker[w].attempt
             f == worker[w].fence
  <1>1. PICK before, after, next :
            /\ AdvanceEffect(w, before, after, next)
            /\ <<before, after, next>> \in {<<"prepared", "applied", "evidence">>,
                                            <<"applied", "confirmed", "publish">>}
            /\ worker[w].at \in {"apply", "confirm"}
    BY DEF RecordApplied, RecordConfirmed, Disposition, At
  <1>2. /\ worker[w].at \in AfterInvoke /\ worker[w].at \in Phases /\ worker[w] # Idle
        /\ a \in Attempts /\ f = fence[a] /\ taken[a]
        /\ checkpoint[a].fence = f /\ receipts[a] = f /\ invocations[a] # <<>>
    BY <1>1, AtWork DEF AfterInvoke, Phases, ClaimOK, Holding
  <1>3. /\ checkpoint[a].state = before /\ checkpoint'[a].state = after
        /\ checkpoint'[a].fence = f /\ checkpoint'[a].from = checkpoint[a].from
        /\ \A b \in Attempts : b # a => checkpoint'[b] = checkpoint[b]
    <2>1. checkpoint[a] \in [state : RowStates, fence : Nat, owner : Owners,
                             from : Ambiguous \cup {None}]
      BY <1>1, <1>2 DEF AdvanceEffect, LedgerTypeOK, Row, NoRow
    <2>2. checkpoint' = [checkpoint EXCEPT ![a] = [checkpoint[a] EXCEPT !.state = after]]
      BY <1>1 DEF AdvanceEffect
    <2> QED
      BY <1>1, <1>2, <2>1, <2>2 DEF AdvanceEffect, LedgerTypeOK
  <1>4. /\ \A v \in Owners : v # w => worker'[v] = worker[v]
        /\ worker'[w].at \in {next, "reconcile"} /\ worker'[w] # Idle
        /\ worker'[w].attempt = a /\ worker'[w].fence = f
    <2>1. Goto(w, next) \/ Goto(w, "reconcile")
      BY <1>1 DEF AdvanceEffect, Disposition
    <2>2. next \in Phases /\ "reconcile" \in Phases
      BY <1>1 DEF Phases
    <2> QED
      BY <1>2, <2>1, <2>2, WorkerMoves
  <1>5. \A v \in Owners : ClaimOK(v)'
    <2> SUFFICES ASSUME NEW v \in Owners PROVE ClaimOK(v)'
      OBVIOUS
    <2>1. CASE v = w
      BY <2>1, <1>1, <1>2, <1>3, <1>4
         DEF AdvanceEffect, ClaimOK, At, Holding, BeforeRow, AfterInvoke
    <2>2. CASE v # w
      <3>1. worker'[v] = worker[v] /\ ClaimOK(v)
        BY <2>2, <1>4
      <3>2. worker[v] # Idle /\ worker[v].attempt = a => worker[v].fence # f
        BY <2>2, <1>2 DEF ClaimsDiffer
      <3>3. worker[v].at \in BeforeRow \cup AfterInvoke \cup {"invoke", "publish"}
               => worker[v] # Idle /\ worker[v].attempt \in Attempts
        BY AtWork DEF BeforeRow, AfterInvoke, Phases
      <3>4. worker[v].at \in AfterInvoke \cup {"invoke", "publish"}
               => worker[v].attempt # a
        BY <1>2, <3>1, <3>2, <3>3 DEF ClaimOK, Holding
      <3> QED
        BY <1>1, <3>1, <3>2, <3>3, <3>4, <1>3 DEF AdvanceEffect, ClaimOK, At
    <2> QED
      BY <2>1, <2>2
  <1>6. ClaimsDiffer'
    BY <1>2, <1>4 DEF ClaimsDiffer
  <1>7. RowsOK' /\ BackupOK'
    BY <1>1, <1>2, <1>3 DEF AdvanceEffect, RowsOK, RowOK, BackupOK
  <1>8. HistoryOK'
    <2>1. \A b \in Attempts : Over(b) => Over(b)'
      BY <1>1, <1>2, <1>4 DEF Over, AdvanceEffect
    <2> QED
      BY <2>1, <1>1, <1>2, <1>3 DEF HistoryOK, AdvanceEffect
  <1> QED
    BY <1>5, <1>6, <1>7, <1>8

\* Transactions that no worker takes part in.

LEMMA AdmitStep ==
    ASSUME LedgerInvariant, LedgerTypeOK', NEW a \in Attempts, Admit(a)
    PROVE  LedgerInvariant'
  <1> USE DEF LedgerInvariant, leaseVars, Admit
  <1>1. \A w \in Owners : ClaimOK(w)'
    BY DEF ClaimOK, At
  <1>2. ClaimsDiffer' /\ RowsOK' /\ BackupOK'
    BY DEF ClaimsDiffer, RowsOK, RowOK, BackupOK
  <1>3. HistoryOK'
    BY DEF HistoryOK, Over
  <1> QED
    BY <1>1, <1>2, <1>3

\* Leases that run out and queued attempts that are settled.
LEMMA ReleaseStep ==
    ASSUME LedgerInvariant, LedgerTypeOK',
           UNCHANGED <<fence, admitted, checkpoint, announced, published, worker,
                       receipts, backup, history>>,
           \A a \in Attempts : /\ holder'[a] \in {holder[a], None}
                               /\ taken[a] => taken'[a]
    PROVE  LedgerInvariant'
  <1> USE DEF LedgerInvariant, history
  <1>1. \A w \in Owners : ClaimOK(w)'
    BY AtWork DEF ClaimOK, At, Holding, AfterInvoke, Phases
  <1>2. ClaimsDiffer' /\ RowsOK' /\ BackupOK'
    BY DEF ClaimsDiffer, RowsOK, RowOK, BackupOK
  <1>3. HistoryOK'
    BY DEF HistoryOK, Over
  <1> QED
    BY <1>1, <1>2, <1>3

\* A row that becomes uncertain keeps what RowOK says of it.
LEMMA ClassifiedRow ==
    ASSUME NEW rows \in [Attempts -> Row], NEW messages \in [Attempts -> Seq(Ambiguous)],
           NEW S \in SUBSET Attempts, \A b \in S : rows[b].state \in Ambiguous,
           NEW a \in Attempts, NEW f, NEW settled,
           RowOK(a, rows[a], f, messages[a], settled)
    PROVE  /\ RowOK(a, Classified(rows, S)[a], f, Announced(messages, rows, S)[a], settled)
           /\ Classified(rows, S)[a].fence = rows[a].fence
           /\ Classified(rows, S)[a].state = "absent" => rows[a].state = "absent"
           /\ rows[a].state \notin Ambiguous => Classified(rows, S)[a] = rows[a]
           /\ Classified(rows, S)[a].state = "confirmed" <=> rows[a].state = "confirmed"
  <1>1. CASE a \notin S
    BY <1>1 DEF Classified, Announced
  <1>2. CASE a \in S
    <2>1. rows[a] \in [state : RowStates, fence : Nat, owner : Owners,
                       from : Ambiguous \cup {None}]
      BY <1>2 DEF Row, NoRow, Ambiguous
    <2>2. /\ Classified(rows, S)[a] = [rows[a] EXCEPT !.state = "uncertain", !.from = rows[a].state]
          /\ Announced(messages, rows, S)[a] = Append(messages[a], rows[a].state)
      BY <1>2 DEF Classified, Announced
    <2>3. /\ Classified(rows, S)[a].state = "uncertain"
          /\ Classified(rows, S)[a].from = rows[a].state
          /\ Classified(rows, S)[a].fence = rows[a].fence
      BY <2>1, <2>2
    <2>4. messages[a] = <<>> /\ rows[a].state \in Ambiguous /\ a \notin settled
      BY <1>2 DEF RowOK, Ambiguous
    <2>5. Announced(messages, rows, S)[a] = <<rows[a].state>>
      BY <2>2, <2>4
    <2> QED
      BY <2>3, <2>4, <2>5 DEF RowOK, Ambiguous
  <1> QED
    BY <1>1, <1>2

LEMMA ReconcileStep ==
    ASSUME LedgerInvariant, LedgerTypeOK', NEW S \in SUBSET Attempts, ReconcileStaleEffects(S)
    PROVE  LedgerInvariant'
  <1> USE DEF LedgerInvariant, leaseVars, history
  <1>1. \A a \in S : checkpoint[a].state \in Ambiguous
    BY DEF ReconcileStaleEffects, Stale
  <1>2. ASSUME NEW a \in Attempts
        PROVE  /\ RowOK(a, checkpoint'[a], fence[a], announced'[a], published)
               /\ checkpoint'[a].fence = checkpoint[a].fence
               /\ checkpoint'[a].state = "absent" => checkpoint[a].state = "absent"
               /\ checkpoint'[a].state = "confirmed" <=> checkpoint[a].state = "confirmed"
    <2>1. RowOK(a, checkpoint[a], fence[a], announced[a], published)
      BY DEF RowsOK
    <2>2. checkpoint \in [Attempts -> Row] /\ announced \in [Attempts -> Seq(Ambiguous)]
      BY DEF LedgerTypeOK
    <2>3. RowOK(a, Classified(checkpoint, S)[a], fence[a],
                Announced(announced, checkpoint, S)[a], published)
      BY <1>1, <2>1, <2>2, ClassifiedRow
    <2>4. Classified(checkpoint, S)[a].fence = checkpoint[a].fence
      BY <1>1, <2>1, <2>2, ClassifiedRow
    <2>5. Classified(checkpoint, S)[a].state = "absent" => checkpoint[a].state = "absent"
      BY <1>1, <2>1, <2>2, ClassifiedRow
    <2>6. Classified(checkpoint, S)[a].state = "confirmed"
              <=> checkpoint[a].state = "confirmed"
      BY <1>1, <2>2 DEF Classified, Row, Ambiguous
    <2>7. /\ checkpoint' = Classified(checkpoint, S)
          /\ announced' = Announced(announced, checkpoint, S)
      BY DEF ReconcileStaleEffects
    <2> QED
      BY <2>3, <2>4, <2>5, <2>6, <2>7
  <1>3. \A w \in Owners : ClaimOK(w)'
    BY <1>2, AtWork DEF ReconcileStaleEffects, ClaimOK, At, BeforeRow, AfterInvoke, Phases
  <1>4. ClaimsDiffer' /\ RowsOK' /\ BackupOK'
    BY <1>2 DEF ReconcileStaleEffects, ClaimsDiffer, RowsOK, RowOK, BackupOK
  <1>5. HistoryOK'
    BY <1>2 DEF ReconcileStaleEffects, HistoryOK, Over
  <1> QED
    BY <1>3, <1>4, <1>5

LEMMA BackupStep ==
    ASSUME LedgerInvariant, LedgerTypeOK', TakeBackup
    PROVE  LedgerInvariant'
  <1> USE DEF LedgerInvariant, database, leaseVars, history, TakeBackup
  <1>1. \A w \in Owners : ClaimOK(w)'
    BY DEF ClaimOK, At
  <1>2. ClaimsDiffer' /\ RowsOK'
    BY DEF ClaimsDiffer, RowsOK, RowOK
  <1>3. BackupOK'
    BY DEF RowsOK, RowOK, BackupOK
  <1>4. HistoryOK'
    BY DEF HistoryOK, Over
  <1> QED
    BY <1>1, <1>2, <1>3, <1>4

\* What was invoked before a restore is over: its attempt is settled if the backup
\* knows it, and unknown for ever otherwise.
LEMMA RestoreStep ==
    ASSUME LedgerInvariant, LedgerTypeOK', RestoreBackup
    PROVE  LedgerInvariant'
  <1> USE DEF LedgerInvariant
  <1> DEFINE stale == {a \in Attempts : backup.checkpoint[a].state \in Ambiguous}
  <1>1. /\ backup \in Backup /\ backup # None
        /\ \A w \in Owners : worker[w] = Idle /\ worker'[w] = Idle
    BY DEF RestoreBackup, Quiesced, At, LedgerTypeOK, WorkerState, Phases
  <1>2. \A w \in Owners : ClaimOK(w)'
    BY <1>1 DEF ClaimOK, At, Idle, Holding, BeforeRow, AfterInvoke
  <1>3. ClaimsDiffer'
    BY <1>1 DEF ClaimsDiffer
  <1>4. RowsOK'
    <2> SUFFICES ASSUME NEW a \in Attempts
                 PROVE RowOK(a, checkpoint[a], fence[a], announced[a], published)'
      BY DEF RowsOK
    <2>1. RowOK(a, backup.checkpoint[a], backup.fence[a], backup.announced[a],
                backup.published)
      BY <1>1 DEF BackupOK
    <2>2. /\ backup.checkpoint \in [Attempts -> Row]
          /\ backup.announced \in [Attempts -> Seq(Ambiguous)]
      BY <1>1 DEF Backup
    <2>3. RowOK(a, Classified(backup.checkpoint, stale)[a], backup.fence[a],
                Announced(backup.announced, backup.checkpoint, stale)[a],
                backup.published)
      <3>1. /\ stale \in SUBSET Attempts
            /\ \A b \in stale : backup.checkpoint[b].state \in Ambiguous
        OBVIOUS
      <3> HIDE DEF stale
      <3> QED
        BY <2>1, <2>2, <3>1, ClassifiedRow
    <2> QED
      BY <2>3 DEF RestoreBackup, RowOK
  <1>5. BackupOK'
    BY DEF RestoreBackup, BackupOK, RowOK
  <1>6. HistoryOK'
    <2>1. timeline \in Nat /\ timeline' = timeline + 1
      BY DEF RestoreBackup, LedgerTypeOK
    <2>2. \A a \in Attempts : Over(a)'
      <3>1. \A a \in Attempts : /\ a \in admitted' => taken'[a]
                                /\ holder'[a] = None
        BY DEF RestoreBackup, Invalidated
      <3>2. \A a \in Attempts : \A w \in Owners : worker'[w].attempt # a
        BY <1>1, NoAttemptAssumption DEF Idle
      <3> QED
        BY <3>1, <3>2 DEF Over
    <2>3. \A a \in Attempts : \A i \in DOMAIN invocations[a] :
             invocations[a][i].timeline <= timeline /\ invocations[a][i].timeline \in Nat
      <3> SUFFICES ASSUME NEW a \in Attempts, NEW i \in DOMAIN invocations[a]
                   PROVE  /\ invocations[a][i].timeline <= timeline
                          /\ invocations[a][i].timeline \in Nat
        OBVIOUS
      <3>1. invocations[a] \in Seq(Invocation)
        BY DEF LedgerTypeOK
      <3>2. i \in 1..Len(invocations[a])
        BY <3>1, LenProperties
      <3>3. invocations[a][i] \in Invocation
        BY <3>1, <3>2, ElementOfSeq
      <3> QED
        BY <3>3 DEF HistoryOK, Invocation
    <2>4. \A a \in Attempts : \A i \in DOMAIN invocations[a] :
             invocations[a][i].timeline <= timeline' /\ invocations[a][i].timeline # timeline'
      BY <2>1, <2>3
    <2> QED
      BY <1>1, <2>2, <2>4 DEF RestoreBackup, HistoryOK
  <1> QED
    BY <1>2, <1>3, <1>4, <1>5, <1>6

LEMMA InvariantStep ==
    ASSUME LedgerInvariant, [Next]_ledgerVars
    PROVE  LedgerInvariant'
  <1>a. LedgerTypeOK'
    BY TypeStep DEF LedgerInvariant
  <1>b. LedgerTypeOK
    BY DEF LedgerInvariant
  <1>1. ASSUME UNCHANGED ledgerVars PROVE LedgerInvariant'
    BY <1>1 DEF ledgerVars, database, leaseVars, history, LedgerInvariant, LedgerTypeOK,
                ClaimOK, At, ClaimsDiffer, RowsOK, RowOK, BackupOK, HistoryOK, Over
  <1>2. ASSUME NEW a \in Attempts, Admit(a) PROVE LedgerInvariant'
    BY <1>a, <1>2, AdmitStep
  <1>3. ASSUME NEW a \in Attempts, SettleUntaken(a) PROVE LedgerInvariant'
    BY <1>a, <1>b, <1>3, ReleaseStep
       DEF SettleUntaken, Settle, WithoutHolder, TakenWith, LedgerTypeOK
  <1>4. ASSUME NEW S \in SUBSET Attempts, Expire(S) PROVE LedgerInvariant'
    BY <1>a, <1>b, <1>4, ReleaseStep DEF Expire, Lose, WithoutHolder, LedgerTypeOK
  <1>5. ASSUME NEW S \in SUBSET Attempts, ReconcileStaleEffects(S) PROVE LedgerInvariant'
    BY <1>a, <1>5, ReconcileStep
  <1>6. ASSUME TakeBackup PROVE LedgerInvariant'
    BY <1>a, <1>6, BackupStep
  <1>7. ASSUME RestoreBackup PROVE LedgerInvariant'
    BY <1>a, <1>7, RestoreStep
  <1>8. ASSUME NEW w \in Owners, Work(w) PROVE LedgerInvariant'
    <2>1. ASSUME NEW a \in Attempts, Claim(w, a) PROVE LedgerInvariant'
      BY <1>a, <2>1, ClaimStep
    <2>2. ASSUME \/ BeginExecution(w) \/ RequeueOwnedAttempt(w)
                 \/ PublishTerminal(w) \/ RequireReconciliation(w)
          PROVE  LedgerInvariant'
      <3>1. worker[w].at \in Phases /\ worker[w].attempt \in Attempts
        BY <1>b, <2>2, AtWork DEF BeginExecution, RequeueOwnedAttempt, PublishTerminal,
                                  RequireReconciliation, At, BeforeChild, Phases
      <3>2. CASE BeginExecution(w)
        BY <1>a, <1>b, <3>1, <3>2, HolderStep DEF BeginExecution, Take, LedgerTypeOK
      <3>3. CASE RequeueOwnedAttempt(w)
        BY <1>a, <1>b, <3>1, <3>3, HolderStep DEF RequeueOwnedAttempt, GiveBack, LedgerTypeOK
      <3>4. CASE PublishTerminal(w)
        BY <1>a, <1>b, <3>1, <3>4, HolderStep
           DEF PublishTerminal, Settle, WithoutHolder, TakenWith, LedgerTypeOK
      <3>5. CASE RequireReconciliation(w)
        BY <1>a, <1>b, <3>1, <3>5, HolderStep
           DEF RequireReconciliation, Settle, WithoutHolder, TakenWith, LedgerTypeOK
      <3> QED
        BY <2>2, <3>2, <3>3, <3>4, <3>5
    <2>3. ASSUME \/ Launch(w) \/ Finish(w) \/ Fail(w) \/ RefuseDispatch(w) \/ ReadEvidence(w)
                 \/ GiveUpDispatch(w) \/ RefusePublication(w)
          PROVE  LedgerInvariant'
      <3>1. PICK next \in {"executing", "dispatch", "reconcile", "confirm"} :
               /\ Goto(w, next)
               /\ worker[w].at \in Phases
               /\ next \in Holding => worker[w].at \in Holding
               /\ next \in BeforeRow => worker[w].at \in BeforeRow
               /\ next \in AfterInvoke => worker[w].at \in AfterInvoke
        BY <2>3 DEF Launch, Finish, Fail, RefuseDispatch, ReadEvidence, GiveUpDispatch,
                    RefusePublication, Disposition, At, Phases, Holding, BeforeRow, AfterInvoke
      <3>2. UNCHANGED <<database, receipts, backup, history>>
        BY <2>3 DEF Launch, Finish, Fail, RefuseDispatch, ReadEvidence, GiveUpDispatch,
                    RefusePublication
      <3>3. next \in Phases /\ next \notin {"invoke", "publish"}
        BY DEF Phases
      <3> QED
        BY <1>a, <3>1, <3>2, <3>3, MoveStep
    <2>4. ASSUME PrepareEffect(w) PROVE LedgerInvariant'
      BY <1>a, <2>4, PrepareStep
    <2>5. ASSUME Invoke(w) PROVE LedgerInvariant'
      BY <1>a, <2>5, InvokeStep
    <2>6. ASSUME RecordApplied(w) \/ RecordConfirmed(w) PROVE LedgerInvariant'
      BY <1>a, <2>6, AdvanceStep
    <2>7. ASSUME Crash(w) PROVE LedgerInvariant'
      BY <1>a, <2>7, CrashStep
    <2> QED
      BY <1>8, <2>1, <2>2, <2>3, <2>4, <2>5, <2>6, <2>7 DEF Work
  <1> QED
    BY <1>1, <1>2, <1>3, <1>4, <1>5, <1>6, <1>7, <1>8 DEF Next

\* The invariant holds throughout, whatever workers die, leases run out, replies
\* are lost and backups are restored (EffectDispatch.fs, ReconcileStaleEffects,
\* ActivateRestore).
THEOREM Ledger == SafeSpec => []LedgerInvariant
  <1>1. Init => LedgerInvariant
    BY InvariantInit
  <1>2. LedgerInvariant /\ [Next]_ledgerVars => LedgerInvariant'
    BY InvariantStep
  <1> QED
    BY <1>1, <1>2, PTL DEF SafeSpec

\* An attempt's effect is invoked at most once, by whichever claim and in whichever
\* timeline (EffectDispatch.run, recovery.md).
THEOREM AtMostOnce == SafeSpec => []EffectAtMostOnce
  <1>1. LedgerInvariant => EffectAtMostOnce
    BY DEF LedgerInvariant, HistoryOK, EffectAtMostOnce
  <1> QED
    BY <1>1, Ledger, PTL

\* The ledger never lags the destination, and every uncertain row was announced once
\* (PrepareEffect before the invocation, AdvanceEffect after it, classifyChunk).
THEOREM Knowledge == SafeSpec => []LedgerKnows
  <1>1. LedgerInvariant => LedgerKnows
    BY DEF LedgerInvariant, RowsOK, RowOK, HistoryOK, LedgerKnows
  <1> QED
    BY <1>1, Ledger, PTL

\* No terminal status is published over an effect that is not confirmed
\* (effectDispatchDisposition).
THEOREM NoStatusHidesAnEffect == SafeSpec => []TerminalImpliesConfirmed
  <1>1. LedgerInvariant => TerminalImpliesConfirmed
    BY DEF LedgerInvariant, LedgerTypeOK, RowsOK, RowOK, TerminalImpliesConfirmed
  <1> QED
    BY <1>1, Ledger, PTL
=============================================================================
