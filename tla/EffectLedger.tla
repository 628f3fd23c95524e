---------------------------- MODULE EffectLedger ----------------------------
(***************************************************************************)
(* The external effect of an attempt (a receipt in the drop directory):    *)
(* its row in effect_checkpoints, the dispatch that moves it between the   *)
(* ledger and the destination, and the passes that classify what a lost    *)
(* dispatch left behind.  Store.fs PrepareEffect, AdvanceEffect and        *)
(* ReconcileStaleEffects, EffectDispatch.fs, the terminal path of          *)
(* Worker.fs, migration 0003.                                              *)
(*                                                                         *)
(* Every Store call is one transaction and one action; the destination is  *)
(* written between two of them.  A worker may die, and a lease may run     *)
(* out, between any two steps.  The attempt's authority is AttemptLease,   *)
(* which ExecutionAuthority implements.  There is one producer, so a key   *)
(* is an attempt; the payload names the fence, so a row's identity (fence, *)
(* owner, epoch, digest) is its fence and owner.                           *)
(***************************************************************************)
EXTENDS AttemptLease, Sequences

CONSTANT MaxRestores    \* bound: database restores

ASSUME RestoresAssumption == MaxRestores \in Nat
ASSUME NoAttemptAssumption == None \notin Attempts
ASSUME NoStateAssumption == None \notin {"prepared", "applied"}

VARIABLES
    admitted,     \* the attempts there are rows for
    checkpoint,   \* effect_checkpoints, one row per attempt
    announced,    \* per attempt, the effect.uncertain messages of the outbox
    published,    \* attempts whose terminal status was published
    worker,       \* what each worker process is doing, and for which claim
    receipts,     \* the destination: the fence in each attempt's receipt
    backup,       \* the database backup, or None
    issued,       \* history: every attempt identity ever drawn (a GUID)
    invocations,  \* history: per attempt, the invocations so far
    timeline      \* history: how often a backup was restored

database == <<fence, holder, taken, admitted, checkpoint, announced, published>>
history == <<issued, invocations, timeline>>
ledgerVars == <<database, worker, receipts, backup, history>>
-----------------------------------------------------------------------------
NoRow == [state |-> "absent", fence |-> 0, owner |-> None, from |-> None]

\* The phases that may still put the claim back, and that renew its lease.
\* After the child's exit: dispatch is before the destination check, evidence
\* before the receipt is read, reconcile before RequireReconciliation.
BeforeChild == {"claimed", "starting"}
Renewing == {"starting", "executing"}
Idle == [at |-> "idle", attempt |-> None, fence |-> 0]

At(w, phase) == worker[w].at = phase
Goto(w, phase) == worker' = [worker EXCEPT ![w].at = phase]
Stop(w) == worker' = [worker EXCEPT ![w] = Idle]

\* tryLockEffectAuthority, for the claim w works on.
Authorized(w) == Authority(worker[w].attempt, worker[w].fence, w)
\* sameEffectIdentity.
Prepared(w) == [state |-> "prepared", fence |-> worker[w].fence, owner |-> w,
                from |-> None]
OwnRow(w) ==
    /\ checkpoint[worker[w].attempt].fence = worker[w].fence
    /\ checkpoint[worker[w].attempt].owner = w

Init ==
    /\ LeaseInit
    /\ admitted = {}
    /\ checkpoint = [a \in Attempts |-> NoRow]
    /\ announced = [a \in Attempts |-> <<>>]
    /\ published = {}
    /\ worker = [w \in Owners |-> Idle]
    /\ receipts = [a \in Attempts |-> None]
    /\ backup = None
    /\ issued = {}
    /\ invocations = [a \in Attempts |-> <<>>]
    /\ timeline = 0
-----------------------------------------------------------------------------
\* A claim up to the end of its child.

Admit(a) ==
    /\ a \notin issued
    /\ admitted' = admitted \cup {a}
    /\ issued' = issued \cup {a}
    /\ UNCHANGED <<leaseVars, checkpoint, announced, published, worker, receipts,
                   backup, invocations, timeline>>

Claim(w, a) ==
    /\ At(w, "idle") /\ a \in admitted
    /\ Grant(a, w, {})
    /\ worker' = [worker EXCEPT ![w] =
           [at |-> "claimed", attempt |-> a, fence |-> fence[a] + 1]]
    /\ UNCHANGED <<admitted, checkpoint, announced, published, receipts, backup,
                   history>>

\* BeginExecution; when its reply is lost the worker leaves the claim.
BeginExecution(w) ==
    /\ At(w, "claimed") /\ Authorized(w)
    /\ Take(worker[w].attempt)
    /\ Goto(w, "starting") \/ Stop(w)
    /\ UNCHANGED <<admitted, checkpoint, announced, published, receipts, backup,
                   history>>

\* RequeueOwnedAttempt: a dependency is unavailable, or the launch was prepared
\* in vain.  No child exists.
RequeueOwnedAttempt(w) ==
    /\ worker[w].at \in BeforeChild /\ Authorized(w)
    /\ GiveBack(worker[w].attempt)
    /\ Stop(w)
    /\ UNCHANGED <<admitted, checkpoint, announced, published, receipts, backup,
                   history>>

Launch(w) ==
    /\ At(w, "starting")
    /\ Goto(w, "executing")
    /\ UNCHANGED <<database, receipts, backup, history>>

\* A natural exit, everything drained, and the lease renewed once more.
Finish(w) ==
    /\ At(w, "executing") /\ Authorized(w)
    /\ Goto(w, "dispatch")
    /\ UNCHANGED <<database, receipts, backup, history>>

\* Materialization or launch failed, a forced exit, a missing terminal record, a
\* failed snapshot.
Fail(w) ==
    /\ worker[w].at \in {"claimed", "starting", "executing"}
    /\ Goto(w, "reconcile")
    /\ UNCHANGED <<database, receipts, backup, history>>
-----------------------------------------------------------------------------
\* EffectDispatch.run.

\* Mutant: a refusal invoked nothing, so it does not stop the publication.
Disposition_AllowsRefusal(outcome) ==
    IF outcome = "uncertain" THEN "reconcile" ELSE "publish"

\* effectDispatchDisposition: only a confirmed effect allows the publication.
Disposition(outcome) ==
    IF outcome = "confirmed" THEN "publish" ELSE "reconcile"

\* Mutant: application is recorded without waiting for the invocation.
Continuation_RecordsFirst(state) ==
    CASE state = "prepared" -> "apply"
      [] state = "applied" -> "evidence"
      [] state = "confirmed" -> Disposition("confirmed")
      [] state = "uncertain" -> Disposition("uncertain")

\* Where a dispatch continues from the row that PrepareEffect returned.
Continuation(state) ==
    CASE state = "prepared" -> "invoke"
      [] state = "applied" -> "evidence"
      [] state = "confirmed" -> Disposition("confirmed")
      [] state = "uncertain" -> Disposition("uncertain")

\* PrepareEffect: a new row, or an exact replay.  When the reply is lost the
\* dispatch reports a refusal although the row is there.
PrepareEffect(w) ==
    LET a == worker[w].attempt
        row == IF checkpoint[a] = NoRow THEN Prepared(w) ELSE checkpoint[a]
    IN /\ At(w, "dispatch") /\ Authorized(w)
       /\ checkpoint[a] = NoRow \/ OwnRow(w)
       /\ checkpoint' = [checkpoint EXCEPT ![a] = row]
       /\ \E next \in {Continuation(row.state), Disposition("refused")} :
             Goto(w, next)
       /\ UNCHANGED <<leaseVars, admitted, announced, published, receipts, backup,
                   history>>

\* The destination is not the pinned one, or PrepareEffect refuses.
RefuseDispatch(w) ==
    /\ At(w, "dispatch")
    /\ Goto(w, Disposition("refused"))
    /\ UNCHANGED <<database, receipts, backup, history>>

\* writeReceipt never replaces a receipt, whatever is in it.  The invocation
\* does not look at the lease, and may fail before or after the receipt is there.
Invoke(w) ==
    LET a == worker[w].attempt IN
    /\ At(w, "invoke")
    /\ invocations' = [invocations EXCEPT ![a] =
           Append(@, [fence |-> worker[w].fence, timeline |-> timeline])]
    /\ \/ /\ receipts' = [receipts EXCEPT ![a] =
                 IF @ = None THEN worker[w].fence ELSE @]
          /\ Goto(w, "apply") \/ Goto(w, Disposition("uncertain"))
       \/ UNCHANGED receipts /\ Goto(w, Disposition("uncertain"))
    /\ UNCHANGED <<database, backup, issued, timeline>>

\* AdvanceEffect of w's own row from state before to after.  When the reply is
\* lost the dispatch reports the effect uncertain although the row advanced.
AdvanceEffect(w, before, after, next) ==
    LET a == worker[w].attempt IN
    /\ Authorized(w) /\ OwnRow(w)
    /\ checkpoint[a].state = before
    /\ checkpoint' = [checkpoint EXCEPT ![a].state = after]
    /\ Goto(w, next) \/ Goto(w, Disposition("uncertain"))
    /\ UNCHANGED <<leaseVars, admitted, announced, published, receipts, backup,
                   history>>

RecordApplied(w) ==
    At(w, "apply") /\ AdvanceEffect(w, "prepared", "applied", "evidence")
RecordConfirmed(w) ==
    /\ At(w, "confirm")
    /\ AdvanceEffect(w, "applied", "confirmed", Disposition("confirmed"))

\* Confirm reads the destination and changes nothing.
ReadEvidence(w) ==
    /\ At(w, "evidence")
    /\ receipts[worker[w].attempt] = worker[w].fence
    /\ Goto(w, "confirm")
    /\ UNCHANGED <<database, receipts, backup, history>>

\* An advance that is refused, evidence that is absent or unreadable.
GiveUpDispatch(w) ==
    /\ worker[w].at \in {"apply", "evidence", "confirm"}
    /\ Goto(w, Disposition("uncertain"))
    /\ UNCHANGED <<database, receipts, backup, history>>
-----------------------------------------------------------------------------
\* The disposition of the claim.

\* PublishTerminal; after a lost reply the worker goes on to reconcile.
PublishTerminal(w) ==
    /\ At(w, "publish") /\ Authorized(w)
    /\ Settle({worker[w].attempt})
    /\ published' = published \cup {worker[w].attempt}
    /\ Stop(w) \/ Goto(w, "reconcile")
    /\ UNCHANGED <<admitted, checkpoint, announced, receipts, backup, history>>

RefusePublication(w) ==
    /\ At(w, "publish")
    /\ Goto(w, "reconcile")
    /\ UNCHANGED <<database, receipts, backup, history>>

RequireReconciliation(w) ==
    /\ At(w, "reconcile") /\ Authorized(w)
    /\ Settle({worker[w].attempt})
    /\ Stop(w)
    /\ UNCHANGED <<admitted, checkpoint, announced, published, receipts, backup,
                   history>>

\* The worker process dies, or leaves a claim it has no authority over.
Crash(w) ==
    /\ ~At(w, "idle")
    /\ Stop(w)
    /\ UNCHANGED <<database, receipts, backup, history>>
-----------------------------------------------------------------------------
\* The clock, the other transactions on attempts, and the classification.

Ambiguous == {"prepared", "applied"}

\* Leases run out, also between two steps of their holders.
Expire(S) ==
    /\ S # {} /\ \A a \in S : holder[a] # None
    /\ Lose(S)
    /\ UNCHANGED <<admitted, checkpoint, announced, published, worker, receipts,
                   backup, history>>

\* A queued attempt is quarantined or cancelled.
SettleUntaken(a) ==
    /\ a \in admitted /\ ~taken[a] /\ holder[a] = None
    /\ Settle({a})
    /\ UNCHANGED <<admitted, checkpoint, announced, published, worker, receipts,
                   backup, history>>

\* Mutant: only a row whose attempt was offered again counts as stale.
Stale_ByFence(a) ==
    checkpoint[a].state \in Ambiguous /\ checkpoint[a].fence # fence[a]

\* liveAuthorityAbsent, for a row whose dispatch was not recorded to its end.
Stale(a) ==
    /\ checkpoint[a].state \in Ambiguous
    /\ ~Authority(a, checkpoint[a].fence, checkpoint[a].owner)

\* The rows of S become uncertain, each with one message.
Classified(rows, S) ==
    [a \in Attempts |-> IF a \in S
        THEN [rows[a] EXCEPT !.state = "uncertain", !.from = rows[a].state]
        ELSE rows[a]]
Announced(messages, rows, S) ==
    [a \in Attempts |-> IF a \in S THEN Append(messages[a], rows[a].state)
                        ELSE messages[a]]

\* One chunk of ReconcileStaleEffects: stale rows whose attempt no other
\* transaction has locked.
ReconcileStaleEffects(S) ==
    /\ S # {} /\ \A a \in S : Stale(a)
    /\ checkpoint' = Classified(checkpoint, S)
    /\ announced' = Announced(announced, checkpoint, S)
    /\ UNCHANGED <<leaseVars, admitted, published, worker, receipts, backup,
                   history>>

Quiesced == \A w \in Owners : At(w, "idle")

\* paired-backup.py, with the writers quiesced.
TakeBackup ==
    /\ backup = None /\ Quiesced
    /\ backup' = [fence |-> fence, holder |-> holder, taken |-> taken,
                  admitted |-> admitted, checkpoint |-> checkpoint, announced |-> announced,
                  published |-> published]
    /\ UNCHANGED <<database, worker, receipts, history>>

\* Mutant: a restore settles only what somebody had been offered.
Invalidated_LeavesQueued ==
    {a \in backup.admitted : backup.taken[a] \/ backup.holder[a] # None}

\* ActivateRestore settles every open attempt, the queued ones too.
Invalidated == backup.admitted

\* The database is replaced by the backup and the restore activated, with the
\* writers quiesced; ambiguous rows are classified in the same transaction.
RestoreBackup ==
    LET stale == {a \in Attempts : backup.checkpoint[a].state \in Ambiguous} IN
    /\ backup # None /\ timeline < MaxRestores /\ Quiesced
    /\ fence' = backup.fence
    /\ holder' = [a \in Attempts |-> None]
    /\ taken' = [a \in Attempts |-> backup.taken[a] \/ a \in Invalidated]
    /\ admitted' = backup.admitted
    /\ checkpoint' = Classified(backup.checkpoint, stale)
    /\ announced' = Announced(backup.announced, backup.checkpoint, stale)
    /\ published' = backup.published
    /\ timeline' = timeline + 1
    /\ UNCHANGED <<worker, receipts, backup, issued, invocations>>
-----------------------------------------------------------------------------
Work(w) ==
    \/ \E a \in Attempts : Claim(w, a)
    \/ BeginExecution(w) \/ RequeueOwnedAttempt(w) \/ Launch(w)
    \/ Finish(w) \/ Fail(w)
    \/ PrepareEffect(w) \/ RefuseDispatch(w) \/ Invoke(w)
    \/ RecordApplied(w) \/ ReadEvidence(w) \/ RecordConfirmed(w)
    \/ GiveUpDispatch(w)
    \/ PublishTerminal(w) \/ RefusePublication(w) \/ RequireReconciliation(w)
    \/ Crash(w)

Next ==
    \/ \E a \in Attempts : Admit(a) \/ SettleUntaken(a)
    \/ \E w \in Owners : Work(w)
    \/ \E S \in SUBSET Attempts : Expire(S)
    \/ \E S \in SUBSET Attempts : ReconcileStaleEffects(S)
    \/ TakeBackup
    \/ RestoreBackup

\* Nobody renews the lease of a: its holder is gone or past the last renewal.
NotRenewed(a) ==
    \A w \in Owners :
        worker[w].attempt = a /\ worker[w].fence = fence[a]
            => worker[w].at \notin Renewing

\* The clock runs, so a lease that is not renewed runs out; and the cadence of
\* reconciliationLoop comes back until it finds a stale row unlocked.
Fairness ==
    \A a \in Attempts :
        /\ WF_ledgerVars(NotRenewed(a) /\ Expire({a}))
        /\ WF_ledgerVars(ReconcileStaleEffects({a}))

SafeSpec == Init /\ [][Next]_ledgerVars
Spec == SafeSpec /\ Fairness
-----------------------------------------------------------------------------
\* An effect is invoked at most once per attempt: not again by a later holder of
\* the attempt, and not again after a restore to a backup from before it
\* (recovery.md: no replay of "an uncertain external effect automatically").
EffectAtMostOnce == \A a \in Attempts : Len(invocations[a]) <= 1

\* The ledger is ahead of the destination: no effect of this timeline without
\* its row, and what a row says was done was done for that row's claim.  It tells
\* the operators of every uncertain row once, and where that row was.
LedgerKnows ==
    \A a \in Attempts :
        /\ \A i \in DOMAIN invocations[a] :
              invocations[a][i].timeline = timeline =>
                  /\ checkpoint[a].state # "absent"
                  /\ checkpoint[a].fence = invocations[a][i].fence
        /\ \/ checkpoint[a].state \in {"applied", "confirmed"}
           \/ checkpoint[a].from = "applied"
           => receipts[a] = checkpoint[a].fence
        /\ announced[a] = IF checkpoint[a].state = "uncertain"
                          THEN <<checkpoint[a].from>> ELSE <<>>

\* No published status hides an ambiguous effect (effectDispatchDisposition's
\* comment), in any interleaving of lost replies, expiry and classification.
TerminalImpliesConfirmed ==
    \A a \in published : checkpoint[a].state = "confirmed"

\* A dispatch that was cut off does not stay unnoticed: its row is confirmed by
\* its own worker or comes to the operators as uncertain (a restore to a backup
\* from before the row is the one thing that removes it).
AmbiguityIsResolved ==
    \A a \in Attempts :
        checkpoint[a].state \in Ambiguous ~> checkpoint[a].state \notin Ambiguous

=============================================================================
