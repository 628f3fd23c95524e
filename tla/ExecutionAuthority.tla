------------------------- MODULE ExecutionAuthority -------------------------
(***************************************************************************)
(* Controller truth: the builds, nodes and attempts rows of one            *)
(* organization and every Store transaction that moves them                *)
(* (src/src/Fogell.Store/Store.fs, migrations 0001-0011).  A Store method  *)
(* is one database transaction that locks the rows it decides on, so it is *)
(* one action here; the interleaving is between the transactions of        *)
(* several workers, the API, the recovery tool and the clock.              *)
(*                                                                         *)
(* Left out: placement (trust pool, capabilities) and FIFO order, so a     *)
(* claim may pick any eligible attempt, which is also what SKIP LOCKED     *)
(* allows under contention; nodes other than the one node AdmitBuild       *)
(* creates; retention tombstones (migration 0017).                         *)
(***************************************************************************)
EXTENDS Integers, Sequences

CONSTANTS
    Builds,         \* build identities (each has one node)
    Attempts,       \* attempt identities; GUIDs, so never reused
    LocalWorkers,   \* lease owners named "local:...", the in-process workers
    Agents,         \* other lease owners, of the offer/accept protocol
    Results,        \* the BuildStatus values a caller may publish
    AttemptLimits,  \* the attempt limits retry callers pass
    LeaseTerm,      \* clock ticks a granted or renewed lease lasts
    MaxFence,       \* bound: offers of one attempt
    MaxEpoch,       \* bound: restore activations
    None            \* SQL NULL

Owners == LocalWorkers \cup Agents
WireStatuses == {"not_built", "success", "unstable", "failure", "aborted"}

ASSUME ResultsAssumption == Results \subseteq WireStatuses
ASSUME LimitsAssumption == AttemptLimits \subseteq Nat \ {0}
ASSUME LeaseAssumption == LeaseTerm \in Nat \ {0}
ASSUME BoundsAssumption == MaxFence \in Nat /\ MaxEpoch \in Nat
ASSUME NoneAssumption == None \notin Builds \cup Attempts \cup Owners
ASSUME OwnersAssumption == LocalWorkers \cap Agents = {}

VARIABLES
    attempts,         \* the attempts table
    nodes,            \* status of each build's node
    builds,           \* the builds table, with its build_definitions row
    retry_decisions,  \* the retry_decisions table, by parent attempt
    restore_epoch,    \* controller_metadata.restore_epoch
    outbox,           \* per build, the events and outbox rows in commit order
    claims,           \* every (attempt, fence, owner) ever handed to a caller
    executing         \* claims whose child process may still exist

vars == <<attempts, nodes, builds, retry_decisions, restore_epoch, outbox,
          claims, executing>>
-----------------------------------------------------------------------------
ActiveStates ==
    {"offered", "accepted", "running", "finalizing", "cancelling"}
AttemptStates ==
    ActiveStates \cup {"absent", "queued", "reconciliation_required", "terminal"}

\* The statuses RequestCancellation refuses; "not_built" is not among them.
CancellationRefused ==
    {"success", "unstable", "failure", "aborted", "succeeded", "failed"}
LineageStatuses ==
    WireStatuses \cup {"absent", "queued", "running", "reconciliation_required"}

ASSUME NullAssumption == None \notin LineageStatuses

Attempt ==
    [state : AttemptStates, fence : Nat, restore_epoch : Nat,
     lease_owner : Owners \cup {None}, lease_left : 0..LeaseTerm,
     result : WireStatuses \cup {None}, ordinal : Nat,
     retry_of : Attempts \cup {None}, build : Builds \cup {None}]
Build ==
    [status : LineageStatuses, cancellation_requested : BOOLEAN,
     definition_intact : BOOLEAN]
Decision ==
    [outcome : {None, "child_created", "budget_exhausted"},
     child : Attempts \cup {None}, attempt_limit : Nat]
Claim == [attempt : Attempts, fence : Nat, owner : Owners]

\* One publication: the event and the outbox row of a transaction.  status is
\* what the body says of the build, diagnostic whether the transaction also
\* appended an infrastructure diagnostic to the build log, fence the authority
\* it was made under (0 when no lease holder made it).
Message ==
    [topic : {"build.admitted", "build.terminal",
              "build.reconciliation_required", "retry.decided"},
     attempt : Attempts, status : LineageStatuses \cup {None},
     diagnostic : BOOLEAN, fence : Nat]

Msg(topic, a, status, diagnostic, fence) ==
    [topic |-> topic, attempt |-> a, status |-> status,
     diagnostic |-> diagnostic, fence |-> fence]

AbsentAttempt ==
    [state |-> "absent", fence |-> 0, restore_epoch |-> 0,
     lease_owner |-> None, lease_left |-> 0, result |-> None,
     ordinal |-> 0, retry_of |-> None, build |-> None]
QueuedAttempt(b, ordinal, retryOf) ==
    [AbsentAttempt EXCEPT !.state = "queued", !.restore_epoch = restore_epoch,
                          !.ordinal = ordinal, !.retry_of = retryOf, !.build = b]
NoDecision == [outcome |-> None, child |-> None, attempt_limit |-> 0]

BuildOf(a) == attempts[a].build
ClaimOf(a, w) == [attempt |-> a, fence |-> attempts[a].fence + 1, owner |-> w]

\* A row after its lease is granted to w under the next fence.
Offered(row, w) ==
    [row EXCEPT !.state = "offered", !.fence = row.fence + 1,
                !.lease_owner = w, !.lease_left = LeaseTerm]
\* Mutant: giving a lease up forgets how often the attempt was offered.
Released_ForgetsFence(row, s) ==
    [row EXCEPT !.state = s, !.lease_owner = None, !.lease_left = 0, !.fence = 0]

\* A row whose lease ends with it in state s.
Released(row, s) ==
    [row EXCEPT !.state = s, !.lease_owner = None, !.lease_left = 0]

RollUp(b, status) ==
    /\ nodes' = [nodes EXCEPT ![b] = status]
    /\ builds' = [builds EXCEPT ![b].status = status]
Publish(b, m) == outbox' = [outbox EXCEPT ![b] = Append(outbox[b], m)]

\* The attempts in S, one per build, are moved to reconciliation_required with
\* their lineage; every build in S's lineage publishes it.
Reconcile(S, diagnostic) ==
    LET lineage == {BuildOf(a) : a \in S}
        cause(b) == CHOOSE a \in S : BuildOf(a) = b
    IN /\ nodes' = [b \in Builds |->
              IF b \in lineage THEN "reconciliation_required" ELSE nodes[b]]
       /\ builds' = [b \in Builds |->
              IF b \in lineage
              THEN [builds[b] EXCEPT !.status = "reconciliation_required"]
              ELSE builds[b]]
       /\ outbox' = [b \in Builds |->
              IF b \in lineage
              THEN Append(outbox[b], Msg("build.reconciliation_required",
                       cause(b), "reconciliation_required", diagnostic, 0))
              ELSE outbox[b]]
-----------------------------------------------------------------------------
Init ==
    /\ attempts = [a \in Attempts |-> AbsentAttempt]
    /\ nodes = [b \in Builds |-> "absent"]
    /\ builds = [b \in Builds |-> [status |-> "absent",
                                   cancellation_requested |-> FALSE,
                                   definition_intact |-> FALSE]]
    /\ retry_decisions = [a \in Attempts |-> NoDecision]
    /\ restore_epoch = 0
    /\ outbox = [b \in Builds |-> <<>>]
    /\ claims = {}
    /\ executing = {}

\* AdmitBuild of a fresh idempotency key.  An exact replay of a key returns
\* the first admission and changes nothing.
AdmitBuild(b, a) ==
    /\ builds[b].status = "absent"
    /\ attempts[a].state = "absent"
    /\ attempts' = [attempts EXCEPT ![a] = QueuedAttempt(b, 0, None)]
    /\ nodes' = [nodes EXCEPT ![b] = "queued"]
    /\ builds' = [builds EXCEPT ![b] = [status |-> "queued",
                                        cancellation_requested |-> FALSE,
                                        definition_intact |-> TRUE]]
    /\ Publish(b, Msg("build.admitted", a, "queued", FALSE, 0))
    /\ UNCHANGED <<retry_decisions, restore_epoch, claims, executing>>

\* Storage damage the claim's digest comparison exists to catch.  Only a queued
\* build's definition is ever read again, so only there does it matter.
DamageDefinition(b) ==
    /\ builds[b].status = "queued" /\ builds[b].definition_intact
    /\ builds' = [builds EXCEPT ![b].definition_intact = FALSE]
    /\ UNCHANGED <<attempts, nodes, retry_decisions, restore_epoch, outbox,
                   claims, executing>>

-----------------------------------------------------------------------------
\* The predicates of claims and of lease authority.

\* What ClaimNextExecution's candidate query selects.
ClaimableExecution(a) ==
    /\ attempts[a].state = "queued"
    /\ nodes[BuildOf(a)] = "queued"
    /\ builds[BuildOf(a)].status = "queued"

\* Mutant: the fence comparison is dropped; owner, lease and epoch remain.
LeaseHeld_AnyFence(c) ==
    /\ attempts[c.attempt].lease_owner = c.owner
    /\ attempts[c.attempt].lease_left > 0
    /\ attempts[c.attempt].restore_epoch = restore_epoch

LeaseHeld(c) ==
    /\ attempts[c.attempt].fence = c.fence
    /\ attempts[c.attempt].lease_owner = c.owner
    /\ attempts[c.attempt].lease_left > 0
    /\ attempts[c.attempt].restore_epoch = restore_epoch

\* lockExecutionAuthority: the caller's fence, owner and epoch are current,
\* its lease has not expired and the attempt is in one of the states.
Authority(c, states) ==
    /\ LeaseHeld(c)
    /\ attempts[c.attempt].state \in states

-----------------------------------------------------------------------------
\* Claims.

\* ClaimNextExecution: candidates with a missing or damaged definition are
\* quarantined (without a log diagnostic) until a sound one is offered.
ClaimNextExecution(w, quarantined, a) ==
    /\ \A q \in quarantined :
          ClaimableExecution(q) /\ ~builds[BuildOf(q)].definition_intact
    /\ ClaimableExecution(a) /\ builds[BuildOf(a)].definition_intact
    /\ attempts[a].fence < MaxFence
    /\ attempts' = [x \in Attempts |->
           IF x = a THEN Offered(attempts[x], w)
           ELSE IF x \in quarantined
                THEN Released(attempts[x], "reconciliation_required")
                ELSE attempts[x]]
    /\ Reconcile(quarantined, FALSE)
    /\ claims' = claims \cup {ClaimOf(a, w)}
    /\ UNCHANGED <<retry_decisions, restore_epoch, executing>>

\* ClaimNextExecution when every candidate is refused: Ok None, committed.
QuarantineOnly(quarantined) ==
    /\ quarantined # {}
    /\ \A q \in quarantined :
          ClaimableExecution(q) /\ ~builds[BuildOf(q)].definition_intact
    /\ attempts' = [x \in Attempts |->
           IF x \in quarantined
           THEN Released(attempts[x], "reconciliation_required")
           ELSE attempts[x]]
    /\ Reconcile(quarantined, FALSE)
    /\ UNCHANGED <<retry_decisions, restore_epoch, claims, executing>>

\* ClaimNext, the agent scheduler's claim: no look at node, build, definition.
ClaimNext(w, a) ==
    /\ attempts[a].state = "queued"
    /\ attempts[a].fence < MaxFence
    /\ attempts' = [attempts EXCEPT ![a] = Offered(attempts[a], w)]
    /\ claims' = claims \cup {ClaimOf(a, w)}
    /\ UNCHANGED <<nodes, builds, retry_decisions, restore_epoch, outbox,
                   executing>>

\* OfferAttempt: an attempt already offered may be offered again, live or not.
OfferAttempt(w, a) ==
    /\ attempts[a].state \in {"queued", "offered"}
    /\ attempts[a].fence < MaxFence
    /\ attempts' = [attempts EXCEPT ![a] = Offered(attempts[a], w)]
    /\ claims' = claims \cup {ClaimOf(a, w)}
    /\ UNCHANGED <<nodes, builds, retry_decisions, restore_epoch, outbox,
                   executing>>

\* AcceptAttempt checks the lease and the fence, but neither the restore epoch
\* nor the build's cancellation.  The agent then runs the work.
AcceptAttempt(c) ==
    LET a == c.attempt IN
    /\ attempts[a].state = "offered"
    /\ attempts[a].fence = c.fence
    /\ attempts[a].lease_owner = c.owner
    /\ attempts[a].lease_left > 0
    /\ attempts' = [attempts EXCEPT ![a].state = "running"]
    /\ RollUp(BuildOf(a), "running")
    /\ executing' = executing \cup {c}
    /\ UNCHANGED <<retry_decisions, restore_epoch, outbox, claims>>

-----------------------------------------------------------------------------
\* The lease holder's transactions.

\* publishLockedTerminal, under the authority its callers have locked.
PublishLockedTerminal(c, status) ==
    LET a == c.attempt IN
    /\ attempts' = [attempts EXCEPT ![a] =
           [Released(attempts[a], "terminal") EXCEPT !.result = status]]
    /\ nodes' = [nodes EXCEPT ![BuildOf(a)] = status]
    /\ builds' = [builds EXCEPT ![BuildOf(a)].status = status,
                                ![BuildOf(a)].cancellation_requested = FALSE]
    /\ Publish(BuildOf(a), Msg("build.terminal", a, status, FALSE, c.fence))
    /\ UNCHANGED <<retry_decisions, restore_epoch, claims, executing>>

\* BeginExecution answering ExecutionStarted; the worker then launches a child.
BeginExecution(c) ==
    LET a == c.attempt IN
    /\ Authority(c, {"offered"})
    /\ ~builds[BuildOf(a)].cancellation_requested
    /\ attempts' = [attempts EXCEPT ![a].state = "running",
                                    ![a].lease_left = LeaseTerm]
    /\ RollUp(BuildOf(a), "running")
    /\ executing' = executing \cup {c}
    /\ UNCHANGED <<retry_decisions, restore_epoch, outbox, claims>>

\* BeginExecution answering ExecutionCancelledBeforeStart.
CancelBeforeStart(c) ==
    /\ Authority(c, {"offered"})
    /\ builds[BuildOf(c.attempt)].cancellation_requested
    /\ PublishLockedTerminal(c, "aborted")

RenewLease(c) ==
    /\ Authority(c, ActiveStates)
    /\ attempts' = [attempts EXCEPT ![c.attempt].lease_left = LeaseTerm]
    /\ UNCHANGED <<nodes, builds, retry_decisions, restore_epoch, outbox,
                   claims, executing>>

\* Mutant: the caller's result is published whatever the build row says.
PublishTerminal_IgnoresCancellation(c, result) ==
    /\ c \notin executing
    /\ Authority(c, ActiveStates)
    /\ PublishLockedTerminal(c, result)

\* PublishTerminal: a cancellation already on the build row decides the result.
\* Its only caller publishes after the child's process groups are extinct.
PublishTerminal(c, result) ==
    /\ c \notin executing
    /\ Authority(c, ActiveStates)
    /\ PublishLockedTerminal(c,
           IF builds[BuildOf(c.attempt)].cancellation_requested
           THEN "aborted" ELSE result)

\* Mutant: the attempt is queued again, its lineage is left running.
RequeueOwnedAttempt_AttemptOnly(c) ==
    LET a == c.attempt IN
    /\ c \notin executing
    /\ Authority(c, ActiveStates)
    /\ attempts' = [attempts EXCEPT ![a] = Released(attempts[a], "queued")]
    /\ UNCHANGED <<nodes, builds, retry_decisions, restore_epoch, outbox,
                   claims, executing>>

\* RequeueOwnedAttempt: callers hold proof that no child of the claim exists.
RequeueOwnedAttempt(c) ==
    LET a == c.attempt IN
    /\ c \notin executing
    /\ Authority(c, ActiveStates)
    /\ attempts' = [attempts EXCEPT ![a] = Released(attempts[a], "queued")]
    /\ RollUp(BuildOf(a), "queued")
    /\ UNCHANGED <<retry_decisions, restore_epoch, outbox, claims, executing>>

\* RequireReconciliation, with the child dead or not.
RequireReconciliation(c) ==
    LET a == c.attempt IN
    /\ Authority(c, ActiveStates)
    /\ attempts' = [attempts EXCEPT ![a] =
           Released(attempts[a], "reconciliation_required")]
    /\ RollUp(BuildOf(a), "reconciliation_required")
    /\ Publish(BuildOf(a), Msg("build.reconciliation_required", a,
                               "reconciliation_required", TRUE, c.fence))
    /\ UNCHANGED <<retry_decisions, restore_epoch, claims, executing>>

\* The child of a claim, and everything it started, is gone.
ChildExtinct(c) ==
    /\ executing' = executing \ {c}
    /\ UNCHANGED <<attempts, nodes, builds, retry_decisions, restore_epoch,
                   outbox, claims>>

-----------------------------------------------------------------------------
\* Recovery, restore, cancellation and retry.

ExpiredLocal ==
    {a \in Attempts : /\ attempts[a].lease_owner \in LocalWorkers
                      /\ attempts[a].lease_left = 0
                      /\ attempts[a].state \in ActiveStates}

\* Mutant: lease expiry is taken for child termination.
RequeueExpiredLocalAttempts_Requeues ==
    /\ ExpiredLocal # {}
    /\ attempts' = [x \in Attempts |->
           IF x \in ExpiredLocal THEN Released(attempts[x], "queued")
           ELSE attempts[x]]
    /\ nodes' = [b \in Builds |-> IF \E a \in ExpiredLocal : BuildOf(a) = b
                                  THEN "queued" ELSE nodes[b]]
    /\ builds' = [b \in Builds |-> IF \E a \in ExpiredLocal : BuildOf(a) = b
                       THEN [builds[b] EXCEPT !.status = "queued"] ELSE builds[b]]
    /\ UNCHANGED <<retry_decisions, restore_epoch, outbox, claims, executing>>

\* Mutant: expiry before launch is published like expiry after it.
RequeueExpiredLocalAttempts_PublishesAll ==
    /\ ExpiredLocal # {}
    /\ attempts' = [x \in Attempts |->
           IF x \notin ExpiredLocal THEN attempts[x]
           ELSE IF attempts[x].state = "offered"
                THEN Released(attempts[x], "queued")
                ELSE Released(attempts[x], "reconciliation_required")]
    /\ Reconcile(ExpiredLocal, TRUE)
    /\ UNCHANGED <<retry_decisions, restore_epoch, claims, executing>>

\* RequeueExpiredLocalAttempts: before launch back to the queue, after it to
\* reconciliation_required.  There is no restore epoch check.
RequeueExpiredLocalAttempts ==
    /\ ExpiredLocal # {}
    /\ attempts' = [x \in Attempts |->
           IF x \notin ExpiredLocal THEN attempts[x]
           ELSE IF attempts[x].state = "offered"
                THEN Released(attempts[x], "queued")
                ELSE Released(attempts[x], "reconciliation_required")]
    /\ Reconcile({a \in ExpiredLocal : attempts[a].state # "offered"}, TRUE)
    /\ UNCHANGED <<retry_decisions, restore_epoch, claims, executing>>

\* Mutant: a restore leaves what nobody has claimed yet alone.
Invalidated_LeavesQueued(epoch) ==
    {a \in Attempts : /\ attempts[a].restore_epoch < epoch
                      /\ attempts[a].state \in ActiveStates}

\* Mutant: a restore invalidates whatever carries an older epoch.
Invalidated_AnyState(epoch) ==
    {a \in Attempts : /\ attempts[a].restore_epoch < epoch
                      /\ attempts[a].state # "absent"}

\* What a restore to the given epoch invalidates.
Invalidated(epoch) ==
    {a \in Attempts : /\ attempts[a].restore_epoch < epoch
                      /\ attempts[a].state \in ActiveStates \cup {"queued"}}

ActivateRestore ==
    /\ restore_epoch < MaxEpoch
    /\ restore_epoch' = restore_epoch + 1
    /\ attempts' = [x \in Attempts |->
           IF x \in Invalidated(restore_epoch + 1)
           THEN Released(attempts[x], "reconciliation_required")
           ELSE attempts[x]]
    /\ Reconcile(Invalidated(restore_epoch + 1), TRUE)
    /\ UNCHANGED <<retry_decisions, claims, executing>>

\* RequestCancellation answering CancellationAccepted.
RequestCancellation(b) ==
    /\ builds[b].status \notin CancellationRefused \cup {"absent"}
    /\ ~builds[b].cancellation_requested
    /\ builds' = [builds EXCEPT ![b].cancellation_requested = TRUE]
    /\ UNCHANGED <<attempts, nodes, retry_decisions, restore_epoch, outbox,
                   claims, executing>>

\* A fresh decision may be taken on parent: an earlier one is replayed instead.
Undecided(parent) ==
    /\ attempts[parent].state = "terminal"
    /\ retry_decisions[parent] = NoDecision
    /\ attempts[parent].restore_epoch = restore_epoch

\* Mutant, the body of migration 0004: a retry is announced without the status
\* it gives the build.
CreateRetryChild_Unannounced(parent, limit, child) ==
    LET b == BuildOf(parent) IN
    /\ Undecided(parent)
    /\ attempts[parent].ordinal + 1 < limit
    /\ attempts[child].state = "absent"
    /\ nodes[b] = attempts[parent].result
    /\ builds[b].status = attempts[parent].result
    /\ attempts' = [attempts EXCEPT ![child] =
           QueuedAttempt(b, attempts[parent].ordinal + 1, parent)]
    /\ RollUp(b, "queued")
    /\ retry_decisions' = [retry_decisions EXCEPT ![parent] =
           [outcome |-> "child_created", child |-> child,
            attempt_limit |-> limit]]
    /\ Publish(b, Msg("retry.decided", parent, None, FALSE, 0))
    /\ UNCHANGED <<restore_epoch, claims, executing>>

\* DecideRetry below the limit: a queued child, and its lineage reopened.  The
\* transaction is rolled back unless node and build stand at parent's result.
CreateRetryChild(parent, limit, child) ==
    LET b == BuildOf(parent) IN
    /\ Undecided(parent)
    /\ attempts[parent].ordinal + 1 < limit
    /\ attempts[child].state = "absent"
    /\ nodes[b] = attempts[parent].result
    /\ builds[b].status = attempts[parent].result
    /\ attempts' = [attempts EXCEPT ![child] =
           QueuedAttempt(b, attempts[parent].ordinal + 1, parent)]
    /\ RollUp(b, "queued")
    /\ retry_decisions' = [retry_decisions EXCEPT ![parent] =
           [outcome |-> "child_created", child |-> child,
            attempt_limit |-> limit]]
    /\ Publish(b, Msg("retry.decided", parent, "queued", FALSE, 0))
    /\ UNCHANGED <<restore_epoch, claims, executing>>

\* DecideRetry at the limit: a dead letter; the build stays as it is.
ExhaustRetryBudget(parent, limit) ==
    /\ Undecided(parent)
    /\ attempts[parent].ordinal + 1 >= limit
    /\ retry_decisions' = [retry_decisions EXCEPT ![parent] =
           [outcome |-> "budget_exhausted", child |-> None,
            attempt_limit |-> limit]]
    /\ Publish(BuildOf(parent), Msg("retry.decided", parent, None, FALSE, 0))
    /\ UNCHANGED <<attempts, nodes, builds, restore_epoch, claims, executing>>

\* The database clock passes one tick for every lease.
Tick ==
    /\ \E a \in Attempts : attempts[a].lease_left > 0
    /\ attempts' = [a \in Attempts |->
           [attempts[a] EXCEPT !.lease_left = IF @ > 0 THEN @ - 1 ELSE 0]]
    /\ UNCHANGED <<nodes, builds, retry_decisions, restore_epoch, outbox,
                   claims, executing>>

-----------------------------------------------------------------------------
ClaimHolder(c) ==
    \/ BeginExecution(c)
    \/ CancelBeforeStart(c)
    \/ RenewLease(c)
    \/ \E result \in Results : PublishTerminal(c, result)
    \/ RequeueOwnedAttempt(c)
    \/ RequireReconciliation(c)

Next ==
    \/ \E b \in Builds, a \in Attempts : AdmitBuild(b, a)
    \/ \E b \in Builds : DamageDefinition(b)
    \/ \E w \in LocalWorkers, Q \in SUBSET Attempts, a \in Attempts :
          ClaimNextExecution(w, Q, a)
    \/ \E Q \in SUBSET Attempts : QuarantineOnly(Q)
    \/ \E w \in Agents, a \in Attempts : ClaimNext(w, a)
    \/ \E w \in Agents, a \in Attempts : OfferAttempt(w, a)
    \/ \E c \in claims : c.owner \in Agents /\ AcceptAttempt(c)
    \/ \E c \in claims : ClaimHolder(c)
    \/ \E c \in executing : ChildExtinct(c)
    \/ RequeueExpiredLocalAttempts
    \/ ActivateRestore
    \/ \E b \in Builds : RequestCancellation(b)
    \/ \E p, child \in Attempts, limit \in AttemptLimits :
          CreateRetryChild(p, limit, child)
    \/ \E p \in Attempts, limit \in AttemptLimits :
          ExhaustRetryBudget(p, limit)
    \/ Tick

Spec == Init /\ [][Next]_vars
-----------------------------------------------------------------------------
\* Typing.

\* Every row keeps the columns and the ranges the schema gives it; a lease never
\* has more left than the term it was granted or renewed for.
TypeOK ==
    /\ attempts \in [Attempts -> Attempt]
    /\ nodes \in [Builds -> LineageStatuses]
    /\ builds \in [Builds -> Build]
    /\ retry_decisions \in [Attempts -> Decision]
    /\ restore_epoch \in Nat
    /\ outbox \in [Builds -> Seq(Message)]
    /\ claims \subseteq Claim
    /\ executing \subseteq Claim

-----------------------------------------------------------------------------
\* Safety.

Exists(a) == attempts[a].state # "absent"
Unsettled(a) == attempts[a].state \in ActiveStates \cup {"queued"}
Settled(a) == attempts[a].state \in {"terminal", "reconciliation_required"}
\* An attempt no retry has replaced.
Newest(a) == Exists(a) /\ \A x \in Attempts : attempts[x].retry_of # a

\* The status an attempt gives the build it is the newest attempt of.
StatusOf(row) ==
    CASE row.state \in {"queued", "offered"} -> "queued"
      [] row.state = "terminal" -> row.result
      [] OTHER -> row.state

\* The three tables agree: every transaction that moves an attempt rolls its
\* node and build up to the status of the newest attempt, so that a queued
\* attempt is always claimable and a settled one always visible as settled.
LineageAgrees ==
    \A a \in Attempts : Newest(a) =>
        /\ nodes[BuildOf(a)] = StatusOf(attempts[a])
        /\ builds[BuildOf(a)].status = StatusOf(attempts[a])

\* DecideRetry decides once: the attempts of a build form one chain in which
\* each attempt but the newest is terminal, names its only successor in its
\* decision, and was below the limit the decision records.
RetryChain ==
    /\ \A a1, a2 \in Attempts :
          Newest(a1) /\ Newest(a2) /\ BuildOf(a1) = BuildOf(a2) => a1 = a2
    /\ \A a \in Attempts : Exists(a) /\ attempts[a].retry_of # None =>
          LET parent == attempts[a].retry_of IN
          /\ attempts[parent].state = "terminal"
          /\ BuildOf(parent) = BuildOf(a)
          /\ attempts[a].ordinal = attempts[parent].ordinal + 1
          /\ retry_decisions[parent].child = a
          /\ attempts[a].ordinal < retry_decisions[parent].attempt_limit

\* A fence is handed out once: two holders never share an (attempt, fence) pair,
\* through requeues, expired offers and restores, and no holder has a fence the
\* attempt has not reached (ADR 0007; OfferAttempt's comment).
ClaimsNeverShared ==
    \A c1 \in claims :
        /\ c1.fence <= attempts[c1.attempt].fence
        /\ \A c2 \in claims :
              c1.attempt = c2.attempt /\ c1.fence = c2.fence => c1 = c2

\* No build has two executions at once: a child left behind by a lost worker
\* keeps its attempt out of the queue (RequeueExpiredLocalAttempts' comment),
\* and neither a restore nor a retry starts the build a second time beside it.
OneChildPerBuild ==
    \A c1, c2 \in executing :
        BuildOf(c1.attempt) = BuildOf(c2.attempt) => c1 = c2

\* Once a restore is activated nothing from before it can be claimed or
\* published: AcceptAttempt, OfferAttempt, ClaimNext and the lease recovery do
\* not compare epochs themselves and rely on this.
NoStaleEpoch ==
    \A a \in Attempts : Unsettled(a) => attempts[a].restore_epoch = restore_epoch

\* Message i of b's says something of its status, and no later one does.
TellsLast(b, i) ==
    /\ outbox[b][i].status # None
    /\ \A j \in DOMAIN outbox[b] : j > i => outbox[b][j].status = None
\* An outbox consumer that applies the messages of a build in order ends at the
\* build's status; running is the one status that is not announced.
OutboxTellsStatus ==
    \A b \in Builds : \A i \in DOMAIN outbox[b] : TellsLast(b, i) =>
        IF outbox[b][i].status = "queued"
        THEN builds[b].status \in {"queued", "running"}
        ELSE builds[b].status = outbox[b][i].status

\* The indices of the messages that settle attempt a.
Settlements(a) ==
    {i \in DOMAIN outbox[BuildOf(a)] :
        /\ outbox[BuildOf(a)][i].attempt = a
        /\ outbox[BuildOf(a)][i].topic \in
              {"build.terminal", "build.reconciliation_required"}}
\* Publication is exactly once: an attempt has one settling message when it is
\* settled and none before.
SettledOnce ==
    \A a \in Attempts : Exists(a) =>
        /\ Settled(a) <=> Settlements(a) # {}
        /\ \A i, j \in Settlements(a) : i = j

\* Of all the holders an attempt ever had, only the last publishes its result:
\* a worker that claims an attempt twice cannot publish for its first claim.
PublishedByLastHolder ==
    \A b \in Builds : \A i \in DOMAIN outbox[b] :
        outbox[b][i].fence > 0 =>
            \A c \in claims :
                c.attempt = outbox[b][i].attempt => c.fence <= outbox[b][i].fence

\* The shape of a row: nothing is stored for an attempt that was not inserted,
\* an inserted one has an admitted build, and a lease is held exactly in the
\* active states.
RowShape ==
    \A a \in Attempts :
        /\ ~Exists(a) => attempts[a] = AbsentAttempt
        /\ Exists(a) => /\ BuildOf(a) \in Builds
                        /\ builds[BuildOf(a)].status # "absent"
        /\ attempts[a].state \in ActiveStates <=> attempts[a].lease_owner # None
        /\ attempts[a].state \notin ActiveStates => attempts[a].lease_left = 0

\* A child that may exist belongs to its attempt's last holder, and its attempt
\* is past the launch and not available to anyone else.
ExecutionShape ==
    \A c \in executing :
        /\ c \in claims
        /\ attempts[c.attempt].fence = c.fence
        /\ attempts[c.attempt].state \in
              (ActiveStates \ {"offered"}) \cup {"reconciliation_required"}

\* The inductive strengthening: what every transaction relies on when it finds
\* the tables as another one left them, and leaves for the next one.
AuthorityInvariant ==
    /\ TypeOK
    /\ RowShape
    /\ ClaimsNeverShared
    /\ NoStaleEpoch
    /\ RetryChain
    /\ ExecutionShape
    /\ LineageAgrees

-----------------------------------------------------------------------------
\* What a step may never do.

\* A settled attempt is history: no recovery, restore, retry or late holder
\* rewrites it (Model.fs: "Retries never rewrite an attempt").
SettledIsFinal ==
    [][\A a \in Attempts : Settled(a) => attempts'[a] = attempts[a]]_vars

\* An accepted cancellation stays on the build row through requeues, restores
\* and new claims until a publication of ABORTED takes it off (PublishTerminal's
\* comment: it "can never be erased by a success publication racing behind it").
CancellationIsHonoured ==
    [][\A b \in Builds :
          builds[b].cancellation_requested /\ ~builds'[b].cancellation_requested
              => builds'[b].status = "aborted"]_vars

-----------------------------------------------------------------------------
\* What the documentation says and the code does not do.

\* PublishTerminal's comment: a terminal publication committed first makes the
\* later cancellation report AlreadyTerminal, so it is not accepted.
NoCancellationAfterTerminal ==
    [][\A b \in Builds :
          builds'[b].cancellation_requested /\ ~builds[b].cancellation_requested
              => builds[b].status \notin WireStatuses]_vars
=============================================================================
