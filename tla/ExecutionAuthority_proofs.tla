---------------------- MODULE ExecutionAuthority_proofs ----------------------
(***************************************************************************)
(* Proofs about ExecutionAuthority, for any number of builds, attempts,    *)
(* workers and agents, any lease term and any bounds; at the end, that it  *)
(* implements AttemptLease.                                                *)
(***************************************************************************)
EXTENDS AuthorityImplementsLease, SequenceTheorems, TLAPS

-----------------------------------------------------------------------------
\* Typing of the helpers.

LEMMA ResultsAreWire == Results \subseteq WireStatuses
  BY ResultsAssumption

LEMMA OfferedType ==
    ASSUME NEW row \in Attempt, NEW w \in Owners
    PROVE  Offered(row, w) \in Attempt
  <1>1. row.fence + 1 \in Nat /\ LeaseTerm \in 0..LeaseTerm
    BY LeaseAssumption DEF Attempt
  <1>2. "offered" \in AttemptStates
    BY DEF AttemptStates, ActiveStates
  <1> QED
    BY <1>1, <1>2, LeaseAssumption DEF Offered, Attempt

LEMMA ReleasedType ==
    ASSUME NEW row \in Attempt, NEW s \in AttemptStates
    PROVE  Released(row, s) \in Attempt
  <1>1. 0 \in 0..LeaseTerm
    BY LeaseAssumption
  <1> QED
    BY <1>1, LeaseAssumption DEF Released, Attempt

LEMMA FieldTypes ==
    ASSUME NEW row \in Attempt
    PROVE  /\ \A s \in AttemptStates : [row EXCEPT !.state = s] \in Attempt
           /\ \A n \in 0..LeaseTerm : [row EXCEPT !.lease_left = n] \in Attempt
           /\ \A r \in WireStatuses : [row EXCEPT !.result = r] \in Attempt
           /\ \A s \in AttemptStates, n \in 0..LeaseTerm :
                 [row EXCEPT !.state = s, !.lease_left = n] \in Attempt
           /\ row.lease_left \in 0..LeaseTerm
  BY LeaseAssumption DEF Attempt

LEMMA MsgType ==
    ASSUME NEW topic \in {"build.admitted", "build.terminal",
                          "build.reconciliation_required", "retry.decided"},
           NEW a \in Attempts, NEW s \in LineageStatuses \cup {None},
           NEW d \in BOOLEAN, NEW f \in Nat
    PROVE  Msg(topic, a, s, d, f) \in Message
  BY DEF Msg, Message

LEMMA PublishType ==
    ASSUME TypeOK, NEW b, NEW m \in Message, Publish(b, m)
    PROVE  outbox' \in [Builds -> Seq(Message)]
  BY AppendProperties DEF TypeOK, Publish

LEMMA RollUpType ==
    ASSUME TypeOK, NEW b, NEW s \in LineageStatuses, RollUp(b, s)
    PROVE  /\ nodes' \in [Builds -> LineageStatuses]
           /\ builds' \in [Builds -> Build]
  BY DEF TypeOK, RollUp, Build

LEMMA ReconcileType ==
    ASSUME TypeOK, NEW S \in SUBSET Attempts, NEW d \in BOOLEAN, Reconcile(S, d)
    PROVE  /\ nodes' \in [Builds -> LineageStatuses]
           /\ builds' \in [Builds -> Build]
           /\ outbox' \in [Builds -> Seq(Message)]
  <1> DEFINE lineage == {BuildOf(a) : a \in S}
             cause(b) == CHOOSE a \in S : BuildOf(a) = b
             told(b) == Msg("build.reconciliation_required", cause(b),
                            "reconciliation_required", d, 0)
  <1>1. "reconciliation_required" \in LineageStatuses
    BY DEF LineageStatuses
  <1>2. nodes' \in [Builds -> LineageStatuses]
    BY <1>1 DEF Reconcile, TypeOK
  <1>3. builds' \in [Builds -> Build]
    BY <1>1 DEF Reconcile, TypeOK, Build
  <1>4. ASSUME NEW b \in lineage PROVE told(b) \in Message
    <2>1. cause(b) \in Attempts
      OBVIOUS
    <2> QED
      BY <2>1, <1>1, MsgType
  <1>5. outbox' = [b \in Builds |->
            IF b \in lineage THEN Append(outbox[b], told(b)) ELSE outbox[b]]
    BY DEF Reconcile
  <1>6. outbox' \in [Builds -> Seq(Message)]
    <2>1. outbox \in [Builds -> Seq(Message)]
      BY DEF TypeOK
    <2>2. ASSUME NEW b \in Builds
          PROVE  (IF b \in lineage THEN Append(outbox[b], told(b)) ELSE outbox[b]) \in Seq(Message)
      <3>1. outbox[b] \in Seq(Message)
        BY <2>1
      <3>2. CASE b \in lineage
        <4>1. told(b) \in Message
          BY <1>4, <3>2
        <4> HIDE DEF told
        <4> QED
          BY <3>1, <3>2, <4>1, AppendProperties
      <3> QED
        BY <3>1, <3>2
    <2> QED
      BY <1>5, <2>2
  <1> QED
    BY <1>2, <1>3, <1>6

-----------------------------------------------------------------------------
\* Typing.

LEMMA ClaimType ==
    ASSUME TypeOK, NEW a \in Attempts, NEW w \in Owners
    PROVE  ClaimOf(a, w) \in Claim
  <1>1. attempts[a].fence + 1 \in Nat
    BY DEF TypeOK, Attempt
  <1> QED
    BY <1>1 DEF ClaimOf, Claim

LEMMA NewRowTypes ==
    /\ AbsentAttempt \in Attempt
    /\ NoDecision \in Decision
    /\ \A b \in Builds, n \in Nat, p \in Attempts \cup {None} :
          restore_epoch \in Nat => QueuedAttempt(b, n, p) \in Attempt
  <1>1. 0 \in 0..LeaseTerm /\ "absent" \in AttemptStates /\ "queued" \in AttemptStates
    BY LeaseAssumption DEF AttemptStates
  <1>2. AbsentAttempt \in Attempt
    BY <1>1 DEF AbsentAttempt, Attempt
  <1>3. NoDecision \in Decision
    BY DEF NoDecision, Decision
  <1>4. ASSUME NEW b \in Builds, NEW n \in Nat, NEW p \in Attempts \cup {None},
               restore_epoch \in Nat
        PROVE  QueuedAttempt(b, n, p) \in Attempt
    BY <1>1, <1>4 DEF QueuedAttempt, AbsentAttempt, Attempt
  <1> QED
    BY <1>2, <1>3, <1>4

LEMMA TypeInit == Init => TypeOK
  <1> SUFFICES ASSUME Init PROVE TypeOK
    OBVIOUS
  <1>1. attempts \in [Attempts -> Attempt] /\ retry_decisions \in [Attempts -> Decision]
    BY NewRowTypes DEF Init
  <1>2. nodes \in [Builds -> LineageStatuses] /\ builds \in [Builds -> Build]
    BY DEF Init, LineageStatuses, Build
  <1>3. outbox \in [Builds -> Seq(Message)]
    BY EmptySeq DEF Init
  <1> QED
    BY <1>1, <1>2, <1>3 DEF Init, TypeOK

LEMMA TypeStep == TypeOK /\ [Next]_vars => TypeOK'
  <1> SUFFICES ASSUME TypeOK, [Next]_vars PROVE TypeOK'
    OBVIOUS
  <1> USE DEF TypeOK
  <1>a. /\ {"queued", "offered", "running", "terminal", "reconciliation_required"}
              \subseteq AttemptStates
        /\ {"queued", "running", "reconciliation_required", "aborted"}
              \cup Results \subseteq LineageStatuses
        /\ WireStatuses \subseteq LineageStatuses
    BY ResultsAssumption
       DEF AttemptStates, ActiveStates, LineageStatuses, WireStatuses
  <1>1. ASSUME NEW b \in Builds, NEW a \in Attempts, AdmitBuild(b, a) PROVE TypeOK'
    <2>1. attempts' \in [Attempts -> Attempt]
      BY <1>1, NewRowTypes DEF AdmitBuild
    <2>2. nodes' \in [Builds -> LineageStatuses] /\ builds' \in [Builds -> Build]
      BY <1>1, <1>a DEF AdmitBuild, Build
    <2>3. outbox' \in [Builds -> Seq(Message)]
      BY <1>1, <1>a, MsgType, PublishType DEF AdmitBuild
    <2> QED
      BY <1>1, <2>1, <2>2, <2>3 DEF AdmitBuild
  <1>2. ASSUME NEW b \in Builds, DamageDefinition(b) PROVE TypeOK'
    BY <1>2 DEF DamageDefinition, Build
  <1>3. ASSUME NEW w \in LocalWorkers, NEW Q \in SUBSET Attempts, NEW a \in Attempts,
               ClaimNextExecution(w, Q, a)
        PROVE  TypeOK'
    <2>1. attempts' \in [Attempts -> Attempt]
      BY <1>3, <1>a, OfferedType, ReleasedType DEF ClaimNextExecution, Owners
    <2>2. claims' \subseteq Claim
      BY <1>3, ClaimType DEF ClaimNextExecution, Owners
    <2> QED
      BY <1>3, <2>1, <2>2, ReconcileType DEF ClaimNextExecution
  <1>4. ASSUME NEW Q \in SUBSET Attempts, QuarantineOnly(Q) PROVE TypeOK'
    <2>1. attempts' \in [Attempts -> Attempt]
      BY <1>4, <1>a, ReleasedType DEF QuarantineOnly
    <2> QED
      BY <1>4, <2>1, ReconcileType DEF QuarantineOnly
  <1>5. ASSUME NEW w \in Agents, NEW a \in Attempts,
               ClaimNext(w, a) \/ OfferAttempt(w, a)
        PROVE  TypeOK'
    <2>1. attempts' \in [Attempts -> Attempt]
      BY <1>5, OfferedType DEF ClaimNext, OfferAttempt, Owners
    <2>2. claims' \subseteq Claim
      BY <1>5, ClaimType DEF ClaimNext, OfferAttempt, Owners
    <2> QED
      BY <1>5, <2>1, <2>2 DEF ClaimNext, OfferAttempt
  <1>6. ASSUME NEW c \in claims, AcceptAttempt(c) PROVE TypeOK'
    <2>1. c \in Claim /\ c.attempt \in Attempts
      BY DEF Claim
    <2>2. attempts' \in [Attempts -> Attempt]
      BY <1>6, <1>a, <2>1, FieldTypes DEF AcceptAttempt
    <2> QED
      BY <1>6, <1>a, <2>1, <2>2, RollUpType DEF AcceptAttempt
  <1>7. ASSUME NEW c \in claims, ClaimHolder(c) PROVE TypeOK'
    <2>1. c \in Claim /\ c.attempt \in Attempts /\ c.fence \in Nat
      BY DEF Claim
    <2>2. ASSUME NEW status \in WireStatuses, PublishLockedTerminal(c, status)
          PROVE  TypeOK'
      <3>1. attempts' \in [Attempts -> Attempt]
        <4>1. Released(attempts[c.attempt], "terminal") \in Attempt
          BY <1>a, <2>1, ReleasedType
        <4> QED
          BY <2>2, <4>1, <2>1 DEF PublishLockedTerminal, Attempt
      <3>2. nodes' \in [Builds -> LineageStatuses] /\ builds' \in [Builds -> Build]
        BY <2>2, <1>a DEF PublishLockedTerminal, Build
      <3>3. outbox' \in [Builds -> Seq(Message)]
        BY <2>1, <2>2, <1>a, MsgType, PublishType DEF PublishLockedTerminal
      <3> QED
        BY <2>2, <3>1, <3>2, <3>3 DEF PublishLockedTerminal
    <2>3. CASE BeginExecution(c)
      <3>1. attempts' \in [Attempts -> Attempt]
        <4>1. LeaseTerm \in 0..LeaseTerm
          BY LeaseAssumption
        <4> QED
          BY <2>3, <1>a, <2>1, <4>1, FieldTypes DEF BeginExecution
      <3> QED
        BY <2>3, <1>a, <2>1, <3>1, RollUpType DEF BeginExecution
    <2>4. CASE CancelBeforeStart(c)
      BY <2>2, <2>4 DEF CancelBeforeStart, WireStatuses
    <2>5. CASE RenewLease(c)
      <3>1. LeaseTerm \in 0..LeaseTerm
        BY LeaseAssumption
      <3> QED
        BY <2>5, <2>1, <3>1, FieldTypes DEF RenewLease
    <2>6. ASSUME NEW result \in Results, PublishTerminal(c, result) PROVE TypeOK'
      <3>1. result \in WireStatuses /\ "aborted" \in WireStatuses
        BY ResultsAssumption DEF WireStatuses
      <3> QED
        BY <2>2, <2>6, <3>1 DEF PublishTerminal
    <2>7. CASE RequeueOwnedAttempt(c)
      BY <2>7, <1>a, <2>1, ReleasedType, RollUpType DEF RequeueOwnedAttempt
    <2>8. CASE RequireReconciliation(c)
      <3>1. outbox' \in [Builds -> Seq(Message)]
        BY <2>8, <1>a, <2>1, MsgType, PublishType DEF RequireReconciliation
      <3> QED
        BY <2>8, <1>a, <2>1, <3>1, ReleasedType, RollUpType DEF RequireReconciliation
    <2> QED
      BY <1>7, <2>3, <2>4, <2>5, <2>6, <2>7, <2>8 DEF ClaimHolder
  <1>8. ASSUME NEW c \in executing, ChildExtinct(c) PROVE TypeOK'
    BY <1>8 DEF ChildExtinct
  <1>9. CASE RequeueExpiredLocalAttempts
    <2> DEFINE S == {a \in ExpiredLocal : attempts[a].state # "offered"}
    <2>1. S \in SUBSET Attempts /\ Reconcile(S, TRUE)
      BY <1>9 DEF RequeueExpiredLocalAttempts, ExpiredLocal
    <2>2. attempts' \in [Attempts -> Attempt]
      BY <1>9, <1>a, ReleasedType DEF RequeueExpiredLocalAttempts
    <2> HIDE DEF S
    <2> QED
      BY <1>9, <2>1, <2>2, ReconcileType DEF RequeueExpiredLocalAttempts
  <1>10. CASE ActivateRestore
    <2> DEFINE S == Invalidated(restore_epoch + 1)
    <2>1. S \in SUBSET Attempts /\ Reconcile(S, TRUE)
      BY <1>10 DEF ActivateRestore, Invalidated
    <2>2. attempts' \in [Attempts -> Attempt] /\ restore_epoch' \in Nat
      BY <1>10, <1>a, ReleasedType DEF ActivateRestore
    <2> HIDE DEF S
    <2> QED
      BY <1>10, <2>1, <2>2, ReconcileType DEF ActivateRestore
  <1>11. ASSUME NEW b \in Builds, RequestCancellation(b) PROVE TypeOK'
    BY <1>11 DEF RequestCancellation, Build
  <1>12. ASSUME NEW p \in Attempts, NEW child \in Attempts,
                NEW limit \in AttemptLimits, CreateRetryChild(p, limit, child)
         PROVE  TypeOK'
    <2>1. /\ limit \in Nat /\ attempts[p].ordinal + 1 \in Nat
          /\ BuildOf(p) \in Builds \cup {None}
      BY LimitsAssumption DEF Attempt, BuildOf
    <2>2. attempts' \in [Attempts -> Attempt]
      <3>1. QueuedAttempt(BuildOf(p), attempts[p].ordinal + 1, p) \in Attempt
        BY <2>1, <1>a, NewRowTypes, LeaseAssumption
           DEF QueuedAttempt, AbsentAttempt, Attempt
      <3> QED
        BY <1>12, <3>1 DEF CreateRetryChild
    <2>3. retry_decisions' \in [Attempts -> Decision]
      BY <1>12, <2>1 DEF CreateRetryChild, Decision
    <2>4. outbox' \in [Builds -> Seq(Message)]
      BY <1>12, <1>a, MsgType, PublishType DEF CreateRetryChild
    <2> QED
      BY <1>12, <1>a, <2>2, <2>3, <2>4, RollUpType DEF CreateRetryChild
  <1>13. ASSUME NEW p \in Attempts, NEW limit \in AttemptLimits,
                ExhaustRetryBudget(p, limit)
         PROVE  TypeOK'
    <2>1. limit \in Nat
      BY LimitsAssumption
    <2>2. retry_decisions' \in [Attempts -> Decision]
      BY <1>13, <2>1 DEF ExhaustRetryBudget, Decision
    <2>3. outbox' \in [Builds -> Seq(Message)]
      BY <1>13, MsgType, PublishType DEF ExhaustRetryBudget
    <2> QED
      BY <1>13, <2>2, <2>3 DEF ExhaustRetryBudget
  <1>14. CASE Tick
    <2>1. \A a \in Attempts : \A n \in 0..LeaseTerm :
             (IF n > 0 THEN n - 1 ELSE 0) \in 0..LeaseTerm
      BY LeaseAssumption
    <2>2. attempts' \in [Attempts -> Attempt]
      BY <1>14, <2>1, FieldTypes DEF Tick
    <2> QED
      BY <1>14, <2>2 DEF Tick
  <1>15. CASE UNCHANGED vars
    BY <1>15 DEF vars
  <1> QED
    BY <1>1, <1>2, <1>3, <1>4, <1>5, <1>6, <1>7, <1>8, <1>9, <1>10, <1>11,
       <1>12, <1>13, <1>14, <1>15 DEF Next

\* Every row keeps its columns and ranges; no lease outlasts its term.
THEOREM Typing == Spec => []TypeOK
  BY TypeInit, TypeStep, PTL DEF Spec

-----------------------------------------------------------------------------
\* What any step does to a row.

KeepsIdentity(a) ==
    /\ attempts'[a].ordinal = attempts[a].ordinal
    /\ attempts'[a].retry_of = attempts[a].retry_of
    /\ attempts'[a].build = attempts[a].build
    /\ attempts'[a].restore_epoch = attempts[a].restore_epoch

\* The row is inserted, queued, in the current epoch.
Inserted(a) ==
    /\ ~Exists(a)
    /\ \E b \in Builds, n \in Nat, p \in Attempts \cup {None} :
          attempts'[a] = QueuedAttempt(b, n, p)
    /\ restore_epoch' = restore_epoch

\* The lease is granted under the next fence.
Granted(a) ==
    /\ KeepsIdentity(a)
    /\ attempts[a].state \in {"queued", "offered"}
    /\ attempts'[a].state = "offered"
    /\ attempts'[a].fence = attempts[a].fence + 1
    /\ attempts'[a].lease_owner \in Owners
    /\ restore_epoch' = restore_epoch

\* The holder keeps its lease: it is renewed, it runs down, or the work starts.
Kept(a) ==
    /\ KeepsIdentity(a)
    /\ attempts[a].state \in ActiveStates
    /\ attempts'[a].state \in {attempts[a].state, "running"}
    /\ attempts'[a].fence = attempts[a].fence
    /\ attempts'[a].lease_owner = attempts[a].lease_owner
    /\ restore_epoch' = restore_epoch

\* The lease ends.  Only a row without an execution goes back to the queue or
\* becomes terminal.
Ended(a) ==
    /\ KeepsIdentity(a)
    /\ Unsettled(a)
    /\ attempts'[a].state \in {"queued", "terminal", "reconciliation_required"}
    /\ attempts'[a].fence = attempts[a].fence
    /\ attempts'[a].lease_owner = None
    /\ attempts'[a].lease_left = 0
    /\ attempts'[a].state \in {"queued", "terminal"} =>
          \A c \in executing : c.attempt # a
    /\ attempts'[a].state = "queued" => restore_epoch' = restore_epoch

RowStep(a) ==
    \/ attempts'[a] = attempts[a]
       /\ (Unsettled(a) => restore_epoch' = restore_epoch)
    \/ Inserted(a) \/ Granted(a) \/ Kept(a) \/ Ended(a)

StepFacts ==
    /\ \A a \in Attempts : RowStep(a)
    /\ \A c \in claims' \ claims :
          /\ c.attempt \in Attempts
          /\ c.fence = attempts[c.attempt].fence + 1
          /\ attempts'[c.attempt].fence = c.fence
    /\ \A c1, c2 \in claims' \ claims : c1 = c2
    /\ claims \subseteq claims'
    /\ \A c \in executing' \ executing :
          /\ c \in claims
          /\ attempts[c.attempt].fence = c.fence
          /\ attempts'[c.attempt].fence = c.fence
          /\ attempts'[c.attempt].state = "running"

\* A holder whose fence is current and that does not execute knows that nobody
\* does.
LEMMA NoExecution ==
    ASSUME AuthorityInvariant, NEW c \in claims, c \notin executing,
           attempts[c.attempt].fence = c.fence
    PROVE  \A e \in executing : e.attempt # c.attempt
  BY DEF AuthorityInvariant, ExecutionShape, ClaimsNeverShared

\* Nor can there be an execution of a row that is not past its launch.
LEMMA NotLaunched ==
    ASSUME AuthorityInvariant, NEW a \in Attempts,
           attempts[a].state \in {"queued", "offered"}
    PROVE  \A e \in executing : e.attempt # a
  BY DEF AuthorityInvariant, ExecutionShape, ActiveStates

LEMMA StepLemma == AuthorityInvariant /\ Next => StepFacts
  <1> SUFFICES ASSUME AuthorityInvariant, Next PROVE StepFacts
    OBVIOUS
  <1>t. TypeOK
    BY DEF AuthorityInvariant
  <1>r. \A a \in Attempts : attempts[a] \in Attempt
    BY <1>t DEF TypeOK
  <1>c. \A c \in claims : c.attempt \in Attempts /\ c.fence \in Nat
    BY <1>t DEF TypeOK, Claim
  <1>1. ASSUME NEW b \in Builds, NEW a \in Attempts, AdmitBuild(b, a) PROVE StepFacts
    <2>1. Inserted(a)
      BY <1>1, <1>t DEF AdmitBuild, Inserted, Exists, TypeOK
    <2>2. \A x \in Attempts \ {a} : attempts'[x] = attempts[x]
      BY <1>1, <1>t DEF AdmitBuild, TypeOK
    <2> QED
      BY <1>1, <2>1, <2>2 DEF AdmitBuild, StepFacts, RowStep
  <1>2. ASSUME NEW w \in LocalWorkers, NEW Q \in SUBSET Attempts, NEW a \in Attempts,
               ClaimNextExecution(w, Q, a)
        PROVE  StepFacts
    <2>1. /\ attempts'[a] = Offered(attempts[a], w)
          /\ attempts[a].state = "queued"
      BY <1>2 DEF ClaimNextExecution, ClaimableExecution
    <2>2. Granted(a)
      BY <1>2, <1>r, <2>1
         DEF ClaimNextExecution, Granted, Offered, KeepsIdentity, Owners, Attempt
    <2>3. ASSUME NEW x \in Q, x # a PROVE Ended(x)
      <3>1. /\ attempts'[x] = Released(attempts[x], "reconciliation_required")
            /\ attempts[x].state = "queued"
        BY <1>2, <2>3 DEF ClaimNextExecution, ClaimableExecution
      <3> QED
        BY <1>r, <3>1 DEF Ended, Released, KeepsIdentity, Unsettled, Attempt
    <2>4. \A x \in Attempts : x # a /\ x \notin Q => attempts'[x] = attempts[x]
      BY <1>2 DEF ClaimNextExecution
    <2>5. \A x \in Attempts : RowStep(x)
      BY <1>2, <2>2, <2>3, <2>4 DEF RowStep, ClaimNextExecution
    <2>6. ClaimOf(a, w).attempt = a /\ ClaimOf(a, w).fence = attempts[a].fence + 1
      BY DEF ClaimOf
    <2>7. attempts'[a].fence = attempts[a].fence + 1
      BY <2>2 DEF Granted
    <2> QED
      BY <1>2, <2>5, <2>6, <2>7 DEF ClaimNextExecution, StepFacts
  <1>3. ASSUME NEW Q \in SUBSET Attempts, QuarantineOnly(Q) PROVE StepFacts
    <2>1. ASSUME NEW x \in Q PROVE Ended(x)
      <3>1. /\ attempts'[x] = Released(attempts[x], "reconciliation_required")
            /\ attempts[x].state = "queued"
        BY <1>3 DEF QuarantineOnly, ClaimableExecution
      <3> QED
        BY <1>r, <3>1 DEF Ended, Released, KeepsIdentity, Unsettled, Attempt
    <2>2. \A x \in Attempts \ Q : attempts'[x] = attempts[x]
      BY <1>3 DEF QuarantineOnly
    <2> QED
      BY <1>3, <2>1, <2>2 DEF QuarantineOnly, StepFacts, RowStep
  <1>4. ASSUME NEW w \in Agents, NEW a \in Attempts,
               ClaimNext(w, a) \/ OfferAttempt(w, a)
        PROVE  StepFacts
    <2>1. /\ attempts'[a] = Offered(attempts[a], w)
          /\ attempts[a].state \in {"queued", "offered"}
          /\ \A x \in Attempts \ {a} : attempts'[x] = attempts[x]
          /\ claims' = claims \cup {ClaimOf(a, w)}
          /\ UNCHANGED <<restore_epoch, executing>>
      BY <1>4, <1>t DEF ClaimNext, OfferAttempt, TypeOK
    <2>2. Granted(a)
      BY <1>4, <1>r, <2>1 DEF Granted, Offered, KeepsIdentity, Owners, Attempt
    <2>3. ClaimOf(a, w).attempt = a /\ ClaimOf(a, w).fence = attempts[a].fence + 1
      BY DEF ClaimOf
    <2>4. attempts'[a].fence = attempts[a].fence + 1
      BY <2>2 DEF Granted
    <2> QED
      BY <2>1, <2>2, <2>3, <2>4 DEF StepFacts, RowStep
  <1>5. ASSUME NEW c \in claims, AcceptAttempt(c) PROVE StepFacts
    <2>1. /\ attempts'[c.attempt] = [attempts[c.attempt] EXCEPT !.state = "running"]
          /\ attempts[c.attempt].state = "offered"
          /\ attempts[c.attempt].fence = c.fence
          /\ \A x \in Attempts \ {c.attempt} : attempts'[x] = attempts[x]
          /\ executing' = executing \cup {c}
          /\ UNCHANGED <<restore_epoch, claims>>
      BY <1>5, <1>t, <1>c DEF AcceptAttempt, TypeOK
    <2>2. /\ Kept(c.attempt)
          /\ attempts'[c.attempt].fence = c.fence
          /\ attempts'[c.attempt].state = "running"
      BY <1>r, <1>c, <2>1 DEF Kept, KeepsIdentity, Attempt, ActiveStates
    <2> QED
      BY <1>5, <2>1, <2>2 DEF StepFacts, RowStep
  <1>6. ASSUME NEW c \in claims, ClaimHolder(c) PROVE StepFacts
    <2> DEFINE a == c.attempt
    <2>1. ASSUME attempts' = [attempts EXCEPT ![a] = attempts'[a]],
                 Kept(a) \/ Ended(a),
                 UNCHANGED <<restore_epoch, claims, executing>>
          PROVE  StepFacts
      BY <1>t, <2>1 DEF StepFacts, RowStep, TypeOK
    <2>2. CASE BeginExecution(c)
      <3>1. /\ attempts'[a] = [attempts[a] EXCEPT !.state = "running",
                                                  !.lease_left = LeaseTerm]
            /\ attempts[a].state = "offered"
            /\ attempts[a].fence = c.fence
            /\ \A x \in Attempts \ {a} : attempts'[x] = attempts[x]
            /\ executing' = executing \cup {c}
            /\ UNCHANGED <<restore_epoch, claims>>
        BY <1>t, <1>c, <2>2 DEF BeginExecution, Authority, LeaseHeld, TypeOK
      <3>2. /\ Kept(a)
            /\ attempts'[a].fence = c.fence
            /\ attempts'[a].state = "running"
        BY <1>r, <1>c, <3>1 DEF Kept, KeepsIdentity, Attempt, ActiveStates
      <3> QED
        BY <1>6, <3>1, <3>2 DEF StepFacts, RowStep
    <2>3. ASSUME NEW s \in {"queued", "terminal", "reconciliation_required"},
                 NEW r,
                 \/ attempts' = [attempts EXCEPT ![a] = Released(attempts[a], s)]
                 \/ attempts' = [attempts EXCEPT ![a] =
                        [Released(attempts[a], s) EXCEPT !.result = r]],
                 attempts[a].state \in ActiveStates,
                 s \in {"queued", "terminal"} => \A e \in executing : e.attempt # a,
                 UNCHANGED <<restore_epoch, claims, executing>>
          PROVE  StepFacts
      <3>1. /\ \A x \in Attempts \ {a} : attempts'[x] = attempts[x]
            /\ \/ attempts'[a] = Released(attempts[a], s)
               \/ attempts'[a] = [Released(attempts[a], s) EXCEPT !.result = r]
        BY <1>t, <1>c, <2>3 DEF TypeOK
      <3>2. Ended(a)
        BY <1>r, <1>c, <2>3, <3>1
           DEF Ended, Released, KeepsIdentity, Unsettled, Attempt
      <3> QED
        BY <2>3, <3>1, <3>2 DEF StepFacts, RowStep
    <2>4. CASE CancelBeforeStart(c)
      <3>1. \A e \in executing : e.attempt # a
        BY <1>c, <2>4, NotLaunched DEF CancelBeforeStart, Authority
      <3> QED
        BY <2>3, <2>4, <3>1
           DEF CancelBeforeStart, Authority, PublishLockedTerminal, ActiveStates
    <2>5. CASE RenewLease(c)
      <3>1. /\ attempts'[a] = [attempts[a] EXCEPT !.lease_left = LeaseTerm]
            /\ attempts[a].state \in ActiveStates
            /\ \A x \in Attempts \ {a} : attempts'[x] = attempts[x]
            /\ UNCHANGED <<restore_epoch, claims, executing>>
        BY <1>t, <1>c, <2>5 DEF RenewLease, Authority, TypeOK
      <3>2. Kept(a)
        BY <1>r, <1>c, <3>1 DEF Kept, KeepsIdentity, Attempt
      <3> QED
        BY <3>1, <3>2 DEF StepFacts, RowStep
    <2>6. ASSUME NEW result \in Results, PublishTerminal(c, result) PROVE StepFacts
      <3>1. \A e \in executing : e.attempt # a
        BY <2>6, NoExecution DEF PublishTerminal, Authority, LeaseHeld
      <3> QED
        BY <2>3, <2>6, <3>1 DEF PublishTerminal, Authority, PublishLockedTerminal
    <2>7. CASE RequeueOwnedAttempt(c)
      <3>1. \A e \in executing : e.attempt # a
        BY <2>7, NoExecution DEF RequeueOwnedAttempt, Authority, LeaseHeld
      <3> QED
        BY <2>3, <2>7, <3>1 DEF RequeueOwnedAttempt, Authority
    <2>8. CASE RequireReconciliation(c)
      BY <2>3, <2>8 DEF RequireReconciliation, Authority
    <2> QED
      BY <1>6, <2>2, <2>4, <2>5, <2>6, <2>7, <2>8 DEF ClaimHolder
  <1>7. ASSUME NEW c \in executing, ChildExtinct(c) PROVE StepFacts
    BY <1>7 DEF ChildExtinct, StepFacts, RowStep
  <1>8. CASE RequeueExpiredLocalAttempts
    <2>1. ASSUME NEW x \in ExpiredLocal PROVE Ended(x)
      <3>1. /\ x \in Attempts /\ Unsettled(x)
            /\ restore_epoch' = restore_epoch
            /\ \/ /\ attempts'[x] = Released(attempts[x], "queued")
                  /\ attempts[x].state = "offered"
               \/ attempts'[x] = Released(attempts[x], "reconciliation_required")
        BY <1>8 DEF ExpiredLocal, RequeueExpiredLocalAttempts, Unsettled
      <3> QED
        BY <1>r, <3>1, NotLaunched DEF Ended, Released, KeepsIdentity, Attempt
    <2>2. \A x \in Attempts \ ExpiredLocal : attempts'[x] = attempts[x]
      BY <1>8 DEF RequeueExpiredLocalAttempts
    <2> QED
      BY <1>8, <2>1, <2>2 DEF RequeueExpiredLocalAttempts, StepFacts, RowStep
  <1>9. CASE ActivateRestore
    <2> DEFINE S == Invalidated(restore_epoch + 1)
    <2>1. ASSUME NEW x \in S PROVE Ended(x)
      <3>1. /\ x \in Attempts /\ Unsettled(x)
            /\ attempts'[x] = Released(attempts[x], "reconciliation_required")
        BY <1>9 DEF Invalidated, ActivateRestore, Unsettled
      <3> QED
        BY <1>r, <3>1 DEF Ended, Released, KeepsIdentity, Attempt
    <2>2. ASSUME NEW x \in Attempts \ S
          PROVE  attempts'[x] = attempts[x] /\ ~Unsettled(x)
      <3>1. attempts[x].restore_epoch = restore_epoch \/ ~Unsettled(x)
        BY DEF AuthorityInvariant, NoStaleEpoch
      <3>2. restore_epoch \in Nat /\ restore_epoch < restore_epoch + 1
        BY <1>t DEF TypeOK
      <3> QED
        BY <1>9, <3>1, <3>2 DEF ActivateRestore, Invalidated, Unsettled
    <2> QED
      BY <1>9, <2>1, <2>2 DEF ActivateRestore, StepFacts, RowStep
  <1>10. ASSUME NEW p \in Attempts, NEW child \in Attempts,
                NEW limit \in AttemptLimits, CreateRetryChild(p, limit, child)
         PROVE  StepFacts
    <2>1. /\ Exists(p) /\ ~Exists(child)
          /\ attempts' = [attempts EXCEPT ![child] =
                 QueuedAttempt(BuildOf(p), attempts[p].ordinal + 1, p)]
          /\ UNCHANGED <<restore_epoch, claims, executing>>
      BY <1>10 DEF CreateRetryChild, Undecided, Exists
    <2>2. BuildOf(p) \in Builds /\ attempts[p].ordinal + 1 \in Nat
      BY <1>r, <2>1 DEF AuthorityInvariant, RowShape, Attempt
    <2>3. Inserted(child)
      BY <1>t, <2>1, <2>2 DEF Inserted, TypeOK
    <2>4. \A x \in Attempts \ {child} : attempts'[x] = attempts[x]
      BY <1>t, <2>1 DEF TypeOK
    <2> QED
      BY <2>1, <2>3, <2>4 DEF StepFacts, RowStep
  <1>11. CASE Tick
    <2>1. /\ \A x \in Attempts : attempts'[x] =
                 [attempts[x] EXCEPT !.lease_left =
                     IF attempts[x].lease_left > 0 THEN attempts[x].lease_left - 1
                                                   ELSE 0]
          /\ UNCHANGED <<restore_epoch, claims, executing>>
      BY <1>11 DEF Tick
    <2>2. ASSUME NEW x \in Attempts, attempts[x].state \in ActiveStates PROVE Kept(x)
      BY <1>r, <2>1, <2>2 DEF Kept, KeepsIdentity, Attempt
    <2>3. ASSUME NEW x \in Attempts, attempts[x].state \notin ActiveStates
          PROVE  attempts'[x] = attempts[x]
      <3>1. attempts[x].lease_left = 0
        BY <2>3 DEF AuthorityInvariant, RowShape
      <3> QED
        BY <1>r, <2>1, <3>1 DEF Attempt
    <2> QED
      BY <2>1, <2>2, <2>3 DEF StepFacts, RowStep
  <1>12. CASE UNCHANGED <<attempts, restore_epoch, claims, executing>>
    BY <1>12 DEF StepFacts, RowStep
  <1> QED
    BY <1>1, <1>2, <1>3, <1>4, <1>5, <1>6, <1>7, <1>8, <1>9, <1>10, <1>11, <1>12
       DEF Next, DamageDefinition, RequestCancellation, ExhaustRetryBudget

-----------------------------------------------------------------------------
\* The parts of the inductive invariant that follow from what happens to rows.

LEMMA FencesStep ==
    ASSUME AuthorityInvariant, StepFacts PROVE ClaimsNeverShared'
  <1>1. \A a \in Attempts : attempts[a].fence \in Nat
    BY DEF AuthorityInvariant, TypeOK, Attempt
  <1>2. \A a \in Attempts : ~Exists(a) => attempts[a].fence = 0
    BY DEF AuthorityInvariant, RowShape, AbsentAttempt
  <1>3. ASSUME NEW a \in Attempts
        PROVE  /\ attempts'[a].fence \in Nat
               /\ attempts[a].fence <= attempts'[a].fence
    <2>1. CASE Inserted(a)
      BY <1>2, <2>1 DEF Inserted, QueuedAttempt, AbsentAttempt
    <2>2. CASE ~Inserted(a)
      BY <1>1, <2>2 DEF StepFacts, RowStep, Granted, Kept, Ended
    <2> QED
      BY <2>1, <2>2
  <1>4. \A c \in claims : c.attempt \in Attempts /\ c.fence \in Nat
    BY DEF AuthorityInvariant, TypeOK, Claim
  <1>5. \A c \in claims : c.fence <= attempts[c.attempt].fence
    BY DEF AuthorityInvariant, ClaimsNeverShared
  <1>6. ASSUME NEW c \in claims' PROVE c.fence <= attempts'[c.attempt].fence
    <2>1. CASE c \in claims
      BY <1>1, <1>3, <1>4, <1>5, <2>1
    <2>2. CASE c \notin claims
      BY <1>1, <2>2 DEF StepFacts
    <2> QED
      BY <2>1, <2>2
  <1>7. ASSUME NEW c1 \in claims', NEW c2 \in claims',
               c1.attempt = c2.attempt, c1.fence = c2.fence
        PROVE  c1 = c2
    <2>1. CASE c1 \in claims /\ c2 \in claims
      BY <1>7, <2>1 DEF AuthorityInvariant, ClaimsNeverShared
    <2>2. CASE c1 \notin claims /\ c2 \notin claims
      BY <2>2 DEF StepFacts
    <2>3. CASE c1 \in claims /\ c2 \notin claims
      BY <1>1, <1>4, <1>5, <1>7, <2>3 DEF StepFacts
    <2>4. CASE c1 \notin claims /\ c2 \in claims
      BY <1>1, <1>4, <1>5, <1>7, <2>4 DEF StepFacts
    <2> QED
      BY <2>1, <2>2, <2>3, <2>4
  <1> QED
    BY <1>6, <1>7 DEF ClaimsNeverShared

LEMMA EpochStep ==
    ASSUME AuthorityInvariant, StepFacts PROVE NoStaleEpoch'
  <1> SUFFICES ASSUME NEW a \in Attempts, Unsettled(a)'
               PROVE  attempts'[a].restore_epoch = restore_epoch'
    BY DEF NoStaleEpoch
  <1>1. Unsettled(a) => attempts[a].restore_epoch = restore_epoch
    BY DEF AuthorityInvariant, NoStaleEpoch
  <1>2. RowStep(a)
    BY DEF StepFacts
  <1>3. CASE attempts'[a] = attempts[a]
    <2>1. Unsettled(a)
      BY <1>3 DEF Unsettled
    <2> QED
      BY <1>1, <1>2, <1>3, <2>1
         DEF RowStep, Inserted, Granted, Kept, Ended, Unsettled, Exists, ActiveStates
  <1>4. CASE Inserted(a)
    BY <1>4 DEF Inserted, QueuedAttempt, AbsentAttempt
  <1>5. CASE Granted(a) \/ Kept(a)
    BY <1>1, <1>5 DEF Granted, Kept, KeepsIdentity, Unsettled, ActiveStates
  <1>6. CASE Ended(a)
    <2>1. attempts'[a].state = "queued"
      BY <1>6 DEF Ended, Unsettled, ActiveStates
    <2> QED
      BY <1>1, <1>6, <2>1 DEF Ended, KeepsIdentity
  <1> QED
    BY <1>2, <1>3, <1>4, <1>5, <1>6 DEF RowStep

LEMMA ExecutionStep ==
    ASSUME AuthorityInvariant, StepFacts PROVE ExecutionShape'
  <1> SUFFICES ASSUME NEW c \in executing'
               PROVE  /\ c \in claims'
                      /\ attempts'[c.attempt].fence = c.fence
                      /\ attempts'[c.attempt].state \in
                           (ActiveStates \ {"offered"}) \cup {"reconciliation_required"}
    BY DEF ExecutionShape
  <1>1. CASE c \notin executing
    BY <1>1 DEF StepFacts, ActiveStates
  <1>2. CASE c \in executing
    <2>1. /\ c \in claims /\ c \in claims'
          /\ c.attempt \in Attempts
          /\ attempts[c.attempt].fence = c.fence
          /\ attempts[c.attempt].state \in
                (ActiveStates \ {"offered"}) \cup {"reconciliation_required"}
      BY <1>2 DEF AuthorityInvariant, ExecutionShape, StepFacts, TypeOK, Claim
    <2>2. RowStep(c.attempt)
      BY <2>1 DEF StepFacts
    <2>3. ~Inserted(c.attempt) /\ ~Granted(c.attempt)
      BY <2>1 DEF Inserted, Granted, Exists, ActiveStates
    <2>4. CASE Kept(c.attempt)
      BY <2>1, <2>4 DEF Kept, ActiveStates
    <2>5. CASE Ended(c.attempt)
      BY <1>2, <2>1, <2>5 DEF Ended
    <2> QED
      BY <2>1, <2>2, <2>3, <2>4, <2>5 DEF RowStep
  <1> QED
    BY <1>1, <1>2

NoInsertion == \A x \in Attempts : Exists(x) \/ attempts'[x] = attempts[x]

\* Admission and a retry are the only steps that insert a row, and retries the
\* only ones that decide.
LEMMA Insertions ==
    ASSUME AuthorityInvariant, Next
    PROVE  \/ \E b \in Builds, a \in Attempts : AdmitBuild(b, a)
           \/ \E p, child \in Attempts, limit \in AttemptLimits :
                 CreateRetryChild(p, limit, child)
           \/ /\ NoInsertion
              /\ \/ retry_decisions' = retry_decisions
                 \/ \E p \in Attempts, limit \in AttemptLimits :
                       ExhaustRetryBudget(p, limit)
  <1> USE DEF NoInsertion
  <1>t. TypeOK
    BY DEF AuthorityInvariant
  <1>c. \A c \in claims : c.attempt \in Attempts
    BY <1>t DEF TypeOK, Claim
  <1>1. ASSUME NEW c \in claims, ClaimHolder(c) \/ AcceptAttempt(c)
        PROVE  NoInsertion /\ retry_decisions' = retry_decisions
    <2>1. Exists(c.attempt)
      BY <1>1 DEF ClaimHolder, AcceptAttempt, BeginExecution, CancelBeforeStart,
         RenewLease, PublishTerminal, RequeueOwnedAttempt, RequireReconciliation,
         Authority, Exists, ActiveStates
    <2>2. /\ attempts' = [attempts EXCEPT ![c.attempt] = attempts'[c.attempt]]
          /\ retry_decisions' = retry_decisions
      BY <1>c, <1>t, <1>1
         DEF ClaimHolder, AcceptAttempt, BeginExecution, CancelBeforeStart,
             RenewLease, PublishTerminal, RequeueOwnedAttempt, RequireReconciliation,
             PublishLockedTerminal, TypeOK
    <2> QED
      BY <1>c, <1>t, <2>1, <2>2 DEF TypeOK
  <1>2. ASSUME \/ \E w \in LocalWorkers, Q \in SUBSET Attempts, x \in Attempts :
                     ClaimNextExecution(w, Q, x)
               \/ \E Q \in SUBSET Attempts : QuarantineOnly(Q)
        PROVE  NoInsertion /\ retry_decisions' = retry_decisions
    BY <1>2 DEF ClaimNextExecution, QuarantineOnly, ClaimableExecution, Exists
  <1>3. ASSUME NEW w \in Agents, NEW x \in Attempts,
               ClaimNext(w, x) \/ OfferAttempt(w, x)
        PROVE  NoInsertion /\ retry_decisions' = retry_decisions
    BY <1>t, <1>3 DEF ClaimNext, OfferAttempt, Exists, TypeOK
  <1>4. ASSUME RequeueExpiredLocalAttempts \/ ActivateRestore
        PROVE  NoInsertion /\ retry_decisions' = retry_decisions
    BY <1>4 DEF RequeueExpiredLocalAttempts, ActivateRestore, ExpiredLocal,
       Invalidated, Exists, ActiveStates
  <1>5. ASSUME Tick PROVE NoInsertion /\ retry_decisions' = retry_decisions
    <2>1. ASSUME NEW x \in Attempts, ~Exists(x) PROVE attempts'[x] = attempts[x]
      <3>1. attempts[x] \in Attempt /\ attempts[x].lease_left = 0
        BY <1>t, <2>1 DEF AuthorityInvariant, RowShape, AbsentAttempt, TypeOK
      <3> QED
        BY <1>5, <3>1 DEF Tick, Attempt
    <2> QED
      BY <1>5, <2>1 DEF Tick
  <1> QED
    BY <1>1, <1>2, <1>3, <1>4, <1>5
       DEF Next, DamageDefinition, RequestCancellation, ChildExtinct,
           ExhaustRetryBudget

\* No step takes an admitted build away, and a row is inserted into one.
LEMMA BuildsStay ==
    ASSUME AuthorityInvariant, Next
    PROVE  /\ \A b \in Builds :
                 builds[b].status # "absent" => builds'[b].status # "absent"
           /\ \A a \in Attempts : ~Exists(a) /\ Exists(a)' =>
                 builds'[attempts'[a].build].status # "absent"
  <1>t. TypeOK
    BY DEF AuthorityInvariant
  <1>f. \A a \in Attempts : attempts[a] \in Attempt
    BY <1>t DEF TypeOK
  <1>a. StepFacts
    BY StepLemma
  <1>c. \A c \in claims : c.attempt \in Attempts
    BY <1>t DEF TypeOK, Claim
  <1>r. ASSUME NEW b, NEW s \in LineageStatuses \ {"absent"}, RollUp(b, s)
        PROVE  \A x \in Builds :
                  builds[x].status # "absent" => builds'[x].status # "absent"
    BY <1>t, <1>r DEF RollUp, TypeOK, Build
  <1>m. ASSUME NEW S, NEW d, Reconcile(S, d)
        PROVE  \A x \in Builds :
                  builds[x].status # "absent" => builds'[x].status # "absent"
    BY <1>t, <1>m DEF Reconcile, TypeOK, Build
  <1>p. ASSUME NEW c, NEW s \in WireStatuses, PublishLockedTerminal(c, s)
        PROVE  \A x \in Builds :
                  builds[x].status # "absent" => builds'[x].status # "absent"
    BY <1>t, <1>p DEF PublishLockedTerminal, TypeOK, Build, WireStatuses
  <1>1. \A x \in Builds : builds[x].status # "absent" => builds'[x].status # "absent"
    <2>1. ASSUME NEW b \in Builds, NEW a \in Attempts, AdmitBuild(b, a)
          PROVE  \A x \in Builds :
                    builds[x].status # "absent" => builds'[x].status # "absent"
      BY <1>t, <2>1 DEF AdmitBuild, TypeOK
    <2>2. ASSUME NEW b \in Builds, DamageDefinition(b) \/ RequestCancellation(b)
          PROVE  \A x \in Builds :
                    builds[x].status # "absent" => builds'[x].status # "absent"
      <3>1. CASE DamageDefinition(b)
        BY <1>t, <3>1 DEF DamageDefinition, TypeOK, Build
      <3>2. CASE RequestCancellation(b)
        BY <1>t, <3>2 DEF RequestCancellation, TypeOK, Build
      <3> QED
        BY <2>2, <3>1, <3>2
    <2>3. ASSUME NEW c \in claims, ClaimHolder(c)
          PROVE  \A x \in Builds :
                    builds[x].status # "absent" => builds'[x].status # "absent"
      <3>1. ASSUME NEW result \in Results, PublishTerminal(c, result)
            PROVE  \A x \in Builds :
                      builds[x].status # "absent" => builds'[x].status # "absent"
        BY <1>p, <3>1, ResultsAssumption DEF PublishTerminal, WireStatuses
      <3>2. CASE CancelBeforeStart(c)
        BY <1>p, <3>2 DEF CancelBeforeStart, WireStatuses
      <3> QED
        BY <1>r, <2>3, <3>1, <3>2
           DEF ClaimHolder, BeginExecution, RenewLease, RequeueOwnedAttempt,
               RequireReconciliation, LineageStatuses
    <2>4. ASSUME NEW p \in Attempts, NEW child \in Attempts,
                 NEW limit \in AttemptLimits, CreateRetryChild(p, limit, child)
          PROVE  \A x \in Builds :
                    builds[x].status # "absent" => builds'[x].status # "absent"
      BY <1>r, <2>4 DEF CreateRetryChild, LineageStatuses
    <2>5. ASSUME NEW c \in claims, AcceptAttempt(c)
          PROVE  \A x \in Builds :
                    builds[x].status # "absent" => builds'[x].status # "absent"
      BY <1>r, <2>5 DEF AcceptAttempt, LineageStatuses
    <2> QED
      BY <1>m, <2>1, <2>2, <2>3, <2>4, <2>5
         DEF Next, ClaimNextExecution, QuarantineOnly, ClaimNext, OfferAttempt,
             ChildExtinct, RequeueExpiredLocalAttempts, ActivateRestore,
             ExhaustRetryBudget, Tick
  <1>2. ASSUME NEW a \in Attempts, ~Exists(a), Exists(a)'
        PROVE  builds'[attempts'[a].build].status # "absent"
    <2>1. ASSUME NEW b \in Builds, NEW x \in Attempts, AdmitBuild(b, x)
          PROVE  builds'[attempts'[a].build].status # "absent"
      <3>1. a = x
        BY <1>2, <1>t, <2>1 DEF AdmitBuild, Exists, TypeOK
      <3>2. attempts'[a].build = b
        BY <1>t, <2>1, <3>1 DEF AdmitBuild, QueuedAttempt, AbsentAttempt, TypeOK
      <3> QED
        BY <1>t, <2>1, <3>2 DEF AdmitBuild, TypeOK
    <2>2. ASSUME NEW p \in Attempts, NEW child \in Attempts,
                 NEW limit \in AttemptLimits, CreateRetryChild(p, limit, child)
          PROVE  builds'[attempts'[a].build].status # "absent"
      <3>1. a = child
        BY <1>2, <1>t, <2>2 DEF CreateRetryChild, Exists, TypeOK
      <3>2. /\ attempts'[a].build = BuildOf(p)
            /\ BuildOf(p) \in Builds
        <4>1. BuildOf(p) \in Builds
          BY <2>2 DEF CreateRetryChild, Undecided, AuthorityInvariant, RowShape, Exists
        <4> QED
          BY <1>t, <2>2, <3>1, <4>1
             DEF CreateRetryChild, QueuedAttempt, AbsentAttempt, TypeOK
      <3> QED
        BY <1>t, <2>2, <3>2 DEF CreateRetryChild, RollUp, TypeOK, Build
    <2>3. CASE NoInsertion
      BY <1>2, <2>3 DEF NoInsertion, Exists
    <2> QED
      BY <2>1, <2>2, <2>3, Insertions
  <1> QED
    BY <1>1, <1>2

LEMMA ShapeStep ==
    ASSUME AuthorityInvariant, Next PROVE RowShape'
  <1>1. StepFacts
    BY StepLemma
  <1> SUFFICES ASSUME NEW a \in Attempts
               PROVE  /\ ~Exists(a)' => attempts'[a] = AbsentAttempt
                      /\ Exists(a)' => /\ attempts'[a].build \in Builds
                                       /\ builds'[attempts'[a].build].status # "absent"
                      /\ attempts'[a].state \in ActiveStates
                            <=> attempts'[a].lease_owner # None
                      /\ attempts'[a].state \notin ActiveStates
                            => attempts'[a].lease_left = 0
    BY DEF RowShape, BuildOf
  <1>2. RowStep(a)
    BY <1>1 DEF StepFacts
  <1>3. /\ ~Exists(a) => attempts[a] = AbsentAttempt
        /\ Exists(a) => /\ attempts[a].build \in Builds
                        /\ builds[attempts[a].build].status # "absent"
        /\ attempts[a].state \in ActiveStates <=> attempts[a].lease_owner # None
        /\ attempts[a].state \notin ActiveStates => attempts[a].lease_left = 0
    BY DEF AuthorityInvariant, RowShape, BuildOf
  <1>4. CASE attempts'[a] = attempts[a]
    BY <1>3, <1>4, BuildsStay DEF Exists
  <1>5. CASE Inserted(a)
    <2>1. /\ attempts'[a].state = "queued" /\ attempts'[a].build \in Builds
          /\ attempts'[a].lease_owner = None /\ attempts'[a].lease_left = 0
      BY <1>5 DEF Inserted, QueuedAttempt, AbsentAttempt
    <2>2. ~Exists(a) /\ Exists(a)'
      BY <1>5, <2>1 DEF Inserted, Exists
    <2> QED
      BY <2>1, <2>2, BuildsStay DEF ActiveStates
  <1>6. CASE Granted(a)
    <2>1. Exists(a)
      BY <1>6 DEF Granted, Exists
    <2>2. attempts'[a].state = "offered" /\ attempts'[a].lease_owner # None
      BY <1>6, NoneAssumption DEF Granted
    <2>3. attempts'[a].build = attempts[a].build
      BY <1>6 DEF Granted, KeepsIdentity
    <2> QED
      BY <1>3, <2>1, <2>2, <2>3, BuildsStay DEF Exists, ActiveStates
  <1>7. CASE Kept(a)
    <2>1. Exists(a)
      BY <1>7 DEF Kept, Exists, ActiveStates
    <2> QED
      BY <1>3, <1>7, <2>1, BuildsStay DEF Kept, KeepsIdentity, ActiveStates, Exists
  <1>8. CASE Ended(a)
    <2>1. Exists(a)
      BY <1>8 DEF Ended, Unsettled, Exists, ActiveStates
    <2> QED
      BY <1>3, <1>8, <2>1, BuildsStay DEF Ended, KeepsIdentity, ActiveStates, Exists
  <1> QED
    BY <1>2, <1>4, <1>5, <1>6, <1>7, <1>8 DEF RowStep

-----------------------------------------------------------------------------
\* The retry chain.

\* Without an insertion every row keeps its place in its chain.
LEMMA PlacesStay ==
    ASSUME AuthorityInvariant, StepFacts, NoInsertion
    PROVE  /\ \A x \in Attempts : KeepsIdentity(x) /\ (Exists(x)' <=> Exists(x))
           /\ \A x \in Attempts : Settled(x) => attempts'[x] = attempts[x]
  <1> SUFFICES ASSUME NEW x \in Attempts
               PROVE  /\ KeepsIdentity(x) /\ (Exists(x)' <=> Exists(x))
                      /\ Settled(x) => attempts'[x] = attempts[x]
    OBVIOUS
  <1>1. RowStep(x)
    BY DEF StepFacts
  <1>2. ~Inserted(x) \/ attempts'[x] = attempts[x]
    BY DEF NoInsertion, Inserted
  <1> QED
    BY <1>1, <1>2 DEF RowStep, Granted, Kept, Ended, KeepsIdentity, Exists,
       Settled, Unsettled, ActiveStates

LEMMA ChainStep ==
    ASSUME AuthorityInvariant, Next PROVE RetryChain'
  <1>t. TypeOK /\ RetryChain /\ RowShape
    BY DEF AuthorityInvariant
  <1>r. \A x \in Attempts : attempts[x].retry_of \in Attempts \cup {None}
    BY <1>t DEF TypeOK, Attempt
  <1>s. StepFacts
    BY StepLemma
  <1>1. ASSUME NEW b \in Builds, NEW a \in Attempts, AdmitBuild(b, a)
        PROVE  RetryChain'
    <2>1. /\ attempts'[a].build = b /\ attempts'[a].retry_of = None
          /\ \A x \in Attempts \ {a} : attempts'[x] = attempts[x]
          /\ attempts[a].state = "absent"
          /\ retry_decisions' = retry_decisions
      BY <1>1, <1>t DEF AdmitBuild, QueuedAttempt, AbsentAttempt, TypeOK
    <2>2. \A x \in Attempts : Exists(x) => BuildOf(x) # b
      BY <1>1, <1>t DEF AdmitBuild, RowShape
    <2>3. \A x \in Attempts \ {a} : Newest(x)' => Newest(x)
      <3>1. attempts[a].retry_of = None
        BY <1>t, <2>1 DEF RowShape, Exists, AbsentAttempt
      <3> QED
        BY <2>1, <3>1, NoneAssumption DEF Newest, Exists
    <2>4. ASSUME NEW x \in Attempts, NEW y \in Attempts, Newest(x)', Newest(y)',
                 attempts'[x].build = attempts'[y].build
          PROVE  x = y
      BY <1>t, <2>1, <2>2, <2>3, <2>4 DEF RetryChain, Newest, BuildOf
    <2>5. ASSUME NEW x \in Attempts, Exists(x)', attempts'[x].retry_of # None
          PROVE  LET parent == attempts'[x].retry_of IN
                 /\ attempts'[parent].state = "terminal"
                 /\ attempts'[parent].build = attempts'[x].build
                 /\ attempts'[x].ordinal = attempts'[parent].ordinal + 1
                 /\ retry_decisions'[parent].child = x
                 /\ attempts'[x].ordinal < retry_decisions'[parent].attempt_limit
      <3>1. x # a /\ Exists(x) /\ attempts[x].retry_of \in Attempts
        BY <1>r, <2>1, <2>5 DEF Exists
      <3>2. attempts[attempts[x].retry_of].state = "terminal"
        BY <1>t, <2>1, <2>5, <3>1 DEF RetryChain
      <3> QED
        BY <1>t, <2>1, <2>5, <3>1, <3>2 DEF RetryChain, BuildOf
    <2> QED
      BY <2>4, <2>5 DEF RetryChain, BuildOf
  <1>2. ASSUME NEW p \in Attempts, NEW child \in Attempts,
               NEW limit \in AttemptLimits, CreateRetryChild(p, limit, child)
        PROVE  RetryChain'
    <2>1. /\ attempts'[child].build = attempts[p].build
          /\ attempts'[child].retry_of = p
          /\ attempts'[child].ordinal = attempts[p].ordinal + 1
          /\ attempts[p].ordinal + 1 < limit
          /\ \A x \in Attempts \ {child} : attempts'[x] = attempts[x]
          /\ attempts[child].state = "absent"
          /\ attempts[p].state = "terminal"
          /\ retry_decisions[p] = NoDecision
          /\ retry_decisions'[p].child = child
          /\ retry_decisions'[p].attempt_limit = limit
          /\ \A q \in Attempts \ {p} : retry_decisions'[q] = retry_decisions[q]
      BY <1>2, <1>t DEF CreateRetryChild, Undecided, QueuedAttempt, AbsentAttempt,
         BuildOf, TypeOK
    <2>2. \A x \in Attempts : Exists(x) => attempts[x].retry_of # p
      BY <1>t, <2>1, NoneAssumption DEF RetryChain, NoDecision
    <2>3. Newest(p)
      <3>1. \A x \in Attempts : ~Exists(x) => attempts[x].retry_of = None
        BY <1>t DEF RowShape, AbsentAttempt
      <3> QED
        BY <2>1, <2>2, <3>1, NoneAssumption DEF Newest, Exists
    <2>4. ~Newest(p)'
      BY <2>1 DEF Newest
    <2>5. \A x \in Attempts \ {child} : Newest(x)' => Newest(x) /\ x # p
      <3>1. attempts[child].retry_of = None
        BY <1>t, <2>1 DEF RowShape, Exists, AbsentAttempt
      <3> QED
        BY <2>1, <2>4, <3>1, NoneAssumption DEF Newest, Exists
    <2>6. ASSUME NEW x \in Attempts, NEW y \in Attempts, Newest(x)', Newest(y)',
                 attempts'[x].build = attempts'[y].build
          PROVE  x = y
      BY <1>t, <2>1, <2>3, <2>5, <2>6 DEF RetryChain, BuildOf
    <2>7. ASSUME NEW x \in Attempts, Exists(x)', attempts'[x].retry_of # None
          PROVE  LET parent == attempts'[x].retry_of IN
                 /\ attempts'[parent].state = "terminal"
                 /\ attempts'[parent].build = attempts'[x].build
                 /\ attempts'[x].ordinal = attempts'[parent].ordinal + 1
                 /\ retry_decisions'[parent].child = x
                 /\ attempts'[x].ordinal < retry_decisions'[parent].attempt_limit
      <3>1. CASE x = child
        BY <2>1, <3>1
      <3>2. CASE x # child
        <4>1. Exists(x) /\ attempts[x].retry_of \in Attempts
          BY <1>r, <2>1, <2>7, <3>2 DEF Exists
        <4>2. /\ attempts[attempts[x].retry_of].state = "terminal"
              /\ attempts[x].retry_of # p
          BY <1>t, <2>1, <2>2, <2>7, <3>2, <4>1 DEF RetryChain
        <4> QED
          BY <1>t, <2>1, <2>7, <3>2, <4>1, <4>2 DEF RetryChain, BuildOf
      <3> QED
        BY <3>1, <3>2
    <2> QED
      BY <2>6, <2>7 DEF RetryChain, BuildOf
  <1>3. ASSUME NoInsertion,
               \/ retry_decisions' = retry_decisions
               \/ \E p \in Attempts, limit \in AttemptLimits :
                     ExhaustRetryBudget(p, limit)
        PROVE  RetryChain'
    <2>1. /\ \A x \in Attempts : KeepsIdentity(x) /\ (Exists(x)' <=> Exists(x))
          /\ \A x \in Attempts : Settled(x) => attempts'[x] = attempts[x]
      BY <1>3, <1>s, PlacesStay
    <2>2. \A q \in Attempts : retry_decisions[q].child \in Attempts =>
              retry_decisions'[q] = retry_decisions[q]
      <3>1. ASSUME NEW p \in Attempts, NEW limit \in AttemptLimits,
                   ExhaustRetryBudget(p, limit)
            PROVE  /\ retry_decisions[p].child \notin Attempts
                   /\ \A q \in Attempts \ {p} :
                         retry_decisions'[q] = retry_decisions[q]
        <4>1. retry_decisions[p] = NoDecision
          BY <3>1 DEF ExhaustRetryBudget, Undecided
        <4> QED
          BY <1>t, <3>1, <4>1, NoneAssumption DEF ExhaustRetryBudget, NoDecision, TypeOK
      <3> QED
        BY <1>3, <3>1
    <2>3. \A x \in Attempts : Newest(x)' <=> Newest(x)
      BY <2>1 DEF Newest, KeepsIdentity
    <2>4. ASSUME NEW x \in Attempts, NEW y \in Attempts, Newest(x)', Newest(y)',
                 attempts'[x].build = attempts'[y].build
          PROVE  x = y
      BY <1>t, <2>1, <2>3, <2>4 DEF RetryChain, KeepsIdentity, BuildOf
    <2>5. ASSUME NEW x \in Attempts, Exists(x)', attempts'[x].retry_of # None
          PROVE  LET parent == attempts'[x].retry_of IN
                 /\ attempts'[parent].state = "terminal"
                 /\ attempts'[parent].build = attempts'[x].build
                 /\ attempts'[x].ordinal = attempts'[parent].ordinal + 1
                 /\ retry_decisions'[parent].child = x
                 /\ attempts'[x].ordinal < retry_decisions'[parent].attempt_limit
      <3>1. /\ Exists(x) /\ attempts[x].retry_of \in Attempts
            /\ attempts'[x].retry_of = attempts[x].retry_of
            /\ attempts'[x].ordinal = attempts[x].ordinal
            /\ attempts'[x].build = attempts[x].build
        BY <1>r, <2>1, <2>5 DEF KeepsIdentity
      <3>2. /\ attempts[attempts[x].retry_of].state = "terminal"
            /\ retry_decisions[attempts[x].retry_of].child = x
        BY <1>t, <2>5, <3>1 DEF RetryChain
      <3>3. attempts'[attempts[x].retry_of] = attempts[attempts[x].retry_of]
        BY <2>1, <3>1, <3>2 DEF Settled
      <3> QED
        BY <1>t, <2>2, <2>5, <3>1, <3>2, <3>3 DEF RetryChain, BuildOf
    <2> QED
      BY <2>4, <2>5 DEF RetryChain, BuildOf
  <1> QED
    BY <1>1, <1>2, <1>3, Insertions

-----------------------------------------------------------------------------
\* The roll-up.

SameStatus(b) == nodes'[b] = nodes[b] /\ builds'[b].status = builds[b].status
AllAt(b, s) == nodes'[b] = s /\ builds'[b].status = s

\* An attempt whose outcome is open is the newest of its build, and the only one.
LEMMA OpenIsNewest ==
    ASSUME AuthorityInvariant, NEW a \in Attempts, Unsettled(a)
    PROVE  /\ Newest(a)
           /\ BuildOf(a) \in Builds
           /\ \A x \in Attempts : Newest(x) /\ BuildOf(x) = BuildOf(a) => x = a
  <1>1. Exists(a) /\ attempts[a].state # "terminal"
    BY DEF Unsettled, Exists, ActiveStates
  <1>2. \A x \in Attempts : attempts[x].retry_of # a
    <2>1. \A x \in Attempts : ~Exists(x) => attempts[x].retry_of = None
      BY DEF AuthorityInvariant, RowShape, AbsentAttempt
    <2> QED
      BY <1>1, <2>1, NoneAssumption DEF AuthorityInvariant, RetryChain
  <1> QED
    BY <1>1, <1>2 DEF Newest, AuthorityInvariant, RetryChain, RowShape

\* The attempts in S move and every build of theirs follows, no other does.
LEMMA RolledUp ==
    ASSUME AuthorityInvariant,
           \A x \in Attempts : KeepsIdentity(x) /\ (Exists(x)' <=> Exists(x)),
           NEW S \in SUBSET Attempts,
           \A a \in S : Unsettled(a) /\ AllAt(BuildOf(a), StatusOf(attempts'[a])),
           \A x \in Attempts \ S : StatusOf(attempts'[x]) = StatusOf(attempts[x]),
           \A b \in Builds : (\A a \in S : BuildOf(a) # b) => SameStatus(b)
    PROVE  LineageAgrees'
  <1> SUFFICES ASSUME NEW x \in Attempts, Newest(x)'
               PROVE  /\ nodes'[attempts'[x].build] = StatusOf(attempts'[x])
                      /\ builds'[attempts'[x].build].status = StatusOf(attempts'[x])
    BY DEF LineageAgrees, BuildOf
  <1>1. Newest(x) /\ Exists(x)
    BY DEF Newest, KeepsIdentity
  <1>2. BuildOf(x) \in Builds /\ attempts'[x].build = BuildOf(x)
    BY <1>1 DEF AuthorityInvariant, RowShape, KeepsIdentity, BuildOf
  <1>3. CASE x \in S
    BY <1>2, <1>3 DEF AllAt
  <1>4. CASE x \notin S
    <2>1. \A a \in S : BuildOf(a) # BuildOf(x)
      BY <1>1, <1>4, OpenIsNewest
    <2>2. SameStatus(BuildOf(x))
      BY <1>2, <2>1
    <2> QED
      BY <1>1, <1>2, <1>4, <2>2 DEF SameStatus, AuthorityInvariant, LineageAgrees
  <1> QED
    BY <1>3, <1>4

LEMMA LineageStep ==
    ASSUME AuthorityInvariant, Next PROVE LineageAgrees'
  <1>t. TypeOK /\ RowShape /\ LineageAgrees /\ RetryChain
    BY DEF AuthorityInvariant
  <1>c. \A c \in claims : c.attempt \in Attempts
    BY <1>t DEF TypeOK, Claim
  <1>r. \A x \in Attempts : attempts[x] \in Attempt
    BY <1>t DEF TypeOK
  <1>s. StepFacts
    BY StepLemma
  <1>n. ASSUME NoInsertion
        PROVE  \A x \in Attempts : KeepsIdentity(x) /\ (Exists(x)' <=> Exists(x))
    BY <1>n, <1>s, PlacesStay
  \* Steps that leave every status alone.
  <1>q. ASSUME NoInsertion,
               \A x \in Attempts : StatusOf(attempts'[x]) = StatusOf(attempts[x]),
               \A b \in Builds : SameStatus(b)
        PROVE  LineageAgrees'
    <2> DEFINE S == {}
    <2>1. /\ S \in SUBSET Attempts
          /\ \A x \in Attempts : x \notin S
          /\ \A a \in S : Unsettled(a) /\ AllAt(BuildOf(a), StatusOf(attempts'[a]))
      OBVIOUS
    <2> HIDE DEF S
    <2> QED
      BY <1>n, <1>q, <2>1, RolledUp
  \* Steps that roll one attempt up.
  <1>o. ASSUME NEW a \in Attempts, Unsettled(a),
               \A x \in Attempts \ {a} : attempts'[x] = attempts[x],
               AllAt(BuildOf(a), StatusOf(attempts'[a])),
               \A b \in Builds \ {BuildOf(a)} : SameStatus(b)
        PROVE  LineageAgrees'
    <2>1. NoInsertion
      BY <1>o DEF NoInsertion, Unsettled, Exists, ActiveStates
    <2> QED
      BY <1>n, <1>o, <2>1, RolledUp
  <1>u. ASSUME NEW b \in Builds, NEW s, RollUp(b, s)
        PROVE  AllAt(b, s) /\ \A x \in Builds \ {b} : SameStatus(x)
    BY <1>t, <1>u DEF RollUp, AllAt, SameStatus, TypeOK, Build
  \* Steps that reconcile a set of attempts.
  <1>m. ASSUME NEW S \in SUBSET Attempts, NEW d \in BOOLEAN, Reconcile(S, d),
               \A a \in S : Unsettled(a) /\ attempts'[a].state = "reconciliation_required",
               \A x \in Attempts \ S : StatusOf(attempts'[x]) = StatusOf(attempts[x]),
               NoInsertion
        PROVE  LineageAgrees'
    <2>1. \A a \in S : StatusOf(attempts'[a]) = "reconciliation_required"
      BY <1>m DEF StatusOf
    <2>2. \A a \in S : BuildOf(a) \in Builds
      BY <1>m, OpenIsNewest
    <2>3. \A a \in S : AllAt(BuildOf(a), "reconciliation_required")
      BY <1>t, <1>m, <2>2 DEF Reconcile, AllAt, TypeOK, Build
    <2>4. \A b \in Builds : (\A a \in S : BuildOf(a) # b) => SameStatus(b)
      BY <1>t, <1>m DEF Reconcile, SameStatus, TypeOK, Build
    <2> QED
      BY <1>m, <1>n, <2>1, <2>3, <2>4, RolledUp
  <1>1. ASSUME NEW b \in Builds, NEW a \in Attempts, AdmitBuild(b, a)
        PROVE  LineageAgrees'
    <2>1. /\ attempts'[a].state = "queued" /\ attempts'[a].build = b
          /\ \A x \in Attempts \ {a} : attempts'[x] = attempts[x]
          /\ AllAt(b, "queued")
          /\ \A x \in Builds \ {b} : SameStatus(x)
          /\ builds[b].status = "absent"
          /\ ~Exists(a)
      BY <1>t, <1>1 DEF AdmitBuild, QueuedAttempt, AbsentAttempt, TypeOK, Build,
         AllAt, SameStatus, Exists
    <2> SUFFICES ASSUME NEW x \in Attempts, Newest(x)'
                 PROVE  AllAt(attempts'[x].build, StatusOf(attempts'[x]))
      BY DEF LineageAgrees, AllAt, BuildOf
    <2>2. CASE x = a
      BY <2>1, <2>2 DEF StatusOf
    <2>3. CASE x # a
      <3>1. attempts[a].retry_of = None
        BY <1>t, <2>1 DEF RowShape, AbsentAttempt
      <3>2. Newest(x)
        BY <2>1, <2>3, <3>1, NoneAssumption DEF Newest, Exists
      <3>3. BuildOf(x) \in Builds \ {b}
        BY <1>t, <2>1, <3>2 DEF Newest, RowShape
      <3> QED
        BY <1>t, <2>1, <2>3, <3>2, <3>3 DEF LineageAgrees, AllAt, SameStatus, BuildOf
    <2> QED
      BY <2>2, <2>3
  <1>2. ASSUME NEW b \in Builds, DamageDefinition(b) \/ RequestCancellation(b)
        PROVE  LineageAgrees'
    <2>1. /\ attempts' = attempts
          /\ \A x \in Builds : SameStatus(x)
      <3>1. /\ attempts' = attempts /\ nodes' = nodes
            /\ \/ builds' = [builds EXCEPT ![b].definition_intact = FALSE]
               \/ builds' = [builds EXCEPT ![b].cancellation_requested = TRUE]
        BY <1>2 DEF DamageDefinition, RequestCancellation
      <3>2. \A x \in Builds : builds[x] \in Build
        BY <1>t DEF TypeOK
      <3>3. ASSUME NEW x \in Builds PROVE builds'[x].status = builds[x].status
        <4>1. \/ builds'[x] = builds[x]
              \/ builds'[x] = [builds[x] EXCEPT !.definition_intact = FALSE]
              \/ builds'[x] = [builds[x] EXCEPT !.cancellation_requested = TRUE]
          BY <1>t, <3>1 DEF TypeOK
        <4> QED
          BY <3>2, <4>1 DEF Build
      <3> QED
        BY <3>1, <3>3 DEF SameStatus
    <2> QED
      BY <1>q, <2>1 DEF NoInsertion
  <1>3. ASSUME NEW w \in LocalWorkers, NEW Q \in SUBSET Attempts, NEW a \in Attempts,
               ClaimNextExecution(w, Q, a)
        PROVE  LineageAgrees'
    <2>1. /\ a \notin Q
          /\ attempts[a].state = "queued"
          /\ \A q \in Q : attempts[q].state = "queued"
      BY <1>3 DEF ClaimNextExecution, ClaimableExecution
    <2>2. attempts'[a].state = "offered"
      BY <1>3, <1>r DEF ClaimNextExecution, Offered, Attempt
    <2>3. \A q \in Q : attempts'[q].state = "reconciliation_required"
      BY <1>3, <1>r, <2>1 DEF ClaimNextExecution, Released, Attempt
    <2>4. \A x \in Attempts \ Q : x # a => attempts'[x] = attempts[x]
      BY <1>3 DEF ClaimNextExecution
    <2>5. \A x \in Attempts \ Q : StatusOf(attempts'[x]) = StatusOf(attempts[x])
      <3>1. StatusOf(attempts'[a]) = "queued" /\ StatusOf(attempts[a]) = "queued"
        BY <2>1, <2>2 DEF StatusOf
      <3> QED
        BY <2>4, <3>1
    <2>6. NoInsertion
      BY <2>1, <2>4 DEF NoInsertion, Exists
    <2>7. Reconcile(Q, FALSE) /\ \A q \in Q : Unsettled(q)
      BY <1>3, <2>1 DEF ClaimNextExecution, Unsettled
    <2> QED
      BY <1>m, <2>3, <2>5, <2>6, <2>7
  <1>4. ASSUME NEW Q \in SUBSET Attempts, QuarantineOnly(Q) PROVE LineageAgrees'
    <2>1. \A q \in Q : /\ attempts[q].state = "queued"
                      /\ attempts'[q].state = "reconciliation_required"
      BY <1>4, <1>r DEF QuarantineOnly, ClaimableExecution, Released, Attempt
    <2>2. \A x \in Attempts \ Q : attempts'[x] = attempts[x]
      BY <1>4 DEF QuarantineOnly
    <2>3. NoInsertion /\ \A q \in Q : Unsettled(q)
      BY <2>1, <2>2 DEF NoInsertion, Exists, Unsettled
    <2>4. Reconcile(Q, FALSE)
      BY <1>4 DEF QuarantineOnly
    <2> QED
      BY <1>m, <2>1, <2>2, <2>3, <2>4
  <1>5. ASSUME NEW w \in Agents, NEW a \in Attempts,
               ClaimNext(w, a) \/ OfferAttempt(w, a)
        PROVE  LineageAgrees'
    <2>1. /\ attempts[a].state \in {"queued", "offered"}
          /\ attempts'[a].state = "offered"
          /\ \A x \in Attempts \ {a} : attempts'[x] = attempts[x]
          /\ nodes' = nodes /\ builds' = builds
      BY <1>5, <1>t, <1>r DEF ClaimNext, OfferAttempt, Offered, TypeOK, Attempt
    <2>2. \A x \in Attempts : StatusOf(attempts'[x]) = StatusOf(attempts[x])
      <3>1. StatusOf(attempts'[a]) = "queued" /\ StatusOf(attempts[a]) = "queued"
        BY <2>1 DEF StatusOf
      <3> QED
        BY <2>1, <3>1
    <2>3. NoInsertion /\ \A b \in Builds : SameStatus(b)
      BY <2>1 DEF NoInsertion, Exists, SameStatus
    <2> QED
      BY <1>q, <2>2, <2>3
  <1>6. ASSUME NEW c \in claims, AcceptAttempt(c) \/ BeginExecution(c)
        PROVE  LineageAgrees'
    <2>1. /\ attempts[c.attempt].state = "offered"
          /\ attempts'[c.attempt].state = "running"
          /\ \A x \in Attempts \ {c.attempt} : attempts'[x] = attempts[x]
          /\ RollUp(BuildOf(c.attempt), "running")
      BY <1>c, <1>r, <1>t, <1>6
         DEF AcceptAttempt, BeginExecution, Authority, TypeOK, Attempt
    <2>2. Unsettled(c.attempt) /\ StatusOf(attempts'[c.attempt]) = "running"
      BY <2>1 DEF Unsettled, ActiveStates, StatusOf
    <2> QED
      BY <1>c, <1>o, <1>u, <2>1, <2>2, OpenIsNewest
  <1>7. ASSUME NEW c \in claims, NEW s \in WireStatuses,
               attempts[c.attempt].state \in ActiveStates,
               PublishLockedTerminal(c, s)
        PROVE  LineageAgrees'
    <2>1. /\ attempts'[c.attempt].state = "terminal"
          /\ attempts'[c.attempt].result = s
          /\ \A x \in Attempts \ {c.attempt} : attempts'[x] = attempts[x]
      BY <1>c, <1>r, <1>t, <1>7
         DEF PublishLockedTerminal, Released, TypeOK, Attempt
    <2>2. Unsettled(c.attempt) /\ StatusOf(attempts'[c.attempt]) = s
      BY <1>7, <2>1 DEF Unsettled, StatusOf
    <2>3. BuildOf(c.attempt) \in Builds
      BY <1>c, <2>2, OpenIsNewest
    <2>4. /\ AllAt(BuildOf(c.attempt), s)
          /\ \A x \in Builds \ {BuildOf(c.attempt)} : SameStatus(x)
      BY <1>t, <1>7, <2>3 DEF PublishLockedTerminal, AllAt, SameStatus, TypeOK, Build
    <2> QED
      BY <1>c, <1>o, <2>1, <2>2, <2>4
  <1>8. ASSUME NEW c \in claims, ClaimHolder(c) PROVE LineageAgrees'
    <2>1. CASE CancelBeforeStart(c)
      BY <1>7, <2>1 DEF CancelBeforeStart, Authority, WireStatuses, ActiveStates
    <2>2. ASSUME NEW result \in Results, PublishTerminal(c, result)
          PROVE  LineageAgrees'
      BY <1>7, <2>2, ResultsAssumption DEF PublishTerminal, Authority, WireStatuses
    <2>3. CASE RenewLease(c)
      <3>1. \A x \in Attempts : attempts'[x].state = attempts[x].state
                                /\ attempts'[x].result = attempts[x].result
        BY <1>c, <1>r, <1>t, <2>3 DEF RenewLease, TypeOK, Attempt
      <3>2. \A x \in Attempts : StatusOf(attempts'[x]) = StatusOf(attempts[x])
        BY <3>1 DEF StatusOf
      <3>3. NoInsertion
        BY <1>c, <1>t, <2>3 DEF RenewLease, Authority, NoInsertion, Exists,
           ActiveStates, TypeOK
      <3>4. \A b \in Builds : SameStatus(b)
        BY <2>3 DEF RenewLease, SameStatus
      <3> QED
        BY <1>q, <3>2, <3>3, <3>4
    <2>4. ASSUME NEW s \in {"queued", "reconciliation_required"},
                 attempts[c.attempt].state \in ActiveStates,
                 attempts' = [attempts EXCEPT ![c.attempt] =
                     Released(attempts[c.attempt], s)],
                 RollUp(BuildOf(c.attempt), s)
          PROVE  LineageAgrees'
      <3>1. /\ attempts'[c.attempt].state = s
            /\ \A x \in Attempts \ {c.attempt} : attempts'[x] = attempts[x]
        BY <1>c, <1>r, <1>t, <2>4 DEF Released, TypeOK, Attempt
      <3>2. Unsettled(c.attempt) /\ StatusOf(attempts'[c.attempt]) = s
        BY <2>4, <3>1 DEF Unsettled, StatusOf
      <3> QED
        BY <1>c, <1>o, <1>u, <2>4, <3>1, <3>2, OpenIsNewest
    <2> QED
      BY <1>6, <1>8, <2>1, <2>2, <2>3, <2>4
         DEF ClaimHolder, RequeueOwnedAttempt, RequireReconciliation, Authority
  <1>9. CASE RequeueExpiredLocalAttempts
    <2> DEFINE S == {a \in ExpiredLocal : attempts[a].state # "offered"}
    <2>1. \A a \in S : /\ a \in Attempts /\ Unsettled(a)
                      /\ attempts'[a].state = "reconciliation_required"
      BY <1>9, <1>r DEF RequeueExpiredLocalAttempts, ExpiredLocal, Unsettled,
         Released, Attempt
    <2>2. \A x \in Attempts \ S : \/ attempts'[x] = attempts[x]
                                  \/ /\ attempts[x].state = "offered"
                                     /\ attempts'[x].state = "queued"
      BY <1>9, <1>r DEF RequeueExpiredLocalAttempts, Released, Attempt
    <2>3. \A x \in Attempts \ S : StatusOf(attempts'[x]) = StatusOf(attempts[x])
      BY <2>2 DEF StatusOf
    <2>4. NoInsertion
      BY <2>1, <2>2 DEF NoInsertion, Exists, Unsettled, ActiveStates
    <2>5. Reconcile(S, TRUE)
      BY <1>9 DEF RequeueExpiredLocalAttempts
    <2> HIDE DEF S
    <2> QED
      BY <1>m, <2>1, <2>3, <2>4, <2>5
  <1>10. CASE ActivateRestore
    <2> DEFINE S == Invalidated(restore_epoch + 1)
    <2>1. \A a \in S : /\ a \in Attempts /\ Unsettled(a)
                      /\ attempts'[a].state = "reconciliation_required"
      BY <1>10, <1>r DEF ActivateRestore, Invalidated, Unsettled, Released, Attempt
    <2>2. \A x \in Attempts \ S : attempts'[x] = attempts[x]
      BY <1>10 DEF ActivateRestore
    <2>4. NoInsertion
      BY <2>1, <2>2 DEF NoInsertion, Exists, Unsettled, ActiveStates
    <2>5. Reconcile(S, TRUE)
      BY <1>10 DEF ActivateRestore
    <2> HIDE DEF S
    <2> QED
      BY <1>m, <2>1, <2>2, <2>4, <2>5
  <1>11. ASSUME NEW p \in Attempts, NEW child \in Attempts,
                NEW limit \in AttemptLimits, CreateRetryChild(p, limit, child)
         PROVE  LineageAgrees'
    <2>1. /\ attempts'[child].state = "queued"
          /\ attempts'[child].build = BuildOf(p)
          /\ attempts'[child].retry_of = p
          /\ \A x \in Attempts \ {child} : attempts'[x] = attempts[x]
          /\ ~Exists(child) /\ Exists(p)
          /\ BuildOf(p) \in Builds
          /\ retry_decisions[p] = NoDecision
          /\ RollUp(BuildOf(p), "queued")
      BY <1>t, <1>11 DEF CreateRetryChild, Undecided, QueuedAttempt, AbsentAttempt,
         TypeOK, RowShape, Exists
    <2>2. /\ AllAt(BuildOf(p), "queued")
          /\ \A x \in Builds \ {BuildOf(p)} : SameStatus(x)
      BY <1>u, <2>1
    <2>3. \A x \in Attempts : ~Exists(x) => attempts[x].retry_of = None
      BY <1>t DEF RowShape, AbsentAttempt
    <2>4. \A x \in Attempts : attempts[x].retry_of # p
      BY <1>t, <2>1, <2>3, NoneAssumption DEF RetryChain, NoDecision
    <2>5. Newest(p)
      BY <2>1, <2>4 DEF Newest
    <2> SUFFICES ASSUME NEW x \in Attempts, Newest(x)'
                 PROVE  AllAt(attempts'[x].build, StatusOf(attempts'[x]))
      BY DEF LineageAgrees, AllAt, BuildOf
    <2>6. CASE x = child
      BY <2>1, <2>2, <2>6 DEF StatusOf
    <2>7. CASE x # child
      <3>1. x # p
        BY <2>1 DEF Newest
      <3>2. Newest(x)
        BY <2>1, <2>3, <2>7, NoneAssumption DEF Newest, Exists
      <3>3. BuildOf(x) \in Builds \ {BuildOf(p)}
        BY <1>t, <2>5, <3>1, <3>2 DEF RetryChain, RowShape, Newest
      <3> QED
        BY <1>t, <2>1, <2>2, <2>7, <3>2, <3>3
           DEF LineageAgrees, AllAt, SameStatus, BuildOf
    <2> QED
      BY <2>6, <2>7
  <1>12. CASE Tick
    <2>1. \A x \in Attempts : attempts'[x].state = attempts[x].state
                              /\ attempts'[x].result = attempts[x].result
      BY <1>r, <1>12 DEF Tick, Attempt
    <2>2. \A x \in Attempts : StatusOf(attempts'[x]) = StatusOf(attempts[x])
      BY <2>1 DEF StatusOf
    <2>3. NoInsertion
      <3>1. \A x \in Attempts : RowStep(x)
        BY <1>s DEF StepFacts
      <3>2. \A x \in Attempts : Exists(x)' <=> Exists(x)
        BY <2>1 DEF Exists
      <3> QED
        BY <3>1, <3>2, ZenonT(30) DEF NoInsertion, RowStep, Inserted, Granted, Kept, Ended,
           Exists, Unsettled, ActiveStates, QueuedAttempt, AbsentAttempt
    <2>4. \A b \in Builds : SameStatus(b)
      BY <1>12 DEF Tick, SameStatus
    <2> QED
      BY <1>q, <2>2, <2>3, <2>4
  <1>13. ASSUME NEW p \in Attempts, NEW limit \in AttemptLimits,
                ExhaustRetryBudget(p, limit)
         PROVE  LineageAgrees'
    BY <1>q, <1>13 DEF ExhaustRetryBudget, NoInsertion, SameStatus
  <1>14. ASSUME NEW c \in executing, ChildExtinct(c) PROVE LineageAgrees'
    BY <1>q, <1>14 DEF ChildExtinct, NoInsertion, SameStatus
  <1> QED
    BY <1>1, <1>2, <1>3, <1>4, <1>5, <1>6, <1>8, <1>9, <1>10, <1>11, <1>12,
       <1>13, <1>14 DEF Next

-----------------------------------------------------------------------------
\* The theorems.

LEMMA AuthorityInit == Init => AuthorityInvariant
  <1> SUFFICES ASSUME Init PROVE AuthorityInvariant
    OBVIOUS
  <1>1. TypeOK
    BY TypeInit
  <1>2. \A a \in Attempts : attempts[a] = AbsentAttempt
    BY DEF Init
  <1>3. \A a \in Attempts : ~Exists(a) /\ ~Newest(a) /\ ~Unsettled(a)
    BY <1>2 DEF Exists, Newest, Unsettled, AbsentAttempt, ActiveStates
  <1>4. RowShape
    BY <1>2, <1>3 DEF RowShape, AbsentAttempt, ActiveStates
  <1>5. ClaimsNeverShared /\ ExecutionShape
    BY DEF Init, ClaimsNeverShared, ExecutionShape
  <1>6. NoStaleEpoch /\ RetryChain /\ LineageAgrees
    BY <1>3 DEF NoStaleEpoch, RetryChain, LineageAgrees
  <1> QED
    BY <1>1, <1>4, <1>5, <1>6 DEF AuthorityInvariant

LEMMA AuthorityStep == AuthorityInvariant /\ [Next]_vars => AuthorityInvariant'
  <1> SUFFICES ASSUME AuthorityInvariant, [Next]_vars PROVE AuthorityInvariant'
    OBVIOUS
  <1>1. CASE Next
    <2>1. TypeOK'
      BY <1>1, TypeStep DEF AuthorityInvariant
    <2>2. StepFacts
      BY <1>1, StepLemma
    <2> QED
      BY <1>1, <2>1, <2>2, ShapeStep, FencesStep, EpochStep, ChainStep,
         ExecutionStep, LineageStep DEF AuthorityInvariant
  <1>2. CASE UNCHANGED vars
    BY <1>2 DEF vars, AuthorityInvariant, TypeOK, RowShape, ClaimsNeverShared,
       NoStaleEpoch, RetryChain, ExecutionShape, LineageAgrees, Exists, BuildOf,
       Unsettled, Newest, StatusOf
  <1> QED
    BY <1>1, <1>2

\* What every Store transaction relies on always holds, for any number of
\* builds, attempts, workers and agents and any lease term.
THEOREM Authority_holds == Spec => []AuthorityInvariant
  BY AuthorityInit, AuthorityStep, PTL DEF Spec

\* Two holders never share a fence.
THEOREM Fences == Spec => []ClaimsNeverShared
  <1>1. AuthorityInvariant => ClaimsNeverShared
    BY DEF AuthorityInvariant
  <1> QED
    BY <1>1, Authority_holds, PTL

\* The attempts, nodes and builds tables agree.
THEOREM Lineages == Spec => []LineageAgrees
  <1>1. AuthorityInvariant => LineageAgrees
    BY DEF AuthorityInvariant
  <1> QED
    BY <1>1, Authority_holds, PTL

\* A build is never executed twice at once.
THEOREM OneChild == Spec => []OneChildPerBuild
  <1>1. AuthorityInvariant => OneChildPerBuild
    <2> SUFFICES ASSUME AuthorityInvariant, NEW c1 \in executing, NEW c2 \in executing,
                        BuildOf(c1.attempt) = BuildOf(c2.attempt)
                 PROVE  c1 = c2
      BY DEF OneChildPerBuild
    <2>1. ASSUME NEW c \in executing
          PROVE  /\ c \in claims /\ c.attempt \in Attempts
                 /\ c.fence = attempts[c.attempt].fence
                 /\ Newest(c.attempt)
      <3>1. /\ c \in claims /\ c.attempt \in Attempts
            /\ c.fence = attempts[c.attempt].fence
            /\ attempts[c.attempt].state \notin {"absent", "terminal"}
        BY DEF AuthorityInvariant, ExecutionShape, TypeOK, Claim, ActiveStates
      <3>2. \A x \in Attempts : ~Exists(x) => attempts[x].retry_of = None
        BY DEF AuthorityInvariant, RowShape, AbsentAttempt
      <3>3. \A x \in Attempts : attempts[x].retry_of # c.attempt
        BY <3>1, <3>2, NoneAssumption DEF AuthorityInvariant, RetryChain
      <3> QED
        BY <3>1, <3>3 DEF Newest, Exists
    <2>2. c1.attempt = c2.attempt
      BY <2>1 DEF AuthorityInvariant, RetryChain
    <2> QED
      BY <2>1, <2>2 DEF AuthorityInvariant, ClaimsNeverShared
  <1> QED
    BY <1>1, Authority_holds, PTL

\* A settled attempt is never rewritten.
THEOREM Settlement == Spec => SettledIsFinal
  <1>1. ASSUME AuthorityInvariant, [Next]_vars
        PROVE  [\A a \in Attempts : Settled(a) => attempts'[a] = attempts[a]]_vars
    <2>1. CASE Next
      <3> SUFFICES ASSUME NEW a \in Attempts, Settled(a)
                   PROVE  attempts'[a] = attempts[a]
        OBVIOUS
      <3>1. RowStep(a)
        BY <1>1, <2>1, StepLemma DEF StepFacts
      <3> QED
        BY <3>1 DEF RowStep, Inserted, Granted, Kept, Ended, Settled, Unsettled,
           Exists, ActiveStates
    <2> QED
      BY <1>1, <2>1
  <1> QED
    BY <1>1, Authority_holds, PTL DEF Spec, SettledIsFinal

-----------------------------------------------------------------------------
\* The outbox.

SettlingTopics == {"build.terminal", "build.reconciliation_required"}
Settles(a) == ~Settled(a) /\ Settled(a)'

\* A step that says nothing about b settles none of its attempts, and moves its
\* status at most between queued and running.
Silent(b) ==
    /\ outbox'[b] = outbox[b]
    /\ \/ builds'[b].status = builds[b].status
       \/ {builds[b].status, builds'[b].status} \subseteq {"queued", "running"}
    /\ \A a \in Attempts : attempts'[a].build = b => ~Settles(a)

\* A step that says m about b: of an attempt of b, which it settles if m says so,
\* in the words the tables then use, and under the last fence if under any.
Says(b, m) ==
    /\ outbox'[b] = Append(outbox[b], m)
    /\ m.attempt \in Attempts /\ Exists(m.attempt)' /\ attempts'[m.attempt].build = b
    /\ m.status = None => builds'[b].status = builds[b].status
    /\ m.status # None => m.status # "running" /\ builds'[b].status = m.status
    /\ \A a \in Attempts : attempts'[a].build = b =>
          (Settles(a) <=> m.attempt = a /\ m.topic \in SettlingTopics)
    /\ m.fence > 0 => /\ m.topic \in SettlingTopics
                      /\ m.fence = attempts[m.attempt].fence
                      /\ claims' = claims

OutboxStep == \A b \in Builds : Silent(b) \/ \E m \in Message : Says(b, m)

\* Reconcile speaks once for every build it moves, of the one attempt of that build
\* it settles.
LEMMA ReconcileSays ==
    ASSUME AuthorityInvariant, NEW S \in SUBSET Attempts, NEW d \in BOOLEAN,
           Reconcile(S, d), \A a \in S : Unsettled(a),
           \A a \in Attempts : attempts'[a].build = attempts[a].build,
           \A a \in S : attempts'[a].state = "reconciliation_required",
           \A a \in Attempts \ S : ~Settles(a)
    PROVE  OutboxStep
  <1> SUFFICES ASSUME NEW b \in Builds PROVE Silent(b) \/ \E m \in Message : Says(b, m)
    BY DEF OutboxStep
  <1>t. TypeOK
    BY DEF AuthorityInvariant
  <1>1. CASE \A a \in S : BuildOf(a) # b
    <2>1. outbox'[b] = outbox[b] /\ builds'[b] = builds[b]
      BY <1>1 DEF Reconcile
    <2> QED
      BY <1>1, <2>1 DEF Silent, BuildOf
  <1>2. ASSUME NEW x \in S, BuildOf(x) = b PROVE \E m \in Message : Says(b, m)
    <2> DEFINE cause == CHOOSE a \in S : BuildOf(a) = b
               m == Msg("build.reconciliation_required", cause,
                        "reconciliation_required", d, 0)
    <2>1. cause \in S /\ BuildOf(cause) = b
      BY <1>2
    <2>2. \A a \in S : BuildOf(a) = b => a = cause
      BY <2>1, OpenIsNewest
    <2>3. /\ outbox'[b] = Append(outbox[b], m)
          /\ builds'[b].status = "reconciliation_required"
      BY <1>2, <1>t DEF Reconcile, TypeOK, Build
    <2>4. m \in Message
      BY <2>1, MsgType DEF LineageStatuses
    <2>5. /\ m.topic = "build.reconciliation_required" /\ m.attempt = cause
          /\ m.status = "reconciliation_required" /\ m.fence = 0
      BY DEF Msg
    <2>6. m.status # "running" /\ ~(m.fence > 0) /\ m.topic \in SettlingTopics
      BY <2>5 DEF SettlingTopics
    <2>7. \A a \in S : Settles(a)
      BY DEF Settles, Settled, Unsettled, ActiveStates
    <2> HIDE DEF cause, m
    <2>8. \A a \in Attempts : attempts'[a].build = b => (Settles(a) <=> a = cause)
      BY <2>1, <2>2, <2>7 DEF BuildOf
    <2>9. m.status # None
      BY <2>5, NullAssumption DEF LineageStatuses
    <2> QED
      BY <2>1, <2>3, <2>4, <2>5, <2>6, <2>8, <2>9 DEF Says, Exists, BuildOf
  <1> QED
    BY <1>1, <1>2

\* What is said of one build while one attempt of it moves.
LEMMA OneSays ==
    ASSUME AuthorityInvariant, NEW a \in Attempts, NEW b \in Builds, NEW m \in Message,
           outbox' = [outbox EXCEPT ![b] = Append(outbox[b], m)],
           \A x \in Builds \ {b} : builds'[x].status = builds[x].status,
           \A x \in Attempts : Settles(x) => x = a /\ attempts'[a].build = b,
           Says(b, m)
    PROVE  OutboxStep
  <1> SUFFICES ASSUME NEW x \in Builds PROVE Silent(x) \/ \E n \in Message : Says(x, n)
    BY DEF OutboxStep
  <1>1. CASE x = b
    BY <1>1
  <1>2. CASE x # b
    BY <1>2 DEF AuthorityInvariant, TypeOK, Silent
  <1> QED
    BY <1>1, <1>2

\* The outbox is left alone, and nothing is settled.
LEMMA NothingSaid ==
    ASSUME outbox' = outbox,
           \A b \in Builds : \/ builds'[b].status = builds[b].status
                             \/ {builds[b].status, builds'[b].status}
                                   \subseteq {"queued", "running"},
           \A a \in Attempts : ~Settles(a)
    PROVE  OutboxStep
  BY DEF OutboxStep, Silent

\* A queued, offered or started attempt stands with its build at queued or running.
LEMMA OpenStatus ==
    ASSUME AuthorityInvariant, NEW a \in Attempts, Unsettled(a)
    PROVE  BuildOf(a) \in Builds /\ builds[BuildOf(a)].status \in {"queued", "running"}
  <1>1. Newest(a) /\ BuildOf(a) \in Builds
    BY OpenIsNewest
  <1>2. builds[BuildOf(a)].status = StatusOf(attempts[a])
    BY <1>1 DEF AuthorityInvariant, LineageAgrees
  <1>3. builds[BuildOf(a)].status \in LineageStatuses
    BY <1>1 DEF AuthorityInvariant, TypeOK, Build
  <1>4. attempts[a].state \in {"queued", "offered"} \/ StatusOf(attempts[a]) = attempts[a].state
    BY DEF Unsettled, ActiveStates, StatusOf
  <1>5. attempts[a].state \in {"queued", "offered"} => StatusOf(attempts[a]) = "queued"
    BY DEF StatusOf
  <1> QED
    BY <1>1, <1>2, <1>3, <1>4, <1>5
       DEF Unsettled, ActiveStates, LineageStatuses, WireStatuses

LEMMA OutboxStepLemma == AuthorityInvariant /\ Next => OutboxStep
  <1> SUFFICES ASSUME AuthorityInvariant, Next PROVE OutboxStep
    OBVIOUS
  <1>t. TypeOK
    BY DEF AuthorityInvariant
  <1>r. \A x \in Attempts : attempts[x] \in Attempt
    BY <1>t DEF TypeOK
  <1>c. \A c \in claims : c.attempt \in Attempts /\ c.fence \in Nat
    BY <1>t DEF TypeOK, Claim
  <1>1. ASSUME NEW b \in Builds, NEW a \in Attempts, AdmitBuild(b, a) PROVE OutboxStep
    <2> DEFINE m == Msg("build.admitted", a, "queued", FALSE, 0)
    <2>1. m \in Message
      BY MsgType DEF LineageStatuses
    <2>2. /\ attempts'[a].state = "queued" /\ attempts'[a].build = b
          /\ \A x \in Attempts \ {a} : attempts'[x] = attempts[x]
      BY <1>1, <1>t DEF AdmitBuild, TypeOK, QueuedAttempt, AbsentAttempt
    <2>3. \A x \in Attempts : ~Settles(x)
      BY <2>2 DEF Settles, Settled
    <2>4. /\ outbox' = [outbox EXCEPT ![b] = Append(outbox[b], m)]
          /\ builds'[b].status = "queued"
          /\ \A x \in Builds \ {b} : builds'[x].status = builds[x].status
      BY <1>1, <1>t DEF AdmitBuild, Publish, TypeOK
    <2>5. /\ m.attempt = a /\ m.status = "queued" /\ m.fence = 0
          /\ m.topic \notin SettlingTopics
      BY DEF Msg, SettlingTopics
    <2>6. m.status # None
      BY <2>5, NullAssumption DEF LineageStatuses
    <2> HIDE DEF m
    <2>7. Says(b, m)
      BY <1>t, <2>2, <2>3, <2>4, <2>5, <2>6 DEF Says, Exists, TypeOK
    <2> QED
      BY <2>1, <2>3, <2>4, <2>7, OneSays
  <1>2. ASSUME \/ \E b \in Builds : DamageDefinition(b) \/ RequestCancellation(b)
               \/ \E c \in executing : ChildExtinct(c)
        PROVE  OutboxStep
    <2>1. outbox' = outbox /\ attempts' = attempts
      BY <1>2 DEF DamageDefinition, RequestCancellation, ChildExtinct
    <2>2. \A b \in Builds : builds'[b].status = builds[b].status
      <3>1. ASSUME NEW x \in Builds, DamageDefinition(x) \/ RequestCancellation(x)
            PROVE  \A b \in Builds : builds'[b].status = builds[b].status
        <4>1. builds[x] \in Build /\ builds \in [Builds -> Build]
          BY <1>t DEF TypeOK
        <4>2. \/ builds' = [builds EXCEPT ![x] = [builds[x] EXCEPT !.definition_intact = FALSE]]
              \/ builds' = [builds EXCEPT ![x] = [builds[x] EXCEPT !.cancellation_requested = TRUE]]
          BY <3>1, <4>1 DEF DamageDefinition, RequestCancellation
        <4> QED
          BY <4>1, <4>2 DEF Build
      <3> QED
        BY <1>2, <3>1 DEF ChildExtinct
    <2> QED
      BY <2>1, <2>2, NothingSaid DEF Settles, Settled
  <1>3. ASSUME NEW w \in Agents, NEW a \in Attempts, ClaimNext(w, a) \/ OfferAttempt(w, a)
        PROVE  OutboxStep
    <2>1. \A x \in Attempts : ~Settles(x)
      <3>1. attempts \in [Attempts -> Attempt]
        BY <1>t DEF TypeOK
      <3>2. CASE ClaimNext(w, a)
        BY <1>r, <3>1, <3>2 DEF ClaimNext, Offered, Attempt, Settles, Settled
      <3>3. CASE OfferAttempt(w, a)
        BY <1>r, <3>1, <3>3 DEF OfferAttempt, Offered, Attempt, Settles, Settled
      <3> QED
        BY <1>3, <3>2, <3>3
    <2> QED
      BY <1>3, <2>1, NothingSaid DEF ClaimNext, OfferAttempt
  <1>4. CASE Tick
    <2>1. \A x \in Attempts : attempts'[x].state = attempts[x].state
      BY <1>4, <1>r DEF Tick, Attempt
    <2> QED
      BY <1>4, <2>1, NothingSaid DEF Tick, Settles, Settled
  <1>5. ASSUME NEW c \in claims,
               AcceptAttempt(c) \/ BeginExecution(c) \/ RequeueOwnedAttempt(c) \/ RenewLease(c)
        PROVE  OutboxStep
    <2> DEFINE a == c.attempt
    <2>1. a \in Attempts /\ Unsettled(a)
      BY <1>5, <1>c DEF AcceptAttempt, BeginExecution, RequeueOwnedAttempt, RenewLease,
                        Authority, Unsettled, ActiveStates
    <2>2. /\ \A x \in Attempts \ {a} : attempts'[x] = attempts[x]
          /\ ~Settled(a)'
      <3>1. /\ \A x \in Attempts \ {a} : attempts'[x] = attempts[x]
            /\ attempts'[a].state \in {attempts[a].state, "running", "queued"}
        <4>1. attempts \in [Attempts -> Attempt]
          BY <1>t DEF TypeOK
        <4>2. CASE AcceptAttempt(c)
          BY <1>r, <2>1, <4>1, <4>2 DEF AcceptAttempt, Attempt
        <4>3. CASE BeginExecution(c)
          BY <1>r, <2>1, <4>1, <4>3 DEF BeginExecution, Attempt
        <4>4. CASE RequeueOwnedAttempt(c)
          BY <1>r, <2>1, <4>1, <4>4 DEF RequeueOwnedAttempt, Released, Attempt
        <4>5. CASE RenewLease(c)
          BY <1>r, <2>1, <4>1, <4>5 DEF RenewLease, Attempt
        <4> QED
          BY <1>5, <4>2, <4>3, <4>4, <4>5
      <3> QED
        BY <2>1, <3>1 DEF Settled, Unsettled, ActiveStates
    <2>3. \A x \in Attempts : ~Settles(x)
      BY <2>2 DEF Settles, Settled
    <2>4. BuildOf(a) \in Builds /\ builds[BuildOf(a)].status \in {"queued", "running"}
      BY <2>1, OpenStatus
    <2>5. /\ outbox' = outbox
          /\ \A b \in Builds : \/ builds'[b].status = builds[b].status
                               \/ b = BuildOf(a) /\ builds'[b].status \in {"queued", "running"}
      BY <1>5, <1>t, <2>4 DEF AcceptAttempt, BeginExecution, RequeueOwnedAttempt, RenewLease,
                              RollUp, TypeOK, Build
    <2> QED
      BY <2>3, <2>4, <2>5, NothingSaid
  <1>6. ASSUME NEW c \in claims, NEW status \in WireStatuses, Authority(c, ActiveStates),
               PublishLockedTerminal(c, status)
        PROVE  OutboxStep
    <2> DEFINE a == c.attempt
               b == BuildOf(a)
               m == Msg("build.terminal", a, status, FALSE, c.fence)
    <2>1. a \in Attempts /\ Unsettled(a) /\ c.fence = attempts[a].fence /\ c.fence \in Nat
      BY <1>6, <1>c DEF Authority, LeaseHeld, Unsettled, ActiveStates
    <2>2. b \in Builds
      BY <2>1, OpenIsNewest
    <2>3. m \in Message
      BY <2>1, MsgType DEF LineageStatuses
    <2>4. /\ \A x \in Attempts \ {a} : attempts'[x] = attempts[x]
          /\ attempts'[a].state = "terminal" /\ attempts'[a].build = b
      BY <1>6, <1>r, <1>t, <2>1 DEF PublishLockedTerminal, Released, Attempt, TypeOK, BuildOf
    <2>5. \A x \in Attempts : Settles(x) <=> x = a
      BY <2>1, <2>4 DEF Settles, Settled, Unsettled, ActiveStates
    <2>6. /\ outbox' = [outbox EXCEPT ![b] = Append(outbox[b], m)]
          /\ builds'[b].status = status /\ claims' = claims
          /\ \A x \in Builds \ {b} : builds'[x].status = builds[x].status
      BY <1>6, <1>t, <2>2 DEF PublishLockedTerminal, Publish, TypeOK, Build
    <2>7. /\ m.attempt = a /\ m.status = status /\ m.fence = c.fence
          /\ m.topic \in SettlingTopics
      BY DEF Msg, SettlingTopics
    <2>8. m.status # None /\ m.status # "running"
      BY <2>7, NullAssumption DEF LineageStatuses, WireStatuses
    <2> HIDE DEF m
    <2>9. Says(b, m)
      BY <1>t, <2>1, <2>2, <2>4, <2>5, <2>6, <2>7, <2>8 DEF Says, Exists, TypeOK
    <2> QED
      BY <2>1, <2>2, <2>3, <2>4, <2>5, <2>6, <2>9, OneSays
  <1>7. ASSUME NEW c \in claims, RequireReconciliation(c) PROVE OutboxStep
    <2> DEFINE a == c.attempt
               b == BuildOf(a)
               m == Msg("build.reconciliation_required", a, "reconciliation_required",
                        TRUE, c.fence)
    <2>1. a \in Attempts /\ Unsettled(a) /\ c.fence = attempts[a].fence /\ c.fence \in Nat
      BY <1>7, <1>c DEF RequireReconciliation, Authority, LeaseHeld, Unsettled, ActiveStates
    <2>2. b \in Builds
      BY <2>1, OpenIsNewest
    <2>3. m \in Message
      BY <2>1, MsgType DEF LineageStatuses
    <2>4. /\ \A x \in Attempts \ {a} : attempts'[x] = attempts[x]
          /\ attempts'[a].state = "reconciliation_required" /\ attempts'[a].build = b
      BY <1>7, <1>r, <1>t, <2>1 DEF RequireReconciliation, Released, Attempt, TypeOK, BuildOf
    <2>5. \A x \in Attempts : Settles(x) <=> x = a
      BY <2>1, <2>4 DEF Settles, Settled, Unsettled, ActiveStates
    <2>6. /\ outbox' = [outbox EXCEPT ![b] = Append(outbox[b], m)]
          /\ builds'[b].status = "reconciliation_required" /\ claims' = claims
          /\ \A x \in Builds \ {b} : builds'[x].status = builds[x].status
      BY <1>7, <1>t, <2>2 DEF RequireReconciliation, RollUp, Publish, TypeOK, Build
    <2>7. /\ m.attempt = a /\ m.status = "reconciliation_required" /\ m.fence = c.fence
          /\ m.topic \in SettlingTopics
      BY DEF Msg, SettlingTopics
    <2>8. m.status # None /\ m.status # "running"
      BY <2>7, NullAssumption DEF LineageStatuses
    <2> HIDE DEF m
    <2>9. Says(b, m)
      BY <1>t, <2>1, <2>2, <2>4, <2>5, <2>6, <2>7, <2>8 DEF Says, Exists, TypeOK
    <2> QED
      BY <2>1, <2>2, <2>3, <2>4, <2>5, <2>6, <2>9, OneSays
  <1>8. ASSUME NEW c \in claims, ClaimHolder(c) PROVE OutboxStep
    <2>1. ASSUME NEW result \in Results, PublishTerminal(c, result) PROVE OutboxStep
      <3>1. \E status \in WireStatuses : PublishLockedTerminal(c, status)
        BY <2>1, ResultsAssumption DEF PublishTerminal, WireStatuses
      <3> QED
        BY <1>6, <2>1, <3>1 DEF PublishTerminal
    <2>2. CASE CancelBeforeStart(c)
      BY <1>6, <2>2 DEF CancelBeforeStart, Authority, ActiveStates, WireStatuses
    <2> QED
      BY <1>5, <1>7, <1>8, <2>1, <2>2 DEF ClaimHolder
  <1>9. ASSUME NEW w \in LocalWorkers, NEW Q \in SUBSET Attempts, NEW a \in Attempts,
               ClaimNextExecution(w, Q, a)
        PROVE  OutboxStep
    <2>1. /\ Reconcile(Q, FALSE) /\ \A q \in Q : Unsettled(q) /\ q # a
      BY <1>9 DEF ClaimNextExecution, ClaimableExecution, Unsettled
    <2>2. /\ \A q \in Q : /\ attempts'[q].state = "reconciliation_required"
                          /\ attempts'[q].build = attempts[q].build
          /\ attempts'[a].state = "offered" /\ attempts'[a].build = attempts[a].build
          /\ \A x \in Attempts : x # a /\ x \notin Q => attempts'[x] = attempts[x]
      BY <1>9, <1>r, <2>1 DEF ClaimNextExecution, Offered, Released, Attempt
    <2>3. \A x \in Attempts \ Q : ~Settles(x)
      BY <2>2 DEF Settles, Settled
    <2>4. \A x \in Attempts : attempts'[x].build = attempts[x].build
      BY <2>2
    <2> QED
      BY <2>1, <2>2, <2>3, <2>4, ReconcileSays
  <1>10. ASSUME NEW Q \in SUBSET Attempts, QuarantineOnly(Q) PROVE OutboxStep
    <2>1. Reconcile(Q, FALSE) /\ \A q \in Q : Unsettled(q)
      BY <1>10 DEF QuarantineOnly, ClaimableExecution, Unsettled
    <2>2. /\ \A q \in Q : /\ attempts'[q].state = "reconciliation_required"
                          /\ attempts'[q].build = attempts[q].build
          /\ \A x \in Attempts \ Q : attempts'[x] = attempts[x]
      BY <1>10, <1>r DEF QuarantineOnly, Released, Attempt
    <2>3. /\ \A x \in Attempts \ Q : ~Settles(x)
          /\ \A x \in Attempts : attempts'[x].build = attempts[x].build
      BY <2>2 DEF Settles, Settled
    <2> QED
      BY <2>1, <2>2, <2>3, ReconcileSays
  <1>11. CASE RequeueExpiredLocalAttempts
    <2> DEFINE S == {a \in ExpiredLocal : attempts[a].state # "offered"}
    <2>1. S \in SUBSET Attempts /\ Reconcile(S, TRUE) /\ \A a \in S : Unsettled(a)
      BY <1>11 DEF RequeueExpiredLocalAttempts, ExpiredLocal, Unsettled
    <2>2. \A x \in Attempts : /\ attempts'[x].build = attempts[x].build
                              /\ x \in S => attempts'[x].state = "reconciliation_required"
                              /\ x \notin S => attempts'[x].state \in {attempts[x].state, "queued"}
      BY <1>11, <1>r DEF RequeueExpiredLocalAttempts, ExpiredLocal, Released, Attempt
    <2>3. \A x \in Attempts \ S : ~Settles(x)
      BY <2>2 DEF Settles, Settled
    <2> HIDE DEF S
    <2> QED
      BY <2>1, <2>2, <2>3, ReconcileSays
  <1>12. CASE ActivateRestore
    <2> DEFINE S == Invalidated(restore_epoch + 1)
    <2>1. S \in SUBSET Attempts /\ Reconcile(S, TRUE) /\ \A a \in S : Unsettled(a)
      BY <1>12 DEF ActivateRestore, Invalidated, Unsettled
    <2>2. \A x \in Attempts : /\ attempts'[x].build = attempts[x].build
                              /\ x \in S => attempts'[x].state = "reconciliation_required"
                              /\ x \notin S => attempts'[x] = attempts[x]
      BY <1>12, <1>r DEF ActivateRestore, Released, Attempt
    <2>3. \A x \in Attempts \ S : ~Settles(x)
      BY <2>2 DEF Settles, Settled
    <2> HIDE DEF S
    <2> QED
      BY <2>1, <2>2, <2>3, ReconcileSays
  <1>13. ASSUME NEW p \in Attempts, NEW child \in Attempts,
                NEW limit \in AttemptLimits, CreateRetryChild(p, limit, child)
         PROVE  OutboxStep
    <2> DEFINE b == BuildOf(p)
               m == Msg("retry.decided", p, "queued", FALSE, 0)
    <2>1. Exists(p) /\ b \in Builds /\ p # child /\ attempts[p].state = "terminal"
      BY <1>13 DEF CreateRetryChild, Undecided, Exists, AuthorityInvariant, RowShape
    <2>2. m \in Message
      BY MsgType DEF LineageStatuses
    <2>3. /\ attempts'[child].state = "queued" /\ attempts'[child].build = b
          /\ \A x \in Attempts \ {child} : attempts'[x] = attempts[x]
      BY <1>13, <1>t DEF CreateRetryChild, TypeOK, QueuedAttempt, AbsentAttempt
    <2>4. \A x \in Attempts : ~Settles(x)
      BY <2>3 DEF Settles, Settled
    <2>5. /\ outbox' = [outbox EXCEPT ![b] = Append(outbox[b], m)]
          /\ builds'[b].status = "queued"
          /\ \A x \in Builds \ {b} : builds'[x].status = builds[x].status
      BY <1>13, <1>t, <2>1 DEF CreateRetryChild, RollUp, Publish, TypeOK, Build
    <2>6. /\ m.attempt = p /\ m.status = "queued" /\ m.fence = 0
          /\ m.topic \notin SettlingTopics
      BY DEF Msg, SettlingTopics
    <2>7. m.status # None
      BY <2>6, NullAssumption DEF LineageStatuses
    <2> HIDE DEF m
    <2>8. attempts'[p] = attempts[p]
      BY <2>1, <2>3
    <2>9. Says(b, m)
      BY <1>t, <2>1, <2>4, <2>5, <2>6, <2>7, <2>8 DEF Says, Exists, TypeOK, BuildOf
    <2> QED
      BY <2>1, <2>2, <2>4, <2>5, <2>9, OneSays
  <1>14. ASSUME NEW p \in Attempts, NEW limit \in AttemptLimits,
                ExhaustRetryBudget(p, limit)
         PROVE  OutboxStep
    <2> DEFINE b == BuildOf(p)
               m == Msg("retry.decided", p, None, FALSE, 0)
    <2>1. Exists(p) /\ b \in Builds
      BY <1>14 DEF ExhaustRetryBudget, Undecided, Exists, AuthorityInvariant, RowShape
    <2>2. m \in Message
      BY MsgType
    <2>3. \A x \in Attempts : ~Settles(x)
      BY <1>14 DEF ExhaustRetryBudget, Settles, Settled
    <2>4. /\ outbox' = [outbox EXCEPT ![b] = Append(outbox[b], m)]
          /\ builds' = builds /\ attempts' = attempts
      BY <1>14 DEF ExhaustRetryBudget, Publish
    <2>5. /\ m.attempt = p /\ m.status = None /\ m.fence = 0
          /\ m.topic \notin SettlingTopics
      BY DEF Msg, SettlingTopics
    <2> HIDE DEF m
    <2>6. Says(b, m)
      BY <1>t, <2>1, <2>3, <2>4, <2>5 DEF Says, Exists, TypeOK, BuildOf
    <2> QED
      BY <2>1, <2>2, <2>3, <2>4, <2>6, OneSays
  <1> QED
    BY <1>1, <1>2, <1>3, <1>4, <1>5, <1>8, <1>9, <1>10, <1>11, <1>12, <1>13, <1>14 DEF Next

\* What the messages rest on: they are about attempts of their build, never say
\* running and bear a fence only if they settle; and a build that was not admitted
\* carries no cancellation.
MessagesPlaced ==
    \A b \in Builds : \A i \in DOMAIN outbox[b] :
        /\ Exists(outbox[b][i].attempt) /\ BuildOf(outbox[b][i].attempt) = b
        /\ outbox[b][i].status # "running"
        /\ outbox[b][i].fence > 0 => outbox[b][i].topic \in SettlingTopics
NotCancelledUnadmitted ==
    \A b \in Builds : builds[b].status = "absent" => ~builds[b].cancellation_requested

PublicationInvariant ==
    /\ AuthorityInvariant
    /\ MessagesPlaced
    /\ SettledOnce
    /\ OutboxTellsStatus
    /\ PublishedByLastHolder
    /\ NotCancelledUnadmitted

\* A build's messages after a step: those before it, and at most one more.
LEMMA Messages ==
    ASSUME TypeOK, NEW b \in Builds
    PROVE  /\ DOMAIN outbox[b] = 1..Len(outbox[b]) /\ Len(outbox[b]) \in Nat
           /\ \A i \in DOMAIN outbox[b] : outbox[b][i] \in Message
           /\ \A m \in Message : Says(b, m) =>
                 /\ DOMAIN outbox'[b] = 1..(Len(outbox[b]) + 1)
                 /\ \A i \in DOMAIN outbox[b] : outbox'[b][i] = outbox[b][i]
                 /\ outbox'[b][Len(outbox[b]) + 1] = m
  <1>1. outbox[b] \in Seq(Message)
    BY DEF TypeOK
  <1>2. DOMAIN outbox[b] = 1..Len(outbox[b]) /\ Len(outbox[b]) \in Nat
    BY <1>1, LenProperties
  <1>3. \A i \in DOMAIN outbox[b] : outbox[b][i] \in Message
    BY <1>1, <1>2, ElementOfSeq
  <1>4. ASSUME NEW m \in Message, Says(b, m)
        PROVE  /\ DOMAIN outbox'[b] = 1..(Len(outbox[b]) + 1)
               /\ \A i \in DOMAIN outbox[b] : outbox'[b][i] = outbox[b][i]
               /\ outbox'[b][Len(outbox[b]) + 1] = m
    <2>1. outbox'[b] = Append(outbox[b], m)
      BY <1>4 DEF Says
    <2>2. outbox'[b] \in Seq(Message) /\ Len(outbox'[b]) = Len(outbox[b]) + 1
      BY <1>1, <2>1, AppendProperties
    <2>3. DOMAIN outbox'[b] = 1..Len(outbox'[b])
      BY <2>2, LenProperties
    <2> QED
      BY <1>1, <1>2, <2>1, <2>2, <2>3, AppendProperties
  <1> QED
    BY <1>2, <1>3, <1>4

\* What a step keeps of an attempt that is there.
LEMMA RowsStay ==
    ASSUME StepFacts, NEW a \in Attempts, Exists(a)
    PROVE  /\ Exists(a)' /\ attempts'[a].build = attempts[a].build
           /\ Settled(a) => Settled(a)' /\ attempts'[a] = attempts[a]
  <1>1. RowStep(a)
    BY DEF StepFacts
  <1> QED
    BY <1>1 DEF RowStep, Inserted, Granted, Kept, Ended, KeepsIdentity, Exists, Settled,
                Unsettled, ActiveStates

LEMMA PlacedStep ==
    ASSUME PublicationInvariant, StepFacts, OutboxStep
    PROVE  MessagesPlaced'
  <1>t. TypeOK
    BY DEF PublicationInvariant, AuthorityInvariant
  <1> SUFFICES ASSUME NEW b \in Builds, NEW i \in DOMAIN outbox'[b]
               PROVE  /\ attempts'[outbox'[b][i].attempt].state # "absent"
                      /\ attempts'[outbox'[b][i].attempt].build = b
                      /\ outbox'[b][i].status # "running"
                      /\ outbox'[b][i].fence > 0 => outbox'[b][i].topic \in SettlingTopics
    BY DEF MessagesPlaced, BuildOf, Exists
  <1>1. ASSUME i \in DOMAIN outbox[b], outbox'[b][i] = outbox[b][i]
        PROVE  /\ attempts'[outbox'[b][i].attempt].state # "absent"
               /\ attempts'[outbox'[b][i].attempt].build = b
               /\ outbox'[b][i].status # "running"
               /\ outbox'[b][i].fence > 0 => outbox'[b][i].topic \in SettlingTopics
    <2>1. outbox[b][i] \in Message /\ outbox[b][i].attempt \in Attempts
      BY <1>t, <1>1, Messages DEF Message
    <2> QED
      <3>1. /\ Exists(outbox[b][i].attempt) /\ BuildOf(outbox[b][i].attempt) = b
            /\ outbox[b][i].status # "running"
            /\ outbox[b][i].fence > 0 => outbox[b][i].topic \in SettlingTopics
        BY <1>1 DEF PublicationInvariant, MessagesPlaced
      <3> DEFINE a == outbox[b][i].attempt
      <3>2. attempts'[a].state # "absent" /\ attempts'[a].build = attempts[a].build
        <4> HIDE DEF a
        <4>1. a \in Attempts /\ Exists(a)
          BY <2>1, <3>1 DEF a
        <4> QED
          BY <4>1, RowsStay DEF Exists
      <3> QED
        BY <1>1, <3>1, <3>2 DEF BuildOf
  <1>2. CASE Silent(b)
    BY <1>1, <1>2 DEF Silent
  <1>3. ASSUME NEW m \in Message, Says(b, m)
        PROVE  /\ attempts'[outbox'[b][i].attempt].state # "absent"
               /\ attempts'[outbox'[b][i].attempt].build = b
               /\ outbox'[b][i].status # "running"
               /\ outbox'[b][i].fence > 0 => outbox'[b][i].topic \in SettlingTopics
    <2>1. i \in DOMAIN outbox[b] \/ i = Len(outbox[b]) + 1
      BY <1>t, <1>3, Messages
    <2>2. CASE i \in DOMAIN outbox[b]
      BY <1>t, <1>1, <1>3, <2>2, Messages
    <2>3. CASE i = Len(outbox[b]) + 1
      <3>1. outbox'[b][i] = m
        BY <1>t, <1>3, <2>3, Messages
      <3>2. m.status # "running"
        BY <1>3, NullAssumption DEF Says, LineageStatuses
      <3> QED
        BY <1>3, <3>1, <3>2 DEF Says, Exists
    <2> QED
      BY <2>1, <2>2, <2>3
  <1> QED
    BY <1>2, <1>3 DEF OutboxStep

LEMMA SettledOnceStep ==
    ASSUME PublicationInvariant, StepFacts, OutboxStep, RowShape'
    PROVE  SettledOnce'
  <1>t. TypeOK
    BY DEF PublicationInvariant, AuthorityInvariant
  <1> SUFFICES ASSUME NEW a \in Attempts, Exists(a)'
               PROVE  /\ Settled(a)' <=> Settlements(a)' # {}
                      /\ \A i, j \in Settlements(a)' : i = j
    BY DEF SettledOnce
  <1> DEFINE b == attempts'[a].build
             old == {i \in DOMAIN outbox[b] : /\ outbox[b][i].attempt = a
                                              /\ outbox[b][i].topic \in SettlingTopics}
             new == {i \in DOMAIN outbox'[b] : /\ outbox'[b][i].attempt = a
                                               /\ outbox'[b][i].topic \in SettlingTopics}
  <1>1. b \in Builds
    BY DEF RowShape, BuildOf
  <1>2. Settlements(a)' = new
    BY DEF Settlements, SettlingTopics, BuildOf
  <1>3. /\ Settled(a) <=> old # {}
        /\ \A i, j \in old : i = j
    <2>1. CASE Exists(a)
      <3>1. old = Settlements(a)
        BY <2>1, RowsStay DEF Settlements, SettlingTopics, BuildOf
      <3> QED
        BY <2>1, <3>1 DEF PublicationInvariant, SettledOnce
    <2>2. CASE ~Exists(a)
      <3>1. ~Settled(a)
        BY <2>2 DEF Exists, Settled
      <3>2. old = {}
        BY <1>1, <2>2 DEF PublicationInvariant, MessagesPlaced
      <3> QED
        BY <3>1, <3>2
    <2> QED
      BY <2>1, <2>2
  <1>4. Settled(a) => Settled(a)'
    BY RowsStay DEF Settled, Exists
  <1>5. CASE Silent(b)
    <2>1. new = old /\ ~Settles(a)
      BY <1>1, <1>5 DEF Silent
    <2>2. Settled(a)' <=> Settled(a)
      BY <1>4, <2>1 DEF Settles
    <2> QED
      BY <1>2, <1>3, <2>1, <2>2
  <1>6. ASSUME NEW m \in Message, Says(b, m)
        PROVE  /\ Settled(a)' <=> new # {}
               /\ \A i, j \in new : i = j
    <2>1. /\ Settles(a) <=> m.attempt = a /\ m.topic \in SettlingTopics
      BY <1>6 DEF Says
    <2>2. /\ DOMAIN outbox[b] = 1..Len(outbox[b]) /\ Len(outbox[b]) \in Nat
          /\ DOMAIN outbox'[b] = 1..(Len(outbox[b]) + 1)
          /\ \A i \in DOMAIN outbox[b] : outbox'[b][i] = outbox[b][i]
          /\ outbox'[b][Len(outbox[b]) + 1] = m
      BY <1>t, <1>1, <1>6, Messages
    <2>3. new = IF Settles(a) THEN old \cup {Len(outbox[b]) + 1} ELSE old
      <3>1. ASSUME NEW i \in DOMAIN outbox'[b]
            PROVE  i \in new <=> i \in old \/ (Settles(a) /\ i = Len(outbox[b]) + 1)
        <4>1. CASE i = Len(outbox[b]) + 1
          BY <2>1, <2>2, <4>1
        <4>2. CASE i \in DOMAIN outbox[b]
          BY <2>1, <2>2, <4>2
        <4> QED
          BY <2>2, <4>1, <4>2
      <3>2. old \subseteq DOMAIN outbox'[b] /\ Len(outbox[b]) + 1 \in DOMAIN outbox'[b]
        BY <2>2
      <3> HIDE DEF old
      <3> QED
        BY <3>1, <3>2
    <2> HIDE DEF old, new
    <2>4. CASE Settles(a)
      <3>1. old = {}
        BY <1>3, <2>4 DEF Settles
      <3> QED
        BY <2>3, <2>4, <3>1 DEF Settles
    <2>5. CASE ~Settles(a)
      <3>1. Settled(a)' <=> Settled(a)
        BY <1>4, <2>5 DEF Settles
      <3> QED
        BY <1>3, <2>3, <2>5, <3>1
    <2> QED
      BY <2>4, <2>5
  <1> QED
    BY <1>1, <1>2, <1>5, <1>6 DEF OutboxStep

LEMMA ToldStep ==
    ASSUME PublicationInvariant, OutboxStep
    PROVE  OutboxTellsStatus'
  <1>t. TypeOK
    BY DEF PublicationInvariant, AuthorityInvariant
  <1> SUFFICES ASSUME NEW b \in Builds, NEW i \in DOMAIN outbox'[b],
                      outbox'[b][i].status # None,
                      \A j \in DOMAIN outbox'[b] : j > i => outbox'[b][j].status = None
               PROVE  IF outbox'[b][i].status = "queued"
                      THEN builds'[b].status \in {"queued", "running"}
                      ELSE builds'[b].status = outbox'[b][i].status
    BY DEF OutboxTellsStatus, TellsLast
  <1>1. CASE Silent(b)
    <2>1. i \in DOMAIN outbox[b] /\ TellsLast(b, i) /\ outbox'[b] = outbox[b]
      BY <1>1 DEF Silent, TellsLast
    <2>2. outbox[b][i].status # "running"
      BY <2>1 DEF PublicationInvariant, MessagesPlaced
    <2>3. IF outbox[b][i].status = "queued" THEN builds[b].status \in {"queued", "running"}
          ELSE builds[b].status = outbox[b][i].status
      BY <2>1 DEF PublicationInvariant, OutboxTellsStatus
    <2> QED
      BY <1>1, <2>1, <2>2, <2>3 DEF Silent
  <1>2. ASSUME NEW m \in Message, Says(b, m)
        PROVE  IF outbox'[b][i].status = "queued"
               THEN builds'[b].status \in {"queued", "running"}
               ELSE builds'[b].status = outbox'[b][i].status
    <2>1. /\ DOMAIN outbox[b] = 1..Len(outbox[b]) /\ Len(outbox[b]) \in Nat
          /\ DOMAIN outbox'[b] = 1..(Len(outbox[b]) + 1)
          /\ \A j \in DOMAIN outbox[b] : outbox'[b][j] = outbox[b][j]
          /\ outbox'[b][Len(outbox[b]) + 1] = m
      BY <1>t, <1>2, Messages
    <2>2. CASE m.status # None
      <3>1. i = Len(outbox[b]) + 1
        <4>1. Len(outbox[b]) + 1 \in DOMAIN outbox'[b] /\ i <= Len(outbox[b]) + 1
          BY <2>1
        <4>2. ~(Len(outbox[b]) + 1 > i)
          BY <2>1, <2>2, <4>1
        <4> QED
          BY <2>1, <4>1, <4>2
      <3> QED
        BY <1>2, <2>1, <2>2, <3>1 DEF Says
    <2>3. CASE m.status = None
      <3>1. i \in DOMAIN outbox[b]
        <4>1. i # Len(outbox[b]) + 1
          BY <2>1, <2>3
        <4> QED
          BY <2>1, <4>1
      <3>2. TellsLast(b, i) /\ outbox'[b][i] = outbox[b][i]
        BY <2>1, <3>1 DEF TellsLast
      <3>3. builds'[b].status = builds[b].status
        BY <1>2, <2>3 DEF Says
      <3>4. IF outbox[b][i].status = "queued" THEN builds[b].status \in {"queued", "running"}
            ELSE builds[b].status = outbox[b][i].status
        BY <3>1, <3>2 DEF PublicationInvariant, OutboxTellsStatus
      <3> QED
        BY <3>2, <3>3, <3>4
    <2> QED
      BY <2>2, <2>3
  <1> QED
    BY <1>1, <1>2 DEF OutboxStep

\* Who published its attempt was its last holder, and stays it: nobody claims a
\* settled attempt.
LEMMA LastHolderStep ==
    ASSUME PublicationInvariant, StepFacts, OutboxStep
    PROVE  PublishedByLastHolder'
  <1>t. TypeOK /\ ClaimsNeverShared
    BY DEF PublicationInvariant, AuthorityInvariant
  <1> SUFFICES ASSUME NEW b \in Builds, NEW i \in DOMAIN outbox'[b],
                      outbox'[b][i].fence > 0, NEW c \in claims',
                      c.attempt = outbox'[b][i].attempt
               PROVE  c.fence <= outbox'[b][i].fence
    BY DEF PublishedByLastHolder
  <1>1. ASSUME i \in DOMAIN outbox[b], outbox'[b][i] = outbox[b][i]
        PROVE  c.fence <= outbox'[b][i].fence
    <2>1. CASE c \in claims
      BY <1>1, <2>1 DEF PublicationInvariant, PublishedByLastHolder
    <2>2. CASE c \notin claims
      <3>1. /\ c.attempt \in Attempts /\ c.fence = attempts[c.attempt].fence + 1
            /\ attempts'[c.attempt].fence = c.fence
        BY <2>2 DEF StepFacts
      <3>2. attempts[c.attempt].fence \in Nat
        BY <1>t, <3>1 DEF TypeOK, Attempt
      <3>3. /\ outbox[b][i].attempt = c.attempt /\ Exists(c.attempt)
            /\ BuildOf(c.attempt) = b /\ outbox[b][i].topic \in SettlingTopics
        BY <1>1 DEF PublicationInvariant, MessagesPlaced
      <3>4. i \in Settlements(c.attempt)
        BY <1>1, <3>3 DEF Settlements, SettlingTopics
      <3>5. Settled(c.attempt)
        BY <3>1, <3>3, <3>4 DEF PublicationInvariant, SettledOnce
      <3>6. attempts'[c.attempt] = attempts[c.attempt]
        BY <3>1, <3>3, <3>5, RowsStay
      <3> QED
        BY <3>1, <3>2, <3>6
    <2> QED
      BY <2>1, <2>2
  <1>2. CASE Silent(b)
    BY <1>1, <1>2 DEF Silent
  <1>3. ASSUME NEW m \in Message, Says(b, m) PROVE c.fence <= outbox'[b][i].fence
    <2>1. /\ DOMAIN outbox'[b] = DOMAIN outbox[b] \cup {Len(outbox[b]) + 1}
          /\ \A j \in DOMAIN outbox[b] : outbox'[b][j] = outbox[b][j]
          /\ outbox'[b][Len(outbox[b]) + 1] = m
      BY <1>t, <1>3, Messages
    <2>2. CASE i \in DOMAIN outbox[b]
      BY <1>1, <2>1, <2>2
    <2>3. CASE i = Len(outbox[b]) + 1
      BY <1>t, <1>3, <2>1, <2>3 DEF Says, ClaimsNeverShared
    <2> QED
      BY <2>1, <2>2, <2>3
  <1> QED
    BY <1>2, <1>3 DEF OutboxStep

\* What a step may do to a build's cancellation.
CancellationStep(b) ==
    \/ builds'[b].cancellation_requested <=> builds[b].cancellation_requested
    \/ builds'[b].cancellation_requested /\ builds[b].status # "absent"
    \/ ~builds'[b].cancellation_requested /\ builds[b].status = "absent"
    \/ builds'[b].status = "aborted"

LEMMA CancellationStepLemma ==
    ASSUME AuthorityInvariant, Next
    PROVE  \A b \in Builds : CancellationStep(b)
  <1> SUFFICES ASSUME NEW b \in Builds PROVE CancellationStep(b)
    OBVIOUS
  <1>t. builds \in [Builds -> Build] /\ builds[b] \in Build
    BY DEF AuthorityInvariant, TypeOK
  <1>1. ASSUME NEW c, NEW s, RollUp(c, s) PROVE CancellationStep(b)
    <2>1. builds'[b].cancellation_requested = builds[b].cancellation_requested
      BY <1>t, <1>1 DEF RollUp, Build
    <2> QED
      BY <2>1 DEF CancellationStep
  <1>2. ASSUME NEW S, NEW d, Reconcile(S, d) PROVE CancellationStep(b)
    <2>1. builds'[b].cancellation_requested = builds[b].cancellation_requested
      BY <1>t, <1>2 DEF Reconcile, Build
    <2> QED
      BY <2>1 DEF CancellationStep
  <1>3. ASSUME builds' = builds PROVE CancellationStep(b)
    BY <1>3 DEF CancellationStep
  <1>4. ASSUME NEW c \in claims, NEW s, PublishLockedTerminal(c, s),
               builds[BuildOf(c.attempt)].cancellation_requested => s = "aborted"
        PROVE  CancellationStep(b)
    <2>1. CASE b = BuildOf(c.attempt)
      <3>1. builds'[b].status = s /\ builds'[b].cancellation_requested = FALSE
        BY <1>t, <1>4, <2>1 DEF PublishLockedTerminal, Build
      <3> QED
        BY <1>4, <2>1, <3>1 DEF CancellationStep
    <2>2. CASE b # BuildOf(c.attempt)
      <3>1. builds'[b] = builds[b]
        BY <1>t, <1>4, <2>2 DEF PublishLockedTerminal
      <3> QED
        BY <3>1 DEF CancellationStep
    <2> QED
      BY <2>1, <2>2
  <1>5. ASSUME NEW x \in Builds, NEW a \in Attempts, AdmitBuild(x, a)
        PROVE  CancellationStep(b)
    <2>1. CASE b = x
      <3>1. builds[b].status = "absent" /\ builds'[b].cancellation_requested = FALSE
        BY <1>t, <1>5, <2>1 DEF AdmitBuild
      <3> QED
        BY <3>1 DEF CancellationStep
    <2>2. CASE b # x
      <3>1. builds'[b] = builds[b]
        BY <1>t, <1>5, <2>2 DEF AdmitBuild
      <3> QED
        BY <3>1 DEF CancellationStep
    <2> QED
      BY <2>1, <2>2
  <1>6. ASSUME NEW x \in Builds, DamageDefinition(x) PROVE CancellationStep(b)
    <2>1. builds'[b].cancellation_requested = builds[b].cancellation_requested
      BY <1>t, <1>6 DEF DamageDefinition, Build
    <2> QED
      BY <2>1 DEF CancellationStep
  <1>7. ASSUME NEW x \in Builds, RequestCancellation(x) PROVE CancellationStep(b)
    <2>1. CASE b = x
      <3>1. builds[b].status # "absent" /\ builds'[b].cancellation_requested = TRUE
        BY <1>t, <1>7, <2>1 DEF RequestCancellation, Build
      <3> QED
        BY <3>1 DEF CancellationStep
    <2>2. CASE b # x
      <3>1. builds'[b] = builds[b]
        BY <1>t, <1>7, <2>2 DEF RequestCancellation
      <3> QED
        BY <3>1 DEF CancellationStep
    <2> QED
      BY <2>1, <2>2
  <1>8. ASSUME NEW c \in claims, ClaimHolder(c) \/ AcceptAttempt(c) PROVE CancellationStep(b)
    BY <1>1, <1>3, <1>4, <1>8
       DEF ClaimHolder, AcceptAttempt, BeginExecution, CancelBeforeStart, RenewLease,
           PublishTerminal, RequeueOwnedAttempt, RequireReconciliation
  <1> QED
    BY <1>1, <1>2, <1>3, <1>5, <1>6, <1>7, <1>8
       DEF Next, ClaimNextExecution, QuarantineOnly, ClaimNext, OfferAttempt, ChildExtinct,
           RequeueExpiredLocalAttempts, ActivateRestore, CreateRetryChild,
           ExhaustRetryBudget, Tick

LEMMA PublicationInit == Init => PublicationInvariant
  <1> SUFFICES ASSUME Init PROVE PublicationInvariant
    OBVIOUS
  <1>1. AuthorityInvariant
    BY AuthorityInit
  <1>2. \A b \in Builds : \A i \in DOMAIN outbox[b] : FALSE
    BY DEF Init
  <1>3. \A a \in Attempts : ~Exists(a)
    BY DEF Init, Exists, AbsentAttempt
  <1>4. NotCancelledUnadmitted
    BY DEF Init, NotCancelledUnadmitted
  <1> QED
    BY <1>1, <1>2, <1>3, <1>4 DEF PublicationInvariant, MessagesPlaced, SettledOnce,
       OutboxTellsStatus, PublishedByLastHolder

LEMMA PublicationStep == PublicationInvariant /\ [Next]_vars => PublicationInvariant'
  <1> SUFFICES ASSUME PublicationInvariant, [Next]_vars PROVE PublicationInvariant'
    OBVIOUS
  <1>1. CASE Next
    <2>1. AuthorityInvariant
      BY DEF PublicationInvariant
    <2>2. AuthorityInvariant' /\ RowShape'
      BY <1>1, <2>1, AuthorityStep DEF AuthorityInvariant
    <2>3. StepFacts /\ OutboxStep
      BY <1>1, <2>1, StepLemma, OutboxStepLemma
    <2>4. NotCancelledUnadmitted'
      <3> SUFFICES ASSUME NEW b \in Builds, builds'[b].status = "absent"
                   PROVE  ~builds'[b].cancellation_requested
        BY DEF NotCancelledUnadmitted
      <3>1. builds[b].status = "absent" /\ ~builds[b].cancellation_requested
        BY <1>1, <2>1, BuildsStay DEF PublicationInvariant, NotCancelledUnadmitted
      <3>2. CancellationStep(b)
        BY <1>1, <2>1, CancellationStepLemma
      <3> QED
        BY <3>1, <3>2 DEF CancellationStep
    <2> QED
      BY <2>2, <2>3, <2>4, PlacedStep, SettledOnceStep, ToldStep, LastHolderStep
         DEF PublicationInvariant
  <1>2. CASE UNCHANGED vars
    <2>1. AuthorityInvariant'
      BY <1>2, AuthorityStep DEF PublicationInvariant
    <2> QED
      BY <1>2, <2>1
         DEF vars, PublicationInvariant, MessagesPlaced, SettledOnce, OutboxTellsStatus,
             PublishedByLastHolder, NotCancelledUnadmitted, Exists, BuildOf, Settled,
             Settlements, TellsLast
  <1> QED
    BY <1>1, <1>2

\* What the outbox and the cancellations rest on always holds.
THEOREM Publication == Spec => []PublicationInvariant
  BY PublicationInit, PublicationStep, PTL DEF Spec

\* Publication is exactly once, whichever of the publishing transactions comes first.
THEOREM Once == Spec => []SettledOnce
  <1>1. PublicationInvariant => SettledOnce
    BY DEF PublicationInvariant
  <1> QED
    BY <1>1, Publication, PTL

\* The outbox, applied in order, ends at the build's status.
THEOREM Told == Spec => []OutboxTellsStatus
  <1>1. PublicationInvariant => OutboxTellsStatus
    BY DEF PublicationInvariant
  <1> QED
    BY <1>1, Publication, PTL

\* Only the last holder of an attempt ever publishes its result.
THEOREM LastHolder == Spec => []PublishedByLastHolder
  <1>1. PublicationInvariant => PublishedByLastHolder
    BY DEF PublicationInvariant
  <1> QED
    BY <1>1, Publication, PTL

\* An accepted cancellation is taken off a build by nothing but its abortion.
THEOREM Cancellation == Spec => CancellationIsHonoured
  <1>1. ASSUME PublicationInvariant, [Next]_vars
        PROVE  [\A b \in Builds :
                   builds[b].cancellation_requested /\ ~builds'[b].cancellation_requested
                       => builds'[b].status = "aborted"]_vars
    <2>1. CASE Next
      <3> SUFFICES ASSUME NEW b \in Builds, builds[b].cancellation_requested,
                          ~builds'[b].cancellation_requested
                   PROVE  builds'[b].status = "aborted"
        OBVIOUS
      <3>1. CancellationStep(b)
        BY <1>1, <2>1, CancellationStepLemma DEF PublicationInvariant
      <3>2. builds[b].status # "absent"
        BY <1>1 DEF PublicationInvariant, NotCancelledUnadmitted
      <3> QED
        BY <3>1, <3>2 DEF CancellationStep
    <2> QED
      BY <1>1, <2>1
  <1> QED
    BY <1>1, Publication, PTL DEF Spec, CancellationIsHonoured
-----------------------------------------------------------------------------
\* Every Store transaction is a step of AttemptLease or leaves it alone.

\* What one attempt shows of itself, and how it may change.

FenceOf(a) == attempts[a].fence

\* Nothing the lease knows of a changes.
Unseen(a) ==
    /\ FenceOf(a)' = FenceOf(a)
    /\ HolderOf(a)' = HolderOf(a)
    /\ Begun(a)' = Begun(a)
\* The lease of a is over and a was settled.
SettledBy(a) ==
    /\ FenceOf(a)' = FenceOf(a)
    /\ HolderOf(a)' = None
    /\ Begun(a)'

LEMMA UnseenStep ==
    ASSUME \A x \in Attempts : Unseen(x)
    PROVE  UNCHANGED Lease!leaseVars
  BY DEF Unseen, FenceOf, Lease!leaseVars

LEMMA SettleStep ==
    ASSUME NEW S \in SUBSET Attempts,
           \A x \in S : SettledBy(x),
           \A x \in Attempts \ S : Unseen(x)
    PROVE  Lease!LeaseNext
  <1>1. Lease!Settle(S)
    BY DEF SettledBy, Unseen, FenceOf, Begun, Lease!Settle, Lease!WithoutHolder,
       Lease!TakenWith
  <1> QED
    BY <1>1 DEF Lease!LeaseNext

LEMMA LoseStep ==
    ASSUME NEW S \in SUBSET Attempts,
           \A x \in Attempts : FenceOf(x)' = FenceOf(x) /\ Begun(x)' = Begun(x),
           \A x \in S : HolderOf(x)' = None,
           \A x \in Attempts \ S : HolderOf(x)' = HolderOf(x)
    PROVE  Lease!LeaseNext
  <1>1. Lease!Lose(S)
    BY DEF FenceOf, Begun, Lease!Lose, Lease!WithoutHolder
  <1> QED
    BY <1>1 DEF Lease!LeaseNext

LEMMA TakeStep ==
    ASSUME NEW a \in Attempts, HolderOf(a) # None, ~Begun(a),
           FenceOf(a)' = FenceOf(a), HolderOf(a)' = HolderOf(a), Begun(a)',
           \A x \in Attempts \ {a} : Unseen(x)
    PROVE  Lease!LeaseNext
  <1>1. Lease!Take(a)
    BY DEF Unseen, FenceOf, Begun, Lease!Take
  <1> QED
    BY <1>1 DEF Lease!LeaseNext

LEMMA GiveBackStep ==
    ASSUME NEW a \in Attempts, HolderOf(a) # None,
           FenceOf(a)' = FenceOf(a), HolderOf(a)' = None, ~Begun(a)',
           \A x \in Attempts \ {a} : Unseen(x)
    PROVE  Lease!LeaseNext
  <1>1. Lease!GiveBack(a)
    BY DEF Unseen, FenceOf, Begun, Lease!GiveBack
  <1> QED
    BY <1>1 DEF Lease!LeaseNext

LEMMA GrantStep ==
    ASSUME NEW a \in Attempts, NEW w \in Owners, NEW Q \in SUBSET Attempts,
           ~Begun(a), FenceOf(a) < MaxFence, a \notin Q,
           \A q \in Q : ~Begun(q) /\ SettledBy(q),
           FenceOf(a)' = FenceOf(a) + 1, HolderOf(a)' = w, ~Begun(a)',
           \A x \in Attempts \ (Q \cup {a}) : Unseen(x)
    PROVE  Lease!LeaseNext
  <1>1. Lease!Grant(a, w, Q)
    BY DEF SettledBy, Unseen, FenceOf, Begun, Lease!Grant, Lease!WithoutHolder,
       Lease!TakenWith
  <1> QED
    BY <1>1 DEF Lease!LeaseNext

-----------------------------------------------------------------------------
\* Rows and the lease.

\* A row that is rewritten to state s without an owner.
LEMMA ReleasedRow ==
    ASSUME TypeOK, NEW a \in Attempts, NEW s,
           attempts'[a] = Released(attempts[a], s)
    PROVE  /\ attempts'[a].state = s
           /\ attempts'[a].fence = attempts[a].fence
  BY DEF TypeOK, Attempt, Released

LEMMA OfferedRow ==
    ASSUME TypeOK, NEW a \in Attempts, NEW w \in Owners,
           attempts'[a] = Offered(attempts[a], w)
    PROVE  /\ attempts'[a].state = "offered"
           /\ attempts'[a].fence = attempts[a].fence + 1
           /\ attempts'[a].lease_owner = w
           /\ attempts'[a].lease_left = LeaseTerm
           /\ attempts'[a].restore_epoch = attempts[a].restore_epoch
  BY DEF TypeOK, Attempt, Offered

\* A row that is not rewritten shows nothing, while the epoch stays.
LEMMA SameRow ==
    ASSUME NEW a \in Attempts, attempts'[a] = attempts[a],
           restore_epoch' = restore_epoch
    PROVE  Unseen(a)
  BY DEF Unseen, FenceOf, HolderOf, Begun

\* A row that goes to a settled state is settled for the lease as well.
LEMMA SettledRow ==
    ASSUME NEW a \in Attempts,
           attempts'[a].state \in {"terminal", "reconciliation_required"},
           attempts'[a].fence = attempts[a].fence
    PROVE  SettledBy(a)
  BY DEF SettledBy, FenceOf, HolderOf, Begun, ActiveStates

\* A holder by lockExecutionAuthority is the lease's holder.
LEMMA AuthorityHolds ==
    ASSUME AuthorityInvariant, NEW c \in claims, Authority(c, ActiveStates)
    PROVE  /\ c.attempt \in Attempts /\ c.owner \in Owners
           /\ HolderOf(c.attempt) = c.owner /\ HolderOf(c.attempt) # None
  BY NoneAssumption DEF AuthorityInvariant, TypeOK, Claim, Authority, LeaseHeld,
     HolderOf

\* A holder that settles its attempt.
LEMMA HolderSettles ==
    ASSUME TypeOK, NEW a \in Attempts, restore_epoch' = restore_epoch,
           NEW s \in {"terminal", "reconciliation_required"},
           attempts'[a].state = s, attempts'[a].fence = attempts[a].fence,
           \A x \in Attempts \ {a} : attempts'[x] = attempts[x]
    PROVE  Lease!LeaseNext
  <1>1. SettledBy(a)
    BY SettledRow
  <1>2. \A x \in Attempts \ {a} : Unseen(x)
    BY SameRow
  <1> DEFINE S == {a}
  <1>3. /\ S \in SUBSET Attempts
        /\ \A x \in S : SettledBy(x)
        /\ \A x \in Attempts \ S : Unseen(x)
    BY <1>1, <1>2
  <1> HIDE DEF S
  <1> QED
    BY <1>3, SettleStep

LEMMA PublicationSettles ==
    ASSUME TypeOK, NEW c, c.attempt \in Attempts, NEW status,
           PublishLockedTerminal(c, status)
    PROVE  Lease!LeaseNext
  <1> DEFINE a == c.attempt
  <1>1. /\ attempts'[a].state = "terminal"
        /\ attempts'[a].fence = attempts[a].fence
        /\ \A x \in Attempts \ {a} : attempts'[x] = attempts[x]
        /\ restore_epoch' = restore_epoch
    BY DEF PublishLockedTerminal, TypeOK, Attempt, Released
  <1> QED
    BY <1>1, HolderSettles

\* The candidates a claim refuses.
LEMMA QuarantineSettles ==
    ASSUME TypeOK, NEW q \in Attempts, ClaimableExecution(q),
           attempts'[q] = Released(attempts[q], "reconciliation_required")
    PROVE  ~Begun(q) /\ SettledBy(q)
  <1>1. ~Begun(q)
    BY DEF ClaimableExecution, Begun
  <1> QED
    BY <1>1, ReleasedRow, SettledRow

\* An offer of a queued or offered attempt in the current epoch.
LEMMA OfferGrants ==
    ASSUME AuthorityInvariant, NEW a \in Attempts, NEW w \in Owners,
           NEW Q \in SUBSET Attempts, a \notin Q,
           \A q \in Q : ~Begun(q) /\ SettledBy(q),
           attempts[a].state \in {"queued", "offered"},
           attempts[a].fence < MaxFence, restore_epoch' = restore_epoch,
           attempts'[a] = Offered(attempts[a], w),
           \A x \in Attempts \ (Q \cup {a}) : attempts'[x] = attempts[x]
    PROVE  Lease!LeaseNext
  <1>t. TypeOK /\ NoStaleEpoch
    BY DEF AuthorityInvariant
  <1>1. /\ attempts'[a].state = "offered"
        /\ attempts'[a].fence = attempts[a].fence + 1
        /\ attempts'[a].lease_owner = w
        /\ attempts'[a].lease_left > 0
        /\ attempts'[a].restore_epoch = restore_epoch'
    BY <1>t, OfferedRow, LeaseAssumption
       DEF NoStaleEpoch, Unsettled, ActiveStates
  <1>2. HolderOf(a)' = w /\ ~Begun(a)' /\ FenceOf(a)' = FenceOf(a) + 1
    BY <1>1 DEF HolderOf, Begun, FenceOf, ActiveStates
  <1>3. ~Begun(a) /\ FenceOf(a) < MaxFence
    BY DEF Begun, FenceOf
  <1>4. \A x \in Attempts \ (Q \cup {a}) : Unseen(x)
    BY SameRow
  <1> QED
    BY <1>2, <1>3, <1>4, GrantStep

\* An insertion shows nothing: the row was absent and is queued.
LEMMA InsertionUnseen ==
    ASSUME AuthorityInvariant, NEW a \in Attempts, attempts[a].state = "absent",
           NEW b, NEW n, NEW p, attempts'[a] = QueuedAttempt(b, n, p)
    PROVE  Unseen(a)
  <1>1. attempts[a] = AbsentAttempt
    BY DEF AuthorityInvariant, RowShape, Exists
  <1>2. attempts'[a].state = "queued" /\ attempts'[a].fence = 0
    BY DEF QueuedAttempt, AbsentAttempt
  <1>3. attempts[a].fence = 0
    BY <1>1 DEF AbsentAttempt
  <1> QED
    BY <1>2, <1>3 DEF Unseen, FenceOf, HolderOf, Begun, ActiveStates

-----------------------------------------------------------------------------
\* The steps.

\* Each transaction, one case per action: claims and offers grant, the start
\* takes, the owner's requeue gives back, everything final settles, the clock
\* loses, and the rest shows nothing.
LEMMA LeaseStep ==
    ASSUME AuthorityInvariant, Next
    PROVE  Lease!LeaseNext \/ UNCHANGED Lease!leaseVars
  <1>t. /\ TypeOK /\ RowShape /\ NoStaleEpoch
        /\ \A c \in claims : c.attempt \in Attempts /\ c.owner \in Owners
    BY DEF AuthorityInvariant, TypeOK, Claim
  <1>u. ASSUME UNCHANGED <<attempts, restore_epoch>>
        PROVE  UNCHANGED Lease!leaseVars
    BY <1>u, SameRow, UnseenStep
  <1>1. ASSUME NEW b \in Builds, NEW a \in Attempts, AdmitBuild(b, a)
        PROVE  UNCHANGED Lease!leaseVars
    <2>1. /\ attempts[a].state = "absent" /\ restore_epoch' = restore_epoch
          /\ attempts'[a] = QueuedAttempt(b, 0, None)
          /\ \A x \in Attempts \ {a} : attempts'[x] = attempts[x]
      BY <1>1, <1>t DEF AdmitBuild, TypeOK
    <2>2. Unseen(a)
      BY <2>1, InsertionUnseen
    <2>3. \A x \in Attempts \ {a} : Unseen(x)
      BY <2>1, SameRow
    <2> QED
      BY <2>2, <2>3, UnseenStep
  <1>2. ASSUME NEW b \in Builds, DamageDefinition(b) \/ RequestCancellation(b)
        PROVE  UNCHANGED Lease!leaseVars
    BY <1>2, <1>u DEF DamageDefinition, RequestCancellation
  <1>3. ASSUME NEW w \in LocalWorkers, NEW Q \in SUBSET Attempts,
               NEW a \in Attempts, ClaimNextExecution(w, Q, a)
        PROVE  Lease!LeaseNext
    <2>1. /\ attempts'[a] = Offered(attempts[a], w)
          /\ a \notin Q /\ attempts[a].state = "queued"
          /\ attempts[a].fence < MaxFence /\ restore_epoch' = restore_epoch
          /\ \A x \in Attempts \ (Q \cup {a}) : attempts'[x] = attempts[x]
      BY <1>3 DEF ClaimNextExecution, ClaimableExecution
    <2>2. ASSUME NEW q \in Q
          PROVE  ~Begun(q) /\ SettledBy(q)
      <3>1. /\ ClaimableExecution(q)
            /\ attempts'[q] = Released(attempts[q], "reconciliation_required")
        BY <1>3, <2>1 DEF ClaimNextExecution
      <3> QED
        BY <3>1, <1>t, QuarantineSettles
    <2>3. w \in Owners
      BY DEF Owners
    <2> QED
      BY <2>1, <2>2, <2>3, OfferGrants
  <1>4. ASSUME NEW Q \in SUBSET Attempts, QuarantineOnly(Q)
        PROVE  Lease!LeaseNext
    <2>1. /\ restore_epoch' = restore_epoch
          /\ \A x \in Attempts \ Q : attempts'[x] = attempts[x]
      BY <1>4 DEF QuarantineOnly
    <2>2. ASSUME NEW q \in Q
          PROVE  SettledBy(q)
      <3>1. /\ ClaimableExecution(q)
            /\ attempts'[q] = Released(attempts[q], "reconciliation_required")
        BY <1>4 DEF QuarantineOnly
      <3> QED
        BY <3>1, <1>t, QuarantineSettles
    <2>3. \A x \in Attempts \ Q : Unseen(x)
      BY <2>1, SameRow
    <2> QED
      BY <2>2, <2>3, SettleStep
  <1>5. ASSUME NEW w \in Agents, NEW a \in Attempts,
               ClaimNext(w, a) \/ OfferAttempt(w, a)
        PROVE  Lease!LeaseNext
    <2> DEFINE Q == {}
    <2>1. /\ attempts'[a] = Offered(attempts[a], w)
          /\ attempts[a].state \in {"queued", "offered"}
          /\ attempts[a].fence < MaxFence /\ restore_epoch' = restore_epoch
          /\ \A x \in Attempts \ {a} : attempts'[x] = attempts[x]
      BY <1>5, <1>t DEF ClaimNext, OfferAttempt, TypeOK
    <2>2. /\ Q \in SUBSET Attempts /\ a \notin Q
          /\ \A q \in Q : ~Begun(q) /\ SettledBy(q)
          /\ \A x \in Attempts \ (Q \cup {a}) : attempts'[x] = attempts[x]
      BY <2>1
    <2>3. w \in Owners
      BY DEF Owners
    <2> HIDE DEF Q
    <2> QED
      BY <2>1, <2>2, <2>3, OfferGrants
  <1>6. ASSUME NEW c \in claims, AcceptAttempt(c) \/ BeginExecution(c)
        PROVE  Lease!LeaseNext
    <2> DEFINE a == c.attempt
    <2>1. /\ attempts[a].state = "offered"
          /\ attempts[a].lease_owner = c.owner
          /\ attempts[a].lease_left > 0
          /\ attempts'[a].state = "running"
          /\ attempts'[a].fence = attempts[a].fence
          /\ attempts'[a].lease_owner = attempts[a].lease_owner
          /\ attempts'[a].lease_left > 0
          /\ attempts'[a].restore_epoch = attempts[a].restore_epoch
          /\ restore_epoch' = restore_epoch
          /\ \A x \in Attempts \ {a} : attempts'[x] = attempts[x]
      BY <1>6, <1>t, LeaseAssumption DEF AcceptAttempt, BeginExecution,
         Authority, LeaseHeld, TypeOK, Attempt
    <2>2. attempts[a].restore_epoch = restore_epoch
      BY <1>t, <2>1 DEF NoStaleEpoch, Unsettled, ActiveStates
    <2>3. HolderOf(a) # None /\ HolderOf(a)' = HolderOf(a)
      BY <1>t, <2>1, <2>2, NoneAssumption DEF HolderOf, ActiveStates
    <2>4. ~Begun(a) /\ Begun(a)' /\ FenceOf(a)' = FenceOf(a)
      BY <2>1 DEF Begun, FenceOf
    <2>5. \A x \in Attempts \ {a} : Unseen(x)
      BY <2>1, SameRow
    <2> QED
      BY <1>t, <2>3, <2>4, <2>5, TakeStep
  <1>7. ASSUME NEW c \in claims,
               CancelBeforeStart(c) \/ \E result \in Results : PublishTerminal(c, result)
        PROVE  Lease!LeaseNext
    <2>1. \E status : PublishLockedTerminal(c, status)
      BY <1>7 DEF CancelBeforeStart, PublishTerminal
    <2> QED
      BY <1>t, <2>1, PublicationSettles
  <1>8. ASSUME NEW c \in claims, RenewLease(c)
        PROVE  UNCHANGED Lease!leaseVars
    <2> DEFINE a == c.attempt
    <2>1. /\ restore_epoch' = restore_epoch
          /\ attempts[a].lease_left > 0 /\ attempts'[a].lease_left > 0
          /\ attempts'[a].state = attempts[a].state
          /\ attempts'[a].fence = attempts[a].fence
          /\ attempts'[a].lease_owner = attempts[a].lease_owner
          /\ attempts'[a].restore_epoch = attempts[a].restore_epoch
          /\ \A x \in Attempts \ {a} : attempts'[x] = attempts[x]
      BY <1>8, <1>t, LeaseAssumption
         DEF RenewLease, Authority, LeaseHeld, TypeOK, Attempt
    <2>2. Unseen(a)
      BY <2>1 DEF Unseen, FenceOf, HolderOf, Begun
    <2>3. \A x \in Attempts \ {a} : Unseen(x)
      BY <2>1, SameRow
    <2> QED
      BY <2>2, <2>3, UnseenStep
  <1>9. ASSUME NEW c \in claims, RequeueOwnedAttempt(c)
        PROVE  Lease!LeaseNext
    <2> DEFINE a == c.attempt
    <2>1. /\ Authority(c, ActiveStates) /\ restore_epoch' = restore_epoch
          /\ attempts'[a] = Released(attempts[a], "queued")
          /\ \A x \in Attempts \ {a} : attempts'[x] = attempts[x]
      BY <1>9, <1>t DEF RequeueOwnedAttempt, TypeOK
    <2>2. attempts'[a].state = "queued" /\ attempts'[a].fence = attempts[a].fence
      BY <1>t, <2>1, ReleasedRow
    <2>3. HolderOf(a) # None
      BY <2>1, AuthorityHolds
    <2>4. HolderOf(a)' = None /\ ~Begun(a)' /\ FenceOf(a)' = FenceOf(a)
      BY <2>2 DEF HolderOf, Begun, FenceOf, ActiveStates
    <2>5. \A x \in Attempts \ {a} : Unseen(x)
      BY <2>1, SameRow
    <2> QED
      BY <1>t, <2>3, <2>4, <2>5, GiveBackStep
  <1>10. ASSUME NEW c \in claims, RequireReconciliation(c)
         PROVE  Lease!LeaseNext
    <2> DEFINE a == c.attempt
    <2>1. /\ restore_epoch' = restore_epoch
          /\ attempts'[a] = Released(attempts[a], "reconciliation_required")
          /\ \A x \in Attempts \ {a} : attempts'[x] = attempts[x]
      BY <1>10, <1>t DEF RequireReconciliation, TypeOK
    <2>2. /\ attempts'[a].state = "reconciliation_required"
          /\ attempts'[a].fence = attempts[a].fence
      BY <1>t, <2>1, ReleasedRow
    <2> QED
      BY <1>t, <2>1, <2>2, HolderSettles
  <1>11. ASSUME NEW c \in executing, ChildExtinct(c)
         PROVE  UNCHANGED Lease!leaseVars
    BY <1>11, <1>u DEF ChildExtinct
  <1>12. ASSUME RequeueExpiredLocalAttempts
         PROVE  UNCHANGED Lease!leaseVars
    <2>1. ASSUME NEW a \in Attempts PROVE Unseen(a)
      <3>1. CASE a \notin ExpiredLocal
        <4>1. attempts'[a] = attempts[a] /\ restore_epoch' = restore_epoch
          BY <1>12, <3>1 DEF RequeueExpiredLocalAttempts
        <4> QED
          BY <4>1, SameRow
      <3>2. CASE a \in ExpiredLocal
        <4> DEFINE s == IF attempts[a].state = "offered" THEN "queued"
                        ELSE "reconciliation_required"
        <4>1. attempts'[a] = Released(attempts[a], s)
          BY <1>12, <3>2 DEF RequeueExpiredLocalAttempts
        <4>2. attempts'[a].state = s /\ attempts'[a].fence = attempts[a].fence
          BY <1>t, <4>1, ReleasedRow
        <4>3. attempts[a].lease_left = 0 /\ attempts[a].state \in ActiveStates
          BY <3>2 DEF ExpiredLocal
        <4> QED
          BY <4>2, <4>3 DEF Unseen, FenceOf, HolderOf, Begun, ActiveStates
      <3> QED
        BY <3>1, <3>2
    <2> QED
      BY <2>1, UnseenStep
  <1>13. ASSUME ActivateRestore
         PROVE  Lease!LeaseNext
    <2> DEFINE S == Invalidated(restore_epoch + 1)
    <2>1. S \in SUBSET Attempts
      BY DEF Invalidated
    <2>2. ASSUME NEW a \in S PROVE SettledBy(a)
      <3>1. a \in Attempts
        BY <2>1
      <3>2. attempts'[a] = Released(attempts[a], "reconciliation_required")
        BY <1>13, <3>1 DEF ActivateRestore
      <3> QED
        BY <1>t, <3>1, <3>2, ReleasedRow, SettledRow
    <2>3. ASSUME NEW a \in Attempts \ S PROVE Unseen(a)
      <3>1. attempts'[a] = attempts[a]
        BY <1>13 DEF ActivateRestore
      <3>2. ~Unsettled(a)
        BY <1>t, <2>3 DEF NoStaleEpoch, Invalidated, Unsettled, TypeOK
      <3> QED
        BY <3>1, <3>2 DEF Unseen, FenceOf, HolderOf, Begun, Unsettled
    <2> HIDE DEF S
    <2> QED
      BY <2>1, <2>2, <2>3, SettleStep
  <1>14. ASSUME NEW p \in Attempts, NEW child \in Attempts,
                NEW limit \in AttemptLimits, CreateRetryChild(p, limit, child)
         PROVE  UNCHANGED Lease!leaseVars
    <2>1. /\ attempts[child].state = "absent" /\ restore_epoch' = restore_epoch
          /\ attempts'[child] = QueuedAttempt(BuildOf(p), attempts[p].ordinal + 1, p)
          /\ \A x \in Attempts \ {child} : attempts'[x] = attempts[x]
      BY <1>14, <1>t DEF CreateRetryChild, TypeOK
    <2>2. Unseen(child)
      BY <2>1, InsertionUnseen
    <2>3. \A x \in Attempts \ {child} : Unseen(x)
      BY <2>1, SameRow
    <2> QED
      BY <2>2, <2>3, UnseenStep
  <1>15. ASSUME NEW p \in Attempts, NEW limit \in AttemptLimits,
                ExhaustRetryBudget(p, limit)
         PROVE  UNCHANGED Lease!leaseVars
    BY <1>15, <1>u DEF ExhaustRetryBudget
  <1>16. ASSUME Tick
         PROVE  Lease!LeaseNext
    <2> DEFINE S == {x \in Attempts : attempts[x].lease_left \leq 1}
    <2>1. ASSUME NEW x \in Attempts
          PROVE  /\ attempts[x].lease_left \in Nat
                 /\ attempts'[x].lease_left = IF attempts[x].lease_left > 0
                                             THEN attempts[x].lease_left - 1 ELSE 0
                 /\ attempts'[x].state = attempts[x].state
                 /\ attempts'[x].fence = attempts[x].fence
                 /\ attempts'[x].lease_owner = attempts[x].lease_owner
                 /\ attempts'[x].restore_epoch = attempts[x].restore_epoch
                 /\ restore_epoch' = restore_epoch
      BY <1>16, <1>t, LeaseAssumption DEF Tick, TypeOK, Attempt
    <2>2. \A x \in Attempts : FenceOf(x)' = FenceOf(x) /\ Begun(x)' = Begun(x)
      BY <2>1 DEF FenceOf, Begun
    <2>3. \A x \in S : HolderOf(x)' = None
      BY <2>1 DEF HolderOf
    <2>4. \A x \in Attempts \ S : HolderOf(x)' = HolderOf(x)
      BY <2>1 DEF HolderOf
    <2>5. S \in SUBSET Attempts
      OBVIOUS
    <2> HIDE DEF S
    <2> QED
      BY <2>2, <2>3, <2>4, <2>5, LoseStep
  <1> QED
    BY <1>1, <1>2, <1>3, <1>4, <1>5, <1>6, <1>7, <1>8, <1>9, <1>10, <1>11,
       <1>12, <1>13, <1>14, <1>15, <1>16 DEF Next, ClaimHolder

LEMMA LeaseStart == Init => Lease!LeaseInit
  <1> SUFFICES ASSUME Init PROVE Lease!LeaseInit
    OBVIOUS
  <1>1. ASSUME NEW a \in Attempts
        PROVE  attempts[a].fence = 0 /\ HolderOf(a) = None /\ Begun(a) = FALSE
    <2>1. attempts[a].state = "absent" /\ attempts[a].fence = 0
      BY DEF Init, AbsentAttempt
    <2> QED
      BY <2>1 DEF HolderOf, Begun, ActiveStates
  <1> QED
    BY <1>1 DEF Lease!LeaseInit

\* The Store keeps the lease's promise, for any number of builds, attempts,
\* workers, agents, retries and restores.
THEOREM Implements == Spec => ImplementsLease
  <1>1. AuthorityInvariant /\ [Next]_vars => [Lease!LeaseNext]_(Lease!leaseVars)
    <2> SUFFICES ASSUME AuthorityInvariant, [Next]_vars
                 PROVE  [Lease!LeaseNext]_(Lease!leaseVars)
      OBVIOUS
    <2>1. CASE Next
      BY <2>1, LeaseStep
    <2>2. CASE UNCHANGED vars
      BY <2>2, SameRow, UnseenStep DEF vars
    <2> QED
      BY <2>1, <2>2
  <1> QED
    BY <1>1, LeaseStart, Authority_holds, PTL
       DEF Spec, ImplementsLease, Lease!LeaseSpec
=============================================================================
