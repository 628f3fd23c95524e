----------------------------- MODULE LocalWorker -----------------------------
(***************************************************************************)
(* The scan loop of LocalWorker (Worker.fs): workers that go round the     *)
(* organizations, recover what others abandoned, claim and run one attempt *)
(* at a time.                                                              *)
(*                                                                         *)
(* An organization's work is its oldest attempt that is not settled.  A    *)
(* claim is held by its worker as long as work names that worker and the   *)
(* lease is live, which is what a fence of its own amounts to here.        *)
(***************************************************************************)
EXTENDS Naturals

CONSTANTS
    MaxOrganization,
    Workers,
    Nobody,
    MaxFaults       \* crashes, failing calls, refusals and leases lost at work

Organizations == 1..MaxOrganization
NoOrganization == 0

ASSUME WorkerBounds ==
    {MaxOrganization, MaxFaults} \subseteq Nat /\ Nobody \notin Workers

VARIABLES
    organizations,  \* organization_work_roots
    work,           \* the oldest unsettled attempt of each of them
    worker,
    since,          \* history: whom a worker claimed for since it probed another
    faults

workerVars == <<organizations, work, worker, since, faults>>

NoWork == [at |-> "none", owner |-> Nobody, live |-> FALSE]
Queued == [NoWork EXCEPT !.at = "queued"]
Idle == [at |-> "idle", known |-> {}, todo |-> {}, last |-> NoOrganization,
         claim |-> NoOrganization]

WorkerInit ==
    /\ organizations \in SUBSET Organizations
    /\ work = [o \in Organizations |-> NoWork]
    /\ worker = [w \in Workers |-> Idle]
    /\ since = [w \in Workers |-> [o \in Organizations |-> {}]]
    /\ faults = 0
-----------------------------------------------------------------------------
\* Others.

CreateOrganization(o) ==
    /\ o \notin organizations
    /\ organizations' = organizations \cup {o}
    /\ UNCHANGED <<work, worker, since, faults>>

Admit(o) ==
    /\ o \in organizations /\ work[o] = NoWork
    /\ work' = [work EXCEPT ![o] = Queued]
    /\ UNCHANGED <<organizations, worker, since, faults>>

Fault == faults < MaxFaults /\ faults' = faults + 1

\* Nobody renews the lease of a claim no worker works on.
Abandoned(o) == \A w \in Workers : work[o].owner = w => worker[w].claim # o

\* The lease of a claim runs out.
Lapse(o) ==
    /\ work[o].live
    /\ work' = [work EXCEPT ![o].live = FALSE]
    /\ IF Abandoned(o) THEN UNCHANGED faults ELSE Fault
    /\ UNCHANGED <<organizations, worker, since>>

Crash(w) ==
    /\ Fault
    /\ worker' = [worker EXCEPT ![w] = Idle]
    /\ since' = [since EXCEPT ![w] = [o \in Organizations |-> {}]]
    /\ UNCHANGED <<organizations, work>>
-----------------------------------------------------------------------------
\* The scan.

\* Mutant: every scan begins with the first organization.
ScannedBefore_NoRotation(last, o, p) == o < p

\* organizationsAfter: does a scan come to o before it comes to p?
ScannedBefore(last, o, p) ==
    \/ o > last /\ p <= last
    \/ (o > last <=> p > last) /\ o < p

Go(w, at) == worker' = [worker EXCEPT ![w].at = at]

\* A scan that ends, and with it the claim.
Rest(w) == worker' = [worker EXCEPT ![w] = [Idle EXCEPT !.last = worker[w].last]]

\* The organization the scan is at.
Probing(w, at, o) ==
    /\ worker[w].at = at
    /\ o \in worker[w].todo
    /\ \A p \in worker[w].todo \ {o} : ScannedBefore(worker[w].last, o, p)

\* On to the next one.
Pass(w, o) ==
    IF worker[w].todo = {o} THEN Rest(w)
    ELSE worker' = [worker EXCEPT ![w].todo = @ \ {o}, ![w].at = "recover"]

StartScan(w) ==
    /\ worker[w].at = "idle" /\ organizations # {}
    /\ worker' = [worker EXCEPT ![w].at = "recover", ![w].known = organizations,
                      ![w].todo = organizations]
    /\ UNCHANGED <<organizations, work, since, faults>>

\* RequeueExpiredLocalAttempts: what was started is left to reconciliation.
Recover(w, o) ==
    /\ Probing(w, "recover", o)
    /\ work' = IF work[o].at \in {"offered", "running"} /\ ~work[o].live
               THEN [work EXCEPT ![o] = IF @.at = "offered" THEN Queued ELSE NoWork]
               ELSE work
    /\ since' = [since EXCEPT ![w][o] = {}]
    /\ Go(w, "claim")
    /\ UNCHANGED <<organizations, faults>>

Offer(w, o) ==
    /\ work[o] = Queued
    /\ work' = [work EXCEPT ![o] = [at |-> "offered", owner |-> w, live |-> TRUE]]

\* Mutant: the claim does not move the cursor.
Claim_NotMoved(w, o) ==
    /\ Probing(w, "claim", o) /\ Offer(w, o)
    /\ worker' = [worker EXCEPT ![w].at = "offered", ![w].claim = o]
    /\ since' = [since EXCEPT ![w] = [p \in Organizations |->
                    IF p \in worker[w].known THEN @[p] \cup {o} ELSE @[p]]]
    /\ UNCHANGED <<organizations, faults>>

\* The cursor moves before the claim is run, however that ends.
Claim(w, o) ==
    /\ Probing(w, "claim", o) /\ Offer(w, o)
    /\ worker' = [worker EXCEPT ![w].at = "offered", ![w].claim = o, ![w].last = o]
    /\ since' = [since EXCEPT ![w] = [p \in Organizations |->
                    IF p \in worker[w].known THEN @[p] \cup {o} ELSE @[p]]]
    /\ UNCHANGED <<organizations, faults>>

\* Nothing to claim, a candidate that is quarantined, or a pool that refuses.
NoClaim(w, o) ==
    /\ Probing(w, "claim", o)
    /\ \/ work[o] # Queued /\ UNCHANGED <<work, faults>>
       \/ work[o] = Queued /\ work' = [work EXCEPT ![o] = NoWork] /\ UNCHANGED faults
       \/ work[o] = Queued /\ UNCHANGED work /\ Fault
    /\ Pass(w, o)
    /\ UNCHANGED <<organizations, since>>

\* A Store call throws, and the iteration with it; a claim may have committed.
ScanFails(w, o) ==
    /\ \/ Probing(w, "recover", o) /\ UNCHANGED work
       \/ Probing(w, "claim", o) /\ UNCHANGED work
       \/ Probing(w, "claim", o) /\ Offer(w, o)
    /\ Rest(w) /\ Fault
    /\ UNCHANGED <<organizations, since>>
-----------------------------------------------------------------------------
\* The claim.

Holds(w, o) == work[o].owner = w /\ work[o].live

Became(w, o, next) ==
    work' = IF Holds(w, o) THEN [work EXCEPT ![o] = next] ELSE work

\* A dependency or the pool is not ready after the offer; the requeue may fail.
RequeueUnstarted(w, o) ==
    /\ worker[w].at = "offered" /\ worker[w].claim = o
    /\ Became(w, o, Queued) \/ UNCHANGED work
    /\ Rest(w) /\ Fault
    /\ UNCHANGED <<organizations, since>>

\* BeginExecution.
Begin(w, o) ==
    /\ worker[w].at = "offered" /\ worker[w].claim = o
    /\ Became(w, o, [work[o] EXCEPT !.at = "running"])
    /\ IF Holds(w, o) THEN Go(w, "running") ELSE Rest(w)
    /\ UNCHANGED <<organizations, since, faults>>

\* The definition can not be materialised: the attempt goes to reconciliation.
Poisoned(w, o) ==
    /\ worker[w].at = "offered" /\ worker[w].claim = o
    /\ Became(w, o, NoWork)
    /\ Rest(w)
    /\ UNCHANGED <<organizations, since, faults>>

\* Published or left to reconciliation, unless that call fails too.
Finish(w, o) ==
    /\ worker[w].at = "running" /\ worker[w].claim = o
    /\ \/ Became(w, o, NoWork) /\ UNCHANGED faults
       \/ UNCHANGED work /\ Fault
    /\ Rest(w)
    /\ UNCHANGED <<organizations, since>>

WorkerNext ==
    \/ \E o \in Organizations : CreateOrganization(o) \/ Admit(o) \/ Lapse(o)
    \/ \E w \in Workers : StartScan(w) \/ Crash(w)
    \/ \E w \in Workers, o \in Organizations :
          \/ Recover(w, o) \/ Claim(w, o) \/ NoClaim(w, o) \/ ScanFails(w, o)
          \/ RequeueUnstarted(w, o) \/ Begin(w, o) \/ Poisoned(w, o) \/ Finish(w, o)

\* A worker's next step; it is never idle for ever.
Step(w) ==
    \/ StartScan(w)
    \/ \E o \in Organizations :
          \/ Recover(w, o) \/ NoClaim(w, o) \/ Claim(w, o) \/ ScanFails(w, o)
          \/ RequeueUnstarted(w, o) \/ Begin(w, o) \/ Finish(w, o)

\* Workers run and builds end, and leases nobody renews run out.
Fairness ==
    /\ \A w \in Workers : WF_workerVars(Step(w))
    /\ \A o \in Organizations : WF_workerVars(Abandoned(o) /\ Lapse(o))

WorkerSpec == WorkerInit /\ [][WorkerNext]_workerVars /\ Fairness
-----------------------------------------------------------------------------
\* A worker does not claim twice for one organization before it has probed every
\* other one its scans found, whatever fails in between.
NobodyBypassed ==
    \A w \in Workers : \A o \in worker[w].known, p \in Organizations :
        Probing(w, "claim", p) /\ p \in since[w][o] => p = o

\* What is admitted is settled or left to reconciliation in the end, although
\* other organizations always have work, and offers were requeued and abandoned
\* and workers died.
EveryoneIsServed ==
    \A o \in Organizations : (work[o] # NoWork) ~> (work[o] = NoWork)
=============================================================================
