---------------------- MODULE AuthorityImplementsLease ----------------------
(***************************************************************************)
(* The Store's transactions, seen through the authority they give: the     *)
(* refinement mapping from ExecutionAuthority to AttemptLease.             *)
(***************************************************************************)
EXTENDS ExecutionAuthority

\* An unexpired lease of the current epoch on an active attempt: what
\* tryLockEffectAuthority and lockExecutionAuthority look for.
HolderOf(a) ==
    IF /\ attempts[a].state \in ActiveStates
       /\ attempts[a].lease_left > 0
       /\ attempts[a].restore_epoch = restore_epoch
    THEN attempts[a].lease_owner ELSE None

\* Accepted, running or later, settled included: past the offer.
Begun(a) == attempts[a].state \notin {"absent", "queued", "offered"}

Lease == INSTANCE AttemptLease WITH
    fence <- [a \in Attempts |-> attempts[a].fence],
    holder <- [a \in Attempts |-> HolderOf(a)],
    taken <- [a \in Attempts |-> Begun(a)]

\* The Store keeps its promise: every transaction is one step of the lease or
\* leaves it alone, so an attempt that was begun is offered again only if its
\* holder gave it back while its lease held.
ImplementsLease == Lease!LeaseSpec
=============================================================================
