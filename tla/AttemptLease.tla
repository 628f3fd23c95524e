---------------------------- MODULE AttemptLease ----------------------------
(***************************************************************************)
(* What the Store promises a worker about an attempt, with the tables left *)
(* out: under which fence it was last offered, who may act on it now, and  *)
(* whether somebody took it up.  An attempt somebody took up is offered    *)
(* again only after its holder gave it back.  ExecutionAuthority           *)
(* implements this (AuthorityImplementsLease); EffectLedger builds on it.  *)
(***************************************************************************)
EXTENDS Integers

CONSTANTS
    Attempts,   \* attempt identities
    Owners,     \* lease owners
    MaxFence,   \* bound: offers of one attempt
    None        \* nobody

ASSUME FenceBoundAssumption == MaxFence \in Nat
ASSUME NobodyAssumption == None \notin Owners

VARIABLES
    fence,    \* how often each attempt was offered
    holder,   \* who holds the attempt's authority now, or None
    taken     \* begun by a holder that did not give it back, or settled

leaseVars == <<fence, holder, taken>>

LeaseInit ==
    /\ fence = [a \in Attempts |-> 0]
    /\ holder = [a \in Attempts |-> None]
    /\ taken = [a \in Attempts |-> FALSE]
-----------------------------------------------------------------------------
Authority(a, f, w) == fence[a] = f /\ holder[a] = w

\* holder and taken when the attempts in S are nobody's for good.
WithoutHolder(S) == [a \in Attempts |-> IF a \in S THEN None ELSE holder[a]]
TakenWith(S) == [a \in Attempts |-> taken[a] \/ a \in S]

\* Offer a to w under its next fence, whoever held the previous offer; the
\* candidates in Q before it turned out to be unreadable and are settled.
Grant(a, w, Q) ==
    /\ ~taken[a]
    /\ fence[a] < MaxFence
    /\ a \notin Q /\ \A q \in Q : ~taken[q]
    /\ fence' = [fence EXCEPT ![a] = @ + 1]
    /\ holder' = [WithoutHolder(Q) EXCEPT ![a] = w]
    /\ taken' = TakenWith(Q)

\* The holder begins to run the attempt.
Take(a) ==
    /\ holder[a] # None /\ ~taken[a]
    /\ taken' = [taken EXCEPT ![a] = TRUE]
    /\ UNCHANGED <<fence, holder>>

\* The holder puts the attempt back into the queue.
GiveBack(a) ==
    /\ holder[a] # None
    /\ holder' = [holder EXCEPT ![a] = None]
    /\ taken' = [taken EXCEPT ![a] = FALSE]
    /\ UNCHANGED fence

\* The leases of the attempts in S run out.
Lose(S) ==
    /\ holder' = WithoutHolder(S)
    /\ UNCHANGED <<fence, taken>>

\* The attempts in S are published, aborted or sent to reconciliation.
Settle(S) ==
    /\ holder' = WithoutHolder(S)
    /\ taken' = TakenWith(S)
    /\ UNCHANGED fence

LeaseNext ==
    \/ \E a \in Attempts, w \in Owners, Q \in SUBSET Attempts : Grant(a, w, Q)
    \/ \E a \in Attempts : Take(a) \/ GiveBack(a)
    \/ \E S \in SUBSET Attempts : Lose(S) \/ Settle(S)

LeaseSpec == LeaseInit /\ [][LeaseNext]_leaseVars
=============================================================================
