------------------------ MODULE MCExecutionAuthority ------------------------
(* ExecutionAuthority on a small instance.                                   *)
EXTENDS AuthorityImplementsLease, TLC

CONSTANTS b1, b2, a1, a2, w1, w2, ag

OneBuild == {b1}
TwoBuilds == {b1, b2}
TwoAttempts == {a1, a2}
TwoWorkers == {w1, w2}
OneAgent == {ag}

\* Identities are compared for equality only, so each set of them is symmetric.
Symmetry ==
    Permutations(Builds) \cup Permutations(Attempts) \cup Permutations(LocalWorkers)
=============================================================================
