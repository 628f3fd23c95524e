-------------------------- MODULE MCReviewCoverage --------------------------
(* ReviewCoverage on a small instance.                                       *)
EXTENDS ReviewCoverage, TLC

CONSTANTS p1, c1, c2, codex, copilot

OnePR == {p1}
TwoCommits == {c1, c2}
BothReviewers == {codex, copilot}

Symmetry == Permutations(PRs) \cup Permutations(Commits)
=============================================================================
