SPECIFICATION CoverageSpec
CONSTANTS
    p1 = p1
    c1 = c1
    c2 = c2
    codex = codex
    copilot = copilot
    Unset = Unset
    PRs <- OnePR
    Commits <- TwoCommits
    Reviewers <- BothReviewers
    Codex = codex
SYMMETRY Symmetry
PROPERTIES
    CoveredMeansReviewed
