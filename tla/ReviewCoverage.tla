--------------------------- MODULE ReviewCoverage ---------------------------
(***************************************************************************)
(* scripts/review-coverage.py: did every expected reviewer review the      *)
(* commit being judged?  --pr N judges the head of one pull request before *)
(* its merge; without it every merged pull request is audited.             *)
(*                                                                         *)
(* Each `gh api` call answers at one moment of its own (pages of one call  *)
(* are not told apart), and between two calls authors push, also back to   *)
(* an earlier commit, close, reopen and merge, and reviewers finish a      *)
(* review of whatever commit they began with.  A commit's abbreviation in  *)
(* a clean comment identifies it.                                          *)
(***************************************************************************)
CONSTANTS
    PRs,
    Commits,
    Reviewers,      \* logins
    Codex,          \* the reviewer whose clean comments count too
    Unset

ASSUME CodexIsAReviewer == Codex \in Reviewers
ASSUME UnsetIsNoPR == Unset \notin PRs \cup Commits

VARIABLES
    pr,         \* GitHub: state and head of every pull request
    reviews,    \* GitHub: formal reviews, pending and submitted
    comments,   \* GitHub: commits named by Codex's clean comments
    checker     \* one invocation of the script

coverageVars == <<pr, reviews, comments, checker>>
github == <<pr, reviews, comments>>

\* Row: the judged head and who reviewed it.
NotInvoked == [at |-> "idle", mode |-> Unset, expected |-> {}, todo |-> {},
               target |-> Unset, before |-> Unset, seen |-> {}, said |-> {},
               rows |-> {}]

CoverageInit ==
    /\ pr \in [PRs -> {[state |-> "open", head |-> c] : c \in Commits}]
    /\ reviews = [p \in PRs |-> {}]
    /\ comments = [p \in PRs |-> {}]
    /\ checker = NotInvoked
-----------------------------------------------------------------------------
\* GitHub, as the script uses it.

Push(p, c) ==
    /\ pr[p].state # "merged" /\ c # pr[p].head
    /\ pr' = [pr EXCEPT ![p].head = c]
    /\ UNCHANGED <<reviews, comments, checker>>

Close(p) ==
    /\ pr[p].state = "open"
    /\ pr' = [pr EXCEPT ![p].state = "closed"]
    /\ UNCHANGED <<reviews, comments, checker>>

Reopen(p) ==
    /\ pr[p].state = "closed"
    /\ pr' = [pr EXCEPT ![p].state = "open"]
    /\ UNCHANGED <<reviews, comments, checker>>

\* What is merged is final.
Merge(p) ==
    /\ pr[p].state = "open"
    /\ pr' = [pr EXCEPT ![p].state = "merged"]
    /\ UNCHANGED <<reviews, comments, checker>>

Pending(r, c) == [reviewer |-> r, commit |-> c, submitted |-> FALSE]
Submitted(r, c) == [reviewer |-> r, commit |-> c, submitted |-> TRUE]

BeginReview(p, r) ==
    /\ {Pending(r, pr[p].head), Submitted(r, pr[p].head)} \cap reviews[p] = {}
    /\ reviews' = [reviews EXCEPT ![p] = @ \cup {Pending(r, pr[p].head)}]
    /\ UNCHANGED <<pr, comments, checker>>

Submit(p, r, c) ==
    /\ Pending(r, c) \in reviews[p]
    /\ reviews' = [reviews EXCEPT ![p] = (@ \ {Pending(r, c)}) \cup {Submitted(r, c)}]
    /\ UNCHANGED <<pr, comments, checker>>

\* Codex found nothing and says so in a comment instead.
CommentClean(p, c) ==
    /\ Pending(Codex, c) \in reviews[p]
    /\ reviews' = [reviews EXCEPT ![p] = @ \ {Pending(Codex, c)}]
    /\ comments' = [comments EXCEPT ![p] = @ \cup {c}]
    /\ UNCHANGED <<pr, checker>>
-----------------------------------------------------------------------------
\* What the reads say.

Formal(seen) == {[reviewer |-> v.reviewer, commit |-> v.commit] :
                    v \in {v \in seen : v.submitted}}
CleanComments(said) == {[reviewer |-> Codex, commit |-> c] : c \in said}

\* reviewer_row, for all reviewers at once.
Covering(head, expected) ==
    {r \in expected : [reviewer |-> r, commit |-> head] \in
                          Formal(checker.seen) \cup CleanComments(checker.said)}

Answer(at) == checker' = [checker EXCEPT !.at = at] /\ UNCHANGED github

\* No verdict: exit 2.
Refuse == Answer("refused")

\* A snapshot of a pull request that was closed without a merge is refused.
Trusted(snapshot) == snapshot.state # "closed"
-----------------------------------------------------------------------------
\* pr_coverage.

StartPR(p, expected) ==
    /\ checker.at = "idle"
    /\ checker' = [NotInvoked EXCEPT !.at = "before", !.mode = "pr",
                                     !.expected = expected, !.target = p]
    /\ UNCHANGED github

\* Without an expected reviewer nothing is read between the snapshots.
Before ==
    /\ checker.at = "before"
    /\ IF Trusted(pr[checker.target])
       THEN /\ checker' = [checker EXCEPT !.before = pr[checker.target],
                   !.at = IF checker.expected = {} THEN "after" ELSE "reviews"]
            /\ UNCHANGED github
       ELSE Refuse

ReadReviews ==
    /\ checker.at = "reviews"
    /\ checker' = [checker EXCEPT !.seen = reviews[checker.target],
                                  !.at = "comments"]
    /\ UNCHANGED github

ReadComments ==
    /\ checker.at = "comments"
    /\ checker' = [checker EXCEPT !.said = comments[checker.target],
                      !.at = IF checker.mode = "pr" THEN "after" ELSE "row"]
    /\ UNCHANGED github

\* Mutant: only the state is compared, not the head.
Unmoved_StateOnly(after) == checker.before.state = after.state

Unmoved(after) == checker.before = after

\* The second snapshot and the verdict.
After ==
    /\ checker.at = "after"
    /\ IF Trusted(pr[checker.target]) /\ Unmoved(pr[checker.target])
       THEN Answer(IF Covering(checker.before.head, checker.expected) = checker.expected
                   THEN "covered" ELSE "uncovered")
       ELSE Refuse
-----------------------------------------------------------------------------
\* audit_merged.

\* Of the closed ones those that landed.
Audited(p) == pr[p].state = "merged"

StartAudit(expected) ==
    /\ checker.at = "idle"
    /\ checker' = [NotInvoked EXCEPT !.at = "next", !.mode = "audit",
                      !.expected = expected,
                      !.todo = {[pr |-> p, head |-> pr[p].head] :
                                    p \in {p \in PRs : Audited(p)}}]
    /\ UNCHANGED github

NextPR ==
    /\ checker.at = "next" /\ checker.todo # {}
    /\ \E t \in checker.todo :
          checker' = [checker EXCEPT !.todo = @ \ {t}, !.target = t.pr,
                         !.before = [state |-> "merged", head |-> t.head],
                         !.seen = {}, !.said = {},
                         !.at = IF checker.expected = {} THEN "row" ELSE "reviews"]
    /\ UNCHANGED github

Row ==
    /\ checker.at = "row"
    /\ checker' = [checker EXCEPT !.at = "next",
           !.rows = @ \cup {[pr |-> checker.target, head |-> checker.before.head,
                             covered |-> Covering(checker.before.head, checker.expected)
                                            = checker.expected]}]
    /\ UNCHANGED github

AuditEnds ==
    /\ checker.at = "next" /\ checker.todo = {}
    /\ Answer(IF \A row \in checker.rows : row.covered THEN "clean" ELSE "bad")
-----------------------------------------------------------------------------
\* A failing or malformed answer of any call.
CallFails ==
    /\ checker.at \in {"before", "reviews", "comments", "after"}
    /\ Refuse

Outcomes == {"refused", "covered", "uncovered", "clean", "bad"}

Exit ==
    /\ checker.at \in Outcomes
    /\ checker' = NotInvoked
    /\ UNCHANGED github

CoverageNext ==
    \/ \E p \in PRs :
          \/ Close(p) \/ Reopen(p) \/ Merge(p)
          \/ \E c \in Commits : Push(p, c) \/ CommentClean(p, c)
          \/ \E r \in Reviewers : BeginReview(p, r) \/ \E c \in Commits : Submit(p, r, c)
    \/ \E expected \in SUBSET Reviewers :
          StartAudit(expected) \/ \E p \in PRs : StartPR(p, expected)
    \/ Before \/ ReadReviews \/ ReadComments \/ After
    \/ NextPR \/ Row \/ AuditEnds
    \/ CallFails \/ Exit

CoverageSpec == CoverageInit /\ [][CoverageNext]_coverageVars
-----------------------------------------------------------------------------
\* r reviewed commit c of p.
Reviewed(p, r, c) ==
    \/ Submitted(r, c) \in reviews[p]
    \/ r = Codex /\ c \in comments[p]

\* "covered" is said of a pull request that is open or merged, at a moment when
\* every expected reviewer has reviewed the head it has then, whatever was
\* pushed, reviewed and commented while the script was reading.
CoveredMeansReviewed ==
    [][checker.at = "after" /\ checker'.at = "covered" =>
          LET p == checker.target IN
          /\ pr[p].state # "closed"
          /\ \A r \in checker.expected : Reviewed(p, r, pr[p].head)]_coverageVars

\* Every row of an audit is about the commit that landed, also when its pull
\* request was changed after the list was read, and a row that says covered is
\* right about every expected reviewer.
AuditIsOfWhatLanded ==
    \A row \in checker.rows :
        /\ pr[row.pr].state = "merged" /\ pr[row.pr].head = row.head
        /\ row.covered => \A r \in checker.expected : Reviewed(row.pr, r, row.head)
=============================================================================
