----------------------------- MODULE RepoScan -----------------------------
(***************************************************************************)
(* src/l402/repo-opportunity-scan.js and its routes: the credential of the *)
(* gateway, the rate limit of the backend, and a scan, which reads the     *)
(* repository, its open issues and its open pull requests one after        *)
(* another while GitHub changes, scores the issues and decides.            *)
(*                                                                         *)
(* Of an issue the traits the score depends on are kept; a pull request is *)
(* the set of issues its text refers to.                                   *)
(***************************************************************************)
EXTENDS Integers, FiniteSets, FiniteSetsExt

CONSTANTS
    Traits,      \* of every issue: labels, assigned, comments, age, words
    Refs,        \* the issues each pull request refers to
    Configured,  \* a token is set (L402_BACKEND_TOKEN)
    Quota,       \* requests of a window
    Window,      \* windowMs, 60 s
    PageSize,    \* per_page, 50
    Candidates,  \* `limit`, 1 to 10
    MaxChanges,  \* bound on the changes at GitHub
    LastSecond   \* bound on the clock

Issues == DOMAIN Traits
Pulls == DOMAIN Refs

ASSUME ScanAssumption ==
    /\ {Quota, Window, PageSize, Candidates} \subseteq Nat \ {0}
    /\ MaxChanges \in Nat /\ LastSecond \in Nat /\ Configured \in BOOLEAN
    /\ \A p \in Pulls : Refs[p] \subseteq Issues
\* Issues and pull requests share one numbering; what a person writes about an
\* issue is finite.
ASSUME GitHubAssumption ==
    /\ IsFiniteSet(Issues) /\ IsFiniteSet(Pulls) /\ Issues \cap Pulls = {}
    /\ "unread" \notin Issues \cup Pulls
    /\ \A i \in Issues :
          /\ IsFiniteSet(Traits[i].labels)
          /\ Traits[i].comments \in Nat /\ Traits[i].age \in Nat

VARIABLES
    now,
    windowStart, count,      \* windowStartedAt, requests
    passed,                  \* history: calls let through up to the end of a second
    issues, pulls, closed,   \* open at GitHub; archived or disabled
    changes, crowded,        \* changes so far; a page was too short
    call, repository,       \* the call in progress; what it has read
    seenIssues, seenPulls,
    steady,                  \* history: the pulls open since it was admitted
    report

limiter == <<windowStart, count, passed>>
github == <<issues, pulls, closed, changes, crowded>>
reads == <<repository, seenIssues, seenPulls>>
scanVars == <<now, limiter, github, call, reads, steady, report>>

NoReport == [decision |-> "none", candidates |-> <<>>]
Unread == {"unread"}
Ended == {"idle", "answered", "refused"}

ScanInit ==
    /\ now = 0 /\ windowStart = 0 /\ count = 0
    /\ passed = [t \in 0..LastSecond |-> 0]
    /\ issues \in SUBSET Issues /\ pulls \in SUBSET Pulls /\ closed \in BOOLEAN
    /\ changes = 0 /\ crowded = (Cardinality(pulls) > PageSize)
    /\ call = "idle" /\ repository = FALSE
    /\ seenIssues = Unread /\ seenPulls = Unread
    /\ steady = {} /\ report = NoReport

ScanTypeOK ==
    /\ now \in 0..LastSecond /\ windowStart \in 0..now /\ count \in 0..Quota
    /\ passed \in [0..LastSecond -> Nat]
    /\ issues \subseteq Issues /\ pulls \subseteq Pulls
    /\ closed \in BOOLEAN /\ crowded \in BOOLEAN /\ changes \in 0..MaxChanges
    /\ call \in Ended \cup {"repository", "rows"}
    /\ repository \in BOOLEAN /\ steady \subseteq pulls
    /\ seenIssues \subseteq Issues \/ seenIssues = Unread
    /\ seenPulls \subseteq Pulls \/ seenPulls = Unread
    /\ DOMAIN report.candidates \subseteq 1..Candidates

-----------------------------------------------------------------------------
(* The world. *)

Second ==
    /\ now < LastSecond /\ now' = now + 1
    /\ passed' = [passed EXCEPT ![now + 1] = passed[now]]
    /\ UNCHANGED <<windowStart, count, github, call, reads, steady, report>>

\* An issue or a pull request is opened or closed, the repository archived.
Change ==
    /\ changes < MaxChanges /\ changes' = changes + 1
    /\ \/ /\ \E i \in Issues : issues' = SymDiff(issues, {i})
          /\ UNCHANGED <<pulls, closed>>
       \/ /\ \E p \in Pulls : pulls' = SymDiff(pulls, {p})
          /\ UNCHANGED <<issues, closed>>
       \/ closed' = ~closed /\ UNCHANGED <<issues, pulls>>
    /\ crowded' = (crowded \/ Cardinality(pulls') > PageSize)
    /\ steady' = steady \cap pulls'
    /\ UNCHANGED <<now, limiter, call, reads, report>>

-----------------------------------------------------------------------------
(* The guard and the limit. *)

\* The variables of the last call are gone.
Forget ==
    /\ repository' = FALSE /\ seenIssues' = Unread /\ seenPulls' = Unread
    /\ report' = NoReport
Refuse == call' = "refused" /\ steady' = {} /\ Forget

\* requireL402Gateway: 503 without a configured token, 401 for another one.
\* It comes first: what it refuses is not counted.
Reject ==
    /\ call \in Ended
    /\ Refuse
    /\ UNCHANGED <<now, limiter, github>>

\* Mutant of Opened: windowStartedAt stays where it was.
OpenedBefore ==
    [start |-> windowStart, used |-> IF now - windowStart >= Window THEN 0 ELSE count]

\* The window a call falls into: the current one, or one that it opens.
Opened ==
    IF now - windowStart >= Window THEN [start |-> now, used |-> 0]
    ELSE [start |-> windowStart, used |-> count]

\* A call with the token: limitL402BackendRequests, then the checks of repo
\* and limit.  A call whose input is refused has been counted.
Call ==
    /\ call \in Ended /\ Configured
    /\ windowStart' = Opened.start
    /\ IF Opened.used >= Quota
       THEN count' = Opened.used /\ UNCHANGED passed /\ Refuse
       ELSE /\ count' = Opened.used + 1
            /\ passed' = [passed EXCEPT ![now] = @ + 1]
            /\ \/ Refuse
               \/ /\ call' = "repository" /\ steady' = pulls
                  /\ Forget
    /\ UNCHANGED <<now, github>>

-----------------------------------------------------------------------------
(* The score of an issue, contested by n pull requests. *)

Wanted == {"help wanted", "bounty", "reward", "paid"}
Risky == {"blocked", "duplicate", "needs design", "needs discussion",
          "needs hardware", "needs repro", "question", "wontfix"}
OfLabels(labels) ==
    LET Found(names) == Cardinality(labels \cap names)
    IN  25 * Found({"good first issue"}) + 20 * Found(Wanted) + 5 * Found({"bug"})
        - 20 * Found(Risky)

OfComments(n) == CASE n = 0 -> 10 [] n \in 1..3 -> 5 [] n \in 4..10 -> 0 [] n > 10 -> -5
OfAge(days) ==
    CASE days <= 30 -> 10 [] days \in 31..90 -> 5 [] days \in 91..365 -> 0 [] days > 365 -> -10
Bounded(x, low, high) == IF x < low THEN low ELSE IF x > high THEN high ELSE x

Score(i, n) ==
    LET t == Traits[i]
    IN  Bounded(25 + OfLabels(t.labels)
                + (IF t.assigned THEN -15 ELSE 15)
                + OfComments(t.comments) + OfAge(t.age)
                - (IF t.hardware THEN 30 ELSE 0)
                - Bounded(25 * n, 0, 50), 0, 100)

Actionability(score) ==
    IF score >= 65 THEN "high" ELSE IF score >= 40 THEN "medium" ELSE "low"

\* indexPullRequestReferences
Competition(i, rows) == {p \in rows : i \in Refs[p]}
ScoreIn(i, rows) == Score(i, Cardinality(Competition(i, rows)))

\* compareCandidates: by score, then the one updated last.
Before(i, j, prs) ==
    \/ ScoreIn(i, prs) > ScoreIn(j, prs)
    \/ ScoreIn(i, prs) = ScoreIn(j, prs) /\ Traits[i].age <= Traits[j].age

\* sort and slice: the first of the rows in that order; rows updated on the
\* same day stand in any order.
Rankings(rows, prs) ==
    LET places == 1..Bounded(Cardinality(rows), 0, Candidates)
    IN  {ranked \in [places -> rows] :
            /\ \A m, n \in places :
                  m < n => ranked[m] # ranked[n] /\ Before(ranked[m], ranked[n], prs)
            /\ \A i \in rows : \/ \E n \in places : ranked[n] = i
                              \/ \A n \in places : Before(ranked[n], i, prs)}

\* Mutant of Uncontested: the score is trusted to have counted them.
UncontestedByScore(i, prs) == Actionability(ScoreIn(i, prs)) = "high"

Uncontested(i, prs) ==
    Actionability(ScoreIn(i, prs)) = "high" /\ Competition(i, prs) = {}

Decision(closedThen, ranked, prs) ==
    IF closedThen THEN "avoid_repository"
    ELSE IF DOMAIN ranked = {} THEN "no_open_issue_candidate"
    ELSE IF Uncontested(ranked[1], prs) THEN "inspect_top_candidate"
    ELSE "manual_review_required"

-----------------------------------------------------------------------------
(* The scan. *)

\* A status of GitHub other than 2xx, at any read, ends the scan.
Fail ==
    /\ call \in {"repository", "rows"}
    /\ Refuse
    /\ UNCHANGED <<now, limiter, github>>

ReadArchived ==
    /\ call = "repository"
    /\ repository' = closed /\ call' = "rows"
    /\ UNCHANGED <<now, limiter, github, seenIssues, seenPulls, steady, report>>

\* The rows GitHub returns: a page of what is open, the last updated first.
Page(open) == {rows \in SUBSET open : Cardinality(rows) = Bounded(Cardinality(open), 0, PageSize)}

\* Promise.all over both lists; the second of them completes the report.
Complete(rows, prs) ==
    IF Unread \in {rows, prs}
    THEN /\ seenIssues' = rows /\ seenPulls' = prs
         /\ UNCHANGED <<call, report, steady, repository>>
    ELSE /\ \E ranked \in Rankings(rows, prs) :
               report' = [decision |-> Decision(repository, ranked, prs),
                          candidates |-> ranked]
         /\ call' = "answered"
         /\ seenIssues' = rows /\ seenPulls' = prs
         /\ UNCHANGED <<steady, repository>>

\* Pull requests are issues as well: they take up rows of the page, and are
\* filtered out.
ReadIssues ==
    /\ call = "rows" /\ seenIssues = Unread
    /\ \E rows \in Page(issues \cup pulls) : Complete(rows \cap Issues, seenPulls)
    /\ UNCHANGED <<now, limiter, github>>

ReadPulls ==
    /\ call = "rows" /\ seenPulls = Unread
    /\ \E prs \in Page(pulls) : Complete(seenIssues, prs)
    /\ UNCHANGED <<now, limiter, github>>

ScanNext ==
    \/ Second \/ Change \/ Reject \/ Call
    \/ Fail \/ ReadArchived \/ ReadIssues \/ ReadPulls

ScanSpec == ScanInit /\ [][ScanNext]_scanVars

-----------------------------------------------------------------------------
(* Properties. *)

\* A leaked token buys no more than the quota: at most Quota calls for every
\* Window begun since the start, and at most twice that in any span of one
\* Window, which may cover the end of one window and the start of the next.
Upto(t) == IF t < 0 THEN 0 ELSE passed[t]
QuotaKept ==
    \A t \in 0..now :
        /\ Upto(t) <= Quota * (t \div Window + 1)
        /\ Upto(t) - Upto(t - Window) <= 2 * Quota

\* "inspect_top_candidate" sends someone to work: however GitHub changed while
\* it was read, no pull request that was open from the call to the answer
\* refers to that issue, provided the open ones ever fitted into one page; and
\* no issue that was read scores higher.
SoundPick ==
    call = "answered" /\ report.decision = "inspect_top_candidate" =>
        LET top == report.candidates[1]
        IN  /\ ~crowded => \A p \in steady : top \notin Refs[p]
            /\ \A i \in seenIssues : ScoreIn(i, seenPulls) <= ScoreIn(top, seenPulls)
            /\ ~repository

=============================================================================
