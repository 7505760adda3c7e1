----------------------------- MODULE Promotion -----------------------------
(***************************************************************************)
(* What the review promises about merging and about the king score, without *)
(* workers, rows, locks, deliveries or faults: miners open, push to and    *)
(* close pull requests as they like, and the review may                    *)
(*   - record that a commit of a pull request passed with a score,         *)
(*   - merge an open pull request whose present head has passed,           *)
(*   - make the score of a passed and merged commit the king score.        *)
(* ReviewPipeline implements it.                                           *)
(***************************************************************************)
EXTENDS Integers

CONSTANTS
    PRs,
    Heads,      \* the commits a pull request can have as its head
    Commits,    \* what an evaluation can name as its commit: a head, or nothing
    Scores,
    Threshold

VARIABLES
    pulls,   \* the state and head commit of each pull request
    passed,  \* the commits that passed, with their scores
    king     \* the score to beat

vars == <<pulls, passed, king>>

Passing == [pr: PRs, head: Commits, score: {s \in Scores : s >= Threshold}]

Init ==
    /\ pulls = [p \in PRs |-> [state |-> "none", head |-> 1]]
    /\ passed = {}
    /\ king = Threshold

\* Anybody may open or close a pull request, push to it, or open it again;
\* nobody brings a merged one back.
Change(p, st, h) ==
    /\ pulls[p].state # "merged"
    /\ pulls' = [pulls EXCEPT ![p] = [state |-> st, head |-> h]]
    /\ UNCHANGED <<passed, king>>

Pass(r) ==
    /\ passed' = passed \cup {r}
    /\ UNCHANGED <<pulls, king>>

Merge(r) ==
    /\ pulls[r.pr] = [state |-> "open", head |-> r.head]
    /\ pulls' = [pulls EXCEPT ![r.pr] = [state |-> "merged", head |-> r.head]]
    /\ UNCHANGED <<passed, king>>

Crown(r) ==
    /\ pulls[r.pr] = [state |-> "merged", head |-> r.head]
    /\ king' = r.score
    /\ UNCHANGED <<pulls, passed>>

Next ==
    \/ \E p \in PRs, st \in {"open", "closed"}, h \in Heads : Change(p, st, h)
    \/ \E r \in Passing : Pass(r)
    \/ \E r \in passed : Merge(r) \/ Crown(r)

Spec == Init /\ [][Next]_vars
=============================================================================
