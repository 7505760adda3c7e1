--------------------------- MODULE ReviewPipeline ---------------------------
(***************************************************************************)
(* The validator's review of miner pull requests: the webhook handler of   *)
(* the API process, the polling workers, the Postgres rows they share and  *)
(* the pull requests on GitHub they act on.                                *)
(*                                                                         *)
(* Grain of atomicity.  Both processes use one database transaction per    *)
(* request or job, at READ COMMITTED, through an ORM session with          *)
(* autoflush off.  So a transaction is several steps here: each SELECT     *)
(* reads the committed rows of its own instant into the session, an UPDATE *)
(* waits for the row's lock, and what it writes is the set of columns      *)
(* whose value differs from what the session had loaded (NetChange).       *)
(* Uncommitted writes are visible to nobody; a rollback or the loss of the *)
(* connection drops them and frees the locks.                              *)
(*                                                                         *)
(* The deployment is the README's: one uvicorn process, whose webhook      *)
(* handler is a coroutine that never awaits inside its transaction, so at  *)
(* most one webhook transaction is open; and any number of workers.        *)
(***************************************************************************)
EXTENDS Integers, FiniteSets

CONSTANTS
    PRs,         \* pull requests labelled "submission"
    Workers,     \* processes running worker.py
    Api,         \* the API process, as the holder of a row lock
    None,        \* SQL NULL, and "nobody"
    MaxHead,     \* bound: commits pushed to one pull request
    Scores,      \* scores an evaluation can report
    Threshold,   \* Settings.github_review_score_threshold
    MaxEvents,   \* bound: acts of people on GitHub, each of which causes a delivery
    MaxFaults    \* bound: crashes and deliveries lost on the way

ASSUME BoundsAssumption == MaxHead \in Nat \ {0} /\ MaxEvents \in Nat /\ MaxFaults \in Nat
ASSUME ScoresAssumption == Scores \subseteq Int /\ Threshold \in Int
ASSUME NamesAssumption ==
    /\ IsFiniteSet(PRs)
    /\ Api \notin Workers
    /\ None \notin Workers \cup {Api} \cup Int \cup PRs

VARIABLES
    gh,          \* GitHub: each pull request's state and head commit
    deliveries,  \* webhook deliveries on their way to the API
    sent,        \* how many deliveries people caused, or asked for again, so far
    sub,         \* submissions: the committed row of each pull request
    job,         \* job_queues: committed status of the row "evaluation:<id>"
    since,       \* job_queues.created_at, as the order of insertion
    runs,        \* evaluations: the committed runs
    king,        \* competition_runtime_config.king_score
    review,      \* review_control.enabled
    subLock,     \* holder of the row lock of each submission
    jobLock,     \* holder of the row lock of each job
    pc,          \* where each worker is in process_once
    on,          \* the pull request whose job the worker claimed
    polled,      \* what the worker read before it claimed: king score, gate
    mem,         \* the Submission and JobQueue objects in the worker's session
    result,      \* the score the worker's evaluation reported
    apiPc,       \* where the API's webhook transaction is
    req,         \* its delivery and the rows it loaded
    faults       \* crashes and losses so far

gitVars == <<gh, deliveries, sent>>
rowVars == <<sub, job, since, runs>>
lockVars == <<subLock, jobLock>>
workerVars == <<pc, on, polled, mem, result>>
apiVars == <<apiPc, req>>
vars == <<gitVars, rowVars, king, review, lockVars, workerVars, apiVars, faults>>

-----------------------------------------------------------------------------
(***************************************************************************)
(* Rows, messages and process states                                       *)
(***************************************************************************)
Heads == 1..MaxHead
Score == Scores \cup {None}
AnyHead == Heads \cup {None}
Senders == {"miner", "bot"}

\* What is ever committed: "running" and "awaiting_ci" are set and replaced
\* inside one transaction.
SubStatus == {"absent", "queued", "closed", "completed", "failed"}
JobStatus == {"absent", "queued", "completed", "failed", "cancelled"}

\* score is latest_score, run the commit that the run latest_eval_id evaluated,
\* sender is miner_id.
SubRow == [status: SubStatus, sender: Senders, head: AnyHead, score: Score, run: AnyHead]
NoRow  == [status |-> "absent", sender |-> "miner", head |-> None, score |-> None,
           run |-> None]

Run == [pr: PRs, head: AnyHead, status: {"completed", "failed"}, score: Score]

Event == [kind: {"change", "closed"}, pr: PRs, head: Heads, sender: Senders]

NoPoll == [king |-> Threshold, gate |-> FALSE]
Polled == [king: Scores \cup {Threshold}, gate: BOOLEAN]

\* A worker's transaction is open, with the job's row locked, in these states.
InTransaction == {"claimed", "fetched", "evaluating"}
WorkerPc == InTransaction
              \cup {"idle", "polled", "merge", "close", "crown"}
              \cup {"failing", "rereading", "reread", "marking"}

ApiPc == {"idle", "read", "ready", "locked"}
Request == [ev: Event \cup {None}, sub: SubRow, job: JobStatus]
NoRequest == [ev |-> None, sub |-> NoRow, job |-> "absent"]
Objects == [sub: SubRow, job: JobStatus]
NoObjects == [sub |-> NoRow, job |-> "absent"]

\* A flush of an object that was loaded as `loaded` and now holds `wanted`,
\* applied to the row `current`: only the columns with a net change are SET.
Net(current, loaded, wanted) == IF wanted # loaded THEN wanted ELSE current

NetChange(current, loaded, wanted) ==
    [status |-> Net(current.status, loaded.status, wanted.status),
     sender |-> Net(current.sender, loaded.sender, wanted.sender),
     head   |-> Net(current.head, loaded.head, wanted.head),
     score  |-> Net(current.score, loaded.score, wanted.score),
     run    |-> Net(current.run, loaded.run, wanted.run)]

Init ==
    /\ gh = [p \in PRs |-> [state |-> "none", head |-> 1]]
    /\ deliveries = {} /\ sent = 0
    /\ sub = [p \in PRs |-> NoRow]
    /\ job = [p \in PRs |-> "absent"]
    /\ since = [p \in PRs |-> 0]
    /\ runs = {}
    /\ king = Threshold
    /\ review = FALSE
    /\ subLock = [p \in PRs |-> None]
    /\ jobLock = [p \in PRs |-> None]
    /\ pc = [w \in Workers |-> "idle"]
    /\ on = [w \in Workers |-> None]
    /\ polled = [w \in Workers |-> NoPoll]
    /\ mem = [w \in Workers |-> NoObjects]
    /\ result = [w \in Workers |-> None]
    /\ apiPc = "idle" /\ req = NoRequest
    /\ faults = 0

-----------------------------------------------------------------------------
(***************************************************************************)
(* GitHub and its users (not in the repository)                            *)
(***************************************************************************)
Delivery(kind, p, h, who) == [kind |-> kind, pr |-> p, head |-> h, sender |-> who]

\* Somebody acts on p: its state and head become st and h, and one delivery
\* starts on its way.
UserActs(p, st, h, kind, who) ==
    /\ sent < MaxEvents
    /\ sent' = sent + 1
    /\ gh' = [gh EXCEPT ![p] = [state |-> st, head |-> h]]
    /\ deliveries' = deliveries \cup {Delivery(kind, p, h, who)}
    /\ UNCHANGED <<rowVars, king, review, lockVars, workerVars, apiVars, faults>>

OpenPR(p)   == gh[p].state = "none" /\ UserActs(p, "open", 1, "change", "miner")
Push(p)     == /\ gh[p].state = "open" /\ gh[p].head < MaxHead
               /\ UserActs(p, "open", gh[p].head + 1, "change", "miner")
ClosePR(p)  == gh[p].state = "open" /\ UserActs(p, "closed", gh[p].head, "closed", "miner")
ReopenPR(p) == gh[p].state = "closed" /\ UserActs(p, "open", gh[p].head, "change", "miner")
\* The repository's workflow labels the pull request.
Label(p)    == gh[p].state = "open" /\ UserActs(p, "open", gh[p].head, "change", "bot")

\* A delivery is lost: GitHub does not repeat one by itself.
Drop(d) ==
    /\ faults < MaxFaults /\ faults' = faults + 1
    /\ deliveries' = deliveries \ {d}
    /\ UNCHANGED <<gh, sent, rowVars, king, review, lockVars, workerVars, apiVars>>

\* Variant: the call leaves out the sha.
MergeAcceptedAnyHead(p, sha) == gh[p].state = "open"
\* The merge endpoint, called with the sha of the evaluated commit.
MergeAccepted(p, sha) == gh[p].state = "open" /\ gh[p].head = sha

-----------------------------------------------------------------------------
(***************************************************************************)
(* The API process: admin switches and the webhook transaction             *)
(***************************************************************************)
StartReview ==
    /\ ~review /\ review' = TRUE
    /\ UNCHANGED <<gitVars, rowVars, king, lockVars, workerVars, apiVars, faults>>
PauseReview ==
    /\ review /\ review' = FALSE
    /\ UNCHANGED <<gitVars, rowVars, king, lockVars, workerVars, apiVars, faults>>

\* create_pr_submission: the object the handler goes on with.
PRSubmission(loaded, ev) ==
    IF loaded.status = "absent"
    THEN [NoRow EXCEPT !.status = "awaiting_ci", !.sender = ev.sender, !.head = ev.head]
    ELSE IF loaded.sender = ev.sender /\ loaded.head = ev.head
         THEN loaded
         ELSE [loaded EXCEPT !.sender = ev.sender, !.head = ev.head,
                             !.score = None, !.run = None]

\* Variant: a closed pull request without a row keeps its first status.
WantedKeepsAwaiting(loaded, ev) ==
    LET row == PRSubmission(loaded, ev)
    IN  IF ev.kind = "change"
        THEN [row EXCEPT !.status = "queued", !.score = None, !.run = None]
        ELSE IF row.status = "queued" THEN [row EXCEPT !.status = "closed"] ELSE row

\* github_webhook's changes to that object.
Wanted(loaded, ev) ==
    LET row == PRSubmission(loaded, ev)
    IN  IF ev.kind = "change"
        THEN [row EXCEPT !.status = "queued", !.score = None, !.run = None]
        ELSE IF row.status \in {"completed", "failed"}
             THEN row
             ELSE [row EXCEPT !.status = "closed"]

\* Variant: cancel_submission_jobs is not called.
WantedJobKept(loaded, ev) == IF ev.kind = "change" THEN "queued" ELSE loaded

\* enqueue_submission_job re-queues the row whatever its status;
\* cancel_submission_jobs selects queued rows only.
WantedJob(loaded, ev) ==
    IF ev.kind = "change" THEN "queued"
    ELSE IF loaded = "queued" THEN "cancelled" ELSE loaded

\* The handler's SELECT of the submission.  GitHub can be asked to deliver the
\* same event again, at any later time.
ReadSubmission(d, again) ==
    /\ apiPc = "idle"
    /\ again => sent < MaxEvents
    /\ sent' = IF again THEN sent + 1 ELSE sent
    /\ deliveries' = IF again THEN deliveries ELSE deliveries \ {d}
    /\ apiPc' = "read"
    /\ req' = [ev |-> d, sub |-> sub[d.pr], job |-> "absent"]
    /\ UNCHANGED <<gh, rowVars, king, review, lockVars, workerVars, faults>>

\* Its SELECT of the job.
ReadJob ==
    /\ apiPc = "read"
    /\ apiPc' = "ready"
    /\ req' = [req EXCEPT !.job = job[req.ev.pr]]
    /\ UNCHANGED <<gitVars, rowVars, king, review, lockVars, workerVars, faults>>

\* Timestamps are assigned with the rest: only a "closed" event that finds the
\* review settled and the pull request as it was leaves the submission alone.
WritesSub ==
    ~ /\ req.ev.kind = "closed" /\ req.sub.status \in {"completed", "failed"}
      /\ PRSubmission(req.sub, req.ev) = req.sub
WritesJob == req.ev.kind = "change" \/ req.job = "queued"

\* The flush updates the submission first, then the job.
LockSubmission ==
    /\ apiPc = "ready"
    /\ WritesSub => subLock[req.ev.pr] = None
    /\ apiPc' = "locked"
    /\ subLock' = IF WritesSub THEN [subLock EXCEPT ![req.ev.pr] = Api] ELSE subLock
    /\ UNCHANGED <<gitVars, rowVars, king, review, jobLock, workerVars, req, faults>>

FreeApi ==
    /\ apiPc' = "idle" /\ req' = NoRequest
    /\ subLock' = [p \in PRs |-> IF subLock[p] = Api THEN None ELSE subLock[p]]

CommitWebhook ==
    /\ apiPc = "locked"
    /\ LET p  == req.ev.pr
           st == WantedJob(req.job, req.ev)
       IN  /\ WritesJob => jobLock[p] = None
           /\ sub' = [sub EXCEPT ![p] = NetChange(@, req.sub, Wanted(req.sub, req.ev))]
           /\ job' = [job EXCEPT ![p] = Net(@, req.job, st)]
           /\ since' = IF req.job = "absent" /\ st = "queued"
                       THEN [since EXCEPT ![p] =
                               1 + Cardinality({q \in PRs : job[q] # "absent"})]
                       ELSE since
    /\ FreeApi
    /\ UNCHANGED <<gitVars, runs, king, review, jobLock, workerVars, faults>>

\* The transaction ends without a commit: the process dies, or it is the victim
\* of a deadlock and answers 400.
AbortWebhook ==
    /\ apiPc # "idle"
    /\ FreeApi
    /\ UNCHANGED <<gitVars, rowVars, king, review, jobLock, workerVars>>

ApiCrash == faults < MaxFaults /\ faults' = faults + 1 /\ AbortWebhook

-----------------------------------------------------------------------------
(***************************************************************************)
(* A worker: process_once                                                  *)
(***************************************************************************)
\* The end of process_once, however it ends: the session is closed.
ToIdle(w) ==
    /\ pc' = [pc EXCEPT ![w] = "idle"]
    /\ on' = [on EXCEPT ![w] = None]
    /\ polled' = [polled EXCEPT ![w] = NoPoll]
    /\ mem' = [mem EXCEPT ![w] = NoObjects]
    /\ result' = [result EXCEPT ![w] = None]

FreeWorker(w) ==
    /\ subLock' = [p \in PRs |-> IF subLock[p] = w THEN None ELSE subLock[p]]
    /\ jobLock' = [p \in PRs |-> IF jobLock[p] = w THEN None ELSE jobLock[p]]

Goto(w, there) == pc' = [pc EXCEPT ![w] = there]

\* The king score that decides this job's promotion, and the review gate that
\* filters its candidates, are read before the job is chosen.
Poll(w) ==
    /\ pc[w] = "idle"
    /\ Goto(w, "polled")
    /\ polled' = [polled EXCEPT ![w] = [king |-> king, gate |-> review]]
    /\ UNCHANGED <<gitVars, rowVars, king, review, lockVars, on, mem, result, apiVars, faults>>

\* Variants: a plain SELECT takes the job; the review gate is not consulted.
ClaimableLocked(w) == {p \in PRs : job[p] = "queued" /\ polled[w].gate}
ClaimableUngated(w) == {p \in PRs : job[p] = "queued" /\ jobLock[p] = None}

\* FOR UPDATE SKIP LOCKED; with the gate closed the query leaves out the jobs
\* of pull requests.
Claimable(w) ==
    {p \in PRs : job[p] = "queued" /\ jobLock[p] = None /\ polled[w].gate}

NoJob(w) ==
    /\ pc[w] = "polled" /\ Claimable(w) = {}
    /\ ToIdle(w)
    /\ UNCHANGED <<gitVars, rowVars, king, review, lockVars, apiVars, faults>>

\* Variant: the claim is committed at once, as a failure until it is done.
ClaimCommitted(w) ==
    /\ pc[w] = "polled"
    /\ \E p \in Claimable(w) :
         /\ \A q \in Claimable(w) : since[p] <= since[q]
         /\ jobLock' = [jobLock EXCEPT ![p] = w]
         /\ job' = [job EXCEPT ![p] = "failed"]
         /\ on' = [on EXCEPT ![w] = p]
         /\ mem' = [mem EXCEPT ![w] = [sub |-> sub[p], job |-> "queued"]]
    /\ Goto(w, "claimed")
    /\ UNCHANGED <<gitVars, sub, since, runs, king, review, subLock, polled, result, apiVars,
                   faults>>

\* The oldest job is locked and marked running in the open transaction, and
\* its submission is loaded.
Claim(w) ==
    /\ pc[w] = "polled"
    /\ \E p \in Claimable(w) :
         /\ \A q \in Claimable(w) : since[p] <= since[q]
         /\ jobLock' = [jobLock EXCEPT ![p] = w]
         /\ on' = [on EXCEPT ![w] = p]
         /\ mem' = [mem EXCEPT ![w] = [sub |-> sub[p], job |-> "queued"]]
    /\ Goto(w, "claimed")
    /\ UNCHANGED <<gitVars, rowVars, king, review, subLock, polled, result, apiVars, faults>>

\* The commit named by the loaded row is downloaded and has a checkpoint.
Fetch(w) ==
    /\ pc[w] = "claimed" /\ Goto(w, "fetched")
    /\ UNCHANGED <<gitVars, rowVars, king, review, lockVars, on, polled, mem, result, apiVars,
                   faults>>

\* Variant: the flush is a commit, so that the site can show the progress.
BeginCommitted(w) ==
    /\ pc[w] = "fetched"
    /\ subLock[on[w]] = None
    /\ sub' = [sub EXCEPT ![on[w]].status = "running"]
    /\ job' = [job EXCEPT ![on[w]] = "running"]
    /\ FreeWorker(w)
    /\ Goto(w, "evaluating")
    /\ UNCHANGED <<gitVars, since, runs, king, review, on, polled, mem, result, apiVars, faults>>

\* evaluate_submission begins: its first flush sets the submission running.
Begin(w) ==
    /\ pc[w] = "fetched"
    /\ subLock[on[w]] = None
    /\ subLock' = [subLock EXCEPT ![on[w]] = w]
    /\ Goto(w, "evaluating")
    /\ UNCHANGED <<gitVars, rowVars, king, review, jobLock, on, polled, mem, result, apiVars,
                   faults>>

\* What evaluate_submission leaves in the submission object.
Evaluated(loaded, status, score) ==
    [loaded EXCEPT !.status = status, !.score = score, !.run = loaded.head]

\* Variant: the threshold decides alone.
PromoteAtThreshold(score, kingScore) == score # None /\ score >= Threshold

ShouldPromote(score, kingScore) ==
    score # None /\ score >= Threshold /\ score > kingScore

\* evaluate_submission returns with a completed run (its score may be missing)
\* or a failed one; everything since the claim is committed.
Finish(w, status, score) ==
    /\ pc[w] = "evaluating"
    /\ LET p   == on[w]
           row == Evaluated(mem[w].sub, status, score)
       IN  /\ sub' = [sub EXCEPT ![p] =
                       [NetChange(@, mem[w].sub, row) EXCEPT !.status = status, !.run = row.run]]
           /\ job' = [job EXCEPT ![p] = status]
           /\ runs' = runs \cup {[pr |-> p, head |-> mem[w].sub.head, status |-> status,
                                  score |-> score]}
    /\ result' = [result EXCEPT ![w] = score]
    /\ Goto(w, IF ShouldPromote(score, polled[w].king) THEN "merge" ELSE "close")
    /\ FreeWorker(w)
    /\ UNCHANGED <<gitVars, since, king, review, on, polled, mem, apiVars, faults>>

\* Variant: the except branch goes on in the same transaction.
RollbackSkipped(w) ==
    /\ Goto(w, "failing")
    /\ UNCHANGED <<gitVars, rowVars, king, review, lockVars, on, polled, mem, result, apiVars,
                   faults>>

\* Fetching or evaluating raises, or Postgres picks this transaction as the
\* victim of a deadlock: everything since the claim is rolled back.
Rollback(w) ==
    /\ Goto(w, "failing")
    /\ FreeWorker(w)
    /\ UNCHANGED <<gitVars, rowVars, king, review, on, polled, mem, result, apiVars, faults>>

Raise(w) == pc[w] \in {"claimed", "evaluating"} /\ Rollback(w)

\* The except branch reads the job again, then the submission...
RereadJob(w) ==
    /\ pc[w] = "failing" /\ Goto(w, "rereading")
    /\ mem' = [mem EXCEPT ![w].job = job[on[w]]]
    /\ UNCHANGED <<gitVars, rowVars, king, review, lockVars, on, polled, result, apiVars, faults>>

RereadSubmission(w) ==
    /\ pc[w] = "rereading" /\ Goto(w, "reread")
    /\ mem' = [mem EXCEPT ![w].sub = sub[on[w]]]
    /\ UNCHANGED <<gitVars, rowVars, king, review, lockVars, on, polled, result, apiVars, faults>>

\* ...and its flush updates the submission, then the job.
MarkSubmission(w) ==
    /\ pc[w] = "reread"
    /\ subLock[on[w]] = None
    /\ subLock' = [subLock EXCEPT ![on[w]] = w]
    /\ Goto(w, "marking")
    /\ UNCHANGED <<gitVars, rowVars, king, review, jobLock, on, polled, mem, result, apiVars,
                   faults>>

\* Variant: only the submission is marked.
MarkFailedKeepsJob(w) ==
    /\ pc[w] = "marking"
    /\ jobLock[on[w]] = None
    /\ sub' = [sub EXCEPT ![on[w]].status = Net(@, mem[w].sub.status, "failed")]
    /\ ToIdle(w)
    /\ FreeWorker(w)
    /\ UNCHANGED <<gitVars, job, since, runs, king, review, apiVars, faults>>

MarkFailed(w) ==
    /\ pc[w] = "marking"
    /\ jobLock[on[w]] = None
    /\ sub' = [sub EXCEPT ![on[w]].status = Net(@, mem[w].sub.status, "failed")]
    /\ job' = [job EXCEPT ![on[w]] = Net(@, mem[w].job, "failed")]
    /\ ToIdle(w)
    /\ FreeWorker(w)
    /\ UNCHANGED <<gitVars, since, runs, king, review, apiVars, faults>>

-----------------------------------------------------------------------------
(***************************************************************************)
(* After the commit: the worker acts on the pull request                   *)
(***************************************************************************)
\* GitHub carries out the request, ours or not; a change of state is announced
\* by a delivery whose sender owns the access token.
BotActs(p, st) ==
    /\ gh' = [gh EXCEPT ![p].state = st]
    /\ deliveries' = deliveries \cup {Delivery("closed", p, gh[p].head, "bot")}

\* Variant: a refused merge is not noticed (no raise_for_status).
MergeUnchecked(w) ==
    /\ pc[w] = "merge"
    /\ IF MergeAccepted(on[w], mem[w].sub.head)
       THEN BotActs(on[w], "merged") ELSE UNCHANGED <<gh, deliveries>>
    /\ Goto(w, "crown") /\ UNCHANGED <<on, polled, mem, result>>
    /\ UNCHANGED <<sent, rowVars, king, review, lockVars, apiVars, faults>>

\* merge_pull_request is called whatever the auto-merge setting says.  The answer
\* may be lost after GitHub has merged: the exception skips the king score.
Merge(w) ==
    /\ pc[w] = "merge"
    /\ MergeAccepted(on[w], mem[w].sub.head)
    /\ BotActs(on[w], "merged")
    /\ \/ Goto(w, "crown") /\ UNCHANGED <<on, polled, mem, result>>
       \/ ToIdle(w)
    /\ UNCHANGED <<sent, rowVars, king, review, lockVars, apiVars, faults>>

\* update_king_score and the second commit.
Crown(w) ==
    /\ pc[w] = "crown"
    /\ king' = result[w]
    /\ ToIdle(w)
    /\ UNCHANGED <<gitVars, rowVars, review, lockVars, apiVars, faults>>

\* close_pull_request names no commit.
Close(w) ==
    /\ pc[w] = "close"
    /\ gh[on[w]].state = "open"
    /\ BotActs(on[w], "closed")
    /\ ToIdle(w)
    /\ UNCHANGED <<sent, rowVars, king, review, lockVars, apiVars, faults>>

\* The request is refused or does not get through; exceptions are swallowed.
GiveUp(w) ==
    /\ pc[w] \in {"merge", "close"}
    /\ ToIdle(w)
    /\ UNCHANGED <<gitVars, rowVars, king, review, lockVars, apiVars, faults>>

\* The process dies and is started again: Postgres rolls its transaction back.
WorkerStops(w) ==
    /\ ToIdle(w)
    /\ FreeWorker(w)
    /\ UNCHANGED <<gitVars, rowVars, king, review, apiVars>>

WorkerCrash(w) ==
    /\ pc[w] # "idle"
    /\ faults < MaxFaults /\ faults' = faults + 1
    /\ WorkerStops(w)

-----------------------------------------------------------------------------
(***************************************************************************)
(* Deadlock: worker w holds a job row and waits for its submission row,    *)
(* whose holder waits for that job row.  Postgres aborts either one.  An   *)
(* exception in a worker's except branch leaves process_once and main: the *)
(* process ends.                                                           *)
(***************************************************************************)
Deadlocked(w) ==
    /\ pc[w] = "fetched"
    /\ \/ subLock[on[w]] = Api /\ WritesJob
       \/ subLock[on[w]] \in Workers

DeadlockRollback(w) == Deadlocked(w) /\ Rollback(w)
DeadlockAbort(w) ==
    /\ Deadlocked(w) /\ subLock[on[w]] = Api
    /\ AbortWebhook
    /\ UNCHANGED faults
DeadlockExit(w) ==
    /\ Deadlocked(w)
    /\ \E x \in Workers : subLock[on[w]] = x /\ WorkerStops(x)
    /\ UNCHANGED faults

-----------------------------------------------------------------------------
GitHub == \/ \E p \in PRs : OpenPR(p) \/ Push(p) \/ ClosePR(p) \/ ReopenPR(p) \/ Label(p)
          \/ \E d \in deliveries : Drop(d)

Handler == ReadJob \/ LockSubmission \/ CommitWebhook

Receive == \E d \in deliveries, again \in BOOLEAN : ReadSubmission(d, again)

Process(w) ==
    \/ Poll(w) \/ NoJob(w) \/ Claim(w) \/ Fetch(w) \/ Begin(w) \/ Raise(w)
    \/ \E score \in Score : Finish(w, "completed", score)
    \/ Finish(w, "failed", None)
    \/ RereadJob(w) \/ RereadSubmission(w) \/ MarkSubmission(w) \/ MarkFailed(w)
    \/ Merge(w) \/ Crown(w) \/ Close(w) \/ GiveUp(w)

Resolve(w) == DeadlockRollback(w) \/ DeadlockAbort(w) \/ DeadlockExit(w)

Next ==
    \/ GitHub \/ Receive \/ Handler \/ StartReview \/ PauseReview \/ ApiCrash
    \/ \E w \in Workers : Process(w) \/ Resolve(w) \/ WorkerCrash(w)

Spec == Init /\ [][Next]_vars

\* Both processes keep running, Postgres resolves deadlocks and serves those that
\* wait for a row in their order, GitHub sends what it has to send.  Nobody has to
\* push, review, crash or lose anything.  An evaluation may last for ever: its ssh and
\* rsync have no time limit (EvalRunner).
Fairness ==
    /\ WF_vars(Receive) /\ SF_vars(Handler)
    /\ \A w \in Workers :
         SF_vars(pc[w] # "evaluating" /\ Process(w)) /\ WF_vars(Resolve(w))

FairSpec == Spec /\ Fairness

-----------------------------------------------------------------------------
(***************************************************************************)
(* Properties                                                              *)
(***************************************************************************)
\* The rows, messages and process states are well formed; in particular no
\* transient status ("running", "awaiting_ci") is ever committed.
TypeOK ==
    /\ gh \in [PRs -> [state: {"none", "open", "closed", "merged"}, head: Heads]]
    /\ deliveries \subseteq Event /\ sent \in Nat
    /\ sub \in [PRs -> SubRow] /\ job \in [PRs -> JobStatus] /\ since \in [PRs -> Nat]
    /\ runs \subseteq Run /\ king \in Scores \cup {Threshold} /\ review \in BOOLEAN
    /\ subLock \in [PRs -> Workers \cup {Api, None}]
    /\ jobLock \in [PRs -> Workers \cup {None}]
    /\ pc \in [Workers -> WorkerPc] /\ on \in [Workers -> PRs \cup {None}]
    /\ polled \in [Workers -> Polled] /\ mem \in [Workers -> Objects]
    /\ result \in [Workers -> Score]
    /\ apiPc \in ApiPc /\ req \in Request /\ faults \in Nat

\* Two workers never process the job of one pull request at the same time: the
\* row lock of the claim is the only thing that keeps them apart, since
\* claimed_by and heartbeat_at are never read.
ExclusiveJob ==
    \A w, x \in Workers :
        pc[w] \in InTransaction /\ pc[x] \in InTransaction /\ on[w] = on[x] => w = x

\* As long as a worker processes a job, the committed row still says "queued":
\* whatever happens to the worker or its connection, the job is offered again.
ClaimedIsQueued == \A w \in Workers : pc[w] \in InTransaction => job[on[w]] = "queued"

\* From evaluate_submission's first flush to its commit nobody else changes the
\* submission: webhooks that arrive meanwhile wait for the row.
EvaluationIsolated ==
    [][\A w \in Workers : pc[w] = "evaluating" /\ pc'[w] = "evaluating"
                            => sub'[on[w]] = sub[on[w]]]_vars

\* What is merged on GitHub is a commit that a completed, committed run scored
\* at the threshold or above, however pushes, deliveries, retries and crashes
\* interleave with the evaluation and with the call.
MergedHeadWasEvaluated ==
    \A p \in PRs : gh[p].state = "merged" =>
        \E r \in runs : /\ r.pr = p /\ r.head = gh[p].head /\ r.status = "completed"
                        /\ r.score # None /\ r.score >= Threshold

\* A king score other than the initial one is the score of a run of the merged
\* head of some pull request.
KingIsMerged ==
    king # Threshold =>
        \E p \in PRs : /\ gh[p].state = "merged"
                       /\ \E r \in runs : r.pr = p /\ r.head = gh[p].head /\ r.score = king

\* Processing a "closed" event never leaves the pull request's job queued, even
\* when a worker claims, commits or rolls back between the handler's SELECTs
\* and its UPDATEs.
ClosedIsCancelled ==
    [][CommitWebhook /\ req.ev.kind = "closed" => job'[req.ev.pr] # "queued"]_vars

\* With one worker the king score only grows: the value read before the job was
\* claimed is still the committed one when the promotion is decided.
KingNeverDrops == [][king' >= king]_vars

\* A worker that is idle while reviewing is paused starts no evaluation until it
\* is resumed; one that had polled before the pause may.
PauseHolds ==
    \A w \in Workers :
        [](pc[w] = "idle" /\ []~review => [](pc[w] \notin InTransaction))

\* No evaluation hangs for ever.
EvaluationsEnd == \A w \in Workers : []<>(pc[w] # "evaluating")

\* A job that a worker has taken leaves the queue, evaluated or failed, unless a
\* crash or a loss intervenes: no exception and no deadlock gives it back to be tried
\* for ever.  (It may be queued again later, and a job that nobody takes may wait
\* behind older ones that come back: enqueue keeps created_at.)
TakenIsSettled ==
    EvaluationsEnd =>
        \A w \in Workers, p \in PRs, n \in 0..MaxFaults :
            pc[w] = "claimed" /\ on[w] = p /\ faults = n ~> job[p] # "queued" \/ faults > n

\* If evaluations end, a webhook transaction always does, although it may have to wait
\* for a whole one and for the error path that takes the lock again, and may be party
\* to a deadlock.
HookReturns == EvaluationsEnd => (apiPc # "idle" ~> apiPc = "idle")

\* The committed runs that passed, as Promotion sees them.
Passed ==
    {[pr |-> r.pr, head |-> r.head, score |-> r.score] :
        r \in {x \in runs : x.status = "completed" /\ x.score # None /\ x.score >= Threshold}}

P == INSTANCE Promotion WITH pulls <- gh, passed <- Passed, Commits <- AnyHead

\* The pipeline keeps the promise of Promotion, step by step: every merge is one
\* of an open pull request whose head of that instant had passed, every new king
\* score is that of a commit already merged, and no other step does either,
\* whatever the order of workers, webhooks, pushes and crashes.
PromotionKept == P!Spec

(***************************************************************************)
(* The inductive strengthening of the invariants above                     *)
(***************************************************************************)
\* Past the poll a worker has a pull request, before a promotion it has a score,
\* and a busy handler has a delivery.
Located ==
    /\ \A w \in Workers : pc[w] \notin {"idle", "polled"} => on[w] \in PRs
    /\ \A w \in Workers : pc[w] \in {"merge", "crown"} => result[w] \in Scores
    /\ apiPc # "idle" => req.ev \in Event

\* Who holds which row lock.
LockInv ==
    /\ \A w \in Workers : pc[w] \in InTransaction => jobLock[on[w]] = w
    /\ \A w \in Workers : pc[w] \in {"evaluating", "marking"} => subLock[on[w]] = w
    /\ apiPc = "locked" /\ WritesSub => subLock[req.ev.pr] = Api

\* Between the handler's SELECT of the job and its UPDATE nobody queues it.
CancelInv ==
    apiPc \in {"ready", "locked"} /\ req.job # "queued" => job[req.ev.pr] # "queued"

\* A decided promotion stands on a committed run of the commit it names.
GoodRun(p, h, score) ==
    \E r \in runs : /\ r.pr = p /\ r.head = h /\ r.status = "completed"
                    /\ r.score = score /\ score # None /\ score >= Threshold

PromotionInv ==
    /\ \A w \in Workers : pc[w] = "merge" => GoodRun(on[w], mem[w].sub.head, result[w])
    /\ \A w \in Workers : pc[w] = "crown" =>
           gh[on[w]].state = "merged" /\ GoodRun(on[w], gh[on[w]].head, result[w])

IInv ==
    /\ TypeOK /\ Located /\ LockInv /\ ClaimedIsQueued /\ CancelInv
    /\ PromotionInv /\ MergedHeadWasEvaluated /\ KingIsMerged

(***************************************************************************)
(* What the repository's documents say, and the code does not do           *)
(***************************************************************************)
Settled ==
    deliveries = {} /\ apiPc = "idle" /\ \A w \in Workers : pc[w] = "idle"

\* "queues each submission in Postgres and lets the worker evaluate it": once
\* nothing is under way, a job that counts as done has a run of the head that
\* its submission names.
DoneMeansEvaluated ==
    Settled => \A p \in PRs : job[p] = "completed" =>
                   \E r \in runs : r.pr = p /\ r.head = sub[p].head

\* /api/leaderboard's filter.
Listed(p) == sub[p].status = "completed" /\ sub[p].score # None

\* "evaluated miner submissions should rank on the public leaderboard": once
\* nothing is under way, a merged submission is one that /api/leaderboard lists.
MergedIsListed ==
    Settled => \A p \in PRs : gh[p].state = "merged" => Listed(p)
=============================================================================
