------------------------------ MODULE JobKinds ------------------------------
(***************************************************************************)
(* The validator's other jobs: uploads, the train-then-evaluate pipeline,  *)
(* manual training, provider evaluations, and the administrator who        *)
(* deletes and revokes rows while workers hold them.                       *)
(*                                                                         *)
(* ReviewPipeline models one job kind in full detail, with the pull        *)
(* request it acts on; here all three kinds share the queue, GitHub is     *)
(* left out, and the review gate is open.  Transactions are as there: a    *)
(* worker's claim, flushes and results become visible at its commit, the   *)
(* flush that sets a submission running takes its row lock, and a flush    *)
(* writes the columns that differ from what the session had loaded.        *)
(* A handler that locks several existing rows goes through `req`, one at a *)
(* time; the others are single steps.                                      *)
(***************************************************************************)
EXTENDS Integers, Sequences, FiniteSets

CONSTANTS
    Uploads,       \* submissions of the public form (source "upload")
    PullRequests,  \* submissions with a repository and a pull request number
    Workers,       \* processes running worker.py
    Modes,         \* deployments to look at, out of "train", "eval", "sync"
    None,          \* SQL NULL
    MaxHead,       \* bound: commits of one pull request
    MaxTrains,     \* bound: rows in trains
    MaxEvals,      \* bound: rows in evaluations
    MaxRequests,   \* bound: requests to the API
    MaxFaults      \* bound: exceptions in a worker, and crashes

Subs == Uploads \cup PullRequests

ASSUME SubsAssumption ==
    /\ Uploads \cap PullRequests = {} /\ None \notin Subs
    /\ IsFiniteSet(Subs)
ASSUME ModesAssumption == Modes \subseteq {"train", "eval", "sync"}
ASSUME BoundsAssumption ==
    {MaxHead, MaxTrains, MaxEvals, MaxRequests, MaxFaults} \subseteq Nat /\ MaxTrains > 0

VARIABLES
    mode,    \* PIPELINE_MODE and SYNC_EVAL_ON_SUBMIT, fixed for a deployment
    sub,     \* submissions, trains, evaluations, job_queues: committed rows
    trains,
    evals,
    job,
    tree,    \* workspace_root/github_sources/<submission>
    left,    \* submissions whose workspace holds a results.json
    req,     \* the open request of the API that locks existing rows
    asked,   \* requests so far
    pc,      \* where each worker is in process_once
    on,      \* the job it claimed
    mem,     \* what its session loaded
    faults   \* exceptions and crashes so far

rowVars == <<sub, trains, evals, job>>
fileVars == <<tree, left>>
apiVars == <<req, asked>>
workerVars == <<pc, on, mem>>
vars == <<mode, rowVars, fileVars, apiVars, workerVars, faults>>

-----------------------------------------------------------------------------
(***************************************************************************)
(* Rows                                                                    *)
(***************************************************************************)
Heads == 1..MaxHead
TrainIds == 1..MaxTrains
EvalIds == 1..MaxEvals

\* head is head_sha, train and eval are latest_train_id and latest_eval_id;
\* 0 is NULL.
SubRow == [status: {"absent", "queued", "running", "completed", "failed"}, deleted: BOOLEAN,
           head: 0..MaxHead, train: 0..MaxTrains, eval: 0..MaxEvals]
NoSub == [status |-> "absent", deleted |-> FALSE, head |-> 0, train |-> 0, eval |-> 0]

\* output: output_artifact_id is set.
TrainRow == [sub: Subs \cup {None}, status: {"queued", "completed", "failed"}, output: BOOLEAN]

\* sub is None for a provider evaluation; found: the checkpoint the run was
\* given was on disk when it started.
EvalRow == [sub: Subs \cup {None}, train: 0..MaxTrains, found: BOOLEAN,
            status: {"queued", "completed", "failed"}, deleted: BOOLEAN]

\* Jobs by dedupe_key.
TrainJob(t) == <<"train", t>>
EvalJob(s) == <<"evaluation", s>>
ProviderJob(e) == <<"provider_eval", e>>
Keys == {TrainJob(t) : t \in TrainIds} \cup {EvalJob(s) : s \in Subs}
          \cup {ProviderJob(e) : e \in EvalIds}

\* train is the payload's train_id (with its checkpoint_path), since created_at.
JobRow == [status: {"absent", "queued", "completed", "failed", "cancelled"},
           train: 0..MaxTrains, since: Nat]
NoJob == [status |-> "absent", train |-> 0, since |-> 0]

Memory == [row: SubRow, train: 0..MaxTrains, job: {"", "queued", "completed", "failed", "cancelled"},
           found: BOOLEAN]
NoMemory == [row |-> NoSub, train |-> 0, job |-> "", found |-> FALSE]

Request == [op: {"", "submit", "delete", "sync"}, stage: {"idle", "read", "locked"},
            sub: Subs \cup {None}, head: 0..MaxHead, row: SubRow, seen: SUBSET Keys]
NoRequest == [op |-> "", stage |-> "idle", sub |-> None, head |-> 0, row |-> NoSub, seen |-> {}]

\* submission_id of a job's row.
SubOf(k) == CASE k[1] = "evaluation"    -> k[2]
              [] k[1] = "train"         -> trains[k[2]].sub
              [] k[1] = "provider_eval" -> None

JobsOf(s) == {k \in Keys : job[k].status # "absent" /\ SubOf(k) = s}

\* A column as a flush leaves it: only a net change is written.
Net(current, loaded, wanted) == IF wanted = loaded THEN current ELSE wanted

\* Variant: the row is written as the session holds it.
WholeRow(current, loaded, wanted) == wanted

NetRow(current, loaded, wanted) ==
    [status  |-> Net(current.status, loaded.status, wanted.status),
     deleted |-> Net(current.deleted, loaded.deleted, wanted.deleted),
     head    |-> Net(current.head, loaded.head, wanted.head),
     train   |-> Net(current.train, loaded.train, wanted.train),
     eval    |-> Net(current.eval, loaded.eval, wanted.eval)]

-----------------------------------------------------------------------------
(***************************************************************************)
(* Row locks                                                               *)
(***************************************************************************)
InTransaction == {"claimed", "fetched", "running"}

JobLocked(k) == \E w \in Workers : pc[w] \in InTransaction /\ on[w] = k

SubLocked(s) ==
    \/ \E w \in Workers : pc[w] = "running" /\ SubOf(on[w]) = s
    \/ req.stage = "locked" /\ req.sub = s

EvalLocked(e) == \E w \in Workers : pc[w] = "running" /\ on[w] = ProviderJob(e)

Init ==
    /\ mode \in Modes
    /\ sub = [s \in Subs |-> NoSub]
    /\ trains = <<>> /\ evals = <<>>
    /\ job = [k \in Keys |-> NoJob]
    /\ tree = [s \in PullRequests |-> [head |-> 0, outs |-> {}]]
    /\ left = {}
    /\ req = NoRequest /\ asked = 0
    /\ pc = [w \in Workers |-> "idle"]
    /\ on = [w \in Workers |-> TrainJob(1)]
    /\ mem = [w \in Workers |-> NoMemory]
    /\ faults = 0

-----------------------------------------------------------------------------
(***************************************************************************)
(* queue.py                                                                *)
(***************************************************************************)
Later == 1 + Cardinality({k \in Keys : job[k].status # "absent"})

\* Variant: a row that is there already is taken to be on its way.
EnqueuedOnce(jobs, k, seen, t) ==
    IF seen = "absent"
    THEN [jobs EXCEPT ![k] = [status |-> "queued", train |-> t, since |-> Later]]
    ELSE jobs

\* The row k of jobs after an enqueue whose SELECT found it with status `seen`:
\* an existing row is queued again, whatever its status, with the new payload;
\* it keeps its place in the queue.
Enqueued(jobs, k, seen, t) ==
    [jobs EXCEPT ![k] =
        IF seen = "absent"
        THEN [status |-> "queued", train |-> t, since |-> Later]
        ELSE [status |-> Net(@.status, seen, "queued"), train |-> t, since |-> @.since]]

NewTrain(s) == Append(trains, [sub |-> s, status |-> "queued", output |-> FALSE])

\* enqueue_submission_pipeline_job in train mode: a new TrainRun, and the
\* submission starts over.
TrainStarted(row) == [row EXCEPT !.status = "queued", !.train = Len(trains) + 1, !.eval = 0]

-----------------------------------------------------------------------------
(***************************************************************************)
(* The API                                                                 *)
(***************************************************************************)
Ask == asked < MaxRequests /\ asked' = asked + 1

\* POST /submit without a pull request: a new submission, and its first job.
\* In sync mode the handler commits it and goes on to evaluate it.
SubmitUpload(s) ==
    /\ Ask
    /\ sub[s].status = "absent"
    /\ LET row == [NoSub EXCEPT !.status = "queued"] IN
       CASE mode = "train" ->
              /\ Len(trains) < MaxTrains
              /\ trains' = NewTrain(s)
              /\ sub' = [sub EXCEPT ![s] = TrainStarted(row)]
              /\ job' = Enqueued(job, TrainJob(Len(trains) + 1), "absent", 0)
              /\ UNCHANGED req
         [] mode = "eval" ->
              /\ sub' = [sub EXCEPT ![s] = row]
              /\ job' = Enqueued(job, EvalJob(s), "absent", 0)
              /\ UNCHANGED <<trains, req>>
         [] mode = "sync" ->
              /\ req = NoRequest
              /\ sub' = [sub EXCEPT ![s] = row]
              /\ req' = [NoRequest EXCEPT !.op = "sync", !.stage = "locked", !.sub = s]
              /\ UNCHANGED <<trains, job>>
    /\ UNCHANGED <<mode, evals, fileVars, workerVars, faults>>

\* POST /submit with a pull request, POST /webhooks/github/submission: the
\* submission is read; a pull request only moves on to later commits.
SubmitPR(s, h) ==
    /\ Ask
    /\ req = NoRequest /\ h >= sub[s].head
    /\ req' = [NoRequest EXCEPT !.op = "submit", !.stage = "read", !.sub = s, !.head = h,
                                !.row = sub[s]]
    /\ UNCHANGED <<mode, rowVars, fileVars, workerVars, faults>>

\* DELETE /admin/submissions/{id}: the submission and its queued jobs are read.
DeleteSubmission(s) ==
    /\ Ask
    /\ req = NoRequest /\ sub[s].status # "absent"
    /\ req' = [NoRequest EXCEPT !.op = "delete", !.stage = "read", !.sub = s, !.row = sub[s],
                                !.seen = {k \in JobsOf(s) : job[k].status = "queued"}]
    /\ UNCHANGED <<mode, rowVars, fileVars, workerVars, faults>>

\* Their first flush updates the submission; a submit then reads the job it
\* will queue (in eval mode: a train job is always new).
LockSubmission ==
    /\ req.stage = "read"
    /\ ~SubLocked(req.sub)
    /\ req' = [req EXCEPT !.stage = "locked",
                          !.seen = IF req.op = "submit"
                                   THEN {k \in {EvalJob(req.sub)} :
                                           mode = "eval" /\ job[k].status = "queued"}
                                   ELSE @]
    /\ UNCHANGED <<mode, rowVars, fileVars, asked, workerVars, faults>>

\* The jobs it must lock to commit.
Wants == CASE req.op = "delete" -> req.seen
           [] req.op = "submit" /\ mode = "eval" -> {EvalJob(req.sub)}
           [] OTHER -> {}

CommitDelete ==
    /\ req.op = "delete" /\ req.stage = "locked"
    /\ \A k \in Wants : ~JobLocked(k)
    /\ sub' = [sub EXCEPT ![req.sub].deleted = TRUE]
    /\ job' = [k \in Keys |-> IF k \in req.seen THEN [job[k] EXCEPT !.status = "cancelled"]
                              ELSE job[k]]
    /\ req' = NoRequest
    /\ UNCHANGED <<mode, trains, evals, fileVars, asked, workerVars, faults>>

\* Sync mode commits no job (and evaluates POST /submit's pull requests as it
\* does uploads).
CommitSubmit ==
    /\ req.op = "submit" /\ req.stage = "locked"
    /\ \A k \in Wants : ~JobLocked(k)
    /\ LET s == req.sub
           k == EvalJob(s)
           row == [req.row EXCEPT !.status = "queued", !.head = req.head, !.eval = 0]
           seen == IF k \in req.seen THEN "queued" ELSE job[k].status
       IN  CASE mode = "train" ->
                  /\ Len(trains) < MaxTrains
                  /\ trains' = NewTrain(s)
                  /\ sub' = [sub EXCEPT ![s] = NetRow(@, req.row, TrainStarted(row))]
                  /\ job' = Enqueued(job, TrainJob(Len(trains) + 1), "absent", 0)
             [] mode = "eval" ->
                  /\ sub' = [sub EXCEPT ![s] = NetRow(@, req.row, row)]
                  /\ job' = Enqueued(job, k, seen, 0)
                  /\ UNCHANGED trains
             [] mode = "sync" ->
                  /\ sub' = [sub EXCEPT ![s] = NetRow(@, req.row, row)]
                  /\ UNCHANGED <<trains, job>>
    /\ req' = IF mode = "sync" THEN [NoRequest EXCEPT !.op = "sync", !.stage = "locked",
                                                      !.sub = req.sub]
              ELSE NoRequest
    /\ UNCHANGED <<mode, evals, fileVars, asked, workerVars, faults>>

\* The inline evaluation of sync mode, of the uploaded checkpoint...
FinishSync(status) ==
    /\ req.op = "sync" /\ Len(evals) < MaxEvals
    /\ evals' = Append(evals, [sub |-> req.sub, train |-> 0, found |-> TRUE, status |-> status,
                               deleted |-> FALSE])
    /\ sub' = [sub EXCEPT ![req.sub] = [@ EXCEPT !.status = status, !.eval = Len(evals) + 1]]
    /\ left' = IF status = "completed" THEN left \cup {req.sub} ELSE left
    /\ req' = NoRequest
    /\ UNCHANGED <<mode, trains, job, tree, asked, workerVars, faults>>

\* ...which may raise, or lose its process: what was committed before stays.
SyncRaises ==
    /\ req.op = "sync"
    /\ req' = NoRequest
    /\ UNCHANGED <<mode, rowVars, fileVars, asked, workerVars, faults>>

\* POST /admin/submissions/{id}/revoke: the deletion is undone, and no more.
RevokeSubmission(s) ==
    /\ Ask
    /\ sub[s].status # "absent" /\ ~SubLocked(s)
    /\ sub' = [sub EXCEPT ![s].deleted = FALSE]
    /\ UNCHANGED <<mode, trains, evals, job, fileVars, req, workerVars, faults>>

\* POST /api/trains, POST /admin/trains, with or without a submission.
CreateTrain(s) ==
    /\ Ask
    /\ Len(trains) < MaxTrains
    /\ s # None => sub[s].status # "absent" /\ ~SubLocked(s)
    /\ trains' = NewTrain(s)
    /\ job' = Enqueued(job, TrainJob(Len(trains) + 1), "absent", 0)
    /\ sub' = IF s = None THEN sub ELSE [sub EXCEPT ![s].train = Len(trains) + 1]
    /\ UNCHANGED <<mode, evals, fileVars, req, workerVars, faults>>

\* POST /admin/provider-evaluations, one benchmark and one route.
CreateProviderEval ==
    /\ Ask
    /\ Len(evals) < MaxEvals
    /\ evals' = Append(evals, [sub |-> None, train |-> 0, found |-> TRUE, status |-> "queued",
                               deleted |-> FALSE])
    /\ job' = Enqueued(job, ProviderJob(Len(evals) + 1), "absent", 0)
    /\ UNCHANGED <<mode, sub, trains, fileVars, req, workerVars, faults>>

\* DELETE /admin/evaluations/{id}: standalone runs only; the job stays queued.
DeleteEval(e) ==
    /\ Ask
    /\ evals[e].sub = None /\ ~EvalLocked(e)
    /\ evals' = [evals EXCEPT ![e].deleted = TRUE]
    /\ UNCHANGED <<mode, sub, trains, job, fileVars, req, workerVars, faults>>

\* POST /admin/evaluations/{id}/revoke.
RevokeEval(e) ==
    /\ Ask
    /\ evals[e].deleted /\ ~EvalLocked(e)
    /\ evals' = [evals EXCEPT ![e].deleted = FALSE]
    /\ UNCHANGED <<mode, sub, trains, job, fileVars, req, workerVars, faults>>

-----------------------------------------------------------------------------
(***************************************************************************)
(* A worker: process_once                                                  *)
(***************************************************************************)
Goto(w, there) == pc' = [pc EXCEPT ![w] = there]

ToIdle(w) ==
    /\ Goto(w, "idle")
    /\ on' = [on EXCEPT ![w] = TrainJob(1)]
    /\ mem' = [mem EXCEPT ![w] = NoMemory]

Loaded(k) == IF SubOf(k) = None THEN NoSub ELSE sub[SubOf(k)]

\* The oldest queued job that nobody has locked, and its submission.
Claim(w) ==
    /\ pc[w] = "idle"
    /\ LET free == {k \in Keys : job[k].status = "queued" /\ ~JobLocked(k)} IN
       \E k \in free :
         /\ \A j \in free : job[k].since <= job[j].since
         /\ on' = [on EXCEPT ![w] = k]
         /\ mem' = [mem EXCEPT ![w] = [row |-> Loaded(k), train |-> job[k].train,
                                       job |-> "queued", found |-> FALSE]]
    /\ Goto(w, "claimed")
    /\ UNCHANGED <<mode, rowVars, fileVars, apiVars, faults>>

\* fetch_github_pr_source: the submission's directory is removed and replaced
\* by the loaded head.  No lock is held on the submission yet.
Fetch(w) ==
    /\ pc[w] = "claimed" /\ SubOf(on[w]) \in PullRequests
    /\ tree' = [tree EXCEPT ![SubOf(on[w])] = [head |-> mem[w].row.head, outs |-> {}]]
    /\ Goto(w, "fetched")
    /\ UNCHANGED <<mode, rowVars, left, apiVars, on, mem, faults>>

\* Next it will flush the submission (or the provider evaluation) as running.
AtFlush(w) ==
    \/ pc[w] = "fetched"
    \/ pc[w] = "claimed" /\ SubOf(on[w]) \notin PullRequests

\* A trained checkpoint lies in the tree it was trained in: for an upload the
\* extracted archive, for a pull request the fetched source.
Found(k, t) == ~ /\ SubOf(k) \in PullRequests /\ k[1] = "evaluation" /\ t # 0
                 /\ t \notin tree[SubOf(k)].outs

Begin(w) ==
    /\ AtFlush(w)
    /\ SubOf(on[w]) # None => ~SubLocked(SubOf(on[w]))
    /\ mem' = [mem EXCEPT ![w].found = Found(on[w], mem[w].train)]
    /\ Goto(w, "running")
    /\ UNCHANGED <<mode, rowVars, fileVars, apiVars, on, faults>>

\* Variant: the job's own status is forgotten.
SettleRunning(k, status) == [job EXCEPT ![k].status = "running"]

\* The worker's results become the committed rows, and the locks are free.
Settle(k, status) == [job EXCEPT ![k].status = status]

\* run_train_job and the rest of the branch.  The submission is flushed as
\* running before the command starts, so a failure is written whatever was
\* loaded.  A completed train queues the evaluation of its checkpoint, also
\* over an evaluation of an earlier one.
FinishTrain(w, status) ==
    /\ pc[w] = "running" /\ on[w][1] = "train"
    /\ LET t == on[w][2]
           s == trains[t].sub
           k == EvalJob(s)
           done == status = "completed"
           flushed == NetRow(sub[s], mem[w].row,
                             [mem[w].row EXCEPT !.status = "running", !.train = t])
       IN  /\ s # None /\ done => ~JobLocked(k)
           /\ trains' = [trains EXCEPT ![t] = [sub |-> s, status |-> status, output |-> done]]
           /\ sub' = IF s = None THEN sub
                     ELSE [sub EXCEPT ![s] = IF done THEN flushed
                                             ELSE [flushed EXCEPT !.status = "failed"]]
           /\ job' = IF s # None /\ done
                     THEN Enqueued(Settle(on[w], status), k, job[k].status, t)
                     ELSE Settle(on[w], status)
           /\ tree' = IF done /\ s \in PullRequests
                      THEN [tree EXCEPT ![s].outs = @ \cup {t}] ELSE tree
    /\ ToIdle(w)
    /\ UNCHANGED <<mode, evals, left, apiVars, faults>>

\* evaluate_submission: without its checkpoint a run has no results but those
\* an earlier run of the submission left behind.
FinishEval(w, status) ==
    /\ pc[w] = "running" /\ on[w][1] = "evaluation"
    /\ Len(evals) < MaxEvals
    /\ LET s == on[w][2]
           row == [mem[w].row EXCEPT !.eval = Len(evals) + 1]
       IN  /\ status = "completed" => mem[w].found \/ s \in left
           /\ evals' = Append(evals, [sub |-> s, train |-> mem[w].train, found |-> mem[w].found,
                                      status |-> status, deleted |-> FALSE])
           /\ sub' = [sub EXCEPT ![s] = [NetRow(@, mem[w].row, row) EXCEPT !.status = status]]
           /\ left' = IF status = "completed" THEN left \cup {s} ELSE left
    /\ job' = Settle(on[w], status)
    /\ ToIdle(w)
    /\ UNCHANGED <<mode, trains, tree, apiVars, faults>>

\* evaluate_provider_route returns a completed or a failed run.
FinishProviderEval(w, status) ==
    /\ pc[w] = "running" /\ on[w][1] = "provider_eval"
    /\ evals' = [evals EXCEPT ![on[w][2]].status = status]
    /\ job' = Settle(on[w], status)
    /\ ToIdle(w)
    /\ UNCHANGED <<mode, sub, trains, fileVars, apiVars, faults>>

Rollback(w) ==
    /\ Goto(w, "failing")
    /\ UNCHANGED <<mode, rowVars, fileVars, apiVars, on, mem>>

\* Fetching, training or evaluating raises.
Raise(w) ==
    /\ pc[w] \in InTransaction
    /\ faults < MaxFaults /\ faults' = faults + 1
    /\ Rollback(w)

\* The except branch loads the rows again...
Reread(w) ==
    /\ pc[w] = "failing"
    /\ mem' = [mem EXCEPT ![w] = [row |-> Loaded(on[w]), train |-> 0, job |-> job[on[w]].status,
                                  found |-> FALSE]]
    /\ Goto(w, "marking")
    /\ UNCHANGED <<mode, rowVars, fileVars, apiVars, on, faults>>

Marked(k, rows, i) == IF k THEN [rows EXCEPT ![i].status = "failed"] ELSE rows

\* Variant: the job alone is marked.
MarkJob(w) ==
    /\ pc[w] = "marking" /\ ~JobLocked(on[w])
    /\ job' = Settle(on[w], "failed")
    /\ ToIdle(w)
    /\ UNCHANGED <<mode, sub, trains, evals, fileVars, apiVars, faults>>

\* ...and marks them all failed: the job, its train or provider evaluation and
\* its submission.  Another worker may have run the job in between; a train or
\* provider job is never queued again, so its run cannot have left "failed".
MarkFailed(w) ==
    /\ pc[w] = "marking"
    /\ ~JobLocked(on[w])
    /\ LET k == on[w]
           s == SubOf(k)
       IN  /\ s # None => ~SubLocked(s)
           /\ job' = Settle(k, Net(job[k].status, mem[w].job, "failed"))
           /\ trains' = Marked(k[1] = "train", trains, k[2])
           /\ evals' = Marked(k[1] = "provider_eval", evals, k[2])
           /\ sub' = IF s = None THEN sub
                     ELSE [sub EXCEPT ![s].status = Net(@, mem[w].row.status, "failed")]
    /\ ToIdle(w)
    /\ UNCHANGED <<mode, fileVars, apiVars, faults>>

\* The process dies and is started again; what it fetched or trained stays.
Crash(w) ==
    /\ pc[w] # "idle"
    /\ faults < MaxFaults /\ faults' = faults + 1
    /\ ToIdle(w)
    /\ UNCHANGED <<mode, rowVars, fileVars, apiVars>>

-----------------------------------------------------------------------------
(***************************************************************************)
(* Deadlocks, which Postgres resolves: w holds its job and waits for its   *)
(* submission; the submission's holder waits for that job.                 *)
(***************************************************************************)
DeadlockedWithApi(w) ==
    AtFlush(w) /\ req.stage = "locked" /\ req.sub = SubOf(on[w]) /\ on[w] \in Wants

DeadlockedWithTrain(w, x) ==
    /\ AtFlush(w) /\ pc[x] = "running" /\ on[x][1] = "train"
    /\ SubOf(on[x]) # None /\ on[w] = EvalJob(SubOf(on[x]))

ResolveWithApi(w) ==
    /\ DeadlockedWithApi(w)
    /\ \/ Rollback(w)
       \/ req' = NoRequest /\ UNCHANGED <<mode, rowVars, fileVars, asked, workerVars>>
    /\ UNCHANGED faults

ResolveWithTrain(w, x) ==
    /\ DeadlockedWithTrain(w, x)
    /\ Rollback(w) \/ Rollback(x)
    /\ UNCHANGED faults

-----------------------------------------------------------------------------
Client ==
    \/ \E s \in Uploads : SubmitUpload(s)
    \/ \E s \in PullRequests, h \in Heads : SubmitPR(s, h)
    \/ \E s \in Subs \cup {None} : CreateTrain(s)

Admin ==
    \/ \E s \in Subs : DeleteSubmission(s) \/ RevokeSubmission(s)
    \/ CreateProviderEval
    \/ \E e \in DOMAIN evals : DeleteEval(e) \/ RevokeEval(e)

Outcome == {"completed", "failed"}

Handler ==
    \/ LockSubmission \/ CommitDelete \/ CommitSubmit \/ SyncRaises
    \/ \E status \in Outcome : FinishSync(status)

Process(w) ==
    \/ Claim(w) \/ Fetch(w) \/ Begin(w) \/ Raise(w) \/ Reread(w) \/ MarkFailed(w)
    \/ \E status \in Outcome :
         FinishTrain(w, status) \/ FinishEval(w, status) \/ FinishProviderEval(w, status)

Resolve(w) == ResolveWithApi(w) \/ \E x \in Workers : ResolveWithTrain(w, x)

Next ==
    \/ Client \/ Admin \/ Handler
    \/ \E w \in Workers : Process(w) \/ Resolve(w) \/ Crash(w)

Spec == Init /\ [][Next]_vars

-----------------------------------------------------------------------------
(***************************************************************************)
(* Properties                                                              *)
(***************************************************************************)
\* Types: what the committed rows, the files and the processes can hold
\* ("awaiting_ci" is left to the webhook of ReviewPipeline).
TypeOK ==
    /\ mode \in Modes
    /\ sub \in [Subs -> SubRow]
    /\ trains \in Seq(TrainRow) /\ Len(trains) <= MaxTrains
    /\ evals \in Seq(EvalRow) /\ Len(evals) <= MaxEvals
    /\ job \in [Keys -> JobRow]
    /\ tree \in [PullRequests -> [head: 0..MaxHead, outs: SUBSET TrainIds]]
    /\ left \subseteq Subs
    /\ req \in Request
    /\ asked \in 0..MaxRequests
    /\ pc \in [Workers -> InTransaction \cup {"idle", "failing", "marking"}]
    /\ on \in [Workers -> Keys]
    /\ mem \in [Workers -> Memory]
    /\ faults \in 0..MaxFaults

\* A job that ended and the run it was for ended the same way, whatever worker
\* marked it last: the admin pages show the one, the public pages the other.
\* And a run evaluates only a checkpoint that its own submission's training
\* stored.
RunsAgreeWithJobs ==
    /\ \A t \in DOMAIN trains :
         job[TrainJob(t)].status \in Outcome => trains[t].status = job[TrainJob(t)].status
    /\ \A e \in DOMAIN evals :
         job[ProviderJob(e)].status \in Outcome => evals[e].status = job[ProviderJob(e)].status
    /\ \A e \in DOMAIN evals :
         evals[e].train # 0 => /\ trains[evals[e].train].output
                              /\ trains[evals[e].train].sub = evals[e].sub

\* The submission s waits only for a job that is still to come, and shows its own
\* result.
NotStranded(s) ==
    /\ mode # "sync" /\ sub[s].status \in {"queued", "running"}
         => \E k \in JobsOf(s) : job[k].status # "completed"
    /\ sub[s].status = "completed"
         => /\ sub[s].eval \in DOMAIN evals
            /\ evals[sub[s].eval].sub = s
            /\ evals[sub[s].eval].status = "completed"

\* An upload that still says queued or running has a job that did not complete
\* (queued, cancelled, or failed): no finished chain of jobs leaves it behind,
\* although a later training queues the evaluation's row over an earlier one.
\* And an upload that says completed shows a completed run of its own.
UploadsNotStranded == \A s \in Uploads : NotStranded(s)

\* Only a revocation undoes a deletion: no worker that loaded the row before the
\* deletion, and no new upload of the pull request, brings it back to the
\* leaderboard.
DeletionSticks ==
    [][/\ \A s \in Subs :
            sub[s].deleted /\ ~sub'[s].deleted => RevokeSubmission(s)
       /\ \A e \in DOMAIN evals :
            evals[e].deleted /\ ~evals'[e].deleted => RevokeEval(e)]_vars

\* The README on train mode: "the worker trains a router on the server, and the
\* resulting checkpoint is evaluated afterward".  What a run is given after a
\* training is still on disk.
TrainedCheckpointIsEvaluated ==
    \A e \in DOMAIN evals : evals[e].train # 0 => evals[e].found
=============================================================================
