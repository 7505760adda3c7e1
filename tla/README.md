# Minirouter in TLA+

Minirouter is a competition for small *routers*: a miner opens a pull request with
a trained checkpoint, a validator evaluates it against a benchmark on a GPU box,
and the checkpoint that beats the reigning score (the *king*) is merged.  The
repository holds the router and its training (`src/src/trinity`), the validator
back end (`src/validator`), a web site (`src/web`) and the workflow that labels
pull requests (`src/.github`).

These modules model the parts of it whose correctness depends on the order in
which things happen.  The TLC configurations check them on small instances, and
the proof modules prove for every value of the constants what matters most.

## 1. The system and its hard parts

| Component | State it keeps | Operations | Talks to | What is hard | What makes it correct |
|---|---|---|---|---|---|
| Pull request review (`worker.py`, `services/queue.py`, `services/github.py`, `services/review_control.py`, `api/routes.py`, `models.py`) | rows of `submissions`, `job_queues`, `evaluations`, `review_control`, `competition_runtime_config`; row locks; the objects of each open session | webhook, claim, evaluate, fail, merge, close, crown, start and pause the review | Postgres (shared rows), GitHub (webhooks in, REST out) | transactions that read before they wait; several workers; deliveries lost, repeated, late; crashes; deadlocks between lock orders | one worker per job; a crash gives the job back; what is merged was evaluated; a closed pull request is not evaluated; the king score belongs to something merged |
| Evaluation runner (`services/eval_runner.py`) | a workspace of files on this machine and one on the GPU box; the run and submission objects | set up over ssh, run, stream progress, copy back, fall back to the CPU, parse the results | ssh and rsync, `trinity.eval`, the session of the worker | timeouts, processes that outlive their ssh client, files left by earlier evaluations, crashes that roll rows back but not files | a completed run reports the result of its own checkpoint; a running command cannot keep the worker for ever |
| Upload, pipeline choice, job kinds (`api/routes.py`, `services/queue.py`, `services/artifacts.py`, `services/storage.py`, `services/train_runner.py`, `services/source_fetch.py`) | artifacts, `trains`, jobs of kinds `evaluation`, `train`, `provider_eval`; files | submit, choose the pipeline, train then evaluate, delete by an admin | the queue above | one job feeding another, deletion of what is being worked on | rows of job, run and submission agree; no upload is left behind; a deletion holds; what was trained is what is evaluated |
| Admin accounts and sessions (`services/admin_auth.py`) | `admin_users`, `admin_sessions` | bootstrap, log in, require, revoke | API requests | expiry against use, two first start-ups | an expired or revoked session opens nothing |
| Runtime configuration (`services/runtime_config.py`, `core/config.py`) | one row of defaults and the king score | normalise, edit, apply to the settings | worker and API | a row edited while a worker holds what it read | edits do not lose the king score |
| Coordination session (`orchestration/session.py`, `roles/`, `coordinator/policy.py`) | transcript, turn counter, the policy's weights | route, call, verify, stop | LLM pool | which turn's answer is committed; weights that change between awaits | an accepted answer is the latest one the verifier saw; each turn is decided by the candidate it scores |
| LLM pool (`llm/`) | a semaphore per provider, a cost ledger | chat with retries | HTTP providers | many coroutines, errors, retries, cancellation | the limit of concurrent calls; permits always come back; one ledger line per turn |
| Evolution (`optim/`, `train.py`) | the distribution of sep-CMA-ES, the best so far, three files | ask, evaluate, tell, save, stop early | fitness, pool, graders | partial failure of a generation; a crash between or inside the writes; noise between candidates | every candidate gets its fitness; candidates are compared on the same tasks; the files belong together |
| Fugu workflows and GRPO (`fugu/`) | parsed workflow, results by step, a cost meter, the groups of a batch | parse, execute with access lists and recursion, vote, sample groups, update | pool | cost cap under concurrency, recursion, partial failure | what the gate admits runs as written; each call is charged once; nothing begins past the cap |
| Rewards, datasets, evaluation command (`orchestration/reward.py`, `orchestration/dataset.py`, `eval.py`) | none, or a list of results | commit an answer, extract, compare | pool | two notions of an answer that must agree; several answers in one trajectory | an answer that was given is graded; the order of parallel calls does not matter |
| Oracle ceiling (`scripts/oracle_ceiling.py`) | the matrix of grades, the spend | collect, analyse | pool, graders | the cost cap under concurrency; selection on the samples that are scored | the cap ends the collection; the estimates are ordered; models that answer alike leave no headroom |
| Neural encoder, head, SVF (`coordinator/`) | tensors | forward, decode a parameter vector | – | floating point | out of reach here |
| Web site, read API, mock data | none | present rows | API | – | – |

`PROJECT.json` lists each component with its status and every hazard at the line
where it bites.

## 2. The modules

| Module | Kind |
|---|---|
| `ReviewPipeline` | webhook handler, workers, rows and GitHub |
| `MCReviewPipeline` | its instances for TLC |
| `ReviewPipelineProofs` | its theorems |
| `EvalRunner` | the evaluation of a submission and the files it leaves |
| `EvalRunnerProofs` | its theorems |
| `LLMPool` | calls of the pool clients, semaphores, the cost ledger |
| `Coordination` | trajectories and the fitness of candidates, composed with `LLMPool` |
| `CoordinationProofs` | the theorems of both |
| `Promotion` | the abstract competition, which `ReviewPipeline` implements |
| `JobKinds`, `MCJobKinds` | the queue with all job kinds, uploads, administrators |
| `JobKindsProofs` | its theorems |
| `FuguWorkflow` | parse gate, workflow runs, prices and grades: operators |
| `FuguJobs`, `MCFuguJobs` | `evaluate()` and the GRPO loop over `FuguWorkflow` |
| `FuguJobsProofs` | its theorems |
| `Rewards` | the graders: operators |
| `Grading` | one trajectory and its grade, over `Rewards` |
| `Training` | the loop of `train.py`, over `Rewards` |
| `TrainingProofs` | its theorems |
| `Ceiling` | the oracle ceiling, over `Rewards` |
| `Experiments`, `MCExperiments` | the three programs that grade, in one instance |
| `ExperimentsProofs` | the theorems of `Ceiling`, `Grading` and `Experiments` |
| `SumsProofs` | sums and products over finite sets, quotients: the lemmas the others cite |

### ReviewPipeline

**State.** `gh` and `deliveries` stand for GitHub.  `sub`, `job`, `runs`, `king`,
`review` are the *committed* rows.  `subLock` and `jobLock` are Postgres row
locks.  Each worker has a place in `process_once` (`pc`), the pull request it
claimed (`on`), what it read before it claimed (`polled`), the ORM objects in its
session (`mem`) and the reported score (`result`).  The API process has one
webhook transaction (`apiPc`, `req`).

**Grain of atomicity.**  `db.py` builds sessions with `autoflush=False` on
Postgres at READ COMMITTED, so a transaction is several steps of the model:

* each SELECT reads the committed rows of its own instant (`ReadSubmission`,
  `ReadJob`, `Poll`, `Fetch`, `RereadJob`, `RereadSubmission`);
* the first UPDATE of a row waits for its lock (`LockSubmission`, `Begin`,
  `MarkSubmission`; `Claim` skips locked rows as `SKIP LOCKED` does);
* an UPDATE sets the columns whose value differs from what the session loaded,
  and only these (`NetChange`).  This is what SQLAlchemy does for an attribute
  that is assigned the value it had, and it is why an assignment can be lost;
* a commit publishes everything at once and frees the locks; a rollback or a
  lost connection frees them and publishes nothing.

The statuses `running` and `awaiting_ci` are set and replaced within one
transaction, so no other process ever sees them; `TypeOK` says so.

**Correspondence.**

| Code | Actions |
|---|---|
| `github_webhook` with `create_pr_submission`, `enqueue_submission_job`, `cancel_submission_jobs` | `ReadSubmission`, `ReadJob`, `LockSubmission`, `CommitWebhook`; `AbortWebhook` |
| `admin_start_review`, `admin_pause_review` | `StartReview`, `PauseReview` |
| `process_once`: polling and claim | `Poll`, `NoJob`, `Claim` |
| fetch of the source, `evaluate_submission` | `Fetch`, `Begin`, `Finish` |
| the except branch | `Raise`, `RereadJob`, `RereadSubmission`, `MarkSubmission`, `MarkFailed` |
| promotion after the commit | `Merge`, `Crown`, `Close`, `GiveUp` |
| death of a process, deadlock detection | `WorkerCrash`, `ApiCrash`, `DeadlockRollback`, `DeadlockAbort`, `DeadlockExit` |
| GitHub and its users (outside the repository) | `OpenPR`, `Push`, `ClosePR`, `ReopenPR`, `Label`, `Drop` |

The API process is one uvicorn process whose webhook handler is a coroutine
without an `await` between its first SELECT and its commit; so at most one webhook
transaction is open.  The handler may be given a delivery again at any time
(`again` in `ReadSubmission`), since GitHub lets anyone with access redeliver.

The evaluation is one outcome here: completed with a score, completed without
one, or failed.  `MergedHeadWasEvaluated` is about the run that names the head;
whether the score in that run was measured on the head's own checkpoint is a
question about files, and `EvalRunner` answers it.

### EvalRunner

**State.** `head`, `queued`, `sub`, `last` are the committed job, submission and
latest evaluation.  `run` is the `EvaluationRun` object with the locals of
`evaluate_submission`; `pc` says how far it got.  `file` is `results.json` in the
workspace of this machine and in that of the GPU box, `procs` the evaluation
commands alive on either.  A score is named by the commit it was measured on, so
that a result reported for another commit shows.

| Code | Actions |
|---|---|
| the webhook, as far as it queues the submission again | `Ask` |
| `evaluate_submission` up to the first attempt | `Start`, `NoCheckpoint` |
| `_remote_attempt` | `Connect`, `ConnectFails`, `Disconnect`, `Timeout`, `CopyBack`, `CopyFails` |
| the error branches and the fallback | `RemoteSucceeded`, `GiveUp`, `FallBack` |
| the local attempt (`_run_bash_stream`) | `StartLocal`, `Timeout`, `LocalFails`, `LocalEnds` |
| `_prepare_results` and what `process_once` commits | `ParseMissing`, `ParseTorn`, `Parse` |
| `trinity.eval` as a process | `BeginWrite`, `EndWrite`, `Die` |
| death of the worker | `Crash` |

What a kill or a lost connection does to the command behind the client is not
determined by the code: `LoseOwn` lets it die or live on.  Neither workspace is
ever emptied and a rollback does not touch files, so `file` and `procs` survive
`Crash` and the next `Start`.

### LLMPool and Coordination

Training and evaluation are one asyncio event loop.  `evaluate_population` writes
each candidate's parameters into the one policy and scores it on a minibatch;
`gather_in_batches` runs the minibatch's trajectories some at a time; each
trajectory decides a turn with the policy, calls an LLM through the pool, and goes
on until a Verifier's accepted verdict or the last turn.  What runs between two
awaits is one action.

`LLMPool` is the pool's side and `Coordination` extends it.  A trajectory has one
call at a time, so `call` is a function of the task.

**State.** `call` is where each task's `chat()` is suspended, `permits` the value of
each provider's semaphore, `ledger` the lines written to the cost ledger.  `theta`
is the candidate whose parameters the policy holds, `first` the loop variable of
`gather_in_batches`, `traj` the trajectory of each task.  `by` (who decided a turn)
and the split of `ledger` by task are history; `ledger` restarts with every
candidate.

| Code | Actions |
|---|---|
| `_do`: the semaphore, the attempt | `Enter`, `Leave` |
| `_do`: 200, refusal, transient error, with tenacity's count of attempts | `Answer`, `Reject`, `Transient` |
| a cancellation in any await of `chat` | `Cancel` |
| `run_trajectory` up to the first await; after each call | `Begin`; `Turn`, `CallFails` |
| `wait_for` in `run_trajectory` and in `_run_one` | `TimeOut` |
| `gather_in_batches` | `NextBatch` |
| the loop of `evaluate_population`, the next generation of `train` | `NextCandidate` |

Which LLM and role the head picks, what a provider answers and which verdict a
Verifier writes are any.  Both timeouts are optional settings, so `TimeOut` may
strike at every await and need never do so; a call that has its result is not hit,
because every Python since 3.10 has `wait_for` return it.  `release()` hands the
permit to one of the waiting attempts, as asyncio does since Python 3.11.  The
ledger is switched on and its file can be written.

### Promotion

What the review promises, without workers, rows, locks, deliveries or faults:
anybody may open, push to or close a pull request; a commit may pass with a score;
an open pull request may be merged while its present head has passed; the king
score may become the score of a passed and merged commit.  `ReviewPipeline`
instantiates it with a refinement mapping: the pull requests are those of `gh`, the
passed commits are read off the committed `runs` (`Passed`), the king score is `king`.
`PromotionKept` is the abstract specification as a property.

### JobKinds

**State.**  The committed rows `sub`, `trains`, `evals`, `job`; what lies on disk
for a submission, `tree` (the fetched source and what a training left in it) and
`left` (a `results.json`); one request of the API that locks existing rows, `req`;
the workers' places `pc`, claims `on` and sessions `mem`.  `mode` is the deployment
(`train`, `eval`, or `sync`, which evaluates inside the request) and never changes.
The grain of atomicity is that of `ReviewPipeline`.  Here all job kinds share the
queue, and GitHub and the review gate are left out.

| Code | Actions |
|---|---|
| `submit`, `github_submission_upload`, the webhook for a pull request | `SubmitUpload`, `SubmitPR`, `LockSubmission`, `CommitSubmit`, `FinishSync`, `SyncRaises` |
| `create_train_job`, `admin_create_provider_evaluations` | `CreateTrain`, `CreateProviderEval` |
| deletion and revocation | `DeleteSubmission`, `CommitDelete`, `RevokeSubmission`, `DeleteEval`, `RevokeEval` |
| `process_once`: claim, source, the three kinds of job | `Claim`, `Fetch`, `Begin`, `FinishTrain`, `FinishEval`, `FinishProviderEval` |
| the except branch, deadlocks, death of a worker | `Raise`, `Reread`, `MarkFailed`, `ResolveWithApi`, `ResolveWithTrain`, `Crash` |

### FuguWorkflow and FuguJobs

`FuguWorkflow` has no state.  A proposal is a sequence of the assignments a text
holds, in Python literals of the kinds that the gate tells apart; `ParseWorkflow`
and `NormalizeAccess` are the gate.  A run is a record that waits for one call of
the pool, with a stack of frames because a step may be a workflow of its own; the
`After...` operators compute the run that waits for the next call.

`FuguJobs` runs them.  `evaluate()` has one coroutine per task and a semaphore
(`pc`, `votes`, `report`); the GRPO loop collects groups one after the other
(`trainer`), its policy free or constrained.  `meter` is the cost meter, `bill` what
the pool has answered.  A step is what a coroutine does from an answer to its next
call: `ProposalReturns`, `WorkerReturns`, `Enter`, `Acquire`, `EvaluateReturns`,
`CallRaises`.

### Rewards, Grading, Training, Ceiling, Experiments

`Rewards` has no state: the six graders and RLPR's dispatch, `has_answer`, the
committed answer.  A text is the sequence of the marks that some grader looks for,
such as a box, a number or a fenced program; the header of the module lists them.
What the values of numbers are, which formulas sympy equates, what a JSON payload
decodes to and which tests a program passes are constants.

* `Grading` is a trajectory turn by turn (`Take`, `Turn`) and its grade (`Score`).
* `Training` is the loop of `train()`: `Ask` (a population and one minibatch),
  `TrajectoryEnds` and `CandidateDone` (batches of trajectories; a failed one is
  rewarded 0), `Tell` (reweighting, fitness, incumbent), `SaveTheta`, `SaveHistory`,
  `Finish`, and `Crash` at every point, within `np.save` too.  A candidate is named
  by its generation and index: how the distribution moves is left out, and so any
  trajectory may come of any candidate.  Rewards are kept whole by a common scale;
  the weights of the reweighting are any that grow with the variance.
* `Ceiling` is the oracle ceiling: `Begin` (all calls at once), `Answer` (grade,
  spend, flag), `WriteMatrix`, `Analyze` (cross-fit, floor, bootstrap, verdict).
  Sums are left undivided; the ends of the bootstrap interval are any two values of
  the resampled headroom.
* `Experiments` lets one of the three run.

## 3. The checks

| Run | Instance | Question and answer |
|---|---|---|
| `review_safety` | 1 pull request, 2 commits, 2 workers, scores {1, 2} with threshold 1, 2 deliveries caused by people, 1 fault | Under every interleaving: `ExclusiveJob`, `ClaimedIsQueued`, `EvaluationIsolated`, `ClosedIsCancelled`, `MergedHeadWasEvaluated`, `KingIsMerged`, `PromotionKept` hold |
| `review_progress` | 2 pull requests, 1 commit, 1 worker, scores {1, 2, 3}, 2 deliveries, 1 fault, fairness | `TakenIsSettled` and `HookReturns` if evaluations end, `PauseHolds`, and with one worker `KingNeverDrops` hold |
| `push_during_evaluation` | 1 pull request, 2 commits, 1 worker | `DoneMeansEvaluated` fails |
| `merged_leaves_board` | 1 pull request, 1 worker | `MergedIsListed` fails |
| `eval_runner` | 2 commits, all three execution modes with and without the local fallback, at most 2 commands that outlived their client | `CompletedHasResults`, `CleanRunIsOwn`, `CommandEnds` hold |
| `coordination` | 3 tasks in batches of 2, 2 candidates for ever, 2 turns, 1 provider with 1 permit and 2 attempts, fairness | `PermitsKept`, `DecidedByOwnTheta`, `AcceptedAnswer`, `Metered`, `CandidateScored` hold |
| `stale_results` | the same as `eval_runner`, without commands that outlive their client | `CompletedIsOwn` fails |
| `job_kinds` | 1 upload and 1 pull request, 2 workers, each of the three deployments, 3 requests, 2 trainings, 1 exception or crash | `RunsAgreeWithJobs`, `UploadsNotStranded`, `DeletionSticks` hold |
| `trained_checkpoint` | 1 pull request in train mode, 1 worker, no failure | `TrainedCheckpointIsEvaluated` fails |
| `fugu_jobs` | 3 tasks two at a time and twice each with a cap of 2 dollars, or a training of 2 iterations with groups of 2 and a cap of 3; 2 models, workflows of 2 steps, 1 level of recursion | `MeterExact`, `AdmittedRunsAsWritten`, `TrainingBooks`, `NoRunAfterCap` hold |
| `experiments` | 20 questions of 6 kinds of benchmark and 3 turns; a training of 2 generations of 2 candidates on 3 tasks in batches of 2; matrices of 2 queries and 2 models with 1 and 2 samples and a cap | `GradesAreConsistent`, `SelectionIsSound`, `CeilingIsSound` hold |
| `cost_cap` | the instance of `experiments` | `CapAbortsCollection` fails |

**Bounds.**  Two workers are enough for a conflict over a job, a lock or the king
score, and a third would be a symmetric copy of the second; the locks and jobs of
different pull requests are independent, so mutual exclusion, cancellation and
merging are checked with one pull request and the king score and the order of the
queue with two.  Two commits separate the evaluated head from the current one.
Scores take a value below, at and above what they are compared with.  Two
deliveries caused by people, on top of those the bot's own acts cause, allow an
opening and a push, a close, a reopening, a label or a repetition against it.  The
counter also bounds how often a job is queued again, so no property rests on that
coming to an end: `TakenIsSettled` is about a job that a worker has already taken.
(A job that nobody takes may wait for ever in the code: a job queued again keeps its
`created_at`, and the oldest is claimed first.)  One fault at every possible place
shows what a crash or a loss leaves behind.  In `EvalRunner` two commits tell own results from
another's, and the number of evaluations is not bounded; two stray commands let one
write while the other has begun to.  In `Coordination` one permit and batches of two
make one call wait for the other, a third task makes a second batch, two attempts
are one retry, two turns are the shortest accepted trajectory; which of several
Workers' answers counts needs a third turn and is left to the theorem.
In `JobKinds` the third request can delete or revoke what the first two made, and a
second training queues the evaluation's row over the first.  In `FuguJobs` two
coroutines run and a third waits for the semaphore when the cap is crossed, and the
texts hold a workflow of one step, a recursive one, one that the gate refuses and
one after a list in prose.  In `Experiments` every benchmark has a question that can
be graded correct and texts on both sides of each rule; three tasks drawn from two
make a minibatch with repetitions, and two batches; one generation can end before
the crash and one after it.  The cross-fit is trusted from K = 5 on in the code and
from `ReliableK = 2` in the instance, so that both sides of that decision, and all
verdicts, are reached with matrices that can be enumerated.  The
theorems below hold without these bounds.

**Symmetry.**  Workers are interchangeable, and `review_safety` has no liveness
property, so it is reduced by the permutations of the workers.

**Fairness.**  `FairSpec` asks for weak fairness of the receipt of deliveries and of
deadlock resolution, and for strong fairness of the webhook handler and of each
worker's steps outside an evaluation.  The worker is a polling loop that never
returns, uvicorn serves what arrives, Postgres looks for deadlocks after
`deadlock_timeout`.  Strong, because a step that waits for a row is disabled again
whenever somebody else has it, and Postgres serves those who wait in their order.
Nothing is asked of the evaluation: its command has a limit, but `ssh mkdir` and both
`rsync` calls have none, and the worker holds the rows of job and submission
meanwhile.  `HookReturns` and `TakenIsSettled` therefore have `EvaluationsEnd` as a
hypothesis; a stalled connection holds the webhook.  Nothing is asked of users, of the
admin's switches, of crashes or losses.  `PauseHolds` assumes in its own statement
that the review stays paused.

`EvalRunner` asks for weak fairness of `LocalStep` only, the worker's steps that
have a time limit.  Nothing is asked of the commands, which may hang, nor of `ssh`
and `rsync`, which the code runs without a limit: `CommandEnds` therefore ends in
`copy` as well as in `idle`.

`Coordination` asks for weak fairness of `Ready`, what the event loop has to run,
and of `Responses`, since each request has the provider's `timeout_s`; nothing is
asked of the timeouts of `wait_for`.  `CandidateScored` rests on nothing else: every
attempt ends, attempts are counted, turns are counted, permits come back.

The other modules state safety only.

**Deadlock.**  TLC's deadlock check is on wherever the system goes on for ever:
polling never stops, and one generation follows another.  It is on for
`fugu_jobs` too, whose jobs stutter once they have a result.  It is off for
`job_kinds` and `trained_checkpoint`, where requests are bounded, and for
`experiments` and `cost_cap`, whose programs end.

### Disagreements found

* **A push during the last moments of an evaluation is lost**
  (`push_during_evaluation`).  The handler has loaded the job as `queued` while the
  worker evaluates, and waits for the worker's lock on the submission.  The worker
  commits `completed`.  The handler now assigns `queued` to an attribute that is
  already `queued`; nothing is written.  The new head stays `queued` in the
  submission, `completed` in the queue, and is never evaluated.
* **A merged submission leaves the leaderboard** (`merged_leaves_board`).  The
  worker's own merge is announced by a `closed` delivery whose sender owns the
  access token.  `create_pr_submission` takes that sender for the miner and clears
  the score.
* **A failed evaluation is completed with old results** (`stale_results`).  The
  first commit leaves `results.json` in the workspace; the command of the second
  exits with an error; `if completed != 0 and not local_results_path.exists()`
  finds the file and the run is completed with the score of the first.
  `CleanRunIsOwn` says when the report can be trusted.
* **A trained pull request is evaluated without its checkpoint**
  (`trained_checkpoint`).  The training runs inside the fetched source and leaves
  its checkpoint there; the evaluation job that follows fetches the source again,
  which begins by removing the directory.
* **The cost cap of the oracle ceiling stops nothing** (`cost_cap`).  The script "enforces
  a --max-cost-usd cap" (line 13), which is to "abort collection if running spend
  exceeds this" (line 826), and says of a run over it that its "matrix is partial
  (ragged K)" (line 669).  The flag is tested at the start of each coroutine only, and
  `gather` starts them all before a call can return: every call is made and paid.
  `CapAbortsCollection` asks for less than the documents: a call has been left out if
  the cap was passed before the last answer.

Smaller ones were met while modelling.  They are in the models as the code has
them, without a run of their own:

* Auto-merge cannot be switched off.  "To keep only the PR comment and skip
  auto-merge, leave it `false`" (`validator/README.md:131`); the setting is loaded and
  never read, and `Merge` depends on the score alone.
* The CPU fallback is not part of the default.  `validator/README.md:28-34` promises two
  stages "by default", the second the "local CPU fallback on this machine if the remote
  path fails".  In the default mode `remote_gpu` the worker takes the fallback away
  whatever `EVAL_ALLOW_LOCAL_FALLBACK` says (`worker.py:232`; `AllowFallback`), and a
  remote path that fails at `ssh` or the first `rsync` fails the run in every mode
  (`FallsBack`).  The repository contradicts itself here, so no property says where a
  run may fall back.
* The tie-breaking jitter is said to favour model 0 (line 154); it grows with the
  index and favours the last model.
* `has_answer` is said to stay consistent with what can be scored
  (`reward.py:150`).  Whole texts in mathematics, RLPR and WebInstruct and programs
  without `def`, `import` or fence are graded correct without it, hence the
  restriction in `CorrectIsAnAnswer`.
* In RLPR any letter counts as an answer, so a turn with a letter is committed for a
  question that is graded by number.
* `train.py:64` says that the defaults of the fitness preserve the plain mean; they
  are 0.05 and 0.05 (`fitness.py`), so a failed trajectory (0) can outrank a wrong
  one that is charged for its turns.
* BFCL sorts the calls of model and reference by their JSON text.  A reference that
  lists several allowed values can sort differently from the candidate's one value;
  `CallOrderIrrelevant` says only that the order of listing does not matter, and would
  not notice if it did sort differently.

## 4. The proofs

`ReviewPipelineProofs` proves for any finite set of pull requests, any set of
workers, any scores and any bounds, from the three named assumptions of
`ReviewPipeline` only:

| Theorem | Statement |
|---|---|
| `TypeCorrect` | `Spec => []TypeOK` |
| `Exclusion` | `Spec => []ExclusiveJob` |
| `CrashGivesBack` | `Spec => []ClaimedIsQueued` |
| `Cancellation` | `Spec => ClosedIsCancelled` |
| `Isolation` | `Spec => EvaluationIsolated` |
| `MergeSafety` | `Spec => []MergedHeadWasEvaluated` |
| `KingSafety` | `Spec => []KingIsMerged` |
| `KingGrows` | with a single worker, `Spec => KingNeverDrops` |

The inductive invariant is built in layers, each proved from the ones before.

1. *Types and places* (`TypeOK`, `Located`): a worker past its poll has a pull
   request, before a promotion a score, a busy handler a delivery.
2. *Locks* (`LockInv`): a worker in a transaction holds the job's row; from the
   first flush it holds the submission's row; a handler past `LockSubmission` holds
   the submission's row if it writes it.  None of the invariants about jobs is
   inductive without it, because what forbids a conflicting step is a lock.
   `ExclusiveJob` is a consequence.
3. *The queue* (`ClaimedIsQueued`, `CancelInv`): the committed status of a job under
   processing stays `queued`; a job that the handler saw off the queue is not put
   back on it before its UPDATE.  `ClosedIsCancelled` follows from the second.
4. *Promotion* (`PromotionInv` with `MergedHeadWasEvaluated`, `KingIsMerged`): a
   worker that decided to merge has a committed good run of the very commit it
   names; one about to crown acts for a merged pull request.  Merged pull requests
   stay merged and runs are never removed.
5. For `KingGrows`, a snapshot invariant: what the only worker read as the king
   score is still the king score until it crowns.

`PromotionImplemented` shows, in the same module, that every step of the pipeline
is a step of `Promotion` or leaves its state alone (`Spec => PromotionKept`); it rests on
`PromotionInv`, `MergedHeadWasEvaluated` and `KingIsMerged`: the guards of `Merge`
and `Crown` are what they give.

`EvalRunnerProofs` proves, for any number of commits and of commands that outlive
their client and for any subset of the modes:

| Theorem | Statement |
|---|---|
| `TypeCorrect` | `Spec => []TypeOK` |
| `ResultsExist` | `Spec => []CompletedHasResults` |
| `CleanRunsAreOwn` | `Spec => []CleanRunIsOwn` |

Its invariant says that the worker waits for at most one command, of the commit it
evaluates, and only while `running` (`OwnInv`); and that in a run that began alone
every command alive is of the run's commit and the file where the worker looks next is
fresh once its command has left one (`FreshInv`).  Neither property is inductive: each
is about the committed row and has to be carried there from the run's locals and the
files.

`CoordinationProofs` proves, for any number of tasks, candidates, turns, attempts,
permits, any batch size and any non-empty set of providers:

| Theorem | Statement |
|---|---|
| `TypeCorrect` | `Spec => []TypeOK` |
| `PermitsConserved` | `Spec => []PermitsKept` |
| `OwnTheta` | `Spec => []DecidedByOwnTheta` |
| `AcceptedAnswers` | `Spec => []AcceptedAnswer` |
| `LedgerExact` | `Spec => []Metered` |

The types need `AttemptInv` and `BatchInv`: only a call with an attempt left starts
one, only a trajectory with a turn left runs.  `PermitsKept` is inductive over the
pool once `CallInv` says that a trajectory's call is over when its next one begins;
the proof counts the set of posting calls, which a step changes by one element.  For
the trajectories, the lemma `TaskStep` first lists the few things a step can do to
one task, and `TaskKeepsFine` carries the invariant of one task (`Fine`) through
each.  `OwnTheta` needs `LiveInv`, which `gather` keeps: whatever is alive was begun
for the candidate the policy holds.  `FinalAnswerType` rests on a well-founded
induction, which says that a non-empty set of turns has a last one.

`TrainingProofs` proves, for any tasks, trajectories, weights, population, minibatch,
batch size, budget and number of generations:

| Theorem | Statement |
|---|---|
| `CorrectOutranksWrong` | with a bonus and a penalty that sum below one, every correct reward is above every wrong one |
| `TrainingInvariant` | `TrainSpec => []Inv` |
| `BestIsSaved` | `TrainSpec => []SavedIsBest` |
| `SelectionHolds` | `TrainSpec => []SelectionIsSound` |

`Inv` says at each place of the loop which generations have been told, that the
incumbent is the best of them, and to which of them each file belongs.  The step that
takes work is `Tell`: the incumbent may be kept or replaced by a better one, and in
both cases it is the best of all tellings (`BestOfAll`).  `SelectionHolds` adds
`RankedByQuality`, which needs the invariant `Compared`: within a generation all
candidates have rewards for the same minibatch, so that one choice of positive weights
ranks them all; the fitness is then monotone in each reward (`FitnessMonotone`).

`JobKindsProofs` proves, for any uploads and pull requests, workers, modes, and any
bounds on requests, trainings, evaluations and faults (there is at least one training
id, `MaxTrains > 0`):

| Theorem | Statement |
|---|---|
| `TypeCorrect` | `Spec => []TypeOK` |
| `EndsAgree` | `Spec => []RunsAgreeWithJobs` |
| `NoUploadStranded` | `Spec => []UploadsNotStranded` |
| `DeletionOutlivesWorkers` | `Spec => DeletionSticks` |

Neither invariant is inductive.  Two workers could end one job if they could hold it
together, so `WorkersSound` says that a worker between claim and outcome holds a
`queued` job alone, and `WorkerSound` what it has loaded and flushed at each place.  A
job's row names a run only while the run exists, so `RunsExist` ties each job to the
run inserted in the same transaction; `Payloads` says that what a job, or a run, is to
evaluate was stored by a training of the same submission, which needs that the job
of a training with a checkpoint is never queued again.  `RequestOpen` says which rows a
half-done request of the administrator names.  The proof has a lemma for each part of
the invariant and each kind of step, frame lemmas for the workers, rows and requests
that a step leaves alone, and one lemma per action that puts them together.
`DeletionSticks` then follows from the one fact that matters: a flush (`NetRow`) writes
the columns that changed, and none but a revocation changes `deleted` back.

`FuguJobsProofs` proves, for any pool, workflow length and recursion depth, any
proposals (finite texts of finite lists, in which a string of digits is a natural
number), any tasks, repetitions, group sizes and caps:

| Theorem | Statement |
|---|---|
| `GateMeetsExecutor` | `Spec => []AdmittedRunsAsWritten` |
| `CapIsFinal` | `Spec => NoRunAfterCap` |
| `MeterIsExact` | `Spec => []MeterExact` |
| `TypeCorrect` | `Spec => []TypeOK` |
| `TrainingKeepsBooks` | `Spec => []TrainingBooks` |

The first needs what holds at every level of the recursion (`FrameSound`): a workflow
on the stack was admitted, so that its i-th step reads earlier ones only, and is not at
its end.  `AfterWorker` keeps it although one answer can end several levels, because the
level that goes on is the highest that does not end.  `ParsedSound` shows that the
first triple which the parser accepts exists and is sound, `ConstrainedParses` that the
decoder's texts have one.  The second needs `Placed`: only a task with a permit runs,
and `train()` runs one at a time, so that the run the meter counts is one that was
active.  `MeterExact` adds up over the tasks, so its invariant `Accounts` says of every
run alone that its tally is the sum of its frames' calls (`RunCounted`); what an answer
adds to one run is what the pool bills (`AnswerPaid`), and the sum over the tasks
changes by that one term.  The types are a consequence, with `Ballots`: a task that is
not done has a vote to come.  `TrainingBooks` needs what the loop has collected between
two answers (`Collecting`), what its last update saw (`Updated`), and that the questions
asked so far differ in number by at most one, in the order of the cursor (`Turns`).

`ExperimentsProofs` proves, for any questions, turns, pool of models, queries, number of
samples, splits, prices and cap:

| Theorem | Statement |
|---|---|
| `CeilingSound` | `Spec => []CeilingIsSound` |
| `SelectionSound` | `Spec => []SelectionIsSound`, from `SelectionHolds` |
| `GradesConsistent` | `Spec => []GradesAreConsistent` |

`Collection` is the invariant of the matrix: in each cell, grades and calls in flight
add up to K, whatever the cap.  The rest is about one matrix.
*Order*: the best fixed model is a sum of terms each below the largest of its query; at
one query the chance that all fail is a product with the best model's factor in it
(`LuckOfAll`).  *Cross-fit*: what a choice wins on its selection half it loses on the
other, so the model that is best over all samples scores no less there
(`NoWinnersCurse`); and exchanging two samples maps the splits that leave one onto those
that leave the other, so that over all splits every sample is scored equally often
(`Exchanged`, `ScoredAlike`).  *Identical models*: whichever is chosen, the same sum
results, so every resample has headroom 0 and the interval is [0, 0] (`Analysed`).
`GradesConsistent` holds the transcript fixed from its last turn on (`Transcript`).  Its
last part is about sorting.  A strict order lists a finite set (`Listing`), so a sorted
list exists; of two that sort the same calls neither shows a later key than the other at
any place, because the places up to n of one and those from n on of the other have one in
common (`PlacesMeet`, `NotLater`).  What the proof takes as given is `KeyAssumption`:
`json.dumps` gives different calls different texts, of which one comes first.  TLC checks
it for the calls of the run; for every call it would need an induction over its arguments.

The theorems about sums rest on `SumsProofs`.  A sum over a set is a fold, a recursive
definition on an arbitrary choice of members; `SumsExist` and `SumsUnique` show by
induction over the subsets that the recursion has exactly one solution, and `SumRemove`
that any member may be taken out first.  Everything else about sums follows: equality,
monotony, scaling, renaming, splitting, exchanging two sums, counting.

TLC checked the conjunctions before they were proved.  Every invariant and every action
property of the passing runs is proved; only liveness (`TakenIsSettled`, `PauseHolds`,
`HookReturns`, `CommandEnds`, `CandidateScored`), which is out of the prover's reach, is
model-checked alone.  The disagreements are TLC's traces.

## 5. What is left out, and why

* Signatures, tokens, permissions and the text of comments: no property here is
  about them.
* `best_eval_id`, timestamps, durations and costs: written and never read by a
  decision, except `created_at`, kept as the order `since`.
* Two API processes: the deployment has one (hazard listed).
* Two workers' promotions: with two, one king score can overwrite a higher one.  The
  deployment has one worker, for which `KingNeverDrops` is stated (hazard listed).
* That every queued job is claimed one day: the code does not see to it (hazard
  listed).
* Coherence of `status`, `latest_score` and `latest_eval_id` in one row: TLC finds
  interleavings that break it, and no document promises it (hazard listed).
* The texts of prompts and answers, and what a provider bills for a request that
  timed out (hazard listed).
* Tensors, numerics, tokenizers, HTTP and terminal handling.  sep-CMA-ES moves a
  real-valued distribution; only its protocol and its incumbent are modelled.
* The administrator's sessions: log in, expiry and revocation are each one row,
  written and compared with the clock in one transaction.
* Normalisation of the runtime configuration, the start-up migration, the read API
  and the web site: conversions of one row, or statements that run once.
* Loading of datasets, which is I/O over rows of foreign formats.  A dataset that
  cannot be loaded is replaced by a toy set with a warning only (`dataset.py:960`).
* IFEval instructions about case, punctuation, language and JSON; float tolerance and
  sympy (constants); quantiles of the bootstrap; McNemar's test.

## 6. The plan

1. Done: `ReviewPipeline`, `EvalRunner`, `LLMPool` and `Coordination` with proofs;
   `Promotion` as the abstract specification; `JobKinds`; `FuguWorkflow` and
   `FuguJobs`; `Rewards` with `Grading`, `Training` and `Ceiling`.
2. Done: the proofs of all four properties of `JobKinds`.
3. Done: the proofs of all properties of `FuguJobs`, and of `SelectionIsSound`,
   `CeilingIsSound` and `GradesAreConsistent`, over `SumsProofs`.
4. The administrator's sessions, if a property of more than one step is found.
