------------------------ MODULE ReviewPipelineProofs ------------------------
(***************************************************************************)
(* Proofs about ReviewPipeline, for any sets of pull requests and workers  *)
(* and any bounds.  The argument goes in layers, each using the ones       *)
(* before: rows and process states are well formed (TypeInv); row locks    *)
(* belong to whom they should (LockStep); a claimed job stays queued and a *)
(* cancelled one stays cancelled; what is promoted was evaluated.          *)
(***************************************************************************)
EXTENDS ReviewPipeline, FiniteSetTheorems, TLAPS

TypeInv == TypeOK /\ Located

-----------------------------------------------------------------------------
(***************************************************************************)
(* The operators on rows                                                   *)
(***************************************************************************)
\* What github_webhook writes is a row with a committed status.
LEMMA WantedType ==
    ASSUME NEW loaded \in SubRow, NEW ev \in Event
    PROVE  Wanted(loaded, ev) \in SubRow
  BY DEF Wanted, PRSubmission, SubRow, SubStatus, Event, NoRow, Score, AnyHead

\* What enqueue_submission_job or cancel_submission_jobs writes is a status.
LEMMA WantedJobType ==
    ASSUME NEW loaded \in JobStatus, NEW ev \in Event
    PROVE  WantedJob(loaded, ev) \in JobStatus
  BY DEF WantedJob, JobStatus

\* A flush mixes columns of two rows into a row.
LEMMA NetChangeType ==
    ASSUME NEW current \in SubRow, NEW loaded \in SubRow, NEW wanted \in SubRow
    PROVE  NetChange(current, loaded, wanted) \in SubRow
  BY DEF NetChange, Net, SubRow

\* Without a net change a flush changes nothing.
LEMMA NetChangeNone ==
    ASSUME NEW current \in SubRow, NEW loaded \in SubRow
    PROVE  NetChange(current, loaded, loaded) = current
  BY DEF NetChange, Net, SubRow

LEMMA EvaluatedType ==
    ASSUME NEW loaded \in SubRow, NEW status \in {"completed", "failed"}, NEW score \in Score
    PROVE  Evaluated(loaded, status, score) \in SubRow
  BY DEF Evaluated, SubRow, SubStatus

LEMMA NoRowType == NoRow \in SubRow /\ NoRequest \in Request /\ NoObjects \in Objects
  BY DEF NoRow, SubRow, SubStatus, Senders, AnyHead, Score, NoRequest, Request, JobStatus,
         NoObjects, Objects

-----------------------------------------------------------------------------
(***************************************************************************)
(* Types                                                                   *)
(***************************************************************************)
\* A worker that goes idle is well typed and at no pull request.
LEMMA ToIdleType ==
    ASSUME TypeInv, NEW w \in Workers, ToIdle(w)
    PROVE  /\ pc' \in [Workers -> WorkerPc] /\ on' \in [Workers -> PRs \cup {None}]
           /\ polled' \in [Workers -> Polled] /\ mem' \in [Workers -> Objects]
           /\ result' \in [Workers -> Score]
           /\ \A x \in Workers : pc'[x] \notin {"idle", "polled"} => on'[x] \in PRs
           /\ \A x \in Workers : pc'[x] \in {"merge", "crown"} => result'[x] \in Scores
  BY NoRowType DEF TypeInv, TypeOK, Located, ToIdle, NoPoll, Polled, WorkerPc, Score

LEMMA FreeWorkerType ==
    ASSUME TypeInv, NEW w \in Workers, FreeWorker(w)
    PROVE  /\ subLock' \in [PRs -> Workers \cup {Api, None}]
           /\ jobLock' \in [PRs -> Workers \cup {None}]
  BY DEF TypeInv, TypeOK, FreeWorker

LEMMA FreeApiType ==
    ASSUME TypeInv, FreeApi
    PROVE  /\ subLock' \in [PRs -> Workers \cup {Api, None}]
           /\ apiPc' = "idle" /\ apiPc' \in ApiPc /\ req' \in Request
  BY NoRowType DEF TypeInv, TypeOK, FreeApi, ApiPc

\* Initially everything is well formed.
LEMMA TypeInit == Init => TypeInv
<1> SUFFICES ASSUME Init PROVE TypeInv
  OBVIOUS
<1>1. 1 \in Heads /\ NoPoll \in Polled /\ "idle" \in WorkerPc
  BY BoundsAssumption DEF Heads, NoPoll, Polled, WorkerPc
<1>2. gh \in [PRs -> [state: {"none", "open", "closed", "merged"}, head: Heads]]
  BY <1>1 DEF Init
<1> QED
  BY <1>1, <1>2, NoRowType
  DEF Init, TypeInv, TypeOK, Located, ApiPc, JobStatus, Score

\* People's acts and lost deliveries.
LEMMA TypeGitHub == TypeInv /\ GitHub => TypeInv'
<1> SUFFICES ASSUME TypeInv, GitHub PROVE TypeInv'
  OBVIOUS
<1> USE DEF TypeInv
<1>1. ASSUME NEW p \in PRs, NEW st \in {"open", "closed"}, NEW h \in Heads,
             NEW kind \in {"change", "closed"}, NEW who \in Senders,
             UserActs(p, st, h, kind, who)
      PROVE  TypeInv'
  <2>1. Delivery(kind, p, h, who) \in Event
    BY <1>1 DEF Delivery, Event
  <2> QED
    BY <1>1, <2>1 DEF UserActs, TypeOK, Located, rowVars, lockVars, workerVars, apiVars
<1>2. ASSUME NEW p \in PRs PROVE gh[p].head \in Heads /\ 1 \in Heads
  BY BoundsAssumption DEF TypeOK, Heads
<1>3. ASSUME NEW p \in PRs, OpenPR(p) \/ Push(p) \/ ClosePR(p) \/ ReopenPR(p) \/ Label(p)
      PROVE  TypeInv'
  <2>1. CASE OpenPR(p)
    BY <2>1, <1>1, <1>2 DEF OpenPR, Senders
  <2>2. CASE Push(p)
    <3>1. gh[p].head + 1 \in Heads
      BY <2>2, <1>2, BoundsAssumption DEF Push, Heads
    <3> QED
      BY <2>2, <3>1, <1>1 DEF Push, Senders
  <2>3. CASE ClosePR(p)
    BY <2>3, <1>1, <1>2 DEF ClosePR, Senders
  <2>4. CASE ReopenPR(p)
    BY <2>4, <1>1, <1>2 DEF ReopenPR, Senders
  <2>5. CASE Label(p)
    BY <2>5, <1>1, <1>2 DEF Label, Senders
  <2> QED
    BY <1>3, <2>1, <2>2, <2>3, <2>4, <2>5
<1>4. ASSUME NEW d \in deliveries, Drop(d) PROVE TypeInv'
  BY <1>4 DEF Drop, TypeOK, Located, rowVars, lockVars, workerVars, apiVars
<1> QED
  BY <1>3, <1>4 DEF GitHub

\* The API process.
LEMMA TypeApi ==
    TypeInv /\ (Receive \/ Handler \/ StartReview \/ PauseReview \/ ApiCrash) => TypeInv'
<1> SUFFICES ASSUME TypeInv, Receive \/ Handler \/ StartReview \/ PauseReview \/ ApiCrash
             PROVE  TypeInv'
  OBVIOUS
<1> USE DEF TypeInv
<1>1. ASSUME NEW d \in deliveries, NEW again \in BOOLEAN, ReadSubmission(d, again)
      PROVE  TypeInv'
  <2>1. d \in Event /\ sub[d.pr] \in SubRow
    BY <1>1 DEF TypeOK, Event
  <2>2. req' \in Request
    BY <1>1, <2>1 DEF ReadSubmission, Request, JobStatus
  <2>3. req'.ev \in Event
    BY <1>1, <2>1 DEF ReadSubmission
  <2> QED
    BY <1>1, <2>2, <2>3
    DEF ReadSubmission, TypeOK, Located, ApiPc, rowVars, lockVars, workerVars
<1>2. CASE ReadJob
  <2>1. req.ev \in Event /\ job[req.ev.pr] \in JobStatus
    BY <1>2 DEF ReadJob, TypeOK, Located, Event
  <2>2. req' \in Request /\ req'.ev = req.ev
    BY <1>2, <2>1 DEF ReadJob, Request, TypeOK
  <2> QED
    BY <1>2, <2>1, <2>2
    DEF ReadJob, TypeOK, Located, ApiPc, gitVars, rowVars, lockVars, workerVars
<1>3. CASE LockSubmission
  <2>1. req.ev \in Event
    BY <1>3 DEF LockSubmission, Located
  <2> QED
    BY <1>3, <2>1
    DEF LockSubmission, TypeOK, Located, ApiPc, gitVars, rowVars, workerVars
<1>4. CASE CommitWebhook
  <2> DEFINE p == req.ev.pr
             st == WantedJob(req.job, req.ev)
             row == NetChange(sub[p], req.sub, Wanted(req.sub, req.ev))
  <2>1. req.ev \in Event /\ req.sub \in SubRow /\ req.job \in JobStatus /\ p \in PRs
    BY <1>4 DEF CommitWebhook, TypeOK, Located, Request, Event
  <2>2. row \in SubRow
    BY <2>1, WantedType, NetChangeType DEF TypeOK
  <2>3. Net(job[p], req.job, st) \in JobStatus
    BY <2>1, WantedJobType DEF Net, TypeOK
  <2>4. sub' \in [PRs -> SubRow]
    BY <1>4, <2>1, <2>2 DEF CommitWebhook, TypeOK
  <2>5. job' \in [PRs -> JobStatus]
    BY <1>4, <2>1, <2>3 DEF CommitWebhook, TypeOK
  <2>6. since' \in [PRs -> Nat]
    <3>1. Cardinality({q \in PRs : job[q] # "absent"}) \in Nat
      BY NamesAssumption, FS_Subset, FS_CardinalityType
    <3>2. 1 + Cardinality({q \in PRs : job[q] # "absent"}) \in Nat
      BY <3>1
    <3>3. since' = [since EXCEPT ![p] = 1 + Cardinality({q \in PRs : job[q] # "absent"})]
            \/ since' = since
      BY <1>4 DEF CommitWebhook
    <3> HIDE DEF p
    <3> QED
      BY <3>2, <3>3 DEF TypeOK
  <2> QED
    BY <1>4, <2>4, <2>5, <2>6, FreeApiType
    DEF CommitWebhook, TypeOK, Located, gitVars, workerVars
<1>5. CASE StartReview \/ PauseReview
  BY <1>5 DEF StartReview, PauseReview, TypeOK, Located, gitVars, rowVars, lockVars, workerVars,
              apiVars
<1>6. CASE ApiCrash
  BY <1>6, FreeApiType
  DEF ApiCrash, AbortWebhook, TypeOK, Located, gitVars, rowVars, workerVars
<1> QED
  BY <1>1, <1>2, <1>3, <1>4, <1>5, <1>6 DEF Receive, Handler

\* A worker's steps up to its first commit.
LEMMA TypeEvaluates ==
    ASSUME TypeInv, NEW w \in Workers,
           Poll(w) \/ NoJob(w) \/ Claim(w) \/ Fetch(w) \/ Begin(w)
    PROVE  TypeInv'
<1> USE DEF TypeInv
<1>1. CASE Poll(w)
  BY <1>1 DEF Poll, Goto, Polled, TypeOK, Located, WorkerPc, gitVars, rowVars, lockVars, apiVars
<1>2. CASE NoJob(w)
  BY <1>2, ToIdleType DEF NoJob, TypeOK, Located, gitVars, rowVars, lockVars, apiVars
<1>3. CASE Claim(w)
  <2>1. PICK p \in PRs : /\ jobLock' = [jobLock EXCEPT ![p] = w]
                         /\ on' = [on EXCEPT ![w] = p]
                         /\ mem' = [mem EXCEPT ![w] = [sub |-> sub[p], job |-> "queued"]]
    BY <1>3 DEF Claim, Claimable
  <2>2. mem' \in [Workers -> Objects]
    BY <2>1 DEF TypeOK, Objects, JobStatus
  <2> QED
    BY <1>3, <2>1, <2>2
    DEF Claim, Goto, TypeOK, Located, WorkerPc, InTransaction, gitVars, rowVars, apiVars
<1>4. CASE Fetch(w)
  BY <1>4
  DEF Fetch, Goto, TypeOK, Located, WorkerPc, InTransaction, gitVars, rowVars, lockVars, apiVars
<1>5. CASE Begin(w)
  BY <1>5
  DEF Begin, Goto, TypeOK, Located, WorkerPc, InTransaction, gitVars, rowVars, apiVars
<1> QED
  BY <1>1, <1>2, <1>3, <1>4, <1>5

\* The end of an evaluation.
LEMMA TypeFinish ==
    ASSUME TypeInv, NEW w \in Workers, NEW status \in {"completed", "failed"},
           NEW score \in Score, Finish(w, status, score)
    PROVE  TypeInv'
<1> USE DEF TypeInv
<1> DEFINE p   == on[w]
           row == Evaluated(mem[w].sub, status, score)
           new == [NetChange(sub[p], mem[w].sub, row) EXCEPT !.status = status, !.run = row.run]
           run == [pr |-> p, head |-> mem[w].sub.head, status |-> status, score |-> score]
<1>1. p \in PRs /\ mem[w].sub \in SubRow /\ row \in SubRow
  BY EvaluatedType DEF Finish, TypeOK, Located, Objects
<1>2. new \in SubRow
  <2>1. NetChange(sub[p], mem[w].sub, row) \in SubRow
    BY <1>1, NetChangeType DEF TypeOK
  <2>2. status \in SubStatus /\ row.run \in AnyHead
    BY <1>1 DEF SubStatus, SubRow
  <2> HIDE DEF row
  <2> QED
    BY <2>1, <2>2 DEF SubRow
<1>3. sub' \in [PRs -> SubRow]
  BY <1>1, <1>2 DEF Finish, TypeOK
<1>4. job' \in [PRs -> JobStatus]
  BY DEF Finish, TypeOK, JobStatus
<1>5. run \in Run
  BY <1>1 DEF Run, SubRow
<1>6. runs' \subseteq Run
  BY <1>5 DEF Finish, TypeOK
<1>7. /\ result' \in [Workers -> Score]
      /\ \A x \in Workers : pc'[x] \in {"merge", "crown"} => result'[x] \in Scores
  BY ScoresAssumption DEF Finish, TypeOK, Located, Goto, ShouldPromote, Score
<1>8. /\ pc' \in [Workers -> WorkerPc]
      /\ \A x \in Workers : pc'[x] \notin {"idle", "polled"} => on'[x] \in PRs
  BY <1>1 DEF Finish, TypeOK, Located, Goto, WorkerPc
<1> QED
  BY <1>3, <1>4, <1>6, <1>7, <1>8, FreeWorkerType
  DEF Finish, TypeOK, Located, gitVars, apiVars

\* The error path.
LEMMA TypeFails ==
    ASSUME TypeInv, NEW w \in Workers,
           \/ Rollback(w) /\ pc[w] \in InTransaction
           \/ RereadJob(w) \/ RereadSubmission(w) \/ MarkSubmission(w) \/ MarkFailed(w)
    PROVE  TypeInv'
<1> USE DEF TypeInv
<1>1. CASE Rollback(w) /\ pc[w] \in InTransaction
  BY <1>1, FreeWorkerType
  DEF Rollback, Goto, TypeOK, Located, WorkerPc, InTransaction, gitVars, rowVars, apiVars
<1>2. CASE RereadJob(w)
  <2>1. on[w] \in PRs
    BY <1>2 DEF RereadJob, Located
  <2>2. mem' \in [Workers -> Objects]
    BY <1>2, <2>1 DEF RereadJob, TypeOK, Objects
  <2> QED
    BY <1>2, <2>2
    DEF RereadJob, Goto, TypeOK, Located, WorkerPc, gitVars, rowVars, lockVars, apiVars
<1>3. CASE RereadSubmission(w)
  <2>1. on[w] \in PRs
    BY <1>3 DEF RereadSubmission, Located
  <2>2. mem' \in [Workers -> Objects]
    BY <1>3, <2>1 DEF RereadSubmission, TypeOK, Objects
  <2> QED
    BY <1>3, <2>2
    DEF RereadSubmission, Goto, TypeOK, Located, WorkerPc, gitVars, rowVars, lockVars, apiVars
<1>4. CASE MarkSubmission(w)
  BY <1>4
  DEF MarkSubmission, Goto, TypeOK, Located, WorkerPc, gitVars, rowVars, apiVars
<1>5. CASE MarkFailed(w)
  <2>1. sub' \in [PRs -> SubRow]
    <3> DEFINE st  == Net(sub[on[w]].status, mem[w].sub.status, "failed")
               row == [sub[on[w]] EXCEPT !.status = st]
    <3>1. on[w] \in PRs /\ sub[on[w]] \in SubRow
      BY <1>5 DEF MarkFailed, Located, TypeOK
    <3>2. st \in SubStatus
      BY <3>1 DEF Net, SubRow, SubStatus
    <3>3. row \in SubRow
      <4> HIDE DEF st
      <4> QED
        BY <3>1, <3>2 DEF SubRow
    <3>4. sub' = [sub EXCEPT ![on[w]] = row]
      BY <1>5 DEF MarkFailed
    <3> HIDE DEF row
    <3> QED
      BY <3>1, <3>3, <3>4 DEF TypeOK
  <2>2. job' \in [PRs -> JobStatus]
    BY <1>5 DEF MarkFailed, Net, TypeOK, JobStatus
  <2> QED
    BY <1>5, <2>1, <2>2, ToIdleType, FreeWorkerType
    DEF MarkFailed, TypeOK, Located, gitVars, apiVars
<1> QED
  BY <1>1, <1>2, <1>3, <1>4, <1>5

\* What the worker does on GitHub, and the king score.
LEMMA TypePublishes ==
    ASSUME TypeInv, NEW w \in Workers, Merge(w) \/ Crown(w) \/ Close(w) \/ GiveUp(w)
    PROVE  TypeInv'
<1> USE DEF TypeInv
<1>1. ASSUME NEW p \in PRs, NEW st \in {"closed", "merged"}, BotActs(p, st)
      PROVE  /\ gh' \in [PRs -> [state: {"none", "open", "closed", "merged"}, head: Heads]]
             /\ deliveries' \subseteq Event
  <2>1. Delivery("closed", p, gh[p].head, "bot") \in Event
    BY DEF Delivery, Event, Senders, TypeOK
  <2> QED
    BY <1>1, <2>1 DEF BotActs, TypeOK
<1>2. CASE Merge(w)
  <2>1. on[w] \in PRs /\ result[w] \in Scores
    BY <1>2 DEF Merge, Located
  <2>2. CASE Goto(w, "crown") /\ UNCHANGED <<on, polled, mem, result>>
    BY <1>1, <1>2, <2>1, <2>2
    DEF Merge, Goto, TypeOK, Located, WorkerPc, rowVars, lockVars, apiVars
  <2>3. CASE ToIdle(w)
    BY <1>1, <1>2, <2>1, <2>3, ToIdleType DEF Merge, TypeOK, Located, rowVars, lockVars, apiVars
  <2> QED
    BY <1>2, <2>2, <2>3 DEF Merge
<1>3. CASE Crown(w)
  BY <1>3, ToIdleType DEF Crown, TypeOK, Located, gitVars, rowVars, lockVars, apiVars
<1>4. CASE Close(w)
  <2>1. on[w] \in PRs
    BY <1>4 DEF Close, Located
  <2> QED
    BY <1>1, <1>4, <2>1, ToIdleType DEF Close, TypeOK, Located, rowVars, lockVars, apiVars
<1>5. CASE GiveUp(w)
  BY <1>5, ToIdleType DEF GiveUp, TypeOK, Located, gitVars, rowVars, lockVars, apiVars
<1> QED
  BY <1>1, <1>2, <1>3, <1>4, <1>5

\* Crashes and deadlocks.
LEMMA TypeStops ==
    ASSUME TypeInv, NEW w \in Workers, WorkerCrash(w) \/ Resolve(w)
    PROVE  TypeInv'
<1> USE DEF TypeInv
<1>1. ASSUME NEW x \in Workers, WorkerStops(x), faults' \in Nat PROVE TypeInv'
  BY <1>1, ToIdleType, FreeWorkerType
  DEF WorkerStops, TypeOK, Located, gitVars, rowVars, apiVars
<1>2. CASE WorkerCrash(w)
  BY <1>1, <1>2 DEF WorkerCrash, TypeOK
<1>3. CASE DeadlockRollback(w)
  BY <1>3, TypeFails DEF DeadlockRollback, Deadlocked, InTransaction
<1>4. CASE DeadlockAbort(w)
  BY <1>4, FreeApiType
  DEF DeadlockAbort, AbortWebhook, TypeOK, Located, gitVars, rowVars, workerVars
<1>5. CASE DeadlockExit(w)
  BY <1>1, <1>5 DEF DeadlockExit, TypeOK
<1> QED
  BY <1>2, <1>3, <1>4, <1>5 DEF Resolve

\* Every step keeps everything well formed.
LEMMA TypeStep == TypeInv /\ [Next]_vars => TypeInv'
<1> SUFFICES ASSUME TypeInv, [Next]_vars PROVE TypeInv'
  OBVIOUS
<1>1. ASSUME NEW w \in Workers, Process(w) PROVE TypeInv'
  <2>1. CASE \E score \in Score : Finish(w, "completed", score)
    BY <2>1, TypeFinish
  <2>2. CASE Finish(w, "failed", None)
    BY <2>2, TypeFinish DEF Score
  <2>3. CASE Raise(w)
    BY <2>3, TypeFails DEF Raise, InTransaction
  <2> QED
    BY <1>1, <2>1, <2>2, <2>3, TypeEvaluates, TypeFails, TypePublishes DEF Process
<1>2. CASE UNCHANGED vars
  BY <1>2 DEF TypeInv, TypeOK, Located, vars, gitVars, rowVars, lockVars, workerVars, apiVars
<1> QED
  BY <1>1, <1>2, TypeGitHub, TypeApi, TypeStops DEF Next

\* Rows, deliveries and process states are always well formed: no column ever
\* holds a transient status, whatever mixture of loaded and current rows the
\* flushes write.
THEOREM TypeCorrect == Spec => []TypeOK
<1>1. Spec => []TypeInv
  BY TypeInit, TypeStep, PTL DEF Spec
<1>2. TypeInv => TypeOK
  BY DEF TypeInv
<1> QED
  BY <1>1, <1>2, PTL

-----------------------------------------------------------------------------
(***************************************************************************)
(* Row locks                                                               *)
(***************************************************************************)
LEMMA LockInit == Init => LockInv
  BY DEF Init, LockInv, InTransaction

\* A worker that gives up its locks and goes where it needs none.
LEMMA LockFreed ==
    ASSUME TypeInv, LockInv, NEW w \in Workers, FreeWorker(w), UNCHANGED apiVars,
           pc' \in [Workers -> WorkerPc],
           pc'[w] \notin InTransaction \cup {"marking"},
           \A x \in Workers \ {w} : pc'[x] = pc[x] /\ on'[x] = on[x]
    PROVE  LockInv'
<1>1. ASSUME NEW x \in Workers \ {w}, pc[x] \in InTransaction \cup {"marking"}
      PROVE  /\ on[x] \in PRs
             /\ pc[x] \in InTransaction => jobLock'[on[x]] = x
             /\ pc[x] \in {"evaluating", "marking"} => subLock'[on[x]] = x
  BY <1>1 DEF FreeWorker, LockInv, TypeInv, Located, InTransaction
<1>2. ASSUME apiPc = "locked", WritesSub PROVE subLock'[req.ev.pr] = Api
  BY <1>2, NamesAssumption DEF FreeWorker, LockInv, TypeInv, Located, Event
<1>3. WritesSub' = WritesSub
  BY DEF WritesSub, apiVars
<1>4. \A x \in Workers : pc'[x] \in InTransaction => jobLock'[on'[x]] = x
  BY <1>1
<1>5. \A x \in Workers : pc'[x] \in {"evaluating", "marking"} => subLock'[on'[x]] = x
  BY <1>1 DEF InTransaction
<1> QED
  BY <1>2, <1>3, <1>4, <1>5 DEF LockInv, apiVars

\* A webhook transaction that ends.
LEMMA LockFreedApi ==
    ASSUME TypeInv, LockInv, FreeApi, UNCHANGED <<jobLock, workerVars>>
    PROVE  LockInv'
  BY NamesAssumption
  DEF TypeInv, TypeOK, Located, LockInv, FreeApi, InTransaction, workerVars

\* The steps that leave locks alone, and the workers that hold some.
LEMMA LockSame ==
    ASSUME TypeInv, LockInv, UNCHANGED <<lockVars, apiVars>>,
           \A x \in Workers : \/ pc'[x] = pc[x] /\ on'[x] = on[x]
                              \/ pc'[x] \notin InTransaction \cup {"marking"}
    PROVE  LockInv'
<1>1. WritesSub' = WritesSub
  BY DEF WritesSub, apiVars
<1> QED
  BY <1>1 DEF LockInv, lockVars, apiVars, InTransaction

LEMMA LockStep == TypeInv /\ LockInv /\ [Next]_vars => LockInv'
<1> SUFFICES ASSUME TypeInv, LockInv, [Next]_vars PROVE LockInv'
  OBVIOUS
<1>1. CASE GitHub \/ StartReview \/ PauseReview \/ UNCHANGED vars
  <2>1. UNCHANGED <<lockVars, workerVars, apiVars>>
    BY <1>1 DEF GitHub, OpenPR, Push, ClosePR, ReopenPR, Label, UserActs, Drop, StartReview,
                PauseReview, vars
  <2> QED
    BY <2>1, LockSame DEF workerVars
<1>2. CASE Receive \/ ReadJob
  <2>1. UNCHANGED <<lockVars, workerVars>> /\ apiPc' # "locked"
    BY <1>2 DEF Receive, ReadSubmission, ReadJob
  <2> QED
    BY <2>1 DEF LockInv, lockVars, workerVars
<1>3. CASE LockSubmission
  <2>1. WritesSub' = WritesSub /\ req.ev.pr \in PRs
    BY <1>3 DEF LockSubmission, WritesSub, TypeInv, Located, Event
  <2>2. \A w \in Workers : pc[w] \in {"evaluating", "marking"} => subLock'[on[w]] = w
    BY <1>3, <2>1, NamesAssumption DEF LockSubmission, LockInv, TypeInv, TypeOK, Located
  <2> QED
    BY <1>3, <2>1, <2>2 DEF LockSubmission, LockInv, TypeInv, TypeOK, workerVars
<1>4. CASE CommitWebhook \/ ApiCrash
  BY <1>4, LockFreedApi DEF CommitWebhook, ApiCrash, AbortWebhook
<1>5. ASSUME NEW w \in Workers, Process(w) PROVE LockInv'
  <2>1. CASE Poll(w)
    BY <2>1, LockSame DEF Poll, Goto, TypeInv, TypeOK, InTransaction
  <2>2. CASE NoJob(w) \/ Merge(w) \/ Crown(w) \/ Close(w) \/ GiveUp(w)
    <3>1. UNCHANGED <<lockVars, apiVars>>
      BY <2>2 DEF NoJob, Merge, Crown, Close, GiveUp
    <3>2. \/ ToIdle(w)
          \/ Goto(w, "crown") /\ UNCHANGED on
      BY <2>2 DEF NoJob, Merge, Crown, Close, GiveUp
    <3>3. \A x \in Workers : \/ pc'[x] = pc[x] /\ on'[x] = on[x]
                             \/ pc'[x] \notin InTransaction \cup {"marking"}
      BY <3>2 DEF ToIdle, Goto, TypeInv, TypeOK, InTransaction
    <3> QED
      BY <3>1, <3>3, LockSame
  <2>3. CASE Claim(w)
    <3>1. PICK p \in PRs : /\ jobLock[p] = None
                           /\ jobLock' = [jobLock EXCEPT ![p] = w]
                           /\ on' = [on EXCEPT ![w] = p]
      BY <2>3 DEF Claim, Claimable
    <3>2. pc' = [pc EXCEPT ![w] = "claimed"] /\ UNCHANGED <<subLock, apiVars>>
      BY <2>3 DEF Claim, Goto
    <3>3. \A x \in Workers : pc'[x] \in InTransaction => jobLock'[on'[x]] = x
      BY <3>1, <3>2, NamesAssumption DEF LockInv, TypeInv, TypeOK, Located, InTransaction
    <3>4. \A x \in Workers : pc'[x] \in {"evaluating", "marking"} => subLock'[on'[x]] = x
      BY <3>1, <3>2 DEF LockInv, TypeInv, TypeOK
    <3>5. WritesSub' = WritesSub
      BY <3>2 DEF WritesSub, apiVars
    <3> QED
      BY <3>2, <3>3, <3>4, <3>5 DEF LockInv, apiVars
  <2>4. CASE Fetch(w)
    <3>1. pc[w] = "claimed" /\ pc' = [pc EXCEPT ![w] = "fetched"]
          /\ UNCHANGED <<lockVars, on, apiVars>>
      BY <2>4 DEF Fetch, Goto
    <3>2. WritesSub' = WritesSub
      BY <3>1 DEF WritesSub, apiVars
    <3> QED
      BY <3>1, <3>2 DEF LockInv, TypeInv, TypeOK, InTransaction, lockVars, apiVars
  <2>5. CASE Begin(w) \/ MarkSubmission(w)
    <3>1. /\ on[w] \in PRs /\ subLock[on[w]] = None
          /\ subLock' = [subLock EXCEPT ![on[w]] = w]
          /\ UNCHANGED <<jobLock, on, apiVars>>
          /\ \/ pc[w] = "fetched" /\ pc' = [pc EXCEPT ![w] = "evaluating"]
             \/ pc[w] = "reread" /\ pc' = [pc EXCEPT ![w] = "marking"]
      BY <2>5 DEF Begin, MarkSubmission, Goto, TypeInv, Located
    <3>2. WritesSub' = WritesSub
      BY <3>1 DEF WritesSub, apiVars
    <3>3. \A x \in Workers : pc'[x] \in InTransaction => jobLock'[on'[x]] = x
      BY <3>1 DEF LockInv, TypeInv, TypeOK, InTransaction
    <3>4. \A x \in Workers : pc'[x] \in {"evaluating", "marking"} => subLock'[on'[x]] = x
      BY <3>1, NamesAssumption DEF LockInv, TypeInv, TypeOK, Located
    <3>5. apiPc = "locked" /\ WritesSub => subLock'[req.ev.pr] = Api
      BY <3>1, NamesAssumption DEF LockInv, TypeInv, TypeOK, Located, Event
    <3> QED
      BY <3>1, <3>2, <3>3, <3>4, <3>5 DEF LockInv, apiVars
  <2>6. CASE \E status \in {"completed", "failed"}, score \in Score : Finish(w, status, score)
    <3>1. /\ FreeWorker(w) /\ UNCHANGED <<on, apiVars>>
          /\ \/ pc' = [pc EXCEPT ![w] = "merge"]
             \/ pc' = [pc EXCEPT ![w] = "close"]
      BY <2>6 DEF Finish, Goto
    <3> QED
      BY <3>1, LockFreed DEF TypeInv, TypeOK, WorkerPc, InTransaction
  <2>7. CASE Raise(w)
    BY <2>7, LockFreed DEF Raise, Rollback, Goto, TypeInv, TypeOK, WorkerPc, InTransaction
  <2>8. CASE RereadJob(w) \/ RereadSubmission(w)
    BY <2>8, LockSame
    DEF RereadJob, RereadSubmission, Goto, TypeInv, TypeOK, InTransaction
  <2>9. CASE MarkFailed(w)
    BY <2>9, LockFreed DEF MarkFailed, ToIdle, TypeInv, TypeOK, WorkerPc, InTransaction
  <2> QED
    BY <1>5, <2>1, <2>2, <2>3, <2>4, <2>5, <2>6, <2>7, <2>8, <2>9 DEF Process, Score
<1>6. ASSUME NEW w \in Workers, Resolve(w) \/ WorkerCrash(w) PROVE LockInv'
  <2>1. ASSUME NEW x \in Workers, WorkerStops(x) PROVE LockInv'
    BY <2>1, LockFreed DEF WorkerStops, ToIdle, TypeInv, TypeOK, WorkerPc, InTransaction
  <2>2. CASE DeadlockRollback(w)
    BY <2>2, LockFreed
    DEF DeadlockRollback, Rollback, Goto, TypeInv, TypeOK, WorkerPc, InTransaction
  <2>3. CASE DeadlockAbort(w)
    BY <2>3, LockFreedApi DEF DeadlockAbort, AbortWebhook
  <2> QED
    BY <1>6, <2>1, <2>2, <2>3 DEF Resolve, DeadlockExit, WorkerCrash
<1> QED
  BY <1>1, <1>2, <1>3, <1>4, <1>5, <1>6 DEF Next, Handler

\* Two workers never process one pull request's job at the same time: both would
\* hold the lock of its row.
THEOREM Exclusion == Spec => []ExclusiveJob
<1>1. Spec => [](TypeInv /\ LockInv)
  BY TypeInit, TypeStep, LockInit, LockStep, PTL DEF Spec
<1>2. LockInv => ExclusiveJob
  BY DEF LockInv, ExclusiveJob
<1> QED
  BY <1>1, <1>2, PTL

-----------------------------------------------------------------------------
(***************************************************************************)
(* The queue                                                               *)
(***************************************************************************)
QueueInv == ClaimedIsQueued /\ CancelInv

LEMMA QueueInit == Init => QueueInv
  BY DEF Init, QueueInv, ClaimedIsQueued, CancelInv, InTransaction

\* Steps that neither claim a job, nor write one, nor move the handler on.
LEMMA QueueSame ==
    ASSUME TypeInv, QueueInv, UNCHANGED <<job, req>>,
           apiPc' \in {"ready", "locked"} => apiPc \in {"ready", "locked"},
           \A x \in Workers : pc'[x] \in InTransaction =>
               pc[x] \in InTransaction /\ on'[x] = on[x]
    PROVE  QueueInv'
  BY DEF QueueInv, ClaimedIsQueued, CancelInv

\* A worker's write to the job of a pull request that no other worker processes.
LEMMA QueueWritten ==
    ASSUME TypeInv, QueueInv, NEW p \in PRs, NEW st \in JobStatus,
           job' = [job EXCEPT ![p] = st], st # "queued" \/ st = job[p],
           UNCHANGED apiVars,
           \A x \in Workers : pc'[x] \in InTransaction =>
               pc[x] \in InTransaction /\ on'[x] = on[x] /\ on[x] # p
    PROVE  QueueInv'
<1>1. ClaimedIsQueued'
  BY DEF QueueInv, ClaimedIsQueued, TypeInv, TypeOK, Located, InTransaction
<1>2. CancelInv'
  BY DEF QueueInv, CancelInv, TypeInv, TypeOK, Located, Event, apiVars
<1> QED
  BY <1>1, <1>2 DEF QueueInv

\* The webhook's commit: what it writes to a claimed job it has waited for.
LEMMA QueueCommit == TypeInv /\ LockInv /\ QueueInv /\ CommitWebhook => QueueInv'
<1> SUFFICES ASSUME TypeInv, LockInv, QueueInv, CommitWebhook PROVE QueueInv'
  OBVIOUS
<1> DEFINE p  == req.ev.pr
           st == WantedJob(req.job, req.ev)
<1>1. /\ job' = [job EXCEPT ![p] = Net(job[p], req.job, st)]
      /\ WritesJob => jobLock[p] = None
      /\ apiPc' = "idle" /\ UNCHANGED workerVars
  BY DEF CommitWebhook, FreeApi
<1>2. p \in PRs /\ req.ev \in Event
  BY DEF CommitWebhook, TypeInv, Located, Event
<1>3. ~WritesJob => st = req.job
  BY <1>2 DEF WritesJob, WantedJob, Event
<1>4. ASSUME NEW w \in Workers, pc[w] \in InTransaction PROVE job'[on[w]] = "queued"
  <2>1. on[w] \in PRs /\ jobLock[on[w]] = w /\ job[on[w]] = "queued"
    BY <1>4 DEF LockInv, QueueInv, ClaimedIsQueued, TypeInv, Located, InTransaction
  <2>2. CASE on[w] = p
    <3>1. ~WritesJob
      BY <1>1, <2>1, <2>2, NamesAssumption
    <3>2. job' = [job EXCEPT ![p] = job[p]]
      BY <1>1, <1>3, <3>1 DEF Net
    <3> QED
      BY <2>1, <3>2 DEF TypeInv, TypeOK
  <2>3. CASE on[w] # p
    BY <1>1, <2>1, <2>3 DEF TypeInv, TypeOK
  <2> QED
    BY <2>2, <2>3
<1> QED
  BY <1>1, <1>4 DEF QueueInv, ClaimedIsQueued, CancelInv, workerVars

LEMMA QueueStep == TypeInv /\ LockInv /\ QueueInv /\ [Next]_vars => QueueInv'
<1> SUFFICES ASSUME TypeInv, LockInv, QueueInv, [Next]_vars PROVE QueueInv'
  OBVIOUS
<1>1. CASE GitHub \/ StartReview \/ PauseReview \/ UNCHANGED vars
  <2>1. UNCHANGED <<job, pc, on, apiVars>>
    BY <1>1 DEF GitHub, OpenPR, Push, ClosePR, ReopenPR, Label, UserActs, Drop, StartReview,
                PauseReview, vars, rowVars, workerVars
  <2> QED
    BY <2>1, QueueSame DEF apiVars
<1>2. CASE Receive \/ ApiCrash
  <2>1. UNCHANGED <<job, pc, on>> /\ apiPc' \notin {"ready", "locked"}
    BY <1>2 DEF Receive, ReadSubmission, ApiCrash, AbortWebhook, FreeApi, rowVars, workerVars
  <2> QED
    BY <2>1 DEF QueueInv, ClaimedIsQueued, CancelInv
<1>3. CASE ReadJob
  <2>1. UNCHANGED <<job, pc, on>> /\ req'.job = job[req.ev.pr] /\ req'.ev = req.ev
    BY <1>3 DEF ReadJob, rowVars, workerVars, TypeInv, TypeOK, Request
  <2> QED
    BY <2>1 DEF QueueInv, ClaimedIsQueued, CancelInv
<1>4. CASE LockSubmission
  BY <1>4, QueueSame DEF LockSubmission, rowVars, workerVars
<1>5. ASSUME NEW w \in Workers, Process(w) PROVE QueueInv'
  <2>1. CASE Poll(w) \/ Fetch(w) \/ Begin(w) \/ RereadJob(w) \/ RereadSubmission(w)
                     \/ MarkSubmission(w)
    <3>1. UNCHANGED <<job, on, apiVars>>
      BY <2>1 DEF Poll, Fetch, Begin, RereadJob, RereadSubmission, MarkSubmission, rowVars
    <3>2. \A x \in Workers : pc'[x] \in InTransaction => pc[x] \in InTransaction
      BY <2>1 DEF Poll, Fetch, Begin, RereadJob, RereadSubmission, MarkSubmission, Goto,
                  TypeInv, TypeOK, InTransaction
    <3> QED
      BY <3>1, <3>2, QueueSame DEF apiVars
  <2>2. CASE NoJob(w) \/ Merge(w) \/ Crown(w) \/ Close(w) \/ GiveUp(w) \/ Raise(w)
    <3>1. UNCHANGED <<job, apiVars>>
      BY <2>2 DEF NoJob, Merge, Crown, Close, GiveUp, Raise, Rollback, rowVars
    <3>2. ToIdle(w) \/ (Goto(w, "crown") /\ UNCHANGED on) \/ (Goto(w, "failing") /\ UNCHANGED on)
      BY <2>2 DEF NoJob, Merge, Crown, Close, GiveUp, Raise, Rollback
    <3>3. \A x \in Workers : pc'[x] \in InTransaction =>
              pc[x] \in InTransaction /\ on'[x] = on[x]
      BY <3>2 DEF ToIdle, Goto, TypeInv, TypeOK, InTransaction
    <3> QED
      BY <3>1, <3>3, QueueSame DEF apiVars
  <2>3. CASE Claim(w)
    <3>1. PICK p \in PRs : job[p] = "queued" /\ on' = [on EXCEPT ![w] = p]
      BY <2>3 DEF Claim, Claimable
    <3>2. pc' = [pc EXCEPT ![w] = "claimed"] /\ UNCHANGED <<job, apiVars>>
      BY <2>3 DEF Claim, Goto, rowVars
    <3> QED
      BY <3>1, <3>2
      DEF QueueInv, ClaimedIsQueued, CancelInv, TypeInv, TypeOK, apiVars
  <2>4. ASSUME NEW status \in {"completed", "failed"}, NEW score \in Score,
               Finish(w, status, score)
        PROVE  QueueInv'
    <3>1. /\ on[w] \in PRs /\ pc[w] = "evaluating"
          /\ job' = [job EXCEPT ![on[w]] = status] /\ UNCHANGED <<on, apiVars>>
          /\ pc' = [pc EXCEPT ![w] = "merge"] \/ pc' = [pc EXCEPT ![w] = "close"]
      BY <2>4 DEF Finish, Goto, TypeInv, Located
    <3>2. \A x \in Workers : pc'[x] \in InTransaction =>
              pc[x] \in InTransaction /\ on'[x] = on[x] /\ on[x] # on[w]
      BY <3>1 DEF LockInv, TypeInv, TypeOK, InTransaction
    <3> QED
      BY <3>1, <3>2, QueueWritten DEF JobStatus
  <2>5. CASE MarkFailed(w)
    <3>1. /\ on[w] \in PRs /\ jobLock[on[w]] = None /\ UNCHANGED apiVars
          /\ job' = [job EXCEPT ![on[w]] = Net(job[on[w]], mem[w].job, "failed")]
          /\ ToIdle(w)
      BY <2>5 DEF MarkFailed, TypeInv, Located
    <3>2. \A x \in Workers : pc'[x] \in InTransaction =>
              pc[x] \in InTransaction /\ on'[x] = on[x] /\ on[x] # on[w]
      BY <3>1, NamesAssumption DEF ToIdle, LockInv, TypeInv, TypeOK, InTransaction
    <3>3. Net(job[on[w]], mem[w].job, "failed") \in {"failed", job[on[w]]}
      BY DEF Net
    <3> QED
      BY <3>1, <3>2, <3>3, QueueWritten DEF TypeInv, TypeOK, JobStatus
  <2> QED
    BY <1>5, <2>1, <2>2, <2>3, <2>4, <2>5 DEF Process, Score
<1>6. ASSUME NEW w \in Workers, Resolve(w) \/ WorkerCrash(w) PROVE QueueInv'
  <2>1. ASSUME NEW x \in Workers, WorkerStops(x) PROVE QueueInv'
    BY <2>1, QueueSame
    DEF WorkerStops, ToIdle, rowVars, apiVars, TypeInv, TypeOK, InTransaction
  <2>2. CASE DeadlockRollback(w)
    BY <2>2, QueueSame
    DEF DeadlockRollback, Rollback, Goto, rowVars, apiVars, TypeInv, TypeOK, InTransaction
  <2>3. CASE DeadlockAbort(w)
    BY <2>3
    DEF DeadlockAbort, AbortWebhook, FreeApi, rowVars, workerVars, QueueInv, ClaimedIsQueued,
        CancelInv
  <2> QED
    BY <1>6, <2>1, <2>2, <2>3 DEF Resolve, DeadlockExit, WorkerCrash
<1> QED
  BY <1>1, <1>2, <1>3, <1>4, <1>5, <1>6, QueueCommit DEF Next, Handler

LEMMA QueueCorrect == Spec => [](TypeInv /\ LockInv /\ QueueInv)
  BY TypeInit, TypeStep, LockInit, LockStep, QueueInit, QueueStep, PTL DEF Spec

\* While a worker processes a job the committed row still offers it, so that no
\* crash, rollback or lost connection can lose it.
THEOREM CrashGivesBack == Spec => []ClaimedIsQueued
<1>1. QueueInv => ClaimedIsQueued
  BY DEF QueueInv
<1> QED
  BY <1>1, QueueCorrect, PTL

\* A processed "closed" event leaves no queued job behind.
THEOREM Cancellation == Spec => ClosedIsCancelled
<1>1. ASSUME TypeInv, QueueInv, CommitWebhook, req.ev.kind = "closed"
      PROVE  job'[req.ev.pr] # "queued"
  <2>1. req.ev.pr \in PRs /\ apiPc = "locked"
    BY <1>1 DEF CommitWebhook, TypeInv, Located, Event
  <2>2. job'[req.ev.pr] = Net(job[req.ev.pr], req.job, WantedJob(req.job, req.ev))
    BY <1>1, <2>1 DEF CommitWebhook, TypeInv, TypeOK
  <2>3. CASE req.job = "queued"
    BY <1>1, <2>2, <2>3 DEF Net, WantedJob
  <2>4. CASE req.job # "queued"
    BY <1>1, <2>1, <2>2, <2>4 DEF Net, WantedJob, QueueInv, CancelInv
  <2> QED
    BY <2>3, <2>4
<1>2. TypeInv /\ QueueInv /\ [Next]_vars
        => [CommitWebhook /\ req.ev.kind = "closed" => job'[req.ev.pr] # "queued"]_vars
  BY <1>1
<1> QED
  BY <1>2, QueueCorrect, PTL DEF Spec, ClosedIsCancelled

-----------------------------------------------------------------------------
(***************************************************************************)
(* Isolation of an evaluation                                              *)
(***************************************************************************)
\* While one worker evaluates a submission nothing else is committed to its row:
\* every other writer needs the row lock, and waits.
THEOREM Isolation == Spec => EvaluationIsolated
<1> DEFINE A == \A w \in Workers : pc[w] = "evaluating" /\ pc'[w] = "evaluating"
                                     => sub'[on[w]] = sub[on[w]]
<1>1. ASSUME TypeInv, LockInv, Next, NEW w \in Workers, pc[w] = "evaluating",
             pc'[w] = "evaluating"
      PROVE  sub'[on[w]] = sub[on[w]]
  <2>1. on[w] \in PRs /\ subLock[on[w]] = w
    BY <1>1 DEF TypeInv, Located, LockInv
  <2>2. CASE CommitWebhook
    <3> DEFINE p   == req.ev.pr
               row == NetChange(sub[p], req.sub, Wanted(req.sub, req.ev))
    <3>a. apiPc = "locked" /\ p \in PRs /\ req.ev \in Event /\ req.sub \in SubRow
      BY <1>1, <2>2 DEF CommitWebhook, TypeInv, TypeOK, Located, Request, Event
    <3>1. /\ apiPc = "locked" /\ p \in PRs /\ req.ev \in Event /\ req.sub \in SubRow
          /\ sub' = [sub EXCEPT ![p] = row]
      BY <2>2, <3>a DEF CommitWebhook
    <3>2. CASE p = on[w]
      <4>1. ~WritesSub
        BY <1>1, <2>1, <3>1, <3>2, NamesAssumption DEF LockInv
      <4>2. Wanted(req.sub, req.ev) = req.sub
        BY <4>1 DEF WritesSub, Wanted
      <4>3. row = sub[p]
        BY <1>1, <3>1, <4>2, NetChangeNone DEF TypeInv, TypeOK
      <4> QED
        BY <1>1, <2>1, <3>1, <3>2, <4>3 DEF TypeInv, TypeOK
    <3>3. CASE p # on[w]
      BY <1>1, <2>1, <3>1, <3>3 DEF TypeInv, TypeOK
    <3> QED
      BY <3>2, <3>3
  <2>3. ASSUME NEW x \in Workers, NEW status \in {"completed", "failed"}, NEW score \in Score,
               Finish(x, status, score)
        PROVE  sub'[on[w]] = sub[on[w]]
    <3>a. pc' = [pc EXCEPT ![x] = "merge"] \/ pc' = [pc EXCEPT ![x] = "close"]
      BY <2>3 DEF Finish, Goto
    <3>1. x # w
      BY <1>1, <3>a DEF TypeInv, TypeOK
    <3>2. on[x] \in PRs /\ subLock[on[x]] = x
      BY <1>1, <2>3 DEF Finish, TypeInv, Located, LockInv
    <3> QED
      BY <1>1, <2>1, <2>3, <3>1, <3>2 DEF Finish, LockInv, TypeInv, TypeOK
  <2>4. ASSUME NEW x \in Workers, MarkFailed(x) PROVE sub'[on[w]] = sub[on[w]]
    <3>1. on[x] \in PRs /\ subLock[on[x]] = x /\ x # w
      BY <1>1, <2>4 DEF MarkFailed, TypeInv, Located, LockInv
    <3> QED
      BY <1>1, <2>1, <2>4, <3>1 DEF MarkFailed, TypeInv, TypeOK
  <2>5. CASE GitHub \/ Receive \/ ReadJob \/ LockSubmission \/ StartReview \/ PauseReview \/ ApiCrash
    <3>1. sub' = sub
      BY <2>5 DEF GitHub, OpenPR, Push, ClosePR, ReopenPR, Label, UserActs, Drop, Receive,
                  ReadSubmission, ReadJob, LockSubmission, StartReview, PauseReview, ApiCrash,
                  AbortWebhook, rowVars
    <3> QED
      BY <3>1
  <2>6. ASSUME NEW x \in Workers, Process(x) \/ Resolve(x) \/ WorkerCrash(x)
        PROVE  sub'[on[w]] = sub[on[w]]
    <3>1. CASE \E score \in Score : Finish(x, "completed", score)
      BY <3>1, <2>3
    <3>2. CASE Finish(x, "failed", None)
      BY <3>2, <2>3 DEF Score
    <3>3. CASE MarkFailed(x)
      BY <3>3, <2>4
    <3>4. CASE Poll(x) \/ NoJob(x) \/ Claim(x) \/ Fetch(x) \/ Begin(x) \/ Raise(x)
                 \/ RereadJob(x) \/ RereadSubmission(x) \/ MarkSubmission(x)
                 \/ Merge(x) \/ Crown(x) \/ Close(x) \/ GiveUp(x)
      BY <3>4 DEF Poll, NoJob, Claim, Fetch, Begin, Raise, Rollback, RereadJob,
                  RereadSubmission, MarkSubmission, Merge, Crown, Close, GiveUp, rowVars
    <3>5. CASE Resolve(x) \/ WorkerCrash(x)
      BY <3>5 DEF Resolve, DeadlockRollback, Rollback, DeadlockAbort, AbortWebhook,
                  DeadlockExit, WorkerCrash, WorkerStops, rowVars
    <3> QED
      BY <2>6, <3>1, <3>2, <3>3, <3>4, <3>5 DEF Process
  <2> QED
    BY <1>1, <2>2, <2>5, <2>6 DEF Next, Handler
<1>2. TypeInv /\ LockInv /\ [Next]_vars => [A]_vars
  BY <1>1
<1>3. Spec => [](TypeInv /\ LockInv)
  BY QueueCorrect, PTL
<1> QED
  BY <1>2, <1>3, PTL DEF Spec, EvaluationIsolated

-----------------------------------------------------------------------------
(***************************************************************************)
(* Promotion                                                               *)
(***************************************************************************)
PromotedInv == PromotionInv /\ MergedHeadWasEvaluated /\ KingIsMerged

LEMMA PromotedInit == Init => PromotedInv
  BY DEF Init, PromotedInv, PromotionInv, MergedHeadWasEvaluated, KingIsMerged

\* Runs are only added, merged pull requests stay as they are: what is not
\* touched stays promoted.
LEMMA PromotedSame ==
    ASSUME TypeInv, PromotedInv, runs \subseteq runs', UNCHANGED king,
           \A p \in PRs : /\ gh[p].state = "merged" => gh'[p] = gh[p]
                          /\ gh[p].state # "merged" => gh'[p].state # "merged",
           \A x \in Workers : \/ /\ pc'[x] = pc[x] /\ on'[x] = on[x] /\ mem'[x] = mem[x]
                                 /\ result'[x] = result[x]
                              \/ pc'[x] \notin {"merge", "crown"}
    PROVE  PromotedInv'
<1>2. ASSUME NEW x \in Workers, pc'[x] = "merge"
      PROVE  GoodRun(on[x], mem[x].sub.head, result[x])'
  <2>1. UNCHANGED <<pc[x], on[x], mem[x], result[x]>>
    BY <1>2
  <2>2. GoodRun(on[x], mem[x].sub.head, result[x])
    BY <1>2, <2>1 DEF PromotedInv, PromotionInv
  <2> QED
    BY <2>1, <2>2 DEF GoodRun
<1>3. ASSUME NEW x \in Workers, pc'[x] = "crown"
      PROVE  gh'[on'[x]].state = "merged" /\ GoodRun(on[x], gh[on[x]].head, result[x])'
  <2>1. UNCHANGED <<pc[x], on[x], mem[x], result[x]>>
    BY <1>3
  <2>2. gh[on[x]].state = "merged" /\ GoodRun(on[x], gh[on[x]].head, result[x])
    BY <1>3, <2>1 DEF PromotedInv, PromotionInv
  <2>3. gh'[on'[x]] = gh[on[x]]
    BY <1>3, <2>1, <2>2 DEF TypeInv, Located
  <2> QED
    BY <2>1, <2>2, <2>3 DEF GoodRun
<1>4. MergedHeadWasEvaluated'
  BY DEF PromotedInv, MergedHeadWasEvaluated
<1>5. KingIsMerged'
  BY DEF PromotedInv, KingIsMerged
<1> QED
  BY <1>2, <1>3, <1>4, <1>5 DEF PromotedInv, PromotionInv

\* A decision to merge comes with its run.
LEMMA PromotedFinish ==
    ASSUME TypeInv, PromotedInv, NEW w \in Workers, NEW status \in {"completed", "failed"},
           NEW score \in Score, status = "failed" => score = None, Finish(w, status, score)
    PROVE  PromotedInv'
<1> DEFINE run == [pr |-> on[w], head |-> mem[w].sub.head, status |-> status, score |-> score]
<1>1. /\ runs' = runs \cup {run} /\ UNCHANGED <<gh, king, on, mem>>
      /\ result' = [result EXCEPT ![w] = score]
      /\ \/ pc' = [pc EXCEPT ![w] = "merge"] /\ ShouldPromote(score, polled[w].king)
         \/ pc' = [pc EXCEPT ![w] = "close"]
  BY DEF Finish, Goto, gitVars
<1>2. \A x \in Workers \ {w} : pc'[x] = pc[x] /\ result'[x] = result[x]
  BY <1>1 DEF TypeInv, TypeOK
<1>3. CASE pc'[w] \notin {"merge", "crown"}
  <2>1. \A x \in Workers : \/ /\ pc'[x] = pc[x] /\ on'[x] = on[x] /\ mem'[x] = mem[x]
                              /\ result'[x] = result[x]
                           \/ pc'[x] \notin {"merge", "crown"}
    BY <1>1, <1>2, <1>3
  <2>2. runs \subseteq runs'
    BY <1>1
  <2> QED
    BY <1>1, <2>1, <2>2, PromotedSame
<1>4. CASE pc'[w] = "merge"
  <2>1. ShouldPromote(score, polled[w].king)
    BY <1>1, <1>4 DEF TypeInv, TypeOK
  <2>2. run \in runs' /\ status = "completed" /\ score # None /\ score >= Threshold
        /\ result'[w] = score
    BY <1>1, <2>1 DEF ShouldPromote, TypeInv, TypeOK
  <2>3. GoodRun(on[w], mem[w].sub.head, result[w])'
    BY <1>1, <2>2 DEF GoodRun
  <2>4. ASSUME NEW x \in Workers, pc'[x] = "merge"
        PROVE  GoodRun(on[x], mem[x].sub.head, result[x])'
    <3>1. CASE x = w
      BY <2>3, <3>1
    <3>2. CASE x # w
      <4>1. GoodRun(on[x], mem[x].sub.head, result[x])
        BY <1>2, <2>4, <3>2 DEF PromotedInv, PromotionInv
      <4> QED
        BY <1>1, <1>2, <3>2, <4>1 DEF GoodRun
    <3> QED
      BY <3>1, <3>2
  <2>5. ASSUME NEW x \in Workers, pc'[x] = "crown"
        PROVE  gh'[on'[x]].state = "merged" /\ GoodRun(on[x], gh[on[x]].head, result[x])'
    <3>1. x # w
      BY <1>4, <2>5
    <3>2. gh[on[x]].state = "merged" /\ GoodRun(on[x], gh[on[x]].head, result[x])
      BY <1>2, <2>5, <3>1 DEF PromotedInv, PromotionInv
    <3> QED
      BY <1>1, <1>2, <3>1, <3>2 DEF GoodRun
  <2>6. MergedHeadWasEvaluated' /\ KingIsMerged'
    BY <1>1 DEF PromotedInv, MergedHeadWasEvaluated, KingIsMerged
  <2> QED
    BY <2>4, <2>5, <2>6 DEF PromotedInv, PromotionInv
<1> QED
  BY <1>1, <1>3, <1>4 DEF TypeInv, TypeOK

\* What GitHub merges is the commit of the decision: the call names it.
LEMMA PromotedMerge ==
    ASSUME TypeInv, PromotedInv, NEW w \in Workers, Merge(w)
    PROVE  PromotedInv'
<1> DEFINE p == on[w]
<1>1. /\ p \in PRs /\ pc[w] = "merge" /\ gh[p].state = "open" /\ gh[p].head = mem[w].sub.head
      /\ gh' = [gh EXCEPT ![p].state = "merged"] /\ UNCHANGED <<runs, king>>
      /\ \/ pc' = [pc EXCEPT ![w] = "crown"] /\ UNCHANGED <<on, mem, result>>
         \/ ToIdle(w)
  BY DEF Merge, MergeAccepted, BotActs, Goto, rowVars, TypeInv, Located
<1>2. /\ gh'[p].state = "merged" /\ gh'[p].head = gh[p].head
      /\ \A q \in PRs \ {p} : gh'[q] = gh[q]
  BY <1>1 DEF TypeInv, TypeOK
<1>3. GoodRun(p, gh[p].head, result[w])
  BY <1>1 DEF PromotedInv, PromotionInv
<1>4. MergedHeadWasEvaluated'
  BY <1>1, <1>2, <1>3 DEF PromotedInv, MergedHeadWasEvaluated, GoodRun
<1>5. KingIsMerged'
  <2> SUFFICES ASSUME king # Threshold PROVE KingIsMerged'
    BY <1>1 DEF KingIsMerged
  <2>1. PICK q \in PRs : gh[q].state = "merged"
                         /\ \E r \in runs : r.pr = q /\ r.head = gh[q].head /\ r.score = king
    BY DEF PromotedInv, KingIsMerged
  <2>2. gh'[q] = gh[q]
    BY <1>1, <1>2, <2>1
  <2> QED
    BY <1>1, <2>1, <2>2 DEF KingIsMerged
<1>6. ASSUME NEW x \in Workers, x # w
      PROVE  UNCHANGED <<pc[x], on[x], mem[x], result[x]>>
  BY <1>1, <1>6 DEF ToIdle, TypeInv, TypeOK
<1>7. pc'[w] # "merge" /\ (pc'[w] = "crown" => UNCHANGED <<on, result>>)
  BY <1>1 DEF ToIdle, TypeInv, TypeOK
<1>8. ASSUME NEW x \in Workers, pc'[x] = "merge"
      PROVE  GoodRun(on[x], mem[x].sub.head, result[x])'
  <2>1. GoodRun(on[x], mem[x].sub.head, result[x]) /\ UNCHANGED <<on[x], mem[x], result[x]>>
    BY <1>6, <1>7, <1>8 DEF PromotedInv, PromotionInv
  <2> QED
    BY <1>1, <2>1 DEF GoodRun
<1>9. ASSUME NEW x \in Workers, pc'[x] = "crown"
      PROVE  gh'[on'[x]].state = "merged" /\ GoodRun(on[x], gh[on[x]].head, result[x])'
  <2>1. CASE x = w
    BY <1>1, <1>2, <1>3, <1>7, <1>9, <2>1 DEF GoodRun
  <2>2. CASE x # w
    <3>1. /\ gh[on[x]].state = "merged" /\ GoodRun(on[x], gh[on[x]].head, result[x])
          /\ on[x] \in PRs /\ UNCHANGED <<on[x], result[x]>>
      BY <1>6, <1>9, <2>2 DEF PromotedInv, PromotionInv, TypeInv, Located
    <3>2. gh'[on'[x]] = gh[on[x]]
      BY <1>1, <1>2, <3>1
    <3> QED
      BY <1>1, <3>1, <3>2 DEF GoodRun
  <2> QED
    BY <2>1, <2>2
<1> QED
  BY <1>4, <1>5, <1>8, <1>9 DEF PromotedInv, PromotionInv

\* The king score follows a merge.
LEMMA PromotedCrown ==
    ASSUME TypeInv, PromotedInv, NEW w \in Workers, Crown(w)
    PROVE  PromotedInv'
<1>1. /\ pc[w] = "crown" /\ on[w] \in PRs /\ king' = result[w] /\ UNCHANGED <<gh, runs>>
      /\ ToIdle(w)
  BY DEF Crown, gitVars, rowVars, TypeInv, Located
<1>2. gh[on[w]].state = "merged" /\ GoodRun(on[w], gh[on[w]].head, result[w])
  BY <1>1 DEF PromotedInv, PromotionInv
<1>3. KingIsMerged'
  BY <1>1, <1>2 DEF KingIsMerged, GoodRun
<1>4. MergedHeadWasEvaluated'
  BY <1>1 DEF PromotedInv, MergedHeadWasEvaluated
<1>5. ASSUME NEW x \in Workers, pc'[x] \in {"merge", "crown"}
      PROVE  UNCHANGED <<pc[x], on[x], mem[x], result[x]>>
  BY <1>1, <1>5 DEF ToIdle, TypeInv, TypeOK
<1>6. ASSUME NEW x \in Workers, pc'[x] = "merge"
      PROVE  GoodRun(on[x], mem[x].sub.head, result[x])'
  BY <1>1, <1>5, <1>6 DEF PromotedInv, PromotionInv, GoodRun
<1>7. ASSUME NEW x \in Workers, pc'[x] = "crown"
      PROVE  gh'[on'[x]].state = "merged" /\ GoodRun(on[x], gh[on[x]].head, result[x])'
  BY <1>1, <1>5, <1>7 DEF PromotedInv, PromotionInv, GoodRun
<1> QED
  BY <1>3, <1>4, <1>6, <1>7 DEF PromotedInv, PromotionInv

LEMMA PromotedStep == TypeInv /\ PromotedInv /\ [Next]_vars => PromotedInv'
<1> SUFFICES ASSUME TypeInv, PromotedInv, [Next]_vars PROVE PromotedInv'
  OBVIOUS
<1> DEFINE GhKept == \A p \in PRs : /\ gh[p].state = "merged" => gh'[p] = gh[p]
                                    /\ gh[p].state # "merged" => gh'[p].state # "merged"
           Kept   == \A x \in Workers :
                         \/ /\ pc'[x] = pc[x] /\ on'[x] = on[x] /\ mem'[x] = mem[x]
                            /\ result'[x] = result[x]
                         \/ pc'[x] \notin {"merge", "crown"}
<1>1. ASSUME NEW p \in PRs, NEW st \in {"open", "closed"}, NEW h, gh[p].state # "merged",
             \/ gh' = [gh EXCEPT ![p] = [state |-> st, head |-> h]]
             \/ gh' = [gh EXCEPT ![p].state = st]
      PROVE  GhKept
  BY <1>1 DEF TypeInv, TypeOK
<1>2. ASSUME UNCHANGED gh PROVE GhKept
  BY <1>2
<1>3. CASE GitHub
  <2>1. /\ GhKept
    <3>1. ASSUME NEW p \in PRs, OpenPR(p) \/ Push(p) \/ ClosePR(p) \/ ReopenPR(p) \/ Label(p)
          PROVE  GhKept
      BY <1>1, <3>1 DEF OpenPR, Push, ClosePR, ReopenPR, Label, UserActs
    <3>2. ASSUME NEW d \in deliveries, Drop(d) PROVE GhKept
      BY <1>2, <3>2 DEF Drop
    <3> QED
      BY <1>3, <3>1, <3>2 DEF GitHub
  <2>2. UNCHANGED <<rowVars, king, workerVars>>
    BY <1>3 DEF GitHub, OpenPR, Push, ClosePR, ReopenPR, Label, UserActs, Drop
  <2>3. Kept /\ runs \subseteq runs' /\ UNCHANGED king
    BY <2>2 DEF rowVars, workerVars
  <2> QED
    BY <2>1, <2>3, PromotedSame
<1>4. CASE Receive \/ Handler \/ StartReview \/ PauseReview \/ ApiCrash \/ UNCHANGED vars
  <2>1. UNCHANGED <<gh, runs, king, workerVars>>
    BY <1>4 DEF Receive, ReadSubmission, Handler, ReadJob, LockSubmission, CommitWebhook,
                StartReview, PauseReview, ApiCrash, AbortWebhook, vars, gitVars, rowVars
  <2>2. Kept /\ GhKept /\ runs \subseteq runs' /\ UNCHANGED king
    BY <2>1 DEF workerVars
  <2> QED
    BY <2>2, PromotedSame
<1>5. ASSUME NEW w \in Workers, Process(w) PROVE PromotedInv'
  <2>1. CASE \E score \in Score : Finish(w, "completed", score)
    BY <2>1, PromotedFinish
  <2>2. CASE Finish(w, "failed", None)
    BY <2>2, PromotedFinish DEF Score
  <2>3. CASE Merge(w)
    BY <2>3, PromotedMerge
  <2>4. CASE Crown(w)
    BY <2>4, PromotedCrown
  <2>5. CASE Close(w)
    <3>1. on[w] \in PRs /\ gh[on[w]].state = "open"
          /\ gh' = [gh EXCEPT ![on[w]].state = "closed"]
      BY <2>5 DEF Close, BotActs, TypeInv, Located
    <3>2. GhKept
      BY <1>1, <3>1
    <3>3. Kept /\ runs \subseteq runs' /\ UNCHANGED king
      BY <2>5 DEF Close, ToIdle, rowVars, TypeInv, TypeOK
    <3> QED
      BY <3>2, <3>3, PromotedSame
  <2>6. CASE Poll(w) \/ NoJob(w) \/ Claim(w) \/ Fetch(w) \/ Begin(w) \/ Raise(w)
               \/ RereadJob(w) \/ RereadSubmission(w) \/ MarkSubmission(w) \/ MarkFailed(w)
               \/ GiveUp(w)
    <3>1. UNCHANGED <<gh, runs, king>>
      BY <2>6 DEF Poll, NoJob, Claim, Fetch, Begin, Raise, Rollback, RereadJob,
                  RereadSubmission, MarkSubmission, MarkFailed, GiveUp, gitVars, rowVars
    <3>2. \A x \in Workers \ {w} : /\ pc'[x] = pc[x] /\ on'[x] = on[x] /\ mem'[x] = mem[x]
                                   /\ result'[x] = result[x]
      BY <2>6 DEF Poll, NoJob, Claim, Fetch, Begin, Raise, Rollback, RereadJob,
                  RereadSubmission, MarkSubmission, MarkFailed, GiveUp, Goto, ToIdle,
                  TypeInv, TypeOK
    <3>3. pc'[w] \notin {"merge", "crown"}
      BY <2>6 DEF Poll, NoJob, Claim, Fetch, Begin, Raise, Rollback, RereadJob,
                  RereadSubmission, MarkSubmission, MarkFailed, GiveUp, Goto, ToIdle,
                  TypeInv, TypeOK
    <3>4. Kept /\ runs \subseteq runs' /\ GhKept
      BY <3>1, <3>2, <3>3
    <3> QED
      BY <3>1, <3>4, PromotedSame
  <2> QED
    BY <1>5, <2>1, <2>2, <2>3, <2>4, <2>5, <2>6 DEF Process
<1>6. ASSUME NEW w \in Workers, Resolve(w) \/ WorkerCrash(w) PROVE PromotedInv'
  <2>1. UNCHANGED <<gh, runs, king>>
    BY <1>6 DEF Resolve, DeadlockRollback, Rollback, DeadlockAbort, AbortWebhook, DeadlockExit,
                WorkerCrash, WorkerStops, gitVars, rowVars
  <2>2. Kept
    BY <1>6 DEF Resolve, DeadlockRollback, Rollback, DeadlockAbort, AbortWebhook, DeadlockExit,
                WorkerCrash, WorkerStops, ToIdle, Goto, workerVars, TypeInv, TypeOK
  <2>3. GhKept /\ runs \subseteq runs'
    BY <2>1
  <2> QED
    BY <2>1, <2>2, <2>3, PromotedSame
<1> QED
  BY <1>3, <1>4, <1>5, <1>6 DEF Next

LEMMA PromotedCorrect == Spec => [](TypeInv /\ PromotedInv)
  BY TypeInit, TypeStep, PromotedInit, PromotedStep, PTL DEF Spec

\* Whatever is merged was evaluated, at that very commit, and passed.
THEOREM MergeSafety == Spec => []MergedHeadWasEvaluated
<1>1. PromotedInv => MergedHeadWasEvaluated
  BY DEF PromotedInv
<1> QED
  BY <1>1, PromotedCorrect, PTL

\* The king score is that of a merged commit.
THEOREM KingSafety == Spec => []KingIsMerged
<1>1. PromotedInv => KingIsMerged
  BY DEF PromotedInv
<1> QED
  BY <1>1, PromotedCorrect, PTL

-----------------------------------------------------------------------------
(***************************************************************************)
(* The pipeline implements Promotion                                       *)
(***************************************************************************)
\* A passing run is one of the runs that Promotion knows.
LEMMA PassedRun ==
    ASSUME NEW p, NEW h, NEW score
    PROVE  GoodRun(p, h, score) <=> [pr |-> p, head |-> h, score |-> score] \in Passed
<1> DEFINE View(r) == [pr |-> r.pr, head |-> r.head, score |-> r.score]
           good == {x \in runs : x.status = "completed" /\ x.score # None /\ x.score >= Threshold}
<1>1. Passed = {View(r) : r \in good}
  BY DEF Passed
<1>2. GoodRun(p, h, score) <=> \E r \in good : r.pr = p /\ r.head = h /\ r.score = score
  BY DEF GoodRun
<1>3. \A r : View(r) = View([pr |-> p, head |-> h, score |-> score])
               <=> r.pr = p /\ r.head = h /\ r.score = score
  OBVIOUS
<1>4. View([pr |-> p, head |-> h, score |-> score]) = [pr |-> p, head |-> h, score |-> score]
  OBVIOUS
<1> HIDE DEF View, good
<1> QED
  BY <1>1, <1>2, <1>3, <1>4

\* Only the commit of an evaluation adds to them, and it adds at most one.
LEMMA PassedFinish ==
    ASSUME TypeInv, NEW w \in Workers, NEW status \in {"completed", "failed"}, NEW score \in Score,
           Finish(w, status, score)
    PROVE  Passed' = Passed \/ \E r \in P!Passing : Passed' = Passed \cup {r}
<1> DEFINE View(x) == [pr |-> x.pr, head |-> x.head, score |-> x.score]
           Good(R) == {x \in R : x.status = "completed" /\ x.score # None /\ x.score >= Threshold}
<1>1. PICK run : /\ run = [pr |-> on[w], head |-> mem[w].sub.head, status |-> status,
                           score |-> score]
                 /\ runs' = runs \cup {run}
  BY DEF Finish
<1>2. Passed = {View(x) : x \in Good(runs)} /\ Passed' = {View(x) : x \in Good(runs')}
  BY DEF Passed
<1>3. CASE run \notin Good(runs')
  <2>1. Good(runs') = Good(runs)
    BY <1>1, <1>3
  <2> HIDE DEF View, Good
  <2> QED
    BY <1>2, <2>1
<1>4. CASE run \in Good(runs')
  <2>1. Good(runs') = Good(runs) \cup {run}
    BY <1>1, <1>4
  <2>2. Passed' = Passed \cup {View(run)}
    <3> HIDE DEF View, Good
    <3> QED
      BY <1>2, <2>1
  <2>3. run \in Run
    <3>1. TypeOK'
      BY TypeFinish DEF TypeInv
    <3> QED
      BY <1>1, <3>1 DEF TypeOK
  <2>4. run.pr \in PRs /\ run.head \in AnyHead /\ run.score \in Scores /\ run.score >= Threshold
    BY <1>4, <2>3 DEF Run, Score
  <2>5. View(run) \in P!Passing
    BY <2>4 DEF P!Passing
  <2> QED
    BY <2>2, <2>5
<1> QED
  BY <1>3, <1>4

\* To change the state of a pull request is to leave its head alone.
LEMMA StateOnly ==
    ASSUME TypeInv, NEW p \in PRs, NEW st, gh' = [gh EXCEPT ![p].state = st]
    PROVE  gh' = [gh EXCEPT ![p] = [state |-> st, head |-> gh[p].head]]
<1>1. PICK g : g = gh[p] /\ g \in [state: {"none", "open", "closed", "merged"}, head: Heads]
  BY DEF TypeInv, TypeOK
<1>2. [g EXCEPT !.state = st] = [state |-> st, head |-> g.head]
  BY <1>1
<1>3. gh' = [gh EXCEPT ![p] = [g EXCEPT !.state = st]]
  BY <1>1
<1> QED
  BY <1>1, <1>2, <1>3

\* A pull request is its state and its head.
LEMMA PullRecord ==
    ASSUME TypeInv, NEW p \in PRs
    PROVE  gh[p] = [state |-> gh[p].state, head |-> gh[p].head]
<1>1. PICK g : g = gh[p] /\ g \in [state: {"none", "open", "closed", "merged"}, head: Heads]
  BY DEF TypeInv, TypeOK
<1>2. g = [state |-> g.state, head |-> g.head]
  BY <1>1
<1> QED
  BY <1>1, <1>2

\* What the pipeline does to pull requests, scores and the king score is what
\* Promotion allows, for any number of pull requests and workers.
THEOREM PromotionImplemented == Spec => PromotionKept
<1>1. Init => P!Init
  BY DEF Init, P!Init, Passed
<1>2. TypeInv /\ PromotedInv /\ [Next]_vars => [P!Next]_(P!vars)
  <2> SUFFICES ASSUME TypeInv, PromotedInv, [Next]_vars PROVE [P!Next]_(P!vars)
    OBVIOUS
  <2>1. ASSUME UNCHANGED <<gh, runs, king>> PROVE UNCHANGED P!vars
    BY <2>1 DEF P!vars, Passed
  <2>2. ASSUME NEW p \in PRs, NEW st \in {"open", "closed"}, NEW h \in Heads,
               gh[p].state # "merged", gh' = [gh EXCEPT ![p] = [state |-> st, head |-> h]],
               UNCHANGED <<runs, king>>
        PROVE  P!Next
    <3>1. P!Change(p, st, h)
      BY <2>2 DEF P!Change, Passed
    <3> QED
      BY <3>1 DEF P!Next
  <2>3. CASE GitHub
    <3>1. ASSUME NEW p \in PRs, OpenPR(p) \/ Push(p) \/ ClosePR(p) \/ ReopenPR(p) \/ Label(p)
          PROVE  P!Next
      <4>1. gh[p].state # "merged" /\ gh[p].head \in Heads /\ UNCHANGED <<runs, king>>
        BY <3>1 DEF OpenPR, Push, ClosePR, ReopenPR, Label, UserActs, rowVars, TypeInv, TypeOK
      <4>2. \E st \in {"open", "closed"}, h \in Heads :
               gh' = [gh EXCEPT ![p] = [state |-> st, head |-> h]]
        BY <3>1, <4>1, BoundsAssumption
           DEF OpenPR, Push, ClosePR, ReopenPR, Label, UserActs, Heads
      <4> QED
        BY <2>2, <4>1, <4>2
    <3>2. ASSUME NEW d \in deliveries, Drop(d) PROVE UNCHANGED P!vars
      BY <2>1, <3>2 DEF Drop, rowVars
    <3> QED
      BY <2>3, <3>1, <3>2 DEF GitHub
  <2>4. CASE Receive \/ Handler \/ StartReview \/ PauseReview \/ ApiCrash \/ UNCHANGED vars
    <3>1. UNCHANGED <<gh, runs, king>>
      BY <2>4 DEF Receive, ReadSubmission, Handler, ReadJob, LockSubmission, CommitWebhook,
                  StartReview, PauseReview, ApiCrash, AbortWebhook, vars, gitVars, rowVars
    <3> QED
      BY <2>1, <3>1
  <2>5. ASSUME NEW w \in Workers, Process(w) PROVE [P!Next]_(P!vars)
    <3>1. ASSUME NEW status \in {"completed", "failed"}, NEW score \in Score,
                 Finish(w, status, score)
          PROVE  [P!Next]_(P!vars)
      <4>1. UNCHANGED <<gh, king>>
        BY <3>1 DEF Finish, gitVars
      <4>2. CASE Passed' = Passed
        BY <4>1, <4>2 DEF P!vars
      <4>3. ASSUME NEW r \in P!Passing, Passed' = Passed \cup {r} PROVE P!Next
        BY <4>1, <4>3 DEF P!Pass, P!Next
      <4> QED
        BY <3>1, <4>2, <4>3, PassedFinish
    <3>2. CASE Merge(w)
      <4>1. /\ gh[on[w]].state = "open" /\ gh[on[w]].head = mem[w].sub.head /\ on[w] \in PRs
            /\ gh' = [gh EXCEPT ![on[w]].state = "merged"] /\ UNCHANGED <<runs, king>>
        BY <3>2 DEF Merge, MergeAccepted, BotActs, rowVars, TypeInv, Located
      <4>2. GoodRun(on[w], gh[on[w]].head, result[w])
        BY <3>2, <4>1 DEF Merge, PromotedInv, PromotionInv
      <4> DEFINE r == [pr |-> on[w], head |-> gh[on[w]].head, score |-> result[w]]
      <4>3. r \in Passed
        BY <4>2, PassedRun
      <4>4. /\ gh[on[w]] = [state |-> "open", head |-> gh[on[w]].head]
            /\ gh' = [gh EXCEPT ![on[w]] = [state |-> "merged", head |-> gh[on[w]].head]]
        BY <4>1, PullRecord, StateOnly
      <4>5. r.pr = on[w] /\ r.head = gh[on[w]].head
        OBVIOUS
      <4> HIDE DEF r
      <4>6. P!Merge(r)
        BY <4>1, <4>4, <4>5 DEF P!Merge, Passed
      <4> QED
        BY <4>3, <4>6 DEF P!Next
    <3>3. CASE Crown(w)
      <4>1. king' = result[w] /\ on[w] \in PRs /\ UNCHANGED <<gh, runs>>
        BY <3>3 DEF Crown, gitVars, rowVars, TypeInv, Located
      <4>2. gh[on[w]].state = "merged" /\ GoodRun(on[w], gh[on[w]].head, result[w])
        BY <3>3 DEF Crown, PromotedInv, PromotionInv
      <4> DEFINE r == [pr |-> on[w], head |-> gh[on[w]].head, score |-> result[w]]
      <4>3. r \in Passed
        BY <4>2, PassedRun
      <4>4. gh[on[w]] = [state |-> "merged", head |-> gh[on[w]].head]
        BY <4>1, <4>2, PullRecord
      <4>5. r.pr = on[w] /\ r.head = gh[on[w]].head /\ r.score = result[w]
        OBVIOUS
      <4> HIDE DEF r
      <4>6. P!Crown(r)
        BY <4>1, <4>2, <4>4, <4>5 DEF P!Crown, Passed
      <4> QED
        BY <4>3, <4>6 DEF P!Next
    <3>4. CASE Close(w)
      <4>1. /\ on[w] \in PRs /\ gh[on[w]].state = "open" /\ gh[on[w]].head \in Heads
            /\ gh' = [gh EXCEPT ![on[w]].state = "closed"] /\ UNCHANGED <<runs, king>>
        BY <3>4 DEF Close, BotActs, rowVars, TypeInv, TypeOK, Located
      <4>2. gh' = [gh EXCEPT ![on[w]] = [state |-> "closed", head |-> gh[on[w]].head]]
        BY <4>1, StateOnly
      <4> QED
        BY <2>2, <4>1, <4>2
    <3>5. CASE Poll(w) \/ NoJob(w) \/ Claim(w) \/ Fetch(w) \/ Begin(w) \/ Raise(w)
                 \/ RereadJob(w) \/ RereadSubmission(w) \/ MarkSubmission(w) \/ MarkFailed(w)
                 \/ GiveUp(w)
      <4>1. UNCHANGED <<gh, runs, king>>
        BY <3>5 DEF Poll, NoJob, Claim, Fetch, Begin, Raise, Rollback, RereadJob,
                    RereadSubmission, MarkSubmission, MarkFailed, GiveUp, gitVars, rowVars
      <4> QED
        BY <2>1, <4>1
    <3> QED
      BY <2>5, <3>1, <3>2, <3>3, <3>4, <3>5 DEF Process, Score
  <2>6. ASSUME NEW w \in Workers, Resolve(w) \/ WorkerCrash(w) PROVE UNCHANGED P!vars
    <3>1. UNCHANGED <<gh, runs, king>>
      BY <2>6 DEF Resolve, DeadlockRollback, Rollback, DeadlockAbort, AbortWebhook,
                  DeadlockExit, WorkerCrash, WorkerStops, gitVars, rowVars
    <3> QED
      BY <2>1, <3>1
  <2> QED
    BY <2>3, <2>4, <2>5, <2>6 DEF Next
<1> QED
  BY <1>1, <1>2, PromotedCorrect, PTL DEF Spec, PromotionKept, P!Spec

-----------------------------------------------------------------------------
(***************************************************************************)
(* One worker                                                              *)
(***************************************************************************)
\* The worker's snapshot of the king score is current, and beaten.
SnapshotInv ==
    \A w \in Workers : /\ pc[w] # "idle" => polled[w].king = king
                       /\ pc[w] \in {"merge", "crown"} => result[w] > king

\* With a single worker the king score never drops: nobody else can have raised
\* it between the poll and the promotion.
THEOREM KingGrows == ASSUME NEW v, Workers = {v} PROVE Spec => KingNeverDrops
<1>1. Init => SnapshotInv
  BY DEF Init, SnapshotInv
<1>2. TypeInv /\ SnapshotInv /\ [Next]_vars => SnapshotInv'
  <2> SUFFICES ASSUME TypeInv, SnapshotInv, [Next]_vars PROVE SnapshotInv'
    OBVIOUS
  <2>1. CASE GitHub \/ Receive \/ Handler \/ StartReview \/ PauseReview \/ ApiCrash
             \/ UNCHANGED vars
    <3>1. UNCHANGED <<king, workerVars>>
      BY <2>1 DEF GitHub, OpenPR, Push, ClosePR, ReopenPR, Label, UserActs, Drop, Receive,
                  ReadSubmission, Handler, ReadJob, LockSubmission, CommitWebhook,
                  StartReview, PauseReview, ApiCrash, AbortWebhook, vars
    <3> QED
      BY <3>1 DEF SnapshotInv, workerVars
  <2>2. CASE Process(v)
    <3>1. CASE Poll(v)
      BY <3>1 DEF Poll, Goto, SnapshotInv, TypeInv, TypeOK
    <3>2. ASSUME NEW status, NEW score \in Score, Finish(v, status, score) PROVE SnapshotInv'
      BY <3>2 DEF Finish, Goto, ShouldPromote, SnapshotInv, TypeInv, TypeOK
    <3>3. CASE NoJob(v) \/ Claim(v) \/ Fetch(v) \/ Begin(v) \/ Raise(v) \/ RereadJob(v)
                 \/ RereadSubmission(v) \/ MarkSubmission(v) \/ MarkFailed(v)
                 \/ Merge(v) \/ Close(v) \/ GiveUp(v)
      <4>1. king' = king
        BY <3>3 DEF NoJob, Claim, Fetch, Begin, Raise, Rollback, RereadJob, RereadSubmission,
                    MarkSubmission, MarkFailed, Merge, Close, GiveUp
      <4>2. \/ pc'[v] = "idle"
            \/ /\ UNCHANGED <<polled, result>>
               /\ pc[v] # "idle"
               /\ pc'[v] \in {"merge", "crown"} => pc[v] \in {"merge", "crown"}
        BY <3>3 DEF NoJob, Claim, Fetch, Begin, Raise, Rollback, RereadJob, RereadSubmission,
                    MarkSubmission, MarkFailed, Merge, Close, GiveUp, Goto, ToIdle,
                    InTransaction, TypeInv, TypeOK
      <4> QED
        BY <4>1, <4>2 DEF SnapshotInv
    <3>4. CASE Crown(v)
      BY <3>4 DEF Crown, ToIdle, SnapshotInv, TypeInv, TypeOK
    <3> QED
      BY <2>2, <3>1, <3>2, <3>3, <3>4 DEF Process, Score
  <2>3. CASE Resolve(v) \/ WorkerCrash(v)
    <3>1. king' = king
      BY <2>3 DEF Resolve, DeadlockRollback, Rollback, DeadlockAbort, AbortWebhook,
                  DeadlockExit, WorkerCrash, WorkerStops
    <3>2. \/ pc'[v] = "idle"
          \/ pc[v] = "fetched" /\ pc'[v] = "failing" /\ UNCHANGED <<polled, result>>
          \/ UNCHANGED workerVars
      BY <2>3 DEF Resolve, Deadlocked, DeadlockRollback, Rollback, DeadlockAbort, AbortWebhook,
                  DeadlockExit, WorkerCrash, WorkerStops, ToIdle, Goto, TypeInv, TypeOK
    <3> QED
      BY <3>1, <3>2 DEF SnapshotInv, workerVars
  <2> QED
    BY <2>1, <2>2, <2>3 DEF Next
<1>3. TypeInv /\ SnapshotInv /\ [Next]_vars => [king' >= king]_vars
  <2>1. ASSUME TypeInv PROVE king \in Int
    BY <2>1, ScoresAssumption DEF TypeInv, TypeOK
  <2> SUFFICES ASSUME TypeInv, SnapshotInv, [Next]_vars, king' # king PROVE king' >= king
    BY <2>1
  <2>2. ASSUME NEW w \in Workers, Crown(w) PROVE king' >= king
    <3>1. king' = result[w] /\ result[w] \in Int /\ result[w] > king
      BY <2>2, ScoresAssumption DEF Crown, SnapshotInv, TypeInv, Located
    <3> QED
      BY <2>1, <3>1
  <2>3. CASE \E w \in Workers : Process(w)
    BY <2>2, <2>3 DEF Process, Poll, NoJob, Claim, Fetch, Begin, Raise, Rollback, Finish,
                      RereadJob, RereadSubmission, MarkSubmission, MarkFailed, Merge, Close,
                      GiveUp
  <2>4. CASE GitHub \/ Receive \/ Handler \/ StartReview \/ PauseReview \/ ApiCrash
             \/ UNCHANGED vars \/ \E w \in Workers : Resolve(w) \/ WorkerCrash(w)
    BY <2>4 DEF GitHub, OpenPR, Push, ClosePR, ReopenPR, Label, UserActs, Drop, Receive,
                ReadSubmission, Handler, ReadJob, LockSubmission, CommitWebhook,
                StartReview, PauseReview, ApiCrash, AbortWebhook, vars, Resolve,
                DeadlockRollback, Rollback, DeadlockAbort, DeadlockExit, WorkerCrash,
                WorkerStops
  <2> QED
    BY <2>3, <2>4 DEF Next
<1> QED
  BY <1>1, <1>2, <1>3, TypeInit, TypeStep, PTL DEF Spec, KingNeverDrops
=============================================================================
