--------------------------- MODULE JobKindsProofs ---------------------------
(***************************************************************************)
(* What the shared queue keeps, for every number of submissions, workers,  *)
(* requests and faults: jobs and the runs they are for end alike, no       *)
(* upload is stranded, and a deletion outlives every row a worker loaded   *)
(* before it.                                                              *)
(***************************************************************************)
EXTENDS JobKinds, FiniteSetTheorems, SequenceTheorems, TLAPS

-----------------------------------------------------------------------------
(***************************************************************************)
(* The inductive invariant                                                 *)
(***************************************************************************)

\* A job is enqueued in the transaction that inserts its run.
RunsExist ==
    /\ \A t \in TrainIds : job[TrainJob(t)].status # "absent" => t \in DOMAIN trains
    /\ \A e \in EvalIds : job[ProviderJob(e)].status # "absent"
                            => e \in DOMAIN evals /\ evals[e].sub = None

\* t, when there is one, is a train of s that stored its checkpoint.
Stored(t, s) == t # 0 => t \in DOMAIN trains /\ trains[t].output /\ trains[t].sub = s

Payloads ==
    /\ \A t \in TrainIds : job[TrainJob(t)].status = "queued" => ~trains[t].output
    /\ \A s \in Subs : Stored(job[EvalJob(s)].train, s)
    /\ \A e \in DOMAIN evals : Stored(evals[e].train, evals[e].sub)

\* No row names an evaluation that is still to come; what does not exist is not
\* deleted.
SubsSound ==
    \A s \in Subs : /\ sub[s].eval <= Len(evals)
                    /\ sub[s].status = "absent" => ~sub[s].deleted

\* The open request names a submission, and a deletion rows that exist.
RequestOpen ==
    /\ req.stage = "idle" <=> req.op = ""
    /\ req.op = "submit" => req.sub \in PullRequests
    /\ req.op \in {"delete", "sync"} => req.sub \in Subs
    /\ req.op = "delete" => /\ sub[req.sub].status # "absent"
                            /\ \A k \in req.seen : job[k].status # "absent"

\* Who holds a job holds one that is queued.  A train or provider job that
\* failed is not queued again: a worker that read "failed", and keeps it, leaves
\* no other end in place.
WorkerSound(w) ==
    /\ pc[w] # "idle" => job[on[w]].status # "absent"
    /\ pc[w] \in InTransaction => job[on[w]].status = "queued"
    /\ pc[w] = "marking" /\ on[w][1] # "evaluation" /\ mem[w].job = "failed"
         => job[on[w]].status \in {"failed", "cancelled"}
    /\ \A s \in Subs : on[w] = EvalJob(s) => Stored(mem[w].train, s)
    /\ mem[w].row.eval <= Len(evals)

Exclusive ==
    \A w, x \in Workers :
        pc[w] \in InTransaction /\ pc[x] \in InTransaction /\ on[w] = on[x] => w = x

RowsSound == RunsExist /\ Payloads /\ SubsSound /\ RunsAgreeWithJobs /\ UploadsNotStranded

WorkersSound == Exclusive /\ \A w \in Workers : WorkerSound(w)

Inv == TypeOK /\ RowsSound /\ RequestOpen /\ WorkersSound

-----------------------------------------------------------------------------
(***************************************************************************)
(* Keys of jobs                                                            *)
(***************************************************************************)
LEMMA Bounds == /\ MaxHead \in Nat /\ MaxTrains \in Nat /\ MaxEvals \in Nat
                /\ MaxRequests \in Nat /\ MaxFaults \in Nat
BY BoundsAssumption

LEMMA KeysApart ==
    /\ \A t, u \in TrainIds : TrainJob(t) = TrainJob(u) => t = u
    /\ \A s, r \in Subs : EvalJob(s) = EvalJob(r) => s = r
    /\ \A e, f \in EvalIds : ProviderJob(e) = ProviderJob(f) => e = f
    /\ \A t \in TrainIds, s \in Subs : TrainJob(t) # EvalJob(s)
    /\ \A t \in TrainIds, e \in EvalIds : TrainJob(t) # ProviderJob(e)
    /\ \A s \in Subs, e \in EvalIds : EvalJob(s) # ProviderJob(e)
BY DEF TrainJob, EvalJob, ProviderJob

LEMMA KeysAre ==
    /\ \A t \in TrainIds : TrainJob(t) \in Keys
    /\ \A s \in Subs : EvalJob(s) \in Keys
    /\ \A e \in EvalIds : ProviderJob(e) \in Keys
BY DEF Keys

LEMMA KeyOfKind ==
    ASSUME NEW k \in Keys
    PROVE  /\ k[1] \in {"train", "evaluation", "provider_eval"}
           /\ k[1] = "train" => k[2] \in TrainIds /\ k = TrainJob(k[2])
           /\ k[1] = "evaluation" => k[2] \in Subs /\ k = EvalJob(k[2])
           /\ k[1] = "provider_eval" => k[2] \in EvalIds /\ k = ProviderJob(k[2])
BY DEF Keys, TrainJob, EvalJob, ProviderJob

LEMMA SubOfKey ==
    /\ \A t \in TrainIds : SubOf(TrainJob(t)) = trains[t].sub
    /\ \A s \in Subs : SubOf(EvalJob(s)) = s
    /\ \A e \in EvalIds : SubOf(ProviderJob(e)) = None
BY DEF SubOf, TrainJob, EvalJob, ProviderJob

LEMMA SubOfKeyNext ==
    /\ \A t \in TrainIds : SubOf(TrainJob(t))' = trains'[t].sub
    /\ \A s \in Subs : SubOf(EvalJob(s))' = s
    /\ \A e \in EvalIds : SubOf(ProviderJob(e))' = None
BY DEF SubOf, TrainJob, EvalJob, ProviderJob

LEMMA KindOfKey ==
    /\ \A t \in TrainIds : TrainJob(t)[1] = "train" /\ TrainJob(t)[2] = t
    /\ \A s \in Subs : EvalJob(s)[1] = "evaluation" /\ EvalJob(s)[2] = s
    /\ \A e \in EvalIds : ProviderJob(e)[1] = "provider_eval" /\ ProviderJob(e)[2] = e
BY DEF TrainJob, EvalJob, ProviderJob

LEMMA KeysFinite == IsFiniteSet(Keys)
<1> DEFINE Kinds == {"train", "evaluation", "provider_eval"}
           Ids == (TrainIds \cup Subs) \cup EvalIds
<1>1. IsFiniteSet(Kinds)
  <2>1. /\ IsFiniteSet({}) /\ IsFiniteSet({"train"}) /\ IsFiniteSet({"evaluation"})
        /\ IsFiniteSet({"provider_eval"})
    BY FS_EmptySet, FS_Singleton
  <2>2. Kinds = ({"train"} \cup {"evaluation"}) \cup {"provider_eval"}
    OBVIOUS
  <2> QED BY <2>1, <2>2, FS_Union
<1>2. IsFiniteSet(TrainIds) /\ IsFiniteSet(EvalIds)
  BY FS_Interval, Bounds DEF TrainIds, EvalIds
<1>3. IsFiniteSet(Ids)
  BY <1>2, SubsAssumption, FS_Union
<1>4. IsFiniteSet(Kinds \X Ids)
  BY <1>1, <1>3, FS_Product
<1>5. Keys \subseteq Kinds \X Ids
  BY DEF Keys, TrainJob, EvalJob, ProviderJob
<1> QED BY <1>4, <1>5, FS_Subset

LEMMA LaterIsNat == Later \in Nat
<1>1. {k \in Keys : job[k].status # "absent"} \in SUBSET Keys
  OBVIOUS
<1> QED BY <1>1, KeysFinite, FS_Subset, FS_CardinalityType DEF Later

-----------------------------------------------------------------------------
(***************************************************************************)
(* Rows                                                                    *)
(***************************************************************************)
LEMMA RowFacts ==
    ASSUME TypeOK
    PROVE  /\ Len(trains) \in Nat /\ DOMAIN trains = 1..Len(trains)
           /\ DOMAIN trains \subseteq TrainIds
           /\ \A t \in DOMAIN trains : trains[t] \in TrainRow
           /\ Len(evals) \in Nat /\ DOMAIN evals = 1..Len(evals)
           /\ DOMAIN evals \subseteq EvalIds
           /\ \A e \in DOMAIN evals : evals[e] \in EvalRow
BY Bounds DEF TypeOK, TrainIds, EvalIds

\* Runs are only added; who they are for does not change, and a checkpoint
\* that is stored stays.
TrainsKept ==
    \A t \in DOMAIN trains : /\ t \in DOMAIN trains'
                             /\ trains'[t].sub = trains[t].sub
                             /\ trains[t].output => trains'[t].output

\* Only a provider evaluation changes its end.
EvalsKept ==
    \A e \in DOMAIN evals : /\ e \in DOMAIN evals'
                            /\ evals'[e].sub = evals[e].sub
                            /\ evals'[e].train = evals[e].train
                            /\ evals[e].sub # None => evals'[e].status = evals[e].status

LEMMA NothingChanged ==
    ASSUME UNCHANGED <<trains, evals>>
    PROVE  TrainsKept /\ EvalsKept
BY DEF TrainsKept, EvalsKept

LEMMA TrainAdded ==
    ASSUME TypeOK, NEW s \in Subs \cup {None}, Len(trains) < MaxTrains, trains' = NewTrain(s)
    PROVE  /\ trains' \in Seq(TrainRow) /\ Len(trains') <= MaxTrains
           /\ Len(trains) + 1 \in TrainIds /\ Len(trains) + 1 \notin DOMAIN trains
           /\ DOMAIN trains' = DOMAIN trains \cup {Len(trains) + 1}
           /\ \A t \in DOMAIN trains : trains'[t] = trains[t]
           /\ trains'[Len(trains) + 1] = [sub |-> s, status |-> "queued", output |-> FALSE]
           /\ TrainsKept
<1> DEFINE r == [sub |-> s, status |-> "queued", output |-> FALSE]
<1>1. r \in TrainRow /\ trains \in Seq(TrainRow) /\ trains' = Append(trains, r)
  BY DEF TrainRow, TypeOK, NewTrain
<1>2. /\ trains' \in Seq(TrainRow) /\ Len(trains') = Len(trains) + 1
      /\ \A i \in 1..Len(trains) : trains'[i] = trains[i]
      /\ trains'[Len(trains) + 1] = r
  BY <1>1, AppendProperties
<1>3. DOMAIN trains' = 1..(Len(trains) + 1)
  BY <1>2
<1> HIDE DEF r
<1>4. DOMAIN trains' = DOMAIN trains \cup {Len(trains) + 1}
  BY <1>2, <1>3, RowFacts
<1>5. TrainsKept
  BY <1>2, <1>4, RowFacts DEF TrainsKept
<1> QED BY <1>2, <1>4, <1>5, RowFacts, Bounds DEF TrainIds, r

LEMMA EvalAdded ==
    ASSUME TypeOK, NEW r \in EvalRow, Len(evals) < MaxEvals, evals' = Append(evals, r)
    PROVE  /\ evals' \in Seq(EvalRow) /\ Len(evals') = Len(evals) + 1 /\ Len(evals') <= MaxEvals
           /\ Len(evals) + 1 \in EvalIds /\ Len(evals) + 1 \notin DOMAIN evals
           /\ DOMAIN evals' = DOMAIN evals \cup {Len(evals) + 1}
           /\ \A e \in DOMAIN evals : evals'[e] = evals[e]
           /\ evals'[Len(evals) + 1] = r
           /\ EvalsKept
<1>1. evals \in Seq(EvalRow)
  BY DEF TypeOK
<1>2. /\ evals' \in Seq(EvalRow) /\ Len(evals') = Len(evals) + 1
      /\ \A i \in 1..Len(evals) : evals'[i] = evals[i]
      /\ evals'[Len(evals) + 1] = r
  BY <1>1, AppendProperties
<1>3. DOMAIN evals' = 1..(Len(evals) + 1)
  BY <1>2
<1>4. DOMAIN evals' = DOMAIN evals \cup {Len(evals) + 1}
  BY <1>2, <1>3, RowFacts
<1>5. EvalsKept
  BY <1>2, <1>4, RowFacts DEF EvalsKept
<1> QED BY <1>2, <1>4, <1>5, RowFacts, Bounds DEF EvalIds

LEMMA TrainReplaced ==
    ASSUME TypeOK, NEW t \in DOMAIN trains, NEW r \in TrainRow, trains' = [trains EXCEPT ![t] = r],
           r.sub = trains[t].sub, trains[t].output => r.output
    PROVE  /\ trains' \in Seq(TrainRow) /\ Len(trains') = Len(trains)
           /\ DOMAIN trains' = DOMAIN trains
           /\ trains'[t] = r /\ \A u \in DOMAIN trains \ {t} : trains'[u] = trains[u]
           /\ TrainsKept
<1>1. trains \in Seq(TrainRow) /\ t \in 1..Len(trains)
  BY RowFacts DEF TypeOK
<1>2. trains' \in Seq(TrainRow) /\ Len(trains') = Len(trains)
  BY <1>1, ExceptSeq
<1>3. /\ DOMAIN trains' = DOMAIN trains /\ trains'[t] = r
      /\ \A u \in DOMAIN trains \ {t} : trains'[u] = trains[u]
  OBVIOUS
<1> QED BY <1>2, <1>3 DEF TrainsKept

LEMMA EvalReplaced ==
    ASSUME TypeOK, NEW e \in DOMAIN evals, NEW r \in EvalRow, evals' = [evals EXCEPT ![e] = r],
           r.sub = evals[e].sub, r.train = evals[e].train,
           evals[e].sub # None => r.status = evals[e].status
    PROVE  /\ evals' \in Seq(EvalRow) /\ Len(evals') = Len(evals)
           /\ DOMAIN evals' = DOMAIN evals
           /\ evals'[e] = r /\ \A f \in DOMAIN evals \ {e} : evals'[f] = evals[f]
           /\ EvalsKept
<1>1. evals \in Seq(EvalRow) /\ e \in 1..Len(evals)
  BY RowFacts DEF TypeOK
<1>2. evals' \in Seq(EvalRow) /\ Len(evals') = Len(evals)
  BY <1>1, ExceptSeq
<1>3. /\ DOMAIN evals' = DOMAIN evals /\ evals'[e] = r
      /\ \A f \in DOMAIN evals \ {e} : evals'[f] = evals[f]
  OBVIOUS
<1> QED BY <1>2, <1>3 DEF EvalsKept

\* What an enqueue leaves of the queue.
LEMMA EnqueuedIs ==
    ASSUME NEW jobs \in [Keys -> JobRow], NEW k \in Keys, NEW seen, NEW t \in 0..MaxTrains
    PROVE  /\ Enqueued(jobs, k, seen, t) \in [Keys -> JobRow]
           /\ \A j \in Keys \ {k} : Enqueued(jobs, k, seen, t)[j] = jobs[j]
           /\ Enqueued(jobs, k, seen, t)[k].train = t
           /\ Enqueued(jobs, k, seen, t)[k].status \in {"queued", jobs[k].status}
           /\ seen \in {"absent", jobs[k].status}
                => Enqueued(jobs, k, seen, t)[k].status = "queued"
           /\ seen # "queued" => Enqueued(jobs, k, seen, t)[k].status = "queued"
<1> DEFINE new == [status |-> "queued", train |-> t, since |-> Later]
           old == [status |-> Net(jobs[k].status, seen, "queued"), train |-> t,
                   since |-> jobs[k].since]
<1>1. jobs[k] \in JobRow /\ Later \in Nat
  BY LaterIsNat
<1>2. /\ old.status \in {"queued", jobs[k].status} /\ (seen # "queued" => old.status = "queued")
      /\ seen = jobs[k].status => old.status = "queued"
  BY DEF Net
<1>3. new \in JobRow
  BY <1>1 DEF JobRow
<1>4. old \in JobRow
  BY <1>1, <1>2 DEF JobRow
<1>5. Enqueued(jobs, k, seen, t) = [jobs EXCEPT ![k] = IF seen = "absent" THEN new ELSE old]
  BY DEF Enqueued
<1>6. new.train = t /\ old.train = t /\ new.status = "queued"
  OBVIOUS
<1> HIDE DEF new, old
<1> QED BY <1>2, <1>3, <1>4, <1>5, <1>6

LEMMA SettledIs ==
    ASSUME job \in [Keys -> JobRow], NEW k \in Keys,
           NEW status \in {"absent", "queued", "completed", "failed", "cancelled"}
    PROVE  /\ Settle(k, status) \in [Keys -> JobRow]
           /\ \A j \in Keys \ {k} : Settle(k, status)[j] = job[j]
           /\ Settle(k, status)[k].status = status
           /\ Settle(k, status)[k].train = job[k].train
BY DEF Settle, JobRow

\* A flush keeps the types, and a column that the session did not change.
LEMMA NetRowIs ==
    ASSUME NEW c \in SubRow, NEW l \in SubRow, NEW r \in SubRow
    PROVE  /\ NetRow(c, l, r) \in SubRow
           /\ NetRow(c, l, r).status \in {c.status, r.status}
           /\ r.status # l.status => NetRow(c, l, r).status = r.status
           /\ r.deleted = l.deleted => NetRow(c, l, r).deleted = c.deleted
           /\ NetRow(c, l, r).eval \in {c.eval, r.eval}
           /\ r.eval # l.eval => NetRow(c, l, r).eval = r.eval
           /\ r.eval = l.eval => NetRow(c, l, r).eval = c.eval
BY DEF NetRow, Net, SubRow

LEMMA SubWritten ==
    ASSUME TypeOK, NEW s \in Subs, NEW r \in SubRow, sub' = [sub EXCEPT ![s] = r]
    PROVE  /\ sub' \in [Subs -> SubRow] /\ sub'[s] = r
           /\ \A q \in Subs \ {s} : sub'[q] = sub[q]
BY DEF TypeOK

LEMMA NullRows == NoSub \in SubRow /\ NoMemory \in Memory /\ NoRequest \in Request
BY Bounds DEF NoSub, SubRow, NoMemory, Memory, NoRequest, Request

-----------------------------------------------------------------------------
(***************************************************************************)
(* Frames: what keeps a part of the invariant                              *)
(***************************************************************************)

\* No job disappears, and a failed train or provider job stays over.
JobsKept ==
    \A k \in Keys :
        /\ job[k].status # "absent" => job'[k].status # "absent"
        /\ k[1] # "evaluation" /\ job[k].status \in {"failed", "cancelled"}
             => job'[k].status \in {"failed", "cancelled"}

LEMMA StoredKept ==
    ASSUME TrainsKept
    PROVE  \A t, s : Stored(t, s) => Stored(t, s)'
BY DEF TrainsKept, Stored

\* A worker that does not move, and whose job nobody takes away.
LEMMA WorkerWaits ==
    ASSUME Inv, NEW w \in Workers, pc'[w] = pc[w], on'[w] = on[w], mem'[w] = mem[w],
           TrainsKept, JobsKept, Len(evals') \in Nat, Len(evals) <= Len(evals'),
           pc[w] \in InTransaction => job'[on[w]].status = "queued"
    PROVE  WorkerSound(w)'
<1>1. WorkerSound(w) /\ on[w] \in Keys
  BY DEF Inv, WorkersSound, TypeOK
<1>2. \A s \in Subs : on'[w] = EvalJob(s) => Stored(mem[w].train, s)'
  <2> SUFFICES ASSUME NEW s \in Subs, on[w] = EvalJob(s) PROVE Stored(mem[w].train, s)'
    OBVIOUS
  <2>1. Stored(mem[w].train, s)
    BY <1>1 DEF WorkerSound
  <2> QED BY <2>1 DEF Stored, TrainsKept
<1>3. mem'[w].row.eval <= Len(evals')
  <2>1. mem[w].row.eval \in 0..MaxEvals /\ mem[w].row.eval <= Len(evals) /\ Len(evals) \in Nat
    BY <1>1, RowFacts DEF Inv, TypeOK, WorkerSound, Memory, SubRow
  <2> QED BY <2>1
<1>5. pc'[w] # "idle" => job'[on'[w]].status # "absent"
  BY <1>1 DEF WorkerSound, JobsKept
<1>6. pc'[w] = "marking" /\ on'[w][1] # "evaluation" /\ mem'[w].job = "failed"
         => job'[on'[w]].status \in {"failed", "cancelled"}
  BY <1>1 DEF WorkerSound, JobsKept
<1>7. \A s \in Subs : (on[w] = EvalJob(s) => Stored(mem[w].train, s))'
  BY <1>2 DEF EvalJob
<1> QED BY <1>3, <1>5, <1>6, <1>7 DEF WorkerSound

LEMMA IdleWorker ==
    ASSUME NEW w, Len(evals') \in Nat, pc'[w] = "idle", on'[w] = TrainJob(1), mem'[w] = NoMemory
    PROVE  WorkerSound(w)'
<1>1. \A s \in Subs : TrainJob(1) # EvalJob(s)
  BY DEF TrainJob, EvalJob
<1>2. NoMemory.train = 0 /\ NoMemory.row.eval = 0
  BY DEF NoMemory, NoSub
<1>3. \A s \in Subs : (on[w] = EvalJob(s) => Stored(mem[w].train, s))'
  BY <1>1 DEF TrainJob, EvalJob
<1> QED BY <1>2, <1>3 DEF WorkerSound, InTransaction

\* All workers wait while a handler of the API commits.
LEMMA WorkersWait ==
    ASSUME Inv, UNCHANGED workerVars, TrainsKept, JobsKept,
           Len(evals') \in Nat, Len(evals) <= Len(evals'),
           \A k \in Keys : JobLocked(k) => job'[k].status = job[k].status
    PROVE  WorkersSound'
<1>1. /\ Exclusive /\ pc' = pc /\ on' = on /\ mem' = mem
      /\ \A w \in Workers : WorkerSound(w) /\ on[w] \in Keys
  BY DEF Inv, WorkersSound, workerVars, TypeOK
<1>2. ASSUME NEW w \in Workers PROVE WorkerSound(w)'
  <2>1. pc[w] \in InTransaction => job'[on[w]].status = "queued"
    BY <1>1 DEF JobLocked, WorkerSound
  <2> QED BY <1>1, <2>1, WorkerWaits
<1>3. Exclusive'
  BY <1>1 DEF Exclusive, InTransaction
<1> QED BY <1>2, <1>3 DEF WorkersSound

\* One worker gives its job back or up, and the others wait.
LEMMA OthersWait ==
    ASSUME Inv, NEW w \in Workers, TrainsKept, JobsKept, ToIdle(w),
           Len(evals') \in Nat, Len(evals) <= Len(evals'),
           \A x \in Workers \ {w} : pc[x] \in InTransaction => job'[on[x]].status = job[on[x]].status
    PROVE  WorkersSound' /\ pc' \in [Workers -> InTransaction \cup {"idle", "failing", "marking"}]
           /\ on' \in [Workers -> Keys] /\ mem' \in [Workers -> Memory]
<1>1. /\ Exclusive
      /\ \A x \in Workers : WorkerSound(x)
      /\ pc \in [Workers -> InTransaction \cup {"idle", "failing", "marking"}]
      /\ on \in [Workers -> Keys] /\ mem \in [Workers -> Memory]
  BY DEF Inv, WorkersSound, TypeOK
<1>2. /\ pc' = [pc EXCEPT ![w] = "idle"] /\ on' = [on EXCEPT ![w] = TrainJob(1)]
      /\ mem' = [mem EXCEPT ![w] = NoMemory]
  BY DEF ToIdle, Goto
<1>3. ASSUME NEW x \in Workers \ {w} PROVE WorkerSound(x)'
  <2>1. pc'[x] = pc[x] /\ on'[x] = on[x] /\ mem'[x] = mem[x]
    BY <1>1, <1>2
  <2>2. pc[x] \in InTransaction => job'[on[x]].status = "queued"
    BY <1>1 DEF WorkerSound
  <2> QED BY <2>1, <2>2, WorkerWaits
<1>4. WorkerSound(w)'
  <2>1. pc'[w] = "idle" /\ on'[w] = TrainJob(1) /\ mem'[w] = NoMemory
    BY <1>1, <1>2
  <2> QED BY <2>1, IdleWorker
<1>5. Exclusive'
  BY <1>1, <1>2 DEF Exclusive, InTransaction
<1>6. TrainJob(1) \in Keys
  BY BoundsAssumption, KeysAre DEF TrainIds
<1> QED BY <1>1, <1>2, <1>3, <1>4, <1>5, <1>6, NullRows DEF WorkersSound

\* The rows stay: only a worker, a file or the open request changes.
LEMMA RowsWait ==
    ASSUME Inv, UNCHANGED <<mode, rowVars>>
    PROVE  RowsSound' /\ TrainsKept /\ EvalsKept /\ JobsKept
<1>1. mode' = mode /\ sub' = sub /\ trains' = trains /\ evals' = evals /\ job' = job
  BY DEF rowVars
<1>2. RowsSound
  BY DEF Inv
<1>3. RunsExist' /\ Payloads' /\ SubsSound' /\ RunsAgreeWithJobs'
  BY <1>1, <1>2
     DEF RowsSound, RunsExist, Payloads, SubsSound, RunsAgreeWithJobs, Stored, TrainJob, EvalJob,
         ProviderJob, TrainIds, EvalIds, Outcome
<1>4. UploadsNotStranded'
  <2> SUFFICES ASSUME NEW s \in Uploads PROVE NotStranded(s)'
    BY DEF UploadsNotStranded
  <2>1. NotStranded(s)
    BY <1>2 DEF RowsSound, UploadsNotStranded
  <2>2. \A k \in Keys : SubOf(k)' = SubOf(k)
    BY <1>1 DEF SubOf
  <2>3. JobsOf(s)' = JobsOf(s)
    BY <1>1, <2>2 DEF JobsOf, Keys, TrainJob, EvalJob, ProviderJob, TrainIds, EvalIds, Subs
  <2> QED BY <1>1, <2>1, <2>3 DEF NotStranded
<1> QED BY <1>1, <1>3, <1>4, NothingChanged DEF RowsSound, JobsKept

\* An upload whose row keeps its status and evaluation, or fails, and none of
\* whose jobs completes.
LEMMA UploadWaits ==
    ASSUME Inv, NEW s \in Uploads, TrainsKept, EvalsKept, mode' = mode,
           \/ sub'[s].status = "failed"
           \/ sub'[s].status = sub[s].status /\ sub'[s].eval = sub[s].eval,
           \A k \in JobsOf(s) : /\ job'[k].status # "absent"
                                /\ job[k].status # "completed" => job'[k].status # "completed"
    PROVE  NotStranded(s)'
<1>1. NotStranded(s) /\ RunsExist /\ s \in Subs
  BY DEF Inv, RowsSound, UploadsNotStranded, Subs
<1>2. CASE sub'[s].status = "failed"
  BY <1>2 DEF NotStranded
<1>3. CASE sub'[s].status = sub[s].status /\ sub'[s].eval = sub[s].eval
  <2>1. ASSUME mode # "sync", sub[s].status \in {"queued", "running"}
        PROVE  \E k \in JobsOf(s)' : job'[k].status # "completed"
    <3>1. PICK k \in JobsOf(s) : job[k].status # "completed"
      BY <1>1, <2>1 DEF NotStranded
    <3>2. k \in Keys /\ job[k].status # "absent" /\ SubOf(k) = s
      BY <3>1 DEF JobsOf
    <3>3. SubOf(k)' = s
      <4>1. CASE k[1] = "train"
        <5>1. k[2] \in DOMAIN trains /\ SubOf(k) = trains[k[2]].sub
          BY <1>1, <3>2, <4>1, KeyOfKind, SubOfKey DEF RunsExist
        <5>2. SubOf(k)' = trains'[k[2]].sub
          BY <3>2, <4>1, KeyOfKind, SubOfKeyNext
        <5> QED BY <3>2, <5>1, <5>2 DEF TrainsKept
      <4>2. CASE k[1] # "train"
        BY <3>2, <4>2, KeyOfKind, SubOfKey, SubOfKeyNext
      <4> QED BY <4>1, <4>2
    <3>4. k \in JobsOf(s)'
      BY <3>1, <3>2, <3>3 DEF JobsOf, Keys, TrainJob, EvalJob, ProviderJob, TrainIds, EvalIds, Subs
    <3> QED BY <3>1, <3>4
  <2>2. ASSUME sub[s].status = "completed"
        PROVE  /\ sub'[s].eval \in DOMAIN evals'
               /\ evals'[sub'[s].eval].sub = s
               /\ evals'[sub'[s].eval].status = "completed"
    <3>1. /\ sub[s].eval \in DOMAIN evals /\ evals[sub[s].eval].sub = s
          /\ evals[sub[s].eval].status = "completed" /\ s # None
      BY <1>1, <2>2, SubsAssumption DEF NotStranded
    <3> QED BY <1>3, <3>1 DEF EvalsKept
  <2> QED BY <1>3, <2>1, <2>2 DEF NotStranded
<1> QED BY <1>2, <1>3

LEMMA RequestWaits ==
    ASSUME Inv, req' = req,
           \A s \in Subs : sub[s].status # "absent" => sub'[s].status # "absent",
           \A k \in Keys : job[k].status # "absent" => job'[k].status # "absent"
    PROVE  RequestOpen'
<1>1. RequestOpen /\ req.seen \subseteq Keys
  BY DEF Inv, TypeOK, Request
<1> QED BY <1>1 DEF RequestOpen, Subs

-----------------------------------------------------------------------------
(***************************************************************************)
(* Steps that change no row                                                *)
(***************************************************************************)
LEMMA InitInv == Init => Inv
<1> SUFFICES ASSUME Init PROVE Inv
  OBVIOUS
<1>1. TypeOK
  <2>1. TrainJob(1) \in Keys
    BY BoundsAssumption, KeysAre DEF TrainIds
  <2>2. NoJob \in JobRow
    BY Bounds DEF NoJob, JobRow
  <2>3. Len(<<>>) = 0 /\ trains = <<>> /\ evals = <<>>
    BY DEF Init
  <2>4. trains \in Seq(TrainRow) /\ evals \in Seq(EvalRow)
    BY <2>3
  <2>5. Len(trains) <= MaxTrains /\ Len(evals) <= MaxEvals
    BY <2>3, Bounds
  <2> QED BY <2>1, <2>2, <2>4, <2>5, Bounds, NullRows DEF Init, TypeOK
<1>2. DOMAIN trains = {} /\ DOMAIN evals = {} /\ Len(evals) = 0
  BY DEF Init
<1>3. \A k \in Keys : job[k].status = "absent" /\ job[k].train = 0
  BY DEF Init, NoJob
<1>4. \A s \in Subs : sub[s].status = "absent" /\ ~sub[s].deleted /\ sub[s].eval = 0
  BY DEF Init, NoSub
<1>5. RunsExist /\ Payloads /\ SubsSound /\ RunsAgreeWithJobs
  BY <1>2, <1>3, <1>4, KeysAre
     DEF RunsExist, Payloads, SubsSound, RunsAgreeWithJobs, Stored
<1>6. UploadsNotStranded
  BY <1>4 DEF UploadsNotStranded, NotStranded, Subs
<1>7. RequestOpen
  BY DEF Init, RequestOpen, NoRequest
<1>8. WorkersSound
  <2>1. \A w \in Workers, s \in Subs : on[w] # EvalJob(s)
    BY DEF Init, TrainJob, EvalJob
  <2>2. \A w \in Workers : pc[w] = "idle" /\ mem[w].row.eval = 0
    BY DEF Init, NoMemory, NoSub
  <2> QED BY <1>2, <2>1, <2>2 DEF WorkersSound, WorkerSound, Exclusive, InTransaction
<1> QED BY <1>1, <1>5, <1>6, <1>7, <1>8 DEF Inv, RowsSound

LEMMA AskBounded ==
    ASSUME TypeOK, Ask
    PROVE  asked' \in 0..MaxRequests
BY Bounds DEF TypeOK, Ask

\* A handler that only reads.
LEMMA ReadRequestInv ==
    ASSUME Inv, req' \in Request, asked' \in 0..MaxRequests, RequestOpen',
           UNCHANGED <<mode, rowVars, fileVars, workerVars, faults>>
    PROVE  Inv'
<1>1. RowsSound' /\ TrainsKept /\ JobsKept
  BY RowsWait
<1>2. Len(evals') = Len(evals) /\ Len(evals) \in Nat
  BY RowFacts DEF Inv, rowVars
<1>3. WorkersSound'
  BY <1>1, <1>2, WorkersWait DEF rowVars
<1>4. TypeOK'
  BY DEF Inv, TypeOK, rowVars, fileVars, workerVars, Subs, Keys, TrainJob, EvalJob, ProviderJob,
         TrainIds, EvalIds, InTransaction, Request, SubRow, TrainRow, EvalRow, JobRow, Memory
<1> QED BY <1>1, <1>3, <1>4 DEF Inv

LEMMA HandlerReadsInv ==
    ASSUME Inv,
           \/ \E s \in PullRequests, h \in Heads : SubmitPR(s, h)
           \/ \E s \in Subs : DeleteSubmission(s)
           \/ LockSubmission
           \/ SyncRaises
    PROVE  Inv'
<1>1. TypeOK /\ RequestOpen
  BY DEF Inv
<1>2. CASE \E s \in PullRequests, h \in Heads : SubmitPR(s, h)
  <2>1. PICK s \in PullRequests, h \in Heads : SubmitPR(s, h)
    BY <1>2
  <2>2. s \in Subs /\ sub[s] \in SubRow
    BY <1>1 DEF Subs, TypeOK
  <2>3. req' = [op |-> "submit", stage |-> "read", sub |-> s, head |-> h, row |-> sub[s], seen |-> {}]
    BY <2>1 DEF SubmitPR, NoRequest
  <2>4. req' \in Request
    BY <2>2, <2>3, Bounds DEF Request, Heads
  <2>5. RequestOpen'
    BY <2>3 DEF RequestOpen
  <2>6. asked' \in 0..MaxRequests /\ UNCHANGED <<mode, rowVars, fileVars, workerVars, faults>>
    BY <1>1, <2>1, AskBounded DEF SubmitPR
  <2> QED BY <2>4, <2>5, <2>6, ReadRequestInv
<1>3. CASE \E s \in Subs : DeleteSubmission(s)
  <2>1. PICK s \in Subs : DeleteSubmission(s)
    BY <1>3
  <2> DEFINE seen == {k \in JobsOf(s) : job[k].status = "queued"}
  <2>2. seen \subseteq Keys /\ sub[s] \in SubRow
    BY <1>1 DEF JobsOf, TypeOK
  <2>3. req' = [op |-> "delete", stage |-> "read", sub |-> s, head |-> 0, row |-> sub[s],
                seen |-> seen]
    BY <2>1 DEF DeleteSubmission, NoRequest
  <2> HIDE DEF seen
  <2>4. req' \in Request
    BY <2>2, <2>3, Bounds DEF Request
  <2>5. sub' = sub /\ job' = job /\ sub[s].status # "absent"
    BY <2>1 DEF DeleteSubmission, rowVars
  <2>6. RequestOpen'
    <3>1. \A k \in seen : job[k].status # "absent"
      BY DEF seen
    <3> QED BY <2>3, <2>5, <3>1 DEF RequestOpen
  <2>7. asked' \in 0..MaxRequests /\ UNCHANGED <<mode, rowVars, fileVars, workerVars, faults>>
    BY <1>1, <2>1, AskBounded DEF DeleteSubmission
  <2> QED BY <2>4, <2>6, <2>7, ReadRequestInv
<1>4. CASE LockSubmission
  <2>1. req.op \in {"submit", "delete"} => req.sub \in Subs
    BY <1>1 DEF RequestOpen, Subs
  <2>2. req \in Request
    BY <1>1 DEF TypeOK
  <2>3. EvalJob(req.sub) \in Keys \/ req.op # "submit"
    BY <2>1, KeysAre
  <2>4. /\ req' \in Request /\ req'.op = req.op /\ req'.stage = "locked" /\ req'.sub = req.sub
        /\ req.op = "delete" => req'.seen = req.seen
    BY <1>4, <2>2, <2>3 DEF LockSubmission, Request
  <2>5. req.stage = "read" /\ sub' = sub /\ job' = job
    BY <1>4 DEF LockSubmission, rowVars
  <2>6. RequestOpen'
    BY <1>1, <2>4, <2>5 DEF RequestOpen
  <2> QED BY <1>1, <1>4, <2>4, <2>6, ReadRequestInv DEF LockSubmission, TypeOK
<1>5. CASE SyncRaises
  <2>1. req' = NoRequest
    BY <1>5 DEF SyncRaises
  <2>2. RequestOpen'
    BY <2>1 DEF RequestOpen, NoRequest
  <2> QED BY <1>1, <1>5, <2>1, <2>2, ReadRequestInv, NullRows DEF SyncRaises, TypeOK
<1> QED BY <1>2, <1>3, <1>4, <1>5

Places == InTransaction \cup {"idle", "failing", "marking"}

\* A worker that moves to place p, with job k and memory m, and writes no row.
LEMMA WorkerReadsInv ==
    ASSUME Inv, NEW w \in Workers, NEW p \in Places, NEW k \in Keys, NEW m \in Memory,
           UNCHANGED <<mode, rowVars, left, apiVars>>,
           tree' \in [PullRequests -> [head: 0..MaxHead, outs: SUBSET TrainIds]],
           faults' \in 0..MaxFaults,
           pc' = [pc EXCEPT ![w] = p], on' = [on EXCEPT ![w] = k], mem' = [mem EXCEPT ![w] = m],
           p # "idle" => job[k].status # "absent",
           p \in InTransaction => /\ job[k].status = "queued"
                                  /\ \A x \in Workers \ {w} : pc[x] \in InTransaction => on[x] # k,
           p = "marking" /\ k[1] # "evaluation" /\ m.job = "failed" => job[k].status = "failed",
           \A s \in Subs : k = EvalJob(s) => Stored(m.train, s),
           m.row.eval <= Len(evals)
    PROVE  Inv'
<1>1. RowsSound' /\ TrainsKept /\ JobsKept
  BY RowsWait
<1>2. /\ Exclusive /\ pc \in [Workers -> Places]
      /\ on \in [Workers -> Keys] /\ mem \in [Workers -> Memory]
  BY DEF Inv, WorkersSound, TypeOK, Places
<1>3. Len(evals) \in Nat /\ evals' = evals /\ job' = job /\ trains' = trains /\ sub' = sub
  BY RowFacts DEF Inv, rowVars
<1>4. pc'[w] = p /\ on'[w] = k /\ mem'[w] = m
  BY <1>2
<1>5. WorkerSound(w)'
  <2>1. \A s \in Subs : (on[w] = EvalJob(s) => Stored(mem[w].train, s))'
    BY <1>3, <1>4 DEF Stored, EvalJob
  <2> QED BY <1>3, <1>4, <2>1 DEF WorkerSound, InTransaction
<1>6. ASSUME NEW x \in Workers \ {w} PROVE WorkerSound(x)'
  <2>1. pc'[x] = pc[x] /\ on'[x] = on[x] /\ mem'[x] = mem[x] /\ WorkerSound(x)
    BY <1>2 DEF Inv, WorkersSound
  <2>2. pc[x] \in InTransaction => job'[on[x]].status = "queued"
    BY <1>3, <2>1 DEF WorkerSound
  <2> QED BY <1>1, <1>3, <2>1, <2>2, WorkerWaits
<1>7. Exclusive'
  BY <1>2 DEF Exclusive, InTransaction, Places
<1>8. WorkersSound'
  BY <1>5, <1>6, <1>7 DEF WorkersSound
<1>9. RequestOpen'
  BY <1>3, RequestWaits DEF apiVars
<1>10. pc' \in [Workers -> Places] /\ on' \in [Workers -> Keys] /\ mem' \in [Workers -> Memory]
  BY <1>2
<1>11. TypeOK'
  BY <1>10 DEF Inv, TypeOK, Places, rowVars, apiVars, Subs, Keys, TrainJob, EvalJob, ProviderJob,
         TrainIds, EvalIds, InTransaction, Request, SubRow, TrainRow, EvalRow, JobRow, Memory
<1> QED BY <1>1, <1>8, <1>9, <1>11 DEF Inv

\* What holds of a worker that is not idle, and of the submission of its job.
LEMMA WorkerFacts ==
    ASSUME Inv, NEW w \in Workers
    PROVE  /\ on[w] \in Keys /\ mem[w] \in Memory /\ pc[w] \in Places
           /\ WorkerSound(w)
           /\ \A s \in Subs : on[w] = EvalJob(s) => Stored(mem[w].train, s)
           /\ mem[w].row \in SubRow
           /\ pc[w] # "idle" => job[on[w]].status # "absent"
           /\ faults \in 0..MaxFaults
           /\ tree \in [PullRequests -> [head: 0..MaxHead, outs: SUBSET TrainIds]]
BY DEF Inv, TypeOK, Places, WorkersSound, WorkerSound, Memory

LEMMA JobFacts ==
    ASSUME Inv, NEW k \in Keys, job[k].status # "absent"
    PROVE  /\ SubOf(k) \in Subs \cup {None}
           /\ k[1] = "train" => k[2] \in DOMAIN trains /\ SubOf(k) = trains[k[2]].sub
           /\ k[1] = "evaluation" => SubOf(k) = k[2]
           /\ k[1] = "provider_eval" => /\ k[2] \in DOMAIN evals /\ evals[k[2]].sub = None
                                        /\ SubOf(k) = None
           /\ Loaded(k) \in SubRow /\ Loaded(k).eval <= Len(evals)
<1>1. /\ k[1] = "train" => k[2] \in DOMAIN trains /\ SubOf(k) = trains[k[2]].sub
      /\ k[1] = "evaluation" => SubOf(k) = k[2] /\ k[2] \in Subs
      /\ k[1] = "provider_eval" => /\ k[2] \in DOMAIN evals /\ evals[k[2]].sub = None
                                   /\ SubOf(k) = None
  BY KeyOfKind, SubOfKey DEF Inv, RowsSound, RunsExist
<1>2. SubOf(k) \in Subs \cup {None}
  BY <1>1, KeyOfKind, RowFacts DEF Inv, TrainRow
<1>3. Loaded(k) \in SubRow /\ Loaded(k).eval <= Len(evals)
  <2>1. NoSub \in SubRow /\ NoSub.eval = 0 /\ Len(evals) \in Nat
    BY NullRows, RowFacts DEF NoSub, Inv
  <2>2. \A s \in Subs : sub[s] \in SubRow /\ sub[s].eval <= Len(evals)
    BY DEF Inv, TypeOK, RowsSound, SubsSound
  <2> QED BY <1>2, <2>1, <2>2 DEF Loaded
<1> QED BY <1>1, <1>2, <1>3

LEMMA RollbackInv ==
    ASSUME Inv, NEW w \in Workers, pc[w] \in InTransaction, Rollback(w), faults' \in 0..MaxFaults
    PROVE  Inv'
<1>1. /\ on' = [on EXCEPT ![w] = on[w]] /\ mem' = [mem EXCEPT ![w] = mem[w]]
      /\ pc' = [pc EXCEPT ![w] = "failing"]
      /\ UNCHANGED <<mode, rowVars, fileVars, apiVars>>
  BY DEF Rollback, Goto, Inv, TypeOK
<1>2. "failing" \in Places /\ "failing" \notin InTransaction /\ pc[w] # "idle"
  BY DEF Places, InTransaction
<1>3. UNCHANGED <<mode, rowVars, left, apiVars>> /\ tree' = tree
  BY <1>1 DEF fileVars
<1>4. mem[w].row.eval <= Len(evals)
  BY WorkerFacts DEF WorkerSound
<1> QED BY <1>1, <1>2, <1>3, <1>4, WorkerFacts, WorkerReadsInv

LEMMA ClaimInv == ASSUME Inv, NEW w \in Workers, Claim(w) PROVE Inv'
<1>1. PICK k \in Keys : /\ job[k].status = "queued" /\ ~JobLocked(k)
                        /\ on' = [on EXCEPT ![w] = k]
                        /\ mem' = [mem EXCEPT ![w] = [row |-> Loaded(k), train |-> job[k].train,
                                                      job |-> "queued", found |-> FALSE]]
  BY DEF Claim
<1> DEFINE m == [row |-> Loaded(k), train |-> job[k].train, job |-> "queued", found |-> FALSE]
<1>2. Loaded(k) \in SubRow /\ Loaded(k).eval <= Len(evals)
  BY <1>1, JobFacts
<1>3. m \in Memory
  BY <1>2 DEF Memory, Inv, TypeOK, JobRow
<1>4. \A s \in Subs : k = EvalJob(s) => Stored(m.train, s)
  BY DEF Inv, RowsSound, Payloads
<1>5. \A x \in Workers \ {w} : pc[x] \in InTransaction => on[x] # k
  BY <1>1 DEF JobLocked
<1>6. /\ pc' = [pc EXCEPT ![w] = "claimed"] /\ mem' = [mem EXCEPT ![w] = m]
      /\ UNCHANGED <<mode, rowVars, left, apiVars>> /\ tree' = tree /\ faults' = faults
  BY <1>1 DEF Claim, Goto, fileVars
<1>7. m.row = Loaded(k) /\ "claimed" \in Places /\ "claimed" # "marking"
  BY DEF Places, InTransaction
<1>8. /\ tree' \in [PullRequests -> [head: 0..MaxHead, outs: SUBSET TrainIds]]
      /\ faults' \in 0..MaxFaults
  BY <1>6, WorkerFacts
<1>9. m.row.eval <= Len(evals)
  BY <1>2, <1>7
<1> HIDE DEF m
<1> QED BY <1>1, <1>3, <1>4, <1>5, <1>6, <1>7, <1>8, <1>9, WorkerReadsInv

\* The claimed job stays the worker's while it goes on.
LEMMA GoOnInv ==
    ASSUME Inv, NEW w \in Workers, pc[w] \in InTransaction, NEW p \in InTransaction,
           NEW m \in Memory, m.train = mem[w].train, m.row = mem[w].row,
           pc' = [pc EXCEPT ![w] = p], on' = on, mem' = [mem EXCEPT ![w] = m],
           UNCHANGED <<mode, rowVars, left, apiVars>>, faults' = faults,
           tree' \in [PullRequests -> [head: 0..MaxHead, outs: SUBSET TrainIds]]
    PROVE  Inv'
<1> DEFINE k == on[w]
<1>1. /\ k \in Keys /\ on' = [on EXCEPT ![w] = k]
      /\ \A s \in Subs : k = EvalJob(s) => Stored(m.train, s)
      /\ faults' \in 0..MaxFaults
  BY WorkerFacts DEF Inv, TypeOK
<1>2. job[k].status = "queued" /\ m.row.eval <= Len(evals)
  BY WorkerFacts DEF WorkerSound
<1>3. \A x \in Workers \ {w} : pc[x] \in InTransaction => on[x] # k
  BY DEF Inv, WorkersSound, Exclusive
<1>4. p \in Places /\ p # "marking"
  BY DEF Places, InTransaction
<1> HIDE DEF k
<1> QED BY <1>1, <1>2, <1>3, <1>4, WorkerReadsInv

LEMMA FetchInv == ASSUME Inv, NEW w \in Workers, Fetch(w) PROVE Inv'
<1>1. mem[w] \in Memory /\ mem' = [mem EXCEPT ![w] = mem[w]]
  BY WorkerFacts DEF Fetch, Inv, TypeOK
<1>2. [head |-> mem[w].row.head, outs |-> {}] \in [head: 0..MaxHead, outs: SUBSET TrainIds]
  BY WorkerFacts DEF SubRow
<1>3. tree' \in [PullRequests -> [head: 0..MaxHead, outs: SUBSET TrainIds]]
  BY <1>2, WorkerFacts DEF Fetch
<1>4. "fetched" \in InTransaction /\ pc[w] \in InTransaction /\ pc' = [pc EXCEPT ![w] = "fetched"]
  BY DEF Fetch, InTransaction, Goto
<1>5. UNCHANGED <<mode, rowVars, left, apiVars>> /\ on' = on /\ faults' = faults
  BY DEF Fetch
<1> QED BY <1>1, <1>3, <1>4, <1>5, GoOnInv

LEMMA BeginInv == ASSUME Inv, NEW w \in Workers, Begin(w) PROVE Inv'
<1> DEFINE m == [mem[w] EXCEPT !.found = Found(on[w], mem[w].train)]
<1>1. Found(on[w], mem[w].train) \in BOOLEAN
  BY DEF Found
<1>2. m \in Memory /\ m.train = mem[w].train /\ m.row = mem[w].row
  BY <1>1, WorkerFacts DEF Memory
<1>3. mem' = [mem EXCEPT ![w] = m]
  BY DEF Begin
<1>4. "running" \in InTransaction /\ pc[w] \in InTransaction /\ pc' = [pc EXCEPT ![w] = "running"]
  BY DEF Begin, AtFlush, InTransaction, Goto
<1>5. UNCHANGED <<mode, rowVars, left, apiVars>> /\ on' = on /\ faults' = faults /\ tree' = tree
  BY DEF Begin, fileVars
<1> HIDE DEF m
<1> QED BY <1>2, <1>3, <1>4, <1>5, WorkerFacts, GoOnInv

LEMMA RaiseInv == ASSUME Inv, NEW w \in Workers, Raise(w) PROVE Inv'
<1>1. faults' \in 0..MaxFaults
  BY Bounds, WorkerFacts DEF Raise
<1> QED BY <1>1, RollbackInv DEF Raise

LEMMA RereadInv == ASSUME Inv, NEW w \in Workers, Reread(w) PROVE Inv'
<1> DEFINE k == on[w]
           m == [row |-> Loaded(on[w]), train |-> 0, job |-> job[on[w]].status, found |-> FALSE]
<1>1. pc[w] # "idle" /\ k \in Keys /\ job[k].status # "absent" /\ job[k] \in JobRow
  BY WorkerFacts DEF Reread, Inv, TypeOK
<1>2. Loaded(k) \in SubRow /\ Loaded(k).eval <= Len(evals)
  BY <1>1, JobFacts
<1>3. m \in Memory
  <2>1. job[on[w]].status \in {"queued", "completed", "failed", "cancelled"} /\ 0 \in 0..MaxTrains
    BY <1>1, Bounds DEF JobRow
  <2> QED BY <1>2, <2>1 DEF Memory
<1>4. m.train = 0 /\ m.row = Loaded(k) /\ m.job = job[k].status
  OBVIOUS
<1>5. \A s \in Subs : k = EvalJob(s) => Stored(m.train, s)
  BY <1>4 DEF Stored
<1>6. /\ on' = [on EXCEPT ![w] = k] /\ pc' = [pc EXCEPT ![w] = "marking"]
      /\ mem' = [mem EXCEPT ![w] = m]
      /\ UNCHANGED <<mode, rowVars, left, apiVars>> /\ tree' = tree /\ faults' = faults
  BY DEF Reread, Goto, fileVars, Inv, TypeOK
<1>7. "marking" \in Places /\ "marking" \notin InTransaction
  BY DEF Places, InTransaction
<1> HIDE DEF m, k
<1> QED BY <1>1, <1>2, <1>3, <1>4, <1>5, <1>6, <1>7, WorkerFacts, WorkerReadsInv

LEMMA CrashInv == ASSUME Inv, NEW w \in Workers, Crash(w) PROVE Inv'
<1>1. faults' \in 0..MaxFaults
  BY Bounds, WorkerFacts DEF Crash
<1>2. TrainJob(1) \in Keys /\ \A s \in Subs : TrainJob(1) # EvalJob(s)
  BY BoundsAssumption, KeysAre, KeysApart DEF TrainIds
<1>3. NoMemory.row.eval = 0 /\ NoMemory \in Memory /\ Len(evals) \in Nat
  BY NullRows, RowFacts DEF NoMemory, NoSub, Inv
<1>4. /\ pc' = [pc EXCEPT ![w] = "idle"] /\ on' = [on EXCEPT ![w] = TrainJob(1)]
      /\ mem' = [mem EXCEPT ![w] = NoMemory]
      /\ UNCHANGED <<mode, rowVars, left, apiVars>> /\ tree' = tree
  BY DEF Crash, ToIdle, Goto, fileVars
<1>5. "idle" \in Places /\ "idle" \notin InTransaction /\ NoMemory.row.eval <= Len(evals)
  BY <1>3 DEF Places, InTransaction
<1> QED BY <1>1, <1>2, <1>3, <1>4, <1>5, WorkerFacts, WorkerReadsInv

LEMMA ResolveInv == ASSUME Inv, NEW w \in Workers, Resolve(w) PROVE Inv'
<1>1. CASE ResolveWithApi(w)
  <2>1. pc[w] \in InTransaction /\ faults' = faults
    BY <1>1 DEF ResolveWithApi, DeadlockedWithApi, AtFlush, InTransaction
  <2>2. CASE Rollback(w)
    BY <2>1, <2>2, RollbackInv, WorkerFacts
  <2>3. CASE req' = NoRequest /\ UNCHANGED <<mode, rowVars, fileVars, asked, workerVars>>
    <3>1. RequestOpen'
      BY <2>3 DEF RequestOpen, NoRequest
    <3>2. asked' \in 0..MaxRequests
      BY <2>3 DEF Inv, TypeOK
    <3> QED BY <2>1, <2>3, <3>1, <3>2, ReadRequestInv, NullRows
  <2> QED BY <1>1, <2>2, <2>3 DEF ResolveWithApi
<1>2. ASSUME NEW x \in Workers, ResolveWithTrain(w, x) PROVE Inv'
  <2>1. pc[w] \in InTransaction /\ pc[x] \in InTransaction /\ faults' = faults
    BY <1>2 DEF ResolveWithTrain, DeadlockedWithTrain, AtFlush, InTransaction
  <2> QED BY <1>2, <2>1, RollbackInv, WorkerFacts DEF ResolveWithTrain
<1> QED BY <1>1, <1>2 DEF Resolve

-----------------------------------------------------------------------------
(***************************************************************************)
(* Steps that write rows: one lemma for each part of RowsSound             *)
(***************************************************************************)
LEMMA RunsExistStep ==
    ASSUME Inv, TrainsKept, EvalsKept,
           \A t \in TrainIds : job'[TrainJob(t)].status # "absent"
              => job[TrainJob(t)].status # "absent" \/ t \in DOMAIN trains',
           \A e \in EvalIds : job'[ProviderJob(e)].status # "absent"
              => \/ job[ProviderJob(e)].status # "absent"
                 \/ e \in DOMAIN evals' /\ evals'[e].sub = None
    PROVE  RunsExist'
<1>1. RunsExist
  BY DEF Inv, RowsSound
<1>2. \A t \in TrainIds : job'[TrainJob(t)].status # "absent" => t \in DOMAIN trains'
  BY <1>1 DEF RunsExist, TrainsKept
<1>3. \A e \in EvalIds : job'[ProviderJob(e)].status # "absent"
                            => e \in DOMAIN evals' /\ evals'[e].sub = None
  BY <1>1 DEF RunsExist, EvalsKept
<1> QED BY <1>2, <1>3 DEF RunsExist, TrainIds, EvalIds, TrainJob, ProviderJob

LEMMA PayloadsStep ==
    ASSUME Inv, TrainsKept, EvalsKept,
           \A t \in TrainIds : job'[TrainJob(t)].status = "queued"
              => \/ job[TrainJob(t)].status = "queued" /\ trains'[t].output = trains[t].output
                 \/ ~trains'[t].output,
           \A s \in Subs : job'[EvalJob(s)].train = job[EvalJob(s)].train
                             \/ Stored(job[EvalJob(s)].train, s)',
           \A e \in DOMAIN evals' : e \in DOMAIN evals \/ Stored(evals[e].train, evals[e].sub)'
    PROVE  Payloads'
<1>1. Payloads
  BY DEF Inv, RowsSound
<1>2. \A t \in TrainIds : job'[TrainJob(t)].status = "queued" => ~trains'[t].output
  BY <1>1 DEF Payloads
<1>3. \A s \in Subs : Stored(job[EvalJob(s)].train, s)'
  <2> SUFFICES ASSUME NEW s \in Subs, job'[EvalJob(s)].train = job[EvalJob(s)].train
               PROVE  Stored(job[EvalJob(s)].train, s)'
    OBVIOUS
  <2>1. Stored(job[EvalJob(s)].train, s)
    BY <1>1 DEF Payloads
  <2> QED BY <2>1 DEF Stored, TrainsKept, EvalJob
<1>4. \A e \in DOMAIN evals' : Stored(evals[e].train, evals[e].sub)'
  <2> SUFFICES ASSUME NEW e \in DOMAIN evals PROVE Stored(evals[e].train, evals[e].sub)'
    OBVIOUS
  <2>1. Stored(evals[e].train, evals[e].sub)
    BY <1>1 DEF Payloads
  <2> QED BY <2>1 DEF Stored, TrainsKept, EvalsKept
<1> QED BY <1>2, <1>3, <1>4 DEF Payloads, TrainIds, TrainJob, Subs

LEMMA AgreeStep ==
    ASSUME Inv, Payloads',
           \A t \in DOMAIN trains' :
              \/ /\ t \in DOMAIN trains /\ trains'[t].status = trains[t].status
                 /\ job'[TrainJob(t)].status = job[TrainJob(t)].status
              \/ job'[TrainJob(t)].status \notin Outcome
              \/ trains'[t].status = job'[TrainJob(t)].status,
           \A e \in DOMAIN evals' :
              \/ /\ e \in DOMAIN evals /\ evals'[e].status = evals[e].status
                 /\ job'[ProviderJob(e)].status = job[ProviderJob(e)].status
              \/ job'[ProviderJob(e)].status \notin Outcome
              \/ evals'[e].status = job'[ProviderJob(e)].status
    PROVE  RunsAgreeWithJobs'
<1>1. RunsAgreeWithJobs
  BY DEF Inv, RowsSound
<1>2. \A t \in DOMAIN trains' :
         job'[TrainJob(t)].status \in Outcome => trains'[t].status = job'[TrainJob(t)].status
  BY <1>1 DEF RunsAgreeWithJobs
<1>3. \A e \in DOMAIN evals' :
         job'[ProviderJob(e)].status \in Outcome => evals'[e].status = job'[ProviderJob(e)].status
  BY <1>1 DEF RunsAgreeWithJobs
<1>4. \A e \in DOMAIN evals' :
         evals'[e].train # 0 => /\ trains'[evals'[e].train].output
                               /\ trains'[evals'[e].train].sub = evals'[e].sub
  BY DEF Payloads, Stored
<1> QED BY <1>2, <1>3, <1>4 DEF RunsAgreeWithJobs, TrainJob, ProviderJob, Outcome

LEMMA UploadsStep ==
    ASSUME Inv, TrainsKept, EvalsKept, mode' = mode,
           \A s \in Uploads :
              \/ NotStranded(s)'
              \/ /\ \/ sub'[s].status = "failed"
                    \/ sub'[s].status = sub[s].status /\ sub'[s].eval = sub[s].eval
                 /\ \A k \in JobsOf(s) :
                      /\ job'[k].status # "absent"
                      /\ job[k].status # "completed" => job'[k].status # "completed"
    PROVE  UploadsNotStranded'
BY UploadWaits DEF UploadsNotStranded

LEMMA LockedIsQueued ==
    ASSUME Inv
    PROVE  \A k \in Keys : JobLocked(k) => job[k].status = "queued"
BY DEF Inv, WorkersSound, WorkerSound, JobLocked

\* The rows of submissions, as a handler that queues or does no job leaves them.
RowsWritten ==
    /\ sub' \in [Subs -> SubRow]
    /\ \A q \in Subs : /\ sub'[q].eval <= Len(evals)
                       /\ sub'[q].status = "absent" => ~sub'[q].deleted
                       /\ sub[q].status # "absent" => sub'[q].status # "absent"

\* A new train and its job, with or without a submission.
LEMMA TrainEnqueued ==
    ASSUME Inv, NEW s \in Subs \cup {None}, Len(trains) < MaxTrains, trains' = NewTrain(s),
           evals' = evals, mode' = mode, RowsWritten,
           job' = Enqueued(job, TrainJob(Len(trains) + 1), "absent", 0),
           \A q \in Uploads : \/ sub'[q].status = sub[q].status /\ sub'[q].eval = sub[q].eval
                              \/ q = s /\ sub'[q].status = "queued"
    PROVE  /\ RowsSound' /\ TrainsKept /\ EvalsKept /\ JobsKept
           /\ trains' \in Seq(TrainRow) /\ Len(trains') <= MaxTrains /\ job' \in [Keys -> JobRow]
           /\ \A k \in Keys : JobLocked(k) => job'[k].status = job[k].status
<1> DEFINE n == Len(trains) + 1
           k == TrainJob(n)
<1>1. /\ TypeOK /\ RunsExist /\ SubsSound
      /\ job \in [Keys -> JobRow] /\ 0 \in 0..MaxTrains
  BY Bounds DEF Inv, RowsSound, TypeOK
<1>2. /\ trains' \in Seq(TrainRow) /\ Len(trains') <= MaxTrains
      /\ n \in TrainIds /\ n \notin DOMAIN trains
      /\ DOMAIN trains' = DOMAIN trains \cup {n}
      /\ \A t \in DOMAIN trains : trains'[t] = trains[t]
      /\ trains'[n] = [sub |-> s, status |-> "queued", output |-> FALSE]
      /\ TrainsKept
  BY <1>1, TrainAdded
<1>3. EvalsKept
  BY DEF EvalsKept
<1>4. k \in Keys /\ k[1] = "train"
  BY <1>2, KeysAre, KindOfKey
<1>5. /\ job' \in [Keys -> JobRow] /\ \A j \in Keys \ {k} : job'[j] = job[j]
      /\ job'[k].status = "queued"
  BY <1>1, <1>4, EnqueuedIs
<1>6. job[k].status = "absent"
  BY <1>1, <1>2 DEF RunsExist
<1> HIDE DEF k
<1>7. JobsKept /\ \A j \in Keys : JobLocked(j) => job'[j].status = job[j].status
  BY <1>5, <1>6, LockedIsQueued DEF JobsKept
<1>8. \A t \in DOMAIN trains : TrainJob(t) # k /\ TrainJob(t) \in Keys /\ t \in TrainIds
  BY <1>1, <1>2, RowFacts, KeysApart, KeysAre DEF k
<1>9. /\ \A q \in Subs : EvalJob(q) # k /\ EvalJob(q) \in Keys
      /\ \A e \in EvalIds : ProviderJob(e) # k /\ ProviderJob(e) \in Keys
  BY <1>2, KeysApart, KeysAre DEF k
<1>10. \A t \in TrainIds : t = n \/ job'[TrainJob(t)] = job[TrainJob(t)]
  BY <1>2, <1>5, KeysApart, KeysAre DEF k
<1> HIDE DEF n
<1>11. RunsExist'
  BY <1>2, <1>3, <1>5, <1>9, <1>10, RunsExistStep
<1>12. Payloads'
  <2>1. \A t \in TrainIds : job'[TrainJob(t)].status = "queued"
          => \/ job[TrainJob(t)].status = "queued" /\ trains'[t].output = trains[t].output
             \/ ~trains'[t].output
    BY <1>1, <1>2, <1>10 DEF RunsExist
  <2>2. \A q \in Subs : job'[EvalJob(q)].train = job[EvalJob(q)].train
    BY <1>5, <1>9
  <2> QED BY <1>2, <1>3, <2>1, <2>2, PayloadsStep
<1>13. SubsSound'
  BY DEF RowsWritten, SubsSound, Subs
<1>14. RunsAgreeWithJobs'
  <2>1. \A e \in DOMAIN evals : job'[ProviderJob(e)] = job[ProviderJob(e)]
    BY <1>1, <1>5, <1>9, RowFacts
  <2>2. job'[TrainJob(n)].status \notin Outcome
    BY <1>5 DEF Outcome, k
  <2> QED BY <1>2, <1>10, <1>8, <1>12, <2>1, <2>2, AgreeStep
<1>15. UploadsNotStranded'
  <2> SUFFICES ASSUME NEW q \in Uploads
               PROVE  \/ NotStranded(q)'
                      \/ /\ sub'[q].status = sub[q].status /\ sub'[q].eval = sub[q].eval
                         /\ \A j \in JobsOf(q) :
                              /\ job'[j].status # "absent"
                              /\ job[j].status # "completed" => job'[j].status # "completed"
    BY <1>2, <1>3, UploadsStep
  <2>1. CASE q = s /\ sub'[q].status = "queued"
    <3>1. PICK t \in TrainIds : t = n
      BY <1>2
    <3>2. PICK j \in Keys : j = k
      BY <1>4
    <3>3. j = TrainJob(t)
      BY <3>1, <3>2 DEF k
    <3>4. SubOf(j)' = q
      <4>1. trains'[t].sub = q
        BY <1>2, <2>1, <3>1
      <4> QED BY <3>3, <4>1, SubOfKeyNext
    <3>5. job'[j].status = "queued"
      BY <1>5, <3>2
    <3>6. j \in JobsOf(q)'
      BY <3>2, <3>4, <3>5
         DEF JobsOf, Keys, TrainJob, EvalJob, ProviderJob, TrainIds, EvalIds, Subs
    <3> QED BY <2>1, <3>5, <3>6 DEF NotStranded
  <2>2. CASE sub'[q].status = sub[q].status /\ sub'[q].eval = sub[q].eval
    <3>1. \A j \in JobsOf(q) : j \in Keys /\ job[j].status # "absent"
      BY DEF JobsOf
    <3> QED BY <1>5, <1>6, <2>2, <3>1
  <2> QED BY <2>1, <2>2
<1> QED BY <1>2, <1>3, <1>5, <1>7, <1>11, <1>12, <1>13, <1>14, <1>15 DEF RowsSound

\* No new run: jobs are left alone, cancelled, or (evaluations) queued again
\* for the submitted checkpoint.
LEMMA QueueTouched ==
    ASSUME Inv, trains' = trains, evals' = evals, mode' = mode, RowsWritten,
           job' \in [Keys -> JobRow],
           \A k \in Keys :
              \/ job'[k] = job[k]
              \/ /\ job[k].status # "absent" /\ ~JobLocked(k)
                 /\ job'[k].status = "cancelled" /\ job'[k].train = job[k].train
              \/ /\ k[1] = "evaluation" /\ job'[k].train = 0
                 /\ job'[k].status \in {"queued", job[k].status},
           \A q \in Uploads : \/ sub'[q].status = sub[q].status /\ sub'[q].eval = sub[q].eval
                              \/ /\ sub'[q].status = "queued"
                                 /\ mode = "sync" \/ job'[EvalJob(q)].status = "queued"
    PROVE  /\ RowsSound' /\ TrainsKept /\ EvalsKept /\ JobsKept
           /\ \A k \in Keys : JobLocked(k) => job'[k].status = job[k].status
<1>1. TrainsKept /\ EvalsKept
  BY NothingChanged
<1>2. /\ \A t \in TrainIds : TrainJob(t) \in Keys /\ TrainJob(t)[1] # "evaluation"
      /\ \A s \in Subs : EvalJob(s) \in Keys
      /\ \A e \in EvalIds : ProviderJob(e) \in Keys /\ ProviderJob(e)[1] # "evaluation"
  BY KeysAre, KindOfKey
<1>3. /\ DOMAIN trains \subseteq TrainIds /\ DOMAIN evals \subseteq EvalIds
      /\ Subs = Uploads \cup PullRequests
  BY RowFacts DEF Inv, Subs
<1>4. JobsKept /\ \A k \in Keys : JobLocked(k) => job'[k].status = job[k].status
  BY LockedIsQueued DEF JobsKept
<1>5. RunsExist'
  BY <1>1, <1>2, RunsExistStep
<1>6. Payloads'
  <2>1. \A s \in Subs : job'[EvalJob(s)].train \in {0, job[EvalJob(s)].train}
    BY <1>2
  <2>2. \A s \in Subs : job'[EvalJob(s)].train = job[EvalJob(s)].train
                          \/ Stored(job[EvalJob(s)].train, s)'
    BY <2>1 DEF Stored, EvalJob
  <2>3. \A t \in TrainIds : job'[TrainJob(t)].status = "queued" => job[TrainJob(t)].status = "queued"
    BY <1>2
  <2> QED BY <1>1, <2>2, <2>3, PayloadsStep
<1>7. SubsSound'
  BY DEF RowsWritten, SubsSound, Subs
<1>8. RunsAgreeWithJobs'
  <2>1. \A t \in DOMAIN trains : \/ job'[TrainJob(t)].status = job[TrainJob(t)].status
                                 \/ job'[TrainJob(t)].status = "cancelled"
    BY <1>2, <1>3
  <2>2. \A e \in DOMAIN evals : \/ job'[ProviderJob(e)].status = job[ProviderJob(e)].status
                                \/ job'[ProviderJob(e)].status = "cancelled"
    BY <1>2, <1>3
  <2>3. "cancelled" \notin Outcome
    BY DEF Outcome
  <2> QED BY <1>6, <2>1, <2>2, <2>3, AgreeStep
<1>9. UploadsNotStranded'
  <2> SUFFICES ASSUME NEW q \in Uploads
               PROVE  \/ NotStranded(q)'
                      \/ /\ sub'[q].status = sub[q].status /\ sub'[q].eval = sub[q].eval
                         /\ \A j \in JobsOf(q) :
                              /\ job'[j].status # "absent"
                              /\ job[j].status # "completed" => job'[j].status # "completed"
    BY <1>1, UploadsStep
  <2>1. CASE sub'[q].status = sub[q].status /\ sub'[q].eval = sub[q].eval
    <3>1. \A j \in JobsOf(q) : j \in Keys /\ job[j].status # "absent"
      BY DEF JobsOf
    <3> QED BY <2>1, <3>1
  <2>2. CASE sub'[q].status = "queued" /\ mode = "sync"
    BY <2>2 DEF NotStranded
  <2>3. CASE sub'[q].status = "queued" /\ job'[EvalJob(q)].status = "queued"
    <3>1. PICK j \in Keys : j = EvalJob(q)
      BY <1>2, <1>3
    <3>2. SubOf(j)' = q
      BY <1>3, <3>1, SubOfKeyNext
    <3>3. j \in JobsOf(q)'
      BY <2>3, <3>1, <3>2
         DEF JobsOf, Keys, TrainJob, EvalJob, ProviderJob, TrainIds, EvalIds, Subs
    <3> QED BY <2>3, <3>1, <3>3 DEF NotStranded
  <2> QED BY <2>1, <2>2, <2>3
<1> QED BY <1>1, <1>4, <1>5, <1>6, <1>7, <1>8, <1>9 DEF RowsSound

-----------------------------------------------------------------------------
(***************************************************************************)
(* Handlers that write                                                     *)
(***************************************************************************)

\* The rest of the invariant, after a handler committed its rows.
LEMMA HandlerWritesInv ==
    ASSUME Inv, RowsSound', TrainsKept, JobsKept, RequestOpen',
           \A k \in Keys : JobLocked(k) => job'[k].status = job[k].status,
           sub' \in [Subs -> SubRow], job' \in [Keys -> JobRow],
           trains' \in Seq(TrainRow), Len(trains') <= MaxTrains,
           evals' \in Seq(EvalRow), Len(evals') <= MaxEvals, Len(evals) <= Len(evals'),
           left' \subseteq Subs, req' \in Request, asked' \in 0..MaxRequests,
           UNCHANGED <<mode, tree, workerVars, faults>>
    PROVE  Inv'
<1>1. Len(evals') \in Nat
  OBVIOUS
<1>2. WorkersSound'
  BY <1>1, WorkersWait
<1>3. TypeOK'
  BY DEF Inv, TypeOK, workerVars, Subs, Keys, TrainJob, EvalJob, ProviderJob,
         TrainIds, EvalIds, InTransaction, Request, SubRow, TrainRow, EvalRow, JobRow, Memory
<1> QED BY <1>2, <1>3 DEF Inv

LEMMA TypeFacts ==
    ASSUME Inv
    PROVE  /\ TypeOK /\ RequestOpen /\ SubsSound
           /\ sub \in [Subs -> SubRow] /\ job \in [Keys -> JobRow]
           /\ trains \in Seq(TrainRow) /\ Len(trains) <= MaxTrains
           /\ evals \in Seq(EvalRow) /\ Len(evals) <= MaxEvals /\ Len(evals) \in Nat
           /\ left \subseteq Subs /\ req \in Request /\ asked \in 0..MaxRequests
           /\ Uploads \subseteq Subs /\ PullRequests \subseteq Subs
BY RowFacts DEF Inv, TypeOK, RowsSound, Subs

LEMMA SubmitUploadIs ==
    ASSUME NEW s \in Uploads, SubmitUpload(s)
    PROVE  /\ Ask /\ sub[s].status = "absent"
           /\ UNCHANGED <<mode, evals, fileVars, workerVars, faults>>
           /\ mode = "train"
                => /\ Len(trains) < MaxTrains /\ trains' = NewTrain(s)
                   /\ sub' = [sub EXCEPT ![s] = TrainStarted([NoSub EXCEPT !.status = "queued"])]
                   /\ job' = Enqueued(job, TrainJob(Len(trains) + 1), "absent", 0)
                   /\ req' = req
           /\ mode = "eval"
                => /\ trains' = trains
                   /\ sub' = [sub EXCEPT ![s] = [NoSub EXCEPT !.status = "queued"]]
                   /\ job' = Enqueued(job, EvalJob(s), "absent", 0)
                   /\ req' = req
           /\ mode = "sync"
                => /\ trains' = trains /\ job' = job
                   /\ sub' = [sub EXCEPT ![s] = [NoSub EXCEPT !.status = "queued"]]
                   /\ req' = [NoRequest EXCEPT !.op = "sync", !.stage = "locked", !.sub = s]
<1>1. "train" # "eval" /\ "train" # "sync" /\ "eval" # "sync"
  OBVIOUS
<1>2. Ask /\ sub[s].status = "absent" /\ UNCHANGED <<mode, evals, fileVars, workerVars, faults>>
  BY DEF SubmitUpload
<1>3. CASE mode = "train"
  BY <1>1, <1>2, <1>3, Zenon DEF SubmitUpload
<1>4. CASE mode = "eval"
  BY <1>1, <1>2, <1>4, Zenon DEF SubmitUpload
<1>5. CASE mode = "sync"
  BY <1>1, <1>2, <1>5, Zenon DEF SubmitUpload
<1> QED BY <1>2, <1>3, <1>4, <1>5

LEMMA CommitSubmitIs ==
    ASSUME CommitSubmit
    PROVE  LET s == req.sub
               k == EvalJob(s)
               row == [req.row EXCEPT !.status = "queued", !.head = req.head, !.eval = 0]
               seen == IF k \in req.seen THEN "queued" ELSE job[k].status
           IN  /\ req.op = "submit" /\ req.stage = "locked" /\ \A j \in Wants : ~JobLocked(j)
               /\ UNCHANGED <<mode, evals, fileVars, asked, workerVars, faults>>
               /\ mode = "train"
                    => /\ Len(trains) < MaxTrains /\ trains' = NewTrain(s)
                       /\ sub' = [sub EXCEPT ![s] = NetRow(@, req.row, TrainStarted(row))]
                       /\ job' = Enqueued(job, TrainJob(Len(trains) + 1), "absent", 0)
                       /\ req' = NoRequest
               /\ mode = "eval"
                    => /\ trains' = trains
                       /\ sub' = [sub EXCEPT ![s] = NetRow(@, req.row, row)]
                       /\ job' = Enqueued(job, k, seen, 0)
                       /\ req' = NoRequest
               /\ mode = "sync"
                    => /\ trains' = trains /\ job' = job
                       /\ sub' = [sub EXCEPT ![s] = NetRow(@, req.row, row)]
                       /\ req' = [NoRequest EXCEPT !.op = "sync", !.stage = "locked",
                                                   !.sub = req.sub]
<1>1. "train" # "eval" /\ "train" # "sync" /\ "eval" # "sync"
  OBVIOUS
<1>2. /\ req.op = "submit" /\ req.stage = "locked" /\ \A j \in Wants : ~JobLocked(j)
      /\ UNCHANGED <<mode, evals, fileVars, asked, workerVars, faults>>
  BY DEF CommitSubmit
<1>3. CASE mode = "train"
  BY <1>1, <1>2, <1>3, Zenon DEF CommitSubmit
<1>4. CASE mode = "eval"
  BY <1>1, <1>2, <1>4, Zenon DEF CommitSubmit
<1>5. CASE mode = "sync"
  BY <1>1, <1>2, <1>5, Zenon DEF CommitSubmit
<1>6. CASE mode \notin {"train", "eval", "sync"}
  BY <1>2, <1>6
<1> QED BY <1>3, <1>4, <1>5, <1>6

LEMMA ModeIs == Inv => mode \in {"train", "eval", "sync"}
BY ModesAssumption DEF Inv, TypeOK

LEMMA StartedRow ==
    ASSUME Inv, NEW r \in SubRow, Len(trains) < MaxTrains
    PROVE  /\ TrainStarted(r) \in SubRow /\ TrainStarted(r).status = "queued"
           /\ TrainStarted(r).eval = 0 /\ TrainStarted(r).deleted = r.deleted
<1>1. Len(trains) + 1 \in 0..MaxTrains /\ 0 \in 0..MaxEvals
  BY Bounds, RowFacts DEF Inv
<1>2. TrainStarted(r) = [r EXCEPT !.status = "queued", !.train = Len(trains) + 1, !.eval = 0]
  BY DEF TrainStarted
<1>3. PICK t \in 0..MaxTrains : t = Len(trains) + 1
  BY <1>1
<1>4. TrainStarted(r) = [r EXCEPT !.status = "queued", !.train = t, !.eval = 0]
  BY <1>2, <1>3
<1> QED BY <1>1, <1>4 DEF SubRow

LEMMA QueuedRow ==
    ASSUME NEW l \in SubRow, NEW h \in 0..MaxHead
    PROVE  LET row == [l EXCEPT !.status = "queued", !.head = h, !.eval = 0]
           IN  row \in SubRow /\ row.status = "queued" /\ row.eval = 0 /\ row.deleted = l.deleted
<1>1. 0 \in 0..MaxEvals
  BY Bounds
<1> QED BY <1>1 DEF SubRow

LEMMA SubmitUploadInv == ASSUME Inv, NEW s \in Uploads, SubmitUpload(s) PROVE Inv'
<1> DEFINE row == [NoSub EXCEPT !.status = "queued"]
           started == TrainStarted(row)
<1>1. /\ row \in SubRow /\ row.status = "queued" /\ row.eval = 0 /\ ~row.deleted
      /\ Len(trains) < MaxTrains
           => /\ started \in SubRow /\ started.status = "queued" /\ started.eval = 0
              /\ ~started.deleted
  <2>1. NoSub \in SubRow /\ ~NoSub.deleted /\ NoSub.eval = 0
    BY NullRows DEF NoSub
  <2>2. row \in SubRow /\ row.status = "queued" /\ row.eval = 0 /\ ~row.deleted
    BY <2>1 DEF SubRow
  <2> QED BY <2>2, StartedRow
<1>2. /\ s \in Subs /\ asked' \in 0..MaxRequests /\ sub[s].status = "absent"
      /\ UNCHANGED <<mode, evals, tree, left, workerVars, faults>>
  BY SubmitUploadIs, AskBounded, TypeFacts DEF fileVars
<1>3. ASSUME NEW r \in SubRow, r.status = "queued", r.eval = 0, ~r.deleted,
             sub' = [sub EXCEPT ![s] = r]
      PROVE  /\ RowsWritten
             /\ \A q \in Subs : sub[q].status # "absent" => sub'[q].status # "absent"
             /\ \A q \in Uploads : \/ sub'[q].status = sub[q].status /\ sub'[q].eval = sub[q].eval
                                   \/ q = s /\ sub'[q].status = "queued"
  <2>1. sub' \in [Subs -> SubRow] /\ sub'[s] = r /\ \A q \in Subs \ {s} : sub'[q] = sub[q]
    BY <1>2, <1>3, SubWritten, TypeFacts
  <2> QED BY <1>3, <2>1, TypeFacts DEF RowsWritten, SubsSound
<1> HIDE DEF row, started
<1>4. CASE mode = "train"
  <2>1. /\ Len(trains) < MaxTrains /\ trains' = NewTrain(s) /\ sub' = [sub EXCEPT ![s] = started]
        /\ job' = Enqueued(job, TrainJob(Len(trains) + 1), "absent", 0) /\ req' = req
    BY <1>4, SubmitUploadIs DEF row, started
  <2>2. /\ RowsSound' /\ TrainsKept /\ JobsKept
        /\ trains' \in Seq(TrainRow) /\ Len(trains') <= MaxTrains /\ job' \in [Keys -> JobRow]
        /\ \A k \in Keys : JobLocked(k) => job'[k].status = job[k].status
    <3>1. /\ RowsWritten
          /\ \A q \in Uploads : \/ sub'[q].status = sub[q].status /\ sub'[q].eval = sub[q].eval
                                \/ q = s /\ sub'[q].status = "queued"
      BY <1>1, <1>3, <2>1
    <3>2. s \in Subs \cup {None} /\ evals' = evals /\ mode' = mode
      BY <1>2
    <3> QED BY <2>1, <3>1, <3>2, TrainEnqueued
  <2>3. RequestOpen'
    BY <1>1, <1>3, <2>1, <2>2, RequestWaits DEF JobsKept
  <2>4. sub' \in [Subs -> SubRow]
    BY <1>1, <1>3, <2>1 DEF RowsWritten
  <2> QED BY <1>2, <2>1, <2>2, <2>3, <2>4, TypeFacts, HandlerWritesInv
<1>5. ASSUME mode \in {"eval", "sync"}, trains' = trains, sub' = [sub EXCEPT ![s] = row],
             \/ mode = "eval" /\ job' = Enqueued(job, EvalJob(s), "absent", 0) /\ req' = req
             \/ mode = "sync" /\ job' = job /\ req' \in Request /\ RequestOpen'
      PROVE  Inv'
  <2>1. /\ EvalJob(s) \in Keys /\ EvalJob(s)[1] = "evaluation" /\ EvalJob(s)[2] = s
        /\ 0 \in 0..MaxTrains
    BY <1>2, KeysAre, KindOfKey, Bounds
  <2>2. /\ job' \in [Keys -> JobRow]
        /\ \A k \in Keys : \/ job'[k] = job[k]
                           \/ /\ k[1] = "evaluation" /\ job'[k].train = 0
                              /\ job'[k].status \in {"queued", job[k].status}
        /\ mode = "eval" => job'[EvalJob(s)].status = "queued"
    BY <1>5, <2>1, EnqueuedIs, TypeFacts
  <2>3. RowsWritten /\ \A q \in Uploads : \/ sub'[q].status = sub[q].status /\ sub'[q].eval = sub[q].eval
                                          \/ q = s /\ sub'[q].status = "queued"
    BY <1>1, <1>3, <1>5
  <2>4. \A q \in Uploads : \/ sub'[q].status = sub[q].status /\ sub'[q].eval = sub[q].eval
                           \/ /\ sub'[q].status = "queued"
                              /\ mode = "sync" \/ job'[EvalJob(q)].status = "queued"
    BY <1>5, <2>2, <2>3
  <2>5. /\ RowsSound' /\ TrainsKept /\ JobsKept
        /\ \A k \in Keys : JobLocked(k) => job'[k].status = job[k].status
    BY <1>2, <1>5, <2>2, <2>3, <2>4, QueueTouched
  <2>6. RequestOpen' /\ req' \in Request
    BY <1>1, <1>3, <1>5, <2>5, RequestWaits, TypeFacts DEF JobsKept
  <2>7. sub' \in [Subs -> SubRow]
    BY <2>3 DEF RowsWritten
  <2> QED BY <1>2, <1>5, <2>2, <2>5, <2>6, <2>7, TypeFacts, HandlerWritesInv
<1>6. CASE mode = "eval"
  BY <1>5, <1>6, SubmitUploadIs DEF row
<1>7. CASE mode = "sync"
  <2>1. /\ trains' = trains /\ job' = job /\ sub' = [sub EXCEPT ![s] = row]
        /\ req' = [NoRequest EXCEPT !.op = "sync", !.stage = "locked", !.sub = s]
    BY <1>7, SubmitUploadIs DEF row
  <2>2. req' = [op |-> "sync", stage |-> "locked", sub |-> s, head |-> 0, row |-> NoSub, seen |-> {}]
    BY <2>1 DEF NoRequest
  <2>3. req' \in Request
    <3>1. NoSub \in SubRow /\ s \in Subs /\ 0 \in 0..MaxHead
      BY <1>2, NullRows, Bounds
    <3> QED BY <2>2, <3>1 DEF Request
  <2>4. RequestOpen'
    BY <1>2, <2>2 DEF RequestOpen, Subs
  <2> QED BY <1>5, <1>7, <2>1, <2>3, <2>4
<1> QED BY <1>4, <1>6, <1>7, ModeIs

LEMMA WantsIs ==
    /\ req.op = "delete" => Wants = req.seen
    /\ req.op = "submit" /\ mode = "eval" => Wants = {EvalJob(req.sub)}
<1>1. "delete" # "submit"
  OBVIOUS
<1>2. req.op = "delete" => Wants = req.seen
  BY <1>1, Zenon DEF Wants
<1>3. req.op = "submit" /\ mode = "eval" => Wants = {EvalJob(req.sub)}
  BY <1>1, Zenon DEF Wants
<1> QED BY <1>2, <1>3

\* A flush of a pull request's submission, which sets it queued.
LEMMA FlushedRows ==
    ASSUME Inv, NEW s \in PullRequests, NEW l \in SubRow, NEW r \in SubRow,
           r.status = "queued", r.eval = 0, r.deleted = l.deleted,
           sub' = [sub EXCEPT ![s] = NetRow(@, l, r)]
    PROVE  /\ RowsWritten
           /\ \A q \in Subs : sub[q].status # "absent" => sub'[q].status # "absent"
           /\ \A q \in Uploads : sub'[q].status = sub[q].status /\ sub'[q].eval = sub[q].eval
           /\ \A q \in Subs : sub'[q].deleted = sub[q].deleted
<1>1. s \in Subs /\ s \notin Uploads /\ sub[s] \in SubRow
  BY SubsAssumption, TypeFacts DEF Subs
<1> DEFINE n == NetRow(sub[s], l, r)
<1>2. /\ n \in SubRow /\ n.status \in {sub[s].status, "queued"} /\ n.eval \in {sub[s].eval, 0}
      /\ n.deleted = sub[s].deleted
  BY <1>1, NetRowIs
<1>3. sub' = [sub EXCEPT ![s] = n]
  OBVIOUS
<1> HIDE DEF n
<1>4. sub' \in [Subs -> SubRow] /\ sub'[s] = n /\ \A q \in Subs \ {s} : sub'[q] = sub[q]
  BY <1>1, <1>2, <1>3, SubWritten, TypeFacts
<1>5. RowsWritten
  BY <1>2, <1>4, TypeFacts DEF RowsWritten, SubsSound
<1> QED BY <1>1, <1>2, <1>4, <1>5, TypeFacts

LEMMA CommitSubmitInv == ASSUME Inv, CommitSubmit PROVE Inv'
<1> DEFINE s == req.sub
           k == EvalJob(s)
           row == [req.row EXCEPT !.status = "queued", !.head = req.head, !.eval = 0]
           seen == IF k \in req.seen THEN "queued" ELSE job[k].status
<1>1. /\ s \in PullRequests /\ s \in Subs /\ req.row \in SubRow /\ req.head \in 0..MaxHead
      /\ k \in Keys /\ k[1] = "evaluation"
  <2>1. req.op = "submit" /\ RequestOpen /\ req \in Request
    BY CommitSubmitIs, TypeFacts
  <2>2. s \in PullRequests /\ s \in Subs
    BY <2>1, TypeFacts DEF RequestOpen
  <2> QED BY <2>1, <2>2, KeysAre, KindOfKey DEF Request
<1>2. row \in SubRow /\ row.status = "queued" /\ row.eval = 0 /\ row.deleted = req.row.deleted
  BY <1>1, QueuedRow
<1>3. /\ asked' \in 0..MaxRequests /\ req.op = "submit"
      /\ UNCHANGED <<mode, evals, tree, left, workerVars, faults>>
  BY CommitSubmitIs, TypeFacts DEF fileVars
<1>4. ASSUME req' = NoRequest PROVE RequestOpen' /\ req' \in Request
  BY <1>4, NullRows DEF RequestOpen, NoRequest
<1>5. CASE mode = "train"
  <2> DEFINE started == TrainStarted(row)
  <2>1. /\ Len(trains) < MaxTrains /\ trains' = NewTrain(s)
        /\ sub' = [sub EXCEPT ![s] = NetRow(@, req.row, started)]
        /\ job' = Enqueued(job, TrainJob(Len(trains) + 1), "absent", 0) /\ req' = NoRequest
    BY <1>5, CommitSubmitIs
  <2>2. /\ started \in SubRow /\ started.status = "queued" /\ started.eval = 0
        /\ started.deleted = req.row.deleted
    BY <1>2, <2>1, StartedRow
  <2> HIDE DEF started
  <2>3. /\ RowsWritten
        /\ \A q \in Uploads : sub'[q].status = sub[q].status /\ sub'[q].eval = sub[q].eval
    BY <1>1, <2>1, <2>2, FlushedRows
  <2> HIDE DEF s
  <2>4. /\ RowsSound' /\ TrainsKept /\ JobsKept
        /\ trains' \in Seq(TrainRow) /\ Len(trains') <= MaxTrains /\ job' \in [Keys -> JobRow]
        /\ \A j \in Keys : JobLocked(j) => job'[j].status = job[j].status
    <3>1. s \in Subs \cup {None} /\ evals' = evals /\ mode' = mode
      BY <1>1, <1>3
    <3> QED BY <2>1, <2>3, <3>1, TrainEnqueued
  <2>5. sub' \in [Subs -> SubRow]
    BY <2>3 DEF RowsWritten
  <2> QED BY <1>3, <1>4, <2>1, <2>4, <2>5, TypeFacts, HandlerWritesInv
<1>6. ASSUME mode \in {"eval", "sync"}, trains' = trains, req' \in Request, RequestOpen',
             sub' = [sub EXCEPT ![s] = NetRow(@, req.row, row)],
             job' = job \/ job' = Enqueued(job, k, seen, 0)
      PROVE  Inv'
  <2> HIDE DEF seen, row
  <2>1. 0 \in 0..MaxTrains
    BY Bounds
  <2>2. /\ job' \in [Keys -> JobRow]
        /\ \A j \in Keys : \/ job'[j] = job[j]
                           \/ /\ j[1] = "evaluation" /\ job'[j].train = 0
                              /\ job'[j].status \in {"queued", job[j].status}
    <3>1. CASE job' = job
      BY <3>1, TypeFacts
    <3>2. CASE job' = Enqueued(job, k, seen, 0)
      <4> HIDE DEF k
      <4> QED BY <1>1, <2>1, <3>2, EnqueuedIs, TypeFacts
    <3> QED BY <1>6, <3>1, <3>2
  <2>3. /\ RowsWritten
        /\ \A q \in Uploads : sub'[q].status = sub[q].status /\ sub'[q].eval = sub[q].eval
    BY <1>1, <1>2, <1>6, FlushedRows
  <2>4. /\ RowsSound' /\ TrainsKept /\ JobsKept
        /\ \A j \in Keys : JobLocked(j) => job'[j].status = job[j].status
    BY <1>3, <1>6, <2>2, <2>3, QueueTouched
  <2>5. sub' \in [Subs -> SubRow]
    BY <2>3 DEF RowsWritten
  <2> QED BY <1>3, <1>6, <2>2, <2>4, <2>5, TypeFacts, HandlerWritesInv
<1>7. CASE mode = "eval"
  <2>1. /\ trains' = trains /\ sub' = [sub EXCEPT ![s] = NetRow(@, req.row, row)]
        /\ job' = Enqueued(job, k, seen, 0) /\ req' = NoRequest
    BY <1>7, CommitSubmitIs
  <2> QED BY <1>4, <1>6, <1>7, <2>1
<1>8. CASE mode = "sync"
  <2>1. /\ trains' = trains /\ sub' = [sub EXCEPT ![s] = NetRow(@, req.row, row)]
        /\ job' = job
        /\ req' = [NoRequest EXCEPT !.op = "sync", !.stage = "locked", !.sub = s]
    BY <1>8, CommitSubmitIs
  <2>2. req' = [op |-> "sync", stage |-> "locked", sub |-> s, head |-> 0, row |-> NoSub, seen |-> {}]
    BY <2>1 DEF NoRequest
  <2>3. req' \in Request
    <3>1. NoSub \in SubRow /\ s \in Subs /\ 0 \in 0..MaxHead
      BY <1>1, NullRows, Bounds
    <3> QED BY <2>2, <3>1 DEF Request
  <2>4. RequestOpen'
    BY <1>1, <2>2 DEF RequestOpen, Subs
  <2> QED BY <1>6, <1>8, <2>1, <2>3, <2>4
<1> QED BY <1>5, <1>7, <1>8, ModeIs

LEMMA CommitDeleteInv == ASSUME Inv, CommitDelete PROVE Inv'
<1>1. /\ req.op = "delete" /\ \A k \in req.seen : ~JobLocked(k)
      /\ sub' = [sub EXCEPT ![req.sub].deleted = TRUE]
      /\ job' = [k \in Keys |-> IF k \in req.seen THEN [job[k] EXCEPT !.status = "cancelled"]
                                ELSE job[k]]
      /\ req' = NoRequest
      /\ UNCHANGED <<mode, trains, evals, tree, left, asked, workerVars, faults>>
  BY WantsIs DEF CommitDelete, fileVars
<1>2. /\ req.sub \in Subs /\ sub[req.sub] \in SubRow /\ sub[req.sub].status # "absent"
      /\ req.seen \subseteq Keys /\ \A k \in req.seen : job[k].status # "absent"
  BY <1>1, TypeFacts DEF RequestOpen, Request
<1>3. /\ sub' \in [Subs -> SubRow]
      /\ \A q \in Subs : /\ sub'[q].status = sub[q].status /\ sub'[q].eval = sub[q].eval
                         /\ q # req.sub => sub'[q] = sub[q]
  BY <1>1, <1>2, TypeFacts DEF SubRow
<1>4. RowsWritten
  BY <1>2, <1>3, TypeFacts DEF RowsWritten, SubsSound
<1>5. /\ job' \in [Keys -> JobRow]
      /\ \A k \in Keys : \/ job'[k] = job[k]
                         \/ /\ job[k].status # "absent" /\ ~JobLocked(k)
                            /\ job'[k].status = "cancelled" /\ job'[k].train = job[k].train
  <2>1. ASSUME NEW k \in Keys
        PROVE  /\ [job[k] EXCEPT !.status = "cancelled"] \in JobRow
               /\ [job[k] EXCEPT !.status = "cancelled"].status = "cancelled"
               /\ [job[k] EXCEPT !.status = "cancelled"].train = job[k].train
    BY TypeFacts DEF JobRow
  <2>2. \A k \in Keys : job'[k] = IF k \in req.seen THEN [job[k] EXCEPT !.status = "cancelled"]
                                  ELSE job[k]
    BY <1>1
  <2>3. job' \in [Keys -> JobRow]
    BY <1>1, <2>1, TypeFacts
  <2> QED BY <1>1, <1>2, <2>1, <2>2, <2>3
<1>6. /\ RowsSound' /\ TrainsKept /\ JobsKept
      /\ \A k \in Keys : JobLocked(k) => job'[k].status = job[k].status
  BY <1>1, <1>3, <1>4, <1>5, TypeFacts, QueueTouched
<1>7. RequestOpen' /\ req' \in Request
  BY <1>1, NullRows DEF RequestOpen, NoRequest
<1> QED BY <1>1, <1>3, <1>5, <1>6, <1>7, TypeFacts, HandlerWritesInv

LEMMA RevokeSubmissionInv == ASSUME Inv, NEW s \in Subs, RevokeSubmission(s) PROVE Inv'
<1>1. /\ sub[s].status # "absent" /\ sub' = [sub EXCEPT ![s].deleted = FALSE]
      /\ UNCHANGED <<mode, trains, evals, job, tree, left, req, workerVars, faults>>
      /\ asked' \in 0..MaxRequests
  BY AskBounded, TypeFacts DEF RevokeSubmission, fileVars
<1>2. /\ sub' \in [Subs -> SubRow]
      /\ \A q \in Subs : /\ sub'[q].status = sub[q].status /\ sub'[q].eval = sub[q].eval
                         /\ q # s => sub'[q] = sub[q]
  BY <1>1, TypeFacts DEF SubRow
<1>3. RowsWritten
  BY <1>1, <1>2, TypeFacts DEF RowsWritten, SubsSound
<1>4. /\ RowsSound' /\ TrainsKept /\ JobsKept
      /\ \A k \in Keys : JobLocked(k) => job'[k].status = job[k].status
  BY <1>1, <1>2, <1>3, TypeFacts, QueueTouched
<1>5. RequestOpen'
  BY <1>1, <1>2, RequestWaits
<1> QED BY <1>1, <1>2, <1>4, <1>5, TypeFacts, HandlerWritesInv

LEMMA CreateTrainInv == ASSUME Inv, NEW s \in Subs \cup {None}, CreateTrain(s) PROVE Inv'
<1>1. /\ Len(trains) < MaxTrains /\ trains' = NewTrain(s)
      /\ job' = Enqueued(job, TrainJob(Len(trains) + 1), "absent", 0)
      /\ sub' = IF s = None THEN sub ELSE [sub EXCEPT ![s].train = Len(trains) + 1]
      /\ UNCHANGED <<mode, evals, tree, left, req, workerVars, faults>>
      /\ asked' \in 0..MaxRequests
  BY AskBounded, TypeFacts DEF CreateTrain, fileVars
<1>2. Len(trains) + 1 \in 0..MaxTrains
  BY <1>1, Bounds, TypeFacts, RowFacts
<1>3. /\ sub' \in [Subs -> SubRow]
      /\ \A q \in Subs : /\ sub'[q].status = sub[q].status /\ sub'[q].eval = sub[q].eval
                         /\ sub'[q].deleted = sub[q].deleted
  BY <1>1, <1>2, TypeFacts DEF SubRow
<1>4. RowsWritten
  BY <1>3, TypeFacts DEF RowsWritten, SubsSound
<1>5. \A q \in Uploads : sub'[q].status = sub[q].status /\ sub'[q].eval = sub[q].eval
  BY <1>3, TypeFacts
<1>6. /\ RowsSound' /\ TrainsKept /\ JobsKept
      /\ trains' \in Seq(TrainRow) /\ Len(trains') <= MaxTrains /\ job' \in [Keys -> JobRow]
      /\ \A k \in Keys : JobLocked(k) => job'[k].status = job[k].status
  BY <1>1, <1>4, <1>5, TrainEnqueued
<1>7. RequestOpen'
  BY <1>1, <1>3, <1>6, RequestWaits DEF JobsKept
<1> QED BY <1>1, <1>3, <1>6, <1>7, TypeFacts, HandlerWritesInv

\* No upload changes, and no job of one completes.
LEMMA UploadsWait ==
    ASSUME Inv, TrainsKept, EvalsKept, mode' = mode, sub' = sub,
           \A k \in Keys : /\ job[k].status # "absent" => job'[k].status # "absent"
                           /\ job[k].status \notin {"absent", "completed"}
                                => job'[k].status # "completed"
    PROVE  UploadsNotStranded'
BY UploadsStep DEF JobsOf

LEMMA CreateProviderEvalInv == ASSUME Inv, CreateProviderEval PROVE Inv'
<1> DEFINE n == Len(evals) + 1
           k == ProviderJob(n)
           r == [sub |-> None, train |-> 0, found |-> TRUE, status |-> "queued", deleted |-> FALSE]
<1>1. /\ Len(evals) < MaxEvals /\ evals' = Append(evals, r)
      /\ job' = Enqueued(job, k, "absent", 0)
      /\ UNCHANGED <<mode, sub, trains, tree, left, req, workerVars, faults>>
      /\ asked' \in 0..MaxRequests
  BY AskBounded, TypeFacts DEF CreateProviderEval, fileVars
<1>2. r \in EvalRow /\ 0 \in 0..MaxTrains
  BY Bounds DEF EvalRow
<1>3. /\ evals' \in Seq(EvalRow) /\ Len(evals') = Len(evals) + 1 /\ Len(evals') <= MaxEvals
      /\ n \in EvalIds /\ n \notin DOMAIN evals /\ DOMAIN evals' = DOMAIN evals \cup {n}
      /\ \A e \in DOMAIN evals : evals'[e] = evals[e]
      /\ evals'[n] = r /\ EvalsKept /\ TrainsKept
  <2> HIDE DEF r
  <2> QED BY <1>1, <1>2, EvalAdded, TypeFacts DEF TrainsKept
<1>4. k \in Keys /\ k[1] = "provider_eval"
  BY <1>3, KeysAre, KindOfKey
<1>5. /\ job' \in [Keys -> JobRow] /\ \A j \in Keys \ {k} : job'[j] = job[j]
      /\ job'[k].status = "queued"
  BY <1>1, <1>2, <1>4, EnqueuedIs, TypeFacts
<1>6. job[k].status = "absent"
  BY <1>3 DEF Inv, RowsSound, RunsExist
<1>7. /\ \A t \in TrainIds : TrainJob(t) \in Keys /\ TrainJob(t) # k
      /\ \A s \in Subs : EvalJob(s) \in Keys /\ EvalJob(s) # k
      /\ \A e \in EvalIds : ProviderJob(e) \in Keys /\ (ProviderJob(e) = k => e = n)
  BY <1>3, KeysAre, KeysApart
<1> HIDE DEF k, n
<1>8. JobsKept /\ \A j \in Keys : JobLocked(j) => job'[j].status = job[j].status
  BY <1>5, <1>6, LockedIsQueued DEF JobsKept
<1>9. RunsExist'
  BY <1>3, <1>5, <1>7, RunsExistStep DEF r
<1>10. Payloads'
  <2>1. \A e \in DOMAIN evals' : e \in DOMAIN evals \/ Stored(evals[e].train, evals[e].sub)'
    BY <1>3 DEF Stored
  <2>2. \A t \in TrainIds : job'[TrainJob(t)] = job[TrainJob(t)]
    BY <1>5, <1>7
  <2>3. \A s \in Subs : job'[EvalJob(s)] = job[EvalJob(s)]
    BY <1>5, <1>7
  <2>4. trains' = trains
    BY <1>1
  <2> QED BY <1>3, <2>1, <2>2, <2>3, <2>4, PayloadsStep
<1>11. SubsSound'
  BY <1>1, <1>3, TypeFacts DEF SubsSound, Subs, SubRow
<1>12. RunsAgreeWithJobs'
  <2>1. \A t \in DOMAIN trains : job'[TrainJob(t)] = job[TrainJob(t)]
    BY <1>5, <1>7, RowFacts, TypeFacts
  <2>2. \A e \in DOMAIN evals : job'[ProviderJob(e)] = job[ProviderJob(e)]
    BY <1>3, <1>5, <1>7, RowFacts, TypeFacts
  <2>3. job'[ProviderJob(n)].status \notin Outcome
    BY <1>5 DEF Outcome, k
  <2> QED BY <1>1, <1>3, <1>10, <2>1, <2>2, <2>3, AgreeStep
<1>13. UploadsNotStranded'
  BY <1>1, <1>3, <1>5, <1>6, UploadsWait
<1>14. RequestOpen'
  BY <1>1, <1>8, RequestWaits DEF JobsKept
<1>15. RowsSound'
  BY <1>9, <1>10, <1>11, <1>12, <1>13 DEF RowsSound
<1> QED BY <1>1, <1>3, <1>5, <1>8, <1>14, <1>15, TypeFacts, HandlerWritesInv

\* A run is hidden or shown.
LEMMA ShowEvalInv ==
    ASSUME Inv, NEW e \in DOMAIN evals, NEW d \in BOOLEAN, Ask,
           evals' = [evals EXCEPT ![e].deleted = d],
           UNCHANGED <<mode, sub, trains, job, fileVars, req, workerVars, faults>>
    PROVE  Inv'
<1> DEFINE r == [evals[e] EXCEPT !.deleted = d]
<1>1. /\ r \in EvalRow /\ r.sub = evals[e].sub /\ r.train = evals[e].train
      /\ r.status = evals[e].status
  BY RowFacts, TypeFacts DEF EvalRow
<1>2. evals' = [evals EXCEPT ![e] = r]
  OBVIOUS
<1> HIDE DEF r
<1>3. /\ evals' \in Seq(EvalRow) /\ Len(evals') = Len(evals) /\ DOMAIN evals' = DOMAIN evals
      /\ evals'[e] = r /\ \A f \in DOMAIN evals \ {e} : evals'[f] = evals[f]
      /\ EvalsKept /\ TrainsKept
  BY <1>1, <1>2, EvalReplaced, TypeFacts DEF TrainsKept
<1>4. JobsKept /\ \A k \in Keys : JobLocked(k) => job'[k].status = job[k].status
  BY DEF JobsKept
<1>5. RunsExist'
  BY <1>3, RunsExistStep
<1>6. Payloads'
  BY <1>3, PayloadsStep
<1>7. SubsSound'
  BY <1>3, TypeFacts DEF SubsSound, Subs
<1>8. RunsAgreeWithJobs'
  <2>1. \A f \in DOMAIN evals' : f \in DOMAIN evals /\ evals'[f].status = evals[f].status
    BY <1>1, <1>3
  <2> QED BY <1>6, <2>1, AgreeStep
<1>9. UploadsNotStranded'
  BY <1>3, UploadsWait
<1>10. RequestOpen'
  BY RequestWaits
<1>11. RowsSound'
  BY <1>5, <1>6, <1>7, <1>8, <1>9 DEF RowsSound
<1>12. asked' \in 0..MaxRequests /\ UNCHANGED <<mode, tree, workerVars, faults>> /\ left' = left
  BY AskBounded, TypeFacts DEF fileVars
<1> QED BY <1>3, <1>4, <1>10, <1>11, <1>12, TypeFacts, HandlerWritesInv

LEMMA FinishSyncInv == ASSUME Inv, NEW status \in Outcome, FinishSync(status) PROVE Inv'
<1> DEFINE n == Len(evals) + 1
           s == req.sub
           r == [sub |-> req.sub, train |-> 0, found |-> TRUE, status |-> status, deleted |-> FALSE]
           row == [sub[s] EXCEPT !.status = status, !.eval = n]
<1>1. /\ Len(evals) < MaxEvals /\ evals' = Append(evals, r)
      /\ sub' = [sub EXCEPT ![s] = row] /\ req.op = "sync"
      /\ left' \subseteq left \cup {s} /\ req' = NoRequest
      /\ UNCHANGED <<mode, trains, job, tree, asked, workerVars, faults>>
  BY DEF FinishSync
<1>2. s \in Subs /\ status \in {"completed", "failed"}
  BY <1>1, TypeFacts DEF RequestOpen, Outcome
<1>3. r \in EvalRow /\ r.sub = s /\ r.train = 0 /\ r.status = status
  BY <1>2, Bounds DEF EvalRow
<1> HIDE DEF r
<1>4. /\ evals' \in Seq(EvalRow) /\ Len(evals') = Len(evals) + 1 /\ Len(evals') <= MaxEvals
      /\ n \in EvalIds /\ n \notin DOMAIN evals /\ DOMAIN evals' = DOMAIN evals \cup {n}
      /\ \A e \in DOMAIN evals : evals'[e] = evals[e]
      /\ evals'[n] = r /\ EvalsKept /\ TrainsKept
  BY <1>1, <1>3, EvalAdded, TypeFacts DEF TrainsKept
<1>5. row \in SubRow /\ row.status = status /\ row.eval = n
  <2>1. sub[s] \in SubRow /\ n \in 0..MaxEvals
    BY <1>2, <1>4, TypeFacts DEF EvalIds
  <2> HIDE DEF n
  <2> QED BY <1>2, <2>1 DEF SubRow
<1> HIDE DEF row
<1>6. /\ sub' \in [Subs -> SubRow] /\ sub'[s] = row
      /\ \A q \in Subs \ {s} : sub'[q] = sub[q]
  <2> HIDE DEF s
  <2> QED BY <1>1, <1>2, <1>5, SubWritten, TypeFacts
<1>7. JobsKept /\ \A k \in Keys : JobLocked(k) => job'[k].status = job[k].status
  BY <1>1 DEF JobsKept
<1>8. RunsExist'
  BY <1>1, <1>4, RunsExistStep
<1>9. Payloads'
  <2>1. \A e \in DOMAIN evals' : e \in DOMAIN evals \/ Stored(evals[e].train, evals[e].sub)'
    BY <1>3, <1>4 DEF Stored
  <2> QED BY <1>1, <1>4, <2>1, PayloadsStep
<1>10. SubsSound'
  <2>1. \A q \in Subs \ {s} : sub'[q].eval <= Len(evals') /\ (sub'[q].status = "absent" => ~sub'[q].deleted)
    BY <1>4, <1>6, TypeFacts DEF SubsSound, SubRow
  <2>2. sub'[s].eval <= Len(evals') /\ sub'[s].status # "absent"
    BY <1>2, <1>4, <1>5, <1>6, TypeFacts
  <2> QED BY <2>1, <2>2 DEF SubsSound, Subs
<1>11. RunsAgreeWithJobs'
  <2>1. job'[ProviderJob(n)].status \notin Outcome
    <3>1. job[ProviderJob(n)].status = "absent"
      BY <1>4 DEF Inv, RowsSound, RunsExist
    <3> QED BY <1>1, <3>1 DEF Outcome
  <2> HIDE DEF n
  <2> QED BY <1>1, <1>4, <1>9, <2>1, AgreeStep
<1>12. UploadsNotStranded'
  <2> SUFFICES ASSUME NEW q \in Uploads
               PROVE  \/ NotStranded(q)'
                      \/ sub'[q].status = sub[q].status /\ sub'[q].eval = sub[q].eval
    BY <1>1, <1>4, UploadsStep DEF JobsOf
  <2>1. CASE q = s
    BY <1>2, <1>3, <1>4, <1>5, <1>6, <2>1 DEF NotStranded
  <2>2. CASE q # s
    BY <1>6, <2>2, TypeFacts
  <2> QED BY <2>1, <2>2
<1>13. RequestOpen' /\ req' \in Request
  BY <1>1, NullRows DEF RequestOpen, NoRequest
<1>14. left' \subseteq Subs /\ Len(evals) <= Len(evals')
  BY <1>1, <1>2, <1>4, TypeFacts
<1>15. RowsSound'
  BY <1>8, <1>9, <1>10, <1>11, <1>12 DEF RowsSound
<1> QED BY <1>1, <1>4, <1>6, <1>7, <1>13, <1>14, <1>15, TypeFacts, HandlerWritesInv

-----------------------------------------------------------------------------
(***************************************************************************)
(* Workers that write                                                      *)
(***************************************************************************)

\* The rest of the invariant, after a worker committed its rows.
LEMMA WorkerWritesInv ==
    ASSUME Inv, NEW w \in Workers, ToIdle(w), RowsSound', TrainsKept, JobsKept,
           \A x \in Workers \ {w} :
              pc[x] \in InTransaction => job'[on[x]].status = job[on[x]].status,
           \A q \in Subs : sub[q].status # "absent" => sub'[q].status # "absent",
           sub' \in [Subs -> SubRow], job' \in [Keys -> JobRow],
           trains' \in Seq(TrainRow), Len(trains') <= MaxTrains,
           evals' \in Seq(EvalRow), Len(evals') <= MaxEvals, Len(evals) <= Len(evals'),
           tree' \in [PullRequests -> [head: 0..MaxHead, outs: SUBSET TrainIds]],
           left' \subseteq Subs, UNCHANGED <<mode, apiVars, faults>>
    PROVE  Inv'
<1>1. Len(evals') \in Nat
  OBVIOUS
<1>2. WorkersSound' /\ pc' \in [Workers -> Places] /\ on' \in [Workers -> Keys]
      /\ mem' \in [Workers -> Memory]
  BY <1>1, OthersWait DEF Places
<1>3. RequestOpen'
  BY RequestWaits DEF JobsKept, apiVars
<1>4. TypeOK'
  BY <1>2 DEF Inv, TypeOK, apiVars, Places, Subs, Keys, TrainJob, EvalJob, ProviderJob,
         TrainIds, EvalIds, InTransaction, Request, SubRow, TrainRow, EvalRow, JobRow, Memory
<1> QED BY <1>2, <1>3, <1>4 DEF Inv

\* The job of a running worker is queued, and nobody else holds it.
LEMMA RunningFacts ==
    ASSUME Inv, NEW w \in Workers, pc[w] = "running"
    PROVE  /\ on[w] \in Keys /\ job[on[w]].status = "queued"
           /\ \A x \in Workers \ {w} : pc[x] \in InTransaction => on[x] # on[w]
           /\ mem[w].row \in SubRow /\ mem[w].row.eval <= Len(evals)
           /\ mem[w].train \in 0..MaxTrains /\ mem[w].found \in BOOLEAN
<1>1. pc[w] \in InTransaction
  BY DEF InTransaction
<1>2. job[on[w]].status = "queued" /\ mem[w].row.eval <= Len(evals)
  BY <1>1, WorkerFacts DEF WorkerSound
<1>3. \A x \in Workers \ {w} : pc[x] \in InTransaction => on[x] # on[w]
  BY <1>1 DEF Inv, WorkersSound, Exclusive
<1> QED BY <1>2, <1>3, WorkerFacts DEF Memory

LEMMA FinishProviderEvalInv ==
    ASSUME Inv, NEW w \in Workers, NEW status \in Outcome, FinishProviderEval(w, status)
    PROVE  Inv'
<1> DEFINE k == on[w]
           e == k[2]
           r == [evals[e] EXCEPT !.status = status]
<1>1. /\ pc[w] = "running" /\ k[1] = "provider_eval"
      /\ evals' = [evals EXCEPT ![e] = r] /\ job' = Settle(k, status) /\ ToIdle(w)
      /\ UNCHANGED <<mode, sub, trains, tree, left, apiVars, faults>>
  BY DEF FinishProviderEval, fileVars
<1>2. /\ k \in Keys /\ job[k].status = "queued"
      /\ \A x \in Workers \ {w} : pc[x] \in InTransaction => on[x] # k
  BY <1>1, RunningFacts
<1>3. e \in DOMAIN evals /\ evals[e].sub = None /\ SubOf(k) = None /\ e \in EvalIds /\ k = ProviderJob(e)
  <2> HIDE DEF k
  <2> QED BY <1>1, <1>2, JobFacts, KeyOfKind
<1> HIDE DEF k, e
<1>4. status \in {"completed", "failed"}
  BY DEF Outcome
<1>5. r \in EvalRow /\ r.sub = evals[e].sub /\ r.train = evals[e].train /\ r.status = status
  BY <1>3, <1>4, RowFacts, TypeFacts DEF EvalRow
<1> HIDE DEF r
<1>6. /\ evals' \in Seq(EvalRow) /\ Len(evals') = Len(evals) /\ DOMAIN evals' = DOMAIN evals
      /\ evals'[e] = r /\ \A f \in DOMAIN evals \ {e} : evals'[f] = evals[f]
      /\ EvalsKept /\ TrainsKept
  BY <1>1, <1>3, <1>5, EvalReplaced, TypeFacts DEF TrainsKept
<1>7. /\ job' \in [Keys -> JobRow] /\ \A j \in Keys \ {k} : job'[j] = job[j]
      /\ job'[k].status = status
  BY <1>1, <1>2, <1>4, SettledIs, TypeFacts
<1>8. /\ \A t \in TrainIds : TrainJob(t) \in Keys /\ TrainJob(t) # k
      /\ \A s \in Subs : EvalJob(s) \in Keys /\ EvalJob(s) # k
      /\ \A f \in EvalIds : ProviderJob(f) \in Keys /\ (ProviderJob(f) = k => f = e)
  BY <1>3, KeysAre, KeysApart
<1>9. JobsKept
  BY <1>2, <1>4, <1>7 DEF JobsKept
<1>10. RunsExist'
  <2>1. \A f \in EvalIds : job'[ProviderJob(f)].status # "absent" => job[ProviderJob(f)].status # "absent"
    BY <1>2, <1>7, <1>8
  <2>2. \A t \in TrainIds : job'[TrainJob(t)] = job[TrainJob(t)]
    BY <1>7, <1>8
  <2> QED BY <1>6, <2>1, <2>2, RunsExistStep
<1>11. Payloads'
  <2>1. \A t \in TrainIds : job'[TrainJob(t)] = job[TrainJob(t)]
    BY <1>7, <1>8
  <2>2. \A s \in Subs : job'[EvalJob(s)] = job[EvalJob(s)]
    BY <1>7, <1>8
  <2> QED BY <1>1, <1>6, <2>1, <2>2, PayloadsStep
<1>12. SubsSound'
  BY <1>1, <1>6, TypeFacts DEF SubsSound, Subs
<1>13. RunsAgreeWithJobs'
  <2>1. \A t \in DOMAIN trains : job'[TrainJob(t)] = job[TrainJob(t)]
    BY <1>7, <1>8, RowFacts, TypeFacts
  <2>2. \A f \in DOMAIN evals \ {e} : job'[ProviderJob(f)] = job[ProviderJob(f)]
    BY <1>7, <1>8, RowFacts, TypeFacts
  <2>3. evals'[e].status = job'[ProviderJob(e)].status
    BY <1>3, <1>5, <1>6, <1>7
  <2> QED BY <1>1, <1>6, <1>11, <2>1, <2>2, <2>3, AgreeStep
<1>14. UploadsNotStranded'
  <2> SUFFICES ASSUME NEW q \in Uploads, NEW j \in JobsOf(q)
               PROVE  /\ job'[j].status # "absent"
                      /\ job[j].status # "completed" => job'[j].status # "completed"
    BY <1>1, <1>6, UploadsStep
  <2>1. j \in Keys /\ job[j].status # "absent" /\ SubOf(j) = q /\ q # None
    BY TypeFacts, SubsAssumption DEF JobsOf
  <2>2. j # k
    BY <1>3, <2>1
  <2> QED BY <1>7, <2>1, <2>2
<1>15. RowsSound'
  BY <1>10, <1>11, <1>12, <1>13, <1>14 DEF RowsSound
<1>16. \A x \in Workers \ {w} : pc[x] \in InTransaction => job'[on[x]].status = job[on[x]].status
  BY <1>2, <1>7, WorkerFacts
<1>17. /\ sub' \in [Subs -> SubRow] /\ trains' \in Seq(TrainRow) /\ Len(trains') <= MaxTrains
       /\ Len(evals') <= MaxEvals /\ Len(evals) <= Len(evals') /\ left' \subseteq Subs
       /\ tree' \in [PullRequests -> [head: 0..MaxHead, outs: SUBSET TrainIds]]
       /\ \A q \in Subs : sub[q].status # "absent" => sub'[q].status # "absent"
  BY <1>1, <1>6, TypeFacts, WorkerFacts
<1> QED BY <1>1, <1>6, <1>7, <1>9, <1>15, <1>16, <1>17, WorkerWritesInv

LEMMA FinishEvalInv ==
    ASSUME Inv, NEW w \in Workers, NEW status \in Outcome, FinishEval(w, status)
    PROVE  Inv'
<1> DEFINE k == on[w]
           s == k[2]
           n == Len(evals) + 1
           r == [sub |-> s, train |-> mem[w].train, found |-> mem[w].found,
                 status |-> status, deleted |-> FALSE]
           want == [mem[w].row EXCEPT !.eval = n]
           net == NetRow(sub[s], mem[w].row, want)
           row == [net EXCEPT !.status = status]
<1>1. /\ pc[w] = "running" /\ k[1] = "evaluation" /\ Len(evals) < MaxEvals
      /\ evals' = Append(evals, r) /\ job' = Settle(k, status) /\ ToIdle(w)
      /\ sub' = [sub EXCEPT ![s] = row]
      /\ left' \subseteq left \cup {s}
      /\ UNCHANGED <<mode, trains, tree, apiVars, faults>>
  BY DEF FinishEval
<1>2. /\ k \in Keys /\ job[k].status = "queued"
      /\ \A x \in Workers \ {w} : pc[x] \in InTransaction => on[x] # k
      /\ mem[w].row \in SubRow /\ mem[w].row.eval <= Len(evals)
      /\ mem[w].train \in 0..MaxTrains /\ mem[w].found \in BOOLEAN
  BY <1>1, RunningFacts
<1>3. /\ s \in Subs /\ k = EvalJob(s) /\ status \in {"completed", "failed"} /\ sub[s] \in SubRow
      /\ s # None
  BY <1>1, <1>2, KeyOfKind, TypeFacts, SubsAssumption DEF Outcome
<1>4. Stored(mem[w].train, s)
  BY <1>3, WorkerFacts
<1>5. /\ r \in EvalRow /\ r.sub = s /\ r.train = mem[w].train /\ r.status = status
  BY <1>2, <1>3 DEF EvalRow
<1> HIDE DEF r
<1>6. /\ evals' \in Seq(EvalRow) /\ Len(evals') = Len(evals) + 1 /\ Len(evals') <= MaxEvals
      /\ n \in EvalIds /\ n \notin DOMAIN evals /\ DOMAIN evals' = DOMAIN evals \cup {n}
      /\ \A e \in DOMAIN evals : evals'[e] = evals[e]
      /\ evals'[n] = r /\ EvalsKept /\ TrainsKept
  BY <1>1, <1>5, EvalAdded, TypeFacts DEF TrainsKept
<1>7. row \in SubRow /\ row.status = status /\ row.eval = n
  <2>1. n \in 0..MaxEvals /\ n # mem[w].row.eval
    BY <1>2, <1>6, TypeFacts DEF EvalIds, SubRow
  <2> HIDE DEF n
  <2>2. want \in SubRow /\ want.eval = n
    BY <1>2, <2>1 DEF SubRow
  <2> HIDE DEF want
  <2>3. net \in SubRow /\ net.eval = n
    BY <1>2, <1>3, <2>1, <2>2, NetRowIs
  <2> HIDE DEF net
  <2> QED BY <1>3, <2>3 DEF SubRow
<1> HIDE DEF row, s
<1>8. /\ sub' \in [Subs -> SubRow] /\ sub'[s] = row
      /\ \A q \in Subs \ {s} : sub'[q] = sub[q]
  BY <1>1, <1>3, <1>7, SubWritten, TypeFacts
<1> HIDE DEF k
<1>9. /\ job' \in [Keys -> JobRow] /\ \A j \in Keys \ {k} : job'[j] = job[j]
      /\ job'[k].status = status /\ job'[k].train = job[k].train
  BY <1>1, <1>2, <1>3, SettledIs, TypeFacts
<1>10. /\ \A t \in TrainIds : TrainJob(t) \in Keys /\ TrainJob(t) # k
       /\ \A q \in Subs : EvalJob(q) \in Keys
       /\ \A f \in EvalIds : ProviderJob(f) \in Keys /\ ProviderJob(f) # k
  BY <1>3, KeysAre, KeysApart
<1>11. JobsKept
  BY <1>1, <1>2, <1>3, <1>9 DEF JobsKept
<1>12. RunsExist'
  <2>1. \A f \in EvalIds : job'[ProviderJob(f)] = job[ProviderJob(f)]
    BY <1>9, <1>10
  <2>2. \A t \in TrainIds : job'[TrainJob(t)] = job[TrainJob(t)]
    BY <1>9, <1>10
  <2> QED BY <1>6, <2>1, <2>2, RunsExistStep
<1>13. Payloads'
  <2>1. \A t \in TrainIds : job'[TrainJob(t)] = job[TrainJob(t)]
    BY <1>9, <1>10
  <2>2. \A q \in Subs : job'[EvalJob(q)].train = job[EvalJob(q)].train
    BY <1>9, <1>10
  <2>3. \A e \in DOMAIN evals' : e \in DOMAIN evals \/ Stored(evals[e].train, evals[e].sub)'
    <3> SUFFICES ASSUME NEW e \in DOMAIN evals', e \notin DOMAIN evals
                 PROVE  Stored(evals[e].train, evals[e].sub)'
      OBVIOUS
    <3>1. evals'[e].train = mem[w].train /\ evals'[e].sub = s
      BY <1>5, <1>6
    <3> QED BY <1>4, <1>6, <3>1 DEF Stored, TrainsKept
  <2> QED BY <1>1, <1>6, <2>1, <2>2, <2>3, PayloadsStep
<1>14. SubsSound'
  <2>1. \A q \in Subs \ {s} : sub'[q].eval <= Len(evals') /\ (sub'[q].status = "absent" => ~sub'[q].deleted)
    BY <1>6, <1>8, TypeFacts DEF SubsSound, SubRow
  <2>2. sub'[s].eval <= Len(evals') /\ sub'[s].status # "absent"
    BY <1>3, <1>6, <1>7, <1>8, TypeFacts
  <2> QED BY <2>1, <2>2 DEF SubsSound, Subs
<1>15. RunsAgreeWithJobs'
  <2>1. job'[ProviderJob(n)].status \notin Outcome
    <3>1. job[ProviderJob(n)].status = "absent"
      BY <1>6 DEF Inv, RowsSound, RunsExist
    <3> QED BY <1>6, <1>9, <1>10, <3>1 DEF Outcome
  <2> HIDE DEF n
  <2>2. \A t \in DOMAIN trains : job'[TrainJob(t)] = job[TrainJob(t)]
    BY <1>9, <1>10, RowFacts, TypeFacts
  <2>3. \A f \in DOMAIN evals : job'[ProviderJob(f)] = job[ProviderJob(f)]
    BY <1>9, <1>10, RowFacts, TypeFacts
  <2> QED BY <1>1, <1>6, <1>13, <2>1, <2>2, <2>3, AgreeStep
<1>16. UploadsNotStranded'
  <2> SUFFICES ASSUME NEW q \in Uploads
               PROVE  \/ NotStranded(q)'
                      \/ /\ sub'[q].status = sub[q].status /\ sub'[q].eval = sub[q].eval
                         /\ \A j \in JobsOf(q) :
                              /\ job'[j].status # "absent"
                              /\ job[j].status # "completed" => job'[j].status # "completed"
    BY <1>1, <1>6, UploadsStep
  <2>1. CASE q = s
    BY <1>3, <1>5, <1>6, <1>7, <1>8, <2>1 DEF NotStranded
  <2>2. CASE q # s
    <3>1. SubOf(k) = s
      BY <1>3, SubOfKey
    <3>2. \A j \in JobsOf(q) : j \in Keys /\ job[j].status # "absent" /\ j # k
      BY <2>2, <3>1 DEF JobsOf
    <3> QED BY <1>8, <1>9, <2>2, <3>2, TypeFacts
  <2> QED BY <2>1, <2>2
<1>17. RowsSound'
  BY <1>12, <1>13, <1>14, <1>15, <1>16 DEF RowsSound
<1>18. \A x \in Workers \ {w} : pc[x] \in InTransaction => job'[on[x]].status = job[on[x]].status
  BY <1>2, <1>9, WorkerFacts
<1>19. /\ trains' \in Seq(TrainRow) /\ Len(trains') <= MaxTrains
       /\ Len(evals) <= Len(evals') /\ left' \subseteq Subs
       /\ tree' \in [PullRequests -> [head: 0..MaxHead, outs: SUBSET TrainIds]]
       /\ \A q \in Subs : sub[q].status # "absent" => sub'[q].status # "absent"
  BY <1>1, <1>3, <1>6, <1>7, <1>8, TypeFacts, WorkerFacts
<1> QED BY <1>1, <1>6, <1>8, <1>9, <1>11, <1>17, <1>18, <1>19, WorkerWritesInv

\* The queue after a training: its own job has ended, and a completed one has
\* queued the evaluation of its checkpoint.
LEMMA TrainSettled ==
    ASSUME Inv, NEW k \in Keys, NEW s \in Subs \cup {None}, NEW t \in 0..MaxTrains,
           NEW status \in Outcome, k[1] = "train", job[k].status = "queued",
           job' = IF s # None /\ status = "completed"
                  THEN Enqueued(Settle(k, status), EvalJob(s), job[EvalJob(s)].status, t)
                  ELSE Settle(k, status)
    PROVE  /\ job' \in [Keys -> JobRow] /\ job'[k].status = status
           /\ \A j \in Keys : j # k /\ (s = None \/ j # EvalJob(s)) => job'[j] = job[j]
           /\ s # None /\ status = "completed"
                => /\ EvalJob(s) \in Keys /\ job'[EvalJob(s)].status = "queued"
                   /\ job'[EvalJob(s)].train = t
           /\ s # None /\ status # "completed" => job'[EvalJob(s)] = job[EvalJob(s)]
<1> DEFINE settled == Settle(k, status)
<1>1. status \in {"completed", "failed"}
  BY DEF Outcome
<1>2. /\ settled \in [Keys -> JobRow] /\ settled[k].status = status
      /\ \A j \in Keys \ {k} : settled[j] = job[j]
  BY <1>1, SettledIs, TypeFacts
<1>3. s # None => EvalJob(s) \in Keys /\ EvalJob(s) # k
  BY KeysAre, KindOfKey
<1> HIDE DEF settled
<1>4. CASE s # None /\ status = "completed"
  <2> DEFINE e == EvalJob(s)
  <2>1. e \in Keys /\ e # k /\ job' = Enqueued(settled, e, job[e].status, t)
    BY <1>3, <1>4 DEF settled
  <2>2. settled[e] = job[e]
    BY <1>2, <2>1
  <2> HIDE DEF e
  <2>3. /\ job' \in [Keys -> JobRow] /\ \A j \in Keys \ {e} : job'[j] = settled[j]
        /\ job'[e].train = t /\ job'[e].status = "queued"
    BY <1>2, <2>1, <2>2, EnqueuedIs
  <2> QED BY <1>2, <1>4, <2>1, <2>3 DEF e
<1>5. CASE ~(s # None /\ status = "completed")
  <2>1. job' = settled
    BY <1>5 DEF settled
  <2> QED BY <1>2, <1>3, <1>5, <2>1
<1> QED BY <1>4, <1>5

LEMMA FinishTrainInv ==
    ASSUME Inv, NEW w \in Workers, NEW status \in Outcome, FinishTrain(w, status)
    PROVE  Inv'
<1> DEFINE k == on[w]
           t == k[2]
           s == trains[t].sub
           done == status = "completed"
           r == [sub |-> s, status |-> status, output |-> done]
           want == [mem[w].row EXCEPT !.status = "running", !.train = t]
           flushed == NetRow(sub[s], mem[w].row, want)
           net == IF done THEN flushed ELSE [flushed EXCEPT !.status = "failed"]
<1>1. /\ pc[w] = "running" /\ k[1] = "train"
      /\ trains' = [trains EXCEPT ![t] = r] /\ ToIdle(w)
      /\ sub' = IF s = None THEN sub ELSE [sub EXCEPT ![s] = net]
      /\ job' = IF s # None /\ done
                THEN Enqueued(Settle(k, status), EvalJob(s), job[EvalJob(s)].status, t)
                ELSE Settle(k, status)
      /\ tree' = IF done /\ s \in PullRequests
                 THEN [tree EXCEPT ![s].outs = @ \cup {t}] ELSE tree
      /\ UNCHANGED <<mode, evals, left, apiVars, faults>>
      /\ s # None /\ done => ~JobLocked(EvalJob(s))
  BY DEF FinishTrain
<1>2. /\ k \in Keys /\ job[k].status = "queued"
      /\ \A x \in Workers \ {w} : pc[x] \in InTransaction => on[x] # k
      /\ mem[w].row \in SubRow
  BY <1>1, RunningFacts
<1>3. /\ t \in TrainIds /\ t \in DOMAIN trains /\ k = TrainJob(t) /\ SubOf(k) = s
      /\ s \in Subs \cup {None} /\ t \in 0..MaxTrains /\ t # 0 /\ None \notin Subs
  <2> HIDE DEF k
  <2>1. t \in TrainIds /\ t \in DOMAIN trains /\ k = TrainJob(t) /\ SubOf(k) = s
    BY <1>1, <1>2, JobFacts, KeyOfKind
  <2>2. s \in Subs \cup {None}
    BY <1>2, <2>1, JobFacts
  <2> QED BY <2>1, <2>2, Bounds, SubsAssumption DEF TrainIds
<1>4. status \in {"completed", "failed"} /\ done \in BOOLEAN
  BY DEF Outcome
<1>5. ~trains[t].output
  BY <1>2, <1>3 DEF Inv, RowsSound, Payloads
<1> HIDE DEF t, k
<1>6. r \in TrainRow /\ r.sub = s /\ r.status = status /\ r.output = done
  BY <1>3, <1>4 DEF TrainRow
<1>7. /\ trains' \in Seq(TrainRow) /\ Len(trains') = Len(trains) /\ DOMAIN trains' = DOMAIN trains
      /\ trains'[t] = r /\ \A u \in DOMAIN trains \ {t} : trains'[u] = trains[u]
      /\ TrainsKept /\ EvalsKept
  <2> HIDE DEF r
  <2>1. r.sub = trains[t].sub /\ (trains[t].output => r.output)
    BY <1>5, <1>6
  <2> QED BY <1>1, <1>3, <1>6, <2>1, TrainReplaced, TypeFacts DEF EvalsKept
<1> HIDE DEF r
<1>8. /\ job' \in [Keys -> JobRow] /\ job'[k].status = status
      /\ \A j \in Keys : j # k /\ (s = None \/ j # EvalJob(s)) => job'[j] = job[j]
      /\ s # None /\ done => /\ EvalJob(s) \in Keys /\ job'[EvalJob(s)].status = "queued"
                             /\ job'[EvalJob(s)].train = t
      /\ s # None /\ ~done => job'[EvalJob(s)] = job[EvalJob(s)]
  <2> HIDE DEF s
  <2> QED BY <1>1, <1>2, <1>3, TrainSettled
<1>9. s # None => /\ net \in SubRow
                  /\ net.status \in {sub[s].status, IF done THEN "running" ELSE "failed"}
                  /\ net.eval = sub[s].eval /\ net.deleted = sub[s].deleted
  <2> SUFFICES ASSUME s # None
               PROVE  /\ net \in SubRow
                      /\ net.status \in {sub[s].status, IF done THEN "running" ELSE "failed"}
                      /\ net.eval = sub[s].eval /\ net.deleted = sub[s].deleted
    OBVIOUS
  <2>1. sub[s] \in SubRow
    BY <1>3, TypeFacts
  <2>2. /\ want \in SubRow /\ want.eval = mem[w].row.eval /\ want.deleted = mem[w].row.deleted
        /\ want.status = "running"
    BY <1>2, <1>3 DEF SubRow
  <2> HIDE DEF want
  <2>3. /\ flushed \in SubRow /\ flushed.status \in {sub[s].status, "running"}
        /\ flushed.eval = sub[s].eval /\ flushed.deleted = sub[s].deleted
    BY <1>2, <2>1, <2>2, NetRowIs
  <2> HIDE DEF flushed
  <2>4. CASE done
    BY <2>3, <2>4
  <2>5. CASE ~done
    BY <2>3, <2>5 DEF SubRow
  <2> QED BY <2>4, <2>5
<1> HIDE DEF net, s
<1>10. /\ sub' \in [Subs -> SubRow]
       /\ \A q \in Subs : q # s => sub'[q] = sub[q]
       /\ s # None => sub'[s] = net
  <2>1. CASE s = None
    BY <1>1, <1>3, <2>1, TypeFacts
  <2>2. CASE s # None
    <3>1. sub' = [sub EXCEPT ![s] = net] /\ s \in Subs
      BY <1>1, <1>3, <2>2 DEF net
    <3> QED BY <1>9, <2>2, <3>1, SubWritten, TypeFacts
  <2> QED BY <2>1, <2>2
<1>11. /\ \A u \in TrainIds : TrainJob(u) \in Keys /\ (TrainJob(u) = k => u = t)
       /\ \A u \in TrainIds : s # None => TrainJob(u) # EvalJob(s)
       /\ \A q \in Subs : EvalJob(q) \in Keys /\ EvalJob(q) # k
       /\ \A q \in Subs : s # None /\ EvalJob(q) = EvalJob(s) => q = s
       /\ \A f \in EvalIds : ProviderJob(f) \in Keys /\ ProviderJob(f) # k
       /\ \A f \in EvalIds : s # None => ProviderJob(f) # EvalJob(s)
       /\ s # None => EvalJob(s)[1] = "evaluation"
  BY <1>3, KeysAre, KeysApart, KindOfKey
<1>12. JobsKept
  <2>1. ASSUME NEW j \in Keys
        PROVE  /\ job[j].status # "absent" => job'[j].status # "absent"
               /\ j[1] # "evaluation" /\ job[j].status \in {"failed", "cancelled"}
                    => job'[j].status \in {"failed", "cancelled"}
    <3>1. CASE j = k
      BY <1>2, <1>4, <1>8, <3>1
    <3>2. CASE j # k /\ s # None /\ j = EvalJob(s)
      BY <1>8, <1>11, <3>2
    <3>3. CASE j # k /\ (s = None \/ j # EvalJob(s))
      BY <1>8, <3>3
    <3> QED BY <3>1, <3>2, <3>3
  <2> QED BY <2>1 DEF JobsKept
<1>13. \A u \in TrainIds \ {t} : job'[TrainJob(u)] = job[TrainJob(u)]
  BY <1>8, <1>11
<1>14. \A f \in EvalIds : job'[ProviderJob(f)] = job[ProviderJob(f)]
  BY <1>8, <1>11
<1>15. RunsExist'
  <2>1. \A u \in TrainIds : job'[TrainJob(u)].status # "absent"
            => job[TrainJob(u)].status # "absent" \/ u \in DOMAIN trains'
    BY <1>3, <1>7, <1>13
  <2> QED BY <1>7, <1>14, <2>1, RunsExistStep
<1>16. Payloads'
  <2>1. \A u \in TrainIds : job'[TrainJob(u)].status = "queued"
            => \/ job[TrainJob(u)].status = "queued" /\ trains'[u].output = trains[u].output
               \/ ~trains'[u].output
    <3>1. job'[TrainJob(t)].status # "queued"
      BY <1>3, <1>4, <1>8
    <3>2. \A u \in TrainIds \ {t} : job[TrainJob(u)].status # "absent" => u \in DOMAIN trains
      BY DEF Inv, RowsSound, RunsExist
    <3> QED BY <1>7, <1>13, <3>1, <3>2
  <2>2. ASSUME NEW q \in Subs
        PROVE  job'[EvalJob(q)].train = job[EvalJob(q)].train \/ Stored(job[EvalJob(q)].train, q)'
    <3>1. CASE q = s /\ done
      <4>1. job'[EvalJob(q)].train = t
        BY <1>3, <1>8, <3>1
      <4>2. t \in DOMAIN trains' /\ trains'[t].output /\ trains'[t].sub = q
        BY <1>3, <1>6, <1>7, <3>1
      <4> QED BY <4>1, <4>2 DEF Stored, EvalJob
    <3>2. CASE q = s /\ ~done
      BY <1>3, <1>8, <3>2
    <3>3. CASE q # s
      BY <1>8, <1>11, <3>3
    <3> QED BY <3>1, <3>2, <3>3
  <2> QED BY <1>1, <1>7, <2>1, <2>2, PayloadsStep
<1>17. SubsSound'
  BY <1>1, <1>3, <1>9, <1>10, TypeFacts DEF SubsSound, Subs
<1>18. RunsAgreeWithJobs'
  <2>1. trains'[t].status = job'[TrainJob(t)].status
    BY <1>3, <1>6, <1>7, <1>8
  <2>2. \A u \in DOMAIN trains \ {t} : job'[TrainJob(u)] = job[TrainJob(u)]
    BY <1>13, RowFacts, TypeFacts
  <2>3. \A f \in DOMAIN evals : job'[ProviderJob(f)] = job[ProviderJob(f)]
    BY <1>14, RowFacts, TypeFacts
  <2> QED BY <1>1, <1>7, <1>16, <2>1, <2>2, <2>3, AgreeStep
<1>19. UploadsNotStranded'
  <2> SUFFICES ASSUME NEW q \in Uploads
               PROVE  \/ NotStranded(q)'
                      \/ /\ sub'[q].status = sub[q].status /\ sub'[q].eval = sub[q].eval
                         /\ \A j \in JobsOf(q) :
                              /\ job'[j].status # "absent"
                              /\ job[j].status # "completed" => job'[j].status # "completed"
    BY <1>1, <1>7, UploadsStep
  <2>1. q \in Subs /\ q # None
    BY <1>3, TypeFacts
  <2>2. CASE q # s
    <3>1. \A j \in JobsOf(q) : j \in Keys /\ job[j].status # "absent" /\ SubOf(j) = q
      BY DEF JobsOf
    <3>2. \A j \in JobsOf(q) : j # k /\ (s = None \/ j # EvalJob(s))
      <4>1. s # None => SubOf(EvalJob(s)) = s
        BY <1>3, SubOfKey
      <4> QED BY <1>3, <2>2, <3>1, <4>1
    <3> QED BY <1>8, <1>10, <2>1, <2>2, <3>1, <3>2
  <2>3. CASE q = s
    <3>1. /\ sub'[q].status \in {sub[q].status, IF done THEN "running" ELSE "failed"}
          /\ sub'[q].eval = sub[q].eval
      BY <1>9, <1>10, <2>1, <2>3
    <3>2. \E j \in JobsOf(q)' : job'[j].status # "completed"
      <4>1. CASE done
        <5>1. PICK j \in Keys : j = EvalJob(q)
          BY <1>11, <2>1
        <5>2. SubOf(j)' = q /\ job'[j].status = "queued"
          BY <1>8, <2>1, <2>3, <4>1, <5>1, SubOfKeyNext
        <5>3. j \in JobsOf(q)'
          BY <5>2 DEF JobsOf, Keys, TrainJob, EvalJob, ProviderJob, TrainIds, EvalIds, Subs
        <5> QED BY <5>2, <5>3
      <4>2. CASE ~done
        <5>1. PICK u \in TrainIds : u = t
          BY <1>3
        <5>2. PICK j \in Keys : j = TrainJob(u)
          BY <1>11
        <5>3. j = k
          BY <1>3, <5>1, <5>2
        <5>4. trains'[u].sub = q
          BY <1>6, <1>7, <2>3, <5>1
        <5>5. SubOf(j)' = q
          BY <5>2, <5>4, SubOfKeyNext
        <5>6. job'[j].status = "failed"
          BY <1>4, <1>8, <4>2, <5>3
        <5>7. j \in JobsOf(q)'
          BY <5>5, <5>6 DEF JobsOf, Keys, TrainJob, EvalJob, ProviderJob, TrainIds, EvalIds, Subs
        <5> QED BY <5>6, <5>7
      <4> QED BY <4>1, <4>2
    <3>3. sub'[q].status = "completed"
            => /\ sub'[q].eval \in DOMAIN evals' /\ evals'[sub'[q].eval].sub = q
               /\ evals'[sub'[q].eval].status = "completed"
      <4> SUFFICES ASSUME sub'[q].status = "completed"
                   PROVE  /\ sub[q].eval \in DOMAIN evals /\ evals[sub[q].eval].sub = q
                          /\ evals[sub[q].eval].status = "completed"
        BY <1>1, <3>1
      <4>1. sub[q].status = "completed"
        BY <3>1
      <4>2. NotStranded(q)
        BY DEF Inv, RowsSound, UploadsNotStranded
      <4> QED BY <4>1, <4>2 DEF NotStranded
    <3> QED BY <3>2, <3>3 DEF NotStranded
  <2> QED BY <2>2, <2>3
<1>20. RowsSound'
  BY <1>15, <1>16, <1>17, <1>18, <1>19 DEF RowsSound
<1>21. \A x \in Workers \ {w} : pc[x] \in InTransaction => job'[on[x]].status = job[on[x]].status
  <2> SUFFICES ASSUME NEW x \in Workers \ {w}, pc[x] \in InTransaction
               PROVE  job'[on[x]].status = job[on[x]].status
    OBVIOUS
  <2>1. on[x] \in Keys /\ on[x] # k /\ job[on[x]].status = "queued" /\ JobLocked(on[x])
    BY <1>2, WorkerFacts DEF WorkerSound, JobLocked
  <2>2. CASE s # None /\ on[x] = EvalJob(s)
    BY <1>3, <1>8, <2>1, <2>2
  <2>3. CASE s = None \/ on[x] # EvalJob(s)
    BY <1>8, <2>1, <2>3
  <2> QED BY <2>2, <2>3
<1>22. tree' \in [PullRequests -> [head: 0..MaxHead, outs: SUBSET TrainIds]]
  <2>1. CASE done /\ s \in PullRequests
    <3>1. tree' = [tree EXCEPT ![s].outs = @ \cup {t}]
      BY <1>1, <2>1
    <3> QED BY <1>3, <2>1, <3>1, WorkerFacts
  <2>2. CASE ~(done /\ s \in PullRequests)
    BY <1>1, <2>2, WorkerFacts
  <2> QED BY <2>1, <2>2
<1>23. \A q \in Subs : sub[q].status # "absent" => sub'[q].status # "absent"
  BY <1>3, <1>9, <1>10
<1>24. /\ Len(trains') <= MaxTrains /\ evals' \in Seq(EvalRow) /\ Len(evals') <= MaxEvals
       /\ Len(evals) <= Len(evals') /\ left' \subseteq Subs
  BY <1>1, <1>7, TypeFacts
<1> QED BY <1>1, <1>7, <1>8, <1>10, <1>12, <1>20, <1>21, <1>22, <1>23, <1>24, WorkerWritesInv

LEMMA MarkFailedInv == ASSUME Inv, NEW w \in Workers, MarkFailed(w) PROVE Inv'
<1> DEFINE k == on[w]
           s == SubOf(k)
           end == Net(job[k].status, mem[w].job, "failed")
<1>1. /\ pc[w] = "marking" /\ ~JobLocked(k) /\ job' = Settle(k, end)
      /\ trains' = Marked(k[1] = "train", trains, k[2])
      /\ evals' = Marked(k[1] = "provider_eval", evals, k[2])
      /\ sub' = IF s = None THEN sub
                ELSE [sub EXCEPT ![s].status = Net(@, mem[w].row.status, "failed")]
      /\ ToIdle(w) /\ UNCHANGED <<mode, tree, left, apiVars, faults>>
  BY DEF MarkFailed, fileVars
<1>2. /\ k \in Keys /\ job[k].status # "absent"
      /\ k[1] # "evaluation" /\ mem[w].job = "failed" => job[k].status \in {"failed", "cancelled"}
  BY <1>1, WorkerFacts DEF WorkerSound
<1>3. \A x \in Workers \ {w} : pc[x] \in InTransaction => on[x] # k
  BY <1>1 DEF JobLocked
<1> HIDE DEF k
<1>4. /\ s \in Subs \cup {None} /\ None \notin Subs
      /\ k[1] = "train" => k[2] \in DOMAIN trains /\ k[2] \in TrainIds /\ k = TrainJob(k[2])
      /\ k[1] = "provider_eval"
           => /\ k[2] \in DOMAIN evals /\ k[2] \in EvalIds /\ k = ProviderJob(k[2])
              /\ evals[k[2]].sub = None
      /\ k[1] = "evaluation" => k[2] \in Subs /\ k = EvalJob(k[2])
      /\ job[k].status \in {"absent", "queued", "completed", "failed", "cancelled"}
  BY <1>2, JobFacts, KeyOfKind, SubsAssumption, TypeFacts DEF JobRow
<1>5. /\ end \in {job[k].status, "failed"}
      /\ k[1] # "evaluation" => end = "failed" \/ (end = job[k].status /\ end \in {"failed", "cancelled"})
  BY <1>2 DEF Net
<1> HIDE DEF end, s
<1>6. /\ job' \in [Keys -> JobRow] /\ \A j \in Keys \ {k} : job'[j] = job[j]
      /\ job'[k].status = end /\ job'[k].train = job[k].train
  BY <1>1, <1>2, <1>4, <1>5, SettledIs, TypeFacts
<1>7. /\ trains' \in Seq(TrainRow) /\ Len(trains') = Len(trains) /\ DOMAIN trains' = DOMAIN trains
      /\ \A t \in DOMAIN trains : trains'[t].output = trains[t].output
      /\ \A t \in DOMAIN trains : k # TrainJob(t) => trains'[t] = trains[t]
      /\ \A t \in DOMAIN trains : k = TrainJob(t) => trains'[t].status = "failed"
      /\ TrainsKept
  <2>1. CASE k[1] = "train"
    <3> DEFINE t == k[2]
               r == [trains[t] EXCEPT !.status = "failed"]
    <3>1. /\ r \in TrainRow /\ r.sub = trains[t].sub /\ r.output = trains[t].output
          /\ r.status = "failed"
      <4>1. trains[t] \in TrainRow
        BY <1>4, <2>1, RowFacts, TypeFacts
      <4> QED BY <4>1 DEF TrainRow
    <3>2. trains' = [trains EXCEPT ![t] = r]
      BY <1>1, <2>1 DEF Marked
    <3> HIDE DEF r
    <3>3. /\ trains' \in Seq(TrainRow) /\ Len(trains') = Len(trains)
          /\ DOMAIN trains' = DOMAIN trains /\ trains'[t] = r
          /\ \A u \in DOMAIN trains \ {t} : trains'[u] = trains[u]
          /\ TrainsKept
      BY <1>4, <2>1, <3>1, <3>2, TrainReplaced, TypeFacts
    <3>4. \A u \in DOMAIN trains : k = TrainJob(u) <=> u = t
      BY <1>4, <2>1, KeysApart, RowFacts, TypeFacts
    <3> HIDE DEF t
    <3> QED BY <3>1, <3>3, <3>4
  <2>2. CASE k[1] # "train"
    <3>1. trains' = trains
      BY <1>1, <2>2 DEF Marked
    <3>2. \A u \in DOMAIN trains : k # TrainJob(u)
      BY <2>2, KindOfKey, RowFacts, TypeFacts
    <3> QED BY <3>1, <3>2, TypeFacts DEF TrainsKept
  <2> QED BY <2>1, <2>2
<1>8. /\ evals' \in Seq(EvalRow) /\ Len(evals') = Len(evals) /\ DOMAIN evals' = DOMAIN evals
      /\ \A e \in DOMAIN evals : k # ProviderJob(e) => evals'[e] = evals[e]
      /\ \A e \in DOMAIN evals : k = ProviderJob(e) => evals'[e].status = "failed"
      /\ EvalsKept
  <2>1. CASE k[1] = "provider_eval"
    <3> DEFINE e == k[2]
               r == [evals[e] EXCEPT !.status = "failed"]
    <3>1. /\ r \in EvalRow /\ r.sub = evals[e].sub /\ r.train = evals[e].train
          /\ r.status = "failed"
      <4>1. evals[e] \in EvalRow
        BY <1>4, <2>1, RowFacts, TypeFacts
      <4> QED BY <4>1 DEF EvalRow
    <3>2. evals' = [evals EXCEPT ![e] = r]
      BY <1>1, <2>1 DEF Marked
    <3> HIDE DEF r
    <3>3. /\ evals' \in Seq(EvalRow) /\ Len(evals') = Len(evals)
          /\ DOMAIN evals' = DOMAIN evals /\ evals'[e] = r
          /\ \A u \in DOMAIN evals \ {e} : evals'[u] = evals[u]
          /\ EvalsKept
      BY <1>4, <2>1, <3>1, <3>2, EvalReplaced, TypeFacts
    <3>4. \A u \in DOMAIN evals : k = ProviderJob(u) <=> u = e
      BY <1>4, <2>1, KeysApart, RowFacts, TypeFacts
    <3> HIDE DEF e
    <3> QED BY <3>1, <3>3, <3>4
  <2>2. CASE k[1] # "provider_eval"
    <3>1. evals' = evals
      BY <1>1, <2>2 DEF Marked
    <3>2. \A u \in DOMAIN evals : k # ProviderJob(u)
      BY <2>2, KindOfKey, RowFacts, TypeFacts
    <3> QED BY <3>1, <3>2, TypeFacts DEF EvalsKept
  <2> QED BY <2>1, <2>2
<1>9. /\ sub' \in [Subs -> SubRow]
      /\ \A q \in Subs : /\ sub'[q].status \in {sub[q].status, "failed"}
                         /\ sub'[q].eval = sub[q].eval /\ sub'[q].deleted = sub[q].deleted
  <2>1. CASE s = None
    BY <1>1, <2>1, TypeFacts
  <2>2. CASE s # None
    <3> DEFINE new == Net(sub[s].status, mem[w].row.status, "failed")
               r == [sub[s] EXCEPT !.status = new]
    <3>1. s \in Subs /\ sub[s] \in SubRow /\ new \in {sub[s].status, "failed"}
      BY <1>4, <2>2, TypeFacts DEF Net
    <3>2. sub' = [sub EXCEPT ![s] = r]
      BY <1>1, <2>2
    <3> HIDE DEF new
    <3>3. /\ r \in SubRow /\ r.status = new /\ r.eval = sub[s].eval
          /\ r.deleted = sub[s].deleted
      BY <3>1 DEF SubRow
    <3> HIDE DEF r
    <3>4. sub' \in [Subs -> SubRow] /\ sub'[s] = r /\ \A q \in Subs \ {s} : sub'[q] = sub[q]
      BY <3>1, <3>2, <3>3, SubWritten, TypeFacts
    <3> QED BY <3>1, <3>3, <3>4
  <2> QED BY <2>1, <2>2
<1>10. /\ \A t \in TrainIds : TrainJob(t) \in Keys
       /\ \A q \in Subs : EvalJob(q) \in Keys
       /\ \A e \in EvalIds : ProviderJob(e) \in Keys
  BY KeysAre
<1>11. JobsKept /\ \A j \in Keys : job'[j].status # "absent" => job[j].status # "absent"
  BY <1>2, <1>5, <1>6 DEF JobsKept
<1>12. RunsExist'
  BY <1>7, <1>8, <1>10, <1>11, RunsExistStep
<1>13. Payloads'
  <2>1. \A t \in TrainIds : job'[TrainJob(t)].status = "queued"
            => \/ job[TrainJob(t)].status = "queued" /\ trains'[t].output = trains[t].output
               \/ ~trains'[t].output
    <3> SUFFICES ASSUME NEW t \in TrainIds, job'[TrainJob(t)].status = "queued"
                 PROVE  job[TrainJob(t)].status = "queued" /\ trains'[t].output = trains[t].output
      OBVIOUS
    <3>1. job[TrainJob(t)].status = "queued"
      BY <1>5, <1>6, <1>10
    <3>2. t \in DOMAIN trains
      BY <3>1 DEF Inv, RowsSound, RunsExist
    <3> QED BY <1>7, <3>1, <3>2
  <2>2. \A q \in Subs : job'[EvalJob(q)].train = job[EvalJob(q)].train
    BY <1>6, <1>10
  <2> QED BY <1>7, <1>8, <2>1, <2>2, PayloadsStep
<1>14. SubsSound'
  <2> SUFFICES ASSUME NEW q \in Subs
               PROVE  /\ sub'[q].eval <= Len(evals')
                      /\ sub'[q].status = "absent" => ~sub'[q].deleted
    BY DEF SubsSound, Subs
  <2> QED BY <1>8, <1>9, TypeFacts DEF SubsSound
<1>15. RunsAgreeWithJobs'
  <2>1. ASSUME NEW t \in DOMAIN trains
        PROVE  \/ /\ trains'[t].status = trains[t].status
                  /\ job'[TrainJob(t)].status = job[TrainJob(t)].status
               \/ job'[TrainJob(t)].status \notin Outcome
               \/ trains'[t].status = job'[TrainJob(t)].status
    <3>1. t \in TrainIds /\ TrainJob(t) \in Keys /\ TrainJob(t)[1] = "train"
      BY <1>10, RowFacts, TypeFacts, KindOfKey
    <3>2. CASE k = TrainJob(t)
      <4>1. trains'[t].status = "failed" /\ end \in {"failed", "cancelled"}
        BY <1>5, <1>7, <3>1, <3>2
      <4> QED BY <1>6, <3>2, <4>1 DEF Outcome
    <3>3. CASE k # TrainJob(t)
      BY <1>6, <1>7, <3>1, <3>3
    <3> QED BY <3>2, <3>3
  <2>2. ASSUME NEW e \in DOMAIN evals
        PROVE  \/ /\ evals'[e].status = evals[e].status
                  /\ job'[ProviderJob(e)].status = job[ProviderJob(e)].status
               \/ job'[ProviderJob(e)].status \notin Outcome
               \/ evals'[e].status = job'[ProviderJob(e)].status
    <3>1. e \in EvalIds /\ ProviderJob(e) \in Keys /\ ProviderJob(e)[1] = "provider_eval"
      BY <1>10, RowFacts, TypeFacts, KindOfKey
    <3>2. CASE k = ProviderJob(e)
      <4>1. evals'[e].status = "failed" /\ end \in {"failed", "cancelled"}
        BY <1>5, <1>8, <3>1, <3>2
      <4> QED BY <1>6, <3>2, <4>1 DEF Outcome
    <3>3. CASE k # ProviderJob(e)
      BY <1>6, <1>8, <3>1, <3>3
    <3> QED BY <3>2, <3>3
  <2> QED BY <1>7, <1>8, <1>13, <2>1, <2>2, AgreeStep
<1>16. UploadsNotStranded'
  <2> SUFFICES ASSUME NEW q \in Uploads
               PROVE  /\ \/ sub'[q].status = "failed"
                         \/ sub'[q].status = sub[q].status /\ sub'[q].eval = sub[q].eval
                      /\ \A j \in JobsOf(q) :
                           /\ job'[j].status # "absent"
                           /\ job[j].status # "completed" => job'[j].status # "completed"
    BY <1>1, <1>7, <1>8, UploadsStep
  <2>1. q \in Subs
    BY TypeFacts
  <2>2. \A j \in JobsOf(q) : j \in Keys /\ job[j].status # "absent"
    BY DEF JobsOf
  <2>3. \A j \in JobsOf(q) : /\ job'[j].status # "absent"
                             /\ job[j].status # "completed" => job'[j].status # "completed"
    BY <1>5, <1>6, <2>2
  <2> QED BY <1>9, <2>1, <2>3
<1>17. RowsSound'
  BY <1>12, <1>13, <1>14, <1>15, <1>16 DEF RowsSound
<1>18. \A x \in Workers \ {w} : pc[x] \in InTransaction => job'[on[x]].status = job[on[x]].status
  BY <1>3, <1>6, WorkerFacts
<1>19. /\ Len(trains') <= MaxTrains /\ Len(evals') <= MaxEvals
       /\ Len(evals) <= Len(evals') /\ left' \subseteq Subs
       /\ tree' \in [PullRequests -> [head: 0..MaxHead, outs: SUBSET TrainIds]]
       /\ \A q \in Subs : sub[q].status # "absent" => sub'[q].status # "absent"
  BY <1>1, <1>7, <1>8, <1>9, TypeFacts, WorkerFacts
<1> QED BY <1>1, <1>6, <1>7, <1>8, <1>9, <1>11, <1>17, <1>18, <1>19, WorkerWritesInv

-----------------------------------------------------------------------------
(***************************************************************************)
(* The theorems                                                            *)
(***************************************************************************)
LEMMA NextInv == Inv /\ [Next]_vars => Inv'
<1> SUFFICES ASSUME Inv, [Next]_vars PROVE Inv'
  OBVIOUS
<1>1. CASE UNCHANGED vars
  <2>1. /\ req' = req /\ asked' = asked /\ sub' = sub /\ job' = job
        /\ UNCHANGED <<mode, rowVars, fileVars, workerVars, faults>>
    BY <1>1 DEF vars, rowVars, fileVars, apiVars, workerVars
  <2>2. RequestOpen'
    BY <2>1, RequestWaits
  <2> QED BY <2>1, <2>2, TypeFacts, ReadRequestInv
<1>2. CASE Client
  <2>1. ASSUME NEW s \in Uploads, SubmitUpload(s) PROVE Inv'
    BY <2>1, SubmitUploadInv
  <2>2. ASSUME NEW s \in PullRequests, NEW h \in Heads, SubmitPR(s, h) PROVE Inv'
    BY <2>2, HandlerReadsInv
  <2>3. ASSUME NEW s \in Subs \cup {None}, CreateTrain(s) PROVE Inv'
    BY <2>3, CreateTrainInv
  <2> QED BY <1>2, <2>1, <2>2, <2>3 DEF Client
<1>3. CASE Admin
  <2>1. ASSUME NEW s \in Subs, DeleteSubmission(s) PROVE Inv'
    BY <2>1, HandlerReadsInv
  <2>2. ASSUME NEW s \in Subs, RevokeSubmission(s) PROVE Inv'
    BY <2>2, RevokeSubmissionInv
  <2>3. CASE CreateProviderEval
    BY <2>3, CreateProviderEvalInv
  <2>4. ASSUME NEW e \in DOMAIN evals, DeleteEval(e) PROVE Inv'
    BY <2>4, ShowEvalInv DEF DeleteEval
  <2>5. ASSUME NEW e \in DOMAIN evals, RevokeEval(e) PROVE Inv'
    BY <2>5, ShowEvalInv DEF RevokeEval
  <2> QED BY <1>3, <2>1, <2>2, <2>3, <2>4, <2>5 DEF Admin
<1>4. CASE Handler
  <2>1. CASE LockSubmission
    BY <2>1, HandlerReadsInv
  <2>2. CASE CommitDelete
    BY <2>2, CommitDeleteInv
  <2>3. CASE CommitSubmit
    BY <2>3, CommitSubmitInv
  <2>4. CASE SyncRaises
    BY <2>4, HandlerReadsInv
  <2>5. ASSUME NEW status \in Outcome, FinishSync(status) PROVE Inv'
    BY <2>5, FinishSyncInv
  <2> QED BY <1>4, <2>1, <2>2, <2>3, <2>4, <2>5 DEF Handler
<1>5. ASSUME NEW w \in Workers, Process(w) \/ Resolve(w) \/ Crash(w) PROVE Inv'
  <2>1. CASE Claim(w)
    BY <2>1, ClaimInv
  <2>2. CASE Fetch(w)
    BY <2>2, FetchInv
  <2>3. CASE Begin(w)
    BY <2>3, BeginInv
  <2>4. CASE Raise(w)
    BY <2>4, RaiseInv
  <2>5. CASE Reread(w)
    BY <2>5, RereadInv
  <2>6. CASE MarkFailed(w)
    BY <2>6, MarkFailedInv
  <2>7. ASSUME NEW status \in Outcome,
               FinishTrain(w, status) \/ FinishEval(w, status) \/ FinishProviderEval(w, status)
        PROVE  Inv'
    BY <2>7, FinishTrainInv, FinishEvalInv, FinishProviderEvalInv
  <2>8. CASE Resolve(w)
    BY <2>8, ResolveInv
  <2>9. CASE Crash(w)
    BY <2>9, CrashInv
  <2> QED BY <1>5, <2>1, <2>2, <2>3, <2>4, <2>5, <2>6, <2>7, <2>8, <2>9 DEF Process
<1> QED BY <1>1, <1>2, <1>3, <1>4, <1>5 DEF Next

LEMMA Invariance == Spec => []Inv
<1>1. Init => Inv
  BY InitInv
<1>2. Inv /\ [Next]_vars => Inv'
  BY NextInv
<1> QED BY <1>1, <1>2, PTL DEF Spec

\* What the rows, the files and the processes can hold (models.py:16-277).
THEOREM TypeCorrect == Spec => []TypeOK
<1>1. Inv => TypeOK
  BY DEF Inv
<1> QED BY <1>1, Invariance, PTL

\* A job and the run it was for end alike, whatever worker marks them last
\* (worker.py:124-328), and a run evaluates only what its own submission's
\* training stored.
THEOREM EndsAgree == Spec => []RunsAgreeWithJobs
<1>1. Inv => RunsAgreeWithJobs
  BY DEF Inv, RowsSound
<1> QED BY <1>1, Invariance, PTL

\* No chain of jobs that came to its end leaves an upload waiting for it, or
\* showing a run that is not its own (queue.py:18-100, worker.py:124-328).
THEOREM NoUploadStranded == Spec => []UploadsNotStranded
<1>1. Inv => UploadsNotStranded
  BY DEF Inv, RowsSound
<1> QED BY <1>1, Invariance, PTL

-----------------------------------------------------------------------------
(***************************************************************************)
(* Deletions                                                               *)
(***************************************************************************)

\* Every deleted submission of a set stays so.
KeptDeleted(S) == \A s \in S : sub[s].deleted => sub'[s].deleted

LEMMA SubmitUploadKeeps ==
    ASSUME Inv, NEW u \in Uploads, SubmitUpload(u)
    PROVE  KeptDeleted(Subs)
<1>1. u \in Subs /\ ~sub[u].deleted
  BY SubmitUploadIs, TypeFacts DEF SubsSound
<1>2. \A s \in Subs \ {u} : sub'[s] = sub[s]
  BY SubmitUploadIs, ModeIs, TypeFacts
<1> QED BY <1>1, <1>2 DEF KeptDeleted

LEMMA CommitSubmitKeeps ==
    ASSUME Inv, CommitSubmit
    PROVE  KeptDeleted(Subs)
<1> DEFINE s == req.sub
           row == [req.row EXCEPT !.status = "queued", !.head = req.head, !.eval = 0]
           started == TrainStarted(row)
<1>1. s \in PullRequests /\ req.row \in SubRow /\ req.head \in 0..MaxHead
  BY CommitSubmitIs, TypeFacts DEF RequestOpen, Request
<1>2. row \in SubRow /\ row.status = "queued" /\ row.eval = 0 /\ row.deleted = req.row.deleted
  BY <1>1, QueuedRow
<1>3. CASE mode = "train"
  <2>1. Len(trains) < MaxTrains /\ sub' = [sub EXCEPT ![s] = NetRow(@, req.row, started)]
    BY <1>3, CommitSubmitIs
  <2>2. /\ started \in SubRow /\ started.status = "queued" /\ started.eval = 0
        /\ started.deleted = req.row.deleted
    BY <1>2, <2>1, StartedRow
  <2> HIDE DEF started
  <2> QED BY <1>1, <2>1, <2>2, FlushedRows DEF KeptDeleted
<1>4. CASE mode \in {"eval", "sync"}
  <2>1. sub' = [sub EXCEPT ![s] = NetRow(@, req.row, row)]
    BY <1>4, CommitSubmitIs
  <2> HIDE DEF row
  <2> QED BY <1>1, <1>2, <2>1, FlushedRows DEF KeptDeleted
<1> QED BY <1>3, <1>4, ModeIs

LEMMA FinishTrainKeeps ==
    ASSUME Inv, NEW w \in Workers, NEW status \in Outcome, FinishTrain(w, status)
    PROVE  KeptDeleted(Subs)
<1> DEFINE s == trains[on[w][2]].sub
           want == [mem[w].row EXCEPT !.status = "running", !.train = on[w][2]]
           flushed == NetRow(sub[s], mem[w].row, want)
           net == IF status = "completed" THEN flushed ELSE [flushed EXCEPT !.status = "failed"]
<1>1. /\ pc[w] = "running" /\ on[w][1] = "train"
      /\ sub' = IF s = None THEN sub ELSE [sub EXCEPT ![s] = net]
  BY DEF FinishTrain
<1>2. on[w] \in Keys /\ job[on[w]].status = "queued" /\ mem[w].row \in SubRow
  BY <1>1, RunningFacts
<1>3. s \in Subs \cup {None} /\ on[w][2] \in 0..MaxTrains
  BY <1>1, <1>2, JobFacts, KeyOfKind, Bounds DEF TrainIds
<1>4. want \in SubRow /\ want.deleted = mem[w].row.deleted
  BY <1>2, <1>3 DEF SubRow
<1> HIDE DEF want, s
<1>5. CASE s = None
  BY <1>1, <1>5 DEF KeptDeleted
<1>6. CASE s # None
  <2>1. sub[s] \in SubRow /\ s \in Subs
    BY <1>3, <1>6, TypeFacts
  <2>2. flushed \in SubRow /\ flushed.deleted = sub[s].deleted
    BY <1>2, <1>4, <2>1, NetRowIs
  <2> HIDE DEF flushed
  <2>3. net.deleted = sub[s].deleted
    BY <2>2 DEF SubRow
  <2> HIDE DEF net
  <2> QED BY <1>1, <1>6, <2>1, <2>3, TypeFacts DEF KeptDeleted
<1> QED BY <1>5, <1>6

LEMMA FinishEvalKeeps ==
    ASSUME Inv, NEW w \in Workers, NEW status \in Outcome, FinishEval(w, status)
    PROVE  KeptDeleted(Subs)
<1> DEFINE s == on[w][2]
           want == [mem[w].row EXCEPT !.eval = Len(evals) + 1]
           net == NetRow(sub[s], mem[w].row, want)
<1>1. /\ pc[w] = "running" /\ on[w][1] = "evaluation" /\ Len(evals) < MaxEvals
      /\ sub' = [sub EXCEPT ![s] = [net EXCEPT !.status = status]]
  BY DEF FinishEval
<1>2. s \in Subs /\ sub[s] \in SubRow /\ mem[w].row \in SubRow /\ Len(evals) + 1 \in 0..MaxEvals
  BY <1>1, RunningFacts, KeyOfKind, TypeFacts, Bounds
<1>3. want \in SubRow /\ want.deleted = mem[w].row.deleted
  BY <1>2 DEF SubRow
<1> HIDE DEF want
<1>4. net \in SubRow /\ net.deleted = sub[s].deleted
  BY <1>2, <1>3, NetRowIs
<1> HIDE DEF net, s
<1>5. [net EXCEPT !.status = status].deleted = sub[s].deleted
  BY <1>4 DEF SubRow
<1> QED BY <1>1, <1>2, <1>5, TypeFacts DEF KeptDeleted

\* A step that is no revocation of s keeps its deletion.
LEMMA SubmissionsStayDeleted ==
    ASSUME Inv, Next, NEW s \in Subs, sub[s].deleted, ~sub'[s].deleted
    PROVE  RevokeSubmission(s)
<1>1. sub \in [Subs -> SubRow]
  BY TypeFacts
<1>2. CASE Client
  <2>1. ASSUME NEW u \in Uploads, SubmitUpload(u) PROVE KeptDeleted(Subs)
    BY <2>1, SubmitUploadKeeps
  <2>2. ASSUME NEW u \in PullRequests, NEW h \in Heads, SubmitPR(u, h) PROVE sub' = sub
    BY <2>2 DEF SubmitPR, rowVars
  <2>3. ASSUME NEW u \in Subs \cup {None}, CreateTrain(u) PROVE KeptDeleted(Subs)
    <3>1. sub' = IF u = None THEN sub ELSE [sub EXCEPT ![u].train = Len(trains) + 1]
      BY <2>3 DEF CreateTrain
    <3> QED BY <1>1, <3>1 DEF KeptDeleted, SubRow
  <2> QED BY <1>2, <2>1, <2>2, <2>3 DEF Client, KeptDeleted
<1>3. CASE Admin
  <2>1. ASSUME NEW u \in Subs, DeleteSubmission(u) PROVE sub' = sub
    BY <2>1 DEF DeleteSubmission, rowVars
  <2>2. ASSUME NEW u \in Subs, RevokeSubmission(u) PROVE RevokeSubmission(s)
    <3>1. u # s => sub'[s] = sub[s]
      BY <1>1, <2>2 DEF RevokeSubmission
    <3> QED BY <2>2, <3>1
  <2>3. CASE CreateProviderEval \/ \E e \in DOMAIN evals : DeleteEval(e) \/ RevokeEval(e)
    BY <2>3 DEF CreateProviderEval, DeleteEval, RevokeEval
  <2> QED BY <1>3, <2>1, <2>2, <2>3 DEF Admin
<1>4. CASE Handler
  <2>1. CASE LockSubmission \/ SyncRaises
    BY <2>1 DEF LockSubmission, SyncRaises, rowVars
  <2>2. CASE CommitDelete
    <3>1. sub' = [sub EXCEPT ![req.sub].deleted = TRUE]
      BY <2>2 DEF CommitDelete
    <3> QED BY <1>1, <3>1 DEF SubRow
  <2>3. CASE CommitSubmit
    BY <2>3, CommitSubmitKeeps DEF KeptDeleted
  <2>4. ASSUME NEW status \in Outcome, FinishSync(status) PROVE FALSE
    <3>1. sub' = [sub EXCEPT ![req.sub] = [@ EXCEPT !.status = status, !.eval = Len(evals) + 1]]
      BY <2>4 DEF FinishSync
    <3> QED BY <1>1, <3>1 DEF SubRow
  <2> QED BY <1>4, <2>1, <2>2, <2>3, <2>4 DEF Handler
<1>5. ASSUME NEW w \in Workers, Process(w) \/ Resolve(w) \/ Crash(w) PROVE FALSE
  <2>1. CASE Claim(w) \/ Fetch(w) \/ Begin(w) \/ Raise(w) \/ Reread(w) \/ Crash(w)
    BY <2>1 DEF Claim, Fetch, Begin, Raise, Rollback, Reread, Crash, rowVars
  <2>2. CASE MarkFailed(w)
    <3> DEFINE q == SubOf(on[w])
    <3>1. sub' = IF q = None THEN sub
                 ELSE [sub EXCEPT ![q].status = Net(@, mem[w].row.status, "failed")]
      BY <2>2 DEF MarkFailed
    <3> HIDE DEF q
    <3> QED BY <1>1, <3>1 DEF SubRow
  <2>3. ASSUME NEW status \in Outcome,
               FinishTrain(w, status) \/ FinishEval(w, status) \/ FinishProviderEval(w, status)
        PROVE  FALSE
    BY <2>3, FinishTrainKeeps, FinishEvalKeeps DEF FinishProviderEval, KeptDeleted
  <2>4. CASE Resolve(w)
    BY <2>4 DEF Resolve, ResolveWithApi, ResolveWithTrain, Rollback, rowVars
  <2> QED BY <1>5, <2>1, <2>2, <2>3, <2>4 DEF Process
<1> QED BY <1>2, <1>3, <1>4, <1>5 DEF Next

\* A step that is no revocation of run e keeps its deletion.
LEMMA EvalsStayDeleted ==
    ASSUME Inv, Next, NEW e \in DOMAIN evals, evals[e].deleted, ~evals'[e].deleted
    PROVE  RevokeEval(e)
<1>1. evals \in Seq(EvalRow) /\ e \in 1..Len(evals) /\ e \in EvalIds
  BY RowFacts, TypeFacts
<1>2. ASSUME NEW f \in DOMAIN evals, NEW end, evals' = [evals EXCEPT ![f].status = end]
      PROVE  FALSE
  <2>1. evals[e] \in EvalRow
    BY RowFacts, TypeFacts
  <2> QED BY <1>2, <2>1 DEF EvalRow
<1>3. ASSUME NEW r, evals' = Append(evals, r) PROVE FALSE
  BY <1>1, <1>3
<1>4. CASE Client
  BY <1>4 DEF Client, SubmitUpload, SubmitPR, CreateTrain, rowVars
<1>5. CASE Admin
  <2>1. ASSUME NEW u \in Subs, DeleteSubmission(u) \/ RevokeSubmission(u) PROVE evals' = evals
    BY <2>1 DEF DeleteSubmission, RevokeSubmission, rowVars
  <2>2. CASE CreateProviderEval
    BY <1>3, <2>2 DEF CreateProviderEval
  <2>3. ASSUME NEW f \in DOMAIN evals, DeleteEval(f) PROVE FALSE
    <3>1. evals' = [evals EXCEPT ![f].deleted = TRUE] /\ evals[e] \in EvalRow
      BY <2>3, RowFacts, TypeFacts DEF DeleteEval
    <3> QED BY <3>1 DEF EvalRow
  <2>4. ASSUME NEW f \in DOMAIN evals, RevokeEval(f) PROVE RevokeEval(e)
    <3>1. f # e => evals'[e] = evals[e]
      BY <2>4 DEF RevokeEval
    <3> QED BY <2>4, <3>1
  <2> QED BY <1>5, <2>1, <2>2, <2>3, <2>4 DEF Admin
<1>6. CASE Handler
  <2>1. CASE LockSubmission \/ CommitDelete \/ SyncRaises
    BY <2>1 DEF LockSubmission, CommitDelete, SyncRaises, rowVars
  <2>2. CASE CommitSubmit
    BY <2>2, CommitSubmitIs
  <2>3. ASSUME NEW status \in Outcome, FinishSync(status) PROVE FALSE
    BY <1>3, <2>3 DEF FinishSync
  <2> QED BY <1>6, <2>1, <2>2, <2>3 DEF Handler
<1>7. ASSUME NEW w \in Workers, Process(w) \/ Resolve(w) \/ Crash(w) PROVE FALSE
  <2>1. CASE Claim(w) \/ Fetch(w) \/ Begin(w) \/ Raise(w) \/ Reread(w) \/ Crash(w)
    BY <2>1 DEF Claim, Fetch, Begin, Raise, Rollback, Reread, Crash, rowVars
  <2>2. CASE MarkFailed(w)
    <3>1. evals' = Marked(on[w][1] = "provider_eval", evals, on[w][2])
      BY <2>2 DEF MarkFailed
    <3>2. pc[w] # "idle"
      BY <2>2 DEF MarkFailed
    <3>3. on[w][1] = "provider_eval" => on[w][2] \in DOMAIN evals
      BY <3>2, WorkerFacts, JobFacts
    <3> QED BY <1>2, <3>1, <3>3 DEF Marked
  <2>3. ASSUME NEW status \in Outcome,
               FinishTrain(w, status) \/ FinishEval(w, status) \/ FinishProviderEval(w, status)
        PROVE  FALSE
    <3>1. CASE FinishTrain(w, status)
      BY <3>1 DEF FinishTrain
    <3>2. CASE FinishEval(w, status)
      BY <1>3, <3>2 DEF FinishEval
    <3>3. CASE FinishProviderEval(w, status)
      <4>1. /\ pc[w] = "running" /\ on[w][1] = "provider_eval"
            /\ evals' = [evals EXCEPT ![on[w][2]].status = status]
        BY <3>3 DEF FinishProviderEval
      <4>2. on[w][2] \in DOMAIN evals
        BY <4>1, WorkerFacts, JobFacts
      <4> QED BY <1>2, <4>1, <4>2
    <3> QED BY <2>3, <3>1, <3>2, <3>3
  <2>4. CASE Resolve(w)
    BY <2>4 DEF Resolve, ResolveWithApi, ResolveWithTrain, Rollback, rowVars
  <2> QED BY <1>7, <2>1, <2>2, <2>3, <2>4 DEF Process
<1> QED BY <1>4, <1>5, <1>6, <1>7 DEF Next

\* What was deleted stays deleted until it is revoked (routes.py:1198-1296),
\* although workers and uploads of the same pull
\* request write rows that they loaded before the deletion.
THEOREM DeletionOutlivesWorkers == Spec => DeletionSticks
<1> DEFINE A == /\ \A s \in Subs :
                     sub[s].deleted /\ ~sub'[s].deleted => RevokeSubmission(s)
                /\ \A e \in DOMAIN evals :
                     evals[e].deleted /\ ~evals'[e].deleted => RevokeEval(e)
<1>1. Inv /\ Next => A
  BY SubmissionsStayDeleted, EvalsStayDeleted
<1>2. Inv /\ [Next]_vars => [A]_vars
  BY <1>1
<1> HIDE DEF A
<1>3. Spec => [][A]_vars
  BY <1>2, Invariance, PTL DEF Spec
<1> QED BY <1>3 DEF DeletionSticks, A
=============================================================================
