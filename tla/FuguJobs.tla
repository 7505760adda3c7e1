------------------------------- MODULE FuguJobs -------------------------------
(***************************************************************************)
(* The two jobs that run Fugu workflows, each under a spending cap:        *)
(* evaluate() runs every task Reps times, its tasks as coroutines that a   *)
(* semaphore limits, and train() is the GRPO loop, whose groups of runs    *)
(* come one after the other.                                               *)
(*                                                                         *)
(* A step is what one coroutine does from the answer of a call to the next *)
(* call: a coroutine is interrupted nowhere else.                          *)
(***************************************************************************)
EXTENDS FuguWorkflow

CONSTANTS
    NTasks,            \* tasks, numbered from 0
    Reps, Concurrency, \* of evaluate()
    GroupSize, QuestionsPerIter, Iterations, GradAccum, \* of train()
    EvalCap, TrainCap, \* dollars that each may spend; 0 means no cap
    Texts              \* what an unconstrained Conductor may propose

Tasks == 0..NTasks-1

ASSUME FuguJobsAssumption ==
    /\ NTasks \in Nat \ {0} /\ Reps \in Nat \ {0} /\ Concurrency \in Nat \ {0}
    /\ GroupSize \in Nat \ {0} /\ QuestionsPerIter \in Nat \ {0} /\ Iterations \in Nat \ {0}
    /\ GradAccum \in Nat \ {0}
    /\ EvalCap \in Nat /\ TrainCap \in Nat

\* Texts and lists are finite, and a number of digits alone has no sign.
ASSUME TextsAssumption ==
    \A text \in Texts :
       /\ text \in Seq(Range(text))
       /\ \A p \in DOMAIN text :
             LET list == text[p].list
             IN /\ list \in Seq(Range(list))
                /\ \A v \in Range(list) : v.k = "digits" => v.n \in Nat

VARIABLES
    job,     \* "evaluate", or "train" with a free or a constrained policy
    run,     \* the workflow run of each task
    meter,   \* the CostMeter
    bill,    \* history: the calls that the pool has answered, and their price
    result,  \* what the job has come to
    pc,      \* where the coroutine of each task of evaluate() is
    votes,   \* the ballot of each task, as far as it has got
    report,  \* per_query_binary, with the ballot
    trainer  \* the loop variables of train()

evalVars == <<pc, votes, report>>
vars == <<job, run, meter, bill, result, evalVars, trainer>>

-----------------------------------------------------------------------------
NoReport == [votes |-> <<>>, solved |-> FALSE]

\* sampled is history: how often each task has been the question of a group;
\* so are updated, the groups of the last update of the policy, and optSteps, the
\* steps that its optimizer took then.
TrainerStart == [it |-> 0, cursor |-> 0, groups |-> <<>>, rewards |-> <<>>, correct |-> 0,
                 history |-> <<>>, updated |-> <<>>, optSteps |-> 0,
                 sampled |-> [t \in Tasks |-> 0]]

\* The task of the group that is being collected.
Question == (trainer.cursor + Len(trainer.groups)) % NTasks

Init ==
    /\ job \in {"evaluate", "train", "train constrained"}
    /\ run = [t \in Tasks |-> IF job # "evaluate" /\ t = 0 THEN Proposing ELSE Idle]
    /\ meter = [spend |-> 0, calls |-> 0, runs |-> 0, aborted |-> FALSE]
    /\ bill = [usd |-> 0, calls |-> 0]
    /\ result = "running"
    /\ pc = [t \in Tasks |-> "new"]
    /\ votes = [t \in Tasks |-> <<>>]
    /\ report = [t \in Tasks |-> NoReport]
    /\ trainer = [TrainerStart EXCEPT !.sampled[0] = IF job = "evaluate" THEN 0 ELSE 1]

Proposals == IF job = "train constrained" THEN ConstrainedTexts ELSE Texts

\* evaluate() prompts a priced model, train() samples the policy it trains.
Prices == PriceTable(job # "evaluate")

Billed(name) == bill' = [usd |-> bill.usd + Prices[name], calls |-> bill.calls + 1]

Cap == IF job = "evaluate" THEN EvalCap ELSE TrainCap

AddRun(r) ==
    LET spend == meter.spend + RunCost(r.tokens, Prices)
    IN [spend |-> spend, calls |-> meter.calls + r.calls, runs |-> meter.runs + 1,
        aborted |-> meter.aborted \/ (Cap > 0 /\ spend > Cap)]

-----------------------------------------------------------------------------
(* evaluate()                                                              *)

\* The flag that the coroutines share is set with the meter's, in one step.
EvalAborted == meter.aborted

\* A coroutine of evaluate() begins: it ends at once after an abort, and
\* otherwise takes a permit or queues for one.
Enter(t) ==
    LET free == Cardinality({u \in Tasks : pc[u] = "running"}) < Concurrency
    IN /\ job = "evaluate" /\ result = "running" /\ pc[t] = "new"
       /\ pc' = [pc EXCEPT ![t] = IF EvalAborted THEN "done"
                                  ELSE IF free THEN "running" ELSE "waiting"]
       /\ run' = [run EXCEPT ![t] = IF pc'[t] = "running" THEN Proposing ELSE Idle]
       /\ UNCHANGED <<job, meter, bill, result, votes, report, trainer>>

\* Variant: the flag is not looked at again after the wait.
AcquireBlindly(t) ==
    /\ result = "running" /\ pc[t] = "waiting"
    /\ Cardinality({u \in Tasks : pc[u] = "running"}) < Concurrency
    /\ pc' = [pc EXCEPT ![t] = "running"]
    /\ run' = [run EXCEPT ![t] = Proposing]
    /\ UNCHANGED <<job, meter, bill, result, votes, report, trainer>>

\* A coroutine gets the permit that another one released.
Acquire(t) ==
    /\ result = "running" /\ pc[t] = "waiting"
    /\ Cardinality({u \in Tasks : pc[u] = "running"}) < Concurrency
    /\ pc' = [pc EXCEPT ![t] = IF EvalAborted THEN "done" ELSE "running"]
    /\ run' = [run EXCEPT ![t] = IF EvalAborted THEN Idle ELSE Proposing]
    /\ UNCHANGED <<job, meter, bill, result, votes, report, trainer>>

Solved(ballot) == 2 * Cardinality({i \in DOMAIN ballot : ballot[i]}) > Len(ballot)

\* Variant: a task that the cap interrupts votes for its next repetition too.
VoteOn(t, r) ==
    LET ballot == Append(votes[t], IsCorrect(r))
    IN /\ meter' = AddRun(r)
       /\ votes' = [votes EXCEPT ![t] = ballot]
       /\ run' = [run EXCEPT ![t] = Proposing]
       /\ UNCHANGED <<job, result, pc, report, trainer>>

\* A run of evaluate() has ended: the next repetition, or the task's report.
Vote(t, r) ==
    LET ballot == Append(votes[t], IsCorrect(r))
        last   == AddRun(r).aborted \/ Len(ballot) = Reps
    IN /\ meter' = AddRun(r)
       /\ votes' = [votes EXCEPT ![t] = ballot]
       /\ run' = [run EXCEPT ![t] = IF last THEN Idle ELSE Proposing]
       /\ pc' = [pc EXCEPT ![t] = IF last THEN "done" ELSE @]
       /\ report' = [report EXCEPT ![t] = IF last THEN [votes |-> ballot, solved |-> Solved(ballot)]
                                          ELSE @]
       /\ UNCHANGED <<job, result, trainer>>

EvaluateReturns ==
    /\ job = "evaluate" /\ result = "running" /\ \A t \in Tasks : pc[t] = "done"
    /\ result' = "returned"
    /\ UNCHANGED <<job, run, meter, bill, evalVars, trainer>>

-----------------------------------------------------------------------------
(* train()                                                                 *)

\* The trainer after one more reward, and after what follows when the reward
\* completes a group, a batch, or crosses the cap.
Collected(r) == [trainer EXCEPT !.rewards = Append(@, TrainingReward(r)),
                                !.correct = @ + (IF IsCorrect(r) THEN 1 ELSE 0)]

GroupDone(tr) == [tr EXCEPT !.groups = Append(@, tr.rewards), !.rewards = <<>>]

Asked(tr) == [tr EXCEPT !.sampled[(tr.cursor + Len(tr.groups)) % NTasks] = @ + 1]

\* The steps of an update: one for each GradAccum samples that have an
\* advantage, and one for the rest.
OptimizerSteps(groups) ==
    LET Signal(g) == Cardinality({i \in DOMAIN g : GroupAdvantages(g)[i] # 0})
        samples   == SumFunction([k \in DOMAIN groups |-> Signal(groups[k])])
    IN (samples + GradAccum - 1) \div GradAccum

\* The policy's update, the record of the iteration, and the next batch.
BatchDone(tr) ==
    [tr EXCEPT !.updated = tr.groups, !.optSteps = OptimizerSteps(tr.groups),
               !.history = Append(@, [aborted |-> FALSE, accuracy |-> tr.correct]),
               !.it = @ + 1, !.cursor = (@ + QuestionsPerIter) % NTasks,
               !.groups = <<>>, !.correct = 0]

\* Variant: the policy is updated from what there is.
CapExceededUpdating(tr) ==
    [tr EXCEPT !.updated = Append(tr.groups, tr.rewards), !.optSteps = 1,
               !.history = Append(@, [aborted |-> TRUE, accuracy |-> 0]),
               !.groups = <<>>, !.rewards = <<>>, !.correct = 0]

\* CostCapExceeded: what the iteration has collected is dropped.
CapExceeded(tr) ==
    [tr EXCEPT !.history = Append(@, [aborted |-> TRUE, accuracy |-> 0]),
               !.groups = <<>>, !.rewards = <<>>, !.correct = 0]

\* The loop goes on with the next question, or returns.
GoOn(next, more) ==
    /\ trainer' = IF more THEN Asked(next) ELSE next
    /\ run' = [u \in Tasks |-> IF more /\ u = (next.cursor + Len(next.groups)) % NTasks
                               THEN Proposing ELSE Idle]
    /\ result' = IF more THEN "running" ELSE "returned"

\* A run of train() has ended: the next run of the group, the next group, or
\* the update.
Score(t, r) ==
    LET over    == AddRun(r).aborted
        tr      == Collected(r)
        full    == Len(tr.rewards) >= GroupSize
        grouped == GroupDone(tr)
    IN /\ meter' = AddRun(r)
       /\ \/ over /\ GoOn(CapExceeded(tr), FALSE)
          \/ /\ ~over /\ ~full
             /\ trainer' = tr
             /\ run' = [run EXCEPT ![t] = Proposing]
             /\ UNCHANGED result
          \/ ~over /\ full /\ Len(grouped.groups) < QuestionsPerIter /\ GoOn(grouped, TRUE)
          \/ /\ ~over /\ full /\ Len(grouped.groups) >= QuestionsPerIter
             /\ GoOn(BatchDone(grouped), BatchDone(grouped).it < Iterations)
       /\ UNCHANGED <<job, evalVars>>

\* The accuracy of the last record that has one.
FinalAccuracy ==
    LET done == {k \in DOMAIN trainer.history : ~trainer.history[k].aborted}
    IN IF done = {} THEN 0 ELSE trainer.history[Max(done)].accuracy

-----------------------------------------------------------------------------
(* The calls of the pool                                                   *)

Resume(t, r) ==
    IF ~Finished(r)
    THEN run' = [run EXCEPT ![t] = r] /\ UNCHANGED <<job, meter, result, evalVars, trainer>>
    ELSE IF job = "evaluate" THEN Vote(t, r) ELSE Score(t, r)

\* The Conductor answers, for the task or for a step of its workflow.
ProposalReturns(t) ==
    /\ result = "running" /\ run[t].call.kind = "propose"
    /\ Billed(CONDUCTOR_KEY)
    /\ \E text \in Proposals :
          Resume(t, IF run[t].stack = <<>> THEN AfterProposal(run[t], text)
                    ELSE AfterSubProposal(run[t], text))

WorkerReturns(t) ==
    /\ result = "running" /\ run[t].call.kind = "work"
    /\ Billed(run[t].call.to)
    /\ \E output \in Outputs : Resume(t, AfterWorker(run[t], output))

\* A call that fails for good raises out of the run and out of the job, which
\* gathers its coroutines without return_exceptions.
CallRaises(t) ==
    /\ result = "running" /\ run[t].call # NoCall
    /\ result' = "raised"
    /\ UNCHANGED <<job, run, meter, bill, evalVars, trainer>>

Terminated == result # "running" /\ UNCHANGED vars

Step(t) == CallRaises(t) \/ WorkerReturns(t) \/ ProposalReturns(t)

Next ==
    \/ \E t \in Tasks : Enter(t) \/ Acquire(t) \/ Step(t)
    \/ EvaluateReturns
    \/ Terminated

Spec == Init /\ [][Next]_vars

-----------------------------------------------------------------------------
(* Properties                                                              *)

RunOK(r) ==
    /\ r.call.kind \in {"none", "propose", "work"} /\ r.call.to \in Names
    /\ r.parsed \in BOOLEAN /\ r.calls \in Nat
    /\ r.stack # <<>> => r.parsed /\ r.call # NoCall /\ Len(r.stack) \in 1..MaxDepth+1

TypeOK ==
    /\ \A t \in Tasks : RunOK(run[t]) /\ votes[t] \in BoundedSeq(BOOLEAN, Reps)
    /\ pc \in [Tasks -> {"new", "waiting", "running", "done"}]
    /\ meter \in [spend : Nat, calls : Nat, runs : Nat, aborted : BOOLEAN]
    /\ result \in {"running", "returned", "raised"}

\* The tokens of a run that has not ended, at every depth of its recursion.
Unmetered(r) == <<r>> \o r.stack

\* The meter charges each answered call once: the pool's bill is what the meter
\* has added up and what the runs in flight have tallied so far, whatever the
\* nesting of the workflows and whether or not the proposals parsed.
MeterExact ==
    /\ bill.usd = meter.spend
                    + SumFunction([t \in Tasks |-> RunCost(SumTokens(Unmetered(run[t])), Prices)])
    /\ bill.calls = meter.calls + SumFunction([t \in Tasks |-> SumCalls(Unmetered(run[t]))])

\* What the gate admits, the executor can run as it is written: the prompt of
\* the step in flight quotes the outputs that its access list names, all of
\* them and no later ones.  A constrained policy's proposals all pass the gate,
\* so that its groups hold no reward of a rejected one.
AdmittedRunsAsWritten ==
    /\ \A t \in Tasks : run[t].stack # <<>> =>
          LET frame == Last(run[t].stack)
              prior == 0..Len(frame.outputs)-1
          IN run[t].call.reads = IF Current(frame).all THEN prior ELSE Current(frame).ids
    /\ job = "train constrained" =>
          \A g \in Range(trainer.groups) \cup {trainer.rewards} : \A x \in Range(g) : x > 0

\* The policy is only ever updated from whole batches of whole groups, and moves
\* only when the runs of some group differ in reward; the questions take turns;
\* and the summary's accuracy is that of the last update, also when the cap ends
\* the loop within an iteration.
TrainingBooks ==
    /\ trainer.updated # <<>> =>
          /\ Len(trainer.updated) = QuestionsPerIter
          /\ \A g \in Range(trainer.updated) : Len(g) = GroupSize
          /\ trainer.optSteps > 0 <=> \E g \in Range(trainer.updated) : Cardinality(Range(g)) > 1
    /\ \A s, t \in Tasks : trainer.sampled[s] - trainer.sampled[t] <= 1
    /\ result = "returned" /\ trainer.updated # <<>> =>
          FinalAccuracy = Cardinality({x \in (1..Len(trainer.updated)) \X (1..GroupSize) :
                                          trainer.updated[x[1]][x[2]] = 2})

Begun == meter.runs + Cardinality({t \in Tasks : run[t] # Idle})

\* Once the spend has crossed the cap no run begins, in whichever coroutine: at
\* most the runs that were in flight then are paid on top.
NoRunAfterCap == [][meter.aborted' => Begun' = Begun]_vars
===============================================================================
