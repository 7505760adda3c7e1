----------------------------- MODULE FuguWorkflow -----------------------------
(***************************************************************************)
(* A Fugu Conductor answers a task with three Python lists, the workflow: a *)
(* worker, a subtask and an access list for each step.  This module has no *)
(* state.  It holds the parse gate that admits a proposal, the run of an   *)
(* admitted one (a stack, because a step may be a workflow of its own), its *)
(* price, and its grade.                                                   *)
(*                                                                         *)
(* A run is a record that waits for one call of the pool at a time; the    *)
(* After... operators give the run that waits for the next one, which is   *)
(* what the coroutine does between two awaits.                             *)
(***************************************************************************)
EXTENDS Integers, Sequences, FiniteSets, FiniteSetsExt, SequencesExt

CONSTANTS
    NWorkers,   \* models of the pool, numbered from 0
    MAX_STEPS,
    MaxDepth,   \* levels of recursive self-calls
    WorkerPrice,    \* dollars of a call of each worker
    ConductorModel  \* the worker model that also serves as a prompted Conductor

CONDUCTOR_KEY == -1

Workers == 0..NWorkers-1
Names == {CONDUCTOR_KEY} \cup Workers

ASSUME FuguAssumption ==
    /\ NWorkers \in Nat \ {0} /\ MAX_STEPS \in Nat \ {0} /\ MaxDepth \in Nat
    /\ WorkerPrice \in [Workers -> Nat] /\ ConductorModel \in Workers

-----------------------------------------------------------------------------
(* Python literals, as far as the parse gate tells them apart: the strings *)
(* are those it reads as "all", as no access, as a number, as blank, and   *)
(* the others.                                                             *)

PyInt(n)    == [k |-> "int", n |-> n, e |-> <<>>]
PyDigits(n) == [k |-> "digits", n |-> n, e |-> <<>>]
PyList(e)   == [k |-> "list", n |-> 0, e |-> e]
Py(kind)    == [k |-> kind, n |-> 0, e |-> <<>>]

IsText(v) == v.k \in {"all", "query", "digits", "text"}

\* A proposal is the sequence of its assignments, of which the scanner keeps
\* those whose value is a list literal.
Assign(key, list) == [key |-> key, isList |-> TRUE, list |-> list]

ListCandidates(text, key) == {p \in DOMAIN text : text[p].key = key /\ text[p].isList}

AllPrior == [ok |-> TRUE, all |-> TRUE, ids |-> {}]
Prior(s) == [ok |-> TRUE, all |-> FALSE, ids |-> s]
Rejected == [ok |-> FALSE, all |-> FALSE, ids |-> {}]

\* Variant: the indices of a list are not compared with the step's.
NormalizeAccessUnchecked(acc, i) ==
    LET Alone(kinds) == acc.k = "list" /\ Len(acc.e) = 1 /\ acc.e[1].k \in kinds
    IN CASE acc.k = "all" \/ Alone({"all"}) -> AllPrior
         [] acc.k \in {"none", "blank", "query"} \/ Alone({"blank", "query"}) -> Prior({})
         [] acc.k = "digits" -> Prior({acc.n})
         [] acc.k = "list" /\ \A v \in Range(acc.e) : v.k \in {"int", "digits"} ->
              Prior({v.n : v \in Range(acc.e)})
         [] OTHER -> Rejected

\* i is the index of the step, counted from 0.
NormalizeAccess(acc, i) ==
    LET Alone(kinds) == acc.k = "list" /\ Len(acc.e) = 1 /\ acc.e[1].k \in kinds
    IN CASE acc.k = "all" \/ Alone({"all"}) -> AllPrior
         [] acc.k \in {"none", "blank", "query"} \/ Alone({"blank", "query"}) -> Prior({})
         [] acc.k = "digits" /\ acc.n < i -> Prior({acc.n})
         [] /\ acc.k = "list"
            /\ \A v \in Range(acc.e) : v.k \in {"int", "digits"} /\ v.n \in 0..i-1
              -> Prior({v.n : v \in Range(acc.e)})
         [] OTHER -> Rejected

NoWorkflow == [ok |-> FALSE, steps |-> <<>>]

ValidateWorkflowLists(models, subtasks, access, allowSelf) ==
    LET n    == Len(models)
        acc  == IF access = <<>> /\ n = 1 THEN <<PyList(<<>>)>> ELSE access
        hi   == IF allowSelf THEN NWorkers ELSE NWorkers - 1
        norm == [i \in 1..n |-> NormalizeAccess(acc[i], i - 1)]
    IN IF /\ n \in 1..MAX_STEPS /\ Len(subtasks) = n /\ Len(acc) = n
          /\ \A i \in 1..n : /\ models[i].k = "int" /\ models[i].n \in 0..hi
                             /\ IsText(subtasks[i])
                             /\ norm[i].ok
       THEN [ok |-> TRUE,
             steps |-> [i \in 1..n |-> [model |-> models[i].n,
                                        all |-> norm[i].all, ids |-> norm[i].ids]]]
       ELSE NoWorkflow

\* The first triple of lists in the order of the text, the list of models
\* varying slowest, that is a workflow.
ParseWorkflow(text, allowSelf) ==
    LET Wf(c)   == ValidateWorkflowLists(text[c[1]].list, text[c[2]].list, text[c[3]].list,
                                         allowSelf)
        triples == {c \in ListCandidates(text, "model_id") \X ListCandidates(text, "subtasks")
                            \X ListCandidates(text, "access_list") :
                      c[1] < c[2] /\ c[2] < c[3] /\ Wf(c).ok}
        Before(c, d) == \/ c[1] < d[1]
                        \/ c[1] = d[1] /\ c[2] < d[2]
                        \/ c[1] = d[1] /\ c[2] = d[2] /\ c[3] <= d[3]
    IN IF triples = {} THEN NoWorkflow
       ELSE Wf(CHOOSE c \in triples : \A d \in triples : Before(c, d))

-----------------------------------------------------------------------------
(* Constrained decoding: the policy picks worker indices only.             *)

CanonicalWorkflow(ids) ==
    LET n == Len(ids)
    IN <<Assign("model_id", [i \in 1..n |-> PyInt(ids[i])]),
         Assign("subtasks", [i \in 1..n |-> Py("text")]),
         Assign("access_list", [i \in 1..n |-> IF i = n /\ n > 1 THEN Py("all")
                                               ELSE PyList(<<>>)])>>

\* The digits that the decoder may emit and the length at which it must close.
ConstrainedTexts ==
    LET hi == IF MaxDepth > 0 THEN NWorkers ELSE NWorkers - 1
    IN {CanonicalWorkflow(ids) : ids \in UNION {[1..n -> 0..hi] : n \in 1..MAX_STEPS}}

-----------------------------------------------------------------------------
(* Tokens: every call of a model counts as one.                            *)

NoTokens == [m \in Names |-> 0]

Accum(tokens, name) == [tokens EXCEPT ![name] = @ + 1]

\* x, a run or a workflow, with one more answered call.
Tallied(x, name) == [x EXCEPT !.tokens = Accum(@, name), !.calls = @ + 1]

SumTokens(frames) ==
    [m \in Names |-> SumFunction([k \in DOMAIN frames |-> frames[k].tokens[m]])]

SumCalls(frames) == SumFunction([k \in DOMAIN frames |-> frames[k].calls])

\* A Conductor that we serve ourselves costs nothing.
PriceTable(conductorLocal) ==
    [m \in Names |-> IF m \in Workers THEN WorkerPrice[m]
                     ELSE IF conductorLocal THEN 0 ELSE WorkerPrice[ConductorModel]]

RunCost(tokens, prices) == SumFunction([m \in Names |-> tokens[m] * prices[m]])

-----------------------------------------------------------------------------
(* The run of a workflow.                                                  *)

NoCall == [kind |-> "none", to |-> 0, reads |-> {}]

NewFrame(steps) == [steps |-> steps, outputs |-> <<>>, tokens |-> NoTokens, calls |-> 0]

Current(frame) == frame.steps[Len(frame.outputs) + 1]

\* The earlier outputs that the prompt of a step quotes, by index.
ContextBlock(step, outputs) ==
    {j \in 0..Len(outputs)-1 : step.all \/ j \in step.ids}

\* The call that the top frame of the stack makes for its current step.
NextCall(stack) ==
    LET frame == Last(stack)
        step  == Current(frame)
        self  == step.model = NWorkers
        reads == ContextBlock(step, frame.outputs)
    IN IF self /\ Len(stack) - 1 < MaxDepth
       THEN [kind |-> "propose", to |-> CONDUCTOR_KEY, reads |-> reads]
       ELSE [kind |-> "work", to |-> IF self THEN 0 ELSE step.model, reads |-> reads]

\* No run, and a run that waits for the Conductor's first proposal.
Idle == [call |-> NoCall, stack |-> <<>>, parsed |-> FALSE, outputs |-> <<>>,
         tokens |-> NoTokens, calls |-> 0]
Proposing == [Idle EXCEPT !.call = [kind |-> "propose", to |-> CONDUCTOR_KEY, reads |-> {}]]

Executing(run, stack) == [run EXCEPT !.stack = stack, !.call = NextCall(stack)]

Finished(run) == run # Idle /\ run.call = NoCall

\* Variant: a proposal that does not parse is not tallied.
AfterProposalUnpaid(run, text) ==
    LET wf   == ParseWorkflow(text, MaxDepth > 0)
        paid == [Tallied(run, CONDUCTOR_KEY) EXCEPT !.call = NoCall]
    IN IF wf.ok THEN Executing([paid EXCEPT !.parsed = TRUE], <<NewFrame(wf.steps)>>)
       ELSE [run EXCEPT !.call = NoCall]

\* The proposal is paid whether or not it parses.
AfterProposal(run, text) ==
    LET wf   == ParseWorkflow(text, MaxDepth > 0)
        paid == [Tallied(run, CONDUCTOR_KEY) EXCEPT !.call = NoCall]
    IN IF wf.ok THEN Executing([paid EXCEPT !.parsed = TRUE], <<NewFrame(wf.steps)>>)
       ELSE paid

\* A proposal for a step that is a workflow of its own; one that does not
\* parse leaves the step to worker 0.
AfterSubProposal(run, text) ==
    LET wf    == ParseWorkflow(text, TRUE)
        frame == Tallied(Last(run.stack), CONDUCTOR_KEY)
        stack == Append(Front(run.stack), frame)
    IN IF wf.ok THEN Executing(run, Append(stack, NewFrame(wf.steps)))
       ELSE [run EXCEPT !.stack = stack, !.call = [@ EXCEPT !.kind = "work", !.to = 0]]

\* A worker's answer is the output of the current step.  It is also the answer
\* of every workflow that this step ends, and so the output of the step that
\* opened it: those frames are popped and their tokens merged into the frame
\* below, which is the run itself when the last frame ends.
AfterWorker(run, output) ==
    LET n     == Len(run.stack)
        stack == [run.stack EXCEPT ![n] = Tallied(@, run.call.to)]
        Ends(k)  == Len(stack[k].outputs) + 1 = Len(stack[k].steps)
        below    == Max({0} \cup {k \in 1..n : ~Ends(k)})
        merged   == SubSeq(stack, Max({1, below}), n)
        bottom   == [stack[Max({1, below})] EXCEPT !.outputs = Append(@, output),
                                                   !.tokens = SumTokens(merged),
                                                   !.calls = SumCalls(merged)]
    IN IF below > 0 THEN Executing(run, Append(SubSeq(stack, 1, below - 1), bottom))
       ELSE [run EXCEPT !.call = NoCall, !.stack = <<>>, !.outputs = bottom.outputs,
                        !.tokens = [m \in Names |-> @[m] + bottom.tokens[m]],
                        !.calls = @ + bottom.calls]

-----------------------------------------------------------------------------
(* The grade.  A worker's output is "right", "wrong", or "none": no answer  *)
(* of the shape that the benchmark asks for.                               *)

Outputs == {"right", "wrong", "none"}

HasAnswer(output) == output # "none"

CommittedAnswer(run) ==
    LET answers == SelectSeq(run.outputs, HasAnswer)
    IN IF answers = <<>> THEN "none" ELSE Last(answers)

IsCorrect(run) == run.parsed /\ CommittedAnswer(run) = "right"

\* In halves.
TrainingReward(run) == IF ~run.parsed THEN 0 ELSE IF IsCorrect(run) THEN 2 ELSE 1

\* (r - mean) / std, times the positive n * std: a group that agrees is 0.
GroupAdvantages(rewards) ==
    LET n     == Len(rewards)
        total == SumFunction(rewards)
    IN [i \in DOMAIN rewards |-> n * rewards[i] - total]
===============================================================================
