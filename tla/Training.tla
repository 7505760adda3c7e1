------------------------------ MODULE Training ------------------------------
(***************************************************************************)
(* train.py: the ask / evaluate / tell loop over sep-CMA-ES, the shaped    *)
(* and reweighted fitness of a candidate, and the files a run leaves.      *)
(*                                                                         *)
(* A theta is <<generation, candidate>>.  Rewards are integers: a reward r *)
(* of the code is r * 100 * Turns1, so that a turn penalty stays whole.    *)
(***************************************************************************)
EXTENDS Rewards

CONSTANTS
    TrainTasks,    \* the tasks of the train split
    Benchmark,     \* [task -> benchmark]
    Reference,     \* [task -> reference]
    Trajectories,  \* complete trajectories, as sequences of turns
    PopSize,       \* lambda
    MCma,          \* m_cma: tasks in a minibatch
    BatchSize,     \* _BATCH_SIZE: trajectories in flight
    Generations,   \* T
    Budget,        \* max_turns K
    FormatBonus,   \* format_bonus and turn_penalty, in hundredths
    TurnPenalty,
    Reweight,      \* enable_reweight
    Weights        \* bound: values a weight may take, in tenths (5 to 20 in the code)

ASSUME TrainingAssumption ==
    /\ TrainTasks # {} /\ IsFiniteSet(TrainTasks)
    /\ {PopSize, MCma, BatchSize, Generations, Budget} \subseteq Nat \ {0}
    /\ {FormatBonus, TurnPenalty} \subseteq Nat
    /\ Reweight \in BOOLEAN
    /\ Weights \subseteq Nat \ {0} /\ IsFiniteSet(Weights) /\ Cardinality(Weights) >= MCma
    /\ \A turns \in Trajectories : turns \in Seq(Range(turns))

Failed == <<>>     \* an exception instead of a trajectory
NotYet == <<[role |-> "none", text |-> <<>>]>>
NoTheta == <<0, 0>>
Torn == <<-1, 0>>  \* a file that does not load

VARIABLES
    phase,       \* where the loop of train() is
    generation,  \* gen
    minibatch,   \* the tasks of this generation, per candidate
    slots,       \* trajectories of the candidate being evaluated, by position
    rows,        \* per-task rewards of the candidates evaluated in this generation
    told,        \* every [theta, fitness] given to tell
    best,        \* best() of the optimizer
    savedTheta,  \* best_theta.npy
    history,     \* the list written whole to history.json: the best fitness so far
    summary      \* summary.json: its best fitness and generations

trainVars == <<phase, generation, minibatch, slots, rows, told, best,
               savedTheta, history, summary>>

-----------------------------------------------------------------------------
(***************************************************************************)
(* Fitness                                                                 *)
(***************************************************************************)
Turns1 == IF Budget = 1 THEN 1 ELSE Budget - 1   \* max(1, max_turns - 1)
AtMost(a, b) == IF a < b THEN a ELSE b

shaped_reward(correct, hasAnswer, numTurns) ==
    100 * Turns1 * correct + Turns1 * FormatBonus * hasAnswer
        - TurnPenalty * AtMost(Turns1, numTurns - 1)

\* The bonus looks at the final answer, the grade at the committed one.
task_reward(task, turns) ==
    LET correct == score(Benchmark[task], turns, Reference[task])
        answered == has_answer(Benchmark[task], final_answer(turns))
    IN  shaped_reward(IF correct THEN 1 ELSE 0, IF answered THEN 1 ELSE 0, Len(turns))

Positions == 1..MCma

\* PopSize^2 times the variance of the rewards for the task at position j.
Variance(j) ==
    LET sum == SumFunction([c \in DOMAIN rows |-> rows[c][j]])
    IN  PopSize * SumFunction([c \in DOMAIN rows |-> rows[c][j] * rows[c][j]])
            - sum * sum

\* A sigmoid of the deviation: more weight to more variance, and uniform when
\* all tasks vary alike.
variance_reweight ==
    LET less == {p \in Positions \X Positions : Variance(p[1]) < Variance(p[2])}
        OrderedAlike(w) == {p \in Positions \X Positions : w[p[1]] < w[p[2]]} = less
    IN  IF Reweight /\ less # {} THEN {w \in [Positions -> Weights] : OrderedAlike(w)}
                                ELSE {[j \in Positions |-> 1]}

\* The weighted mean, in hundredths of the units of a reward.
candidate_fitness(row, w) ==
    (100 * SumFunction([j \in Positions |-> row[j] * w[j]]))
        \div SumFunction([j \in Positions |-> w[j]])

-----------------------------------------------------------------------------
(***************************************************************************)
(* The loop                                                                *)
(***************************************************************************)
Candidates == 1..PopSize
Waiting == [j \in Positions |-> NotYet]

\* Where a trajectory may be running: the first batch that is not done.
InFlight(j) ==
    /\ slots[j] = NotYet
    /\ \A i \in Positions : (i - 1) \div BatchSize < (j - 1) \div BatchSize => slots[i] # NotYet

\* Distinct tasks when there are enough.
Minibatches ==
    {mb \in [Positions -> TrainTasks] : MCma <= Cardinality(TrainTasks) => IsInjective(mb)}

TrainInit ==
    /\ phase = "ask" /\ generation = 1
    /\ minibatch = <<>> /\ rows = <<>>
    /\ slots = Waiting
    /\ told = {}
    /\ best = [theta |-> NoTheta, fitness |-> 0]
    /\ savedTheta = NoTheta /\ history = <<>> /\ summary = <<>>

\* Variant: every candidate draws a minibatch of its own.
AskEach ==
    /\ phase = "ask"
    /\ minibatch' \in [Candidates -> Minibatches]
    /\ rows' = <<>>
    /\ phase' = "evaluate"
    /\ UNCHANGED <<generation, slots, told, best, savedTheta, history, summary>>

\* All candidates of a generation are given one minibatch.
Ask ==
    /\ phase = "ask"
    /\ \E mb \in Minibatches : minibatch' = [c \in Candidates |-> mb]
    /\ rows' = <<>>
    /\ phase' = "evaluate"
    /\ UNCHANGED <<generation, slots, told, best, savedTheta, history, summary>>

\* A trajectory returns or raises.
TrajectoryEnds(j, turns) ==
    /\ phase = "evaluate" /\ InFlight(j)
    /\ slots' = [slots EXCEPT ![j] = turns]
    /\ UNCHANGED <<phase, generation, minibatch, rows, told, best, savedTheta,
                   history, summary>>

\* gather waits for all of them, whatever they return.
Gathered == \A j \in Positions : slots[j] # NotYet

CandidateDone ==
    /\ phase = "evaluate" /\ Gathered
    /\ LET tasks == minibatch[Len(rows) + 1]
       IN  rows' = Append(rows, [j \in Positions |->
               IF slots[j] = Failed THEN 0 ELSE task_reward(tasks[j], slots[j])])
    /\ slots' = Waiting
    /\ phase' = IF Len(rows') = PopSize THEN "tell" ELSE "evaluate"
    /\ UNCHANGED <<generation, minibatch, told, best, savedTheta, history, summary>>

\* The incumbent changes only for a strictly better fitness; among equally good
\* candidates of one generation the library may take any.
Incumbents(tellings) ==
    LET known == IF best.theta = NoTheta THEN {} ELSE {best}
    IN  {t \in tellings \cup known :
            /\ \A u \in tellings \cup known : u.fitness <= t.fitness
            /\ \A k \in known : t = k \/ k.fitness < t.fitness}

Tell ==
    /\ phase = "tell"
    /\ \E w \in variance_reweight :
         \E fits \in {[c \in Candidates |-> candidate_fitness(rows[c], w)]} :
           LET tellings == {[theta |-> <<generation, c>>, fitness |-> fits[c]] : c \in Candidates}
           IN  told' = told \cup tellings /\ best' \in Incumbents(tellings)
    /\ phase' = "save"
    /\ UNCHANGED <<generation, minibatch, slots, rows, savedTheta, history, summary>>

\* np.save, then the history; stop() may end the loop before the last generation.
SaveTheta ==
    /\ phase = "save"
    /\ savedTheta' = best.theta
    /\ phase' = "record"
    /\ minibatch' = <<>> /\ rows' = <<>>   \* no longer needed
    /\ UNCHANGED <<generation, slots, told, best, history, summary>>

SaveHistory ==
    /\ phase = "record"
    /\ history' = Append(history, best.fitness)
    /\ generation' = generation + 1
    /\ \/ phase' = "ask" /\ generation < Generations
       \/ phase' = "finish"
    /\ UNCHANGED <<minibatch, slots, rows, told, best, savedTheta, summary>>

Finish ==
    /\ phase = "finish"
    /\ savedTheta' = best.theta
    /\ summary' = <<best.fitness, generation - 1>>
    /\ phase' = "end"
    /\ UNCHANGED <<generation, minibatch, slots, rows, told, best, history>>

\* The process dies; inside np.save the file is left truncated.
Crash ==
    /\ phase # "end"
    /\ phase' = "end"
    /\ \/ UNCHANGED savedTheta
       \/ phase \in {"save", "finish"} /\ savedTheta' = Torn
    /\ UNCHANGED <<generation, minibatch, slots, rows, told, best, history, summary>>

TrainNext ==
    \/ Ask
    \/ \E j \in Positions, turns \in Trajectories \cup {Failed} : TrajectoryEnds(j, turns)
    \/ CandidateDone \/ Tell \/ SaveTheta \/ SaveHistory \/ Finish \/ Crash

TrainDone == phase = "end"

-----------------------------------------------------------------------------
\* Common random numbers (train.py:135-139): a candidate that is nowhere beaten
\* on a task by another one is never ranked below it, whatever the weights.
RankedByQuality ==
    phase = "save" =>
        \A t, u \in {x \in told : x.theta[1] = generation} :
            LET c == t.theta[2]  d == u.theta[2]
            IN  (\A i, j \in Positions :
                    minibatch[c][i] = minibatch[d][j] => rows[c][i] >= rows[d][j])
                => t.fitness >= u.fitness

BestUpTo(t, n) ==
    t \in told /\ t.theta[1] <= n
        /\ \A u \in told : u.theta[1] <= n => u.fitness <= t.fitness

\* At any moment, a crash included: the theta on disk, if the file loads, is the
\* best of the generations in the history, or of one more; the history holds
\* the best fitness so far; and the summary describes the theta beside it.
SavedIsBest ==
    /\ savedTheta \in {NoTheta, Torn} \/
           \E t \in told, n \in {Len(history), Len(history) + 1} :
               t.theta = savedTheta /\ BestUpTo(t, n)
    /\ \A n \in DOMAIN history : \E t \in told : t.fitness = history[n] /\ BestUpTo(t, n)
    /\ summary # <<>> =>
           \E t \in told : /\ t = [theta |-> savedTheta, fitness |-> summary[1]]
                           /\ BestUpTo(t, summary[2]) /\ summary[2] = Len(history)

SelectionIsSound == RankedByQuality /\ SavedIsBest

TrainSpec == TrainInit /\ [][TrainNext]_trainVars
=============================================================================
