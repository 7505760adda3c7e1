--------------------------- MODULE TrainingProofs ---------------------------
(***************************************************************************)
(* What the training loop keeps, for every population, minibatch, number   *)
(* of generations and fitness: the shaped reward never puts a wrong        *)
(* trajectory above a right one, a candidate that none beats on any task   *)
(* is not ranked below, and the files always hold the best theta told.     *)
(***************************************************************************)
EXTENDS Training, SumsProofs, SequenceTheorems

-----------------------------------------------------------------------------
(***************************************************************************)
(* The shaped reward                                                       *)
(***************************************************************************)
LEMMA Turns1Positive == Turns1 \in Nat /\ Turns1 > 0
BY TrainingAssumption DEF Turns1

LEMMA PenaltyBounded ==
    ASSUME NEW n \in Nat, n > 0
    PROVE  /\ AtMost(Turns1, n - 1) \in Nat
           /\ AtMost(Turns1, n - 1) <= Turns1
BY Turns1Positive DEF AtMost

\* shaped_reward (fitness.py:122-125): while bonus and penalty together stay
\* below the reward of a right answer, every right trajectory is worth more than
\* every wrong one, whatever their answers and numbers of turns.
THEOREM CorrectOutranksWrong ==
    ASSUME FormatBonus + TurnPenalty < 100,
           NEW a \in {0, 1}, NEW m \in Nat, m > 0,
           NEW b \in {0, 1}, NEW n \in Nat, n > 0
    PROVE  shaped_reward(1, a, m) > shaped_reward(0, b, n)
<1> DEFINE T == Turns1  F == FormatBonus  P == TurnPenalty
           x == AtMost(Turns1, m - 1)  y == AtMost(Turns1, n - 1)
<1>1. /\ T \in Nat /\ T > 0 /\ F \in Nat /\ P \in Nat
      /\ x \in Nat /\ x <= T /\ y \in Nat
  BY Turns1Positive, PenaltyBounded, TrainingAssumption
<1>2. shaped_reward(1, a, m) = 100 * T + T * F * a - P * x
  BY <1>1 DEF shaped_reward
<1>3. shaped_reward(0, b, n) = T * F * b - P * y
  BY <1>1 DEF shaped_reward
<1> HIDE DEF T, F, P, x, y
<1>4. T * F \in Nat /\ P * x \in Nat /\ P * y \in Nat /\ P * T \in Nat
  BY <1>1
<1>5. T * F * a >= 0 /\ T * F * b <= T * F
  BY <1>4
<1>6. P * x <= P * T
  BY <1>1
<1>7. T * F + P * T < 100 * T
  <2>1. T * F + P * T = (F + P) * T
    BY <1>1
  <2>2. F + P \in Nat /\ F + P < 100
    BY <1>1 DEF F, P
  <2>3. (F + P) * T < 100 * T
    BY <1>1, <2>2
  <2> QED BY <2>1, <2>3
<1>8. 100 * T + T * F * a - P * x > T * F * b - P * y
  BY <1>1, <1>4, <1>5, <1>6, <1>7
<1> QED BY <1>2, <1>3, <1>8

-----------------------------------------------------------------------------
(***************************************************************************)
(* The comparison                                                          *)
(***************************************************************************)
Rows == [Positions -> Int]

\* The candidates of a generation are compared on the same tasks, and each has
\* a reward for every one of them.
Compared ==
    /\ slots \in [Positions -> Trajectories \cup {Failed, NotYet}]
    /\ rows \in Seq(Rows)
    /\ phase \in {"evaluate", "tell", "save"} => \E mb : minibatch = [c \in Candidates |-> mb]
    /\ phase = "evaluate" => Len(rows) < PopSize
    /\ phase \in {"tell", "save"} => Len(rows) = PopSize

LEMMA PositionsFinite == IsFiniteSet(Positions) /\ 1 \in Positions
<1>1. MCma \in Nat /\ MCma > 0
  BY TrainingAssumption
<1> QED BY <1>1, FS_Interval DEF Positions

LEMMA RewardInt ==
    ASSUME NEW task, NEW turns \in Trajectories
    PROVE  task_reward(task, turns) \in Int
<1> DEFINE T == Turns1  F == FormatBonus  P == TurnPenalty  n == Len(turns)
           x == AtMost(T, n - 1)
<1>1. T \in Int /\ F \in Int /\ P \in Int
  BY Turns1Positive, TrainingAssumption
<1>2. n \in Nat
  BY TrainingAssumption, LenProperties
<1>3. x \in Int
  BY <1>1, <1>2 DEF AtMost
<1>4. \A c, a \in Int : 100 * T * c + T * F * a - P * x \in Int
  <2> HIDE DEF T, F, P, x
  <2>1. \A i, j \in Int : i * j \in Int /\ i + j \in Int /\ i - j \in Int
    OBVIOUS
  <2> SUFFICES ASSUME NEW c \in Int, NEW a \in Int PROVE 100 * T * c + T * F * a - P * x \in Int
    OBVIOUS
  <2>2. 100 * T * c \in Int /\ T * F * a \in Int /\ P * x \in Int
    <3>1. 100 * T \in Int /\ T * F \in Int
      BY <1>1, <2>1
    <3> QED BY <1>1, <1>3, <2>1, <3>1
  <2> QED BY <2>1, <2>2
<1>5. \A c, a \in {0, 1} : shaped_reward(c, a, n) \in Int
  <2>1. \A c, a : shaped_reward(c, a, n) = 100 * T * c + T * F * a - P * x
    BY DEF shaped_reward
  <2> HIDE DEF T, F, P, x, n
  <2> QED BY <1>4, <2>1
<1> DEFINE correct == score(Benchmark[task], turns, Reference[task])
           answered == has_answer(Benchmark[task], final_answer(turns))
<1>6. task_reward(task, turns) = shaped_reward(IF correct THEN 1 ELSE 0, IF answered THEN 1 ELSE 0, n)
  BY DEF task_reward
<1> HIDE DEF correct, answered, n
<1> QED BY <1>5, <1>6

LEMMA WeightsPositive == variance_reweight \subseteq [Positions -> Nat \ {0}]
<1> DEFINE less == {p \in Positions \X Positions : Variance(p[1]) < Variance(p[2])}
           Alike(w) == {p \in Positions \X Positions : w[p[1]] < w[p[2]]} = less
           go == Reweight /\ less # {}
<1>1. variance_reweight = IF go THEN {w \in [Positions -> Weights] : Alike(w)}
                                ELSE {[j \in Positions |-> 1]}
  BY DEF variance_reweight
<1> HIDE DEF Alike, go
<1>2. Weights \subseteq Nat \ {0}
  BY TrainingAssumption
<1>3. [j \in Positions |-> 1] \in [Positions -> Nat \ {0}]
  OBVIOUS
<1>4. [Positions -> Weights] \subseteq [Positions -> Nat \ {0}]
  BY <1>2
<1> QED BY <1>1, <1>3, <1>4

\* The weighted mean of greater rewards is not less, whatever the weights.
LEMMA FitnessMonotone ==
    ASSUME NEW w \in [Positions -> Nat \ {0}], NEW a \in Rows, NEW b \in Rows,
           \A j \in Positions : b[j] <= a[j]
    PROVE  /\ candidate_fitness(b, w) \in Int /\ candidate_fitness(a, w) \in Int
           /\ candidate_fitness(b, w) <= candidate_fitness(a, w)
<1> DEFINE f == [j \in Positions |-> a[j] * w[j]]
           g == [j \in Positions |-> b[j] * w[j]]
           h == [j \in Positions |-> w[j]]
           x == SumFunctionOnSet(f, Positions)
           y == SumFunctionOnSet(g, Positions)
           z == SumFunctionOnSet(h, Positions)
<1>1. candidate_fitness(a, w) = (100 * x) \div z /\ candidate_fitness(b, w) = (100 * y) \div z
  BY DEF candidate_fitness, SumFunction, SumFunctionOnSet
<1>2. \A j \in Positions : g[j] \in Int /\ f[j] \in Int /\ g[j] <= f[j]
  <2> SUFFICES ASSUME NEW j \in Positions
               PROVE  b[j] * w[j] \in Int /\ a[j] * w[j] \in Int /\ b[j] * w[j] <= a[j] * w[j]
    OBVIOUS
  <2> DEFINE p == a[j]
             q == b[j]
             v == w[j]
  <2>1. p \in Int /\ q \in Int /\ v \in Nat /\ q <= p
    BY DEF Rows
  <2> HIDE DEF p, q, v
  <2>2. q * v \in Int /\ p * v \in Int /\ q * v <= p * v
    BY <2>1
  <2> QED BY <2>2 DEF p, q, v
<1>3. \A j \in Positions : h[j] \in Nat /\ h[j] > 0
  OBVIOUS
<1> HIDE DEF f, g, h
<1>4. x \in Int /\ y \in Int /\ y <= x
  BY <1>2, PositionsFinite, SumInt, SumMonotone
<1>5. z \in Nat \ {0}
  <2>1. z \in Nat /\ h[1] <= z
    BY <1>3, PositionsFinite, SumNat, SumBounds
  <2>2. h[1] \in Nat /\ h[1] > 0
    BY <1>3, PositionsFinite
  <2> QED BY <2>1, <2>2
<1> HIDE DEF x, y, z
<1>6. 100 * x \in Int /\ 100 * y \in Int /\ 100 * y <= 100 * x
  BY <1>4
<1> DEFINE xx == 100 * x
           yy == 100 * y
<1> HIDE DEF xx, yy
<1>7. yy \div z <= xx \div z
  BY <1>5, <1>6, QuotientMonotone DEF xx, yy
<1>8. yy \div z \in Int /\ xx \div z \in Int
  BY <1>5, <1>6, DivMod DEF xx, yy
<1> QED BY <1>1, <1>7, <1>8 DEF xx, yy

LEMMA InitCompared == TrainInit => Compared
<1> SUFFICES ASSUME TrainInit PROVE Compared
  OBVIOUS
<1>1. phase = "ask" /\ slots = [j \in Positions |-> NotYet] /\ rows = <<>>
  BY DEF TrainInit, Waiting
<1>2. rows \in Seq(Rows)
  BY <1>1, EmptySeq
<1> QED BY <1>1, <1>2 DEF Compared

\* What a candidate is given for its trajectories.
LEMMA CandidateCompared == ASSUME Compared, CandidateDone PROVE Compared'
<1> DEFINE tasks == minibatch[Len(rows) + 1]
           row == [j \in Positions |-> IF slots[j] = Failed THEN 0 ELSE task_reward(tasks[j], slots[j])]
<1>1. /\ phase = "evaluate" /\ rows' = Append(rows, row)
      /\ slots' = [j \in Positions |-> NotYet] /\ minibatch' = minibatch
      /\ phase' = IF Len(rows') = PopSize THEN "tell" ELSE "evaluate"
  BY DEF CandidateDone, Waiting
<1>2. row \in Rows
  <2>1. \A j \in Positions : slots[j] \in Trajectories \cup {Failed}
    BY DEF Compared, CandidateDone, Gathered
  <2>2. \A j \in Positions : slots[j] # Failed => task_reward(tasks[j], slots[j]) \in Int
    BY <2>1, RewardInt
  <2>3. \A j \in Positions : row[j] \in Int
    BY <2>2
  <2> QED BY <2>3 DEF Rows
<1> HIDE DEF row
<1>3. rows \in Seq(Rows) /\ Len(rows) < PopSize /\ PopSize \in Nat
  BY <1>1, TrainingAssumption DEF Compared
<1>4. rows' \in Seq(Rows) /\ Len(rows') = Len(rows) + 1 /\ Len(rows) \in Nat
  BY <1>1, <1>2, <1>3, AppendProperties, LenProperties
<1>5. slots' \in [Positions -> Trajectories \cup {Failed, NotYet}]
  BY <1>1
<1>6. \E mb : minibatch' = [c \in Candidates |-> mb]
  BY <1>1 DEF Compared
<1> QED BY <1>1, <1>3, <1>4, <1>5, <1>6 DEF Compared, Candidates

LEMMA NextCompared == ASSUME Compared, [TrainNext]_trainVars PROVE Compared'
<1>1. CASE Ask
  <2>1. /\ phase' = "evaluate" /\ rows' = <<>> /\ slots' = slots
        /\ \E mb : minibatch' = [c \in Candidates |-> mb]
    BY <1>1 DEF Ask
  <2>2. PopSize \in Nat /\ PopSize > 0 /\ Len(<<>>) = 0 /\ <<>> \in Seq(Rows)
    BY TrainingAssumption, EmptySeq
  <2> QED BY <2>1, <2>2 DEF Compared, Candidates
<1>2. ASSUME NEW j \in Positions, NEW turns \in Trajectories \cup {Failed}, TrajectoryEnds(j, turns)
      PROVE  Compared'
  <2>1. slots' = [slots EXCEPT ![j] = turns] /\ UNCHANGED <<phase, minibatch, rows>>
    BY <1>2 DEF TrajectoryEnds
  <2>2. slots' \in [Positions -> Trajectories \cup {Failed, NotYet}]
    BY <2>1 DEF Compared
  <2> QED BY <2>1, <2>2 DEF Compared, Candidates
<1>3. CASE Tell
  <2>1. phase = "tell" /\ phase' = "save" /\ UNCHANGED <<minibatch, slots, rows>>
    BY <1>3 DEF Tell
  <2> QED BY <2>1 DEF Compared, Candidates
<1>4. CASE SaveTheta
  <2>1. phase' = "record" /\ rows' = <<>> /\ slots' = slots /\ <<>> \in Seq(Rows)
    BY <1>4, EmptySeq DEF SaveTheta
  <2> QED BY <2>1 DEF Compared
<1>5. CASE SaveHistory \/ Finish \/ Crash
  <2>1. phase' \in {"ask", "finish", "end"} /\ UNCHANGED <<slots, rows>>
    BY <1>5 DEF SaveHistory, Finish, Crash
  <2> QED BY <2>1 DEF Compared
<1>6. CASE UNCHANGED trainVars
  BY <1>6 DEF trainVars, Compared, Candidates
<1> QED BY <1>1, <1>2, <1>3, <1>4, <1>5, <1>6, CandidateCompared DEF TrainNext

LEMMA ComparedHolds == TrainSpec => []Compared
<1>1. Compared /\ [TrainNext]_trainVars => Compared'
  BY NextCompared
<1> QED BY <1>1, InitCompared, PTL DEF TrainSpec

\* So what tell is given are numbers.
LEMMA FitnessInt ==
    ASSUME Compared, phase = "tell", NEW w \in variance_reweight
    PROVE  [c \in Candidates |-> candidate_fitness(rows[c], w)] \in [Candidates -> Int]
<1>1. \A c \in Candidates : rows[c] \in Rows
  BY DEF Compared, Candidates
<1>2. w \in [Positions -> Nat \ {0}]
  BY WeightsPositive
<1>3. \A c \in Candidates : \A j \in Positions : rows[c][j] <= rows[c][j]
  BY <1>1 DEF Rows
<1>4. \A c \in Candidates : candidate_fitness(rows[c], w) \in Int
  BY <1>1, <1>2, <1>3, FitnessMonotone
<1> QED BY <1>4

-----------------------------------------------------------------------------
(***************************************************************************)
(* The files                                                               *)
(***************************************************************************)
Told == [theta : (Nat \ {0}) \X Nat, fitness : Int]

Types ==
    /\ phase \in {"ask", "evaluate", "tell", "save", "record", "finish", "end"}
    /\ generation \in Nat \ {0}
    /\ told \subseteq Told
    /\ history \in Seq(Int) /\ Len(history) = generation - 1

\* What was told belongs to the generations so far, and before tell to the
\* earlier ones alone.
ToldSoFar ==
    \A t \in told : /\ t.theta[1] <= generation
                    /\ phase \in {"ask", "evaluate", "tell", "finish"} => t.theta[1] < generation

Incumbent == best \in told /\ \A u \in told : u.fitness <= best.fitness

BestIsIncumbent ==
    /\ IF told = {} THEN best.theta = NoTheta ELSE Incumbent
    /\ phase \in {"save", "record", "finish"} => Incumbent
    /\ phase = "record" => savedTheta = best.theta
    /\ phase # "end" => summary = <<>>

Inv == Types /\ ToldSoFar /\ BestIsIncumbent /\ SavedIsBest

LEMMA InitInv == TrainInit => Inv
BY TrainingAssumption
   DEF TrainInit, Inv, Types, ToldSoFar, BestIsIncumbent, SavedIsBest

\* SavedIsBest reads nothing but these variables.
LEMMA FilesUnchanged ==
    ASSUME SavedIsBest, UNCHANGED <<told, savedTheta, history, summary>>
    PROVE  SavedIsBest'
BY DEF SavedIsBest, BestUpTo

\* While told, best, history and files stay and the generation goes on, only a
\* phase whose claims hold already may be entered.
LEMMA QuietStep ==
    ASSUME Inv, UNCHANGED <<generation, told, best, savedTheta, history, summary>>,
           phase \in {"ask", "evaluate"}, phase' \in {"evaluate", "tell"}
    PROVE  Inv'
<1>1. SavedIsBest'
  BY FilesUnchanged DEF Inv
<1>2. Types' /\ ToldSoFar'
  BY DEF Inv, Types, ToldSoFar
<1>3. BestIsIncumbent'
  BY DEF Inv, BestIsIncumbent, Incumbent
<1> QED BY <1>1, <1>2, <1>3 DEF Inv

\* The incumbent after a tell: of those told now, or the one before.
LEMMA TellInv == ASSUME Inv, Compared, Tell PROVE Inv'
<1>1. PICK fits \in [Candidates -> Int] :
        LET tellings == {[theta |-> <<generation, c>>, fitness |-> fits[c]] : c \in Candidates}
        IN  told' = told \cup tellings /\ best' \in Incumbents(tellings)
  <2>1. PICK w \in variance_reweight :
          \E fits \in {[c \in Candidates |-> candidate_fitness(rows[c], w)]} :
            LET tellings == {[theta |-> <<generation, c>>, fitness |-> fits[c]] : c \in Candidates}
            IN  told' = told \cup tellings /\ best' \in Incumbents(tellings)
    BY DEF Tell
  <2> DEFINE fits == [c \in Candidates |-> candidate_fitness(rows[c], w)]
  <2>2. fits \in [Candidates -> Int]
    BY FitnessInt DEF Tell
  <2> QED BY <2>1, <2>2
<1>2. PICK tellings : tellings = {[theta |-> <<generation, c>>, fitness |-> fits[c]] : c \in Candidates}
  OBVIOUS
<1>3. told' = told \cup tellings /\ best' \in Incumbents(tellings)
  BY <1>1, <1>2
<1>4. /\ phase = "tell" /\ phase' = "save"
      /\ UNCHANGED <<generation, savedTheta, history, summary>>
  BY DEF Tell
<1>5. Types /\ ToldSoFar /\ BestIsIncumbent /\ SavedIsBest
  BY DEF Inv
<1>6. \A t \in tellings : t \in Told /\ t.theta[1] = generation
  <2>1. generation \in Nat \ {0}
    BY <1>5 DEF Types
  <2>2. \A c \in Candidates : c \in Nat /\ fits[c] \in Int
    BY TrainingAssumption DEF Candidates
  <2> QED BY <2>1, <2>2, <1>2 DEF Told
<1>7. \A t \in told : t.theta[1] < generation
  BY <1>4, <1>5 DEF ToldSoFar
<1>8. Types'
  BY <1>3, <1>4, <1>5, <1>6 DEF Types
<1>9. ToldSoFar'
  <2>1. \A t \in told' : t.theta[1] <= generation
    BY <1>3, <1>6, <1>7, <1>5, <1>8 DEF Types, Told
  <2> QED BY <2>1, <1>4 DEF ToldSoFar
<1>10. \A t \in told : t \in Told
  BY <1>5 DEF Types
<1>11. BestIsIncumbent'
  <2>1. Incumbent'
    <3>1. CASE best.theta = NoTheta
      <4>1. told = {}
        <5>1. \A t \in told : t.theta # NoTheta
          BY <1>10 DEF Told, NoTheta
        <5> QED BY <5>1, <3>1, <1>5 DEF BestIsIncumbent, Incumbent
      <4>2. best' \in tellings /\ \A u \in tellings : u.fitness <= best'.fitness
        BY <1>3, <3>1 DEF Incumbents
      <4> QED BY <4>1, <4>2, <1>3 DEF Incumbent
    <3>2. CASE best.theta # NoTheta
      <4>1. best \in told /\ \A u \in told : u.fitness <= best.fitness
        BY <3>2, <1>5 DEF BestIsIncumbent, Incumbent
      <4>2. /\ best' \in tellings \cup {best}
            /\ \A u \in tellings \cup {best} : u.fitness <= best'.fitness
        BY <1>3, <3>2 DEF Incumbents
      <4>3. best' \in told'
        BY <4>1, <4>2, <1>3
      <4>4. ASSUME NEW u \in told' PROVE u.fitness <= best'.fitness
        <5>1. CASE u \in tellings
          BY <4>2, <5>1
        <5>2. CASE u \in told
          <6>1. u.fitness <= best.fitness /\ best.fitness <= best'.fitness
            BY <5>2, <4>1, <4>2
          <6>2. u.fitness \in Int /\ best.fitness \in Int /\ best'.fitness \in Int
            BY <5>2, <4>1, <4>2, <1>6, <1>10 DEF Told
          <6> QED BY <6>1, <6>2
        <5> QED BY <5>1, <5>2, <1>3
      <4> QED BY <4>3, <4>4 DEF Incumbent
    <3> QED BY <3>1, <3>2
  <2> QED BY <2>1, <1>4, <1>5 DEF BestIsIncumbent, Incumbent
<1>12. \A t : \A n \in Nat : n < generation /\ BestUpTo(t, n) => BestUpTo(t, n)'
  <2> SUFFICES ASSUME NEW t, NEW n \in Nat, n < generation, BestUpTo(t, n)
               PROVE  BestUpTo(t, n)'
    OBVIOUS
  <2>1. \A u \in told' : u.theta[1] <= n => u \in told
    <3>1. \A u \in tellings : ~(u.theta[1] <= n)
      BY <1>6, <1>5 DEF Types
    <3> QED BY <3>1, <1>3
  <2> QED BY <2>1, <1>3 DEF BestUpTo
<1>13. SavedIsBest'
  <2>1. Len(history) \in Nat /\ Len(history) + 1 = generation /\ generation \in Nat
    BY <1>5 DEF Types
  <2>2. savedTheta \in {NoTheta, Torn} \/
          \E t \in told', n \in {Len(history), Len(history) + 1} :
              t.theta = savedTheta /\ BestUpTo(t, n)'
    <3>1. CASE savedTheta \in {NoTheta, Torn}
      BY <3>1
    <3>2. CASE savedTheta \notin {NoTheta, Torn}
      <4>1. PICK t \in told, n \in {Len(history), Len(history) + 1} :
              t.theta = savedTheta /\ BestUpTo(t, n)
        BY <3>2, <1>5 DEF SavedIsBest
      <4>2. BestUpTo(t, Len(history))
        <5>1. t.theta[1] \in Nat /\ t.theta[1] < generation
          BY <1>7, <1>10 DEF Told
        <5>2. \A u \in told : u.theta[1] <= Len(history) => u.theta[1] <= n
          BY <2>1, <1>10 DEF Told
        <5> QED BY <4>1, <5>1, <5>2, <2>1 DEF BestUpTo
      <4>3. PICK k \in Nat : k = Len(history)
        BY <2>1
      <4>4. BestUpTo(t, k)'
        BY <4>2, <4>3, <1>12, <2>1
      <4> QED BY <4>1, <4>3, <4>4, <1>3
    <3> QED BY <3>1, <3>2
  <2>3. \A n \in DOMAIN history : \E t \in told' : t.fitness = history[n] /\ BestUpTo(t, n)'
    <3>1. TAKE n \in DOMAIN history
    <3>2. n \in Nat /\ n < generation
      BY <2>1, <1>5 DEF Types
    <3>3. PICK t \in told : t.fitness = history[n] /\ BestUpTo(t, n)
      BY <1>5 DEF SavedIsBest
    <3> QED BY <3>2, <3>3, <1>12, <1>3
  <2>4. summary = <<>>
    BY <1>4, <1>5 DEF BestIsIncumbent
  <2> QED BY <2>2, <2>3, <2>4, <1>4 DEF SavedIsBest, BestUpTo
<1> QED BY <1>8, <1>9, <1>11, <1>13 DEF Inv

\* The phases after a tell: everything told is of the generations up to this one.
LEMMA BestOfAll ==
    ASSUME Inv, phase \in {"save", "record", "finish"},
           NEW n \in Nat, \A t \in told : t.theta[1] <= n
    PROVE  best \in told /\ BestUpTo(best, n)
BY DEF Inv, BestIsIncumbent, Incumbent, BestUpTo

LEMMA SaveThetaInv == ASSUME Inv, SaveTheta PROVE Inv'
<1>1. /\ phase = "save" /\ phase' = "record" /\ savedTheta' = best.theta
      /\ UNCHANGED <<generation, told, best, history, summary>>
  BY DEF SaveTheta
<1>2. Types' /\ ToldSoFar' /\ BestIsIncumbent'
  BY <1>1 DEF Inv, Types, ToldSoFar, BestIsIncumbent, Incumbent
<1>3. generation \in Nat /\ generation = Len(history) + 1
  BY DEF Inv, Types
<1>4. best \in told /\ BestUpTo(best, generation)
  BY <1>1, <1>3, BestOfAll DEF Inv, ToldSoFar
<1>5. SavedIsBest'
  BY <1>1, <1>3, <1>4 DEF Inv, SavedIsBest, BestUpTo, BestIsIncumbent
<1> QED BY <1>2, <1>5 DEF Inv

LEMMA SaveHistoryInv == ASSUME Inv, SaveHistory PROVE Inv'
<1>1. /\ phase = "record" /\ phase' \in {"ask", "finish"}
      /\ history' = Append(history, best.fitness) /\ generation' = generation + 1
      /\ UNCHANGED <<told, best, savedTheta, summary>>
  BY DEF SaveHistory
<1>2. /\ generation \in Nat \ {0} /\ generation = Len(history) + 1 /\ history \in Seq(Int)
      /\ told \subseteq Told /\ \A t \in told : t.theta[1] <= generation
      /\ savedTheta = best.theta /\ summary = <<>>
  BY <1>1 DEF Inv, Types, ToldSoFar, BestIsIncumbent
<1>3. best \in told /\ BestUpTo(best, generation)
  BY <1>1, <1>2, BestOfAll
<1>4. best.fitness \in Int
  BY <1>2, <1>3 DEF Told
<1>5. /\ history' \in Seq(Int) /\ Len(history') = generation
      /\ \A n \in DOMAIN history : history'[n] = history[n]
      /\ history'[generation] = best.fitness /\ DOMAIN history' = 1..generation
      /\ DOMAIN history = 1..(generation - 1)
  BY <1>1, <1>2, <1>4
<1>6. Types'
  BY <1>1, <1>2, <1>5 DEF Types
<1>7. ToldSoFar'
  <2>1. \A t \in told : t.theta[1] \in Nat
    BY <1>2 DEF Told
  <2> QED BY <2>1, <1>1, <1>2 DEF ToldSoFar
<1>8. BestIsIncumbent'
  BY <1>1, <1>2, <1>3 DEF Inv, BestIsIncumbent, Incumbent
<1>9. \A n \in DOMAIN history' : \E t \in told : t.fitness = history'[n] /\ BestUpTo(t, n)
  <2>1. TAKE n \in DOMAIN history'
  <2>2. CASE n = generation
    BY <2>2, <1>3, <1>5
  <2>3. CASE n # generation
    <3>1. n \in DOMAIN history
      BY <2>1, <2>3, <1>2, <1>5
    <3> QED BY <3>1, <1>5 DEF Inv, SavedIsBest
  <2> QED BY <2>2, <2>3
<1>10. SavedIsBest'
  BY <1>1, <1>2, <1>3, <1>5, <1>9 DEF SavedIsBest, BestUpTo
<1> QED BY <1>6, <1>7, <1>8, <1>10 DEF Inv

LEMMA FinishInv == ASSUME Inv, Finish PROVE Inv'
<1>1. /\ phase = "finish" /\ phase' = "end" /\ savedTheta' = best.theta
      /\ summary' = <<best.fitness, generation - 1>>
      /\ UNCHANGED <<generation, told, best, history>>
  BY DEF Finish
<1>2. /\ generation \in Nat \ {0} /\ Len(history) = generation - 1 /\ told \subseteq Told
      /\ \A t \in told : t.theta[1] < generation
  BY <1>1 DEF Inv, Types, ToldSoFar
<1>3. PICK n \in Nat : n = generation - 1
  BY <1>2
<1>4. \A t \in told : t.theta[1] <= n
  <2>1. \A t \in told : t.theta[1] \in Nat
    BY <1>2 DEF Told
  <2> QED BY <2>1, <1>2, <1>3
<1>5. best \in told /\ BestUpTo(best, n)
  BY <1>1, <1>4, BestOfAll
<1>6. Types' /\ ToldSoFar' /\ BestIsIncumbent'
  BY <1>1 DEF Inv, Types, ToldSoFar, BestIsIncumbent, Incumbent
<1>7. best = [theta |-> best.theta, fitness |-> best.fitness]
  BY <1>2, <1>5 DEF Told
<1>8. \E t \in told : /\ t = [theta |-> savedTheta', fitness |-> summary'[1]]
                      /\ BestUpTo(t, summary'[2]) /\ summary'[2] = Len(history)
  BY <1>1, <1>2, <1>3, <1>5, <1>7
<1>9. SavedIsBest'
  BY <1>1, <1>2, <1>3, <1>5, <1>8 DEF Inv, SavedIsBest, BestUpTo
<1> QED BY <1>6, <1>9 DEF Inv

LEMMA CrashInv == ASSUME Inv, Crash PROVE Inv'
<1>1. /\ phase # "end" /\ phase' = "end" /\ (savedTheta' = savedTheta \/ savedTheta' = Torn)
      /\ UNCHANGED <<generation, told, best, history, summary>>
  BY DEF Crash
<1>2. Types' /\ ToldSoFar' /\ BestIsIncumbent'
  BY <1>1 DEF Inv, Types, ToldSoFar, BestIsIncumbent, Incumbent
<1>3. summary = <<>>
  BY <1>1 DEF Inv, BestIsIncumbent
<1>4. SavedIsBest'
  BY <1>1, <1>3 DEF Inv, SavedIsBest, BestUpTo
<1> QED BY <1>2, <1>4 DEF Inv

LEMMA NextInv == ASSUME Inv, Compared, [TrainNext]_trainVars PROVE Inv'
<1>1. CASE Ask
  BY <1>1, QuietStep DEF Ask
<1>2. ASSUME NEW j \in Positions, NEW turns \in Trajectories \cup {Failed}, TrajectoryEnds(j, turns)
      PROVE  Inv'
  BY <1>2, QuietStep DEF TrajectoryEnds
<1>3. CASE CandidateDone
  <2>1. phase = "evaluate" /\ phase' \in {"evaluate", "tell"}
    BY <1>3 DEF CandidateDone
  <2> QED BY <2>1, <1>3, QuietStep DEF CandidateDone
<1>4. CASE UNCHANGED trainVars
  BY <1>4, FilesUnchanged
     DEF trainVars, Inv, Types, ToldSoFar, BestIsIncumbent, Incumbent
<1> QED BY <1>1, <1>2, <1>3, <1>4, TellInv, SaveThetaInv, SaveHistoryInv, FinishInv, CrashInv
        DEF TrainNext

THEOREM TrainingInvariant == TrainSpec => []Inv
<1>1. TrainInit => Inv
  BY InitInv
<1>2. Inv /\ Compared /\ [TrainNext]_trainVars => Inv'
  BY NextInv
<1> QED BY <1>1, <1>2, ComparedHolds, PTL DEF TrainSpec

\* train.py:160-199: best_theta.npy, history.json and summary.json agree with
\* what the optimizer was told, at every moment of every run.
THEOREM BestIsSaved == TrainSpec => []SavedIsBest
<1>1. Inv => SavedIsBest
  BY DEF Inv
<1> QED BY <1>1, TrainingInvariant, PTL

-----------------------------------------------------------------------------
(***************************************************************************)
(* The ranking                                                             *)
(***************************************************************************)
\* The fitness that tell is given ranks the candidates of one generation.
LEMMA TellRanks ==
    ASSUME Inv, Compared, Tell
    PROVE  RankedByQuality'
<1>1. PICK w \in variance_reweight :
        \E fits \in {[c \in Candidates |-> candidate_fitness(rows[c], w)]} :
          told' = told \cup {[theta |-> <<generation, c>>, fitness |-> fits[c]] : c \in Candidates}
  BY DEF Tell
<1> DEFINE fits == [c \in Candidates |-> candidate_fitness(rows[c], w)]
           tellings == {[theta |-> <<generation, c>>, fitness |-> fits[c]] : c \in Candidates}
<1>2. told' = told \cup tellings
  BY <1>1
<1>3. /\ phase = "tell" /\ phase' = "save"
      /\ UNCHANGED <<generation, minibatch, slots, rows>>
  BY DEF Tell
<1>4. PICK mb : minibatch = [c \in Candidates |-> mb]
  BY <1>3 DEF Compared
<1>5. /\ rows \in Seq(Rows) /\ Len(rows) = PopSize
      /\ slots \in [Positions -> Trajectories \cup {Failed, NotYet}]
  BY <1>3 DEF Compared
<1>6. \A c \in Candidates : rows[c] \in Rows
  BY <1>5 DEF Candidates
<1>7. w \in [Positions -> Nat \ {0}]
  BY WeightsPositive
<1>9. \A t \in told : t.theta[1] # generation
  <2>1. \A t \in told : t.theta[1] \in Nat /\ t.theta[1] < generation
    BY <1>3 DEF Inv, Types, ToldSoFar, Told
  <2>2. generation \in Nat
    BY DEF Inv, Types
  <2> QED BY <2>1, <2>2
<1> HIDE DEF fits
<1>10. ASSUME NEW t \in told', NEW u \in told', t.theta[1] = generation, u.theta[1] = generation,
              \A i, j \in Positions : minibatch[t.theta[2]][i] = minibatch[u.theta[2]][j]
                                        => rows[t.theta[2]][i] >= rows[u.theta[2]][j]
       PROVE  t.fitness >= u.fitness
  <2>1. t \in tellings /\ u \in tellings
    BY <1>2, <1>9, <1>10
  <2>2. PICK c \in Candidates : t = [theta |-> <<generation, c>>, fitness |-> fits[c]]
    BY <2>1
  <2>3. PICK d \in Candidates : u = [theta |-> <<generation, d>>, fitness |-> fits[d]]
    BY <2>1
  <2>4. t.theta[2] = c /\ u.theta[2] = d /\ t.fitness = fits[c] /\ u.fitness = fits[d]
    BY <2>2, <2>3
  <2>5. \A j \in Positions : rows[d][j] <= rows[c][j]
    <3>1. minibatch[c] = mb /\ minibatch[d] = mb
      BY <1>4
    <3>2. \A j \in Positions : rows[c][j] >= rows[d][j]
      BY <1>10, <2>4, <3>1
    <3>3. \A j \in Positions : rows[c][j] \in Int /\ rows[d][j] \in Int
      BY <1>6 DEF Rows
    <3> QED BY <3>2, <3>3
  <2>6. candidate_fitness(rows[d], w) <= candidate_fitness(rows[c], w)
    BY <1>6, <1>7, <2>5, FitnessMonotone
  <2>7. fits[d] <= fits[c] /\ fits[c] \in Int /\ fits[d] \in Int
    <3>1. fits \in [Candidates -> Int]
      BY <1>3, FitnessInt DEF fits
    <3> QED BY <2>6, <3>1 DEF fits
  <2> QED BY <2>4, <2>7
<1> QED BY <1>3, <1>10 DEF RankedByQuality

LEMMA NextRanks ==
    ASSUME Inv, Compared, RankedByQuality, [TrainNext]_trainVars PROVE RankedByQuality'
<1>1. CASE Tell
  BY <1>1, TellRanks
<1>2. CASE UNCHANGED trainVars
  BY <1>2 DEF trainVars, RankedByQuality
<1>3. CASE \/ Ask \/ CandidateDone \/ SaveTheta \/ SaveHistory \/ Finish \/ Crash
           \/ \E j \in Positions, turns \in Trajectories \cup {Failed} : TrajectoryEnds(j, turns)
  <2>1. phase' # "save"
    BY <1>3 DEF Ask, CandidateDone, SaveTheta, SaveHistory, Finish, Crash, TrajectoryEnds
  <2> QED BY <2>1 DEF RankedByQuality
<1> QED BY <1>1, <1>2, <1>3 DEF TrainNext

\* train.py:120-199: within a generation the optimizer is told what the rewards
\* say, for any weights of the tasks: a candidate that no other one beats on any
\* task is not ranked below it; and the files hold the best theta that was told.
THEOREM SelectionHolds == TrainSpec => []SelectionIsSound
<1>1. TrainSpec => []RankedByQuality
  <2>1. Inv /\ Compared /\ RankedByQuality /\ [TrainNext]_trainVars => RankedByQuality'
    BY NextRanks
  <2>2. TrainInit => RankedByQuality
    BY DEF TrainInit, RankedByQuality
  <2> QED BY <2>1, <2>2, ComparedHolds, TrainingInvariant, PTL DEF TrainSpec
<1>2. RankedByQuality /\ SavedIsBest => SelectionIsSound
  BY DEF SelectionIsSound
<1> QED BY <1>1, <1>2, BestIsSaved, PTL
=============================================================================
