------------------------------ MODULE Grading ------------------------------
(***************************************************************************)
(* One trajectory, turn by turn, and its grade (session.run_trajectory     *)
(* followed by reward.score).                                              *)
(***************************************************************************)
EXTENDS Rewards

CONSTANTS
    Items,     \* questions: [benchmark, ref]
    TextsOf,   \* [benchmark -> texts the models answer with]
    MaxTurns   \* the turn budget K

ASSUME MaxTurnsAssumption == MaxTurns \in Nat \ {0}

\* The sort keys of the calls to compare, see KeysTellApart.
ASSUME KeyAssumption ==
    /\ \A p \in DOMAIN Calls : KeysTellApart(Calls[p])
    /\ \A i \in Items : i.benchmark = "bfcl" => KeysTellApart(i.ref.calls)

Roles == {"thinker", "worker", "verifier"}
Ungraded == 2

VARIABLES
    item,    \* the question
    turns,   \* the turns so far
    ended,   \* the loop of run_trajectory is over
    grade    \* reward of the trajectory

gradeVars == <<item, turns, ended, grade>>

NoItem == [benchmark |-> "none"]

GradeInit ==
    /\ item = NoItem
    /\ turns = <<>>
    /\ ended = FALSE
    /\ grade = Ungraded

\* The question is taken from the tasks of the benchmark.
Take ==
    /\ item = NoItem
    /\ item' \in Items
    /\ UNCHANGED <<turns, ended, grade>>

\* A verifier may accept once a worker has answered; the budget ends the rest.
Turn(role, text, accepts) ==
    /\ item # NoItem /\ ~ended
    /\ accepts => role = "verifier" /\ \E n \in DOMAIN turns : turns[n].role = "worker"
    /\ turns' = Append(turns, [role |-> role, text |-> text])
    /\ ended' = (accepts \/ Len(turns') = MaxTurns)
    /\ UNCHANGED <<item, grade>>

Score ==
    /\ ended /\ grade = Ungraded
    /\ grade' = IF score(item.benchmark, turns, item.ref) THEN 1 ELSE 0
    /\ UNCHANGED <<item, turns, ended>>

GradeNext ==
    \/ Take
    \/ \E role \in Roles, accepts \in BOOLEAN :
           \E text \in TextsOf[item.benchmark] : Turn(role, text, accepts)
    \/ Score

GradeDone == grade # Ungraded

-----------------------------------------------------------------------------
\* No answer the system gave is thrown away: if any turn holds an answer of the
\* expected form, the text that is graded holds one (reward.py:122-128).
AnswerNotLost ==
    (\E n \in DOMAIN turns : has_answer(item.benchmark, turns[n].text))
        => has_answer(item.benchmark, committed_answer(item.benchmark, turns))

\* Where nothing but an extracted answer is compared, what is graded correct has
\* an answer; a whole text may be judged in math, rlpr and code.
CorrectIsAnAnswer ==
    grade = 1 /\ item.benchmark \in {"choice", "ifeval", "bfcl"}
        => has_answer(item.benchmark, committed_answer(item.benchmark, turns))

\* Parallel calls have no order: however the model and the reference list them,
\* the verdict is the same.
CallOrderIrrelevant ==
    item.benchmark = "bfcl" =>
        LET payload == extract_json_payload(committed_answer("bfcl", turns))
            gold == item.ref.calls
            Listed(calls, order) == [n \in DOMAIN calls |-> calls[order[n]]]
            Orders(calls) == {f \in [DOMAIN calls -> DOMAIN calls] : IsInjective(f)}
        IN  payload \in DOMAIN Calls =>
                \A f \in Orders(Calls[payload]), g \in Orders(gold) :
                    calls_match(Listed(Calls[payload], f), Listed(gold, g))
                        = calls_match(Calls[payload], gold)

GradesAreConsistent == GradeDone => AnswerNotLost /\ CorrectIsAnAnswer /\ CallOrderIrrelevant
=============================================================================
