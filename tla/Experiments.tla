---------------------------- MODULE Experiments ----------------------------
(***************************************************************************)
(* The three programs that grade answers, one at a time on one machine: a  *)
(* graded trajectory (eval.py), the training loop (train.py) and the       *)
(* oracle ceiling (oracle_ceiling.py).  They share the graders.            *)
(***************************************************************************)
EXTENDS Grading, Training, Ceiling

VARIABLE program   \* "grade", "train" or "ceiling"

vars == <<program, gradeVars, trainVars, ceilVars>>

Init ==
    /\ program \in {"grade", "train", "ceiling"}
    /\ GradeInit /\ TrainInit /\ CeilInit
    /\ program # "ceiling" => args = CHOOSE a \in Setups : TRUE   \* of no use there

Next ==
    \/ program = "grade" /\ GradeNext /\ UNCHANGED <<program, trainVars, ceilVars>>
    \/ program = "train" /\ TrainNext /\ UNCHANGED <<program, gradeVars, ceilVars>>
    \/ program = "ceiling" /\ CeilNext /\ UNCHANGED <<program, gradeVars, trainVars>>

Spec == Init /\ [][Next]_vars

=============================================================================
