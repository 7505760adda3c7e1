----------------------------- MODULE Coordination -----------------------------
(***************************************************************************)
(* Training and evaluation run trajectories: evaluate_population configures *)
(* the one policy with each candidate in turn and scores it on a minibatch, *)
(* whose tasks run as batches of concurrent run_trajectory coroutines over *)
(* the pool of LLMPool.                                                    *)
(*                                                                         *)
(* The policy is shared and mutable: its weights are overwritten for the   *)
(* next candidate, and nothing but the order of awaits keeps a trajectory  *)
(* from being decided by two candidates.                                   *)
(*                                                                         *)
(* Timeouts of requests and of trajectories are optional, so here they may *)
(* strike at any time or never.                                            *)
(***************************************************************************)
EXTENDS LLMPool, Sequences

CONSTANTS
    Population,  \* candidates of a generation
    BatchSize,   \* coroutines gathered at once
    MaxTurns,    \* K
    VerifierRequiresPriorWorker

ASSUME CoordinationAssumption ==
    /\ Population \in Nat \ {0} /\ BatchSize \in Nat \ {0} /\ MaxTurns \in Nat \ {0}
    /\ VerifierRequiresPriorWorker \in BOOLEAN

VARIABLES
    theta,  \* the candidate whose parameters the policy holds
    first,  \* first task of the next batch
    traj    \* the trajectory of each task

vars == <<poolVars, theta, first, traj>>

-----------------------------------------------------------------------------
Candidates == 1..Population
Role == {"thinker", "worker", "verifier"}
Verdict == {"ACCEPT", "REVISE", "None"}

\* by is history: the candidate that the policy held when it decided the turn.
TurnRecord == [role: Role, verdict: Verdict, by: Candidates]

\* cand is the candidate that the trajectory is run for, role and by the decision
\* of the turn under way, final the turn whose output is the final answer.
Trajectory == [status: {"idle", "created", "running", "done", "failed"},
               cand: Candidates, turns: Seq(TurnRecord), role: Role, by: Candidates,
               terminated_by: {"accept", "max_turns"}, final: 0..MaxTurns]

NoTrajectory(c, status) ==
    [status |-> status, cand |-> c, turns |-> <<>>, role |-> "worker", by |-> c,
     terminated_by |-> "max_turns", final |-> 0]

Init ==
    /\ PoolInit
    /\ theta = 1 /\ first = 1
    /\ traj = [t \in Tasks |-> NoTrajectory(1, "idle")]

-----------------------------------------------------------------------------
(***************************************************************************)
(* run_trajectory                                                          *)
(***************************************************************************)
Decided(c, turns, role) ==
    [status |-> "running", cand |-> c, turns |-> turns, role |-> role, by |-> theta,
     terminated_by |-> "max_turns", final |-> 0]

\* The policy picks a role and an LLM for the next turn, which calls it.
Decide(t, turns, role, p) ==
    /\ traj' = [traj EXCEPT ![t] = Decided(traj[t].cand, turns, role)]
    /\ Calling(t, p)

Begin(t, role, p) ==
    /\ traj[t].status = "created"
    /\ Decide(t, <<>>, role, p)
    /\ UNCHANGED <<permits, ledger, theta, first>>

TurnsOf(turns, roles) == {i \in DOMAIN turns : turns[i].role \in roles}
Last(s) == CHOOSE i \in s : \A j \in s : j <= i

\* The last output of a Worker, else of a Thinker, else of the last turn.
FinalAnswer(turns) ==
    IF TurnsOf(turns, {"worker"}) # {} THEN Last(TurnsOf(turns, {"worker"}))
    ELSE IF TurnsOf(turns, {"thinker"}) # {} THEN Last(TurnsOf(turns, {"thinker"}))
    ELSE Len(turns)

\* Variant: the guard looks at the turn of any role but the verifier's.
AcceptsDraft(turns, verdict) ==
    verdict = "ACCEPT" /\ (TurnsOf(turns, Role \ {"verifier"}) # {} \/ ~VerifierRequiresPriorWorker)
Accepts(turns, verdict) ==
    verdict = "ACCEPT" /\ (TurnsOf(turns, {"worker"}) # {} \/ ~VerifierRequiresPriorWorker)

Ended(c, turns, accept) ==
    [status |-> "done", cand |-> c, turns |-> turns, role |-> "worker", by |-> c,
     terminated_by |-> IF accept THEN "accept" ELSE "max_turns", final |-> FinalAnswer(turns)]

\* The call has answered: the turn is recorded, and the trajectory ends or goes on
\* to the next decision without an await in between.
Turn(t, verdict) ==
    /\ traj[t].status = "running" /\ call[t].at = "answered"
    /\ traj[t].role # "verifier" => verdict = "None"
    /\ LET tr == traj[t]
           turns == Append(tr.turns, [role |-> tr.role, verdict |-> verdict, by |-> tr.by])
           accept == Accepts(turns, verdict)
       IN  \/ /\ accept \/ Len(turns) = MaxTurns
              /\ traj' = [traj EXCEPT ![t] = Ended(tr.cand, turns, accept)]
              /\ Forgotten(t)
           \/ /\ ~accept /\ Len(turns) < MaxTurns
              /\ \E role \in Role, p \in Providers : Decide(t, turns, role, p)
    /\ UNCHANGED <<permits, ledger, theta, first>>

\* The exception replaces the trajectory.
Failed(t) == traj' = [traj EXCEPT ![t] = NoTrajectory(traj[t].cand, "failed")]

\* TrajectoryError, for what chat() raised.
CallFails(t) ==
    /\ traj[t].status = "running" /\ call[t].at = "failed"
    /\ Failed(t)
    /\ Forgotten(t)
    /\ UNCHANGED <<permits, ledger, theta, first>>

\* request_timeout_s or trajectory_timeout_s is over while the call is suspended.  A
\* call that has its result is past that: wait_for returns the result.
TimeOut(t) ==
    /\ traj[t].status = "running"
    /\ Cancel(t)
    /\ Failed(t)
    /\ UNCHANGED <<theta, first>>

-----------------------------------------------------------------------------
(***************************************************************************)
(* evaluate_candidate and evaluate_population                              *)
(***************************************************************************)
Live(t) == traj[t].status \in {"created", "running"}

\* Variant: gather() without return_exceptions is over with the first exception.
GatheredEarly == (\A t \in Tasks : ~Live(t)) \/ (\E t \in Tasks : traj[t].status = "failed")

\* gather() waits for all of them, whatever they raise.
Gathered == \A t \in Tasks : ~Live(t)

NextBatch ==
    /\ Gathered /\ first <= NumTasks
    /\ traj' = [t \in Tasks |-> IF t \in first..(first + BatchSize - 1)
                                THEN NoTrajectory(theta, "created") ELSE traj[t]]
    /\ first' = first + BatchSize
    /\ UNCHANGED <<poolVars, theta>>

\* The candidate's fitness is returned, its trajectories are dropped and the next
\* candidate is loaded, after the last one that of another generation.
NextCandidate ==
    /\ Gathered /\ first > NumTasks
    /\ theta' = IF theta = Population THEN 1 ELSE theta + 1
    /\ first' = 1
    /\ traj' = [t \in Tasks |-> IF Live(t) THEN traj[t] ELSE NoTrajectory(theta', "idle")]
    /\ ledger' = [t \in Tasks |-> 0]
    /\ UNCHANGED <<call, permits>>

-----------------------------------------------------------------------------
\* What the event loop runs next.
Ready ==
    \/ NextBatch \/ NextCandidate
    \/ \E t \in Tasks :
          \/ Enter(t) /\ UNCHANGED <<theta, first, traj>>
          \/ \E role \in Role, p \in Providers : Begin(t, role, p)
          \/ \E verdict \in Verdict : Turn(t, verdict)
          \/ CallFails(t)

Responses == \E t \in Tasks : PostEnds(t) /\ UNCHANGED <<theta, first, traj>>
Timeouts == \E t \in Tasks : TimeOut(t)

Next == Ready \/ Responses \/ Timeouts

Spec == Init /\ [][Next]_vars

\* The event loop goes on, and every request ends: httpx has timeout_s.
FairSpec == Spec /\ WF_vars(Ready) /\ WF_vars(Responses)

-----------------------------------------------------------------------------
TypeOK ==
    /\ PoolTypeOK
    /\ theta \in Candidates /\ first \in 1..(NumTasks + BatchSize)
    /\ traj \in [Tasks -> Trajectory]
    /\ \A t \in Tasks : Len(traj[t].turns) <= MaxTurns

\* Every turn of a trajectory is decided by the candidate that the trajectory is to
\* score, although the policy's weights are overwritten in place for the next one.
DecidedByOwnTheta == \A t \in Tasks :
    /\ traj[t].status = "running" => traj[t].by = traj[t].cand
    /\ \A i \in DOMAIN traj[t].turns : traj[t].turns[i].by = traj[t].cand

\* An accepted trajectory ends with the verifier's turn that accepted it, and its
\* answer is the latest output of a Worker that this verifier had before it; an
\* ACCEPT before there is one ends nothing.
AcceptedAnswer == \A t \in Tasks :
    LET tr == traj[t]
    IN  tr.status = "done" /\ tr.terminated_by = "accept" /\ VerifierRequiresPriorWorker =>
            /\ tr.turns[Len(tr.turns)].role = "verifier"
            /\ tr.turns[Len(tr.turns)].verdict = "ACCEPT"
            /\ tr.final \in 1..(Len(tr.turns) - 1) /\ tr.turns[tr.final].role = "worker"
            /\ \A i \in (tr.final + 1)..Len(tr.turns) : tr.turns[i].role # "worker"

\* Each turn is in the cost ledger exactly once, however many attempts it took, and
\* the ledger has nothing else but an answer on its way to be a turn.
Metered == \A t \in Tasks :
    LET tr == traj[t]
    IN  /\ tr.status = "running" =>
              ledger[t] = Len(tr.turns) + IF call[t].at = "answered" THEN 1 ELSE 0
        /\ tr.status = "done" => ledger[t] = Len(tr.turns)
        /\ tr.status = "failed" => ledger[t] < MaxTurns

\* Every candidate gets its fitness, whatever the providers answer.
CandidateScored == \A c \in Candidates : theta = c ~> first = 1 /\ theta # c

(***************************************************************************)
(* The inductive strengthening of the invariants above                     *)
(***************************************************************************)
\* A call belongs to a running trajectory, which always has one.
CallInv == \A t \in Tasks : traj[t].status = "running" <=> call[t].at # "none"

\* Trajectories run for the candidate that the policy holds.
LiveInv == \A t \in Tasks : Live(t) => traj[t].cand = theta

\* Later batches have not begun; what has not begun, or raised, has no turns; a
\* trajectory runs while it has turns left.
BatchInv == \A t \in Tasks :
    /\ t >= first => traj[t].status = "idle"
    /\ traj[t].status \in {"idle", "created"} => ledger[t] = 0
    /\ traj[t].status \in {"idle", "created", "failed"} => traj[t].turns = <<>>
    /\ traj[t].status = "running" => Len(traj[t].turns) < MaxTurns

IInv ==
    /\ TypeOK /\ AttemptInv /\ CallInv /\ LiveInv /\ BatchInv
    /\ PermitsKept /\ DecidedByOwnTheta /\ AcceptedAnswer /\ Metered
=============================================================================
