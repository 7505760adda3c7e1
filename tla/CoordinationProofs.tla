------------------------- MODULE CoordinationProofs -------------------------
(***************************************************************************)
(* Proofs about Coordination and the LLMPool under it, for any number of   *)
(* tasks, candidates, turns, attempts, providers and permits.              *)
(***************************************************************************)
EXTENDS Coordination, FiniteSetTheorems, WellFoundedInduction, TLAPS

-----------------------------------------------------------------------------
(***************************************************************************)
(* Helpers                                                                 *)
(***************************************************************************)
\* A set of positions has a last one.
LEMMA LastIsGreatest ==
    ASSUME NEW n \in Nat, NEW s \in SUBSET (1..n), s # {}
    PROVE  Last(s) \in s /\ \A j \in s : j <= Last(s)
  <1> DEFINE below == {k \in Nat : n - k \in s}
  <1>1. below \subseteq Nat /\ below # {}
    <2>1. PICK i \in s : TRUE
      OBVIOUS
    <2>2. n - i \in below
      BY <2>1
    <2> QED
      BY <2>2
  <1>2. PICK k \in below : \A l \in below : ~(<<l, k>> \in OpToRel(<, Nat))
    <2> HIDE DEF below
    <2> QED
      BY <1>1, WFMin, NatLessThanWellFounded
  <1>3. \A l \in below : ~(l < k)
    BY <1>2 DEF OpToRel
  <1>4. \A j \in s : j <= n - k
    <2> SUFFICES ASSUME NEW j \in s PROVE j <= n - k
      OBVIOUS
    <2>1. n - j \in below
      OBVIOUS
    <2> QED
      BY <1>3, <2>1
  <1>5. n - k \in s
    OBVIOUS
  <1> QED
    BY <1>4, <1>5 DEF Last

\* The final answer is one of the turns, and the last Worker's if there is any.
LEMMA FinalAnswerType ==
    ASSUME NEW turns \in Seq(TurnRecord)
    PROVE  /\ FinalAnswer(turns) \in 0..Len(turns)
           /\ TurnsOf(turns, {"worker"}) # {} =>
                /\ FinalAnswer(turns) \in TurnsOf(turns, {"worker"})
                /\ \A i \in TurnsOf(turns, {"worker"}) : i <= FinalAnswer(turns)
  <1>1. Len(turns) \in Nat /\ DOMAIN turns = 1..Len(turns)
    OBVIOUS
  <1>2. \A roles : TurnsOf(turns, roles) \in SUBSET (1..Len(turns))
    BY <1>1 DEF TurnsOf
  <1>3. \A roles : TurnsOf(turns, roles) # {} =>
           /\ Last(TurnsOf(turns, roles)) \in TurnsOf(turns, roles)
           /\ \A i \in TurnsOf(turns, roles) : i <= Last(TurnsOf(turns, roles))
    BY <1>1, <1>2, LastIsGreatest
  <1> QED
    BY <1>1, <1>2, <1>3 DEF FinalAnswer

LEMMA NoTrajectoryType ==
    ASSUME NEW c \in Candidates, NEW status \in {"idle", "created", "running", "done", "failed"}
    PROVE  /\ NoTrajectory(c, status) \in Trajectory
           /\ NoTrajectory(c, status).turns = <<>>
           /\ NoTrajectory(c, status).cand = c /\ NoTrajectory(c, status).status = status
  <1>1. <<>> \in Seq(TurnRecord)
    OBVIOUS
  <1> QED
    BY <1>1, CoordinationAssumption DEF NoTrajectory, Trajectory, Role

-----------------------------------------------------------------------------
(***************************************************************************)
(* The pool: types                                                         *)
(***************************************************************************)
LEMMA LeaveType ==
    ASSUME PoolTypeOK, AttemptInv, NEW t \in Tasks, NEW a \in 0..MaxRetries,
           NEW next \in {"none", "backoff", "answered", "failed"}, Leave(t, next, a),
           next = "backoff" => a < MaxRetries
    PROVE  call' \in [Tasks -> Call] /\ permits' \in [Providers -> Nat] /\ AttemptInv'
  <1> DEFINE p == call[t].provider
  <1>1. CASE \E w \in Queued(p) :
                /\ call' = [call EXCEPT ![t] = Moved(t, next, a), ![w].at = "posting"]
                /\ UNCHANGED permits
    <2>1. PICK w \in Queued(p) :
             call' = [call EXCEPT ![t] = Moved(t, next, a), ![w].at = "posting"]
      BY <1>1
    <2>2. w \in Tasks /\ w # t /\ call[w] \in Call /\ call[t] \in Call
      BY DEF Leave, Queued, PoolTypeOK
    <2>3. /\ DOMAIN call' = Tasks /\ call' = [u \in Tasks |-> call'[u]]
          /\ \A u \in Tasks \ {t, w} : call'[u] = call[u]
          /\ call'[t] = [at |-> next, provider |-> p, attempt |-> a]
          /\ call'[w] = [at |-> "posting", provider |-> call[w].provider, attempt |-> call[w].attempt]
      BY <2>1, <2>2 DEF PoolTypeOK, Call, Moved
    <2>4. \A u \in Tasks : call'[u] \in Call
      BY <2>2, <2>3 DEF PoolTypeOK, Call, Suspended
    <2>5. AttemptInv'
      BY <2>2, <2>3 DEF PoolTypeOK, AttemptInv
    <2> QED
      BY <1>1, <2>4, <2>5 DEF PoolTypeOK
  <1>2. CASE /\ call' = [call EXCEPT ![t] = Moved(t, next, a)]
             /\ permits' = [permits EXCEPT ![p] = @ + 1]
    BY <1>2 DEF PoolTypeOK, AttemptInv, Call, Suspended, Moved
  <1> QED
    BY <1>1, <1>2 DEF Leave

LEMMA EnterType ==
    ASSUME PoolTypeOK, AttemptInv, NEW t \in Tasks, Enter(t)
    PROVE  PoolTypeOK' /\ AttemptInv'
  <1> DEFINE p == call[t].provider
  <1>1. call[t].attempt + 1 \in 0..MaxRetries /\ p \in Providers
    BY PoolAssumption DEF Enter, PoolTypeOK, AttemptInv, Call
  <1>2. CASE permits[p] > 0
    BY <1>1, <1>2 DEF Enter, PoolTypeOK, AttemptInv, Call, Suspended, Moved
  <1>3. CASE permits[p] = 0
    BY <1>1, <1>3 DEF Enter, PoolTypeOK, AttemptInv, Call, Suspended, Moved
  <1> QED
    BY <1>2, <1>3 DEF Enter

LEMMA PostEndsType ==
    ASSUME PoolTypeOK, AttemptInv, NEW t \in Tasks, PostEnds(t)
    PROVE  PoolTypeOK' /\ AttemptInv'
  <1>1. 0 \in 0..MaxRetries /\ call[t].attempt \in 0..MaxRetries
    BY PoolAssumption DEF PoolTypeOK, Call
  <1>2. CASE Answer(t)
    BY <1>1, <1>2, LeaveType DEF Answer, PoolTypeOK
  <1>3. CASE Reject(t)
    BY <1>1, <1>3, LeaveType DEF Reject, PoolTypeOK
  <1>4. CASE Transient(t)
    <2> DEFINE next == IF call[t].attempt < MaxRetries THEN "backoff" ELSE "failed"
    <2>1. /\ next \in {"none", "backoff", "answered", "failed"}
          /\ next = "backoff" => call[t].attempt < MaxRetries
      OBVIOUS
    <2>2. Leave(t, next, call[t].attempt) /\ UNCHANGED ledger
      BY <1>4 DEF Transient
    <2>3. call' \in [Tasks -> Call] /\ permits' \in [Providers -> Nat] /\ AttemptInv'
      <3> HIDE DEF next
      <3> QED
        BY <1>1, <2>1, <2>2, LeaveType
    <2> QED
      BY <2>2, <2>3 DEF PoolTypeOK
  <1> QED
    BY <1>2, <1>3, <1>4 DEF PostEnds

LEMMA ForgottenType ==
    ASSUME PoolTypeOK, AttemptInv, NEW t \in Tasks, Forgotten(t), UNCHANGED <<permits, ledger>>
    PROVE  PoolTypeOK' /\ AttemptInv'
  <1>1. call[t] \in Call /\ 0 \in 0..MaxRetries
    BY PoolAssumption DEF PoolTypeOK
  <1>2. call' = [call EXCEPT ![t] = [at |-> "none", provider |-> call[t].provider, attempt |-> 0]]
    BY <1>1 DEF Forgotten, Moved
  <1> QED
    BY <1>1, <1>2 DEF PoolTypeOK, AttemptInv, Call

LEMMA CancelType ==
    ASSUME PoolTypeOK, AttemptInv, NEW t \in Tasks, Cancel(t)
    PROVE  PoolTypeOK' /\ AttemptInv'
  <1>1. 0 \in 0..MaxRetries
    BY PoolAssumption
  <1>2. CASE Leave(t, "none", 0) /\ UNCHANGED ledger
    BY <1>1, <1>2, LeaveType DEF PoolTypeOK
  <1>3. CASE Forgotten(t) /\ UNCHANGED <<permits, ledger>>
    BY <1>3, ForgottenType
  <1> QED
    BY <1>2, <1>3 DEF Cancel

LEMMA CallingType ==
    ASSUME PoolTypeOK, AttemptInv, NEW t \in Tasks, NEW p \in Providers, Calling(t, p),
           UNCHANGED <<permits, ledger>>
    PROVE  PoolTypeOK' /\ AttemptInv'
  BY PoolAssumption DEF PoolTypeOK, AttemptInv, Calling, Call, Suspended

-----------------------------------------------------------------------------
(***************************************************************************)
(* Trajectories: types                                                     *)
(***************************************************************************)
\* The turns that Turn(t, verdict) leaves.
TurnsAfter(t, verdict) ==
    Append(traj[t].turns, [role |-> traj[t].role, verdict |-> verdict, by |-> traj[t].by])

LEMMA TurnsAfterType ==
    ASSUME TypeOK, BatchInv, NEW t \in Tasks, NEW verdict \in Verdict, traj[t].status = "running"
    PROVE  LET old == traj[t].turns
               new == TurnsAfter(t, verdict)
           IN  /\ old \in Seq(TurnRecord) /\ new \in Seq(TurnRecord)
               /\ Len(new) = Len(old) + 1 /\ Len(new) <= MaxTurns
               /\ \A i \in 1..Len(old) : new[i] = old[i]
               /\ new[Len(new)].role = traj[t].role /\ new[Len(new)].verdict = verdict
               /\ new[Len(new)].by = traj[t].by
  <1> DEFINE r == [role |-> traj[t].role, verdict |-> verdict, by |-> traj[t].by]
  <1>1. traj[t] \in Trajectory
    BY DEF TypeOK
  <1>2. r \in TurnRecord /\ traj[t].turns \in Seq(TurnRecord)
    BY <1>1 DEF Trajectory, TurnRecord
  <1>3. Len(traj[t].turns) < MaxTurns
    BY DEF BatchInv
  <1>4. r.role = traj[t].role /\ r.verdict = verdict /\ r.by = traj[t].by
    OBVIOUS
  <1> HIDE DEF r
  <1>5. TurnsAfter(t, verdict) = Append(traj[t].turns, r)
    BY DEF TurnsAfter, r
  <1> QED
    BY <1>2, <1>3, <1>4, <1>5, CoordinationAssumption

LEMMA DecidedType ==
    ASSUME NEW c \in Candidates, NEW turns \in Seq(TurnRecord), NEW role \in Role,
           theta \in Candidates
    PROVE  /\ Decided(c, turns, role) \in Trajectory
           /\ Decided(c, turns, role).status = "running" /\ Decided(c, turns, role).cand = c
           /\ Decided(c, turns, role).turns = turns /\ Decided(c, turns, role).by = theta
  BY CoordinationAssumption DEF Decided, Trajectory

LEMMA EndedType ==
    ASSUME NEW c \in Candidates, NEW turns \in Seq(TurnRecord), NEW accept \in BOOLEAN,
           Len(turns) <= MaxTurns
    PROVE  /\ Ended(c, turns, accept) \in Trajectory
           /\ Ended(c, turns, accept).status = "done" /\ Ended(c, turns, accept).cand = c
           /\ Ended(c, turns, accept).turns = turns
           /\ Ended(c, turns, accept).final = FinalAnswer(turns)
           /\ Ended(c, turns, accept).terminated_by = "accept" => accept
  <1>1. FinalAnswer(turns) \in 0..MaxTurns
    BY FinalAnswerType, CoordinationAssumption
  <1> QED
    BY <1>1 DEF Ended, Trajectory, Role

\* What Turn does, in its two cases.
LEMMA TurnCases ==
    ASSUME NEW t \in Tasks, NEW verdict \in Verdict, Turn(t, verdict)
    PROVE  /\ traj[t].status = "running" /\ call[t].at = "answered"
           /\ traj[t].role # "verifier" => verdict = "None"
           /\ UNCHANGED <<permits, ledger, theta, first>>
           /\ \/ /\ Forgotten(t)
                 /\ traj' = [traj EXCEPT ![t] = Ended(traj[t].cand, TurnsAfter(t, verdict),
                                                     Accepts(TurnsAfter(t, verdict), verdict))]
              \/ \E role \in Role, p \in Providers :
                    /\ Len(TurnsAfter(t, verdict)) < MaxTurns
                    /\ traj' = [traj EXCEPT ![t] =
                                  Decided(traj[t].cand, TurnsAfter(t, verdict), role)]
                    /\ Calling(t, p)
  BY DEF Turn, TurnsAfter, Decide

LEMMA FailedEffect ==
    ASSUME TypeOK, NEW t \in Tasks, Failed(t)
    PROVE  /\ traj' \in [Tasks -> Trajectory]
           /\ traj'[t].status = "failed" /\ traj'[t].turns = <<>> /\ traj'[t].cand = traj[t].cand
           /\ \A u \in Tasks \ {t} : traj'[u] = traj[u]
  <1>1. traj[t].cand \in Candidates
    BY DEF TypeOK, Trajectory
  <1>2. /\ NoTrajectory(traj[t].cand, "failed") \in Trajectory
        /\ NoTrajectory(traj[t].cand, "failed").turns = <<>>
        /\ NoTrajectory(traj[t].cand, "failed").cand = traj[t].cand
        /\ NoTrajectory(traj[t].cand, "failed").status = "failed"
    BY <1>1, NoTrajectoryType
  <1> QED
    BY <1>2 DEF Failed, TypeOK

LEMMA TypeInit == Init => TypeOK /\ AttemptInv
<1> SUFFICES ASSUME Init PROVE TypeOK /\ AttemptInv
  OBVIOUS
<1>1. PoolTypeOK /\ AttemptInv
  BY PoolAssumption DEF Init, PoolInit, PoolTypeOK, AttemptInv, Call, Suspended
<1>2. 1 \in Candidates /\ theta = 1 /\ first = 1
  BY CoordinationAssumption DEF Init, Candidates
<1>3. NoTrajectory(1, "idle") \in Trajectory /\ Len(NoTrajectory(1, "idle").turns) = 0
  BY <1>2, NoTrajectoryType
<1>4. \A t \in Tasks : traj[t] = NoTrajectory(1, "idle")
  BY DEF Init
<1>5. traj \in [Tasks -> Trajectory] /\ \A t \in Tasks : Len(traj[t].turns) <= MaxTurns
  BY <1>3, <1>4, CoordinationAssumption DEF Init
<1> QED
  BY <1>1, <1>2, <1>5, PoolAssumption, CoordinationAssumption DEF TypeOK

LEMMA TypeStep ==
    ASSUME TypeOK, AttemptInv, BatchInv, [Next]_vars
    PROVE  TypeOK' /\ AttemptInv'
<1>1. PoolTypeOK /\ traj \in [Tasks -> Trajectory]
  BY DEF TypeOK
<1>2. ASSUME PoolTypeOK' /\ AttemptInv', UNCHANGED <<theta, first, traj>>
      PROVE  TypeOK' /\ AttemptInv'
  BY <1>2 DEF TypeOK
<1>3. ASSUME NEW t \in Tasks, PoolTypeOK' /\ AttemptInv', UNCHANGED <<theta, first>>, Failed(t)
      PROVE  TypeOK' /\ AttemptInv'
  <2>1. \A u \in Tasks : Len(traj'[u].turns) <= MaxTurns
    BY <1>3, FailedEffect, CoordinationAssumption DEF TypeOK
  <2> QED
    BY <1>3, <2>1, FailedEffect DEF TypeOK
<1>4. CASE NextBatch
  <2>1. NoTrajectory(theta, "created") \in Trajectory /\ NoTrajectory(theta, "created").turns = <<>>
    BY NoTrajectoryType DEF TypeOK
  <2>2. traj' \in [Tasks -> Trajectory] /\ \A t \in Tasks : Len(traj'[t].turns) <= MaxTurns
    BY <1>4, <2>1, CoordinationAssumption DEF NextBatch, TypeOK
  <2>3. first' \in 1..(NumTasks + BatchSize) /\ theta' = theta
    BY <1>4, PoolAssumption, CoordinationAssumption DEF NextBatch, TypeOK
  <2>4. PoolTypeOK' /\ AttemptInv'
    BY <1>1, <1>4 DEF NextBatch, poolVars, PoolTypeOK, AttemptInv
  <2> QED
    BY <2>2, <2>3, <2>4 DEF TypeOK
<1>5. CASE NextCandidate
  <2>1. theta' \in Candidates
    BY <1>5, CoordinationAssumption DEF NextCandidate, TypeOK, Candidates
  <2>2. NoTrajectory(theta', "idle") \in Trajectory /\ NoTrajectory(theta', "idle").turns = <<>>
    BY <2>1, NoTrajectoryType
  <2>3. traj' \in [Tasks -> Trajectory] /\ \A t \in Tasks : Len(traj'[t].turns) <= MaxTurns
    BY <1>5, <2>2, CoordinationAssumption DEF NextCandidate, TypeOK
  <2>4. first' \in 1..(NumTasks + BatchSize)
    BY <1>5, PoolAssumption, CoordinationAssumption DEF NextCandidate
  <2>5. PoolTypeOK' /\ AttemptInv'
    BY <1>1, <1>5 DEF NextCandidate, PoolTypeOK, AttemptInv
  <2> QED
    BY <2>1, <2>3, <2>4, <2>5 DEF TypeOK
<1>6. ASSUME NEW t \in Tasks, Enter(t), UNCHANGED <<theta, first, traj>>
      PROVE  TypeOK' /\ AttemptInv'
  BY <1>1, <1>2, <1>6, EnterType
<1>7. ASSUME NEW t \in Tasks, NEW role \in Role, NEW p \in Providers, Begin(t, role, p)
      PROVE  TypeOK' /\ AttemptInv'
  <2>1. Calling(t, p) /\ UNCHANGED <<permits, ledger, theta, first>>
    BY <1>7 DEF Begin, Decide
  <2>2. PoolTypeOK' /\ AttemptInv'
    BY <1>1, <2>1, CallingType
  <2>3. traj[t].cand \in Candidates /\ theta \in Candidates /\ <<>> \in Seq(TurnRecord)
    BY DEF TypeOK, Trajectory
  <2>4. traj' = [traj EXCEPT ![t] = Decided(traj[t].cand, <<>>, role)]
    BY <1>7 DEF Begin, Decide
  <2>5. traj' \in [Tasks -> Trajectory] /\ traj'[t].turns = <<>>
    BY <1>1, <2>3, <2>4, DecidedType
  <2>6. \A u \in Tasks : Len(traj'[u].turns) <= MaxTurns
    BY <1>1, <2>4, <2>5, CoordinationAssumption DEF TypeOK
  <2> QED
    BY <2>1, <2>2, <2>5, <2>6 DEF TypeOK
<1>8. ASSUME NEW t \in Tasks, NEW verdict \in Verdict, Turn(t, verdict)
      PROVE  TypeOK' /\ AttemptInv'
  <2> DEFINE new == TurnsAfter(t, verdict)
  <2>1. new \in Seq(TurnRecord) /\ Len(new) <= MaxTurns
    BY <1>8, TurnsAfterType, TurnCases
  <2>2. traj[t].cand \in Candidates /\ theta \in Candidates
    BY DEF TypeOK, Trajectory
  <2>3. PoolTypeOK' /\ AttemptInv'
    BY <1>1, <1>8, TurnCases, ForgottenType, CallingType
  <2>4. Accepts(new, verdict) \in BOOLEAN
    BY DEF Accepts
  <2> HIDE DEF new
  <2>5. ASSUME NEW r, r \in Trajectory, r.turns = new, traj' = [traj EXCEPT ![t] = r]
        PROVE  traj' \in [Tasks -> Trajectory] /\ \A u \in Tasks : Len(traj'[u].turns) <= MaxTurns
    BY <1>1, <2>1, <2>5 DEF TypeOK
  <2>6. traj' \in [Tasks -> Trajectory] /\ \A u \in Tasks : Len(traj'[u].turns) <= MaxTurns
    <3>1. CASE traj' = [traj EXCEPT ![t] = Ended(traj[t].cand, new, Accepts(new, verdict))]
      <4>1. \A a \in BOOLEAN : /\ Ended(traj[t].cand, new, a) \in Trajectory
                               /\ Ended(traj[t].cand, new, a).turns = new
        BY <2>1, <2>2, EndedType
      <4> QED
        BY <2>4, <2>5, <3>1, <4>1
    <3>2. CASE \E role \in Role : traj' = [traj EXCEPT ![t] = Decided(traj[t].cand, new, role)]
      <4>1. PICK role \in Role : traj' = [traj EXCEPT ![t] = Decided(traj[t].cand, new, role)]
        BY <3>2
      <4>2. /\ Decided(traj[t].cand, new, role) \in Trajectory
            /\ Decided(traj[t].cand, new, role).turns = new
        BY <2>1, <2>2, DecidedType
      <4> QED
        BY <2>5, <4>1, <4>2
    <3> QED
      BY <1>8, <3>1, <3>2, TurnCases DEF new
  <2> QED
    BY <1>8, <2>3, <2>6, TurnCases DEF TypeOK
<1>9. ASSUME NEW t \in Tasks, CallFails(t) PROVE TypeOK' /\ AttemptInv'
  BY <1>1, <1>3, <1>9, ForgottenType DEF CallFails
<1>10. ASSUME NEW t \in Tasks, PostEnds(t), UNCHANGED <<theta, first, traj>>
       PROVE  TypeOK' /\ AttemptInv'
  BY <1>1, <1>2, <1>10, PostEndsType
<1>11. ASSUME NEW t \in Tasks, TimeOut(t) PROVE TypeOK' /\ AttemptInv'
  BY <1>1, <1>3, <1>11, CancelType DEF TimeOut
<1>12. CASE UNCHANGED vars
  BY <1>12 DEF vars, poolVars, TypeOK, PoolTypeOK, AttemptInv
<1> QED
  BY <1>4, <1>5, <1>6, <1>7, <1>8, <1>9, <1>10, <1>11, <1>12
  DEF Next, Ready, Responses, Timeouts

-----------------------------------------------------------------------------
(***************************************************************************)
(* The semaphores                                                          *)
(***************************************************************************)
LEMMA PostingFinite ==
    \A p \in Providers : IsFiniteSet(Posting(p)) /\ Cardinality(Posting(p)) \in Nat
  <1>1. IsFiniteSet(Tasks)
    BY PoolAssumption, FS_Interval DEF Tasks
  <1>2. \A p \in Providers : Posting(p) \subseteq Tasks
    BY DEF Posting
  <1> QED
    BY <1>1, <1>2, FS_Subset, FS_CardinalityType

\* A call that was not posting, and neither posts nor waits now.
LEMMA AsideKeepsPermits ==
    ASSUME PoolTypeOK, PermitsKept, NEW t \in Tasks, call[t].at # "posting", UNCHANGED permits,
           NEW r, r.at \notin {"posting", "queued"}, call' = [call EXCEPT ![t] = r]
    PROVE  PermitsKept'
  <1>1. \A p \in Providers : Posting(p)' = Posting(p) /\ Queued(p)' \subseteq Queued(p)
    BY DEF Posting, Queued, PoolTypeOK
  <1> QED
    BY <1>1 DEF PermitsKept

LEMMA ForgottenKeepsPermits ==
    ASSUME PoolTypeOK, PermitsKept, NEW t \in Tasks, call[t].at # "posting", UNCHANGED permits,
           Forgotten(t)
    PROVE  PermitsKept'
  <1>1. Moved(t, "none", 0).at = "none"
    BY DEF Moved
  <1> QED
    BY <1>1, AsideKeepsPermits DEF Forgotten

LEMMA CallingKeepsPermits ==
    ASSUME PoolTypeOK, PermitsKept, NEW t \in Tasks, call[t].at # "posting", UNCHANGED permits,
           NEW p \in Providers, Calling(t, p)
    PROVE  PermitsKept'
  BY AsideKeepsPermits DEF Calling

LEMMA EnterKeepsPermits ==
    ASSUME PoolTypeOK, PermitsKept, NEW t \in Tasks, Enter(t)
    PROVE  PermitsKept'
  <1>0. PICK p \in Providers : call[t].provider = p
    BY DEF PoolTypeOK, Call
  <1>1. p = call[t].provider /\ permits[p] \in Nat /\ call[t].at \in {"starting", "backoff"}
    BY <1>0 DEF PoolTypeOK, Enter
  <1>2. t \notin Posting(p) /\ t \notin Queued(p)
    BY <1>1 DEF Posting, Queued
  <1>3. CASE permits[p] > 0
    <2>1. /\ call' = [call EXCEPT ![t] = Moved(t, "posting", call[t].attempt + 1)]
          /\ permits' = [permits EXCEPT ![p] = permits[p] - 1]
      BY <1>1, <1>3 DEF Enter
    <2>2. /\ \A q \in Providers : Queued(q)' = Queued(q)
          /\ \A q \in Providers \ {p} : Posting(q)' = Posting(q)
          /\ Posting(p)' = Posting(p) \cup {t}
      BY <1>1, <2>1 DEF Posting, Queued, PoolTypeOK, Moved
    <2>3. Cardinality(Posting(p)') = Cardinality(Posting(p)) + 1
      BY <1>1, <1>2, <2>2, PostingFinite, FS_AddElement
    <2>4. /\ permits'[p] = permits[p] - 1 /\ Queued(p) = {}
          /\ \A q \in Providers \ {p} : permits'[q] = permits[q]
      BY <1>1, <1>3, <2>1 DEF PoolTypeOK, PermitsKept
    <2>5. /\ permits'[p] + Cardinality(Posting(p)') = permits[p] + Cardinality(Posting(p))
          /\ Queued(p)' # {} => permits'[p] = 0
      <3>1. Cardinality(Posting(p)) \in Nat
        BY PostingFinite
      <3> QED
        BY <1>1, <2>2, <2>3, <2>4, <3>1
    <2>6. \A q \in Providers \ {p} :
             /\ permits'[q] + Cardinality(Posting(q)') = permits[q] + Cardinality(Posting(q))
             /\ Queued(q)' # {} => Queued(q) # {} /\ permits'[q] = permits[q]
      BY <2>2, <2>4
    <2>7. \A q \in Providers :
             /\ permits'[q] + Cardinality(Posting(q)') = permits[q] + Cardinality(Posting(q))
             /\ Queued(q)' # {} => permits'[q] = 0 \/ (Queued(q) # {} /\ permits'[q] = permits[q])
      BY <2>5, <2>6
    <2> QED
      BY <2>7 DEF PermitsKept
  <1>4. CASE permits[p] = 0
    <2>1. /\ call' = [call EXCEPT ![t] = Moved(t, "queued", call[t].attempt + 1)]
          /\ permits' = permits
      BY <1>1, <1>4 DEF Enter
    <2>2. /\ \A q \in Providers : Posting(q)' = Posting(q)
          /\ \A q \in Providers \ {p} : Queued(q)' = Queued(q)
      BY <1>1, <2>1 DEF Posting, Queued, PoolTypeOK, Moved
    <2> QED
      BY <1>4, <2>1, <2>2 DEF PermitsKept
  <1> QED
    BY <1>1, <1>3, <1>4

\* The permit goes to the next attempt, or back.
LEMMA LeaveKeepsPermits ==
    ASSUME PoolTypeOK, PermitsKept, NEW t \in Tasks, NEW a \in 0..MaxRetries,
           NEW next \in {"none", "backoff", "answered", "failed"}, Leave(t, next, a)
    PROVE  PermitsKept'
  <1>0. PICK p \in Providers : call[t].provider = p
    BY DEF PoolTypeOK, Call
  <1>1. p = call[t].provider /\ permits[p] \in Nat /\ t \in Posting(p)
    BY <1>0 DEF PoolTypeOK, Leave, Posting
  <1>2. /\ IsFiniteSet(Posting(p) \ {t})
        /\ Cardinality(Posting(p) \ {t}) = Cardinality(Posting(p)) - 1
    BY <1>1, PostingFinite, FS_RemoveElement
  <1>3. CASE \E w \in Queued(p) :
                /\ call' = [call EXCEPT ![t] = Moved(t, next, a), ![w].at = "posting"]
                /\ UNCHANGED permits
    <2>1. PICK w \in Queued(p) :
             call' = [call EXCEPT ![t] = Moved(t, next, a), ![w].at = "posting"]
      BY <1>3
    <2>2. w \in Tasks /\ w # t /\ call[w] \in Call /\ call[w].provider = p
      BY <2>1 DEF Leave, Queued, PoolTypeOK
    <2>3. /\ call' = [u \in Tasks |-> call'[u]]
          /\ \A u \in Tasks \ {t, w} : call'[u] = call[u]
          /\ call'[t].at = next /\ call'[w].at = "posting" /\ call'[w].provider = p
      BY <2>1, <2>2 DEF PoolTypeOK, Call, Moved
    <2>4. /\ \A q \in Providers \ {p} : Posting(q)' = Posting(q) /\ Queued(q)' \subseteq Queued(q)
          /\ Posting(p)' = (Posting(p) \ {t}) \cup {w} /\ Queued(p)' \subseteq Queued(p)
      <3>1. \A q \in Providers : Queued(q)' \subseteq Queued(q)
        BY <2>2, <2>3 DEF Queued
      <3>2. \A q \in Providers \ {p} : Posting(q)' = Posting(q)
        <4>1. call'[t].provider = p
          BY <1>1, <2>1, <2>2 DEF PoolTypeOK, Moved
        <4>2. ASSUME NEW q \in Providers \ {p}, NEW u \in Tasks
              PROVE  call'[u].provider = q <=> call[u].provider = q
          BY <1>1, <2>2, <2>3, <4>1
        <4>3. \A q \in Providers \ {p}, u \in Tasks : call[u].provider = q => call'[u] = call[u]
          BY <1>1, <2>2, <2>3
        <4> QED
          BY <4>2, <4>3 DEF Posting
      <3>3. Posting(p)' = (Posting(p) \ {t}) \cup {w}
        BY <2>2, <2>3 DEF Posting
      <3> QED
        BY <3>1, <3>2, <3>3
    <2>5. w \notin Posting(p)
      BY <2>1 DEF Queued, Posting
    <2>6. Cardinality(Posting(p)') = Cardinality(Posting(p))
      <3>1. w \notin Posting(p) \ {t}
        BY <2>5
      <3>2. Cardinality((Posting(p) \ {t}) \cup {w}) = Cardinality(Posting(p) \ {t}) + 1
        BY <1>2, <3>1, FS_AddElement
      <3>3. Cardinality(Posting(p)) \in Nat
        BY PostingFinite
      <3> QED
        BY <1>2, <2>4, <3>2, <3>3
    <2>7. \A q \in Providers :
             /\ Cardinality(Posting(q)') = Cardinality(Posting(q))
             /\ Queued(q)' # {} => Queued(q) # {}
      BY <2>4, <2>6
    <2> QED
      BY <1>3, <2>7 DEF PermitsKept
  <1>4. CASE /\ Queued(p) = {}
             /\ call' = [call EXCEPT ![t] = Moved(t, next, a)]
             /\ permits' = [permits EXCEPT ![p] = @ + 1]
    <2>1. /\ \A q \in Providers : Queued(q)' = Queued(q)
          /\ \A q \in Providers \ {p} : Posting(q)' = Posting(q)
          /\ Posting(p)' = Posting(p) \ {t}
      BY <1>1, <1>4 DEF Posting, Queued, PoolTypeOK, Moved
    <2>2. permits'[p] = permits[p] + 1 /\ \A q \in Providers \ {p} : permits'[q] = permits[q]
      BY <1>1, <1>4 DEF PoolTypeOK
    <2>3. /\ permits'[p] + Cardinality(Posting(p)') = permits[p] + Cardinality(Posting(p))
          /\ Queued(p)' # {} => permits'[p] = 0
      <3>1. Cardinality(Posting(p)) \in Nat
        BY PostingFinite
      <3> QED
        BY <1>1, <1>2, <1>4, <2>1, <2>2, <3>1
    <2>4. \A q \in Providers \ {p} :
             /\ permits'[q] + Cardinality(Posting(q)') = permits[q] + Cardinality(Posting(q))
             /\ Queued(q)' # {} => Queued(q) # {} /\ permits'[q] = permits[q]
      BY <2>1, <2>2
    <2>5. \A q \in Providers :
             /\ permits'[q] + Cardinality(Posting(q)') = permits[q] + Cardinality(Posting(q))
             /\ Queued(q)' # {} => permits'[q] = 0 \/ (Queued(q) # {} /\ permits'[q] = permits[q])
      BY <2>3, <2>4
    <2> QED
      BY <2>5 DEF PermitsKept
  <1> QED
    BY <1>1, <1>3, <1>4 DEF Leave

LEMMA CancelKeepsPermits ==
    ASSUME PoolTypeOK, PermitsKept, NEW t \in Tasks, Cancel(t)
    PROVE  PermitsKept'
  <1>1. 0 \in 0..MaxRetries
    BY PoolAssumption
  <1> QED
    BY <1>1, LeaveKeepsPermits, ForgottenKeepsPermits DEF Cancel

LEMMA PostEndsKeepsPermits ==
    ASSUME PoolTypeOK, PermitsKept, NEW t \in Tasks, PostEnds(t)
    PROVE  PermitsKept'
  <1>1. \E next \in {"none", "backoff", "answered", "failed"}, a \in 0..MaxRetries : Leave(t, next, a)
    <2>1. 0 \in 0..MaxRetries /\ call[t].attempt \in 0..MaxRetries
      BY PoolAssumption DEF PoolTypeOK, Call
    <2> QED
      BY <2>1 DEF PostEnds, Answer, Reject, Transient
  <1> QED
    BY <1>1, LeaveKeepsPermits

LEMMA PermitsInit == Init => PermitsKept
<1> SUFFICES ASSUME Init, NEW p \in Providers
    PROVE  permits[p] + Cardinality(Posting(p)) = MaxConcurrency /\ Queued(p) = {}
  BY DEF PermitsKept
<1>1. \A t \in Tasks : call[t].at = "none"
  BY DEF Init, PoolInit
<1>2. Posting(p) = {} /\ Queued(p) = {} /\ permits[p] = MaxConcurrency
  BY <1>1 DEF Posting, Queued, Init, PoolInit
<1> QED
  BY <1>2, FS_EmptySet, PoolAssumption

LEMMA PermitsStep ==
    ASSUME TypeOK, PermitsKept, CallInv, [Next]_vars
    PROVE  PermitsKept'
<1>1. PoolTypeOK
  BY DEF TypeOK
<1>2. CASE UNCHANGED <<call, permits>>
  BY <1>2 DEF PermitsKept, Posting, Queued
<1>3. CASE NextBatch \/ NextCandidate \/ UNCHANGED vars
  BY <1>2, <1>3 DEF NextBatch, NextCandidate, vars, poolVars
<1>4. ASSUME NEW t \in Tasks, Enter(t) PROVE PermitsKept'
  BY <1>1, <1>4, EnterKeepsPermits
<1>5. ASSUME NEW t \in Tasks, NEW role \in Role, NEW p \in Providers, Begin(t, role, p)
      PROVE  PermitsKept'
  <2>1. call[t].at = "none"
    BY <1>5 DEF Begin, CallInv
  <2> QED
    BY <1>1, <1>5, <2>1, CallingKeepsPermits DEF Begin, Decide
<1>6. ASSUME NEW t \in Tasks, NEW verdict \in Verdict, Turn(t, verdict)
      PROVE  PermitsKept'
  BY <1>1, <1>6, TurnCases, ForgottenKeepsPermits, CallingKeepsPermits
<1>7. ASSUME NEW t \in Tasks, CallFails(t) PROVE PermitsKept'
  BY <1>1, <1>7, ForgottenKeepsPermits DEF CallFails
<1>8. ASSUME NEW t \in Tasks, PostEnds(t) PROVE PermitsKept'
  BY <1>1, <1>8, PostEndsKeepsPermits
<1>9. ASSUME NEW t \in Tasks, TimeOut(t) PROVE PermitsKept'
  BY <1>1, <1>9, CancelKeepsPermits DEF TimeOut
<1> QED
  BY <1>3, <1>4, <1>5, <1>6, <1>7, <1>8, <1>9 DEF Next, Ready, Responses, Timeouts

-----------------------------------------------------------------------------
(***************************************************************************)
(* What a step does to a task                                              *)
(***************************************************************************)
\* Nothing that its trajectory or the ledger would show.
Unseen(u) ==
    /\ traj'[u] = traj[u] /\ ledger'[u] = ledger[u]
    /\ call'[u].at = "none" <=> call[u].at = "none"
    /\ call'[u].at = "answered" <=> call[u].at = "answered"

\* Its call is answered.
Answered(u) ==
    /\ traj'[u] = traj[u] /\ ledger'[u] = ledger[u] + 1
    /\ call[u].at = "posting" /\ call'[u].at = "answered"

\* Its first, or next, turn is decided.
Begins(u) ==
    /\ traj[u].status = "created" /\ ledger'[u] = ledger[u] /\ call'[u].at = "starting"
    /\ \E role \in Role : traj'[u] = Decided(traj[u].cand, <<>>, role)

GoesOn(u, verdict) ==
    /\ traj[u].status = "running" /\ call[u].at = "answered"
    /\ ledger'[u] = ledger[u] /\ call'[u].at = "starting"
    /\ Len(TurnsAfter(u, verdict)) < MaxTurns
    /\ \E role \in Role : traj'[u] = Decided(traj[u].cand, TurnsAfter(u, verdict), role)

\* Its trajectory ends, or fails.
Ends(u, verdict) ==
    /\ traj[u].status = "running" /\ call[u].at = "answered"
    /\ traj[u].role # "verifier" => verdict = "None"
    /\ ledger'[u] = ledger[u] /\ call'[u].at = "none"
    /\ traj'[u] = Ended(traj[u].cand, TurnsAfter(u, verdict), Accepts(TurnsAfter(u, verdict), verdict))

Fails(u) ==
    /\ traj[u].status = "running" /\ call[u].at # "answered"
    /\ ledger'[u] = ledger[u] /\ call'[u].at = "none"
    /\ traj'[u] = NoTrajectory(traj[u].cand, "failed")

Changes(u) ==
    \/ Unseen(u) \/ Answered(u) \/ Begins(u) \/ Fails(u)
    \/ \E verdict \in Verdict : GoesOn(u, verdict) \/ Ends(u, verdict)

\* Leave moves t out of the POST, and at most one other into it.
LEMMA LeaveEffect ==
    ASSUME PoolTypeOK, NEW t \in Tasks, NEW next, NEW a, Leave(t, next, a)
    PROVE  /\ call[t].at = "posting" /\ call'[t].at = next
           /\ \A u \in Tasks \ {t} :
                  \/ call'[u] = call[u]
                  \/ call[u].at = "queued" /\ call'[u].at = "posting"
  <1>1. CASE \E w \in Queued(call[t].provider) :
                call' = [call EXCEPT ![t] = Moved(t, next, a), ![w].at = "posting"]
    <2>1. PICK w \in Queued(call[t].provider) :
             call' = [call EXCEPT ![t] = Moved(t, next, a), ![w].at = "posting"]
      BY <1>1
    <2>2. w \in Tasks /\ w # t /\ call[w].at = "queued" /\ call[w] \in Call /\ call[t].at = "posting"
      BY <2>1 DEF Leave, Queued, PoolTypeOK
    <2> QED
      BY <2>1, <2>2 DEF PoolTypeOK, Call, Moved
  <1>2. CASE call' = [call EXCEPT ![t] = Moved(t, next, a)]
    BY <1>2 DEF Leave, PoolTypeOK, Moved
  <1> QED
    BY <1>1, <1>2 DEF Leave

LEMMA TaskStep ==
    ASSUME TypeOK, CallInv, Next, ~NextBatch, ~NextCandidate
    PROVE  /\ UNCHANGED <<theta, first>>
           /\ \A u \in Tasks : Changes(u)
<1>1. PoolTypeOK /\ traj \in [Tasks -> Trajectory]
  BY DEF TypeOK
<1>2. ASSUME NEW t \in Tasks, NEW at, NEW r, r.at = at, call' = [call EXCEPT ![t] = r]
      PROVE  call'[t].at = at /\ \A u \in Tasks \ {t} : call'[u] = call[u]
  BY <1>1, <1>2 DEF PoolTypeOK
<1>3. ASSUME NEW t \in Tasks, Forgotten(t)
      PROVE  call'[t].at = "none" /\ \A u \in Tasks \ {t} : call'[u] = call[u]
  BY <1>2, <1>3 DEF Forgotten, Moved
<1>4. ASSUME NEW t \in Tasks, NEW p \in Providers, Calling(t, p)
      PROVE  call'[t].at = "starting" /\ \A u \in Tasks \ {t} : call'[u] = call[u]
  BY <1>2, <1>4 DEF Calling
<1>5. ASSUME NEW t \in Tasks, NEW r, traj' = [traj EXCEPT ![t] = r]
      PROVE  traj'[t] = r /\ \A u \in Tasks \ {t} : traj'[u] = traj[u]
  BY <1>1, <1>5
<1>6. ASSUME NEW t \in Tasks, Enter(t), UNCHANGED traj
      PROVE  \A u \in Tasks : Unseen(u)
  <2>1. /\ call[t].at \in {"starting", "backoff"} /\ call'[t].at \in {"posting", "queued"}
        /\ \A u \in Tasks \ {t} : call'[u] = call[u]
    BY <1>1, <1>6 DEF Enter, Moved, PoolTypeOK
  <2>2. UNCHANGED <<traj, ledger>>
    BY <1>6 DEF Enter
  <2> QED
    BY <2>1, <2>2 DEF Unseen
<1>7. ASSUME NEW t \in Tasks, PostEnds(t), UNCHANGED traj
      PROVE  \A u \in Tasks : Unseen(u) \/ Answered(u)
  <2>1. CASE Answer(t)
    <3>1. /\ call[t].at = "posting" /\ call'[t].at = "answered"
          /\ \A u \in Tasks \ {t} : \/ call'[u] = call[u]
                                    \/ call[u].at = "queued" /\ call'[u].at = "posting"
      BY <1>1, <2>1, LeaveEffect DEF Answer
    <3>2. ledger'[t] = ledger[t] + 1 /\ \A u \in Tasks \ {t} : ledger'[u] = ledger[u]
      BY <1>1, <2>1 DEF Answer, PoolTypeOK
    <3> QED
      BY <1>7, <3>1, <3>2 DEF Unseen, Answered
  <2>2. CASE Reject(t) \/ Transient(t)
    <3>1. PICK next \in {"failed", "backoff"}, a \in {0, call[t].attempt} : Leave(t, next, a)
      BY <2>2 DEF Reject, Transient
    <3>2. UNCHANGED ledger
      BY <2>2 DEF Reject, Transient
    <3>3. /\ call[t].at = "posting" /\ call'[t].at = next
          /\ \A u \in Tasks \ {t} : \/ call'[u] = call[u]
                                    \/ call[u].at = "queued" /\ call'[u].at = "posting"
      BY <1>1, <3>1, LeaveEffect
    <3> QED
      BY <1>7, <3>2, <3>3 DEF Unseen
  <2> QED
    BY <1>7, <2>1, <2>2 DEF PostEnds
<1>8. ASSUME NEW t \in Tasks, NEW role \in Role, NEW p \in Providers, Begin(t, role, p)
      PROVE  UNCHANGED <<theta, first>> /\ \A u \in Tasks : Unseen(u) \/ Begins(u)
  <2>1. /\ traj[t].status = "created" /\ UNCHANGED <<ledger, theta, first>>
        /\ Calling(t, p) /\ traj' = [traj EXCEPT ![t] = Decided(traj[t].cand, <<>>, role)]
    BY <1>8 DEF Begin, Decide
  <2>2. call'[t].at = "starting" /\ \A u \in Tasks \ {t} : call'[u] = call[u]
    BY <1>4, <2>1
  <2>3. /\ traj'[t] = Decided(traj[t].cand, <<>>, role)
        /\ \A u \in Tasks \ {t} : traj'[u] = traj[u]
    BY <1>5, <2>1
  <2>4. Begins(t)
    BY <2>1, <2>2, <2>3 DEF Begins
  <2>5. \A u \in Tasks \ {t} : Unseen(u)
    BY <2>1, <2>2, <2>3 DEF Unseen
  <2> QED
    BY <2>1, <2>4, <2>5
<1>9. ASSUME NEW t \in Tasks, NEW verdict \in Verdict, Turn(t, verdict)
      PROVE  UNCHANGED <<theta, first>> /\
             \A u \in Tasks : Unseen(u) \/ GoesOn(u, verdict) \/ Ends(u, verdict)
  <2>1. /\ traj[t].status = "running" /\ call[t].at = "answered"
        /\ traj[t].role # "verifier" => verdict = "None"
        /\ UNCHANGED <<ledger, theta, first>>
    BY <1>9, TurnCases
  <2>2. CASE Forgotten(t) /\
             traj' = [traj EXCEPT ![t] = Ended(traj[t].cand, TurnsAfter(t, verdict),
                                               Accepts(TurnsAfter(t, verdict), verdict))]
    <3> DEFINE r == Ended(traj[t].cand, TurnsAfter(t, verdict),
                          Accepts(TurnsAfter(t, verdict), verdict))
    <3>1. call'[t].at = "none" /\ \A u \in Tasks \ {t} : call'[u] = call[u]
      BY <1>3, <2>2
    <3>2. traj'[t] = r /\ \A u \in Tasks \ {t} : traj'[u] = traj[u]
      <4> HIDE DEF r
      <4>1. traj' = [traj EXCEPT ![t] = r]
        BY <2>2 DEF r
      <4> QED
        BY <1>5, <4>1
    <3>3. Ends(t, verdict)
      BY <2>1, <3>1, <3>2 DEF Ends
    <3>4. \A u \in Tasks \ {t} : Unseen(u)
      BY <2>1, <3>1, <3>2 DEF Unseen
    <3> QED
      BY <2>1, <3>3, <3>4
  <2>3. CASE \E role \in Role, p \in Providers :
                /\ Len(TurnsAfter(t, verdict)) < MaxTurns
                /\ traj' = [traj EXCEPT ![t] = Decided(traj[t].cand, TurnsAfter(t, verdict), role)]
                /\ Calling(t, p)
    <3>1. PICK role \in Role, p \in Providers :
             /\ Len(TurnsAfter(t, verdict)) < MaxTurns
             /\ traj' = [traj EXCEPT ![t] = Decided(traj[t].cand, TurnsAfter(t, verdict), role)]
             /\ Calling(t, p)
      BY <2>3
    <3>2. call'[t].at = "starting" /\ \A u \in Tasks \ {t} : call'[u] = call[u]
      BY <1>4, <3>1
    <3>3. /\ traj'[t] = Decided(traj[t].cand, TurnsAfter(t, verdict), role)
          /\ \A u \in Tasks \ {t} : traj'[u] = traj[u]
      BY <1>5, <3>1
    <3>4. GoesOn(t, verdict)
      BY <2>1, <3>1, <3>2, <3>3 DEF GoesOn
    <3>5. \A u \in Tasks \ {t} : Unseen(u)
      BY <2>1, <3>2, <3>3 DEF Unseen
    <3> QED
      BY <2>1, <3>4, <3>5
  <2> QED
    BY <1>9, <2>1, <2>2, <2>3, TurnCases
<1>10. ASSUME NEW t \in Tasks, TimeOut(t) \/ CallFails(t)
       PROVE  UNCHANGED <<theta, first>> /\ \A u \in Tasks : Unseen(u) \/ Fails(u)
  <2>1. /\ traj[t].status = "running" /\ call[t].at # "answered"
        /\ UNCHANGED <<ledger, theta, first>>
        /\ traj' = [traj EXCEPT ![t] = NoTrajectory(traj[t].cand, "failed")]
    BY <1>10 DEF TimeOut, CallFails, Failed, Cancel, Leave, Suspended
  <2>2. /\ call'[t].at = "none"
        /\ \A u \in Tasks \ {t} : \/ call'[u] = call[u]
                                  \/ call[u].at = "queued" /\ call'[u].at = "posting"
    <3>1. Forgotten(t) \/ Leave(t, "none", 0)
      BY <1>10 DEF TimeOut, CallFails, Cancel
    <3> QED
      BY <1>1, <1>3, <3>1, LeaveEffect
  <2> QED
    BY <1>5, <2>1, <2>2 DEF Unseen, Fails
<1> QED
  BY <1>6, <1>7, <1>8, <1>9, <1>10 DEF Next, Ready, Responses, Timeouts, Changes

-----------------------------------------------------------------------------
(***************************************************************************)
(* Trajectories: safety                                                    *)
(***************************************************************************)
\* The parts of IInv about trajectories.
TrajectoryInv ==
    /\ CallInv /\ LiveInv /\ BatchInv
    /\ DecidedByOwnTheta /\ AcceptedAnswer /\ Metered

\* The same for one task.
Fine(u) ==
    /\ traj[u].status = "running" <=> call[u].at # "none"
    /\ Live(u) => traj[u].cand = theta
    /\ u >= first => traj[u].status = "idle"
    /\ traj[u].status \in {"idle", "created"} => ledger[u] = 0
    /\ traj[u].status \in {"idle", "created", "failed"} => traj[u].turns = <<>>
    /\ traj[u].status = "running" => Len(traj[u].turns) < MaxTurns
    /\ traj[u].status = "running" => traj[u].by = traj[u].cand
    /\ \A i \in DOMAIN traj[u].turns : traj[u].turns[i].by = traj[u].cand
    /\ LET tr == traj[u]
       IN  /\ tr.status = "done" /\ tr.terminated_by = "accept" /\ VerifierRequiresPriorWorker =>
                /\ tr.turns[Len(tr.turns)].role = "verifier"
                /\ tr.turns[Len(tr.turns)].verdict = "ACCEPT"
                /\ tr.final \in 1..(Len(tr.turns) - 1) /\ tr.turns[tr.final].role = "worker"
                /\ \A i \in (tr.final + 1)..Len(tr.turns) : tr.turns[i].role # "worker"
           /\ tr.status = "running" =>
                ledger[u] = Len(tr.turns) + IF call[u].at = "answered" THEN 1 ELSE 0
           /\ tr.status = "done" => ledger[u] = Len(tr.turns)
           /\ tr.status = "failed" => ledger[u] < MaxTurns

LEMMA TrajectoryInvIsFine == TrajectoryInv <=> \A u \in Tasks : Fine(u)
  BY DEF TrajectoryInv, Fine, CallInv, LiveInv, BatchInv, DecidedByOwnTheta, AcceptedAnswer, Metered

\* A trajectory without turns is fine for what it is not.
LEMMA FreshIsFine ==
    ASSUME NEW u \in Tasks, NEW status \in {"idle", "created"}, theta' \in Candidates,
           traj'[u] = NoTrajectory(theta', status),
           call'[u].at = "none", ledger'[u] = 0, u >= first' => status = "idle"
    PROVE  Fine(u)'
  <1>1. /\ traj'[u].status = status /\ traj'[u].turns = <<>> /\ traj'[u].cand = theta'
    BY NoTrajectoryType
  <1> QED
    BY <1>1 DEF Fine, Live

LEMMA TrajectoryInit == Init => TrajectoryInv
<1> SUFFICES ASSUME Init, NEW u \in Tasks PROVE Fine(u)
  BY TrajectoryInvIsFine
<1>1. 1 \in Candidates /\ theta = 1 /\ first = 1
  BY CoordinationAssumption DEF Init, Candidates
<1>2. traj[u] = NoTrajectory(1, "idle") /\ call[u].at = "none" /\ ledger[u] = 0
  BY DEF Init, PoolInit
<1>3. traj[u].status = "idle" /\ traj[u].turns = <<>> /\ traj[u].cand = 1
  BY <1>1, <1>2, NoTrajectoryType
<1> QED
  BY <1>1, <1>2, <1>3 DEF Fine, Live

\* The turn of an accepted verdict ends a trajectory as AcceptedAnswer says.
LEMMA AcceptedTurns ==
    ASSUME NEW turns \in Seq(TurnRecord), NEW verdict, Accepts(turns, verdict),
           VerifierRequiresPriorWorker, Len(turns) > 0,
           turns[Len(turns)].verdict = verdict,
           turns[Len(turns)].role # "verifier" => verdict = "None"
    PROVE  /\ turns[Len(turns)].role = "verifier" /\ turns[Len(turns)].verdict = "ACCEPT"
           /\ FinalAnswer(turns) \in 1..(Len(turns) - 1)
           /\ turns[FinalAnswer(turns)].role = "worker"
           /\ \A i \in (FinalAnswer(turns) + 1)..Len(turns) : turns[i].role # "worker"
  <1>1. verdict = "ACCEPT" /\ TurnsOf(turns, {"worker"}) # {}
    BY DEF Accepts
  <1>2. turns[Len(turns)].role = "verifier"
    BY <1>1
  <1>3. /\ Len(turns) \in Nat /\ DOMAIN turns = 1..Len(turns)
        /\ \A i \in TurnsOf(turns, {"worker"}) : i \in 1..Len(turns) /\ turns[i].role = "worker"
        /\ \A i \in 1..Len(turns) : turns[i].role = "worker" => i \in TurnsOf(turns, {"worker"})
    BY DEF TurnsOf
  <1>4. /\ FinalAnswer(turns) \in TurnsOf(turns, {"worker"})
        /\ \A i \in TurnsOf(turns, {"worker"}) : i <= FinalAnswer(turns)
    BY <1>1, FinalAnswerType
  <1> QED
    BY <1>1, <1>2, <1>3, <1>4

LEMMA TaskKeepsFine ==
    ASSUME TypeOK, TypeOK', UNCHANGED <<theta, first>>, BatchInv, NEW u \in Tasks, Fine(u), Changes(u)
    PROVE  Fine(u)'
<1>1. /\ traj[u] \in Trajectory /\ traj[u].cand \in Candidates /\ theta \in Candidates
      /\ traj[u].turns \in Seq(TurnRecord) /\ Len(traj[u].turns) \in Nat
      /\ ledger[u] \in Nat /\ ledger'[u] \in Nat /\ MaxTurns \in Nat \ {0}
  BY CoordinationAssumption DEF TypeOK, PoolTypeOK, Trajectory
<1>2. CASE Unseen(u)
  BY <1>2 DEF Unseen, Fine, Live
<1>3. CASE Answered(u)
  BY <1>1, <1>3 DEF Answered, Fine, Live
<1>4. CASE Begins(u)
  <2>1. /\ traj'[u].status = "running" /\ traj'[u].cand = traj[u].cand
        /\ traj'[u].turns = <<>> /\ traj'[u].by = theta
    <3>1. PICK role \in Role : traj'[u] = Decided(traj[u].cand, <<>>, role)
      BY <1>4 DEF Begins
    <3> QED
      BY <3>1 DEF Decided
  <2>2. /\ ledger'[u] = 0 /\ call'[u].at = "starting" /\ ~(u >= first) /\ traj[u].cand = theta
    BY <1>4 DEF Begins, Fine, Live
  <2> QED
    BY <1>1, <2>1, <2>2 DEF Fine, Live
<1>5. CASE Fails(u)
  <2>1. traj'[u].status = "failed" /\ traj'[u].turns = <<>> /\ traj'[u].cand = traj[u].cand
    BY <1>1, <1>5, NoTrajectoryType DEF Fails
  <2>2. /\ traj[u].status = "running" /\ call[u].at # "answered"
        /\ ledger'[u] = ledger[u] /\ call'[u].at = "none"
    BY <1>5 DEF Fails
  <2>3. Len(traj[u].turns) < MaxTurns /\ ~(u >= first)
    BY <2>2 DEF Fine
  <2>4. ledger'[u] < MaxTurns
    <3>1. ledger[u] = Len(traj[u].turns) + 0
      BY <2>2 DEF Fine
    <3> QED
      BY <1>1, <2>2, <2>3, <3>1
  <2> QED
    BY <2>1, <2>2, <2>3, <2>4 DEF Fine, Live
<1>6. ASSUME NEW verdict \in Verdict, GoesOn(u, verdict) \/ Ends(u, verdict)
      PROVE  Fine(u)'
  <2> DEFINE new == TurnsAfter(u, verdict)
  <2>1. /\ traj[u].status = "running" /\ call[u].at = "answered" /\ ledger'[u] = ledger[u]
    BY <1>6 DEF GoesOn, Ends
  <2>2. /\ ledger'[u] = Len(traj[u].turns) + 1 /\ ~(u >= first) /\ traj[u].cand = theta
        /\ traj[u].by = traj[u].cand
        /\ \A i \in DOMAIN traj[u].turns : traj[u].turns[i].by = traj[u].cand
    BY <2>1 DEF Fine, Live
  <2>3. /\ new \in Seq(TurnRecord) /\ Len(new) = Len(traj[u].turns) + 1 /\ Len(new) <= MaxTurns
        /\ \A i \in 1..Len(traj[u].turns) : new[i] = traj[u].turns[i]
        /\ new[Len(new)].role = traj[u].role /\ new[Len(new)].verdict = verdict
        /\ new[Len(new)].by = traj[u].by
    BY <2>1, TurnsAfterType
  <2> HIDE DEF new
  <2>4. \A i \in DOMAIN new : new[i].by = traj[u].cand
    <3>1. DOMAIN new = 1..Len(new) /\ DOMAIN traj[u].turns = 1..Len(traj[u].turns)
      BY <1>1, <2>3
    <3>2. ASSUME NEW i \in 1..Len(traj[u].turns) PROVE new[i].by = traj[u].cand
      BY <2>2, <2>3, <3>1
    <3>3. new[Len(new)].by = traj[u].cand
      BY <2>2, <2>3
    <3>4. \A i \in 1..Len(new) : i \in 1..Len(traj[u].turns) \/ i = Len(new)
      BY <1>1, <2>3
    <3> QED
      BY <3>1, <3>2, <3>3, <3>4
  <2>5. CASE GoesOn(u, verdict)
    <3>1. PICK role \in Role : traj'[u] = Decided(traj[u].cand, new, role)
      BY <2>5 DEF GoesOn, new
    <3>2. /\ traj'[u].status = "running" /\ traj'[u].cand = traj[u].cand
          /\ traj'[u].turns = new /\ traj'[u].by = theta
      BY <1>1, <2>3, <3>1, DecidedType
    <3>3. call'[u].at = "starting" /\ Len(new) < MaxTurns
      BY <2>5 DEF GoesOn, new
    <3> QED
      BY <1>1, <2>2, <2>3, <2>4, <3>2, <3>3 DEF Fine, Live
  <2>6. CASE Ends(u, verdict)
    <3> DEFINE accept == Accepts(new, verdict)
    <3>1. accept \in BOOLEAN
      BY DEF Accepts
    <3>2. /\ traj'[u] = Ended(traj[u].cand, new, accept) /\ call'[u].at = "none"
          /\ traj[u].role # "verifier" => verdict = "None"
      BY <2>6 DEF Ends, new
    <3>3. accept /\ VerifierRequiresPriorWorker =>
              /\ new[Len(new)].role = "verifier" /\ new[Len(new)].verdict = "ACCEPT"
              /\ FinalAnswer(new) \in 1..(Len(new) - 1)
              /\ new[FinalAnswer(new)].role = "worker"
              /\ \A i \in (FinalAnswer(new) + 1)..Len(new) : new[i].role # "worker"
      <4> SUFFICES ASSUME accept, VerifierRequiresPriorWorker
                   PROVE  /\ new[Len(new)].role = "verifier" /\ new[Len(new)].verdict = "ACCEPT"
                          /\ FinalAnswer(new) \in 1..(Len(new) - 1)
                          /\ new[FinalAnswer(new)].role = "worker"
                          /\ \A i \in (FinalAnswer(new) + 1)..Len(new) : new[i].role # "worker"
        OBVIOUS
      <4>1. new \in Seq(TurnRecord) /\ Len(new) > 0
        BY <1>1, <2>3
      <4>2. /\ new[Len(new)].verdict = verdict
            /\ new[Len(new)].role # "verifier" => verdict = "None"
        BY <2>3, <3>2
      <4> QED
        BY <4>1, <4>2, AcceptedTurns
    <3> HIDE DEF accept
    <3>4. /\ traj'[u].status = "done" /\ traj'[u].cand = traj[u].cand /\ traj'[u].turns = new
          /\ traj'[u].final = FinalAnswer(new)
          /\ traj'[u].terminated_by = "accept" => accept
      BY <1>1, <2>3, <3>1, <3>2, EndedType
    <3> QED
      BY <1>1, <2>2, <2>3, <2>4, <3>2, <3>3, <3>4 DEF Fine, Live
  <2> QED
    BY <1>6, <2>5, <2>6
<1> QED
  BY <1>2, <1>3, <1>4, <1>5, <1>6 DEF Changes

LEMMA TrajectoryStep ==
    ASSUME TypeOK, TypeOK', TrajectoryInv, [Next]_vars
    PROVE  TrajectoryInv'
<1> SUFFICES ASSUME NEW u \in Tasks PROVE Fine(u)'
  BY DEF TrajectoryInv, Fine, CallInv, LiveInv, BatchInv, DecidedByOwnTheta, AcceptedAnswer, Metered
<1>1. Fine(u)
  BY TrajectoryInvIsFine
<1>2. CASE UNCHANGED vars
  BY <1>1, <1>2 DEF vars, poolVars, Fine, Live
<1>3. CASE Gathered
  <2>1. ~Live(u) /\ call[u].at = "none"
    BY <1>1, <1>3 DEF Gathered, Fine, Live
  <2>2. CASE NextBatch
    <3>1. UNCHANGED <<call, ledger, theta>> /\ first' = first + BatchSize /\ theta \in Candidates
      BY <2>2 DEF NextBatch, poolVars, TypeOK
    <3>2. CASE u \in first..(first + BatchSize - 1)
      <4>1. u >= first /\ ~(u >= first')
        BY <3>1, <3>2, CoordinationAssumption DEF TypeOK
      <4>2. traj'[u] = NoTrajectory(theta', "created") /\ ledger'[u] = 0
        BY <1>1, <2>2, <3>1, <3>2, <4>1 DEF NextBatch, Fine
      <4> QED
        BY <2>1, <3>1, <4>1, <4>2, FreshIsFine
    <3>3. CASE u \notin first..(first + BatchSize - 1)
      <4>1. traj'[u] = traj[u] /\ (u >= first' => u >= first)
        BY <2>2, <3>1, <3>3, CoordinationAssumption DEF NextBatch, Tasks, TypeOK
      <4> QED
        BY <1>1, <3>1, <4>1 DEF Fine, Live
    <3> QED
      BY <3>2, <3>3
  <2>3. CASE NextCandidate
    <3>1. /\ call' = call /\ ledger'[u] = 0 /\ theta' \in Candidates
          /\ traj'[u] = NoTrajectory(theta', "idle")
      BY <2>1, <2>3 DEF NextCandidate, TypeOK
    <3> QED
      BY <2>1, <3>1, FreshIsFine
  <2>4. CASE Next /\ ~NextBatch /\ ~NextCandidate
    BY <1>1, <2>4, TaskStep, TaskKeepsFine DEF TrajectoryInv
  <2> QED
    BY <1>2, <2>2, <2>3, <2>4
<1>4. CASE Next /\ ~Gathered
  <2>1. ~NextBatch /\ ~NextCandidate
    BY <1>4 DEF NextBatch, NextCandidate
  <2> QED
    BY <1>1, <1>4, <2>1, TaskStep, TaskKeepsFine DEF TrajectoryInv
<1> QED
  BY <1>2, <1>3, <1>4

-----------------------------------------------------------------------------
(***************************************************************************)
(* The theorems                                                            *)
(***************************************************************************)
\* The strengthening of the invariants is inductive.
LEMMA Invariance == Spec => []IInv
<1>1. Init => IInv
  BY TypeInit, PermitsInit, TrajectoryInit DEF IInv, TrajectoryInv
<1>2. IInv /\ [Next]_vars => IInv'
  <2> SUFFICES ASSUME IInv, [Next]_vars PROVE IInv'
    OBVIOUS
  <2>1. TypeOK' /\ AttemptInv'
    BY TypeStep DEF IInv
  <2>2. PermitsKept'
    BY PermitsStep DEF IInv
  <2>3. TrajectoryInv'
    BY <2>1, TrajectoryStep DEF IInv, TrajectoryInv
  <2> QED
    BY <2>1, <2>2, <2>3 DEF IInv, TrajectoryInv
<1> QED
  BY <1>1, <1>2, PTL DEF Spec

\* Calls, semaphores, the ledger and trajectories stay well-formed; in particular no
\* call makes more attempts than max_retries and no trajectory takes more than K turns.
THEOREM TypeCorrect == Spec => []TypeOK
  BY Invariance, PTL DEF IInv

\* Retries, errors, timeouts and cancellations neither lose nor invent a permit of a
\* provider's semaphore, and no attempt waits while one is free.
THEOREM PermitsConserved == Spec => []PermitsKept
  BY Invariance, PTL DEF IInv

\* Overwriting the shared policy's weights for the next candidate never lets it decide
\* a turn of a trajectory that scores another one.
THEOREM OwnTheta == Spec => []DecidedByOwnTheta
  BY Invariance, PTL DEF IInv

\* A trajectory that a Verifier accepted answers with the latest output of a Worker.
THEOREM AcceptedAnswers == Spec => []AcceptedAnswer
  BY Invariance, PTL DEF IInv

\* The cost ledger has each recorded turn exactly once, whatever was retried.
THEOREM LedgerExact == Spec => []Metered
  BY Invariance, PTL DEF IInv
=============================================================================
