---------------------------- MODULE FuguJobsProofs ----------------------------
(***************************************************************************)
(* What holds of Fugu's jobs for any pool, recursion depth, proposals,     *)
(* tasks and caps: what the gate admits runs as it is written, the         *)
(* spending cap lets no further run begin, every call is charged once, and *)
(* the policy is updated from whole batches that differ in reward.         *)
(***************************************************************************)
EXTENDS FuguJobs, SumsProofs, SequenceTheorems

-----------------------------------------------------------------------------
(***************************************************************************)
(* The inductive invariant                                                 *)
(***************************************************************************)
StepRow == [model : 0..NWorkers, all : BOOLEAN, ids : SUBSET Int]

\* What the gate has admitted: the i-th step, which is step i - 1 of the code,
\* reads earlier ones.
Admitted(steps) ==
    /\ steps \in Seq(StepRow)
    /\ \A i \in DOMAIN steps : steps[i].ids \subseteq 0..i-2

\* A workflow that has not ended.
FrameSound(f) ==
    /\ f \in [steps : {f.steps}, outputs : {f.outputs}, tokens : {f.tokens}, calls : {f.calls}]
    /\ Admitted(f.steps)
    /\ f.outputs \in Seq(Outputs) /\ Len(f.outputs) < Len(f.steps)

StackSound(s) == s \in Seq(Range(s)) /\ \A i \in DOMAIN s : FrameSound(s[i])

Reading(s) == ContextBlock(Current(Last(s)), Last(s).outputs)

Shaped(r) ==
    /\ r \in [call : {r.call}, stack : {r.stack}, parsed : {r.parsed}, outputs : {r.outputs},
              tokens : {r.tokens}, calls : {r.calls}]
    /\ r.call \in [kind : {r.call.kind}, to : {r.call.to}, reads : {r.call.reads}]

\* A run that waits for a call, or none.
RunSound(r) ==
    /\ Shaped(r)
    /\ StackSound(r.stack)
    /\ r.stack = <<>> => r \in {Idle, Proposing}
    /\ r.stack # <<>> => /\ r.parsed = TRUE /\ r.call.kind \in {"propose", "work"}
                         /\ r.call.reads = Reading(r.stack)

\* Only a task with a permit runs; train() runs one task at a time.
Placed ==
    /\ job \in {"evaluate", "train", "train constrained"}
    /\ run = [t \in Tasks |-> run[t]]
    /\ pc \in [Tasks -> {"new", "waiting", "running", "done"}]
    /\ job = "evaluate" => \A t \in Tasks : run[t] # Idle => pc[t] = "running"
    /\ job # "evaluate" => /\ \A t \in Tasks : pc[t] = "new"
                           /\ \A t, u \in Tasks : run[t] # Idle /\ run[u] # Idle => t = u

\* A constrained policy proposes nothing that the gate rejects.
RewardValues == IF job = "train constrained" THEN {1, 2} ELSE {0, 1, 2}

RewardsSound(tr) ==
    /\ {"rewards", "groups"} \subseteq DOMAIN tr
    /\ tr.rewards \in Seq(RewardValues) /\ tr.groups \in Seq(Seq(RewardValues))

Books == RewardsSound(trainer) /\ meter.runs \in Nat

Inv == Placed /\ Books /\ \A t \in Tasks : RunSound(run[t])

-----------------------------------------------------------------------------
(***************************************************************************)
(* The parse gate                                                          *)
(***************************************************************************)
Readable(list) ==
    list \in Seq(Range(list)) /\ \A v \in Range(list) : v.k = "digits" => v.n \in Nat

ReadableText(text) ==
    text \in Seq(Range(text)) /\ \A p \in DOMAIN text : Readable(text[p].list)

LEMMA MaxIsGreatest ==
    ASSUME NEW n \in Nat, NEW S \in SUBSET (0..n), S # {}
    PROVE  Max(S) \in S /\ \A j \in S : Max(S) >= j
<1> DEFINE below == {k \in Nat : n - k \in S}
<1>1. below \in SUBSET Nat /\ below # {}
  <2>1. PICK i \in S : TRUE
    OBVIOUS
  <2>2. n - i \in below
    BY <2>1
  <2> QED BY <2>2
<1>2. PICK k \in below : \A l \in below : k <= l
  <2> HIDE DEF below
  <2> QED BY <1>1, Least
<1>3. \A j \in S : n - k >= j
  <2> SUFFICES ASSUME NEW j \in S PROVE n - k >= j
    OBVIOUS
  <2>1. n - j \in below
    OBVIOUS
  <2> QED BY <1>2, <2>1
<1>4. n - k \in S
  OBVIOUS
<1> QED BY <1>3, <1>4 DEF Max

\* An access list that passes quotes earlier steps only.
LEMMA AccessSound ==
    ASSUME NEW acc, NEW i \in Nat, NormalizeAccess(acc, i).ok, acc.k = "digits" => acc.n \in Nat
    PROVE  /\ NormalizeAccess(acc, i).all \in BOOLEAN
           /\ NormalizeAccess(acc, i).ids \subseteq 0..i-1
<1> DEFINE alone(kinds) == acc.k = "list" /\ Len(acc.e) = 1 /\ acc.e[1].k \in kinds
           reads == {v.n : v \in Range(acc.e)}
           norm == NormalizeAccess(acc, i)
<1>1. norm = CASE acc.k = "all" \/ alone({"all"}) -> AllPrior
               [] acc.k \in {"none", "blank", "query"} \/ alone({"blank", "query"}) -> Prior({})
               [] acc.k = "digits" /\ acc.n < i -> Prior({acc.n})
               [] /\ acc.k = "list"
                  /\ \A v \in Range(acc.e) : v.k \in {"int", "digits"} /\ v.n \in 0..i-1
                    -> Prior(reads)
               [] OTHER -> Rejected
  BY DEF NormalizeAccess
<1>2. \/ norm = AllPrior \/ norm = Prior({}) \/ norm = Rejected
      \/ acc.k = "digits" /\ acc.n < i /\ norm = Prior({acc.n})
      \/ reads \subseteq 0..i-1 /\ norm = Prior(reads)
  <2> HIDE DEF norm
  <2>1. CASE acc.k = "all" \/ alone({"all"})
    BY <1>1, <2>1
  <2>2. CASE acc.k \in {"none", "blank", "query"} \/ alone({"blank", "query"})
    BY <1>1, <2>2
  <2>3. CASE acc.k = "digits"
    BY <1>1, <2>3
  <2>4. CASE /\ acc.k = "list" /\ ~alone({"all"}) /\ ~alone({"blank", "query"})
             /\ \A v \in Range(acc.e) : v.k \in {"int", "digits"} /\ v.n \in 0..i-1
    <3>1. norm = Prior(reads)
      BY <1>1, <2>4
    <3>2. reads \subseteq 0..i-1
      BY <2>4
    <3> QED BY <3>1, <3>2
  <2>5. CASE /\ acc.k \notin {"all", "none", "blank", "query", "digits"}
             /\ ~(/\ acc.k = "list"
                  /\ \A v \in Range(acc.e) : v.k \in {"int", "digits"} /\ v.n \in 0..i-1)
             /\ ~alone({"all"}) /\ ~alone({"blank", "query"})
    BY <1>1, <2>5
  <2> QED BY <2>1, <2>2, <2>3, <2>4, <2>5
<1>3. norm.ok
  OBVIOUS
<1> HIDE DEF norm, reads
<1>4. norm.all \in BOOLEAN /\ norm.ids \subseteq 0..i-1
  <2>1. norm # Rejected
    BY <1>3 DEF Rejected
  <2>2. CASE norm = AllPrior \/ norm = Prior({})
    <3>1. norm.ids = {}
      BY <2>2 DEF AllPrior, Prior
    <3>2. norm.all \in BOOLEAN
      <4>1. AllPrior.all \in BOOLEAN /\ \A s : Prior(s).all \in BOOLEAN
        BY DEF AllPrior, Prior
      <4> QED BY <2>2, <4>1
    <3> QED BY <3>1, <3>2
  <2>3. CASE acc.k = "digits" /\ acc.n < i /\ norm = Prior({acc.n})
    BY <2>3 DEF Prior
  <2>4. CASE reads \subseteq 0..i-1 /\ norm = Prior(reads)
    BY <2>4 DEF Prior
  <2> QED BY <1>2, <2>1, <2>2, <2>3, <2>4
<1> QED BY <1>4 DEF norm

LEMMA ValidatedSound ==
    ASSUME NEW models, NEW subtasks, NEW access, Readable(access), NEW allowSelf,
           ValidateWorkflowLists(models, subtasks, access, allowSelf).ok
    PROVE  LET steps == ValidateWorkflowLists(models, subtasks, access, allowSelf).steps
           IN Admitted(steps) /\ Len(steps) \in Nat \ {0}
<1> DEFINE wf == ValidateWorkflowLists(models, subtasks, access, allowSelf)
           n == Len(models)
           acc == IF access = <<>> /\ n = 1 THEN <<PyList(<<>>)>> ELSE access
           hi == IF allowSelf THEN NWorkers ELSE NWorkers - 1
           norm == [i \in 1..n |-> NormalizeAccess(acc[i], i - 1)]
           gate == /\ n \in 1..MAX_STEPS /\ Len(subtasks) = n /\ Len(acc) = n
                   /\ \A i \in 1..n : /\ models[i].k = "int" /\ models[i].n \in 0..hi
                                      /\ IsText(subtasks[i])
                                      /\ norm[i].ok
           steps == [i \in 1..n |-> [model |-> models[i].n,
                                     all |-> norm[i].all, ids |-> norm[i].ids]]
<1>1. wf = IF gate THEN [ok |-> TRUE, steps |-> steps] ELSE NoWorkflow
  BY DEF ValidateWorkflowLists
<1>2. gate /\ wf.steps = steps
  <2> HIDE DEF wf, gate, steps
  <2>1. wf.ok
    BY DEF wf
  <2> QED BY <1>1, <2>1 DEF NoWorkflow
<1>3. n \in Nat \ {0}
  BY <1>2, FuguAssumption
<1>4. \A i \in 1..n : acc[i].k = "digits" => acc[i].n \in Nat
  <2>1. CASE access = <<>> /\ n = 1
    BY <2>1 DEF PyList
  <2>2. CASE acc = access
    <3>1. DOMAIN access = 1..n
      BY <1>2, <2>2 DEF Readable
    <3> QED BY <2>2, <3>1 DEF Readable, Range
  <2> QED BY <2>1, <2>2
<1>5. \A i \in 1..n : /\ models[i].n \in 0..NWorkers /\ norm[i].all \in BOOLEAN
                      /\ norm[i].ids \subseteq 0..i-2
  <2> SUFFICES ASSUME NEW i \in 1..n
               PROVE  /\ models[i].n \in 0..NWorkers /\ norm[i].all \in BOOLEAN
                      /\ norm[i].ids \subseteq 0..i-2
    OBVIOUS
  <2>1. norm[i] = NormalizeAccess(acc[i], i - 1) /\ norm[i].ok
    BY <1>2
  <2>5. i - 1 \in Nat
    BY <1>3
  <2>2. models[i].n \in 0..NWorkers
    <3>1. models[i].n \in 0..hi
      <4> HIDE DEF hi, acc, norm, steps
      <4> QED BY <1>2
    <3>2. hi \in Int /\ hi <= NWorkers /\ NWorkers \in Nat
      BY FuguAssumption
    <3> HIDE DEF hi
    <3> QED BY <3>1, <3>2
  <2>3. acc[i].k = "digits" => acc[i].n \in Nat
    BY <1>4
  <2> HIDE DEF acc, norm
  <2>4. norm[i].all \in BOOLEAN /\ norm[i].ids \subseteq 0..(i-1)-1
    BY <2>1, <2>3, <2>5, AccessSound
  <2> QED BY <1>3, <2>2, <2>4
<1> HIDE DEF norm
<1>6. Admitted(steps) /\ Len(steps) = n
  <2>1. \A i \in 1..n : steps[i] \in StepRow
    BY <1>3, <1>5 DEF StepRow
  <2>2. steps \in [1..n -> StepRow]
    BY <2>1
  <2>3. steps \in Seq(StepRow) /\ Len(steps) = n /\ DOMAIN steps = 1..n
    <3> HIDE DEF steps
    <3> QED BY <1>3, <2>2
  <2>4. \A i \in 1..n : steps[i].ids \subseteq 0..i-2
    BY <1>5
  <2> QED BY <2>3, <2>4 DEF Admitted
<1> QED BY <1>2, <1>3, <1>6

LexBefore(c, d) == \/ c[1] < d[1]
                   \/ c[1] = d[1] /\ c[2] < d[2]
                   \/ c[1] = d[1] /\ c[2] = d[2] /\ c[3] <= d[3]

LEMMA LeastTriple ==
    ASSUME NEW T \in SUBSET (Nat \X Nat \X Nat), T # {}
    PROVE  \E c \in T : \A d \in T : LexBefore(c, d)
<1> DEFINE firsts == {c[1] : c \in T}
<1>1. PICK x \in firsts : \A y \in firsts : x <= y
  <2>1. firsts \in SUBSET Nat /\ firsts # {}
    OBVIOUS
  <2> HIDE DEF firsts
  <2> QED BY <2>1, Least
<1> DEFINE withX == {c \in T : c[1] = x}
           seconds == {c[2] : c \in withX}
<1>2. PICK y \in seconds : \A z \in seconds : y <= z
  <2>1. seconds \in SUBSET Nat /\ seconds # {}
    OBVIOUS
  <2> HIDE DEF seconds
  <2> QED BY <2>1, Least
<1> DEFINE withXY == {c \in withX : c[2] = y}
           thirds == {c[3] : c \in withXY}
<1>3. PICK z \in thirds : \A v \in thirds : z <= v
  <2>1. thirds \in SUBSET Nat /\ thirds # {}
    OBVIOUS
  <2> HIDE DEF thirds
  <2> QED BY <2>1, Least
<1>4. PICK c \in T : c[1] = x /\ c[2] = y /\ c[3] = z
  OBVIOUS
<1>5. ASSUME NEW d \in T PROVE LexBefore(c, d)
  <2>1. c[1] \in Nat /\ c[2] \in Nat /\ d[1] \in Nat /\ d[2] \in Nat /\ d[1] \in firsts
    OBVIOUS
  <2>2. x <= d[1]
    BY <1>1, <2>1
  <2>3. CASE d[1] = x
    <3>1. d[2] \in seconds
      BY <2>3
    <3>2. y <= d[2]
      BY <1>2, <3>1
    <3>3. CASE d[2] = y
      <4>1. d[3] \in thirds
        BY <2>3, <3>3
      <4> QED BY <1>3, <1>4, <2>3, <3>3, <4>1 DEF LexBefore
    <3>4. CASE d[2] # y
      BY <1>4, <2>1, <2>3, <3>2, <3>4 DEF LexBefore
    <3> QED BY <3>3, <3>4
  <2>4. CASE d[1] # x
    BY <1>4, <2>1, <2>2, <2>4 DEF LexBefore
  <2> QED BY <2>3, <2>4
<1> QED BY <1>5

\* What ParseWorkflow returns, by the triples that are workflows.
LEMMA ParseCases ==
    ASSUME NEW text, ReadableText(text), NEW allowSelf
    PROVE  LET wf(c) == ValidateWorkflowLists(text[c[1]].list, text[c[2]].list,
                                              text[c[3]].list, allowSelf)
               triples == {c \in ListCandidates(text, "model_id")
                                 \X ListCandidates(text, "subtasks")
                                 \X ListCandidates(text, "access_list") :
                             c[1] < c[2] /\ c[2] < c[3] /\ wf(c).ok}
           IN IF triples = {} THEN ParseWorkflow(text, allowSelf) = NoWorkflow
              ELSE \E c \in triples : ParseWorkflow(text, allowSelf) = wf(c)
<1> DEFINE wf(c) == ValidateWorkflowLists(text[c[1]].list, text[c[2]].list,
                                          text[c[3]].list, allowSelf)
           triples == {c \in ListCandidates(text, "model_id")
                             \X ListCandidates(text, "subtasks")
                             \X ListCandidates(text, "access_list") :
                         c[1] < c[2] /\ c[2] < c[3] /\ wf(c).ok}
           before(c, d) == \/ c[1] < d[1]
                           \/ c[1] = d[1] /\ c[2] < d[2]
                           \/ c[1] = d[1] /\ c[2] = d[2] /\ c[3] <= d[3]
           first == CHOOSE c \in triples : \A d \in triples : before(c, d)
<1>1. ParseWorkflow(text, allowSelf) = IF triples = {} THEN NoWorkflow ELSE wf(first)
  BY DEF ParseWorkflow
<1>2. triples \in SUBSET (Nat \X Nat \X Nat)
  <2>1. DOMAIN text \subseteq Nat
    BY DEF ReadableText
  <2>2. \A key : ListCandidates(text, key) \subseteq Nat
    BY <2>1 DEF ListCandidates
  <2> QED BY <2>2
<1>3. ASSUME triples # {} PROVE first \in triples
  <2> HIDE DEF triples
  <2>1. \E c \in triples : \A d \in triples : before(c, d)
    BY <1>2, <1>3, LeastTriple DEF LexBefore
  <2> QED BY <2>1
<1>4. CASE triples = {}
  BY <1>1, <1>4
<1>5. CASE triples # {}
  <2>1. first \in triples
    BY <1>3, <1>5
  <2>2. ParseWorkflow(text, allowSelf) = wf(first)
    <3> HIDE DEF first, wf, triples
    <3> QED BY <1>1, <1>5
  <2> HIDE DEF first
  <2> QED BY <1>5, <2>1, <2>2
<1> QED BY <1>4, <1>5

LEMMA ParsedSound ==
    ASSUME NEW text, ReadableText(text), NEW allowSelf, ParseWorkflow(text, allowSelf).ok
    PROVE  LET steps == ParseWorkflow(text, allowSelf).steps
           IN Admitted(steps) /\ Len(steps) \in Nat \ {0}
<1> DEFINE wf(c) == ValidateWorkflowLists(text[c[1]].list, text[c[2]].list,
                                          text[c[3]].list, allowSelf)
<1>1. PICK c \in ListCandidates(text, "model_id") \X ListCandidates(text, "subtasks")
                   \X ListCandidates(text, "access_list") :
             ParseWorkflow(text, allowSelf) = wf(c)
  BY ParseCases DEF NoWorkflow
<1>2. Readable(text[c[3]].list) /\ wf(c).ok
  BY <1>1 DEF ReadableText, ListCandidates
<1>3. Admitted(wf(c).steps) /\ Len(wf(c).steps) \in Nat \ {0}
  BY <1>2, ValidatedSound
<1> QED BY <1>1, <1>3

\* What the decoder can emit passes the gate.
LEMMA ConstrainedParses ==
    ASSUME NEW text \in ConstrainedTexts
    PROVE  ReadableText(text) /\ ParseWorkflow(text, MaxDepth > 0).ok
<1> DEFINE hi == IF MaxDepth > 0 THEN NWorkers ELSE NWorkers - 1
<1>0. PICK n \in 1..MAX_STEPS : \E ids \in [1..n -> 0..hi] : text = CanonicalWorkflow(ids)
  BY DEF ConstrainedTexts
<1>1. PICK ids \in [1..n -> 0..hi] : text = CanonicalWorkflow(ids)
  BY <1>0
<1> DEFINE models == [i \in 1..n |-> PyInt(ids[i])]
           subtasks == [i \in 1..n |-> Py("text")]
           access == [i \in 1..n |-> IF i = n /\ n > 1 THEN Py("all") ELSE PyList(<<>>)]
           literals == {PyInt(j) : j \in 0..hi} \cup {Py("text"), Py("all"), PyList(<<>>)}
<1>2. n \in Nat \ {0} /\ hi \in Int /\ Len(ids) = n
  BY FuguAssumption
<1>3. /\ models \in Seq(literals) /\ subtasks \in Seq(literals) /\ access \in Seq(literals)
      /\ Len(models) = n /\ Len(subtasks) = n /\ Len(access) = n
  <2>1. /\ models \in [1..n -> literals] /\ subtasks \in [1..n -> literals]
        /\ access \in [1..n -> literals]
    <3>1. \A i \in 1..n : ids[i] \in 0..hi
      OBVIOUS
    <3> QED BY <3>1
  <2> HIDE DEF models, subtasks, access, literals
  <2> QED BY <1>2, <2>1
<1>4. text = <<Assign("model_id", models), Assign("subtasks", subtasks),
               Assign("access_list", access)>>
  BY <1>1, <1>2 DEF CanonicalWorkflow
<1>5. ASSUME NEW list \in Seq(literals) PROVE Readable(list)
  <2>1. list \in Seq(Range(list))
    <3>1. \A i \in 1..Len(list) : list[i] \in Range(list)
      BY DEF Range
    <3> QED BY <3>1
  <2>2. \A v \in literals : v.k # "digits"
    BY DEF PyInt, Py, PyList
  <2>3. Range(list) \subseteq literals
    BY DEF Range
  <2> QED BY <2>1, <2>2, <2>3 DEF Readable
<1> HIDE DEF models, subtasks, access, literals
<1>6. /\ text[1] = Assign("model_id", models) /\ text[2] = Assign("subtasks", subtasks)
      /\ text[3] = Assign("access_list", access) /\ DOMAIN text = 1..3 /\ Len(text) = 3
  BY <1>4
<1>7. ReadableText(text)
  <2>1. text \in Seq(Range(text))
    BY <1>4, <1>6 DEF Range
  <2>2. \A p \in DOMAIN text : Readable(text[p].list)
    BY <1>3, <1>5, <1>6 DEF Assign
  <2> QED BY <2>1, <2>2 DEF ReadableText
<1>8. /\ 1 \in ListCandidates(text, "model_id") /\ 2 \in ListCandidates(text, "subtasks")
      /\ 3 \in ListCandidates(text, "access_list")
      /\ \A key : ListCandidates(text, key) \subseteq 1..3
  BY <1>6 DEF ListCandidates, Assign
<1>9. ValidateWorkflowLists(models, subtasks, access, MaxDepth > 0).ok
  <2> DEFINE norm == [i \in 1..n |-> NormalizeAccess(access[i], i - 1)]
  <2>1. \A i \in 1..n : models[i].k = "int" /\ models[i].n \in 0..hi /\ IsText(subtasks[i])
    BY DEF models, subtasks, PyInt, Py, IsText
  <2>2. \A i \in 1..n : norm[i].ok
    <3> SUFFICES ASSUME NEW i \in 1..n PROVE NormalizeAccess(access[i], i - 1).ok
      OBVIOUS
    <3>1. CASE access[i] = Py("all")
      <4>1. access[i].k = "all"
        BY <3>1 DEF Py
      <4>2. NormalizeAccess(access[i], i - 1) = AllPrior
        BY <4>1 DEF NormalizeAccess
      <4> QED BY <4>2 DEF AllPrior
    <3>2. CASE access[i] = PyList(<<>>)
      <4>1. access[i].k = "list" /\ access[i].e = <<>> /\ Len(access[i].e) # 1
        BY <3>2 DEF PyList
      <4>2. Range(access[i].e) = {}
        BY <4>1 DEF Range
      <4>3. NormalizeAccess(access[i], i - 1) = Prior({v.n : v \in Range(access[i].e)})
        BY <4>1, <4>2 DEF NormalizeAccess
      <4> QED BY <4>3 DEF Prior
    <3> QED BY <3>1, <3>2 DEF access
  <2>3. access # <<>>
    BY <1>2, <1>3
  <2>4. n \in 1..MAX_STEPS
    OBVIOUS
  <2>5. hi = IF MaxDepth > 0 THEN NWorkers ELSE NWorkers - 1
    OBVIOUS
  <2> HIDE DEF hi, norm
  <2> QED BY <1>3, <2>1, <2>2, <2>3, <2>4, <2>5 DEF ValidateWorkflowLists, norm
<1> DEFINE wf(c) == ValidateWorkflowLists(text[c[1]].list, text[c[2]].list,
                                          text[c[3]].list, MaxDepth > 0)
           triples == {c \in ListCandidates(text, "model_id")
                             \X ListCandidates(text, "subtasks")
                             \X ListCandidates(text, "access_list") :
                         c[1] < c[2] /\ c[2] < c[3] /\ wf(c).ok}
<1>10. <<1, 2, 3>> \in triples
  <2>1. wf(<<1, 2, 3>>).ok
    BY <1>6, <1>9 DEF Assign
  <2> HIDE DEF wf
  <2> QED BY <1>8, <2>1
<1>11. \E c \in triples : ParseWorkflow(text, MaxDepth > 0) = wf(c)
  <2>1. triples # {}
    BY <1>10
  <2> QED BY <1>7, <2>1, ParseCases
<1> QED BY <1>7, <1>11

-----------------------------------------------------------------------------
(***************************************************************************)
(* The run of a workflow                                                   *)
(***************************************************************************)
LEMMA StackFacts ==
    ASSUME NEW s, StackSound(s)
    PROVE  /\ Len(s) \in Nat /\ DOMAIN s = 1..Len(s)
           /\ s # <<>> => Len(s) > 0 /\ FrameSound(Last(s))
<1>1. Len(s) \in Nat /\ DOMAIN s = 1..Len(s)
  BY DEF StackSound
<1>2. s # <<>> => Len(s) > 0
  BY DEF StackSound
<1> QED BY <1>1, <1>2 DEF StackSound, Last

LEMMA SeqOfFrames ==
    ASSUME NEW S, NEW s \in Seq(S), \A i \in DOMAIN s : FrameSound(s[i])
    PROVE  StackSound(s)
<1>1. \A i \in 1..Len(s) : s[i] \in Range(s)
  BY DEF Range
<1>2. s \in Seq(Range(s))
  BY <1>1
<1> QED BY <1>2 DEF StackSound

LEMMA Push ==
    ASSUME NEW s, StackSound(s), NEW f, FrameSound(f)
    PROVE  /\ StackSound(Append(s, f)) /\ Append(s, f) # <<>>
           /\ Last(Append(s, f)) = f
<1> DEFINE S == Range(s) \cup {f}
<1>1. s \in Seq(S) /\ f \in S /\ Len(s) \in Nat
  <2>1. s \in Seq(Range(s))
    BY DEF StackSound
  <2> QED BY <2>1, SeqMonotonic
<1>2. /\ Append(s, f) \in Seq(S) /\ Append(s, f) # <<>> /\ Len(Append(s, f)) = Len(s) + 1
      /\ \A i \in 1..Len(s) : Append(s, f)[i] = s[i]
      /\ Append(s, f)[Len(s)+1] = f
  BY <1>1, AppendProperties
<1>3. \A i \in DOMAIN Append(s, f) : FrameSound(Append(s, f)[i])
  <2>1. DOMAIN Append(s, f) = 1..Len(s)+1
    BY <1>1, <1>2
  <2>2. \A i \in 1..Len(s) : FrameSound(s[i])
    BY StackFacts DEF StackSound
  <2> QED BY <1>1, <1>2, <2>1, <2>2
<1> HIDE DEF S
<1> QED BY <1>2, <1>3, SeqOfFrames DEF Last

LEMMA Pop ==
    ASSUME NEW s, StackSound(s), NEW k \in 0..Len(s)
    PROVE  StackSound(SubSeq(s, 1, k))
<1>1. Len(s) \in Nat /\ \A i \in 1..k : s[i] \in Range(s) /\ FrameSound(s[i])
  BY StackFacts DEF Range, StackSound
<1>2. /\ SubSeq(s, 1, k) \in Seq(Range(s))
      /\ Len(SubSeq(s, 1, k)) = IF 1 <= k THEN k - 1 + 1 ELSE 0
      /\ \A i \in 1..k-1+1 : SubSeq(s, 1, k)[i] = s[1+i-1]
  BY <1>1, SubSeqProperties
<1>3. DOMAIN SubSeq(s, 1, k) = 1..k
  BY <1>1, <1>2
<1>4. \A i \in 1..k : SubSeq(s, 1, k)[i] = s[i]
  BY <1>1, <1>2
<1> QED BY <1>1, <1>2, <1>3, <1>4, SeqOfFrames

LEMMA Fresh ==
    ASSUME NEW steps, Admitted(steps), Len(steps) \in Nat \ {0}
    PROVE  FrameSound(NewFrame(steps))
BY DEF FrameSound, NewFrame

LEMMA TalliedSound ==
    ASSUME NEW f, FrameSound(f), NEW name
    PROVE  LET g == Tallied(f, name)
           IN FrameSound(g) /\ g.steps = f.steps /\ g.outputs = f.outputs
<1> DEFINE g == Tallied(f, name)
<1>1. g \in [steps : {f.steps}, outputs : {f.outputs}, tokens : {Accum(f.tokens, name)},
             calls : {f.calls + 1}]
  BY DEF FrameSound, Tallied
<1> HIDE DEF g
<1>2. FrameSound(g) /\ g.steps = f.steps /\ g.outputs = f.outputs
  BY <1>1 DEF FrameSound
<1> QED BY <1>2 DEF g

\* The prompt of a step quotes what its access list names, all of it.
LEMMA QuotesAll ==
    ASSUME NEW f, FrameSound(f)
    PROVE  ContextBlock(Current(f), f.outputs)
             = IF Current(f).all THEN 0..Len(f.outputs)-1 ELSE Current(f).ids
<1>1. Len(f.outputs) \in Nat /\ Len(f.outputs) + 1 \in DOMAIN f.steps
  BY DEF FrameSound, Admitted
<1>2. Current(f).ids \subseteq 0..Len(f.outputs)-1 /\ Current(f).all \in BOOLEAN
  <2>1. Current(f).ids \subseteq 0..(Len(f.outputs)+1)-2
    BY <1>1 DEF FrameSound, Admitted, Current
  <2>2. Current(f) \in StepRow
    BY <1>1 DEF FrameSound, Admitted, Current
  <2> QED BY <1>1, <2>1, <2>2 DEF StepRow
<1> QED BY <1>1, <1>2 DEF ContextBlock

\* A run after an answer: it waits for the next call, or it has ended.
Goes(r) == r # Idle /\ (~Finished(r) => RunSound(r))

LEMMA ExecutingSound ==
    ASSUME NEW r, Shaped(r), r.parsed = TRUE, NEW s, StackSound(s), s # <<>>
    PROVE  Goes(Executing(r, s)) /\ ~Finished(Executing(r, s))
<1> DEFINE x == Executing(r, s)
<1>1. NextCall(s) \in [kind : {"propose", "work"}, to : {NextCall(s).to}, reads : {Reading(s)}]
  BY DEF NextCall, Reading
<1>2. x \in [call : {NextCall(s)}, stack : {s}, parsed : {r.parsed}, outputs : {r.outputs},
             tokens : {r.tokens}, calls : {r.calls}]
  BY DEF Executing, Shaped
<1> HIDE DEF x
<1>3. RunSound(x)
  BY <1>1, <1>2 DEF RunSound, Shaped
<1>4. x # Idle /\ x.call # NoCall
  BY <1>1, <1>2 DEF Idle, NoCall
<1> QED BY <1>3, <1>4 DEF Goes, Finished, x

LEMMA Start ==
    /\ Shaped(Idle) /\ Idle.call = NoCall /\ Idle.stack = <<>>
    /\ Shaped(Proposing) /\ Proposing.stack = <<>> /\ Proposing.call.kind = "propose"
    /\ Proposing.tokens = NoTokens /\ Proposing.calls = 0
    /\ Proposing.call # NoCall /\ Proposing # Idle
<1>1. NoCall \in [kind : {"none"}, to : {0}, reads : {{}}]
  BY DEF NoCall
<1>2. Idle \in [call : {NoCall}, stack : {<<>>}, parsed : {FALSE}, outputs : {<<>>},
                tokens : {NoTokens}, calls : {0}]
  BY DEF Idle
<1> DEFINE c == [kind |-> "propose", to |-> CONDUCTOR_KEY, reads |-> {}]
<1>3. c \in [kind : {"propose"}, to : {CONDUCTOR_KEY}, reads : {{}}]
  OBVIOUS
<1> HIDE DEF c
<1>4. Proposing \in [call : {c}, stack : {<<>>}, parsed : {FALSE}, outputs : {<<>>},
                     tokens : {NoTokens}, calls : {0}]
  BY <1>2 DEF Proposing, c
<1>5. Shaped(Idle) /\ Idle.call = NoCall /\ Idle.stack = <<>>
  BY <1>1, <1>2 DEF Shaped
<1>6. /\ Shaped(Proposing) /\ Proposing.stack = <<>> /\ Proposing.call.kind = "propose"
      /\ Proposing.tokens = NoTokens /\ Proposing.calls = 0
  BY <1>3, <1>4 DEF Shaped
<1>7. Proposing.call # NoCall /\ Proposing # Idle
  BY <1>1, <1>5, <1>6
<1> QED BY <1>5, <1>6, <1>7

LEMMA StartSound == RunSound(Idle) /\ RunSound(Proposing)
<1>1. StackSound(<<>>)
  <2>1. Range(<<>>) = {} /\ <<>> \in Seq({}) /\ DOMAIN <<>> = {}
    BY DEF Range
  <2> QED BY <2>1 DEF StackSound
<1> QED BY <1>1, Start DEF RunSound

LEMMA ProposalSound ==
    ASSUME NEW text, ReadableText(text)
    PROVE  /\ Goes(AfterProposal(Proposing, text))
           /\ ParseWorkflow(text, MaxDepth > 0).ok => AfterProposal(Proposing, text).parsed = TRUE
<1> DEFINE wf == ParseWorkflow(text, MaxDepth > 0)
           paid == [Tallied(Proposing, CONDUCTOR_KEY) EXCEPT !.call = NoCall]
           started == [paid EXCEPT !.parsed = TRUE]
<1>1. AfterProposal(Proposing, text) = IF wf.ok THEN Executing(started, <<NewFrame(wf.steps)>>)
                                       ELSE paid
  BY DEF AfterProposal
<1>2. /\ Shaped(paid) /\ paid.call = NoCall /\ paid.calls = 1
      /\ Shaped(started) /\ started.parsed = TRUE
  <2>2. paid \in [call : {NoCall}, stack : {Proposing.stack}, parsed : {Proposing.parsed},
                  outputs : {Proposing.outputs},
                  tokens : {Accum(Proposing.tokens, CONDUCTOR_KEY)},
                  calls : {Proposing.calls + 1}]
    BY Start DEF Shaped, Tallied
  <2>3. NoCall \in [kind : {NoCall.kind}, to : {NoCall.to}, reads : {NoCall.reads}]
    BY DEF NoCall
  <2> HIDE DEF paid
  <2>4. started \in [call : {NoCall}, stack : {Proposing.stack}, parsed : {TRUE},
                     outputs : {Proposing.outputs},
                     tokens : {Accum(Proposing.tokens, CONDUCTOR_KEY)},
                     calls : {Proposing.calls + 1}]
    BY <2>2
  <2> HIDE DEF started
  <2>5. paid.calls = 1
    BY <2>2, Start
  <2> QED BY <2>2, <2>3, <2>4, <2>5 DEF Shaped
<1> HIDE DEF paid, started
<1>3. CASE wf.ok
  <2>1. FrameSound(NewFrame(wf.steps))
    BY <1>3, ParsedSound, Fresh
  <2>2. StackSound(<<NewFrame(wf.steps)>>) /\ <<NewFrame(wf.steps)>> # <<>>
    <3> DEFINE f == NewFrame(wf.steps)
    <3> HIDE DEF f
    <3>1. <<f>> \in Seq({f}) /\ \A i \in DOMAIN <<f>> : <<f>>[i] = f
      OBVIOUS
    <3> QED BY <2>1, <3>1, SeqOfFrames DEF f
  <2>3. Goes(Executing(started, <<NewFrame(wf.steps)>>))
    BY <1>2, <2>2, ExecutingSound
  <2>4. Executing(started, <<NewFrame(wf.steps)>>).parsed = TRUE
    BY <1>2 DEF Executing, Shaped
  <2> QED BY <1>1, <1>3, <2>3, <2>4
<1>4. CASE ~wf.ok
  <2>1. paid # Idle
    BY <1>2 DEF Idle
  <2> QED BY <1>1, <1>2, <1>4, <2>1 DEF Goes, Finished
<1> QED BY <1>3, <1>4

LEMMA SubProposalSound ==
    ASSUME NEW r, RunSound(r), r.stack # <<>>, NEW text, ReadableText(text)
    PROVE  Goes(AfterSubProposal(r, text)) /\ ~Finished(AfterSubProposal(r, text))
<1> DEFINE wf == ParseWorkflow(text, TRUE)
           old == Last(r.stack)
           frame == Tallied(old, CONDUCTOR_KEY)
           stack == Append(Front(r.stack), frame)
           left == [r EXCEPT !.stack = stack, !.call = [@ EXCEPT !.kind = "work", !.to = 0]]
<1>1. AfterSubProposal(r, text) = IF wf.ok THEN Executing(r, Append(stack, NewFrame(wf.steps)))
                                  ELSE left
  BY DEF AfterSubProposal
<1>2. /\ StackSound(r.stack) /\ FrameSound(old) /\ Len(r.stack) - 1 \in 0..Len(r.stack)
      /\ Shaped(r) /\ r.parsed = TRUE
  BY StackFacts DEF RunSound, Shaped
<1>3. FrameSound(frame) /\ frame.steps = old.steps /\ frame.outputs = old.outputs
  <2> HIDE DEF old
  <2> QED BY <1>2, TalliedSound
<1>4. StackSound(Front(r.stack))
  BY <1>2, Pop DEF Front
<1> HIDE DEF old, frame
<1>5. StackSound(stack) /\ stack # <<>> /\ Last(stack) = frame
  BY <1>3, <1>4, Push
<1> HIDE DEF stack
<1>6. CASE wf.ok
  <2>1. FrameSound(NewFrame(wf.steps))
    BY <1>6, ParsedSound, Fresh
  <2>2. /\ StackSound(Append(stack, NewFrame(wf.steps)))
        /\ Append(stack, NewFrame(wf.steps)) # <<>>
    BY <1>5, <2>1, Push
  <2> QED BY <1>1, <1>2, <1>6, <2>2, ExecutingSound
<1>7. CASE ~wf.ok
  <2>1. Reading(stack) = Reading(r.stack)
    BY <1>3, <1>5 DEF Reading, Current, old
  <2>2. /\ left.call \in [kind : {"work"}, to : {0}, reads : {r.call.reads}]
        /\ left \in [call : {left.call}, stack : {stack}, parsed : {r.parsed},
                     outputs : {r.outputs}, tokens : {r.tokens}, calls : {r.calls}]
    BY <1>2 DEF Shaped
  <2> HIDE DEF left
  <2>3. RunSound(left)
    <3>1. Shaped(left) /\ left.stack = stack /\ left.parsed = TRUE
      BY <1>2, <2>2 DEF Shaped
    <3>2. left.call.kind = "work" /\ left.call.reads = Reading(left.stack)
      BY <2>1, <2>2, <3>1 DEF RunSound
    <3> QED BY <1>5, <3>1, <3>2 DEF RunSound
  <2>4. left # Idle /\ left.call # NoCall
    BY <1>5, <2>2 DEF Idle, NoCall
  <2> QED BY <1>1, <1>7, <2>3, <2>4 DEF Goes, Finished
<1> QED BY <1>6, <1>7

LEMMA WorkerSound ==
    ASSUME NEW r, RunSound(r), r.stack # <<>>, NEW output \in Outputs
    PROVE  Goes(AfterWorker(r, output)) /\ AfterWorker(r, output).parsed = TRUE
<1> DEFINE n == Len(r.stack)
           stack == [r.stack EXCEPT ![n] = Tallied(@, r.call.to)]
           Ends(k) == Len(stack[k].outputs) + 1 = Len(stack[k].steps)
           open == {0} \cup {k \in 1..n : ~Ends(k)}
           below == Max(open)
           at == Max({1, below})
           merged == SubSeq(stack, at, n)
           bottom == [stack[at] EXCEPT !.outputs = Append(@, output),
                                       !.tokens = SumTokens(merged),
                                       !.calls = SumCalls(merged)]
           next == Append(SubSeq(stack, 1, below - 1), bottom)
           ended == [r EXCEPT !.call = NoCall, !.stack = <<>>, !.outputs = bottom.outputs,
                              !.tokens = [m \in Names |-> @[m] + bottom.tokens[m]],
                              !.calls = @ + bottom.calls]
<1>1. AfterWorker(r, output) = IF below > 0 THEN Executing(r, next) ELSE ended
  BY DEF AfterWorker
<1>2. /\ StackSound(r.stack) /\ n \in Nat /\ n > 0 /\ DOMAIN r.stack = 1..n
      /\ Shaped(r) /\ r.parsed = TRUE /\ FrameSound(r.stack[n])
  BY StackFacts DEF RunSound, Last
<1>3. StackSound(stack) /\ Len(stack) = n /\ DOMAIN stack = 1..n
  <2> DEFINE S == Range(r.stack) \cup {stack[n]}
  <2>1. FrameSound(stack[n])
    <3>1. stack[n] = Tallied(r.stack[n], r.call.to)
      BY <1>2
    <3> HIDE DEF stack
    <3> QED BY <1>2, <3>1, TalliedSound
  <2>2. DOMAIN stack = 1..n /\ \A j \in 1..n : j # n => stack[j] = r.stack[j]
    BY <1>2
  <2>3. stack = [j \in 1..n |-> stack[j]]
    BY <2>2
  <2> HIDE DEF stack
  <2>4. stack \in Seq(S) /\ Len(stack) = n
    <3>1. \A j \in 1..n : stack[j] \in S
      BY <1>2, <2>2 DEF Range
    <3> HIDE DEF S
    <3>2. stack \in [1..n -> S]
      BY <2>3, <3>1
    <3> QED BY <1>2, <3>2
  <2>5. DOMAIN stack = 1..n
    BY <2>2
  <2>6. \A j \in 1..n : FrameSound(stack[j])
    BY <1>2, <2>1, <2>2 DEF StackSound
  <2> HIDE DEF S
  <2> QED BY <2>4, <2>5, <2>6, SeqOfFrames
<1> HIDE DEF stack
<1>4. below \in 0..n /\ below \in open
  <2>1. open \in SUBSET (0..n) /\ open # {}
    BY <1>2
  <2> HIDE DEF open
  <2> QED BY <1>2, <2>1, MaxIsGreatest
<1>5. CASE below > 0
  <2>1. below \in 1..n /\ Len(stack[below].outputs) + 1 # Len(stack[below].steps)
    BY <1>4, <1>5
  <2> HIDE DEF below
  <2>2. at = below
    <3>1. {1, below} \in SUBSET (0..n) /\ {1, below} # {}
      BY <1>2, <2>1
    <3>2. at \in {1, below} /\ at >= below /\ at >= 1
      BY <1>2, <3>1, MaxIsGreatest
    <3> QED BY <2>1, <3>2
  <2>3. FrameSound(bottom)
    <3> DEFINE f == stack[below]
    <3>1. FrameSound(f) /\ Len(f.outputs) + 1 # Len(f.steps)
      BY <1>3, <2>1 DEF StackSound
    <3>2. bottom \in [steps : {f.steps}, outputs : {Append(f.outputs, output)},
                      tokens : {SumTokens(merged)}, calls : {SumCalls(merged)}]
      <4> HIDE DEF f, merged, at
      <4>1. bottom = [f EXCEPT !.outputs = Append(@, output), !.tokens = SumTokens(merged),
                               !.calls = SumCalls(merged)]
        BY <2>2 DEF f
      <4> HIDE DEF bottom
      <4> QED BY <3>1, <4>1 DEF FrameSound
    <3> HIDE DEF bottom, f, merged
    <3>3. /\ Append(f.outputs, output) \in Seq(Outputs)
          /\ Len(Append(f.outputs, output)) < Len(f.steps)
      <4>1. f.outputs \in Seq(Outputs) /\ f.steps \in Seq(StepRow)
        BY <3>1 DEF FrameSound, Admitted
      <4>2. Len(f.outputs) \in Nat /\ Len(f.steps) \in Nat
        BY <4>1
      <4>3. /\ Append(f.outputs, output) \in Seq(Outputs)
            /\ Len(Append(f.outputs, output)) = Len(f.outputs) + 1
        BY <4>1, AppendProperties
      <4> QED BY <3>1, <4>2, <4>3 DEF FrameSound
    <3> QED BY <3>1, <3>2, <3>3 DEF FrameSound
  <2> HIDE DEF bottom
  <2>4. StackSound(SubSeq(stack, 1, below - 1))
    BY <1>2, <1>3, <2>1, Pop
  <2>5. StackSound(next) /\ next # <<>>
    BY <2>3, <2>4, Push
  <2> HIDE DEF next
  <2>6. Goes(Executing(r, next)) /\ Executing(r, next).parsed = TRUE
    <3>1. Goes(Executing(r, next))
      BY <1>2, <2>5, ExecutingSound
    <3>2. Executing(r, next).parsed = r.parsed
      BY <1>2 DEF Executing, Shaped
    <3> QED BY <1>2, <3>1, <3>2
  <2> QED BY <1>1, <1>5, <2>6
<1>6. CASE ~(below > 0)
  <2> HIDE DEF below, bottom
  <2>1. ended.call = NoCall /\ ended.parsed = TRUE
    BY <1>2 DEF Shaped
  <2> HIDE DEF ended
  <2>2. ended # Idle
    BY <2>1 DEF Idle
  <2> QED BY <1>1, <1>6, <2>1, <2>2 DEF Goes, Finished
<1> QED BY <1>5, <1>6

-----------------------------------------------------------------------------
(***************************************************************************)
(* The steps of the jobs                                                   *)
(***************************************************************************)
LEMMA InitInv == Init => Inv
<1> SUFFICES ASSUME Init PROVE Inv
  OBVIOUS
<1>1. Placed
  <2>1. run = [t \in Tasks |-> run[t]]
    BY DEF Init
  <2>2. \A t \in Tasks : run[t] = IF job # "evaluate" /\ t = 0 THEN Proposing ELSE Idle
    BY DEF Init
  <2>3. pc \in [Tasks -> {"new", "waiting", "running", "done"}] /\ \A t \in Tasks : pc[t] = "new"
    BY DEF Init
  <2>4. job \in {"evaluate", "train", "train constrained"}
    BY DEF Init
  <2> QED BY <2>1, <2>2, <2>3, <2>4 DEF Placed
<1>2. Books
  <2>1. /\ TrainerStart.groups = <<>> /\ TrainerStart.rewards = <<>>
        /\ {"rewards", "groups"} \subseteq DOMAIN TrainerStart
    BY DEF TrainerStart
  <2>2. trainer = [TrainerStart EXCEPT !.sampled[0] = IF job = "evaluate" THEN 0 ELSE 1]
    BY DEF Init
  <2>3. /\ trainer.groups = <<>> /\ trainer.rewards = <<>>
        /\ {"rewards", "groups"} \subseteq DOMAIN trainer
    BY <2>1, <2>2
  <2>4. meter.runs \in Nat
    BY DEF Init
  <2> QED BY <2>3, <2>4 DEF Books, RewardsSound
<1>3. \A t \in Tasks : RunSound(run[t])
  <2>1. \A t \in Tasks : run[t] \in {Idle, Proposing}
    BY DEF Init
  <2> QED BY <2>1, StartSound
<1> QED BY <1>1, <1>2, <1>3 DEF Inv

\* An answer: the run goes on or has ended, and a constrained policy's run that
\* has ended was admitted.
LEMMA AnswerGoes ==
    ASSUME Inv, NEW t \in Tasks, ProposalReturns(t) \/ WorkerReturns(t)
    PROVE  \E r : /\ Resume(t, r) /\ Goes(r) /\ run[t] # Idle
                  /\ job = "train constrained" /\ Finished(r) => r.parsed = TRUE
<1>1. RunSound(run[t])
  BY DEF Inv
<1>2. CASE ProposalReturns(t)
  <2>1. PICK text \in Proposals :
          Resume(t, IF run[t].stack = <<>> THEN AfterProposal(run[t], text)
                    ELSE AfterSubProposal(run[t], text))
    BY <1>2 DEF ProposalReturns
  <2>2. run[t].call.kind = "propose" /\ run[t] # Idle
    <3>1. run[t].call.kind = "propose"
      BY <1>2 DEF ProposalReturns
    <3> QED BY <3>1, Start DEF NoCall
  <2>3. ReadableText(text)
    <3>1. CASE job = "train constrained"
      BY <3>1, ConstrainedParses DEF Proposals
    <3>2. CASE job # "train constrained"
      <4>1. text \in Texts
        BY <3>2 DEF Proposals
      <4> QED BY <4>1, TextsAssumption DEF ReadableText, Readable
    <3> QED BY <3>1, <3>2
  <2>4. CASE run[t].stack = <<>>
    <3>1. run[t] = Proposing
      BY <1>1, <2>2, <2>4 DEF RunSound
    <3>2. job = "train constrained" => ParseWorkflow(text, MaxDepth > 0).ok
      BY ConstrainedParses DEF Proposals
    <3>3. Goes(AfterProposal(run[t], text))
      BY <2>3, <3>1, ProposalSound
    <3>4. job = "train constrained" => AfterProposal(run[t], text).parsed = TRUE
      BY <2>3, <3>1, <3>2, ProposalSound
    <3> QED BY <2>1, <2>2, <2>4, <3>3, <3>4
  <2>5. CASE run[t].stack # <<>>
    BY <1>1, <2>1, <2>2, <2>3, <2>5, SubProposalSound
  <2> QED BY <2>4, <2>5
<1>3. CASE WorkerReturns(t)
  <2>1. PICK output \in Outputs : Resume(t, AfterWorker(run[t], output))
    BY <1>3 DEF WorkerReturns
  <2>2. run[t].call.kind = "work" /\ run[t] # Idle /\ run[t] # Proposing
    <3>1. run[t].call.kind = "work"
      BY <1>3 DEF WorkerReturns
    <3> QED BY <3>1, Start DEF NoCall
  <2>3. run[t].stack # <<>>
    BY <1>1, <2>2 DEF RunSound
  <2> QED BY <1>1, <2>1, <2>2, <2>3, WorkerSound
<1> QED BY <1>2, <1>3

RunsAdded(r) == meter'.runs = meter.runs + 1 /\ meter'.aborted = AddRun(r).aborted

\* The end of a run in evaluate(): the task goes on only below the cap.
LEMMA VoteEffect ==
    ASSUME NEW t \in Tasks, NEW r, Vote(t, r)
    PROVE  /\ RunsAdded(r) /\ UNCHANGED <<job, trainer>>
           /\ \E go \in BOOLEAN :
                 /\ go => ~meter'.aborted
                 /\ run' = [run EXCEPT ![t] = IF go THEN Proposing ELSE Idle]
                 /\ pc' = [pc EXCEPT ![t] = IF go THEN @ ELSE "done"]
<1> DEFINE ballot == Append(votes[t], IsCorrect(r))
           last == AddRun(r).aborted \/ Len(ballot) = Reps
<1>1. /\ meter' = AddRun(r) /\ UNCHANGED <<job, trainer>>
      /\ run' = [run EXCEPT ![t] = IF last THEN Idle ELSE Proposing]
      /\ pc' = [pc EXCEPT ![t] = IF last THEN "done" ELSE @]
  BY DEF Vote
<1>2. RunsAdded(r)
  BY <1>1 DEF RunsAdded, AddRun
<1>3. CASE last
  BY <1>1, <1>2, <1>3
<1>4. CASE ~last
  BY <1>1, <1>2, <1>4
<1> QED BY <1>3, <1>4

\* The end of a run in train(): one task goes on, and only below the cap.
LEMMA ScoreEffect ==
    ASSUME NEW t \in Tasks, NEW r, Score(t, r)
    PROVE  /\ RunsAdded(r) /\ UNCHANGED <<job, pc>>
           /\ \/ run' = [run EXCEPT ![t] = Proposing] /\ ~meter'.aborted
              \/ run' = [u \in Tasks |-> Idle]
              \/ /\ ~meter'.aborted
                 /\ \E q : run' = [u \in Tasks |-> IF u = q THEN Proposing ELSE Idle]
<1>1. meter' = AddRun(r) /\ UNCHANGED <<job, pc>>
  BY DEF Score, evalVars
<1>2. RunsAdded(r)
  BY <1>1 DEF RunsAdded, AddRun
<1> DEFINE Stops == run' = [u \in Tasks |-> Idle]
           Moves == \E q : run' = [u \in Tasks |-> IF u = q THEN Proposing ELSE Idle]
<1>3. ASSUME NEW next, GoOn(next, TRUE) PROVE Moves
  BY <1>3 DEF GoOn
<1>4. ASSUME NEW next, GoOn(next, FALSE) PROVE Stops
  BY <1>4 DEF GoOn
<1>5. ASSUME NEW next, GoOn(next, next.it < Iterations) PROVE Moves \/ Stops
  <2>1. CASE next.it < Iterations
    BY <1>5, <2>1 DEF GoOn
  <2>2. CASE ~(next.it < Iterations)
    BY <1>5, <2>2 DEF GoOn
  <2> QED BY <2>1, <2>2
<1> HIDE DEF Stops, Moves
<1>6. \/ Stops
      \/ run' = [run EXCEPT ![t] = Proposing] /\ ~AddRun(r).aborted
      \/ ~AddRun(r).aborted /\ Moves
  BY <1>3, <1>4, <1>5 DEF Score
<1> QED BY <1>1, <1>2, <1>6 DEF RunsAdded, Stops, Moves

LEMMA RewardsKept ==
    ASSUME RewardsSound(trainer), NEW t \in Tasks, NEW r, Score(t, r),
           job = "train constrained" => r.parsed = TRUE
    PROVE  RewardsSound(trainer')
<1> DEFINE tr == Collected(r)
           x == TrainingReward(r)
<1>1. x \in RewardValues
  <2>1. x = IF ~r.parsed THEN 0 ELSE IF IsCorrect(r) THEN 2 ELSE 1
    BY DEF TrainingReward
  <2> HIDE DEF x
  <2> QED BY <2>1 DEF RewardValues
<1>2. RewardsSound(tr)
  <2> HIDE DEF x
  <2>1. /\ {"rewards", "groups"} \subseteq DOMAIN tr
        /\ tr.rewards = Append(trainer.rewards, x) /\ tr.groups = trainer.groups
    BY DEF Collected, RewardsSound, x
  <2> QED BY <1>1, <2>1, AppendProperties DEF RewardsSound
<1>3. RewardsSound(GroupDone(tr))
  <2> DEFINE g == GroupDone(tr)
  <2> HIDE DEF tr
  <2>1. /\ {"rewards", "groups"} \subseteq DOMAIN g
        /\ g.rewards = <<>> /\ g.groups = Append(tr.groups, tr.rewards)
    BY <1>2 DEF GroupDone, RewardsSound
  <2> HIDE DEF g
  <2>2. tr.rewards \in Seq(RewardValues) /\ tr.groups \in Seq(Seq(RewardValues))
    BY <1>2 DEF RewardsSound
  <2> DEFINE S == Seq(RewardValues)
  <2> HIDE DEF S
  <2>3. <<>> \in S /\ tr.rewards \in S /\ tr.groups \in Seq(S)
    BY <2>2, EmptySeq DEF S
  <2>4. Append(tr.groups, tr.rewards) \in Seq(S)
    BY <2>3, AppendProperties
  <2> QED BY <2>1, <2>3, <2>4 DEF RewardsSound, S, g
<1>4. ASSUME NEW y, RewardsSound(y)
      PROVE  RewardsSound(BatchDone(y)) /\ RewardsSound(CapExceeded(y)) /\ RewardsSound(Asked(y))
  <2>1. /\ {"rewards", "groups"} \subseteq DOMAIN BatchDone(y)
        /\ BatchDone(y).groups = <<>> /\ BatchDone(y).rewards = y.rewards
    BY <1>4 DEF BatchDone, RewardsSound
  <2>2. /\ {"rewards", "groups"} \subseteq DOMAIN CapExceeded(y)
        /\ CapExceeded(y).groups = <<>> /\ CapExceeded(y).rewards = <<>>
    BY <1>4 DEF CapExceeded, RewardsSound
  <2>3. /\ {"rewards", "groups"} \subseteq DOMAIN Asked(y)
        /\ Asked(y).groups = y.groups /\ Asked(y).rewards = y.rewards
    BY <1>4 DEF Asked, RewardsSound
  <2>4. <<>> \in Seq(RewardValues) /\ <<>> \in Seq(Seq(RewardValues))
    BY EmptySeq
  <2>5. y.rewards \in Seq(RewardValues) /\ y.groups \in Seq(Seq(RewardValues))
    BY <1>4 DEF RewardsSound
  <2>6. RewardsSound(BatchDone(y))
    BY <2>1, <2>4, <2>5 DEF RewardsSound
  <2>7. RewardsSound(CapExceeded(y))
    BY <2>2, <2>4 DEF RewardsSound
  <2>8. RewardsSound(Asked(y))
    BY <2>3, <2>5 DEF RewardsSound
  <2> QED BY <2>6, <2>7, <2>8
<1>5. ASSUME NEW next, NEW more, RewardsSound(next), GoOn(next, more) PROVE RewardsSound(trainer')
  <2>1. trainer' = Asked(next) \/ trainer' = next
    BY <1>5 DEF GoOn
  <2> QED BY <1>4, <1>5, <2>1
<1> HIDE DEF tr
<1>6. RewardsSound(CapExceeded(tr)) /\ RewardsSound(BatchDone(GroupDone(tr)))
  BY <1>2, <1>3, <1>4
<1> DEFINE next == BatchDone(GroupDone(tr))
<1>7. GoOn(next, next.it < Iterations) => RewardsSound(trainer')
  <2>1. GoOn(next, next.it < Iterations) => trainer' = Asked(next) \/ trainer' = next
    BY DEF GoOn
  <2> QED BY <1>4, <1>6, <2>1
<1> HIDE DEF next
<1>8. \/ trainer' = tr \/ GoOn(CapExceeded(tr), FALSE) \/ GoOn(GroupDone(tr), TRUE)
      \/ GoOn(next, next.it < Iterations)
  BY DEF Score, tr, next
<1> QED BY <1>2, <1>3, <1>5, <1>6, <1>7, <1>8

\* The steps between two answers: a task of evaluate() begins, or nothing runs
\* otherwise than before.
LEMMA NextCases ==
    ASSUME Inv, Next
    PROVE  \/ /\ UNCHANGED <<job, run, meter, pc, votes, bill, trainer>>
              /\ result' \in {result, "returned", "raised"}
              /\ result' = "returned" /\ result # "returned" => job = "evaluate"
           \/ /\ UNCHANGED <<job, meter, votes, bill, result, trainer>> /\ job = "evaluate"
              /\ \E t \in Tasks, p \in {"waiting", "running", "done"} :
                    /\ run[t] = Idle /\ pc[t] # "done"
                    /\ meter.aborted => p # "running"
                    /\ pc' = [pc EXCEPT ![t] = p]
                    /\ run' = [run EXCEPT ![t] = IF p = "running" THEN Proposing ELSE Idle]
           \/ \E t \in Tasks : ProposalReturns(t) \/ WorkerReturns(t)
<1>1. ASSUME NEW t \in Tasks, Enter(t)
      PROVE  /\ UNCHANGED <<job, meter, votes, bill, result, trainer>> /\ job = "evaluate" /\ run[t] = Idle
             /\ pc[t] # "done"
             /\ \E p \in {"waiting", "running", "done"} :
                   /\ meter.aborted => p # "running"
                   /\ pc' = [pc EXCEPT ![t] = p]
                   /\ run' = [run EXCEPT ![t] = IF p = "running" THEN Proposing ELSE Idle]
  <2> DEFINE free == Cardinality({u \in Tasks : pc[u] = "running"}) < Concurrency
             p == IF meter.aborted THEN "done" ELSE IF free THEN "running" ELSE "waiting"
  <2>1. /\ UNCHANGED <<job, meter, votes, bill, result, trainer>> /\ job = "evaluate" /\ pc[t] = "new"
        /\ pc' = [pc EXCEPT ![t] = p]
        /\ run' = [run EXCEPT ![t] = IF pc'[t] = "running" THEN Proposing ELSE Idle]
    BY <1>1 DEF Enter, EvalAborted
  <2>2. run[t] = Idle
    BY <2>1 DEF Inv, Placed
  <2>3. p \in {"waiting", "running", "done"} /\ (meter.aborted => p # "running")
    OBVIOUS
  <2> HIDE DEF p
  <2>4. pc'[t] = p
    BY <2>1 DEF Inv, Placed
  <2> QED BY <2>1, <2>2, <2>3, <2>4
<1>2. ASSUME NEW t \in Tasks, Acquire(t)
      PROVE  /\ UNCHANGED <<job, meter, votes, bill, result, trainer>> /\ job = "evaluate" /\ run[t] = Idle
             /\ pc[t] # "done"
             /\ \E p \in {"waiting", "running", "done"} :
                   /\ meter.aborted => p # "running"
                   /\ pc' = [pc EXCEPT ![t] = p]
                   /\ run' = [run EXCEPT ![t] = IF p = "running" THEN Proposing ELSE Idle]
  <2>1. /\ UNCHANGED <<job, meter, votes, bill, result, trainer>> /\ pc[t] = "waiting"
        /\ pc' = [pc EXCEPT ![t] = IF meter.aborted THEN "done" ELSE "running"]
        /\ run' = [run EXCEPT ![t] = IF meter.aborted THEN Idle ELSE Proposing]
    BY <1>2 DEF Acquire, EvalAborted
  <2>2. job = "evaluate" /\ run[t] = Idle
    BY <2>1 DEF Inv, Placed
  <2>3. CASE meter.aborted
    BY <2>1, <2>2, <2>3
  <2>4. CASE ~meter.aborted
    BY <2>1, <2>2, <2>4
  <2> QED BY <2>3, <2>4
<1>3. ASSUME NEW t \in Tasks, CallRaises(t)
      PROVE  UNCHANGED <<job, run, meter, pc, votes, bill, trainer>> /\ result' = "raised"
  BY <1>3 DEF CallRaises, evalVars
<1>4. EvaluateReturns => /\ UNCHANGED <<job, run, meter, pc, votes, bill, trainer>>
                         /\ result' = "returned" /\ job = "evaluate"
  BY DEF EvaluateReturns, evalVars
<1>5. Terminated => UNCHANGED <<job, run, meter, pc, votes, bill, result, trainer>>
  BY DEF Terminated, vars, evalVars
<1> QED BY <1>1, <1>2, <1>3, <1>4, <1>5 DEF Next, Step

\* An answer, as far as the invariant is concerned.
LEMMA AnswerEffect ==
    ASSUME Inv, NEW t \in Tasks, ProposalReturns(t) \/ WorkerReturns(t)
    PROVE  /\ job' = job /\ run[t] # Idle /\ RewardsSound(trainer')
           /\ \/ \E r : /\ r # Idle /\ RunSound(r)
                        /\ run' = [run EXCEPT ![t] = r] /\ meter' = meter /\ pc' = pc
              \/ /\ job = "evaluate" /\ meter'.runs = meter.runs + 1
                 /\ \E go \in BOOLEAN :
                       /\ go => ~meter'.aborted
                       /\ run' = [run EXCEPT ![t] = IF go THEN Proposing ELSE Idle]
                       /\ pc' = [pc EXCEPT ![t] = IF go THEN @ ELSE "done"]
              \/ /\ job # "evaluate" /\ meter'.runs = meter.runs + 1 /\ pc' = pc
                 /\ \/ run' = [run EXCEPT ![t] = Proposing] /\ ~meter'.aborted
                    \/ run' = [u \in Tasks |-> Idle]
                    \/ /\ ~meter'.aborted
                       /\ \E q : run' = [u \in Tasks |-> IF u = q THEN Proposing ELSE Idle]
<1>1. PICK r : /\ Resume(t, r) /\ Goes(r) /\ run[t] # Idle
               /\ job = "train constrained" /\ Finished(r) => r.parsed = TRUE
  BY AnswerGoes
<1>2. RewardsSound(trainer)
  BY DEF Inv, Books
<1>3. CASE ~Finished(r)
  <2>1. run' = [run EXCEPT ![t] = r] /\ UNCHANGED <<job, meter, result, evalVars, trainer>>
    BY <1>1, <1>3 DEF Resume
  <2>2. r # Idle /\ RunSound(r)
    BY <1>1, <1>3 DEF Goes
  <2> QED BY <1>1, <1>2, <2>1, <2>2 DEF evalVars, RewardsSound, RewardValues
<1>4. CASE Finished(r) /\ job = "evaluate"
  <2>1. Vote(t, r)
    BY <1>1, <1>4 DEF Resume
  <2> QED BY <1>1, <1>2, <1>4, <2>1, VoteEffect DEF RunsAdded, RewardsSound, RewardValues
<1>5. CASE Finished(r) /\ job # "evaluate"
  <2>1. Score(t, r)
    BY <1>1, <1>5 DEF Resume
  <2>2. RewardsSound(trainer')
    BY <1>1, <1>2, <1>5, <2>1, RewardsKept
  <2> QED BY <1>1, <1>5, <2>1, <2>2, ScoreEffect DEF RunsAdded
<1> QED BY <1>3, <1>4, <1>5

\* Runs and places after a step that changes one task.
LEMMA OneRuns ==
    ASSUME Inv, NEW t \in Tasks, NEW r, RunSound(r), run' = [run EXCEPT ![t] = r]
    PROVE  /\ run' = [u \in Tasks |-> run'[u]] /\ run'[t] = r
           /\ \A u \in Tasks : u # t => run'[u] = run[u]
           /\ \A u \in Tasks : RunSound(run'[u])
<1>1. run = [u \in Tasks |-> run[u]] /\ \A u \in Tasks : RunSound(run[u])
  BY DEF Inv, Placed
<1>2. run' = [u \in Tasks |-> run'[u]]
  BY <1>1
<1>3. run'[t] = r /\ \A u \in Tasks : u # t => run'[u] = run[u]
  BY <1>1
<1> QED BY <1>1, <1>2, <1>3

LEMMA PlacedKept == Inv /\ Next => Placed' /\ \A t \in Tasks : RunSound(run'[t])
<1> SUFFICES ASSUME Inv, Next PROVE Placed' /\ \A t \in Tasks : RunSound(run'[t])
  OBVIOUS
<1>1. /\ Placed /\ \A t \in Tasks : RunSound(run[t])
  BY DEF Inv
<1>2. CASE UNCHANGED <<job, run, meter, pc, trainer>>
  BY <1>1, <1>2 DEF Placed
<1>3. ASSUME NEW t \in Tasks, NEW p \in {"waiting", "running", "done"}, NEW r \in {Idle, Proposing},
             job' = job, job = "evaluate", r # Idle => p = "running",
             pc' = [pc EXCEPT ![t] = p], run' = [run EXCEPT ![t] = r]
      PROVE  Placed' /\ \A u \in Tasks : RunSound(run'[u])
  <2>1. /\ run' = [u \in Tasks |-> run'[u]] /\ run'[t] = r
        /\ \A u \in Tasks : u # t => run'[u] = run[u]
        /\ \A u \in Tasks : RunSound(run'[u])
    BY <1>3, OneRuns, StartSound
  <2>2. /\ pc' \in [Tasks -> {"new", "waiting", "running", "done"}] /\ pc'[t] = p
        /\ \A u \in Tasks : u # t => pc'[u] = pc[u]
    BY <1>1, <1>3 DEF Placed
  <2>3. \A u \in Tasks : run'[u] # Idle => pc'[u] = "running"
    BY <1>1, <1>3, <2>1, <2>2 DEF Placed
  <2> QED BY <1>1, <1>3, <2>1, <2>2, <2>3 DEF Placed
<1>4. ASSUME NEW t \in Tasks, ProposalReturns(t) \/ WorkerReturns(t)
      PROVE  Placed' /\ \A u \in Tasks : RunSound(run'[u])
  <2>1. job' = job /\ run[t] # Idle
    BY <1>4, AnswerEffect
  <2>2. CASE \E r : /\ r # Idle /\ RunSound(r)
                    /\ run' = [run EXCEPT ![t] = r] /\ meter' = meter /\ pc' = pc
    <3>1. PICK r : r # Idle /\ RunSound(r) /\ run' = [run EXCEPT ![t] = r] /\ pc' = pc
      BY <2>2
    <3>2. /\ run' = [u \in Tasks |-> run'[u]] /\ run'[t] = r
          /\ \A u \in Tasks : u # t => run'[u] = run[u]
          /\ \A u \in Tasks : RunSound(run'[u])
      BY <3>1, OneRuns
    <3>3. \A u \in Tasks : run'[u] # Idle => run[u] # Idle
      BY <2>1, <3>2
    <3> QED BY <1>1, <2>1, <3>1, <3>2, <3>3 DEF Placed
  <2>3. ASSUME job = "evaluate", NEW go \in BOOLEAN,
               run' = [run EXCEPT ![t] = IF go THEN Proposing ELSE Idle],
               pc' = [pc EXCEPT ![t] = IF go THEN @ ELSE "done"]
        PROVE  Placed' /\ \A u \in Tasks : RunSound(run'[u])
    <3>1. pc[t] = "running" /\ pc = [u \in Tasks |-> pc[u]]
      BY <1>1, <2>1, <2>3 DEF Placed
    <3>2. CASE go
      BY <1>3, <2>1, <2>3, <3>1, <3>2
    <3>3. CASE ~go
      BY <1>3, <2>1, <2>3, <3>1, <3>3
    <3> QED BY <3>2, <3>3
  <2>4. CASE job # "evaluate" /\ pc' = pc /\ run' = [run EXCEPT ![t] = Proposing]
    <3>1. /\ run' = [u \in Tasks |-> run'[u]]
          /\ \A u \in Tasks : u # t => run'[u] = run[u]
          /\ \A u \in Tasks : RunSound(run'[u])
      BY <2>4, OneRuns, StartSound
    <3>2. \A u \in Tasks : run'[u] # Idle => run[u] # Idle
      BY <2>1, <3>1
    <3> QED BY <1>1, <2>1, <2>4, <3>1, <3>2 DEF Placed
  <2>5. ASSUME job # "evaluate", pc' = pc, NEW q, NEW more \in BOOLEAN,
               run' = [u \in Tasks |-> IF more /\ u = q THEN Proposing ELSE Idle]
        PROVE  Placed' /\ \A u \in Tasks : RunSound(run'[u])
    <3>1. \A u \in Tasks : run'[u] \in {Idle, Proposing} /\ (run'[u] # Idle => u = q)
      BY <2>5
    <3>2. run' = [u \in Tasks |-> run'[u]]
      BY <2>5
    <3>3. \A u \in Tasks : RunSound(run'[u])
      BY <3>1, StartSound
    <3> QED BY <1>1, <2>1, <2>5, <3>1, <3>2, <3>3 DEF Placed
  <2>6. CASE job # "evaluate" /\ pc' = pc /\ run' = [u \in Tasks |-> Idle]
    <3>1. run' = [u \in Tasks |-> IF FALSE /\ u = 0 THEN Proposing ELSE Idle]
      BY <2>6
    <3> QED BY <2>5, <2>6, <3>1
  <2>7. ASSUME job # "evaluate", pc' = pc, NEW q,
               run' = [u \in Tasks |-> IF u = q THEN Proposing ELSE Idle]
        PROVE  Placed' /\ \A u \in Tasks : RunSound(run'[u])
    <3>1. run' = [u \in Tasks |-> IF TRUE /\ u = q THEN Proposing ELSE Idle]
      BY <2>7
    <3> QED BY <2>5, <2>7, <3>1
  <2> QED BY <1>4, <2>2, <2>3, <2>4, <2>6, <2>7, AnswerEffect
<1>5. CASE /\ UNCHANGED <<job, meter, trainer>> /\ job = "evaluate"
           /\ \E t \in Tasks, p \in {"waiting", "running", "done"} :
                 /\ run[t] = Idle
                 /\ meter.aborted => p # "running"
                 /\ pc' = [pc EXCEPT ![t] = p]
                 /\ run' = [run EXCEPT ![t] = IF p = "running" THEN Proposing ELSE Idle]
  <2>1. PICK t \in Tasks, p \in {"waiting", "running", "done"} :
               /\ pc' = [pc EXCEPT ![t] = p]
               /\ run' = [run EXCEPT ![t] = IF p = "running" THEN Proposing ELSE Idle]
    BY <1>5
  <2>2. CASE p = "running"
    BY <1>3, <1>5, <2>1, <2>2
  <2>3. CASE p # "running"
    BY <1>3, <1>5, <2>1, <2>3
  <2> QED BY <2>2, <2>3
<1> QED BY <1>2, <1>4, <1>5, NextCases

LEMMA NextInv == Inv /\ [Next]_vars => Inv'
<1> SUFFICES ASSUME Inv, [Next]_vars PROVE Inv'
  OBVIOUS
<1>1. CASE UNCHANGED vars
  BY <1>1 DEF vars, evalVars, Inv, Placed, Books, RewardsSound, RewardValues
<1>2. CASE Next
  <2>1. Placed' /\ \A t \in Tasks : RunSound(run'[t])
    BY <1>2, PlacedKept
  <2>2. Books'
    <3>1. RewardsSound(trainer) /\ meter.runs \in Nat
      BY DEF Inv, Books
    <3>2. ASSUME job' = job, RewardsSound(trainer'), meter'.runs \in Nat PROVE Books'
      BY <3>2 DEF Books, RewardsSound, RewardValues
    <3>3. CASE UNCHANGED <<job, meter, trainer>>
      BY <3>1, <3>3 DEF Books, RewardsSound, RewardValues
    <3>4. ASSUME NEW t \in Tasks, ProposalReturns(t) \/ WorkerReturns(t) PROVE Books'
      <4>1. /\ job' = job /\ RewardsSound(trainer')
            /\ meter' = meter \/ meter'.runs = meter.runs + 1
        BY <3>4, AnswerEffect
      <4> QED BY <3>1, <3>2, <4>1
    <3> QED BY <1>2, <3>3, <3>4, NextCases
  <2> QED BY <2>1, <2>2 DEF Inv
<1> QED BY <1>1, <1>2

LEMMA Invariance == Spec => []Inv
<1> QED BY InitInv, NextInv, PTL DEF Spec

\* What the gate admits (workflow.py:192-316) the executor can do as written
\* (workflow.py:347-544): each prompt quotes all that its access list names.
\* And the decoder (hf_backend.py:138-236) emits nothing that the gate refuses.
THEOREM GateMeetsExecutor == Spec => []AdmittedRunsAsWritten
<1>1. Inv => AdmittedRunsAsWritten
  <2> SUFFICES ASSUME Inv PROVE AdmittedRunsAsWritten
    OBVIOUS
  <2>1. ASSUME NEW t \in Tasks, run[t].stack # <<>>
        PROVE  LET frame == Last(run[t].stack)
                   prior == 0..Len(frame.outputs)-1
               IN run[t].call.reads = IF Current(frame).all THEN prior ELSE Current(frame).ids
    <3>1. /\ run[t].call.reads = Reading(run[t].stack) /\ StackSound(run[t].stack)
      BY <2>1 DEF Inv, RunSound
    <3>2. FrameSound(Last(run[t].stack))
      BY <2>1, <3>1, StackFacts
    <3> QED BY <3>1, <3>2, QuotesAll DEF Reading
  <2>2. ASSUME job = "train constrained"
        PROVE  \A g \in Range(trainer.groups) \cup {trainer.rewards} : \A x \in Range(g) : x > 0
    <3>1. /\ trainer.rewards \in Seq({1, 2}) /\ trainer.groups \in Seq(Seq({1, 2}))
      BY <2>2 DEF Inv, Books, RewardsSound, RewardValues
    <3>2. \A g \in Range(trainer.groups) \cup {trainer.rewards} : g \in Seq({1, 2})
      <4> DEFINE S == Seq({1, 2})
      <4>1. trainer.groups \in Seq(S) /\ trainer.rewards \in S
        BY <3>1
      <4> HIDE DEF S
      <4>2. \A g \in Range(trainer.groups) \cup {trainer.rewards} : g \in S
        BY <4>1 DEF Range
      <4> QED BY <4>2 DEF S
    <3>3. ASSUME NEW g \in Seq({1, 2}) PROVE \A x \in Range(g) : x > 0
      <4>1. \A x \in Range(g) : x \in {1, 2}
        BY DEF Range
      <4> QED BY <4>1
    <3> QED BY <3>2, <3>3
  <2> QED BY <2>1, <2>2 DEF AdmittedRunsAsWritten
<1> QED BY <1>1, Invariance, PTL

Active == {t \in Tasks : run[t] # Idle}

LEMMA ActiveFinite == IsFiniteSet(Active) /\ Cardinality(Active) \in Nat
<1>1. IsFiniteSet(Tasks)
  BY FuguJobsAssumption, FS_Interval DEF Tasks
<1>2. IsFiniteSet(Active)
  BY <1>1, FS_Subset DEF Active
<1> QED BY <1>2, FS_CardinalityType

\* A run that is counted as ended was counted as active before.
LEMMA OneEnds ==
    ASSUME Inv, NEW t \in Tasks, run[t] # Idle, Active' = Active \ {t},
           meter'.runs = meter.runs + 1
    PROVE  Begun' = Begun
<1>1. t \in Active
  BY DEF Active
<1>2. Cardinality(Active \ {t}) = Cardinality(Active) - 1
  BY <1>1, ActiveFinite, FS_RemoveElement
<1>3. meter.runs \in Nat
  BY DEF Inv, Books
<1>4. Begun = meter.runs + Cardinality(Active) /\ Begun' = meter'.runs + Cardinality(Active')
  BY DEF Begun, Active
<1> QED BY <1>2, <1>3, <1>4, ActiveFinite

LEMMA SameActive ==
    ASSUME Active' = Active, meter' = meter
    PROVE  Begun' = Begun
BY DEF Begun, Active

LEMMA CapHolds == Inv /\ Next /\ meter'.aborted => Begun' = Begun
<1> SUFFICES ASSUME Inv, Next, meter'.aborted PROVE Begun' = Begun
  OBVIOUS
<1>1. Placed
  BY DEF Inv
<1>2. CASE UNCHANGED <<job, run, meter, pc, trainer>>
  BY <1>2, SameActive DEF Active
<1>3. CASE /\ UNCHANGED <<job, meter, trainer>> /\ job = "evaluate"
           /\ \E t \in Tasks, p \in {"waiting", "running", "done"} :
                 /\ run[t] = Idle
                 /\ meter.aborted => p # "running"
                 /\ pc' = [pc EXCEPT ![t] = p]
                 /\ run' = [run EXCEPT ![t] = IF p = "running" THEN Proposing ELSE Idle]
  <2>1. PICK t \in Tasks : run[t] = Idle /\ run' = [run EXCEPT ![t] = Idle]
    BY <1>3
  <2>2. \A u \in Tasks : run'[u] = run[u]
    BY <1>1, <2>1 DEF Placed
  <2>3. Active' = Active
    BY <2>2 DEF Active
  <2> QED BY <1>3, <2>3, SameActive
<1>4. ASSUME NEW t \in Tasks, ProposalReturns(t) \/ WorkerReturns(t) PROVE Begun' = Begun
  <2>1. run[t] # Idle
    BY <1>4, AnswerEffect
  <2>2. ASSUME NEW r, r # Idle, run' = [run EXCEPT ![t] = r], meter' = meter PROVE Begun' = Begun
    <3>1. \A u \in Tasks : run'[u] # Idle <=> run[u] # Idle
      BY <1>1, <2>1, <2>2 DEF Placed
    <3>2. Active' = Active
      BY <3>1 DEF Active
    <3> QED BY <2>2, <3>2, SameActive
  <2>3. ASSUME run' = [run EXCEPT ![t] = Idle], meter'.runs = meter.runs + 1
        PROVE  Begun' = Begun
    <3>1. \A u \in Tasks : run'[u] # Idle <=> run[u] # Idle /\ u # t
      BY <1>1, <2>3 DEF Placed
    <3>2. Active' = Active \ {t}
      BY <3>1 DEF Active
    <3> QED BY <2>1, <2>3, <3>2, OneEnds
  <2>4. ASSUME job # "evaluate", run' = [u \in Tasks |-> Idle], meter'.runs = meter.runs + 1
        PROVE  Begun' = Begun
    <3>1. \A u \in Tasks : run[u] # Idle => u = t
      BY <1>1, <2>1, <2>4 DEF Placed
    <3>2. \A u \in Tasks : run'[u] = Idle
      BY <2>4
    <3>3. Active' = Active \ {t}
      BY <3>1, <3>2 DEF Active
    <3> QED BY <2>1, <2>4, <3>3, OneEnds
  <2>5. ASSUME NEW go \in BOOLEAN, go => ~meter'.aborted,
               run' = [run EXCEPT ![t] = IF go THEN Proposing ELSE Idle]
        PROVE  run' = [run EXCEPT ![t] = Idle]
    BY <2>5
  <2> QED BY <1>4, <2>2, <2>3, <2>4, <2>5, AnswerEffect
<1> QED BY <1>2, <1>3, <1>4, NextCases

\* A spending cap, once crossed, lets no coroutine of evaluate() and no group of
\* train() begin a run (eval.py:68-99, cost.py:103-119, grpo.py:108-193).
THEOREM CapIsFinal == Spec => NoRunAfterCap
<1>1. Inv /\ [Next]_vars => [meter.aborted' => Begun' = Begun]_vars
  BY CapHolds
<1>2. Spec => [][meter.aborted' => Begun' = Begun]_vars
  BY <1>1, Invariance, PTL DEF Spec
<1> QED BY <1>2 DEF NoRunAfterCap

-----------------------------------------------------------------------------
(***************************************************************************)
(* What a sequence of frames has tallied                                   *)
(***************************************************************************)
Counts == [Names -> Nat]

Counted(f) == f.tokens \in Counts /\ f.calls \in Nat

CountedSeq(s) == s \in Seq(Range(s)) /\ \A k \in DOMAIN s : Counted(s[k])

CallsOf(s) == [k \in DOMAIN s |-> s[k].calls]
TokensOf(s, m) == [k \in DOMAIN s |-> s[k].tokens[m]]

LEMMA NamesFinite == IsFiniteSet(Names) /\ CONDUCTOR_KEY \in Names /\ 0 \in Names
<1>1. IsFiniteSet(0..NWorkers-1)
  BY FuguAssumption, FS_Interval
<1>2. IsFiniteSet(Names)
  <2>1. IsFiniteSet({CONDUCTOR_KEY})
    BY FS_Singleton
  <2> QED BY <1>1, <2>1, FS_Union DEF Names, Workers
<1> QED BY <1>2, FuguAssumption DEF Names, Workers

LEMMA CountedFacts ==
    ASSUME NEW s, CountedSeq(s)
    PROVE  /\ Len(s) \in Nat /\ DOMAIN s = 1..Len(s) /\ IsFiniteSet(DOMAIN s)
           /\ \A k \in 1..Len(s) : CallsOf(s)[k] = s[k].calls /\ s[k].calls \in Nat
           /\ \A m \in Names, k \in 1..Len(s) :
                 TokensOf(s, m)[k] = s[k].tokens[m] /\ s[k].tokens[m] \in Nat
           /\ SumCalls(s) = SumFunctionOnSet(CallsOf(s), 1..Len(s))
           /\ \A m \in Names : SumTokens(s)[m] = SumFunctionOnSet(TokensOf(s, m), 1..Len(s))
<1>1. Len(s) \in Nat /\ DOMAIN s = 1..Len(s)
  BY DEF CountedSeq
<1>2. IsFiniteSet(DOMAIN s)
  BY <1>1, FS_Interval
<1>3. \A k \in 1..Len(s) : Counted(s[k])
  BY <1>1 DEF CountedSeq
<1>4. \A k \in 1..Len(s) : CallsOf(s)[k] = s[k].calls /\ s[k].calls \in Nat
  BY <1>1, <1>3 DEF CallsOf, Counted
<1>5. \A m \in Names, k \in 1..Len(s) :
         TokensOf(s, m)[k] = s[k].tokens[m] /\ s[k].tokens[m] \in Nat
  BY <1>1, <1>3 DEF TokensOf, Counted, Counts
<1>6. SumCalls(s) = SumFunctionOnSet(CallsOf(s), 1..Len(s))
  <2>1. SumCalls(s) = SumFunction(CallsOf(s))
    BY DEF SumCalls, CallsOf
  <2>2. DOMAIN CallsOf(s) = 1..Len(s)
    BY <1>1 DEF CallsOf
  <2> QED BY <2>1, <2>2 DEF SumFunction
<1>7. ASSUME NEW m \in Names
      PROVE  SumTokens(s)[m] = SumFunctionOnSet(TokensOf(s, m), 1..Len(s))
  <2>1. SumTokens(s)[m] = SumFunction(TokensOf(s, m))
    BY DEF SumTokens, TokensOf
  <2>2. DOMAIN TokensOf(s, m) = 1..Len(s)
    BY <1>1 DEF TokensOf
  <2> QED BY <2>1, <2>2 DEF SumFunction
<1> QED BY <1>1, <1>2, <1>4, <1>5, <1>6, <1>7

LEMMA CountedSums ==
    ASSUME NEW s, CountedSeq(s)
    PROVE  SumCalls(s) \in Nat /\ SumTokens(s) \in Counts
<1>1. SumCalls(s) \in Nat
  BY CountedFacts, SumNat
<1>2. ASSUME NEW m \in Names PROVE SumTokens(s)[m] \in Nat
  BY CountedFacts, SumNat
<1>3. SumTokens(s) = [m \in Names |-> SumTokens(s)[m]]
  BY DEF SumTokens
<1> QED BY <1>1, <1>2, <1>3 DEF Counts

LEMMA EmptySums == CountedSeq(<<>>) /\ SumCalls(<<>>) = 0 /\ \A m \in Names : SumTokens(<<>>)[m] = 0
<1>1. CountedSeq(<<>>)
  <2>1. Range(<<>>) = {} /\ <<>> \in Seq({}) /\ DOMAIN <<>> = {}
    BY DEF Range
  <2> QED BY <2>1 DEF CountedSeq
<1>2. Len(<<>>) = 0 /\ 1..0 = {}
  OBVIOUS
<1> QED BY <1>1, <1>2, CountedFacts, SumEmpty

\* Sequences that are put together from counted ones.
LEMMA AppendCounted ==
    ASSUME NEW s, CountedSeq(s), NEW f, Counted(f)
    PROVE  /\ CountedSeq(Append(s, f))
           /\ SumCalls(Append(s, f)) = SumCalls(s) + f.calls
           /\ \A m \in Names : SumTokens(Append(s, f))[m] = SumTokens(s)[m] + f.tokens[m]
<1> DEFINE n == Len(s)
           a == Append(s, f)
           S == Range(s) \cup {f}
<1>1. n \in Nat /\ s \in Seq(S)
  <2>1. s \in Seq(Range(s))
    BY DEF CountedSeq
  <2> QED BY <2>1, SeqMonotonic
<1>2. /\ a \in Seq(S) /\ Len(a) = n + 1 /\ a[n + 1] = f
      /\ \A k \in 1..n : a[k] = s[k]
  BY <1>1, AppendProperties
<1>3. CountedSeq(a)
  <2>1. DOMAIN a = 1..(n + 1)
    BY <1>1, <1>2
  <2>2. \A k \in 1..(n + 1) : Counted(a[k])
    BY <1>1, <1>2, CountedFacts DEF CountedSeq
  <2>3. \A k \in 1..Len(a) : a[k] \in Range(a)
    BY <2>1, <1>2 DEF Range
  <2>4. a \in Seq(Range(a))
    <3> HIDE DEF a, S
    <3> QED BY <1>2, <2>3
  <2> QED BY <2>1, <2>2, <2>4 DEF CountedSeq
<1> HIDE DEF a, n, S
<1>4. SumFunctionOnSet(CallsOf(a), 1..(n + 1)) = SumFunctionOnSet(CallsOf(s), 1..n) + CallsOf(a)[n + 1]
  <2>1. \A k \in 1..n : CallsOf(s)[k] \in Int /\ CallsOf(a)[k] = CallsOf(s)[k]
    BY <1>1, <1>2, <1>3, CountedFacts DEF n
  <2>2. CallsOf(a)[n + 1] \in Int
    BY <1>1, <1>2, <1>3, CountedFacts
  <2> QED BY <1>1, <2>1, <2>2, SumAppend
<1>5. CallsOf(a)[n + 1] = f.calls
  BY <1>1, <1>2, <1>3, CountedFacts
<1>6. SumCalls(a) = SumCalls(s) + f.calls
  BY <1>2, <1>3, <1>4, <1>5, CountedFacts DEF n
<1>7. ASSUME NEW m \in Names PROVE SumTokens(a)[m] = SumTokens(s)[m] + f.tokens[m]
  <2>1. \A k \in 1..n : TokensOf(s, m)[k] \in Int /\ TokensOf(a, m)[k] = TokensOf(s, m)[k]
    BY <1>1, <1>2, <1>3, CountedFacts DEF n
  <2>2. TokensOf(a, m)[n + 1] \in Int /\ TokensOf(a, m)[n + 1] = f.tokens[m]
    BY <1>1, <1>2, <1>3, CountedFacts
  <2>3. SumFunctionOnSet(TokensOf(a, m), 1..(n + 1))
          = SumFunctionOnSet(TokensOf(s, m), 1..n) + TokensOf(a, m)[n + 1]
    BY <1>1, <2>1, <2>2, SumAppend
  <2> QED BY <1>2, <1>3, <2>2, <2>3, CountedFacts DEF n
<1> QED BY <1>3, <1>6, <1>7 DEF a

LEMMA ConsCounted ==
    ASSUME NEW s, CountedSeq(s), NEW f, Counted(f)
    PROVE  /\ CountedSeq(<<f>> \o s)
           /\ SumCalls(<<f>> \o s) = f.calls + SumCalls(s)
           /\ \A m \in Names : SumTokens(<<f>> \o s)[m] = f.tokens[m] + SumTokens(s)[m]
<1> DEFINE n == Len(s)
           a == <<f>> \o s
           S == Range(s) \cup {f}
<1>1. n \in Nat /\ s \in Seq(S) /\ <<f>> \in Seq(S) /\ Len(<<f>>) = 1
  <2>1. s \in Seq(Range(s))
    BY DEF CountedSeq
  <2> QED BY <2>1, SeqMonotonic
<1>2. /\ a \in Seq(S) /\ Len(a) = n + 1 /\ a[1] = f
      /\ \A k \in 1..n : a[k + 1] = s[k]
  BY <1>1, ConcatProperties
<1>3. CountedSeq(a)
  <2>1. DOMAIN a = 1..(n + 1)
    BY <1>1, <1>2
  <2>2. ASSUME NEW k \in 1..(n + 1) PROVE Counted(a[k])
    <3>1. CASE k = 1
      BY <1>2, <3>1
    <3>2. CASE k # 1
      <4>1. k - 1 \in 1..n /\ (k - 1) + 1 = k
        BY <1>1, <3>2
      <4>2. a[k] = s[k - 1]
        BY <1>2, <4>1
      <4> QED BY <4>1, <4>2, CountedFacts DEF CountedSeq
    <3> QED BY <3>1, <3>2
  <2>3. \A k \in 1..Len(a) : a[k] \in Range(a)
    BY <2>1, <1>2 DEF Range
  <2>4. a \in Seq(Range(a))
    <3> HIDE DEF a, S
    <3> QED BY <1>2, <2>3
  <2> QED BY <2>1, <2>2, <2>4 DEF CountedSeq
<1> HIDE DEF a, n, S
<1>4. SumCalls(a) = f.calls + SumCalls(s)
  <2>1. \A k \in 1..n : CallsOf(s)[k] \in Int /\ CallsOf(a)[k + 1] = CallsOf(s)[k]
    BY <1>1, <1>2, <1>3, CountedFacts DEF n
  <2>2. CallsOf(a)[1] \in Int /\ CallsOf(a)[1] = f.calls
    BY <1>1, <1>2, <1>3, CountedFacts
  <2>3. SumFunctionOnSet(CallsOf(a), 1..(n + 1)) = CallsOf(a)[1] + SumFunctionOnSet(CallsOf(s), 1..n)
    BY <1>1, <2>1, <2>2, SumCons
  <2> QED BY <1>2, <1>3, <2>2, <2>3, CountedFacts DEF n
<1>5. ASSUME NEW m \in Names PROVE SumTokens(a)[m] = f.tokens[m] + SumTokens(s)[m]
  <2>1. ASSUME NEW k \in 1..n
        PROVE  TokensOf(s, m)[k] \in Int /\ TokensOf(a, m)[k + 1] = TokensOf(s, m)[k]
    <3>1. k + 1 \in 1..Len(a) /\ k \in 1..Len(s) /\ a[k + 1] = s[k]
      BY <1>1, <1>2 DEF n
    <3> QED BY <3>1, <1>3, CountedFacts
  <2>2. TokensOf(a, m)[1] \in Int /\ TokensOf(a, m)[1] = f.tokens[m]
    BY <1>1, <1>2, <1>3, CountedFacts
  <2>3. SumFunctionOnSet(TokensOf(a, m), 1..(n + 1))
          = TokensOf(a, m)[1] + SumFunctionOnSet(TokensOf(s, m), 1..n)
    BY <1>1, <2>1, <2>2, SumCons
  <2> QED BY <1>2, <1>3, <2>2, <2>3, CountedFacts DEF n
<1> QED BY <1>3, <1>4, <1>5 DEF a

LEMMA SliceCounted ==
    ASSUME NEW s, CountedSeq(s), NEW i \in 1..(Len(s) + 1), NEW j \in 0..Len(s)
    PROVE  /\ CountedSeq(SubSeq(s, i, j))
           /\ SumCalls(SubSeq(s, i, j)) = SumFunctionOnSet(CallsOf(s), i..j)
           /\ \A m \in Names : SumTokens(SubSeq(s, i, j))[m] = SumFunctionOnSet(TokensOf(s, m), i..j)
<1> DEFINE a == SubSeq(s, i, j)
           n == IF i <= j THEN j - i + 1 ELSE 0
           d == i - 1
<1>1. /\ Len(s) \in Nat /\ DOMAIN s = 1..Len(s) /\ n \in Nat /\ d \in Int /\ i \in Int /\ j \in Int
      /\ \A k \in i..j : k \in 1..Len(s)
  BY CountedFacts
<1>2. a \in Seq(Range(s)) /\ Len(a) = n /\ \A k \in 1..n : a[k] = s[k + d]
  <2>1. \A k \in i..j : s[k] \in Range(s)
    BY <1>1 DEF Range
  <2>2. a \in Seq(Range(s)) /\ Len(a) = n /\ \A k \in 1..(j - i + 1) : a[k] = s[i + k - 1]
    BY <1>1, <2>1, SubSeqProperties
  <2>3. \A k \in 1..n : k \in 1..(j - i + 1) /\ i + k - 1 = k + d
    BY <1>1
  <2> HIDE DEF a, n
  <2> QED BY <2>2, <2>3
<1>3. \A k \in 1..n : k + d \in 1..Len(s)
  BY <1>1
<1>4. (1 + d)..(n + d) = i..j
  BY <1>1
<1> HIDE DEF a, n, d
<1>5. CountedSeq(a)
  <2>1. DOMAIN a = 1..n
    BY <1>1, <1>2
  <2>2. \A k \in 1..n : Counted(a[k])
    BY <1>1, <1>2, <1>3 DEF CountedSeq
  <2>3. \A k \in 1..Len(a) : a[k] \in Range(a)
    BY <2>1, <1>2 DEF Range
  <2> QED BY <1>2, <2>1, <2>2, <2>3 DEF CountedSeq
<1>6. SumCalls(a) = SumFunctionOnSet(CallsOf(s), i..j)
  <2>1. ASSUME NEW k \in 1..n
        PROVE  CallsOf(s)[k + d] \in Int /\ CallsOf(a)[k] = CallsOf(s)[k + d]
    <3>1. k \in 1..Len(a) /\ k + d \in 1..Len(s) /\ a[k] = s[k + d]
      BY <1>2, <1>3
    <3> QED BY <3>1, <1>5, CountedFacts
  <2>2. SumFunctionOnSet(CallsOf(a), 1..n)
          = SumFunctionOnSet(CallsOf(s), (1 + d)..(n + d))
    BY <1>1, <2>1, SumShifted
  <2> QED BY <1>2, <1>4, <1>5, <2>2, CountedFacts
<1>7. ASSUME NEW m \in Names PROVE SumTokens(a)[m] = SumFunctionOnSet(TokensOf(s, m), i..j)
  <2>1. ASSUME NEW k \in 1..n
        PROVE  TokensOf(s, m)[k + d] \in Int /\ TokensOf(a, m)[k] = TokensOf(s, m)[k + d]
    <3>1. k \in 1..Len(a) /\ k + d \in 1..Len(s) /\ a[k] = s[k + d]
      BY <1>2, <1>3
    <3> QED BY <3>1, <1>5, CountedFacts
  <2>2. SumFunctionOnSet(TokensOf(a, m), 1..n)
          = SumFunctionOnSet(TokensOf(s, m), (1 + d)..(n + d))
    BY <1>1, <2>1, SumShifted
  <2> QED BY <1>2, <1>4, <1>5, <2>2, CountedFacts
<1> QED BY <1>5, <1>6, <1>7 DEF a

\* Cut before position b, the two parts have tallied what the whole has.
LEMMA SplitCounted ==
    ASSUME NEW s, CountedSeq(s), NEW b \in 1..Len(s)
    PROVE  /\ CountedSeq(SubSeq(s, 1, b - 1)) /\ CountedSeq(SubSeq(s, b, Len(s)))
           /\ SumCalls(s) = SumCalls(SubSeq(s, 1, b - 1)) + SumCalls(SubSeq(s, b, Len(s)))
           /\ \A m \in Names : SumTokens(s)[m] = SumTokens(SubSeq(s, 1, b - 1))[m]
                                                   + SumTokens(SubSeq(s, b, Len(s)))[m]
<1> DEFINE n == Len(s)
<1>1. n \in Nat /\ 1 \in 1..(n + 1) /\ b - 1 \in 0..n /\ b \in 1..(n + 1) /\ n \in 0..n /\ b \in 1..n
  BY CountedFacts
<1>2. \A k \in 1..n : CallsOf(s)[k] \in Int /\ \A m \in Names : TokensOf(s, m)[k] \in Int
  BY CountedFacts
<1>3. SumFunctionOnSet(CallsOf(s), 1..n)
        = SumFunctionOnSet(CallsOf(s), 1..(b - 1)) + SumFunctionOnSet(CallsOf(s), b..n)
  BY <1>1, <1>2, SumSplit
<1>4. \A m \in Names : SumFunctionOnSet(TokensOf(s, m), 1..n)
                         = SumFunctionOnSet(TokensOf(s, m), 1..(b - 1))
                             + SumFunctionOnSet(TokensOf(s, m), b..n)
  BY <1>1, <1>2, SumSplit
<1> QED BY <1>1, <1>3, <1>4, CountedFacts, SliceCounted

-----------------------------------------------------------------------------
(***************************************************************************)
(* Each answer adds one call to what a run has tallied                     *)
(***************************************************************************)
RunCounted(r) ==
    /\ Counted(r) /\ CountedSeq(r.stack) /\ r.parsed \in BOOLEAN
    /\ r.call.kind \in {"none", "propose", "work"} /\ r.call.to \in Names
    /\ r.stack # <<>> => /\ Len(r.stack) <= MaxDepth + 1
                         /\ r.call.kind = "propose" => Len(r.stack) <= MaxDepth

CallsDone(r) == SumCalls(Unmetered(r))
TokensDone(r) == SumTokens(Unmetered(r))

\* Run x is run r with one more answered call.
Pays(r, x, name) ==
    /\ CallsDone(x) = CallsDone(r) + 1
    /\ TokensDone(x) = Accum(TokensDone(r), name)

LEMMA DoneSums ==
    ASSUME NEW r, Counted(r), CountedSeq(r.stack)
    PROVE  /\ CallsDone(r) = r.calls + SumCalls(r.stack) /\ CallsDone(r) \in Nat
           /\ TokensDone(r) \in Counts
           /\ \A m \in Names : TokensDone(r)[m] = r.tokens[m] + SumTokens(r.stack)[m]
BY ConsCounted, CountedSums DEF CallsDone, TokensDone, Unmetered

LEMMA PaysByCounts ==
    ASSUME NEW r, Counted(r), CountedSeq(r.stack), NEW x, Counted(x), CountedSeq(x.stack),
           NEW name \in Names, CallsDone(x) = CallsDone(r) + 1,
           \A m \in Names : TokensDone(x)[m] = TokensDone(r)[m] + (IF m = name THEN 1 ELSE 0)
    PROVE  Pays(r, x, name)
<1>1. TokensDone(r) \in Counts /\ TokensDone(x) \in Counts
  BY DoneSums
<1>2. TokensDone(x) = Accum(TokensDone(r), name)
  <2> DEFINE a == TokensDone(r)  b == TokensDone(x)
  <2>1. a \in [Names -> Nat] /\ b \in [Names -> Nat]
    BY <1>1 DEF Counts
  <2>2. \A m \in Names : b[m] = a[m] + (IF m = name THEN 1 ELSE 0)
    OBVIOUS
  <2> HIDE DEF a, b
  <2>3. b = Accum(a, name)
    BY <2>1, <2>2 DEF Accum
  <2> QED BY <2>3 DEF a, b
<1> QED BY <1>2 DEF Pays

LEMMA TalliedCounted ==
    ASSUME NEW f, {"tokens", "calls"} \subseteq DOMAIN f, Counted(f), NEW name \in Names
    PROVE  LET g == Tallied(f, name)
           IN /\ Counted(g) /\ g.calls = f.calls + 1
              /\ \A m \in Names : g.tokens[m] = f.tokens[m] + (IF m = name THEN 1 ELSE 0)
<1> DEFINE g == Tallied(f, name)
<1>1. g.calls = f.calls + 1 /\ g.tokens = Accum(f.tokens, name)
  BY DEF Tallied
<1> HIDE DEF g
<1>2. /\ Accum(f.tokens, name) \in Counts
      /\ \A m \in Names : Accum(f.tokens, name)[m] = f.tokens[m] + (IF m = name THEN 1 ELSE 0)
  BY DEF Accum, Counted, Counts
<1>3. Counted(g) /\ \A m \in Names : g.tokens[m] = f.tokens[m] + (IF m = name THEN 1 ELSE 0)
  BY <1>1, <1>2 DEF Counted
<1> QED BY <1>1, <1>3 DEF g

LEMMA FreshCounted ==
    ASSUME NEW steps
    PROVE  /\ Counted(NewFrame(steps)) /\ NewFrame(steps).calls = 0
           /\ \A m \in Names : NewFrame(steps).tokens[m] = 0
BY DEF Counted, Counts, NewFrame, NoTokens

LEMMA NextCallCounted ==
    ASSUME NEW s, StackSound(s), s # <<>>, Len(s) <= MaxDepth + 1
    PROVE  /\ NextCall(s).kind \in {"propose", "work"} /\ NextCall(s).to \in Names
           /\ NextCall(s).kind = "propose" => Len(s) <= MaxDepth
<1> DEFINE step == Current(Last(s))
           self == step.model = NWorkers
           reads == ContextBlock(step, Last(s).outputs)
<1>1. FrameSound(Last(s)) /\ Len(s) \in Nat
  BY StackFacts
<1>2. step.model \in 0..NWorkers
  <2>1. Len(Last(s).outputs) + 1 \in DOMAIN Last(s).steps
    BY <1>1 DEF FrameSound, Admitted
  <2>2. step \in StepRow
    BY <1>1, <2>1 DEF FrameSound, Admitted, Current
  <2> QED BY <2>2 DEF StepRow
<1>3. NextCall(s) = IF self /\ Len(s) - 1 < MaxDepth
                    THEN [kind |-> "propose", to |-> CONDUCTOR_KEY, reads |-> reads]
                    ELSE [kind |-> "work", to |-> IF self THEN 0 ELSE step.model, reads |-> reads]
  BY DEF NextCall
<1> HIDE DEF step, reads
<1>4. CASE self /\ Len(s) - 1 < MaxDepth
  BY <1>1, <1>3, <1>4, NamesFinite, FuguAssumption
<1>5. CASE ~(self /\ Len(s) - 1 < MaxDepth)
  <2>1. (IF self THEN 0 ELSE step.model) \in Names
    BY <1>2, FuguAssumption DEF Names, Workers
  <2> QED BY <1>3, <1>5, <2>1
<1> QED BY <1>4, <1>5

LEMMA ExecutingCounted ==
    ASSUME NEW r, Shaped(r), Counted(r), r.parsed \in BOOLEAN,
           NEW s, StackSound(s), CountedSeq(s), s # <<>>, Len(s) <= MaxDepth + 1
    PROVE  LET x == Executing(r, s)
           IN RunCounted(x) /\ x.stack = s /\ x.calls = r.calls /\ x.tokens = r.tokens
<1> DEFINE x == Executing(r, s)
<1>1. /\ x.call = NextCall(s) /\ x.stack = s /\ x.parsed = r.parsed
      /\ x.tokens = r.tokens /\ x.calls = r.calls
  BY DEF Executing, Shaped
<1> HIDE DEF x
<1>2. RunCounted(x)
  BY <1>1, NextCallCounted DEF RunCounted, Counted
<1> QED BY <1>1, <1>2 DEF x

LEMMA StartCounted ==
    /\ RunCounted(Idle) /\ RunCounted(Proposing)
    /\ \A r \in {Idle, Proposing} :
          CallsDone(r) = 0 /\ TokensDone(r) \in Counts /\ \A m \in Names : TokensDone(r)[m] = 0
<1>1. NoTokens \in Counts /\ \A m \in Names : NoTokens[m] = 0
  BY DEF NoTokens, Counts
<1>2. /\ Idle.tokens = NoTokens /\ Idle.calls = 0 /\ Idle.stack = <<>> /\ Idle.parsed = FALSE
      /\ Idle.call.kind = "none" /\ Idle.call.to = 0
  BY DEF Idle, NoCall
<1>3. /\ Proposing.stack = <<>> /\ Proposing.tokens = NoTokens /\ Proposing.calls = 0
      /\ Proposing.parsed = FALSE
      /\ Proposing.call.kind = "propose" /\ Proposing.call.to = CONDUCTOR_KEY
  BY Start DEF Proposing, Idle
<1>4. \A r \in {Idle, Proposing} : Counted(r) /\ CountedSeq(r.stack)
  BY <1>1, <1>2, <1>3, EmptySums DEF Counted
<1>5. RunCounted(Idle) /\ RunCounted(Proposing)
  BY <1>2, <1>3, <1>4, NamesFinite DEF RunCounted
<1>6. ASSUME NEW r \in {Idle, Proposing}
      PROVE  /\ CallsDone(r) = 0 /\ TokensDone(r) \in Counts
             /\ \A m \in Names : TokensDone(r)[m] = 0
  <2>1. r.stack = <<>> /\ r.calls = 0 /\ r.tokens = NoTokens
    BY <1>2, <1>3
  <2>2. Counted(r) /\ CountedSeq(r.stack)
    BY <1>4
  <2>3. SumCalls(r.stack) = 0 /\ \A m \in Names : SumTokens(r.stack)[m] = 0
    BY <2>1, EmptySums
  <2>4. r.calls = 0 /\ \A m \in Names : r.tokens[m] = 0
    BY <1>1, <2>1
  <2> HIDE DEF CallsDone
  <2> QED BY <2>2, <2>3, <2>4, DoneSums
<1> QED BY <1>5, <1>6

LEMMA OneFrame ==
    ASSUME NEW f, FrameSound(f), Counted(f)
    PROVE  /\ StackSound(<<f>>) /\ CountedSeq(<<f>>) /\ Len(<<f>>) = 1 /\ <<f>> # <<>>
           /\ SumCalls(<<f>>) = f.calls
           /\ \A m \in Names : SumTokens(<<f>>)[m] = f.tokens[m]
<1>1. <<f>> \in Seq({f}) /\ (\A i \in DOMAIN <<f>> : <<f>>[i] = f) /\ Len(<<f>>) = 1
  OBVIOUS
<1>2. StackSound(<<f>>)
  BY <1>1, SeqOfFrames
<1>3. <<f>> \o <<>> = <<f>>
  OBVIOUS
<1>4. f.calls \in Nat /\ \A m \in Names : f.tokens[m] \in Nat
  BY DEF Counted, Counts
<1>5. /\ CountedSeq(<<f>> \o <<>>)
      /\ SumCalls(<<f>> \o <<>>) = f.calls + 0
      /\ \A m \in Names : SumTokens(<<f>> \o <<>>)[m] = f.tokens[m] + 0
  BY EmptySums, ConsCounted
<1>6. \A m \in Names : SumTokens(<<f>>)[m] = f.tokens[m]
  BY <1>3, <1>4, <1>5
<1> QED BY <1>1, <1>2, <1>3, <1>4, <1>5, <1>6

LEMMA ProposalPaid ==
    ASSUME NEW text, ReadableText(text)
    PROVE  LET x == AfterProposal(Proposing, text)
           IN /\ RunCounted(x) /\ Pays(Proposing, x, CONDUCTOR_KEY)
              /\ Finished(x) => x.stack = <<>>
<1> DEFINE wf == ParseWorkflow(text, MaxDepth > 0)
           told == Tallied(Proposing, CONDUCTOR_KEY)
           paid == [told EXCEPT !.call = NoCall]
           started == [paid EXCEPT !.parsed = TRUE]
           s == <<NewFrame(wf.steps)>>
           x == AfterProposal(Proposing, text)
<1>1. x = IF wf.ok THEN Executing(started, s) ELSE paid
  BY DEF AfterProposal
<1>2. told \in [call : {Proposing.call}, stack : {<<>>}, parsed : {FALSE}, outputs : {<<>>},
                tokens : {told.tokens}, calls : {1}]
  <2>1. Proposing.parsed = FALSE /\ Proposing.outputs = <<>>
    BY DEF Proposing, Idle
  <2>2. told \in [call : {Proposing.call}, stack : {Proposing.stack}, parsed : {Proposing.parsed},
                  outputs : {Proposing.outputs},
                  tokens : {Accum(Proposing.tokens, CONDUCTOR_KEY)},
                  calls : {Proposing.calls + 1}]
    BY Start DEF Shaped, Tallied
  <2> HIDE DEF told
  <2>3. told.tokens = Accum(Proposing.tokens, CONDUCTOR_KEY)
    BY <2>2
  <2>4. Proposing.stack = <<>> /\ Proposing.calls + 1 = 1
    BY Start
  <2> QED BY <2>1, <2>2, <2>3, <2>4
<1>3. /\ Counted(told)
      /\ \A m \in Names : told.tokens[m] = IF m = CONDUCTOR_KEY THEN 1 ELSE 0
  <2>1. {"tokens", "calls"} \subseteq DOMAIN Proposing /\ Counted(Proposing)
    BY Start, StartCounted DEF Shaped, RunCounted
  <2>2. \A m \in Names : Proposing.tokens[m] = 0
    BY Start DEF NoTokens
  <2> QED BY <2>1, <2>2, TalliedCounted, NamesFinite
<1> HIDE DEF told
<1>4. /\ paid \in [call : {NoCall}, stack : {<<>>}, parsed : {FALSE}, outputs : {<<>>},
                   tokens : {told.tokens}, calls : {1}]
  BY <1>2
<1> HIDE DEF paid
<1>5. started \in [call : {NoCall}, stack : {<<>>}, parsed : {TRUE}, outputs : {<<>>},
                   tokens : {told.tokens}, calls : {1}]
  BY <1>4
<1> HIDE DEF started
<1>6. NoCall \in [kind : {"none"}, to : {0}, reads : {{}}]
  BY DEF NoCall
<1>7. CASE wf.ok
  <2>1. FrameSound(NewFrame(wf.steps)) /\ Counted(NewFrame(wf.steps))
    BY <1>7, ParsedSound, Fresh, FreshCounted
  <2>2. StackSound(s) /\ CountedSeq(s) /\ s # <<>> /\ Len(s) = 1
    BY <2>1, OneFrame
  <2>3. SumCalls(s) = 0 /\ \A m \in Names : SumTokens(s)[m] = 0
    BY <2>1, OneFrame, FreshCounted
  <2>4. Shaped(started) /\ Counted(started) /\ started.parsed \in BOOLEAN
    <3>1. NoCall \in [kind : {NoCall.kind}, to : {NoCall.to}, reads : {NoCall.reads}]
      BY DEF NoCall
    <3>2. Shaped(started)
      BY <1>5, <3>1 DEF Shaped
    <3>3. started.tokens = told.tokens /\ started.calls = 1 /\ started.parsed = TRUE
      BY <1>5
    <3>4. told.tokens \in Counts
      BY <1>3 DEF Counted
    <3>5. Counted(started)
      BY <3>3, <3>4 DEF Counted
    <3>6. started.parsed \in BOOLEAN
      BY <3>3
    <3> QED BY <3>2, <3>5, <3>6
  <2> HIDE DEF s, x
  <2>5. RunCounted(x) /\ x.stack = s /\ x.calls = 1 /\ x.tokens = told.tokens
    <3>1. 1 <= MaxDepth + 1
      BY FuguAssumption
    <3> QED BY <1>1, <1>5, <1>7, <2>2, <2>3, <2>4, <3>1, ExecutingCounted
  <2>6. ~Finished(x)
    BY <1>1, <1>5, <1>7, <2>2, <2>4, ExecutingSound
  <2>7. Pays(Proposing, x, CONDUCTOR_KEY)
    <3>1. CallsDone(x) = CallsDone(Proposing) + 1
      BY <2>3, <2>5, DoneSums, StartCounted DEF RunCounted
    <3>2. \A m \in Names :
            TokensDone(x)[m] = TokensDone(Proposing)[m] + (IF m = CONDUCTOR_KEY THEN 1 ELSE 0)
      BY <1>3, <2>3, <2>5, DoneSums, StartCounted DEF RunCounted
    <3> QED BY <2>5, <3>1, <3>2, StartCounted, NamesFinite, PaysByCounts DEF RunCounted
  <2> QED BY <2>5, <2>6, <2>7 DEF x
<1>8. CASE ~wf.ok
  <2> HIDE DEF x
  <2>1. /\ x.call = NoCall /\ x.stack = <<>> /\ x.parsed = FALSE /\ x.tokens = told.tokens
        /\ x.calls = 1
    BY <1>1, <1>4, <1>8
  <2>2. Counted(x) /\ CountedSeq(x.stack)
    BY <1>3, <2>1, EmptySums DEF Counted
  <2>3. RunCounted(x)
    BY <1>6, <2>1, <2>2, NamesFinite DEF RunCounted
  <2>4. Pays(Proposing, x, CONDUCTOR_KEY)
    <3>1. CallsDone(x) = CallsDone(Proposing) + 1
      BY <2>1, <2>2, DoneSums, EmptySums, StartCounted
    <3>2. \A m \in Names :
            TokensDone(x)[m] = TokensDone(Proposing)[m] + (IF m = CONDUCTOR_KEY THEN 1 ELSE 0)
      BY <1>3, <2>1, <2>2, DoneSums, EmptySums, StartCounted
    <3> QED BY <2>2, <3>1, <3>2, StartCounted, NamesFinite, PaysByCounts DEF RunCounted
  <2> QED BY <2>1, <2>3, <2>4 DEF x
<1> QED BY <1>7, <1>8

\* One more call in the top frame of a stack.
LEMMA TopTallied ==
    ASSUME NEW s, StackSound(s), CountedSeq(s), s # <<>>, NEW name \in Names
    PROVE  LET t == Append(Front(s), Tallied(Last(s), name))
           IN /\ t = [s EXCEPT ![Len(s)] = Tallied(@, name)]
              /\ StackSound(t) /\ CountedSeq(t) /\ t # <<>> /\ Len(t) = Len(s)
              /\ Tallied(Last(s), name).steps = Last(s).steps
              /\ Tallied(Last(s), name).outputs = Last(s).outputs
              /\ SumCalls(t) = SumCalls(s) + 1
              /\ \A m \in Names : SumTokens(t)[m] = SumTokens(s)[m] + (IF m = name THEN 1 ELSE 0)
<1> DEFINE n == Len(s)
           front == Front(s)
           old == Last(s)
           new == Tallied(old, name)
           t == Append(front, new)
           S == Range(s) \cup {new}
<1>1. /\ n \in Nat /\ n > 0 /\ DOMAIN s = 1..n /\ FrameSound(old) /\ old = s[n]
      /\ front = SubSeq(s, 1, n - 1) /\ n - 1 \in 0..n /\ 1 \in 1..(n + 1) /\ n \in 1..n
  BY StackFacts DEF Last, Front
<1>2. Counted(old) /\ {"tokens", "calls"} \subseteq DOMAIN old
  <2>1. Counted(old)
    BY <1>1 DEF CountedSeq
  <2>2. {"tokens", "calls"} \subseteq DOMAIN old
    BY <1>1 DEF FrameSound
  <2> QED BY <2>1, <2>2
<1>3. /\ FrameSound(new) /\ new.steps = old.steps /\ new.outputs = old.outputs
      /\ Counted(new) /\ new.calls = old.calls + 1
      /\ \A m \in Names : new.tokens[m] = old.tokens[m] + (IF m = name THEN 1 ELSE 0)
  <2> HIDE DEF old
  <2> QED BY <1>1, <1>2, TalliedSound, TalliedCounted
<1>4. StackSound(front) /\ CountedSeq(front)
  BY <1>1, Pop, SliceCounted
<1>5. s \in Seq(S) /\ old \in S /\ new \in S
  <2>1. s \in Seq(Range(s)) /\ old \in Range(s)
    BY <1>1 DEF StackSound, Range
  <2> HIDE DEF old, new
  <2> QED BY <2>1, SeqMonotonic
<1> HIDE DEF S, old, new
<1>6. front \in Seq(S) /\ Len(front) = n - 1 /\ \A k \in 1..(n - 1) : front[k] = s[k]
  <2>1. \A k \in 1..(n - 1) : s[k] \in S
    BY <1>1, <1>5
  <2>2. /\ front \in Seq(S) /\ Len(front) = IF 1 <= n - 1 THEN (n - 1) - 1 + 1 ELSE 0
        /\ \A k \in 1..((n - 1) - 1 + 1) : front[k] = s[1 + k - 1]
    BY <1>1, <2>1, SubSeqProperties
  <2> HIDE DEF front
  <2> QED BY <1>1, <2>2
<1> HIDE DEF front
<1>7. ASSUME NEW f \in S
      PROVE  /\ Append(front, f) \in Seq(S) /\ Append(front, f) # <<>> /\ Len(Append(front, f)) = n
             /\ \A k \in 1..n : Append(front, f)[k] = IF k = n THEN f ELSE s[k]
  <2>1. /\ Append(front, f) \in Seq(S) /\ Append(front, f) # <<>>
        /\ Len(Append(front, f)) = (n - 1) + 1
        /\ \A k \in 1..(n - 1) : Append(front, f)[k] = front[k]
        /\ Append(front, f)[(n - 1) + 1] = f
    BY <1>6, AppendProperties
  <2> DEFINE a == Append(front, f)
  <2>4. n \in Nat /\ n > 0
    BY <1>1
  <2> HIDE DEF a, n
  <2>2. Len(a) = n /\ a[n] = f
    <3>1. (n - 1) + 1 = n
      BY <2>4
    <3> QED BY <2>1, <3>1 DEF a
  <2>3. ASSUME NEW k \in 1..n PROVE a[k] = IF k = n THEN f ELSE s[k]
    <3>1. CASE k = n
      BY <2>2, <3>1
    <3>2. CASE k # n
      <4>1. k \in 1..(n - 1)
        BY <2>4, <3>2
      <4> QED BY <1>6, <2>1, <3>2, <4>1 DEF a
    <3> QED BY <3>1, <3>2
  <2> QED BY <2>1, <2>2, <2>3 DEF a
<1>8. s = Append(front, old)
  <2> DEFINE a == Append(front, old)
  <2>1. a \in Seq(S) /\ Len(a) = n /\ \A k \in 1..n : a[k] = IF k = n THEN old ELSE s[k]
    BY <1>5, <1>7
  <2> HIDE DEF a
  <2>2. s = a
    BY <1>1, <1>5, <2>1, SeqEqual
  <2> QED BY <2>2 DEF a
<1>9. t = [s EXCEPT ![n] = Tallied(@, name)]
  <2> DEFINE a == [s EXCEPT ![n] = new]
  <2>1. a \in Seq(S) /\ Len(a) = n /\ \A k \in 1..n : a[k] = IF k = n THEN new ELSE s[k]
    BY <1>1, <1>5, ExceptSeq
  <2>2. t \in Seq(S) /\ Len(t) = n /\ \A k \in 1..n : t[k] = IF k = n THEN new ELSE s[k]
    BY <1>5, <1>7
  <2> HIDE DEF a, t
  <2>3. t = a
    BY <2>1, <2>2, SeqEqual
  <2>4. a = [s EXCEPT ![n] = Tallied(s[n], name)]
    BY <1>1 DEF a, new
  <2> QED BY <2>3, <2>4
<1>10. StackSound(t) /\ t # <<>> /\ Len(t) = n
  BY <1>3, <1>4, <1>5, <1>7, Push
<1>11. /\ CountedSeq(t) /\ SumCalls(t) = SumCalls(front) + new.calls
       /\ \A m \in Names : SumTokens(t)[m] = SumTokens(front)[m] + new.tokens[m]
  BY <1>3, <1>4, AppendCounted
<1>12. /\ SumCalls(s) = SumCalls(front) + old.calls
       /\ \A m \in Names : SumTokens(s)[m] = SumTokens(front)[m] + old.tokens[m]
  <2>1. /\ SumCalls(Append(front, old)) = SumCalls(front) + old.calls
        /\ \A m \in Names : SumTokens(Append(front, old))[m] = SumTokens(front)[m] + old.tokens[m]
    BY <1>2, <1>4, AppendCounted
  <2> QED BY <1>8, <2>1
<1>13. SumCalls(front) \in Nat /\ SumTokens(front) \in Counts
  BY <1>4, CountedSums
<1>14. old.calls \in Nat /\ old.tokens \in Counts
  BY <1>2 DEF Counted
<1>15. SumCalls(t) = SumCalls(s) + 1
  BY <1>3, <1>11, <1>12, <1>13, <1>14
<1>16. ASSUME NEW m \in Names
       PROVE  SumTokens(t)[m] = SumTokens(s)[m] + (IF m = name THEN 1 ELSE 0)
  <2>1. SumTokens(front)[m] \in Nat /\ old.tokens[m] \in Nat
    BY <1>13, <1>14 DEF Counts
  <2>2. SumTokens(t)[m] = SumTokens(front)[m] + new.tokens[m]
    BY <1>11
  <2>3. SumTokens(s)[m] = SumTokens(front)[m] + old.tokens[m]
    BY <1>12
  <2>4. new.tokens[m] = old.tokens[m] + (IF m = name THEN 1 ELSE 0)
    BY <1>3
  <2> QED BY <2>1, <2>2, <2>3, <2>4
<1> QED BY <1>3, <1>9, <1>10, <1>11, <1>15, <1>16 DEF t, new, old, front

\* A run whose stack has tallied one more call.
LEMMA StackPays ==
    ASSUME NEW r, Counted(r), CountedSeq(r.stack), NEW x, Counted(x), CountedSeq(x.stack),
           NEW name \in Names, x.calls = r.calls, x.tokens = r.tokens,
           SumCalls(x.stack) = SumCalls(r.stack) + 1,
           \A m \in Names : SumTokens(x.stack)[m]
                              = SumTokens(r.stack)[m] + (IF m = name THEN 1 ELSE 0)
    PROVE  Pays(r, x, name)
<1>1. r.calls \in Nat /\ SumCalls(r.stack) \in Nat /\ SumTokens(r.stack) \in Counts /\ r.tokens \in Counts
  BY CountedSums DEF Counted
<1>2. CallsDone(x) = CallsDone(r) + 1
  BY <1>1, DoneSums
<1>3. ASSUME NEW m \in Names
      PROVE  TokensDone(x)[m] = TokensDone(r)[m] + (IF m = name THEN 1 ELSE 0)
  <2>1. r.tokens[m] \in Nat /\ SumTokens(r.stack)[m] \in Nat
    BY <1>1 DEF Counts
  <2>2. TokensDone(x)[m] = x.tokens[m] + SumTokens(x.stack)[m]
    BY DoneSums
  <2>3. TokensDone(r)[m] = r.tokens[m] + SumTokens(r.stack)[m]
    BY DoneSums
  <2> QED BY <2>1, <2>2, <2>3
<1> QED BY <1>2, <1>3, PaysByCounts

LEMMA SubProposalPaid ==
    ASSUME NEW r, RunSound(r), RunCounted(r), r.stack # <<>>, r.call.kind = "propose",
           NEW text, ReadableText(text)
    PROVE  LET x == AfterSubProposal(r, text)
           IN RunCounted(x) /\ Pays(r, x, CONDUCTOR_KEY)
<1> DEFINE wf == ParseWorkflow(text, TRUE)
           stack == Append(Front(r.stack), Tallied(Last(r.stack), CONDUCTOR_KEY))
           left == [r EXCEPT !.stack = stack, !.call = [@ EXCEPT !.kind = "work", !.to = 0]]
           x == AfterSubProposal(r, text)
<1>1. x = IF wf.ok THEN Executing(r, Append(stack, NewFrame(wf.steps))) ELSE left
  BY DEF AfterSubProposal
<1>2. /\ StackSound(r.stack) /\ Shaped(r) /\ r.parsed \in BOOLEAN /\ Counted(r) /\ CountedSeq(r.stack)
      /\ Len(r.stack) <= MaxDepth /\ Len(r.stack) \in Nat
  BY StackFacts DEF RunSound, RunCounted
<1>3. /\ StackSound(stack) /\ CountedSeq(stack) /\ stack # <<>> /\ Len(stack) = Len(r.stack)
      /\ SumCalls(stack) = SumCalls(r.stack) + 1
      /\ \A m \in Names : SumTokens(stack)[m]
                            = SumTokens(r.stack)[m] + (IF m = CONDUCTOR_KEY THEN 1 ELSE 0)
  BY <1>2, TopTallied, NamesFinite
<1> HIDE DEF stack, x
<1>4. CASE wf.ok
  <2> DEFINE f == NewFrame(wf.steps)
             s == Append(stack, f)
  <2>1. FrameSound(f) /\ Counted(f) /\ f.calls = 0 /\ \A m \in Names : f.tokens[m] = 0
    BY <1>4, ParsedSound, Fresh, FreshCounted
  <2> HIDE DEF f
  <2>2. StackSound(s) /\ s # <<>>
    BY <1>3, <2>1, Push
  <2>3. /\ CountedSeq(s) /\ SumCalls(s) = SumCalls(stack) + f.calls
        /\ \A m \in Names : SumTokens(s)[m] = SumTokens(stack)[m] + f.tokens[m]
    BY <1>3, <2>1, AppendCounted
  <2>4. Len(s) <= MaxDepth + 1
    <3>1. stack \in Seq(Range(stack) \cup {f})
      <4>1. stack \in Seq(Range(stack))
        BY <1>3 DEF StackSound
      <4> QED BY <4>1, SeqMonotonic
    <3>2. Len(s) = Len(stack) + 1
      BY <3>1, AppendProperties
    <3> QED BY <1>2, <1>3, <3>2, FuguAssumption
  <2>5. SumCalls(stack) \in Nat /\ SumTokens(stack) \in Counts
    BY <1>3, CountedSums
  <2> HIDE DEF s
  <2>6. SumCalls(s) = SumCalls(r.stack) + 1
    BY <1>3, <2>1, <2>3, <2>5
  <2>7. ASSUME NEW m \in Names
        PROVE  SumTokens(s)[m] = SumTokens(r.stack)[m] + (IF m = CONDUCTOR_KEY THEN 1 ELSE 0)
    <3>1. SumTokens(s)[m] = SumTokens(stack)[m] + f.tokens[m] /\ f.tokens[m] = 0
      BY <2>1, <2>3
    <3>2. SumTokens(stack)[m] \in Nat
      BY <2>5 DEF Counts
    <3> QED BY <1>3, <3>1, <3>2
  <2>8. RunCounted(x) /\ x.stack = s /\ x.calls = r.calls /\ x.tokens = r.tokens
    BY <1>1, <1>2, <1>4, <2>2, <2>3, <2>4, ExecutingCounted DEF s, f
  <2>9. Counted(x) /\ CountedSeq(x.stack)
    BY <2>8 DEF RunCounted
  <2>10. Pays(r, x, CONDUCTOR_KEY)
    BY <1>2, <2>6, <2>7, <2>8, <2>9, StackPays, NamesFinite
  <2> QED BY <2>8, <2>10 DEF x
<1>5. CASE ~wf.ok
  <2>1. /\ left.call \in [kind : {"work"}, to : {0}, reads : {r.call.reads}]
        /\ left \in [call : {left.call}, stack : {stack}, parsed : {r.parsed},
                     outputs : {r.outputs}, tokens : {r.tokens}, calls : {r.calls}]
    BY <1>2 DEF Shaped
  <2> HIDE DEF left
  <2>2. /\ x.call.kind = "work" /\ x.call.to = 0 /\ x.stack = stack /\ x.parsed = r.parsed
        /\ x.tokens = r.tokens /\ x.calls = r.calls
    BY <1>1, <1>5, <2>1
  <2>3. Counted(x) /\ CountedSeq(x.stack)
    BY <1>2, <1>3, <2>2 DEF Counted
  <2>4. RunCounted(x)
    <3>1. x.parsed \in BOOLEAN
      BY <1>2, <2>2
    <3>2. Len(x.stack) <= MaxDepth + 1
      BY <1>2, <1>3, <2>2, FuguAssumption
    <3> QED BY <2>2, <2>3, <3>1, <3>2, NamesFinite DEF RunCounted
  <2>5. Pays(r, x, CONDUCTOR_KEY)
    BY <1>2, <1>3, <2>2, <2>3, StackPays, NamesFinite
  <2> QED BY <2>4, <2>5 DEF x
<1> QED BY <1>4, <1>5

LEMMA WorkerPaid ==
    ASSUME NEW r, RunSound(r), RunCounted(r), r.stack # <<>>, NEW output \in Outputs
    PROVE  LET x == AfterWorker(r, output)
           IN /\ RunCounted(x) /\ Pays(r, x, r.call.to)
              /\ Finished(x) => x.stack = <<>>
<1> DEFINE n == Len(r.stack)
           name == r.call.to
           stack == [r.stack EXCEPT ![n] = Tallied(@, r.call.to)]
           Ends(k) == Len(stack[k].outputs) + 1 = Len(stack[k].steps)
           open == {0} \cup {k \in 1..n : ~Ends(k)}
           below == Max(open)
           at == Max({1, below})
           merged == SubSeq(stack, at, n)
           bottom == [stack[at] EXCEPT !.outputs = Append(@, output),
                                       !.tokens = SumTokens(merged),
                                       !.calls = SumCalls(merged)]
           next == Append(SubSeq(stack, 1, below - 1), bottom)
           ended == [r EXCEPT !.call = NoCall, !.stack = <<>>, !.outputs = bottom.outputs,
                              !.tokens = [m \in Names |-> @[m] + bottom.tokens[m]],
                              !.calls = @ + bottom.calls]
           x == AfterWorker(r, output)
<1>1. x = IF below > 0 THEN Executing(r, next) ELSE ended
  BY DEF AfterWorker
<1>2. /\ StackSound(r.stack) /\ n \in Nat /\ n > 0 /\ Shaped(r) /\ r.parsed \in BOOLEAN
      /\ Counted(r) /\ CountedSeq(r.stack) /\ n <= MaxDepth + 1 /\ name \in Names
  BY StackFacts DEF RunSound, RunCounted
<1>3. /\ StackSound(stack) /\ CountedSeq(stack) /\ Len(stack) = n
      /\ SumCalls(stack) = SumCalls(r.stack) + 1
      /\ \A m \in Names : SumTokens(stack)[m]
                            = SumTokens(r.stack)[m] + (IF m = name THEN 1 ELSE 0)
  <2> HIDE DEF stack
  <2>1. stack = Append(Front(r.stack), Tallied(Last(r.stack), name))
    BY <1>2, TopTallied DEF stack
  <2> QED BY <1>2, <2>1, TopTallied
<1> HIDE DEF stack, x
<1>4. below \in 0..n
  <2>1. open \in SUBSET (0..n) /\ open # {}
    BY <1>2
  <2> HIDE DEF open
  <2> QED BY <1>2, <2>1, MaxIsGreatest
<1> HIDE DEF below
<1>5. at \in 1..n /\ (below > 0 => at = below) /\ (~(below > 0) => at = 1)
  <2>1. {1, below} \in SUBSET (0..n) /\ {1, below} # {}
    BY <1>2, <1>4
  <2>2. at \in {1, below} /\ at >= below /\ at >= 1
    BY <1>2, <2>1, MaxIsGreatest
  <2> HIDE DEF at
  <2> QED BY <1>2, <1>4, <2>2
<1> HIDE DEF at
<1>6. /\ CountedSeq(SubSeq(stack, 1, at - 1)) /\ CountedSeq(merged)
      /\ SumCalls(stack) = SumCalls(SubSeq(stack, 1, at - 1)) + SumCalls(merged)
      /\ \A m \in Names : SumTokens(stack)[m] = SumTokens(SubSeq(stack, 1, at - 1))[m]
                                                  + SumTokens(merged)[m]
  BY <1>3, <1>5, SplitCounted
<1> HIDE DEF merged
<1>7. /\ bottom.tokens = SumTokens(merged) /\ bottom.calls = SumCalls(merged) /\ Counted(bottom)
  <2>1. FrameSound(stack[at])
    BY <1>3, <1>5, StackFacts DEF StackSound
  <2>2. bottom.tokens = SumTokens(merged) /\ bottom.calls = SumCalls(merged)
    BY <2>1 DEF FrameSound
  <2> HIDE DEF bottom
  <2> QED BY <1>6, <2>2, CountedSums DEF Counted
<1> HIDE DEF bottom
<1>8. CASE below > 0
  <2>1. SubSeq(stack, 1, at - 1) = SubSeq(stack, 1, below - 1)
    BY <1>5, <1>8
  <2>2. /\ CountedSeq(next)
        /\ SumCalls(next) = SumCalls(SubSeq(stack, 1, at - 1)) + bottom.calls
        /\ \A m \in Names : SumTokens(next)[m] = SumTokens(SubSeq(stack, 1, at - 1))[m]
                                                   + bottom.tokens[m]
    <3> DEFINE low == SubSeq(stack, 1, at - 1)
    <3>1. CountedSeq(low) /\ next = Append(low, bottom)
      BY <1>6, <2>1
    <3> HIDE DEF low, next
    <3>2. /\ CountedSeq(next) /\ SumCalls(next) = SumCalls(low) + bottom.calls
          /\ \A m \in Names : SumTokens(next)[m] = SumTokens(low)[m] + bottom.tokens[m]
      BY <1>7, <3>1, AppendCounted
    <3> QED BY <3>2 DEF low
  <2>3. SumCalls(next) = SumCalls(stack) /\ \A m \in Names : SumTokens(next)[m] = SumTokens(stack)[m]
    BY <1>6, <1>7, <2>2
  <2>4. Len(next) = below
    <3> DEFINE low == SubSeq(stack, 1, below - 1)
               S == Range(low) \cup {bottom}
    <3>1. Len(low) = below - 1
      <4>1. /\ below - 1 \in Int /\ below >= 1 /\ below <= n /\ n \in Nat
            /\ \A i \in 1..(below - 1) : stack[i] \in Range(stack)
        BY <1>2, <1>3, <1>4, <1>8, StackFacts DEF Range
      <4>2. Len(low) = IF 1 <= below - 1 THEN (below - 1) - 1 + 1 ELSE 0
        BY <4>1, SubSeqProperties
      <4>3. below \in Int /\ below >= 1
        <5> HIDE DEF n
        <5> QED BY <1>2, <1>4, <1>8
      <4> HIDE DEF low
      <4> QED BY <4>2, <4>3
    <3>2. low \in Seq(S) /\ bottom \in S
      <4>1. low \in Seq(Range(low))
        BY <1>6, <2>1 DEF CountedSeq
      <4> HIDE DEF low
      <4> QED BY <4>1, SeqMonotonic
    <3> HIDE DEF low, S
    <3>3. Len(Append(low, bottom)) = Len(low) + 1
      BY <3>2, AppendProperties
    <3> QED BY <1>4, <3>1, <3>3 DEF low
  <2>5. next # <<>>
    BY <1>4, <1>8, <2>4
  <2> HIDE DEF next
  <2>6. x = Executing(r, next)
    BY <1>1, <1>8
  <2>7. ~Finished(x) /\ x.stack = next
    <3>1. x.call = NextCall(next) /\ x.stack = next
      BY <1>2, <2>6 DEF Executing, Shaped
    <3>2. NextCall(next).kind \in {"propose", "work"}
      BY DEF NextCall
    <3> QED BY <3>1, <3>2 DEF Finished, NoCall
  <2>8. StackSound(next)
    BY <2>7, WorkerSound DEF Goes, RunSound, x
  <2>9. RunCounted(x) /\ x.calls = r.calls /\ x.tokens = r.tokens
    <3>1. Len(next) <= MaxDepth + 1
      BY <1>2, <1>4, <2>4, FuguAssumption
    <3> QED BY <1>2, <2>2, <2>5, <2>6, <2>8, <3>1, ExecutingCounted
  <2>10. Counted(x) /\ CountedSeq(x.stack)
    BY <2>9 DEF RunCounted
  <2>11. Pays(r, x, name)
    BY <1>2, <1>3, <2>3, <2>7, <2>9, <2>10, StackPays
  <2> QED BY <2>7, <2>9, <2>11 DEF x
<1>9. CASE ~(below > 0)
  <2>1. /\ SumCalls(merged) = SumCalls(stack)
        /\ \A m \in Names : SumTokens(merged)[m] = SumTokens(stack)[m]
    <3> DEFINE low == SubSeq(stack, 1, at - 1)
    <3>1. low = <<>>
      BY <1>5, <1>9, SubSeqEmpty
    <3>2. SumCalls(merged) \in Nat /\ \A m \in Names : SumTokens(merged)[m] \in Nat
      BY <1>6, CountedSums DEF Counts
    <3>3. /\ SumCalls(stack) = SumCalls(low) + SumCalls(merged)
          /\ \A m \in Names : SumTokens(stack)[m] = SumTokens(low)[m] + SumTokens(merged)[m]
      BY <1>6
    <3> HIDE DEF low
    <3>4. SumCalls(low) = 0 /\ \A m \in Names : SumTokens(low)[m] = 0
      BY <3>1, EmptySums
    <3> QED BY <3>2, <3>3, <3>4
  <2>2. ended \in [call : {NoCall}, stack : {<<>>}, parsed : {r.parsed}, outputs : {bottom.outputs},
                   tokens : {[m \in Names |-> r.tokens[m] + bottom.tokens[m]]},
                   calls : {r.calls + bottom.calls}]
    BY <1>2 DEF Shaped
  <2> HIDE DEF ended
  <2>3. /\ x.call = NoCall /\ x.stack = <<>> /\ x.parsed = r.parsed
        /\ x.tokens = [m \in Names |-> r.tokens[m] + bottom.tokens[m]]
        /\ x.calls = r.calls + bottom.calls
    BY <1>1, <1>9, <2>2
  <2>4. /\ r.calls \in Nat /\ r.tokens \in Counts /\ SumCalls(r.stack) \in Nat
        /\ SumTokens(r.stack) \in Counts
    BY <1>2, CountedSums DEF Counted
  <2>5. x.calls = r.calls + SumCalls(r.stack) + 1
    BY <1>3, <1>7, <2>1, <2>3, <2>4
  <2>6. \A m \in Names : x.tokens[m] = r.tokens[m] + SumTokens(r.stack)[m]
                                         + (IF m = name THEN 1 ELSE 0)
    <3>1. ASSUME NEW m \in Names
          PROVE  x.tokens[m] = r.tokens[m] + SumTokens(r.stack)[m] + (IF m = name THEN 1 ELSE 0)
      <4>1. x.tokens[m] = r.tokens[m] + bottom.tokens[m]
        BY <2>3
      <4>2. bottom.tokens[m] = SumTokens(r.stack)[m] + (IF m = name THEN 1 ELSE 0)
        BY <1>3, <1>7, <2>1
      <4>3. r.tokens[m] \in Nat /\ SumTokens(r.stack)[m] \in Nat
        BY <2>4 DEF Counts
      <4> QED BY <4>1, <4>2, <4>3
    <3> QED BY <3>1
  <2>7. Counted(x)
    <3>1. x.calls \in Nat
      BY <2>4, <2>5
    <3>2. \A m \in Names : r.tokens[m] + bottom.tokens[m] \in Nat
      BY <1>7, <2>4 DEF Counted, Counts
    <3>3. x.tokens \in Counts
      BY <2>3, <3>2 DEF Counts
    <3> QED BY <3>1, <3>3 DEF Counted
  <2>8. CountedSeq(x.stack) /\ SumCalls(x.stack) = 0 /\ \A m \in Names : SumTokens(x.stack)[m] = 0
    BY <2>3, EmptySums
  <2>9. RunCounted(x)
    <3>1. x.parsed \in BOOLEAN
      BY <1>2, <2>3
    <3>2. x.call.kind = "none" /\ x.call.to = 0
      BY <2>3 DEF NoCall
    <3> QED BY <2>3, <2>7, <2>8, <3>1, <3>2, NamesFinite DEF RunCounted
  <2>10. Pays(r, x, name)
    <3>1. CallsDone(x) = CallsDone(r) + 1
      BY <1>2, <2>4, <2>5, <2>7, <2>8, DoneSums
    <3>2. ASSUME NEW m \in Names
          PROVE  TokensDone(x)[m] = TokensDone(r)[m] + (IF m = name THEN 1 ELSE 0)
      <4>1. TokensDone(x)[m] = x.tokens[m] + SumTokens(x.stack)[m]
        BY <2>7, <2>8, DoneSums
      <4>2. TokensDone(r)[m] = r.tokens[m] + SumTokens(r.stack)[m]
        BY <1>2, DoneSums
      <4>3. r.tokens[m] \in Nat /\ SumTokens(r.stack)[m] \in Nat
        BY <2>4 DEF Counts
      <4> QED BY <2>6, <2>8, <4>1, <4>2, <4>3
    <3> QED BY <1>2, <2>7, <2>8, <3>1, <3>2, PaysByCounts
  <2> QED BY <2>3, <2>9, <2>10 DEF x
<1> QED BY <1>8, <1>9

-----------------------------------------------------------------------------
(***************************************************************************)
(* What the calls cost                                                     *)
(***************************************************************************)
LEMMA PricesCounted == Prices \in Counts
<1>1. ASSUME NEW m \in Names PROVE Prices[m] \in Nat
  <2>1. Prices[m] = IF m \in Workers THEN WorkerPrice[m]
                    ELSE IF job # "evaluate" THEN 0 ELSE WorkerPrice[ConductorModel]
    BY DEF Prices, PriceTable
  <2> QED BY <2>1, FuguAssumption
<1>2. Prices = [m \in Names |-> Prices[m]]
  BY DEF Prices, PriceTable
<1> QED BY <1>1, <1>2 DEF Counts

LEMMA CostFacts ==
    ASSUME NEW T \in Counts, NEW P \in Counts
    PROVE  /\ RunCost(T, P) \in Nat
           /\ \A name \in Names : RunCost(Accum(T, name), P) = RunCost(T, P) + P[name]
           /\ (\A m \in Names : T[m] = 0) => RunCost(T, P) = 0
<1> DEFINE cost(U) == [m \in Names |-> U[m] * P[m]]
<1>1. \A U : RunCost(U, P) = SumFunctionOnSet(cost(U), Names)
  BY DEF RunCost, SumFunction
<1>2. ASSUME NEW U \in Counts PROVE \A m \in Names : cost(U)[m] = U[m] * P[m] /\ U[m] * P[m] \in Nat
  BY DEF Counts
<1> HIDE DEF cost
<1>3. RunCost(T, P) \in Nat
  BY <1>1, <1>2, NamesFinite, SumNat
<1>4. ASSUME NEW name \in Names PROVE RunCost(Accum(T, name), P) = RunCost(T, P) + P[name]
  <2> DEFINE U == Accum(T, name)
             a == SumFunctionOnSet(cost(T), Names)
  <2>1. U \in Counts /\ \A m \in Names : U[m] = T[m] + (IF m = name THEN 1 ELSE 0)
    BY DEF Accum, Counts
  <2> HIDE DEF U
  <2>2. \A m \in Names : cost(T)[m] \in Int /\ cost(U)[m] \in Int
    BY <1>2, <2>1
  <2>3. \A m \in Names : m # name => cost(T)[m] = cost(U)[m]
    <3>1. ASSUME NEW m \in Names, m # name PROVE cost(T)[m] = cost(U)[m]
      <4>1. U[m] = T[m]
        BY <2>1, <3>1 DEF Counts
      <4> QED BY <1>2, <2>1, <4>1
    <3> QED BY <3>1
  <2>4. SumFunctionOnSet(cost(U), Names) = a + cost(U)[name] - cost(T)[name]
    BY <2>2, <2>3, NamesFinite, SumOneChanged
  <2>5. cost(U)[name] = cost(T)[name] + P[name]
    <3> DEFINE n == T[name]  p == P[name]
    <3>1. n \in Nat /\ p \in Nat /\ U[name] = n + 1
      BY <2>1 DEF Counts
    <3>2. cost(U)[name] = U[name] * p /\ cost(T)[name] = n * p
      BY <1>2, <2>1
    <3> HIDE DEF n, p
    <3>3. (n + 1) * p = n * p + p
      BY <3>1
    <3> QED BY <3>1, <3>2, <3>3 DEF p
  <2>6. a \in Int /\ cost(T)[name] \in Int /\ P[name] \in Int
    <3>1. a \in Int
      BY <2>2, NamesFinite, SumInt
    <3> QED BY <2>2, <3>1 DEF Counts
  <2> HIDE DEF a
  <2>7. SumFunctionOnSet(cost(U), Names) = a + P[name]
    BY <2>4, <2>5, <2>6
  <2> QED BY <1>1, <2>7 DEF a, U
<1>5. ASSUME \A m \in Names : T[m] = 0 PROVE RunCost(T, P) = 0
  <2>1. \A m \in Names : cost(T)[m] = 0
    BY <1>2, <1>5 DEF Counts
  <2> QED BY <1>1, <2>1, NamesFinite, SumZeros
<1> QED BY <1>3, <1>4, <1>5

\* What a run has spent, in dollars and in calls, but not yet reported.
CostDone(r) == RunCost(TokensDone(r), Prices)

Owing == [t \in Tasks |-> RunCost(SumTokens(Unmetered(run[t])), Prices)]
Pending == [t \in Tasks |-> SumCalls(Unmetered(run[t]))]

LEMMA TasksFinite == IsFiniteSet(Tasks)
BY FuguJobsAssumption, FS_Interval DEF Tasks

LEMMA MeterBySums ==
    /\ MeterExact <=> /\ bill.usd = meter.spend + SumFunctionOnSet(Owing, Tasks)
                      /\ bill.calls = meter.calls + SumFunctionOnSet(Pending, Tasks)
    /\ \A t \in Tasks : Owing[t] = CostDone(run[t]) /\ Pending[t] = CallsDone(run[t])
BY DEF MeterExact, SumFunction, Owing, Pending, CostDone, CallsDone, TokensDone

LEMMA DoneCosts ==
    ASSUME NEW r, RunCounted(r)
    PROVE  CostDone(r) \in Nat /\ CallsDone(r) \in Nat
BY DoneSums, PricesCounted, CostFacts DEF RunCounted, CostDone

LEMMA StartOwesNothing == \A r \in {Idle, Proposing} : CostDone(r) = 0 /\ CallsDone(r) = 0
BY StartCounted, PricesCounted, CostFacts DEF CostDone

LEMMA PaysCost ==
    ASSUME NEW r, RunCounted(r), NEW x, NEW name \in Names, Pays(r, x, name)
    PROVE  CostDone(x) = CostDone(r) + Prices[name] /\ CallsDone(x) = CallsDone(r) + 1
<1>1. TokensDone(r) \in Counts
  BY DoneSums DEF RunCounted
<1> QED BY <1>1, PricesCounted, CostFacts DEF Pays, CostDone

\* A run that has ended has merged every frame.
LEMMA EndedDone ==
    ASSUME NEW r, RunCounted(r), r.stack = <<>>
    PROVE  CostDone(r) = RunCost(r.tokens, Prices) /\ CallsDone(r) = r.calls
<1>1. Counted(r) /\ CountedSeq(r.stack) /\ r.tokens \in Counts /\ r.calls \in Nat
  BY DEF RunCounted, Counted
<1>2. CallsDone(r) = r.calls
  BY <1>1, DoneSums, EmptySums
<1>3. TokensDone(r) \in Counts /\ \A m \in Names : TokensDone(r)[m] = r.tokens[m] + 0
  BY <1>1, DoneSums, EmptySums
<1>4. TokensDone(r) = r.tokens
  <2> DEFINE T == TokensDone(r)  U == r.tokens
  <2>1. T \in [Names -> Nat] /\ U \in [Names -> Nat] /\ \A m \in Names : T[m] = U[m] + 0
    BY <1>1, <1>3 DEF Counts
  <2> HIDE DEF T, U
  <2>2. \A m \in Names : T[m] = U[m]
    BY <2>1
  <2>3. T = U
    BY <2>1, <2>2
  <2> QED BY <2>3 DEF T, U
<1> QED BY <1>2, <1>4 DEF CostDone

-----------------------------------------------------------------------------
(***************************************************************************)
(* The meter and the ballots, in every step                                *)
(***************************************************************************)
AllCounted == \A t \in Tasks : RunCounted(run[t])

Metered ==
    /\ meter \in [spend : Nat, calls : Nat, runs : Nat, aborted : BOOLEAN]
    /\ bill \in [usd : Nat, calls : Nat]
    /\ MeterExact

\* A task that is not done has a vote to come.
Ballots ==
    /\ votes \in [Tasks -> Seq(BOOLEAN)]
    /\ \A t \in Tasks : Len(votes[t]) <= Reps /\ (pc[t] # "done" => Len(votes[t]) < Reps)

Accounts ==
    /\ AllCounted /\ Metered /\ Ballots
    /\ result \in {"running", "returned", "raised"}

\* What an answer adds to the tally of its run is what the pool bills.
LEMMA AnswerPaid ==
    ASSUME Inv, AllCounted, NEW t \in Tasks, ProposalReturns(t) \/ WorkerReturns(t)
    PROVE  \E r : \E name \in Names :
              /\ Resume(t, r) /\ Billed(name) /\ run[t] # Idle
              /\ RunCounted(r) /\ Pays(run[t], r, name)
              /\ Finished(r) => r.stack = <<>>
<1>1. RunSound(run[t]) /\ RunCounted(run[t])
  BY DEF Inv, AllCounted
<1>2. run[t] # Idle
  BY AnswerGoes
<1>3. CASE ProposalReturns(t)
  <2>1. PICK text \in Proposals :
          Resume(t, IF run[t].stack = <<>> THEN AfterProposal(run[t], text)
                    ELSE AfterSubProposal(run[t], text))
    BY <1>3 DEF ProposalReturns
  <2>2. Billed(CONDUCTOR_KEY) /\ run[t].call.kind = "propose" /\ CONDUCTOR_KEY \in Names
    BY <1>3, NamesFinite DEF ProposalReturns
  <2>3. ReadableText(text)
    <3>1. CASE job = "train constrained"
      BY <3>1, ConstrainedParses DEF Proposals
    <3>2. CASE job # "train constrained"
      <4>1. text \in Texts
        BY <3>2 DEF Proposals
      <4> QED BY <4>1, TextsAssumption DEF ReadableText, Readable
    <3> QED BY <3>1, <3>2
  <2>4. CASE run[t].stack = <<>>
    <3>1. run[t] = Proposing
      BY <1>1, <1>2, <2>4 DEF RunSound
    <3> DEFINE r == AfterProposal(run[t], text)
    <3>2. RunCounted(r) /\ Pays(run[t], r, CONDUCTOR_KEY) /\ (Finished(r) => r.stack = <<>>)
      BY <2>3, <3>1, ProposalPaid
    <3>3. Resume(t, r)
      BY <2>1, <2>4
    <3> HIDE DEF r
    <3> QED BY <1>2, <2>2, <3>2, <3>3
  <2>5. CASE run[t].stack # <<>>
    <3> DEFINE r == AfterSubProposal(run[t], text)
    <3>1. RunCounted(r) /\ Pays(run[t], r, CONDUCTOR_KEY)
      BY <1>1, <2>2, <2>3, <2>5, SubProposalPaid
    <3>2. ~Finished(r)
      BY <1>1, <2>3, <2>5, SubProposalSound
    <3>3. Resume(t, r)
      BY <2>1, <2>5
    <3> HIDE DEF r
    <3> QED BY <1>2, <2>2, <3>1, <3>2, <3>3
  <2> QED BY <2>4, <2>5
<1>4. CASE WorkerReturns(t)
  <2>1. PICK output \in Outputs : Resume(t, AfterWorker(run[t], output))
    BY <1>4 DEF WorkerReturns
  <2>2. run[t].call.kind = "work" /\ run[t] # Proposing /\ Billed(run[t].call.to)
    <3>1. run[t].call.kind = "work" /\ Billed(run[t].call.to)
      BY <1>4 DEF WorkerReturns
    <3> QED BY <3>1, Start
  <2>3. run[t].stack # <<>> /\ run[t].call.to \in Names
    BY <1>1, <1>2, <2>2 DEF RunSound, RunCounted
  <2> DEFINE r == AfterWorker(run[t], output)
  <2>4. RunCounted(r) /\ Pays(run[t], r, run[t].call.to) /\ (Finished(r) => r.stack = <<>>)
    BY <1>1, <2>3, WorkerPaid
  <2> HIDE DEF r
  <2> QED BY <1>2, <2>1, <2>2, <2>3, <2>4 DEF r
<1> QED BY <1>3, <1>4

\* An answer, as far as the money is concerned: it stays with its run, or the
\* run has ended, is added to the meter, and makes room.
LEMMA PaidEffect ==
    ASSUME Inv, AllCounted, NEW t \in Tasks, ProposalReturns(t) \/ WorkerReturns(t)
    PROVE  /\ job' = job
           /\ \E r : \E name \in Names :
                 /\ Billed(name) /\ RunCounted(r) /\ Pays(run[t], r, name)
                 /\ \/ /\ run'[t] = r /\ meter' = meter
                       /\ \A u \in Tasks : u # t => run'[u] = run[u]
                    \/ /\ r.stack = <<>> /\ meter' = AddRun(r) /\ run'[t] \in {Idle, Proposing}
                       /\ \A u \in Tasks : u # t => \/ run'[u] = run[u]
                                                    \/ run[u] = Idle /\ run'[u] \in {Idle, Proposing}
<1> DEFINE Goal ==
             /\ job' = job
             /\ \E r : \E name \in Names :
                   /\ Billed(name) /\ RunCounted(r) /\ Pays(run[t], r, name)
                   /\ \/ /\ run'[t] = r /\ meter' = meter
                         /\ \A u \in Tasks : u # t => run'[u] = run[u]
                      \/ /\ r.stack = <<>> /\ meter' = AddRun(r) /\ run'[t] \in {Idle, Proposing}
                         /\ \A u \in Tasks : u # t => \/ run'[u] = run[u]
                                                      \/ run[u] = Idle /\ run'[u] \in {Idle, Proposing}
<1>1. PICK r : \E name \in Names :
              /\ Resume(t, r) /\ Billed(name) /\ run[t] # Idle
              /\ RunCounted(r) /\ Pays(run[t], r, name)
              /\ Finished(r) => r.stack = <<>>
  BY AnswerPaid
<1>2. PICK name \in Names :
              /\ Resume(t, r) /\ Billed(name) /\ run[t] # Idle
              /\ RunCounted(r) /\ Pays(run[t], r, name)
              /\ Finished(r) => r.stack = <<>>
  BY <1>1
<1>3. run = [u \in Tasks |-> run[u]] /\ Placed
  BY DEF Inv, Placed
<1>4. CASE ~Finished(r)
  <2>1. run' = [run EXCEPT ![t] = r] /\ UNCHANGED <<job, meter>>
    BY <1>2, <1>4 DEF Resume
  <2>2. run'[t] = r /\ \A u \in Tasks : u # t => run'[u] = run[u]
    BY <1>3, <2>1
  <2> QED BY <1>2, <2>1, <2>2
<1>5. ASSUME Finished(r), job' = job, meter' = AddRun(r), run'[t] \in {Idle, Proposing},
             \A u \in Tasks : u # t => \/ run'[u] = run[u]
                                       \/ run[u] = Idle /\ run'[u] \in {Idle, Proposing}
      PROVE  Goal
  BY <1>2, <1>5
<1>6. CASE Finished(r) /\ job = "evaluate"
  <2>1. Vote(t, r)
    BY <1>2, <1>6 DEF Resume
  <2>2. job' = job /\ meter' = AddRun(r)
    BY <2>1 DEF Vote
  <2>3. PICK go \in BOOLEAN : run' = [run EXCEPT ![t] = IF go THEN Proposing ELSE Idle]
    BY <2>1, VoteEffect
  <2>4. run'[t] \in {Idle, Proposing} /\ \A u \in Tasks : u # t => run'[u] = run[u]
    <3>1. CASE go
      BY <1>3, <2>3, <3>1
    <3>2. CASE ~go
      BY <1>3, <2>3, <3>2
    <3> QED BY <3>1, <3>2
  <2> QED BY <1>5, <1>6, <2>2, <2>4
<1>7. CASE Finished(r) /\ job # "evaluate"
  <2>1. Score(t, r)
    BY <1>2, <1>7 DEF Resume
  <2>2. job' = job /\ meter' = AddRun(r)
    BY <2>1 DEF Score
  <2>3. \A u \in Tasks : u # t => run[u] = Idle
    BY <1>2, <1>3, <1>7 DEF Placed
  <2>4. CASE run' = [run EXCEPT ![t] = Proposing]
    <3>1. run'[t] = Proposing /\ \A u \in Tasks : u # t => run'[u] = run[u]
      BY <1>3, <2>4
    <3> QED BY <1>5, <1>7, <2>2, <3>1
  <2>5. ASSUME \A u \in Tasks : run'[u] \in {Idle, Proposing} PROVE Goal
    BY <1>5, <1>7, <2>2, <2>3, <2>5
  <2>6. CASE run' = [u \in Tasks |-> Idle]
    BY <2>5, <2>6
  <2>7. ASSUME NEW q, run' = [u \in Tasks |-> IF u = q THEN Proposing ELSE Idle] PROVE Goal
    BY <2>5, <2>7
  <2> QED BY <2>1, <2>4, <2>6, <2>7, ScoreEffect
<1> QED BY <1>4, <1>6, <1>7

\* Sums over the tasks, when no other task's run changes its debt.
LEMMA OneSettles ==
    ASSUME AllCounted, AllCounted', job' = job, NEW t \in Tasks,
           \A u \in Tasks : u # t => /\ CostDone(run'[u]) = CostDone(run[u])
                                     /\ CallsDone(run'[u]) = CallsDone(run[u])
    PROVE  /\ SumFunctionOnSet(Owing, Tasks) \in Int /\ SumFunctionOnSet(Pending, Tasks) \in Int
           /\ SumFunctionOnSet(Owing', Tasks)
                = SumFunctionOnSet(Owing, Tasks) + CostDone(run'[t]) - CostDone(run[t])
           /\ SumFunctionOnSet(Pending', Tasks)
                = SumFunctionOnSet(Pending, Tasks) + CallsDone(run'[t]) - CallsDone(run[t])
<1> DEFINE f == Owing  g == Owing'
           p == Pending  q == Pending'
<1>1. \A u \in Tasks : f[u] = CostDone(run[u]) /\ p[u] = CallsDone(run[u])
  BY MeterBySums
<1>2. \A u \in Tasks : g[u] = CostDone(run'[u]) /\ q[u] = CallsDone(run'[u])
  BY DEF Owing, Pending, CostDone, CallsDone, TokensDone, Prices
<1>3. \A u \in Tasks : CostDone(run[u]) \in Int /\ CallsDone(run[u]) \in Int
  BY DoneCosts DEF AllCounted
<1>4. \A u \in Tasks : CostDone(run'[u]) \in Int /\ CallsDone(run'[u]) \in Int
  BY DoneCosts DEF AllCounted
<1> HIDE DEF f, g, p, q
<1>5. SumFunctionOnSet(f, Tasks) \in Int /\ SumFunctionOnSet(p, Tasks) \in Int
  BY <1>1, <1>3, TasksFinite, SumInt
<1>6. SumFunctionOnSet(g, Tasks) = SumFunctionOnSet(f, Tasks) + g[t] - f[t]
  BY <1>1, <1>2, <1>3, <1>4, TasksFinite, SumOneChanged
<1>7. SumFunctionOnSet(q, Tasks) = SumFunctionOnSet(p, Tasks) + q[t] - p[t]
  BY <1>1, <1>2, <1>3, <1>4, TasksFinite, SumOneChanged
<1> QED BY <1>1, <1>2, <1>5, <1>6, <1>7 DEF f, g, p, q

LEMMA CountedKept ==
    ASSUME Inv, AllCounted, Next PROVE AllCounted'
<1>1. Placed /\ run = [u \in Tasks |-> run[u]]
  BY DEF Inv, Placed
<1>2. CASE run' = run
  BY <1>2 DEF AllCounted
<1>3. CASE \E t \in Tasks, p \in {"waiting", "running", "done"} :
              run' = [run EXCEPT ![t] = IF p = "running" THEN Proposing ELSE Idle]
  <2>1. \A u \in Tasks : run'[u] \in {run[u], Idle, Proposing}
    BY <1>1, <1>3
  <2> QED BY <2>1, StartCounted DEF AllCounted
<1>4. ASSUME NEW t \in Tasks, ProposalReturns(t) \/ WorkerReturns(t) PROVE AllCounted'
  <2>1. PICK r : /\ RunCounted(r)
                 /\ \A u \in Tasks : run'[u] \in {run[u], r, Idle, Proposing}
    BY <1>4, PaidEffect
  <2> QED BY <2>1, StartCounted DEF AllCounted
<1> QED BY <1>2, <1>3, <1>4, NextCases

LEMMA MeteredKept ==
    ASSUME Inv, AllCounted, Metered, Next PROVE Metered'
<1>1. AllCounted' /\ Placed /\ run = [u \in Tasks |-> run[u]]
  BY CountedKept DEF Inv, Placed
<1>2. CASE UNCHANGED <<job, run, meter, bill>>
  BY <1>2 DEF Metered, MeterExact, Prices
<1>3. /\ meter.spend \in Nat /\ meter.calls \in Nat /\ meter.runs \in Nat
      /\ bill.usd \in Nat /\ bill.calls \in Nat
      /\ bill.usd = meter.spend + SumFunctionOnSet(Owing, Tasks)
      /\ bill.calls = meter.calls + SumFunctionOnSet(Pending, Tasks)
  BY MeterBySums DEF Metered
<1>4. MeterExact' <=> /\ bill'.usd = meter'.spend + SumFunctionOnSet(Owing', Tasks)
                      /\ bill'.calls = meter'.calls + SumFunctionOnSet(Pending', Tasks)
  BY DEF MeterExact, SumFunction, Owing, Pending
<1>5. CASE /\ UNCHANGED <<job, meter, bill>>
           /\ \E t \in Tasks, p \in {"waiting", "running", "done"} :
                 /\ run[t] = Idle
                 /\ run' = [run EXCEPT ![t] = IF p = "running" THEN Proposing ELSE Idle]
  <2>1. PICK t \in Tasks : /\ run[t] = Idle /\ run'[t] \in {Idle, Proposing}
                           /\ \A u \in Tasks : u # t => run'[u] = run[u]
    BY <1>1, <1>5
  <2>2. CostDone(run'[t]) = 0 /\ CostDone(run[t]) = 0 /\ CallsDone(run'[t]) = 0 /\ CallsDone(run[t]) = 0
    BY <2>1, StartOwesNothing
  <2>3. /\ SumFunctionOnSet(Owing, Tasks) \in Int /\ SumFunctionOnSet(Pending, Tasks) \in Int
        /\ SumFunctionOnSet(Owing', Tasks) = SumFunctionOnSet(Owing, Tasks) + 0 - 0
        /\ SumFunctionOnSet(Pending', Tasks) = SumFunctionOnSet(Pending, Tasks) + 0 - 0
    BY <1>1, <1>5, <2>1, <2>2, OneSettles
  <2>4. MeterExact'
    BY <1>3, <1>4, <1>5, <2>3
  <2> QED BY <1>5, <2>4 DEF Metered
<1>6. ASSUME NEW t \in Tasks, ProposalReturns(t) \/ WorkerReturns(t) PROVE Metered'
  <2>1. PICK r : \E name \in Names :
           /\ Billed(name) /\ RunCounted(r) /\ Pays(run[t], r, name)
           /\ \/ /\ run'[t] = r /\ meter' = meter
                 /\ \A u \in Tasks : u # t => run'[u] = run[u]
              \/ /\ r.stack = <<>> /\ meter' = AddRun(r) /\ run'[t] \in {Idle, Proposing}
                 /\ \A u \in Tasks : u # t => \/ run'[u] = run[u]
                                              \/ run[u] = Idle /\ run'[u] \in {Idle, Proposing}
    BY <1>6, PaidEffect
  <2>2. PICK name \in Names :
           /\ Billed(name) /\ RunCounted(r) /\ Pays(run[t], r, name)
           /\ \/ /\ run'[t] = r /\ meter' = meter
                 /\ \A u \in Tasks : u # t => run'[u] = run[u]
              \/ /\ r.stack = <<>> /\ meter' = AddRun(r) /\ run'[t] \in {Idle, Proposing}
                 /\ \A u \in Tasks : u # t => \/ run'[u] = run[u]
                                              \/ run[u] = Idle /\ run'[u] \in {Idle, Proposing}
    BY <2>1
  <2>3. job' = job
    BY <1>6, PaidEffect
  <2>4. \A u \in Tasks : u # t => /\ CostDone(run'[u]) = CostDone(run[u])
                                  /\ CallsDone(run'[u]) = CallsDone(run[u])
    BY <2>2, StartOwesNothing
  <2> DEFINE owing == SumFunctionOnSet(Owing, Tasks)
             pending == SumFunctionOnSet(Pending, Tasks)
             price == Prices[name]
  <2>5. /\ owing \in Int /\ pending \in Int
        /\ SumFunctionOnSet(Owing', Tasks) = owing + CostDone(run'[t]) - CostDone(run[t])
        /\ SumFunctionOnSet(Pending', Tasks) = pending + CallsDone(run'[t]) - CallsDone(run[t])
    BY <1>1, <2>3, <2>4, OneSettles
  <2>6. /\ CostDone(r) = CostDone(run[t]) + price /\ CallsDone(r) = CallsDone(run[t]) + 1
        /\ CostDone(run[t]) \in Nat /\ CallsDone(run[t]) \in Nat /\ price \in Nat
    <3>1. RunCounted(run[t])
      BY DEF AllCounted
    <3>2. price \in Nat
      BY PricesCounted DEF Counts
    <3> QED BY <2>2, <3>1, <3>2, DoneCosts, PaysCost
  <2>7. /\ bill' \in [usd : Nat, calls : Nat]
        /\ bill'.usd = bill.usd + price /\ bill'.calls = bill.calls + 1
    <3>1. bill' = [usd |-> bill.usd + price, calls |-> bill.calls + 1]
      BY <2>2 DEF Billed
    <3> HIDE DEF price
    <3> QED BY <1>3, <2>6, <3>1
  <2> HIDE DEF owing, pending, price
  <2>8. CASE run'[t] = r /\ meter' = meter
    <3>1. bill'.usd = meter'.spend + SumFunctionOnSet(Owing', Tasks)
      BY <1>3, <2>5, <2>6, <2>7, <2>8 DEF owing
    <3>2. bill'.calls = meter'.calls + SumFunctionOnSet(Pending', Tasks)
      BY <1>3, <2>5, <2>6, <2>7, <2>8 DEF pending
    <3> QED BY <1>4, <2>7, <2>8, <3>1, <3>2 DEF Metered
  <2>9. CASE r.stack = <<>> /\ meter' = AddRun(r) /\ run'[t] \in {Idle, Proposing}
    <3>1. CostDone(run'[t]) = 0 /\ CallsDone(run'[t]) = 0
      BY <2>9, StartOwesNothing
    <3>2. CostDone(r) = RunCost(r.tokens, Prices) /\ CallsDone(r) = r.calls
      BY <2>2, <2>9, EndedDone
    <3>3. /\ meter'.spend = meter.spend + RunCost(r.tokens, Prices)
          /\ meter'.calls = meter.calls + r.calls
      BY <2>9 DEF AddRun
    <3>4. MeterExact'
      <4>1. bill'.usd = meter'.spend + SumFunctionOnSet(Owing', Tasks)
        BY <1>3, <2>5, <2>6, <2>7, <3>1, <3>2, <3>3 DEF owing
      <4>2. bill'.calls = meter'.calls + SumFunctionOnSet(Pending', Tasks)
        BY <1>3, <2>5, <2>6, <2>7, <3>1, <3>2, <3>3 DEF pending
      <4> QED BY <1>4, <4>1, <4>2
    <3>5. meter' \in [spend : Nat, calls : Nat, runs : Nat, aborted : BOOLEAN]
      <4> DEFINE spend == meter.spend + RunCost(r.tokens, Prices)
                 over == meter.aborted \/ (Cap > 0 /\ spend > Cap)
      <4>1. meter' = [spend |-> spend, calls |-> meter.calls + r.calls, runs |-> meter.runs + 1,
                      aborted |-> over]
        BY <2>9 DEF AddRun
      <4>2. spend \in Nat /\ meter.calls + r.calls \in Nat /\ meter.runs + 1 \in Nat
        BY <1>3, <2>6, <3>2
      <4>3. over \in BOOLEAN
        OBVIOUS
      <4> HIDE DEF spend, over
      <4> QED BY <4>1, <4>2, <4>3
    <3> QED BY <2>7, <3>4, <3>5 DEF Metered
  <2> QED BY <2>2, <2>8, <2>9
<1> QED BY <1>2, <1>5, <1>6, NextCases

LEMMA BallotsKept ==
    ASSUME Inv, Ballots, Next PROVE Ballots'
<1>1. Placed /\ pc = [u \in Tasks |-> pc[u]]
  BY DEF Inv, Placed
<1>2. CASE UNCHANGED <<pc, votes>>
  BY <1>2 DEF Ballots
<1>3. CASE votes' = votes /\ \E t \in Tasks, p \in {"waiting", "running", "done"} :
                                run[t] = Idle /\ pc' = [pc EXCEPT ![t] = p] /\ pc[t] # "done"
  BY <1>1, <1>3 DEF Ballots
<1>4. ASSUME NEW t \in Tasks, ProposalReturns(t) \/ WorkerReturns(t) PROVE Ballots'
  <2>1. PICK r : Resume(t, r) /\ run[t] # Idle
    BY <1>4, AnswerGoes
  <2>2. CASE ~Finished(r) \/ job # "evaluate"
    <3>1. UNCHANGED <<pc, votes>>
      BY <2>1, <2>2 DEF Resume, Score, evalVars
    <3> QED BY <1>2, <3>1
  <2>3. CASE Finished(r) /\ job = "evaluate"
    <3> DEFINE correct == IsCorrect(r)
               ballot == Append(votes[t], correct)
               last == AddRun(r).aborted \/ Len(ballot) = Reps
    <3>1. /\ votes' = [votes EXCEPT ![t] = ballot]
          /\ pc' = [pc EXCEPT ![t] = IF last THEN "done" ELSE @]
      BY <2>1, <2>3 DEF Resume, Vote
    <3>2. pc[t] = "running"
      BY <1>1, <2>1, <2>3 DEF Placed
    <3>3. votes[t] \in Seq(BOOLEAN) /\ Len(votes[t]) \in Nat /\ Len(votes[t]) < Reps
      BY <3>2 DEF Ballots
    <3>4. correct \in BOOLEAN
      BY DEF IsCorrect
    <3> HIDE DEF correct
    <3>5. ballot \in Seq(BOOLEAN) /\ Len(ballot) = Len(votes[t]) + 1
      BY <3>3, <3>4, AppendProperties
    <3> HIDE DEF ballot
    <3>6. Len(ballot) <= Reps /\ (~last => Len(ballot) < Reps)
      BY <3>3, <3>5, FuguJobsAssumption
    <3> HIDE DEF last
    <3>7. /\ votes' \in [Tasks -> Seq(BOOLEAN)] /\ votes'[t] = ballot
          /\ \A u \in Tasks : u # t => votes'[u] = votes[u]
      BY <3>1, <3>5 DEF Ballots
    <3>8. (pc'[t] # "done" => ~last) /\ \A u \in Tasks : u # t => pc'[u] = pc[u]
      BY <1>1, <3>1
    <3> QED BY <3>6, <3>7, <3>8 DEF Ballots
  <2> QED BY <2>2, <2>3
<1> QED BY <1>2, <1>3, <1>4, NextCases

LEMMA InitAccounts == Init => Accounts
<1> SUFFICES ASSUME Init PROVE Accounts
  OBVIOUS
<1>1. \A t \in Tasks : run[t] \in {Idle, Proposing}
  BY DEF Init
<1>2. AllCounted
  BY <1>1, StartCounted DEF AllCounted
<1>3. Metered
  <2>1. /\ meter = [spend |-> 0, calls |-> 0, runs |-> 0, aborted |-> FALSE]
        /\ bill = [usd |-> 0, calls |-> 0]
    BY DEF Init
  <2>2. \A t \in Tasks : Owing[t] = 0 /\ Pending[t] = 0
    BY <1>1, MeterBySums, StartOwesNothing
  <2>3. SumFunctionOnSet(Owing, Tasks) = 0 /\ SumFunctionOnSet(Pending, Tasks) = 0
    BY <2>2, TasksFinite, SumZeros
  <2>4. MeterExact
    BY <2>1, <2>3, MeterBySums
  <2> QED BY <2>1, <2>4 DEF Metered
<1>4. Ballots
  <2>1. votes = [t \in Tasks |-> <<>>] /\ <<>> \in Seq(BOOLEAN) /\ Len(<<>>) = 0
    BY EmptySeq DEF Init
  <2> QED BY <2>1, FuguJobsAssumption DEF Ballots
<1>5. result \in {"running", "returned", "raised"}
  BY DEF Init
<1> QED BY <1>2, <1>3, <1>4, <1>5 DEF Accounts

LEMMA ResultKept ==
    ASSUME Inv, result \in {"running", "returned", "raised"}, Next
    PROVE  result' \in {"running", "returned", "raised"}
<1>1. ASSUME NEW t \in Tasks, ProposalReturns(t) \/ WorkerReturns(t)
      PROVE  result' \in {"running", "returned", "raised"}
  <2>1. PICK r : Resume(t, r)
    BY <1>1, AnswerGoes
  <2>2. CASE ~Finished(r)
    BY <2>1, <2>2 DEF Resume
  <2>3. CASE Finished(r) /\ job = "evaluate"
    BY <2>1, <2>3 DEF Resume, Vote
  <2>4. CASE Finished(r) /\ job # "evaluate"
    <3>1. Score(t, r)
      BY <2>1, <2>4 DEF Resume
    <3>2. \A next, more : GoOn(next, more) => result' \in {"running", "returned"}
      BY DEF GoOn
    <3> QED BY <3>1, <3>2 DEF Score
  <2> QED BY <2>2, <2>3, <2>4
<1> QED BY <1>1, NextCases

LEMMA NextAccounts == Inv /\ Accounts /\ [Next]_vars => Accounts'
<1> SUFFICES ASSUME Inv, Accounts, [Next]_vars PROVE Accounts'
  OBVIOUS
<1>1. CASE UNCHANGED vars
  BY <1>1 DEF vars, evalVars, Accounts, AllCounted, Metered, MeterExact, Prices, Ballots
<1>2. CASE Next
  BY <1>2, CountedKept, MeteredKept, BallotsKept, ResultKept DEF Accounts
<1> QED BY <1>1, <1>2

LEMMA AccountsHold == Spec => []Accounts
<1> QED BY InitAccounts, NextAccounts, Invariance, PTL DEF Spec

\* Every answered call is charged once (workflow.py:347-544, cost.py:60-119): to
\* the run that made it while it lasts, through every frame that is merged into
\* the one below, and to the meter with the run, whatever the nesting, the prices
\* and the proposals.
THEOREM MeterIsExact == Spec => []MeterExact
<1> QED BY AccountsHold, PTL DEF Accounts, Metered

\* The types of the variables, that recursion ends at MaxDepth, and that no task
\* casts more than Reps votes (eval.py:68-99, workflow.py:413-544).
THEOREM TypeCorrect == Spec => []TypeOK
<1>1. Inv /\ Accounts => TypeOK
  <2> SUFFICES ASSUME Inv, Accounts PROVE TypeOK
    OBVIOUS
  <2>1. ASSUME NEW t \in Tasks PROVE RunOK(run[t])
    <3>1. RunSound(run[t]) /\ RunCounted(run[t])
      BY DEF Inv, Accounts, AllCounted
    <3>2. run[t].stack # <<>> => /\ run[t].call # NoCall /\ Len(run[t].stack) \in 1..MaxDepth+1
      <4>1. run[t].stack # <<>> => /\ Len(run[t].stack) \in Nat /\ Len(run[t].stack) > 0
                                   /\ Len(run[t].stack) <= MaxDepth + 1
        BY <3>1, StackFacts DEF RunSound, RunCounted
      <4>2. run[t].stack # <<>> => run[t].call # NoCall
        BY <3>1 DEF RunSound, NoCall
      <4> QED BY <4>1, <4>2, FuguAssumption
    <3>3. run[t].stack # <<>> => run[t].parsed
      BY <3>1 DEF RunSound
    <3>4. /\ run[t].call.kind \in {"none", "propose", "work"} /\ run[t].call.to \in Names
          /\ run[t].calls \in Nat
      BY <3>1 DEF RunCounted, Counted
    <3>5. run[t].parsed \in BOOLEAN
      BY <3>1 DEF RunCounted
    <3> QED BY <3>2, <3>3, <3>4, <3>5 DEF RunOK
  <2>2. ASSUME NEW t \in Tasks PROVE votes[t] \in BoundedSeq(BOOLEAN, Reps)
    <3> DEFINE n == Len(votes[t])
    <3>1. votes[t] \in Seq(BOOLEAN) /\ n <= Reps
      BY DEF Accounts, Ballots
    <3>2. n \in 0..Reps /\ votes[t] \in [1..n -> BOOLEAN]
      BY <3>1, FuguJobsAssumption, LenProperties
    <3> HIDE DEF n
    <3>3. BoundedSeq(BOOLEAN, Reps) = UNION {[1..m -> BOOLEAN] : m \in 0..Reps}
      BY DEF BoundedSeq, SeqOf
    <3> DEFINE ballot == votes[t]
               S == [1..n -> BOOLEAN]
    <3>4. S \in {[1..m -> BOOLEAN] : m \in 0..Reps} /\ ballot \in S
      BY <3>2
    <3> HIDE DEF ballot, S
    <3> QED BY <3>3, <3>4 DEF ballot
  <2>3. /\ pc \in [Tasks -> {"new", "waiting", "running", "done"}]
        /\ meter \in [spend : Nat, calls : Nat, runs : Nat, aborted : BOOLEAN]
        /\ result \in {"running", "returned", "raised"}
    BY DEF Inv, Placed, Accounts, Metered
  <2> QED BY <2>1, <2>2, <2>3 DEF TypeOK
<1> QED BY <1>1, Invariance, AccountsHold, PTL

-----------------------------------------------------------------------------
(***************************************************************************)
(* What the policy is updated from                                         *)
(***************************************************************************)
Scored == {0, 1, 2}
Record == [aborted : BOOLEAN, accuracy : Nat]

Whole(groups) ==
    groups \in Seq(Seq(Scored)) /\ \A k \in DOMAIN groups : Len(groups[k]) = GroupSize

\* The correct runs of a group, and of a batch.
Twos(g) == {i \in DOMAIN g : g[i] = 2}
Pairs(groups) == {x \in (1..Len(groups)) \X (1..GroupSize) : groups[x[1]][x[2]] = 2}

LastAccuracy(h) ==
    LET done == {k \in DOMAIN h : ~h[k].aborted}
    IN IF done = {} THEN 0 ELSE h[Max(done)].accuracy

LEMMA TwosFinite ==
    ASSUME NEW g \in Seq(Scored)
    PROVE  IsFiniteSet(Twos(g)) /\ Cardinality(Twos(g)) \in Nat
<1> DEFINE n == Len(g)
<1>1. n \in Nat /\ DOMAIN g = 1..n
  BY LenProperties
<1>2. Twos(g) \subseteq 1..n
  BY <1>1 DEF Twos
<1> HIDE DEF n
<1>3. IsFiniteSet(1..n)
  BY <1>1, FS_Interval
<1> QED BY <1>2, <1>3, FS_Subset, FS_CardinalityType

LEMMA TwosAppend ==
    ASSUME NEW g \in Seq(Scored), NEW v \in Scored
    PROVE  /\ Append(g, v) \in Seq(Scored) /\ Len(Append(g, v)) = Len(g) + 1
           /\ Cardinality(Twos(Append(g, v))) = Cardinality(Twos(g)) + (IF v = 2 THEN 1 ELSE 0)
<1> DEFINE n == Len(g)
           a == Append(g, v)
<1>1. /\ n \in Nat /\ a \in Seq(Scored) /\ Len(a) = n + 1 /\ a[n + 1] = v
      /\ \A k \in 1..n : a[k] = g[k]
  BY AppendProperties
<1>2. Twos(g) = {i \in 1..n : g[i] = 2}
  BY DEF Twos
<1> HIDE DEF a
<1>3. Twos(a) = {i \in 1..(n + 1) : a[i] = 2}
  <2>1. DOMAIN a = 1..(n + 1)
    BY <1>1, LenProperties
  <2> QED BY <2>1 DEF Twos
<1> HIDE DEF n
<1>4. CASE v = 2
  <2>1. Twos(a) = Twos(g) \cup {n + 1} /\ n + 1 \notin Twos(g)
    BY <1>1, <1>2, <1>3, <1>4
  <2> QED BY <1>1, <1>4, <2>1, TwosFinite, FS_AddElement DEF a, n
<1>5. CASE v # 2
  <2>1. Twos(a) = Twos(g)
    BY <1>1, <1>2, <1>3, <1>5
  <2> QED BY <1>1, <1>5, <2>1, TwosFinite DEF a, n
<1> QED BY <1>4, <1>5

LEMMA PairsFinite ==
    ASSUME NEW groups, Whole(groups)
    PROVE  IsFiniteSet(Pairs(groups)) /\ Cardinality(Pairs(groups)) \in Nat
<1> DEFINE n == Len(groups)
           box == (1..n) \X (1..GroupSize)
<1>1. n \in Nat /\ GroupSize \in Nat
  BY FuguJobsAssumption DEF Whole
<1> HIDE DEF n
<1>2. IsFiniteSet(1..n) /\ IsFiniteSet(1..GroupSize)
  BY <1>1, FS_Interval
<1>3. IsFiniteSet(box)
  BY <1>2, FS_Product
<1>4. Pairs(groups) \subseteq box
  BY DEF Pairs, n
<1> HIDE DEF box
<1> QED BY <1>3, <1>4, FS_Subset, FS_CardinalityType

LEMMA PairsAppend ==
    ASSUME NEW groups, Whole(groups), NEW g \in Seq(Scored), Len(g) = GroupSize
    PROVE  /\ Whole(Append(groups, g)) /\ Len(Append(groups, g)) = Len(groups) + 1
           /\ Cardinality(Pairs(Append(groups, g)))
                = Cardinality(Pairs(groups)) + Cardinality(Twos(g))
<1> DEFINE n == Len(groups)
           a == Append(groups, g)
           S == Seq(Scored)
           row == {<<n + 1, i>> : i \in Twos(g)}
<1>1. /\ n \in Nat /\ a \in Seq(S) /\ Len(a) = n + 1 /\ a[n + 1] = g
      /\ \A k \in 1..n : a[k] = groups[k]
  <2>1. groups \in Seq(S) /\ g \in S
    BY DEF Whole
  <2> HIDE DEF S
  <2> QED BY <2>1, AppendProperties
<1>2. GroupSize \in Nat /\ Twos(g) = {i \in 1..GroupSize : g[i] = 2}
  BY FuguJobsAssumption DEF Twos
<1> HIDE DEF a
<1>3. DOMAIN a = 1..(n + 1)
  BY <1>1, LenProperties
<1>4. Whole(a)
  <2>1. \A k \in 1..n : Len(groups[k]) = GroupSize
    BY DEF Whole
  <2>2. \A k \in 1..(n + 1) : Len(a[k]) = GroupSize
    <3> SUFFICES ASSUME NEW k \in 1..(n + 1) PROVE Len(a[k]) = GroupSize
      OBVIOUS
    <3> HIDE DEF n
    <3>1. CASE k = n + 1
      BY <1>1, <3>1
    <3>2. CASE k # n + 1
      <4>1. k \in 1..n
        BY <1>1, <3>2
      <4> QED BY <1>1, <2>1, <4>1
    <3> QED BY <3>1, <3>2
  <2> QED BY <1>1, <1>3, <2>2 DEF Whole
<1>5. Pairs(a) = Pairs(groups) \cup row /\ Pairs(groups) \cap row = {}
  <2>1. Pairs(a) = {x \in (1..(n + 1)) \X (1..GroupSize) : a[x[1]][x[2]] = 2}
    BY <1>1 DEF Pairs
  <2>2. Pairs(groups) = {x \in (1..n) \X (1..GroupSize) : groups[x[1]][x[2]] = 2}
    BY DEF Pairs
  <2> HIDE DEF n
  <2>3. ASSUME NEW x \in Pairs(a) PROVE x \in Pairs(groups) \cup row
    <3>1. x \in (1..(n + 1)) \X (1..GroupSize) /\ a[x[1]][x[2]] = 2
      BY <2>1, <2>3
    <3>2. CASE x[1] = n + 1
      <4>1. x = <<n + 1, x[2]>> /\ x[2] \in Twos(g)
        BY <1>1, <1>2, <3>1, <3>2
      <4> QED BY <4>1
    <3>3. CASE x[1] # n + 1
      <4>1. x[1] \in 1..n /\ x[2] \in 1..GroupSize /\ x = <<x[1], x[2]>>
        BY <1>1, <3>1, <3>3
      <4>2. groups[x[1]][x[2]] = 2
        BY <1>1, <3>1, <4>1
      <4> QED BY <2>2, <4>1, <4>2
    <3> QED BY <3>2, <3>3
  <2>4. ASSUME NEW x \in Pairs(groups) PROVE x \in Pairs(a) /\ x \notin row
    <3>1. x \in (1..n) \X (1..GroupSize) /\ groups[x[1]][x[2]] = 2
      BY <2>2, <2>4
    <3>2. x[1] \in 1..n /\ x[2] \in 1..GroupSize /\ x = <<x[1], x[2]>>
      BY <3>1
    <3>3. a[x[1]][x[2]] = 2 /\ x[1] \in 1..(n + 1) /\ x[1] # n + 1
      BY <1>1, <3>1, <3>2
    <3> QED BY <2>1, <3>2, <3>3
  <2>5. ASSUME NEW x \in row PROVE x \in Pairs(a)
    <3>1. PICK i \in Twos(g) : x = <<n + 1, i>>
      BY <2>5
    <3>2. i \in 1..GroupSize /\ g[i] = 2
      BY <1>2
    <3>3. n + 1 \in 1..(n + 1) /\ x[1] = n + 1 /\ x[2] = i
      BY <1>1, <3>1
    <3>4. a[x[1]][x[2]] = 2
      BY <1>1, <3>2, <3>3
    <3> QED BY <2>1, <3>1, <3>2, <3>3, <3>4
  <2> QED BY <2>3, <2>4, <2>5
<1>6. IsFiniteSet(row) /\ Cardinality(row) = Cardinality(Twos(g))
  <2> DEFINE T == Twos(g)
             f == [i \in T |-> <<n + 1, i>>]
  <2>1. f \in Surjection(T, row) /\ f \in Injection(T, row)
    <3>1. f \in [T -> row] /\ \A i, j \in T : f[i] = f[j] => i = j
      OBVIOUS
    <3>2. \A y \in row : \E i \in T : f[i] = y
      OBVIOUS
    <3> QED BY <3>1, <3>2 DEF Surjection, Injection, IsInjective
  <2> HIDE DEF f, row, T
  <2> QED BY <2>1, TwosFinite, FS_Surjection DEF T
<1> HIDE DEF row
<1>7. Cardinality(Pairs(a)) = Cardinality(Pairs(groups)) + Cardinality(Twos(g))
  <2>1. IsFiniteSet(Pairs(groups)) /\ Cardinality(Pairs(groups)) \in Nat
    BY PairsFinite
  <2>2. Cardinality(Twos(g)) \in Nat
    BY TwosFinite
  <2>3. Cardinality(Pairs(a)) = Cardinality(Pairs(groups)) + Cardinality(row) - Cardinality({})
    BY <1>5, <1>6, <2>1, FS_Union
  <2>4. Cardinality({}) = 0
    BY FS_EmptySet
  <2> QED BY <1>6, <2>1, <2>2, <2>3, <2>4
<1> QED BY <1>1, <1>4, <1>7 DEF a

LEMMA LastRecord ==
    ASSUME NEW h \in Seq(Record), NEW rec \in Record
    PROVE  /\ Append(h, rec) \in Seq(Record)
           /\ LastAccuracy(Append(h, rec)) = IF rec.aborted THEN LastAccuracy(h) ELSE rec.accuracy
<1> DEFINE n == Len(h)
           a == Append(h, rec)
           old == {k \in DOMAIN h : ~h[k].aborted}
           done == {k \in DOMAIN a : ~a[k].aborted}
<1>1. /\ n \in Nat /\ a \in Seq(Record) /\ Len(a) = n + 1 /\ a[n + 1] = rec
      /\ \A k \in 1..n : a[k] = h[k]
  BY AppendProperties
<1>2. DOMAIN h = 1..n /\ DOMAIN a = 1..(n + 1)
  BY <1>1, LenProperties
<1>3. /\ LastAccuracy(a) = IF done = {} THEN 0 ELSE a[Max(done)].accuracy
      /\ LastAccuracy(h) = IF old = {} THEN 0 ELSE h[Max(old)].accuracy
  BY DEF LastAccuracy
<1> HIDE DEF a
<1>4. CASE rec.aborted
  <2>1. done = old
    BY <1>1, <1>2, <1>4
  <2>2. old # {} => Max(old) \in 1..n
    <3>1. old \in SUBSET (0..n)
      BY <1>1, <1>2
    <3>2. old \subseteq 1..n
      BY <1>2
    <3> HIDE DEF old
    <3> QED BY <1>1, <3>1, <3>2, MaxIsGreatest
  <2> HIDE DEF done, old
  <2>3. LastAccuracy(a) = LastAccuracy(h)
    BY <1>1, <1>3, <2>1, <2>2
  <2> QED BY <1>1, <1>4, <2>3 DEF a
<1>5. CASE ~rec.aborted
  <2>1. n + 1 \in done /\ done \in SUBSET (0..(n + 1)) /\ n + 1 \in Nat
    BY <1>1, <1>2, <1>5
  <2> HIDE DEF done
  <2>2. Max(done) \in 0..(n + 1) /\ Max(done) >= n + 1
    <3> DEFINE m == n + 1
    <3> HIDE DEF m
    <3>1. Max(done) \in done /\ Max(done) >= m
      BY <2>1, MaxIsGreatest DEF m
    <3> QED BY <2>1, <3>1 DEF m
  <2>3. Max(done) = n + 1
    BY <1>1, <2>2
  <2>4. LastAccuracy(a) = rec.accuracy
    BY <1>1, <1>3, <2>1, <2>3
  <2> QED BY <1>1, <1>5, <2>4 DEF a
<1> QED BY <1>4, <1>5

-----------------------------------------------------------------------------
LEMMA TwoMembers ==
    ASSUME NEW S, IsFiniteSet(S)
    PROVE  Cardinality(S) > 1 <=> \E x, y \in S : x # y
<1>1. ASSUME NEW x \in S, NEW y \in S, x # y PROVE Cardinality(S) > 1
  <2>1. IsFiniteSet({x}) /\ Cardinality({x}) = 1
    BY FS_Singleton
  <2>2. {x} \cup {y} \subseteq S /\ y \notin {x}
    BY <1>1
  <2>3. IsFiniteSet({x} \cup {y}) /\ Cardinality({x} \cup {y}) = 2
    BY <2>1, <2>2, FS_AddElement
  <2>4. Cardinality({x} \cup {y}) <= Cardinality(S)
    BY <2>2, FS_Subset
  <2> QED BY <2>3, <2>4, FS_CardinalityType
<1>2. ASSUME ~\E x, y \in S : x # y PROVE ~(Cardinality(S) > 1)
  <2>1. CASE S = {}
    BY <2>1, FS_EmptySet
  <2>2. CASE S # {}
    <3>1. PICK x : S = {x}
      BY <1>2, <2>2
    <3> QED BY <3>1, FS_Singleton
  <2> QED BY <2>1, <2>2
<1> QED BY <1>1, <1>2

\* The sum of numbers that are not negative is 0 only when they all are.
LEMMA SumPositive ==
    ASSUME NEW f, NEW S, IsFiniteSet(S), \A x \in S : f[x] \in Nat
    PROVE  SumFunctionOnSet(f, S) > 0 <=> \E x \in S : f[x] > 0
<1>1. ASSUME NEW x \in S, f[x] > 0 PROVE SumFunctionOnSet(f, S) > 0
  <2>1. f[x] <= SumFunctionOnSet(f, S) /\ SumFunctionOnSet(f, S) \in Nat
    BY SumBounds, SumNat
  <2> QED BY <1>1, <2>1
<1>2. ASSUME ~\E x \in S : f[x] > 0 PROVE ~(SumFunctionOnSet(f, S) > 0)
  <2>1. \A x \in S : f[x] = 0
    BY <1>2
  <2>2. SumFunctionOnSet(f, S) = 0
    BY <2>1, SumZeros
  <2> QED BY <2>2
<1> QED BY <1>1, <1>2

\* The samples of a group that have an advantage (grpo.py:43-59).
Signals(g) == {i \in DOMAIN g : GroupAdvantages(g)[i] # 0}

\* A group has one exactly when its runs differ in reward.
LEMMA SignalIffSpread ==
    ASSUME NEW g \in Seq(Scored), Len(g) = GroupSize
    PROVE  /\ Cardinality(Signals(g)) \in Nat
           /\ Cardinality(Signals(g)) > 0 <=> Cardinality(Range(g)) > 1
<1> DEFINE n == GroupSize
           total == SumFunction(g)
<1>1. n \in Nat /\ n > 0 /\ DOMAIN g = 1..n /\ \A i \in 1..n : g[i] \in Scored
  BY FuguJobsAssumption, LenProperties
<1>2. Range(g) \subseteq Scored /\ Range(g) = {g[i] : i \in 1..n}
  BY <1>1 DEF Range
<1>3. IsFiniteSet(Range(g))
  <2> DEFINE a == 0
             b == 2
  <2>1. a \in Nat /\ b \in Nat /\ Scored = a..b
    BY DEF Scored
  <2> HIDE DEF a, b
  <2>2. IsFiniteSet(a..b)
    BY <2>1, FS_Interval
  <2> QED BY <1>2, <2>1, <2>2, FS_Subset
<1>4. Cardinality(Range(g)) > 1 <=> \E i, j \in 1..n : g[i] # g[j]
  <2>1. Cardinality(Range(g)) > 1 <=> \E x, y \in Range(g) : x # y
    BY <1>3, TwoMembers
  <2> QED BY <1>2, <2>1
<1>5. total \in Int /\ total = SumFunctionOnSet(g, 1..n)
  <2>1. \A i \in 1..n : g[i] \in Nat
    BY <1>1 DEF Scored
  <2>2. total = SumFunctionOnSet(g, 1..n)
    BY <1>1 DEF SumFunction, SumFunctionOnSet
  <2> HIDE DEF n, total
  <2>3. IsFiniteSet(1..n)
    BY <1>1, FS_Interval
  <2>4. SumFunctionOnSet(g, 1..n) \in Nat
    BY <2>1, <2>3, SumNat
  <2> QED BY <2>2, <2>4
<1>6. Signals(g) = {i \in 1..n : n * g[i] - total # 0}
  <2>1. GroupAdvantages(g) = [i \in 1..n |-> n * g[i] - total]
    BY <1>1 DEF GroupAdvantages
  <2> QED BY <1>1, <2>1 DEF Signals
<1> HIDE DEF n, total
<1>7. IsFiniteSet(Signals(g)) /\ Cardinality(Signals(g)) \in Nat
  <2>1. IsFiniteSet(1..n) /\ Signals(g) \subseteq 1..n
    BY <1>1, <1>6, FS_Interval
  <2> QED BY <2>1, FS_Subset, FS_CardinalityType
<1>8. Cardinality(Signals(g)) > 0 <=> \E i \in 1..n : n * g[i] # total
  <2>1. Cardinality(Signals(g)) = 0 <=> Signals(g) = {}
    BY <1>7, FS_EmptySet
  <2>2. \A i \in 1..n : n * g[i] \in Int
    BY <1>1 DEF Scored
  <2>3. Signals(g) # {} <=> \E i \in 1..n : n * g[i] # total
    BY <1>5, <1>6, <2>2
  <2> QED BY <1>7, <2>1, <2>3
<1>9. ASSUME NEW i \in 1..n, NEW j \in 1..n, g[i] # g[j]
      PROVE  n * g[i] # total \/ n * g[j] # total
  BY <1>1, <1>5, <1>9 DEF Scored
<1>10. ASSUME ~\E i, j \in 1..n : g[i] # g[j]
       PROVE  \A i \in 1..n : n * g[i] = total
  <2>1. 1 \in 1..n
    BY <1>1
  <2> DEFINE c == g[1]
  <2>2. c \in Int /\ \A i \in 1..n : g[i] = c
    BY <1>1, <1>10, <2>1 DEF Scored
  <2> HIDE DEF c
  <2>3. total = n * c
    BY <1>1, <1>5, <2>2, SumConstant
  <2> QED BY <2>2, <2>3
<1> QED BY <1>4, <1>7, <1>8, <1>9, <1>10

\* The optimizer moves exactly when some group does.
LEMMA StepsIffSpread ==
    ASSUME NEW groups, Whole(groups)
    PROVE  OptimizerSteps(groups) > 0 <=> \E g \in Range(groups) : Cardinality(Range(g)) > 1
<1> DEFINE D == DOMAIN groups
           f == [k \in D |-> Cardinality(Signals(groups[k]))]
           samples == SumFunctionOnSet(f, D)
<1>1. \A k \in D : groups[k] \in Seq(Scored) /\ Len(groups[k]) = GroupSize
  BY DEF Whole
<1>2. IsFiniteSet(D)
  <2> DEFINE n == Len(groups)
  <2>1. n \in Nat /\ D = 1..n
    BY LenProperties DEF Whole
  <2> HIDE DEF n, D
  <2> QED BY <2>1, FS_Interval
<1>3. \A k \in D : /\ f[k] \in Nat
                   /\ f[k] > 0 <=> Cardinality(Range(groups[k])) > 1
  BY <1>1, SignalIffSpread
<1>4. OptimizerSteps(groups) = (samples + GradAccum - 1) \div GradAccum
  <2>1. SumFunction(f) = samples
    BY DEF SumFunction, SumFunctionOnSet
  <2>2. f = [k \in DOMAIN groups |->
                Cardinality({i \in DOMAIN groups[k] : GroupAdvantages(groups[k])[i] # 0})]
    BY DEF Signals
  <2> HIDE DEF f, samples
  <2> QED BY <2>1, <2>2 DEF OptimizerSteps
<1>5. Range(groups) = {groups[k] : k \in D}
  BY DEF Range
<1> HIDE DEF f
<1>6. samples \in Nat /\ (samples > 0 <=> \E k \in D : f[k] > 0)
  BY <1>2, <1>3, SumNat, SumPositive
<1> HIDE DEF samples
<1>7. OptimizerSteps(groups) > 0 <=> samples > 0
  BY <1>4, <1>6, UpRounded, FuguJobsAssumption
<1> QED BY <1>3, <1>5, <1>6, <1>7

-----------------------------------------------------------------------------
\* The books of the loop that hold wherever it is in its iteration: what it has
\* collected, and what its last update was made from.
TrainerFields ==
    {"it", "cursor", "groups", "rewards", "correct", "history", "updated", "optSteps", "sampled"}

Collecting(tr) ==
    /\ TrainerFields \subseteq DOMAIN tr
    /\ Whole(tr.groups)
    /\ tr.rewards \in Seq(Scored)
    /\ tr.correct = Cardinality(Pairs(tr.groups)) + Cardinality(Twos(tr.rewards))
    /\ tr.history \in Seq(Record)

Updated(tr) ==
    tr.updated # <<>> =>
       /\ Whole(tr.updated) /\ Len(tr.updated) = QuestionsPerIter
       /\ tr.optSteps = OptimizerSteps(tr.updated)
       /\ LastAccuracy(tr.history) = Cardinality(Pairs(tr.updated))

TrainerSound(tr) == Collecting(tr) /\ Updated(tr)

\* The questions that have been asked: each once more than the ones after p.
Round(s, p) == \E base \in Int : s = [t \in Tasks |-> base + (IF t <= p THEN 1 ELSE 0)]

QuestionOf(tr) == (tr.cursor + Len(tr.groups)) % NTasks

LEMMA NothingCollected ==
    /\ Whole(<<>>) /\ <<>> \in Seq(Scored) /\ Len(<<>>) = 0
    /\ Cardinality(Pairs(<<>>)) + Cardinality(Twos(<<>>)) = 0
<1>1. <<>> \in Seq(Scored) /\ <<>> \in Seq(Seq(Scored)) /\ Len(<<>>) = 0 /\ DOMAIN <<>> = {}
  BY EmptySeq
<1>2. Twos(<<>>) = {}
  BY <1>1 DEF Twos
<1>3. Pairs(<<>>) = {}
  BY <1>1 DEF Pairs
<1> QED BY <1>1, <1>2, <1>3, FS_EmptySet DEF Whole

LEMMA CollectedSound ==
    ASSUME NEW r, TrainerSound(trainer)
    PROVE  /\ TrainerSound(Collected(r))
           /\ Len(Collected(r).rewards) = Len(trainer.rewards) + 1
           /\ Collected(r).groups = trainer.groups /\ Collected(r).cursor = trainer.cursor
           /\ Collected(r).sampled = trainer.sampled /\ Collected(r).it = trainer.it
<1> DEFINE x == TrainingReward(r)
           tr == Collected(r)
<1>1. x \in Scored /\ (IsCorrect(r) <=> x = 2)
  <2>1. IsCorrect(r) => r.parsed
    BY DEF IsCorrect
  <2>2. x = IF ~r.parsed THEN 0 ELSE IF IsCorrect(r) THEN 2 ELSE 1
    BY DEF TrainingReward
  <2> HIDE DEF x
  <2> QED BY <2>1, <2>2 DEF Scored
<1>2. /\ TrainerFields \subseteq DOMAIN trainer /\ Whole(trainer.groups) /\ trainer.rewards \in Seq(Scored)
      /\ trainer.correct = Cardinality(Pairs(trainer.groups)) + Cardinality(Twos(trainer.rewards))
      /\ trainer.history \in Seq(Record)
  BY DEF TrainerSound, Collecting
<1>3. /\ TrainerFields \subseteq DOMAIN tr
      /\ tr.rewards = Append(trainer.rewards, x)
      /\ tr.correct = trainer.correct + (IF x = 2 THEN 1 ELSE 0)
      /\ tr.groups = trainer.groups /\ tr.cursor = trainer.cursor /\ tr.sampled = trainer.sampled
      /\ tr.history = trainer.history /\ tr.updated = trainer.updated
      /\ tr.optSteps = trainer.optSteps /\ tr.it = trainer.it
  <2> HIDE DEF x
  <2>1. tr = [trainer EXCEPT !.rewards = Append(@, x), !.correct = @ + (IF x = 2 THEN 1 ELSE 0)]
    BY <1>1 DEF Collected, x
  <2> HIDE DEF tr
  <2> QED BY <1>2, <2>1 DEF TrainerFields
<1> HIDE DEF x, tr
<1>4. /\ Append(trainer.rewards, x) \in Seq(Scored)
      /\ Len(Append(trainer.rewards, x)) = Len(trainer.rewards) + 1
      /\ Cardinality(Twos(Append(trainer.rewards, x)))
            = Cardinality(Twos(trainer.rewards)) + (IF x = 2 THEN 1 ELSE 0)
  BY <1>1, <1>2, TwosAppend
<1>5. Cardinality(Pairs(trainer.groups)) \in Nat /\ Cardinality(Twos(trainer.rewards)) \in Nat
  BY <1>2, PairsFinite, TwosFinite
<1>6. tr.correct = Cardinality(Pairs(tr.groups)) + Cardinality(Twos(tr.rewards))
  BY <1>2, <1>3, <1>4, <1>5
<1>7. Collecting(tr)
  BY <1>2, <1>3, <1>4, <1>6 DEF Collecting
<1>8. Updated(tr)
  BY <1>3 DEF TrainerSound, Updated
<1> QED BY <1>3, <1>4, <1>7, <1>8 DEF TrainerSound, tr

LEMMA GroupDoneSound ==
    ASSUME NEW tr, TrainerSound(tr), Len(tr.rewards) = GroupSize
    PROVE  /\ TrainerSound(GroupDone(tr))
           /\ GroupDone(tr).rewards = <<>> /\ Len(GroupDone(tr).groups) = Len(tr.groups) + 1
           /\ GroupDone(tr).cursor = tr.cursor /\ GroupDone(tr).sampled = tr.sampled
<1> DEFINE g == GroupDone(tr)
<1>1. /\ TrainerFields \subseteq DOMAIN tr /\ Whole(tr.groups) /\ tr.rewards \in Seq(Scored)
      /\ tr.correct = Cardinality(Pairs(tr.groups)) + Cardinality(Twos(tr.rewards))
      /\ tr.history \in Seq(Record)
  BY DEF TrainerSound, Collecting
<1>2. /\ TrainerFields \subseteq DOMAIN g
      /\ g.groups = Append(tr.groups, tr.rewards) /\ g.rewards = <<>> /\ g.correct = tr.correct
      /\ g.cursor = tr.cursor /\ g.sampled = tr.sampled /\ g.history = tr.history
      /\ g.updated = tr.updated /\ g.optSteps = tr.optSteps /\ g.it = tr.it
  BY <1>1 DEF GroupDone, TrainerFields
<1> HIDE DEF g
<1>3. /\ Whole(g.groups) /\ Len(g.groups) = Len(tr.groups) + 1
      /\ Cardinality(Pairs(g.groups))
            = Cardinality(Pairs(tr.groups)) + Cardinality(Twos(tr.rewards))
  BY <1>1, <1>2, PairsAppend
<1>4. Cardinality(Twos(<<>>)) = 0 /\ Cardinality(Pairs(g.groups)) \in Nat
  <2>1. Twos(<<>>) = {}
    BY EmptySeq DEF Twos
  <2> QED BY <1>3, <2>1, PairsFinite, FS_EmptySet
<1>5. Collecting(g)
  BY <1>1, <1>2, <1>3, <1>4, NothingCollected DEF Collecting
<1>6. Updated(g)
  BY <1>2 DEF TrainerSound, Updated
<1> QED BY <1>2, <1>3, <1>5, <1>6 DEF TrainerSound, g

LEMMA BatchDoneSound ==
    ASSUME NEW tr, TrainerSound(tr), tr.rewards = <<>>, Len(tr.groups) = QuestionsPerIter
    PROVE  /\ TrainerSound(BatchDone(tr))
           /\ BatchDone(tr).rewards = <<>> /\ BatchDone(tr).groups = <<>>
           /\ BatchDone(tr).cursor = (tr.cursor + QuestionsPerIter) % NTasks
           /\ BatchDone(tr).sampled = tr.sampled
<1> DEFINE b == BatchDone(tr)
           rec == [aborted |-> FALSE, accuracy |-> tr.correct]
<1>1. /\ TrainerFields \subseteq DOMAIN tr /\ Whole(tr.groups)
      /\ tr.correct = Cardinality(Pairs(tr.groups)) + Cardinality(Twos(tr.rewards))
      /\ tr.history \in Seq(Record)
  BY DEF TrainerSound, Collecting
<1>2. /\ TrainerFields \subseteq DOMAIN b
      /\ b.groups = <<>> /\ b.rewards = tr.rewards /\ b.correct = 0
      /\ b.cursor = (tr.cursor + QuestionsPerIter) % NTasks /\ b.sampled = tr.sampled
      /\ b.history = Append(tr.history, rec)
      /\ b.updated = tr.groups /\ b.optSteps = OptimizerSteps(tr.groups)
  BY <1>1 DEF BatchDone, TrainerFields
<1> HIDE DEF b
<1>3. tr.correct = Cardinality(Pairs(tr.groups)) /\ tr.correct \in Nat
  <2>1. Twos(<<>>) = {}
    BY EmptySeq DEF Twos
  <2>2. Cardinality(Pairs(tr.groups)) \in Nat
    BY <1>1, PairsFinite
  <2>3. Cardinality(Twos(tr.rewards)) = 0
    BY <2>1, FS_EmptySet
  <2> QED BY <1>1, <2>2, <2>3
<1>4. rec \in Record /\ rec.aborted = FALSE /\ rec.accuracy = tr.correct
  BY <1>3 DEF Record
<1> HIDE DEF rec
<1>5. b.history \in Seq(Record) /\ LastAccuracy(b.history) = tr.correct
  BY <1>1, <1>2, <1>4, LastRecord
<1>6. Collecting(b)
  BY <1>2, <1>5, NothingCollected DEF Collecting
<1>7. Updated(b)
  BY <1>1, <1>2, <1>3, <1>5 DEF Updated
<1> QED BY <1>2, <1>6, <1>7 DEF TrainerSound, b

LEMMA CapExceededSound ==
    ASSUME NEW tr, TrainerSound(tr)
    PROVE  /\ TrainerSound(CapExceeded(tr))
           /\ CapExceeded(tr).rewards = <<>> /\ CapExceeded(tr).groups = <<>>
           /\ CapExceeded(tr).cursor = tr.cursor /\ CapExceeded(tr).sampled = tr.sampled
<1> DEFINE b == CapExceeded(tr)
           rec == [aborted |-> TRUE, accuracy |-> 0]
<1>1. TrainerFields \subseteq DOMAIN tr /\ tr.history \in Seq(Record)
  BY DEF TrainerSound, Collecting
<1>2. /\ TrainerFields \subseteq DOMAIN b
      /\ b.groups = <<>> /\ b.rewards = <<>> /\ b.correct = 0
      /\ b.cursor = tr.cursor /\ b.sampled = tr.sampled
      /\ b.history = Append(tr.history, rec)
      /\ b.updated = tr.updated /\ b.optSteps = tr.optSteps
  BY <1>1 DEF CapExceeded, TrainerFields
<1> HIDE DEF b
<1>3. rec \in Record /\ rec.aborted = TRUE
  BY DEF Record
<1> HIDE DEF rec
<1>4. b.history \in Seq(Record) /\ LastAccuracy(b.history) = LastAccuracy(tr.history)
  BY <1>1, <1>2, <1>3, LastRecord
<1>5. Collecting(b)
  BY <1>2, <1>4, NothingCollected DEF Collecting
<1>6. Updated(b)
  BY <1>2, <1>4 DEF TrainerSound, Updated
<1> QED BY <1>2, <1>5, <1>6 DEF TrainerSound, b

LEMMA AskedSound ==
    ASSUME NEW tr, TrainerSound(tr)
    PROVE  /\ TrainerSound(Asked(tr))
           /\ Asked(tr).rewards = tr.rewards /\ Asked(tr).groups = tr.groups
           /\ Asked(tr).cursor = tr.cursor
           /\ Asked(tr).sampled = [tr.sampled EXCEPT ![QuestionOf(tr)] = tr.sampled[QuestionOf(tr)] + 1]
<1> DEFINE b == Asked(tr)
<1>1. TrainerFields \subseteq DOMAIN tr
  BY DEF TrainerSound, Collecting
<1>2. b = [tr EXCEPT !.sampled = [tr.sampled EXCEPT ![QuestionOf(tr)] = tr.sampled[QuestionOf(tr)] + 1]]
  BY DEF Asked, QuestionOf
<1> HIDE DEF b
<1>3. /\ TrainerFields \subseteq DOMAIN b
      /\ b.groups = tr.groups /\ b.rewards = tr.rewards /\ b.correct = tr.correct
      /\ b.cursor = tr.cursor /\ b.history = tr.history
      /\ b.updated = tr.updated /\ b.optSteps = tr.optSteps
      /\ b.sampled = [tr.sampled EXCEPT ![QuestionOf(tr)] = tr.sampled[QuestionOf(tr)] + 1]
  BY <1>1, <1>2 DEF TrainerFields
<1>4. Collecting(b) /\ Updated(b)
  BY <1>3 DEF TrainerSound, Collecting, Updated
<1> QED BY <1>3, <1>4 DEF TrainerSound, b

-----------------------------------------------------------------------------
(* The questions take turns.                                               *)

\* The next question after p is asked once more.
LEMMA NextRound ==
    ASSUME NEW s, NEW p \in Tasks, Round(s, p), NEW q, q = (p + 1) % NTasks
    PROVE  q \in Tasks /\ Round([s EXCEPT ![q] = s[q] + 1], q)
<1>1. NTasks \in Nat /\ NTasks > 0 /\ Tasks = 0..(NTasks - 1)
  BY FuguJobsAssumption DEF Tasks
<1>2. PICK base \in Int : s = [t \in Tasks |-> base + (IF t <= p THEN 1 ELSE 0)]
  BY DEF Round
<1> DEFINE next == [s EXCEPT ![q] = s[q] + 1]
<1>3. q = IF p = NTasks - 1 THEN 0 ELSE p + 1
  <2> DEFINE b == NTasks
  <2>1. b \in Nat \ {0} /\ p \in 0..(b - 1) /\ p \in Int
    BY <1>1
  <2> HIDE DEF b
  <2>2. p % b = p
    BY <2>1, RemainderFixed, Zenon
  <2>3. (p + 1) % b = IF p % b = b - 1 THEN 0 ELSE (p % b) + 1
    BY <2>1, NextRemainder, Zenon
  <2>4. (p + 1) % b = IF p = b - 1 THEN 0 ELSE p + 1
    BY <2>2, <2>3, Zenon
  <2> QED BY <2>4 DEF b
<1>4. q \in Tasks
  BY <1>1, <1>3
<1>5. next = [t \in Tasks |-> IF t = q THEN s[q] + 1 ELSE s[t]]
  BY <1>2, <1>4
<1>6. CASE p = NTasks - 1
  <2>1. q = 0 /\ base + 1 \in Int
    BY <1>3, <1>6
  <2>2. \A t \in Tasks : s[t] = base + 1
    BY <1>1, <1>2, <1>6
  <2>3. \A t \in Tasks : next[t] = (base + 1) + (IF t <= q THEN 1 ELSE 0)
    BY <1>1, <1>4, <1>5, <2>1, <2>2
  <2> HIDE DEF next
  <2>4. next = [t \in Tasks |-> (base + 1) + (IF t <= q THEN 1 ELSE 0)]
    BY <1>5, <2>3
  <2> QED BY <1>4, <2>1, <2>4 DEF Round, next
<1>7. CASE p # NTasks - 1
  <2>1. q = p + 1
    BY <1>3, <1>7
  <2>2. \A t \in Tasks : next[t] = base + (IF t <= q THEN 1 ELSE 0)
    BY <1>1, <1>2, <1>4, <1>5, <2>1
  <2> HIDE DEF next
  <2>3. next = [t \in Tasks |-> base + (IF t <= q THEN 1 ELSE 0)]
    BY <1>5, <2>2
  <2> QED BY <1>4, <2>3 DEF Round, next
<1> QED BY <1>6, <1>7

LEMMA RoundIsFair ==
    ASSUME NEW s, NEW p, Round(s, p), NEW t \in Tasks, NEW u \in Tasks
    PROVE  s[t] - s[u] <= 1
BY DEF Round, Tasks

\* While the loop runs, the last question asked is the one that is collected.
Turns ==
    /\ trainer.cursor \in Tasks
    /\ \E p \in Tasks : /\ Round(trainer.sampled, p)
                        /\ job # "evaluate" /\ result = "running" => p = QuestionOf(trainer)

LEMMA QuestionTurns ==
    ASSUME NEW c \in Tasks, NEW n \in Nat, NEW m \in Nat
    PROVE  /\ (c + n) % NTasks \in Tasks
           /\ (c + (n + 1)) % NTasks = (((c + n) % NTasks) + 1) % NTasks
           /\ (((c + m) % NTasks) + n) % NTasks = (c + (m + n)) % NTasks
<1>1. NTasks \in Nat \ {0} /\ Tasks = 0..(NTasks - 1) /\ c \in Int
  BY FuguJobsAssumption DEF Tasks
<1> DEFINE a == c + n
           b == c + m
<1>2. a \in Int /\ b \in Int /\ c + (n + 1) = a + 1 /\ c + (m + n) = b + n
  BY <1>1
<1> HIDE DEF a, b
<1>3. a % NTasks \in 0..(NTasks - 1)
  BY <1>1, <1>2, DivMod
<1>4. ((a % NTasks) + 1) % NTasks = (a + 1) % NTasks
  <2>1. 1 \in Int
    OBVIOUS
  <2> QED BY <1>1, <1>2, <2>1, RemainderShifted, Zenon
<1>5. ((b % NTasks) + n) % NTasks = (b + n) % NTasks
  <2>1. n \in Int
    OBVIOUS
  <2> QED BY <1>1, <1>2, <2>1, RemainderShifted, Zenon
<1> QED BY <1>1, <1>2, <1>3, <1>4, <1>5 DEF a, b

-----------------------------------------------------------------------------
\* Between two answers of train() no group is full, and no batch.
Learning ==
    /\ TrainerSound(trainer) /\ Turns
    /\ Len(trainer.rewards) < GroupSize /\ Len(trainer.groups) < QuestionsPerIter

\* What the loop does when it goes on with the next question, or returns.
LEMMA GoOnTurns ==
    ASSUME NEW next, NEW more \in BOOLEAN, TrainerSound(next),
           next.rewards = <<>>, Len(next.groups) < QuestionsPerIter,
           next.cursor \in Tasks, NEW p \in Tasks, Round(next.sampled, p),
           more => QuestionOf(next) = (p + 1) % NTasks, GoOn(next, more)
    PROVE  Learning'
<1>1. Len(<<>>) = 0 /\ 0 < GroupSize
  BY EmptySeq, FuguJobsAssumption
<1>2. CASE more
  <2> DEFINE q == QuestionOf(next)
             b == Asked(next)
  <2>1. trainer' = b
    BY <1>2 DEF GoOn
  <2>2. /\ TrainerSound(b) /\ b.rewards = <<>> /\ b.groups = next.groups /\ b.cursor = next.cursor
        /\ b.sampled = [next.sampled EXCEPT ![q] = next.sampled[q] + 1]
    BY AskedSound
  <2>3. q = (p + 1) % NTasks
    BY <1>2
  <2>4. QuestionOf(b) = q
    BY <2>2 DEF QuestionOf
  <2> HIDE DEF b, q
  <2>5. q \in Tasks /\ Round(b.sampled, q)
    BY <2>2, <2>3, NextRound
  <2>6. QuestionOf(trainer') = q
    BY <2>1, <2>4
  <2>7. Turns'
    BY <2>1, <2>2, <2>5, <2>6 DEF Turns
  <2> QED BY <1>1, <2>1, <2>2, <2>7 DEF Learning
<1>3. CASE ~more
  <2>1. trainer' = next /\ result' = "returned"
    BY <1>3 DEF GoOn
  <2>2. Turns'
    BY <2>1 DEF Turns
  <2> QED BY <1>1, <2>1, <2>2 DEF Learning
<1> QED BY <1>2, <1>3

LEMMA ScoreLearns ==
    ASSUME Learning, job # "evaluate", result = "running", NEW t \in Tasks, NEW r, Score(t, r)
    PROVE  Learning'
<1> DEFINE tr == Collected(r)
           grouped == GroupDone(tr)
           batch == BatchDone(grouped)
           n == Len(trainer.groups)
<1>1. /\ TrainerSound(tr) /\ Len(tr.rewards) = Len(trainer.rewards) + 1
      /\ tr.groups = trainer.groups /\ tr.cursor = trainer.cursor /\ tr.sampled = trainer.sampled
  BY CollectedSound DEF Learning
<1>2. /\ trainer.cursor \in Tasks /\ QuestionOf(trainer) \in Tasks
      /\ Round(trainer.sampled, QuestionOf(trainer))
  BY DEF Learning, Turns
<1>3. n \in Nat /\ n < QuestionsPerIter /\ Len(trainer.rewards) \in Nat
      /\ Len(trainer.rewards) < GroupSize
  BY LenProperties DEF Learning, TrainerSound, Collecting, Whole
<1>4. GroupSize \in Nat /\ QuestionsPerIter \in Nat /\ QuestionsPerIter > 0 /\ Len(<<>>) = 0
  BY FuguJobsAssumption, EmptySeq
<1>5. \/ GoOn(CapExceeded(tr), FALSE)
      \/ /\ ~(Len(tr.rewards) >= GroupSize) /\ trainer' = tr /\ UNCHANGED result
      \/ Len(tr.rewards) >= GroupSize /\ Len(grouped.groups) < QuestionsPerIter /\ GoOn(grouped, TRUE)
      \/ /\ Len(tr.rewards) >= GroupSize /\ Len(grouped.groups) >= QuestionsPerIter
         /\ GoOn(batch, batch.it < Iterations)
  BY DEF Score
<1> DEFINE more == batch.it < Iterations
<1>6. Len(tr.rewards) >= GroupSize => Len(tr.rewards) = GroupSize
  BY <1>1, <1>3, <1>4
<1> HIDE DEF tr
<1>7. Len(tr.rewards) >= GroupSize =>
        /\ TrainerSound(grouped) /\ grouped.rewards = <<>> /\ Len(grouped.groups) = n + 1
        /\ grouped.cursor = trainer.cursor /\ grouped.sampled = trainer.sampled
  BY <1>1, <1>6, GroupDoneSound
<1> HIDE DEF grouped
<1>8. QuestionOf(trainer) = (trainer.cursor + n) % NTasks
  BY DEF QuestionOf
<1> DEFINE p == QuestionOf(trainer)
<1> HIDE DEF n, p, more, batch
<1>9. (trainer.cursor + (n + 1)) % NTasks = (p + 1) % NTasks
  <2> DEFINE c == trainer.cursor
             z == 0
  <2>1. c \in Tasks /\ n \in Nat /\ z \in Nat /\ p = (c + n) % NTasks
    BY <1>2, <1>3, <1>8 DEF p
  <2> HIDE DEF c, z
  <2>2. (c + (n + 1)) % NTasks = (((c + n) % NTasks) + 1) % NTasks
    BY <2>1, QuestionTurns, Zenon
  <2> QED BY <2>1, <2>2 DEF c
<1>10. p \in Tasks /\ Round(trainer.sampled, p)
  BY <1>2 DEF p
<1>11. CASE GoOn(CapExceeded(tr), FALSE)
  <2> DEFINE next == CapExceeded(tr)
  <2>1. /\ TrainerSound(next) /\ next.rewards = <<>> /\ next.groups = <<>>
        /\ next.cursor = trainer.cursor /\ next.sampled = trainer.sampled
    BY <1>1, CapExceededSound
  <2>2. GoOn(next, FALSE) /\ FALSE \in BOOLEAN
    BY <1>11
  <2> HIDE DEF next
  <2> QED BY <1>2, <1>4, <1>10, <2>1, <2>2, GoOnTurns
<1>12. CASE ~(Len(tr.rewards) >= GroupSize) /\ trainer' = tr /\ UNCHANGED result
  <2>1. Len(tr.rewards) < GroupSize /\ QuestionOf(tr) = p
    BY <1>1, <1>3, <1>4, <1>12 DEF QuestionOf, p
  <2>2. Turns'
    BY <1>1, <1>2, <1>10, <1>12, <2>1 DEF Turns
  <2> QED BY <1>1, <1>3, <1>12, <2>1, <2>2 DEF Learning, n
<1>13. CASE /\ Len(tr.rewards) >= GroupSize /\ Len(grouped.groups) < QuestionsPerIter
            /\ GoOn(grouped, TRUE)
  <2>1. QuestionOf(grouped) = (p + 1) % NTasks
    BY <1>7, <1>9, <1>13 DEF QuestionOf
  <2>2. TRUE \in BOOLEAN
    OBVIOUS
  <2> QED BY <1>2, <1>7, <1>10, <1>13, <2>1, <2>2, GoOnTurns
<1>14. CASE /\ Len(tr.rewards) >= GroupSize /\ Len(grouped.groups) >= QuestionsPerIter
            /\ GoOn(batch, more)
  <2>1. Len(grouped.groups) = QuestionsPerIter /\ QuestionsPerIter = n + 1
    BY <1>3, <1>4, <1>7, <1>14
  <2>2. /\ TrainerSound(batch) /\ batch.rewards = <<>> /\ batch.groups = <<>>
        /\ batch.cursor = (trainer.cursor + QuestionsPerIter) % NTasks
        /\ batch.sampled = trainer.sampled
    BY <1>7, <1>14, <2>1, BatchDoneSound DEF batch
  <2>3. batch.cursor \in Tasks /\ QuestionOf(batch) = (p + 1) % NTasks
    <3> DEFINE c == trainer.cursor
               m == n + 1
               z == 0
    <3>1. c \in Tasks /\ m \in Nat /\ z \in Nat /\ m + z = n + 1
      BY <1>2, <1>3
    <3>2. batch.cursor = (c + m) % NTasks /\ QuestionOf(batch) = (((c + m) % NTasks) + z) % NTasks
      BY <1>4, <2>1, <2>2 DEF QuestionOf
    <3>3. (c + (n + 1)) % NTasks = (p + 1) % NTasks
      BY <1>9
    <3> HIDE DEF c, m, z
    <3>4. (c + m) % NTasks \in Tasks /\ (((c + m) % NTasks) + z) % NTasks = (c + (m + z)) % NTasks
      BY <3>1, QuestionTurns, Zenon
    <3> QED BY <3>1, <3>2, <3>3, <3>4
  <2>4. more \in BOOLEAN
    BY DEF more
  <2> QED BY <1>4, <1>10, <1>14, <2>2, <2>3, <2>4, GoOnTurns
<1> QED BY <1>5, <1>11, <1>12, <1>13, <1>14 DEF more

LEMMA InitLearning == Init => Learning
<1> SUFFICES ASSUME Init PROVE Learning
  OBVIOUS
<1>1. NTasks \in Nat /\ NTasks > 0 /\ Tasks = 0..(NTasks - 1) /\ 0 \in Tasks
  BY FuguJobsAssumption DEF Tasks
<1> DEFINE first == IF job = "evaluate" THEN 0 ELSE 1
<1>2. /\ TrainerFields \subseteq DOMAIN trainer
      /\ trainer.cursor = 0 /\ trainer.groups = <<>> /\ trainer.rewards = <<>>
      /\ trainer.correct = 0 /\ trainer.history = <<>> /\ trainer.updated = <<>>
      /\ trainer.sampled = [t \in Tasks |-> IF t = 0 THEN first ELSE 0]
  <2>1. trainer = [TrainerStart EXCEPT !.sampled = [TrainerStart.sampled EXCEPT ![0] = first]]
    BY DEF Init
  <2>2. [TrainerStart.sampled EXCEPT ![0] = first] = [t \in Tasks |-> IF t = 0 THEN first ELSE 0]
    BY <1>1 DEF TrainerStart
  <2> HIDE DEF first
  <2> QED BY <2>1, <2>2 DEF TrainerStart, TrainerFields
<1>3. TrainerSound(trainer)
  <2>1. <<>> \in Seq(Record)
    BY EmptySeq
  <2> QED BY <1>2, <2>1, NothingCollected DEF TrainerSound, Collecting, Updated
<1>4. Turns
  <2>1. CASE job = "evaluate"
    <3> DEFINE b == -1
               p == NTasks - 1
    <3>1. p \in Tasks /\ b \in Int
      BY <1>1
    <3>2. \A t \in Tasks : (IF t = 0 THEN first ELSE 0) = b + (IF t <= p THEN 1 ELSE 0)
      BY <1>1, <2>1
    <3>3. Round(trainer.sampled, p)
      BY <1>2, <3>1, <3>2 DEF Round
    <3> QED BY <1>1, <1>2, <2>1, <3>1, <3>3 DEF Turns
  <2>2. CASE job # "evaluate"
    <3> DEFINE b == 0
    <3>1. b \in Int /\ \A t \in Tasks : (IF t = 0 THEN first ELSE 0) = b + (IF t <= 0 THEN 1 ELSE 0)
      BY <1>1, <2>2
    <3> HIDE DEF b
    <3>2. Round(trainer.sampled, 0)
      BY <1>2, <3>1 DEF Round
    <3>3. QuestionOf(trainer) = 0
      <4>1. QuestionOf(trainer) = (0 + 0) % NTasks
        BY <1>2, EmptySeq DEF QuestionOf
      <4>2. 0 % NTasks = 0
        BY <1>1, RemainderFixed
      <4> QED BY <4>1, <4>2
    <3> QED BY <1>1, <1>2, <3>2, <3>3 DEF Turns
  <2> QED BY <2>1, <2>2
<1> QED BY <1>2, <1>3, <1>4, EmptySeq, FuguJobsAssumption DEF Learning

LEMMA NextLearning == Inv /\ Learning /\ [Next]_vars => Learning'
<1> SUFFICES ASSUME Inv, Learning, [Next]_vars PROVE Learning'
  OBVIOUS
<1>1. ASSUME UNCHANGED <<job, trainer>>, result' = "running" => result = "running"
      PROVE  Learning'
  <2>1. Turns'
    BY <1>1 DEF Learning, Turns
  <2> QED BY <1>1, <2>1 DEF Learning
<1>2. ASSUME NEW t \in Tasks, ProposalReturns(t) \/ WorkerReturns(t) PROVE Learning'
  <2>1. result = "running"
    BY <1>2 DEF ProposalReturns, WorkerReturns
  <2>2. PICK r : Resume(t, r)
    BY <1>2, AnswerGoes
  <2>3. CASE ~Finished(r)
    BY <1>1, <2>1, <2>2, <2>3 DEF Resume
  <2>4. CASE Finished(r) /\ job = "evaluate"
    BY <1>1, <2>1, <2>2, <2>4 DEF Resume, Vote
  <2>5. CASE Finished(r) /\ job # "evaluate"
    BY <2>1, <2>2, <2>5, ScoreLearns DEF Resume
  <2> QED BY <2>3, <2>4, <2>5
<1>3. CASE UNCHANGED vars
  BY <1>1, <1>3 DEF vars
<1>4. CASE Next
  BY <1>1, <1>2, <1>4, NextCases
<1> QED BY <1>3, <1>4

LEMMA LearningHolds == Spec => []Learning
<1> QED BY InitLearning, NextLearning, Invariance, PTL DEF Spec

\* The policy is updated from whole batches of whole groups only, and its
\* optimizer moves exactly when the runs of some group differ in reward, for any
\* sizes of group, batch and accumulation; the questions take turns; and the
\* accuracy that train() returns is that of its last update, whatever the cap cut
\* off afterwards (train.py:160-262, grpo.py:43-59).
THEOREM TrainingKeepsBooks == Spec => []TrainingBooks
<1>1. Learning => TrainingBooks
  <2> SUFFICES ASSUME Learning PROVE TrainingBooks
    OBVIOUS
  <2>1. \A s, t \in Tasks : trainer.sampled[s] - trainer.sampled[t] <= 1
    BY RoundIsFair DEF Learning, Turns
  <2> DEFINE u == trainer.updated
  <2>2. CASE u # <<>>
    <3>1. /\ Whole(u) /\ Len(u) = QuestionsPerIter
          /\ trainer.optSteps = OptimizerSteps(u)
          /\ LastAccuracy(trainer.history) = Cardinality(Pairs(u))
      BY <2>2 DEF Learning, TrainerSound, Updated
    <3>2. FinalAccuracy = Cardinality({x \in (1..Len(u)) \X (1..GroupSize) : u[x[1]][x[2]] = 2})
      BY <3>1 DEF FinalAccuracy, LastAccuracy, Pairs
    <3>3. \A g \in Range(u) : Len(g) = GroupSize
      BY <3>1 DEF Whole, Range
    <3>4. trainer.optSteps > 0 <=> \E g \in Range(u) : Cardinality(Range(g)) > 1
      BY <3>1, StepsIffSpread
    <3> QED BY <2>1, <3>1, <3>2, <3>3, <3>4 DEF TrainingBooks
  <2>3. CASE u = <<>>
    BY <2>1, <2>3 DEF TrainingBooks
  <2> QED BY <2>2, <2>3
<1> QED BY <1>1, LearningHolds, PTL
===============================================================================
