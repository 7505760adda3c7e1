------------------------------ MODULE EvalRunner ------------------------------
(***************************************************************************)
(* evaluate_submission: one worker evaluates one submission, again and     *)
(* again as its head commit changes, through a command that runs on the    *)
(* GPU box or on this machine and leaves results.json in a workspace named *)
(* after the submission.                                                   *)
(*                                                                         *)
(* What makes it hard is what survives: the two workspaces are never       *)
(* emptied, so results.json outlives the run that wrote it, and a command  *)
(* may outlive the ssh or bash process that the worker kills or loses.  A  *)
(* rollback undoes rows and never files.                                   *)
(*                                                                         *)
(* The row lock of the submission keeps evaluations of it apart (see       *)
(* ReviewPipeline), so one worker is enough here.                          *)
(***************************************************************************)
EXTENDS Integers, FiniteSets

CONSTANTS
    None,         \* no file, no score
    Modes,        \* values of Settings.eval_execution_mode
    MaxHead,      \* bound: commits of the submission
    MaxAbandoned  \* bound: commands that outlive their client at one time

ASSUME BoundsAssumption == MaxHead \in Nat \ {0} /\ MaxAbandoned \in Nat
ASSUME ModesAssumption == Modes \subseteq {"remote_gpu", "local_cpu", "auto"}

VARIABLES
    head,       \* the submission's head commit
    queued,     \* whether the evaluation job is queued
    sub,        \* the committed submission row: status and score
    last,       \* the committed evaluation row that latest_eval_id names
    pc,         \* where the worker is in evaluate_submission
    run,        \* the EvaluationRun object and the locals of the call
    file,       \* results.json in each workspace
    procs       \* evaluation commands that are alive

jobVars == <<head, queued>>
rowVars == <<sub, last>>
vars == <<jobVars, rowVars, pc, run, file, procs>>

-----------------------------------------------------------------------------
Places == {"remote", "local"}
Heads == 1..MaxHead

\* What results.json holds: the result of a commit, with or without a number
\* that the result pointer and _extract_score find, or a file cut short.
Content == [of: Heads, kind: {"scored", "unscored", "torn"}]

ASSUME NoneAssumption == None \notin Int \cup Content

\* A command: where it runs, the commit it evaluates, whether it has begun to
\* write its results, and whether the worker waits for it.
Command == [place: Places, of: Heads, writing: BOOLEAN, own: BOOLEAN]

\* A score is named by the commit that was evaluated to get it.
ScoreOf == Heads \cup {None}

ExecutionMode == {"remote_gpu", "local_cpu", "local_fallback"}
Error == {"none", "attempt", "connection"}

\* fallback is the effective policy and rc the exit status of the last command (0
\* or not).  Two fields record history for the properties: wrote says that this
\* command left its results, alone that no command of an earlier evaluation was
\* alive when this one began.
RunObject == [head: Heads, mode: ExecutionMode, fallback: BOOLEAN, error: Error,
              rc: {0, 1}, wrote: BOOLEAN, alone: BOOLEAN]
Row == [run: RunObject, status: {"completed", "failed"}, of: ScoreOf, score: ScoreOf]

NoRun == [head |-> 1, mode |-> "local_cpu", fallback |-> FALSE, error |-> "none",
          rc |-> 0, wrote |-> FALSE, alone |-> FALSE]

\* process_once takes away the local fallback in the mode "remote_gpu", whatever
\* the setting says.
AllowFallback(mode, setting) == mode # "remote_gpu" /\ setting
FirstMode(mode) == IF mode # "local_cpu" THEN "remote_gpu" ELSE "local_cpu"

Init ==
    /\ head = 1 /\ queued = FALSE
    /\ sub = [status |-> "queued", score |-> None]
    /\ last = None
    /\ pc = "idle" /\ run = NoRun
    /\ file = [w \in Places |-> None]
    /\ procs = {}

-----------------------------------------------------------------------------
(***************************************************************************)
(* The requests, as the webhook makes them                                 *)
(***************************************************************************)
\* A delivery queues the submission again, for its head or for a newer one, and
\* forgets its result; it waits while the submission's row is locked.
Ask(h) ==
    /\ pc = "idle"
    /\ head' = h
    /\ queued' = TRUE
    /\ sub' = [status |-> "queued", score |-> None] /\ last' = None
    /\ UNCHANGED <<pc, run, file, procs>>

-----------------------------------------------------------------------------
(***************************************************************************)
(* The evaluation commands                                                 *)
(***************************************************************************)
Own == {c \in procs : c.own}
Abandoned(cs) == {[c EXCEPT !.own = FALSE] : c \in cs}

\* The command's process is lost sight of: it dies with its terminal, or not.
LoseOwn ==
    \/ procs' = procs \ Own
    \/ /\ Cardinality((procs \ Own) \cup Abandoned(Own)) <= MaxAbandoned
       /\ procs' = (procs \ Own) \cup Abandoned(Own)

Launch(place) ==
    procs' = procs \cup {[place |-> place, of |-> run.head, writing |-> FALSE, own |-> TRUE]}

\* What the worker does when its own command has ended.
Exit(c, rc, wrote) ==
    IF c.own
    THEN /\ pc' = IF c.place = "remote" THEN "copy" ELSE "check"
         /\ run' = [run EXCEPT !.rc = rc, !.wrote = wrote]
    ELSE UNCHANGED <<pc, run>>

\* trinity.eval opens results.json, which empties it, ...
BeginWrite(c) ==
    /\ ~c.writing
    /\ procs' = (procs \ {c}) \cup {[c EXCEPT !.writing = TRUE]}
    /\ file' = [file EXCEPT ![c.place] = [of |-> c.of, kind |-> "torn"]]
    /\ UNCHANGED <<jobVars, rowVars, pc, run>>

\* ...writes it and exits; the exit status can still be an error.
EndWrite(c, kind, rc) ==
    /\ c.writing
    /\ procs' = procs \ {c}
    /\ file' = [file EXCEPT ![c.place] = [of |-> c.of, kind |-> kind]]
    /\ Exit(c, rc, TRUE)
    /\ UNCHANGED <<jobVars, rowVars>>

\* It ends before its results are there; with a template of the operator's own
\* the exit status may even be 0.
Die(c, rc) ==
    /\ procs' = procs \ {c}
    /\ Exit(c, rc, FALSE)
    /\ UNCHANGED <<jobVars, rowVars, file>>

-----------------------------------------------------------------------------
(***************************************************************************)
(* The end of an evaluation: what process_once commits                     *)
(***************************************************************************)
Commit(status, of, score) ==
    /\ last' = [run |-> run, status |-> status, of |-> of, score |-> score]
    /\ sub' = [status |-> status, score |-> score]
    /\ queued' = FALSE
    /\ pc' = "idle" /\ run' = NoRun

Fail == Commit("failed", None, None) /\ UNCHANGED <<head, file>>

\* evaluate_submission raises: the run's row is rolled back, the except branch
\* marks the rows that are left.
Raise ==
    /\ sub' = [sub EXCEPT !.status = "failed"]
    /\ queued' = FALSE
    /\ pc' = "idle" /\ run' = NoRun
    /\ UNCHANGED <<head, last, file, procs>>

-----------------------------------------------------------------------------
(***************************************************************************)
(* evaluate_submission                                                     *)
(***************************************************************************)
\* Mode and fallback are the runtime configuration that the job's poll read.
Start(mode, setting) ==
    /\ pc = "idle" /\ queued
    /\ run' = [NoRun EXCEPT !.head = head, !.mode = FirstMode(mode), !.alone = (procs = {}),
                            !.fallback = AllowFallback(mode, setting)]
    /\ pc' = "begun"
    /\ UNCHANGED <<jobVars, rowVars, file, procs>>

\* An upload without an artifact has no checkpoint.
NoCheckpoint == pc = "begun" /\ Fail /\ UNCHANGED procs

\* mkdir over ssh, rsync of the checkpoint, then the command itself.
Connect ==
    /\ pc = "begun" /\ run.mode = "remote_gpu"
    /\ Launch("remote") /\ pc' = "running"
    /\ UNCHANGED <<jobVars, rowVars, run, file>>

\* RemoteConnectionError.
ConnectFails ==
    /\ pc = "begun" /\ run.mode = "remote_gpu"
    /\ run' = [run EXCEPT !.error = "connection"] /\ pc' = "decide"
    /\ UNCHANGED <<jobVars, rowVars, file, procs>>

StartLocal ==
    /\ pc = "begun" /\ run.mode = "local_cpu"
    /\ Launch("local") /\ pc' = "running"
    /\ UNCHANGED <<jobVars, rowVars, run, file>>

\* The ssh client ends because its connection does.
Disconnect ==
    /\ pc = "running" /\ run.mode = "remote_gpu"
    /\ LoseOwn
    /\ pc' = "copy" /\ run' = [run EXCEPT !.rc = 1]
    /\ UNCHANGED <<jobVars, rowVars, file>>

\* Variant: the clock is read once, before the loop.
TimeoutUnchecked ==
    /\ pc = "running" /\ run.rc = 1
    /\ LoseOwn /\ Fail

\* eval_timeout_seconds have passed: the client is killed and TimeoutExpired is
\* raised, which fails a local attempt and is a remote error of a remote one.
Timeout ==
    /\ pc = "running"
    /\ LoseOwn
    /\ \/ /\ run.mode = "remote_gpu"
          /\ run' = [run EXCEPT !.error = "attempt"] /\ pc' = "decide"
          /\ UNCHANGED <<jobVars, rowVars, file>>
       \/ run.mode # "remote_gpu" /\ Fail

\* Variants: a workspace without results.json counts as one with an empty file;
\* rsync --ignore-existing.
CopiedBlindly ==
    [file EXCEPT !["local"] = IF file["remote"] = None THEN [kind |-> "torn"] ELSE file["remote"]]
CopiedKeepsExisting ==
    IF file["local"] = None THEN [file EXCEPT !["local"] = file["remote"]] ELSE file

\* rsync of the remote workspace deletes nothing here.
Copied == IF file["remote"] = None THEN file ELSE [file EXCEPT !["local"] = file["remote"]]

\* The remote workspace is copied back whatever the exit status was; a failed
\* command counts if results.json is there.
CopyBack ==
    /\ pc = "copy"
    /\ file' = Copied
    /\ run' = IF run.rc # 0 /\ Copied["local"] = None THEN [run EXCEPT !.error = "attempt"] ELSE run
    /\ pc' = "decide"
    /\ UNCHANGED <<jobVars, rowVars, procs>>

\* rsync fails, before or after results.json is over.
CopyFails ==
    /\ pc = "copy"
    /\ file' \in {file, Copied}
    /\ run' = [run EXCEPT !.error = "attempt"] /\ pc' = "decide"
    /\ UNCHANGED <<jobVars, rowVars, procs>>

RemoteSucceeded ==
    /\ pc = "decide" /\ run.error = "none"
    /\ pc' = "parse"
    /\ UNCHANGED <<jobVars, rowVars, run, file, procs>>

FallsBack == run.error = "attempt" /\ run.fallback

GiveUp == pc = "decide" /\ run.error # "none" /\ ~FallsBack /\ Fail /\ UNCHANGED procs

FallBack ==
    /\ pc = "decide" /\ FallsBack
    /\ run' = [run EXCEPT !.mode = "local_fallback", !.rc = 0, !.wrote = FALSE]
    /\ Launch("local") /\ pc' = "running"
    /\ UNCHANGED <<jobVars, rowVars, file>>

\* The local command has ended.
LocalFails == /\ pc = "check" /\ run.rc # 0 /\ file["local"] = None
              /\ Fail /\ UNCHANGED procs
LocalEnds ==
    /\ pc = "check" /\ (run.rc = 0 \/ file["local"] # None)
    /\ pc' = "parse"
    /\ UNCHANGED <<jobVars, rowVars, run, file, procs>>

\* _prepare_results.
ParseMissing == pc = "parse" /\ file["local"] = None /\ Fail /\ UNCHANGED procs
ParseTorn == pc = "parse" /\ file["local"] # None /\ file["local"].kind = "torn" /\ Raise

\* Variant: a missing file completes the run without a score.
ParseUnguarded ==
    /\ pc = "parse"
    /\ LET f == file["local"]
       IN  IF f = None THEN Commit("completed", None, None)
           ELSE /\ f.kind # "torn"
                /\ Commit("completed", f.of, IF f.kind = "scored" THEN f.of ELSE None)
    /\ UNCHANGED <<head, file, procs>>

Parse ==
    /\ pc = "parse" /\ file["local"] # None
    /\ LET f == file["local"]
       IN  /\ f.kind # "torn"
           /\ Commit("completed", f.of, IF f.kind = "scored" THEN f.of ELSE None)
    /\ UNCHANGED <<head, file, procs>>

\* The worker dies; its rows are rolled back and its job is still queued.
Crash ==
    /\ pc # "idle"
    /\ LoseOwn
    /\ pc' = "idle" /\ run' = NoRun
    /\ UNCHANGED <<jobVars, rowVars, file>>

-----------------------------------------------------------------------------
Commands == \E c \in procs :
    \/ BeginWrite(c)
    \/ \E rc \in {0, 1} : Die(c, rc)
    \/ \E kind \in {"scored", "unscored"}, rc \in {0, 1} : EndWrite(c, kind, rc)

\* Steps of the worker that wait for nothing without a limit: ssh and rsync are
\* run without one.
LocalStep ==
    \/ StartLocal \/ Timeout \/ RemoteSucceeded \/ GiveUp \/ FallBack
    \/ LocalFails \/ LocalEnds \/ ParseMissing \/ ParseTorn \/ Parse

Worker ==
    \/ \E mode \in Modes, setting \in BOOLEAN : Start(mode, setting)
    \/ NoCheckpoint \/ Connect \/ ConnectFails \/ CopyBack \/ CopyFails \/ LocalStep

Next == \/ \E h \in {head, head + 1} \cap Heads : Ask(h)
        \/ Commands \/ Worker \/ Disconnect \/ Crash

Spec == Init /\ [][Next]_vars

\* The worker's process goes on, and the clock with it.  Nothing is asked of the
\* commands, ssh and rsync: they may hang.
FairSpec == Spec /\ WF_vars(LocalStep)

-----------------------------------------------------------------------------
(***************************************************************************)
(* Properties                                                              *)
(***************************************************************************)
TypeOK ==
    /\ head \in Heads /\ queued \in BOOLEAN
    /\ sub \in [status: {"queued", "completed", "failed"}, score: ScoreOf]
    /\ last \in Row \cup {None}
    /\ pc \in {"idle", "begun", "running", "copy", "decide", "check", "parse"}
    /\ run \in RunObject
    /\ file \in [Places -> Content \cup {None}]
    /\ procs \subseteq Command

\* "completion now only happens for valid result payloads" (docs/JOURNAL.md): a
\* completed run had a results file, whatever failed, fell back or was retried
\* before.
CompletedHasResults ==
    last # None /\ last.status = "completed" => last.of # None

\* Results are reported for the commit that was evaluated, although the files of
\* earlier runs lie in both workspaces, whenever the last command wrote results and
\* no command of an earlier evaluation was still alive when this one began.
CleanRunIsOwn ==
    last # None /\ last.status = "completed" /\ last.run.wrote /\ last.run.alone
        => last.of = last.run.head

\* An evaluation with its command running ends, through a fallback if need be,
\* even when the commands hang: only ssh and rsync have no time limit.
CommandEnds == pc \in {"running", "decide", "check", "parse"} ~> pc \in {"idle", "copy"}

(***************************************************************************)
(* The inductive strengthening of the invariants above                     *)
(***************************************************************************)
\* The worker waits for at most one command, and only while it runs.
OwnInv ==
    /\ \A c \in procs : c.own => pc = "running" /\ c.of = run.head
    /\ \A c, d \in procs : c.own /\ d.own => c = d

Fresh(w) == file[w] # None /\ file[w].of = run.head

\* In a run that began alone every command is of its commit, and once one has
\* left results these are where the worker looks next.
FreshInv ==
    run.alone =>
        /\ \A c \in procs : c.of = run.head
        /\ pc \in {"begun", "running"} => ~run.wrote
        /\ run.wrote /\ pc = "copy" => Fresh("remote")
        /\ run.wrote /\ (pc \in {"check", "parse"} \/ (pc = "decide" /\ run.error = "none"))
              => Fresh("local")

IInv ==
    /\ TypeOK /\ OwnInv /\ FreshInv
    /\ CompletedHasResults /\ CleanRunIsOwn

(***************************************************************************)
(* What the repository's documents say, and the code does not do           *)
(***************************************************************************)
\* "missing result artifacts should be a terminal non-success state so API/PR
\* reporting does not present false-positive completions": a completed run is
\* one whose own commit left results.
CompletedIsOwn ==
    last # None /\ last.status = "completed" => last.of = last.run.head
=============================================================================
