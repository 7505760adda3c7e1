-------------------------- MODULE EvalRunnerProofs --------------------------
(***************************************************************************)
(* Proofs about EvalRunner, for any number of commits and of commands that *)
(* outlive their client.  First the types, then what the worker waits for  *)
(* (OwnInv), then the freshness of results.                                 *)
(***************************************************************************)
EXTENDS EvalRunner, TLAPS

-----------------------------------------------------------------------------
(***************************************************************************)
(* Helpers                                                                 *)
(***************************************************************************)
LEMMA NoneIsNobody == None \notin Heads /\ \A f \in Content : f # None
  BY NoneAssumption, BoundsAssumption DEF Heads

LEMMA NoRunType == NoRun \in RunObject
  BY BoundsAssumption DEF NoRun, RunObject, Heads, ExecutionMode, Error

\* Losing sight of the own command leaves commands, none of them waited for.
LEMMA LoseOwnType ==
    ASSUME TypeOK, LoseOwn
    PROVE  /\ procs' \subseteq Command
           /\ \A c \in procs' : ~c.own /\ \E d \in procs : d.of = c.of
  <1> DEFINE A == Abandoned(Own)
  <1>1. \A c \in A : c \in Command /\ ~c.own /\ \E d \in procs : d.of = c.of
    <2> SUFFICES ASSUME NEW c \in A
                 PROVE  c \in Command /\ ~c.own /\ \E d \in procs : d.of = c.of
      OBVIOUS
    <2>1. PICK d \in Own : c = [d EXCEPT !.own = FALSE]
      BY DEF Abandoned
    <2>2. d \in procs /\ d \in Command
      BY <2>1 DEF Own, TypeOK
    <2> QED
      BY <2>1, <2>2 DEF Command
  <1>2. \A c \in procs \ Own : c \in Command /\ ~c.own
    BY DEF Own, TypeOK, Command
  <1>3. procs' \subseteq (procs \ Own) \cup A
    BY DEF LoseOwn
  <1> QED
    BY <1>1, <1>2, <1>3

\* rsync leaves one of the two files where the results are looked for.
LEMMA CopiedType ==
    ASSUME TypeOK
    PROVE  /\ Copied \in [Places -> Content \cup {None}]
           /\ file["remote"] # None => Copied["local"] = file["remote"]
  BY DEF TypeOK, Copied, Places

LEMMA LaunchType ==
    ASSUME TypeOK, NEW place \in Places, Launch(place)
    PROVE  procs' \subseteq Command
  <1>1. run.head \in Heads
    BY DEF TypeOK, RunObject
  <1>2. [place |-> place, of |-> run.head, writing |-> FALSE, own |-> TRUE] \in Command
    BY <1>1 DEF Command
  <1> QED
    BY <1>2 DEF TypeOK, Launch

LEMMA FailType ==
    ASSUME TypeOK, Fail, procs' \subseteq Command
    PROVE  TypeOK'
  BY NoRunType DEF TypeOK, Fail, Commit, Row, ScoreOf

-----------------------------------------------------------------------------
(***************************************************************************)
(* Types                                                                   *)
(***************************************************************************)
LEMMA TypeInit == Init => TypeOK
<1> SUFFICES ASSUME Init PROVE TypeOK
  OBVIOUS
<1>1. 1 \in Heads
  BY BoundsAssumption DEF Heads
<1>2. sub \in [status: {"queued", "completed", "failed"}, score: ScoreOf]
  BY DEF Init, ScoreOf
<1>3. run \in RunObject /\ pc = "idle" /\ procs = {} /\ last = None
  BY NoRunType DEF Init
<1>4. file \in [Places -> Content \cup {None}]
  BY DEF Init
<1> QED
  BY <1>1, <1>2, <1>3, <1>4 DEF Init, TypeOK

LEMMA TypeStep == TypeOK /\ [Next]_vars => TypeOK'
<1> SUFFICES ASSUME TypeOK, [Next]_vars PROVE TypeOK'
  OBVIOUS
<1> USE DEF TypeOK
<1>1. ASSUME NEW h \in Heads, Ask(h) PROVE TypeOK'
  BY <1>1 DEF Ask, ScoreOf
<1>2. ASSUME NEW c \in procs, BeginWrite(c) PROVE TypeOK'
  <2>1. c \in Command
    OBVIOUS
  <2>2. procs' \subseteq Command
    BY <1>2, <2>1 DEF BeginWrite, Command
  <2>3. [of |-> c.of, kind |-> "torn"] \in Content
    BY <2>1 DEF Command, Content
  <2>4. file' \in [Places -> Content \cup {None}]
    BY <1>2, <2>3 DEF BeginWrite
  <2> QED
    BY <1>2, <2>2, <2>4 DEF BeginWrite, jobVars, rowVars
<1>3. ASSUME NEW c \in procs, NEW rc \in {0, 1}, NEW wrote \in BOOLEAN, Exit(c, rc, wrote)
      PROVE  /\ pc' \in {"idle", "begun", "running", "copy", "decide", "check", "parse"}
             /\ run' \in RunObject
  BY <1>3 DEF Exit, RunObject
<1>4. ASSUME NEW c \in procs, NEW rc \in {0, 1}, Die(c, rc) PROVE TypeOK'
  BY <1>3, <1>4 DEF Die, jobVars, rowVars
<1>5. ASSUME NEW c \in procs, NEW kind \in {"scored", "unscored"}, NEW rc \in {0, 1},
             EndWrite(c, kind, rc)
      PROVE  TypeOK'
  <2>1. [of |-> c.of, kind |-> kind] \in Content
    BY DEF Command, Content
  <2>2. file' \in [Places -> Content \cup {None}]
    BY <1>5, <2>1 DEF EndWrite
  <2> QED
    BY <1>3, <1>5, <2>2 DEF EndWrite, jobVars, rowVars
<1>6. ASSUME NEW mode \in Modes, NEW setting \in BOOLEAN, Start(mode, setting) PROVE TypeOK'
  <2>1. run' = [head |-> head, mode |-> FirstMode(mode), fallback |-> AllowFallback(mode, setting),
                error |-> "none", rc |-> 0, wrote |-> FALSE, alone |-> (procs = {})]
    BY <1>6 DEF Start, NoRun
  <2>2. AllowFallback(mode, setting) \in BOOLEAN /\ FirstMode(mode) \in ExecutionMode
    BY DEF AllowFallback, FirstMode, ExecutionMode
  <2>3. run' \in RunObject
    BY <2>1, <2>2 DEF RunObject, Error
  <2> QED
    BY <1>6, <2>3 DEF Start, jobVars, rowVars
<1>7. CASE NoCheckpoint
  BY <1>7, FailType DEF NoCheckpoint
<1>8. CASE Connect
  <2>1. procs' \subseteq Command
    BY <1>8, LaunchType DEF Connect, Places
  <2> QED
    BY <1>8, <2>1 DEF Connect, jobVars, rowVars
<1>9. CASE ConnectFails
  BY <1>9 DEF ConnectFails, jobVars, rowVars, RunObject, Error
<1>10. CASE StartLocal
  <2>1. procs' \subseteq Command
    BY <1>10, LaunchType DEF StartLocal, Places
  <2> QED
    BY <1>10, <2>1 DEF StartLocal, jobVars, rowVars
<1>11. CASE Disconnect
  <2>1. procs' \subseteq Command
    BY <1>11, LoseOwnType DEF Disconnect
  <2> QED
    BY <1>11, <2>1 DEF Disconnect, jobVars, rowVars, RunObject
<1>12. CASE Timeout
  <2>1. procs' \subseteq Command
    BY <1>12, LoseOwnType DEF Timeout
  <2>2. CASE Fail
    BY <2>1, <2>2, FailType
  <2>3. CASE ~Fail
    BY <1>12, <2>1, <2>3 DEF Timeout, jobVars, rowVars, RunObject, Error
  <2> QED
    BY <2>2, <2>3
<1>13. CASE CopyBack
  BY <1>13, CopiedType DEF CopyBack, jobVars, rowVars, RunObject, Error
<1>14. CASE CopyFails
  BY <1>14, CopiedType DEF CopyFails, jobVars, rowVars, RunObject, Error
<1>15. CASE RemoteSucceeded
  BY <1>15 DEF RemoteSucceeded, jobVars, rowVars
<1>16. CASE GiveUp
  BY <1>16, FailType DEF GiveUp
<1>17. CASE FallBack
  <2>1. procs' \subseteq Command
    BY <1>17, LaunchType DEF FallBack, Places
  <2> QED
    BY <1>17, <2>1 DEF FallBack, jobVars, rowVars, RunObject, ExecutionMode
<1>18. CASE LocalFails
  BY <1>18, FailType DEF LocalFails
<1>19. CASE LocalEnds
  BY <1>19 DEF LocalEnds, jobVars, rowVars
<1>20. CASE ParseMissing
  BY <1>20, FailType DEF ParseMissing
<1>21. CASE ParseTorn
  BY <1>21, NoRunType DEF ParseTorn, Raise
<1>22. CASE Parse
  <2> DEFINE f == file["local"]
  <2>1. f \in Content
    BY <1>22 DEF Parse, Places
  <2>2. f.of \in ScoreOf /\ (IF f.kind = "scored" THEN f.of ELSE None) \in ScoreOf
    BY <2>1 DEF Content, ScoreOf
  <2> QED
    BY <1>22, <2>2, NoRunType DEF Parse, Commit, Row
<1>23. CASE Crash
  BY <1>23, LoseOwnType, NoRunType DEF Crash, jobVars, rowVars
<1>24. CASE UNCHANGED vars
  BY <1>24 DEF vars, jobVars, rowVars
<1> QED
  BY <1>1, <1>2, <1>4, <1>5, <1>6, <1>7, <1>8, <1>9, <1>10, <1>11, <1>12, <1>13, <1>14,
     <1>15, <1>16, <1>17, <1>18, <1>19, <1>20, <1>21, <1>22, <1>23, <1>24
  DEF Next, Commands, Worker, LocalStep

\* Rows, files, commands and the worker's state stay well formed.
THEOREM TypeCorrect == Spec => []TypeOK
  BY TypeInit, TypeStep, PTL DEF Spec

-----------------------------------------------------------------------------
(***************************************************************************)
(* What the worker waits for                                               *)
(***************************************************************************)
LEMMA OwnStep ==
    ASSUME TypeOK, OwnInv, [Next]_vars
    PROVE  OwnInv'
<1> USE DEF OwnInv
<1>1. ASSUME NEW c \in procs, BeginWrite(c) PROVE OwnInv'
  <2> DEFINE w == [c EXCEPT !.writing = TRUE]
  <2>1. w.own = c.own /\ w.of = c.of
    BY DEF TypeOK, Command
  <2>2. procs' = (procs \ {c}) \cup {w} /\ pc' = pc /\ run' = run
    BY <1>1 DEF BeginWrite
  <2> QED
    BY <2>1, <2>2
<1>2. ASSUME NEW c \in procs, NEW rc \in {0, 1}, NEW wrote \in BOOLEAN,
             Exit(c, rc, wrote), procs' = procs \ {c}
      PROVE  OwnInv'
  BY <1>2 DEF Exit
<1>3. ASSUME NEW place \in Places, Launch(place), \A c \in procs : ~c.own,
             pc' = "running", run'.head = run.head
      PROVE  OwnInv'
  <2> DEFINE l == [place |-> place, of |-> run.head, writing |-> FALSE, own |-> TRUE]
  <2>1. procs' = procs \cup {l} /\ l.own /\ l.of = run.head
    BY <1>3 DEF Launch
  <2> QED
    BY <1>3, <2>1
<1>4. pc # "running" => \A c \in procs : ~c.own
  BY DEF TypeOK, Command
<1>5. ASSUME LoseOwn PROVE OwnInv'
  BY <1>5, LoseOwnType
<1>6. ASSUME pc # "running", UNCHANGED procs PROVE OwnInv'
  BY <1>4, <1>6
<1>7. ASSUME NEW c \in procs, NEW rc \in {0, 1}, Die(c, rc) PROVE OwnInv'
  BY <1>2, <1>7 DEF Die
<1>8. ASSUME NEW c \in procs, NEW kind \in {"scored", "unscored"}, NEW rc \in {0, 1},
             EndWrite(c, kind, rc)
      PROVE  OwnInv'
  BY <1>2, <1>8 DEF EndWrite
<1>9. CASE Connect
  BY <1>3, <1>4, <1>9 DEF Connect, Places
<1>10. CASE StartLocal
  BY <1>3, <1>4, <1>10 DEF StartLocal, Places
<1>11. CASE FallBack
  BY <1>3, <1>4, <1>11 DEF FallBack, Places, TypeOK, RunObject
<1>12. CASE Disconnect \/ Timeout \/ Crash
  BY <1>5, <1>12 DEF Disconnect, Timeout, Crash
<1>13. ASSUME NEW h \in Heads, Ask(h) PROVE OwnInv'
  BY <1>6, <1>13 DEF Ask
<1>14. ASSUME NEW mode \in Modes, NEW setting \in BOOLEAN, Start(mode, setting) PROVE OwnInv'
  BY <1>6, <1>14 DEF Start
<1>15. CASE NoCheckpoint \/ ConnectFails \/ CopyBack \/ CopyFails \/ RemoteSucceeded \/ GiveUp
  BY <1>6, <1>15 DEF NoCheckpoint, ConnectFails, CopyBack, CopyFails, RemoteSucceeded, GiveUp
<1>16. CASE LocalFails \/ LocalEnds \/ ParseMissing \/ ParseTorn \/ Parse
  BY <1>6, <1>16 DEF LocalFails, LocalEnds, ParseMissing, ParseTorn, Parse, Raise
<1>17. CASE UNCHANGED vars
  BY <1>17 DEF vars
<1> QED
  BY <1>1, <1>7, <1>8, <1>9, <1>10, <1>11, <1>12, <1>13, <1>14, <1>15, <1>16, <1>17
  DEF Next, Commands, Worker, LocalStep

-----------------------------------------------------------------------------
(***************************************************************************)
(* The freshness of results                                                *)
(***************************************************************************)
LEMMA FreshStep ==
    ASSUME TypeOK, OwnInv, FreshInv, [Next]_vars
    PROVE  FreshInv'
<1> USE DEF FreshInv
<1>1. ASSUME run' = NoRun PROVE FreshInv'
  BY <1>1 DEF NoRun
<1>2. CASE Fail
  BY <1>1, <1>2 DEF Fail, Commit
<1>3. ASSUME UNCHANGED <<pc, run, file>>, procs' \subseteq procs PROVE FreshInv'
  BY <1>3 DEF Fresh
<1>4. ASSUME NEW place \in Places, Launch(place), pc' = "running",
             run'.head = run.head, run'.alone = run.alone, ~run'.wrote
      PROVE  FreshInv'
  <2>1. \A c \in procs' : c \in procs \/ c.of = run.head
    BY <1>4 DEF Launch
  <2> QED
    BY <1>4, <2>1
\* A command that writes writes what is fresh, if the run is alone.
<1>5. ASSUME NEW c \in procs, NEW kind \in {"torn", "scored", "unscored"},
             file' = [file EXCEPT ![c.place] = [of |-> c.of, kind |-> kind]], run.alone
      PROVE  /\ file'[c.place] # None /\ file'[c.place].of = run.head
             /\ \A w \in Places : Fresh(w) => file'[w] # None /\ file'[w].of = run.head
  <2>1. c \in Command /\ c.of = run.head
    BY <1>5 DEF TypeOK
  <2>2. [of |-> c.of, kind |-> kind] \in Content /\ c.place \in Places
    BY <2>1 DEF Content, Command
  <2>3. [of |-> c.of, kind |-> kind] # None
    BY <2>2, NoneIsNobody
  <2> QED
    BY <1>5, <2>1, <2>2, <2>3 DEF Fresh, TypeOK
<1>6. ASSUME NEW c \in procs, BeginWrite(c) PROVE FreshInv'
  <2> DEFINE w == [c EXCEPT !.writing = TRUE]
  <2>1. w.of = c.of
    BY DEF TypeOK, Command
  <2>2. /\ procs' = (procs \ {c}) \cup {w} /\ pc' = pc /\ run' = run
        /\ file' = [file EXCEPT ![c.place] = [of |-> c.of, kind |-> "torn"]]
    BY <1>6 DEF BeginWrite
  <2>3. run.alone => \A d \in procs' : d.of = run.head
    BY <2>1, <2>2
  <2>4. run.alone => \A v \in Places : Fresh(v) => Fresh(v)'
    BY <1>5, <2>2 DEF Fresh
  <2> QED
    BY <2>2, <2>3, <2>4 DEF Places
<1>7. ASSUME NEW c \in procs, NEW rc \in {0, 1}, Die(c, rc) PROVE FreshInv'
  <2>1. CASE c.own
    <3>1. run' = [run EXCEPT !.rc = rc, !.wrote = FALSE] /\ procs' \subseteq procs
      BY <1>7, <2>1 DEF Die, Exit
    <3>2. run'.alone = run.alone /\ run'.head = run.head /\ ~run'.wrote
      BY <3>1 DEF TypeOK, RunObject
    <3> QED
      BY <3>1, <3>2
  <2>2. CASE ~c.own
    BY <1>3, <1>7, <2>2 DEF Die, Exit
  <2> QED
    BY <2>1, <2>2
<1>8. ASSUME NEW c \in procs, NEW kind \in {"scored", "unscored"}, NEW rc \in {0, 1},
             EndWrite(c, kind, rc)
      PROVE  FreshInv'
  <2>1. /\ procs' \subseteq procs /\ Exit(c, rc, TRUE)
        /\ file' = [file EXCEPT ![c.place] = [of |-> c.of, kind |-> kind]]
    BY <1>8 DEF EndWrite
  <2>2. CASE c.own
    <3>1. /\ run'.alone = run.alone /\ run'.head = run.head
          /\ pc' = IF c.place = "remote" THEN "copy" ELSE "check"
      BY <2>1, <2>2 DEF Exit, TypeOK, RunObject
    <3>2. run.alone => Fresh(c.place)'
      BY <1>5, <2>1, <3>1 DEF Fresh
    <3>3. c.place \in {"remote", "local"}
      BY DEF TypeOK, Command, Places
    <3> QED
      BY <2>1, <3>1, <3>2, <3>3
  <2>3. CASE ~c.own
    <3>1. pc' = pc /\ run' = run
      BY <2>1, <2>3 DEF Exit
    <3>2. run.alone => \A v \in Places : Fresh(v) => Fresh(v)'
      BY <1>5, <2>1, <3>1 DEF Fresh
    <3> QED
      BY <2>1, <3>1, <3>2 DEF Places
  <2> QED
    BY <2>2, <2>3
<1>9. ASSUME NEW h \in Heads, Ask(h) PROVE FreshInv'
  BY <1>3, <1>9 DEF Ask
<1>10. ASSUME NEW mode \in Modes, NEW setting \in BOOLEAN, Start(mode, setting) PROVE FreshInv'
  BY <1>10 DEF Start, NoRun
<1>11. CASE Connect
  BY <1>4, <1>11 DEF Connect, Places
<1>12. CASE StartLocal
  BY <1>4, <1>12 DEF StartLocal, Places
<1>13. CASE FallBack
  <2>1. run'.head = run.head /\ run'.alone = run.alone /\ ~run'.wrote
    BY <1>13 DEF FallBack, TypeOK, RunObject
  <2> QED
    BY <1>4, <1>13, <2>1 DEF FallBack, Places
<1>14. CASE ConnectFails
  BY <1>14 DEF ConnectFails, TypeOK, RunObject
\* Losing sight of a command changes the commit of none.
<1>15. ASSUME LoseOwn, run.alone PROVE \A c \in procs' : c.of = run.head
  BY <1>15, LoseOwnType
<1>16. CASE Disconnect
  <2>1. pc = "running" /\ pc' = "copy" /\ LoseOwn
    BY <1>16 DEF Disconnect
  <2>2. run'.alone = run.alone /\ run'.head = run.head /\ run'.wrote = run.wrote
    BY <1>16 DEF Disconnect, TypeOK, RunObject
  <2> QED
    BY <1>15, <2>1, <2>2
<1>17. CASE Timeout
  <2>1. CASE Fail
    BY <1>2, <2>1
  <2>2. CASE ~Fail
    <3>1. pc' = "decide" /\ LoseOwn
      BY <1>17, <2>2 DEF Timeout
    <3>2. run'.alone = run.alone /\ run'.head = run.head /\ run'.error = "attempt"
      BY <1>17, <2>2 DEF Timeout, TypeOK, RunObject
    <3> QED
      BY <1>15, <3>1, <3>2
  <2> QED
    BY <2>1, <2>2
<1>18. CASE CopyBack
  <2>1. /\ pc = "copy" /\ pc' = "decide" /\ procs' = procs /\ file' = Copied
        /\ run' \in {run, [run EXCEPT !.error = "attempt"]}
    BY <1>18 DEF CopyBack
  <2>2. run'.alone = run.alone /\ run'.head = run.head /\ run'.wrote = run.wrote
    BY <2>1 DEF TypeOK, RunObject
  <2>3. run.alone /\ run.wrote => Copied["local"] # None /\ Copied["local"].of = run.head
    BY <2>1, CopiedType DEF Fresh
  <2> QED
    BY <2>1, <2>2, <2>3 DEF Fresh
<1>19. CASE CopyFails
  <2>1. pc' = "decide" /\ procs' = procs
    BY <1>19 DEF CopyFails
  <2>2. run'.alone = run.alone /\ run'.head = run.head /\ run'.error = "attempt"
    BY <1>19 DEF CopyFails, TypeOK, RunObject
  <2> QED
    BY <2>1, <2>2
<1>20. CASE RemoteSucceeded \/ LocalEnds
  BY <1>20 DEF RemoteSucceeded, LocalEnds, Fresh
<1>21. CASE NoCheckpoint \/ GiveUp \/ LocalFails \/ ParseMissing
  BY <1>2, <1>21 DEF NoCheckpoint, GiveUp, LocalFails, ParseMissing
<1>22. CASE ParseTorn \/ Parse \/ Crash
  BY <1>1, <1>22 DEF ParseTorn, Raise, Parse, Commit, Crash
<1>23. CASE UNCHANGED vars
  BY <1>3, <1>23 DEF vars, jobVars, rowVars
<1> QED
  BY <1>6, <1>7, <1>8, <1>9, <1>10, <1>11, <1>12, <1>13, <1>14, <1>16, <1>17, <1>18, <1>19,
     <1>20, <1>21, <1>22, <1>23
  DEF Next, Commands, Worker, LocalStep

-----------------------------------------------------------------------------
(***************************************************************************)
(* What is committed                                                       *)
(***************************************************************************)
Committed == CompletedHasResults /\ CleanRunIsOwn

LEMMA CommittedStep ==
    ASSUME TypeOK, FreshInv, Committed, [Next]_vars
    PROVE  Committed'
<1> USE DEF Committed, CompletedHasResults, CleanRunIsOwn
<1>1. ASSUME last' = last \/ last' = None PROVE Committed'
  BY <1>1
<1>2. CASE Fail
  BY <1>2 DEF Fail, Commit
<1>3. CASE Parse
  <2> DEFINE f == file["local"]
  <2>1. f \in Content /\ f # None /\ pc = "parse"
    BY <1>3 DEF Parse, TypeOK, Places
  <2>2. f.of # None
    BY <2>1, NoneIsNobody DEF Content
  <2>3. run.wrote /\ run.alone => f.of = run.head
    BY <2>1 DEF FreshInv, Fresh
  <2>4. last'.run = run /\ last'.status = "completed" /\ last'.of = f.of
    BY <1>3 DEF Parse, Commit
  <2> QED
    BY <2>2, <2>3, <2>4
<1>4. ASSUME NEW h \in Heads, Ask(h) PROVE Committed'
  BY <1>1, <1>4 DEF Ask
<1>5. ASSUME NEW c \in procs, BeginWrite(c) PROVE Committed'
  BY <1>1, <1>5 DEF BeginWrite, rowVars
<1>6. ASSUME NEW c \in procs, NEW rc \in {0, 1}, Die(c, rc) PROVE Committed'
  BY <1>1, <1>6 DEF Die, rowVars
<1>7. ASSUME NEW c \in procs, NEW kind \in {"scored", "unscored"}, NEW rc \in {0, 1},
             EndWrite(c, kind, rc)
      PROVE  Committed'
  BY <1>1, <1>7 DEF EndWrite, rowVars
<1>8. ASSUME NEW mode \in Modes, NEW setting \in BOOLEAN, Start(mode, setting) PROVE Committed'
  BY <1>1, <1>8 DEF Start, rowVars
<1>9. CASE Connect \/ ConnectFails \/ StartLocal \/ FallBack \/ RemoteSucceeded \/ LocalEnds
  BY <1>1, <1>9 DEF Connect, ConnectFails, StartLocal, FallBack, RemoteSucceeded, LocalEnds, rowVars
<1>10. CASE CopyBack \/ CopyFails \/ Disconnect \/ Crash \/ ParseTorn
  BY <1>1, <1>10 DEF CopyBack, CopyFails, Disconnect, Crash, ParseTorn, Raise, rowVars
<1>11. CASE Timeout
  BY <1>1, <1>2, <1>11 DEF Timeout, rowVars
<1>12. CASE NoCheckpoint \/ GiveUp \/ LocalFails \/ ParseMissing
  BY <1>2, <1>12 DEF NoCheckpoint, GiveUp, LocalFails, ParseMissing
<1>13. CASE UNCHANGED vars
  BY <1>1, <1>13 DEF vars, rowVars
<1> QED
  BY <1>3, <1>4, <1>5, <1>6, <1>7, <1>8, <1>9, <1>10, <1>11, <1>12, <1>13
  DEF Next, Commands, Worker, LocalStep

-----------------------------------------------------------------------------
(***************************************************************************)
(* The invariant, and what follows from it                                 *)
(***************************************************************************)
LEMMA InvInit == Init => IInv
<1> SUFFICES ASSUME Init PROVE IInv
  OBVIOUS
<1>1. TypeOK
  BY TypeInit
<1>2. OwnInv /\ FreshInv
  BY DEF Init, OwnInv, FreshInv, NoRun
<1>3. CompletedHasResults /\ CleanRunIsOwn
  BY DEF Init, CompletedHasResults, CleanRunIsOwn
<1> QED
  BY <1>1, <1>2, <1>3 DEF IInv

LEMMA InvStep == IInv /\ [Next]_vars => IInv'
  BY TypeStep, OwnStep, FreshStep, CommittedStep DEF IInv, Committed

LEMMA Invariance == Spec => []IInv
  BY InvInit, InvStep, PTL DEF Spec

\* A completed run had a results file, whatever failed, fell back or was retried.
THEOREM ResultsExist == Spec => []CompletedHasResults
<1>1. IInv => CompletedHasResults
  BY DEF IInv
<1> QED
  BY <1>1, Invariance, PTL

\* A run that began alone, and whose last command left results, reports the
\* results of its own commit.
THEOREM CleanRunsAreOwn == Spec => []CleanRunIsOwn
<1>1. IInv => CleanRunIsOwn
  BY DEF IInv
<1> QED
  BY <1>1, Invariance, PTL
=============================================================================
