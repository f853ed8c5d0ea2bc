---------------------- MODULE WorkspaceExecution_proofs ----------------------
(***************************************************************************)
(* Proofs about WorkspaceExecution, for any tool calls, jobs, attempts and *)
(* skills.                                                                 *)
(***************************************************************************)
EXTENDS WorkspaceExecution, TLAPS

-----------------------------------------------------------------------------
(* The inductive invariant of the calls                                    *)

\* A call that was made has a use and a job, one that was not has neither.
Asked(x) == IF x.pc = "unused" THEN x.job = 0 ELSE x.use \in Use /\ x.job \in Jobs

\* What a thread does is a step of its tool.
Fits(x) ==
  /\ x.pc \in {"load", "loaded"} => x.use.tool = "load_skill"
  /\ x.pc = "check" => x.use.tool = "write_file"
  /\ x.pc = "read" => x.use.tool = "replace_text"
  /\ x.pc = "put" => x.use.tool \in {"write_file", "replace_text"}
  /\ x.pc \in {"validate", "program", "create", "sandbox", "collect", "cleanup"} =>
       x.use.tool \in {"run_code", "run_script"}

\* No call is of a job, or of a message of the present one, still to come.
Before(x) == x.job <= job /\ (x.job = job => x.message <= message)

\* A job waits for the calls of its latest message, and for no others; a
\* call that is not waited for has outlived its job.
Latest(x) == stage = "agent" /\ x.job = job /\ x.message = message
AtWork(x) ==
  /\ x.pc = "loaded" => Latest(x)
  /\ x.pc \in InThread => Latest(x) \/ (x.job # 0 /\ result[x.job] = "stopped")

CallOK(x) == Asked(x) /\ Fits(x) /\ Before(x) /\ AtWork(x)
JobRuns == stage # "idle" => job \in Jobs /\ result[job] = "running"
\* What a job can take for its output was made by a call of its own.
MadeFor(j, file) ==
  /\ file # None /\ file.by \in Calls
  /\ calls[file.by].job = j \/ Outlived(file.by)

Control == (\A c \in Calls : CallOK(calls[c])) /\ JobRuns

CInv == TypeOK /\ Control

\* Calls and job are in order before the first job.
LEMMA InitCInv == Init => CInv
BY WorkspaceAssumption
   DEF Init, CInv, TypeOK, Control, JobRuns, CallOK, Asked, Fits, Before, AtWork, NewCall, Call,
       InThread, Over, NoFiles

(***************************************************************************)
(* What is at hand in every step.                                          *)
(***************************************************************************)
LEMMA Facts ==
  ASSUME CInv
  PROVE  /\ job \in 0..MaxJobs /\ message \in Nat /\ MaxJobs \in Nat
         /\ MaxAttempts \in Nat \ {0} /\ calls \in [Calls -> Call]
         /\ result \in [Jobs -> {"none", "running", "stopped", "interrupted", "ready", "failed"}]
         /\ files \in [Places -> File \cup {None}] /\ changed \subseteq Places
         /\ \A c \in Calls : calls[c] \in Call /\ CallOK(calls[c])
         /\ JobRuns
BY WorkspaceAssumption DEF CInv, TypeOK, Control

\* Where a call begins is told by its tool.
LEMMA FirstSteps ==
  ASSUME NEW u \in Use
  PROVE  /\ FirstStep[u.tool] \in InThread \ {"put"}
         /\ FirstStep[u.tool] = "load" => u.tool = "load_skill"
         /\ FirstStep[u.tool] = "check" => u.tool = "write_file"
         /\ FirstStep[u.tool] = "read" => u.tool = "replace_text"
         /\ FirstStep[u.tool] \in {"validate", "program"} => u.tool \in {"run_code", "run_script"}
         /\ FirstStep[u.tool] \notin {"create", "sandbox", "collect", "cleanup"}
<1>1. u.tool \in {"load_skill", "write_file", "replace_text", "run_code", "run_script"}
  BY DEF Use
<1>2. QED
  BY <1>1 DEF FirstStep, InThread

-----------------------------------------------------------------------------
(* The steps of a thread                                                   *)

\* A thread takes its call from x to y.
Moves(x, y) ==
  /\ y \in Call /\ y.use = x.use /\ y.job = x.job /\ y.message = x.message
  /\ x.pc \in InThread /\ y.pc \in InThread \cup {"loaded", "done"} /\ Fits(y)
  /\ y.pc = "loaded" => stage = "agent" /\ x.job = job

Moved(c) == \E y \in Call : calls' = [calls EXCEPT ![c] = y] /\ Moves(calls[c], y)

\* A call that raises is retried or done, and stays its own.
LEMMA RaiseMoves ==
  ASSUME CInv, NEW c \in Calls, calls[c].pc \in InThread, Raise(c)
  PROVE  Moved(c)
<1>1. calls[c] \in Call /\ calls[c].use \in Use /\ calls[c].pc # "loaded"
  BY Facts DEF CallOK, Asked, InThread
<1>2. CASE Awaited(c) /\ calls[c].attempt < MaxAttempts
  <2> DEFINE y == [calls[c] EXCEPT !.pc = FirstStep[calls[c].use.tool],
                                   !.attempt = calls[c].attempt + 1, !.failed = FALSE]
  <2>0. calls[c].attempt \in 0..MaxAttempts
    BY <1>1 DEF Call
  <2>1. calls[c].attempt + 1 \in 0..MaxAttempts /\ FirstStep[calls[c].use.tool] \in InThread
    BY <1>1, <1>2, <2>0, FirstSteps, Facts
  <2>2. /\ y \in Call /\ y.use = calls[c].use /\ y.job = calls[c].job
        /\ y.message = calls[c].message /\ y.pc = FirstStep[calls[c].use.tool]
    BY <1>1, <2>1 DEF Call
  <2>3. calls' = [calls EXCEPT ![c] = y]
    BY <1>2 DEF Raise, Failing
  <2> HIDE DEF y
  <2>4. Fits(y)
    BY <1>1, <2>2, FirstSteps DEF Fits, InThread
  <2>5. QED
    BY <1>1, <2>2, <2>3, <2>4, FirstSteps DEF Moved, Moves, InThread
<1>3. CASE ~(Awaited(c) /\ calls[c].attempt < MaxAttempts)
  <2> DEFINE y == [calls[c] EXCEPT !.pc = "done"]
  <2>1. /\ y \in Call /\ y.use = calls[c].use /\ y.job = calls[c].job
        /\ y.message = calls[c].message /\ y.pc = "done"
    BY <1>1 DEF Call, Over
  <2>2. calls' = [calls EXCEPT ![c] = y]
    BY <1>3 DEF Raise, Failing
  <2> HIDE DEF y
  <2>3. QED
    BY <2>1, <2>2 DEF Moved, Moves, Fits
<1>4. QED
  BY <1>2, <1>3

\* So does one that takes a plain step.
LEMMA StepMoves ==
  ASSUME CInv, NEW c \in Calls, calls[c].pc \in InThread, NEW pc \in InThread \cup {"loaded", "done"},
         Fits([calls[c] EXCEPT !.pc = pc]), pc = "loaded" => Awaited(c),
         NEW seen \in SUBSET Calls, NEW failed \in BOOLEAN,
         \/ Step(c, pc)
         \/ calls' = [calls EXCEPT ![c].pc = pc, ![c].seen = seen]
         \/ calls' = [calls EXCEPT ![c].pc = pc, ![c].failed = failed]
  PROVE  Moved(c)
<1>0. calls[c] \in Call
  BY Facts
<1>1. ASSUME NEW y, y \in {[calls[c] EXCEPT !.pc = pc], [calls[c] EXCEPT !.pc = pc, !.seen = seen],
                           [calls[c] EXCEPT !.pc = pc, !.failed = failed]}
      PROVE  Moves(calls[c], y) /\ y \in Call
  <2>1. /\ y \in Call /\ y.use = calls[c].use /\ y.job = calls[c].job
        /\ y.message = calls[c].message /\ y.pc = pc
    BY <1>0, <1>1, ZenonT(40) DEF Call, Over
  <2>2. Fits(y)
    BY <1>0, <2>1 DEF Fits, Call
  <2>3. QED
    BY <2>1, <2>2 DEF Moves, Awaited
<1>2. \E y : /\ calls' = [calls EXCEPT ![c] = y]
             /\ y \in {[calls[c] EXCEPT !.pc = pc], [calls[c] EXCEPT !.pc = pc, !.seen = seen],
                       [calls[c] EXCEPT !.pc = pc, !.failed = failed]}
  BY DEF Step
<1>3. QED
  BY <1>1, <1>2 DEF Moved

\* A step of a thread moves one call, or none.
LEMMA ThreadMoves ==
  ASSUME CInv, NEW c \in Calls, Thread(c)
  PROVE  Moved(c) \/ UNCHANGED calls
<1>0. calls[c] \in Call /\ Fits(calls[c]) /\ {} \in SUBSET Calls /\ TRUE \in BOOLEAN
  BY Facts DEF CallOK
<1>1. CASE LoadSkill(c)
  <2>1. calls[c].pc \in InThread /\ calls[c].use.tool = "load_skill"
    BY <1>0, <1>1 DEF LoadSkill, At, InThread, Fits
  <2>2. \A pc \in {"loaded", "done"} : Fits([calls[c] EXCEPT !.pc = pc])
    BY <1>0, <2>1 DEF Fits, Call
  <2>3. QED
    BY <1>0, <1>1, <2>1, <2>2, StepMoves DEF LoadSkill
<1>2. CASE CheckAbsent(c)
  <2>1. calls[c].pc \in InThread /\ calls[c].use.tool = "write_file"
    BY <1>0, <1>2 DEF CheckAbsent, At, InThread, Fits
  <2>2. Fits([calls[c] EXCEPT !.pc = "put"])
    BY <1>0, <2>1 DEF Fits, Call
  <2>3. QED
    BY <1>0, <1>2, <2>1, <2>2, StepMoves, RaiseMoves DEF CheckAbsent, InThread
<1>3. CASE ReadText(c)
  <2>1. calls[c].pc \in InThread /\ calls[c].use.tool = "replace_text"
    BY <1>0, <1>3 DEF ReadText, At, InThread, Fits
  <2>2. Fits([calls[c] EXCEPT !.pc = "put"])
    BY <1>0, <2>1 DEF Fits, Call
  <2>3. calls[c].use.arg \in Places
    BY <2>1, Facts DEF CallOK, Asked, Use, Places, InThread
  <2>4. files[calls[c].use.arg] # None => files[calls[c].use.arg].has \in SUBSET Calls
    BY <2>3, Facts DEF File
  <2>5. QED
    BY <1>0, <1>3, <2>1, <2>2, <2>4, StepMoves, RaiseMoves DEF ReadText, InThread
<1>4. CASE WriteText(c)
  <2>1. calls[c].pc \in InThread
    BY <1>4 DEF WriteText, At, InThread
  <2>2. Fits([calls[c] EXCEPT !.pc = "done"])
    BY <1>0 DEF Fits, Call
  <2>3. QED
    BY <1>0, <1>4, <2>1, <2>2, StepMoves, RaiseMoves DEF WriteText
<1>5. CASE Validate(c) \/ CreateSandbox(c) \/ UseSandbox(c) \/ CollectOutputs(c) \/ Cleanup(c)
           \/ ProgramEnds(c)
  <2>1. calls[c].pc \in InThread /\ calls[c].use.tool \in {"run_code", "run_script"}
    BY <1>0, <1>5
       DEF Validate, CreateSandbox, UseSandbox, CollectOutputs, Cleanup, ProgramEnds, At, InThread, Fits
  <2>2. \A pc \in {"program", "create", "sandbox", "collect", "cleanup", "done"} :
          Fits([calls[c] EXCEPT !.pc = pc])
    BY <1>0, <2>1 DEF Fits, Call
  <2>3. CASE \E pc \in {"program", "create", "sandbox", "collect", "cleanup", "done"} : Step(c, pc)
    BY <1>0, <2>1, <2>2, <2>3, StepMoves DEF InThread
  <2>4. CASE \E failed \in BOOLEAN :
               calls' = [calls EXCEPT ![c].pc = "cleanup", ![c].failed = failed]
    BY <1>0, <2>1, <2>2, <2>4, StepMoves DEF InThread
  <2>5. CASE Raise(c)
    BY <2>1, <2>5, RaiseMoves
  <2>6. QED
    BY <1>5, <2>3, <2>4, <2>5
       DEF Validate, CreateSandbox, UseSandbox, CollectOutputs, Cleanup, ProgramEnds
<1>6. CASE ProgramWrites(c)
  BY <1>6 DEF ProgramWrites
<1>7. QED
  BY <1>1, <1>2, <1>3, <1>4, <1>5, <1>6 DEF Thread

-----------------------------------------------------------------------------
(***************************************************************************)
(* The calls after a step of one thread.                                   *)
(***************************************************************************)
LEMMA MovedControl ==
  ASSUME CInv, NEW c \in Calls, Moved(c), UNCHANGED <<job, stage, result, message>>
  PROVE  Control' /\ calls' \in [Calls -> Call]
<1>1. PICK y \in Call : calls' = [calls EXCEPT ![c] = y] /\ Moves(calls[c], y)
  BY DEF Moved
<1>2. CallOK(calls[c]) /\ JobRuns
  BY Facts
<1>3. Asked(y) /\ Fits(y) /\ Before(y)
  BY <1>1, <1>2 DEF Moves, CallOK, Asked, Before, InThread
<1>4. Latest(calls[c]) \/ (calls[c].job # 0 /\ result[calls[c].job] = "stopped")
  BY <1>1, <1>2 DEF CallOK, AtWork, Moves
<1>5. y.pc = "loaded" => Latest(y)
  BY <1>1, <1>2, <1>4 DEF Moves, Latest, JobRuns
<1>6. AtWork(y)
  BY <1>1, <1>4, <1>5 DEF AtWork, Moves, Latest
<1>7. \A d \in Calls : CallOK(calls'[d])
  BY <1>1, <1>3, <1>6, Facts DEF CallOK
<1>8. (\A d \in Calls : CallOK(calls[d]))' /\ JobRuns'
  BY <1>2, <1>7 DEF CallOK, Asked, Before, AtWork, Latest, JobRuns
<1>9. QED
  BY <1>1, <1>8, Facts DEF Control

\* What a call stores is a file by a known writer.
LEMMA StoreType ==
  ASSUME CInv, NEW c \in Calls, NEW p \in Places, NEW has \in SUBSET Calls,
         Store(c, p, has) \/ UNCHANGED <<files, changed>>
  PROVE  files' \in [Places -> File \cup {None}] /\ changed' \subseteq Places
BY Facts DEF Store, File

\* The threads keep calls and job in order.
LEMMA ThreadStep == ASSUME CInv, NEW c \in Calls, Thread(c) PROVE CInv'
<1>1. UNCHANGED <<backend, jobVars>>
  BY DEF Thread, LoadSkill, CheckAbsent, ReadText, WriteText, Validate, ProgramWrites, ProgramEnds,
         CreateSandbox, UseSandbox, CollectOutputs, Cleanup
<1>2. UNCHANGED <<job, stage, result, delivered, active, message>>
  BY <1>1 DEF jobVars
<1>3. Control' /\ calls' \in [Calls -> Call]
  <2>1. CASE Moved(c)
    BY <1>2, <2>1, MovedControl
  <2>2. CASE UNCHANGED calls
    BY <1>2, <2>2, Facts
       DEF CInv, Control, CallOK, Asked, Fits, Before, AtWork, Latest, JobRuns
  <2>3. QED
    BY <2>1, <2>2, ThreadMoves
<1>4. files' \in [Places -> File \cup {None}] /\ changed' \subseteq Places
  <2>1. calls[c] \in Call
    BY Facts
  <2>2. CASE WriteText(c)
    <3>1. calls[c].use.arg \in Places /\ calls[c].seen \cup {c} \in SUBSET Calls
      BY <2>1, <2>2, Facts
         DEF WriteText, At, CallOK, Asked, Fits, Use, Places, InThread, Call
    <3>2. QED
      BY <2>2, <3>1, StoreType DEF WriteText
  <2>3. CASE ProgramWrites(c)
    BY <2>3, StoreType DEF ProgramWrites
  <2>4. CASE CollectOutputs(c)
    BY <2>4, StoreType, SMTT(20) DEF CollectOutputs, Places
  <2>5. CASE UNCHANGED <<files, changed>>
    BY <2>5, Facts
  <2>6. QED
    BY <2>2, <2>3, <2>4, <2>5
       DEF Thread, LoadSkill, CheckAbsent, ReadText, Validate, ProgramEnds, CreateSandbox, UseSandbox,
           Cleanup
<1>5. box' \in [Calls \X Attempts -> {"none", "live", "cleaned"}]
  BY DEF CInv, TypeOK, Thread, LoadSkill, CheckAbsent, ReadText, WriteText, Validate, ProgramWrites,
         ProgramEnds, CreateSandbox, UseSandbox, CollectOutputs, Cleanup
<1>6. QED
  BY <1>1, <1>2, <1>3, <1>4, <1>5 DEF CInv, TypeOK

-----------------------------------------------------------------------------
(* The steps of the job                                                    *)

\* So does a job that starts,
LEMMA StartStep == ASSUME CInv, StartJob PROVE CInv'
<1>1. job' = job + 1 /\ job' \in Jobs /\ job' \in 0..MaxJobs /\ UNCHANGED calls
  BY Facts DEF StartJob, Jobs
<1>2. /\ result' \in [Jobs -> {"none", "running", "stopped", "interrupted", "ready", "failed"}]
      /\ result'[job'] = "running" /\ \A j \in Jobs \ {job'} : result'[j] = result[j]
  BY <1>1, Facts DEF StartJob
<1>3. TypeOK'
  BY <1>1, <1>2 DEF CInv, TypeOK, StartJob, Places
<1>4. ASSUME NEW c \in Calls PROVE CallOK(calls[c])'
  <2>1. calls[c] \in Call /\ CallOK(calls[c]) /\ calls[c].job \in 0..MaxJobs
    BY Facts DEF Call
  <2>2. calls[c].job < job'
    BY <1>1, <2>1, Facts DEF CallOK, Before
  <2>3. stage = "idle"
    BY DEF StartJob
  <2>4. calls[c].pc # "loaded" /\ (calls[c].pc \in InThread => calls[c].job \in Jobs \ {job'})
    BY <2>1, <2>2, <2>3, <1>1, Facts DEF CallOK, Asked, AtWork, Latest, InThread
  <2>5. AtWork(calls[c])'
    BY <1>1, <1>2, <2>1, <2>3, <2>4 DEF CallOK, AtWork, Latest
  <2>6. QED
    BY <1>1, <2>1, <2>2, <2>5, Facts DEF CallOK, Asked, Fits, Before
<1>5. QED
  BY <1>1, <1>2, <1>3, <1>4 DEF CInv, Control, JobRuns

\* the preparation of its directory,
LEMMA PrepareStep == ASSUME CInv, ClearWorkspace \/ CopySource \/ SnapshotOutputs PROVE CInv'
<1>0. files' \in [Places -> File \cup {None}]
  <2>1. [by |-> "copy", has |-> {}] \in File
    BY DEF File
  <2>2. QED
    BY <2>1, Facts DEF ClearWorkspace, CopySource, SnapshotOutputs, NoFiles
<1>1. TypeOK'
  BY <1>0 DEF CInv, TypeOK, ClearWorkspace, CopySource, SnapshotOutputs
<1>2. UNCHANGED <<job, result, message, calls>> /\ stage \notin {"idle", "agent"}
  BY DEF ClearWorkspace, CopySource, SnapshotOutputs
<1>3. ASSUME NEW c \in Calls PROVE CallOK(calls[c])'
  BY <1>2, Facts DEF CallOK, Asked, Fits, Before, AtWork, Latest
<1>4. QED
  BY <1>1, <1>2, <1>3, Facts DEF CInv, Control, JobRuns

(***************************************************************************)
(* The end of a job, whose calls are over or, if it was stopped, outlive   *)
(* it.                                                                     *)
(***************************************************************************)
LEMMA EndStep ==
  ASSUME CInv, stage # "idle", NEW how \in {"stopped", "ready", "failed"},
         NEW what \in File \cup {None}, End(how, what),
         calls' = [c \in Calls |-> IF c \in Mine /\ calls[c].pc = "loaded"
                                   THEN [calls[c] EXCEPT !.pc = "done"] ELSE calls[c]],
         how # "stopped" => \A c \in Mine : calls[c].pc \in Over \cup {"loaded"}
  PROVE  CInv'
<1>1. /\ result' = [result EXCEPT ![job] = how] /\ job \in Jobs /\ result[job] = "running"
      /\ stage' = "idle" /\ UNCHANGED <<job, message>>
  BY Facts DEF End, JobRuns
<1>2. ASSUME NEW c \in Calls
      PROVE  /\ calls'[c] \in Call /\ calls'[c].use = calls[c].use /\ calls'[c].job = calls[c].job
             /\ calls'[c].message = calls[c].message
             /\ calls'[c].pc = IF c \in Mine /\ calls[c].pc = "loaded" THEN "done" ELSE calls[c].pc
  BY Facts DEF Call, Over
<1>3. TypeOK'
  BY <1>1, <1>2, Facts DEF CInv, TypeOK, End
<1>4. ASSUME NEW c \in Calls PROVE CallOK(calls[c])'
  <2>1. CallOK(calls[c])
    BY Facts
  <2>2. calls[c].pc = "loaded" => c \in Mine
    BY <2>1 DEF CallOK, AtWork, Latest, Mine
  <2>3. ASSUME calls[c].pc \in InThread
        PROVE  calls[c].job # 0 /\ result'[calls[c].job] = "stopped"
    <3>1. calls[c].job \in Jobs
      BY <2>1, <2>3 DEF CallOK, Asked, InThread
    <3>2. CASE calls[c].job = job
      BY <1>1, <2>3, <3>1, <3>2, Facts DEF Mine, InThread, Over, Jobs
    <3>3. CASE calls[c].job # job
      BY <1>1, <2>1, <2>3, <3>1, <3>3 DEF CallOK, AtWork, Latest
    <3>4. QED
      BY <3>2, <3>3
  <2>4. AtWork(calls[c])'
    BY <1>2, <2>2, <2>3 DEF AtWork, InThread
  <2>5. Asked(calls[c])' /\ Fits(calls[c])' /\ Before(calls[c])'
    BY <1>1, <1>2, <2>1 DEF CallOK, Asked, Fits, Before
  <2>6. QED
    BY <2>4, <2>5 DEF CallOK
<1>5. QED
  BY <1>1, <1>3, <1>4 DEF CInv, Control, JobRuns

\* its end,
LEMMA JobEndsStep ==
  ASSUME CInv, JobRaises \/ FinalAnswer \/ StopJob
  PROVE  CInv'
<1>1. CASE JobRaises \/ FinalAnswer
  <2>1. stage # "idle" /\ \A c \in Mine : calls[c].pc \in Over
    BY <1>1 DEF JobRaises, FinalAnswer, Waiting
  <2>2. calls' = [c \in Calls |-> IF c \in Mine /\ calls[c].pc = "loaded"
                                  THEN [calls[c] EXCEPT !.pc = "done"] ELSE calls[c]]
    BY <1>1, <2>1, Facts DEF JobRaises, FinalAnswer, Over
  <2>3. \E how \in {"ready", "failed"}, what \in File \cup {None} : End(how, what)
    BY <1>1, Facts DEF JobRaises, FinalAnswer, BestCandidates, Candidates, Places
  <2>4. QED
    BY <2>1, <2>2, <2>3, EndStep
<1>2. CASE StopJob
  BY <1>2, EndStep DEF StopJob
<1>3. QED
  BY <1>1, <1>2

\* the end of a message,
LEMMA EndOfMessageStep == ASSUME CInv, EndOfMessage PROVE CInv'
<1> DEFINE loaded == {c \in Mine : calls[c].pc = "loaded"}
<1>1. /\ stage = "agent" /\ \A c \in Mine : calls[c].pc \in Over \cup {"loaded"}
      /\ calls' = [c \in Calls |-> IF c \in Mine /\ calls[c].pc = "loaded"
                                    THEN [calls[c] EXCEPT !.pc = "done"] ELSE calls[c]]
  BY DEF EndOfMessage
<1>2. CASE End("failed", None)
  BY <1>1, <1>2, EndStep
<1>3. CASE /\ active' = active \cup {calls[c].use.arg : c \in loaded}
           /\ UNCHANGED <<backend, job, stage, result, delivered, files, changed, message, box>>
  <2>1. ASSUME NEW c \in Calls
        PROVE  /\ calls'[c] \in Call /\ calls'[c].use = calls[c].use /\ calls'[c].job = calls[c].job
               /\ calls'[c].message = calls[c].message
               /\ calls'[c].pc = IF c \in Mine /\ calls[c].pc = "loaded" THEN "done" ELSE calls[c].pc
    BY <1>1, Facts DEF Call, Over
  <2>2. \A c \in loaded : calls[c].use.arg \in Skills
    BY Facts DEF CallOK, Asked, Fits, Use, Mine
  <2>3. TypeOK'
    BY <1>1, <1>3, <2>1, <2>2, Facts DEF CInv, TypeOK
  <2>4. ASSUME NEW c \in Calls PROVE CallOK(calls[c])'
    BY <1>3, <2>1, Facts DEF CallOK, Asked, Fits, Before, AtWork, Latest, InThread
  <2>5. QED
    BY <1>3, <2>3, <2>4, Facts DEF CInv, Control, JobRuns
<1>4. QED
  BY <1>2, <1>3 DEF EndOfMessage

\* the end of the process,
LEMMA RestartStep == ASSUME CInv, Restart PROVE CInv'
<1>1. ASSUME NEW c \in Calls
      PROVE  /\ calls'[c] \in Call /\ calls'[c].use = calls[c].use /\ calls'[c].job = calls[c].job
             /\ calls'[c].message = calls[c].message
             /\ calls'[c].pc = IF calls[c].pc \in Over THEN calls[c].pc ELSE "killed"
  BY Facts DEF Restart, Call, Over
<1>2. TypeOK'
  BY <1>1, Facts DEF CInv, TypeOK, Restart
<1>3. ASSUME NEW c \in Calls PROVE CallOK(calls[c])'
  <2>1. UNCHANGED <<job, message>> /\ CallOK(calls[c])
    BY Facts DEF Restart
  <2>2. QED
    BY <1>1, <2>1 DEF CallOK, Asked, Fits, Before, AtWork, InThread, Over
<1>4. QED
  BY <1>2, <1>3 DEF CInv, Control, JobRuns, Restart

\* and a message that asks for tools.
LEMMA AskStep ==
  ASSUME CInv, NEW S \in SUBSET Unused, NEW uses \in [S -> Use], AskTools(uses)
  PROVE  CInv'
<1>1. /\ stage = "agent" /\ job \in Jobs /\ message' = message + 1
      /\ UNCHANGED <<job, stage, result>> /\ \A c \in Mine : calls[c].pc \in Over
  BY Facts DEF AskTools, JobRuns, Waiting
<1>2. ASSUME NEW c \in S
      PROVE  /\ calls'[c] \in Call /\ calls'[c].use = uses[c] /\ calls'[c].job = job
             /\ calls'[c].message = message'
             /\ calls'[c].pc \in {FirstStep[uses[c].tool], "done"} /\ uses[c] \in Use
  <2>1. c \in Calls /\ uses[c] \in Use /\ c \in DOMAIN uses
    BY DEF Unused
  <2>2. FirstStep[uses[c].tool] \in InThread
    BY <2>1, FirstSteps
  <2>3. 1 \in 0..MaxAttempts /\ job \in 0..MaxJobs /\ message' \in Nat
    BY <1>1, Facts
  <2>4. calls'[c] = [pc |-> IF Authorised(uses[c]) THEN FirstStep[uses[c].tool] ELSE "done",
                     use |-> uses[c], job |-> job, message |-> message', attempt |-> 1,
                     seen |-> {}, failed |-> FALSE]
    BY <2>1 DEF AskTools
  <2>5. QED
    BY <2>1, <2>2, <2>3, <2>4 DEF Call, Over
<1>3. \A c \in Calls \ S : calls'[c] = calls[c]
  BY DEF AskTools
<1>4. TypeOK'
  <2>1. calls' \in [Calls -> Call]
    BY <1>2, <1>3, Facts DEF AskTools, Unused
  <2>2. QED
    BY <1>1, <2>1, Facts DEF CInv, TypeOK, AskTools
<1>5. ASSUME NEW c \in Calls PROVE CallOK(calls[c])'
  <2>1. CASE c \in S
    <3>1. calls'[c].pc \in InThread \cup {"done"}
      BY <1>2, <2>1, FirstSteps
    <3>2. Fits(calls[c])'
      <4>1. calls'[c].use = uses[c] /\ uses[c] \in Use
        BY <1>2, <2>1
      <4>2. CASE calls'[c].pc = "done"
        BY <4>2 DEF Fits
      <4>3. CASE calls'[c].pc = FirstStep[uses[c].tool]
        <5> DEFINE pc == FirstStep[uses[c].tool]
        <5>1. /\ pc \in InThread \ {"put", "create", "sandbox", "collect", "cleanup"}
              /\ pc = "load" => uses[c].tool = "load_skill"
              /\ pc = "check" => uses[c].tool = "write_file"
              /\ pc = "read" => uses[c].tool = "replace_text"
              /\ pc \in {"validate", "program"} => uses[c].tool \in {"run_code", "run_script"}
          BY <4>1, FirstSteps
        <5> HIDE DEF pc
        <5>2. calls'[c].pc = pc
          BY <4>3 DEF pc
        <5>3. QED
          BY <4>1, <5>1, <5>2 DEF Fits, InThread
      <4>4. QED
        BY <1>2, <2>1, <4>2, <4>3
    <3>3. Asked(calls[c])' /\ Before(calls[c])' /\ AtWork(calls[c])'
      BY <1>1, <1>2, <2>1, <3>1, Facts DEF Asked, Before, AtWork, Latest, InThread
    <3>4. QED
      BY <3>2, <3>3 DEF CallOK
  <2>2. CASE c \notin S
    <3>1. calls'[c] = calls[c] /\ CallOK(calls[c]) /\ calls[c] \in Call
      BY <1>3, <2>2, Facts
    <3>2. calls[c].pc \in InThread \cup {"loaded"} => calls[c].job # job
      BY <1>1 DEF Mine, InThread, Over
    <3>3. QED
      BY <1>1, <3>1, <3>2, Facts DEF CallOK, Asked, Fits, Before, AtWork, Latest, Call
  <2>3. QED
    BY <2>1, <2>2
<1>6. QED
  BY <1>1, <1>4, <1>5, Facts DEF CInv, Control, JobRuns

\* Every step keeps calls and job in order.
LEMMA CInvStep == CInv /\ [Next]_vars => CInv'
<1> SUFFICES ASSUME CInv, [Next]_vars PROVE CInv'
  OBVIOUS
<1>1. CASE UNCHANGED vars
  BY <1>1 DEF vars, CInv, TypeOK, Control, CallOK, Asked, Fits, Before, AtWork, Latest, JobRuns
<1>2. QED
  BY <1>1, StartStep, PrepareStep, JobEndsStep, RestartStep, AskStep, EndOfMessageStep, ThreadStep
     DEF Next

\* Calls and job are in order in every reachable state.
LEMMA CallsInvariant == Spec => []CInv
BY InitCInv, CInvStep, PTL DEF Spec

-----------------------------------------------------------------------------
(* Sandboxes                                                               *)

\* There is no sandbox at the beginning.
LEMMA SandboxInit == Init => SandboxesAreOwned
BY DEF Init, SandboxesAreOwned

\* A sandbox stays in the hands of a call at work, at every step.
LEMMA SandboxStep == CInv /\ SandboxesAreOwned /\ [Next]_vars => SandboxesAreOwned'
<1> SUFFICES ASSUME CInv, SandboxesAreOwned, [Next]_vars PROVE SandboxesAreOwned'
  OBVIOUS
<1> DEFINE Using == {"sandbox", "collect", "cleanup"}
<1>1. ASSUME UNCHANGED box,
             \A d \in Calls : \/ calls'[d] = calls[d]
                             \/ calls[d].pc \notin Using \cup {"killed"}
                             \/ calls'[d].pc = "killed"
      PROVE  SandboxesAreOwned'
  BY <1>1 DEF SandboxesAreOwned
<1>2. CASE UNCHANGED <<calls, box>>
  BY <1>1, <1>2
<1>3. CASE StopJob \/ EndOfMessage
  <2>1. /\ calls' = [c \in Calls |-> IF c \in Mine /\ calls[c].pc = "loaded"
                                     THEN [calls[c] EXCEPT !.pc = "done"] ELSE calls[c]]
        /\ UNCHANGED box
    BY <1>3 DEF StopJob, EndOfMessage, End
  <2>2. QED
    BY <1>1, <2>1
<1>4. CASE Restart
  <2>1. \A c \in Calls : calls'[c] = calls[c] \/ calls'[c].pc = "killed"
    BY <1>4, Facts DEF Restart, Call
  <2>2. QED
    BY <1>1, <1>4, <2>1 DEF Restart
<1>5. ASSUME NEW S \in SUBSET Unused, NEW uses \in [S -> Use], AskTools(uses)
      PROVE  SandboxesAreOwned'
  <2>1. \A d \in Calls : calls'[d] = calls[d] \/ calls[d].pc = "unused"
    BY <1>5 DEF AskTools, Unused
  <2>2. QED
    BY <1>1, <1>5, <2>1 DEF AskTools
<1>6. ASSUME NEW c \in Calls, Thread(c) PROVE SandboxesAreOwned'
  <2>1. /\ \A d \in Calls \ {c} : calls'[d] = calls[d]
        /\ \A d \in Calls \ {c}, n \in Attempts : box'[<<d, n>>] = box[<<d, n>>]
    BY <1>6, Facts
       DEF CInv, TypeOK, Thread, LoadSkill, CheckAbsent, ReadText, WriteText, Validate, ProgramWrites,
           ProgramEnds, CreateSandbox, UseSandbox, CollectOutputs, Cleanup, Step, Raise
  <2>2. calls[c].pc \in InThread /\ calls[c] \in Call
    BY <1>6, Facts
       DEF Thread, LoadSkill, CheckAbsent, ReadText, WriteText, Validate, ProgramWrites,
           ProgramEnds, CreateSandbox, UseSandbox, CollectOutputs, Cleanup, At, InThread
  <2>3. \A n \in Attempts : box[<<c, n>>] = "live" => calls[c].attempt = n /\ calls[c].pc \in Using
    BY <2>2 DEF SandboxesAreOwned, InThread
  <2>4. CASE LoadSkill(c) \/ CheckAbsent(c) \/ ReadText(c) \/ WriteText(c) \/ Validate(c)
             \/ ProgramWrites(c) \/ ProgramEnds(c)
    <3>1. UNCHANGED box /\ calls[c].pc \notin Using \cup {"killed"}
      BY <2>4
         DEF LoadSkill, CheckAbsent, ReadText, WriteText, Validate, ProgramWrites, ProgramEnds, At
    <3>2. QED
      BY <1>1, <2>1, <3>1
  <2>5. CASE CreateSandbox(c)
    <3>1. calls[c].pc = "create" /\ \A n \in Attempts : box[<<c, n>>] # "live"
      BY <2>3, <2>5 DEF CreateSandbox, At
    <3>2. CASE Raise(c) /\ UNCHANGED box
      BY <2>1, <3>1, <3>2 DEF SandboxesAreOwned
    <3>3. CASE Step(c, "sandbox") /\ box' = [box EXCEPT ![<<c, calls[c].attempt>>] = "live"]
      <4>1. calls'[c].pc = "sandbox" /\ calls'[c].attempt = calls[c].attempt
        BY <2>2, <3>3, Facts DEF Step, Call
      <4>2. \A n \in Attempts : box'[<<c, n>>] = "live" => n = calls[c].attempt
        BY <3>1, <3>3 DEF CInv, TypeOK
      <4>3. QED
        BY <2>1, <4>1, <4>2 DEF SandboxesAreOwned
    <3>4. QED
      BY <2>5, <3>2, <3>3 DEF CreateSandbox
  <2>6. CASE UseSandbox(c) \/ CollectOutputs(c)
    <3>1. calls'[c].pc \in Using /\ calls'[c].attempt = calls[c].attempt /\ UNCHANGED box
      BY <2>2, <2>6, Facts DEF UseSandbox, CollectOutputs, Step, Call
    <3>2. QED
      BY <2>1, <2>3, <3>1 DEF SandboxesAreOwned
  <2>7. CASE Cleanup(c)
    <3>1. \A n \in Attempts : box'[<<c, n>>] # "live"
      BY <2>3, <2>7, Facts DEF Cleanup, CInv, TypeOK
    <3>2. QED
      BY <2>1, <3>1 DEF SandboxesAreOwned
  <2>8. QED
    BY <1>6, <2>4, <2>5, <2>6, <2>7 DEF Thread
<1>7. QED
  BY <1>2, <1>3, <1>4, <1>5, <1>6
     DEF Next, vars, StartJob, ClearWorkspace, CopySource, SnapshotOutputs, JobRaises, FinalAnswer, End

-----------------------------------------------------------------------------
(* What lasts                                                              *)

(***************************************************************************)
(* What was asked of a call does not change, a call that is over stays so, *)
(* and one that outlived its job always did.                               *)
(***************************************************************************)
LEMMA Lasting ==
  ASSUME CInv, Next, NEW c \in Calls, calls[c].pc # "unused"
  PROVE  /\ calls'[c].use = calls[c].use /\ calls'[c].job = calls[c].job
         /\ calls'[c].message = calls[c].message
         /\ calls[c].pc \in {"done", "killed"} => calls'[c].pc = calls[c].pc
         /\ calls'[c].pc \in InThread => calls[c].pc \in InThread
         /\ Outlived(c) => Outlived(c)'
<1>0. calls[c] \in Call /\ calls[c].job \in Jobs /\ calls[c].job <= job /\ job \in 0..MaxJobs
  BY Facts DEF CallOK, Asked, Before
<1>1. /\ calls'[c].use = calls[c].use /\ calls'[c].job = calls[c].job
      /\ calls'[c].message = calls[c].message
      /\ calls[c].pc \in {"done", "killed"} => calls'[c].pc = calls[c].pc
      /\ calls'[c].pc \in InThread => calls[c].pc \in InThread
  <2>1. CASE UNCHANGED calls
    BY <2>1
  <2>2. CASE StopJob \/ EndOfMessage
    <3>1. calls' = [d \in Calls |-> IF d \in Mine /\ calls[d].pc = "loaded"
                                    THEN [calls[d] EXCEPT !.pc = "done"] ELSE calls[d]]
      BY <2>2 DEF StopJob, EndOfMessage
    <3>2. QED
      BY <1>0, <3>1 DEF Call, InThread
  <2>3. CASE Restart
    BY <1>0, <2>3 DEF Restart, Call, InThread, Over
  <2>4. ASSUME NEW S \in SUBSET Unused, NEW uses \in [S -> Use], AskTools(uses)
        PROVE  calls'[c] = calls[c]
    BY <2>4 DEF AskTools, Unused
  <2>5. ASSUME NEW d \in Calls, Moved(d)
        PROVE  /\ calls'[c].use = calls[c].use /\ calls'[c].job = calls[c].job
               /\ calls'[c].message = calls[c].message
               /\ calls[c].pc \in {"done", "killed"} => calls'[c].pc = calls[c].pc
               /\ calls'[c].pc \in InThread => calls[c].pc \in InThread
    <3>1. PICK y \in Call : calls' = [calls EXCEPT ![d] = y] /\ Moves(calls[d], y)
      BY <2>5 DEF Moved
    <3>2. QED
      BY <3>1, Facts DEF Moves, InThread
  <2>6. QED
    BY <2>1, <2>2, <2>3, <2>4, <2>5, ThreadMoves
       DEF Next, StartJob, ClearWorkspace, CopySource, SnapshotOutputs, JobRaises, FinalAnswer, End
<1>2. ASSUME result[calls[c].job] = "stopped" PROVE result'[calls[c].job] = "stopped"
  <2>1. CASE StartJob
    BY <1>0, <1>2, <2>1, Facts DEF StartJob
  <2>2. ASSUME stage # "idle", NEW how, NEW what, End(how, what)
        PROVE  result'[calls[c].job] = "stopped"
    BY <1>0, <1>2, <2>2, Facts DEF End, JobRuns
  <2>3. CASE Restart
    BY <1>0, <1>2, <2>3 DEF Restart
  <2>4. CASE UNCHANGED result
    BY <1>2, <2>4
  <2>5. ASSUME NEW d \in Calls, Thread(d) PROVE UNCHANGED result
    BY <2>5
       DEF Thread, LoadSkill, CheckAbsent, ReadText, WriteText, Validate, ProgramWrites, ProgramEnds,
           CreateSandbox, UseSandbox, CollectOutputs, Cleanup, jobVars
  <2>6. QED
    BY <2>1, <2>2, <2>3, <2>4, <2>5
       DEF Next, ClearWorkspace, CopySource, SnapshotOutputs, JobRaises, FinalAnswer, StopJob, AskTools,
           EndOfMessage
<1>3. QED
  BY <1>0, <1>1, <1>2 DEF Outlived

\* Calls that have overlapped have done so for ever.
LEMMA OverlapLasts ==
  ASSUME CInv, Next, NEW c \in Calls, NEW d \in Calls, calls[c].pc # "unused", Overlap(c, d)
  PROVE  Overlap(c, d)'
<1>1. calls[d].pc # "unused" \/ Outlived(c)
  BY Facts DEF Overlap, Outlived, CallOK, Asked, Jobs
<1>2. QED
  BY <1>1, Lasting DEF Overlap

\* A file made for a job, or by a call that outlived its own, stays so.
LEMMA MadeForLasts ==
  ASSUME CInv, Next, NEW j \in Jobs, NEW file, MadeFor(j, file)
  PROVE  MadeFor(j, file)'
<1>1. calls[file.by].pc # "unused"
  BY Facts DEF MadeFor, Outlived, CallOK, Asked, Jobs
<1>2. QED
  BY <1>1, Lasting DEF MadeFor

-----------------------------------------------------------------------------
(* What a job delivers                                                     *)

\* AGENT_OUTPUT_DIR is the run's own, and what has changed in the directory
\* of the thread has been written since the agent started.
OutputMade ==
  /\ (stage # "idle" /\ files["out"] # None) => MadeFor(job, files["out"])
  /\ stage = "agent" => \A p \in changed : MadeFor(job, files[p])

DInv == CInv /\ OutputMade /\ DeliveryWasMade

(***************************************************************************)
(* The call that writes is waited for, or has outlived its job.            *)
(***************************************************************************)
LEMMA WritersWork ==
  ASSUME CInv, NEW c \in Calls, calls[c].pc \in InThread
  PROVE  /\ calls[c].use \in Use /\ calls[c].pc # "unused"
         /\ (stage = "agent" /\ calls[c].job = job /\ calls[c].message = message) \/ Outlived(c)
BY Facts DEF CallOK, Asked, AtWork, Latest, Outlived, InThread

(***************************************************************************)
(* What a step of a thread may do to the files.                            *)
(***************************************************************************)
LEMMA ThreadWrites ==
  ASSUME CInv, NEW c \in Calls, Thread(c)
  PROVE  /\ UNCHANGED <<job, stage, result, delivered, active, message>>
         /\ calls[c].pc \in InThread
         /\ \/ UNCHANGED <<files, changed>>
            \/ \E p \in Places, has \in SUBSET Calls :
                 /\ Store(c, p, has)
                 /\ \/ calls[c].use.tool \in {"run_code", "run_script"}
                    \/ /\ calls[c].pc = "put" /\ p = calls[c].use.arg
                       /\ has = calls[c].seen \cup {c}
<1>1. UNCHANGED <<job, stage, result, delivered, active, message>>
  BY DEF Thread, LoadSkill, CheckAbsent, ReadText, WriteText, Validate, ProgramWrites, ProgramEnds,
         CreateSandbox, UseSandbox, CollectOutputs, Cleanup, jobVars
<1>2. calls[c].pc \in InThread
  BY DEF Thread, LoadSkill, CheckAbsent, ReadText, WriteText, Validate, ProgramWrites, ProgramEnds,
         CreateSandbox, UseSandbox, CollectOutputs, Cleanup, At, InThread
<1>3. calls[c] \in Call /\ Asked(calls[c]) /\ Fits(calls[c])
  BY Facts DEF CallOK
<1>4. CASE UNCHANGED <<files, changed>>
  BY <1>1, <1>2, <1>4
<1>5. CASE WriteText(c)
  <2>1. calls[c].pc = "put" /\ calls[c].use.arg \in Places /\ calls[c].seen \cup {c} \in SUBSET Calls
    BY <1>3, <1>5 DEF WriteText, At, Asked, Fits, Use, Places, Call
  <2>2. QED
    BY <1>1, <1>2, <1>4, <1>5, <2>1 DEF WriteText
<1>6. CASE ProgramWrites(c) \/ CollectOutputs(c)
  <2>1. calls[c].use.tool \in {"run_code", "run_script"}
    BY <1>3, <1>6 DEF ProgramWrites, CollectOutputs, At, Fits
  <2>2. UNCHANGED <<files, changed>> \/ \E p \in Places : Store(c, p, {c})
    BY <1>6 DEF ProgramWrites, CollectOutputs, Places
  <2>3. QED
    BY <1>1, <1>2, <1>4, <2>1, <2>2
<1>7. QED
  BY <1>4, <1>5, <1>6
     DEF Thread, LoadSkill, CheckAbsent, ReadText, Validate, ProgramEnds, CreateSandbox, UseSandbox,
         Cleanup

\* What has changed since the snapshot was made for the job, at every step.
LEMMA OutputStep == ASSUME DInv, Next PROVE OutputMade'
<1>1. CInv /\ OutputMade
  BY DEF DInv
<1>2. CASE stage' = "idle"
  BY <1>2 DEF OutputMade
<1>3. CASE StartJob \/ ClearWorkspace
  BY <1>1, <1>3, Facts DEF StartJob, ClearWorkspace, OutputMade, NoFiles, Places
<1>4. ASSUME stage # "idle", UNCHANGED job, UNCHANGED files,
             stage' # "idle" /\ (stage' = "agent" => changed' = {} \/ (stage = "agent" /\ changed' = changed))
      PROVE  OutputMade'
  <2>1. job \in Jobs
    BY <1>1, <1>4, Facts DEF JobRuns
  <2>2. QED
    BY <1>1, <1>4, <2>1, MadeForLasts DEF OutputMade
<1>5. CASE SnapshotOutputs
  BY <1>4, <1>5 DEF SnapshotOutputs
<1>6. CASE CopySource
  <2>1. stage # "idle" /\ job \in Jobs /\ UNCHANGED job /\ stage' = "snapshot"
          /\ files'["out"] = files["out"]
    BY <1>1, <1>6, Facts DEF CopySource, JobRuns, Places
  <2>2. QED
    BY <1>1, <2>1, MadeForLasts DEF OutputMade
<1>7. ASSUME NEW S \in SUBSET Unused, NEW uses \in [S -> Use], AskTools(uses)
      PROVE  OutputMade'
  BY <1>4, <1>7 DEF AskTools
<1>8. CASE EndOfMessage
  BY <1>2, <1>4, <1>8 DEF EndOfMessage, End
<1>9. ASSUME NEW c \in Calls, Thread(c) PROVE OutputMade'
  <2>1. UNCHANGED <<job, stage>> /\ calls[c].pc \in InThread
    BY <1>1, <1>9, ThreadWrites
  <2>2. CASE stage # "idle" /\ UNCHANGED <<files, changed>>
    BY <1>4, <2>1, <2>2
  <2>3. ASSUME stage # "idle", NEW p \in Places, NEW has \in SUBSET Calls, Store(c, p, has),
               ~UNCHANGED <<files, changed>>
        PROVE  OutputMade'
    <3>1. /\ files' = [files EXCEPT ![p] = [by |-> c, has |-> has]]
          /\ changed' = IF stage = "agent" THEN changed \cup {p} ELSE changed
      BY <2>3 DEF Store
    <3>2. [by |-> c, has |-> has] \in File /\ None \notin File
      BY FileAssumption DEF File
    <3>3. calls[c].job = job \/ Outlived(c)
      BY <1>1, <2>1, WritersWork
    <3>4. MadeFor(job, files'[p])
      BY <1>1, <3>1, <3>2, <3>3, Facts DEF MadeFor
    <3>5. \A r \in Places \ {p} : files'[r] = files[r]
      BY <1>1, <3>1, Facts
    <3>6. job \in Jobs
      BY <1>1, <2>3, Facts DEF JobRuns
    <3>7. \A r \in Places : MadeFor(job, files'[r]) => MadeFor(job, files[r])'
      BY <1>1, <2>1, <3>6, MadeForLasts DEF MadeFor
    <3>8. "out" \in Places /\ changed' \subseteq Places
      BY <1>1, <3>1, Facts DEF Places
    <3>9. QED
      BY <1>1, <2>1, <3>1, <3>4, <3>5, <3>7, <3>8 DEF OutputMade
  <2>4. QED
    BY <1>1, <1>2, <1>9, <2>1, <2>2, <2>3, ThreadWrites
<1>10. QED
  BY <1>2, <1>3, <1>5, <1>6, <1>7, <1>8, <1>9
     DEF Next, JobRaises, FinalAnswer, StopJob, Restart, End

\* So what is delivered was made for the job.
LEMMA DeliveryStep == ASSUME DInv, Next PROVE DeliveryWasMade'
<1>0. CInv /\ OutputMade /\ DeliveryWasMade
  BY DEF DInv
<1>1. DeliveryWasMade <=> \A j \in Jobs : result[j] = "ready" => MadeFor(j, delivered[j])
  BY DEF DeliveryWasMade, MadeFor
<1>2. ASSUME NEW j \in Jobs, result[j] = "ready", delivered'[j] = delivered[j]
      PROVE  MadeFor(j, delivered[j])'
  BY <1>0, <1>1, <1>2, MadeForLasts DEF MadeFor
<1>3. CASE FinalAnswer
  <2>1. job \in Jobs /\ stage = "agent" /\ result[job] = "running"
    BY <1>0, <1>3, Facts DEF FinalAnswer, JobRuns
  <2>2. \A j \in Jobs \ {job} : result'[j] = result[j] /\ delivered'[j] = delivered[j]
    BY <1>0, <1>3, <2>1 DEF FinalAnswer, End, CInv, TypeOK
  <2>3. ASSUME result'[job] = "ready" PROVE MadeFor(job, delivered[job])'
    <3>1. PICK p \in BestCandidates : delivered'[job] = files[p]
      BY <1>0, <1>3, <2>1, <2>3, Facts DEF FinalAnswer, End, CInv, TypeOK
    <3>2. MadeFor(job, files[p])
      BY <1>0, <2>1 DEF OutputMade, BestCandidates, Candidates
    <3>3. PICK j, file : j = job /\ file = files[p]
      OBVIOUS
    <3>4. MadeFor(j, file)'
      BY <1>0, <2>1, <3>2, <3>3, MadeForLasts
    <3>5. UNCHANGED job
      BY <1>3 DEF FinalAnswer, End
    <3>6. QED
      BY <3>1, <3>3, <3>4, <3>5 DEF MadeFor
  <2>4. \A j \in Jobs : result'[j] = "ready" => MadeFor(j, delivered[j])'
    BY <1>2, <2>2, <2>3, <1>3 DEF FinalAnswer, End, MadeFor
  <2>5. QED
    BY <2>4 DEF DeliveryWasMade, MadeFor
<1>4. ASSUME \A j \in Jobs : result'[j] = "ready" => result[j] = "ready" /\ delivered'[j] = delivered[j]
      PROVE  DeliveryWasMade'
  <2>1. \A j \in Jobs : result'[j] = "ready" => MadeFor(j, delivered[j])'
    BY <1>2, <1>4
  <2>2. QED
    BY <2>1 DEF DeliveryWasMade, MadeFor
<1>5. ASSUME stage # "idle", NEW how \in {"stopped", "failed"}, End(how, None)
      PROVE  DeliveryWasMade'
  BY <1>0, <1>4, <1>5, Facts DEF End, JobRuns, CInv, TypeOK
<1>6. CASE StartJob
  BY <1>0, <1>4, <1>6, Facts DEF StartJob
<1>7. CASE Restart
  BY <1>0, <1>4, <1>7, Facts DEF Restart
<1>8. CASE UNCHANGED <<result, delivered>>
  BY <1>4, <1>8
<1>9. ASSUME NEW c \in Calls, Thread(c) PROVE UNCHANGED <<result, delivered>>
  BY <1>0, <1>9, ThreadWrites
<1>10. QED
  BY <1>3, <1>5, <1>6, <1>7, <1>8, <1>9
     DEF Next, ClearWorkspace, CopySource, SnapshotOutputs, JobRaises, StopJob, AskTools, EndOfMessage

\* Every step keeps both.
LEMMA DInvStep == DInv /\ [Next]_vars => DInv'
<1>1. CASE UNCHANGED vars
  BY <1>1 DEF vars, DInv, CInv, TypeOK, Control, CallOK, Asked, Fits, Before, AtWork, Latest, JobRuns,
              OutputMade, MadeFor, Outlived, DeliveryWasMade
<1>2. QED
  BY <1>1, CInvStep, OutputStep, DeliveryStep DEF DInv

-----------------------------------------------------------------------------
(* What a job may do                                                       *)

\* An active skill was loaded by a call of this job that is over.
LoadedBy(d, s) ==
  /\ calls[d].use = [tool |-> "load_skill", arg |-> s]
  /\ calls[d].pc \in {"done", "killed"}
  /\ calls[d].job = job /\ calls[d].message <= message

ActiveLoaded == \A s \in active : \E d \in Calls : LoadedBy(d, s)

AInv == CInv /\ ActiveLoaded /\ ToolsWereAuthorised

\* A skill loaded by an earlier message of the job stays so.
LEMMA LoadedByLasts ==
  ASSUME CInv, Next, NEW d \in Calls, NEW s, LoadedBy(d, s), UNCHANGED job, message' >= message,
         message' \in Nat
  PROVE  LoadedBy(d, s)'
<1>1. calls[d] \in Call /\ message \in Nat /\ calls[d].message \in Nat
  BY Facts DEF Call
<1>2. QED
  BY <1>1, Lasting DEF LoadedBy

\* An active skill was loaded by an earlier message of the job, at every step.
LEMMA ActiveStep == ASSUME AInv, Next PROVE ActiveLoaded'
<1>0. CInv /\ ActiveLoaded /\ message \in Nat
  BY Facts DEF AInv
<1>1. ASSUME UNCHANGED <<active, job>>, message' >= message, message' \in Nat
      PROVE  ActiveLoaded'
  BY <1>0, <1>1, LoadedByLasts DEF ActiveLoaded
<1>2. CASE UNCHANGED <<active, job, message>>
  BY <1>0, <1>1, <1>2
<1>3. CASE StartJob
  BY <1>3 DEF StartJob, ActiveLoaded
<1>4. ASSUME NEW S \in SUBSET Unused, NEW uses \in [S -> Use], AskTools(uses)
      PROVE  ActiveLoaded'
  BY <1>0, <1>1, <1>4 DEF AskTools
<1>5. CASE EndOfMessage
  <2> DEFINE loaded == {c \in Mine : calls[c].pc = "loaded"}
  <2>1. CASE UNCHANGED active
    BY <1>2, <1>5, <2>1 DEF EndOfMessage, End
  <2>2. CASE /\ active' = active \cup {calls[c].use.arg : c \in loaded}
             /\ UNCHANGED <<backend, job, stage, result, delivered, files, changed, message, box>>
    <3>1. ASSUME NEW c \in loaded
          PROVE  LoadedBy(c, calls[c].use.arg)'
      <4>1. c \in Calls /\ calls[c] \in Call /\ CallOK(calls[c]) /\ calls[c].pc = "loaded"
        BY <1>0, Facts DEF Mine
      <4>2. calls[c].use = [tool |-> "load_skill", arg |-> calls[c].use.arg]
        BY <4>1 DEF CallOK, Asked, Fits, Use
      <4>3. calls[c].job = job /\ calls[c].message = message
        BY <4>1 DEF CallOK, AtWork, Latest
      <4>4. calls'[c].pc = "done"
        BY <1>5, <4>1 DEF EndOfMessage, Mine, Call
      <4>5. calls'[c].use = calls[c].use /\ calls'[c].job = calls[c].job
              /\ calls'[c].message = calls[c].message
        BY <1>0, <4>1, Lasting
      <4>6. QED
        BY <1>0, <2>2, <4>1, <4>2, <4>3, <4>4, <4>5 DEF LoadedBy
    <3>2. \A s \in active : \E d \in Calls : LoadedBy(d, s)'
      BY <1>0, <2>2, LoadedByLasts DEF ActiveLoaded
    <3>3. ASSUME NEW s \in active' PROVE \E d \in Calls : LoadedBy(d, s)'
      <4>1. CASE s \in active
        BY <3>2, <4>1
      <4>2. CASE s \notin active
        <5>1. PICK c \in loaded : s = calls[c].use.arg
          BY <2>2, <4>2
        <5>2. LoadedBy(c, s)'
          BY <3>1, <5>1, <1>0, Lasting, Facts DEF LoadedBy, Mine
        <5>3. QED
          BY <5>1, <5>2 DEF Mine
      <4>3. QED
        BY <4>1, <4>2
    <3>4. QED
      BY <3>3 DEF ActiveLoaded
  <2>3. QED
    BY <1>5, <2>1, <2>2 DEF EndOfMessage, End
<1>6. ASSUME NEW c \in Calls, Thread(c) PROVE UNCHANGED <<active, job, message>>
  BY <1>0, <1>6, ThreadWrites
<1>7. QED
  BY <1>2, <1>3, <1>4, <1>5, <1>6
     DEF Next, ClearWorkspace, CopySource, SnapshotOutputs, JobRaises, FinalAnswer, StopJob, Restart, End

(***************************************************************************)
(* The call that authorised another one is of an earlier message.          *)
(***************************************************************************)
Authorises(d, x) ==
  /\ calls[d].use \in [tool : {"load_skill"}, arg : CodingSkills]
  /\ calls[d].pc = "done" \/ calls[d].pc = "killed"
  /\ calls[d].job = x.job /\ calls[d].message < x.message

\* So a tool at work has its skill.
LEMMA AuthorisedStep == ASSUME AInv, Next PROVE ToolsWereAuthorised'
<1>0. CInv /\ ActiveLoaded /\ ToolsWereAuthorised
  BY DEF AInv
<1>1. ASSUME NEW c \in Calls, calls[c].pc \in InThread, calls[c].use.tool \notin SkillTools
      PROVE  \E d \in Calls : Authorises(d, calls[c])'
  <2>1. PICK d \in Calls : Authorises(d, calls[c])
    BY <1>0, <1>1 DEF ToolsWereAuthorised, Authorises
  <2>2. Authorises(d, calls[c])'
    BY <1>0, <1>1, <2>1, Lasting DEF Authorises, InThread
  <2>3. QED
    BY <2>2
<1>2. ASSUME NEW S \in SUBSET Unused, NEW uses \in [S -> Use], AskTools(uses), NEW c \in S,
             calls'[c].pc \in InThread, calls'[c].use.tool \notin SkillTools
      PROVE  \E d \in Calls : Authorises(d, calls[c])'
  <2>1. /\ calls'[c].use = uses[c] /\ calls'[c].job = job /\ calls'[c].message = message + 1
        /\ Authorised(uses[c])
    BY <1>2 DEF AskTools, Unused, InThread
  <2>2. PICK s \in CodingSkills : s \in active
    BY <1>2, <2>1 DEF Authorised
  <2>3. PICK d \in Calls : LoadedBy(d, s)
    BY <1>0, <2>2 DEF ActiveLoaded
  <2>4. calls'[d] = calls[d] /\ calls[d].message \in Nat /\ message \in Nat
    BY <1>0, <1>2, <2>3, Facts DEF AskTools, Unused, LoadedBy, Call
  <2>5. Authorises(d, calls[c])'
    BY <2>1, <2>2, <2>3, <2>4 DEF Authorises, LoadedBy
  <2>6. QED
    BY <2>5
<1>3. ASSUME NEW c \in Calls, calls'[c].pc \in InThread, calls'[c].use.tool \notin SkillTools
      PROVE  \E d \in Calls : Authorises(d, calls[c])'
  <2>1. CASE calls[c].pc # "unused"
    BY <1>0, <1>1, <1>3, <2>1, Lasting
  <2>2. CASE calls[c].pc = "unused"
    <3>1. ASSUME NEW d \in Calls, Thread(d) PROVE calls'[c] = calls[c]
      <4>1. UNCHANGED calls \/ Moved(d)
        BY <1>0, <3>1, ThreadMoves
      <4>2. QED
        BY <1>0, <2>2, <4>1, Facts DEF Moved, Moves, InThread
    <3>2. CASE StopJob \/ EndOfMessage
      BY <1>3, <2>2, <3>2 DEF StopJob, EndOfMessage, InThread
    <3>3. CASE Restart
      BY <1>3, <2>2, <3>3 DEF Restart, Over, InThread
    <3>4. ASSUME NEW S \in SUBSET Unused, NEW uses \in [S -> Use], AskTools(uses)
          PROVE  \E d \in Calls : Authorises(d, calls[c])'
      <4>1. CASE c \in S
        BY <1>2, <1>3, <3>4, <4>1
      <4>2. CASE c \notin S
        BY <1>3, <2>2, <3>4, <4>2 DEF AskTools, InThread
      <4>3. QED
        BY <4>1, <4>2
    <3>5. CASE calls'[c] = calls[c]
      BY <1>3, <2>2, <3>5 DEF InThread
    <3>6. QED
      BY <3>1, <3>2, <3>3, <3>4, <3>5
         DEF Next, StartJob, ClearWorkspace, CopySource, SnapshotOutputs, JobRaises, FinalAnswer, End
  <2>3. QED
    BY <2>1, <2>2
<1>4. QED
  BY <1>3 DEF ToolsWereAuthorised, Authorises

\* Every step keeps both.
LEMMA AInvStep == AInv /\ [Next]_vars => AInv'
<1>1. CASE UNCHANGED vars
  BY <1>1 DEF vars, AInv, CInv, TypeOK, Control, CallOK, Asked, Fits, Before, AtWork, Latest, JobRuns,
              ActiveLoaded, LoadedBy, ToolsWereAuthorised
<1>2. QED
  BY <1>1, CInvStep, ActiveStep, AuthorisedStep DEF AInv

-----------------------------------------------------------------------------
(* What a file keeps                                                       *)

\* A call that is about to rewrite a file has seen all that is in it, unless
\* a call that overlaps it has written since.
SeenOK(c) ==
  (calls[c].pc = "put" /\ calls[c].use.tool = "replace_text") =>
    LET file == files[calls[c].use.arg] IN
    file = None \/ file.has \subseteq calls[c].seen \/ (file.by \in Calls /\ Overlap(c, file.by))

EInv == CInv /\ \A c \in Calls : SeenOK(c)

\* A call that raises is not about to write.
LEMMA RaiseDoesNotPut ==
  ASSUME CInv, NEW c \in Calls, calls[c].use \in Use, Raise(c)
  PROVE  calls'[c].pc # "put"
<1>1. calls[c] \in Call /\ FirstStep[calls[c].use.tool] # "put"
  BY FirstSteps, Facts
<1>2. calls'[c] = Failing(c, calls[c])
  BY Facts DEF Raise
<1>3. QED
  BY <1>1, <1>2 DEF Failing, Call

(***************************************************************************)
(* A call that has yet to write has read, in this step or before.          *)
(***************************************************************************)
LEMMA PutStays ==
  ASSUME CInv, Next, NEW c \in Calls, calls'[c].pc = "put", calls'[c].use.tool = "replace_text"
  PROVE  /\ calls'[c] = calls[c] \/ ReadText(c)
         /\ calls[c].pc \in InThread /\ calls[c].use \in Use /\ calls'[c].use = calls[c].use
<1>1. calls[c].pc # "unused"
  <2>1. ASSUME NEW S \in SUBSET Unused, NEW uses \in [S -> Use], AskTools(uses), calls[c].pc = "unused"
        PROVE  FALSE
    BY <2>1, FirstSteps DEF AskTools
  <2>2. ASSUME NEW d \in Calls, Thread(d), calls[c].pc = "unused" PROVE FALSE
    <3>1. UNCHANGED calls \/ Moved(d)
      BY <2>2, ThreadMoves
    <3>2. QED
      BY <2>2, <3>1, Facts DEF Moved, Moves, InThread
  <2>3. QED
    BY <2>1, <2>2, Facts
       DEF Next, StartJob, ClearWorkspace, CopySource, SnapshotOutputs, JobRaises, FinalAnswer, StopJob,
           Restart, EndOfMessage, End, Over
<1>2. /\ calls[c].pc \in InThread /\ calls'[c].use = calls[c].use /\ calls[c].use \in Use
      /\ calls[c] \in Call /\ Fits(calls[c])
  BY <1>1, Lasting, WritersWork, Facts DEF InThread, CallOK
<1>3. calls'[c] = calls[c] \/ ReadText(c)
  <2>1. ASSUME NEW d \in Calls, Thread(d), d # c PROVE calls'[c] = calls[c]
    BY <2>1, ThreadMoves, Facts DEF Moved
  <2>2. CASE Thread(c)
    <3>1. ~Raise(c)
      BY <1>2, RaiseDoesNotPut
    <3>2. CASE CheckAbsent(c)
      BY <1>2, <3>2 DEF CheckAbsent, At, Fits
    <3>3. CASE ReadText(c)
      BY <3>3
    <3>4. CASE ProgramWrites(c)
      BY <3>4 DEF ProgramWrites
    <3>5. ASSUME NEW pc, pc # "put", Step(c, pc) PROVE FALSE
      BY <1>2, <3>5, Facts DEF Step, Call
    <3>6. ASSUME NEW failed, calls' = [calls EXCEPT ![c].pc = "cleanup", ![c].failed = failed]
          PROVE  FALSE
      BY <1>2, <3>6, Facts DEF Call
    <3>7. QED
      BY <2>2, <3>1, <3>2, <3>3, <3>4, <3>5, <3>6
         DEF Thread, LoadSkill, WriteText, Validate, ProgramEnds, CreateSandbox, UseSandbox,
             CollectOutputs, Cleanup
  <2>3. ASSUME NEW S \in SUBSET Unused, NEW uses \in [S -> Use], AskTools(uses)
        PROVE  calls'[c] = calls[c]
    BY <1>1, <2>3 DEF AskTools, Unused
  <2>4. CASE StopJob \/ EndOfMessage \/ Restart
    BY <1>2, <2>4, Facts DEF StopJob, EndOfMessage, Restart, Call, InThread, Over
  <2>5. QED
    BY <2>1, <2>2, <2>3, <2>4
       DEF Next, StartJob, ClearWorkspace, CopySource, SnapshotOutputs, JobRaises, FinalAnswer, End
<1>4. QED
  BY <1>2, <1>3

(***************************************************************************)
(* Two calls at work overlap.                                              *)
(***************************************************************************)
LEMMA WorkersOverlap ==
  ASSUME CInv, NEW c \in Calls, NEW d \in Calls, calls[c].pc \in InThread, calls[d].pc \in InThread
  PROVE  Overlap(c, d)
BY WritersWork DEF Overlap

\* What a call that edits has read covers the file, unless it overlaps the
\* writer.
LEMMA SeenStep == ASSUME EInv, Next, NEW c \in Calls PROVE SeenOK(c)'
<1>0. CInv /\ SeenOK(c)
  BY DEF EInv
<1> SUFFICES ASSUME calls'[c].pc = "put", calls'[c].use.tool = "replace_text" PROVE SeenOK(c)'
  BY DEF SeenOK
<1> DEFINE p == calls[c].use.arg
<1>1. /\ calls'[c] = calls[c] \/ ReadText(c)
      /\ calls[c].pc \in InThread /\ calls[c].use \in Use /\ calls'[c].use = calls[c].use
      /\ calls[c] \in Call /\ calls[c].pc # "unused"
  BY <1>0, PutStays, Facts DEF InThread
<1>2. p \in Shared /\ p \in Places
  BY <1>1 DEF Use, Places
<1>3. CASE ReadText(c)
  <2>1. \/ Step(c, "put")
        \/ files[p] # None /\ calls' = [calls EXCEPT ![c].pc = "put", ![c].seen = files[p].has]
        \/ Raise(c)
    BY <1>3 DEF ReadText
  <2>2. ~Raise(c)
    BY <1>0, <1>1, RaiseDoesNotPut
  <2>3. UNCHANGED files /\ calls' = [calls EXCEPT ![c].pc = "put", ![c].seen = files[p].has]
    BY <1>3, <2>2 DEF ReadText
  <2>4. calls'[c].seen = files[p].has /\ calls'[c].use.arg = p
    BY <1>0, <1>1, <2>3, Facts DEF Call
  <2>5. QED
    BY <2>3, <2>4 DEF SeenOK
<1>4. CASE calls'[c] = calls[c] /\ files'[p] = files[p]
  <2>1. files[p] = None \/ files[p].has \subseteq calls[c].seen
           \/ (files[p].by \in Calls /\ Overlap(c, files[p].by))
    BY <1>0, <1>4 DEF SeenOK
  <2>2. PICK d : d = files[p].by
    OBVIOUS
  <2>3. d \in Calls /\ Overlap(c, d) => Overlap(c, d)'
    BY <1>0, <1>1, OverlapLasts
  <2>4. QED
    BY <1>4, <2>1, <2>2, <2>3 DEF SeenOK, Overlap, Outlived
<1>5. CASE calls'[c] = calls[c] /\ files'[p] # files[p]
  <2>1. CASE StartJob
    BY <1>0, <1>2, <1>5, <2>1, Facts DEF StartJob, Shared
  <2>2. CASE ClearWorkspace
    BY <1>2, <1>5, <2>2 DEF ClearWorkspace, NoFiles, SeenOK
  <2>3. CASE CopySource
    <3>1. files'[p].has = {}
      BY <1>0, <1>2, <1>5, <2>3, Facts DEF CopySource
    <3>2. QED
      BY <1>5, <3>1 DEF SeenOK
  <2>4. ASSUME NEW d \in Calls, Thread(d) PROVE SeenOK(c)'
    <3>1. files'[p].by = d /\ calls[d].pc \in InThread
      BY <1>0, <1>2, <1>5, <2>4, ThreadWrites, Facts DEF Store
    <3>2. Overlap(c, d)'
      BY <1>0, <1>1, <3>1, WorkersOverlap, OverlapLasts
    <3>3. QED
      BY <1>5, <3>1, <3>2 DEF SeenOK, Overlap, Outlived
  <2>5. QED
    BY <1>5, <2>1, <2>2, <2>3, <2>4
       DEF Next, SnapshotOutputs, JobRaises, FinalAnswer, StopJob, Restart, AskTools, EndOfMessage, End
<1>6. QED
  BY <1>1, <1>3, <1>4, <1>5

\* Every step keeps that for all calls.
LEMMA EInvStep == EInv /\ [Next]_vars => EInv'
<1>1. CASE UNCHANGED vars
  BY <1>1, ZenonT(40)
     DEF vars, EInv, CInv, TypeOK, Control, CallOK, Asked, Fits, Before, AtWork, Latest, JobRuns,
              SeenOK, Overlap, Outlived
<1>2. QED
  BY <1>1, CInvStep, SeenStep DEF EInv

\* What EditsAreKept says of one step.
Keeps(p) ==
  Loses(p) =>
    LET c == files'[p].by IN
    \/ c = "copy"
    \/ calls[c].use.tool \in {"write_file", "run_code", "run_script"}
    \/ Overlap(c, files[p].by)

\* So a step that loses an edit is excused.
LEMMA KeepsStep == ASSUME EInv, [Next]_vars, NEW p \in Shared PROVE Keeps(p)
<1>0. CInv /\ p \in Places
  BY DEF EInv, Places
<1>1. CASE files'[p] = files[p]
  BY <1>1 DEF Keeps, Loses
<1>2. ASSUME NEW c \in Calls, Thread(c), files'[p] # files[p] PROVE Keeps(p)
  <2>1. PICK has \in SUBSET Calls :
          /\ files'[p] = [by |-> c, has |-> has]
          /\ \/ calls[c].use.tool \in {"run_code", "run_script"}
             \/ calls[c].pc = "put" /\ p = calls[c].use.arg /\ has = calls[c].seen \cup {c}
    BY <1>0, <1>2, ThreadWrites, Facts DEF Store
  <2>2. CASE calls[c].pc = "put" /\ p = calls[c].use.arg /\ has = calls[c].seen \cup {c}
    <3>1. calls[c].use.tool \in {"write_file", "replace_text"} /\ SeenOK(c)
      BY <1>0, <2>2, Facts DEF CallOK, Fits, EInv
    <3>2. QED
      BY <2>1, <2>2, <3>1 DEF Keeps, Loses, SeenOK
  <2>3. QED
    BY <2>1, <2>2 DEF Keeps
<1>3. CASE CopySource \/ StartJob \/ ClearWorkspace
  BY <1>0, <1>3, Facts
     DEF CopySource, StartJob, ClearWorkspace, NoFiles, Shared, Keeps, Loses
<1>4. QED
  BY <1>1, <1>2, <1>3
     DEF Next, vars, SnapshotOutputs, JobRaises, FinalAnswer, StopJob, Restart, AskTools, EndOfMessage, End

-----------------------------------------------------------------------------
(* The results                                                             *)

(***************************************************************************)
(* Every reachable state is well typed.                                    *)
(***************************************************************************)
THEOREM TypeCorrect == Spec => []TypeOK
<1>1. CInv => TypeOK
  BY DEF CInv
<1>2. QED
  BY CallsInvariant, <1>1, PTL

(***************************************************************************)
(* A sandbox is in the hands of a call at work until it is cleaned up      *)
(* (core/workspace.py, DaytonaExecutionBackend.execute).                   *)
(***************************************************************************)
THEOREM SandboxesOwned == Spec => []SandboxesAreOwned
BY SandboxInit, SandboxStep, CallsInvariant, PTL DEF Spec

(***************************************************************************)
(* A job delivers what one of its own calls has made, or a call that       *)
(* outlived its job (core/agent.py, _find_generated_output).               *)
(***************************************************************************)
THEOREM DeliveriesMade == Spec => []DeliveryWasMade
<1>1. Init => DInv
  BY InitCInv DEF Init, DInv, OutputMade, DeliveryWasMade
<1>2. DInv => DeliveryWasMade
  BY DEF DInv
<1>3. QED
  BY <1>1, <1>2, DInvStep, PTL DEF Spec

(***************************************************************************)
(* A workspace tool runs only under a skill that an earlier message of the *)
(* same job has loaded (core/agent.py, SkillAwareAgentState).              *)
(***************************************************************************)
THEOREM ToolsAuthorised == Spec => []ToolsWereAuthorised
<1>1. Init => AInv
  BY InitCInv DEF Init, AInv, ActiveLoaded, ToolsWereAuthorised, NewCall, InThread
<1>2. AInv => ToolsWereAuthorised
  BY DEF AInv
<1>3. QED
  BY <1>1, <1>2, AInvStep, PTL DEF Spec

(***************************************************************************)
(* An edit is lost only to a call that writes the file anew or overlaps    *)
(* the last writer (core/workspace.py, replace_text).                      *)
(***************************************************************************)
THEOREM EditsKept == Spec => EditsAreKept
<1>1. Init => EInv
  BY InitCInv DEF Init, EInv, SeenOK, NewCall
<1>2. EInv /\ [Next]_vars => [\A p \in Shared : Keeps(p)]_vars
  BY KeepsStep
<1>3. Spec => [][\A p \in Shared : Keeps(p)]_vars
  BY <1>1, <1>2, EInvStep, PTL DEF Spec
<1>4. QED
  BY <1>3, PTL DEF EditsAreKept, Keeps

=============================================================================
