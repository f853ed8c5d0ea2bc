------------------------- MODULE WorkspaceExecution -------------------------
(***************************************************************************)
(* The workspace of the artifact jobs of one thread and one artifact type: *)
(* core/workspace.py, the skill tools and policy of core/skills.py and     *)
(* core/agent.py, and the part of AgentRuntime._run_artifact_job that      *)
(* prepares the workspace, runs the nested agent and looks for its output. *)
(*                                                                         *)
(* The jobs of a thread follow one another and share one directory.  The   *)
(* nested agent sends messages of tool calls; the calls of one message run *)
(* in parallel, each in a thread of the executor, and the next message     *)
(* waits for all of them.  A job that is cancelled does not wait, and a    *)
(* thread cannot be cancelled: its call outlives the job.                  *)
(***************************************************************************)
EXTENDS Naturals, FiniteSets

CONSTANTS
  Calls,        \* tool calls, each made at most once
  MaxJobs,      \* bound: jobs that use the workspace, one after the other
  MaxAttempts,  \* ToolRetryMiddleware: retries of a call that raises, plus one
  Skills,       \* the registered skills
  CodingSkills, \* those whose allowed-tools list the workspace tools
  None

ASSUME WorkspaceAssumption ==
  /\ MaxJobs \in Nat
  /\ MaxAttempts \in Nat \ {0}
  /\ CodingSkills \subseteq Skills
  /\ None \notin Calls
  /\ "copy" \notin Calls

VARIABLES
  backend,    \* the execution backend
  job,        \* the number of the latest job
  stage,      \* what that job is doing
  result,     \* how each job ended
  delivered,  \* the file that each job registered as its artifact
  files,      \* the files of the allowed extension that the job can see
  changed,    \* those that differ from the snapshot made before the agent started
  active,     \* the skills in the state of the nested agent
  message,    \* the messages with tool calls the nested agent has sent
  calls,      \* the tool calls
  box         \* the sandbox of every attempt of every call

vars == <<backend, job, stage, result, delivered, files, changed, active, message,
          calls, box>>
jobVars == <<job, stage, result, delivered, active, message>>

(***************************************************************************)
(* The source of a revision and another file stand in the directory of the *)
(* thread; "out" stands in AGENT_OUTPUT_DIR, which every run has for       *)
(* itself.  A file is known by its last writer, and by the calls whose     *)
(* effect its content holds.                                               *)
(***************************************************************************)
Shared == {"source", "made"}
Places == Shared \cup {"out"}
Jobs == 1..MaxJobs
Attempts == 1..MaxAttempts
File == [by : Calls \cup {"copy"}, has : SUBSET Calls]
NoFiles == [p \in Places |-> None]

ASSUME FileAssumption == None \notin File

Use == [tool : {"load_skill"}, arg : Skills] \cup [tool : {"write_file", "replace_text"}, arg : Shared]
         \cup [tool : {"run_code", "run_script"}, arg : {None}]
FirstStep ==
  [load_skill |-> "load", write_file |-> "check", replace_text |-> "read", run_code |-> "validate",
   run_script |-> "program"]
InThread == {"load", "check", "read", "put", "validate", "program", "create", "sandbox",
             "collect", "cleanup"}
Over == {"unused", "done", "killed"}

\* pc: the call's step; failed: its attempt ends in an exception.
Call == [pc : InThread \cup Over \cup {"loaded"}, use : Use \cup {None}, job : 0..MaxJobs,
         message : Nat, attempt : 0..MaxAttempts, seen : SUBSET Calls, failed : BOOLEAN]
NewCall == [pc |-> "unused", use |-> None, job |-> 0, message |-> 0, attempt |-> 0,
            seen |-> {}, failed |-> FALSE]

TypeOK ==
  /\ backend \in {"local", "daytona"}
  /\ job \in 0..MaxJobs
  /\ stage \in {"idle", "clear", "copy", "snapshot", "agent"}
  /\ result \in [Jobs -> {"none", "running", "stopped", "interrupted", "ready", "failed"}]
  /\ delivered \in [Jobs -> File \cup {None}]
  /\ files \in [Places -> File \cup {None}]
  /\ changed \subseteq Places
  /\ active \subseteq Skills
  /\ message \in Nat
  /\ calls \in [Calls -> Call]
  /\ box \in [Calls \X Attempts -> {"none", "live", "cleaned"}]

Init ==
  /\ backend \in {"local", "daytona"}
  /\ job = 0 /\ stage = "idle" /\ message = 0 /\ active = {}
  /\ result = [j \in Jobs |-> "none"]
  /\ delivered = [j \in Jobs |-> None]
  /\ files = NoFiles /\ changed = {}
  /\ calls = [c \in Calls |-> NewCall]
  /\ box = [a \in Calls \X Attempts |-> "none"]

-----------------------------------------------------------------------------
(***************************************************************************)
(* The job.  Nothing is awaited between the start of the clearing and the  *)
(* start of the agent, but the threads of other calls go on meanwhile.     *)
(***************************************************************************)
Mine == {c \in Calls : calls[c].job = job}
Waiting == \E c \in Mine : calls[c].pc \notin Over

\* Mutant: the new agent starts from the old state.
StartJobKeepsSkills ==
  /\ stage = "idle"
  /\ job < MaxJobs
  /\ job' = job + 1
  /\ stage' = "clear"
  /\ result' = [result EXCEPT ![job'] = "running"]
  /\ files' = [files EXCEPT !["out"] = None]
  /\ message' = 0
  /\ UNCHANGED <<backend, delivered, changed, active, calls, box>>

StartJob ==
  /\ stage = "idle"
  /\ job < MaxJobs
  /\ job' = job + 1
  /\ stage' = "clear"
  /\ result' = [result EXCEPT ![job'] = "running"]
  /\ files' = [files EXCEPT !["out"] = None]
  /\ active' = {} /\ message' = 0
  /\ UNCHANGED <<backend, delivered, changed, calls, box>>

ClearWorkspace ==
  /\ stage = "clear"
  /\ stage' \in {"copy", "snapshot"}   \* a revision, a creation
  /\ files' = NoFiles
  /\ UNCHANGED <<backend, job, result, delivered, changed, active, message, calls, box>>

\* _prepare_revision_workspace
CopySource ==
  /\ stage = "copy"
  /\ stage' = "snapshot"
  /\ files' = [files EXCEPT !["source"] = [by |-> "copy", has |-> {}]]
  /\ UNCHANGED <<backend, job, result, delivered, changed, active, message, calls, box>>

SnapshotOutputs ==
  /\ stage = "snapshot"
  /\ stage' = "agent"
  /\ changed' = {}
  /\ UNCHANGED <<backend, job, result, delivered, files, active, message, calls, box>>

End(how, what) ==
  /\ stage' = "idle"
  /\ result' = [result EXCEPT ![job] = how]
  /\ delivered' = [delivered EXCEPT ![job] = what]
  /\ changed' = {}
  /\ UNCHANGED <<backend, job, files, active, message, box>>

\* Anything the job calls raises; its tool calls do not (the retry
\* middleware answers for them), except that the state of the agent takes
\* one value of active_skills per step.
JobRaises ==
  /\ stage # "idle"
  /\ ~Waiting
  /\ End("failed", None)
  /\ UNCHANGED calls

(***************************************************************************)
(* _find_generated_output: a changed file, the output directory before the *)
(* shared one.  Which of two changed files of the shared directory is the  *)
(* later one is left open.                                                 *)
(***************************************************************************)
\* Mutant: every file counts as a new one.
AnyFile == {p \in Places : files[p] # None}

Candidates == IF changed # {} THEN changed ELSE {p \in {"out"} : files[p] # None}

BestCandidates == IF "out" \in Candidates THEN {"out"} ELSE Candidates

FinalAnswer ==
  /\ stage = "agent"
  /\ ~Waiting
  /\ \/ \E p \in BestCandidates : End("ready", files[p])
     \/ BestCandidates = {} /\ End("failed", None)
  /\ UNCHANGED calls

\* The client leaves: the job is cancelled where it awaits the agent.
StopJob ==
  /\ stage = "agent"
  /\ End("stopped", None)
  /\ calls' = [c \in Calls |->
                 IF c \in Mine /\ calls[c].pc = "loaded" THEN [calls[c] EXCEPT !.pc = "done"]
                                                         ELSE calls[c]]

Restart ==
  /\ stage # "idle" \/ \E c \in Calls : calls[c].pc \notin Over
  /\ stage' = "idle" /\ changed' = {}
  /\ result' = [j \in Jobs |-> IF result[j] = "running" THEN "interrupted" ELSE result[j]]
  /\ calls' = [c \in Calls |->
                 IF calls[c].pc \in Over THEN calls[c] ELSE [calls[c] EXCEPT !.pc = "killed"]]
  /\ UNCHANGED <<backend, job, delivered, files, active, message, box>>

-----------------------------------------------------------------------------
(***************************************************************************)
(* The nested agent and its policy: a workspace tool needs an active skill *)
(* that lists it, and the state it is checked against is the one of the    *)
(* message.  A call that is refused is answered at once.                   *)
(***************************************************************************)
SkillTools == {"load_skill", "run_script"}
Authorised(use) == use.tool \in SkillTools \/ active \cap CodingSkills # {}

AskTools(uses) ==   \* uses: a function from unused calls to what they ask for
  /\ stage = "agent"
  /\ ~Waiting
  /\ DOMAIN uses # {}
  /\ \A c \in DOMAIN uses : calls[c].pc = "unused"
  /\ message' = message + 1
  /\ calls' = [c \in Calls |->
                 IF c \in DOMAIN uses
                 THEN [pc |-> IF Authorised(uses[c]) THEN FirstStep[uses[c].tool] ELSE "done",
                       use |-> uses[c], job |-> job, message |-> message', attempt |-> 1,
                       seen |-> {}, failed |-> FALSE]
                 ELSE calls[c]]
  /\ UNCHANGED <<backend, job, stage, result, delivered, files, changed, active, box>>

\* The tools of the message have answered: the one skill that was loaded
\* becomes active, two of them are two values for one channel and raise.
EndOfMessage ==
  LET loaded == {c \in Mine : calls[c].pc = "loaded"} IN
  /\ stage = "agent"
  /\ loaded # {}
  /\ \A c \in Mine : calls[c].pc \in Over \cup {"loaded"}
  /\ calls' = [c \in Calls |-> IF c \in loaded THEN [calls[c] EXCEPT !.pc = "done"] ELSE calls[c]]
  /\ \/ /\ Cardinality(loaded) = 1
        /\ active' = active \cup {calls[c].use.arg : c \in loaded}
        /\ UNCHANGED <<backend, job, stage, result, delivered, files, changed, message, box>>
     \/ /\ Cardinality(loaded) > 1
        /\ End("failed", None)

-----------------------------------------------------------------------------
(* The thread of a call.                                                   *)

At(c, pc) == calls[c].pc = pc
Step(c, pc) == calls' = [calls EXCEPT ![c].pc = pc]

\* The job that made the call still waits for it.
Awaited(c) == calls[c].job = job /\ stage = "agent"

\* The call raises: the middleware tries again while the job waits.
Failing(c, call) ==
  IF Awaited(c) /\ call.attempt < MaxAttempts
  THEN [call EXCEPT !.pc = FirstStep[call.use.tool], !.attempt = @ + 1, !.failed = FALSE]
  ELSE [call EXCEPT !.pc = "done"]

Raise(c) == calls' = [calls EXCEPT ![c] = Failing(c, @)]

\* Content goes to the directory of the thread, or to the output directory
\* of the call's own run, which a later job does not see.
Store(c, place, has) ==
  IF place = "out" /\ calls[c].job # job
  THEN UNCHANGED <<files, changed>>
  ELSE /\ files' = [files EXCEPT ![place] = [by |-> c, has |-> has]]
       /\ changed' = IF stage = "agent" THEN changed \cup {place} ELSE changed

LoadSkill(c) ==
  /\ At(c, "load")
  /\ \/ Step(c, IF Awaited(c) THEN "loaded" ELSE "done")
     \/ Step(c, "done")   \* SkillValidationError is an answer
  /\ UNCHANGED <<backend, jobVars, files, changed, box>>

\* write_file: without overwrite an existing file is an error.
CheckAbsent(c) ==
  /\ At(c, "check")
  /\ \/ Step(c, "put")
     \/ Raise(c)
  /\ UNCHANGED <<backend, jobVars, files, changed, box>>

\* Mutant: the change is made to an older content.
ReadOldText(c) ==
  /\ At(c, "read")
  /\ \/ files[calls[c].use.arg] # None /\ Step(c, "put")
     \/ Raise(c)
  /\ UNCHANGED <<backend, jobVars, files, changed, box>>

\* replace_text reads the file, and later writes it with its change.
ReadText(c) ==
  /\ At(c, "read")
  /\ LET file == files[calls[c].use.arg] IN
       \/ /\ file # None
          /\ calls' = [calls EXCEPT ![c].pc = "put", ![c].seen = file.has]
       \/ Raise(c)
  /\ UNCHANGED <<backend, jobVars, files, changed, box>>

WriteText(c) ==
  /\ At(c, "put")
  /\ \/ /\ Store(c, calls[c].use.arg, calls[c].seen \cup {c})
        /\ Step(c, "done")
     \/ Raise(c) /\ UNCHANGED <<files, changed>>
  /\ UNCHANGED <<backend, jobVars, box>>

\* run_code up to the backend: the entry point exists and installs nothing.
Validate(c) ==
  /\ At(c, "validate")
  /\ \/ Step(c, IF backend = "local" THEN "program" ELSE "create")
     \/ Raise(c)
  /\ UNCHANGED <<backend, jobVars, files, changed, box>>

\* LocalSubprocessExecutionBackend, and SkillRegistry.run_skill_script: the
\* program works in the directory, or with the paths it is given.
ProgramWrites(c) ==
  /\ At(c, "program")
  /\ \E p \in Places : Store(c, p, {c})
  /\ UNCHANGED <<backend, jobVars, calls, box>>

\* Any exit code, or killed after the time limit: both are results.  (A script
\* that is not one of the skill's is an answer, too.)
ProgramEnds(c) ==
  /\ At(c, "program")
  /\ Step(c, "done")
  /\ UNCHANGED <<backend, jobVars, files, changed, box>>

\* DaytonaExecutionBackend.  A creation that raises leaves no sandbox to
\* clean up in the hands of the call, whatever the service has made.
CreateSandbox(c) ==
  /\ At(c, "create")
  /\ \/ Step(c, "sandbox") /\ box' = [box EXCEPT ![<<c, calls[c].attempt>>] = "live"]
     \/ Raise(c) /\ UNCHANGED box
  /\ UNCHANGED <<backend, jobVars, files, changed>>

\* Mutant: an exception passes the clean-up by.
UseSandboxUnguarded(c) ==
  /\ At(c, "sandbox")
  /\ \/ Step(c, "collect")
     \/ Step(c, "cleanup")
     \/ Raise(c)
  /\ UNCHANGED <<backend, jobVars, files, changed, box>>

\* Directories, upload and execution.  A time-out is a result.
UseSandbox(c) ==
  /\ At(c, "sandbox")
  /\ \/ Step(c, "collect")
     \/ \E failed \in BOOLEAN :
          calls' = [calls EXCEPT ![c].pc = "cleanup", ![c].failed = failed]
  /\ UNCHANGED <<backend, jobVars, files, changed, box>>

CollectOutputs(c) ==
  /\ At(c, "collect")
  /\ Store(c, "out", {c}) \/ UNCHANGED <<files, changed>>
  /\ \E failed \in BOOLEAN : calls' = [calls EXCEPT ![c].pc = "cleanup", ![c].failed = failed]
  /\ UNCHANGED <<backend, jobVars, box>>

\* The finally block: the sandbox is deleted, stopped or left, as the settings
\* say, and an error of the clean-up itself is logged.
Cleanup(c) ==
  /\ At(c, "cleanup")
  /\ box' = [box EXCEPT ![<<c, calls[c].attempt>>] = "cleaned"]
  /\ IF calls[c].failed THEN Raise(c) ELSE Step(c, "done")
  /\ UNCHANGED <<backend, jobVars, files, changed>>

Thread(c) ==
  \/ LoadSkill(c) \/ CheckAbsent(c) \/ ReadText(c) \/ WriteText(c) \/ Validate(c)
  \/ ProgramWrites(c) \/ ProgramEnds(c)
  \/ CreateSandbox(c) \/ UseSandbox(c) \/ CollectOutputs(c) \/ Cleanup(c)

Unused == {c \in Calls : calls[c].pc = "unused"}

Next ==
  \/ StartJob \/ ClearWorkspace \/ CopySource \/ SnapshotOutputs
  \/ JobRaises \/ FinalAnswer \/ StopJob \/ Restart
  \/ \E S \in SUBSET Unused : \E uses \in [S -> Use] : AskTools(uses)
  \/ EndOfMessage
  \/ \E c \in Calls : Thread(c)

Spec == Init /\ [][Next]_vars

-----------------------------------------------------------------------------
(***************************************************************************)
(* The artifact a job registers was made by a tool call of that job: never *)
(* the source it was given, and never the file of another job, unless a    *)
(* call of a stopped job was still writing.  (ARTIFACT_EXECUTION_CONTRACT, *)
(* core/agent.py: "A final response without a generated file is a failed   *)
(* job.")                                                                  *)
(***************************************************************************)
Outlived(c) == calls[c].job # 0 /\ result[calls[c].job] = "stopped"

DeliveryWasMade ==
  \A j \in Jobs : result[j] = "ready" =>
    /\ delivered[j] # None
    /\ delivered[j].by \in Calls
    /\ LET c == delivered[j].by IN calls[c].job = j \/ Outlived(c)

(***************************************************************************)
(* No sandbox is left running: one that was created is in the hands of a   *)
(* call at work, until its clean-up has been tried, whatever raised or ran *)
(* out of time between.  Only the end of the process leaves one behind.    *)
(***************************************************************************)
SandboxesAreOwned ==
  \A c \in Calls, n \in Attempts : box[<<c, n>>] = "live" =>
    \/ calls[c].attempt = n /\ calls[c].pc \in {"sandbox", "collect", "cleanup"}
    \/ calls[c].pc = "killed"

(***************************************************************************)
(* A workspace tool runs only after an earlier message of the same job has *)
(* loaded a skill that allows it: neither a skill of an earlier job nor    *)
(* one that the same message loads will do.                                *)
(***************************************************************************)
ToolsWereAuthorised ==
  \A c \in Calls : (calls[c].pc \in InThread /\ calls[c].use.tool \notin SkillTools) =>
    \E d \in Calls :
      /\ calls[d].use \in [tool : {"load_skill"}, arg : CodingSkills]
      /\ calls[d].pc = "done" \/ calls[d].pc = "killed"
      /\ calls[d].job = calls[c].job
      /\ calls[d].message < calls[c].message

(***************************************************************************)
(* replace_text keeps what other calls have written: an edit disappears    *)
(* from a file only when the file is written anew or cleared, or when the  *)
(* call that rewrites it overlaps the one that wrote it last, because they *)
(* are of one message or one of them outlived its job.                     *)
(***************************************************************************)
Overlap(c, d) ==
  \/ calls[c].job = calls[d].job /\ calls[c].message = calls[d].message
  \/ Outlived(c) \/ Outlived(d)

Loses(p) == files[p] # None /\ files'[p] # None /\ ~(files[p].has \subseteq files'[p].has)

EditsAreKept ==
  [][\A p \in Shared : Loses(p) =>
       LET c == files'[p].by IN
       \/ c = "copy"   \* the next job prepares its directory
       \/ calls[c].use.tool \in {"write_file", "run_code", "run_script"}
       \/ Overlap(c, files[p].by)]_vars

=============================================================================
