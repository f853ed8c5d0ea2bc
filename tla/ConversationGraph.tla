-------------------------- MODULE ConversationGraph --------------------------
(***************************************************************************)
(* The state graph of one conversation thread (build_agent_graph,          *)
(* app/core/graph.py) as its checkpointer sees it: a turn walks from node  *)
(* to node, one super-step at a time, until the graph ends, a node         *)
(* interrupts to ask the teacher, or the run stops because a node raised,  *)
(* the client left or the process died.  The answer to an interrupt        *)
(* resumes the graph at the node that asked; any other input starts again  *)
(* at the first node, over the state earlier turns left behind.            *)
(*                                                                         *)
(* Kept of the state are the fields that route: the catalog, whether the   *)
(* metadata is complete, memory_reflection_goto, the generation targets,   *)
(* the revision sources and the artifact results.  What the models decide  *)
(* (the intent, the completeness, the targets a message names) is chosen   *)
(* freely.                                                                 *)
(***************************************************************************)
EXTENDS Naturals, FiniteSets

CONSTANTS
  Types,      \* GENERATABLE_ARTIFACT_TYPES
  StopNodes,  \* the nodes at which a run may stop
  MaxInputs   \* inputs the thread can take (bounds the model)

VARIABLES
  at,        \* the node to run next
  running,   \* whether a run is under way
  pending,   \* whether the checkpoint holds an interrupt of node at
  inputs,    \* inputs taken so far; a pending interrupt is identified by it
  goto,      \* memory_reflection_goto
  catalog,   \* artifact_catalog, one entry per type
  complete,  \* teaching_metadata.is_complete
  targets,   \* generation_targets
  sources,   \* revision_source_artifacts
  jobs,      \* the types whose artifact nodes the last fan-out scheduled
  result,    \* ppt_result, lesson_plan_result, game_result
  stale,     \* history: goto was left behind by a run that stopped
  astray     \* history: a stale goto has led the dialogue to the plan review

fields == <<goto, catalog, complete, targets, sources, jobs, result>>
ghosts == <<stale, astray>>
vars   == <<at, running, pending, inputs, fields, ghosts>>

ApprovalNodes == {"metadata_review", "teaching_plan_review", "artifact_revision_clarification"}
Interrupts    == ApprovalNodes \cup {"interrupt_for_userinput"}

\* The edges of the nodes that neither route nor set a field that does.
Edge == [
  profile_memory_load                |-> "intent_router",
  normal_chat_memory_retrieval       |-> "normal_chat",
  teaching_plan_memory_retrieval     |-> "metadata_structer",
  teaching_design_memory_retrieval   |-> "rag_retrieval",
  artifact_revision_memory_retrieval |-> "artifact_revision_router",
  rag_retrieval                      |-> "teaching_design_planner",
  artifact_fan_in                    |-> "profile_memory_reflection",
  experience_memory_reflection       |-> "END"]

Retrievals == {"normal_chat_memory_retrieval", "teaching_plan_memory_retrieval",
               "artifact_revision_memory_retrieval"}

Nodes == DOMAIN Edge \cup Interrupts \cup
  {"intent_router", "normal_chat", "metadata_structer", "follow_up_questioner",
   "teaching_design_planner", "artifact_revision_router", "generate", "revise",
   "profile_memory_reflection"}

ASSUME GraphAssumption == StopNodes \subseteq Nodes /\ MaxInputs \in Nat

Gotos == {"none", "END", "interrupt_for_userinput", "teaching_plan_review"}

\* Every variable has its type, and an interrupt that waits was raised by
\* the node the graph stands at.
TypeOK ==
  /\ at \in Nodes \cup {"END"}
  /\ running \in BOOLEAN
  /\ pending \in BOOLEAN
  /\ inputs \in 0 .. MaxInputs
  /\ goto \in Gotos
  /\ catalog \in SUBSET Types
  /\ complete \in BOOLEAN
  /\ targets \in SUBSET Types
  /\ sources \in SUBSET Types
  /\ jobs \in SUBSET Types
  /\ result \in [Types -> {"pending", "ready", "failed"}]
  /\ stale \in BOOLEAN
  /\ astray \in BOOLEAN
  /\ pending => at \in Interrupts /\ ~running

-----------------------------------------------------------------------------
(* Inputs: _get_graph_input_with_plan, called with the thread's lock held   *)

Input == ~running /\ inputs < MaxInputs /\ inputs' = inputs + 1 /\ running' = TRUE

\* Mutant: the turn starts whatever waits.
StartTurnAnyway ==
  /\ Input
  /\ at' = "profile_memory_load"
  /\ pending' = FALSE
  /\ catalog' \in SUBSET Types
  /\ stale' = (goto # "none") /\ astray' = FALSE
  /\ UNCHANGED <<goto, complete, targets, sources, jobs, result>>

\* No interrupt waits: a fresh input, with the catalog as the table has it.
\* Tasks of a stopped run are discarded; the state it wrote is not.
StartTurn ==
  /\ ~pending
  /\ Input
  /\ at' = "profile_memory_load"
  /\ catalog' \in SUBSET Types
  /\ stale' = (goto # "none") /\ astray' = FALSE
  /\ UNCHANGED <<pending, goto, complete, targets, sources, jobs, result>>

\* Mutant: the sources of an earlier revision are kept.
GenerateKeepingSources(selected) ==
  /\ targets' = selected
  /\ jobs' = selected
  /\ result' = [t \in Types |-> IF t \in selected THEN "pending" ELSE result[t]]
  /\ UNCHANGED sources

\* _generation_result_reset_update and the fan-out to the generation nodes.
Generate(selected) ==
  /\ targets' = selected
  /\ sources' = {}
  /\ jobs' = selected
  /\ result' = [t \in Types |-> IF t \in selected THEN "pending" ELSE result[t]]

\* Mutant: a revision forgets to reset the results.
ReviseKeeping(selected) ==
  /\ sources' = selected
  /\ jobs' = selected
  /\ UNCHANGED <<targets, result>>

\* _revision_result_reset_update and the fan-out to the revision nodes.
Revise(selected) ==
  /\ sources' = selected
  /\ jobs' = selected
  /\ result' = [t \in Types |-> IF t \in selected THEN "pending" ELSE result[t]]
  /\ UNCHANGED targets

NoFanOut == UNCHANGED <<targets, sources, jobs, result>>

\* An interrupt waits: the node that asked runs again with the answer.  A
\* message goes back to the node that works it in.
ResumeMessage ==
  /\ at' = CASE at = "interrupt_for_userinput"         -> "metadata_structer"
             [] at = "metadata_review"                 -> "metadata_structer"
             [] at = "teaching_plan_review"            -> "teaching_design_memory_retrieval"
             [] at = "artifact_revision_clarification" -> "artifact_revision_memory_retrieval"
  /\ NoFanOut

\* An approval; at the plan review it carries the selected types.  A question
\* that is no approval takes it for an empty message.
ResumeApprove(selected) ==
  \/ at = "interrupt_for_userinput" /\ at' = "metadata_structer" /\ NoFanOut
  \/ at = "metadata_review" /\ at' = "teaching_design_memory_retrieval" /\ NoFanOut
  \/ at = "teaching_plan_review" /\ selected = {} /\ at' = "END" /\ NoFanOut
  \/ at = "teaching_plan_review" /\ selected # {} /\ at' = "generate" /\ Generate(selected)
  \/ at = "artifact_revision_clarification" /\ at' = "revise" /\ Revise(catalog)

Answer == pending /\ Input /\ pending' = FALSE /\ UNCHANGED <<goto, catalog, complete, ghosts>>

Resume == Answer /\ (ResumeMessage \/ \E selected \in SUBSET Types : ResumeApprove(selected))

-----------------------------------------------------------------------------
(* Nodes                                                                   *)

Leave(node, next) == running /\ at = node /\ at' = next /\ UNCHANGED <<running, pending, inputs>>

Pass ==
  /\ at \in DOMAIN Edge
  /\ Leave(at, Edge[at])
  /\ UNCHANGED <<fields, ghosts>>

\* intent_router_node and route_decision
Route ==
  /\ \E retrieval \in Retrievals : Leave("intent_router", retrieval)
  /\ UNCHANGED <<fields, ghosts>>

\* The nodes whose answer is reflected on before the graph goes on.
Speak(node, next) ==
  /\ Leave(node, "profile_memory_reflection")
  /\ goto' = next
  /\ stale' = FALSE
  /\ UNCHANGED <<catalog, complete, astray>>
  /\ NoFanOut

Chat     == Speak("normal_chat", "END")
FollowUp == Speak("follow_up_questioner", "interrupt_for_userinput")
Plan     == Speak("teaching_design_planner", "teaching_plan_review")

\* Mutants: incomplete metadata is extracted again; the review does not wait
\* for complete metadata.
StructureRetry ==
  /\ complete' \in BOOLEAN
  /\ Leave("metadata_structer", IF complete' THEN "metadata_review"
                                ELSE "teaching_plan_memory_retrieval")
  /\ UNCHANGED <<goto, catalog, ghosts>>
  /\ NoFanOut
StructureOnce ==
  /\ complete' \in BOOLEAN
  /\ Leave("metadata_structer", IF complete \/ complete' THEN "metadata_review"
                                ELSE "follow_up_questioner")
  /\ UNCHANGED <<goto, catalog, ghosts>>
  /\ NoFanOut

\* metadata_structer_node and metadata_completion_condition
Structure ==
  /\ complete' \in BOOLEAN
  /\ Leave("metadata_structer", IF complete' THEN "metadata_review" ELSE "follow_up_questioner")
  /\ UNCHANGED <<goto, catalog, ghosts>>
  /\ NoFanOut

\* What history keeps of a reflection.
Led ==
  /\ stale' = FALSE
  /\ astray' = (astray \/ (stale /\ goto = "teaching_plan_review"))

\* Mutant: the node leaves memory_reflection_goto as it is.
ReflectKeeping ==
  /\ Leave("profile_memory_reflection",
           IF goto = "none" THEN "experience_memory_reflection" ELSE goto)
  /\ Led
  /\ UNCHANGED fields

\* profile_memory_reflection_node
Reflect ==
  /\ Leave("profile_memory_reflection",
           IF goto = "none" THEN "experience_memory_reflection" ELSE goto)
  /\ goto' = "none"
  /\ Led
  /\ UNCHANGED <<catalog, complete>>
  /\ NoFanOut

\* artifact_revision_router_node: nothing to revise, targets left open, or
\* some types of the catalog.  A catalog of one type needs no clarification.
NothingToRevise ==
  /\ catalog = {}
  /\ Leave("artifact_revision_router", "END")
  /\ NoFanOut

TargetsOpen ==
  /\ Cardinality(catalog) > 1
  /\ Leave("artifact_revision_router", "artifact_revision_clarification")
  /\ NoFanOut

TargetsNamed ==
  \E selected \in (SUBSET catalog) \ {{}} :
    /\ Leave("artifact_revision_router", "revise")
    /\ Revise(selected)

RouteRevision ==
  /\ NothingToRevise \/ TargetsOpen \/ TargetsNamed
  /\ UNCHANGED <<goto, catalog, complete, ghosts>>

\* The artifact nodes of one fan-out are one super-step: their results are
\* written together, when the last of them has returned.
RunJobs ==
  /\ \E node \in {"generate", "revise"} : Leave(node, "artifact_fan_in")
  /\ result' \in [Types -> {"pending", "ready", "failed"}]
  /\ \A t \in Types : IF t \in jobs THEN result'[t] # "pending" ELSE result'[t] = result[t]
  /\ UNCHANGED <<goto, catalog, complete, targets, sources, jobs, ghosts>>

-----------------------------------------------------------------------------
(* Ends of a run                                                           *)

EndRun ==
  /\ running /\ at = "END"
  /\ running' = FALSE
  /\ UNCHANGED <<at, pending, inputs, fields, ghosts>>

Pause ==
  /\ running /\ at \in Interrupts
  /\ running' = FALSE
  /\ pending' = TRUE
  /\ UNCHANGED <<at, inputs, fields, ghosts>>

\* A node raises, the client leaves or the process dies: the checkpoint
\* keeps what the finished nodes wrote, and no interrupt.
StopRun ==
  /\ running /\ at \in StopNodes
  /\ running' = FALSE
  /\ UNCHANGED <<at, pending, inputs, fields, ghosts>>

-----------------------------------------------------------------------------
(* The specification                                                       *)

Init ==
  /\ at = "END" /\ running = FALSE /\ pending = FALSE /\ inputs = 0
  /\ goto = "none" /\ catalog = {} /\ complete = FALSE
  /\ targets = {} /\ sources = {} /\ jobs = {}
  /\ result = [t \in Types |-> "pending"]
  /\ stale = FALSE /\ astray = FALSE

RunStep ==
  \/ Pass \/ Route \/ Chat \/ FollowUp \/ Plan \/ Structure \/ Reflect \/ RouteRevision
  \/ RunJobs \/ EndRun \/ Pause

Next == StartTurn \/ Resume \/ RunStep \/ StopRun

Spec == Init /\ [][Next]_vars

\* Every node returns or raises: its model calls have time limits.
FairSpec == Spec /\ WF_vars(RunStep)

-----------------------------------------------------------------------------
(* Properties                                                              *)

(***************************************************************************)
(* The fan-in node tells generation from revision by what the state says   *)
(* of the last revision, turns ago or now; the types it reports on are     *)
(* those whose nodes have just run, and each has its result.               *)
(***************************************************************************)
Reported == IF sources # {} THEN sources ELSE targets

FanInReportsJobs ==
  at = "artifact_fan_in" =>
    /\ Reported = jobs /\ jobs # {}
    /\ \A t \in jobs : result[t] # "pending"

(***************************************************************************)
(* A plan is designed from complete metadata, however many turns of other  *)
(* kinds came between and wherever they stopped; unless a goto that a      *)
(* stopped run left behind has led the dialogue past the metadata to the   *)
(* review of a plan.                                                       *)
(***************************************************************************)
DesignHasMetadata ==
  at \in {"metadata_review", "teaching_design_memory_retrieval", "rag_retrieval",
          "teaching_design_planner", "teaching_plan_review", "generate"} =>
    complete \/ astray

(***************************************************************************)
(* The phase of the dialogue.  A question is asked once its interrupt is   *)
(* in the checkpoint; the profile reflection belongs to the phase whose    *)
(* answer it reflects on, whatever goto an earlier run left behind.        *)
(***************************************************************************)
Question ==
  CASE at = "interrupt_for_userinput"         -> "asking"
    [] at = "metadata_review"                 -> "confirming"
    [] at = "teaching_plan_review"            -> "reviewing"
    [] at = "artifact_revision_clarification" -> "choosing"

Flow == [
  routing   |-> {"profile_memory_load", "intent_router"},
  chatting  |-> {"normal_chat_memory_retrieval", "normal_chat"},
  eliciting |-> {"teaching_plan_memory_retrieval", "metadata_structer", "follow_up_questioner",
                 "interrupt_for_userinput", "metadata_review"},
  designing |-> {"teaching_design_memory_retrieval", "rag_retrieval",
                 "teaching_design_planner", "teaching_plan_review"},
  generating |-> {"generate"},
  targeting |-> {"artifact_revision_memory_retrieval", "artifact_revision_router",
                 "artifact_revision_clarification"},
  revising  |-> {"revise"},
  closing   |-> {"artifact_fan_in", "experience_memory_reflection", "END"}]

FlowOf(node) == CHOOSE f \in DOMAIN Flow : node \in Flow[f]

Phase ==
  IF pending THEN Question
  ELSE IF ~running THEN "idle"
  ELSE IF at # "profile_memory_reflection" THEN FlowOf(at)
  ELSE IF stale THEN "closing"
  ELSE CASE goto = "END"                     -> "chatting"
         [] goto = "interrupt_for_userinput" -> "eliciting"
         [] goto = "teaching_plan_review"    -> "designing"
         [] goto = "none"                    -> "closing"

Protocol == INSTANCE TeachingProtocol WITH phase <- Phase

(***************************************************************************)
(* The graph keeps the promise of TeachingProtocol wherever its runs stop, *)
(* but for one step: the reflection on finished material that finds a goto *)
(* left behind by a run that stopped before it had reflected asks the      *)
(* question which that run was about to ask.                               *)
(***************************************************************************)
StaleGotoTaken == stale /\ at = "profile_memory_reflection" /\ Protocol!Reopen

FollowsProtocol == Protocol!Init /\ [][Protocol!Next \/ StaleGotoTaken]_Phase

(***************************************************************************)
(* The graph keeps its part of the contract with the artifact jobs: it     *)
(* fans out afresh, to what the turn was offered, and forgets no result of *)
(* another type.                                                           *)
(***************************************************************************)
Fanned == running /\ at \in {"generate", "revise"}

Mode == IF ~Fanned THEN "none" ELSE IF at = "generate" THEN "create" ELSE "revise"

Scheduled == IF Fanned THEN jobs ELSE {}

FanOut == INSTANCE ArtifactFanOut WITH mode <- Mode, jobs <- Scheduled, results <- result

KeepsContract == FanOut!Spec

(***************************************************************************)
(* No run goes round in circles: it ends, or asks the teacher.             *)
(***************************************************************************)
RunEnds == running ~> ~running

=============================================================================
