------------------------- MODULE Conversation_proofs -------------------------
(***************************************************************************)
(* Proofs about ConversationGraph, for every set of artifact types, every  *)
(* number of inputs and every choice of nodes at which runs stop, and      *)
(* about ConversationTurns, for any number of requests on that graph.      *)
(***************************************************************************)
EXTENDS ConversationTurns, FiniteSetTheorems, TLAPS

-----------------------------------------------------------------------------
(* The graph                                                               *)

(***************************************************************************)
(* The graph starts well typed.                                            *)
(***************************************************************************)
LEMMA TypeInit == Init => TypeOK
<1> SUFFICES ASSUME Init PROVE TypeOK
  OBVIOUS
<1>1. inputs \in 0 .. MaxInputs
  BY GraphAssumption DEF Init
<1>2. result \in [Types -> {"pending", "ready", "failed"}]
  BY DEF Init
<1>3. QED
  BY <1>1, <1>2 DEF Init, TypeOK, Gotos

(***************************************************************************)
(* Taking an input keeps the graph well typed.                             *)
(***************************************************************************)
LEMMA InputType == TypeOK /\ (StartTurn \/ Resume) => TypeOK'
<1> SUFFICES ASSUME TypeOK, StartTurn \/ Resume PROVE TypeOK'
  OBVIOUS
<1> USE DEF TypeOK
<1>1. ASSUME Input PROVE inputs' \in 0 .. MaxInputs /\ running' \in BOOLEAN
  BY <1>1, GraphAssumption DEF Input
<1>2. CASE StartTurn
  BY <1>1, <1>2 DEF StartTurn, Nodes, Edge
<1>3. CASE Resume
  <2>1. /\ inputs' \in 0 .. MaxInputs /\ running' \in BOOLEAN /\ pending' = FALSE
        /\ UNCHANGED <<goto, catalog, complete, stale, astray>>
    BY <1>1, <1>3 DEF Resume, Answer, ghosts
  <2>2. CASE ResumeMessage
    <3>1. UNCHANGED <<targets, sources, jobs, result>>
      BY <2>2 DEF ResumeMessage, NoFanOut
    <3>2. at \in Interrupts
      BY <1>3 DEF Resume, Answer
    <3>3. at' \in Nodes \cup {"END"}
      BY <2>2, <3>2 DEF ResumeMessage, Interrupts, ApprovalNodes, Nodes, Edge
    <3>4. QED
      BY <2>1, <3>1, <3>3
  <2>3. ASSUME NEW selected \in SUBSET Types, ResumeApprove(selected) PROVE TypeOK'
    <3>1. at' \in Nodes \cup {"END"}
      BY <2>3 DEF ResumeApprove, Nodes, Edge
    <3>2. /\ targets' \in SUBSET Types /\ sources' \in SUBSET Types /\ jobs' \in SUBSET Types
          /\ result' \in [Types -> {"pending", "ready", "failed"}]
      BY <2>3 DEF ResumeApprove, NoFanOut, Generate, Revise
    <3>3. QED
      BY <2>1, <3>1, <3>2
  <2>4. QED
    BY <1>3, <2>2, <2>3 DEF Resume
<1>4. QED
  BY <1>2, <1>3

(***************************************************************************)
(* A node of a run leaves for another node of the graph.                   *)
(***************************************************************************)
LEMMA LeaveType ==
  ASSUME TypeOK, NEW node, NEW next \in Nodes \cup {"END"}, Leave(node, next)
  PROVE  /\ at' \in Nodes \cup {"END"} /\ inputs' \in 0 .. MaxInputs
         /\ running' \in BOOLEAN /\ pending' \in BOOLEAN
         /\ ~pending'
BY DEF TypeOK, Leave

(***************************************************************************)
(* Every step of a run, and its end, keep the graph well typed.            *)
(***************************************************************************)
LEMMA RunType == TypeOK /\ (RunStep \/ StopRun) => TypeOK'
<1> SUFFICES ASSUME TypeOK, RunStep \/ StopRun PROVE TypeOK'
  OBVIOUS
<1>1. CASE Pass
  <2>1. Edge[at] \in Nodes \cup {"END"}
    BY <1>1 DEF Pass, Edge, Nodes
  <2>2. QED
    BY <1>1, <2>1, LeaveType DEF Pass, TypeOK, fields, ghosts
<1>2. CASE Route
  <2>1. PICK retrieval \in Retrievals : Leave("intent_router", retrieval)
    BY <1>2 DEF Route
  <2>2. retrieval \in Nodes
    BY DEF Retrievals, Nodes, Edge
  <2>3. QED
    BY <1>2, <2>1, <2>2, LeaveType DEF Route, TypeOK, fields, ghosts
<1>3. ASSUME NEW node, NEW next \in Gotos, Speak(node, next) PROVE TypeOK'
  <2>1. "profile_memory_reflection" \in Nodes
    BY DEF Nodes
  <2>2. QED
    BY <1>3, <2>1, LeaveType DEF Speak, NoFanOut, TypeOK
<1>4. CASE Chat \/ FollowUp \/ Plan
  BY <1>3, <1>4 DEF Chat, FollowUp, Plan, Gotos
<1>5. CASE Structure
  <2>1. (IF complete' THEN "metadata_review" ELSE "follow_up_questioner") \in Nodes
    BY DEF Nodes, Interrupts, ApprovalNodes
  <2>2. QED
    BY <1>5, <2>1, LeaveType DEF Structure, NoFanOut, TypeOK, ghosts
<1>6. CASE Reflect
  <2>1. (IF goto = "none" THEN "experience_memory_reflection" ELSE goto) \in Nodes \cup {"END"}
    BY DEF TypeOK, Gotos, Nodes, Interrupts, ApprovalNodes, Edge
  <2>2. QED
    BY <1>6, <2>1, LeaveType DEF Reflect, Led, NoFanOut, TypeOK, Gotos
<1>7. CASE RouteRevision
  <2>1. /\ "artifact_revision_clarification" \in Nodes /\ "revise" \in Nodes
    BY DEF Nodes, Interrupts, ApprovalNodes
  <2>2. CASE NothingToRevise
    BY <1>7, <2>2, LeaveType DEF RouteRevision, NothingToRevise, NoFanOut, TypeOK, ghosts
  <2>3. CASE TargetsOpen
    BY <1>7, <2>1, <2>3, LeaveType DEF RouteRevision, TargetsOpen, NoFanOut, TypeOK, ghosts
  <2>4. ASSUME NEW selected \in SUBSET catalog, Leave("artifact_revision_router", "revise"),
               Revise(selected)
        PROVE  TypeOK'
    <3>1. selected \in SUBSET Types
      BY DEF TypeOK
    <3>2. QED
      BY <1>7, <2>1, <2>4, <3>1, LeaveType DEF RouteRevision, Revise, TypeOK, ghosts
  <2>5. QED
    BY <1>7, <2>2, <2>3, <2>4 DEF RouteRevision, TargetsNamed
<1>8. CASE RunJobs
  <2>1. "artifact_fan_in" \in Nodes
    BY DEF Nodes, Edge
  <2>2. QED
    BY <1>8, <2>1, LeaveType DEF RunJobs, TypeOK, ghosts
<1>9. CASE EndRun \/ Pause \/ StopRun
  <2>1. CASE EndRun
    BY <2>1 DEF EndRun, TypeOK, fields, ghosts
  <2>2. CASE Pause
    BY <2>2 DEF Pause, TypeOK, fields, ghosts
  <2>3. CASE StopRun
    BY <2>3 DEF StopRun, TypeOK, fields, ghosts
  <2>4. QED
    BY <1>9, <2>1, <2>2, <2>3
<1>10. QED
  BY <1>1, <1>2, <1>4, <1>5, <1>6, <1>7, <1>8, <1>9 DEF RunStep

(***************************************************************************)
(* A step that changes nothing keeps the graph well typed.                 *)
(***************************************************************************)
LEMMA TypeStep == TypeOK /\ [Next]_vars => TypeOK'
<1>1. TypeOK /\ UNCHANGED vars => TypeOK'
  BY DEF TypeOK, vars, fields, ghosts
<1>2. QED
  BY <1>1, InputType, RunType DEF Next

(***************************************************************************)
(* The state of the graph is well typed after every history of turns.      *)
(***************************************************************************)
THEOREM TypeCorrect == Spec => []TypeOK
BY TypeInit, TypeStep, PTL DEF Spec

-----------------------------------------------------------------------------
(* The fan-in                                                              *)

(***************************************************************************)
(* What the fan-outs leave for the fan-in, and what keeps them from being  *)
(* empty: the clarification is only asked about a catalog with entries.    *)
(***************************************************************************)
FanOutInv ==
  /\ at = "generate" => sources = {} /\ targets = jobs /\ jobs # {}
  /\ at = "revise" => sources = jobs /\ jobs # {}
  /\ at = "artifact_revision_clarification" => catalog # {}
  /\ FanInReportsJobs

(***************************************************************************)
(* Every step keeps the fan-outs in agreement with the fan-in.             *)
(***************************************************************************)
LEMMA FanOutStep == TypeOK /\ FanOutInv /\ [Next]_vars => FanOutInv'
<1> SUFFICES ASSUME TypeOK, FanOutInv, [Next]_vars PROVE FanOutInv'
  OBVIOUS
<1>1. CASE UNCHANGED <<at, fields>>
  BY <1>1 DEF FanOutInv, FanInReportsJobs, Reported, fields
<1>2. ASSUME at' \notin {"generate", "revise", "artifact_revision_clarification",
                         "artifact_fan_in"}
      PROVE  FanOutInv'
  BY <1>2 DEF FanOutInv, FanInReportsJobs
<1>3. CASE StartTurn
  BY <1>2, <1>3 DEF StartTurn
<1>4. CASE Resume
  <2>1. pending /\ at \in Interrupts /\ catalog' = catalog
    BY <1>4 DEF Resume, Answer, TypeOK
  <2>2. CASE ResumeMessage
    BY <1>2, <2>1, <2>2 DEF ResumeMessage, Interrupts, ApprovalNodes
  <2>3. ASSUME NEW selected \in SUBSET Types, ResumeApprove(selected) PROVE FanOutInv'
    BY <2>1, <2>3 DEF ResumeApprove, Generate, Revise, FanOutInv, FanInReportsJobs
  <2>4. QED
    BY <1>4, <2>2, <2>3 DEF Resume
<1>5. CASE Pass
  <2>1. at' \in {Edge[node] : node \in DOMAIN Edge}
    BY <1>5 DEF Pass, Leave
  <2>2. QED
    BY <1>2, <2>1 DEF Edge
<1>6. CASE Route
  BY <1>2, <1>6 DEF Route, Leave, Retrievals
<1>7. CASE Chat \/ FollowUp \/ Plan
  BY <1>2, <1>7 DEF Chat, FollowUp, Plan, Speak, Leave
<1>8. CASE Structure
  BY <1>2, <1>8 DEF Structure, Leave
<1>9. CASE Reflect
  BY <1>2, <1>9 DEF Reflect, Leave, TypeOK, Gotos
<1>10. CASE RouteRevision
  <2>1. CASE NothingToRevise
    BY <1>2, <2>1 DEF NothingToRevise, Leave
  <2>2. CASE TargetsOpen
    <3>1. catalog # {}
      BY <2>2, FS_EmptySet DEF TargetsOpen
    <3>2. QED
      BY <1>10, <2>2, <3>1 DEF RouteRevision, TargetsOpen, Leave, FanOutInv, FanInReportsJobs
  <2>3. CASE TargetsNamed
    <3>1. PICK selected \in (SUBSET catalog) \ {{}} :
            Leave("artifact_revision_router", "revise") /\ Revise(selected)
      BY <2>3 DEF TargetsNamed
    <3>2. selected # {}
      OBVIOUS
    <3>3. at' = "revise" /\ sources' = selected /\ jobs' = selected
      BY <3>1 DEF Leave, Revise
    <3>4. QED
      BY <3>2, <3>3 DEF FanOutInv, FanInReportsJobs
  <2>4. QED
    BY <1>10, <2>1, <2>2, <2>3 DEF RouteRevision
<1>11. CASE RunJobs
  <2>1. at \in {"generate", "revise"} /\ at' = "artifact_fan_in"
    BY <1>11 DEF RunJobs, Leave
  <2>2. UNCHANGED <<targets, sources, jobs>> /\ \A t \in jobs : result'[t] # "pending"
    BY <1>11 DEF RunJobs, TypeOK
  <2>3. Reported' = jobs' /\ jobs' # {}
    BY <2>1, <2>2 DEF FanOutInv, Reported
  <2>4. QED
    BY <2>1, <2>2, <2>3 DEF FanOutInv, FanInReportsJobs
<1>12. QED
  BY <1>1, <1>3, <1>4, <1>5, <1>6, <1>7, <1>8, <1>9, <1>10, <1>11
  DEF Next, RunStep, EndRun, Pause, StopRun, vars

(***************************************************************************)
(* The fan-in reports on the artifacts of this turn, whatever revisions    *)
(* and generations came before and wherever they stopped.                  *)
(***************************************************************************)
THEOREM FanInRight == Spec => []FanInReportsJobs
<1>1. Init => FanOutInv
  BY DEF Init, FanOutInv, FanInReportsJobs
<1>2. FanOutInv => FanInReportsJobs
  BY DEF FanOutInv
<1>3. QED
  BY TypeInit, TypeStep, FanOutStep, <1>1, <1>2, PTL DEF Spec

-----------------------------------------------------------------------------
(* The contract with the artifact jobs                                     *)

(***************************************************************************)
(* Away from the fan-outs the graph leaves catalog and results alone.      *)
(***************************************************************************)
LEMMA NoFanOutSeen ==
  ASSUME ~Fanned, ~Fanned', UNCHANGED <<catalog, result>>
  PROVE  UNCHANGED FanOut!vars
BY DEF Mode, Scheduled, FanOut!vars

(***************************************************************************)
(* Entering a fan-out starts the jobs afresh.                              *)
(***************************************************************************)
LEMMA FanOutStarts ==
  ASSUME ~Fanned, running', NEW selected \in (SUBSET Types) \ {{}},
         at' = "generate" \/ (at' = "revise" /\ selected \subseteq catalog),
         jobs' = selected, UNCHANGED catalog,
         result' = [t \in Types |-> IF t \in selected THEN "pending" ELSE result[t]]
  PROVE  FanOut!Next
<1>1. Fanned' /\ Scheduled' = selected /\ Mode = "none"
  BY DEF Fanned, Scheduled, Mode
<1>2. Mode' = IF at' = "generate" THEN "create" ELSE "revise"
  BY <1>1 DEF Mode
<1>3. FanOut!Start
  BY <1>1, <1>2 DEF FanOut!Start, FanOut!Modes
<1>4. QED
  BY <1>3 DEF FanOut!Next

(***************************************************************************)
(* Every step offers, starts, settles, aborts, or has no part in it.       *)
(***************************************************************************)
LEMMA ContractStep == TypeOK /\ FanOutInv /\ [Next]_vars => [FanOut!Next]_(FanOut!vars)
<1> SUFFICES ASSUME TypeOK, FanOutInv, [Next]_vars PROVE [FanOut!Next]_(FanOut!vars)
  OBVIOUS
<1>1. CASE UNCHANGED vars
  BY <1>1 DEF vars, fields, FanOut!vars, Mode, Scheduled, Fanned
<1>2. ASSUME at \notin {"generate", "revise"}, at' \notin {"generate", "revise"},
             UNCHANGED <<catalog, result>>
      PROVE  UNCHANGED FanOut!vars
  BY <1>2, NoFanOutSeen DEF Fanned
<1>3. CASE StartTurn
  <2>1. ~Fanned /\ ~Fanned' /\ catalog' \in SUBSET Types /\ result' = result
    BY <1>3 DEF StartTurn, Input, Fanned
  <2>2. FanOut!Offer
    BY <2>1 DEF FanOut!Offer, Mode, Scheduled
  <2>3. QED
    BY <2>2 DEF FanOut!Next
<1>4. CASE Resume
  <2>1. /\ ~running /\ running' /\ at \in Interrupts /\ UNCHANGED catalog
        /\ ~Fanned /\ at \notin {"generate", "revise"}
    BY <1>4 DEF Resume, Answer, Input, TypeOK, Fanned, Interrupts, ApprovalNodes
  <2>2. CASE ResumeMessage
    <3>1. at' \notin {"generate", "revise"} /\ UNCHANGED result
      BY <2>1, <2>2 DEF ResumeMessage, NoFanOut, Interrupts, ApprovalNodes
    <3>2. QED
      BY <1>2, <2>1, <3>1
  <2>3. ASSUME NEW selected \in SUBSET Types, ResumeApprove(selected)
        PROVE  [FanOut!Next]_(FanOut!vars)
    <3>1. CASE at' \notin {"generate", "revise"} /\ NoFanOut
      BY <1>2, <2>1, <3>1 DEF NoFanOut
    <3>2. CASE selected # {} /\ at' = "generate" /\ Generate(selected)
      BY <2>1, <3>2, FanOutStarts DEF Generate
    <3>3. CASE at = "artifact_revision_clarification" /\ at' = "revise" /\ Revise(catalog)
      <4>1. catalog \in (SUBSET Types) \ {{}}
        BY <3>3 DEF TypeOK, FanOutInv
      <4>2. QED
        BY <2>1, <3>3, <4>1, FanOutStarts DEF Revise
    <3>4. QED
      BY <2>3, <3>1, <3>2, <3>3 DEF ResumeApprove
  <2>4. QED
    BY <1>4, <2>2, <2>3 DEF Resume
<1>5. CASE Pass
  <2>1. at \in DOMAIN Edge /\ at' = Edge[at] /\ UNCHANGED <<catalog, result>>
    BY <1>5 DEF Pass, Leave, fields
  <2>2. at \notin {"generate", "revise"} /\ at' \notin {"generate", "revise"}
    BY <2>1 DEF Edge
  <2>3. QED
    BY <1>2, <2>1, <2>2
<1>6. CASE Route
  BY <1>2, <1>6 DEF Route, Leave, Retrievals, fields
<1>7. CASE Chat \/ FollowUp \/ Plan
  BY <1>2, <1>7 DEF Chat, FollowUp, Plan, Speak, Leave, NoFanOut
<1>8. CASE Structure
  BY <1>2, <1>8 DEF Structure, Leave, NoFanOut
<1>9. CASE Reflect
  <2>1. at' \notin {"generate", "revise"}
    BY <1>9 DEF Reflect, Leave, TypeOK, Gotos
  <2>2. QED
    BY <1>2, <1>9, <2>1 DEF Reflect, Leave, NoFanOut
<1>10. CASE RouteRevision
  <2>1. CASE NothingToRevise \/ TargetsOpen
    BY <1>2, <1>10, <2>1 DEF RouteRevision, NothingToRevise, TargetsOpen, Leave, NoFanOut
  <2>2. CASE TargetsNamed
    <3>1. PICK selected \in (SUBSET catalog) \ {{}} :
            Leave("artifact_revision_router", "revise") /\ Revise(selected)
      BY <2>2 DEF TargetsNamed
    <3>2. selected \in (SUBSET Types) \ {{}} /\ selected \subseteq catalog
      BY DEF TypeOK
    <3>3. ~Fanned /\ running' /\ at' = "revise" /\ UNCHANGED catalog
      BY <1>10, <3>1 DEF RouteRevision, Leave, Fanned
    <3>4. QED
      BY <3>1, <3>2, <3>3, FanOutStarts DEF Revise
  <2>3. QED
    BY <1>10, <2>1, <2>2 DEF RouteRevision
<1>11. CASE RunJobs
  <2>1. /\ running /\ at \in {"generate", "revise"} /\ at' = "artifact_fan_in"
        /\ UNCHANGED catalog /\ result' \in [Types -> {"pending", "ready", "failed"}]
        /\ \A t \in Types : IF t \in jobs THEN result'[t] # "pending" ELSE result'[t] = result[t]
    BY <1>11 DEF RunJobs, Leave
  <2>2. Mode \in {"create", "revise"} /\ Mode' = "none" /\ Scheduled = jobs /\ Scheduled' = {}
    BY <2>1 DEF Fanned, Mode, Scheduled
  <2>3. FanOut!Settle
    BY <2>1, <2>2 DEF FanOut!Settle, FanOut!Stop, FanOut!Modes
  <2>4. QED
    BY <2>3 DEF FanOut!Next
<1>12. CASE EndRun \/ Pause
  BY <1>2, <1>12 DEF EndRun, Pause, Interrupts, ApprovalNodes, fields
<1>13. CASE StopRun
  <2>1. UNCHANGED <<catalog, result>> /\ ~Fanned'
    BY <1>13 DEF StopRun, fields, Fanned
  <2>2. CASE Fanned
    <3>1. Mode \in {"create", "revise"} /\ Mode' = "none" /\ Scheduled' = {}
      BY <2>1, <2>2 DEF Fanned, Mode, Scheduled
    <3>2. FanOut!Abort
      BY <2>1, <3>1 DEF FanOut!Abort, FanOut!Stop, FanOut!Modes
    <3>3. QED
      BY <3>2 DEF FanOut!Next
  <2>3. QED
    BY <2>1, <2>2, NoFanOutSeen
<1>14. QED
  BY <1>1, <1>3, <1>4, <1>5, <1>6, <1>7, <1>8, <1>9, <1>10, <1>11, <1>12, <1>13
  DEF Next, RunStep

(***************************************************************************)
(* The graph implements ArtifactFanOut: what it expects of the artifact    *)
(* jobs is what their own specification promises.                          *)
(***************************************************************************)
THEOREM GraphKeepsContract == Spec => KeepsContract
<1>1. Init => FanOut!Init
  BY DEF Init, FanOut!Init, Mode, Scheduled, Fanned
<1>2. Init => FanOutInv
  BY DEF Init, FanOutInv, FanInReportsJobs
<1>3. QED
  BY TypeInit, TypeStep, FanOutStep, ContractStep, <1>1, <1>2, PTL
  DEF Spec, KeepsContract, FanOut!Spec

(***************************************************************************)
(* From the contract: while jobs are under way the graph knows no result   *)
(* of theirs, neither early nor left over from another turn.               *)
(***************************************************************************)
THEOREM NoStaleResult == Spec => []FanOut!AllOrNothing
<1>1. FanOut!Init => FanOut!AllOrNothing
  BY DEF FanOut!Init, FanOut!AllOrNothing, FanOut!Modes
<1>2. FanOut!AllOrNothing /\ [FanOut!Next]_(FanOut!vars) => FanOut!AllOrNothing'
  <2> SUFFICES ASSUME FanOut!AllOrNothing, [FanOut!Next]_(FanOut!vars)
               PROVE  FanOut!AllOrNothing'
    OBVIOUS
  <2> USE DEF FanOut!AllOrNothing, FanOut!Modes
  <2>1. CASE FanOut!Offer
    BY <2>1 DEF FanOut!Offer
  <2>2. CASE FanOut!Start
    BY <2>2 DEF FanOut!Start
  <2>3. CASE FanOut!Settle \/ FanOut!Abort
    BY <2>3 DEF FanOut!Settle, FanOut!Abort, FanOut!Stop
  <2>4. CASE UNCHANGED FanOut!vars
    BY <2>4 DEF FanOut!vars
  <2>5. QED
    BY <2>1, <2>2, <2>3, <2>4 DEF FanOut!Next
<1>3. QED
  BY <1>1, <1>2, GraphKeepsContract, PTL DEF KeepsContract, FanOut!Spec

-----------------------------------------------------------------------------
(* The metadata                                                            *)

(***************************************************************************)
(* A goto is in hand only at the profile reflection, or left behind by a   *)
(* stopped run; one that names the plan review follows a plan.             *)
(***************************************************************************)
GotoInv ==
  /\ goto # "none" => stale \/ at = "profile_memory_reflection"
  /\ (at = "profile_memory_reflection" /\ goto = "teaching_plan_review") =>
       complete \/ stale \/ astray

(***************************************************************************)
(* Every step keeps the design phase behind the metadata.                  *)
(***************************************************************************)
LEMMA DesignStep ==
  TypeOK /\ GotoInv /\ DesignHasMetadata /\ [Next]_vars => GotoInv' /\ DesignHasMetadata'
<1> SUFFICES ASSUME TypeOK, GotoInv, DesignHasMetadata, [Next]_vars
             PROVE  GotoInv' /\ DesignHasMetadata'
  OBVIOUS
<1> USE DEF GotoInv, DesignHasMetadata
<1>1. CASE UNCHANGED <<at, fields, ghosts>>
  BY <1>1 DEF fields, ghosts
<1>2. CASE StartTurn
  BY <1>2 DEF StartTurn
<1>3. CASE Resume
  <2>1. at \in Interrupts /\ UNCHANGED <<goto, complete, stale, astray>>
    BY <1>3 DEF Resume, Answer, TypeOK, ghosts
  <2>2. CASE ResumeMessage
    BY <2>1, <2>2 DEF ResumeMessage, Interrupts, ApprovalNodes
  <2>3. ASSUME NEW selected \in SUBSET Types, ResumeApprove(selected)
        PROVE  GotoInv' /\ DesignHasMetadata'
    BY <2>1, <2>3 DEF ResumeApprove, Interrupts, ApprovalNodes
  <2>4. QED
    BY <1>3, <2>2, <2>3 DEF Resume
<1>4. CASE Pass
  <2>1. UNCHANGED <<goto, complete, stale, astray>> /\ at \in DOMAIN Edge /\ at' = Edge[at]
    BY <1>4 DEF Pass, Leave, fields, ghosts
  <2>2. QED
    BY <2>1 DEF Edge
<1>5. CASE Route
  BY <1>5 DEF Route, Leave, Retrievals, fields, ghosts
<1>6. CASE Chat \/ FollowUp \/ Plan
  BY <1>6 DEF Chat, FollowUp, Plan, Speak, Leave
<1>7. CASE Structure
  BY <1>7 DEF Structure, Leave, ghosts
<1>8. CASE Reflect
  BY <1>8 DEF Reflect, Led, Leave, TypeOK, Gotos
<1>9. CASE RouteRevision
  BY <1>9 DEF RouteRevision, NothingToRevise, TargetsOpen, TargetsNamed, Leave, ghosts
<1>10. CASE RunJobs
  BY <1>10 DEF RunJobs, Leave, ghosts
<1>11. QED
  BY <1>1, <1>2, <1>3, <1>4, <1>5, <1>6, <1>7, <1>8, <1>9, <1>10
  DEF Next, RunStep, EndRun, Pause, StopRun, vars

(***************************************************************************)
(* No plan is designed, reviewed or turned into material from metadata     *)
(* that is not complete, unless the goto of a stopped run has led past it. *)
(***************************************************************************)
THEOREM DesignBehindMetadata == Spec => []DesignHasMetadata
<1>1. Init => GotoInv /\ DesignHasMetadata
  BY DEF Init, GotoInv, DesignHasMetadata
<1>2. QED
  BY TypeInit, TypeStep, DesignStep, <1>1, PTL DEF Spec

-----------------------------------------------------------------------------
(* The protocol                                                            *)

(***************************************************************************)
(* Each node has one phase: the flows are disjoint.                        *)
(***************************************************************************)
LEMMA FlowValue ==
  ASSUME NEW f \in DOMAIN Flow, NEW node \in Flow[f]
  PROVE  FlowOf(node) = f
<1>1. DOMAIN Flow = {"routing", "chatting", "eliciting", "designing", "generating",
                     "targeting", "revising", "closing"}
  BY DEF Flow
<1>2. ASSUME NEW g \in DOMAIN Flow, node \in Flow[g] PROVE g = f
  BY <1>1, <1>2 DEF Flow
<1>3. QED
  BY <1>2 DEF FlowOf

(***************************************************************************)
(* Every step of the graph is a step of the protocol, or none, or takes    *)
(* the goto that a stopped run left behind.                                *)
(***************************************************************************)
LEMMA ProtocolStep ==
  ASSUME TypeOK, GotoInv, Next
  PROVE  Protocol!Next \/ StaleGotoTaken \/ UNCHANGED Phase
<1> USE DEF Protocol!Next, Protocol!Turn, Protocol!Purpose, Protocol!Elicit, Protocol!Reply,
            Protocol!Confirm, Protocol!Design, Protocol!Amend, Protocol!Approve,
            Protocol!Decline, Protocol!Target, Protocol!Specify, Protocol!TakeAll,
            Protocol!Finish, Protocol!Stop, Protocol!Step, Protocol!Questions
<1>f. /\ FlowOf("profile_memory_load") = "routing" /\ FlowOf("intent_router") = "routing"
      /\ FlowOf("normal_chat_memory_retrieval") = "chatting" /\ FlowOf("normal_chat") = "chatting"
      /\ FlowOf("teaching_plan_memory_retrieval") = "eliciting"
      /\ FlowOf("metadata_structer") = "eliciting" /\ FlowOf("follow_up_questioner") = "eliciting"
      /\ FlowOf("interrupt_for_userinput") = "eliciting" /\ FlowOf("metadata_review") = "eliciting"
      /\ FlowOf("teaching_design_memory_retrieval") = "designing"
      /\ FlowOf("rag_retrieval") = "designing" /\ FlowOf("teaching_design_planner") = "designing"
      /\ FlowOf("teaching_plan_review") = "designing" /\ FlowOf("generate") = "generating"
      /\ FlowOf("artifact_revision_memory_retrieval") = "targeting"
      /\ FlowOf("artifact_revision_router") = "targeting"
      /\ FlowOf("artifact_revision_clarification") = "targeting" /\ FlowOf("revise") = "revising"
      /\ FlowOf("artifact_fan_in") = "closing" /\ FlowOf("END") = "closing"
      /\ FlowOf("experience_memory_reflection") = "closing"
  BY FlowValue DEF Flow
<1>p. ASSUME NEW node \in Nodes \cup {"END"}, node # "profile_memory_reflection"
      PROVE  FlowOf(node) \notin {"asking", "confirming", "reviewing", "choosing", "idle"}
  <2>1. CASE node \in DOMAIN Edge
    BY <2>1, <1>f DEF Edge
  <2>2. CASE node \notin DOMAIN Edge
    BY <1>p, <2>2, <1>f DEF Nodes, Interrupts, ApprovalNodes
  <2>3. QED
    BY <2>1, <2>2
<1>1. CASE StartTurn
  BY <1>1, <1>f DEF StartTurn, Input, Phase
<1>2. CASE Resume
  <2>1. /\ pending /\ ~pending' /\ running' /\ at \in Interrupts
    BY <1>2 DEF Resume, Answer, Input, TypeOK
  <2>2. CASE ResumeMessage
    BY <2>1, <2>2, <1>f DEF ResumeMessage, Phase, Question, Interrupts, ApprovalNodes
  <2>3. ASSUME NEW selected \in SUBSET Types, ResumeApprove(selected)
        PROVE  Protocol!Next
    BY <2>1, <2>3, <1>f DEF ResumeApprove, Phase, Question
  <2>4. QED
    BY <1>2, <2>2, <2>3 DEF Resume
<1>3. CASE RunStep \/ StopRun
  <2>1. running /\ ~pending
    BY <1>3 DEF RunStep, StopRun, TypeOK, Pass, Route, Chat, FollowUp, Plan, Speak, Structure,
                Reflect, RouteRevision, NothingToRevise, TargetsOpen, TargetsNamed, RunJobs,
                EndRun, Pause, Leave
  <2> DEFINE Moves(node, next) == /\ at = node /\ at' = next
                                  /\ running' = running /\ pending' = pending
  <2>2. CASE Pass
    <3>1. at \in DOMAIN Edge /\ Moves(at, Edge[at]) /\ goto' = goto /\ stale' = stale
      BY <2>2 DEF Pass, Leave, fields, ghosts
    <3>2. goto = "none" \/ stale
      BY <3>1 DEF GotoInv, Edge
    <3>3. QED
      BY <2>1, <3>1, <3>2, <1>f DEF Edge, Phase
  <2>3. CASE Route
    BY <2>1, <2>3, <1>f DEF Route, Leave, Retrievals, Phase
  <2>4. CASE Chat
    BY <2>1, <2>4, <1>f DEF Chat, Speak, Leave, Phase
  <2>12. CASE FollowUp
    BY <2>1, <2>12, <1>f DEF FollowUp, Speak, Leave, Phase
  <2>13. CASE Plan
    BY <2>1, <2>13, <1>f DEF Plan, Speak, Leave, Phase
  <2>5. CASE Structure
    BY <2>1, <2>5, <1>f DEF Structure, Leave, Phase
  <2>6. CASE Reflect
    <3>1. Moves("profile_memory_reflection",
                IF goto = "none" THEN "experience_memory_reflection" ELSE goto)
      BY <2>6 DEF Reflect, Leave
    <3>2. CASE stale
      BY <2>1, <3>1, <3>2, <1>f DEF Phase, TypeOK, Gotos, StaleGotoTaken, Protocol!Reopen
    <3>3. CASE ~stale
      BY <2>1, <3>1, <3>3, <1>f DEF Phase, TypeOK, Gotos
    <3>4. QED
      BY <3>2, <3>3
  <2>7. CASE RouteRevision
    <3>1. \E next \in {"END", "artifact_revision_clarification", "revise"} :
            Moves("artifact_revision_router", next)
      BY <2>7 DEF RouteRevision, NothingToRevise, TargetsOpen, TargetsNamed, Leave
    <3>2. QED
      BY <2>1, <3>1, <1>f DEF Phase
  <2>8. CASE RunJobs
    <3>1. \E node \in {"generate", "revise"} : Moves(node, "artifact_fan_in")
      BY <2>8 DEF RunJobs, Leave
    <3>2. QED
      BY <2>1, <3>1, <1>f DEF Phase
  <2>9. CASE Pause
    BY <2>1, <2>9, <1>f DEF Pause, Interrupts, ApprovalNodes, Phase, Question
  <2>10. CASE EndRun \/ StopRun
    <3>1. /\ running' = FALSE /\ pending' = FALSE
      BY <2>1, <2>10 DEF EndRun, StopRun
    <3>2. Phase \notin {"asking", "confirming", "reviewing", "choosing", "idle"}
      BY <2>1, <1>p DEF Phase, TypeOK, Gotos
    <3>3. QED
      BY <3>1, <3>2 DEF Phase
  <2>11. QED
    BY <1>3, <2>2, <2>3, <2>4, <2>5, <2>6, <2>7, <2>8, <2>9, <2>10,
       <2>12, <2>13 DEF RunStep
<1>4. QED
  BY <1>1, <1>2, <1>3 DEF Next

(***************************************************************************)
(* The graph implements the protocol it promises the teacher, at whatever  *)
(* nodes its runs stop, but for the goto of a stopped run.                 *)
(***************************************************************************)
THEOREM ProtocolKept == Spec => FollowsProtocol
<1>1. Init => Protocol!Init /\ GotoInv /\ DesignHasMetadata
  BY DEF Init, Protocol!Init, Phase, GotoInv, DesignHasMetadata
<1>2. TypeOK /\ GotoInv /\ [Next]_vars => [Protocol!Next \/ StaleGotoTaken]_Phase
  <2>1. UNCHANGED vars => UNCHANGED Phase
    BY DEF vars, fields, ghosts, Phase, Question
  <2>2. QED
    BY <2>1, ProtocolStep
<1>3. QED
  BY TypeInit, TypeStep, DesignStep, <1>1, <1>2, PTL DEF Spec, FollowsProtocol

-----------------------------------------------------------------------------
(* The requests over the graph                                             *)

(***************************************************************************)
(* Every step of the requests leaves the graph alone or is one of its own. *)
(***************************************************************************)
LEMMA GraphMoves == [TurnsNext]_allVars => [Next]_vars
<1>1. ASSUME NEW r \in Requests, Begin(r) PROVE Next
  BY <1>1 DEF Begin, Next, Resume
<1>2. QED
  BY <1>1 DEF TurnsNext, allVars, GraphStep, Restart, SendMessage, SendApproval, RequestStep, Queue,
              BeginFails, Finish, Raise, LeaveWaiting, LeaveRunning, Next

(***************************************************************************)
(* However requests race, queue, leave, fail and are cut off by restarts,  *)
(* the graph under them behaves as it does alone.                          *)
(***************************************************************************)
THEOREM RequestsKeepGraph == TurnsSpec => Spec
<1>1. TurnsInit => Init
  BY DEF TurnsInit
<1>2. QED
  BY <1>1, GraphMoves, PTL DEF TurnsSpec, Spec

(***************************************************************************)
(* So what the graph promises the teacher, and the artifact jobs, is kept  *)
(* under concurrent requests.                                              *)
(***************************************************************************)
THEOREM RequestsKeepContract == TurnsSpec => KeepsContract /\ []FanInReportsJobs
BY RequestsKeepGraph, GraphKeepsContract, FanInRight, PTL

(***************************************************************************)
(* The protocol as well, wherever requests that fail, clients that leave   *)
(* and restarts stop its runs.                                             *)
(***************************************************************************)
THEOREM RequestsKeepProtocol == TurnsSpec => FollowsProtocol /\ []DesignHasMetadata
BY RequestsKeepGraph, ProtocolKept, DesignBehindMetadata, PTL

(***************************************************************************)
(* The requests are records of their type, and one that has not begun has  *)
(* taken nothing.                                                          *)
(***************************************************************************)
ReqType == req \in [Requests -> [pc : Pcs, approves : 0 .. MaxInputs, took : 0 .. MaxInputs]]

NotBegun == {"new", "validated", "waiting"}

Untaken == \A r \in Requests : req[r].pc \in NotBegun => req[r].took = 0

(***************************************************************************)
(* The steps that change no more of the requests than one counter.         *)
(***************************************************************************)
LEMMA MovedType ==
  ASSUME ReqType, Untaken, NEW r \in Requests, NEW pc \in Pcs, req' = Moved(r, pc),
         pc \in NotBegun => req[r].pc \in NotBegun
  PROVE  /\ ReqType' /\ Untaken'
         /\ \A s \in Requests : req'[s].took = req[s].took /\ req'[s].approves = req[s].approves
         /\ \A s \in Requests : req'[s].pc = IF s = r THEN pc ELSE req[s].pc
<1>1. \A s \in Requests : req'[s] = IF s = r THEN [req[s] EXCEPT !.pc = pc] ELSE req[s]
  BY DEF Moved, ReqType
<1>2. \A s \in Requests : /\ req'[s].took = req[s].took /\ req'[s].approves = req[s].approves
                          /\ req'[s].pc = IF s = r THEN pc ELSE req[s].pc
  BY <1>1 DEF ReqType
<1>3. ReqType'
  BY DEF ReqType, Moved
<1>4. QED
  BY <1>2, <1>3 DEF Untaken

(***************************************************************************)
(* What a step may do to the requests: begin one on the interrupt that     *)
(* waits, and let one arrive, with an approval only of the interrupt that  *)
(* waits.  An interrupt that goes away was taken by a request.             *)
(***************************************************************************)
Effect ==
  /\ \A s \in Requests : req'[s].pc \in NotBegun => req[s].pc \in NotBegun
  /\ \A s \in Requests : req'[s].took # req[s].took =>
       req[s].pc = "waiting" /\ pending /\ req'[s].took = inputs
  /\ \A s \in Requests : req'[s].approves # req[s].approves =>
       req[s].pc = "new" /\ (req'[s].pc \in NotBegun => pending /\ inputs = req'[s].approves)
  /\ (pending /\ ~pending') => \E s \in Requests : holder' = s /\ req'[s].took = inputs
  /\ pending /\ pending' => inputs' = inputs

(***************************************************************************)
(* A step that moves one request and leaves interrupt and inputs alone.    *)
(***************************************************************************)
LEMMA MovedEffect ==
  ASSUME ReqType, Untaken, NEW r \in Requests, NEW pc \in Pcs, req' = Moved(r, pc),
         pc \in NotBegun => req[r].pc \in NotBegun,
         pending => pending' /\ UNCHANGED inputs
  PROVE  ReqType' /\ Untaken' /\ Effect
BY MovedType DEF Effect

(***************************************************************************)
(* A request begins.                                                       *)
(***************************************************************************)
LEMMA BeginEffect ==
  ASSUME TypeOK, ReqType, Untaken, NEW r \in Requests, Begin(r)
  PROVE  ReqType' /\ Untaken' /\ Effect
<1>1. CASE StartTurn /\ req' = Moved(r, "running")
  <2>1. ~pending
    BY <1>1 DEF StartTurn
  <2>2. QED
    BY <1>1, <2>1, MovedEffect DEF Pcs, NotBegun
<1>2. CASE Answer /\ req' = [req EXCEPT ![r].pc = "running", ![r].took = inputs]
  <2>1. req[r].pc = "waiting" /\ holder' = r
    BY DEF Begin, First
  <2>2. pending /\ pending' = FALSE /\ inputs \in 0 .. MaxInputs
    BY <1>2 DEF Answer, TypeOK
  <2>3. \A s \in Requests : req'[s] = IF s = r THEN [req[s] EXCEPT !.pc = "running", !.took = inputs]
                                               ELSE req[s]
    BY <1>2 DEF ReqType
  <2>4. ReqType'
    BY <1>2, <2>2 DEF ReqType, Pcs
  <2>5. \A s \in Requests : /\ req'[s].pc = IF s = r THEN "running" ELSE req[s].pc
                            /\ req'[s].took = IF s = r THEN inputs ELSE req[s].took
                            /\ req'[s].approves = req[s].approves
    BY <2>3 DEF ReqType
  <2>6. Untaken'
    BY <2>5 DEF Untaken, NotBegun
  <2>7. Effect
    BY <2>1, <2>2, <2>5 DEF Effect, NotBegun
  <2>8. QED
    BY <2>4, <2>6, <2>7
<1>3. QED
  BY <1>1, <1>2 DEF Begin

(***************************************************************************)
(* An approval arrives.                                                    *)
(***************************************************************************)
LEMMA ApprovalEffect ==
  ASSUME TypeOK, ReqType, Untaken, NEW r \in Requests, NEW id \in 1 .. inputs, SendApproval(r, id)
  PROVE  ReqType' /\ Untaken' /\ Effect
<1> DEFINE pc == IF PendingApproval = id THEN "validated" ELSE "rejected"
<1>1. /\ req[r].pc = "new" /\ req' = [req EXCEPT ![r] = [pc |-> pc, approves |-> id, took |-> 0]]
      /\ UNCHANGED <<pending, inputs, holder>>
  BY DEF SendApproval, vars
<1>2. id \in 0 .. MaxInputs /\ 0 \in 0 .. MaxInputs /\ id # 0
  BY GraphAssumption DEF TypeOK
<1>3. pc = "validated" => pending /\ inputs = id
  BY <1>2 DEF PendingApproval
<1>4. pc \in {"validated", "rejected"}
  OBVIOUS
<1> HIDE DEF pc
<1>5. ReqType'
  <2>1. [pc |-> pc, approves |-> id, took |-> 0]
          \in [pc : Pcs, approves : 0 .. MaxInputs, took : 0 .. MaxInputs]
    BY <1>2, <1>4 DEF Pcs, Ended
  <2>2. QED
    BY <1>1, <2>1 DEF ReqType
<1>6. \A s \in Requests : req'[s] = IF s = r THEN [pc |-> pc, approves |-> id, took |-> 0] ELSE req[s]
  BY <1>1 DEF ReqType
<1>7. \A s \in Requests : /\ req'[s].pc = IF s = r THEN pc ELSE req[s].pc
                          /\ req'[s].took = IF s = r THEN 0 ELSE req[s].took
                          /\ req'[s].approves = IF s = r THEN id ELSE req[s].approves
  BY <1>6
<1>8. req[r].took = 0
  BY <1>1 DEF Untaken, NotBegun
<1>9. Untaken'
  BY <1>7, <1>8 DEF Untaken
<1>10. Effect
  BY <1>1, <1>3, <1>4, <1>7, <1>8 DEF Effect, NotBegun
<1>11. QED
  BY <1>5, <1>9, <1>10

(***************************************************************************)
(* A restart.                                                              *)
(***************************************************************************)
LEMMA RestartEffect ==
  ASSUME TypeOK, ReqType, Untaken, Restart
  PROVE  ReqType' /\ Untaken' /\ Effect
<1>1. UNCHANGED <<pending, inputs>>
  BY DEF Restart, StopRun, vars
<1>2. \A r \in Requests : req'[r] = IF req[r].pc \in {"validated", "waiting", "running"}
                                    THEN [req[r] EXCEPT !.pc = "cancelled"] ELSE req[r]
  BY DEF Restart
<1>3. \A r \in Requests : /\ req'[r].took = req[r].took /\ req'[r].approves = req[r].approves
                          /\ req'[r].pc \in {req[r].pc, "cancelled"}
  BY <1>2 DEF ReqType
<1>4. ReqType'
  <2>1. \A r \in Requests : req'[r] \in [pc : Pcs, approves : 0 .. MaxInputs, took : 0 .. MaxInputs]
    BY <1>2 DEF ReqType, Pcs, Ended
  <2>2. req' = [r \in Requests |-> req'[r]]
    BY DEF Restart
  <2>3. QED
    BY <2>1, <2>2 DEF ReqType
<1>5. Untaken'
  BY <1>3 DEF Untaken, NotBegun
<1>6. QED
  BY <1>1, <1>3, <1>4, <1>5 DEF Effect, NotBegun

(***************************************************************************)
(* Every step has the effect stated.                                       *)
(***************************************************************************)
LEMMA StepEffect ==
  TypeOK /\ ReqType /\ Untaken /\ [TurnsNext]_allVars => ReqType' /\ Untaken' /\ Effect
<1> SUFFICES ASSUME TypeOK, ReqType, Untaken, [TurnsNext]_allVars PROVE ReqType' /\ Untaken' /\ Effect
  OBVIOUS
<1>1. ASSUME UNCHANGED <<req, pending, inputs>> PROVE ReqType' /\ Untaken' /\ Effect
  BY <1>1 DEF ReqType, Untaken, Effect
<1>2. CASE UNCHANGED allVars
  BY <1>1, <1>2 DEF allVars, turnVars, vars
<1>3. CASE GraphStep
  <2>1. UNCHANGED req /\ UNCHANGED inputs /\ (pending => pending')
    BY <1>3 DEF GraphStep, turnVars, RunStep, Pass, Route, Chat, FollowUp, Plan, Speak, Structure,
       Reflect, RouteRevision, NothingToRevise, TargetsOpen, TargetsNamed, RunJobs, EndRun, Pause, Leave
  <2>2. QED
    BY <2>1 DEF ReqType, Untaken, Effect
<1>4. ASSUME NEW r \in Requests,
             SendMessage(r) \/ Queue(r) \/ BeginFails(r) \/ Finish(r) \/ Raise(r)
               \/ LeaveWaiting(r) \/ LeaveRunning(r)
      PROVE  ReqType' /\ Untaken' /\ Effect
  <2>1. UNCHANGED <<pending, inputs>>
    BY <1>4 DEF SendMessage, Queue, BeginFails, Finish, Raise, LeaveWaiting, LeaveRunning, StopRun, vars
  <2>2. PICK pc \in Pcs : req' = Moved(r, pc) /\ (pc \in NotBegun => req[r].pc \in NotBegun)
    BY <1>4 DEF SendMessage, Queue, BeginFails, Finish, Raise, LeaveWaiting, LeaveRunning, First,
                Pcs, Ended, NotBegun
  <2>3. QED
    BY <2>1, <2>2, MovedEffect
<1>5. QED
  BY <1>2, <1>3, <1>4, BeginEffect, ApprovalEffect, RestartEffect DEF TurnsNext, RequestStep

(***************************************************************************)
(* The requests are well typed and take nothing before they begin.         *)
(***************************************************************************)
LEMMA RequestsInvariant == TurnsSpec => [](TypeOK /\ ReqType /\ Untaken)
<1>1. TurnsInit => TypeOK /\ ReqType /\ Untaken
  <2>1. TurnsInit => ReqType
    BY GraphAssumption DEF TurnsInit, ReqType, Pcs
  <2>2. TurnsInit => Untaken
    BY DEF TurnsInit, Untaken
  <2>3. QED
    BY <2>1, <2>2, TypeInit DEF TurnsInit
<1>2. TypeOK /\ [TurnsNext]_allVars => TypeOK'
  BY GraphMoves, TypeStep
<1>3. QED
  BY <1>1, <1>2, StepEffect, PTL DEF TurnsSpec

(***************************************************************************)
(* A run of the graph belongs to a request that holds the thread's lock.   *)
(***************************************************************************)
THEOREM OneRunPerThread == TurnsSpec => []RunHasOwner
<1>1. TurnsInit => RunHasOwner
  BY DEF TurnsInit, Init, RunHasOwner
<1>2. RunHasOwner /\ [TurnsNext]_allVars => RunHasOwner'
  <2> SUFFICES ASSUME RunHasOwner, [TurnsNext]_allVars PROVE RunHasOwner'
    OBVIOUS
  <2>1. CASE UNCHANGED <<running, holder>>
    BY <2>1 DEF RunHasOwner
  <2>2. CASE GraphStep \/ Restart
    BY <2>2 DEF GraphStep, turnVars, Restart, StopRun, vars, RunHasOwner
  <2>3. ASSUME NEW r \in Requests, Begin(r) PROVE RunHasOwner'
    BY <2>3, TurnsAssumption DEF Begin, RunHasOwner
  <2>4. ASSUME NEW r \in Requests, Finish(r) \/ Raise(r) \/ LeaveRunning(r) PROVE RunHasOwner'
    BY <2>4 DEF Finish, Raise, LeaveRunning, StopRun, vars, RunHasOwner
  <2>5. ASSUME NEW r \in Requests, BeginFails(r) \/ SendMessage(r) \/ Queue(r) \/ LeaveWaiting(r)
        PROVE  RunHasOwner'
    BY <2>5 DEF BeginFails, SendMessage, Queue, LeaveWaiting, vars, RunHasOwner
  <2>6. ASSUME NEW r \in Requests, NEW id \in 1 .. inputs, SendApproval(r, id) PROVE RunHasOwner'
    BY <2>6 DEF SendApproval, vars, RunHasOwner
  <2>7. QED
    BY <2>1, <2>2, <2>3, <2>4, <2>5, <2>6 DEF TurnsNext, RequestStep, allVars, turnVars, vars
<1>3. QED
  BY <1>1, <1>2, PTL DEF TurnsSpec

(***************************************************************************)
(* No interleaving of requests, clients that leave, errors and restarts    *)
(* drops a question: what takes it away resumed it.                        *)
(***************************************************************************)
THEOREM NoQuestionDropped == TurnsSpec => QuestionsAreAnswered
<1>1. TypeOK /\ ReqType /\ Untaken /\ [TurnsNext]_allVars =>
        [(pending /\ ~pending') => \E r \in Requests : holder' = r /\ req'[r].took = inputs]_allVars
  BY StepEffect DEF Effect
<1>2. QED
  BY RequestsInvariant, <1>1, PTL DEF TurnsSpec, QuestionsAreAnswered

-----------------------------------------------------------------------------
(* The lock                                                                *)

(***************************************************************************)
(* A waiter queues behind the others.                                      *)
(***************************************************************************)
LEMMA QueueAppended ==
  ASSUME NEW S, NEW q \in Seq(S), IsInjective(q), NEW e \in S, e \notin ToSet(q)
  PROVE  /\ Append(q, e) \in Seq(S) /\ IsInjective(Append(q, e))
         /\ ToSet(Append(q, e)) = ToSet(q) \cup {e}
<1>1. /\ Append(q, e) \in Seq(S) /\ DOMAIN Append(q, e) = 1 .. Len(q) + 1 /\ DOMAIN q = 1 .. Len(q)
      /\ \A i \in 1 .. Len(q) : Append(q, e)[i] = q[i]
      /\ Append(q, e)[Len(q) + 1] = e
  OBVIOUS
<1>2. IsInjective(Append(q, e))
  BY <1>1 DEF IsInjective, ToSet
<1>3. QED
  BY <1>1, <1>2 DEF ToSet

(***************************************************************************)
(* The first waiter is served.                                             *)
(***************************************************************************)
LEMMA QueueServed ==
  ASSUME NEW S, NEW q \in Seq(S), IsInjective(q), q # <<>>
  PROVE  /\ Head(q) \in S /\ Tail(q) \in Seq(S) /\ IsInjective(Tail(q))
         /\ ToSet(Tail(q)) = ToSet(q) \ {Head(q)}
<1>1. /\ Tail(q) \in Seq(S) /\ DOMAIN Tail(q) = 1 .. Len(q) - 1 /\ DOMAIN q = 1 .. Len(q) /\ Len(q) \in Nat \ {0}
      /\ \A i \in 1 .. Len(q) - 1 : Tail(q)[i] = q[i + 1]
      /\ Head(q) = q[1]
  OBVIOUS
<1>2. IsInjective(Tail(q))
  BY <1>1 DEF IsInjective
<1>3. ToSet(Tail(q)) \subseteq ToSet(q) \ {Head(q)}
  BY <1>1 DEF ToSet, IsInjective
<1>4. ASSUME NEW i \in DOMAIN q, q[i] # Head(q) PROVE q[i] \in ToSet(Tail(q))
  <2>1. i - 1 \in DOMAIN Tail(q) /\ Tail(q)[i - 1] = q[i]
    BY <1>1, <1>4
  <2>2. QED
    BY <2>1 DEF ToSet
<1>5. QED
  BY <1>1, <1>2, <1>3, <1>4 DEF ToSet

(***************************************************************************)
(* A waiter leaves the queue from any place.                               *)
(***************************************************************************)
LEMMA QueueLeft ==
  ASSUME NEW S, NEW q \in Seq(S), IsInjective(q), NEW i \in DOMAIN q
  PROVE  /\ RemoveAt(q, i) \in Seq(S) /\ IsInjective(RemoveAt(q, i))
         /\ ToSet(RemoveAt(q, i)) = ToSet(q) \ {q[i]}
<1> DEFINE t == RemoveAt(q, i)
<1>1. /\ t \in Seq(S) /\ DOMAIN t = 1 .. Len(q) - 1 /\ DOMAIN q = 1 .. Len(q) /\ Len(q) \in Nat
      /\ \A j \in 1 .. Len(q) - 1 : t[j] = IF j < i THEN q[j] ELSE q[j + 1]
  <2> DEFINE a == SubSeq(q, 1, i - 1)
             b == SubSeq(q, i + 1, Len(q))
  <2>1. /\ i \in 1 .. Len(q) /\ Len(q) \in Nat
        /\ a \in Seq(S) /\ Len(a) = i - 1 /\ \A j \in 1 .. i - 1 : a[j] = q[j]
        /\ b \in Seq(S) /\ Len(b) = Len(q) - i /\ \A j \in 1 .. Len(q) - i : b[j] = q[i + j]
    OBVIOUS
  <2>2. t = a \o b
    BY DEF RemoveAt
  <2> HIDE DEF a, b, t
  <2>3. t \in Seq(S) /\ Len(t) = Len(q) - 1
    BY <2>1, <2>2
  <2>4. ASSUME NEW j \in 1 .. Len(q) - 1 PROVE t[j] = IF j < i THEN q[j] ELSE q[j + 1]
    <3>1. CASE j < i
      BY <2>1, <2>2, <3>1
    <3>2. CASE j >= i
      <4>1. t[j] = b[j - (i - 1)] /\ j - (i - 1) \in 1 .. Len(q) - i
        BY <2>1, <2>2, <3>2
      <4>2. b[j - (i - 1)] = q[i + (j - (i - 1))]
        BY <2>1, <4>1
      <4>3. i + (j - (i - 1)) = j + 1 /\ ~(j < i)
        BY <2>1, <3>2
      <4>4. QED
        BY <4>1, <4>2, <4>3
    <3>3. QED
      BY <2>1, <3>1, <3>2
  <2>5. QED
    BY <2>3, <2>4
<1> HIDE DEF t
<1>2. IsInjective(t)
  <2>1. ASSUME NEW j \in DOMAIN t, NEW k \in DOMAIN t, t[j] = t[k] PROVE j = k
    <3>1. \A m, n \in 1 .. Len(q) : q[m] = q[n] => m = n
      BY <1>1 DEF IsInjective
    <3>2. /\ i \in Nat /\ j \in Nat /\ k \in Nat /\ j + 1 \in 1 .. Len(q) /\ k + 1 \in 1 .. Len(q)
          /\ j \in 1 .. Len(q) /\ k \in 1 .. Len(q)
      BY <1>1
    <3>3. CASE j < i /\ k < i
      BY <1>1, <2>1, <3>1, <3>2, <3>3
    <3>4. CASE j < i /\ ~(k < i)
      BY <1>1, <2>1, <3>1, <3>2, <3>4
    <3>5. CASE ~(j < i) /\ k < i
      BY <1>1, <2>1, <3>1, <3>2, <3>5
    <3>6. CASE ~(j < i) /\ ~(k < i)
      <4>1. t[j] = q[j + 1] /\ t[k] = q[k + 1]
        BY <1>1, <3>6
      <4>2. j + 1 = k + 1
        BY <2>1, <3>1, <3>2, <4>1
      <4>3. QED
        BY <3>2, <4>2
    <3>7. QED
      BY <3>3, <3>4, <3>5, <3>6
  <2>2. QED
    BY <2>1 DEF IsInjective
<1>3. ToSet(t) \subseteq ToSet(q) \ {q[i]}
  BY <1>1 DEF ToSet, IsInjective
<1>4. ASSUME NEW j \in DOMAIN q, q[j] # q[i] PROVE q[j] \in ToSet(t)
  <2>1. CASE j < i
    BY <1>1, <2>1 DEF ToSet
  <2>2. CASE j > i
    <3>1. j - 1 \in DOMAIN t /\ t[j - 1] = q[j]
      BY <1>1, <2>2
    <3>2. QED
      BY <3>1 DEF ToSet
  <2>3. QED
    BY <1>4, <1>1, <2>1, <2>2
<1>5. QED
  BY <1>1, <1>2, <1>3, <1>4 DEF ToSet, t

(***************************************************************************)
(* The queue holds the waiting requests once each, and the one request     *)
(* that runs, if any, holds the lock.                                      *)
(***************************************************************************)
LockInv ==
  /\ queue \in Seq(Requests) /\ IsInjective(queue)
  /\ holder \in Requests \cup {None}
  /\ \A r \in Requests : /\ req[r].pc = "waiting" <=> r \in ToSet(queue)
                         /\ req[r].pc = "running" <=> r = holder

\* The requests that wait and run are those of before but for r.
Others(r) ==
  \A s \in Requests \ {r} : req'[s].pc = req[s].pc

(***************************************************************************)
(* The first waiter leaves the queue when it gets the lock.                *)
(***************************************************************************)
LEMMA FirstServed ==
  ASSUME LockInv, NEW r \in Requests, First(r)
  PROVE  /\ holder = None /\ queue' \in Seq(Requests) /\ IsInjective(queue')
         /\ ToSet(queue') = ToSet(queue) \ {r}
         /\ \A s \in Requests : req[s].pc # "running"
<1>1. /\ Head(queue) = r /\ queue' = Tail(queue) /\ holder = None /\ queue # <<>>
      /\ queue \in Seq(Requests) /\ IsInjective(queue)
  BY DEF First, LockInv
<1>2. \A s \in Requests : req[s].pc # "running"
  BY <1>1, TurnsAssumption DEF LockInv
<1>3. QED
  BY <1>1, <1>2, QueueServed

(***************************************************************************)
(* The steps of one request keep queue and lock.                           *)
(***************************************************************************)
LEMMA LockOneStep ==
  ASSUME TypeOK, ReqType, Untaken, LockInv, NEW r \in Requests,
         \/ SendMessage(r) \/ (\E id \in 1 .. inputs : SendApproval(r, id))
         \/ RequestStep(r) \/ Raise(r) \/ LeaveWaiting(r) \/ LeaveRunning(r)
  PROVE  LockInv'
<1>1. ASSUME NEW pc \in Pcs, req' = Moved(r, pc)
      PROVE  req'[r].pc = pc /\ Others(r)
  BY <1>1 DEF Moved, ReqType, Others
<1>2. CASE SendMessage(r) \/ (\E id \in 1 .. inputs : SendApproval(r, id))
  <2>1. /\ req[r].pc = "new" /\ UNCHANGED <<queue, holder>>
        /\ req'[r].pc \in {"validated", "rejected"} /\ Others(r)
    <3>1. CASE SendMessage(r)
      BY <1>1, <3>1 DEF SendMessage, Pcs
    <3>2. ASSUME NEW id \in 1 .. inputs, SendApproval(r, id)
          PROVE  /\ req[r].pc = "new" /\ UNCHANGED <<queue, holder>>
                 /\ req'[r].pc \in {"validated", "rejected"} /\ Others(r)
      BY <3>2 DEF SendApproval, ReqType, Others
    <3>3. QED
      BY <1>2, <3>1, <3>2
  <2>2. QED
    BY <2>1 DEF LockInv, Others
<1>3. CASE Queue(r)
  <2>1. /\ req[r].pc = "validated" /\ queue' = Append(queue, r) /\ holder' = holder
        /\ req'[r].pc = "waiting" /\ Others(r)
    BY <1>1, <1>3 DEF Queue, Pcs
  <2>2. r \notin ToSet(queue) /\ queue \in Seq(Requests) /\ IsInjective(queue)
    BY <2>1 DEF LockInv
  <2>3. /\ queue' \in Seq(Requests) /\ IsInjective(queue')
        /\ ToSet(queue') = ToSet(queue) \cup {r}
    BY <2>1, <2>2, QueueAppended
  <2>4. QED
    BY <2>1, <2>3 DEF LockInv, Others
<1>4. CASE Begin(r)
  <2>1. First(r) /\ holder' = r
    BY <1>4 DEF Begin
  <2>2. req'[r].pc = "running" /\ Others(r)
    <3>1. CASE req' = Moved(r, "running")
      BY <1>1, <3>1 DEF Pcs
    <3>2. CASE req' = [req EXCEPT ![r].pc = "running", ![r].took = inputs]
      BY <3>2 DEF ReqType, Others
    <3>3. QED
      BY <1>4, <3>1, <3>2 DEF Begin
  <2>3. QED
    BY <2>1, <2>2, FirstServed DEF LockInv, Others
<1>5. CASE BeginFails(r)
  <2>1. First(r) /\ holder' = holder /\ req'[r].pc = "error" /\ Others(r)
    BY <1>1, <1>5 DEF BeginFails, Pcs, Ended
  <2>2. QED
    BY <2>1, FirstServed, TurnsAssumption DEF LockInv, Others
<1>6. CASE Finish(r) \/ Raise(r) \/ LeaveRunning(r)
  <2>1. /\ holder = r /\ holder' = None /\ queue' = queue
        /\ \E pc \in {"done", "error", "cancelled"} : req' = Moved(r, pc)
    BY <1>6 DEF Finish, Raise, LeaveRunning
  <2>2. req'[r].pc \in {"done", "error", "cancelled"} /\ Others(r)
    BY <1>1, <2>1 DEF Pcs, Ended
  <2>3. QED
    BY <2>1, <2>2, TurnsAssumption DEF LockInv, Others
<1>7. CASE LeaveWaiting(r)
  <2>1. /\ req[r].pc = "waiting" /\ queue' = Without(r) /\ holder' = holder
        /\ req'[r].pc = "cancelled" /\ Others(r)
    BY <1>1, <1>7 DEF LeaveWaiting, Pcs, Ended
  <2>2. /\ queue \in Seq(Requests) /\ IsInjective(queue)
        /\ \E i \in DOMAIN queue : queue[i] = r
    BY <2>1 DEF LockInv, ToSet
  <2>3. /\ queue' \in Seq(Requests) /\ IsInjective(queue')
        /\ ToSet(queue') = ToSet(queue) \ {r}
    BY <2>1, <2>2, QueueLeft DEF Without
  <2>4. QED
    BY <2>1, <2>3 DEF LockInv, Others
<1>8. QED
  BY <1>2, <1>3, <1>4, <1>5, <1>6, <1>7 DEF RequestStep

(***************************************************************************)
(* Every step keeps queue and lock.                                        *)
(***************************************************************************)
LEMMA LockStep ==
  TypeOK /\ ReqType /\ Untaken /\ LockInv /\ [TurnsNext]_allVars => LockInv'
<1> SUFFICES ASSUME TypeOK, ReqType, Untaken, LockInv, [TurnsNext]_allVars PROVE LockInv'
  OBVIOUS
<1>1. CASE GraphStep \/ UNCHANGED allVars
  BY <1>1 DEF GraphStep, turnVars, allVars, LockInv
<1>2. CASE Restart
  <2>1. /\ holder' = None /\ queue' = <<>>
        /\ \A r \in Requests : req'[r].pc \notin {"waiting", "running"}
    BY <1>2 DEF Restart, ReqType
  <2>2. ToSet(queue') = {} /\ IsInjective(queue') /\ queue' \in Seq(Requests)
    BY <2>1 DEF ToSet, IsInjective
  <2>3. QED
    BY <2>1, <2>2, TurnsAssumption DEF LockInv
<1>3. QED
  BY <1>1, <1>2, LockOneStep DEF TurnsNext

(***************************************************************************)
(* Requests, queue and lock agree: who waits is queued once, and who runs  *)
(* has the lock.                                                           *)
(***************************************************************************)
THEOREM TurnsTypeCorrect == TurnsSpec => []TurnsTypeOK
<1>1. TurnsInit => LockInv
  <2> SUFFICES ASSUME TurnsInit PROVE LockInv
    OBVIOUS
  <2>1. queue = <<>> /\ holder = None /\ \A r \in Requests : req[r].pc = "new"
    BY DEF TurnsInit
  <2>2. ToSet(queue) = {} /\ IsInjective(queue) /\ queue \in Seq(Requests)
    BY <2>1 DEF ToSet, IsInjective
  <2>3. QED
    BY <2>1, <2>2, TurnsAssumption DEF LockInv
<1>2. TypeOK /\ ReqType /\ LockInv => TurnsTypeOK
  BY DEF ReqType, LockInv, TurnsTypeOK
<1>3. QED
  BY RequestsInvariant, LockStep, <1>1, <1>2, PTL DEF TurnsSpec

-----------------------------------------------------------------------------
(* Misplaced approvals                                                     *)

(***************************************************************************)
(* An interrupt that was seen waiting still waits or has been taken.       *)
(***************************************************************************)
Seen(i) == (pending /\ inputs = i) \/ \E s \in Requests : req[s].took = i

(***************************************************************************)
(* The interrupt of an approval under way was seen waiting, and an         *)
(* approval that took another one lost its own to another request.         *)
(***************************************************************************)
ApprovalInv ==
  /\ \A r \in Requests :
       req[r].pc \in NotBegun /\ req[r].approves # 0 => Seen(req[r].approves)
  /\ MisplacedLostARace

(***************************************************************************)
(* An interrupt that was seen is seen for ever.                            *)
(***************************************************************************)
LEMMA SeenStays ==
  ASSUME ReqType, Untaken, Effect, NEW i, i # 0, Seen(i)
  PROVE  Seen(i)'
<1>1. CASE pending /\ inputs = i
  BY <1>1 DEF Seen, Effect
<1>2. ASSUME NEW s \in Requests, req[s].took = i PROVE Seen(i)'
  <2>1. req'[s].took = i
    BY <1>2 DEF Effect, Untaken, NotBegun
  <2>2. QED
    BY <2>1 DEF Seen
<1>3. QED
  BY <1>1, <1>2 DEF Seen

(***************************************************************************)
(* Every step keeps the invariant of the approvals.                        *)
(***************************************************************************)
LEMMA ApprovalStep ==
  ReqType /\ Untaken /\ Effect /\ ApprovalInv => ApprovalInv'
<1> SUFFICES ASSUME ReqType, Untaken, Effect, ApprovalInv PROVE ApprovalInv'
  OBVIOUS
<1>1. ASSUME NEW r \in Requests, req'[r].pc \in NotBegun, req'[r].approves # 0
      PROVE  Seen(req[r].approves)'
  <2>1. CASE req'[r].approves = req[r].approves
    <3>1. Seen(req[r].approves) /\ req[r].approves # 0
      BY <1>1, <2>1 DEF ApprovalInv, Effect
    <3>2. \A i : i # 0 /\ Seen(i) => Seen(i)'
      BY SeenStays
    <3>3. QED
      BY <2>1, <3>1, <3>2 DEF Seen
  <2>2. CASE req'[r].approves # req[r].approves
    <3>1. pending /\ inputs = req'[r].approves
      BY <1>1, <2>2 DEF Effect
    <3>2. CASE pending'
      BY <3>1, <3>2 DEF Effect, Seen
    <3>3. CASE ~pending'
      BY <3>1, <3>3 DEF Effect, Seen
    <3>4. QED
      BY <3>2, <3>3
  <2>3. QED
    BY <2>1, <2>2
<1>2. ASSUME NEW r \in Requests, Misplaced(r)'
      PROVE  \E s \in Requests \ {r} : req'[s].took = req'[r].approves
  <2>1. req'[r].approves # 0 /\ req'[r].took # 0 /\ req'[r].took # req'[r].approves
    BY <1>2 DEF Misplaced
  <2>2. req'[r].approves = req[r].approves
    <3>1. CASE req[r].pc = "new"
      <4>1. req[r].took = 0
        BY <3>1 DEF Untaken, NotBegun
      <4>2. QED
        BY <2>1, <3>1, <4>1 DEF Effect
    <3>2. CASE req[r].pc # "new"
      BY <3>2 DEF Effect
    <3>3. QED
      BY <3>1, <3>2
  <2>3. PICK s \in Requests \ {r} : req[s].took = req[r].approves
    <3>1. CASE req[r].took = req'[r].took
      BY <2>1, <2>2, <3>1 DEF ApprovalInv, MisplacedLostARace, Misplaced
    <3>2. CASE req[r].took # req'[r].took
      <4>1. req[r].pc = "waiting" /\ pending /\ req'[r].took = inputs
        BY <3>2 DEF Effect
      <4>2. req[r].took = 0 /\ Seen(req[r].approves)
        BY <2>1, <2>2, <4>1 DEF Untaken, NotBegun, ApprovalInv
      <4>3. QED
        BY <2>1, <2>2, <4>1, <4>2 DEF Seen
    <3>3. QED
      BY <3>1, <3>2
  <2>4. req'[s].took = req[s].took
    BY <2>1, <2>2, <2>3 DEF Effect, Untaken, NotBegun
  <2>5. QED
    BY <2>2, <2>3, <2>4
<1>3. QED
  BY <1>1, <1>2 DEF ApprovalInv, MisplacedLostARace

(***************************************************************************)
(* An approval answers another question than its own only when another     *)
(* request has answered its own.                                           *)
(***************************************************************************)
THEOREM MisplacedOnlyByRace == TurnsSpec => []MisplacedLostARace
<1>1. TurnsInit => ApprovalInv
  BY DEF TurnsInit, ApprovalInv, MisplacedLostARace, Misplaced
<1>2. ApprovalInv => MisplacedLostARace
  BY DEF ApprovalInv
<1>3. QED
  BY RequestsInvariant, StepEffect, ApprovalStep, <1>1, <1>2, PTL DEF TurnsSpec

=============================================================================
