-------------------------- MODULE RunEvents_proofs --------------------------
(***************************************************************************)
(* Proofs about RunEvents, for any tools, videos, messages and artifact    *)
(* types.                                                                  *)
(***************************************************************************)
EXTENDS RunEvents, TLAPS

-----------------------------------------------------------------------------
(* Names and types                                                         *)

\* The interrupts and the steps of the reviews, spelled out.
LEMMA InterruptNames ==
  /\ Reviews = {"metadata_review", "teaching_plan_review", "artifact_revision_clarification"}
  /\ Interrupts = {"metadata_review", "teaching_plan_review",
                   "artifact_revision_clarification", "interrupt_for_userinput"}
  /\ ReviewStep["metadata_review"] = "metadata_review"
  /\ ReviewStep["teaching_plan_review"] = "teaching_plan_review"
  /\ ReviewStep["artifact_revision_clarification"] = "artifact_revision_routing"
BY DEF Reviews, Interrupts, ReviewStep

\* Every name of a step is one, and no artifact type is another step.
LEMMA StepNames ==
  /\ ToolSteps \cup VideoSteps \cup GraphSteps \cup Types
       \cup {"attachment_analysis", "context_compression"} \subseteq Steps
  /\ \A n \in Reviews : ReviewStep[n] \in GraphSteps
  /\ \A t \in Types : t \notin OwnSteps
  /\ OwnSteps \subseteq Steps
BY NamesAssumption, InterruptNames DEF Steps, OwnSteps, GraphSteps

(***************************************************************************)
(* A thread that is at work has a step, and what it is about to hand over; *)
(* one that ends without having told how has loaded a skill.               *)
(***************************************************************************)
ThreadOK == \A t \in Threads :
  /\ threads[t].pc # "idle" \/ threads[t].says # "none" => threads[t].step \in ToolSteps
  /\ threads[t].pc = "post" => threads[t].payload # None
  /\ threads[t].pc \in {"update", "snapshot", "post"} =>
       threads[t].says \in {"running", "success", "failed"}
  /\ threads[t].pc = "work" => threads[t].says = "running"
  /\ threads[t].pc \in {"last", "told"} /\ threads[t].says = "running" =>
       threads[t].step = "skill_activation"

\* A run begins well typed, with idle threads.
LEMMA TypeInit == Init => TypeOK /\ ThreadOK
<1> SUFFICES ASSUME Init PROVE TypeOK /\ ThreadOK
  OBVIOUS
<1>1. IdleThread \in Thread /\ Nothing \in [Steps -> Statuses]
  BY BoundAssumption DEF IdleThread, Thread, Nothing, Statuses
<1>2. /\ node \in Nodes /\ request \in AnyRequest /\ messages \in 0..MaxMessages
      /\ heard \in [audio : BOOLEAN, frames : BOOLEAN, text : BOOLEAN]
  BY RequestsAssumption, BoundAssumption DEF Init, Unheard, Nodes
<1>3. ThreadOK
  BY DEF Init, ThreadOK, IdleThread
<1>4. callbacks \in Seq([Steps -> Statuses] \cup Threads)
  BY DEF Init
<1>5. tracker \in [Steps -> Statuses] /\ shown \in [Steps -> Statuses] /\ threads \in [Threads -> Thread]
  BY <1>1 DEF Init
<1>6. QED
  BY <1>2, <1>3, <1>4, <1>5 DEF Init, TypeOK

(***************************************************************************)
(* What the producer does to the queue: it runs on its own, but for the    *)
(* tools it asks for, and what it changes in the tracker it shows.         *)
(***************************************************************************)
ProducerEffect ==
  /\ UNCHANGED <<threadVars, stream>>
  /\ node = "tools" => Idle
  /\ node \notin {"end"}
  /\ node' = "tools" => node = "documents"
  /\ \/ UNCHANGED <<tracker, shown>> /\ node # "tools"
     \/ shown' = tracker'

\* Every step of the producer is such a step, or asks the tools.
LEMMA ProducerSteps ==
  ASSUME TypeOK, Producer
  PROVE  AskTools \/ ProducerEffect
<1>1. ASSUME TakeLock PROVE ProducerEffect
  BY <1>1 DEF TakeLock, ProducerEffect, Goto, queueVars
<1>2. ASSUME AnalyzeDocuments PROVE ProducerEffect
  BY <1>2 DEF AnalyzeDocuments, ProducerEffect, Snapshot, Emit, RaiseSilently
<1>3. ASSUME DocumentsAnalyzed PROVE ProducerEffect
  BY <1>3 DEF DocumentsAnalyzed, ProducerEffect, Snapshot, Emit, Goto, Raise, RaiseEmitting
<1>4. ASSUME NextVideo PROVE ProducerEffect
  BY <1>4 DEF NextVideo, Unheard, ProducerEffect, Snapshot, Silent, Emit, Goto, Raise,
     RaiseSilently
<1>5. ASSUME ExtractAudio PROVE ProducerEffect
  BY <1>5 DEF ExtractAudio, ProducerEffect, Snapshot, Silent, Emit, Goto, Raise, RaiseSilently
<1>6. ASSUME Transcribe PROVE ProducerEffect
  BY <1>6 DEF Transcribe, ProducerEffect, Snapshot, Emit, Goto, Raise, RaiseSilently
<1>7. ASSUME ExtractKeyframes PROVE ProducerEffect
  BY <1>7 DEF ExtractKeyframes, ProducerEffect, Snapshot, Emit, Goto, Raise, RaiseSilently
<1>8. ASSUME CaptionKeyframes PROVE ProducerEffect
  BY <1>8 DEF CaptionKeyframes, ProducerEffect, Snapshot, Emit, Goto, Raise, RaiseSilently
<1>9. ASSUME VideoAnalyzed PROVE ProducerEffect
  BY <1>9 DEF VideoAnalyzed, ProducerEffect, Silent, Goto, Raise, RaiseSilently
<1>10. ASSUME EnterGraph PROVE ProducerEffect
  BY <1>10, TypeOK, InterruptNames DEF EnterGraph, ProducerEffect, TypeOK, AnyRequest, Silent,
     Goto, Raise, RaiseSilently
<1>11. ASSUME IntentRouter PROVE ProducerEffect
  BY <1>11 DEF IntentRouter, ProducerEffect, Snapshot, Emit, Goto, Raise, Node, RaiseEmitting
<1>12. ASSUME MetadataStructer PROVE ProducerEffect
  BY <1>12 DEF MetadataStructer, ProducerEffect, Snapshot, Emit, Goto, Raise, Node,
     RaiseEmitting
<1>13. ASSUME RagRetrieval PROVE ProducerEffect
  BY <1>13 DEF RagRetrieval, ProducerEffect, Snapshot, Emit, Goto, Raise, Node, RaiseEmitting
<1>14. ASSUME TeachingDesignPlanner PROVE ProducerEffect
  BY <1>14 DEF TeachingDesignPlanner, ProducerEffect, Snapshot, Emit, Goto, Raise, Node,
     RaiseEmitting
<1>15. ASSUME Chat PROVE ProducerEffect
  BY <1>15 DEF Chat, ProducerEffect, Event, Goto, Raise, RaiseSilently
<1>16. ASSUME NEW n \in Interrupts, Interrupt(n) PROVE ProducerEffect
  BY <1>16, InterruptNames DEF Interrupt, ProducerEffect, Snapshot, Silent, Emit, Goto
<1>17. ASSUME ResumeMetadataReview PROVE ProducerEffect
  BY <1>17 DEF ResumeMetadataReview, ProducerEffect, Snapshot, Emit, Goto, Answered, Refuse
<1>18. ASSUME ResumePlanReview PROVE ProducerEffect
  BY <1>18 DEF ResumePlanReview, StartJobs, ProducerEffect, Snapshot, Emit, Goto, Answered,
     Refuse
<1>19. ASSUME ResumeClarification PROVE ProducerEffect
  BY <1>19 DEF ResumeClarification, StartJobs, ProducerEffect, Snapshot, Emit, Goto, Answered,
     Refuse
<1>20. ASSUME ResumeUserInput PROVE ProducerEffect
  BY <1>20 DEF ResumeUserInput, ProducerEffect, Silent, Goto, Answered
<1>21. ASSUME ArtifactRevisionRouter PROVE ProducerEffect
  BY <1>21 DEF ArtifactRevisionRouter, StartJobs, ProducerEffect, Snapshot, Emit, Goto
<1>22. ASSUME NEW t \in Types, JobStarts(t) PROVE ProducerEffect
  BY <1>22 DEF JobStarts, ProducerEffect, Snapshot, Emit, JobVars
<1>23. ASSUME NEW t \in Types, JobPrepares(t) PROVE ProducerEffect
  BY <1>23 DEF JobPrepares, JobReports, ProducerEffect, Snapshot, Emit, JobVars
<1>24. ASSUME NEW t \in Types, JobEnds(t) PROVE ProducerEffect
  BY <1>24 DEF JobEnds, JobReports, ProducerEffect, Snapshot, Emit, JobVars
<1>25. ASSUME NEW t \in Types, JobRaises(t) PROVE ProducerEffect
  BY <1>25 DEF JobRaises, ProducerEffect, Raise, RaiseSilently
<1>26. ASSUME ArtifactsDone PROVE ProducerEffect
  BY <1>26 DEF ArtifactsDone, ProducerEffect, Silent, Goto
<1>27. ASSUME ArtifactFanIn PROVE ProducerEffect
  BY <1>27 DEF ArtifactFanIn, ProducerEffect, Snapshot, Emit, Goto
<1>28. ASSUME TellApproval PROVE ProducerEffect
  BY <1>28 DEF TellApproval, ProducerEffect, Silent, Event, Goto, Raise, RaiseSilently
<1>29. ASSUME CompressContext PROVE ProducerEffect
  BY <1>29 DEF CompressContext, ProducerEffect, Snapshot, Silent, Emit, Goto, Raise,
     RaiseSilently
<1>30. ASSUME Suggest PROVE ProducerEffect
  BY <1>30 DEF Suggest, ProducerEffect, Silent, Event, Goto
<1>31. ASSUME ProducerEnds PROVE ProducerEffect
  BY <1>31 DEF ProducerEnds, ProducerEffect, Goto, queueVars
<1>32. QED
  BY <1>1, <1>2, <1>3, <1>4, <1>5, <1>6, <1>7, <1>8, <1>9, <1>10, <1>11, <1>12, <1>13, <1>14,
     <1>15, <1>16, <1>17, <1>18, <1>19, <1>20, <1>21, <1>22, <1>23, <1>24, <1>25, <1>26, <1>27,
     <1>28, <1>29, <1>30, <1>31 DEF Producer, Attachments, Graph
ControlOK ==
  /\ node \in Nodes
  /\ request \in AnyRequest
  /\ heard \in [audio : BOOLEAN, frames : BOOLEAN, text : BOOLEAN]
  /\ pending \in Interrupts \cup {None}
  /\ refused \subseteq Reviews
  /\ jobs \in [Types -> {"none", "running", "preparing", "ready", "failed"}]
  /\ revises \in BOOLEAN

QueueOK ==
  /\ tracker \in [Steps -> Statuses]
  /\ shown \in [Steps -> Statuses]
  /\ events \subseteq {"token", "approval", "suggestions", "error"}

(***************************************************************************)
(* A video less, an answer taken, and the start of some jobs.              *)
(***************************************************************************)
LEMMA RequestTypes ==
  ASSUME request \in AnyRequest
  PROVE  /\ request.videos # 0 => [request EXCEPT !.videos = @ - 1] \in AnyRequest
         /\ [request EXCEPT !.answers = None] \in AnyRequest
         /\ request.answers \in Interrupts \cup {None}
BY DEF AnyRequest

\* The jobs that start leave the other jobs with a state of theirs.
LEMMA StartJobsTypes ==
  ASSUME NEW S \in SUBSET Types, NEW revise \in BOOLEAN, StartJobs(S, revise)
  PROVE  /\ node' = "artifacts"
         /\ jobs' \in [Types -> {"none", "running", "preparing", "ready", "failed"}]
         /\ revises' = revise
BY DEF StartJobs, Goto

(***************************************************************************)
(* Where the producer is, and what it has left to do.                      *)
(***************************************************************************)
LEMMA ControlTypes ==
  ASSUME ControlOK, Producer
  PROVE  ControlOK'
<1>1. ASSUME TakeLock PROVE ControlOK'
  BY <1>1 DEF TakeLock, Nodes, Goto, graphVars, ControlOK
<1>2. ASSUME AnalyzeDocuments PROVE ControlOK'
  BY <1>2 DEF AnalyzeDocuments, Nodes, Goto, Raise, RaiseSilently, graphVars, ControlOK
<1>3. ASSUME AskTools PROVE ControlOK'
  BY <1>3 DEF AskTools, Nodes, graphVars, ControlOK
<1>4. ASSUME DocumentsAnalyzed PROVE ControlOK'
  BY <1>4 DEF DocumentsAnalyzed, Nodes, Goto, Raise, graphVars, ControlOK, RaiseEmitting
<1>5. ASSUME NextVideo PROVE ControlOK'
  <2>1. /\ node' \in {"input", "audio", "over"}
        /\ \/ UNCHANGED request
           \/ request.videos # 0 /\ request' = [request EXCEPT !.videos = @ - 1]
        /\ UNCHANGED heard \/ heard' = Unheard
        /\ UNCHANGED graphVars
    BY <1>5 DEF NextVideo, Goto, RaiseSilently, Raise
  <2>2. request' \in AnyRequest
    BY <2>1, RequestTypes DEF ControlOK
  <2>3. heard' \in [audio : BOOLEAN, frames : BOOLEAN, text : BOOLEAN]
    <3>1. Unheard \in [audio : BOOLEAN, frames : BOOLEAN, text : BOOLEAN]
      BY DEF Unheard
    <3>2. QED
      BY <2>1, <3>1 DEF ControlOK
  <2>4. node' \in Nodes
    BY <2>1 DEF Nodes, VideoNodes
  <2>5. QED
    BY <2>1, <2>2, <2>3, <2>4 DEF ControlOK, graphVars
<1>6. ASSUME ExtractAudio PROVE ControlOK'
  BY <1>6 DEF ExtractAudio, Nodes, Goto, Raise, RaiseSilently, graphVars, VideoNodes, ControlOK
<1>7. ASSUME Transcribe PROVE ControlOK'
  BY <1>7 DEF Transcribe, Nodes, Goto, Raise, RaiseSilently, graphVars, VideoNodes, ControlOK
<1>8. ASSUME ExtractKeyframes PROVE ControlOK'
  BY <1>8 DEF ExtractKeyframes, Nodes, Goto, Raise, RaiseSilently, graphVars, VideoNodes,
     ControlOK
<1>9. ASSUME CaptionKeyframes PROVE ControlOK'
  BY <1>9 DEF CaptionKeyframes, Nodes, Goto, Raise, RaiseSilently, graphVars, VideoNodes,
     ControlOK
<1>10. ASSUME VideoAnalyzed PROVE ControlOK'
  BY <1>10 DEF VideoAnalyzed, Nodes, Goto, Raise, RaiseSilently, graphVars, ControlOK
<1>11. ASSUME EnterGraph PROVE ControlOK'
  BY <1>11, InterruptNames DEF EnterGraph, Nodes, AnyRequest, Goto, Raise, RaiseSilently,
     graphVars, GraphNodes, ControlOK
<1>12. ASSUME IntentRouter PROVE ControlOK'
  BY <1>12 DEF IntentRouter, Nodes, Goto, Raise, graphVars, GraphNodes, Node, ControlOK,
     RaiseEmitting
<1>13. ASSUME MetadataStructer PROVE ControlOK'
  BY <1>13, InterruptNames DEF MetadataStructer, Nodes, Goto, Raise, graphVars, GraphNodes,
     Node, ControlOK, RaiseEmitting
<1>14. ASSUME RagRetrieval PROVE ControlOK'
  BY <1>14 DEF RagRetrieval, Nodes, Goto, Raise, graphVars, GraphNodes, Node, ControlOK,
     RaiseEmitting
<1>15. ASSUME TeachingDesignPlanner PROVE ControlOK'
  BY <1>15, InterruptNames DEF TeachingDesignPlanner, Nodes, Goto, Raise, graphVars,
     GraphNodes, Node, ControlOK, RaiseEmitting
<1>16. ASSUME Chat PROVE ControlOK'
  BY <1>16, InterruptNames DEF Chat, Nodes, Goto, Raise, RaiseSilently, graphVars, GraphNodes,
     ControlOK
<1>17. ASSUME NEW n \in Interrupts, Interrupt(n) PROVE ControlOK'
  BY <1>17, InterruptNames DEF Interrupt, Nodes, Goto, graphVars, ControlOK
<1>18. ASSUME ResumeMetadataReview PROVE ControlOK'
  BY <1>18, RequestTypes, InterruptNames DEF ResumeMetadataReview, Nodes, Goto, graphVars,
     GraphNodes, Answered, Refuse, ControlOK
<1>19. ASSUME ResumePlanReview PROVE ControlOK'
  BY <1>19, RequestTypes, InterruptNames, StartJobsTypes DEF ResumePlanReview, Nodes, Goto,
     graphVars, GraphNodes, Answered, Refuse, ControlOK
<1>20. ASSUME ResumeClarification PROVE ControlOK'
  BY <1>20, RequestTypes, InterruptNames, StartJobsTypes DEF ResumeClarification, Nodes, Goto,
     graphVars, GraphNodes, Answered, Refuse, ControlOK
<1>21. ASSUME ResumeUserInput PROVE ControlOK'
  BY <1>21, RequestTypes, InterruptNames DEF ResumeUserInput, Nodes, Goto, graphVars,
     GraphNodes, Answered, ControlOK
<1>22. ASSUME ArtifactRevisionRouter PROVE ControlOK'
  BY <1>22, InterruptNames, StartJobsTypes DEF ArtifactRevisionRouter, Nodes, Goto, graphVars,
     GraphNodes, ControlOK
<1>23. ASSUME NEW t \in Types, JobStarts(t) PROVE ControlOK'
  BY <1>23 DEF JobStarts, Nodes, graphVars, ControlOK, JobVars
<1>24. ASSUME NEW t \in Types, JobPrepares(t) PROVE ControlOK'
  BY <1>24 DEF JobPrepares, JobReports, Nodes, graphVars, ControlOK, JobVars
<1>25. ASSUME NEW t \in Types, JobEnds(t) PROVE ControlOK'
  BY <1>25 DEF JobEnds, JobReports, Nodes, graphVars, ControlOK, JobVars
<1>26. ASSUME NEW t \in Types, JobRaises(t) PROVE ControlOK'
  BY <1>26 DEF JobRaises, Nodes, Raise, RaiseSilently, graphVars, ControlOK
<1>27. ASSUME ArtifactsDone PROVE ControlOK'
  BY <1>27 DEF ArtifactsDone, Nodes, Goto, graphVars, GraphNodes, ControlOK
<1>28. ASSUME ArtifactFanIn PROVE ControlOK'
  BY <1>28 DEF ArtifactFanIn, Nodes, Goto, graphVars, ControlOK
<1>29. ASSUME TellApproval PROVE ControlOK'
  BY <1>29 DEF TellApproval, Nodes, Goto, Raise, RaiseSilently, graphVars, ControlOK
<1>30. ASSUME CompressContext PROVE ControlOK'
  BY <1>30 DEF CompressContext, Nodes, Goto, Raise, RaiseSilently, graphVars, ControlOK
<1>31. ASSUME Suggest PROVE ControlOK'
  BY <1>31 DEF Suggest, Nodes, Goto, graphVars, ControlOK
<1>32. ASSUME ProducerEnds PROVE ControlOK'
  BY <1>32 DEF ProducerEnds, Nodes, Goto, graphVars, ControlOK
<1>33. QED
  BY <1>1, <1>2, <1>3, <1>4, <1>5, <1>6, <1>7, <1>8, <1>9, <1>10, <1>11, <1>12, <1>13, <1>14,
     <1>15, <1>16, <1>17, <1>18, <1>19, <1>20, <1>21, <1>22, <1>23, <1>24, <1>25, <1>26, <1>27,
     <1>28, <1>29, <1>30, <1>31, <1>32 DEF Producer, Attachments, Graph

(***************************************************************************)
(* The ways in which the producer writes to the tracker and the queue.     *)
(***************************************************************************)
QueueStep ==
  \/ \E k \in Steps \ ToolSteps, s \in {"running", "success", "failed"} : Emit(k, s)
  \/ \E kind \in {"token", "approval", "suggestions"} : Event(kind)
  \/ UNCHANGED queueVars
  \/ RaiseSilently
  \/ \E k \in Steps \ ToolSteps : RaiseEmitting(k)
  \/ \E t \in Types : JobEnds(t)

(***************************************************************************)
(* Every step of the producer is one of them.                              *)
(***************************************************************************)
LEMMA QueueSteps ==
  ASSUME Producer
  PROVE  QueueStep
<1>1. ASSUME TakeLock PROVE QueueStep
  BY <1>1, StepNames DEF TakeLock, QueueStep
<1>2. ASSUME AnalyzeDocuments PROVE QueueStep
  BY <1>2, StepNames DEF AnalyzeDocuments, QueueStep, ToolSteps
<1>3. ASSUME AskTools PROVE QueueStep
  BY <1>3, StepNames DEF AskTools, QueueStep
<1>4. ASSUME DocumentsAnalyzed PROVE QueueStep
  BY <1>4, StepNames DEF DocumentsAnalyzed, QueueStep, ToolSteps
<1>5. ASSUME NextVideo PROVE QueueStep
  BY <1>5, StepNames DEF NextVideo, Unheard, QueueStep, Silent, queueVars, ToolSteps, VideoSteps
<1>6. ASSUME ExtractAudio PROVE QueueStep
  BY <1>6, StepNames DEF ExtractAudio, QueueStep, Silent, queueVars, ToolSteps, VideoSteps
<1>7. ASSUME Transcribe PROVE QueueStep
  BY <1>7, StepNames DEF Transcribe, QueueStep, ToolSteps, VideoSteps
<1>8. ASSUME ExtractKeyframes PROVE QueueStep
  BY <1>8, StepNames DEF ExtractKeyframes, QueueStep, ToolSteps, VideoSteps
<1>9. ASSUME CaptionKeyframes PROVE QueueStep
  BY <1>9, StepNames DEF CaptionKeyframes, QueueStep, ToolSteps, VideoSteps
<1>10. ASSUME VideoAnalyzed PROVE QueueStep
  BY <1>10, StepNames DEF VideoAnalyzed, QueueStep, Silent, queueVars
<1>11. ASSUME EnterGraph PROVE QueueStep
  BY <1>11, StepNames DEF EnterGraph, QueueStep, Silent, queueVars
<1>12. ASSUME IntentRouter PROVE QueueStep
  BY <1>12, StepNames DEF IntentRouter, QueueStep, ToolSteps, GraphSteps, Node
<1>13. ASSUME MetadataStructer PROVE QueueStep
  BY <1>13, StepNames DEF MetadataStructer, QueueStep, ToolSteps, GraphSteps, Node
<1>14. ASSUME RagRetrieval PROVE QueueStep
  BY <1>14, StepNames DEF RagRetrieval, QueueStep, ToolSteps, GraphSteps, Node
<1>15. ASSUME TeachingDesignPlanner PROVE QueueStep
  BY <1>15, StepNames DEF TeachingDesignPlanner, QueueStep, ToolSteps, GraphSteps, Node
<1>16. ASSUME Chat PROVE QueueStep
  BY <1>16, StepNames DEF Chat, QueueStep
<1>17. ASSUME NEW n \in Interrupts, Interrupt(n) PROVE QueueStep
  BY <1>17, StepNames, InterruptNames DEF Interrupt, QueueStep, Silent, queueVars, ToolSteps
<1>18. ASSUME ResumeMetadataReview PROVE QueueStep
  BY <1>18, StepNames, InterruptNames DEF ResumeMetadataReview, QueueStep, ToolSteps, Refuse
<1>19. ASSUME ResumePlanReview PROVE QueueStep
  BY <1>19, StepNames, InterruptNames DEF ResumePlanReview, QueueStep, ToolSteps, Refuse
<1>20. ASSUME ResumeClarification PROVE QueueStep
  BY <1>20, StepNames, InterruptNames DEF ResumeClarification, QueueStep, ToolSteps, Refuse
<1>21. ASSUME ResumeUserInput PROVE QueueStep
  BY <1>21, StepNames DEF ResumeUserInput, QueueStep, Silent, queueVars
<1>22. ASSUME ArtifactRevisionRouter PROVE QueueStep
  BY <1>22, StepNames DEF ArtifactRevisionRouter, QueueStep, ToolSteps, GraphSteps
<1>23. ASSUME NEW t \in Types, JobStarts(t) PROVE QueueStep
  BY <1>23, StepNames DEF JobStarts, QueueStep, OwnSteps
<1>24. ASSUME NEW t \in Types, JobPrepares(t) PROVE QueueStep
  BY <1>24, StepNames DEF JobPrepares, QueueStep, ToolSteps, GraphSteps
<1>25. ASSUME NEW t \in Types, JobEnds(t) PROVE QueueStep
  BY <1>25, StepNames DEF JobEnds, QueueStep
<1>26. ASSUME NEW t \in Types, JobRaises(t) PROVE QueueStep
  BY <1>26, StepNames DEF JobRaises, QueueStep
<1>27. ASSUME ArtifactsDone PROVE QueueStep
  BY <1>27, StepNames DEF ArtifactsDone, QueueStep, Silent, queueVars
<1>28. ASSUME ArtifactFanIn PROVE QueueStep
  BY <1>28, StepNames DEF ArtifactFanIn, QueueStep, ToolSteps, GraphSteps
<1>29. ASSUME TellApproval PROVE QueueStep
  BY <1>29, StepNames DEF TellApproval, QueueStep, Silent, queueVars
<1>30. ASSUME CompressContext PROVE QueueStep
  BY <1>30, StepNames DEF CompressContext, QueueStep, Silent, queueVars, ToolSteps
<1>31. ASSUME Suggest PROVE QueueStep
  BY <1>31, StepNames DEF Suggest, QueueStep, Silent, queueVars
<1>32. ASSUME ProducerEnds PROVE QueueStep
  BY <1>32, StepNames DEF ProducerEnds, QueueStep
<1>33. QED
  BY <1>1, <1>2, <1>3, <1>4, <1>5, <1>6, <1>7, <1>8, <1>9, <1>10, <1>11, <1>12, <1>13, <1>14,
     <1>15, <1>16, <1>17, <1>18, <1>19, <1>20, <1>21, <1>22, <1>23, <1>24, <1>25, <1>26, <1>27,
     <1>28, <1>29, <1>30, <1>31, <1>32 DEF Producer, Attachments, Graph


\* The producer keeps the tracker and the queue well typed.
LEMMA QueueTypes ==
  ASSUME QueueOK, Producer
  PROVE  QueueOK'
<1>1. ASSUME NEW k \in Steps, NEW s \in {"running", "success", "failed"}, Emit(k, s) PROVE QueueOK'
  BY <1>1 DEF Emit, Update, Snapshot, QueueOK, Statuses
<1>2. ASSUME NEW kind \in {"token", "approval", "suggestions"}, Event(kind) PROVE QueueOK'
  BY <1>2 DEF Event, QueueOK
<1>3. CASE UNCHANGED queueVars
  BY <1>3 DEF queueVars, QueueOK
<1>4. CASE RaiseSilently
  BY <1>4 DEF RaiseSilently, Raise, QueueOK
<1>5. ASSUME NEW k \in Steps, RaiseEmitting(k) PROVE QueueOK'
  BY <1>5 DEF RaiseEmitting, Raise, Update, Snapshot, QueueOK, Statuses
<1>6. ASSUME NEW t \in Types, JobEnds(t) PROVE QueueOK'
  <2>1. /\ "artifact_revision_prepare" \in Steps /\ t \in Steps
        /\ "failed" \in Statuses /\ "success" \in Statuses
    BY StepNames DEF GraphSteps, Statuses
  <2>2. /\ shown' = tracker' /\ UNCHANGED events
        /\ \/ \E s \in {"success", "failed"} : tracker' = [tracker EXCEPT ![t] = s]
           \/ tracker' = [tracker EXCEPT ![t] = "failed", !["artifact_revision_prepare"] = "failed"]
    BY <1>6 DEF JobEnds, Emit, Update, Snapshot
  <2>3. tracker' \in [Steps -> Statuses]
    BY <2>1, <2>2 DEF QueueOK
  <2>4. QED
    BY <2>2, <2>3 DEF QueueOK
<1>7. QED
  BY <1>1, <1>2, <1>3, <1>4, <1>5, <1>6, QueueSteps DEF QueueStep

(***************************************************************************)
(* One step of a tool thread.  A thread whose result is with the loop has  *)
(* no steps left.                                                          *)
(***************************************************************************)
ThreadsOK ==
  /\ threads \in [Threads -> Thread]
  /\ messages \in 0..MaxMessages
  /\ unread \in BOOLEAN
  /\ callbacks \in Seq([Steps -> Statuses] \cup Threads)

Told(t) == threads[t].pc = "told"

ThreadEffect(t) ==
  /\ threads' \in [Threads -> Thread]
  /\ threads[t].pc # "idle" /\ threads'[t].pc # "idle" /\ ~Told(t)
  /\ threads'[t].step = threads[t].step
  /\ \A u \in Threads \ {t} : threads'[u] = threads[u]
  /\ \/ callbacks' = callbacks
     \/ \E x \in [Steps -> Statuses] : callbacks' = Append(callbacks, x)
     \/ callbacks' = Append(callbacks, t) /\ Told(t)'

\* A step of a thread changes what is its own, the tracker and the callbacks.
LEMMA ThreadSteps ==
  ASSUME TypeOK, ThreadOK, NEW t \in Threads, RunThread(t)
  PROVE  ThreadEffect(t) /\ ThreadOK' /\ UNCHANGED <<messages, unread>> /\ tracker' \in [Steps -> Statuses]
<1>1. /\ threads \in [Threads -> Thread] /\ threads[t] \in Thread /\ tracker \in [Steps -> Statuses]
  BY DEF TypeOK
<1>2. ASSUME threads[t].pc = "update", Update(threads[t].step, threads[t].says),
             threads' = [threads EXCEPT ![t].pc = "snapshot"], UNCHANGED callbacks
      PROVE  ThreadEffect(t) /\ ThreadOK' /\ tracker' \in [Steps -> Statuses]
  <2>1. threads[t].step \in Steps /\ threads[t].says \in {"running", "success", "failed"}
    BY <1>2, StepNames DEF ThreadOK
  <2>2. tracker' \in [Steps -> Statuses]
    BY <1>1, <1>2, <2>1 DEF Update, Statuses
  <2>3. threads' \in [Threads -> Thread]
    BY <1>1, <1>2 DEF Thread
  <2>4. QED
    BY <1>1, <1>2, <2>2, <2>3 DEF ThreadEffect, ThreadOK, Told
<1>3. ASSUME threads[t].pc = "snapshot",
             threads' = [threads EXCEPT ![t].pc = "post", ![t].payload = Snapshot(tracker)],
             UNCHANGED <<callbacks, tracker>>
      PROVE  ThreadEffect(t) /\ ThreadOK' /\ tracker' \in [Steps -> Statuses]
  <2>1. threads' \in [Threads -> Thread]
    BY <1>1, <1>3 DEF Thread, Snapshot
  <2>2. tracker # None
    BY <1>1, NamesAssumption
  <2>3. QED
    BY <1>1, <1>3, <2>1, <2>2 DEF ThreadEffect, ThreadOK, Told, Snapshot
<1>4. ASSUME threads[t].pc = "post",
             callbacks' = Append(callbacks, threads[t].payload),
             threads' = [threads EXCEPT ![t].pc = IF threads[t].says = "running" THEN "work" ELSE "last",
                                        ![t].payload = None],
             UNCHANGED tracker
      PROVE  ThreadEffect(t) /\ ThreadOK' /\ tracker' \in [Steps -> Statuses]
  <2>1. threads' \in [Threads -> Thread]
    BY <1>1, <1>4 DEF Thread
  <2>2. threads[t].payload \in [Steps -> Statuses]
    BY <1>1, <1>4 DEF ThreadOK, Thread
  <2>3. QED
    BY <1>1, <1>4, <2>1, <2>2 DEF ThreadEffect, ThreadOK, Told
<1>5. ASSUME threads[t].pc = "work", NEW status \in {"success", "failed"}, Say(t, status),
             UNCHANGED <<callbacks, tracker>>
      PROVE  ThreadEffect(t) /\ ThreadOK' /\ tracker' \in [Steps -> Statuses]
  <2>1. threads' \in [Threads -> Thread]
    BY <1>1, <1>5 DEF Thread, Say, Statuses
  <2>2. QED
    BY <1>1, <1>5, <2>1 DEF ThreadEffect, ThreadOK, Told, Say
<1>6. ASSUME threads[t].pc = "work", threads[t].step = "skill_activation",
             threads' = [threads EXCEPT ![t].pc = "last"], UNCHANGED <<callbacks, tracker>>
      PROVE  ThreadEffect(t) /\ ThreadOK' /\ tracker' \in [Steps -> Statuses]
  <2>1. threads' \in [Threads -> Thread]
    BY <1>1, <1>6 DEF Thread
  <2>2. QED
    BY <1>1, <1>6, <2>1 DEF ThreadEffect, ThreadOK, Told
<1>7. ASSUME threads[t].pc = "last", callbacks' = Append(callbacks, t),
             threads' = [threads EXCEPT ![t].pc = "told"], UNCHANGED tracker
      PROVE  ThreadEffect(t) /\ ThreadOK' /\ tracker' \in [Steps -> Statuses]
  <2>1. threads' \in [Threads -> Thread]
    BY <1>1, <1>7 DEF Thread
  <2>2. threads'[t] = [threads[t] EXCEPT !.pc = "told"]
    BY <1>1, <1>7
  <2>3. QED
    BY <1>1, <1>7, <2>1, <2>2 DEF ThreadEffect, ThreadOK, Told, Thread
<1>8. QED
  BY <1>2, <1>3, <1>4, <1>5, <1>6, <1>7 DEF RunThread, ThreadEmits, ThreadWorks


\* A message of tool calls keeps the types: its threads were idle.
LEMMA AskTypes ==
  ASSUME TypeOK, ThreadOK, AskTools
  PROVE  TypeOK' /\ ThreadOK'
<1>1. PICK S \in (SUBSET Threads) \ {{}} : \E step \in [S -> Calls] :
        threads' = [t \in Threads |-> IF t \in S THEN Attempt(step[t], 0) ELSE threads[t]]
  BY DEF AskTools
<1>2. PICK step \in [S -> Calls] :
        threads' = [t \in Threads |-> IF t \in S THEN Attempt(step[t], 0) ELSE threads[t]]
  BY <1>1
<1>3. threads' \in [Threads -> Thread]
  BY <1>2, CallsAssumption, BoundAssumption DEF TypeOK, Attempt, Thread, Statuses
<1>4. ThreadOK'
  BY <1>2, CallsAssumption DEF ThreadOK, Attempt
<1>5. messages' \in 0..MaxMessages
  BY BoundAssumption DEF AskTools, TypeOK
<1>6. QED
  BY <1>3, <1>4, <1>5 DEF TypeOK, AskTools, graphVars, queueVars

\* So does a callback, which shows a snapshot or hands in a result.
LEMMA CallbackTypes ==
  ASSUME TypeOK, ThreadOK, RunCallback
  PROVE  TypeOK' /\ ThreadOK'
<1>1. /\ callbacks # <<>> /\ callbacks \in Seq([Steps -> Statuses] \cup Threads)
      /\ callbacks' = Tail(callbacks)
      /\ Head(callbacks) \in [Steps -> Statuses] \cup Threads
  BY DEF RunCallback, TypeOK
<1>2. callbacks' \in Seq([Steps -> Statuses] \cup Threads)
  BY <1>1
<1>3. CASE Head(callbacks) \in [Steps -> Statuses]
  <2>1. UNCHANGED <<threads, unread>> /\ shown' = Head(callbacks)
    BY <1>3, NamesAssumption DEF RunCallback
  <2>2. QED
    BY <1>2, <1>3, <2>1 DEF TypeOK, ThreadOK, RunCallback, graphVars
<1>4. ASSUME NEW t \in Threads, Head(callbacks) = t PROVE TypeOK' /\ ThreadOK'
  <2>1. /\ Returns(t) /\ UNCHANGED shown
        /\ threads \in [Threads -> Thread] /\ threads[t] \in Thread /\ unread \in BOOLEAN
    BY <1>4 DEF RunCallback, TypeOK
  <2>2. CASE Accept(t)
    <3>1. IdleThread \in Thread
      BY BoundAssumption DEF IdleThread, Thread, Statuses
    <3>2. threads' \in [Threads -> Thread] /\ unread' \in BOOLEAN
      BY <2>1, <2>2, <3>1 DEF Accept
    <3>3. ThreadOK'
      BY <2>1, <2>2 DEF Accept, ThreadOK, IdleThread
    <3>4. QED
      BY <1>2, <2>1, <3>2, <3>3 DEF TypeOK, RunCallback, graphVars
  <2>3. CASE Retry(t) /\ threads[t].tries < MaxRetries /\ (Unread(t) \/ MayRaise(t))
    <3>2. threads[t].step \in ToolSteps
      BY <2>3 DEF ThreadOK, Unread, MayRaise
    <3>3. Attempt(threads[t].step, threads[t].tries + 1) \in Thread
      BY <2>1, <2>3, <3>2, BoundAssumption DEF Attempt, Thread, Statuses
    <3>4. threads' = [threads EXCEPT ![t] = Attempt(threads[t].step, threads[t].tries + 1)]
      BY <2>1, <2>3 DEF Retry
    <3>5. threads' \in [Threads -> Thread] /\ unread' \in BOOLEAN
      BY <2>1, <2>3, <3>3, <3>4 DEF Retry
    <3>6. ThreadOK'
      BY <2>1, <3>2, <3>4 DEF ThreadOK, Attempt
    <3>7. QED
      BY <1>2, <2>1, <3>5, <3>6 DEF TypeOK, RunCallback, graphVars
  <2>4. QED
    BY <2>1, <2>2, <2>3 DEF Returns
<1>5. QED
  BY <1>1, <1>3, <1>4

\* Every step keeps the types.
LEMMA TypeStep == TypeOK /\ ThreadOK /\ [Next]_vars => TypeOK' /\ ThreadOK'
<1> SUFFICES ASSUME TypeOK, ThreadOK, [Next]_vars PROVE TypeOK' /\ ThreadOK'
  OBVIOUS
<1>1. TypeOK <=> ControlOK /\ QueueOK /\ ThreadsOK /\ stream \in {"open", "closed", "left"}
  BY DEF TypeOK, ControlOK, QueueOK, ThreadsOK
<1>2. TypeOK' <=> ControlOK' /\ QueueOK' /\ ThreadsOK' /\ stream' \in {"open", "closed", "left"}
  BY DEF TypeOK, ControlOK, QueueOK, ThreadsOK
<1>3. CASE Producer
  <2>1. CASE AskTools
    BY <2>1, AskTypes
  <2>2. CASE ProducerEffect
    BY <1>1, <1>2, <1>3, <2>2, ControlTypes, QueueTypes DEF ProducerEffect, ThreadsOK,
       ThreadOK, threadVars
  <2>3. QED
    BY <1>3, <2>1, <2>2, ProducerSteps
<1>4. CASE RunCallback
  BY <1>4, CallbackTypes
<1>5. ASSUME NEW t \in Threads, RunThread(t) PROVE TypeOK' /\ ThreadOK'
  <2>1. callbacks' \in Seq([Steps -> Statuses] \cup Threads)
    <3> DEFINE C == [Steps -> Statuses] \cup Threads
    <3>1. callbacks \in Seq(C) /\ t \in C /\ [Steps -> Statuses] \subseteq C
      BY DEF TypeOK
    <3> HIDE DEF C
    <3>2. callbacks' = callbacks \/ \E x \in C : callbacks' = Append(callbacks, x)
      BY <1>5, <3>1, ThreadSteps DEF ThreadEffect
    <3>3. callbacks' \in Seq(C)
      BY <3>1, <3>2
    <3>4. QED
      BY <3>3 DEF C
  <2>2. ControlOK' /\ UNCHANGED <<shown, events, stream>>
    BY <1>1, <1>5 DEF RunThread, ControlOK, graphVars
  <2>3. QED
    BY <1>1, <1>2, <1>5, <2>1, <2>2, ThreadSteps DEF ThreadEffect, ThreadsOK, QueueOK
<1>6. CASE ReadEnd
  BY <1>6 DEF ReadEnd, TypeOK, ThreadOK, graphVars, threadVars, queueVars
<1>7. CASE ClientLeaves
  BY <1>7 DEF ClientLeaves, Goto, Nodes, TypeOK, ThreadOK, graphVars, threadVars, queueVars
<1>8. CASE UNCHANGED vars
  BY <1>8 DEF vars, TypeOK, ThreadOK, graphVars, threadVars, queueVars
<1>9. QED
  BY <1>3, <1>4, <1>5, <1>6, <1>7, <1>8 DEF Next

(***************************************************************************)
(* Every variable has its type.                                            *)
(***************************************************************************)
THEOREM TypeCorrect == Spec => []TypeOK
<1>1. Spec => [](TypeOK /\ ThreadOK)
  BY TypeInit, TypeStep, PTL DEF Spec
<1>2. QED
  BY <1>1, PTL


-----------------------------------------------------------------------------
(***************************************************************************)
(* The callbacks.  A result is in the queue of the loop at most once, and  *)
(* every callback was queued by, or before the result of, a thread that    *)
(* is at work: when all threads are idle there are none.                   *)
(***************************************************************************)
ResultsWait ==
  \A i \in DOMAIN callbacks : callbacks[i] \in Threads =>
    /\ Told(callbacks[i])
    /\ \A j \in DOMAIN callbacks : callbacks[j] = callbacks[i] => j = i

Covers(t, i) ==
  /\ threads[t].pc # "idle"
  /\ \A j \in DOMAIN callbacks : callbacks[j] = t => j >= i

Covered == \A i \in DOMAIN callbacks : \E t \in Threads : Covers(t, i)

CallInv == ResultsWait /\ Covered

\* No callback waits at the beginning.
LEMMA CallInit == Init => CallInv
BY DEF Init, CallInv, ResultsWait, Covered

\* When all threads are idle the loop owes them nothing.
LEMMA IdleIsQuiet ==
  ASSUME TypeOK, CallInv, Idle
  PROVE  callbacks = <<>>
<1>1. SUFFICES ASSUME callbacks # <<>> PROVE FALSE
  OBVIOUS
<1>2. 1 \in DOMAIN callbacks
  <2>1. callbacks \in Seq([Steps -> Statuses] \cup Threads)
    BY DEF TypeOK
  <2>2. QED
    BY <1>1, <2>1
<1>3. QED
  BY <1>2 DEF CallInv, Covered, Covers, Idle

\* A thread covers each callback it hands over.
LEMMA CallThread ==
  ASSUME TypeOK, CallInv, NEW t \in Threads, ThreadEffect(t)
  PROVE  CallInv'
<1> DEFINE C == [Steps -> Statuses] \cup Threads
<1>1. callbacks \in Seq(C)
  BY DEF TypeOK
<1>2. \A i \in DOMAIN callbacks : callbacks[i] # t
  BY DEF CallInv, ResultsWait, ThreadEffect
<1>3. \A u \in Threads : threads[u].pc # "idle" => threads'[u].pc # "idle"
  BY DEF ThreadEffect
<1>4. \A u \in Threads \ {t} : Told(u) => Told(u)'
  BY DEF ThreadEffect, Told
<1>5. CASE callbacks' = callbacks
  BY <1>2, <1>3, <1>4, <1>5 DEF CallInv, ResultsWait, Covered, Covers
<1>6. ASSUME NEW x \in C, callbacks' = Append(callbacks, x),
             x \in Threads => x = t /\ Told(t)'
      PROVE  CallInv'
  <2> DEFINE n == Len(callbacks) + 1
  <2>1. /\ DOMAIN callbacks' = 1..n /\ DOMAIN callbacks = 1..Len(callbacks) /\ n \in Nat
        /\ callbacks'[n] = x /\ \A i \in 1..Len(callbacks) : callbacks'[i] = callbacks[i]
        /\ \A i \in 1..n : i = n \/ i \in 1..Len(callbacks)
    BY <1>1, <1>6
  <2> HIDE DEF n
  <2>2. ResultsWait'
    <3> SUFFICES ASSUME NEW i \in 1..n, callbacks'[i] \in Threads
                 PROVE  /\ Told(callbacks[i])'
                        /\ \A j \in 1..n : callbacks'[j] = callbacks'[i] => j = i
      BY <2>1 DEF ResultsWait
    <3>1. CASE i = n
      BY <1>2, <1>6, <2>1, <3>1
    <3>2. CASE i \in 1..Len(callbacks)
      BY <1>2, <1>4, <1>6, <2>1, <3>2 DEF CallInv, ResultsWait
    <3>3. QED
      BY <2>1, <3>1, <3>2
  <2>3. Covered'
    <3> SUFFICES ASSUME NEW i \in 1..n PROVE \E u \in Threads : Covers(u, i)'
      BY <2>1 DEF Covered
    <3>1. CASE i = n
      <4>1. Covers(t, i)'
        BY <1>2, <2>1, <3>1 DEF Covers, ThreadEffect
      <4>2. QED
        BY <4>1
    <3>2. CASE i \in 1..Len(callbacks)
      <4>1. PICK u \in Threads : Covers(u, i)
        BY <2>1, <3>2 DEF CallInv, Covered
      <4>2. n >= i
        BY <2>1
      <4>3. Covers(u, i)'
        BY <1>3, <2>1, <4>1, <4>2 DEF Covers
      <4>4. QED
        BY <4>3
    <3>3. QED
      BY <2>1, <3>1, <3>2
  <2>4. QED
    BY <2>2, <2>3 DEF CallInv
<1>7. \A x \in [Steps -> Statuses] : x \notin Threads
  BY NamesAssumption
<1>8. QED
  BY <1>5, <1>6, <1>7 DEF ThreadEffect

\* A callback that has run is covered no longer, the others are.
LEMMA CallCallback ==
  ASSUME TypeOK, CallInv, RunCallback
  PROVE  CallInv'
<1> DEFINE C == [Steps -> Statuses] \cup Threads
           n == Len(callbacks)
<1>1. callbacks \in Seq(C) /\ callbacks # <<>> /\ callbacks' = Tail(callbacks)
  BY DEF TypeOK, RunCallback
<1> HIDE DEF C
<1>2. /\ n \in Nat \ {0} /\ DOMAIN callbacks = 1..n /\ DOMAIN callbacks' = 1..(n - 1)
      /\ \A i \in 1..(n - 1) : callbacks'[i] = callbacks[i + 1]
      /\ Head(callbacks) = callbacks[1]
  BY <1>1
<1> HIDE DEF n
<1>3. /\ \A i \in 1..(n - 1) : i + 1 \in 1..n /\ i + 1 # 1
      /\ \A i, j \in 1..(n - 1) : (j + 1 >= i + 1 => j >= i) /\ (j + 1 = i + 1 => j = i)
      /\ 1 \in 1..n
  BY <1>2
<1>4. \A u \in Threads : u # callbacks[1] => threads'[u] = threads[u]
  BY <1>2 DEF RunCallback, Returns, Accept, Retry, TypeOK
<1>5. \A i \in 1..(n - 1) : callbacks'[i] \in Threads => callbacks'[i] # callbacks[1]
  BY <1>2, <1>3 DEF CallInv, ResultsWait
<1>6. ResultsWait'
  <2> SUFFICES ASSUME NEW i \in 1..(n - 1), callbacks'[i] \in Threads
               PROVE  /\ Told(callbacks[i])'
                      /\ \A j \in 1..(n - 1) : callbacks'[j] = callbacks'[i] => j = i
    BY <1>2 DEF ResultsWait
  <2>1. Told(callbacks[i + 1]) /\ \A j \in 1..n : callbacks[j] = callbacks[i + 1] => j = i + 1
    BY <1>2, <1>3 DEF CallInv, ResultsWait
  <2>2. Told(callbacks[i])'
    BY <1>2, <1>4, <1>5, <2>1 DEF Told
  <2>3. QED
    BY <1>2, <1>3, <2>1, <2>2
<1>7. Covered'
  <2> SUFFICES ASSUME NEW i \in 1..(n - 1) PROVE \E u \in Threads : Covers(u, i)'
    BY <1>2 DEF Covered
  <2>1. PICK u \in Threads : Covers(u, i + 1)
    BY <1>2, <1>3 DEF CallInv, Covered
  <2>2. u # callbacks[1]
    BY <1>2, <1>3, <2>1 DEF Covers
  <2>3. Covers(u, i)'
    BY <1>2, <1>3, <1>4, <2>1, <2>2 DEF Covers
  <2>4. QED
    BY <2>3
<1>8. QED
  BY <1>6, <1>7 DEF CallInv

\* Every step keeps callbacks covered by threads at work.
LEMMA CallStep == TypeOK /\ ThreadOK /\ CallInv /\ [Next]_vars => CallInv'
<1> SUFFICES ASSUME TypeOK, ThreadOK, CallInv, [Next]_vars PROVE CallInv'
  OBVIOUS
<1>1. CASE UNCHANGED threadVars
  BY <1>1 DEF threadVars, CallInv, ResultsWait, Covered, Covers, Told
<1>2. CASE AskTools
  <2>1. callbacks = <<>> /\ callbacks' = <<>>
    BY <1>2, IdleIsQuiet DEF AskTools
  <2>2. QED
    BY <2>1 DEF CallInv, ResultsWait, Covered
<1>3. QED
  BY <1>1, <1>2, ProducerSteps, CallCallback, CallThread, ThreadSteps DEF Next, ProducerEffect,
     ReadEnd, ClientLeaves, vars


-----------------------------------------------------------------------------
(***************************************************************************)
(* The tracker and the event that shows it differ only while the tools of  *)
(* the attachment agent are awaited: then all threads are idle, and the    *)
(* loop has nothing more to put into the queue.                            *)
(***************************************************************************)
QuietInv ==
  /\ stream = "closed" => node = "end"
  /\ (node # "tools" /\ stream # "left") => Idle /\ shown = tracker

IInv == TypeOK /\ ThreadOK /\ CallInv /\ QuietInv

\* Tracker and shown differ only while the tools are awaited, at every step.
LEMMA QuietStep == IInv /\ [Next]_vars => QuietInv'
<1> SUFFICES ASSUME IInv, [Next]_vars PROVE QuietInv'
  OBVIOUS
<1>1. CASE AskTools
  BY <1>1 DEF AskTools, IInv, QuietInv
<1>2. CASE ProducerEffect
  BY <1>2 DEF ProducerEffect, threadVars, IInv, QuietInv, Idle
<1>3. ASSUME NEW t \in Threads, RunThread(t) PROVE QuietInv'
  BY <1>3, ThreadSteps DEF ThreadEffect, RunThread, IInv, QuietInv, Idle
<1>4. CASE RunCallback
  BY <1>4, IdleIsQuiet DEF RunCallback, IInv, QuietInv
<1>5. CASE ReadEnd
  BY <1>5 DEF ReadEnd, threadVars, queueVars, IInv, QuietInv, Idle
<1>6. CASE ClientLeaves
  BY <1>6 DEF ClientLeaves, QuietInv
<1>7. CASE UNCHANGED vars
  BY <1>7 DEF vars, threadVars, queueVars, IInv, QuietInv, Idle
<1>8. QED
  BY <1>1, <1>2, <1>3, <1>4, <1>5, <1>6, <1>7, ProducerSteps DEF Next, IInv

\* All of it holds in every reachable state.
LEMMA Invariant == Spec => []IInv
<1>1. Init => IInv
  BY TypeInit, CallInit DEF Init, IInv, QuietInv, Idle, IdleThread
<1>2. IInv /\ [Next]_vars => IInv'
  BY TypeStep, CallStep, QuietStep DEF IInv
<1>3. QED
  BY <1>1, <1>2, PTL DEF Spec

(***************************************************************************)
(* What the client has been shown last is what the tracker holds           *)
(* (app/core/progress.py, ProgressTracker).                                *)
(***************************************************************************)
THEOREM ShownCurrent == Spec => []ShownIsCurrent
<1>1. IInv => ShownIsCurrent
  BY DEF IInv, QuietInv, ShownIsCurrent
<1>2. QED
  BY <1>1, Invariant, PTL

(***************************************************************************)
(* Nothing is put into the queue behind the end event (app/core/agent.py,  *)
(* produce_events).                                                        *)
(***************************************************************************)
THEOREM EndLast == Spec => EndIsLast
<1>1. ASSUME IInv, [Next]_vars
      PROVE  (node = "end" /\ stream # "left") => UNCHANGED <<shown, events>>
  <2> SUFFICES ASSUME node = "end", stream # "left" PROVE UNCHANGED <<shown, events>>
    OBVIOUS
  <2>1. callbacks = <<>>
    BY <1>1, IdleIsQuiet DEF IInv, QuietInv
  <2>2. ~Producer
    BY <1>1, ProducerSteps DEF IInv, ProducerEffect, AskTools
  <2>3. QED
    BY <1>1, <2>1, <2>2 DEF Next, RunCallback, RunThread, ReadEnd, ClientLeaves, vars, queueVars
<1>2. QED
  BY <1>1, Invariant, PTL DEF Spec, EndIsLast


-----------------------------------------------------------------------------
(***************************************************************************)
(* The tools' steps.  A step that runs has a thread that has said so last  *)
(* or is about to speak, unless the load of a skill was given up.          *)
(***************************************************************************)
Running(k) == tracker[k] = "running"

Active(t, k) ==
  /\ threads[t].step = k
  /\ \/ threads[t].pc \in {"update", "work"}
     \/ threads[t].pc \in {"snapshot", "post", "last", "told"} /\ threads[t].says = "running"

GivenUp(k) == k = "skill_activation" /\ unread

ToolInv == \A k \in ToolSteps : Running(k) => GivenUp(k) \/ \E t \in Threads : Active(t, k)

(***************************************************************************)
(* An emission changes its own step.                                       *)
(***************************************************************************)
LEMMA EmitFacts ==
  ASSUME QueueOK, NEW k \in Steps, NEW s, Emit(k, s)
  PROVE  /\ tracker'[k] = s /\ \A j \in Steps \ {k} : tracker'[j] = tracker[j]
         /\ UNCHANGED events
BY DEF Emit, Update, QueueOK

\* The producer does not touch the steps of the tools.
LEMMA ToolsApart ==
  ASSUME QueueOK, Producer
  PROVE  \A k \in ToolSteps : tracker'[k] = tracker[k]
<1>1. ToolSteps \subseteq Steps /\ \A t \in Types : t \notin ToolSteps
  BY StepNames DEF OwnSteps
<1>2. ASSUME NEW t \in Types, JobEnds(t) PROVE \A k \in ToolSteps : tracker'[k] = tracker[k]
  <2>1. t \notin ToolSteps /\ "artifact_revision_prepare" \notin ToolSteps
    BY <1>1 DEF ToolSteps
  <2>2. \/ \E s \in {"success", "failed"} : tracker' = [tracker EXCEPT ![t] = s]
        \/ tracker' = [tracker EXCEPT ![t] = "failed", !["artifact_revision_prepare"] = "failed"]
    BY <1>2 DEF JobEnds, Emit, Update
  <2>3. QED
    BY <1>1, <2>1, <2>2 DEF QueueOK
<1>3. ASSUME NEW j \in Steps \ ToolSteps, RaiseEmitting(j)
      PROVE  \A k \in ToolSteps : tracker'[k] = tracker[k]
  BY <1>1, <1>3 DEF RaiseEmitting, Update, QueueOK
<1>4. QED
  BY <1>1, <1>2, <1>3, QueueSteps, EmitFacts DEF QueueStep, Event, RaiseSilently, queueVars

\* The steps of the tools run only under the tools.
LEMMA ToolStep == IInv /\ ToolInv /\ [Next]_vars => ToolInv'
<1> SUFFICES ASSUME IInv, ToolInv, [Next]_vars PROVE ToolInv'
  OBVIOUS
<1>0. /\ TypeOK /\ ThreadOK /\ QueueOK /\ ToolSteps \subseteq Steps
      /\ threads \in [Threads -> Thread] /\ tracker \in [Steps -> Statuses]
  BY StepNames DEF IInv, TypeOK, QueueOK
<1>1. CASE AskTools
  <2>1. \A k \in ToolSteps : Running(k) => GivenUp(k)
    BY <1>1 DEF AskTools, Idle, ToolInv, Active
  <2>2. QED
    BY <1>1, <2>1 DEF AskTools, queueVars, ToolInv, Running, GivenUp
<1>2. CASE Producer /\ ProducerEffect
  BY <1>0, <1>2, ToolsApart DEF ProducerEffect, threadVars, ToolInv, Running, Active, GivenUp
<1>3. ASSUME NEW t \in Threads, RunThread(t) PROVE ToolInv'
  <2>1. /\ threads[t] \in Thread
        /\ \A u \in Threads \ {t} : threads'[u] = threads[u]
        /\ threads'[t].step = threads[t].step
        /\ threads[t].pc = "update" => threads[t].step \in ToolSteps
    BY <1>0, <1>3, ThreadSteps DEF ThreadEffect, ThreadOK
  <2>2. /\ \A u \in Threads \ {t}, k \in ToolSteps : Active(u, k) => Active(u, k)'
        /\ \A k \in ToolSteps : GivenUp(k) => GivenUp(k)'
    BY <1>0, <1>3, <2>1, ThreadSteps DEF Active, GivenUp
  <2>3. CASE threads[t].pc = "update"
    <3>1. /\ tracker' = [tracker EXCEPT ![threads[t].step] = threads[t].says]
          /\ threads'[t].pc = "snapshot" /\ threads'[t].says = threads[t].says
      BY <1>0, <1>3, <2>1, <2>3 DEF RunThread, ThreadEmits, ThreadWorks, Update, Thread
    <3>2. \A k \in ToolSteps : k # threads[t].step => tracker'[k] = tracker[k] /\ ~Active(t, k)
      BY <1>0, <2>1, <3>1 DEF Active
    <3>3. tracker'[threads[t].step] = threads[t].says
      BY <1>0, <2>1, <2>3, <3>1
    <3>4. threads[t].says = "running" => Active(t, threads[t].step)'
      BY <2>1, <3>1 DEF Active
    <3>5. SUFFICES ASSUME NEW k \in ToolSteps, Running(k)'
                   PROVE  GivenUp(k)' \/ \E u \in Threads : Active(u, k)'
      BY DEF ToolInv
    <3>6. CASE k = threads[t].step
      <4>1. Active(t, k)'
        BY <2>1, <3>1, <3>3, <3>5, <3>6 DEF Active, Running
      <4>2. QED
        BY <4>1
    <3>7. CASE k # threads[t].step
      BY <2>2, <3>2, <3>5, <3>7 DEF ToolInv, Running
    <3>8. QED
      BY <3>6, <3>7
  <2>4. CASE threads[t].pc # "update"
    <3>1. UNCHANGED tracker
      BY <1>3, <2>4 DEF RunThread, ThreadEmits
    <3>2. \A k \in ToolSteps : Active(t, k) => Active(t, k)'
      BY <1>0, <1>3, <2>1, <2>4 DEF RunThread, ThreadEmits, ThreadWorks, Say, Active, Thread, ThreadOK
    <3>3. QED
      BY <2>2, <3>1, <3>2 DEF ToolInv, Running
  <2>5. QED
    BY <2>3, <2>4
<1>4. CASE RunCallback
  <2>1. 1 \in DOMAIN callbacks /\ Head(callbacks) = callbacks[1]
    BY <1>0, <1>4 DEF RunCallback, TypeOK
  <2>2. \A t \in Threads : t = Head(callbacks) => Told(t)
    BY <2>1 DEF IInv, CallInv, ResultsWait
  <2>3. \A t \in Threads : t # Head(callbacks) => threads'[t] = threads[t]
    BY <1>0, <1>4 DEF RunCallback, Returns, Retry, Accept
  <2>4. ASSUME NEW t \in Threads, t = Head(callbacks), NEW k \in ToolSteps, Active(t, k)
        PROVE  Active(t, k)' \/ GivenUp(k)'
    <3>1. /\ Told(t) /\ threads[t].says = "running" /\ threads[t].step = k /\ Returns(t)
          /\ threads[t] \in Thread
      BY <1>0, <1>4, <2>2, <2>4 DEF Active, Told, RunCallback
    <3>2. Unread(t) /\ k = "skill_activation"
      BY <1>0, <3>1 DEF ThreadOK, Told, Unread
    <3>3. CASE Retry(t)
      <4>1. threads'[t] = Attempt(k, threads[t].tries + 1)
        BY <1>0, <3>1, <3>3 DEF Retry
      <4>2. QED
        BY <4>1 DEF Attempt, Active
    <3>4. CASE Accept(t)
      BY <3>2, <3>4 DEF Accept, GivenUp
    <3>5. QED
      BY <3>1, <3>3, <3>4 DEF Returns
  <2>5. \A k \in ToolSteps : GivenUp(k) => GivenUp(k)'
    BY <1>4 DEF RunCallback, Returns, Retry, Accept, GivenUp
  <2>6. \A t \in Threads, k \in ToolSteps :
          t # Head(callbacks) /\ Active(t, k) => Active(t, k)'
    BY <2>3 DEF Active
  <2>7. UNCHANGED tracker
    BY <1>4 DEF RunCallback
  <2>8. QED
    BY <2>4, <2>5, <2>6, <2>7 DEF ToolInv, Running
<1>5. CASE UNCHANGED <<threadVars, tracker>>
  BY <1>5 DEF threadVars, ToolInv, Running, Active, GivenUp
<1>6. QED
  BY <1>0, <1>1, <1>2, <1>3, <1>4, <1>5, ProducerSteps DEF Next, ReadEnd, ClientLeaves, vars,
     queueVars


-----------------------------------------------------------------------------
(***************************************************************************)
(* The steps of the producer.  Each that runs belongs to the node the      *)
(* producer is at, or to the interrupt the graph has stopped at, or is one *)
(* of the two that are left so.  After an error, and when the client has   *)
(* left, nothing is said of them.                                          *)
(***************************************************************************)
Good == stream # "left" /\ "error" \notin events

Late == {"approval", "compression", "suggestions", "over", "end"}

AttachmentSteps ==
  /\ Running("attachment_analysis") => node = "tools"
  /\ ~Running("video_audio_extraction")
  /\ Running("video_transcription") =>
       node \in {"audio", "transcription"} \/ tracker["video_audio_extraction"] = "failed"
  /\ Running("video_keyframe_extraction") => node = "keyframes"
  /\ Running("video_frame_captioning") => node = "captioning"

NodeSteps ==
  /\ Running("intent_recognition") => node = "intent_router"
  /\ Running("metadata_structuring") => node = "metadata_structer"
  /\ Running("rag_retrieval") => node = "rag_retrieval"
  /\ Running("teaching_design") => node = "teaching_design_planner"
  /\ ~Running("artifact_revision_prepare")
  /\ ~Running("artifact_fan_in")
  /\ Running("context_compression") => node = "compression"

ReviewSteps ==
  /\ Running("metadata_review") => pending = "metadata_review" \/ "metadata_review" \in refused
  /\ Running("teaching_plan_review") =>
       \/ pending = "teaching_plan_review"
       \/ node \in {"rag_retrieval", "teaching_design_planner", "teaching_plan_review"}
  /\ Running("artifact_revision_routing") =>
       \/ pending = "artifact_revision_clarification"
       \/ node = "artifact_revision_router"

StepInv == Good => AttachmentSteps /\ NodeSteps /\ ReviewSteps

PendingInv == pending # None => node \in Late

\* The steps that nodes report on are none of a tool or of an artifact.
LEMMA KnownSteps ==
  {"attachment_analysis", "video_audio_extraction", "video_transcription",
   "video_keyframe_extraction", "video_frame_captioning", "intent_recognition",
   "metadata_structuring", "metadata_review", "rag_retrieval", "teaching_design",
   "teaching_plan_review", "artifact_revision_routing", "artifact_revision_prepare",
   "artifact_fan_in", "context_compression"} \subseteq Steps \ (Types \cup ToolSteps)
BY StepNames DEF OwnSteps, GraphSteps, VideoSteps, ToolSteps

(***************************************************************************)
(* The graph stops at an interrupt once.                                   *)
(***************************************************************************)
LEMMA PendingSteps ==
  ASSUME ControlOK, PendingInv, Producer
  PROVE  PendingInv'
<1>1. ASSUME TakeLock PROVE PendingInv'
  BY <1>1, NamesAssumption, InterruptNames DEF TakeLock, Late, PendingInv, graphVars
<1>2. ASSUME AnalyzeDocuments PROVE PendingInv'
  BY <1>2, NamesAssumption, InterruptNames DEF AnalyzeDocuments, Late, PendingInv, graphVars
<1>3. ASSUME AskTools PROVE PendingInv'
  BY <1>3, NamesAssumption, InterruptNames DEF AskTools, PendingInv, graphVars
<1>4. ASSUME DocumentsAnalyzed PROVE PendingInv'
  BY <1>4, NamesAssumption, InterruptNames DEF DocumentsAnalyzed, Late, PendingInv, graphVars
<1>5. ASSUME NextVideo PROVE PendingInv'
  BY <1>5, NamesAssumption, InterruptNames DEF NextVideo, Unheard, Late, PendingInv, graphVars
<1>6. ASSUME ExtractAudio PROVE PendingInv'
  BY <1>6, NamesAssumption, InterruptNames DEF ExtractAudio, Late, PendingInv, graphVars
<1>7. ASSUME Transcribe PROVE PendingInv'
  BY <1>7, NamesAssumption, InterruptNames DEF Transcribe, Late, PendingInv, graphVars
<1>8. ASSUME ExtractKeyframes PROVE PendingInv'
  BY <1>8, NamesAssumption, InterruptNames DEF ExtractKeyframes, Late, PendingInv, graphVars
<1>9. ASSUME CaptionKeyframes PROVE PendingInv'
  BY <1>9, NamesAssumption, InterruptNames DEF CaptionKeyframes, Late, PendingInv, graphVars
<1>10. ASSUME VideoAnalyzed PROVE PendingInv'
  BY <1>10, NamesAssumption, InterruptNames DEF VideoAnalyzed, Late, PendingInv, graphVars
<1>11. ASSUME EnterGraph PROVE PendingInv'
  BY <1>11, NamesAssumption, InterruptNames DEF EnterGraph, Late, PendingInv, graphVars
<1>12. ASSUME IntentRouter PROVE PendingInv'
  BY <1>12, NamesAssumption, InterruptNames DEF IntentRouter, Late, PendingInv, graphVars, Node
<1>13. ASSUME MetadataStructer PROVE PendingInv'
  BY <1>13, NamesAssumption, InterruptNames DEF MetadataStructer, Late, PendingInv, graphVars,
     Node
<1>14. ASSUME RagRetrieval PROVE PendingInv'
  BY <1>14, NamesAssumption, InterruptNames DEF RagRetrieval, Late, PendingInv, graphVars, Node
<1>15. ASSUME TeachingDesignPlanner PROVE PendingInv'
  BY <1>15, NamesAssumption, InterruptNames DEF TeachingDesignPlanner, Late, PendingInv,
     graphVars, Node
<1>16. ASSUME Chat PROVE PendingInv'
  BY <1>16, NamesAssumption, InterruptNames DEF Chat, Late, PendingInv, graphVars
<1>17. ASSUME NEW n \in Interrupts, Interrupt(n) PROVE PendingInv'
  BY <1>17, NamesAssumption, InterruptNames DEF Interrupt, Goto, Late, PendingInv, graphVars
<1>18. ASSUME ResumeMetadataReview PROVE PendingInv'
  BY <1>18, NamesAssumption, InterruptNames DEF ResumeMetadataReview, Late, PendingInv,
     graphVars, Answered
<1>19. ASSUME ResumePlanReview PROVE PendingInv'
  BY <1>19, NamesAssumption, InterruptNames DEF ResumePlanReview, StartJobs, Late, PendingInv,
     graphVars, Answered
<1>20. ASSUME ResumeClarification PROVE PendingInv'
  BY <1>20, NamesAssumption, InterruptNames DEF ResumeClarification, StartJobs, Late,
     PendingInv, graphVars, Answered
<1>21. ASSUME ResumeUserInput PROVE PendingInv'
  BY <1>21, NamesAssumption, InterruptNames DEF ResumeUserInput, Late, PendingInv, graphVars,
     Answered
<1>22. ASSUME ArtifactRevisionRouter PROVE PendingInv'
  BY <1>22, NamesAssumption, InterruptNames DEF ArtifactRevisionRouter, StartJobs, Late,
     PendingInv, graphVars
<1>23. ASSUME NEW t \in Types, JobStarts(t) PROVE PendingInv'
  BY <1>23, NamesAssumption, InterruptNames DEF JobStarts, PendingInv, JobVars
<1>24. ASSUME NEW t \in Types, JobPrepares(t) PROVE PendingInv'
  BY <1>24, NamesAssumption, InterruptNames DEF JobPrepares, JobReports, PendingInv, JobVars
<1>25. ASSUME NEW t \in Types, JobEnds(t) PROVE PendingInv'
  BY <1>25, NamesAssumption, InterruptNames DEF JobEnds, JobReports, PendingInv, JobVars
<1>26. ASSUME NEW t \in Types, JobRaises(t) PROVE PendingInv'
  BY <1>26, NamesAssumption, InterruptNames DEF JobRaises, Late, PendingInv, graphVars
<1>27. ASSUME ArtifactsDone PROVE PendingInv'
  BY <1>27, NamesAssumption, InterruptNames DEF ArtifactsDone, Late, PendingInv, graphVars
<1>28. ASSUME ArtifactFanIn PROVE PendingInv'
  BY <1>28, NamesAssumption, InterruptNames DEF ArtifactFanIn, Late, PendingInv, graphVars
<1>29. ASSUME TellApproval PROVE PendingInv'
  BY <1>29, NamesAssumption, InterruptNames DEF TellApproval, Goto, Raise, RaiseSilently, Late,
     PendingInv
<1>30. ASSUME CompressContext PROVE PendingInv'
  BY <1>30, NamesAssumption, InterruptNames DEF CompressContext, Goto, Raise, RaiseSilently,
     Late, PendingInv
<1>31. ASSUME Suggest PROVE PendingInv'
  BY <1>31, NamesAssumption, InterruptNames DEF Suggest, Goto, Late, PendingInv
<1>32. ASSUME ProducerEnds PROVE PendingInv'
  BY <1>32, NamesAssumption, InterruptNames DEF ProducerEnds, Goto, Late, PendingInv
<1>33. QED
  BY <1>1, <1>2, <1>3, <1>4, <1>5, <1>6, <1>7, <1>8, <1>9, <1>10, <1>11, <1>12, <1>13, <1>14,
     <1>15, <1>16, <1>17, <1>18, <1>19, <1>20, <1>21, <1>22, <1>23, <1>24, <1>25, <1>26, <1>27,
     <1>28, <1>29, <1>30, <1>31, <1>32 DEF Producer, Attachments, Graph

(***************************************************************************)
(* Every step of the producer.                                             *)
(***************************************************************************)
LEMMA StepSteps ==
  ASSUME QueueOK, ControlOK, PendingInv, StepInv, Producer
  PROVE  StepInv'
<1>1. ASSUME TakeLock PROVE StepInv'
  BY <1>1, KnownSteps, EmitFacts DEF TakeLock, StepInv, Good, queueVars, graphVars,
     AttachmentSteps, ReviewSteps, NodeSteps, Running
<1>2. ASSUME AnalyzeDocuments PROVE StepInv'
  BY <1>2, KnownSteps, EmitFacts DEF AnalyzeDocuments, StepInv, Goto, Raise, RaiseSilently,
     Good, graphVars, AttachmentSteps, ReviewSteps, NodeSteps, Running
<1>3. ASSUME AskTools PROVE StepInv'
  BY <1>3, KnownSteps, EmitFacts DEF AskTools, StepInv, Good, queueVars, graphVars,
     AttachmentSteps, ReviewSteps, NodeSteps, Running
<1>4. ASSUME DocumentsAnalyzed PROVE StepInv'
  BY <1>4, KnownSteps, EmitFacts DEF DocumentsAnalyzed, StepInv, Raise, Good, graphVars,
     AttachmentSteps, ReviewSteps, NodeSteps, Running, RaiseEmitting
<1>5. ASSUME NextVideo PROVE StepInv'
  BY <1>5, KnownSteps, EmitFacts DEF NextVideo, Unheard, StepInv, Silent, Goto, Raise,
     RaiseSilently, Good, graphVars, AttachmentSteps, ReviewSteps, NodeSteps, Running
<1>6. ASSUME ExtractAudio PROVE StepInv'
  BY <1>6, KnownSteps, EmitFacts DEF ExtractAudio, StepInv, Silent, Goto, Raise, RaiseSilently,
     Good, graphVars, AttachmentSteps, ReviewSteps, NodeSteps, Running
<1>7. ASSUME Transcribe PROVE StepInv'
  BY <1>7, KnownSteps, EmitFacts DEF Transcribe, StepInv, Raise, RaiseSilently, Good,
     graphVars, AttachmentSteps, ReviewSteps, NodeSteps, Running
<1>8. ASSUME ExtractKeyframes PROVE StepInv'
  BY <1>8, KnownSteps, EmitFacts DEF ExtractKeyframes, StepInv, Raise, RaiseSilently, Good,
     graphVars, AttachmentSteps, ReviewSteps, NodeSteps, Running
<1>9. ASSUME CaptionKeyframes PROVE StepInv'
  BY <1>9, KnownSteps, EmitFacts DEF CaptionKeyframes, StepInv, Raise, RaiseSilently, Good,
     graphVars, AttachmentSteps, ReviewSteps, NodeSteps, Running
<1>10. ASSUME VideoAnalyzed PROVE StepInv'
  BY <1>10, KnownSteps, EmitFacts DEF VideoAnalyzed, StepInv, Silent, Raise, RaiseSilently,
     Good, graphVars, AttachmentSteps, ReviewSteps, NodeSteps, Running
<1>11. ASSUME EnterGraph PROVE StepInv'
  BY <1>11, KnownSteps, EmitFacts DEF EnterGraph, StepInv, Silent, Raise, RaiseSilently, Good,
     graphVars, AttachmentSteps, ReviewSteps, NodeSteps, Running
<1>12. ASSUME IntentRouter PROVE StepInv'
  BY <1>12, KnownSteps, EmitFacts DEF IntentRouter, StepInv, Raise, Good, graphVars,
     AttachmentSteps, ReviewSteps, NodeSteps, Running, Node, RaiseEmitting
<1>13. ASSUME MetadataStructer PROVE StepInv'
  BY <1>13, KnownSteps, EmitFacts DEF MetadataStructer, StepInv, Raise, Good, graphVars,
     AttachmentSteps, ReviewSteps, NodeSteps, Running, Node, RaiseEmitting
<1>14. ASSUME RagRetrieval PROVE StepInv'
  BY <1>14, KnownSteps, EmitFacts DEF RagRetrieval, StepInv, Goto, Raise, Good, graphVars,
     AttachmentSteps, ReviewSteps, NodeSteps, Running, Node, RaiseEmitting
<1>15. ASSUME TeachingDesignPlanner PROVE StepInv'
  BY <1>15, KnownSteps, EmitFacts DEF TeachingDesignPlanner, StepInv, Goto, Raise, Good,
     graphVars, AttachmentSteps, ReviewSteps, NodeSteps, Running, Node, RaiseEmitting
<1>16. ASSUME Chat PROVE StepInv'
  BY <1>16, KnownSteps, EmitFacts DEF Chat, StepInv, Event, Raise, RaiseSilently, Good,
     graphVars, AttachmentSteps, ReviewSteps, NodeSteps, Running
<1>17. ASSUME NEW n \in Interrupts, Interrupt(n) PROVE StepInv'
  BY <1>17, KnownSteps, EmitFacts, InterruptNames, NamesAssumption DEF Interrupt, StepInv,
     Silent, Late, Good, PendingInv, queueVars, graphVars, AttachmentSteps, ReviewSteps,
     NodeSteps, Running
<1>18. ASSUME ResumeMetadataReview PROVE StepInv'
  BY <1>18, KnownSteps, EmitFacts, InterruptNames DEF ResumeMetadataReview, StepInv, Good,
     AttachmentSteps, ReviewSteps, NodeSteps, Running, Answered, Refuse
<1>19. ASSUME ResumePlanReview PROVE StepInv'
  BY <1>19, KnownSteps, EmitFacts, InterruptNames DEF ResumePlanReview, StartJobs, StepInv,
     Goto, Good, AttachmentSteps, ReviewSteps, NodeSteps, Running, Answered, Refuse
<1>20. ASSUME ResumeClarification PROVE StepInv'
  BY <1>20, KnownSteps, EmitFacts, InterruptNames DEF ResumeClarification, StartJobs, StepInv,
     Goto, Good, AttachmentSteps, ReviewSteps, NodeSteps, Running, Answered, Refuse
<1>21. ASSUME ResumeUserInput PROVE StepInv'
  BY <1>21, KnownSteps, EmitFacts DEF ResumeUserInput, StepInv, Silent, Good, graphVars,
     AttachmentSteps, ReviewSteps, NodeSteps, Running, Answered
<1>22. ASSUME ArtifactRevisionRouter PROVE StepInv'
  BY <1>22, KnownSteps, EmitFacts DEF ArtifactRevisionRouter, StartJobs, StepInv, Good,
     AttachmentSteps, ReviewSteps, NodeSteps, Running
<1>23. ASSUME NEW t \in Types, JobStarts(t) PROVE StepInv'
  BY <1>23, KnownSteps, EmitFacts, StepNames DEF JobStarts, StepInv, Good, AttachmentSteps,
     ReviewSteps, NodeSteps, Running, JobVars
<1>24. ASSUME NEW t \in Types, JobPrepares(t) PROVE StepInv'
  BY <1>24, KnownSteps, EmitFacts DEF JobPrepares, JobReports, StepInv, Good, AttachmentSteps,
     ReviewSteps, NodeSteps, Running, JobVars
<1>25. ASSUME NEW t \in Types, JobEnds(t) PROVE StepInv'
  BY <1>25, KnownSteps, EmitFacts, StepNames DEF JobEnds, JobReports, StepInv, QueueOK, Good,
     AttachmentSteps, ReviewSteps, NodeSteps, Running, JobVars
<1>26. ASSUME NEW t \in Types, JobRaises(t) PROVE StepInv'
  BY <1>26, KnownSteps, EmitFacts DEF JobRaises, StepInv, Raise, RaiseSilently, Good
<1>27. ASSUME ArtifactsDone PROVE StepInv'
  BY <1>27, KnownSteps, EmitFacts DEF ArtifactsDone, StepInv, Silent, Good, graphVars,
     AttachmentSteps, ReviewSteps, NodeSteps, Running
<1>28. ASSUME ArtifactFanIn PROVE StepInv'
  BY <1>28, KnownSteps, EmitFacts DEF ArtifactFanIn, StepInv, Good, graphVars, AttachmentSteps,
     ReviewSteps, NodeSteps, Running
<1>29. ASSUME TellApproval PROVE StepInv'
  BY <1>29, KnownSteps, EmitFacts DEF TellApproval, StepInv, Silent, Event, Raise,
     RaiseSilently, Good, graphVars, AttachmentSteps, ReviewSteps, NodeSteps, Running
<1>30. ASSUME CompressContext PROVE StepInv'
  BY <1>30, KnownSteps, EmitFacts DEF CompressContext, StepInv, Silent, Raise, RaiseSilently,
     Good, graphVars, AttachmentSteps, ReviewSteps, NodeSteps, Running
<1>31. ASSUME Suggest PROVE StepInv'
  BY <1>31, KnownSteps, EmitFacts DEF Suggest, StepInv, Silent, Event, Good, graphVars,
     AttachmentSteps, ReviewSteps, NodeSteps, Running
<1>32. ASSUME ProducerEnds PROVE StepInv'
  BY <1>32, KnownSteps, EmitFacts DEF ProducerEnds, StepInv, Good, queueVars, graphVars,
     AttachmentSteps, ReviewSteps, NodeSteps, Running
<1>33. QED
  BY <1>1, <1>2, <1>3, <1>4, <1>5, <1>6, <1>7, <1>8, <1>9, <1>10, <1>11, <1>12, <1>13, <1>14,
     <1>15, <1>16, <1>17, <1>18, <1>19, <1>20, <1>21, <1>22, <1>23, <1>24, <1>25, <1>26, <1>27,
     <1>28, <1>29, <1>30, <1>31, <1>32 DEF Producer, Attachments, Graph


-----------------------------------------------------------------------------
(***************************************************************************)
(* The jobs.  The step of a job tells how it stands, and the step of the   *)
(* preparation whether one has prepared or the last to fail came later.    *)
(***************************************************************************)
JobTells(t) ==
  /\ jobs[t] = "none" => tracker[t] = "none"
  /\ jobs[t] = "running" => tracker[t] \in {"none", "running"}
  /\ jobs[t] = "preparing" => tracker[t] = "running" /\ revises
  /\ jobs[t] = "ready" => tracker[t] = "success"
  /\ jobs[t] = "failed" => tracker[t] = "failed"

Begun == node \in {"artifacts", "artifact_fan_in"} \cup Late

PreparationTells ==
  /\ \A t \in Types :
       (/\ jobs[t] = "preparing" \/ (jobs[t] = "ready" /\ revises)
        /\ \A u \in Types : jobs[u] # "failed")
       => tracker["artifact_revision_prepare"] = "success"
  /\ \A t \in Types :
       (/\ revises /\ jobs[t] = "failed"
        /\ \A u \in Types : jobs[u] \notin {"preparing", "ready"})
       => tracker["artifact_revision_prepare"] = "failed"

JobInv ==
  /\ \A t \in Types : JobTells(t)
  /\ ~Begun => ~revises /\ \A t \in Types : jobs[t] = "none"
  /\ revises => \E t \in Types : jobs[t] # "none"
  /\ PreparationTells

DoneInv ==
  (Good /\ node \in {"artifact_fan_in"} \cup Late) =>
    \A t \in Types : jobs[t] \notin {"running", "preparing"}


(***************************************************************************)
(* A step of the producer that concerns neither the jobs nor their steps.  *)
(***************************************************************************)
Apart ==
  /\ UNCHANGED <<jobs, revises>>
  /\ \A k \in Types \cup {"artifact_revision_prepare"} : tracker'[k] = tracker[k]
  /\ Begun => Begun'
  /\ (Good' /\ node' \in {"artifact_fan_in"} \cup Late) =>
       \/ Good /\ node \in {"artifact_fan_in"} \cup Late
       \/ \A t \in Types : jobs[t] \notin {"running", "preparing"}


\* An update sets one step and leaves the others.
LEMMA UpdateFacts ==
  ASSUME QueueOK, NEW k \in Steps, NEW s, Update(k, s)
  PROVE  /\ tracker'[k] = s /\ \A j \in Steps \ {k} : tracker'[j] = tracker[j]
BY DEF Update, QueueOK

\* Each artifact type is a step.
LEMMA TypesAreSteps == Types \subseteq Steps
BY StepNames

(***************************************************************************)
(* The steps of the producer that are such.                                *)
(***************************************************************************)
LEMMA ApartSteps ==
  ASSUME QueueOK, ControlOK, JobInv, Producer
  PROVE  \/ Apart
         \/ ResumePlanReview \/ ResumeClarification \/ ArtifactRevisionRouter
         \/ \E t \in Types : JobStarts(t) \/ JobPrepares(t) \/ JobEnds(t)
<1>1. ASSUME TakeLock PROVE Apart
  BY <1>1, KnownSteps, EmitFacts, TypesAreSteps DEF TakeLock, Apart, Late, queueVars,
     graphVars, JobInv, Begun
<1>2. ASSUME AnalyzeDocuments PROVE Apart
  BY <1>2, KnownSteps, EmitFacts, TypesAreSteps DEF AnalyzeDocuments, Apart, RaiseSilently,
     Late, graphVars, JobInv, Begun
<1>3. ASSUME AskTools PROVE Apart
  BY <1>3, KnownSteps, EmitFacts, TypesAreSteps DEF AskTools, Apart, Good, queueVars,
     graphVars, Begun
<1>4. ASSUME DocumentsAnalyzed PROVE Apart
  BY <1>4, KnownSteps, EmitFacts, TypesAreSteps, UpdateFacts DEF DocumentsAnalyzed, Apart,
     Late, graphVars, JobInv, Begun, RaiseEmitting
<1>5. ASSUME NextVideo PROVE Apart
  BY <1>5, KnownSteps, EmitFacts, TypesAreSteps DEF NextVideo, Unheard, Apart, Silent,
     RaiseSilently, Late, graphVars, JobInv, Begun
<1>6. ASSUME ExtractAudio PROVE Apart
  BY <1>6, KnownSteps, EmitFacts, TypesAreSteps DEF ExtractAudio, Apart, Silent, RaiseSilently,
     Late, graphVars, JobInv, Begun
<1>7. ASSUME Transcribe PROVE Apart
  BY <1>7, KnownSteps, EmitFacts, TypesAreSteps DEF Transcribe, Apart, RaiseSilently, Late,
     graphVars, JobInv, Begun
<1>8. ASSUME ExtractKeyframes PROVE Apart
  BY <1>8, KnownSteps, EmitFacts, TypesAreSteps DEF ExtractKeyframes, Apart, RaiseSilently,
     Late, graphVars, JobInv, Begun
<1>9. ASSUME CaptionKeyframes PROVE Apart
  BY <1>9, KnownSteps, EmitFacts, TypesAreSteps DEF CaptionKeyframes, Apart, RaiseSilently,
     Late, graphVars, JobInv, Begun
<1>10. ASSUME VideoAnalyzed PROVE Apart
  BY <1>10, KnownSteps, EmitFacts, TypesAreSteps DEF VideoAnalyzed, Apart, Silent,
     RaiseSilently, Late, graphVars, JobInv, Begun
<1>11. ASSUME EnterGraph PROVE Apart
  BY <1>11, KnownSteps, EmitFacts, TypesAreSteps DEF EnterGraph, Apart, Silent, RaiseSilently,
     Late, graphVars, JobInv, Begun
<1>12. ASSUME IntentRouter PROVE Apart
  BY <1>12, KnownSteps, EmitFacts, TypesAreSteps, UpdateFacts DEF IntentRouter, Apart, Late,
     graphVars, Node, JobInv, Begun, RaiseEmitting
<1>13. ASSUME MetadataStructer PROVE Apart
  BY <1>13, KnownSteps, EmitFacts, TypesAreSteps, UpdateFacts DEF MetadataStructer, Apart,
     Late, graphVars, Node, JobInv, Begun, RaiseEmitting
<1>14. ASSUME RagRetrieval PROVE Apart
  BY <1>14, KnownSteps, EmitFacts, TypesAreSteps, UpdateFacts DEF RagRetrieval, Apart, Late,
     graphVars, Node, JobInv, Begun, RaiseEmitting
<1>15. ASSUME TeachingDesignPlanner PROVE Apart
  BY <1>15, KnownSteps, EmitFacts, TypesAreSteps, UpdateFacts DEF TeachingDesignPlanner, Apart,
     Late, graphVars, Node, JobInv, Begun, RaiseEmitting
<1>16. ASSUME Chat PROVE Apart
  BY <1>16, KnownSteps, EmitFacts, TypesAreSteps DEF Chat, Apart, Event, RaiseSilently, Late,
     graphVars, JobInv, Begun
<1>17. ASSUME NEW n \in Interrupts, Interrupt(n) PROVE Apart
  BY <1>17, KnownSteps, EmitFacts, TypesAreSteps, InterruptNames DEF Interrupt, Apart, Silent,
     Late, JobInv, Begun
<1>18. ASSUME ResumeMetadataReview PROVE Apart
  BY <1>18, KnownSteps, EmitFacts, TypesAreSteps, InterruptNames DEF ResumeMetadataReview,
     Apart, Late, Answered, Refuse, JobInv, Begun
<1>19. ASSUME ResumeUserInput PROVE Apart
  BY <1>19, KnownSteps, EmitFacts, TypesAreSteps DEF ResumeUserInput, Apart, Silent, Late,
     graphVars, Answered, JobInv, Begun
<1>20. ASSUME NEW t \in Types, JobRaises(t) PROVE Apart
  BY <1>20, KnownSteps, EmitFacts, TypesAreSteps DEF JobRaises, Apart, Raise, RaiseSilently,
     Late, Good, queueVars, graphVars, Begun
<1>21. ASSUME ArtifactsDone PROVE Apart
  BY <1>21, KnownSteps, EmitFacts, TypesAreSteps DEF ArtifactsDone, Apart, Silent, Goto,
     graphVars, Begun
<1>22. ASSUME ArtifactFanIn PROVE Apart
  BY <1>22, KnownSteps, EmitFacts, TypesAreSteps DEF ArtifactFanIn, Apart, Goto, Late, Good,
     queueVars, graphVars, Begun
<1>23. ASSUME TellApproval PROVE Apart
  BY <1>23, KnownSteps, EmitFacts, TypesAreSteps DEF TellApproval, Apart, Silent, Event, Goto,
     Raise, RaiseSilently, Late, Good, queueVars, graphVars, Begun
<1>24. ASSUME CompressContext PROVE Apart
  BY <1>24, KnownSteps, EmitFacts, TypesAreSteps DEF CompressContext, Apart, Silent, Goto,
     Raise, RaiseSilently, Late, Good, queueVars, graphVars, Begun
<1>25. ASSUME Suggest PROVE Apart
  BY <1>25, KnownSteps, EmitFacts, TypesAreSteps DEF Suggest, Apart, Silent, Event, Goto, Late,
     Good, queueVars, graphVars, Begun
<1>26. ASSUME ProducerEnds PROVE Apart
  BY <1>26, KnownSteps, EmitFacts, TypesAreSteps DEF ProducerEnds, Apart, Goto, Late, Good,
     queueVars, graphVars, Begun
<1>27. QED
  BY <1>1, <1>2, <1>3, <1>4, <1>5, <1>6, <1>7, <1>8, <1>9, <1>10, <1>11, <1>12, <1>13, <1>14,
     <1>15, <1>16, <1>17, <1>18, <1>19, <1>20, <1>21, <1>22, <1>23, <1>24, <1>25, <1>26
     DEF Producer, Attachments, Graph


\* What does not touch the jobs and their steps keeps what is said of them.
LEMMA ApartJobs ==
  ASSUME Apart, JobInv, DoneInv
  PROVE  JobInv' /\ DoneInv'
<1>1. \A t \in Types : JobTells(t)'
  BY DEF Apart, JobInv, JobTells
<1>2. PreparationTells'
  BY DEF Apart, JobInv, PreparationTells
<1>3. ~Begun' => ~revises' /\ \A t \in Types : jobs'[t] = "none"
  BY DEF Apart, JobInv
<1>4. revises' => \E t \in Types : jobs'[t] # "none"
  BY DEF Apart, JobInv
<1>5. DoneInv'
  BY DEF Apart, DoneInv
<1>6. QED
  BY <1>1, <1>2, <1>3, <1>4, <1>5 DEF JobInv

(***************************************************************************)
(* Jobs begin.                                                             *)
(***************************************************************************)
Begins ==
  /\ \E S \in (SUBSET Types) \ {{}}, revise \in BOOLEAN : StartJobs(S, revise)
  /\ ~Begun
  /\ \A k \in Types : tracker'[k] = tracker[k]

\* Jobs that begin have said nothing yet.
LEMMA JobsBegin ==
  ASSUME ControlOK, JobInv, Begins
  PROVE  JobInv' /\ DoneInv'
<1>1. PICK S \in (SUBSET Types) \ {{}}, revise \in BOOLEAN : StartJobs(S, revise)
  BY DEF Begins
<1>2. /\ node' = "artifacts" /\ revises' = revise
      /\ \A t \in Types : jobs'[t] = IF t \in S THEN "running" ELSE "none"
  BY <1>1 DEF StartJobs, Goto
<1>3. \A t \in Types : tracker'[t] = "none"
  BY DEF Begins, JobInv, JobTells
<1>4. \A t \in Types : JobTells(t)'
  BY <1>2, <1>3 DEF JobTells
<1>5. PreparationTells'
  BY <1>2 DEF PreparationTells
<1>6. Begun' /\ \E t \in Types : jobs'[t] # "none"
  BY <1>2 DEF Begun
<1>7. DoneInv'
  BY <1>2 DEF DoneInv, Late
<1>8. QED
  BY <1>4, <1>5, <1>6, <1>7 DEF JobInv

\* A review or the router starts the jobs or leaves them alone.
LEMMA JobsMayBegin ==
  ASSUME QueueOK, ControlOK, JobInv, ResumePlanReview \/ ResumeClarification \/ ArtifactRevisionRouter
  PROVE  Apart \/ Begins
<1>1. ~Begun
  BY DEF ResumePlanReview, ResumeClarification, ArtifactRevisionRouter, Answered, Begun, Late
<1>2. \/ \E S \in (SUBSET Types) \ {{}}, revise \in BOOLEAN : StartJobs(S, revise)
      \/ UNCHANGED <<jobs, revises>>
  BY DEF ResumePlanReview, ResumeClarification, ArtifactRevisionRouter, Refuse
<1>3. \A k \in Types \cup {"artifact_revision_prepare"} : tracker'[k] = tracker[k]
  <2>1. \E k \in {"teaching_plan_review", "artifact_revision_routing"},
             s \in {"running", "success", "failed"} : Emit(k, s)
    BY InterruptNames DEF ResumePlanReview, ResumeClarification, ArtifactRevisionRouter, Refuse
  <2>2. PICK k \in {"teaching_plan_review", "artifact_revision_routing"},
             s \in {"running", "success", "failed"} : Emit(k, s)
    BY <2>1
  <2>3. k \in Steps /\ k \notin Types /\ "artifact_revision_prepare" \in Steps
    BY KnownSteps
  <2>4. \A j \in Steps \ {k} : tracker'[j] = tracker[j]
    BY <2>2, <2>3, EmitFacts
  <2>5. QED
    BY <2>3, <2>4, TypesAreSteps
<1>4. QED
  BY <1>1, <1>2, <1>3 DEF Apart, Begins, JobInv

\* A job that moves on tells so, and speaks of no other.
LEMMA OneJob ==
  ASSUME QueueOK, ControlOK, JobInv, DoneInv, NEW t \in Types, JobStarts(t) \/ JobPrepares(t) \/ JobEnds(t)
  PROVE  JobInv' /\ DoneInv'
<1>0. /\ node = "artifacts" /\ node' = "artifacts" /\ UNCHANGED revises
      /\ t \in Steps /\ "artifact_revision_prepare" \in Steps \ Types
      /\ tracker \in [Steps -> Statuses] /\ Types \subseteq Steps
      /\ jobs \in [Types -> {"none", "running", "preparing", "ready", "failed"}]
  BY KnownSteps, TypesAreSteps DEF JobStarts, JobPrepares, JobEnds, JobVars, QueueOK, ControlOK
<1>1. Begun' /\ DoneInv'
  BY <1>0 DEF Begun, DoneInv, Late
<1>2. CASE JobStarts(t)
  <2>1. /\ UNCHANGED jobs /\ tracker'[t] = "running" /\ jobs[t] = "running"
        /\ \A k \in Steps \ {t} : tracker'[k] = tracker[k]
    BY <1>0, <1>2, EmitFacts DEF JobStarts
  <2>2. \A u \in Types : JobTells(u)'
    BY <1>0, <2>1 DEF JobInv, JobTells
  <2>3. PreparationTells'
    BY <1>0, <2>1 DEF JobInv, PreparationTells
  <2>4. QED
    BY <1>0, <1>1, <2>1, <2>2, <2>3 DEF JobInv
<1>3. CASE JobPrepares(t)
  <2>1. /\ tracker'["artifact_revision_prepare"] = "success" /\ jobs[t] = "running"
        /\ tracker[t] = "running" /\ revises
        /\ \A k \in Types : tracker'[k] = tracker[k]
        /\ jobs'[t] = "preparing" /\ \A u \in Types \ {t} : jobs'[u] = jobs[u]
    BY <1>0, <1>3, EmitFacts DEF JobPrepares, JobReports
  <2>2. \A u \in Types : JobTells(u)'
    BY <1>0, <2>1 DEF JobInv, JobTells
  <2>3. PreparationTells'
    BY <1>0, <2>1 DEF PreparationTells
  <2>4. QED
    BY <1>0, <1>1, <2>1, <2>2, <2>3 DEF JobInv
<1>4. ASSUME jobs[t] = IF revises THEN "preparing" ELSE "running",
             tracker[t] = "running", JobReports(t, "ready"), Emit(t, "success")
      PROVE  JobInv'
  <2>1. /\ tracker'[t] = "success"
        /\ \A k \in Steps \ {t} : tracker'[k] = tracker[k]
        /\ jobs'[t] = "ready" /\ \A u \in Types \ {t} : jobs'[u] = jobs[u]
    BY <1>0, <1>4, EmitFacts DEF JobReports
  <2>2. \A u \in Types : JobTells(u)'
    BY <1>0, <2>1 DEF JobInv, JobTells
  <2>3. PreparationTells'
    BY <1>0, <1>4, <2>1 DEF JobInv, PreparationTells
  <2>4. QED
    BY <1>0, <1>1, <2>1, <2>2, <2>3 DEF JobInv
<1>5. ASSUME JobReports(t, "failed"),
             tracker' = IF revises
                        THEN [tracker EXCEPT ![t] = "failed", !["artifact_revision_prepare"] = "failed"]
                        ELSE [tracker EXCEPT ![t] = "failed"]
      PROVE  JobInv'
  <2>1. /\ tracker'[t] = "failed" /\ \A k \in Types \ {t} : tracker'[k] = tracker[k]
        /\ revises => tracker'["artifact_revision_prepare"] = "failed"
        /\ jobs'[t] = "failed" /\ \A u \in Types \ {t} : jobs'[u] = jobs[u]
    BY <1>0, <1>5 DEF JobReports
  <2>2. \A u \in Types : JobTells(u)'
    BY <1>0, <2>1 DEF JobInv, JobTells
  <2>3. PreparationTells'
    BY <1>0, <2>1 DEF JobInv, PreparationTells
  <2>4. QED
    BY <1>0, <1>1, <2>1, <2>2, <2>3 DEF JobInv
<1>6. QED
  BY <1>1, <1>2, <1>3, <1>4, <1>5 DEF JobEnds


-----------------------------------------------------------------------------
(***************************************************************************)
(* What the client is told of the pending interrupt.                       *)
(***************************************************************************)
TellInv ==
  /\ "approval" \in events => pending \in Reviews
  /\ (Good /\ pending \in Reviews /\ node \in {"compression", "suggestions", "over", "end"}) =>
       "approval" \in events
  /\ pending = "interrupt_for_userinput" => "token" \in events
  /\ node = "interrupt_for_userinput" =>
       "token" \in events \/ request.answers = "interrupt_for_userinput"
  /\ tracker["context_compression"] # "none" =>
       pending = None /\ node \in {"compression", "suggestions", "over", "end"}

(***************************************************************************)
(* Every step of the producer.                                             *)
(***************************************************************************)
LEMMA TellSteps ==
  ASSUME QueueOK, ControlOK, PendingInv, TellInv, Producer
  PROVE  TellInv'
<1>1. ASSUME TakeLock PROVE TellInv'
  BY <1>1, KnownSteps, EmitFacts, NamesAssumption DEF TakeLock, TellInv, Goto, queueVars,
     graphVars
<1>2. ASSUME AnalyzeDocuments PROVE TellInv'
  BY <1>2, KnownSteps, EmitFacts, NamesAssumption DEF AnalyzeDocuments, TellInv, Goto, Raise,
     RaiseSilently, Good, graphVars
<1>3. ASSUME AskTools PROVE TellInv'
  BY <1>3, KnownSteps, EmitFacts, NamesAssumption DEF AskTools, TellInv, queueVars, graphVars
<1>4. ASSUME DocumentsAnalyzed PROVE TellInv'
  BY <1>4, KnownSteps, EmitFacts, NamesAssumption, UpdateFacts DEF DocumentsAnalyzed, TellInv,
     Goto, Raise, Good, graphVars, RaiseEmitting
<1>5. ASSUME NextVideo PROVE TellInv'
  BY <1>5, KnownSteps, EmitFacts, NamesAssumption DEF NextVideo, Unheard, TellInv, Silent,
     Goto, Raise, RaiseSilently, Good, graphVars
<1>6. ASSUME ExtractAudio PROVE TellInv'
  BY <1>6, KnownSteps, EmitFacts, NamesAssumption DEF ExtractAudio, TellInv, Silent, Goto,
     Raise, RaiseSilently, Good, graphVars
<1>7. ASSUME Transcribe PROVE TellInv'
  BY <1>7, KnownSteps, EmitFacts, NamesAssumption DEF Transcribe, TellInv, Goto, Raise,
     RaiseSilently, Good, graphVars
<1>8. ASSUME ExtractKeyframes PROVE TellInv'
  BY <1>8, KnownSteps, EmitFacts, NamesAssumption DEF ExtractKeyframes, TellInv, Goto, Raise,
     RaiseSilently, Good, graphVars
<1>9. ASSUME CaptionKeyframes PROVE TellInv'
  BY <1>9, KnownSteps, EmitFacts, NamesAssumption DEF CaptionKeyframes, TellInv, Goto, Raise,
     RaiseSilently, Good, graphVars
<1>10. ASSUME VideoAnalyzed PROVE TellInv'
  BY <1>10, KnownSteps, EmitFacts, NamesAssumption DEF VideoAnalyzed, TellInv, Silent, Goto,
     Raise, RaiseSilently, Good, graphVars
<1>11. ASSUME EnterGraph PROVE TellInv'
  BY <1>11, KnownSteps, EmitFacts, NamesAssumption, InterruptNames DEF EnterGraph, TellInv,
     Silent, Goto, Raise, RaiseSilently, Late, PendingInv, graphVars
<1>12. ASSUME IntentRouter PROVE TellInv'
  BY <1>12, KnownSteps, EmitFacts, NamesAssumption, UpdateFacts DEF IntentRouter, TellInv,
     Goto, Raise, Good, graphVars, Node, RaiseEmitting
<1>13. ASSUME MetadataStructer PROVE TellInv'
  BY <1>13, KnownSteps, EmitFacts, NamesAssumption, InterruptNames, UpdateFacts
     DEF MetadataStructer, TellInv, Goto, Raise, Good, graphVars, Node, RaiseEmitting
<1>14. ASSUME RagRetrieval PROVE TellInv'
  BY <1>14, KnownSteps, EmitFacts, NamesAssumption, UpdateFacts DEF RagRetrieval, TellInv,
     Goto, Raise, Good, graphVars, Node, RaiseEmitting
<1>15. ASSUME TeachingDesignPlanner PROVE TellInv'
  BY <1>15, KnownSteps, EmitFacts, NamesAssumption, InterruptNames, UpdateFacts
     DEF TeachingDesignPlanner, TellInv, Goto, Raise, Good, graphVars, Node, RaiseEmitting
<1>16. ASSUME Chat PROVE TellInv'
  BY <1>16, KnownSteps, EmitFacts, NamesAssumption, InterruptNames DEF Chat, TellInv, Event,
     Raise, RaiseSilently, Late, PendingInv, graphVars
<1>17. ASSUME NEW n \in Interrupts, Interrupt(n) PROVE TellInv'
  BY <1>17, KnownSteps, EmitFacts, NamesAssumption, InterruptNames DEF Interrupt, TellInv,
     Silent, Goto, Late, PendingInv
<1>18. ASSUME ResumeMetadataReview PROVE TellInv'
  BY <1>18, KnownSteps, EmitFacts, NamesAssumption, InterruptNames DEF ResumeMetadataReview,
     TellInv, Goto, Answered, Refuse
<1>19. ASSUME ResumePlanReview PROVE TellInv'
  BY <1>19, KnownSteps, EmitFacts, NamesAssumption, InterruptNames DEF ResumePlanReview,
     StartJobs, TellInv, Goto, Answered, Refuse
<1>20. ASSUME ResumeClarification PROVE TellInv'
  BY <1>20, KnownSteps, EmitFacts, NamesAssumption, InterruptNames DEF ResumeClarification,
     StartJobs, TellInv, Goto, Answered, Refuse
<1>21. ASSUME ResumeUserInput PROVE TellInv'
  BY <1>21, KnownSteps, EmitFacts, NamesAssumption, InterruptNames DEF ResumeUserInput,
     TellInv, Silent, Goto, graphVars, Answered
<1>22. ASSUME ArtifactRevisionRouter PROVE TellInv'
  BY <1>22, KnownSteps, EmitFacts, NamesAssumption DEF ArtifactRevisionRouter, StartJobs,
     TellInv, Goto
<1>23. ASSUME NEW t \in Types, JobStarts(t) PROVE TellInv'
  BY <1>23, KnownSteps, EmitFacts, NamesAssumption, TypesAreSteps DEF JobStarts, TellInv,
     JobVars
<1>24. ASSUME NEW t \in Types, JobPrepares(t) PROVE TellInv'
  BY <1>24, KnownSteps, EmitFacts, NamesAssumption DEF JobPrepares, JobReports, TellInv, JobVars
<1>25. ASSUME NEW t \in Types, JobEnds(t) PROVE TellInv'
  BY <1>25, KnownSteps, EmitFacts, NamesAssumption, TypesAreSteps DEF JobEnds, JobReports,
     TellInv, QueueOK, JobVars
<1>26. ASSUME NEW t \in Types, JobRaises(t) PROVE TellInv'
  BY <1>26, KnownSteps, EmitFacts, NamesAssumption DEF JobRaises, TellInv, Raise,
     RaiseSilently, Good, graphVars
<1>27. ASSUME ArtifactsDone PROVE TellInv'
  BY <1>27, KnownSteps, EmitFacts, NamesAssumption DEF ArtifactsDone, TellInv, Silent, Goto,
     graphVars
<1>28. ASSUME ArtifactFanIn PROVE TellInv'
  BY <1>28, KnownSteps, EmitFacts, NamesAssumption DEF ArtifactFanIn, TellInv, Goto, graphVars
<1>29. ASSUME TellApproval PROVE TellInv'
  BY <1>29, KnownSteps, EmitFacts, NamesAssumption, InterruptNames DEF TellApproval, TellInv,
     Silent, Event, Goto, Raise, RaiseSilently, Good, graphVars
<1>30. ASSUME CompressContext PROVE TellInv'
  BY <1>30, KnownSteps, EmitFacts, NamesAssumption, InterruptNames DEF CompressContext,
     TellInv, Silent, Goto, Raise, RaiseSilently, Good, graphVars
<1>31. ASSUME Suggest PROVE TellInv'
  BY <1>31, KnownSteps, EmitFacts, NamesAssumption DEF Suggest, TellInv, Silent, Event, Goto,
     Good, graphVars
<1>32. ASSUME ProducerEnds PROVE TellInv'
  BY <1>32, KnownSteps, EmitFacts, NamesAssumption DEF ProducerEnds, TellInv, Goto, Good,
     queueVars, graphVars
<1>33. QED
  BY <1>1, <1>2, <1>3, <1>4, <1>5, <1>6, <1>7, <1>8, <1>9, <1>10, <1>11, <1>12, <1>13, <1>14,
     <1>15, <1>16, <1>17, <1>18, <1>19, <1>20, <1>21, <1>22, <1>23, <1>24, <1>25, <1>26, <1>27,
     <1>28, <1>29, <1>30, <1>31, <1>32 DEF Producer, Attachments, Graph


-----------------------------------------------------------------------------
(***************************************************************************)
(* All of it together.                                                     *)
(***************************************************************************)
RunInv == PendingInv /\ ToolInv /\ StepInv /\ JobInv /\ DoneInv /\ TellInv

\* The invariant of the steps holds at the beginning.
LEMMA RunInit == Init => RunInv
<1> SUFFICES ASSUME Init PROVE RunInv
  OBVIOUS
<1>1. \A k \in Steps : tracker[k] = "none"
  BY DEF Init, Nothing
<1>2. StepInv
  BY <1>1, KnownSteps DEF StepInv, AttachmentSteps, NodeSteps, ReviewSteps, Running
<1>3. ToolInv
  BY <1>1, StepNames DEF ToolInv, Running
<1>4. JobInv /\ DoneInv
  BY <1>1, TypesAreSteps DEF Init, DoneInv, JobTells, PreparationTells, JobInv
<1>5. PendingInv /\ TellInv
  BY <1>1, KnownSteps, InterruptNames, NamesAssumption DEF Init, PendingInv, TellInv, Late
<1>6. QED
  BY <1>2, <1>3, <1>4, <1>5 DEF RunInv

\* Every step keeps it.
LEMMA RunStep == IInv /\ RunInv /\ [Next]_vars => RunInv'
<1> SUFFICES ASSUME IInv, RunInv, [Next]_vars PROVE RunInv'
  OBVIOUS
<1>0. ControlOK /\ QueueOK /\ Types \cup {"artifact_revision_prepare"} \subseteq Steps \ ToolSteps
  <2>1. \A t \in Types : t \in Steps /\ t \notin ToolSteps
    BY StepNames DEF OwnSteps
  <2>2. QED
    BY <2>1, KnownSteps DEF IInv, TypeOK, ControlOK, QueueOK
<1>1. ToolInv'
  BY ToolStep DEF RunInv
<1>2. CASE Producer
  <2>1. PendingInv' /\ StepInv' /\ TellInv'
    BY <1>0, <1>2, PendingSteps, StepSteps, TellSteps DEF RunInv
  <2>2. ASSUME Apart PROVE JobInv' /\ DoneInv'
    BY <2>2, ApartJobs DEF RunInv
  <2>3. ASSUME Begins PROVE JobInv' /\ DoneInv'
    BY <1>0, <2>3, JobsBegin DEF RunInv
  <2>4. ASSUME NEW t \in Types, JobStarts(t) \/ JobPrepares(t) \/ JobEnds(t)
        PROVE  JobInv' /\ DoneInv'
    BY <1>0, <2>4, OneJob DEF RunInv
  <2>5. JobInv' /\ DoneInv'
    BY <1>0, <1>2, <2>2, <2>3, <2>4, ApartSteps, JobsMayBegin DEF RunInv
  <2>6. QED
    BY <1>1, <2>1, <2>5 DEF RunInv
<1>3. ASSUME \A k \in Steps \ ToolSteps : tracker'[k] = tracker[k],
             UNCHANGED <<request, graphVars, events>>,
             UNCHANGED <<node, stream>> \/ (node' \in {"over"} /\ stream' = "left")
               \/ (node' = node /\ node = "end" /\ stream = "open" /\ stream' = "closed")
      PROVE  RunInv'
  <2>1. PendingInv' /\ StepInv' /\ TellInv'
    BY <1>3, KnownSteps DEF RunInv, PendingInv, Late, StepInv, AttachmentSteps, NodeSteps,
       ReviewSteps, Running, Good, TellInv, graphVars
  <2>2. JobInv'
    BY <1>0, <1>3 DEF RunInv, JobInv, JobTells, PreparationTells, Begun, Late, graphVars
  <2>3. DoneInv'
    BY <1>3 DEF RunInv, DoneInv, Good, graphVars
  <2>4. QED
    BY <1>1, <2>1, <2>2, <2>3 DEF RunInv
<1>4. ASSUME NEW t \in Threads, RunThread(t) PROVE RunInv'
  <2>1. \A k \in Steps \ ToolSteps : tracker'[k] = tracker[k]
    <3>1. UNCHANGED tracker \/ (threads[t].pc = "update" /\ Update(threads[t].step, threads[t].says))
      BY <1>4 DEF RunThread, ThreadEmits
    <3>2. threads[t].pc = "update" => threads[t].step \in ToolSteps
      BY DEF IInv, ThreadOK
    <3>3. QED
      BY <1>0, <3>1, <3>2 DEF Update, QueueOK
  <2>2. QED
    BY <1>3, <1>4, <2>1 DEF RunThread
<1>5. CASE RunCallback \/ ReadEnd \/ ClientLeaves \/ UNCHANGED vars
  BY <1>3, <1>5 DEF RunCallback, ReadEnd, ClientLeaves, Goto, vars, queueVars
<1>6. QED
  BY <1>2, <1>4, <1>5 DEF Next

\* Both invariants hold in every reachable state.
LEMMA RunInvariant == Spec => [](IInv /\ RunInv)
<1>1. Init => IInv
  BY TypeInit, CallInit DEF Init, IInv, QuietInv, Idle, IdleThread
<1>2. IInv /\ [Next]_vars => IInv'
  BY TypeStep, CallStep, QuietStep DEF IInv
<1>3. QED
  BY <1>1, <1>2, RunInit, RunStep, PTL DEF Spec

(***************************************************************************)
(* At the end of a run no step is left running, but for the review that    *)
(* waits and the three exceptions (app/core/progress.py,                   *)
(* app/core/video_transcribe.py, app/core/skills.py, the nodes of          *)
(* app/core/graph.py).                                                     *)
(***************************************************************************)
THEOREM StepsSettled == Spec => []StepsAreSettled
<1>1. ASSUME IInv, RunInv, stream = "closed", "error" \notin events, NEW k \in Steps, tracker[k] = "running"
      PROVE  \/ pending \in Reviews /\ k = ReviewStep[pending]
             \/ k = "metadata_review" /\ "metadata_review" \in refused
             \/ k = "video_transcription" /\ tracker["video_audio_extraction"] = "failed"
             \/ k = "skill_activation" /\ unread
  <2>1. Good /\ node = "end" /\ Idle
    BY <1>1 DEF IInv, QuietInv, Good
  <2>2. k \in ToolSteps => k = "skill_activation" /\ unread
    BY <1>1, <2>1 DEF RunInv, ToolInv, Running, Idle, Active, GivenUp
  <2>3. k \notin Types
    BY <1>1, <2>1 DEF RunInv, JobInv, JobTells, DoneInv, Late, IInv, TypeOK
  <2>4. k \in ToolSteps \cup VideoSteps \cup GraphSteps \cup {"attachment_analysis", "context_compression"}
    BY <1>1, <2>3 DEF Steps, OwnSteps
  <2>5. AttachmentSteps /\ NodeSteps /\ ReviewSteps
    BY <1>1, <2>1 DEF RunInv, StepInv
  <2>6. CASE k \in VideoSteps
    BY <1>1, <2>1, <2>5, <2>6 DEF VideoSteps, AttachmentSteps, Running
  <2>7. CASE k \in GraphSteps
    BY <1>1, <2>1, <2>5, <2>7, InterruptNames DEF GraphSteps, NodeSteps, ReviewSteps, Running
  <2>8. CASE k \in {"attachment_analysis", "context_compression"}
    BY <1>1, <2>1, <2>5, <2>8 DEF AttachmentSteps, NodeSteps, Running
  <2>9. QED
    BY <2>2, <2>4, <2>6, <2>7, <2>8
<1>2. IInv /\ RunInv => StepsAreSettled
  BY <1>1 DEF StepsAreSettled
<1>3. QED
  BY <1>2, RunInvariant, PTL

(***************************************************************************)
(* The steps of the artifacts and of their preparation tell how the jobs   *)
(* ended (app/core/agent.py, _run_artifact_job).                           *)
(***************************************************************************)
THEOREM JobsTold == Spec => []JobStepsTell
<1>1. ASSUME IInv, RunInv, stream = "closed", "error" \notin events PROVE JobStepsTell
  <2>1. \A t \in Types : jobs[t] \in {"none", "ready", "failed"}
    BY <1>1 DEF IInv, TypeOK, QuietInv, RunInv, DoneInv, Good, Late
  <2>2. \A t \in Types : JobTells(t)
    BY <1>1 DEF RunInv, JobInv
  <2>3. \A t \in Types : tracker[t] = CASE jobs[t] = "ready"  -> "success"
                                        [] jobs[t] = "failed" -> "failed"
                                        [] OTHER              -> "none"
    BY <2>1, <2>2 DEF JobTells
  <2>4. (revises /\ \A t \in Types : jobs[t] # "failed") =>
          tracker["artifact_revision_prepare"] = "success"
    BY <1>1, <2>1 DEF RunInv, JobInv, PreparationTells
  <2>5. (revises /\ \A t \in Types : jobs[t] # "ready") =>
          tracker["artifact_revision_prepare"] = "failed"
    BY <1>1, <2>1 DEF RunInv, JobInv, PreparationTells
  <2>6. QED
    BY <2>1, <2>3, <2>4, <2>5 DEF JobStepsTell
<1>2. IInv /\ RunInv => JobStepsTell
  BY <1>1 DEF JobStepsTell
<1>3. QED
  BY <1>2, RunInvariant, PTL

(***************************************************************************)
(* The client knows what the thread waits for, and a thread that waits was *)
(* not compressed (app/core/agent.py, produce_events).                     *)
(***************************************************************************)
THEOREM TeacherTold == Spec => []TeacherIsTold
<1>1. IInv /\ RunInv => TeacherIsTold
  BY DEF IInv, QuietInv, RunInv, TellInv, Good, TeacherIsTold
<1>2. QED
  BY <1>1, RunInvariant, PTL

=============================================================================
