------------------------------ MODULE RunEvents ------------------------------
(***************************************************************************)
(* One run of the chat stream and what its client is told of it            *)
(* (AgentRuntime.stream_agent_events, app/core/agent.py, with the progress *)
(* tracker of app/core/progress.py and the video analysis of               *)
(* app/core/video_transcribe.py).                                          *)
(*                                                                         *)
(* The producer analyses the attachments, walks through the graph and      *)
(* tidies up; it and everything it awaits update the statuses of the steps *)
(* and put events into the queue that the client reads, up to the end      *)
(* event.  The tools of the attachment agent run in threads of their own:  *)
(* the tracker has no lock, and what a thread has to say reaches the queue *)
(* by way of the callbacks of the event loop.                              *)
(***************************************************************************)
EXTENDS Naturals, Sequences, FiniteSets

CONSTANTS
  Threads,      \* tool calls the attachment agent makes in one message
  Calls,        \* the steps these calls report on
  MaxMessages,  \* bound: messages with tool calls of the attachment agent
  MaxRetries,   \* max_retries of ToolRetryMiddleware
  Requests,     \* what a client may ask for, see AnyRequest
  Types,        \* GENERATABLE_ARTIFACT_TYPES
  None

VARIABLES
  node,     \* where the producer is
  request,  \* the documents and videos left to analyse; the interrupt answered
  heard,    \* what the analysis of the present video has brought
  pending,  \* the interrupt the graph has stopped at
  refused,  \* the reviews that were answered with a change in this run
  jobs,     \* how the artifact jobs stand
  revises,  \* whether they revise
  threads,  \* the tool threads of the attachment agent
  messages, \* the messages with tool calls it has sent
  unread,   \* history: the load of a skill whose file cannot be read was given up
  callbacks,\* what threads have handed to the event loop, oldest first
  tracker,  \* ProgressTracker.steps: the status of each step
  shown,    \* the statuses in the last progress event of the queue
  events,   \* the kinds of the other events of the queue
  stream    \* "open", "closed" when the client has read the end, or "left"

graphVars  == <<pending, refused, jobs, revises>>
threadVars == <<threads, messages, unread, callbacks>>
queueVars  == <<tracker, shown, events>>
vars == <<node, request, heard, graphVars, threadVars, queueVars, stream>>

ToolSteps   == {"skill_activation", "code_preparation", "code_execution"}
VideoSteps  == {"video_audio_extraction", "video_transcription",
                "video_keyframe_extraction", "video_frame_captioning"}
GraphSteps  == {"intent_recognition", "metadata_structuring", "metadata_review", "rag_retrieval",
                "teaching_design", "teaching_plan_review", "artifact_revision_routing",
                "artifact_revision_prepare", "artifact_fan_in"}
OwnSteps == ToolSteps \cup VideoSteps \cup GraphSteps
              \cup {"attachment_analysis", "context_compression"}
Steps == OwnSteps \cup Types
Statuses == {"none", "running", "success", "failed"}
Nothing  == [k \in Steps |-> "none"]

\* The review nodes, with the step each of them reports on.
ReviewStep == [metadata_review |-> "metadata_review",
               teaching_plan_review |-> "teaching_plan_review",
               artifact_revision_clarification |-> "artifact_revision_routing"]
Reviews    == DOMAIN ReviewStep
Interrupts == Reviews \cup {"interrupt_for_userinput"}

\* Whether documents are attached, how many videos, and the interrupt that the
\* thread has stopped at and the message answers.
AnyRequest == [documents : BOOLEAN, videos : Nat, answers : Interrupts \cup {None}]

ASSUME RequestsAssumption == Requests \subseteq AnyRequest
ASSUME CallsAssumption == Calls \subseteq ToolSteps
ASSUME BoundAssumption == MaxMessages \in Nat /\ MaxRetries \in Nat
ASSUME NamesAssumption ==
  /\ None \notin Interrupts
  /\ Types \cap OwnSteps = {}
  /\ \A x \in Threads \cup {None} : x \notin [Steps -> Statuses]

VideoNodes == {"audio", "transcription", "keyframes", "captioning", "verdict"}
GraphNodes == {"intent_router", "normal_chat", "metadata_structer", "follow_up_questioner",
               "rag_retrieval", "teaching_design_planner", "artifact_revision_router",
               "artifacts", "artifact_fan_in"} \cup Interrupts
Nodes == {"lock", "documents", "tools", "videos", "input", "approval", "compression",
          "suggestions", "over", "end"} \cup VideoNodes \cup GraphNodes

\* A tool call in its thread: what it is doing, its step, what it says next
\* or has said last, the snapshot of the tracker that it is about to hand
\* over, and how often it has been tried again.  Its result is "told" when it
\* is with the event loop.
Thread == [pc : {"idle", "update", "snapshot", "post", "work", "last", "told"},
           step : ToolSteps \cup {None}, says : Statuses,
           payload : [Steps -> Statuses] \cup {None}, tries : 0..MaxRetries]
Attempt(step, tries) ==
  [pc |-> "update", step |-> step, says |-> "running", payload |-> None, tries |-> tries]
IdleThread == [pc |-> "idle", step |-> None, says |-> "none", payload |-> None, tries |-> 0]

TypeOK ==
  /\ node \in Nodes
  /\ request \in AnyRequest
  /\ heard \in [audio : BOOLEAN, frames : BOOLEAN, text : BOOLEAN]
  /\ pending \in Interrupts \cup {None}
  /\ refused \subseteq Reviews
  /\ jobs \in [Types -> {"none", "running", "preparing", "ready", "failed"}]
  /\ revises \in BOOLEAN
  /\ threads \in [Threads -> Thread]
  /\ messages \in 0..MaxMessages
  /\ unread \in BOOLEAN
  /\ callbacks \in Seq([Steps -> Statuses] \cup Threads)
  /\ tracker \in [Steps -> Statuses]
  /\ shown \in [Steps -> Statuses]
  /\ events \subseteq {"token", "approval", "suggestions", "error"}
  /\ stream \in {"open", "closed", "left"}

Unheard == [audio |-> FALSE, frames |-> FALSE, text |-> FALSE]

Init ==
  /\ node = "lock"
  /\ request \in Requests
  /\ heard = Unheard
  /\ pending = None /\ refused = {} /\ revises = FALSE
  /\ jobs = [t \in Types |-> "none"]
  /\ threads = [t \in Threads |-> IdleThread] /\ messages = 0 /\ callbacks = <<>>
  /\ unread = FALSE
  /\ tracker = Nothing /\ shown = Nothing /\ events = {}
  /\ stream = "open"

-----------------------------------------------------------------------------
(* Emissions                                                               *)

\* ProgressTracker.snapshot
Snapshot(status) == status

Update(k, status) == tracker' = [tracker EXCEPT ![k] = status]

\* From the event loop, or a thread it waits for: update, snapshot and event.
Emit(k, status) ==
  /\ Update(k, status)
  /\ shown' = Snapshot(tracker')
  /\ UNCHANGED events

Silent == UNCHANGED <<tracker, shown, events>>
Event(kind) == events' = events \cup {kind} /\ UNCHANGED <<tracker, shown>>

Goto(n) == node' = n

\* The exception of a node reaches produce_events, which says so and ends.
Raise == node' = "over" /\ events' = events \cup {"error"}
RaiseSilently == Raise /\ UNCHANGED <<tracker, shown>>
RaiseEmitting(k) == Raise /\ Update(k, "failed") /\ shown' = Snapshot(tracker')

-----------------------------------------------------------------------------
(* The attachments                                                         *)

TakeLock ==
  /\ node = "lock"
  /\ Goto(IF request.documents THEN "documents" ELSE "videos")
  /\ UNCHANGED <<request, heard, graphVars, threadVars, queueVars, stream>>

\* analyze_attachments, of all documents at once.
AnalyzeDocuments ==
  /\ node = "documents"
  /\ \/ Goto("tools") /\ Emit("attachment_analysis", "running")
     \/ RaiseSilently   \* a document cannot be fetched
  /\ UNCHANGED <<request, heard, graphVars, threadVars, stream>>

Idle == \A t \in Threads : threads[t].pc = "idle"

\* A message with tool calls: each starts in a thread that reports "running".
AskTools ==
  /\ node = "tools" /\ Idle
  /\ messages < MaxMessages
  /\ messages' = messages + 1
  /\ \E S \in (SUBSET Threads) \ {{}} : \E step \in [S -> Calls] :
       threads' = [t \in Threads |-> IF t \in S THEN Attempt(step[t], 0) ELSE threads[t]]
  /\ UNCHANGED <<node, request, heard, graphVars, unread, callbacks, queueVars, stream>>

\* Mutant: the answer of the agent does not wait for the tools.
DocumentsAnalyzedAtOnce ==
  /\ node = "tools"
  /\ \/ Goto("videos") /\ Emit("attachment_analysis", "success")
     \/ RaiseEmitting("attachment_analysis")
  /\ UNCHANGED <<request, heard, graphVars, threadVars, stream>>

DocumentsAnalyzed ==
  /\ node = "tools" /\ Idle
  /\ \/ Goto("videos") /\ Emit("attachment_analysis", "success")
     \/ RaiseEmitting("attachment_analysis")
  /\ UNCHANGED <<request, heard, graphVars, threadVars, stream>>

\* The next video, or the graph.
NextVideo ==
  /\ node = "videos"
  /\ IF request.videos = 0
     THEN Goto("input") /\ Silent /\ UNCHANGED <<request, heard>>
     ELSE /\ request' = [request EXCEPT !.videos = @ - 1]
          /\ \/ /\ Goto("audio") /\ Emit("video_transcription", "running")
                /\ heard' = Unheard
             \/ RaiseSilently /\ UNCHANGED heard
  /\ UNCHANGED <<graphVars, threadVars, stream>>

\* extract_audio: its failure is told of its own step, not of the one begun.
ExtractAudio ==
  /\ node = "audio"
  /\ \/ Goto("transcription") /\ Silent /\ UNCHANGED heard
     \/ Goto("keyframes") /\ Emit("video_audio_extraction", "failed") /\ UNCHANGED heard
     \/ RaiseSilently /\ UNCHANGED heard
  /\ UNCHANGED <<request, graphVars, threadVars, stream>>

Transcribe ==
  /\ node = "transcription"
  /\ \/ /\ Goto("keyframes") /\ Emit("video_transcription", "success")
        /\ heard' = [heard EXCEPT !.audio = TRUE]
     \/ Goto("keyframes") /\ Emit("video_transcription", "failed") /\ UNCHANGED heard
     \/ RaiseSilently /\ UNCHANGED heard
  /\ UNCHANGED <<request, graphVars, threadVars, stream>>

\* Mutant: an error is not told of the step that was begun.
ExtractKeyframesQuietly ==
  /\ node = "keyframes"
  /\ IF tracker["video_keyframe_extraction"] # "running"
     THEN Emit("video_keyframe_extraction", "running") /\ UNCHANGED <<node, heard>>
     ELSE \/ \E some \in BOOLEAN :
               /\ Goto("captioning") /\ Emit("video_keyframe_extraction", "success")
               /\ heard' = [heard EXCEPT !.frames = some]
          \/ Goto("captioning") /\ Silent /\ UNCHANGED heard
  /\ UNCHANGED <<request, graphVars, threadVars, stream>>

\* Keyframes begin, and are extracted: some, none, or an error.
ExtractKeyframes ==
  /\ node = "keyframes"
  /\ IF tracker["video_keyframe_extraction"] # "running"
     THEN Emit("video_keyframe_extraction", "running") /\ UNCHANGED <<node, heard>>
     ELSE \/ \E some \in BOOLEAN :
               /\ Goto("captioning") /\ Emit("video_keyframe_extraction", "success")
               /\ heard' = [heard EXCEPT !.frames = some]
          \/ Goto("captioning") /\ Emit("video_keyframe_extraction", "failed") /\ UNCHANGED heard
          \/ RaiseSilently /\ UNCHANGED heard
  /\ UNCHANGED <<request, graphVars, threadVars, stream>>

CaptionKeyframes ==
  /\ node = "captioning"
  /\ IF ~heard.frames
     THEN Goto("verdict") /\ Emit("video_frame_captioning", "success") /\ UNCHANGED heard
     ELSE IF tracker["video_frame_captioning"] # "running"
     THEN Emit("video_frame_captioning", "running") /\ UNCHANGED <<node, heard>>
     ELSE \/ /\ Goto("verdict") /\ Emit("video_frame_captioning", "success")
             /\ heard' = [heard EXCEPT !.text = TRUE]
          \/ Goto("verdict") /\ Emit("video_frame_captioning", "failed") /\ UNCHANGED heard
          \/ RaiseSilently /\ UNCHANGED heard
  /\ UNCHANGED <<request, graphVars, threadVars, stream>>

\* One of the two parts is enough.
VideoAnalyzed ==
  /\ node = "verdict"
  /\ IF heard.audio \/ heard.text THEN Goto("videos") /\ Silent ELSE RaiseSilently
  /\ UNCHANGED <<request, heard, graphVars, threadVars, stream>>

-----------------------------------------------------------------------------
(* A thread of the attachment agent's tools                                *)

Say(t, status) == threads' = [threads EXCEPT ![t].pc = "update", ![t].says = status]

\* The update and the snapshot of one emission are two steps, and handing
\* the payload to the loop is a third.
ThreadEmits(t) ==
  \/ /\ threads[t].pc = "update"
     /\ Update(threads[t].step, threads[t].says)
     /\ threads' = [threads EXCEPT ![t].pc = "snapshot"]
     /\ UNCHANGED callbacks
  \/ /\ threads[t].pc = "snapshot"
     /\ threads' = [threads EXCEPT ![t].pc = "post", ![t].payload = Snapshot(tracker)]
     /\ UNCHANGED <<callbacks, tracker>>
  \/ /\ threads[t].pc = "post"
     /\ callbacks' = Append(callbacks, threads[t].payload)
     /\ threads' = [threads EXCEPT ![t].pc = IF threads[t].says = "running" THEN "work" ELSE "last",
                                   ![t].payload = None]
     /\ UNCHANGED tracker

\* A tool tells how it ended, whatever it raises; only load_skill lets an
\* error in reading the skill's file pass untold.  The result, or what was
\* raised, is handed to the loop like the payloads.
ThreadWorks(t) ==
  \/ /\ threads[t].pc = "work"
     /\ \/ \E status \in {"success", "failed"} : Say(t, status)
        \/ /\ threads[t].step = "skill_activation"
           /\ threads' = [threads EXCEPT ![t].pc = "last"]
     /\ UNCHANGED callbacks
  \/ /\ threads[t].pc = "last"
     /\ callbacks' = Append(callbacks, t)
     /\ threads' = [threads EXCEPT ![t].pc = "told"]

RunThread(t) ==
  /\ \/ ThreadEmits(t)
     \/ ThreadWorks(t) /\ UNCHANGED tracker
  /\ UNCHANGED <<node, request, heard, graphVars, messages, unread, shown, events, stream>>

\* A call that raised is tried again while anybody waits for it; then what it
\* raised becomes its result.
Unread(t)  == threads[t].step = "skill_activation" /\ threads[t].says = "running"
MayRaise(t) == threads[t].step # "skill_activation" /\ threads[t].says = "failed"
Retry(t)   == threads' = [threads EXCEPT ![t] = Attempt(@.step, @.tries + 1)] /\ UNCHANGED unread
Accept(t)  == threads' = [threads EXCEPT ![t] = IdleThread] /\ unread' = (unread \/ Unread(t))

Returns(t) ==
  LET again == node = "tools" /\ threads[t].tries < MaxRetries IN
  \/ again /\ (Unread(t) \/ MayRaise(t)) /\ Retry(t)
  \/ ~(again /\ Unread(t)) /\ Accept(t)

\* The loop runs the oldest callback: a payload is put into the queue, a
\* result wakes the agent.
RunCallback ==
  /\ callbacks # <<>>
  /\ callbacks' = Tail(callbacks)
  /\ IF Head(callbacks) \in Threads
     THEN Returns(Head(callbacks)) /\ UNCHANGED shown
     ELSE shown' = Head(callbacks) /\ UNCHANGED <<threads, unread>>
  /\ UNCHANGED <<node, request, heard, graphVars, messages, tracker, events, stream>>

-----------------------------------------------------------------------------
(* The graph, as far as it reports                                         *)

EnterGraph ==
  /\ node = "input"
  /\ \/ Goto(IF request.answers = None THEN "intent_router" ELSE request.answers) /\ Silent
     \/ RaiseSilently
  /\ UNCHANGED <<request, heard, graphVars, threadVars, stream>>

\* A node that reports "running", and then success or the exception it lets
\* through; between the two it waits for a model.
Node(n, k, next) ==
  /\ node = n
  /\ IF tracker[k] # "running"
     THEN Emit(k, "running") /\ UNCHANGED node
     ELSE \/ \E m \in next : Goto(m) /\ Emit(k, "success")
          \/ RaiseEmitting(k)
  /\ UNCHANGED <<request, heard, graphVars, threadVars, stream>>

IntentRouter == Node("intent_router", "intent_recognition",
                     {"normal_chat", "metadata_structer", "artifact_revision_router"})
MetadataStructer == Node("metadata_structer", "metadata_structuring",
                         {"metadata_review", "follow_up_questioner"})
RagRetrieval == Node("rag_retrieval", "rag_retrieval", {"teaching_design_planner"})
TeachingDesignPlanner == Node("teaching_design_planner", "teaching_design", {"teaching_plan_review"})

\* Tokens reach the client; the memory nodes before and after it only raise.
Chat ==
  /\ node \in {"normal_chat", "follow_up_questioner"}
  /\ \/ /\ Goto(IF node = "normal_chat" THEN "approval" ELSE "interrupt_for_userinput")
        /\ Event("token")
     \/ RaiseSilently
  /\ UNCHANGED <<request, heard, graphVars, threadVars, stream>>

\* The node asks and the graph stops, or it is the answer's turn.
Interrupt(n) ==
  /\ node = n
  /\ request.answers # n
  /\ pending' = n
  /\ Goto("approval")
  /\ IF n \in Reviews THEN Emit(ReviewStep[n], "running") ELSE Silent
  /\ UNCHANGED <<request, heard, refused, jobs, revises, threadVars, stream>>

Answered(n) == node = n /\ request.answers = n /\ request' = [request EXCEPT !.answers = None]

StartJobs(S, revise) ==
  /\ Goto("artifacts")
  /\ jobs' = [t \in Types |-> IF t \in S THEN "running" ELSE "none"]
  /\ revises' = revise

\* A change is asked for: the review's step stays as it is.
Refuse(n, next) ==
  /\ refused' = refused \cup {n}
  /\ Goto(next)
  /\ Emit(ReviewStep[n], "running")
  /\ UNCHANGED <<jobs, revises>>

ResumeMetadataReview ==
  /\ Answered("metadata_review")
  /\ \/ /\ Goto("rag_retrieval") /\ Emit("metadata_review", "success")
        /\ UNCHANGED <<refused, jobs, revises>>
     \/ Refuse("metadata_review", "metadata_structer")
  /\ UNCHANGED <<heard, pending, threadVars, stream>>

ResumePlanReview ==
  /\ Answered("teaching_plan_review")
  /\ \/ /\ \E S \in (SUBSET Types) \ {{}} : StartJobs(S, FALSE)
        /\ Emit("teaching_plan_review", "success") /\ UNCHANGED refused
     \/ /\ Goto("approval") /\ Emit("teaching_plan_review", "failed")
        /\ UNCHANGED <<refused, jobs, revises>>
     \/ Refuse("teaching_plan_review", "rag_retrieval")
  /\ UNCHANGED <<heard, pending, threadVars, stream>>

ResumeClarification ==
  /\ Answered("artifact_revision_clarification")
  /\ \/ /\ \E S \in (SUBSET Types) \ {{}} : StartJobs(S, TRUE)
        /\ Emit("artifact_revision_routing", "success") /\ UNCHANGED refused
     \/ Refuse("artifact_revision_clarification", "artifact_revision_router")
  /\ UNCHANGED <<heard, pending, threadVars, stream>>

ResumeUserInput ==
  /\ Answered("interrupt_for_userinput")
  /\ Goto("metadata_structer") /\ Silent
  /\ UNCHANGED <<heard, graphVars, threadVars, stream>>

\* Nothing to revise, a question which, or the jobs.
ArtifactRevisionRouter ==
  /\ node = "artifact_revision_router"
  /\ \/ /\ Goto("approval") /\ Emit("artifact_revision_routing", "failed")
        /\ UNCHANGED <<jobs, revises>>
     \/ /\ Goto("artifact_revision_clarification") /\ Emit("artifact_revision_routing", "success")
        /\ UNCHANGED <<jobs, revises>>
     \/ /\ \E S \in (SUBSET Types) \ {{}} : StartJobs(S, TRUE)
        /\ Emit("artifact_revision_routing", "success")
  /\ UNCHANGED <<request, heard, pending, refused, threadVars, stream>>

-----------------------------------------------------------------------------
(* The artifact jobs, side by side (AgentRuntime._run_artifact_job)        *)

JobVars == <<node, request, heard, pending, refused, revises, threadVars, stream>>

JobReports(t, outcome) == jobs' = [jobs EXCEPT ![t] = outcome]

JobStarts(t) ==
  /\ node = "artifacts" /\ jobs[t] = "running" /\ tracker[t] # "running"
  /\ Emit(t, "running")
  /\ UNCHANGED <<jobs, JobVars>>

\* Nothing is awaited while the workspace of a revision is prepared.
JobPrepares(t) ==
  /\ node = "artifacts" /\ jobs[t] = "running" /\ tracker[t] = "running" /\ revises
  /\ JobReports(t, "preparing")
  /\ Emit("artifact_revision_prepare", "success")
  /\ UNCHANGED JobVars

\* Mutant: the handler leaves the step of the preparation alone.
JobEndsAlone(t) ==
  /\ node = "artifacts" /\ tracker[t] = "running"
  /\ \/ /\ jobs[t] = IF revises THEN "preparing" ELSE "running"
        /\ JobReports(t, "ready")
        /\ Emit(t, "success")
     \/ /\ jobs[t] \in {"running", "preparing"}
        /\ JobReports(t, "failed")
        /\ Emit(t, "failed")
  /\ UNCHANGED JobVars

\* The handler reports the failure after the record of it was written.
JobEnds(t) ==
  /\ node = "artifacts" /\ tracker[t] = "running"
  /\ \/ /\ jobs[t] = IF revises THEN "preparing" ELSE "running"
        /\ JobReports(t, "ready")
        /\ Emit(t, "success")
     \/ /\ jobs[t] \in {"running", "preparing"}
        /\ JobReports(t, "failed")
        /\ tracker' = IF revises
                      THEN [tracker EXCEPT ![t] = "failed", !["artifact_revision_prepare"] = "failed"]
                      ELSE [tracker EXCEPT ![t] = "failed"]
        /\ shown' = Snapshot(tracker')
        /\ UNCHANGED events
  /\ UNCHANGED JobVars

\* Even the record of the failure could not be written.
JobRaises(t) ==
  /\ node = "artifacts" /\ jobs[t] \in {"running", "preparing"} /\ tracker[t] = "running"
  /\ RaiseSilently
  /\ UNCHANGED <<request, heard, graphVars, threadVars, stream>>

ArtifactsDone ==
  /\ node = "artifacts"
  /\ \A t \in Types : jobs[t] \notin {"running", "preparing"}
  /\ Goto("artifact_fan_in") /\ Silent
  /\ UNCHANGED <<request, heard, graphVars, threadVars, stream>>

ArtifactFanIn ==
  /\ node = "artifact_fan_in"
  /\ Goto("approval") /\ Emit("artifact_fan_in", "success")
  /\ UNCHANGED <<request, heard, graphVars, threadVars, stream>>

-----------------------------------------------------------------------------
(* After the graph, and the end                                            *)

\* get_pending_approval knows the reviews, not the question to the user.
TellApproval ==
  /\ node = "approval"
  /\ \/ IF pending \in Reviews THEN Goto("over") /\ Event("approval")
                               ELSE Goto("compression") /\ Silent
     \/ RaiseSilently
  /\ UNCHANGED <<request, heard, graphVars, threadVars, stream>>

\* Mutant: the context is compressed whatever the thread waits for.
CompressAlways ==
  /\ node = "compression"
  /\ IF tracker["context_compression"] # "running"
     THEN Emit("context_compression", "running") /\ UNCHANGED node
     ELSE Goto("suggestions") /\ Emit("context_compression", "success")
  /\ UNCHANGED <<request, heard, graphVars, threadVars, stream>>

\* _maybe_compress_thread_context: not while there is something to resume.
CompressContext ==
  /\ node = "compression"
  /\ IF tracker["context_compression"] # "running"
     THEN \/ Goto("suggestions") /\ Silent
          \/ /\ pending = None
             /\ Emit("context_compression", "running") /\ UNCHANGED node
          \/ RaiseSilently
     ELSE \E status \in {"success", "failed"} :
            Goto("suggestions") /\ Emit("context_compression", status)
  /\ UNCHANGED <<request, heard, graphVars, threadVars, stream>>

Suggest ==
  /\ node = "suggestions"
  /\ Goto("over")
  /\ \/ "token" \in events /\ Event("suggestions")
     \/ Silent
  /\ UNCHANGED <<request, heard, graphVars, threadVars, stream>>

\* Mutant: a client that has left is not told of the end, nor is one whose
\* run has raised.
ProducerEndsWell ==
  /\ node = "over" /\ "error" \notin events
  /\ Goto("end")
  /\ UNCHANGED <<request, heard, graphVars, threadVars, queueVars, stream>>

\* The finally block of produce_events.
ProducerEnds ==
  /\ node = "over"
  /\ Goto("end")
  /\ UNCHANGED <<request, heard, graphVars, threadVars, queueVars, stream>>

\* event_stream has passed on what the queue held, and says that it is done.
ReadEnd ==
  /\ node = "end" /\ stream = "open"
  /\ stream' = "closed"
  /\ UNCHANGED <<node, request, heard, graphVars, threadVars, queueVars>>

\* The client goes away, and the producer is cancelled where it waits.
ClientLeaves ==
  /\ stream = "open" /\ node # "end"
  /\ stream' = "left"
  /\ Goto("over")
  /\ UNCHANGED <<request, heard, graphVars, threadVars, queueVars>>

-----------------------------------------------------------------------------
Attachments ==
  \/ TakeLock \/ AnalyzeDocuments \/ AskTools \/ DocumentsAnalyzed
  \/ NextVideo \/ ExtractAudio \/ Transcribe \/ ExtractKeyframes \/ CaptionKeyframes \/ VideoAnalyzed
Graph ==
  \/ EnterGraph \/ IntentRouter \/ MetadataStructer \/ RagRetrieval \/ TeachingDesignPlanner \/ Chat
  \/ \E n \in Interrupts : Interrupt(n)
  \/ ResumeMetadataReview \/ ResumePlanReview \/ ResumeClarification \/ ResumeUserInput
  \/ ArtifactRevisionRouter
  \/ \E t \in Types : JobStarts(t) \/ JobPrepares(t) \/ JobEnds(t) \/ JobRaises(t)
  \/ ArtifactsDone \/ ArtifactFanIn
Producer == Attachments \/ Graph \/ TellApproval \/ CompressContext \/ Suggest \/ ProducerEnds

Next == Producer \/ RunCallback \/ (\E t \in Threads : RunThread(t)) \/ ReadEnd \/ ClientLeaves

Spec == Init /\ [][Next]_vars

\* The event loop runs what is ready, models and programs answer or time out.
FairSpec ==
  /\ Spec
  /\ WF_vars(Producer) /\ WF_vars(RunCallback) /\ WF_vars(ReadEnd)
  /\ \A t \in Threads : WF_vars(RunThread(t))

-----------------------------------------------------------------------------
(***************************************************************************)
(* When the client has read to the end and no error, no step is still      *)
(* shown as running, except the review that waits for its approval, and    *)
(* three that the code leaves so: a review of the metadata answered with a *)
(* change, the transcription of a video whose audio could not be           *)
(* extracted, and the load of a skill whose file could not be read.        *)
(***************************************************************************)
StepsAreSettled ==
  (stream = "closed" /\ "error" \notin events) =>
    \A k \in Steps : tracker[k] = "running" =>
      \/ pending \in Reviews /\ k = ReviewStep[pending]
      \/ k = "metadata_review" /\ "metadata_review" \in refused
      \/ k = "video_transcription" /\ tracker["video_audio_extraction"] = "failed"
      \/ k = "skill_activation" /\ unread

(***************************************************************************)
(* What the last progress event says is what the tracker holds, although   *)
(* tools update it from several threads at once and their snapshots may    *)
(* enter the queue in another order than they were taken.                  *)
(***************************************************************************)
ShownIsCurrent == stream = "closed" => shown = tracker

(***************************************************************************)
(* The step of every artifact tells how its job ended, and the preparation *)
(* that parallel revisions share is not shown as failed when none of them  *)
(* failed, nor as done when all of them did.                               *)
(***************************************************************************)
JobStepsTell ==
  (stream = "closed" /\ "error" \notin events) =>
    LET of(outcome) == {t \in Types : jobs[t] = outcome} IN
    /\ of("running") = {} /\ of("preparing") = {}
    /\ \A t \in Types : tracker[t] = CASE jobs[t] = "ready"  -> "success"
                                      [] jobs[t] = "failed" -> "failed"
                                      [] OTHER              -> "none"
    /\ (revises /\ of("failed") = {}) => tracker["artifact_revision_prepare"] = "success"
    /\ (revises /\ of("ready") = {}) => tracker["artifact_revision_prepare"] = "failed"

(***************************************************************************)
(* A client that has read to the end without an error knows what the       *)
(* thread waits for: an approval event for a review, the tokens of the     *)
(* question otherwise; and the context of a thread that waits was not      *)
(* compressed.                                                             *)
(***************************************************************************)
TeacherIsTold ==
  (stream = "closed" /\ "error" \notin events) =>
    /\ ("approval" \in events) <=> (pending \in Reviews)
    /\ pending = "interrupt_for_userinput" => "token" \in events
    /\ pending # None => tracker["context_compression"] = "none"

(***************************************************************************)
(* The end event is the last one of the queue: nothing that the client     *)
(* should have seen comes behind it, from whatever thread.                 *)
(***************************************************************************)
EndIsLast == [][(node = "end" /\ stream # "left") => UNCHANGED <<shown, events>>]_vars

(***************************************************************************)
(* The stream of every run comes to an end, whatever raises or is          *)
(* cancelled on the way.                                                   *)
(***************************************************************************)
StreamEnds == <>(stream # "open")

=============================================================================
