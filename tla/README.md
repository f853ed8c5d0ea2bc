# Verification of SmartClass-Agent-Backend

TLA+ models, TLC runs and TLAPS proofs for the backend under `src/app`: a
FastAPI service in which a teacher chats with a LangGraph agent that plans
lessons, generates teaching material (slides, lesson plans, HTML games) and
revises it, backed by a knowledge base, a long-term memory and checkpointed
conversations.

## 1. Inventory

The program is one asyncio process. Handlers and background tasks interleave
only at `await`; graph nodes written as plain functions run in executor
threads. PostgreSQL holds the rows, the LangGraph checkpoints, the long-term
memory and the vectors. Nothing uses row locks or version columns: sessions
read a row, await, and write it back (`expire_on_commit=False`; an attribute is
written only when it differs from what the session loaded).

| Component | Code | State | Operations | What is hard |
|---|---|---|---|---|
| Knowledge ingestion | `services/file_service.py`, `core/file_ingestion.py`, `api/file.py`, `core/rag.py` | rows with a status, stored objects, vector chunks, in-memory queue, one worker | upload, retry, delete, ONLYOFFICE save, worker loop, recovery at start | read-await-write races, loss of the queue at restart, deletes and failures half-way |
| Generated artifacts | `services/artifact_service.py`, `core/agent.py` (`_run_artifact_job`), `api/file.py` | artifact rows (status, lineage, `is_current`), stored outputs | create, revise, mark ready, mark failed, catalog, ONLYOFFICE save | three jobs in parallel, failures between commits, cancelled runs |
| Conversation graph | `core/graph.py` | LangGraph channels, pending interrupts | intent routing, follow-up questions, reviews, generation fan-out and fan-in, reflection | long protocols, loops through interrupts, flags left over from an interrupted turn |
| Turns and approvals | `api/chat.py`, `core/agent.py` (`stream_agent_events`, `validate_approval_request`) | per-thread lock, the run under it | validate an approval, wait, run a turn, cancel | check outside the lock, cancellation, duplicate answers |
| Code workspace, skill tools | `core/workspace.py`, `core/skills.py`, `core/agent.py` (nested agent) | the directory of a thread and type, active skills, sandboxes | prepare, load a skill, write, edit, run, collect, clean up | tool calls in parallel threads, threads that outlive a cancelled job, retries, exceptions half-way |
| Run events, video transcription | `core/agent.py` (`produce_events`), `core/progress.py`, `core/video_transcribe.py` | step statuses, the event queue of a run | every emission from the lock to the end event | several writers without a lock, threads that hand over through the loop, failure and cancellation anywhere |
| Long-term memory | `core/memory.py`, `api/memory.py`, memory nodes of `core/graph.py` | memory items | create, edit, delete, reflect, retrieve | read-modify-write without a transaction, a model call between listing and use |
| Chat attachments, sessions, plans | `services/file_service.py`, `session_service.py`, `plan_service.py`, `core/storage.py`, `api/` | sessions, attachment rows, stored objects, temporary files | upload, voice upload, look-up by content, chat, transcription | duplicates, failures between row, object and commit, a changed storage backend |
| Context compression | `core/context_compression.py`, `core/agent.py` | checkpointed message list | plan, summarise, replace | order and completeness of the list after repeated replacement |
| Database provider | `dependencies/db.py`, `main.py` | engines, checkpointer, store | lazy creation, close | double-checked initialisation |
| Users | `services/auth_service.py` | rows | register, log in | none of note (single statements) |
| LLM, speech, observability, evaluation, office documents | `core/llm.py`, `speech.py`, `observability.py`, `skills/` | caches, logs | calls to services, computations on files | I/O |

Interactions: `api/chat.py` runs a turn of the agent; the agent runs the graph;
graph nodes call RAG, memory and, for generation, `_run_artifact_job`, which
writes artifact rows and runs a nested agent in a workspace; after a turn the
agent may compress the thread's history; `api/file.py` feeds the ingestion
queue, whose worker fills the vector store that the graph's RAG node reads.

What makes each component correct:

- *Knowledge ingestion*: a file whose status asks for ingestion is never
  forgotten, what has settled agrees (status, vectors, content), a deletion is
  final, ingestion settles.
- *Generated artifacts*: one version of a type is ready and current, histories
  can be followed, the result told to the teacher is what the table says, an
  available version is not lost, a running row has somebody running it.
- *Conversation graph*: the dialogue follows its protocol, the fan-in reports on
  the right turn, no plan comes from incomplete metadata, every run ends or asks.
- *Turns and approvals*: one run per thread, no question dropped, an approval
  answers its own question, nobody waits for ever.
- *Context compression*: nothing is forgotten but by an empty answer or a summary
  that does not fit into the prompt, recent turns stay verbatim, the summary
  stands first and alone.
- *Code workspace*: what a job delivers it has made, no sandbox is left alone,
  no tool runs without its skill, an edit is not lost to another call.
- *Run events*: the stream ends, the end comes last, and what has been told is
  so: no step left running, the last progress event is the tracker's state, the
  pending question is known.
- *Long-term memory*: an edit is lost only to one that overlapped it, what was
  forgotten does not return by itself, a retrieval does not use its listing.
- *Chat attachments*: every row has its content, a successful upload has a row,
  duplicates have a known cause, no temporary file stays.

## 2. Plan

| Step | Modules | State |
|---|---|---|
| 1 | `KnowledgeIngestion` | modelled, checked, proved |
| 2 | `ArtifactLifecycle`, implementing `VersionHistory` (abstract) | modelled, checked, proved |
| 3 | `TeachingProtocol` (abstract), `ConversationGraph` implementing it | modelled, checked, proved |
| 4 | `ConversationTurns`, which composes the graph with its requests | modelled, checked, proved |
| 5 | `ContextCompression`, implementing `ThreadMemory` (abstract) | modelled, checked, proved |
| 6 | `WorkspaceExecution`: the jobs of a thread, their tool calls and sandboxes | modelled, checked, proved |
| 7 | `MemoryStore`: requests, reflections, retrievals | modelled, checked, proved |
| 8 | `RunEvents`: steps, event queue and video analysis of one run | modelled, checked, proved |
| 9 | `ChatAttachments`: uploads, look-up, chats, sessions | modelled, checked, proved |
| 10 | `ArtifactFanOut` (abstract), the contract between `ConversationGraph` and `ArtifactLifecycle`, implemented by both | checked, proved |

The theorems about a module `M` are in `M_proofs`, those about the graph and its
requests together in `Conversation_proofs`. A run asks several
questions of one component on one instance; a run of its own is made only where
the specification differs (with and without fairness) or the bounds do.

Still worth doing: an atomic file index that `KnowledgeIngestion` implements
between restarts; the memory items as registers that `MemoryStore` implements but
for the edits it excuses.

## 3. The modules

Every model takes the code between two awaits that matter as one action. Where
a session reads a row, awaits and commits, the model has two actions, and the
second writes what the first had read.

### KnowledgeIngestion

State: the rows (`status`, content hash), the stored content, the vectors, the
queue, the worker's position, the handlers in flight with what they loaded.
`Supported` are the rows whose extension can be indexed: any file is queued by an
upload or a retry and fails in the worker (`WorkerRead`) if it cannot, but a save
queues only what can (`SaveCommit`).
Actions: `Upload*`, `Retry*`, `Delete*`, `Save*` are the handlers of
`api/file.py` and `file_service.py` step by step; `Worker*` is
`process_file_ingestion`; `Crash` and `Recover` are stop and start of
`FileIngestionRuntime`. Any database call may raise.

### ArtifactLifecycle

State: the artifact table (`kind`, `status`, `current`, `parent`, `root`, `rev`,
`stored`), the turn and its `catalog`, one `job` per type with its `result`, the
ONLYOFFICE saves. `Insert`, `SetRoot`, `Produce`, `MarkReady`, `AgentFails`,
`MarkFailed` are the path of `_run_artifact_job`; `InsertError`, `ReadyError` and
`FailError` are a database call that raises before its commit takes effect, or in
the refresh behind it. An insertion that raises has returned no row, so that
`_run_artifact_job` has none to mark as failed; `Cancel` and `Restart` stop jobs where they stand, because
`CancelledError` passes by `except Exception`; the results of a fan-out that was
stopped reach no checkpoint, while an interrupt that waits outlives a restart with
its catalog. The history variables `lost` (rows whose job was stopped, or never
had them because the insertion raised behind a commit) and `orphans` (output stored, row not left
ready) name the exceptions the properties need, so that they are visible in the
statement and not hidden in the model.

### VersionHistory

What the ready rows are to whoever follows the versions of an artifact: a set of
versions with a fixed lineage. `Publish` adds the first version of a history or
one that continues a version of the set; `Retract` takes back a version that
nothing continues. `ArtifactLifecycle` implements it (`KeepsHistory`) with
`history <- Versions`, the lineages of its ready rows: a promotion, whichever of the
three places it comes from, publishes; the failure of a job whose own commit had
made its row ready retracts; everything else, the insertion of rows among it,
does not show.

### ArtifactFanOut

What the graph and the jobs expect of each other: a turn is offered a catalog
(`Offer`), fans out to some types, in a revision to types of the catalog, and
forgets their old results (`Start`); it hears of all jobs at once (`Settle`) or of
none (`Abort`). `ConversationGraph` implements it with one step for the whole fan-out
(`RunJobs`), `ArtifactLifecycle` with one job per type and as many steps as the jobs
take, database errors and cancellation among them; both have the property
`KeepsContract`. This is what joins the two models: that the graph may treat its
fan-out as one step is shown on the jobs and not assumed.

### TeachingProtocol and ConversationGraph

`ConversationGraph` has the node to run next (`at`), whether a run is under way,
the pending interrupt, and the state fields that route. One action is one
super-step. The six artifact nodes are the two nodes `generate` and `revise`
with the set `jobs` of scheduled types: LangGraph runs the nodes of a fan-out as
one super-step and writes their results together. `StopRun` is everything that
stops a run (a node raises, the client leaves, the process dies): the checkpoint
keeps the state of the finished nodes and no interrupt. What a model answers
(intent, completeness, targets) is chosen freely. Two history variables follow
what such a stop leaves behind: `stale`, that the goto in the checkpoint was set by
an earlier run, and `astray`, that such a goto has led a dialogue to the review.

`TeachingProtocol` is what a teacher may rely on: a turn is chatting, eliciting,
designing or targeting; the design comes after a confirmation; material comes
after a review; and so on. The graph implements it under the refinement mapping
`Protocol == INSTANCE TeachingProtocol WITH phase <- Phase`, where `Phase` groups
the nodes and the interrupts. `FollowsProtocol` is `Protocol!Spec`, but for the
one step `StaleGotoTaken`: a turn that was closing is taken up again at a question
or at the design (`Reopen`, which is no step of the protocol) by a stale goto.

### ConversationTurns

Extends the graph by the chat requests of its thread: `SendMessage` and
`SendApproval` are the handler up to the stream (an approval is validated
there), `Queue`, `Begin`, `GraphStep`, `Finish`, `Raise` the producer task and its
lock, `LeaveWaiting` and `LeaveRunning` a client that disconnects, `Restart` the
process. An approval is identified by the number of the input that led to its
interrupt. What the client is told of a run is `RunEvents`.

### WorkspaceExecution

The jobs of one thread and one artifact type follow one another in one directory.
State: the `stage` of the latest job, the `files` it can see with their last
writer (`by`) and the calls whose effect they hold (`has`), the files `changed`
since the snapshot, the `active` skills of the nested agent, the `calls`, and the
sandbox (`box`) of each attempt of each call. `StartJob`, `ClearWorkspace`,
`CopySource`, `SnapshotOutputs` are the preparation in `_run_artifact_job`;
`AskTools` is a message of tool calls checked against the skill policy,
`EndOfMessage` the update of `active_skills` behind it, `FinalAnswer` the look for
the output. A call runs in a thread: `LoadSkill`, `CheckAbsent`, `ReadText`,
`WriteText`, `Validate`, `ProgramWrites`, `ProgramEnds`, and for the Daytona backend
`CreateSandbox`, `UseSandbox`, `CollectOutputs`, `Cleanup`, each of which may raise
into the retry middleware (`Failing`). `StopJob` cancels the job and not the
threads: `Outlived` names their calls. `Restart` is the end of the process.

### MemoryStore

One namespace of the store: `store` by id, the ids that were `issued`, the
operations, and a `clock` that numbers their starts and ends. `BeginPut`, `Get`,
`Put` are `put_memory_item`, entered by `CreateMemory`, `UpdateMemory` and
`ReflectionAnswers`; `Reflect` lists before its model is asked; `Retrieve`,
`SelectionAnswers` and `Load` list, choose and read again. A text field is known by
the operation that wrote it, which is what tells a lost update. The store itself
is external: `Search` returns the items put last, up to the limit. An id that a
reflection's model names is taken to be one it was shown or one nobody ever had.

### RunEvents

One run of `produce_events` with its client. State: where the producer is
(`node`), what is left of the `request`, the jobs, the tool `threads` of the
attachment agent, the `callbacks` they have handed to the loop, the `tracker`, and
of the queue the last progress event (`shown`) and the kinds of the others. An
action is what runs between two awaits, with its emission. An emission from a
thread is three steps (`ThreadEmits`): update, snapshot, hand-over; `RunCallback` is
the loop. A tool of the attachment agent may raise (`MayRaise`), having told of its
failure, or, when the file of a skill cannot be read (`Unread`), having told
nothing; `ToolRetryMiddleware` then calls it once more (`Retry`) or makes the error
a message of the tool (`Accept`), and the run goes on. `unread` remembers that a
skill was given up so. `ExtractAudio` … `VideoAnalyzed` are `video_transcribe.py`. `Node`,
`Interrupt`, `Resume*` and `Job*` are the graph's nodes as far as they report: what
they do to the thread is `ConversationGraph` and `ArtifactLifecycle`. A run that
answers an interrupt begins at it, since a node is executed anew when it is
resumed. `ClientLeaves` cancels the producer wherever it waits.

### ChatAttachments

State: the storage `backend` in force, the `sessions`, the `rows`, the `objects`
of both backends, the temporary copies (`temps`), the `requests`. `BeginUpload`,
`Lookup`, `Insert`, `Commit`, `Transcribed` are the two upload routes,
`BeginChat` … `Analyzed` a chat with documents and videos, `CreateSession`,
`DeleteSession`, `DeletePlan` the handlers of sessions and plans. `DeletePlan` only
fails: `delete_plan_by_id` opens a transaction on a session that is in one
already. `Restart` may come back with another backend. `seen` is a history
variable: the rows that were there when the upload looked.

### ContextCompression

State: the messages channel and, as history, all messages ever added with what
the summaries cover, and those `forgotten`. `Turn` is any turn; `Compress` and
`CompressEmpty` are `_maybe_compress_thread_context`: plan, summary, replacement,
reducer. The prompt holds the first 3000 characters of each message, and an older
summary begins with a preface of up to 6000; whether its history is among them is
chosen freely for each summary (`read`), and `Covers` is what the new summary is
made from. With an empty answer it is made from nothing. The reducer `AddMessages` is LangGraph's and is modelled from its contract: per id
the last entry counts, ids that are in the list keep their place.

`ThreadMemory` is what the thread promises to remember: the messages that are read
verbatim and those behind a summary (`gist`). `Say` adds newer messages, `Condense`
moves an older part of the verbatim ones away, leaves exactly `KeepRecentTurns`
inputs of the teacher, and puts behind summaries no more than it moved and what was
there before. What is dropped on the way does not come back. The list implements it
(`KeepsMemory`): the `gist` is what its summaries were made from.

## 4. What the runs show

| Run | Instance | Shows |
|---|---|---|
| `KnowledgeSafety` | 2 files, one of them not to be indexed, 2 contents, 3 requests, 1 restart, database errors | `PendingIsCovered`, `SettledConsistent`, `DeletionIsFinal` |
| `KnowledgeLiveness` | 1 file, 1 content, 3 requests, 1 restart, database errors, fair | `IngestionSettles` |
| `ArtifactSafety` | 2 types, 3 rows, 1 save, database errors | `OneReadyCurrent`, `LineageSound`, `ResultsAreTrue`, `RunningIsOwned`, `ReadyIsNotLost`, `KeepsHistory`, `KeepsContract` |
| `ArtifactLiveness` | 2 types, 2 rows, 1 save, fair | `RunningSettles` |
| `GraphProtocol` | 2 types, 6 inputs, stops at every node, fair | `FanInReportsJobs`, `DesignHasMetadata`, `FollowsProtocol`, `KeepsContract`, `RunEnds` |
| `TurnsSafety` | 3 requests, 3 inputs, 2 types, stops at six nodes, the profile reflection among them, fair | `RunHasOwner`, `MisplacedLostARace`, `QuestionsAreAnswered`, `WaitersEnd` |
| `WorkspaceSafety` | 3 calls, 2 jobs, 2 attempts, a coding skill and another, both backends | `DeliveryWasMade`, `SandboxesAreOwned`, `ToolsWereAuthorised`, `EditsAreKept` |
| `MemorySafety` | 3 operations, 2 ids, both limits 1 | `EditsLast`, `RetrievalIsCurrent`, `ForgottenStaysForgotten` |
| `EventsSafety` | documents with two tools at once that report on two steps and are tried twice, two videos, no attachments, and an answer to each interrupt; 2 types; fair | `StepsAreSettled`, `ShownIsCurrent`, `JobStepsTell`, `TeacherIsTold`, `EndIsLast`, `StreamEnds` |
| `AttachmentSafety` | 3 requests, 2 threads, 2 rows, 2 contents, 2 backends | `RowsHaveContent`, `UploadsAreKept`, `DuplicatesHaveCause`, `TempFilesAreOwned` |
| `CompressionSafety` | 11 messages, 2 recent turns kept | `NothingElseForgotten`, `KeepsMemory` |
| `CompressionOrder` | 10 messages | violation of `SummaryFirst`: the summary stands last |

*Why the bounds are enough.* Two files let handlers of one file race with the
worker on the other; three requests are one more than any race of the code has
parties. Two artifact types give parallel jobs and a type that is left alone;
three rows are a version, its revision and a row of the other type, or three
versions of one. Six inputs take a thread through question, answer, review,
generation, revision and one turn more, with a stop at any node. Three requests of a thread are a holder and two that race for
what it leaves. Three tool calls are the skill that authorises and two that meet
in a file; two jobs are one that was stopped and the one its threads disturb; two
attempts are a call and its retry. Three memory operations are an edit and two
that may lose it, or a deletion, a retrieval and a writer between; with a limit of
one and two ids a listing leaves something out. In `EventsSafety` two threads
are enough to hand over snapshots in the wrong order, two videos to show a step
that begins again; the code retries a tool three times, and one retry shows a step
begun anew after a failure told or untold. A third step of a tool differs from
the others in name only, and preparation and execution of code report alike. Three attachment requests are two uploads that miss each
other and the one that fails on both, or an upload, a chat that uses it and a
third party. Eleven messages give four compressions with two turns kept, the
last two of which condense older summaries.
Symmetric sets are declared so in the safety runs without fairness; runs with
liveness properties use no symmetry. `CHECK_DEADLOCK FALSE` is set where the
bounded number of requests or inputs, or the end of a run, lets the model stop.

*What the violation means.* The compressed context does not stand first, as the
tests of the compression say it does; falling behind the next cutoff, it is kept
verbatim beside the next one until as many turns as are kept have passed, so that
at most `KeepRecentTurns` summaries stand side by side. Those tests look at the
update, not at the list the reducer makes of it.

*Exceptions in the properties.* Where the code allows something that a reader
would not expect, the property that holds names it:

- `DeletionIsFinal` excuses a `StaleWriter`: `retry_file` refuses a deleted file,
  but one that loaded the row before the delete committed revives it
  (`file_service.py:686`). `SettledConsistent` names such files `raced`.
- `MisplacedLostARace`: the approval is validated outside the lock
  (`agent.py:1112`), so it may answer a later question than its own, but only when
  another request has taken its own.
- `DuplicatesHaveCause`: `scalar_one_or_none` raises on two rows of one content,
  which two uploads at the same time make, as they do in the knowledge base
  (`file_service.py:273` and `:311`); for attachments a recording whose content is
  there as a document is the second way.
- `EditsAreKept` excuses a writer that overlaps the last writer of the file: calls
  of one message, or of a job that was stopped while its threads went on.
- `EditsLast` excuses an operation on the same memory that overlapped the edit.
- `StepsAreSettled` excuses three steps that the code leaves "running": the review of
  the metadata that was answered with a change (`graph.py:763`), the transcription
  of a video whose audio could not be extracted, and the load of a skill whose file
  could not be read (`skills.py:455` catches `SkillValidationError` only).
- `NothingElseForgotten` excuses what a compression loses: all that it condenses when
  the answer is empty (`context_compression.py:319`), and what stood behind an older
  summary whose history was cut out of the prompt (`:268`).
- `RunningIsOwned` and `RunningSettles` excuse rows that nobody holds (`lost`): their
  job was stopped, or their insertion raised in the refresh behind its last commit
  (`artifact_service.py:334`, `:339`), which leaves `artifact_record` unset.

*A stale goto.* A run that stops at `profile_memory_reflection_node` leaves
`memory_reflection_goto` in the checkpoint. If the next turn is a revision, whose
fan-in does not set it, its own reflection finds that goto and sends the turn to
the plan review or to a question (`graph.py:921`). `FollowsProtocol` names this
step (`StaleGotoTaken`) and `DesignHasMetadata` what comes of it (`astray`); no stop is
left out of the runs or of the proofs. No document speaks of stopped runs, so this
is stated in the properties and is not a finding.

## 5. Fairness

- `KnowledgeIngestion`: the worker and the handlers take their next step (one
  event loop, every call returns or raises), and a stopped process is started
  again. Crashes and requests owe nothing.
- `ArtifactLifecycle`: `WF` of each job: the nested agent has a limit of
  iterations, tools and model calls have time limits. Turns, saves, cancellation
  and restarts owe nothing.
- `ConversationGraph`: `WF` of a run's steps, for the same reason. The teacher owes
  no answer, so `RunEnds` ends in a question as well.
- `ConversationTurns`: `WF` of the graph's steps and of each request's own steps:
  `asyncio.Lock` wakes its waiters in order. Weak fairness is enough because a
  request that is first in the queue of a free lock stays so until it moves or
  its client leaves.
- `RunEvents`: `WF` of the producer, of the loop's callbacks, of the reader and of
  each tool thread. The client that leaves owes nothing.

The other specifications have safety properties only and state no fairness.

## 6. What is proved

All theorems hold for every value of the constants that satisfies the
assumptions named in the modules: a bound is a natural number, the stop nodes are
nodes, `None` is no member of the sets it stands beside (`NoneAssumption`,
`RowAssumption`, `FileAssumption`, `ItemAssumption`, …), the requests of a run are
requests, and its names are apart (`NamesAssumption`: an artifact type is no other
step, a thread no snapshot). The type invariants are proved (`TypeCorrect`,
`TurnsTypeCorrect`, `CompressionTypeCorrect`) and not listed in a run; so is
`RecentStays`, which `KeepsMemory` implies and the induction needs.

- `KnowledgeIngestion_proofs`: `TypeCorrect`, `PendingAlwaysCovered`,
  `DeletionFinal`, `SettledAgree`. Coverage is not inductive alone: the
  strengthening (`IInv`) says who holds which file between a commit and its queue
  entry. For `SettledAgree` it says more: a file that is being deleted has no other
  writer (`DeletesAlone`), a delete goes through its points (`DeletesProceed`), the
  content the worker has read is the stored one or a later pass is certain
  (`PassIsFresh`; the pass that a save promises is certain because only a file that
  can be indexed is read or ready, `OnlySupported`), and so a ready file is indexed with what is stored, or a pass or
  a delete is under way (`ReadyIsIndexed`).
- `ArtifactLifecycle_proofs`: `IInv` is inductive (`InvariantHolds`), and
  `OneVersionShown`, `HistoriesSound`, `ReportsTrue`, `NoSilentRunner` and
  `AvailableStays` follow. The strengthening: the table is filled in the order of
  its ids, so that an inserted row is referred to by nobody; jobs run within a
  turn, own their rows and are done with an outcome (`Outcomes`); the catalog names
  ready rows; a root is a first version, and a first version its own root
  (`FirstIsRoot`). Two refinements rest on it. `HistoryKept`: a row that becomes
  ready is published because its lineage is sound by then, and a row that is
  failed is its job's own, which nothing continues (`JobsOwn`). `OriginsStay` is
  derived from the promise of `VersionHistory` alone: the first version of every
  history is still ready, although no step of the table looks at it; the version
  with the least id that does not lead to its origin would have a predecessor
  that does. `JobsKeepContract`: the steps of single jobs do not show, and the end
  of the fan-out shows all outcomes or none.
- `Conversation_proofs`, the graph: `TypeCorrect`, `FanInRight` (invariant: at the
  nodes that fan out, the reported types are the scheduled ones),
  `DesignBehindMetadata` (invariant: a goto that names the review follows a plan,
  unless it was left behind), `ProtocolKept` (a goto is in hand only at the profile
  reflection or is stale, and every step of the graph is a step of the protocol,
  none, or the one that takes a stale goto, wherever runs stop), `GraphKeepsContract` and, from the contract,
  `NoStaleResult`: while jobs are under way the state holds no result of theirs.
- `Conversation_proofs`, the requests: `TurnsTypeCorrect` (the queue of the lock is
  the set of those that wait, each once, whoever leaves it), `OneRunPerThread`,
  `NoQuestionDropped`, `MisplacedOnlyByRace`. Every step is first reduced to its
  effect on requests and interrupt (`StepEffect`); the invariant says that the
  interrupt of an approval under way still waits or was taken by a request. Every
  step of the requests is one of the graph or none, so the requests implement the
  graph (`RequestsKeepGraph`) and inherit what it keeps: `RequestsKeepProtocol`,
  `RequestsKeepContract`.
- `ContextCompression_proofs`: `CompressionTypeCorrect`, `NothingElseIsForgotten`,
  `RecentTurnsStay`, `MemoryKept` and, from the promise of `ThreadMemory`,
  `OlderIsCondensed`. The inductive invariant adds to `NothingElseForgotten` and
  `RecentStays` that the list is in the order in which its messages were added, that
  a summary covers only what was there before it, and that no two summaries of the
  list, nor a summary and the list, cover the same (`Apart`): what one loses, no
  other still has. The lemmas before it say what the model's helpers return
  for every list: the selected places come in order (`SelectNext`, `OnlyIncreasing`),
  the cutoff leaves exactly the recent inputs behind it (`CountedOff`,
  `CutoffPlaces`), the reducer keeps of the list what was retained and adds the
  summary (`Replaced`). What is recursive in them is proved by the least
  counterexample (`LeastElement`, `UpTo`), since the induction theorems of the
  library take an operator.
- `WorkspaceExecution_proofs`: `TypeCorrect`, `SandboxesOwned`, `ToolsAuthorised`,
  `DeliveriesMade`, `EditsKept`. The invariants underneath: a call at work is of the
  latest message of the latest job or has outlived its job; an active skill was
  loaded by an earlier message of this job; a file that differs from the snapshot
  was written by a call of this job or by one that outlived its own; what an
  editing call has read is contained in the file, unless the file's last writer
  overlaps the call.
- `MemoryStore_proofs`: `TypeCorrect`, `EditsKept`, `ForgottenStays`,
  `RetrievalCurrent`. Starts and ends are ordered by the clock, ids in use are
  issued, and a written field is in the store, excused, or in what an operation at
  work has read since.
- `RunEvents_proofs`: `TypeCorrect`, `ShownCurrent`, `EndLast`, `StepsSettled`,
  `JobsTold`, `TeacherTold`. A callback belongs to a thread at work (`CallInv`), so
  when the threads are idle the loop owes nothing; the tracker and what is shown
  differ only while the tools are awaited (`QuietInv`); a running step of the tools
  has a thread at work on it or was given up (`ToolInv`). Then (`RunInv`) a running
  step belongs to the node at work, to a review that waits or to an exception
  (`StepInv`), the steps of jobs follow the jobs (`JobInv`), and the client knows the
  pending question (`TellInv`).
- `ChatAttachments_proofs`: `TypeCorrect`, `ContentKept`, `UploadsKept`,
  `DuplicatesExplained`, `TempFilesOwned`. The invariant relates each request to
  the row it has made and the row to its object, and says that a request that
  has looked knows the committed rows of its time.

Only model-checked: the five liveness properties (`IngestionSettles`,
`RunningSettles`, `RunEnds`, `WaitersEnd`, `StreamEnds`), since fairness is out of the
prover's reach, and the violation of `SummaryFirst`. Every safety invariant, action
property and refinement that a run checks is stated by a theorem.

## 7. What is not modelled

- Texts, prompts, scores and file contents; reading and listing; logging, metrics
  and evaluation: no property depends on them. What a model answers is chosen
  freely where it is asked.
- Users and tokens: single statements on a table with a unique name.
- The pools, checkpointer and store of `dependencies/db.py` and the start-up of
  `main.py`, but for the recovery of pending files: created once before the
  first request is served, closed after the last.
- The office documents that skills' scripts rewrite: computations without state.
- A changed `FILE_STORAGE_ROOT`: a restart of `ChatAttachments` may change the backend
  that new objects are put to, not the directory the local one reads.
- Several processes of the service: the thread lock and the ingestion queue live
  in one process, and so do the models.
