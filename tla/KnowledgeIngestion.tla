------------------------- MODULE KnowledgeIngestion -------------------------
(***************************************************************************)
(* The life of knowledge files: the upload, retry, delete and ONLYOFFICE   *)
(* save handlers (app/api/file.py, app/services/file_service.py), the      *)
(* single ingestion worker and its FIFO queue (app/core/file_ingestion.py) *)
(* and the vector store (app/core/rag.py), for the files of one plan of    *)
(* one user.                                                               *)
(*                                                                         *)
(* All of it is asyncio code in one process, so an action is the stretch   *)
(* of code between two suspension points: a database commit, a refresh, a  *)
(* vector-store call.  Code that never suspends (put_bytes, the download   *)
(* of a saved document, the parsing of a file, put on an unbounded queue)  *)
(* belongs to the stretch around it.  A restart loses the queue, the       *)
(* worker and the requests in flight; the rows, objects and vectors stay.  *)
(***************************************************************************)
EXTENDS Naturals, Sequences, FiniteSets

CONSTANTS
  MaxFiles,    \* rows the table can take (bounds the model)
  Supported,   \* the rows whose file extension the ingestion can read
  Contents,    \* document contents; the SHA-256 of a content is the content
  None,        \* no content
  Requests,    \* HTTP requests, each issued at most once (bounds the model)
  MaxCrashes,  \* restarts of the process (bounds the model)
  DbMayFail    \* whether a commit, refresh or vector-store call may raise

ASSUME FilesAssumption == MaxFiles \in Nat
ASSUME SupportedAssumption == Supported \subseteq 1 .. MaxFiles
ASSUME NoneAssumption  == None \notin Contents
ASSUME CrashAssumption == MaxCrashes \in Nat
ASSUME DbAssumption    == DbMayFail \in BOOLEAN

VARIABLES
  status,    \* KnowledgeFile.status of each id; "none" before its row exists
  sha,       \* KnowledgeFile.sha256
  object,    \* what the storage backend holds under the file's key
  chunks,    \* contents with chunks of this file in the vector store
  queue,     \* FileIngestionRuntime._queue
  worker,    \* the _worker_loop task
  req,       \* the request handlers
  nextId,    \* the table's id sequence
  up,        \* the process is running
  crashes,   \* restarts so far
  torn,      \* history: files whose delete or save was cut short half-way
  dropped,   \* history: files whose ingestion was lost before it was done
  raced      \* history: files a delete shared with another writer

rows    == <<status, sha, nextId>>
history == <<torn, dropped, raced>>
process == <<up, crashes>>
vars    == <<status, sha, object, chunks, queue, worker, req, nextId,
             up, crashes, torn, dropped, raced>>

\* The ids, in the order the table hands them out.
Files == 1 .. MaxFiles

Active   == {"uploaded", "indexing", "ready"}
Statuses == Active \cup {"failed", "deleted"}

IdleWorker == [pc |-> "idle", file |-> 0, seen |-> "none", content |-> None]
NewRequest == [pc |-> "new", file |-> 0, seen |-> "none", content |-> None]

WorkerPcs  == {"idle", "mark", "read", "purge", "add", "ready", "fail"}
RequestPcs == {"new", "done", "rejected", "conflict", "error",
               "insert", "uploadCommit", "uploadEnqueue",
               "retryCommit", "saveCommit", "enqueue",
               "purge", "deleteCommit", "deleteObject"}
Ended      == {"new", "done", "rejected", "conflict", "error"}

Request == [pc : RequestPcs, file : Files \cup {0}, seen : Statuses \cup {"none"},
            content : Contents \cup {None}]
Worker  == [pc : WorkerPcs, file : Files \cup {0}, seen : Statuses \cup {"none"},
            content : Contents \cup {None}]

\* The fields a handler, or the worker, relies on are set.
RequestOK(q) ==
  /\ q.pc \notin Ended \cup {"insert"} => q.file \in Files
  /\ q.pc \in {"insert", "uploadCommit", "saveCommit"} => q.content \in Contents

WorkerOK(w) ==
  /\ w.pc # "idle" => w.file \in Files
  /\ w.pc \in {"purge", "add"} => w.content \in Contents

(***************************************************************************)
(* Every field is well typed.                                              *)
(***************************************************************************)
RowsType    == /\ status \in [Files -> Statuses \cup {"none"}]
               /\ sha    \in [Files -> Contents \cup {None}]
               /\ nextId \in Nat \ {0}
StoresType  == /\ object \in [Files -> Contents \cup {None}]
               /\ chunks \in [Files -> SUBSET Contents]
QueueType   == queue \in Seq(Files)
WorkerType  == worker \in Worker /\ WorkerOK(worker)
RequestType == req \in [Requests -> Request] /\ \A r \in Requests : RequestOK(req[r])
ProcessType == up \in BOOLEAN /\ crashes \in 0 .. MaxCrashes
HistoryType == /\ torn    \in SUBSET Files
               /\ dropped \in SUBSET Files
               /\ raced   \in SUBSET Files

TypeOK == /\ RowsType /\ StoresType /\ QueueType /\ WorkerType /\ RequestType
          /\ ProcessType /\ HistoryType

-----------------------------------------------------------------------------
(* What the database session and the handlers have in common.             *)

\* SQLAlchemy writes an attribute only when it differs from the value the
\* session loaded: assigning the status it has seen leaves the row as it is.
Written(seen, new, current) == IF seen = new THEN current ELSE new

\* get_existing_file_by_hash: the active rows with this content's hash.
SameHash(c) == {f \in Files : sha[f] = c /\ status[f] \in Active}

Queued(f)   == \E i \in DOMAIN queue : queue[i] = f
Ingesting(f) == worker.pc # "idle" /\ worker.file = f
InFlight(f) == \E r \in Requests : req[r].pc \notin Ended /\ req[r].file = f
Deleting(f) == \E r \in Requests :
                 /\ req[r].pc \in {"purge", "deleteCommit", "deleteObject"}
                 /\ req[r].file = f

\* A writer that loaded f and will still write its status.
StaleWriter(f) ==
  \/ Ingesting(f)
  \/ \E r \in Requests : /\ req[r].pc \in {"retryCommit", "saveCommit"}
                         /\ req[r].file = f

\* f is about to have a delete and such a writer at the same time if `other`.
Overlap(f, other) == raced' = raced \cup {g \in {f} : other}

Goto(r, p)  == req' = [req EXCEPT ![r].pc = p]

-----------------------------------------------------------------------------
(* POST /file/knowledgeFile/upload                                         *)

\* create_file_from_upload up to get_existing_file_by_hash.  More than one
\* match makes scalar_one_or_none raise; one match is returned, and queued
\* again if its status is still "uploaded".
UploadLookup(r, c) ==
  /\ up
  /\ req[r].pc = "new"
  /\ \/ /\ SameHash(c) = {}
        /\ req' = [req EXCEPT ![r].pc = "insert", ![r].content = c]
        /\ UNCHANGED queue
     \/ \E f \in Files :
          /\ SameHash(c) = {f}
          /\ Goto(r, "done")
          /\ queue' = IF status[f] = "uploaded" THEN Append(queue, f) ELSE queue
     \/ /\ \E f, g \in SameHash(c) : f # g
        /\ Goto(r, "conflict")
        /\ UNCHANGED queue
  /\ UNCHANGED <<rows, object, chunks, worker, process, history>>

\* flush hands out the id, then the content is stored under its key.
UploadInsert(r) ==
  /\ up
  /\ req[r].pc = "insert"
  /\ nextId \in Files
  /\ req' = [req EXCEPT ![r].pc = "uploadCommit", ![r].file = nextId]
  /\ object' = [object EXCEPT ![nextId] = req[r].content]
  /\ nextId' = nextId + 1
  /\ UNCHANGED <<status, sha, chunks, queue, worker, process, history>>

\* The row becomes visible.
UploadCommit(r) ==
  /\ up
  /\ req[r].pc = "uploadCommit"
  /\ status' = [status EXCEPT ![req[r].file] = "uploaded"]
  /\ sha' = [sha EXCEPT ![req[r].file] = req[r].content]
  /\ Goto(r, "uploadEnqueue")
  /\ UNCHANGED <<nextId, object, chunks, queue, worker, process, history>>

\* refresh, then queue the file if it is (still) "uploaded".
UploadEnqueue(r) ==
  /\ up
  /\ req[r].pc = "uploadEnqueue"
  /\ queue' = IF status[req[r].file] = "uploaded"
                THEN Append(queue, req[r].file) ELSE queue
  /\ Goto(r, "done")
  /\ UNCHANGED <<rows, object, chunks, worker, process, history>>

-----------------------------------------------------------------------------
(* POST /file/{file_id}/retry                                              *)

RetryLoad(r, f) ==
  /\ up
  /\ req[r].pc = "new"
  /\ status[f] # "none"
  /\ req' = [req EXCEPT ![r] =
       [@ EXCEPT !.pc = IF status[f] = "deleted" THEN "rejected" ELSE "retryCommit",
                 !.file = f, !.seen = status[f]]]
  /\ Overlap(f, status[f] # "deleted" /\ Deleting(f))
  /\ UNCHANGED <<rows, object, chunks, queue, worker, process, torn, dropped>>

RetryCommit(r) ==
  /\ up
  /\ req[r].pc = "retryCommit"
  /\ status' = [status EXCEPT ![req[r].file] = Written(req[r].seen, "uploaded", @)]
  /\ Goto(r, "enqueue")
  /\ UNCHANGED <<sha, nextId, object, chunks, queue, worker, process, history>>

\* Mutant: a file the worker has in hand is not queued once more.
EnqueueUnlessIngesting(r) ==
  /\ up
  /\ req[r].pc = "enqueue"
  /\ queue' = IF Ingesting(req[r].file) THEN queue ELSE Append(queue, req[r].file)
  /\ Goto(r, "done")
  /\ UNCHANGED <<rows, object, chunks, worker, process, history>>

\* refresh, then queue the file whatever its status is by now.
Enqueue(r) ==
  /\ up
  /\ req[r].pc = "enqueue"
  /\ queue' = Append(queue, req[r].file)
  /\ Goto(r, "done")
  /\ UNCHANGED <<rows, object, chunks, worker, process, history>>

-----------------------------------------------------------------------------
(* POST /file/callback: ONLYOFFICE saves an edited document                *)

\* Load the row (a deleted file is not found), download the document and
\* overwrite the stored object: no suspension between the three.
SaveObject(r, f, c) ==
  /\ up
  /\ req[r].pc = "new"
  /\ status[f] \in Statuses \ {"deleted"}
  /\ object' = [object EXCEPT ![f] = c]
  /\ req' = [req EXCEPT ![r] = [pc |-> "saveCommit", file |-> f,
                                seen |-> status[f], content |-> c]]
  /\ Overlap(f, Deleting(f))
  /\ UNCHANGED <<rows, chunks, queue, worker, process, torn, dropped>>

\* A file that cannot be indexed keeps its status and is not queued.
SaveCommit(r) ==
  /\ up
  /\ req[r].pc = "saveCommit"
  /\ sha' = [sha EXCEPT ![req[r].file] = req[r].content]
  /\ \/ /\ req[r].file \in Supported
        /\ status' = [status EXCEPT ![req[r].file] = Written(req[r].seen, "uploaded", @)]
        /\ Goto(r, "enqueue")
     \/ /\ req[r].file \notin Supported
        /\ Goto(r, "done")
        /\ UNCHANGED status
  /\ UNCHANGED <<nextId, object, chunks, queue, worker, process, history>>

-----------------------------------------------------------------------------
(* DELETE /file/{file_id}                                                  *)

DeleteLoad(r, f) ==
  /\ up
  /\ req[r].pc = "new"
  /\ status[f] # "none"
  /\ req' = [req EXCEPT ![r] =
       [@ EXCEPT !.pc = "purge", !.file = f, !.seen = status[f]]]
  /\ Overlap(f, StaleWriter(f))
  /\ UNCHANGED <<rows, object, chunks, queue, worker, process, torn, dropped>>

\* rag_runtime.delete_by_file_id, in a transaction of its own.
DeletePurge(r) ==
  /\ up
  /\ req[r].pc = "purge"
  /\ chunks' = [chunks EXCEPT ![req[r].file] = {}]
  /\ Goto(r, "deleteCommit")
  /\ UNCHANGED <<rows, object, queue, worker, process, history>>

\* mark_file_deleted
DeleteCommit(r) ==
  /\ up
  /\ req[r].pc = "deleteCommit"
  /\ status' = [status EXCEPT ![req[r].file] = Written(req[r].seen, "deleted", @)]
  /\ Goto(r, "deleteObject")
  /\ UNCHANGED <<sha, nextId, object, chunks, queue, worker, process, history>>

DeleteObject(r) ==
  /\ up
  /\ req[r].pc = "deleteObject"
  /\ object' = [object EXCEPT ![req[r].file] = None]
  /\ Goto(r, "done")
  /\ UNCHANGED <<rows, chunks, queue, worker, process, history>>

-----------------------------------------------------------------------------
(* The worker: _worker_loop and process_file_ingestion                     *)

\* Mutant: the dequeued file's status is not looked at.
WorkerTakeUnchecked ==
  /\ up
  /\ worker.pc = "idle"
  /\ queue # <<>>
  /\ queue' = Tail(queue)
  /\ worker' = [IdleWorker EXCEPT !.pc = "mark", !.file = Head(queue),
                                  !.seen = status[Head(queue)]]
  /\ Overlap(Head(queue), Deleting(Head(queue)))
  /\ UNCHANGED <<rows, object, chunks, req, process, torn, dropped>>

\* Dequeue and load.  Handlers only append, so the dequeue commutes with
\* whatever runs before the load returns.
WorkerTake ==
  /\ up
  /\ worker.pc = "idle"
  /\ queue # <<>>
  /\ queue' = Tail(queue)
  /\ LET f == Head(queue)
     IN IF status[f] \in {"none", "deleted"}
          THEN UNCHANGED <<worker, raced>>
          ELSE /\ worker' = [IdleWorker EXCEPT !.pc = "mark", !.file = f,
                                               !.seen = status[f]]
               /\ Overlap(f, Deleting(f))
  /\ UNCHANGED <<rows, object, chunks, req, process, torn, dropped>>

\* mark_file_indexing
WorkerMark ==
  /\ up
  /\ worker.pc = "mark"
  /\ status' = [status EXCEPT ![worker.file] = Written(worker.seen, "indexing", @)]
  /\ worker' = [worker EXCEPT !.pc = "read"]
  /\ UNCHANGED <<sha, nextId, object, chunks, queue, req, process, history>>

\* The extension must be a supported one and the object must exist; it is
\* copied, loaded and split in one stretch.
\* Any content may turn out to be unreadable.
WorkerRead ==
  /\ up
  /\ worker.pc = "read"
  /\ \/ /\ worker.file \in Supported
        /\ object[worker.file] # None
        /\ worker' = [worker EXCEPT !.pc = "purge", !.content = object[worker.file]]
     \/ worker' = [worker EXCEPT !.pc = "fail"]
  /\ UNCHANGED <<rows, object, chunks, queue, req, process, history>>

\* rag_runtime.delete_by_file_id before the new chunks go in.
WorkerPurge ==
  /\ up
  /\ worker.pc = "purge"
  /\ chunks' = [chunks EXCEPT ![worker.file] = {}]
  /\ worker' = [worker EXCEPT !.pc = "add"]
  /\ UNCHANGED <<rows, object, queue, req, process, history>>

\* rag_runtime.add_documents embeds and inserts; when it raises, none or
\* some of the chunks are in.
WorkerAdd ==
  /\ up
  /\ worker.pc = "add"
  /\ \/ /\ chunks' = [chunks EXCEPT ![worker.file] = @ \cup {worker.content}]
        /\ worker' = [worker EXCEPT !.pc = "ready"]
     \/ /\ \E some \in SUBSET {worker.content} :
             chunks' = [chunks EXCEPT ![worker.file] = @ \cup some]
        /\ worker' = [worker EXCEPT !.pc = "fail"]
  /\ UNCHANGED <<rows, object, queue, req, process, history>>

\* mark_file_ready.  The status the session refreshed after mark_file_indexing
\* is never "ready", which only the worker writes: the row is always written.
WorkerReady ==
  /\ up
  /\ worker.pc = "ready"
  /\ status' = [status EXCEPT ![worker.file] = "ready"]
  /\ worker' = IdleWorker
  /\ UNCHANGED <<sha, nextId, object, chunks, queue, req, process, history>>

\* Mutant: the except clause only reports the error.
WorkerFailSilently ==
  /\ up
  /\ worker.pc = "fail"
  /\ worker' = IdleWorker
  /\ UNCHANGED <<rows, object, chunks, queue, req, process, history>>

\* The except clause: mark_file_failed, then back to the loop.
WorkerFail ==
  /\ up
  /\ worker.pc = "fail"
  /\ status' = [status EXCEPT ![worker.file] = "failed"]
  /\ worker' = IdleWorker
  /\ UNCHANGED <<sha, nextId, object, chunks, queue, req, process, history>>

-----------------------------------------------------------------------------
(* Database errors and restarts                                            *)

\* A delete or save of f that has done something but not everything.
HalfDone(r, f) ==
  req[r].file = f /\ req[r].pc \in {"saveCommit", "deleteCommit", "deleteObject"}

\* A handler that has committed and is about to queue f.
AboutToQueue(r, f) ==
  req[r].file = f /\ req[r].pc \in {"uploadEnqueue", "enqueue"}

\* A commit or refresh of a handler raises: the request answers 500 and
\* whatever it had left to do is not done.
RequestDbError(r) ==
  /\ up
  /\ DbMayFail
  /\ req[r].pc \notin Ended
  /\ Goto(r, "error")
  /\ torn' = torn \cup {f \in Files : HalfDone(r, f)}
  /\ dropped' = dropped \cup {f \in Files : AboutToQueue(r, f)}
  /\ UNCHANGED <<rows, object, chunks, queue, worker, process, raced>>

\* mark_file_indexing or mark_file_failed raises out of
\* process_file_ingestion: the loop prints it and goes on to the next file.
\* A vector-store error or a failed mark_file_ready is caught: mark as failed
\* (a refresh that raises after the commit of "ready" counts as the commit).
WorkerDbError ==
  /\ up
  /\ DbMayFail
  /\ \/ /\ worker.pc \in {"mark", "read", "fail"}
        /\ worker' = IdleWorker
        /\ dropped' = dropped \cup {worker.file}
     \/ /\ worker.pc \in {"purge", "ready"}
        /\ worker' = [worker EXCEPT !.pc = "fail"]
        /\ UNCHANGED dropped
  /\ UNCHANGED <<rows, object, chunks, queue, req, process, torn, raced>>

\* The process stops: the queue, the worker and the requests are gone.  A
\* "ready" file queued once more (its old content was finished after the save
\* of a new one) is among the losses: its status does not ask for recovery.
Crash ==
  /\ up
  /\ crashes < MaxCrashes
  /\ up' = FALSE
  /\ crashes' = crashes + 1
  /\ queue' = <<>>
  /\ worker' = IdleWorker
  /\ req' = [r \in Requests |->
               IF req[r].pc \in Ended THEN req[r]
               ELSE [req[r] EXCEPT !.pc = "error"]]
  /\ torn' = torn \cup {f \in Files : \E r \in Requests : HalfDone(r, f)}
  /\ dropped' = dropped \cup
       {f \in Files : \/ Queued(f) \/ Ingesting(f)
                      \/ \E r \in Requests : AboutToQueue(r, f)}
  /\ UNCHANGED <<rows, object, chunks, raced>>

Recoverable == {f \in Files : status[f] \in {"uploaded", "indexing"}}

Ascending(q) == \A i, j \in DOMAIN q : i < j => q[i] < q[j]

\* Mutant: an "indexing" row is reset but its id is not collected.
RecoverUploadedOnly ==
  /\ ~up
  /\ up' = TRUE
  /\ status' = [f \in Files |-> IF f \in Recoverable THEN "uploaded" ELSE status[f]]
  /\ LET Collected == {f \in Recoverable : status[f] = "uploaded"}
     IN \E q \in [1 .. Cardinality(Collected) -> Collected] :
          /\ Ascending(q)
          /\ \A f \in Collected : \E i \in DOMAIN q : q[i] = f
          /\ queue' = q
  /\ dropped' = dropped \ Recoverable
  /\ UNCHANGED <<sha, nextId, object, chunks, worker, req, crashes, torn, raced>>

\* start(): get_recoverable_file_ids resets "indexing" to "uploaded" and
\* every recoverable id is queued in ascending order before the worker task.
Recover ==
  /\ ~up
  /\ up' = TRUE
  /\ status' = [f \in Files |-> IF f \in Recoverable THEN "uploaded" ELSE status[f]]
  /\ \E q \in [1 .. Cardinality(Recoverable) -> Recoverable] :
       /\ Ascending(q)
       /\ \A f \in Recoverable : \E i \in DOMAIN q : q[i] = f
       /\ queue' = q
  /\ dropped' = dropped \ Recoverable
  /\ UNCHANGED <<sha, nextId, object, chunks, worker, req, crashes, torn, raced>>

-----------------------------------------------------------------------------
(* The specification                                                       *)

Init ==
  /\ status = [f \in Files |-> "none"]
  /\ sha    = [f \in Files |-> None]
  /\ object = [f \in Files |-> None]
  /\ chunks = [f \in Files |-> {}]
  /\ queue  = <<>>
  /\ worker = IdleWorker
  /\ req    = [r \in Requests |-> NewRequest]
  /\ nextId = 1
  /\ up = TRUE
  /\ crashes = 0
  /\ torn = {}
  /\ dropped = {}
  /\ raced = {}

\* A request arrives.
Arrive(r) ==
  \/ \E c \in Contents : UploadLookup(r, c)
  \/ \E f \in Files : RetryLoad(r, f) \/ DeleteLoad(r, f)
  \/ \E f \in Files, c \in Contents : SaveObject(r, f, c)

\* A handler resumes after an await.
Continue(r) ==
  \/ UploadInsert(r) \/ UploadCommit(r) \/ UploadEnqueue(r)
  \/ RetryCommit(r) \/ SaveCommit(r) \/ Enqueue(r)
  \/ DeletePurge(r) \/ DeleteCommit(r) \/ DeleteObject(r)

Work == \/ WorkerTake \/ WorkerMark \/ WorkerRead \/ WorkerPurge
        \/ WorkerAdd \/ WorkerReady \/ WorkerFail

Next ==
  \/ \E r \in Requests : Arrive(r) \/ Continue(r) \/ RequestDbError(r)
  \/ Work \/ WorkerDbError
  \/ Crash \/ Recover

Spec == Init /\ [][Next]_vars

\* asyncio resumes every task whose await completed, the database answers,
\* and the process is started again after a crash.  Nobody has to send a
\* request, and nothing has to fail.
Fairness ==
  /\ \A r \in Requests : WF_vars(Continue(r))
  /\ WF_vars(Work)
  /\ WF_vars(Recover)

FairSpec == Spec /\ Fairness

-----------------------------------------------------------------------------
(* Properties                                                              *)

\* Nothing will touch f unless a new request for it arrives.
AtRest(f) == up /\ ~Queued(f) /\ ~Ingesting(f) /\ ~InFlight(f)

(***************************************************************************)
(* Work is never forgotten: while the process runs, a file whose status    *)
(* says that ingestion is still to come is in the queue, in the worker's   *)
(* hands, or known to a handler that is about to queue it -- whatever      *)
(* uploads, retries, saves, deletes and restarts interleave.  A database   *)
(* error may drop it, but not past the next start.                         *)
(***************************************************************************)
PendingIsCovered ==
  \A f \in Files :
    (up /\ status[f] \in {"uploaded", "indexing"} /\ f \notin dropped) =>
      \/ Queued(f)
      \/ Ingesting(f)
      \/ \E r \in Requests : AboutToQueue(r, f)

(***************************************************************************)
(* What the record, the storage and the vector store say of a file agree   *)
(* once everything concerning it has run: a ready file is indexed with     *)
(* exactly the stored content; a deleted file has neither content nor      *)
(* vectors; a file that never got a row has no vectors.  Saves that        *)
(* overwrite the object while the worker indexes the old one, duplicate    *)
(* queue entries and worker crashes are covered.                           *)
(* Excused are a delete or a save that was cut short, an ingestion that    *)
(* was lost and not recovered (the queued second pass over a "ready" file  *)
(* does not survive a restart), and a delete that overlapped another       *)
(* writer of the same row.                                                 *)
(***************************************************************************)
SettledConsistent ==
  \A f \in Files \ (torn \cup dropped \cup raced) :
    AtRest(f) =>
      /\ status[f] = "ready"   => chunks[f] = {object[f]}
      /\ status[f] = "deleted" => chunks[f] = {} /\ object[f] = None
      /\ status[f] = "none"    => chunks[f] = {}

(***************************************************************************)
(* What makes the properties inductive: an id is handed out once, every    *)
(* task that loaded a row works on a row that exists, and a row says       *)
(* "indexing" only while the worker has the file in hand.                  *)
(***************************************************************************)
IdsAreFresh ==
  /\ \A f \in Files : f >= nextId => status[f] = "none"
  /\ \A r \in Requests : req[r].pc = "uploadCommit" =>
       /\ req[r].file < nextId
       /\ status[req[r].file] = "none"
       /\ \A q \in Requests \ {r} :
            req[q].pc = "uploadCommit" => req[q].file # req[r].file

RowsExist ==
  /\ \A r \in Requests : req[r].pc \notin Ended \cup {"insert", "uploadCommit"}
                         => status[req[r].file] # "none"
  /\ worker.pc # "idle" => status[worker.file] # "none"

IndexingIsWorked ==
  \A f \in Files :
    (up /\ status[f] = "indexing" /\ f \notin dropped) => Ingesting(f)

IInv == TypeOK /\ IdsAreFresh /\ RowsExist /\ IndexingIsWorked /\ PendingIsCovered

\* f is deleted and no task that loaded it before still has to write it.
Buried(f) == status[f] = "deleted" /\ ~StaleWriter(f)

(***************************************************************************)
(* A deletion that no ingestion, retry or save straddles is final: no      *)
(* later queue entry, retry, ONLYOFFICE save, second delete or restart     *)
(* brings the file back.  (One that loaded the row before the delete       *)
(* committed does, although retry_file refuses deleted files.)             *)
(***************************************************************************)
DeletionIsFinal == [][\A f \in Files : Buried(f) => Buried(f)']_vars

(***************************************************************************)
(* Every upload, retry and save is eventually answered by the worker: a    *)
(* file waiting for ingestion ends up ready, failed or deleted, through    *)
(* any number of restarts.  Only a database error in the running process   *)
(* can leave it waiting, and then until the next start.                    *)
(***************************************************************************)
IngestionSettles ==
  \A f \in Files :
    status[f] \in {"uploaded", "indexing"} ~>
      (status[f] \in {"ready", "failed", "deleted"} \/ (up /\ f \in dropped))

=============================================================================
