---------------------- MODULE KnowledgeIngestion_proofs ----------------------
(***************************************************************************)
(* Proofs about KnowledgeIngestion, for every number of files, requests,   *)
(* contents and restarts, with and without database errors.                *)
(***************************************************************************)
EXTENDS KnowledgeIngestion, FiniteSetTheorems, SequenceTheorems, TLAPS

(***************************************************************************)
(* The recoverable files are finitely many, so the recovery queue, one     *)
(* entry per file, is a sequence.                                          *)
(***************************************************************************)
LEMMA RecoverableFinite == Cardinality(Recoverable) \in Nat
<1>1. IsFiniteSet(Files)
  BY FS_Interval, FilesAssumption DEF Files
<1>2. Recoverable \in SUBSET Files
  BY DEF Recoverable
<1>3. QED
  BY <1>1, <1>2, FS_Subset, FS_CardinalityType

(***************************************************************************)
(* A step that only moves handler r on to p, a point whose needs r meets,  *)
(* leaves every handler well typed.                                        *)
(***************************************************************************)
LEMMA GotoType ==
  ASSUME RequestType, NEW r \in Requests, NEW p \in RequestPcs, Goto(r, p),
         p \in Ended \/ (req[r].file \in Files /\
                          p \notin {"insert", "uploadCommit", "saveCommit"})
  PROVE  RequestType'
<1>1. req' = [req EXCEPT ![r] = [req[r] EXCEPT !.pc = p]]
  BY DEF Goto
<1>2. [req[r] EXCEPT !.pc = p] \in Request
  BY DEF RequestType, Request
<1>3. RequestOK([req[r] EXCEPT !.pc = p])
  BY DEF RequestType, RequestOK, Request, Ended
<1>4. QED
  BY <1>1, <1>2, <1>3 DEF RequestType

(***************************************************************************)
(* Replacing one handler's record by a well-typed one keeps them all so.   *)
(***************************************************************************)
LEMMA ReplaceType ==
  ASSUME RequestType, NEW r \in Requests, NEW v \in Request, RequestOK(v),
         req' = [req EXCEPT ![r] = v]
  PROVE  RequestType'
BY DEF RequestType

(***************************************************************************)
(* Every step of the system keeps every field well typed.                  *)
(***************************************************************************)
LEMMA TypeStep == TypeOK /\ [Next]_vars => TypeOK'
<1> SUFFICES ASSUME TypeOK, [Next]_vars PROVE TypeOK'
  OBVIOUS
<1> USE DEF TypeOK
<1>a. 0 \notin Files /\ Files \subseteq Nat
  BY FilesAssumption DEF Files
<1>1. ASSUME NEW r \in Requests, NEW c \in Contents, UploadLookup(r, c) PROVE TypeOK'
  <2>1. RequestType'
    <3>1. CASE Goto(r, "done")
      BY <3>1, GotoType DEF RequestPcs, Ended
    <3>2. CASE Goto(r, "conflict")
      BY <3>2, GotoType DEF RequestPcs, Ended
    <3>3. CASE req' = [req EXCEPT ![r].pc = "insert", ![r].content = c]
      <4> DEFINE v == [req[r] EXCEPT !.pc = "insert", !.content = c]
      <4>1. v \in Request /\ RequestOK(v)
        BY ZenonT(40) DEF RequestType, Request, RequestOK, RequestPcs, Ended
      <4>2. req' = [req EXCEPT ![r] = v]
        BY <3>3 DEF RequestType, Request
      <4> HIDE DEF v
      <4>3. QED
        BY <4>1, <4>2, ReplaceType
    <3>4. QED
      BY <1>1, <3>1, <3>2, <3>3 DEF UploadLookup
  <2>2. QueueType'
    BY <1>1 DEF UploadLookup, QueueType
  <2>3. QED
    BY <1>1, <2>1, <2>2 DEF UploadLookup, RowsType, StoresType, WorkerType, ProcessType,
       HistoryType, rows, process, history
<1>2. ASSUME NEW r \in Requests, UploadInsert(r) PROVE TypeOK'
  <2> DEFINE v == [req[r] EXCEPT !.pc = "uploadCommit", !.file = nextId]
  <2>1. v \in Request /\ RequestOK(v)
    BY <1>2 DEF UploadInsert, RequestType, Request, RequestOK, RequestPcs, Ended
  <2>2. req' = [req EXCEPT ![r] = v]
    BY <1>2 DEF UploadInsert, RequestType, Request
  <2> HIDE DEF v
  <2>3. RequestType'
    BY <2>1, <2>2, ReplaceType
  <2>4. req[r].content \in Contents
    BY <1>2 DEF UploadInsert, RequestType, RequestOK
  <2>5. RowsType' /\ StoresType'
    BY <1>2, <2>4 DEF UploadInsert, RowsType, StoresType
  <2>6. QED
    BY <1>2, <2>3, <2>5 DEF UploadInsert, QueueType, WorkerType, ProcessType,
       HistoryType, process, history
<1>3. ASSUME NEW r \in Requests, UploadCommit(r) PROVE TypeOK'
  <2>1. RequestType'
    BY <1>3, GotoType DEF UploadCommit, RequestType, RequestOK, RequestPcs, Ended
  <2>2. req[r].file \in Files /\ req[r].content \in Contents
    BY <1>3 DEF UploadCommit, RequestType, RequestOK, Ended
  <2>3. RowsType'
    BY <1>3, <2>2 DEF UploadCommit, RowsType, Statuses, Active
  <2>4. QED
    BY <1>3, <2>1, <2>3 DEF UploadCommit, QueueType, WorkerType, ProcessType, StoresType,
       HistoryType, process, history
<1>4. ASSUME NEW r \in Requests, UploadEnqueue(r) PROVE TypeOK'
  <2>1. RequestType'
    BY <1>4, GotoType DEF UploadEnqueue, RequestPcs, Ended
  <2>2. req[r].file \in Files
    BY <1>4 DEF UploadEnqueue, RequestType, RequestOK, Ended
  <2>3. QueueType'
    BY <1>4, <2>2 DEF UploadEnqueue, QueueType
  <2>4. QED
    BY <1>4, <2>1, <2>3 DEF UploadEnqueue, RowsType, StoresType, WorkerType, ProcessType,
       HistoryType, rows, process, history
<1>5. ASSUME NEW r \in Requests, NEW f \in Files, RetryLoad(r, f) PROVE TypeOK'
  <2> DEFINE v == [req[r] EXCEPT !.pc = IF status[f] = "deleted" THEN "rejected"
                                                                 ELSE "retryCommit",
                                 !.file = f, !.seen = status[f]]
  <2>1. v \in Request /\ RequestOK(v)
    BY ZenonT(40) DEF RowsType, RequestType, Request, RequestOK, RequestPcs, Ended
  <2>2. req' = [req EXCEPT ![r] = v]
    BY <1>5 DEF RetryLoad
  <2> HIDE DEF v
  <2>3. RequestType'
    BY <2>1, <2>2, ReplaceType
  <2>4. QED
    BY <1>5, <2>3 DEF RetryLoad, Overlap, RowsType, StoresType, QueueType, WorkerType,
       ProcessType, HistoryType, rows, process
<1>6. ASSUME NEW r \in Requests, RetryCommit(r) PROVE TypeOK'
  <2>1. RequestType'
    BY <1>6, GotoType DEF RetryCommit, RequestType, RequestOK, RequestPcs, Ended
  <2>2. RowsType'
    BY <1>6 DEF RetryCommit, RowsType, Statuses, Active, Written
  <2>3. QED
    BY <1>6, <2>1, <2>2 DEF RetryCommit, QueueType, WorkerType, ProcessType, StoresType,
       HistoryType, process, history
<1>7. ASSUME NEW r \in Requests, Enqueue(r) PROVE TypeOK'
  <2>1. RequestType'
    BY <1>7, GotoType DEF Enqueue, RequestPcs, Ended
  <2>2. req[r].file \in Files
    BY <1>7 DEF Enqueue, RequestType, RequestOK, Ended
  <2>3. QueueType'
    BY <1>7, <2>2 DEF Enqueue, QueueType
  <2>4. QED
    BY <1>7, <2>1, <2>3 DEF Enqueue, RowsType, StoresType, WorkerType, ProcessType,
       HistoryType, rows, process, history
<1>8. ASSUME NEW r \in Requests, NEW f \in Files, NEW c \in Contents, SaveObject(r, f, c)
      PROVE  TypeOK'
  <2> DEFINE v == [pc |-> "saveCommit", file |-> f, seen |-> status[f], content |-> c]
  <2>1. v \in Request /\ RequestOK(v)
    BY DEF RowsType, Request, RequestOK, RequestPcs, Ended
  <2>2. req' = [req EXCEPT ![r] = v]
    BY <1>8 DEF SaveObject
  <2> HIDE DEF v
  <2>3. RequestType'
    BY <2>1, <2>2, ReplaceType
  <2>4. StoresType'
    BY <1>8 DEF SaveObject, StoresType
  <2>5. QED
    BY <1>8, <2>3, <2>4 DEF SaveObject, Overlap, RowsType, QueueType, WorkerType,
       ProcessType, HistoryType, rows, process
<1>9. ASSUME NEW r \in Requests, SaveCommit(r) PROVE TypeOK'
  <2>1. RequestType'
    BY <1>9, GotoType DEF SaveCommit, RequestType, RequestOK, RequestPcs, Ended
  <2>2. req[r].content \in Contents
    BY <1>9 DEF SaveCommit, RequestType, RequestOK
  <2>3. RowsType'
    BY <1>9, <2>2 DEF SaveCommit, RowsType, Statuses, Active, Written
  <2>4. QED
    BY <1>9, <2>1, <2>3 DEF SaveCommit, QueueType, WorkerType, ProcessType, StoresType,
       HistoryType, process, history
<1>10. ASSUME NEW r \in Requests, NEW f \in Files, DeleteLoad(r, f) PROVE TypeOK'
  <2> DEFINE v == [req[r] EXCEPT !.pc = "purge", !.file = f, !.seen = status[f]]
  <2>1. v \in Request /\ RequestOK(v)
    BY ZenonT(40) DEF RowsType, RequestType, Request, RequestOK, RequestPcs, Ended
  <2>2. req' = [req EXCEPT ![r] = v]
    BY <1>10 DEF DeleteLoad
  <2> HIDE DEF v
  <2>3. RequestType'
    BY <2>1, <2>2, ReplaceType
  <2>4. QED
    BY <1>10, <2>3 DEF DeleteLoad, Overlap, RowsType, StoresType, QueueType, WorkerType,
       ProcessType, HistoryType, rows, process
<1>11. ASSUME NEW r \in Requests, DeletePurge(r) PROVE TypeOK'
  <2>1. RequestType'
    BY <1>11, GotoType DEF DeletePurge, RequestType, RequestOK, RequestPcs, Ended
  <2>2. StoresType'
    BY <1>11 DEF DeletePurge, StoresType
  <2>3. QED
    BY <1>11, <2>1, <2>2 DEF DeletePurge, RowsType, QueueType, WorkerType, ProcessType,
       HistoryType, rows, process, history
<1>12. ASSUME NEW r \in Requests, DeleteCommit(r) PROVE TypeOK'
  <2>1. RequestType'
    BY <1>12, GotoType DEF DeleteCommit, RequestType, RequestOK, RequestPcs, Ended
  <2>2. RowsType'
    BY <1>12 DEF DeleteCommit, RowsType, Statuses, Active, Written
  <2>3. QED
    BY <1>12, <2>1, <2>2 DEF DeleteCommit, QueueType, WorkerType, ProcessType, StoresType,
       HistoryType, process, history
<1>13. ASSUME NEW r \in Requests, DeleteObject(r) PROVE TypeOK'
  <2>1. RequestType'
    BY <1>13, GotoType DEF DeleteObject, RequestPcs, Ended
  <2>2. StoresType'
    BY <1>13 DEF DeleteObject, StoresType
  <2>3. QED
    BY <1>13, <2>1, <2>2 DEF DeleteObject, RowsType, QueueType, WorkerType, ProcessType,
       HistoryType, rows, process, history
<1>14. ASSUME NEW r \in Requests, RequestDbError(r) PROVE TypeOK'
  <2>1. RequestType'
    BY <1>14, GotoType DEF RequestDbError, RequestPcs, Ended
  <2>2. QED
    BY <1>14, <2>1 DEF RequestDbError, RowsType, StoresType, QueueType, WorkerType,
       ProcessType, HistoryType, rows, process
<1>15. CASE WorkerTake
  <2>1. Head(queue) \in Files /\ Tail(queue) \in Seq(Files)
    BY <1>15 DEF WorkerTake, QueueType
  <2>2. WorkerType'
    <3> DEFINE w == [IdleWorker EXCEPT !.pc = "mark", !.file = Head(queue),
                                       !.seen = status[Head(queue)]]
    <3>1. w \in Worker /\ WorkerOK(w)
      BY <2>1 DEF Worker, WorkerOK, WorkerPcs, RowsType, IdleWorker
    <3>2. worker' \in {worker, w}
      BY <1>15 DEF WorkerTake
    <3> HIDE DEF w
    <3>3. QED
      BY <3>1, <3>2 DEF WorkerType
  <2>3. HistoryType'
    BY <1>15, <2>1 DEF WorkerTake, HistoryType, Overlap
  <2>4. QED
    BY <1>15, <2>1, <2>2, <2>3 DEF WorkerTake, RowsType, StoresType, QueueType,
       RequestType, ProcessType, rows, process
<1>16. CASE WorkerMark
  <2>1. WorkerType'
    BY <1>16 DEF WorkerMark, WorkerType, Worker, WorkerOK, WorkerPcs
  <2>2. RowsType'
    BY <1>16 DEF WorkerMark, RowsType, Statuses, Active, Written
  <2>3. QED
    BY <1>16, <2>1, <2>2 DEF WorkerMark, StoresType, QueueType, RequestType, ProcessType,
       HistoryType, process, history
<1>17. CASE WorkerRead
  <2>1. WorkerType'
    BY <1>17 DEF WorkerRead, WorkerType, Worker, WorkerOK, WorkerPcs, StoresType
  <2>2. QED
    BY <1>17, <2>1 DEF WorkerRead, RowsType, StoresType, QueueType, RequestType,
       ProcessType, HistoryType, rows, process, history
<1>18. CASE WorkerPurge
  <2>1. WorkerType'
    BY <1>18 DEF WorkerPurge, WorkerType, Worker, WorkerOK, WorkerPcs
  <2>2. StoresType'
    BY <1>18 DEF WorkerPurge, StoresType
  <2>3. QED
    BY <1>18, <2>1, <2>2 DEF WorkerPurge, RowsType, QueueType, RequestType, ProcessType,
       HistoryType, rows, process, history
<1>19. CASE WorkerAdd
  <2>1. WorkerType'
    BY <1>19 DEF WorkerAdd, WorkerType, Worker, WorkerOK, WorkerPcs
  <2>2. worker.file \in Files /\ worker.content \in Contents
    BY <1>19 DEF WorkerAdd, WorkerType, WorkerOK
  <2>3. StoresType'
    BY <1>19, <2>2 DEF WorkerAdd, StoresType
  <2>4. QED
    BY <1>19, <2>1, <2>3 DEF WorkerAdd, RowsType, QueueType, RequestType, ProcessType,
       HistoryType, rows, process, history
<1>20. CASE WorkerReady \/ WorkerFail
  <2>1. WorkerType'
    BY <1>20 DEF WorkerReady, WorkerFail, WorkerType, Worker, WorkerOK, WorkerPcs, IdleWorker
  <2>2. RowsType'
    BY <1>20 DEF WorkerReady, WorkerFail, RowsType, Statuses, Active
  <2>3. QED
    BY <1>20, <2>1, <2>2 DEF WorkerReady, WorkerFail, StoresType, QueueType, RequestType,
       ProcessType, HistoryType, process, history
<1>21. CASE WorkerDbError
  <2>1. WorkerType'
    BY <1>21 DEF WorkerDbError, WorkerType, Worker, WorkerOK, WorkerPcs, IdleWorker
  <2>2. HistoryType'
    BY <1>21 DEF WorkerDbError, HistoryType, WorkerType, WorkerOK
  <2>3. QED
    BY <1>21, <2>1, <2>2 DEF WorkerDbError, RowsType, StoresType, QueueType, RequestType,
       ProcessType, rows, process
<1>22. CASE Crash
  <2>1. WorkerType'
    BY <1>22 DEF Crash, WorkerType, Worker, WorkerOK, WorkerPcs, IdleWorker
  <2>2. RequestType'
    BY <1>22 DEF Crash, RequestType, Request, RequestOK, RequestPcs, Ended
  <2>3. ProcessType'
    <3>1. crashes \in Int /\ MaxCrashes \in Int /\ 0 <= crashes /\ crashes < MaxCrashes
      BY <1>22, CrashAssumption DEF Crash, ProcessType
    <3>2. crashes' = crashes + 1 /\ up' = FALSE
      BY <1>22 DEF Crash
    <3>3. crashes' \in 0 .. MaxCrashes
      BY <3>1, <3>2
    <3>4. QED
      BY <3>2, <3>3 DEF ProcessType
  <2>4. QED
    BY <1>22, <2>1, <2>2, <2>3 DEF Crash, RowsType, StoresType, QueueType, HistoryType, rows
<1>23. CASE Recover
  <2>1. RowsType'
    BY <1>23 DEF Recover, RowsType, Statuses, Active
  <2>2. QueueType'
    <3>1. PICK q \in [1 .. Cardinality(Recoverable) -> Recoverable] : queue' = q
      BY <1>23 DEF Recover
    <3>2. q \in Seq(Files)
      <4>1. q \in [1 .. Cardinality(Recoverable) -> Files]
        BY DEF Recoverable
      <4>2. QED
        BY <4>1, RecoverableFinite, SeqDef
    <3>3. QED
      BY <3>1, <3>2 DEF QueueType
  <2>3. QED
    BY <1>23, <2>1, <2>2 DEF Recover, StoresType, WorkerType, RequestType, ProcessType,
       HistoryType
<1>24. CASE UNCHANGED vars
  BY <1>24 DEF vars, RowsType, StoresType, QueueType, WorkerType, RequestType, ProcessType,
     HistoryType
<1>25. QED
  BY <1>1, <1>2, <1>3, <1>4, <1>5, <1>6, <1>7, <1>8, <1>9, <1>10, <1>11, <1>12, <1>13,
     <1>14, <1>15, <1>16, <1>17, <1>18, <1>19, <1>20, <1>21, <1>22, <1>23, <1>24
     DEF Next, Arrive, Continue, Work

(***************************************************************************)
(* Type correctness of the whole component.                                *)
(***************************************************************************)
THEOREM TypeCorrect == Spec => []TypeOK
<1>1. Init => TypeOK
  BY FilesAssumption, NoneAssumption, CrashAssumption
     DEF Init, TypeOK, RowsType, StoresType, QueueType, WorkerType, RequestType, ProcessType,
         HistoryType, Worker, WorkerOK, WorkerPcs, Request, RequestOK, RequestPcs, Ended,
         IdleWorker, NewRequest, Files
<1>2. QED
  BY <1>1, TypeStep, PTL DEF Spec

(***************************************************************************)
(* Queueing a file keeps what is queued and adds that file.                *)
(***************************************************************************)
LEMMA AppendQueues ==
  ASSUME QueueType, NEW g \in Files, queue' = Append(queue, g)
  PROVE  Queued(g)' /\ \A f \in Files : Queued(f) => Queued(f)'
<1>1. /\ DOMAIN queue = 1 .. Len(queue) /\ Len(queue) \in Nat
      /\ Len(queue') = Len(queue) + 1
      /\ DOMAIN queue' = 1 .. Len(queue')
      /\ queue'[Len(queue) + 1] = g
      /\ \A i \in 1 .. Len(queue) : queue'[i] = queue[i]
  BY DEF QueueType
<1>2. Queued(g)'
  BY <1>1 DEF Queued
<1>3. ASSUME NEW f \in Files, Queued(f) PROVE Queued(f)'
  <2>1. PICK i \in 1 .. Len(queue) : queue[i] = f
    BY <1>1, <1>3 DEF Queued
  <2>2. i \in DOMAIN queue' /\ queue'[i] = f
    BY <1>1, <2>1
  <2>3. QED
    BY <2>2 DEF Queued
<1>4. QED
  BY <1>2, <1>3

(***************************************************************************)
(* Taking the head leaves every other queued file in the queue.            *)
(***************************************************************************)
LEMMA TailQueues ==
  ASSUME QueueType, queue # <<>>, queue' = Tail(queue)
  PROVE  \A f \in Files : Queued(f) => f = Head(queue) \/ Queued(f)'
<1>1. /\ DOMAIN queue = 1 .. Len(queue) /\ Len(queue) \in Nat
      /\ Len(queue') = Len(queue) - 1
      /\ DOMAIN queue' = 1 .. Len(queue')
      /\ Head(queue) = queue[1]
      /\ \A i \in 1 .. Len(queue') : queue'[i] = queue[i + 1]
  BY DEF QueueType
<1>2. ASSUME NEW f \in Files, Queued(f), f # Head(queue) PROVE Queued(f)'
  <2>1. PICK i \in 1 .. Len(queue) : queue[i] = f
    BY <1>1, <1>2 DEF Queued
  <2>2. i - 1 \in 1 .. Len(queue') /\ queue'[i - 1] = f
    BY <1>1, <1>2, <2>1
  <2>3. QED
    BY <1>1, <2>2 DEF Queued
<1>3. QED
  BY <1>2

(***************************************************************************)
(* A step of handler r that leaves the worker alone and loses nothing from *)
(* the queue keeps f covered, unless r itself was about to queue f.        *)
(***************************************************************************)
LEMMA HandlerCover ==
  ASSUME TypeOK, PendingIsCovered, NEW r \in Requests, NEW f \in Files,
         up, status[f] \in {"uploaded", "indexing"}, f \notin dropped,
         worker' = worker, Queued(f) => Queued(f)',
         \A q \in Requests \ {r} : req'[q] = req[q],
         ~AboutToQueue(r, f)
  PROVE  \/ Queued(f)' \/ Ingesting(f)'
         \/ \E q \in Requests : AboutToQueue(q, f)'
<1>1. CASE Queued(f)
  BY <1>1
<1>2. CASE Ingesting(f)
  BY <1>2 DEF Ingesting
<1>3. CASE \E q \in Requests : AboutToQueue(q, f)
  <2>1. PICK q \in Requests \ {r} : AboutToQueue(q, f)
    BY <1>3
  <2>2. AboutToQueue(q, f)'
    BY <2>1 DEF AboutToQueue
  <2>3. QED
    BY <2>2
<1>4. QED
  BY <1>1, <1>2, <1>3 DEF PendingIsCovered

(***************************************************************************)
(* Each step keeps "indexing means the worker has it".                     *)
(***************************************************************************)
LEMMA IndexingStep ==
  TypeOK /\ IndexingIsWorked /\ [Next]_vars => IndexingIsWorked'
<1> SUFFICES ASSUME TypeOK, IndexingIsWorked, [Next]_vars,
                    NEW f \in Files, up', status'[f] = "indexing", f \notin dropped'
             PROVE  Ingesting(f)'
  BY DEF IndexingIsWorked
<1> USE DEF TypeOK, RowsType, WorkerType, HistoryType, Ingesting
<1>1. ASSUME NEW r \in Requests, Arrive(r) PROVE Ingesting(f)'
  BY <1>1 DEF Arrive, UploadLookup, RetryLoad, DeleteLoad, SaveObject, rows, process,
              history, IndexingIsWorked
<1>2. ASSUME NEW r \in Requests, Continue(r) PROVE Ingesting(f)'
  <2>1. UNCHANGED <<worker, process, dropped>>
    BY <1>2 DEF Continue, UploadInsert, UploadCommit, UploadEnqueue, RetryCommit, Enqueue,
                SaveCommit, DeletePurge, DeleteCommit, DeleteObject, history
  <2>2. status[f] = "indexing"
    BY <1>2 DEF Continue, UploadInsert, UploadCommit, UploadEnqueue, RetryCommit, Enqueue,
                SaveCommit, DeletePurge, DeleteCommit, DeleteObject, rows, Written
  <2>3. QED
    BY <2>1, <2>2 DEF IndexingIsWorked, process
<1>3. ASSUME NEW r \in Requests, RequestDbError(r) PROVE Ingesting(f)'
  BY <1>3 DEF RequestDbError, rows, process, IndexingIsWorked
<1>4. CASE WorkerTake
  BY <1>4 DEF WorkerTake, rows, process, IndexingIsWorked
<1>5. CASE WorkerMark
  BY <1>5 DEF WorkerMark, process, history, IndexingIsWorked, Written, Worker
<1>6. CASE WorkerRead \/ WorkerPurge \/ WorkerAdd
  BY <1>6 DEF WorkerRead, WorkerPurge, WorkerAdd, rows, process, history,
              IndexingIsWorked, Worker
<1>7. CASE WorkerReady \/ WorkerFail
  BY <1>7 DEF WorkerReady, WorkerFail, process, history, IndexingIsWorked
<1>8. CASE WorkerDbError
  BY <1>8 DEF WorkerDbError, rows, process, IndexingIsWorked, Worker
<1>9. CASE Crash
  BY <1>9 DEF Crash
<1>10. CASE Recover
  BY <1>10 DEF Recover, Recoverable
<1>11. CASE UNCHANGED vars
  BY <1>11 DEF vars, IndexingIsWorked
<1>12. QED
  BY <1>1, <1>2, <1>3, <1>4, <1>5, <1>6, <1>7, <1>8, <1>9, <1>10, <1>11 DEF Next, Work

(***************************************************************************)
(* Each step keeps pending files covered.                                  *)
(***************************************************************************)
LEMMA PendingStep ==
  TypeOK /\ IndexingIsWorked /\ PendingIsCovered /\ [Next]_vars => PendingIsCovered'
<1> DEFINE Covered(f) == \/ Queued(f) \/ Ingesting(f)
                         \/ \E r \in Requests : AboutToQueue(r, f)
<1> SUFFICES ASSUME TypeOK, IndexingIsWorked, PendingIsCovered, [Next]_vars,
                    NEW f \in Files, up', status'[f] \in {"uploaded", "indexing"},
                    f \notin dropped'
             PROVE  Covered(f)'
  BY DEF PendingIsCovered
<1> USE DEF TypeOK
<1>1. ASSUME NEW r \in Requests, NEW c \in Contents, UploadLookup(r, c) PROVE Covered(f)'
  <2>1. UNCHANGED <<status, dropped, up, worker>> /\ ~AboutToQueue(r, f)
    BY <1>1 DEF UploadLookup, rows, process, history, AboutToQueue
  <2>2. \A q \in Requests \ {r} : req'[q] = req[q]
    BY <1>1 DEF UploadLookup, Goto, RequestType
  <2>3. Queued(f) => Queued(f)'
    <3>1. CASE queue' = queue
      BY <3>1 DEF Queued
    <3>2. CASE \E g \in Files : queue' = Append(queue, g)
      BY <3>2, AppendQueues
    <3>3. QED
      BY <1>1, <3>1, <3>2 DEF UploadLookup
  <2>4. QED
    BY <2>1, <2>2, <2>3, HandlerCover
<1>2. ASSUME NEW r \in Requests,
             \/ \E g \in Files : RetryLoad(r, g) \/ DeleteLoad(r, g)
             \/ \E g \in Files, c \in Contents : SaveObject(r, g, c)
      PROVE  Covered(f)'
  <2>1. UNCHANGED <<status, dropped, up, worker, queue>> /\ ~AboutToQueue(r, f)
    BY <1>2 DEF RetryLoad, DeleteLoad, SaveObject, rows, process, AboutToQueue
  <2>2. \A q \in Requests \ {r} : req'[q] = req[q]
    BY <1>2 DEF RetryLoad, DeleteLoad, SaveObject, RequestType
  <2>3. QED
    BY <2>1, <2>2, HandlerCover DEF Queued
<1>3. ASSUME NEW r \in Requests,
             UploadInsert(r) \/ DeletePurge(r) \/ DeleteCommit(r) \/ DeleteObject(r)
      PROVE  Covered(f)'
  <2>1. UNCHANGED <<dropped, up, worker, queue>> /\ ~AboutToQueue(r, f)
    BY <1>3 DEF UploadInsert, DeletePurge, DeleteCommit, DeleteObject, rows, process,
                history, AboutToQueue
  <2>2. status[f] \in {"uploaded", "indexing"}
    BY <1>3 DEF UploadInsert, DeletePurge, DeleteCommit, DeleteObject, rows, Written,
                RowsType
  <2>3. \A q \in Requests \ {r} : req'[q] = req[q]
    BY <1>3 DEF UploadInsert, DeletePurge, DeleteCommit, DeleteObject, Goto, RequestType
  <2>4. QED
    BY <2>1, <2>2, <2>3, HandlerCover DEF Queued
<1>4. ASSUME NEW r \in Requests, UploadCommit(r) \/ RetryCommit(r) \/ SaveCommit(r)
      PROVE  Covered(f)'
  <2>1. UNCHANGED <<dropped, up, worker, queue>> /\ ~AboutToQueue(r, f)
    BY <1>4 DEF UploadCommit, RetryCommit, SaveCommit, process, history, AboutToQueue
  <2>2. CASE req[r].file = f /\ status' # status
    <3>1. AboutToQueue(r, f)'
      BY <1>4, <2>2 DEF UploadCommit, RetryCommit, SaveCommit, Goto, RequestType, Request,
                        AboutToQueue
    <3>2. QED
      BY <3>1
  <2>3. CASE req[r].file # f \/ status' = status
    <3>1. status[f] \in {"uploaded", "indexing"}
      BY <1>4, <2>3 DEF UploadCommit, RetryCommit, SaveCommit, RowsType
    <3>2. \A q \in Requests \ {r} : req'[q] = req[q]
      BY <1>4 DEF UploadCommit, RetryCommit, SaveCommit, Goto, RequestType
    <3>3. QED
      BY <2>1, <3>1, <3>2, HandlerCover DEF Queued
  <2>4. QED
    BY <2>2, <2>3
<1>5. ASSUME NEW r \in Requests, UploadEnqueue(r) \/ Enqueue(r) PROVE Covered(f)'
  <2>1. UNCHANGED <<status, dropped, up, worker>> /\ req[r].file \in Files
    BY <1>5 DEF UploadEnqueue, Enqueue, rows, process, history, RequestType, RequestOK, Ended
  <2>2. \A q \in Requests \ {r} : req'[q] = req[q]
    BY <1>5 DEF UploadEnqueue, Enqueue, Goto, RequestType
  <2>3. CASE queue' = Append(queue, req[r].file)
    <3>1. CASE f = req[r].file
      BY <2>1, <2>3, <3>1, AppendQueues
    <3>2. CASE f # req[r].file
      <4>1. ~AboutToQueue(r, f)
        BY <3>2 DEF AboutToQueue
      <4>2. Queued(f) => Queued(f)'
        BY <2>1, <2>3, AppendQueues
      <4>3. QED
        BY <2>1, <2>2, <4>1, <4>2, HandlerCover
    <3>3. QED
      BY <3>1, <3>2
  <2>4. CASE queue' = queue /\ status[req[r].file] # "uploaded"
    <3>1. CASE f = req[r].file
      <4>1. status[f] = "indexing"
        BY <2>1, <2>4, <3>1
      <4>2. Ingesting(f)
        BY <2>1, <4>1 DEF IndexingIsWorked
      <4>3. QED
        BY <2>1, <4>2 DEF Ingesting
    <3>2. CASE f # req[r].file
      <4>1. ~AboutToQueue(r, f)
        BY <3>2 DEF AboutToQueue
      <4>2. QED
        BY <2>1, <2>2, <2>4, <4>1, HandlerCover DEF Queued
    <3>3. QED
      BY <3>1, <3>2
  <2>5. QED
    BY <1>5, <2>3, <2>4 DEF UploadEnqueue, Enqueue
<1>6. ASSUME NEW r \in Requests, RequestDbError(r) PROVE Covered(f)'
  <2>1. UNCHANGED <<status, up, worker, queue>> /\ f \notin dropped /\ ~AboutToQueue(r, f)
    BY <1>6 DEF RequestDbError, rows, process, HistoryType
  <2>2. \A q \in Requests \ {r} : req'[q] = req[q]
    BY <1>6 DEF RequestDbError, Goto, RequestType
  <2>3. QED
    BY <2>1, <2>2, HandlerCover DEF Queued
<1>7. CASE WorkerTake
  <2>1. UNCHANGED <<status, dropped, up, req>> /\ ~Ingesting(f)
    BY <1>7 DEF WorkerTake, rows, process, Ingesting
  <2>2. CASE Queued(f)
    <3>1. CASE f = Head(queue)
      BY <1>7, <2>1, <3>1 DEF WorkerTake, Ingesting, IdleWorker
    <3>2. CASE f # Head(queue)
      BY <1>7, <2>2, <3>2, TailQueues DEF WorkerTake
    <3>3. QED
      BY <3>1, <3>2
  <2>3. CASE \E q \in Requests : AboutToQueue(q, f)
    BY <2>1, <2>3 DEF AboutToQueue
  <2>4. QED
    BY <2>1, <2>2, <2>3 DEF PendingIsCovered
<1>8. CASE WorkerMark \/ WorkerRead \/ WorkerPurge \/ WorkerAdd \/ WorkerReady \/ WorkerFail
           \/ WorkerDbError
  <2>1. UNCHANGED <<up, queue, req>> /\ f \notin dropped
    BY <1>8 DEF WorkerMark, WorkerRead, WorkerPurge, WorkerAdd, WorkerReady, WorkerFail,
                WorkerDbError, process, history, HistoryType
  <2>2. Ingesting(f) => Ingesting(f)'
    BY <1>8 DEF WorkerMark, WorkerRead, WorkerPurge, WorkerAdd, WorkerReady, WorkerFail,
                WorkerDbError, Ingesting, WorkerType, Worker, RowsType, HistoryType
  <2>3. status[f] \in {"uploaded", "indexing"} \/ Ingesting(f)
    BY <1>8 DEF WorkerMark, WorkerRead, WorkerPurge, WorkerAdd, WorkerReady, WorkerFail,
                WorkerDbError, rows, Ingesting, RowsType
  <2>4. QED
    BY <2>1, <2>2, <2>3 DEF PendingIsCovered, Queued, AboutToQueue
<1>9. CASE Crash
  BY <1>9 DEF Crash
<1>10. CASE Recover
  <2>1. f \in Recoverable
    BY <1>10 DEF Recover, RowsType, Recoverable
  <2>2. QED
    BY <1>10, <2>1 DEF Recover, Queued
<1>11. CASE UNCHANGED vars
  BY <1>11 DEF vars, PendingIsCovered, Queued, Ingesting, AboutToQueue
<1>12. QED
  BY <1>1, <1>2, <1>3, <1>4, <1>5, <1>6, <1>7, <1>8, <1>9, <1>10, <1>11
     DEF Next, Arrive, Continue, Work

(***************************************************************************)
(* Work is never forgotten, for every number of files, requests and        *)
(* restarts: the invariant of process_file_ingestion, the handlers and     *)
(* start() that the run KnowledgeSafety checks on two files.               *)
(***************************************************************************)
THEOREM PendingAlwaysCovered == Spec => []PendingIsCovered
<1>1. Init => IndexingIsWorked /\ PendingIsCovered
  BY DEF Init, IndexingIsWorked, PendingIsCovered
<1>2. QED
  BY <1>1, TypeCorrect, IndexingStep, PendingStep, PTL DEF Spec

(***************************************************************************)
(* Each step keeps the rows that loaded tasks work on in existence.        *)
(***************************************************************************)
LEMMA RowsStep == TypeOK /\ RowsExist /\ [Next]_vars => RowsExist'
<1> SUFFICES ASSUME TypeOK, RowsExist, [Next]_vars PROVE RowsExist'
  OBVIOUS
<1> USE DEF TypeOK
<1>1. ASSUME NEW f \in Files, status[f] # "none" PROVE status'[f] # "none"
  BY <1>1, ZenonT(40) DEF Next, Arrive, Continue, Work, UploadLookup, UploadInsert, UploadCommit,
       UploadEnqueue, RetryLoad, RetryCommit, Enqueue, SaveObject, SaveCommit, DeleteLoad,
       DeletePurge, DeleteCommit, DeleteObject, RequestDbError, WorkerTake, WorkerMark,
       WorkerRead, WorkerPurge, WorkerAdd, WorkerReady, WorkerFail, WorkerDbError, Crash,
       Recover, Recoverable, vars, rows, Written, RowsType
<1>2. ASSUME NEW r \in Requests,
             req'[r].pc \notin Ended \cup {"insert", "uploadCommit"}
      PROVE  status'[req'[r].file] # "none"
  <2>1. CASE req'[r] = req[r]
    BY <1>1, <1>2, <2>1 DEF RowsExist, RequestType, RequestOK
  <2>2. CASE req'[r].file = req[r].file /\ UNCHANGED status
             /\ req[r].pc \notin Ended \cup {"insert", "uploadCommit"}
    BY <2>2 DEF RowsExist
  <2>3. ASSUME NEW q \in Requests, Arrive(q) PROVE status'[req'[r].file] # "none"
    <3>1. ASSUME NEW c \in Contents, UploadLookup(q, c) PROVE status'[req'[r].file] # "none"
      <4>1. q # r
        BY <1>2, <3>1 DEF UploadLookup, Goto, RequestType, Request, Ended
      <4>2. req'[r] = req[r]
        BY <3>1, <4>1 DEF UploadLookup, Goto, RequestType
      <4>3. QED
        BY <2>1, <4>2
    <3>2. ASSUME NEW f \in Files, \/ RetryLoad(q, f) \/ DeleteLoad(q, f)
                                  \/ \E c \in Contents : SaveObject(q, f, c)
          PROVE  status'[req'[r].file] # "none"
      <4>1. CASE q # r
        <5>1. req'[r] = req[r]
          BY <3>2, <4>1 DEF RetryLoad, DeleteLoad, SaveObject, RequestType
        <5>2. QED
          BY <2>1, <5>1
      <4>2. CASE q = r
        <5>1. req'[r].file = f
          <6>1. CASE RetryLoad(q, f)
            BY <4>2, <6>1 DEF RetryLoad, RequestType, Request
          <6>2. CASE DeleteLoad(q, f)
            BY <4>2, <6>2 DEF DeleteLoad, RequestType, Request
          <6>3. CASE \E c \in Contents : SaveObject(q, f, c)
            BY <4>2, <6>3 DEF SaveObject, RequestType, Request
          <6>4. QED
            BY <3>2, <6>1, <6>2, <6>3
        <5>2. status'[f] # "none"
          BY <3>2 DEF RetryLoad, DeleteLoad, SaveObject, rows, Statuses, Active
        <5>3. QED
          BY <5>1, <5>2
      <4>3. QED
        BY <4>1, <4>2
    <3>3. QED
      BY <2>3, <3>1, <3>2 DEF Arrive
  <2>4. ASSUME NEW q \in Requests, Continue(q) PROVE status'[req'[r].file] # "none"
    <3>1. CASE q # r
      BY <2>1, <2>4, <3>1 DEF Continue, UploadInsert, UploadCommit, UploadEnqueue,
           RetryCommit, Enqueue, SaveCommit, DeletePurge, DeleteCommit, DeleteObject, Goto,
           RequestType
    <3>2. CASE q = r /\ UploadCommit(q)
      BY <3>2 DEF UploadCommit, Goto, RequestType, RequestOK, Request, RowsType, Ended
    <3>3. CASE q = r /\ ~UploadCommit(q)
      <4>1. CASE UploadInsert(q)
        BY <1>2, <3>3, <4>1 DEF UploadInsert, RequestType, Request
      <4>2. CASE ~UploadInsert(q)
        <5>1. /\ req'[r].file = req[r].file
              /\ req[r].pc \notin Ended \cup {"insert", "uploadCommit"}
          BY <2>4, <3>3, <4>2 DEF Continue, UploadEnqueue, RetryCommit, Enqueue, SaveCommit,
               DeletePurge, DeleteCommit, DeleteObject, Goto, RequestType, Request, Ended
        <5>2. QED
          BY <1>1, <5>1 DEF RowsExist, RequestType, RequestOK
      <4>3. QED
        BY <4>1, <4>2
    <3>4. QED
      BY <3>1, <3>2, <3>3
  <2>5. ASSUME NEW q \in Requests, RequestDbError(q) PROVE status'[req'[r].file] # "none"
    BY <1>2, <2>1, <2>5 DEF RequestDbError, Goto, RequestType, Request, Ended
  <2>6. CASE Work \/ WorkerDbError \/ Recover \/ UNCHANGED vars
    BY <2>1, <2>6 DEF Work, WorkerTake, WorkerMark, WorkerRead, WorkerPurge, WorkerAdd,
         WorkerReady, WorkerFail, WorkerDbError, Recover, vars
  <2>7. CASE Crash
    BY <1>2, <2>1, <2>7 DEF Crash, RequestType, Request, Ended
  <2>8. QED
    BY <2>3, <2>4, <2>5, <2>6, <2>7 DEF Next
<1>3. ASSUME worker'.pc # "idle" PROVE status'[worker'.file] # "none"
  <2>1. CASE WorkerTake
    BY <1>3, <2>1 DEF WorkerTake, rows, IdleWorker
  <2>2. CASE ~WorkerTake
    <3>1. worker'.file = worker.file /\ worker.pc # "idle"
      <4>1. CASE worker' = worker
        BY <1>3, <4>1
      <4>2. CASE WorkerMark \/ WorkerRead \/ WorkerPurge \/ WorkerAdd \/ WorkerDbError
        <5>1. CASE WorkerMark \/ WorkerPurge
          BY <5>1 DEF WorkerMark, WorkerPurge, WorkerType, Worker
        <5>2. CASE WorkerRead
          BY <5>2 DEF WorkerRead, WorkerType, Worker
        <5>3. CASE WorkerAdd
          BY <5>3 DEF WorkerAdd, WorkerType, Worker
        <5>4. CASE WorkerDbError
          BY <1>3, <5>4 DEF WorkerDbError, WorkerType, Worker, IdleWorker
        <5>5. QED
          BY <4>2, <5>1, <5>2, <5>3, <5>4
      <4>3. CASE WorkerReady \/ WorkerFail \/ Crash
        BY <1>3, <4>3 DEF WorkerReady, WorkerFail, Crash, IdleWorker
      <4>4. ASSUME NEW q \in Requests, Arrive(q) \/ Continue(q) \/ RequestDbError(q)
            PROVE  worker' = worker
        BY <4>4 DEF Arrive, Continue, UploadLookup, UploadInsert, UploadCommit,
             UploadEnqueue, RetryLoad, RetryCommit, Enqueue, SaveObject, SaveCommit,
             DeleteLoad, DeletePurge, DeleteCommit, DeleteObject, RequestDbError
      <4>5. CASE Recover \/ UNCHANGED vars
        BY <4>1, <4>5 DEF Recover, vars
      <4>6. QED
        BY <2>2, <4>1, <4>2, <4>3, <4>4, <4>5 DEF Next, Work
    <3>2. QED
      BY <1>1, <3>1 DEF RowsExist, WorkerType, WorkerOK
  <2>3. QED
    BY <2>1, <2>2
<1>4. QED
  BY <1>2, <1>3 DEF RowsExist

(***************************************************************************)
(* Each step keeps an id from being handed out, or created, twice.         *)
(***************************************************************************)
LEMMA IdsStep ==
  TypeOK /\ RowsExist /\ IdsAreFresh /\ [Next]_vars => IdsAreFresh'
<1> SUFFICES ASSUME TypeOK, RowsExist, IdsAreFresh, [Next]_vars PROVE IdsAreFresh'
  OBVIOUS
<1> USE DEF TypeOK
<1> DEFINE Creating(r) == req[r].pc = "uploadCommit"
<1>1. ASSUME UNCHANGED nextId,
             \A f \in Files : status[f] = "none" => status'[f] = "none",
             \A r \in Requests : Creating(r)' => Creating(r) /\ req'[r].file = req[r].file
      PROVE  IdsAreFresh'
  BY <1>1 DEF IdsAreFresh, RequestType, RequestOK, Ended
<1>2. ASSUME NEW r \in Requests, Arrive(r) PROVE IdsAreFresh'
  <2>1. UNCHANGED <<nextId, status>>
    BY <1>2 DEF Arrive, UploadLookup, RetryLoad, SaveObject, DeleteLoad, rows
  <2>2. req'[r].pc # "uploadCommit" /\ \A q \in Requests \ {r} : req'[q] = req[q]
    <3>1. ASSUME NEW c \in Contents, UploadLookup(r, c)
          PROVE  req'[r].pc # "uploadCommit" /\ \A q \in Requests \ {r} : req'[q] = req[q]
      BY <3>1 DEF UploadLookup, Goto, RequestType, Request
    <3>2. ASSUME NEW f \in Files, RetryLoad(r, f)
          PROVE  req'[r].pc # "uploadCommit" /\ \A q \in Requests \ {r} : req'[q] = req[q]
      BY <3>2 DEF RetryLoad, RequestType, Request
    <3>3. ASSUME NEW f \in Files, DeleteLoad(r, f)
          PROVE  req'[r].pc # "uploadCommit" /\ \A q \in Requests \ {r} : req'[q] = req[q]
      BY <3>3 DEF DeleteLoad, RequestType, Request
    <3>4. ASSUME NEW f \in Files, NEW c \in Contents, SaveObject(r, f, c)
          PROVE  req'[r].pc # "uploadCommit" /\ \A q \in Requests \ {r} : req'[q] = req[q]
      BY <3>4 DEF SaveObject, RequestType
    <3>5. QED
      BY <1>2, <3>1, <3>2, <3>3, <3>4 DEF Arrive
  <2>3. QED
    BY <1>1, <2>1, <2>2
<1>3. ASSUME NEW r \in Requests, UploadInsert(r) PROVE IdsAreFresh'
  <2>1. /\ nextId \in Files /\ nextId' = nextId + 1 /\ UNCHANGED status
        /\ status[nextId] = "none" /\ nextId \in Nat
    BY <1>3 DEF UploadInsert, IdsAreFresh, RowsType
  <2>2. /\ req'[r].pc = "uploadCommit" /\ req'[r].file = nextId
        /\ \A q \in Requests \ {r} : req'[q] = req[q]
    BY <1>3 DEF UploadInsert, RequestType, Request
  <2>3. \A f \in Files : f >= nextId' => status'[f] = "none"
    BY <2>1, FilesAssumption DEF IdsAreFresh, Files
  <2>4. ASSUME NEW q \in Requests, Creating(q)'
        PROVE  /\ req'[q].file < nextId'
               /\ status'[req'[q].file] = "none"
               /\ \A p \in Requests \ {q} : Creating(p)' => req'[p].file # req'[q].file
    <3>1. \A p \in Requests \ {r} : Creating(p)' =>
            /\ req'[p].file = req[p].file /\ req[p].file \in Files /\ req[p].file < nextId
            /\ status[req[p].file] = "none"
      BY <2>2 DEF IdsAreFresh, RequestType, RequestOK, Ended
    <3>2. Files \subseteq Nat
      BY DEF Files
    <3>3. CASE q = r
      BY <2>1, <2>2, <2>4, <3>1, <3>2, <3>3
    <3>4. CASE q # r
      <4>1. req'[q].file < nextId' /\ status'[req'[q].file] = "none"
        <5>1. req'[q].file \in Nat /\ req'[q].file < nextId
          BY <2>4, <3>1, <3>2, <3>4
        <5>2. status'[req'[q].file] = "none"
          BY <2>1, <2>4, <3>1, <3>4
        <5>3. QED
          BY <2>1, <5>1, <5>2
      <4>2. ASSUME NEW p \in Requests \ {q}, Creating(p)' PROVE req'[p].file # req'[q].file
        <5>1. CASE p = r
          BY <2>1, <2>2, <2>4, <3>1, <3>2, <3>4, <5>1
        <5>2. CASE p # r
          BY <2>2, <2>4, <3>4, <4>2, <5>2 DEF IdsAreFresh
        <5>3. QED
          BY <5>1, <5>2
      <4>3. QED
        BY <4>1, <4>2
    <3>5. QED
      BY <3>3, <3>4
  <2>5. QED
    BY <2>3, <2>4 DEF IdsAreFresh
<1>4. ASSUME NEW r \in Requests, UploadCommit(r) PROVE IdsAreFresh'
  <2>1. /\ UNCHANGED nextId /\ req[r].file \in Files /\ req[r].file < nextId
        /\ \A f \in Files : f # req[r].file => status'[f] = status[f]
    BY <1>4 DEF UploadCommit, IdsAreFresh, RequestType, RequestOK, Ended, RowsType
  <2>2. req'[r].pc # "uploadCommit" /\ \A q \in Requests \ {r} : req'[q] = req[q]
    BY <1>4 DEF UploadCommit, Goto, RequestType, Request
  <2>3. \A f \in Files : f >= nextId' => status'[f] = "none"
    BY <2>1 DEF IdsAreFresh, RowsType, Files
  <2>4. ASSUME NEW q \in Requests, Creating(q)'
        PROVE  /\ q # r /\ Creating(q) /\ req'[q] = req[q]
               /\ req[q].file # req[r].file /\ req[q].file \in Files
    BY <1>4, <2>2, <2>4 DEF UploadCommit, IdsAreFresh, RequestType, RequestOK, Ended
  <2>5. QED
    BY <2>1, <2>3, <2>4 DEF IdsAreFresh
<1>5. ASSUME NEW r \in Requests, Continue(r), ~UploadInsert(r), ~UploadCommit(r)
      PROVE  IdsAreFresh'
  <2>1. /\ req[r].file \in Files /\ status[req[r].file] # "none"
    BY <1>5 DEF Continue, UploadEnqueue, RetryCommit, Enqueue, SaveCommit, DeletePurge,
         DeleteCommit, DeleteObject, RowsExist, RequestType, RequestOK, Ended
  <2>2. UNCHANGED nextId /\ \A f \in Files : f # req[r].file => status'[f] = status[f]
    BY <1>5 DEF Continue, UploadEnqueue, RetryCommit, Enqueue, SaveCommit, DeletePurge,
         DeleteCommit, DeleteObject, rows, RowsType
  <2>3. req'[r].pc # "uploadCommit" /\ \A q \in Requests \ {r} : req'[q] = req[q]
    BY <1>5 DEF Continue, UploadEnqueue, RetryCommit, Enqueue, SaveCommit, DeletePurge,
         DeleteCommit, DeleteObject, Goto, RequestType, Request
  <2>4. QED
    BY <1>1, <2>1, <2>2, <2>3
<1>6. ASSUME NEW r \in Requests, RequestDbError(r) PROVE IdsAreFresh'
  <2>1. UNCHANGED <<nextId, status>>
    BY <1>6 DEF RequestDbError, rows
  <2>2. req'[r].pc # "uploadCommit" /\ \A q \in Requests \ {r} : req'[q] = req[q]
    BY <1>6 DEF RequestDbError, Goto, RequestType, Request
  <2>3. QED
    BY <1>1, <2>1, <2>2
<1>7. CASE Work \/ WorkerDbError
  <2>1. UNCHANGED <<nextId, req>>
    BY <1>7 DEF Work, WorkerTake, WorkerMark, WorkerRead, WorkerPurge, WorkerAdd,
         WorkerReady, WorkerFail, WorkerDbError, rows
  <2>2. \A f \in Files : status[f] = "none" => status'[f] = "none"
    BY <1>7 DEF Work, WorkerTake, WorkerMark, WorkerRead, WorkerPurge, WorkerAdd,
         WorkerReady, WorkerFail, WorkerDbError, rows, RowsExist, RowsType
  <2>3. QED
    BY <1>1, <2>1, <2>2
<1>8. CASE Crash
  <2>1. UNCHANGED <<nextId, status>> /\ \A r \in Requests : ~Creating(r)'
    BY <1>8 DEF Crash, rows, RequestType, Request, Ended
  <2>2. QED
    BY <1>1, <2>1
<1>9. CASE Recover
  <2>1. UNCHANGED <<nextId, req>> /\ \A f \in Files : status[f] = "none" => status'[f] = "none"
    BY <1>9 DEF Recover, Recoverable
  <2>2. QED
    BY <1>1, <2>1
<1>10. CASE UNCHANGED vars
  BY <1>1, <1>10 DEF vars
<1>11. QED
  BY <1>2, <1>3, <1>4, <1>5, <1>6, <1>7, <1>8, <1>9, <1>10 DEF Next, Work

(***************************************************************************)
(* A buried file stays buried: whoever loads its row from now on sees it   *)
(* deleted, and the one handler that creates rows has an id of its own.    *)
(***************************************************************************)
LEMMA BuriedStep ==
  ASSUME NEW f \in Files, TypeOK, IdsAreFresh, Buried(f), [Next]_vars
  PROVE  Buried(f)'
<1> USE DEF TypeOK
<1>0. /\ status[f] = "deleted" /\ ~Ingesting(f)
      /\ \A r \in Requests :
           req[r].pc \in {"retryCommit", "saveCommit"} => req[r].file # f
  BY DEF Buried, StaleWriter
<1>1. ASSUME status'[f] = "deleted", ~Ingesting(f)',
             \A r \in Requests : req'[r].pc \in {"retryCommit", "saveCommit"} =>
                                   req'[r].file # f
      PROVE  Buried(f)'
  BY <1>1 DEF Buried, StaleWriter
<1>2. ASSUME NEW r \in Requests, Arrive(r) PROVE Buried(f)'
  <2>1. UNCHANGED <<status, worker>>
    BY <1>2 DEF Arrive, UploadLookup, RetryLoad, SaveObject, DeleteLoad, rows
  <2>2. /\ req'[r].pc \in {"retryCommit", "saveCommit"} => req'[r].file # f
        /\ \A q \in Requests \ {r} : req'[q] = req[q]
    <3>1. ASSUME NEW c \in Contents, UploadLookup(r, c)
          PROVE  /\ req'[r].pc \notin {"retryCommit", "saveCommit"}
                 /\ \A q \in Requests \ {r} : req'[q] = req[q]
      BY <3>1 DEF UploadLookup, Goto, RequestType, Request
    <3>2. ASSUME NEW g \in Files, RetryLoad(r, g)
          PROVE  /\ req'[r].pc \in {"retryCommit", "saveCommit"} => req'[r].file # f
                 /\ \A q \in Requests \ {r} : req'[q] = req[q]
      BY <1>0, <3>2 DEF RetryLoad, RequestType, Request
    <3>3. ASSUME NEW g \in Files, DeleteLoad(r, g)
          PROVE  /\ req'[r].pc \notin {"retryCommit", "saveCommit"}
                 /\ \A q \in Requests \ {r} : req'[q] = req[q]
      BY <3>3 DEF DeleteLoad, RequestType, Request
    <3>4. ASSUME NEW g \in Files, NEW c \in Contents, SaveObject(r, g, c)
          PROVE  /\ req'[r].file # f
                 /\ \A q \in Requests \ {r} : req'[q] = req[q]
      BY <1>0, <3>4 DEF SaveObject, RequestType
    <3>5. QED
      BY <1>2, <3>1, <3>2, <3>3, <3>4 DEF Arrive
  <2>3. QED
    BY <1>0, <1>1, <2>1, <2>2 DEF Ingesting
<1>3. ASSUME NEW r \in Requests, Continue(r) PROVE Buried(f)'
  <2>1. UNCHANGED worker
    BY <1>3 DEF Continue, UploadInsert, UploadCommit, UploadEnqueue, RetryCommit, Enqueue,
         SaveCommit, DeletePurge, DeleteCommit, DeleteObject
  <2>2. status'[f] = "deleted"
    <3>1. CASE UploadCommit(r)
      BY <1>0, <3>1 DEF UploadCommit, IdsAreFresh, RowsType
    <3>2. CASE RetryCommit(r) \/ SaveCommit(r)
      BY <1>0, <3>2 DEF RetryCommit, SaveCommit, RowsType
    <3>3. CASE DeleteCommit(r)
      BY <1>0, <3>3 DEF DeleteCommit, RowsType, Written
    <3>4. QED
      BY <1>0, <1>3, <3>1, <3>2, <3>3 DEF Continue, UploadInsert, UploadEnqueue, Enqueue,
         DeletePurge, DeleteObject, rows
  <2>3. /\ req'[r].pc \notin {"retryCommit", "saveCommit"}
        /\ \A q \in Requests \ {r} : req'[q] = req[q]
    BY <1>3 DEF Continue, UploadInsert, UploadCommit, UploadEnqueue, RetryCommit, Enqueue,
         SaveCommit, DeletePurge, DeleteCommit, DeleteObject, Goto, RequestType, Request
  <2>4. QED
    BY <1>0, <1>1, <2>1, <2>2, <2>3 DEF Ingesting
<1>4. ASSUME NEW r \in Requests, RequestDbError(r) PROVE Buried(f)'
  <2>1. UNCHANGED <<status, worker>>
    BY <1>4 DEF RequestDbError, rows
  <2>2. /\ req'[r].pc \notin {"retryCommit", "saveCommit"}
        /\ \A q \in Requests \ {r} : req'[q] = req[q]
    BY <1>4 DEF RequestDbError, Goto, RequestType, Request
  <2>3. QED
    BY <1>0, <1>1, <2>1, <2>2 DEF Ingesting
<1>5. CASE WorkerTake
  BY <1>0, <1>1, <1>5 DEF WorkerTake, rows, Ingesting, IdleWorker
<1>6. CASE WorkerMark \/ WorkerReady \/ WorkerFail
  BY <1>0, <1>1, <1>6 DEF WorkerMark, WorkerReady, WorkerFail, Ingesting, RowsType,
     WorkerType, Worker, IdleWorker
<1>7. CASE WorkerRead \/ WorkerPurge \/ WorkerAdd \/ WorkerDbError
  <2>1. UNCHANGED <<status, req>>
    BY <1>7 DEF WorkerRead, WorkerPurge, WorkerAdd, WorkerDbError, rows
  <2>2. ~Ingesting(f)'
    <3>1. CASE WorkerRead
      BY <1>0, <3>1 DEF WorkerRead, Ingesting, WorkerType, Worker
    <3>2. CASE WorkerPurge
      BY <1>0, <3>2 DEF WorkerPurge, Ingesting, WorkerType, Worker
    <3>3. CASE WorkerAdd
      BY <1>0, <3>3 DEF WorkerAdd, Ingesting, WorkerType, Worker
    <3>4. CASE WorkerDbError
      BY <1>0, <3>4 DEF WorkerDbError, Ingesting, WorkerType, Worker, IdleWorker
    <3>5. QED
      BY <1>7, <3>1, <3>2, <3>3, <3>4
  <2>3. QED
    BY <1>0, <1>1, <2>1, <2>2
<1>8. CASE Crash
  BY <1>0, <1>1, <1>8 DEF Crash, rows, Ingesting, IdleWorker, RequestType, Request, Ended
<1>9. CASE Recover
  BY <1>0, <1>1, <1>9 DEF Recover, Recoverable, Ingesting
<1>10. CASE UNCHANGED vars
  BY <1>0, <1>1, <1>10 DEF vars, Ingesting
<1>11. QED
  BY <1>2, <1>3, <1>4, <1>5, <1>6, <1>7, <1>8, <1>9, <1>10 DEF Next, Work

(***************************************************************************)
(* A deletion that no ingestion, retry or save straddles is final, for     *)
(* every number of files, requests and restarts.                           *)
(***************************************************************************)
THEOREM DeletionFinal == Spec => DeletionIsFinal
<1>1. Init => RowsExist /\ IdsAreFresh
  BY DEF Init, RowsExist, IdsAreFresh, NewRequest, IdleWorker, Ended
<1>2. Spec => [](TypeOK /\ IdsAreFresh)
  BY <1>1, TypeCorrect, RowsStep, IdsStep, PTL DEF Spec
<1>3. TypeOK /\ IdsAreFresh /\ [Next]_vars
      => [\A f \in Files : Buried(f) => Buried(f)']_vars
  BY BuriedStep
<1>4. QED
  BY <1>2, <1>3, PTL DEF Spec, DeletionIsFinal

(***************************************************************************)
(* The invariant that carries the properties above holds.                  *)
(***************************************************************************)
THEOREM InvariantHolds == Spec => []IInv
<1>1. Init => RowsExist /\ IdsAreFresh /\ IndexingIsWorked /\ PendingIsCovered
  BY DEF Init, RowsExist, IdsAreFresh, NewRequest, IdleWorker, Ended, IndexingIsWorked,
     PendingIsCovered
<1>2. QED
  BY <1>1, TypeCorrect, RowsStep, IdsStep, IndexingStep, PendingStep, PTL DEF Spec, IInv


-----------------------------------------------------------------------------
(* What the row, the storage and the vector store say of one file, while a *)
(* worker, deletes and saves are at different points of it.                *)

\* A handler working on f is at one of the points P.
At(f, P) == \E r \in Requests : req[r].pc \in P /\ req[r].file = f

\* A later pass over f is certain unless an error or a restart prevents it.
Pending(f) ==
  Queued(f) \/ At(f, {"enqueue"}) \/ (f \in Supported /\ At(f, {"saveCommit"}))

\* A stopped process has no task and no queue.
Stopped ==
  ~up => queue = <<>> /\ worker = IdleWorker /\ \A r \in Requests : req[r].pc \in Ended

\* Only a file with a row gets chunks.
NoRowNoChunks == \A f \in Files : status[f] = "none" => chunks[f] = {}

\* Nobody who loaded the row before still writes it.
DeletesAlone ==
  \A f \in Files \ raced : Deleting(f) \/ status[f] = "deleted" => ~StaleWriter(f)

\* A delete goes through its four points.
DeletesProceed ==
  \A r \in Requests : req[r].file \in Files \ raced =>
    /\ req[r].pc \in {"deleteCommit", "deleteObject"} => chunks[req[r].file] = {}
    /\ (req[r].pc \in {"purge", "deleteCommit"} /\ req[r].seen = "deleted")
         \/ req[r].pc = "deleteObject" => status[req[r].file] = "deleted"

\* A deleted file has no chunks, and its object is gone or about to go.
DeletedIsGone ==
  \A f \in Files \ (raced \cup torn) : status[f] = "deleted" =>
    /\ chunks[f] = {}
    /\ object[f] = None \/ At(f, {"deleteObject"})

\* Only a file that can be read is split, indexed and found ready.
OnlySupported ==
  /\ worker.pc \in {"purge", "add", "ready"} => worker.file \in Supported
  /\ \A f \in Files : status[f] = "ready" => f \in Supported

\* What the worker has in hand: the row is not "ready" once it is marked, and
\* the content read is the stored one or a later pass is certain.
PassIsFresh ==
  LET f == worker.file
  IN  /\ worker.pc = "mark" /\ status[f] = "ready" => worker.seen = "ready"
      /\ worker.pc \in {"read", "purge", "add", "ready", "fail"} => status[f] # "ready"
      /\ worker.pc # "idle" /\ f \notin raced =>
           /\ worker.pc = "add" => chunks[f] = {}
           /\ worker.pc = "ready" => chunks[f] = {worker.content}
           /\ worker.pc \in {"purge", "add", "ready"} /\ f \notin torn \cup dropped =>
                worker.content = object[f] \/ Pending(f)

\* A ready file is indexed with the stored content, or a pass or a delete that
\* changes that is under way.
ReadyIsIndexed ==
  \A f \in Files \ (torn \cup dropped \cup raced) : status[f] = "ready" =>
    \/ chunks[f] = {object[f]}
    \/ Pending(f)
    \/ worker.pc = "mark" /\ worker.file = f
    \/ At(f, {"deleteCommit"})

(***************************************************************************)
(* A step of handler r leaves the worker and the other handlers alone, and *)
(* only adds to the queue and to the histories.                            *)
(***************************************************************************)
LEMMA HandlerFrame ==
  ASSUME TypeOK, NEW r \in Requests, Arrive(r) \/ Continue(r) \/ RequestDbError(r)
  PROVE  /\ up /\ up' /\ worker' = worker
         /\ \A q \in Requests \ {r} : req'[q] = req[q]
         /\ raced \subseteq raced' /\ torn \subseteq torn' /\ dropped \subseteq dropped'
         /\ \A f \in Files : Queued(f) => Queued(f)'
<1> USE DEF TypeOK
<1>1. CASE Arrive(r)
  <2>1. ASSUME NEW c \in Contents, UploadLookup(r, c)
        PROVE  /\ up /\ up' /\ worker' = worker
               /\ \A q \in Requests \ {r} : req'[q] = req[q]
               /\ raced \subseteq raced' /\ torn \subseteq torn' /\ dropped \subseteq dropped'
               /\ queue' = queue \/ \E g \in Files : queue' = Append(queue, g)
    BY <2>1 DEF UploadLookup, Goto, RequestType, process, history
  <2>2. ASSUME NEW g \in Files, \/ RetryLoad(r, g) \/ DeleteLoad(r, g)
                                \/ \E c \in Contents : SaveObject(r, g, c)
        PROVE  /\ up /\ up' /\ worker' = worker
               /\ \A q \in Requests \ {r} : req'[q] = req[q]
               /\ raced \subseteq raced' /\ torn \subseteq torn' /\ dropped \subseteq dropped'
               /\ queue' = queue
    BY <2>2 DEF RetryLoad, DeleteLoad, SaveObject, Overlap, RequestType, process
  <2>3. queue' = queue \/ \E g \in Files : queue' = Append(queue, g)
    BY <1>1, <2>1, <2>2 DEF Arrive
  <2>4. \A f \in Files : Queued(f) => Queued(f)'
    BY <2>3, AppendQueues DEF Queued
  <2>5. QED
    BY <1>1, <2>1, <2>2, <2>4 DEF Arrive
<1>2. CASE Continue(r)
  <2>1. /\ up /\ up' /\ worker' = worker
        /\ \A q \in Requests \ {r} : req'[q] = req[q]
        /\ raced \subseteq raced' /\ torn \subseteq torn' /\ dropped \subseteq dropped'
    BY <1>2 DEF Continue, UploadInsert, UploadCommit, UploadEnqueue, RetryCommit, Enqueue,
         SaveCommit, DeletePurge, DeleteCommit, DeleteObject, Goto, RequestType, process,
         history
  <2>2. queue' = queue \/ \E g \in Files : queue' = Append(queue, g)
    BY <1>2 DEF Continue, UploadInsert, UploadCommit, UploadEnqueue, RetryCommit, Enqueue,
         SaveCommit, DeletePurge, DeleteCommit, DeleteObject, RequestType, RequestOK, Ended
  <2>3. \A f \in Files : Queued(f) => Queued(f)'
    BY <2>2, AppendQueues DEF Queued
  <2>4. QED
    BY <2>1, <2>3
<1>3. CASE RequestDbError(r)
  BY <1>3 DEF RequestDbError, Goto, RequestType, process, Queued
<1>4. QED
  BY <1>1, <1>2, <1>3

(***************************************************************************)
(* A step of the worker leaves the handlers and the objects alone, and     *)
(* only adds to the histories.                                             *)
(***************************************************************************)
LEMMA WorkerFrame ==
  ASSUME TypeOK, Work \/ WorkerDbError
  PROVE  /\ up /\ up' /\ req' = req /\ object' = object
         /\ raced \subseteq raced' /\ torn' = torn /\ dropped \subseteq dropped'
BY DEF Work, WorkerTake, WorkerMark, WorkerRead, WorkerPurge, WorkerAdd, WorkerReady,
   WorkerFail, WorkerDbError, Overlap, process, history

(***************************************************************************)
(* How a status changes: a row never goes away, only the worker makes a    *)
(* file ready, and only a delete makes it deleted.                         *)
(***************************************************************************)
LEMMA StatusStep ==
  ASSUME TypeOK, NEW f \in Files, [Next]_vars
  PROVE  /\ status[f] # "none" => status'[f] # "none"
         /\ status'[f] = "ready" =>
              status[f] = "ready" \/ (WorkerReady /\ worker.file = f)
         /\ status'[f] = "deleted" =>
              \/ status[f] = "deleted"
              \/ \E r \in Requests : DeleteCommit(r) /\ req[r].file = f
<1> USE DEF TypeOK
<1>1. ASSUME NEW r \in Requests, Arrive(r) \/ RequestDbError(r) PROVE UNCHANGED status
  BY <1>1 DEF Arrive, UploadLookup, RetryLoad, DeleteLoad, SaveObject, RequestDbError, rows
<1>2. ASSUME NEW r \in Requests, Continue(r)
      PROVE  \/ status'[f] = status[f] \/ status'[f] = "uploaded"
             \/ DeleteCommit(r) /\ req[r].file = f /\ status'[f] = "deleted"
  BY <1>2 DEF Continue, UploadInsert, UploadCommit, UploadEnqueue, RetryCommit, Enqueue,
       SaveCommit, DeletePurge, DeleteCommit, DeleteObject, rows, Written, RowsType
<1>3. CASE Work \/ WorkerDbError
  BY <1>3 DEF Work, WorkerTake, WorkerMark, WorkerRead, WorkerPurge, WorkerAdd, WorkerReady,
       WorkerFail, WorkerDbError, rows, Written, RowsType
<1>4. CASE Crash \/ Recover \/ UNCHANGED vars
  BY <1>4 DEF Crash, Recover, Recoverable, vars, rows, RowsType
<1>5. QED
  BY <1>1, <1>2, <1>3, <1>4 DEF Next

(***************************************************************************)
(* A stopped process has no task.                                          *)
(***************************************************************************)
LEMMA StoppedStep == TypeOK /\ Stopped /\ [Next]_vars => Stopped'
<1> SUFFICES ASSUME TypeOK, Stopped, [Next]_vars PROVE Stopped'
  OBVIOUS
<1>1. ASSUME NEW r \in Requests, Arrive(r) \/ Continue(r) \/ RequestDbError(r) PROVE Stopped'
  BY <1>1, HandlerFrame DEF Stopped
<1>2. CASE Work \/ WorkerDbError
  BY <1>2, WorkerFrame DEF Stopped
<1>3. CASE Crash
  BY <1>3 DEF Crash, Stopped, Ended, TypeOK, RequestType, Request
<1>4. CASE Recover \/ UNCHANGED vars
  BY <1>4 DEF Recover, vars, Stopped
<1>5. QED
  BY <1>1, <1>2, <1>3, <1>4 DEF Next

(***************************************************************************)
(* Only a file with a row gets chunks.                                     *)
(***************************************************************************)
LEMMA NoRowStep == TypeOK /\ RowsExist /\ NoRowNoChunks /\ [Next]_vars => NoRowNoChunks'
<1> SUFFICES ASSUME TypeOK, RowsExist, NoRowNoChunks, [Next]_vars,
                    NEW f \in Files, status'[f] = "none"
             PROVE  chunks'[f] = {}
  BY DEF NoRowNoChunks
<1> USE DEF TypeOK
<1>1. status[f] = "none" /\ chunks[f] = {}
  BY StatusStep DEF NoRowNoChunks
<1>2. ASSUME NEW r \in Requests, Arrive(r) \/ Continue(r) \/ RequestDbError(r)
      PROVE  chunks'[f] = {}
  BY <1>1, <1>2 DEF Arrive, UploadLookup, RetryLoad, DeleteLoad, SaveObject, RequestDbError,
     Continue, UploadInsert, UploadCommit, UploadEnqueue, RetryCommit, Enqueue,
     SaveCommit, DeletePurge, DeleteCommit, DeleteObject, StoresType
<1>3. CASE Work \/ WorkerDbError
  BY <1>1, <1>3 DEF Work, WorkerTake, WorkerMark, WorkerRead, WorkerPurge, WorkerAdd,
     WorkerReady, WorkerFail, WorkerDbError, RowsExist, StoresType
<1>4. CASE Crash \/ Recover \/ UNCHANGED vars
  BY <1>1, <1>4 DEF Crash, Recover, vars
<1>5. QED
  BY <1>2, <1>3, <1>4 DEF Next

(***************************************************************************)
(* A file that is being deleted, or is deleted, has no other writer unless *)
(* the history says so.                                                    *)
(***************************************************************************)
LEMMA AloneStep == TypeOK /\ DeletesAlone /\ [Next]_vars => DeletesAlone'
<1> SUFFICES ASSUME TypeOK, DeletesAlone, [Next]_vars, NEW f \in Files, f \notin raced',
                    Deleting(f)' \/ status'[f] = "deleted"
             PROVE  ~StaleWriter(f)'
  BY DEF DeletesAlone
<1> USE DEF TypeOK
<1>1. ASSUME f \notin raced, Deleting(f) \/ status[f] = "deleted" PROVE ~StaleWriter(f)
  BY <1>1 DEF DeletesAlone
<1>2. ASSUME NEW r \in Requests, Arrive(r) PROVE ~StaleWriter(f)'
  <2>1. /\ worker' = worker /\ \A q \in Requests \ {r} : req'[q] = req[q]
        /\ f \notin raced /\ status' = status
    BY <1>2, HandlerFrame DEF Arrive, UploadLookup, RetryLoad, DeleteLoad, SaveObject, rows
  <2>2. ASSUME NEW c \in Contents, UploadLookup(r, c)
        PROVE  req'[r].pc \in Ended \cup {"insert"}
    BY <2>2 DEF UploadLookup, Goto, RequestType, Request, Ended
  <2>3. ASSUME NEW g \in Files, RetryLoad(r, g)
        PROVE  /\ req'[r].file = g
               /\ req'[r].pc = IF status[g] = "deleted" THEN "rejected" ELSE "retryCommit"
               /\ status[g] # "deleted" /\ Deleting(g) => g \in raced'
    BY <2>3 DEF RetryLoad, Overlap, RequestType, Request
  <2>4. ASSUME NEW g \in Files, DeleteLoad(r, g)
        PROVE  /\ req'[r].file = g /\ req'[r].pc = "purge"
               /\ StaleWriter(g) => g \in raced'
    BY <2>4 DEF DeleteLoad, Overlap, RequestType, Request
  <2>5. ASSUME NEW g \in Files, NEW c \in Contents, SaveObject(r, g, c)
        PROVE  /\ req'[r].file = g /\ req'[r].pc = "saveCommit"
               /\ status[g] # "deleted" /\ Deleting(g) => g \in raced'
    BY <2>5 DEF SaveObject, Overlap, RequestType, Request
  <2>6. CASE req'[r].pc \in Ended \cup {"insert"}
    BY <1>1, <2>1, <2>6 DEF StaleWriter, Deleting, Ingesting, Ended
  <2>7. CASE req'[r].file # f
    BY <1>1, <2>1, <2>7 DEF StaleWriter, Deleting, Ingesting
  <2>8. CASE RetryLoad(r, f) \/ \E c \in Contents : SaveObject(r, f, c)
    <3>1. /\ req'[r].pc \in {"rejected", "retryCommit", "saveCommit"}
          /\ req'[r].pc # "rejected" => status[f] # "deleted" /\ ~Deleting(f)
      <4>1. CASE RetryLoad(r, f)
        BY <2>3, <4>1
      <4>2. ASSUME NEW c \in Contents, SaveObject(r, f, c)
            PROVE  /\ req'[r].pc = "saveCommit" /\ status[f] # "deleted"
                   /\ ~Deleting(f)
        BY <2>5, <4>2 DEF SaveObject
      <4>3. QED
        BY <2>8, <4>1, <4>2
    <3>2. Deleting(f)' => Deleting(f)
      BY <2>1, <3>1 DEF Deleting
    <3>3. CASE req'[r].pc = "rejected"
      BY <1>1, <2>1, <3>2, <3>3 DEF StaleWriter, Ingesting
    <3>4. CASE req'[r].pc # "rejected"
      BY <2>1, <3>1, <3>2, <3>4
    <3>5. QED
      BY <3>3, <3>4
  <2>9. CASE DeleteLoad(r, f)
    <3>1. req'[r].pc = "purge" /\ (StaleWriter(f) => f \in raced')
      BY <2>4, <2>9
    <3>2. QED
      BY <2>1, <3>1 DEF StaleWriter, Ingesting
  <2>10. QED
    <3>1. CASE \E c \in Contents : UploadLookup(r, c)
      BY <2>2, <2>6, <3>1
    <3>2. ASSUME NEW g \in Files, RetryLoad(r, g) \/ \E c \in Contents : SaveObject(r, g, c)
          PROVE  ~StaleWriter(f)'
      BY <2>3, <2>5, <2>7, <2>8, <3>2
    <3>3. ASSUME NEW g \in Files, DeleteLoad(r, g) PROVE ~StaleWriter(f)'
      BY <2>4, <2>7, <2>9, <3>3
    <3>4. QED
      BY <1>2, <3>1, <3>2, <3>3 DEF Arrive
<1>3. ASSUME NEW r \in Requests, Continue(r) \/ RequestDbError(r) PROVE ~StaleWriter(f)'
  <2>1. /\ worker' = worker /\ \A q \in Requests \ {r} : req'[q] = req[q]
        /\ f \notin raced
    BY <1>3, HandlerFrame
  <2>2. CASE RequestDbError(r) \/ UploadInsert(r) \/ UploadCommit(r) \/ UploadEnqueue(r)
             \/ RetryCommit(r) \/ Enqueue(r) \/ SaveCommit(r)
    <3>1. req'[r].pc \notin {"retryCommit", "saveCommit", "purge", "deleteCommit",
                             "deleteObject"}
      BY <2>2 DEF UploadInsert, UploadCommit, UploadEnqueue, RetryCommit, Enqueue,
         SaveCommit, RequestDbError, Goto, RequestType, Request
    <3>2. status'[f] = "deleted" => status[f] = "deleted"
      BY <2>2 DEF UploadInsert, UploadCommit, UploadEnqueue, RetryCommit, Enqueue,
         SaveCommit, RequestDbError, rows, Written, RowsType
    <3>3. QED
      BY <1>1, <2>1, <3>1, <3>2 DEF StaleWriter, Deleting, Ingesting
  <2>3. CASE DeletePurge(r) \/ DeleteCommit(r) \/ DeleteObject(r)
    <3>1. /\ req'[r].file = req[r].file
          /\ req[r].pc \in {"purge", "deleteCommit", "deleteObject"}
          /\ req'[r].pc \in {"done", "deleteCommit", "deleteObject"}
      BY <2>3 DEF DeletePurge, DeleteCommit, DeleteObject, Goto, RequestType, Request
    <3>2. status'[f] = "deleted" => status[f] = "deleted" \/ req[r].file = f
      BY <2>3 DEF DeletePurge, DeleteCommit, DeleteObject, rows, Written, RowsType
    <3>3. QED
      BY <1>1, <2>1, <3>1, <3>2 DEF StaleWriter, Deleting, Ingesting
  <2>4. QED
    BY <1>3, <2>2, <2>3 DEF Continue
<1>4. CASE WorkerTake
  <2>1. f \notin raced /\ req' = req /\ status' = status
    BY <1>4 DEF WorkerTake, Overlap, rows
  <2>2. \/ worker' = worker
        \/ /\ status[worker'.file] # "deleted"
           /\ Deleting(worker'.file) => worker'.file \in raced'
    BY <1>4 DEF WorkerTake, Overlap, IdleWorker
  <2>3. QED
    BY <1>1, <2>1, <2>2 DEF StaleWriter, Deleting, Ingesting
<1>5. CASE (Work /\ ~WorkerTake) \/ WorkerDbError
  <2>1. f \notin raced /\ req' = req
    BY <1>5, WorkerFrame
  <2>3. worker'.pc # "idle" => worker'.file = worker.file /\ worker.pc # "idle"
    <3>1. CASE WorkerDbError
      BY <3>1 DEF WorkerDbError, IdleWorker, WorkerType, Worker
    <3>2. CASE WorkerReady \/ WorkerFail
      BY <3>2 DEF WorkerReady, WorkerFail, IdleWorker
    <3>3. CASE WorkerMark \/ WorkerPurge
      BY <3>3 DEF WorkerMark, WorkerPurge, WorkerType, Worker
    <3>4. CASE WorkerRead
      BY <3>4 DEF WorkerRead, WorkerType, Worker
    <3>5. CASE WorkerAdd
      BY <3>5 DEF WorkerAdd, WorkerType, Worker
    <3>6. QED
      BY <1>5, <3>1, <3>2, <3>3, <3>4, <3>5 DEF Work
  <2>2. status'[f] = "deleted" => status[f] = "deleted"
    BY <1>5 DEF Work, WorkerMark, WorkerRead, WorkerPurge, WorkerAdd, WorkerReady,
       WorkerFail, WorkerDbError, rows, Written, RowsType
  <2>4. QED
    BY <1>1, <2>1, <2>2, <2>3 DEF StaleWriter, Deleting, Ingesting
<1>6. CASE Crash
  BY <1>6 DEF Crash, StaleWriter, Ingesting, IdleWorker, RequestType, Request, Ended
<1>7. CASE Recover \/ UNCHANGED vars
  BY <1>1, <1>7 DEF Recover, Recoverable, vars, StaleWriter, Deleting, Ingesting, RowsType
<1>8. QED
  BY <1>2, <1>3, <1>4, <1>5, <1>6, <1>7 DEF Next

(***************************************************************************)
(* A delete goes through its points: the chunks go, then the row, then the *)
(* object.                                                                 *)
(***************************************************************************)
LEMMA ProceedStep ==
  TypeOK /\ IdsAreFresh /\ DeletesAlone /\ DeletesProceed /\ [Next]_vars => DeletesProceed'
<1> DEFINE Done(q) == /\ req[q].pc \in {"deleteCommit", "deleteObject"} =>
                           chunks[req[q].file] = {}
                      /\ (req[q].pc \in {"purge", "deleteCommit"} /\ req[q].seen = "deleted")
                           \/ req[q].pc = "deleteObject" => status[req[q].file] = "deleted"
<1> SUFFICES ASSUME TypeOK, IdsAreFresh, DeletesAlone, DeletesProceed, [Next]_vars,
                    NEW q \in Requests, req'[q].file \in Files \ raced'
             PROVE  Done(q)'
  BY DEF DeletesProceed
<1> USE DEF TypeOK
<1>0. ASSUME req[q].file \in Files \ raced PROVE Done(q)
  BY <1>0 DEF DeletesProceed
<1>1. ASSUME NEW f \in Files \ raced, Deleting(f)
      PROVE  ~StaleWriter(f) /\ (status[f] = "deleted" => status'[f] = "deleted")
  BY <1>1, BuriedStep DEF DeletesAlone, Buried
<1>2. ASSUME NEW f \in Files \ raced, Deleting(f), chunks[f] = {} PROVE chunks'[f] = {}
  <2>1. ~Ingesting(f)
    BY <1>1, <1>2 DEF StaleWriter
  <2>2. QED
    BY <1>2, <2>1, ZenonT(40) DEF Next, Arrive, Continue, Work, UploadLookup, UploadInsert, UploadCommit,
       UploadEnqueue, RetryLoad, RetryCommit, Enqueue, SaveObject, SaveCommit, DeleteLoad,
       DeletePurge, DeleteCommit, DeleteObject, RequestDbError, WorkerTake, WorkerMark,
       WorkerRead, WorkerPurge, WorkerAdd, WorkerReady, WorkerFail, WorkerDbError, Crash,
       Recover, vars, StoresType, Ingesting
<1>3. raced \subseteq raced'
  BY HandlerFrame, WorkerFrame DEF Next, Crash, Recover, vars
<1>4. CASE req'[q] = req[q]
  BY <1>0, <1>1, <1>2, <1>3, <1>4 DEF Deleting
<1>5. ASSUME NEW r \in Requests, Arrive(r) \/ Continue(r) \/ RequestDbError(r)
      PROVE  Done(q)'
  <2>1. CASE q # r
    BY <1>4, <1>5, <2>1, HandlerFrame
  <2>2. CASE q = r /\ DeletePurge(r)
    <3>1. /\ req[r].pc = "purge" /\ req'[r] = [req[r] EXCEPT !.pc = "deleteCommit"]
          /\ chunks'[req[r].file] = {} /\ status' = status
      BY <2>2 DEF DeletePurge, Goto, RequestType, RequestOK, Ended, StoresType, rows
    <3>2. req[r].file = req'[r].file /\ req[r].seen = req'[r].seen /\ req'[r].pc = "deleteCommit"
      BY <3>1 DEF RequestType, Request
    <3>3. QED
      BY <1>0, <1>3, <2>2, <3>1, <3>2
  <2>3. CASE q = r /\ DeleteCommit(r)
    <3>1. /\ req[r].pc = "deleteCommit" /\ req'[r] = [req[r] EXCEPT !.pc = "deleteObject"]
          /\ chunks' = chunks
          /\ status'[req[r].file] = Written(req[r].seen, "deleted", status[req[r].file])
      BY <2>3 DEF DeleteCommit, Goto, RequestType, RequestOK, Ended, RowsType
    <3>2. req[r].file = req'[r].file /\ req'[r].pc = "deleteObject"
      BY <3>1 DEF RequestType, Request
    <3>3. QED
      BY <1>0, <1>3, <2>3, <3>1, <3>2 DEF Written
  <2>4. CASE q = r /\ \E g \in Files : DeleteLoad(r, g)
    <3>1. PICK g \in Files : DeleteLoad(r, g)
      BY <2>4
    <3>2. req'[r].pc = "purge" /\ req'[r].file = g /\ req'[r].seen = status[g]
          /\ status' = status
      BY <3>1 DEF DeleteLoad, RequestType, Request, rows
    <3>3. QED
      BY <2>4, <3>2
  <2>5. CASE q = r /\ ~DeletePurge(r) /\ ~DeleteCommit(r) /\ ~\E g \in Files : DeleteLoad(r, g)
    <3>1. req'[r].pc \notin {"purge", "deleteCommit", "deleteObject"}
      <4>1. ASSUME NEW c \in Contents, UploadLookup(r, c)
            PROVE  req'[r].pc \in Ended \cup {"insert"}
        BY <4>1 DEF UploadLookup, Goto, RequestType, Request, Ended
      <4>2. ASSUME NEW g \in Files, RetryLoad(r, g) \/ \E c \in Contents : SaveObject(r, g, c)
            PROVE  req'[r].pc \in {"rejected", "retryCommit", "saveCommit"}
        <5>1. CASE RetryLoad(r, g)
          BY <5>1 DEF RetryLoad, RequestType, Request
        <5>2. ASSUME NEW c \in Contents, SaveObject(r, g, c) PROVE req'[r].pc = "saveCommit"
          BY <5>2 DEF SaveObject, RequestType
        <5>3. QED
          BY <4>2, <5>1, <5>2
      <4>3. CASE Continue(r) \/ RequestDbError(r)
        BY <2>5, <4>3 DEF Continue, UploadInsert, UploadCommit, UploadEnqueue, RetryCommit,
           Enqueue, SaveCommit, DeleteObject, RequestDbError, Goto, RequestType, Request
      <4>4. QED
        BY <1>5, <2>5, <4>1, <4>2, <4>3 DEF Arrive, Ended
    <3>2. QED
      BY <2>5, <3>1
  <2>6. QED
    BY <2>1, <2>2, <2>3, <2>4, <2>5
<1>6. CASE Work \/ WorkerDbError \/ Recover \/ UNCHANGED vars
  BY <1>4, <1>6, WorkerFrame DEF Recover, vars
<1>7. CASE Crash
  BY <1>0, <1>7 DEF Crash, RequestType, Request, Ended
<1>8. QED
  BY <1>5, <1>6, <1>7 DEF Next

(***************************************************************************)
(* The id handed out next is not a row yet.                                *)
(***************************************************************************)
LEMMA NextIsFresh ==
  ASSUME TypeOK, IdsAreFresh, nextId \in Files
  PROVE  status[nextId] = "none"
<1>1. nextId >= nextId
  BY DEF TypeOK, RowsType
<1>2. QED
  BY <1>1 DEF IdsAreFresh

(***************************************************************************)
(* Who changes the chunks and the stored object of a file.                 *)
(***************************************************************************)
LEMMA StoresStep ==
  ASSUME TypeOK, NEW f \in Files, [Next]_vars
  PROVE  /\ \/ chunks'[f] = chunks[f]
            \/ \E r \in Requests : DeletePurge(r) /\ req[r].file = f
            \/ (WorkerPurge \/ WorkerAdd) /\ worker.file = f
         /\ \/ object'[f] = object[f]
            \/ \E r \in Requests, c \in Contents : SaveObject(r, f, c)
            \/ \E r \in Requests : UploadInsert(r) /\ nextId = f
            \/ \E r \in Requests : DeleteObject(r) /\ req[r].file = f
<1> USE DEF TypeOK
<1>1. ASSUME NEW r \in Requests, Arrive(r)
      PROVE  /\ chunks' = chunks
             /\ object'[f] = object[f] \/ \E c \in Contents : SaveObject(r, f, c)
  BY <1>1 DEF Arrive, UploadLookup, RetryLoad, DeleteLoad, SaveObject, StoresType
<1>2. ASSUME NEW r \in Requests, Continue(r) \/ RequestDbError(r)
      PROVE  /\ chunks'[f] = chunks[f] \/ (DeletePurge(r) /\ req[r].file = f)
             /\ \/ object'[f] = object[f]
                \/ UploadInsert(r) /\ nextId = f
                \/ DeleteObject(r) /\ req[r].file = f
  BY <1>2 DEF Continue, UploadInsert, UploadCommit, UploadEnqueue, RetryCommit, Enqueue,
     SaveCommit, DeletePurge, DeleteCommit, DeleteObject, RequestDbError, StoresType
<1>3. CASE Work \/ WorkerDbError
  BY <1>3 DEF Work, WorkerTake, WorkerMark, WorkerRead, WorkerPurge, WorkerAdd, WorkerReady,
     WorkerFail, WorkerDbError, StoresType
<1>4. CASE Crash \/ Recover \/ UNCHANGED vars
  BY <1>4 DEF Crash, Recover, vars
<1>5. QED
  BY <1>1, <1>2, <1>3, <1>4 DEF Next

(***************************************************************************)
(* A certain pass over f stays certain while handlers run, unless an error *)
(* loses it and the history says so.                                       *)
(***************************************************************************)
LEMMA PendingKept ==
  ASSUME TypeOK, NEW r \in Requests, NEW f \in Files \cap Supported, f \notin torn', f \notin dropped',
         Arrive(r) \/ Continue(r) \/ RequestDbError(r), Pending(f)
  PROVE  Pending(f)'
<1> USE DEF TypeOK
<1>1. CASE Queued(f)
  BY <1>1, HandlerFrame DEF Pending
<1>2. ASSUME NEW q \in Requests \ {r},
             req[q].pc \in {"saveCommit", "enqueue"}, req[q].file = f
      PROVE  Pending(f)'
  BY <1>2, HandlerFrame DEF Pending, At
<1>3. CASE req[r].pc = "saveCommit" /\ req[r].file = f
  <2>1. ~RequestDbError(r) /\ ~Arrive(r)
    BY <1>3 DEF RequestDbError, HalfDone, Arrive, UploadLookup, RetryLoad, DeleteLoad,
       SaveObject
  <2>2. SaveCommit(r)
    BY <1>3, <2>1 DEF Continue, UploadInsert, UploadCommit, UploadEnqueue, RetryCommit,
       Enqueue, DeletePurge, DeleteCommit, DeleteObject
  <2>3. req'[r].pc = "enqueue" /\ req'[r].file = f
    BY <1>3, <2>2 DEF SaveCommit, Goto, RequestType, Request
  <2>4. QED
    BY <2>3 DEF Pending, At
<1>4. CASE req[r].pc = "enqueue" /\ req[r].file = f
  <2>1. ~RequestDbError(r) /\ ~Arrive(r)
    BY <1>4 DEF RequestDbError, AboutToQueue, Arrive, UploadLookup, RetryLoad, DeleteLoad,
       SaveObject
  <2>2. Enqueue(r)
    BY <1>4, <2>1 DEF Continue, UploadInsert, UploadCommit, UploadEnqueue, RetryCommit,
       SaveCommit, DeletePurge, DeleteCommit, DeleteObject
  <2>3. QED
    BY <1>4, <2>2, AppendQueues DEF Enqueue, Pending
<1>5. QED
  BY <1>1, <1>2, <1>3, <1>4 DEF Pending, At

(***************************************************************************)
(* The worker ends the certainty of a pass only by beginning it.           *)
(***************************************************************************)
LEMMA PendingWorked ==
  ASSUME TypeOK, NEW f \in Files, Work \/ WorkerDbError, Pending(f)
  PROVE  Pending(f)' \/ (WorkerTake /\ Head(queue) = f)
<1>1. req' = req
  BY WorkerFrame
<1>2. CASE Queued(f)
  <2>1. CASE WorkerTake
    BY <1>2, <2>1, TailQueues DEF WorkerTake, Pending, TypeOK
  <2>2. CASE ~WorkerTake
    BY <1>2, <2>2 DEF Work, WorkerMark, WorkerRead, WorkerPurge, WorkerAdd, WorkerReady,
       WorkerFail, WorkerDbError, Pending, Queued
  <2>3. QED
    BY <2>1, <2>2
<1>3. CASE At(f, {"enqueue"}) \/ (f \in Supported /\ At(f, {"saveCommit"}))
  BY <1>1, <1>3 DEF At, Pending
<1>4. QED
  BY <1>2, <1>3 DEF Pending

(***************************************************************************)
(* A deleted file has no chunks, and its object is gone or about to go.    *)
(***************************************************************************)
LEMMA GoneStep ==
  ASSUME TypeOK, IdsAreFresh, DeletesAlone, DeletesProceed, DeletedIsGone, [Next]_vars
  PROVE  DeletedIsGone'
<1> SUFFICES ASSUME NEW f \in Files, f \notin raced', f \notin torn', status'[f] = "deleted"
             PROVE  /\ chunks'[f] = {}
                    /\ object'[f] = None \/ At(f, {"deleteObject"})'
  BY DEF DeletedIsGone
<1> USE DEF TypeOK
<1>1. f \notin raced /\ f \notin torn
  BY HandlerFrame, WorkerFrame DEF Next, Crash, Recover, vars
<1>2. CASE status[f] = "deleted"
  <2>1. /\ ~Ingesting(f) /\ chunks[f] = {}
        /\ object[f] = None \/ At(f, {"deleteObject"})
    BY <1>1, <1>2 DEF DeletesAlone, DeletedIsGone, StaleWriter
  <2>2. chunks'[f] = {}
    BY <2>1, StoresStep DEF DeletePurge, StoresType, WorkerPurge, WorkerAdd, Ingesting
  <2>3. ASSUME object[f] = None PROVE object'[f] = None
    <3>1. ~\E r \in Requests, c \in Contents : SaveObject(r, f, c)
      BY <1>2 DEF SaveObject
    <3>2. ~\E r \in Requests : UploadInsert(r) /\ nextId = f
      BY <1>2, NextIsFresh
    <3>3. (\E r \in Requests : DeleteObject(r) /\ req[r].file = f) => object'[f] = None
      BY DEF DeleteObject, StoresType
    <3>4. QED
      BY <2>3, <3>1, <3>2, <3>3, StoresStep
  <2>4. ASSUME NEW q \in Requests, req[q].pc = "deleteObject", req[q].file = f
        PROVE  object'[f] = None \/ At(f, {"deleteObject"})'
    <3>1. CASE req'[q] = req[q]
      BY <2>4, <3>1 DEF At
    <3>2. CASE DeleteObject(q)
      BY <2>4, <3>2 DEF DeleteObject, StoresType
    <3>3. ~RequestDbError(q) /\ ~Crash /\ ~Arrive(q)
      BY <2>4 DEF RequestDbError, Crash, HalfDone, Arrive, UploadLookup, RetryLoad,
         DeleteLoad, SaveObject
    <3>4. Continue(q) => DeleteObject(q)
      BY <2>4 DEF Continue, UploadInsert, UploadCommit, UploadEnqueue, RetryCommit, Enqueue,
         SaveCommit, DeletePurge, DeleteCommit
    <3>5. ASSUME NEW r \in Requests, r # q, Arrive(r) \/ Continue(r) \/ RequestDbError(r)
          PROVE  req'[q] = req[q]
      BY <3>5, HandlerFrame
    <3>6. CASE Work \/ WorkerDbError \/ Recover \/ UNCHANGED vars
      BY <3>1, <3>6, WorkerFrame DEF Recover, vars
    <3>7. QED
      BY <3>1, <3>2, <3>3, <3>4, <3>5, <3>6 DEF Next
  <2>5. QED
    BY <2>1, <2>2, <2>3, <2>4 DEF At
<1>3. ASSUME NEW r \in Requests, DeleteCommit(r), req[r].file = f
      PROVE  chunks'[f] = {} /\ At(f, {"deleteObject"})'
  <2>1. chunks'[f] = {}
    BY <1>1, <1>3 DEF DeleteCommit, DeletesProceed
  <2>2. req'[r].pc = "deleteObject" /\ req'[r].file = f
    BY <1>3 DEF DeleteCommit, Goto, RequestType, Request
  <2>3. QED
    BY <2>1, <2>2 DEF At
<1>4. QED
  BY <1>2, <1>3, StatusStep

(***************************************************************************)
(* A file whose extension the ingestion cannot read fails before it is     *)
(* split, and no handler makes it ready.                                   *)
(***************************************************************************)
LEMMA SupportedStep == TypeOK /\ OnlySupported /\ [Next]_vars => OnlySupported'
<1> SUFFICES ASSUME TypeOK, OnlySupported, [Next]_vars PROVE OnlySupported'
  OBVIOUS
<1> USE DEF TypeOK
<1>1. ASSUME worker'.pc \in {"purge", "add", "ready"} PROVE worker'.file \in Supported
  <2>1. ASSUME NEW r \in Requests, Arrive(r) \/ Continue(r) \/ RequestDbError(r)
        PROVE  worker'.file \in Supported
    BY <1>1, <2>1, HandlerFrame DEF OnlySupported
  <2>2. CASE WorkerRead \/ WorkerPurge \/ WorkerAdd
    BY <1>1, <2>2 DEF WorkerRead, WorkerPurge, WorkerAdd, OnlySupported, WorkerType, Worker
  <2>3. ~WorkerTake /\ ~WorkerMark /\ ~WorkerReady /\ ~WorkerFail /\ ~WorkerDbError
    <3>1. ~WorkerTake
      BY <1>1 DEF WorkerTake, IdleWorker, WorkerType, Worker
    <3>2. ~WorkerMark
      BY <1>1 DEF WorkerMark, WorkerType, Worker
    <3>3. ~WorkerReady /\ ~WorkerFail
      BY <1>1 DEF WorkerReady, WorkerFail, IdleWorker
    <3>4. ~WorkerDbError
      BY <1>1 DEF WorkerDbError, IdleWorker, WorkerType, Worker
    <3>5. QED
      BY <3>1, <3>2, <3>3, <3>4
  <2>4. CASE Crash \/ Recover \/ UNCHANGED vars
    BY <1>1, <2>4 DEF Crash, Recover, vars, IdleWorker, OnlySupported
  <2>5. QED
    BY <2>1, <2>2, <2>3, <2>4 DEF Next, Work
<1>2. ASSUME NEW f \in Files, status'[f] = "ready" PROVE f \in Supported
  BY <1>2, StatusStep DEF OnlySupported, WorkerReady
<1>3. QED
  BY <1>1, <1>2 DEF OnlySupported

(***************************************************************************)
(* The content the worker has read is the stored one, or the file has a    *)
(* later pass coming; and only the worker makes a file ready.              *)
(***************************************************************************)
LEMMA PassStep ==
  ASSUME TypeOK, IdsAreFresh, RowsExist, Stopped, DeletesAlone, OnlySupported, PassIsFresh,
         [Next]_vars
  PROVE  PassIsFresh'
<1> USE DEF TypeOK
<1>1. ASSUME NEW r \in Requests, Arrive(r) \/ Continue(r) \/ RequestDbError(r)
      PROVE  PassIsFresh'
  <2>1. /\ worker' = worker
        /\ raced \subseteq raced' /\ torn \subseteq torn' /\ dropped \subseteq dropped'
    BY <1>1, HandlerFrame
  <2>2. CASE worker.pc = "idle"
    BY <2>1, <2>2 DEF PassIsFresh
  <2>3. CASE worker.pc # "idle"
    <3>0. PICK f \in Files : f = worker.file
      BY <2>3 DEF WorkerType, WorkerOK
    <3>1. status[f] # "none" /\ Ingesting(f)
      BY <2>3, <3>0 DEF RowsExist, Ingesting
    <3>2. status'[f] = "ready" => status[f] = "ready"
      <4>1. ~WorkerReady
        BY <2>1 DEF WorkerReady, IdleWorker
      <4>2. QED
        BY <3>1, <4>1, StatusStep
    <3>3. ASSUME f \notin raced' PROVE ~Deleting(f)
      BY <2>1, <3>1, <3>3 DEF DeletesAlone, StaleWriter
    <3>4. ASSUME f \notin raced' PROVE chunks'[f] = chunks[f]
      <4>1. ~WorkerPurge /\ ~WorkerAdd
        BY <2>1 DEF WorkerPurge, WorkerAdd, WorkerType, Worker
      <4>2. ~\E q \in Requests : DeletePurge(q) /\ req[q].file = f
        BY <3>3, <3>4 DEF DeletePurge, Deleting
      <4>3. QED
        BY <3>1, <4>1, <4>2, StoresStep
    <3>5. ASSUME f \notin raced', f \notin torn' \cup dropped', f \in Supported,
                 worker.content = object[f] \/ Pending(f)
          PROVE  worker.content = object'[f] \/ Pending(f)'
      <4>1. CASE Pending(f)
        BY <1>1, <3>5, <4>1, PendingKept
      <4>2. CASE object'[f] = object[f]
        BY <1>1, <3>1, <3>5, <4>1, <4>2
      <4>3. CASE \E q \in Requests, c \in Contents : SaveObject(q, f, c)
        BY <3>5, <4>3 DEF SaveObject, Pending, At, RequestType
      <4>4. ~\E q \in Requests : UploadInsert(q) /\ nextId = f
        BY <3>1, NextIsFresh
      <4>5. ~\E q \in Requests : DeleteObject(q) /\ req[q].file = f
        BY <3>3, <3>5 DEF DeleteObject, Deleting
      <4>6. QED
        BY <3>1, <3>5, <4>1, <4>2, <4>3, <4>4, <4>5, StoresStep
    <3>6. QED
      BY <2>1, <3>0, <3>2, <3>4, <3>5 DEF PassIsFresh, OnlySupported
  <2>4. QED
    BY <2>2, <2>3
<1>2. CASE WorkerTake
  BY <1>2 DEF WorkerTake, PassIsFresh, IdleWorker, rows, history
<1>3. CASE WorkerMark
  <2>1. /\ worker.pc = "mark" /\ worker.file \in Files
        /\ status[worker.file] = "ready" => worker.seen = "ready"
    BY <1>3 DEF WorkerMark, PassIsFresh, WorkerType, WorkerOK
  <2>2. worker'.pc = "read" /\ worker'.file = worker.file
    BY <1>3 DEF WorkerMark, WorkerType, Worker
  <2>3. status'[worker.file] # "ready"
    BY <1>3, <2>1 DEF WorkerMark, Written, RowsType
  <2>4. QED
    BY <2>2, <2>3 DEF PassIsFresh
<1>4. CASE WorkerRead
  <2>1. /\ worker.pc = "read" /\ worker.file \in Files /\ status[worker.file] # "ready"
    BY <1>4 DEF WorkerRead, PassIsFresh, WorkerType, WorkerOK
  <2>2. /\ worker'.file = worker.file /\ UNCHANGED <<status, object>>
        /\ worker'.pc = "fail" \/ (worker'.pc = "purge" /\ worker'.content = object[worker.file])
    BY <1>4 DEF WorkerRead, WorkerType, Worker, rows
  <2>3. QED
    BY <2>1, <2>2 DEF PassIsFresh
<1>5. CASE WorkerPurge
  <2>1. /\ worker.pc = "purge" /\ worker.file \in Files /\ status[worker.file] # "ready"
        /\ chunks'[worker.file] = {}
    BY <1>5 DEF WorkerPurge, PassIsFresh, WorkerType, WorkerOK, StoresType
  <2>2. /\ worker'.file = worker.file /\ worker'.pc = "add" /\ worker'.content = worker.content
        /\ UNCHANGED <<status, object, raced, torn, dropped>>
    BY <1>5 DEF WorkerPurge, WorkerType, Worker, rows, history
  <2>3. \A f \in Files : Pending(f) => Pending(f)'
    BY <1>5 DEF WorkerPurge, Pending, Queued, At
  <2>4. QED
    BY <2>1, <2>2, <2>3 DEF PassIsFresh
<1>6. CASE WorkerAdd
  <2>1. /\ worker.pc = "add" /\ worker.file \in Files /\ status[worker.file] # "ready"
        /\ worker.file \notin raced => chunks[worker.file] = {}
    BY <1>6 DEF WorkerAdd, PassIsFresh, WorkerType, WorkerOK
  <2>2. /\ worker'.file = worker.file /\ worker'.content = worker.content
        /\ UNCHANGED <<status, object, raced, torn, dropped>>
        /\ \/ worker'.pc = "fail"
           \/ /\ worker'.pc = "ready"
              /\ chunks'[worker.file] = chunks[worker.file] \cup {worker.content}
    BY <1>6 DEF WorkerAdd, WorkerType, Worker, WorkerOK, StoresType, rows, history
  <2>3. \A f \in Files : Pending(f) => Pending(f)'
    BY <1>6 DEF WorkerAdd, Pending, Queued, At
  <2>4. QED
    BY <2>1, <2>2, <2>3 DEF PassIsFresh
<1>7. CASE WorkerReady \/ WorkerFail
  BY <1>7 DEF WorkerReady, WorkerFail, PassIsFresh, IdleWorker
<1>8. CASE WorkerDbError
  <2>1. CASE worker'.pc = "idle"
    BY <2>1 DEF PassIsFresh
  <2>2. CASE worker.pc \in {"purge", "ready"} /\ worker' = [worker EXCEPT !.pc = "fail"]
    BY <1>8, <2>2 DEF WorkerDbError, PassIsFresh, WorkerType, Worker, rows
  <2>3. QED
    BY <1>8, <2>1, <2>2 DEF WorkerDbError, IdleWorker
<1>9. CASE Crash
  BY <1>9 DEF Crash, PassIsFresh, IdleWorker
<1>10. CASE Recover
  BY <1>10 DEF Recover, Stopped, PassIsFresh, IdleWorker
<1>11. CASE UNCHANGED vars
  BY <1>11 DEF vars, PassIsFresh, Pending, Queued, At
<1>12. QED
  BY <1>1, <1>2, <1>3, <1>4, <1>5, <1>6, <1>7, <1>8, <1>9, <1>10, <1>11 DEF Next, Work

(***************************************************************************)
(* A ready file is indexed with the stored content, or what makes it so    *)
(* is certain to come.                                                     *)
(***************************************************************************)
LEMMA ReadyStep ==
  ASSUME TypeOK, IdsAreFresh, RowsExist, Stopped, DeletesAlone, DeletesProceed,
         OnlySupported, PassIsFresh, ReadyIsIndexed, [Next]_vars
  PROVE  ReadyIsIndexed'
<1> DEFINE Indexed(f) == \/ chunks[f] = {object[f]}
                         \/ Pending(f)
                         \/ worker.pc = "mark" /\ worker.file = f
                         \/ At(f, {"deleteCommit"})
<1> SUFFICES ASSUME NEW f \in Files, f \notin torn', f \notin dropped', f \notin raced',
                    status'[f] = "ready"
             PROVE  Indexed(f)'
  BY DEF ReadyIsIndexed
<1> USE DEF TypeOK
<1>1. ASSUME status[f] = "ready", f \notin torn, f \notin dropped, f \notin raced
      PROVE  Indexed(f)
  BY <1>1 DEF ReadyIsIndexed
<1>2. ASSUME NEW r \in Requests, Arrive(r) \/ Continue(r) \/ RequestDbError(r)
      PROVE  Indexed(f)'
  <2>1. /\ worker' = worker /\ f \notin raced /\ f \notin torn /\ f \notin dropped
        /\ \A q \in Requests \ {r} : req'[q] = req[q]
    BY <1>2, HandlerFrame
  <2>2. status[f] = "ready"
    <3>1. ~WorkerReady
      BY <2>1 DEF WorkerReady, IdleWorker
    <3>2. QED
      BY <3>1, StatusStep
  <2>0. f \in Supported
    BY <2>2 DEF OnlySupported
  <2>3. CASE Pending(f)
    BY <1>2, <2>0, <2>3, PendingKept
  <2>4. CASE worker.pc = "mark" /\ worker.file = f
    BY <2>1, <2>4
  <2>5. ASSUME NEW q \in Requests, req[q].pc = "deleteCommit", req[q].file = f
        PROVE  At(f, {"deleteCommit"})'
    <3>1. CASE q # r
      BY <2>1, <2>5, <3>1 DEF At
    <3>2. CASE q = r
      <4>1. ~RequestDbError(r) /\ ~Arrive(r)
        BY <2>5, <3>2 DEF RequestDbError, HalfDone, Arrive, UploadLookup, RetryLoad,
           DeleteLoad, SaveObject
      <4>2. DeleteCommit(r)
        BY <1>2, <2>5, <3>2, <4>1 DEF Continue, UploadInsert, UploadCommit, UploadEnqueue,
           RetryCommit, Enqueue, SaveCommit, DeletePurge, DeleteObject
      <4>3. req[r].seen # "deleted"
        BY <2>1, <2>2, <2>5, <3>2 DEF DeletesProceed
      <4>4. status'[f] = "deleted"
        BY <2>5, <3>2, <4>2, <4>3 DEF DeleteCommit, Written, RowsType
      <4>5. QED
        BY <4>4
    <3>3. QED
      BY <3>1, <3>2
  <2>6. CASE chunks[f] = {object[f]}
    <3>1. CASE chunks'[f] = chunks[f] /\ object'[f] = object[f]
      BY <2>6, <3>1
    <3>2. ASSUME NEW q \in Requests, DeletePurge(q), req[q].file = f
          PROVE  At(f, {"deleteCommit"})'
      BY <3>2 DEF DeletePurge, Goto, RequestType, Request, At
    <3>3. ~WorkerPurge /\ ~WorkerAdd
      BY <2>1 DEF WorkerPurge, WorkerAdd, WorkerType, Worker
    <3>4. CASE \E q \in Requests, c \in Contents : SaveObject(q, f, c)
      BY <2>0, <3>4 DEF SaveObject, Pending, At, RequestType
    <3>5. ~\E q \in Requests : UploadInsert(q) /\ nextId = f
      BY <2>2, NextIsFresh
    <3>6. ~\E q \in Requests : DeleteObject(q) /\ req[q].file = f
      BY <2>1, <2>2 DEF DeleteObject, DeletesProceed
    <3>7. QED
      BY <3>1, <3>2, <3>3, <3>4, <3>5, <3>6, StoresStep
  <2>7. QED
    BY <1>1, <2>1, <2>2, <2>3, <2>4, <2>5, <2>6 DEF At
<1>3. CASE Work \/ WorkerDbError
  <2>1. /\ req' = req /\ object' = object
        /\ f \notin raced /\ f \notin torn /\ f \notin dropped
    BY <1>3, WorkerFrame
  <2>2. CASE WorkerReady /\ worker.file = f
    <3>1. chunks[f] = {worker.content} /\ (worker.content = object[f] \/ Pending(f))
      BY <2>1, <2>2 DEF WorkerReady, PassIsFresh
    <3>2. chunks' = chunks /\ (Pending(f) => Pending(f)')
      BY <2>2 DEF WorkerReady, Pending, Queued, At
    <3>3. QED
      BY <2>1, <3>1, <3>2
  <2>3. CASE status[f] = "ready"
    <3>1. CASE Pending(f)
      <4>1. CASE WorkerTake /\ Head(queue) = f
        BY <2>3, <4>1 DEF WorkerTake, IdleWorker
      <4>2. QED
        BY <1>3, <3>1, <4>1, PendingWorked
    <3>2. CASE worker.pc = "mark" /\ worker.file = f
      <4>1. ~WorkerMark
        BY <2>3, <3>2 DEF WorkerMark, PassIsFresh, Written, RowsType
      <4>2. ~WorkerDbError
        BY <3>2 DEF WorkerDbError
      <4>3. QED
        BY <1>3, <3>2, <4>1, <4>2 DEF Work, WorkerTake, WorkerRead, WorkerPurge, WorkerAdd,
           WorkerReady, WorkerFail
    <3>3. CASE At(f, {"deleteCommit"})
      BY <2>1, <3>3 DEF At
    <3>4. CASE chunks[f] = {object[f]}
      <4>1. ~((WorkerPurge \/ WorkerAdd) /\ worker.file = f)
        BY <2>3 DEF WorkerPurge, WorkerAdd, PassIsFresh
      <4>2. ~\E q \in Requests : DeletePurge(q) /\ req[q].file = f
        BY <2>1 DEF DeletePurge, Goto, RequestType, Request
      <4>3. QED
        BY <2>1, <3>4, <4>1, <4>2, StoresStep
    <3>5. QED
      BY <1>1, <2>1, <2>3, <3>1, <3>2, <3>3, <3>4
  <2>4. QED
    BY <2>2, <2>3, StatusStep
<1>4. CASE Crash
  <2>1. /\ status[f] = "ready" /\ f \notin torn /\ f \notin dropped /\ f \notin raced
        /\ UNCHANGED <<chunks, object>>
    BY <1>4 DEF Crash, rows
  <2>2. /\ ~Queued(f) /\ ~Ingesting(f)
        /\ \A r \in Requests : ~AboutToQueue(r, f) /\ ~HalfDone(r, f)
    BY <1>4 DEF Crash
  <2>3. QED
    BY <1>1, <2>1, <2>2 DEF Pending, At, Ingesting, AboutToQueue, HalfDone
<1>5. CASE Recover
  <2>1. /\ status[f] = "ready" /\ f \notin torn /\ f \notin raced
        /\ UNCHANGED <<chunks, object>>
    BY <1>5 DEF Recover, RowsType
  <2>2. f \notin dropped
    BY <1>5, <2>1 DEF Recover, Recoverable
  <2>3. ~Queued(f) /\ worker.pc = "idle" /\ \A r \in Requests : req[r].pc \in Ended
    BY <1>5 DEF Recover, Stopped, Queued, IdleWorker
  <2>4. QED
    BY <1>1, <2>1, <2>2, <2>3 DEF Pending, At, Ended
<1>6. CASE UNCHANGED vars
  BY <1>1, <1>6 DEF vars, Pending, Queued, At
<1>7. QED
  BY <1>2, <1>3, <1>4, <1>5, <1>6 DEF Next

(***************************************************************************)
(* What the record, the storage and the vector store say of a file agree   *)
(* once everything concerning it has run, for every number of files,       *)
(* contents, requests and restarts: the handlers of app/api/file.py and    *)
(* the worker, as the run KnowledgeSafety checks on two files.             *)
(***************************************************************************)
THEOREM SettledAgree == Spec => []SettledConsistent
<1> DEFINE Stores == /\ Stopped /\ NoRowNoChunks /\ DeletesAlone /\ DeletesProceed
                     /\ DeletedIsGone /\ OnlySupported /\ PassIsFresh /\ ReadyIsIndexed
<1>1. Init => Stores
  BY DEF Init, NewRequest, IdleWorker, Ended, Stopped, NoRowNoChunks, DeletesAlone, Deleting,
     DeletesProceed, DeletedIsGone, OnlySupported, PassIsFresh, ReadyIsIndexed, Files
<1>2. IInv /\ Stores /\ [Next]_vars => Stores'
  BY StoppedStep, NoRowStep, AloneStep, ProceedStep, GoneStep, SupportedStep, PassStep, ReadyStep
     DEF IInv
<1>3. IInv /\ Stores => SettledConsistent
  <2> SUFFICES ASSUME Stores, NEW f \in Files \ (torn \cup dropped \cup raced),
                      AtRest(f)
               PROVE  /\ status[f] = "ready"   => chunks[f] = {object[f]}
                      /\ status[f] = "deleted" => chunks[f] = {} /\ object[f] = None
                      /\ status[f] = "none"    => chunks[f] = {}
    BY DEF SettledConsistent
  <2>1. /\ ~Queued(f) /\ ~Ingesting(f)
        /\ \A r \in Requests : req[r].file = f => req[r].pc \in Ended
    BY DEF AtRest, InFlight
  <2>2. ~At(f, {"deleteObject"}) /\ ~At(f, {"deleteCommit"}) /\ ~Pending(f)
    BY <2>1 DEF At, Pending, Ended
  <2>3. ~(worker.pc = "mark" /\ worker.file = f)
    BY <2>1 DEF Ingesting
  <2>4. QED
    BY <2>2, <2>3 DEF NoRowNoChunks, DeletedIsGone, ReadyIsIndexed
<1> HIDE DEF Stores
<1>4. QED
  BY <1>1, <1>2, <1>3, InvariantHolds, PTL DEF Spec

=============================================================================
