-------------------------- MODULE ConversationTurns --------------------------
(***************************************************************************)
(* The chat requests of one thread over its graph: POST /chat/stream       *)
(* (app/api/chat.py) and AgentRuntime.stream_agent_events                  *)
(* (app/core/agent.py).  A request that approves is validated against the  *)
(* pending interrupt when it arrives; then it queues for the thread's      *)
(* asyncio.Lock, and only the request that holds the lock looks at the     *)
(* checkpoint again and runs the graph.  A client may leave at any time,   *)
(* which cancels its request; a restart cancels all of them and keeps the  *)
(* checkpoint.                                                             *)
(***************************************************************************)
EXTENDS ConversationGraph, Sequences, SequencesExt

CONSTANTS
  Requests,   \* chat requests on the thread, each sent at most once
  None        \* nobody holds the lock

ASSUME TurnsAssumption == None \notin Requests

VARIABLES
  req,     \* the requests
  queue,   \* the waiters of the thread's lock, in FIFO order
  holder   \* the request that holds the lock

turnVars == <<req, queue, holder>>
allVars  == <<vars, turnVars>>

Ended == {"rejected", "done", "error", "cancelled"}
Pcs   == {"new", "validated", "waiting", "running"} \cup Ended

\* approves: the interrupt a request answers, as its client was shown it; 0
\* for a message.  took: the interrupt it resumed, 0 for none.
TurnsTypeOK ==
  /\ TypeOK
  /\ req \in [Requests -> [pc : Pcs, approves : 0 .. MaxInputs, took : 0 .. MaxInputs]]
  /\ queue \in Seq(Requests) /\ IsInjective(queue)
  /\ holder \in Requests \cup {None}
  /\ \A r \in Requests : /\ req[r].pc = "waiting" <=> r \in ToSet(queue)
                         /\ req[r].pc = "running" <=> r = holder

Moved(r, pc) == [req EXCEPT ![r].pc = pc]

-----------------------------------------------------------------------------
(* Arrival and the queue                                                   *)

\* The id validate_approval_request compares with.
PendingApproval == IF pending /\ at \in ApprovalNodes THEN inputs ELSE 0

SendMessage(r) ==
  /\ req[r].pc = "new"
  /\ req' = Moved(r, "validated")
  /\ UNCHANGED <<vars, queue, holder>>

\* Mutant: any approval passes while some approval is pending.
SendApprovalUnmatched(r, id) ==
  /\ req[r].pc = "new"
  /\ req' = [req EXCEPT ![r] = [pc |-> IF PendingApproval # 0 THEN "validated" ELSE "rejected",
                                approves |-> id, took |-> 0]]
  /\ UNCHANGED <<vars, queue, holder>>

\* An approval shown to the client by this turn or by an earlier one.
SendApproval(r, id) ==
  /\ req[r].pc = "new"
  /\ req' = [req EXCEPT ![r] = [pc |-> IF PendingApproval = id THEN "validated" ELSE "rejected",
                                approves |-> id, took |-> 0]]
  /\ UNCHANGED <<vars, queue, holder>>

\* produce_events reaches the lock.
Queue(r) ==
  /\ req[r].pc = "validated"
  /\ req' = Moved(r, "waiting")
  /\ queue' = Append(queue, r)
  /\ UNCHANGED <<vars, holder>>

-----------------------------------------------------------------------------
(* With the lock held                                                      *)

First(r) ==
  /\ holder = None /\ req[r].pc = "waiting"
  /\ queue # <<>> /\ r = Head(queue) /\ queue' = Tail(queue)

\* The graph resumes whatever interrupt waits now, with the approval or with
\* the message; a message starts a turn when none does.
Begin(r) ==
  /\ First(r)
  /\ holder' = r
  /\ \/ /\ req[r].approves = 0
        /\ StartTurn
        /\ req' = Moved(r, "running")
     \/ /\ Answer
        /\ \/ req[r].approves = 0 /\ ResumeMessage
           \/ req[r].approves # 0 /\ \E selected \in SUBSET Types : ResumeApprove(selected)
        /\ req' = [req EXCEPT ![r].pc = "running", ![r].took = inputs]

\* Nothing waits for the approval, or an attachment or the checkpoint cannot
\* be read: the request has the lock for an instant and ends in an error.
BeginFails(r) ==
  /\ First(r)
  /\ req' = Moved(r, "error")
  /\ UNCHANGED <<vars, holder>>

GraphStep == holder # None /\ RunStep /\ UNCHANGED turnVars

\* A node raises; the error event is sent once the lock is released.
Raise(r) ==
  /\ holder = r
  /\ StopRun
  /\ holder' = None
  /\ req' = Moved(r, "error")
  /\ UNCHANGED queue

\* The graph has stopped: pending approval, compression and suggestions, any
\* of which may still raise.
Finish(r) ==
  /\ holder = r /\ req[r].pc = "running"
  /\ ~running
  /\ holder' = None
  /\ \E pc \in {"done", "error"} : req' = Moved(r, pc)
  /\ UNCHANGED <<vars, queue>>

-----------------------------------------------------------------------------
(* Clients that leave, restarts                                            *)

\* The queue when r has left it.
Without(r) == RemoveAt(queue, CHOOSE i \in DOMAIN queue : queue[i] = r)

\* Mutants: a waiter that leaves releases the lock; one that leaves while
\* its graph runs does not.
LeaveWaitingReleasing(r) ==
  /\ req[r].pc = "waiting"
  /\ queue' = Without(r)
  /\ holder' = None
  /\ req' = Moved(r, "cancelled")
  /\ UNCHANGED vars
LeaveRunningHolding(r) ==
  /\ holder = r
  /\ StopRun \/ (~running /\ UNCHANGED vars)
  /\ req' = Moved(r, "cancelled")
  /\ UNCHANGED <<queue, holder>>

LeaveWaiting(r) ==
  /\ req[r].pc = "waiting"
  /\ queue' = Without(r)
  /\ req' = Moved(r, "cancelled")
  /\ UNCHANGED <<vars, holder>>

\* The producer task is cancelled and awaited: the graph stops where it is
\* before the lock is free.
LeaveRunning(r) ==
  /\ holder = r
  /\ StopRun \/ (~running /\ UNCHANGED vars)
  /\ holder' = None
  /\ req' = Moved(r, "cancelled")
  /\ UNCHANGED queue

Restart ==
  /\ StopRun \/ (~running /\ UNCHANGED vars)
  /\ holder' = None
  /\ queue' = <<>>
  /\ req' = [r \in Requests |->
               IF req[r].pc \in {"validated", "waiting", "running"}
               THEN [req[r] EXCEPT !.pc = "cancelled"] ELSE req[r]]

-----------------------------------------------------------------------------
(* The specification                                                       *)

TurnsInit ==
  /\ Init
  /\ req = [r \in Requests |-> [pc |-> "new", approves |-> 0, took |-> 0]]
  /\ queue = <<>>
  /\ holder = None

RequestStep(r) ==
  Queue(r) \/ Begin(r) \/ BeginFails(r) \/ Finish(r)

TurnsNext ==
  \/ GraphStep
  \/ Restart
  \/ \E r \in Requests :
       \/ SendMessage(r)
       \/ \E id \in 1 .. inputs : SendApproval(r, id)
       \/ RequestStep(r) \/ Raise(r) \/ LeaveWaiting(r) \/ LeaveRunning(r)

TurnsSpec == TurnsInit /\ [][TurnsNext]_allVars

\* asyncio wakes the first waiter when the lock is free, and the graph's
\* nodes return or raise; clients owe nothing.
TurnsFairSpec ==
  /\ TurnsSpec
  /\ WF_allVars(GraphStep)
  /\ \A r \in Requests : WF_allVars(RequestStep(r))

-----------------------------------------------------------------------------
(* Properties                                                              *)

(***************************************************************************)
(* One graph run at a time, whatever clients come and leave: a run belongs *)
(* to the request that holds the lock, and a free lock means a quiet graph.*)
(***************************************************************************)
RunHasOwner == running => holder # None

(***************************************************************************)
(* validate_approval_request refuses an approval of another interrupt than *)
(* the waiting one, but long before the approval resumes what waits: it    *)
(* answers another than its own only when somebody else has answered that. *)
(***************************************************************************)
Misplaced(r) == req[r].approves # 0 /\ req[r].took \notin {0, req[r].approves}

MisplacedLostARace ==
  \A r \in Requests :
    Misplaced(r) => \E s \in Requests \ {r} : req[s].took = req[r].approves

(***************************************************************************)
(* A question to the teacher is never dropped: restarts, clients that      *)
(* leave and failing requests keep the interrupt, and what takes it away   *)
(* is one request that resumed it.                                         *)
(***************************************************************************)
QuestionsAreAnswered ==
  [][(pending /\ ~pending') =>
       \E r \in Requests : holder' = r /\ req'[r].took = inputs]_allVars

(***************************************************************************)
(* A request that reached the queue ends: the lock is never lost.          *)
(***************************************************************************)
WaitersEnd ==
  \A r \in Requests : req[r].pc = "waiting" ~> req[r].pc \in Ended

=============================================================================
