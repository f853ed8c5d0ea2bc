--------------------------- MODULE ChatAttachments ---------------------------
(***************************************************************************)
(* The sessions of one plan and the attachments of their threads: uploads  *)
(* of documents, videos and voice recordings, their look-up by content,    *)
(* and the chats and transcriptions that use them (the attachment half of  *)
(* services/file_service.py, services/session_service.py and               *)
(* services/plan_service.py, the handlers of api/, core/storage.py).       *)
(*                                                                         *)
(* A handler is one task of the event loop: it gives way at every call of  *)
(* the database, of a model and of a program, never at a call of the       *)
(* object storage.  Its transaction sees what others have committed.       *)
(***************************************************************************)
EXTENDS Naturals, FiniteSets

CONSTANTS
  Requests,     \* the requests, each made at most once
  Threads,      \* thread ids of sessions
  Rows,         \* ids of the table attachment_files
  Contents,     \* what is uploaded, as far as its SHA-256 tells
  None

ASSUME AttachmentAssumption == None \notin Requests \cup Threads \cup Rows \cup Contents

VARIABLES
  backend,    \* the configured backend of the storage service
  sessions,   \* the rows of teaching_sessions, by thread
  rows,       \* the rows of attachment_files, and what became of their ids
  objects,    \* the content stored under each key of each backend
  temps,      \* the temporary files of minio objects: who uses which row
  requests    \* the requests

vars == <<backend, sessions, rows, objects, temps, requests>>

Backends == {"local", "minio"}
Routes   == {"attachment", "voice"}

\* A file is a document, a video (.mp4) or a sound; what each route takes,
\* and what is_voice_attachment_extension takes for a recording.
FileKinds  == {"document", "mp4", "sound"}
VoiceKinds == {"mp4", "sound"}
Accepts == [attachment |-> {"document", "mp4"}, voice |-> VoiceKinds]

\* seen: the rows that were committed when the upload looked for its content.
Row == [state : {"flushed", "committed", "gone"}, thread : Threads, content : Contents,
        kind : FileKinds, backend : Backends, route : Routes, seen : SUBSET Rows]

ASSUME RowAssumption == None \notin Row

Waits == {"lookup", "insert", "commit", "transcribe", "documents", "reading", "videos", "watching"}
Over  == {"unused", "done", "failed", "killed"}

\* row: the attachment a request made or was given; left: the attachments a
\* chat has still to look at; using: those it looks at.
Request == [pc : Waits \cup Over, route : Routes \cup {None}, thread : Threads \cup {None},
            content : Contents \cup {None}, kind : FileKinds \cup {None}, row : Rows \cup {None},
            seen : SUBSET Rows, left : SUBSET Rows, using : SUBSET Rows]
NewRequest == [pc |-> "unused", route |-> None, thread |-> None, content |-> None, kind |-> None,
               row |-> None, seen |-> {}, left |-> {}, using |-> {}]

Keys == Rows \cup Threads

TypeOK ==
  /\ backend \in Backends
  /\ sessions \in [Threads -> {"none", "open", "deleted"}]
  /\ rows \in [Rows -> Row \cup {None}]
  /\ objects \in [Backends \X Keys -> Contents \cup {None}]
  /\ temps \subseteq Requests \X Rows
  /\ requests \in [Requests -> Request]
  /\ \A q \in Requests : requests[q].pc \in {"reading", "watching", "transcribe"} =>
       requests[q].using # {}

Init ==
  /\ backend \in Backends
  /\ sessions \in [Threads -> {"none", "open"}]
  /\ rows = [r \in Rows |-> None]
  /\ objects = [k \in Backends \X Keys |-> None]
  /\ temps = {}
  /\ requests = [q \in Requests |-> NewRequest]

-----------------------------------------------------------------------------
At(q, pc) == requests[q].pc = pc
Goto(q, pc) == requests' = [requests EXCEPT ![q].pc = pc]
Ends(q, pc) == requests' = [requests EXCEPT ![q] = [NewRequest EXCEPT !.pc = pc]]

Committed == {r \in Rows : rows[r] # None /\ rows[r].state = "committed"}

\* Mutant: the stored name alone, which a second upload may have as well.
KeyOfName(r, thread) == thread

\* _build_attachment_storage_key: the id is part of the key.
Key(r, thread) == r

\* resolve_backend: an object is read where its row says it was put.
Stored(r) == objects[<<rows[r].backend, Key(r, rows[r].thread)>>]

\* put_bytes of the configured backend replaces what the key had.
Put(r, thread, c) == [objects EXCEPT ![<<backend, Key(r, thread)>>] = c]

\* materialize_temp_file: a local object is its own file.
NeedsTemp(S) == {r \in S : rows[r].backend = "minio"}
Materialize(q, S) == temps' = temps \cup ({q} \X NeedsTemp(S))

\* Mutant: nothing is removed when the block raises.
ReleaseRead(q, pc) ==
  temps' = IF pc = "failed" THEN temps ELSE temps \ ({q} \X Rows)

\* The context managers remove the files however their block ends.
Release(q, pc) == temps' = temps \ ({q} \X Rows)

-----------------------------------------------------------------------------
(* Sessions and the plan                                                   *)

CreateSession(q) ==
  /\ At(q, "unused")
  /\ \E t \in Threads :
       /\ sessions[t] = "none"   \* uuid4
       /\ sessions' = [sessions EXCEPT ![t] = "open"]
  /\ Ends(q, "done")
  /\ UNCHANGED <<backend, rows, objects, temps>>

\* The row of the session goes; attachments and checkpoints stay.
DeleteSession(q) ==
  /\ At(q, "unused")
  /\ \E t \in Threads :
       /\ sessions' = [sessions EXCEPT ![t] = IF @ = "open" THEN "deleted" ELSE @]
       /\ Ends(q, IF sessions[t] = "open" THEN "done" ELSE "failed")
  /\ UNCHANGED <<backend, rows, objects, temps>>

\* delete_plan_by_id begins a transaction in a database session whose
\* transaction the look-up of the plan has begun: that raises.
DeletePlan(q) ==
  /\ At(q, "unused")
  /\ Ends(q, "failed")
  /\ UNCHANGED <<backend, sessions, rows, objects, temps>>

-----------------------------------------------------------------------------
(* Uploads                                                                 *)

\* The thread is the user's, the file is one the route takes.
BeginUpload(q) ==
  /\ At(q, "unused")
  /\ \/ \E route \in Routes, t \in Threads, c \in Contents : \E kind \in Accepts[route] :
          /\ sessions[t] = "open"
          /\ requests' = [requests EXCEPT ![q] =
               [NewRequest EXCEPT !.pc = "lookup", !.route = route, !.thread = t,
                                  !.content = c, !.kind = kind]]
     \/ Ends(q, "failed")   \* otherwise, an empty or too large file, or the database
  /\ UNCHANGED <<backend, sessions, rows, objects, temps>>

\* Mutant: the content is looked for in all threads.
FoundAnywhere(q) == {r \in Committed : rows[r].content = requests[q].content}

\* get_existing_attachment_by_hash
Found(q) ==
  {r \in Committed : rows[r].thread = requests[q].thread /\ rows[r].content = requests[q].content}

\* Mutant: a route returns only what it would have taken itself.
ReusesAccepted(route) == Accepts[route]

\* The kinds of an existing attachment that the route returns.
Reuses(route) == IF route = "voice" THEN VoiceKinds ELSE FileKinds

\* scalar_one_or_none: two rows are one too many.
Lookup(q) ==
  /\ At(q, "lookup")
  /\ LET found == Found(q)
         kept  == {r \in found : rows[r].kind \in Reuses(requests[q].route)}
     IN \/ Ends(q, "failed") /\ UNCHANGED temps
        \/ /\ Cardinality(found) <= 1
           /\ kept = {}
           /\ requests' = [requests EXCEPT ![q].pc = "insert", ![q].seen = Committed]
           /\ UNCHANGED temps
        \/ /\ Cardinality(found) = 1
           /\ \E r \in kept :
                IF requests[q].route = "attachment"
                THEN requests' = [requests EXCEPT ![q].pc = "done", ![q].row = r] /\ UNCHANGED temps
                ELSE /\ requests' = [requests EXCEPT ![q].pc = "transcribe", ![q].row = r,
                                                     ![q].using = {r}]
                     /\ Materialize(q, {r})
  /\ UNCHANGED <<backend, sessions, rows, objects>>

\* What an upload writes into its row; the commit makes it last.
NewRow(q, state) ==
  [state |-> state, thread |-> requests[q].thread, content |-> requests[q].content,
   kind |-> requests[q].kind, backend |-> backend, route |-> requests[q].route,
   seen |-> requests[q].seen]

\* The row is flushed, which gives it its id, and its object is put.
Insert(q) ==
  /\ At(q, "insert")
  /\ \E r \in Rows :
       LET new(state) == [rows EXCEPT ![r] = NewRow(q, state)]
           put == Put(r, requests[q].thread, requests[q].content)
       IN /\ rows[r] = None
          /\ \/ /\ rows' = new("flushed") /\ objects' = put
                /\ requests' = [requests EXCEPT ![q].pc = "commit", ![q].row = r, ![q].seen = {}]
             \/ /\ rows' = new("gone") /\ objects' \in {objects, put}   \* rolled back
                /\ Ends(q, "failed")
  /\ UNCHANGED <<backend, sessions, temps>>

\* The commit, and the refresh of the row behind it, can fail.
Commit(q) ==
  /\ At(q, "commit")
  /\ LET r == requests[q].row IN
       \/ /\ rows' = [rows EXCEPT ![r].state = "gone"]
          /\ Ends(q, "failed") /\ UNCHANGED temps
       \/ /\ rows' = [rows EXCEPT ![r].state = "committed"]
          /\ \/ Ends(q, "failed") /\ UNCHANGED temps
             \/ /\ requests[q].route = "attachment"
                /\ Goto(q, "done") /\ UNCHANGED temps
             \/ /\ requests[q].route = "voice"
                /\ requests' = [requests EXCEPT ![q].pc = "transcribe", ![q].using = {r}]
                /\ Materialize(q, {r})
  /\ UNCHANGED <<backend, sessions, objects>>

\* transcribe_voice_attachment; the attachment stays when the model fails.
Transcribed(q) ==
  /\ At(q, "transcribe")
  /\ \/ requests' = [requests EXCEPT ![q].pc = "done", ![q].using = {}] /\ Release(q, "done")
     \/ Ends(q, "failed") /\ Release(q, "failed")
  /\ UNCHANGED <<backend, sessions, rows, objects>>

-----------------------------------------------------------------------------
(* Chats                                                                   *)

\* get_attachments_by_ids: all of them, and of this thread.
Selectable(t) == {r \in Committed : rows[r].thread = t}

\* get_chat_attachments_by_ids: no recording, and its object exists.
Usable(r) == rows[r].kind # "sound" /\ Stored(r) # None

\* The session is looked up, then the attachments, before the stream begins.
BeginChat(q) ==
  /\ At(q, "unused")
  /\ \/ \E t \in Threads : \E S \in SUBSET Selectable(t) :
          /\ sessions[t] = "open"
          /\ \A r \in S : Usable(r)
          /\ requests' = [requests EXCEPT ![q] =
               [NewRequest EXCEPT !.pc = "documents", !.thread = t, !.left = S]]
     \/ Ends(q, "failed")
  /\ UNCHANGED <<backend, sessions, rows, objects, temps>>

Documents(q) == {r \in requests[q].left : rows[r].kind = "document"}

\* build_attachment_text, when the thread is free: the documents together.
ReadDocuments(q) ==
  /\ At(q, "documents")
  /\ \/ /\ Documents(q) = {}
        /\ Goto(q, "videos") /\ UNCHANGED temps
     \/ /\ Documents(q) # {}
        /\ requests' = [requests EXCEPT ![q].pc = "reading", ![q].using = Documents(q),
                                        ![q].left = @ \ Documents(q)]
        /\ Materialize(q, Documents(q))
     \/ Ends(q, "failed") /\ UNCHANGED temps   \* the storage raises, or the client leaves
  /\ UNCHANGED <<backend, sessions, rows, objects>>

\* The videos, one after the other, and then the graph.
WatchVideo(q) ==
  /\ At(q, "videos")
  /\ \/ \E r \in requests[q].left :
          /\ requests' = [requests EXCEPT ![q].pc = "watching", ![q].using = {r}, ![q].left = @ \ {r}]
          /\ Materialize(q, {r})
     \/ requests[q].left = {} /\ Ends(q, "done") /\ UNCHANGED temps
     \/ Ends(q, "failed") /\ UNCHANGED temps
  /\ UNCHANGED <<backend, sessions, rows, objects>>

\* The analysis ends or raises, or the client leaves and it is cancelled.
Analyzed(q) ==
  /\ requests[q].pc \in {"reading", "watching"}
  /\ \/ requests' = [requests EXCEPT ![q].pc = "videos", ![q].using = {}] /\ Release(q, "videos")
     \/ Ends(q, "failed") /\ Release(q, "failed")
  /\ UNCHANGED <<backend, sessions, rows, objects>>

-----------------------------------------------------------------------------
\* The process stops and starts again, it may be with other settings; the
\* database rolls back what was not committed, temporary files stay.
Restart ==
  /\ \E q \in Requests : requests[q].pc \notin Over
  /\ backend' \in Backends
  /\ requests' = [q \in Requests |->
       IF requests[q].pc \in Over THEN requests[q] ELSE [requests[q] EXCEPT !.pc = "killed"]]
  /\ rows' = [r \in Rows |-> IF rows[r] # None /\ rows[r].state = "flushed"
                             THEN [rows[r] EXCEPT !.state = "gone"] ELSE rows[r]]
  /\ UNCHANGED <<sessions, objects, temps>>

Next ==
  \/ \E q \in Requests :
       \/ CreateSession(q) \/ DeleteSession(q) \/ DeletePlan(q)
       \/ BeginUpload(q) \/ Lookup(q) \/ Insert(q) \/ Commit(q) \/ Transcribed(q)
       \/ BeginChat(q) \/ ReadDocuments(q) \/ WatchVideo(q) \/ Analyzed(q)
  \/ Restart

Spec == Init /\ [][Next]_vars

-----------------------------------------------------------------------------
(***************************************************************************)
(* Every attachment there is can be read: the object that its row names    *)
(* holds the content whose hash the row has, whichever backend has been    *)
(* configured since, whatever failed between the row, the object and the   *)
(* commit, and whatever else is called the same.                           *)
(***************************************************************************)
RowsHaveContent == \A r \in Committed : Stored(r) = rows[r].content

(***************************************************************************)
(* An upload that was answered with success has an attachment in its own   *)
(* thread with just its content, be it a new one or one that was there.    *)
(***************************************************************************)
UploadsAreKept ==
  \A q \in Requests : (At(q, "done") /\ requests[q].route # None) =>
    /\ requests[q].row \in Committed
    /\ rows[requests[q].row].content = requests[q].content
    /\ rows[requests[q].row].thread = requests[q].thread

(***************************************************************************)
(* A content has two attachments in a thread, which every later upload of  *)
(* it fails on (scalar_one_or_none), for two reasons only: two uploads     *)
(* that looked before either had committed, or a recording whose content   *)
(* was there as a document.                                                *)
(***************************************************************************)
DuplicatesHaveCause ==
  \A r, s \in Committed :
    (r # s /\ rows[r].thread = rows[s].thread /\ rows[r].content = rows[s].content) =>
      \/ r \notin rows[s].seen /\ s \notin rows[r].seen
      \/ \E x \in {r, s} : LET y == IF x = r THEN s ELSE r IN
           /\ x \in rows[y].seen
           /\ rows[x].kind = "document" /\ rows[y].route = "voice"

(***************************************************************************)
(* A temporary copy of an object is in use by a request at work, whatever  *)
(* raised or was cancelled; only the end of the process leaves one behind. *)
(***************************************************************************)
TempFilesAreOwned ==
  \A q \in Requests, r \in Rows : <<q, r>> \in temps =>
    \/ requests[q].pc \in {"reading", "watching", "transcribe"} /\ r \in requests[q].using
    \/ At(q, "killed")

=============================================================================
