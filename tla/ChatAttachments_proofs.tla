----------------------- MODULE ChatAttachments_proofs -----------------------
(***************************************************************************)
(* Proofs about ChatAttachments, for any requests, threads, rows and       *)
(* contents.                                                               *)
(***************************************************************************)
EXTENDS ChatAttachments, TLAPS

-----------------------------------------------------------------------------
(* Types                                                                   *)

\* The initial state is well typed.
LEMMA TypeInit == Init => TypeOK
BY AttachmentAssumption DEF Init, TypeOK, Request, NewRequest, Keys, Over, Waits

Using == {"reading", "watching", "transcribe"}

(***************************************************************************)
(* The fields of a request.                                                *)
(***************************************************************************)
LEMMA RequestFields ==
  ASSUME TypeOK, NEW q \in Requests
  PROVE  /\ requests[q] \in Request
         /\ requests[q].pc \in Waits \cup Over /\ requests[q].route \in Routes \cup {None}
         /\ requests[q].thread \in Threads \cup {None} /\ requests[q].content \in Contents \cup {None}
         /\ requests[q].kind \in FileKinds \cup {None} /\ requests[q].row \in Rows \cup {None}
         /\ requests[q].seen \in SUBSET Rows /\ requests[q].left \in SUBSET Rows
         /\ requests[q].using \in SUBSET Rows
BY DEF TypeOK, Request

(***************************************************************************)
(* A step of one request leaves the others as they are.                    *)
(***************************************************************************)
LEMMA OneRequest ==
  ASSUME TypeOK, NEW q \in Requests, NEW x \in Request, requests' = [requests EXCEPT ![q] = x],
         x.pc \in Using => x.using # {}
  PROVE  /\ requests' \in [Requests -> Request]
         /\ requests'[q] = x /\ \A p \in Requests \ {q} : requests'[p] = requests[p]
         /\ \A p \in Requests : requests'[p].pc \in Using => requests'[p].using # {}
BY DEF TypeOK, Using

\* A request that ends forgets what it held and leaves the others alone.
LEMMA EndsType ==
  ASSUME TypeOK, NEW q \in Requests, NEW pc \in Over, Ends(q, pc)
  PROVE  /\ requests' \in [Requests -> Request]
         /\ requests'[q] = [NewRequest EXCEPT !.pc = pc]
         /\ \A p \in Requests \ {q} : requests'[p] = requests[p]
         /\ \A p \in Requests : requests'[p].pc \in Using => requests'[p].using # {}
<1> DEFINE x == [NewRequest EXCEPT !.pc = pc]
<1>1. x \in Request /\ x.pc = pc /\ pc \notin Using
  BY DEF NewRequest, Request, Over, Using
<1> HIDE DEF x
<1>2. requests' = [requests EXCEPT ![q] = x]
  BY DEF Ends, x
<1>3. QED
  BY <1>1, <1>2, OneRequest DEF x

\* Temporary copies belong to a request and a row.
LEMMA TempsType ==
  ASSUME TypeOK, NEW q \in Requests, NEW S \in SUBSET Rows,
         UNCHANGED temps \/ Materialize(q, S) \/ \E pc \in Over \cup Waits : Release(q, pc)
  PROVE  temps' \subseteq Requests \X Rows
BY DEF TypeOK, Materialize, NeedsTemp, Release

-----------------------------------------------------------------------------
(* What holds of a request at work, given the rows.                        *)

Filled(x) == x.pc \in {"lookup", "insert", "commit"} =>
  /\ x.route \in Routes /\ x.thread \in Threads
  /\ x.content \in Contents /\ x.kind \in FileKinds

\* Its row is as it wrote it, and not yet committed.
Flushing(x) == x.pc = "commit" =>
  /\ x.row \in Rows /\ rows[x.row] # None /\ rows[x.row].state = "flushed"
  /\ rows[x.row].thread = x.thread /\ rows[x.row].content = x.content

\* It has the attachment that it answers with.
Answered(x) == (x.pc \in {"transcribe", "done"} /\ x.route # None) =>
  /\ x.row \in Committed
  /\ rows[x.row].thread = x.thread /\ rows[x.row].content = x.content

\* An upload has seen the row r, and went on none the less.
Seen(r, thread, content, route) ==
  /\ r \in Committed
  /\ (rows[r].thread = thread /\ rows[r].content = content) =>
       rows[r].kind = "document" /\ route = "voice"

Looked(x) == x.pc = "insert" => \A r \in x.seen : Seen(r, x.thread, x.content, x.route)

RequestOK(x) == Filled(x) /\ Flushing(x) /\ Answered(x) /\ Looked(x)

Live(r) == rows[r] # None /\ rows[r].state # "gone"

(***************************************************************************)
(* The inductive invariant: besides the above, a flushed row has one       *)
(* request, every row that counts has its object, and every row knows what *)
(* its upload had seen.                                                    *)
(***************************************************************************)
OneOwner ==
  \A p, q \in Requests :
    (At(p, "commit") /\ At(q, "commit") /\ requests[p].row = requests[q].row) => p = q

Placed == \A r \in Rows : Live(r) => Stored(r) = rows[r].content

RowsLooked ==
  \A r \in Rows : rows[r] # None =>
    \A s \in rows[r].seen : Seen(s, rows[r].thread, rows[r].content, rows[r].route)

RowsInv == (\A q \in Requests : RequestOK(requests[q])) /\ OneOwner /\ Placed /\ RowsLooked

IInv == TypeOK /\ RowsInv

\* The invariant holds before any request.
LEMMA InvInit == Init => IInv
<1>1. Init => RowsInv
  BY DEF Init, RowsInv, RequestOK, Filled, Flushing, Answered, Looked, OneOwner, Placed, RowsLooked,
         Live, At, NewRequest
<1>2. QED
  BY <1>1, TypeInit DEF IInv

(***************************************************************************)
(* The step of one request that leaves rows and objects alone.             *)
(***************************************************************************)
LEMMA QuietStep ==
  ASSUME IInv, NEW q \in Requests, NEW x \in Request, requests' = [requests EXCEPT ![q] = x],
         x.pc \in Using => x.using # {}, x.pc # "commit", RequestOK(x), UNCHANGED <<rows, objects>>,
         backend' = backend, sessions' \in [Threads -> {"none", "open", "deleted"}],
         temps' \subseteq Requests \X Rows
  PROVE  IInv'
<1>1. TypeOK
  BY DEF IInv
<1>2. TypeOK'
  BY <1>1, OneRequest DEF TypeOK, Using, Keys
<1>3. \A p \in Requests : requests'[p] = IF p = q THEN x ELSE requests[p]
  BY <1>1 DEF TypeOK
<1>4. \A p \in Requests : RequestOK(requests'[p])
  BY <1>3 DEF IInv, RowsInv
<1>5. \A p \in Requests : RequestOK(requests[p])'
  BY <1>4 DEF RequestOK, Filled, Flushing, Answered, Looked, Seen, Committed
<1>6. OneOwner'
  BY <1>3 DEF IInv, RowsInv, OneOwner, At
<1>7. Placed' /\ RowsLooked'
  BY DEF IInv, RowsInv, Placed, RowsLooked, Live, Stored, Key, Seen, Committed
<1>8. QED
  BY <1>2, <1>5, <1>6, <1>7 DEF IInv, RowsInv

\* A request that ends without touching rows or objects keeps the invariant.
LEMMA EndsStep ==
  ASSUME IInv, NEW q \in Requests, NEW pc \in Over, Ends(q, pc), UNCHANGED <<rows, objects>>,
         backend' = backend, sessions' \in [Threads -> {"none", "open", "deleted"}],
         temps' \subseteq Requests \X Rows
  PROVE  IInv'
<1> DEFINE x == [NewRequest EXCEPT !.pc = pc]
<1>1. x \in Request /\ x.pc = pc /\ x.route = None
  BY DEF NewRequest, Request, Over
<1>2. requests' = [requests EXCEPT ![q] = x]
  BY DEF Ends
<1> HIDE DEF x
<1>3. RequestOK(x) /\ x.pc # "commit" /\ x.pc \notin Using
  BY <1>1 DEF RequestOK, Filled, Flushing, Answered, Looked, Over, Using
<1>4. QED
  BY <1>1, <1>2, <1>3, QuietStep

(***************************************************************************)
(* What is at hand in every step.                                          *)
(***************************************************************************)
LEMMA Facts ==
  ASSUME IInv
  PROVE  /\ TypeOK /\ RowsInv
         /\ backend \in Backends /\ sessions \in [Threads -> {"none", "open", "deleted"}]
         /\ rows \in [Rows -> Row \cup {None}]
         /\ objects \in [Backends \X Keys -> Contents \cup {None}]
         /\ temps \subseteq Requests \X Rows /\ requests \in [Requests -> Request]
         /\ \A q \in Requests : requests[q].pc \in Using => requests[q].using # {}
         /\ \A q \in Requests : requests[q] \in Request /\ RequestOK(requests[q])
BY DEF IInv, TypeOK, Using, RowsInv

\* So do the handlers of sessions and plans.
LEMMA SessionStep ==
  ASSUME IInv, NEW q \in Requests, CreateSession(q) \/ DeleteSession(q) \/ DeletePlan(q)
  PROVE  IInv'
<1>1. PICK pc \in Over : Ends(q, pc)
  BY DEF CreateSession, DeleteSession, DeletePlan, Over
<1>2. sessions' \in [Threads -> {"none", "open", "deleted"}]
  BY Facts DEF CreateSession, DeleteSession, DeletePlan
<1>3. QED
  BY Facts, <1>1, <1>2, EndsStep DEF CreateSession, DeleteSession, DeletePlan

\* An upload that begins has made no row yet.
LEMMA BeginUploadStep == ASSUME IInv, NEW q \in Requests, BeginUpload(q) PROVE IInv'
<1>1. CASE Ends(q, "failed")
  BY Facts, <1>1, EndsStep DEF BeginUpload, Over
<1>2. ASSUME NEW route \in Routes, NEW t \in Threads, NEW c \in Contents, NEW kind \in Accepts[route],
             requests' = [requests EXCEPT ![q] =
               [NewRequest EXCEPT !.pc = "lookup", !.route = route, !.thread = t,
                                  !.content = c, !.kind = kind]]
      PROVE  IInv'
  <2> DEFINE x == [NewRequest EXCEPT !.pc = "lookup", !.route = route, !.thread = t,
                                     !.content = c, !.kind = kind]
  <2>1. kind \in FileKinds
    BY DEF Accepts, Routes, FileKinds, VoiceKinds
  <2>2. x \in Request /\ x.pc = "lookup" /\ RequestOK(x)
    BY <2>1 DEF NewRequest, Request, Waits, RequestOK, Filled, Flushing, Answered, Looked
  <2>3. requests' = [requests EXCEPT ![q] = x]
    BY <1>2
  <2> HIDE DEF x
  <2>4. QED
    BY Facts, <2>2, <2>3, QuietStep DEF BeginUpload, Using
<1>3. QED
  BY <1>1, <1>2 DEF BeginUpload

\* A look-up remembers the committed rows of its time.
LEMMA LookupStep == ASSUME IInv, NEW q \in Requests, Lookup(q) PROVE IInv'
<1>0. /\ Filled(requests[q]) /\ requests[q].pc = "lookup" /\ requests[q] \in Request
      /\ \A r \in Committed : rows[r] \in Row
  BY Facts DEF RequestOK, Lookup, At, Committed
<1>1. CASE Ends(q, "failed") /\ UNCHANGED temps
  BY Facts, <1>1, EndsStep DEF Lookup, Over
<1>2. CASE /\ {r \in Found(q) : rows[r].kind \in Reuses(requests[q].route)} = {}
           /\ requests' = [requests EXCEPT ![q].pc = "insert", ![q].seen = Committed]
           /\ UNCHANGED temps
  <2> DEFINE x == [requests[q] EXCEPT !.pc = "insert", !.seen = Committed]
  <2>1. x \in Request /\ x.pc = "insert" /\ x.seen = Committed /\ x.thread = requests[q].thread
          /\ x.content = requests[q].content /\ x.route = requests[q].route /\ x.kind = requests[q].kind
    BY <1>0 DEF Request, Waits, Committed
  <2>2. requests' = [requests EXCEPT ![q] = x]
    BY <1>2
  <2> HIDE DEF x
  <2>3. Filled(x) /\ Flushing(x) /\ Answered(x)
    BY <1>0, <2>1 DEF Filled, Flushing, Answered
  <2>4. ASSUME NEW r \in Committed, rows[r].thread = x.thread, rows[r].content = x.content
        PROVE  rows[r].kind = "document" /\ x.route = "voice"
    <3>1. rows[r].kind \notin Reuses(x.route)
      BY <1>2, <2>1, <2>4 DEF Found
    <3>2. rows[r].kind \in FileKinds /\ x.route \in Routes
      BY <1>0, <2>1 DEF Row, Filled
    <3>3. QED
      BY <3>1, <3>2 DEF Reuses, FileKinds, VoiceKinds, Routes
  <2>5. Looked(x)
    BY <2>1, <2>4 DEF Looked, Seen
  <2>6. QED
    BY Facts, <1>2, <2>1, <2>2, <2>3, <2>5, QuietStep DEF Lookup, Using, RequestOK
<1>3. ASSUME NEW r \in Found(q), requests' = [requests EXCEPT ![q].pc = "done", ![q].row = r],
             UNCHANGED temps
      PROVE  IInv'
  <2> DEFINE x == [requests[q] EXCEPT !.pc = "done", !.row = r]
  <2>1. x \in Request /\ x.pc = "done" /\ x.row = r /\ x.thread = requests[q].thread
          /\ x.content = requests[q].content
    BY <1>0 DEF Request, Over, Found, Committed
  <2>2. requests' = [requests EXCEPT ![q] = x]
    BY <1>3
  <2> HIDE DEF x
  <2>3. RequestOK(x)
    BY <2>1 DEF RequestOK, Filled, Flushing, Answered, Looked, Found
  <2>4. QED
    BY Facts, <1>3, <2>1, <2>2, <2>3, QuietStep DEF Lookup, Using
<1>4. ASSUME NEW r \in Found(q), Materialize(q, {r}),
             requests' = [requests EXCEPT ![q].pc = "transcribe", ![q].row = r, ![q].using = {r}]
      PROVE  IInv'
  <2> DEFINE x == [requests[q] EXCEPT !.pc = "transcribe", !.row = r, !.using = {r}]
  <2>0. r \in Rows
    BY DEF Found, Committed
  <2>1. x \in Request /\ x.pc = "transcribe" /\ x.using # {} /\ x.row = r
          /\ x.thread = requests[q].thread /\ x.content = requests[q].content
    BY <1>0, <2>0 DEF Request, Waits
  <2>2. requests' = [requests EXCEPT ![q] = x]
    BY <1>4
  <2> HIDE DEF x
  <2>3. RequestOK(x)
    BY <2>1 DEF RequestOK, Filled, Flushing, Answered, Looked, Found
  <2>4. temps' \subseteq Requests \X Rows
    BY <1>4, <2>0, Facts, TempsType
  <2>5. QED
    BY Facts, <2>1, <2>2, <2>3, <2>4, QuietStep DEF Lookup, Using
<1>5. QED
  BY <1>1, <1>2, <1>3, <1>4 DEF Lookup

(***************************************************************************)
(* Uploads write a row of their own.                                       *)
(***************************************************************************)
LEMMA InsertStep == ASSUME IInv, NEW q \in Requests, Insert(q) PROVE IInv'
<1>0. /\ Filled(requests[q]) /\ Looked(requests[q]) /\ requests[q].pc = "insert"
      /\ requests[q] \in Request
  BY Facts DEF RequestOK, Insert, At
<1>1. PICK r \in Rows, state \in {"flushed", "gone"} :
        /\ rows[r] = None
        /\ rows' = [rows EXCEPT ![r] = NewRow(q, state)]
        /\ objects' \in {objects, Put(r, requests[q].thread, requests[q].content)}
        /\ \/ /\ state = "flushed"
              /\ objects' = Put(r, requests[q].thread, requests[q].content)
              /\ requests' = [requests EXCEPT ![q].pc = "commit", ![q].row = r, ![q].seen = {}]
           \/ state = "gone" /\ Ends(q, "failed")
  BY DEF Insert
<1>2. LET n == NewRow(q, state) IN
        /\ n \in Row /\ n # None /\ n.state = state /\ n.thread = requests[q].thread
        /\ n.content = requests[q].content /\ n.kind = requests[q].kind /\ n.backend = backend
        /\ n.route = requests[q].route /\ n.seen = requests[q].seen
  BY <1>0, Facts, RowAssumption DEF NewRow, Row, Filled, Request
<1> DEFINE n == NewRow(q, state)
<1>3. n \in Row /\ n # None /\ n.state = state /\ n.thread = requests[q].thread
        /\ n.content = requests[q].content /\ n.kind = requests[q].kind /\ n.backend = backend
        /\ n.route = requests[q].route /\ n.seen = requests[q].seen
  BY <1>2
<1> HIDE DEF n
<1>4. /\ rows' \in [Rows -> Row \cup {None}] /\ rows'[r] = n
      /\ \A s \in Rows \ {r} : rows'[s] = rows[s]
  BY <1>1, <1>3, Facts DEF n
<1>5. Committed \subseteq Committed' /\ \A s \in Committed : rows'[s] = rows[s]
  BY <1>1, <1>4 DEF Committed
<1>6. /\ objects' \in [Backends \X Keys -> Contents \cup {None}]
      /\ state = "flushed" => objects'[<<backend, r>>] = requests[q].content
      /\ \A b \in Backends, s \in Rows \ {r} : objects'[<<b, s>>] = objects[<<b, s>>]
  BY <1>0, <1>1, Facts DEF Put, Key, Filled, Keys
<1>7. PICK x \in Request :
        /\ requests' = [requests EXCEPT ![q] = x]
        /\ x.pc \notin Using \cup {"insert", "lookup"}
        /\ \/ /\ x.pc = "commit" /\ x.row = r /\ state = "flushed" /\ x.route = requests[q].route
              /\ x.thread = requests[q].thread /\ x.content = requests[q].content
              /\ x.kind = requests[q].kind
           \/ x.pc = "failed"
  <2>1. CASE Ends(q, "failed")
    <3> DEFINE y == [NewRequest EXCEPT !.pc = "failed"]
    <3>1. y \in Request /\ y.pc = "failed"
      BY DEF NewRequest, Request, Over
    <3>2. requests' = [requests EXCEPT ![q] = y]
      BY <2>1 DEF Ends
    <3> HIDE DEF y
    <3>3. QED
      BY <3>1, <3>2 DEF Using
  <2>2. CASE state = "flushed" /\ requests' = [requests EXCEPT ![q].pc = "commit", ![q].row = r, ![q].seen = {}]
    <3> DEFINE y == [requests[q] EXCEPT !.pc = "commit", !.row = r, !.seen = {}]
    <3>1. /\ y \in Request /\ y.pc = "commit" /\ y.row = r /\ y.route = requests[q].route
          /\ y.thread = requests[q].thread /\ y.content = requests[q].content
          /\ y.kind = requests[q].kind
      BY <1>0 DEF Request, Waits
    <3>2. requests' = [requests EXCEPT ![q] = y]
      BY <2>2
    <3> HIDE DEF y
    <3>3. QED
      BY <2>2, <3>1, <3>2 DEF Using
  <2>3. QED
    BY <1>1, <2>1, <2>2
<1>8. TypeOK'
  <2>1. UNCHANGED <<backend, sessions, temps>>
    BY DEF Insert
  <2>2. QED
    BY <1>4, <1>6, <1>7, <2>1, Facts, OneRequest DEF TypeOK, Using, Keys
<1>9. \A p \in Requests : requests'[p] = IF p = q THEN x ELSE requests[p]
  BY <1>7, Facts
<1>10. ASSUME NEW p \in Requests PROVE RequestOK(requests[p])'
  <2>1. CASE p = q
    <3>1. requests'[p] = x
      BY <1>9, <2>1
    <3>2. RequestOK(x)'
      BY <1>0, <1>1, <1>3, <1>4, <1>7 DEF RequestOK, Filled, Flushing, Answered, Looked, Using
    <3>3. QED
      BY <3>1, <3>2 DEF RequestOK, Filled, Flushing, Answered, Looked, Seen, Committed
  <2>2. CASE p # q
    <3>1. requests'[p] = requests[p] /\ RequestOK(requests[p])
      BY <1>9, <2>2, Facts
    <3>2. Flushing(requests[p])'
      BY <3>1, <1>1, <1>4 DEF RequestOK, Flushing
    <3>3. Answered(requests[p])' /\ Looked(requests[p])'
      BY <3>1, <1>5 DEF RequestOK, Answered, Looked, Seen
    <3>4. QED
      BY <3>1, <3>2, <3>3 DEF RequestOK, Filled
  <2>3. QED
    BY <2>1, <2>2
<1>11. OneOwner'
  <2>1. \A p \in Requests : At(p, "commit") => requests[p].row # r
    BY <1>1, Facts DEF RequestOK, Flushing, At
  <2>2. QED
    BY <1>7, <1>9, <2>1, Facts DEF RowsInv, OneOwner, At
<1>12. Placed'
  <2>1. ASSUME NEW s \in Rows \ {r}, rows[s] # None, rows[s].state # "gone"
        PROVE  objects'[<<rows[s].backend, s>>] = rows[s].content
    BY <1>6, <2>1, Facts DEF RowsInv, Placed, Live, Stored, Key, Row
  <2>2. QED
    BY <1>1, <1>3, <1>4, <1>6, <2>1 DEF Placed, Live, Stored, Key
<1>13. RowsLooked'
  <2>1. \A s \in n.seen : Seen(s, n.thread, n.content, n.route)
    BY <1>0, <1>3 DEF Looked
  <2>2. QED
    BY <1>1, <1>4, <1>5, <2>1, Facts DEF RowsInv, RowsLooked, Seen
<1>14. QED
  BY <1>8, <1>10, <1>11, <1>12, <1>13 DEF IInv, RowsInv

\* A commit makes visible a row whose object is there.
LEMMA CommitStep == ASSUME IInv, NEW q \in Requests, Commit(q) PROVE IInv'
<1> DEFINE r == requests[q].row
<1>0. /\ requests[q].pc = "commit" /\ requests[q] \in Request /\ r \in Rows /\ rows[r] \in Row
      /\ rows[r] # None /\ rows[r].state = "flushed"
      /\ rows[r].thread = requests[q].thread /\ rows[r].content = requests[q].content
  BY Facts DEF RequestOK, Flushing, Commit, At
<1>1. PICK state \in {"gone", "committed"} :
        /\ rows' = [rows EXCEPT ![r].state = state]
        /\ \/ Ends(q, "failed") /\ UNCHANGED temps
           \/ state = "committed" /\ Goto(q, "done") /\ UNCHANGED temps
           \/ /\ state = "committed" /\ Materialize(q, {r})
              /\ requests' = [requests EXCEPT ![q].pc = "transcribe", ![q].using = {r}]
  BY DEF Commit
<1> HIDE DEF r
<1>2. /\ rows' \in [Rows -> Row \cup {None}] /\ rows'[r] = [rows[r] EXCEPT !.state = state]
      /\ rows'[r] # None
      /\ \A s \in Rows \ {r} : rows'[s] = rows[s]
  BY <1>0, <1>1, Facts, RowAssumption DEF Row
<1>3. /\ rows'[r].state = state /\ rows'[r].thread = rows[r].thread
      /\ rows'[r].content = rows[r].content /\ rows'[r].kind = rows[r].kind
      /\ rows'[r].route = rows[r].route /\ rows'[r].seen = rows[r].seen
      /\ rows'[r].backend = rows[r].backend
  BY <1>0, <1>2 DEF Row
<1>4. Committed \subseteq Committed' /\ \A s \in Committed : rows'[s] = rows[s]
  BY <1>0, <1>2 DEF Committed
<1>5. PICK x \in Request :
        /\ requests' = [requests EXCEPT ![q] = x]
        /\ x.pc \in Using => x.using # {}
        /\ \/ x.pc = "failed"
           \/ /\ x.pc \in {"done", "transcribe"} /\ state = "committed" /\ x.row = r
              /\ x.thread = requests[q].thread /\ x.content = requests[q].content
  <2>1. CASE Ends(q, "failed")
    <3> DEFINE y == [NewRequest EXCEPT !.pc = "failed"]
    <3>1. y \in Request /\ y.pc = "failed"
      BY DEF NewRequest, Request, Over
    <3>2. requests' = [requests EXCEPT ![q] = y]
      BY <2>1 DEF Ends
    <3> HIDE DEF y
    <3>3. QED
      BY <3>1, <3>2 DEF Using
  <2>2. CASE state = "committed" /\ Goto(q, "done")
    <3> DEFINE y == [requests[q] EXCEPT !.pc = "done"]
    <3>1. /\ y \in Request /\ y.pc = "done" /\ y.row = r
          /\ y.thread = requests[q].thread /\ y.content = requests[q].content
      BY <1>0 DEF Request, Over, r
    <3>2. requests' = [requests EXCEPT ![q] = y]
      BY <2>2 DEF Goto
    <3> HIDE DEF y
    <3>3. QED
      BY <2>2, <3>1, <3>2 DEF Using
  <2>3. CASE state = "committed" /\ requests' = [requests EXCEPT ![q].pc = "transcribe", ![q].using = {r}]
    <3> DEFINE y == [requests[q] EXCEPT !.pc = "transcribe", !.using = {r}]
    <3>1. /\ y \in Request /\ y.pc = "transcribe" /\ y.row = r /\ y.using # {}
          /\ y.thread = requests[q].thread /\ y.content = requests[q].content
      BY <1>0 DEF Request, Waits, r
    <3>2. requests' = [requests EXCEPT ![q] = y]
      BY <2>3
    <3> HIDE DEF y
    <3>3. QED
      BY <2>3, <3>1, <3>2
  <2>4. QED
    BY <1>1, <2>1, <2>2, <2>3
<1>6. TypeOK'
  <2>1. UNCHANGED <<backend, sessions, objects>>
    BY DEF Commit
  <2>2. temps' \subseteq Requests \X Rows
    BY <1>0, <1>1, Facts, TempsType
  <2>3. QED
    BY <1>2, <1>5, <2>1, <2>2, Facts, OneRequest DEF TypeOK, Using, Keys
<1>7. \A p \in Requests : requests'[p] = IF p = q THEN x ELSE requests[p]
  BY <1>5, Facts
<1>8. ASSUME NEW p \in Requests PROVE RequestOK(requests[p])'
  <2>1. CASE p = q
    <3>1. requests'[p] = x
      BY <1>7, <2>1
    <3>2. state = "committed" => r \in Committed'
      BY <1>0, <1>2, <1>3 DEF Committed
    <3>3. x.pc \in {"done", "transcribe"} =>
            x.row \in Committed' /\ rows'[x.row].thread = x.thread /\ rows'[x.row].content = x.content
      BY <1>0, <1>3, <1>5, <3>2
    <3>4. RequestOK(x)'
      BY <1>5, <3>3 DEF RequestOK, Filled, Flushing, Answered, Looked
    <3>5. QED
      BY <3>1, <3>4 DEF RequestOK, Filled, Flushing, Answered, Looked, Seen, Committed
  <2>2. CASE p # q
    <3>1. requests'[p] = requests[p] /\ RequestOK(requests[p])
      BY <1>7, <2>2, Facts
    <3>2. requests[p].pc = "commit" => requests[p].row # r
      BY <1>0, <2>2, Facts DEF RowsInv, OneOwner, At, r
    <3>3. Flushing(requests[p])'
      BY <3>1, <3>2, <1>2 DEF RequestOK, Flushing
    <3>4. Answered(requests[p])' /\ Looked(requests[p])'
      BY <3>1, <1>4 DEF RequestOK, Answered, Looked, Seen
    <3>5. QED
      BY <3>1, <3>3, <3>4 DEF RequestOK, Filled
  <2>3. QED
    BY <2>1, <2>2
<1>9. OneOwner'
  BY <1>5, <1>7, Facts DEF RowsInv, OneOwner, At
<1>10. Placed'
  <2>1. objects' = objects
    BY DEF Commit
  <2>2. ASSUME NEW s \in Rows, Live(s)'
        PROVE  Live(s) /\ rows'[s].content = rows[s].content /\ rows'[s].backend = rows[s].backend
    BY <1>0, <1>2, <1>3, <2>2 DEF Live
  <2>3. \A s \in Rows : Live(s) => objects[<<rows[s].backend, s>>] = rows[s].content
    BY Facts DEF RowsInv, Placed, Stored, Key
  <2>4. QED
    BY <2>1, <2>2, <2>3 DEF Placed, Stored, Key
<1>11. RowsLooked'
  <2>1. ASSUME NEW s \in Rows, rows'[s] # None
        PROVE  /\ rows[s] # None /\ rows'[s].seen = rows[s].seen /\ rows'[s].thread = rows[s].thread
               /\ rows'[s].content = rows[s].content /\ rows'[s].route = rows[s].route
    BY <1>0, <1>2, <1>3, <2>1
  <2>2. ASSUME NEW s \in Rows, rows[s] # None, NEW o \in rows[s].seen
        PROVE  Seen(o, rows[s].thread, rows[s].content, rows[s].route)
    BY <2>2, Facts DEF RowsInv, RowsLooked
  <2>3. ASSUME NEW o, NEW t, NEW c, NEW route, Seen(o, t, c, route)
        PROVE  Seen(o, t, c, route)'
    BY <2>3, <1>4 DEF Seen
  <2>4. QED
    BY <2>1, <2>2, <2>3 DEF RowsLooked
<1>12. QED
  BY <1>6, <1>8, <1>9, <1>10, <1>11 DEF IInv, RowsInv

(***************************************************************************)
(* Chats and transcriptions only read.                                     *)
(***************************************************************************)
LEMMA AnalysisStep == ASSUME IInv, NEW q \in Requests, Transcribed(q) \/ Analyzed(q) PROVE IInv'
<1>0. /\ requests[q] \in Request /\ RequestOK(requests[q]) /\ temps' \subseteq Requests \X Rows
      /\ UNCHANGED <<backend, sessions, rows, objects>>
  BY Facts DEF Transcribed, Analyzed, Release
<1>1. CASE Ends(q, "failed")
  BY <1>0, <1>1, Facts, EndsStep DEF Over
<1>2. CASE At(q, "transcribe") /\ requests' = [requests EXCEPT ![q].pc = "done", ![q].using = {}]
  <2> DEFINE x == [requests[q] EXCEPT !.pc = "done", !.using = {}]
  <2>1. /\ x \in Request /\ x.pc = "done" /\ x.row = requests[q].row /\ x.route = requests[q].route
        /\ x.thread = requests[q].thread /\ x.content = requests[q].content
    BY <1>0 DEF Request, Over
  <2>2. requests' = [requests EXCEPT ![q] = x]
    BY <1>2
  <2> HIDE DEF x
  <2>3. RequestOK(x)
    BY <1>0, <1>2, <2>1 DEF RequestOK, Filled, Flushing, Answered, Looked, At
  <2>4. QED
    BY <1>0, Facts, <2>1, <2>2, <2>3, QuietStep DEF Using
<1>3. CASE requests' = [requests EXCEPT ![q].pc = "videos", ![q].using = {}]
  <2> DEFINE x == [requests[q] EXCEPT !.pc = "videos", !.using = {}]
  <2>1. x \in Request /\ x.pc = "videos"
    BY <1>0 DEF Request, Waits
  <2>2. requests' = [requests EXCEPT ![q] = x]
    BY <1>3
  <2> HIDE DEF x
  <2>3. RequestOK(x)
    BY <2>1 DEF RequestOK, Filled, Flushing, Answered, Looked
  <2>4. QED
    BY <1>0, Facts, <2>1, <2>2, <2>3, QuietStep DEF Using
<1>4. QED
  BY <1>1, <1>2, <1>3 DEF Transcribed, Analyzed

\* A chat begins with rows whose objects are there.
LEMMA BeginChatStep == ASSUME IInv, NEW q \in Requests, BeginChat(q) PROVE IInv'
<1>0. UNCHANGED <<backend, sessions, rows, objects, temps>>
  BY DEF BeginChat
<1>1. CASE Ends(q, "failed")
  BY <1>0, <1>1, Facts, EndsStep DEF Over
<1>2. ASSUME NEW t \in Threads, NEW S \in SUBSET Selectable(t),
             requests' = [requests EXCEPT ![q] =
               [NewRequest EXCEPT !.pc = "documents", !.thread = t, !.left = S]]
      PROVE  IInv'
  <2> DEFINE x == [NewRequest EXCEPT !.pc = "documents", !.thread = t, !.left = S]
  <2>0. S \in SUBSET Rows
    BY DEF Selectable, Committed
  <2>1. x \in Request /\ x.pc = "documents"
    BY <2>0 DEF NewRequest, Request, Waits
  <2>2. requests' = [requests EXCEPT ![q] = x]
    BY <1>2
  <2> HIDE DEF x
  <2>3. RequestOK(x)
    BY <2>1 DEF RequestOK, Filled, Flushing, Answered, Looked
  <2>4. QED
    BY <1>0, Facts, <2>1, <2>2, <2>3, QuietStep DEF Using
<1>3. QED
  BY <1>1, <1>2 DEF BeginChat

\* Reading documents and watching videos changes copies only.
LEMMA ChatStep == ASSUME IInv, NEW q \in Requests, ReadDocuments(q) \/ WatchVideo(q) PROVE IInv'
<1>0. requests[q] \in Request /\ UNCHANGED <<backend, sessions, rows, objects>>
  BY Facts DEF ReadDocuments, WatchVideo
<1>1. CASE \E pc \in Over : Ends(q, pc) /\ UNCHANGED temps
  BY <1>0, <1>1, Facts, EndsStep
<1>2. CASE Goto(q, "videos") /\ UNCHANGED temps
  <2> DEFINE x == [requests[q] EXCEPT !.pc = "videos"]
  <2>1. x \in Request /\ x.pc = "videos"
    BY <1>0 DEF Request, Waits
  <2>2. requests' = [requests EXCEPT ![q] = x]
    BY <1>2 DEF Goto
  <2> HIDE DEF x
  <2>3. RequestOK(x)
    BY <2>1 DEF RequestOK, Filled, Flushing, Answered, Looked
  <2>4. QED
    BY <1>0, <1>2, Facts, <2>1, <2>2, <2>3, QuietStep DEF Using
<1>3. ASSUME NEW pc \in {"reading", "watching"}, NEW S \in SUBSET requests[q].left, S # {},
             requests' = [requests EXCEPT ![q].pc = pc, ![q].using = S, ![q].left = @ \ S],
             Materialize(q, S)
      PROVE  IInv'
  <2> DEFINE x == [requests[q] EXCEPT !.pc = pc, !.using = S, !.left = @ \ S]
  <2>0. S \in SUBSET Rows
    BY Facts, RequestFields
  <2>1. x \in Request /\ x.pc = pc /\ x.using # {}
    BY <1>0, <1>3, <2>0 DEF Request, Waits
  <2>2. requests' = [requests EXCEPT ![q] = x]
    BY <1>3
  <2> HIDE DEF x
  <2>3. RequestOK(x)
    BY <2>1 DEF RequestOK, Filled, Flushing, Answered, Looked
  <2>4. temps' \subseteq Requests \X Rows
    BY <1>3, <2>0, Facts, TempsType
  <2>5. QED
    BY <1>0, Facts, <2>1, <2>2, <2>3, <2>4, QuietStep
<1>4. QED
  BY <1>1, <1>2, <1>3, <1>0 DEF ReadDocuments, WatchVideo, Documents, Over

(***************************************************************************)
(* A restart takes back what was not committed, and ends every request.    *)
(***************************************************************************)
LEMMA RestartStep == ASSUME IInv, Restart PROVE IInv'
<1>1. ASSUME NEW r \in Rows
      PROVE  /\ rows'[r] = IF rows[r] # None /\ rows[r].state = "flushed"
                             THEN [rows[r] EXCEPT !.state = "gone"] ELSE rows[r]
             /\ rows'[r] \in Row \cup {None} /\ (rows'[r] = None <=> rows[r] = None)
             /\ rows[r] # None =>
                  /\ rows'[r].thread = rows[r].thread /\ rows'[r].content = rows[r].content
                  /\ rows'[r].kind = rows[r].kind /\ rows'[r].route = rows[r].route
                  /\ rows'[r].seen = rows[r].seen /\ rows'[r].backend = rows[r].backend
                  /\ rows'[r].state = IF rows[r].state = "flushed" THEN "gone" ELSE rows[r].state
  BY Facts, RowAssumption DEF Restart, Row
<1>2. ASSUME NEW q \in Requests
      PROVE  /\ requests'[q] \in Request /\ requests'[q].pc \in Over
             /\ requests[q].pc \in Over => requests'[q] = requests[q]
             /\ requests[q].pc \notin Over => requests'[q].pc = "killed"
  <2>1. requests[q] \in Request
    BY Facts
  <2>2. requests'[q] = IF requests[q].pc \in Over THEN requests[q]
                       ELSE [requests[q] EXCEPT !.pc = "killed"]
    BY DEF Restart
  <2>3. CASE requests[q].pc \in Over
    BY <2>1, <2>2, <2>3
  <2>4. CASE requests[q].pc \notin Over
    <3>1. requests'[q] = [requests[q] EXCEPT !.pc = "killed"]
      BY <2>2, <2>4
    <3>2. requests'[q] \in Request /\ requests'[q].pc = "killed"
      BY <2>1, <3>1 DEF Request, Over
    <3>3. QED
      BY <2>4, <3>2 DEF Over
  <2>5. QED
    BY <2>3, <2>4
<1>3. TypeOK'
  <2>1. rows' \in [Rows -> Row \cup {None}]
    BY <1>1 DEF Restart
  <2>2. requests' \in [Requests -> Request]
    BY <1>2 DEF Restart
  <2>3. QED
    BY <1>2, <2>1, <2>2, Facts DEF Restart, TypeOK, Over, Keys
<1>4. Committed' = Committed
  BY <1>1 DEF Committed
<1>5. \A s \in Committed : rows'[s] = rows[s]
  BY <1>1 DEF Committed
<1>6. ASSUME NEW q \in Requests PROVE RequestOK(requests[q])'
  <2>1. CASE requests[q].pc \in Over
    <3>1. requests'[q] = requests[q] /\ RequestOK(requests[q])
      BY <1>2, <2>1, Facts
    <3>2. QED
      BY <2>1, <3>1, <1>4, <1>5 DEF RequestOK, Filled, Flushing, Answered, Looked, Over
  <2>2. CASE requests[q].pc \notin Over
    BY <1>2, <2>2 DEF RequestOK, Filled, Flushing, Answered, Looked
  <2>3. QED
    BY <2>1, <2>2
<1>7. OneOwner'
  BY <1>2 DEF OneOwner, At, Over
<1>8. Placed'
  <2>1. objects' = objects
    BY DEF Restart
  <2>2. QED
    BY <1>1, <2>1, Facts DEF RowsInv, Placed, Live, Stored, Key
<1>9. RowsLooked'
  <2>1. ASSUME NEW s \in Rows, rows[s] # None, NEW o \in rows[s].seen
        PROVE  Seen(o, rows[s].thread, rows[s].content, rows[s].route)
    BY <2>1, Facts DEF RowsInv, RowsLooked
  <2>2. ASSUME NEW o, NEW t, NEW c, NEW route, Seen(o, t, c, route)
        PROVE  Seen(o, t, c, route)'
    BY <2>2, <1>4, <1>5 DEF Seen
  <2>3. QED
    BY <1>1, <2>1, <2>2 DEF RowsLooked
<1>10. QED
  BY <1>3, <1>6, <1>7, <1>8, <1>9 DEF IInv, RowsInv

\* Every step keeps the invariant.
LEMMA InvStep == IInv /\ [Next]_vars => IInv'
<1> SUFFICES ASSUME IInv, [Next]_vars PROVE IInv'
  OBVIOUS
<1>1. CASE UNCHANGED vars
  BY <1>1 DEF vars, IInv, TypeOK, Keys, RowsInv, RequestOK, Filled, Flushing, Answered, Looked, Seen,
              Committed, OneOwner, At, Placed, Live, Stored, Key, RowsLooked
<1>2. QED
  BY <1>1, SessionStep, BeginUploadStep, LookupStep, InsertStep, CommitStep, AnalysisStep,
     BeginChatStep, ChatStep, RestartStep DEF Next

\* The invariant holds in every reachable state.
LEMMA Invariant == Spec => []IInv
BY InvInit, InvStep, PTL DEF Spec

-----------------------------------------------------------------------------
(* The results                                                             *)

(***************************************************************************)
(* Every reachable state is well typed.                                    *)
(***************************************************************************)
THEOREM TypeCorrect == Spec => []TypeOK
<1>1. IInv => TypeOK
  BY DEF IInv
<1>2. QED
  BY Invariant, <1>1, PTL

(***************************************************************************)
(* Every attachment has its object, with its content, on the backend it    *)
(* was put to (services/file_service.py, core/storage.py).                 *)
(***************************************************************************)
THEOREM ContentKept == Spec => []RowsHaveContent
<1>1. IInv => RowsHaveContent
  BY DEF IInv, RowsInv, Placed, RowsHaveContent, Live, Committed
<1>2. QED
  BY Invariant, <1>1, PTL

(***************************************************************************)
(* An upload that was answered has its attachment, in its own thread.      *)
(***************************************************************************)
THEOREM UploadsKept == Spec => []UploadsAreKept
<1>1. IInv => UploadsAreKept
  BY DEF IInv, RowsInv, RequestOK, Answered, UploadsAreKept, At
<1>2. QED
  BY Invariant, <1>1, PTL

(***************************************************************************)
(* Two attachments of one content come from two uploads that did not see   *)
(* each other, or from a recording of what was there as a document.        *)
(***************************************************************************)
THEOREM DuplicatesExplained == Spec => []DuplicatesHaveCause
<1>1. ASSUME IInv, NEW r \in Committed, NEW s \in Committed, r # s,
             rows[r].thread = rows[s].thread, rows[r].content = rows[s].content
      PROVE  \/ r \notin rows[s].seen /\ s \notin rows[r].seen
             \/ \E x \in {r, s} : LET y == IF x = r THEN s ELSE r IN
                  /\ x \in rows[y].seen
                  /\ rows[x].kind = "document" /\ rows[y].route = "voice"
  BY <1>1 DEF IInv, RowsInv, RowsLooked, Seen, Committed
<1>2. IInv => DuplicatesHaveCause
  BY <1>1 DEF DuplicatesHaveCause
<1>3. QED
  BY Invariant, <1>2, PTL

(***************************************************************************)
(* A temporary file belongs to a request that is using it, or that the end *)
(* of the process has killed.                                              *)
(***************************************************************************)
LEMMA TempsStep == TypeOK /\ TempFilesAreOwned /\ [Next]_vars => TempFilesAreOwned'
<1> SUFFICES ASSUME TypeOK, TempFilesAreOwned, [Next]_vars PROVE TempFilesAreOwned'
  OBVIOUS
<1>1. CASE UNCHANGED vars
  BY <1>1 DEF vars, TempFilesAreOwned, At
<1>2. CASE Restart
  BY <1>2 DEF Restart, TempFilesAreOwned, At, TypeOK, Over, Request
<1>3. ASSUME NEW q \in Requests, \A p \in Requests \ {q} : requests'[p] = requests[p],
             \/ requests[q].pc \notin Using \cup {"killed"} /\ UNCHANGED temps
             \/ \E pc \in Waits \cup Over : Release(q, pc)
             \/ /\ requests[q].pc \notin Using \cup {"killed"} /\ requests'[q].pc \in Using
                /\ Materialize(q, requests'[q].using)
      PROVE  TempFilesAreOwned'
  <2>1. CASE UNCHANGED temps /\ requests[q].pc \notin Using \cup {"killed"}
    BY <1>3, <2>1 DEF TempFilesAreOwned, At, Using
  <2>2. CASE \E pc \in Waits \cup Over : Release(q, pc)
    BY <1>3, <2>2 DEF TempFilesAreOwned, At, Release
  <2>3. CASE /\ requests[q].pc \notin Using \cup {"killed"} /\ requests'[q].pc \in Using
             /\ Materialize(q, requests'[q].using)
    BY <1>3, <2>3 DEF TempFilesAreOwned, At, Using, Materialize, NeedsTemp
  <2>4. QED
    BY <1>3, <2>1, <2>2, <2>3
<1>4. ASSUME NEW q \in Requests, CreateSession(q) \/ DeleteSession(q) \/ DeletePlan(q)
      PROVE  TempFilesAreOwned'
  BY <1>3, <1>4 DEF CreateSession, DeleteSession, DeletePlan, Ends, At, TypeOK, Using
<1>5. ASSUME NEW q \in Requests, BeginUpload(q) \/ BeginChat(q) PROVE TempFilesAreOwned'
  BY <1>3, <1>5 DEF BeginUpload, BeginChat, Ends, At, TypeOK, Using
<1>6. ASSUME NEW q \in Requests, Insert(q) PROVE TempFilesAreOwned'
  BY <1>3, <1>6 DEF Insert, Ends, At, TypeOK, Using
<1>7. ASSUME NEW q \in Requests, Lookup(q) PROVE TempFilesAreOwned'
  <2>1. /\ requests[q].pc \notin Using \cup {"killed"} /\ requests[q] \in Request
        /\ \A p \in Requests \ {q} : requests'[p] = requests[p]
    BY <1>7 DEF Lookup, At, Using, Ends, TypeOK
  <2>2. CASE UNCHANGED temps
    BY <1>3, <2>1, <2>2
  <2>3. ASSUME NEW r \in Found(q), Materialize(q, {r}),
               requests' = [requests EXCEPT ![q].pc = "transcribe", ![q].row = r, ![q].using = {r}]
        PROVE  requests'[q].pc \in Using /\ Materialize(q, requests'[q].using)
    <3>1. requests'[q].pc = "transcribe" /\ requests'[q].using = {r}
      BY <2>1, <2>3 DEF TypeOK, Request
    <3>2. QED
      BY <2>3, <3>1 DEF Using
  <2>4. QED
    BY <1>7, <1>3, <2>1, <2>2, <2>3 DEF Lookup
<1>8. ASSUME NEW q \in Requests, Commit(q) PROVE TempFilesAreOwned'
  <2>1. /\ requests[q].pc \notin Using \cup {"killed"} /\ requests[q] \in Request
        /\ \A p \in Requests \ {q} : requests'[p] = requests[p]
    BY <1>8 DEF Commit, At, Using, Ends, Goto, TypeOK
  <2>2. CASE UNCHANGED temps
    BY <1>3, <2>1, <2>2
  <2>3. ASSUME NEW r, Materialize(q, {r}),
               requests' = [requests EXCEPT ![q].pc = "transcribe", ![q].using = {r}]
        PROVE  requests'[q].pc \in Using /\ Materialize(q, requests'[q].using)
    <3>1. requests'[q].pc = "transcribe" /\ requests'[q].using = {r}
      BY <2>1, <2>3 DEF TypeOK, Request
    <3>2. QED
      BY <2>3, <3>1 DEF Using
  <2>4. QED
    BY <1>8, <1>3, <2>1, <2>2, <2>3 DEF Commit
<1>9. ASSUME NEW q \in Requests, ReadDocuments(q) \/ WatchVideo(q) PROVE TempFilesAreOwned'
  <2>1. /\ requests[q].pc \notin Using \cup {"killed"} /\ requests[q] \in Request
        /\ \A p \in Requests \ {q} : requests'[p] = requests[p]
    BY <1>9 DEF ReadDocuments, WatchVideo, At, Using, Ends, Goto, TypeOK
  <2>2. CASE UNCHANGED temps
    BY <1>3, <2>1, <2>2
  <2>3. ASSUME NEW S, NEW pc \in {"reading", "watching"}, Materialize(q, S),
               requests' = [requests EXCEPT ![q].pc = pc, ![q].using = S, ![q].left = @ \ S]
        PROVE  requests'[q].pc \in Using /\ Materialize(q, requests'[q].using)
    <3>1. requests'[q].pc = pc /\ requests'[q].using = S
      BY <2>1, <2>3 DEF TypeOK, Request
    <3>2. QED
      BY <2>3, <3>1 DEF Using
  <2>4. QED
    BY <1>9, <1>3, <2>1, <2>2, <2>3 DEF ReadDocuments, WatchVideo
<1>10. ASSUME NEW q \in Requests, Transcribed(q) \/ Analyzed(q) PROVE TempFilesAreOwned'
  BY <1>3, <1>10 DEF Transcribed, Analyzed, Ends, TypeOK, Waits, Over
<1>11. QED
  BY <1>1, <1>2, <1>4, <1>5, <1>6, <1>7, <1>8, <1>9, <1>10 DEF Next

(***************************************************************************)
(* A temporary copy is in use, or left by a process that ended             *)
(* (core/storage.py, materialize_temp_file).                               *)
(***************************************************************************)
THEOREM TempFilesOwned == Spec => []TempFilesAreOwned
<1>1. Init => TempFilesAreOwned
  BY DEF Init, TempFilesAreOwned
<1>2. QED
  BY <1>1, TypeCorrect, TempsStep, PTL DEF Spec

=============================================================================
