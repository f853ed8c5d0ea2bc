----------------------------- MODULE MemoryStore -----------------------------
(***************************************************************************)
(* The long-term memories of one user and one kind: one namespace of the   *)
(* store, written by the requests of api/memory.py and by the reflections  *)
(* of concurrent turns, read by the retrievals of turns (core/memory.py,   *)
(* the memory nodes of core/graph.py).                                     *)
(*                                                                         *)
(* The store answers one call at a time; an operation is several calls,    *)
(* with a call of a model between them, and others go on in between.       *)
(***************************************************************************)
EXTENDS Naturals, FiniteSets

CONSTANTS
  Ops,             \* operations: requests, reflections and retrievals
  Ids,             \* the ids of memories
  SearchLimit,     \* PROFILE_MEMORY_LIMIT, EXPERIENCE_SUMMARY_LIMIT
  SelectionLimit,  \* EXPERIENCE_SELECTION_LIMIT
  None

ASSUME MemoryAssumption ==
  /\ SearchLimit \in Nat
  /\ SelectionLimit \in Nat \ {0}
  /\ None \notin Ops \cup Ids

VARIABLES
  store,   \* the memories of the namespace
  issued,  \* the ids that have been made up, by uuid4, a client or a model
  clock,   \* the number of starts and ends of operations so far
  ops      \* the operations

vars == <<store, issued, clock, ops>>

\* A title and a content; tags and summaries go the way of these.  A field
\* is known by the operation that wrote it; None is a field that is missing.
Fields == {"title", "content"}
Item == [text : [Fields -> Ops \cup {None}], created : Nat, updated : Nat, put : Nat]

ASSUME ItemAssumption == None \notin Item

Kinds == {"create", "update", "delete", "reflect", "retrieve"}

\* key, fields: what the operation writes; stamp: its updated_at; read: the
\* memory it merges into; listed: the ids its model was shown; todo, loaded:
\* the ids its model chose and those of them it has found; ended: when it
\* changed the store, 0 if it did not.
Op == [pc : {"unused", "model", "get", "put", "load", "done"}, kind : Kinds \cup {None},
       key : Ids \cup {None}, fields : SUBSET Fields, stamp : Nat, read : Item \cup {None},
       listed : SUBSET Ids, todo : SUBSET Ids, loaded : SUBSET Ids, ended : Nat]
NewOp == [pc |-> "unused", kind |-> None, key |-> None, fields |-> {}, stamp |-> 0,
          read |-> None, listed |-> {}, todo |-> {}, loaded |-> {}, ended |-> 0]

TypeOK ==
  /\ store \in [Ids -> Item \cup {None}]
  /\ issued \subseteq Ids
  /\ clock \in Nat
  /\ ops \in [Ops -> Op]
  /\ \A p \in Ops : Cardinality(ops[p].loaded) <= SelectionLimit

Init ==
  /\ store = [k \in Ids |-> None]
  /\ issued = {} /\ clock = 0
  /\ ops = [p \in Ops |-> NewOp]

-----------------------------------------------------------------------------
(* The calls of the store                                                  *)

Known == {k \in Ids : store[k] # None}

\* asearch: the memories put last, as many as the limit allows.
Search(S) ==
  /\ S \subseteq Known
  /\ Cardinality(S) <= SearchLimit
  /\ S # Known => Cardinality(S) = SearchLimit
  /\ \A k \in S, l \in Known \ S : store[k].put > store[l].put

\* Mutant: an id is made from the title, and may have been given before.
KeyOfTitle(k) == store[k] = None

\* uuid4, or an id that a client or a model makes up.
NewKey(k) == k \notin issued

\* put_memory_item up to its first call of the store.
BeginPut(p, kind, k, fields) ==
  /\ clock' = clock + 1
  /\ issued' = issued \cup {k}
  /\ ops' = [ops EXCEPT ![p].pc = "get", ![p].kind = kind, ![p].key = k,
                        ![p].fields = fields, ![p].stamp = clock',
                        ![p].listed = {}]
  /\ UNCHANGED store

Get(p) ==
  /\ ops[p].pc = "get"
  /\ ops' = [ops EXCEPT ![p].pc = "put", ![p].read = store[ops[p].key]]
  /\ UNCHANGED <<store, issued, clock>>

\* Mutant: the payload replaces the memory.
PayloadAlone(p) ==
  [text |-> [f \in Fields |-> IF f \in ops[p].fields THEN p ELSE None],
   created |-> ops[p].stamp, updated |-> ops[p].stamp, put |-> clock + 1]

\* The payload, merged into the memory as it was read.
Payload(p) ==
  LET old == ops[p].read IN
  [text |-> [f \in Fields |-> IF f \in ops[p].fields THEN p
                              ELSE IF old = None THEN None ELSE old.text[f]],
   created |-> IF old = None THEN ops[p].stamp ELSE old.created,
   updated |-> ops[p].stamp,
   put |-> clock + 1]

Put(p) ==
  /\ ops[p].pc = "put"
  /\ store' = [store EXCEPT ![ops[p].key] = Payload(p)]
  /\ clock' = clock + 1
  /\ ops' = [ops EXCEPT ![p].pc = "done", ![p].read = None, ![p].ended = clock']
  /\ UNCHANGED issued

-----------------------------------------------------------------------------
(* The requests of api/memory.py                                           *)

CreateMemory(p) ==
  /\ ops[p].pc = "unused"
  /\ \E k \in Ids : NewKey(k) /\ BeginPut(p, "create", k, Fields)

\* Any part of the memory, of an id that is not looked up first.
UpdateMemory(p) ==
  /\ ops[p].pc = "unused"
  /\ \E k \in Ids, fields \in SUBSET Fields : BeginPut(p, "update", k, fields)

DeleteMemory(p) ==
  /\ ops[p].pc = "unused"
  /\ \E k \in Ids :
       /\ store' = [store EXCEPT ![k] = None]
       /\ issued' = issued \cup {k}
       /\ clock' = clock + 1
       /\ ops' = [ops EXCEPT ![p].pc = "done", ![p].kind = "delete", ![p].key = k,
                             ![p].stamp = clock', ![p].ended = clock']

-----------------------------------------------------------------------------
(* reflect_profile_memory, reflect_experience_memory                       *)

Reflect(p) ==
  /\ ops[p].pc = "unused"
  /\ \E S \in SUBSET Known :
       /\ Search(S)
       /\ ops' = [ops EXCEPT ![p].pc = "model", ![p].kind = "reflect", ![p].listed = S]
  /\ UNCHANGED <<store, issued, clock>>

\* apply_memory_tool_call: a memory is created, or updated under an id that
\* the model was shown or makes up; no call, no content, an error: nothing.
ReflectionAnswers(p) ==
  /\ ops[p].pc = "model" /\ ops[p].kind = "reflect"
  /\ \/ \E k \in Ids : NewKey(k) /\ BeginPut(p, "reflect", k, Fields)
     \/ \E k \in ops[p].listed : BeginPut(p, "reflect", k, Fields)
     \/ /\ ops' = [ops EXCEPT ![p].pc = "done", ![p].listed = {}]
        /\ UNCHANGED <<store, issued, clock>>

-----------------------------------------------------------------------------
(* choose_relevant_experience_memories                                     *)

\* experience_summaries: a memory without a summary is not shown.
Shown(S) == {k \in S : store[k].text["content"] # None}

Retrieve(p) ==
  /\ ops[p].pc = "unused"
  /\ \E S \in SUBSET Known :
       /\ Search(S)
       /\ ops' = [ops EXCEPT ![p].pc = "model", ![p].kind = "retrieve",
                             ![p].listed = Shown(S)]
  /\ UNCHANGED <<store, issued, clock>>

\* The ids of the titles that occur, or those a model chooses: any at all.
SelectionAnswers(p) ==
  /\ ops[p].pc = "model" /\ ops[p].kind = "retrieve"
  /\ ops[p].listed # {}
  /\ \E chosen \in SUBSET (ops[p].listed \cup issued) :
       ops' = [ops EXCEPT ![p].pc = IF chosen = {} THEN "done" ELSE "load",
                          ![p].todo = chosen, ![p].stamp = clock + 1]
  /\ clock' = clock + 1
  /\ UNCHANGED <<store, issued>>

NothingListed(p) ==
  /\ ops[p].pc = "model" /\ ops[p].kind = "retrieve"
  /\ ops[p].listed = {}
  /\ ops' = [ops EXCEPT ![p].pc = "done"]
  /\ UNCHANGED <<store, issued, clock>>

\* What the step of Load leaves to do once it has found `loaded`.
LoadWith(p, k, loaded) ==
  LET todo == IF Cardinality(loaded) < SelectionLimit THEN ops[p].todo \ {k} ELSE {} IN
  ops' = [ops EXCEPT ![p].todo = todo, ![p].loaded = loaded,
                     ![p].pc = IF todo = {} THEN "done" ELSE "load"]

\* Mutant: the memories are taken from the listing.
LoadListed(p) ==
  /\ ops[p].pc = "load"
  /\ \E k \in ops[p].todo :
       LoadWith(p, k, ops[p].loaded \cup ({k} \cap ops[p].listed))
  /\ UNCHANGED <<store, issued, clock>>

\* One id at a time is read again; what is gone is left out.
Load(p) ==
  /\ ops[p].pc = "load"
  /\ \E k \in ops[p].todo :
       LoadWith(p, k, IF store[k] = None THEN ops[p].loaded ELSE ops[p].loaded \cup {k})
  /\ UNCHANGED <<store, issued, clock>>

-----------------------------------------------------------------------------
Next == \E p \in Ops :
  \/ CreateMemory(p) \/ UpdateMemory(p) \/ DeleteMemory(p)
  \/ Reflect(p) \/ ReflectionAnswers(p)
  \/ Retrieve(p) \/ SelectionAnswers(p) \/ NothingListed(p) \/ Load(p)
  \/ Get(p) \/ Put(p)

Spec == Init /\ [][Next]_vars

-----------------------------------------------------------------------------
Wrote(p) == ops[p].ended > 0 /\ ops[p].kind # "delete"
Deleted(p) == ops[p].ended > 0 /\ ops[p].kind = "delete"

\* q has changed the memory of p after p started, and started before p ended.
Overlaps(q, p) ==
  /\ q # p
  /\ ops[q].key = ops[p].key
  /\ ops[q].ended > ops[p].stamp
  /\ ops[q].stamp < ops[p].ended

(***************************************************************************)
(* An edit that was made lasts: what a request or a reflection wrote to a  *)
(* field is there until the field is written or the memory is deleted by   *)
(* something later; only an operation on the same memory that overlapped   *)
(* it can take it back.  (put_memory_item reads, awaits and writes.)       *)
(***************************************************************************)
EditsLast ==
  \A p \in Ops, f \in Fields : (Wrote(p) /\ f \in ops[p].fields) =>
    \/ \E d \in Ops : Deleted(d) /\ ops[d].key = ops[p].key /\ ops[d].ended > ops[p].ended
    \/ \E q \in Ops : Wrote(q) /\ Overlaps(q, p)
    \/ /\ store[ops[p].key] # None
       /\ \E q \in Ops :
            /\ store[ops[p].key].text[f] = q
            /\ q = p \/ ops[q].stamp > ops[p].ended

(***************************************************************************)
(* A memory that was deleted stays deleted: when no operation is at work   *)
(* that has its id, none will come to have it but a client's update of     *)
(* just this id, which makes the memory anew.                              *)
(***************************************************************************)
Names(p, k) ==
  \/ ops[p].pc \in {"get", "put"} /\ ops[p].key = k
  \/ ops[p].pc = "model" /\ ops[p].kind = "reflect" /\ k \in ops[p].listed

Forgotten(k) ==
  /\ k \in issued
  /\ store[k] = None
  /\ \A p \in Ops : ~Names(p, k)

ForgottenStaysForgotten ==
  [][\A k \in Ids : Forgotten(k) =>
       \/ Forgotten(k)'
       \/ \E p \in Ops : ops'[p].kind = "update" /\ ops'[p].key = k]_vars

(***************************************************************************)
(* What goes into the context of a turn is not taken from the listing its  *)
(* model chose from: a memory deleted before the choice is not used,       *)
(* unless something wrote it again.                                        *)
(***************************************************************************)
RetrievalIsCurrent ==
  \A p, d \in Ops :
    (Deleted(d) /\ ops[d].key \in ops[p].loaded /\ ops[d].ended < ops[p].stamp) =>
      \E q \in Ops : Wrote(q) /\ ops[q].key = ops[d].key /\ ops[q].ended > ops[d].ended

=============================================================================
