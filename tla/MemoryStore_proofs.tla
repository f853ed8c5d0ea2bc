-------------------------- MODULE MemoryStore_proofs --------------------------
(***************************************************************************)
(* Proofs about MemoryStore, for any operations, ids and limits.           *)
(***************************************************************************)
EXTENDS MemoryStore, FiniteSetTheorems, TLAPS

-----------------------------------------------------------------------------
(* The inductive invariant of the operations                               *)

Writing == {"create", "update", "reflect"}

\* What holds of an operation by itself.
PhaseOK(x) ==
  /\ x.pc = "done" \/ x.ended = 0
  /\ x.pc \in {"get", "put"} => x.kind \in Writing /\ x.key \in Ids
  /\ x.ended > 0 => x.key \in Ids
  /\ x.pc \in {"unused", "model", "get", "put"} => x.loaded = {}
  /\ IsFiniteSet(x.loaded) /\ Cardinality(x.loaded) <= SelectionLimit
  /\ x.pc = "load" => Cardinality(x.loaded) < SelectionLimit

Ticks == \A p \in Ops : ops[p].stamp <= clock /\ ops[p].ended <= clock

\* Two operations never start or end at one moment.
Moments == \A p, r \in Ops : (p # r /\ ops[p].ended > 0) => ops[r].stamp # ops[p].ended

OInv == TypeOK /\ (\A p \in Ops : PhaseOK(ops[p])) /\ Ticks /\ Moments

\* The operations are in order before any has begun.
LEMMA InitOInv == Init => OInv
<1>1. IsFiniteSet({}) /\ Cardinality({}) = 0
  BY FS_EmptySet
<1>2. QED
  BY <1>1, MemoryAssumption
     DEF Init, OInv, TypeOK, Op, NewOp, PhaseOK, Ticks, Moments

\* What the invariant says of the clock, the store and each operation.
LEMMA Facts ==
  ASSUME OInv
  PROVE  /\ clock \in Nat /\ ops \in [Ops -> Op] /\ store \in [Ids -> Item \cup {None}]
         /\ issued \subseteq Ids /\ SelectionLimit \in Nat \ {0}
         /\ \A p \in Ops : /\ ops[p] \in Op /\ PhaseOK(ops[p])
                           /\ ops[p].stamp <= clock /\ ops[p].ended <= clock
BY MemoryAssumption DEF OInv, TypeOK, Ticks

(***************************************************************************)
(* The fields of an operation.                                             *)
(***************************************************************************)
LEMMA Fields_ ==
  ASSUME OInv, NEW p \in Ops
  PROVE  /\ ops[p].stamp \in Nat /\ ops[p].ended \in Nat /\ ops[p].loaded \in SUBSET Ids
         /\ ops[p].listed \in SUBSET Ids /\ ops[p].todo \in SUBSET Ids
         /\ ops[p].fields \in SUBSET Fields /\ ops[p].key \in Ids \cup {None}
         /\ ops[p].read \in Item \cup {None} /\ ops[p].kind \in Kinds \cup {None}
BY Facts DEF Op

-----------------------------------------------------------------------------
(* The steps of an operation                                               *)

\* Operation p goes on as y; the clock ticks when it starts or ends.
Goes(p, y) ==
  /\ ops' = [ops EXCEPT ![p] = y] /\ y \in Op /\ PhaseOK(y) /\ ops[p].pc # "done"
  /\ \/ clock' = clock /\ y.stamp = ops[p].stamp /\ y.ended = 0
     \/ clock' = clock + 1 /\ y.stamp = clock' /\ y.ended = 0
     \/ clock' = clock + 1 /\ y.stamp \in {ops[p].stamp, clock'} /\ y.ended = clock'

\* A write that begins takes the next tick as its start.
LEMMA BeginPutGoes ==
  ASSUME OInv, NEW p \in Ops, NEW kind \in Writing, NEW k \in Ids, NEW fields \in SUBSET Fields,
         ops[p].pc \in {"unused", "model"}, BeginPut(p, kind, k, fields)
  PROVE  \E y : Goes(p, y) /\ y.kind = kind /\ y.key = k /\ y.pc = "get"
<1> DEFINE y == [ops[p] EXCEPT !.pc = "get", !.kind = kind, !.key = k, !.fields = fields,
                               !.stamp = clock + 1, !.listed = {}]
<1>1. ops[p] \in Op /\ PhaseOK(ops[p]) /\ clock + 1 \in Nat
  BY Facts
<1>2. /\ y \in Op /\ y.pc = "get" /\ y.kind = kind /\ y.key = k /\ y.stamp = clock + 1
      /\ y.ended = ops[p].ended /\ y.loaded = ops[p].loaded
  BY <1>1 DEF Op, Writing, Kinds
<1>3. ops' = [ops EXCEPT ![p] = y] /\ clock' = clock + 1
  BY DEF BeginPut
<1> HIDE DEF y
<1>4. PhaseOK(y)
  BY <1>1, <1>2 DEF PhaseOK
<1>5. QED
  BY <1>1, <1>2, <1>3, <1>4 DEF Goes, PhaseOK

\* Reading and writing keep the kind and the id of an operation.
LEMMA GetPutGoes ==
  ASSUME OInv, NEW p \in Ops, Get(p) \/ Put(p)
  PROVE  \E y : Goes(p, y) /\ y.kind = ops[p].kind /\ y.key = ops[p].key
<1>1. ops[p] \in Op /\ PhaseOK(ops[p]) /\ clock + 1 \in Nat
  BY Facts
<1>2. CASE Get(p)
  <2> DEFINE y == [ops[p] EXCEPT !.pc = "put", !.read = store[ops[p].key]]
  <2>0. ops[p].pc = "get" /\ store[ops[p].key] \in Item \cup {None}
    BY <1>1, <1>2, Facts DEF Get, PhaseOK
  <2>1. /\ y \in Op /\ y.pc = "put" /\ y.kind = ops[p].kind /\ y.key = ops[p].key
        /\ y.stamp = ops[p].stamp /\ y.ended = ops[p].ended /\ y.loaded = ops[p].loaded
    BY <1>1, <2>0 DEF Op
  <2>2. ops' = [ops EXCEPT ![p] = y] /\ clock' = clock
    BY <1>2 DEF Get
  <2> HIDE DEF y
  <2>3. QED
    BY <1>1, <2>0, <2>1, <2>2 DEF Goes, PhaseOK
<1>3. CASE Put(p)
  <2> DEFINE y == [ops[p] EXCEPT !.pc = "done", !.read = None, !.ended = clock + 1]
  <2>1. /\ y \in Op /\ y.pc = "done" /\ y.kind = ops[p].kind /\ y.key = ops[p].key
        /\ y.stamp = ops[p].stamp /\ y.ended = clock + 1 /\ y.loaded = ops[p].loaded
    BY <1>1 DEF Op
  <2>2. ops' = [ops EXCEPT ![p] = y] /\ clock' = clock + 1 /\ ops[p].pc = "put"
    BY <1>3 DEF Put
  <2> HIDE DEF y
  <2>3. QED
    BY <1>1, <2>1, <2>2 DEF Goes, PhaseOK
<1>4. QED
  BY <1>2, <1>3

\* A deletion starts and ends with the same tick.
LEMMA DeleteGoes ==
  ASSUME OInv, NEW p \in Ops, NEW k \in Ids, ops[p].pc = "unused", clock' = clock + 1,
         ops' = [ops EXCEPT ![p].pc = "done", ![p].kind = "delete", ![p].key = k,
                            ![p].stamp = clock', ![p].ended = clock']
  PROVE  \E y : Goes(p, y) /\ y.kind = "delete" /\ y.key = k /\ y.ended = clock + 1
<1> DEFINE y == [ops[p] EXCEPT !.pc = "done", !.kind = "delete", !.key = k, !.stamp = clock + 1,
                               !.ended = clock + 1]
<1>1. ops[p] \in Op /\ PhaseOK(ops[p]) /\ clock + 1 \in Nat
  BY Facts
<1>2. /\ y \in Op /\ y.pc = "done" /\ y.kind = "delete" /\ y.key = k /\ y.stamp = clock + 1
      /\ y.ended = clock + 1 /\ y.loaded = ops[p].loaded
  BY <1>1 DEF Op, Kinds
<1>3. ops' = [ops EXCEPT ![p] = y]
  OBVIOUS
<1> HIDE DEF y
<1>4. QED
  BY <1>1, <1>2, <1>3 DEF Goes, PhaseOK

(***************************************************************************)
(* The models are asked and answer; what they choose is loaded.            *)
(***************************************************************************)
LEMMA ModelGoes ==
  ASSUME OInv, NEW p \in Ops, ops[p].pc \in {"unused", "model"},
         NEW pc \in {"model", "done"}, NEW kind \in {"reflect", "retrieve"}, NEW S \in SUBSET Ids,
         clock' = clock,
         \/ ops' = [ops EXCEPT ![p].pc = pc, ![p].kind = kind, ![p].listed = S]
         \/ ops' = [ops EXCEPT ![p].pc = pc, ![p].listed = S]
         \/ ops' = [ops EXCEPT ![p].pc = pc]
  PROVE  \E y : Goes(p, y) /\ y.kind \in {ops[p].kind, kind} /\ y.key = ops[p].key
<1>1. ops[p] \in Op /\ PhaseOK(ops[p])
  BY Facts
<1>2. PICK y \in {[ops[p] EXCEPT !.pc = pc, !.kind = kind, !.listed = S],
                  [ops[p] EXCEPT !.pc = pc, !.listed = S], [ops[p] EXCEPT !.pc = pc]} :
        ops' = [ops EXCEPT ![p] = y]
  OBVIOUS
<1>3. /\ y \in Op /\ y.pc = pc /\ y.kind \in {ops[p].kind, kind} /\ y.key = ops[p].key
      /\ y.stamp = ops[p].stamp /\ y.ended = ops[p].ended /\ y.loaded = ops[p].loaded
  BY <1>1, <1>2, ZenonT(40) DEF Op, Kinds
<1>4. QED
  BY <1>1, <1>2, <1>3 DEF Goes, PhaseOK

\* The answer of the selector moves its retrieval only.
LEMMA SelectionGoes ==
  ASSUME OInv, NEW p \in Ops, SelectionAnswers(p)
  PROVE  \E y : Goes(p, y) /\ y.kind = ops[p].kind /\ y.key = ops[p].key
<1>0. ops[p].pc = "model"
  BY DEF SelectionAnswers
<1>1. ops[p] \in Op /\ PhaseOK(ops[p]) /\ clock + 1 \in Nat /\ ops[p].pc = "model"
  BY <1>0, Facts
<1>2. PICK chosen \in SUBSET (ops[p].listed \cup issued) :
        ops' = [ops EXCEPT ![p].pc = IF chosen = {} THEN "done" ELSE "load",
                           ![p].todo = chosen, ![p].stamp = clock + 1]
  BY DEF SelectionAnswers
<1> DEFINE y == [ops[p] EXCEPT !.pc = IF chosen = {} THEN "done" ELSE "load", !.todo = chosen,
                               !.stamp = clock + 1]
<1>3. chosen \in SUBSET Ids
  BY Facts, Fields_
<1>4. /\ y \in Op /\ y.pc \in {"done", "load"} /\ y.kind = ops[p].kind /\ y.key = ops[p].key
      /\ y.stamp = clock + 1 /\ y.ended = ops[p].ended /\ y.loaded = ops[p].loaded
  BY <1>1, <1>3 DEF Op
<1>5. ops' = [ops EXCEPT ![p] = y] /\ clock' = clock + 1
  BY <1>2, ZenonT(40) DEF SelectionAnswers
<1> HIDE DEF y
<1>6. /\ ops[p].loaded = {} /\ IsFiniteSet({}) /\ Cardinality({}) = 0
      /\ SelectionLimit \in Nat \ {0}
  BY <1>1, FS_EmptySet, MemoryAssumption DEF PhaseOK
<1>7. y.loaded = {} /\ ops[p].ended = 0
  BY <1>1, <1>4, <1>6 DEF PhaseOK
<1>8. IsFiniteSet(y.loaded) /\ Cardinality(y.loaded) = 0
  BY <1>6, <1>7
<1>9. PhaseOK(y)
  BY <1>4, <1>6, <1>7, <1>8 DEF PhaseOK
<1>10. QED
  BY <1>1, <1>4, <1>5, <1>7, <1>9 DEF Goes

\* A retrieval that loads takes only what is in the store.
LEMMA LoadGoes ==
  ASSUME OInv, NEW p \in Ops, Load(p)
  PROVE  \E y : /\ Goes(p, y) /\ y.kind = ops[p].kind /\ y.key = ops[p].key
                /\ y.stamp = ops[p].stamp
                /\ \A k \in y.loaded \ ops[p].loaded : store[k] # None
<1>1. ops[p] \in Op /\ PhaseOK(ops[p]) /\ ops[p].pc = "load"
  BY Facts DEF Load
<1>2. PICK k \in ops[p].todo :
        LoadWith(p, k, IF store[k] = None THEN ops[p].loaded ELSE ops[p].loaded \cup {k})
  BY DEF Load
<1> DEFINE loaded == IF store[k] = None THEN ops[p].loaded ELSE ops[p].loaded \cup {k}
           todo == IF Cardinality(loaded) < SelectionLimit THEN ops[p].todo \ {k} ELSE {}
           y == [ops[p] EXCEPT !.todo = todo, !.loaded = loaded,
                               !.pc = IF todo = {} THEN "done" ELSE "load"]
<1>3. ops' = [ops EXCEPT ![p] = y] /\ clock' = clock
  BY <1>2, ZenonT(40) DEF LoadWith, Load
<1>4. /\ IsFiniteSet(loaded) /\ Cardinality(loaded) \in Nat
      /\ Cardinality(loaded) <= Cardinality(ops[p].loaded) + 1
  <2>1. IsFiniteSet(ops[p].loaded) /\ Cardinality(ops[p].loaded) \in Nat
    BY <1>1, FS_CardinalityType DEF PhaseOK
  <2>2. /\ IsFiniteSet(ops[p].loaded \cup {k})
        /\ \/ Cardinality(ops[p].loaded \cup {k}) = Cardinality(ops[p].loaded) + 1
           \/ Cardinality(ops[p].loaded \cup {k}) = Cardinality(ops[p].loaded)
    BY <2>1, FS_AddElement
  <2>3. loaded \in {ops[p].loaded, ops[p].loaded \cup {k}}
    OBVIOUS
  <2> HIDE DEF loaded
  <2>4. CASE loaded = ops[p].loaded
    BY <2>1, <2>4
  <2>5. CASE loaded = ops[p].loaded \cup {k}
    BY <2>1, <2>2, <2>5
  <2>6. QED
    BY <2>3, <2>4, <2>5
<1>5. /\ Cardinality(loaded) <= SelectionLimit
      /\ todo # {} => Cardinality(loaded) < SelectionLimit
  <2>1. Cardinality(ops[p].loaded) \in Nat /\ Cardinality(ops[p].loaded) < SelectionLimit
    BY <1>1, FS_CardinalityType DEF PhaseOK
  <2> HIDE DEF loaded
  <2>2. Cardinality(loaded) <= SelectionLimit
    BY <1>4, <2>1, MemoryAssumption
  <2>3. QED
    BY <2>2
<1>6. loaded \in SUBSET Ids /\ todo \in SUBSET Ids /\ \A l \in loaded \ ops[p].loaded : store[l] # None
  BY Fields_
<1> HIDE DEF loaded, todo
<1>7. /\ y \in Op /\ y.pc = (IF todo = {} THEN "done" ELSE "load") /\ y.kind = ops[p].kind
      /\ y.key = ops[p].key /\ y.stamp = ops[p].stamp /\ y.ended = ops[p].ended /\ y.loaded = loaded
  BY <1>1, <1>6 DEF Op
<1> HIDE DEF y
<1>8. PhaseOK(y) /\ ops[p].ended = 0
  BY <1>1, <1>4, <1>5, <1>7 DEF PhaseOK
<1>9. QED
  BY <1>1, <1>3, <1>6, <1>7, <1>8 DEF Goes

\* Every step moves one operation, one that has not ended.
LEMMA StepGoes == ASSUME OInv, Next PROVE \E p \in Ops : \E y : Goes(p, y)
<1>1. PICK p \in Ops :
        \/ CreateMemory(p) \/ UpdateMemory(p) \/ DeleteMemory(p)
        \/ Reflect(p) \/ ReflectionAnswers(p)
        \/ Retrieve(p) \/ SelectionAnswers(p) \/ NothingListed(p) \/ Load(p)
        \/ Get(p) \/ Put(p)
  BY DEF Next
<1>2. CASE CreateMemory(p) \/ UpdateMemory(p)
  <2>1. PICK kind \in {"create", "update"}, k \in Ids, fields \in SUBSET Fields :
          BeginPut(p, kind, k, fields)
    BY <1>2 DEF CreateMemory, UpdateMemory
  <2>2. QED
    BY <1>2, <2>1, BeginPutGoes DEF CreateMemory, UpdateMemory, Writing
<1>3. CASE DeleteMemory(p)
  BY <1>3, DeleteGoes DEF DeleteMemory
<1>4. CASE Reflect(p) \/ Retrieve(p)
  <2>1. PICK kind \in {"reflect", "retrieve"}, S \in SUBSET Ids :
          ops' = [ops EXCEPT ![p].pc = "model", ![p].kind = kind, ![p].listed = S]
    BY <1>4 DEF Reflect, Retrieve, Known, Shown
  <2>2. ops[p].pc \in {"unused", "model"} /\ clock' = clock
    BY <1>4 DEF Reflect, Retrieve
  <2>3. QED
    BY <2>1, <2>2, ModelGoes
<1>5. CASE ReflectionAnswers(p)
  <2>1. ASSUME NEW k \in Ids, BeginPut(p, "reflect", k, Fields) PROVE \E y : Goes(p, y)
    BY <1>5, <2>1, BeginPutGoes DEF ReflectionAnswers, Writing
  <2>2. CASE ops' = [ops EXCEPT ![p].pc = "done", ![p].listed = {}] /\ clock' = clock
    <3>1. ops[p].pc \in {"unused", "model"} /\ {} \in SUBSET Ids
      BY <1>5 DEF ReflectionAnswers
    <3>2. QED
      BY <2>2, <3>1, ModelGoes
  <2>3. QED
    BY <1>5, <2>1, <2>2, Fields_ DEF ReflectionAnswers
<1>6. CASE NothingListed(p)
  <2>1. ops[p].pc \in {"unused", "model"} /\ clock' = clock /\ {} \in SUBSET Ids
          /\ ops' = [ops EXCEPT ![p].pc = "done"]
    BY <1>6 DEF NothingListed
  <2>2. QED
    BY <2>1, ModelGoes
<1>7. QED
  BY <1>1, <1>2, <1>3, <1>4, <1>5, <1>6, SelectionGoes, LoadGoes, GetPutGoes

(***************************************************************************)
(* What Put puts is a memory.                                              *)
(***************************************************************************)
LEMMA PayloadType ==
  ASSUME OInv, NEW p \in Ops
  PROVE  /\ Payload(p) \in Item
         /\ \A f \in Fields : Payload(p).text[f] =
              IF f \in ops[p].fields THEN p
              ELSE IF ops[p].read = None THEN None ELSE ops[p].read.text[f]
<1>1. /\ ops[p].read \in Item \cup {None} /\ ops[p].stamp \in Nat /\ clock + 1 \in Nat
  BY Facts, Fields_
<1> DEFINE text == [f \in Fields |-> IF f \in ops[p].fields THEN p
                                     ELSE IF ops[p].read = None THEN None ELSE ops[p].read.text[f]]
<1>2. text \in [Fields -> Ops \cup {None}]
  BY <1>1 DEF Item
<1>3. Payload(p) = [text |-> text,
                    created |-> IF ops[p].read = None THEN ops[p].stamp ELSE ops[p].read.created,
                    updated |-> ops[p].stamp, put |-> clock + 1]
  BY DEF Payload
<1>4. (IF ops[p].read = None THEN ops[p].stamp ELSE ops[p].read.created) \in Nat
  BY <1>1 DEF Item
<1>5. \A f \in Fields : text[f] = IF f \in ops[p].fields THEN p
                                   ELSE IF ops[p].read = None THEN None ELSE ops[p].read.text[f]
  OBVIOUS
<1> HIDE DEF text
<1>6. QED
  BY <1>1, <1>2, <1>3, <1>4, <1>5 DEF Item

(***************************************************************************)
(* The store changes when an operation puts or deletes.                    *)
(***************************************************************************)
LEMMA StoreStep ==
  ASSUME OInv, Next
  PROVE  /\ store' \in [Ids -> Item \cup {None}] /\ issued \subseteq issued' /\ issued' \subseteq Ids
         /\ \/ UNCHANGED store
            \/ \E p \in Ops : Put(p) /\ ops[p].key \in Ids /\ store' = [store EXCEPT ![ops[p].key] = Payload(p)]
            \/ \E p \in Ops, k \in Ids : DeleteMemory(p) /\ store' = [store EXCEPT ![k] = None]
                 /\ ops'[p].key = k
<1>1. CASE \E p \in Ops : Put(p)
  <2>1. PICK p \in Ops : Put(p)
    BY <1>1
  <2>2. ops[p].key \in Ids
    BY <2>1, Facts DEF Put, PhaseOK
  <2>3. Payload(p) \in Item
    BY PayloadType
  <2>4. store' = [store EXCEPT ![ops[p].key] = Payload(p)]
    BY <2>1 DEF Put
  <2>5. store' \in [Ids -> Item \cup {None}] /\ UNCHANGED issued
    BY <2>1, <2>2, <2>3, <2>4, Facts DEF Put
  <2>6. QED
    BY <2>1, <2>2, <2>4, <2>5, Facts
<1>2. CASE \E p \in Ops : DeleteMemory(p)
  <2>1. PICK p \in Ops, k \in Ids : DeleteMemory(p) /\ store' = [store EXCEPT ![k] = None]
           /\ ops' = [ops EXCEPT ![p].pc = "done", ![p].kind = "delete", ![p].key = k,
                                 ![p].stamp = clock', ![p].ended = clock']
           /\ issued' = issued \cup {k}
    BY <1>2 DEF DeleteMemory
  <2>2. ops'[p].key = k
    BY <2>1, Facts DEF Op
  <2>3. QED
    BY <2>1, <2>2, Facts
<1>3. CASE /\ UNCHANGED store
           /\ issued' = issued \/ \E k \in Ids : issued' = issued \cup {k}
  BY <1>3, Facts
<1>4. ASSUME NEW p \in Ops, CreateMemory(p) \/ UpdateMemory(p) \/ ReflectionAnswers(p)
      PROVE  UNCHANGED store /\ (issued' = issued \/ \E k \in Ids : issued' = issued \cup {k})
  BY <1>4, Fields_ DEF CreateMemory, UpdateMemory, ReflectionAnswers, BeginPut
<1>5. QED
  BY <1>1, <1>2, <1>3, <1>4
     DEF Next, Reflect, Retrieve, SelectionAnswers, NothingListed, Load, Get

(***************************************************************************)
(* An operation that is done stays as it is.                               *)
(***************************************************************************)
LEMMA Lasting ==
  ASSUME OInv, Next, NEW p \in Ops, ops[p].pc = "done"
  PROVE  ops'[p] = ops[p]
BY StepGoes, Facts DEF Goes

\* Every step keeps the operations in order.
LEMMA OInvStep == OInv /\ [Next]_vars => OInv'
<1> SUFFICES ASSUME OInv, [Next]_vars PROVE OInv'
  OBVIOUS
<1>1. CASE UNCHANGED vars
  BY <1>1 DEF vars, OInv, TypeOK, Ticks, Moments
<1>2. CASE Next
  <2>1. PICK p \in Ops : \E y : Goes(p, y)
    BY <1>2, StepGoes
  <2>2. PICK y : Goes(p, y)
    BY <2>1
  <2>3. /\ ops' \in [Ops -> Op] /\ ops'[p] = y
        /\ \A r \in Ops \ {p} : ops'[r] = ops[r]
    BY <2>2, Facts DEF Goes
  <2>4. \A r \in Ops : PhaseOK(ops'[r])
    BY <2>2, <2>3, Facts DEF Goes
  <2>5. clock' \in Nat /\ clock <= clock'
    BY <2>2, Facts DEF Goes
  <2>6. TypeOK'
    BY <1>2, <2>3, <2>4, <2>5, StoreStep DEF TypeOK, PhaseOK
  <2>7. Ticks'
    <3>1. \A r \in Ops : ops[r].stamp \in Nat /\ ops[r].ended \in Nat
      BY Fields_
    <3>2. y.stamp <= clock' /\ y.ended <= clock'
      BY <2>2, <2>5, <3>1, Facts DEF Goes
    <3>3. QED
      BY <2>3, <2>5, <3>1, <3>2, Facts DEF Ticks
  <2>8. Moments'
    <3>1. \A r \in Ops : ops[r].stamp \in Nat /\ ops[r].ended \in Nat
      BY Fields_
    <3>2. ASSUME NEW r \in Ops, r # p
          PROVE  /\ ops[r].ended > 0 => y.stamp # ops[r].ended
                 /\ y.ended > 0 => ops[r].stamp # y.ended
      BY <2>2, <3>1, <3>2, Facts DEF Goes, OInv, Moments
    <3>3. QED
      BY <2>3, <3>2 DEF OInv, Moments
  <2>9. QED
    BY <2>4, <2>6, <2>7, <2>8 DEF OInv, PhaseOK
<1>3. QED
  BY <1>1, <1>2

\* The operations are in order in every reachable state.
LEMMA OpsInvariant == Spec => []OInv
BY InitOInv, OInvStep, PTL DEF Spec

-----------------------------------------------------------------------------
(* Starts and ends                                                         *)

(***************************************************************************)
(* What the end of a write and a deletion leave behind.                    *)
(***************************************************************************)
LEMMA PutEnds ==
  ASSUME OInv, NEW p \in Ops, Put(p)
  PROVE  /\ Wrote(p)' /\ ops'[p].pc = "done" /\ ops'[p].ended = clock + 1 /\ ops'[p].key = ops[p].key
         /\ ops'[p].fields = ops[p].fields /\ ops'[p].stamp = ops[p].stamp /\ ops[p].key \in Ids
         /\ ops[p].pc = "put" /\ store' = [store EXCEPT ![ops[p].key] = Payload(p)]
<1>1. ops[p] \in Op /\ PhaseOK(ops[p]) /\ ops[p].pc = "put" /\ clock \in Nat
  BY Facts DEF Put
<1>2. /\ ops'[p].pc = "done" /\ ops'[p].ended = clock + 1 /\ ops'[p].key = ops[p].key
      /\ ops'[p].fields = ops[p].fields /\ ops'[p].stamp = ops[p].stamp /\ ops'[p].kind = ops[p].kind
  BY <1>1, Facts DEF Put, Op
<1>3. ops[p].kind \in Writing /\ ops[p].key \in Ids
  BY <1>1 DEF PhaseOK
<1>4. QED
  BY <1>1, <1>2, <1>3 DEF Wrote, Writing, Put

\* A deletion empties its id and ends with the next tick.
LEMMA DeleteEnds ==
  ASSUME OInv, NEW d \in Ops, DeleteMemory(d)
  PROVE  /\ Deleted(d)' /\ ops'[d].pc = "done" /\ ops'[d].ended = clock + 1 /\ ops'[d].key \in Ids
         /\ store' = [store EXCEPT ![ops'[d].key] = None] /\ ops[d].pc = "unused"
<1>1. PICK k \in Ids : /\ store' = [store EXCEPT ![k] = None] /\ clock' = clock + 1
                       /\ ops' = [ops EXCEPT ![d].pc = "done", ![d].kind = "delete", ![d].key = k,
                                             ![d].stamp = clock', ![d].ended = clock']
  BY DEF DeleteMemory
<1>2. /\ ops'[d].pc = "done" /\ ops'[d].kind = "delete" /\ ops'[d].key = k
      /\ ops'[d].ended = clock + 1 /\ clock \in Nat
  BY <1>1, Facts DEF Op
<1>3. ops[d].pc = "unused"
  BY DEF DeleteMemory
<1>4. Deleted(d)'
  BY <1>2 DEF Deleted
<1>5. QED
  BY <1>1, <1>2, <1>3, <1>4

\* An operation ends by writing or deleting, and stays as it has ended.
LEMMA Ending ==
  ASSUME OInv, Next, NEW q \in Ops, ops'[q].ended > 0
  PROVE  \/ ops'[q] = ops[q] /\ ops[q].ended > 0 /\ ops[q].pc = "done"
         \/ Put(q) \/ DeleteMemory(q)
<1>1. CASE ops[q].ended > 0
  BY <1>1, Lasting, Facts, Fields_ DEF PhaseOK
<1>2. CASE ~(ops[q].ended > 0)
  <2>1. ops[q].ended = 0 /\ ops[q] \in Op /\ ops \in [Ops -> Op]
    BY <1>2, Facts, Fields_
  <2>2. ASSUME NEW p \in Ops, NEW x, ops' = [ops EXCEPT ![p] = x], x.ended = ops[p].ended PROVE FALSE
    BY <2>1, <2>2
  <2>3. ASSUME NEW p \in Ops, NEW kind, NEW k, NEW fields, BeginPut(p, kind, k, fields) PROVE FALSE
    <3>1. ops' = [ops EXCEPT ![p] = [ops[p] EXCEPT !.pc = "get", !.kind = kind, !.key = k,
                                       !.fields = fields, !.stamp = clock', !.listed = {}]]
      BY <2>3 DEF BeginPut
    <3>2. QED
      BY <2>1, <3>1 DEF Op
  <2>4. ASSUME NEW p \in Ops,
               \/ CreateMemory(p) \/ UpdateMemory(p) \/ Reflect(p) \/ ReflectionAnswers(p)
               \/ Retrieve(p) \/ SelectionAnswers(p) \/ NothingListed(p) \/ Load(p) \/ Get(p)
        PROVE  FALSE
    <3>1. CASE CreateMemory(p) \/ UpdateMemory(p)
      BY <2>3, <3>1 DEF CreateMemory, UpdateMemory
    <3>2. CASE Reflect(p)
      BY <2>1, <3>2 DEF Reflect, Op
    <3>3. CASE ReflectionAnswers(p)
      <4>1. CASE ops' = [ops EXCEPT ![p].pc = "done", ![p].listed = {}]
        BY <2>1, <4>1 DEF Op
      <4>2. QED
        BY <2>3, <3>3, <4>1 DEF ReflectionAnswers
    <3>4. CASE Retrieve(p)
      BY <2>1, <3>4 DEF Retrieve, Op
    <3>5. CASE SelectionAnswers(p)
      <4>1. PICK chosen \in SUBSET (ops[p].listed \cup issued) :
              ops' = [ops EXCEPT ![p].pc = IF chosen = {} THEN "done" ELSE "load",
                                 ![p].todo = chosen, ![p].stamp = clock + 1]
        BY <3>5 DEF SelectionAnswers
      <4> DEFINE x == [ops[p] EXCEPT !.pc = IF chosen = {} THEN "done" ELSE "load",
                                     !.todo = chosen, !.stamp = clock + 1]
      <4>2. ops' = [ops EXCEPT ![p] = x]
        BY <4>1
      <4>3. x.ended = ops[p].ended
        BY Facts DEF Op
      <4> HIDE DEF x
      <4>4. QED
        BY <2>2, <4>2, <4>3
    <3>6. CASE NothingListed(p)
      BY <2>1, <3>6 DEF NothingListed, Op
    <3>7. CASE Load(p)
      <4>1. ASSUME NEW k, NEW loaded, LoadWith(p, k, loaded) PROVE FALSE
        <5>1. PICK todo, pc :
                ops' = [ops EXCEPT ![p].todo = todo, ![p].loaded = loaded, ![p].pc = pc]
          BY <4>1 DEF LoadWith
        <5>2. QED
          BY <2>1, <5>1 DEF Op
      <4>2. QED
        BY <3>7, <4>1 DEF Load
    <3>8. CASE Get(p)
      BY <2>1, <3>8 DEF Get, Op
    <3>9. QED
      BY <2>4, <3>1, <3>2, <3>3, <3>4, <3>5, <3>6, <3>7, <3>8
  <2>5. ASSUME NEW p \in Ops, p # q, Put(p) \/ DeleteMemory(p) PROVE FALSE
    <3>1. CASE Put(p)
      BY <2>1, <2>5, <3>1 DEF Put
    <3>2. CASE DeleteMemory(p)
      <4>1. PICK k : ops' = [ops EXCEPT ![p].pc = "done", ![p].kind = "delete", ![p].key = k,
                                        ![p].stamp = clock', ![p].ended = clock']
        BY <3>2 DEF DeleteMemory
      <4>2. QED
        BY <2>1, <2>5, <4>1
    <3>3. QED
      BY <2>5, <3>1, <3>2
  <2>6. QED
    BY <2>4, <2>5 DEF Next
<1>3. QED
  BY <1>1, <1>2

\* Who has written or deleted is done, and did so in one step.
LEMMA WroteStep ==
  ASSUME OInv, Next, NEW q \in Ops
  PROVE  /\ Wrote(q)' => (Wrote(q) /\ ops'[q] = ops[q] /\ ops[q].pc = "done") \/ Put(q)
         /\ Deleted(q)' => (Deleted(q) /\ ops'[q] = ops[q] /\ ops[q].pc = "done") \/ DeleteMemory(q)
         /\ Wrote(q) => Wrote(q)' /\ ops'[q] = ops[q] /\ ops[q].pc = "done"
         /\ Deleted(q) => Deleted(q)' /\ ops'[q] = ops[q] /\ ops[q].pc = "done"
<1>1. ops[q].ended > 0 => ops'[q] = ops[q] /\ ops[q].pc = "done"
  BY Lasting, Facts, Fields_ DEF PhaseOK
<1>2. Put(q) => ~Deleted(q)'
  BY PutEnds DEF Wrote, Deleted
<1>3. DeleteMemory(q) => ~Wrote(q)'
  BY DeleteEnds DEF Wrote, Deleted
<1>4. QED
  BY <1>1, <1>2, <1>3, Ending DEF Wrote, Deleted

-----------------------------------------------------------------------------
(* Retrieval                                                               *)

\* Something wrote the memory that d has deleted again.
WrittenSince(d) ==
  \E q \in Ops : Wrote(q) /\ ops[q].key = ops[d].key /\ ops[q].ended > ops[d].ended

StoreWritten == \A d \in Ops : (Deleted(d) /\ store[ops[d].key] # None) => WrittenSince(d)

RInv == OInv /\ StoreWritten /\ RetrievalIsCurrent

\* A write later than a deletion remains one.
LEMMA WrittenSinceLasts ==
  ASSUME OInv, Next, NEW d \in Ops, Deleted(d), WrittenSince(d)
  PROVE  WrittenSince(d)'
BY WroteStep DEF WrittenSince

\* An id whose deletion has ended is in the store only after a later write.
LEMMA StoreWrittenStep == ASSUME OInv, StoreWritten, Next PROVE StoreWritten'
<1> SUFFICES ASSUME NEW d \in Ops, Deleted(d)', store'[ops'[d].key] # None PROVE WrittenSince(d)'
  BY DEF StoreWritten
<1>1. CASE DeleteMemory(d)
  <2>1. ops'[d].key \in Ids /\ store' = [store EXCEPT ![ops'[d].key] = None]
    BY <1>1, DeleteEnds
  <2>2. QED
    BY <2>1, Facts
<1>2. CASE Deleted(d) /\ ops'[d] = ops[d]
  <2>1. CASE store[ops[d].key] # None
    BY <1>2, <2>1, WrittenSinceLasts DEF StoreWritten
  <2>2. CASE store[ops[d].key] = None
    <3>1. ops[d].key \in Ids /\ ops[d].ended \in Nat /\ ops[d].ended <= clock /\ clock \in Nat
      BY <1>2, Facts, Fields_ DEF Deleted, PhaseOK
    <3>2. PICK p \in Ops : Put(p) /\ ops[p].key = ops[d].key
      BY <1>2, <2>2, <3>1, StoreStep, Facts
    <3>3. QED
      BY <1>2, <3>1, <3>2, PutEnds DEF WrittenSince
  <2>3. QED
    BY <2>1, <2>2
<1>3. QED
  BY <1>1, <1>2, WroteStep

(***************************************************************************)
(* What an operation has loaded was there when it was.                     *)
(***************************************************************************)
LEMMA LoadedStep ==
  ASSUME OInv, Next, NEW p \in Ops, NEW k \in ops'[p].loaded
  PROVE  /\ ops'[p].stamp = ops[p].stamp
         /\ k \in ops[p].loaded \/ store[k] # None
<1>1. CASE ops[p].pc = "done"
  BY <1>1, Lasting
<1>2. CASE ops'[p] = ops[p]
  BY <1>2
<1>3. CASE Load(p)
  BY <1>3, LoadGoes, Facts DEF Goes
<1>4. CASE ops[p].pc # "done" /\ ops'[p] # ops[p] /\ ~Load(p)
  <2>1. ops[p] \in Op /\ ops \in [Ops -> Op]
    BY Facts
  <2>2. ASSUME ops[p].pc \in {"unused", "model", "get", "put"}, ops'[p].loaded = ops[p].loaded PROVE FALSE
    BY <2>2, Facts DEF PhaseOK
  <2>3. ASSUME NEW kind, NEW j, NEW fields, BeginPut(p, kind, j, fields)
        PROVE  ops'[p].loaded = ops[p].loaded
    <3>1. ops' = [ops EXCEPT ![p] = [ops[p] EXCEPT !.pc = "get", !.kind = kind, !.key = j,
                                       !.fields = fields, !.stamp = clock', !.listed = {}]]
      BY <2>3 DEF BeginPut
    <3>2. QED
      BY <2>1, <3>1 DEF Op
  <2>4. CASE CreateMemory(p) \/ UpdateMemory(p)
    BY <2>2, <2>3, <2>4 DEF CreateMemory, UpdateMemory
  <2>5. CASE ReflectionAnswers(p)
    <3>1. CASE ops' = [ops EXCEPT ![p].pc = "done", ![p].listed = {}]
      BY <2>1, <2>2, <2>5, <3>1 DEF ReflectionAnswers, Op
    <3>2. QED
      BY <2>2, <2>3, <2>5, <3>1 DEF ReflectionAnswers
  <2>6. CASE Reflect(p)
    BY <2>1, <2>2, <2>6 DEF Reflect, Op
  <2>7. CASE Retrieve(p)
    BY <2>1, <2>2, <2>7 DEF Retrieve, Op
  <2>8. CASE SelectionAnswers(p)
    <3>1. PICK chosen \in SUBSET (ops[p].listed \cup issued) :
            ops' = [ops EXCEPT ![p].pc = IF chosen = {} THEN "done" ELSE "load",
                               ![p].todo = chosen, ![p].stamp = clock + 1]
      BY <2>8 DEF SelectionAnswers
    <3>2. ops[p].pc = "model"
      BY <2>8 DEF SelectionAnswers
    <3>3. QED
      BY <2>1, <2>2, <3>1, <3>2 DEF Op
  <2>9. CASE NothingListed(p)
    BY <2>1, <2>2, <2>9 DEF NothingListed, Op
  <2>10. CASE Get(p)
    BY <2>1, <2>2, <2>10 DEF Get, Op
  <2>11. CASE Put(p)
    BY <2>1, <2>2, <2>11 DEF Put, Op
  <2>12. CASE DeleteMemory(p)
    BY <2>1, <2>2, <2>12 DEF DeleteMemory, Op
  <2>13. ASSUME NEW q \in Ops, q # p,
               \/ CreateMemory(q) \/ UpdateMemory(q) \/ DeleteMemory(q)
               \/ Reflect(q) \/ ReflectionAnswers(q)
               \/ Retrieve(q) \/ SelectionAnswers(q) \/ NothingListed(q) \/ Load(q)
               \/ Get(q) \/ Put(q)
         PROVE ops'[p] = ops[p]
    BY <2>1, <2>13, ZenonT(40)
       DEF CreateMemory, UpdateMemory, DeleteMemory, Reflect, ReflectionAnswers, Retrieve,
           SelectionAnswers, NothingListed, Load, LoadWith, Get, Put, BeginPut
  <2>14. QED
    BY <1>4, <2>4, <2>5, <2>6, <2>7, <2>8, <2>9, <2>10, <2>11, <2>12, <2>13 DEF Next
<1>5. QED
  BY <1>1, <1>2, <1>3, <1>4

\* Every step keeps retrievals current.
LEMMA RInvStep == RInv /\ [Next]_vars => RInv'
<1> SUFFICES ASSUME RInv, [Next]_vars PROVE RInv'
  OBVIOUS
<1>1. OInv' /\ OInv
  BY OInvStep DEF RInv
<1>2. CASE UNCHANGED vars
  BY <1>1, <1>2 DEF vars, RInv, StoreWritten, RetrievalIsCurrent, WrittenSince, Wrote, Deleted
<1>3. CASE Next
  <2>1. StoreWritten'
    BY <1>3, StoreWrittenStep DEF RInv
  <2>2. ASSUME NEW p \in Ops, NEW d \in Ops, Deleted(d)', ops'[d].key \in ops'[p].loaded,
               ops'[d].ended < ops'[p].stamp
        PROVE  WrittenSince(d)'
    <3>1. ~DeleteMemory(d)
      <4>1. ops'[p].stamp <= clock' /\ clock' \in Nat /\ clock \in Nat /\ ops'[p].stamp \in Nat
        BY <1>1 DEF OInv, Ticks, TypeOK, Op
      <4>2. DeleteMemory(d) => clock' = clock + 1 /\ ops'[d].ended = clock + 1
        BY <1>1, DeleteEnds DEF DeleteMemory
      <4>3. QED
        BY <2>2, <4>1, <4>2
    <3>2. Deleted(d) /\ ops'[d] = ops[d]
      BY <1>1, <1>3, <2>2, <3>1, WroteStep
    <3>3. /\ ops'[p].stamp = ops[p].stamp
          /\ ops[d].key \in ops[p].loaded \/ store[ops[d].key] # None
      BY <1>1, <1>3, <2>2, <3>2, LoadedStep
    <3>4. WrittenSince(d)
      BY <2>2, <3>2, <3>3 DEF RInv, StoreWritten, RetrievalIsCurrent, WrittenSince
    <3>5. QED
      BY <1>1, <1>3, <3>2, <3>4, WrittenSinceLasts
  <2>3. RetrievalIsCurrent'
    BY <2>2 DEF RetrievalIsCurrent, WrittenSince
  <2>4. QED
    BY <1>1, <2>1, <2>3 DEF RInv
<1>4. QED
  BY <1>2, <1>3

-----------------------------------------------------------------------------
(* Deletion                                                                *)

\* A forgotten id stays forgotten but for an update that names it.
LEMMA ForgottenStep ==
  ASSUME OInv, [Next]_vars, NEW k \in Ids, Forgotten(k)
  PROVE  Forgotten(k)' \/ \E p \in Ops : ops'[p].kind = "update" /\ ops'[p].key = k
<1>0. k \in issued /\ store[k] = None /\ \A p \in Ops : ~Names(p, k)
  BY DEF Forgotten
<1>1. CASE UNCHANGED vars
  BY <1>1 DEF vars, Forgotten, Names
<1>2. CASE Next
  <2>1. k \in issued'
    BY <1>0, <1>2, StoreStep
  <2>2. store'[k] = None
    <3>1. ASSUME NEW p \in Ops, Put(p) PROVE ops[p].key # k
      BY <1>0, <3>1 DEF Put, Names
    <3>2. QED
      BY <1>0, <1>2, <3>1, StoreStep, Facts
  <2>3. ASSUME NEW q \in Ops, ops'[q] = ops[q] PROVE ~Names(q, k)'
    BY <1>0, <2>3 DEF Names
  <2>4. PICK p \in Ops :
          \/ CreateMemory(p) \/ UpdateMemory(p) \/ DeleteMemory(p)
          \/ Reflect(p) \/ ReflectionAnswers(p)
          \/ Retrieve(p) \/ SelectionAnswers(p) \/ NothingListed(p) \/ Load(p)
          \/ Get(p) \/ Put(p)
    BY <1>2 DEF Next
  <2>5. ASSUME NEW q \in Ops, q # p PROVE ops'[q] = ops[q]
    BY <2>4, <2>5, Facts
       DEF CreateMemory, UpdateMemory, DeleteMemory, Reflect, ReflectionAnswers, Retrieve,
           SelectionAnswers, NothingListed, Load, LoadWith, Get, Put, BeginPut
  <2>6. ops[p] \in Op /\ ops \in [Ops -> Op] /\ ~Names(p, k)
    BY <1>0, Facts
  <2>7. ASSUME NEW kind, NEW j, NEW fields, BeginPut(p, kind, j, fields)
        PROVE  ops'[p].pc = "get" /\ ops'[p].kind = kind /\ ops'[p].key = j
    <3>1. ops' = [ops EXCEPT ![p] = [ops[p] EXCEPT !.pc = "get", !.kind = kind, !.key = j,
                                       !.fields = fields, !.stamp = clock', !.listed = {}]]
      BY <2>7 DEF BeginPut
    <3>2. QED
      BY <2>6, <3>1 DEF Op
  <2> DEFINE Safe == ~Names(p, k)' \/ (ops'[p].kind = "update" /\ ops'[p].key = k)
  <2>8. ASSUME CreateMemory(p) PROVE Safe
    BY <1>0, <2>7, <2>8 DEF CreateMemory, NewKey, Names
  <2>9. ASSUME UpdateMemory(p) PROVE Safe
    BY <2>7, <2>9 DEF UpdateMemory, Names
  <2>10. ASSUME ReflectionAnswers(p) PROVE Safe
    <3>1. CASE ops' = [ops EXCEPT ![p].pc = "done", ![p].listed = {}]
      BY <2>6, <3>1 DEF Op, Names
    <3>2. QED
      BY <1>0, <2>6, <2>7, <2>10, <3>1 DEF ReflectionAnswers, NewKey, Names
  <2>11. ASSUME Reflect(p) PROVE Safe
    <3>1. PICK S \in SUBSET Known :
            ops' = [ops EXCEPT ![p].pc = "model", ![p].kind = "reflect", ![p].listed = S]
      BY <2>11 DEF Reflect
    <3>2. ops'[p].pc = "model" /\ ops'[p].listed = S /\ k \notin S
      BY <1>0, <2>6, <3>1 DEF Op, Known
    <3>3. QED
      BY <3>2 DEF Names
  <2>12. ASSUME Retrieve(p) PROVE Safe
    <3>1. PICK S : ops' = [ops EXCEPT ![p].pc = "model", ![p].kind = "retrieve", ![p].listed = S]
      BY <2>12 DEF Retrieve
    <3>2. ops'[p].pc = "model" /\ ops'[p].kind = "retrieve"
      BY <2>6, <3>1 DEF Op
    <3>3. QED
      BY <3>2 DEF Names
  <2>13. ASSUME ops'[p].pc \notin {"get", "put", "model"} PROVE Safe
    BY <2>13 DEF Names
  <2>14. ASSUME SelectionAnswers(p) \/ NothingListed(p) \/ Load(p) \/ Put(p) \/ DeleteMemory(p) PROVE Safe
    <3>1. CASE SelectionAnswers(p)
      <4>1. PICK pc \in {"done", "load"}, chosen \in SUBSET (ops[p].listed \cup issued) :
              ops' = [ops EXCEPT ![p].pc = pc, ![p].todo = chosen, ![p].stamp = clock + 1]
        BY <3>1 DEF SelectionAnswers
      <4>2. ops'[p].pc = pc
        BY <2>6, <4>1 DEF Op
      <4>3. QED
        BY <2>13, <4>1, <4>2
    <3>2. CASE NothingListed(p)
      BY <2>6, <2>13, <3>2 DEF NothingListed, Op
    <3>3. CASE Load(p)
      <4>1. PICK todo, loaded, pc :
              /\ pc \in {"done", "load"}
              /\ ops' = [ops EXCEPT ![p].todo = todo, ![p].loaded = loaded, ![p].pc = pc]
        <5>1. PICK j, loaded : LoadWith(p, j, loaded)
          BY <3>3 DEF Load
        <5>2. QED
          BY <5>1 DEF LoadWith
      <4>2. ops'[p].pc = pc
        BY <2>6, <4>1 DEF Op
      <4>3. QED
        BY <2>13, <4>1, <4>2
    <3>4. CASE Put(p) \/ DeleteMemory(p)
      BY <2>13, <3>4, PutEnds, DeleteEnds
    <3>5. QED
      BY <2>14, <3>1, <3>2, <3>3, <3>4
  <2>15. ASSUME Get(p) PROVE Safe
    <3>1. ops'[p].pc = "put" /\ ops'[p].key = ops[p].key /\ ops[p].pc = "get"
      BY <2>6, <2>15 DEF Get, Op
    <3>2. QED
      BY <2>6, <3>1 DEF Names
  <2>16. (\A q \in Ops : ~Names(q, k)') \/ \E q \in Ops : ops'[q].kind = "update" /\ ops'[q].key = k
    <3>1. Safe
      BY <2>4, <2>8, <2>9, <2>10, <2>11, <2>12, <2>14, <2>15, <2>13
    <3>2. QED
      BY <2>3, <2>5, <3>1
  <2>17. QED
    BY <2>1, <2>2, <2>16 DEF Forgotten
<1>3. QED
  BY <1>1, <1>2

-----------------------------------------------------------------------------
(* Edits                                                                   *)

\* A later deletion, or a write that overlapped, may take back what p wrote.
Excused(p) ==
  \/ \E d \in Ops : Deleted(d) /\ ops[d].key = ops[p].key /\ ops[d].ended > ops[p].ended
  \/ \E q \in Ops : Wrote(q) /\ Overlaps(q, p)

\* The item has what p wrote to the field, or what was written later.
Has(item, p, f) ==
  /\ item # None
  /\ \E q \in Ops : item.text[f] = q /\ (q = p \/ ops[q].stamp > ops[p].ended)

\* What is in an item was written by operations that are done.
Settled(item) == item # None => \A f \in Fields, q \in Ops : item.text[f] = q => ops[q].pc = "done"

\* What an operation has read is as recent as its start.
ReadLast(r) ==
  ops[r].pc = "put" =>
    \A p \in Ops, f \in Fields :
      (Wrote(p) /\ f \in ops[p].fields /\ ops[p].key = ops[r].key /\ ops[r].stamp > ops[p].ended) =>
        Excused(p) \/ Has(ops[r].read, p, f)

EInv ==
  /\ OInv /\ EditsLast
  /\ \A k \in Ids : Settled(store[k])
  /\ \A r \in Ops : Settled(ops[r].read) /\ ReadLast(r)

\* EditsLast in terms of what the proof speaks of: excuses and surviving
\* fields.
LEMMA EditsAre ==
  EditsLast <=> \A p \in Ops, f \in Fields : (Wrote(p) /\ f \in ops[p].fields) =>
                  Excused(p) \/ Has(store[ops[p].key], p, f)
BY DEF EditsLast, Excused, Has

\* An excuse for a lost edit remains one.
LEMMA ExcusedLasts ==
  ASSUME OInv, Next, NEW p \in Ops, Wrote(p), Excused(p)
  PROVE  Excused(p)'
<1>1. ops'[p] = ops[p]
  BY WroteStep
<1>2. CASE \E d \in Ops : Deleted(d) /\ ops[d].key = ops[p].key /\ ops[d].ended > ops[p].ended
  BY <1>1, <1>2, WroteStep DEF Excused
<1>3. CASE \E q \in Ops : Wrote(q) /\ Overlaps(q, p)
  BY <1>1, <1>3, WroteStep DEF Excused, Overlaps
<1>4. QED
  BY <1>2, <1>3 DEF Excused

\* A value that holds a field holds it still.
LEMMA HasLasts ==
  ASSUME OInv, Next, NEW p \in Ops, NEW f \in Fields, NEW item, Wrote(p), Settled(item), Has(item, p, f)
  PROVE  Has(item, p, f)'
BY WroteStep, Lasting DEF Has, Settled

\* A value whose writers are done stays one.
LEMMA SettledLasts ==
  ASSUME OInv, Next, NEW item, Settled(item)
  PROVE  Settled(item)'
BY Lasting DEF Settled

(***************************************************************************)
(* An operation that is about to put was so before, or has just read.      *)
(***************************************************************************)
LEMMA ReadStep ==
  ASSUME OInv, Next, NEW r \in Ops
  PROVE  /\ \/ ops'[r].read = ops[r].read
            \/ ops'[r].read = None
            \/ ops[r].key \in Ids /\ ops'[r].read = store[ops[r].key]
         /\ ops'[r].pc = "put" =>
              \/ ops'[r] = ops[r]
              \/ /\ ops'[r].read = store[ops[r].key] /\ ops[r].key \in Ids
                 /\ ops'[r].key = ops[r].key /\ ops'[r].stamp = ops[r].stamp
<1>0. ops[r] \in Op /\ ops \in [Ops -> Op] /\ PhaseOK(ops[r])
  BY Facts
<1>1. CASE ops'[r] = ops[r]
  BY <1>1
<1> DEFINE Kept == ops'[r].read = ops[r].read /\ ops'[r].pc # "put"
<1>2. CASE Get(r)
  <2>1. /\ ops[r].pc = "get" /\ ops'[r].read = store[ops[r].key] /\ ops'[r].key = ops[r].key
        /\ ops'[r].stamp = ops[r].stamp
    BY <1>0, <1>2 DEF Get, Op
  <2>2. ops[r].key \in Ids
    BY <1>0, <2>1 DEF PhaseOK
  <2>3. QED
    BY <2>1, <2>2
<1>3. CASE Put(r)
  <2>1. ops'[r].read = None /\ ops'[r].pc = "done"
    BY <1>0, <1>3 DEF Put, Op
  <2>2. QED
    BY <2>1
<1>4. ASSUME NEW kind, NEW j, NEW fields, BeginPut(r, kind, j, fields) PROVE Kept
  <2>1. ops' = [ops EXCEPT ![r] = [ops[r] EXCEPT !.pc = "get", !.kind = kind, !.key = j,
                                     !.fields = fields, !.stamp = clock', !.listed = {}]]
    BY <1>4 DEF BeginPut
  <2>2. QED
    BY <1>0, <2>1 DEF Op
<1>5. ASSUME CreateMemory(r) \/ UpdateMemory(r) PROVE Kept
  BY <1>4, <1>5 DEF CreateMemory, UpdateMemory
<1>6. ASSUME ReflectionAnswers(r) PROVE Kept
  <2>1. CASE ops' = [ops EXCEPT ![r].pc = "done", ![r].listed = {}]
    BY <1>0, <2>1 DEF Op
  <2>2. QED
    BY <1>4, <1>6, <2>1 DEF ReflectionAnswers
<1>7. ASSUME Reflect(r) PROVE Kept
  BY <1>0, <1>7 DEF Reflect, Op
<1>8. ASSUME Retrieve(r) PROVE Kept
  BY <1>0, <1>8 DEF Retrieve, Op
<1>9. ASSUME SelectionAnswers(r) PROVE Kept
  <2>1. PICK pc \in {"done", "load"}, chosen \in SUBSET (ops[r].listed \cup issued) :
          ops' = [ops EXCEPT ![r].pc = pc, ![r].todo = chosen, ![r].stamp = clock + 1]
    BY <1>9 DEF SelectionAnswers
  <2>2. QED
    BY <1>0, <2>1 DEF Op
<1>10. ASSUME NothingListed(r) PROVE Kept
  BY <1>0, <1>10 DEF NothingListed, Op
<1>11. ASSUME Load(r) PROVE Kept
  <2>1. PICK j, loaded : LoadWith(r, j, loaded)
    BY <1>11 DEF Load
  <2>2. PICK pc \in {"done", "load"} :
          \E todo : ops' = [ops EXCEPT ![r].todo = todo, ![r].loaded = loaded, ![r].pc = pc]
    BY <2>1 DEF LoadWith
  <2>3. QED
    BY <1>0, <2>2 DEF Op
<1>12. ASSUME DeleteMemory(r) PROVE Kept
  <2>1. PICK k \in Ids : ops' = [ops EXCEPT ![r].pc = "done", ![r].kind = "delete", ![r].key = k,
                                             ![r].stamp = clock', ![r].ended = clock']
    BY <1>12 DEF DeleteMemory
  <2>2. QED
    BY <1>0, <2>1 DEF Op
<1>13. ASSUME NEW q \in Ops, q # r,
              \/ CreateMemory(q) \/ UpdateMemory(q) \/ DeleteMemory(q)
              \/ Reflect(q) \/ ReflectionAnswers(q)
              \/ Retrieve(q) \/ SelectionAnswers(q) \/ NothingListed(q) \/ Load(q)
              \/ Get(q) \/ Put(q)
       PROVE  ops'[r] = ops[r]
  BY <1>0, <1>13
     DEF CreateMemory, UpdateMemory, DeleteMemory, Reflect, ReflectionAnswers, Retrieve,
         SelectionAnswers, NothingListed, Load, LoadWith, Get, Put, BeginPut
<1>14. CASE Kept
  BY <1>14
<1> HIDE DEF Kept
<1>15. QED
  BY <1>1, <1>2, <1>3, <1>5, <1>6, <1>7, <1>8, <1>9, <1>10, <1>11, <1>12, <1>13, <1>14 DEF Next

\* The store, and what operations have read, was written by who is done.
LEMMA SettledStep ==
  ASSUME EInv, Next
  PROVE  (\A k \in Ids : Settled(store[k]))' /\ (\A r \in Ops : Settled(ops[r].read))'
<1>0. OInv /\ (\A k \in Ids : Settled(store[k])) /\ \A r \in Ops : Settled(ops[r].read)
  BY DEF EInv
<1>1. ASSUME NEW k \in Ids PROVE Settled(store[k])'
  <2>1. CASE store'[k] = store[k] \/ store'[k] = None
    BY <1>0, <2>1, Lasting DEF Settled
  <2>2. ASSUME NEW p \in Ops, Put(p), store'[k] = Payload(p) PROVE Settled(store[k])'
    <3>1. ops'[p].pc = "done"
      BY <1>0, <2>2, PutEnds
    <3>2. ASSUME NEW f \in Fields, NEW q \in Ops, Payload(p).text[f] = q PROVE ops'[q].pc = "done"
      <4>1. q = p \/ (ops[p].read # None /\ ops[p].read.text[f] = q)
        BY <1>0, <3>2, PayloadType, MemoryAssumption
      <4>2. QED
        BY <1>0, <3>1, <4>1, Lasting DEF Settled
    <3>3. QED
      BY <2>2, <3>2 DEF Settled
  <2>3. QED
    BY <1>0, <2>1, <2>2, StoreStep, Facts
<1>2. ASSUME NEW r \in Ops PROVE Settled(ops[r].read)'
  <2>1. PICK item : item = ops'[r].read
    OBVIOUS
  <2>2. Settled(item)
    BY <1>0, <2>1, ReadStep DEF Settled
  <2>3. Settled(item)'
    BY <1>0, <2>2, SettledLasts
  <2>4. QED
    BY <2>1, <2>3 DEF Settled
<1>3. QED
  BY <1>1, <1>2

\* Every step keeps each written field in the store or excused.
LEMMA EditsStep ==
  ASSUME EInv, Next, NEW p \in Ops, NEW f \in Fields, Wrote(p)', f \in ops'[p].fields
  PROVE  Excused(p)' \/ Has(store[ops[p].key], p, f)'
<1>0. OInv /\ EditsLast /\ (\A k \in Ids : Settled(store[k])) /\ (\A r \in Ops : ReadLast(r))
        /\ \A r \in Ops : Settled(ops[r].read)
  BY DEF EInv
<1>1. CASE Put(p)
  <2>1. /\ ops'[p].key = ops[p].key /\ ops'[p].fields = ops[p].fields /\ ops[p].key \in Ids
        /\ store' = [store EXCEPT ![ops[p].key] = Payload(p)]
    BY <1>0, <1>1, PutEnds
  <2>2. /\ store'[ops'[p].key] = Payload(p) /\ Payload(p) \in Item /\ Payload(p).text[f] = p
    BY <1>0, <2>1, PayloadType, Facts
  <2>3. Payload(p) # None
    BY <2>2, ItemAssumption
  <2>4. QED
    BY <2>2, <2>3 DEF Has
<1>2. CASE Wrote(p) /\ ops'[p] = ops[p]
  <2> DEFINE k == ops[p].key
  <2>0. k \in Ids /\ ops[p].ended \in Nat /\ ops[p].stamp \in Nat /\ ops[p].ended <= clock
          /\ ops[p].stamp <= clock /\ clock \in Nat
    BY <1>0, <1>2, Facts, Fields_ DEF Wrote, PhaseOK
  <2>1. CASE Excused(p)
    BY <1>0, <1>2, <2>1, ExcusedLasts
  <2>2. CASE Has(store[k], p, f) /\ store'[k] = store[k]
    <3>1. PICK item : item = store[k]
      OBVIOUS
    <3>2. Has(item, p, f)'
      BY <1>0, <1>2, <2>0, <2>2, <3>1, HasLasts
    <3>3. QED
      BY <1>2, <2>2, <3>1, <3>2 DEF Has
  <2>3. ASSUME NEW d \in Ops, DeleteMemory(d), ops'[d].key = k PROVE Excused(p)'
    BY <1>0, <1>2, <2>0, <2>3, DeleteEnds DEF Excused
  <2>4. ASSUME NEW r \in Ops, Put(r), ops[r].key = k, store' = [store EXCEPT ![k] = Payload(r)]
        PROVE  Excused(p)' \/ Has(store[ops[p].key], p, f)'
    <3>1. /\ Wrote(r)' /\ ops'[r].ended = clock + 1 /\ ops'[r].key = k /\ ops'[r].stamp = ops[r].stamp
          /\ ops[r].pc = "put" /\ ops'[r].pc = "done" /\ ops[r].stamp \in Nat
      BY <1>0, <2>4, PutEnds, Fields_
    <3>2. r # p
      BY <1>0, <1>2, <3>1, WroteStep
    <3>3. ops[r].stamp # ops[p].ended
      BY <1>0, <1>2, <3>2 DEF OInv, Moments, Wrote
    <3>4. CASE ops[r].stamp < ops[p].ended
      BY <1>2, <2>0, <3>1, <3>2, <3>4 DEF Excused, Overlaps
    <3>5. CASE ops[r].stamp > ops[p].ended
      <4>1. store'[k] = Payload(r) /\ Payload(r) # None
        BY <1>0, <2>0, <2>4, Facts, PayloadType, ItemAssumption
      <4>2. CASE f \in ops[r].fields
        <5>1. Payload(r).text[f] = r
          BY <1>0, <4>2, PayloadType
        <5>2. QED
          BY <1>2, <3>1, <3>5, <4>1, <5>1 DEF Has
      <4>3. CASE f \notin ops[r].fields
        <5>1. Excused(p) \/ Has(ops[r].read, p, f)
          BY <1>0, <1>2, <2>4, <3>1, <3>5 DEF ReadLast
        <5>2. CASE Has(ops[r].read, p, f)
          <6>1. PICK item : item = ops[r].read
            OBVIOUS
          <6>2. Has(item, p, f)'
            BY <1>0, <1>2, <5>2, <6>1, HasLasts
          <6>3. item # None /\ Payload(r).text[f] = item.text[f]
            BY <1>0, <4>3, <5>2, <6>1, PayloadType DEF Has
          <6>4. QED
            BY <1>2, <4>1, <6>2, <6>3 DEF Has
        <5>3. QED
          BY <1>0, <1>2, <5>1, <5>2, ExcusedLasts
      <4>4. QED
        BY <4>2, <4>3
    <3>6. QED
      BY <2>0, <3>1, <3>3, <3>4, <3>5
  <2>5. Excused(p) \/ Has(store[k], p, f)
    BY <1>0, <1>2, EditsAre
  <2>6. CASE store'[k] # store[k]
    <3>1. \/ \E r \in Ops : Put(r) /\ ops[r].key = k /\ store' = [store EXCEPT ![k] = Payload(r)]
          \/ \E d \in Ops : DeleteMemory(d) /\ ops'[d].key = k
      BY <1>0, <2>0, <2>6, StoreStep, Facts
    <3>2. QED
      BY <2>3, <2>4, <3>1
  <2>7. QED
    BY <2>1, <2>2, <2>5, <2>6
<1>3. QED
  BY <1>0, <1>1, <1>2, WroteStep

\* What an operation has read stays as recent as its start.
LEMMA ReadLastStep == ASSUME EInv, Next, NEW r \in Ops PROVE ReadLast(r)'
<1>0. OInv /\ OInv' /\ EditsLast /\ ReadLast(r) /\ (\A k \in Ids : Settled(store[k]))
        /\ Settled(ops[r].read)
  BY OInvStep DEF EInv
<1> SUFFICES ASSUME ops'[r].pc = "put", NEW p \in Ops, NEW f \in Fields, Wrote(p)',
                    f \in ops'[p].fields, ops'[p].key = ops'[r].key, ops'[r].stamp > ops'[p].ended
             PROVE  Excused(p)' \/ Has(ops[r].read, p, f)'
  BY DEF ReadLast
<1>1. ~Put(p)
  <2>1. ops'[r].stamp <= clock' /\ clock' \in Nat /\ clock \in Nat /\ ops'[r].stamp \in Nat
    BY <1>0 DEF OInv, Ticks, TypeOK, Op
  <2>2. Put(p) => clock' = clock + 1 /\ ops'[p].ended = clock + 1
    BY <1>0, PutEnds DEF Put
  <2>3. QED
    BY <2>1, <2>2
<1>2. Wrote(p) /\ ops'[p] = ops[p]
  BY <1>0, <1>1, WroteStep
<1>3. PICK item : item = ops'[r].read
  OBVIOUS
<1>4. Settled(item) /\ (Excused(p) \/ Has(item, p, f))
  <2>1. CASE ops'[r] = ops[r]
    BY <1>0, <1>2, <1>3, <2>1 DEF ReadLast
  <2>2. CASE /\ ops'[r].read = store[ops[r].key] /\ ops[r].key \in Ids
             /\ ops'[r].key = ops[r].key /\ ops'[r].stamp = ops[r].stamp
    BY <1>0, <1>2, <1>3, <2>2, EditsAre
  <2>3. QED
    BY <1>0, <2>1, <2>2, ReadStep
<1>5. Excused(p)' \/ Has(item, p, f)'
  BY <1>0, <1>2, <1>4, ExcusedLasts, HasLasts
<1>6. QED
  BY <1>3, <1>5 DEF Has

\* Every step keeps all of it.
LEMMA EInvStep == EInv /\ [Next]_vars => EInv'
<1> SUFFICES ASSUME EInv, [Next]_vars PROVE EInv'
  OBVIOUS
<1>1. OInv'
  BY OInvStep DEF EInv
<1>2. CASE UNCHANGED vars
  BY <1>1, <1>2 DEF vars, EInv, EditsLast, Settled, ReadLast, Excused, Has, Wrote, Deleted, Overlaps
<1>3. CASE Next
  <2>1. EditsLast'
    <3>1. \A p \in Ops, f \in Fields : (Wrote(p)' /\ f \in ops'[p].fields) =>
            Excused(p)' \/ Has(store[ops[p].key], p, f)'
      BY <1>3, EditsStep
    <3>2. QED
      BY <3>1 DEF EditsLast, Excused, Has
  <2>2. QED
    BY <1>1, <1>3, <2>1, SettledStep, ReadLastStep DEF EInv
<1>4. QED
  BY <1>2, <1>3

-----------------------------------------------------------------------------
(* The results                                                             *)

(***************************************************************************)
(* Every reachable state is well typed, and no retrieval loads more than   *)
(* the limit.                                                              *)
(***************************************************************************)
THEOREM TypeCorrect == Spec => []TypeOK
<1>1. OInv => TypeOK
  BY DEF OInv
<1>2. QED
  BY OpsInvariant, <1>1, PTL

(***************************************************************************)
(* A retrieval uses no memory that was deleted before its model chose      *)
(* (core/memory.py, choose_relevant_experience_memories).                  *)
(***************************************************************************)
THEOREM RetrievalCurrent == Spec => []RetrievalIsCurrent
<1>1. Init => RInv
  BY InitOInv DEF Init, RInv, StoreWritten, RetrievalIsCurrent, Deleted, NewOp
<1>2. RInv => RetrievalIsCurrent
  BY DEF RInv
<1>3. QED
  BY <1>1, <1>2, RInvStep, PTL DEF Spec

(***************************************************************************)
(* A memory that was deleted comes back by an update of its id only        *)
(* (core/memory.py, put_memory_item and delete_memory_item).               *)
(***************************************************************************)
THEOREM ForgottenStays == Spec => ForgottenStaysForgotten
<1> DEFINE Stays == \A k \in Ids : Forgotten(k) =>
                      \/ Forgotten(k)'
                      \/ \E p \in Ops : ops'[p].kind = "update" /\ ops'[p].key = k
<1>1. OInv /\ [Next]_vars => [Stays]_vars
  BY ForgottenStep
<1>2. Spec => [][Stays]_vars
  BY <1>1, OpsInvariant, PTL DEF Spec
<1>3. QED
  BY <1>2 DEF ForgottenStaysForgotten

(***************************************************************************)
(* What was written to a memory lasts but for what overlapped it           *)
(* (core/memory.py, put_memory_item).                                      *)
(***************************************************************************)
THEOREM EditsKept == Spec => []EditsLast
<1>1. Init => EInv
  BY InitOInv DEF Init, EInv, EditsLast, Settled, ReadLast, Wrote, NewOp
<1>2. EInv => EditsLast
  BY DEF EInv
<1>3. QED
  BY <1>1, <1>2, EInvStep, PTL DEF Spec

=============================================================================
