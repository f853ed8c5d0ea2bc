---------------------- MODULE ArtifactLifecycle_proofs ----------------------
(***************************************************************************)
(* Proofs about ArtifactLifecycle, for every set of types and savers and   *)
(* every number of rows, with and without database errors.  The inductive  *)
(* invariant IInv is proved part by part; each lemma names the steps that  *)
(* disturb its part and leaves the others to one frame step.               *)
(***************************************************************************)
EXTENDS ArtifactLifecycle, NaturalsInduction, WellFoundedInduction, TLAPS

(***************************************************************************)
(* The table of ids: the ids are positive, and 0 is none of them.          *)
(***************************************************************************)
LEMMA IdFacts == Ids \subseteq Nat /\ 0 \notin Ids
BY ArtifactsAssumption DEF Ids

(***************************************************************************)
(* Every step keeps the table well typed.                                  *)
(***************************************************************************)
LEMMA TableStep == TypeOK /\ [Next]_vars => TableType'
<1> SUFFICES ASSUME TypeOK, [Next]_vars PROVE TableType'
  OBVIOUS
<1> USE IdFacts DEF TypeOK, TableType
<1>1. CASE UNCHANGED table
  BY <1>1 DEF table
<1>2. ASSUME NEW t \in Types, Insert(t) PROVE TableType'
  <2>1. nextId \in Ids /\ nextId' \in 1 .. MaxArtifacts + 1
    BY <1>2, ArtifactsAssumption DEF Insert, Ids
  <2>2. kind' \in [Ids -> Types \cup {"none"}] /\ status' \in [Ids -> Statuses] /\ stored' = stored
    BY <1>2 DEF Insert, Statuses
  <2>3. CASE turn = "create"
    <3>1. /\ current' = current \cup {nextId} /\ rev' = [rev EXCEPT ![nextId] = 1]
          /\ UNCHANGED <<parent, root>>
      BY <1>2, <2>3 DEF Insert
    <3>2. rev' \in [Ids -> Nat]
      BY <3>1
    <3>3. QED
      BY <2>1, <2>2, <3>1, <3>2
  <2>4. CASE turn = "revise"
    <3> DEFINE source == catalog[t]
    <3>1. /\ parent' = [parent EXCEPT ![nextId] = source]
          /\ root' = [root EXCEPT ![nextId] = RootOf(source)]
          /\ rev' = [rev EXCEPT ![nextId] = rev[source] + 1]
          /\ UNCHANGED current
      BY <1>2, <2>4 DEF Insert
    <3>2. source \in Ids
      BY <1>2, <2>4 DEF Insert, At, JobType
    <3>3. rev' \in [Ids -> Nat]
      <4>1. rev[source] \in Nat
        BY <3>2
      <4>2. rev[source] + 1 \in Nat
        BY <4>1
      <4>3. QED
        BY <3>1, <4>2
    <3>4. parent' \in [Ids -> Ids \cup {0}] /\ root' \in [Ids -> Ids \cup {0}]
      BY <3>1, <3>2 DEF RootOf
    <3>5. QED
      BY <2>1, <2>2, <3>1, <3>3, <3>4
  <2>5. QED
    BY <1>2, <2>3, <2>4 DEF Insert
<1>3. ASSUME NEW t \in Types, SetRoot(t) PROVE TableType'
  BY <1>3 DEF SetRoot, At, JobType, Holding
<1>4. ASSUME NEW t \in Types, Produce(t) PROVE TableType'
  BY <1>4 DEF Produce, At, JobType, Holding, lineage
<1>5. ASSUME NEW t \in Types, MarkReady(t) PROVE TableType'
  BY <1>5 DEF MarkReady, Promote, Demoted, At, JobType, Holding, lineage, Statuses
<1>6. ASSUME NEW t \in Types, ReadyError(t) PROVE TableType'
  <2>1. job[t].id \in Ids
    BY <1>6 DEF ReadyError, At, JobType, Holding
  <2>2. UNCHANGED <<kind, parent, root, rev, stored, nextId>>
    BY <1>6 DEF ReadyError, lineage
  <2>3. CASE UNCHANGED <<status, current>>
    BY <2>2, <2>3
  <2>4. CASE Promote(job[t].id)
    BY <2>1, <2>2, <2>4 DEF Promote, Demoted, Statuses
  <2>5. QED
    BY <1>6, <2>3, <2>4 DEF ReadyError
<1>7. ASSUME NEW t \in Types, MarkFailed(t) PROVE TableType'
  BY <1>7 DEF MarkFailed, At, JobType, Holding, lineage, Statuses
<1>8. ASSUME NEW s \in Savers, SaveCommit(s) PROVE TableType'
  BY <1>8 DEF SaveCommit, SaveType, lineage, Statuses
<1>9. QED
  BY <1>1, <1>2, <1>3, <1>4, <1>5, <1>6, <1>7, <1>8
  DEF Next, JobStep, vars, LoadCatalog, Start, FanIn, Cancel, Restart, StopJobs,
      AgentFails, InsertError, FailError, SaveLoad

(***************************************************************************)
(* Every step keeps the turn, its catalog and its results well typed.      *)
(***************************************************************************)
LEMMA TurnStep == TypeOK /\ [Next]_vars => TurnType'
<1> SUFFICES ASSUME TypeOK, [Next]_vars PROVE TurnType'
  OBVIOUS
<1> USE DEF TypeOK, TurnType
<1>1. CASE UNCHANGED <<turn, catalog, result>>
  BY <1>1
<1>2. CASE LoadCatalog
  BY <1>2 DEF LoadCatalog
<1>3. ASSUME NEW mode \in {"create", "revise"}, NEW selected \in SUBSET Types,
             Start(mode, selected)
      PROVE  TurnType'
  BY <1>3 DEF Start, Results
<1>4. CASE FanIn
  BY <1>4 DEF FanIn
<1>5. CASE StopJobs
  BY <1>5 DEF StopJobs, Results
<1>6. ASSUME NEW t \in Types, NEW r \in Results, Finish(t, r), Running PROVE TurnType'
  BY <1>6 DEF Finish, Running
<1>7. QED
  BY <1>1, <1>2, <1>3, <1>4, <1>5, <1>6
  DEF Next, JobStep, vars, Cancel, Restart, FailError, Insert, SetRoot, Produce, Results,
      AgentFails, InsertError, MarkReady, MarkFailed, ReadyError, SaveLoad, SaveCommit, Running

(***************************************************************************)
(* Replacing one job by a well-typed one keeps them all so.                *)
(***************************************************************************)
LEMMA ReplaceJob ==
  ASSUME JobType, NEW t \in Types, NEW p \in JobPcs \ {"insert"}, NEW i \in Ids \cup {0},
         p \in Holding => i \in Ids, UNCHANGED <<turn, catalog>>,
         job' = [job EXCEPT ![t] = [pc |-> p, id |-> i]]
  PROVE  JobType'
BY DEF JobType

(***************************************************************************)
(* Moving a job on keeps its row in hand.                                  *)
(***************************************************************************)
LEMMA GotoJob ==
  ASSUME JobType, NEW t \in Types, NEW p \in JobPcs \ {"insert"}, Goto(t, p),
         p = "done" \/ job[t].pc \in Holding, UNCHANGED <<turn, catalog>>
  PROVE  JobType'
<1>1. job' = [job EXCEPT ![t] = [pc |-> p, id |-> job[t].id]]
  <2>1. job[t] \in [pc : JobPcs, id : Ids \cup {0}]
    BY DEF JobType
  <2>2. [job[t] EXCEPT !.pc = p] = [pc |-> p, id |-> job[t].id]
    BY <2>1
  <2>3. job' = [job EXCEPT ![t] = [job[t] EXCEPT !.pc = p]]
    BY DEF Goto
  <2>4. QED
    BY <2>2, <2>3
<1>2. job[t].id \in Ids \cup {0} /\ (p \in Holding => job[t].id \in Ids)
  BY DEF JobType, Holding
<1>3. QED
  BY <1>1, <1>2, ReplaceJob

(***************************************************************************)
(* Every step keeps the jobs well typed.                                   *)
(***************************************************************************)
LEMMA JobTypeStep == TypeOK /\ [Next]_vars => JobType'
<1> SUFFICES ASSUME TypeOK, [Next]_vars PROVE JobType'
  OBVIOUS
<1> USE DEF TypeOK
<1>1. CASE UNCHANGED <<job, turn, catalog>> \/ LoadCatalog
  BY <1>1 DEF JobType, LoadCatalog
<1>2. ASSUME NEW mode \in {"create", "revise"}, NEW selected \in SUBSET Types,
             Start(mode, selected)
      PROVE  JobType'
  BY <1>2 DEF Start, NoJob, JobType, JobPcs, Holding, TurnType
<1>3. CASE job' = [t \in Types |-> NoJob]
  BY <1>3 DEF NoJob, JobType, JobPcs, Holding
<1>4. ASSUME NEW t \in Types, Insert(t) PROVE JobType'
  <2>1. nextId \in Ids
    BY <1>4 DEF Insert
  <2>2. PICK p \in {"root", "work"} : job' = [job EXCEPT ![t] = [pc |-> p, id |-> nextId]]
    BY <1>4 DEF Insert
  <2>3. QED
    BY <1>4, <2>1, <2>2, ReplaceJob DEF JobPcs, Insert, Running
<1>5. ASSUME NEW t \in Types, NEW p \in JobPcs \ {"insert"}, Goto(t, p),
             p = "done" \/ job[t].pc \in Holding, Running
      PROVE  JobType'
  BY <1>5, GotoJob DEF Running
<1>6. ASSUME NEW t \in Types, JobStep(t) \/ InsertError(t) \/ ReadyError(t) PROVE JobType'
  BY <1>4, <1>5, <1>6
  DEF JobStep, SetRoot, Produce, AgentFails, MarkReady, MarkFailed, InsertError, ReadyError,
      Finish, At, Holding, JobPcs
<1>7. QED
  BY <1>1, <1>2, <1>3, <1>6
  DEF Next, vars, LoadCatalog, FanIn, Cancel, Restart, StopJobs, FailError, SaveLoad, SaveCommit

(***************************************************************************)
(* Every step keeps the savers well typed, each with a stored document.    *)
(***************************************************************************)
LEMMA SaveTypeStep == TypeOK /\ [Next]_vars => SaveType'
<1> SUFFICES ASSUME TypeOK, [Next]_vars PROVE SaveType'
  OBVIOUS
<1> USE IdFacts DEF TypeOK, SaveType, TableType
<1>1. CASE UNCHANGED save /\ stored \subseteq stored'
  BY <1>1
<1>2. ASSUME NEW s \in Savers, NEW a \in Ids, SaveLoad(s, a) PROVE SaveType'
  BY <1>2 DEF SaveLoad, table
<1>3. ASSUME NEW s \in Savers, SaveCommit(s) PROVE SaveType'
  <2>1. save[s] \in [pc : {"new", "commit", "ended"}, id : Ids \cup {0}, seen : Statuses]
    OBVIOUS
  <2>2. [save[s] EXCEPT !.pc = "ended"]
          \in [pc : {"new", "commit", "ended"}, id : Ids \cup {0}, seen : Statuses]
    BY <2>1
  <2>3. /\ save' = [save EXCEPT ![s] = [save[s] EXCEPT !.pc = "ended"]]
        /\ [save[s] EXCEPT !.pc = "ended"].pc = "ended"
        /\ stored' = stored
    BY <1>3, <2>1 DEF SaveCommit
  <2>4. QED
    BY <2>2, <2>3
<1>4. CASE Restart
  BY <1>4 DEF Restart, StopJobs, table
<1>5. QED
  BY <1>1, <1>2, <1>3, <1>4
  DEF Next, JobStep, vars, table, LoadCatalog, Start, FanIn, Cancel, StopJobs, FailError,
      Insert, SetRoot, Produce, AgentFails, InsertError, MarkReady, MarkFailed, ReadyError,
      Running, lineage

(***************************************************************************)
(* Every step keeps the history variables well typed.                      *)
(***************************************************************************)
LEMMA HistoryStep == TypeOK /\ [Next]_vars => HistoryType'
<1> SUFFICES ASSUME TypeOK, [Next]_vars PROVE HistoryType'
  OBVIOUS
<1>1. \A t \in Types : Held(t) \subseteq Ids
  BY DEF Held
<1>2. lost' \in SUBSET Ids
  BY <1>1
  DEF TypeOK, HistoryType, Next, JobStep, vars, LoadCatalog, Start, FanIn, Cancel, Restart,
      StopJobs, FailError, Insert, SetRoot, Produce, AgentFails, InsertError, MarkReady,
      MarkFailed, ReadyError, SaveLoad, SaveCommit
<1>3. ASSUME NEW t \in Types, Produce(t) PROVE orphans' \in SUBSET Ids
  BY <1>3 DEF TypeOK, HistoryType, Produce, JobType, At, Holding
<1>4. orphans' \in SUBSET Ids
  BY <1>3
  DEF TypeOK, HistoryType, Next, JobStep, vars, LoadCatalog, Start, FanIn, Cancel, Restart,
      StopJobs, FailError, Insert, SetRoot, AgentFails, InsertError, MarkReady, MarkFailed,
      ReadyError, SaveLoad, SaveCommit
<1>5. QED
  BY <1>2, <1>4 DEF HistoryType

(***************************************************************************)
(* The initial states are well typed.                                      *)
(***************************************************************************)
LEMMA TypeInit == Init => TypeOK
BY IdFacts, ArtifactsAssumption
DEF Init, TypeOK, TableType, TurnType, JobType, SaveType, HistoryType, NoJob, Statuses,
    JobPcs, Results, Holding

(***************************************************************************)
(* Type correctness: whoever works on a row has a row in hand, whatever    *)
(* jobs fail, are cancelled or are stopped.                                *)
(***************************************************************************)
THEOREM TypeCorrect == Spec => []TypeOK
<1>1. TypeOK /\ [Next]_vars => TypeOK'
  BY TableStep, TurnStep, JobTypeStep, SaveTypeStep, HistoryStep DEF TypeOK
<1>2. QED
  BY TypeInit, <1>1, PTL DEF Spec

-----------------------------------------------------------------------------
(* The parts of the inductive invariant                                    *)

(***************************************************************************)
(* A job at a point that needs a row holds exactly its own row.            *)
(***************************************************************************)
LEMMA HeldByJob ==
  ASSUME JobType, NEW t \in Types, job[t].pc \in Holding
  PROVE  job[t].id \in Ids /\ Held(t) = {job[t].id}
BY DEF JobType, Held

(***************************************************************************)
(* Moving a job on changes nobody else's row, and its own only by letting  *)
(* go of it when the job is done.                                          *)
(***************************************************************************)
LEMMA HeldAfterGoto ==
  ASSUME JobType, NEW t \in Types, NEW p \in JobPcs, job[t].pc \in Holding, Goto(t, p)
  PROVE  /\ \A u \in Types \ {t} : job'[u] = job[u] /\ Held(u)' = Held(u)
         /\ job'[t].pc = p /\ job'[t].id = job[t].id
         /\ Held(t)' = IF p \in Holding THEN Held(t) ELSE {}
<1>1. job[t] \in [pc : JobPcs, id : Ids \cup {0}]
  BY DEF JobType
<1>2. /\ \A u \in Types \ {t} : job'[u] = job[u]
      /\ job'[t] = [job[t] EXCEPT !.pc = p]
  BY DEF Goto, JobType
<1>3. job'[t].pc = p /\ job'[t].id = job[t].id
  BY <1>1, <1>2
<1>4. \A u \in Types \ {t} : Held(u)' = Held(u)
  BY <1>2 DEF Held
<1>5. Held(t)' = IF p \in Holding THEN Held(t) ELSE {}
  BY <1>3 DEF Held
<1>6. QED
  BY <1>2, <1>3, <1>4, <1>5

(***************************************************************************)
(* Two jobs never hold one row: their rows have different types.           *)
(***************************************************************************)
LEMMA HeldApart ==
  ASSUME JobsOwn, NEW t \in Types, NEW u \in Types, t # u, NEW a \in Held(t)
  PROVE  a \notin Held(u)
BY DEF JobsOwn

(***************************************************************************)
(* A step on a row already inserted leaves the table filled in id order.   *)
(***************************************************************************)
LEMMA TouchFilled ==
  ASSUME TableType, Filled, NEW a \in Ids, a < nextId, UNCHANGED <<parent, nextId>>,
         \A b \in Ids \ {a} : status'[b] = status[b] /\ root'[b] = root[b],
         status'[a] # "none",
         current' \cup stored' \subseteq current \cup stored \cup {a}
  PROVE  Filled'
BY IdFacts DEF Filled, TableType

(***************************************************************************)
(* Rows are inserted in the order of their ids, and nothing touches a row  *)
(* before it is inserted.                                                  *)
(***************************************************************************)
LEMMA FilledStep == TypeOK /\ Filled /\ JobsOwn /\ [Next]_vars => Filled'
<1> SUFFICES ASSUME TypeOK, Filled, JobsOwn, [Next]_vars PROVE Filled'
  OBVIOUS
<1> USE IdFacts
<1>a. TableType /\ JobType /\ SaveType
  BY DEF TypeOK
<1>b. \A a \in Ids : a < nextId => status[a] # "none"
  BY <1>a DEF Filled, TableType
<1>c. \A t \in Types : job[t].pc \in Holding => job[t].id \in Ids /\ job[t].id < nextId
  BY <1>a, HeldByJob DEF JobsOwn
<1>1. CASE UNCHANGED table
  BY <1>1 DEF table, Filled
<1>2. ASSUME NEW t \in Types, Insert(t) PROVE Filled'
  <2>1. /\ nextId \in Ids /\ nextId' = nextId + 1 /\ stored' = stored
        /\ status' = [status EXCEPT ![nextId] = "running"]
        /\ current' \subseteq current \cup {nextId}
        /\ \A b \in Ids \ {nextId} : root'[b] = root[b] /\ parent'[b] = parent[b]
    BY <1>2, <1>a DEF Insert, TableType
  <2>2. \A a \in Ids : a >= nextId' => a >= nextId /\ a # nextId
    BY <2>1
  <2>3. \A a \in Ids : a >= nextId /\ a # nextId => a >= nextId'
    BY <2>1
  <2>4. QED
    BY <2>1, <2>2, <2>3, <1>a DEF Filled, TableType
<1>3. ASSUME NEW t \in Types, SetRoot(t) PROVE Filled'
  BY <1>3, <1>a, <1>b, <1>c, TouchFilled DEF SetRoot, At, Holding, TableType
<1>4. ASSUME NEW t \in Types, Produce(t) PROVE Filled'
  BY <1>4, <1>a, <1>b, <1>c, TouchFilled DEF Produce, At, Holding, lineage
<1>5. ASSUME NEW t \in Types, At(t, "commit"), Promote(job[t].id),
             UNCHANGED <<lineage, stored, nextId>>
      PROVE  Filled'
  BY <1>5, <1>a, <1>b, <1>c, TouchFilled DEF Promote, Demoted, At, Holding, lineage, TableType
<1>6. ASSUME NEW t \in Types, MarkFailed(t) PROVE Filled'
  BY <1>6, <1>a, <1>b, <1>c, TouchFilled DEF MarkFailed, At, Holding, lineage, TableType
<1>7. ASSUME NEW s \in Savers, SaveCommit(s) PROVE Filled'
  <2>1. save[s].id \in stored /\ save[s].id \in Ids /\ save[s].id < nextId
    BY <1>7, <1>a DEF SaveCommit, SaveType, Filled, TableType
  <2>2. QED
    BY <1>7, <2>1, <1>a, <1>b, TouchFilled DEF SaveCommit, lineage, TableType
<1>8. ASSUME NEW t \in Types, ReadyError(t), UNCHANGED <<status, current>> PROVE UNCHANGED table
  BY <1>8 DEF ReadyError, lineage, table
<1>9. QED
  BY <1>1, <1>2, <1>3, <1>4, <1>5, <1>6, <1>7, <1>8
  DEF Next, JobStep, vars, LoadCatalog, Start, FanIn, Cancel, Restart, StopJobs,
      AgentFails, InsertError, FailError, SaveLoad, MarkReady, ReadyError

(***************************************************************************)
(* Between turns, and before the fan-out, no job is under way.             *)
(***************************************************************************)
LEMMA JobsInTurnStep == TypeOK /\ JobsInTurn /\ [Next]_vars => JobsInTurn'
<1> SUFFICES ASSUME TypeOK, JobsInTurn, [Next]_vars PROVE JobsInTurn'
  OBVIOUS
<1>1. CASE UNCHANGED <<turn, job>>
  BY <1>1 DEF JobsInTurn
<1>2. CASE LoadCatalog
  BY <1>2 DEF LoadCatalog, JobsInTurn
<1>3. ASSUME NEW mode \in {"create", "revise"}, turn' = mode PROVE JobsInTurn'
  BY <1>3 DEF JobsInTurn
<1>4. CASE job' = [t \in Types |-> NoJob]
  BY <1>4 DEF JobsInTurn, NoJob
<1>5. ASSUME NEW t \in Types, job[t].pc # "idle", turn' = turn PROVE JobsInTurn'
  BY <1>5 DEF JobsInTurn
<1>6. QED
  BY <1>1, <1>2, <1>3, <1>4, <1>5
  DEF Next, JobStep, vars, Start, FanIn, Cancel, Restart, StopJobs, Insert, SetRoot, Produce,
      AgentFails, InsertError, FailError, MarkReady, MarkFailed, ReadyError, SaveLoad,
      SaveCommit, Running, At

(***************************************************************************)
(* Jobs have outcomes when they are done, and a fan-out keeps its jobs     *)
(* until it ends.                                                          *)
(***************************************************************************)
LEMMA OutcomesStep == TypeOK /\ Outcomes /\ [Next]_vars => Outcomes'
<1> SUFFICES ASSUME TypeOK, Outcomes, [Next]_vars PROVE Outcomes'
  OBVIOUS
<1>a. JobType /\ TurnType
  BY DEF TypeOK
<1>1. CASE UNCHANGED <<turn, job, result>>
  BY <1>1 DEF Outcomes
<1>2. CASE LoadCatalog
  BY <1>2 DEF LoadCatalog, Outcomes
<1>3. ASSUME NEW mode \in {"create", "revise"}, NEW selected \in (SUBSET Types) \ {{}},
             Start(mode, selected)
      PROVE  Outcomes'
  <2>1. \A t \in Types : job'[t].pc = IF t \in selected THEN "insert" ELSE "idle"
    BY <1>3 DEF Start, NoJob
  <2>2. QED
    BY <2>1 DEF Outcomes
<1>4. CASE turn' = "idle" /\ job' = [t \in Types |-> NoJob]
  BY <1>4 DEF Outcomes, NoJob
<1>5. ASSUME NEW t \in Types, NEW p \in JobPcs \ {"idle"}, UNCHANGED turn,
             \A u \in Types \ {t} : job'[u] = job[u] /\ result'[u] = result[u],
             job'[t].pc = p, p = "done" => result'[t] # "pending"
      PROVE  Outcomes'
  BY <1>5 DEF Outcomes, JobPcs
<1>6. ASSUME NEW t \in Types, Insert(t) PROVE Outcomes'
  <2>1. PICK p \in {"root", "work"} : job' = [job EXCEPT ![t] = [pc |-> p, id |-> nextId]]
    BY <1>6 DEF Insert
  <2>2. job'[t].pc = p /\ \A u \in Types \ {t} : job'[u] = job[u]
    BY <2>1, <1>a DEF JobType
  <2>3. QED
    BY <1>5, <1>6, <2>2 DEF Insert, Running, JobPcs
<1>7. ASSUME NEW t \in Types, NEW p \in JobPcs, Goto(t, p)
      PROVE  job'[t].pc = p /\ \A u \in Types \ {t} : job'[u] = job[u]
  <2>1. job[t] \in [pc : JobPcs, id : Ids \cup {0}]
    BY <1>a DEF JobType
  <2>2. QED
    BY <1>7, <2>1, <1>a DEF Goto, JobType
<1>8. ASSUME NEW t \in Types, SetRoot(t) \/ Produce(t) \/ AgentFails(t) \/ ReadyError(t)
      PROVE  Outcomes'
  <2>1. PICK p \in {"work", "commit", "fail"} : Goto(t, p)
    BY <1>8 DEF SetRoot, Produce, AgentFails, ReadyError
  <2>2. UNCHANGED <<turn, result>>
    BY <1>8 DEF SetRoot, Produce, AgentFails, ReadyError, Running
  <2>3. job'[t].pc = p /\ \A u \in Types \ {t} : job'[u] = job[u]
    BY <1>7, <2>1 DEF JobPcs
  <2>4. QED
    BY <1>5, <2>2, <2>3 DEF JobPcs
<1>9. ASSUME NEW t \in Types, MarkReady(t) \/ MarkFailed(t) \/ InsertError(t) PROVE Outcomes'
  <2>1. PICK r \in {"ready", "failed"} : Finish(t, r)
    BY <1>9 DEF MarkReady, MarkFailed, InsertError
  <2>2. turn' = turn
    BY <1>9 DEF MarkReady, MarkFailed, InsertError, Running
  <2>3. job'[t].pc = "done" /\ \A u \in Types \ {t} : job'[u] = job[u]
    BY <1>7, <2>1 DEF JobPcs, Finish
  <2>4. result'[t] = r /\ \A u \in Types \ {t} : result'[u] = result[u]
    BY <2>1, <1>a DEF Finish, TurnType
  <2>5. QED
    BY <1>5, <2>2, <2>3, <2>4 DEF JobPcs
<1>10. QED
  BY <1>1, <1>2, <1>3, <1>4, <1>6, <1>8, <1>9
  DEF Next, JobStep, vars, FanIn, Cancel, Restart, StopJobs, FailError, SaveLoad, SaveCommit

(***************************************************************************)
(* The source a job revises: a ready row with a root of its own.           *)
(***************************************************************************)
LEMMA SourceFacts ==
  ASSUME TypeOK, Filled, Rooted, CatalogReady, NEW t \in Types, Insert(t), turn = "revise"
  PROVE  LET source == catalog[t]
         IN /\ source \in Ids /\ status[source] = "ready" /\ kind[source] = t
            /\ source # nextId /\ root[source] # 0 /\ RootOf(source) = root[source]
            /\ root[source] \in Ids /\ root[source] # nextId
<1> DEFINE source == catalog[t]
<1>1. source \in Ids
  BY DEF TypeOK, JobType, Insert, At
<1>2. status[source] = "ready" /\ kind[source] = t
  BY <1>1, IdFacts DEF CatalogReady
<1>3. root[source] # 0 /\ root[root[source]] = root[source]
  BY <1>1, <1>2 DEF Rooted
<1>4. root[source] \in Ids
  BY <1>1, <1>3 DEF TypeOK, TableType
<1>5. nextId \in Ids /\ root[nextId] = 0 /\ status[nextId] = "none"
  BY IdFacts DEF Insert, Filled
<1>6. QED
  BY <1>1, <1>2, <1>3, <1>4, <1>5 DEF RootOf

(***************************************************************************)
(* What a job's row looks like before its step.                            *)
(***************************************************************************)
LEMMA OwnFacts ==
  ASSUME TypeOK, JobsOwn, NEW t \in Types, job[t].pc \in Holding
  PROVE  LET a == job[t].id
         IN /\ a \in Ids /\ Held(t) = {a} /\ a < nextId /\ kind[a] = t
            /\ \A b \in Ids : parent[b] # a
            /\ \A u \in Types : catalog[u] # a
            /\ a \in stored => a \in orphans
            /\ job[t].pc = "root" => root[a] = 0 /\ rev[a] = 1
            /\ job[t].pc \in {"work", "commit"} => root[a] # 0
            /\ job[t].pc = "commit" => a \in stored
<1>1. job[t].id \in Ids /\ Held(t) = {job[t].id}
  BY HeldByJob DEF TypeOK
<1>2. QED
  BY <1>1 DEF JobsOwn

(***************************************************************************)
(* Roots stay first versions, and only rows with a stored document are     *)
(* ever ready, whoever makes them so.                                      *)
(***************************************************************************)
LEMMA RootedStep ==
  TypeOK /\ Filled /\ Rooted /\ CatalogReady /\ JobsOwn /\ [Next]_vars => Rooted'
<1> SUFFICES ASSUME TypeOK, Filled, Rooted, CatalogReady, JobsOwn, [Next]_vars PROVE Rooted'
  OBVIOUS
<1>a. TableType /\ JobType /\ SaveType
  BY DEF TypeOK
<1>1. CASE UNCHANGED <<status, root, rev, stored, orphans>>
  BY <1>1 DEF Rooted
<1>2. ASSUME NEW t \in Types, Insert(t) PROVE Rooted'
  <2>1. /\ nextId \in Ids /\ root[nextId] = 0 /\ nextId \notin stored
        /\ UNCHANGED <<stored, orphans>>
        /\ status' = [status EXCEPT ![nextId] = "running"]
    BY <1>2, IdFacts DEF Insert, Filled
  <2>2. /\ \A a \in Ids : status'[a] = "ready" => a \in stored'
        /\ \A a \in stored' \ orphans' : status'[a] = "ready"
    BY <2>1, <1>a DEF Rooted, TableType
  <2>3. \A a \in Ids : root[a] # nextId
    BY <2>1, IdFacts DEF Rooted
  <2>4. CASE turn = "create"
    <3>1. root' = root /\ rev' = [rev EXCEPT ![nextId] = 1]
      BY <1>2, <2>4 DEF Insert
    <3>2. QED
      BY <2>1, <2>2, <2>3, <3>1, <1>a DEF Rooted, TableType
  <2>5. CASE turn = "revise"
    <3> DEFINE source == catalog[t]
    <3>1. /\ root' = [root EXCEPT ![nextId] = root[source]]
          /\ \A a \in Ids \ {nextId} : rev'[a] = rev[a]
          /\ source \in Ids /\ root[source] \in Ids /\ root[source] # nextId /\ root[source] # 0
      BY <1>2, <2>5, <1>a, SourceFacts, ZenonT(40) DEF Insert, TableType
    <3>2. root[root[source]] = root[source] /\ rev[root[source]] = 1
      BY <3>1 DEF Rooted
    <3>3. \A a \in Ids : root'[a] # 0 => root'[root'[a]] = root'[a] /\ rev'[root'[a]] = 1
      <4>1. ASSUME NEW a \in Ids, root'[a] # 0
            PROVE  root'[root'[a]] = root'[a] /\ rev'[root'[a]] = 1
        <5>1. PICK b \in Ids : root'[a] = root[b] /\ root[b] # 0 /\ root[b] # nextId
          BY <3>1, <4>1, <2>3, <1>a DEF TableType
        <5>2. root[b] \in Ids /\ root[root[b]] = root[b] /\ rev[root[b]] = 1
          BY <5>1, <1>a DEF TableType, Rooted
        <5>3. root'[root[b]] = root[root[b]] /\ rev'[root[b]] = rev[root[b]]
          BY <3>1, <5>1, <5>2, <1>a DEF TableType
        <5>4. QED
          BY <5>1, <5>2, <5>3
      <4>2. QED
        BY <4>1
    <3>4. \A a \in stored' : root'[a] # 0
      BY <2>1, <3>1, <1>a DEF TableType, Rooted
    <3>5. QED
      BY <2>2, <3>3, <3>4 DEF Rooted
  <2>6. QED
    BY <1>2, <2>4, <2>5 DEF Insert
<1>3. ASSUME NEW t \in Types, SetRoot(t) PROVE Rooted'
  <2> DEFINE a == job[t].id
  <2>1. /\ root' = [root EXCEPT ![a] = a] /\ UNCHANGED <<status, rev, stored, orphans>>
        /\ a \in Ids /\ root[a] = 0 /\ rev[a] = 1
    BY <1>3, OwnFacts DEF SetRoot, At, Holding
  <2>2. \A b \in Ids : root[b] # a
    BY <2>1, IdFacts DEF Rooted
  <2>3. QED
    BY <2>1, <2>2, <1>a, IdFacts DEF Rooted, TableType
<1>4. ASSUME NEW t \in Types, Produce(t) PROVE Rooted'
  BY <1>4, <1>a, OwnFacts DEF Produce, At, Holding, lineage, Rooted, TableType
<1>5. ASSUME NEW t \in Types, At(t, "commit"), Promote(job[t].id),
             UNCHANGED <<lineage, stored>>, orphans \ {job[t].id} \subseteq orphans'
      PROVE  Rooted'
  BY <1>5, <1>a, OwnFacts DEF Promote, At, Holding, lineage, Rooted, TableType
<1>6. ASSUME NEW t \in Types, MarkFailed(t) PROVE Rooted'
  BY <1>6, <1>a, OwnFacts DEF MarkFailed, At, Holding, lineage, Rooted, TableType
<1>7. ASSUME NEW s \in Savers, SaveCommit(s) PROVE Rooted'
  BY <1>7, <1>a DEF SaveCommit, lineage, Rooted, TableType, SaveType
<1>8. ASSUME NEW t \in Types, ReadyError(t), UNCHANGED <<status, current>>
      PROVE  UNCHANGED <<status, root, rev, stored, orphans>>
  BY <1>8 DEF ReadyError, lineage
<1>9. QED
  BY <1>1, <1>2, <1>3, <1>4, <1>5, <1>6, <1>7, <1>8
  DEF Next, JobStep, vars, table, LoadCatalog, Start, FanIn, Cancel, Restart, StopJobs,
      AgentFails, InsertError, FailError, SaveLoad, MarkReady, ReadyError

(***************************************************************************)
(* The catalog keeps naming ready rows until the next turn loads it again. *)
(***************************************************************************)
LEMMA CatalogStep == TypeOK /\ Filled /\ CatalogReady /\ JobsOwn /\ [Next]_vars => CatalogReady'
<1> SUFFICES ASSUME TypeOK, Filled, CatalogReady, JobsOwn, [Next]_vars PROVE CatalogReady'
  OBVIOUS
<1>a. TableType /\ JobType /\ SaveType /\ TurnType
  BY DEF TypeOK
<1>1. CASE UNCHANGED <<status, kind, catalog>>
  BY <1>1 DEF CatalogReady
<1>2. CASE LoadCatalog
  <2>1. UNCHANGED <<status, kind>>
    BY <1>2 DEF LoadCatalog, table
  <2>2. \A t \in Types : catalog'[t] # 0 => catalog'[t] \in ReadyCurrent(t)
    BY <1>2 DEF LoadCatalog
  <2>3. QED
    BY <2>1, <2>2 DEF CatalogReady, ReadyCurrent
<1>3. ASSUME NEW a \in Ids, \A u \in Types : catalog[u] # a,
             UNCHANGED catalog,
             \A b \in Ids \ {a} : status'[b] = status[b] /\ kind'[b] = kind[b]
      PROVE  CatalogReady'
  BY <1>3, <1>a DEF CatalogReady, TurnType
<1>4. ASSUME NEW t \in Types, Insert(t) PROVE CatalogReady'
  <2>1. nextId \in Ids /\ status[nextId] = "none"
    BY <1>4, IdFacts DEF Insert, Filled
  <2>2. \A u \in Types : catalog[u] # nextId
    BY <2>1, IdFacts DEF CatalogReady
  <2>3. QED
    BY <1>3, <1>4, <2>1, <2>2, <1>a DEF Insert, Running, TableType
<1>5. ASSUME NEW t \in Types, job[t].pc \in Holding, UNCHANGED <<catalog, kind>>,
             \A b \in Ids \ {job[t].id} : status'[b] = status[b]
      PROVE  CatalogReady'
  BY <1>3, <1>5, OwnFacts
<1>6. ASSUME NEW t \in Types, MarkReady(t) \/ ReadyError(t) \/ MarkFailed(t)
      PROVE  CatalogReady'
  BY <1>5, <1>6, <1>a
  DEF MarkReady, ReadyError, MarkFailed, Promote, Running, lineage, At, Holding, TableType
<1>7. ASSUME NEW s \in Savers, SaveCommit(s) PROVE CatalogReady'
  BY <1>7, <1>a DEF SaveCommit, lineage, CatalogReady, TableType, TurnType
<1>8. QED
  BY <1>1, <1>2, <1>4, <1>6, <1>7
  DEF Next, JobStep, vars, table, lineage, Start, FanIn, Cancel, Restart, StopJobs,
      AgentFails, InsertError, FailError, SaveLoad, SetRoot, Produce, Running

(***************************************************************************)
(* A step of a job that keeps the catalog, the lineage and everyone else's *)
(* documents and orphans, and leaves its own row in order, keeps every job *)
(* in possession of a row of its own.                                      *)
(***************************************************************************)
LEMMA OwnAfterGoto ==
  ASSUME TypeOK, JobsOwn, NEW t \in Types, NEW p \in JobPcs, job[t].pc \in Holding,
         Goto(t, p), UNCHANGED <<catalog, kind, parent, rev, nextId>>,
         \A b \in Ids \ {job[t].id} : /\ root'[b] = root[b]
                                      /\ b \in stored' <=> b \in stored
                                      /\ b \in orphans' <=> b \in orphans,
         p \in Holding =>
           /\ p # "root"
           /\ job[t].id \in stored' => job[t].id \in orphans'
           /\ p \in {"work", "commit"} => root'[job[t].id] # 0
           /\ p = "commit" => job[t].id \in stored'
  PROVE  JobsOwn'
<1> DEFINE a == job[t].id
<1>1. JobType
  BY DEF TypeOK
<1>2. ASSUME NEW u \in Types \ {t}, NEW b \in Held(u)'
      PROVE  JobsOwn!(u)!(b)'
  <2>1. b \in Held(u) /\ job'[u] = job[u]
    BY <1>1, <1>2, HeldAfterGoto
  <2>2. b # a /\ b \in Ids
    BY <2>1, <1>2, HeldApart, OwnFacts DEF Held
  <2>3. QED
    BY <2>1, <2>2 DEF JobsOwn
<1>3. ASSUME NEW b \in Held(t)' PROVE JobsOwn!(t)!(b)'
  <2>1. p \in Holding /\ b = a /\ job'[t].pc = p
    BY <1>1, <1>3, HeldAfterGoto, OwnFacts
  <2>2. QED
    BY <2>1, OwnFacts
<1>4. QED
  BY <1>2, <1>3 DEF JobsOwn

(***************************************************************************)
(* A job's row stays its own: later rows revise rows of the catalog, never *)
(* one that a job of this turn is working on.                              *)
(***************************************************************************)
LEMMA JobsOwnStep ==
  /\ TypeOK /\ Filled /\ JobsInTurn /\ Rooted /\ CatalogReady /\ JobsOwn /\ LineageSound
  /\ [Next]_vars
  => JobsOwn'
<1> SUFFICES ASSUME TypeOK, Filled, JobsInTurn, Rooted, CatalogReady, JobsOwn, LineageSound,
                    [Next]_vars
             PROVE  JobsOwn'
  OBVIOUS
<1>a. TableType /\ JobType /\ SaveType /\ TurnType
  BY DEF TypeOK
<1>1. CASE UNCHANGED <<job, catalog, kind, parent, root, rev, stored, orphans, nextId>>
  BY <1>1 DEF JobsOwn, Held
<1>2. ASSUME \A t \in Types : job'[t].pc \notin Holding PROVE JobsOwn'
  BY <1>2 DEF JobsOwn, Held
<1>3. CASE LoadCatalog
  BY <1>2, <1>3 DEF LoadCatalog, JobsInTurn, Holding
<1>4. ASSUME NEW mode \in {"create", "revise"}, NEW selected \in SUBSET Types,
             Start(mode, selected)
      PROVE  JobsOwn'
  BY <1>2, <1>4 DEF Start, NoJob, Holding
<1>5. CASE job' = [t \in Types |-> NoJob]
  BY <1>2, <1>5 DEF NoJob, Holding
<1>6. ASSUME NEW t \in Types, Insert(t) PROVE JobsOwn'
  <2>1. /\ nextId \in Ids /\ status[nextId] = "none" /\ root[nextId] = 0
        /\ nextId \notin stored
    BY <1>6, IdFacts DEF Insert, Filled
  <2>2. \A b \in Ids : parent[b] # nextId
    BY <2>1, IdFacts DEF LineageSound
  <2>3. \A u \in Types : catalog[u] # nextId
    BY <2>1, IdFacts DEF CatalogReady
  <2>4. \A u \in Types : \A b \in Held(u) : b < nextId /\ b # nextId
    <3>1. \A u \in Types : \A b \in Held(u) : b < nextId /\ b \in Ids
      BY DEF JobsOwn, Held
    <3>2. \A b \in Ids : b < nextId => b # nextId
      BY <2>1, IdFacts
    <3>3. QED
      BY <3>1, <3>2
  <2>5. /\ \A u \in Types \ {t} : job'[u] = job[u] /\ Held(u)' = Held(u)
        /\ Held(t)' = {nextId}
        /\ job'[t].pc = IF turn = "create" THEN "root" ELSE "work"
    <3>1. job' = [job EXCEPT ![t] =
                    [pc |-> IF turn = "create" THEN "root" ELSE "work", id |-> nextId]]
      BY <1>6 DEF Insert
    <3>2. /\ \A u \in Types \ {t} : job'[u] = job[u]
          /\ job'[t].pc = (IF turn = "create" THEN "root" ELSE "work")
          /\ job'[t].id = nextId
      BY <3>1, <1>a DEF JobType
    <3>3. QED
      BY <3>2, <2>1 DEF Held, Holding
  <2>6. /\ \A b \in Ids \ {nextId} : /\ kind'[b] = kind[b] /\ root'[b] = root[b]
                                     /\ rev'[b] = rev[b] /\ parent'[b] = parent[b]
        /\ kind'[nextId] = t /\ nextId' = nextId + 1
        /\ UNCHANGED <<catalog, stored, orphans>>
    BY <1>6, <2>1, <1>a DEF Insert, Running, TableType
  <2>7. \A b \in Ids : parent'[b] # nextId /\ \A u \in Types : \A c \in Held(u) : parent'[b] # c
    <3>1. CASE turn = "create"
      BY <1>6, <2>2, <3>1 DEF Insert, JobsOwn
    <3>2. CASE turn = "revise"
      <4>1. parent' = [parent EXCEPT ![nextId] = catalog[t]]
        BY <1>6, <3>2 DEF Insert
      <4>2. \A b \in Ids : parent'[b] = parent[b] \/ parent'[b] = catalog[t]
        BY <4>1, <1>a DEF TableType
      <4>3. QED
        BY <4>2, <2>2, <2>3 DEF JobsOwn
    <3>3. QED
      BY <1>6, <3>1, <3>2 DEF Insert
  <2>8. ASSUME NEW u \in Types \ {t}, NEW b \in Held(u)' PROVE JobsOwn!(u)!(b)'
    <3>1. b \in Held(u) /\ b \in Ids /\ b < nextId /\ b # nextId /\ b < nextId + 1
      BY <2>1, <2>4, <2>5, <2>8, IdFacts DEF Held
    <3>2. QED
      BY <2>5, <2>6, <2>7, <3>1 DEF JobsOwn
  <2>9. nextId < nextId'
    BY <2>1, <2>6, IdFacts
  <2>10. turn = "create" => root'[nextId] = 0 /\ rev'[nextId] = 1
    BY <1>6, <2>1, <1>a DEF Insert, TableType
  <2>11. turn = "revise" => root'[nextId] # 0
    <3>1. SUFFICES ASSUME turn = "revise" PROVE root'[nextId] # 0
      OBVIOUS
    <3>2. root' = [root EXCEPT ![nextId] = RootOf(catalog[t])]
      BY <1>6, <3>1 DEF Insert
    <3>3. RootOf(catalog[t]) # 0
      BY <1>6, <3>1, SourceFacts
    <3>4. QED
      BY <2>1, <3>2, <3>3, <1>a DEF TableType
  <2>12. ASSUME NEW b \in Held(t)' PROVE JobsOwn!(t)!(b)'
    <3>1. b = nextId /\ turn \in {"create", "revise"}
      BY <1>6, <2>5, <2>12 DEF Insert
    <3>2. QED
      BY <3>1, <2>1, <2>3, <2>5, <2>6, <2>7, <2>9, <2>10, <2>11
  <2>13. QED
    BY <2>8, <2>12 DEF JobsOwn
<1>7. ASSUME NEW t \in Types, SetRoot(t) PROVE JobsOwn'
  <2>1. /\ Goto(t, "work") /\ job[t].pc = "root" /\ job[t].id \in Ids
        /\ UNCHANGED <<catalog, kind, parent, rev, stored, orphans, nextId>>
        /\ root' = [root EXCEPT ![job[t].id] = job[t].id]
    BY <1>7, OwnFacts DEF SetRoot, At, Running, Holding
  <2>2. /\ \A b \in Ids \ {job[t].id} : root'[b] = root[b]
        /\ root'[job[t].id] # 0
        /\ job[t].id \in stored => job[t].id \in orphans
    BY <2>1, <1>a, IdFacts, OwnFacts DEF TableType, Holding
  <2>3. QED
    BY <2>1, <2>2, OwnAfterGoto DEF Holding, JobPcs
<1>8. ASSUME NEW t \in Types, Produce(t) PROVE JobsOwn'
  <2>1. /\ Goto(t, "commit") /\ job[t].pc = "work" /\ job[t].id \in Ids /\ root[job[t].id] # 0
        /\ UNCHANGED <<catalog, kind, parent, root, rev, nextId>>
        /\ stored' = stored \cup {job[t].id} /\ orphans' = orphans \cup {job[t].id}
    BY <1>8, OwnFacts DEF Produce, At, Running, Holding, lineage
  <2>2. QED
    BY <2>1, OwnAfterGoto DEF Holding, JobPcs
<1>9. ASSUME NEW t \in Types, NEW p \in {"fail", "done"}, job[t].pc \in Holding, Goto(t, p),
             UNCHANGED <<catalog, kind, parent, root, rev, stored, nextId>>,
             \A b \in Ids \ {job[t].id} : b \in orphans' <=> b \in orphans,
             p = "fail" => orphans' = orphans
      PROVE  JobsOwn'
  <2>1. job[t].id \in stored => job[t].id \in orphans
    BY <1>9, OwnFacts
  <2>2. QED
    BY <1>9, <2>1, OwnAfterGoto DEF Holding, JobPcs
<1>10. ASSUME NEW t \in Types, AgentFails(t) \/ MarkReady(t) \/ MarkFailed(t) \/ ReadyError(t)
       PROVE  JobsOwn'
  <2>1. CASE AgentFails(t) \/ MarkFailed(t) \/ ReadyError(t)
    <3>1. PICK p \in {"fail", "done"} : Goto(t, p)
      BY <2>1 DEF AgentFails, MarkFailed, ReadyError, Finish
    <3>2. /\ UNCHANGED <<catalog, kind, parent, root, rev, stored, nextId, orphans>>
          /\ job[t].pc \in Holding
      BY <2>1 DEF AgentFails, MarkFailed, ReadyError, At, Holding, Running, table, lineage
    <3>3. QED
      BY <3>1, <3>2, <1>9
  <2>2. CASE MarkReady(t)
    <3>1. /\ Goto(t, "done") /\ UNCHANGED <<catalog, kind, parent, root, rev, stored, nextId>>
          /\ orphans' = orphans \ {job[t].id} /\ job[t].pc \in Holding
      BY <2>2 DEF MarkReady, Finish, At, Holding, Running, lineage
    <3>2. QED
      BY <3>1, <1>9
  <2>3. QED
    BY <1>10, <2>1, <2>2
<1>11. ASSUME NEW t \in Types, InsertError(t) PROVE JobsOwn'
  <2>1. Goto(t, "done") /\ UNCHANGED <<catalog, table, orphans>>
    BY <1>11 DEF InsertError, Finish, Running
  <2>2. CASE job[t].pc \in {"root", "work"}
    <3>1. /\ UNCHANGED <<catalog, kind, parent, root, rev, stored, nextId, orphans>>
          /\ job[t].pc \in Holding
      BY <2>1, <2>2 DEF table, lineage, Holding
    <3>2. QED
      BY <2>1, <3>1, <1>9
  <2>3. CASE job[t].pc = "insert"
    <3>1. /\ \A u \in Types \ {t} : job'[u] = job[u] /\ Held(u)' = Held(u)
          /\ Held(t)' = {}
      BY <2>1, <1>a DEF Goto, JobType, Held, Holding
    <3>2. QED
      BY <2>1, <3>1 DEF JobsOwn, table
  <2>4. QED
    BY <1>11, <2>2, <2>3 DEF InsertError
<1>12. QED
  BY <1>1, <1>3, <1>4, <1>5, <1>6, <1>7, <1>8, <1>10, <1>11
  DEF Next, JobStep, vars, table, lineage, FanIn, Cancel, Restart, StopJobs, FailError,
      SaveLoad, SaveCommit

-----------------------------------------------------------------------------
(* The safety properties                                                   *)

(***************************************************************************)
(* A step that demotes what it must and promotes one row keeps one ready   *)
(* current row per type.                                                   *)
(***************************************************************************)
LEMMA OneReadyCurrentStep ==
  TypeOK /\ Filled /\ Rooted /\ JobsOwn /\ OneReadyCurrent /\ [Next]_vars => OneReadyCurrent'
<1> SUFFICES ASSUME TypeOK, Filled, Rooted, JobsOwn, OneReadyCurrent, [Next]_vars
             PROVE  OneReadyCurrent'
  OBVIOUS
<1>a. TableType /\ JobType /\ SaveType
  BY DEF TypeOK
<1>1. CASE UNCHANGED <<status, kind, current, orphans>>
  BY <1>1 DEF OneReadyCurrent
<1>2. ASSUME NEW t \in Types, Insert(t) PROVE OneReadyCurrent'
  <2>1. /\ nextId \in Ids /\ orphans' = orphans
        /\ current' \subseteq current \cup {nextId}
        /\ status' = [status EXCEPT ![nextId] = "running"]
        /\ kind' = [kind EXCEPT ![nextId] = t]
    BY <1>2 DEF Insert
  <2>2. QED
    BY <2>1, <1>a DEF OneReadyCurrent, TableType
<1>3. ASSUME NEW t \in Types, Produce(t) PROVE OneReadyCurrent'
  BY <1>3 DEF Produce, OneReadyCurrent, lineage
<1>4. ASSUME NEW t \in Types, job[t].pc = "commit", Promote(job[t].id), UNCHANGED lineage,
             orphans \ {job[t].id} \subseteq orphans'
      PROVE  OneReadyCurrent'
  <2> DEFINE a == job[t].id
  <2>1. /\ a \in Ids /\ UNCHANGED kind
        /\ \A b \in Ids \ {a} : status'[b] = status[b]
        /\ \A b \in current' : b = a \/ (b \in current /\ kind[b] # kind[a])
    BY <1>4, <1>a, OwnFacts DEF Promote, Demoted, lineage, TableType, Holding
  <2>2. QED
    BY <1>4, <2>1, <1>a DEF OneReadyCurrent, TableType
<1>5. ASSUME NEW t \in Types, ReadyError(t), UNCHANGED <<status, current>>
      PROVE  UNCHANGED <<status, kind, current, orphans>>
  BY <1>5 DEF ReadyError, lineage
<1>6. ASSUME NEW t \in Types, MarkFailed(t) PROVE OneReadyCurrent'
  BY <1>6, <1>a DEF MarkFailed, OneReadyCurrent, lineage, TableType
<1>7. ASSUME NEW s \in Savers, SaveCommit(s) PROVE OneReadyCurrent'
  <2> DEFINE a == save[s].id
  <2>1. /\ a \in Ids /\ UNCHANGED <<kind, current, orphans>>
        /\ \A b \in Ids \ {a} : status'[b] = status[b]
        /\ a \notin orphans => status[a] = "ready"
    BY <1>7, <1>a DEF SaveCommit, SaveType, TableType, lineage, Rooted
  <2>2. QED
    BY <2>1, <1>a DEF OneReadyCurrent, TableType
<1>8. QED
  BY <1>1, <1>2, <1>3, <1>4, <1>5, <1>6, <1>7
  DEF Next, JobStep, vars, table, lineage, LoadCatalog, Start, FanIn, Cancel, Restart, StopJobs,
      AgentFails, InsertError, FailError, SaveLoad, SetRoot, MarkReady, ReadyError, At

(***************************************************************************)
(* Every step keeps the version histories sound.                           *)
(***************************************************************************)
LEMMA LineageStep ==
  /\ TypeOK /\ Filled /\ Rooted /\ Rooted' /\ CatalogReady /\ JobsOwn /\ LineageSound
  /\ [Next]_vars
  => LineageSound'
<1> SUFFICES ASSUME TypeOK, Filled, Rooted, Rooted', CatalogReady, JobsOwn, LineageSound,
                    [Next]_vars
             PROVE  LineageSound'
  OBVIOUS
<1>a. TableType /\ JobType /\ SaveType /\ TableType'
  BY TableStep DEF TypeOK
<1> DEFINE Continues(a) ==
             LET p == parent[a]
             IN /\ p < a /\ kind[p] = kind[a] /\ status[p] = "ready"
                /\ rev[a] = rev[p] + 1 /\ root[a] = root[p] /\ root[p] # 0
<1>b. \A a \in Ids : parent[a] # 0 => Continues(a)
  BY DEF LineageSound
<1>c. ASSUME \A a \in Ids : parent'[a] # 0 => Continues(a)' PROVE LineageSound'
  BY <1>a, <1>c, IdFacts DEF LineageSound, Rooted
<1>1. CASE UNCHANGED <<kind, status, parent, root, rev>>
  BY <1>1 DEF LineageSound
<1>2. ASSUME NEW a \in Ids, \A b \in Ids : parent[b] # a,
             parent[a] = 0 \/ root'[a] = root[a],
             UNCHANGED <<kind, parent, rev>>,
             \A b \in Ids \ {a} : status'[b] = status[b] /\ root'[b] = root[b]
      PROVE  LineageSound'
  <2>1. ASSUME NEW c \in Ids, parent'[c] # 0 PROVE Continues(c)'
    <3>1. parent[c] # 0 /\ parent[c] # a /\ parent[c] \in Ids /\ Continues(c)
      BY <1>2, <2>1, <1>a, <1>b DEF TableType
    <3>2. root'[c] = root[c] /\ root'[parent[c]] = root[parent[c]]
          /\ status'[parent[c]] = status[parent[c]]
      BY <1>2, <3>1
    <3>3. QED
      BY <1>2, <3>1, <3>2
  <2>2. QED
    BY <2>1, <1>c
<1>3. ASSUME NEW t \in Types, Insert(t) PROVE LineageSound'
  <2>1. /\ nextId \in Ids /\ status[nextId] = "none" /\ parent[nextId] = 0
        /\ kind' = [kind EXCEPT ![nextId] = t]
        /\ status' = [status EXCEPT ![nextId] = "running"]
        /\ \A b \in Ids \ {nextId} : /\ root'[b] = root[b] /\ parent'[b] = parent[b]
                                     /\ rev'[b] = rev[b]
    BY <1>3, <1>a, IdFacts DEF Insert, Filled, TableType
  <2>2. ASSUME NEW c \in Ids \ {nextId}, parent'[c] # 0 PROVE Continues(c)'
    <3>1. parent'[c] = parent[c] /\ Continues(c) /\ parent[c] \in Ids /\ parent[c] # nextId
      BY <2>1, <2>2, <1>a, <1>b DEF TableType
    <3>2. QED
      BY <2>1, <3>1, <1>a DEF TableType
  <2>3. ASSUME NEW c \in Ids, c = nextId, parent'[c] # 0 PROVE Continues(c)'
    <3> DEFINE source == catalog[t]
    <3>1. turn = "revise"
      BY <1>3, <2>1, <2>3 DEF Insert
    <3>2. /\ source \in Ids /\ status[source] = "ready" /\ kind[source] = t
          /\ source # nextId /\ root[source] # 0 /\ RootOf(source) = root[source]
      BY <1>3, <3>1, SourceFacts
    <3>3. /\ parent' = [parent EXCEPT ![nextId] = source]
          /\ root' = [root EXCEPT ![nextId] = RootOf(source)]
          /\ rev' = [rev EXCEPT ![nextId] = rev[source] + 1]
      BY <1>3, <3>1 DEF Insert
    <3>4. source < c
      <4>1. ~(source >= c)
        BY <3>2, <2>3 DEF Filled
      <4>2. source \in Nat /\ c \in Nat
        BY <3>2, <2>3, IdFacts
      <4>3. QED
        BY <4>1, <4>2
    <3>5. parent'[c] = source /\ kind'[source] = kind'[c] /\ status'[source] = "ready"
      BY <2>1, <2>3, <3>2, <3>3, <1>a DEF TableType
    <3>6. rev'[c] = rev'[source] + 1 /\ root'[c] = root'[source] /\ root'[source] # 0
      BY <2>1, <2>3, <3>2, <3>3, <1>a DEF TableType
    <3>7. QED
      BY <3>4, <3>5, <3>6
  <2>4. QED
    BY <2>2, <2>3, <1>c
<1>4. ASSUME NEW t \in Types, SetRoot(t) PROVE LineageSound'
  <2> DEFINE a == job[t].id
  <2>1. /\ a \in Ids /\ root[a] = 0 /\ rev[a] = 1 /\ \A b \in Ids : parent[b] # a
        /\ UNCHANGED <<kind, parent, rev, status>>
        /\ root' = [root EXCEPT ![a] = a]
    BY <1>4, OwnFacts DEF SetRoot, At, Holding
  <2>2. parent[a] = 0
    BY <2>1 DEF LineageSound
  <2>3. \A b \in Ids \ {a} : root'[b] = root[b]
    BY <2>1, <1>a DEF TableType
  <2>4. QED
    BY <2>1, <2>2, <2>3, <1>2
<1>5. ASSUME NEW t \in Types, MarkReady(t) \/ ReadyError(t) \/ MarkFailed(t)
      PROVE  LineageSound'
  <2>1. /\ job[t].id \in Ids /\ \A b \in Ids : parent[b] # job[t].id
        /\ UNCHANGED <<kind, parent, root, rev>>
    BY <1>5, OwnFacts DEF MarkReady, ReadyError, MarkFailed, At, Holding, lineage
  <2>2. \A b \in Ids \ {job[t].id} : status'[b] = status[b]
    BY <1>5, <1>a DEF MarkReady, ReadyError, MarkFailed, Promote, TableType
  <2>3. QED
    BY <2>1, <2>2, <1>2
<1>6. ASSUME NEW s \in Savers, SaveCommit(s) PROVE LineageSound'
  <2>1. /\ UNCHANGED <<kind, parent, root, rev>>
        /\ \A b \in Ids : status[b] = "ready" => status'[b] = "ready"
    BY <1>6, <1>a DEF SaveCommit, lineage, TableType, SaveType
  <2>2. \A c \in Ids : parent'[c] # 0 => Continues(c)'
    BY <2>1, <1>a, <1>b DEF TableType
  <2>3. QED
    BY <2>2, <1>c
<1>7. QED
  BY <1>1, <1>3, <1>4, <1>5, <1>6
  DEF Next, JobStep, vars, table, lineage, LoadCatalog, Start, FanIn, Cancel, Restart, StopJobs,
      AgentFails, InsertError, FailError, SaveLoad, Produce

(***************************************************************************)
(* A result that says "ready" stays true until the jobs are put away: the  *)
(* other jobs settle rows of other types.                                  *)
(***************************************************************************)
LEMMA ResultsStep == TypeOK /\ Filled /\ JobsOwn /\ ResultsAreTrue /\ [Next]_vars => ResultsAreTrue'
<1> SUFFICES ASSUME TypeOK, Filled, JobsOwn, ResultsAreTrue, [Next]_vars PROVE ResultsAreTrue'
  OBVIOUS
<1>a. TableType /\ JobType /\ SaveType /\ TurnType
  BY DEF TypeOK
<1> DEFINE True(u) == /\ job[u].id \in current
                      /\ status[job[u].id] = "ready"
                      /\ kind[job[u].id] = u
<1>b. \A u \in Types : job[u].pc = "done" /\ result[u] = "ready" => True(u)
  BY DEF ResultsAreTrue, At
<1>1. CASE UNCHANGED <<job, result, current, status, kind>>
  BY <1>1 DEF ResultsAreTrue, At
<1>2. ASSUME \A u \in Types : job'[u].pc # "done" PROVE ResultsAreTrue'
  BY <1>2 DEF ResultsAreTrue, At
<1>3. ASSUME NEW mode \in {"create", "revise"}, NEW selected \in SUBSET Types,
             Start(mode, selected)
      PROVE  ResultsAreTrue'
  BY <1>2, <1>3 DEF Start, NoJob
<1>4. CASE job' = [t \in Types |-> NoJob]
  BY <1>2, <1>4 DEF NoJob
<1>5. ASSUME NEW t \in Types,
             \A u \in Types \ {t} : job'[u] = job[u] /\ result'[u] = result[u],
             job'[t].pc # "done" \/ result'[t] # "ready" \/ True(t)',
             \A u \in Types \ {t} : True(u) => True(u)'
      PROVE  ResultsAreTrue'
  BY <1>5, <1>b DEF ResultsAreTrue, At
<1>6. ASSUME NEW t \in Types, Insert(t) PROVE ResultsAreTrue'
  <2>1. nextId \in Ids /\ status[nextId] = "none"
    BY <1>6, IdFacts DEF Insert, Filled
  <2>2. /\ \A u \in Types \ {t} : job'[u] = job[u] /\ result'[u] = result[u]
        /\ job'[t].pc # "done"
    BY <1>6, <1>a DEF Insert, JobType
  <2>3. /\ current \subseteq current'
        /\ \A b \in Ids \ {nextId} : status'[b] = status[b] /\ kind'[b] = kind[b]
    BY <1>6, <1>a DEF Insert, TableType
  <2>4. \A u \in Types \ {t} : True(u) => True(u)'
    <3>1. ASSUME NEW u \in Types \ {t}, True(u) PROVE True(u)'
      <4>1. job[u].id \in Ids \ {nextId}
        BY <3>1, <2>1, <1>a DEF TableType
      <4>2. QED
        BY <3>1, <4>1, <2>2, <2>3
    <3>2. QED
      BY <3>1
  <2>5. QED
    BY <1>5, <2>2, <2>4
<1>7. ASSUME NEW t \in Types, NEW p \in JobPcs, job[t].pc \in Holding, Goto(t, p),
             \A u \in Types \ {t} : result'[u] = result[u],
             UNCHANGED kind,
             \A b \in Ids : kind[b] # t => (b \in current => b \in current'),
             \A b \in Ids \ {job[t].id} : status'[b] = status[b],
             p = "done" /\ result'[t] = "ready" =>
               job[t].id \in current' /\ status'[job[t].id] = "ready"
      PROVE  ResultsAreTrue'
  <2>1. /\ \A u \in Types \ {t} : job'[u] = job[u]
        /\ job'[t].pc = p /\ job'[t].id = job[t].id
    BY <1>7, <1>a, HeldAfterGoto
  <2>2. job[t].id \in Ids /\ kind[job[t].id] = t
    BY <1>7, OwnFacts
  <2>3. job'[t].pc # "done" \/ result'[t] # "ready" \/ True(t)'
    BY <1>7, <2>1, <2>2
  <2>4. ASSUME NEW u \in Types \ {t}, True(u) PROVE True(u)'
    <3>1. job[u].id \in Ids /\ kind[job[u].id] # t /\ job[u].id # job[t].id
      BY <2>2, <2>4, <1>a DEF TableType
    <3>2. QED
      BY <1>7, <2>1, <2>4, <3>1
  <2>5. QED
    BY <1>5, <1>7, <2>1, <2>3, <2>4
<1>8. ASSUME NEW t \in Types, SetRoot(t) \/ Produce(t) \/ AgentFails(t) PROVE ResultsAreTrue'
  <2>1. PICK p \in {"work", "commit", "fail"} : Goto(t, p)
    BY <1>8 DEF SetRoot, Produce, AgentFails
  <2>2. UNCHANGED <<kind, status, current, result>> /\ job[t].pc \in Holding
    BY <1>8 DEF SetRoot, Produce, AgentFails, At, Holding, table, lineage
  <2>3. QED
    BY <2>1, <2>2, <1>7 DEF JobPcs
<1>9. ASSUME NEW t \in Types, MarkReady(t) PROVE ResultsAreTrue'
  <2> DEFINE a == job[t].id
  <2>1. /\ job[t].pc \in Holding /\ Goto(t, "done") /\ UNCHANGED kind
        /\ result' = [result EXCEPT ![t] = "ready"]
        /\ status' = [status EXCEPT ![a] = "ready"]
        /\ current' = (current \ Demoted(a)) \cup {a}
    BY <1>9 DEF MarkReady, Finish, Promote, At, Holding, lineage
  <2>2. a \in Ids /\ kind[a] = t
    BY <2>1, OwnFacts
  <2>3. \A b \in Ids : kind[b] # t => (b \in current => b \in current')
    BY <2>1, <2>2 DEF Demoted
  <2>4. /\ \A b \in Ids \ {a} : status'[b] = status[b]
        /\ \A u \in Types \ {t} : result'[u] = result[u]
        /\ a \in current' /\ status'[a] = "ready"
    BY <2>1, <2>2, <1>a DEF TableType, TurnType
  <2>5. QED
    BY <2>1, <2>3, <2>4, <1>7 DEF JobPcs
<1>10. ASSUME NEW t \in Types, MarkFailed(t) PROVE ResultsAreTrue'
  <2>1. /\ job[t].pc \in Holding /\ Goto(t, "done") /\ UNCHANGED <<kind, current>>
        /\ result' = [result EXCEPT ![t] = "failed"]
        /\ status' = [status EXCEPT ![job[t].id] = "failed"]
    BY <1>10 DEF MarkFailed, Finish, At, Holding, lineage
  <2>2. /\ \A b \in Ids \ {job[t].id} : status'[b] = status[b]
        /\ \A u \in Types \ {t} : result'[u] = result[u]
        /\ result'[t] # "ready"
    BY <2>1, <1>a DEF TableType, TurnType
  <2>3. QED
    BY <2>1, <2>2, <1>7 DEF JobPcs
<1>11. ASSUME NEW t \in Types, ReadyError(t) PROVE ResultsAreTrue'
  <2> DEFINE a == job[t].id
  <2>1. /\ job[t].pc \in Holding /\ Goto(t, "fail") /\ UNCHANGED <<kind, result>>
        /\ \/ UNCHANGED <<status, current>>
           \/ /\ status' = [status EXCEPT ![a] = "ready"]
              /\ current' = (current \ Demoted(a)) \cup {a}
    BY <1>11 DEF ReadyError, Promote, At, Holding, lineage
  <2>2. a \in Ids /\ kind[a] = t
    BY <2>1, OwnFacts
  <2>3. \A b \in Ids : kind[b] # t => (b \in current => b \in current')
    BY <2>1, <2>2 DEF Demoted
  <2>4. \A b \in Ids \ {a} : status'[b] = status[b]
    BY <2>1, <2>2, <1>a DEF TableType
  <2>5. QED
    BY <2>1, <2>3, <2>4, <1>7 DEF JobPcs
<1>12. ASSUME NEW t \in Types, InsertError(t) PROVE ResultsAreTrue'
  <2>1. /\ job' = [job EXCEPT ![t].pc = "done"] /\ UNCHANGED <<kind, status, current>>
        /\ result' = [result EXCEPT ![t] = "failed"]
    BY <1>12 DEF InsertError, Finish, Goto, table
  <2>2. /\ \A u \in Types \ {t} : job'[u] = job[u] /\ result'[u] = result[u]
        /\ result'[t] # "ready"
    BY <2>1, <1>a DEF JobType, TurnType
  <2>3. QED
    BY <1>5, <2>1, <2>2
<1>13. ASSUME NEW s \in Savers, SaveCommit(s) PROVE ResultsAreTrue'
  <2>1. /\ UNCHANGED <<kind, current, job, result>>
        /\ \A b \in Ids : status[b] = "ready" => status'[b] = "ready"
    BY <1>13, <1>a DEF SaveCommit, lineage, TableType, SaveType
  <2>2. \A u \in Types : True(u) => True(u)'
    BY <2>1, <1>a DEF TableType
  <2>3. QED
    BY <2>1, <2>2, <1>b DEF ResultsAreTrue, At
<1>14. QED
  BY <1>1, <1>3, <1>4, <1>6, <1>8, <1>9, <1>10, <1>11, <1>12, <1>13
  DEF Next, JobStep, vars, table, lineage, LoadCatalog, FanIn, Cancel, Restart, StopJobs,
      FailError, SaveLoad

(***************************************************************************)
(* A row leaves the hands of its job settled, or counted as lost.          *)
(***************************************************************************)
LEMMA OwnedStep ==
  TypeOK /\ JobsInTurn /\ JobsOwn /\ RunningIsOwned /\ [Next]_vars => RunningIsOwned'
<1> SUFFICES ASSUME TypeOK, JobsInTurn, JobsOwn, RunningIsOwned, [Next]_vars
             PROVE  RunningIsOwned'
  OBVIOUS
<1>a. TableType /\ JobType /\ SaveType
  BY DEF TypeOK
<1>1. CASE UNCHANGED <<status, job, lost>>
  BY <1>1 DEF RunningIsOwned, Held
<1>2. ASSUME UNCHANGED <<status, lost>>, \A t \in Types : Held(t) = {} PROVE RunningIsOwned'
  BY <1>2 DEF RunningIsOwned
<1>3. ASSUME NEW mode \in {"create", "revise"}, NEW selected \in SUBSET Types,
             Start(mode, selected)
      PROVE  RunningIsOwned'
  BY <1>2, <1>3 DEF Start, JobsInTurn, table, Held, Holding
<1>4. CASE StopJobs
  <2>1. lost' = lost \cup UNION {Held(t) : t \in Types} /\ status' = status
    BY <1>4 DEF StopJobs, table
  <2>2. QED
    BY <2>1 DEF RunningIsOwned
<1>5. CASE FanIn
  BY <1>2, <1>5 DEF FanIn, table, Held, Holding
<1>6. ASSUME NEW t \in Types, Insert(t) PROVE RunningIsOwned'
  <2>1. PICK p \in {"root", "work"} : job' = [job EXCEPT ![t] = [pc |-> p, id |-> nextId]]
    BY <1>6 DEF Insert
  <2>2. nextId \in Held(t)' /\ \A u \in Types \ {t} : Held(u)' = Held(u)
    BY <1>6, <2>1, <1>a DEF Insert, Held, JobType, Holding
  <2>3. Held(t) = {}
    BY <1>6 DEF Insert, At, Held, Holding
  <2>4. /\ \A b \in Ids \ {nextId} : status'[b] = status[b]
        /\ lost' = lost
    BY <1>6, <1>a DEF Insert, TableType
  <2>5. QED
    BY <2>2, <2>3, <2>4 DEF RunningIsOwned
<1>7. ASSUME NEW t \in Types, NEW p \in JobPcs, job[t].pc \in Holding, Goto(t, p),
             \A b \in Ids \ {job[t].id} : status'[b] = status[b],
             lost \subseteq lost',
             p \in Holding \/ status'[job[t].id] # "running" \/ job[t].id \in lost'
      PROVE  RunningIsOwned'
  <2>1. /\ \A u \in Types \ {t} : Held(u)' = Held(u)
        /\ Held(t)' = IF p \in Holding THEN Held(t) ELSE {}
        /\ Held(t) = {job[t].id}
    BY <1>7, <1>a, HeldAfterGoto, HeldByJob
  <2>2. ASSUME NEW b \in Ids \ lost', status'[b] = "running"
        PROVE  \E u \in Types : b \in Held(u)'
    <3>1. CASE b = job[t].id
      BY <1>7, <2>1, <2>2, <3>1
    <3>2. CASE b # job[t].id
      <4>1. PICK u \in Types : b \in Held(u)
        BY <1>7, <2>2, <3>2 DEF RunningIsOwned
      <4>2. u # t
        BY <2>1, <3>2, <4>1
      <4>3. QED
        BY <2>1, <4>1, <4>2
    <3>3. QED
      BY <3>1, <3>2
  <2>3. QED
    BY <2>2 DEF RunningIsOwned
<1>8. ASSUME NEW t \in Types, SetRoot(t) \/ Produce(t) \/ AgentFails(t) PROVE RunningIsOwned'
  <2>1. PICK p \in {"work", "commit", "fail"} : Goto(t, p)
    BY <1>8 DEF SetRoot, Produce, AgentFails
  <2>2. UNCHANGED <<status, lost>> /\ job[t].pc \in Holding
    BY <1>8 DEF SetRoot, Produce, AgentFails, At, Holding, table, lineage
  <2>3. QED
    BY <2>1, <2>2, <1>7 DEF JobPcs, Holding
<1>9. ASSUME NEW t \in Types, MarkReady(t) \/ MarkFailed(t) PROVE RunningIsOwned'
  <2>1. /\ job[t].pc \in Holding /\ Goto(t, "done") /\ UNCHANGED lost
        /\ \/ status' = [status EXCEPT ![job[t].id] = "ready"]
           \/ status' = [status EXCEPT ![job[t].id] = "failed"]
    BY <1>9 DEF MarkReady, MarkFailed, Finish, Promote, At, Holding
  <2>2. /\ \A b \in Ids \ {job[t].id} : status'[b] = status[b]
        /\ status'[job[t].id] # "running"
    BY <2>1, <1>a, OwnFacts DEF TableType
  <2>3. QED
    BY <2>1, <2>2, <1>7 DEF JobPcs
<1>10. ASSUME NEW t \in Types, ReadyError(t) PROVE RunningIsOwned'
  <2>1. /\ job[t].pc \in Holding /\ Goto(t, "fail") /\ UNCHANGED lost
        /\ status' = status \/ status' = [status EXCEPT ![job[t].id] = "ready"]
    BY <1>10 DEF ReadyError, Promote, At, Holding
  <2>2. \A b \in Ids \ {job[t].id} : status'[b] = status[b]
    BY <2>1, <1>a DEF TableType
  <2>3. QED
    BY <2>1, <2>2, <1>7 DEF JobPcs, Holding
<1>11. ASSUME NEW t \in Types, InsertError(t) PROVE RunningIsOwned'
  <2>1. /\ Goto(t, "done") /\ lost' = lost \cup Held(t) /\ status' = status
    BY <1>11 DEF InsertError, Finish, table
  <2>2. CASE job[t].pc \in {"root", "work"}
    <3>1. job[t].pc \in Holding /\ job[t].id \in lost'
      BY <2>1, <2>2, <1>a, HeldByJob DEF Holding
    <3>2. QED
      BY <2>1, <3>1, <1>7 DEF JobPcs
  <2>3. CASE job[t].pc = "insert"
    <3>1. \A u \in Types : Held(u) \subseteq Held(u)'
      BY <2>1, <2>3, <1>a DEF Goto, JobType, Held, Holding
    <3>2. QED
      BY <2>1, <3>1 DEF RunningIsOwned
  <2>4. QED
    BY <1>11, <2>2, <2>3 DEF InsertError
<1>12. ASSUME NEW s \in Savers, SaveCommit(s) PROVE RunningIsOwned'
  <2>1. /\ UNCHANGED <<job, lost>>
        /\ \A b \in Ids : status'[b] = "running" => status[b] = "running"
    BY <1>12, <1>a DEF SaveCommit, TableType, SaveType
  <2>2. QED
    BY <2>1 DEF RunningIsOwned, Held
<1>13. QED
  BY <1>1, <1>3, <1>4, <1>5, <1>6, <1>8, <1>9, <1>10, <1>11, <1>12
  DEF Next, JobStep, vars, table, LoadCatalog, Cancel, Restart, FailError, SaveLoad

(***************************************************************************)
(* A row without a predecessor gets no root but itself.                    *)
(***************************************************************************)
LEMMA FirstIsRootStep ==
  TypeOK /\ Filled /\ FirstIsRoot /\ JobsOwn /\ [Next]_vars => FirstIsRoot'
<1> SUFFICES ASSUME TypeOK, Filled, FirstIsRoot, JobsOwn, [Next]_vars PROVE FirstIsRoot'
  OBVIOUS
<1>a. TableType /\ JobType
  BY DEF TypeOK
<1>1. CASE UNCHANGED <<parent, root>>
  BY <1>1 DEF FirstIsRoot
<1>2. ASSUME NEW t \in Types, Insert(t) PROVE FirstIsRoot'
  <2>1. CASE turn = "create"
    BY <1>1, <1>2, <2>1 DEF Insert
  <2>2. CASE turn = "revise"
    <3>1. catalog[t] \in Ids /\ catalog[t] # 0
      BY <1>2, <2>2, <1>a, IdFacts DEF JobType, Insert, At
    <3>2. /\ parent' = [parent EXCEPT ![nextId] = catalog[t]] /\ nextId \in Ids
          /\ \A b \in Ids \ {nextId} : root'[b] = root[b]
      BY <1>2, <2>2, <1>a DEF Insert, TableType
    <3>3. QED
      BY <3>1, <3>2, <1>a DEF FirstIsRoot, TableType
  <2>3. QED
    BY <1>2, <2>1, <2>2 DEF Insert
<1>3. ASSUME NEW t \in Types, SetRoot(t) PROVE FirstIsRoot'
  BY <1>3, <1>a DEF SetRoot, FirstIsRoot, TableType
<1>4. QED
  BY <1>1, <1>2, <1>3
  DEF Next, JobStep, vars, table, lineage, LoadCatalog, Start, FanIn, Cancel, Restart, StopJobs,
      Produce, AgentFails, MarkReady, MarkFailed, InsertError, ReadyError, FailError, SaveLoad,
      SaveCommit

(***************************************************************************)
(* The invariant holds at first.                                           *)
(***************************************************************************)
LEMMA InvInit == Init => IInv
<1> SUFFICES ASSUME Init PROVE IInv
  OBVIOUS
<1>1. TypeOK
  BY TypeInit
<1>2. Filled
  BY ArtifactsAssumption DEF Init, Filled, Ids
<1>3. /\ JobsInTurn /\ Outcomes /\ Rooted /\ FirstIsRoot /\ CatalogReady /\ JobsOwn
      /\ ResultsAreTrue /\ RunningIsOwned
  BY DEF Init, JobsInTurn, Outcomes, Rooted, FirstIsRoot, CatalogReady, JobsOwn, ResultsAreTrue, RunningIsOwned,
         NoJob, Held, Holding, At
<1>4. OneReadyCurrent /\ LineageSound
  BY DEF Init, OneReadyCurrent, LineageSound
<1>5. QED
  BY <1>1, <1>2, <1>3, <1>4 DEF IInv

(***************************************************************************)
(* Every step keeps the invariant.                                         *)
(***************************************************************************)
LEMMA InvStep == IInv /\ [Next]_vars => IInv'
<1> SUFFICES ASSUME IInv, [Next]_vars PROVE IInv'
  OBVIOUS
<1>1. TypeOK'
  BY TableStep, TurnStep, JobTypeStep, SaveTypeStep, HistoryStep DEF IInv, TypeOK
<1>2. Filled' /\ JobsInTurn' /\ Outcomes' /\ Rooted' /\ FirstIsRoot' /\ CatalogReady'
  BY FilledStep, JobsInTurnStep, OutcomesStep, RootedStep, FirstIsRootStep, CatalogStep DEF IInv
<1>3. JobsOwn' /\ OneReadyCurrent'
  BY JobsOwnStep, OneReadyCurrentStep DEF IInv
<1>4. LineageSound'
  BY <1>2, LineageStep DEF IInv
<1>5. ResultsAreTrue' /\ RunningIsOwned'
  BY ResultsStep, OwnedStep DEF IInv
<1>6. QED
  BY <1>1, <1>2, <1>3, <1>4, <1>5 DEF IInv

(***************************************************************************)
(* The inductive invariant is an invariant.                                *)
(***************************************************************************)
THEOREM InvariantHolds == Spec => []IInv
BY InvInit, InvStep, PTL DEF Spec

(***************************************************************************)
(* The table never shows two versions of one artifact as the ready one.    *)
(***************************************************************************)
THEOREM OneVersionShown == Spec => []OneReadyCurrent
BY InvariantHolds, PTL DEF IInv

(***************************************************************************)
(* Every version history leads back, row by row, to its first version.     *)
(***************************************************************************)
THEOREM HistoriesSound == Spec => []LineageSound
BY InvariantHolds, PTL DEF IInv

(***************************************************************************)
(* The graph is never told that an artifact is ready when it is not.       *)
(***************************************************************************)
THEOREM ReportsTrue == Spec => []ResultsAreTrue
BY InvariantHolds, PTL DEF IInv

(***************************************************************************)
(* A running row that no job holds was lost by a stop, or by an insertion  *)
(* that raised after a commit.                                             *)
(***************************************************************************)
THEOREM NoSilentRunner == Spec => []RunningIsOwned
BY InvariantHolds, PTL DEF IInv

(***************************************************************************)
(* Only a job that failed after its own promotion takes away the last      *)
(* ready version of a type.                                                *)
(***************************************************************************)
LEMMA ReadyKept ==
  IInv /\ [Next]_vars =>
    [\A t \in Types :
       (ReadyCurrent(t) # {} /\ ReadyCurrent(t)' = {}) =>
         MarkFailed(t) /\ status[job[t].id] = "ready"]_vars
<1> SUFFICES ASSUME IInv, Next, NEW t \in Types, NEW a \in ReadyCurrent(t),
                    ReadyCurrent(t)' = {}
             PROVE  MarkFailed(t) /\ status[job[t].id] = "ready"
  OBVIOUS
<1>a. TypeOK /\ TableType /\ JobType /\ SaveType /\ Filled /\ JobsOwn
  BY DEF IInv, TypeOK
<1>b. a \in Ids /\ a \in current /\ status[a] = "ready" /\ kind[a] = t
  BY <1>a DEF ReadyCurrent, TableType
<1>c. ASSUME NEW b \in current', status'[b] = "ready", kind'[b] = t PROVE FALSE
  BY <1>c DEF ReadyCurrent
<1>1. CASE UNCHANGED <<current, status, kind>>
  BY <1>1, <1>b, <1>c
<1>2. ASSUME NEW u \in Types, Insert(u) PROVE FALSE
  <2>1. a # nextId /\ nextId \in Ids
    BY <1>2, <1>a, <1>b, IdFacts DEF Insert, Filled
  <2>2. a \in current' /\ status'[a] = "ready" /\ kind'[a] = t
    BY <1>2, <2>1, <1>a, <1>b DEF Insert, TableType
  <2>3. QED
    BY <2>2, <1>c
<1>3. ASSUME NEW u \in Types, job[u].pc = "commit", Promote(job[u].id), UNCHANGED lineage
      PROVE  FALSE
  <2> DEFINE b == job[u].id
  <2>1. /\ b \in Ids /\ kind[b] = u /\ UNCHANGED kind
        /\ status' = [status EXCEPT ![b] = "ready"]
        /\ current' = (current \ Demoted(b)) \cup {b}
    BY <1>3, <1>a, OwnFacts DEF Promote, lineage, Holding
  <2>2. CASE u = t
    <3>1. b \in current' /\ status'[b] = "ready" /\ kind'[b] = t
      BY <2>1, <2>2, <1>a DEF TableType
    <3>2. QED
      BY <3>1, <1>c
  <2>3. CASE u # t
    <3>1. a \in current' /\ status'[a] = "ready" /\ kind'[a] = t
      BY <2>1, <2>3, <1>a, <1>b DEF TableType, Demoted
    <3>2. QED
      BY <3>1, <1>c
  <2>4. QED
    BY <2>2, <2>3
<1>4. ASSUME NEW u \in Types, MarkFailed(u)
      PROVE  MarkFailed(t) /\ status[job[t].id] = "ready"
  <2>1. /\ UNCHANGED <<kind, current>> /\ job[u].id \in Ids /\ kind[job[u].id] = u
        /\ status' = [status EXCEPT ![job[u].id] = "failed"]
    BY <1>4, <1>a, OwnFacts DEF MarkFailed, At, Holding, lineage
  <2>2. a = job[u].id
    BY <2>1, <1>a, <1>b, <1>c DEF TableType
  <2>3. QED
    BY <1>4, <1>b, <2>1, <2>2
<1>5. ASSUME NEW s \in Savers, SaveCommit(s) PROVE FALSE
  <2>1. a \in current' /\ status'[a] = "ready" /\ kind'[a] = t
    BY <1>5, <1>a, <1>b DEF SaveCommit, lineage, TableType, SaveType
  <2>2. QED
    BY <2>1, <1>c
<1>6. QED
  BY <1>1, <1>2, <1>3, <1>4, <1>5
  DEF Next, JobStep, vars, table, lineage, LoadCatalog, Start, FanIn, Cancel, Restart, StopJobs,
      AgentFails, InsertError, FailError, SaveLoad, SetRoot, Produce, MarkReady, ReadyError, At

(***************************************************************************)
(* What was available stays available.                                     *)
(***************************************************************************)
THEOREM AvailableStays == Spec => ReadyIsNotLost
BY InvariantHolds, ReadyKept, PTL DEF Spec, ReadyIsNotLost

-----------------------------------------------------------------------------
(* The version history                                                     *)

(***************************************************************************)
(* A version is its row: two versions with one id are one row.             *)
(***************************************************************************)
LEMMA VersionFacts ==
  ASSUME NEW a
  PROVE  /\ Version(a).id = a /\ Version(a).type = kind[a] /\ Version(a).before = parent[a]
         /\ Version(a).root = root[a] /\ Version(a).rev = rev[a]
BY DEF Version

(***************************************************************************)
(* A step that changes neither the ready rows nor their lineage does not   *)
(* touch the history.                                                      *)
(***************************************************************************)
LEMMA HistoryKeptBy ==
  ASSUME \A a \in Ids : (status'[a] = "ready") <=> (status[a] = "ready"),
         \A a \in ReadyRows : /\ kind'[a] = kind[a] /\ parent'[a] = parent[a]
                             /\ root'[a] = root[a] /\ rev'[a] = rev[a]
  PROVE  Versions' = Versions
<1>1. ReadyRows' = ReadyRows
  BY DEF ReadyRows
<1>2. \A a \in ReadyRows : Version(a)' = Version(a)
  BY DEF Version
<1>3. QED
  BY <1>1, <1>2 DEF Versions

(***************************************************************************)
(* A row that becomes ready is published: its lineage is sound by then.    *)
(***************************************************************************)
LEMMA BecomingReady ==
  ASSUME IInv, LineageSound', NEW a \in Ids, UNCHANGED lineage,
         status' = [status EXCEPT ![a] = "ready"]
  PROVE  [History!Next]_Versions
<1>a. TableType
  BY DEF IInv, TypeOK
<1>1. \A b \in Ids : Version(b)' = Version(b)
  BY DEF Version, lineage
<1>2. ReadyRows' = ReadyRows \cup {a}
  BY <1>a DEF ReadyRows, TableType
<1>3. Versions' = Versions \cup {Version(a)}
  BY <1>1, <1>2 DEF ReadyRows, Versions
<1>4. CASE a \in ReadyRows
  BY <1>3, <1>4 DEF Versions
<1>5. CASE a \notin ReadyRows
  <2>1. \A b \in ReadyRows : Version(b).id # Version(a).id
    BY <1>5, VersionFacts
  <2>2. Version(a).id \in Nat \ {0}
    BY VersionFacts, IdFacts
  <2>3. CASE parent[a] = 0
    <3>1. root[a] # 0 /\ rev[root[a]] = 1
      BY <1>a DEF LineageSound, lineage, TableType
    <3>2. root[a] = a
      BY <2>3, <3>1 DEF IInv, FirstIsRoot
    <3>3. History!First(Version(a))
      BY <2>3, <3>1, <3>2, VersionFacts DEF History!First
    <3>4. History!Publish
      BY <1>3, <2>1, <2>2, <3>3 DEF History!Publish, Versions
    <3>5. QED
      BY <3>4 DEF History!Next
  <2>4. CASE parent[a] # 0
    <3> DEFINE p == parent[a]
    <3>1. /\ p < a /\ kind[p] = kind[a] /\ status[p] = "ready"
          /\ rev[a] = rev[p] + 1 /\ root[a] = root[p]
      BY <2>4 DEF IInv, LineageSound
    <3>2. p \in ReadyRows
      BY <2>4, <3>1, <1>a DEF ReadyRows, TableType
    <3>3. History!Follows(Version(a), Version(p))
      BY <3>1, VersionFacts DEF History!Follows
    <3>4. History!Publish
      BY <1>3, <2>1, <2>2, <3>2, <3>3 DEF History!Publish, Versions
    <3>5. QED
      BY <3>4 DEF History!Next
  <2>5. QED
    BY <2>3, <2>4
<1>6. QED
  BY <1>4, <1>5

(***************************************************************************)
(* A job that fails takes back at most its own row, which nothing          *)
(* continues.                                                              *)
(***************************************************************************)
LEMMA Failing ==
  ASSUME IInv, NEW t \in Types, MarkFailed(t)
  PROVE  [History!Next]_Versions
<1> DEFINE a == job[t].id
<1>a. TableType /\ TypeOK
  BY DEF IInv, TypeOK
<1>1. /\ a \in Ids /\ \A b \in Ids : parent[b] # a
      /\ status' = [status EXCEPT ![a] = "failed"] /\ UNCHANGED lineage
  BY OwnFacts, <1>a DEF MarkFailed, At, Holding, IInv
<1>2. \A b \in Ids : Version(b)' = Version(b)
  BY <1>1 DEF Version, lineage
<1>3. ReadyRows' = ReadyRows \ {a}
  BY <1>a, <1>1 DEF ReadyRows, TableType
<1>4. CASE a \notin ReadyRows
  BY <1>2, <1>3, <1>4 DEF ReadyRows, Versions
<1>5. CASE a \in ReadyRows
  <2>1. Versions' = Versions \ {Version(a)}
    <3>1. \A b \in ReadyRows : Version(b) = Version(a) => b = a
      BY VersionFacts
    <3>2. Versions' = {Version(b) : b \in ReadyRows \ {a}}
      BY <1>2, <1>3 DEF ReadyRows, Versions
    <3>3. QED
      BY <3>1, <3>2 DEF Versions
  <2>2. \A b \in ReadyRows : Version(b).before # Version(a).id
    BY <1>1, VersionFacts DEF ReadyRows
  <2>3. History!Retract
    BY <1>5, <2>1, <2>2 DEF History!Retract, Versions
  <2>4. QED
    BY <2>3 DEF History!Next
<1>6. QED
  BY <1>4, <1>5

(***************************************************************************)
(* Every step publishes, takes back or leaves the history alone.           *)
(***************************************************************************)
LEMMA HistorySteps ==
  IInv /\ LineageSound' /\ [Next]_vars => [History!Next]_Versions
<1> SUFFICES ASSUME IInv, LineageSound', [Next]_vars
             PROVE  [History!Next]_Versions
  OBVIOUS
<1>a. TypeOK /\ TableType /\ JobType /\ SaveType
  BY DEF IInv, TypeOK
<1>1. CASE UNCHANGED <<status, lineage>>
  BY <1>1, HistoryKeptBy DEF lineage
<1>2. ASSUME NEW t \in Types, Insert(t) PROVE UNCHANGED Versions
  <2>1. /\ nextId \in Ids /\ status[nextId] = "none"
        /\ status' = [status EXCEPT ![nextId] = "running"]
    BY <1>2, IdFacts DEF Insert, IInv, Filled
  <2>2. \A b \in Ids \ {nextId} : /\ kind'[b] = kind[b] /\ parent'[b] = parent[b]
                                  /\ root'[b] = root[b] /\ rev'[b] = rev[b]
    BY <1>2, <1>a DEF Insert, TableType
  <2>3. \A b \in Ids : (status'[b] = "ready") <=> (status[b] = "ready")
    BY <2>1, <1>a DEF TableType
  <2>4. nextId \notin ReadyRows
    BY <2>1 DEF ReadyRows
  <2>5. QED
    BY <2>2, <2>3, <2>4, HistoryKeptBy DEF ReadyRows
<1>3. ASSUME NEW t \in Types, SetRoot(t) PROVE UNCHANGED Versions
  <2> DEFINE a == job[t].id
  <2>1. a \in Ids /\ root[a] = 0 /\ root' = [root EXCEPT ![a] = a]
    BY <1>3, <1>a, OwnFacts DEF SetRoot, At, Holding, IInv
  <2>2. a \notin ReadyRows
    BY <2>1 DEF IInv, Rooted, ReadyRows
  <2>3. UNCHANGED <<kind, status, parent, rev>>
    BY <1>3 DEF SetRoot
  <2>4. \A b \in ReadyRows : root'[b] = root[b]
    BY <2>1, <2>2, <1>a DEF ReadyRows, TableType
  <2>5. QED
    BY <2>3, <2>4, HistoryKeptBy
<1>4. ASSUME NEW t \in Types, At(t, "commit"), Promote(job[t].id), UNCHANGED lineage
      PROVE  [History!Next]_Versions
  <2>1. job[t].id \in Ids
    BY <1>4, <1>a DEF At, JobType, Holding
  <2>2. QED
    BY <1>4, <2>1, BecomingReady DEF Promote
<1>5. ASSUME NEW s \in Savers, SaveCommit(s)
      PROVE  [History!Next]_Versions
  <2>1. save[s].id \in Ids
    BY <1>5, <1>a DEF SaveCommit, SaveType, TableType
  <2>2. CASE status' = status
    BY <1>1, <1>5, <2>2 DEF SaveCommit
  <2>3. CASE status' = [status EXCEPT ![save[s].id] = "ready"]
    BY <1>5, <2>1, <2>3, BecomingReady DEF SaveCommit
  <2>4. QED
    BY <1>5, <2>2, <2>3 DEF SaveCommit
<1>6. ASSUME NEW t \in Types, ReadyError(t)
      PROVE  [History!Next]_Versions
  BY <1>1, <1>4, <1>6 DEF ReadyError
<1>7. ASSUME NEW t \in Types, MarkReady(t)
      PROVE  [History!Next]_Versions
  BY <1>4, <1>7 DEF MarkReady
<1>8. QED
  BY <1>1, <1>2, <1>3, <1>5, <1>6, <1>7, Failing
  DEF Next, JobStep, vars, table, lineage, LoadCatalog, Start, FanIn, Cancel, Restart, StopJobs,
      Produce, AgentFails, InsertError, FailError, SaveLoad

(***************************************************************************)
(* The table implements VersionHistory.                                    *)
(***************************************************************************)
THEOREM HistoryKept == Spec => KeepsHistory
<1>1. Init => History!Init
  BY DEF Init, History!Init, ReadyRows, Versions
<1>2. IInv /\ LineageSound' /\ [Next]_vars => [History!Next]_Versions
  BY HistorySteps
<1>3. IInv => LineageSound
  BY DEF IInv
<1>4. QED
  BY <1>1, <1>2, <1>3, InvariantHolds, PTL DEF Spec, KeepsHistory, History!Spec

(***************************************************************************)
(* Publishing and taking back keep the versions chained.                   *)
(***************************************************************************)
LEMMA ChainedStep == History!Chained /\ [History!Next]_Versions => History!Chained'
<1> SUFFICES ASSUME History!Chained, [History!Next]_Versions PROVE History!Chained'
  OBVIOUS
<1> USE DEF History!Chained, History!First, History!Follows
<1>1. CASE Versions' = Versions
  BY <1>1
<1>2. CASE History!Publish
  <2>1. PICK v \in Versions' :
          /\ Versions' = Versions \cup {v}
          /\ v.id \in Nat \ {0}
          /\ \A u \in Versions : u.id # v.id
          /\ History!First(v) \/ \E u \in Versions : History!Follows(v, u)
    BY <1>2 DEF History!Publish
  <2>2. \A w \in Versions' : History!First(w) \/ \E u \in Versions' : History!Follows(w, u)
    BY <2>1
  <2>3. QED
    BY <2>1, <2>2
<1>3. CASE History!Retract
  <2>1. PICK v \in Versions : Versions' = Versions \ {v} /\ \A u \in Versions : u.before # v.id
    BY <1>3 DEF History!Retract
  <2>2. \A w \in Versions' : History!First(w) \/ \E u \in Versions' : History!Follows(w, u)
    BY <2>1
  <2>3. QED
    BY <2>1, <2>2
<1>4. QED
  BY <1>1, <1>2, <1>3 DEF History!Next

(***************************************************************************)
(* A set of naturals that is not empty has a least element: with it an     *)
(* induction is an argument about the least counterexample.                *)
(***************************************************************************)
LEMMA LeastElement ==
  ASSUME NEW S \in SUBSET Nat, S # {}
  PROVE  \E n \in S : \A m \in S : n <= m
<1> DEFINE R == {p \in Nat \X Nat : p[1] < p[2]}
<1>1. OpToRel(<, Nat) = R
  BY DEF OpToRel
<1>2. IsWellFoundedOn(R, Nat)
  BY <1>1, NatLessThanWellFounded
<1>3. ASSUME NEW m \in Nat, NEW n \in Nat PROVE <<m, n>> \in R <=> m < n
  <2>1. <<m, n>>[1] = m /\ <<m, n>>[2] = n /\ <<m, n>> \in Nat \X Nat
    OBVIOUS
  <2>2. QED
    BY <2>1
<1> HIDE DEF R
<1>4. PICK n \in S : \A m \in S : ~ (<<m, n>> \in R)
  BY <1>2, WFMin
<1>5. ASSUME NEW m \in S PROVE n <= m
  <2>1. m \in Nat /\ n \in Nat
    OBVIOUS
  <2>2. ~ (m < n)
    BY <1>3, <1>4, <2>1
  <2>3. QED
    BY <2>1, <2>2
<1>6. QED
  BY <1>5

(***************************************************************************)
(* Chained versions lead back to their first one: the least version that   *)
(* does not would have a predecessor that does.                            *)
(***************************************************************************)
LEMMA ChainsArrive == History!Chained => History!OriginsRemain
<1> SUFFICES ASSUME History!Chained PROVE History!OriginsRemain
  OBVIOUS
<1> USE DEF History!Chained, History!First, History!Follows
<1> DEFINE Arrives(v) == \E u \in Versions : History!First(u) /\ u.id = v.root /\ u.type = v.type
           Adrift == {v.id : v \in {w \in Versions : ~ Arrives(w)}}
<1>1. SUFFICES ASSUME Adrift # {} PROVE FALSE
  BY DEF History!OriginsRemain
<1>2. Adrift \subseteq Nat
  OBVIOUS
<1>3. PICK n \in Adrift : \A m \in Adrift : n <= m
  BY <1>1, <1>2, LeastElement
<1>4. PICK v \in Versions : v.id = n /\ ~ Arrives(v)
  OBVIOUS
<1>5. CASE History!First(v)
  BY <1>4, <1>5
<1>6. CASE \E u \in Versions : History!Follows(v, u)
  <2>1. PICK u \in Versions : u.id < v.id /\ v.root = u.root /\ v.type = u.type
    BY <1>6
  <2>2. Arrives(u)
    <3>1. u.id \in Nat /\ v.id \in Nat /\ ~ (n <= u.id)
      BY <1>4, <2>1
    <3>2. u.id \notin Adrift
      BY <1>3, <3>1
    <3>3. QED
      BY <3>2
  <2>3. QED
    BY <1>4, <2>1, <2>2
<1>7. QED
  BY <1>5, <1>6

(***************************************************************************)
(* From the promise of VersionHistory: every ready row leads back to a     *)
(* first version that is still ready, so each history can be followed and  *)
(* its origin opened.                                                      *)
(***************************************************************************)
THEOREM OriginsStay == Spec => []History!OriginsRemain
<1>1. History!Init => History!Chained
  BY DEF History!Init, History!Chained
<1>2. History!Chained /\ [History!Next]_Versions => History!Chained'
  BY ChainedStep
<1>3. History!Chained => History!OriginsRemain
  BY ChainsArrive
<1>4. QED
  BY <1>1, <1>2, <1>3, HistoryKept, PTL DEF KeepsHistory, History!Spec

-----------------------------------------------------------------------------
(* The contract with the conversation graph                                *)

(***************************************************************************)
(* A fan-out that ends without a word, or with the results of all jobs.    *)
(***************************************************************************)
LEMMA EndOfFanOut ==
  ASSUME IInv, turn \in {"create", "revise"}, turn' = "idle",
         job' = [t \in Types |-> NoJob], UNCHANGED catalog,
         \/ Known' = Known
         \/ /\ Known' \in [Types -> {"pending", "ready", "failed"}]
            /\ \A t \in Types : IF t \in UnderWay THEN Known'[t] # "pending"
                                                   ELSE Known'[t] = Known[t]
  PROVE  FanOut!Next
<1>1. Mode = turn /\ Mode' = "none" /\ UnderWay' = {} /\ Offered' = Offered
  BY DEF Mode, UnderWay, Offered, NoJob
<1>2. FanOut!Settle \/ FanOut!Abort
  BY <1>1 DEF FanOut!Settle, FanOut!Abort, FanOut!Stop, FanOut!Modes
<1>3. QED
  BY <1>2 DEF FanOut!Next

(***************************************************************************)
(* The step of a job is not seen by the graph.                             *)
(***************************************************************************)
LEMMA JobUnseen ==
  ASSUME NEW t \in Types, job[t].pc # "idle", job'[t].pc # "idle", UNCHANGED <<turn, catalog>>,
         \A u \in Types \ {t} : job'[u] = job[u] /\ result'[u] = result[u]
  PROVE  UNCHANGED FanOut!vars
<1>1. UnderWay' = UnderWay /\ Mode' = Mode /\ Offered' = Offered
  BY DEF UnderWay, Mode, Offered
<1>2. Known' = Known
  BY DEF Known
<1>3. QED
  BY <1>1, <1>2 DEF FanOut!vars

(***************************************************************************)
(* Every step offers, starts, settles, aborts, or is not seen.             *)
(***************************************************************************)
LEMMA ContractSteps == IInv /\ [Next]_vars => [FanOut!Next]_(FanOut!vars)
<1> SUFFICES ASSUME IInv, [Next]_vars PROVE [FanOut!Next]_(FanOut!vars)
  OBVIOUS
<1>a. TypeOK /\ JobType /\ TurnType /\ JobsInTurn /\ Outcomes
  BY DEF IInv, TypeOK
<1>1. CASE UNCHANGED <<turn, catalog, job, result>>
  BY <1>1 DEF FanOut!vars, Offered, Mode, UnderWay, Known
<1>2. CASE LoadCatalog
  <2>1. Mode = "none" /\ Mode' = "none" /\ Offered' \in SUBSET Types
    BY <1>2 DEF LoadCatalog, Mode, Offered
  <2>2. UNCHANGED <<UnderWay, Known>>
    BY <1>2 DEF LoadCatalog, UnderWay, Known
  <2>3. QED
    BY <2>1, <2>2 DEF FanOut!Offer, FanOut!Next
<1>3. ASSUME NEW mode \in {"create", "revise"}, NEW selected \in (SUBSET Types) \ {{}},
             Start(mode, selected)
      PROVE  FanOut!Next
  <2>1. \A t \in Types : job[t].pc = "idle"
    BY <1>3, <1>a DEF Start, JobsInTurn
  <2>2. \A t \in Types : job'[t].pc = IF t \in selected THEN "insert" ELSE "idle"
    BY <1>3 DEF Start, NoJob
  <2>3. UnderWay = {} /\ UnderWay' = selected
    BY <2>1, <2>2 DEF UnderWay
  <2>4. Known' = [t \in Types |-> IF t \in selected THEN "pending" ELSE Known[t]]
    BY <1>3, <2>1, <2>2 DEF Start, Known
  <2>5. Mode = "none" /\ Mode' = mode /\ Offered' = Offered
    BY <1>3 DEF Start, Mode, Offered
  <2>6. mode = "revise" => selected \subseteq Offered
    BY <1>3 DEF Start, Offered
  <2>7. FanOut!Start
    BY <2>3, <2>4, <2>5, <2>6 DEF FanOut!Start, FanOut!Modes
  <2>8. QED
    BY <2>7 DEF FanOut!Next
<1>4. CASE FanIn
  <2>1. /\ turn \in {"create", "revise"} /\ turn' = "idle" /\ UNCHANGED <<catalog, result>>
        /\ job' = [t \in Types |-> NoJob]
        /\ \A t \in Types : job[t].pc \in {"idle", "done"}
    BY <1>4 DEF FanIn
  <2>2. Known' = result
    BY <2>1, <1>a DEF Known, NoJob, TurnType
  <2>3. \A t \in Types : IF t \in UnderWay THEN Known'[t] # "pending" ELSE Known'[t] = Known[t]
    BY <2>1, <2>2, <1>a DEF UnderWay, Known, Outcomes
  <2>4. QED
    BY <2>1, <2>2, <2>3, <1>a, EndOfFanOut DEF TurnType, Results
<1>5. CASE StopJobs
  <2>1. Known' = Known
    BY <1>5 DEF StopJobs, Known, NoJob
  <2>2. QED
    BY <1>5, <2>1, EndOfFanOut DEF StopJobs
<1>6. ASSUME NEW t \in Types, NEW p \in JobPcs \ {"idle"}, Goto(t, p)
      PROVE  job'[t].pc # "idle" /\ \A u \in Types \ {t} : job'[u] = job[u]
  <2>1. job[t] \in [pc : JobPcs, id : Ids \cup {0}]
    BY <1>a DEF JobType
  <2>2. QED
    BY <1>6, <2>1, <1>a DEF Goto, JobType
<1>7. ASSUME NEW t \in Types, Insert(t) PROVE UNCHANGED FanOut!vars
  <2>1. PICK p \in {"root", "work"} : job' = [job EXCEPT ![t] = [pc |-> p, id |-> nextId]]
    BY <1>7 DEF Insert
  <2>2. job[t].pc # "idle" /\ job'[t].pc # "idle" /\ \A u \in Types \ {t} : job'[u] = job[u]
    BY <1>7, <2>1, <1>a DEF Insert, At, JobType
  <2>3. QED
    BY <1>7, <2>2, JobUnseen DEF Insert, Running
<1>8. ASSUME NEW t \in Types, SetRoot(t) \/ Produce(t) \/ AgentFails(t) \/ ReadyError(t)
      PROVE  UNCHANGED FanOut!vars
  <2>1. PICK p \in {"work", "commit", "fail"} : Goto(t, p)
    BY <1>8 DEF SetRoot, Produce, AgentFails, ReadyError
  <2>2. job'[t].pc # "idle" /\ \A u \in Types \ {t} : job'[u] = job[u]
    BY <1>6, <2>1 DEF JobPcs
  <2>3. job[t].pc # "idle" /\ UNCHANGED <<turn, catalog, result>>
    BY <1>8 DEF SetRoot, Produce, AgentFails, ReadyError, Running, At
  <2>4. QED
    BY <2>2, <2>3, JobUnseen
<1>9. ASSUME NEW t \in Types, MarkReady(t) \/ MarkFailed(t) \/ InsertError(t)
      PROVE  UNCHANGED FanOut!vars
  <2>1. PICK r \in {"ready", "failed"} : Finish(t, r)
    BY <1>9 DEF MarkReady, MarkFailed, InsertError
  <2>2. job'[t].pc # "idle" /\ \A u \in Types \ {t} : job'[u] = job[u]
    BY <1>6, <2>1 DEF JobPcs, Finish
  <2>3. \A u \in Types \ {t} : result'[u] = result[u]
    BY <2>1, <1>a DEF Finish, TurnType
  <2>4. job[t].pc # "idle" /\ UNCHANGED <<turn, catalog>>
    BY <1>9 DEF MarkReady, MarkFailed, InsertError, Running, At
  <2>5. QED
    BY <2>2, <2>3, <2>4, JobUnseen
<1>10. QED
  BY <1>1, <1>2, <1>3, <1>4, <1>5, <1>7, <1>8, <1>9
  DEF Next, JobStep, vars, Cancel, Restart, FailError, SaveLoad, SaveCommit

(***************************************************************************)
(* The jobs, in whatever order they run and fail, implement ArtifactFanOut *)
(* - the one step in which the conversation graph runs them.               *)
(***************************************************************************)
THEOREM JobsKeepContract == Spec => KeepsContract
<1>1. Init => FanOut!Init
  BY DEF Init, FanOut!Init, Offered, Mode, UnderWay, Known, NoJob
<1>2. QED
  BY <1>1, ContractSteps, InvariantHolds, PTL DEF Spec, KeepsContract, FanOut!Spec

=============================================================================
