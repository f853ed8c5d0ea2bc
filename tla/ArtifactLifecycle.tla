------------------------- MODULE ArtifactLifecycle -------------------------
(***************************************************************************)
(* The generated artifacts of one conversation thread: their rows          *)
(* (app/services/artifact_service.py), the jobs that create and revise     *)
(* them (AgentRuntime._run_artifact_job, app/core/agent.py) and the        *)
(* ONLYOFFICE saves of their documents (app/api/file.py).                  *)
(*                                                                         *)
(* A turn of the conversation runs one job per selected type, in parallel, *)
(* and ends when all of them have; turns of a thread never overlap.  An    *)
(* action is the code between two awaits that matter: a commit, the run of *)
(* the nested agent.  A cancelled turn or a restart stops every job where  *)
(* it stands.                                                              *)
(***************************************************************************)
EXTENDS Naturals, FiniteSets

CONSTANTS
  Types,         \* artifact types: ppt, docx, html-game
  MaxArtifacts,  \* rows the table can take (bounds the model)
  Savers,        \* ONLYOFFICE save requests, each issued at most once
  DbMayFail      \* whether a commit or a refresh may raise

ASSUME ArtifactsAssumption == MaxArtifacts \in Nat

VARIABLES
  kind,     \* ArtifactFile.artifact_type, fixed when the row is inserted
  status,   \* ArtifactFile.status; "none" before the row exists
  current,  \* the rows with is_current
  parent,   \* ArtifactFile.parent_artifact_id; 0 for None
  root,     \* ArtifactFile.root_artifact_id; 0 for None
  rev,      \* ArtifactFile.revision_number
  stored,   \* the rows whose output is in the object storage
  nextId,   \* the table's id sequence
  turn,     \* the running turn: "idle", "loaded", "create" or "revise"
  catalog,  \* artifact_catalog of the turn: an id per type, 0 for none
  job,      \* the artifact jobs
  result,   \* ppt_result, lesson_plan_result, game_result
  save,     \* the save handlers
  lost,     \* history: rows whose job stopped, or whose insertion raised, before
            \*          the job could settle them
  orphans   \* history: rows stored but not (or not yet) left ready by their job

table   == <<kind, status, current, parent, root, rev, stored, nextId>>
lineage == <<kind, parent, root, rev>>
vars    == <<table, turn, catalog, job, result, save, lost, orphans>>

Ids      == 1 .. MaxArtifacts
Statuses == {"none", "running", "ready", "failed"}
\* "work" is from the refresh after the last commit of the insertion, which
\* hands the row to the job, to the end of the agent's run.
JobPcs   == {"idle", "insert", "root", "work", "commit", "fail", "done"}
Results  == {"pending", "ready", "failed"}

NoJob == [pc |-> "idle", id |-> 0]

\* The points at which a job has a row in hand.
Holding == {"root", "work", "commit", "fail"}

TableType ==
  /\ kind    \in [Ids -> Types \cup {"none"}]
  /\ status  \in [Ids -> Statuses]
  /\ current \in SUBSET Ids
  /\ parent  \in [Ids -> Ids \cup {0}]
  /\ root    \in [Ids -> Ids \cup {0}]
  /\ rev     \in [Ids -> Nat]
  /\ stored  \in SUBSET Ids
  /\ nextId  \in 1 .. MaxArtifacts + 1

TurnType ==
  /\ turn    \in {"idle", "loaded", "create", "revise"}
  /\ catalog \in [Types -> Ids \cup {0}]
  /\ result  \in [Types -> Results]

JobType ==
  /\ job \in [Types -> [pc : JobPcs, id : Ids \cup {0}]]
  /\ \A t \in Types : job[t].pc \in Holding => job[t].id \in Ids
  /\ \A t \in Types : (turn = "revise" /\ job[t].pc = "insert") => catalog[t] \in Ids

SaveType ==
  /\ save \in [Savers -> [pc : {"new", "commit", "ended"}, id : Ids \cup {0},
                          seen : Statuses]]
  /\ \A s \in Savers : save[s].pc = "commit" => save[s].id \in stored

HistoryType == lost \in SUBSET Ids /\ orphans \in SUBSET Ids

\* Every variable has its type, and whoever works on a row has one in hand.
TypeOK == TableType /\ TurnType /\ JobType /\ SaveType /\ HistoryType

-----------------------------------------------------------------------------
(* Turns                                                                   *)

\* list_ready_current_artifacts_by_thread, for one type.
ReadyCurrent(t) == {a \in current : status[a] = "ready" /\ kind[a] = t}

\* A fresh input puts the latest ready current artifact of each type into
\* the catalog; by updated_at, which the model leaves open when a type has
\* more than one.  The answer to a pending interrupt keeps the catalog, and
\* the turn before may have ended without artifacts.
LoadCatalog ==
  /\ turn \in {"idle", "loaded"}
  /\ turn' = "loaded"
  /\ catalog' \in [Types -> Ids \cup {0}]
  /\ \A t \in Types : IF ReadyCurrent(t) = {} THEN catalog'[t] = 0
                                              ELSE catalog'[t] \in ReadyCurrent(t)
  /\ UNCHANGED <<table, job, result, save, lost, orphans>>

\* The graph fans out to the nodes of the selected types, resetting their
\* results; a revision selects types from the catalog.
Start(mode, selected) ==
  /\ turn = "loaded"
  /\ turn' = mode
  /\ mode = "revise" => \A t \in selected : catalog[t] # 0
  /\ job' = [t \in Types |-> IF t \in selected THEN [NoJob EXCEPT !.pc = "insert"] ELSE NoJob]
  /\ result' = [t \in Types |-> IF t \in selected THEN "pending" ELSE result[t]]
  /\ UNCHANGED <<table, catalog, save, lost, orphans>>

\* Mutant: the fan-in runs when the first job returns.
FanInEarly ==
  /\ turn \in {"create", "revise"}
  /\ \E t \in Types : job[t].pc = "done"
  /\ turn' = "idle"
  /\ job' = [t \in Types |-> NoJob]
  /\ UNCHANGED <<table, catalog, result, save, lost, orphans>>

\* artifact_fan_in_node runs once every job has returned.
FanIn ==
  /\ turn \in {"create", "revise"}
  /\ \A t \in Types : job[t].pc \in {"idle", "done"}
  /\ turn' = "idle"
  /\ job' = [t \in Types |-> NoJob]
  /\ UNCHANGED <<table, catalog, result, save, lost, orphans>>

\* Rows some job has in hand.
Held(t) == {a \in Ids : a = job[t].id /\ job[t].pc \in Holding}

\* The turn is cancelled, or fails: every job stops where it is, and of a
\* fan-out that did not end no result reaches the checkpoint.
StopJobs ==
  /\ turn \in {"create", "revise"}
  /\ turn' = "idle"
  /\ job' = [t \in Types |-> NoJob]
  /\ result' = [t \in Types |-> IF job[t].pc = "idle" THEN result[t] ELSE "pending"]
  /\ lost' = lost \cup UNION {Held(t) : t \in Types}
  /\ UNCHANGED <<table, catalog, orphans>>

Cancel == StopJobs /\ UNCHANGED save

\* An interrupt that waits is answered after the restart with the catalog it
\* was asked with.
Restart ==
  /\ \/ StopJobs
     \/ turn \in {"idle", "loaded"} /\ UNCHANGED <<table, turn, catalog, job, result, lost, orphans>>
  /\ save' = [s \in Savers |-> IF save[s].pc = "commit" THEN [save[s] EXCEPT !.pc = "ended"]
                                                        ELSE save[s]]

-----------------------------------------------------------------------------
(* Jobs: _run_artifact_job                                                 *)

At(t, p)        == job[t].pc = p
Goto(t, p)      == job' = [job EXCEPT ![t].pc = p]
Finish(t, r)    == Goto(t, "done") /\ result' = [result EXCEPT ![t] = r]
Running         == UNCHANGED <<turn, catalog, save>>

\* Mutant: every revision starts a history of its own source.
SourceAsRoot(source) == source

\* create_revision_artifact: source.root_artifact_id or source.id
RootOf(source) == IF root[source] # 0 THEN root[source] ELSE source

\* create_running_artifact up to its first commit.  A row without a parent
\* is current at once; create_revision_artifact names parent and root.
Insert(t) ==
  /\ At(t, "insert")
  /\ nextId \in Ids
  /\ nextId' = nextId + 1
  /\ kind' = [kind EXCEPT ![nextId] = t]
  /\ status' = [status EXCEPT ![nextId] = "running"]
  /\ \/ /\ turn = "create"
        /\ current' = current \cup {nextId}
        /\ rev' = [rev EXCEPT ![nextId] = 1]
        /\ job' = [job EXCEPT ![t] = [pc |-> "root", id |-> nextId]]
        /\ UNCHANGED <<parent, root>>
     \/ LET source == catalog[t]
        IN /\ turn = "revise"
           /\ parent' = [parent EXCEPT ![nextId] = source]
           /\ root' = [root EXCEPT ![nextId] = RootOf(source)]
           /\ rev' = [rev EXCEPT ![nextId] = rev[source] + 1]
           /\ job' = [job EXCEPT ![t] = [pc |-> "work", id |-> nextId]]
           /\ UNCHANGED current
  /\ Running
  /\ UNCHANGED <<stored, result, lost, orphans>>

\* The second commit of a row without a parent: it is its own root.
SetRoot(t) ==
  /\ At(t, "root")
  /\ root' = [root EXCEPT ![job[t].id] = job[t].id]
  /\ Goto(t, "work")
  /\ Running
  /\ UNCHANGED <<kind, status, current, parent, rev, stored, nextId, result, lost, orphans>>

\* Workspace and agent run; mark_artifact_ready stores the output it finds.
Produce(t) ==
  /\ At(t, "work")
  /\ stored' = stored \cup {job[t].id}
  /\ orphans' = orphans \cup {job[t].id}
  /\ Goto(t, "commit")
  /\ Running
  /\ UNCHANGED <<lineage, status, current, nextId, result, lost>>

\* Mutant: the failure is reported to the graph only.
AgentFailsUnmarked(t) ==
  /\ At(t, "work")
  /\ Finish(t, "failed")
  /\ Running
  /\ UNCHANGED <<table, lost, orphans>>

\* The workspace, the agent or the storage raises, or no output is found.
AgentFails(t) ==
  /\ At(t, "work")
  /\ Goto(t, "fail")
  /\ Running
  /\ UNCHANGED <<table, result, lost, orphans>>

\* Mutants: only the revised row is demoted; the type is not looked at.
DemotedSource(a) == {b \in current : b = parent[a]}
DemotedAll(a)    == current \ {a}

\* The rows mark_artifact_ready demotes.
Demoted(a) == {b \in current \ {a} : kind[b] = kind[a]}

\* Mutant: a demoted version no longer counts as ready.
Supersede(a) ==
  /\ status' = [b \in Ids |-> IF b = a THEN "ready"
                             ELSE IF b \in Demoted(a) THEN "failed" ELSE status[b]]
  /\ current' = (current \ Demoted(a)) \cup {a}

\* Mutant: the demotion without the promotion.
DemoteOnly(a) ==
  /\ status' = [status EXCEPT ![a] = "ready"]
  /\ current' = current \ Demoted(a)

\* Its one commit demotes them and promotes the artifact.
Promote(a) ==
  /\ status' = [status EXCEPT ![a] = "ready"]
  /\ current' = (current \ Demoted(a)) \cup {a}

MarkReady(t) ==
  /\ At(t, "commit")
  /\ Promote(job[t].id)
  /\ orphans' = orphans \ {job[t].id}
  /\ Finish(t, "ready")
  /\ Running
  /\ UNCHANGED <<lineage, stored, nextId, lost>>

\* The except clause: mark_artifact_failed leaves is_current alone.
MarkFailed(t) ==
  /\ At(t, "fail")
  /\ status' = [status EXCEPT ![job[t].id] = "failed"]
  /\ Finish(t, "failed")
  /\ Running
  /\ UNCHANGED <<lineage, current, stored, nextId, lost, orphans>>

-----------------------------------------------------------------------------
(* Database errors                                                         *)

\* create_running_artifact raises, at a commit or at the refresh after one:
\* the job has no record to mark as failed, even when the row is already
\* there.
InsertError(t) ==
  /\ DbMayFail
  /\ job[t].pc \in {"insert", "root", "work"}
  /\ Finish(t, "failed")
  /\ lost' = lost \cup Held(t)
  /\ Running
  /\ UNCHANGED <<table, orphans>>

\* mark_artifact_ready raises at its commit, or at the refresh after it.
ReadyError(t) ==
  /\ DbMayFail
  /\ At(t, "commit")
  /\ UNCHANGED <<status, current>> \/ Promote(job[t].id)
  /\ Goto(t, "fail")
  /\ Running
  /\ UNCHANGED <<lineage, stored, nextId, result, lost, orphans>>

\* mark_artifact_failed raises: the node fails and takes the turn with it.
FailError(t) ==
  /\ DbMayFail
  /\ At(t, "fail")
  /\ StopJobs
  /\ UNCHANGED save

-----------------------------------------------------------------------------
(* _save_onlyoffice_file, file_kind "artifact".  The editor can only save  *)
(* a document it could load; the status is not looked at.                  *)

SaveLoad(s, a) ==
  /\ save[s].pc = "new"
  /\ a \in stored
  /\ save' = [save EXCEPT ![s] = [pc |-> "commit", id |-> a, seen |-> status[a]]]
  /\ UNCHANGED <<table, turn, catalog, job, result, lost, orphans>>

\* The row is written only where it differs from what was loaded.
SaveCommit(s) ==
  /\ save[s].pc = "commit"
  /\ status' = IF save[s].seen = "ready" THEN status
               ELSE [status EXCEPT ![save[s].id] = "ready"]
  /\ save' = [save EXCEPT ![s].pc = "ended"]
  /\ UNCHANGED <<lineage, current, stored, nextId, turn, catalog, job, result, lost, orphans>>

-----------------------------------------------------------------------------
(* The specification                                                       *)

Init ==
  /\ kind = [a \in Ids |-> "none"]
  /\ status = [a \in Ids |-> "none"]
  /\ current = {}
  /\ parent = [a \in Ids |-> 0]
  /\ root = [a \in Ids |-> 0]
  /\ rev = [a \in Ids |-> 0]
  /\ stored = {}
  /\ nextId = 1
  /\ turn = "idle"
  /\ catalog = [t \in Types |-> 0]
  /\ job = [t \in Types |-> NoJob]
  /\ result = [t \in Types |-> "pending"]
  /\ save = [s \in Savers |-> [pc |-> "new", id |-> 0, seen |-> "none"]]
  /\ lost = {}
  /\ orphans = {}

JobStep(t) ==
  \/ Insert(t) \/ SetRoot(t) \/ Produce(t) \/ AgentFails(t)
  \/ MarkReady(t) \/ MarkFailed(t)

Next ==
  \/ LoadCatalog
  \/ \E mode \in {"create", "revise"}, selected \in (SUBSET Types) \ {{}} : Start(mode, selected)
  \/ \E t \in Types : JobStep(t) \/ InsertError(t) \/ ReadyError(t) \/ FailError(t)
  \/ FanIn \/ Cancel \/ Restart
  \/ \E s \in Savers : SaveCommit(s) \/ \E a \in Ids : SaveLoad(s, a)

Spec == Init /\ [][Next]_vars

\* asyncio resumes the jobs, and the nested agent returns: its iterations,
\* its tools and its model calls are all bounded.
FairSpec == Spec /\ \A t \in Types : WF_vars(JobStep(t))

-----------------------------------------------------------------------------
(* Properties                                                              *)

(***************************************************************************)
(* The catalog of a turn has one version of an artifact to choose from: of *)
(* each type at most one row is ready and current, whatever jobs fail, are *)
(* cancelled or race with saves.  Excused are orphans: a save makes them   *)
(* ready although their job did not.                                       *)
(***************************************************************************)
OneReadyCurrent ==
  \A a, b \in current \ orphans :
    (status[a] = "ready" /\ status[b] = "ready" /\ kind[a] = kind[b]) => a = b

(***************************************************************************)
(* A version history can be followed: a revision continues the row it was  *)
(* made from, which is ready and of the same type, carries its root and    *)
(* the next revision number; the root of a ready row is the first version. *)
(***************************************************************************)
LineageSound ==
  \A a \in Ids :
    /\ parent[a] # 0 =>
         LET p == parent[a]
         IN /\ p < a /\ kind[p] = kind[a] /\ status[p] = "ready"
            /\ rev[a] = rev[p] + 1 /\ root[a] = root[p] /\ root[p] # 0
    /\ status[a] = "ready" => /\ root[a] # 0
                              /\ root[root[a]] = root[a]
                              /\ rev[root[a]] = 1

(***************************************************************************)
(* The result a finished job reports to the graph is what the table says:  *)
(* "ready" means its row is the ready current one.                         *)
(***************************************************************************)
ResultsAreTrue ==
  \A t \in Types :
    (At(t, "done") /\ result[t] = "ready") =>
      /\ job[t].id \in current
      /\ status[job[t].id] = "ready"
      /\ kind[job[t].id] = t

(***************************************************************************)
(* No spinner turns for ever unnoticed: a row that says "running" has a    *)
(* job that will settle it, unless its job was stopped, or its insertion   *)
(* raised after a commit, so that the job never had the row.               *)
(***************************************************************************)
RunningIsOwned ==
  \A a \in Ids \ lost : status[a] = "running" => \E t \in Types : a \in Held(t)

(***************************************************************************)
(* What was available stays available: a step that leaves a type without a *)
(* ready current artifact is a job failing after its own artifact became   *)
(* ready.                                                                  *)
(***************************************************************************)
ReadyIsNotLost ==
  [][\A t \in Types :
       (ReadyCurrent(t) # {} /\ ReadyCurrent(t)' = {}) =>
         MarkFailed(t) /\ status[job[t].id] = "ready"]_vars

(***************************************************************************)
(* The ready rows keep the promise of VersionHistory: whatever fails, is   *)
(* stopped or saved, lineages never change, and a version that others      *)
(* continue is never taken back.                                           *)
(***************************************************************************)
Version(a) == [id |-> a, type |-> kind[a], before |-> parent[a], root |-> root[a], rev |-> rev[a]]

ReadyRows == {a \in Ids : status[a] = "ready"}

Versions == {Version(a) : a \in ReadyRows}

History == INSTANCE VersionHistory WITH history <- Versions

KeepsHistory == History!Spec

(***************************************************************************)
(* The jobs keep their part of the contract with the graph: their results  *)
(* arrive together, and none of a fan-out that was stopped.                *)
(***************************************************************************)
Offered  == {t \in Types : catalog[t] # 0}
Mode     == IF turn \in {"create", "revise"} THEN turn ELSE "none"
UnderWay == {t \in Types : job[t].pc # "idle"}
Known    == [t \in Types |-> IF job[t].pc = "idle" THEN result[t] ELSE "pending"]

FanOut == INSTANCE ArtifactFanOut WITH
            catalog <- Offered, mode <- Mode, jobs <- UnderWay, results <- Known

KeepsContract == FanOut!Spec

(***************************************************************************)
(* A job that is not stopped settles its row.                              *)
(***************************************************************************)
RunningSettles ==
  \A a \in Ids : status[a] = "running" ~> (status[a] # "running" \/ a \in lost)

-----------------------------------------------------------------------------
(* The inductive invariant behind the safety properties                    *)

\* The table is filled in the order of its ids.
Filled ==
  /\ \A a \in Ids : a >= nextId => /\ status[a] = "none"
                                   /\ root[a] = 0 /\ parent[a] = 0
                                   /\ a \notin current \cup stored
  /\ \A a \in Ids : status[a] = "none" => a >= nextId

\* Jobs run only within a turn.
JobsInTurn == turn \in {"idle", "loaded"} => \A t \in Types : job[t].pc = "idle"

\* A job that is done has an outcome, and a fan-out has jobs.
Outcomes ==
  /\ \A t \in Types : job[t].pc = "done" => result[t] # "pending"
  /\ turn \in {"create", "revise"} => \E t \in Types : job[t].pc # "idle"

\* A root is a first version; a stored row has one, and a ready row is stored.
Rooted ==
  /\ \A a \in Ids : root[a] # 0 => root[root[a]] = root[a] /\ rev[root[a]] = 1
  /\ \A a \in Ids : status[a] = "ready" => a \in stored
  /\ \A a \in stored : root[a] # 0
  /\ \A a \in stored \ orphans : status[a] = "ready"

\* A row without a predecessor is its own root once it has one.
FirstIsRoot == \A a \in Ids : parent[a] = 0 => root[a] \in {0, a}

\* The catalog of the last turn still names ready rows of the right type.
CatalogReady ==
  \A t \in Types : catalog[t] # 0 => status[catalog[t]] = "ready" /\ kind[catalog[t]] = t

\* A job's row is its own: of its type, not yet revised, not in the catalog.
JobsOwn ==
  \A t \in Types : \A a \in Held(t) :
    /\ a < nextId /\ kind[a] = t
    /\ \A b \in Ids : parent[b] # a
    /\ \A u \in Types : catalog[u] # a
    /\ a \in stored => a \in orphans
    /\ job[t].pc = "root" => root[a] = 0 /\ rev[a] = 1
    /\ job[t].pc \in {"work", "commit"} => root[a] # 0
    /\ job[t].pc = "commit" => a \in stored

IInv ==
  /\ TypeOK
  /\ Filled /\ JobsInTurn /\ Outcomes /\ Rooted /\ FirstIsRoot /\ CatalogReady /\ JobsOwn
  /\ OneReadyCurrent /\ LineageSound /\ ResultsAreTrue /\ RunningIsOwned

=============================================================================
