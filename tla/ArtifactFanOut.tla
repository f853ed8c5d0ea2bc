---------------------------- MODULE ArtifactFanOut ----------------------------
(***************************************************************************)
(* The contract between the conversation graph and the artifact jobs: a    *)
(* turn is offered a catalog, may fan out to the jobs of some types, and   *)
(* hears of all of them at once or of none.  The graph (app/core/graph.py) *)
(* keeps it with one step per fan-out, the jobs (app/core/agent.py) with   *)
(* as many steps, in any order, as they take.                              *)
(***************************************************************************)

CONSTANT Types

VARIABLES
  catalog,  \* the types that have an artifact to revise
  mode,     \* "none", or the kind of fan-out under way: "create" or "revise"
  jobs,     \* the types whose jobs are under way
  results   \* what the graph knows of the last job of each type

vars == <<catalog, mode, jobs, results>>

Modes == {"create", "revise"}

Offer ==
  /\ mode = "none"
  /\ catalog' \in SUBSET Types
  /\ UNCHANGED <<mode, jobs, results>>

\* Nothing is revised that was not offered; old results are forgotten.
Start ==
  /\ mode = "none"
  /\ mode' \in Modes
  /\ jobs' \in (SUBSET Types) \ {{}}
  /\ mode' = "revise" => jobs' \subseteq catalog
  /\ results' = [t \in Types |-> IF t \in jobs' THEN "pending" ELSE results[t]]
  /\ UNCHANGED catalog

Stop == mode \in Modes /\ mode' = "none" /\ jobs' = {} /\ UNCHANGED catalog

\* Every job has an outcome, and no other type hears of one.
Settle ==
  /\ Stop
  /\ results' \in [Types -> {"pending", "ready", "failed"}]
  /\ \A t \in Types : IF t \in jobs THEN results'[t] # "pending" ELSE results'[t] = results[t]

Abort == Stop /\ UNCHANGED results

Init == catalog = {} /\ mode = "none" /\ jobs = {} /\ results = [t \in Types |-> "pending"]

Next == Offer \/ Start \/ Settle \/ Abort

Spec == Init /\ [][Next]_vars

(***************************************************************************)
(* Until a fan-out has ended, no job of it has a result, and there is no   *)
(* job without a fan-out.                                                  *)
(***************************************************************************)
AllOrNothing ==
  /\ \A t \in jobs : results[t] = "pending"
  /\ jobs # {} <=> mode \in Modes

=============================================================================
