---------------------------- MODULE VersionHistory ----------------------------
(***************************************************************************)
(* What the table of generated artifacts promises to whoever follows its   *)
(* versions: a version that is ready keeps its lineage for good, a new one *)
(* starts a history or continues an older version, and only a version that *)
(* nothing continues is ever taken back.  Abstract view of the ready rows  *)
(* of app/services/artifact_service.py.                                    *)
(***************************************************************************)
EXTENDS Naturals

VARIABLE history  \* the ready versions: [id, type, before, root, rev]

\* A version without a predecessor is the first of its history.
First(v) == v.before = 0 /\ v.root = v.id /\ v.rev = 1

Follows(v, u) ==
  /\ v.before = u.id /\ u.id < v.id
  /\ v.type = u.type /\ v.root = u.root /\ v.rev = u.rev + 1

Publish ==
  \E v \in history' :
    /\ history' = history \cup {v}
    /\ v.id \in Nat \ {0}
    /\ \A u \in history : u.id # v.id
    /\ First(v) \/ \E u \in history : Follows(v, u)

Retract ==
  \E v \in history :
    /\ history' = history \ {v}
    /\ \A u \in history : u.before # v.id

Init == history = {}

Next == Publish \/ Retract

Spec == Init /\ [][Next]_history

(***************************************************************************)
(* Every version is the first of its history or continues a version that   *)
(* is still there; no two versions share an id.                            *)
(***************************************************************************)
Chained ==
  /\ \A v \in history : v.id \in Nat \ {0}
  /\ \A u, v \in history : u.id = v.id => u = v
  /\ \A v \in history : First(v) \/ \E u \in history : Follows(v, u)

(***************************************************************************)
(* The first version of every history is still there: whoever follows a    *)
(* version back arrives.                                                   *)
(***************************************************************************)
OriginsRemain ==
  \A v \in history : \E u \in history : First(u) /\ u.id = v.root /\ u.type = v.type

=============================================================================
