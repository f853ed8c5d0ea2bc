--------------------------- MODULE TeachingProtocol ---------------------------
(***************************************************************************)
(* What a conversation thread promises the teacher: the phases of the      *)
(* dialogue and the order in which they may follow each other.  Material   *)
(* is generated only from a reviewed plan, a plan is designed only from    *)
(* confirmed metadata, and a revision never enters either.  Abstract view  *)
(* of the graph built in app/core/graph.py.                                *)
(***************************************************************************)

VARIABLE phase

\* The phases in which the thread waits for the teacher's answer.
Questions == {"asking", "confirming", "reviewing", "choosing"}

Phases == Questions \cup
  {"idle", "routing", "chatting", "eliciting", "designing", "generating",
   "targeting", "revising", "closing"}

Step(from, to) == phase = from /\ phase' = to

\* A message that answers nothing starts a turn, which finds its purpose.
Turn == Step("idle", "routing")

Purpose ==
  \E to \in {"chatting", "eliciting", "targeting"} : Step("routing", to)

\* The metadata of the lesson, until the teacher confirms it.
Elicit  == \E to \in {"asking", "confirming"} : Step("eliciting", to)
Reply   == \E from \in {"asking", "confirming"} : Step(from, "eliciting")
Confirm == Step("confirming", "designing")

\* The plan, until the teacher approves it for some material, or for none.
Design  == Step("designing", "reviewing")
Amend   == Step("reviewing", "designing")
Approve == Step("reviewing", "generating")
Decline == Step("reviewing", "closing")

\* The revision of material that exists.
Target  == \E to \in {"choosing", "revising", "closing"} : Step("targeting", to)
Specify == Step("choosing", "targeting")
TakeAll == Step("choosing", "revising")

\* An answer or the results of the jobs have been given.
Finish  == \E from \in {"chatting", "generating", "revising"} : Step(from, "closing")

\* A turn ends, early or not; only a question outlives its turn.
Stop == phase \notin Questions \cup {"idle"} /\ phase' = "idle"

\* No step of the protocol: a turn that was closing asks for metadata, or
\* for the review of a plan, after all.
Reopen == \E to \in {"eliciting", "designing"} : Step("closing", to)

Init == phase = "idle"

Next ==
  \/ Turn \/ Purpose \/ Elicit \/ Reply \/ Confirm \/ Design \/ Amend \/ Approve
  \/ Decline \/ Target \/ Specify \/ TakeAll \/ Finish \/ Stop

Spec == Init /\ [][Next]_phase

=============================================================================
