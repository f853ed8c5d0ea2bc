---------------------------- MODULE ThreadMemory ----------------------------
(***************************************************************************)
(* What a conversation thread promises to remember: a message is read by   *)
(* the models verbatim or through a summary, never both; what is           *)
(* summarised is always the older part; condensing, which must gain        *)
(* something, leaves exactly the recent turns of the teacher verbatim.     *)
(* Only condensing forgets, and what is forgotten does not come back.      *)
(* Abstract view of the message list and of its compression in             *)
(* app/core/context_compression.py.                                        *)
(***************************************************************************)
EXTENDS Naturals, FiniteSets

CONSTANT KeepRecentTurns  \* inputs of the teacher that stay verbatim

VARIABLES
  inputs,    \* the messages of the teacher, numbered in the order of speech
  verbatim,  \* the messages the models read as they were
  gist       \* the messages a summary was made from

vars == <<inputs, verbatim, gist>>

Before(S, T) == \A m \in S, n \in T : m < n

Init == inputs = {} /\ verbatim = {} /\ gist = {}

\* What is new is said last, and is read as it was said.
Say ==
  LET said == verbatim' \ verbatim
  IN /\ verbatim \subseteq verbatim'
     /\ Before(verbatim \cup gist, said)
     /\ inputs \subseteq inputs' /\ inputs' \ inputs \subseteq said
     /\ UNCHANGED gist

\* The older part of what is verbatim moves behind a summary as a whole, or
\* is forgotten as a whole; of what was behind summaries some may be forgotten.
Condense ==
  LET condensed == verbatim \ verbatim'
  IN /\ verbatim' \subseteq verbatim /\ condensed # {}
     /\ Before(condensed, verbatim')
     /\ gist' \subseteq gist \cup condensed
     /\ condensed \subseteq gist' \/ condensed \cap gist' = {}
     /\ Cardinality(inputs \cap verbatim') = KeepRecentTurns
     /\ UNCHANGED inputs

Next == Say \/ Condense

Spec == Init /\ [][Next]_vars

(***************************************************************************)
(* What is summarised is older than anything that is still verbatim; so no *)
(* message is read both ways.                                              *)
(***************************************************************************)
GistIsOlder == Before(gist, verbatim)

=============================================================================
