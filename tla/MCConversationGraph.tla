------------------------- MODULE MCConversationGraph -------------------------
(* TLC instances of ConversationGraph.                                     *)
EXTENDS ConversationGraph

\* Runs stop at every node.
MCStopNodes == Nodes
=============================================================================
