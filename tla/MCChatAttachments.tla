------------------------- MODULE MCChatAttachments ---------------------------
(* TLC instances of ChatAttachments.                                       *)
EXTENDS ChatAttachments, TLC

MCSymmetry == Permutations(Requests) \cup Permutations(Rows) \cup Permutations(Threads)
                \cup Permutations(Contents)
=============================================================================
