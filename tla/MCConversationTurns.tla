------------------------- MODULE MCConversationTurns -------------------------
(* TLC instances of ConversationTurns.                                     *)
EXTENDS ConversationTurns
MCStopNodes == {"intent_router", "metadata_structer", "teaching_design_planner", "generate",
                "revise", "profile_memory_reflection"}
=============================================================================
