---------------------------- MODULE MCRunEvents ------------------------------
(* TLC instances of RunEvents: documents with tools in two threads, videos *)
(* one after the other, and an answer to every interrupt.                  *)
EXTENDS RunEvents

\* Preparation and execution of code report alike.
MCCalls == {"skill_activation", "code_execution"}
MCTypes == {"ppt_generation", "game_generation"}
MCRequests ==
  {[documents |-> TRUE, videos |-> 0, answers |-> None],
   [documents |-> FALSE, videos |-> 2, answers |-> None]}
  \cup [documents : {FALSE}, videos : {0}, answers : Interrupts]
=============================================================================
