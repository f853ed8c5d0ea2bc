------------------------ MODULE MCWorkspaceExecution ------------------------
(* TLC instances of WorkspaceExecution.                                    *)
EXTENDS WorkspaceExecution, TLC

MCSymmetry == Permutations(Calls)
=============================================================================
