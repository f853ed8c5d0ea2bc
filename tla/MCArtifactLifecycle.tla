------------------------ MODULE MCArtifactLifecycle ------------------------
(* TLC instances of ArtifactLifecycle.                                     *)
EXTENDS ArtifactLifecycle, TLC

MCSymmetry == Permutations(Types) \cup Permutations(Savers)
=============================================================================
