---------------------------- MODULE MCMemoryStore ----------------------------
(* TLC instances of MemoryStore.                                           *)
EXTENDS MemoryStore, TLC

MCSymmetry == Permutations(Ops) \cup Permutations(Ids)
=============================================================================
