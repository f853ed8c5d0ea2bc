------------------------ MODULE MCKnowledgeIngestion ------------------------
(* TLC instances of KnowledgeIngestion.                                    *)
EXTENDS KnowledgeIngestion, TLC

\* Requests and contents are interchangeable; ids are not (restart order).
MCSymmetry == Permutations(Requests) \cup Permutations(Contents)
=============================================================================
