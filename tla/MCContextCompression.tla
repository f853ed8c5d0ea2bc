------------------------ MODULE MCContextCompression ------------------------
(* TLC instances of ContextCompression.                                    *)
EXTENDS ContextCompression
=============================================================================
