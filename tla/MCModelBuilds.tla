--------------------------- MODULE MCModelBuilds ---------------------------
(* TLC instances of ModelBuilds.                                            *)
EXTENDS ModelBuilds

CONSTANTS c1, c2
=============================================================================
