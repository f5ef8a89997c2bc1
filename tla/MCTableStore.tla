---------------------------- MODULE MCTableStore ----------------------------
(* TLC instances of TableStore: two callers.  They are interchangeable.     *)
EXTENDS TableStore, TLC

CONSTANTS w1, w2, k1, k2

(* A file with no row, or with a new version of one of the keys.             *)
One == {{k1}}

Symmetry == Permutations(Writers)
=============================================================================
