------------------------------ MODULE MCKvCache ------------------------------
(* A context with two cells in each cache (or no sliding one), for TLC.                            *)
EXTENDS KvCache, TLC

CONSTANTS q1, q2
Symmetry == Permutations({q1, q2})
=============================================================================
