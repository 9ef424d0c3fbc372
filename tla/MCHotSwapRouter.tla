--------------------------- MODULE MCHotSwapRouter ---------------------------
(* Instances of HotSwapRouter for TLC. *)
EXTENDS HotSwapRouter, TLC

(* Request threads are interchangeable; used by the safety run only. *)
ClientSymmetry == Permutations(Clients)
=============================================================================
