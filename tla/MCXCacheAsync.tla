---------------------------- MODULE MCXCacheAsync ----------------------------
(* Two devices with a cold layer each, for TLC.                            *)
EXTENDS XCacheAsync

CONSTANTS l1, l2, d1, d2
Holds == [l \in Layers |-> IF l = l1 THEN d1 ELSE d2]
=============================================================================
