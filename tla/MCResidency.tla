----------------------------- MODULE MCResidency -----------------------------
(* Two models over two devices, neither of which has memory for both: the  *)
(* first has a weights slab that grows on d0 and state on d1, the second   *)
(* state and a pool on d0 and a compute buffer on d1.                      *)
EXTENDS Residency

CONSTANTS d0, d1

Two     == {1, 2}
Five    == 1..5
Owners  == [r \in Five |-> IF r <= 2 THEN 1 ELSE 2]
Places  == [r \in Five |-> IF r \in {1, 3, 4} THEN d0 ELSE d1]
Kinds   == [r \in Five |-> CASE r = 1 -> "weights" [] r \in {2, 3} -> "state"
                             [] r = 4 -> "pool" [] r = 5 -> "scratch"]
Rooms   == [r \in Five |-> IF r = 1 THEN 2 ELSE 1]
Cards   == [d \in {d0, d1} |-> IF d = d0 THEN 2 ELSE 1]
Growing == {1}
=============================================================================
