----------------------------- MODULE MCSlotCache -----------------------------
(* Two slots of four tokens, for TLC.                                      *)
EXTENDS SlotCache, TLC

CONSTANTS q1, q2
Symmetry == Permutations({q1, q2})

Boot(self, swa, fork, shift, uncached) ==
    [self |-> self, swa |-> swa, fork |-> fork, shift |-> shift,
     uncached |-> uncached]
EitherModel ==
    {Boot(5, 0, TRUE, FALSE, FALSE),    \* forks, no shift
     Boot(4, 3, FALSE, TRUE, FALSE),    \* a sliding cache
     Boot(3, 0, FALSE, TRUE, TRUE)}     \* requests without cache_prompt
ForkAndShift == {Boot(5, 0, TRUE, TRUE, FALSE)}
=============================================================================
