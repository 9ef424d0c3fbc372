SPECIFICATION Spec
CONSTANTS
  q1 = q1  q2 = q2
  Seqs = {q1, q2}  MaxPos = 4  Window = 2  Guard = 1  IndexOn = FALSE
  SlotCtx = 5  Margin = 1  Boots <- ForkAndShift
  MaxKeep = 1  MaxDrop = 2  MaxDraft = 0  NBatch = 3  NUbatch = 2
INVARIANTS BookIsHeld
