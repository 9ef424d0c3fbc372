SPECIFICATION Spec
CONSTANTS
  q1 = q1  q2 = q2
  Seqs = {q1, q2}  MaxPos = 3  Window = 2  Guard = 1  IndexOn = FALSE
  SlotCtx = 4  Margin = 1  Boots <- EitherModel
  MaxKeep = 1  MaxDrop = 2  MaxDraft = 1  NBatch = 3  NUbatch = 2
SYMMETRY Symmetry
INVARIANTS TypeOK BookIsHeld CachesAgree WindowIsHeld
PROPERTIES ImplementsPromptCache
