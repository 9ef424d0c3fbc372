SPECIFICATION Spec
CONSTANTS
  a = a  b = b  c = c  a1 = a1  a2 = a2  b1 = b1  c1 = c1  s1 = s1  s2 = s2
  NoSuchSlot = NoSuchSlot  AnySlot = AnySlot  NoTask = NoTask
  Readers = {a, b}
  Asks <- OneEach  Pin <- NoPins  Slots = {s1}
  Leavers = {a}  MaxSteps = 1
  KvUnified = FALSE  Embeds = {}  MayFail = {}  HotSwap = FALSE  MayStop = FALSE
INVARIANTS NoGhostOnSlot
CHECK_DEADLOCK FALSE
