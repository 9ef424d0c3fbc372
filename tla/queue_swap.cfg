SPECIFICATION Spec
CONSTANTS
  a = a  b = b  c = c  a1 = a1  a2 = a2  b1 = b1  c1 = c1  s1 = s1  s2 = s2
  NoSuchSlot = NoSuchSlot  AnySlot = AnySlot  NoTask = NoTask
  Readers = {a, b}
  Asks <- OneEach  Pin <- NoPins  Slots = {s1, s2}
  Leavers = {a, b}  MaxSteps = 1
  KvUnified = FALSE  Embeds = {}  MayFail = {"request", "park"}  HotSwap = TRUE  MayStop = TRUE
INVARIANTS ControlNotForgotten DeadTaskLeaves
PROPERTIES ParkedIsLeftAlone
CHECK_DEADLOCK FALSE
