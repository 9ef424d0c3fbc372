SPECIFICATION Spec
CONSTANTS
  a = a  b = b  c = c  a1 = a1  a2 = a2  b1 = b1  c1 = c1  s1 = s1  s2 = s2
  NoSuchSlot = NoSuchSlot  AnySlot = AnySlot  NoTask = NoTask
  Readers = {a, b}
  Asks <- BatchAndOne  Pin <- BatchPin  Slots = {s1, s2}
  Leavers = {a}  MaxSteps = 1
  KvUnified = TRUE  Embeds = {a1, a2}  MayFail = {"request", "decode", "park"}  HotSwap = FALSE  MayStop = TRUE
INVARIANTS TypeOK NothingLost OneFinal SleepsOnlyWhenIdle
PROPERTIES EndsDrained ImplementsRequestLife
CHECK_DEADLOCK FALSE
