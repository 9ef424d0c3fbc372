SPECIFICATION FairSpec
CONSTANTS
  a = a  b = b  c = c  a1 = a1  a2 = a2  b1 = b1  c1 = c1  s1 = s1  s2 = s2
  NoSuchSlot = NoSuchSlot  AnySlot = AnySlot  NoTask = NoTask
  Readers = {a, b, c}
  Asks <- OneEach  Pin <- WrongPin  Slots = {s1}
  Leavers = {b}  MaxSteps = 1
  KvUnified = TRUE  Embeds = {b1}  MayFail = {"request", "decode", "park"}  HotSwap = FALSE  MayStop = TRUE
PROPERTIES ReaderAnswered RunningLoopEnds
CHECK_DEADLOCK FALSE
