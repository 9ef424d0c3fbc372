SPECIFICATION FairSpec
CONSTANTS
  d0 = d0  d1 = d1
  Groups <- Two  Devices = {d0, d1}  Records <- Five
  GroupOf <- Owners  DevOf <- Places  ClassOf <- Kinds
  Slabs <- Growing  Room <- Rooms  MaxRoom = 2  Capacity <- Cards
  PinLimit = 3  Headroom = 0
  Values = {v}  Undefined = Undefined  Zero = Zero  Absent = Absent
  Faulty = TRUE
INVARIANTS TypeOK OnCardsIsWhole ScratchIsClean FailsOnlyWhenFull
PROPERTIES RoomIsReturned ImplementsModelMemory OpEnds
