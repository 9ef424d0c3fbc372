CONSTANTS
  Models = {m1, m2}
  Clients = {c1, c2, c3}
  Monitors = {}
  NoModel = NoModel
  AnyModel = AnyModel
  First = m1
  Flaky = {m1, m2}
  SleepIdle = TRUE
SPECIFICATION FairSpec
PROPERTIES WaiterAnswered NamedSwapIsAnswered
