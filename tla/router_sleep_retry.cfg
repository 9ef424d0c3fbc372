CONSTANTS
  Models = {m1, m2}
  Clients = {c1, c2}
  Monitors = {}
  NoModel = NoModel
  AnyModel = AnyModel
  First = m1
  Flaky = {m1, m2}
  SleepIdle = TRUE
SPECIFICATION Spec
PROPERTIES FailedSwapIsAnswered
