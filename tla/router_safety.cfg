CONSTANTS
  Models = {m1, m2, m3}
  Clients = {c1, c2, c3}
  Monitors = {k1}
  NoModel = NoModel
  AnyModel = AnyModel
  First = m1
  Flaky = {m1, m2, m3}
  SleepIdle = TRUE
SPECIFICATION Spec
SYMMETRY ClientSymmetry
INVARIANTS TypeOK InflightIsLeases LeaseOnCards RouterKnowsTheCards SwapperIsHead
PROPERTIES HeadFirst BurstTakesOneSwap ImplementsCardLease
