SPECIFICATION FairSpec
CONSTANTS
  l1 = l1  l2 = l2  d1 = d1  d2 = d2
  Layers = {l1, l2}  Devices = {d1, d2}  DeviceOf <- Holds
  Widths = {1, 2}  MaxReq = 3
INVARIANTS TypeOK RowsAreOwn
PROPERTIES CardAnswered
CHECK_DEADLOCK FALSE
