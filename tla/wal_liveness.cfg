SPECIFICATION FairSpec
CONSTANTS
  NoVal = NoVal
  Nil = Nil
  Free = Free
  Compactor = Compactor
  Leaked = Leaked
  c1 = c1
  c2 = c2
  k1 = k1
  k2 = k2
  Clients = {c1, c2}
  Keys = {k1}
  Values = {v1}
  Opaque = {}
  TypeIds = {1}
  CompactEvery = 2
  Ops = {"Set", "Tx", "Close"}
  Faults = {}
  MaxRecords = 2
  MaxCount = 4
  MaxRestarts = 1
PROPERTIES OperationsReturn ThresholdCompacts CloseReturns
CHECK_DEADLOCK FALSE
