SPECIFICATION Spec
CONSTANTS
  NoVal = NoVal
  Nil = Nil
  Free = Free
  Compactor = Compactor
  Leaked = Leaked
  c1 = c1
  c2 = c2
  k1 = k1
  k2 = k2
  Clients = {c1}
  Keys = {k1}
  Values = {v1}
  Opaque = {}
  TypeIds = {1}
  CompactEvery = 3
  Ops = {"Set", "Tx"}
  Faults = {}
  MaxRecords = 3
  MaxCount = 4
  MaxRestarts = 0
INVARIANT DeletionsRecovered
CHECK_DEADLOCK FALSE
