SPECIFICATION Spec
CONSTANTS
  NoVal = NoVal
  Nil = Nil
  Free = Free
  Compactor = Compactor
  Leaked = Leaked
  c1 = c1
  c2 = c2
  k1 = k1
  k2 = k2
  Clients = {c1, c2}
  Keys = {k1}
  Values = {v1, v2}
  Opaque = {v2}
  TypeIds = {1, 2}
  CompactEvery = 2
  Ops = {"Set", "Del", "Tx", "TxKeys", "Panic", "Tick", "Close"}
  Faults = {"create", "rename", "reopen", "torn", "open"}
  MaxRecords = 2
  MaxCount = 2
  MaxRestarts = 1
INVARIANTS LoneWritesSurvive DurabilityInv
PROPERTY ImplementsDurableMap
SYMMETRY ClientSymmetry
CHECK_DEADLOCK FALSE
