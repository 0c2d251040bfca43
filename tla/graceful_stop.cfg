SPECIFICATION Spec
CONSTANTS
  None = None
  MaxUpdates = 2
  BatchLimit = 1
  QueueCap = 1
  Workers = {w1, w2}
  Tasks = {t1}
  MaxRuns = 1
INVARIANT FlushedOnShutdown
CHECK_DEADLOCK FALSE
