SPECIFICATION FairSpec
CONSTANTS
  None = None
  MaxUpdates = 2
  BatchLimit = 2
  QueueCap = 1
  Workers = {w1, w2}
  Tasks = {t1}
  MaxRuns = 2
INVARIANTS NothingForgotten DrainedOnReturn BegunInOrder OpenWhileHandling
PROPERTIES ShutdownEnds UpdatesHandled
CHECK_DEADLOCK FALSE
