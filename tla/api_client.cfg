SPECIFICATION FairSpec
CONSTANTS
  NoCaller = NoCaller
  Callers = {a1, a2}
  Threshold = 2
  Cooldown = 1
  Attempts = 3
  Max429 = 1
  Replies = {"ok", "refused", "limited", "abandoned", "unsent", "torn"}
INVARIANT HalfOpenOwned
PROPERTIES CallsReturn Recovers
