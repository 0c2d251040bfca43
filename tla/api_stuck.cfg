SPECIFICATION FairSpec
CONSTANTS
  NoCaller = NoCaller
  Callers = {a1}
  Threshold = 2
  Cooldown = 1
  Attempts = 1
  Max429 = 1
  Replies = {"ok", "refused"}
PROPERTY RejectedOnlyOffline
