SPECIFICATION ModerationSpec
CONSTANTS
  Parts = {"chain", "guards", "settings", "words", "dialogue", "limits", "routing", "lock", "limiter"}
  Workers = {w1, w2}
  Processes = {p1, p2, p3}
  MaxIndex = 9
  MaxHandlers = 5
  MaxPipe = 2
  Flags = {"night", "few_invites", "lock_reply", "lock_username", "lock_english", "lock_link", "media_destroy", "g_lock_photo", "blocked_all", "group_lock", "internal_mute", "just_joined"}
  MaxChanges = 2
  Switches = {"lock", "media_destroy"}
  OnByDefault = {"lock"}
  Scopes = {"group"}
  Media = {"photo"}
  MaxOps = 3
  MaxPanels = 2
  Chats = {"home", "far"}
  BadWords = {"a", "b", "c"}
  MaxLists = 2
  MaxJobs = 3
  MaxPosts = 3
  Texts = {"a", "b"}
  JoinCounts = {1, 2}
  Limit = 1
  Window = 2
  MaxMessages = 3
  MaxTime = 4
  Messages = {m1, m2}
  MaxVersions = 3
  MaxUpdates = 4
  MaxTurns = 4
  Callers = {r1, r2, r3}
  Refill = 2
  Capacity = 4
  MaxDebt = 2
INVARIANTS PartsTypeOK OnceInOrder AllRunUnlessAborted LocksHold AdminsKeepMessages LoneChangesHold LightsTellTruth WordsKept DialogueClean LimitsKept TextOfLatest OnlyNestedOrLeakedStop LoneThrottled
PROPERTY AbortStops
SYMMETRY WorkerSymmetry
CHECK_DEADLOCK FALSE
