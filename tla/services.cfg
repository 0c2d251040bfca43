SPECIFICATION ServicesSpec
CONSTANTS
  Parts = {"sessions", "wizards", "surveys", "captcha", "registry", "download", "upload", "hub", "log", "background", "warnings", "pages", "menus", "analytics", "volumes", "broadcast"}
  Handlers = {h1, h2}
  NoVal = NoVal
  Cleaner = Cleaner
  MaxWarns = 3
  Cooldown = 1
  MaxHistory = 3
  MaxCrashes = 1
  Chats = {c1}
  MaxWrites = 3
  MaxSaves = 3
  MaxDays = 1
  MaxFaults = 1
  Fields = 2
  Numeric = {2}
  MaxWizards = 2
  MaxTexts = 3
  MaxTimers = 1
  Questions = 2
  MaxSurveys = 2
  MaxClicks = 3
  Timeout = 1
  MaxJoins = 2
  Cancellers = {k1}
  QueueCap = 2
  MaxRuns = 4
  Size = 3
  MaxRetries = 3
  MaxHops = 3
  MaxUploads = 2
  MaxVersions = 2
  Conns = {k1}
  Lengths = {125, 65536}
  MaxSends = 2
  MaxPings = 1
  MaxSize = 2
  Backups = 2
  MaxLines = 8
  MaxRestarts = 1
  Purges = {p1, p2}
  Room = 1
  Slack = 1
  LeastCount = 1
  MostCount = 2
  Counts = {0, 2, 3}
  TopId = 4
  Visible = {{1, 2, 3, 4}, {1, 4}, {2, 3}, {1}}
  Items = 5
  PerPage = 2
  MaxPresses = 4
  MaxLosses = 1
  Nodes = {"root", "page", "leaf"}
  Root = "root"
  Inline = {"leaf"}
  MaxMoves = 4
  MaxMessages = 2
  MaxDeletes = 2
  MaxReports = 1
  Sizes = {3, 5}
  Limit = 2
  MaxVolumes = 3
  Users = 3
  MaxRefused = 1
INVARIANTS ServicesTypeOK EveryWarningExpires NoneForgottenEarly LimitIsReset SessionsKept AnswersKept CaptchaSettles TransfersKept WrittenWhole BackgroundSound EverythingCounted
SYMMETRY HandlerSymmetry
CHECK_DEADLOCK FALSE
