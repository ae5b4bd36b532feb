SPECIFICATION Spec
CHECK_DEADLOCK FALSE
CONSTANTS
  Parts = {"agent", "monitor", "digest", "events", "packages", "users", "update", "progress", "algorithms",
           "users page", "notifications page", "connections"}
  Commands = {c1}
  MaxLines = 1
  MaxDrops = 1
  Checkers = {1, 2}
  Scanners = {1}
  MaxAttempts = 4
  MaxHours = 1
  Sources = {"machine_offline", "agent_registered"}
  MaxItems = 3
  MaxPerHour = 1
  MaxChanges = 1
  MaxTimers = 3
  Digests = {1, 2}
  EventRequests = {1, 2}
  MaxRows = 2
  MaxRequests = 3
  Packages = {p1, p2}
  ScanRequests = {1, 2}
  MaxScans = 2
  MaxRestarts = 1
  MaxBatches = 2
  Ecosystems = 2
  Pages = 2
  Users = {"a", "b"}
  AdminCalls = {1, 2}
  MaxCalls = 4
  MaxUpdates = 1
  MaxTicks = 2
  Polls = {1, 2}
  MaxReloads = 1
  Scans = {1, 2}
  Fetches = {1}
  MaxScanRuns = 2
  MAX_GLOBAL_CONCURRENCY = 10
  Grain = 2
  PageUsers = {"me", "u"}
  Me = "me"
  PageMachines = {"m"}
  UserRequests = {1, 2}
  MaxUserClicks = 4
  Posts = {1, 2}
  MaxEdits = 3
  Agents = {a1, a2}
  Sockets = {s1, s2}
  Ids = {i1, i2}
  Hosts = {h1}
  HostOf <- SameHost
  NoId = NoId
  NoSocket = NoSocket
  NoAgent = NoAgent
  MaxMishaps = 1
  MaxUnderWay = 2
INVARIANTS
  OncePerHour EventsPreserved OneAfterTheOther TableIsTheScan AnAdminRemains
  CompletedIsTrue NoProgressIsLeft RangesAgree  MessagesArrive
  PageIsTrue SavedIsShown ConnectedIsReachable
PROPERTY CompletedIsLast
