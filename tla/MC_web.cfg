SPECIFICATION Spec
CHECK_DEADLOCK FALSE
CONSTANTS
  Tabs = {t1, t2}
  TabUsers = {"user"}
  UserOf <- OneUser
  SessionIds = {s1, s2}
  NoTab = NoTab
  Sessions = {1, 2}
  RATE_LIMIT_TOKENS = 1
  RATE_LIMIT_BURST = 0
  MaxKeys = 2
  MaxFaults = 1
  MaxAge = 1
  AdhocJobs = {j1}
  GroupJobs = {j2}
  PageFetches = {1, 2}
  MaxClicks = 4
  Texts = {x1, x2}
  PageReads = {1}
  MaxMessages = 1
  MaxWrites = 2
  MaxUpdateClicks = 3
  PasswordChecks = {1, 2}
  Lifetime = 4
  Warning = 2
  Requests = {1}
  TimePolls = {1, 2}
  MaxVisits = 3
  Machines = {m1}
  Notes = {n1, n2}
  PatchCalls = {1, 2}
  MaxCreations = 2
  AccessMachines = {m1, m2}
  PutCalls = {1, 2}
  MaxGenerated = 2
INVARIANTS
  ClosedTabsLeaveNothing AuditTrail KeysReachTheirShell OneJobAtATime
  TypedNotesSurvive ConfirmedOnce WarnedBeforeTheEnd CopiesAgree AssignmentsAgree
  SecretsStayReadable
