SPECIFICATION UsersSpec
CONSTANTS
  Parts = {"notifications", "deliveries", "accounts", "oauth", "permissions", "keys",
           "departments", "schedules", "tables", "queries", "dashboards", "insight"}
  s1 = s1
  s2 = s2
  Receivers = {"r"}
  Sources = {"source"}
  NotifyJobs <- TwoSessions
  DayTicks = 2
  NineTick = 1
  LastTick = 3
  Zones = {0, 1}
  InitialPreferences <- TwoDefaults
  ChosenPreferences <- TwoChoices
  Messages = {"x", "y"}
  DeliveryWorkers <- TwoSessions
  MaxDeliveryAttempts = 2
  MaxSends = 3
  AccountJobs <- TwoSessions
  AccessTTL = 1
  RefreshTTL = 2
  AUTH_FAILURE_LIMIT = 1
  AUTH_FAILURE_TTL = 1
  LastSecond = 2
  MaxTokens = 3
  OAuthUsers = {"u1", "u2"}
  Identities = {"i1", "i2"}
  OAuthJobs <- TwoSessions
  Nobody = "nobody"
  Codes = {"c1", "c2", "c3"}
  DefaultCodes = {"c1", "c2"}
  PermissionJobs <- TwoSessions
  MaxReplacements = 2
  ApiKeyIds = {"k1", "k2"}
  KeyJobs <- TwoSessions
  LastKeyTick = 3
  KeyLifetimes = {1}
  NoKeyTick = NoKeyTick
  DeptIds = {"d1", "d2"}
  DeptNames = {"n1", "n2"}
  DeptUsers = {"u1", "u2"}
  DeptJobs <- TwoSessions
  NoDept = "none"
  Reports = {"r1"}
  ScanWorkers <- TwoSessions
  ReportSchedules <- ThreeSchedules
  DayLength = 2
  MonthLengths <- ThreeMonths
  ReportAttempts = 2
  LastReportTick = 7
  Mains <- TwoMains
  Works <- TwoWorks
  NoWork <- NoSubColumns
  TableJobs = {"t1"}
  PayDays = {1, 2, 3}
  PayAmounts <- PaymentAndReversal
  MaxPayments = 2
  AskedMains <- MainsAsked
  AskedSubs <- SubsAsked
  Askers <- LeaderAndAdmin
  ProjectTypes = {"k1"}
  Null = "null"
  PaidAmounts = {1, 2}
  Limits = {1, 3}
  MaxPaid = 2
  DashUsers <- LeaderAndMember
  Leaders = {"l1", "l2"}
  TeamIds = {"p"}
  DashSubs = {"w1"}
  SubBudget = 0
  DueDay = 9
  DashJobs <- TwoSessions
  DashboardTTL = 1
  MaxLoad = 1
  LastDashTick = 3
  Peers <- FivePeers
  NoStay = NoStay
  TotalBudget = 4
  MinSampleSize = 2
  DayStep = 4
  MoneyStep = 1
  MaxDelay = 12
  MaxSpent = 6
  MaxTasks = 2
  MaxPhases = 2
SYMMETRY Symmetry
CONSTRAINT
  UntilOrphaned
INVARIANTS
  UsersTypeOK
  NotifiedAsPromised
  AccessEndsAndReturns
  AdministrationHolds
  ReportRunsAreExact
  ReportsAgree
  HandedOverDisappears
  InsightIsSound
PROPERTIES
  SignedInAsOwner
CHECK_DEADLOCK FALSE
