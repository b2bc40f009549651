SPECIFICATION RecordsSpec
CONSTANTS
  Parts = {"archives"}
  s1 = s1
  s2 = s2
  u1 = u1
  u2 = u2
  t1 = t1
  t2 = t2
  f1 = f1
  m1 = m1
  m2 = m2
  l1 = l1
  l2 = l2
  rj = rj
  ej = ej
  rd = rd
  Subs = {"a", "b"}
  PaymentSessions <- TwoSessions
  Payments = {1, 2, 3}
  NoPayment = 0
  PaymentAmounts = {1, 2}
  Budget = 2
  Docs = {1, 2, 3}
  Types <- TwoTypes
  DocumentSessions <- TwoSessions
  NoDoc = 0
  MaxMoves = 1
  GateJobs <- TwoSessions
  GatePhaseNos = {2, 4, 5}
  ProcurementTypes = {"bid"}
  DocTypes = {"acceptance_report", "payment_voucher"}
  DocRuleSets <- TwoRuleSets
  StepNos = {1, 2}
  GatePayments = {1, 2}
  MULTI_INSTANCE_DOCUMENT_TYPES = {"payment_voucher"}
  MaxUploads = 2
  NoType = "none"
  StoredDocs <- OneFile
  Readers <- OneReader
  ReportJobs <- OneReport
  ExportJobs <- OneExport
  OrphanRetention = 1
  DeletedRetention = 2
  ReportRetention = 1
  LastStoreDay = 2
  SearchDocs <- OneFile
  WordTypes = {"x", "y"}
  NoEntry = "none"
  IndexTasks <- TwoSessions
  Searchers <- TwoSearchers
  MaxQueued = 2
  SearchLimit = 1
  MaxRetypes = 2
  Rules <- FourRules
  RequiredSets <- FourRequiredSets
  EntryTypes = {"none", "contract", "invoice"}
  AiAnswers <- ThreeAnswers
  BestCount = 3
  ArchProjects <- TwoMains
  ArchSubs = {"sub"}
  ArchJobs <- TwoSessions
  ArchiveRetention = 1
  LastArchYear = 1
  MaxMigrations = 4
  BudgetSubs <- TwoSubs
  BudgetJobs <- TwoSessions
  SubBudgets = {1, 2}
  MainBudgets = {1, 2}
  People <- TwoPeople
  NumberJobs <- TwoSessions
  Sheets <- TwoSheets
  Codes = {"d1"}
  Amounts = {0, 5}
  LastSequence = 2
  MaxTemplates = 1
  TeamSubs <- TwoSubs
  TeamLeaders <- TwoLeaders
  TeamMembers = {"p"}
  FirstLeader = l1
  TeamJobs <- TwoSessions
  MaxHandovers = 2
CONSTRAINT
  UntilOvertaken
SYMMETRY Symmetry
INVARIANTS
  FilesOutliveArchiving
CHECK_DEADLOCK FALSE
