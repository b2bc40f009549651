SPECIFICATION BackgroundSpec
CONSTANTS
  Parts = {"webhooks"}
  u1 = u1
  u2 = u2
  j1 = j1
  j2 = j2
  w1 = w1
  w2 = w2
  d1 = d1
  d2 = d2
  TaskMembers <- TwoMembers
  TaskJobs <- TwoJobs
  EnabledMembers <- TwoMembers
  MaxTasks = 1
  MaxExecutorRows = 2
  LastDay = 1
  DueDays = {0}
  MaxTaskCrashes = 1
  EscalationDays = 1
  Workers <- TwoWorkers
  Deliveries <- TwoDeliveries
  MaxAttempts = 6
  MaxDisturbances = 0
INVARIANTS
  AtMostMaxAttempts
CHECK_DEADLOCK FALSE
