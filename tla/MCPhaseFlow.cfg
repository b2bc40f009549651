SPECIFICATION Spec
CONSTANTS
  PhaseCount = 6
  s1 = s1
  s2 = s2
  q1 = q1
  Sessions <- TwoSessions
  Requests <- OneRequest
  NoRequest = NoRequest
SYMMETRY Symmetry
INVARIANTS
  TypeOK
  NoLostCompletion
  OpenedByPredecessor
  OneRollbackPerApproval
  CompletedIsRecorded
PROPERTIES
  ReopensOnlyCompleted
  ImplementsContract
CHECK_DEADLOCK FALSE
