SPECIFICATION Spec
CONSTANTS
  PhaseCount = 6
  s1 = s1
  s2 = s2
  q1 = q1
  Sessions <- TwoSessions
  Requests <- OneRequest
  NoRequest = NoRequest
SYMMETRY Symmetry
PROPERTIES
  NoRollbackOfFinished
CHECK_DEADLOCK FALSE
