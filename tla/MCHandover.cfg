SPECIFICATION Spec
CONSTANTS
  s1 = s1
  s2 = s2
  u1 = u1
  u2 = u2
  q1 = q1
  q2 = q2
  ann = ann
  bob = bob
  Sessions <- TwoSessions
  Subs <- TwoSubs
  Revivable <- TwoSubs
  Requests <- TwoRequests
  Users <- TwoUsers
  NoRequest = NoRequest
  NoUser = NoUser
SYMMETRY Symmetry
INVARIANTS
  TypeOK
PROPERTIES
  TransfersAreWhole
  DecidedOnce
CHECK_DEADLOCK FALSE
