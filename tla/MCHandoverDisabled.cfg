SPECIFICATION Spec
CONSTANTS
  s1 = s1
  s2 = s2
  u1 = u1
  u2 = u2
  q1 = q1
  q2 = q2
  ann = ann
  bob = bob
  Sessions <- TwoSessions
  Subs <- TwoSubs
  Revivable = {}
  Requests <- TwoRequests
  Users <- TwoUsers
  NoRequest = NoRequest
  NoUser = NoUser
SYMMETRY Symmetry
INVARIANTS
  DisabledLeadsNothing
CHECK_DEADLOCK FALSE
