SPECIFICATION Spec
CONSTANTS
  s1 = s1
  s2 = s2
  s3 = s3
  u1 = u1
  u2 = u2
  Sessions <- TwoSessions
  Subs <- TwoSubs
  NoSub = NoSub
SYMMETRY Symmetry
INVARIANTS
  ClosedMainHasNoOpenSub
CHECK_DEADLOCK FALSE
