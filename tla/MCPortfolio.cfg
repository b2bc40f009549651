SPECIFICATION Spec
CONSTANTS
  s1 = s1
  s2 = s2
  s3 = s3
  u1 = u1
  u2 = u2
  Sessions <- ThreeSessions
  Subs <- TwoSubs
  NoSub = NoSub
SYMMETRY Symmetry
INVARIANTS
  TypeOK
  NumbersConsecutive
  WorkIsApproved
CHECK_DEADLOCK FALSE
