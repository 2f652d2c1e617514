SPECIFICATION Spec
CONSTANTS
  s1 = s1
  s2 = s2
  q1 = q1
  q2 = q2
  Session <- MCSession
  Request <- MCRequest
  Idle = 2
  Absolute = 6
  LastDay = 8
SYMMETRY Symmetry
INVARIANTS SessionsInvariant LimitsHold UseKeepsAlive
PROPERTIES RevokedForGood
CHECK_DEADLOCK FALSE
