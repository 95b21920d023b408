CONSTANTS
  l1 = l1 l2 = l2 v1 = v1 v2 = v2 m1 = m1 m2 = m2 r1 = r1 nobody = nobody
  Nobody = nobody
  Logins = {l1, l2}
  Validations = {v1}
  Verifies = {m1, m2}
  Resets = {r1}
  MaxFailed = 3
  MaxVersion = 2
SYMMETRY Symmetry
SPECIFICATION Spec
CHECK_DEADLOCK FALSE
INVARIANTS AttemptsBounded LockEarned LinkOpensOnce OldPasswordNeedsOverlap
