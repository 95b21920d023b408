CONSTANTS
  l1 = l1 l2 = l2 v1 = v1 v2 = v2 m1 = m1 m2 = m2 r1 = r1 nobody = nobody
  Nobody = nobody
  Logins = {l1}
  Validations = {v1, v2}
  Verifies = {}
  Resets = {}
  MaxFailed = 3
  MaxVersion = 2
SPECIFICATION Spec
CHECK_DEADLOCK FALSE
INVARIANTS ChallengeOpensOnce
