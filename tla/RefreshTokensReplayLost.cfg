CONSTANTS
  l1 = l1 l2 = l2 f1 = f1 f2 = f2 o1 = o1 v1 = v1 w1 = w1
  Logins = {l1}
  Refreshes = {f1, f2}
  Logouts = {}
  Revokers = {}
  Resets = {}
  MaxTokens = 3
  MaxExpired = 1
  MaxFails = 1
  MaxRequests = 3
SPECIFICATION Spec
CHECK_DEADLOCK FALSE
INVARIANTS DetectedMeansRevoked
