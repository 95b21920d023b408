CONSTANTS
  l1 = l1 l2 = l2 f1 = f1 f2 = f2 o1 = o1 v1 = v1 w1 = w1
  Logins = {l1, l2}
  Refreshes = {f1, f2}
  Logouts = {o1}
  Revokers = {v1}
  Resets = {w1}
  MaxTokens = 4
  MaxExpired = 1
  MaxFails = 1
  MaxRequests = 5
SPECIFICATION Spec
SYMMETRY Alike
CHECK_DEADLOCK FALSE
INVARIANTS SingleUse OneLiveToken RevocationIsComplete LogoutEndsSession LoserFindsRotation NeverStuck
PROPERTIES ImplementsContract
