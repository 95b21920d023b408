CONSTANTS
  s1 = s1 s2 = s2 r1 = r1 r2 = r2 o1 = o1 d1 = d1 q1 = q1 q2 = q2 none = none
  Sessions = {s1, s2}
  Refreshes = {r1}
  Logouts = {o1}
  Deletes = {d1}
  Requests = {q1, q2}
  NoOne = none
  Second = 2
  AccessTTL = 2
  DenyTTL = 2
  StepExp = 2
  MaxTime = 3
  MaxRequests = 4
SYMMETRY Symmetry
SPECIFICATION Spec
CHECK_DEADLOCK FALSE
INVARIANTS StepUpOnce
PROPERTIES RevokedStaysOut
