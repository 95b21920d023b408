CONSTANTS
  r1 = r1 r2 = r2 ghost = ghost blank = blank l1 = l1 l2 = l2 p1 = p1
  Nothing = Nothing
  Events <- SagaEvents
  Records = {r1, r2}
  Strangers = {ghost}
  Malformed = blank
  Listeners = {l1, l2}
  Publishers = {p1}
  MaxRetries = 1
  MaxAborts = 1
  MaxRequests = 2
  MaxCompensations = 2
  MaxDrops = 1
SPECIFICATION SagaSpec
INVARIANTS TrailsAgree CompensatedOnRequest EchoNeverDies
CHECK_DEADLOCK FALSE
