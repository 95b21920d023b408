CONSTANTS
  d1 = d1 d2 = d2
  Deliveries = {d1, d2}
  Threads = {1, 2}
  MaxAttempts <- RetryCounts
  BatchLimit = 1
  MaxFaults = 1
SPECIFICATION FairSpec
CHECK_DEADLOCK FALSE
INVARIANTS AttemptsHonest NeverGivesUpEarly AcceptedIsDelivered
PROPERTIES RetriesEnd
