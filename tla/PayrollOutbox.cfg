CONSTANTS
  x1 = x1 x2 = x2 x3 = x3 r1 = r1 r2 = r2
  Events = {x1, x2, x3}
  Publishers = {r1, r2}
  MaxRetries = 2
  MaxAborts = 2
SPECIFICATION FairSpec
CHECK_DEADLOCK FALSE
INVARIANTS DuplicatesNeedAborts RetryLimitExact
PROPERTIES EventsSettle ImplementsContract
