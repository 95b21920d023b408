CONSTANTS
  g1 = g1 g2 = g2 e1 = e1 e2 = e2 none = none
  Gateways = {g1, g2}
  Events = {e1, e2}
  NoEvent = none
  HomeOf <- Home
  MaxAttempts = 2
  MaxQueue = 1
  MaxFaults = 2
SPECIFICATION FairSpec
INVARIANTS OneFaultOneEvent OneFaultOneLeftover DuplicatesExplained
PROPERTIES ImplementsContract EventsSettle
