CONSTANTS
  e1 = e1 e2 = e2 p1 = p1 p2 = p2 b1 = b1 b2 = b2 k1 = k1 k2 = k2 batch = batch
  Keys = {k1, k2}
  Batches = {batch}
  KeyOf <- MCKeyOf
  BatchOf <- MCBatchOf
  Rank <- MCRank
  Basic = {p1}
  Enterprise = {e1, e2}
  Batched = {b1, b2}
  PoolSize = 2
SPECIFICATION FairSpec
CHECK_DEADLOCK FALSE
INVARIANTS OnePerPeriod OutboxMatchesLedger
PROPERTIES ImplementsLedger RunsEnd
