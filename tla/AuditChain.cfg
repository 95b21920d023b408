CONSTANTS
  a = a b = b c = c d = d x = x v = v
  Entries = {a, b, c, d}
  Erasers = {x}
  Subject <- MCSubject
  Verifiers = {v}
  PageSize = 2
  Attempts = 2
SPECIFICATION Spec
CHECK_DEADLOCK FALSE
INVARIANTS NoFork AnchorCountsAll DeletionDetected AlarmIsReal
PROPERTIES ImplementsContract
