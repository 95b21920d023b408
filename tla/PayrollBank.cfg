CONSTANTS
  c1 = c1 c2 = c2 c3 = c3 s1 = s1 s2 = s2 s3 = s3 a = a b = b
  Creators = {c1, c2, c3}
  Settlers = {s1, s2, s3}
  Lines = {a, b}
  LineOf <- MCLineOf
  Nobody = Nobody
SPECIFICATION BankSpec
CHECK_DEADLOCK FALSE
INVARIANTS LinePaidOnce
PROPERTIES ImplementsDeposits
