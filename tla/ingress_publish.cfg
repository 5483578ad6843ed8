SPECIFICATION IngressSpec
CONSTANTS
  Calls = {c1, c2}
  Claims = {k1, k2}
  Retries = 3
INVARIANTS
  ReturnedIsDurable
  UndisturbedCallReturns
PROPERTIES
  NeverReplaced
CHECK_DEADLOCK FALSE
