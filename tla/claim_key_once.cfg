CONSTANTS
  k1 = k1
  NoJob = NoJob
  NoKey = NoKey
  Keys = {k1}
  Jobs = {j1, j2}
  Registered = {j1, j2}
  Clients = {c1, c2}
  Slots = {s1}
  KeyOf <- SharedKey
  MaxAttempts = 2
  AtLeastOnce = FALSE
  SlowHandlers = FALSE
  UniqueKeys = FALSE
  Budget <- Nothing
SPECIFICATION Spec
INVARIANT KeyProcessedOnce
CHECK_DEADLOCK FALSE
