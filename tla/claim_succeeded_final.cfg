CONSTANTS
  k1 = k1
  NoJob = NoJob
  NoKey = NoKey
  Keys = {k1}
  Jobs = {j1}
  Registered = {j1}
  Clients = {c1}
  Slots = {s1, s2}
  KeyOf <- NoKeys
  MaxAttempts = 2
  AtLeastOnce = TRUE
  SlowHandlers = FALSE
  UniqueKeys = FALSE
  Budget <- OneFailure
SPECIFICATION Spec
PROPERTY SucceededIsFinal
CHECK_DEADLOCK FALSE
