CONSTANTS
  k1 = k1
  NoJob = NoJob
  NoKey = NoKey
  Keys = {k1}
  Jobs = {j1, j2, j3}
  Registered = {j1, j2}
  Clients = {c1, c2}
  Slots = {s1, s2}
  KeyOf <- SharedKey
  MaxAttempts = 2
  AtLeastOnce = FALSE
  SlowHandlers = FALSE
  UniqueKeys = TRUE
  Budget <- KeysAndRequests
SPECIFICATION Spec
INVARIANTS NoJobForgotten QueuedIsBacked OneJobPerKey
SYMMETRY Interchangeable
CHECK_DEADLOCK FALSE
