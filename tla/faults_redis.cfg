CONSTANTS
  k1 = k1
  NoJob = NoJob
  NoKey = NoKey
  Keys = {k1}
  Jobs = {j1}
  Registered = {j1}
  Clients = {c1}
  Slots = {s1, s2}
  KeyOf <- NoKeys
  MaxAttempts = 2
  AtLeastOnce = TRUE
  SlowHandlers = TRUE
  UniqueKeys = FALSE
  Budget <- CallsLostAndCrashes
SPECIFICATION Spec
INVARIANTS NoJobForgotten AttemptsNeverOvercount NoEarlyBurial
SYMMETRY Interchangeable
CHECK_DEADLOCK FALSE
