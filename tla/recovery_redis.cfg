CONSTANTS
  k1 = k1
  NoJob = NoJob
  NoKey = NoKey
  Keys = {k1}
  Jobs = {j1, j2}
  Registered = {j1, j2}
  Clients = {c1}
  Slots = {s1, s2}
  KeyOf <- NoKeys
  MaxAttempts = 2
  AtLeastOnce = TRUE
  SlowHandlers = FALSE
  UniqueKeys = FALSE
  Budget <- Recovery
SPECIFICATION FairSpec
INVARIANTS NoJobForgotten OutcomeLoggedOrOwed OnceWithoutFailures
PROPERTIES EventuallySettled
CHECK_DEADLOCK FALSE
