CONSTANTS
  k1 = k1
  NoJob = NoJob
  NoKey = NoKey
  Keys = {k1}
  Jobs = {j1}
  Registered = {j1}
  Clients = {c1}
  Slots = {s1}
  KeyOf <- NoKeys
  MaxAttempts = 2
  AtLeastOnce = TRUE
  SlowHandlers = FALSE
  UniqueKeys = FALSE
  Budget <- OneFault
SPECIFICATION Spec
INVARIANT AcceptedIsDelivered
CHECK_DEADLOCK FALSE
