CONSTANTS
  k1 = k1
  NoJob = NoJob
  NoKey = NoKey
  Keys = {k1}
  Jobs = {j1, j2}
  Registered = {j1, j2}
  Clients = {c1, c2}
  Slots = {s1, s2}
  KeyOf <- NoKeys
  MaxAttempts = 3
  AtLeastOnce = FALSE
  SlowHandlers = FALSE
  UniqueKeys = FALSE
  Budget <- HandlersFail
SPECIFICATION FairSpec
INVARIANTS TypeOK SettledOnce NoEarlyBurial
PROPERTIES LifecycleSpec
CHECK_DEADLOCK FALSE
