CONSTANTS
  c1 = c1
  c2 = c2
  c3 = c3
  IPs <- MCIPs
  RateLimitPerMinute = 19
  Jobs = {j1, j2}
  Clients = {c1, c2, c3}
  IPOf <- MCIPOf
  PageSize = 1
  OddRanges <- MCOddRanges
  Walkers = {c1}
  Configs <- MCConfigs
  MaxRequests = 3
  Asking <- MCAsking
  MaxJobs <- MCMaxJobs
  MaxTime = 4
  MaxFaults = 1
SPECIFICATION Spec
INVARIANTS TypeOK ShortPageReachesTotal WalkSkipsNothing StoresAgree AdmittedWithinRate
PROPERTIES RefusedOnlyOverRate FailuresExplained
SYMMETRY Interchangeable
CHECK_DEADLOCK FALSE
