CONSTANTS
  Jobs = {j1, x}
  Workers = {w1, w2}
  Garbled = {x}
  Count = 1
  MaxEntries = 2
  MaxFaults = 1
  MaxCrashes = 1
  MaxDead = 1
SPECIFICATION FairSpec
INVARIANTS TypeOK DeletedIsAcknowledged
PROPERTIES NoClaimOfBusyEntry EveryEntryHandedOut BrokerSpec
CHECK_DEADLOCK FALSE
