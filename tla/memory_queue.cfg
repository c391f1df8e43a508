CONSTANTS
  Jobs = {j1, j2}
  Consumers = {c1, c2}
  Callers = {p1, p2}
  NoMsg = NoMsg
  Count = 2
  MaxMessages = 3
SPECIFICATION FairSpec
INVARIANTS TypeOK NoLostWakeup
PROPERTIES EveryMessageDelivered BrokerSpec
CHECK_DEADLOCK FALSE
