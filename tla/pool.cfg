CONSTANTS
  Messages <- MCMessages
  NoMsg = NoMsg
  Backlog <- MCBacklog
  Loops = {g1, g2}
  PoolSize <- MCPoolSize
  Hanging = {2}
  OldCounts = {2}
SPECIFICATION FairSpec
INVARIANTS TypeOK ActiveWithinOne
PROPERTIES FetchedIsHandled ShutdownEnds DeliverySpec
CHECK_DEADLOCK FALSE
