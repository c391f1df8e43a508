CONSTANTS
  Jobs = {j1}
  Orders <- MCOrders
  MaxAttempts = 2
  MaxStops <- StopsOf
  Deployments <- AllDeployments
  MaxErrors = 2
  MaxDuplicates = 1
SPECIFICATION FairSpec
INVARIANTS TypeOK AcceptedSurvives OnlyFailuresCount
PROPERTIES EventuallySettled
CHECK_DEADLOCK FALSE
