SPECIFICATION Spec
CONSTANTS
  Payment <- ThePayments
  GatewayPayments = {"g1"}
  Rows <- TheRows
  Tolerance = 1
  BatchReferences = {"d1"}
  FeedItems <- TheItems
  Days = {1}
  MaxLines = 2
  MaxFeed = 2
  MaxRequests = 1
INVARIANT StatusIsExplained
PROPERTIES ReconciledStays SweepIsComplete
CHECK_DEADLOCK FALSE
