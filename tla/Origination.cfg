SPECIFICATION Spec
CONSTANTS
  Customer <- TheCustomers
  Applications <- TheApplications
  CashPrice = 13
  OpeningStock = 1
  Adjustments <- TheAdjustments
  Downs = {3, 5}
  Tenors = {2, 3}
  Config <- TheConfig
  MaxApplications = 2
  MaxOffers = 2
  MaxRows = 4
  MaxCorrection = 1
  Dates = {2}
INVARIANTS StockAddsUp PlanAddsUp
PROPERTY OnlyTheLatestIsAccepted
CHECK_DEADLOCK FALSE
