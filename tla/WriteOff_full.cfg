SPECIFICATION WriteOffSpec
CONSTANTS
  Schedule <- TwoInstallments
  GraceDays = 0
  MaxFees = 0
  DefaultRebatePct = 0
  StaffReferences = {}
  GatewayReferences = {g1}
  SettleReferences = {e1}
  Amounts = {2, 3}
  PromiseAmounts = {}
  Days = {2}
  RebateAsks = {}
  StaffVerdicts = {}
  MaxCharges = 1
  PartialAsks <- Asks
  PartialAllowed = TRUE
  RecoveryOrders <- Orders
  MaxWriteOffs = 2
PROPERTIES FullLeavesNothing
