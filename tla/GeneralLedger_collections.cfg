SPECIFICATION BooksSpec
CONSTANTS
  Schedule <- TwoInstallments
  GraceDays = 0
  MaxFees = 2
  DefaultRebatePct = 0
  StaffReferences = {s1}
  GatewayReferences = {g1}
  SettleReferences = {e1}
  Amounts = {1, 3}
  PromiseAmounts = {3}
  Days = {2, 3}
  RebateAsks = {}
  StaffVerdicts = {"kept", "broken"}
  MaxCharges = 2
  PartialAsks = {}
  PartialAllowed = TRUE
  RecoveryOrders = {}
  MaxWriteOffs = 0
  DownPayment = 2
  CancelRefund = 1
  Provision = 0
INVARIANT FeesWithinCap
PROPERTY PaidPromiseIsNotPursued
