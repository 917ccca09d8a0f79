SPECIFICATION ServicingSpec
CONSTANTS
  Schedule <- TwoInstallments
  GraceDays = 0
  MaxFees = 0
  DefaultRebatePct = 0
  StaffReferences = {s1}
  GatewayReferences = {g1}
  SettleReferences = {}
  Amounts = {1, 2}
  PromiseAmounts = {3}
  Days = {2, 3}
  RebateAsks <- ByBoth
  StaffVerdicts = {}
  MaxCharges = 3
PROPERTIES KeptPromiseIsPaid
