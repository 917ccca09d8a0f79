SPECIFICATION BooksSpec
CONSTANTS
  Schedule <- TwoInstallments
  GraceDays = 0
  MaxFees = 0
  DefaultRebatePct = 0
  StaffReferences = {s1}
  GatewayReferences = {g1}
  SettleReferences = {e1}
  Amounts = {1, 5}
  PromiseAmounts = {}
  Days = {2, 3}
  RebateAsks <- ByBoth
  StaffVerdicts = {}
  MaxCharges = 3
  PartialAsks = {}
  PartialAllowed = TRUE
  RecoveryOrders = {}
  MaxWriteOffs = 0
  DownPayment = 2
  CancelRefund = 1
  Provision = 0
INVARIANTS UnearnedAddsUp CashIsReceived LedgerExplainsTheSchedule ScheduleAgrees OverdueHasCase OneLiveFee ReceivableAccountAgrees UnearnedAccountAgrees
PROPERTIES KeepsAccount
