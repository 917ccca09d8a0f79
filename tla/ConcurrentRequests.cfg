SPECIFICATION Spec
CONSTANTS
  Principal = 3
  Fee = 1
  Payments <- ThePayments
  Deciders <- TheDeciders
  WrittenOff = 3
  Recoveries <- TheRecoveries
INVARIANT LedgerReproducesTheBalance
CHECK_DEADLOCK FALSE
