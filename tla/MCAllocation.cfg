SPECIFICATION AllocationSpec
CONSTANTS
  Length = 2
  MaxOwed = 2
  MaxPayment = 4
INVARIANTS OldestFirstFeesFirst ExactlyTheAmount SplitMakesNoDifference
CHECK_DEADLOCK FALSE
