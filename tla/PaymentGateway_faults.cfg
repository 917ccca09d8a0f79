SPECIFICATION Spec
CONSTANTS
  Intents = {i1}
  Sessions = {s1}
  Runs = {r1, r2}
  Outcomes = {"success_settlement", "insufficient_funds", "refund", "partial_refund", "chargeback"}
  Opening = 1
  FinalStatuses = {"SETTLED"}
  Faulty = TRUE
  MaxInFlight = 2
  NoIntent = NoIntent
  NoSession = NoSession
INVARIANTS TypeOK SettledIsAllocated ReversalIsCompensated AllocationIsVerified HistoryAgrees
SYMMETRY Symmetry
CHECK_DEADLOCK FALSE
