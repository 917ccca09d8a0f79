SPECIFICATION FairSpec
CONSTANTS
  Intents = {i1}
  Sessions = {s1}
  Runs = {r1}
  Outcomes = {"success_settlement", "delayed_settlement", "settle_then_reverse", "duplicate_webhook", "customer_cancel", "timeout", "success_authorization_only"}
  Opening = 2
  FinalStatuses = {"SETTLED"}
  Faulty = FALSE
  MaxInFlight = 3
  NoIntent = NoIntent
  NoSession = NoSession
PROPERTY SettlementArrives

CHECK_DEADLOCK FALSE
