SPECIFICATION Spec
CONSTANTS
  Intents = {i1}
  Sessions = {s1}
  Runs = {r1}
  Outcomes = {"success_settlement"}
  Opening = 1
  FinalStatuses = {"SETTLED"}
  Faulty = FALSE
  MaxInFlight = 2
  NoIntent = NoIntent
  NoSession = NoSession
INVARIANT BusinessRulesNeverRaise

CHECK_DEADLOCK FALSE
