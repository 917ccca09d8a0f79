SPECIFICATION Spec
CONSTANTS
  Intents = {i1}
  Sessions = {s1, s2}
  Runs = {r1, r2}
  Outcomes = {"settle_then_reverse", "delayed_settlement", "partial_refund", "invalid_signature"}
  Opening = 2
  FinalStatuses = {"SETTLED", "CAPTURED"}
  Faulty = FALSE
  MaxInFlight = 3
  NoIntent = NoIntent
  NoSession = NoSession
INVARIANTS MoneyConserved
PROPERTIES KeepsPromise TerminalIsFinal
SYMMETRY Symmetry
CHECK_DEADLOCK FALSE
