SPECIFICATION Spec
CONSTANTS
  a1 = a1
  a2 = a2
  a3 = a3
  a4 = a4
  c1 = c1
  c2 = c2
  c3 = c3
  c4 = c4
  NoCode = NoCode
  Types = {t1}
  References = {r1}
  AmountRows <- Read
  Rows = {a1, a2, a3, a4}
  SeedCode <- Seeded
  Codes = {c1, c2, c3, c4}
  Rules <- OtherRules
  SeedRule <- FirstRule
  LastDay = 2
  Horizon = 2
  MaxVersions = 3
  MaxPending = 2
  MaxAccepted = 2
INVARIANT CurrentRulesOnActiveAccounts
