SPECIFICATION Spec
CONSTANTS
  Contracts = {c1}
  Profiles <- Some
  PaymentCounts = {3}
  NewProfiles <- Fresh
  OverrideAsks <- Asks
  Validity = 30
  Dates = {0, 30, 90}
  ConfigChanges <- Banded
  MaxRuns = 3
  MaxOverrides = 2
  MaxRows = 3
INVARIANTS AllowanceIsProvision OverridesAgree NoUncuredDowngrade
CHECK_DEADLOCK FALSE
