SPECIFICATION Spec
CONSTANTS
  Accounts <- MCAccounts
  Seed <- MCSeed
  Keys = {k1, k2}
  NoKey = NoKey
  MaxRequestId = 4
  Employees = {1, 2}
  DayCounts = {1, 2}
  MaxTotal = 3
INVARIANTS
  HcmTypeOK
  DeductionsAreReversible
PROPERTY DaysConserved
