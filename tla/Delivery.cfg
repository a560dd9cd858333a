SPECIFICATION Spec
CONSTANTS
  r1 = r1
  r2 = r2
  Requests = {r1}
  Balances <- MCBalances
  Entitlement <- MCEntitlement
  BalanceOf <- MCBalanceOf
  Days <- MCDays
  Handlers = {h1}
  Callers <- StaffAndAdmin
  Ticks = {t1, t2}
  TakeLimit = 10
  MaxRetries = 2
  AttemptBound = 3
  MaxLate = 1
  MaxFaults = 1
  MaxRequestId = 3
INVARIANTS
  TypeOK
  ChargedOnce
  ApprovedHoldsDeduction
  ClaimsAreExclusive
PROPERTIES
  OnlyFaultsStrandRequests
  ImplementsLedger
CHECK_DEADLOCK FALSE
