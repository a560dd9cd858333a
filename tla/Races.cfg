SPECIFICATION Spec
CONSTANTS
  r1 = r1
  r2 = r2
  Requests = {r1, r2}
  Balances <- MCBalances
  Entitlement <- MCEntitlement
  BalanceOf <- MCBalanceOf
  Days <- MCDays
  Handlers = {h1, h2}
  Callers <- Staff
  Ticks = {t1}
  TakeLimit = 10
  MaxRetries = 1
  AttemptBound = 0
  MaxLate = 0
  MaxFaults = 0
  MaxRequestId = 2
INVARIANTS
  OneEventPerIntent
  DoneMeansDelivered
PROPERTY ImplementsLedger
CHECK_DEADLOCK FALSE
