SPECIFICATION SynchronousSpec
CONSTANTS
  r1 = r1
  r2 = r2
  Requests = {r1, r2}
  Balances <- MCBalances
  Entitlement <- MCEntitlement
  BalanceOf <- MCBalanceOf
  Days <- MCDays
  Handlers = {h1}
  Callers <- Staff
  Ticks = {t1, t2}
  TakeLimit = 10
  MaxRetries = 2
  AttemptBound = 0
  MaxLate = 0
  MaxFaults = 0
  MaxRequestId = 2
PROPERTY
  BackoffHonoured
CHECK_DEADLOCK FALSE
