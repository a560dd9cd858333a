SPECIFICATION SyncedSpec
CONSTANTS
  r1 = r1
  r2 = r2
  Requests = {r1}
  Balances <- OneRow
  Unsynced = {}
  Entitlement <- ThreeDays
  BalanceOf <- MCBalanceOf
  Days <- MCDays
  Handlers = {h1}
  Callers <- Everyone
  Ticks = {}
  TakeLimit = 1
  MaxRetries = 1
  AttemptBound = 0
  MaxLate = 0
  MaxFaults = 0
  MaxRequestId = 2
  Jobs = {j1}
  MaxPushes = 0
  MaxGrants = 0
  Bonuses = {}
  Webhooks = {}
  Batches = {}
  Reachable = {}
INVARIANT
  ReservedDaysAreHeld
CHECK_DEADLOCK FALSE
