SPECIFICATION FairSyncedSpec
CONSTANTS
  r1 = r1
  r2 = r2
  Requests = {r1}
  Balances <- BothRows
  Unsynced = {}
  Entitlement <- TwoAndOne
  BalanceOf <- MCBalanceOf
  Days <- MCDays
  Handlers = {h1}
  Callers <- Everyone
  Ticks = {t1}
  TakeLimit = 1
  MaxRetries = 1
  AttemptBound = 0
  MaxLate = 0
  MaxFaults = 0
  MaxRequestId = 2
  Jobs = {j1}
  MaxPushes = 1
  MaxGrants = 0
  Bonuses = {}
  Webhooks <- OneRow
  Batches <- WholeBatch
  Reachable <- OneRow
PROPERTIES
  BalanceCatchesUp
CHECK_DEADLOCK FALSE
