SPECIFICATION SyncedSpec
CONSTANTS
  r1 = r1
  r2 = r2
  Requests = {r1}
  Balances <- BothRows
  Unsynced <- OnlySick
  Entitlement <- ThreeDays
  BalanceOf <- MCBalanceOf
  Days <- MCDays
  Handlers = {h1}
  Callers <- Everyone
  Ticks = {t1}
  TakeLimit = 10
  MaxRetries = 2
  AttemptBound = 3
  MaxLate = 0
  MaxFaults = 1
  MaxRequestId = 2
  Jobs = {}
  MaxPushes = 1
  MaxGrants = 1
  Bonuses = {1, 3}
  Webhooks <- BothRows
  Batches <- WholeBatch
  Reachable = {}
INVARIANTS
  SyncedTypeOK
  BooksSurviveSync
  NothingOverpromised
  CancelledDaysReturned
PROPERTIES
  BackoffHonoured
  AttemptsCounted
  OverdraftsAreTold
  ImplementsGrantedLedger
CHECK_DEADLOCK FALSE
