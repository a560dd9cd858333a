SPECIFICATION Spec
CONSTANTS
  r1 = r1
  r2 = r2
  r3 = r3
  r4 = r4
  b1 = b1
  b2 = b2
  Requests = {r1, r2, r3, r4}
  Balances = {b1, b2}
  Entitlement <- MCEntitlement
  BalanceOf <- MCBalanceOf
  Days <- MCDays
INVARIANTS
  TypeOK
  HeldDaysReserved
  TakenDaysUsed
  NoOverdraft
  ApprovedIsDeducted
  DeductionIsOwedOrReversible
  IntentsMatchStatus
CHECK_DEADLOCK FALSE
