-------------------------- MODULE MCSyncedService --------------------------
(***************************************************************************)
(* Small instances of SyncedService: the employee of MCTimeOffService with *)
(* three days of annual leave, and a balance of sick leave that the first  *)
(* batch creates.                                                          *)
(***************************************************************************)
EXTENDS SyncedService, TLC

CONSTANTS r1, r2

annual == [employee |-> 1, location |-> "NYC", leaveType |-> "ANNUAL"]
sick == [employee |-> 1, location |-> "NYC", leaveType |-> "SICK"]

OneRow == {annual}
BothRows == {annual, sick}
OnlySick == {sick}
WholeBatch == {BothRows}
ThreeDays == [b \in Balances |-> IF b = annual THEN 3 ELSE 0]

\* The request takes all that there is, so that the HCM's total comes to zero.
TwoAndOne == [b \in Balances |-> IF b = annual THEN 2 ELSE 1]
MCBalanceOf == [r \in Requests |-> annual]
MCDays == [r \in Requests |-> IF r = r1 THEN 2 ELSE 1]

employee == [role |-> "employee", employee |-> 1, location |-> "NYC"]
manager == [role |-> "manager", employee |-> 2, location |-> "NYC"]
admin == [role |-> "admin", employee |-> 4, location |-> "LON"]
Everyone == {employee, manager, admin}

=============================================================================
