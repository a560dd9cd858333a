-------------------------- MODULE MCTimeOffService --------------------------
(***************************************************************************)
(* Small instances of TimeOffService.  One employee in New York has four   *)
(* days of leave; a manager of that office, a manager of another, the      *)
(* employee and an admin may call the API.                                 *)
(***************************************************************************)
EXTENDS TimeOffService, TLC

CONSTANTS r1, r2

row == [employee |-> 1, location |-> "NYC", leaveType |-> "ANNUAL"]
MCBalances == {row}
MCEntitlement == row :> 4

\* Both requests fit, so that both can be under way at once.
MCBalanceOf == [r \in Requests |-> row]
MCDays == [r \in Requests |-> IF r = r1 THEN 2 ELSE 1]

employee == [role |-> "employee", employee |-> 1, location |-> "NYC"]
manager == [role |-> "manager", employee |-> 2, location |-> "NYC"]
outsider == [role |-> "manager", employee |-> 3, location |-> "LON"]
admin == [role |-> "admin", employee |-> 4, location |-> "LON"]

Staff == {employee, manager, outsider}
StaffAndAdmin == Staff \cup {admin}

=============================================================================
