------------------------------ MODULE MCIntake ------------------------------
(***************************************************************************)
(* A small instance of Intake: three submissions of an employee with three  *)
(* days left, around midnight, and a request made elsewhere before.        *)
(***************************************************************************)
EXTENDS Intake, TLC

CONSTANTS s1, s2, s3, none

self == [employee |-> 1, location |-> "NYC"]

existingRow(employee, location) ==
  [employee |-> employee, location |-> location,
   start |-> 1, end |-> 1, days |-> 1, status |-> "PENDING"]
elsewhere == <<existingRow(3, "LON")>>

employee == [role |-> "employee", employee |-> 1, location |-> "NYC"]
manager == [role |-> "manager", employee |-> 2, location |-> "NYC"]
admin == [role |-> "admin", employee |-> 4, location |-> "LON"]

\* s1 comes too late at midnight.
dto == [s \in {s1, s2, s3} |->
  [start |-> IF s = s1 THEN 1 ELSE 2, end |-> IF s = s3 THEN 3 ELSE IF s = s2 THEN 2 ELSE 1]]

\* The last hour of day 1 and the first of day 2 by the clock on the wall.
midnight == {47 - Zone, 48 - Zone}

queries ==
  {[caller |-> manager, status |-> "PENDING"], [caller |-> admin, status |-> "ANY"],
   [caller |-> employee, status |-> "REJECTED"]}

=============================================================================
