SPECIFICATION IntakeSpec
CONSTANTS
  s1 = s1
  s2 = s2
  s3 = s3
  none = none
  Zone = 9
  Submissions = {s1, s2, s3}
  None = none
  Employee <- self
  Dto <- dto
  Instants <- midnight
  TotalDays = 3
  Existing <- elsewhere
  Walkers = {w1}
  Queries <- queries
  AnyStatus = "ANY"
  Limit = 1
  Decisions = {"REJECTED"}
INVARIANTS
  IntakeTypeOK
  OneAtATime
  LocksAreForgotten
  FirstAttemptDecides
  StoredDaysAreCalendarDays
  WalkMissesNothing
  WalkStaysInScope
PROPERTIES
  SubmitIsAtomic
  SubmissionsReturn
CHECK_DEADLOCK FALSE
