---------------------------- MODULE IntakeProofs ----------------------------
(***************************************************************************)
(* The employee's lock lets in one submission at a time and is forgotten   *)
(* afterwards, for any number of submissions; and the date rules are those *)
(* of a calendar wherever the process runs at UTC or east of it.           *)
(*                                                                         *)
(* The submissions at the lock form a chain, each waiting for the one that *)
(* came before it.  The invariant says so by their turns: the map holds    *)
(* the last of them, whoever waits for nobody is the first of them, and    *)
(* otherwise a submission comes right after the one it waits for.          *)
(*                                                                         *)
(* So whoever is inside is alone, its transaction is the only one, and     *)
(* what is committed changes by whole requests.  A listing walks through   *)
(* the committed rows, which nothing takes away: its cursor is the last id *)
(* it has met, and below it nothing that matched all the time is missing.  *)
(***************************************************************************)
EXTENDS Intake, FiniteSetTheorems, SequenceTheorems, TLAPS

IsFirst(s) == \A t \in Submissions : Waiting(t) => turn[s] <= turn[t]

LockTypes ==
  /\ stage \in [Submissions -> Stages]
  /\ prev \in [Submissions -> Submissions \cup {None}]
  /\ lastLock \in Submissions \cup {None}
  /\ turn \in [Submissions -> Nat]

MapHoldsTheLast ==
  /\ lastLock = None => \A s \in Submissions : ~Waiting(s)
  /\ lastLock # None =>
       /\ Waiting(lastLock)
       /\ \A s \in Submissions : Waiting(s) => turn[s] <= turn[lastLock]

TurnsDiffer ==
  \A s, t \in Submissions : Waiting(s) /\ Waiting(t) /\ turn[s] = turn[t] => s = t

InLine ==
  \A s \in Submissions : Waiting(s) =>
    /\ Resolved(prev[s]) => IsFirst(s)
    /\ ~Resolved(prev[s]) => Waiting(prev[s]) /\ turn[s] = turn[prev[s]] + 1

InsideIsFirst == \A s \in Submissions : stage[s] \in Inside => IsFirst(s)

LockInv == LockTypes /\ MapHoldsTheLast /\ TurnsDiffer /\ InLine /\ InsideIsFirst

-----------------------------------------------------------------------------
\* A submission that has the lock goes on with it.
Goes(s) ==
  /\ stage[s] \in Inside
  /\ \E where \in Inside : Goto(s, where)
  /\ UNCHANGED <<prev, lastLock, turn>>

\* At the start nobody is at the lock, and the map is empty.
LEMMA InitLocks == IntakeInit => LockInv
BY SubmissionAssumption DEF IntakeInit, SubmissionInit, LockInv, LockTypes, MapHoldsTheLast,
   TurnsDiffer, InLine, InsideIsFirst, Waiting, Inside, Stages

\* Behind the lock nothing happens to the lock.
LEMMA TransactionGoes ==
  ASSUME NEW s \in Submissions,
         \/ Begin(s) \/ FailToBegin(s) \/ FindEmployee(s) \/ ReadBalance(s) \/ Reserve(s)
         \/ InsertRow(s) \/ Commit(s) \/ Throw(s) \/ Rollback(s)
  PROVE  Goes(s)
<1>1. CASE Begin(s) \/ FailToBegin(s) \/ FindEmployee(s) \/ ReadBalance(s) \/ InsertRow(s) \/ Commit(s)
  BY <1>1 DEF Begin, FailToBegin, FindEmployee, ReadBalance, InsertRow, Commit, Step, Goes, Inside
<1>2. CASE Reserve(s)
  BY <1>2 DEF Reserve, Goes, Goto, Inside
<1>3. CASE Throw(s)
  BY <1>3 DEF Throw, Goes, Inside
<1>4. CASE Rollback(s)
  BY <1>4 DEF Rollback, AfterRollback, Goes, Inside
<1> QED BY <1>1, <1>2, <1>3, <1>4

\* Moving on with the lock leaves the chain as it is.
LEMMA GoesKeepsLocks ==
  ASSUME LockInv, NEW s \in Submissions, Goes(s)
  PROVE  LockInv'
<1> USE DEF LockInv
<1>1. PICK where \in Inside : stage' = [stage EXCEPT ![s] = where]
  BY DEF Goes, Goto
<1>2. UNCHANGED <<prev, lastLock, turn>> /\ stage[s] \in Inside
  BY DEF Goes
<1>3. \A t \in Submissions : /\ Waiting(t)' <=> Waiting(t)
                             /\ stage'[t] \in Inside <=> stage[t] \in Inside
                             /\ stage'[t] = "returned" <=> stage[t] = "returned"
  BY <1>1, <1>2 DEF Waiting, LockTypes, Inside
<1>4. \A t \in Submissions : Resolved(prev[t])' <=> Resolved(prev[t])
  BY <1>2, <1>3 DEF Resolved
<1>5. \A t \in Submissions : IsFirst(t)' <=> IsFirst(t)
  BY <1>2, <1>3 DEF IsFirst
<1>6. LockTypes'
  BY <1>1, <1>2 DEF LockTypes, Stages
<1>7. MapHoldsTheLast'
  BY <1>2, <1>3 DEF MapHoldsTheLast, LockTypes
<1>8. TurnsDiffer'
  BY <1>2, <1>3 DEF TurnsDiffer
<1>9. InLine'
  BY <1>2, <1>3, <1>4, <1>5 DEF InLine, LockTypes, Resolved
<1>10. InsideIsFirst'
  BY <1>3, <1>5 DEF InsideIsFirst
<1> QED BY <1>6, <1>7, <1>8, <1>9, <1>10

\* A newcomer takes the turn after the last one, and its place in the map.
LEMMA SubmitKeepsLocks ==
  ASSUME LockInv, NEW s \in Submissions, Submit(s)
  PROVE  LockInv'
<1> USE SubmissionAssumption DEF LockInv
<1>1. /\ stage[s] = "new"
      /\ stage' = [stage EXCEPT ![s] = "queued"]
      /\ prev' = [prev EXCEPT ![s] = lastLock]
      /\ lastLock' = s
      /\ turn' = [turn EXCEPT ![s] = NextTurn]
  BY DEF Submit, Enqueue, Step, Goto
<1>2. ~Waiting(s) /\ Waiting(s)'
  BY <1>1 DEF Waiting, Inside, LockTypes
<1>3. \A t \in Submissions \ {s} : /\ stage'[t] = stage[t]
                                   /\ prev'[t] = prev[t]
                                   /\ turn'[t] = turn[t]
                                   /\ Waiting(t)' <=> Waiting(t)
  BY <1>1 DEF Waiting, LockTypes
<1>4. NextTurn \in Nat /\ turn'[s] = NextTurn
  BY <1>1 DEF NextTurn, LockTypes
<1>5. \A t \in Submissions \ {s} : Waiting(t) => turn[t] < NextTurn
  BY <1>1 DEF NextTurn, MapHoldsTheLast, LockTypes
<1>6. LockTypes'
  BY <1>1, <1>4 DEF LockTypes, Stages
<1>7. MapHoldsTheLast'
  BY <1>1, <1>2, <1>3, <1>4, <1>5 DEF MapHoldsTheLast, LockTypes
<1>8. TurnsDiffer'
  BY <1>2, <1>3, <1>4, <1>5 DEF TurnsDiffer, LockTypes
<1>9. \A t \in Submissions \ {s} : Waiting(t) /\ IsFirst(t) => IsFirst(t)'
  BY <1>2, <1>3, <1>4, <1>5 DEF IsFirst, LockTypes
<1>10. \A t \in Submissions \ {s} : Resolved(prev[t])' <=> Resolved(prev[t])
  <2> TAKE t \in Submissions \ {s}
  <2>1. {u \in Submissions : stage'[u] = "returned"} = {u \in Submissions : stage[u] = "returned"}
    BY <1>1 DEF LockTypes
  <2> QED BY <2>1, <1>3 DEF Resolved
<1>11. InLine'
  <2> SUFFICES ASSUME NEW t \in Submissions, Waiting(t)'
               PROVE  /\ Resolved(prev[t])' => IsFirst(t)'
                      /\ ~Resolved(prev[t])' => Waiting(prev[t])' /\ turn'[t] = turn'[prev'[t]] + 1
    BY DEF InLine
  <2>1. CASE t # s
    <3>1. prev[t] # s
      BY <2>1, <1>1, <1>2, <1>3 DEF InLine, Resolved, LockTypes
    <3>2. PICK p \in Submissions \cup {None} : p = prev[t] /\ p = prev'[t] /\ p # s
      BY <2>1, <3>1, <1>3 DEF LockTypes
    <3>3. Waiting(t) /\ turn'[t] = turn[t]
      BY <2>1, <1>3
    <3>4. p \in Submissions => (Waiting(p)' <=> Waiting(p)) /\ turn'[p] = turn[p]
      BY <3>2, <1>3
    <3>5. Resolved(p)' <=> Resolved(p)
      BY <2>1, <3>2, <1>10
    <3>6. Resolved(p) => IsFirst(t)'
      BY <2>1, <3>2, <3>3, <1>9 DEF InLine
    <3>7. ~Resolved(p) => p \in Submissions /\ Waiting(p) /\ turn[t] = turn[p] + 1
      BY <3>2, <3>3 DEF InLine, Resolved
    <3> QED BY <3>2, <3>3, <3>4, <3>5, <3>6, <3>7
  <2>2. CASE t = s /\ lastLock = None
    BY <2>2, <1>1, <1>2, <1>3, <1>4 DEF Resolved, IsFirst, MapHoldsTheLast, LockTypes
  <2>3. CASE t = s /\ lastLock # None
    <3>1. PICK p \in Submissions \ {s} : p = lastLock /\ Waiting(p)
      BY <2>3, <1>2 DEF MapHoldsTheLast, LockTypes
    <3>2. prev'[s] = p /\ turn'[s] = turn'[p] + 1 /\ Waiting(p)'
      BY <2>3, <3>1, <1>1, <1>3, <1>4 DEF NextTurn, LockTypes
    <3>3. ~Resolved(p)'
      BY <3>1, <3>2 DEF Resolved, Waiting, Inside
    <3> QED BY <2>3, <3>2, <3>3
  <2> QED BY <2>1, <2>2, <2>3
<1>12. InsideIsFirst'
  <2> SUFFICES ASSUME NEW t \in Submissions, stage'[t] \in Inside PROVE IsFirst(t)'
    BY DEF InsideIsFirst
  <2>1. t # s
    BY <1>1 DEF Inside, LockTypes
  <2> QED BY <2>1, <1>3, <1>9 DEF InsideIsFirst, Waiting
<1> QED BY <1>6, <1>7, <1>8, <1>11, <1>12

\* A submission whose dates are refused never comes to the lock.
LEMMA RefusalKeepsLocks ==
  ASSUME LockInv, NEW s \in Submissions, RefuseDates(s)
  PROVE  LockInv'
<1> USE DEF LockInv
<1>1. stage[s] = "new" /\ stage' = [stage EXCEPT ![s] = "refused"] /\ UNCHANGED <<prev, lastLock, turn>>
  BY DEF RefuseDates, Step, Goto
<1>2. \A t \in Submissions : /\ Waiting(t)' <=> Waiting(t)
                             /\ stage'[t] \in Inside <=> stage[t] \in Inside
                             /\ stage'[t] = "returned" <=> stage[t] = "returned"
  BY <1>1 DEF Waiting, LockTypes, Inside
<1>3. \A t \in Submissions : Resolved(prev[t])' <=> Resolved(prev[t])
  BY <1>1, <1>2 DEF Resolved
<1>4. \A t \in Submissions : IsFirst(t)' <=> IsFirst(t)
  BY <1>1, <1>2 DEF IsFirst
<1>5. LockTypes'
  BY <1>1 DEF LockTypes, Stages, Inside
<1>6. MapHoldsTheLast'
  BY <1>1, <1>2 DEF MapHoldsTheLast, LockTypes
<1>7. TurnsDiffer' /\ InsideIsFirst'
  BY <1>1, <1>2, <1>4 DEF TurnsDiffer, InsideIsFirst
<1>8. InLine'
  BY <1>1, <1>2, <1>3, <1>4 DEF InLine, LockTypes, Resolved
<1> QED BY <1>5, <1>6, <1>7, <1>8

\* Whoever is let in waits for nobody, so it is the first in line.
LEMMA LockKeepsLocks ==
  ASSUME LockInv, NEW s \in Submissions, Lock(s)
  PROVE  LockInv'
<1> USE DEF LockInv
<1>1. /\ stage[s] = "queued" /\ stage' = [stage EXCEPT ![s] = "locked"]
      /\ Resolved(prev[s])
      /\ UNCHANGED <<prev, lastLock, turn>>
  BY DEF Lock, Step, Goto
<1>2. \A t \in Submissions : /\ Waiting(t)' <=> Waiting(t)
                             /\ stage'[t] = "returned" <=> stage[t] = "returned"
  BY <1>1 DEF Waiting, LockTypes, Inside
<1>3. \A t \in Submissions : Resolved(prev[t])' <=> Resolved(prev[t])
  BY <1>1, <1>2 DEF Resolved
<1>4. \A t \in Submissions : IsFirst(t)' <=> IsFirst(t)
  BY <1>1, <1>2 DEF IsFirst
<1>5. LockTypes'
  BY <1>1 DEF LockTypes, Stages, Inside
<1>6. MapHoldsTheLast'
  BY <1>1, <1>2 DEF MapHoldsTheLast, LockTypes
<1>7. TurnsDiffer'
  BY <1>1, <1>2 DEF TurnsDiffer
<1>8. InLine'
  BY <1>1, <1>2, <1>3, <1>4 DEF InLine, LockTypes, Resolved
<1>9. InsideIsFirst'
  <2> SUFFICES ASSUME NEW t \in Submissions, stage'[t] \in Inside PROVE IsFirst(t)
    BY <1>4 DEF InsideIsFirst
  <2>1. CASE t = s
    BY <2>1, <1>1 DEF InLine, Waiting
  <2>2. CASE t # s
    BY <2>2, <1>1 DEF InsideIsFirst, LockTypes
  <2> QED BY <2>1, <2>2
<1> QED BY <1>5, <1>6, <1>7, <1>8, <1>9

\* Whoever leaves was the first in line, and the one that waits for it comes
\* next.  If the map still holds the leaver, it was the last as well, and
\* nobody is left.
LEMMA UnlockKeepsLocks ==
  ASSUME LockInv, NEW s \in Submissions, Unlock(s)
  PROVE  LockInv'
<1> USE SubmissionAssumption DEF LockInv
<1>1. /\ stage[s] = "done" /\ stage' = [stage EXCEPT ![s] = "returned"]
      /\ lastLock' = IF lastLock = s THEN None ELSE lastLock
      /\ UNCHANGED <<prev, turn>>
  BY DEF Unlock, Step, Goto, ForgetLock
<1>2. IsFirst(s) /\ Waiting(s) /\ ~Waiting(s)'
  BY <1>1 DEF InsideIsFirst, Waiting, Inside, LockTypes
<1>3. \A t \in Submissions \ {s} : stage'[t] = stage[t] /\ (Waiting(t)' <=> Waiting(t))
  BY <1>1 DEF Waiting, LockTypes
<1>4. \A t \in Submissions \ {s} : Waiting(t) => turn[t] > turn[s]
  <2> SUFFICES ASSUME NEW t \in Submissions \ {s}, Waiting(t) PROVE turn[t] > turn[s]
    OBVIOUS
  <2>1. turn[s] <= turn[t] /\ turn[s] # turn[t]
    BY <1>2 DEF IsFirst, TurnsDiffer
  <2>2. turn[s] \in Nat /\ turn[t] \in Nat
    BY DEF LockTypes
  <2> HIDE DEF LockInv
  <2> QED BY <2>1, <2>2
<1>5. \A t \in Submissions \ {s} : IsFirst(t) => IsFirst(t)'
  BY <1>1, <1>2, <1>3 DEF IsFirst
<1>6. LockTypes'
  BY <1>1 DEF LockTypes, Stages, Inside
<1>7. MapHoldsTheLast'
  BY <1>1, <1>2, <1>3, <1>4 DEF MapHoldsTheLast, LockTypes
<1>8. TurnsDiffer'
  BY <1>1, <1>2, <1>3 DEF TurnsDiffer
<1>9. InLine'
  <2> SUFFICES ASSUME NEW t \in Submissions \ {s}, Waiting(t)
               PROVE  /\ Resolved(prev[t])' => IsFirst(t)'
                      /\ ~Resolved(prev[t])' => Waiting(prev[t])' /\ turn'[t] = turn'[prev'[t]] + 1
    BY <1>2, <1>3 DEF InLine
  <2>1. PICK p \in Submissions \cup {None} : p = prev[t] /\ p = prev'[t]
    BY <1>1 DEF LockTypes
  <2>2. CASE p = s
    <3>1. turn[t] = turn[s] + 1
      BY <2>1, <2>2, <1>1 DEF InLine, Resolved
    <3>2. \A u \in Submissions \ {s} : Waiting(u) => turn[t] <= turn[u]
      BY <3>1, <1>4 DEF LockTypes
    <3>3. IsFirst(t)'
      BY <3>2, <1>1, <1>2, <1>3 DEF IsFirst
    <3>4. Resolved(p)'
      BY <2>2, <1>1 DEF Resolved, LockTypes
    <3> QED BY <2>1, <3>3, <3>4
  <2>3. CASE p # s
    <3>1. Resolved(p)' <=> Resolved(p)
      BY <2>3, <1>1 DEF Resolved, LockTypes
    <3>2. Resolved(p) => IsFirst(t)'
      BY <2>1, <1>5 DEF InLine
    <3>3. ~Resolved(p) => p \in Submissions \ {s} /\ Waiting(p)' /\ turn'[t] = turn'[p] + 1
      BY <2>1, <2>3, <1>1, <1>3 DEF InLine, Resolved
    <3> QED BY <2>1, <3>1, <3>2, <3>3
  <2> QED BY <2>2, <2>3
<1>10. InsideIsFirst'
  <2> SUFFICES ASSUME NEW t \in Submissions, stage'[t] \in Inside PROVE IsFirst(t)'
    BY DEF InsideIsFirst
  <2>1. t # s
    BY <1>1 DEF Inside, LockTypes
  <2> QED BY <2>1, <1>3, <1>5 DEF InsideIsFirst
<1> QED BY <1>6, <1>7, <1>8, <1>9, <1>10

\* Listings and decisions do not touch the lock; every step of a submission
\* keeps the chain.
LEMMA StepKeepsLocks == LockInv /\ [IntakeNext]_intakeVars => LockInv'
<1> SUFFICES ASSUME LockInv, [IntakeNext]_intakeVars PROVE LockInv'
  OBVIOUS
<1>1. CASE SubmissionNext
  <2> PICK s \in Submissions : RefuseDates(s) \/ Submit(s) \/ Proceed(s)
    BY <1>1 DEF SubmissionNext
  <2>1. CASE RefuseDates(s)
    BY <2>1, RefusalKeepsLocks
  <2>2. CASE Submit(s)
    BY <2>2, SubmitKeepsLocks
  <2>3. CASE Proceed(s)
    BY <2>3, LockKeepsLocks, UnlockKeepsLocks, TransactionGoes, GoesKeepsLocks DEF Proceed
  <2> QED BY <2>1, <2>2, <2>3
<1>2. CASE UNCHANGED lockVars
  BY <1>2 DEF lockVars, LockInv, LockTypes, MapHoldsTheLast, TurnsDiffer, InLine, InsideIsFirst,
     IsFirst, Waiting, Resolved
<1> QED BY <1>1, <1>2 DEF IntakeNext, Decide, intakeVars, submissionVars, lockVars

-----------------------------------------------------------------------------
\* The promises of withEmployeeLock always form one chain, from the submission
\* that has the lock to the one that the map holds.
THEOREM LocksInvariant == IntakeSpec => []LockInv
BY InitLocks, StepKeepsLocks, PTL DEF IntakeSpec

\* withEmployeeLock lets in one submission at a time, however many there are.
THEOREM MutualExclusion == IntakeSpec => []OneAtATime
<1>1. LockInv => OneAtATime
  <2> SUFFICES ASSUME LockInv, NEW s \in Submissions, NEW t \in Submissions,
                      stage[s] \in Inside, stage[t] \in Inside
               PROVE  s = t
    BY DEF OneAtATime
  <2>1. turn[s] = turn[t]
    BY DEF LockInv, LockTypes, InsideIsFirst, IsFirst, Waiting
  <2> QED BY <2>1 DEF LockInv, TurnsDiffer, Waiting
<1> QED BY <1>1, LocksInvariant, PTL

\* reservationLocks keeps no entry for an employee who submits nothing.
THEOREM MapIsEmptied == IntakeSpec => []LocksAreForgotten
<1>1. LockInv => LocksAreForgotten
  BY DEF LockInv, LockTypes, MapHoldsTheLast, LocksAreForgotten
<1> QED BY <1>1, LocksInvariant, PTL

-----------------------------------------------------------------------------
\* calculateDaysRequested counts the days of the calendar, both ends included.
LEMMA DaysAreCounted ==
  ASSUME NEW start \in Nat, NEW end \in Nat, start <= end
  PROVE  /\ DaysRequested(start, end) \in Nat \ {0}
         /\ DaysRequested(start, end) = Cardinality(CalendarDays(start, end))
<1>1. DaysRequested(start, end) = end - start + 1
  BY DEF DaysRequested, RoundToDays, NewDate
<1>2. Cardinality(start..end) = end - start + 1
  BY FS_Interval
<1> QED BY <1>1, <1>2 DEF CalendarDays

\* At UTC and east of it, submitRequest accepts exactly the dates from today on
\* whose end does not come before their start.
THEOREM DatesAcceptedFromToday ==
  ASSUME Zone >= 0, NEW hour \in Nat, NEW start \in Nat, NEW end \in Nat
  PROVE  DatesAccepted(start, end, hour) <=> LocalDate(hour) <= start /\ start <= end
<1>1. start <= end => DaysRequested(start, end) > 0
  BY DaysAreCounted
<1>2. NewDate(end) >= NewDate(start) <=> start <= end
  BY DEF NewDate
<1>3. NewDate(start) >= Today(hour) <=> LocalDate(hour) <= start
  BY ZoneAssumption DEF NewDate, Today, LocalDate
<1> QED BY <1>1, <1>2, <1>3 DEF DatesAccepted

\* West of UTC it refuses a request for the same day: midnight UTC, by which the
\* date is taken, comes before local midnight.
THEOREM SameDayRefusedInTheWest ==
  ASSUME Zone < 0, NEW hour \in Nat, NEW end \in Nat
  PROVE  ~DatesAccepted(LocalDate(hour), end, hour)
BY ZoneAssumption DEF DatesAccepted, NewDate, Today, LocalDate

-----------------------------------------------------------------------------
\* Rows are inserted for good dates only, and a rollback brings back nothing
\* but rows that were there.
GoodTable(tb) ==
  /\ tb \in Seq(Row)
  /\ \A id \in DOMAIN tb \ DOMAIN Existing : HasCalendarDays(tb[id])

Balance == [reserved : Int, version : Int]

Submitted == \A s \in Submissions : stage[s] \notin {"new", "refused"} => HasGoodDates(s)

RowTypes ==
  /\ now \in Nat
  /\ row \in Balance
  /\ saved \in Seq([row : Balance, table : Seq(Row)])

RowInv ==
  /\ RowTypes /\ Submitted
  /\ GoodTable(table)
  /\ \A n \in DOMAIN saved : GoodTable(saved[n].table)

\* No submission takes as long as an hour.
LEMMA TimeStands == [IntakeNext]_intakeVars => now' = now
BY DEF IntakeNext, SubmissionNext, Proceed, RefuseDates, Submit, Lock, Unlock, Begin, FailToBegin,
   FindEmployee, ReadBalance, Reserve, InsertRow, Commit, Throw, Rollback, Decide,
   localVars, submissionVars, intakeVars

\* Only good dates come to the lock.
LEMMA StepKeepsSubmitted == LockTypes /\ Submitted /\ [IntakeNext]_intakeVars => Submitted'
<1> SUFFICES ASSUME LockTypes, Submitted, [IntakeNext]_intakeVars PROVE Submitted'
  OBVIOUS
<1>1. now' = now
  BY TimeStands
<1>2. CASE UNCHANGED lockVars
  BY <1>1, <1>2 DEF lockVars, Submitted, HasGoodDates
<1>3. ASSUME NEW s \in Submissions, RefuseDates(s) \/ Submit(s) \/ Proceed(s)
      PROVE  Submitted'
  <2>1. CASE RefuseDates(s)
    BY <2>1, <1>1 DEF RefuseDates, Step, Goto, Submitted, HasGoodDates, LockTypes
  <2>2. CASE Submit(s)
    BY <2>2, <1>1 DEF Submit, Enqueue, Step, Goto, Submitted, HasGoodDates, LockTypes
  <2>3. CASE Lock(s) \/ Unlock(s)
    BY <2>3, <1>1 DEF Lock, Unlock, Step, Goto, Submitted, HasGoodDates, LockTypes
  <2>4. CASE Goes(s)
    BY <2>4, <1>1 DEF Goes, Goto, Inside, Submitted, HasGoodDates, LockTypes
  <2> QED BY <1>3, <2>1, <2>2, <2>3, <2>4, TransactionGoes DEF Proceed
<1> QED BY <1>2, <1>3 DEF IntakeNext, SubmissionNext, Decide, intakeVars, submissionVars

\* At the start there are only the rows that were there before.
LEMMA InitRows == IntakeInit => RowInv
<1> SUFFICES ASSUME SubmissionInit PROVE RowInv
  BY DEF IntakeInit
<1>1. now \in Nat /\ row \in Balance /\ saved = <<>>
  BY SubmissionAssumption DEF SubmissionInit, Balance
<1>2. RowTypes
  BY <1>1 DEF RowTypes
<1>3. Submitted
  BY DEF SubmissionInit, Submitted
<1>4. GoodTable(table)
  BY IntakeAssumption DEF SubmissionInit, GoodTable
<1> QED BY <1>1, <1>2, <1>3, <1>4 DEF RowInv

\* The row of a submission whose dates were accepted is a good one.
LEMMA NewRowIsGood ==
  ASSUME Zone >= 0, RowInv, NEW s \in Submissions, HasGoodDates(s)
  PROVE  NewRow(s) \in Row /\ HasCalendarDays(NewRow(s)) /\ DaysOf(s) \in Int
<1>1. Dto[s].start \in Nat /\ Dto[s].end \in Nat /\ now \in Nat
  BY SubmissionAssumption DEF RowInv, RowTypes
<1>2. LocalDate(now) <= Dto[s].start /\ Dto[s].start <= Dto[s].end
  BY <1>1, DatesAcceptedFromToday DEF HasGoodDates
<1>3. /\ DaysOf(s) \in Nat
      /\ DaysOf(s) = Cardinality(CalendarDays(Dto[s].start, Dto[s].end))
  BY <1>1, <1>2, DaysAreCounted DEF DaysOf
<1> QED BY <1>1, <1>2, <1>3, IntakeAssumption DEF NewRow, Row, HasCalendarDays, RequestStatus

\* A decision releases days down to zero, or none.
LEMMA AfterDecisionBounds ==
  ASSUME NEW old \in Balance, NEW request \in Row, NEW to
  PROVE  /\ AfterDecision(old, request, to) \in Balance
         /\ old.reserved \in 0..TotalDays => AfterDecision(old, request, to).reserved \in 0..TotalDays
         /\ AfterDecision(old, request, to).version = old.version
<1> DEFINE left == IF old.reserved < request.days THEN 0 ELSE old.reserved - request.days
<1>1. request.days \in Nat
  BY DEF Row
<1>2. \/ AfterDecision(old, request, to) = old
      \/ AfterDecision(old, request, to) = [old EXCEPT !.reserved = left]
  BY DEF AfterDecision
<1>3. left \in Int /\ (old.reserved \in 0..TotalDays => left \in 0..TotalDays)
  BY <1>1, SubmissionAssumption DEF Balance
<1> HIDE DEF left
<1> QED BY <1>2, <1>3 DEF Balance

\* Inserting, deciding, committing and rolling back leave only good rows, in the
\* table and in every snapshot of it.
LEMMA StepKeepsRows ==
  ASSUME Zone >= 0
  PROVE  LockTypes /\ RowInv /\ [IntakeNext]_intakeVars => RowInv'
<1> SUFFICES ASSUME LockTypes, RowInv, [IntakeNext]_intakeVars PROVE RowInv'
  OBVIOUS
<1> USE DEF RowInv
<1>1. now' = now /\ Submitted'
  BY TimeStands, StepKeepsSubmitted
<1>2. \A tb : GoodTable(tb)' <=> GoodTable(tb)
  BY <1>1 DEF GoodTable, HasCalendarDays, LocalDate
<1>3. CASE UNCHANGED <<lockVars, dbVars>>
  BY <1>1, <1>2, <1>3 DEF lockVars, dbVars, RowTypes, Submitted, HasGoodDates
<1>4. ASSUME NEW id \in DOMAIN table, Decide(id)
      PROVE  RowInv'
  <2>1. PICK to \in Decisions : /\ table' = [table EXCEPT ![id].status = to]
                               /\ row' = AfterDecision(row, table[id], to)
    BY <1>4 DEF Decide
  <2>2. table' \in Seq(Row) /\ DOMAIN table' = DOMAIN table
    <3>1. table[id] \in Row /\ table \in Seq(Row)
      BY DEF GoodTable
    <3>2. [table[id] EXCEPT !.status = to] \in Row
      BY <3>1, IntakeAssumption DEF Row
    <3>3. table' = [table EXCEPT ![id] = [table[id] EXCEPT !.status = to]]
      BY <2>1
    <3> QED BY <3>1, <3>2, <3>3
  <2>3. \A i \in DOMAIN table : HasCalendarDays(table[i]) => HasCalendarDays(table'[i])
    <3> SUFFICES ASSUME NEW i \in DOMAIN table
                 PROVE  HasCalendarDays(table[i]) => HasCalendarDays(table'[i])
      OBVIOUS
    <3>1. table[i] \in Row
      BY DEF GoodTable
    <3>2. table'[i] = table[i] \/ table'[i] = [table[i] EXCEPT !.status = to]
      BY <2>1
    <3>3. \A request \in Row : /\ [request EXCEPT !.status = to].start = request.start
                              /\ [request EXCEPT !.status = to].end = request.end
                              /\ [request EXCEPT !.status = to].days = request.days
      BY DEF Row
    <3>4. /\ table'[i].start = table[i].start
          /\ table'[i].end = table[i].end
          /\ table'[i].days = table[i].days
      BY <3>1, <3>2, <3>3
    <3> QED BY <3>4 DEF HasCalendarDays
  <2>4. GoodTable(table')
    BY <2>2, <2>3 DEF GoodTable
  <2>5. row' \in Balance
    BY <2>1, AfterDecisionBounds DEF RowTypes, GoodTable
  <2> QED BY <1>1, <1>2, <1>4, <2>4, <2>5 DEF Decide, lockVars, RowTypes, Submitted, HasGoodDates
<1>5. ASSUME NEW s \in Submissions, RefuseDates(s) \/ Submit(s) \/ Proceed(s)
      PROVE  RowInv'
  <2>1. Submitted'
    BY <1>1
  <2>2. CASE UNCHANGED dbVars
    BY <2>1, <2>2, <1>1, <1>2 DEF dbVars, RowTypes
  <2>3. CASE Begin(s)
    <3>1. /\ saved' = Append(saved, [row |-> row, table |-> table])
          /\ UNCHANGED <<row, table>>
      BY <2>3 DEF Begin
    <3>2. saved' \in Seq([row : Balance, table : Seq(Row)])
      BY <3>1 DEF RowTypes, GoodTable
    <3>3. \A n \in DOMAIN saved' : GoodTable(saved'[n].table)
      BY <3>1 DEF RowTypes
    <3> QED BY <2>1, <3>1, <3>2, <3>3, <1>1, <1>2 DEF RowTypes
  <2>4. CASE Reserve(s)
    <3>1. UNCHANGED <<table, saved>> /\ row' \in Balance
      <4>1. HasGoodDates(s)
        BY <2>4 DEF Reserve, Submitted
      <4>2. DaysOf(s) \in Int
        BY <4>1, NewRowIsGood
      <4> QED BY <2>4, <4>2 DEF Reserve, RowTypes, Balance
    <3> QED BY <2>1, <3>1, <1>1, <1>2 DEF RowTypes
  <2>5. CASE InsertRow(s)
    <3>1. table' = Append(table, NewRow(s)) /\ UNCHANGED <<row, saved>> /\ stage[s] = "reserved"
      BY <2>5 DEF InsertRow, Step
    <3>2. NewRow(s) \in Row /\ HasCalendarDays(NewRow(s))
      BY <3>1, NewRowIsGood DEF Submitted
    <3>3. GoodTable(table')
      BY <3>1, <3>2 DEF GoodTable
    <3> QED BY <2>1, <3>1, <3>3, <1>1, <1>2 DEF RowTypes
  <2>6. CASE Commit(s) \/ Rollback(s)
    <3> DEFINE Snapshots == [row : Balance, table : Seq(Row)]
    <3>1. saved # <<>> /\ saved' = SubSeq(saved, 1, Len(saved) - 1)
      BY <2>6 DEF Commit, Rollback, RollbackInnermost, Outermost
    <3>2. /\ saved' \in Seq(Snapshots)
          /\ \A n \in DOMAIN saved' : n \in DOMAIN saved /\ saved'[n] = saved[n]
      <4>1. saved \in Seq(Snapshots)
        BY DEF RowTypes
      <4> HIDE DEF Snapshots
      <4>2. Len(saved) \in Nat \ {0}
        BY <3>1, <4>1
      <4> QED BY <3>1, <4>1, <4>2
    <3>3. row' \in Balance /\ GoodTable(table')
      <4>1. CASE Commit(s)
        BY <4>1 DEF Commit, RowTypes
      <4>2. CASE Rollback(s)
        <5>1. saved # <<>> /\ row' = saved[Len(saved)].row /\ table' = saved[Len(saved)].table
          BY <4>2 DEF Rollback, RollbackInnermost
        <5>2. Len(saved) \in DOMAIN saved
          BY <5>1 DEF RowTypes
        <5>3. saved[Len(saved)] \in Snapshots
          <6>1. saved \in Seq(Snapshots)
            BY DEF RowTypes
          <6> HIDE DEF Snapshots
          <6> QED BY <5>2, <6>1
        <5> QED BY <5>1, <5>2, <5>3
      <4> QED BY <2>6, <4>1, <4>2
    <3> QED BY <2>1, <3>2, <3>3, <1>1, <1>2 DEF RowTypes
  <2> QED BY <1>5, <2>2, <2>3, <2>4, <2>5, <2>6 DEF RefuseDates, Submit, Proceed, Lock, Unlock,
         FailToBegin, FindEmployee, ReadBalance, Throw
<1> QED BY <1>3, <1>4, <1>5 DEF IntakeNext, SubmissionNext, intakeVars, submissionVars

\* Whatever the time zone, as long as it is not west of UTC, and however the
\* submissions are interleaved, no request is stored that starts before today,
\* and none for other days than those of the calendar.
THEOREM DaysOfTheCalendar == ASSUME Zone >= 0 PROVE IntakeSpec => []StoredDaysAreCalendarDays
<1>1. IntakeInit => LockTypes /\ RowInv
  BY InitLocks, InitRows DEF LockInv
<1>2. LockTypes /\ RowInv /\ LockTypes' /\ [IntakeNext]_intakeVars => RowInv'
  BY StepKeepsRows
<1>3. RowInv => StoredDaysAreCalendarDays
  BY DEF RowInv, GoodTable, StoredDaysAreCalendarDays
<1>4. LockInv => LockTypes
  BY DEF LockInv
<1> QED BY <1>1, <1>2, <1>3, <1>4, LocksInvariant, PTL DEF IntakeSpec

-----------------------------------------------------------------------------
(***************************************************************************)
(* The transaction.  It is the lock that makes it one: whoever is inside   *)
(* is alone, so the snapshots hold at most its own, and what it has read   *)
(* is what it updates.                                                     *)
(***************************************************************************)

InTransaction == {"begun", "scoped", "read", "reserved", "inserted", "throwing"}

BalanceRow == [reserved : 0..TotalDays, version : Nat]
Snapshot == [row : BalanceRow, table : Seq(Row)]

\* What s has changed since its BEGIN, when the tables were old.
Changes(s, old) ==
  /\ stage[s] \in {"begun", "scoped", "read"} => row = old.row /\ table = old.table
  /\ stage[s] = "read" => read[s] = row /\ DaysLeft(row) >= DaysOf(s)
  /\ stage[s] \in {"reserved", "inserted"} => row.reserved = old.row.reserved + DaysOf(s)
  /\ stage[s] = "reserved" => table = old.table
  /\ stage[s] = "inserted" => table = Append(old.table, NewRow(s))
  /\ stage[s] = "throwing" => table \in {old.table, Append(old.table, NewRow(s))}

TableTypes ==
  /\ now \in Instants
  /\ row \in BalanceRow
  /\ table \in Seq(Row)
  /\ read \in [Submissions -> [reserved : Nat, version : Nat]]
  /\ attempt \in [Submissions -> {0}]

OneTransaction ==
  /\ saved = <<>> \/ \E s \in Submissions : stage[s] \in InTransaction
  /\ \A s \in Submissions : stage[s] \in InTransaction =>
       \E old \in Snapshot : saved = <<old>> /\ Changes(s, old)

TransactionInv == TableTypes /\ Submitted /\ OneTransaction

\* Nobody is in a transaction at the start.
LEMMA InitTransaction == IntakeInit => TransactionInv
<1> SUFFICES ASSUME SubmissionInit PROVE TransactionInv
  BY DEF IntakeInit
<1>1. TableTypes
  <2>1. row \in BalanceRow
    BY SubmissionAssumption DEF SubmissionInit, BalanceRow
  <2>2. table \in Seq(Row) /\ now \in Instants
    BY IntakeAssumption DEF SubmissionInit
  <2>3. /\ read \in [Submissions -> [reserved : Nat, version : Nat]]
        /\ attempt \in [Submissions -> {0}]
    BY DEF SubmissionInit
  <2> QED BY <2>1, <2>2, <2>3 DEF TableTypes
<1>2. Submitted /\ OneTransaction
  BY DEF SubmissionInit, Submitted, OneTransaction, InTransaction
<1> QED BY <1>1, <1>2 DEF TransactionInv

\* A submission at the lock asks for one day at least, and its row is well typed
\* in whatever time zone.
LEMMA DaysAreAsked ==
  ASSUME TransactionInv, NEW s \in Submissions, stage[s] \notin {"new", "refused"}
  PROVE  DaysOf(s) \in Nat \ {0} /\ NewRow(s) \in Row
<1>1. HasGoodDates(s)
  BY DEF TransactionInv, Submitted
<1>2. Dto[s].start \in Nat /\ Dto[s].end \in Nat
  BY SubmissionAssumption
<1>3. Dto[s].start <= Dto[s].end
  BY <1>1, <1>2 DEF HasGoodDates, DatesAccepted, NewDate
<1>4. DaysOf(s) \in Nat \ {0}
  BY <1>2, <1>3, DaysAreCounted DEF DaysOf
<1> QED BY <1>2, <1>4, IntakeAssumption DEF NewRow, Row, RequestStatus

\* Whoever is inside is alone there.
LEMMA AloneInside ==
  ASSUME LockInv, NEW s \in Submissions, stage[s] \in Inside
  PROVE  \A t \in Submissions \ {s} : stage[t] \notin Inside
<1> SUFFICES ASSUME NEW t \in Submissions, stage[t] \in Inside PROVE s = t
  OBVIOUS
<1>1. turn[s] = turn[t]
  BY DEF LockInv, LockTypes, InsideIsFirst, IsFirst, Waiting
<1> QED BY <1>1 DEF LockInv, TurnsDiffer, Waiting

\* Where s has gone, and that nobody else has moved.
Went(s, to) ==
  /\ stage'[s] = to
  /\ \A t \in Submissions \ {s} : stage'[t] = stage[t]

LEMMA GotoGoes ==
  ASSUME LockTypes, NEW s \in Submissions, NEW to, Goto(s, to)
  PROVE  Went(s, to)
BY DEF LockTypes, Goto, Went

\* What remains to be shown of a step of s that is in its transaction afterwards.
LEMMA StaysInside ==
  ASSUME LockInv, NEW s \in Submissions, stage[s] \in Inside,
         NEW to \in InTransaction, Went(s, to),
         NEW old \in Snapshot, saved' = <<old>>, Changes(s, old)'
  PROVE  OneTransaction'
<1>1. \A t \in Submissions \ {s} : stage'[t] \notin InTransaction
  BY AloneInside DEF Went, InTransaction, Inside
<1> QED BY <1>1 DEF OneTransaction, Went

\* ... and of one that is not, be it before, after or without it.
LEMMA StaysOutside ==
  ASSUME LockInv, NEW s \in Submissions, stage[s] \in Inside,
         NEW to, to \notin InTransaction, Went(s, to), saved' = <<>>
  PROVE  OneTransaction'
<1>1. \A t \in Submissions \ {s} : stage'[t] \notin InTransaction
  BY AloneInside DEF Went, InTransaction, Inside
<1> QED BY <1>1 DEF OneTransaction, Went

\* The steps before the lock, and the lock itself, are no part of a transaction.
LEMMA OutsideKeepsTransaction ==
  ASSUME LockInv, TransactionInv, NEW s \in Submissions,
         RefuseDates(s) \/ Submit(s) \/ Lock(s) \/ Unlock(s)
  PROVE  OneTransaction'
<1>1. UNCHANGED <<dbVars, localVars>>
  BY DEF RefuseDates, Submit, Lock, Unlock
<1>2. /\ stage[s] \notin InTransaction
      /\ \E to \in {"refused", "queued", "locked", "returned"} : Went(s, to)
  BY GotoGoes DEF RefuseDates, Submit, Enqueue, Lock, Unlock, Step, LockInv, InTransaction
<1>3. \A t \in Submissions : /\ stage'[t] \in InTransaction <=> stage[t] \in InTransaction
                             /\ stage[t] \in InTransaction => stage'[t] = stage[t]
  BY <1>2 DEF Went, InTransaction
<1>4. \A t \in Submissions : \A old :
        stage[t] \in InTransaction /\ Changes(t, old) => Changes(t, old)'
  BY <1>1, <1>3 DEF Changes, dbVars, localVars, NewRow
<1> QED BY <1>1, <1>3, <1>4 DEF TransactionInv, OneTransaction, dbVars

LEMMA BeginKeepsTransaction ==
  ASSUME LockInv, TransactionInv, NEW s \in Submissions, Begin(s) \/ FailToBegin(s)
  PROVE  TableTypes' /\ OneTransaction'
<1>1. stage[s] = "locked" /\ UNCHANGED <<row, table, localVars>>
  BY DEF Begin, FailToBegin, Step, dbVars
<1>2. saved = <<>>
  <2>1. \A t \in Submissions : stage[t] \notin InTransaction
    BY <1>1, AloneInside DEF Inside, InTransaction
  <2> QED BY <2>1 DEF TransactionInv, OneTransaction
<1>3. TableTypes'
  BY <1>1 DEF TransactionInv, TableTypes, localVars
<1>4. CASE Begin(s)
  <2>1. PICK old \in Snapshot : old = [row |-> row, table |-> table]
    BY DEF TransactionInv, TableTypes, Snapshot
  <2>2. saved' = <<old>>
    BY <1>2, <1>4, <2>1 DEF Begin
  <2>3. Went(s, "begun")
    BY <1>4, GotoGoes DEF Begin, Step, LockInv
  <2>4. Changes(s, old)'
    BY <1>1, <2>1, <2>3 DEF Changes, Went
  <2> QED BY <1>1, <1>3, <2>1, <2>2, <2>3, <2>4, StaysInside DEF Inside, InTransaction
<1>5. CASE FailToBegin(s)
  <2>1. Went(s, "done")
    BY <1>5, GotoGoes DEF FailToBegin, Step, LockInv
  <2> QED BY <1>1, <1>2, <1>3, <1>5, <2>1, StaysOutside
          DEF FailToBegin, Inside, InTransaction, dbVars
<1> QED BY <1>4, <1>5

\* What the submission that is in its transaction has to go on with.
LEMMA InsideTransaction ==
  ASSUME TransactionInv, NEW s \in Submissions, stage[s] \in InTransaction
  PROVE  \E old \in Snapshot : saved = <<old>> /\ Changes(s, old)
BY DEF TransactionInv, OneTransaction

\* Statements that change no table: find the employee, read the balance, throw.
LEMMA ReadsKeepTransaction ==
  ASSUME LockInv, TransactionInv, NEW s \in Submissions,
         FindEmployee(s) \/ ReadBalance(s) \/ Throw(s)
  PROVE  TableTypes' /\ OneTransaction'
<1>1. stage[s] \in InTransaction /\ stage[s] \in Inside /\ UNCHANGED <<dbVars, now, attempt>>
  BY DEF FindEmployee, ReadBalance, Throw, Step, InTransaction, Inside, localVars
<1>2. PICK old \in Snapshot : saved = <<old>> /\ Changes(s, old)
  BY <1>1, InsideTransaction
<1>3. saved' = <<old>>
  BY <1>1, <1>2 DEF dbVars
<1>4. CASE FindEmployee(s)
  <2>1. Went(s, "scoped") /\ stage[s] = "begun" /\ UNCHANGED localVars
    BY <1>4, GotoGoes DEF FindEmployee, Step, LockInv
  <2>2. Changes(s, old)'
    BY <1>1, <1>2, <2>1 DEF Changes, Went, dbVars
  <2>3. TableTypes'
    BY <1>1, <2>1 DEF TransactionInv, TableTypes, dbVars, localVars
  <2> QED BY <1>1, <1>3, <2>1, <2>2, <2>3, StaysInside DEF InTransaction
<1>5. CASE ReadBalance(s)
  <2>1. /\ Went(s, "read") /\ stage[s] = "scoped"
        /\ read' = [read EXCEPT ![s] = row] /\ Effective(row) >= DaysOf(s)
    BY <1>5, GotoGoes DEF ReadBalance, Step, LockInv
  <2>2. DaysOf(s) \in Nat \ {0} /\ row \in BalanceRow
    BY <2>1, DaysAreAsked DEF TransactionInv, TableTypes
  <2>3. DaysLeft(row) >= DaysOf(s)
    BY <2>1, <2>2, SubmissionAssumption DEF Effective, DaysLeft, BalanceRow
  <2>4. row \in [reserved : Nat, version : Nat]
    BY <2>2, SubmissionAssumption DEF BalanceRow
  <2>5. read'[s] = row /\ read' \in [Submissions -> [reserved : Nat, version : Nat]]
    BY <2>1, <2>4 DEF TransactionInv, TableTypes
  <2>6. Changes(s, old)'
    BY <1>1, <1>2, <2>1, <2>3, <2>5 DEF Changes, Went, dbVars, DaysLeft
  <2>7. TableTypes'
    BY <1>1, <2>5 DEF TransactionInv, TableTypes, dbVars
  <2> QED BY <1>1, <1>3, <2>1, <2>6, <2>7, StaysInside DEF InTransaction
<1>6. CASE Throw(s)
  <2>1. Went(s, "throwing") /\ UNCHANGED localVars
    BY <1>6, GotoGoes DEF Throw, LockInv
  <2>2. Changes(s, old)'
    <3>1. table \in {old.table, Append(old.table, NewRow(s))}
      BY <1>2, <1>6 DEF Changes, Throw
    <3> QED BY <1>1, <2>1, <3>1 DEF Changes, Went, dbVars, NewRow
  <2>3. TableTypes'
    BY <1>1, <2>1 DEF TransactionInv, TableTypes, dbVars, localVars
  <2> QED BY <1>1, <1>3, <2>1, <2>2, <2>3, StaysInside DEF InTransaction
<1> QED BY <1>4, <1>5, <1>6

\* Nobody else has touched the balance, so the first attempt to reserve the days
\* succeeds.
LEMMA ReserveKeepsTransaction ==
  ASSUME LockInv, TransactionInv, NEW s \in Submissions, Reserve(s)
  PROVE  TableTypes' /\ OneTransaction'
<1>1. /\ stage[s] = "read" /\ stage[s] \in InTransaction /\ stage[s] \in Inside
      /\ UNCHANGED <<table, saved, now, read>>
  BY DEF Reserve, InTransaction, Inside
<1>2. PICK old \in Snapshot : saved = <<old>> /\ Changes(s, old)
  BY <1>1, InsideTransaction
<1>3. /\ read[s] = row /\ DaysLeft(row) >= DaysOf(s)
      /\ row = old.row /\ table = old.table
  BY <1>1, <1>2 DEF Changes
<1>4. /\ row' = [reserved |-> row.reserved + DaysOf(s), version |-> row.version + 1]
      /\ UNCHANGED attempt
      /\ Went(s, "reserved")
  BY <1>3, GotoGoes DEF Reserve, MayReserve, LockInv
<1>5. DaysOf(s) \in Nat \ {0} /\ row \in BalanceRow
  BY <1>1, DaysAreAsked DEF TransactionInv, TableTypes
<1>6. row' \in BalanceRow /\ row'.reserved = old.row.reserved + DaysOf(s)
  BY <1>3, <1>4, <1>5, SubmissionAssumption DEF BalanceRow, DaysLeft
<1>7. TableTypes'
  BY <1>1, <1>4, <1>6 DEF TransactionInv, TableTypes
<1>8. Changes(s, old)'
  BY <1>1, <1>3, <1>4, <1>6 DEF Changes, Went
<1> QED BY <1>1, <1>2, <1>4, <1>7, <1>8, StaysInside DEF InTransaction

LEMMA InsertKeepsTransaction ==
  ASSUME LockInv, TransactionInv, NEW s \in Submissions, InsertRow(s)
  PROVE  TableTypes' /\ OneTransaction'
<1>1. /\ stage[s] = "reserved" /\ stage[s] \in InTransaction /\ stage[s] \in Inside
      /\ table' = Append(table, NewRow(s))
      /\ UNCHANGED <<row, saved, localVars>>
  BY DEF InsertRow, Step, InTransaction, Inside
<1>2. PICK old \in Snapshot : saved = <<old>> /\ Changes(s, old)
  BY <1>1, InsideTransaction
<1>3. Went(s, "inserted")
  BY GotoGoes DEF InsertRow, Step, LockInv
<1>4. NewRow(s) \in Row
  BY <1>1, DaysAreAsked
<1>5. TableTypes'
  BY <1>1, <1>4 DEF TransactionInv, TableTypes, localVars
<1>6. Changes(s, old)'
  BY <1>1, <1>2, <1>3 DEF Changes, Went, NewRow
<1> QED BY <1>1, <1>2, <1>3, <1>5, <1>6, StaysInside DEF InTransaction

\* With the one snapshot the transaction is over.
LEMMA EndKeepsTransaction ==
  ASSUME LockInv, TransactionInv, NEW s \in Submissions, Commit(s) \/ Rollback(s)
  PROVE  TableTypes' /\ OneTransaction'
<1>1. stage[s] \in InTransaction /\ stage[s] \in Inside /\ UNCHANGED localVars
  BY DEF Commit, Rollback, Step, InTransaction, Inside
<1>2. PICK old \in Snapshot : saved = <<old>> /\ Changes(s, old)
  BY <1>1, InsideTransaction
<1>3. Len(saved) = 1 /\ saved[1] = old /\ SubSeq(saved, 1, 0) = <<>>
  BY <1>2
<1>4. saved' = <<>>
  BY <1>3 DEF Commit, Rollback, RollbackInnermost, Outermost
<1>5. Went(s, "done")
  BY GotoGoes DEF Commit, Rollback, AfterRollback, Step, LockInv
<1>6. \/ UNCHANGED <<row, table>>
      \/ row' = old.row /\ table' = old.table
  BY <1>3 DEF Commit, Rollback, RollbackInnermost
<1>7. TableTypes'
  BY <1>1, <1>6 DEF TransactionInv, TableTypes, Snapshot, localVars
<1> QED BY <1>1, <1>4, <1>5, <1>7, StaysOutside DEF InTransaction

\* A decision writes one status.
DecisionOn(tb, id) ==
  \E to \in RequestStatus : table' = [tb EXCEPT ![id] = [tb[id] EXCEPT !.status = to]]

LEMMA DecisionsAreTyped ==
  ASSUME table \in Seq(Row), NEW id \in DOMAIN table, DecisionOn(table, id)
  PROVE  /\ table' \in Seq(Row)
         /\ DOMAIN table' = DOMAIN table
         /\ \A i \in DOMAIN table : /\ table'[i].employee = table[i].employee
                                    /\ table'[i].location = table[i].location
<1>1. PICK to \in RequestStatus :
        table' = [table EXCEPT ![id] = [table[id] EXCEPT !.status = to]]
  BY DEF DecisionOn
<1> DEFINE decided == [table[id] EXCEPT !.status = to]
<1>2. table[id] \in Row
  OBVIOUS
<1>3. /\ decided \in Row
      /\ decided.employee = table[id].employee
      /\ decided.location = table[id].location
  BY <1>2 DEF Row
<1>4. table' = [table EXCEPT ![id] = decided]
  BY <1>1
<1> HIDE DEF decided
<1> QED BY <1>3, <1>4

LEMMA DecideDecides ==
  ASSUME NEW id \in DOMAIN table, Decide(id)
  PROVE  DecisionOn(table, id)
BY IntakeAssumption DEF Decide, DecisionOn

LEMMA DecideKeepsBalance ==
  ASSUME table \in Seq(Row), row \in BalanceRow, NEW id \in DOMAIN table, Decide(id)
  PROVE  row' \in BalanceRow
<1>1. PICK to : row' = AfterDecision(row, table[id], to)
  BY DEF Decide
<1>2. table[id] \in Row /\ row \in Balance
  BY SubmissionAssumption DEF BalanceRow, Balance
<1> QED BY <1>1, <1>2, AfterDecisionBounds DEF BalanceRow, Balance

LEMMA StepKeepsTransaction ==
  LockInv /\ TransactionInv /\ [IntakeNext]_intakeVars => TransactionInv'
<1> SUFFICES ASSUME LockInv, TransactionInv, [IntakeNext]_intakeVars PROVE TransactionInv'
  OBVIOUS
<1>1. Submitted'
  BY StepKeepsSubmitted DEF LockInv, TransactionInv
<1>2. CASE UNCHANGED submissionVars
  <2>1. UNCHANGED <<now, stage, read, attempt, row, table, saved>>
    BY <1>2 DEF submissionVars, lockVars, dbVars, localVars
  <2>2. \A t \in Submissions : \A old : Changes(t, old) => Changes(t, old)'
    BY <2>1 DEF Changes, NewRow
  <2> QED BY <1>1, <2>1, <2>2 DEF TransactionInv, TableTypes, OneTransaction
<1>3. ASSUME saved = <<>>, NEW id \in DOMAIN table, Decide(id)
      PROVE  TransactionInv'
  <2>1. UNCHANGED <<lockVars, localVars, saved>>
    BY <1>3 DEF Decide
  <2>2. table' \in Seq(Row)
    BY <1>3, DecideDecides, DecisionsAreTyped DEF TransactionInv, TableTypes
  <2>3. \A t \in Submissions : stage[t] \notin InTransaction
    BY <1>3, InsideTransaction
  <2>4. row' \in BalanceRow
    BY <1>3, DecideKeepsBalance DEF TransactionInv, TableTypes
  <2> QED BY <1>1, <1>3, <2>1, <2>2, <2>3, <2>4
          DEF TransactionInv, TableTypes, OneTransaction, lockVars, localVars
<1>4. ASSUME NEW s \in Submissions, RefuseDates(s) \/ Submit(s) \/ Proceed(s)
      PROVE  TransactionInv'
  <2>1. CASE RefuseDates(s) \/ Submit(s) \/ Lock(s) \/ Unlock(s)
    <3>1. TableTypes'
      BY <2>1 DEF RefuseDates, Submit, Lock, Unlock, TransactionInv, TableTypes,
         dbVars, localVars
    <3> QED BY <1>1, <2>1, <3>1, OutsideKeepsTransaction DEF TransactionInv
  <2> QED BY <1>1, <1>4, <2>1, BeginKeepsTransaction, ReadsKeepTransaction,
         ReserveKeepsTransaction, InsertKeepsTransaction, EndKeepsTransaction
         DEF Proceed, TransactionInv
<1> QED BY <1>2, <1>3, <1>4 DEF IntakeNext, SubmissionNext, BetweenTransactions, intakeVars

\* Of the promises of submitRequest, those about its transaction rest on this.
LEMMA TransactionInvariant == IntakeSpec => [](LockInv /\ TransactionInv)
BY InitLocks, StepKeepsLocks, InitTransaction, StepKeepsTransaction, PTL DEF IntakeSpec

\* reserveBalanceWithRetry never needs its retries, nor ever answers 409, for the
\* submissions of one employee.
THEOREM RetriesAreForNothing == IntakeSpec => []FirstAttemptDecides
<1>1. TransactionInv => FirstAttemptDecides
  BY DEF TransactionInv, TableTypes, FirstAttemptDecides
<1> QED BY <1>1, TransactionInvariant, PTL

-----------------------------------------------------------------------------
(***************************************************************************)
(* What becomes of the committed rows                                      *)
(***************************************************************************)

CommitsNothing == Committed' = Committed
CommitsDecision ==
  /\ saved = <<>> /\ saved' = <<>>
  /\ \E id \in DOMAIN table : DecisionOn(table, id)
  /\ \E id \in DOMAIN table, to \in Decisions :
       /\ table' = [table EXCEPT ![id].status = to]
       /\ row' = AfterDecision(row, table[id], to)
CommitsRequest(s) ==
  /\ Committed'.table = Append(Committed.table, NewRow(s)) /\ NewRow(s) \in Row
  /\ Committed'.row.reserved = Committed.row.reserved + DaysOf(s)
  /\ Committed'.row.reserved <= TotalDays

LEMMA CommittedTyped ==
  ASSUME TransactionInv
  PROVE  Committed \in Snapshot
<1>1. CASE saved = <<>>
  BY <1>1 DEF TransactionInv, TableTypes, Snapshot, Committed
<1>2. CASE saved # <<>>
  BY <1>2, InsideTransaction DEF TransactionInv, OneTransaction, Committed
<1> QED BY <1>1, <1>2

\* The committed rows are among those of the table: a transaction only appends.
LEMMA CommittedInTable ==
  ASSUME TransactionInv, NEW id \in DOMAIN Committed.table
  PROVE  id \in DOMAIN table /\ table[id] = Committed.table[id]
<1>1. CASE saved = <<>>
  BY <1>1 DEF Committed
<1>2. CASE saved # <<>>
  <2>1. PICK s \in Submissions : stage[s] \in InTransaction
    BY <1>2 DEF TransactionInv, OneTransaction
  <2>2. PICK old \in Snapshot : saved = <<old>> /\ Changes(s, old)
    BY <2>1, InsideTransaction
  <2>3. Committed.table = old.table /\ old.table \in Seq(Row)
    BY <1>2, <2>2 DEF Committed, Snapshot
  <2>4. table \in {old.table, Append(old.table, NewRow(s))}
    BY <2>1, <2>2 DEF Changes, InTransaction
  <2> QED BY <2>3, <2>4
<1> QED BY <1>1, <1>2

LEMMA StepCommits ==
  ASSUME LockInv, TransactionInv, TransactionInv', [IntakeNext]_intakeVars
  PROVE  CommitsNothing \/ CommitsDecision \/ \E s \in Submissions : CommitsRequest(s)
<1>1. ASSUME UNCHANGED dbVars
      PROVE  CommitsNothing
  BY <1>1 DEF dbVars, CommitsNothing, Committed
<1>2. ASSUME saved = <<>>, NEW id \in DOMAIN table, Decide(id)
      PROVE  CommitsDecision
  BY <1>2, DecideDecides DEF CommitsDecision, Decide
<1>3. ASSUME NEW s \in Submissions, Begin(s)
      PROVE  CommitsNothing
  <2>1. saved = <<>>
    <3>1. \A t \in Submissions : stage[t] \notin InTransaction
      BY <1>3, AloneInside DEF Begin, Step, Inside, InTransaction
    <3> QED BY <3>1 DEF TransactionInv, OneTransaction
  <2> QED BY <1>3, <2>1 DEF Begin, CommitsNothing, Committed
<1>4. ASSUME NEW s \in Submissions, Reserve(s) \/ InsertRow(s)
      PROVE  CommitsNothing
  <2>1. stage[s] \in InTransaction /\ saved' = saved
    BY <1>4 DEF Reserve, InsertRow, Step, InTransaction
  <2> QED BY <2>1, InsideTransaction DEF CommitsNothing, Committed
<1>5. ASSUME NEW s \in Submissions, Commit(s) \/ Rollback(s)
      PROVE  CommitsNothing \/ CommitsRequest(s)
  <2>1. stage[s] \in InTransaction
    BY <1>5 DEF Commit, Rollback, Step, InTransaction
  <2>2. PICK old \in Snapshot : saved = <<old>> /\ Changes(s, old)
    BY <2>1, InsideTransaction
  <2>3. /\ Len(saved) = 1 /\ saved[1] = old /\ SubSeq(saved, 1, 0) = <<>>
        /\ Committed = old
    BY <2>2 DEF Committed
  <2>4. saved' = <<>> /\ Committed' = [row |-> row', table |-> table']
    BY <1>5, <2>3 DEF Commit, Rollback, RollbackInnermost, Outermost, Committed
  <2>5. CASE Commit(s)
    <3>1. stage[s] = "inserted" /\ UNCHANGED <<row, table>>
      BY <2>5 DEF Commit, Step
    <3>2. /\ row.reserved = old.row.reserved + DaysOf(s)
          /\ table = Append(old.table, NewRow(s))
      BY <2>2, <3>1 DEF Changes
    <3>3. NewRow(s) \in Row
      BY <3>1, DaysAreAsked
    <3>4. row.reserved <= TotalDays
      <4>1. row \in BalanceRow
        BY DEF TransactionInv, TableTypes
      <4> QED BY <4>1, SubmissionAssumption DEF BalanceRow
    <3> QED BY <2>3, <2>4, <3>1, <3>2, <3>3, <3>4 DEF CommitsRequest
  <2>6. CASE Rollback(s)
    <3>1. row' = old.row /\ table' = old.table
      BY <2>3, <2>6 DEF Rollback, RollbackInnermost
    <3> QED BY <2>3, <2>4, <3>1 DEF Snapshot, CommitsNothing
  <2> QED BY <1>5, <2>5, <2>6
<1>6. ASSUME SubmissionNext
      PROVE  CommitsNothing \/ \E s \in Submissions : CommitsRequest(s)
  <2>1. PICK s \in Submissions : RefuseDates(s) \/ Submit(s) \/ Proceed(s)
    BY <1>6 DEF SubmissionNext
  <2>2. CASE UNCHANGED dbVars
    BY <1>1, <2>2
  <2> QED BY <1>3, <1>4, <1>5, <2>1, <2>2 DEF RefuseDates, Submit, Proceed, Lock, Unlock,
         FailToBegin, FindEmployee, ReadBalance, Throw
<1> QED BY <1>1, <1>2, <1>6
        DEF IntakeNext, BetweenTransactions, intakeVars, submissionVars

\* A submission is all or nothing, whatever is thrown in it and however many
\* others are under way.
THEOREM SubmissionsAreAtomic == IntakeSpec => SubmitIsAtomic
<1> DEFINE A == LET old == Committed
                    new == Committed'
                IN  \/ new = old
                    \/ \E id \in DOMAIN old.table, to \in Decisions :
                         /\ new.table = [old.table EXCEPT ![id].status = to]
                         /\ new.row = AfterDecision(old.row, old.table[id], to)
                    \/ \E s \in Submissions :
                         /\ new.table = Append(old.table, NewRow(s))
                         /\ new.row.reserved = old.row.reserved + DaysOf(s)
                         /\ new.row.reserved <= TotalDays
<1>1. ASSUME LockInv, TransactionInv, TransactionInv', [IntakeNext]_intakeVars
      PROVE  A
  <2>1. CASE CommitsNothing
    BY <2>1 DEF CommitsNothing
  <2>2. CASE CommitsDecision
    <3>1. /\ Committed = [row |-> row, table |-> table]
          /\ Committed' = [row |-> row', table |-> table']
      BY <2>2 DEF CommitsDecision, Committed
    <3>2. PICK id \in DOMAIN table, to \in Decisions :
            /\ table' = [table EXCEPT ![id].status = to]
            /\ row' = AfterDecision(row, table[id], to)
      BY <2>2 DEF CommitsDecision
    <3> QED BY <3>1, <3>2
  <2>3. ASSUME NEW s \in Submissions, CommitsRequest(s)
        PROVE  A
    BY <2>3 DEF CommitsRequest
  <2> QED BY <1>1, <2>1, <2>2, <2>3, StepCommits
<1>2. LockInv /\ TransactionInv /\ (LockInv /\ TransactionInv)' /\ [IntakeNext]_intakeVars
        => [A]_intakeVars
  BY <1>1
<1> HIDE DEF A
<1>3. IntakeSpec => [][A]_intakeVars
  BY <1>2, TransactionInvariant, PTL DEF IntakeSpec
<1> QED BY <1>3 DEF A, SubmitIsAtomic

-----------------------------------------------------------------------------
(***************************************************************************)
(* A page                                                                  *)
(***************************************************************************)

UpTo(ids, id) == {i \in ids : i <= id}
Rank(ids, id) == Cardinality(UpTo(ids, id))

\* Ids and their ranks are in the same order.
LEMMA RanksAscend ==
  ASSUME NEW ids \in SUBSET Nat, IsFiniteSet(ids), NEW i \in ids, NEW j \in ids
  PROVE  /\ Rank(ids, i) \in 1..Cardinality(ids)
         /\ i < j <=> Rank(ids, i) < Rank(ids, j)
<1>1. \A k \in ids : /\ IsFiniteSet(UpTo(ids, k)) /\ k \in UpTo(ids, k)
                     /\ Rank(ids, k) \in Nat /\ Rank(ids, k) <= Cardinality(ids)
  BY FS_Subset, FS_CardinalityType DEF UpTo, Rank
<1>2. \A k, m \in ids : k < m => Rank(ids, k) < Rank(ids, m)
  <2> SUFFICES ASSUME NEW k \in ids, NEW m \in ids, k < m
               PROVE  Rank(ids, k) < Rank(ids, m)
    OBVIOUS
  <2>1. UpTo(ids, k) \subseteq UpTo(ids, m) /\ m \notin UpTo(ids, k) /\ m \in UpTo(ids, m)
    <3>1. k \in Nat /\ m \in Nat
      OBVIOUS
    <3>2. ASSUME NEW n \in ids, n <= k
          PROVE  n <= m
      <4>1. n \in Nat
        OBVIOUS
      <4> QED BY <3>1, <3>2, <4>1
    <3>3. ~(m <= k) /\ m <= m
      BY <3>1
    <3> QED BY <3>2, <3>3 DEF UpTo
  <2>2. /\ Rank(ids, k) <= Rank(ids, m)
        /\ Rank(ids, k) # Rank(ids, m)
    BY <1>1, <2>1, FS_Subset DEF Rank
  <2> QED BY <1>1, <2>2
<1>3. Rank(ids, i) # 0
  BY <1>1, FS_EmptySet DEF Rank
<1>4. Cardinality(ids) \in Nat
  BY FS_CardinalityType
<1>5. Rank(ids, i) \in 1..Cardinality(ids)
  BY <1>1, <1>3, <1>4
<1>6. i < j <=> Rank(ids, i) < Rank(ids, j)
  <2>1. i < j \/ i = j \/ j < i
    OBVIOUS
  <2> QED BY <1>1, <1>2, <2>1
<1> QED BY <1>5, <1>6

\* Every rank is some id's.
LEMMA RanksAreTaken ==
  ASSUME NEW ids \in SUBSET Nat, IsFiniteSet(ids), NEW n \in 1..Cardinality(ids)
  PROVE  \E id \in ids : Rank(ids, id) = n
<1> DEFINE c == Cardinality(ids)
           rank == [id \in ids |-> Rank(ids, id)]
<1>1. c \in Nat
  BY FS_CardinalityType
<1>2. IsFiniteSet(1..c) /\ Cardinality(1..c) = c
  BY <1>1, FS_Interval
<1>3. rank \in [ids -> 1..c]
  BY RanksAscend
<1>4. ASSUME NEW i \in ids, NEW j \in ids, rank[i] = rank[j]
      PROVE  i = j
  <2>1. Rank(ids, i) = Rank(ids, j)
    BY <1>4
  <2>2. ~(i < j) /\ ~(j < i)
    BY <2>1, RanksAscend
  <2> QED BY <2>2
<1>5. rank \in Injection(ids, 1..c)
  BY <1>3, <1>4 DEF Injection, IsInjective
<1>6. rank \in Surjection(ids, 1..c)
  BY <1>2, <1>5, FS_Injection
<1>7. PICK id \in ids : rank[id] = n
  BY <1>6 DEF Surjection
<1> QED BY <1>7

\* The order by id: every id once, and ascending.
LEMMA InOrderSorts ==
  ASSUME NEW ids \in SUBSET Nat, IsFiniteSet(ids)
  PROVE  /\ InOrder(ids) \in Seq(ids)
         /\ Len(InOrder(ids)) = Cardinality(ids)
         /\ \A m, n \in 1..Cardinality(ids) : m < n => InOrder(ids)[m] < InOrder(ids)[n]
         /\ ToSetOf(InOrder(ids)) = ids
<1> DEFINE c == Cardinality(ids)
           seq == InOrder(ids)
<1>1. c \in Nat
  BY FS_CardinalityType
<1>2. DOMAIN seq = 1..c
  BY DEF InOrder
<1>3. \A n \in 1..c : seq[n] \in ids /\ Rank(ids, seq[n]) = n
  <2> SUFFICES ASSUME NEW n \in 1..c PROVE seq[n] \in ids /\ Rank(ids, seq[n]) = n
    OBVIOUS
  <2>1. seq[n] = CHOOSE id \in ids : Rank(ids, id) = n
    BY DEF InOrder, Rank, UpTo
  <2>2. \E id \in ids : Rank(ids, id) = n
    BY RanksAreTaken
  <2> QED BY <2>1, <2>2
<1>4. seq \in [1..c -> ids]
  <2> DEFINE nth(n) == CHOOSE id \in ids : Cardinality({i \in ids : i <= id}) = n
  <2>1. seq = [n \in 1..c |-> nth(n)]
    BY DEF InOrder
  <2>2. \A n \in 1..c : seq[n] = nth(n)
    BY DEF InOrder
  <2> HIDE DEF seq, c, nth
  <2>3. \A n \in 1..c : nth(n) \in ids
    BY <1>3, <2>2
  <2> QED BY <2>1, <2>3
<1> HIDE DEF seq, c
<1>6. seq \in Seq(ids) /\ Len(seq) = c
  BY <1>1, <1>4
<1>7. \A m, n \in 1..c : m < n => seq[m] < seq[n]
  <2> TAKE m \in 1..c, n \in 1..c
  <2> HAVE m < n
  <2>1. seq[m] \in ids /\ seq[n] \in ids /\ Rank(ids, seq[m]) < Rank(ids, seq[n])
    BY <1>3
  <2> QED BY <2>1, RanksAscend
<1>8. ToSetOf(seq) = ids
  <2>1. ToSetOf(seq) \subseteq ids
    BY <1>2, <1>3 DEF ToSetOf
  <2>2. ASSUME NEW id \in ids
        PROVE  id \in ToSetOf(seq)
    <3> DEFINE n == Rank(ids, id)
    <3>1. n \in 1..c
      BY RanksAscend DEF c
    <3>2. seq[n] \in ids /\ Rank(ids, seq[n]) = n
      BY <1>3, <3>1
    <3> HIDE DEF n
    <3>3. PICK j \in ids : j = seq[n] /\ Rank(ids, j) = Rank(ids, id)
      BY <3>2 DEF n
    <3>4. j = id
      <4>1. ~(j < id) /\ ~(id < j)
        <5>1. Rank(ids, j) \in Nat
          BY RanksAscend DEF c
        <5> QED BY <3>3, <5>1, RanksAscend
      <4>2. j \in Nat /\ id \in Nat
        OBVIOUS
      <4> QED BY <4>1, <4>2
    <3> QED BY <1>2, <3>1, <3>3, <3>4 DEF ToSetOf
  <2> QED BY <2>1, <2>2
<1> QED BY <1>6, <1>7, <1>8 DEF seq, c

Before(ids, id) == {i \in ids : i < id}

\* take(n) gives all of n ids or fewer, and n at least of more.
LEMMA FirstTakes ==
  ASSUME NEW ids \in SUBSET Nat, IsFiniteSet(ids), NEW n \in Nat
  PROVE  /\ First(n, ids) \subseteq ids
         /\ Cardinality(ids) <= n => First(n, ids) = ids
         /\ Cardinality(ids) > n => Cardinality(First(n, ids)) >= n
<1>1. First(n, ids) \subseteq ids
  BY DEF First
<1>2. \A id \in ids : /\ IsFiniteSet(Before(ids, id))
                      /\ Cardinality(Before(ids, id)) \in Nat
                      /\ Cardinality(Before(ids, id)) < Cardinality(ids)
  <2> SUFFICES ASSUME NEW id \in ids
               PROVE  /\ IsFiniteSet(Before(ids, id))
                      /\ Cardinality(Before(ids, id)) \in Nat
                      /\ Cardinality(Before(ids, id)) < Cardinality(ids)
    OBVIOUS
  <2>1. Before(ids, id) \in SUBSET ids /\ id \notin Before(ids, id)
    BY DEF Before
  <2>2. /\ IsFiniteSet(Before(ids, id))
        /\ Cardinality(Before(ids, id)) <= Cardinality(ids)
        /\ Cardinality(Before(ids, id)) # Cardinality(ids)
    BY <2>1, FS_Subset
  <2> QED BY <2>2, FS_CardinalityType
<1>3. First(n, ids) = {id \in ids : Cardinality(Before(ids, id)) < n}
  BY DEF First, Before
<1>4. Cardinality(ids) \in Nat
  BY FS_CardinalityType
<1>5. ASSUME Cardinality(ids) <= n
      PROVE  First(n, ids) = ids
  <2>1. \A id \in ids : Cardinality(Before(ids, id)) < n
    BY <1>2, <1>4, <1>5
  <2> QED BY <1>3, <2>1
<1>6. ASSUME Cardinality(ids) > n
      PROVE  Cardinality(First(n, ids)) >= n
  <2>1. IsFiniteSet(First(n, ids)) /\ Cardinality(First(n, ids)) \in Nat
    BY <1>1, FS_Subset, FS_CardinalityType
  <2>2. CASE n = 0
    BY <2>1, <2>2
  <2>3. CASE n # 0
    <3>1. PICK id \in ids : Rank(ids, id) = n
      BY <1>4, <1>6, <2>3, RanksAreTaken
    <3>2. ASSUME NEW i \in UpTo(ids, id)
          PROVE  i \in First(n, ids)
      <4>1. i \in ids /\ Before(ids, i) \in SUBSET UpTo(ids, id) /\ id \in UpTo(ids, id)
        <5>1. i \in ids /\ i <= id /\ i \in Nat /\ id \in Nat
          BY <3>2 DEF UpTo
        <5>2. ASSUME NEW j \in ids, j < i
              PROVE  j <= id
          <6>1. j \in Nat
            OBVIOUS
          <6> QED BY <5>1, <5>2, <6>1
        <5>3. id <= id
          BY <5>1
        <5> QED BY <5>1, <5>2, <5>3 DEF Before, UpTo
      <4>2. i \in UpTo(ids, id) /\ i \notin Before(ids, i)
        BY <3>2 DEF Before, UpTo
      <4>3. IsFiniteSet(UpTo(ids, id))
        BY FS_Subset DEF UpTo
      <4>4. /\ Cardinality(Before(ids, i)) <= Rank(ids, id)
            /\ Cardinality(Before(ids, i)) # Rank(ids, id)
        BY <4>1, <4>2, <4>3, FS_Subset DEF Rank
      <4>5. Cardinality(Before(ids, i)) < n
        BY <1>2, <3>1, <4>1, <4>4
      <4> QED BY <1>3, <4>1, <4>5
    <3>3. UpTo(ids, id) \in SUBSET First(n, ids)
      BY <3>2
    <3>4. Rank(ids, id) <= Cardinality(First(n, ids))
      BY <2>1, <3>3, FS_Subset DEF Rank
    <3> QED BY <3>1, <3>4
  <2> QED BY <2>2, <2>3
<1> QED BY <1>1, <1>5, <1>6

LEMMA FirstIsClosed ==
  ASSUME NEW ids \in SUBSET Nat, IsFiniteSet(ids), NEW n \in Nat,
         NEW j \in First(n, ids), NEW i \in ids, i <= j
  PROVE  i \in First(n, ids)
<1>1. j \in ids /\ Cardinality(Before(ids, j)) < n
  BY DEF First, Before
<1>2. i \in Nat /\ j \in Nat
  BY <1>1
<1>3. Before(ids, i) \in SUBSET Before(ids, j)
  <2>1. ASSUME NEW k \in ids, k < i
        PROVE  k < j
    <3>1. k \in Nat
      OBVIOUS
    <3> QED BY <1>2, <2>1, <3>1
  <2> QED BY <2>1 DEF Before
<1>4. IsFiniteSet(Before(ids, j))
  <2>1. Before(ids, j) \in SUBSET ids
    BY DEF Before
  <2> QED BY <2>1, FS_Subset
<1>5. /\ Cardinality(Before(ids, i)) <= Cardinality(Before(ids, j))
      /\ Cardinality(Before(ids, i)) \in Nat /\ Cardinality(Before(ids, j)) \in Nat
  BY <1>3, <1>4, FS_Subset, FS_CardinalityType
<1>6. Cardinality(Before(ids, i)) < n
  BY <1>1, <1>5
<1> QED BY <1>6 DEF First, Before

\* The ids of a page, and whether others follow.
Page(ids) == InOrder(First(Limit, Fetch(ids)))
HasMore(ids) == Cardinality(Fetch(ids)) > Limit

\* A page lists, in order and without a gap, the ids that are left up to its last
\* one, and all of them if it is the last page.
LEMMA PagesHaveNoGaps ==
  ASSUME NEW ids \in SUBSET Nat, IsFiniteSet(ids)
  PROVE  /\ Page(ids) \in Seq(ids)
         /\ \A m, n \in DOMAIN Page(ids) : m < n => Page(ids)[m] < Page(ids)[n]
         /\ ~HasMore(ids) => ToSetOf(Page(ids)) = ids
         /\ HasMore(ids) =>
              /\ Page(ids) # <<>>
              /\ \A id \in ids : id <= Page(ids)[Len(Page(ids))] => id \in ToSetOf(Page(ids))
<1> DEFINE results == First(Limit + 1, ids)
           page == First(Limit, results)
           data == InOrder(page)
<1>1. Limit \in Nat /\ Limit >= 1 /\ Limit + 1 \in Nat
  BY ListingAssumption
<1>2. results \in SUBSET ids /\ page \in SUBSET results
  BY DEF First
<1>3. /\ results \in SUBSET Nat /\ IsFiniteSet(results)
      /\ page \in SUBSET Nat /\ IsFiniteSet(page) /\ page \in SUBSET ids
  BY <1>2, FS_Subset
<1>4. Page(ids) = data /\ Fetch(ids) = results
  BY DEF Page, Fetch
<1>5. /\ Cardinality(ids) \in Nat /\ Cardinality(results) \in Nat
      /\ Cardinality(page) \in Nat
  BY <1>3, FS_CardinalityType
<1>6. /\ Cardinality(ids) <= Limit + 1 => results = ids
      /\ Cardinality(ids) > Limit + 1 => Cardinality(results) >= Limit + 1
  BY <1>1, FirstTakes
<1>7. /\ Cardinality(results) <= Limit => page = results
      /\ Cardinality(results) > Limit => Cardinality(page) >= Limit
  BY <1>1, <1>3, FirstTakes
<1>8. \A j \in results, i \in ids : i <= j => i \in results
  BY <1>1, FirstIsClosed
<1>9. \A j \in page, i \in results : i <= j => i \in page
  BY <1>1, <1>3, FirstIsClosed
<1> HIDE DEF results, page
<1>10. /\ data \in Seq(page) /\ Len(data) = Cardinality(page)
       /\ \A m, n \in 1..Cardinality(page) : m < n => data[m] < data[n]
       /\ ToSetOf(data) = page
  BY <1>3, InOrderSorts
<1> HIDE DEF data
<1>11. data \in Seq(ids)
  BY <1>3, <1>10, SeqMonotonic
<1>12. \A m, n \in DOMAIN data : m < n => data[m] < data[n]
  BY <1>10
<1>13. ASSUME ~(Cardinality(results) > Limit)
       PROVE  ToSetOf(data) = ids
  <2>1. results = ids
    BY <1>1, <1>5, <1>6, <1>13
  <2>2. page = results
    BY <1>1, <1>5, <1>7, <1>13
  <2> QED BY <1>10, <2>1, <2>2
<1>14. ASSUME Cardinality(results) > Limit
       PROVE  /\ data # <<>>
              /\ \A id \in ids : id <= data[Len(data)] => id \in ToSetOf(data)
  <2>1. Len(data) \in Nat /\ Len(data) >= 1
    BY <1>1, <1>5, <1>7, <1>10, <1>14
  <2>2. data # <<>> /\ data[Len(data)] \in page
    BY <1>10, <2>1
  <2>3. \A id \in ids : id <= data[Len(data)] => id \in page
    BY <1>2, <1>8, <1>9, <2>2
  <2> QED BY <1>10, <2>2, <2>3
<1> QED BY <1>4, <1>11, <1>12, <1>13, <1>14 DEF HasMore

-----------------------------------------------------------------------------
(***************************************************************************)
(* The walks, over the committed rows                                      *)
(***************************************************************************)

\* What a walk k has met of the rows tb, when those in steady have matched all
\* the time.
InScope(k, tb) ==
  \A n \in DOMAIN k.got : k.got[n] \in DOMAIN tb /\ MayGet(k.query.caller, tb[k.got[n]])
Ascends(k) == \A m, n \in DOMAIN k.got : m < n => k.got[m] < k.got[n]
Complete(k, steady) ==
  /\ k.stage = "resting" => k.cursor = 0 /\ k.got = <<>>
  /\ k.stage = "walking" =>
       /\ \A n \in DOMAIN k.got : k.got[n] <= k.cursor
       /\ \A id \in steady : id <= k.cursor => id \in ToSetOf(k.got)
  /\ k.stage = "finished" => steady \subseteq ToSetOf(k.got)

GoodWalk(k, steady, tb) ==
  /\ k \in Walk(DOMAIN tb)
  /\ steady \subseteq Matching(k.query, tb)
  /\ InScope(k, tb) /\ Ascends(k) /\ Complete(k, steady)

WalkInv ==
  /\ walk \in [Walkers -> Walk(Nat)]
  /\ steadily \in [Walkers -> SUBSET Nat]
  /\ \A w \in Walkers : GoodWalk(walk[w], steadily[w], Committed.table)

\* The query gives nobody a row that getRequest would refuse.
LEMMA MatchesAreInScope ==
  ASSUME NEW q \in Queries, NEW request, Matches(q, request)
  PROVE  MayGet(q.caller, request)
BY ListingAssumption DEF Matches, MayGet, Roles

LEMMA RowIds ==
  ASSUME NEW tb \in Seq(Row)
  PROVE  /\ DOMAIN tb \in SUBSET (Nat \ {0})
         /\ IsFiniteSet(DOMAIN tb)
<1>1. DOMAIN tb = 1..Len(tb) /\ Len(tb) \in Nat
  OBVIOUS
<1>2. 1..Len(tb) \in SUBSET (Nat \ {0})
  BY <1>1
<1>3. IsFiniteSet(1..Len(tb))
  BY <1>1, FS_Interval
<1> QED BY <1>1, <1>2, <1>3

LEMMA InitWalks == IntakeInit => WalkInv
<1> SUFFICES ASSUME SubmissionInit, ListingInit PROVE WalkInv
  BY DEF IntakeInit
<1>1. Committed.table = table /\ table \in Seq(Row)
  BY IntakeAssumption DEF SubmissionInit, Committed
<1>2. ASSUME NEW w \in Walkers
      PROVE  GoodWalk(walk[w], steadily[w], Committed.table) /\ walk[w] \in Walk(Nat)
  <2>1. PICK q \in Queries :
          walk[w] = [stage |-> "resting", query |-> q, cursor |-> 0, got |-> <<>>]
    BY DEF ListingInit
  <2>2. walk[w] \in Walk(DOMAIN table) /\ walk[w] \in Walk(Nat)
    BY <2>1 DEF Walk
  <2>3. steadily[w] = {}
    BY DEF ListingInit
  <2> QED BY <1>1, <2>1, <2>2, <2>3 DEF GoodWalk, InScope, Ascends, Complete
<1>3. DOMAIN walk = Walkers /\ walk = [w \in Walkers |-> walk[w]]
  BY DEF ListingInit
<1>4. walk \in [Walkers -> Walk(Nat)]
  BY <1>2, <1>3
<1>5. steadily \in [Walkers -> SUBSET Nat]
  BY DEF ListingInit
<1> QED BY <1>2, <1>4, <1>5 DEF WalkInv

\* A page put after what a walk has got so far.
LEMMA Appended ==
  ASSUME NEW S, NEW got \in Seq(S), NEW page \in Seq(S)
  PROVE  /\ Len(got) \in Nat /\ Len(page) \in Nat
         /\ DOMAIN got = 1..Len(got) /\ DOMAIN page = 1..Len(page)
         /\ got \o page \in Seq(S)
         /\ Len(got \o page) = Len(got) + Len(page)
         /\ DOMAIN (got \o page) = 1..(Len(got) + Len(page))
         /\ \A n \in 1..Len(got) : (got \o page)[n] = got[n]
         /\ \A n \in DOMAIN (got \o page) :
              \/ n \in DOMAIN got /\ (got \o page)[n] = got[n]
              \/ n - Len(got) \in DOMAIN page /\ (got \o page)[n] = page[n - Len(got)]
         /\ ToSetOf(got \o page) = ToSetOf(got) \cup ToSetOf(page)
<1> DEFINE all == got \o page
<1>1. /\ Len(got) \in Nat /\ Len(page) \in Nat
      /\ DOMAIN got = 1..Len(got) /\ DOMAIN page = 1..Len(page)
  OBVIOUS
<1>2. /\ all \in Seq(S)
      /\ Len(all) = Len(got) + Len(page)
      /\ \A n \in 1..(Len(got) + Len(page)) :
           all[n] = IF n <= Len(got) THEN got[n] ELSE page[n - Len(got)]
  BY ConcatProperties
<1>3. DOMAIN all = 1..(Len(got) + Len(page))
  BY <1>1, <1>2
<1> HIDE DEF all
<1>4. \A n \in 1..Len(got) : n \in DOMAIN all /\ all[n] = got[n]
  BY <1>1, <1>2, <1>3
<1>5. \A n \in 1..Len(page) : Len(got) + n \in DOMAIN all /\ all[Len(got) + n] = page[n]
  <2> TAKE n \in 1..Len(page)
  <2>1. /\ Len(got) + n \in 1..(Len(got) + Len(page))
        /\ ~(Len(got) + n <= Len(got)) /\ (Len(got) + n) - Len(got) = n
    BY <1>1
  <2> QED BY <1>2, <1>3, <2>1
<1>6. ASSUME NEW n \in DOMAIN all
      PROVE  \/ n \in DOMAIN got /\ all[n] = got[n]
             \/ n - Len(got) \in DOMAIN page /\ all[n] = page[n - Len(got)]
  <2>1. n \in Nat /\ n >= 1 /\ n <= Len(got) + Len(page)
    BY <1>1, <1>3
  <2>2. CASE n <= Len(got)
    BY <1>1, <1>4, <2>1, <2>2
  <2>3. CASE ~(n <= Len(got))
    <3>1. n - Len(got) \in 1..Len(page)
      BY <1>1, <2>1, <2>3
    <3>2. all[n] = page[n - Len(got)]
      BY <1>1, <1>2, <2>1, <2>3
    <3> QED BY <1>1, <3>1, <3>2
  <2> QED BY <2>2, <2>3
<1>7. ToSetOf(all) = ToSetOf(got) \cup ToSetOf(page)
  <2>1. ASSUME NEW x \in ToSetOf(all)
        PROVE  x \in ToSetOf(got) \cup ToSetOf(page)
    BY <1>6 DEF ToSetOf
  <2>2. ASSUME NEW x \in ToSetOf(got)
        PROVE  x \in ToSetOf(all)
    BY <1>1, <1>4 DEF ToSetOf
  <2>3. ASSUME NEW x \in ToSetOf(page)
        PROVE  x \in ToSetOf(all)
    BY <1>1, <1>5 DEF ToSetOf
  <2> QED BY <2>1, <2>2, <2>3
<1> QED
  BY <1>1, <1>2, <1>3, <1>4, <1>6, <1>7 DEF all

\* Of a listing that was not empty, the next page starts after its last id.
LEMMA NextPageIsGood ==
  ASSUME NEW tb \in Seq(Row), NEW k, NEW steady, GoodWalk(k, steady, tb), k.stage = "walking",
         NEW ids, ids = {id \in Matching(k.query, tb) : id > k.cursor},
         NEW next, next = [k EXCEPT !.stage = IF HasMore(ids) THEN "walking" ELSE "finished",
                                    !.cursor = IF HasMore(ids) THEN Page(ids)[Len(Page(ids))] ELSE 0,
                                    !.got = k.got \o Page(ids)]
  PROVE  GoodWalk(next, steady, tb)
<1> DEFINE D == DOMAIN tb
           page == Page(ids)
           last == page[Len(page)]
<1>1. D \in SUBSET (Nat \ {0}) /\ IsFiniteSet(D)
  BY RowIds
<1>2. /\ k.query \in Queries /\ k.cursor \in D \cup {0} /\ k.got \in Seq(D)
      /\ k = [stage |-> k.stage, query |-> k.query, cursor |-> k.cursor, got |-> k.got]
  BY DEF GoodWalk, Walk
<1>3. ids \in SUBSET D /\ ids \in SUBSET Nat /\ IsFiniteSet(ids)
  <2>1. ids \in SUBSET D
    BY DEF Matching
  <2> QED BY <1>1, <2>1, FS_Subset
<1>4. /\ page \in Seq(ids)
      /\ \A m, n \in DOMAIN page : m < n => page[m] < page[n]
      /\ ~HasMore(ids) => ToSetOf(page) = ids
      /\ HasMore(ids) => page # <<>> /\ \A id \in ids : id <= last => id \in ToSetOf(page)
  BY <1>3, PagesHaveNoGaps
<1>5. /\ next.stage = IF HasMore(ids) THEN "walking" ELSE "finished"
      /\ next.cursor = IF HasMore(ids) THEN last ELSE 0
      /\ next.got = k.got \o page
      /\ next.query = k.query
      /\ next = [stage |-> next.stage, query |-> next.query,
                 cursor |-> next.cursor, got |-> next.got]
  BY <1>2
<1> HIDE DEF page
<1>6. page \in Seq(D) /\ page \in Seq(Nat) /\ k.got \in Seq(Nat)
  BY <1>1, <1>2, <1>3, <1>4
<1>7. \A n \in DOMAIN page : page[n] \in ids /\ page[n] > k.cursor
  BY <1>4
<1>8. HasMore(ids) => Len(page) \in DOMAIN page /\ last \in ids
  BY <1>4, <1>6
<1>9. /\ Len(next.got) = Len(k.got) + Len(page)
      /\ DOMAIN next.got = 1..(Len(k.got) + Len(page))
      /\ Len(k.got) \in Nat /\ Len(page) \in Nat
      /\ DOMAIN k.got = 1..Len(k.got) /\ DOMAIN page = 1..Len(page)
      /\ \A n \in 1..Len(k.got) : next.got[n] = k.got[n]
      /\ next.got \in Seq(D)
      /\ \A n \in DOMAIN next.got :
           \/ n \in DOMAIN k.got /\ next.got[n] = k.got[n]
           \/ n - Len(k.got) \in DOMAIN page /\ next.got[n] = page[n - Len(k.got)]
      /\ ToSetOf(next.got) = ToSetOf(k.got) \cup ToSetOf(page)
  <2> DEFINE got == k.got
             all == next.got
  <2>1. got \in Seq(D) /\ page \in Seq(D) /\ all = got \o page
    BY <1>2, <1>5, <1>6
  <2> HIDE DEF D, got, all
  <2>2. /\ Len(all) = Len(got) + Len(page)
        /\ DOMAIN all = 1..(Len(got) + Len(page))
        /\ Len(got) \in Nat /\ Len(page) \in Nat
        /\ DOMAIN got = 1..Len(got) /\ DOMAIN page = 1..Len(page)
        /\ \A n \in 1..Len(got) : all[n] = got[n]
        /\ all \in Seq(D)
    BY <2>1, Appended
  <2>3. \A n \in DOMAIN all :
          \/ n \in DOMAIN got /\ all[n] = got[n]
          \/ n - Len(got) \in DOMAIN page /\ all[n] = page[n - Len(got)]
    BY <2>1, Appended
  <2>4. ToSetOf(all) = ToSetOf(got) \cup ToSetOf(page)
    BY <2>1, Appended
  <2> QED BY <2>2, <2>3, <2>4 DEF got, all
<1>10. \A n \in DOMAIN next.got :
         \/ n \in DOMAIN k.got /\ next.got[n] = k.got[n]
         \/ n - Len(k.got) \in DOMAIN page /\ next.got[n] = page[n - Len(k.got)]
  BY <1>9
<1>11. ToSetOf(next.got) = ToSetOf(k.got) \cup ToSetOf(page)
  BY <1>9
<1>12. next \in Walk(D)
  <2>1. next.cursor \in D \cup {0}
    BY <1>3, <1>5, <1>8
  <2> QED BY <1>2, <1>5, <1>9, <2>1 DEF Walk
<1>13. InScope(next, tb)
  <2>1. \A n \in DOMAIN k.got : k.got[n] \in D /\ MayGet(k.query.caller, tb[k.got[n]])
    BY DEF GoodWalk, InScope
  <2>2. \A n \in DOMAIN page : page[n] \in D /\ MayGet(k.query.caller, tb[page[n]])
    BY <1>2, <1>7, MatchesAreInScope DEF Matching
  <2>3. \A n \in DOMAIN next.got :
          next.got[n] \in D /\ MayGet(k.query.caller, tb[next.got[n]])
    BY <1>10, <2>1, <2>2
  <2> QED BY <1>5, <2>3 DEF InScope
<1>14. \A n \in DOMAIN k.got : k.got[n] <= k.cursor
  BY DEF GoodWalk, Complete
<1>15. Ascends(next)
  <2> SUFFICES ASSUME NEW m \in DOMAIN next.got, NEW n \in DOMAIN next.got, m < n
               PROVE  next.got[m] < next.got[n]
    BY DEF Ascends
  <2>1. CASE m \in DOMAIN k.got /\ n \in DOMAIN k.got
    BY <1>9, <2>1 DEF GoodWalk, Ascends
  <2>2. CASE m \in DOMAIN k.got /\ n \notin DOMAIN k.got
    <3>1. k.got[m] <= k.cursor /\ page[n - Len(k.got)] > k.cursor
      BY <1>7, <1>10, <1>14, <2>2
    <3>2. k.got[m] \in Nat /\ page[n - Len(k.got)] \in Nat /\ k.cursor \in Nat
      <4>1. k.got[m] \in Nat
        BY <1>6, <2>2
      <4>2. n - Len(k.got) \in DOMAIN page
        BY <1>10, <2>2
      <4>3. page[n - Len(k.got)] \in Nat
        BY <1>6, <4>2
      <4>4. k.cursor \in Nat
        BY <1>1, <1>2
      <4> QED BY <4>1, <4>3, <4>4
    <3>3. next.got[m] = k.got[m] /\ next.got[n] = page[n - Len(k.got)]
      BY <1>9, <1>10, <2>2
    <3> HIDE DEF last, D
    <3> QED BY <3>1, <3>2, <3>3
  <2>3. CASE m \notin DOMAIN k.got
    <3>1. n \notin DOMAIN k.got
      BY <1>9, <2>3
    <3>2. m - Len(k.got) < n - Len(k.got)
      BY <1>9
    <3> QED BY <1>4, <1>10, <2>3, <3>1, <3>2
  <2> QED BY <2>1, <2>2, <2>3
<1>16. Complete(next, steady)
  <2>1. \A id \in steady : id \in Matching(k.query, tb) /\ id \in Nat
    BY <1>1 DEF GoodWalk, Matching
  <2>2. ASSUME NEW id \in steady
        PROVE  id \in ToSetOf(k.got) \/ id \in ids
    <3>1. id <= k.cursor => id \in ToSetOf(k.got)
      BY DEF GoodWalk, Complete
    <3>2. id <= k.cursor \/ id > k.cursor
      BY <1>1, <1>2, <2>1
    <3> QED BY <2>1, <3>1, <3>2
  <2>3. CASE HasMore(ids)
    <3>1. next.stage = "walking" /\ next.cursor = last
      BY <1>5, <2>3
    <3>2. last \in Nat /\ k.cursor \in Nat /\ last > k.cursor
      BY <1>1, <1>2, <1>3, <1>7, <1>8, <2>3
    <3>3. \A n \in DOMAIN k.got : k.got[n] <= last
      <4>1. \A n \in DOMAIN k.got : k.got[n] \in Nat
        BY <1>6
      <4> QED BY <1>14, <3>2, <4>1
    <3>4. \A n \in DOMAIN page : page[n] <= last
      <4> TAKE n \in DOMAIN page
      <4>1. n = Len(page) \/ n < Len(page)
        BY <1>9
      <4>2. page[n] \in Nat
        BY <1>6
      <4> QED BY <1>4, <1>8, <2>3, <3>2, <4>1, <4>2
    <3>5. \A n \in DOMAIN next.got : next.got[n] <= next.cursor
      BY <1>10, <3>1, <3>3, <3>4
    <3>6. \A id \in steady : id <= next.cursor => id \in ToSetOf(next.got)
      BY <1>4, <1>11, <2>2, <2>3, <3>1
    <3> QED BY <3>1, <3>5, <3>6 DEF Complete
  <2>4. CASE ~HasMore(ids)
    <3>1. next.stage = "finished"
      BY <1>5, <2>4
    <3> QED BY <1>4, <1>11, <2>2, <2>4, <3>1 DEF Complete
  <2> QED BY <2>3, <2>4
<1>17. steady \subseteq Matching(next.query, tb)
  BY <1>5 DEF GoodWalk
<1> QED BY <1>12, <1>13, <1>15, <1>16, <1>17 DEF GoodWalk

\* Committed rows are not taken away, nor given to somebody else.
RowsStay ==
  \A id \in DOMAIN Committed.table :
    /\ id \in DOMAIN Committed'.table
    /\ Committed'.table[id].employee = Committed.table[id].employee
    /\ Committed'.table[id].location = Committed.table[id].location

\* What the clients still count as matching does match.
StillMatch ==
  \A w \in Walkers :
    steadily'[w] \subseteq steadily[w] \cap Matching(walk[w].query, Committed'.table)

LEMMA StepKeepsRowsInPlace ==
  ASSUME LockInv, TransactionInv, TransactionInv', WalkInv, [IntakeNext]_intakeVars,
         UNCHANGED walk, Watch(table')
  PROVE  RowsStay /\ StillMatch
<1>1. \A w \in Walkers :
        /\ steadily'[w] = steadily[w] \cap Matching(walk[w].query, table')
        /\ steadily[w] \subseteq Matching(walk[w].query, Committed.table)
  BY DEF Watch, WalkInv, GoodWalk
<1>2. CASE CommitsNothing
  BY <1>1, <1>2 DEF CommitsNothing, RowsStay, StillMatch
<1>3. CASE CommitsDecision
  <2>1. Committed.table = table /\ Committed'.table = table'
    BY <1>3 DEF CommitsDecision, Committed
  <2>2. /\ DOMAIN table' = DOMAIN table
        /\ \A i \in DOMAIN table : /\ table'[i].employee = table[i].employee
                                   /\ table'[i].location = table[i].location
    BY <1>3, DecisionsAreTyped DEF CommitsDecision, TransactionInv, TableTypes
  <2> QED BY <1>1, <2>1, <2>2 DEF RowsStay, StillMatch
<1>4. ASSUME NEW s \in Submissions, CommitsRequest(s)
      PROVE  RowsStay /\ StillMatch
  <2> DEFINE old == Committed.table
             new == Committed'.table
  <2>1. old \in Seq(Row) /\ NewRow(s) \in Row /\ new = Append(old, NewRow(s))
    BY <1>4, CommittedTyped DEF CommitsRequest, Snapshot
  <2> HIDE DEF old, new
  <2>2. \A id \in DOMAIN old : id \in DOMAIN new /\ new[id] = old[id]
    BY <2>1
  <2>3. \A q : Matching(q, old) \subseteq Matching(q, new)
    BY <2>2 DEF Matching
  <2> QED BY <1>1, <2>2, <2>3 DEF RowsStay, StillMatch, old, new
<1> QED BY <1>2, <1>3, <1>4, StepCommits

\* A walk is not disturbed by what becomes of the rows meanwhile.
LEMMA RowsStayKeepsWalks ==
  ASSUME WalkInv, UNCHANGED walk, Watch(table'), RowsStay, StillMatch
  PROVE  WalkInv'
<1>1. \A w \in Walkers : steadily'[w] \subseteq steadily[w]
  BY DEF StillMatch
<1>2. steadily' \in [Walkers -> SUBSET Nat]
  BY <1>1 DEF Watch, WalkInv
<1>3. ASSUME NEW w \in Walkers
      PROVE  GoodWalk(walk[w], steadily[w], Committed.table)'
  <2>1. PICK k : k = walk[w] /\ k = walk'[w]
    OBVIOUS
  <2>2. GoodWalk(k, steadily[w], Committed.table)
    BY <2>1 DEF WalkInv
  <2>3. DOMAIN Committed.table \subseteq DOMAIN Committed'.table
    BY DEF RowsStay
  <2>4. k \in Walk(DOMAIN Committed'.table)
    <3> DEFINE old == DOMAIN Committed.table
               new == DOMAIN Committed'.table
    <3>1. k \in Walk(old) /\ old \subseteq new
      BY <2>2, <2>3 DEF GoodWalk
    <3> HIDE DEF old, new
    <3>2. k.got \in Seq(old) /\ k.got \in Seq(new)
      BY <3>1, SeqMonotonic DEF Walk
    <3>3. k \in Walk(new)
      BY <3>1, <3>2 DEF Walk
    <3> QED BY <3>3 DEF new
  <2>5. InScope(k, Committed'.table)
    BY <2>2 DEF RowsStay, GoodWalk, InScope, MayGet
  <2>6. Complete(k, steadily'[w])
    BY <1>1, <2>2 DEF GoodWalk, Complete
  <2>7. steadily'[w] \subseteq Matching(k.query, Committed'.table)
    BY <2>1 DEF StillMatch
  <2>8. Ascends(k)
    BY <2>2 DEF GoodWalk
  <2>9. GoodWalk(k, steadily'[w], Committed'.table)
    BY <2>4, <2>5, <2>6, <2>7, <2>8 DEF GoodWalk
  <2> QED BY <2>1, <2>9
<1> QED BY <1>2, <1>3 DEF WalkInv

\* The client's own steps, between two transactions.
LEMMA ListingKeepsWalks ==
  ASSUME TransactionInv, WalkInv, BetweenTransactions, UNCHANGED submissionVars,
         NEW w \in Walkers, StartWalk(w, table) \/ NextPage(w, table)
  PROVE  WalkInv'
<1>1. /\ Committed = [row |-> row, table |-> table] /\ Committed' = Committed
      /\ Committed.table = table /\ table \in Seq(Row)
  BY DEF BetweenTransactions, Committed, submissionVars, dbVars, TransactionInv, TableTypes
<1>2. GoodWalk(walk[w], steadily[w], table)
  BY <1>1 DEF WalkInv
<1>3. DOMAIN table \in SUBSET (Nat \ {0})
  BY <1>1, RowIds
<1>4. \E next, steady : /\ GoodWalk(next, steady, table)
                        /\ walk' = [walk EXCEPT ![w] = next]
                        /\ steadily' = [steadily EXCEPT ![w] = steady]
  <2>1. CASE StartWalk(w, table)
    <3> DEFINE k == walk[w]
               steady == Matching(k.query, table)
    <3>1. PICK next : next = [k EXCEPT !.stage = "walking"]
      OBVIOUS
    <3>2. k \in Walk(DOMAIN table) /\ k.cursor = 0 /\ k.got = <<>>
      BY <1>2, <2>1 DEF StartWalk, GoodWalk, Complete
    <3>3. /\ next.stage = "walking" /\ next.query = k.query
          /\ next.cursor = 0 /\ next.got = <<>> /\ next \in Walk(DOMAIN table)
      BY <3>1, <3>2 DEF Walk
    <3>4. \A id \in steady : ~(id <= 0)
      BY <1>3 DEF Matching
    <3>5. Complete(next, steady)
      BY <3>3, <3>4 DEF Complete
    <3>6. GoodWalk(next, steady, table)
      BY <3>3, <3>5 DEF GoodWalk, InScope, Ascends
    <3>7. walk' = [walk EXCEPT ![w] = next] /\ steadily' = [steadily EXCEPT ![w] = steady]
      BY <2>1, <3>1 DEF StartWalk
    <3> QED BY <3>6, <3>7
  <2>2. CASE NextPage(w, table)
    <3> DEFINE k == walk[w]
    <3>1. PICK ids : ids = {id \in Matching(k.query, table) : id > k.cursor}
      OBVIOUS
    <3>2. PICK next :
            next = [k EXCEPT !.stage = IF HasMore(ids) THEN "walking" ELSE "finished",
                             !.cursor = IF HasMore(ids) THEN Page(ids)[Len(Page(ids))] ELSE 0,
                             !.got = k.got \o Page(ids)]
      OBVIOUS
    <3>3. walk' = [walk EXCEPT ![w] = next] /\ steadily' = steadily /\ k.stage = "walking"
      <4> DEFINE rest == AfterCursor(w, table)
      <4>1. rest = ids
        BY <3>1 DEF AfterCursor
      <4>2. /\ walk' = [walk EXCEPT ![w] =
                 [k EXCEPT !.stage = IF HasMore(rest) THEN "walking" ELSE "finished",
                           !.cursor = IF HasMore(rest) THEN Page(rest)[Len(Page(rest))] ELSE 0,
                           !.got = k.got \o Page(rest)]]
            /\ k.stage = "walking" /\ steadily' = steadily
        <5> DEFINE results == Fetch(rest)
                   data == InOrder(First(Limit, results))
        <5>1. /\ walk' = [walk EXCEPT ![w] =
                   [k EXCEPT !.stage = IF Cardinality(results) > Limit THEN "walking" ELSE "finished",
                             !.cursor = IF Cardinality(results) > Limit THEN data[Len(data)] ELSE 0,
                             !.got = k.got \o data]]
              /\ k.stage = "walking" /\ steadily' = steadily
          BY <2>2 DEF NextPage
        <5>2. data = Page(rest) /\ (Cardinality(results) > Limit <=> HasMore(rest))
          BY DEF Page, HasMore
        <5> HIDE DEF results, data, rest
        <5> QED BY <5>1, <5>2
      <4> HIDE DEF rest
      <4> QED BY <3>2, <4>1, <4>2
    <3>4. GoodWalk(next, steadily[w], table)
      BY <1>1, <1>2, <3>1, <3>2, <3>3, NextPageIsGood
    <3>5. steadily' = [steadily EXCEPT ![w] = steadily[w]]
      BY <3>3 DEF WalkInv
    <3> QED BY <3>3, <3>4, <3>5
  <2> QED BY <2>1, <2>2
<1>5. PICK next, steady : /\ GoodWalk(next, steady, table)
                          /\ walk' = [walk EXCEPT ![w] = next]
                          /\ steadily' = [steadily EXCEPT ![w] = steady]
  BY <1>4
<1>6. steady \in SUBSET Nat
  BY <1>3, <1>5 DEF GoodWalk, Matching
<1>7. next \in Walk(Nat)
  <2> DEFINE ids == DOMAIN table
  <2>1. next \in Walk(ids) /\ ids \in SUBSET Nat
    BY <1>3, <1>5 DEF GoodWalk
  <2> HIDE DEF ids
  <2>2. next.got \in Seq(Nat)
    BY <2>1, SeqMonotonic DEF Walk
  <2> QED BY <2>1, <2>2 DEF Walk
<1>8. walk' \in [Walkers -> Walk(Nat)] /\ steadily' \in [Walkers -> SUBSET Nat]
  BY <1>5, <1>6, <1>7 DEF WalkInv
<1>9. ASSUME NEW v \in Walkers
      PROVE  GoodWalk(walk'[v], steadily'[v], table)
  <2>1. CASE v = w
    BY <1>5, <2>1 DEF WalkInv
  <2>2. CASE v # w
    BY <1>1, <1>5, <2>2 DEF WalkInv
  <2> QED BY <2>1, <2>2
<1> QED BY <1>1, <1>8, <1>9 DEF WalkInv

LEMMA StepKeepsWalks ==
  ASSUME LockInv, TransactionInv, TransactionInv', WalkInv, [IntakeNext]_intakeVars
  PROVE  WalkInv'
<1>1. ASSUME UNCHANGED walk, Watch(table')
      PROVE  WalkInv'
  BY <1>1, StepKeepsRowsInPlace, RowsStayKeepsWalks
<1>2. ASSUME BetweenTransactions, UNCHANGED submissionVars,
             NEW w \in Walkers, StartWalk(w, table) \/ NextPage(w, table)
      PROVE  WalkInv'
  BY <1>2, ListingKeepsWalks
<1>3. CASE UNCHANGED intakeVars
  <2>1. UNCHANGED <<walk, steadily>> /\ Committed' = Committed
    BY <1>3 DEF intakeVars, listingVars, submissionVars, dbVars, Committed
  <2> QED BY <2>1 DEF WalkInv
<1> QED BY <1>1, <1>2, <1>3 DEF IntakeNext, Decide

LEMMA IntakeInvariant == IntakeSpec => [](LockInv /\ TransactionInv /\ WalkInv)
<1>1. IntakeInit => LockInv /\ TransactionInv /\ WalkInv
  BY InitLocks, InitTransaction, InitWalks
<1>2. LockInv /\ TransactionInv /\ WalkInv /\ [IntakeNext]_intakeVars
        => (LockInv /\ TransactionInv /\ WalkInv)'
  BY StepKeepsLocks, StepKeepsTransaction, StepKeepsWalks
<1> QED BY <1>1, <1>2, PTL DEF IntakeSpec

\* A client that has turned all the pages of listRequests has met every request
\* that matched all the time, for any page size and whatever else went on.
THEOREM NothingIsMissed == IntakeSpec => []WalkMissesNothing
<1>1. WalkInv => WalkMissesNothing
  BY DEF WalkInv, GoodWalk, Complete, WalkMissesNothing
<1> QED BY <1>1, IntakeInvariant, PTL

\* It has met none twice, and none that getRequest would refuse to show it.
THEOREM ListingStaysInScope == IntakeSpec => []WalkStaysInScope
<1>1. TransactionInv /\ WalkInv => WalkStaysInScope
  <2> SUFFICES ASSUME TransactionInv, WalkInv, NEW w \in Walkers
               PROVE  /\ \A m, n \in DOMAIN walk[w].got : m < n => walk[w].got[m] < walk[w].got[n]
                      /\ \A n \in DOMAIN walk[w].got :
                           MayGet(walk[w].query.caller, table[walk[w].got[n]])
    BY DEF WalkStaysInScope
  <2>1. InScope(walk[w], Committed.table) /\ Ascends(walk[w])
    BY DEF WalkInv, GoodWalk
  <2> QED BY <2>1, CommittedInTable DEF InScope, Ascends
<1> QED BY <1>1, IntakeInvariant, PTL

\* The chain of locks, the tables with their snapshots and the walks have their
\* types; the balance never goes below zero or above the total.
THEOREM IntakeTypeCorrect == IntakeSpec => []IntakeTypeOK
<1>1. LockInv /\ TransactionInv /\ WalkInv => IntakeTypeOK
  <2> SUFFICES ASSUME LockInv, TransactionInv, WalkInv PROVE IntakeTypeOK
    OBVIOUS
  <2>1. /\ now \in Instants /\ table \in Seq(Row)
        /\ read \in [Submissions -> [reserved : Nat, version : Nat]]
        /\ row \in [reserved : 0..TotalDays, version : Nat]
    BY DEF TransactionInv, TableTypes, BalanceRow
  <2>2. attempt \in [Submissions -> 0..MaxAttempts]
    BY DEF TransactionInv, TableTypes, MaxAttempts
  <2>3. \A n \in DOMAIN saved : saved[n].row \in [reserved : 0..TotalDays, version : Nat]
    BY InsideTransaction DEF TransactionInv, OneTransaction, Snapshot, BalanceRow
  <2>4. \A id \in DOMAIN Committed.table : id \in DOMAIN table
    BY CommittedInTable
  <2>5. ASSUME NEW w \in Walkers
        PROVE  walk[w] \in Walk(DOMAIN table) /\ steadily[w] \in SUBSET DOMAIN table
    <3> DEFINE old == DOMAIN Committed.table
               new == DOMAIN table
    <3>1. walk[w] \in Walk(old) /\ steadily[w] \subseteq old /\ old \subseteq new
      BY <2>4 DEF WalkInv, GoodWalk, Matching
    <3> HIDE DEF old, new
    <3>2. walk[w].got \in Seq(new)
      BY <3>1, SeqMonotonic DEF Walk
    <3>3. walk[w] \in Walk(new) /\ steadily[w] \in SUBSET new
      BY <3>1, <3>2 DEF Walk
    <3> QED BY <3>3 DEF new
  <2>6. walk \in [Walkers -> Walk(DOMAIN table)] /\ steadily \in [Walkers -> SUBSET DOMAIN table]
    <3>1. /\ DOMAIN walk = Walkers /\ walk = [w \in Walkers |-> walk[w]]
          /\ DOMAIN steadily = Walkers /\ steadily = [w \in Walkers |-> steadily[w]]
      BY DEF WalkInv
    <3> QED BY <2>5, <3>1
  <2> QED BY <2>1, <2>2, <2>3, <2>6 DEF IntakeTypeOK, LockInv, LockTypes
<1> QED BY <1>1, IntakeInvariant, PTL

=============================================================================
