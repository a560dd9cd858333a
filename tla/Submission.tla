----------------------------- MODULE Submission -----------------------------
(***************************************************************************)
(* RequestService.submitRequest, statement by statement.                   *)
(*                                                                         *)
(* The submissions of one employee queue up behind a chain of promises     *)
(* (withEmployeeLock).  All transactions run on the one connection to the  *)
(* database: one that begins inside another becomes a savepoint of it, and *)
(* committing or rolling back always means the innermost.  Control may     *)
(* pass to another submission after every statement.                       *)
(***************************************************************************)
EXTENDS RequestDates, Sequences

CONSTANTS
  Submissions,  \* calls of submitRequest by one employee for one balance
  None,         \* stands for no submission
  Employee,     \* whose requests are submitted: [employee, location]
  Dto,          \* [Submissions -> [start, end]], the dates asked for
  Instants,     \* the hours at which the submissions may come in
  TotalDays,    \* total_days of the balance
  Existing      \* rows of time_off_requests that are there already

ASSUME SubmissionAssumption ==
  /\ None \notin Submissions
  /\ Dto \in [Submissions -> [start : Nat, end : Nat]]
  /\ Instants \subseteq Nat
  /\ TotalDays \in Nat

VARIABLES
  now,       \* the time; nothing here takes as long as an hour
  stage,     \* how far each submission has come: see Stages
  prev,      \* the submission whose lock it waits for, or None
  lastLock,  \* reservationLocks' entry for the employee, None if there is none
  turn,      \* the order of arrival; only properties and proofs look at it
  read,      \* the balance as the submission has last read it
  attempt,   \* attempts to reserve that have failed
  row,       \* the balance: [reserved, version]; used days count as reserved
  table,     \* time_off_requests in id order
  saved      \* the snapshots that open transactions would roll back to

lockVars == <<stage, prev, lastLock, turn>>
dbVars == <<row, table, saved>>
localVars == <<now, read, attempt>>
submissionVars == <<lockVars, dbVars, localVars>>

\* "inside": the stages between taking the lock and giving it back.
Inside == {"locked", "begun", "scoped", "read", "reserved", "inserted", "throwing", "done"}
Stages == {"new", "refused", "queued", "returned"} \cup Inside

MaxAttempts == 3

SubmissionInit ==
  /\ now \in Instants
  /\ stage = [s \in Submissions |-> "new"]
  /\ prev = [s \in Submissions |-> None]
  /\ lastLock = None
  /\ turn = [s \in Submissions |-> 0]
  /\ read = [s \in Submissions |-> [reserved |-> 0, version |-> 0]]
  /\ attempt = [s \in Submissions |-> 0]
  /\ row = [reserved |-> 0, version |-> 0]
  /\ table = Existing
  /\ saved = <<>>

-----------------------------------------------------------------------------
(* Before the lock, and the lock *)

Goto(s, where) == stage' = [stage EXCEPT ![s] = where]
Step(s, from, to) == stage[s] = from /\ Goto(s, to)

HasGoodDates(s) == DatesAccepted(Dto[s].start, Dto[s].end, now)

\* Dates that are refused: 400, and nothing has happened.
RefuseDates(s) ==
  /\ ~HasGoodDates(s)
  /\ Step(s, "new", "refused")
  /\ UNCHANGED <<prev, lastLock, turn, dbVars, localVars>>

Waiting(s) == stage[s] \in {"queued"} \cup Inside

\* Of all that have come, the latest.
NextTurn == IF lastLock = None THEN 1 ELSE turn[lastLock] + 1

\* withEmployeeLock up to `await prev`: the lock in the map, if any, is the one
\* to wait for, and the submission's own takes its place.
Enqueue(s) ==
  /\ Step(s, "new", "queued")
  /\ prev' = [prev EXCEPT ![s] = lastLock]
  /\ lastLock' = s
  /\ turn' = [turn EXCEPT ![s] = NextTurn]

Submit(s) ==
  /\ HasGoodDates(s)
  /\ Enqueue(s)
  /\ UNCHANGED <<dbVars, localVars>>

\* A lock that is not in the map any more, or never was, is resolved.
Resolved(lock) == lock \in {None} \cup {s \in Submissions : stage[s] = "returned"}

\* The promise waited for resolves.
Lock(s) ==
  /\ Step(s, "queued", "locked")
  /\ Resolved(prev[s])
  /\ UNCHANGED <<prev, lastLock, turn, dbVars, localVars>>

\* The map's entry is removed only if it is still the submission's own.
\* Mutants: it is removed in any case; it is compared with `next`, which is
\* never what the map holds.
EntryDropped(s) == lastLock' = None
EntryKept(s) == UNCHANGED lastLock
ForgetLock(s) == lastLock' = IF lastLock = s THEN None ELSE lastLock

\* The finally block of withEmployeeLock.
Unlock(s) ==
  /\ Step(s, "done", "returned")
  /\ ForgetLock(s)
  /\ UNCHANGED <<prev, turn, dbVars, localVars>>

-----------------------------------------------------------------------------
(* The transaction *)

\* startTransaction: BEGIN, or SAVEPOINT if a transaction is open.
Begin(s) ==
  /\ Step(s, "locked", "begun")
  /\ saved' = Append(saved, [row |-> row, table |-> table])
  /\ UNCHANGED <<prev, lastLock, turn, row, table, localVars>>

\* connect and startTransaction are outside the try: if they throw, there is
\* nothing to roll back, and the lock is given back.
FailToBegin(s) ==
  /\ Step(s, "locked", "done")
  /\ UNCHANGED <<prev, lastLock, turn, dbVars, localVars>>

\* ensureEmployeeScope finds the employee.
FindEmployee(s) ==
  /\ Step(s, "begun", "scoped")
  /\ UNCHANGED <<prev, lastLock, turn, dbVars, localVars>>

DaysOf(s) == DaysRequested(Dto[s].start, Dto[s].end)

\* total_days - used_days - reserved_days
\* Mutant: reserved_days is left out.
ReservedForgotten(balance) == TotalDays
DaysLeft(balance) == TotalDays - balance.reserved

Effective(balance) == IF DaysLeft(balance) < 0 THEN 0 ELSE DaysLeft(balance)

\* A round of reserveBalanceWithRetry: read the balance ...
ReadBalance(s) ==
  /\ Step(s, "scoped", "read")
  /\ Effective(row) >= DaysOf(s)
  /\ read' = [read EXCEPT ![s] = row]
  /\ UNCHANGED <<prev, lastLock, turn, dbVars, now, attempt>>

\* ... and update it if it is as it was read: reserveBalance.  Otherwise, one
\* of MaxAttempts is spent.
MayReserve(s) == row.version = read[s].version /\ DaysLeft(row) >= DaysOf(s)
Reserve(s) ==
  /\ stage[s] = "read"
  /\ IF MayReserve(s)
     THEN /\ Goto(s, "reserved")
          /\ row' = [reserved |-> row.reserved + DaysOf(s), version |-> row.version + 1]
          /\ UNCHANGED attempt
     ELSE /\ Goto(s, IF attempt[s] + 1 < MaxAttempts THEN "scoped" ELSE "throwing")
          /\ attempt' = [attempt EXCEPT ![s] = @ + 1]
          /\ UNCHANGED row
  /\ UNCHANGED <<prev, lastLock, turn, table, saved, now, read>>

\* save(TimeOffRequest): ids are given out in order.
NewRow(s) ==
  [employee |-> Employee.employee, location |-> Employee.location,
   start |-> Dto[s].start, end |-> Dto[s].end, days |-> DaysOf(s), status |-> "PENDING"]
InsertRow(s) ==
  /\ Step(s, "reserved", "inserted")
  /\ table' = Append(table, NewRow(s))
  /\ UNCHANGED <<prev, lastLock, turn, row, saved, localVars>>

Outermost == SubSeq(saved, 1, Len(saved) - 1)

Commit(s) ==
  /\ Step(s, "inserted", "done")
  /\ saved # <<>>
  /\ saved' = Outermost
  /\ UNCHANGED <<prev, lastLock, turn, row, table, localVars>>

\* No balance, not enough days, or an error of the database.
Throw(s) ==
  /\ stage[s] \in {"begun", "scoped", "read", "reserved", "inserted"}
  /\ Goto(s, "throwing")
  /\ UNCHANGED <<prev, lastLock, turn, dbVars, localVars>>

\* rollbackTransaction: back to where the innermost transaction began.
\* Mutant: it only ends the transaction.
RollbackForgotten == saved' = Outermost /\ UNCHANGED <<row, table>>
RollbackInnermost ==
  /\ row' = saved[Len(saved)].row
  /\ table' = saved[Len(saved)].table
  /\ saved' = Outermost

\* The catch block rethrows, and the finally block of the lock still runs.
\* Mutant: it does not, since there is no finally.
LockKept(s) == Goto(s, "throwing")
AfterRollback(s) == Goto(s, "done")

Rollback(s) ==
  /\ stage[s] = "throwing"
  /\ saved # <<>>
  /\ RollbackInnermost
  /\ AfterRollback(s)
  /\ UNCHANGED <<prev, lastLock, turn, localVars>>

-----------------------------------------------------------------------------
\* What a submission does once it has come.
Proceed(s) ==
  \/ Lock(s) \/ Unlock(s)
  \/ Begin(s) \/ FailToBegin(s) \/ FindEmployee(s) \/ ReadBalance(s) \/ Reserve(s)
  \/ InsertRow(s) \/ Commit(s) \/ Throw(s) \/ Rollback(s)

SubmissionNext == \E s \in Submissions : RefuseDates(s) \/ Submit(s) \/ Proceed(s)

SubmissionSpec == SubmissionInit /\ [][SubmissionNext]_submissionVars

=============================================================================
