------------------------------- MODULE Intake -------------------------------
(***************************************************************************)
(* Requests as they come in and are looked at: submissions insert rows,    *)
(* decisions change their status, and clients list them.                   *)
(***************************************************************************)
EXTENDS Submission, RequestListing, RequestStates

CONSTANT Decisions   \* the statuses that are given while clients list

\* The columns of time_off_requests that matter here.
Row ==
  [employee : Nat, location : STRING, start : Nat, end : Nat, days : Nat, status : RequestStatus]

ASSUME IntakeAssumption ==
  /\ Decisions \subseteq RequestStatus
  /\ Employee \in [employee : Nat, location : STRING]
  /\ Existing \in Seq(Row)

intakeVars == <<submissionVars, listingVars>>

IntakeInit == SubmissionInit /\ ListingInit

\* The balance after a decision: rejecting or cancelling a request of its own
\* employee releases the days, and leaves version as it is.  (A confirmation
\* moves days from reserved to used; row.reserved counts both.)
AfterDecision(old, request, to) ==
  IF /\ to \in {"REJECTED", "CANCELLED"}
     /\ [employee |-> request.employee, location |-> request.location] = Employee
  THEN [old EXCEPT !.reserved = IF @ < request.days THEN 0 ELSE @ - request.days]
  ELSE old

\* transitionRequest, by whoever calls it, and releaseReserved.
Decide(id) ==
  /\ \E to \in Decisions :
       /\ CanTransition(table[id].status, to)
       /\ table' = [table EXCEPT ![id].status = to]
       /\ row' = AfterDecision(row, table[id], to)
  /\ Watch(table')
  /\ UNCHANGED <<lockVars, localVars, saved, walk>>

\* Listings and decisions go on between the transactions of submissions: the
\* driver is synchronous, so they never see one half done.
BetweenTransactions == saved = <<>>

IntakeNext ==
  \/ SubmissionNext /\ Watch(table') /\ UNCHANGED walk
  \/ /\ BetweenTransactions
     /\ \E id \in DOMAIN table : Decide(id)
  \/ /\ BetweenTransactions
     /\ \E w \in Walkers : StartWalk(w, table) \/ NextPage(w, table)
     /\ UNCHANGED submissionVars

\* A submission that has come goes on until it returns.
Proceeds(s) == Proceed(s) /\ Watch(table') /\ UNCHANGED walk

IntakeSpec ==
  /\ IntakeInit /\ [][IntakeNext]_intakeVars
  /\ \A s \in Submissions : WF_intakeVars(Proceeds(s))

-----------------------------------------------------------------------------
IntakeTypeOK ==
  /\ now \in Instants
  /\ stage \in [Submissions -> Stages]
  /\ prev \in [Submissions -> Submissions \cup {None}]
  /\ lastLock \in Submissions \cup {None}
  /\ turn \in [Submissions -> Nat]
  /\ read \in [Submissions -> [reserved : Nat, version : Nat]]
  /\ attempt \in [Submissions -> 0..MaxAttempts]
  /\ row \in [reserved : 0..TotalDays, version : Nat]
  /\ table \in Seq(Row)
  /\ \A n \in DOMAIN saved : saved[n].row \in [reserved : 0..TotalDays, version : Nat]
  /\ walk \in [Walkers -> Walk(DOMAIN table)]
  /\ steadily \in [Walkers -> SUBSET DOMAIN table]

\* The lock lets one submission of the employee in at a time, although each
\* takes the map's entry over from the one before and may remove it again.
OneAtATime ==
  \A s, t \in Submissions : stage[s] \in Inside /\ stage[t] \in Inside => s = t

\* The map does not grow: when no submission of the employee is left, its entry
\* is gone.
LocksAreForgotten == (\A s \in Submissions : ~Waiting(s)) => lastLock = None

\* Behind the lock the version is never another one: the retries of
\* reserveBalanceWithRetry, and its 409, are for nothing.
FirstAttemptDecides == \A s \in Submissions : attempt[s] = 0

\* What would be found in the database after a crash.
Committed == IF saved = <<>> THEN [row |-> row, table |-> table] ELSE saved[1]

\* A submission is all or nothing: what is committed changes by one whole
\* request whose days were available, or by one whole decision.  RequestApi makes
\* it one step for this reason.
SubmitIsAtomic ==
  [][LET old == Committed
         new == Committed'
     IN  \/ new = old
         \/ \E id \in DOMAIN old.table, to \in Decisions :
              /\ new.table = [old.table EXCEPT ![id].status = to]
              /\ new.row = AfterDecision(old.row, old.table[id], to)
         \/ \E s \in Submissions :
              /\ new.table = Append(old.table, NewRow(s))
              /\ new.row.reserved = old.row.reserved + DaysOf(s)
              /\ new.row.reserved <= TotalDays]_intakeVars

\* Nothing is stored that is in the past by the calendar on the wall, and what
\* is stored takes the days of the calendar.
HasCalendarDays(request) ==
  /\ LocalDate(now) <= request.start
  /\ request.days = Cardinality(CalendarDays(request.start, request.end))
StoredDaysAreCalendarDays ==
  \A id \in DOMAIN table \ DOMAIN Existing : HasCalendarDays(table[id])

\* A walk that has come to its end has met every request that matched all the
\* time, whatever was inserted or dropped out of the filter meanwhile ...
ToSetOf(seq) == {seq[n] : n \in DOMAIN seq}
WalkMissesNothing ==
  \A w \in Walkers : walk[w].stage = "finished" => steadily[w] \subseteq ToSetOf(walk[w].got)

\* ... and never the same one twice, nor one that getRequest would refuse.
WalkStaysInScope ==
  \A w \in Walkers :
    LET got == walk[w].got
    IN  /\ \A m, n \in DOMAIN got : m < n => got[m] < got[n]
        /\ \A n \in DOMAIN got : MayGet(walk[w].query.caller, table[got[n]])

\* Every submission that was accepted is answered: whatever is thrown, the lock
\* is handed on.
SubmissionsReturn == \A s \in Submissions : stage[s] = "queued" ~> stage[s] = "returned"

=============================================================================
