---------------------------- MODULE LeaveLedger ----------------------------
(***************************************************************************)
(* What the time-off service promises about leave days, without outbox     *)
(* rows, versions, polling or HTTP calls.                                  *)
(*                                                                         *)
(* A request asks for a fixed number of days of one balance.  The days are *)
(* reserved when it is submitted, stay reserved until its fate is known,   *)
(* and then are given back or become used.  Approving a request and        *)
(* cancelling an approved one record an intent for the HCM, which acts on  *)
(* it at some later time, or never.  TimeOffService implements this.       *)
(***************************************************************************)
EXTENDS Integers, FiniteSets, RequestStates

CONSTANTS
  Requests,     \* every request that may be submitted
  Balances,     \* the rows of leave_balances
  Entitlement,  \* [Balances -> Nat], the days the HCM has granted
  BalanceOf,    \* [Requests -> Balances], the row a request draws on
  Days          \* [Requests -> Nat \ {0}], the days it asks for

\* A submitted request never changes its balance or its days, so they are
\* constants; calculateDaysRequested must return a positive number.
ASSUME LedgerAssumption ==
  /\ Entitlement \in [Balances -> Nat]
  /\ BalanceOf \in [Requests -> Balances]
  /\ Days \in [Requests -> Nat \ {0}]

VARIABLES
  balance,   \* [Balances -> [total, used, reserved]]
  status,    \* [Requests -> RequestStatus or Absent]
  intents,   \* what the HCM has been or will be asked: <<event type, request>>
  deducted   \* the requests whose days the HCM holds as deducted

vars == <<balance, status, intents, deducted>>

-----------------------------------------------------------------------------
\* The check of reserveBalance: enough days are neither used nor reserved.
\* Mutant: reserved days are forgotten.
AvailableIfReservedForgotten(r) ==
  balance[BalanceOf[r]].total - balance[BalanceOf[r]].used >= Days[r]
Available(r) ==
  LET row == balance[BalanceOf[r]]
  IN  row.total - row.used - row.reserved >= Days[r]

\* releaseReserved.
\* Mutant: the reservation stays.
ReleaseForgotten(r) == UNCHANGED balance
Release(r) ==
  balance' = [balance EXCEPT ![BalanceOf[r]].reserved = @ - Days[r]]

\* confirmDeduction.  (Release in its place is a mutant: days never get used.)
\* Mutant: used days are subtracted.
UseDaysBackwards(r) ==
  balance' = [balance EXCEPT ![BalanceOf[r]].reserved = @ - Days[r],
                             ![BalanceOf[r]].used = @ - Days[r]]
UseDays(r) ==
  balance' = [balance EXCEPT ![BalanceOf[r]].reserved = @ - Days[r],
                             ![BalanceOf[r]].used = @ + Days[r]]

\* cancelRequest owes the HCM a reversal if the request was approved.
\* Mutants: a reversal is never owed; it is owed in any case.
ReversalNeverDue(r) == FALSE
ReversalAlwaysDue(r) == TRUE
ReversalDue(r) == status[r] = "APPROVED_PENDING_HCM"

\* The HCM has answered the call for the deduction.
\* Mutant: the request is confirmed once the call is queued.
ConfirmedWhenQueued(r) == <<"HCM_DEDUCT", r>> \in intents
ConfirmedByHcm(r) == r \in deducted

\* transitionRequest.
Move(r, to) ==
  /\ CanTransition(status[r], to)
  /\ status' = [status EXCEPT ![r] = to]

Init ==
  /\ balance = [b \in Balances |->
                  [total |-> Entitlement[b], used |-> 0, reserved |-> 0]]
  /\ status = [r \in Requests |-> Absent]
  /\ intents = {}
  /\ deducted = {}

-----------------------------------------------------------------------------
\* An employee submits r: its days are reserved if that many are available.
Submit(r) ==
  /\ status[r] = Absent
  /\ Available(r)
  /\ status' = [status EXCEPT ![r] = "PENDING"]
  /\ balance' = [balance EXCEPT ![BalanceOf[r]].reserved = @ + Days[r]]
  /\ UNCHANGED <<intents, deducted>>

\* A manager approves r: the days stay reserved and the HCM is owed a call.
Approve(r) ==
  /\ Move(r, "APPROVED_PENDING_HCM")
  /\ intents' = intents \cup {<<"HCM_DEDUCT", r>>}
  /\ UNCHANGED <<balance, deducted>>

\* A manager rejects r: its days are available again.
Reject(r) ==
  /\ Move(r, "REJECTED")
  /\ Release(r)
  /\ UNCHANGED <<intents, deducted>>

\* r is cancelled: its days are available at once, and a deduction the HCM
\* has been or may be asked for is to be reversed.
Cancel(r) ==
  /\ Move(r, "CANCELLED")
  /\ Release(r)
  /\ intents' = IF ReversalDue(r)
                THEN intents \cup {<<"HCM_REVERSE", r>>}
                ELSE intents
  /\ UNCHANGED deducted

\* The HCM's confirmation arrives: reserved days become used days.
Confirm(r) ==
  /\ ConfirmedByHcm(r)
  /\ Move(r, "APPROVED")
  /\ UseDays(r)
  /\ UNCHANGED <<intents, deducted>>

\* The service gives up on the HCM.  The days stay reserved.
Fail(r) ==
  /\ Move(r, "FAILED")
  /\ UNCHANGED <<balance, intents, deducted>>

\* The HCM acts on an intent; when is beyond the service's control.
HcmDeduct(r) ==
  /\ <<"HCM_DEDUCT", r>> \in intents
  /\ deducted' = deducted \cup {r}
  /\ UNCHANGED <<balance, status, intents>>

HcmReverse(r) ==
  /\ <<"HCM_REVERSE", r>> \in intents
  /\ deducted' = deducted \ {r}
  /\ UNCHANGED <<balance, status, intents>>

Next ==
  \E r \in Requests :
    \/ Submit(r) \/ Approve(r) \/ Reject(r) \/ Cancel(r)
    \/ Confirm(r) \/ Fail(r)
    \/ HcmDeduct(r) \/ HcmReverse(r)

Spec == Init /\ [][Next]_vars

-----------------------------------------------------------------------------
\* The days of the requests in S, each as a pair <<request, n-th day>>: the
\* number of days that S asks for is the size of this set.
DaysIn(S) == UNION {{r} \X (1..Days[r]) : r \in S}

\* The requests on b whose days are set aside, and those that have taken them.
Undecided == {"PENDING", "APPROVED_PENDING_HCM", "FAILED"}
Holding(b) == {r \in Requests : BalanceOf[r] = b /\ status[r] \in Undecided}
Taken(b) == {r \in Requests : BalanceOf[r] = b /\ status[r] = "APPROVED"}

TypeOK ==
  /\ balance \in [Balances -> [total : Nat, used : Nat, reserved : Int]]
  /\ status \in [Requests -> RequestStatus \cup {Absent}]
  /\ intents \subseteq OutboxEventType \X Requests
  /\ deducted \subseteq Requests

\* reserved_days is exactly the days of the requests that are still open: no
\* sequence of submissions, decisions and HCM failures leaks a reservation or
\* releases one twice (which MAX(0, ..) in the SQL would hide).
HeldDaysReserved ==
  \A b \in Balances :
    /\ IsFiniteSet(DaysIn(Holding(b)))
    /\ balance[b].reserved = Cardinality(DaysIn(Holding(b)))

\* used_days is exactly the days of the approved requests.
TakenDaysUsed ==
  \A b \in Balances :
    /\ IsFiniteSet(DaysIn(Taken(b)))
    /\ balance[b].used = Cardinality(DaysIn(Taken(b)))

\* Used and reserved days together never exceed what the HCM has granted.
NoOverdraft ==
  \A b \in Balances : balance[b].used + balance[b].reserved <= balance[b].total

\* An APPROVED request is backed by a deduction in the HCM for ever after: no
\* late reversal takes it away.
ApprovedIsDeducted ==
  \A r \in Requests : status[r] = "APPROVED" => r \in deducted

\* The HCM holds days only of requests that a manager approved, and when such
\* a request was cancelled a reversal is owed.
DeductionIsOwedOrReversible ==
  \A r \in deducted :
    \/ status[r] \in {"APPROVED_PENDING_HCM", "APPROVED", "FAILED"}
    \/ status[r] = "CANCELLED" /\ <<"HCM_REVERSE", r>> \in intents

\* What the HCM is asked for follows the request: a deduction from the moment of
\* approval on, and its reversal if and only if the approved request was
\* cancelled.  Neither is asked for a request that was never approved.
IntentsMatchStatus ==
  \A r \in Requests :
    /\ <<"HCM_DEDUCT", r>> \in intents <=>
         \/ status[r] \in {"APPROVED_PENDING_HCM", "APPROVED", "FAILED"}
         \/ <<"HCM_REVERSE", r>> \in intents
    /\ <<"HCM_REVERSE", r>> \in intents => status[r] = "CANCELLED"

=============================================================================
