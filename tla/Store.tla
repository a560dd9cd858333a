------------------------------- MODULE Store -------------------------------
(***************************************************************************)
(* The tables the time-off service keeps in its database and the writes    *)
(* that its transactions are made of.  Each operator below is one SQL      *)
(* statement or one group of statements that only ever runs inside a       *)
(* transaction; RequestApi and OutboxProcessor combine them into actions.  *)
(***************************************************************************)
EXTENDS Integers, Sequences, FiniteSets, RequestStates

CONSTANTS
  Requests,     \* every request that may be submitted
  Balances,     \* the rows of leave_balances, as their unique keys
  Entitlement,  \* [Balances -> Nat], total_days as last synchronised
  BalanceOf,    \* [Requests -> Balances], the row a request draws on
  Days          \* [Requests -> Nat \ {0}], days_requested

\* A row's key names the employee and the location that access rules look at.
ASSUME StoreAssumption ==
  /\ \A b \in Balances : {"employee", "location", "leaveType"} \subseteq DOMAIN b
  /\ Entitlement \in [Balances -> Nat]
  /\ BalanceOf \in [Requests -> Balances]
  /\ Days \in [Requests -> Nat \ {0}]

VARIABLES
  balance,       \* leave_balances: [Balances -> [total, used, reserved]]
  status,        \* time_off_requests.status, Absent before the row exists
  version,       \* time_off_requests.version
  hcmRequestId,  \* time_off_requests.hcm_request_id, 0 for NULL
  outbox         \* outbox_events in id order

requestRows == <<status, version, hcmRequestId>>
storeVars == <<balance, status, version, hcmRequestId, outbox>>

OutboxEventStatus == {"PENDING", "PROCESSING", "DONE", "FAILED"}

\* due stands for next_retry_at <= now.
OutboxEvent ==
  [type : OutboxEventType, request : Requests, status : OutboxEventStatus,
   attempts : Nat, due : BOOLEAN]

StoreInit ==
  /\ balance = [b \in Balances |->
                  [total |-> Entitlement[b], used |-> 0, reserved |-> 0]]
  /\ status = [r \in Requests |-> Absent]
  /\ version = [r \in Requests |-> 0]
  /\ hcmRequestId = [r \in Requests |-> 0]
  /\ outbox = <<>>

-----------------------------------------------------------------------------
Floor0(n) == IF n < 0 THEN 0 ELSE n

\* reserveBalanceWithRetry, alone in its transaction: the version it reads is
\* the version it updates, so the first attempt decides.
ReserveBalance(r) ==
  LET row == balance[BalanceOf[r]]
  IN  /\ Floor0(row.total - row.used - row.reserved) >= Days[r]
      /\ balance' = [balance EXCEPT ![BalanceOf[r]].reserved = @ + Days[r]]

\* releaseReserved.
ReleaseReserved(r) ==
  balance' = [balance EXCEPT ![BalanceOf[r]].reserved = Floor0(@ - Days[r])]

\* confirmDeduction.  (ReleaseReserved in its place is a mutant.)
\* Mutant: used days are subtracted.
ConfirmBackwards(r) ==
  balance' = [balance EXCEPT ![BalanceOf[r]].reserved = Floor0(@ - Days[r]),
                             ![BalanceOf[r]].used = @ - Days[r]]
ConfirmDeduction(r) ==
  balance' = [balance EXCEPT ![BalanceOf[r]].reserved = Floor0(@ - Days[r]),
                             ![BalanceOf[r]].used = @ + Days[r]]

\* transitionRequest: refused by the state machine or by another version.
\* Mutants: the version is not compared; nothing is checked at all.
VersionIgnored(r, to, expectedVersion) == CanTransition(status[r], to)
TransitionUnchecked(r, to, expectedVersion) == status[r] # Absent
MayTransition(r, to, expectedVersion) ==
  /\ CanTransition(status[r], to)
  /\ version[r] = expectedVersion

TransitionRequest(r, to, expectedVersion) ==
  /\ MayTransition(r, to, expectedVersion)
  /\ status' = [status EXCEPT ![r] = to]
  /\ version' = [version EXCEPT ![r] = @ + 1]

\* save(OutboxEvent): a new row, due at once.
NewEvent(type, r) ==
  [type |-> type, request |-> r, status |-> "PENDING", attempts |-> 0, due |-> TRUE]

Enqueue(type, r) == outbox' = Append(outbox, NewEvent(type, r))

=============================================================================
