----------------------------- MODULE RequestApi -----------------------------
(***************************************************************************)
(* The handlers behind the REST API: submitting, approving, rejecting and  *)
(* cancelling requests (RequestService) and retrying a FAILED outbox event *)
(* (OutboxController).                                                     *)
(*                                                                         *)
(* Except for submit, a handler reads a row, awaits, and then writes: the  *)
(* row may have changed in between.  A transaction is one step.            *)
(***************************************************************************)
EXTENDS Store

CONSTANTS
  Handlers,      \* handlers that may be at work at once
  Callers,       \* request users: records [role, employee, location]
  AttemptBound   \* bound on attempts: an event that has reached it is not retried

ASSUME ApiAssumption ==
  /\ \A c \in Callers : {"role", "employee", "location"} \subseteq DOMAIN c
  /\ AttemptBound \in Nat

VARIABLE handler   \* what each handler has read: see HandlerState

Idle == [op |-> "idle"]

\* The target states of the three handlers that transition a request.
Decisions ==
  [approve |-> "APPROVED_PENDING_HCM", reject |-> "REJECTED", cancel |-> "CANCELLED"]

HandlerState ==
  {Idle}
  \cup [op : DOMAIN Decisions, request : Requests, status : RequestStatus, version : Nat]
  \cup [op : {"retry"}, event : Nat]

ApiInit == handler = [h \in Handlers |-> Idle]

Finish(h) == handler' = [handler EXCEPT ![h] = Idle]

-----------------------------------------------------------------------------
\* ensureRequestScope: admins see all requests, managers their location's,
\* employees their own.
InScope(c, r) ==
  \/ c.role = "admin"
  \/ c.role = "manager" /\ c.location = BalanceOf[r].location
  \/ c.role = "employee" /\ c.employee = BalanceOf[r].employee

\* assertManagerOrAdmin, which approve and reject call first.
MayDecide(c, op) == op = "cancel" \/ c.role \in {"manager", "admin"}

\* The role check of OutboxController and SyncController.
AdminCalls == \E c \in Callers : c.role = "admin"

\* submitRequest: employees submit for themselves; the days are reserved and
\* the row is inserted in one transaction, under the employee's lock.
SubmitRequest(r) ==
  /\ \E c \in Callers : c.role = "employee" /\ c.employee = BalanceOf[r].employee
  /\ status[r] = Absent
  /\ ReserveBalance(r)
  /\ status' = [status EXCEPT ![r] = "PENDING"]
  /\ UNCHANGED <<version, hcmRequestId, outbox, handler>>

\* approveRequest, rejectRequest and cancelRequest read the row and check the
\* caller's scope.  cancelRequest refuses a decided request here.
ReadRequest(h, op, r) ==
  /\ handler[h] = Idle
  /\ status[r] # Absent
  /\ \E c \in Callers : MayDecide(c, op) /\ InScope(c, r)
  /\ op = "cancel" => status[r] \in {"PENDING", "APPROVED_PENDING_HCM"}
  /\ handler' = [handler EXCEPT ![h] =
       [op |-> op, request |-> r, status |-> status[r], version |-> version[r]]]
  /\ UNCHANGED storeVars

\* The transaction of approveRequest.
Approve(h) ==
  /\ handler[h].op = "approve"
  /\ LET r == handler[h].request
     IN  /\ TransitionRequest(r, "APPROVED_PENDING_HCM", handler[h].version)
         /\ Enqueue("HCM_DEDUCT", r)
  /\ Finish(h)
  /\ UNCHANGED <<balance, hcmRequestId>>

\* The transaction of rejectRequest.
Reject(h) ==
  /\ handler[h].op = "reject"
  /\ LET r == handler[h].request
     IN  /\ TransitionRequest(r, "REJECTED", handler[h].version)
         /\ ReleaseReserved(r)
  /\ Finish(h)
  /\ UNCHANGED <<hcmRequestId, outbox>>

\* The transaction of cancelRequest.  Whether a reversal is due is decided by
\* the status read before the transaction.
Cancel(h) ==
  /\ handler[h].op = "cancel"
  /\ LET r == handler[h].request
     IN  /\ IF handler[h].status = "APPROVED_PENDING_HCM"
            THEN Enqueue("HCM_REVERSE", r)
            ELSE UNCHANGED outbox
         /\ ReleaseReserved(r)
         /\ TransitionRequest(r, "CANCELLED", handler[h].version)
  /\ Finish(h)
  /\ UNCHANGED hcmRequestId

\* transitionRequest throws: the transaction is rolled back.
Conflict(h) ==
  /\ handler[h].op \in DOMAIN Decisions
  /\ ~MayTransition(handler[h].request, Decisions[handler[h].op], handler[h].version)
  /\ Finish(h)
  /\ UNCHANGED storeVars

\* retry, up to its check that the event is FAILED.
ReadFailedEvent(h, e) ==
  /\ handler[h] = Idle
  /\ AdminCalls
  /\ outbox[e].status = "FAILED"
  /\ outbox[e].attempts < AttemptBound
  /\ handler' = [handler EXCEPT ![h] = [op |-> "retry", event |-> e]]
  /\ UNCHANGED storeVars

\* retry's update, by id alone.  The attempts stay counted.
RetryEvent(h) ==
  /\ handler[h].op = "retry"
  /\ outbox' = [outbox EXCEPT ![handler[h].event].status = "PENDING",
                              ![handler[h].event].due = TRUE]
  /\ Finish(h)
  /\ UNCHANGED <<balance, requestRows>>

ApiNext ==
  \/ \E r \in Requests : SubmitRequest(r)
  \/ \E h \in Handlers :
       \/ \E op \in DOMAIN Decisions, r \in Requests : ReadRequest(h, op, r)
       \/ \E e \in DOMAIN outbox : ReadFailedEvent(h, e)
       \/ Approve(h) \/ Reject(h) \/ Cancel(h) \/ Conflict(h) \/ RetryEvent(h)

=============================================================================
