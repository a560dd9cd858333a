--------------------------- MODULE RequestStates ---------------------------
(***************************************************************************)
(* The request state machine: the statuses of a row of time_off_requests   *)
(* and the transitions between them that the service allows.               *)
(***************************************************************************)

\* RequestStatus, the values of time_off_requests.status.
RequestStatus ==
  {"PENDING", "APPROVED_PENDING_HCM", "APPROVED",
   "REJECTED", "CANCELLED", "FAILED"}

\* The status of a request that has not been submitted: there is no row.
Absent == "ABSENT"

\* ALLOWED_TRANSITIONS, with no way out of a row that does not exist.
AllowedTransitions ==
  [ ABSENT               |-> {},
    PENDING              |-> {"APPROVED_PENDING_HCM", "REJECTED", "CANCELLED"},
    APPROVED_PENDING_HCM |-> {"APPROVED", "FAILED", "CANCELLED"},
    APPROVED             |-> {},
    REJECTED             |-> {},
    CANCELLED            |-> {},
    FAILED               |-> {"APPROVED"} ]

\* canTransition(from, to).
CanTransition(from, to) == to \in AllowedTransitions[from]

\* OutboxEventType, the two messages the service owes the HCM.
OutboxEventType == {"HCM_DEDUCT", "HCM_REVERSE"}

=============================================================================
