-------------------------- MODULE RefinementProofs --------------------------
(***************************************************************************)
(* TimeOffService implements LeaveLedger, for any set of requests,         *)
(* balances, handlers and ticks and any bounds: every step of the service  *)
(* is a step of the ledger, or leaves the ledger as it is.                 *)
(*                                                                         *)
(* The ledger's own invariant goes along with the service's.  It is what   *)
(* makes MAX(0, ..) in releaseReserved and confirmDeduction harmless: the  *)
(* days to be taken off a balance are always among those reserved on it.   *)
(***************************************************************************)
EXTENDS TimeOffServiceProofs

\* The refinement mapping.
Intents == {<<outbox[e].type, outbox[e].request>> : e \in DOMAIN outbox}
Charged == {outbox[d.key].request : d \in deductions}

LP == INSTANCE LeaveLedgerProofs WITH intents <- Intents, deducted <- Charged

LEMMA LedgerConstants == LP!LedgerAssumption
BY StoreAssumption DEF LP!LedgerAssumption

\* A step of the ledger, or none.
LedgerMoves == LP!Next \/ UNCHANGED LP!vars

-----------------------------------------------------------------------------
(***************************************************************************)
(* The mapped state                                                        *)
(***************************************************************************)

\* Events change in no way that the ledger sees.
SameEvents ==
  /\ DOMAIN outbox' = DOMAIN outbox
  /\ \A e \in DOMAIN outbox :
       outbox'[e].type = outbox[e].type /\ outbox'[e].request = outbox[e].request

LEMMA RowChanged ==
  ASSUME TypeOK, NEW e \in DOMAIN outbox, NEW row,
         row.type = outbox[e].type, row.request = outbox[e].request,
         outbox' = [outbox EXCEPT ![e] = row]
  PROVE  SameEvents
<1>1. DOMAIN outbox' = DOMAIN outbox
  OBVIOUS
<1>2. \A f \in DOMAIN outbox : outbox'[f] = IF f = e THEN row ELSE outbox[f]
  OBVIOUS
<1> QED
  BY <1>1, <1>2 DEF SameEvents

LEMMA IntentsKept ==
  ASSUME SameEvents
  PROVE  Intents' = Intents
BY DEF SameEvents, Intents

LEMMA IntentsAdded ==
  ASSUME TypeOK, NEW type \in OutboxEventType, NEW r \in Requests, Enqueue(type, r)
  PROVE  Intents' = Intents \cup {<<type, r>>}
<1>1. PICK e \in Nat :
        /\ e \notin DOMAIN outbox
        /\ DOMAIN outbox' = DOMAIN outbox \cup {e}
        /\ \A f \in DOMAIN outbox : outbox'[f] = outbox[f]
        /\ outbox'[e] = NewEvent(type, r)
  BY Enqueued
<1>2. outbox'[e].type = type /\ outbox'[e].request = r
  BY <1>1 DEF NewEvent
<1> QED
  BY <1>1, <1>2 DEF Intents

\* Events that stay keep the deductions filed for them with their requests.
LEMMA ChargedKept ==
  ASSUME Inv, EventsStay, UNCHANGED deductions
  PROVE  Charged' = Charged
BY DEF Inv, References, IsDeduct, EventsStay, Charged

LEMMA SameLedger ==
  ASSUME Inv, SameEvents, UNCHANGED <<balance, status, deductions>>
  PROVE  LedgerMoves
<1>1. Charged' = Charged
  BY DEF Inv, References, IsDeduct, SameEvents, Charged
<1> QED
  BY <1>1, IntentsKept DEF LedgerMoves, LP!vars

\* The ledger's intents are the service's events.
LEMMA IntentsAreEvents ==
  ASSUME NEW type, NEW r
  PROVE  <<type, r>> \in Intents <=> EventsFor(type, r) # {}
BY DEF Intents, EventsFor

\* As the ledger sees it, the service is of the right type.
LEMMA LedgerTyped ==
  ASSUME Inv
  PROVE  LP!TypeOK
<1>1. TypeOK
  BY DEF Inv
<1>2. Intents \subseteq OutboxEventType \X Requests
  <2>1. ASSUME NEW e \in DOMAIN outbox
        PROVE  outbox[e].type \in OutboxEventType /\ outbox[e].request \in Requests
    BY <1>1, EventsTyped DEF OutboxEvent, RequestOf
  <2> QED
    BY <2>1 DEF Intents
<1>3. Charged \subseteq Requests
  <2>1. ASSUME NEW d \in deductions
        PROVE  outbox[d.key].request \in Requests
    BY <1>1, EventsTyped DEF Inv, References, IsDeduct, RequestOf
  <2> QED
    BY <2>1 DEF Charged
<1>4. balance \in [Balances -> [total : Nat, used : Nat, reserved : Int]]
  BY <1>1 DEF TypeOK
<1> QED
  BY <1>1, <1>2, <1>3, <1>4
  DEF TypeOK, LP!TypeOK, LP!RequestStatus, RequestStatus, LP!OutboxEventType, OutboxEventType,
      LP!Absent, Absent

\* The service and the HCM agree about every request, by the service's invariant
\* alone: the books are not needed for that.
LEMMA InvAgrees ==
  ASSUME Inv
  PROVE  LP!ApprovedIsDeducted /\ LP!DeductionIsOwedOrReversible /\ LP!IntentsMatchStatus
<1>1. status \in [Requests -> RequestStatus \cup {Absent}]
  BY DEF Inv, TypeOK
<1>2. LP!ApprovedIsDeducted
  BY DEF Inv, ApprovedHoldsDeduction, DeductionsFor, LP!ApprovedIsDeducted, Charged
<1>3. ASSUME NEW r \in Requests, EventsFor("HCM_DEDUCT", r) # {}
      PROVE  status[r] \in {"APPROVED_PENDING_HCM", "APPROVED", "FAILED", "CANCELLED"}
  BY <1>3 DEF Inv, EventsFollowRequests, RequestOf, EventsFor
<1>4. ASSUME NEW r \in Requests, EventsFor("HCM_REVERSE", r) # {}
      PROVE  status[r] = "CANCELLED"
  BY <1>4 DEF Inv, EventsFollowRequests, RequestOf, EventsFor
<1>5. ASSUME NEW r \in Requests, r \in Charged
      PROVE  EventsFor("HCM_DEDUCT", r) # {}
  BY <1>5 DEF Inv, References, IsDeduct, Charged, EventsFor
<1>6. ASSUME NEW r \in Requests, status[r] \in {"APPROVED_PENDING_HCM", "APPROVED", "FAILED"}
      PROVE  EventsFor("HCM_DEDUCT", r) # {}
  <2>1. status[r] = "APPROVED" => r \in Charged
    BY <1>2 DEF LP!ApprovedIsDeducted
  <2> QED
    BY <1>5, <1>6, <2>1 DEF Inv, WaitingEventIsOpen
<1>7. ASSUME NEW r \in Requests, status[r] = "CANCELLED"
      PROVE  EventsFor("HCM_DEDUCT", r) # {} <=> EventsFor("HCM_REVERSE", r) # {}
  BY <1>7 DEF Inv, ReversalsAreOwed
<1>8. LP!DeductionIsOwedOrReversible
  <2>1. Charged \subseteq Requests
    BY LedgerTyped DEF LP!TypeOK
  <2> QED
    BY <2>1, <1>3, <1>5, <1>7, IntentsAreEvents DEF LP!DeductionIsOwedOrReversible
<1>9. LP!IntentsMatchStatus
  BY <1>3, <1>4, <1>6, <1>7, IntentsAreEvents DEF LP!IntentsMatchStatus
<1> QED
  BY <1>2, <1>8, <1>9

\* Days that are to be taken off a balance are reserved on it.
LEMMA DaysAreReserved ==
  ASSUME TypeOK, LP!BookInv, NEW r \in Requests,
         status[r] \in {"PENDING", "APPROVED_PENDING_HCM", "FAILED"}
  PROVE  Floor0(balance[BalanceOf[r]].reserved - Days[r])
           = balance[BalanceOf[r]].reserved - Days[r]
<1>1. balance[BalanceOf[r]].reserved >= Days[r]
  BY LP!OpenDaysAreReserved, LedgerConstants DEF LP!Undecided
<1>2. BalanceOf[r] \in Balances /\ Days[r] \in Nat
  BY StoreAssumption
<1>3. balance[BalanceOf[r]].reserved \in Nat
  BY <1>2 DEF TypeOK
<1> QED
  BY <1>1, <1>2, <1>3 DEF Floor0

\* So releasing and using them is what it is in the ledger.
LEMMA SameWrites ==
  ASSUME TypeOK, LP!BookInv, NEW r \in Requests,
         status[r] \in {"PENDING", "APPROVED_PENDING_HCM", "FAILED"}
  PROVE  /\ ReleaseReserved(r) => LP!Release(r)
         /\ ConfirmDeduction(r) => LP!UseDays(r)
<1> DEFINE b == BalanceOf[r]
<1>1. Floor0(balance[b].reserved - Days[r]) = balance[b].reserved - Days[r]
  BY DaysAreReserved
<1>2. /\ b \in Balances
      /\ balance \in [Balances -> [total : Nat, used : Nat, reserved : Nat]]
  BY StoreAssumption DEF TypeOK
<1>3. ASSUME ReleaseReserved(r)
      PROVE  LP!Release(r)
  <2>1. balance' = [balance EXCEPT ![b].reserved = Floor0(balance[b].reserved - Days[r])]
    BY <1>2, <1>3 DEF ReleaseReserved
  <2> QED
    BY <1>1, <1>2, <2>1 DEF LP!Release
<1>4. ASSUME ConfirmDeduction(r)
      PROVE  LP!UseDays(r)
  <2>1. balance' = [balance EXCEPT ![b].reserved = Floor0(balance[b].reserved - Days[r]),
                                   ![b].used = balance[b].used + Days[r]]
    BY <1>2, <1>4 DEF ConfirmDeduction
  <2> QED
    BY <1>1, <1>2, <2>1 DEF LP!UseDays
<1> QED
  BY <1>3, <1>4

\* A transition of the service is one of the ledger.
LEMMA SameTransition ==
  ASSUME NEW r \in Requests, NEW to, NEW v, TransitionRequest(r, to, v)
  PROVE  LP!Move(r, to)
BY DEF TransitionRequest, MayTransition, CanTransition, AllowedTransitions,
       LP!Move, LP!CanTransition, LP!AllowedTransitions

-----------------------------------------------------------------------------
(***************************************************************************)
(* The HCM's steps                                                         *)
(***************************************************************************)

\* A deduction is named by an event, and a request has one at most.
LEMMA DeductionsDiffer ==
  ASSUME Inv, NEW c \in deductions, NEW d \in deductions,
         outbox[c.key].request = outbox[d.key].request
  PROVE  c = d
<1>1. /\ IsDeduct(c.key) /\ IsDeduct(d.key)
      /\ RequestOf(c.key) = RequestOf(d.key)
  BY DEF Inv, References, RequestOf
<1>2. c.key = d.key
  BY <1>1 DEF Inv, EventsFollowRequests, IsDeduct
<1> QED
  BY <1>2 DEF Inv, HP!HcmInv, HP!DeductionsAreReversible

\* Whatever call is served, in time or late, the HCM acts on an intent or does
\* nothing.
LEMMA ServeMaps ==
  ASSUME Inv, LP!BookInv, NEW call \in Call, IsProper(call), HcmServes(call),
         UNCHANGED storeVars
  PROVE  LedgerMoves
<1> DEFINE e == call.id
           r == outbox[e].request
<1>1. /\ Intents' = Intents
      /\ UNCHANGED <<balance, status, outbox>>
      /\ TypeOK
  BY DEF storeVars, Intents, Inv
<1>2. CASE UNCHANGED deductions
  BY <1>1, <1>2, SameLedger DEF SameEvents
<1>3. ASSUME call.type = "HCM_DEDUCT", Hcm!NewDeduction(e, BalanceOf[r], Days[r])
      PROVE  LedgerMoves
  <2>1. e \in DOMAIN outbox /\ e # 0 /\ r \in Requests /\ outbox[e].type = "HCM_DEDUCT"
    BY <1>1, <1>3, EventsTyped DEF IsProper, IsDeduct, RequestOf
  <2>2. PICK d : d.key = e /\ deductions' = deductions \cup {d}
    BY <1>3, <2>1 DEF Hcm!NewDeduction
  <2>3. Charged' = Charged \cup {r}
    BY <1>1, <2>2 DEF Charged
  <2>4. <<"HCM_DEDUCT", r>> \in Intents
    BY <2>1 DEF Intents
  <2>5. LP!HcmDeduct(r)
    BY <1>1, <2>3, <2>4 DEF LP!HcmDeduct
  <2> QED
    BY <2>1, <2>5 DEF LedgerMoves, LP!Next
<1>4. ASSUME call.type = "HCM_REVERSE", Hcm!ReverseKnown(e), ~UNCHANGED deductions
      PROVE  LedgerMoves
  <2>1. PICK x \in requestIndex, d \in deductions :
          x.id = e /\ d.key = x.key /\ deductions' = deductions \ {d}
    BY <1>4 DEF Hcm!ReverseKnown, Hcm!FiledUnder, Hcm!FileRemoved
  <2> DEFINE q == outbox[d.key].request
  <2>2. q \in Requests /\ status[q] = "CANCELLED"
    <3>1. status[RequestOf(x.key)] = "CANCELLED"
      BY <1>4, <2>1 DEF IsProper
    <3>2. d.key \in DOMAIN outbox
      BY DEF Inv, References, IsDeduct
    <3> QED
      BY <1>1, <2>1, <3>1, <3>2, EventsTyped DEF RequestOf
  <2>3. Charged' = Charged \ {q}
    <3>1. \A c \in deductions : outbox[c.key].request = q => c = d
      BY DeductionsDiffer
    <3> QED
      BY <1>1, <2>1, <3>1 DEF Charged
  <2>4. <<"HCM_REVERSE", q>> \in Intents
    <3>1. q \in Charged
      BY DEF Charged
    <3> QED
      BY <2>2, <3>1 DEF LP!BookInv, LP!DeductionIsOwedOrReversible
  <2>5. LP!HcmReverse(q)
    BY <1>1, <2>3, <2>4 DEF LP!HcmReverse
  <2> QED
    BY <2>2, <2>5 DEF LedgerMoves, LP!Next
<1>5. Hcm!RepeatedDeduction(e) \/ Hcm!ReverseUnknown(e) => UNCHANGED deductions
  BY DEF Hcm!RepeatedDeduction, Hcm!ReverseUnknown, Hcm!hcmVars
<1> QED
  BY <1>2, <1>3, <1>4, <1>5 DEF HcmServes

-----------------------------------------------------------------------------
(***************************************************************************)
(* The handlers' steps                                                     *)
(***************************************************************************)

LEMMA SubmitMaps ==
  ASSUME Inv, LP!BookInv, NEW r \in Requests, SubmitRequest(r), UNCHANGED processorVars
  PROVE  LedgerMoves
<1> DEFINE row == balance[BalanceOf[r]]
<1>1. Intents' = Intents /\ Charged' = Charged
  BY DEF SubmitRequest, processorVars, Intents, Charged
<1>2. BalanceOf[r] \in Balances /\ Days[r] \in Nat \ {0}
  BY StoreAssumption
<1>3. row \in [total : Nat, used : Nat, reserved : Nat]
  BY <1>2 DEF Inv, TypeOK
<1>4. row.total - row.used - row.reserved >= Days[r]
  <2>1. Floor0(row.total - row.used - row.reserved) >= Days[r]
    BY DEF SubmitRequest, ReserveBalance
  <2> QED
    BY <1>2, <1>3, <2>1 DEF Floor0
<1>5. LP!Submit(r)
  BY <1>1, <1>4
  DEF SubmitRequest, ReserveBalance, LP!Submit, LP!Available, LP!Absent, Absent
<1> QED
  BY <1>5 DEF LedgerMoves, LP!Next

LEMMA ApproveMaps ==
  ASSUME Inv, NEW h \in Handlers, Approve(h), UNCHANGED processorVars
  PROVE  LedgerMoves
<1> DEFINE r == handler[h].request
<1>1. TypeOK /\ r \in Requests
  BY DecidersTyped DEF Inv, Decisions, Approve
<1>2. LP!Move(r, "APPROVED_PENDING_HCM")
  BY <1>1, SameTransition DEF Approve
<1>3. Enqueue("HCM_DEDUCT", r)
  BY DEF Approve
<1>4. Intents' = Intents \cup {<<"HCM_DEDUCT", r>>}
  BY <1>1, <1>3, IntentsAdded DEF OutboxEventType
<1>5. Charged' = Charged
  <2>1. EventsStay
    BY <1>1, <1>3, Enqueued DEF EventsStay, OutboxEventType
  <2> QED
    BY <2>1, ChargedKept DEF processorVars
<1>6. LP!Approve(r)
  BY <1>2, <1>4, <1>5 DEF Approve, LP!Approve
<1> QED
  BY <1>1, <1>6 DEF LedgerMoves, LP!Next

LEMMA RejectMaps ==
  ASSUME Inv, LP!BookInv, NEW h \in Handlers, Reject(h), UNCHANGED processorVars
  PROVE  LedgerMoves
<1> DEFINE r == handler[h].request
<1>1. TypeOK /\ r \in Requests
  BY DecidersTyped DEF Inv, Decisions, Reject
<1>2. TransitionRequest(r, "REJECTED", handler[h].version) /\ ReleaseReserved(r)
  BY DEF Reject
<1>3. status[r] = "PENDING"
  BY <1>1, <1>2, Transitions
<1>4. LP!Move(r, "REJECTED") /\ LP!Release(r)
  BY <1>1, <1>2, <1>3, SameTransition, SameWrites
<1>5. Intents' = Intents /\ Charged' = Charged
  BY DEF Reject, processorVars, Intents, Charged
<1>6. LP!Reject(r)
  BY <1>4, <1>5 DEF LP!Reject
<1> QED
  BY <1>1, <1>6 DEF LedgerMoves, LP!Next

\* The reversal is enqueued by the status that the handler has read, which is the
\* row's own when the versions agree.
LEMMA CancelMaps ==
  ASSUME Inv, LP!BookInv, NEW h \in Handlers, Cancel(h), UNCHANGED processorVars
  PROVE  LedgerMoves
<1> DEFINE r == handler[h].request
<1>1. TypeOK /\ r \in Requests
  BY DecidersTyped DEF Inv, Decisions, Cancel
<1>2. TransitionRequest(r, "CANCELLED", handler[h].version) /\ ReleaseReserved(r)
  BY DEF Cancel
<1>3. handler[h].version = version[r] /\ status[r] \in {"PENDING", "APPROVED_PENDING_HCM"}
  BY <1>1, <1>2, Transitions
<1>4. handler[h].status = status[r]
  BY <1>3 DEF Inv, CopiesAreVersioned, Cancel, Decisions
<1>5. LP!Move(r, "CANCELLED") /\ LP!Release(r)
  BY <1>1, <1>2, <1>3, SameTransition, SameWrites
<1>6. /\ EventsStay
      /\ Intents' = IF LP!ReversalDue(r) THEN Intents \cup {<<"HCM_REVERSE", r>>} ELSE Intents
  <2>1. CASE status[r] = "APPROVED_PENDING_HCM"
    <3>1. Enqueue("HCM_REVERSE", r)
      BY <1>4, <2>1 DEF Cancel
    <3>2. EventsStay
      BY <1>1, <3>1, Enqueued DEF EventsStay, OutboxEventType
    <3>3. Intents' = Intents \cup {<<"HCM_REVERSE", r>>}
      BY <1>1, <3>1, IntentsAdded DEF OutboxEventType
    <3> QED
      BY <2>1, <3>2, <3>3 DEF LP!ReversalDue
  <2>2. CASE status[r] # "APPROVED_PENDING_HCM"
    <3>1. UNCHANGED outbox
      BY <1>4, <2>2 DEF Cancel
    <3> QED
      BY <1>1, <2>2, <3>1 DEF EventsStay, Intents, LP!ReversalDue, TypeOK
  <2> QED
    BY <2>1, <2>2
<1>7. Charged' = Charged
  BY <1>6, ChargedKept DEF processorVars
<1>8. LP!Cancel(r)
  BY <1>5, <1>6, <1>7 DEF LP!Cancel
<1> QED
  BY <1>1, <1>8 DEF LedgerMoves, LP!Next

LEMMA RetryEventMaps ==
  ASSUME Inv, NEW h \in Handlers, RetryEvent(h), UNCHANGED processorVars
  PROVE  LedgerMoves
<1> DEFINE e == handler[h].event
           row == [outbox[e] EXCEPT !.status = "PENDING", !.due = TRUE]
<1>1. TypeOK /\ e \in DOMAIN outbox
  BY DEF Inv, References, RetryEvent
<1>2. outbox[e] \in OutboxEvent
  BY <1>1, EventsTyped
<1>3. outbox' = [outbox EXCEPT ![e] = row]
  BY <1>1 DEF RetryEvent
<1>4. row.type = outbox[e].type /\ row.request = outbox[e].request
  BY <1>2 DEF OutboxEvent
<1> HIDE DEF e, row
<1>5. SameEvents
  BY <1>1, <1>3, <1>4, RowChanged
<1> QED
  BY <1>5, SameLedger DEF RetryEvent, requestRows, processorVars

LEMMA ApiMaps ==
  ASSUME Inv, LP!BookInv, ApiNext, UNCHANGED processorVars
  PROVE  LedgerMoves
<1>1. ASSUME UNCHANGED storeVars
      PROVE  LedgerMoves
  BY <1>1, SameLedger DEF storeVars, processorVars, SameEvents
<1>2. ASSUME NEW h \in Handlers, NEW op \in DOMAIN Decisions, NEW r \in Requests,
             ReadRequest(h, op, r)
      PROVE  LedgerMoves
  BY <1>1, <1>2 DEF ReadRequest
<1>3. ASSUME NEW h \in Handlers, NEW e \in DOMAIN outbox, ReadFailedEvent(h, e)
      PROVE  LedgerMoves
  BY <1>1, <1>3 DEF ReadFailedEvent
<1>4. ASSUME NEW h \in Handlers, Conflict(h)
      PROVE  LedgerMoves
  BY <1>1, <1>4 DEF Conflict
<1> QED
  BY <1>2, <1>3, <1>4, SubmitMaps, ApproveMaps, RejectMaps, CancelMaps, RetryEventMaps
  DEF ApiNext

-----------------------------------------------------------------------------
(***************************************************************************)
(* The processor's steps                                                   *)
(***************************************************************************)

\* Claimed event e is written back with what does not concern the ledger.
LEMMA ClaimedRowChanged ==
  ASSUME Inv, NEW t \in Ticks, Working(t), NEW row,
         row.type = Claimed(t).type, row.request = Claimed(t).request,
         outbox' = [outbox EXCEPT ![tick[t].event] = row]
  PROVE  SameEvents
<1>1. tick[t].event \in DOMAIN outbox /\ Claimed(t) = outbox[tick[t].event]
  BY TickTyped
<1> QED
  BY <1>1, RowChanged DEF Inv

LEMMA MarkedDone ==
  ASSUME Inv, NEW t \in Ticks, Working(t), MarkDone(t)
  PROVE  SameEvents
<1> DEFINE row == [Claimed(t) EXCEPT !.status = "DONE"]
<1>1. /\ Claimed(t) = outbox[tick[t].event]
      /\ Claimed(t) \in OutboxEvent
      /\ tick[t].event \in DOMAIN outbox
  BY TickTyped
<1>2. row.type = Claimed(t).type /\ row.request = Claimed(t).request
  BY <1>1 DEF OutboxEvent
<1>3. outbox' = [outbox EXCEPT ![tick[t].event] = row]
  BY <1>1 DEF MarkDone
<1> HIDE DEF row
<1> QED
  BY <1>2, <1>3, ClaimedRowChanged

\* A confirmation arrives: the answer that the tick holds is that of a deduction
\* the HCM has on file, as long as the request was not cancelled.
LEMMA CompleteDeductMaps ==
  ASSUME Inv, LP!BookInv, NEW t \in Ticks, CompleteDeduct(t)
  PROVE  LedgerMoves
<1> DEFINE r == Claimed(t).request
<1>1. /\ tick[t].stage = "answered" /\ Working(t) /\ Claimed(t).type = "HCM_DEDUCT"
      /\ UNCHANGED deductions
  BY DEF CompleteDeduct, Working, hcmVars
<1>2. /\ TypeOK /\ r \in Requests
      /\ tick[t].event \in DOMAIN outbox
      /\ outbox[tick[t].event].request = r
  BY <1>1, TickTyped DEF Inv, Claimed
<1>3. SameEvents
  BY <1>1, MarkedDone DEF CompleteDeduct
<1>4. CASE UNCHANGED <<balance, status>>
  BY <1>1, <1>3, <1>4, SameLedger
<1>5. ASSUME status[r] \notin {"APPROVED", "CANCELLED"},
             TransitionRequest(r, "APPROVED", version[r]), ConfirmDeduction(r)
      PROVE  LedgerMoves
  <2>1. status[r] \in {"APPROVED_PENDING_HCM", "FAILED"}
    BY <1>2, <1>5, Transitions
  <2>2. LP!Move(r, "APPROVED") /\ LP!UseDays(r)
    BY <1>2, <1>5, <2>1, SameTransition, SameWrites
  <2>3. r \in Charged
    <3>1. PICK d \in deductions : d.key = tick[t].event
      BY <1>1, <1>5 DEF Inv, AnswersAreTrue
    <3> QED
      BY <1>2, <3>1 DEF Charged
  <2>4. Intents' = Intents /\ Charged' = Charged
    <3>1. Charged' = Charged
      BY <1>1, <1>3 DEF Inv, References, IsDeduct, SameEvents, Charged
    <3> QED
      BY <1>3, <3>1, IntentsKept
  <2>5. LP!Confirm(r)
    BY <2>2, <2>3, <2>4 DEF LP!Confirm, LP!ConfirmedByHcm
  <2> QED
    BY <1>2, <2>5 DEF LedgerMoves, LP!Next
<1> QED
  BY <1>4, <1>5 DEF CompleteDeduct, requestRows

LEMMA GiveUpMaps ==
  ASSUME Inv, NEW t \in Ticks, GiveUp(t)
  PROVE  LedgerMoves
<1> DEFINE r == Claimed(t).request
           row == [Claimed(t) EXCEPT !.status = "FAILED", !.attempts = NewAttempts(t)]
<1>1. Working(t) /\ UNCHANGED <<balance, deductions>>
  BY DEF GiveUp, Working, hcmVars
<1>2. /\ Claimed(t) = outbox[tick[t].event]
      /\ Claimed(t) \in OutboxEvent
      /\ tick[t].event \in DOMAIN outbox
      /\ r \in Requests
  BY <1>1, TickTyped
<1>3. SameEvents
  <2>1. row.type = Claimed(t).type /\ row.request = Claimed(t).request
    BY <1>2 DEF OutboxEvent
  <2>2. outbox' = [outbox EXCEPT ![tick[t].event] = row]
    BY <1>2 DEF GiveUp
  <2> HIDE DEF row
  <2> QED
    BY <1>1, <2>1, <2>2, ClaimedRowChanged
<1>4. CASE UNCHANGED status
  BY <1>1, <1>3, <1>4, SameLedger
<1>5. CASE TransitionRequest(r, "FAILED", version[r])
  <2>1. LP!Move(r, "FAILED")
    BY <1>2, <1>5, SameTransition
  <2>2. Intents' = Intents /\ Charged' = Charged
    <3>1. Charged' = Charged
      BY <1>1, <1>3 DEF Inv, References, IsDeduct, SameEvents, Charged
    <3> QED
      BY <1>3, <3>1, IntentsKept
  <2>3. LP!Fail(r)
    BY <1>1, <2>1, <2>2 DEF LP!Fail
  <2> QED
    BY <1>2, <2>3 DEF LedgerMoves, LP!Next
<1> QED
  BY <1>4, <1>5 DEF GiveUp

\* What a tick does with its list, its event and its calls does not concern the
\* ledger.
LEMMA OutboxOnlyMaps ==
  ASSUME Inv, NEW t \in Ticks,
         Claim(t) \/ CompleteReverse(t) \/ RetryLater(t)
  PROVE  LedgerMoves
<1>1. UNCHANGED <<balance, status, deductions>>
  BY DEF Claim, CompleteReverse, RetryLater, requestRows, hcmVars
<1>2. SameEvents
  <2>1. CASE Claim(t)
    <3>1. PICK copy \in tick[t].todo :
            outbox' = [outbox EXCEPT ![copy.id].status = "PROCESSING"]
      BY <2>1 DEF Claim
    <3> DEFINE e == copy.id
               row == [outbox[e] EXCEPT !.status = "PROCESSING"]
    <3>2. e \in DOMAIN outbox /\ TypeOK
      BY TickTyped DEF Inv
    <3>3. outbox[e] \in OutboxEvent
      BY <3>2, EventsTyped
    <3>4. row.type = outbox[e].type /\ row.request = outbox[e].request
      BY <3>3 DEF OutboxEvent
    <3>5. outbox' = [outbox EXCEPT ![e] = row]
      BY <3>1, <3>2
    <3> HIDE DEF e, row
    <3> QED
      BY <3>2, <3>4, <3>5, RowChanged
  <2>2. CASE CompleteReverse(t)
    BY <2>2, MarkedDone DEF CompleteReverse, Working
  <2>3. CASE RetryLater(t)
    <3> DEFINE row == [Claimed(t) EXCEPT !.status = "PENDING",
                                         !.attempts = NewAttempts(t), !.due = FALSE]
    <3>1. Working(t)
      BY <2>3 DEF RetryLater, Working
    <3>2. Claimed(t) = outbox[tick[t].event] /\ Claimed(t) \in OutboxEvent
      BY <3>1, TickTyped
    <3>3. row.type = Claimed(t).type /\ row.request = Claimed(t).request
      BY <3>2 DEF OutboxEvent
    <3>4. outbox' = [outbox EXCEPT ![tick[t].event] = row]
      BY <2>3, <3>2 DEF RetryLater
    <3> HIDE DEF row
    <3> QED
      BY <3>1, <3>3, <3>4, ClaimedRowChanged
  <2> QED
    BY <2>1, <2>2, <2>3
<1> QED
  BY <1>1, <1>2, SameLedger

LEMMA TickMaps ==
  ASSUME Inv, LP!BookInv, NEW t \in Ticks, TickStep(t)
  PROVE  LedgerMoves
<1>1. CASE Poll(t) \/ Skip(t) \/ Send(t) \/ HcmRefuses(t) \/ HcmTimesOut(t) \/ LocalWriteFails(t)
  <2>1. UNCHANGED storeVars /\ UNCHANGED hcmVars
    BY <1>1 DEF Poll, Skip, Send, HcmRefuses, HcmTimesOut, LocalWriteFails
  <2> QED
    BY <2>1, SameLedger DEF storeVars, hcmVars, SameEvents
<1>2. CASE HcmAnswers(t) \/ HcmAnswerLost(t)
  <2>1. tick[t].stage = "waiting" /\ HcmServes(CallOf(t)) /\ UNCHANGED storeVars
    BY <1>2 DEF HcmAnswers, HcmAnswerLost
  <2> QED
    BY <2>1, CallsOfTicks, ServeMaps
<1> QED
  BY <1>1, <1>2, OutboxOnlyMaps, CompleteDeductMaps, GiveUpMaps DEF TickStep

LEMMA ProcessorMaps ==
  ASSUME Inv, LP!BookInv, ProcessorNext
  PROVE  LedgerMoves
<1>1. ASSUME NEW e \in DOMAIN outbox, BecomeDue(e)
      PROVE  LedgerMoves
  <2> DEFINE row == [outbox[e] EXCEPT !.due = TRUE]
  <2>1. TypeOK /\ outbox[e] \in OutboxEvent
    BY EventsTyped DEF Inv
  <2>2. row.type = outbox[e].type /\ row.request = outbox[e].request
    BY <2>1 DEF OutboxEvent
  <2>3. outbox' = [outbox EXCEPT ![e] = row]
    BY <1>1 DEF BecomeDue
  <2> HIDE DEF row
  <2>4. SameEvents
    BY <2>1, <2>2, <2>3, RowChanged
  <2> QED
    BY <1>1, <2>4, SameLedger DEF BecomeDue, requestRows, processorVars
<1>2. ASSUME NEW call \in BagToSet(late), DeliverLate(call)
      PROVE  LedgerMoves
  <2>1. call \in Call /\ IsProper(call)
    BY DEF Inv, TypeOK, LateCallsAreProper
  <2> QED
    BY <1>2, <2>1, ServeMaps DEF DeliverLate
<1> QED
  BY <1>1, <1>2, TickMaps DEF ProcessorNext

-----------------------------------------------------------------------------
(***************************************************************************)
(* The refinement                                                          *)
(***************************************************************************)

LEMMA StepMaps ==
  ASSUME Inv, LP!BookInv, [Next]_vars
  PROVE  [LP!Next]_(LP!vars)
<1>1. ASSUME UNCHANGED <<storeVars, hcmVars>>
      PROVE  LedgerMoves
  BY <1>1, SameLedger DEF storeVars, hcmVars, SameEvents
<1>2. ASSUME Serve
      PROVE  LedgerMoves
  <2>1. ASSUME NEW t \in Ticks, AbortTick(t)
        PROVE  LedgerMoves
    BY <1>1, <2>1 DEF AbortTick
  <2> QED
    BY <1>2, <2>1, ApiMaps, ProcessorMaps DEF Serve
<1>3. ASSUME Crash
      PROVE  LedgerMoves
  BY <1>1, <1>3 DEF Crash
<1>4. ASSUME UNCHANGED vars
      PROVE  LedgerMoves
  BY <1>1, <1>4 DEF vars, storeVars, processorVars, hcmVars
<1> QED
  BY <1>2, <1>3, <1>4 DEF Next, LedgerMoves

LEMMA InitMaps ==
  ASSUME Init
  PROVE  LP!Init
<1>1. Intents = {} /\ Charged = {}
  BY DEF Init, StoreInit, ProcessorInit, Hcm!HcmInit, Intents, Charged
<1> QED
  BY <1>1 DEF Init, StoreInit, LP!Init, LP!Absent, Absent

\* The service keeps the ledger's invariant, which its own does not imply.
LEMMA PromiseInv == Spec => [](Inv /\ LP!BookInv)
<1>1. Init => Inv /\ LP!BookInv
  BY InitInv, InitMaps, LedgerConstants, LP!InitTypeOK, LP!InitAccounting, LP!InitAgreement
  DEF LP!BookInv
<1>2. Inv /\ LP!BookInv /\ [Next]_vars => (Inv /\ LP!BookInv)'
  <2> SUFFICES ASSUME Inv, LP!BookInv, [Next]_vars
               PROVE  Inv' /\ LP!BookInv'
    OBVIOUS
  <2>1. [LP!Next]_(LP!vars)
    BY StepMaps
  <2>2. LP!BookInv'
    BY <2>1, LedgerConstants, LP!NextBooks
  <2> QED
    BY <2>2, NextInv
<1> QED
  BY <1>1, <1>2, PTL DEF Spec

\* The ledger of the proofs is the ledger that TimeOffService names.
LEMMA SameLedgers ==
  /\ LP!Init => Ledger!Init
  /\ [LP!Next]_(LP!vars) => [Ledger!Next]_(Ledger!vars)
<1>1. UNCHANGED LP!vars => UNCHANGED Ledger!vars
  BY DEF LP!vars, Ledger!vars, Intents, Charged
<1>2. LP!Init => Ledger!Init
  BY DEF LP!Init, Ledger!Init, LP!Absent, Ledger!Absent, Intents, Charged
<1>3. \A r \in Requests : \A to : LP!Move(r, to) => Ledger!Move(r, to)
  BY DEF LP!Move, Ledger!Move, LP!CanTransition, Ledger!CanTransition,
         LP!AllowedTransitions, Ledger!AllowedTransitions
<1>4. ASSUME NEW r \in Requests
      PROVE  /\ LP!Submit(r) => Ledger!Submit(r)
             /\ LP!Approve(r) => Ledger!Approve(r)
             /\ LP!Reject(r) => Ledger!Reject(r)
             /\ LP!Cancel(r) => Ledger!Cancel(r)
             /\ LP!Confirm(r) => Ledger!Confirm(r)
             /\ LP!Fail(r) => Ledger!Fail(r)
             /\ LP!HcmDeduct(r) => Ledger!HcmDeduct(r)
             /\ LP!HcmReverse(r) => Ledger!HcmReverse(r)
  <2>1. LP!Submit(r) => Ledger!Submit(r)
    BY DEF LP!Submit, Ledger!Submit, LP!Available, Ledger!Available,
           LP!Absent, Ledger!Absent, Intents, Charged
  <2>2. LP!Approve(r) => Ledger!Approve(r)
    BY <1>3 DEF LP!Approve, Ledger!Approve, Intents, Charged
  <2>3. LP!Reject(r) => Ledger!Reject(r)
    BY <1>3 DEF LP!Reject, Ledger!Reject, LP!Release, Ledger!Release, Intents, Charged
  <2>4. LP!Cancel(r) => Ledger!Cancel(r)
    BY <1>3 DEF LP!Cancel, Ledger!Cancel, LP!Release, Ledger!Release,
                LP!ReversalDue, Ledger!ReversalDue, Intents, Charged
  <2>5. LP!Confirm(r) => Ledger!Confirm(r)
    BY <1>3 DEF LP!Confirm, Ledger!Confirm, LP!UseDays, Ledger!UseDays,
                LP!ConfirmedByHcm, Ledger!ConfirmedByHcm, Intents, Charged
  <2>6. LP!Fail(r) => Ledger!Fail(r)
    BY <1>3 DEF LP!Fail, Ledger!Fail, Intents, Charged
  <2>7. /\ LP!HcmDeduct(r) => Ledger!HcmDeduct(r)
        /\ LP!HcmReverse(r) => Ledger!HcmReverse(r)
    BY DEF LP!HcmDeduct, Ledger!HcmDeduct, LP!HcmReverse, Ledger!HcmReverse,
           Intents, Charged
  <2> QED
    BY <2>1, <2>2, <2>3, <2>4, <2>5, <2>6, <2>7
<1>5. LP!Next => Ledger!Next
  BY <1>4 DEF LP!Next, Ledger!Next
<1> QED
  BY <1>1, <1>2, <1>5

\* Handlers that read before they write, overlapping ticks, lost and late calls
\* and crashes leave the ledger's promise intact.
THEOREM ServiceImplementsLedger == Spec => ImplementsLedger
<1>1. Init => Ledger!Init
  BY InitMaps, SameLedgers
<1>2. Inv /\ LP!BookInv /\ [Next]_vars => [Ledger!Next]_(Ledger!vars)
  BY StepMaps, SameLedgers
<1> QED
  BY <1>1, <1>2, PromiseInv, PTL DEF Spec, ImplementsLedger, Ledger!Spec

=============================================================================
