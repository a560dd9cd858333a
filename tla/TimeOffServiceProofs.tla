------------------------ MODULE TimeOffServiceProofs ------------------------
(***************************************************************************)
(* Proofs about TimeOffService with interruptions at every await, for any  *)
(* set of requests, handlers and ticks and any bounds.                     *)
(*                                                                         *)
(* Nothing here relies on a claim keeping ticks apart: what makes the      *)
(* outbox safe is that an event is enqueued once per transition, that the  *)
(* HCM files one deduction per key, and that an id, wherever it is kept,   *)
(* is the id of the request it is kept for.                                *)
(***************************************************************************)
EXTENDS TimeOffService, FiniteSetTheorems, SequenceTheorems, TLAPS

HP == INSTANCE MockHcmProofs WITH
        Accounts <- Balances, Seed <- Entitlement, Keys <- Nat \ {0}, NoKey <- 0

IsDeduct(e) == e \in DOMAIN outbox /\ outbox[e].type = "HCM_DEDUCT"
RequestOf(e) == outbox[e].request

\* Whatever names an event names one that is in the outbox; idempotency keys
\* name deductions.
References ==
  /\ \A t \in Ticks : Working(t) => tick[t].event \in DOMAIN outbox
  /\ \A t \in Ticks : \A copy \in tick[t].todo : copy.id \in DOMAIN outbox
  /\ \A h \in Handlers : handler[h].op = "retry" => handler[h].event \in DOMAIN outbox
  /\ \A d \in deductions : IsDeduct(d.key)
  /\ \A x \in requestIndex : IsDeduct(x.key)

\* A request has one event of a type at most, and the status that goes with it.
EventsFollowRequests ==
  /\ \A e, f \in DOMAIN outbox :
       outbox[e].type = outbox[f].type /\ RequestOf(e) = RequestOf(f) => e = f
  /\ \A e \in DOMAIN outbox :
       \/ /\ outbox[e].type = "HCM_DEDUCT"
          /\ status[RequestOf(e)] \in
               {"APPROVED_PENDING_HCM", "APPROVED", "FAILED", "CANCELLED"}
       \/ outbox[e].type = "HCM_REVERSE" /\ status[RequestOf(e)] = "CANCELLED"

\* What a handler has read is what the row still says, or its version is old.
CopiesAreVersioned ==
  \A h \in Handlers : handler[h].op \in DOMAIN Decisions =>
    LET r == handler[h].request
    IN  /\ status[r] # Absent
        /\ handler[h].version <= version[r]
        /\ handler[h].version = version[r] => handler[h].status = status[r]

\* A deduction is for the days of the request that its key stands for.
ChargesAreRight ==
  \A d \in deductions :
    d.account = BalanceOf[RequestOf(d.key)] /\ d.days = Days[RequestOf(d.key)]

\* An id that a request or a tick holds was given to that request's deduction.
IdsBelong ==
  /\ \A r \in Requests :
       /\ hcmRequestId[r] <= requestCounter
       /\ \A x \in requestIndex : x.id = hcmRequestId[r] => RequestOf(x.key) = r
  /\ \A t \in Ticks :
       /\ ~Working(t) => tick[t].hcmId = 0
       /\ Working(t) =>
            /\ tick[t].hcmId <= requestCounter
            /\ \A x \in requestIndex :
                 x.id = tick[t].hcmId => RequestOf(x.key) = Claimed(t).request

\* A call that may still reach the HCM asks for a deduction that is owed, or to
\* reverse an id that no request needs any more.
IsProper(call) ==
  /\ call.type = "HCM_DEDUCT" => IsDeduct(call.id)
  /\ call.type = "HCM_REVERSE" =>
       /\ call.id <= requestCounter
       /\ \A x \in requestIndex : x.id = call.id => status[RequestOf(x.key)] = "CANCELLED"
LateCallsAreProper == \A call \in BagToSet(late) : IsProper(call)

\* A tick that has an answer holds the id of the deduction it was about, and one
\* that reverses does so for a request that has learnt its id.
AnswersAreTrue ==
  \A t \in Ticks :
    /\ tick[t].stage = "answered" /\ Claimed(t).type = "HCM_DEDUCT" =>
         /\ tick[t].hcmId # 0
         /\ status[Claimed(t).request] # "CANCELLED" =>
              \E d \in deductions : d.key = tick[t].event /\ d.id = tick[t].hcmId
    /\ tick[t].stage \in {"waiting", "answered"} /\ Claimed(t).type = "HCM_REVERSE" =>
         hcmRequestId[Claimed(t).request] # 0

\* A request that was cancelled after it was approved has both events, and one
\* that was cancelled before has neither.
ReversalsAreOwed ==
  \A r \in Requests : status[r] = "CANCELLED" =>
    (EventsFor("HCM_DEDUCT", r) = {} <=> EventsFor("HCM_REVERSE", r) = {})

\* The deduction of a request that waits for it is not settled, and that of a
\* FAILED request is not DONE.
WaitingEventIsOpen ==
  \A r \in Requests :
    /\ status[r] = "APPROVED_PENDING_HCM" =>
         \E e \in EventsFor("HCM_DEDUCT", r) : outbox[e].status \in Unsettled
    /\ status[r] = "FAILED" =>
         \E e \in EventsFor("HCM_DEDUCT", r) : outbox[e].status # "DONE"

Inv ==
  /\ TypeOK
  /\ HP!HcmInv
  /\ References
  /\ EventsFollowRequests
  /\ ReversalsAreOwed
  /\ CopiesAreVersioned
  /\ ChargesAreRight
  /\ IdsBelong
  /\ LateCallsAreProper
  /\ AnswersAreTrue
  /\ ApprovedHoldsDeduction
  /\ WaitingEventIsOpen
  /\ DoneMeansDelivered

-----------------------------------------------------------------------------
(***************************************************************************)
(* The HCM                                                                 *)
(***************************************************************************)

\* A row of the outbox, with its columns.
LEMMA EventsTyped ==
  ASSUME TypeOK, NEW e \in DOMAIN outbox
  PROVE  /\ e \in Nat \ {0}
         /\ outbox[e] \in OutboxEvent
         /\ RequestOf(e) \in Requests
<1>1. outbox \in Seq(OutboxEvent)
  BY DEF TypeOK
<1>2. e \in 1..Len(outbox) /\ Len(outbox) \in Nat
  BY <1>1
<1>3. outbox[e] \in OutboxEvent
  BY <1>1, <1>2, ElementOfSeq
<1> QED
  BY <1>2, <1>3 DEF OutboxEvent, RequestOf

LEMMA HcmConstants == HP!HcmAssumption /\ Hcm!HcmAssumption
BY StoreAssumption, ProcessorAssumption DEF HP!HcmAssumption, Hcm!HcmAssumption

\* The HCM of the proofs is the HCM of the service.
LEMMA SameHcm ==
  /\ Hcm!HcmInit <=> HP!HcmInit
  /\ Hcm!HcmTypeOK <=> HP!HcmTypeOK
  /\ Hcm!hcmVars = HP!hcmVars
  /\ \A key, a, n : Hcm!NewDeduction(key, a, n) <=> HP!NewDeduction(key, a, n)
  /\ \A key : Hcm!RepeatedDeduction(key) => UNCHANGED HP!hcmVars
  /\ \A id : Hcm!ReverseKnown(id) <=> HP!ReverseKnown(id)
  /\ \A id : Hcm!ReverseUnknown(id) => UNCHANGED HP!hcmVars
BY DEF Hcm!HcmInit, HP!HcmInit, Hcm!HcmTypeOK, HP!HcmTypeOK, Hcm!hcmVars, HP!hcmVars,
       Hcm!NewDeduction, HP!NewDeduction, Hcm!NewKey, HP!NewKey,
       Hcm!FiledUnder, HP!FiledUnder, Hcm!TotalCovers, HP!TotalCovers,
       Hcm!RepeatedDeduction, Hcm!ReverseKnown, HP!ReverseKnown,
       Hcm!FileRemoved, HP!FileRemoved, Hcm!ReverseUnknown

\* A step of the HCM takes away deductions of cancelled requests only, files new
\* ones only for what is owed, and gives out fresh ids.
HcmMoves ==
  /\ HP!HcmInv'
  /\ requestCounter <= requestCounter'
  /\ \A d \in deductions : d \in deductions' \/ status[RequestOf(d.key)] = "CANCELLED"
  /\ \A d \in deductions' \ deductions :
       /\ IsDeduct(d.key)
       /\ d.account = BalanceOf[RequestOf(d.key)]
       /\ d.days = Days[RequestOf(d.key)]
  /\ \A x \in requestIndex' \ requestIndex : IsDeduct(x.key) /\ requestCounter < x.id

LEMMA HcmStays ==
  ASSUME Inv, UNCHANGED hcmVars
  PROVE  HcmMoves
<1>1. UNCHANGED HP!hcmVars
  BY DEF hcmVars, HP!hcmVars
<1>2. HP!HcmInv'
  BY <1>1, HP!UnchangedKeeps, HcmConstants DEF Inv
<1>3. requestCounter \in Nat
  BY DEF Inv, HP!HcmInv, HP!HcmTypeOK
<1> QED
  BY <1>2, <1>3 DEF HcmMoves, hcmVars

LEMMA ServeMoves ==
  ASSUME Inv, NEW call \in Call, IsProper(call), HcmServes(call)
  PROVE  HcmMoves
<1>1. requestCounter \in Nat
  BY DEF Inv, HP!HcmInv, HP!HcmTypeOK
<1>2. CASE UNCHANGED hcmVars
  BY <1>2, HcmStays
<1>3. ASSUME call.type = "HCM_DEDUCT",
             Hcm!NewDeduction(call.id, BalanceOf[RequestOf(call.id)], Days[RequestOf(call.id)])
      PROVE  HcmMoves
  <2> DEFINE e == call.id
             r == RequestOf(e)
  <2>1. e \in DOMAIN outbox /\ IsDeduct(e) /\ e \in Nat \ {0} /\ r \in Requests
    BY <1>3, EventsTyped DEF IsProper, IsDeduct, Inv
  <2>2. BalanceOf[r] \in Balances /\ Days[r] \in Nat
    BY <2>1, StoreAssumption
  <2>3. HP!NewDeduction(e, BalanceOf[r], Days[r])
    BY <1>3, SameHcm
  <2> HIDE DEF e, r
  <2>4. HP!HcmInv'
    BY <2>1, <2>2, <2>3, HP!NewDeductionKeeps, HcmConstants DEF Inv
  <2>5. /\ requestCounter' = requestCounter + 1
        /\ \A x \in requestIndex' \ requestIndex : x.key = e /\ x.id = requestCounter + 1
        /\ deductions \subseteq deductions'
        /\ \A d \in deductions' \ deductions :
             d.key = e /\ d.account = BalanceOf[r] /\ d.days = Days[r]
    BY <2>3 DEF HP!NewDeduction
  <2> QED
    BY <1>1, <2>1, <2>4, <2>5 DEF HcmMoves, r
<1>4. ASSUME call.type = "HCM_REVERSE", Hcm!ReverseKnown(call.id)
      PROVE  HcmMoves
  <2>1. HP!ReverseKnown(call.id)
    BY <1>4, SameHcm
  <2>2. HP!HcmInv'
    BY <2>1, HP!ReverseKnownKeeps, HcmConstants DEF Inv
  <2>3. PICK x \in requestIndex :
          /\ x.id = call.id
          /\ requestIndex' = requestIndex \ {x}
          /\ \/ \E d \in deductions : d.key = x.key /\ deductions' = deductions \ {d}
             \/ deductions' = deductions
          /\ requestCounter' = requestCounter
    BY <2>1 DEF HP!ReverseKnown, HP!FiledUnder, HP!FileRemoved
  <2>4. status[RequestOf(x.key)] = "CANCELLED"
    BY <1>4, <2>3 DEF IsProper
  <2> QED
    BY <1>1, <2>2, <2>3, <2>4 DEF HcmMoves
<1>5. Hcm!RepeatedDeduction(call.id) => UNCHANGED hcmVars
  BY DEF Hcm!RepeatedDeduction, Hcm!hcmVars, hcmVars
<1>6. Hcm!ReverseUnknown(call.id) => UNCHANGED hcmVars
  BY DEF Hcm!ReverseUnknown, Hcm!hcmVars, hcmVars
<1> QED
  BY <1>2, <1>3, <1>4, <1>5, <1>6 DEF HcmServes, RequestOf

-----------------------------------------------------------------------------
(***************************************************************************)
(* What one step may do to each part of the state                          *)
(***************************************************************************)

\* What an event may become: DONE once its request knows the HCM's id and is
\* decided, and FAILED once the request no longer waits for it.
MayBecome(e, row) ==
  /\ row.type = outbox[e].type
  /\ row.request = outbox[e].request
  /\ \/ row.status \in {outbox[e].status, "PENDING", "PROCESSING"}
     \/ row.status = "FAILED" /\ status'[row.request] # "APPROVED_PENDING_HCM"
     \/ /\ row.status = "DONE"
        /\ hcmRequestId'[row.request] # 0
        /\ row.type = "HCM_DEDUCT" => status'[row.request] \in {"APPROVED", "CANCELLED"}

\* An event may change its status, attempts and due; a new one goes with a
\* transition.
OutboxMoves ==
  \/ UNCHANGED outbox
  \/ \E e \in DOMAIN outbox, row \in OutboxEvent :
       /\ MayBecome(e, row)
       /\ outbox' = [outbox EXCEPT ![e] = row]
  \/ \E r \in Requests :
       /\ status[r] = "PENDING"
       /\ status' = [status EXCEPT ![r] = "APPROVED_PENDING_HCM"]
       /\ Enqueue("HCM_DEDUCT", r)
  \/ \E r \in Requests :
       /\ status[r] = "APPROVED_PENDING_HCM"
       /\ status' = [status EXCEPT ![r] = "CANCELLED"]
       /\ Enqueue("HCM_REVERSE", r)

\* What comes with a transition: an approval with an event and its cancellation
\* with another, a confirmation with an answer, a failure with a FAILED event.
ComesWith(r, to) ==
  /\ to = "APPROVED_PENDING_HCM" => Enqueue("HCM_DEDUCT", r)
  /\ to = "CANCELLED" /\ status[r] = "APPROVED_PENDING_HCM" => Enqueue("HCM_REVERSE", r)
  /\ to = "APPROVED" =>
       \E t \in Ticks : /\ tick[t].stage = "answered"
                        /\ Claimed(t).type = "HCM_DEDUCT"
                        /\ Claimed(t).request = r
                        /\ LearnId(t, r)
  /\ to = "FAILED" =>
       \E e \in DOMAIN outbox : /\ outbox[e].type = "HCM_DEDUCT"
                               /\ RequestOf(e) = r
                               /\ outbox'[e].status = "FAILED"

\* A row appears, or makes a transition and gets a new version.
StatusMoves ==
  \/ UNCHANGED <<status, version>>
  \/ \E r \in Requests :
       /\ status[r] = Absent
       /\ status' = [status EXCEPT ![r] = "PENDING"]
       /\ UNCHANGED version
  \/ \E r \in Requests, to \in RequestStatus :
       TransitionRequest(r, to, version[r]) /\ ComesWith(r, to)

\* A request learns the id that a tick was answered.
IdMoves ==
  \/ UNCHANGED hcmRequestId
  \/ \E t \in Ticks :
       /\ tick[t].stage = "answered"
       /\ Claimed(t).type = "HCM_DEDUCT"
       /\ LearnId(t, Claimed(t).request)

\* A handler that is at work keeps what it has read until it is done.
HandlersMove ==
  /\ handler' \in [Handlers -> HandlerState]
  /\ \A h \in Handlers :
       \/ handler'[h] \in {handler[h], Idle}
       \/ \E e \in DOMAIN outbox : handler'[h] = [op |-> "retry", event |-> e]
       \/ \E op \in DOMAIN Decisions, r \in Requests :
            /\ status[r] # Absent
            /\ UNCHANGED <<status, version>>
            /\ handler'[h] =
                 [op |-> op, request |-> r, status |-> status[r], version |-> version[r]]

\* A tick works on one event at a time and takes its ids from answers and rows.
TickMoves(t) ==
  LET new == tick'[t]
      is(type) == Claimed(t).type = type
  IN  \/ new = tick[t]
      \/ new.stage \in {"idle", "looping"} /\ new.hcmId = 0
      \/ new.stage = "claimed" /\ new.hcmId = 0 /\ new.event \in DOMAIN outbox
      \/ /\ Working(t)
         /\ new.event = tick[t].event
         /\ \/ new.stage = "failed" /\ new.hcmId = tick[t].hcmId
            \/ new.stage = "waiting" /\ is("HCM_DEDUCT") /\ new.hcmId = tick[t].hcmId
            \/ /\ new.stage = "waiting" /\ is("HCM_REVERSE")
               /\ new.hcmId = hcmRequestId[Claimed(t).request] /\ new.hcmId # 0
            \/ /\ new.stage = "answered" /\ is("HCM_DEDUCT")
               /\ \E d \in deductions' : d.key = tick[t].event /\ d.id = new.hcmId
            \/ /\ new.stage = "answered" /\ is("HCM_REVERSE")
               /\ tick[t].stage = "waiting" /\ new.hcmId = tick[t].hcmId

TicksMove ==
  /\ tick' \in [Ticks -> TickState]
  /\ \A t \in Ticks : TickMoves(t) /\ \A copy \in tick'[t].todo : copy.id \in DOMAIN outbox

\* Calls come late only if a tick has made them.
LateMoves ==
  /\ IsABag(late')
  /\ \A call \in BagToSet(late') :
       \/ call \in BagToSet(late)
       \/ \E t \in Ticks : tick[t].stage = "waiting" /\ call = CallOf(t)

BalanceMoves == balance' \in [Balances -> [total : Nat, used : Nat, reserved : Nat]]

Moves ==
  /\ HcmMoves /\ OutboxMoves /\ StatusMoves /\ IdMoves
  /\ HandlersMove /\ TicksMove /\ LateMoves /\ BalanceMoves

-----------------------------------------------------------------------------
\* Handlers only touch the store and themselves.
LEMMA ApiStays ==
  ASSUME Inv, UNCHANGED processorVars
  PROVE  HcmMoves /\ TicksMove /\ LateMoves
<1>1. HcmMoves
  BY HcmStays DEF processorVars, hcmVars
<1>2. TicksMove
  BY DEF TicksMove, TickMoves, processorVars, Inv, TypeOK, References
<1>3. LateMoves
  BY DEF LateMoves, processorVars, Inv, TypeOK
<1> QED
  BY <1>1, <1>2, <1>3

\* A handler's three writes to a balance leave natural numbers.
LEMMA BalanceTyped ==
  ASSUME TypeOK, NEW r \in Requests,
         ReserveBalance(r) \/ ReleaseReserved(r) \/ ConfirmDeduction(r)
  PROVE  BalanceMoves
<1>1. BalanceOf[r] \in Balances /\ Days[r] \in Nat
  BY StoreAssumption
<1>2. balance \in [Balances -> [total : Nat, used : Nat, reserved : Nat]]
  BY DEF TypeOK
<1>3. CASE ReserveBalance(r)
  BY <1>1, <1>2, <1>3 DEF ReserveBalance, BalanceMoves
<1>4. CASE ReleaseReserved(r)
  BY <1>1, <1>2, <1>4 DEF ReleaseReserved, Floor0, BalanceMoves
<1>5. CASE ConfirmDeduction(r)
  BY <1>1, <1>2, <1>5 DEF ConfirmDeduction, Floor0, BalanceMoves
<1> QED
  BY <1>3, <1>4, <1>5

\* The transitions the state machine allows, one by one.
LEMMA Transitions ==
  ASSUME TypeOK, NEW r \in Requests, NEW to, NEW v, TransitionRequest(r, to, v)
  PROVE  /\ v = version[r]
         /\ to \in RequestStatus
         /\ status' = [status EXCEPT ![r] = to]
         /\ version' = [version EXCEPT ![r] = @ + 1]
         /\ \/ /\ status[r] = "PENDING"
               /\ to \in {"APPROVED_PENDING_HCM", "REJECTED", "CANCELLED"}
            \/ /\ status[r] = "APPROVED_PENDING_HCM"
               /\ to \in {"APPROVED", "FAILED", "CANCELLED"}
            \/ status[r] = "FAILED" /\ to = "APPROVED"
BY DEF TypeOK, TransitionRequest, MayTransition, CanTransition, AllowedTransitions,
       RequestStatus, Absent

\* The request that a handler is about to decide.
LEMMA DecidersTyped ==
  ASSUME TypeOK, NEW h \in Handlers, handler[h].op \in DOMAIN Decisions
  PROVE  handler[h].request \in Requests
<1>1. handler[h] \in HandlerState
  BY DEF TypeOK
<1>2. handler[h].op \in {"approve", "reject", "cancel"}
  BY DEF Decisions
<1>3. handler[h] # Idle /\ handler[h].op # "retry"
  BY <1>2 DEF Idle
<1> QED
  BY <1>1, <1>3 DEF HandlerState

\* A handler that finishes.
LEMMA Finished ==
  ASSUME TypeOK, NEW h \in Handlers, Finish(h)
  PROVE  HandlersMove
BY DEF TypeOK, Finish, HandlersMove, HandlerState

LEMMA ApiMoves ==
  ASSUME Inv, ApiNext, UNCHANGED processorVars
  PROVE  Moves
<1>0. TypeOK /\ balance \in [Balances -> [total : Nat, used : Nat, reserved : Nat]]
  BY DEF Inv, TypeOK
<1>1. HcmMoves /\ TicksMove /\ LateMoves
  BY ApiStays
<1>2. ASSUME NEW r \in Requests, SubmitRequest(r)
      PROVE  Moves
  <2>1. OutboxMoves /\ StatusMoves /\ IdMoves
    BY <1>2 DEF SubmitRequest, OutboxMoves, StatusMoves, IdMoves
  <2>2. HandlersMove
    BY <1>0, <1>2 DEF SubmitRequest, HandlersMove, TypeOK
  <2>3. BalanceMoves
    BY <1>0, <1>2, BalanceTyped DEF SubmitRequest
  <2> QED
    BY <1>1, <2>1, <2>2, <2>3 DEF Moves
<1>3. ASSUME NEW h \in Handlers, NEW op \in DOMAIN Decisions, NEW r \in Requests,
             ReadRequest(h, op, r)
      PROVE  Moves
  <2> DEFINE new == [op |-> op, request |-> r, status |-> status[r], version |-> version[r]]
  <2>1. OutboxMoves /\ StatusMoves /\ IdMoves /\ BalanceMoves
    BY <1>0, <1>3
    DEF ReadRequest, storeVars, OutboxMoves, StatusMoves, IdMoves, BalanceMoves
  <2>2. /\ status[r] # Absent
        /\ UNCHANGED <<status, version>>
        /\ handler' = [handler EXCEPT ![h] = new]
    BY <1>3 DEF ReadRequest, storeVars
  <2>3. status[r] \in RequestStatus /\ version[r] \in Nat
    BY <1>0, <2>2 DEF TypeOK
  <2>4. new \in HandlerState
    BY <2>3 DEF HandlerState
  <2>5. HandlersMove
    <3>1. handler' \in [Handlers -> HandlerState]
      BY <1>0, <2>2, <2>4 DEF TypeOK
    <3>2. \A g \in Handlers : handler'[g] = IF g = h THEN new ELSE handler[g]
      BY <1>0, <2>2 DEF TypeOK
    <3> QED
      BY <2>2, <3>1, <3>2 DEF HandlersMove
  <2> QED
    BY <1>1, <2>1, <2>5 DEF Moves
<1>4. ASSUME NEW h \in Handlers, NEW e \in DOMAIN outbox, ReadFailedEvent(h, e)
      PROVE  Moves
  <2> DEFINE new == [op |-> "retry", event |-> e]
  <2>1. OutboxMoves /\ StatusMoves /\ IdMoves /\ BalanceMoves
    BY <1>0, <1>4
    DEF ReadFailedEvent, storeVars, OutboxMoves, StatusMoves, IdMoves, BalanceMoves
  <2>2. handler' = [handler EXCEPT ![h] = new]
    BY <1>4 DEF ReadFailedEvent
  <2>3. new \in HandlerState
    BY <1>0, EventsTyped DEF HandlerState
  <2>4. HandlersMove
    BY <1>0, <2>2, <2>3 DEF HandlersMove, TypeOK
  <2> QED
    BY <1>1, <2>1, <2>4 DEF Moves
<1>5. ASSUME NEW h \in Handlers, handler[h].op \in DOMAIN Decisions
      PROVE  /\ handler[h].request \in Requests
             /\ handler[h].version \in Nat
             /\ handler[h].status \in RequestStatus
  <2>1. handler[h] \in HandlerState
    BY <1>0 DEF TypeOK
  <2>2. handler[h] \in [op : DOMAIN Decisions, request : Requests,
                        status : RequestStatus, version : Nat]
    BY <1>5, <2>1 DEF HandlerState, Idle, Decisions
  <2> QED
    BY <2>2
<1>6. ASSUME NEW h \in Handlers, Approve(h)
      PROVE  Moves
  <2> DEFINE r == handler[h].request
  <2>1. r \in Requests
    BY <1>5, <1>6 DEF Approve, Decisions
  <2>2. /\ TransitionRequest(r, "APPROVED_PENDING_HCM", handler[h].version)
        /\ Enqueue("HCM_DEDUCT", r)
        /\ Finish(h)
        /\ UNCHANGED <<balance, hcmRequestId>>
    BY <1>6 DEF Approve
  <2> HIDE DEF r
  <2>3. /\ handler[h].version = version[r]
        /\ status[r] = "PENDING"
        /\ status' = [status EXCEPT ![r] = "APPROVED_PENDING_HCM"]
    BY <1>0, <2>1, <2>2, Transitions
  <2>4. OutboxMoves /\ IdMoves /\ BalanceMoves
    BY <1>0, <2>1, <2>2, <2>3 DEF OutboxMoves, IdMoves, BalanceMoves
  <2>5. StatusMoves
    BY <2>1, <2>2, <2>3 DEF StatusMoves, ComesWith, RequestStatus
  <2> QED
    BY <1>0, <1>1, <2>2, <2>4, <2>5, Finished DEF Moves
<1>7. ASSUME NEW h \in Handlers, Reject(h)
      PROVE  Moves
  <2> DEFINE r == handler[h].request
  <2>1. r \in Requests
    BY <1>5, <1>7 DEF Reject, Decisions
  <2>2. /\ TransitionRequest(r, "REJECTED", handler[h].version)
        /\ ReleaseReserved(r)
        /\ Finish(h)
        /\ UNCHANGED <<hcmRequestId, outbox>>
    BY <1>7 DEF Reject
  <2> HIDE DEF r
  <2>3. handler[h].version = version[r]
    BY <1>0, <2>1, <2>2, Transitions
  <2>4. OutboxMoves /\ IdMoves /\ StatusMoves
    BY <2>1, <2>2, <2>3 DEF OutboxMoves, IdMoves, StatusMoves, ComesWith, RequestStatus
  <2> QED
    BY <1>0, <1>1, <2>1, <2>2, <2>4, BalanceTyped, Finished DEF Moves
<1>8. ASSUME NEW h \in Handlers, Cancel(h)
      PROVE  Moves
  <2> DEFINE r == handler[h].request
  <2>1. r \in Requests /\ handler[h].op \in DOMAIN Decisions
    BY <1>5, <1>8 DEF Cancel, Decisions
  <2>2. /\ TransitionRequest(r, "CANCELLED", handler[h].version)
        /\ IF handler[h].status = "APPROVED_PENDING_HCM"
           THEN Enqueue("HCM_REVERSE", r)
           ELSE UNCHANGED outbox
        /\ ReleaseReserved(r)
        /\ Finish(h)
        /\ UNCHANGED hcmRequestId
    BY <1>8 DEF Cancel
  <2>3. /\ handler[h].version = version[r]
        /\ status' = [status EXCEPT ![r] = "CANCELLED"]
    BY <1>0, <2>1, <2>2, Transitions
  <2>4. handler[h].status = status[r]
    BY <2>1, <2>3 DEF Inv, CopiesAreVersioned
  <2> HIDE DEF r
  <2>5. OutboxMoves
    BY <2>1, <2>2, <2>3, <2>4 DEF OutboxMoves
  <2>6. IdMoves /\ StatusMoves
    BY <2>1, <2>2, <2>3, <2>4 DEF IdMoves, StatusMoves, ComesWith, RequestStatus
  <2> QED
    BY <1>0, <1>1, <2>1, <2>2, <2>5, <2>6, BalanceTyped, Finished DEF Moves
<1>9. ASSUME NEW h \in Handlers, Conflict(h)
      PROVE  Moves
  <2>1. OutboxMoves /\ StatusMoves /\ IdMoves /\ BalanceMoves
    BY <1>0, <1>9
    DEF Conflict, storeVars, OutboxMoves, StatusMoves, IdMoves, BalanceMoves
  <2> QED
    BY <1>0, <1>1, <1>9, <2>1, Finished DEF Conflict, Moves
<1>10. ASSUME NEW h \in Handlers, RetryEvent(h)
       PROVE  Moves
  <2> DEFINE e == handler[h].event
             row == [outbox[e] EXCEPT !.status = "PENDING", !.due = TRUE]
  <2>1. e \in DOMAIN outbox
    BY <1>10 DEF RetryEvent, Inv, References
  <2>2. /\ outbox' = [outbox EXCEPT ![e] = row]
        /\ Finish(h)
        /\ UNCHANGED <<balance, requestRows>>
    BY <1>10 DEF RetryEvent
  <2>3. outbox[e] \in OutboxEvent
    BY <1>0, <2>1, EventsTyped
  <2>4. row \in OutboxEvent /\ MayBecome(e, row)
    BY <2>3 DEF OutboxEvent, OutboxEventStatus, MayBecome
  <2> HIDE DEF e, row
  <2>5. OutboxMoves
    BY <2>1, <2>2, <2>4 DEF OutboxMoves
  <2>6. StatusMoves /\ IdMoves /\ BalanceMoves
    BY <1>0, <2>2 DEF requestRows, StatusMoves, IdMoves, BalanceMoves
  <2> QED
    BY <1>0, <1>1, <2>2, <2>5, <2>6, Finished DEF Moves
<1> QED
  BY <1>2, <1>3, <1>4, <1>6, <1>7, <1>8, <1>9, <1>10 DEF ApiNext

-----------------------------------------------------------------------------
\* The fields of a tick, and of the event it has claimed.
LEMMA TickTyped ==
  ASSUME Inv, NEW t \in Ticks
  PROVE  /\ tick[t].todo \in SUBSET [id : Nat, attempts : Nat]
         /\ \A copy \in tick[t].todo : copy.id \in DOMAIN outbox
         /\ tick[t].event \in Nat /\ tick[t].attempts \in Nat /\ tick[t].hcmId \in Nat
         /\ Working(t) => /\ tick[t].event \in DOMAIN outbox
                          /\ Claimed(t) = outbox[tick[t].event]
                          /\ Claimed(t) \in OutboxEvent
                          /\ Claimed(t).request = RequestOf(tick[t].event)
                          /\ Claimed(t).request \in Requests
<1>1. tick[t] \in TickState
  BY DEF Inv, TypeOK
<1>2. Working(t) => tick[t].event \in DOMAIN outbox
  BY DEF Inv, References
<1>3. \A copy \in tick[t].todo : copy.id \in DOMAIN outbox
  BY DEF Inv, References
<1>4. TypeOK
  BY DEF Inv
<1> QED
  BY <1>1, <1>2, <1>3, <1>4, EventsTyped DEF TickState, Claimed, RequestOf

\* The others stay as they are when one tick moves.
LEMMA OneTickMoves ==
  ASSUME Inv, NEW t \in Ticks, NEW new \in TickState,
         tick' = [tick EXCEPT ![t] = new],
         \A copy \in new.todo : copy.id \in DOMAIN outbox,
         tick'[t] = new => TickMoves(t)
  PROVE  TicksMove
<1>1. tick \in [Ticks -> TickState]
  BY DEF Inv, TypeOK
<1>2. tick' \in [Ticks -> TickState]
  BY <1>1
<1>3. \A u \in Ticks : tick'[u] = IF u = t THEN new ELSE tick[u]
  BY <1>1
<1>4. \A u \in Ticks \ {t} : TickMoves(u)
  BY <1>3 DEF TickMoves
<1>5. \A u \in Ticks : \A copy \in tick'[u].todo : copy.id \in DOMAIN outbox
  BY <1>3, TickTyped
<1> QED
  BY <1>2, <1>3, <1>4, <1>5 DEF TicksMove

\* Where a tick with an event may go, and with which id.
MayGo(t, stage, hcmId) ==
  \/ stage = "failed" /\ hcmId = tick[t].hcmId
  \/ stage = "waiting" /\ Claimed(t).type = "HCM_DEDUCT" /\ hcmId = tick[t].hcmId
  \/ /\ stage = "waiting" /\ Claimed(t).type = "HCM_REVERSE"
     /\ hcmId = hcmRequestId[Claimed(t).request] /\ hcmId # 0
  \/ /\ stage = "answered" /\ Claimed(t).type = "HCM_DEDUCT"
     /\ \E d \in deductions' : d.key = tick[t].event /\ d.id = hcmId
  \/ /\ stage = "answered" /\ Claimed(t).type = "HCM_REVERSE"
     /\ tick[t].stage = "waiting" /\ hcmId = tick[t].hcmId

LEMMA GotoMoves ==
  ASSUME Inv, NEW t \in Ticks, Working(t),
         NEW stage, NEW hcmId \in Nat, MayGo(t, stage, hcmId),
         tick' = [tick EXCEPT ![t].stage = stage, ![t].hcmId = hcmId]
  PROVE  TicksMove
<1> DEFINE new == [tick[t] EXCEPT !.stage = stage, !.hcmId = hcmId]
<1>1. tick \in [Ticks -> TickState] /\ tick[t] \in TickState
  BY DEF Inv, TypeOK
<1>2. /\ new \in TickState
      /\ new.stage = stage /\ new.hcmId = hcmId
      /\ new.event = tick[t].event /\ new.todo = tick[t].todo
  BY <1>1 DEF TickState, MayGo
<1>3. tick' = [tick EXCEPT ![t] = new]
  BY <1>1
<1> HIDE DEF new
<1>4. tick'[t] = new => TickMoves(t)
  BY <1>2 DEF TickMoves, MayGo
<1>5. \A copy \in new.todo : copy.id \in DOMAIN outbox
  BY <1>2, TickTyped
<1> QED
  BY <1>2, <1>3, <1>4, <1>5, OneTickMoves

\* Goto leaves the id alone.
LEMMA GotoIsGotoWithId ==
  ASSUME Inv, NEW t \in Ticks, NEW stage, Goto(t, stage)
  PROVE  tick' = [tick EXCEPT ![t].stage = stage, ![t].hcmId = tick[t].hcmId]
<1>1. tick \in [Ticks -> TickState] /\ tick[t] \in TickState
  BY DEF Inv, TypeOK
<1> QED
  BY <1>1 DEF Goto, TickState

LEMMA GotoKeepsId ==
  ASSUME Inv, NEW t \in Ticks, Working(t), NEW stage, Goto(t, stage),
         MayGo(t, stage, tick[t].hcmId)
  PROVE  TicksMove
<1>1. tick[t].hcmId \in Nat
  BY TickTyped
<1>2. tick' = [tick EXCEPT ![t].stage = stage, ![t].hcmId = tick[t].hcmId]
  BY GotoIsGotoWithId
<1> QED
  BY <1>1, <1>2, GotoMoves

LEMMA GotoFailed ==
  ASSUME Inv, NEW t \in Ticks, Working(t), Goto(t, "failed")
  PROVE  TicksMove
BY GotoKeepsId DEF MayGo

LEMMA NextRoundMoves ==
  ASSUME Inv, NEW t \in Ticks, NEW todo \in SUBSET [id : Nat, attempts : Nat],
         NextRound(t, todo), \A copy \in todo : copy.id \in DOMAIN outbox
  PROVE  TicksMove
<1> DEFINE new == [IdleTick EXCEPT !.stage = IF todo = {} THEN "idle" ELSE "looping",
                                   !.todo = todo]
<1>1. /\ new \in TickState
      /\ new.stage \in {"idle", "looping"} /\ new.hcmId = 0 /\ new.todo = todo
  BY DEF IdleTick, TickState
<1>2. tick' = [tick EXCEPT ![t] = new]
  BY DEF NextRound
<1> HIDE DEF new
<1>3. tick'[t] = new => TickMoves(t)
  BY <1>1 DEF TickMoves
<1> QED
  BY <1>1, <1>2, <1>3, OneTickMoves

\* A tick goes idle.
LEMMA AbortMoves ==
  ASSUME Inv, NEW t \in Ticks, tick' = [tick EXCEPT ![t] = IdleTick]
  PROVE  TicksMove
<1>1. IdleTick \in TickState /\ IdleTick.todo = {}
  BY DEF IdleTick, TickState
<1>2. tick'[t] = IdleTick => TickMoves(t)
  BY DEF TickMoves, IdleTick
<1> QED
  BY <1>1, <1>2, OneTickMoves

\* What a tick asks of the HCM is owed, or is no longer needed by any request.
LEMMA CallsOfTicks ==
  ASSUME Inv, NEW t \in Ticks, tick[t].stage = "waiting"
  PROVE  CallOf(t) \in Call /\ IsProper(CallOf(t))
<1>1. Working(t)
  BY DEF Working
<1>2. /\ tick[t].event \in DOMAIN outbox /\ tick[t].event \in Nat
      /\ Claimed(t) = outbox[tick[t].event]
      /\ Claimed(t).type \in OutboxEventType
      /\ tick[t].hcmId \in Nat
  BY <1>1, TickTyped DEF OutboxEvent
<1>3. CallOf(t) \in Call
  BY <1>2 DEF CallOf, Call
<1>4. CASE Claimed(t).type = "HCM_DEDUCT"
  BY <1>2, <1>3, <1>4 DEF CallOf, IsProper, IsDeduct
<1>5. CASE Claimed(t).type = "HCM_REVERSE"
  <2>1. status[Claimed(t).request] = "CANCELLED"
    BY <1>2, <1>5 DEF Inv, EventsFollowRequests, RequestOf
  <2>2. /\ tick[t].hcmId <= requestCounter
        /\ \A x \in requestIndex :
             x.id = tick[t].hcmId => RequestOf(x.key) = Claimed(t).request
    BY <1>1 DEF Inv, IdsBelong
  <2>3. CallOf(t).type = "HCM_REVERSE" /\ CallOf(t).id = tick[t].hcmId
    BY <1>5 DEF CallOf
  <2> QED
    BY <1>3, <2>1, <2>2, <2>3 DEF IsProper
<1> QED
  BY <1>2, <1>4, <1>5 DEF OutboxEventType

-----------------------------------------------------------------------------
\* Parts of the state that a step leaves alone.
LEMMA StoreStays ==
  ASSUME Inv, UNCHANGED storeVars
  PROVE  OutboxMoves /\ StatusMoves /\ IdMoves /\ BalanceMoves
BY DEF Inv, TypeOK, storeVars, OutboxMoves, StatusMoves, IdMoves, BalanceMoves

LEMMA HandlersStay ==
  ASSUME Inv, UNCHANGED handler
  PROVE  HandlersMove
BY DEF Inv, TypeOK, HandlersMove

LEMMA LateStays ==
  ASSUME Inv, UNCHANGED late
  PROVE  LateMoves
BY DEF Inv, TypeOK, LateMoves

\* The events that a poll has found.
LEMMA PollMoves ==
  ASSUME Inv, NEW t \in Ticks, Poll(t), UNCHANGED handler
  PROVE  Moves
<1> DEFINE todo == {[id |-> e, attempts |-> outbox[e].attempts] : e \in Polled}
<1>1. Polled \subseteq DOMAIN outbox
  BY DEF Polled, Due
<1>2. \A e \in Polled : e \in Nat /\ outbox[e].attempts \in Nat
  BY <1>1, EventsTyped DEF Inv, OutboxEvent
<1>3. /\ todo \in SUBSET [id : Nat, attempts : Nat]
      /\ \A copy \in todo : copy.id \in DOMAIN outbox
  BY <1>1, <1>2
<1>4. NextRound(t, todo)
  BY DEF Poll
<1> HIDE DEF todo
<1>5. TicksMove
  BY <1>3, <1>4, NextRoundMoves
<1> QED
  BY <1>5, StoreStays, HandlersStay, LateStays, HcmStays DEF Poll, Moves

LEMMA ClaimMoves ==
  ASSUME Inv, NEW t \in Ticks, Claim(t), UNCHANGED handler
  PROVE  Moves
<1>1. PICK event \in tick[t].todo :
        /\ outbox' = [outbox EXCEPT ![event.id].status = "PROCESSING"]
        /\ tick' = [tick EXCEPT ![t].stage = "claimed", ![t].todo = @ \ {event},
                                ![t].event = event.id, ![t].attempts = event.attempts]
        /\ Reached(t, event)
  BY DEF Claim
<1> DEFINE new == [tick[t] EXCEPT !.stage = "claimed", !.todo = @ \ {event},
                                  !.event = event.id, !.attempts = event.attempts]
           row == [outbox[event.id] EXCEPT !.status = "PROCESSING"]
<1>2. /\ event.id \in DOMAIN outbox
      /\ event.id \in Nat /\ event.attempts \in Nat
      /\ \A copy \in tick[t].todo : copy.id \in DOMAIN outbox
  BY TickTyped
<1>3. outbox[event.id] \in OutboxEvent
  BY <1>2, EventsTyped DEF Inv
<1>4. OutboxMoves
  <2>1. row \in OutboxEvent /\ MayBecome(event.id, row)
    BY <1>3 DEF OutboxEvent, OutboxEventStatus, MayBecome
  <2>2. outbox' = [outbox EXCEPT ![event.id] = row]
    BY <1>1
  <2> HIDE DEF row
  <2> QED
    BY <1>2, <2>1, <2>2 DEF OutboxMoves
<1>5. TicksMove
  <2>1. tick \in [Ticks -> TickState] /\ tick[t] \in TickState
    BY DEF Inv, TypeOK
  <2>2. tick[t].hcmId = 0
    BY <1>1 DEF Inv, IdsBelong, Reached, Working
  <2>3. /\ new \in TickState /\ new.stage = "claimed" /\ new.hcmId = 0
        /\ new.event = event.id /\ new.todo \subseteq tick[t].todo
    BY <1>2, <2>1, <2>2 DEF TickState
  <2>4. tick' = [tick EXCEPT ![t] = new]
    BY <1>1, <2>1
  <2> HIDE DEF new
  <2>5. tick'[t] = new => TickMoves(t)
    BY <1>2, <2>3 DEF TickMoves
  <2> QED
    BY <1>2, <2>3, <2>4, <2>5, OneTickMoves
<1>6. StatusMoves /\ IdMoves /\ BalanceMoves
  BY DEF Claim, requestRows, StatusMoves, IdMoves, BalanceMoves, Inv, TypeOK
<1> QED
  BY <1>4, <1>5, <1>6, HandlersStay, LateStays, HcmStays DEF Claim, Moves

LEMMA SkipMoves ==
  ASSUME Inv, NEW t \in Ticks, Skip(t), UNCHANGED handler
  PROVE  Moves
<1>1. PICK event \in tick[t].todo : NextRound(t, tick[t].todo \ {event})
  BY DEF Skip
<1>2. TicksMove
  BY <1>1, TickTyped, NextRoundMoves
<1> QED
  BY <1>2, StoreStays, HandlersStay, LateStays, HcmStays DEF Skip, Moves

LEMMA SendMoves ==
  ASSUME Inv, NEW t \in Ticks, Send(t), UNCHANGED handler
  PROVE  Moves
<1> DEFINE id == hcmRequestId[Claimed(t).request]
<1>1. Working(t)
  BY DEF Send, Working
<1>2. id \in Nat
  BY <1>1, TickTyped DEF Inv, TypeOK
<1>3. TicksMove
  <2>1. CASE Claimed(t).type = "HCM_DEDUCT" /\ Goto(t, "waiting")
    BY <1>1, <2>1, GotoKeepsId DEF MayGo
  <2>2. CASE /\ Claimed(t).type = "HCM_REVERSE" /\ id # 0
             /\ tick' = [tick EXCEPT ![t].stage = "waiting", ![t].hcmId = id]
    <3>1. MayGo(t, "waiting", id)
      BY <2>2 DEF MayGo
    <3> QED
      BY <1>1, <1>2, <2>2, <3>1, GotoMoves
  <2>3. CASE Goto(t, "failed")
    BY <1>1, <2>3, GotoFailed
  <2> QED
    BY <2>1, <2>2, <2>3 DEF Send, NoIdYet
<1> QED
  BY <1>3, StoreStays, HandlersStay, LateStays, HcmStays DEF Send, Moves

\* The HCM serves the call of a tick, which learns of it or does not.
LEMMA AnswersMove ==
  ASSUME Inv, NEW t \in Ticks, HcmAnswers(t) \/ HcmAnswerLost(t), UNCHANGED handler
  PROVE  Moves
<1>1. /\ tick[t].stage = "waiting" /\ Working(t)
      /\ HcmServes(CallOf(t))
      /\ UNCHANGED <<storeVars, late>>
  BY DEF HcmAnswers, HcmAnswerLost, Working
<1>2. HcmMoves
  BY <1>1, CallsOfTicks, ServeMoves
<1>3. TicksMove
  <2>1. CASE HcmAnswerLost(t)
    BY <1>1, <2>1, GotoFailed DEF HcmAnswerLost
  <2>2. ASSUME Claimed(t).type = "HCM_DEDUCT",
               NEW d \in deductions', d.key = tick[t].event,
               tick' = [tick EXCEPT ![t].stage = "answered", ![t].hcmId = d.id]
        PROVE  TicksMove
    <3>1. d.id \in Nat
      BY <1>2 DEF HcmMoves, HP!HcmInv, HP!HcmTypeOK
    <3>2. MayGo(t, "answered", d.id)
      BY <2>2 DEF MayGo
    <3> QED
      BY <1>1, <2>2, <3>1, <3>2, GotoMoves
  <2>3. CASE Claimed(t).type = "HCM_REVERSE" /\ Goto(t, "answered")
    BY <1>1, <2>3, GotoKeepsId DEF MayGo
  <2> QED
    BY <2>1, <2>2, <2>3 DEF HcmAnswers
<1> QED
  BY <1>1, <1>2, <1>3, StoreStays, HandlersStay, LateStays DEF Moves

\* No answer is waited for any longer; the call may still be under way.
LEMMA NoAnswerMoves ==
  ASSUME Inv, NEW t \in Ticks, HcmRefuses(t) \/ HcmTimesOut(t), UNCHANGED handler
  PROVE  Moves
<1>1. /\ tick[t].stage = "waiting" /\ Working(t)
      /\ Goto(t, "failed")
      /\ UNCHANGED <<storeVars, hcmVars>>
  BY DEF HcmRefuses, HcmTimesOut, HcmErrorThrown, Working
<1>2. LateMoves
  <2>1. CASE HcmRefuses(t)
    BY <2>1, LateStays DEF HcmRefuses
  <2>2. CASE HcmTimesOut(t)
    <3>1. IsABag(late)
      BY DEF Inv, TypeOK
    <3>2. late' = late (+) SetToBag({CallOf(t)})
      BY <2>2 DEF HcmTimesOut
    <3>3. IsABag(late') /\ BagToSet(late') = BagToSet(late) \cup {CallOf(t)}
      BY <3>1, <3>2 DEF IsABag, BagToSet, SetToBag, (+)
    <3> QED
      BY <1>1, <3>3 DEF LateMoves
  <2> QED
    BY <2>1, <2>2
<1> QED
  BY <1>1, <1>2, GotoFailed, StoreStays, HandlersStay, HcmStays DEF Moves

\* The tick's next round goes on with what it has not reached yet.
LEMMA RoundIsOver ==
  ASSUME Inv, NEW t \in Ticks, NextRound(t, tick[t].todo)
  PROVE  TicksMove
BY TickTyped, NextRoundMoves

LEMMA DoneMoves ==
  ASSUME Inv, NEW t \in Ticks, Working(t), MarkDone(t),
         hcmRequestId'[Claimed(t).request] # 0,
         Claimed(t).type = "HCM_DEDUCT" =>
           status'[Claimed(t).request] \in {"APPROVED", "CANCELLED"}
  PROVE  OutboxMoves
<1> DEFINE e == tick[t].event
           row == [outbox[e] EXCEPT !.status = "DONE"]
<1>1. e \in DOMAIN outbox /\ Claimed(t) = outbox[e]
  BY TickTyped
<1>2. outbox[e] \in OutboxEvent
  BY <1>1, EventsTyped DEF Inv
<1>3. row \in OutboxEvent /\ MayBecome(e, row)
  BY <1>1, <1>2 DEF OutboxEvent, OutboxEventStatus, MayBecome
<1>4. outbox' = [outbox EXCEPT ![e] = row]
  BY DEF MarkDone
<1> HIDE DEF row, e
<1> QED
  BY <1>1, <1>3, <1>4 DEF OutboxMoves

LEMMA CompleteReverseMoves ==
  ASSUME Inv, NEW t \in Ticks, CompleteReverse(t), UNCHANGED handler
  PROVE  Moves
<1>1. /\ Claimed(t).type = "HCM_REVERSE" /\ Working(t)
      /\ hcmRequestId[Claimed(t).request] # 0
      /\ UNCHANGED <<balance, requestRows>>
  BY DEF CompleteReverse, Working, Inv, AnswersAreTrue
<1>2. OutboxMoves
  BY <1>1, DoneMoves DEF CompleteReverse, requestRows
<1>3. StatusMoves /\ IdMoves /\ BalanceMoves
  BY <1>1 DEF requestRows, StatusMoves, IdMoves, BalanceMoves, Inv, TypeOK
<1> QED
  BY <1>2, <1>3, RoundIsOver, HandlersStay, LateStays, HcmStays DEF CompleteReverse, Moves

LEMMA CompleteDeductMoves ==
  ASSUME Inv, NEW t \in Ticks, CompleteDeduct(t), UNCHANGED handler
  PROVE  Moves
<1> DEFINE r == Claimed(t).request
<1>1. /\ tick[t].stage = "answered" /\ Working(t)
      /\ Claimed(t).type = "HCM_DEDUCT"
      /\ MarkDone(t)
      /\ NextRound(t, tick[t].todo)
      /\ UNCHANGED <<late, hcmVars>>
  BY DEF CompleteDeduct, Working
<1>2. r \in Requests /\ TypeOK /\ tick[t].hcmId # 0
  BY <1>1, TickTyped DEF Inv, AnswersAreTrue
<1>3. /\ StatusMoves /\ IdMoves /\ BalanceMoves
      /\ hcmRequestId'[r] # 0 /\ status'[r] \in {"APPROVED", "CANCELLED"}
  <2>1. LearnId(t, r) => hcmRequestId'[r] # 0
    BY <1>2 DEF LearnId, TypeOK
  <2>2. CASE status[r] = "APPROVED" /\ UNCHANGED <<balance, requestRows>>
    <3>1. hcmRequestId[r] # 0
      <4>1. PICK d \in deductions : d.id = hcmRequestId[r]
        BY <1>2, <2>2 DEF Inv, ApprovedHoldsDeduction, DeductionsFor
      <4>2. d.id \in 1..MaxRequestId
        BY DEF Inv, HP!HcmInv, HP!HcmTypeOK
      <4> QED
        BY <4>1, <4>2
    <3> QED
      BY <1>2, <2>2, <3>1 DEF requestRows, StatusMoves, IdMoves, BalanceMoves, TypeOK
  <2>3. CASE /\ status[r] = "CANCELLED"
             /\ LearnId(t, r)
             /\ UNCHANGED <<balance, status, version>>
    BY <1>1, <1>2, <2>1, <2>3 DEF StatusMoves, IdMoves, BalanceMoves, TypeOK
  <2>4. CASE /\ TransitionRequest(r, "APPROVED", version[r])
             /\ LearnId(t, r)
             /\ ConfirmDeduction(r)
    <3>1. status' = [status EXCEPT ![r] = "APPROVED"]
      BY <2>4 DEF TransitionRequest
    <3>2. status'[r] = "APPROVED"
      BY <1>2, <3>1 DEF TypeOK
    <3>3. StatusMoves /\ IdMoves
      BY <1>1, <1>2, <2>4 DEF StatusMoves, ComesWith, IdMoves, RequestStatus
    <3> QED
      BY <1>2, <2>1, <2>4, <3>2, <3>3, BalanceTyped
  <2> QED
    BY <2>2, <2>3, <2>4 DEF CompleteDeduct
<1>4. OutboxMoves
  BY <1>1, <1>3, DoneMoves
<1> QED
  BY <1>1, <1>3, <1>4, RoundIsOver, HandlersStay, LateStays, HcmStays DEF Moves

LEMMA WriteFailsMoves ==
  ASSUME Inv, NEW t \in Ticks, LocalWriteFails(t), UNCHANGED handler
  PROVE  Moves
<1>1. Working(t)
  BY DEF LocalWriteFails, Working
<1>2. TicksMove
  BY <1>1, GotoFailed DEF LocalWriteFails
<1> QED
  BY <1>2, StoreStays, HandlersStay, LateStays, HcmStays DEF LocalWriteFails, Moves

LEMMA RetryMoves ==
  ASSUME Inv, NEW t \in Ticks, RetryLater(t), UNCHANGED handler
  PROVE  Moves
<1> DEFINE e == tick[t].event
           attempts == tick[t].attempts + 1
           row == [outbox[e] EXCEPT !.status = "PENDING", !.attempts = attempts, !.due = FALSE]
<1>1. Working(t)
  BY DEF RetryLater, Working
<1>2. e \in DOMAIN outbox /\ outbox[e] \in OutboxEvent /\ attempts \in Nat
  BY <1>1, TickTyped, EventsTyped DEF Inv
<1>3. row \in OutboxEvent /\ MayBecome(e, row)
  BY <1>2 DEF OutboxEvent, OutboxEventStatus, MayBecome
<1>4. outbox' = [outbox EXCEPT ![e] = row]
  BY DEF RetryLater, NewAttempts
<1> HIDE DEF row, e
<1>5. OutboxMoves
  BY <1>2, <1>3, <1>4 DEF OutboxMoves
<1>6. StatusMoves /\ IdMoves /\ BalanceMoves
  BY DEF RetryLater, requestRows, StatusMoves, IdMoves, BalanceMoves, Inv, TypeOK
<1> QED
  BY <1>5, <1>6, RoundIsOver, HandlersStay, LateStays, HcmStays DEF RetryLater, Moves

LEMMA GiveUpMoves ==
  ASSUME Inv, NEW t \in Ticks, GiveUp(t), UNCHANGED handler
  PROVE  Moves
<1> DEFINE e == tick[t].event
           r == Claimed(t).request
           attempts == tick[t].attempts + 1
           row == [outbox[e] EXCEPT !.status = "FAILED", !.attempts = attempts]
<1>1. Working(t)
  BY DEF GiveUp, Working
<1>2. /\ e \in DOMAIN outbox /\ outbox[e] \in OutboxEvent
      /\ Claimed(t) = outbox[e]
      /\ r \in Requests /\ RequestOf(e) = r
      /\ attempts \in Nat
  BY <1>1, TickTyped, EventsTyped DEF Inv
<1>3. outbox' = [outbox EXCEPT ![e] = row]
  BY DEF GiveUp, NewAttempts
<1>4. row.status = "FAILED"
  BY <1>2 DEF OutboxEvent
<1>5. StatusMoves /\ status'[r] # "APPROVED_PENDING_HCM"
  <2>1. CASE RequestFails(t) /\ TransitionRequest(r, "FAILED", version[r])
    <3>1. Claimed(t).type = "HCM_DEDUCT" /\ status' = [status EXCEPT ![r] = "FAILED"]
      BY <2>1 DEF RequestFails, TransitionRequest
    <3>2. outbox'[e].status = "FAILED"
      BY <1>2, <1>3, <1>4
    <3>3. status'[r] = "FAILED"
      BY <1>2, <3>1 DEF Inv, TypeOK
    <3>4. ComesWith(r, "FAILED")
      BY <1>2, <3>1, <3>2 DEF ComesWith
    <3> QED
      BY <1>2, <2>1, <3>3, <3>4 DEF StatusMoves, RequestStatus
  <2>2. CASE ~RequestFails(t) /\ UNCHANGED <<status, version>>
    <3>1. CASE Claimed(t).type = "HCM_DEDUCT"
      BY <2>2, <3>1 DEF RequestFails, StatusMoves
    <3>2. CASE Claimed(t).type # "HCM_DEDUCT"
      BY <1>2, <2>2, <3>2 DEF Inv, EventsFollowRequests, StatusMoves
    <3> QED
      BY <3>1, <3>2
  <2> QED
    BY <2>1, <2>2 DEF GiveUp
<1>6. row \in OutboxEvent /\ MayBecome(e, row)
  BY <1>2, <1>5 DEF OutboxEvent, OutboxEventStatus, MayBecome
<1> HIDE DEF row, e
<1>7. OutboxMoves
  BY <1>2, <1>3, <1>6 DEF OutboxMoves
<1>8. IdMoves /\ BalanceMoves
  BY DEF GiveUp, IdMoves, BalanceMoves, Inv, TypeOK
<1> QED
  BY <1>5, <1>7, <1>8, RoundIsOver, HandlersStay, LateStays, HcmStays DEF GiveUp, Moves

LEMMA DueMoves ==
  ASSUME Inv, NEW e \in DOMAIN outbox, BecomeDue(e), UNCHANGED handler
  PROVE  Moves
<1> DEFINE new == [outbox[e] EXCEPT !.due = TRUE]
<1>1. outbox[e] \in OutboxEvent
  BY EventsTyped DEF Inv
<1>2. new \in OutboxEvent /\ MayBecome(e, new)
  BY <1>1 DEF OutboxEvent, MayBecome
<1>3. outbox' = [outbox EXCEPT ![e] = new]
  BY DEF BecomeDue
<1> HIDE DEF new
<1>4. OutboxMoves
  BY <1>2, <1>3 DEF OutboxMoves
<1>5. StatusMoves /\ IdMoves /\ BalanceMoves
  BY DEF BecomeDue, requestRows, StatusMoves, IdMoves, BalanceMoves, Inv, TypeOK
<1> QED
  BY <1>4, <1>5, ApiStays, HandlersStay DEF BecomeDue, Moves

LEMMA LateDeliveryMoves ==
  ASSUME Inv, NEW call \in BagToSet(late), DeliverLate(call), UNCHANGED handler
  PROVE  Moves
<1>1. call \in Call /\ IsProper(call) /\ IsABag(late)
  BY DEF Inv, TypeOK, LateCallsAreProper
<1>2. HcmMoves
  BY <1>1, ServeMoves DEF DeliverLate
<1>3. late' = late (-) SetToBag({call})
  BY DEF DeliverLate
<1>4. IsABag(late') /\ BagToSet(late') \subseteq BagToSet(late)
  BY <1>1, <1>3 DEF IsABag, BagToSet, SetToBag, (-)
<1>5. LateMoves
  BY <1>4 DEF LateMoves
<1>6. TicksMove
  BY DEF DeliverLate, TicksMove, TickMoves, Inv, TypeOK, References
<1> QED
  BY <1>2, <1>5, <1>6, StoreStays, HandlersStay DEF DeliverLate, Moves

LEMMA CrashMoves ==
  ASSUME Inv, Crash
  PROVE  Moves
<1>1. PICK sent \in SUBSET {t \in Ticks : tick[t].stage = "waiting"} :
        late' = late (+) SetToBag({CallOf(t) : t \in sent})
  BY DEF Crash
<1>2. LateMoves
  <2> DEFINE calls == {CallOf(t) : t \in sent}
  <2>1. IsABag(late) /\ late' = late (+) SetToBag(calls)
    BY <1>1 DEF Inv, TypeOK
  <2>2. \A call \in calls : \E t \in Ticks : tick[t].stage = "waiting" /\ call = CallOf(t)
    BY <1>1
  <2> HIDE DEF calls
  <2>3. IsABag(late') /\ BagToSet(late') = BagToSet(late) \cup calls
    BY <2>1 DEF IsABag, BagToSet, SetToBag, (+)
  <2> QED
    BY <2>2, <2>3 DEF LateMoves
<1>3. HandlersMove
  BY DEF Crash, HandlersMove, HandlerState
<1>4. TicksMove
  BY DEF Crash, TicksMove, TickMoves, IdleTick, TickState
<1> QED
  BY <1>2, <1>3, <1>4, StoreStays, HcmStays DEF Crash, Moves

LEMMA TickAborts ==
  ASSUME Inv, NEW t \in Ticks, AbortTick(t)
  PROVE  Moves
BY AbortMoves, StoreStays, HandlersStay, LateStays, HcmStays DEF AbortTick, Moves

\* Every step of the service is made of such moves.
LEMMA NextMoves ==
  ASSUME Inv, Next
  PROVE  Moves
<1>1. ASSUME NEW t \in Ticks, TickStep(t), UNCHANGED handler
      PROVE  Moves
  BY <1>1, PollMoves, ClaimMoves, SkipMoves, SendMoves, AnswersMove, NoAnswerMoves,
     CompleteDeductMoves, CompleteReverseMoves, WriteFailsMoves, RetryMoves, GiveUpMoves
  DEF TickStep
<1>2. CASE ProcessorNext /\ UNCHANGED handler
  BY <1>1, <1>2, DueMoves, LateDeliveryMoves DEF ProcessorNext
<1>3. CASE ApiNext /\ UNCHANGED processorVars
  BY <1>3, ApiMoves
<1> QED
  BY <1>2, <1>3, TickAborts, CrashMoves DEF Next, Serve

-----------------------------------------------------------------------------
(***************************************************************************)
(* What stays true of events and requests                                  *)
(***************************************************************************)

\* Events are never deleted, nor given to another request.
EventsStay ==
  /\ outbox' \in Seq(OutboxEvent)
  /\ DOMAIN outbox \subseteq DOMAIN outbox'
  /\ \A e \in DOMAIN outbox :
       outbox'[e].type = outbox[e].type /\ outbox'[e].request = outbox[e].request

\* A row that is new, at the end.
LEMMA Enqueued ==
  ASSUME TypeOK, NEW type \in OutboxEventType, NEW r \in Requests, Enqueue(type, r)
  PROVE  \E e \in Nat :
           /\ e \notin DOMAIN outbox
           /\ outbox' \in Seq(OutboxEvent)
           /\ DOMAIN outbox' = DOMAIN outbox \cup {e}
           /\ \A f \in DOMAIN outbox : outbox'[f] = outbox[f]
           /\ outbox'[e] = NewEvent(type, r)
<1>1. outbox \in Seq(OutboxEvent) /\ Len(outbox) \in Nat /\ DOMAIN outbox = 1..Len(outbox)
  BY DEF TypeOK
<1>2. NewEvent(type, r) \in OutboxEvent
  BY DEF NewEvent, OutboxEvent, OutboxEventStatus
<1> DEFINE new == NewEvent(type, r)
           e == Len(outbox) + 1
<1>3. outbox' = Append(outbox, new)
  BY DEF Enqueue
<1> HIDE DEF new
<1>4. /\ outbox' \in Seq(OutboxEvent)
      /\ Len(outbox') = e
      /\ \A f \in 1..Len(outbox) : outbox'[f] = outbox[f]
      /\ outbox'[e] = new
  BY <1>1, <1>2, <1>3, AppendProperties DEF new
<1>5. DOMAIN outbox' = 1..Len(outbox')
  BY <1>4
<1>6. e \in Nat /\ e \notin DOMAIN outbox /\ DOMAIN outbox' = DOMAIN outbox \cup {e}
  BY <1>1, <1>4, <1>5
<1> QED
  BY <1>1, <1>4, <1>6 DEF new

LEMMA OutboxKeeps ==
  ASSUME Inv, OutboxMoves
  PROVE  EventsStay
<1>1. TypeOK /\ outbox \in Seq(OutboxEvent)
  BY DEF Inv, TypeOK
<1>2. CASE UNCHANGED outbox
  BY <1>1, <1>2 DEF EventsStay
<1>3. ASSUME NEW e \in DOMAIN outbox, NEW row \in OutboxEvent, MayBecome(e, row),
             outbox' = [outbox EXCEPT ![e] = row]
      PROVE  EventsStay
  <2>1. e \in 1..Len(outbox)
    BY <1>1
  <2>2. [outbox EXCEPT ![e] = row] \in Seq(OutboxEvent)
    BY <1>1, <2>1, ExceptSeq
  <2>3. DOMAIN outbox' = DOMAIN outbox
    BY <1>3
  <2>4. \A f \in DOMAIN outbox : outbox'[f] = IF f = e THEN row ELSE outbox[f]
    BY <1>3
  <2> QED
    BY <1>3, <2>2, <2>3, <2>4 DEF EventsStay, MayBecome
<1>4. ASSUME NEW type \in OutboxEventType, NEW r \in Requests, Enqueue(type, r)
      PROVE  EventsStay
  BY <1>1, <1>4, Enqueued DEF EventsStay
<1> QED
  BY <1>2, <1>3, <1>4 DEF OutboxMoves, OutboxEventType

\* A decided request stays decided, a row stays, and its version tells whether
\* its status has changed.
RequestsProgress ==
  /\ status' \in [Requests -> RequestStatus \cup {Absent}]
  /\ version' \in [Requests -> Nat]
  /\ \A r \in Requests :
       /\ status[r] \in {"APPROVED", "CANCELLED"} => status'[r] = status[r]
       /\ status[r] \in {"APPROVED_PENDING_HCM", "FAILED"} =>
            status'[r] \in {"APPROVED_PENDING_HCM", "APPROVED", "FAILED", "CANCELLED"}
       /\ status[r] # Absent =>
            /\ status'[r] # Absent
            /\ version[r] <= version'[r]
            /\ version'[r] = version[r] => status'[r] = status[r]

LEMMA StatusKeeps ==
  ASSUME Inv, StatusMoves
  PROVE  RequestsProgress
<1>1. /\ TypeOK
      /\ status \in [Requests -> RequestStatus \cup {Absent}]
      /\ version \in [Requests -> Nat]
  BY DEF Inv, TypeOK
<1>2. CASE UNCHANGED <<status, version>>
  BY <1>1, <1>2 DEF RequestsProgress
<1>3. ASSUME NEW r \in Requests, status[r] = Absent,
             status' = [status EXCEPT ![r] = "PENDING"], UNCHANGED version
      PROVE  RequestsProgress
  BY <1>1, <1>3 DEF RequestsProgress, RequestStatus, Absent
<1>4. ASSUME NEW r \in Requests, NEW to \in RequestStatus,
             TransitionRequest(r, to, version[r])
      PROVE  RequestsProgress
  <2>1. /\ status' = [status EXCEPT ![r] = to]
        /\ version' = [version EXCEPT ![r] = @ + 1]
        /\ \/ /\ status[r] = "PENDING"
              /\ to \in {"APPROVED_PENDING_HCM", "REJECTED", "CANCELLED"}
           \/ /\ status[r] = "APPROVED_PENDING_HCM"
              /\ to \in {"APPROVED", "FAILED", "CANCELLED"}
           \/ status[r] = "FAILED" /\ to = "APPROVED"
    BY <1>1, <1>4, Transitions
  <2>2. status' \in [Requests -> RequestStatus \cup {Absent}] /\ version' \in [Requests -> Nat]
    BY <1>1, <2>1
  <2>3. \A q \in Requests :
          /\ status'[q] = IF q = r THEN to ELSE status[q]
          /\ version'[q] = IF q = r THEN version[q] + 1 ELSE version[q]
          /\ version[q] \in Nat
    BY <1>1, <2>1
  <2> QED
    BY <2>1, <2>2, <2>3 DEF RequestsProgress, Absent
<1> QED
  BY <1>2, <1>3, <1>4 DEF StatusMoves

\* An id, once learnt, may only be replaced by another.
LEMMA IdsStay ==
  ASSUME Inv, IdMoves
  PROVE  /\ hcmRequestId' \in [Requests -> Nat]
         /\ \A r \in Requests : hcmRequestId[r] # 0 => hcmRequestId'[r] # 0
<1>1. hcmRequestId \in [Requests -> Nat]
  BY DEF Inv, TypeOK
<1>2. CASE UNCHANGED hcmRequestId
  BY <1>1, <1>2
<1>3. ASSUME NEW t \in Ticks, tick[t].stage = "answered", Claimed(t).type = "HCM_DEDUCT",
             LearnId(t, Claimed(t).request)
      PROVE  /\ hcmRequestId' \in [Requests -> Nat]
             /\ \A r \in Requests : hcmRequestId[r] # 0 => hcmRequestId'[r] # 0
  <2>1. tick[t].hcmId # 0
    BY <1>3 DEF Inv, AnswersAreTrue
  <2>2. tick[t].hcmId \in Nat
    BY TickTyped
  <2> QED
    BY <1>1, <1>3, <2>1, <2>2 DEF LearnId
<1> QED
  BY <1>2, <1>3 DEF IdMoves

-----------------------------------------------------------------------------
(***************************************************************************)
(* Each part of the invariant after a step                                 *)
(***************************************************************************)

\* What the step lemmas say together.
Steps ==
  /\ Moves
  /\ EventsStay
  /\ RequestsProgress
  /\ hcmRequestId' \in [Requests -> Nat]
  /\ \A r \in Requests : hcmRequestId[r] # 0 => hcmRequestId'[r] # 0

LEMMA NextSteps ==
  ASSUME Inv, Next
  PROVE  Steps
BY NextMoves, OutboxKeeps, StatusKeeps, IdsStay DEF Moves, Steps

LEMMA StepTypeOK ==
  ASSUME Inv, Next, Steps
  PROVE  TypeOK'
<1>1. Hcm!HcmTypeOK'
  BY DEF Steps, Moves, HcmMoves, HP!HcmInv, HP!HcmTypeOK, Hcm!HcmTypeOK
<1>2. IsABag(late') /\ BagToSet(late') \subseteq Call
  BY CallsOfTicks DEF Steps, Moves, LateMoves, Inv, TypeOK
<1>3. faults' \in 0..MaxFaults
  <2>1. faults \in 0..MaxFaults /\ MaxFaults \in Nat
    BY ServiceAssumption DEF Inv, TypeOK
  <2>2. \/ faults' = faults
        \/ faults < MaxFaults /\ faults' = faults + 1
    BY DEF Next, Serve, AbortTick, Crash
  <2> QED
    BY <2>1, <2>2
<1> QED
  BY <1>1, <1>2, <1>3
  DEF TypeOK, Steps, Moves, EventsStay, RequestsProgress, HandlersMove, TicksMove, BalanceMoves

LEMMA StepReferences ==
  ASSUME Inv, Steps
  PROVE  References'
<1>1. /\ DOMAIN outbox \subseteq DOMAIN outbox'
      /\ \A e : IsDeduct(e) => IsDeduct(e)'
  BY DEF Steps, EventsStay, IsDeduct
<1>2. ASSUME NEW t \in Ticks, Working(t)'
      PROVE  tick'[t].event \in DOMAIN outbox
  <2>1. TickMoves(t)
    BY DEF Steps, Moves, TicksMove
  <2> QED
    BY <1>2, <2>1, TickTyped DEF TickMoves, Working
<1>3. \A t \in Ticks : \A copy \in tick'[t].todo : copy.id \in DOMAIN outbox
  BY DEF Steps, Moves, TicksMove
<1>4. ASSUME NEW h \in Handlers, handler'[h].op = "retry"
      PROVE  handler'[h].event \in DOMAIN outbox
  BY <1>4 DEF Steps, Moves, HandlersMove, Inv, References, Idle, Decisions
<1>5. \A d \in deductions' : IsDeduct(d.key)
  BY DEF Steps, Moves, HcmMoves, Inv, References
<1>6. \A x \in requestIndex' : IsDeduct(x.key)
  BY DEF Steps, Moves, HcmMoves, Inv, References
<1> QED
  BY <1>1, <1>2, <1>3, <1>4, <1>5, <1>6 DEF References

LEMMA StepCharges ==
  ASSUME Inv, Steps
  PROVE  ChargesAreRight'
<1>1. \A d \in deductions' :
        /\ IsDeduct(d.key)
        /\ d.account = BalanceOf[RequestOf(d.key)]
        /\ d.days = Days[RequestOf(d.key)]
  BY DEF Steps, Moves, HcmMoves, Inv, References, ChargesAreRight
<1>2. \A e \in DOMAIN outbox : RequestOf(e)' = RequestOf(e)
  BY DEF Steps, EventsStay, RequestOf
<1> QED
  BY <1>1, <1>2 DEF ChargesAreRight, IsDeduct

LEMMA StepCopies ==
  ASSUME Inv, Steps
  PROVE  CopiesAreVersioned'
<1> SUFFICES ASSUME NEW h \in Handlers, handler'[h].op \in DOMAIN Decisions
             PROVE  LET r == handler'[h].request
                    IN  /\ status'[r] # Absent
                        /\ handler'[h].version <= version'[r]
                        /\ handler'[h].version = version'[r] => handler'[h].status = status'[r]
  BY DEF CopiesAreVersioned
<1>1. /\ status \in [Requests -> RequestStatus \cup {Absent}]
      /\ version \in [Requests -> Nat] /\ version' \in [Requests -> Nat]
      /\ handler[h] \in HandlerState
  BY DEF Inv, TypeOK, Steps, RequestsProgress
<1>2. CASE handler'[h] = handler[h]
  <2> DEFINE r == handler[h].request
  <2>1. r \in Requests /\ handler[h].version \in Nat
    BY <1>1, <1>2 DEF HandlerState, Idle, Decisions
  <2>2. /\ status[r] # Absent
        /\ handler[h].version <= version[r]
        /\ handler[h].version = version[r] => handler[h].status = status[r]
    BY <1>2 DEF Inv, CopiesAreVersioned
  <2>3. /\ status'[r] # Absent
        /\ version[r] <= version'[r]
        /\ version'[r] = version[r] => status'[r] = status[r]
    BY <2>1, <2>2 DEF Steps, RequestsProgress
  <2> HIDE DEF r
  <2>4. version[r] \in Nat /\ version'[r] \in Nat
    BY <1>1, <2>1
  <2> QED
    BY <1>2, <2>1, <2>2, <2>3, <2>4 DEF r
<1>3. ASSUME NEW op \in DOMAIN Decisions, NEW r \in Requests,
             status[r] # Absent, UNCHANGED <<status, version>>,
             handler'[h] =
               [op |-> op, request |-> r, status |-> status[r], version |-> version[r]]
      PROVE  LET q == handler'[h].request
             IN  /\ status'[q] # Absent
                 /\ handler'[h].version <= version'[q]
                 /\ handler'[h].version = version'[q] => handler'[h].status = status'[q]
  BY <1>1, <1>3
<1> QED
  BY <1>2, <1>3 DEF Steps, Moves, HandlersMove, Idle, Decisions

\* A second event of a type would need a second transition from the same status.
LEMMA StepEvents ==
  ASSUME Inv, Steps
  PROVE  EventsFollowRequests'
<1>1. /\ DOMAIN outbox \subseteq DOMAIN outbox'
      /\ \A e \in DOMAIN outbox :
           /\ outbox'[e].type = outbox[e].type
           /\ outbox'[e].request = outbox[e].request
           /\ outbox[e].request \in Requests
  BY EventsTyped DEF Steps, EventsStay, Inv, RequestOf
<1>2. \A e \in DOMAIN outbox :
        \/ /\ outbox[e].type = "HCM_DEDUCT"
           /\ status[outbox[e].request] \in
                {"APPROVED_PENDING_HCM", "APPROVED", "FAILED", "CANCELLED"}
           /\ status'[outbox[e].request] \in
                {"APPROVED_PENDING_HCM", "APPROVED", "FAILED", "CANCELLED"}
        \/ /\ outbox[e].type = "HCM_REVERSE"
           /\ status[outbox[e].request] = "CANCELLED"
           /\ status'[outbox[e].request] = "CANCELLED"
  BY <1>1 DEF Inv, EventsFollowRequests, RequestOf, Steps, RequestsProgress
<1>3. \A e, f \in DOMAIN outbox :
        outbox[e].type = outbox[f].type /\ outbox[e].request = outbox[f].request => e = f
  BY DEF Inv, EventsFollowRequests, RequestOf
<1>4. CASE DOMAIN outbox' = DOMAIN outbox
  BY <1>1, <1>2, <1>3, <1>4 DEF EventsFollowRequests, RequestOf
<1>5. ASSUME NEW type \in OutboxEventType, NEW r \in Requests, NEW to,
             Enqueue(type, r),
             status' = [status EXCEPT ![r] = to],
             \/ type = "HCM_DEDUCT" /\ status[r] = "PENDING" /\ to = "APPROVED_PENDING_HCM"
             \/ type = "HCM_REVERSE" /\ status[r] = "APPROVED_PENDING_HCM" /\ to = "CANCELLED"
      PROVE  EventsFollowRequests'
  <2>1. PICK n \in Nat :
          /\ n \notin DOMAIN outbox
          /\ DOMAIN outbox' = DOMAIN outbox \cup {n}
          /\ outbox'[n] = NewEvent(type, r)
    BY <1>5, Enqueued DEF Inv
  <2>2. outbox'[n].type = type /\ outbox'[n].request = r /\ status'[r] = to
    BY <1>5, <2>1 DEF NewEvent, Inv, TypeOK
  <2>3. \A e \in DOMAIN outbox : ~(outbox[e].type = type /\ outbox[e].request = r)
    BY <1>2, <1>5
  <2>4. \A e, f \in DOMAIN outbox' :
          outbox'[e].type = outbox'[f].type /\ outbox'[e].request = outbox'[f].request => e = f
    BY <1>1, <1>3, <2>1, <2>2, <2>3
  <2>5. \A e \in DOMAIN outbox' :
          \/ /\ outbox'[e].type = "HCM_DEDUCT"
             /\ status'[outbox'[e].request] \in
                  {"APPROVED_PENDING_HCM", "APPROVED", "FAILED", "CANCELLED"}
          \/ /\ outbox'[e].type = "HCM_REVERSE"
             /\ status'[outbox'[e].request] = "CANCELLED"
    BY <1>1, <1>2, <1>5, <2>1, <2>2
  <2> QED
    BY <2>4, <2>5 DEF EventsFollowRequests, RequestOf
<1> QED
  BY <1>4, <1>5 DEF Steps, Moves, OutboxMoves, OutboxEventType

\* New ids are larger than any that is kept, and an id is only passed on between
\* an answer, a tick and a row of the same request.
LEMMA StepIds ==
  ASSUME Inv, Steps, References'
  PROVE  IdsBelong'
<1>1. /\ requestCounter \in Nat /\ requestCounter' \in Nat
      /\ requestCounter <= requestCounter'
      /\ \A x \in requestIndex' :
           /\ x.id \in Nat \ {0}
           /\ IsDeduct(x.key)
           /\ x \in requestIndex \/ requestCounter < x.id
  BY DEF Steps, Moves, HcmMoves, Inv, HP!HcmInv, HP!HcmTypeOK, References
<1>2. \A e \in DOMAIN outbox : RequestOf(e)' = RequestOf(e)
  BY DEF Steps, EventsStay, RequestOf
<1> DEFINE Owned(id, r) ==
             /\ id <= requestCounter'
             /\ \A x \in requestIndex' : x.id = id => RequestOf(x.key) = r
<1>3. ASSUME NEW id \in Nat, NEW r, id <= requestCounter,
             \A x \in requestIndex : x.id = id => RequestOf(x.key) = r
      PROVE  Owned(id, r)
  BY <1>1, <1>3
<1>4. ASSUME NEW t \in Ticks, Working(t)
      PROVE  Owned(tick[t].hcmId, Claimed(t).request)
  <2>1. tick[t].hcmId \in Nat
    BY TickTyped
  <2>2. /\ tick[t].hcmId <= requestCounter
        /\ \A x \in requestIndex : x.id = tick[t].hcmId => RequestOf(x.key) = Claimed(t).request
    BY <1>4 DEF Inv, IdsBelong
  <2> HIDE DEF Owned
  <2> QED
    BY <1>3, <2>1, <2>2
<1>5. \A r \in Requests : Owned(hcmRequestId[r], r)
  BY <1>3 DEF Inv, IdsBelong, TypeOK
<1>6. \A r : Owned(0, r)
  BY <1>1
<1>7. ASSUME NEW d \in deductions'
      PROVE  Owned(d.id, RequestOf(d.key))
  <2>1. /\ [id |-> d.id, key |-> d.key] \in requestIndex'
        /\ \A x, y \in requestIndex' : x.id = y.id => x = y
        /\ \A x \in requestIndex' : x.id <= requestCounter'
    BY DEF Steps, Moves, HcmMoves, HP!HcmInv, HP!DeductionsAreReversible, HP!IdsWereGiven
  <2>2. \A x \in requestIndex' : x.id = d.id => x.key = d.key
    BY <2>1
  <2>3. d.id <= requestCounter'
    BY <2>1
  <2> QED
    BY <2>2, <2>3
<1> HIDE DEF Owned
<1>8. \A r \in Requests : Owned(hcmRequestId'[r], r)
  <2>1. CASE UNCHANGED hcmRequestId
    BY <1>5, <2>1
  <2>2. ASSUME NEW t \in Ticks, tick[t].stage = "answered", LearnId(t, Claimed(t).request)
        PROVE  \A r \in Requests : Owned(hcmRequestId'[r], r)
    <3>1. Working(t)
      BY <2>2 DEF Working
    <3>2. \A r \in Requests :
            hcmRequestId'[r] = IF r = Claimed(t).request THEN tick[t].hcmId ELSE hcmRequestId[r]
      BY <2>2 DEF LearnId, Inv, TypeOK
    <3> QED
      BY <1>4, <1>5, <3>1, <3>2
  <2> QED
    BY <2>1, <2>2 DEF Steps, Moves, IdMoves
<1>9. ASSUME NEW t \in Ticks
      PROVE  /\ ~Working(t)' => tick'[t].hcmId = 0
             /\ Working(t)' =>
                  /\ tick'[t].event \in DOMAIN outbox
                  /\ Owned(tick'[t].hcmId, RequestOf(tick'[t].event))
  <2>1. TickMoves(t)
    BY DEF Steps, Moves, TicksMove
  <2>2. Working(t) => /\ tick[t].event \in DOMAIN outbox
                      /\ Claimed(t).request = RequestOf(tick[t].event)
                      /\ Claimed(t).request \in Requests
    BY TickTyped
  <2>3. CASE tick'[t] = tick[t]
    BY <1>4, <2>2, <2>3 DEF Working, Inv, IdsBelong
  <2>4. CASE tick'[t].stage \in {"idle", "looping"} /\ tick'[t].hcmId = 0
    BY <2>4 DEF Working
  <2>5. CASE /\ tick'[t].stage = "claimed" /\ tick'[t].hcmId = 0
             /\ tick'[t].event \in DOMAIN outbox
    BY <1>6, <2>5 DEF Working
  <2>6. CASE Working(t) /\ tick'[t].event = tick[t].event /\ tick'[t].hcmId = tick[t].hcmId
             /\ tick'[t].stage \in {"failed", "waiting", "answered"}
    BY <1>4, <2>2, <2>6 DEF Working
  <2>7. CASE Working(t) /\ tick'[t].event = tick[t].event
             /\ tick'[t].stage = "waiting" /\ tick'[t].hcmId = hcmRequestId[Claimed(t).request]
    BY <1>5, <2>2, <2>7 DEF Working
  <2>8. ASSUME Working(t), tick'[t].event = tick[t].event, tick'[t].stage = "answered",
               NEW d \in deductions', d.key = tick[t].event, d.id = tick'[t].hcmId
        PROVE  /\ ~Working(t)' => tick'[t].hcmId = 0
               /\ Working(t)' =>
                    /\ tick'[t].event \in DOMAIN outbox
                    /\ Owned(tick'[t].hcmId, RequestOf(tick'[t].event))
    BY <1>7, <2>2, <2>8 DEF Working
  <2> QED
    BY <2>1, <2>3, <2>4, <2>5, <2>6, <2>7, <2>8 DEF TickMoves
<1>10. \A r \in Requests :
         /\ hcmRequestId'[r] <= requestCounter'
         /\ \A x \in requestIndex' : x.id = hcmRequestId'[r] => outbox'[x.key].request = r
  BY <1>1, <1>2, <1>8 DEF Owned, IsDeduct, RequestOf
<1>11. \A t \in Ticks :
         /\ ~Working(t)' => tick'[t].hcmId = 0
         /\ Working(t)' =>
              /\ tick'[t].hcmId <= requestCounter'
              /\ \A x \in requestIndex' :
                   x.id = tick'[t].hcmId => outbox'[x.key].request = Claimed(t)'.request
  BY <1>1, <1>2, <1>9 DEF Owned, IsDeduct, RequestOf, Claimed
<1> QED
  BY <1>10, <1>11 DEF IdsBelong, RequestOf

\* What is under way was asked by a tick, or was already on its way.
LEMMA StepLateCalls ==
  ASSUME Inv, Steps
  PROVE  LateCallsAreProper'
<1>1. /\ requestCounter \in Nat /\ requestCounter' \in Nat
      /\ requestCounter <= requestCounter'
      /\ \A x \in requestIndex' :
           /\ x.id \in Nat \ {0}
           /\ IsDeduct(x.key)
           /\ x \in requestIndex \/ requestCounter < x.id
  BY DEF Steps, Moves, HcmMoves, Inv, HP!HcmInv, HP!HcmTypeOK, References
<1>2. \A e : IsDeduct(e) =>
        /\ IsDeduct(e)'
        /\ RequestOf(e)' = RequestOf(e)
        /\ status[RequestOf(e)] = "CANCELLED" => status'[RequestOf(e)] = "CANCELLED"
  BY EventsTyped DEF Steps, EventsStay, RequestsProgress, RequestOf, IsDeduct, Inv
<1>3. ASSUME NEW call \in BagToSet(late')
      PROVE  call \in Call /\ IsProper(call)
  BY CallsOfTicks DEF Steps, Moves, LateMoves, Inv, TypeOK, LateCallsAreProper
<1>4. ASSUME NEW call \in BagToSet(late'), call.type = "HCM_REVERSE"
      PROVE  /\ call.id <= requestCounter'
             /\ \A x \in requestIndex' : x.id = call.id => status'[RequestOf(x.key)'] = "CANCELLED"
  <2>1. /\ call.id \in Nat /\ call.id <= requestCounter
        /\ \A x \in requestIndex : x.id = call.id => status[RequestOf(x.key)] = "CANCELLED"
    BY <1>3, <1>4 DEF IsProper, Call
  <2> QED
    BY <1>1, <1>2, <2>1
<1> QED
  BY <1>2, <1>3, <1>4 DEF LateCallsAreProper, IsProper

\* An answer stays true: only deductions of cancelled requests are taken away.
LEMMA StepAnswers ==
  ASSUME Inv, Steps
  PROVE  AnswersAreTrue'
<1> SUFFICES ASSUME NEW t \in Ticks
             PROVE  (/\ tick[t].stage = "answered" /\ Claimed(t).type = "HCM_DEDUCT" =>
                          /\ tick[t].hcmId # 0
                          /\ status[Claimed(t).request] # "CANCELLED" =>
                               \E d \in deductions : d.key = tick[t].event /\ d.id = tick[t].hcmId
                     /\ tick[t].stage \in {"waiting", "answered"} /\ Claimed(t).type = "HCM_REVERSE" =>
                          hcmRequestId[Claimed(t).request] # 0)'
  BY DEF AnswersAreTrue
<1>1. TickMoves(t)
  BY DEF Steps, Moves, TicksMove
<1>2. ASSUME Working(t), tick'[t].event = tick[t].event
      PROVE  /\ Claimed(t)'.type = Claimed(t).type
             /\ Claimed(t)'.request = Claimed(t).request
             /\ Claimed(t).request \in Requests
             /\ Claimed(t).request = RequestOf(tick[t].event)
             /\ status[Claimed(t).request] = "CANCELLED" => status'[Claimed(t).request] = "CANCELLED"
             /\ hcmRequestId[Claimed(t).request] # 0 => hcmRequestId'[Claimed(t).request] # 0
  BY <1>2, TickTyped DEF Steps, EventsStay, RequestsProgress, Claimed
<1>3. \A d \in deductions : d \in deductions' \/ status[RequestOf(d.key)] = "CANCELLED"
  BY DEF Steps, Moves, HcmMoves
<1>4. \A d \in deductions' : d.id # 0
  BY DEF Steps, Moves, HcmMoves, HP!HcmInv, HP!HcmTypeOK
<1>5. CASE tick'[t] = tick[t]
  <2>1. CASE tick[t].stage = "answered" /\ Claimed(t).type = "HCM_DEDUCT"
    BY <1>2, <1>3, <1>5, <2>1 DEF Inv, AnswersAreTrue, Working
  <2>2. CASE tick[t].stage \in {"waiting", "answered"} /\ Claimed(t).type = "HCM_REVERSE"
    BY <1>2, <1>5, <2>2 DEF Inv, AnswersAreTrue, Working
  <2>3. CASE tick[t].stage \notin {"waiting", "answered"}
    BY <1>5, <2>3
  <2> QED
    BY <1>2, <1>5, <2>1, <2>2, <2>3 DEF Working
<1>6. CASE /\ Working(t) /\ tick'[t].event = tick[t].event
           /\ tick'[t].stage = "waiting" /\ Claimed(t).type = "HCM_DEDUCT"
  BY <1>2, <1>6
<1>7. CASE /\ Working(t) /\ tick'[t].event = tick[t].event
           /\ tick'[t].stage = "waiting" /\ Claimed(t).type = "HCM_REVERSE"
           /\ hcmRequestId[Claimed(t).request] # 0
  BY <1>2, <1>7
<1>8. CASE /\ Working(t) /\ tick'[t].event = tick[t].event
           /\ tick'[t].stage = "answered" /\ Claimed(t).type = "HCM_DEDUCT"
           /\ \E d \in deductions' : d.key = tick[t].event /\ d.id = tick'[t].hcmId
  BY <1>2, <1>4, <1>8
<1>9. CASE /\ Working(t) /\ tick'[t].event = tick[t].event
           /\ tick'[t].stage = "answered" /\ Claimed(t).type = "HCM_REVERSE"
           /\ tick[t].stage = "waiting"
  BY <1>2, <1>9 DEF Inv, AnswersAreTrue
<1>10. CASE tick'[t].stage \notin {"waiting", "answered"}
  BY <1>10
<1> QED
  BY <1>1, <1>5, <1>6, <1>7, <1>8, <1>9, <1>10 DEF TickMoves

\* A request is APPROVED with the answer of a tick, and keeps its deduction.
LEMMA StepApproved ==
  ASSUME Inv, Steps, References', ChargesAreRight'
  PROVE  ApprovedHoldsDeduction'
<1> SUFFICES ASSUME NEW r \in Requests, status'[r] = "APPROVED"
             PROVE  \E d \in deductions' :
                      outbox'[d.key].request = r /\ d.id = hcmRequestId'[r]
  BY DEF ApprovedHoldsDeduction, DeductionsFor, ChargesAreRight, RequestOf
<1>1. \A d \in deductions :
        /\ d \in deductions' \/ status[RequestOf(d.key)] = "CANCELLED"
        /\ outbox'[d.key].request = RequestOf(d.key)
  BY DEF Steps, EventsStay, Moves, HcmMoves, RequestOf, Inv, References, IsDeduct
<1>2. \A q \in Requests : status[q] = "CANCELLED" => status'[q] = "CANCELLED"
  BY DEF Steps, RequestsProgress
<1>3. ASSUME NEW t \in Ticks, tick[t].stage = "answered", Claimed(t).type = "HCM_DEDUCT",
             Claimed(t).request = r, LearnId(t, r)
      PROVE  \E d \in deductions' :
               outbox'[d.key].request = r /\ d.id = hcmRequestId'[r]
  <2>1. Working(t) /\ status[r] # "CANCELLED"
    BY <1>2, <1>3 DEF Working
  <2>2. PICK d \in deductions : d.key = tick[t].event /\ d.id = tick[t].hcmId
    BY <1>3, <2>1 DEF Inv, AnswersAreTrue
  <2>3. RequestOf(d.key) = r
    BY <1>3, <2>1, <2>2, TickTyped
  <2>4. hcmRequestId'[r] = tick[t].hcmId
    BY <1>3 DEF LearnId, Inv, TypeOK
  <2> QED
    BY <1>1, <2>1, <2>2, <2>3, <2>4
<1>4. CASE status[r] = "APPROVED" /\ hcmRequestId'[r] = hcmRequestId[r]
  <2>1. PICK d \in deductions : outbox[d.key].request = r /\ d.id = hcmRequestId[r]
    BY <1>4 DEF Inv, ApprovedHoldsDeduction, DeductionsFor
  <2> QED
    BY <1>1, <1>4, <2>1 DEF RequestOf
<1>5. CASE status[r] = "APPROVED" /\ hcmRequestId'[r] # hcmRequestId[r]
  <2>1. PICK t \in Ticks : /\ tick[t].stage = "answered"
                           /\ Claimed(t).type = "HCM_DEDUCT"
                           /\ LearnId(t, Claimed(t).request)
    BY <1>5 DEF Steps, Moves, IdMoves
  <2>2. Claimed(t).request = r
    BY <1>5, <2>1 DEF LearnId, Inv, TypeOK
  <2> QED
    BY <1>3, <2>1, <2>2
<1>6. CASE status[r] # "APPROVED"
  <2>1. PICK q \in Requests, to \in RequestStatus :
          TransitionRequest(q, to, version[q]) /\ ComesWith(q, to)
    BY <1>6 DEF Steps, Moves, StatusMoves, Inv, TypeOK
  <2>2. q = r /\ to = "APPROVED"
    BY <1>6, <2>1 DEF TransitionRequest, Inv, TypeOK
  <2> QED
    BY <1>3, <2>1, <2>2 DEF ComesWith
<1> QED
  BY <1>4, <1>5, <1>6

\* What has become of an event.
LEMMA EventAfter ==
  ASSUME Inv, Steps, NEW e \in DOMAIN outbox
  PROVE  /\ outbox'[e].type = outbox[e].type
         /\ RequestOf(e)' = RequestOf(e)
         /\ RequestOf(e) \in Requests
         /\ \/ outbox'[e].status \in {outbox[e].status, "PENDING", "PROCESSING"}
            \/ /\ outbox'[e].status = "FAILED"
               /\ status'[RequestOf(e)] # "APPROVED_PENDING_HCM"
            \/ /\ outbox'[e].status = "DONE"
               /\ hcmRequestId'[RequestOf(e)] # 0
               /\ outbox[e].type = "HCM_DEDUCT" =>
                    status'[RequestOf(e)] \in {"APPROVED", "CANCELLED"}
<1>1. TypeOK /\ RequestOf(e) \in Requests
  BY EventsTyped DEF Inv
<1>2. outbox'[e].type = outbox[e].type /\ RequestOf(e)' = RequestOf(e)
  BY DEF Steps, EventsStay, RequestOf
<1>3. CASE UNCHANGED outbox
  BY <1>1, <1>2, <1>3
<1>4. ASSUME NEW f \in DOMAIN outbox, NEW row \in OutboxEvent, MayBecome(f, row),
             outbox' = [outbox EXCEPT ![f] = row]
      PROVE  \/ outbox'[e] = outbox[e]
             \/ e = f /\ outbox'[e] = row /\ row.request = RequestOf(e)
  BY <1>4 DEF MayBecome, RequestOf
<1>5. ASSUME NEW type \in OutboxEventType, NEW r \in Requests, Enqueue(type, r)
      PROVE  outbox'[e] = outbox[e]
  BY <1>1, <1>5, Enqueued
<1> QED
  BY <1>1, <1>2, <1>3, <1>4, <1>5
  DEF Steps, Moves, OutboxMoves, MayBecome, OutboxEventType

LEMMA StepDone ==
  ASSUME Inv, Steps
  PROVE  DoneMeansDelivered'
<1> SUFFICES ASSUME NEW e \in DOMAIN outbox', outbox'[e].status = "DONE"
             PROVE  LET r == outbox'[e].request
                    IN  /\ hcmRequestId'[r] # 0
                        /\ \/ status'[r] = "CANCELLED"
                           \/ outbox'[e].type = "HCM_DEDUCT" /\ status'[r] = "APPROVED"
  BY DEF DoneMeansDelivered
<1>1. CASE e \in DOMAIN outbox
  <2> DEFINE r == RequestOf(e)
  <2>1. /\ outbox'[e].type = outbox[e].type /\ outbox'[e].request = r /\ r \in Requests
        /\ \/ outbox[e].status = "DONE"
           \/ /\ hcmRequestId'[r] # 0
              /\ outbox[e].type = "HCM_DEDUCT" => status'[r] \in {"APPROVED", "CANCELLED"}
    BY <1>1, EventAfter DEF RequestOf
  <2>2. outbox[e].type = "HCM_REVERSE" => status'[r] = "CANCELLED"
    BY <1>1, <2>1 DEF Inv, EventsFollowRequests, Steps, RequestsProgress
  <2>3. outbox[e].type \in {"HCM_DEDUCT", "HCM_REVERSE"}
    BY <1>1 DEF Inv, EventsFollowRequests
  <2>4. CASE outbox[e].status = "DONE"
    <3>1. /\ hcmRequestId[r] # 0
          /\ status[r] \in {"APPROVED", "CANCELLED"}
      BY <1>1, <2>4 DEF Inv, DoneMeansDelivered, RequestOf
    <3>2. hcmRequestId'[r] # 0 /\ status'[r] \in {"APPROVED", "CANCELLED"}
      BY <2>1, <3>1 DEF Steps, RequestsProgress
    <3> QED
      BY <2>1, <2>2, <2>3, <3>2
  <2> QED
    BY <2>1, <2>2, <2>3, <2>4
<1>2. CASE e \notin DOMAIN outbox
  <2>1. CASE DOMAIN outbox' = DOMAIN outbox
    BY <1>2, <2>1
  <2>2. ASSUME NEW type \in OutboxEventType, NEW r \in Requests, Enqueue(type, r)
        PROVE  outbox'[e].status = "PENDING"
    <3>1. outbox'[e] = NewEvent(type, r)
      BY <1>2, <2>2, Enqueued DEF Inv
    <3> QED
      BY <3>1 DEF NewEvent
  <2> QED
    BY <2>1, <2>2 DEF Steps, Moves, OutboxMoves, OutboxEventType
<1> QED
  BY <1>1, <1>2

LEMMA StepWaiting ==
  ASSUME Inv, Steps
  PROVE  WaitingEventIsOpen'
<1>1. status \in [Requests -> RequestStatus \cup {Absent}]
  BY DEF Inv, TypeOK
<1>2. DOMAIN outbox \subseteq DOMAIN outbox'
  BY DEF Steps, EventsStay
<1>3. ASSUME NEW r \in Requests, status'[r] = "APPROVED_PENDING_HCM"
      PROVE  \E e \in DOMAIN outbox' :
               /\ outbox'[e].type = "HCM_DEDUCT" /\ outbox'[e].request = r
               /\ outbox'[e].status \in Unsettled
  <2>1. CASE status[r] = "APPROVED_PENDING_HCM"
    <3>1. PICK e \in DOMAIN outbox : /\ outbox[e].type = "HCM_DEDUCT" /\ RequestOf(e) = r
                                     /\ outbox[e].status \in Unsettled
      BY <2>1 DEF Inv, WaitingEventIsOpen, EventsFor, RequestOf
    <3> QED
      BY <1>2, <1>3, <3>1, EventAfter DEF Unsettled, RequestOf
  <2>2. CASE status[r] # "APPROVED_PENDING_HCM"
    <3>1. PICK q \in Requests, to \in RequestStatus :
            TransitionRequest(q, to, version[q]) /\ ComesWith(q, to)
      BY <1>1, <1>3, <2>2 DEF Steps, Moves, StatusMoves
    <3>2. q = r /\ to = "APPROVED_PENDING_HCM"
      BY <1>1, <1>3, <2>2, <3>1 DEF TransitionRequest
    <3>3. Enqueue("HCM_DEDUCT", r)
      BY <3>1, <3>2 DEF ComesWith
    <3>4. PICK e \in DOMAIN outbox' : outbox'[e] = NewEvent("HCM_DEDUCT", r)
      BY <3>3, Enqueued DEF Inv, OutboxEventType
    <3> QED
      BY <3>4 DEF NewEvent, Unsettled
  <2> QED
    BY <2>1, <2>2
<1>4. ASSUME NEW r \in Requests, status'[r] = "FAILED"
      PROVE  \E e \in DOMAIN outbox' :
               /\ outbox'[e].type = "HCM_DEDUCT" /\ outbox'[e].request = r
               /\ outbox'[e].status # "DONE"
  <2>1. CASE status[r] = "FAILED"
    <3>1. PICK e \in DOMAIN outbox : /\ outbox[e].type = "HCM_DEDUCT" /\ RequestOf(e) = r
                                     /\ outbox[e].status # "DONE"
      BY <2>1 DEF Inv, WaitingEventIsOpen, EventsFor, RequestOf
    <3> QED
      BY <1>2, <1>4, <3>1, EventAfter DEF RequestOf
  <2>2. CASE status[r] # "FAILED"
    <3>1. PICK q \in Requests, to \in RequestStatus :
            TransitionRequest(q, to, version[q]) /\ ComesWith(q, to)
      BY <1>1, <1>4, <2>2 DEF Steps, Moves, StatusMoves
    <3>2. q = r /\ to = "FAILED"
      BY <1>1, <1>4, <2>2, <3>1 DEF TransitionRequest
    <3>3. PICK e \in DOMAIN outbox : /\ outbox[e].type = "HCM_DEDUCT" /\ RequestOf(e) = r
                                     /\ outbox'[e].status = "FAILED"
      BY <3>1, <3>2 DEF ComesWith
    <3> QED
      BY <1>2, <3>3, EventAfter DEF RequestOf
  <2> QED
    BY <2>1, <2>2
<1> QED
  BY <1>3, <1>4 DEF WaitingEventIsOpen, EventsFor

\* Cancelling an approved request enqueues the reversal; nothing else makes a
\* request CANCELLED or gives a cancelled one an event.
LEMMA StepReversals ==
  ASSUME Inv, Steps
  PROVE  ReversalsAreOwed'
<1> SUFFICES ASSUME NEW r \in Requests, status'[r] = "CANCELLED"
             PROVE  EventsFor("HCM_DEDUCT", r)' = {} <=> EventsFor("HCM_REVERSE", r)' = {}
  BY DEF ReversalsAreOwed
<1>1. TypeOK /\ status \in [Requests -> RequestStatus \cup {Absent}]
  BY DEF Inv, TypeOK
<1>2. /\ DOMAIN outbox \subseteq DOMAIN outbox'
      /\ \A e \in DOMAIN outbox :
           outbox'[e].type = outbox[e].type /\ outbox'[e].request = outbox[e].request
  BY DEF Steps, EventsStay
<1>3. ASSUME DOMAIN outbox' = DOMAIN outbox
      PROVE  \A type : EventsFor(type, r)' = EventsFor(type, r)
  BY <1>2, <1>3 DEF EventsFor
<1>4. ASSUME NEW type \in OutboxEventType, NEW q \in Requests \ {r}, Enqueue(type, q)
      PROVE  \A any : EventsFor(any, r)' = EventsFor(any, r)
  <2>1. PICK n \in Nat :
          /\ n \notin DOMAIN outbox
          /\ DOMAIN outbox' = DOMAIN outbox \cup {n}
          /\ outbox'[n] = NewEvent(type, q)
    BY <1>1, <1>4, Enqueued
  <2>2. outbox'[n].request = q
    BY <2>1 DEF NewEvent
  <2> QED
    BY <1>2, <1>4, <2>1, <2>2 DEF EventsFor
<1>5. \/ \A type : EventsFor(type, r)' = EventsFor(type, r)
      \/ status[r] = "PENDING" /\ status' = [status EXCEPT ![r] = "APPROVED_PENDING_HCM"]
      \/ status[r] = "APPROVED_PENDING_HCM"
  BY <1>3, <1>4 DEF Steps, Moves, OutboxMoves, OutboxEventType
<1>6. CASE status[r] = "CANCELLED"
  BY <1>5, <1>6 DEF Inv, ReversalsAreOwed
<1>7. CASE status[r] # "CANCELLED"
  <2>1. PICK q \in Requests, to \in RequestStatus :
          TransitionRequest(q, to, version[q]) /\ ComesWith(q, to)
    BY <1>1, <1>7 DEF Steps, Moves, StatusMoves
  <2>2. q = r /\ to = "CANCELLED"
    BY <1>1, <1>7, <2>1 DEF TransitionRequest
  <2>3. status[r] \in {"PENDING", "APPROVED_PENDING_HCM"}
    BY <1>1, <2>1, <2>2, Transitions
  <2>4. CASE status[r] = "PENDING"
    <3>1. status' # [status EXCEPT ![r] = "APPROVED_PENDING_HCM"]
      BY <1>1
    <3>2. EventsFor("HCM_DEDUCT", r) = {} /\ EventsFor("HCM_REVERSE", r) = {}
      BY <2>4 DEF Inv, EventsFollowRequests, EventsFor, RequestOf
    <3> QED
      BY <1>5, <2>4, <3>1, <3>2
  <2>5. CASE status[r] = "APPROVED_PENDING_HCM"
    <3>1. Enqueue("HCM_REVERSE", r)
      BY <2>1, <2>2, <2>5 DEF ComesWith
    <3>2. PICK n \in DOMAIN outbox' : outbox'[n] = NewEvent("HCM_REVERSE", r)
      BY <1>1, <3>1, Enqueued DEF OutboxEventType
    <3>3. n \in EventsFor("HCM_REVERSE", r)'
      BY <3>2 DEF NewEvent, EventsFor
    <3>4. PICK e \in EventsFor("HCM_DEDUCT", r) : TRUE
      BY <2>5 DEF Inv, WaitingEventIsOpen
    <3>5. e \in EventsFor("HCM_DEDUCT", r)'
      BY <1>2 DEF EventsFor
    <3> QED
      BY <3>3, <3>5
  <2> QED
    BY <2>3, <2>4, <2>5
<1> QED
  BY <1>6, <1>7

-----------------------------------------------------------------------------
(***************************************************************************)
(* The specification                                                       *)
(***************************************************************************)

LEMMA InitInv == Init => Inv
<1> SUFFICES ASSUME Init
             PROVE  Inv
  OBVIOUS
<1> USE DEF Init, StoreInit, ApiInit, ProcessorInit
<1>1. HP!HcmInv
  BY SameHcm, HcmConstants, HP!HcmInitInv
<1>2. deductions = {} /\ requestIndex = {} /\ requestCounter = 0
  BY DEF Hcm!HcmInit
<1>3. outbox = <<>> /\ DOMAIN outbox = {} /\ outbox \in Seq(OutboxEvent)
  OBVIOUS
<1>4. IsABag(late) /\ BagToSet(late) = {}
  BY DEF EmptyBag, SetToBag, IsABag, BagToSet
<1>5. \A t \in Ticks : tick[t] = IdleTick
  OBVIOUS
<1>6. TypeOK
  <2>1. Hcm!HcmTypeOK
    BY <1>1, SameHcm DEF HP!HcmInv
  <2>2. IdleTick \in TickState /\ Idle \in HandlerState
    BY DEF IdleTick, TickState, HandlerState
  <2>3. balance \in [Balances -> [total : Nat, used : Nat, reserved : Nat]]
    BY StoreAssumption
  <2>4. 0 \in 0..MaxFaults
    BY ServiceAssumption
  <2> QED
    BY <1>3, <1>4, <2>1, <2>2, <2>3, <2>4 DEF TypeOK
<1>7. /\ References /\ EventsFollowRequests /\ ReversalsAreOwed
      /\ CopiesAreVersioned /\ ChargesAreRight
  BY <1>2, <1>3, <1>5
  DEF References, EventsFollowRequests, ReversalsAreOwed, EventsFor, CopiesAreVersioned,
      ChargesAreRight, Working, IdleTick, Idle, Decisions
<1>8. IdsBelong /\ LateCallsAreProper /\ AnswersAreTrue
  BY <1>2, <1>4, <1>5 DEF IdsBelong, LateCallsAreProper, AnswersAreTrue, Working, IdleTick
<1>9. ApprovedHoldsDeduction /\ WaitingEventIsOpen /\ DoneMeansDelivered
  BY <1>3 DEF ApprovedHoldsDeduction, WaitingEventIsOpen, DoneMeansDelivered, Absent
<1> QED
  BY <1>1, <1>6, <1>7, <1>8, <1>9 DEF Inv

LEMMA StutterInv == Inv /\ UNCHANGED vars => Inv'
<1> SUFFICES ASSUME Inv, UNCHANGED vars
             PROVE  Inv'
  OBVIOUS
<1> USE DEF vars, storeVars, processorVars
<1>1. TypeOK' /\ HP!HcmInv'
  <2>1. UNCHANGED HP!hcmVars
    BY DEF HP!hcmVars
  <2>2. HP!HcmInv'
    BY <2>1, HcmConstants, HP!UnchangedKeeps DEF Inv
  <2> QED
    BY <2>2 DEF Inv, TypeOK, HP!HcmInv, HP!HcmTypeOK, Hcm!HcmTypeOK
<1>2. /\ References' /\ EventsFollowRequests' /\ ReversalsAreOwed'
      /\ CopiesAreVersioned' /\ ChargesAreRight'
  BY DEF Inv, References, EventsFollowRequests, ReversalsAreOwed, EventsFor,
         CopiesAreVersioned, ChargesAreRight, Working, IsDeduct, RequestOf
<1>3. IdsBelong' /\ LateCallsAreProper' /\ AnswersAreTrue'
  BY DEF Inv, IdsBelong, LateCallsAreProper, IsProper, AnswersAreTrue,
         Working, Claimed, IsDeduct, RequestOf
<1>4. ApprovedHoldsDeduction' /\ WaitingEventIsOpen' /\ DoneMeansDelivered'
  BY DEF Inv, ApprovedHoldsDeduction, WaitingEventIsOpen, DoneMeansDelivered,
         DeductionsFor, EventsFor
<1> QED
  BY <1>1, <1>2, <1>3, <1>4 DEF Inv

LEMMA NextInv == Inv /\ [Next]_vars => Inv'
<1>1. ASSUME Inv, Next
      PROVE  Inv'
  <2>1. Steps /\ HP!HcmInv'
    BY <1>1, NextSteps DEF Steps, Moves, HcmMoves
  <2>2. /\ TypeOK' /\ References' /\ EventsFollowRequests' /\ ReversalsAreOwed'
        /\ CopiesAreVersioned' /\ ChargesAreRight'
    BY <1>1, <2>1, StepTypeOK, StepReferences, StepEvents, StepReversals, StepCopies,
       StepCharges
  <2>3. IdsBelong' /\ LateCallsAreProper' /\ AnswersAreTrue'
    BY <1>1, <2>1, <2>2, StepIds, StepLateCalls, StepAnswers
  <2>4. ApprovedHoldsDeduction' /\ WaitingEventIsOpen' /\ DoneMeansDelivered'
    BY <1>1, <2>1, <2>2, StepApproved, StepWaiting, StepDone
  <2> QED
    BY <2>1, <2>2, <2>3, <2>4 DEF Inv
<1> QED
  BY <1>1, StutterInv

LEMMA Invariance == Spec => []Inv
<1>1. Init => Inv
  BY InitInv
<1>2. Inv /\ [Next]_vars => Inv'
  BY NextInv
<1> QED
  BY <1>1, <1>2, PTL DEF Spec

\* A set in which any two are the same has at most one element.
LEMMA AtMostOne ==
  ASSUME NEW S, \A x, y \in S : x = y
  PROVE  Cardinality(S) <= 1
<1>1. CASE S = {}
  BY <1>1, FS_EmptySet
<1>2. ASSUME NEW x \in S
      PROVE  Cardinality(S) <= 1
  <2>1. S = {x}
    BY <1>2
  <2> QED
    BY <2>1, FS_Singleton
<1> QED
  BY <1>1, <1>2

\* The tables stay what they are declared to be, and the HCM's files too.
THEOREM ServiceTypeCorrect == Spec => []TypeOK
<1>1. Inv => TypeOK
  BY DEF Inv
<1> QED
  BY <1>1, Invariance, PTL

LEMMA OneEvent == Inv => OneEventPerIntent
<1> SUFFICES ASSUME Inv, NEW r \in Requests, NEW type \in OutboxEventType
             PROVE  Cardinality(EventsFor(type, r)) <= 1
  BY DEF OneEventPerIntent
<1>1. \A e, f \in EventsFor(type, r) : e = f
  BY DEF Inv, EventsFollowRequests, EventsFor, RequestOf
<1> QED
  BY <1>1, AtMostOne

\* approveRequest and cancelRequest enqueue one call at most, however many of
\* them have read the same row before.
THEOREM IntentsAreEnqueuedOnce == Spec => []OneEventPerIntent
BY OneEvent, Invariance, PTL

LEMMA OneDeduction == Inv => ChargedOnce
<1> SUFFICES ASSUME Inv, NEW r \in Requests
             PROVE  Cardinality(DeductionsFor(r)) <= 1
  BY DEF ChargedOnce
<1>1. ASSUME NEW c \in DeductionsFor(r), NEW d \in DeductionsFor(r)
      PROVE  c = d
  <2>1. /\ c \in deductions /\ IsDeduct(c.key) /\ RequestOf(c.key) = r
        /\ d \in deductions /\ IsDeduct(d.key) /\ RequestOf(d.key) = r
    BY DEF Inv, References, DeductionsFor, RequestOf
  <2>2. c.key = d.key
    BY <2>1 DEF Inv, EventsFollowRequests, IsDeduct
  <2> QED
    BY <2>1, <2>2 DEF Inv, HP!HcmInv, HP!DeductionsAreReversible
<1> QED
  BY <1>1, AtMostOne

\* However often processDeductEvent repeats its call, and however late one of them
\* arrives, the HCM counts the days of a request once.
THEOREM RequestsAreChargedOnce == Spec => []ChargedOnce
BY OneDeduction, Invariance, PTL

\* completeDeductionFromOutbox approves only what the HCM has really taken, and
\* no call that comes late takes it back.
THEOREM ApprovalsAreBacked == Spec => []ApprovedHoldsDeduction
<1>1. Inv => ApprovedHoldsDeduction
  BY DEF Inv
<1> QED
  BY <1>1, Invariance, PTL

\* An event is DONE only when its request knows the HCM's id and is decided.
THEOREM DoneIsDone == Spec => []DoneMeansDelivered
<1>1. Inv => DoneMeansDelivered
  BY DEF Inv
<1> QED
  BY <1>1, Invariance, PTL

=============================================================================
