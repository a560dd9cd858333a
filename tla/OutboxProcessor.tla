-------------------------- MODULE OutboxProcessor --------------------------
(***************************************************************************)
(* OutboxProcessor.tick: poll outbox_events for due events, claim each one *)
(* and deliver it to the HCM, which MockHcm models.                        *)
(*                                                                         *)
(* setInterval starts a tick whether or not the one before has returned,   *)
(* so several ticks may be at work.  A tick goes through the events it has *)
(* read one after the other; control passes to others between its          *)
(* statements and above all while it waits for the HCM.                    *)
(***************************************************************************)
EXTENDS Store, Bags

CONSTANTS
  Ticks,         \* ticks that may be at work at once
  MaxRetries,    \* HCM_MAX_RETRIES
  TakeLimit,     \* the `take` of the poll: events read by one tick
  MaxLate,       \* bound on the calls under way after their caller gave up
  MaxRequestId   \* bound on the ids the HCM gives out

ASSUME ProcessorAssumption ==
  {MaxRetries, TakeLimit, MaxLate, MaxRequestId} \subseteq Nat

VARIABLES
  tick,           \* what each tick is doing: see TickState
  late,           \* a bag of calls that may still reach the HCM
  hcmTotal, deductions, requestIndex, requestCounter   \* the HCM's state

hcmVars == <<hcmTotal, deductions, requestIndex, requestCounter>>
processorVars == <<tick, late, hcmTotal, deductions, requestIndex, requestCounter>>

\* Events' ids serve as idempotency keys, "outbox-<id>".
Hcm == INSTANCE MockHcm WITH
         Accounts <- Balances, Seed <- Entitlement, Keys <- Nat \ {0}, NoKey <- 0

\* A call to the HCM: a deduction for an event, or the reversal of an id.
Call == [type : OutboxEventType, id : Nat]

\* todo holds the copies of the events that the tick has read and not reached,
\* with the attempts they had; event is the one it has claimed; hcmId is the id
\* to be reversed or the id that the HCM answered with.
TickState ==
  [stage : {"idle", "looping", "claimed", "waiting", "answered", "failed"},
   todo : SUBSET [id : Nat, attempts : Nat],
   event : Nat, attempts : Nat, hcmId : Nat]

IdleTick == [stage |-> "idle", todo |-> {}, event |-> 0, attempts |-> 0, hcmId |-> 0]

ProcessorInit ==
  /\ tick = [t \in Ticks |-> IdleTick]
  /\ late = EmptyBag
  /\ Hcm!HcmInit

-----------------------------------------------------------------------------
Claimed(t) == outbox[tick[t].event]

Goto(t, stage) == tick' = [tick EXCEPT ![t].stage = stage]

\* The loop's next round, or the end of the tick when nothing is left to do.
NextRound(t, todo) ==
  tick' = [tick EXCEPT ![t] =
             [IdleTick EXCEPT !.stage = IF todo = {} THEN "idle" ELSE "looping",
                              !.todo = todo]]

\* find: the first TakeLimit PENDING events that are due, oldest first.
\* Mutant: next_retry_at is left out of the query.
BackoffIgnored(e) == outbox[e].status = "PENDING"
IsDue(e) == outbox[e].status = "PENDING" /\ outbox[e].due
Due == {e \in DOMAIN outbox : IsDue(e)}
Polled == {e \in Due : Cardinality({f \in Due : f < e}) < TakeLimit}

\* tick reads the events to deliver.
Poll(t) ==
  /\ tick[t].stage = "idle"
  /\ Polled # {}
  /\ NextRound(t, {[id |-> e, attempts |-> outbox[e].attempts] : e \in Polled})
  /\ UNCHANGED <<storeVars, late, hcmVars>>

\* The event the loop has reached: the oldest of those left.
Reached(t, event) ==
  /\ tick[t].stage = "looping"
  /\ event \in tick[t].todo
  /\ \A other \in tick[t].todo : event.id <= other.id

\* The condition of the claiming update.
\* Mutant: the update is by id alone.
ClaimAny(e) == TRUE
Claimable(e) == outbox[e].status = "PENDING"

\* The conditional update claims the event if it is still PENDING ...
Claim(t) ==
  \E event \in tick[t].todo :
    /\ Reached(t, event)
    /\ Claimable(event.id)
    /\ outbox' = [outbox EXCEPT ![event.id].status = "PROCESSING"]
    /\ tick' = [tick EXCEPT ![t].stage = "claimed", ![t].todo = @ \ {event},
                            ![t].event = event.id, ![t].attempts = event.attempts]
    /\ UNCHANGED <<balance, requestRows, late, hcmVars>>

\* ... and otherwise the tick passes on to the next one.
Skip(t) ==
  \E event \in tick[t].todo :
    /\ Reached(t, event)
    /\ ~Claimable(event.id)
    /\ NextRound(t, tick[t].todo \ {event})
    /\ UNCHANGED <<storeVars, late, hcmVars>>

\* processReverseEvent throws when there is no id to reverse yet.
\* Mutants: the event then counts as delivered; the method just returns.
NoIdIsDelivered(t) == Goto(t, "answered")
NoIdIsIgnored(t) == NextRound(t, tick[t].todo)
NoIdYet(t) == Goto(t, "failed")

\* processDeductEvent calls the HCM; processReverseEvent does so once the
\* request has the id to be reversed, and fails until then.
Send(t) ==
  /\ tick[t].stage = "claimed"
  /\ LET id == hcmRequestId[Claimed(t).request]
     IN  \/ Claimed(t).type = "HCM_DEDUCT" /\ Goto(t, "waiting")
         \/ /\ Claimed(t).type = "HCM_REVERSE" /\ id # 0
            /\ tick' = [tick EXCEPT ![t].stage = "waiting", ![t].hcmId = id]
         \/ Claimed(t).type = "HCM_REVERSE" /\ id = 0 /\ NoIdYet(t)
  /\ UNCHANGED <<storeVars, late, hcmVars>>

-----------------------------------------------------------------------------
\* The call that a waiting tick has made.
CallOf(t) ==
  [type |-> Claimed(t).type,
   id |-> IF Claimed(t).type = "HCM_DEDUCT" THEN tick[t].event ELSE tick[t].hcmId]

\* The HCM carries out a call: a deduction is new or repeated, and reversing an
\* id it does not know is answered by a 404 that the client takes for success.
HcmServes(call) ==
  \/ /\ call.type = "HCM_DEDUCT"
     /\ LET r == outbox[call.id].request
        IN  \/ Hcm!NewDeduction(call.id, BalanceOf[r], Days[r])
            \/ Hcm!RepeatedDeduction(call.id)
  \/ /\ call.type = "HCM_REVERSE"
     /\ Hcm!ReverseKnown(call.id) \/ Hcm!ReverseUnknown(call.id)

\* The call is served and its answer arrives in time.
HcmAnswers(t) ==
  /\ tick[t].stage = "waiting"
  /\ HcmServes(CallOf(t))
  /\ \/ /\ Claimed(t).type = "HCM_DEDUCT"
        /\ \E d \in deductions' :
             /\ d.key = tick[t].event
             /\ tick' = [tick EXCEPT ![t].stage = "answered", ![t].hcmId = d.id]
     \/ Claimed(t).type = "HCM_REVERSE" /\ Goto(t, "answered")
  /\ UNCHANGED <<storeVars, late>>

\* The call is served but the answer is lost or comes after the timeout.
HcmAnswerLost(t) ==
  /\ tick[t].stage = "waiting"
  /\ HcmServes(CallOf(t))
  /\ Goto(t, "failed")
  /\ UNCHANGED <<storeVars, late>>

\* handleHcmError throws, whatever the error.
\* Mutant: the error is logged and the call counts as answered.
ErrorSwallowed(t) == Goto(t, "answered")
HcmErrorThrown(t) == Goto(t, "failed")

\* The HCM is unavailable or answers with an error.
HcmRefuses(t) ==
  /\ tick[t].stage = "waiting"
  /\ HcmErrorThrown(t)
  /\ UNCHANGED <<storeVars, late, hcmVars>>

\* The client's timeout fires while the call is still under way.
HcmTimesOut(t) ==
  /\ tick[t].stage = "waiting"
  /\ BagCardinality(late) < MaxLate
  /\ Goto(t, "failed")
  /\ late' = late (+) SetToBag({CallOf(t)})
  /\ UNCHANGED <<storeVars, hcmVars>>

\* A call whose caller no longer waits reaches the HCM.
DeliverLate(call) ==
  /\ BagIn(call, late)
  /\ late' = late (-) SetToBag({call})
  /\ HcmServes(call)
  /\ UNCHANGED <<storeVars, tick>>

-----------------------------------------------------------------------------
\* update(OutboxEvent, { status: DONE }).
MarkDone(t) == outbox' = [outbox EXCEPT ![tick[t].event].status = "DONE"]

\* The request is given the id that the HCM answered with.
\* Mutant: the id is not stored.
IdForgotten(t, r) == UNCHANGED hcmRequestId
LearnId(t, r) == hcmRequestId' = [hcmRequestId EXCEPT ![r] = tick[t].hcmId]

\* completeDeductionFromOutbox and the event's update, in one transaction.  A
\* request cancelled meanwhile only learns the id, for the reversal to come.
CompleteDeduct(t) ==
  /\ tick[t].stage = "answered"
  /\ Claimed(t).type = "HCM_DEDUCT"
  /\ LET r == Claimed(t).request
     IN  \/ status[r] = "APPROVED" /\ UNCHANGED <<balance, requestRows>>
         \/ /\ status[r] = "CANCELLED"
            /\ LearnId(t, r)
            /\ UNCHANGED <<balance, status, version>>
         \/ /\ status[r] \notin {"APPROVED", "CANCELLED"}
            /\ TransitionRequest(r, "APPROVED", version[r])
            /\ LearnId(t, r)
            /\ ConfirmDeduction(r)
  /\ MarkDone(t)
  /\ NextRound(t, tick[t].todo)
  /\ UNCHANGED <<late, hcmVars>>

CompleteReverse(t) ==
  /\ tick[t].stage = "answered"
  /\ Claimed(t).type = "HCM_REVERSE"
  /\ MarkDone(t)
  /\ NextRound(t, tick[t].todo)
  /\ UNCHANGED <<balance, requestRows, late, hcmVars>>

\* The HCM has answered but the local write fails and is rolled back.
LocalWriteFails(t) ==
  /\ tick[t].stage = "answered"
  /\ Goto(t, "failed")
  /\ UNCHANGED <<storeVars, late, hcmVars>>

-----------------------------------------------------------------------------
\* handleEventFailure counts on from the copy that the tick has read.
\* Mutant: the failed attempt is not counted.
NotCounted(t) == tick[t].attempts
NewAttempts(t) == tick[t].attempts + 1

ShouldMarkFailed(t) == NewAttempts(t) >= MaxRetries

\* Not the last attempt: PENDING again, to be picked up after the backoff.
RetryLater(t) ==
  /\ tick[t].stage = "failed"
  /\ ~ShouldMarkFailed(t)
  /\ outbox' = [outbox EXCEPT ![tick[t].event] =
       [@ EXCEPT !.status = "PENDING", !.attempts = NewAttempts(t), !.due = FALSE]]
  /\ NextRound(t, tick[t].todo)
  /\ UNCHANGED <<balance, requestRows, late, hcmVars>>

\* failRequestFromOutbox leaves a request alone that is already decided.
\* Mutant: the request is not told that its event has failed.
RequestNotTold(t) == FALSE
RequestFails(t) ==
  /\ Claimed(t).type = "HCM_DEDUCT"
  /\ status[Claimed(t).request] \notin {"FAILED", "CANCELLED", "APPROVED"}

\* The last attempt: the event is FAILED, and a request that still waits for
\* its deduction fails with it in the same transaction.
GiveUp(t) ==
  /\ tick[t].stage = "failed"
  /\ ShouldMarkFailed(t)
  /\ outbox' = [outbox EXCEPT ![tick[t].event] =
       [@ EXCEPT !.status = "FAILED", !.attempts = NewAttempts(t)]]
  /\ LET r == Claimed(t).request
     IN  \/ RequestFails(t) /\ TransitionRequest(r, "FAILED", version[r])
         \/ ~RequestFails(t) /\ UNCHANGED <<status, version>>
  /\ NextRound(t, tick[t].todo)
  /\ UNCHANGED <<balance, hcmRequestId, late, hcmVars>>

\* next_retry_at passes.
BecomeDue(e) ==
  /\ outbox[e].status = "PENDING" /\ ~outbox[e].due
  /\ outbox' = [outbox EXCEPT ![e].due = TRUE]
  /\ UNCHANGED <<balance, requestRows, processorVars>>

\* What one tick does by itself, its waiting bounded by the client's timeout.
TickStep(t) ==
  \/ Poll(t) \/ Claim(t) \/ Skip(t) \/ Send(t)
  \/ HcmAnswers(t) \/ HcmAnswerLost(t) \/ HcmRefuses(t) \/ HcmTimesOut(t)
  \/ CompleteDeduct(t) \/ CompleteReverse(t) \/ LocalWriteFails(t)
  \/ RetryLater(t) \/ GiveUp(t)

ProcessorNext ==
  \/ \E t \in Ticks : TickStep(t)
  \/ \E e \in DOMAIN outbox : BecomeDue(e)
  \/ \E call \in BagToSet(late) : DeliverLate(call)

=============================================================================
