----------------------------- MODULE ClaimProofs -----------------------------
(***************************************************************************)
(* What the claim of an outbox event is good for, and what its gaps cost.  *)
(*                                                                         *)
(* TimeOffServiceProofs needs no claim at all.  Claims are exclusive until *)
(* an event is retried that is no longer FAILED, for retry updates by id   *)
(* alone; with the synchronous driver that never happens.  The copy that a *)
(* tick has read is fresh until another tick gives the event back, for the *)
(* claim tests neither attempts nor next_retry_at.  And an event is only   *)
(* ever lost by a crash or by a tick that is aborted.                      *)
(***************************************************************************)
EXTENDS TimeOffServiceProofs

\* No two handlers are at work at the same time.
OneAtATime == \A g, h \in Handlers : handler[g] # Idle /\ handler[h] # Idle => g = h

\* An event that is about to be retried is still FAILED, and so nobody's claim.
RetriesFindFailed ==
  \A h \in Handlers : handler[h].op = "retry" => outbox[handler[h].event].status = "FAILED"

\* A handler retries an event that is no longer FAILED.
StaleRetry == \E h \in Handlers : RetryEvent(h) /\ outbox[handler[h].event].status # "FAILED"

\* A tick has read an event once, and what it has claimed it does not meet again.
TodoIsProper ==
  \A t \in Ticks :
    /\ \A c, d \in tick[t].todo : c.id = d.id => c = d
    /\ Working(t) => \A copy \in tick[t].todo : copy.id # tick[t].event

\* What a tick has read of an event is what its row still says.
Fresh(copy) == outbox[copy.id].due /\ outbox[copy.id].attempts = copy.attempts
CopiesAreFresh == \A t \in Ticks : \A copy \in tick[t].todo : Fresh(copy)
AttemptsMatch == \A t \in Ticks : Working(t) => tick[t].attempts = Claimed(t).attempts

\* A tick gives an event back that another tick has read and not yet reached.
GivesBack(u) == RetryLater(u) \/ GiveUp(u)
Overtakes(u) ==
  GivesBack(u) /\ \E t \in Ticks \ {u} : \E copy \in tick[t].todo : copy.id = tick[u].event
NobodyOvertakes == \A u \in Ticks : ~Overtakes(u)

-----------------------------------------------------------------------------
(***************************************************************************)
(* The kinds of steps                                                      *)
(***************************************************************************)

\* No event changes its status or its attempts, nor does the time it is due
\* move away; no event is claimed.
TickGoesOn(t) ==
  /\ tick'[t].todo \subseteq tick[t].todo
  /\ Working(t)' => /\ Working(t)
                    /\ tick'[t].event = tick[t].event
                    /\ tick'[t].attempts = tick[t].attempts

TickPolls(t) ==
  /\ ~Working(t)'
  /\ \A copy \in tick'[t].todo : copy.id \in DOMAIN outbox /\ Fresh(copy)
  /\ \A c, d \in tick'[t].todo : c.id = d.id => c = d

RowsStay ==
  /\ DOMAIN outbox \subseteq DOMAIN outbox'
  /\ \A e \in DOMAIN outbox' \ DOMAIN outbox : outbox'[e].status = "PENDING"
  /\ \A e \in DOMAIN outbox :
       /\ outbox'[e].status = outbox[e].status
       /\ outbox'[e].attempts = outbox[e].attempts
       /\ outbox[e].due => outbox'[e].due

RetriesStay ==
  \A h \in Handlers : handler'[h].op = "retry" =>
    \/ handler'[h] = handler[h]
    \/ /\ handler'[h].event \in DOMAIN outbox
       /\ outbox[handler'[h].event].status = "FAILED"

\* A tick leaves its event alone only when something crashes.
NobodyStops == faults' = faults => \A t \in Ticks : Working(t) => Working(t)'

Quiet ==
  /\ RowsStay
  /\ \A t \in Ticks : TickGoesOn(t) \/ TickPolls(t)
  /\ NobodyStops
  /\ RetriesStay

\* Tick t gives its event back, the attempt counted, or is done with it.
Releases(t) ==
  /\ Working(t)
  /\ \E row \in OutboxEvent :
       /\ outbox' = [outbox EXCEPT ![tick[t].event] = row]
       /\ \/ /\ row.status = "DONE" /\ tick[t].stage = "answered"
             /\ row.attempts = Claimed(t).attempts /\ row.due = Claimed(t).due
          \/ /\ row.status \in {"PENDING", "FAILED"} /\ row.attempts = tick[t].attempts + 1
             /\ GivesBack(t)
  /\ NextRound(t, tick[t].todo)
  /\ UNCHANGED <<handler, deductions>>

Kinds ==
  \/ Quiet
  \/ \E t \in Ticks : Claim(t) /\ UNCHANGED handler
  \/ \E t \in Ticks : Releases(t)
  \/ \E h \in Handlers : RetryEvent(h) /\ UNCHANGED tick

-----------------------------------------------------------------------------
LEMMA SameRows ==
  ASSUME UNCHANGED outbox
  PROVE  RowsStay
BY DEF RowsStay

LEMMA SameTicks ==
  ASSUME UNCHANGED tick
  PROVE  NobodyStops /\ \A t \in Ticks : TickGoesOn(t)
BY DEF NobodyStops, TickGoesOn, Working

LEMMA SameRetries ==
  ASSUME UNCHANGED handler
  PROVE  RetriesStay
BY DEF RetriesStay

\* One tick moves.
LEMMA OneTickQuiet ==
  ASSUME Inv, NEW t \in Ticks, NEW new, tick' = [tick EXCEPT ![t] = new],
         UNCHANGED <<outbox, handler>>,
         TickGoesOn(t) \/ TickPolls(t),
         faults' = faults /\ Working(t) => Working(t)'
  PROVE  Quiet
<1>1. ASSUME NEW u \in Ticks, u # t
      PROVE  TickGoesOn(u) /\ (Working(u) => Working(u)')
  <2>1. tick'[u] = tick[u]
    BY <1>1 DEF Inv, TypeOK
  <2> QED
    BY <2>1 DEF TickGoesOn, Working
<1>2. NobodyStops
  BY <1>1 DEF NobodyStops
<1> QED
  BY <1>1, <1>2, SameRows, SameRetries DEF Quiet

\* A tick goes from one stage of its work to the next, or on to its next round.
LEMMA StageIsQuiet ==
  ASSUME Inv, NEW t \in Ticks, Working(t),
         NEW stage \in {"waiting", "answered", "failed"}, NEW id,
         tick' = [tick EXCEPT ![t].stage = stage, ![t].hcmId = id],
         UNCHANGED <<outbox, handler>>
  PROVE  Quiet
<1> DEFINE new == [tick[t] EXCEPT !.stage = stage, !.hcmId = id]
<1>1. tick[t] \in TickState /\ tick \in [Ticks -> TickState]
  BY DEF Inv, TypeOK
<1>2. tick' = [tick EXCEPT ![t] = new] /\ tick'[t] = new
  BY <1>1
<1>3. /\ new.todo = tick[t].todo /\ new.event = tick[t].event
      /\ new.attempts = tick[t].attempts /\ new.stage = stage
  BY <1>1 DEF TickState
<1> HIDE DEF new
<1>4. TickGoesOn(t) /\ Working(t)'
  BY <1>2, <1>3 DEF TickGoesOn, Working
<1> QED
  BY <1>2, <1>4, OneTickQuiet

LEMMA GotoIsQuiet ==
  ASSUME Inv, NEW t \in Ticks, Working(t),
         NEW stage \in {"waiting", "answered", "failed"}, Goto(t, stage),
         UNCHANGED <<outbox, handler>>
  PROVE  Quiet
<1> DEFINE new == [tick[t] EXCEPT !.stage = stage]
<1>1. tick[t] \in TickState /\ tick \in [Ticks -> TickState]
  BY DEF Inv, TypeOK
<1>2. tick' = [tick EXCEPT ![t] = new] /\ tick'[t] = new
  BY <1>1 DEF Goto
<1>3. /\ new.todo = tick[t].todo /\ new.event = tick[t].event
      /\ new.attempts = tick[t].attempts /\ new.stage = stage
  BY <1>1 DEF TickState
<1> HIDE DEF new
<1>4. TickGoesOn(t) /\ Working(t)'
  BY <1>2, <1>3 DEF TickGoesOn, Working
<1> QED
  BY <1>2, <1>4, OneTickQuiet

\* The state that a tick is in after a round.
LEMMA AfterRound ==
  ASSUME Inv, NEW t \in Ticks, NEW todo, NextRound(t, todo)
  PROVE  /\ tick' = [tick EXCEPT ![t] = tick'[t]]
         /\ tick'[t].todo = todo
         /\ ~Working(t)'
<1> DEFINE new == [IdleTick EXCEPT !.stage = IF todo = {} THEN "idle" ELSE "looping",
                                   !.todo = todo]
<1>1. tick' = [tick EXCEPT ![t] = new] /\ tick'[t] = new
  BY DEF NextRound, Inv, TypeOK
<1>2. new.todo = todo /\ new.stage \in {"idle", "looping"}
  BY DEF IdleTick
<1> HIDE DEF new
<1> QED
  BY <1>1, <1>2 DEF Working

LEMMA RoundIsQuiet ==
  ASSUME Inv, NEW t \in Ticks, NEW todo \in SUBSET tick[t].todo, NextRound(t, todo),
         ~Working(t), UNCHANGED <<outbox, handler>>
  PROVE  Quiet
<1>1. /\ tick' = [tick EXCEPT ![t] = tick'[t]]
      /\ tick'[t].todo = todo
      /\ ~Working(t)'
  BY AfterRound
<1> QED
  BY <1>1, OneTickQuiet DEF TickGoesOn

LEMMA PollIsQuiet ==
  ASSUME Inv, NEW t \in Ticks, Poll(t), UNCHANGED handler
  PROVE  Quiet
<1> DEFINE todo == {[id |-> e, attempts |-> outbox[e].attempts] : e \in Polled}
<1>1. NextRound(t, todo) /\ UNCHANGED outbox
  BY DEF Poll, storeVars
<1>2. \A e \in Polled : e \in DOMAIN outbox /\ outbox[e].due
  BY DEF Polled, Due, IsDue
<1>3. /\ \A copy \in todo : copy.id \in DOMAIN outbox /\ Fresh(copy)
      /\ \A c, d \in todo : c.id = d.id => c = d
  BY <1>2 DEF Fresh
<1> HIDE DEF todo
<1>4. /\ tick' = [tick EXCEPT ![t] = tick'[t]]
      /\ tick'[t].todo = todo
      /\ ~Working(t)'
  BY <1>1, AfterRound
<1>5. TickPolls(t) /\ ~Working(t)
  BY <1>3, <1>4 DEF TickPolls, Poll, Working
<1> QED
  BY <1>1, <1>4, <1>5, OneTickQuiet

LEMMA CallIsQuiet ==
  ASSUME Inv, NEW t \in Ticks, UNCHANGED handler,
         \/ Send(t) \/ HcmAnswers(t) \/ HcmAnswerLost(t)
         \/ HcmRefuses(t) \/ HcmTimesOut(t) \/ LocalWriteFails(t)
  PROVE  Quiet
<1>1. Working(t) /\ UNCHANGED outbox
  BY DEF Send, HcmAnswers, HcmAnswerLost, HcmRefuses, HcmTimesOut, LocalWriteFails,
         Working, storeVars
<1>2. \/ Goto(t, "waiting") \/ Goto(t, "answered") \/ Goto(t, "failed")
      \/ \E stage \in {"waiting", "answered", "failed"} : \E id :
           tick' = [tick EXCEPT ![t].stage = stage, ![t].hcmId = id]
  BY DEF Send, NoIdYet, HcmAnswers, HcmAnswerLost, HcmRefuses, HcmErrorThrown,
         HcmTimesOut, LocalWriteFails
<1> QED
  BY <1>1, <1>2, GotoIsQuiet, StageIsQuiet

LEMMA WriteReleases ==
  ASSUME Inv, NEW t \in Ticks, UNCHANGED handler,
         CompleteDeduct(t) \/ CompleteReverse(t) \/ RetryLater(t) \/ GiveUp(t)
  PROVE  Releases(t)
<1> DEFINE e == tick[t].event
           attempts == tick[t].attempts + 1
           done == [outbox[e] EXCEPT !.status = "DONE"]
           later == [outbox[e] EXCEPT !.status = "PENDING", !.attempts = attempts, !.due = FALSE]
           failed == [outbox[e] EXCEPT !.status = "FAILED", !.attempts = attempts]
<1>1. Working(t) /\ NextRound(t, tick[t].todo)
  BY DEF CompleteDeduct, CompleteReverse, RetryLater, GiveUp, Working
<1>2. UNCHANGED <<handler, deductions>>
  BY DEF CompleteDeduct, CompleteReverse, RetryLater, GiveUp, hcmVars
<1>3. e \in DOMAIN outbox /\ outbox[e] \in OutboxEvent /\ attempts \in Nat
  BY <1>1, TickTyped, EventsTyped DEF Inv
<1>4. /\ {done, later, failed} \subseteq OutboxEvent
      /\ done.status = "DONE"
      /\ done.attempts = outbox[e].attempts /\ done.due = outbox[e].due
      /\ later.status = "PENDING" /\ later.attempts = attempts
      /\ failed.status = "FAILED" /\ failed.attempts = attempts
  <2>1. attempts \in Nat /\ outbox[e] \in OutboxEvent
    BY <1>3
  <2> HIDE DEF attempts, e
  <2>2. /\ done \in OutboxEvent /\ done.status = "DONE"
        /\ done.attempts = outbox[e].attempts /\ done.due = outbox[e].due
    BY <2>1 DEF OutboxEvent, OutboxEventStatus
  <2>3. later \in OutboxEvent /\ later.status = "PENDING" /\ later.attempts = attempts
    BY <2>1 DEF OutboxEvent, OutboxEventStatus
  <2>4. failed \in OutboxEvent /\ failed.status = "FAILED" /\ failed.attempts = attempts
    BY <2>1 DEF OutboxEvent, OutboxEventStatus
  <2> QED
    BY <2>2, <2>3, <2>4
<1>5. \/ tick[t].stage = "answered" /\ outbox' = [outbox EXCEPT ![e] = done]
      \/ GivesBack(t) /\ outbox' = [outbox EXCEPT ![e] = later]
      \/ GivesBack(t) /\ outbox' = [outbox EXCEPT ![e] = failed]
  BY DEF CompleteDeduct, CompleteReverse, RetryLater, GiveUp, MarkDone, NewAttempts, GivesBack
<1>6. Claimed(t) = outbox[e]
  BY DEF Claimed
<1> HIDE DEF done, later, failed, e
<1> QED
  BY <1>1, <1>2, <1>4, <1>5, <1>6 DEF Releases, e

LEMMA DueIsQuiet ==
  ASSUME Inv, NEW e \in DOMAIN outbox, BecomeDue(e), UNCHANGED handler
  PROVE  Quiet
<1>1. outbox[e] \in OutboxEvent
  BY EventsTyped DEF Inv
<1>2. outbox' = [outbox EXCEPT ![e].due = TRUE] /\ UNCHANGED tick
  BY DEF BecomeDue, processorVars
<1>3. \A f \in DOMAIN outbox : outbox'[f] = IF f = e THEN [outbox[e] EXCEPT !.due = TRUE] ELSE outbox[f]
  BY <1>2
<1>4. RowsStay
  BY <1>1, <1>2, <1>3 DEF RowsStay, OutboxEvent
<1> QED
  BY <1>2, <1>4, SameTicks, SameRetries DEF Quiet

LEMMA EnqueueIsQuiet ==
  ASSUME Inv, NEW type \in OutboxEventType, NEW r \in Requests, Enqueue(type, r),
         UNCHANGED tick, RetriesStay
  PROVE  Quiet
<1>1. NewEvent(type, r).status = "PENDING"
  BY DEF NewEvent
<1>2. RowsStay
  BY <1>1, Enqueued DEF Inv, RowsStay
<1> QED
  BY <1>2, SameTicks DEF Quiet

LEMMA FinishIsQuiet ==
  ASSUME Inv, NEW h \in Handlers, Finish(h)
  PROVE  RetriesStay
BY DEF Inv, TypeOK, Finish, RetriesStay, Idle

LEMMA ApiKinds ==
  ASSUME Inv, ApiNext, UNCHANGED processorVars
  PROVE  Kinds
<1>1. UNCHANGED tick
  BY DEF processorVars
<1>2. ASSUME UNCHANGED outbox, RetriesStay
      PROVE  Quiet
  BY <1>1, <1>2, SameRows, SameTicks DEF Quiet
<1>3. ASSUME NEW r \in Requests, SubmitRequest(r)
      PROVE  Quiet
  BY <1>2, <1>3, SameRetries DEF SubmitRequest
<1>4. ASSUME NEW h \in Handlers, NEW op \in DOMAIN Decisions, NEW r \in Requests,
             ReadRequest(h, op, r)
      PROVE  Quiet
  <2> DEFINE new == [op |-> op, request |-> r, status |-> status[r], version |-> version[r]]
  <2>1. handler' = [handler EXCEPT ![h] = new] /\ UNCHANGED outbox
    BY <1>4 DEF ReadRequest, storeVars
  <2>2. new.op # "retry"
    BY DEF Decisions
  <2> HIDE DEF new
  <2>3. RetriesStay
    BY <2>1, <2>2 DEF Inv, TypeOK, RetriesStay
  <2> QED
    BY <1>2, <2>1, <2>3
<1>5. ASSUME NEW h \in Handlers, NEW e \in DOMAIN outbox, ReadFailedEvent(h, e)
      PROVE  Quiet
  <2> DEFINE new == [op |-> "retry", event |-> e]
  <2>1. handler' = [handler EXCEPT ![h] = new] /\ UNCHANGED outbox
    BY <1>5 DEF ReadFailedEvent, storeVars
  <2>2. new.event \in DOMAIN outbox /\ outbox[new.event].status = "FAILED"
    BY <1>5 DEF ReadFailedEvent
  <2> HIDE DEF new
  <2>3. RetriesStay
    BY <2>1, <2>2 DEF Inv, TypeOK, RetriesStay
  <2> QED
    BY <1>2, <2>1, <2>3
<1>6. ASSUME NEW h \in Handlers, Approve(h)
      PROVE  Quiet
  <2>1. handler[h].request \in Requests
    BY <1>6, DecidersTyped DEF Inv, Approve, Decisions
  <2> QED
    BY <1>1, <1>6, <2>1, FinishIsQuiet, EnqueueIsQuiet DEF Approve, OutboxEventType
<1>7. ASSUME NEW h \in Handlers, Cancel(h)
      PROVE  Quiet
  <2>1. handler[h].request \in Requests
    BY <1>7, DecidersTyped DEF Inv, Cancel, Decisions
  <2>2. RetriesStay
    BY <1>7, FinishIsQuiet DEF Cancel
  <2> QED
    BY <1>1, <1>2, <1>7, <2>1, <2>2, EnqueueIsQuiet DEF Cancel, OutboxEventType
<1>8. ASSUME NEW h \in Handlers, Reject(h) \/ Conflict(h)
      PROVE  Quiet
  BY <1>2, <1>8, FinishIsQuiet DEF Reject, Conflict, storeVars
<1> QED
  BY <1>1, <1>3, <1>4, <1>5, <1>6, <1>7, <1>8 DEF ApiNext, Kinds

\* Every step is of one of these kinds.
LEMMA NextKinds ==
  ASSUME Inv, Next
  PROVE  Kinds
<1>1. ASSUME NEW t \in Ticks, TickStep(t), UNCHANGED handler
      PROVE  Kinds
  <2>1. ASSUME Skip(t)
        PROVE  Quiet
    <3>1. PICK event \in tick[t].todo : NextRound(t, tick[t].todo \ {event})
      BY <2>1 DEF Skip
    <3>2. ~Working(t)
      BY <2>1 DEF Skip, Reached, Working
    <3> QED
      BY <1>1, <2>1, <3>1, <3>2, RoundIsQuiet DEF Skip, storeVars
  <2> QED
    BY <1>1, <2>1, PollIsQuiet, CallIsQuiet, WriteReleases DEF TickStep, Kinds
<1>2. ASSUME NEW call \in BagToSet(late), DeliverLate(call), UNCHANGED handler
      PROVE  Quiet
  BY <1>2, SameRows, SameTicks, SameRetries DEF DeliverLate, storeVars, Quiet
<1>3. ASSUME NEW t \in Ticks, AbortTick(t)
      PROVE  Quiet
  <2>1. UNCHANGED <<outbox, handler>> /\ tick' = [tick EXCEPT ![t] = IdleTick]
    BY <1>3 DEF AbortTick, storeVars
  <2>2. tick'[t] = IdleTick
    BY <2>1 DEF Inv, TypeOK
  <2>3. TickGoesOn(t)
    BY <2>2 DEF TickGoesOn, Working, IdleTick
  <2>4. faults' # faults
    BY <1>3 DEF AbortTick, Inv, TypeOK
  <2> QED
    BY <2>1, <2>3, <2>4, OneTickQuiet
<1>4. ASSUME Crash
      PROVE  Quiet
  <2>1. RowsStay
    BY <1>4, SameRows DEF Crash, storeVars
  <2>2. \A t \in Ticks : TickGoesOn(t)
    BY <1>4 DEF Crash, TickGoesOn, Working, IdleTick
  <2>3. RetriesStay
    BY <1>4 DEF Crash, RetriesStay, Idle
  <2>4. NobodyStops
    BY <1>4 DEF Crash, NobodyStops, Inv, TypeOK
  <2> QED
    BY <2>1, <2>2, <2>3, <2>4 DEF Quiet
<1> QED
  BY <1>1, <1>2, <1>3, <1>4, ApiKinds, DueIsQuiet
  DEF Next, Serve, ProcessorNext, Kinds

-----------------------------------------------------------------------------
(***************************************************************************)
(* Claims                                                                  *)
(***************************************************************************)

\* What a claim changes.
LEMMA Claiming ==
  ASSUME Inv, NEW t \in Ticks, Claim(t)
  PROVE  \E copy \in tick[t].todo :
           /\ copy.id \in DOMAIN outbox
           /\ outbox[copy.id].status = "PENDING"
           /\ DOMAIN outbox' = DOMAIN outbox
           /\ \A e \in DOMAIN outbox :
                /\ outbox'[e].status = IF e = copy.id THEN "PROCESSING" ELSE outbox[e].status
                /\ outbox'[e].attempts = outbox[e].attempts
                /\ outbox'[e].due = outbox[e].due
           /\ \A u \in Ticks \ {t} : tick'[u] = tick[u]
           /\ tick'[t].stage = "claimed"
           /\ tick'[t].todo = tick[t].todo \ {copy}
           /\ tick'[t].event = copy.id
           /\ tick'[t].attempts = copy.attempts
<1>1. PICK copy \in tick[t].todo :
        /\ outbox[copy.id].status = "PENDING"
        /\ outbox' = [outbox EXCEPT ![copy.id].status = "PROCESSING"]
        /\ tick' = [tick EXCEPT ![t].stage = "claimed", ![t].todo = @ \ {copy},
                                ![t].event = copy.id, ![t].attempts = copy.attempts]
  BY DEF Claim, Claimable
<1>2. tick \in [Ticks -> TickState] /\ tick[t] \in TickState /\ TypeOK
  BY DEF Inv, TypeOK
<1>3. copy.id \in DOMAIN outbox
  BY TickTyped
<1>4. outbox[copy.id] \in OutboxEvent
  BY <1>2, <1>3, EventsTyped
<1>5. /\ DOMAIN outbox' = DOMAIN outbox
      /\ \A e \in DOMAIN outbox :
           /\ outbox'[e].status = IF e = copy.id THEN "PROCESSING" ELSE outbox[e].status
           /\ outbox'[e].attempts = outbox[e].attempts
           /\ outbox'[e].due = outbox[e].due
  BY <1>1, <1>3, <1>4 DEF OutboxEvent
<1>6. /\ \A u \in Ticks \ {t} : tick'[u] = tick[u]
      /\ tick'[t].stage = "claimed"
      /\ tick'[t].todo = tick[t].todo \ {copy}
      /\ tick'[t].event = copy.id
      /\ tick'[t].attempts = copy.attempts
  BY <1>1, <1>2 DEF TickState
<1> QED
  BY <1>1, <1>3, <1>5, <1>6

\* What giving an event back changes.
LEMMA Releasing ==
  ASSUME Inv, NEW t \in Ticks, Releases(t)
  PROVE  /\ tick[t].event \in DOMAIN outbox
         /\ DOMAIN outbox' = DOMAIN outbox
         /\ \A e \in DOMAIN outbox : e # tick[t].event => outbox'[e] = outbox[e]
         /\ LET row == outbox'[tick[t].event]
            IN  \/ /\ row.status = "DONE" /\ tick[t].stage = "answered"
                   /\ row.attempts = Claimed(t).attempts /\ row.due = Claimed(t).due
                \/ /\ row.status \in {"PENDING", "FAILED"}
                   /\ row.attempts = tick[t].attempts + 1
                   /\ GivesBack(t)
         /\ \A u \in Ticks \ {t} : tick'[u] = tick[u]
         /\ tick'[t].todo = tick[t].todo
         /\ ~Working(t)'
<1>1. tick[t].event \in DOMAIN outbox
  BY TickTyped DEF Releases
<1>2. /\ tick' = [tick EXCEPT ![t] = tick'[t]]
      /\ tick'[t].todo = tick[t].todo
      /\ ~Working(t)'
  BY AfterRound DEF Releases
<1>3. \A u \in Ticks \ {t} : tick'[u] = tick[u]
  BY <1>2 DEF Inv, TypeOK
<1> QED
  BY <1>1, <1>2, <1>3 DEF Releases

\* What a retry changes.
LEMMA Retrying ==
  ASSUME Inv, NEW h \in Handlers, RetryEvent(h)
  PROVE  /\ handler[h].op = "retry" /\ handler[h].event \in DOMAIN outbox
         /\ DOMAIN outbox' = DOMAIN outbox
         /\ \A e \in DOMAIN outbox :
              /\ outbox'[e].status = IF e = handler[h].event THEN "PENDING" ELSE outbox[e].status
              /\ outbox'[e].attempts = outbox[e].attempts
              /\ outbox[e].due => outbox'[e].due
         /\ handler'[h] = Idle
         /\ \A g \in Handlers \ {h} : handler'[g] = handler[g]
<1> DEFINE e == handler[h].event
<1>1. e \in DOMAIN outbox /\ TypeOK
  BY DEF Inv, References, RetryEvent
<1>2. outbox[e] \in OutboxEvent
  BY <1>1, EventsTyped
<1>3. outbox' = [outbox EXCEPT ![e].status = "PENDING", ![e].due = TRUE]
  BY DEF RetryEvent
<1>4. handler' = [handler EXCEPT ![h] = Idle]
  BY DEF RetryEvent, Finish
<1> QED
  BY <1>1, <1>2, <1>3, <1>4 DEF RetryEvent, TypeOK, OutboxEvent

\* Only a retry of an event that somebody has claimed could give it to two ticks.
LEMMA StepExclusive ==
  ASSUME Inv, Kinds, ClaimsAreExclusive, ~StaleRetry
  PROVE  ClaimsAreExclusive'
<1>0. /\ \A t \in Ticks : Working(t) => /\ tick[t].event \in DOMAIN outbox
                                       /\ outbox[tick[t].event].status = "PROCESSING"
      /\ \A t, u \in Ticks : Working(t) /\ Working(u) /\ t # u => tick[u].event # tick[t].event
  BY DEF Inv, References, ClaimsAreExclusive, Claimed
<1> DEFINE Goal ==
      /\ \A t \in Ticks : Working(t)' => outbox'[tick'[t].event].status = "PROCESSING"
      /\ \A t, u \in Ticks :
           Working(t)' /\ Working(u)' /\ t # u => tick'[u].event # tick'[t].event
<1> SUFFICES Goal
  BY DEF ClaimsAreExclusive, Claimed
<1>1. CASE Quiet
  BY <1>0, <1>1 DEF Quiet, RowsStay, TickGoesOn, TickPolls
<1>2. ASSUME NEW t \in Ticks, Claim(t)
      PROVE  Goal
  <2>1. PICK copy \in tick[t].todo :
          /\ copy.id \in DOMAIN outbox
          /\ outbox[copy.id].status = "PENDING"
          /\ \A e \in DOMAIN outbox :
               outbox'[e].status = IF e = copy.id THEN "PROCESSING" ELSE outbox[e].status
          /\ \A u \in Ticks \ {t} : tick'[u] = tick[u]
          /\ tick'[t].event = copy.id
    BY <1>2, Claiming
  <2>2. \A u \in Ticks \ {t} : Working(u)' => Working(u) /\ tick'[u].event = tick[u].event
    BY <2>1 DEF Working
  <2> QED
    BY <1>0, <2>1, <2>2
<1>3. ASSUME NEW t \in Ticks, Releases(t)
      PROVE  Goal
  <2>1. /\ \A e \in DOMAIN outbox : e # tick[t].event => outbox'[e] = outbox[e]
        /\ \A u \in Ticks \ {t} : tick'[u] = tick[u]
        /\ ~Working(t)'
        /\ Working(t)
    BY <1>3, Releasing DEF Releases
  <2>2. \A u \in Ticks : Working(u)' => u # t /\ Working(u) /\ tick'[u].event = tick[u].event
    BY <2>1 DEF Working
  <2> QED
    BY <1>0, <2>1, <2>2
<1>4. ASSUME NEW h \in Handlers, RetryEvent(h), UNCHANGED tick
      PROVE  Goal
  <2>1. /\ outbox[handler[h].event].status = "FAILED"
        /\ \A e \in DOMAIN outbox :
             outbox'[e].status = IF e = handler[h].event THEN "PENDING" ELSE outbox[e].status
    BY <1>4, Retrying DEF StaleRetry
  <2>2. \A u \in Ticks : Working(u)' => Working(u) /\ tick'[u].event = tick[u].event
    BY <1>4 DEF Working
  <2> QED
    BY <1>0, <2>1, <2>2
<1> QED
  BY <1>1, <1>2, <1>3, <1>4 DEF Kinds

\* A handler that is alone finds the event FAILED that it is about to retry.
LEMMA StepRetries ==
  ASSUME Inv, Kinds, ClaimsAreExclusive, RetriesFindFailed, OneAtATime
  PROVE  RetriesFindFailed'
<1>0. /\ \A t \in Ticks : Working(t) => outbox[tick[t].event].status = "PROCESSING"
      /\ \A h \in Handlers : handler[h].op = "retry" =>
           handler[h].event \in DOMAIN outbox /\ outbox[handler[h].event].status = "FAILED"
  BY DEF Inv, References, ClaimsAreExclusive, RetriesFindFailed, Claimed
<1> DEFINE Goal ==
      \A h \in Handlers : handler'[h].op = "retry" => outbox'[handler'[h].event].status = "FAILED"
<1> SUFFICES Goal
  BY DEF RetriesFindFailed
<1>1. CASE Quiet
  BY <1>0, <1>1 DEF Quiet, RowsStay, RetriesStay
<1>2. ASSUME NEW t \in Ticks, Claim(t), UNCHANGED handler
      PROVE  Goal
  BY <1>0, <1>2, Claiming
<1>3. ASSUME NEW t \in Ticks, Releases(t)
      PROVE  Goal
  BY <1>0, <1>3, Releasing DEF Releases
<1>4. ASSUME NEW h \in Handlers, RetryEvent(h)
      PROVE  Goal
  <2>1. /\ handler[h].op = "retry" /\ handler'[h] = Idle
        /\ \A g \in Handlers \ {h} : handler'[g] = handler[g]
    BY <1>4, Retrying
  <2>2. handler[h] # Idle /\ Idle.op # "retry"
    BY <2>1 DEF Idle
  <2>3. \A g \in Handlers \ {h} : handler[g] = Idle
    BY <2>2 DEF OneAtATime
  <2> QED
    BY <2>1, <2>2, <2>3
<1> QED
  BY <1>1, <1>2, <1>3, <1>4 DEF Kinds

\* With the synchronous driver, a handler that has started is the only one until
\* it returns.
LEMMA StepOneAtATime ==
  ASSUME Inv, OneAtATime, Next, RunsToAwait
  PROVE  OneAtATime'
<1>1. \/ \A h \in Handlers : handler'[h] \in {handler[h], Idle}
      \/ \E h \in Handlers : handler[h] = Idle /\ \A g \in Handlers \ {h} : handler'[g] = handler[g]
  <2>1. ASSUME NEW h \in Handlers, NEW new, handler' = [handler EXCEPT ![h] = new]
        PROVE  \A g \in Handlers \ {h} : handler'[g] = handler[g]
    BY <2>1 DEF Inv, TypeOK
  <2>2. ASSUME NEW h \in Handlers, Finish(h)
        PROVE  \A g \in Handlers : handler'[g] \in {handler[g], Idle}
    BY <2>2 DEF Inv, TypeOK, Finish
  <2>3. CASE ApiNext
    BY <2>1, <2>2, <2>3
    DEF ApiNext, SubmitRequest, ReadRequest, ReadFailedEvent, Approve, Reject, Cancel,
        Conflict, RetryEvent
  <2>4. CASE UNCHANGED handler
    BY <2>4
  <2>5. CASE Crash
    BY <2>5 DEF Crash
  <2> QED
    BY <2>3, <2>4, <2>5 DEF Next, Serve, AbortTick
<1>2. ASSUME NEW h \in Handlers, handler[h] = Idle,
             \A g \in Handlers \ {h} : handler'[g] = handler[g]
      PROVE  \A g \in Handlers \ {h} : handler'[g] = Idle
  BY <1>2 DEF RunsToAwait
<1> QED
  BY <1>1, <1>2 DEF OneAtATime

ClaimsHold == ClaimsAreExclusive /\ RetriesFindFailed

LEMMA InitClaims == Init => ClaimsHold /\ OneAtATime
BY DEF Init, ApiInit, ProcessorInit, ClaimsHold, ClaimsAreExclusive, RetriesFindFailed,
       OneAtATime, Working, IdleTick, Idle

LEMMA StutterClaims ==
  ASSUME UNCHANGED vars
  PROVE  /\ ClaimsHold => ClaimsHold'
         /\ OneAtATime => OneAtATime'
<1>1. UNCHANGED <<outbox, tick, handler>>
  BY DEF vars, storeVars, processorVars
<1> QED
  BY <1>1 DEF ClaimsHold, ClaimsAreExclusive, RetriesFindFailed, OneAtATime, Working, Claimed

LEMMA NextClaims == Inv /\ ClaimsHold /\ OneAtATime /\ [Next]_vars => ClaimsHold'
<1> SUFFICES ASSUME Inv, ClaimsHold, OneAtATime, Next
             PROVE  ClaimsHold'
  BY StutterClaims
<1>1. Kinds /\ ~StaleRetry
  BY NextKinds DEF StaleRetry, ClaimsHold, RetriesFindFailed, RetryEvent
<1> QED
  BY <1>1, StepExclusive, StepRetries DEF ClaimsHold

\* In the build as it is configured, with any number of handlers and ticks, the
\* conditional update of tick gives every event to one tick at a time.
THEOREM ClaimsKeepTicksApart == SynchronousSpec => []ClaimsAreExclusive
<1>1. Init => Inv /\ ClaimsHold /\ OneAtATime
  BY InitInv, InitClaims
<1>2. Inv /\ ClaimsHold /\ OneAtATime /\ [Next /\ RunsToAwait]_vars
        => (Inv /\ ClaimsHold /\ OneAtATime)'
  <2> SUFFICES ASSUME Inv, ClaimsHold, OneAtATime, [Next /\ RunsToAwait]_vars
               PROVE  Inv' /\ ClaimsHold' /\ OneAtATime'
    OBVIOUS
  <2>1. Inv' /\ ClaimsHold'
    BY NextInv, NextClaims
  <2>2. OneAtATime'
    BY StepOneAtATime, StutterClaims
  <2> QED
    BY <2>1, <2>2
<1>3. ClaimsHold => ClaimsAreExclusive
  BY DEF ClaimsHold
<1> QED
  BY <1>1, <1>2, <1>3, PTL DEF SynchronousSpec

\* With interruptions at every await, any number of handlers and ticks, and
\* crashes, the claim keeps ticks apart until an admin's retry resets an event
\* that was FAILED when it was read and is not any more: retryEvent
\* updates by id alone.
THEOREM OnlyStaleRetriesMixTicks ==
  Spec => [][ClaimsAreExclusive => ClaimsAreExclusive' \/ StaleRetry]_vars
<1>1. Inv /\ [Next]_vars => [ClaimsAreExclusive => ClaimsAreExclusive' \/ StaleRetry]_vars
  BY NextKinds, StepExclusive
<1> QED
  BY <1>1, Invariance, PTL DEF Spec

-----------------------------------------------------------------------------
(***************************************************************************)
(* Attempts and backoff                                                    *)
(***************************************************************************)

LEMMA StepTodo ==
  ASSUME Inv, Kinds, TodoIsProper
  PROVE  TodoIsProper'
<1> SUFFICES ASSUME NEW t \in Ticks
             PROVE  /\ \A c, d \in tick'[t].todo : c.id = d.id => c = d
                    /\ Working(t)' => \A copy \in tick'[t].todo : copy.id # tick'[t].event
  BY DEF TodoIsProper
<1>1. /\ \A c, d \in tick[t].todo : c.id = d.id => c = d
      /\ Working(t) => \A copy \in tick[t].todo : copy.id # tick[t].event
  BY DEF TodoIsProper
<1>2. CASE UNCHANGED tick
  BY <1>1, <1>2 DEF Working
<1>3. CASE Quiet
  BY <1>1, <1>3 DEF Quiet, TickGoesOn, TickPolls
<1>4. ASSUME NEW u \in Ticks, Claim(u) \/ Releases(u), u # t
      PROVE  tick'[t] = tick[t]
  BY <1>4, Claiming, Releasing
<1>5. CASE tick'[t] = tick[t]
  BY <1>1, <1>5 DEF Working
<1>6. CASE Claim(t)
  <2>1. PICK copy \in tick[t].todo :
          tick'[t].todo = tick[t].todo \ {copy} /\ tick'[t].event = copy.id
    BY <1>6, Claiming
  <2> QED
    BY <1>1, <2>1
<1>7. CASE Releases(t)
  BY <1>1, <1>7, Releasing
<1> QED
  BY <1>2, <1>3, <1>4, <1>5, <1>6, <1>7 DEF Kinds

\* A copy goes stale only when another tick gives the event back.
LEMMA StepFresh ==
  ASSUME Inv, Kinds, TodoIsProper, NEW t \in Ticks, NEW copy \in tick[t].todo, Fresh(copy),
         \A u \in Ticks : Overtakes(u) => tick[u].event # copy.id
  PROVE  Fresh(copy)'
<1>1. copy.id \in DOMAIN outbox /\ outbox[copy.id].due /\ outbox[copy.id].attempts = copy.attempts
  BY TickTyped DEF Inv, Fresh
<1> SUFFICES outbox'[copy.id].due /\ outbox'[copy.id].attempts = copy.attempts
  BY DEF Fresh
<1>2. CASE Quiet
  BY <1>1, <1>2 DEF Quiet, RowsStay
<1>3. ASSUME NEW u \in Ticks, Claim(u)
      PROVE  outbox'[copy.id].due /\ outbox'[copy.id].attempts = copy.attempts
  BY <1>1, <1>3, Claiming
<1>4. ASSUME NEW u \in Ticks, Releases(u)
      PROVE  outbox'[copy.id].due /\ outbox'[copy.id].attempts = copy.attempts
  <2>1. CASE tick[u].event = copy.id
    <3>1. u # t
      BY <1>4, <2>1 DEF TodoIsProper, Releases
    <3>2. ~GivesBack(u)
      BY <2>1, <3>1 DEF Overtakes
    <3> QED
      BY <1>1, <1>4, <2>1, <3>2, Releasing DEF Claimed
  <2>2. CASE tick[u].event # copy.id
    BY <1>1, <1>4, <2>2, Releasing
  <2> QED
    BY <2>1, <2>2
<1>5. ASSUME NEW h \in Handlers, RetryEvent(h)
      PROVE  outbox'[copy.id].due /\ outbox'[copy.id].attempts = copy.attempts
  BY <1>1, <1>5, Retrying
<1> QED
  BY <1>2, <1>3, <1>4, <1>5 DEF Kinds

\* What a tick reads is fresh when it is read.
LEMMA StepCopiesFresh ==
  ASSUME Inv, Kinds, TodoIsProper, CopiesAreFresh, NobodyOvertakes
  PROVE  CopiesAreFresh'
<1> SUFFICES ASSUME NEW t \in Ticks, NEW copy \in tick'[t].todo
             PROVE  Fresh(copy)'
  BY DEF CopiesAreFresh
<1>1. CASE copy \in tick[t].todo
  BY <1>1, StepFresh DEF CopiesAreFresh, NobodyOvertakes
<1>2. CASE Quiet /\ TickPolls(t)
  <2>1. copy.id \in DOMAIN outbox /\ outbox[copy.id].due /\ outbox[copy.id].attempts = copy.attempts
    BY <1>2 DEF TickPolls, Fresh
  <2>2. outbox'[copy.id].due /\ outbox'[copy.id].attempts = copy.attempts
    BY <1>2, <2>1 DEF Quiet, RowsStay
  <2> QED
    BY <2>2 DEF Fresh
<1>3. CASE Quiet /\ TickGoesOn(t)
  BY <1>1, <1>3 DEF TickGoesOn
<1>4. ASSUME NEW u \in Ticks, Claim(u) \/ Releases(u)
      PROVE  tick'[t].todo \subseteq tick[t].todo
  BY <1>4, Claiming, Releasing
<1> QED
  BY <1>1, <1>2, <1>3, <1>4 DEF Kinds, Quiet

\* A claim from a fresh copy takes the row's attempts over, and they stay with
\* the tick as long as nobody else has claimed the event.
LEMMA StepMatch ==
  ASSUME Inv, Kinds, ClaimsAreExclusive, CopiesAreFresh, AttemptsMatch
  PROVE  AttemptsMatch'
<1> SUFFICES ASSUME NEW t \in Ticks, Working(t)'
             PROVE  tick'[t].attempts = outbox'[tick'[t].event].attempts
  BY DEF AttemptsMatch, Claimed
<1>1. Working(t) => /\ tick[t].event \in DOMAIN outbox
                    /\ tick[t].attempts = outbox[tick[t].event].attempts
  BY TickTyped DEF Inv, AttemptsMatch, Claimed
<1>2. CASE Quiet
  BY <1>1, <1>2 DEF Quiet, RowsStay, TickGoesOn, TickPolls
<1>3. CASE Claim(t)
  <2>1. PICK copy \in tick[t].todo :
          /\ copy.id \in DOMAIN outbox
          /\ \A e \in DOMAIN outbox : outbox'[e].attempts = outbox[e].attempts
          /\ tick'[t].event = copy.id
          /\ tick'[t].attempts = copy.attempts
    BY <1>3, Claiming
  <2> QED
    BY <2>1 DEF CopiesAreFresh, Fresh
<1>4. ASSUME NEW u \in Ticks \ {t}, Claim(u)
      PROVE  tick'[t].attempts = outbox'[tick'[t].event].attempts
  <2>1. /\ \A e \in DOMAIN outbox : outbox'[e].attempts = outbox[e].attempts
        /\ tick'[t] = tick[t]
    BY <1>4, Claiming
  <2> QED
    BY <1>1, <2>1 DEF Working
<1>5. ASSUME NEW u \in Ticks, Releases(u)
      PROVE  tick'[t].attempts = outbox'[tick'[t].event].attempts
  <2>1. /\ \A e \in DOMAIN outbox : e # tick[u].event => outbox'[e] = outbox[e]
        /\ \A v \in Ticks \ {u} : tick'[v] = tick[v]
        /\ ~Working(u)' /\ Working(u)
    BY <1>5, Releasing DEF Releases
  <2>2. t # u /\ tick'[t] = tick[t] /\ Working(t)
    BY <2>1 DEF Working
  <2>3. tick[t].event # tick[u].event
    BY <2>1, <2>2 DEF ClaimsAreExclusive
  <2> QED
    BY <1>1, <2>1, <2>2, <2>3
<1>6. ASSUME NEW h \in Handlers, RetryEvent(h), UNCHANGED tick
      PROVE  tick'[t].attempts = outbox'[tick'[t].event].attempts
  <2>1. \A e \in DOMAIN outbox : outbox'[e].attempts = outbox[e].attempts
    BY <1>6, Retrying
  <2> QED
    BY <1>1, <1>6, <2>1 DEF Working
<1> QED
  BY <1>2, <1>3, <1>4, <1>5, <1>6 DEF Kinds

LEMMA InitFresh == Init => TodoIsProper /\ CopiesAreFresh /\ AttemptsMatch
BY DEF Init, ProcessorInit, TodoIsProper, CopiesAreFresh, AttemptsMatch, Working, IdleTick

LEMMA StutterFresh ==
  ASSUME UNCHANGED <<outbox, tick>>
  PROVE  /\ TodoIsProper => TodoIsProper'
         /\ CopiesAreFresh => CopiesAreFresh'
         /\ AttemptsMatch => AttemptsMatch'
         /\ \A copy : Fresh(copy) => Fresh(copy)'
BY DEF TodoIsProper, CopiesAreFresh, AttemptsMatch, Fresh, Working, Claimed

LEMMA NextFresh ==
  ASSUME Inv, [Next]_vars, TodoIsProper
  PROVE  /\ TodoIsProper'
         /\ CopiesAreFresh /\ [NobodyOvertakes]_vars => CopiesAreFresh'
         /\ ClaimsAreExclusive /\ CopiesAreFresh /\ AttemptsMatch => AttemptsMatch'
<1>1. CASE UNCHANGED vars
  <2>1. UNCHANGED <<outbox, tick>>
    BY <1>1 DEF vars, storeVars, processorVars
  <2> QED
    BY <2>1, StutterFresh
<1>2. CASE Next /\ ~UNCHANGED vars
  BY <1>2, NextKinds, StepTodo, StepCopiesFresh, StepMatch
<1> QED
  BY <1>1, <1>2

\* The copy of an event that a tick has read goes stale only because another tick
\* gives that event back before the first has reached it; no handler, retry or
\* crash makes it so.
StaysFresh ==
  \A t \in Ticks : \A copy \in tick[t].todo \cap tick'[t].todo :
    Fresh(copy) => Fresh(copy)' \/ \E u \in Ticks : Overtakes(u) /\ tick[u].event = copy.id

THEOREM OnlyOvertakingStalesCopies == Spec => [][StaysFresh]_vars
<1>1. Init => TodoIsProper
  BY InitFresh
<1>2. Inv /\ TodoIsProper /\ [Next]_vars => TodoIsProper'
  BY NextFresh
<1>3. Inv /\ TodoIsProper /\ [Next]_vars => [StaysFresh]_vars
  <2> SUFFICES ASSUME Inv, TodoIsProper, Next
               PROVE  StaysFresh
    OBVIOUS
  <2> QED
    BY NextKinds, StepFresh DEF StaysFresh
<1> QED
  BY <1>1, <1>2, <1>3, Invariance, PTL DEF Spec

\* An event is claimed from a copy that is still fresh.
LEMMA StepBackoff ==
  ASSUME Inv, Kinds, CopiesAreFresh,
         NEW e \in DOMAIN outbox,
         outbox[e].status = "PENDING", outbox'[e].status = "PROCESSING"
  PROVE  outbox[e].due
<1>1. ASSUME NEW t \in Ticks, Claim(t)
      PROVE  outbox[e].due
  <2>1. PICK copy \in tick[t].todo :
          \A f \in DOMAIN outbox :
            outbox'[f].status = IF f = copy.id THEN "PROCESSING" ELSE outbox[f].status
    BY <1>1, Claiming
  <2>2. e = copy.id
    BY <2>1
  <2> QED
    BY <2>2 DEF CopiesAreFresh, Fresh
<1>2. ASSUME NEW t \in Ticks, Releases(t)
      PROVE  FALSE
  BY <1>2, Releasing
<1>3. ASSUME NEW h \in Handlers, RetryEvent(h)
      PROVE  FALSE
  BY <1>3, Retrying
<1>4. ~Quiet
  BY DEF Quiet, RowsStay
<1> QED
  BY <1>1, <1>2, <1>3, <1>4 DEF Kinds

\* What counts an attempt is the tick that made it, and no retry undoes it.
LEMMA StepAttempts ==
  ASSUME Inv, Kinds, AttemptsMatch, RetriesFindFailed,
         NEW e \in DOMAIN outbox,
         outbox[e].status = "PROCESSING", outbox'[e].status \in {"PENDING", "FAILED"}
  PROVE  outbox'[e].attempts = outbox[e].attempts + 1
<1>1. ASSUME NEW t \in Ticks, Claim(t)
      PROVE  FALSE
  BY <1>1, Claiming
<1>2. ASSUME NEW t \in Ticks, Releases(t)
      PROVE  outbox'[e].attempts = outbox[e].attempts + 1
  <2>1. e = tick[t].event /\ Working(t)
    BY <1>2, Releasing DEF Releases
  <2>2. tick[t].attempts = outbox[e].attempts
    BY <2>1 DEF AttemptsMatch, Claimed
  <2> QED
    BY <1>2, <2>1, <2>2, Releasing
<1>3. ASSUME NEW h \in Handlers, RetryEvent(h)
      PROVE  FALSE
  BY <1>3, Retrying DEF RetriesFindFailed
<1>4. ~Quiet
  BY DEF Quiet, RowsStay
<1> QED
  BY <1>1, <1>2, <1>3, <1>4 DEF Kinds

\* Unless a tick gives an event back that another tick has read, no event is
\* claimed before its backoff has passed, whatever ticks, handlers and crashes
\* do.  Overlapping ticks do overtake one another: that is the only gap.
THEOREM BackoffIsHonoured == Spec /\ [][NobodyOvertakes]_vars => BackoffHonoured
<1>1. Init => TodoIsProper /\ CopiesAreFresh
  BY InitFresh
<1>2. Inv /\ TodoIsProper /\ CopiesAreFresh /\ [Next]_vars /\ [NobodyOvertakes]_vars
        => TodoIsProper' /\ CopiesAreFresh'
  BY NextFresh
<1>3. Inv /\ CopiesAreFresh /\ [Next]_vars =>
        [\A e \in DOMAIN outbox :
           outbox[e].status = "PENDING" /\ outbox'[e].status = "PROCESSING" => outbox[e].due]_vars
  BY NextKinds, StepBackoff
<1> QED
  BY <1>1, <1>2, <1>3, Invariance, PTL DEF Spec, BackoffHonoured

\* With the synchronous driver every failed attempt counts towards
\* HCM_MAX_RETRIES, however many ticks are at work, unless one of them gives an
\* event back that another has read.
THEOREM AttemptsAreCounted ==
  SynchronousSpec /\ [][NobodyOvertakes]_vars => AttemptsCounted
<1> DEFINE AttemptState ==
      Inv /\ ClaimsHold /\ OneAtATime /\ TodoIsProper /\ CopiesAreFresh /\ AttemptsMatch
<1>1. Init => AttemptState
  BY InitInv, InitClaims, InitFresh
<1>2. AttemptState /\ [Next /\ RunsToAwait]_vars /\ [NobodyOvertakes]_vars => AttemptState'
  <2> SUFFICES ASSUME AttemptState, [Next /\ RunsToAwait]_vars, [NobodyOvertakes]_vars
               PROVE  AttemptState'
    OBVIOUS
  <2>1. Inv' /\ ClaimsHold'
    BY NextInv, NextClaims
  <2>2. TodoIsProper' /\ CopiesAreFresh' /\ AttemptsMatch'
    BY NextFresh DEF ClaimsHold
  <2>3. OneAtATime'
    BY StepOneAtATime, StutterClaims
  <2> QED
    BY <2>1, <2>2, <2>3
<1>3. AttemptState /\ [Next /\ RunsToAwait]_vars =>
        [\A e \in DOMAIN outbox :
           outbox[e].status = "PROCESSING" /\ outbox'[e].status \in {"PENDING", "FAILED"}
             => outbox'[e].attempts = outbox[e].attempts + 1]_vars
  BY NextKinds, StepAttempts DEF ClaimsHold
<1> QED
  BY <1>1, <1>2, <1>3, PTL DEF SynchronousSpec, AttemptsCounted

-----------------------------------------------------------------------------
(***************************************************************************)
(* Requests that wait                                                      *)
(***************************************************************************)

\* An event in hand stays in hand or is settled, unless something crashes.
LEMMA StepInHand ==
  ASSUME Inv, Kinds, faults' = faults, NEW e \in DOMAIN outbox, InHand(e)
  PROVE  InHand(e)' \/ outbox'[e].status \in {"FAILED", "DONE"}
<1> DEFINE Goal ==
      \/ outbox'[e].status \in {"PENDING", "FAILED", "DONE"}
      \/ /\ outbox'[e].status = "PROCESSING"
         /\ \E t \in Ticks : Working(t)' /\ tick'[t].event = e
<1> SUFFICES Goal
  BY DEF InHand
<1>1. \/ outbox[e].status = "PENDING"
      \/ outbox[e].status = "PROCESSING" /\ \E t \in Ticks : Working(t) /\ tick[t].event = e
  BY DEF InHand
<1>2. ASSUME outbox'[e].status = outbox[e].status,
             \A t \in Ticks : Working(t) /\ tick[t].event = e => Working(t)' /\ tick'[t].event = e
      PROVE  Goal
  BY <1>1, <1>2
<1>3. CASE Quiet
  <2>1. ASSUME NEW t \in Ticks, Working(t)
        PROVE  Working(t)' /\ tick'[t].event = tick[t].event
    BY <1>3, <2>1 DEF Quiet, NobodyStops, TickGoesOn, TickPolls
  <2> QED
    BY <1>2, <1>3, <2>1 DEF Quiet, RowsStay
<1>4. ASSUME NEW t \in Ticks, Claim(t)
      PROVE  Goal
  <2>1. PICK copy \in tick[t].todo :
          /\ outbox'[e].status = IF e = copy.id THEN "PROCESSING" ELSE outbox[e].status
          /\ \A u \in Ticks \ {t} : tick'[u] = tick[u]
          /\ tick'[t].stage = "claimed"
          /\ tick'[t].event = copy.id
    BY <1>4, Claiming
  <2>2. CASE e = copy.id
    BY <2>1, <2>2 DEF Working
  <2>3. CASE e # copy.id
    <3>1. ~Working(t)
      BY <1>4 DEF Claim, Reached, Working
    <3> QED
      BY <1>2, <2>1, <2>3, <3>1 DEF Working
  <2> QED
    BY <2>2, <2>3
<1>5. ASSUME NEW t \in Ticks, Releases(t)
      PROVE  Goal
  <2>1. CASE e = tick[t].event
    BY <1>5, <2>1, Releasing
  <2>2. CASE e # tick[t].event
    <3>1. outbox'[e] = outbox[e] /\ \A u \in Ticks \ {t} : tick'[u] = tick[u]
      BY <1>5, <2>2, Releasing
    <3> QED
      BY <1>2, <2>2, <3>1 DEF Working
  <2> QED
    BY <2>1, <2>2
<1>6. ASSUME NEW h \in Handlers, RetryEvent(h), UNCHANGED tick
      PROVE  Goal
  <2>1. outbox'[e].status \in {"PENDING", outbox[e].status}
    BY <1>6, Retrying
  <2> QED
    BY <1>2, <1>6, <2>1 DEF Working
<1> QED
  BY <1>3, <1>4, <1>5, <1>6 DEF Kinds

LEMMA StepFailed ==
  ASSUME Inv, Kinds, NEW e \in DOMAIN outbox, outbox[e].status = "FAILED"
  PROVE  outbox'[e].status \in {"FAILED", "PENDING", "DONE"}
<1>1. CASE Quiet
  BY <1>1 DEF Quiet, RowsStay
<1> QED
  BY <1>1, Claiming, Releasing, Retrying DEF Kinds

LEMMA StepAttended ==
  ASSUME Inv, Next, faults' = faults, NEW r \in Requests, IsAttended(r)
  PROVE  IsAttended(r)'
<1>1. Kinds /\ Steps
  BY NextKinds, NextSteps
<1>2. /\ status \in [Requests -> RequestStatus \cup {Absent}]
      /\ DOMAIN outbox \subseteq DOMAIN outbox'
      /\ \A e \in DOMAIN outbox :
           outbox'[e].type = outbox[e].type /\ outbox'[e].request = outbox[e].request
  BY <1>1 DEF Inv, TypeOK, Steps, EventsStay
<1>3. \A e \in EventsFor("HCM_DEDUCT", r) : e \in EventsFor("HCM_DEDUCT", r)'
  BY <1>2 DEF EventsFor
<1>4. ASSUME NEW e \in EventsFor("HCM_DEDUCT", r)
      PROVE  /\ outbox'[e].status = "FAILED" /\ outbox[e].status # "FAILED"
                  => status'[r] # "APPROVED_PENDING_HCM"
             /\ outbox'[e].status = "DONE" /\ outbox[e].status # "DONE"
                  => status'[r] \in {"APPROVED", "CANCELLED"}
             /\ outbox[e].status = "FAILED" => outbox'[e].status \in {"FAILED", "PENDING", "DONE"}
             /\ InHand(e) => InHand(e)' \/ outbox'[e].status \in {"FAILED", "DONE"}
             /\ InHand(e) => outbox[e].status \notin {"FAILED", "DONE"}
  <2>1. e \in DOMAIN outbox /\ outbox[e].type = "HCM_DEDUCT" /\ RequestOf(e) = r
    BY DEF EventsFor, RequestOf
  <2>2. /\ outbox'[e].status = "FAILED" /\ outbox[e].status # "FAILED"
             => status'[r] # "APPROVED_PENDING_HCM"
        /\ outbox'[e].status = "DONE" /\ outbox[e].status # "DONE"
             => status'[r] \in {"APPROVED", "CANCELLED"}
    BY <1>1, <2>1, EventAfter
  <2> QED
    BY <1>1, <2>1, <2>2, StepInHand, StepFailed DEF InHand
<1>5. ASSUME status'[r] = "APPROVED_PENDING_HCM"
      PROVE  \E e \in EventsFor("HCM_DEDUCT", r)' : InHand(e)'
  <2>1. CASE status[r] = "APPROVED_PENDING_HCM"
    <3>1. PICK e \in EventsFor("HCM_DEDUCT", r) : InHand(e)
      BY <2>1 DEF IsAttended
    <3> QED
      BY <1>3, <1>4, <1>5, <3>1
  <2>2. CASE status[r] # "APPROVED_PENDING_HCM"
    <3>1. PICK q \in Requests, to \in RequestStatus :
            TransitionRequest(q, to, version[q]) /\ ComesWith(q, to)
      BY <1>1, <1>2, <1>5, <2>2 DEF Steps, Moves, StatusMoves
    <3>2. q = r /\ to = "APPROVED_PENDING_HCM"
      BY <1>2, <1>5, <2>2, <3>1 DEF TransitionRequest
    <3>3. Enqueue("HCM_DEDUCT", r)
      BY <3>1, <3>2 DEF ComesWith
    <3>4. PICK e \in DOMAIN outbox' : outbox'[e] = NewEvent("HCM_DEDUCT", r)
      BY <3>3, Enqueued DEF Inv, OutboxEventType
    <3> QED
      BY <3>4 DEF NewEvent, EventsFor, InHand
  <2> QED
    BY <2>1, <2>2
<1>6. ASSUME status'[r] = "FAILED"
      PROVE  \E e \in EventsFor("HCM_DEDUCT", r)' : InHand(e)' \/ outbox'[e].status = "FAILED"
  <2>1. CASE status[r] = "FAILED"
    <3>1. PICK e \in EventsFor("HCM_DEDUCT", r) : InHand(e) \/ outbox[e].status = "FAILED"
      BY <2>1 DEF IsAttended
    <3>2. InHand(e)' \/ outbox'[e].status \in {"FAILED", "PENDING"}
      BY <1>4, <1>6, <3>1
    <3> QED
      BY <1>3, <3>2 DEF InHand
  <2>2. CASE status[r] # "FAILED"
    <3>1. PICK q \in Requests, to \in RequestStatus :
            TransitionRequest(q, to, version[q]) /\ ComesWith(q, to)
      BY <1>1, <1>2, <1>6, <2>2 DEF Steps, Moves, StatusMoves
    <3>2. q = r /\ to = "FAILED"
      BY <1>2, <1>6, <2>2, <3>1 DEF TransitionRequest
    <3>3. PICK e \in DOMAIN outbox : /\ outbox[e].type = "HCM_DEDUCT" /\ RequestOf(e) = r
                                     /\ outbox'[e].status = "FAILED"
      BY <3>1, <3>2 DEF ComesWith
    <3> QED
      BY <1>3, <3>3 DEF EventsFor, RequestOf
  <2> QED
    BY <2>1, <2>2
<1> QED
  BY <1>5, <1>6 DEF IsAttended

LEMMA NextAttended ==
  ASSUME Inv, Next, NEW r \in Requests
  PROVE  IsAttended(r) => IsAttended(r)' \/ faults' # faults
BY StepAttended

\* A request that waits for the HCM keeps a deduction that is PENDING or at work
\* in some tick, and a FAILED one keeps a deduction that can be retried, whatever
\* ticks overlap, calls are lost or late, writes fail, attempts run out or events
\* are retried; only a crash or an aborted tick takes that away.
THEOREM NobodyIsStranded == Spec => OnlyFaultsStrandRequests
<1>1. Inv /\ [Next]_vars =>
        [\A r \in Requests : IsAttended(r) => IsAttended(r)' \/ faults' # faults]_vars
  BY NextAttended
<1> QED
  BY <1>1, Invariance, PTL DEF Spec, OnlyFaultsStrandRequests

-----------------------------------------------------------------------------
(***************************************************************************)
(* Days that were reversed                                                 *)
(***************************************************************************)

\* No deduction is under way whose caller has given up.
NoLateDeduction == \A call \in BagToSet(late) : call.type # "HCM_DEDUCT"

\* A request knows an id only once its deduction is DONE, and then it is the id
\* of what the HCM holds for it.
LearntIds ==
  \A r \in Requests : hcmRequestId[r] # 0 =>
    /\ \E e \in EventsFor("HCM_DEDUCT", r) : outbox[e].status = "DONE"
    /\ \A d \in DeductionsFor(r) : d.id = hcmRequestId[r]

\* The answer that a tick holds is still the HCM's.
AnswersAreExact ==
  \A t \in Ticks : tick[t].stage = "answered" /\ Claimed(t).type = "HCM_DEDUCT" =>
    \A d \in deductions : d.key = tick[t].event => d.id = tick[t].hcmId

\* A reversal asks for the id that the request knows, and once it is answered the
\* days are back.
ReversalsAreExact ==
  \A t \in Ticks : Working(t) /\ Claimed(t).type = "HCM_REVERSE" =>
    /\ tick[t].stage \in {"waiting", "answered"} =>
         tick[t].hcmId = hcmRequestId[Claimed(t).request]
    /\ tick[t].stage = "answered" => DeductionsFor(Claimed(t).request) = {}

ReturnInv == LearntIds /\ AnswersAreExact /\ ReversalsAreExact /\ CancelledDaysReturned

\* A step that learns no id, files or removes no deduction and is no answer.
Plain ==
  /\ UNCHANGED <<deductions, hcmRequestId>>
  /\ \A t \in Ticks : tick'[t].stage = "answered" => tick[t].stage = "answered"

LEMMA TicksArePlain ==
  ASSUME Inv, NEW t \in Ticks,
         \/ \E todo : NextRound(t, todo)
         \/ Goto(t, "waiting") \/ Goto(t, "failed")
         \/ \E id : tick' = [tick EXCEPT ![t].stage = "waiting", ![t].hcmId = id]
         \/ tick' = [tick EXCEPT ![t] = IdleTick]
  PROVE  \A u \in Ticks : tick'[u].stage = "answered" => tick[u].stage = "answered"
<1>1. tick \in [Ticks -> TickState] /\ tick[t] \in TickState
  BY DEF Inv, TypeOK
<1>2. \A u \in Ticks \ {t} : tick'[u] = tick[u]
  BY <1>1 DEF Goto, NextRound
<1>3. ASSUME NEW todo, NextRound(t, todo)
      PROVE  tick'[t].stage # "answered"
  BY <1>3, AfterRound DEF Working
<1>4. ASSUME NEW stage, stage # "answered", NEW id,
             \/ tick' = [tick EXCEPT ![t].stage = stage]
             \/ tick' = [tick EXCEPT ![t].stage = stage, ![t].hcmId = id]
      PROVE  tick'[t].stage # "answered"
  BY <1>1, <1>4 DEF TickState
<1>5. ASSUME tick' = [tick EXCEPT ![t] = IdleTick]
      PROVE  tick'[t].stage # "answered"
  BY <1>1, <1>5 DEF IdleTick
<1>6. tick'[t].stage # "answered"
  <2>1. "waiting" # "answered" /\ "failed" # "answered"
    OBVIOUS
  <2> QED
    BY <1>3, <1>4, <1>5, <2>1 DEF Goto
<1> QED
  BY <1>2, <1>6

\* The other steps: an answer, or a call served without one, or a write that
\* completes an event.
Telling ==
  \/ \E t \in Ticks : HcmAnswers(t) \/ HcmAnswerLost(t) \/ CompleteDeduct(t)
  \/ \E call \in BagToSet(late) : DeliverLate(call)

LEMMA PlainOrTelling ==
  ASSUME Inv, Next
  PROVE  Plain \/ Telling
<1>1. ASSUME ApiNext, UNCHANGED processorVars
      PROVE  Plain
  <2>1. UNCHANGED <<deductions, tick>>
    BY <1>1 DEF processorVars
  <2>2. UNCHANGED hcmRequestId
    BY <1>1 DEF ApiNext, SubmitRequest, ReadRequest, ReadFailedEvent, Approve, Reject, Cancel,
                Conflict, RetryEvent, storeVars, requestRows
  <2> QED
    BY <2>1, <2>2 DEF Plain
<1>2. ASSUME NEW t \in Ticks,
             \/ Poll(t) \/ Skip(t) \/ Send(t) \/ HcmRefuses(t) \/ HcmTimesOut(t)
             \/ LocalWriteFails(t) \/ AbortTick(t)
             \/ CompleteReverse(t) \/ RetryLater(t) \/ GiveUp(t)
      PROVE  Plain
  <2>1. UNCHANGED <<deductions, hcmRequestId>>
    BY <1>2 DEF Poll, Skip, Send, HcmRefuses, HcmTimesOut, LocalWriteFails, AbortTick,
                CompleteReverse, RetryLater, GiveUp, storeVars, requestRows, hcmVars
  <2>2. \/ \E todo : NextRound(t, todo)
        \/ Goto(t, "waiting") \/ Goto(t, "failed")
        \/ \E id : tick' = [tick EXCEPT ![t].stage = "waiting", ![t].hcmId = id]
        \/ tick' = [tick EXCEPT ![t] = IdleTick]
    BY <1>2
    DEF Poll, Skip, Send, NoIdYet, HcmRefuses, HcmErrorThrown, HcmTimesOut, LocalWriteFails,
        AbortTick, CompleteReverse, RetryLater, GiveUp
  <2> QED
    BY <2>1, <2>2, TicksArePlain DEF Plain
<1>3. ASSUME NEW t \in Ticks, Claim(t)
      PROVE  Plain
  <2>1. tick'[t].stage # "answered" /\ \A u \in Ticks \ {t} : tick'[u] = tick[u]
    BY <1>3, Claiming
  <2> QED
    BY <1>3, <2>1 DEF Claim, requestRows, hcmVars, Plain
<1>4. ASSUME NEW e \in DOMAIN outbox, BecomeDue(e)
      PROVE  Plain
  BY <1>4 DEF BecomeDue, requestRows, processorVars, Plain
<1>5. ASSUME Crash
      PROVE  Plain
  BY <1>5 DEF Crash, storeVars, hcmVars, IdleTick, Plain
<1> QED
  BY <1>1, <1>2, <1>3, <1>4, <1>5
  DEF Next, Serve, ProcessorNext, TickStep, Telling

\* An event that is DONE is nobody's, and no retry touches it.
LEMMA DoneStays ==
  ASSUME Inv, Kinds, ClaimsHold, NEW e \in DOMAIN outbox, outbox[e].status = "DONE"
  PROVE  outbox'[e].status = "DONE"
<1>1. CASE Quiet
  BY <1>1 DEF Quiet, RowsStay
<1>2. ASSUME NEW t \in Ticks, Claim(t)
      PROVE  outbox'[e].status = "DONE"
  BY <1>2, Claiming
<1>3. ASSUME NEW t \in Ticks, Releases(t)
      PROVE  outbox'[e].status = "DONE"
  <2>1. outbox[tick[t].event].status = "PROCESSING"
    BY <1>3 DEF Releases, ClaimsHold, ClaimsAreExclusive, Claimed
  <2> QED
    BY <1>3, <2>1, Releasing
<1>4. ASSUME NEW h \in Handlers, RetryEvent(h)
      PROVE  outbox'[e].status = "DONE"
  <2>1. outbox[handler[h].event].status = "FAILED"
    BY <1>4 DEF RetryEvent, ClaimsHold, RetriesFindFailed
  <2> QED
    BY <1>4, <2>1, Retrying
<1> QED
  BY <1>1, <1>2, <1>3, <1>4 DEF Kinds

\* What is completed was answered, and completing leaves the HCM alone.
LEMMA DoneByAnswer ==
  ASSUME Inv, Kinds, NEW e \in DOMAIN outbox', outbox'[e].status = "DONE"
  PROVE  /\ e \in DOMAIN outbox
         /\ \/ outbox[e].status = "DONE"
            \/ /\ UNCHANGED deductions
               /\ \E t \in Ticks : tick[t].stage = "answered" /\ tick[t].event = e
<1>1. CASE Quiet
  BY <1>1 DEF Quiet, RowsStay
<1>2. ASSUME NEW t \in Ticks, Claim(t)
      PROVE  e \in DOMAIN outbox /\ outbox[e].status = "DONE"
  BY <1>2, Claiming
<1>3. ASSUME NEW t \in Ticks, Releases(t)
      PROVE  /\ e \in DOMAIN outbox
             /\ \/ outbox[e].status = "DONE"
                \/ tick[t].stage = "answered" /\ tick[t].event = e
  BY <1>3, Releasing
<1>4. ASSUME NEW h \in Handlers, RetryEvent(h)
      PROVE  e \in DOMAIN outbox /\ outbox[e].status = "DONE"
  BY <1>4, Retrying
<1> QED
  BY <1>1, <1>2, <1>3, <1>4 DEF Kinds, Releases

\* A deduction that is new was asked for by a tick that waits for it.
LEMMA Served ==
  ASSUME NEW call, HcmServes(call), NEW d \in deductions' \ deductions
  PROVE  call.type = "HCM_DEDUCT" /\ d.key = call.id
<1>1. Hcm!RepeatedDeduction(call.id) \/ Hcm!ReverseUnknown(call.id) => deductions' = deductions
  BY DEF Hcm!RepeatedDeduction, Hcm!ReverseUnknown, Hcm!hcmVars
<1>2. Hcm!ReverseKnown(call.id) => deductions' \subseteq deductions
  BY DEF Hcm!ReverseKnown
<1>3. ASSUME NEW a, NEW n, Hcm!NewDeduction(call.id, a, n)
      PROVE  d.key = call.id
  BY <1>3 DEF Hcm!NewDeduction
<1> QED
  BY <1>1, <1>2, <1>3 DEF HcmServes

LEMMA ChargedOnRequest ==
  ASSUME Inv, Next, NoLateDeduction, NEW d \in deductions' \ deductions
  PROVE  \E t \in Ticks :
           /\ tick[t].stage = "waiting"
           /\ Claimed(t).type = "HCM_DEDUCT"
           /\ d.key = tick[t].event
<1>1. ASSUME NEW t \in Ticks, HcmAnswers(t) \/ HcmAnswerLost(t)
      PROVE  /\ tick[t].stage = "waiting"
             /\ Claimed(t).type = "HCM_DEDUCT"
             /\ d.key = tick[t].event
  <2>1. tick[t].stage = "waiting" /\ HcmServes(CallOf(t))
    BY <1>1 DEF HcmAnswers, HcmAnswerLost
  <2>2. CallOf(t).type = "HCM_DEDUCT" /\ d.key = CallOf(t).id
    BY <2>1, Served
  <2> QED
    BY <2>1, <2>2 DEF CallOf
<1>2. ASSUME NEW t \in Ticks, CompleteDeduct(t)
      PROVE  FALSE
  BY <1>2 DEF CompleteDeduct, hcmVars
<1>3. ASSUME NEW call \in BagToSet(late), DeliverLate(call)
      PROVE  FALSE
  BY <1>3, Served DEF DeliverLate, NoLateDeduction
<1>4. ~Plain
  BY DEF Plain
<1> QED
  BY <1>1, <1>2, <1>3, <1>4, PlainOrTelling DEF Telling

\* An id is learnt by completing the request's deduction.
LEMMA LearntByCompleting ==
  ASSUME Inv, Next, NEW r \in Requests, hcmRequestId'[r] # hcmRequestId[r]
  PROVE  \E t \in Ticks :
           /\ CompleteDeduct(t)
           /\ Claimed(t).request = r
           /\ hcmRequestId'[r] = tick[t].hcmId
<1>1. PICK t \in Ticks : CompleteDeduct(t)
  BY PlainOrTelling DEF Plain, Telling, HcmAnswers, HcmAnswerLost, DeliverLate, storeVars
<1>2. LearnId(t, Claimed(t).request)
  BY <1>1 DEF CompleteDeduct, requestRows
<1> QED
  BY <1>1, <1>2 DEF LearnId, Inv, TypeOK

\* A tick turns to "answered" by an answer only.
LEMMA AnsweredByHcm ==
  ASSUME Inv, Next, NEW t \in Ticks,
         tick[t].stage # "answered", tick'[t].stage = "answered"
  PROVE  HcmAnswers(t)
<1>1. ASSUME NEW u \in Ticks, HcmAnswerLost(u)
      PROVE  FALSE
  BY <1>1, TicksArePlain DEF HcmAnswerLost
<1>2. ASSUME NEW u \in Ticks, CompleteDeduct(u)
      PROVE  FALSE
  BY <1>2, TicksArePlain DEF CompleteDeduct
<1>3. ASSUME NEW u \in Ticks, HcmAnswers(u), u # t
      PROVE  FALSE
  <2>1. tick'[t] = tick[t]
    BY <1>3 DEF HcmAnswers, Goto, Inv, TypeOK
  <2> QED
    BY <2>1
<1> QED
  BY <1>1, <1>2, <1>3, PlainOrTelling DEF Plain, Telling, DeliverLate

\* All that a step may rely on.
ReturnStep ==
  /\ Inv /\ Next /\ Steps /\ Kinds
  /\ ClaimsHold /\ ReturnInv /\ NoLateDeduction

\* The deduction that a tick works on is not DONE.
LEMMA WorkIsNotDone ==
  ASSUME ReturnStep, NEW t \in Ticks, Working(t), Claimed(t).type = "HCM_DEDUCT"
  PROVE  hcmRequestId[Claimed(t).request] = 0
<1> DEFINE r == Claimed(t).request
<1>1. /\ tick[t].event \in DOMAIN outbox
      /\ Claimed(t) = outbox[tick[t].event]
      /\ r = RequestOf(tick[t].event)
      /\ r \in Requests
      /\ Claimed(t).status = "PROCESSING"
  BY TickTyped DEF ReturnStep, ClaimsHold, ClaimsAreExclusive
<1>2. ASSUME NEW e \in EventsFor("HCM_DEDUCT", r), outbox[e].status = "DONE"
      PROVE  FALSE
  <2>1. e = tick[t].event
    BY <1>1 DEF ReturnStep, Inv, EventsFollowRequests, EventsFor, RequestOf
  <2> QED
    BY <1>1, <1>2, <2>1
<1> QED
  BY <1>1, <1>2 DEF ReturnStep, ReturnInv, LearntIds

\* Once a request knows its id, it keeps it and no more days are deducted for it.
LEMMA KnownStays ==
  ASSUME ReturnStep, NEW r \in Requests, hcmRequestId[r] # 0
  PROVE  /\ hcmRequestId'[r] = hcmRequestId[r]
         /\ DeductionsFor(r)' \subseteq DeductionsFor(r)
<1>1. ASSUME hcmRequestId'[r] # hcmRequestId[r]
      PROVE  FALSE
  <2>1. PICK t \in Ticks : CompleteDeduct(t) /\ Claimed(t).request = r
    BY <1>1, LearntByCompleting DEF ReturnStep
  <2>2. Working(t) /\ Claimed(t).type = "HCM_DEDUCT"
    BY <2>1 DEF CompleteDeduct, Working
  <2> QED
    BY <2>1, <2>2, WorkIsNotDone
<1>2. ASSUME NEW d \in deductions', outbox'[d.key].request = r
      PROVE  d \in DeductionsFor(r)
  <2>1. CASE d \in deductions
    BY <1>2, <2>1
    DEF ReturnStep, Inv, References, IsDeduct, Steps, EventsStay, DeductionsFor
  <2>2. CASE d \notin deductions
    <3>1. PICK t \in Ticks : /\ tick[t].stage = "waiting"
                             /\ Claimed(t).type = "HCM_DEDUCT"
                             /\ d.key = tick[t].event
      BY <2>2, ChargedOnRequest DEF ReturnStep
    <3>2. Working(t)
      BY <3>1 DEF Working
    <3>3. Claimed(t).request = r
      BY <1>2, <3>1, <3>2, TickTyped DEF ReturnStep, Steps, EventsStay
    <3> QED
      BY <3>1, <3>2, <3>3, WorkIsNotDone
  <2> QED
    BY <2>1, <2>2
<1> QED
  BY <1>1, <1>2 DEF DeductionsFor

LEMMA StepLearntIds ==
  ASSUME ReturnStep
  PROVE  LearntIds'
<1> SUFFICES ASSUME NEW r \in Requests, hcmRequestId'[r] # 0
             PROVE  /\ \E e \in EventsFor("HCM_DEDUCT", r)' : outbox'[e].status = "DONE"
                    /\ \A d \in DeductionsFor(r)' : d.id = hcmRequestId'[r]
  BY DEF LearntIds
<1>1. EventsStay
  BY DEF ReturnStep, Steps
<1>2. CASE hcmRequestId'[r] = hcmRequestId[r]
  <2>1. PICK e \in EventsFor("HCM_DEDUCT", r) : outbox[e].status = "DONE"
    BY <1>2 DEF ReturnStep, ReturnInv, LearntIds
  <2>2. e \in DOMAIN outbox
    BY DEF EventsFor
  <2>3. outbox'[e].status = "DONE"
    BY <2>1, <2>2, DoneStays DEF ReturnStep
  <2>4. e \in EventsFor("HCM_DEDUCT", r)'
    BY <1>1, <2>2 DEF EventsStay, EventsFor
  <2>5. \A d \in DeductionsFor(r) : d.id = hcmRequestId[r]
    BY <1>2 DEF ReturnStep, ReturnInv, LearntIds
  <2> QED
    BY <1>2, <2>3, <2>4, <2>5, KnownStays
<1>3. CASE hcmRequestId'[r] # hcmRequestId[r]
  <2>1. PICK t \in Ticks : /\ CompleteDeduct(t)
                           /\ Claimed(t).request = r
                           /\ hcmRequestId'[r] = tick[t].hcmId
    BY <1>3, LearntByCompleting DEF ReturnStep
  <2> DEFINE e == tick[t].event
  <2>2. /\ tick[t].stage = "answered" /\ Working(t)
        /\ Claimed(t).type = "HCM_DEDUCT"
        /\ outbox' = [outbox EXCEPT ![e].status = "DONE"]
        /\ UNCHANGED deductions
    BY <2>1 DEF CompleteDeduct, Working, MarkDone, hcmVars
  <2>3. /\ e \in DOMAIN outbox /\ outbox[e] \in OutboxEvent
        /\ outbox[e].type = "HCM_DEDUCT" /\ outbox[e].request = r
    BY <2>1, <2>2, TickTyped DEF ReturnStep
  <2>4. outbox'[e].status = "DONE"
    BY <2>2, <2>3 DEF OutboxEvent
  <2>5. e \in EventsFor("HCM_DEDUCT", r)'
    BY <1>1, <2>3 DEF EventsStay, EventsFor
  <2>6. ASSUME NEW d \in DeductionsFor(r)'
        PROVE  d.id = hcmRequestId'[r]
    <3>1. d \in deductions /\ IsDeduct(d.key) /\ outbox[d.key].request = r
      BY <1>1, <2>2 DEF DeductionsFor, EventsStay, ReturnStep, Inv, References, IsDeduct
    <3>2. d.key = e
      BY <2>3, <3>1 DEF ReturnStep, Inv, EventsFollowRequests, IsDeduct, RequestOf
    <3> QED
      BY <2>1, <2>2, <3>1, <3>2 DEF ReturnStep, ReturnInv, AnswersAreExact
  <2> QED
    BY <2>4, <2>5, <2>6
<1> QED
  BY <1>2, <1>3

LEMMA StepAnswersExact ==
  ASSUME ReturnStep
  PROVE  AnswersAreExact'
<1> SUFFICES ASSUME NEW t \in Ticks, tick'[t].stage = "answered",
                    outbox'[tick'[t].event].type = "HCM_DEDUCT",
                    NEW d \in deductions', d.key = tick'[t].event
             PROVE  d.id = tick'[t].hcmId
  BY DEF AnswersAreExact, Claimed
<1>1. TickMoves(t) /\ EventsStay /\ HP!HcmInv'
  BY DEF ReturnStep, Steps, Moves, TicksMove, HcmMoves
<1>2. CASE tick'[t] = tick[t]
  <2>1. Working(t) /\ Claimed(t).type = "HCM_DEDUCT"
    <3>1. Working(t)
      BY <1>2 DEF Working
    <3> QED
      BY <1>1, <1>2, <3>1, TickTyped DEF ReturnStep, EventsStay
  <2>2. CASE d \in deductions
    BY <1>2, <2>1, <2>2 DEF ReturnStep, ReturnInv, AnswersAreExact
  <2>3. CASE d \notin deductions
    <3>1. PICK u \in Ticks : tick[u].stage = "waiting" /\ d.key = tick[u].event
      BY <2>3, ChargedOnRequest DEF ReturnStep
    <3>2. Working(u) /\ u # t
      BY <1>2, <3>1 DEF Working
    <3> QED
      BY <1>2, <2>1, <3>1, <3>2 DEF ReturnStep, ClaimsHold, ClaimsAreExclusive
  <2> QED
    BY <2>2, <2>3
<1>3. CASE \E c \in deductions' : c.key = tick[t].event /\ c.id = tick'[t].hcmId
           /\ tick'[t].event = tick[t].event
  BY <1>1, <1>3 DEF HP!HcmInv, HP!DeductionsAreReversible
<1>4. CASE /\ Working(t) /\ tick'[t].event = tick[t].event
           /\ Claimed(t).type = "HCM_REVERSE"
  BY <1>1, <1>4, TickTyped DEF ReturnStep, EventsStay
<1> QED
  BY <1>1, <1>2, <1>3, <1>4 DEF TickMoves

\* The reversal that is answered has taken away all that the HCM held.
LEMMA Reversed ==
  ASSUME ReturnStep, NEW t \in Ticks, HcmAnswers(t), Claimed(t).type = "HCM_REVERSE",
         NEW r \in Requests, Claimed(t).request = r
  PROVE  DeductionsFor(r)' = {}
<1> DEFINE id == tick[t].hcmId
<1>1. /\ tick[t].stage = "waiting" /\ Working(t)
      /\ HcmServes(CallOf(t))
      /\ CallOf(t).type = "HCM_REVERSE" /\ CallOf(t).id = id
  BY DEF HcmAnswers, Working, CallOf
<1>2. id = hcmRequestId[r] /\ hcmRequestId[r] # 0
  BY <1>1 DEF ReturnStep, ReturnInv, ReversalsAreExact, Inv, AnswersAreTrue
<1>3. ASSUME NEW d \in DeductionsFor(r)'
      PROVE  FALSE
  <2>1. d \in DeductionsFor(r) /\ d \in deductions /\ d \in deductions'
    BY <1>2, KnownStays DEF DeductionsFor
  <2>2. d.id = id
    BY <1>2, <2>1 DEF ReturnStep, ReturnInv, LearntIds
  <2>3. [id |-> id, key |-> d.key] \in requestIndex
    BY <2>1, <2>2 DEF ReturnStep, Inv, HP!HcmInv, HP!DeductionsAreReversible
  <2>4. Hcm!ReverseKnown(id)
    BY <1>1, <2>3 DEF HcmServes, Hcm!ReverseUnknown
  <2>5. PICK x \in requestIndex :
          /\ x.id = id
          /\ \/ \E c \in deductions : c.key = x.key /\ deductions' = deductions \ {c}
             \/ \A c \in deductions : c.key # x.key
    BY <2>4 DEF Hcm!ReverseKnown, Hcm!FiledUnder, Hcm!FileRemoved
  <2>6. x.key = d.key
    BY <2>3, <2>5 DEF ReturnStep, Inv, HP!HcmInv, HP!DeductionsAreReversible
  <2>7. \A c \in deductions : c.key = d.key => c = d
    BY <2>1 DEF ReturnStep, Inv, HP!HcmInv, HP!DeductionsAreReversible
  <2> QED
    BY <2>1, <2>5, <2>6, <2>7
<1> QED
  BY <1>3

LEMMA StepReversalsExact ==
  ASSUME ReturnStep
  PROVE  ReversalsAreExact'
<1> SUFFICES ASSUME NEW t \in Ticks, Working(t)', Claimed(t)'.type = "HCM_REVERSE",
                    tick'[t].stage \in {"waiting", "answered"},
                    NEW r, r = Claimed(t)'.request
             PROVE  /\ tick'[t].hcmId = hcmRequestId'[r]
                    /\ tick'[t].stage = "answered" => DeductionsFor(r)' = {}
  BY DEF ReversalsAreExact, DeductionsFor
<1>1. TickMoves(t)
  BY DEF ReturnStep, Steps, Moves, TicksMove
<1>2. Working(t) /\ tick'[t].event = tick[t].event
  BY <1>1 DEF TickMoves, Working
<1>3. Claimed(t).request = r /\ r \in Requests /\ Claimed(t).type = "HCM_REVERSE"
  BY <1>2, TickTyped DEF ReturnStep, Steps, EventsStay, Claimed
<1>4. hcmRequestId[r] # 0 /\ tick'[t].hcmId = hcmRequestId[r]
  <2>1. CASE tick[t].stage \in {"waiting", "answered"} /\ tick'[t].hcmId = tick[t].hcmId
    BY <1>2, <1>3, <2>1
    DEF ReturnStep, ReturnInv, ReversalsAreExact, Inv, AnswersAreTrue
  <2>2. CASE tick'[t].hcmId = hcmRequestId[r] /\ tick'[t].hcmId # 0
    BY <2>2
  <2> QED
    BY <1>1, <1>3, <2>1, <2>2 DEF TickMoves
<1>5. hcmRequestId'[r] = hcmRequestId[r] /\ DeductionsFor(r)' \subseteq DeductionsFor(r)
  BY <1>3, <1>4, KnownStays
<1>6. ASSUME tick'[t].stage = "answered"
      PROVE  DeductionsFor(r)' = {}
  <2>1. CASE tick[t].stage = "answered"
    <3>1. DeductionsFor(r) = {}
      BY <1>2, <1>3, <2>1 DEF ReturnStep, ReturnInv, ReversalsAreExact
    <3> QED
      BY <1>5, <3>1
  <2>2. CASE tick[t].stage # "answered"
    BY <1>3, <1>6, <2>2, AnsweredByHcm, Reversed DEF ReturnStep
  <2> QED
    BY <2>1, <2>2
<1> QED
  BY <1>4, <1>5, <1>6

LEMMA StepReturned ==
  ASSUME ReturnStep
  PROVE  CancelledDaysReturned'
<1> SUFFICES ASSUME NEW r \in Requests, NEW e \in EventsFor("HCM_REVERSE", r)',
                    outbox'[e].status = "DONE"
             PROVE  DeductionsFor(r)' = {}
  BY DEF CancelledDaysReturned
<1>1. e \in DOMAIN outbox' /\ outbox'[e].type = "HCM_REVERSE" /\ outbox'[e].request = r
  BY DEF EventsFor
<1>2. /\ e \in DOMAIN outbox
      /\ \/ outbox[e].status = "DONE"
         \/ \E t \in Ticks : tick[t].stage = "answered" /\ tick[t].event = e
  BY <1>1, DoneByAnswer DEF ReturnStep
<1>3. outbox[e].type = "HCM_REVERSE" /\ outbox[e].request = r
  BY <1>1, <1>2 DEF ReturnStep, Steps, EventsStay
<1>4. DeductionsFor(r) = {} /\ hcmRequestId[r] # 0
  <2>1. CASE outbox[e].status = "DONE"
    BY <1>2, <1>3, <2>1
    DEF ReturnStep, ReturnInv, CancelledDaysReturned, EventsFor, Inv, DoneMeansDelivered
  <2>2. ASSUME NEW t \in Ticks, tick[t].stage = "answered", tick[t].event = e
        PROVE  DeductionsFor(r) = {} /\ hcmRequestId[r] # 0
    <3>1. Working(t) /\ Claimed(t) = outbox[e]
      BY <2>2 DEF Working, Claimed
    <3> QED
      BY <1>3, <2>2, <3>1
      DEF ReturnStep, ReturnInv, ReversalsAreExact, Inv, AnswersAreTrue
  <2> QED
    BY <1>2, <2>1, <2>2
<1> QED
  BY <1>4, KnownStays

LEMMA InitReturn == Init => ReturnInv
BY DEF Init, StoreInit, ProcessorInit, ReturnInv, LearntIds, AnswersAreExact,
       ReversalsAreExact, CancelledDaysReturned, EventsFor, Working, IdleTick

LEMMA NextReturn ==
  Inv /\ ClaimsHold /\ ReturnInv /\ NoLateDeduction /\ [Next]_vars => ReturnInv'
<1> SUFFICES ASSUME Inv, ClaimsHold, ReturnInv, NoLateDeduction, [Next]_vars
             PROVE  ReturnInv'
  OBVIOUS
<1>1. CASE Next
  <2>1. ReturnStep
    BY <1>1, NextSteps, NextKinds DEF ReturnStep
  <2> QED
    BY <2>1, StepLearntIds, StepAnswersExact, StepReversalsExact, StepReturned DEF ReturnInv
<1>2. CASE UNCHANGED vars
  <2>1. UNCHANGED <<outbox, hcmRequestId, tick, deductions>>
    BY <1>2 DEF vars, storeVars, processorVars
  <2> QED
    BY <2>1 DEF ReturnInv, LearntIds, AnswersAreExact, ReversalsAreExact,
                CancelledDaysReturned, EventsFor, DeductionsFor, Working, Claimed
<1> QED
  BY <1>1, <1>2

\* In the build as it is configured, with any number of handlers and ticks, the
\* HCM keeps none of the days whose reversal is DONE, unless a deduction arrives
\* after its caller gave up.
THEOREM ReversedDaysStayReturned ==
  SynchronousSpec /\ []NoLateDeduction => []CancelledDaysReturned
<1>1. Init => Inv /\ ClaimsHold /\ OneAtATime /\ ReturnInv
  BY InitInv, InitClaims, InitReturn
<1>2. /\ Inv /\ ClaimsHold /\ OneAtATime /\ ReturnInv /\ NoLateDeduction
      /\ [Next /\ RunsToAwait]_vars
      => (Inv /\ ClaimsHold /\ OneAtATime /\ ReturnInv)'
  <2> SUFFICES ASSUME Inv, ClaimsHold, OneAtATime, ReturnInv, NoLateDeduction,
                      [Next /\ RunsToAwait]_vars
               PROVE  Inv' /\ ClaimsHold' /\ OneAtATime' /\ ReturnInv'
    OBVIOUS
  <2>1. Inv' /\ ClaimsHold' /\ ReturnInv'
    BY NextInv, NextClaims, NextReturn
  <2>2. OneAtATime'
    BY StepOneAtATime, StutterClaims
  <2> QED
    BY <2>1, <2>2
<1>3. ReturnInv => CancelledDaysReturned
  BY DEF ReturnInv
<1> QED
  BY <1>1, <1>2, <1>3, PTL DEF SynchronousSpec

=============================================================================
