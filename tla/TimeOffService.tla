--------------------------- MODULE TimeOffService ---------------------------
(***************************************************************************)
(* The service as it runs: API handlers and outbox ticks over the same     *)
(* tables, an HCM that answers, fails or stays silent, and a process that  *)
(* may crash.  It implements LeaveLedger.                                  *)
(***************************************************************************)
EXTENDS RequestApi, OutboxProcessor

CONSTANT MaxFaults   \* bound on crashes and aborted ticks

ASSUME ServiceAssumption == MaxFaults \in Nat

VARIABLE faults      \* crashes and aborted ticks so far

vars == <<storeVars, handler, processorVars, faults>>

Init == StoreInit /\ ApiInit /\ ProcessorInit /\ faults = 0

\* The process dies and restarts.  Tables survive; handlers and ticks are gone,
\* but a call that was sent may still reach the HCM.  onModuleInit starts the
\* poll again and repairs nothing.
Crash ==
  /\ faults < MaxFaults
  /\ faults' = faults + 1
  /\ handler' = [h \in Handlers |-> Idle]
  /\ tick' = [t \in Ticks |-> IdleTick]
  /\ \E sent \in SUBSET {t \in Ticks : tick[t].stage = "waiting"} :
       /\ BagCardinality(late) + Cardinality(sent) <= MaxLate
       /\ late' = late (+) SetToBag({CallOf(t) : t \in sent})
  /\ UNCHANGED <<storeVars, hcmVars>>

\* A statement of the loop itself, or of handleEventFailure, fails: tick()
\* rejects, which is only logged, and what it had claimed stays claimed.
AbortTick(t) ==
  /\ faults < MaxFaults
  /\ tick[t].stage \in {"looping", "failed"}
  /\ faults' = faults + 1
  /\ tick' = [tick EXCEPT ![t] = IdleTick]
  /\ UNCHANGED <<storeVars, handler, late, hcmVars>>

Serve ==
  \/ ApiNext /\ UNCHANGED <<processorVars, faults>>
  \/ ProcessorNext /\ UNCHANGED <<handler, faults>>
  \/ \E t \in Ticks : AbortTick(t)

Next == Serve \/ Crash

Spec == Init /\ [][Next]_vars

-----------------------------------------------------------------------------
(***************************************************************************)
(* The better-sqlite3 driver is synchronous: its awaits resolve before any *)
(* other callback runs, so in the build as it is configured a handler or a *)
(* tick is only ever interrupted while it waits for the HCM.  Spec allows  *)
(* interruptions at every await; SynchronousSpec leaves only those.        *)
(***************************************************************************)
Running(t) == tick[t].stage \notin {"idle", "waiting"}

RunsToAwait ==
  /\ \A h \in Handlers : handler[h] # Idle => handler'[h] # handler[h]
  /\ \A t \in Ticks : Running(t) => tick'[t] # tick[t]

SynchronousSpec == Init /\ [][Next /\ RunsToAwait]_vars

\* setInterval keeps polling, a tick that has started goes on, the client's
\* timeout ends every wait, a handler that has started returns, and time
\* passes.  The fairness is strong because a handler at work holds the ticks
\* up, and the event loop still gets to every timer and every answer.  Nobody
\* is bound to call the API.
TickRuns(t) == TickStep(t) /\ UNCHANGED <<handler, faults>> /\ RunsToAwait
HandlerReturns(h) ==
  /\ Approve(h) \/ Reject(h) \/ Cancel(h) \/ Conflict(h) \/ RetryEvent(h)
  /\ UNCHANGED <<processorVars, faults>>
  /\ RunsToAwait
TimePasses(e) ==
  e \in DOMAIN outbox /\ BecomeDue(e) /\ UNCHANGED <<handler, faults>> /\ RunsToAwait

FairSpec ==
  /\ SynchronousSpec
  /\ \A t \in Ticks : SF_vars(TickRuns(t))
  /\ \A h \in Handlers : WF_vars(HandlerReturns(h))
  /\ \A e \in 1..(2 * Cardinality(Requests)) : SF_vars(TimePasses(e))

-----------------------------------------------------------------------------
(***************************************************************************)
(* What the tables of the service and the HCM say, put together            *)
(***************************************************************************)
EventsFor(type, r) ==
  {e \in DOMAIN outbox : outbox[e].type = type /\ outbox[e].request = r}

\* The days of r that the HCM currently counts as taken.
DeductionsFor(r) == {d \in deductions : outbox[d.key].request = r}

Unsettled == {"PENDING", "PROCESSING"}

TypeOK ==
  /\ balance \in [Balances -> [total : Nat, used : Nat, reserved : Nat]]
  /\ status \in [Requests -> RequestStatus \cup {Absent}]
  /\ version \in [Requests -> Nat]
  /\ hcmRequestId \in [Requests -> Nat]
  /\ outbox \in Seq(OutboxEvent)
  /\ handler \in [Handlers -> HandlerState]
  /\ tick \in [Ticks -> TickState]
  /\ IsABag(late) /\ BagToSet(late) \subseteq Call
  /\ Hcm!HcmTypeOK
  /\ faults \in 0..MaxFaults

\* Two handlers that approve, or cancel, the same request at the same time do
\* not both enqueue a call for the HCM.
OneEventPerIntent ==
  \A r \in Requests, type \in OutboxEventType : Cardinality(EventsFor(type, r)) <= 1

\* However often the deduction is sent, the HCM counts a request's days once.
ChargedOnce ==
  \A r \in Requests : Cardinality(DeductionsFor(r)) <= 1

\* An APPROVED request knows the id of the deduction that the HCM really holds
\* for it, on the right balance and for the right days.
ApprovedHoldsDeduction ==
  \A r \in Requests : status[r] = "APPROVED" =>
    \E d \in DeductionsFor(r) :
      d.id = hcmRequestId[r] /\ d.account = BalanceOf[r] /\ d.days = Days[r]

\* The claim keeps ticks apart: an event that a tick is working on is
\* PROCESSING and no other tick works on it.
Working(t) == tick[t].stage \in {"claimed", "waiting", "answered", "failed"}
ClaimsAreExclusive ==
  \A t \in Ticks : Working(t) =>
    /\ Claimed(t).status = "PROCESSING"
    /\ \A u \in Ticks \ {t} : Working(u) => tick[u].event # tick[t].event

\* An event is in hand if the poll will find it or a tick is delivering it.
InHand(e) ==
  \/ outbox[e].status = "PENDING"
  \/ outbox[e].status = "PROCESSING" /\ \E t \in Ticks : Working(t) /\ tick[t].event = e

\* A request that waits for the HCM has its deduction in hand; that of a FAILED
\* one is in hand again or FAILED, which is what an admin can retry.
IsAttended(r) ==
  LET events == EventsFor("HCM_DEDUCT", r)
  IN  /\ status[r] = "APPROVED_PENDING_HCM" => \E e \in events : InHand(e)
      /\ status[r] = "FAILED" => \E e \in events : InHand(e) \/ outbox[e].status = "FAILED"

\* Ticks that overlap, lost and late answers, failed local writes, attempts that
\* run out and retries of any event never leave a request behind that nobody can
\* help; only a crash, or a tick that is aborted, does.
OnlyFaultsStrandRequests ==
  [][\A r \in Requests : IsAttended(r) => IsAttended(r)' \/ faults' # faults]_vars

\* DONE is not said too early: the request knows the HCM's id, and is APPROVED
\* after a deduction or was cancelled meanwhile, and CANCELLED after a reversal.
DoneMeansDelivered ==
  \A e \in DOMAIN outbox : outbox[e].status = "DONE" =>
    LET r == outbox[e].request
    IN  /\ hcmRequestId[r] # 0
        /\ status[r] = "CANCELLED" \/ (outbox[e].type = "HCM_DEDUCT" /\ status[r] = "APPROVED")

\* Once the reversal of a cancelled request is DONE, the HCM holds none of its
\* days, and never will again.
CancelledDaysReturned ==
  \A r \in Requests :
    (\E e \in EventsFor("HCM_REVERSE", r) : outbox[e].status = "DONE")
      => DeductionsFor(r) = {}

\* Days that the HCM holds of a cancelled request are on their way back: the
\* deduction, or the reversal after it, is still to be processed.
NoOrphanedDeduction ==
  \A r \in Requests : status[r] = "CANCELLED" /\ DeductionsFor(r) # {} =>
    \E type \in OutboxEventType : \E e \in EventsFor(type, r) :
      outbox[e].status \in Unsettled

\* A tick claims an event only once its backoff has passed.
BackoffHonoured ==
  [][\A e \in DOMAIN outbox :
       outbox[e].status = "PENDING" /\ outbox'[e].status = "PROCESSING" => outbox[e].due]_vars

\* Every failed attempt counts towards HCM_MAX_RETRIES: giving a claimed event
\* back, for later or for good, adds one to its attempts.
AttemptsCounted ==
  [][\A e \in DOMAIN outbox :
       outbox[e].status = "PROCESSING" /\ outbox'[e].status \in {"PENDING", "FAILED"}
         => outbox'[e].attempts = outbox[e].attempts + 1]_vars

\* Every approved request is decided: APPROVED, FAILED or CANCELLED.
ApprovalIsDecided ==
  \A r \in Requests : status[r] = "APPROVED_PENDING_HCM" ~> status[r] # "APPROVED_PENDING_HCM"

\* Every event, a reversal as well as a deduction, is DONE or FAILED in the end.
EventsSettle ==
  \A e \in 1..(2 * Cardinality(Requests)) :
    (e \in DOMAIN outbox /\ outbox[e].status \in Unsettled)
      ~> (e \in DOMAIN outbox /\ outbox[e].status \notin Unsettled)

-----------------------------------------------------------------------------
\* The promise: an event in the outbox is an intent, and the requests that the
\* HCM has charged are those of the deductions it holds.
Ledger == INSTANCE LeaveLedger WITH
  intents <- {<<outbox[e].type, outbox[e].request>> : e \in DOMAIN outbox},
  deducted <- {outbox[d.key].request : d \in deductions}

\* Handlers that read before they write, overlapping ticks, lost and late calls
\* and crashes leave the ledger's promise intact.
ImplementsLedger == Ledger!Spec

=============================================================================
