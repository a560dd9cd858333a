-------------------------------- MODULE Sync --------------------------------
(***************************************************************************)
(* SyncService: the three paths on which leave_balances.total_days follows *)
(* the HCM.  The HCM pushes one balance (webhook) or all of them (batch);  *)
(* reconciliation asks it, balance by balance, every few minutes.          *)
(*                                                                         *)
(* save(entity) writes every column in which the entity differs from the   *)
(* row as it now is: also used_days and reserved_days, when they have      *)
(* changed since the entity was read.  What the HCM reports is a parameter *)
(* of the actions; SyncedService supplies it.  sync_log is left out: it is *)
(* written and never acted upon.                                           *)
(***************************************************************************)
EXTENDS RequestApi

CONSTANTS
  Jobs,       \* runs of triggerReconciliation that may be at work at once
  Unsynced,   \* balances whose row is only created by the first batch
  MaxPushes   \* bound on the pushes under way

ASSUME SyncAssumption ==
  /\ Unsynced \subseteq Balances
  /\ \A b \in Unsynced : Entitlement[b] = 0
  /\ MaxPushes \in Nat

VARIABLES
  freshness,  \* last_synced_at of each row: see Freshness
  pushes,     \* pushes the HCM has sent and the service has not received
  hook,       \* where the webhook's handler is: see HookState
  job,        \* what each reconciliation is doing: see JobState
  flagged     \* the requests named by flagActiveRequests

syncVars == <<freshness, pushes, hook, job, flagged>>

\* "stale": last_synced_at < now - 30 min.  A missing row's balance is zero.
\* The column is nullable, but a batch, which alone creates rows, fills it in.
Freshness == {"missing", "fresh", "stale"}

\* BatchRecord: totals of one balance (webhook) or of several.
IsPush(push) ==
  /\ push.via \in {"webhook", "batch"}
  /\ DOMAIN push.totals \subseteq Balances
  /\ push.totals \in [DOMAIN push.totals -> Nat]

\* A row as it was read; total_days is left out, since it is replaced.
Copy == [row : Balances, used : Nat, reserved : Nat]
CopyOf(b) == [row |-> b, used |-> balance[b].used, reserved |-> balance[b].reserved]

Resting == [stage |-> "resting"]
HookState ==
  {Resting}
  \cup [stage : {"read"}, copy : Copy, total : Nat]
  \cup [stage : {"saved"}, row : Balances, discrepancy : BOOLEAN]
JobState ==
  {Resting}
  \cup [stage : {"waiting"}, copy : Copy, left : SUBSET Copy]
  \cup [stage : {"answered"}, copy : Copy, left : SUBSET Copy, total : Nat]

SyncInit ==
  /\ freshness = [b \in Balances |-> IF b \in Unsynced THEN "missing" ELSE "fresh"]
  /\ pushes = {}
  /\ hook = Resting
  /\ job = [j \in Jobs |-> Resting]
  /\ flagged = {}

-----------------------------------------------------------------------------
\* detectDiscrepancy.
\* Mutant: reserved days are forgotten.
DiscrepancyInUsed(total, used, reserved) == total < used
Discrepancy(total, used, reserved) == total < used + reserved

Active == {"PENDING", "APPROVED_PENDING_HCM"}
ActiveRequests(employee) ==
  {r \in Requests : BalanceOf[r].employee = employee /\ status[r] \in Active}

\* The total that is stored when the HCM reports one.
\* Mutants: used days are added, or taken off, as if to net them out.
UsedAdded(total, used) == total + used
UsedTakenOff(total, used) == total - used
Adopted(total, used) == total

\* save(balance) of an entity read earlier.
\* Mutant: it is saved as a new row would be.
SaveAsNew(copy, total) ==
  /\ balance' = [balance EXCEPT ![copy.row] =
                   [total |-> Adopted(total, copy.used), used |-> 0, reserved |-> 0]]
  /\ freshness' = [freshness EXCEPT ![copy.row] = "fresh"]
SaveEntity(copy, total) ==
  /\ balance' = [balance EXCEPT ![copy.row] =
       [total |-> Adopted(total, copy.used), used |-> copy.used, reserved |-> copy.reserved]]
  /\ freshness' = [freshness EXCEPT ![copy.row] = "fresh"]

\* Half an hour passes since a row was last synchronised.
BecomeStale(b) ==
  /\ freshness[b] = "fresh"
  /\ freshness' = [freshness EXCEPT ![b] = "stale"]
  /\ UNCHANGED <<storeVars, handler, pushes, hook, job, flagged>>

-----------------------------------------------------------------------------
(* The HCM pushes *)

\* The HCM sends the totals it has now; they may arrive late or out of order.
SendPush(via, totals) ==
  /\ Cardinality(pushes) < MaxPushes
  /\ pushes' = pushes \cup {[via |-> via, totals |-> totals]}
  /\ UNCHANGED <<storeVars, handler, freshness, hook, job, flagged>>

Receive(push) == push \in pushes /\ pushes' = pushes \ {push}

\* The DTOs demand positive totals: one balance that is used up is enough for
\* the whole payload to be refused.
WellFormed(push) == \A b \in DOMAIN push.totals : push.totals[b] > 0

\* A push that is lost, malformed or for a row unknown to the webhook.
Refuse(push) ==
  /\ Receive(push)
  /\ UNCHANGED <<storeVars, handler, freshness, hook, job, flagged>>

\* processWebhookPayload up to its findOne.
ReceiveWebhook(push) ==
  /\ hook = Resting
  /\ push.via = "webhook" /\ WellFormed(push)
  /\ Receive(push)
  /\ \E b \in DOMAIN push.totals :
       /\ freshness[b] # "missing"
       /\ hook' = [stage |-> "read", copy |-> CopyOf(b), total |-> push.totals[b]]
  /\ UNCHANGED <<storeVars, handler, freshness, job, flagged>>

\* The row is saved, and committed ...
SaveWebhook ==
  /\ hook.stage = "read"
  /\ SaveEntity(hook.copy, hook.total)
  /\ hook' = [stage |-> "saved", row |-> hook.copy.row,
              discrepancy |-> Discrepancy(hook.total, hook.copy.used, hook.copy.reserved)]
  /\ UNCHANGED <<requestRows, outbox, handler, pushes, job, flagged>>

\* ... and then, after the entry in sync_log, a discrepancy is flagged.
FlagWebhook ==
  /\ hook.stage = "saved"
  /\ flagged' = flagged \cup
       IF hook.discrepancy THEN ActiveRequests(hook.row.employee) ELSE {}
  /\ hook' = Resting
  /\ UNCHANGED <<storeVars, handler, freshness, pushes, job>>

\* What a batch warns of while it goes through its records.
FlaggedBy(totals) ==
  UNION {ActiveRequests(b.employee) : b \in
    {b \in DOMAIN totals : freshness[b] # "missing"
                        /\ Discrepancy(totals[b], balance[b].used, balance[b].reserved)}}

\* processBatchPayload: an admin's call; its transaction creates or updates
\* every row that the payload names.
ReceiveBatch(push) ==
  /\ AdminCalls
  /\ push.via = "batch" /\ WellFormed(push)
  /\ Receive(push)
  /\ balance' = [b \in Balances |->
       IF b \in DOMAIN push.totals
       THEN [balance[b] EXCEPT !.total = Adopted(push.totals[b], balance[b].used)]
       ELSE balance[b]]
  /\ freshness' = [b \in Balances |->
                     IF b \in DOMAIN push.totals THEN "fresh" ELSE freshness[b]]
  /\ flagged' = flagged \cup FlaggedBy(push.totals)
  /\ UNCHANGED <<requestRows, outbox, handler, hook, job>>

\* A record cannot be saved, say because its employee is unknown: all rows are
\* rolled back, while the warnings about the records before it are out.
FailBatch(push) ==
  /\ AdminCalls
  /\ push.via = "batch" /\ WellFormed(push)
  /\ Receive(push)
  /\ \E done \in SUBSET DOMAIN push.totals :
       flagged' = flagged \cup FlaggedBy([b \in done |-> push.totals[b]])
  /\ UNCHANGED <<storeVars, handler, freshness, hook, job>>

-----------------------------------------------------------------------------
(* Reconciliation asks *)

\* The rows that triggerReconciliation reads: the stale ones, and those of
\* employees with active requests.
\* Mutant: staleness is not looked at.
OfActiveEmployees(b) == ActiveRequests(b.employee) # {}
IsSelected(b) ==
  \/ freshness[b] = "stale"
  \/ freshness[b] # "missing" /\ ActiveRequests(b.employee) # {}

Selected == {CopyOf(b) : b \in {b \in Balances : IsSelected(b)}}

\* The loop's next round: ask the HCM for another balance.
Ask(j, left) ==
  \E copy \in left :
    job' = [job EXCEPT ![j] = [stage |-> "waiting", copy |-> copy, left |-> left \ {copy}]]

\* ... or, after the last one, the end, whether or not DONE can be logged.
Proceed(j) ==
  \/ Ask(j, job[j].left)
  \/ job[j].left = {} /\ job' = [job EXCEPT ![j] = Resting]

\* The cron job, or an admin, starts a reconciliation: all rows are read before
\* the first question goes to the HCM.
StartReconciliation(j) ==
  /\ job[j] = Resting
  /\ Ask(j, Selected)
  /\ UNCHANGED <<storeVars, handler, freshness, pushes, hook, flagged>>

\* getBalance is answered with the total that the HCM has at this moment.
ReportBalance(j, total) ==
  /\ job[j].stage = "waiting"
  /\ job' = [job EXCEPT ![j] = [stage |-> "answered", copy |-> job[j].copy,
                                left |-> job[j].left, total |-> total]]
  /\ UNCHANGED <<storeVars, handler, freshness, pushes, hook, flagged>>

\* The answer arrives and the entity is saved.  A discrepancy is only counted.
SaveReconciled(j) ==
  /\ job[j].stage = "answered"
  /\ SaveEntity(job[j].copy, job[j].total)
  /\ Proceed(j)
  /\ UNCHANGED <<requestRows, outbox, handler, pushes, hook, flagged>>

\* An error is caught in the loop, which goes on.
\* Mutant: it is caught by handleScheduledReconciliation.
LoopAborts(j) == job' = [job EXCEPT ![j] = Resting]
AfterError(j) == Proceed(j)

\* The HCM fails or is silent, its answer is lost, or the row is not saved.
SkipBalance(j) ==
  /\ job[j] # Resting
  /\ AfterError(j)
  /\ UNCHANGED <<storeVars, handler, freshness, pushes, hook, flagged>>

-----------------------------------------------------------------------------
\* What the service does by itself; SendPush and ReportBalance are the HCM's.
SyncNext ==
  \/ \E b \in Balances : BecomeStale(b)
  \/ \E push \in pushes :
       Refuse(push) \/ ReceiveWebhook(push) \/ ReceiveBatch(push) \/ FailBatch(push)
  \/ SaveWebhook \/ FlagWebhook
  \/ \E j \in Jobs : StartReconciliation(j) \/ SaveReconciled(j) \/ SkipBalance(j)

SyncTypeOK ==
  /\ freshness \in [Balances -> Freshness]
  /\ \A push \in pushes : IsPush(push)
  /\ hook \in HookState
  /\ job \in [Jobs -> JobState]
  /\ flagged \subseteq Requests

=============================================================================
