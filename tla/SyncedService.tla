--------------------------- MODULE SyncedService ---------------------------
(***************************************************************************)
(* TimeOffService with synchronisation: the HCM grants days of its own     *)
(* accord, and what it reports is adopted while requests are submitted,    *)
(* decided, deducted and reversed.                                         *)
(***************************************************************************)
EXTENDS TimeOffService, Sync

CONSTANTS
  MaxGrants,  \* bound on the anniversaries
  Bonuses,    \* the days they bring
  Webhooks,   \* the balances that the HCM pushes one by one
  Batches,    \* the sets of balances that it pushes at once
  Reachable   \* the balances that it does not always fail to report

ASSUME SyncedAssumption ==
  /\ MaxGrants \in Nat
  /\ Bonuses \subseteq Nat
  /\ Webhooks \subseteq Balances
  /\ Batches \subseteq SUBSET Balances
  /\ Reachable \subseteq Balances

VARIABLE grants      \* anniversaries so far

syncedVars == <<vars, syncVars, grants>>

SyncedInit == Init /\ SyncInit /\ grants = 0

\* simulateAnniversary.  A bonus below zero, or seedBalance called again, would
\* take days away that the service has on offer until the HCM pushes the new
\* total; both are left out.
HcmGrants ==
  /\ grants < MaxGrants
  /\ grants' = grants + 1
  /\ \E b \in Balances, bonus \in Bonuses : Hcm!Anniversary(b.employee, bonus)
  /\ UNCHANGED <<storeVars, handler, tick, late, faults, syncVars>>

\* The HCM pushes what it has of one balance or of several.
HcmHas(S) == [b \in S |-> hcmTotal[b]]
HcmPushes ==
  /\ \/ \E b \in Webhooks : SendPush("webhook", HcmHas({b}))
     \/ \E S \in Batches : SendPush("batch", HcmHas(S))
  /\ UNCHANGED <<processorVars, faults, grants>>

\* The HCM serves getBalance.
HcmReports(j) ==
  /\ job[j] # Resting
  /\ ReportBalance(j, hcmTotal[job[j].copy.row])
  /\ UNCHANGED <<processorVars, faults, grants>>

\* A statement of the webhook's handler throws: of saving and flagging, what has
\* not been done by then is never done.
WebhookFails ==
  /\ faults < MaxFaults
  /\ faults' = faults + 1
  /\ hook # Resting
  /\ hook' = Resting
  /\ UNCHANGED <<storeVars, handler, processorVars, freshness, pushes, job, flagged, grants>>

\* Rows survive a crash; reconciliations and the webhook's handler do not.
SyncedCrash ==
  /\ Crash
  /\ hook' = Resting
  /\ job' = [j \in Jobs |-> Resting]
  /\ UNCHANGED <<freshness, pushes, flagged, grants>>

SyncedNext ==
  \/ Serve /\ UNCHANGED <<syncVars, grants>>
  \/ SyncNext /\ UNCHANGED <<processorVars, faults, grants>>
  \/ HcmGrants \/ HcmPushes \/ \E j \in Jobs : HcmReports(j)
  \/ WebhookFails \/ SyncedCrash

-----------------------------------------------------------------------------
\* As in TimeOffService: with the synchronous driver the webhook's handler is
\* not interrupted, and a reconciliation only while it waits for the HCM.
SyncRunsToAwait == RunsToAwait /\ (hook # Resting => hook' # hook)

SyncedSpec == SyncedInit /\ [][SyncedNext /\ SyncRunsToAwait]_syncedVars

\* As FairSpec; moreover the cron job keeps starting reconciliations, half hours
\* pass, every wait for the HCM ends, and when a reachable balance is asked for
\* again and again the HCM sometimes answers and the answer is sometimes saved.
Alone == UNCHANGED <<processorVars, faults, grants>> /\ SyncRunsToAwait
NoSync == UNCHANGED <<syncVars, grants>> /\ SyncRunsToAwait

SyncedTickRuns(t) == TickRuns(t) /\ NoSync
SyncedHandlerReturns(h) == HandlerReturns(h) /\ NoSync
SyncedTimePasses(e) == TimePasses(e) /\ NoSync
WebhookReturns == (SaveWebhook \/ FlagWebhook) /\ Alone
HalfHourPasses(b) == BecomeStale(b) /\ Alone
JobStarts(j) == StartReconciliation(j) /\ Alone
JobGoesOn(j) == (SaveReconciled(j) \/ SkipBalance(j)) /\ Alone
JobIsAnswered(j, b) == job[j] # Resting /\ job[j].copy.row = b /\ HcmReports(j) /\ SyncRunsToAwait
JobSaves(j, b) == job[j] # Resting /\ job[j].copy.row = b /\ SaveReconciled(j) /\ Alone

FairSyncedSpec ==
  /\ SyncedSpec
  /\ \A t \in Ticks : SF_syncedVars(SyncedTickRuns(t))
  /\ \A h \in Handlers : SF_syncedVars(SyncedHandlerReturns(h))
  /\ \A e \in 1..(2 * Cardinality(Requests)) : SF_syncedVars(SyncedTimePasses(e))
  /\ WF_syncedVars(WebhookReturns)
  /\ \A b \in Balances : SF_syncedVars(HalfHourPasses(b))
  /\ \A j \in Jobs :
       /\ SF_syncedVars(JobStarts(j)) /\ SF_syncedVars(JobGoesOn(j))
       /\ \A b \in Reachable : SF_syncedVars(JobIsAnswered(j, b)) /\ SF_syncedVars(JobSaves(j, b))

-----------------------------------------------------------------------------
SyncedTypeOK == TypeOK /\ SyncTypeOK

\* reserved_days and used_days of b are what its requests say.
BooksOn(b) ==
  /\ IsFiniteSet(Ledger!DaysIn(Ledger!Holding(b)))
  /\ balance[b].reserved = Cardinality(Ledger!DaysIn(Ledger!Holding(b)))
  /\ IsFiniteSet(Ledger!DaysIn(Ledger!Taken(b)))
  /\ balance[b].used = Cardinality(Ledger!DaysIn(Ledger!Taken(b)))

\* Whatever totals are adopted, and however old they are, reserved_days stays
\* the days of the open requests and used_days those of the approved ones: a
\* push never brings back counters it has read before a reservation.
BooksSurviveSync == Ledger!HeldDaysReserved /\ Ledger!TakenDaysUsed

\* Of the books, what "reserves the days atomically" promises by itself.
ReservedDaysAreHeld == Ledger!HeldDaysReserved

\* Days that the HCM has deducted for cancelled requests and owes back.
OwedBack(b) == {r \in Requests : BalanceOf[r] = b /\ status[r] = "CANCELLED"
                                 /\ DeductionsFor(r) # {}}

\* Requests whose days are reserved and that the HCM has not deducted yet.
NotYetDeducted(b) == {r \in Ledger!Holding(b) : DeductionsFor(r) = {}}

\* The service never has more days on offer than the HCM can still bear: what is
\* available here, plus what is still to be deducted there, is covered by the
\* HCM's total and by what it owes back.  A total that was adopted after a
\* deduction counts the days twice, once as less total and once as used; this
\* says that no order of deductions, reversals, grants and late pushes makes the
\* service count them too seldom.
NothingOverpromised ==
  \A b \in Balances :
    Floor0(balance[b].total - balance[b].used - balance[b].reserved)
      + Cardinality(Ledger!DaysIn(NotYetDeducted(b)))
      <= hcmTotal[b] + Cardinality(Ledger!DaysIn(OwedBack(b)))

\* The webhook's handler has saved a total that is too low for the employee of r
\* and is about to flag.
BeingFlagged(r) ==
  hook.stage = "saved" /\ hook.discrepancy /\ hook.row.employee = BalanceOf[r].employee

\* Where the total no longer covers what is used and reserved, a request that is
\* still to be decided or deducted has been flagged, or is just being flagged.
Told(r) ==
  LET row == balance[BalanceOf[r]]
  IN  status[r] \in Active /\ row.total < row.used + row.reserved
        => r \in flagged \/ BeingFlagged(r)

\* A reconciliation saves a total that is too low, which it only counts.
OverdrawsSilently(j, b) ==
  /\ job[j].stage = "answered" /\ job[j].copy.row = b
  /\ Discrepancy(job[j].total, job[j].copy.used, job[j].copy.reserved)
  /\ SaveReconciled(j)

\* Nobody is left untold that a total has fallen below what is used and reserved,
\* by any push in any order, batches that are rolled back included, nor by what
\* happens to requests and days afterwards.  Only two things break it: a webhook
\* that is cut short between saving and flagging, and reconciliation, which counts
\* what it overdraws and may also have spoilt the books.
OverdraftsAreTold ==
  [][\A r \in Requests : BooksOn(BalanceOf[r]) /\ Told(r) =>
       \/ Told(r)'
       \/ BeingFlagged(r) /\ faults' # faults
       \/ \E j \in Jobs : OverdrawsSilently(j, BalanceOf[r])]_syncedVars

\* When the HCM's totals no longer change, every row ends up with its own, although
\* pushes are lost, refused, zero or overtaken by others, and although other rows
\* may fail to be asked for or saved every time.
BalanceCatchesUp ==
  <>[](\A b \in Reachable : freshness[b] # "missing" => balance[b].total = hcmTotal[b])

-----------------------------------------------------------------------------
\* What the HCM has granted on b in all: what is left there, and what it has
\* deducted.
ChargedOn(b) == {r \in Requests : BalanceOf[r] = b /\ DeductionsFor(r) # {}}
Granted(b) == hcmTotal[b] + Cardinality(Ledger!DaysIn(ChargedOn(b)))

Granting == INSTANCE GrantedLedger WITH
  intents <- {<<outbox[e].type, outbox[e].request>> : e \in DOMAIN outbox},
  deducted <- {outbox[d.key].request : d \in deductions},
  granted <- [b \in Balances |-> Granted(b)]

\* Whatever is granted, pushed, lost or overtaken, a step is one of the ledger, a
\* grant, or the adoption of a total that the HCM can account for.
ImplementsGrantedLedger == Granting!GrantedSpec

=============================================================================
