------------------------- MODULE SyncedServiceProofs -------------------------
(***************************************************************************)
(* Proofs about SyncedService, for any balances, requests, pushes and      *)
(* reconciliations and any bounds.                                         *)
(*                                                                         *)
(* A step is one of TimeOffService, which leaves the synchronisation       *)
(* alone, or one of the synchronisation, which writes nothing but rows of  *)
(* leave_balances.  The service's invariant, and with it what the service  *)
(* and the HCM agree on, holds whatever is written to those rows.  The     *)
(* books hold as long as no reconciliation saves a row that has changed    *)
(* since it was read, and then the service implements GrantedLedger.       *)
(***************************************************************************)
EXTENDS RefinementProofs, ClaimProofs, SyncedService

\* What the synchronisation does not touch.
ServiceStays ==
  /\ UNCHANGED <<status, version, hcmRequestId, outbox, handler, tick, late,
                 deductions, requestIndex, requestCounter>>
  /\ faults \in 0..MaxFaults => faults' \in 0..MaxFaults

SyncInv == Inv /\ SyncTypeOK

-----------------------------------------------------------------------------
(***************************************************************************)
(* Type correctness                                                        *)
(***************************************************************************)

\* The service's invariant speaks of balances and totals only by their types.
LEMMA StayingKeepsInv ==
  ASSUME Inv, ServiceStays, BalanceMoves, HP!HcmInv'
  PROVE  Inv'
<1> USE DEF ServiceStays
<1>1. TypeOK'
  BY DEF Inv, TypeOK, BalanceMoves, HP!HcmInv, HP!HcmTypeOK, Hcm!HcmTypeOK
<1>2. /\ References' /\ EventsFollowRequests' /\ ReversalsAreOwed'
      /\ CopiesAreVersioned' /\ ChargesAreRight'
  BY DEF Inv, References, EventsFollowRequests, ReversalsAreOwed, EventsFor,
         CopiesAreVersioned, ChargesAreRight, Working, IsDeduct, RequestOf
<1>3. IdsBelong' /\ LateCallsAreProper' /\ AnswersAreTrue'
  BY DEF Inv, IdsBelong, LateCallsAreProper, IsProper, AnswersAreTrue,
         Working, Claimed, IsDeduct, RequestOf
<1>4. ApprovedHoldsDeduction' /\ WaitingEventIsOpen' /\ DoneMeansDelivered'
  BY DEF Inv, ApprovedHoldsDeduction, WaitingEventIsOpen, DoneMeansDelivered,
         DeductionsFor, EventsFor
<1> QED
  BY <1>1, <1>2, <1>3, <1>4 DEF Inv

LEMMA HcmStaysInv ==
  ASSUME Inv, UNCHANGED hcmVars
  PROVE  HP!HcmInv'
BY HcmStays DEF HcmMoves

LEMMA CopiesTyped ==
  ASSUME TypeOK, NEW b \in Balances
  PROVE  CopyOf(b) \in Copy
BY DEF TypeOK, CopyOf, Copy

\* An entity that is saved keeps the type of the row.
LEMMA SavedTyped ==
  ASSUME TypeOK, SyncTypeOK, NEW copy \in Copy, NEW total \in Nat, SaveEntity(copy, total)
  PROVE  BalanceMoves /\ freshness' \in [Balances -> Freshness]
BY DEF TypeOK, SyncTypeOK, SaveEntity, Adopted, Copy, BalanceMoves, Freshness

LEMMA AskTyped ==
  ASSUME SyncTypeOK, NEW j \in Jobs, NEW left \in SUBSET Copy, Ask(j, left)
  PROVE  job' \in [Jobs -> JobState]
<1>1. PICK copy \in left :
        job' = [job EXCEPT ![j] = [stage |-> "waiting", copy |-> copy, left |-> left \ {copy}]]
  BY DEF Ask
<1>2. [stage |-> "waiting", copy |-> copy, left |-> left \ {copy}] \in JobState
  BY DEF JobState
<1> QED
  BY <1>1, <1>2 DEF SyncTypeOK

LEMMA ProceedTyped ==
  ASSUME SyncTypeOK, NEW j \in Jobs, job[j] # Resting, Proceed(j)
  PROVE  job' \in [Jobs -> JobState]
<1>1. job[j].left \in SUBSET Copy
  BY DEF SyncTypeOK, JobState
<1>2. CASE Ask(j, job[j].left)
  BY <1>1, <1>2, AskTyped
<1>3. CASE job' = [job EXCEPT ![j] = Resting]
  BY <1>3 DEF SyncTypeOK, JobState
<1> QED
  BY <1>2, <1>3 DEF Proceed

LEMMA SyncTypes ==
  ASSUME TypeOK, SyncTypeOK, SyncNext
  PROVE  SyncTypeOK' /\ BalanceMoves
<1>1. ASSUME UNCHANGED balance
      PROVE  BalanceMoves
  BY <1>1 DEF TypeOK, BalanceMoves
<1>3. \A e : ActiveRequests(e) \subseteq Requests
  BY DEF ActiveRequests
<1>4. ASSUME NEW b \in Balances, BecomeStale(b)
      PROVE  SyncTypeOK' /\ BalanceMoves
  BY <1>1, <1>4 DEF BecomeStale, storeVars, SyncTypeOK, Freshness
<1>5. ASSUME NEW push \in pushes, Refuse(push)
      PROVE  SyncTypeOK' /\ BalanceMoves
  BY <1>1, <1>5 DEF Refuse, Receive, storeVars, SyncTypeOK
<1>6. ASSUME NEW push \in pushes, ReceiveWebhook(push)
      PROVE  SyncTypeOK' /\ BalanceMoves
  <2>1. PICK b \in DOMAIN push.totals :
          hook' = [stage |-> "read", copy |-> CopyOf(b), total |-> push.totals[b]]
    BY <1>6 DEF ReceiveWebhook
  <2>2. b \in Balances /\ push.totals[b] \in Nat
    BY DEF SyncTypeOK, IsPush
  <2>3. hook' \in HookState
    BY <2>1, <2>2, CopiesTyped DEF HookState
  <2> QED
    BY <1>1, <1>6, <2>3 DEF ReceiveWebhook, Receive, storeVars, SyncTypeOK
<1>7. ASSUME NEW push \in pushes, ReceiveBatch(push)
      PROVE  SyncTypeOK' /\ BalanceMoves
  <2>1. /\ push.totals \in [DOMAIN push.totals -> Nat]
        /\ DOMAIN push.totals \subseteq Balances
    BY DEF SyncTypeOK, IsPush
  <2>2. BalanceMoves
    BY <1>7, <2>1 DEF ReceiveBatch, Adopted, TypeOK, BalanceMoves
  <2>3. freshness' \in [Balances -> Freshness]
    BY <1>7 DEF ReceiveBatch, SyncTypeOK, Freshness
  <2>4. flagged' \subseteq Requests
    BY <1>3, <1>7 DEF ReceiveBatch, FlaggedBy, SyncTypeOK
  <2> QED
    BY <1>7, <2>2, <2>3, <2>4 DEF ReceiveBatch, Receive, SyncTypeOK
<1>8. ASSUME NEW push \in pushes, FailBatch(push)
      PROVE  SyncTypeOK' /\ BalanceMoves
  <2>1. flagged' \subseteq Requests
    BY <1>3, <1>8 DEF FailBatch, FlaggedBy, SyncTypeOK
  <2> QED
    BY <1>1, <1>8, <2>1 DEF FailBatch, Receive, storeVars, SyncTypeOK
<1>9. ASSUME SaveWebhook
      PROVE  SyncTypeOK' /\ BalanceMoves
  <2>1. hook.copy \in Copy /\ hook.total \in Nat /\ hook.copy.row \in Balances
    BY <1>9 DEF SaveWebhook, SyncTypeOK, HookState, Resting, Copy
  <2>2. BalanceMoves /\ freshness' \in [Balances -> Freshness]
    BY <1>9, <2>1, SavedTyped DEF SaveWebhook
  <2>3. hook' = [stage |-> "saved", row |-> hook.copy.row,
                 discrepancy |-> Discrepancy(hook.total, hook.copy.used, hook.copy.reserved)]
    BY <1>9 DEF SaveWebhook
  <2>4. Discrepancy(hook.total, hook.copy.used, hook.copy.reserved) \in BOOLEAN
    BY DEF Discrepancy
  <2>5. hook' \in HookState
    BY <2>1, <2>3, <2>4 DEF HookState
  <2> QED
    BY <1>9, <2>2, <2>5 DEF SaveWebhook, SyncTypeOK
<1>13. ASSUME FlagWebhook
       PROVE  SyncTypeOK' /\ BalanceMoves
  BY <1>1, <1>3, <1>13 DEF FlagWebhook, storeVars, SyncTypeOK, HookState
<1>10. ASSUME NEW j \in Jobs, StartReconciliation(j)
       PROVE  SyncTypeOK' /\ BalanceMoves
  <2>1. Selected \in SUBSET Copy
    BY CopiesTyped DEF Selected
  <2>2. job' \in [Jobs -> JobState]
    BY <1>10, <2>1, AskTyped DEF StartReconciliation
  <2> QED
    BY <1>1, <1>10, <2>2 DEF StartReconciliation, storeVars, SyncTypeOK
<1>11. ASSUME NEW j \in Jobs, SaveReconciled(j)
       PROVE  SyncTypeOK' /\ BalanceMoves
  <2>1. job[j].copy \in Copy /\ job[j].total \in Nat /\ job[j] # Resting
    BY <1>11 DEF SaveReconciled, SyncTypeOK, JobState, Resting
  <2>2. BalanceMoves /\ freshness' \in [Balances -> Freshness]
    BY <1>11, <2>1, SavedTyped DEF SaveReconciled
  <2>3. job' \in [Jobs -> JobState]
    BY <1>11, <2>1, ProceedTyped DEF SaveReconciled
  <2> QED
    BY <1>11, <2>2, <2>3 DEF SaveReconciled, SyncTypeOK
<1>12. ASSUME NEW j \in Jobs, SkipBalance(j)
       PROVE  SyncTypeOK' /\ BalanceMoves
  <2>1. job' \in [Jobs -> JobState]
    BY <1>12, ProceedTyped DEF SkipBalance, AfterError
  <2> QED
    BY <1>1, <1>12, <2>1 DEF SkipBalance, storeVars, SyncTypeOK
<1> QED
  BY <1>4, <1>5, <1>6, <1>7, <1>8, <1>9, <1>10, <1>11, <1>12, <1>13 DEF SyncNext

\* The service serves or crashes, and what was synchronised so far stays.
ServiceMoves ==
  /\ [Next]_vars
  /\ UNCHANGED <<freshness, pushes, flagged>>
  /\ \/ UNCHANGED <<hook, job>>
     \/ hook' = Resting /\ job' = [j \in Jobs |-> Resting] /\ faults' = faults + 1

\* The HCM does something of its own accord, or answers.
HcmActs == HcmGrants \/ HcmPushes \/ \E j \in Jobs : HcmReports(j)

\* The synchronisation takes a step, or the webhook's handler throws.
SyncSteps == SyncNext /\ UNCHANGED <<processorVars, faults, grants>>
SyncMoves == SyncSteps \/ WebhookFails

LEMMA StutterServes == UNCHANGED syncedVars => ServiceMoves
BY DEF syncedVars, syncVars, ServiceMoves

LEMMA SyncedKinds == [SyncedNext]_syncedVars => ServiceMoves \/ HcmActs \/ SyncMoves
<1>1. Serve /\ UNCHANGED <<syncVars, grants>> => ServiceMoves
  BY DEF Next, ServiceMoves, syncVars
<1>2. SyncedCrash => ServiceMoves
  BY DEF SyncedCrash, Crash, Next, ServiceMoves
<1> QED
  BY <1>1, <1>2, StutterServes DEF SyncedNext, HcmActs, SyncMoves, SyncSteps

LEMMA ServiceKeepsTypes ==
  ASSUME SyncInv, ServiceMoves
  PROVE  SyncInv'
<1>1. Inv'
  BY NextInv DEF SyncInv, ServiceMoves
<1>2. SyncTypeOK'
  BY DEF SyncInv, ServiceMoves, SyncTypeOK, HookState, JobState
<1> QED
  BY <1>1, <1>2 DEF SyncInv

LEMMA SyncStays ==
  ASSUME SyncMoves
  PROVE  ServiceStays
<1>1. CASE SyncSteps
  BY <1>1
  DEF SyncSteps, SyncNext, BecomeStale, Refuse, ReceiveWebhook, ReceiveBatch, FailBatch,
      SaveWebhook, FlagWebhook, StartReconciliation, SaveReconciled, SkipBalance,
      ServiceStays, storeVars, requestRows, processorVars, hcmVars
<1>2. CASE WebhookFails
  BY <1>2, ServiceAssumption DEF WebhookFails, ServiceStays, storeVars, processorVars, hcmVars
<1> QED
  BY <1>1, <1>2 DEF SyncMoves

LEMMA SyncKeepsTypes ==
  ASSUME SyncInv, SyncMoves
  PROVE  SyncInv'
<1>1. SyncTypeOK' /\ BalanceMoves
  <2>1. CASE SyncSteps
    BY <2>1, SyncTypes DEF SyncInv, SyncSteps, Inv
  <2>2. CASE WebhookFails
    BY <2>2 DEF SyncInv, Inv, TypeOK, BalanceMoves, WebhookFails, storeVars, SyncTypeOK, HookState
  <2> QED
    BY <2>1, <2>2 DEF SyncMoves
<1>2. HP!HcmInv'
  <2>1. UNCHANGED hcmVars
    BY DEF SyncMoves, SyncSteps, WebhookFails, processorVars, hcmVars
  <2> QED
    BY <2>1, HcmStaysInv DEF SyncInv
<1> QED
  BY <1>1, <1>2, SyncStays, StayingKeepsInv DEF SyncInv

\* The HCM's own steps.
LEMMA HcmActsKinds ==
  ASSUME SyncInv, HcmActs
  PROVE  /\ ServiceStays /\ BalanceMoves /\ UNCHANGED <<balance, freshness, flagged>>
         /\ \A b \in Balances : hcmTotal'[b] \in Nat /\ hcmTotal'[b] >= hcmTotal[b]
         /\ \/ HcmGrants
            \/ \E push : /\ IsPush(push) /\ pushes' = pushes \cup {push}
                         /\ \A b \in DOMAIN push.totals : push.totals[b] = hcmTotal[b]
                         /\ UNCHANGED <<hook, job, hcmTotal>>
            \/ \E j \in Jobs : HcmReports(j) /\ UNCHANGED <<pushes, hook, hcmTotal>>
<1>1. UNCHANGED balance => BalanceMoves
  BY DEF SyncInv, Inv, TypeOK, BalanceMoves
<1>2. hcmTotal \in [Balances -> Nat]
  BY DEF SyncInv, Inv, HP!HcmInv, HP!HcmTypeOK
<1>3. CASE HcmGrants
  <2>1. PICK b \in Balances, bonus \in Bonuses : Hcm!Anniversary(b.employee, bonus)
    BY <1>3 DEF HcmGrants
  <2>2. \A c \in Balances : hcmTotal'[c] \in {hcmTotal[c], hcmTotal[c] + bonus}
    BY <1>2, <2>1 DEF Hcm!Anniversary
  <2>3. \A c \in Balances : hcmTotal'[c] \in Nat /\ hcmTotal'[c] >= hcmTotal[c]
    BY <1>2, <2>2, SyncedAssumption
  <2> QED
    BY <1>1, <1>3, <2>1, <2>3
    DEF HcmGrants, Hcm!Anniversary, ServiceStays, storeVars, syncVars
<1>4. ASSUME NEW via \in {"webhook", "batch"}, NEW S \in SUBSET Balances, SendPush(via, HcmHas(S))
      PROVE  \E push : /\ IsPush(push) /\ pushes' = pushes \cup {push}
                       /\ \A c \in DOMAIN push.totals : push.totals[c] = hcmTotal[c]
  <2> DEFINE push == [via |-> via, totals |-> HcmHas(S)]
  <2>1. IsPush(push)
    BY <1>2 DEF IsPush, HcmHas
  <2>2. \A c \in DOMAIN push.totals : push.totals[c] = hcmTotal[c]
    BY DEF HcmHas
  <2> WITNESS push
  <2> QED
    BY <1>4, <2>1, <2>2 DEF SendPush
<1>5. ASSUME HcmPushes
      PROVE  \E push : /\ IsPush(push) /\ pushes' = pushes \cup {push}
                       /\ \A c \in DOMAIN push.totals : push.totals[c] = hcmTotal[c]
  <2>1. ASSUME NEW b \in Webhooks
        PROVE  {b} \in SUBSET Balances
    BY SyncedAssumption
  <2>2. ASSUME NEW S \in Batches
        PROVE  S \in SUBSET Balances
    BY SyncedAssumption
  <2> QED
    BY <1>4, <1>5, <2>1, <2>2 DEF HcmPushes
<1>6. CASE HcmPushes
  <2>1. /\ ServiceStays
        /\ UNCHANGED <<balance, freshness, flagged, hook, job, hcmTotal>>
    BY <1>6 DEF HcmPushes, SendPush, ServiceStays, storeVars, processorVars, hcmVars
  <2>2. \E push : /\ IsPush(push) /\ pushes' = pushes \cup {push}
                  /\ \A c \in DOMAIN push.totals : push.totals[c] = hcmTotal[c]
    BY <1>5, <1>6
  <2> QED
    BY <1>1, <1>2, <2>1, <2>2
<1>7. ASSUME NEW j \in Jobs, HcmReports(j)
      PROVE  /\ ServiceStays
             /\ UNCHANGED <<balance, freshness, flagged, pushes, hook, hcmTotal>>
  BY <1>7 DEF HcmReports, ReportBalance, ServiceStays, storeVars, processorVars, hcmVars
<1> QED
  BY <1>1, <1>2, <1>3, <1>6, <1>7 DEF HcmActs

LEMMA HcmKeepsTypes ==
  ASSUME SyncInv, HcmActs
  PROVE  SyncInv'
<1>1. /\ ServiceStays /\ BalanceMoves
      /\ UNCHANGED <<freshness, flagged>>
  BY HcmActsKinds
<1>2. hcmTotal \in [Balances -> Nat]
  BY DEF SyncInv, Inv, HP!HcmInv, HP!HcmTypeOK
<1>3. CASE HcmGrants
  <2>1. PICK b \in Balances, bonus \in Bonuses : Hcm!Anniversary(b.employee, bonus)
    BY <1>3 DEF HcmGrants
  <2>2. HP!Anniversary(b.employee, bonus) /\ bonus \in Nat
    BY <2>1, SyncedAssumption DEF Hcm!Anniversary, HP!Anniversary
  <2>3. HP!HcmInv'
    BY <2>2, HP!AnniversaryKeeps, HcmConstants DEF SyncInv, Inv
  <2>4. SyncTypeOK'
    BY <1>3 DEF HcmGrants, syncVars, SyncInv, SyncTypeOK
  <2> QED
    BY <1>1, <2>3, <2>4, StayingKeepsInv DEF SyncInv
<1>4. ASSUME NEW push, IsPush(push), pushes' = pushes \cup {push},
             UNCHANGED <<hook, job, hcmTotal>>
      PROVE  SyncInv'
  <2>1. UNCHANGED hcmVars
    BY <1>1, <1>4 DEF ServiceStays, hcmVars
  <2>2. SyncTypeOK'
    BY <1>1, <1>4 DEF SyncInv, SyncTypeOK
  <2> QED
    BY <1>1, <2>1, <2>2, HcmStaysInv, StayingKeepsInv DEF SyncInv
<1>5. ASSUME NEW j \in Jobs, HcmReports(j), UNCHANGED <<pushes, hook, hcmTotal>>
      PROVE  SyncInv'
  <2>1. UNCHANGED hcmVars
    BY <1>1, <1>5 DEF ServiceStays, hcmVars
  <2>2. /\ job[j].copy \in Copy /\ job[j].left \in SUBSET Copy /\ job[j].copy.row \in Balances
    BY <1>5 DEF HcmReports, SyncInv, SyncTypeOK, JobState, Copy
  <2>3. job' = [job EXCEPT ![j] =
                  [stage |-> "answered", copy |-> job[j].copy, left |-> job[j].left,
                   total |-> hcmTotal[job[j].copy.row]]]
    BY <1>5 DEF HcmReports, ReportBalance
  <2>4. job' \in [Jobs -> JobState]
    BY <1>2, <2>2, <2>3 DEF SyncInv, SyncTypeOK, JobState
  <2>5. SyncTypeOK'
    BY <1>1, <1>5, <2>4 DEF SyncInv, SyncTypeOK
  <2> QED
    BY <1>1, <2>1, <2>5, HcmStaysInv, StayingKeepsInv DEF SyncInv
<1> QED
  BY <1>3, <1>4, <1>5, HcmActsKinds

LEMMA InitSyncInv == SyncedInit => SyncInv
<1>1. Init => Inv
  BY InitInv
<1>2. SyncInit => SyncTypeOK
  BY DEF SyncInit, SyncTypeOK, HookState, JobState, Freshness
<1> QED
  BY <1>1, <1>2 DEF SyncedInit, SyncInv

LEMMA NextSyncInv == SyncInv /\ [SyncedNext]_syncedVars => SyncInv'
BY SyncedKinds, ServiceKeepsTypes, SyncKeepsTypes, HcmKeepsTypes

LEMMA SyncInvariance == SyncedSpec => []SyncInv
<1>1. [SyncedNext /\ SyncRunsToAwait]_syncedVars => [SyncedNext]_syncedVars
  OBVIOUS
<1> QED
  BY <1>1, InitSyncInv, NextSyncInv, PTL DEF SyncedSpec

\* Tables, pushes, webhooks and reconciliations keep their types whatever is
\* pushed and whatever is saved over what.
THEOREM SyncedTypeCorrect == SyncedSpec => []SyncedTypeOK
<1>1. SyncInv => SyncedTypeOK
  BY DEF SyncInv, Inv, SyncedTypeOK
<1> QED
  BY <1>1, SyncInvariance, PTL

-----------------------------------------------------------------------------
(***************************************************************************)
(* Counting days                                                           *)
(***************************************************************************)

\* The ledger of the proofs counts as the ledger that TimeOffService names.
LEMMA SameCounting ==
  /\ \A S : LP!DaysIn(S) = Ledger!DaysIn(S)
  /\ \A S : LP!Cardinality(S) = Ledger!Cardinality(S)
  /\ \A S : LP!IsFiniteSet(S) = Ledger!IsFiniteSet(S)
  /\ \A S : LP!Cardinality(S) = Cardinality(S)
  /\ \A S : LP!IsFiniteSet(S) = IsFiniteSet(S)
  /\ \A b : LP!Holding(b) = Ledger!Holding(b)
  /\ \A b : LP!Taken(b) = Ledger!Taken(b)
<1>1. \A S : LP!DaysIn(S) = Ledger!DaysIn(S)
  BY DEF LP!DaysIn, Ledger!DaysIn
<1>2. \A S : LP!Cardinality(S) = Ledger!Cardinality(S)
  BY DEF LP!Cardinality, Ledger!Cardinality
<1>3. \A S : LP!IsFiniteSet(S) = Ledger!IsFiniteSet(S)
  BY DEF LP!IsFiniteSet, Ledger!IsFiniteSet
<1>4. \A S : LP!Cardinality(S) = Cardinality(S)
  BY DEF LP!Cardinality, Cardinality
<1>5. \A S : LP!IsFiniteSet(S) = IsFiniteSet(S)
  BY DEF LP!IsFiniteSet, IsFiniteSet
<1>6. \A b : LP!Holding(b) = Ledger!Holding(b)
  BY DEF LP!Holding, Ledger!Holding, LP!Undecided, Ledger!Undecided
<1>7. \A b : LP!Taken(b) = Ledger!Taken(b)
  BY DEF LP!Taken, Ledger!Taken
<1> QED
  BY <1>1, <1>2, <1>3, <1>4, <1>5, <1>6, <1>7

\* The days of one request, of one more and of one less, as the ledger has them.
LEMMA DaysCounted ==
  ASSUME NEW S \in SUBSET Requests, IsFiniteSet(Ledger!DaysIn(S))
  PROVE  /\ Cardinality(Ledger!DaysIn(S)) \in Nat
         /\ \A r \in Requests \ S :
              /\ IsFiniteSet(Ledger!DaysIn(S \cup {r}))
              /\ Cardinality(Ledger!DaysIn(S \cup {r})) = Cardinality(Ledger!DaysIn(S)) + Days[r]
         /\ \A r \in S :
              /\ IsFiniteSet(Ledger!DaysIn(S \ {r}))
              /\ Cardinality(Ledger!DaysIn(S \ {r})) = Cardinality(Ledger!DaysIn(S)) - Days[r]
<1>1. LP!IsFiniteSet(LP!DaysIn(S))
  BY SameCounting
<1>2. Cardinality(Ledger!DaysIn(S)) \in Nat
  BY FS_CardinalityType
<1>3. ASSUME NEW r \in Requests \ S
      PROVE  /\ LP!IsFiniteSet(LP!DaysIn(S \cup {r}))
             /\ LP!Cardinality(LP!DaysIn(S \cup {r})) = LP!Cardinality(LP!DaysIn(S)) + Days[r]
  BY <1>1, LP!DaysAdded, LedgerConstants
<1>4. ASSUME NEW r \in S
      PROVE  /\ LP!IsFiniteSet(LP!DaysIn(S \ {r}))
             /\ LP!Cardinality(LP!DaysIn(S \ {r})) = LP!Cardinality(LP!DaysIn(S)) - Days[r]
  BY <1>1, LP!DaysRemoved, LedgerConstants
<1> QED
  BY <1>2, <1>3, <1>4, SameCounting

-----------------------------------------------------------------------------
(***************************************************************************)
(* The books                                                               *)
(***************************************************************************)

\* What the service writes to a balance goes with the transition of a request
\* that draws on it.
Draws ==
  \/ UNCHANGED <<balance, status>>
  \/ \E r \in Requests : /\ status[r] = Absent
                         /\ status' = [status EXCEPT ![r] = "PENDING"]
                         /\ ReserveBalance(r)
  \/ \E r \in Requests, to \in RequestStatus :
       /\ status[r] \in Ledger!Undecided
       /\ status' = [status EXCEPT ![r] = to]
       /\ \/ to = "APPROVED_PENDING_HCM" /\ status[r] = "PENDING" /\ UNCHANGED balance
          \/ to = "FAILED" /\ UNCHANGED balance
          \/ to \in {"REJECTED", "CANCELLED"} /\ ReleaseReserved(r)
          \/ to = "APPROVED" /\ ConfirmDeduction(r)

LEMMA NextDraws ==
  ASSUME Inv, [Next]_vars
  PROVE  Draws
<1>1. TypeOK
  BY DEF Inv
<1>2. ASSUME NEW r \in Requests, NEW to, NEW v, TransitionRequest(r, to, v),
             \/ to \in {"APPROVED_PENDING_HCM", "FAILED"} /\ UNCHANGED balance
             \/ to \in {"REJECTED", "CANCELLED"} /\ ReleaseReserved(r)
             \/ to = "APPROVED" /\ ConfirmDeduction(r)
      PROVE  Draws
  <2>1. /\ to \in RequestStatus /\ status' = [status EXCEPT ![r] = to]
        /\ status[r] \in {"PENDING", "APPROVED_PENDING_HCM", "FAILED"}
        /\ to = "APPROVED_PENDING_HCM" => status[r] = "PENDING"
    BY <1>1, <1>2, Transitions
  <2> QED
    BY <1>2, <2>1 DEF Draws, Ledger!Undecided
<1>3. ASSUME ApiNext
      PROVE  Draws
  <2>1. ASSUME NEW r \in Requests, SubmitRequest(r)
        PROVE  Draws
    BY <2>1 DEF SubmitRequest, Draws
  <2>2. ASSUME NEW h \in Handlers, Approve(h) \/ Reject(h) \/ Cancel(h)
        PROVE  Draws
    <3> DEFINE r == handler[h].request
    <3>1. r \in Requests
      BY <1>1, <2>2, DecidersTyped DEF Approve, Reject, Cancel, Decisions
    <3>2. \/ TransitionRequest(r, "APPROVED_PENDING_HCM", handler[h].version) /\ UNCHANGED balance
          \/ TransitionRequest(r, "REJECTED", handler[h].version) /\ ReleaseReserved(r)
          \/ TransitionRequest(r, "CANCELLED", handler[h].version) /\ ReleaseReserved(r)
      BY <2>2 DEF Approve, Reject, Cancel
    <3> HIDE DEF r
    <3> QED
      BY <1>2, <3>1, <3>2
  <2>3. ASSUME NEW h \in Handlers, Conflict(h) \/ RetryEvent(h)
        PROVE  Draws
    BY <2>3 DEF Conflict, RetryEvent, storeVars, requestRows, Draws
  <2>4. ASSUME NEW h \in Handlers, NEW op \in DOMAIN Decisions, NEW r \in Requests,
               ReadRequest(h, op, r)
        PROVE  Draws
    BY <2>4 DEF ReadRequest, storeVars, Draws
  <2>5. ASSUME NEW h \in Handlers, NEW e \in DOMAIN outbox, ReadFailedEvent(h, e)
        PROVE  Draws
    BY <2>5 DEF ReadFailedEvent, storeVars, Draws
  <2> QED
    BY <1>3, <2>1, <2>2, <2>3, <2>4, <2>5 DEF ApiNext
<1>4. ASSUME NEW t \in Ticks, TickStep(t)
      PROVE  Draws
  <2> DEFINE r == Claimed(t).request
  <2>1. CASE CompleteDeduct(t)
    <3>1. r \in Requests
      BY <2>1, TickTyped DEF CompleteDeduct, Working
    <3>2. \/ UNCHANGED <<balance, status>>
          \/ TransitionRequest(r, "APPROVED", version[r]) /\ ConfirmDeduction(r)
      BY <2>1 DEF CompleteDeduct, requestRows
    <3> HIDE DEF r
    <3> QED
      BY <1>2, <3>1, <3>2 DEF Draws
  <2>2. CASE GiveUp(t)
    <3>1. r \in Requests
      BY <2>2, TickTyped DEF GiveUp, Working
    <3>2. /\ UNCHANGED balance
          /\ UNCHANGED status \/ TransitionRequest(r, "FAILED", version[r])
      BY <2>2 DEF GiveUp
    <3> HIDE DEF r
    <3> QED
      BY <1>2, <3>1, <3>2 DEF Draws
  <2> QED
    BY <1>4, <2>1, <2>2
    DEF TickStep, Poll, Claim, Skip, Send, HcmAnswers, HcmAnswerLost, HcmRefuses, HcmTimesOut,
        CompleteReverse, LocalWriteFails, RetryLater, storeVars, requestRows, Draws
<1>5. ASSUME ProcessorNext
      PROVE  Draws
  <2>1. ASSUME NEW e \in DOMAIN outbox, BecomeDue(e)
        PROVE  Draws
    BY <2>1 DEF BecomeDue, requestRows, Draws
  <2>2. ASSUME NEW call \in BagToSet(late), DeliverLate(call)
        PROVE  Draws
    BY <2>2 DEF DeliverLate, storeVars, Draws
  <2> QED
    BY <1>4, <1>5, <2>1, <2>2 DEF ProcessorNext
<1>6. Crash \/ (\E t \in Ticks : AbortTick(t)) \/ UNCHANGED vars => Draws
  BY DEF Crash, AbortTick, vars, storeVars, Draws
<1> QED
  BY <1>3, <1>5, <1>6 DEF Next, Serve

LEMMA BooksAgain ==
  ASSUME NEW b, NEW held, NEW taken,
         Ledger!Holding(b)' = held, Ledger!Taken(b)' = taken,
         IsFiniteSet(Ledger!DaysIn(held)), balance'[b].reserved = Cardinality(Ledger!DaysIn(held)),
         IsFiniteSet(Ledger!DaysIn(taken)), balance'[b].used = Cardinality(Ledger!DaysIn(taken))
  PROVE  BooksOn(b)'
<1>1. /\ Ledger!DaysIn(Ledger!Holding(b))' = Ledger!DaysIn(held)
      /\ Ledger!DaysIn(Ledger!Taken(b))' = Ledger!DaysIn(taken)
  BY DEF Ledger!DaysIn
<1> QED
  BY <1>1 DEF BooksOn

LEMMA SameBooks ==
  ASSUME NEW b, BooksOn(b), UNCHANGED status,
         balance'[b].used = balance[b].used, balance'[b].reserved = balance[b].reserved
  PROVE  BooksOn(b)'
<1>1. Ledger!Holding(b)' = Ledger!Holding(b) /\ Ledger!Taken(b)' = Ledger!Taken(b)
  BY DEF Ledger!Holding, Ledger!Taken
<1> QED
  BY <1>1, BooksAgain DEF BooksOn

\* Each transition keeps the books of the balance that the request draws on, and
\* those of the others.  Only what is available is drawn on.
LEMMA DrawsKeepBooks ==
  ASSUME TypeOK, NEW b \in Balances, BooksOn(b), Draws
  PROVE  /\ BooksOn(b)'
         /\ balance'[b].total = balance[b].total
         /\ \/ balance'[b].used + balance'[b].reserved <= balance[b].used + balance[b].reserved
            \/ balance'[b].used + balance'[b].reserved <= balance'[b].total
<1> DEFINE held == Ledger!Holding(b)
           taken == Ledger!Taken(b)
           row == balance[b]
           Goal == /\ BooksOn(b)'
                   /\ balance'[b].total = row.total
                   /\ \/ balance'[b].used + balance'[b].reserved <= row.used + row.reserved
                      \/ balance'[b].used + balance'[b].reserved <= balance'[b].total
<1>1. /\ balance \in [Balances -> [total : Nat, used : Nat, reserved : Nat]]
      /\ row \in [total : Nat, used : Nat, reserved : Nat]
  BY DEF TypeOK
<1>2. /\ held \in SUBSET Requests /\ taken \in SUBSET Requests
      /\ IsFiniteSet(Ledger!DaysIn(held)) /\ row.reserved = Cardinality(Ledger!DaysIn(held))
      /\ IsFiniteSet(Ledger!DaysIn(taken)) /\ row.used = Cardinality(Ledger!DaysIn(taken))
  BY DEF BooksOn, Ledger!Holding, Ledger!Taken
<1>3. ASSUME NEW r \in Requests
      PROVE  /\ BalanceOf[r] \in Balances /\ Days[r] \in Nat \ {0}
             /\ r \in held <=> BalanceOf[r] = b /\ status[r] \in Ledger!Undecided
             /\ r \in taken <=> BalanceOf[r] = b /\ status[r] = "APPROVED"
  BY StoreAssumption DEF Ledger!Holding, Ledger!Taken
\* How a transition of r moves it among the requests that count.
<1>4. ASSUME NEW r \in Requests, NEW to, status' = [status EXCEPT ![r] = to]
      PROVE  /\ BalanceOf[r] # b => Ledger!Holding(b)' = held /\ Ledger!Taken(b)' = taken
             /\ BalanceOf[r] = b /\ to \in Ledger!Undecided => Ledger!Holding(b)' = held \cup {r}
             /\ BalanceOf[r] = b /\ to \notin Ledger!Undecided => Ledger!Holding(b)' = held \ {r}
             /\ BalanceOf[r] = b /\ to = "APPROVED" => Ledger!Taken(b)' = taken \cup {r}
             /\ BalanceOf[r] = b /\ to # "APPROVED" => Ledger!Taken(b)' = taken \ {r}
  <2>1. \A q \in Requests : status'[q] = IF q = r THEN to ELSE status[q]
    BY <1>4 DEF TypeOK
  <2> QED
    BY <2>1 DEF Ledger!Holding, Ledger!Taken, Ledger!Undecided
<1>5. ASSUME NEW r \in Requests, NEW to, status' = [status EXCEPT ![r] = to], BalanceOf[r] # b,
             balance'[b] = balance[b]
      PROVE  Goal
  <2>1. Ledger!Holding(b)' = held /\ Ledger!Taken(b)' = taken
    BY <1>5, <1>4
  <2> QED
    BY <1>1, <1>2, <1>5, <2>1, BooksAgain
<1>6. CASE UNCHANGED <<balance, status>>
  BY <1>1, <1>6, SameBooks
<1>7. ASSUME NEW r \in Requests, status[r] = Absent,
             status' = [status EXCEPT ![r] = "PENDING"], ReserveBalance(r)
      PROVE  Goal
  <2>1. CASE BalanceOf[r] # b
    <3>1. balance'[b] = balance[b]
      BY <1>1, <1>3, <2>1, <1>7 DEF ReserveBalance
    <3> QED
      BY <1>5, <1>7, <2>1, <3>1
  <2>2. CASE BalanceOf[r] = b
    <3>1. r \notin held /\ r \notin taken
      BY <1>3, <1>7 DEF Ledger!Undecided, Absent
    <3>2. Ledger!Holding(b)' = held \cup {r} /\ Ledger!Taken(b)' = taken
      <4>1. "PENDING" \in Ledger!Undecided /\ "PENDING" # "APPROVED" /\ taken \ {r} = taken
        BY <3>1 DEF Ledger!Undecided
      <4> QED
        BY <1>7, <2>2, <4>1, <1>4
    <3>3. /\ balance'[b] = [row EXCEPT !.reserved = row.reserved + Days[r]]
          /\ Floor0(row.total - row.used - row.reserved) >= Days[r]
      BY <1>1, <1>7, <2>2 DEF ReserveBalance
    <3>4. /\ balance'[b].total = row.total /\ balance'[b].used = row.used
          /\ balance'[b].reserved = row.reserved + Days[r]
      BY <1>1, <3>3
    <3>5. /\ IsFiniteSet(Ledger!DaysIn(held \cup {r}))
          /\ Cardinality(Ledger!DaysIn(held \cup {r})) = Cardinality(Ledger!DaysIn(held)) + Days[r]
      BY <1>2, <3>1, DaysCounted
    <3> HIDE DEF row, held, taken
    <3>6. BooksOn(b)'
      BY <1>2, <3>2, <3>4, <3>5, BooksAgain
    <3>7. row.used + (row.reserved + Days[r]) <= row.total
      BY <1>1, <1>3, <3>3 DEF Floor0
    <3> QED
      BY <3>4, <3>6, <3>7
  <2> QED
    BY <2>1, <2>2
<1>8. ASSUME NEW r \in Requests, NEW to \in {"APPROVED_PENDING_HCM", "FAILED"},
             status[r] \in Ledger!Undecided,
             status' = [status EXCEPT ![r] = to], UNCHANGED balance
      PROVE  Goal
  <2>1. CASE BalanceOf[r] # b
    BY <1>5, <1>8, <2>1
  <2>2. CASE BalanceOf[r] = b
    <3>1. r \in held /\ r \notin taken /\ to # "APPROVED"
      BY <1>3, <1>8, <2>2 DEF Ledger!Undecided
    <3>2. Ledger!Holding(b)' = held /\ Ledger!Taken(b)' = taken
      <4>1. to \in Ledger!Undecided /\ held \cup {r} = held /\ taken \ {r} = taken
        BY <3>1 DEF Ledger!Undecided
      <4> QED
        BY <1>8, <2>2, <3>1, <4>1, <1>4
    <3> QED
      BY <1>1, <1>2, <1>8, <3>2, BooksAgain
  <2> QED
    BY <2>1, <2>2
<1>9. ASSUME NEW r \in Requests, status[r] \in Ledger!Undecided, BalanceOf[r] = b
      PROVE  /\ r \in held /\ r \notin taken
             /\ IsFiniteSet(Ledger!DaysIn(held \ {r}))
             /\ Cardinality(Ledger!DaysIn(held \ {r})) = row.reserved - Days[r]
             /\ Floor0(row.reserved - Days[r]) = row.reserved - Days[r]
  <2>1. r \in held /\ r \notin taken
    BY <1>3, <1>9 DEF Ledger!Undecided
  <2>2. /\ IsFiniteSet(Ledger!DaysIn(held \ {r}))
        /\ Cardinality(Ledger!DaysIn(held \ {r})) = row.reserved - Days[r]
    BY <1>2, <2>1, DaysCounted
  <2>3. Cardinality(Ledger!DaysIn(held \ {r})) \in Nat
    BY <2>2, FS_CardinalityType
  <2> HIDE DEF held, row
  <2>4. Floor0(row.reserved - Days[r]) = row.reserved - Days[r]
    BY <2>2, <2>3 DEF Floor0
  <2> QED
    BY <2>1, <2>2, <2>4
<1>10. ASSUME NEW r \in Requests, NEW to \in {"REJECTED", "CANCELLED"}, status[r] \in Ledger!Undecided,
             status' = [status EXCEPT ![r] = to], ReleaseReserved(r)
      PROVE  Goal
  <2>1. CASE BalanceOf[r] # b
    <3>1. balance'[b] = balance[b]
      BY <1>1, <1>3, <1>10, <2>1 DEF ReleaseReserved
    <3> QED
      BY <1>5, <1>10, <2>1, <3>1
  <2>2. CASE BalanceOf[r] = b
    <3>1. Ledger!Holding(b)' = held \ {r} /\ Ledger!Taken(b)' = taken
      <4>1. to \notin Ledger!Undecided /\ to # "APPROVED" /\ taken \ {r} = taken
        BY <1>9, <1>10, <2>2 DEF Ledger!Undecided
      <4> QED
        BY <1>10, <2>2, <4>1, <1>4
    <3>2. balance'[b] = [row EXCEPT !.reserved = Floor0(row.reserved - Days[r])]
      BY <1>1, <1>10, <2>2 DEF ReleaseReserved
    <3>3. Floor0(row.reserved - Days[r]) = row.reserved - Days[r]
      BY <1>9, <1>10, <2>2
    <3>4. /\ balance'[b].total = row.total /\ balance'[b].used = row.used
          /\ balance'[b].reserved = row.reserved - Days[r]
      BY <1>1, <3>2, <3>3
    <3>5. /\ IsFiniteSet(Ledger!DaysIn(held \ {r}))
          /\ Cardinality(Ledger!DaysIn(held \ {r})) = row.reserved - Days[r]
      BY <1>9, <1>10, <2>2
    <3> HIDE DEF row, held, taken
    <3>6. BooksOn(b)'
      BY <1>2, <3>1, <3>4, <3>5, BooksAgain
    <3> QED
      BY <1>1, <1>3, <3>4, <3>6
  <2> QED
    BY <2>1, <2>2
<1>11. ASSUME NEW r \in Requests, status[r] \in Ledger!Undecided,
              status' = [status EXCEPT ![r] = "APPROVED"], ConfirmDeduction(r)
       PROVE  Goal
  <2>1. CASE BalanceOf[r] # b
    <3>1. balance'[b] = balance[b]
      BY <1>1, <1>3, <1>11, <2>1 DEF ConfirmDeduction
    <3> QED
      BY <1>5, <1>11, <2>1, <3>1
  <2>2. CASE BalanceOf[r] = b
    <3>1. Ledger!Holding(b)' = held \ {r} /\ Ledger!Taken(b)' = taken \cup {r}
      BY <1>9, <1>11, <2>2, <1>4 DEF Ledger!Undecided
    <3>2. balance'[b] = [row EXCEPT !.reserved = Floor0(row.reserved - Days[r]),
                                    !.used = row.used + Days[r]]
      BY <1>1, <1>11, <2>2 DEF ConfirmDeduction
    <3>3. Floor0(row.reserved - Days[r]) = row.reserved - Days[r]
      BY <1>9, <1>11, <2>2
    <3>4. /\ balance'[b].total = row.total /\ balance'[b].used = row.used + Days[r]
          /\ balance'[b].reserved = row.reserved - Days[r]
      BY <1>1, <3>2, <3>3
    <3>5. /\ IsFiniteSet(Ledger!DaysIn(held \ {r}))
          /\ Cardinality(Ledger!DaysIn(held \ {r})) = row.reserved - Days[r]
          /\ r \notin taken
      BY <1>9, <1>11, <2>2
    <3>6. /\ IsFiniteSet(Ledger!DaysIn(taken \cup {r}))
          /\ Cardinality(Ledger!DaysIn(taken \cup {r})) = row.used + Days[r]
      BY <1>2, <3>5, DaysCounted
    <3> HIDE DEF row, held, taken
    <3>7. BooksOn(b)'
      BY <3>1, <3>4, <3>5, <3>6, BooksAgain
    <3> QED
      BY <1>1, <1>3, <3>4, <3>7
  <2> QED
    BY <2>1, <2>2
<1> QED
  BY <1>6, <1>7, <1>8, <1>10, <1>11 DEF Draws

\* A request is submitted only where its days are available.
LEMMA DrawsWake ==
  ASSUME TypeOK, Draws, NEW r \in Requests, status'[r] \in Active
  PROVE  \/ status[r] \in Active
         \/ balance'[BalanceOf[r]].used + balance'[BalanceOf[r]].reserved
              <= balance'[BalanceOf[r]].total
<1> DEFINE b == BalanceOf[r]
           row == balance[b]
<1>1. /\ b \in Balances /\ Days[r] \in Nat
      /\ balance \in [Balances -> [total : Nat, used : Nat, reserved : Nat]]
      /\ status \in [Requests -> RequestStatus \cup {Absent}]
  BY StoreAssumption DEF TypeOK
<1>2. CASE UNCHANGED status
  BY <1>2
<1>3. ASSUME NEW q \in Requests, status' = [status EXCEPT ![q] = "PENDING"], ReserveBalance(q)
      PROVE  \/ status[r] \in Active
             \/ balance'[b].used + balance'[b].reserved <= balance'[b].total
  <2>1. CASE q = r
    <3>1. /\ balance'[b] = [row EXCEPT !.reserved = row.reserved + Days[r]]
          /\ Floor0(row.total - row.used - row.reserved) >= Days[r]
      BY <1>1, <1>3, <2>1 DEF ReserveBalance
    <3>2. row \in [total : Nat, used : Nat, reserved : Nat]
      BY <1>1
    <3>3. /\ balance'[b].total = row.total /\ balance'[b].used = row.used
          /\ balance'[b].reserved = row.reserved + Days[r]
      BY <3>1, <3>2
    <3> HIDE DEF row, b
    <3>4. row.used + (row.reserved + Days[r]) <= row.total \/ Days[r] = 0
      BY <1>1, <3>1, <3>2 DEF Floor0
    <3>5. Days[r] # 0
      BY StoreAssumption
    <3> QED
      BY <3>3, <3>4, <3>5
  <2>2. CASE q # r
    BY <1>1, <1>3, <2>2
  <2> QED
    BY <2>1, <2>2
<1>4. ASSUME NEW q \in Requests, NEW to \in RequestStatus, status' = [status EXCEPT ![q] = to],
             to \in Active => status[q] \in Active
      PROVE  status[r] \in Active
  BY <1>1, <1>4
<1> QED
  BY <1>2, <1>3, <1>4 DEF Draws, Active

\* No other step comes between the webhook's read and its save.
HookIsCurrent == hook.stage = "read" => hook.copy = CopyOf(hook.copy.row)

\* A reconciliation saves b as it was read, although it has changed since.
\* SyncedSpec does not exclude this: it is what the books cannot bear.
StaleSave(b) ==
  \E j \in Jobs : SaveReconciled(j) /\ job[j].copy.row = b /\ job[j].copy # CopyOf(b)

NoStaleSaves == \A b \in Balances : ~StaleSave(b)

BookState(b) == SyncInv /\ HookIsCurrent /\ BooksOn(b)
BookStates == SyncInv /\ HookIsCurrent /\ \A b \in Balances : BooksOn(b)

\* Saving an entity that is current replaces the total and nothing else.
LEMMA CurrentSave ==
  ASSUME TypeOK, NEW copy \in Copy, NEW total \in Nat, SaveEntity(copy, total),
         NEW b \in Balances, copy.row = b => copy = CopyOf(b)
  PROVE  \/ balance'[b] = balance[b]
         \/ copy.row = b /\ balance'[b] = [balance[b] EXCEPT !.total = total]
<1>1. copy.row = b => copy.used = balance[b].used /\ copy.reserved = balance[b].reserved
  BY DEF CopyOf
<1>2. balance' = [balance EXCEPT ![copy.row] =
                    [total |-> total, used |-> copy.used, reserved |-> copy.reserved]]
  BY DEF SaveEntity, Adopted
<1>3. balance[b] \in [total : Nat, used : Nat, reserved : Nat] /\ DOMAIN balance = Balances
  BY DEF TypeOK
<1>4. CASE copy.row = b
  <2>1. balance'[b] = [total |-> total, used |-> balance[b].used, reserved |-> balance[b].reserved]
    BY <1>1, <1>2, <1>3, <1>4
  <2> QED
    BY <1>3, <1>4, <2>1
<1>5. CASE copy.row # b
  BY <1>2, <1>3, <1>5
<1> QED
  BY <1>4, <1>5

\* What a batch writes is read in the same transaction.
LEMMA SyncAdopts ==
  ASSUME SyncInv, HookIsCurrent, SyncMoves, NEW b \in Balances, ~StaleSave(b)
  PROVE  balance'[b].used = balance[b].used /\ balance'[b].reserved = balance[b].reserved
<1>1. TypeOK /\ SyncTypeOK /\ balance[b] \in [total : Nat, used : Nat, reserved : Nat]
  BY DEF SyncInv, Inv, TypeOK
<1>2. ASSUME NEW copy \in Copy, NEW total \in Nat, SaveEntity(copy, total),
             copy.row = b => copy = CopyOf(b)
      PROVE  balance'[b].used = balance[b].used /\ balance'[b].reserved = balance[b].reserved
  <2>1. balance'[b] = balance[b] \/ balance'[b] = [balance[b] EXCEPT !.total = total]
    BY <1>1, <1>2, CurrentSave
  <2> QED
    BY <1>1, <2>1
<1>3. CASE SaveWebhook
  <2>1. hook.copy \in Copy /\ hook.total \in Nat /\ hook.copy = CopyOf(hook.copy.row)
    BY <1>1, <1>3 DEF SaveWebhook, SyncTypeOK, HookState, HookIsCurrent, Resting
  <2> QED
    BY <1>2, <1>3, <2>1 DEF SaveWebhook
<1>4. ASSUME NEW j \in Jobs, SaveReconciled(j)
      PROVE  balance'[b].used = balance[b].used /\ balance'[b].reserved = balance[b].reserved
  <2>1. job[j].copy \in Copy /\ job[j].total \in Nat
    BY <1>1, <1>4 DEF SaveReconciled, SyncTypeOK, JobState, Resting
  <2>2. job[j].copy.row = b => job[j].copy = CopyOf(b)
    BY <1>4 DEF StaleSave
  <2> QED
    BY <1>2, <1>4, <2>1, <2>2 DEF SaveReconciled
<1>5. ASSUME NEW push \in pushes, ReceiveBatch(push)
      PROVE  balance'[b].used = balance[b].used /\ balance'[b].reserved = balance[b].reserved
  BY <1>1, <1>5 DEF ReceiveBatch
<1>6. \/ UNCHANGED balance \/ SaveWebhook \/ \E j \in Jobs : SaveReconciled(j)
      \/ \E push \in pushes : ReceiveBatch(push)
  BY DEF SyncMoves, SyncSteps, SyncNext, BecomeStale, Refuse, ReceiveWebhook, FailBatch,
         FlagWebhook, StartReconciliation, SkipBalance, WebhookFails, storeVars
<1> QED
  BY <1>3, <1>4, <1>5, <1>6

LEMMA NextHook ==
  ASSUME SyncInv, HookIsCurrent, [SyncedNext /\ SyncRunsToAwait]_syncedVars
  PROVE  HookIsCurrent'
<1>1. CASE UNCHANGED <<hook, balance>>
  BY <1>1 DEF HookIsCurrent, CopyOf
<1>2. CASE hook'.stage # "read"
  BY <1>2 DEF HookIsCurrent
<1>3. UNCHANGED hook => UNCHANGED <<hook, balance>> \/ hook'.stage # "read"
  BY DEF SyncRunsToAwait, syncedVars, vars, storeVars, syncVars, Resting
<1>4. ASSUME NEW push \in pushes, ReceiveWebhook(push)
      PROVE  HookIsCurrent'
  <2>1. UNCHANGED balance
    BY <1>4 DEF ReceiveWebhook, storeVars
  <2>2. PICK b \in DOMAIN push.totals :
          hook' = [stage |-> "read", copy |-> CopyOf(b), total |-> push.totals[b]]
    BY <1>4 DEF ReceiveWebhook
  <2>3. hook'.copy = CopyOf(b) /\ CopyOf(b).row = b /\ CopyOf(b)' = CopyOf(b)
    BY <2>1, <2>2 DEF CopyOf
  <2> QED
    BY <2>1, <2>3 DEF HookIsCurrent, CopyOf
<1>5. ServiceMoves => UNCHANGED hook \/ hook'.stage # "read"
  BY DEF ServiceMoves, Resting
<1>6. HcmActs => UNCHANGED hook
  BY DEF HcmActs, HcmGrants, HcmPushes, HcmReports, SendPush, ReportBalance, syncVars
<1>7. SyncMoves =>
        \/ UNCHANGED hook \/ hook'.stage # "read"
        \/ \E push \in pushes : ReceiveWebhook(push)
  BY DEF SyncMoves, SyncSteps, SyncNext, BecomeStale, Refuse, ReceiveBatch, FailBatch, SaveWebhook,
         FlagWebhook, StartReconciliation, SaveReconciled, SkipBalance, WebhookFails, Resting
<1> QED
  BY <1>1, <1>2, <1>3, <1>4, <1>5, <1>6, <1>7, SyncedKinds

\* Whatever is written over the other balances, b keeps its books.
LEMMA NextBooksOn ==
  ASSUME SyncInv, HookIsCurrent, NEW b \in Balances, BooksOn(b),
         [SyncedNext]_syncedVars, [~StaleSave(b)]_syncedVars
  PROVE  BooksOn(b)'
<1>1. CASE ServiceMoves
  BY <1>1, NextDraws, DrawsKeepBooks DEF SyncInv, Inv, ServiceMoves
<1>2. CASE HcmActs
  BY <1>2, HcmActsKinds, SameBooks DEF ServiceStays
<1>3. CASE SyncMoves /\ ~StaleSave(b)
  BY <1>3, SyncStays, SyncAdopts, SameBooks DEF ServiceStays
<1> QED
  BY <1>1, <1>2, <1>3, SyncedKinds, StutterServes

LEMMA NextBookState ==
  ASSUME NEW b \in Balances
  PROVE  /\ BookState(b) /\ [SyncedNext /\ SyncRunsToAwait]_syncedVars
            /\ [~StaleSave(b)]_syncedVars
         => BookState(b)'
BY NextSyncInv, NextHook, NextBooksOn DEF BookState

LEMMA NextBookStates ==
  /\ BookStates /\ [SyncedNext /\ SyncRunsToAwait]_syncedVars /\ [NoStaleSaves]_syncedVars
  => BookStates'
<1> SUFFICES ASSUME BookStates, [SyncedNext /\ SyncRunsToAwait]_syncedVars,
                    [NoStaleSaves]_syncedVars
             PROVE  BookStates'
  OBVIOUS
<1>1. SyncInv' /\ HookIsCurrent'
  BY NextSyncInv, NextHook DEF BookStates
<1>2. ASSUME NEW b \in Balances
      PROVE  BooksOn(b)'
  BY NextBooksOn DEF BookStates, NoStaleSaves
<1> QED
  BY <1>1, <1>2 DEF BookStates

LEMMA InitBookStates == SyncedInit => BookStates
<1>1. SyncedInit => SyncInv
  BY InitSyncInv
<1>2. Init => \A b \in Balances : BooksOn(b)
  <2>1. Init => LP!HeldDaysReserved /\ LP!TakenDaysUsed
    BY InitMaps, LedgerConstants, LP!InitAccounting
  <2> QED
    BY <2>1, SameCounting DEF LP!HeldDaysReserved, LP!TakenDaysUsed, BooksOn
<1>3. SyncInit => HookIsCurrent
  BY DEF SyncInit, HookIsCurrent, Resting
<1> QED
  BY <1>1, <1>2, <1>3 DEF SyncedInit, BookStates

\* What a reconciliation of one balance spoils is that balance and no other: b
\* keeps its books as long as b itself is not saved as it was before.
THEOREM BooksOfABalance ==
  ASSUME NEW b \in Balances
  PROVE  SyncedSpec /\ [][~StaleSave(b)]_syncedVars => []BooksOn(b)
<1>1. SyncedInit => BookState(b)
  BY InitBookStates DEF BookState, BookStates
<1>2. BookState(b) => BooksOn(b)
  BY DEF BookState
<1> QED
  BY <1>1, <1>2, NextBookState, PTL DEF SyncedSpec

\* Nothing that the service, the HCM or the synchronisation does makes the
\* counters of a balance wrong, except for saving that balance as it was before.
THEOREM OnlyStaleSavesSpoilTheBooks ==
  SyncedSpec => [][\A b \in Balances : BooksOn(b) => BooksOn(b)' \/ StaleSave(b)]_syncedVars
<1>1. SyncedInit => HookIsCurrent
  BY InitBookStates DEF BookStates
<1>2. SyncInv /\ HookIsCurrent /\ [SyncedNext /\ SyncRunsToAwait]_syncedVars => HookIsCurrent'
  BY NextHook
<1>3. SyncInv /\ HookIsCurrent /\ [SyncedNext /\ SyncRunsToAwait]_syncedVars
        => [\A b \in Balances : BooksOn(b) => BooksOn(b)' \/ StaleSave(b)]_syncedVars
  BY NextBooksOn
<1> QED
  BY <1>1, <1>2, <1>3, SyncInvariance, PTL DEF SyncedSpec

\* Batches and webhooks, late, lost, refused or out of order, leave reserved_days
\* and used_days what they are; and so does reconciliation, as long as the row
\* is not written between its read and its save.
THEOREM PushesSpareTheBooks ==
  SyncedSpec /\ [][NoStaleSaves]_syncedVars => []BooksSurviveSync
<1>1. BookStates => BooksSurviveSync
  BY SameCounting
  DEF BookStates, BooksOn, BooksSurviveSync, Ledger!HeldDaysReserved, Ledger!TakenDaysUsed
<1> QED
  BY <1>1, InitBookStates, NextBookStates, PTL DEF SyncedSpec

-----------------------------------------------------------------------------
(***************************************************************************)
(* Agreement with the HCM                                                  *)
(***************************************************************************)

\* The totals that are adopted, and even the counters that a stale save brings
\* back, never come between the service and the HCM: what is approved is
\* deducted, what is deducted is approved or owed back, and what the HCM was
\* asked for follows the request.
THEOREM AgreementSurvivesSync ==
  SyncedSpec => [](/\ Ledger!ApprovedIsDeducted
                   /\ Ledger!DeductionIsOwedOrReversible
                   /\ Ledger!IntentsMatchStatus)
<1>1. SyncInv => /\ Ledger!ApprovedIsDeducted
                 /\ Ledger!DeductionIsOwedOrReversible
                 /\ Ledger!IntentsMatchStatus
  BY InvAgrees
  DEF SyncInv, LP!ApprovedIsDeducted, LP!DeductionIsOwedOrReversible, LP!IntentsMatchStatus,
      Ledger!ApprovedIsDeducted, Ledger!DeductionIsOwedOrReversible, Ledger!IntentsMatchStatus,
      Intents, Charged
<1> QED
  BY <1>1, SyncInvariance, PTL

-----------------------------------------------------------------------------
(***************************************************************************)
(* Claims and calls                                                        *)
(***************************************************************************)

\* A step is one of the service, or leaves alone all but rows of leave_balances
\* and totals of the HCM.
LEMMA NextOrStays ==
  ASSUME SyncInv, [SyncedNext]_syncedVars
  PROVE  [Next]_vars \/ ServiceStays
BY SyncedKinds, HcmActsKinds, SyncStays DEF ServiceMoves

LEMMA StayingKeepsClaims ==
  ASSUME ServiceStays
  PROVE  /\ ClaimsHold => ClaimsHold'
         /\ OneAtATime => OneAtATime'
         /\ TodoIsProper => TodoIsProper'
         /\ CopiesAreFresh => CopiesAreFresh'
         /\ AttemptsMatch => AttemptsMatch'
         /\ ReturnInv => ReturnInv'
         /\ \A r \in Requests : IsAttended(r) => IsAttended(r)'
<1>1. UNCHANGED <<outbox, tick, handler, hcmRequestId, status, deductions>>
  BY DEF ServiceStays
<1>2. \A r \in Requests : IsAttended(r) => IsAttended(r)'
  BY <1>1 DEF IsAttended, InHand, EventsFor, Working
<1> QED
  BY <1>1, <1>2, StutterFresh
  DEF ClaimsHold, ClaimsAreExclusive, RetriesFindFailed, OneAtATime,
      ReturnInv, LearntIds, AnswersAreExact, ReversalsAreExact, CancelledDaysReturned,
      EventsFor, DeductionsFor, Working, Claimed

ClaimState == SyncInv /\ ClaimsHold /\ OneAtATime

LEMMA NextClaimState ==
  ClaimState /\ [SyncedNext /\ SyncRunsToAwait]_syncedVars => ClaimState'
<1> SUFFICES ASSUME ClaimState, [SyncedNext /\ SyncRunsToAwait]_syncedVars
             PROVE  ClaimState'
  OBVIOUS
<1>1. SyncInv /\ Inv /\ SyncInv' /\ ([Next]_vars \/ ServiceStays)
  BY NextSyncInv, NextOrStays DEF ClaimState, SyncInv
<1>2. ClaimsHold'
  BY <1>1, NextClaims, StayingKeepsClaims DEF ClaimState
<1>3. OneAtATime'
  <2>1. RunsToAwait \/ UNCHANGED vars
    BY DEF SyncRunsToAwait, syncedVars
  <2> QED
    BY <1>1, <2>1, StepOneAtATime, StutterClaims, StayingKeepsClaims DEF ClaimState
<1> QED
  BY <1>1, <1>2, <1>3 DEF ClaimState

LEMMA InitClaimState == SyncedInit => ClaimState
BY InitSyncInv, InitClaims DEF SyncedInit, ClaimState

LEMMA ClaimInvariance == SyncedSpec => []ClaimState
BY InitClaimState, NextClaimState, PTL DEF SyncedSpec

\* Every promise that the service keeps by itself it also keeps while balances are
\* synchronised, stale saves included: no call is enqueued or charged twice, what
\* is APPROVED or DONE is so in the HCM too, no two ticks share an event, and
\* nothing but a crash or an aborted tick leaves a waiting request to nobody.
THEOREM PromisesSurviveSync ==
  SyncedSpec => /\ [](/\ OneEventPerIntent /\ ChargedOnce /\ ApprovedHoldsDeduction
                      /\ DoneMeansDelivered /\ ClaimsAreExclusive)
                /\ OnlyFaultsStrandRequests
<1>1. ClaimState => /\ OneEventPerIntent /\ ChargedOnce /\ ApprovedHoldsDeduction
                    /\ DoneMeansDelivered /\ ClaimsAreExclusive
  BY OneEvent, OneDeduction DEF ClaimState, SyncInv, Inv, ClaimsHold
<1>2. ClaimState /\ [SyncedNext /\ SyncRunsToAwait]_syncedVars =>
        [\A r \in Requests : IsAttended(r) => IsAttended(r)' \/ faults' # faults]_vars
  <2> SUFFICES ASSUME ClaimState, [SyncedNext]_syncedVars, ~UNCHANGED vars,
                      NEW r \in Requests, IsAttended(r)
               PROVE  IsAttended(r)' \/ faults' # faults
    OBVIOUS
  <2>1. CASE Next
    BY <2>1, NextAttended DEF ClaimState, SyncInv
  <2>2. CASE ServiceStays
    BY <2>2, StayingKeepsClaims
  <2> QED
    BY <2>1, <2>2, NextOrStays DEF ClaimState
<1> QED
  BY <1>1, <1>2, ClaimInvariance, PTL DEF SyncedSpec, OnlyFaultsStrandRequests

RetryState == ClaimState /\ TodoIsProper /\ CopiesAreFresh /\ AttemptsMatch

LEMMA NextRetryState ==
  RetryState /\ [SyncedNext /\ SyncRunsToAwait]_syncedVars /\ [NobodyOvertakes]_vars => RetryState'
<1> SUFFICES ASSUME RetryState, [SyncedNext /\ SyncRunsToAwait]_syncedVars, [NobodyOvertakes]_vars
             PROVE  RetryState'
  OBVIOUS
<1>1. ClaimState'
  BY NextClaimState DEF RetryState
<1>2. CASE [Next]_vars
  BY <1>1, <1>2, NextFresh DEF RetryState, ClaimState, SyncInv, ClaimsHold
<1>3. CASE ServiceStays
  BY <1>1, <1>3, StayingKeepsClaims DEF RetryState
<1> QED
  BY <1>2, <1>3, NextOrStays DEF RetryState, ClaimState

\* Synchronisation neither shortens a backoff nor hides a failed attempt: as without
\* it, only a tick can, that gives back an event which another tick has read.
THEOREM RetriesSurviveSync ==
  SyncedSpec /\ [][NobodyOvertakes]_vars => BackoffHonoured /\ AttemptsCounted
<1>1. SyncedInit => RetryState
  BY InitClaimState, InitFresh DEF SyncedInit, RetryState
<1>2. ASSUME RetryState, [SyncedNext]_syncedVars, NEW e \in DOMAIN outbox
      PROVE  /\ outbox[e].status = "PENDING" /\ outbox'[e].status = "PROCESSING" => outbox[e].due
             /\ outbox[e].status = "PROCESSING" /\ outbox'[e].status \in {"PENDING", "FAILED"}
                  => outbox'[e].attempts = outbox[e].attempts + 1
  <2>1. CASE UNCHANGED outbox
    BY <2>1
  <2>2. CASE Next
    <3>1. Inv /\ Kinds /\ RetriesFindFailed
      BY <1>2, <2>2, NextKinds DEF RetryState, ClaimState, SyncInv, ClaimsHold
    <3> QED
      BY <1>2, <3>1, StepBackoff, StepAttempts DEF RetryState
  <2>3. [Next]_vars \/ ServiceStays
    BY <1>2, NextOrStays DEF RetryState, ClaimState
  <2> QED
    BY <2>1, <2>2, <2>3 DEF ServiceStays, vars, storeVars
<1>3. RetryState /\ [SyncedNext /\ SyncRunsToAwait]_syncedVars =>
        [\A e \in DOMAIN outbox :
           outbox[e].status = "PENDING" /\ outbox'[e].status = "PROCESSING" => outbox[e].due]_vars
  BY <1>2
<1>4. RetryState /\ [SyncedNext /\ SyncRunsToAwait]_syncedVars =>
        [\A e \in DOMAIN outbox :
           outbox[e].status = "PROCESSING" /\ outbox'[e].status \in {"PENDING", "FAILED"}
             => outbox'[e].attempts = outbox[e].attempts + 1]_vars
  BY <1>2
<1> QED
  BY <1>1, <1>3, <1>4, NextRetryState, PTL
  DEF SyncedSpec, BackoffHonoured, AttemptsCounted

\* Days once reversed stay with the employee, in the HCM, whatever is synchronised
\* meanwhile, unless a deduction arrives after its caller gave up.
THEOREM ReturnsSurviveSync ==
  SyncedSpec /\ []NoLateDeduction => []CancelledDaysReturned
<1>1. SyncedInit => ReturnInv
  BY InitReturn DEF SyncedInit
<1>2. /\ ClaimState /\ ReturnInv /\ NoLateDeduction
      /\ [SyncedNext /\ SyncRunsToAwait]_syncedVars
      => ReturnInv'
  BY NextOrStays, NextReturn, StayingKeepsClaims DEF ClaimState, SyncInv
<1>3. ReturnInv => CancelledDaysReturned
  BY DEF ReturnInv
<1> QED
  BY <1>1, <1>2, <1>3, ClaimInvariance, PTL DEF SyncedSpec

\* Days that the HCM still holds of a cancelled request have a reversal that is to
\* be processed or has FAILED, but never one that is DONE.  NoOrphanedDeduction,
\* which the code violates, asks that an event of the request be unsettled.
THEOREM OrphansKeepTheirReversal ==
  SyncedSpec /\ []NoLateDeduction
    => [](\A r \in Requests : status[r] = "CANCELLED" /\ DeductionsFor(r) # {} =>
            \E e \in EventsFor("HCM_REVERSE", r) :
              outbox[e].status \in Unsettled \cup {"FAILED"})
<1> DEFINE Reversible ==
      \A r \in Requests : status[r] = "CANCELLED" /\ DeductionsFor(r) # {} =>
        \E e \in EventsFor("HCM_REVERSE", r) : outbox[e].status \in Unsettled \cup {"FAILED"}
<1>1. ASSUME SyncInv, CancelledDaysReturned
      PROVE  Reversible
  <2> SUFFICES ASSUME NEW r \in Requests, status[r] = "CANCELLED", DeductionsFor(r) # {}
               PROVE  \E e \in EventsFor("HCM_REVERSE", r) :
                        outbox[e].status \in Unsettled \cup {"FAILED"}
    OBVIOUS
  <2>1. EventsFor("HCM_DEDUCT", r) # {}
    BY <1>1 DEF SyncInv, Inv, References, IsDeduct, DeductionsFor, EventsFor
  <2>2. PICK e \in EventsFor("HCM_REVERSE", r) : TRUE
    BY <1>1, <2>1 DEF SyncInv, Inv, ReversalsAreOwed
  <2>3. outbox[e].status # "DONE"
    BY <1>1 DEF CancelledDaysReturned
  <2>4. outbox[e].status \in OutboxEventStatus
    BY <1>1, EventsTyped DEF SyncInv, Inv, EventsFor, OutboxEvent
  <2> QED
    BY <2>3, <2>4 DEF OutboxEventStatus, Unsettled
<1> HIDE DEF Reversible
<1>2. SyncInv /\ CancelledDaysReturned => Reversible
  BY <1>1
<1>3. SyncedSpec /\ []NoLateDeduction => []Reversible
  BY <1>2, SyncInvariance, ReturnsSurviveSync, PTL
<1> QED
  BY <1>3 DEF Reversible

-----------------------------------------------------------------------------
(***************************************************************************)
(* Overdrawn balances                                                      *)
(***************************************************************************)

\* Nothing is booked on a balance that has no row yet.
MissingIsEmpty ==
  \A b \in Balances :
    freshness[b] = "missing" =>
      BooksOn(b) /\ balance[b] = [total |-> 0, used |-> 0, reserved |-> 0]

ToldState == SyncInv /\ HookIsCurrent /\ MissingIsEmpty

\* Rows that are synchronised are no longer missing, and others stay as they are.
LEMMA SyncKeepsMissing ==
  ASSUME SyncInv, MissingIsEmpty, SyncMoves
  PROVE  MissingIsEmpty'
<1> SUFFICES ASSUME NEW b \in Balances, freshness'[b] = "missing"
             PROVE  BooksOn(b)' /\ balance'[b] = [total |-> 0, used |-> 0, reserved |-> 0]
  BY DEF MissingIsEmpty
<1>1. TypeOK /\ SyncTypeOK
  BY DEF SyncInv, Inv
<1>2. freshness[b] = "missing" /\ balance'[b] = balance[b]
  <2>1. CASE UNCHANGED <<balance, freshness>>
    BY <2>1
  <2>2. ASSUME NEW copy, NEW total, SaveEntity(copy, total)
        PROVE  freshness[b] = "missing" /\ balance'[b] = balance[b]
    BY <1>1, <2>2 DEF SaveEntity, TypeOK, SyncTypeOK
  <2>3. ASSUME NEW push \in pushes, ReceiveBatch(push)
        PROVE  freshness[b] = "missing" /\ balance'[b] = balance[b]
    BY <1>1, <2>3 DEF ReceiveBatch, TypeOK
  <2>4. ASSUME NEW c \in Balances, BecomeStale(c)
        PROVE  freshness[b] = "missing" /\ balance'[b] = balance[b]
    BY <1>1, <2>4 DEF BecomeStale, SyncTypeOK, storeVars
  <2> QED
    BY <2>1, <2>2, <2>3, <2>4
    DEF SyncMoves, SyncSteps, SyncNext, Refuse, ReceiveWebhook, FailBatch, SaveWebhook, FlagWebhook,
        StartReconciliation, SaveReconciled, SkipBalance, WebhookFails, storeVars
<1>3. BooksOn(b) /\ balance[b] = [total |-> 0, used |-> 0, reserved |-> 0]
  BY <1>2 DEF MissingIsEmpty
<1>4. BooksOn(b)'
  BY <1>2, <1>3, SyncStays, SameBooks DEF ServiceStays
<1> QED
  BY <1>2, <1>3, <1>4

\* Nothing can be drawn on what is empty.
LEMMA ServiceKeepsMissing ==
  ASSUME SyncInv, MissingIsEmpty, ServiceMoves
  PROVE  MissingIsEmpty'
<1> SUFFICES ASSUME NEW b \in Balances, freshness'[b] = "missing"
             PROVE  BooksOn(b)' /\ balance'[b] = [total |-> 0, used |-> 0, reserved |-> 0]
  BY DEF MissingIsEmpty
<1>1. TypeOK /\ TypeOK' /\ Draws
  BY NextInv, NextDraws DEF SyncInv, ServiceMoves, Inv
<1>2. BooksOn(b) /\ balance[b] = [total |-> 0, used |-> 0, reserved |-> 0]
  BY DEF MissingIsEmpty, ServiceMoves
<1>3. balance[b].total = 0 /\ balance[b].used = 0 /\ balance[b].reserved = 0
  BY <1>2
<1>4. balance'[b] \in [total : Nat, used : Nat, reserved : Nat]
  BY <1>1 DEF TypeOK
<1>5. /\ BooksOn(b)' /\ balance'[b].total = balance[b].total
      /\ \/ balance'[b].used + balance'[b].reserved <= balance[b].used + balance[b].reserved
         \/ balance'[b].used + balance'[b].reserved <= balance'[b].total
  BY <1>1, <1>2, DrawsKeepBooks
<1>6. balance'[b].total = 0 /\ balance'[b].used = 0 /\ balance'[b].reserved = 0
  BY <1>3, <1>4, <1>5
<1> QED
  BY <1>4, <1>5, <1>6

LEMMA NextToldState ==
  ToldState /\ [SyncedNext /\ SyncRunsToAwait]_syncedVars => ToldState'
<1> SUFFICES ASSUME ToldState, [SyncedNext /\ SyncRunsToAwait]_syncedVars
             PROVE  ToldState'
  OBVIOUS
<1>1. SyncInv' /\ HookIsCurrent'
  BY NextSyncInv, NextHook DEF ToldState
<1>2. CASE HcmActs
  <2>1. UNCHANGED <<balance, freshness, status>>
    BY <1>2, HcmActsKinds DEF ToldState, ServiceStays
  <2>2. \A b \in Balances : BooksOn(b) => BooksOn(b)'
    BY <2>1, SameBooks
  <2> QED
    BY <1>1, <2>1, <2>2 DEF ToldState, MissingIsEmpty
<1> QED
  BY <1>1, <1>2, SyncedKinds, ServiceKeepsMissing, SyncKeepsMissing DEF ToldState

LEMMA InitToldState == SyncedInit => ToldState
<1> SUFFICES ASSUME SyncedInit
             PROVE  ToldState
  OBVIOUS
<1>1. \A b \in Balances :
        /\ balance[b] = [total |-> Entitlement[b], used |-> 0, reserved |-> 0]
        /\ freshness[b] = "missing" => Entitlement[b] = 0
  BY SyncAssumption DEF SyncedInit, Init, StoreInit, SyncInit
<1> QED
  BY <1>1, InitBookStates DEF ToldState, MissingIsEmpty, BookStates

\* What the property asks of a step.
KeepsTelling(r) ==
  \/ Told(r)'
  \/ BeingFlagged(r) /\ faults' # faults
  \/ \E j \in Jobs : OverdrawsSilently(j, BalanceOf[r])

\* The row stays as it is, and what is being flagged is not forgotten.
LEMMA StillTold ==
  ASSUME NEW r \in Requests, Told(r), UNCHANGED <<status, balance[BalanceOf[r]]>>,
         flagged \subseteq flagged',
         BeingFlagged(r) /\ status[r] \in Active
           => r \in flagged' \/ BeingFlagged(r)' \/ faults' # faults
  PROVE  KeepsTelling(r)
BY DEF Told, KeepsTelling

\* The service draws only on what is covered, and a crash that cuts the webhook
\* short is a fault.
LEMMA ServiceTells ==
  ASSUME SyncInv, ServiceMoves, NEW r \in Requests, BooksOn(BalanceOf[r]), Told(r)
  PROVE  KeepsTelling(r)
<1> DEFINE b == BalanceOf[r]
<1>1. TypeOK /\ TypeOK' /\ Draws /\ b \in Balances
  BY NextInv, NextDraws, StoreAssumption DEF SyncInv, ServiceMoves, Inv
<1>2. /\ balance[b] \in [total : Nat, used : Nat, reserved : Nat]
      /\ balance'[b] \in [total : Nat, used : Nat, reserved : Nat]
  BY <1>1 DEF TypeOK
<1>3. /\ balance'[b].total = balance[b].total
      /\ \/ balance'[b].used + balance'[b].reserved <= balance[b].used + balance[b].reserved
         \/ balance'[b].used + balance'[b].reserved <= balance'[b].total
  BY <1>1, DrawsKeepBooks
<1>4. UNCHANGED flagged /\ (UNCHANGED hook \/ faults' # faults)
  BY <1>1 DEF ServiceMoves, TypeOK
<1> SUFFICES ASSUME status'[r] \in Active, balance'[b].total < balance'[b].used + balance'[b].reserved
             PROVE  r \in flagged' \/ BeingFlagged(r)' \/ (BeingFlagged(r) /\ faults' # faults)
  BY DEF KeepsTelling, Told
<1>5. status[r] \in Active
  <2>1. \/ status[r] \in Active
        \/ balance'[b].used + balance'[b].reserved <= balance'[b].total
    BY <1>1, DrawsWake
  <2> QED
    BY <1>2, <2>1
<1>6. balance[b].total < balance[b].used + balance[b].reserved
  BY <1>2, <1>3
<1>7. r \in flagged \/ BeingFlagged(r)
  BY <1>5, <1>6 DEF Told
<1> QED
  BY <1>4, <1>7 DEF BeingFlagged

LEMMA BatchTells ==
  ASSUME ToldState, NEW push \in pushes, ReceiveBatch(push), NEW r \in Requests, Told(r)
  PROVE  KeepsTelling(r)
<1> DEFINE b == BalanceOf[r]
<1>1. /\ push.totals \in [DOMAIN push.totals -> Nat]
      /\ TypeOK /\ b \in Balances
  BY StoreAssumption DEF ToldState, SyncInv, SyncTypeOK, IsPush, Inv
<1>2. /\ flagged' = flagged \cup FlaggedBy(push.totals)
      /\ UNCHANGED <<status, hook>>
  BY DEF ReceiveBatch, requestRows
<1>3. BeingFlagged(r) => BeingFlagged(r)'
  BY <1>2 DEF BeingFlagged
<1>4. CASE b \notin DOMAIN push.totals
  <2>1. UNCHANGED balance[b]
    BY <1>1, <1>4 DEF ReceiveBatch
  <2> QED
    BY <1>2, <1>3, <2>1, StillTold
<1>5. CASE b \in DOMAIN push.totals
  <2> SUFFICES ASSUME status'[r] \in Active, balance'[b].total < balance'[b].used + balance'[b].reserved
               PROVE  r \in flagged'
    BY DEF KeepsTelling, Told
  <2>1. /\ balance[b] \in [total : Nat, used : Nat, reserved : Nat]
        /\ balance'[b] = [balance[b] EXCEPT !.total = push.totals[b]]
        /\ push.totals[b] \in Nat
    BY <1>1, <1>5 DEF ReceiveBatch, Adopted, TypeOK
  <2>2. push.totals[b] < balance[b].used + balance[b].reserved
    BY <2>1
  <2>3. freshness[b] # "missing"
    <3>1. CASE freshness[b] = "missing"
      <4>1. balance[b].used = 0 /\ balance[b].reserved = 0
        BY <1>1, <3>1 DEF ToldState, MissingIsEmpty
      <4> QED
        BY <2>1, <2>2, <4>1
    <3> QED
      BY <3>1
  <2>4. ActiveRequests(b.employee) \subseteq FlaggedBy(push.totals)
    BY <1>1, <1>5, <2>2, <2>3 DEF FlaggedBy, Discrepancy
  <2>5. r \in ActiveRequests(b.employee)
    BY <1>2 DEF ActiveRequests
  <2> QED
    BY <1>2, <2>4, <2>5
<1> QED
  BY <1>4, <1>5

\* The webhook's handler saves a row that is current, and remembers whether to flag.
LEMMA WebhookTells ==
  ASSUME ToldState, SaveWebhook, NEW r \in Requests, Told(r)
  PROVE  KeepsTelling(r)
<1> DEFINE b == BalanceOf[r]
           copy == hook.copy
<1>1. /\ copy \in Copy /\ hook.total \in Nat /\ copy = CopyOf(copy.row)
      /\ TypeOK /\ b \in Balances /\ UNCHANGED <<status, flagged>>
  BY StoreAssumption
  DEF ToldState, SyncInv, Inv, SaveWebhook, SyncTypeOK, HookState, Resting, HookIsCurrent, requestRows
<1>2. SaveEntity(copy, hook.total) /\ ~BeingFlagged(r)
  BY DEF SaveWebhook, BeingFlagged
<1>3. hook' = [stage |-> "saved", row |-> copy.row,
               discrepancy |-> Discrepancy(hook.total, copy.used, copy.reserved)]
  BY DEF SaveWebhook
<1>4. CASE UNCHANGED balance[b]
  BY <1>1, <1>2, <1>4, StillTold
<1>5. CASE copy.row = b /\ balance'[b] = [balance[b] EXCEPT !.total = hook.total]
  <2> SUFFICES ASSUME status'[r] \in Active, balance'[b].total < balance'[b].used + balance'[b].reserved
               PROVE  BeingFlagged(r)'
    BY DEF KeepsTelling, Told
  <2>1. /\ balance'[b].total = hook.total /\ balance'[b].used = balance[b].used
        /\ balance'[b].reserved = balance[b].reserved
    BY <1>1, <1>5 DEF TypeOK
  <2>2. copy.used = balance[b].used /\ copy.reserved = balance[b].reserved
    BY <1>1, <1>5 DEF CopyOf
  <2>3. Discrepancy(hook.total, copy.used, copy.reserved)
    BY <2>1, <2>2 DEF Discrepancy
  <2> QED
    BY <1>3, <1>5, <2>3 DEF BeingFlagged
<1>6. \/ UNCHANGED balance[b]
      \/ copy.row = b /\ balance'[b] = [balance[b] EXCEPT !.total = hook.total]
  BY <1>1, <1>2, CurrentSave
<1> QED
  BY <1>4, <1>5, <1>6

\* Reconciliation overdraws a balance in silence, or leaves it covered.
LEMMA ReconciliationTells ==
  ASSUME ToldState, NEW j \in Jobs, SaveReconciled(j), NEW r \in Requests, Told(r)
  PROVE  KeepsTelling(r)
<1> DEFINE b == BalanceOf[r]
           copy == job[j].copy
           total == job[j].total
<1>1. TypeOK /\ b \in Balances /\ UNCHANGED <<status, flagged, hook>>
  BY StoreAssumption DEF ToldState, SyncInv, Inv, SaveReconciled, requestRows
<1>2. balance' = [balance EXCEPT ![copy.row] =
                    [total |-> total, used |-> copy.used, reserved |-> copy.reserved]]
  BY DEF SaveReconciled, SaveEntity, Adopted
<1>3. CASE copy.row # b
  <2>1. UNCHANGED balance[b]
    BY <1>1, <1>2, <1>3 DEF TypeOK
  <2> QED
    BY <1>1, <2>1, StillTold DEF BeingFlagged
<1>4. CASE copy.row = b
  <2>1. balance'[b] = [total |-> total, used |-> copy.used, reserved |-> copy.reserved]
    BY <1>1, <1>2, <1>4 DEF TypeOK
  <2>2. CASE Discrepancy(total, copy.used, copy.reserved)
    BY <1>4, <2>2 DEF KeepsTelling, OverdrawsSilently, SaveReconciled
  <2>3. CASE ~Discrepancy(total, copy.used, copy.reserved)
    <3>1. ~(balance'[b].total < balance'[b].used + balance'[b].reserved)
      BY <2>1, <2>3 DEF Discrepancy
    <3> QED
      BY <3>1 DEF KeepsTelling, Told
  <2> QED
    BY <2>2, <2>3
<1> QED
  BY <1>3, <1>4

LEMMA SyncTells ==
  ASSUME ToldState, SyncMoves, NEW r \in Requests, Told(r)
  PROVE  KeepsTelling(r)
<1>1. UNCHANGED status
  BY SyncStays DEF ServiceStays
<1>2. CASE UNCHANGED <<balance, hook>> /\ flagged \subseteq flagged'
  BY <1>1, <1>2, StillTold DEF BeingFlagged
<1>3. ASSUME NEW push \in pushes, ReceiveWebhook(push)
      PROVE  KeepsTelling(r)
  <2>1. ~BeingFlagged(r) /\ UNCHANGED <<balance, flagged>>
    BY <1>3 DEF ReceiveWebhook, BeingFlagged, Resting, storeVars
  <2> QED
    BY <1>1, <2>1, StillTold
<1>4. CASE FlagWebhook
  <2>1. UNCHANGED balance /\ flagged \subseteq flagged'
    BY <1>4 DEF FlagWebhook, storeVars
  <2>2. BeingFlagged(r) /\ status[r] \in Active => r \in flagged'
    BY <1>4 DEF FlagWebhook, BeingFlagged, ActiveRequests
  <2> QED
    BY <1>1, <2>1, <2>2, StillTold
<1>5. CASE WebhookFails
  <2>1. UNCHANGED <<balance, flagged>>
    BY <1>5 DEF WebhookFails, storeVars
  <2>2. faults' # faults
    BY <1>5 DEF WebhookFails, ToldState, SyncInv, Inv, TypeOK
  <2> QED
    BY <1>1, <2>1, <2>2, StillTold
<1>6. \/ UNCHANGED <<balance, hook>> /\ flagged \subseteq flagged'
      \/ SaveWebhook \/ FlagWebhook \/ WebhookFails
      \/ \E push \in pushes : ReceiveWebhook(push) \/ ReceiveBatch(push)
      \/ \E j \in Jobs : SaveReconciled(j)
  BY DEF SyncMoves, SyncSteps, SyncNext, BecomeStale, Refuse, FailBatch,
         StartReconciliation, SkipBalance, storeVars
<1> QED
  BY <1>2, <1>3, <1>4, <1>5, <1>6, BatchTells, WebhookTells, ReconciliationTells

\* No push, in any order, refused, late or rolled back, and no submission, decision,
\* deduction or reversal leaves an active request on an overdrawn balance without
\* its being flagged.  What does is a webhook's handler that is cut short after it
\* has saved the row, and a reconciliation.
THEOREM NobodyIsLeftUntold == SyncedSpec => OverdraftsAreTold
<1>1. ToldState /\ [SyncedNext /\ SyncRunsToAwait]_syncedVars =>
        [\A r \in Requests : BooksOn(BalanceOf[r]) /\ Told(r) =>
           \/ Told(r)'
           \/ BeingFlagged(r) /\ faults' # faults
           \/ \E j \in Jobs : OverdrawsSilently(j, BalanceOf[r])]_syncedVars
  <2> SUFFICES ASSUME ToldState, [SyncedNext]_syncedVars,
                      NEW r \in Requests, BooksOn(BalanceOf[r]), Told(r)
               PROVE  KeepsTelling(r)
    BY DEF KeepsTelling
  <2>1. CASE HcmActs
    <3>1. UNCHANGED <<balance, status, flagged, hook>>
      <4>1. HcmActs => UNCHANGED hook
        BY DEF HcmActs, HcmGrants, HcmPushes, HcmReports, SendPush, ReportBalance, syncVars
      <4> QED
        BY <2>1, <4>1, HcmActsKinds DEF ToldState, ServiceStays
    <3> QED
      BY <3>1, StillTold DEF BeingFlagged
  <2> QED
    BY <2>1, SyncedKinds, ServiceTells, SyncTells DEF ToldState
<1> QED
  BY <1>1, InitToldState, NextToldState, PTL DEF SyncedSpec, OverdraftsAreTold

-----------------------------------------------------------------------------
(***************************************************************************)
(* Days on offer                                                           *)
(*                                                                         *)
(* Granted(b) is what the HCM has granted on b in all: what is left there, *)
(* and what it has deducted.  Deductions and reversals do not change it,   *)
(* anniversaries add to it.  So no total that was ever true exceeds it,    *)
(* however old, and neither does what was reserved or used under such a    *)
(* total.                                                                  *)
(***************************************************************************)

ChargesAreFinite == \A b \in Balances : IsFiniteSet(Ledger!DaysIn(ChargedOn(b)))

LEMMA GrantedTyped ==
  ASSUME Inv, ChargesAreFinite, NEW b \in Balances
  PROVE  Granted(b) \in Nat /\ hcmTotal[b] \in Nat /\ Granted(b) >= hcmTotal[b]
<1>1. hcmTotal[b] \in Nat
  BY DEF Inv, HP!HcmInv, HP!HcmTypeOK
<1>2. Cardinality(Ledger!DaysIn(ChargedOn(b))) \in Nat
  BY DaysCounted DEF ChargedOn, ChargesAreFinite
<1> QED
  BY <1>1, <1>2 DEF Granted

\* Days only move between what is left and what is deducted.
GrantsStand ==
  /\ ChargesAreFinite'
  /\ \A b \in Balances : Granted(b)' = Granted(b)

LEMMA SameGrants ==
  ASSUME Inv, ChargesAreFinite, EventsStay, UNCHANGED hcmVars
  PROVE  GrantsStand
<1>1. \A r \in Requests : DeductionsFor(r)' = DeductionsFor(r)
  BY DEF Inv, References, IsDeduct, EventsStay, DeductionsFor, hcmVars
<1>2. \A b \in Balances : ChargedOn(b)' = ChargedOn(b)
  BY <1>1 DEF ChargedOn
<1> QED
  BY <1>2 DEF GrantsStand, ChargesAreFinite, Granted, Ledger!DaysIn, hcmVars

\* A deduction is for a request that has none.
LEMMA DeductionMovesDays ==
  ASSUME Inv, ChargesAreFinite, NEW e \in Nat, IsDeduct(e),
         Hcm!NewDeduction(e, BalanceOf[RequestOf(e)], Days[RequestOf(e)]), UNCHANGED outbox
  PROVE  GrantsStand
<1> DEFINE r == RequestOf(e)
           a == BalanceOf[r]
<1>1. r \in Requests /\ a \in Balances /\ Days[r] \in Nat \ {0} /\ e # 0
  BY EventsTyped, StoreAssumption DEF IsDeduct, Inv
<1>2. PICK d :
        /\ d.key = e
        /\ \A c \in deductions : c.key # e
        /\ hcmTotal' = [hcmTotal EXCEPT ![a] = @ - Days[r]]
        /\ deductions' = deductions \cup {d}
  BY <1>1 DEF Hcm!NewDeduction, Hcm!NewKey, Hcm!FiledUnder
<1>3. hcmTotal \in [Balances -> Nat]
  BY DEF Inv, HP!HcmInv, HP!HcmTypeOK
<1>4. DeductionsFor(r) = {}
  <2>1. ASSUME NEW c \in deductions, RequestOf(c.key) = r
        PROVE  FALSE
    <3>1. IsDeduct(c.key)
      BY DEF Inv, References
    <3>2. c.key = e
      BY <2>1, <3>1 DEF Inv, EventsFollowRequests, IsDeduct
    <3> QED
      BY <1>2, <3>2
  <2> QED
    BY <2>1 DEF DeductionsFor, RequestOf
<1>5. \A q \in Requests : DeductionsFor(q)' # {} <=> DeductionsFor(q) # {} \/ q = r
  BY <1>2 DEF DeductionsFor, RequestOf
<1> HIDE DEF r, a
<1>6. ASSUME NEW b \in Balances
      PROVE  IsFiniteSet(Ledger!DaysIn(ChargedOn(b)')) /\ Granted(b)' = Granted(b)
  <2>1. ChargedOn(b) \in SUBSET Requests /\ IsFiniteSet(Ledger!DaysIn(ChargedOn(b)))
    BY DEF ChargedOn, ChargesAreFinite
  <2>2. CASE b = a
    <3>1. r \in Requests \ ChargedOn(b) /\ ChargedOn(b)' = ChargedOn(b) \cup {r}
      BY <1>1, <1>4, <1>5, <2>2 DEF ChargedOn, a
    <3>2. /\ IsFiniteSet(Ledger!DaysIn(ChargedOn(b)'))
          /\ Cardinality(Ledger!DaysIn(ChargedOn(b)')) = Cardinality(Ledger!DaysIn(ChargedOn(b))) + Days[r]
          /\ Cardinality(Ledger!DaysIn(ChargedOn(b))) \in Nat
      BY <2>1, <3>1, DaysCounted
    <3>3. hcmTotal'[b] = hcmTotal[b] - Days[r]
      BY <1>1, <1>2, <1>3, <2>2
    <3>4. hcmTotal[b] \in Nat /\ Days[r] \in Nat
      BY <1>1, <1>3
    <3>5. Ledger!DaysIn(ChargedOn(b))' = Ledger!DaysIn(ChargedOn(b)')
      BY DEF Ledger!DaysIn
    <3> QED
      BY <3>2, <3>3, <3>4, <3>5 DEF Granted
  <2>3. CASE b # a
    <3>1. ChargedOn(b)' = ChargedOn(b)
      BY <1>5, <2>3 DEF ChargedOn, a
    <3>2. hcmTotal'[b] = hcmTotal[b]
      BY <1>2, <1>3, <2>3
    <3> QED
      BY <2>1, <3>1, <3>2 DEF Granted, Ledger!DaysIn
  <2> QED
    BY <2>2, <2>3
<1> QED
  BY <1>6 DEF GrantsStand, ChargesAreFinite, Ledger!DaysIn

\* A reversal takes away the only deduction of its request.
LEMMA ReversalMovesDays ==
  ASSUME Inv, ChargesAreFinite, NEW id, Hcm!ReverseKnown(id), UNCHANGED outbox
  PROVE  GrantsStand
<1>1. CASE UNCHANGED <<hcmTotal, deductions>>
  <2>1. \A b \in Balances : ChargedOn(b)' = ChargedOn(b)
    BY <1>1 DEF ChargedOn, DeductionsFor
  <2> QED
    BY <1>1, <2>1 DEF GrantsStand, ChargesAreFinite, Granted, Ledger!DaysIn
<1>2. ASSUME NEW d \in deductions,
             hcmTotal' = [hcmTotal EXCEPT ![d.account] = @ + d.days],
             deductions' = deductions \ {d}
      PROVE  GrantsStand
  <2> DEFINE r == RequestOf(d.key)
             a == BalanceOf[r]
  <2>1. r \in Requests /\ d.account = a /\ d.days = Days[r]
    BY EventsTyped DEF Inv, References, IsDeduct, ChargesAreRight
  <2>2. a \in Balances /\ Days[r] \in Nat \ {0}
    BY <2>1, StoreAssumption
  <2>3. hcmTotal \in [Balances -> Nat]
    BY DEF Inv, HP!HcmInv, HP!HcmTypeOK
  <2>4. \A c \in deductions : RequestOf(c.key) = r => c = d
    BY DeductionsDiffer DEF RequestOf
  <2>5. DeductionsFor(r) # {}
    BY DEF DeductionsFor, RequestOf
  <2>6. \A q \in Requests : DeductionsFor(q)' # {} <=> DeductionsFor(q) # {} /\ q # r
    BY <1>2, <2>4 DEF DeductionsFor, RequestOf
  <2> HIDE DEF r, a
  <2>7. ASSUME NEW b \in Balances
        PROVE  IsFiniteSet(Ledger!DaysIn(ChargedOn(b)')) /\ Granted(b)' = Granted(b)
    <3>1. ChargedOn(b) \in SUBSET Requests /\ IsFiniteSet(Ledger!DaysIn(ChargedOn(b)))
      BY DEF ChargedOn, ChargesAreFinite
    <3>2. CASE b = a
      <4>1. r \in ChargedOn(b) /\ ChargedOn(b)' = ChargedOn(b) \ {r}
        BY <2>1, <2>5, <2>6, <3>2 DEF ChargedOn, a
      <4>2. /\ IsFiniteSet(Ledger!DaysIn(ChargedOn(b)'))
            /\ Cardinality(Ledger!DaysIn(ChargedOn(b)')) = Cardinality(Ledger!DaysIn(ChargedOn(b))) - Days[r]
            /\ Cardinality(Ledger!DaysIn(ChargedOn(b))) \in Nat
        BY <3>1, <4>1, DaysCounted
      <4>3. hcmTotal'[b] = hcmTotal[b] + Days[r]
        BY <1>2, <2>1, <2>2, <2>3, <3>2
      <4>4. hcmTotal[b] \in Nat /\ Days[r] \in Nat
        BY <2>2, <2>3
      <4>5. Ledger!DaysIn(ChargedOn(b))' = Ledger!DaysIn(ChargedOn(b)')
        BY DEF Ledger!DaysIn
      <4> QED
        BY <4>2, <4>3, <4>4, <4>5 DEF Granted
    <3>3. CASE b # a
      <4>1. ChargedOn(b)' = ChargedOn(b)
        BY <2>6, <3>3 DEF ChargedOn, a
      <4>2. hcmTotal'[b] = hcmTotal[b]
        BY <1>2, <2>1, <2>3, <3>3
      <4> QED
        BY <3>1, <4>1, <4>2 DEF Granted, Ledger!DaysIn
    <3> QED
      BY <3>2, <3>3
  <2> QED
    BY <2>7 DEF GrantsStand, ChargesAreFinite, Ledger!DaysIn
<1> QED
  BY <1>1, <1>2 DEF Hcm!ReverseKnown, Hcm!FiledUnder, Hcm!FileRemoved

\* Whatever the service does, by itself or through the HCM.
LEMMA ServiceGrants ==
  ASSUME Inv, ChargesAreFinite, [Next]_vars
  PROVE  GrantsStand
<1>1. ASSUME UNCHANGED <<outbox, hcmVars>>
      PROVE  GrantsStand
  BY <1>1, SameGrants DEF EventsStay, Inv, TypeOK
<1>2. ASSUME NEW call \in Call, IsProper(call), HcmServes(call), UNCHANGED storeVars
      PROVE  GrantsStand
  <2>1. UNCHANGED outbox
    BY <1>2 DEF storeVars
  <2>2. ASSUME call.type = "HCM_DEDUCT",
               Hcm!NewDeduction(call.id, BalanceOf[RequestOf(call.id)], Days[RequestOf(call.id)])
        PROVE  GrantsStand
    <3>1. IsDeduct(call.id) /\ call.id \in Nat
      BY <1>2, <2>2, EventsTyped DEF IsProper, IsDeduct, Inv
    <3> QED
      BY <2>1, <2>2, <3>1, DeductionMovesDays
  <2>3. Hcm!ReverseKnown(call.id) => GrantsStand
    BY <2>1, ReversalMovesDays
  <2>4. Hcm!RepeatedDeduction(call.id) \/ Hcm!ReverseUnknown(call.id) => GrantsStand
    BY <1>1, <2>1 DEF Hcm!RepeatedDeduction, Hcm!ReverseUnknown, Hcm!hcmVars, hcmVars
  <2> QED
    BY <1>2, <2>2, <2>3, <2>4 DEF HcmServes, RequestOf
<1>3. ASSUME Next, UNCHANGED hcmVars
      PROVE  GrantsStand
  BY <1>3, NextSteps, SameGrants DEF Steps
<1>4. ASSUME NEW t \in Ticks, HcmAnswers(t) \/ HcmAnswerLost(t)
      PROVE  GrantsStand
  BY <1>2, <1>4, CallsOfTicks DEF HcmAnswers, HcmAnswerLost
<1>5. ASSUME NEW call \in BagToSet(late), DeliverLate(call)
      PROVE  GrantsStand
  <2>1. call \in Call /\ IsProper(call)
    BY DEF Inv, TypeOK, LateCallsAreProper
  <2> QED
    BY <1>2, <1>5, <2>1 DEF DeliverLate
<1>6. ASSUME NEW t \in Ticks, TickStep(t)
      PROVE  HcmAnswers(t) \/ HcmAnswerLost(t) \/ UNCHANGED hcmVars
  BY <1>6
  DEF TickStep, Poll, Claim, Skip, Send, HcmRefuses, HcmTimesOut, LocalWriteFails,
      CompleteDeduct, CompleteReverse, RetryLater, GiveUp
<1>7. ASSUME Next
      PROVE  \/ UNCHANGED hcmVars
             \/ \E t \in Ticks : HcmAnswers(t) \/ HcmAnswerLost(t)
             \/ \E call \in BagToSet(late) : DeliverLate(call)
  <2>1. ProcessorNext =>
          \/ UNCHANGED hcmVars
          \/ \E t \in Ticks : HcmAnswers(t) \/ HcmAnswerLost(t)
          \/ \E call \in BagToSet(late) : DeliverLate(call)
    <3>1. ASSUME NEW e \in DOMAIN outbox, BecomeDue(e)
          PROVE  UNCHANGED hcmVars
      BY <3>1 DEF BecomeDue, processorVars, hcmVars
    <3> QED
      BY <1>6, <3>1 DEF ProcessorNext
  <2>2. UNCHANGED processorVars => UNCHANGED hcmVars
    BY DEF processorVars, hcmVars
  <2>3. Crash \/ (\E t \in Ticks : AbortTick(t)) => UNCHANGED hcmVars
    BY DEF Crash, AbortTick
  <2> QED
    BY <1>7, <2>1, <2>2, <2>3 DEF Next, Serve
<1>8. CASE UNCHANGED vars
  <2>1. UNCHANGED <<outbox, hcmVars>>
    BY <1>8 DEF vars, storeVars, processorVars, hcmVars
  <2> QED
    BY <1>1, <2>1
<1> QED
  BY <1>3, <1>4, <1>5, <1>7, <1>8

-----------------------------------------------------------------------------
\* No total in circulation, and nothing booked, exceeds what has been granted.
OfferedOn(b) ==
  /\ balance[b].total <= Granted(b)
  /\ balance[b].used + balance[b].reserved <= Granted(b)
  /\ \A push \in pushes : b \in DOMAIN push.totals => push.totals[b] <= Granted(b)
  /\ hook.stage = "read" /\ hook.copy.row = b => hook.total <= Granted(b)
  /\ \A j \in Jobs : job[j].stage = "answered" /\ job[j].copy.row = b
                       => job[j].total <= Granted(b)

NothingExceedsGrants == ChargesAreFinite /\ \A b \in Balances : OfferedOn(b)

OfferState == BookStates /\ NothingExceedsGrants

LEMMA ServiceOffers ==
  ASSUME OfferState, ServiceMoves
  PROVE  NothingExceedsGrants'
<1>1. Inv /\ TypeOK /\ TypeOK' /\ ChargesAreFinite /\ SyncTypeOK
  BY NextInv DEF OfferState, BookStates, SyncInv, ServiceMoves, Inv, NothingExceedsGrants
<1>2. GrantsStand
  BY <1>1, ServiceGrants DEF ServiceMoves
<1>3. Draws /\ \A b \in Balances : BooksOn(b)
  BY <1>1, NextDraws DEF OfferState, BookStates, ServiceMoves
<1>4. ASSUME NEW b \in Balances
      PROVE  /\ balance'[b].total <= Granted(b)'
             /\ balance'[b].used + balance'[b].reserved <= Granted(b)'
  <2>1. /\ balance[b] \in [total : Nat, used : Nat, reserved : Nat]
        /\ balance'[b] \in [total : Nat, used : Nat, reserved : Nat]
    BY <1>1 DEF TypeOK
  <2>2. /\ balance'[b].total = balance[b].total
        /\ \/ balance'[b].used + balance'[b].reserved <= balance[b].used + balance[b].reserved
           \/ balance'[b].used + balance'[b].reserved <= balance'[b].total
    BY <1>1, <1>3, DrawsKeepBooks
  <2>3. Granted(b) \in Nat /\ Granted(b)' = Granted(b)
    BY <1>1, <1>2, GrantedTyped DEF GrantsStand
  <2>4. /\ balance[b].total <= Granted(b)
        /\ balance[b].used + balance[b].reserved <= Granted(b)
    BY DEF OfferState, NothingExceedsGrants, OfferedOn
  <2> QED
    BY <2>1, <2>2, <2>3, <2>4
<1>5. ASSUME NEW b \in Balances
      PROVE  OfferedOn(b)'
  <2>1. Granted(b)' = Granted(b) /\ OfferedOn(b)
    BY <1>2, <1>5 DEF GrantsStand, OfferState, NothingExceedsGrants
  <2>2. UNCHANGED pushes
    BY DEF ServiceMoves
  <2>3. hook'.stage = "read" => hook' = hook
    BY DEF ServiceMoves, Resting
  <2>4. \A j \in Jobs : job'[j].stage = "answered" => job'[j] = job[j]
    BY DEF ServiceMoves, Resting
  <2> QED
    BY <1>4, <2>1, <2>2, <2>3, <2>4 DEF OfferedOn
<1> QED
  BY <1>2, <1>5 DEF NothingExceedsGrants, GrantsStand

\* What the HCM does of its own accord is to grant days.
LEMMA GrantsGrow ==
  ASSUME OfferState, HcmActs
  PROVE  /\ ChargesAreFinite'
         /\ \A b \in Balances :
              /\ Granted(b) \in Nat /\ Granted(b)' \in Nat
              /\ Granted(b) <= Granted(b)'
              /\ hcmTotal[b] \in Nat /\ hcmTotal[b] <= Granted(b)
<1>1. SyncInv /\ Inv /\ ChargesAreFinite
  BY DEF OfferState, BookStates, SyncInv, NothingExceedsGrants
<1>2. /\ ServiceStays
      /\ \A b \in Balances : hcmTotal'[b] \in Nat /\ hcmTotal'[b] >= hcmTotal[b]
  BY <1>1, HcmActsKinds
<1>3. \A b \in Balances : ChargedOn(b)' = ChargedOn(b)
  BY <1>2 DEF ServiceStays, ChargedOn, DeductionsFor
<1>4. ChargesAreFinite'
  BY <1>1, <1>3 DEF ChargesAreFinite, Ledger!DaysIn
<1>5. ASSUME NEW b \in Balances
      PROVE  /\ Granted(b) \in Nat /\ Granted(b)' \in Nat
             /\ Granted(b) <= Granted(b)'
             /\ hcmTotal[b] \in Nat /\ hcmTotal[b] <= Granted(b)
  <2>1. Cardinality(Ledger!DaysIn(ChargedOn(b))) \in Nat
    BY <1>1, DaysCounted DEF ChargedOn, ChargesAreFinite
  <2>2. Ledger!DaysIn(ChargedOn(b))' = Ledger!DaysIn(ChargedOn(b))
    BY <1>3, <1>5 DEF Ledger!DaysIn
  <2>3. hcmTotal[b] \in Nat
    BY <1>1, GrantedTyped
  <2> QED
    BY <1>2, <1>5, <2>1, <2>2, <2>3 DEF Granted
<1> QED
  BY <1>4, <1>5

LEMMA HcmOffers ==
  ASSUME OfferState, HcmActs
  PROVE  NothingExceedsGrants'
<1>1. SyncInv /\ SyncInv' /\ Inv /\ SyncTypeOK /\ ChargesAreFinite
  BY HcmKeepsTypes DEF OfferState, BookStates, SyncInv, NothingExceedsGrants
<1>2. /\ ServiceStays /\ UNCHANGED balance
      /\ \A b \in Balances : hcmTotal'[b] \in Nat /\ hcmTotal'[b] >= hcmTotal[b]
  BY <1>1, HcmActsKinds
<1>4. ChargesAreFinite'
  BY GrantsGrow
<1>5. \A b \in Balances : /\ Granted(b) \in Nat /\ Granted(b)' \in Nat
                          /\ Granted(b) <= Granted(b)'
                          /\ hcmTotal[b] \in Nat /\ hcmTotal[b] <= Granted(b)
  BY GrantsGrow
<1>6. ASSUME NEW b \in Balances
      PROVE  /\ balance'[b].total <= Granted(b)'
             /\ balance'[b].used + balance'[b].reserved <= Granted(b)'
  <2>1. balance[b] \in [total : Nat, used : Nat, reserved : Nat]
    BY <1>1 DEF Inv, TypeOK
  <2>2. /\ balance[b].total <= Granted(b)
        /\ balance[b].used + balance[b].reserved <= Granted(b)
    BY DEF OfferState, NothingExceedsGrants, OfferedOn
  <2> QED
    BY <1>2, <1>5, <2>1, <2>2
<1>7. ASSUME NEW b \in Balances, NEW push \in pushes', b \in DOMAIN push.totals
      PROVE  push.totals[b] <= Granted(b)'
  <2>1. push.totals[b] \in Nat
    BY <1>1, <1>7 DEF SyncInv, SyncTypeOK, IsPush
  <2>2. push \in pushes \/ push.totals[b] = hcmTotal[b]
    BY <1>1, <1>7, HcmActsKinds DEF HcmGrants, HcmReports, syncVars
  <2>3. push \in pushes => push.totals[b] <= Granted(b)
    BY <1>7 DEF OfferState, NothingExceedsGrants, OfferedOn
  <2>4. push.totals[b] <= Granted(b)
    BY <1>5, <2>2, <2>3
  <2> QED
    BY <1>5, <2>1, <2>4
<1>8. ASSUME NEW b \in Balances, hook'.stage = "read", hook'.copy.row = b
      PROVE  hook'.total <= Granted(b)'
  <2>1. hook' = hook
    BY DEF HcmActs, HcmGrants, HcmPushes, HcmReports, SendPush, ReportBalance, syncVars
  <2>2. hook.total \in Nat
    BY <1>1, <1>8, <2>1 DEF SyncTypeOK, HookState, Resting
  <2>3. hook.total <= Granted(b)
    BY <1>8, <2>1 DEF OfferState, NothingExceedsGrants, OfferedOn
  <2> QED
    BY <1>5, <2>1, <2>2, <2>3
<1>9. ASSUME NEW b \in Balances, NEW j \in Jobs, job'[j].stage = "answered", job'[j].copy.row = b
      PROVE  job'[j].total <= Granted(b)'
  <2>1. job'[j].total \in Nat
    BY <1>1, <1>9 DEF SyncInv, SyncTypeOK, JobState, Resting
  <2>2. job'[j] = job[j] \/ job'[j].total = hcmTotal[b]
    <3>1. ASSUME NEW k \in Jobs, HcmReports(k)
          PROVE  job'[j] = job[j] \/ job'[j].total = hcmTotal[b]
      <4>1. job' = [job EXCEPT ![k] =
                      [stage |-> "answered", copy |-> job[k].copy, left |-> job[k].left,
                       total |-> hcmTotal[job[k].copy.row]]]
        BY <3>1 DEF HcmReports, ReportBalance
      <4> QED
        BY <1>1, <1>9, <4>1 DEF SyncTypeOK
    <3>2. HcmGrants \/ HcmPushes => UNCHANGED job
      BY DEF HcmGrants, HcmPushes, SendPush, syncVars
    <3> QED
      BY <3>1, <3>2 DEF HcmActs
  <2>3. job'[j] = job[j] => job'[j].total <= Granted(b)
    BY <1>9 DEF OfferState, NothingExceedsGrants, OfferedOn
  <2>4. job'[j].total <= Granted(b)
    BY <1>5, <2>2, <2>3
  <2> QED
    BY <1>5, <2>1, <2>4
<1> QED
  BY <1>4, <1>6, <1>7, <1>8, <1>9 DEF NothingExceedsGrants, OfferedOn

\* A total that is adopted comes out of a push, the webhook or a reconciliation.
LEMMA TotalsComeFrom ==
  ASSUME SyncInv, SyncMoves, NEW b \in Balances
  PROVE  \/ balance'[b].total = balance[b].total
         \/ \E push \in pushes : b \in DOMAIN push.totals /\ balance'[b].total = push.totals[b]
         \/ hook.stage = "read" /\ hook.copy.row = b /\ balance'[b].total = hook.total
         \/ \E j \in Jobs : /\ job[j].stage = "answered" /\ job[j].copy.row = b
                            /\ balance'[b].total = job[j].total
<1>1. TypeOK /\ SyncTypeOK
  BY DEF SyncInv, Inv
<1>2. ASSUME NEW copy \in Copy, NEW total, SaveEntity(copy, total)
      PROVE  balance'[b] = balance[b] \/ (copy.row = b /\ balance'[b].total = total)
  BY <1>1, <1>2 DEF SaveEntity, Adopted, TypeOK
<1>3. CASE SaveWebhook
  <2>1. hook.copy \in Copy /\ hook.stage = "read" /\ SaveEntity(hook.copy, hook.total)
    BY <1>1, <1>3 DEF SaveWebhook, SyncTypeOK, HookState, Resting
  <2> QED
    BY <1>2, <2>1
<1>4. ASSUME NEW j \in Jobs, SaveReconciled(j)
      PROVE  \/ balance'[b] = balance[b]
             \/ /\ job[j].stage = "answered" /\ job[j].copy.row = b
                /\ balance'[b].total = job[j].total
  <2>1. /\ job[j].copy \in Copy /\ job[j].stage = "answered"
        /\ SaveEntity(job[j].copy, job[j].total)
    BY <1>1, <1>4 DEF SaveReconciled, SyncTypeOK, JobState, Resting
  <2> QED
    BY <1>2, <2>1
<1>5. ASSUME NEW push \in pushes, ReceiveBatch(push)
      PROVE  \/ balance'[b] = balance[b]
             \/ b \in DOMAIN push.totals /\ balance'[b].total = push.totals[b]
  BY <1>1, <1>5 DEF ReceiveBatch, Adopted, TypeOK
<1> QED
  BY <1>3, <1>4, <1>5
  DEF SyncMoves, SyncSteps, SyncNext, BecomeStale, Refuse, ReceiveWebhook, FailBatch,
      FlagWebhook, StartReconciliation, SkipBalance, WebhookFails, storeVars

\* What is read from now on comes out of a push; answers come from the HCM.
LEMMA ReadsComeFrom ==
  ASSUME SyncInv, SyncMoves
  PROVE  /\ pushes' \subseteq pushes
         /\ \/ hook' = hook \/ hook'.stage # "read"
            \/ \E push \in pushes : \E b \in DOMAIN push.totals :
                 hook'.copy.row = b /\ hook'.total = push.totals[b]
         /\ \A j \in Jobs : job'[j].stage = "answered" => job'[j] = job[j]
<1>1. SyncTypeOK
  BY DEF SyncInv
<1>2. pushes' \subseteq pushes
  BY DEF SyncMoves, SyncSteps, SyncNext, BecomeStale, Refuse, ReceiveWebhook, ReceiveBatch, FailBatch,
         Receive, SaveWebhook, FlagWebhook, StartReconciliation, SaveReconciled, SkipBalance, WebhookFails
<1>3. \/ hook' = hook \/ hook'.stage # "read"
      \/ \E push \in pushes : \E b \in DOMAIN push.totals :
           hook'.copy.row = b /\ hook'.total = push.totals[b]
  <2>1. ASSUME NEW push \in pushes, ReceiveWebhook(push)
        PROVE  \E b \in DOMAIN push.totals : hook'.copy.row = b /\ hook'.total = push.totals[b]
    BY <2>1 DEF ReceiveWebhook, CopyOf
  <2> QED
    BY <2>1
    DEF SyncMoves, SyncSteps, SyncNext, BecomeStale, Refuse, ReceiveBatch, FailBatch, SaveWebhook,
        FlagWebhook, StartReconciliation, SaveReconciled, SkipBalance, WebhookFails, Resting
<1>4. ASSUME NEW j \in Jobs, job'[j].stage = "answered"
      PROVE  job'[j] = job[j]
  <2>1. ASSUME NEW k \in Jobs, NEW left, Ask(k, left)
        PROVE  job'[j] = job[j]
    BY <1>1, <1>4, <2>1 DEF Ask, SyncTypeOK
  <2>2. ASSUME NEW k \in Jobs, Proceed(k)
        PROVE  job'[j] = job[j]
    BY <1>1, <1>4, <2>1, <2>2 DEF Proceed, Resting, SyncTypeOK
  <2> QED
    BY <2>1, <2>2
    DEF SyncMoves, SyncSteps, SyncNext, BecomeStale, Refuse, ReceiveWebhook, ReceiveBatch, FailBatch,
        SaveWebhook, FlagWebhook, StartReconciliation, SaveReconciled, SkipBalance, AfterError, WebhookFails
<1> QED
  BY <1>2, <1>3, <1>4

LEMMA SyncOffers ==
  ASSUME OfferState, NoStaleSaves, SyncMoves
  PROVE  NothingExceedsGrants' /\ GrantsStand
<1>1. /\ SyncInv /\ Inv /\ SyncTypeOK /\ ChargesAreFinite /\ HookIsCurrent
  BY DEF OfferState, BookStates, SyncInv, NothingExceedsGrants
<1>2. GrantsStand
  <2>1. EventsStay /\ UNCHANGED hcmVars
    BY <1>1, SyncStays
    DEF SyncMoves, SyncSteps, WebhookFails, ServiceStays, processorVars, hcmVars, EventsStay, Inv, TypeOK
  <2> QED
    BY <1>1, <2>1, SameGrants
<1>3. ASSUME NEW b \in Balances
      PROVE  OfferedOn(b)'
  <2>1. Granted(b)' = Granted(b) /\ OfferedOn(b)
    BY <1>2, <1>3 DEF GrantsStand, OfferState, NothingExceedsGrants
  <2>2. balance'[b].total <= Granted(b)
    BY <1>1, <1>3, <2>1, TotalsComeFrom DEF OfferedOn
  <2>3. balance'[b].used + balance'[b].reserved <= Granted(b)
    BY <1>1, <1>3, <2>1, SyncAdopts DEF OfferedOn, NoStaleSaves
  <2>4. \A push \in pushes' : b \in DOMAIN push.totals => push.totals[b] <= Granted(b)
    BY <1>1, <2>1, ReadsComeFrom DEF OfferedOn
  <2>5. hook'.stage = "read" /\ hook'.copy.row = b => hook'.total <= Granted(b)
    BY <1>1, <2>1, ReadsComeFrom DEF OfferedOn
  <2>6. \A j \in Jobs : job'[j].stage = "answered" /\ job'[j].copy.row = b
                         => job'[j].total <= Granted(b)
    BY <1>1, <2>1, ReadsComeFrom DEF OfferedOn
  <2> QED
    BY <2>1, <2>2, <2>3, <2>4, <2>5, <2>6 DEF OfferedOn
<1> QED
  BY <1>2, <1>3 DEF NothingExceedsGrants, GrantsStand

LEMMA NextOffers ==
  /\ OfferState /\ [SyncedNext /\ SyncRunsToAwait]_syncedVars /\ [NoStaleSaves]_syncedVars
  => OfferState'
<1> SUFFICES ASSUME OfferState, [SyncedNext /\ SyncRunsToAwait]_syncedVars,
                    [NoStaleSaves]_syncedVars
             PROVE  OfferState'
  OBVIOUS
<1>1. BookStates'
  BY NextBookStates DEF OfferState
<1>2. NothingExceedsGrants'
  BY SyncedKinds, StutterServes, ServiceOffers, HcmOffers, SyncOffers
<1> QED
  BY <1>1, <1>2 DEF OfferState

LEMMA InitGrants ==
  ASSUME SyncedInit
  PROVE  /\ ChargesAreFinite
         /\ \A b \in Balances : Granted(b) = Entitlement[b]
<1>1. \A b \in Balances : ChargedOn(b) = {}
  BY DEF SyncedInit, Init, ProcessorInit, Hcm!HcmInit, ChargedOn, DeductionsFor
<1>2. Ledger!DaysIn({}) = {}
  BY DEF Ledger!DaysIn
<1>3. IsFiniteSet({}) /\ Cardinality({}) = 0
  BY FS_EmptySet
<1>4. \A b \in Balances : hcmTotal[b] = Entitlement[b] /\ Entitlement[b] \in Nat
  BY StoreAssumption DEF SyncedInit, Init, ProcessorInit, Hcm!HcmInit
<1>5. ASSUME NEW b \in Balances
      PROVE  IsFiniteSet(Ledger!DaysIn(ChargedOn(b))) /\ Granted(b) = Entitlement[b]
  <2>1. Ledger!DaysIn(ChargedOn(b)) = {}
    BY <1>1, <1>2
  <2> QED
    BY <1>3, <1>4, <2>1 DEF Granted
<1> QED
  BY <1>5 DEF ChargesAreFinite

LEMMA InitOffers == SyncedInit => OfferState
<1> SUFFICES ASSUME SyncedInit
             PROVE  OfferState
  OBVIOUS
<1>4. \A b \in Balances : Entitlement[b] \in Nat
  BY StoreAssumption
<1>5. \A b \in Balances : balance[b] = [total |-> Entitlement[b], used |-> 0, reserved |-> 0]
  BY DEF SyncedInit, Init, StoreInit
<1>6. pushes = {} /\ hook = Resting /\ \A j \in Jobs : job[j] = Resting
  BY DEF SyncedInit, SyncInit
<1>7. ChargesAreFinite /\ \A b \in Balances : Granted(b) = Entitlement[b]
  BY InitGrants
<1>8. \A b \in Balances : OfferedOn(b)
  <2> SUFFICES ASSUME NEW b \in Balances
               PROVE  OfferedOn(b)
    OBVIOUS
  <2>1. Granted(b) = Entitlement[b] /\ Entitlement[b] \in Nat
    BY <1>4, <1>7
  <2>2. balance[b].total = Entitlement[b] /\ balance[b].used = 0 /\ balance[b].reserved = 0
    <3>1. balance[b] = [total |-> Entitlement[b], used |-> 0, reserved |-> 0]
      BY <1>5
    <3> QED
      BY <3>1
  <2>3. \A j \in Jobs : job[j].stage # "answered"
    BY <1>6 DEF Resting
  <2> QED
    BY <1>6, <2>1, <2>2, <2>3 DEF OfferedOn, Resting
<1> QED
  BY <1>7, <1>8, InitBookStates DEF OfferState, NothingExceedsGrants

-----------------------------------------------------------------------------
\* Parts of a set of requests, and their days.
LEMMA DaysOfParts ==
  ASSUME NEW A \in SUBSET Requests, NEW B \in SUBSET Requests, A \cap B = {},
         IsFiniteSet(Ledger!DaysIn(A \cup B))
  PROVE  /\ IsFiniteSet(Ledger!DaysIn(A)) /\ IsFiniteSet(Ledger!DaysIn(B))
         /\ Cardinality(Ledger!DaysIn(A)) \in Nat /\ Cardinality(Ledger!DaysIn(B)) \in Nat
         /\ Cardinality(Ledger!DaysIn(A \cup B)) = Cardinality(Ledger!DaysIn(A)) + Cardinality(Ledger!DaysIn(B))
<1>1. Ledger!DaysIn(A \cup B) = Ledger!DaysIn(A) \cup Ledger!DaysIn(B)
  BY DEF Ledger!DaysIn
<1>2. Ledger!DaysIn(A) \cap Ledger!DaysIn(B) = {}
  BY DEF Ledger!DaysIn
<1>3. IsFiniteSet(Ledger!DaysIn(A)) /\ IsFiniteSet(Ledger!DaysIn(B))
  <2>1. Ledger!DaysIn(A) \subseteq Ledger!DaysIn(A \cup B) /\ Ledger!DaysIn(B) \subseteq Ledger!DaysIn(A \cup B)
    BY <1>1
  <2> QED
    BY <2>1, FS_Subset
<1>4. Cardinality(Ledger!DaysIn(A)) \in Nat /\ Cardinality(Ledger!DaysIn(B)) \in Nat
  BY <1>3, FS_CardinalityType
<1>5. Cardinality(Ledger!DaysIn(A) \cup Ledger!DaysIn(B))
        = Cardinality(Ledger!DaysIn(A)) + Cardinality(Ledger!DaysIn(B))
            - Cardinality(Ledger!DaysIn(A) \cap Ledger!DaysIn(B))
  BY <1>3, FS_Union
<1>6. Cardinality(Ledger!DaysIn(A) \cap Ledger!DaysIn(B)) = 0
  BY <1>2, FS_EmptySet
<1>7. Cardinality(Ledger!DaysIn(A \cup B))
        = Cardinality(Ledger!DaysIn(A)) + Cardinality(Ledger!DaysIn(B)) - 0
  BY <1>1, <1>5, <1>6, Zenon
<1> QED
  BY <1>3, <1>4, <1>7

\* What is reserved is deducted or not, and what is deducted is reserved, used
\* or owed back.  So the days that are booked but not yet deducted fit into what
\* has been granted and not been deducted, or is owed back.
LEMMA OffersAreCovered ==
  ASSUME OfferState, NEW b \in Balances
  PROVE  Floor0(balance[b].total - balance[b].used - balance[b].reserved)
           + Cardinality(Ledger!DaysIn(NotYetDeducted(b)))
           <= hcmTotal[b] + Cardinality(Ledger!DaysIn(OwedBack(b)))
<1> DEFINE held == Ledger!Holding(b)
           taken == Ledger!Taken(b)
           charged == ChargedOn(b)
           open == held \cap charged
           n == Cardinality(Ledger!DaysIn(NotYetDeducted(b)))
           o == Cardinality(Ledger!DaysIn(OwedBack(b)))
           d == Cardinality(Ledger!DaysIn(open))
           t == Cardinality(Ledger!DaysIn(taken))
<1>1. /\ Inv /\ ChargesAreFinite /\ OfferedOn(b) /\ BooksOn(b)
      /\ LP!DeductionIsOwedOrReversible
  BY InvAgrees DEF OfferState, BookStates, SyncInv, NothingExceedsGrants
<1>2. \A r \in Requests : r \in Charged <=> DeductionsFor(r) # {}
  BY DEF Charged, DeductionsFor
<1>3. ASSUME NEW r \in charged
      PROVE  r \in held \cup taken \cup OwedBack(b)
  BY <1>1, <1>2
  DEF ChargedOn, LP!DeductionIsOwedOrReversible, Ledger!Holding, Ledger!Taken, Ledger!Undecided, OwedBack
<1>4. ASSUME NEW r \in taken
      PROVE  r \in charged
  BY <1>1 DEF Ledger!Taken, ChargedOn, Inv, ApprovedHoldsDeduction
<1>5. /\ open \cup NotYetDeducted(b) = held /\ open \cap NotYetDeducted(b) = {}
      /\ open \in SUBSET Requests /\ NotYetDeducted(b) \in SUBSET Requests
  BY SameCounting DEF NotYetDeducted, Ledger!Holding, ChargedOn
<1>6. OwedBack(b) \subseteq charged
  BY DEF OwedBack, ChargedOn
<1>7. /\ (open \cup taken) \cup OwedBack(b) = charged
      /\ (open \cup taken) \cap OwedBack(b) = {} /\ open \cap taken = {}
      /\ (open \cup taken) \in SUBSET Requests /\ OwedBack(b) \in SUBSET Requests
      /\ taken \in SUBSET Requests
  BY <1>3, <1>4, <1>6
  DEF Ledger!Holding, Ledger!Taken, Ledger!Undecided, ChargedOn, OwedBack
<1> HIDE DEF held, taken, charged, open
<1>8. /\ IsFiniteSet(Ledger!DaysIn(held)) /\ balance[b].reserved = Cardinality(Ledger!DaysIn(held))
      /\ balance[b].used = Cardinality(Ledger!DaysIn(taken))
  BY <1>1 DEF BooksOn, held, taken
<1>9. IsFiniteSet(Ledger!DaysIn(charged))
  BY <1>1 DEF ChargesAreFinite, charged
<1>10. balance[b].reserved = d + n /\ d \in Nat /\ n \in Nat
  BY <1>5, <1>8, DaysOfParts
<1>11. /\ IsFiniteSet(Ledger!DaysIn(open \cup taken)) /\ o \in Nat
       /\ Cardinality(Ledger!DaysIn(charged)) = Cardinality(Ledger!DaysIn(open \cup taken)) + o
  BY <1>7, <1>9, DaysOfParts
<1>12. Cardinality(Ledger!DaysIn(open \cup taken)) = d + t /\ t \in Nat
  BY <1>7, <1>11, DaysOfParts
<1>13. Granted(b) = hcmTotal[b] + Cardinality(Ledger!DaysIn(charged)) /\ hcmTotal[b] \in Nat
  BY <1>1, GrantedTyped DEF Granted, charged
<1>14. /\ balance[b].total <= Granted(b)
       /\ balance[b].used + balance[b].reserved <= Granted(b)
       /\ balance[b] \in [total : Nat, used : Nat, reserved : Nat]
  BY <1>1 DEF OfferedOn, Inv, TypeOK
<1> HIDE DEF n, o, d, t
<1>15. Floor0(balance[b].total - balance[b].used - balance[b].reserved) + n <= hcmTotal[b] + o
  <2>1. balance[b].used = t
    BY <1>8 DEF t
  <2> QED
    BY <1>10, <1>11, <1>12, <1>13, <1>14, <2>1 DEF Floor0
<1> QED
  BY <1>15 DEF n, o

\* In whatever order deductions, reversals, anniversaries and pushes reach the
\* two sides, the service never has more days on offer than the HCM can bear, as
\* long as reconciliation does not overwrite a row that has changed.
THEOREM DaysAreNeverPromisedTwice ==
  SyncedSpec /\ [][NoStaleSaves]_syncedVars => []NothingOverpromised
<1>1. OfferState => NothingOverpromised
  BY OffersAreCovered, SameCounting DEF NothingOverpromised
<1> QED
  BY <1>1, InitOffers, NextOffers, PTL DEF SyncedSpec

\* Employees never have more days set aside or used than the HCM has granted them
\* in all, even where a push of an older total has overdrawn their balance.
THEOREM BookingsStayWithinGrants ==
  SyncedSpec /\ [][NoStaleSaves]_syncedVars
    => [](\A b \in Balances : balance[b].used + balance[b].reserved <= Granted(b))
<1>1. OfferState => \A b \in Balances : balance[b].used + balance[b].reserved <= Granted(b)
  BY DEF OfferState, NothingExceedsGrants, OfferedOn
<1> QED
  BY <1>1, InitOffers, NextOffers, PTL DEF SyncedSpec

-----------------------------------------------------------------------------
(***************************************************************************)
(* The ledger under synchronisation                                        *)
(***************************************************************************)

\* What the books and the agreement with the HCM say together is what the ledger
\* needs to keep: days may be overdrawn, and nothing else is lost.
LEMMA BooksAreTheLedgers ==
  ASSUME BookStates
  PROVE  LP!BookInv
<1>1. Inv /\ \A b \in Balances : BooksOn(b)
  BY DEF BookStates, SyncInv
<1>2. LP!TypeOK
  BY <1>1, LedgerTyped
<1>3. LP!HeldDaysReserved /\ LP!TakenDaysUsed
  BY <1>1, SameCounting DEF BooksOn, LP!HeldDaysReserved, LP!TakenDaysUsed
<1> QED
  BY <1>1, <1>2, <1>3, InvAgrees DEF LP!BookInv

\* The ledger of the proofs is the one that GrantedLedger extends.
LEMMA SameGranting ==
  /\ LP!Init => Granting!Init
  /\ [LP!Next]_(LP!vars) => [Granting!Next]_(Granting!vars)
<1>1. UNCHANGED LP!vars => UNCHANGED Granting!vars
  BY DEF LP!vars, Granting!vars, Intents, Charged
<1>2. LP!Init => Granting!Init
  BY DEF LP!Init, Granting!Init, LP!Absent, Granting!Absent, Intents, Charged
<1>3. \A r \in Requests : \A to : LP!Move(r, to) => Granting!Move(r, to)
  BY DEF LP!Move, Granting!Move, LP!CanTransition, Granting!CanTransition,
         LP!AllowedTransitions, Granting!AllowedTransitions
<1>4. ASSUME NEW r \in Requests
      PROVE  /\ LP!Submit(r) => Granting!Submit(r)
             /\ LP!Approve(r) => Granting!Approve(r)
             /\ LP!Reject(r) => Granting!Reject(r)
             /\ LP!Cancel(r) => Granting!Cancel(r)
             /\ LP!Confirm(r) => Granting!Confirm(r)
             /\ LP!Fail(r) => Granting!Fail(r)
             /\ LP!HcmDeduct(r) => Granting!HcmDeduct(r)
             /\ LP!HcmReverse(r) => Granting!HcmReverse(r)
  <2>1. LP!Submit(r) => Granting!Submit(r)
    BY DEF LP!Submit, Granting!Submit, LP!Available, Granting!Available,
           LP!Absent, Granting!Absent, Intents, Charged
  <2>2. LP!Approve(r) => Granting!Approve(r)
    BY <1>3 DEF LP!Approve, Granting!Approve, Intents, Charged
  <2>3. LP!Reject(r) => Granting!Reject(r)
    BY <1>3 DEF LP!Reject, Granting!Reject, LP!Release, Granting!Release, Intents, Charged
  <2>4. LP!Cancel(r) => Granting!Cancel(r)
    BY <1>3 DEF LP!Cancel, Granting!Cancel, LP!Release, Granting!Release,
                LP!ReversalDue, Granting!ReversalDue, Intents, Charged
  <2>5. LP!Confirm(r) => Granting!Confirm(r)
    BY <1>3 DEF LP!Confirm, Granting!Confirm, LP!UseDays, Granting!UseDays,
                LP!ConfirmedByHcm, Granting!ConfirmedByHcm, Intents, Charged
  <2>6. LP!Fail(r) => Granting!Fail(r)
    BY <1>3 DEF LP!Fail, Granting!Fail, Intents, Charged
  <2>7. /\ LP!HcmDeduct(r) => Granting!HcmDeduct(r)
        /\ LP!HcmReverse(r) => Granting!HcmReverse(r)
    BY DEF LP!HcmDeduct, Granting!HcmDeduct, LP!HcmReverse, Granting!HcmReverse,
           Intents, Charged
  <2> QED
    BY <2>1, <2>2, <2>3, <2>4, <2>5, <2>6, <2>7
<1>5. LP!Next => Granting!Next
  BY <1>4 DEF LP!Next, Granting!Next
<1> QED
  BY <1>1, <1>2, <1>5

\* A step of the ledger under synchronisation, or none.
GrantedMoves ==
  [Granting!GrantedNext]_<<Granting!vars, [b \in Balances |-> Granted(b)]>>

LEMMA ServiceMovesGrant ==
  ASSUME OfferState, ServiceMoves
  PROVE  GrantedMoves
<1>1. Inv /\ ChargesAreFinite /\ [Next]_vars /\ LP!BookInv
  BY BooksAreTheLedgers
  DEF OfferState, BookStates, SyncInv, NothingExceedsGrants, ServiceMoves
<1>2. [b \in Balances |-> Granted(b)]' = [b \in Balances |-> Granted(b)]
  BY <1>1, ServiceGrants DEF GrantsStand
<1>3. [Granting!Next]_(Granting!vars)
  BY <1>1, StepMaps, SameGranting
<1> QED
  BY <1>2, <1>3 DEF GrantedMoves, Granting!GrantedNext

\* Neither the rows nor the deductions change, so the ledger reads the same.
LEMMA StayingKeepsLedger ==
  ASSUME Inv, ServiceStays
  PROVE  UNCHANGED <<status, Intents, Charged>>
BY DEF ServiceStays, Intents, Charged

LEMMA HcmMovesGrant ==
  ASSUME OfferState, HcmActs
  PROVE  GrantedMoves
<1>1. SyncInv /\ Inv /\ ServiceStays /\ UNCHANGED balance
  BY HcmActsKinds DEF OfferState, BookStates, SyncInv
<1>2. UNCHANGED Granting!vars
  BY <1>1, StayingKeepsLedger DEF Granting!vars, Intents, Charged
<1>3. \A b \in Balances : Granted(b) \in Nat /\ Granted(b)' \in Nat /\ Granted(b) <= Granted(b)'
  BY GrantsGrow
<1>4. Granting!Grant
  BY <1>2, <1>3 DEF Granting!Grant
<1> QED
  BY <1>4 DEF GrantedMoves, Granting!GrantedNext

LEMMA SyncMovesGrant ==
  ASSUME OfferState, NoStaleSaves, SyncMoves
  PROVE  GrantedMoves
<1>1. SyncInv /\ SyncInv' /\ Inv /\ HookIsCurrent /\ ServiceStays /\ TypeOK /\ TypeOK'
  BY SyncKeepsTypes, SyncStays DEF OfferState, BookStates, SyncInv, Inv
<1>2. UNCHANGED <<status, Intents, Charged>>
  BY <1>1, StayingKeepsLedger
<1>3. /\ ChargesAreFinite /\ NothingExceedsGrants'
      /\ \A b \in Balances : Granted(b)' = Granted(b)
  BY SyncOffers DEF OfferState, NothingExceedsGrants, GrantsStand
<1>4. ASSUME NEW b \in Balances
      PROVE  /\ balance'[b].total \in 0..Granted(b)
             /\ balance'[b] = [balance[b] EXCEPT !.total = balance'[b].total]
  <2>1. /\ balance[b] \in [total : Nat, used : Nat, reserved : Nat]
        /\ balance'[b] \in [total : Nat, used : Nat, reserved : Nat]
    BY <1>1 DEF TypeOK
  <2>2. balance'[b].used = balance[b].used /\ balance'[b].reserved = balance[b].reserved
    BY <1>1, SyncAdopts DEF NoStaleSaves
  <2>3. balance'[b].total <= Granted(b) /\ Granted(b) \in Nat
    BY <1>1, <1>3, GrantedTyped DEF NothingExceedsGrants, OfferedOn
  <2> QED
    BY <2>1, <2>2, <2>3
<1>5. balance' = [b \in Balances |-> [balance[b] EXCEPT !.total = balance'[b].total]]
  BY <1>1, <1>4 DEF TypeOK
<1>6. Granting!Adopt
  BY <1>2, <1>3, <1>4, <1>5 DEF Granting!Adopt, Intents, Charged
<1> QED
  BY <1>6 DEF GrantedMoves, Granting!GrantedNext

\* Under synchronisation the service still implements the ledger, one whose
\* totals are adopted from the HCM: no grant, push, lost answer or crash makes a
\* step that is neither the ledger's, nor a grant, nor the adoption of a total
\* the HCM can account for, as long as no reconciliation saves a row that has
\* changed since it was read.
THEOREM SyncedServiceImplementsLedger ==
  SyncedSpec /\ [][NoStaleSaves]_syncedVars => ImplementsGrantedLedger
<1>1. SyncedInit => Granting!GrantedInit
  <2> SUFFICES ASSUME SyncedInit
               PROVE  Granting!GrantedInit
    OBVIOUS
  <2>1. Granting!Init
    BY InitMaps, SameGranting DEF SyncedInit
  <2>2. \A b \in Balances : Granted(b) = Entitlement[b]
    BY InitGrants
  <2>3. [b \in Balances |-> Granted(b)] = Entitlement
    BY <2>2, StoreAssumption
  <2> QED
    BY <2>1, <2>3 DEF Granting!GrantedInit
<1>2. /\ OfferState /\ [SyncedNext /\ SyncRunsToAwait]_syncedVars /\ [NoStaleSaves]_syncedVars
      => GrantedMoves
  BY SyncedKinds, StutterServes, ServiceMovesGrant, HcmMovesGrant, SyncMovesGrant
<1> QED
  BY <1>1, <1>2, InitOffers, NextOffers, PTL
  DEF SyncedSpec, ImplementsGrantedLedger, Granting!GrantedSpec, GrantedMoves

=============================================================================
