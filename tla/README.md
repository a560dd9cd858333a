# TimeOff: a verification project

TLA+ models of the time-off service of this repository, the runs that check
them and the proofs about them. Paths are relative to `src/`; `TS` stands for
`apps/timeoff-service/src` and `HCM` for `apps/mock-hcm/src`.

The service keeps a local copy of leave balances, reserves days when an
employee submits a request, lets managers decide, and tells an external HCM
about approvals and cancellations through an outbox that a timer polls. The
question that runs through the whole project is whether the local books
(reserved and used days), the requests' statuses, the outbox and what the HCM
has really deducted stay in line although handlers, ticks, lost answers,
retries and restarts interleave.

## 1. Inventory

| Component | State | Operations that change it |
|---|---|---|
| Request state machine (`TS/request/request-state-machine.ts`) | none | `canTransition`, `assertTransition` |
| Request handlers (`TS/request/request.service.ts`) | rows of `time_off_requests`; an in-process lock per employee | `submitRequest`, `approveRequest`, `rejectRequest`, `cancelRequest`; for the outbox `completeDeductionFromOutbox`, `failRequestFromOutbox` |
| Balance accounting (`TS/balance/balance.service.ts`) | rows of `leave_balances` | `reserveBalanceWithRetry`, `releaseReserved`, `confirmDeduction`, `detectDiscrepancy`; `upsertFromHcm`, which only its unit test calls |
| Outbox processor (`TS/outbox/outbox.processor.ts`) | rows of `outbox_events`; the local variables of ticks under way | `tick`, `processDeductEvent`, `processReverseEvent`, `handleEventFailure` |
| Outbox administration (`TS/outbox/outbox.controller.ts`) | none of its own | `retry` |
| HCM client (`TS/hcm-client/hcm-client.service.ts`) | none | `deductBalance`, `reverseDeduction`, `getBalance`, `getAllBalances` |
| Mock HCM (`HCM`) | balances, deductions by idempotency key, index of ids, id counter | `deductBalance`, `reverseDeduction`, `seedBalance`, `simulateAnniversary`, `reset` |
| Synchronisation (`TS/sync/sync.service.ts`) | `leave_balances.total_days`, rows of `sync_log` | `processBatchPayload`, `processWebhookPayload`, `triggerReconciliation` |
| Employees (`TS/employee/employee.service.ts`) | `employees` (read only) | `findById`; `findByHcmId` and `create` have no caller |
| Access guard (`TS/common/guards/auth.guard.ts`) | none | turns headers into a caller |
| Health, filters, interceptors | none | none |

How they interact: an HTTP handler runs one or two reads and one transaction;
the transaction of an approval or a cancellation also inserts an outbox row.
`setInterval` starts a tick every few seconds; the tick reads up to ten due
rows, claims them one by one with a conditional update, calls the HCM over HTTP
and completes the event and the request in another transaction. On the other
side, the HCM pushes totals (webhook, batch) and a cron job asks it for them,
balance by balance. There is no other channel: the tables are the shared state,
and the HCM is reached only by ticks and by reconciliation.

What makes each component correct, and what is hard about it:

- *Accounting*: `reserved_days` is the days of the open requests and
  `used_days` the days of the approved ones, at all times and after any
  sequence of operations. The SQL clamps at zero (`MAX(0, ..)`), so an error
  would be hidden, not reported.
- *Handlers*: they read a row, await, and decide by what they read; only the
  version column stands between two of them. What they enqueue must match what
  they change. Submissions also share a connection: a transaction that begins while
  another is open becomes a savepoint of it, and only a chain of promises per
  employee keeps two of them apart.
- *Outbox*: ticks overlap, work on copies, and are cut short by crashes; calls
  may be served though their answer is lost, or served after the caller has
  given up; local writes may fail after the HCM has acted.
- *Deduction and reversal*: a request may be cancelled while its deduction is
  under way, so the reversal waits for an id that the deduction's answer brings.
- *Mock HCM*: repeated calls with one key charge once, repeated reversals
  refund once.
- *Synchronisation*: it overwrites `total_days` from readings that are old by
  the time they are saved, and saves whole entities, so what it has read long
  ago may come back; pushes are lost, refused, or overtaken by newer ones.
- *Dates and listings*: dates are parsed as UTC and compared with local
  midnight; pages are cut while rows come in and change their status.

`PROJECT.json` lists the hazards with their lines and the properties aimed at
each.

## 2. The modules

```
RequestStates          the statuses and the transition table
   |         \
LeaveLedger   Store    abstract promise     | tables and SQL statements
                |  \
                |   OutboxProcessor  --INSTANCE-->  MockHcm  <--  HcmApi
            RequestApi  |
             |    \     |
             |   TimeOffService   --INSTANCE (refinement)-->  LeaveLedger
             |      |
            Sync    |
               \    |
             SyncedService   --INSTANCE (refinement)-->  GrantedLedger --> LeaveLedger

RequestDates   RequestListing
     |               |              submitRequest statement by statement,
Submission           |              listRequests page by page
      \             /
        Intake
```

The proofs are in modules of their own:

```
MockHcmProofs --> HcmApiProofs
   (INSTANCE in)                      LeaveLedgerProofs
TimeOffServiceProofs --> ClaimProofs     (INSTANCE in)
            \---------------------> RefinementProofs --> SyncedServiceProofs
IntakeProofs
```

**RequestStates.** `AllowedTransitions` is `ALLOWED_TRANSITIONS`, with a status
`ABSENT` for a request whose row does not exist.

**LeaveLedger**, the abstract specification. It knows requests, balances, a set
of intents and the set of requests whose days the HCM holds; no versions, no
rows of events, no ticks and no messages. Its actions are the operations of the
service as a user understands them, and two of the HCM, which may act on an
intent whenever it likes, again and again, or never. A request's balance and
its days never change after submission, so they are constants.

**GrantedLedger**, the ledger while `total_days` follows the HCM: `granted[b]` is
what the HCM has granted so far in all, `Grant` adds to it, and `Adopt` gives rows
any totals that do not exceed it. Used and reserved days are the ledger's alone.

**Store.** The three tables as functions (`balance`, `status`, `version`,
`hcmRequestId`) and a sequence (`outbox`, in id order), and one operator for
each group of statements that only runs inside a transaction.
`next_retry_at <= now` is the Boolean `due`: a new row is due, a row put back
after a failure is not, and `BecomeDue` is time passing. With `NODE_ENV=test`
there is no backoff, which is the case where `BecomeDue` follows at once.
`leave_balances.version` is left out: a reservation reads it and compares it
within one transaction.

**RequestApi.** One action for `submitRequest`, which needs nothing it has read
before its transaction; for `approve`, `reject` and `cancel` one action for what
comes before the transaction (read, role, scope, and for cancel the status) and
one for the transaction, with `Conflict` for the exception that rolls it back.
A handler's local copy of the row is `handler[h]`. `retry` is two steps as well:
its check and its unconditional update.

**OutboxProcessor.** `tick[t]` is the local state of a tick: the copies of the
events it has read and not reached (`todo`, with the attempts they had), the
claimed event, and a stage:

| stage | the tick is ... | actions that leave it |
|---|---|---|
| `idle` | not started, or returned | `Poll` (the find) |
| `looping` | before the conditional update of the next event | `Claim`, `Skip` |
| `claimed` | in `processEvent`, before the HTTP call | `Send` |
| `waiting` | awaiting the HCM | `HcmAnswers`, `HcmAnswerLost`, `HcmRefuses`, `HcmTimesOut` |
| `answered` | before the completing transaction | `CompleteDeduct`, `CompleteReverse`, `LocalWriteFails` |
| `failed` | in `handleEventFailure` | `RetryLater`, `GiveUp` |

A call may be answered, served with its answer lost, refused, or time out while
it is still under way; then it joins the bag `late` and may be served at any
later moment. Refusing is nondeterministic: it stands for an unreachable HCM,
for errors the mock simulates and for 422.

**MockHcm.** The state of `HcmState` and one action per handler; the HCM's
handlers are synchronous.

**HcmApi** drives it with arbitrary callers: with and without keys, repeating and
reversing in any order, while accounts gain days (`SimulateAnniversary`) and are
seeded again, which overwrites their total (`SeedAgain`). `MCMockHcm` is its
instance.

**TimeOffService** composes them, adds `Crash` (handlers and ticks vanish,
tables stay, calls that were sent may still arrive) and `AbortTick` (a statement
of the loop or of `handleEventFailure` fails: the rejection is only logged), and
states the properties that relate tables, ticks and HCM. `MCTimeOffService`
holds the small instances.

**Sync.** The three paths of `SyncService`. `processBatchPayload` is one action
(`ReceiveBatch`, or `FailBatch` when a record cannot be saved).
`processWebhookPayload` is three steps, since no transaction holds it together:
its read (`ReceiveWebhook`), the save (`SaveWebhook`), and what follows the entry
in `sync_log`, the flagging (`FlagWebhook`); a row it does not know, a wrong
secret and a payload that the DTO refuses are `Refuse`. `triggerReconciliation` is `job[j]`: it reads all rows
it has selected (`StartReconciliation`), waits for the HCM with one of them
(`waiting`; `ReportBalance` answers), saves it and asks for the next
(`SaveReconciled`), or catches an error and asks for the next (`SkipBalance`).
`freshness` is `last_synced_at`: missing row, within the last half hour, older. The
column may be NULL, which no row that the service has written is.
`save(entity)` writes every column in which the entity differs from the row as
it then is, so it brings back the `used_days` and `reserved_days` of the copy
(`SaveEntity`). `flagged` is what `flagActiveRequests` has logged. `sync_log` is
left out: nothing acts upon its entries, so whether one is closed decides nothing.

**SyncedService** composes `TimeOffService` and `Sync`. Here `total_days`
changes: the HCM deducts, reverses and grants days (`HcmGrants`, any of
`Bonuses`), pushes what it has at that moment (`HcmPushes`, one balance of
`Webhooks` or a set of `Batches`; the push arrives later, perhaps after a newer
one) and serves `getBalance` (`HcmReports`). `WebhookFails` is a statement of the
webhook's handler that throws, and `SyncedCrash` ends its handler and the
reconciliations, too. `MCSyncedService` holds the instances. It implements `GrantedLedger`: `Granted(b)`, what the HCM has left plus
what it has deducted, is read off the HCM's state.

**RequestDates.** `calculateDaysRequested` and the checks of `submitRequest`, in
hours and days, for a process that is `Zone` hours ahead of UTC.

**Submission.** `submitRequest` at the granularity of statements, for one
employee and one balance; control may pass to another submission after each of
them. `lastLock` is the employee's entry of `reservationLocks`, `prev[s]` the
promise that `s` awaits (a promise is named after the submission that made it,
and `Resolved` once that one has returned). `saved` is the stack of snapshots
that the connection's open transactions would roll back to: BEGIN for the first,
SAVEPOINT for one that begins inside another, and COMMIT and ROLLBACK always
mean the innermost. Any statement may throw, also `startTransaction`, which is
outside the `try`.

**RequestListing.** `listRequests` for clients that follow `nextCursor` to the
end: role and status filter, `take(limit + 1)`, cursor. The filters by employee
and by location only narrow the set further. `steadily[w]` is a history
variable: the requests that have matched since the walk began.

**Intake** composes the last two with decisions, which change a status between
transactions and, when they reject or cancel, release the days with it
(`AfterDecision`); `MCIntake` holds the instance.

### Granularity

A transaction is one action. There is one SQLite connection, and the
better-sqlite3 driver under TypeORM executes statements synchronously: the
awaits of a transaction resolve as microtasks, so nothing else runs in between.
By the same argument a handler runs from its read to its commit undisturbed,
and a tick is interrupted only while it waits for the HCM. That is a fact about
the driver and not about the code in `TS`, whose versions, conditional updates
and employee lock are written for the general case. Therefore:

- `Submission` takes `submitRequest` apart and asks what the code in `TS`
  guarantees *without* that fact: with the lock alone submissions of one employee
  are atomic (`SubmitIsAtomic`), which justifies the single action of
  `RequestApi`. Submissions of different employees have different locks, and
  decisions have none; between those only the driver keeps transactions apart,
  as `README.md:240` says.
- `Spec` lets others run at *every* await outside a transaction. It has more
  behaviours than the build; what holds there does not depend on the driver.
- `SynchronousSpec` adds `RunsToAwait`, which leaves only the interruptions that
  the build can really have. The runs that expect a violation, and liveness,
  use it: their counterexamples are behaviours of the program. `SyncedSpec` adds
  the same for the webhook's handler, which may be cut short between its
  statements (a fault) but not interrupted, and for reconciliation, which is
  interrupted only while it waits for the HCM.

### Abstractions

Names, reasons, logging and HTTP formats are left out, and so are dates outside
`RequestDates`: elsewhere a request has a number of days, a positive integer
(`calculateDaysRequested` is checked to be positive and returns whole days).
`hcm_version` is stored but never compared, so it is not kept. The scope rules are
kept (`InScope`, `MayDecide`); the caller is chosen from a set of records.

## 3. What the runs show

| Run | Specification and bounds | Shows |
|---|---|---|
| `ledger` | 4 requests, 2 balances, all sequences (10 285 states) | the ledger's invariants |
| `mock_hcm` | 2 accounts, 2 keys and calls without a key, 4 ids, totals up to 3, accounts seeded again at any time (34 711 states) | days are conserved by every other call; a deduction is unique and can be found by its id |
| `races` | `Spec`; 2 handlers, 1 tick, 2 requests, 1 attempt | stale reads never enqueue twice; DONE is never said too early; the ledger is implemented |
| `delivery` | `Spec`; 1 handler, 2 ticks, 1 request, 2 attempts, an admin who retries, 1 crash or aborted tick, 1 late call (374 545 states) | charged once, approved requests hold their deduction, claims are exclusive; only a fault takes a waiting request out of hand; the ledger is implemented |
| `single_tick` | `SyncedSpec`; 1 handler, 1 tick, 1 request, 2 attempts, an admin who retries, 1 fault (crash, aborted tick or webhook cut short), 1 push under way at a time (any number in sequence), 1 anniversary of 1 or 3 days, a second balance that the first batch creates, no reconciliation (522 289 states) | with pushes: reserved and used days stay those of the requests, the service never offers days that the HCM cannot bear, nobody is left untold of an overdraft; a completed reversal returns the days for good; backoff and attempts are kept; every step is one of the ledger, a grant or an adoption (`ImplementsGrantedLedger`) |
| `reconcile` | `FairSyncedSpec`; 1 job, 1 tick, 1 handler, 1 request for all the days there are, 2 balances of which one may fail every time, webhooks for one and batches for both, 1 push under way (about 46 000 states) | the row of a balance that the HCM can report ends up with its total, whatever happens to the other row, also when the total is zero and every push of it is refused |
| `intake` | `IntakeSpec`; 9 hours ahead of UTC, 3 submissions with dates of 1 to 2 days for 3 days left, in the hours around local midnight, which is afternoon in UTC; 1 client who lists by pages of 1, as employee, manager or admin; rejections (441 510 states) | one submission at a time, locks are handed on and forgotten, submissions are atomic and never need a second attempt; stored days are calendar days; paging misses and repeats nothing |
| `progress` | `FairSpec`; 2 ticks, `take` of 1, 2 attempts, 1 late call, an admin who retries | every approved request is decided and every event settles |
| `stuck` | `FairSpec`, 1 fault | violation of `ApprovalIsDecided`, see below |
| `orphan` | `SynchronousSpec` | violation of `NoOrphanedDeduction` |
| `overlap` | `SynchronousSpec`, 2 ticks, 2 requests | violation of `BackoffHonoured` |
| `lost_update` | `SyncedSpec`, 1 job, no ticks and no pushes | violation of `ReservedDaysAreHeld` |

`ImplementsLedger` is the central property. The refinement mapping reads the
intents off the outbox (every row, whatever its status) and the charged
requests off the HCM's deductions; balances and statuses map to themselves.
Every action of the detailed system is a step of the ledger or a stutter, which
the runs check and `ServiceImplementsLedger` proves. So all of `LeaveLedger`'s
theorems hold of the mapped state; this includes the accounting invariants behind
`MAX(0, ..)`, since the ledger subtracts without a clamp.

### Why the bounds are enough

- *Two requests on one balance* are the smallest instance where days of one
  request may be released or used on account of another; the days are 2 and 1
  so that a mix-up shows. The entitlement covers both, so that both can be
  under way; refusal for want of days is covered by `ledger`, where four
  requests compete.
- *Two handlers* per race: each decision is a read and a write guarded by a
  version, and a third one can only be refused like the second.
- *Two ticks* are the smallest overlap. With one request there is at most one
  event of each type, so each tick has the other's event to compete for.
- `MaxRetries` is 2, so that an event fails, waits and fails for good (1 in
  `races`, where giving up at once is what races); the code's default is 4.
  `AttemptBound` 3 lets an admin retry an event that has failed for good.
- `MaxLate` 1 and `MaxFaults` 1: one late call and one crash at every possible
  moment. `MaxRequestId` 2 or 3 leaves room for every deduction the instance can
  ask for, a repeated one included.
- *One push under way* can still be overtaken: it waits while the HCM deducts,
  reverses and grants, and the next one may be of the other kind. The second
  balance makes a batch carry a record that creates a row, and one whose total
  is zero, so that the whole payload is refused.
- *Anniversaries of 1 and 3 days*: after a deduction of 2 of 3 days the small one
  brings the HCM's total to exactly what is used, the large one above what was
  there at first.
- *One reconciliation*, with two rows: the errors it may meet come in the wait
  and in the save, and the row that always fails may be asked for first.
  `BalanceCatchesUp` needs both that the loop goes on and that a row is selected
  for its staleness, when no active request selects it. The request takes all
  days, so that the HCM's total falls to zero, which no push can report.
- *Three submissions* are the smallest queue in which somebody waits behind
  somebody who waits; they ask for 1, 1 and 2 days of 3, so that not all can be
  granted, and one of them comes too late after midnight. Nine hours ahead of UTC
  local and UTC midnight are different instants, which is where a mix-up of the two
  shows. Proved for any number and any zone east of UTC in `IntakeProofs`.
- *Pages of one* make every row a page boundary.
- `TakeLimit` is 10 as in the code, which two requests never reach, except in
  `progress`, where it is 1 so that the limit really holds events back.

`CHECK_DEADLOCK` is off where the system really stops: all requests decided,
all events settled, nobody calls.

### Limits of what is shown

- `SyncedService`'s safety properties are checked in `single_tick` without
  reconciliation, since reconciliation breaks the books (run `lost_update`). They
  are proved with reconciliation; those that rest on the books under the
  hypothesis that says what would have to hold of it (`NoStaleSaves`, section 5).
- `GrantedLedger` lets an adopted total be lower than what is used and reserved,
  since a push may be older than a grant: `NoOverdraft` is not among its
  invariants. What remains true is that used and reserved days never exceed what
  has been granted (`BookingsStayWithinGrants`).
- `NothingOverpromised` is one-sided. A total that is adopted after the HCM has
  deducted counts the same days twice, once as less total and once as used, so
  an employee may be offered too few days until the total is corrected by the
  HCM's own accounting; the code has no step that nets the two.
- `OverdraftsAreTold` names what it does not promise. A webhook that has saved a
  total and is cut short before it flags (`TS/sync/sync.service.ts:170-195`: a
  crash, or the entry in `sync_log` fails) leaves its employee untold, and nothing
  makes up for it. Reconciliation counts discrepancies
  (`TS/sync/sync.service.ts:252`) but flags nobody, although `README.md:5` says
  "any path"; this is plain to see and has no run (`single_tick` has no
  reconciliation, so that this exception matters to the theorem only). And where
  reconciliation has spoilt the books of a balance, they say nothing about it.
- In `SyncedService` the HCM lowers a total by deductions only. A bonus below zero,
  or an account seeded again with less, would take days away that the service has
  on offer until the next push; `NothingOverpromised` is then false by
  construction, since no service can offer less before it is told. `HcmApi` has
  repeated seeding; the mock's promises exempt it.
- `BackoffHonoured` and `AttemptsCounted` are checked in `single_tick` with one
  tick, where they say what a tick owes to the events it has read: they would not
  notice copies that overlapping ticks make stale. That case is the run
  `overlap`, and the theorems (section 5) say exactly when it arises.
- `StoredDaysAreCalendarDays` is checked nine hours east of UTC and proved for
  `Zone >= 0`. West of UTC `submitRequest` refuses a request for the same day
  (`SameDayRefusedInTheWest`); nothing in the repository says which zone it runs
  in. `@IsDateString` also lets date-times through, which are not modelled: with
  them the rounding of the day count may differ from the calendar.
- Two branches are modelled and never taken: `daysRequested <= 0` follows two
  checks that rule it out, and a second attempt to reserve needs another writer
  between a read and an update of the same transaction, which the lock excludes
  (`FirstAttemptDecides`).
- Admin retries take part in `delivery`, `single_tick` and `progress`, not in
  `races`: with two handlers interrupted between check and update two retries
  can race, which the synchronous driver rules out.
- `CancelledDaysReturned` is checked where no call outlives its caller. With
  late calls it does not hold: the mock deletes the idempotency key when it
  reverses (`HCM/hcm.service.ts:101`), so a duplicate deduction that arrives
  after the reversal takes the days again. The theorem has that as a hypothesis.
- `DaysConserved` exempts anniversaries and seeding, which set totals anew, and
  calls without a key: the mock takes their days but
  files nothing, so their reversal restores nothing (`HCM/hcm.service.ts:75-84`).
  The service always sends a key.
- `OnlyFaultsStrandRequests` allows faults to strand a request, and they do: see
  `stuck`. Reversals are not among what it calls attended; see `orphan`.

### Where the code departs from what is said of it

- **stuck.** A claimed event is PROCESSING. If the process stops, or
  `handleEventFailure` fails, nothing makes it PENDING again: the poll looks for
  PENDING rows, `onModuleInit` repairs nothing and the admin's retry accepts
  only FAILED ones. `README.md:210` promises that the request moves on.
- **orphan.** The HCM deducts but all answers are lost. HCM_DEDUCT ends FAILED,
  the request never learns the id, and HCM_REVERSE fails for want of it. The
  service has released the days, the HCM keeps them, and no event is left. The
  comment in `request-lifecycle.e2e-spec.ts:284-285` says that the reversal will
  find the id. An admin who retries both events in the right order can repair
  this; nothing does so by itself. `OrphansKeepTheirReversal` (section 5)
  proves how far it can go: unless a deduction is served after its caller gave up,
  the reversal is never marked DONE while the HCM has the days.
- **overlap.** A tick that waits for the HCM goes on with the copies it read
  before. An event among them that another tick has meanwhile failed and put
  back for later is claimed at once, and the attempt of the other tick is
  forgotten, as attempts are counted on from the copy. `README.md:238` promises
  retry with backoff.
- **lost_update.** Reconciliation reads a balance and asks the HCM for it.
  Before the answer comes, an employee submits and days are reserved. The save of
  the entity writes the old `reserved_days` back, and the version with it: the
  days of an open request are on offer again. `README.md:3` says that days are
  reserved atomically, and `README.md:239` relies on the version, which this
  path does not look at. Overlapping a deduction or a rejection, the same save
  brings back days that were released or takes back the use of days.

## 4. Fairness

`FairSpec` assumes, under `SynchronousSpec`:

- strong fairness of each tick: `setInterval` starts ticks for as long as the
  process lives, a started tick goes on, and the client's timeout ends every
  wait. It must be strong because a handler at work disables the tick
  (`RunsToAwait`), over and over; the event loop gets to every timer and every
  answer all the same;
- weak fairness of handlers: one that has begun returns;
- strong fairness of time: a `next_retry_at` is passed at some time.

Nothing is assumed of callers, of the HCM (it may refuse for ever) or of crashes
(they are bounded in `stuck`, absent in `progress`).

`FairSyncedSpec` assumes the same of ticks, handlers and time, and moreover:
the webhook's handler returns; half hours pass; `@Cron` keeps starting
reconciliations and a started one goes on, since the client's timeout ends every
wait; and of a balance in `Reachable` that is asked for again and again the HCM
answers some question and some answer is saved (strong fairness per balance; while
the HCM is down for ever, no row can be expected to follow it). The other balances
may fail every time. Nothing is assumed of pushes.

`IntakeSpec` assumes weak fairness of every submission that has come: a statement
of the database ends, with a result or an error, and a promise that is resolved
wakes whoever awaits it. Clients need not list, and managers need not decide.

## 5. Proofs

Everything here is proved with TLAPS for all values of the constants that satisfy
the named assumptions: any sets of requests, balances, handlers, ticks,
submissions and reconciliations (they may be infinite) and any bounds. The
assumptions say that days are positive, totals natural numbers, and names
distinct (`LedgerAssumption`, `StoreAssumption`, `ProcessorAssumption`,
`HcmAssumption`, `SyncAssumption`, `SubmissionAssumption`, `IntakeAssumption`,
`ListingAssumption`, `ZoneAssumption`); TLC evaluates them in the runs. The
inductive invariants were put to TLC, on instances like those of section 3,
before they were proved.

### The ledger (`LeaveLedgerProofs`)

`TypeCorrect`, `ReservationsNeverLeak`, `UsedDaysAreApproved`, `NeverOverdrawn`,
`ApprovalIsBacked`, `DeductionsAreAccountedFor`, `IntentsFollowRequests`:
`Spec => []P` for the seven invariants of the run `ledger`.

The inductive invariant `Inv` is `BookInv /\ NoOverdraft`. `BookInv`, the other
six, is inductive without `NoOverdraft` (`NextBooks`); this is what can be
carried over to totals that change. `used` stays a natural number only because a
deduction adds to it. That `HcmReverse` takes no deduction from an APPROVED
request follows from `IntentsMatchStatus`: a reversal is owed only for a
cancelled request, and `CANCELLED` has no way out.

Sums are avoided: "the days of the requests in S" is the size of the set
`DaysIn(S)` of pairs of a request and a day, so that adding or removing one
request is a fact about the cardinality of a disjoint union or a difference
(`OneRequestsDays`, `DaysAdded`, `DaysRemoved`, from `FiniteSetTheorems`), and
no induction over a sum is needed. Each action then only has to say which
request joins or leaves `Holding` and `Taken`.

### The HCM (`MockHcmProofs`, `HcmApiProofs`)

`HcmTypeCorrect`, `EveryDeductionCanBeReversed` and `NoDayIsLostOrMade`. The
invariant `HcmInv` ties deductions and index together: ids and keys are unique,
none was given out that the counter has not reached, and each deduction is found
under its id. `MockHcmProofs` says of each operation what it keeps, so that
`TimeOffServiceProofs` can use it by INSTANCE with its own callers.

### The service (`TimeOffServiceProofs`)

`ServiceTypeCorrect`, `IntentsAreEnqueuedOnce`, `RequestsAreChargedOnce`,
`ApprovalsAreBacked`, `DoneIsDone`: under `Spec`, that is
with interruptions at every await, overlapping ticks, lost and late calls,
aborted ticks and crashes. None of them needs claims to be exclusive. The
invariant `Inv` rests on three facts instead:

- *One event per transition.* `EventsFollowRequests`: an event of a type is
  enqueued by a transition that its request makes once. `CopiesAreVersioned` is
  why a handler with a stale copy cannot repeat it: if its copy has the row's
  version it also has the row's status.
- *One deduction per key.* The key is the event's id, so a deduction that is
  repeated by a retry, another tick or a late call finds the first one
  (`References`, `ChargesAreRight`, `HcmInv`).
- *An id belongs to its request.* `IdsBelong`: an id in a row or a tick is that
  of a deduction for this very request, and a call to reverse, however late, is
  for one that was cancelled (`LateCallsAreProper`). So no reversal hits the
  deduction of an approved request.

That a cancelled request has a reversal event if and only if it has a deduction
event (`ReversalsAreOwed`) completes it: with it `Inv` alone says how far the
service and the HCM agree (`InvAgrees` in `RefinementProofs`), without a word about
balances, so that the agreement can be carried over to totals that change.

The proof does not go action by action and conjunct by conjunct: `Moves` first
says what a step may do to each table, tick and call, all actions are shown to
do no more (`NextSteps`), and each part of `Inv` follows from `Moves`.

### The refinement (`RefinementProofs`)

`ServiceImplementsLedger`: `Spec => ImplementsLedger`, that is, every step of the
detailed system is a step of the ledger or a stutter. The induction carries the
ledger's own `BookInv` along. It is needed: `releaseReserved` and
`confirmDeduction` clamp with `MAX(0, ..)` and the ledger subtracts, so the two
agree only where the days to be taken off are among those reserved.

### Claims, attempts and backoff (`ClaimProofs`)

- `ClaimsKeepTicksApart`: `SynchronousSpec => []ClaimsAreExclusive`. Under `Spec`
  with two handlers it does not hold (TLC finds it with 2 handlers, 2 ticks and 1
  attempt): two retries of one FAILED event overlap, and the second update, which
  is by id alone, puts an event back that a tick has claimed in between. The fact
  that is missing then is `RetriesFindFailed`.
- `OnlyStaleRetriesMixTicks`: under `Spec`, with any numbers of handlers and ticks,
  a step that makes two ticks deliver one event is such a retry (`StaleRetry`),
  and nothing else.
- `OnlyOvertakingStalesCopies`: under `Spec`, the copy that a tick has read of an
  event and not yet reached goes stale only when another tick gives that very
  event back (`Overtakes`); no handler, retry, crash or late call makes it so.
- `BackoffIsHonoured` (under `Spec`) and `AttemptsAreCounted` (under
  `SynchronousSpec`) therefore have the hypothesis `[][NobodyOvertakes]_vars`, for
  any number of ticks that overlap in any other way. It speaks of a step and not of
  a constant, because `setInterval` starts ticks regardless of those at work: the
  code does not ensure it, and the run `overlap` is a behaviour that violates it.
  What follows is that the copies are fresh (`CopiesAreFresh`).
- `NobodyIsStranded`: `Spec => OnlyFaultsStrandRequests`. A request that waits for
  the HCM is attended (`IsAttended`) if its deduction is PENDING or PROCESSING *in
  some tick*; a PROCESSING event that nobody works on does not count, as the poll
  passes it over and `retry` refuses it. Every step other than a crash or an aborted
  tick keeps a request attended (`NextAttended`).
- `ReversedDaysStayReturned`: `SynchronousSpec /\ []NoLateDeduction =>
  []CancelledDaysReturned`, for any number of ticks. The hypothesis excludes
  deductions that are carried out after their caller has given up: with them the
  property is false (section 3, limits). Late reversals are harmless.

### Submissions and listings (`IntakeProofs`)

- `MutualExclusion` and `MapIsEmptied`. Neither is inductive: what matters is that
  the submissions at the lock form one chain. `LockInv` says so by turns of
  arrival (`turn`, a history variable): the map holds the one that came last,
  turns differ, whoever awaits a resolved promise is first in line and everyone
  else comes right after the one awaited, and whoever is inside is first. Leaving
  is the delicate step (`UnlockKeepsLocks`): the map still holds the leaver exactly
  if nobody else is in line, which is why the comparison with `lock` before
  `delete` is right.
- `RetriesAreForNothing` and `SubmissionsAreAtomic` follow: whoever is inside is
  alone, so at most one transaction is open, what it has read is what it
  updates, and what is committed changes by a whole submission.
- `DaysOfTheCalendar`: `Zone >= 0` implies
  `IntakeSpec => []StoredDaysAreCalendarDays`. The invariant `RowInv` speaks of
  the table and of every snapshot on the stack of transactions, since a rollback
  brings one of them back. `DatesAcceptedFromToday` and `SameDayRefusedInTheWest`:
  what the date checks accept, against the calendar on the wall.
- `NothingIsMissed` and `ListingStaysInScope`: a page is the first rows after the
  cursor, in the order of the ids. That a page leaves no gap would be an
  induction over its rows; instead ranks are counted by finite cardinalities
  (`RanksAscend`, `RanksAreTaken`, `PagesHaveNoGaps`). The walks are over committed
  rows, of which none disappears.
- `IntakeTypeCorrect`.

### Synchronisation (`SyncedServiceProofs`)

Steps of `SyncedService` are of three kinds: the service's own, the HCM's own, and
those of synchronisation, which write nothing but rows of `leave_balances`
(`SyncedKinds`, `SyncStays`). So `Inv` of `TimeOffServiceProofs` survives whatever is
adopted, as it speaks of balances by their types only.

- `SyncedTypeCorrect`: `SyncedSpec => []SyncedTypeOK`.
- `AgreementSurvivesSync`: `ApprovedIsDeducted`, `DeductionIsOwedOrReversible` and
  `IntentsMatchStatus` of the ledger, and `PromisesSurviveSync`: `OneEventPerIntent`,
  `ChargedOnce`, `ApprovedHoldsDeduction`, `DoneMeansDelivered`,
  `ClaimsAreExclusive`, `OnlyFaultsStrandRequests`. Both hold under `SyncedSpec` without
  any hypothesis: not even a reconciliation that overwrites rows touches them.
  `RetriesSurviveSync` (under `[][NobodyOvertakes]_vars`) and `ReturnsSurviveSync` (no
  late deduction) are `BackoffHonoured`, `AttemptsCounted` and
  `CancelledDaysReturned` likewise.
- `OrphansKeepTheirReversal`: under `[]NoLateDeduction`, days that the HCM holds of a
  cancelled request have a reversal event that is not DONE.
- `BooksOfABalance`: for every balance `b`,
  `SyncedSpec /\ [][~StaleSave(b)]_syncedVars => []BooksOn(b)`, where
  `StaleSave(b)` is a reconciliation that saves `b` although the row's counters have
  changed since it was read, and `BooksOn(b)` says that reserved and used days of
  `b` are those of its requests. `OnlyStaleSavesSpoilTheBooks`, without hypothesis:
  whatever has gone wrong before, only such a step takes `BooksOn(b)` from true to
  false. So the run `lost_update` shows the one way in which the books break, and
  its damage stays with the balance that was saved.
- `PushesSpareTheBooks`: `BooksSurviveSync`, the same for all balances. The webhook's
  read and its save are not interrupted (`HookIsCurrent`), a batch reads and writes
  in one transaction, and the service's own steps keep the books of a balance
  whatever its total is (`NextDraws`, `DrawsKeepBooks`).
- `NobodyIsLeftUntold`: `SyncedSpec => OverdraftsAreTold`, without hypothesis: the
  exceptions, a webhook cut short and an overdrawing reconciliation, are named in
  the property, one step and one balance at a time. The service's own steps draw
  only on what is covered, and a push that uncovers a balance flags all requests
  that are active then, at once (batch) or as the webhook's last step.
- `DaysAreNeverPromisedTwice`: `NothingOverpromised`. No invariant relates the
  service's total to the HCM's, since a push may be of any age. What does not
  change while days are deducted and given back is what the HCM has *granted*:
  what is left plus what it has deducted (`Granted`). It only grows, by
  anniversaries, so every total that was ever true stays below it, and so do
  the used and reserved days that were covered by such a total
  (`NothingExceedsGrants`; as a theorem, `BookingsStayWithinGrants`). Then it is a
  matter of counting: what is reserved is deducted or not, and what is deducted is
  reserved, used or owed back (`OffersAreCovered`).
- `SyncedServiceImplementsLedger`: `ImplementsGrantedLedger`, the refinement under
  synchronisation. The service's steps map by `RefinementProofs`, whose `BookInv`
  follows from the books and from `InvAgrees`, and leave what is granted alone
  (`ServiceGrants`); the HCM's own steps are grants (`GrantsGrow`); and the steps of
  synchronisation adopt totals that were true once (`SyncMovesGrant`).

`PushesSpareTheBooks` and those after it, except `NobodyIsLeftUntold`, have the hypothesis
`[][NoStaleSaves]_syncedVars`: no step is a `StaleSave`. The code does not ensure it,
and `lost_update` shows what happens without it; the theorems say that this is all
there is to it: webhooks, batches, crashes and reconciliations whose rows keep
their counters do no harm, in any number and order. Without reconciliation
(`Jobs = {}`, as in `single_tick`) the hypothesis is void.

### What is only model-checked

All invariants and action properties of the passing runs are proved. What stays
with TLC:

- liveness (`ApprovalIsDecided`, `EventsSettle`, `BalanceCatchesUp`,
  `SubmissionsReturn`): the prover has neither ENABLED nor fairness;
- the four violations, which are counterexamples of one instance.

## 6. Not modelled

- The guard's parsing of headers, controllers' formatting, health, logging, and
  the endpoints that only read: balances, `listTeamRequests` (one raw query),
  `getSyncStatus`.
- `BalanceService.upsertFromHcm`, `HcmClientService.getAllBalances`,
  `EmployeeService.findByHcmId` and `create`: no code of the service calls them.
- `HcmService.reset` and the error rate as a setting; errors themselves are
  modelled as refusals.
- `sync_log`, of which the service only writes and lists entries.
- A total that the HCM lowers of its own accord while the service is at work
  (section 3, limits).
- The change of clocks, and dates given with a time of day.
- Submissions of several employees at the granularity of statements: their
  transactions would nest, and the code leaves it to the driver that they do not.
- Rows deleted or edited by hand, and several instances of the service on one
  database file.

## 7. Plan

Done: the ledger; store, handlers, outbox and HCM composed; synchronisation, the
connection and the lock, date rules and listings; proofs of every safety and
action property that a passing run checks, and of both refinements.

Next:

1. **A reconciliation that keeps the books**: the model of a save that compares
   the version, for which `NoStaleSaves` is no hypothesis but a theorem.
2. **Submissions of several employees** at the granularity of statements, with
   what the driver must guarantee between them as an assumption.
3. **Dates with a time of day**, which `@IsDateString` lets through.

## 8. Running it

```
tlc -workers 2 -config Delivery.cfg MCTimeOffService.tla
tlapm RefinementProofs.tla
tlapm SyncedServiceProofs.tla
```

The operators named as mutants in the comments are variants of the definition
that follows them, as a plausible mistake in the code would make it. Replacing
the definition by one of them makes TLC report the property that
`PROJECT.json` pairs it with.
