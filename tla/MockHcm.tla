------------------------------ MODULE MockHcm ------------------------------
(***************************************************************************)
(* The HCM as apps/mock-hcm implements it: a total of days per employee,   *)
(* location and leave type, deductions filed under the caller's            *)
(* idempotency key, and an index from the ids it gave out to those keys.   *)
(* Every operation is one synchronous handler, so it is one action.        *)
(***************************************************************************)
EXTENDS Integers

CONSTANTS
  Accounts,      \* the keys of HcmState.balances
  Seed,          \* [Accounts -> Nat], the totals of their first seedBalance
  Keys,          \* the idempotency keys callers may send
  NoKey,         \* stands for a call without x-idempotency-key
  MaxRequestId   \* bound on requestCounter

ASSUME HcmAssumption ==
  /\ Seed \in [Accounts -> Nat]
  /\ NoKey \notin Keys
  /\ MaxRequestId \in Nat

VARIABLES
  hcmTotal,       \* [Accounts -> Nat], BalanceRecord.totalDays
  deductions,     \* HcmState.deductions: records [key, account, days, id]
  requestIndex,   \* HcmState.requestIndex: records [id, key]
  requestCounter  \* HcmState.requestCounter, the last id given out

hcmVars == <<hcmTotal, deductions, requestIndex, requestCounter>>

HcmInit ==
  /\ hcmTotal = Seed
  /\ deductions = {}
  /\ requestIndex = {}
  /\ requestCounter = 0

-----------------------------------------------------------------------------
\* The deduction filed under a key: none or one.
FiledUnder(key) == {d \in deductions : d.key = key}

\* Whether deductBalance takes a call for a new one.
\* Mutant: keys are not looked up.
KeyNeverKnown(key) == TRUE
NewKey(key) == FiledUnder(key) = {}

\* The check against the account's total.
\* Mutant: the total is not checked.
TotalUnchecked(a, n) == TRUE
TotalCovers(a, n) == hcmTotal[a] >= n

\* deductBalance for a key it does not know: the days must be there.  Without
\* a key nothing is filed, only indexed.
NewDeduction(key, a, n) ==
  LET id == requestCounter + 1
      filed == [key |-> key, account |-> a, days |-> n, id |-> id]
  IN  /\ NewKey(key)
      /\ id <= MaxRequestId
      /\ TotalCovers(a, n)
      /\ requestCounter' = id
      /\ hcmTotal' = [hcmTotal EXCEPT ![a] = @ - n]
      /\ deductions' = IF key = NoKey THEN deductions ELSE deductions \cup {filed}
      /\ requestIndex' = requestIndex \cup {[id |-> id, key |-> key]}

\* deductBalance for a key it knows: the id given before, and nothing changes.
RepeatedDeduction(key) ==
  /\ FiledUnder(key) # {}
  /\ UNCHANGED hcmVars

\* The deduction that a reversal takes out of the files.
\* Mutant: it stays filed, to be reversed again.
FileKept(d) == {}
FileRemoved(d) == {d}

\* reverseDeduction: both maps forget the id, and the days it was given for
\* come back if they are filed.
ReverseKnown(id) ==
  \E x \in requestIndex :
    /\ x.id = id
    /\ requestIndex' = requestIndex \ {x}
    /\ \/ \E d \in FiledUnder(x.key) :
            /\ hcmTotal' = [hcmTotal EXCEPT ![d.account] = @ + d.days]
            /\ deductions' = deductions \ FileRemoved(d)
       \/ FiledUnder(x.key) = {} /\ UNCHANGED <<hcmTotal, deductions>>
    /\ UNCHANGED requestCounter

\* reverseDeduction of an id that is unknown or already reversed: 404.
ReverseUnknown(id) ==
  /\ \A x \in requestIndex : x.id # id
  /\ UNCHANGED hcmVars

\* simulateAnniversary: a bonus on every account of the employee.
Anniversary(employee, bonus) ==
  /\ hcmTotal' = [a \in Accounts |->
                    hcmTotal[a] + IF a.employee = employee THEN bonus ELSE 0]
  /\ UNCHANGED <<deductions, requestIndex, requestCounter>>

\* seedBalance, when the account is there: its total is overwritten, whatever
\* has been deducted from it.
SeedBalance(a, n) ==
  /\ hcmTotal' = [hcmTotal EXCEPT ![a] = n]
  /\ UNCHANGED <<deductions, requestIndex, requestCounter>>

-----------------------------------------------------------------------------
HcmTypeOK ==
  /\ hcmTotal \in [Accounts -> Nat]
  /\ deductions \subseteq [key : Keys, account : Accounts, days : Nat, id : 1..MaxRequestId]
  /\ requestIndex \subseteq [id : 1..MaxRequestId, key : Keys \cup {NoKey}]
  /\ requestCounter \in 0..MaxRequestId

\* One deduction per idempotency key and per id, and every one of them can be
\* found by its id: a caller that repeats a call after a lost answer is charged
\* once, and what it was charged for can be reversed.
DeductionsAreReversible ==
  /\ \A d, e \in deductions : d.key = e.key \/ d.id = e.id => d = e
  /\ \A d \in deductions : [id |-> d.id, key |-> d.key] \in requestIndex
  /\ \A x, y \in requestIndex : x.id = y.id => x = y

=============================================================================
