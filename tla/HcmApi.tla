------------------------------- MODULE HcmApi -------------------------------
(***************************************************************************)
(* The mock HCM on its own, with callers that deduct, repeat and reverse   *)
(* in any order, with and without idempotency keys, employees whose work   *)
(* anniversary adds days, and accounts that are seeded again.              *)
(***************************************************************************)
EXTENDS MockHcm, FiniteSets

CONSTANTS
  Employees,  \* whose anniversaries come round
  DayCounts,  \* days a call may ask for
  MaxTotal    \* bound on the days anniversaries may lift an account to

ASSUME CallAssumption == DayCounts \subseteq Nat

DeductBalance ==
  \E key \in Keys \cup {NoKey}, a \in Accounts, n \in DayCounts :
    NewDeduction(key, a, n) \/ RepeatedDeduction(key)

ReverseDeduction ==
  \E id \in 1..MaxRequestId : ReverseKnown(id) \/ ReverseUnknown(id)

SimulateAnniversary ==
  \E e \in Employees :
    /\ \A a \in Accounts : a.employee = e => hcmTotal[a] < MaxTotal
    /\ Anniversary(e, 1)

SeedAgain == \E a \in Accounts, n \in DayCounts : SeedBalance(a, n)

Next == DeductBalance \/ ReverseDeduction \/ SimulateAnniversary \/ SeedAgain

Spec == HcmInit /\ [][Next]_hcmVars

-----------------------------------------------------------------------------
\* The days of the deductions in S, each as a pair <<deduction, n-th day>>; how
\* many are filed on an account is the size of this set.
DaysOf(S) == UNION {{d} \X (1..d.days) : d \in S}
FiledOn(a) == {d \in deductions : d.account = a}
Filed(a) == Cardinality(DaysOf(FiledOn(a)))

\* Days only move between an account's total and its filed deductions: a
\* repeated or unknown call neither charges nor refunds twice.  An anniversary
\* adds days, seeding sets them anew, and a call without a key takes days that
\* are not filed.
DaysConserved ==
  [][ \/ \A a \in Accounts : hcmTotal'[a] + Filed(a)' = hcmTotal[a] + Filed(a)
      \/ SimulateAnniversary \/ SeedAgain
      \/ \E a \in Accounts, n \in DayCounts : NewDeduction(NoKey, a, n)
    ]_hcmVars

=============================================================================
