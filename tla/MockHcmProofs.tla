--------------------------- MODULE MockHcmProofs ---------------------------
(***************************************************************************)
(* What each operation of the HCM does to its books, for every set of      *)
(* accounts and keys.  HcmApiProofs puts the operations together for       *)
(* arbitrary callers, TimeOffServiceProofs for the outbox.                 *)
(***************************************************************************)
EXTENDS MockHcm, TLAPS

\* The ids that can be reversed were given out, so the next one is new.
IdsWereGiven == \A x \in requestIndex : x.id <= requestCounter

HcmInv ==
  /\ HcmTypeOK
  /\ DeductionsAreReversible
  /\ IdsWereGiven

LEMMA HcmInitInv == HcmInit => HcmInv
BY HcmAssumption
DEF HcmInit, HcmInv, HcmTypeOK, DeductionsAreReversible, IdsWereGiven

LEMMA UnchangedKeeps ==
  ASSUME HcmInv, UNCHANGED hcmVars
  PROVE  HcmInv'
BY DEF hcmVars, HcmInv, HcmTypeOK, DeductionsAreReversible, IdsWereGiven

-----------------------------------------------------------------------------
\* A call under a new key, or under none, files at most one more deduction, and
\* under an id that was never given out.
LEMMA NewDeductionKeeps ==
  ASSUME HcmInv, NEW key \in Keys \cup {NoKey}, NEW a \in Accounts, NEW n \in Nat,
         NewDeduction(key, a, n)
  PROVE  HcmInv'
<1> DEFINE id == requestCounter + 1
           filed == [key |-> key, account |-> a, days |-> n, id |-> id]
           x0 == [id |-> id, key |-> key]
<1>1. /\ \A d \in deductions : d.key # key
      /\ id <= MaxRequestId
      /\ hcmTotal[a] >= n
      /\ requestCounter' = id
      /\ hcmTotal' = [hcmTotal EXCEPT ![a] = @ - n]
      /\ deductions' = IF key = NoKey THEN deductions ELSE deductions \cup {filed}
      /\ requestIndex' = requestIndex \cup {x0}
  BY DEF NewDeduction, NewKey, FiledUnder, TotalCovers
<1>2. id \in 1..MaxRequestId /\ requestCounter < id
  BY <1>1, HcmAssumption DEF HcmInv, HcmTypeOK
<1>3. HcmTypeOK'
  <2>1. hcmTotal' \in [Accounts -> Nat]
    BY <1>1 DEF HcmInv, HcmTypeOK
  <2>2. deductions' \subseteq
          [key : Keys, account : Accounts, days : Nat, id : 1..MaxRequestId]
    BY <1>1, <1>2 DEF HcmInv, HcmTypeOK
  <2>3. requestIndex' \subseteq [id : 1..MaxRequestId, key : Keys \cup {NoKey}]
    BY <1>1, <1>2 DEF HcmInv, HcmTypeOK
  <2> QED
    BY <1>1, <1>2, <2>1, <2>2, <2>3 DEF HcmTypeOK
<1>4. \A x \in requestIndex : x.id < id
  BY <1>2 DEF HcmInv, HcmTypeOK, IdsWereGiven
<1>5. \A d \in deductions : [id |-> d.id, key |-> d.key] \in requestIndex /\ d.id < id
  BY <1>4 DEF HcmInv, DeductionsAreReversible
<1>6. IdsWereGiven'
  BY <1>1, <1>2, <1>4 DEF HcmInv, HcmTypeOK, IdsWereGiven
<1>7. DeductionsAreReversible'
  <2>0. /\ filed.key = key /\ filed.id = id
        /\ \A d \in deductions' : d \in deductions \/ d = filed
        /\ \A d \in deductions : d.key # key /\ d.id # id
    <3>1. \A d \in deductions : d.id \in 1..MaxRequestId
      BY DEF HcmInv, HcmTypeOK
    <3>2. \A d \in deductions : d.id # id
      <4>1. id \in Int
        BY <1>2
      <4> HIDE DEF id, x0
      <4>2. ASSUME NEW d \in deductions
            PROVE  d.id # id
        <5>1. d.id \in Int
          BY <3>1
        <5>2. d.id < id
          BY <1>5
        <5> QED
          BY <4>1, <5>1, <5>2
      <4> QED
        BY <4>2
    <3>3. filed.key = key /\ filed.id = id
      OBVIOUS
    <3> HIDE DEF filed
    <3> QED
      BY <1>1, <3>2, <3>3
  <2> HIDE DEF filed, x0
  <2>1. \A d, e \in deductions' : d.key = e.key \/ d.id = e.id => d = e
    BY <2>0 DEF HcmInv, DeductionsAreReversible
  <2>2. ASSUME NEW d \in deductions'
        PROVE  [id |-> d.id, key |-> d.key] \in requestIndex'
    <3>1. CASE d \in deductions
      BY <1>1, <1>5, <3>1
    <3>2. CASE d = filed
      BY <1>1, <2>0, <3>2 DEF x0
    <3> QED
      BY <2>0, <3>1, <3>2
  <2>3. \A x, y \in requestIndex' : x.id = y.id => x = y
    BY <1>1, <1>2, <1>4 DEF HcmInv, DeductionsAreReversible, x0
  <2> QED
    BY <2>1, <2>2, <2>3 DEF DeductionsAreReversible
<1> QED
  BY <1>3, <1>6, <1>7 DEF HcmInv

\* A reversal forgets an id and the one deduction that was given it.
LEMMA ReverseKnownKeeps ==
  ASSUME HcmInv, NEW id, ReverseKnown(id)
  PROVE  HcmInv'
<1>1. PICK x \in requestIndex :
        /\ x.id = id
        /\ requestIndex' = requestIndex \ {x}
        /\ \/ \E d \in FiledUnder(x.key) :
                /\ hcmTotal' = [hcmTotal EXCEPT ![d.account] = @ + d.days]
                /\ deductions' = deductions \ FileRemoved(d)
           \/ FiledUnder(x.key) = {} /\ UNCHANGED <<hcmTotal, deductions>>
        /\ UNCHANGED requestCounter
  BY DEF ReverseKnown
<1>2. /\ hcmTotal' \in [Accounts -> Nat]
      /\ deductions' \subseteq {d \in deductions : d.key # x.key}
  <2>1. CASE FiledUnder(x.key) = {} /\ UNCHANGED <<hcmTotal, deductions>>
    BY <2>1 DEF HcmInv, HcmTypeOK, FiledUnder
  <2>2. CASE \E d \in FiledUnder(x.key) :
               /\ hcmTotal' = [hcmTotal EXCEPT ![d.account] = @ + d.days]
               /\ deductions' = deductions \ FileRemoved(d)
    <3>1. PICK d \in deductions :
            /\ d.key = x.key
            /\ hcmTotal' = [hcmTotal EXCEPT ![d.account] = @ + d.days]
            /\ deductions' = deductions \ {d}
      BY <2>2 DEF FiledUnder, FileRemoved
    <3>2. d.account \in Accounts /\ d.days \in Nat
      BY DEF HcmInv, HcmTypeOK
    <3>3. hcmTotal' \in [Accounts -> Nat]
      BY <3>1, <3>2 DEF HcmInv, HcmTypeOK
    <3>4. \A e \in deductions : e.key = x.key => e = d
      BY <3>1 DEF HcmInv, DeductionsAreReversible
    <3> QED
      BY <3>1, <3>3, <3>4
  <2> QED
    BY <1>1, <2>1, <2>2
<1>3. HcmTypeOK'
  BY <1>1, <1>2 DEF HcmInv, HcmTypeOK
<1>4. IdsWereGiven'
  BY <1>1 DEF HcmInv, IdsWereGiven
<1>5. DeductionsAreReversible'
  <2>1. \A d, e \in deductions' : d.key = e.key \/ d.id = e.id => d = e
    BY <1>2 DEF HcmInv, DeductionsAreReversible
  <2>2. ASSUME NEW d \in deductions'
        PROVE  [id |-> d.id, key |-> d.key] \in requestIndex'
    <3> DEFINE y == [id |-> d.id, key |-> d.key]
    <3>1. d \in deductions /\ d.key # x.key /\ y.key = d.key
      BY <1>2
    <3>2. y \in requestIndex
      BY <3>1 DEF HcmInv, DeductionsAreReversible
    <3> HIDE DEF y
    <3>3. y \in requestIndex'
      BY <1>1, <3>1, <3>2
    <3> QED
      BY <3>3 DEF y
  <2>3. \A y, z \in requestIndex' : y.id = z.id => y = z
    BY <1>1 DEF HcmInv, DeductionsAreReversible
  <2> QED
    BY <2>1, <2>2, <2>3 DEF DeductionsAreReversible
<1> QED
  BY <1>3, <1>4, <1>5 DEF HcmInv

\* A bonus leaves the files alone.
LEMMA AnniversaryKeeps ==
  ASSUME HcmInv, NEW employee, NEW bonus \in Nat, Anniversary(employee, bonus)
  PROVE  HcmInv'
BY DEF Anniversary, HcmInv, HcmTypeOK, DeductionsAreReversible, IdsWereGiven

\* So does seeding an account again.
LEMMA SeedBalanceKeeps ==
  ASSUME HcmInv, NEW a, NEW n \in Nat, SeedBalance(a, n)
  PROVE  HcmInv'
BY DEF SeedBalance, HcmInv, HcmTypeOK, DeductionsAreReversible, IdsWereGiven

=============================================================================
