---------------------------- MODULE HcmApiProofs ----------------------------
(***************************************************************************)
(* Proofs about the mock HCM under arbitrary callers: its books stay in    *)
(* order, and days only move between totals and filed deductions.          *)
(***************************************************************************)
EXTENDS HcmApi, MockHcmProofs, FiniteSetTheorems

\* The days filed on every account can be counted.
FilesAreFinite == \A a \in Accounts : IsFiniteSet(DaysOf(FiledOn(a)))

Inv == HcmInv /\ FilesAreFinite

-----------------------------------------------------------------------------
(***************************************************************************)
(* Counting days                                                           *)
(***************************************************************************)

\* The days of one deduction, as a set, are as many as it says.
LEMMA OneDeductionsDays ==
  ASSUME NEW d, d.days \in Nat
  PROVE  /\ IsFiniteSet({d} \X (1..d.days))
         /\ Cardinality({d} \X (1..d.days)) = d.days
<1> DEFINE n == d.days
<1> HIDE DEF n
<1>1. n \in Nat
  BY DEF n
<1>2. IsFiniteSet(1..n) /\ Cardinality(1..n) = n
  BY <1>1, FS_Interval
<1>3. IsFiniteSet({d}) /\ Cardinality({d}) = 1
  BY FS_Singleton
<1>4. /\ IsFiniteSet({d} \X (1..n))
      /\ Cardinality({d} \X (1..n)) = Cardinality({d}) * Cardinality(1..n)
  BY <1>2, <1>3, FS_Product, Zenon
<1>5. IsFiniteSet({d} \X (1..n)) /\ Cardinality({d} \X (1..n)) = n
  BY <1>1, <1>2, <1>3, <1>4
<1> QED
  BY <1>5 DEF n

\* Filing a deduction adds exactly its days.
LEMMA DaysFiled ==
  ASSUME NEW S, NEW d, d \notin S, d.days \in Nat, IsFiniteSet(DaysOf(S))
  PROVE  /\ IsFiniteSet(DaysOf(S \cup {d}))
         /\ Cardinality(DaysOf(S \cup {d})) = Cardinality(DaysOf(S)) + d.days
<1> DEFINE D == {d} \X (1..d.days)
<1>1. DaysOf(S \cup {d}) = DaysOf(S) \cup D
  BY DEF DaysOf
<1>2. DaysOf(S) \cap D = {}
  BY DEF DaysOf
<1>3. IsFiniteSet(D) /\ Cardinality(D) = d.days
  BY OneDeductionsDays
<1>4. Cardinality(DaysOf(S)) \in Nat
  BY FS_CardinalityType
<1> HIDE DEF D
<1>5. /\ IsFiniteSet(DaysOf(S) \cup D)
      /\ Cardinality(DaysOf(S) \cup D)
           = Cardinality(DaysOf(S)) + Cardinality(D) - Cardinality(DaysOf(S) \cap D)
  BY <1>3, FS_Union
<1>6. Cardinality(DaysOf(S) \cap D) = 0
  BY <1>2, FS_EmptySet
<1>7. IsFiniteSet(DaysOf(S \cup {d}))
  BY <1>1, <1>5, Zenon
<1>8. Cardinality(DaysOf(S \cup {d})) = Cardinality(DaysOf(S)) + d.days - 0
  BY <1>1, <1>3, <1>5, <1>6, Zenon
<1> QED
  BY <1>4, <1>7, <1>8

\* Taking a deduction out of the files removes exactly its days.
LEMMA DaysTakenOut ==
  ASSUME NEW S, NEW d \in S, d.days \in Nat, IsFiniteSet(DaysOf(S))
  PROVE  /\ IsFiniteSet(DaysOf(S \ {d}))
         /\ Cardinality(DaysOf(S)) = Cardinality(DaysOf(S \ {d})) + d.days
<1>1. DaysOf(S \ {d}) \subseteq DaysOf(S)
  BY DEF DaysOf
<1>2. IsFiniteSet(DaysOf(S \ {d}))
  BY <1>1, FS_Subset
<1>3. (S \ {d}) \cup {d} = S /\ d \notin S \ {d}
  OBVIOUS
<1>4. Cardinality(DaysOf((S \ {d}) \cup {d})) = Cardinality(DaysOf(S \ {d})) + d.days
  BY <1>2, <1>3, DaysFiled
<1> QED
  BY <1>2, <1>3, <1>4, Zenon

-----------------------------------------------------------------------------
(***************************************************************************)
(* What the operations move                                                *)
(***************************************************************************)

\* Days neither appear nor vanish.
Conserved == \A a \in Accounts : hcmTotal'[a] + Filed(a)' = hcmTotal[a] + Filed(a)

\* It is enough to say what each account has filed afterwards.
LEMMA FiledNext ==
  ASSUME NEW F, \A a \in Accounts : FiledOn(a)' = F[a]
  PROVE  /\ \A a \in Accounts : Filed(a)' = Cardinality(DaysOf(F[a]))
         /\ (\A a \in Accounts : IsFiniteSet(DaysOf(F[a]))) => FilesAreFinite'
BY DEF Filed, DaysOf, FilesAreFinite

\* A deduction under a key is filed with the days that leave the total; one
\* without a key is not filed.
LEMMA NewDeductionMoves ==
  ASSUME Inv, NEW key \in Keys \cup {NoKey}, NEW a \in Accounts, NEW n \in Nat,
         NewDeduction(key, a, n)
  PROVE  FilesAreFinite' /\ (key # NoKey => Conserved)
<1> DEFINE filed == [key |-> key, account |-> a, days |-> n, id |-> requestCounter + 1]
           F == [b \in Accounts |->
                   IF key # NoKey /\ b = a THEN FiledOn(b) \cup {filed} ELSE FiledOn(b)]
<1>1. /\ \A d \in deductions : d.key # key
      /\ hcmTotal' = [hcmTotal EXCEPT ![a] = @ - n]
      /\ deductions' = IF key = NoKey THEN deductions ELSE deductions \cup {filed}
  BY DEF NewDeduction, NewKey, FiledUnder
<1>2. filed.key = key /\ filed.account = a /\ filed.days = n
  OBVIOUS
<1> HIDE DEF filed
<1>3. \A b \in Accounts : FiledOn(b)' = F[b]
  BY <1>1, <1>2 DEF FiledOn
<1>4. filed \notin FiledOn(a)
  BY <1>1, <1>2 DEF FiledOn
<1>5. \A b \in Accounts :
        IsFiniteSet(DaysOf(FiledOn(b))) /\ Cardinality(DaysOf(FiledOn(b))) \in Nat
  BY FS_CardinalityType DEF Inv, FilesAreFinite
<1>6. /\ IsFiniteSet(DaysOf(FiledOn(a) \cup {filed}))
      /\ Cardinality(DaysOf(FiledOn(a) \cup {filed})) = Cardinality(DaysOf(FiledOn(a))) + n
  BY <1>2, <1>4, <1>5, DaysFiled
<1>7. FilesAreFinite'
  BY <1>3, <1>5, <1>6, FiledNext
<1>8. ASSUME key # NoKey, NEW b \in Accounts
      PROVE  hcmTotal'[b] + Filed(b)' = hcmTotal[b] + Filed(b)
  <2>1. hcmTotal \in [Accounts -> Nat]
    BY DEF Inv, HcmInv, HcmTypeOK
  <2>2. Filed(b)' = Cardinality(DaysOf(F[b])) /\ Filed(b) = Cardinality(DaysOf(FiledOn(b)))
    BY <1>3, FiledNext DEF Filed
  <2>3. CASE b = a
    <3>1. Filed(b)' = Filed(b) + n
      BY <1>6, <1>8, <2>2, <2>3
    <3>2. hcmTotal'[b] = hcmTotal[b] - n
      BY <1>1, <2>1, <2>3
    <3>3. Filed(b) \in Nat
      BY <1>5, <2>2
    <3> QED
      BY <2>1, <3>1, <3>2, <3>3
  <2>4. CASE b # a
    <3>1. Filed(b)' = Filed(b)
      BY <1>8, <2>2, <2>4
    <3>2. hcmTotal'[b] = hcmTotal[b]
      BY <1>1, <2>1, <2>4
    <3> QED
      BY <3>1, <3>2
  <2> QED
    BY <2>3, <2>4
<1> QED
  BY <1>7, <1>8 DEF Conserved

\* A reversal gives back the days that it takes out of the files.
LEMMA ReverseKnownMoves ==
  ASSUME Inv, NEW id, ReverseKnown(id)
  PROVE  FilesAreFinite' /\ Conserved
<1>1. \/ UNCHANGED <<hcmTotal, deductions>>
      \/ \E d \in deductions :
           /\ hcmTotal' = [hcmTotal EXCEPT ![d.account] = @ + d.days]
           /\ deductions' = deductions \ {d}
  BY DEF ReverseKnown, FiledUnder, FileRemoved
<1>2. CASE UNCHANGED <<hcmTotal, deductions>>
  BY <1>2 DEF Inv, FilesAreFinite, Conserved, Filed, FiledOn, DaysOf
<1>3. ASSUME NEW d \in deductions,
             hcmTotal' = [hcmTotal EXCEPT ![d.account] = @ + d.days],
             deductions' = deductions \ {d}
      PROVE  FilesAreFinite' /\ Conserved
  <2> DEFINE F == [b \in Accounts |->
                     IF b = d.account THEN FiledOn(b) \ {d} ELSE FiledOn(b)]
  <2>1. d.account \in Accounts /\ d.days \in Nat /\ hcmTotal \in [Accounts -> Nat]
    BY DEF Inv, HcmInv, HcmTypeOK
  <2>2. \A b \in Accounts : FiledOn(b)' = F[b]
    BY <1>3 DEF FiledOn
  <2>3. d \in FiledOn(d.account)
    BY DEF FiledOn
  <2>4. \A b \in Accounts :
          IsFiniteSet(DaysOf(FiledOn(b))) /\ Cardinality(DaysOf(FiledOn(b))) \in Nat
    BY FS_CardinalityType DEF Inv, FilesAreFinite
  <2>5. /\ IsFiniteSet(DaysOf(FiledOn(d.account) \ {d}))
        /\ Cardinality(DaysOf(FiledOn(d.account)))
             = Cardinality(DaysOf(FiledOn(d.account) \ {d})) + d.days
    BY <2>1, <2>3, <2>4, DaysTakenOut
  <2>6. Cardinality(DaysOf(FiledOn(d.account) \ {d})) \in Nat
    BY <2>5, FS_CardinalityType
  <2>7. FilesAreFinite'
    BY <2>2, <2>4, <2>5, FiledNext
  <2>8. ASSUME NEW b \in Accounts
        PROVE  hcmTotal'[b] + Filed(b)' = hcmTotal[b] + Filed(b)
    <3>1. Filed(b)' = Cardinality(DaysOf(F[b])) /\ Filed(b) = Cardinality(DaysOf(FiledOn(b)))
      BY <2>2, FiledNext DEF Filed
    <3>2. CASE b = d.account
      <4>1. Filed(b) = Filed(b)' + d.days /\ Filed(b)' \in Nat
        BY <2>5, <2>6, <3>1, <3>2
      <4>2. hcmTotal'[b] = hcmTotal[b] + d.days
        BY <1>3, <2>1, <3>2
      <4> QED
        BY <2>1, <4>1, <4>2
    <3>3. CASE b # d.account
      <4>1. Filed(b)' = Filed(b)
        BY <3>1, <3>3
      <4>2. hcmTotal'[b] = hcmTotal[b]
        BY <1>3, <2>1, <3>3
      <4> QED
        BY <4>1, <4>2
    <3> QED
      BY <3>2, <3>3
  <2> QED
    BY <2>7, <2>8 DEF Conserved
<1> QED
  BY <1>1, <1>2, <1>3

-----------------------------------------------------------------------------
(***************************************************************************)
(* The specification                                                       *)
(***************************************************************************)

LEMMA InitInv == HcmInit => Inv
<1> SUFFICES ASSUME HcmInit
             PROVE  Inv
  OBVIOUS
<1>1. HcmInv
  BY HcmInitInv
<1>2. \A a \in Accounts : DaysOf(FiledOn(a)) = {}
  BY DEF HcmInit, FiledOn, DaysOf
<1> QED
  BY <1>1, <1>2, FS_EmptySet DEF Inv, FilesAreFinite

\* What a step may do to the books, whoever calls.
Moved ==
  \/ Conserved
  \/ SimulateAnniversary \/ SeedAgain
  \/ \E a \in Accounts, n \in DayCounts : NewDeduction(NoKey, a, n)

LEMMA NextInv == Inv /\ [Next]_hcmVars => Inv' /\ (Moved \/ UNCHANGED hcmVars)
<1> SUFFICES ASSUME Inv, [Next]_hcmVars
             PROVE  Inv' /\ (Moved \/ UNCHANGED hcmVars)
  OBVIOUS
<1>1. CASE UNCHANGED hcmVars
  <2>1. HcmInv'
    BY <1>1, UnchangedKeeps DEF Inv
  <2> QED
    BY <1>1, <2>1 DEF Inv, FilesAreFinite, FiledOn, DaysOf, hcmVars
<1>2. ASSUME NEW key \in Keys \cup {NoKey}, NEW a \in Accounts, NEW n \in DayCounts,
             NewDeduction(key, a, n)
      PROVE  Inv' /\ Moved
  <2>1. n \in Nat
    BY CallAssumption
  <2>2. HcmInv'
    BY <1>2, <2>1, NewDeductionKeeps DEF Inv
  <2>3. FilesAreFinite' /\ (key # NoKey => Conserved)
    BY <1>2, <2>1, NewDeductionMoves
  <2> QED
    BY <1>2, <2>2, <2>3 DEF Inv, Moved
<1>3. ASSUME NEW id, ReverseKnown(id)
      PROVE  Inv' /\ Moved
  BY <1>3, ReverseKnownKeeps, ReverseKnownMoves DEF Inv, Moved
<1>4. CASE SimulateAnniversary
  <2>1. PICK e \in Employees : Anniversary(e, 1)
    BY <1>4 DEF SimulateAnniversary
  <2>2. HcmInv'
    BY <2>1, AnniversaryKeeps DEF Inv
  <2>3. FilesAreFinite'
    BY <2>1 DEF Inv, Anniversary, FilesAreFinite, FiledOn, DaysOf
  <2> QED
    BY <1>4, <2>2, <2>3 DEF Inv, Moved
<1>5. CASE SeedAgain
  <2>1. PICK a \in Accounts, n \in DayCounts : SeedBalance(a, n)
    BY <1>5 DEF SeedAgain
  <2>2. HcmInv'
    BY <2>1, SeedBalanceKeeps, CallAssumption DEF Inv
  <2>3. FilesAreFinite'
    BY <2>1 DEF Inv, SeedBalance, FilesAreFinite, FiledOn, DaysOf
  <2> QED
    BY <1>5, <2>2, <2>3 DEF Inv, Moved
<1> QED
  BY <1>1, <1>2, <1>3, <1>4, <1>5
  DEF Next, DeductBalance, ReverseDeduction, RepeatedDeduction, ReverseUnknown

LEMMA Invariance == Spec => []Inv
<1>1. HcmInit => Inv
  BY InitInv
<1>2. Inv /\ [Next]_hcmVars => Inv'
  BY NextInv
<1> QED
  BY <1>1, <1>2, PTL DEF Spec

\* No total falls below zero, and ids and keys are what was given out and sent.
THEOREM HcmTypeCorrect == Spec => []HcmTypeOK
<1>1. Inv => HcmTypeOK
  BY DEF Inv, HcmInv
<1> QED
  BY <1>1, Invariance, PTL

\* A key is charged once, and what it was charged can be reversed by its id:
\* deductBalance and reverseDeduction keep their two maps in step.
THEOREM EveryDeductionCanBeReversed == Spec => []DeductionsAreReversible
<1>1. Inv => DeductionsAreReversible
  BY DEF Inv, HcmInv
<1> QED
  BY <1>1, Invariance, PTL

\* Days only move between totals and files, whatever calls are repeated or
\* reversed twice, for any number of accounts.
THEOREM NoDayIsLostOrMade == Spec => DaysConserved
<1>1. Inv /\ [Next]_hcmVars => [Moved]_hcmVars
  BY NextInv
<1>2. [Moved]_hcmVars <=>
        [ \/ \A a \in Accounts : hcmTotal'[a] + Filed(a)' = hcmTotal[a] + Filed(a)
          \/ SimulateAnniversary \/ SeedAgain
          \/ \E a \in Accounts, n \in DayCounts : NewDeduction(NoKey, a, n)
        ]_hcmVars
  BY DEF Moved, Conserved
<1> QED
  BY <1>1, <1>2, Invariance, PTL DEF Spec, DaysConserved

=============================================================================
