------------------------- MODULE LeaveLedgerProofs -------------------------
(***************************************************************************)
(* Proofs about LeaveLedger, for every set of requests and balances.       *)
(*                                                                         *)
(* Inv is the inductive invariant: the ledger's accounting, and the link   *)
(* between a request's status and what the HCM was asked for, without      *)
(* which no reversal could be shown to spare an APPROVED request.  BookInv *)
(* is what remains of it when totals change from outside: an adopted total *)
(* may be less than what is used and reserved.                             *)
(***************************************************************************)
EXTENDS LeaveLedger, FiniteSetTheorems, TLAPS

\* The books and the agreement with the HCM, together inductive.
BookInv ==
  /\ TypeOK
  /\ HeldDaysReserved
  /\ TakenDaysUsed
  /\ ApprovedIsDeducted
  /\ DeductionIsOwedOrReversible
  /\ IntentsMatchStatus

Inv == BookInv /\ NoOverdraft

-----------------------------------------------------------------------------
(***************************************************************************)
(* Counting days                                                           *)
(***************************************************************************)

\* The days of one request, as a set, are as many as it asks for.
LEMMA OneRequestsDays ==
  ASSUME NEW r \in Requests
  PROVE  /\ IsFiniteSet({r} \X (1..Days[r]))
         /\ Cardinality({r} \X (1..Days[r])) = Days[r]
<1>1. Days[r] \in Nat \ {0}
  BY LedgerAssumption
<1>2. IsFiniteSet(1..Days[r]) /\ Cardinality(1..Days[r]) = Days[r]
  <2> DEFINE n == Days[r]
  <2>1. n \in Nat \ {0}
    BY <1>1
  <2> HIDE DEF n
  <2>2. IsFiniteSet(1..n) /\ Cardinality(1..n) = n
    BY <2>1, FS_Interval
  <2> QED
    BY <2>2 DEF n
<1>3. IsFiniteSet({r}) /\ Cardinality({r}) = 1
  BY FS_Singleton
<1>4. /\ IsFiniteSet({r} \X (1..Days[r]))
      /\ Cardinality({r} \X (1..Days[r])) = Cardinality({r}) * Cardinality(1..Days[r])
  BY <1>2, <1>3, FS_Product, Zenon
<1> QED
  BY <1>1, <1>2, <1>3, <1>4

\* Taking on a request adds exactly its days.
LEMMA DaysAdded ==
  ASSUME NEW S \in SUBSET Requests, NEW r \in Requests \ S,
         IsFiniteSet(DaysIn(S))
  PROVE  /\ IsFiniteSet(DaysIn(S \cup {r}))
         /\ Cardinality(DaysIn(S \cup {r})) = Cardinality(DaysIn(S)) + Days[r]
<1> DEFINE D == {r} \X (1..Days[r])
<1>1. DaysIn(S \cup {r}) = DaysIn(S) \cup D
  BY DEF DaysIn
<1>2. DaysIn(S) \cap D = {}
  BY DEF DaysIn
<1>3. IsFiniteSet(D) /\ Cardinality(D) = Days[r]
  BY OneRequestsDays
<1>4. /\ Cardinality(DaysIn(S)) \in Nat
      /\ Days[r] \in Nat
  BY FS_CardinalityType, LedgerAssumption
<1> HIDE DEF D
<1>5. /\ IsFiniteSet(DaysIn(S) \cup D)
      /\ Cardinality(DaysIn(S) \cup D)
           = Cardinality(DaysIn(S)) + Cardinality(D) - Cardinality(DaysIn(S) \cap D)
  BY <1>3, FS_Union
<1>6. Cardinality(DaysIn(S) \cap D) = 0
  BY <1>2, FS_EmptySet
<1>7. IsFiniteSet(DaysIn(S \cup {r}))
  BY <1>1, <1>5, Zenon
<1>8. Cardinality(DaysIn(S \cup {r})) = Cardinality(DaysIn(S)) + Days[r] - 0
  BY <1>1, <1>3, <1>5, <1>6, Zenon
<1> QED
  BY <1>4, <1>7, <1>8

\* Letting go of a request removes exactly its days.
LEMMA DaysRemoved ==
  ASSUME NEW S \in SUBSET Requests, NEW r \in S,
         IsFiniteSet(DaysIn(S))
  PROVE  /\ IsFiniteSet(DaysIn(S \ {r}))
         /\ Cardinality(DaysIn(S \ {r})) = Cardinality(DaysIn(S)) - Days[r]
         /\ Cardinality(DaysIn(S)) >= Days[r]
<1>1. DaysIn(S \ {r}) \subseteq DaysIn(S)
  BY DEF DaysIn
<1>2. IsFiniteSet(DaysIn(S \ {r}))
  BY <1>1, FS_Subset
<1>3. (S \ {r}) \cup {r} = S
  OBVIOUS
<1>4. Cardinality(DaysIn(S)) = Cardinality(DaysIn(S \ {r})) + Days[r]
  BY <1>2, <1>3, DaysAdded
<1>5. /\ Cardinality(DaysIn(S \ {r})) \in Nat
      /\ Days[r] \in Nat
  BY <1>2, FS_CardinalityType, LedgerAssumption
<1> QED
  BY <1>2, <1>4, <1>5

-----------------------------------------------------------------------------
(***************************************************************************)
(* Type correctness                                                        *)
(***************************************************************************)

LEMMA InitTypeOK == Init => TypeOK
BY LedgerAssumption DEF Init, TypeOK, RequestStatus, Absent

LEMMA NextTypeOK == TypeOK /\ [Next]_vars => TypeOK'
<1> SUFFICES ASSUME TypeOK, [Next]_vars
             PROVE  TypeOK'
  OBVIOUS
<1> USE LedgerAssumption DEF TypeOK
<1>1. ASSUME NEW r \in Requests, Submit(r)
      PROVE  TypeOK'
  BY <1>1 DEF Submit, RequestStatus
<1>2. ASSUME NEW r \in Requests, Approve(r)
      PROVE  TypeOK'
  BY <1>2 DEF Approve, Move, RequestStatus, OutboxEventType
<1>3. ASSUME NEW r \in Requests, Reject(r)
      PROVE  TypeOK'
  BY <1>3 DEF Reject, Move, Release, RequestStatus
<1>4. ASSUME NEW r \in Requests, Cancel(r)
      PROVE  TypeOK'
  BY <1>4 DEF Cancel, Move, Release, RequestStatus, OutboxEventType
<1>5. ASSUME NEW r \in Requests, Confirm(r)
      PROVE  TypeOK'
  BY <1>5 DEF Confirm, UseDays, Move, RequestStatus
<1>6. ASSUME NEW r \in Requests, Fail(r)
      PROVE  TypeOK'
  BY <1>6 DEF Fail, Move, RequestStatus
<1>7. ASSUME NEW r \in Requests, HcmDeduct(r) \/ HcmReverse(r)
      PROVE  TypeOK'
  BY <1>7 DEF HcmDeduct, HcmReverse
<1>8. CASE UNCHANGED vars
  BY <1>8 DEF vars
<1> QED
  BY <1>1, <1>2, <1>3, <1>4, <1>5, <1>6, <1>7, <1>8 DEF Next

\* Every reachable ledger is a table of balances, statuses and intents.
THEOREM TypeCorrect == Spec => []TypeOK
<1>1. Init => TypeOK
  BY InitTypeOK
<1>2. TypeOK /\ [Next]_vars => TypeOK'
  BY NextTypeOK
<1> QED
  BY <1>1, <1>2, PTL DEF Spec

-----------------------------------------------------------------------------
(***************************************************************************)
(* How one request's change of status moves the sets of requests that hold *)
(* or have taken days                                                      *)
(***************************************************************************)

\* A request that starts to hold days joins its own balance's holders only.
LEMMA JoinsHolding ==
  ASSUME TypeOK, NEW r \in Requests, NEW s \in Undecided,
         status[r] \notin Undecided,
         status' = [status EXCEPT ![r] = s],
         NEW b \in Balances
  PROVE  /\ r \notin Holding(b)
         /\ Holding(b)' = IF b = BalanceOf[r] THEN Holding(b) \cup {r} ELSE Holding(b)
BY DEF TypeOK, Holding

\* A request that stops holding days leaves its own balance's holders only.
LEMMA LeavesHolding ==
  ASSUME TypeOK, NEW r \in Requests, NEW s, s \notin Undecided,
         status[r] \in Undecided,
         status' = [status EXCEPT ![r] = s],
         NEW b \in Balances
  PROVE  /\ b = BalanceOf[r] <=> r \in Holding(b)
         /\ Holding(b)' = IF b = BalanceOf[r] THEN Holding(b) \ {r} ELSE Holding(b)
BY DEF TypeOK, Holding

\* A request that moves between statuses that hold days, or between statuses
\* that do not, moves no balance's holders.
LEMMA KeepsHolding ==
  ASSUME TypeOK, NEW r \in Requests, NEW s,
         s \in Undecided <=> status[r] \in Undecided,
         status' = [status EXCEPT ![r] = s],
         NEW b \in Balances
  PROVE  Holding(b)' = Holding(b)
BY DEF TypeOK, Holding

\* Only a request that becomes APPROVED changes who has taken days.
LEMMA KeepsTaken ==
  ASSUME TypeOK, NEW r \in Requests, NEW s,
         s # "APPROVED", status[r] # "APPROVED",
         status' = [status EXCEPT ![r] = s],
         NEW b \in Balances
  PROVE  Taken(b)' = Taken(b)
BY DEF TypeOK, Taken

LEMMA JoinsTaken ==
  ASSUME TypeOK, NEW r \in Requests, status[r] # "APPROVED",
         status' = [status EXCEPT ![r] = "APPROVED"],
         NEW b \in Balances
  PROVE  /\ r \notin Taken(b)
         /\ Taken(b)' = IF b = BalanceOf[r] THEN Taken(b) \cup {r} ELSE Taken(b)
BY DEF TypeOK, Taken

\* The transitions the state machine allows, one by one.
LEMMA Moves ==
  ASSUME NEW r \in Requests, NEW to, status[r] \in RequestStatus \cup {Absent},
         Move(r, to)
  PROVE  /\ status' = [status EXCEPT ![r] = to]
         /\ \/ /\ status[r] = "PENDING"
               /\ to \in {"APPROVED_PENDING_HCM", "REJECTED", "CANCELLED"}
            \/ /\ status[r] = "APPROVED_PENDING_HCM"
               /\ to \in {"APPROVED", "FAILED", "CANCELLED"}
            \/ status[r] = "FAILED" /\ to = "APPROVED"
BY DEF Move, CanTransition, AllowedTransitions, RequestStatus, Absent

-----------------------------------------------------------------------------
(***************************************************************************)
(* The accounting of days                                                  *)
(***************************************************************************)

\* With no request open or approved there are no days to count.
LEMMA InitAccounting ==
  Init => HeldDaysReserved /\ TakenDaysUsed /\ NoOverdraft
<1> SUFFICES ASSUME Init, NEW b \in Balances
             PROVE  /\ IsFiniteSet(DaysIn(Holding(b)))
                    /\ balance[b].reserved = Cardinality(DaysIn(Holding(b)))
                    /\ IsFiniteSet(DaysIn(Taken(b)))
                    /\ balance[b].used = Cardinality(DaysIn(Taken(b)))
                    /\ balance[b].used + balance[b].reserved <= balance[b].total
  BY DEF HeldDaysReserved, TakenDaysUsed, NoOverdraft
<1>1. Holding(b) = {} /\ Taken(b) = {}
  BY DEF Init, Holding, Taken, Undecided, Absent
<1>2. DaysIn({}) = {}
  BY DEF DaysIn
<1>3. balance[b] = [total |-> Entitlement[b], used |-> 0, reserved |-> 0]
  BY DEF Init
<1>4. Entitlement[b] \in Nat
  BY LedgerAssumption
<1> QED
  BY <1>1, <1>2, <1>3, <1>4, FS_EmptySet

\* A step that reserves a request's days and makes it a holder.
LEMMA ReserveKeepsHeld ==
  ASSUME TypeOK, HeldDaysReserved,
         NEW r \in Requests, NEW s \in Undecided, status[r] \notin Undecided,
         status' = [status EXCEPT ![r] = s],
         \A b \in Balances :
           balance'[b].reserved = IF b = BalanceOf[r]
                                  THEN balance[b].reserved + Days[r]
                                  ELSE balance[b].reserved
  PROVE  HeldDaysReserved'
<1> SUFFICES ASSUME NEW b \in Balances
             PROVE  /\ IsFiniteSet(DaysIn(Holding(b)'))
                    /\ balance'[b].reserved = Cardinality(DaysIn(Holding(b)'))
  BY DEF HeldDaysReserved, DaysIn
<1>1. /\ r \notin Holding(b)
      /\ Holding(b)' = IF b = BalanceOf[r] THEN Holding(b) \cup {r} ELSE Holding(b)
  BY JoinsHolding
<1>2. /\ IsFiniteSet(DaysIn(Holding(b)))
      /\ balance[b].reserved = Cardinality(DaysIn(Holding(b)))
  BY DEF HeldDaysReserved
<1>3. Holding(b) \in SUBSET Requests
  BY DEF Holding
<1>4. CASE b = BalanceOf[r]
  <2>1. /\ IsFiniteSet(DaysIn(Holding(b) \cup {r}))
        /\ Cardinality(DaysIn(Holding(b) \cup {r}))
             = Cardinality(DaysIn(Holding(b))) + Days[r]
    BY <1>1, <1>2, <1>3, DaysAdded
  <2> QED
    BY <1>1, <1>2, <1>4, <2>1
<1>5. CASE b # BalanceOf[r]
  BY <1>1, <1>2, <1>5
<1> QED
  BY <1>4, <1>5

\* A step that lets go of a holder's reserved days.
LEMMA ReleaseKeepsHeld ==
  ASSUME TypeOK, HeldDaysReserved,
         NEW r \in Requests, NEW s, s \notin Undecided, status[r] \in Undecided,
         status' = [status EXCEPT ![r] = s],
         \A b \in Balances :
           balance'[b].reserved = IF b = BalanceOf[r]
                                  THEN balance[b].reserved - Days[r]
                                  ELSE balance[b].reserved
  PROVE  HeldDaysReserved'
<1> SUFFICES ASSUME NEW b \in Balances
             PROVE  /\ IsFiniteSet(DaysIn(Holding(b)'))
                    /\ balance'[b].reserved = Cardinality(DaysIn(Holding(b)'))
  BY DEF HeldDaysReserved, DaysIn
<1>1. /\ b = BalanceOf[r] <=> r \in Holding(b)
      /\ Holding(b)' = IF b = BalanceOf[r] THEN Holding(b) \ {r} ELSE Holding(b)
  BY LeavesHolding
<1>2. /\ IsFiniteSet(DaysIn(Holding(b)))
      /\ balance[b].reserved = Cardinality(DaysIn(Holding(b)))
  BY DEF HeldDaysReserved
<1>3. Holding(b) \in SUBSET Requests
  BY DEF Holding
<1>4. CASE b = BalanceOf[r]
  <2>1. /\ IsFiniteSet(DaysIn(Holding(b) \ {r}))
        /\ Cardinality(DaysIn(Holding(b) \ {r}))
             = Cardinality(DaysIn(Holding(b))) - Days[r]
    BY <1>1, <1>2, <1>3, <1>4, DaysRemoved
  <2> QED
    BY <1>1, <1>2, <1>4, <2>1
<1>5. CASE b # BalanceOf[r]
  BY <1>1, <1>2, <1>5
<1> QED
  BY <1>4, <1>5

\* A step that moves r between statuses alike and reserves or frees nothing.
LEMMA StillKeepsHeld ==
  ASSUME TypeOK, HeldDaysReserved,
         NEW r \in Requests, NEW s, s \in Undecided <=> status[r] \in Undecided,
         status' = [status EXCEPT ![r] = s],
         \A b \in Balances : balance'[b].reserved = balance[b].reserved
  PROVE  HeldDaysReserved'
<1> SUFFICES ASSUME NEW b \in Balances
             PROVE  /\ IsFiniteSet(DaysIn(Holding(b)'))
                    /\ balance'[b].reserved = Cardinality(DaysIn(Holding(b)'))
  BY DEF HeldDaysReserved, DaysIn
<1>1. Holding(b)' = Holding(b)
  BY KeepsHolding
<1> QED
  BY <1>1 DEF HeldDaysReserved

\* A step that approves nobody and uses no day.
LEMMA StillKeepsTaken ==
  ASSUME TypeOK, TakenDaysUsed,
         NEW r \in Requests, NEW s, s # "APPROVED", status[r] # "APPROVED",
         status' = [status EXCEPT ![r] = s],
         \A b \in Balances : balance'[b].used = balance[b].used
  PROVE  TakenDaysUsed'
<1> SUFFICES ASSUME NEW b \in Balances
             PROVE  /\ IsFiniteSet(DaysIn(Taken(b)'))
                    /\ balance'[b].used = Cardinality(DaysIn(Taken(b)'))
  BY DEF TakenDaysUsed, DaysIn
<1>1. Taken(b)' = Taken(b)
  BY KeepsTaken
<1> QED
  BY <1>1 DEF TakenDaysUsed

\* The step that approves r uses exactly its days.
LEMMA ApprovalKeepsTaken ==
  ASSUME TypeOK, TakenDaysUsed,
         NEW r \in Requests, status[r] # "APPROVED",
         status' = [status EXCEPT ![r] = "APPROVED"],
         \A b \in Balances :
           balance'[b].used = IF b = BalanceOf[r]
                              THEN balance[b].used + Days[r]
                              ELSE balance[b].used
  PROVE  TakenDaysUsed'
<1> SUFFICES ASSUME NEW b \in Balances
             PROVE  /\ IsFiniteSet(DaysIn(Taken(b)'))
                    /\ balance'[b].used = Cardinality(DaysIn(Taken(b)'))
  BY DEF TakenDaysUsed, DaysIn
<1>1. /\ r \notin Taken(b)
      /\ Taken(b)' = IF b = BalanceOf[r] THEN Taken(b) \cup {r} ELSE Taken(b)
  BY JoinsTaken
<1>2. /\ IsFiniteSet(DaysIn(Taken(b)))
      /\ balance[b].used = Cardinality(DaysIn(Taken(b)))
  BY DEF TakenDaysUsed
<1>3. Taken(b) \in SUBSET Requests
  BY DEF Taken
<1>4. CASE b = BalanceOf[r]
  <2>1. /\ IsFiniteSet(DaysIn(Taken(b) \cup {r}))
        /\ Cardinality(DaysIn(Taken(b) \cup {r}))
             = Cardinality(DaysIn(Taken(b))) + Days[r]
    BY <1>1, <1>2, <1>3, DaysAdded
  <2> QED
    BY <1>1, <1>2, <1>4, <2>1
<1>5. CASE b # BalanceOf[r]
  BY <1>1, <1>2, <1>5
<1> QED
  BY <1>4, <1>5

\* Every step keeps the accounts.
LEMMA NextAccounting ==
  TypeOK /\ HeldDaysReserved /\ TakenDaysUsed /\ [Next]_vars
    => (HeldDaysReserved /\ TakenDaysUsed)'
<1> SUFFICES ASSUME TypeOK, HeldDaysReserved, TakenDaysUsed, [Next]_vars
             PROVE  (HeldDaysReserved /\ TakenDaysUsed)'
  OBVIOUS
<1> USE LedgerAssumption
<1>1. ASSUME NEW r \in Requests, Submit(r)
      PROVE  (HeldDaysReserved /\ TakenDaysUsed)'
  <2>1. /\ status[r] \notin Undecided /\ status[r] # "APPROVED"
        /\ status' = [status EXCEPT ![r] = "PENDING"]
        /\ "PENDING" \in Undecided
    BY <1>1 DEF Submit, Undecided, Absent
  <2>2. \A b \in Balances :
          /\ balance'[b].reserved = IF b = BalanceOf[r]
                                    THEN balance[b].reserved + Days[r]
                                    ELSE balance[b].reserved
          /\ balance'[b].used = balance[b].used
    BY <1>1 DEF Submit, TypeOK
  <2>3. HeldDaysReserved'
    BY <2>1, <2>2, ReserveKeepsHeld
  <2>4. TakenDaysUsed'
    BY <2>1, <2>2, StillKeepsTaken
  <2> QED
    BY <2>3, <2>4
<1>2. ASSUME NEW r \in Requests, Approve(r) \/ Fail(r)
      PROVE  (HeldDaysReserved /\ TakenDaysUsed)'
  <2>1. PICK to : to \in {"APPROVED_PENDING_HCM", "FAILED"} /\ Move(r, to)
    BY <1>2 DEF Approve, Fail
  <2>2. /\ status' = [status EXCEPT ![r] = to]
        /\ status[r] \in Undecided /\ to \in Undecided
        /\ status[r] # "APPROVED" /\ to # "APPROVED"
    BY <2>1, Moves DEF TypeOK, Undecided
  <2>3. balance' = balance
    BY <1>2 DEF Approve, Fail
  <2>4. HeldDaysReserved'
    BY <2>2, <2>3, StillKeepsHeld
  <2>5. TakenDaysUsed'
    BY <2>2, <2>3, StillKeepsTaken
  <2> QED
    BY <2>4, <2>5
<1>3. ASSUME NEW r \in Requests, Reject(r) \/ Cancel(r)
      PROVE  (HeldDaysReserved /\ TakenDaysUsed)'
  <2>1. PICK to : to \in {"REJECTED", "CANCELLED"} /\ Move(r, to)
    BY <1>3 DEF Reject, Cancel
  <2>2. /\ status' = [status EXCEPT ![r] = to]
        /\ status[r] \in Undecided /\ to \notin Undecided
        /\ status[r] # "APPROVED" /\ to # "APPROVED"
    BY <2>1, Moves DEF TypeOK, Undecided
  <2>3. \A b \in Balances :
          /\ balance'[b].reserved = IF b = BalanceOf[r]
                                    THEN balance[b].reserved - Days[r]
                                    ELSE balance[b].reserved
          /\ balance'[b].used = balance[b].used
    BY <1>3 DEF Reject, Cancel, Release, TypeOK
  <2>4. HeldDaysReserved'
    BY <2>2, <2>3, ReleaseKeepsHeld
  <2>5. TakenDaysUsed'
    BY <2>2, <2>3, StillKeepsTaken
  <2> QED
    BY <2>4, <2>5
<1>4. ASSUME NEW r \in Requests, Confirm(r)
      PROVE  (HeldDaysReserved /\ TakenDaysUsed)'
  <2>1. /\ status' = [status EXCEPT ![r] = "APPROVED"]
        /\ status[r] \in Undecided /\ "APPROVED" \notin Undecided
        /\ status[r] # "APPROVED"
    BY <1>4, Moves DEF Confirm, TypeOK, Undecided
  <2>2. \A b \in Balances :
          /\ balance'[b].reserved = IF b = BalanceOf[r]
                                    THEN balance[b].reserved - Days[r]
                                    ELSE balance[b].reserved
          /\ balance'[b].used = IF b = BalanceOf[r]
                                THEN balance[b].used + Days[r]
                                ELSE balance[b].used
    BY <1>4 DEF Confirm, UseDays, TypeOK
  <2>3. HeldDaysReserved'
    BY <2>1, <2>2, ReleaseKeepsHeld
  <2>4. TakenDaysUsed'
    BY <2>1, <2>2, ApprovalKeepsTaken
  <2> QED
    BY <2>3, <2>4
<1>5. CASE UNCHANGED <<balance, status>>
  <2>1. \A b \in Balances : Holding(b)' = Holding(b) /\ Taken(b)' = Taken(b)
    BY <1>5 DEF Holding, Taken
  <2>2. HeldDaysReserved'
    BY <1>5, <2>1 DEF HeldDaysReserved, DaysIn
  <2>3. TakenDaysUsed'
    BY <1>5, <2>1 DEF TakenDaysUsed, DaysIn
  <2> QED
    BY <2>2, <2>3
<1> QED
  BY <1>1, <1>2, <1>3, <1>4, <1>5 DEF Next, vars, HcmDeduct, HcmReverse

Overdrawn(b) == balance[b].used + balance[b].reserved > balance[b].total
IsActive(r) == status[r] \in {"PENDING", "APPROVED_PENDING_HCM"}

\* No step touches a total, overdraws a balance or draws further on one that is
\* overdrawn, and requests become active only where days are left.
LEMMA NextDrawing ==
  ASSUME TypeOK, [Next]_vars, NEW b \in Balances
  PROVE  /\ balance'[b].total = balance[b].total
         /\ \/ balance'[b].used + balance'[b].reserved <= balance[b].used + balance[b].reserved
            \/ ~Overdrawn(b)'
         /\ \A r \in Requests :
              BalanceOf[r] = b /\ IsActive(r)' => IsActive(r) \/ ~Overdrawn(b)'
<1> USE LedgerAssumption DEF TypeOK, Overdrawn
<1>1. ASSUME NEW r \in Requests, Submit(r)
      PROVE  /\ balance'[b].total = balance[b].total
             /\ balance'[b].used = balance[b].used
             /\ b # BalanceOf[r] => balance'[b] = balance[b]
             /\ b = BalanceOf[r] => ~Overdrawn(b)'
             /\ \A q \in Requests : q # r => status'[q] = status[q]
  BY <1>1 DEF Submit, Available
<1>2. ASSUME NEW r \in Requests,
             Approve(r) \/ Reject(r) \/ Cancel(r) \/ Confirm(r) \/ Fail(r)
      PROVE  /\ balance'[b].total = balance[b].total
             /\ balance'[b].used + balance'[b].reserved <= balance[b].used + balance[b].reserved
             /\ \A q \in Requests : IsActive(q)' => IsActive(q)
  <2>1. PICK to : Move(r, to)
    BY <1>2 DEF Approve, Reject, Cancel, Confirm, Fail
  <2>2. \A q \in Requests : IsActive(q)' => IsActive(q)
    BY <2>1, Moves DEF IsActive
  <2>3. CASE UNCHANGED balance
    BY <2>2, <2>3
  <2>4. CASE Release(r)
    BY <2>2, <2>4 DEF Release
  <2>5. CASE UseDays(r)
    BY <2>2, <2>5 DEF UseDays
  <2> QED
    BY <1>2, <2>3, <2>4, <2>5 DEF Approve, Reject, Cancel, Confirm, Fail
<1>3. ASSUME UNCHANGED <<balance, status>>
      PROVE  /\ balance'[b] = balance[b]
             /\ \A q \in Requests : IsActive(q)' => IsActive(q)
  BY <1>3 DEF IsActive
<1>4. CASE \E r \in Requests : Submit(r)
  <2>1. PICK r \in Requests : Submit(r)
    BY <1>4
  <2> QED
    BY <1>1, <2>1 DEF IsActive
<1>5. CASE \E r \in Requests :
             Approve(r) \/ Reject(r) \/ Cancel(r) \/ Confirm(r) \/ Fail(r)
  BY <1>2, <1>5
<1>6. CASE UNCHANGED <<balance, status>>
  BY <1>3, <1>6
<1> QED
  BY <1>4, <1>5, <1>6 DEF Next, vars, HcmDeduct, HcmReverse

\* With totals left alone, NoOverdraft is inductive.
LEMMA NextNoOverdraft == TypeOK /\ NoOverdraft /\ [Next]_vars => NoOverdraft'
<1> SUFFICES ASSUME TypeOK, NoOverdraft, [Next]_vars, NEW b \in Balances
             PROVE  ~Overdrawn(b)'
  BY NextTypeOK DEF NoOverdraft, Overdrawn, TypeOK
<1>1. TypeOK'
  BY NextTypeOK
<1> QED
  BY <1>1, NextDrawing DEF NoOverdraft, Overdrawn, TypeOK

-----------------------------------------------------------------------------
(***************************************************************************)
(* The agreement with the HCM                                              *)
(***************************************************************************)

LEMMA InitAgreement ==
  Init => ApprovedIsDeducted /\ DeductionIsOwedOrReversible /\ IntentsMatchStatus
BY DEF Init, ApprovedIsDeducted, DeductionIsOwedOrReversible,
       IntentsMatchStatus, Absent

\* Every step keeps what is asked of the HCM, what the HCM has done and the
\* requests' statuses in line.  That HcmReverse spares APPROVED requests
\* follows from IntentsMatchStatus alone.
LEMMA NextAgreement ==
  /\ TypeOK
  /\ ApprovedIsDeducted /\ DeductionIsOwedOrReversible /\ IntentsMatchStatus
  /\ [Next]_vars
  => (ApprovedIsDeducted /\ DeductionIsOwedOrReversible /\ IntentsMatchStatus)'
<1> DEFINE Agreement ==
      ApprovedIsDeducted /\ DeductionIsOwedOrReversible /\ IntentsMatchStatus
<1> SUFFICES ASSUME TypeOK, Agreement, [Next]_vars
             PROVE  Agreement'
  OBVIOUS
<1> USE DEF TypeOK, ApprovedIsDeducted, DeductionIsOwedOrReversible,
            IntentsMatchStatus
<1>1. ASSUME NEW r \in Requests, Submit(r)
      PROVE  Agreement'
  BY <1>1 DEF Submit, Absent
<1>2. ASSUME NEW r \in Requests, Approve(r)
      PROVE  Agreement'
  <2>1. /\ status[r] = "PENDING"
        /\ status' = [status EXCEPT ![r] = "APPROVED_PENDING_HCM"]
    BY <1>2, Moves DEF Approve
  <2> QED
    BY <1>2, <2>1 DEF Approve
<1>3. ASSUME NEW r \in Requests, Reject(r)
      PROVE  Agreement'
  <2>1. /\ status[r] = "PENDING"
        /\ status' = [status EXCEPT ![r] = "REJECTED"]
    BY <1>3, Moves DEF Reject
  <2> QED
    BY <1>3, <2>1 DEF Reject
<1>4. ASSUME NEW r \in Requests, Cancel(r)
      PROVE  Agreement'
  <2>1. /\ status[r] \in {"PENDING", "APPROVED_PENDING_HCM"}
        /\ status' = [status EXCEPT ![r] = "CANCELLED"]
    BY <1>4, Moves DEF Cancel
  <2>2. CASE status[r] = "PENDING"
    BY <1>4, <2>1, <2>2 DEF Cancel, ReversalDue
  <2>3. CASE status[r] = "APPROVED_PENDING_HCM"
    BY <1>4, <2>1, <2>3 DEF Cancel, ReversalDue
  <2> QED
    BY <2>1, <2>2, <2>3
<1>5. ASSUME NEW r \in Requests, Confirm(r)
      PROVE  Agreement'
  <2>1. /\ status[r] \in {"APPROVED_PENDING_HCM", "FAILED"}
        /\ status' = [status EXCEPT ![r] = "APPROVED"]
    BY <1>5, Moves DEF Confirm
  <2> QED
    BY <1>5, <2>1 DEF Confirm, ConfirmedByHcm
<1>6. ASSUME NEW r \in Requests, Fail(r)
      PROVE  Agreement'
  <2>1. /\ status[r] = "APPROVED_PENDING_HCM"
        /\ status' = [status EXCEPT ![r] = "FAILED"]
    BY <1>6, Moves DEF Fail
  <2> QED
    BY <1>6, <2>1 DEF Fail
<1>7. ASSUME NEW r \in Requests, HcmDeduct(r)
      PROVE  Agreement'
  BY <1>7 DEF HcmDeduct
<1>8. ASSUME NEW r \in Requests, HcmReverse(r)
      PROVE  Agreement'
  BY <1>8 DEF HcmReverse
<1>9. CASE UNCHANGED vars
  BY <1>9 DEF vars
<1> QED
  BY <1>1, <1>2, <1>3, <1>4, <1>5, <1>6, <1>7, <1>8, <1>9 DEF Next

-----------------------------------------------------------------------------
(***************************************************************************)
(* The theorems                                                            *)
(***************************************************************************)

LEMMA NextBooks == BookInv /\ [Next]_vars => BookInv'
BY NextTypeOK, NextAccounting, NextAgreement DEF BookInv

\* Inv holds in every reachable ledger.
THEOREM Invariance == Spec => []Inv
<1>1. Init => Inv
  BY InitTypeOK, InitAccounting, InitAgreement DEF Inv, BookInv
<1>2. Inv /\ [Next]_vars => Inv'
  BY NextBooks, NextNoOverdraft DEF Inv, BookInv
<1> QED
  BY <1>1, <1>2, PTL DEF Spec

\* The days of an open request are among those reserved on its balance.
LEMMA OpenDaysAreReserved ==
  ASSUME BookInv, NEW r \in Requests, status[r] \in Undecided
  PROVE  balance[BalanceOf[r]].reserved >= Days[r]
<1> DEFINE b == BalanceOf[r]
<1>1. b \in Balances
  BY LedgerAssumption
<1>2. r \in Holding(b) /\ Holding(b) \in SUBSET Requests
  BY DEF Holding
<1>3. /\ IsFiniteSet(DaysIn(Holding(b)))
      /\ balance[b].reserved = Cardinality(DaysIn(Holding(b)))
  BY <1>1 DEF BookInv, HeldDaysReserved
<1> QED
  BY <1>2, <1>3, DaysRemoved

\* reserved_days is at all times the days of the undecided requests.
THEOREM ReservationsNeverLeak == Spec => []HeldDaysReserved
<1>1. Inv => HeldDaysReserved
  BY DEF Inv, BookInv
<1> QED
  BY <1>1, Invariance, PTL

\* used_days is at all times the days of the approved requests.
THEOREM UsedDaysAreApproved == Spec => []TakenDaysUsed
<1>1. Inv => TakenDaysUsed
  BY DEF Inv, BookInv
<1> QED
  BY <1>1, Invariance, PTL

\* No interleaving of submissions and decisions overdraws a balance.
THEOREM NeverOverdrawn == Spec => []NoOverdraft
<1>1. Inv => NoOverdraft
  BY DEF Inv, BookInv
<1> QED
  BY <1>1, Invariance, PTL

\* An APPROVED request keeps its deduction in the HCM for ever.
THEOREM ApprovalIsBacked == Spec => []ApprovedIsDeducted
<1>1. Inv => ApprovedIsDeducted
  BY DEF Inv, BookInv
<1> QED
  BY <1>1, Invariance, PTL

\* Days the HCM holds belong to an approved request or are owed a reversal.
THEOREM DeductionsAreAccountedFor == Spec => []DeductionIsOwedOrReversible
<1>1. Inv => DeductionIsOwedOrReversible
  BY DEF Inv, BookInv
<1> QED
  BY <1>1, Invariance, PTL

\* The HCM is asked for a deduction from approval on, and for its reversal
\* exactly when an approved request was cancelled.
THEOREM IntentsFollowRequests == Spec => []IntentsMatchStatus
<1>1. Inv => IntentsMatchStatus
  BY DEF Inv, BookInv
<1> QED
  BY <1>1, Invariance, PTL

=============================================================================
