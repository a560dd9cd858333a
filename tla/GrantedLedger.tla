--------------------------- MODULE GrantedLedger ---------------------------
(***************************************************************************)
(* LeaveLedger while balances are synchronised: the HCM grants days, and   *)
(* the service adopts totals that the HCM once had, in any order and       *)
(* however old.  What has been reserved or used stays so.  SyncedService   *)
(* implements this as long as no reconciliation saves a row that has       *)
(* changed since it was read.                                              *)
(***************************************************************************)
EXTENDS LeaveLedger

VARIABLE granted   \* [Balances -> Nat], what the HCM has granted so far in all

GrantedInit == Init /\ granted = Entitlement

\* simulateAnniversary.
Grant ==
  /\ granted' \in [Balances -> Nat]
  /\ \A b \in Balances : granted'[b] >= granted[b]
  /\ UNCHANGED vars

\* A total may leave out the days that were deducted when the HCM reported it,
\* but never exceeds what has been granted.
Adopt ==
  /\ \A b \in Balances : balance'[b].total \in 0..granted[b]
  /\ balance' = [b \in Balances |-> [balance[b] EXCEPT !.total = balance'[b].total]]
  /\ UNCHANGED <<status, intents, deducted, granted>>

GrantedNext == (Next /\ UNCHANGED granted) \/ Grant \/ Adopt

GrantedSpec == GrantedInit /\ [][GrantedNext]_<<vars, granted>>

=============================================================================
