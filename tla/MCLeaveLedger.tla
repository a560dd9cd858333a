--------------------------- MODULE MCLeaveLedger ---------------------------
(***************************************************************************)
(* A small LeaveLedger: three requests compete for one balance that cannot *)
(* hold them all, a fourth draws on another.                               *)
(***************************************************************************)
EXTENDS LeaveLedger, TLC

CONSTANTS r1, r2, r3, r4, b1, b2

MCEntitlement == b1 :> 3 @@ b2 :> 1
MCBalanceOf == r1 :> b1 @@ r2 :> b1 @@ r3 :> b1 @@ r4 :> b2
MCDays == r1 :> 2 @@ r2 :> 2 @@ r3 :> 1 @@ r4 :> 1

=============================================================================
