--------------------------- MODULE MCSettlements ---------------------------
(* The first epoch owes a wallet user, the second an identity no user has   *)
(* bound: it may become the same user's, another's, or a walletless user's. *)
EXTENDS Settlements, TLC

CONSTANTS l1, l2, e1, e2, u1, u2, u3, i1

SourceOf == l1 :> e1 @@ l2 :> e2
ClaimantOf == l1 :> u1 @@ l2 :> i1
AmountOwed == l1 :> 1 @@ l2 :> 2
=============================================================================
