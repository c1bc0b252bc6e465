--------------------------- MODULE MCUsageCharges ---------------------------
(* A user's call, a call LiteLLM was told no end user of, a call whose cost *)
(* is suspiciously zero, and two calls of one run to the user's provider.  *)
EXTENDS UsageCharges, TLC

CONSTANTS p1, p2, p3, b1, b2, r1, r2, u1, system, d1, h1, h2

RunOfCall == p1 :> r1 @@ p2 :> r1 @@ p3 :> r1 @@ b1 :> r2 @@ b2 :> r2
AccountOf == p1 :> u1 @@ p2 :> None @@ p3 :> u1 @@ b1 :> u1 @@ b2 :> u1
PriceOf == p1 :> 2 @@ p2 :> 1 @@ p3 :> None @@ b1 :> 0 @@ b2 :> 0
Payee == d1 :> u1
Bought == d1 :> 3

HandlersAreAlike == Permutations({h1, h2})
=============================================================================
