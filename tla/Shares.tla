------------------------------- MODULE Shares -------------------------------
(***************************************************************************)
(* Dividing a pool of credits among claimants in proportion to their units:*)
(* integer division, and one credit more for as many of the largest        *)
(* remainders as the division left over, ties going to the lower rank.     *)
(***************************************************************************)
EXTENDS Integers, FiniteSets, Functions

Nobody == [k \in {} |-> 0]

Floor_RoundedUp(units, pool, total) ==
  [k \in DOMAIN units |-> (units[k] * pool + total - 1) \div total]
Floor(units, pool, total) == [k \in DOMAIN units |-> (units[k] * pool) \div total]

(* Those whose remainder is served before that of k. *)
Ahead(k, units, pool, total, rank) ==
  LET remainder == [j \in DOMAIN units |-> (units[j] * pool) % total] IN
  {j \in DOMAIN units :
     \/ remainder[j] > remainder[k]
     \/ remainder[j] = remainder[k] /\ rank[j] < rank[k]}

LargestRemainder(units, pool, rank) ==
  LET total    == SumFunction(units)
      floor    == Floor(units, pool, total)
      residual == pool - SumFunction(floor)
      Bonus(k) == IF Cardinality(Ahead(k, units, pool, total, rank)) < residual
                  THEN 1 ELSE 0
  IN IF total = 0 \/ pool = 0
     THEN Nobody
     ELSE [k \in DOMAIN units |-> floor[k] + Bonus(k)]

=============================================================================
