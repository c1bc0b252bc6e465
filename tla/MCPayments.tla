------------------------------ MODULE MCPayments ------------------------------
(* Payments on small instances: which transaction comes from which wallet    *)
(* and what it pays.                                                         *)
EXTENDS Payments, TLC

CONSTANTS a1, a2, u1, u2, t1, t2, r1, r2

(* Two transfers of u1, of two amounts, or a single one. *)
OneWallet == (t1 :> u1) @@ (t2 :> u1)
PayTwoAndOne == (t1 :> 2) @@ (t2 :> 1)
OneTransfer == t1 :> u1
PaysOne == t1 :> 1

Symmetry == Permutations({r1, r2}) \cup Permutations({a1, a2})

(* Two instances in one run: two attempts, of two amounts, compete for t1   *)
(* while the clock runs and the chain does whatever it may, and one attempt *)
(* is rebound between t1 and t2 while the clock stands still and each is    *)
(* mined at most once.                                                      *)
Untouched(tx) ==
  /\ chain[tx] = "absent" /\ minedAt[tx] = {}
  /\ \A r \in Requests : req[r].tx # tx
  /\ \A a \in Attempts : Exists(a) => attempts[a].tx # tx
TwoAmounts ==
  \A a, b \in Attempts :
    a # b /\ Exists(a) /\ Exists(b) => attempts[a].cents # attempts[b].cents
MinedOnce(tx) ==
  chain[tx] # "reverted" /\ (minedAt[tx] # {} => chain[tx] = "mined")
Focus ==
  \/ Untouched(t2) /\ TwoAmounts
  \/ /\ now = 0 /\ \E a \in Attempts : ~Exists(a)
     /\ \A tx \in Txs : MinedOnce(tx)
===============================================================================
