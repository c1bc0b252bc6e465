--------------------------- MODULE PurchaseLedger ---------------------------
(***************************************************************************)
(* What a credit purchase promises, without attempts, requests or retries: *)
(* a transfer confirmed on the chain brings its sender credits once,       *)
(* never more than it pays for, and then the system tenant its share once. *)
(***************************************************************************)
EXTENDS Integers

CONSTANTS Txs, Accounts, TxFrom, TxAmount, Amounts, CreditsOf(_), BonusOf(_)

VARIABLES
  confirmed, \* transfers of which a block got enough blocks on top
  credit,  \* what each transfer brought, a set of [to, credits]
  bonus    \* the credits the system tenant got for each transfer, a set

ledgerVars == <<confirmed, credit, bonus>>

Init ==
  /\ confirmed = {}
  /\ credit = [tx \in Txs |-> {}]
  /\ bonus = [tx \in Txs |-> {}]

(* A new block may be the one that several transfers waited for. *)
Confirm(txs) ==
  /\ confirmed' = confirmed \cup txs
  /\ UNCHANGED <<credit, bonus>>

Grant(tx, cents) ==
  /\ tx \in confirmed
  /\ credit[tx] = {}
  /\ cents <= TxAmount[tx]
  /\ credit' = [credit EXCEPT ![tx] = {[to |-> TxFrom[tx], credits |-> CreditsOf(cents)]}]
  /\ UNCHANGED <<confirmed, bonus>>

Share(tx) ==
  /\ bonus[tx] = {}
  /\ \E grant \in credit[tx] :
       bonus' = [bonus EXCEPT ![tx] = {BonusOf(grant.credits)}]
  /\ UNCHANGED <<confirmed, credit>>

Next ==
  \/ \E txs \in SUBSET Txs : Confirm(txs)
  \/ \E tx \in Txs : Share(tx) \/ \E cents \in Amounts : Grant(tx, cents)

Spec == Init /\ [][Next]_ledgerVars
=============================================================================
