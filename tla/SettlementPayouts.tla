------------------------- MODULE SettlementPayouts -------------------------
(***************************************************************************)
(* What attribution settlement promises: an amount owed to a claimant is   *)
(* assigned to one account once, is minted into the distributor exactly    *)
(* once, and an account is paid what was published for it, never more.     *)
(* Nothing here knows of revisions, retries, stale reads or the chain.     *)
(***************************************************************************)
EXTENDS Integers, Functions

CONSTANTS Liabilities,   \* amounts owed, one per epoch and claimant
          Amount,        \* [Liabilities -> positive number of token units]
          Accounts,      \* wallets
          None           \* no account assigned yet

VARIABLES owed,       \* liabilities of finalized epochs
          assigned,   \* [Liabilities -> Accounts \cup {None}]: who is paid
          published,  \* liabilities whose tokens were minted
          minted,     \* tokens minted into the distributor
          paid        \* [Accounts -> tokens claimed]

vars == <<owed, assigned, published, minted, paid>>

AmountOf(S) == SumFunctionOnSet(Amount, S)
Assigned == {l \in owed : assigned[l] # None}
EarnedBy(a) == AmountOf({l \in published : assigned[l] = a})

Init ==
  /\ owed = {} /\ published = {} /\ minted = 0
  /\ assigned = [l \in Liabilities |-> None]
  /\ paid = [a \in Accounts |-> 0]

Owe == /\ owed' \in SUBSET Liabilities /\ owed \subseteq owed'
       /\ UNCHANGED <<assigned, published, minted, paid>>

\* Only what is owed and not assigned yet is assigned.
Assign == /\ assigned' \in [Liabilities -> Accounts \cup {None}]
          /\ \A l \in Liabilities :
               assigned'[l] # assigned[l] => assigned[l] = None /\ l \in owed
          /\ UNCHANGED <<owed, published, minted, paid>>

\* A mint pays for newly published liabilities and for nothing else.
Publish == \E S \in SUBSET (Assigned \ published) :
             /\ published' = published \cup S
             /\ minted' = minted + AmountOf(S)
             /\ UNCHANGED <<owed, assigned, paid>>

Pay == \E a \in Accounts :
         /\ paid' = [paid EXCEPT ![a] = EarnedBy(a)]
         /\ UNCHANGED <<owed, assigned, published, minted>>

Next == Owe \/ Assign \/ Publish \/ Pay
Spec == Init /\ [][Next]_vars
=============================================================================
