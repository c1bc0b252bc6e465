----------------------------- MODULE UsageMeter -----------------------------
(***************************************************************************)
(* What usage billing promises: every unit of usage is charged at most     *)
(* once, for one of the calls it stands for, at that call's price and to   *)
(* the account that call belongs to; nothing else but a deposit moves a    *)
(* balance, and a charge is never taken back.                              *)
(***************************************************************************)
EXTENDS Integers

CONSTANTS
  Accounts, Units, Deposits,
  Calls, Unit(_), Payer(_), Price, \* the unit, the account and the price of a call
  Beneficiary, Amount,             \* of each deposit
  Opening, None

VARIABLES
  charged,   \* [Units -> Calls \cup {None}]: the call each unit was charged for
  balance,   \* [Accounts -> Int]
  deposited  \* the deposits made

vars == <<charged, balance, deposited>>

Init ==
  /\ charged = [u \in Units |-> None]
  /\ balance = [a \in Accounts |-> Opening]
  /\ deposited = {}

Charge(c) ==
  /\ Payer(c) \in Accounts /\ Price[c] # None
  /\ charged[Unit(c)] = None
  /\ charged' = [charged EXCEPT ![Unit(c)] = c]
  /\ balance' = [balance EXCEPT ![Payer(c)] = @ - Price[c]]
  /\ UNCHANGED deposited

Deposit(d) ==
  /\ d \notin deposited
  /\ deposited' = deposited \cup {d}
  /\ balance' = [balance EXCEPT ![Beneficiary[d]] = @ + Amount[d]]
  /\ UNCHANGED charged

Next ==
  \/ \E c \in Calls : Charge(c)
  \/ \E d \in Deposits : Deposit(d)

Spec == Init /\ [][Next]_vars
=============================================================================
