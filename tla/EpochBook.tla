----------------------------- MODULE EpochBook -----------------------------
(***************************************************************************)
(* What attribution promises: one window at a time is open; a window that  *)
(* was reviewed is sealed by a statement that gives its whole pool to the  *)
(* claimants of receipts, and that nobody changes afterwards, though       *)
(* further approvers may sign it. Where collections exclude each other, no *)
(* other statement pays for those receipts.                                *)
(***************************************************************************)
EXTENDS Integers, Functions

CONSTANTS
  Windows, Approvers, None,
  Exclusive  \* collections do not overlap

VARIABLES
  phase,  \* of each window
  paid,   \* its statement: the receipts, the credits by claimant, the pool
  signers \* who signed it

vars == <<phase, paid, signers>>

Init ==
  /\ phase = [w \in Windows |-> "none"]
  /\ paid = [w \in Windows |-> None]
  /\ signers = [w \in Windows |-> {}]

NoneOpen == \A w \in Windows : phase[w] # "open"
Open(w) ==
  /\ phase[w] = "none" /\ NoneOpen
  /\ phase' = [phase EXCEPT ![w] = "open"]
  /\ UNCHANGED <<paid, signers>>
Review(w) ==
  /\ phase[w] = "open"
  /\ phase' = [phase EXCEPT ![w] = "review"]
  /\ UNCHANGED <<paid, signers>>
Turn(v, w) ==
  /\ phase[v] = "open" /\ phase[w] = "none"
  /\ phase' = [phase EXCEPT ![v] = "review", ![w] = "open"]
  /\ UNCHANGED <<paid, signers>>

WholePool(st) == DOMAIN st.lines = {} \/ SumFunction(st.lines) = st.pool
PaidElsewhere(w) ==
  UNION {paid[v].receipts : v \in {v \in Windows \ {w} : paid[v] # None}}
Seal(w) ==
  /\ phase[w] = "review"
  /\ phase' = [phase EXCEPT ![w] = "finalized"]
  /\ paid'[w] # None
  /\ paid' = [paid EXCEPT ![w] = paid'[w]]
  /\ WholePool(paid'[w])
  /\ Exclusive => paid'[w].receipts \cap PaidElsewhere(w) = {}
  /\ \E a \in Approvers : signers' = [signers EXCEPT ![w] = {a}]
CoSign(w, a) ==
  /\ signers' # signers
  /\ phase[w] = "finalized"
  /\ signers' = [signers EXCEPT ![w] = @ \cup {a}]
  /\ UNCHANGED <<phase, paid>>

Advance ==
  /\ phase' # phase
  /\ \/ \E w \in Windows : Open(w) \/ Review(w) \/ Seal(w)
     \/ \E v, w \in Windows : Turn(v, w)

Next == Advance \/ \E w \in Windows, a \in Approvers : CoSign(w, a)

Spec == Init /\ [][Next]_vars

=============================================================================
