------------------------------ MODULE ChatTurns ------------------------------
(***************************************************************************)
(* What the chat promises of the turns of a thread: a turn is stored, then *)
(* answered in the thread, then announced as done to whoever streams it,   *)
(* in that order, and nothing of that is ever taken back.                  *)
(***************************************************************************)
CONSTANT Turns

VARIABLES
  asked,     \* turns whose user message is stored
  answered,  \* turns whose assistant message is stored
  announced  \* turns whose stream showed success

vars == <<asked, answered, announced>>

Init == asked = {} /\ answered = {} /\ announced = {}

Ask(t) ==
  /\ t \notin asked
  /\ asked' = asked \cup {t}
  /\ UNCHANGED <<answered, announced>>

Answer(t) ==
  /\ t \in asked \ answered
  /\ answered' = answered \cup {t}
  /\ UNCHANGED <<asked, announced>>

Announce(t) ==
  /\ t \in answered \ announced
  /\ announced' = announced \cup {t}
  /\ UNCHANGED <<asked, answered>>

Next == \E t \in Turns : Ask(t) \/ Answer(t) \/ Announce(t)

Spec == Init /\ [][Next]_vars

=============================================================================
