----------------------------- MODULE WorkBoard -----------------------------
(***************************************************************************)
(* What the work-item store promises: a call takes effect at most once, in *)
(* one step, on rows it may change at that moment; success is answered     *)
(* after the effect, and a refused call has none.                          *)
(***************************************************************************)
EXTENDS WorkItemRows

CONSTANT MaxTime

VARIABLES
  now,
  table,   \* work_items
  done,    \* calls that took effect
  answer   \* what callers were told: open, yes or no

boardVars == <<now, table, done, answer>>

Init ==
  /\ now = 0 /\ table = EmptyTable /\ done = {}
  /\ answer = [o \in Ops |-> "open"]

Pass == now' = now + 1 /\ UNCHANGED <<table, done, answer>>

Rewrite(i) ==
  /\ table' = [table EXCEPT ![i] = Rewritten(@)]
  /\ UNCHANGED <<now, done, answer>>

(* The statement ran at t, a little before; an id left open is any free one.*)
Apply(o, i, t) ==
  /\ o \notin done /\ answer[o] = "open"
  /\ Target[o] \in {i, None}
  /\ Allowed(o, i, table, t)
  /\ table' = Effect(o, i, table, t)
  /\ done' = done \cup {o}
  /\ UNCHANGED <<now, answer>>

Tell(o, said) ==
  /\ answer[o] = "open"
  /\ said = "yes" => o \in done
  /\ said = "no" => o \notin done
  /\ answer' = [answer EXCEPT ![o] = said]
  /\ UNCHANGED <<now, table, done>>

Next ==
  \/ Pass
  \/ \E i \in Items : Rewrite(i)
  \/ \E o \in Ops, i \in Items, t \in 0 .. now : Apply(o, i, t)
  \/ \E o \in Ops, said \in {"yes", "no"} : Tell(o, said)

Spec == Init /\ [][Next]_boardVars
=============================================================================
