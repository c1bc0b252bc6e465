----------------------------- MODULE MCGraphRuns -----------------------------
(* GraphRuns on small instances: who asks for which run with which text. *)
EXTENDS GraphRuns, TLC

CONSTANTS c1, c2, c3, h1, h2, t1, t2, k1, s1

(* A turn and its exact retry, with or without a turn after it, and two     *)
(* completions with one key and different texts.                           *)
OneTurn == (c1 :> t1) @@ (c2 :> t1)
RetryAndTurn == (c1 :> t1) @@ (c2 :> t1) @@ (c3 :> t2)
RetryAndText == (c1 :> "hello") @@ (c2 :> "hello") @@ (c3 :> "bye")
OneKey == (c1 :> k1) @@ (c2 :> k1)
TwoTexts == (c1 :> "hello") @@ (c2 :> "bye")
SecretText == (c1 :> "key") @@ (c2 :> "key")

OneCaller == c1 :> t1
OneText == c1 :> "hello"

HandlerSymmetry == Permutations({h1, h2})
===============================================================================
