------------------------------ MODULE MCEpochs ------------------------------
(* A merged pull request and a review of it, by one author who may sign    *)
(* in between, which two windows share out.                                 *)
EXTENDS Epochs, TLC

CONSTANTS a1, a2, p1

OneWriter == (1 :> 1) @@ (2 :> 1)
ReviewShowsMerge == (1 :> {1}) @@ (2 :> {1, 2})
Units12 == (1 :> 1) @@ (2 :> 2)
Amounts == ("base" :> 2)

ApproversAreAlike == Permutations({a1, a2})

=============================================================================
