---------------------------- MODULE MCWorkItems ----------------------------
(* Calls on the first item: Ann creates it and leaves its id to the store,  *)
(* patches it, claims it, renews and releases her claim and deletes it, and *)
(* Bob claims it. A run takes some of them.                                 *)
EXTENDS WorkItems, TLC

CONSTANTS create, patch, claim, renew, yield, drop, steal, ann, bob, r1, r2, p1, p2

KindOf == [o \in Ops |->
  CASE o = create -> "create"   [] o = patch -> "patch"
    [] o = claim -> "claim"     [] o = steal -> "claim"
    [] o = renew -> "heartbeat" [] o = yield -> "release"
    [] o = drop -> "delete"]
TargetOf == [o \in Ops |-> IF o = create THEN None ELSE 1]
CallerOf == [o \in Ops |-> IF o = steal THEN bob ELSE ann]
RunOf == [o \in Ops |-> IF o = steal THEN r2 ELSE r1]

(* The processes run the same adapter. *)
ProcessesAreAlike == Permutations({p1, p2})

=============================================================================
