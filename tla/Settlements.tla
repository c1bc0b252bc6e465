---------------------------- MODULE Settlements ----------------------------
(***************************************************************************)
(* Attribution settlement: epochs finalize and leave claimants with        *)
(* liabilities; reconcilers fold the liabilities whose claimant has a      *)
(* wallet into a chain of cumulative revisions; approvers publish the      *)
(* newest revision on chain; accounts claim from the distributor.          *)
(*                                                                         *)
(* Every query of a reconciler and of the payload route is an action: two  *)
(* reconcilers (after a finalize, after an identity binding, or from a     *)
(* collection pass) interleave at each of them with what they read before, *)
(* and a payload is executed long after it was served.                     *)
(***************************************************************************)
EXTENDS Integers, Sequences, FiniteSets, Functions

CONSTANTS
  Liabilities,   \* claimant_liabilities rows, present once their epoch is finalized
  Epochs,
  Source,        \* [Liabilities -> Epochs]: source_epoch_id
  Claimant,      \* [Liabilities -> Users \cup Identities]: "user:.." or "identity:.." key
  Amount,        \* [Liabilities -> positive amount_atomic]
  Users,         \* users rows; the wallet of a wallet user is named by the user
  WalletUsers,   \* users who signed in with a wallet (users.wallet_address is unique)
  Identities,    \* external identities no user had bound when the epoch was collected
  Reconcilers,   \* requests that run runReconcileSettlements
  Approvers,     \* browsers holding a publish payload
  MaxAttempts,   \* MAX_HEAD_CONFLICT_RETRIES
  MaxDeaths,     \* bound: processes that die during a reconciliation
  None

ASSUME SettlementsAssumption ==
  /\ Source \in [Liabilities -> Epochs]
  /\ Claimant \in [Liabilities -> Users \cup Identities]
  /\ Amount \in [Liabilities -> Nat \ {0}]
  /\ IsFiniteSet(Liabilities) /\ IsFiniteSet(WalletUsers)
  /\ WalletUsers \subseteq Users /\ Users \cap Identities = {}
  /\ None \notin Users
  /\ MaxAttempts \in Nat \ {0} /\ MaxDeaths \in Nat

VARIABLES
  finalized,   \* epochs with a signed statement
  settledIn,   \* [Liabilities -> sequence of settled_revision_id, 0 while pending]
  revisions,   \* distribution_settlement_revisions in sequence order, with their leaves
  binding,     \* user_bindings: [Identities -> Users \cup {None}]
  reconciler,  \* the local state of each reconciler
  payload,     \* what each approver's browser read
  liveRoot,    \* the distributor's merkle root: its revision's sequence, 0 the zero root
  minted,      \* tokens minted into the distributor
  claimed,     \* cumulativeClaimed of the distributor
  deaths

vars == <<finalized, settledIn, revisions, binding, reconciler, payload, liveRoot, minted, claimed, deaths>>

\* A revision's root is named by its sequence: a Merkle root is injective on complete
\* snapshots, and totals strictly increase along the chain.
Revision == [delta : Nat, total : Nat, leaves : [WalletUsers -> Nat]]
Genesis == [delta |-> 0, total |-> 0, leaves |-> [u \in WalletUsers |-> 0]]
Rev(n) == IF n = 0 THEN Genesis ELSE revisions[n]
Latest == Len(revisions)

\* What a reconciler holds: its place, the attempt, and what its queries returned.
Work(pc, attempt, pending, payee, head) ==
  [pc |-> pc, attempt |-> attempt, pending |-> pending, payee |-> payee, head |-> head]
Unresolved == [l \in Liabilities |-> None]
Idle == Work("idle", 0, {}, Unresolved, 0)
Listing(attempt) == Work("list", attempt, {}, Unresolved, 0)

\* What an approver's browser holds: the target revision, the root the payload is built
\* on and the amount to mint.
Payload(pc, target, expected, mint) ==
  [pc |-> pc, target |-> target, expected |-> expected, mint |-> mint]
NoPayload == Payload("idle", 0, 0, 0)

ReconcilerWork ==
  [pc : {"idle", "list", "resolve", "head", "append"}, attempt : 0..MaxAttempts,
   pending : SUBSET Liabilities, payee : [Liabilities -> WalletUsers \cup {None}], head : 0..Latest]
BrowserPayload ==
  [pc : {"idle", "live", "execute"}, target : 0..Latest, expected : 0..Latest, mint : Nat]

TypeOK ==
  /\ finalized \subseteq Epochs
  /\ settledIn \in [Liabilities -> 0..Latest]
  /\ revisions \in Seq(Revision)
  /\ binding \in [Identities -> Users \cup {None}]
  /\ reconciler \in [Reconcilers -> ReconcilerWork]
  /\ payload \in [Approvers -> BrowserPayload]
  /\ liveRoot \in 0..Latest
  /\ minted \in Nat
  /\ claimed \in [WalletUsers -> Nat]
  /\ deaths \in 0..MaxDeaths

Init ==
  /\ finalized = {}
  /\ settledIn = [l \in Liabilities |-> 0]
  /\ revisions = <<>>
  /\ binding = [i \in Identities |-> None]
  /\ reconciler = [r \in Reconcilers |-> Idle]
  /\ payload = [p \in Approvers |-> NoPayload]
  /\ liveRoot = 0 /\ minted = 0
  /\ claimed = [u \in WalletUsers |-> 0]
  /\ deaths = 0

AmountOf(S) == SumFunctionOnSet(Amount, S)

---------------------------------------------------------------------------
(* Finalized statements and identity bindings.                              *)

Owed == {l \in Liabilities : Source[l] \in finalized}

\* The liabilities of the signed statement are inserted pending, with the epoch's status.
\* A repeated finalize conflicts on every row and inserts nothing.
Finalize(e) ==
  /\ e \notin finalized
  /\ finalized' = finalized \cup {e}
  /\ UNCHANGED <<settledIn, revisions, binding, reconciler, payload, liveRoot, minted, claimed, deaths>>

\* A binding is inserted once for an external id and never removed or moved.
CreateBinding(i, u) ==
  /\ binding[i] = None
  /\ binding' = [binding EXCEPT ![i] = u]
  /\ UNCHANGED <<finalized, settledIn, revisions, reconciler, payload, liveRoot, minted, claimed, deaths>>

\* The user a claimant key stands for, and the wallet the user has, if any.
UserOf(c) == IF c \in Identities THEN binding[c] ELSE c
WalletOf(c) == IF UserOf(c) \in WalletUsers THEN UserOf(c) ELSE None
Payee(l) == WalletOf(Claimant[l])

---------------------------------------------------------------------------
(* Reconciliation.                                                          *)

Resolved(w) == {l \in w.pending : w.payee[l] # None}

\* The prior cumulative amounts plus the amounts settled now, per account.
CumulativeLeaves(prior, S, payee) ==
  [u \in WalletUsers |-> prior[u] + AmountOf({l \in S : payee[l] = u})]

Distribution(w) ==
  [delta |-> AmountOf(Resolved(w)),
   total |-> Rev(w.head).total + AmountOf(Resolved(w)),
   leaves |-> CumulativeLeaves(Rev(w.head).leaves, Resolved(w), w.payee)]

\* A finalize, a new binding or a collection pass starts a reconciliation.
Trigger(r) ==
  /\ reconciler[r].pc = "idle"
  /\ reconciler' = [reconciler EXCEPT ![r] = Listing(1)]
  /\ UNCHANGED <<finalized, settledIn, revisions, binding, payload, liveRoot, minted, claimed, deaths>>

Pending == {l \in Owed : settledIn[l] = 0}

ListPending(r) ==
  /\ reconciler[r].pc = "list"
  /\ reconciler' = [reconciler EXCEPT ![r] =
       IF Pending = {} THEN Idle ELSE Work("resolve", @.attempt, Pending, Unresolved, 0)]
  /\ UNCHANGED <<finalized, settledIn, revisions, binding, payload, liveRoot, minted, claimed, deaths>>

\* Nothing is appended while no pending claimant has a wallet.
Deferred_UntilAll(S, payee) == \E l \in S : payee[l] = None
Deferred(S, payee) == \A l \in S : payee[l] = None

ResolveWallets(r) ==
  /\ reconciler[r].pc = "resolve"
  /\ LET w == reconciler[r]
         payee == [l \in Liabilities |-> IF l \in w.pending THEN Payee(l) ELSE None]
     IN reconciler' = [reconciler EXCEPT ![r] =
          IF Deferred(w.pending, payee) THEN Idle ELSE Work("head", w.attempt, w.pending, payee, 0)]
  /\ UNCHANGED <<finalized, settledIn, revisions, binding, payload, liveRoot, minted, claimed, deaths>>

\* The latest revision and its leaves; both are append-only, so one read stands for both.
ReadHead(r) ==
  /\ reconciler[r].pc = "head"
  /\ reconciler' = [reconciler EXCEPT ![r] = Work("append", @.attempt, @.pending, @.payee, Latest)]
  /\ UNCHANGED <<finalized, settledIn, revisions, binding, payload, liveRoot, minted, claimed, deaths>>

\* What the append transaction finds changed since the reconciler's reads. The advisory
\* lock of the stream makes the transaction one step.
HeadUnmoved(w) == w.head = Latest
StillPending_Any(w) == TRUE
StillPending(w) == \A l \in Resolved(w) : settledIn[l] = 0
StillOwned(w) == \A l \in Resolved(w) : w.payee[l] = Payee(l)
Conflict(w) == ~(HeadUnmoved(w) /\ StillPending(w) /\ StillOwned(w))

\* The transaction recomputes the complete snapshot and throws unless the proposed one is
\* it; the tables check that amounts and their increments are not negative.
SnapshotMatches(w, d) ==
  /\ d \in Revision
  /\ d.delta > 0
  /\ d.delta = AmountOf(Resolved(w))
  /\ d.total = Rev(Latest).total + d.delta
  /\ \A u \in WalletUsers :
       d.leaves[u] = Rev(Latest).leaves[u] + AmountOf({l \in Resolved(w) : w.payee[l] = u})
  /\ SumFunction(d.leaves) = d.total

\* The revision, its leaves and the settled liabilities commit together.
AppendRevision(r) ==
  LET w == reconciler[r]
      d == Distribution(w)
  IN /\ w.pc = "append"
     /\ ~Conflict(w) /\ SnapshotMatches(w, d)
     /\ revisions' = Append(revisions, d)
     /\ settledIn' = [l \in Liabilities |-> IF l \in Resolved(w) THEN Latest + 1 ELSE settledIn[l]]
     /\ reconciler' = [reconciler EXCEPT ![r] = Idle]
     /\ UNCHANGED <<finalized, binding, payload, liveRoot, minted, claimed, deaths>>

\* A conflict rebuilds everything from the start, MaxAttempts times in all; then, and when
\* the snapshot does not match, the reconciliation throws and its caller carries on.
AfterConflict_Forever(attempt) == Listing(attempt + 1)
AfterConflict(attempt) == IF attempt < MaxAttempts THEN Listing(attempt + 1) ELSE Idle
RefuseAppend(r) ==
  LET w == reconciler[r]
  IN /\ w.pc = "append"
     /\ Conflict(w) \/ ~SnapshotMatches(w, Distribution(w))
     /\ reconciler' = [reconciler EXCEPT ![r] = IF Conflict(w) THEN AfterConflict(w.attempt) ELSE Idle]
     /\ UNCHANGED <<finalized, settledIn, revisions, binding, payload, liveRoot, minted, claimed, deaths>>

\* The process dies, or a query fails and the reconciliation throws, between two steps.
Die(r) ==
  /\ reconciler[r].pc # "idle" /\ deaths < MaxDeaths
  /\ deaths' = deaths + 1
  /\ reconciler' = [reconciler EXCEPT ![r] = Idle]
  /\ UNCHANGED <<finalized, settledIn, revisions, binding, payload, liveRoot, minted, claimed>>

---------------------------------------------------------------------------
(* Publication and claims.                                                  *)

\* The payload route takes the newest revision as its target, then asks the chain for the
\* live root.
ReadTarget(p) ==
  /\ payload[p].pc = "idle" /\ Latest > 0
  /\ payload' = [payload EXCEPT ![p] = Payload("live", Latest, 0, 0)]
  /\ UNCHANGED <<finalized, settledIn, revisions, binding, reconciler, liveRoot, minted, claimed, deaths>>

\* The mint covers every revision between the live root and the target.
MintDelta(target, live) == Rev(target).total - Rev(live).total

\* No payload when the target is live already or is not a descendant of the live root.
ServePayload(p) ==
  /\ payload[p].pc = "live"
  /\ LET target == payload[p].target
     IN payload' = [payload EXCEPT ![p] =
          IF liveRoot < target
          THEN Payload("execute", target, liveRoot, MintDelta(target, liveRoot)) ELSE NoPayload]
  /\ UNCHANGED <<finalized, settledIn, revisions, binding, reconciler, liveRoot, minted, claimed, deaths>>

\* DistributionPublishCondition grants the execution only while the root the payload was
\* built on is live; the mint and the new root are one transaction.
PublishGranted_Shape(w) == w.target # liveRoot
PublishGranted(w) == w.expected = liveRoot /\ w.target # liveRoot

Publish(p) ==
  /\ payload[p].pc = "execute" /\ PublishGranted(payload[p])
  /\ liveRoot' = payload[p].target
  /\ minted' = minted + payload[p].mint
  /\ payload' = [payload EXCEPT ![p] = NoPayload]
  /\ UNCHANGED <<finalized, settledIn, revisions, binding, reconciler, claimed, deaths>>

\* The approver closes the page, or the chain denies the execution.
DropPayload(p) ==
  /\ payload[p].pc = "execute"
  /\ payload' = [payload EXCEPT ![p] = NoPayload]
  /\ UNCHANGED <<finalized, settledIn, revisions, binding, reconciler, liveRoot, minted, claimed, deaths>>

Total(f) == SumFunction(f)
Balance == minted - Total(claimed)

\* The claim route serves the leaf of the live root; the distributor transfers the part of
\* it not claimed before, if it holds as much.
Claim(u) ==
  LET due == Rev(liveRoot).leaves[u]
  IN /\ claimed[u] < due /\ due - claimed[u] <= Balance
     /\ claimed' = [claimed EXCEPT ![u] = due]
     /\ UNCHANGED <<finalized, settledIn, revisions, binding, reconciler, payload, liveRoot, minted, deaths>>

---------------------------------------------------------------------------
Reconcile(r) ==
  \/ ListPending(r) \/ ResolveWallets(r) \/ ReadHead(r) \/ AppendRevision(r) \/ RefuseAppend(r)

Next ==
  \/ \E e \in Epochs : Finalize(e)
  \/ \E i \in Identities, u \in Users : CreateBinding(i, u)
  \/ \E r \in Reconcilers : Trigger(r) \/ Reconcile(r) \/ Die(r)
  \/ \E p \in Approvers : ReadTarget(p) \/ ServePayload(p) \/ Publish(p) \/ DropPayload(p)
  \/ \E u \in WalletUsers : Claim(u)

Spec == Init /\ [][Next]_vars

\* Collection passes run on a schedule, and a request that did not die runs on.
CollectingSpec ==
  Spec /\ \A r \in Reconcilers : WF_vars(Trigger(r)) /\ WF_vars(Reconcile(r))

---------------------------------------------------------------------------
(* Properties.                                                              *)

\* Every revision is the complete account of what was settled so far: a leaf is the sum
\* of the liabilities settled in this or an earlier revision for its account's owner, so
\* two reconcilers that read the same pending rows cannot pay one of them twice, nor can
\* one that appends from a stale head lose what another settled.
LeavesAccountForSettled ==
  \A n \in 1..Latest, u \in WalletUsers :
    revisions[n].leaves[u] = AmountOf({l \in Liabilities : settledIn[l] \in 1..n /\ Payee(l) = u})

\* The tokens minted are exactly those the live root lets accounts claim, whichever of
\* the revisions were skipped and however many payloads were served on one root.
MintedMatchesLiveRoot ==
  minted = IF liveRoot = 0 THEN 0 ELSE Total(revisions[liveRoot].leaves)

\* A published root is never replaced by an older one, which would let accounts lose
\* claims they could make.
LiveRootAdvances == [][liveRoot' >= liveRoot]_liveRoot

\* A liability of a claimant with a wallet is settled at last, although other claimants
\* may never get one, reconcilers conflict and processes die.
ResolvableSettles ==
  \A l \in Liabilities : (l \in Owed /\ Payee(l) # None) ~> (settledIn[l] > 0)

\* What the proofs need besides the types. A revision's total is the sum of its leaves and
\* totals never fall along the chain; a payload mints the difference between its target and
\* the root it was built on; and the tokens minted are the live revision's total.
ChainOK ==
  /\ \A n \in 1..Latest : revisions[n].total = Total(revisions[n].leaves)
  /\ \A m, n \in 0..Latest : m <= n => Rev(m).total <= Rev(n).total
PayloadOK(w) ==
  w.pc = "execute" =>
    /\ w.expected < w.target
    /\ w.mint = Rev(w.target).total - Rev(w.expected).total
IInv ==
  /\ TypeOK
  /\ ChainOK
  /\ \A p \in Approvers : PayloadOK(payload[p])
  /\ minted = Rev(liveRoot).total

Payouts == INSTANCE SettlementPayouts WITH
  Accounts <- WalletUsers, owed <- Owed, paid <- claimed,
  assigned <- [l \in Liabilities |-> IF settledIn[l] > 0 THEN Payee(l) ELSE None],
  published <- {l \in Liabilities : settledIn[l] \in 1..liveRoot}

\* Through stale reads, conflicts and skipped revisions, settlement does what it promises.
ImplementsPayouts == Payouts!Spec
=============================================================================
