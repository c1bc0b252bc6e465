------------------------- MODULE SettlementsProofs -------------------------
(* Proofs about Settlements, for any number of liabilities, reconcilers and  *)
(* approvers: the tokens minted are those the live root lets accounts claim, *)
(* and the live root only advances.                                          *)
EXTENDS Settlements, SumTheorems

LEMMA RevInRevision ==
  ASSUME TypeOK, NEW n \in 0..Latest PROVE Rev(n) \in Revision
<1>1. Genesis \in Revision BY DEF Genesis, Revision
<1>2. CASE n = 0 BY <1>1, <1>2 DEF Rev
<1>3. CASE n # 0
  <2>1. n \in 1..Len(revisions) /\ revisions \in Seq(Revision)
    BY <1>3 DEF TypeOK, Latest
  <2>2. revisions[n] \in Revision BY <2>1
  <2>3. QED BY <2>2, <1>3 DEF Rev
<1>4. QED BY <1>2, <1>3

LEMMA LatestNat == ASSUME TypeOK PROVE Latest \in Nat
BY DEF TypeOK, Latest

LEMMA IdleWork == ASSUME TypeOK PROVE Idle \in ReconcilerWork /\ NoPayload \in BrowserPayload
<1>1. Unresolved \in [Liabilities -> WalletUsers \cup {None}] BY DEF Unresolved
<1>2. 0 \in 0..Latest /\ 0 \in 0..MaxAttempts BY LatestNat, SettlementsAssumption
<1>3. QED BY <1>1, <1>2 DEF Idle, Work, NoPayload, Payload, ReconcilerWork, BrowserPayload

LEMMA ListingWork ==
  ASSUME TypeOK, NEW n \in 0..MaxAttempts PROVE Listing(n) \in ReconcilerWork
<1>1. Unresolved \in [Liabilities -> WalletUsers \cup {None}] BY DEF Unresolved
<1>2. 0 \in 0..Latest BY LatestNat
<1>3. QED BY <1>1, <1>2 DEF Listing, Work, ReconcilerWork

LEMMA PayeeType ==
  ASSUME NEW l \in Liabilities PROVE Payee(l) \in WalletUsers \cup {None}
BY DEF Payee, WalletOf

(* Only an append touches the chain of revisions.                            *)
LEMMA ChainStep ==
  ASSUME [Next]_vars PROVE revisions' = revisions \/ \E r \in Reconcilers : AppendRevision(r)
BY DEF Next, vars, Finalize, CreateBinding, Trigger, Reconcile, ListPending, ResolveWallets,
       ReadHead, RefuseAppend, Die, ReadTarget, ServePayload, Publish, DropPayload, Claim

LEMMA Unchanged ==
  ASSUME revisions' = revisions, NEW n
  PROVE Latest' = Latest /\ Rev(n)' = Rev(n)
BY DEF Latest, Rev, Genesis

LEMMA AppendAddsRevision ==
  ASSUME TypeOK, NEW r \in Reconcilers, AppendRevision(r)
  PROVE /\ revisions' \in Seq(Revision)
        /\ Latest' = Latest + 1
        /\ \A n \in 0..Latest : Rev(n)' = Rev(n)
        /\ Rev(Latest)' = Distribution(reconciler[r])
        /\ Distribution(reconciler[r]) \in Revision
        /\ Distribution(reconciler[r]).total > Rev(Latest).total
        /\ Distribution(reconciler[r]).total = Total(Distribution(reconciler[r]).leaves)
<1> DEFINE d == Distribution(reconciler[r])
<1>1. /\ revisions' = Append(revisions, d)
      /\ d \in Revision /\ d.delta > 0 /\ d.total = Rev(Latest).total + d.delta
      /\ d.total = SumFunction(d.leaves)
  BY DEF AppendRevision, SnapshotMatches
<1>2. revisions \in Seq(Revision) BY DEF TypeOK
<1> HIDE DEF d
<1>3. /\ revisions' \in Seq(Revision)
      /\ Len(revisions') = Len(revisions) + 1
      /\ \A n \in 1..Len(revisions) : revisions'[n] = revisions[n]
      /\ revisions'[Len(revisions) + 1] = d
  BY <1>1, <1>2
<1>4. Latest' = Latest + 1 /\ Latest \in Nat BY <1>3, <1>2 DEF Latest
<1>5. \A n \in 0..Latest : Rev(n)' = Rev(n) BY <1>3, <1>4 DEF Rev, Latest, Genesis
<1>6. Rev(Latest)' = d BY <1>3, <1>4 DEF Rev, Latest
<1>7. Rev(Latest).total \in Nat /\ d.delta \in Nat
  <2>1. Rev(Latest) \in Revision BY RevInRevision, LatestNat
  <2>2. QED BY <2>1, <1>1 DEF Revision
<1>8. d.total > Rev(Latest).total BY <1>1, <1>7
<1>9. QED BY <1>1, <1>3, <1>4, <1>5, <1>6, <1>8 DEF d, Total
(* Revisions that exist keep their place, their totals and their leaves.     *)
LEMMA RevisionsKept ==
  ASSUME TypeOK, [Next]_vars
  PROVE /\ Latest' \in Nat /\ Latest <= Latest'
        /\ \A n \in 0..Latest : Rev(n)' = Rev(n)
<1>1. Latest \in Nat BY LatestNat
<1>2. CASE revisions' = revisions
  <2>1. Latest' = Latest BY <1>2, Unchanged
  <2>2. \A n : Rev(n)' = Rev(n) BY <1>2, Unchanged
  <2>3. QED BY <2>1, <2>2, <1>1
<1>3. ASSUME NEW r \in Reconcilers, AppendRevision(r)
      PROVE Latest' = Latest + 1 /\ \A n \in 0..Latest : Rev(n)' = Rev(n)
  BY <1>3, AppendAddsRevision
<1>4. QED BY <1>1, <1>2, <1>3, ChainStep

LEMMA ChainPreserved ==
  ASSUME TypeOK, ChainOK, [Next]_vars PROVE ChainOK'
<1>1. CASE revisions' = revisions
  <2>1. Latest' = Latest /\ \A n : Rev(n)' = Rev(n) BY <1>1, Unchanged
  <2>2. QED BY <2>1, <1>1 DEF ChainOK, Total
<1>2. ASSUME NEW r \in Reconcilers, AppendRevision(r) PROVE ChainOK'
  <2> DEFINE d == Distribution(reconciler[r])
  <2>1. /\ Latest \in Nat /\ Latest' = Latest + 1
        /\ \A n \in 0..Latest : Rev(n)' = Rev(n)
        /\ Rev(Latest)' = d /\ d.total > Rev(Latest).total
        /\ d.total = Total(d.leaves) /\ d \in Revision
    BY <1>2, AppendAddsRevision, LatestNat
  <2> HIDE DEF d
  <2>2. \A n \in 1..Latest : revisions'[n] = revisions[n] /\ revisions[n] = Rev(n)
    BY <2>1 DEF Rev
  <2>3. revisions'[Latest + 1] = d BY <2>1 DEF Rev
  <2>4. \A n \in 1..Latest' : revisions'[n].total = Total(revisions'[n].leaves)
    <3> TAKE n \in 1..Latest'
    <3>1. CASE n = Latest + 1 BY <3>1, <2>3, <2>1
    <3>2. CASE n \in 1..Latest BY <3>2, <2>2 DEF ChainOK
    <3>3. QED BY <3>1, <3>2, <2>1
  <2>5. \A m, n \in 0..Latest' : m <= n => Rev(m)'.total <= Rev(n)'.total
    <3> TAKE m, n \in 0..Latest'
    <3>1. \A k \in 0..Latest : Rev(k).total \in Nat BY RevInRevision DEF Revision
    <3>2. Rev(Latest + 1)' = Rev(Latest + 1)' OBVIOUS
    <3>3. d.total \in Nat BY <2>1 DEF Revision
    <3>4. \A k \in 0..Latest : Rev(k).total <= Rev(Latest).total BY <2>1 DEF ChainOK
    <3>5. CASE n \in 0..Latest /\ m \in 0..Latest BY <3>5, <2>1 DEF ChainOK
    <3>6. CASE n = Latest' /\ m \in 0..Latest
      <4>1. Rev(m)' = Rev(m) /\ Rev(n)' = d BY <3>6, <2>1
      <4>2. Rev(m).total <= d.total BY <3>1, <3>3, <3>4, <3>6, <2>1
      <4>3. QED BY <4>1, <4>2
    <3>7. CASE n = Latest' /\ m = Latest' BY <3>7, <3>3, <2>1
    <3>8. QED BY <3>5, <3>6, <3>7, <2>1
  <2>6. QED BY <2>4, <2>5 DEF ChainOK, Total
<1>3. QED BY <1>1, <1>2, ChainStep
LEMMA WorkKept ==
  ASSUME TypeOK, [Next]_vars
  PROVE ReconcilerWork \subseteq ReconcilerWork' /\ BrowserPayload \subseteq BrowserPayload'
<1>1. 0..Latest \subseteq 0..Latest' BY RevisionsKept, LatestNat
<1>2. QED BY <1>1 DEF ReconcilerWork, BrowserPayload

LEMMA TypeInit == Init => TypeOK /\ Latest = 0
<1> SUFFICES ASSUME Init PROVE TypeOK /\ Latest = 0 OBVIOUS
<1> USE SettlementsAssumption DEF Init
<1>1. revisions \in Seq(Revision) /\ Latest = 0 BY DEF Latest
<1>2. Unresolved \in [Liabilities -> WalletUsers \cup {None}] BY DEF Unresolved
<1>3. Idle \in ReconcilerWork BY <1>1, <1>2 DEF Idle, Work, ReconcilerWork
<1>4. NoPayload \in BrowserPayload BY <1>1 DEF NoPayload, Payload, BrowserPayload
<1>5. QED BY <1>1, <1>3, <1>4 DEF TypeOK

LEMMA ReconcilerType ==
  ASSUME TypeOK, [Next]_vars PROVE reconciler' \in [Reconcilers -> ReconcilerWork']
<1>i. Idle \in ReconcilerWork BY IdleWork
<1>k. ReconcilerWork \subseteq ReconcilerWork' BY WorkKept
<1>s. ASSUME NEW r \in Reconcilers, NEW w \in ReconcilerWork,
             reconciler' = [reconciler EXCEPT ![r] = w]
      PROVE reconciler' \in [Reconcilers -> ReconcilerWork']
  BY <1>s, <1>k DEF TypeOK
<1>r. ASSUME NEW r \in Reconcilers
      PROVE /\ reconciler[r] \in ReconcilerWork
            /\ reconciler[r].attempt \in 0..MaxAttempts
            /\ reconciler[r].pending \in SUBSET Liabilities
            /\ reconciler[r].payee \in [Liabilities -> WalletUsers \cup {None}]
  BY <1>r DEF TypeOK, ReconcilerWork
<1>l. 0 \in 0..Latest /\ Latest \in 0..Latest BY LatestNat
<1>1. ASSUME NEW r \in Reconcilers, Trigger(r) PROVE reconciler' \in [Reconcilers -> ReconcilerWork']
  <2>1. Listing(1) \in ReconcilerWork BY ListingWork, SettlementsAssumption
  <2>2. QED BY <2>1, <1>1, <1>s DEF Trigger
<1>2. ASSUME NEW r \in Reconcilers, ListPending(r) PROVE reconciler' \in [Reconcilers -> ReconcilerWork']
  <2> DEFINE w == Work("resolve", reconciler[r].attempt, Pending, Unresolved, 0)
  <2>1. Unresolved \in [Liabilities -> WalletUsers \cup {None}] BY DEF Unresolved
  <2>2. w \in ReconcilerWork BY <2>1, <1>r, <1>l DEF Work, ReconcilerWork, Pending, Owed
  <2>3. reconciler' = [reconciler EXCEPT ![r] = IF Pending = {} THEN Idle ELSE w]
    BY <1>2 DEF ListPending
  <2>4. QED BY <2>2, <2>3, <1>i, <1>s
<1>3. ASSUME NEW r \in Reconcilers, ResolveWallets(r) PROVE reconciler' \in [Reconcilers -> ReconcilerWork']
  <2> DEFINE payee == [l \in Liabilities |-> IF l \in reconciler[r].pending THEN Payee(l) ELSE None]
             w == Work("head", reconciler[r].attempt, reconciler[r].pending, payee, 0)
  <2>1. payee \in [Liabilities -> WalletUsers \cup {None}] BY PayeeType
  <2>2. w \in ReconcilerWork BY <2>1, <1>r, <1>l DEF Work, ReconcilerWork
  <2>3. reconciler' = [reconciler EXCEPT ![r] = IF Deferred(reconciler[r].pending, payee) THEN Idle ELSE w]
    BY <1>3 DEF ResolveWallets
  <2>4. QED BY <2>2, <2>3, <1>i, <1>s
<1>4. ASSUME NEW r \in Reconcilers, ReadHead(r) PROVE reconciler' \in [Reconcilers -> ReconcilerWork']
  <2> DEFINE w == Work("append", reconciler[r].attempt, reconciler[r].pending, reconciler[r].payee, Latest)
  <2>1. w \in ReconcilerWork BY <1>r, <1>l DEF Work, ReconcilerWork
  <2>2. reconciler' = [reconciler EXCEPT ![r] = w] BY <1>4 DEF ReadHead
  <2>3. QED BY <2>1, <2>2, <1>s
<1>5. ASSUME NEW r \in Reconcilers, AppendRevision(r) \/ Die(r) PROVE reconciler' \in [Reconcilers -> ReconcilerWork']
  <2>1. reconciler' = [reconciler EXCEPT ![r] = Idle] BY <1>5 DEF AppendRevision, Die
  <2>2. QED BY <2>1, <1>i, <1>s
<1>6. ASSUME NEW r \in Reconcilers, RefuseAppend(r) PROVE reconciler' \in [Reconcilers -> ReconcilerWork']
  <2>1. PICK w : w = AfterConflict(reconciler[r].attempt) OBVIOUS
  <2>2. w \in ReconcilerWork
    <3>1. CASE reconciler[r].attempt < MaxAttempts
      <4>1. reconciler[r].attempt + 1 \in 0..MaxAttempts BY <3>1, <1>r, SettlementsAssumption
      <4>2. QED BY <4>1, <3>1, <2>1, ListingWork DEF AfterConflict
    <3>2. CASE ~(reconciler[r].attempt < MaxAttempts) BY <3>2, <2>1, <1>i DEF AfterConflict
    <3>3. QED BY <3>1, <3>2
  <2>3. reconciler' = [reconciler EXCEPT ![r] = IF Conflict(reconciler[r]) THEN w ELSE Idle]
    BY <1>6, <2>1 DEF RefuseAppend
  <2>4. QED BY <2>2, <2>3, <1>i, <1>s
<1>7. CASE reconciler' = reconciler BY <1>7, <1>k DEF TypeOK
<1>8. QED
  BY <1>1, <1>2, <1>3, <1>4, <1>5, <1>6, <1>7
  DEF Next, vars, Finalize, CreateBinding, Reconcile, ReadTarget, ServePayload, Publish, DropPayload, Claim
LEMMA PayloadStep ==
  ASSUME IInv, [Next]_vars
  PROVE payload' \in [Approvers -> BrowserPayload'] /\ \A p \in Approvers : PayloadOK(payload[p])'
<1>t. TypeOK /\ ChainOK BY DEF IInv
<1>k. /\ BrowserPayload \subseteq BrowserPayload'
      /\ \A n \in 0..Latest : Rev(n)' = Rev(n)
  BY <1>t, WorkKept, RevisionsKept
<1>p. ASSUME NEW p \in Approvers
      PROVE /\ payload[p] \in BrowserPayload /\ PayloadOK(payload[p])
            /\ payload[p].target \in 0..Latest /\ payload[p].expected \in 0..Latest
  BY <1>p, <1>t DEF IInv, TypeOK, BrowserPayload
<1>o. \A p \in Approvers : payload'[p] = payload[p] =>
        payload'[p] \in BrowserPayload' /\ PayloadOK(payload[p])'
  BY <1>p, <1>k DEF PayloadOK
<1>s. ASSUME NEW p \in Approvers, NEW w \in BrowserPayload, PayloadOK(w),
             payload' = [payload EXCEPT ![p] = w]
      PROVE /\ payload' \in [Approvers -> BrowserPayload']
            /\ \A q \in Approvers : PayloadOK(payload[q])'
  <2>1. payload \in [Approvers -> BrowserPayload] BY <1>t DEF TypeOK
  <2>2. payload' \in [Approvers -> BrowserPayload'] BY <2>1, <1>s, <1>k
  <2>3. w.target \in 0..Latest /\ w.expected \in 0..Latest BY DEF BrowserPayload
  <2>4. payload'[p] = w BY <2>1, <1>s
  <2>5. PayloadOK(payload[p])' BY <2>3, <2>4, <1>s, <1>k DEF PayloadOK
  <2>6. \A q \in Approvers : q # p => payload'[q] = payload[q] BY <2>1, <1>s
  <2>7. QED BY <2>2, <2>5, <2>6, <1>o
<1>n. NoPayload \in BrowserPayload /\ PayloadOK(NoPayload)
  BY IdleWork, <1>t DEF NoPayload, Payload, PayloadOK
<1>l. 0 \in 0..Latest /\ Latest \in 0..Latest BY LatestNat, <1>t
<1>1. ASSUME NEW p \in Approvers, ReadTarget(p)
      PROVE payload' \in [Approvers -> BrowserPayload'] /\ \A q \in Approvers : PayloadOK(payload[q])'
  <2> DEFINE w == Payload("live", Latest, 0, 0)
  <2>1. w \in BrowserPayload /\ PayloadOK(w) BY <1>l DEF Payload, BrowserPayload, PayloadOK
  <2>2. payload' = [payload EXCEPT ![p] = w] BY <1>1 DEF ReadTarget
  <2>3. QED BY <2>1, <2>2, <1>s
<1>2. ASSUME NEW p \in Approvers, ServePayload(p)
      PROVE payload' \in [Approvers -> BrowserPayload'] /\ \A q \in Approvers : PayloadOK(payload[q])'
  <2> DEFINE target == payload[p].target
             w == Payload("execute", target, liveRoot, MintDelta(target, liveRoot))
  <2>1. payload' = [payload EXCEPT ![p] = IF liveRoot < target THEN w ELSE NoPayload]
    BY <1>2 DEF ServePayload
  <2>2. ASSUME liveRoot < target PROVE w \in BrowserPayload /\ PayloadOK(w)
    <3>1. target \in 0..Latest /\ liveRoot \in 0..Latest BY <1>p, <1>t DEF TypeOK
    <3>2. Rev(liveRoot).total <= Rev(target).total BY <3>1, <2>2, <1>t, LatestNat DEF ChainOK
    <3>3. Rev(liveRoot).total \in Nat /\ Rev(target).total \in Nat
      BY <3>1, <1>t, RevInRevision DEF Revision
    <3>4. MintDelta(target, liveRoot) \in Nat BY <3>2, <3>3 DEF MintDelta
    <3>5. w \in BrowserPayload BY <3>1, <3>4 DEF Payload, BrowserPayload
    <3>6. PayloadOK(w) BY <2>2 DEF Payload, PayloadOK, MintDelta
    <3>7. QED BY <3>5, <3>6
  <2> HIDE DEF w
  <2>3. QED BY <2>1, <2>2, <1>n, <1>s
<1>3. ASSUME NEW p \in Approvers, Publish(p) \/ DropPayload(p)
      PROVE payload' \in [Approvers -> BrowserPayload'] /\ \A q \in Approvers : PayloadOK(payload[q])'
  BY <1>3, <1>n, <1>s DEF Publish, DropPayload
<1>4. CASE payload' = payload BY <1>4, <1>o, <1>t DEF TypeOK
<1>5. QED
  BY <1>1, <1>2, <1>3, <1>4
  DEF Next, vars, Finalize, CreateBinding, Trigger, Reconcile, ListPending, ResolveWallets, ReadHead,
      AppendRevision, RefuseAppend, Die, Claim

(* Only a granted publication moves the live root and mints, and it mints    *)
(* the difference of the two totals.                                         *)
LEMMA MintStep ==
  ASSUME IInv, [Next]_vars
  PROVE /\ liveRoot' \in 0..Latest' /\ liveRoot' >= liveRoot
        /\ minted' \in Nat /\ minted' = Rev(liveRoot)'.total
<1>t. /\ TypeOK /\ Latest \in Nat /\ liveRoot \in 0..Latest
      /\ minted \in Nat /\ minted = Rev(liveRoot).total
  BY LatestNat DEF IInv, TypeOK
<1>k. Latest' \in Nat /\ Latest <= Latest' /\ \A n \in 0..Latest : Rev(n)' = Rev(n)
  BY <1>t, RevisionsKept
<1>r. ASSUME NEW n \in 0..Latest, liveRoot' = n PROVE Rev(liveRoot)' = Rev(n)
  <2>1. Rev(liveRoot)' = Rev(n)' BY <1>r DEF Rev
  <2>2. QED BY <2>1, <1>k
<1>1. ASSUME NEW p \in Approvers, Publish(p)
      PROVE /\ liveRoot' \in 0..Latest /\ liveRoot' >= liveRoot
            /\ minted' \in Nat /\ minted' = Rev(liveRoot)'.total
  <2>1. /\ payload[p].pc = "execute" /\ PayloadOK(payload[p])
        /\ payload[p].target \in 0..Latest /\ payload[p].mint \in Nat
        /\ payload[p].expected = liveRoot
        /\ liveRoot' = payload[p].target /\ minted' = minted + payload[p].mint
    BY <1>1 DEF IInv, TypeOK, BrowserPayload, Publish, PublishGranted
  <2>2. /\ liveRoot < payload[p].target
        /\ payload[p].mint = Rev(payload[p].target).total - Rev(liveRoot).total
    BY <2>1 DEF PayloadOK
  <2>3. Rev(payload[p].target).total \in Nat BY <2>1, <1>t, RevInRevision DEF Revision
  <2>4. Rev(liveRoot)' = Rev(payload[p].target) BY <2>1, <1>r
  <2>5. QED BY <2>1, <2>2, <2>3, <2>4, <1>t
<1>2. CASE liveRoot' = liveRoot /\ minted' = minted
  <2>1. Rev(liveRoot)' = Rev(liveRoot) BY <1>2, <1>r, <1>t
  <2>2. QED BY <2>1, <1>2, <1>k, <1>t
<1>3. (\E p \in Approvers : Publish(p)) \/ (liveRoot' = liveRoot /\ minted' = minted)
  BY DEF Next, vars, Finalize, CreateBinding, Trigger, Reconcile, ListPending, ResolveWallets, ReadHead,
         AppendRevision, RefuseAppend, Die, ReadTarget, ServePayload, DropPayload, Claim
<1>4. 0..Latest \subseteq 0..Latest' BY <1>k, <1>t
<1>5. liveRoot \in Nat /\ liveRoot >= liveRoot BY <1>t
<1>6. CASE \E p \in Approvers : Publish(p) BY <1>6, <1>1, <1>4
<1>7. CASE liveRoot' = liveRoot /\ minted' = minted BY <1>7, <1>2, <1>4, <1>5, <1>t
<1>8. QED BY <1>3, <1>6, <1>7

LEMMA TypeStep == ASSUME IInv, [Next]_vars PROVE TypeOK'
<1>t. TypeOK BY DEF IInv
<1>k. Latest \in Nat /\ Latest' \in Nat /\ Latest <= Latest' BY <1>t, LatestNat, RevisionsKept
<1>1. reconciler' \in [Reconcilers -> ReconcilerWork'] BY <1>t, ReconcilerType
<1>2. payload' \in [Approvers -> BrowserPayload'] BY PayloadStep
<1>3. liveRoot' \in 0..Latest' /\ minted' \in Nat BY MintStep
<1>4. revisions' \in Seq(Revision)
  <2>1. CASE revisions' = revisions BY <2>1, <1>t DEF TypeOK
  <2>2. ASSUME NEW r \in Reconcilers, AppendRevision(r) PROVE revisions' \in Seq(Revision)
    BY <2>2, <1>t, AppendAddsRevision
  <2>3. QED BY <2>1, <2>2, ChainStep
<1>5. settledIn' \in [Liabilities -> 0..Latest']
  <2>1. CASE settledIn' = settledIn BY <2>1, <1>t, <1>k DEF TypeOK
  <2>2. ASSUME NEW r \in Reconcilers, AppendRevision(r) PROVE settledIn' \in [Liabilities -> 0..Latest']
    <3>1. Latest' = Latest + 1 BY <2>2, <1>t, AppendAddsRevision
    <3>2. settledIn' = [l \in Liabilities |-> IF l \in Resolved(reconciler[r]) THEN Latest + 1 ELSE settledIn[l]]
      BY <2>2 DEF AppendRevision
    <3>3. QED BY <3>1, <3>2, <1>k, <1>t DEF TypeOK
  <2>3. QED
    BY <2>1, <2>2
    DEF Next, vars, Finalize, CreateBinding, Trigger, Reconcile, ListPending, ResolveWallets, ReadHead,
        RefuseAppend, Die, ReadTarget, ServePayload, Publish, DropPayload, Claim
<1>6. claimed' \in [WalletUsers -> Nat]
  <2>1. ASSUME NEW u \in WalletUsers, Claim(u) PROVE claimed' \in [WalletUsers -> Nat]
    <3>1. Rev(liveRoot).leaves[u] \in Nat BY <1>t, RevInRevision DEF TypeOK, Revision
    <3>2. QED BY <3>1, <2>1, <1>t DEF TypeOK, Claim
  <2>2. CASE claimed' = claimed BY <2>2, <1>t DEF TypeOK
  <2>3. QED
    BY <2>1, <2>2
    DEF Next, vars, Finalize, CreateBinding, Trigger, Reconcile, ListPending, ResolveWallets, ReadHead,
        AppendRevision, RefuseAppend, Die, ReadTarget, ServePayload, Publish, DropPayload
<1>7. finalized' \subseteq Epochs
  <2>1. finalized' = finalized \/ \E e \in Epochs : finalized' = finalized \cup {e}
    BY DEF Next, vars, Finalize, CreateBinding, Trigger, Reconcile, ListPending, ResolveWallets, ReadHead,
           AppendRevision, RefuseAppend, Die, ReadTarget, ServePayload, Publish, DropPayload, Claim
  <2>2. QED BY <2>1, <1>t DEF TypeOK
<1>8. binding' \in [Identities -> Users \cup {None}]
  <2>1. \/ binding' = binding
        \/ \E i \in Identities, u \in Users : binding' = [binding EXCEPT ![i] = u]
    BY DEF Next, vars, Finalize, CreateBinding, Trigger, Reconcile, ListPending, ResolveWallets, ReadHead,
           AppendRevision, RefuseAppend, Die, ReadTarget, ServePayload, Publish, DropPayload, Claim
  <2>2. QED BY <2>1, <1>t DEF TypeOK
<1>9. deaths' \in 0..MaxDeaths
  <2>1. deaths' = deaths \/ (deaths < MaxDeaths /\ deaths' = deaths + 1)
    BY DEF Next, vars, Finalize, CreateBinding, Trigger, Reconcile, ListPending, ResolveWallets, ReadHead,
           AppendRevision, RefuseAppend, Die, ReadTarget, ServePayload, Publish, DropPayload, Claim
  <2>2. QED BY <2>1, <1>t, SettlementsAssumption DEF TypeOK
<1>10. QED BY <1>1, <1>2, <1>3, <1>4, <1>5, <1>6, <1>7, <1>8, <1>9 DEF TypeOK

LEMMA InvInit == Init => IInv
<1> SUFFICES ASSUME Init PROVE IInv OBVIOUS
<1>1. TypeOK /\ Latest = 0 BY TypeInit
<1>2. Rev(0).total = 0 BY DEF Rev, Genesis
<1>3. ChainOK BY <1>1, <1>2 DEF ChainOK
<1>4. \A p \in Approvers : PayloadOK(payload[p]) BY DEF Init, PayloadOK, NoPayload, Payload
<1>5. minted = Rev(liveRoot).total BY <1>2 DEF Init
<1>6. QED BY <1>1, <1>3, <1>4, <1>5 DEF IInv

LEMMA InvStep == IInv /\ [Next]_vars => IInv'
<1> SUFFICES ASSUME IInv, [Next]_vars PROVE IInv' OBVIOUS
<1>1. TypeOK' BY TypeStep
<1>2. ChainOK' BY ChainPreserved DEF IInv
<1>3. (\A p \in Approvers : PayloadOK(payload[p]))' BY PayloadStep
<1>4. (minted = Rev(liveRoot).total)' BY MintStep
<1>5. QED BY <1>1, <1>2, <1>3, <1>4 DEF IInv

(* The inductive invariant holds in every reachable state.                   *)
THEOREM Invariance == Spec => []IInv
BY InvInit, InvStep, PTL DEF Spec

(* Every state is well typed: no amount is negative, no revision, payload or *)
(* liability names a revision that does not exist.                           *)
THEOREM TypeCorrect == Spec => []TypeOK
<1>1. IInv => TypeOK BY DEF IInv
<1>2. QED BY <1>1, Invariance, PTL

(* However many approvers hold payloads, for however many revisions, the     *)
(* tokens minted are exactly those the live root lets accounts claim.        *)
THEOREM MintsMatch == Spec => []MintedMatchesLiveRoot
<1>1. ASSUME IInv PROVE MintedMatchesLiveRoot
  <2>1. CASE liveRoot = 0 BY <2>1, <1>1 DEF IInv, MintedMatchesLiveRoot, Rev, Genesis
  <2>2. CASE liveRoot # 0
    <3>1. liveRoot \in 1..Latest BY <2>2, <1>1, LatestNat DEF IInv, TypeOK
    <3>2. QED BY <3>1, <2>2, <1>1 DEF IInv, ChainOK, MintedMatchesLiveRoot, Rev
  <2>3. QED BY <2>1, <2>2
<1>2. QED BY <1>1, Invariance, PTL

(* A stale payload never takes the distributor back to an older root.        *)
THEOREM RootAdvances == Spec => LiveRootAdvances
<1>1. IInv /\ [Next]_vars => [liveRoot' >= liveRoot]_liveRoot BY MintStep
<1>2. QED BY <1>1, Invariance, PTL DEF Spec, LiveRootAdvances

---------------------------------------------------------------------------
(* The account of what was settled.                                          *)

Settled(n) == {l \in Liabilities : settledIn[l] \in 1..n}
SettledFor(n, u) == {l \in Liabilities : settledIn[l] \in 1..n /\ Payee(l) = u}

(* What a reconciler lists is owed; what is settled is owed to somebody with *)
(* a wallet; every revision, the genesis included, accounts for it.          *)
Account ==
  /\ \A r \in Reconcilers : reconciler[r].pending \subseteq Owed
  /\ \A l \in Liabilities : settledIn[l] > 0 => l \in Owed /\ Payee(l) # None
  /\ \A n \in 0..Latest, u \in WalletUsers : Rev(n).leaves[u] = AmountOf(SettledFor(n, u))

LEMMA AmountIs ==
  ASSUME NEW S \in SUBSET Liabilities
  PROVE  /\ IsFiniteSet(S) /\ Integral(Amount, S)
         /\ AmountOf(S) = Sum(Amount, S) /\ AmountOf(S) \in Nat
<1>1. IsFiniteSet(S) BY SettlementsAssumption, FS_Subset
<1>2. \A l \in S : Amount[l] \in Nat BY SettlementsAssumption
<1>3. AmountOf(S) = Sum(Amount, S) BY DEF AmountOf, Sum
<1>4. QED BY <1>1, <1>2, <1>3, SumNat DEF Integral

LEMMA AmountUnion ==
  ASSUME NEW S \in SUBSET Liabilities, NEW T \in SUBSET Liabilities, S \cap T = {}
  PROVE  AmountOf(S \cup T) = AmountOf(S) + AmountOf(T)
<1>1. Sum(Amount, S \cup T) = Sum(Amount, S) + Sum(Amount, T) BY AmountIs, SumUnion
<1>2. S \cup T \in SUBSET Liabilities OBVIOUS
<1>3. QED BY <1>1, <1>2, AmountIs

(* A claimant who has a wallet keeps it: a binding is made once.             *)
LEMMA PayeeKept ==
  ASSUME TypeOK, [Next]_vars, NEW l \in Liabilities, Payee(l) # None
  PROVE  Payee(l)' = Payee(l)
<1>1. \/ binding' = binding
      \/ \E i \in Identities, u \in Users : binding[i] = None /\ binding' = [binding EXCEPT ![i] = u]
  BY DEF Next, vars, Finalize, CreateBinding, Trigger, Reconcile, ListPending, ResolveWallets, ReadHead,
         AppendRevision, RefuseAppend, Die, ReadTarget, ServePayload, Publish, DropPayload, Claim
<1>2. None \notin WalletUsers /\ binding \in [Identities -> Users \cup {None}]
  BY SettlementsAssumption DEF TypeOK
<1>3. UserOf(Claimant[l]) \in WalletUsers BY DEF Payee, WalletOf
<1>4. UserOf(Claimant[l])' = UserOf(Claimant[l]) BY <1>1, <1>2, <1>3 DEF UserOf
<1>5. QED BY <1>4 DEF Payee, WalletOf

LEMMA OwedKept ==
  ASSUME [Next]_vars
  PROVE  Owed \subseteq Owed'
<1>1. finalized \subseteq finalized'
  BY DEF Next, vars, Finalize, CreateBinding, Trigger, Reconcile, ListPending, ResolveWallets, ReadHead,
         AppendRevision, RefuseAppend, Die, ReadTarget, ServePayload, Publish, DropPayload, Claim
<1>2. QED BY <1>1 DEF Owed

LEMMA PendingStep ==
  ASSUME TypeOK, Account, [Next]_vars
  PROVE  \A r \in Reconcilers : reconciler'[r].pending \subseteq Owed'
<1>1. ASSUME NEW r \in Reconcilers, NEW w, reconciler' = [reconciler EXCEPT ![r] = w],
             w.pending \subseteq Owed
      PROVE  \A q \in Reconcilers : reconciler'[q].pending \subseteq Owed
  BY <1>1 DEF Account, TypeOK
<1>2. Idle.pending = {} /\ \A n : Listing(n).pending = {} BY DEF Idle, Listing, Work
<1>3. \A r \in Reconcilers : reconciler[r].pending \subseteq Owed BY DEF Account
<1>4. ASSUME NEW r \in Reconcilers, Trigger(r) \/ Reconcile(r) \/ Die(r)
      PROVE  \E w : reconciler' = [reconciler EXCEPT ![r] = w] /\ w.pending \subseteq Owed
  <2>1. CASE Trigger(r) BY <2>1, <1>2 DEF Trigger
  <2>2. CASE ListPending(r)
    <3> DEFINE w == IF Pending = {} THEN Idle ELSE Work("resolve", reconciler[r].attempt, Pending, Unresolved, 0)
    <3>1. w.pending \subseteq Owed BY <1>2 DEF Pending, Work
    <3>2. reconciler' = [reconciler EXCEPT ![r] = w] BY <2>2 DEF ListPending
    <3> HIDE DEF w
    <3>3. QED BY <3>1, <3>2
  <2>3. CASE ResolveWallets(r)
    <3> DEFINE payee == [l \in Liabilities |-> IF l \in reconciler[r].pending THEN Payee(l) ELSE None]
               w == IF Deferred(reconciler[r].pending, payee) THEN Idle
                    ELSE Work("head", reconciler[r].attempt, reconciler[r].pending, payee, 0)
    <3>1. w.pending \subseteq Owed
      <4> HIDE DEF payee
      <4>1. QED BY <1>2, <1>3 DEF Work
    <3>2. reconciler' = [reconciler EXCEPT ![r] = w] BY <2>3 DEF ResolveWallets
    <3> HIDE DEF w
    <3>3. QED BY <3>1, <3>2
  <2>4. CASE ReadHead(r)
    <3> DEFINE w == Work("append", reconciler[r].attempt, reconciler[r].pending, reconciler[r].payee, Latest)
    <3>1. w.pending \subseteq Owed BY <1>3 DEF Work
    <3>2. reconciler' = [reconciler EXCEPT ![r] = w] BY <2>4 DEF ReadHead
    <3> HIDE DEF w
    <3>3. QED BY <3>1, <3>2
  <2>5. CASE AppendRevision(r) BY <2>5, <1>2 DEF AppendRevision
  <2>6. CASE RefuseAppend(r) BY <2>6, <1>2 DEF RefuseAppend, AfterConflict
  <2>7. CASE Die(r) BY <2>7, <1>2 DEF Die
  <2>8. QED BY <1>4, <2>1, <2>2, <2>3, <2>4, <2>5, <2>6, <2>7 DEF Reconcile
<1>5. (\E r \in Reconcilers : Trigger(r) \/ Reconcile(r) \/ Die(r)) \/ reconciler' = reconciler
  BY DEF Next, vars, Finalize, CreateBinding, ReadTarget, ServePayload, Publish, DropPayload, Claim
<1>6. \A r \in Reconcilers : reconciler'[r].pending \subseteq Owed BY <1>1, <1>3, <1>4, <1>5
<1>7. QED BY <1>6, OwedKept

(* What an append settles: owed, with a wallet, and for the first time.      *)
LEMMA AppendSettles ==
  ASSUME TypeOK, Account, NEW r \in Reconcilers, AppendRevision(r)
  PROVE  LET S == Resolved(reconciler[r]) IN
         /\ S \subseteq Owed
         /\ \A l \in S : settledIn[l] = 0 /\ Payee(l) \in WalletUsers
         /\ settledIn' = [l \in Liabilities |-> IF l \in S THEN Latest + 1 ELSE settledIn[l]]
         /\ \A l \in Liabilities : Payee(l)' = Payee(l)
         /\ Owed' = Owed /\ liveRoot' = liveRoot /\ minted' = minted /\ claimed' = claimed
         /\ \A u \in WalletUsers :
              Distribution(reconciler[r]).leaves[u] =
                Rev(Latest).leaves[u] + AmountOf({l \in S : Payee(l) = u})
<1> DEFINE w == reconciler[r]
           S == Resolved(w)
<1>1. w.pending \subseteq Owed /\ w.pending \subseteq Liabilities BY DEF Account, Owed
<1>2. S \subseteq w.pending /\ \A l \in S : w.payee[l] # None BY DEF Resolved
<1>3. ~Conflict(w) /\ settledIn' = [l \in Liabilities |-> IF l \in S THEN Latest + 1 ELSE settledIn[l]]
  BY DEF AppendRevision
<1>4. /\ \A l \in S : settledIn[l] = 0 /\ w.payee[l] = Payee(l)
      /\ w.head = Latest
  BY <1>3 DEF Conflict, StillPending, StillOwned, HeadUnmoved
<1>5. \A l \in S : Payee(l) \in WalletUsers BY <1>1, <1>2, <1>4, PayeeType
<1>6. binding' = binding /\ finalized' = finalized /\ liveRoot' = liveRoot /\ minted' = minted /\ claimed' = claimed
  BY DEF AppendRevision
<1>7. Owed' = Owed /\ \A l \in Liabilities : Payee(l)' = Payee(l)
  BY <1>6 DEF Owed, Payee, WalletOf, UserOf
<1>8. \A u \in WalletUsers : {l \in S : w.payee[l] = u} = {l \in S : Payee(l) = u} BY <1>4
<1>9. \A u \in WalletUsers :
        Distribution(w).leaves[u] = Rev(w.head).leaves[u] + AmountOf({l \in S : w.payee[l] = u})
  BY DEF Distribution, CumulativeLeaves
<1> HIDE DEF S, w
<1>10. \A u \in WalletUsers :
         Distribution(w).leaves[u] = Rev(Latest).leaves[u] + AmountOf({l \in S : Payee(l) = u})
  BY <1>4, <1>8, <1>9
<1>11. QED BY <1>1, <1>2, <1>3, <1>4, <1>5, <1>6, <1>7, <1>10 DEF S, w

LEMMA SettledStep ==
  ASSUME TypeOK, Account, [Next]_vars
  PROVE  \/ settledIn' = settledIn /\ revisions' = revisions
         \/ \E r \in Reconcilers : AppendRevision(r)
BY DEF Next, vars, Finalize, CreateBinding, Trigger, Reconcile, ListPending, ResolveWallets,
       ReadHead, RefuseAppend, Die, ReadTarget, ServePayload, Publish, DropPayload, Claim

LEMMA AccountStep ==
  ASSUME TypeOK, Account, [Next]_vars
  PROVE  Account'
<1>1. \A r \in Reconcilers : reconciler'[r].pending \subseteq Owed' BY PendingStep
<1>l. Latest \in Nat /\ settledIn \in [Liabilities -> 0..Latest] BY LatestNat DEF TypeOK
<1>2. CASE settledIn' = settledIn /\ revisions' = revisions
  <2>1. \A l \in Liabilities : settledIn'[l] > 0 => l \in Owed' /\ Payee(l)' # None /\ Payee(l)' = Payee(l)
    BY <1>2, OwedKept, PayeeKept DEF Account
  <2>2. Latest' = Latest /\ \A n : Rev(n)' = Rev(n) BY <1>2, Unchanged
  <2>3. \A n \in 0..Latest, u \in WalletUsers : SettledFor(n, u)' = SettledFor(n, u)
    <3> SUFFICES ASSUME NEW n \in 0..Latest, NEW u \in WalletUsers, NEW l \in Liabilities
                 PROVE  (settledIn'[l] \in 1..n /\ Payee(l)' = u) <=> (settledIn[l] \in 1..n /\ Payee(l) = u)
      BY DEF SettledFor
    <3>1. CASE settledIn[l] > 0 BY <3>1, <1>2, <2>1
    <3>2. CASE ~(settledIn[l] > 0) BY <3>2, <1>2, <1>l
    <3>3. QED BY <3>1, <3>2
  <2>4. \A n \in 0..Latest', u \in WalletUsers : Rev(n)'.leaves[u] = AmountOf(SettledFor(n, u))'
    BY <2>2, <2>3 DEF Account, AmountOf
  <2>5. QED BY <1>1, <2>1, <2>4 DEF Account
<1>3. ASSUME NEW r \in Reconcilers, AppendRevision(r) PROVE Account'
  <2> DEFINE S == Resolved(reconciler[r])
             d == Distribution(reconciler[r])
  <2>1. /\ S \subseteq Owed /\ \A l \in S : settledIn[l] = 0 /\ Payee(l) \in WalletUsers
        /\ settledIn' = [l \in Liabilities |-> IF l \in S THEN Latest + 1 ELSE settledIn[l]]
        /\ \A l \in Liabilities : Payee(l)' = Payee(l)
        /\ Owed' = Owed
        /\ \A u \in WalletUsers : d.leaves[u] = Rev(Latest).leaves[u] + AmountOf({l \in S : Payee(l) = u})
    BY <1>3, AppendSettles
  <2>2. Latest' = Latest + 1 /\ (\A n \in 0..Latest : Rev(n)' = Rev(n)) /\ Rev(Latest)' = d
    BY <1>3, AppendAddsRevision
  <2> HIDE DEF S, d
  <2>3. \A l \in Liabilities : settledIn'[l] > 0 => l \in Owed' /\ Payee(l)' # None
    BY <2>1, SettlementsAssumption DEF Account
  <2>4. \A n \in 0..Latest, u \in WalletUsers : SettledFor(n, u)' = SettledFor(n, u)
    BY <2>1, <1>l DEF SettledFor
  <2>m. PICK m : m = Latest + 1 OBVIOUS
  <2>5. \A u \in WalletUsers :
          /\ SettledFor(m, u)' = SettledFor(Latest, u) \cup {l \in S : Payee(l) = u}
          /\ SettledFor(Latest, u) \cap {l \in S : Payee(l) = u} = {}
    BY <2>1, <2>m, <1>l DEF SettledFor, Owed
  <2>6. \A n \in 0..Latest, u \in WalletUsers : Rev(n)'.leaves[u] = AmountOf(SettledFor(n, u)')
    BY <2>2, <2>4 DEF Account
  <2>7. ASSUME NEW u \in WalletUsers PROVE d.leaves[u] = AmountOf(SettledFor(m, u)')
    <3> DEFINE A == SettledFor(Latest, u)
               B == {l \in S : Payee(l) = u}
    <3>1. A \in SUBSET Liabilities /\ B \in SUBSET Liabilities /\ A \cap B = {}
      BY <2>1, <2>5 DEF SettledFor, Owed
    <3>2. d.leaves[u] = Rev(Latest).leaves[u] + AmountOf(B) BY <2>1
    <3>3. Rev(Latest).leaves[u] = AmountOf(A) BY <1>l DEF Account
    <3>4. SettledFor(m, u)' = A \cup B BY <2>5
    <3> HIDE DEF A, B
    <3>5. AmountOf(A \cup B) = AmountOf(A) + AmountOf(B) BY <3>1, AmountUnion
    <3>6. QED BY <3>2, <3>3, <3>4, <3>5
  <2>8. \A n \in 0..Latest', u \in WalletUsers : Rev(n)'.leaves[u] = AmountOf(SettledFor(n, u)')
    <3> TAKE n \in 0..Latest', u \in WalletUsers
    <3>1. CASE n \in 0..Latest BY <3>1, <2>6
    <3>2. CASE n = Latest + 1
      <4>1. Rev(n)' = Rev(Latest)' BY <3>2, <2>2 DEF Rev
      <4>2. n = m BY <3>2, <2>m
      <4>3. QED BY <4>1, <4>2, <2>2, <2>7
    <3>3. QED BY <3>1, <3>2, <2>2, <1>l
  <2>9. \A n \in 0..Latest', u \in WalletUsers : Rev(n)'.leaves[u] = AmountOf(SettledFor(n, u))'
    BY <2>8 DEF AmountOf
  <2>10. QED BY <1>1, <2>3, <2>9 DEF Account
<1>4. QED BY <1>2, <1>3, SettledStep

LEMMA AccountInit == Init => Account
<1> SUFFICES ASSUME Init PROVE Account OBVIOUS
<1>1. \A r \in Reconcilers : reconciler[r].pending = {} BY DEF Init, Idle, Work
<1>2. Latest = 0 BY TypeInit
<1>3. ASSUME NEW u \in WalletUsers PROVE Rev(0).leaves[u] = AmountOf(SettledFor(0, u))
  <2>1. SettledFor(0, u) = {} BY DEF SettledFor, Init
  <2>2. AmountOf({}) = 0 BY SumEmpty DEF AmountOf, Sum
  <2>3. QED BY <2>1, <2>2 DEF Rev, Genesis
<1>4. QED BY <1>1, <1>2, <1>3 DEF Account, Init

THEOREM Accounted == Spec => [](TypeOK /\ Account)
<1>1. Init => Account BY AccountInit
<1>2. TypeOK /\ Account /\ [Next]_vars => Account' BY AccountStep
<1>3. QED BY <1>1, <1>2, TypeCorrect, PTL DEF Spec

(* Every revision accounts for what was settled so far, whatever reconcilers *)
(* read the same pending rows or a stale head.                               *)
THEOREM LeavesAccounted == Spec => []LeavesAccountForSettled
<1>1. ASSUME TypeOK, Account PROVE LeavesAccountForSettled
  <2>1. \A n \in 1..Latest : n \in 0..Latest /\ Rev(n) = revisions[n] BY <1>1, LatestNat DEF Rev
  <2>2. QED BY <2>1, <1>1 DEF Account, LeavesAccountForSettled, SettledFor
<1>2. QED BY <1>1, Accounted, PTL

---------------------------------------------------------------------------
(* Settlement does what it promises.                                         *)

TheAssigned == [l \in Liabilities |-> IF settledIn[l] > 0 THEN Payee(l) ELSE None]
ThePublished == {l \in Liabilities : settledIn[l] \in 1..liveRoot}

LEMMA PayoutsOwe ==
  ASSUME Owed' \in SUBSET Liabilities, Owed \subseteq Owed',
         TheAssigned' = TheAssigned, ThePublished' = ThePublished,
         minted' = minted, claimed' = claimed
  PROVE  Payouts!Next
BY DEF Payouts!Next, Payouts!Owe, TheAssigned, ThePublished

LEMMA PayoutsAssign ==
  ASSUME TheAssigned' \in [Liabilities -> WalletUsers \cup {None}],
         \A l \in Liabilities : TheAssigned'[l] # TheAssigned[l] => TheAssigned[l] = None /\ l \in Owed,
         Owed' = Owed, ThePublished' = ThePublished, minted' = minted, claimed' = claimed
  PROVE  Payouts!Next
BY DEF Payouts!Next, Payouts!Assign, TheAssigned, ThePublished

(* The same sum, seen through the instance.                                  *)
LEMMA PayoutsAmount == ASSUME NEW S PROVE Payouts!AmountOf(S) = AmountOf(S)
BY DEF Payouts!AmountOf, AmountOf, SumFunctionOnSet, FoldFunctionOnSet, MapThenFoldSet,
       Payouts!SumFunctionOnSet, Payouts!FoldFunctionOnSet, Payouts!MapThenFoldSet

LEMMA PayoutsPublish ==
  ASSUME NEW S, S \subseteq Owed, \A l \in S : TheAssigned[l] # None, S \cap ThePublished = {},
         ThePublished' = ThePublished \cup S, minted' = minted + AmountOf(S),
         Owed' = Owed, TheAssigned' = TheAssigned, claimed' = claimed
  PROVE  Payouts!Next
<1>1. S \in SUBSET (Payouts!Assigned \ ThePublished) BY DEF Payouts!Assigned, TheAssigned, ThePublished
<1>2. Payouts!AmountOf(S) = AmountOf(S) BY PayoutsAmount
<1>3. Payouts!Publish BY <1>1, <1>2 DEF Payouts!Publish, TheAssigned, ThePublished
<1>4. QED BY <1>3 DEF Payouts!Next

LEMMA PayoutsPay ==
  ASSUME NEW u \in WalletUsers,
         claimed' = [claimed EXCEPT ![u] = AmountOf({l \in ThePublished : TheAssigned[l] = u})],
         Owed' = Owed, TheAssigned' = TheAssigned, ThePublished' = ThePublished, minted' = minted
  PROVE  Payouts!Next
<1>1. Payouts!EarnedBy(u) = AmountOf({l \in ThePublished : TheAssigned[l] = u})
  BY PayoutsAmount DEF Payouts!EarnedBy, TheAssigned, ThePublished
<1>2. Payouts!Pay BY <1>1 DEF Payouts!Pay, TheAssigned, ThePublished
<1>3. QED BY <1>2 DEF Payouts!Next

LEMMA PayoutsStutter ==
  ASSUME Owed' = Owed, TheAssigned' = TheAssigned, ThePublished' = ThePublished,
         minted' = minted, claimed' = claimed
  PROVE  UNCHANGED Payouts!vars
BY DEF Payouts!vars, TheAssigned, ThePublished

(* A revision's total is the sum of what was settled up to it.               *)
LEMMA TotalIsSettled ==
  ASSUME IInv, Account, NEW n \in 0..Latest
  PROVE  Rev(n).total = AmountOf(Settled(n))
<1> DEFINE S == Settled(n)
           key == [l \in Liabilities |-> Payee(l)]
           h == Rev(n).leaves
<1>1. TypeOK /\ ChainOK /\ Latest \in Nat BY LatestNat DEF IInv
<1>2. S \in SUBSET Liabilities BY DEF Settled
<1>3. \A l \in S : key[l] \in WalletUsers BY PayeeType DEF Settled, Account
<1>4. \A u \in WalletUsers : {l \in S : key[l] = u} = SettledFor(n, u) BY DEF Settled, SettledFor
<1>5. \A u \in WalletUsers : h[u] = AmountOf(SettledFor(n, u)) BY DEF Account
<1>6. \A u \in WalletUsers : SettledFor(n, u) \in SUBSET Liabilities BY DEF SettledFor
<1>7. DOMAIN h = WalletUsers BY <1>1, RevInRevision DEF Revision
<1> HIDE DEF S, key, h
<1>8. \A u \in WalletUsers : h[u] = SumOfKey(Amount, S, key, u)
  BY <1>4, <1>5, <1>6, AmountIs DEF SumOfKey
<1>9. Sum(h, WalletUsers) = Sum(Amount, S)
  <2>1. IsFiniteSet(S) /\ IsFiniteSet(WalletUsers) /\ Integral(Amount, S)
    BY <1>2, AmountIs, SettlementsAssumption
  <2>2. QED BY <1>3, <1>8, <2>1, SumByKey
<1>10. SumFunction(h) = AmountOf(S) BY <1>2, <1>7, <1>9, AmountIs DEF SumFunction, Sum
<1>11. Rev(n).total = SumFunction(h)
  <2>1. CASE n = 0
    <3>1. S = {} BY <2>1, <1>1 DEF S, Settled, TypeOK
    <3>2. AmountOf(S) = 0 BY <3>1, SumEmpty DEF AmountOf, Sum
    <3>3. QED BY <3>2, <2>1, <1>10 DEF Rev, Genesis
  <2>2. CASE n # 0
    <3>1. n \in 1..Latest BY <2>2, <1>1
    <3>2. QED BY <3>1, <2>2, <1>1 DEF ChainOK, Total, Rev, h
  <2>3. QED BY <2>1, <2>2
<1>12. QED BY <1>10, <1>11 DEF S

LEMMA PayoutsInit == Init => Payouts!Init
<1> SUFFICES ASSUME Init PROVE Payouts!Init OBVIOUS
<1>1. Owed = {} BY DEF Init, Owed
<1>2. TheAssigned = [l \in Liabilities |-> None] BY DEF Init, TheAssigned
<1>3. ThePublished = {} BY DEF Init, ThePublished
<1>4. minted = 0 /\ claimed = [u \in WalletUsers |-> 0] BY DEF Init
<1>5. QED BY <1>1, <1>2, <1>3, <1>4 DEF Payouts!Init, TheAssigned, ThePublished

LEMMA AssignedKept ==
  ASSUME TypeOK, Account, [Next]_vars, settledIn' = settledIn
  PROVE  TheAssigned' = TheAssigned
<1>1. \A l \in Liabilities : settledIn[l] > 0 => Payee(l)' = Payee(l) BY PayeeKept DEF Account
<1>2. QED BY <1>1 DEF TheAssigned

LEMMA PublishedKept ==
  ASSUME settledIn' = settledIn, liveRoot' = liveRoot
  PROVE  ThePublished' = ThePublished
BY DEF ThePublished

(* An append assigns what it settles, above the live root.                   *)
LEMMA AppendAssigns ==
  ASSUME TypeOK, Account, NEW r \in Reconcilers, AppendRevision(r)
  PROVE  Payouts!Next
<1> DEFINE S == Resolved(reconciler[r])
<1>1. /\ S \subseteq Owed /\ \A l \in S : settledIn[l] = 0 /\ Payee(l) \in WalletUsers
      /\ settledIn' = [l \in Liabilities |-> IF l \in S THEN Latest + 1 ELSE settledIn[l]]
      /\ \A l \in Liabilities : Payee(l)' = Payee(l)
      /\ Owed' = Owed /\ liveRoot' = liveRoot /\ minted' = minted /\ claimed' = claimed
  BY AppendSettles
<1>2. Latest \in Nat /\ liveRoot \in 0..Latest /\ settledIn \in [Liabilities -> 0..Latest]
  BY LatestNat DEF TypeOK
<1> HIDE DEF S
<1>3. \A l \in Liabilities : settledIn'[l] = IF l \in S THEN Latest + 1 ELSE settledIn[l] BY <1>1
<1>4. ThePublished' = ThePublished BY <1>1, <1>2, <1>3 DEF ThePublished
<1>5. TheAssigned' \in [Liabilities -> WalletUsers \cup {None}]
  <2>1. \A l \in Liabilities : Payee(l)' \in WalletUsers \cup {None} BY <1>1, PayeeType
  <2>2. QED BY <2>1 DEF TheAssigned
<1>6. ASSUME NEW l \in Liabilities, TheAssigned'[l] # TheAssigned[l]
      PROVE  TheAssigned[l] = None /\ l \in Owed
  <2>1. l \in S BY <1>1, <1>3, <1>6 DEF TheAssigned
  <2>2. QED BY <2>1, <1>1 DEF TheAssigned
<1>7. QED BY <1>1, <1>4, <1>5, <1>6, PayoutsAssign

(* A publication pays for what was settled since the root it replaces.       *)
LEMMA PublishPublishes ==
  ASSUME IInv, Account, [Next]_vars, NEW p \in Approvers, Publish(p)
  PROVE  Payouts!Next
<1> DEFINE new == payload[p].target
           S == Settled(new) \ Settled(liveRoot)
<1>1. TypeOK /\ Latest \in Nat /\ liveRoot \in 0..Latest /\ settledIn \in [Liabilities -> 0..Latest]
  BY LatestNat DEF IInv, TypeOK
<1>2. /\ new \in 0..Latest /\ liveRoot < new /\ liveRoot' = new
      /\ minted' = minted + (Rev(new).total - Rev(liveRoot).total)
  <2>1. /\ payload[p].pc = "execute" /\ PayloadOK(payload[p])
        /\ new \in 0..Latest /\ payload[p].expected = liveRoot
        /\ liveRoot' = new /\ minted' = minted + payload[p].mint
    BY <1>1 DEF IInv, TypeOK, BrowserPayload, Publish, PublishGranted
  <2>2. QED BY <2>1 DEF PayloadOK
<1>3. settledIn' = settledIn /\ finalized' = finalized /\ claimed' = claimed BY DEF Publish
<1>4. Rev(new).total = AmountOf(Settled(new)) /\ Rev(liveRoot).total = AmountOf(Settled(liveRoot))
  BY <1>1, <1>2, TotalIsSettled
<1> HIDE DEF new
<1>5. /\ Settled(liveRoot) \subseteq Settled(new) /\ Settled(new) \subseteq Liabilities
      /\ ThePublished = Settled(liveRoot) /\ ThePublished' = Settled(new)
  <2>1. Settled(liveRoot) \subseteq Settled(new) BY <1>1, <1>2 DEF Settled
  <2>2. ThePublished' = Settled(new) BY <1>2, <1>3 DEF Settled, ThePublished
  <2>3. QED BY <2>1, <2>2 DEF Settled, ThePublished
<1>6. AmountOf(Settled(new)) = AmountOf(Settled(liveRoot)) + AmountOf(S)
  <2>1. Settled(liveRoot) \cup S = Settled(new) BY <1>5
  <2>2. AmountOf(Settled(liveRoot) \cup S) = AmountOf(Settled(liveRoot)) + AmountOf(S)
    BY <1>5, AmountUnion
  <2>3. QED BY <2>1, <2>2
<1>7. minted' = minted + AmountOf(S)
  <2>1. /\ AmountOf(Settled(new)) \in Nat /\ AmountOf(Settled(liveRoot)) \in Nat /\ AmountOf(S) \in Nat
    BY <1>5, AmountIs
  <2>2. minted \in Nat BY <1>1 DEF TypeOK
  <2> HIDE DEF S
  <2>3. QED BY <1>2, <1>4, <1>6, <2>1, <2>2
<1>8. S \subseteq Owed /\ \A l \in S : TheAssigned[l] # None
  <2>1. \A l \in S : l \in Liabilities /\ settledIn[l] > 0 BY <1>1 DEF Settled
  <2> HIDE DEF S
  <2>2. QED BY <2>1 DEF Account, TheAssigned
<1>9. Owed' = Owed BY <1>3 DEF Owed
<1>10. TheAssigned' = TheAssigned BY <1>1, <1>3, AssignedKept
<1>11. S \cap ThePublished = {} /\ ThePublished' = ThePublished \cup S BY <1>5
<1>12. QED BY <1>3, <1>7, <1>8, <1>9, <1>10, <1>11, PayoutsPublish

(* A claim pays an account what was published for it.                        *)
LEMMA ClaimPays ==
  ASSUME IInv, Account, [Next]_vars, NEW u \in WalletUsers, Claim(u)
  PROVE  Payouts!Next
<1>1. TypeOK /\ Latest \in Nat /\ liveRoot \in 0..Latest BY LatestNat DEF IInv, TypeOK
<1>2. claimed' = [claimed EXCEPT ![u] = Rev(liveRoot).leaves[u]] BY DEF Claim
<1>3. /\ settledIn' = settledIn /\ liveRoot' = liveRoot /\ minted' = minted
      /\ finalized' = finalized
  BY DEF Claim
<1>4. Rev(liveRoot).leaves[u] = AmountOf(SettledFor(liveRoot, u)) BY <1>1 DEF Account
<1>5. SettledFor(liveRoot, u) = {l \in ThePublished : TheAssigned[l] = u}
  BY <1>1 DEF SettledFor, ThePublished, TheAssigned, TypeOK
<1>6. Owed' = Owed BY <1>3 DEF Owed
<1>7. TheAssigned' = TheAssigned /\ ThePublished' = ThePublished
  BY <1>1, <1>3, AssignedKept, PublishedKept
<1>8. claimed' = [claimed EXCEPT ![u] = AmountOf({l \in ThePublished : TheAssigned[l] = u})]
  BY <1>2, <1>4, <1>5
<1>9. QED BY <1>3, <1>6, <1>7, <1>8, PayoutsPay

LEMMA PayoutsStep ==
  ASSUME IInv, Account, [Next]_vars
  PROVE  [Payouts!Next]_(Payouts!vars)
<1>1. TypeOK BY DEF IInv
<1>2. ASSUME settledIn' = settledIn, liveRoot' = liveRoot, minted' = minted, claimed' = claimed
      PROVE  [Payouts!Next]_(Payouts!vars)
  <2>1. TheAssigned' = TheAssigned /\ ThePublished' = ThePublished
    BY <1>1, <1>2, AssignedKept, PublishedKept
  <2>2. Owed \subseteq Owed' /\ Owed' \in SUBSET Liabilities BY OwedKept DEF Owed
  <2>3. QED BY <1>2, <2>1, <2>2, PayoutsOwe
<1>3. ASSUME NEW r \in Reconcilers, AppendRevision(r) PROVE Payouts!Next BY <1>1, <1>3, AppendAssigns
<1>4. ASSUME NEW p \in Approvers, Publish(p) PROVE Payouts!Next BY <1>4, PublishPublishes
<1>5. ASSUME NEW u \in WalletUsers, Claim(u) PROVE Payouts!Next BY <1>5, ClaimPays
<1>6. \/ \E r \in Reconcilers : AppendRevision(r)
      \/ \E p \in Approvers : Publish(p)
      \/ \E u \in WalletUsers : Claim(u)
      \/ settledIn' = settledIn /\ liveRoot' = liveRoot /\ minted' = minted /\ claimed' = claimed
  BY DEF Next, vars, Finalize, CreateBinding, Trigger, Reconcile, ListPending, ResolveWallets, ReadHead,
         RefuseAppend, Die, ReadTarget, ServePayload, DropPayload
<1>7. QED BY <1>2, <1>3, <1>4, <1>5, <1>6

(* Through stale reads, conflicts and skipped revisions, an amount owed is   *)
(* assigned once, minted once and paid to the account it was published for.  *)
THEOREM PayoutsImplemented == Spec => ImplementsPayouts
<1>1. Init => Payouts!Init BY PayoutsInit
<1>2. IInv /\ Account /\ [Next]_vars => [Payouts!Next]_(Payouts!vars) BY PayoutsStep
<1>3. QED BY <1>1, <1>2, Invariance, Accounted, PTL DEF Spec, ImplementsPayouts, Payouts!Spec

=============================================================================
