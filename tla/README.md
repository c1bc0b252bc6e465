# Verification of the node platform

TLA+ models, TLC configurations and TLAPS proofs for the server side of this repository. The models follow the
TypeScript, SQL and Solidity under `src/`; `PROJECT.json` maps every definition to the lines it stands for, and lists the
runs, the mutants that show each property has teeth, the findings, the hazards and the theorems.

To check something: `tlc -workers 2 -config <run>.cfg <MC module>`; to check the proofs: `tlapm PaymentsProofs.tla`, and
likewise `GraphRunsProofs`, `SettlementsProofs`, `WorkItemsProofs`, `EpochsProofs`, `UsageChargesProofs`, and the two they
cite, `SumTheorems` and `SharesProofs`.

## 1. Inventory

The repository is a node of a DAO-operated platform: a Next.js application (`src/app`, hexagonal: facades, features,
ports, adapters), shared packages (`src/packages`), LangGraph graphs and deployment files. Postgres is the system of
record; Doltgres keeps the knowledge base and the work items, with Git-like branches; Redis keeps run streams; Temporal
runs workflows (the worker that delivers them is not in this repository); TigerBeetle mirrors money movements; LiteLLM
serves models; an EVM chain holds the treasury, the token and the claim distributor.

| component | state | operations | talks to | what is hard | correct when |
|---|---|---|---|---|---|
| **payments** | payment_attempts, credit_ledger, billing_accounts | create intent, submit hash, poll, verify and settle | chain RPC, treasury wallet, TigerBeetle | two requests on one attempt at every await, death between two commits, reorganisation, timeout against late verification | a transfer is credited once, to its sender, when final; bonus, status and treasury follow the credit; no attempt stays pending |
| **graph runs** | ai_threads, execution_requests, Temporal workflow per run, Redis stream per run | chat route, completions facade, schedule fire, internal run route, stream subscription | Temporal, Redis, graph executors, grants | at-least-once delivery, overlapping deliveries, lost and ambiguous Redis commands, optimistic thread saves, key races | success is announced only after the transcript is durable; one user and one assistant message per run; only the claimed payload runs; listeners end |
| **settlement** | claimant liabilities, settlement revisions, identity bindings, distributor root and token balance | finalize, bind, reconcile, serve payload, publish, claim | epochs, identity, DAO, chain | stale liability lists, chain heads and payloads, two reconcilers, bindings that change while wallets are resolved | every liability is paid once and to its owner; every mint pays for exactly what becomes claimable |
| **work items** | work_items on Doltgres `main` and operation branches, advisory lock, per-process poison flag | create, patch, delete, claim, heartbeat, release, get, list | Doltgres; contributions and the importer write the same `main` | merges whose outcome is unknown, dead sessions with the lock, merges of others left open, leases that run out | a call takes effect once or not at all and its answer says which; a lease in force is kept |
| **credit ledger and usage charges** | charge_receipts, credit_ledger, billing_accounts, transfers in TigerBeetle | LiteLLM callback, usage report of a stream, charge, deposit, co-write, preflight | LiteLLM, TigerBeetle | repeated and overlapping reports, errors the report hides, co-writes after the commit, preflight against concurrent calls | a unit of usage is charged once, at its price, to its account; the ledger explains the balance; TigerBeetle holds only what was charged |
| **attribution epochs** | epochs, receipts, selections, pool components, draft and locked claimants, overrides, statements, signatures | collect, transition, review, override, sign, finalize | ingestion adapters, plugins, settlement | a pass, a review and a finalization interleave at every query, a pass dies half-way, approvers sign what has changed since | one open epoch; what is signed is what is stored; a receipt is paid for once; a sealed epoch stays |
| **attribution-ledger** | none (pure) | weights, shares, statement arithmetic, signing payloads | epochs | largest-remainder rounding | shares sum to the pool |
| knowledge contributions | knowledge_contributions, branches, citations, confidence | create, append, merge, close | Doltgres | merge against merge or close, append against append in two processes | a contribution ends once, and merged means on main |
| run ledger, grants, schedules | graph_runs, execution_grants, schedules | create, start, complete; grant, revoke; sync governance schedules | Temporal | replays of terminal updates, sync after partial failure | a run's status only advances; Temporal and the table agree |
| executors and decorators | none that lasts | route a graph, wrap its event stream | LiteLLM, sandbox | abort, error in mid-stream | every stream ends in one terminal event |
| connections broker | connections (encrypted tokens), refresh mutex of the process | resolve, refresh | OAuth providers | rotating refresh tokens with two replicas | a usable token is stored |
| identity, auth | users, user_bindings, identity_events | sign in, link, attest | SIWE, OAuth | two users link one identity | an identity has one owner |
| node streams, rate limiter, webhooks, sandbox, operator wallet, financial ledger, repo-spec, AI tools, contracts, UI | see `PROJECT.json` | | | | |

`PROJECT.json` `hazards` names the line where each hard behaviour bites and the properties that would catch it.

## 2. Plan

Order: money first, then the path every user request takes, then what the DAO pays out, then the store agents work on.

1. *(done)* `PurchaseLedger` (abstract), `Payments`, `MCPayments`, `PaymentsProofs`; `PaymentFlow` (the browser's hook
   composed with `Payments`), `MCPaymentFlow`.
2. *(done)* `ChatTurns` (abstract), `GraphRuns`, `MCGraphRuns`, `GraphRunsProofs`.
3. *(done)* `SettlementPayouts` (abstract), `Settlements`, `MCSettlements`, `SettlementsProofs`.
4. *(done)* `WorkItemRows` (row rules, shared), `WorkBoard` (abstract), `WorkItems` (`INSTANCE WorkBoard`), `MCWorkItems`,
   `WorkItemsProofs`.
5. *(done)* `EpochBook` (abstract), `Shares` (the allocation arithmetic), `Epochs`, `MCEpochs`, `EpochsProofs`, with
   `SumTheorems` and `SharesProofs` for its sums.
6. *(done)* `UsageMeter` (abstract), `UsageCharges`, `MCUsageCharges`, `UsageChargesProofs`.
7. *(done)* Every safety property and every refinement a passing run checks is proved (section 11).
8. `Contributions`: create, append, merge and close, with the `main` of `WorkItems`.
9. `Schedules`: governance sync, grants and `graph_runs`.

## 3. What the models have in common

Every module takes the await (the query, the RPC, the on-chain transaction) as its unit of atomicity: JavaScript runs a
handler undisturbed between two awaits, and Postgres runs one statement, or one transaction, as a whole. A request,
delivery, reconciler or process is a record with a program counter and the values the handler carries across its awaits,
so it acts on copies that may be stale. It may die at any of them.

Operators whose names carry a suffix (`Verify_NoConfirmations`, `MayClaim_Anybody`) are mutants: plausible bugs, used by
nothing, which `PROJECT.json` "mutants" substitutes for the operator below them to show that a property can fail.

## 4. Payments

`Payments.tla` models `paymentService.ts`, `creditsConfirm.ts`, `confirmCreditsPurchase.ts`, the attempt repository, the
on-chain verifier and `creditAccount`; `PaymentFlow.tla` composes it with `usePaymentFlow.ts`, the hook that calls it.

| model | code |
|---|---|
| `attempts`, `ledger`, `balance` | payment_attempts, credit_ledger, billing_accounts |
| `chain[tx]`, `minedAt[tx]`, `height` | where the RPC node sees a transaction (absent, mempool, mined, reverted), the blocks that have held it, the head |
| `ChainStep`, `NewBlock` | a transaction is sent, dropped, mined, reverted, or reorganised out while it has too few confirmations |
| `funding`, `tb` | runs of the treasury settlement, co-written transfers |
| `CreateIntent`, `Submit`, `Bind`, `Record`, `Poll` | createIntent, submitTxHash with bindTxHash, getStatus |
| `GetTransaction`, `GetReceipt`, `GetBlockNumber` | the three RPC calls of the verifier, each answered by the chain of that moment or failing, and what verifyAndSettle makes of them |
| `UpdateStatus`, `FindUserEntry` .. `CoWrite` | updateStatus, confirmCreditsPayment, the treasury and TigerBeetle steps |
| `Fail` | an exception or the death of the process at any await |
| `flow`, `StartPayment`, `SubmitHash`, `PollStatus`, `ReadStatus`, `Receive`, `Leave` | the hook's phase, its calls, the answers its reducer takes, a reload |

The receipt and the head are read at different times, and confirmations are counted from the receipt in hand. So a credit is
backed by a block that held the transfer and has `MinConfirmations` on top (`CreditsBackedByTransfer`), which need not be
where the transfer is by then (section 10). A reverted transaction stays reverted. The error code of a row is left out:
nothing reads it back.

`PurchaseLedger.tla` promises that each transfer is credited at most once, to the wallet that sent it, for no more than it
pays, and gets at most one bonus, after the credit.

| run | instance | shows |
|---|---|---|
| `payments_race` | 2 attempts of 2 users, amounts 1 and 2, 2 transfers of one wallet paying 2 and 1, 2 requests, a clock, a chain that reorganises; 807,904 states up to symmetry | the safety invariants and the inductive invariant `IInv` |
| `payments_flow` | 1 purchase of the hook with 2 overlapping polls, another client that polls it, 1 transfer; 264,608 states | `FlowEnds`: the hook ends in success, an error or a closed page once the hash is sent; refinement of `PurchaseLedger` |
| `payments_bonus_retry` | 1 attempt, 1 transfer, 2 requests, `FundingCap` 2 | finding: see section 10 |

Bounds. Two transfers make a rebind possible, two attempts make one transfer serve twice if anything lets it, two users and
two amounts make the sender and the amount matter, two requests make every pairwise interleaving possible. The TTL of an
intent is 1 and that of a pending attempt 0, so a clock of 1 expires the one and times out the other; one confirmation and a
head of 1 let a transfer be mined, reorganised out between two RPC calls, and confirmed. `payments_race` is cut by the
constraint `Focus` into two instances that share a run: either the second transfer stays out of it, the attempts are of
two amounts, and clock and chain are free; or one attempt is rebound between both transfers, with the clock at 0 and each of them mined at most once. What
lies outside the cut is covered by the proofs, which bound nothing. 150 credits per dollar and a share of 75 % make both roundings
(up for credits, down for the bonus) bite. A hash is submitted early enough for its timeout to lie within `MaxTime`.

Fairness of `FlowSpec` is weak throughout: the clock goes on, an awaited call of a handler is answered or fails, and the
interval of a hook that still polls fires. The hook polls from memory and stops for good at the first poll that fails
(`usePaymentFlow.ts:511-519`) or at a reload; that ends the wait of the user, which is what `FlowEnds` speaks of, and not the
attempt: a row stays PENDING_UNVERIFIED until some client polls it after its timeout, and nothing in the code guarantees one.
Nothing is assumed of the chain, the RPC node or the user.

## 5. Graph runs

`GraphRuns.tla` models the chat route, the completions facade, the internal run route, `durable-chat-terminal.ts`, the
execution-request and thread repositories and the Redis run stream.

| model | code |
|---|---|
| `thread`, `deleted`, `request`, `granted` | ai_threads, execution_requests, execution_grants |
| `stream`, `dropped`, `ttl` | XADD entries, those the TTL removed, EXPIRE |
| callers: `LoadTurn` .. `Start`, `Receive`, `FirstEventTimeout`, `Disconnect` | route.ts and completion.server.ts from loading the thread to the last event |
| handlers: `Deliver`, `HCheck`, `HGrant`, `HClaim`, `HRun` .. `HFinalize`, `AnswerLost` | one delivery of the internal run route |
| `CallerDies`, `HandlerDies`, `PublishFails`, `StreamExpires` | deaths, Redis commands lost or applied with the answer lost, expiry |

`ChatTurns.tla` promises of one thread that a turn is asked, answered and announced in that order.

| run | instance | shows |
|---|---|---|
| `graphruns_turns` | a turn, its exact retry and another turn; 1 delivery at a time, 1 death; 218 k states | order of claims, appends and announcements; refinement of `ChatTurns` |
| `graphruns_faults` | 1 turn and a schedule slot, 2 overlapping deliveries, 1 Redis fault, 1 death, expiry, thread deletion; 1.03 M states up to symmetry | success is neither shown nor recorded without its transcript; messages occur once; a slot runs once |
| `graphruns_keys` | 2 completions on one idempotency key with different texts, 2 deliveries, 1 death, 1 lost or ambiguous Redis command; 260,314 states | only what was claimed runs; `ListenersEnd` |
| `graphruns_secret` | a turn with a credential and its exact retry | finding: see section 10 |

Bounds. `MaxPersistAttempts` is 2 (3 in the code) and `MaxThreadMessages` 4 (200): enough to conflict, retry, give up and
overflow. Prompts are kept as sequences of texts in place of their hash, which is injective.

Fairness of `DeliveringSpec`: callers and handlers run on, and Temporal delivers each workflow that has not been closed;
its retry policy is what the run route is written for. `ListenersEnd` allows a listener to wait for ever in one case, which the
code does have (`TerminalLost`): the run failed, its failure was recorded, and Redis lost the error event. Only the first
event of a subscription has a deadline. A done that was lost is made up for by an error, and a delivery that died by the next.

## 6. Settlement

`Settlements.tla` models `run-reconcile-settlements.ts`, the settlement part of the attribution store, the wallet resolver,
the token distribution, the distribution-tx route, `DistributionPublishCondition.sol` and the panel that submits payloads.

| model | code |
|---|---|
| `finalized`, `binding`, `settledIn`, `revisions` | statements, user_bindings, liabilities' settlement revision, the revision chain |
| reconcilers: `Trigger`, `ListPending`, `ResolveWallets`, `ReadHead`, `AppendRevision`, `RefuseAppend`, `Die` | one pass of runReconcileSettlements with its conflict retries |
| approvers: `ReadTarget`, `ServePayload`, `Publish`, `DropPayload` | the route that reads database and chain, and the DAO transaction |
| `liveRoot`, `minted`, `claimed` | the distributor's Merkle root, minted tokens, cumulative claims |

A root is named by the number of its revision, a wallet by its user. The two queries of wallet resolution are one step,
because bindings and wallets are only ever added. The distribution configuration is fixed and active.
`SettlementPayouts.tla` promises that what is owed is assigned to one account once, minted once, and that no account is paid more than was
published for it.

The run `settlements` (2 liabilities of 2 epochs, one owed to an identity nobody has bound yet; 2 reconcilers, 2 approvers,
1 death; 181,868 states) checks all six properties. `MaxAttempts` is 2 (3 in the code), so a pass can lose, retry and
give up. Fairness of `CollectingSpec`: passes run on and are triggered again, as the collection schedule does.

## 7. Work items

`WorkItems.tla` models `DoltgresWorkItemAdapter`: one action per query of `withGlobalLock` and `mutateOnBranch`.

| model | code |
|---|---|
| `main`, `log`, `branches`, `merging` | the table on main, its merge commits, `work-item-op/` branches, dolt.merge_status |
| `lock`, `sessions`, `late` | the advisory lock and its session, live sessions, a merge a dead session may still run |
| `AcquireLock`, `LockTimeout`, `Reconcile`, `Sweep`, `RunOnBranch`, `Merge`, `ProveMerge`, `Unlock` | acquireGlobalLock, reconcileUnderLock, mutateOnBranch, branchCommitIsOnMain with abortOwnedMergeIfPresent, the finally block |
| `ProofFails`, `UnlockFails`, `ConnectionLost`, `SessionDies`/`NoticeLoss`, `ConnectFails`, `Crash`, `RestartPoisoned` | the catch branches, terminateClient with recreateClient, the poison flag |
| `WriteOutside`, `ContributionMerges`, `ContributionAborts`, `LateMerge`, `SessionEnds` | other writers of the same main, and the server |
| `Allowed`, `Effect` (`WorkItemRows`) | the WHERE and SET clauses of each statement, the id allocator |

Doltgres merges cell by cell; a row is its creator, its text (all descriptive columns), its lease holder and the lease's
end. Two attempts of one call share the name of a branch, since the first one's is never merged once a second starts. Reads
take the same lock and repair and then answer without a branch; they are left out, like the filters of `list`, the empty
patch, a main left dirty by hand and create's retry on a duplicate id (the id is computed and inserted on one branch).
`WorkBoard.tla` promises a board on which calls take effect at most once, one at a time, on rows they may change at that
moment; a call told yes took effect, one told no never does.

| run | instance | shows |
|---|---|---|
| `workitems_leases` | create, claim, heartbeat, release and a rival's claim; 2 processes, 1 failure, clock 0..2, lease of 1; 357 k states up to symmetry | effects once, no branch swept from under a live session, leases kept, refinement of `WorkBoard` |
| `workitems_faults` | create, patch, delete; 2 processes, 1 failure, 2 foreign writes or merges; 167 k states | answers tell the truth about main; every call ends |

Bounds. `MergeRetries` is 2 (3 in the code) and two foreign writes make both attempts conflict. One failure suffices to lose
any query, proof or unlock and to poison an adapter, whose restart is not counted as one. Two ticks outrun a lease and its
renewal. Fairness of `FairSpec`: every process runs on, since each query has a timeout of its own.

## 8. Attribution epochs

`Epochs.tla` models a collection pass (`run-collect-pass.ts`, `activities/ledger.ts`, `enrichment.ts`), the routes by which
approvers review, adjust, sign and finalize, `run-finalize-epoch.ts` and the attribution store with its index, its freeze
trigger and its transactions. `Shares.tla` is the largest-remainder arithmetic of `claimant-shares.ts`.

| model | code |
|---|---|
| `epoch`, `selection`, `claimants`, `pool`, `overrides`, `statement`, `signatures` | the tables of one window's epoch; `selection` holds the policy's decision and whether the author has a user, `claimants` the draft and the locked row |
| `window`, `arrived`, `bound` | the clock, ingested receipts, authors who have signed in |
| passes: `PassStart`, `PassBuild`, `PassTransition` or `PassEnsure`, `PassCandidates`, .. `PassClaim`, `PassPool`, `PassPoolInsert` | findStaleOpenEpoch, buildLockedEvaluations, transitionEpochForWindow, ensureEpochForWindow, materializeSelection receipt by receipt, ensurePoolComponents |
| `PassSelect` then `PassSelectWrite` | insertSelectionDoNothing or updateSelectionIncluded: the freeze trigger reads the status without a lock, the row is written later |
| `PassAttach` then `PassAttachWrite` | updateSelectionUserId, a second statement with a trigger of its own |
| approvers: `ReviewBuild`/`ReviewClose`, `PoolCheck`/`PoolInsert`, `Override`, `DeleteOverride`, `SignData`, `FinalizeStart`/`FinalizeRead`/`Seal` | the routes, closeIngestionWithEvaluations, runFinalizeEpoch, finalizeEpochAtomic |
| `PassDies` | the death of a pass between two writes |

A desk or a pass keeps what it read until its transaction, as the code does, so everything it acts on may be stale. Each
receipt has one claimant, which is what collection writes; a message is the allocation and the pool a signature covers,
for which the code signs hashes. Draft evaluations, user projections and cursors decide none of the properties and are left
out.

The schedules are created with overlap SKIP (`schedule-control.adapter.ts:11`, `syncGovernanceSchedules.ts:281`), which keeps
workflows apart and not passes: the internal collect endpoint (`attribution/collect/route.ts:52`) guards nothing, and a retried
activity posts again while its first request may still run. The model has any number of passes. Two that overlap may select one
receipt into two epochs, and when a review built before is repaired from its own artifacts at that moment both epochs pay
for it: TLC finds the behaviour with two passes and one receipt. The book therefore promises that a receipt is paid once only where
passes exclude each other (`Exclusive`), and the rest of it always.

`EpochBook.tla` promises that one window is open at a time, that a reviewed window is sealed once by a statement that gives
away its whole pool, where passes exclude each other to claimants of receipts no other statement pays for, and that later
approvers only add signatures.

The run `epochs` (2 windows, 2 receipts of one author, the second counted only beside the first, 2 approvers up to symmetry,
1 pass, 3 requests or deaths of which 1 a death, an override to 0 units; 1,103,644 states) checks `SignedIsStored`,
`CompleteUnlessDied`, `SealedIsFrozen` and the refinement of `EpochBook`. Two windows make a transition and a receipt that
fits either; three requests are a review, and two more that race (two signatures, or a signature and an override). One pass
suffices for the late row, which lands in an epoch that approvers closed and finalized under it.

What the runs showed on the way, and the properties are stated around:

- A pass that dies between the selection of a receipt with a known author and its claimant leaves an epoch that can never be
  closed: the receipt is no candidate any more, and closing refuses a counted receipt without claimant. `ledger.ts:10` calls
  the activities idempotent. `CompleteUnlessDied` therefore speaks of passes that live.
- A pass whose trigger saw an epoch in review may write its row after the epoch was finalized: `finalizeEpochAtomic` holds the
  epoch's row `FOR UPDATE`, an insert waits behind it in its foreign key check and then commits, and an update takes no lock
  at all. `SealedIsFrozen` allows one such row to each pass that was past the trigger, and no other. The statement is not
  touched by it.
- A late pass may include a receipt in an epoch already in review. The receipt has no locked claimant, so sign-data and
  finalize refuse for good, and the repair refuses too, since the artifacts differ.
- A receipt selected between the finalizer's reads and the transaction is frozen in an epoch whose statement does not pay it.
- The status is read before a pool component is inserted, so one may land after the review locked the pool; signatures over
  the old pool then fail to verify.

## 9. Usage charges

`UsageCharges.tla` models LiteLLM's posts to `billing/ingest`, the stream consumer that commits the usage of a user's own
provider, `commitUsageFact`, `recordChargeReceipt`, `creditAccount` and the TigerBeetle client.

| model | code |
|---|---|
| `receipts`, `ledger`, `balance` | charge_receipts (by source reference), credit_ledger, billing_accounts |
| `cowrites`, `mirror`, `tb` | transfers on their way, transfers TigerBeetle has, the client's remembered account creation |
| `Answer`, `Post`, `Consume` | calls that end, LiteLLM's batches (external, possibly repeated), usage reports of a stream |
| `Check`, `Insert`, `Refused`, `Done` | the read of a receipt, the transaction, its failure (swallowed), the answer 200 |
| `Deposit`, `Transfer`, `TransferFails`, `Restart` | creditAccount, the unawaited co-write and its errors, a death of the process |

`UsageMeter.tla` promises that a unit is charged at most once, at the price and to the account of a call it stands for, and
that nothing but charges and deposits moves a balance. All calls a run makes to the user's own provider share one unit
(`runId/attempt/byo`), so the first of them stands for the others.

The run `charges` (a user's call, a call without an end user, a call whose cost is suspiciously zero, two calls of one run to
the user's provider; a deposit, 2 reports that overlap or repeat each other, up to symmetry, batches of 2 in which a call may
come twice, 1 failure or restart; 578,446 states) checks `LedgerExplainsBalance`, `ProcessedIsCharged`,
`MirrorFollowsReceipts` and the refinement. An opening balance of 1 below a price of 2 lets the balance go negative, as the code
permits. More than two reports are left to the proofs.

A call whose cost is unknown or suspiciously zero is deferred: `commitUsageFact` returns without a receipt or an error
(`billing.ts:112-131`) and the route counts the call as processed (`route.ts:317-322`), so it is charged only if a later post
knows its cost, which nothing triggers. `ProcessedIsCharged` speaks of the other calls. In the model a call has one price; that the
cached catalog of models may price a repeated post differently is left out.

Facts a reader should know: the ingest route answers 200 even if a write failed, so that charge is lost unless LiteLLM posts
again. `TigerBeetleAdapter.ensureInit` keeps a rejected promise (`tigerbeetle.adapter.ts:81`), so after one failed account
creation a process sends no transfer any more. No caller credits an account with the reason "deposit", so deposits are never
co-written. The preflight is not modelled, since it changes nothing that is charged: `preflight-credit-check.decorator.ts`
says a refused run stops before any execution, but it starts the inner run first (line 52) and the in-process provider starts
the graph at once; and concurrent runs all pass on the same balance.

## 10. Findings

Two runs refute what a comment or a test says:

- `payments_bonus_retry`: `creditsConfirm.ts` says a retry after a crash "skips user credit (idempotent), applies system
  tenant credit"; the check for an existing user entry returns before the bonus. In the run the request that credited the user
  fails at the bonus (an error, a dropped connection or a restart: `Fail`), a second one settles the transfer, and no request is left
  that would mint the bonus.
- `graphruns_secret`: an exact retry of a chat turn whose text holds a credential is refused with 409, because the first
  request hashes the text before redaction and the retry the redacted text of the thread.

Disagreements met on the way, which the models follow but no run is devoted to:

- `drizzle-payment-attempt.adapter.ts` writes status and hash unconditionally, so a slow request can overwrite a terminal
  status, against `rules.ts:54` ("No transitions from terminal states"); the properties are about credits for this reason.
- A transfer reorganised out between the verifier's receipt and its head block is credited, with the confirmations of a block
  that is no longer there, against `chain.ts:86` ("must have at least this many confirmations to be considered valid").
- The hook's reducer takes a late answer in any phase, so a slow poll that fails replaces a success the user has seen
  (`usePaymentFlow.ts:192-202`).
- The selection of a finalized epoch can still change by the late rows of section 8, against `db-schema/src/attribution.ts:146`
  ("frozen by trigger when epoch finalizes") and `drizzle-attribution.adapter.ts:14` ("DB trigger enforces").
- The treasury settlement can run twice for one transfer, against `paymentService.ts:8` ("fires exactly once on CREDITED
  transition").
- A poll that read an intent before its hash was bound can mark it FAILED with INTENT_EXPIRED afterwards
  (`paymentService.ts:232`, `:309`).
- `finalizeRequest` overwrites the outcome stored by an overlapping delivery (`drizzle-execution-request.adapter.ts:10`).
- A slot whose delivery is refused after its claim, or whose process died, stays pending (`execution-request.port.ts:46`).
- An adapter poisoned by a merge nobody could prove serves again, without a restart, if its unlock then fails and the client
  is recreated, although it says it "requires restart reconciliation" (`adapter.ts:575`).
- `patch` pushes its bookkeeping columns again on every retry (`adapter.ts:1134`).
- The liability of a user without a wallet never settles: signing in with a wallet creates another user (`auth.ts:221`).

## 11. What is proved

The proofs hold for every number of attempts, transfers, requests, turns, slots, deliveries, liabilities, users,
reconcilers, processes, approvers, calls, handlers, receipts, windows and passes, and for every value of the bounds. They
rest on the named assumptions of the modules, which say that constants have their types, that sets of rows are finite, that
names of different things differ, and that `None` is none of the things a variable may hold instead of it. TLC evaluates
them in every run.

Every invariant, action property and refinement of the passing runs is the conclusion of a theorem; `PROJECT.json` lists
which. What is left to TLC is liveness: `FlowEnds`, `ListenersEnd`, `ResolvableSettles`, `CallsEnd`.

**`PaymentsProofs`**, under `PaymentsAssumption` (disjoint accounts, natural amounts and bounds). The safety properties are
not inductive: whether `MintBonus` may mint depends on what the request saw several awaits ago. `IInv` adds `RequestInv`,
which says for each program counter what a request may still rely on (at "getBlockNumber" its receipt names a block that held a
transfer which pays enough; past it that block has its confirmations and the transfer comes from the attempt's user; past
"creditUser" that user's credit exists; at "coWrite" the settlement ran), and `RowInv` (a pending row has a
hash; a ledger entry has an attempt). `Invariance` proves `Spec => []IInv`, one step per action; two frame lemmas
(`RowsKept`, `FactsKept`) carry what other requests rely on across an action, a reorganisation between two RPC calls included: blocks that held a
transfer and the head only grow. `TypeCorrect`, `NoDoubleCredit`,
`CreditsBacked`, `BoundOnce`, `CreditComesFirst` follow from it, and `Refinement` shows every step is a step of `PurchaseLedger` or a
stutter.

**`GraphRunsProofs`**, under `GraphRunsAssumption`. What keeps a run right is what never shrinks: a thread is only
appended to, a stream only gains events, the hash of a claim stays. From this, what a caller or a delivery read before an
await still holds of what is stored. `Sound` says so for each program counter: a thread loaded is a prefix of the stored one and
lacks the message about to be saved, so that a save that finds the loaded length appends to the very thread it loaded; a
delivery that works owns a claim with its prompt's hash; one about to publish has its answer in the thread. It also says
that a stored prompt is the thread up to its turn but for redaction, that a stream which says done belongs to a stored answer,
and that two deliveries never hold one slot. `SoundInvariant` proves it per action; `DoneKept`, `StoredOnce`, `ClaimKept`,
`ClaimedIsRun`, `SuccessAnnounced` and `SlotOnce` are consequences, `ThreadGrows` follows from the steps, and `ChatIsOrdered`
maps each step to one of `ChatTurns`.

**`SettlementsProofs`**, under `SettlementsAssumption`. `IInv` is `TypeOK`, `ChainOK` (a revision's total is the
sum of its leaves, and totals never fall along the chain), `PayloadOK` (a served payload's mint is the difference of its
target's and its expected root's totals, and its target is later) and `minted` = the total of the live root. `MintsMatch` and `RootAdvances` follow: a payload that went stale is
refused because the contract compares the live root. `Account` adds what links leaves to liabilities: what a reconciler
holds as pending is owed, what is settled is owed and has a payee, and each leaf of each revision is the sum of what was settled for its
wallet so far. It is needed because a reconciler appends what it read earlier: only the conflict check (the head it read is still
the head, what it resolved is still pending) makes the new leaf the old one plus what is new. `LeavesAccounted` follows, and with `SumByKey`
(the total of the leaves is the sum over the liabilities) `PayoutsImplemented`: the mint of an execution pays for exactly the
liabilities of the revisions it skips to.

**`WorkItemsProofs`**, under `RowsAssumption` and `WorkItemsAssumption`. `Control` says who may be doing what: whoever has a
live session has the lock, a merge left to a dead session keeps it, no two processes serve one call, and what a
process knows of its merge is so. It is inductive with `TypeOK`, and carries `OnceApplied`, `RefusalClean`, `SuccessKept`
and `BranchKept`. `BranchInv` adds what the branches hold: the branch about to be merged, and the one a dead session may
still merge, were cut from a `main` that others have only rewritten since, so that a cell-wise merge without a conflict is
the call's own statement run on the present `main`. That is what `LeaseIsKept` and `StoreIsBoard` need: the branch was computed
on old rows, and the board judges it on the rows of the moment of the merge.

**`UsageChargesProofs`**, under `UsageChargesAssumption` (units of runs and calls are distinct, prices are natural). `TypeOK`
holds that a handler about to insert has a chargeable entry in hand; deferred calls never get there. `MeterImplemented` shows that `Insert` is a charge of the
meter, `Deposit` a deposit, and every other step a stutter. `ProcessedCharged` rests on `ReceiptInv` (receipts never go, and
a LiteLLM call's receipt names that call), `MirrorFollows` on `MirrorInv`, which relates transfers sent, transfers arrived and
the count of errors. `LedgerExplains` is about the last row of an account, so `LedgerInv` adds that every set of an
account's rows up to a position has a last one, and that each row's reference is a stored receipt or a deposit made, which is why
no append repeats one.

**`SumTheorems`** proves what the others need of the sums of the community modules, which are defined by a `CHOOSE` of a
recursive function: a sum over a finite set does not depend on the order in which it is taken, and grows, splits, scales and
regroups as it should. Induction comes from the fact that `<` is well-founded on the naturals (`NatSetInduction`,
`FiniteSetsAll`, both over a set of cases instead of a predicate). **`SharesProofs`** proves `SharesAddUp`: integer division
leaves between 0 and n - 1 credits to n claimants, a strict ranking has exactly that many ahead of the rest (`FirstOnes`,
`AheadIsStrict`), so largest-remainder gives away the whole pool or nothing, and no line is more than one credit above its quotient.

**`EpochsProofs`**, under `EpochsAssumption` and `NoneIsNothing`, for any number of passes that overlap in any way. `Shape` says
that the tables have a row per window and that a busy pass holds what materialisation carries; `Covered` says that, while
no pass has died, a counted receipt of an epoch that is not finalized and has no claimant is in the hand of a pass on its way to
claim it (`Claiming`). None of the properties is inductive. `SealedIsFrozen` needs the shape (a write to one window leaves the
others), that a pass meets the trigger before every write (`PastTheTrigger`: nobody gets past it once the epoch is
finalized; `LateRows`: a write uses up the place it was made from), and that locking is refused where a draft meets a locked row.
`WellFormed` says what tables, passes and desks may hold, among it that whatever is stored or about to be sealed is `Computed`: its
lines are the division of its pool among its allocation. `TypeCorrect` follows. `SignedStored` needs `Computed`: a later
approver is compared with the statement by allocation and liabilities, not by pool, and the pools agree because the lines
add up to them (`OwedFixesPool`, from `SharesAddUp`); where nothing is owed they need not, and the property says so.

`EpochBookKept` maps each step to one of the book: a seal stores a statement of a whole pool, the other steps open, review, turn
or sign. `Backed` says that statements pay for selected receipts only, and, of a single pass, `Apart` that selections are
disjoint and that no other window has selected what the pass is about to select; `SelectedApart` carries it for the book's
`Exclusive` promise alone. `LivingPassCompletes` is the one theorem that assumes a single pass: a second one may reach
its pool step while the first holds a receipt.

Three models were changed by their proofs. `FinalAnswer` of `WorkItems` was a `CASE` whose alternatives overlapped; it
follows the order of the code's branches now. `Allocation`, `PoolTotal` of `Epochs` were written as sums of functions made on
the fly, and are sums over a set of one function now, with the same value. And `GraphRuns`, `WorkItems`, `Settlements` and
`Epochs` name the assumptions on `None` and on finiteness that TLC had taken for granted.

## 12. What is not modelled

The components of the table that are not in bold, for the reasons `PROJECT.json` gives; within the others: logging and
metrics, response formatting, authentication, the content of messages and graphs, gas and fee accounting, the DAO's voting
(a root set by a vote instead of the publish condition) and GitHub bindings attested by an operator, which trigger no
reconciliation.
