---------------------------- MODULE UsageCharges ----------------------------
(***************************************************************************)
(* Usage billing: graphs call models; LiteLLM reports each call of the     *)
(* platform in batches it may post again, the stream consumer of a run     *)
(* reports the calls of the user's own provider, and each report becomes a *)
(* charge receipt, a debit and a ledger row in one transaction. A transfer *)
(* in TigerBeetle follows outside it, unawaited.                           *)
(*                                                                         *)
(* Reports interleave between the read of a receipt and the insertion that *)
(* a unique index judges. The credit preflight is left out: it decides     *)
(* what a caller sees, not what is charged, since the graph already runs   *)
(* when it reads the balance.                                              *)
(***************************************************************************)
EXTENDS Integers, Sequences, FiniteSets

CONSTANTS
  Calls,         \* model calls of the graph runs
  Byo,           \* the calls to a provider of the user's own (codex, ollama)
  Runs, RunOf,   \* [Calls -> Runs]
  Account,       \* [Calls -> billing account, known or not; None where LiteLLM was told none]
  Price,         \* [Calls -> credits, or None where the cost is unknown or suspiciously zero]
  Accounts,      \* billing accounts that exist
  SystemAccount, \* COGNI_SYSTEM_BILLING_ACCOUNT_ID
  Deposits, Beneficiary, Amount, \* credits bought, and whose and how many they are
  Opening,       \* balance of every account at the start
  Handlers,      \* requests and stream consumers a process serves at a time
  MaxBatch, MaxReports, \* bounds: calls of a post, reports of all
  MaxFaults,     \* bound: failed writes and transfers, and restarts
  None

ASSUME UsageChargesAssumption ==
  /\ Byo \subseteq Calls /\ RunOf \in [Calls -> Runs] /\ Runs \cap Calls = {}
  /\ Price \in [Calls -> Nat \cup {None}] /\ DOMAIN Account = Calls
  /\ None \notin Int \cup Calls \cup Accounts \cup [call : Calls, credits : Nat]
  /\ SystemAccount \in Accounts
  /\ Deposits \cap (Calls \cup Runs) = {}
  /\ Beneficiary \in [Deposits -> Accounts] /\ Amount \in [Deposits -> Nat \ {0}]
  /\ Opening \in Int
  /\ {MaxBatch, MaxReports, MaxFaults} \subseteq Nat

VARIABLES
  call,      \* [Calls -> none, success or failure]: the outcome there is to report
  receipts,  \* charge_receipts by unit: the call charged and the credits, or None
  ledger,    \* credit_ledger rows in commit order
  balance,   \* billing_accounts.balance_credits
  deposited, \* deposits settled
  handlers,  \* each report in progress: what is left of it, and the calls it counted as
             \* processed without an error
  cowrites,  \* transfers sent to TigerBeetle and not answered
  mirror,    \* transfers TigerBeetle has
  tb,        \* the client of this process: its accounts untried, ready, or failed for good
  reports, faults

vars == <<call, receipts, ledger, balance, deposited, handlers, cowrites, mirror, tb, reports, faults>>
books == <<receipts, ledger, balance>>
counters == <<reports, faults>>

\* source_reference: runId/attempt/callId for LiteLLM, runId/attempt/byo for every call
\* a run makes to the user's own provider.
Units == Calls \cup Runs
Unit_OfTheRun(c) == RunOf[c]
Unit(c) == IF c \in Byo THEN RunOf[c] ELSE c
Payer(c) == IF Account[c] = None THEN SystemAccount ELSE Account[c]

Report(pc, todo, ok) == [pc |-> pc, todo |-> todo, ok |-> ok]
Idle == Report("idle", <<>>, {})

Init ==
  /\ call = [c \in Calls |-> "none"]
  /\ receipts = [u \in Units |-> None]
  /\ ledger = <<>>
  /\ balance = [a \in Accounts |-> Opening]
  /\ deposited = {}
  /\ handlers = [h \in Handlers |-> Idle]
  /\ cowrites = {} /\ mirror = {} /\ tb = "untried"
  /\ reports = 0 /\ faults = 0

Fault == faults < MaxFaults /\ faults' = faults + 1 /\ UNCHANGED reports

-----------------------------------------------------------------------------
(* Calls and reports *)

\* The graph calls a model. LiteLLM logs either outcome; a call of the user's own provider
\* that fails reports no usage, as if it was never made.
Answer(c) ==
  /\ call[c] = "none"
  /\ \E outcome \in IF c \in Byo THEN {"success"} ELSE {"success", "failure"} :
       call' = [call EXCEPT ![c] = outcome]
  /\ UNCHANGED <<books, deposited, handlers, cowrites, mirror, tb, counters>>

Begin(h, batch) ==
  /\ handlers[h] = Idle /\ reports < MaxReports
  /\ handlers' = [handlers EXCEPT ![h] = Report("entry", batch, {})]
  /\ reports' = reports + 1
  /\ UNCHANGED <<call, books, deposited, cowrites, mirror, tb, faults>>

\* LiteLLM posts some of the calls it logged, maybe not for the first time or twice.
Post(h) ==
  \E n \in 1..MaxBatch : \E batch \in [1..n -> {c \in Calls \ Byo : call[c] # "none"}] :
    Begin(h, batch)

\* The consumer of a run's stream meets the usage report of a call that succeeded; a
\* run that is executed again reports again.
Consume(h) == \E c \in Byo : call[c] = "success" /\ Begin(h, <<c>>)

-----------------------------------------------------------------------------
(* One entry of a report *)

\* The entry is done with; the calls of ok met no error.
Past(h, ok) ==
  handlers' = [handlers EXCEPT ![h] = Report("entry", Tail(@.todo), @.ok \cup ok)]

\* What the report counts as processed, whatever its cost.
Processable(c) == call[c] = "success" /\ Payer(c) \in Accounts
Chargeable(c) == Processable(c) /\ Price[c] # None

\* Failed calls and unknown accounts are skipped. A cost that is not to be trusted is
\* deferred without a receipt or an error, and a receipt that is there answers the report:
\* both count as processed. The transaction of the others has begun.
Check(h) ==
  /\ handlers[h].pc = "entry" /\ handlers[h].todo # <<>>
  /\ LET c == Head(handlers[h].todo) IN
       \/ ~Processable(c) /\ Past(h, {})
       \/ Processable(c) /\ Price[c] = None /\ Past(h, {c})
       \/ Chargeable(c) /\ receipts[Unit(c)] # None /\ Past(h, {c})
       \/ /\ Chargeable(c) /\ receipts[Unit(c)] = None
          /\ handlers' = [handlers EXCEPT ![h].pc = "insert"]
  /\ UNCHANGED <<call, books, deposited, cowrites, mirror, tb, counters>>

Row(account, amount, after, reference) ==
  [account |-> account, amount |-> amount, after |-> after, reference |-> reference]
Moved_NeverNegative(account, amount) ==
  [balance EXCEPT ![account] = IF @ + amount < 0 THEN 0 ELSE @ + amount]
Moved(account, amount) == [balance EXCEPT ![account] = @ + amount]

\* charge_receipts_source_idempotency_unique
CanInsert_NoIndex(u) == TRUE
CanInsert(u) == receipts[u] = None

Insert(h) ==
  /\ handlers[h].pc = "insert"
  /\ LET c == Head(handlers[h].todo) IN
       /\ CanInsert(Unit(c))
       /\ receipts' = [receipts EXCEPT ![Unit(c)] = [call |-> c, credits |-> Price[c]]]
       /\ balance' = Moved(Payer(c), -Price[c])
       /\ ledger' = Append(ledger, Row(Payer(c), -Price[c], balance'[Payer(c)], Unit(c)))
       /\ cowrites' = cowrites \cup {Unit(c)}
       /\ Past(h, {c})
  /\ UNCHANGED <<call, deposited, mirror, tb, counters>>

\* A transfer sent whether or not the transaction committed.
Refused_Transferred(h) ==
  /\ handlers[h].pc = "insert"
  /\ Past(h, {}) /\ Fault
  /\ cowrites' = cowrites \cup {Unit(Head(handlers[h].todo))}
  /\ UNCHANGED <<call, books, deposited, mirror, tb>>

\* The transaction is rolled back, because another report's receipt came first or the
\* database failed; commitUsageFact swallows the error and the entry counts as processed.
Refused(h) ==
  /\ handlers[h].pc = "insert"
  /\ LET c == Head(handlers[h].todo) IN
       \/ ~CanInsert(Unit(c)) /\ Past(h, {c}) /\ UNCHANGED counters
       \/ Past(h, {}) /\ Fault
  /\ UNCHANGED <<call, books, deposited, cowrites, mirror, tb>>

\* 200, whatever became of the writes; or the stream goes on.
Done(h) ==
  /\ handlers[h].pc = "entry" /\ handlers[h].todo = <<>>
  /\ handlers' = [handlers EXCEPT ![h] = Idle]
  /\ UNCHANGED <<call, books, deposited, cowrites, mirror, tb, counters>>

-----------------------------------------------------------------------------
(* Deposits, the mirror, restarts *)

\* creditAccount for a payment: no transfer follows, since the reason is never "deposit".
Deposit(d) ==
  /\ d \notin deposited
  /\ deposited' = deposited \cup {d}
  /\ balance' = Moved(Beneficiary[d], Amount[d])
  /\ ledger' = Append(ledger, Row(Beneficiary[d], Amount[d], balance'[Beneficiary[d]], d))
  /\ UNCHANGED <<call, receipts, handlers, cowrites, mirror, tb, counters>>

\* The first transfer of a process creates the accounts.
Transfer(u) ==
  /\ u \in cowrites /\ tb # "failed"
  /\ tb' = "ready"
  /\ mirror' = mirror \cup {u} /\ cowrites' = cowrites \ {u}
  /\ UNCHANGED <<call, books, deposited, handlers, counters>>

\* A transfer fails and is logged. A failure to create the accounts is remembered:
\* every later transfer of the process awaits the same rejected promise.
TransferFails(u) ==
  /\ u \in cowrites /\ cowrites' = cowrites \ {u}
  /\ \/ tb = "failed" /\ UNCHANGED <<tb, counters>>
     \/ tb = "untried" /\ tb' = "failed" /\ Fault
     \/ tb # "failed" /\ tb' = "ready" /\ Fault
  /\ UNCHANGED <<call, books, deposited, handlers, mirror>>

\* The process dies with its reports and its unanswered transfers, and is restarted.
Restart ==
  /\ Fault
  /\ handlers' = [h \in Handlers |-> Idle]
  /\ cowrites' = {} /\ tb' = "untried"
  /\ UNCHANGED <<call, books, deposited, mirror>>

Next ==
  \/ \E c \in Calls : Answer(c)
  \/ \E h \in Handlers : Post(h) \/ Consume(h) \/ Check(h) \/ Insert(h) \/ Refused(h) \/ Done(h)
  \/ \E d \in Deposits : Deposit(d)
  \/ \E u \in Units : Transfer(u) \/ TransferFails(u)
  \/ Restart

Spec == Init /\ [][Next]_vars

-----------------------------------------------------------------------------
(* Properties *)

Charges == [call : Calls, credits : Nat]
Reports == [pc : {"idle", "entry", "insert"}, todo : Seq(Calls), ok : SUBSET Calls]

TypeOK ==
  /\ call \in [Calls -> {"none", "success", "failure"}]
  /\ receipts \in [Units -> Charges \cup {None}]
  /\ balance \in [Accounts -> Int]
  /\ deposited \subseteq Deposits
  /\ handlers \in [Handlers -> Reports]
  /\ \A h \in Handlers : handlers[h].pc = "insert" =>
       handlers[h].todo # <<>> /\ Chargeable(Head(handlers[h].todo))
  /\ cowrites \subseteq Units /\ mirror \subseteq Units
  /\ tb \in {"untried", "ready", "failed"}

\* What is charged, and for which call.
Charged == [u \in Units |-> IF receipts[u] = None THEN None ELSE receipts[u].call]

\* Whatever reports are repeated, overlap, fail or die with their process, billing is a
\* meter that charges each unit once (billing.ts:45, drizzle.adapter.ts:362).
Meter == INSTANCE UsageMeter WITH charged <- Charged
ImplementsUsageMeter == Meter!Spec

\* The balance is what the account's rows make of it one after the other: each row's
\* balance_after is the previous one moved by its amount, the last is the balance, and
\* every receipt and every deposit has its row (drizzle.adapter.ts:438-470, 521-547).
RowsOf(account, n) == {i \in 1..n : ledger[i].account = account}
LastAfter(account, n) ==
  IF RowsOf(account, n) = {} THEN Opening
  ELSE ledger[CHOOSE i \in RowsOf(account, n) : \A j \in RowsOf(account, n) : j <= i].after
LedgerExplainsBalance ==
  /\ \A a \in Accounts : balance[a] = LastAfter(a, Len(ledger))
  /\ \A i \in 1..Len(ledger), a \in Accounts : ledger[i].account = a =>
       ledger[i].after = LastAfter(a, i - 1) + ledger[i].amount
  /\ \A u \in Units : receipts[u] # None =>
       \E i \in 1..Len(ledger) :
         /\ ledger[i].reference = u /\ ledger[i].amount = -receipts[u].credits
         /\ \A j \in 1..Len(ledger) : ledger[j].reference = u => j = i

\* A call that a report counted as processed is charged unless its write met an error
\* or its cost was deferred, even though the report answers 200 whatever happened and
\* takes a refused insertion for success (route.ts:322, billing.ts:186); a LiteLLM call
\* is charged for itself, not through another call.
ProcessedIsCharged ==
  \A h \in Handlers : \A c \in {d \in handlers[h].ok : Price[d] # None} :
    /\ receipts[Unit(c)] # None
    /\ c \notin Byo => receipts[Unit(c)].call = c

\* TigerBeetle mirrors only receipts that were committed, and misses one only after an
\* error or a restart (drizzle.adapter.ts:473).
MirrorFollowsReceipts ==
  LET charged == {u \in Units : receipts[u] # None} IN
    /\ mirror \cup cowrites \subseteq charged
    /\ mirror \cap cowrites = {}
    /\ mirror \cup cowrites # charged => faults > 0
=============================================================================
