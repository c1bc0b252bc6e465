------------------------------ MODULE Payments ------------------------------
(***************************************************************************)
(* USDC credit purchases: payment attempts, their on-chain verification,   *)
(* the credit ledger they write and the treasury settlement that follows.  *)
(*                                                                         *)
(* Every HTTP request (submit a transaction hash, poll the status) runs    *)
(* the handlers of paymentService.ts.  Each `await` on the database, on    *)
(* the chain RPC or on the treasury is one action, so two requests for the *)
(* same attempt interleave at every await, each with its own stale copy of *)
(* the row.  A request may also die at any await (Fail): a database error, *)
(* a dropped connection or a restart of the process.                       *)
(***************************************************************************)
EXTENDS Integers

CONSTANTS
  Attempts,       \* ids of payment attempts
  Accounts,       \* user billing accounts; each has one SIWE wallet
  SystemAccount,  \* the system tenant's billing account
  Txs,            \* transaction hashes
  Requests,       \* concurrent HTTP requests
  Amounts,        \* USD cents a user may ask for
  CreditsPerUsd,  \* CREDITS_PER_USD
  RevenueShare,   \* SYSTEM_TENANT_REVENUE_SHARE, in ten-thousandths
  TxFrom,         \* sender wallet (an account) of each transaction
  TxAmount,       \* cents of USDC a transaction pays the receiver, 0: none
  IntentTTL,      \* PAYMENT_INTENT_TTL_MS
  PendingTTL,     \* PENDING_UNVERIFIED_TTL_MS
  VerifyThrottle, \* VERIFY_THROTTLE_SECONDS
  MinConfirmations, \* MIN_CONFIRMATIONS
  MaxTime,        \* bound of the clock
  MaxHeight,      \* bound of the number of the chain's head block
  FundingCap,     \* bound of the count of settlements of one transaction
  None            \* SQL NULL

ASSUME PaymentsAssumption ==
  /\ SystemAccount \notin Accounts
  /\ Amounts \subseteq Nat \ {0}
  /\ CreditsPerUsd \in Nat /\ RevenueShare \in Nat
  /\ TxFrom \in [Txs -> Accounts]
  /\ TxAmount \in [Txs -> Nat]
  /\ IntentTTL \in Nat /\ PendingTTL \in Nat /\ VerifyThrottle \in Nat
  /\ MinConfirmations \in Nat
  /\ MaxTime \in Nat /\ MaxHeight \in Nat /\ FundingCap \in Nat \ {0}
  /\ None \notin Nat /\ None \notin Txs /\ None \notin Accounts
  /\ None \notin Attempts
  /\ None \notin {"TOKEN_TRANSFER_NOT_FOUND", "INSUFFICIENT_AMOUNT"}

VARIABLES
  now,       \* the clock
  attempts,  \* table payment_attempts
  chain,     \* where each transaction is, as the RPC node sees it
  minedAt,   \* numbers of the blocks that have held it, reorganised ones too
  height,    \* number of the head block
  ledger,    \* table credit_ledger
  balance,   \* billing_accounts.balance_credits
  funding,   \* runs of the treasury settlement per transaction
  tb,        \* transactions whose Split distribute is in TigerBeetle
  req        \* the local state of each request

evm == <<chain, minedAt, height>>
vars == <<now, attempts, chain, minedAt, height, ledger, balance, funding, tb, req>>

-----------------------------------------------------------------------------
(* Data *)

Time == 0 .. MaxTime
Statuses ==
  {"CREATED_INTENT", "PENDING_UNVERIFIED", "CREDITED", "REJECTED", "FAILED"}
ChainStates == {"absent", "mempool", "mined", "reverted"}
Reasons == {"widget_payment", "platform_revenue_share"}

(* The error code of a row is left out: nothing ever reads it back. *)
PaymentAttempt ==
  [account: Accounts, cents: Amounts, status: Statuses, tx: Txs \cup {None},
   expires: Nat \cup {None}, submitted: Time \cup {None},
   lastVerify: Time \cup {None}]
NoRow == [status |-> "NONE"]
Exists(a) == attempts[a] # NoRow

LedgerEntry ==
  [reason: Reasons, account: Accounts \cup {SystemAccount}, ref: Txs,
   attempt: Attempts, amount: Nat, balanceAfter: Nat]

PCs == {"idle", "bind", "record", "getTransaction", "getReceipt",
        "getBlockNumber", "update", "findEntry", "creditUser", "findBonus",
        "mintBonus", "markCredited", "settle", "coWrite"}
Request ==
  [pc: PCs, attempt: Attempts \cup {None}, tx: Txs \cup {None}, now: Time,
   status: Statuses, block: Nat \cup {None}]
RequestAt(pc, a, tx, t, status) ==
  [pc |-> pc, attempt |-> a, tx |-> tx, now |-> t, status |-> status,
   block |-> None]
Idle == RequestAt("idle", None, None, 0, "CREATED_INTENT")

(* The state machine of core/payments/rules.ts. *)
IsTerminalState(s) == s \in {"CREDITED", "REJECTED", "FAILED"}

IsValidTransition(from, to) ==
  \/ from = "CREATED_INTENT" /\ to \in {"PENDING_UNVERIFIED", "FAILED"}
  \/ from = "PENDING_UNVERIFIED" /\ to \in {"CREDITED", "REJECTED", "FAILED"}

IsIntentExpired(row, t) ==
  row.status = "CREATED_INTENT" /\ row.expires # None /\ t >= row.expires

IsVerificationTimedOut_Never(row, t) == FALSE
IsVerificationTimedOut(row, t) ==
  /\ row.status = "PENDING_UNVERIFIED"
  /\ row.submitted # None
  /\ t - row.submitted > PendingTTL

(* usdCentsToCredits rounds up, calculateRevenueShareBonus rounds down. *)
CreditsOf(cents) == (cents * CreditsPerUsd + 99) \div 100
BonusOf(credits) == (credits * RevenueShare) \div 10000

(* What the RPC verifier finds wrong with the transfer in a receipt, None:  *)
(* nothing.                                                                *)
TransferError(tx, cents) ==
  CASE TxAmount[tx] = 0                   -> "TOKEN_TRANSFER_NOT_FOUND"
    [] TxAmount[tx] \in 1 .. cents - 1    -> "INSUFFICIENT_AMOUNT"
    [] OTHER                              -> None

EnoughConfirmations_NotCounted(block) == TRUE
EnoughConfirmations(block) == height - block >= MinConfirmations

(* Credit ledger entries of one reason that reference a transaction; the   *)
(* partial unique indexes of credit_ledger keep at most one per reason,    *)
(* whatever the account.                                                   *)
EntriesFor(reason, tx) == {e \in ledger : e.reason = reason /\ e.ref = tx}
FindEntry(account, reason, tx) ==
  {e \in EntriesFor(reason, tx) : e.account = account}

-----------------------------------------------------------------------------
(* Initial state *)

Init ==
  /\ now = 0
  /\ attempts = [a \in Attempts |-> NoRow]
  /\ chain = [tx \in Txs |-> "absent"]
  /\ minedAt = [tx \in Txs |-> {}]
  /\ height = 0
  /\ ledger = {}
  /\ balance = [b \in Accounts \cup {SystemAccount} |-> 0]
  /\ funding = [tx \in Txs |-> 0]
  /\ tb = {}
  /\ req = [r \in Requests |-> Idle]

-----------------------------------------------------------------------------
(* The environment: the clock and the chain *)

Tick ==
  /\ now < MaxTime
  /\ now' = now + 1
  /\ UNCHANGED <<attempts, evm, ledger, balance, funding, tb, req>>

NewBlock ==
  /\ height < MaxHeight
  /\ height' = height + 1
  /\ UNCHANGED <<now, attempts, chain, minedAt, ledger, balance, funding, tb,
                 req>>

(* A transaction reaches the mempool, may be dropped, reverts for good or   *)
(* is mined in the head block; a mined one may be reorganised out until    *)
(* MIN_CONFIRMATIONS blocks are on top of it.                              *)
ChainStep(tx) ==
  /\ \/ /\ \/ chain[tx] = "absent" /\ chain' = [chain EXCEPT ![tx] = "mempool"]
           \/ /\ chain[tx] = "mempool"
              /\ \E s \in {"absent", "reverted"} : chain' = [chain EXCEPT ![tx] = s]
           \/ /\ chain[tx] = "mined"
              /\ \A b \in minedAt[tx] : height - b < MinConfirmations
              /\ chain' = [chain EXCEPT ![tx] = "mempool"]
        /\ UNCHANGED minedAt
     \/ /\ chain[tx] = "mempool"
        /\ chain' = [chain EXCEPT ![tx] = "mined"]
        /\ minedAt' = [minedAt EXCEPT ![tx] = @ \cup {height}]
  /\ UNCHANGED <<now, attempts, height, ledger, balance, funding, tb, req>>

-----------------------------------------------------------------------------
(* Requests *)

money == <<ledger, balance>>
settlement == <<funding, tb>>

Goto(r, pc) == req' = [req EXCEPT ![r].pc = pc]
End(r) == req' = [req EXCEPT ![r] = Idle]
SetStatus(a, status) == attempts' = [attempts EXCEPT ![a].status = status]

(* updateStatus will run next, with this target. *)
GotoUpdate(r, a, status) ==
  req' = [req EXCEPT ![r] = RequestAt("update", a, None, 0, status)]

NewAttempt(account, cents) ==
  [account |-> account, cents |-> cents, status |-> "CREATED_INTENT",
   tx |-> None, expires |-> now + IntentTTL, submitted |-> None,
   lastVerify |-> None]

CreateIntent(a, account, cents) ==
  /\ ~Exists(a)
  /\ attempts' = [attempts EXCEPT ![a] = NewAttempt(account, cents)]
  /\ UNCHANGED <<now, evm, money, settlement, req>>

(* submitTxHash up to its first write; a hash already bound to the attempt *)
(* returns the row as it is.                                               *)
Submit(r, a, tx) ==
  /\ req[r].pc = "idle"
  /\ Exists(a)
  /\ attempts[a].tx # tx
  /\ IF IsIntentExpired(attempts[a], now)
     THEN GotoUpdate(r, a, "FAILED")
     ELSE req' = [req EXCEPT ![r] =
                    RequestAt("bind", a, tx, now, "CREATED_INTENT")]
  /\ UNCHANGED <<now, attempts, evm, money, settlement>>

(* bindTxHash: the duplicate check and the update are one transaction, and *)
(* a unique index backs the check.  The status of the row is not read.     *)
BoundElsewhere_NotChecked(a, tx) == FALSE
BoundElsewhere(a, tx) ==
  \E b \in Attempts \ {a} : Exists(b) /\ attempts[b].tx = tx

Bind(r) ==
  LET a == req[r].attempt  tx == req[r].tx IN
  /\ req[r].pc = "bind"
  /\ IF BoundElsewhere(a, tx)
     THEN End(r) /\ UNCHANGED attempts
     ELSE /\ attempts' = [attempts EXCEPT
                 ![a].tx = tx, ![a].submitted = req[r].now,
                 ![a].expires = None, ![a].status = "PENDING_UNVERIFIED"]
          /\ req' = [req EXCEPT ![r] =
                       RequestAt("getTransaction", a, tx, 0, "PENDING_UNVERIFIED")]
  /\ UNCHANGED <<now, evm, money, settlement>>

(* getStatus up to its first write; with nothing to write it only reads. *)
ShouldVerify(row, t) ==
  row.lastVerify # None => t - row.lastVerify >= VerifyThrottle

Poll(r, a) ==
  /\ req[r].pc = "idle"
  /\ Exists(a)
  /\ \/ /\ IsIntentExpired(attempts[a], now)
        /\ GotoUpdate(r, a, "FAILED")
     \/ /\ IsVerificationTimedOut(attempts[a], now)
        /\ GotoUpdate(r, a, "FAILED")
     \/ /\ attempts[a].status = "PENDING_UNVERIFIED"
        /\ ~IsVerificationTimedOut(attempts[a], now)
        /\ ShouldVerify(attempts[a], now)
        /\ req' = [req EXCEPT ![r] =
                     RequestAt("record", a, None, now, "PENDING_UNVERIFIED")]
  /\ UNCHANGED <<now, attempts, evm, money, settlement>>

(* recordVerificationAttempt stamps the row, whatever its status has       *)
(* become, and hands back a fresh copy of it.                              *)
Record(r) ==
  LET a == req[r].attempt IN
  /\ req[r].pc = "record"
  /\ attempts' = [attempts EXCEPT ![a].lastVerify = req[r].now]
  /\ req' = [req EXCEPT ![r] = RequestAt("getTransaction", a, attempts[a].tx, 0,
                                          attempts[a].status)]
  /\ UNCHANGED <<now, evm, money, settlement>>

(***************************************************************************)
(* The RPC verifier asks the node three times, and verifyAndSettle acts on  *)
(* the combined answer: an error code rejects the local copy of the attempt *)
(* when it may still change, PENDING and RPC_ERROR leave it for the next    *)
(* poll.  Any of the three calls may fail (End).                            *)
(***************************************************************************)
RejectWith(r, code) ==
  LET target == IF code = "TX_REVERTED" THEN "FAILED" ELSE "REJECTED" IN
  IF IsValidTransition(req[r].status, target)
  THEN GotoUpdate(r, req[r].attempt, target)
  ELSE End(r)

GetTransaction(r) ==
  /\ req[r].pc = "getTransaction"
  /\ \/ End(r)
     \/ chain[req[r].tx] = "absent" /\ RejectWith(r, "TX_NOT_FOUND")
     \/ chain[req[r].tx] # "absent" /\ Goto(r, "getReceipt")
  /\ UNCHANGED <<now, attempts, evm, money, settlement>>

(* No receipt yet is PENDING; a receipt names the block it was read in. *)
GetReceipt(r) ==
  LET a == req[r].attempt  tx == req[r].tx
      error == TransferError(tx, attempts[a].cents) IN
  /\ req[r].pc = "getReceipt"
  /\ \/ End(r)
     \/ chain[tx] = "reverted" /\ RejectWith(r, "TX_REVERTED")
     \/ chain[tx] = "mined" /\ error # None /\ RejectWith(r, error)
     \/ /\ chain[tx] = "mined" /\ error = None
        /\ \E b \in minedAt[tx] :
             /\ \A older \in minedAt[tx] : older <= b
             /\ req' = [req EXCEPT ![r].pc = "getBlockNumber", ![r].block = b]
  /\ UNCHANGED <<now, attempts, evm, money, settlement>>

(* Confirmations are counted from the receipt's block, wherever the        *)
(* transaction is by now; the sender is compared last.                     *)
SenderMatches_NotCompared(a, tx) == TRUE
SenderMatches(a, tx) == TxFrom[tx] = attempts[a].account

GetBlockNumber(r) ==
  LET a == req[r].attempt  tx == req[r].tx IN
  /\ req[r].pc = "getBlockNumber"
  /\ \/ End(r)
     \/ /\ EnoughConfirmations(req[r].block)
        /\ IF SenderMatches(a, tx)
           THEN req' = [req EXCEPT ![r].pc = "findEntry", ![r].block = None]
           ELSE RejectWith(r, "SENDER_MISMATCH")
  /\ UNCHANGED <<now, attempts, evm, money, settlement>>

(* updateStatus: no condition on the status the row has by now. *)
UpdateStatus(r) ==
  /\ req[r].pc = "update"
  /\ SetStatus(req[r].attempt, req[r].status)
  /\ End(r)
  /\ UNCHANGED <<now, evm, money, settlement>>

-----------------------------------------------------------------------------
(* Settlement: confirmCreditsPayment, then the status, then the treasury *)

(* findCreditLedgerEntryByReference sees only the account's own entries. An *)
(* entry found ends confirmCreditsPayment, bonus included.                  *)
FindUserEntry_StatusFirst(r) ==
  /\ req[r].pc = "findEntry"
  /\ Goto(r, "markCredited")
  /\ UNCHANGED <<now, attempts, evm, money, settlement>>
FindUserEntry(r) ==
  LET account == attempts[req[r].attempt].account IN
  /\ req[r].pc = "findEntry"
  /\ IF FindEntry(account, "widget_payment", req[r].tx) # {}
     THEN Goto(r, "markCredited")
     ELSE Goto(r, "creditUser")
  /\ UNCHANGED <<now, attempts, evm, money, settlement>>

(* creditAccount: balance and ledger in one database transaction.  A       *)
(* second entry for the reference violates the unique index and throws.    *)
CanInsert_NoUniqueIndex(reason, tx) == TRUE
CanInsert(reason, tx) == EntriesFor(reason, tx) = {}

NewEntry(account, reason, tx, a, amount) ==
  [reason |-> reason, account |-> account, ref |-> tx, attempt |-> a,
   amount |-> amount, balanceAfter |-> balance[account] + amount]

CreditAccount(account, reason, tx, a, amount) ==
  /\ ledger' = ledger \cup {NewEntry(account, reason, tx, a, amount)}
  /\ balance' = [balance EXCEPT ![account] = @ + amount]

CreditUser(r) ==
  LET a == req[r].attempt  tx == req[r].tx IN
  /\ req[r].pc = "creditUser"
  /\ IF CanInsert("widget_payment", tx)
     THEN /\ CreditAccount(attempts[a].account, "widget_payment", tx, a,
                           CreditsOf(attempts[a].cents))
          /\ Goto(r, IF BonusOf(CreditsOf(attempts[a].cents)) > 0
                     THEN "findBonus" ELSE "markCredited")
     ELSE End(r) /\ UNCHANGED money
  /\ UNCHANGED <<now, attempts, evm, settlement>>

FindBonus(r) ==
  /\ req[r].pc = "findBonus"
  /\ IF FindEntry(SystemAccount, "platform_revenue_share", req[r].tx) # {}
     THEN Goto(r, "markCredited")
     ELSE Goto(r, "mintBonus")
  /\ UNCHANGED <<now, attempts, evm, money, settlement>>

MintBonus(r) ==
  LET a == req[r].attempt  tx == req[r].tx IN
  /\ req[r].pc = "mintBonus"
  /\ IF CanInsert("platform_revenue_share", tx)
     THEN /\ CreditAccount(SystemAccount, "platform_revenue_share", tx, a,
                           BonusOf(CreditsOf(attempts[a].cents)))
          /\ Goto(r, "markCredited")
     ELSE End(r) /\ UNCHANGED money
  /\ UNCHANGED <<now, attempts, evm, settlement>>

(* The transition is judged on the local copy; the write is blind. *)
MarkCredited(r) ==
  /\ req[r].pc = "markCredited"
  /\ IF IsValidTransition(req[r].status, "CREDITED")
     THEN /\ SetStatus(req[r].attempt, "CREDITED")
          /\ Goto(r, "settle")
     ELSE End(r) /\ UNCHANGED attempts
  /\ UNCHANGED <<now, evm, money, settlement>>

(* runPostCreditFunding: distribute the Split, then co-write TigerBeetle.  *)
(* Neither failure is reported; the transfer id is derived from the        *)
(* transaction, so TigerBeetle keeps one per transaction.                  *)
Settle(r) ==
  LET tx == req[r].tx IN
  /\ req[r].pc = "settle"
  /\ \/ End(r) /\ UNCHANGED funding
     \/ /\ funding[tx] < FundingCap
        /\ funding' = [funding EXCEPT ![tx] = @ + 1]
        /\ Goto(r, "coWrite")
  /\ UNCHANGED <<now, attempts, evm, money, tb>>

CoWrite(r) ==
  /\ req[r].pc = "coWrite"
  /\ tb' \in {tb, tb \cup {req[r].tx}}
  /\ End(r)
  /\ UNCHANGED <<now, attempts, evm, money, funding>>

(* A request dies between two awaits: its writes so far stay. *)
Fail(r) ==
  /\ req[r].pc # "idle"
  /\ End(r)
  /\ UNCHANGED <<now, attempts, evm, money, settlement>>

Process(r) ==
  \/ Bind(r) \/ Record(r) \/ GetTransaction(r) \/ GetReceipt(r)
  \/ GetBlockNumber(r) \/ UpdateStatus(r)
  \/ FindUserEntry(r) \/ CreditUser(r) \/ FindBonus(r) \/ MintBonus(r)
  \/ MarkCredited(r) \/ Settle(r) \/ CoWrite(r)

Next ==
  \/ Tick
  \/ NewBlock
  \/ \E tx \in Txs : ChainStep(tx)
  \/ \E a \in Attempts, account \in Accounts, cents \in Amounts :
       CreateIntent(a, account, cents)
  \/ \E r \in Requests, a \in Attempts, tx \in Txs : Submit(r, a, tx)
  \/ \E r \in Requests, a \in Attempts : Poll(r, a)
  \/ \E r \in Requests : Process(r) \/ Fail(r)

Spec == Init /\ [][Next]_vars

-----------------------------------------------------------------------------
(* Properties *)

TypeOK ==
  /\ now \in Time
  /\ attempts \in [Attempts -> PaymentAttempt \cup {NoRow}]
  /\ chain \in [Txs -> ChainStates]
  /\ minedAt \in [Txs -> SUBSET Nat]
  /\ height \in Nat
  /\ ledger \subseteq LedgerEntry
  /\ balance \in [Accounts \cup {SystemAccount} -> Nat]
  /\ funding \in [Txs -> Nat]
  /\ tb \subseteq Txs
  /\ req \in [Requests -> Request]

(* A transfer is credited at most once and brings at most one bonus, even  *)
(* when two requests both found no ledger entry before either wrote one.   *)
OneCreditPerTransfer ==
  \A e1, e2 \in ledger :
    e1.reason = e2.reason /\ e1.ref = e2.ref => e1 = e2

(* Credits are only ever given for a transfer that a block held which now  *)
(* has MIN_CONFIRMATIONS blocks on top, that was sent by the credited       *)
(* account's own wallet and pays at least the attempt that was credited,   *)
(* for exactly the credits of that attempt, however the hash was bound,    *)
(* rebound or polled in between.  That the transfer is still on the chain  *)
(* is more than the code ensures: it counts from the receipt it read, so a *)
(* transfer reorganised out between the receipt and the head is credited.  *)
Confirmed(tx) == \E b \in minedAt[tx] : height - b >= MinConfirmations

CreditsBackedByTransfer ==
  \A e \in ledger : e.reason = "widget_payment" =>
    /\ Confirmed(e.ref)
    /\ TxFrom[e.ref] = e.account
    /\ attempts[e.attempt].account = e.account
    /\ TxAmount[e.ref] >= attempts[e.attempt].cents
    /\ e.amount = CreditsOf(attempts[e.attempt].cents)

(* The system tenant's bonus is minted only for a transfer whose user was  *)
(* credited, and is the share of exactly those credits.                    *)
BonusFollowsCredit ==
  \A e \in ledger : e.reason = "platform_revenue_share" =>
    /\ e.account = SystemAccount
    /\ \E c \in EntriesFor("widget_payment", e.ref) :
         e.amount = BonusOf(c.amount)

(* An attempt shown as CREDITED belongs to an account that was credited.   *)
CreditedIsPaid ==
  \A a \in Attempts : Exists(a) /\ attempts[a].status = "CREDITED" =>
    \E e \in ledger : /\ e.reason = "widget_payment"
                      /\ e.account = attempts[a].account

(* One transaction pays for one attempt at a time. *)
TxBoundOnce ==
  \A a, b \in Attempts :
    /\ Exists(a) /\ Exists(b)
    /\ attempts[a].tx = attempts[b].tx /\ attempts[a].tx # None
    => a = b

(* The treasury distributes only money whose user has been credited, and   *)
(* TigerBeetle records only distributions that ran.                        *)
SettlementFollowsCredit ==
  \A tx \in Txs :
    /\ funding[tx] > 0 => EntriesFor("widget_payment", tx) # {}
    /\ tx \in tb => funding[tx] > 0

(***************************************************************************)
(* The inductive invariant behind the above: what a request may rely on at *)
(* each await.  Blocks once counted, the ledger and the account and amount *)
(* of an attempt never change again, so what it verified stays true.       *)
(***************************************************************************)
Verifying == {"getTransaction", "getReceipt", "getBlockNumber"}
Settling == {"findEntry", "creditUser", "findBonus", "mintBonus",
             "markCredited", "settle", "coWrite"}

Verified(a, tx) ==
  /\ Confirmed(tx)
  /\ TxFrom[tx] = attempts[a].account
  /\ TxAmount[tx] >= attempts[a].cents

CreditedTo(account, tx) ==
  \E e \in ledger : /\ e.reason = "widget_payment" /\ e.ref = tx
                    /\ e.account = account

RequestOK(q) ==
  /\ q.pc # "idle" => q.attempt \in Attempts /\ Exists(q.attempt)
  /\ q.pc \in {"bind"} \cup Verifying \cup Settling => q.tx \in Txs
  /\ q.pc = "record" => attempts[q.attempt].tx \in Txs
  /\ q.pc = "update" => q.status \in {"FAILED", "REJECTED"}
  /\ q.pc = "getBlockNumber" => /\ q.block \in minedAt[q.tx]
                                /\ TxAmount[q.tx] >= attempts[q.attempt].cents
  /\ q.pc \in Settling => Verified(q.attempt, q.tx)
  /\ q.pc \in Settling \ {"findEntry", "creditUser"} =>
       CreditedTo(attempts[q.attempt].account, q.tx)
  /\ q.pc \in {"findBonus", "mintBonus"} =>
       \E c \in EntriesFor("widget_payment", q.tx) :
         c.amount = CreditsOf(attempts[q.attempt].cents)
  /\ q.pc = "coWrite" => funding[q.tx] > 0
RequestInv == \A r \in Requests : RequestOK(req[r])

RowInv ==
  /\ \A a \in Attempts :
       Exists(a) /\ attempts[a].status = "PENDING_UNVERIFIED"
         => attempts[a].tx \in Txs
  /\ \A e \in ledger : Exists(e.attempt)

IInv ==
  /\ TypeOK /\ RequestInv /\ RowInv
  /\ OneCreditPerTransfer /\ CreditsBackedByTransfer /\ BonusFollowsCredit
  /\ CreditedIsPaid /\ TxBoundOnce /\ SettlementFollowsCredit

(* The whole of it: seen through the ledger, the purchase flow is the      *)
(* abstract PurchaseLedger.                                                *)
CreditFor(tx) == {[to |-> e.account, credits |-> e.amount] :
                    e \in EntriesFor("widget_payment", tx)}
BonusFor(tx) == {e.amount : e \in EntriesFor("platform_revenue_share", tx)}

Abstract == INSTANCE PurchaseLedger WITH
  confirmed <- {tx \in Txs : Confirmed(tx)},
  credit    <- [tx \in Txs |-> CreditFor(tx)],
  bonus     <- [tx \in Txs |-> BonusFor(tx)]
ImplementsPurchaseLedger == Abstract!Spec

-----------------------------------------------------------------------------
(* A claim of the source that the code does not keep *)

(* creditsConfirm.ts:86: "If crash between steps: retry skips user credit  *)
(* (idempotent), applies system tenant credit": a request that settles a   *)
(* credited transfer to the end leaves no bonus behind, unless the request *)
(* that credited it is still on its way to the bonus.                      *)
RetryAppliesBonus ==
  \A r \in Requests : req[r].pc = "settle" =>
    \/ EntriesFor("platform_revenue_share", req[r].tx) # {}
    \/ \E other \in Requests : /\ req[other].pc \in {"findBonus", "mintBonus"}
                               /\ req[other].tx = req[r].tx
=============================================================================
