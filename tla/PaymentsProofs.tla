--------------------------- MODULE PaymentsProofs ---------------------------
(* Proofs about Payments: the inductive invariant IInv, and from it the      *)
(* safety properties of the purchase flow for every number of attempts,      *)
(* users, transfers and concurrent requests.                                 *)
EXTENDS Payments, TLAPS

LEMMA CreditsNat ==
  ASSUME NEW cents \in Amounts PROVE CreditsOf(cents) \in Nat
<1>1. cents \in Nat /\ CreditsPerUsd \in Nat
  BY PaymentsAssumption
<1>2. cents * CreditsPerUsd \in Nat
  BY <1>1
<1>3. QED BY <1>2 DEF CreditsOf

LEMMA BonusNat ==
  ASSUME NEW credits \in Nat PROVE BonusOf(credits) \in Nat
<1>1. credits * RevenueShare \in Nat
  BY PaymentsAssumption
<1>2. QED BY <1>1 DEF BonusOf

(* None is none of the answers of the verifier.                              *)
LEMMA NoneIsNoCode ==
  None # "TOKEN_TRANSFER_NOT_FOUND" /\ None # "INSUFFICIENT_AMOUNT"
BY PaymentsAssumption

LEMMA TypeInit == Init => TypeOK
<1> SUFFICES ASSUME Init PROVE TypeOK OBVIOUS
<1> USE PaymentsAssumption DEF Init
<1>1. now \in Time BY DEF Time
<1>2. attempts \in [Attempts -> PaymentAttempt \cup {NoRow}] OBVIOUS
<1>3. chain \in [Txs -> ChainStates] BY DEF ChainStates
<1>4. balance \in [Accounts \cup {SystemAccount} -> Nat] OBVIOUS
<1>5. funding \in [Txs -> Nat] OBVIOUS
<1>6. req \in [Requests -> Request]
  BY DEF Request, Idle, RequestAt, PCs, Time, Statuses
<1>7. QED BY <1>1, <1>2, <1>3, <1>4, <1>5, <1>6 DEF TypeOK

LEMMA TypeStep ==
  ASSUME IInv, [Next]_vars PROVE TypeOK'
<1> USE PaymentsAssumption DEF money, settlement, evm
<1>t. TypeOK BY DEF IInv
<1>r. ASSUME NEW r \in Requests, req[r].pc # "idle"
      PROVE  /\ req[r].attempt \in Attempts
             /\ attempts[req[r].attempt] \in PaymentAttempt
             /\ req[r].pc \in {"bind"} \cup Verifying \cup Settling =>
                  req[r].tx \in Txs
  BY <1>r, <1>t DEF IInv, RequestInv, RequestOK, TypeOK, Exists
<1>i. Idle \in Request
  BY DEF Idle, RequestAt, Request, PCs, Time, Statuses
<1>e. ASSUME NEW r \in Requests, End(r) PROVE req' \in [Requests -> Request]
  BY <1>e, <1>i, <1>t DEF TypeOK, End
<1>g. ASSUME NEW r \in Requests, NEW pc \in PCs, Goto(r, pc)
      PROVE req' \in [Requests -> Request]
  <2>1. req[r] \in Request BY <1>t DEF TypeOK
  <2>2. [req[r] EXCEPT !.pc = pc] \in Request BY <2>1 DEF Request
  <2>3. req' = [req EXCEPT ![r] = [req[r] EXCEPT !.pc = pc]]
    BY <1>g, <1>t DEF TypeOK, Goto
  <2>4. QED BY <2>2, <2>3, <1>t DEF TypeOK
<1>u. ASSUME NEW r \in Requests, NEW a \in Attempts, NEW s \in Statuses,
             GotoUpdate(r, a, s)
      PROVE req' \in [Requests -> Request]
  <2>1. "update" \in PCs /\ 0 \in Time BY DEF PCs, Time
  <2>2. RequestAt("update", a, None, 0, s) \in Request
    BY <2>1 DEF RequestAt, Request
  <2>3. QED BY <2>2, <1>u, <1>t DEF TypeOK, GotoUpdate
<1>s. ASSUME NEW a \in Attempts, attempts[a] \in PaymentAttempt,
             NEW s \in Statuses, SetStatus(a, s)
      PROVE attempts' \in [Attempts -> PaymentAttempt \cup {NoRow}]
  BY <1>s, <1>t DEF TypeOK, SetStatus, PaymentAttempt
<1>c. ASSUME NEW account \in Accounts \cup {SystemAccount}, NEW tx \in Txs,
             NEW reason \in Reasons, NEW a \in Attempts, NEW amount \in Nat,
             CreditAccount(account, reason, tx, a, amount)
      PROVE ledger' \subseteq LedgerEntry
            /\ balance' \in [Accounts \cup {SystemAccount} -> Nat]
  BY <1>c, <1>t DEF TypeOK, CreditAccount, NewEntry, LedgerEntry
<1>1. CASE Tick
  BY <1>1, <1>t DEF TypeOK, Tick, Time
<1>2. ASSUME NEW tx \in Txs, ChainStep(tx) PROVE TypeOK'
  BY <1>2, <1>t DEF TypeOK, ChainStep, ChainStates
<1>3. ASSUME NEW a \in Attempts, NEW account \in Accounts,
             NEW cents \in Amounts, CreateIntent(a, account, cents)
      PROVE TypeOK'
  BY <1>3, <1>t DEF TypeOK, CreateIntent, NewAttempt, PaymentAttempt, Statuses,
    Time
<1>4. ASSUME NEW r \in Requests, NEW a \in Attempts, NEW tx \in Txs,
             Submit(r, a, tx)
      PROVE TypeOK'
  <2>1. CASE IsIntentExpired(attempts[a], now)
    <3>1. GotoUpdate(r, a, "FAILED") BY <2>1, <1>4 DEF Submit
    <3>2. req' \in [Requests -> Request]
      BY <3>1, <1>u DEF Statuses
    <3>3. QED BY <3>2, <1>4, <1>t DEF TypeOK, Submit
  <2>2. CASE ~IsIntentExpired(attempts[a], now)
    <3> DEFINE q == RequestAt("bind", a, tx, now, "CREATED_INTENT")
    <3>1. attempts[a] \in PaymentAttempt BY <1>4, <1>t DEF Submit, Exists, TypeOK
    <3>2. q \in Request
      BY <3>1, <1>t DEF TypeOK, RequestAt, Request, PCs, Statuses
    <3>3. req' = [req EXCEPT ![r] = q] BY <2>2, <1>4 DEF Submit
    <3>4. QED BY <3>2, <3>3, <1>4, <1>t DEF TypeOK, Submit
  <2>3. QED BY <2>1, <2>2
<1>5. ASSUME NEW r \in Requests, NEW a \in Attempts, Poll(r, a) PROVE TypeOK'
  <2>1. req' \in [Requests -> Request]
    <3>1. CASE GotoUpdate(r, a, "FAILED")
      BY <3>1, <1>u DEF Statuses
    <3>2. CASE GotoUpdate(r, a, "FAILED")
      BY <3>2, <1>u DEF Statuses
    <3> DEFINE q == RequestAt("record", a, None, now, "PENDING_UNVERIFIED")
    <3>3. CASE req' = [req EXCEPT ![r] = q]
      <4>1. attempts[a] \in PaymentAttempt BY <1>5, <1>t DEF Poll, Exists, TypeOK
      <4>2. q \in Request
        BY <4>1, <1>t DEF TypeOK, RequestAt, Request, PCs, Statuses
      <4>3. QED BY <4>2, <3>3, <1>t DEF TypeOK
    <3>4. QED BY <3>1, <3>2, <3>3, <1>5 DEF Poll
  <2>2. QED BY <2>1, <1>5, <1>t DEF TypeOK, Poll
<1>6. ASSUME NEW r \in Requests, Bind(r) PROVE TypeOK'
  <2>1. req[r].pc = "bind" BY <1>6 DEF Bind
  <2> DEFINE a == req[r].attempt  tx == req[r].tx
  <2>2. a \in Attempts /\ attempts[a] \in PaymentAttempt /\ tx \in Txs
    BY <2>1, <1>r
  <2>3. CASE BoundElsewhere(a, tx)
    BY <2>3, <1>e, <1>6, <1>t DEF TypeOK, Bind
  <2>4. CASE ~BoundElsewhere(a, tx)
    <3>1. attempts' \in [Attempts -> PaymentAttempt \cup {NoRow}]
      BY <2>4, <2>2, <1>6, <1>t
      DEF TypeOK, Bind, PaymentAttempt, Statuses, Request
    <3>2. req' \in [Requests -> Request]
      <4>1. RequestAt("getTransaction", a, tx, 0, "PENDING_UNVERIFIED") \in Request
        BY <2>2 DEF RequestAt, Request, PCs, Statuses, Time
      <4>2. QED BY <4>1, <2>4, <1>6, <1>t DEF TypeOK, Bind
    <3>3. QED BY <3>1, <3>2, <1>6, <1>t DEF TypeOK, Bind
  <2>5. QED BY <2>3, <2>4
<1>7. ASSUME NEW r \in Requests, Record(r) PROVE TypeOK'
  <2>1. req[r].pc = "record" BY <1>7 DEF Record
  <2>2. req[r].attempt \in Attempts
        /\ attempts[req[r].attempt] \in PaymentAttempt
    BY <2>1, <1>r
  <2>3. attempts' \in [Attempts -> PaymentAttempt \cup {NoRow}]
    BY <2>2, <1>7, <1>t DEF TypeOK, Record, PaymentAttempt, Request
  <2>4. req' \in [Requests -> Request]
    <3> DEFINE a == req[r].attempt
               q == RequestAt("getTransaction", a, attempts[a].tx, 0,
                              attempts[a].status)
    <3>1. q \in Request
      BY <2>2 DEF RequestAt, Request, PCs, Time, PaymentAttempt
    <3>2. req' = [req EXCEPT ![r] = q] BY <1>7 DEF Record
    <3>3. QED BY <3>1, <3>2, <1>t DEF TypeOK
  <2>5. QED BY <2>3, <2>4, <1>7, <1>t DEF TypeOK, Record
<1>8. ASSUME NEW r \in Requests,
             GetTransaction(r) \/ GetReceipt(r) \/ GetBlockNumber(r)
      PROVE TypeOK'
  <2>1. req[r].attempt \in Attempts
    BY <1>8, <1>r DEF GetTransaction, GetReceipt, GetBlockNumber
  <2>2. ASSUME NEW code, RejectWith(r, code) PROVE req' \in [Requests -> Request]
    BY <2>1, <2>2, <1>e, <1>u DEF RejectWith, Statuses
  <2>3. CASE GetTransaction(r)
    <3>1. req' \in [Requests -> Request]
      BY <2>3, <2>2, <1>e, <1>g DEF GetTransaction, PCs
    <3>2. QED BY <3>1, <2>3, <1>t DEF TypeOK, GetTransaction
  <2>4. CASE GetReceipt(r)
    <3>1. ASSUME NEW b \in minedAt[req[r].tx], req[r].tx \in Txs,
                 req' = [req EXCEPT ![r].pc = "getBlockNumber", ![r].block = b]
          PROVE req' \in [Requests -> Request]
      <4>1. b \in Nat /\ req[r] \in Request BY <3>1, <1>t DEF TypeOK
      <4> DEFINE q == [req[r] EXCEPT !.pc = "getBlockNumber", !.block = b]
      <4>2. q \in Request BY <4>1 DEF Request, PCs
      <4>3. req' = [req EXCEPT ![r] = q] BY <3>1, <1>t DEF TypeOK
      <4>4. QED BY <4>2, <4>3, <1>t DEF TypeOK
    <3>2. req[r].tx \in Txs BY <2>4, <1>r DEF GetReceipt, Verifying
    <3>3. req' \in [Requests -> Request]
      BY <3>1, <3>2, <2>4, <2>2, <1>e DEF GetReceipt
    <3>4. QED BY <3>3, <2>4, <1>t DEF TypeOK, GetReceipt
  <2>5. CASE GetBlockNumber(r)
    <3>1. ASSUME req' = [req EXCEPT ![r].pc = "findEntry", ![r].block = None]
          PROVE req' \in [Requests -> Request]
      <4>1. req[r] \in Request BY <1>t DEF TypeOK
      <4> DEFINE q == [req[r] EXCEPT !.pc = "findEntry", !.block = None]
      <4>2. q \in Request BY <4>1 DEF Request, PCs
      <4>3. req' = [req EXCEPT ![r] = q] BY <3>1, <1>t DEF TypeOK
      <4>4. QED BY <4>2, <4>3, <1>t DEF TypeOK
    <3>2. req' \in [Requests -> Request]
      BY <3>1, <2>5, <2>2, <1>e DEF GetBlockNumber
    <3>3. QED BY <3>2, <2>5, <1>t DEF TypeOK, GetBlockNumber
  <2>6. QED BY <2>3, <2>4, <2>5, <1>8
<1>9. ASSUME NEW r \in Requests, UpdateStatus(r) PROVE TypeOK'
  <2>1. req[r].attempt \in Attempts
        /\ attempts[req[r].attempt] \in PaymentAttempt
    BY <1>9, <1>r DEF UpdateStatus
  <2>2. req[r].status \in Statuses
    BY <1>t DEF TypeOK, Request
  <2>3. QED BY <2>1, <2>2, <1>9, <1>s, <1>e, <1>t DEF TypeOK, UpdateStatus
<1>10. ASSUME NEW r \in Requests, FindUserEntry(r) PROVE TypeOK'
  BY <1>10, <1>g, <1>t DEF TypeOK, FindUserEntry, PCs
<1>11. ASSUME NEW r \in Requests, CreditUser(r) PROVE TypeOK'
  <2> DEFINE a == req[r].attempt  tx == req[r].tx
             amount == CreditsOf(attempts[a].cents)
  <2>1. a \in Attempts /\ attempts[a] \in PaymentAttempt /\ tx \in Txs
    BY <1>11, <1>r DEF CreditUser, Settling
  <2>2. amount \in Nat /\ attempts[a].account \in Accounts
    BY <2>1, CreditsNat DEF PaymentAttempt
  <2>3. CASE CanInsert("widget_payment", tx)
    <3>1. CreditAccount(attempts[a].account, "widget_payment", tx, a, amount)
      BY <2>3, <1>11 DEF CreditUser
    <3>2. ledger' \subseteq LedgerEntry
          /\ balance' \in [Accounts \cup {SystemAccount} -> Nat]
      BY <3>1, <2>1, <2>2, <1>c DEF Reasons
    <3>3. req' \in [Requests -> Request]
      BY <2>3, <1>11, <1>g DEF CreditUser, PCs
    <3>4. QED BY <3>2, <3>3, <1>11, <1>t DEF TypeOK, CreditUser
  <2>4. CASE ~CanInsert("widget_payment", tx)
    BY <2>4, <1>11, <1>e, <1>t DEF TypeOK, CreditUser
  <2>5. QED BY <2>3, <2>4
<1>12. ASSUME NEW r \in Requests, FindBonus(r) PROVE TypeOK'
  BY <1>12, <1>g, <1>t DEF TypeOK, FindBonus, PCs
<1>13. ASSUME NEW r \in Requests, MintBonus(r) PROVE TypeOK'
  <2> DEFINE a == req[r].attempt  tx == req[r].tx
             amount == BonusOf(CreditsOf(attempts[a].cents))
  <2>1. a \in Attempts /\ attempts[a] \in PaymentAttempt /\ tx \in Txs
    BY <1>13, <1>r DEF MintBonus, Settling
  <2>2. amount \in Nat
    BY <2>1, CreditsNat, BonusNat DEF PaymentAttempt
  <2>3. CASE CanInsert("platform_revenue_share", tx)
    <3>1. CreditAccount(SystemAccount, "platform_revenue_share", tx, a, amount)
      BY <2>3, <1>13 DEF MintBonus
    <3>2. ledger' \subseteq LedgerEntry
          /\ balance' \in [Accounts \cup {SystemAccount} -> Nat]
      BY <3>1, <2>1, <2>2, <1>c DEF Reasons
    <3>3. req' \in [Requests -> Request]
      BY <2>3, <1>13, <1>g DEF MintBonus, PCs
    <3>4. QED BY <3>2, <3>3, <1>13, <1>t DEF TypeOK, MintBonus
  <2>4. CASE ~CanInsert("platform_revenue_share", tx)
    BY <2>4, <1>13, <1>e, <1>t DEF TypeOK, MintBonus
  <2>5. QED BY <2>3, <2>4
<1>14. ASSUME NEW r \in Requests, MarkCredited(r) PROVE TypeOK'
  <2>1. req[r].attempt \in Attempts
        /\ attempts[req[r].attempt] \in PaymentAttempt
    BY <1>14, <1>r DEF MarkCredited
  <2>2. CASE IsValidTransition(req[r].status, "CREDITED")
    <3>1. attempts' \in [Attempts -> PaymentAttempt \cup {NoRow}]
      BY <2>2, <2>1, <1>14, <1>s DEF MarkCredited, Statuses
    <3>2. QED BY <3>1, <2>2, <1>14, <1>g, <1>t DEF TypeOK, MarkCredited, PCs
  <2>3. CASE ~IsValidTransition(req[r].status, "CREDITED")
    BY <2>3, <1>14, <1>e, <1>t DEF TypeOK, MarkCredited
  <2>4. QED BY <2>2, <2>3
<1>15. ASSUME NEW r \in Requests, Settle(r) PROVE TypeOK'
  <2>1. req' \in [Requests -> Request]
    BY <1>15, <1>e, <1>g DEF Settle, PCs
  <2>2. funding' \in [Txs -> Nat] BY <1>15, <1>t DEF TypeOK, Settle
  <2>3. QED BY <2>1, <2>2, <1>15, <1>t DEF TypeOK, Settle
<1>16. ASSUME NEW r \in Requests, CoWrite(r) PROVE TypeOK'
  <2>1. req[r].tx \in Txs BY <1>16, <1>r DEF CoWrite, Settling
  <2>2. QED BY <2>1, <1>16, <1>e, <1>t DEF TypeOK, CoWrite
<1>17. ASSUME NEW r \in Requests, Fail(r) PROVE TypeOK'
  BY <1>17, <1>e, <1>t DEF TypeOK, Fail
<1>18. CASE UNCHANGED vars BY <1>18, <1>t DEF TypeOK, vars
<1>20. CASE NewBlock BY <1>20, <1>t DEF TypeOK, NewBlock
<1>19. QED
  BY <1>1, <1>2, <1>3, <1>4, <1>5, <1>6, <1>7, <1>8, <1>9, <1>10, <1>11,
     <1>12, <1>13, <1>14, <1>15, <1>16, <1>17, <1>18, <1>20 DEF Next, Process
-----------------------------------------------------------------------------
(* What no step takes back: rows, their owner and amount, a bound hash,      *)
(* the blocks that held a transfer and their depth, ledger entries and       *)
(* settlements that ran.                                                     *)

RowsKept ==
  \A a \in Attempts : Exists(a) =>
    /\ attempts'[a] # NoRow
    /\ attempts'[a].account = attempts[a].account
    /\ attempts'[a].cents = attempts[a].cents
    /\ attempts[a].tx \in Txs => attempts'[a].tx \in Txs
FactsKept ==
  /\ RowsKept
  /\ height' \in Nat /\ height <= height'
  /\ \A tx \in Txs : minedAt[tx] \subseteq minedAt'[tx]
  /\ \A tx \in Txs : funding[tx] > 0 => funding'[tx] > 0
  /\ ledger \subseteq ledger'

LEMMA SetStatusKeepsRows ==
  ASSUME TypeOK, NEW b \in Attempts, NEW s, Exists(b),
         SetStatus(b, s)
  PROVE  RowsKept
<1>1. attempts[b] \in PaymentAttempt BY DEF TypeOK, Exists
<1>2. attempts'[b] = [attempts[b] EXCEPT !.status = s]
  BY DEF TypeOK, SetStatus
<1>3. attempts'[b].expires = attempts[b].expires
      /\ attempts'[b].account = attempts[b].account
      /\ attempts'[b].cents = attempts[b].cents
      /\ attempts'[b].tx = attempts[b].tx
  BY <1>1, <1>2 DEF PaymentAttempt
<1>4. attempts'[b] # NoRow
  BY <1>1, <1>2 DEF PaymentAttempt, NoRow
<1>5. \A a \in Attempts \ {b} : attempts'[a] = attempts[a]
  BY DEF TypeOK, SetStatus
<1>6. QED BY <1>3, <1>4, <1>5 DEF RowsKept, Exists

LEMMA Kept == ASSUME IInv, [Next]_vars PROVE FactsKept
<1> USE PaymentsAssumption DEF money, settlement, evm
<1>t. TypeOK BY DEF IInv
<1>r. ASSUME NEW r \in Requests, req[r].pc # "idle"
      PROVE  /\ req[r].attempt \in Attempts /\ Exists(req[r].attempt)
             /\ req[r].pc \in {"bind"} \cup Verifying \cup Settling =>
                  req[r].tx \in Txs
             /\ req[r].pc = "record" => attempts[req[r].attempt].tx \in Txs
  BY <1>r DEF IInv, RequestInv, RequestOK
<1>u. (UNCHANGED attempts) => RowsKept BY DEF RowsKept, Exists
<1>1. RowsKept
  <2>1. CASE UNCHANGED attempts BY <2>1, <1>u
  <2>2. ASSUME NEW b \in Attempts, NEW account \in Accounts,
               NEW cents \in Amounts, CreateIntent(b, account, cents)
        PROVE RowsKept
    BY <2>2, <1>t DEF TypeOK, CreateIntent, RowsKept, Exists
  <2>3. ASSUME NEW r \in Requests, Bind(r), ~UNCHANGED attempts PROVE RowsKept
    <3> DEFINE b == req[r].attempt  tx == req[r].tx
    <3>1. b \in Attempts /\ Exists(b) /\ tx \in Txs BY <2>3, <1>r DEF Bind
    <3>2. attempts[b] \in PaymentAttempt BY <3>1, <1>t DEF TypeOK, Exists
    <3>3. attempts'[b] = [attempts[b] EXCEPT !.tx = tx,
            !.submitted = req[r].now, !.expires = None,
            !.status = "PENDING_UNVERIFIED"]
      BY <3>1, <2>3, <1>t DEF TypeOK, Bind
    <3>4. /\ attempts'[b].account = attempts[b].account
          /\ attempts'[b].cents = attempts[b].cents
          /\ attempts'[b].tx = tx /\ attempts'[b] # NoRow
      BY <3>2, <3>3 DEF PaymentAttempt, NoRow
    <3>5. \A a \in Attempts \ {b} : attempts'[a] = attempts[a]
      BY <3>1, <2>3, <1>t DEF TypeOK, Bind
    <3>6. QED BY <3>1, <3>4, <3>5 DEF RowsKept, Exists
  <2>4. ASSUME NEW r \in Requests, Record(r) PROVE RowsKept
    <3> DEFINE b == req[r].attempt
    <3>1. b \in Attempts /\ Exists(b) BY <2>4, <1>r DEF Record
    <3>2. attempts[b] \in PaymentAttempt BY <3>1, <1>t DEF TypeOK, Exists
    <3>3. attempts'[b] = [attempts[b] EXCEPT !.lastVerify = req[r].now]
      BY <3>1, <2>4, <1>t DEF TypeOK, Record
    <3>4. /\ attempts'[b].account = attempts[b].account
          /\ attempts'[b].cents = attempts[b].cents
          /\ attempts'[b].tx = attempts[b].tx /\ attempts'[b] # NoRow
      BY <3>2, <3>3 DEF PaymentAttempt, NoRow
    <3>5. \A a \in Attempts \ {b} : attempts'[a] = attempts[a]
      BY <3>1, <2>4, <1>t DEF TypeOK, Record
    <3>6. QED BY <3>1, <3>4, <3>5 DEF RowsKept, Exists
  <2>5. ASSUME NEW r \in Requests, UpdateStatus(r) PROVE RowsKept
    BY <2>5, <1>r, <1>t, SetStatusKeepsRows DEF UpdateStatus
  <2>6. ASSUME NEW r \in Requests, MarkCredited(r), ~UNCHANGED attempts
        PROVE RowsKept
    BY <2>6, <1>r, <1>t, SetStatusKeepsRows DEF MarkCredited
  <2>7. UNCHANGED attempts
        \/ (\E b \in Attempts, account \in Accounts, cents \in Amounts :
              CreateIntent(b, account, cents))
        \/ (\E r \in Requests : Bind(r) \/ Record(r) \/ UpdateStatus(r)
                                  \/ MarkCredited(r))
    BY DEF Next, Process, vars, Tick, NewBlock, ChainStep, Submit, Poll, GetTransaction, GetReceipt, GetBlockNumber,
      FindUserEntry, CreditUser, FindBonus, MintBonus, Settle, CoWrite, Fail
  <2>8. QED BY <2>1, <2>2, <2>3, <2>4, <2>5, <2>6, <2>7
<1>2. /\ height' \in Nat /\ height <= height'
      /\ \A tx \in Txs : minedAt[tx] \subseteq minedAt'[tx]
  <2>1. CASE NewBlock BY <2>1, <1>t DEF NewBlock, TypeOK
  <2>2. ASSUME NEW tx \in Txs, ChainStep(tx)
        PROVE /\ UNCHANGED height
              /\ \A t \in Txs : minedAt[t] \subseteq minedAt'[t]
    BY <2>2, <1>t DEF ChainStep, TypeOK
  <2>3. \/ NewBlock \/ (\E tx \in Txs : ChainStep(tx))
        \/ UNCHANGED <<minedAt, height>>
    BY DEF Next, Process, vars, Tick, CreateIntent, Submit, Bind, Poll, Record,
      GetTransaction, GetReceipt, GetBlockNumber, UpdateStatus, FindUserEntry,
      CreditUser, FindBonus, MintBonus, MarkCredited, Settle, CoWrite, Fail
  <2>4. QED BY <2>1, <2>2, <2>3, <1>t DEF TypeOK
<1>3. \A tx \in Txs : funding[tx] > 0 => funding'[tx] > 0
  <2>1. ASSUME NEW r \in Requests, Settle(r)
        PROVE \A tx \in Txs : funding[tx] > 0 => funding'[tx] > 0
    BY <2>1, <1>t DEF Settle, TypeOK
  <2>2. (\E r \in Requests : Settle(r)) \/ UNCHANGED funding
    BY DEF Next, Process, vars, Tick, NewBlock, ChainStep, CreateIntent, Submit, Bind,
      Poll, Record, GetTransaction, GetReceipt, GetBlockNumber, UpdateStatus, FindUserEntry, CreditUser,
      FindBonus, MintBonus, MarkCredited, CoWrite, Fail
  <2>3. QED BY <2>1, <2>2
<1>4. ledger \subseteq ledger'
  <2>1. ASSUME NEW r \in Requests, CreditUser(r) \/ MintBonus(r)
        PROVE ledger \subseteq ledger'
    BY <2>1 DEF CreditUser, MintBonus, CreditAccount
  <2>2. (\E r \in Requests : CreditUser(r) \/ MintBonus(r)) \/ UNCHANGED ledger
    BY DEF Next, Process, vars, Tick, NewBlock, ChainStep, CreateIntent, Submit, Bind,
      Poll, Record, GetTransaction, GetReceipt, GetBlockNumber, UpdateStatus, FindUserEntry, FindBonus,
      MarkCredited, Settle, CoWrite, Fail
  <2>3. QED BY <2>1, <2>2
<1>5. QED BY <1>1, <1>2, <1>3, <1>4 DEF FactsKept

(* Confirmations only grow in number.                                        *)
LEMMA ConfirmedKept ==
  ASSUME TypeOK, FactsKept, NEW tx \in Txs, Confirmed(tx)
  PROVE  Confirmed(tx)'
<1>1. PICK b \in minedAt[tx] : height - b >= MinConfirmations BY DEF Confirmed
<1>2. b \in Nat /\ height \in Nat BY DEF TypeOK
<1>3. b \in minedAt'[tx] /\ height' \in Nat /\ height <= height'
  BY DEF FactsKept
<1>4. height' - b >= MinConfirmations
  <2>1. MinConfirmations \in Nat BY PaymentsAssumption
  <2>2. QED BY <2>1, <1>1, <1>2, <1>3
<1>5. QED BY <1>3, <1>4 DEF Confirmed

(* What a request may rely on, the steps of the others leave true.           *)
LEMMA RequestKept ==
  ASSUME TypeOK, FactsKept, NEW s \in Requests, RequestOK(req[s]),
         req'[s] = req[s]
  PROVE  RequestOK(req[s])'
<1>1. req[s].pc \in Settling => Verified(req[s].attempt, req[s].tx)'
  <2> SUFFICES ASSUME req[s].pc \in Settling
               PROVE  Verified(req[s].attempt, req[s].tx)'
    OBVIOUS
  <2>1. /\ req[s].attempt \in Attempts /\ Exists(req[s].attempt)
        /\ req[s].tx \in Txs /\ Verified(req[s].attempt, req[s].tx)
    BY DEF RequestOK, Settling
  <2>2. Confirmed(req[s].tx)' BY <2>1, ConfirmedKept DEF Verified
  <2>3. QED BY <2>1, <2>2 DEF Verified, FactsKept, RowsKept
<1>2. QED
  BY <1>1 DEF FactsKept, RowsKept, RequestOK, CreditedTo, EntriesFor,
    Exists, Settling, Verifying, TypeOK, Request

LEMMA OneRequestMoves ==
  ASSUME TypeOK, FactsKept, RequestInv, NEW r \in Requests,
         \A s \in Requests \ {r} : req'[s] = req[s], RequestOK(req[r])'
  PROVE  RequestInv'
<1>1. ASSUME NEW s \in Requests PROVE RequestOK(req[s])'
  <2>1. CASE s = r BY <2>1
  <2>2. CASE s # r
    <3>1. RequestOK(req[s]) /\ req'[s] = req[s] BY <2>2 DEF RequestInv
    <3>2. QED BY <3>1, RequestKept
  <2>3. QED BY <2>1, <2>2
<1>2. QED BY <1>1 DEF RequestInv

LEMMA NoRequestMoves ==
  ASSUME TypeOK, FactsKept, RequestInv, UNCHANGED req PROVE RequestInv'
<1>1. ASSUME NEW s \in Requests PROVE RequestOK(req[s])'
  <2>1. RequestOK(req[s]) /\ req'[s] = req[s] BY DEF RequestInv
  <2>2. QED BY <2>1, RequestKept
<1>2. QED BY <1>1 DEF RequestInv

LEMMA EndOK ==
  ASSUME TypeOK, FactsKept, RequestInv, NEW r \in Requests, End(r)
  PROVE  RequestInv'
<1>1. req'[r] = Idle /\ \A s \in Requests \ {r} : req'[s] = req[s]
  BY DEF TypeOK, End
<1>2. RequestOK(req[r])'
  BY <1>1 DEF RequestOK, Idle, RequestAt, Settling, Verifying
<1>3. QED BY <1>1, <1>2, OneRequestMoves

LEMMA GotoUpdateOK ==
  ASSUME TypeOK, FactsKept, RequestInv, NEW r \in Requests,
         NEW a \in Attempts, Exists(a), NEW s \in {"FAILED", "REJECTED"},
         GotoUpdate(r, a, s)
  PROVE  RequestInv'
<1>1. /\ req'[r] = RequestAt("update", a, None, 0, s)
      /\ \A p \in Requests \ {r} : req'[p] = req[p]
  BY DEF TypeOK, GotoUpdate
<1>2. attempts'[a] # NoRow BY DEF FactsKept, RowsKept
<1>3. RequestOK(req[r])'
  BY <1>1, <1>2 DEF RequestOK, RequestAt, Settling, Verifying, Exists
<1>4. QED BY <1>1, <1>3, OneRequestMoves

LEMMA GotoMoves ==
  ASSUME TypeOK, NEW r \in Requests, NEW pc, Goto(r, pc)
  PROVE  /\ \A s \in Requests \ {r} : req'[s] = req[s]
         /\ req'[r].pc = pc /\ req'[r].attempt = req[r].attempt
         /\ req'[r].tx = req[r].tx /\ req'[r].status = req[r].status
<1>1. req[r] \in Request BY DEF TypeOK
<1>2. req'[r] = [req[r] EXCEPT !.pc = pc]
      /\ \A s \in Requests \ {r} : req'[s] = req[s]
  BY DEF TypeOK, Goto
<1>3. QED BY <1>1, <1>2 DEF Request

(* Inside the settlement a request only gains facts.                         *)
LEMMA SettlingStep ==
  ASSUME TypeOK, FactsKept, RequestInv, NEW r \in Requests,
         req[r].pc \in Verifying \cup Settling,
         Verified(req[r].attempt, req[r].tx), NEW pc \in Settling,
         \A s \in Requests \ {r} : req'[s] = req[s],
         req'[r].pc = pc, req'[r].attempt = req[r].attempt,
         req'[r].tx = req[r].tx,
         pc \notin {"findEntry", "creditUser"} =>
           \E e \in ledger' : /\ e.reason = "widget_payment"
                             /\ e.ref = req[r].tx
                             /\ e.account = attempts[req[r].attempt].account,
         pc \in {"findBonus", "mintBonus"} =>
           \E e \in ledger' : /\ e.reason = "widget_payment"
                             /\ e.ref = req[r].tx
                             /\ e.amount = CreditsOf(attempts[req[r].attempt].cents),
         pc = "coWrite" => funding'[req[r].tx] > 0
  PROVE  RequestInv'
<1> DEFINE a == req[r].attempt  tx == req[r].tx
<1>1. a \in Attempts /\ Exists(a) /\ tx \in Txs
  BY DEF RequestInv, RequestOK, Settling, Verifying
<1>2. /\ attempts'[a] # NoRow /\ attempts'[a].account = attempts[a].account
      /\ attempts'[a].cents = attempts[a].cents
  BY <1>1 DEF FactsKept, RowsKept
<1>3. Confirmed(tx)' BY <1>1, ConfirmedKept DEF Verified
<1>4. RequestOK(req[r])'
  BY <1>1, <1>2, <1>3 DEF RequestOK, Verified, CreditedTo, EntriesFor, Exists,
    Settling, Verifying
<1>5. QED BY <1>4, OneRequestMoves

LEMMA RequestStep ==
  ASSUME IInv, [Next]_vars PROVE RequestInv'
<1> USE PaymentsAssumption DEF money, settlement, evm
<1>t. TypeOK /\ RequestInv /\ FactsKept BY Kept DEF IInv
<1>r. ASSUME NEW r \in Requests, req[r].pc # "idle"
      PROVE  /\ req[r].attempt \in Attempts /\ Exists(req[r].attempt)
             /\ attempts[req[r].attempt] \in PaymentAttempt
             /\ req[r].pc \in {"bind"} \cup Verifying \cup Settling =>
                  req[r].tx \in Txs
             /\ req[r].pc = "record" => attempts[req[r].attempt].tx \in Txs
             /\ req[r].pc \in Settling => Verified(req[r].attempt, req[r].tx)
  BY <1>r, <1>t DEF RequestInv, RequestOK, TypeOK, Exists
<1>k. ASSUME NEW r \in Requests, req[r].pc \in Settling
      PROVE /\ req[r].pc \notin {"findEntry", "creditUser"} =>
                 CreditedTo(attempts[req[r].attempt].account, req[r].tx)
            /\ req[r].pc \in {"findBonus", "mintBonus"} =>
                 \E c \in EntriesFor("widget_payment", req[r].tx) :
                   c.amount = CreditsOf(attempts[req[r].attempt].cents)
  BY <1>k, <1>t DEF RequestInv, RequestOK
<1>1. ASSUME NEW a \in Attempts, Exists(a) PROVE attempts'[a] # NoRow
  BY <1>1, <1>t DEF FactsKept, RowsKept
<1>2. CASE UNCHANGED req BY <1>2, <1>t, NoRequestMoves
<1>3. ASSUME NEW r \in Requests, End(r) PROVE RequestInv'
  BY <1>3, <1>t, EndOK
<1>4. ASSUME NEW r \in Requests, NEW a \in Attempts, NEW tx \in Txs,
             Submit(r, a, tx)
      PROVE RequestInv'
  <2>1. CASE GotoUpdate(r, a, "FAILED")
    BY <2>1, <1>4, <1>t, GotoUpdateOK DEF Submit
  <2>2. CASE req' = [req EXCEPT ![r] =
                       RequestAt("bind", a, tx, now, "CREATED_INTENT")]
    <3>1. /\ req'[r] = RequestAt("bind", a, tx, now, "CREATED_INTENT")
          /\ \A s \in Requests \ {r} : req'[s] = req[s]
      BY <2>2, <1>t DEF TypeOK
    <3>2. attempts'[a] # NoRow BY <1>1, <1>4 DEF Submit
    <3>3. RequestOK(req[r])'
      BY <3>1, <3>2 DEF RequestOK, RequestAt, Settling, Verifying, Exists
    <3>4. QED BY <3>1, <3>3, <1>t, OneRequestMoves
  <2>3. QED BY <2>1, <2>2, <1>4 DEF Submit
<1>5. ASSUME NEW r \in Requests, NEW a \in Attempts, Poll(r, a)
      PROVE RequestInv'
  <2>1. CASE GotoUpdate(r, a, "FAILED")
    BY <2>1, <1>5, <1>t, GotoUpdateOK DEF Poll
  <2>2. CASE GotoUpdate(r, a, "FAILED")
    BY <2>2, <1>5, <1>t, GotoUpdateOK DEF Poll
  <2>3. CASE /\ attempts[a].status = "PENDING_UNVERIFIED"
             /\ req' = [req EXCEPT ![r] = RequestAt("record", a, None, now,
                                             "PENDING_UNVERIFIED")]
    <3>1. /\ req'[r] = RequestAt("record", a, None, now, "PENDING_UNVERIFIED")
          /\ \A s \in Requests \ {r} : req'[s] = req[s]
      BY <2>3, <1>t DEF TypeOK
    <3>2. attempts'[a] # NoRow BY <1>1, <1>5 DEF Poll
    <3>3. attempts'[a].tx \in Txs
      <4>1. attempts[a].tx \in Txs BY <2>3, <1>5 DEF Poll, IInv, RowInv
      <4>2. QED BY <4>1, <1>5 DEF Poll
    <3>4. RequestOK(req[r])'
      BY <3>1, <3>2, <3>3 DEF RequestOK, RequestAt, Settling, Verifying, Exists
    <3>5. QED BY <3>1, <3>4, <1>t, OneRequestMoves
  <2>4. QED BY <2>1, <2>2, <2>3, <1>5 DEF Poll
<1>6. ASSUME NEW r \in Requests, NEW a \in Attempts, NEW tx \in Txs, NEW s,
             a = req[r].attempt, Exists(a),
             req' = [req EXCEPT ![r] = RequestAt("getTransaction", a, tx, 0, s)]
      PROVE RequestInv'
  <2>1. /\ req'[r] = RequestAt("getTransaction", a, tx, 0, s)
        /\ \A p \in Requests \ {r} : req'[p] = req[p]
    BY <1>6, <1>t DEF TypeOK
  <2>2. attempts'[a] # NoRow BY <1>1, <1>6
  <2>3. RequestOK(req[r])'
    BY <2>1, <2>2 DEF RequestOK, RequestAt, Settling, Verifying, Exists
  <2>4. QED BY <2>1, <2>3, <1>t, OneRequestMoves
<1>7. ASSUME NEW r \in Requests, Bind(r) PROVE RequestInv'
  BY <1>7, <1>r, <1>3, <1>6 DEF Bind
<1>8. ASSUME NEW r \in Requests, Record(r) PROVE RequestInv'
  BY <1>8, <1>r, <1>6 DEF Record
<1>v. ASSUME NEW r \in Requests, req[r].pc \in Verifying,
             NEW code, RejectWith(r, code)
      PROVE RequestInv'
  <2>1. req[r].attempt \in Attempts /\ Exists(req[r].attempt)
    BY <1>v, <1>r DEF Verifying
  <2>2. QED BY <2>1, <1>v, <1>3, <1>t, GotoUpdateOK DEF RejectWith
<1>9. ASSUME NEW r \in Requests, GetTransaction(r) PROVE RequestInv'
  <2> DEFINE a == req[r].attempt
  <2>1. req[r].pc = "getTransaction" BY <1>9 DEF GetTransaction
  <2>2. a \in Attempts /\ Exists(a) /\ req[r].tx \in Txs
    BY <2>1, <1>r DEF Verifying
  <2>3. CASE Goto(r, "getReceipt")
    <3>1. /\ req'[r].pc = "getReceipt" /\ req'[r].attempt = a
          /\ req'[r].tx = req[r].tx /\ \A s \in Requests \ {r} : req'[s] = req[s]
      BY <2>3, <1>t, GotoMoves
    <3>2. RequestOK(req[r])'
      BY <3>1, <2>2, <1>1 DEF RequestOK, Settling, Verifying, Exists
    <3>3. QED BY <3>1, <3>2, <1>t, OneRequestMoves
  <2>4. QED BY <2>1, <2>3, <1>9, <1>3, <1>v DEF GetTransaction, Verifying
<1>21. ASSUME NEW r \in Requests, GetReceipt(r) PROVE RequestInv'
  <2> DEFINE a == req[r].attempt  tx == req[r].tx
  <2>1. req[r].pc = "getReceipt" BY <1>21 DEF GetReceipt
  <2>2. /\ a \in Attempts /\ Exists(a) /\ tx \in Txs
        /\ attempts[a] \in PaymentAttempt
    BY <2>1, <1>r DEF Verifying
  <2>3. ASSUME NEW b \in minedAt[tx], TransferError(tx, attempts[a].cents) = None,
               req' = [req EXCEPT ![r].pc = "getBlockNumber", ![r].block = b]
        PROVE RequestInv'
    <3>1. /\ req'[r].pc = "getBlockNumber" /\ req'[r].attempt = a
          /\ req'[r].tx = tx /\ req'[r].block = b
          /\ \A s \in Requests \ {r} : req'[s] = req[s]
      BY <2>3, <1>t DEF TypeOK, Request
    <3>2. attempts[a].cents \in Nat \ {0} /\ TxAmount[tx] \in Nat
      BY <2>2 DEF PaymentAttempt
    <3>3. TxAmount[tx] # 0 /\ TxAmount[tx] \notin 1 .. attempts[a].cents - 1
      BY <2>3, <3>2, NoneIsNoCode DEF TransferError
    <3>4. TxAmount[tx] >= attempts[a].cents BY <3>2, <3>3
    <3>5. /\ attempts'[a] # NoRow /\ attempts'[a].cents = attempts[a].cents
          /\ b \in minedAt'[tx]
      BY <2>2, <2>3, <1>t DEF FactsKept, RowsKept
    <3>6. RequestOK(req[r])'
      BY <3>1, <3>4, <3>5, <2>2 DEF RequestOK, Settling, Verifying, Exists
    <3>7. QED BY <3>1, <3>6, <1>t, OneRequestMoves
  <2>4. QED BY <2>1, <2>3, <1>21, <1>3, <1>v DEF GetReceipt, Verifying
<1>22. ASSUME NEW r \in Requests, GetBlockNumber(r) PROVE RequestInv'
  <2> DEFINE a == req[r].attempt  tx == req[r].tx
  <2>1. req[r].pc = "getBlockNumber" BY <1>22 DEF GetBlockNumber
  <2>2. /\ a \in Attempts /\ Exists(a) /\ tx \in Txs
        /\ req[r].block \in minedAt[tx] /\ TxAmount[tx] >= attempts[a].cents
    BY <2>1, <1>r, <1>t DEF Verifying, RequestInv, RequestOK
  <2>3. CASE /\ EnoughConfirmations(req[r].block) /\ SenderMatches(a, tx)
             /\ req' = [req EXCEPT ![r].pc = "findEntry", ![r].block = None]
    <3>1. /\ req'[r].pc = "findEntry" /\ req'[r].attempt = a
          /\ req'[r].tx = tx /\ \A s \in Requests \ {r} : req'[s] = req[s]
      BY <2>3, <1>t DEF TypeOK, Request
    <3>2. Verified(a, tx)
      BY <2>2, <2>3 DEF EnoughConfirmations, SenderMatches, Verified, Confirmed
    <3>3. QED BY <3>1, <3>2, <2>1, <1>t, SettlingStep DEF Settling, Verifying
  <2>4. QED BY <2>1, <2>3, <1>22, <1>3, <1>v DEF GetBlockNumber, Verifying
<1>10. ASSUME NEW r \in Requests, FindUserEntry(r) PROVE RequestInv'
  <2> DEFINE account == attempts[req[r].attempt].account  tx == req[r].tx
  <2>1. req[r].pc = "findEntry" /\ Verified(req[r].attempt, tx)
    BY <1>10, <1>r DEF FindUserEntry, Settling
  <2>2. CASE FindEntry(account, "widget_payment", tx) # {}
    <3>1. PICK e \in ledger : /\ e.reason = "widget_payment" /\ e.ref = tx
                             /\ e.account = account
      BY <2>2 DEF FindEntry, EntriesFor
    <3>2. Goto(r, "markCredited") /\ e \in ledger'
      BY <2>2, <1>10 DEF FindUserEntry
    <3>3. QED BY <3>1, <3>2, <2>1, <1>t, GotoMoves, SettlingStep DEF Settling
  <2>3. CASE FindEntry(account, "widget_payment", tx) = {}
    <3>1. Goto(r, "creditUser") BY <2>3, <1>10 DEF FindUserEntry
    <3>2. QED BY <3>1, <2>1, <1>t, GotoMoves, SettlingStep DEF Settling
  <2>4. QED BY <2>2, <2>3
<1>11. ASSUME NEW r \in Requests, CreditUser(r) PROVE RequestInv'
  <2> DEFINE a == req[r].attempt  tx == req[r].tx
             amount == CreditsOf(attempts[a].cents)
             e == NewEntry(attempts[a].account, "widget_payment", tx, a, amount)
  <2>1. req[r].pc = "creditUser" /\ Verified(a, tx)
    BY <1>11, <1>r DEF CreditUser, Settling
  <2>2. CASE CanInsert("widget_payment", tx)
    <3>1. e \in ledger' BY <2>2, <1>11 DEF CreditUser, CreditAccount
    <3>2. PICK pc \in {"findBonus", "markCredited"} : Goto(r, pc)
      BY <2>2, <1>11 DEF CreditUser
    <3>3. /\ e.reason = "widget_payment" /\ e.ref = tx /\ e.amount = amount
          /\ e.account = attempts[a].account
      BY DEF NewEntry
    <3> HIDE DEF e, amount
    <3>4. QED BY <3>1, <3>2, <3>3, <2>1, <1>t, GotoMoves, SettlingStep DEF Settling, amount
  <2>3. CASE ~CanInsert("widget_payment", tx)
    BY <2>3, <1>11, <1>3 DEF CreditUser
  <2>4. QED BY <2>2, <2>3
<1>12. ASSUME NEW r \in Requests, NEW pc \in {"mintBonus", "markCredited", "settle",
                                             "coWrite"},
             Goto(r, pc),
             req[r].pc \in Settling \ {"findEntry", "creditUser"},
             pc = "mintBonus" => req[r].pc = "findBonus",
             pc = "coWrite" => funding'[req[r].tx] > 0
      PROVE RequestInv'
  <2>1. Verified(req[r].attempt, req[r].tx) BY <1>12, <1>r DEF Settling
  <2>2. ledger \subseteq ledger' BY <1>t DEF FactsKept
  <2>3. PICK e \in ledger : /\ e.reason = "widget_payment" /\ e.ref = req[r].tx
                           /\ e.account = attempts[req[r].attempt].account
    BY <1>12, <1>k DEF CreditedTo
  <2>4. pc = "mintBonus" =>
          \E c \in ledger : /\ c.reason = "widget_payment" /\ c.ref = req[r].tx
                           /\ c.amount = CreditsOf(attempts[req[r].attempt].cents)
    BY <1>12, <1>k DEF EntriesFor
  <2>5. QED BY <2>1, <2>2, <2>3, <2>4, <1>12, <1>t, GotoMoves, SettlingStep DEF Settling
<1>13. ASSUME NEW r \in Requests, FindBonus(r) PROVE RequestInv'
  BY <1>13, <1>12 DEF FindBonus, Settling
<1>14. ASSUME NEW r \in Requests, MintBonus(r) PROVE RequestInv'
  BY <1>14, <1>12, <1>3 DEF MintBonus, Settling
<1>15. ASSUME NEW r \in Requests, MarkCredited(r) PROVE RequestInv'
  BY <1>15, <1>12, <1>3 DEF MarkCredited, Settling
<1>16. ASSUME NEW r \in Requests, Settle(r) PROVE RequestInv'
  <2>1. CASE End(r) BY <2>1, <1>3
  <2>2. CASE funding' = [funding EXCEPT ![req[r].tx] = @ + 1] /\ Goto(r, "coWrite")
    <3>1. req[r].tx \in Txs BY <1>16, <1>r DEF Settle, Settling
    <3>2. funding'[req[r].tx] > 0 BY <3>1, <2>2, <1>t DEF TypeOK
    <3>3. QED BY <3>2, <2>2, <1>16, <1>12 DEF Settle, Settling
  <2>3. QED BY <2>1, <2>2, <1>16 DEF Settle
<1>17. ASSUME NEW r \in Requests, UpdateStatus(r) \/ CoWrite(r) \/ Fail(r)
       PROVE RequestInv'
  BY <1>17, <1>3 DEF UpdateStatus, CoWrite, Fail
<1>18. CASE Tick \/ NewBlock \/ (\E tx \in Txs : ChainStep(tx))
            \/ (\E a \in Attempts, account \in Accounts, cents \in Amounts :
                  CreateIntent(a, account, cents))
            \/ UNCHANGED vars
  BY <1>18, <1>2 DEF Tick, NewBlock, ChainStep, CreateIntent, vars
<1>19. QED
  BY <1>4, <1>5, <1>7, <1>8, <1>9, <1>10, <1>11, <1>13, <1>14, <1>15, <1>16,
     <1>17, <1>18, <1>21, <1>22 DEF Next, Process

-----------------------------------------------------------------------------
(* The ledger, the rows and the treasury                                     *)

(* Only two steps write the ledger, each one entry its reason did not have.  *)
LEMMA LedgerSteps ==
  ASSUME IInv, [Next]_vars, ledger' # ledger
  PROVE  \E r \in Requests, e \in LedgerEntry :
           /\ ledger' = ledger \cup {e} /\ UNCHANGED attempts
           /\ EntriesFor(e.reason, e.ref) = {}
           /\ e.attempt = req[r].attempt /\ e.ref = req[r].tx
           /\ e.attempt \in Attempts /\ Exists(e.attempt)
           /\ Verified(e.attempt, e.ref)
           /\ \/ /\ e.reason = "widget_payment"
                 /\ e.account = attempts[e.attempt].account
                 /\ e.amount = CreditsOf(attempts[e.attempt].cents)
              \/ /\ e.reason = "platform_revenue_share"
                 /\ e.account = SystemAccount
                 /\ \E c \in EntriesFor("widget_payment", e.ref) :
                      e.amount = BonusOf(c.amount)
<1> USE DEF money, settlement, evm
<1>t. TypeOK /\ RequestInv BY DEF IInv
<1>1. PICK r \in Requests : CreditUser(r) \/ MintBonus(r)
  BY DEF Next, Process, vars, Tick, NewBlock, ChainStep, CreateIntent, Submit, Bind,
    Poll, Record, GetTransaction, GetReceipt, GetBlockNumber, UpdateStatus, FindUserEntry, FindBonus,
    MarkCredited, Settle, CoWrite, Fail
<1> DEFINE a == req[r].attempt  tx == req[r].tx
<1>2. /\ a \in Attempts /\ Exists(a) /\ tx \in Txs /\ Verified(a, tx)
      /\ attempts[a] \in PaymentAttempt
  BY <1>1, <1>t DEF CreditUser, MintBonus, RequestInv, RequestOK, Settling,
    TypeOK, Exists
<1>3. attempts[a].account \in Accounts /\ attempts[a].cents \in Amounts
  BY <1>2 DEF PaymentAttempt
<1>4. CASE CreditUser(r)
  <2> DEFINE e == NewEntry(attempts[a].account, "widget_payment", tx, a,
                           CreditsOf(attempts[a].cents))
  <2>1. CanInsert("widget_payment", tx) /\ ledger' = ledger \cup {e}
        /\ UNCHANGED attempts
    BY <1>4 DEF CreditUser, CreditAccount
  <2>2. e \in LedgerEntry BY <1>2, <1>3, CreditsNat, <1>t DEF LedgerEntry, Reasons, NewEntry, TypeOK
  <2>3. QED BY <2>1, <2>2, <1>2 DEF CanInsert, NewEntry
<1>5. CASE MintBonus(r)
  <2> DEFINE e == NewEntry(SystemAccount, "platform_revenue_share", tx, a,
                           BonusOf(CreditsOf(attempts[a].cents)))
  <2>1. CanInsert("platform_revenue_share", tx) /\ ledger' = ledger \cup {e}
        /\ UNCHANGED attempts
    BY <1>5 DEF MintBonus, CreditAccount
  <2>2. e \in LedgerEntry
    BY <1>2, <1>3, <1>t, CreditsNat, BonusNat
    DEF LedgerEntry, Reasons, NewEntry, TypeOK
  <2>3. \E c \in EntriesFor("widget_payment", tx) :
          c.amount = CreditsOf(attempts[a].cents)
    BY <1>5, <1>t DEF MintBonus, RequestInv, RequestOK
  <2>4. QED BY <2>1, <2>2, <2>3, <1>2 DEF CanInsert, NewEntry
<1>6. QED BY <1>1, <1>4, <1>5

LEMMA LedgerStep ==
  ASSUME IInv, [Next]_vars
  PROVE  /\ OneCreditPerTransfer' /\ CreditsBackedByTransfer'
         /\ BonusFollowsCredit' /\ \A e \in ledger' : attempts'[e.attempt] # NoRow
<1>t. TypeOK /\ FactsKept /\ OneCreditPerTransfer /\ CreditsBackedByTransfer
      /\ BonusFollowsCredit /\ RowInv
  BY Kept DEF IInv
<1>o. ASSUME NEW e \in ledger
      PROVE  /\ attempts'[e.attempt] # NoRow
             /\ attempts'[e.attempt].account = attempts[e.attempt].account
             /\ attempts'[e.attempt].cents = attempts[e.attempt].cents
             /\ Confirmed(e.ref) => Confirmed(e.ref)'
  <2>1. e.ref \in Txs BY <1>o, <1>t DEF TypeOK, LedgerEntry
  <2>2. Confirmed(e.ref) => Confirmed(e.ref)' BY <2>1, <1>t, ConfirmedKept
  <2>3. QED BY <2>2, <1>o, <1>t DEF FactsKept, RowsKept, RowInv, TypeOK, LedgerEntry
<1>1. CASE ledger' = ledger
  <2>1. OneCreditPerTransfer' BY <1>1, <1>t DEF OneCreditPerTransfer
  <2>2. CreditsBackedByTransfer'
    BY <1>1, <1>t, <1>o DEF CreditsBackedByTransfer
  <2>3. BonusFollowsCredit' BY <1>1, <1>t DEF BonusFollowsCredit, EntriesFor
  <2>4. QED BY <1>1, <1>o, <2>1, <2>2, <2>3
<1>2. CASE ledger' # ledger
  <2>1. PICK r \in Requests, e \in LedgerEntry :
          /\ ledger' = ledger \cup {e} /\ UNCHANGED attempts
          /\ EntriesFor(e.reason, e.ref) = {}
          /\ e.attempt \in Attempts /\ Exists(e.attempt)
          /\ Verified(e.attempt, e.ref)
          /\ \/ /\ e.reason = "widget_payment"
                /\ e.account = attempts[e.attempt].account
                /\ e.amount = CreditsOf(attempts[e.attempt].cents)
             \/ /\ e.reason = "platform_revenue_share"
                /\ e.account = SystemAccount
                /\ \E c \in EntriesFor("widget_payment", e.ref) :
                     e.amount = BonusOf(c.amount)
    BY <1>2, LedgerSteps
  <2>2. OneCreditPerTransfer'
    BY <2>1, <1>t DEF OneCreditPerTransfer, EntriesFor
  <2>3. Confirmed(e.ref)'
    BY <2>1, <1>t, ConfirmedKept DEF Verified, LedgerEntry
  <2>4. CreditsBackedByTransfer'
    <3>1. ASSUME NEW f \in ledger', f.reason = "widget_payment"
          PROVE /\ Confirmed(f.ref)' /\ TxFrom[f.ref] = f.account
                /\ attempts'[f.attempt].account = f.account
                /\ TxAmount[f.ref] >= attempts'[f.attempt].cents
                /\ f.amount = CreditsOf(attempts'[f.attempt].cents)
      <4>1. CASE f = e BY <4>1, <3>1, <2>1, <2>3 DEF Verified
      <4>2. CASE f \in ledger
        BY <4>2, <3>1, <1>t, <1>o DEF CreditsBackedByTransfer
      <4>3. QED BY <4>1, <4>2, <2>1
    <3>2. QED BY <3>1 DEF CreditsBackedByTransfer
  <2>5. BonusFollowsCredit'
    BY <2>1, <1>t DEF BonusFollowsCredit, EntriesFor
  <2>6. QED BY <2>1, <2>2, <2>4, <2>5, <1>o DEF Exists
<1>3. QED BY <1>1, <1>2

(* What a step can do to the status and the hash of a row.                   *)
LEMMA RowSteps ==
  ASSUME IInv, [Next]_vars, NEW a \in Attempts, attempts'[a] # NoRow
  PROVE  /\ \/ attempts'[a] = attempts[a]
            \/ attempts'[a].status # "PENDING_UNVERIFIED"
            \/ attempts'[a].tx \in Txs
         /\ \/ attempts'[a] = attempts[a]
            \/ attempts'[a].status # "CREDITED"
            \/ Exists(a) /\ attempts[a].status = "CREDITED"
            \/ Exists(a) /\ \E tx : CreditedTo(attempts[a].account, tx)
         /\ \/ attempts'[a].tx = None
            \/ Exists(a) /\ attempts'[a].tx = attempts[a].tx
            \/ \A b \in Attempts \ {a} :
                 /\ attempts'[b] = attempts[b]
                 /\ Exists(b) => attempts[b].tx # attempts'[a].tx
<1> USE DEF money, settlement, evm
<1>t. TypeOK /\ RequestInv BY DEF IInv
<1>r. ASSUME NEW r \in Requests, req[r].pc # "idle"
      PROVE  /\ req[r].attempt \in Attempts /\ Exists(req[r].attempt)
             /\ attempts[req[r].attempt] \in PaymentAttempt
             /\ req[r].pc = "bind" => req[r].tx \in Txs
             /\ req[r].pc = "update" => req[r].status \in {"FAILED", "REJECTED"}
             /\ req[r].pc = "markCredited" =>
                  CreditedTo(attempts[req[r].attempt].account, req[r].tx)
  BY <1>r, <1>t DEF RequestInv, RequestOK, TypeOK, Exists, Settling
<1>1. CASE attempts'[a] = attempts[a] BY <1>1 DEF Exists
<1>2. ASSUME NEW b \in Attempts, NEW account \in Accounts, NEW cents \in Amounts,
             CreateIntent(b, account, cents), attempts'[a] # attempts[a]
      PROVE attempts'[a].status = "CREATED_INTENT" /\ attempts'[a].tx = None
  BY <1>2, <1>t DEF CreateIntent, NewAttempt, TypeOK
<1>3. ASSUME NEW r \in Requests, Bind(r), attempts'[a] # attempts[a]
      PROVE /\ attempts'[a].status = "PENDING_UNVERIFIED"
            /\ attempts'[a].tx \in Txs
            /\ \A b \in Attempts \ {a} :
                 /\ attempts'[b] = attempts[b]
                 /\ Exists(b) => attempts[b].tx # attempts'[a].tx
  <2>1. req[r].pc = "bind" BY <1>3 DEF Bind
  <2>2. /\ req[r].attempt \in Attempts /\ req[r].tx \in Txs
        /\ attempts[req[r].attempt] \in PaymentAttempt
    BY <2>1, <1>r
  <2>3. /\ ~BoundElsewhere(req[r].attempt, req[r].tx)
        /\ attempts' = [attempts EXCEPT ![req[r].attempt] =
             [attempts[req[r].attempt] EXCEPT !.tx = req[r].tx,
                !.submitted = req[r].now, !.expires = None,
                !.status = "PENDING_UNVERIFIED"]]
    BY <2>2, <1>3, <1>t DEF Bind, TypeOK
  <2>4. a = req[r].attempt BY <2>2, <2>3, <1>3, <1>t DEF TypeOK
  <2>5. /\ attempts'[a].status = "PENDING_UNVERIFIED"
        /\ attempts'[a].tx = req[r].tx
    BY <2>2, <2>3, <2>4, <1>t DEF TypeOK, PaymentAttempt
  <2>6. \A b \in Attempts \ {a} : attempts'[b] = attempts[b]
    BY <2>3, <2>4, <1>t DEF TypeOK
  <2>7. QED BY <2>2, <2>3, <2>4, <2>5, <2>6 DEF BoundElsewhere
<1>4. ASSUME NEW r \in Requests, Record(r), attempts'[a] # attempts[a]
      PROVE /\ Exists(a) /\ attempts'[a].status = attempts[a].status
            /\ attempts'[a].tx = attempts[a].tx
  <2>1. req[r].attempt \in Attempts /\ Exists(req[r].attempt)
        /\ attempts[req[r].attempt] \in PaymentAttempt
    BY <1>4, <1>r DEF Record
  <2>2. a = req[r].attempt BY <2>1, <1>4, <1>t DEF Record, TypeOK
  <2>3. attempts'[a] = [attempts[a] EXCEPT !.lastVerify = req[r].now]
    BY <2>1, <2>2, <1>4, <1>t DEF Record, TypeOK
  <2>4. QED BY <2>1, <2>2, <2>3 DEF PaymentAttempt
<1>5. ASSUME NEW b \in Attempts, Exists(b), NEW s, SetStatus(b, s),
             attempts'[a] # attempts[a]
      PROVE a = b /\ attempts'[a].status = s /\ attempts'[a].tx = attempts[a].tx
  <2>1. a = b BY <1>5, <1>t DEF SetStatus, TypeOK
  <2>2. attempts'[a] = [attempts[a] EXCEPT !.status = s]
    BY <1>5, <2>1, <1>t DEF SetStatus, TypeOK
  <2>3. attempts[a] \in PaymentAttempt BY <2>1, <1>5, <1>t DEF Exists, TypeOK
  <2>4. QED BY <2>1, <2>2, <2>3 DEF PaymentAttempt
<1>6. ASSUME NEW r \in Requests, UpdateStatus(r), attempts'[a] # attempts[a]
      PROVE /\ Exists(a) /\ attempts'[a].status \in {"FAILED", "REJECTED"}
            /\ attempts'[a].tx = attempts[a].tx
  <2>1. req[r].pc = "update"
        /\ SetStatus(req[r].attempt, req[r].status)
    BY <1>6 DEF UpdateStatus
  <2>2. req[r].attempt \in Attempts /\ Exists(req[r].attempt)
        /\ req[r].status \in {"FAILED", "REJECTED"}
    BY <2>1, <1>r
  <2>3. QED BY <2>1, <2>2, <1>5, <1>6
<1>7. ASSUME NEW r \in Requests, MarkCredited(r), attempts'[a] # attempts[a]
      PROVE /\ Exists(a) /\ attempts'[a].status = "CREDITED"
            /\ attempts'[a].tx = attempts[a].tx
            /\ CreditedTo(attempts[a].account, req[r].tx)
  <2>1. req[r].pc = "markCredited" /\ SetStatus(req[r].attempt, "CREDITED")
    BY <1>7 DEF MarkCredited
  <2>2. req[r].attempt \in Attempts /\ Exists(req[r].attempt)
        /\ CreditedTo(attempts[req[r].attempt].account, req[r].tx)
    BY <2>1, <1>r
  <2>3. a = req[r].attempt BY <2>1, <2>2, <1>5, <1>7
  <2>4. QED BY <2>1, <2>2, <2>3, <1>5, <1>7
<1>8. UNCHANGED attempts
      \/ (\E b \in Attempts, account \in Accounts, cents \in Amounts :
            CreateIntent(b, account, cents))
      \/ (\E r \in Requests : Bind(r) \/ Record(r) \/ UpdateStatus(r)
                                \/ MarkCredited(r))
  BY DEF Next, Process, vars, Tick, NewBlock, ChainStep, Submit, Poll, GetTransaction, GetReceipt, GetBlockNumber,
    FindUserEntry, CreditUser, FindBonus, MintBonus, Settle, CoWrite, Fail
<1> SUFFICES ASSUME attempts'[a] # attempts[a]
    PROVE /\ \/ attempts'[a].status # "PENDING_UNVERIFIED"
             \/ attempts'[a].tx \in Txs
          /\ \/ attempts'[a].status # "CREDITED"
             \/ Exists(a) /\ attempts[a].status = "CREDITED"
             \/ Exists(a) /\ \E tx : CreditedTo(attempts[a].account, tx)
          /\ \/ attempts'[a].tx = None
             \/ Exists(a) /\ attempts'[a].tx = attempts[a].tx
             \/ \A b \in Attempts \ {a} :
                  /\ attempts'[b] = attempts[b]
                  /\ Exists(b) => attempts[b].tx # attempts'[a].tx
  BY <1>1
<1>9. ASSUME Exists(a), attempts[a].status = "PENDING_UNVERIFIED"
      PROVE  attempts[a].tx \in Txs
  BY <1>9 DEF IInv, RowInv
<1>10. CASE \E b \in Attempts, account \in Accounts, cents \in Amounts :
              CreateIntent(b, account, cents)
  BY <1>10, <1>2
<1>11. CASE \E r \in Requests : Bind(r) BY <1>11, <1>3
<1>12. CASE \E r \in Requests : Record(r) BY <1>12, <1>4, <1>9
<1>13. CASE \E r \in Requests : UpdateStatus(r) BY <1>13, <1>6
<1>14. CASE \E r \in Requests : MarkCredited(r) BY <1>14, <1>7
<1>15. QED BY <1>8, <1>10, <1>11, <1>12, <1>13, <1>14

LEMMA RowStep ==
  ASSUME IInv, [Next]_vars
  PROVE  /\ CreditedIsPaid' /\ TxBoundOnce'
         /\ \A a \in Attempts :
              attempts'[a] # NoRow /\ attempts'[a].status = "PENDING_UNVERIFIED"
                => attempts'[a].tx \in Txs
<1>t. TypeOK /\ FactsKept /\ CreditedIsPaid /\ TxBoundOnce /\ RowInv
  BY Kept DEF IInv
<1>1. ASSUME NEW a \in Attempts, attempts'[a] # NoRow,
             attempts'[a].status = "CREDITED"
      PROVE  \E e \in ledger' : /\ e.reason = "widget_payment"
                                /\ e.account = attempts'[a].account
  <2>1. Exists(a) /\ \E e \in ledger : /\ e.reason = "widget_payment"
                                      /\ e.account = attempts[a].account
    BY <1>1, <1>t, RowSteps DEF CreditedIsPaid, CreditedTo, Exists
  <2>2. QED BY <2>1, <1>t DEF FactsKept, RowsKept
<1>2. ASSUME NEW a \in Attempts, attempts'[a] # NoRow,
             attempts'[a].status = "PENDING_UNVERIFIED"
      PROVE  attempts'[a].tx \in Txs
  BY <1>2, <1>t, RowSteps DEF RowInv, Exists
<1>3. ASSUME NEW a \in Attempts, NEW b \in Attempts,
             attempts'[a] # NoRow, attempts'[b] # NoRow,
             attempts'[a].tx = attempts'[b].tx, attempts'[a].tx # None, a # b
      PROVE  FALSE
  <2>1. /\ \/ Exists(a) /\ attempts'[a].tx = attempts[a].tx
           \/ \A c \in Attempts \ {a} :
                /\ attempts'[c] = attempts[c]
                /\ Exists(c) => attempts[c].tx # attempts'[a].tx
    BY <1>3, RowSteps
  <2>2. /\ \/ Exists(b) /\ attempts'[b].tx = attempts[b].tx
           \/ \A c \in Attempts \ {b} :
                /\ attempts'[c] = attempts[c]
                /\ Exists(c) => attempts[c].tx # attempts'[b].tx
    BY <1>3, RowSteps
  <2>3. QED BY <2>1, <2>2, <1>3, <1>t DEF TxBoundOnce, Exists
<1>4. CreditedIsPaid' BY <1>1 DEF CreditedIsPaid, Exists
<1>5. TxBoundOnce' BY <1>3 DEF TxBoundOnce, Exists
<1>6. QED BY <1>2, <1>4, <1>5

LEMMA SettlementStep ==
  ASSUME IInv, [Next]_vars PROVE SettlementFollowsCredit'
<1> USE DEF money, settlement, evm
<1>t. TypeOK /\ RequestInv /\ FactsKept /\ SettlementFollowsCredit
  BY Kept DEF IInv
<1>f. ASSUME NEW tx \in Txs, EntriesFor("widget_payment", tx) # {}
      PROVE \E e \in ledger' : e.reason = "widget_payment" /\ e.ref = tx
  BY <1>f, <1>t DEF FactsKept, EntriesFor
<1>1. ASSUME NEW r \in Requests, Settle(r) PROVE SettlementFollowsCredit'
  <2>1. req[r].tx \in Txs /\ EntriesFor("widget_payment", req[r].tx) # {}
    BY <1>1, <1>t
    DEF Settle, RequestInv, RequestOK, Settling, CreditedTo, EntriesFor
  <2>2. UNCHANGED <<ledger, tb>> BY <1>1 DEF Settle
  <2>3. \A tx \in Txs \ {req[r].tx} : funding'[tx] = funding[tx]
    BY <1>1, <1>t DEF Settle, TypeOK
  <2>4. QED BY <2>1, <2>2, <2>3, <1>t
    DEF SettlementFollowsCredit, EntriesFor, FactsKept
<1>2. ASSUME NEW r \in Requests, CoWrite(r) PROVE SettlementFollowsCredit'
  <2>1. req[r].tx \in Txs /\ funding[req[r].tx] > 0
    BY <1>2, <1>t DEF CoWrite, RequestInv, RequestOK, Settling
  <2>2. QED BY <2>1, <1>2, <1>t
    DEF CoWrite, SettlementFollowsCredit, EntriesFor
<1>3. CASE UNCHANGED <<funding, tb>>
  BY <1>3, <1>f, <1>t DEF SettlementFollowsCredit, EntriesFor
<1>4. (\E r \in Requests : Settle(r) \/ CoWrite(r)) \/ UNCHANGED <<funding, tb>>
  BY DEF Next, Process, vars, Tick, NewBlock, ChainStep, CreateIntent, Submit, Bind,
    Poll, Record, GetTransaction, GetReceipt, GetBlockNumber, UpdateStatus, FindUserEntry, CreditUser,
    FindBonus, MintBonus, MarkCredited, Fail
<1>5. QED BY <1>1, <1>2, <1>3, <1>4

-----------------------------------------------------------------------------
(* The theorems                                                              *)

LEMMA InitInv == Init => IInv
<1> SUFFICES ASSUME Init PROVE IInv OBVIOUS
<1>1. TypeOK BY TypeInit
<1>2. RequestInv
  BY DEF Init, RequestInv, RequestOK, Idle, RequestAt, Settling, Verifying
<1>3. /\ RowInv /\ OneCreditPerTransfer /\ CreditsBackedByTransfer
      /\ BonusFollowsCredit /\ CreditedIsPaid /\ TxBoundOnce
      /\ SettlementFollowsCredit
  BY DEF Init, RowInv, OneCreditPerTransfer, CreditsBackedByTransfer,
    BonusFollowsCredit, CreditedIsPaid, TxBoundOnce, SettlementFollowsCredit,
    Exists
<1>4. QED BY <1>1, <1>2, <1>3 DEF IInv

(* The invariant that carries the rest is inductive: whatever requests run,  *)
(* crash or go stale, every await finds what it relies on.                   *)
THEOREM Invariance == Spec => []IInv
<1>1. Init => IInv BY InitInv
<1>2. IInv /\ [Next]_vars => IInv'
  <2> SUFFICES ASSUME IInv, [Next]_vars PROVE IInv' OBVIOUS
  <2>1. RowInv' BY LedgerStep, RowStep DEF RowInv, Exists
  <2>2. QED
    BY <2>1, TypeStep, RequestStep, LedgerStep, RowStep, SettlementStep DEF IInv
<1>3. QED BY <1>1, <1>2, PTL DEF Spec

(* Every variable keeps its type. *)
THEOREM TypeCorrect == Spec => []TypeOK
<1>1. IInv => TypeOK BY DEF IInv
<1>2. QED BY <1>1, Invariance, PTL

(* No interleaving of requests credits a transfer twice or mints two bonuses *)
(* for it.                                                                   *)
THEOREM NoDoubleCredit == Spec => []OneCreditPerTransfer
<1>1. IInv => OneCreditPerTransfer BY DEF IInv
<1>2. QED BY <1>1, Invariance, PTL

(* Every credit is backed by a transfer of the credited user that pays for   *)
(* it and of which a block got enough confirmations.                         *)
THEOREM CreditsBacked == Spec => []CreditsBackedByTransfer
<1>1. IInv => CreditsBackedByTransfer BY DEF IInv
<1>2. QED BY <1>1, Invariance, PTL

(* The bonus, the CREDITED status and the treasury settlement all follow the *)
(* user's credit.                                                            *)
THEOREM CreditComesFirst ==
  Spec => [](BonusFollowsCredit /\ CreditedIsPaid /\ SettlementFollowsCredit)
<1>1. IInv => BonusFollowsCredit /\ CreditedIsPaid /\ SettlementFollowsCredit
  BY DEF IInv
<1>2. QED BY <1>1, Invariance, PTL

(* However two attempts race for a transaction, one of them at most holds it. *)
THEOREM BoundOnce == Spec => []TxBoundOnce
<1>1. IInv => TxBoundOnce BY DEF IInv
<1>2. QED BY <1>1, Invariance, PTL

-----------------------------------------------------------------------------
(* The abstract purchase ledger                                              *)

LEMMA OneEntry ==
  ASSUME NEW reason, NEW tx, NEW e, EntriesFor(reason, tx)' = {e}
  PROVE  /\ reason = "widget_payment" =>
              CreditFor(tx)' = {[to |-> e.account, credits |-> e.amount]}
         /\ reason = "platform_revenue_share" => BonusFor(tx)' = {e.amount}
BY DEF CreditFor, BonusFor

LEMMA SameEntries ==
  ASSUME NEW tx
  PROVE  /\ EntriesFor("widget_payment", tx)' = EntriesFor("widget_payment", tx)
              => CreditFor(tx)' = CreditFor(tx)
         /\ EntriesFor("platform_revenue_share", tx)'
               = EntriesFor("platform_revenue_share", tx)
              => BonusFor(tx)' = BonusFor(tx)
BY DEF CreditFor, BonusFor

LEMMA AbstractInit == Init => Abstract!Init
<1> SUFFICES ASSUME Init PROVE Abstract!Init OBVIOUS
<1>1. \A tx, reason : EntriesFor(reason, tx) = {} BY DEF Init, EntriesFor
<1>2. \A tx : CreditFor(tx) = {} /\ BonusFor(tx) = {}
  BY <1>1 DEF CreditFor, BonusFor
<1>3. {tx \in Txs : Confirmed(tx)} = {} BY DEF Init, Confirmed
<1>4. QED BY <1>2, <1>3 DEF Abstract!Init

LEMMA AbstractStep ==
  ASSUME IInv, [Next]_vars PROVE [Abstract!Next]_(Abstract!ledgerVars)
<1> USE DEF money, settlement, evm
<1> DEFINE fin == {tx \in Txs : Confirmed(tx)}
           cr == [tx \in Txs |-> CreditFor(tx)]
           bo == [tx \in Txs |-> BonusFor(tx)]
<1>t. TypeOK BY DEF IInv
<1>1. CASE ledger' # ledger
  <2>1. PICK r \in Requests, e \in LedgerEntry :
          /\ ledger' = ledger \cup {e} /\ UNCHANGED attempts
          /\ EntriesFor(e.reason, e.ref) = {}
          /\ e.attempt \in Attempts /\ Exists(e.attempt)
          /\ Verified(e.attempt, e.ref)
          /\ \/ /\ e.reason = "widget_payment"
                /\ e.account = attempts[e.attempt].account
                /\ e.amount = CreditsOf(attempts[e.attempt].cents)
             \/ /\ e.reason = "platform_revenue_share"
                /\ e.account = SystemAccount
                /\ \E c \in EntriesFor("widget_payment", e.ref) :
                     e.amount = BonusOf(c.amount)
    BY <1>1, LedgerSteps
  <2> DEFINE tx == e.ref
  <2>2. tx \in Txs /\ attempts[e.attempt].cents \in Amounts
    BY <2>1, <1>t DEF LedgerEntry, TypeOK, Exists, PaymentAttempt
  <2>3. UNCHANGED <<minedAt, height>>
    BY <1>1 DEF Next, Process, vars, Tick, NewBlock, ChainStep, CreateIntent, Submit,
      Bind, Poll, Record, GetTransaction, GetReceipt, GetBlockNumber, UpdateStatus, FindUserEntry,
      CreditUser, FindBonus, MintBonus, MarkCredited, Settle, CoWrite, Fail
  <2>4. fin' = fin BY <2>3 DEF Confirmed
  <2>5. EntriesFor(e.reason, tx)' = {e} BY <2>1 DEF EntriesFor
  <2>6. ASSUME NEW t, NEW reason, t # tx \/ reason # e.reason
        PROVE EntriesFor(reason, t)' = EntriesFor(reason, t)
    BY <2>6, <2>1 DEF EntriesFor
  <2>7. CASE e.reason = "widget_payment"
    <3>1. bo' = bo BY <2>6, <2>7, SameEntries
    <3>2. CreditFor(tx)' = {[to |-> e.account, credits |-> e.amount]} BY <2>5, <2>7, OneEntry
    <3>3. \A t \in Txs \ {tx} : CreditFor(t)' = CreditFor(t)
      BY <2>6, SameEntries
    <3>4. CreditFor(tx) = {} BY <2>1, <2>7 DEF CreditFor
    <3>5. tx \in fin /\ attempts[e.attempt].cents <= TxAmount[tx]
          /\ e.account = TxFrom[tx]
      <4>1. attempts[e.attempt].cents \in Nat /\ TxAmount[tx] \in Nat
        BY <2>2, PaymentsAssumption
      <4>2. QED BY <4>1, <2>1, <2>2, <2>7 DEF Verified
    <3>6. cr' = [cr EXCEPT ![tx] =
      {[to |-> TxFrom[tx], credits |-> CreditsOf(attempts[e.attempt].cents)]}]
      BY <3>2, <3>3, <3>5, <2>1, <2>2, <2>7
    <3>7. Abstract!Grant(tx, attempts[e.attempt].cents)
      BY <3>1, <3>4, <3>5, <3>6, <2>2, <2>4 DEF Abstract!Grant
    <3>8. QED BY <3>7, <2>2 DEF Abstract!Next
  <2>8. CASE e.reason = "platform_revenue_share"
    <3>1. cr' = cr BY <2>6, <2>8, SameEntries
    <3>2. BonusFor(tx)' = {e.amount} BY <2>5, <2>8, OneEntry
    <3>3. \A t \in Txs \ {tx} : BonusFor(t)' = BonusFor(t)
      BY <2>6, SameEntries
    <3>4. BonusFor(tx) = {} BY <2>1, <2>8 DEF BonusFor
    <3>5. PICK c \in EntriesFor("widget_payment", tx) : e.amount = BonusOf(c.amount)
      BY <2>1, <2>8
    <3> DEFINE g == [to |-> c.account, credits |-> c.amount]
    <3>6. g \in cr[tx] BY <3>5, <2>2 DEF CreditFor
    <3>7. g.credits = c.amount OBVIOUS
    <3>8. bo' = [bo EXCEPT ![tx] = {BonusOf(g.credits)}]
      BY <3>2, <3>3, <3>5, <3>7, <2>2
    <3>10. Abstract!Share(tx)
      BY <3>1, <3>4, <3>6, <3>8, <2>2, <2>4 DEF Abstract!Share
    <3>11. QED BY <3>10, <2>2 DEF Abstract!Next
  <2>9. QED BY <2>1, <2>7, <2>8
<1>2. CASE ledger' = ledger
  <2>1. \A t : CreditFor(t)' = CreditFor(t) /\ BonusFor(t)' = BonusFor(t)
    BY <1>2, SameEntries DEF EntriesFor
  <2>2. cr' = cr /\ bo' = bo BY <2>1
  <2>3. fin \subseteq fin' BY <1>t, Kept, ConfirmedKept
  <2>4. fin' = fin \cup (fin' \ fin) /\ fin' \ fin \in SUBSET Txs BY <2>3
  <2>5. Abstract!Confirm(fin' \ fin) BY <2>2, <2>4 DEF Abstract!Confirm
  <2>6. QED BY <2>4, <2>5 DEF Abstract!Next
<1>3. QED BY <1>1, <1>2

(* The requests, with all their retries, races and crashes, implement the    *)
(* abstract purchase ledger: one grant per confirmed transfer, then one share. *)
THEOREM Refinement == Spec => ImplementsPurchaseLedger
<1>1. Init => Abstract!Init BY AbstractInit
<1>2. IInv /\ [Next]_vars => [Abstract!Next]_(Abstract!ledgerVars)
  BY AbstractStep
<1>3. QED
  BY <1>1, <1>2, Invariance, PTL DEF Spec, ImplementsPurchaseLedger, Abstract!Spec
=============================================================================
