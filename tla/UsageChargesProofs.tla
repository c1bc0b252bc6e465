------------------------- MODULE UsageChargesProofs -------------------------
(***************************************************************************)
(* For every set of calls, accounts, deposits and handlers, however often  *)
(* calls are reported and whatever fails: billing implements the meter.    *)
(* The insertion of a receipt is the only step that charges, and all it    *)
(* needs is that the entry it writes is chargeable and its unit free.      *)
(***************************************************************************)
EXTENDS UsageCharges, TLAPS

USE UsageChargesAssumption

\* A report whose first entry is done with is still a report.
LEMMA PastKeepsReports ==
  ASSUME TypeOK, NEW h \in Handlers, handlers[h].todo # <<>>,
         NEW ok \in SUBSET Calls, Past(h, ok)
  PROVE  /\ handlers' \in [Handlers -> Reports]
         /\ \A g \in Handlers : handlers'[g].pc = "insert" =>
              g # h /\ handlers'[g] = handlers[g]
PROOF
  <1> DEFINE next == Report("entry", Tail(handlers[h].todo), handlers[h].ok \cup ok)
  <1>1. handlers[h] \in Reports
    BY DEF TypeOK
  <1>2. handlers[h].todo \in Seq(Calls) /\ handlers[h].ok \in SUBSET Calls
    BY <1>1 DEF Reports
  <1>3. Tail(handlers[h].todo) \in Seq(Calls)
    BY <1>2
  <1>4. next \in Reports /\ next.pc = "entry"
    BY <1>2, <1>3 DEF Reports, Report
  <1>5. handlers' = [handlers EXCEPT ![h] = next]
    BY DEF Past
  <1> QED
    BY <1>4, <1>5 DEF TypeOK

LEMMA InitTypeOK == Init => TypeOK
PROOF
  <1> SUFFICES ASSUME Init PROVE TypeOK
    OBVIOUS
  <1>1. Idle \in Reports /\ Idle.pc = "idle"
    BY DEF Idle, Report, Reports
  <1>2. handlers \in [Handlers -> Reports] /\ \A h \in Handlers : handlers[h].pc # "insert"
    BY <1>1 DEF Init
  <1> QED
    BY <1>2 DEF Init, TypeOK, Units

\* What an insertion writes: the charge of a chargeable call whose unit was free.
LEMMA InsertCharges ==
  ASSUME TypeOK, NEW h \in Handlers, Insert(h)
  PROVE  \E c \in Calls :
           /\ Chargeable(c) /\ Unit(c) \in Units /\ receipts[Unit(c)] = None
           /\ Price[c] \in Nat
           /\ receipts' = [receipts EXCEPT ![Unit(c)] = [call |-> c, credits |-> Price[c]]]
           /\ balance' = [balance EXCEPT ![Payer(c)] = @ - Price[c]]
           /\ cowrites' = cowrites \cup {Unit(c)}
           /\ handlers[h].todo # <<>> /\ c = Head(handlers[h].todo) /\ Past(h, {c})
PROOF
  <1> DEFINE c == Head(handlers[h].todo)
  <1>1. handlers[h] \in Reports /\ handlers[h].todo # <<>> /\ Chargeable(c)
    BY DEF TypeOK, Insert
  <1>2. c \in Calls
    BY <1>1 DEF Reports
  <1>3. Price[c] \in Nat /\ Payer(c) \in Accounts
    BY <1>1, <1>2 DEF Chargeable, Processable
  <1>4. Unit(c) \in Units
    BY <1>2 DEF Unit, Units
  <1>5. balance[Payer(c)] + (-Price[c]) = balance[Payer(c)] - Price[c]
    BY <1>3 DEF TypeOK
  <1>6. balance' = [balance EXCEPT ![Payer(c)] = @ - Price[c]]
    BY <1>5 DEF Insert, Moved
  <1> QED
    BY <1>1, <1>2, <1>3, <1>4, <1>6 DEF Insert, CanInsert

LEMMA NextTypeOK == TypeOK /\ [Next]_vars => TypeOK'
PROOF
  <1> SUFFICES ASSUME TypeOK, [Next]_vars PROVE TypeOK'
    OBVIOUS
  <1> USE DEF Chargeable, Processable
  <1>1. ASSUME NEW c \in Calls, Answer(c) PROVE TypeOK'
    BY <1>1 DEF TypeOK, Answer, books, counters, Units, Reports
  <1>2. ASSUME NEW h \in Handlers, NEW batch \in Seq(Calls), Begin(h, batch) PROVE TypeOK'
    <2>1. Report("entry", batch, {}) \in Reports /\ Report("entry", batch, {}).pc = "entry"
      BY DEF Report, Reports
    <2> QED
      BY <1>2, <2>1 DEF TypeOK, Begin, books, Units
  <1>3. ASSUME NEW h \in Handlers, Post(h) PROVE TypeOK'
    <2>1. PICK n \in 1..MaxBatch :
            \E batch \in [1..n -> {c \in Calls \ Byo : call[c] # "none"}] : Begin(h, batch)
      BY <1>3 DEF Post
    <2>2. PICK batch \in [1..n -> {c \in Calls \ Byo : call[c] # "none"}] : Begin(h, batch)
      BY <2>1
    <2>3. batch \in Seq(Calls)
      <3>1. n \in Nat /\ batch \in [1..n -> Calls]
        BY <2>1, <2>2
      <3> QED
        BY <3>1
    <2> QED
      BY <1>2, <2>2, <2>3
  <1>4. ASSUME NEW h \in Handlers, Consume(h) PROVE TypeOK'
    <2>1. PICK c \in Byo : Begin(h, <<c>>)
      BY <1>4 DEF Consume
    <2>2. <<c>> \in Seq(Calls)
      OBVIOUS
    <2> QED
      BY <1>2, <2>1, <2>2
  <1>5. ASSUME NEW h \in Handlers, Check(h) PROVE TypeOK'
    <2> DEFINE c == Head(handlers[h].todo)
    <2>1. handlers[h] \in Reports /\ handlers[h].todo # <<>> /\ c \in Calls
      BY <1>5 DEF Check, TypeOK, Reports
    <2>2. CASE Past(h, {}) \/ Past(h, {c})
      <3>1. /\ handlers' \in [Handlers -> Reports]
            /\ \A g \in Handlers : handlers'[g].pc = "insert" => handlers'[g] = handlers[g]
        BY <2>1, <2>2, PastKeepsReports
      <3> QED
        BY <1>5, <3>1 DEF Check, TypeOK, books, Units
    <2>3. CASE Chargeable(c) /\ handlers' = [handlers EXCEPT ![h].pc = "insert"]
      <3>1. handlers'[h] \in Reports /\ handlers'[h].todo = handlers[h].todo
        BY <2>1, <2>3 DEF Reports, TypeOK
      <3>2. handlers' \in [Handlers -> Reports]
        BY <2>3, <3>1 DEF TypeOK
      <3> QED
        BY <1>5, <2>1, <2>3, <3>1, <3>2 DEF Check, TypeOK, books, Units
    <2> QED
      BY <1>5, <2>2, <2>3 DEF Check
  <1>6. ASSUME NEW h \in Handlers, Insert(h) PROVE TypeOK'
    <2>1. PICK c \in Calls :
            /\ Chargeable(c) /\ Unit(c) \in Units /\ Price[c] \in Nat
            /\ receipts' = [receipts EXCEPT ![Unit(c)] = [call |-> c, credits |-> Price[c]]]
            /\ balance' = [balance EXCEPT ![Payer(c)] = @ - Price[c]]
            /\ cowrites' = cowrites \cup {Unit(c)}
            /\ handlers[h].todo # <<>> /\ Past(h, {c})
      BY <1>6, InsertCharges
    <2>2. receipts' \in [Units -> Charges \cup {None}]
      BY <2>1 DEF TypeOK, Charges
    <2>3. balance' \in [Accounts -> Int]
      BY <2>1 DEF TypeOK
    <2>4. /\ handlers' \in [Handlers -> Reports]
          /\ \A g \in Handlers : handlers'[g].pc = "insert" => handlers'[g] = handlers[g]
      BY <2>1, PastKeepsReports
    <2> QED
      BY <1>6, <2>1, <2>2, <2>3, <2>4 DEF Insert, TypeOK, books, counters
  <1>7. ASSUME NEW h \in Handlers, Refused(h) PROVE TypeOK'
    <2> DEFINE c == Head(handlers[h].todo)
    <2>1. handlers[h] \in Reports /\ handlers[h].todo # <<>> /\ c \in Calls
      BY <1>7 DEF Refused, TypeOK, Reports
    <2>2. Past(h, {c}) \/ Past(h, {})
      BY <1>7 DEF Refused
    <2>3. /\ handlers' \in [Handlers -> Reports]
          /\ \A g \in Handlers : handlers'[g].pc = "insert" => handlers'[g] = handlers[g]
      BY <2>1, <2>2, PastKeepsReports
    <2> QED
      BY <1>7, <2>3 DEF Refused, TypeOK, books
  <1>8. ASSUME NEW h \in Handlers, Done(h) PROVE TypeOK'
    <2>1. Idle \in Reports /\ Idle.pc = "idle"
      BY DEF Idle, Report, Reports
    <2> QED
      BY <1>8, <2>1 DEF Done, TypeOK, books, Units
  <1>9. ASSUME NEW d \in Deposits, Deposit(d) PROVE TypeOK'
    <2>1. balance' \in [Accounts -> Int]
      BY <1>9 DEF Deposit, Moved, TypeOK
    <2> QED
      BY <1>9, <2>1 DEF Deposit, TypeOK, Units
  <1>10. ASSUME NEW u \in Units, Transfer(u) \/ TransferFails(u) PROVE TypeOK'
    BY <1>10 DEF Transfer, TransferFails, TypeOK, books
  <1>11. ASSUME Restart PROVE TypeOK'
    <2>1. Idle \in Reports /\ Idle.pc = "idle"
      BY DEF Idle, Report, Reports
    <2> QED
      BY <1>11, <2>1 DEF Restart, TypeOK, books, Units
  <1>12. ASSUME UNCHANGED vars PROVE TypeOK'
    BY <1>12 DEF vars, TypeOK, Units
  <1> QED
    BY <1>1, <1>3, <1>4, <1>5, <1>6, <1>7, <1>8, <1>9, <1>10, <1>11, <1>12 DEF Next

\* Every reachable state has its type; in particular what is about to be written is
\* chargeable (recordChargeReceipt is only reached through commitUsageFact's guards).
THEOREM TypeCorrect == Spec => []TypeOK
PROOF
  <1>1. Init => TypeOK
    BY InitTypeOK
  <1>2. TypeOK /\ [Next]_vars => TypeOK'
    BY NextTypeOK
  <1> QED
    BY <1>1, <1>2, PTL DEF Spec

\* A step that leaves receipts, balances and deposits alone is a stutter of the meter.
LEMMA Stutter ==
  ASSUME UNCHANGED <<receipts, balance, deposited>> PROVE UNCHANGED Meter!vars
PROOF
  BY DEF Charged, Meter!vars

LEMMA MeterInit == Init => Meter!Init
PROOF
  BY DEF Init, Meter!Init, Charged

LEMMA InsertIsCharge ==
  ASSUME TypeOK, NEW h \in Handlers, Insert(h) PROVE Meter!Next
PROOF
  <1>1. PICK c \in Calls :
          /\ Chargeable(c) /\ Unit(c) \in Units /\ receipts[Unit(c)] = None /\ Price[c] \in Nat
          /\ receipts' = [receipts EXCEPT ![Unit(c)] = [call |-> c, credits |-> Price[c]]]
          /\ balance' = [balance EXCEPT ![Payer(c)] = @ - Price[c]]
    BY InsertCharges
  <1>2. Charged[Unit(c)] = None
    BY <1>1 DEF Charged
  <1>3. [call |-> c, credits |-> Price[c]] # None
    BY <1>1
  <1>4. Charged' = [Charged EXCEPT ![Unit(c)] = c]
    BY <1>1, <1>3 DEF Charged, TypeOK
  <1>5. deposited' = deposited
    BY DEF Insert
  <1> QED
    BY <1>1, <1>2, <1>4, <1>5 DEF Chargeable, Processable, Meter!Charge, Meter!Next

LEMMA MeterStep == TypeOK /\ [Next]_vars => [Meter!Next]_Meter!vars
PROOF
  <1> SUFFICES ASSUME TypeOK, [Next]_vars PROVE [Meter!Next]_Meter!vars
    OBVIOUS
  <1>1. ASSUME NEW h \in Handlers, Insert(h) PROVE Meter!Next
    BY <1>1, InsertIsCharge
  <1>2. ASSUME NEW d \in Deposits, Deposit(d) PROVE Meter!Next
    <2>1. Charged' = Charged
      BY <1>2 DEF Deposit, Charged
    <2>2. Meter!Deposit(d)
      BY <1>2, <2>1 DEF Deposit, Moved, Meter!Deposit
    <2> QED
      BY <2>2 DEF Meter!Next
  <1>3. ASSUME NEW h \in Handlers, Post(h) \/ Consume(h) \/ Check(h) \/ Refused(h) \/ Done(h)
        PROVE UNCHANGED <<receipts, balance, deposited>>
    BY <1>3 DEF Post, Consume, Begin, Check, Refused, Done, books
  <1>4. ASSUME NEW c \in Calls, Answer(c) PROVE UNCHANGED <<receipts, balance, deposited>>
    BY <1>4 DEF Answer, books
  <1>5. ASSUME NEW u \in Units, Transfer(u) \/ TransferFails(u)
        PROVE UNCHANGED <<receipts, balance, deposited>>
    BY <1>5 DEF Transfer, TransferFails, books
  <1>6. ASSUME Restart \/ UNCHANGED vars PROVE UNCHANGED <<receipts, balance, deposited>>
    BY <1>6 DEF Restart, books, vars
  <1> QED
    BY <1>1, <1>2, <1>3, <1>4, <1>5, <1>6, Stutter DEF Next

\* Billing implements the meter: a unit is charged at most once, at the price and to the
\* account of its call, and only charges and deposits move a balance.
THEOREM MeterImplemented == Spec => ImplementsUsageMeter
PROOF
  <1>1. Init => Meter!Init
    BY MeterInit
  <1>2. TypeOK /\ [Next]_vars => [Meter!Next]_Meter!vars
    BY MeterStep
  <1> QED
    BY <1>1, <1>2, TypeCorrect, PTL DEF Spec, ImplementsUsageMeter, Meter!Spec

-----------------------------------------------------------------------------
(* What a report counted as processed, and what TigerBeetle holds *)

\* A LiteLLM unit is only ever charged for the call it names.
OwnReceipts == \A u \in Calls : receipts[u] # None => receipts[u].call = u
ReceiptInv == TypeOK /\ OwnReceipts /\ ProcessedIsCharged

\* Receipts are never withdrawn nor rewritten.
LEMMA ReceiptsStay ==
  ASSUME TypeOK, [Next]_vars
  PROVE  \A u \in Units : receipts[u] # None => receipts'[u] = receipts[u]
PROOF
  <1>1. ASSUME NEW h \in Handlers, Insert(h) PROVE \A u \in Units : receipts[u] # None => receipts'[u] = receipts[u]
    <2>1. PICK c \in Calls :
            /\ receipts[Unit(c)] = None
            /\ receipts' = [receipts EXCEPT ![Unit(c)] = [call |-> c, credits |-> Price[c]]]
      BY <1>1, InsertCharges
    <2>2. \A u \in Units : u # Unit(c) => receipts'[u] = receipts[u]
      BY <2>1 DEF TypeOK
    <2> QED
      BY <2>1, <2>2
  <1>2. CASE receipts' = receipts
    BY <1>2
  <1> QED
    BY <1>1, <1>2 DEF Next, vars, Answer, Post, Consume, Begin, Check, Refused, Done, Deposit,
       Transfer, TransferFails, Restart, books

LEMMA OwnReceiptsStep == TypeOK /\ OwnReceipts /\ [Next]_vars => OwnReceipts'
PROOF
  <1> SUFFICES ASSUME TypeOK, OwnReceipts, [Next]_vars PROVE OwnReceipts'
    OBVIOUS
  <1>1. ASSUME NEW h \in Handlers, Insert(h) PROVE OwnReceipts'
    <2>1. PICK c \in Calls :
            /\ Unit(c) \in Units
            /\ receipts' = [receipts EXCEPT ![Unit(c)] = [call |-> c, credits |-> Price[c]]]
      BY <1>1, InsertCharges
    <2>2. \A u \in Calls : u = Unit(c) => u = c
      BY DEF Unit
    <2>3. Calls \subseteq Units
      BY DEF Units
    <2> QED
      BY <2>1, <2>2, <2>3 DEF OwnReceipts, TypeOK
  <1>2. CASE receipts' = receipts
    BY <1>2 DEF OwnReceipts
  <1> QED
    BY <1>1, <1>2 DEF Next, vars, Answer, Post, Consume, Begin, Check, Refused, Done, Deposit,
       Transfer, TransferFails, Restart, books

\* A report's count grows only by deferred calls and calls whose unit has a receipt by then.
LEMMA ReportsStep ==
  ASSUME TypeOK, [Next]_vars, NEW g \in Handlers, NEW c \in handlers'[g].ok,
         c \notin handlers[g].ok, Price[c] # None
  PROVE  c \in Calls /\ Unit(c) \in Units /\ receipts'[Unit(c)] # None
PROOF
  <1>1. ASSUME NEW h \in Handlers, NEW ok, handlers[h] \in Reports, Past(h, ok)
        PROVE  g = h /\ c \in ok
    BY <1>1 DEF Past, Report, TypeOK
  <1>2. ASSUME NEW d \in Calls PROVE Unit(d) \in Units
    BY DEF Unit, Units
  <1>3. \A h \in Handlers : handlers[h] \in Reports
    BY DEF TypeOK
  <1>4. ASSUME NEW h \in Handlers, Post(h) \/ Consume(h) PROVE FALSE
    <2>1. PICK batch : handlers' = [handlers EXCEPT ![h] = Report("entry", batch, {})]
      BY <1>4 DEF Post, Consume, Begin
    <2>2. Report("entry", batch, {}).ok = {}
      BY DEF Report
    <2> QED
      BY <2>1, <2>2 DEF TypeOK
  <1>5. ASSUME NEW h \in Handlers, Check(h)
        PROVE  c \in Calls /\ Unit(c) \in Units /\ receipts'[Unit(c)] # None
    <2> DEFINE d == Head(handlers[h].todo)
    <2>1. d \in Calls
      BY <1>5, <1>3 DEF Check, Reports
    <2>2. CASE Past(h, {})
      BY <2>2, <1>1, <1>3
    <2>3. CASE receipts[Unit(d)] # None /\ Past(h, {d})
      BY <1>5, <2>1, <2>3, <1>1, <1>2, <1>3 DEF Check, books
    <2>4. CASE handlers' = [handlers EXCEPT ![h].pc = "insert"]
      BY <2>4, <1>3 DEF TypeOK, Reports
    <2>5. CASE Price[d] = None /\ Past(h, {d})
      BY <1>5, <2>5, <1>1, <1>3
    <2> QED
      BY <1>5, <2>2, <2>3, <2>4, <2>5 DEF Check
  <1>6. ASSUME NEW h \in Handlers, Insert(h)
        PROVE  c \in Calls /\ Unit(c) \in Units /\ receipts'[Unit(c)] # None
    <2>1. PICK d \in Calls :
            /\ Unit(d) \in Units /\ Price[d] \in Nat
            /\ receipts' = [receipts EXCEPT ![Unit(d)] = [call |-> d, credits |-> Price[d]]]
            /\ Past(h, {d})
      BY <1>6, InsertCharges
    <2>2. c = d
      BY <2>1, <1>1, <1>3
    <2>3. [call |-> d, credits |-> Price[d]] # None
      BY <2>1
    <2> QED
      BY <2>1, <2>2, <2>3 DEF TypeOK
  <1>7. ASSUME NEW h \in Handlers, Refused(h)
        PROVE  c \in Calls /\ Unit(c) \in Units /\ receipts'[Unit(c)] # None
    <2> DEFINE d == Head(handlers[h].todo)
    <2>1. d \in Calls
      BY <1>7, <1>3 DEF Refused, TypeOK, Reports
    <2>2. CASE ~CanInsert(Unit(d)) /\ Past(h, {d})
      BY <1>7, <2>1, <2>2, <1>1, <1>2, <1>3 DEF Refused, CanInsert, books
    <2>3. CASE Past(h, {})
      BY <2>3, <1>1, <1>3
    <2> QED
      BY <1>7, <2>2, <2>3 DEF Refused
  <1>8. ASSUME (\E h \in Handlers : Done(h)) \/ Restart PROVE FALSE
    <2>1. Idle.ok = {}
      BY DEF Idle, Report
    <2>2. CASE \E h \in Handlers : Done(h)
      BY <2>1, <2>2 DEF Done, TypeOK
    <2>3. CASE Restart
      BY <2>1, <2>3 DEF Restart, TypeOK
    <2> QED
      BY <1>8, <2>2, <2>3
  <1>9. CASE handlers' = handlers
    BY <1>9
  <1> QED
    BY <1>4, <1>5, <1>6, <1>7, <1>8, <1>9 DEF Next, vars, Answer, Deposit, Transfer, TransferFails

LEMMA ReceiptInvStep == ReceiptInv /\ [Next]_vars => ReceiptInv'
PROOF
  <1> SUFFICES ASSUME ReceiptInv, [Next]_vars PROVE ReceiptInv'
    OBVIOUS
  <1> USE DEF ReceiptInv
  <1>1. TypeOK' /\ OwnReceipts'
    BY NextTypeOK, OwnReceiptsStep
  <1>2. ASSUME NEW g \in Handlers, NEW c \in handlers'[g].ok, Price[c] # None
        PROVE  c \in Calls /\ Unit(c) \in Units /\ receipts'[Unit(c)] # None
    <2>1. CASE c \in handlers[g].ok
      <3>1. c \in Calls /\ Unit(c) \in Units
        BY <2>1 DEF TypeOK, Reports, Unit, Units
      <3>2. receipts[Unit(c)] # None
        BY <1>2, <2>1 DEF ProcessedIsCharged
      <3> QED
        BY <3>1, <3>2, ReceiptsStay
    <2> QED
      BY <1>2, <2>1, ReportsStep
  <1>3. ASSUME NEW c \in Calls, c \notin Byo, receipts'[Unit(c)] # None
        PROVE  receipts'[Unit(c)].call = c
    BY <1>3, <1>1 DEF OwnReceipts, Unit
  <1>4. ProcessedIsCharged'
    BY <1>2, <1>3 DEF ProcessedIsCharged, Unit
  <1> QED
    BY <1>1, <1>4

\* What a report counted as processed, neither deferred nor with an error of its own, has
\* a receipt, even where another report won the insertion.
THEOREM ProcessedCharged == Spec => []ProcessedIsCharged
PROOF
  <1>1. Init => ReceiptInv
    BY InitTypeOK DEF ReceiptInv, Init, OwnReceipts, ProcessedIsCharged, Units, Idle, Report
  <1>2. ReceiptInv /\ [Next]_vars => ReceiptInv'
    BY ReceiptInvStep
  <1>3. ReceiptInv => ProcessedIsCharged
    BY DEF ReceiptInv
  <1> QED
    BY <1>1, <1>2, <1>3, PTL DEF Spec

\* A client that gave up its accounts has met an error.
MirrorInv == TypeOK /\ faults \in Nat /\ (tb = "failed" => faults > 0) /\ MirrorFollowsReceipts

\* Errors are only ever counted up, and the client gives up only with one.
LEMMA FaultsStep ==
  ASSUME faults \in Nat, [Next]_vars
  PROVE  /\ faults' = faults \/ faults' = faults + 1
         /\ tb' = "failed" => tb = "failed" \/ faults' = faults + 1
PROOF
  <1>1. ASSUME NEW h \in Handlers, Post(h) \/ Consume(h) \/ Check(h) \/ Insert(h) \/ Done(h)
        PROVE  faults' = faults /\ tb' = tb
    BY <1>1 DEF Post, Consume, Begin, Check, Insert, Done, counters
  <1>2. ASSUME NEW h \in Handlers, Refused(h)
        PROVE  (faults' = faults \/ faults' = faults + 1) /\ tb' = tb
    BY <1>2 DEF Refused, Fault, counters
  <1>3. ASSUME NEW u \in Units, Transfer(u) PROVE faults' = faults /\ tb' = "ready"
    BY <1>3 DEF Transfer, counters
  <1>4. ASSUME NEW u \in Units, TransferFails(u)
        PROVE  (faults' = faults /\ tb' = tb) \/ faults' = faults + 1
    BY <1>4 DEF TransferFails, Fault, counters
  <1>5. ASSUME Restart PROVE faults' = faults + 1
    BY <1>5 DEF Restart, Fault
  <1>6. ASSUME (\E c \in Calls : Answer(c)) \/ (\E d \in Deposits : Deposit(d)) \/ UNCHANGED vars
        PROVE  faults' = faults /\ tb' = tb
    BY <1>6 DEF Answer, Deposit, vars, counters
  <1> QED
    BY <1>1, <1>2, <1>3, <1>4, <1>5, <1>6 DEF Next

LEMMA MirrorStep == MirrorInv /\ [Next]_vars => MirrorInv'
PROOF
  <1> SUFFICES ASSUME MirrorInv, [Next]_vars PROVE MirrorInv'
    OBVIOUS
  <1> USE DEF MirrorInv
  <1>1. TypeOK'
    BY NextTypeOK
  <1>2. faults' \in Nat /\ (faults' = faults \/ faults' > 0)
    BY FaultsStep
  <1>3. ASSUME NEW h \in Handlers, Insert(h) PROVE MirrorFollowsReceipts'
    <2>1. PICK c \in Calls :
            /\ Unit(c) \in Units /\ receipts[Unit(c)] = None /\ Price[c] \in Nat
            /\ receipts' = [receipts EXCEPT ![Unit(c)] = [call |-> c, credits |-> Price[c]]]
            /\ cowrites' = cowrites \cup {Unit(c)}
      BY <1>3, InsertCharges
    <2>2. [call |-> c, credits |-> Price[c]] # None
      BY <2>1
    <2>3. {u \in Units : receipts'[u] # None} = {u \in Units : receipts[u] # None} \cup {Unit(c)}
      BY <2>1, <2>2 DEF TypeOK
    <2>4. mirror' = mirror /\ faults' = faults
      BY <1>3 DEF Insert, counters
    <2>5. Unit(c) \notin mirror
      BY <2>1 DEF MirrorFollowsReceipts
    <2> QED
      BY <2>1, <2>3, <2>4, <2>5 DEF MirrorFollowsReceipts, Units
  <1>4. ASSUME NEW u \in Units, Transfer(u) PROVE MirrorFollowsReceipts'
    BY <1>4 DEF Transfer, books, counters, MirrorFollowsReceipts, Units
  <1>5. ASSUME NEW u \in Units, TransferFails(u) PROVE MirrorFollowsReceipts'
    <2>1. cowrites' = cowrites \ {u} /\ mirror' = mirror /\ receipts' = receipts
      BY <1>5 DEF TransferFails, books
    <2>2. faults' > 0
      BY <1>5, <1>2 DEF TransferFails, Fault, counters
    <2> QED
      BY <2>1, <2>2 DEF MirrorFollowsReceipts, Units
  <1>6. ASSUME Restart PROVE MirrorFollowsReceipts'
    <2>1. faults' > 0 /\ cowrites' = {} /\ mirror' = mirror /\ receipts' = receipts
      BY <1>6 DEF Restart, Fault, books
    <2> QED
      BY <2>1 DEF MirrorFollowsReceipts, Units
  <1>7. ASSUME \/ \E c \in Calls : Answer(c)
               \/ \E h \in Handlers : Post(h) \/ Consume(h) \/ Check(h) \/ Refused(h) \/ Done(h)
               \/ \E d \in Deposits : Deposit(d)
               \/ UNCHANGED vars
        PROVE  MirrorFollowsReceipts'
    <2>1. cowrites' = cowrites /\ mirror' = mirror /\ receipts' = receipts
      BY <1>7 DEF Answer, Post, Consume, Begin, Check, Refused, Done, Deposit, vars, books
    <2> QED
      BY <2>1, <1>2 DEF MirrorFollowsReceipts, Units
  <1>8. MirrorFollowsReceipts'
    BY <1>3, <1>4, <1>5, <1>6, <1>7 DEF Next
  <1>9. tb' = "failed" => faults' > 0
    BY FaultsStep
  <1> QED
    BY <1>1, <1>2, <1>8, <1>9

\* TigerBeetle never holds what was not charged, and misses a charge only after an error.
THEOREM MirrorFollows == Spec => []MirrorFollowsReceipts
PROOF
  <1>1. Init => MirrorInv
    BY InitTypeOK DEF MirrorInv, Init, MirrorFollowsReceipts
  <1>2. MirrorInv /\ [Next]_vars => MirrorInv'
    BY MirrorStep
  <1>3. MirrorInv => MirrorFollowsReceipts
    BY DEF MirrorInv
  <1> QED
    BY <1>1, <1>2, <1>3, PTL DEF Spec

-----------------------------------------------------------------------------
(* The ledger explains the balances *)

Rows == [account : Accounts, amount : Int, after : Int, reference : Units \cup Deposits]

\* Where an account has rows, it has a last one.
HasLast(a, n) ==
  RowsOf(a, n) # {} => \E i \in RowsOf(a, n) : \A j \in RowsOf(a, n) : j <= i

\* Every row stands for a receipt or a deposit that was made, and every receipt is of a call.
LedgerInv ==
  /\ TypeOK
  /\ ledger \in Seq(Rows)
  /\ \A i \in 1..Len(ledger) :
       \/ ledger[i].reference \in Units /\ receipts[ledger[i].reference] # None
       \/ ledger[i].reference \in deposited
  /\ \A a \in Accounts : \A n \in 0..Len(ledger) : HasLast(a, n)
  /\ LedgerExplainsBalance

\* The greatest number of a set that has one.
Latest(S) == CHOOSE i \in S : \A j \in S : j <= i

\* LastAfter by the rows of an account, before and after a step.
LEMMA LastAfterIs ==
  ASSUME NEW a, NEW n
  PROVE  /\ LastAfter(a, n)
              = IF RowsOf(a, n) = {} THEN Opening ELSE ledger[Latest(RowsOf(a, n))].after
         /\ LastAfter(a, n)'
              = IF RowsOf(a, n)' = {} THEN Opening ELSE ledger'[Latest(RowsOf(a, n)')].after
PROOF
  BY DEF LastAfter, Latest

\* Latest is the greatest of the numbers there are.
LEMMA LatestIs ==
  ASSUME NEW S \in SUBSET Nat, NEW i \in S, \A j \in S : j <= i PROVE Latest(S) = i
PROOF
  <1> DEFINE Greatest(k) == k \in S /\ \A j \in S : j <= k
  <1>1. Latest(S) = CHOOSE k : Greatest(k)
    BY Zenon DEF Latest
  <1>2. Greatest(i)
    OBVIOUS
  <1> HIDE DEF Greatest
  <1>3. Greatest(Latest(S))
    BY <1>1, <1>2
  <1>4. Latest(S) \in S /\ i \in S /\ i <= Latest(S) /\ Latest(S) <= i
    BY <1>2, <1>3 DEF Greatest
  <1>5. \A x, y \in Nat : x <= y /\ y <= x => x = y
    OBVIOUS
  <1> QED
    BY <1>4, <1>5, Zenon

\* What is appended to the ledger leaves the last row of every account before it alone.
LEMMA LastAfterStays ==
  ASSUME ledger \in Seq(Rows), NEW row \in Rows, ledger' = Append(ledger, row),
         NEW a \in Accounts, NEW n \in 0..Len(ledger), HasLast(a, n)
  PROVE  /\ RowsOf(a, n)' = RowsOf(a, n)
         /\ LastAfter(a, n)' = LastAfter(a, n)
PROOF
  <1>1. \A i \in 1..n : i \in 1..Len(ledger) /\ ledger'[i] = ledger[i]
    OBVIOUS
  <1>2. RowsOf(a, n)' = RowsOf(a, n)
    BY <1>1 DEF RowsOf
  <1>3. CASE RowsOf(a, n) = {}
    BY <1>2, <1>3, LastAfterIs
  <1>4. CASE RowsOf(a, n) # {}
    <2>1. PICK i \in RowsOf(a, n) : \A j \in RowsOf(a, n) : j <= i
      BY <1>4 DEF HasLast
    <2>2. RowsOf(a, n) \in SUBSET Nat /\ i \in 1..n
      BY DEF RowsOf
    <2>3. Latest(RowsOf(a, n)) = i
      BY <2>1, <2>2, LatestIs
    <2> QED
      BY <1>1, <1>2, <1>4, <2>2, <2>3, LastAfterIs
  <1> QED
    BY <1>2, <1>3, <1>4

\* The last row after an append is the new one for its account, and what it was for the others.
LEMMA LastAfterAppend ==
  ASSUME ledger \in Seq(Rows), NEW row \in Rows, ledger' = Append(ledger, row),
         NEW a \in Accounts, HasLast(a, Len(ledger)),
         NEW n \in Nat, n = Len(ledger) + 1
  PROVE  /\ HasLast(a, n)'
         /\ LastAfter(a, n)'
              = IF row.account = a THEN row.after ELSE LastAfter(a, Len(ledger))
PROOF
  <1>1. Len(ledger) \in Nat /\ Len(ledger') = n /\ ledger'[n] = row
    OBVIOUS
  <1>2. /\ RowsOf(a, Len(ledger)) \in SUBSET (1..Len(ledger))
        /\ \A i \in 1..Len(ledger) : ledger'[i] = ledger[i]
    BY DEF RowsOf
  <1>3. CASE row.account = a
    <2>1. RowsOf(a, n)' \in SUBSET (1..n)
      BY DEF RowsOf
    <2>2. n \in RowsOf(a, n)' /\ \A j \in RowsOf(a, n)' : j <= n
      BY <1>1, <1>3, <2>1 DEF RowsOf
    <2>3. Latest(RowsOf(a, n)') = n
      BY <2>1, <2>2, LatestIs
    <2> QED
      BY <1>1, <1>3, <2>2, <2>3, LastAfterIs DEF HasLast
  <1>4. CASE row.account # a
    <2>1. RowsOf(a, n)' = RowsOf(a, Len(ledger))
      BY <1>1, <1>2, <1>4 DEF RowsOf
    <2>2. CASE RowsOf(a, Len(ledger)) = {}
      BY <1>4, <2>1, <2>2, LastAfterIs DEF HasLast
    <2>3. CASE RowsOf(a, Len(ledger)) # {}
      <3>1. PICK i \in RowsOf(a, Len(ledger)) : \A j \in RowsOf(a, Len(ledger)) : j <= i
        BY <2>3 DEF HasLast
      <3>2. Latest(RowsOf(a, Len(ledger))) = i
        BY <1>2, <3>1, LatestIs
      <3>3. LastAfter(a, n)' = ledger[i].after /\ LastAfter(a, Len(ledger)) = ledger[i].after
        BY <1>2, <2>1, <2>3, <3>2, LastAfterIs
      <3>4. HasLast(a, n)'
        BY <2>1, <3>1 DEF HasLast
      <3> QED
        BY <1>4, <3>3, <3>4
    <2> QED
      BY <2>2, <2>3
  <1> QED
    BY <1>3, <1>4

\* What an append has to be for the ledger to go on explaining the balances: it carries the
\* balance it leaves, and stands for a receipt or a deposit that comes with it.
LEMMA AppendExplains ==
  ASSUME LedgerInv, TypeOK', NEW account \in Accounts, NEW amount \in Int,
         NEW reference \in Units \cup Deposits,
         balance' = [balance EXCEPT ![account] = @ + amount],
         ledger' = Append(ledger, Row(account, amount, balance'[account], reference)),
         \/ /\ reference \in Units /\ receipts[reference] = None /\ receipts'[reference] # None
            /\ amount = -receipts'[reference].credits
            /\ \A u \in Units : u # reference => receipts'[u] = receipts[u]
            /\ deposited' = deposited
         \/ /\ reference \in Deposits \ deposited /\ receipts' = receipts
            /\ deposited' = deposited \cup {reference}
  PROVE  LedgerInv'
PROOF
  <1>1. balance[account] \in Int /\ balance'[account] = balance[account] + amount
    BY DEF LedgerInv, TypeOK
  <1>2. PICK row \in Rows :
          /\ row.account = account /\ row.amount = amount
          /\ row.after = balance[account] + amount /\ row.reference = reference
          /\ ledger' = Append(ledger, row)
    <2>1. Row(account, amount, balance'[account], reference) \in Rows
      BY <1>1 DEF Row, Rows
    <2> QED
      BY <1>1, <2>1 DEF Row
  <1>3. PICK m \in Nat : m = Len(ledger) /\ ledger \in Seq(Rows)
    BY DEF LedgerInv
  <1>4. /\ ledger' \in Seq(Rows) /\ Len(ledger') = m + 1 /\ ledger'[m + 1] = row
        /\ \A i \in 1..m : ledger'[i] = ledger[i]
        /\ \A i \in 1..m + 1 : i \in 1..m \/ i = m + 1
    BY <1>2, <1>3
  <1>5. Units \cap Deposits = {}
    BY DEF Units
  <1>6. \A i \in 1..m : ledger[i].reference # reference
    BY <1>3, <1>5 DEF LedgerInv, TypeOK
  <1>7. ASSUME NEW i \in 1..m + 1
        PROVE  \/ ledger'[i].reference \in Units /\ receipts'[ledger'[i].reference] # None
               \/ ledger'[i].reference \in deposited'
    <2>1. CASE i = m + 1
      BY <2>1, <1>2, <1>4
    <2>2. CASE i \in 1..m
      BY <2>2, <1>3, <1>4, <1>6 DEF LedgerInv
    <2> QED
      BY <2>1, <2>2, <1>3, <1>4
  <1>8. ASSUME NEW a \in Accounts
        PROVE  /\ HasLast(a, m + 1)'
               /\ LastAfter(a, m + 1)' = IF account = a THEN row.after ELSE LastAfter(a, m)
    <2>1. HasLast(a, m)
      BY <1>3 DEF LedgerInv
    <2> QED
      BY <2>1, <1>2, <1>3, LastAfterAppend
  <1>9. ASSUME NEW a \in Accounts, NEW n \in 0..m
        PROVE  HasLast(a, n)' /\ LastAfter(a, n)' = LastAfter(a, n)
    <2>1. HasLast(a, n) /\ n \in 0..Len(ledger)
      BY <1>3 DEF LedgerInv
    <2>2. RowsOf(a, n)' = RowsOf(a, n) /\ LastAfter(a, n)' = LastAfter(a, n)
      BY <2>1, <1>2, <1>3, LastAfterStays
    <2> QED
      BY <2>1, <2>2 DEF HasLast
  <1>10. ASSUME NEW a \in Accounts, NEW n \in 0..m + 1 PROVE HasLast(a, n)'
    BY <1>3, <1>4, <1>8, <1>9
  <1>11. ASSUME NEW a \in Accounts PROVE balance'[a] = LastAfter(a, m + 1)'
    <2>1. balance[a] = LastAfter(a, m)
      BY <1>3 DEF LedgerInv, LedgerExplainsBalance
    <2>2. balance'[a] = IF account = a THEN row.after ELSE balance[a]
      BY <1>1, <1>2 DEF LedgerInv, TypeOK
    <2> QED
      BY <2>1, <2>2, <1>4, <1>8
  <1>12. ASSUME NEW i \in 1..m + 1, NEW a \in Accounts, ledger'[i].account = a
         PROVE  ledger'[i].after = LastAfter(a, i - 1)' + ledger'[i].amount
    <2>1. CASE i = m + 1
      <3>1. LastAfter(a, m)' = balance[a]
        BY <1>3, <1>9 DEF LedgerInv, LedgerExplainsBalance
      <3>2. i - 1 = m
        BY <2>1, <1>3
      <3> QED
        BY <2>1, <3>1, <3>2, <1>2, <1>4, <1>12
    <2>2. CASE i \in 1..m
      <3>1. ledger'[i] = ledger[i] /\ ledger[i].account = a /\ i - 1 \in 0..m
        BY <2>2, <1>3, <1>4, <1>12
      <3>2. ledger[i].after = LastAfter(a, i - 1) + ledger[i].amount
        BY <2>2, <3>1, <1>3 DEF LedgerInv, LedgerExplainsBalance
      <3>3. LastAfter(a, i - 1)' = LastAfter(a, i - 1)
        BY <3>1, <1>9
      <3> QED
        BY <3>1, <3>2, <3>3
    <2> QED
      BY <2>1, <2>2, <1>3, <1>4
  <1>13. ASSUME NEW u \in Units, receipts'[u] # None
         PROVE  \E i \in 1..m + 1 :
                  /\ ledger'[i].reference = u /\ ledger'[i].amount = -receipts'[u].credits
                  /\ \A j \in 1..m + 1 : ledger'[j].reference = u => j = i
    <2>1. CASE u = reference
      <3>1. m + 1 \in 1..m + 1
        BY <1>3
      <3>2. reference \in Units /\ amount = -receipts'[reference].credits
        BY <2>1, <1>5
      <3> QED
        BY <2>1, <3>1, <3>2, <1>2, <1>4, <1>6
    <2>2. CASE u # reference
      <3>1. receipts'[u] = receipts[u]
        BY <2>2
      <3>2. PICK i \in 1..m :
              /\ ledger[i].reference = u /\ ledger[i].amount = -receipts[u].credits
              /\ \A j \in 1..m : ledger[j].reference = u => j = i
        BY <1>13, <3>1, <1>3 DEF LedgerInv, LedgerExplainsBalance
      <3>3. i \in 1..m + 1
        BY <1>3
      <3>4. ledger'[i].reference = u /\ ledger'[i].amount = -receipts'[u].credits
        BY <3>1, <3>2, <1>4
      <3>5. \A j \in 1..m + 1 : ledger'[j].reference = u => j = i
        BY <2>2, <3>2, <1>2, <1>4
      <3> QED
        BY <3>3, <3>4, <3>5
    <2> QED
      BY <2>1, <2>2
  <1>14. LedgerExplainsBalance'
    <2>1. \A a \in Accounts : balance'[a] = LastAfter(a, Len(ledger))'
      BY <1>4, <1>11
    <2>2. \A i \in 1..Len(ledger'), a \in Accounts : ledger'[i].account = a =>
            ledger'[i].after = LastAfter(a, i - 1)' + ledger'[i].amount
      BY <1>4, <1>12
    <2>3. \A u \in Units : receipts'[u] # None =>
            \E i \in 1..m + 1 :
              /\ ledger'[i].reference = u /\ ledger'[i].amount = -receipts'[u].credits
              /\ \A j \in 1..m + 1 : ledger'[j].reference = u => j = i
      BY <1>13, Zenon
    <2>4. \A u \in Units : receipts'[u] # None =>
            \E i \in 1..Len(ledger') :
              /\ ledger'[i].reference = u /\ ledger'[i].amount = -receipts'[u].credits
              /\ \A j \in 1..Len(ledger') : ledger'[j].reference = u => j = i
      <3> SUFFICES ASSUME NEW u \in Units, receipts'[u] # None
                   PROVE  \E i \in 1..Len(ledger') :
                            /\ ledger'[i].reference = u
                            /\ ledger'[i].amount = -receipts'[u].credits
                            /\ \A j \in 1..Len(ledger') : ledger'[j].reference = u => j = i
        OBVIOUS
      <3>1. PICK i \in 1..m + 1 :
              /\ ledger'[i].reference = u /\ ledger'[i].amount = -receipts'[u].credits
              /\ \A j \in 1..m + 1 : ledger'[j].reference = u => j = i
        BY <2>3
      <3>2. 1..Len(ledger') = 1..m + 1
        BY <1>4
      <3>3. i \in 1..Len(ledger')
        BY <3>2
      <3>4. \A j \in 1..Len(ledger') : ledger'[j].reference = u => j = i
        BY <3>1, <3>2
      <3> QED
        BY <3>1, <3>3, <3>4
    <2> QED
      BY <2>1, <2>2, <2>4 DEF LedgerExplainsBalance, Units
  <1> QED
    BY <1>4, <1>7, <1>10, <1>14 DEF LedgerInv

LEMMA LedgerInit == Init => LedgerInv
PROOF
  <1> SUFFICES ASSUME Init PROVE LedgerInv
    OBVIOUS
  <1>1. TypeOK
    BY InitTypeOK
  <1>2. ledger = <<>> /\ Len(ledger) = 0 /\ ledger \in Seq(Rows)
    BY DEF Init
  <1>3. \A a \in Accounts : RowsOf(a, 0) = {} /\ HasLast(a, 0) /\ LastAfter(a, 0) = Opening
    BY DEF RowsOf, HasLast, LastAfter
  <1>4. LedgerExplainsBalance
    BY <1>2, <1>3 DEF LedgerExplainsBalance, Init
  <1> QED
    BY <1>1, <1>2, <1>3, <1>4 DEF LedgerInv

\* A step that leaves receipts, balances, rows and deposits alone explains nothing anew.
LEMMA LedgerStays ==
  ASSUME LedgerInv, TypeOK', UNCHANGED <<receipts, ledger, balance, deposited>>
  PROVE  LedgerInv'
PROOF
  <1>1. ASSUME NEW a, NEW n
        PROVE  RowsOf(a, n)' = RowsOf(a, n) /\ LastAfter(a, n)' = LastAfter(a, n)
    <2>1. RowsOf(a, n)' = RowsOf(a, n)
      BY DEF RowsOf
    <2> QED
      BY <2>1, LastAfterIs
  <1>2. \A a \in Accounts : \A n \in 0..Len(ledger') : HasLast(a, n)'
    <2>1. ASSUME NEW a, NEW n, HasLast(a, n) PROVE HasLast(a, n)'
      BY <1>1, <2>1 DEF HasLast
    <2>2. \A a \in Accounts : \A n \in 0..Len(ledger') : HasLast(a, n)
      BY DEF LedgerInv
    <2> QED
      BY <2>1, <2>2
  <1>0. /\ receipts' = receipts /\ ledger' = ledger /\ balance' = balance
        /\ Len(ledger') = Len(ledger)
    OBVIOUS
  <1>3. \A a \in Accounts : balance'[a] = LastAfter(a, Len(ledger))'
    BY <1>1 DEF LedgerInv, LedgerExplainsBalance
  <1>4. ASSUME NEW i \in 1..Len(ledger'), NEW a \in Accounts, ledger'[i].account = a
        PROVE  ledger'[i].after = LastAfter(a, i - 1)' + ledger'[i].amount
    <2>1. i \in 1..Len(ledger) /\ ledger[i].account = a
      BY <1>0, <1>4
    <2>2. ledger[i].after = LastAfter(a, i - 1) + ledger[i].amount
      BY <2>1 DEF LedgerInv, LedgerExplainsBalance
    <2>3. LastAfter(a, i - 1)' = LastAfter(a, i - 1)
      BY <1>1
    <2> QED
      BY <1>0, <2>2, <2>3
  <1>5. ASSUME NEW u \in Units, receipts'[u] # None
        PROVE  \E i \in 1..Len(ledger') :
                 /\ ledger'[i].reference = u /\ ledger'[i].amount = -receipts'[u].credits
                 /\ \A j \in 1..Len(ledger') : ledger'[j].reference = u => j = i
    <2>1. receipts[u] # None
      BY <1>0, <1>5
    <2>2. PICK i \in 1..Len(ledger) :
            /\ ledger[i].reference = u /\ ledger[i].amount = -receipts[u].credits
            /\ \A j \in 1..Len(ledger) : ledger[j].reference = u => j = i
      BY <2>1 DEF LedgerInv, LedgerExplainsBalance
    <2>3. i \in 1..Len(ledger')
      BY <1>0
    <2>4. ledger'[i].reference = u /\ ledger'[i].amount = -receipts'[u].credits
      BY <1>0, <2>2
    <2>5. \A j \in 1..Len(ledger') : ledger'[j].reference = u => j = i
      BY <1>0, <2>2
    <2> QED
      BY <2>3, <2>4, <2>5
  <1>6. LedgerExplainsBalance'
    BY <1>3, <1>4, <1>5 DEF LedgerExplainsBalance, Units
  <1> QED
    BY <1>2, <1>6 DEF LedgerInv, Units

LEMMA LedgerStep == LedgerInv /\ [Next]_vars => LedgerInv'
PROOF
  <1> SUFFICES ASSUME LedgerInv, [Next]_vars PROVE LedgerInv'
    OBVIOUS
  <1>1. TypeOK /\ TypeOK'
    BY NextTypeOK DEF LedgerInv
  <1>2. ASSUME NEW h \in Handlers, Insert(h) PROVE LedgerInv'
    <2>1. PICK c \in Calls :
            /\ Chargeable(c) /\ Unit(c) \in Units /\ receipts[Unit(c)] = None
            /\ Price[c] \in Nat
            /\ receipts' = [receipts EXCEPT ![Unit(c)] = [call |-> c, credits |-> Price[c]]]
            /\ c = Head(handlers[h].todo)
      BY <1>1, <1>2, InsertCharges
    <2>2. /\ balance' = [balance EXCEPT ![Payer(c)] = @ + (-Price[c])]
          /\ ledger' = Append(ledger, Row(Payer(c), -Price[c], balance'[Payer(c)], Unit(c)))
          /\ deposited' = deposited
      BY <1>2, <2>1 DEF Insert, Moved
    <2>3. Payer(c) \in Accounts /\ -Price[c] \in Int /\ Unit(c) \in Units \cup Deposits
      BY <2>1 DEF Chargeable, Processable
    <2>4. /\ receipts'[Unit(c)] = [call |-> c, credits |-> Price[c]]
          /\ \A u \in Units : u # Unit(c) => receipts'[u] = receipts[u]
      BY <1>1, <2>1 DEF TypeOK
    <2>5. receipts'[Unit(c)] # None /\ -Price[c] = -receipts'[Unit(c)].credits
      BY <2>1, <2>4
    <2> QED
      BY <1>1, <2>1, <2>2, <2>3, <2>4, <2>5, AppendExplains
  <1>3. ASSUME NEW d \in Deposits, Deposit(d) PROVE LedgerInv'
    <2>1. Beneficiary[d] \in Accounts /\ Amount[d] \in Int
      OBVIOUS
    <2>2. /\ balance' = [balance EXCEPT ![Beneficiary[d]] = @ + Amount[d]]
          /\ ledger' = Append(ledger,
               Row(Beneficiary[d], Amount[d], balance'[Beneficiary[d]], d))
          /\ d \in Deposits \ deposited /\ receipts' = receipts
          /\ deposited' = deposited \cup {d}
      BY <1>3 DEF Deposit, Moved
    <2> QED
      BY <1>1, <2>1, <2>2, AppendExplains
  <1>4. CASE UNCHANGED <<receipts, ledger, balance, deposited>>
    BY <1>1, <1>4, LedgerStays
  <1>5. ASSUME NEW h \in Handlers, Post(h) \/ Consume(h) \/ Check(h) \/ Refused(h) \/ Done(h)
        PROVE  UNCHANGED <<receipts, ledger, balance, deposited>>
    BY <1>5 DEF Post, Consume, Begin, Check, Refused, Done, books
  <1>6. ASSUME NEW c \in Calls, Answer(c)
        PROVE  UNCHANGED <<receipts, ledger, balance, deposited>>
    BY <1>6 DEF Answer, books
  <1>7. ASSUME NEW u \in Units, Transfer(u) \/ TransferFails(u)
        PROVE  UNCHANGED <<receipts, ledger, balance, deposited>>
    BY <1>7 DEF Transfer, TransferFails, books
  <1>8. ASSUME Restart \/ UNCHANGED vars
        PROVE  UNCHANGED <<receipts, ledger, balance, deposited>>
    BY <1>8 DEF Restart, books, vars
  <1> QED
    BY <1>2, <1>3, <1>4, <1>5, <1>6, <1>7, <1>8 DEF Next

\* The balance of every account is what its ledger rows make of it, row by row, and every
\* receipt has one row: debit and row are written in the transaction of the receipt, and
\* the unique index keeps a second one out (drizzle.adapter.ts:438-470).
THEOREM LedgerExplains == Spec => []LedgerExplainsBalance
PROOF
  <1>1. Init => LedgerInv
    BY LedgerInit
  <1>2. LedgerInv /\ [Next]_vars => LedgerInv'
    BY LedgerStep
  <1>3. LedgerInv => LedgerExplainsBalance
    BY DEF LedgerInv
  <1> QED
    BY <1>1, <1>2, <1>3, PTL DEF Spec
=============================================================================
