--------------------------- MODULE WorkItemsProofs ---------------------------
(***************************************************************************)
(* The properties of WorkItems, for every number of processes, calls,      *)
(* items, faults and retries.                                              *)
(*                                                                         *)
(* Control says who may be doing what: whoever has a session has the lock, *)
(* a merge left to a dead session keeps the lock, no two processes serve   *)
(* one call, and what a process knows of its merge is so.  It is enough    *)
(* for what callers are told.  BranchInv adds what is on the branches: the *)
(* branch that is about to be merged, and the one a dead session may still *)
(* merge, were cut from a main that others have only rewritten since, so   *)
(* that a merge without a dispute is the call's statement run on main.     *)
(***************************************************************************)
EXTENDS WorkItems, TLAPS

USE RowsAssumption, WorkItemsAssumption

-----------------------------------------------------------------------------
(* Rows and tables *)

\* The cells of a row.
Cells == {"owner", "text", "holder", "until"}

LEMMA RowCells ==
  ASSUME NEW row \in Row
  PROVE  /\ DOMAIN row = Cells
         /\ row.owner \in {Principal[o] : o \in Ops} \cup {None}
         /\ row.text \in Ops \cup {Outside, None}
         /\ row.holder \in Leases \cup {None} /\ row.until \in Nat
         /\ row = RowOf(row.owner, row.text, row.holder, row.until)
PROOF
  BY DEF Row, Cells, RowOf

LEMMA RowTypes ==
  /\ NoRow \in Row
  /\ EmptyTable \in Table
  /\ \A row \in Row : Rewritten(row) \in Row
PROOF
  <1>1. NoRow \in Row
    BY DEF NoRow, RowOf, Row
  <1>2. ASSUME NEW row \in Row PROVE Rewritten(row) \in Row
    BY RowCells DEF Rewritten, RowOf, Row
  <1> QED
    BY <1>1, <1>2 DEF EmptyTable, Table

\* A three-way merge takes each cell from one of the tables.
LEMMA MergedCells ==
  ASSUME NEW base \in Table, NEW mine \in Table, NEW theirs \in Table, NEW i \in Items
  PROVE  /\ Merged(base, mine, theirs)[i].owner
              = IF mine[i].owner = base[i].owner THEN theirs[i].owner ELSE mine[i].owner
         /\ Merged(base, mine, theirs)[i].text
              = IF mine[i].text = base[i].text THEN theirs[i].text ELSE mine[i].text
         /\ Merged(base, mine, theirs)[i].holder
              = IF mine[i].holder = base[i].holder THEN theirs[i].holder ELSE mine[i].holder
         /\ Merged(base, mine, theirs)[i].until
              = IF mine[i].until = base[i].until THEN theirs[i].until ELSE mine[i].until
         /\ Merged(base, mine, theirs)[i] \in Row
PROOF
  <1> DEFINE row == Merged(base, mine, theirs)[i]
  <1>1. base[i] \in Row /\ mine[i] \in Row /\ theirs[i] \in Row
    BY DEF Table
  <1>2. DOMAIN base[i] = Cells
    BY <1>1, RowCells
  <1>3. row = [c \in Cells |-> IF mine[i][c] = base[i][c] THEN theirs[i][c] ELSE mine[i][c]]
    BY <1>2 DEF Merged
  <1>4. DOMAIN row = Cells
    BY <1>3
  <1>5. /\ row.owner = IF mine[i].owner = base[i].owner THEN theirs[i].owner ELSE mine[i].owner
        /\ row.text = IF mine[i].text = base[i].text THEN theirs[i].text ELSE mine[i].text
        /\ row.holder = IF mine[i].holder = base[i].holder THEN theirs[i].holder ELSE mine[i].holder
        /\ row.until = IF mine[i].until = base[i].until THEN theirs[i].until ELSE mine[i].until
    BY <1>3 DEF Cells
  <1>6. row = [owner |-> row.owner, text |-> row.text, holder |-> row.holder, until |-> row.until]
    BY <1>3 DEF Cells
  <1> HIDE DEF row
  <1>7. /\ row.owner \in {Principal[o] : o \in Ops} \cup {None}
        /\ row.text \in Ops \cup {Outside, None}
        /\ row.holder \in Leases \cup {None} /\ row.until \in Nat
    BY <1>1, <1>5, RowCells
  <1>8. row \in Row
    BY <1>6, <1>7 DEF Row
  <1> QED
    BY <1>5, <1>8 DEF row

LEMMA MergedTable ==
  ASSUME NEW base \in Table, NEW mine \in Table, NEW theirs \in Table
  PROVE  Merged(base, mine, theirs) \in Table
PROOF
  <1> DEFINE row(i) == [c \in DOMAIN base[i] |->
               IF mine[i][c] = base[i][c] THEN theirs[i][c] ELSE mine[i][c]]
  <1>1. Merged(base, mine, theirs) = [i \in Items |-> row(i)]
    BY Zenon DEF Merged
  <1> HIDE DEF row
  <1>2. \A i \in Items : row(i) \in Row
    <2>1. \A i \in Items : Merged(base, mine, theirs)[i] = row(i)
      BY <1>1
    <2> QED
      BY <2>1, MergedCells
  <1> QED
    BY <1>1, <1>2 DEF Table

LEMMA EffectTable ==
  ASSUME NEW o \in Ops, NEW i \in Items, NEW table \in Table, NEW t \in Nat
  PROVE  NewRow(o, table[i], t) \in Row /\ Effect(o, i, table, t) \in Table
PROOF
  <1>1. table[i] \in Row
    BY DEF Table
  <1>2. NewRow(o, table[i], t) \in Row
    <2> DEFINE row == table[i]
    <2>1. /\ row.owner \in {Principal[x] : x \in Ops} \cup {None}
          /\ row.text \in Ops \cup {Outside, None}
          /\ row.holder \in Leases \cup {None} /\ row.until \in Nat
      BY <1>1, RowCells
    <2>2. Principal[o] \in {Principal[x] : x \in Ops} /\ Lease(o) \in Leases /\ t + LeaseTTL \in Nat
      BY DEF Leases
    <2> HIDE DEF row
    <2>3. Kind[o] \in Kinds
      OBVIOUS
    <2>4. CASE Kind[o] = "create"
      BY <2>2, <2>4 DEF NewRow, RowOf, Row
    <2>5. CASE Kind[o] = "patch"
      BY <2>1, <2>5 DEF NewRow, RowOf, Row, row
    <2>6. CASE Kind[o] = "delete"
      BY <2>6, RowTypes DEF NewRow
    <2>7. CASE Kind[o] \in {"claim", "heartbeat"}
      BY <2>1, <2>2, <2>7 DEF NewRow, RowOf, Row, row
    <2>8. CASE Kind[o] = "release"
      BY <2>1, <2>8 DEF NewRow, RowOf, Row, row
    <2> QED
      BY <2>3, <2>4, <2>5, <2>6, <2>7, <2>8 DEF Kinds
  <1> QED
    BY <1>2 DEF Effect, Table

-----------------------------------------------------------------------------
(* Types *)

BranchRows == [base : Table, table : Table]

LEMMA AtIsLocal ==
  ASSUME NEW pc \in PCs, NEW op \in Ops \cup {None}, NEW attempt \in 0..MergeRetries,
         NEW branch \in BranchRows, NEW answer \in Replies \cup {"retry", "disputed"},
         NEW poisoned \in BOOLEAN
  PROVE  At(pc, op, attempt, branch, answer, poisoned) \in Local
PROOF
  BY DEF At, Local, BranchRows

LEMMA LocalFields ==
  ASSUME TypeOK, NEW p \in Processes
  PROVE  /\ proc[p] \in Local
         /\ proc[p].pc \in PCs /\ proc[p].op \in Ops \cup {None}
         /\ proc[p].attempt \in 0..MergeRetries /\ proc[p].branch \in BranchRows
         /\ proc[p].branch.base \in Table /\ proc[p].branch.table \in Table
         /\ proc[p].answer \in Replies \cup {"retry", "disputed"}
         /\ proc[p].poisoned \in BOOLEAN
PROOF
  BY DEF TypeOK, Local, BranchRows

LEMMA NoBranchTyped == NoBranch \in BranchRows
PROOF
  BY RowTypes DEF NoBranch, Branch, BranchRows

LEMMA IdleIsLocal == ASSUME NEW poisoned \in BOOLEAN PROVE Idle(poisoned) \in Local
PROOF
  BY NoBranchTyped, AtIsLocal DEF Idle, PCs, Replies

\* A process that moves to another query keeps everything else it knows.
LEMMA GotoTyped ==
  ASSUME TypeOK, NEW p \in Processes, NEW pc \in PCs, Goto(p, pc)
  PROVE  /\ proc' \in [Processes -> Local]
         /\ proc'[p].pc = pc /\ proc'[p].op = proc[p].op
         /\ proc'[p].attempt = proc[p].attempt /\ proc'[p].branch = proc[p].branch
         /\ proc'[p].answer = proc[p].answer
         /\ \A q \in Processes \ {p} : proc'[q] = proc[q]
PROOF
  <1>1. proc' = [proc EXCEPT ![p].pc = pc] /\ proc \in [Processes -> Local]
    BY DEF Goto, TypeOK
  <1>2. [proc[p] EXCEPT !.pc = pc] \in Local
    BY <1>1 DEF Local
  <1> QED
    BY <1>1, <1>2 DEF Local

\* A process that is given a new local state.
LEMMA SetTyped ==
  ASSUME TypeOK, NEW p \in Processes, NEW w \in Local, proc' = [proc EXCEPT ![p] = w]
  PROVE  /\ proc' \in [Processes -> Local] /\ proc'[p] = w
         /\ \A q \in Processes \ {p} : proc'[q] = proc[q]
PROOF
  BY DEF TypeOK

LEMMA ReleaseTyped ==
  ASSUME TypeOK, NEW p \in Processes,
         NEW answer \in Replies \cup {"retry", "disputed"}, Release(p, answer)
  PROVE  /\ proc' \in [Processes -> Local]
         /\ proc'[p].pc = "unlock" /\ proc'[p].op = proc[p].op
         /\ proc'[p].answer = answer
         /\ \A q \in Processes \ {p} : proc'[q] = proc[q]
PROOF
  <1> DEFINE w == At("unlock", proc[p].op, proc[p].attempt, NoBranch, answer, proc[p].poisoned)
  <1>1. w \in Local
    BY LocalFields, NoBranchTyped, AtIsLocal DEF PCs
  <1>2. w.pc = "unlock" /\ w.op = proc[p].op /\ w.answer = answer
    BY DEF At
  <1>3. proc' = [proc EXCEPT ![p] = w]
    BY DEF Release
  <1> HIDE DEF w
  <1> QED
    BY <1>1, <1>2, <1>3, SetTyped

LEMMA ProveTyped ==
  ASSUME TypeOK, NEW p \in Processes,
         NEW answer \in Replies \cup {"retry", "disputed"}, Prove(p, answer)
  PROVE  /\ proc' \in [Processes -> Local]
         /\ proc'[p].pc = "prove" /\ proc'[p].op = proc[p].op
         /\ \A q \in Processes \ {p} : proc'[q] = proc[q]
PROOF
  <1> DEFINE w == At("prove", proc[p].op, proc[p].attempt, proc[p].branch, answer, FALSE)
  <1>1. w \in Local
    BY LocalFields, AtIsLocal DEF PCs
  <1>2. w.pc = "prove" /\ w.op = proc[p].op
    BY DEF At
  <1>3. proc' = [proc EXCEPT ![p] = w]
    BY DEF Prove
  <1> HIDE DEF w
  <1> QED
    BY <1>1, <1>2, <1>3, SetTyped

-----------------------------------------------------------------------------
(* The lock and the answers *)

\* The log has the commit of a call.
Has(l, o) == \E n \in DOMAIN l : l[n] = o

LEMMA OnMainHas == \A o : OnMain(o) <=> Has(log, o)
PROOF
  BY DEF OnMain, Has

LEMMA HasAppend ==
  ASSUME NEW l \in Seq(Ops), NEW o \in Ops, NEW x
  PROVE  Has(Append(l, o), x) <=> Has(l, x) \/ x = o
PROOF
  <1>1. /\ DOMAIN Append(l, o) = 1..Len(l) + 1 /\ DOMAIN l = 1..Len(l) /\ Len(l) \in Nat
        /\ Append(l, o)[Len(l) + 1] = o /\ Len(l) + 1 \in 1..Len(l) + 1
        /\ \A n \in 1..Len(l) : Append(l, o)[n] = l[n] /\ n \in 1..Len(l) + 1
        /\ \A n \in 1..Len(l) + 1 : n \in 1..Len(l) \/ n = Len(l) + 1
    OBVIOUS
  <1> QED
    BY <1>1 DEF Has

\* A call whose branch was not merged yet, and those that are told so in the end.
Before == {"lock", "reconcile", "sweep", "branch", "merge"}
Clean == {"refused", "conflict", "busy", "error"}

\* What holds of a process: the call it serves is running; main has its commit only once the
\* merge was sent, and the answer to come tells the truth of it; only the holder of the
\* lock has a session, and its branch is there to be merged.
Sane(p) ==
  /\ proc[p].pc # "idle" => proc[p].op \in Ops /\ reply[proc[p].op] = "running"
  /\ proc[p].pc \in Before => ~Has(log, proc[p].op)
  /\ proc[p].pc = "unlock" =>
       /\ proc[p].answer \in {"ok", "unchanged", "refused", "error", "retry", "unknown"}
       /\ proc[p].answer = "ok" => Has(log, proc[p].op)
       /\ proc[p].answer \in {"refused", "error", "retry"} => ~Has(log, proc[p].op)
  /\ p \in sessions => lock = p /\ proc[p].pc \in InSession \cup {"unlock"}
  /\ p \in sessions /\ proc[p].pc = "merge" => proc[p].op \in branches

\* No two processes serve one call.
Alone ==
  \A p, q \in Processes :
    proc[p].pc # "idle" /\ proc[q].pc # "idle" /\ proc[p].op = proc[q].op => p = q

\* A merge left to a dead session is of a call that was given up, and keeps the lock.
LateIsLost ==
  late # None =>
    lock = Dead /\ reply[late.op] \in {"unknown", "lost"} /\ ~Has(log, late.op)

Truthful ==
  \A o \in Ops :
    /\ reply[o] \in Clean \cup {"none"} => ~Has(log, o)
    /\ reply[o] = "ok" => Has(log, o)

Control ==
  /\ \A p \in Processes : Sane(p)
  /\ Alone /\ LateIsLost /\ Truthful /\ AppliedOnce

LEMMA OnceAppend ==
  ASSUME AppliedOnce, log \in Seq(Ops), NEW o \in Ops, ~Has(log, o), log' = Append(log, o)
  PROVE  AppliedOnce'
PROOF
  <1>1. /\ DOMAIN log' = 1..Len(log) + 1 /\ DOMAIN log = 1..Len(log) /\ Len(log) \in Nat
        /\ log'[Len(log) + 1] = o
        /\ \A n \in 1..Len(log) : log'[n] = log[n] /\ log[n] # o
        /\ \A n \in 1..Len(log) + 1 : n \in 1..Len(log) \/ n = Len(log) + 1
    BY DEF Has
  <1> QED
    BY <1>1 DEF AppliedOnce

\* A step of one process, for the call it serves: the others keep their state, their calls
\* their answers, and, where one of them has a session, their lock and their branch.
LEMMA Moves ==
  ASSUME TypeOK, Control, NEW p \in Processes, NEW o \in Ops,
         proc[p].pc # "idle" => o = proc[p].op,
         reply[o] \in {"none", "running"},
         \A q \in Processes \ {p} : proc[q].pc # "idle" => proc[q].op # o,
         \A q \in Processes \ {p} : proc'[q] = proc[q],
         \A x \in Ops \ {o} : reply'[x] = reply[x],
         proc'[p].pc # "idle" => proc'[p].op = o,
         log' = log \/ (log' = Append(log, o) /\ ~Has(log, o)),
         \A q \in Processes \ {p} :
           q \in sessions' => q \in sessions /\ lock' = lock /\ branches' = branches,
         \/ late' = None
         \/ late' = late /\ lock' = lock /\ log' = log
         \/ late'.op = o /\ lock' = Dead /\ reply'[o] \in {"unknown", "lost"} /\ ~Has(log', o),
         Sane(p)',
         reply'[o] \in Clean \cup {"none"} => ~Has(log', o),
         reply'[o] = "ok" => Has(log', o)
  PROVE  Control'
PROOF
  <1>1. \A x \in Ops : x # o => (Has(log', x) <=> Has(log, x))
    <2>1. CASE log' = log
      BY <2>1
    <2>2. CASE log' = Append(log, o)
      <3>1. log \in Seq(Ops)
        BY DEF TypeOK
      <3> QED
        BY <2>2, <3>1, HasAppend
    <2> QED
      BY <2>1, <2>2
  <1>2. ASSUME NEW q \in Processes \ {p} PROVE Sane(q)'
    <2>1. Sane(q) /\ proc'[q] = proc[q]
      BY DEF Control
    <2>2. proc[q].pc \in PCs
      BY LocalFields
    <2>3. CASE proc[q].pc = "idle"
      BY <2>1, <2>3 DEF Sane, Before, InSession
    <2>4. CASE proc[q].pc # "idle"
      <3>1. proc[q].op \in Ops /\ proc[q].op # o
        BY <2>1, <2>4 DEF Sane
      <3>2. /\ reply'[proc[q].op] = reply[proc[q].op]
            /\ Has(log', proc[q].op) <=> Has(log, proc[q].op)
        BY <1>1, <3>1
      <3>3. q \in sessions' => q \in sessions /\ lock' = lock /\ branches' = branches
        OBVIOUS
      <3> QED
        BY <2>1, <3>1, <3>2, <3>3 DEF Sane
    <2> QED
      BY <2>3, <2>4
  <1>3. Alone'
    <2> SUFFICES ASSUME NEW q \in Processes, NEW r \in Processes, q # r,
                        proc'[q].pc # "idle", proc'[r].pc # "idle", proc'[q].op = proc'[r].op
                 PROVE  FALSE
      BY DEF Alone
    <2>1. CASE q # p /\ r # p
      BY <2>1 DEF Control, Alone
    <2>2. CASE q = p
      BY <2>2
    <2>3. CASE r = p
      BY <2>3
    <2> QED
      BY <2>1, <2>2, <2>3
  <1>4. LateIsLost'
    <2>1. CASE late' = None
      BY <2>1 DEF LateIsLost
    <2>2. CASE late' = late /\ lock' = lock /\ log' = log /\ late # None
      <3>1. late.op \in Ops /\ late.op # o
        BY <2>2 DEF TypeOK, Control, LateIsLost
      <3> QED
        BY <2>2, <3>1 DEF Control, LateIsLost
    <2>3. CASE late'.op = o /\ lock' = Dead /\ reply'[o] \in {"unknown", "lost"} /\ ~Has(log', o)
      BY <2>3 DEF LateIsLost
    <2> QED
      BY <2>1, <2>2, <2>3
  <1>5. Truthful'
    BY <1>1 DEF Control, Truthful
  <1>6. AppliedOnce'
    <2>1. CASE log' = log
      BY <2>1 DEF Control, AppliedOnce
    <2>2. CASE log' = Append(log, o) /\ ~Has(log, o)
      BY <2>2, OnceAppend DEF Control, TypeOK
    <2> QED
      BY <2>1, <2>2
  <1>7. ASSUME NEW q \in Processes PROVE Sane(q)'
    BY <1>2
  <1> QED
    BY <1>3, <1>4, <1>5, <1>6, <1>7 DEF Control

\* The call of a busy process is its own.
LEMMA Serving ==
  ASSUME TypeOK, Control, NEW p \in Processes, proc[p].pc # "idle"
  PROVE  /\ proc[p].op \in Ops /\ reply[proc[p].op] = "running"
         /\ \A q \in Processes \ {p} : proc[q].pc # "idle" => proc[q].op # proc[p].op
PROOF
  BY DEF Control, Sane, Alone

\* Whoever has a session has the lock, and there is no other session and no lost merge.
LEMMA Session ==
  ASSUME TypeOK, Control, NEW p \in Processes, p \in sessions
  PROVE  /\ lock = p /\ late = None /\ proc[p].pc \in InSession \cup {"unlock"}
         /\ proc[p].pc # "idle"
         /\ \A q \in Processes \ {p} : q \notin sessions
PROOF
  BY DEF Control, Sane, LateIsLost, InSession

\* Who takes a call has not seen it, nor has anybody.
LEMMA CallStep ==
  ASSUME TypeOK, Control, NEW p \in Processes, NEW o \in Ops, Call(p, o)
  PROVE  TypeOK' /\ Control'
PROOF
  <1>1. /\ reply[o] = "none" /\ ~Has(log, o)
        /\ UNCHANGED <<now, main, log, merging, branches, lock, sessions, late, faults, foreign>>
        /\ reply' \in [Ops -> Replies] /\ \A x \in Ops \ {o} : reply'[x] = reply[x]
    BY DEF Call, store, held, bounds, TypeOK, Control, Truthful, Replies
  <1>2. \A q \in Processes : proc[q].pc # "idle" => proc[q].op # o
    BY <1>1, Serving
  <1>3. CASE Serves(p)
    <2> DEFINE w == At("lock", o, 1, NoBranch, "none", FALSE)
    <2>1. w \in Local /\ w.pc = "lock" /\ w.op = o
      <3>1. 1 \in 0..MergeRetries /\ "lock" \in PCs /\ "none" \in Replies
        BY DEF PCs, Replies
      <3>2. w \in Local
        BY <3>1, NoBranchTyped, AtIsLocal
      <3> QED
        BY <3>2 DEF At
    <2>2. proc' = [proc EXCEPT ![p] = w] /\ reply'[o] = "running"
      BY <1>3 DEF Call, TypeOK
    <2> HIDE DEF w
    <2>3. /\ proc' \in [Processes -> Local] /\ proc'[p] = w
          /\ \A q \in Processes \ {p} : proc'[q] = proc[q]
      BY <2>1, <2>2, SetTyped
    <2>4. TypeOK'
      BY <1>1, <2>3 DEF TypeOK
    <2>5. p \notin sessions
      BY <1>3, Session DEF Serves
    <2>6. Sane(p)'
      BY <1>1, <2>1, <2>2, <2>3, <2>5 DEF Sane
    <2>7. proc[p].pc = "idle"
      BY <1>3 DEF Serves
    <2> QED
      BY <1>1, <1>2, <2>1, <2>2, <2>3, <2>4, <2>6, <2>7, Moves DEF Clean
  <1>4. CASE ~Serves(p)
    <2>1. proc' = proc /\ reply'[o] = "busy"
      BY <1>4 DEF Call, TypeOK
    <2>2. TypeOK'
      BY <1>1, <2>1 DEF TypeOK
    <2>3. ASSUME NEW q \in Processes PROVE Sane(q)'
      <3>1. Sane(q)
        BY DEF Control
      <3>2. proc[q].pc # "idle" => reply'[proc[q].op] = reply[proc[q].op]
        BY <1>1, <1>2, <3>1 DEF Sane
      <3> QED
        BY <1>1, <2>1, <3>1, <3>2 DEF Sane
    <2>4. Alone' /\ AppliedOnce'
      BY <1>1, <2>1 DEF Control, Alone, AppliedOnce
    <2>5. LateIsLost'
      <3>1. late # None => late.op \in Ops /\ late.op # o
        BY <1>1 DEF TypeOK, Control, LateIsLost
      <3> QED
        BY <1>1, <3>1 DEF Control, LateIsLost
    <2>6. Truthful'
      BY <1>1, <2>1 DEF Control, Truthful
    <2> QED
      BY <2>2, <2>3, <2>4, <2>5, <2>6 DEF Control
  <1> QED
    BY <1>3, <1>4

LEMMA AcquireLockStep ==
  ASSUME TypeOK, Control, NEW p \in Processes, AcquireLock(p)
  PROVE  TypeOK' /\ Control'
PROOF
  <1>1. /\ proc[p].pc = "lock" /\ lock = None /\ lock' = p /\ sessions' = sessions \cup {p}
        /\ Goto(p, "reconcile")
        /\ UNCHANGED <<now, main, log, merging, branches, late, reply, faults, foreign>>
    BY DEF AcquireLock, LockFree, store, bounds
  <1>2. /\ proc' \in [Processes -> Local]
        /\ proc'[p].pc = "reconcile" /\ proc'[p].op = proc[p].op
        /\ \A q \in Processes \ {p} : proc'[q] = proc[q]
    BY <1>1, GotoTyped DEF PCs
  <1>3. TypeOK'
    BY <1>1, <1>2 DEF TypeOK
  <1>4. \A q \in Processes \ {p} : q \notin sessions'
    BY <1>1, Session
  <1>5. late = None
    BY <1>1 DEF Control, LateIsLost
  <1>6. Sane(p) /\ Sane(p)'
    BY <1>1, <1>2 DEF Control, Sane, Before, InSession
  <1> QED
    BY <1>1, <1>2, <1>3, <1>4, <1>5, <1>6, Serving, Moves DEF Clean

LEMMA ReconcileStep ==
  ASSUME TypeOK, Control, NEW p \in Processes, Reconcile(p)
  PROVE  TypeOK' /\ Control'
PROOF
  <1>1. /\ proc[p].pc = "reconcile" /\ p \in sessions
        /\ \/ Release(p, "error") /\ UNCHANGED merging
           \/ Goto(p, "sweep") /\ merging' = None
        /\ UNCHANGED <<now, main, log, branches, lock, sessions, late, reply, faults, foreign>>
    BY DEF Reconcile, held, bounds
  <1>2. /\ lock = p /\ late = None /\ \A q \in Processes \ {p} : q \notin sessions
    BY <1>1, Session
  <1>3. /\ proc[p].op \in Ops /\ reply[proc[p].op] = "running" /\ ~Has(log, proc[p].op)
        /\ \A q \in Processes \ {p} : proc[q].pc # "idle" => proc[q].op # proc[p].op
    BY <1>1, Serving DEF Control, Sane, Before
  <1>4. /\ proc' \in [Processes -> Local] /\ proc'[p].op = proc[p].op
        /\ \/ proc'[p].pc = "unlock" /\ proc'[p].answer = "error"
           \/ proc'[p].pc = "sweep"
        /\ \A q \in Processes \ {p} : proc'[q] = proc[q]
    BY <1>1, GotoTyped, ReleaseTyped DEF PCs, Replies
  <1>5. TypeOK'
    BY <1>1, <1>4 DEF TypeOK
  <1>6. Sane(p)'
    BY <1>1, <1>2, <1>3, <1>4 DEF Sane, Before, InSession
  <1> QED
    BY <1>1, <1>2, <1>3, <1>4, <1>5, <1>6, Moves DEF Clean

LEMMA SweepStep ==
  ASSUME TypeOK, Control, NEW p \in Processes, Sweep(p)
  PROVE  TypeOK' /\ Control'
PROOF
  <1>1. /\ proc[p].pc = "sweep" /\ p \in sessions /\ Goto(p, "branch") /\ branches' = {}
        /\ UNCHANGED <<now, main, log, merging, lock, sessions, late, reply, faults, foreign>>
    BY DEF Sweep, held, bounds
  <1>2. /\ lock = p /\ late = None /\ \A q \in Processes \ {p} : q \notin sessions
    BY <1>1, Session
  <1>3. /\ proc[p].op \in Ops /\ reply[proc[p].op] = "running" /\ ~Has(log, proc[p].op)
        /\ \A q \in Processes \ {p} : proc[q].pc # "idle" => proc[q].op # proc[p].op
    BY <1>1, Serving DEF Control, Sane, Before
  <1>4. /\ proc' \in [Processes -> Local]
        /\ proc'[p].pc = "branch" /\ proc'[p].op = proc[p].op
        /\ \A q \in Processes \ {p} : proc'[q] = proc[q]
    BY <1>1, GotoTyped DEF PCs
  <1>5. TypeOK'
    BY <1>1, <1>4 DEF TypeOK
  <1>6. Sane(p)'
    BY <1>1, <1>2, <1>3, <1>4 DEF Sane, Before, InSession
  <1> QED
    BY <1>1, <1>2, <1>3, <1>4, <1>5, <1>6, Moves DEF Clean

\* What the statement's branch is: the table before it and after.
LEMMA RunOnBranchIs ==
  ASSUME TypeOK, NEW p \in Processes, proc[p].op \in Ops, RunOnBranch(p)
  PROVE  \/ Release(p, "unchanged") \/ Release(p, "refused")
         \/ \E i \in Items :
              /\ Target[proc[p].op] \in {i, None}
              /\ Allowed(proc[p].op, i, main, now)
              /\ Effect(proc[p].op, i, main, now) \in Table
              /\ proc' = [proc EXCEPT ![p] = At("merge", proc[p].op, proc[p].attempt,
                   Branch(main, Effect(proc[p].op, i, main, now)), "none", FALSE)]
PROOF
  <1> DEFINE o == proc[p].op
             i == IdOf(o, main)
             b == Branch(main, Effect(o, i, main, now))
  <1>1. ASSUME Allowed(o, i, main, now),
               proc' = [proc EXCEPT ![p] = At("merge", o, @.attempt, b, "none", FALSE)]
        PROVE  /\ i \in Items /\ Target[o] \in {i, None}
               /\ Effect(o, i, main, now) \in Table
               /\ proc' = [proc EXCEPT ![p] =
                    At("merge", o, proc[p].attempt, b, "none", FALSE)]
    <2>1. i \in Items
      BY <1>1 DEF Allowed
    <2>2. Target[o] \in {i, None}
      BY DEF IdOf
    <2>3. now \in Nat /\ main \in Table
      BY DEF TypeOK
    <2>4. Effect(o, i, main, now) \in Table
      BY <2>1, <2>3, EffectTable
    <2> QED
      BY <1>1, <2>1, <2>2, <2>4
  <1> QED
    BY <1>1 DEF RunOnBranch

LEMMA RunOnBranchStep ==
  ASSUME TypeOK, Control, NEW p \in Processes, RunOnBranch(p)
  PROVE  TypeOK' /\ Control'
PROOF
  <1>1. /\ proc[p].pc = "branch" /\ p \in sessions /\ branches' = branches \cup {proc[p].op}
        /\ UNCHANGED <<now, main, log, merging, lock, sessions, late, reply, faults, foreign>>
    BY DEF RunOnBranch, held, bounds
  <1>2. /\ lock = p /\ late = None /\ \A q \in Processes \ {p} : q \notin sessions
    BY <1>1, Session
  <1>3. /\ proc[p].op \in Ops /\ reply[proc[p].op] = "running" /\ ~Has(log, proc[p].op)
        /\ \A q \in Processes \ {p} : proc[q].pc # "idle" => proc[q].op # proc[p].op
    BY <1>1, Serving DEF Control, Sane, Before
  <1>4. /\ proc' \in [Processes -> Local] /\ proc'[p].op = proc[p].op
        /\ \/ proc'[p].pc = "unlock" /\ proc'[p].answer \in {"unchanged", "refused"}
           \/ proc'[p].pc = "merge"
        /\ \A q \in Processes \ {p} : proc'[q] = proc[q]
    <2>1. CASE Release(p, "unchanged") \/ Release(p, "refused")
      BY <2>1, ReleaseTyped DEF Replies
    <2>2. ASSUME NEW i \in Items, Effect(proc[p].op, i, main, now) \in Table,
                 proc' = [proc EXCEPT ![p] = At("merge", proc[p].op, proc[p].attempt,
                   Branch(main, Effect(proc[p].op, i, main, now)), "none", FALSE)]
          PROVE  /\ proc' \in [Processes -> Local] /\ proc'[p].op = proc[p].op
                 /\ proc'[p].pc = "merge"
                 /\ \A q \in Processes \ {p} : proc'[q] = proc[q]
      <3> DEFINE b == Branch(main, Effect(proc[p].op, i, main, now))
                 w == At("merge", proc[p].op, proc[p].attempt, b, "none", FALSE)
      <3>1. b \in BranchRows
        BY <2>2 DEF TypeOK, Branch, BranchRows
      <3> HIDE DEF b
      <3>2. w \in Local
        BY <3>1, LocalFields, AtIsLocal DEF PCs, Replies
      <3>3. w.pc = "merge" /\ w.op = proc[p].op
        BY DEF At
      <3>4. proc' = [proc EXCEPT ![p] = w]
        BY <2>2 DEF b
      <3> HIDE DEF w
      <3> QED
        BY <3>2, <3>3, <3>4, SetTyped
    <2> QED
      BY <1>3, <2>1, <2>2, RunOnBranchIs
  <1>5. TypeOK'
    BY <1>1, <1>3, <1>4 DEF TypeOK
  <1>6. Sane(p)'
    BY <1>1, <1>2, <1>3, <1>4 DEF Sane, Before, InSession
  <1> QED
    BY <1>1, <1>2, <1>3, <1>4, <1>5, <1>6, Moves DEF Clean

\* What a merge does to main.
LEMMA CommitTyped ==
  ASSUME TypeOK, NEW o \in Ops, NEW b \in BranchRows,
         MergeCommits(o, b) \/ MergeDisputed(o, b) \/ UNCHANGED store
  PROVE  /\ main' \in Table /\ log' \in Seq(Ops)
         /\ merging' \in Ops \cup {None, Contribution}
         /\ branches' = branches
         /\ log' = log \/ log' = Append(log, o)
PROOF
  <1>1. b.base \in Table /\ b.table \in Table /\ main \in Table /\ log \in Seq(Ops)
    BY DEF TypeOK, BranchRows
  <1>2. Merged(b.base, b.table, main) \in Table
    BY <1>1, MergedTable
  <1>3. CASE MergeCommits(o, b)
    BY <1>1, <1>2, <1>3 DEF TypeOK, MergeCommits
  <1>4. CASE MergeDisputed(o, b)
    BY <1>1, <1>4 DEF TypeOK, MergeDisputed
  <1>5. CASE UNCHANGED store
    BY <1>1, <1>5 DEF TypeOK, store
  <1> QED
    BY <1>3, <1>4, <1>5

LEMMA MergeStep ==
  ASSUME TypeOK, Control, NEW p \in Processes, Merge(p)
  PROVE  TypeOK' /\ Control'
PROOF
  <1> DEFINE o == proc[p].op
             b == proc[p].branch
  <1>1. /\ proc[p].pc = "merge" /\ p \in sessions
        /\ MergeCommits(o, b) \/ MergeDisputed(o, b) \/ UNCHANGED store
        /\ \/ Release(p, "ok") /\ log' = Append(log, o)
           \/ Prove(p, "disputed") \/ Prove(p, "error")
        /\ UNCHANGED <<now, lock, sessions, late, reply>>
        /\ faults' \in 0..MaxFaults /\ foreign' \in 0..MaxForeign
    BY DEF Merge, MergeCommits, held, NoFault, Fault, bounds, TypeOK
  <1>2. /\ lock = p /\ late = None /\ \A q \in Processes \ {p} : q \notin sessions
    BY <1>1, Session
  <1>3. /\ o \in Ops /\ reply[o] = "running" /\ ~Has(log, o)
        /\ \A q \in Processes \ {p} : proc[q].pc # "idle" => proc[q].op # o
    BY <1>1, Serving DEF Control, Sane, Before
  <1>4. /\ main' \in Table /\ log' \in Seq(Ops)
        /\ merging' \in Ops \cup {None, Contribution}
        /\ branches' = branches
        /\ log' = log \/ log' = Append(log, o)
    BY <1>1, <1>3, CommitTyped, LocalFields
  <1>5. /\ proc' \in [Processes -> Local] /\ proc'[p].op = o
        /\ \/ proc'[p].pc = "unlock" /\ proc'[p].answer = "ok" /\ log' = Append(log, o)
           \/ proc'[p].pc = "prove"
        /\ \A q \in Processes \ {p} : proc'[q] = proc[q]
    BY <1>1, ReleaseTyped, ProveTyped DEF Replies
  <1>6. TypeOK'
    BY <1>1, <1>4, <1>5 DEF TypeOK
  <1>7. log' = Append(log, o) => Has(log', o)
    BY <1>3, HasAppend DEF TypeOK
  <1>8. Sane(p)'
    BY <1>1, <1>2, <1>3, <1>4, <1>5, <1>7 DEF Sane, Before, InSession
  <1> HIDE DEF o, b
  <1>9. proc[p].op = o
    BY DEF o
  <1> QED
    BY <1>1, <1>2, <1>3, <1>4, <1>5, <1>6, <1>8, <1>9, Moves DEF Clean

LEMMA ProveMergeStep ==
  ASSUME TypeOK, Control, NEW p \in Processes, ProveMerge(p)
  PROVE  TypeOK' /\ Control'
PROOF
  <1> DEFINE o == proc[p].op
             said == Proven(o, proc[p].answer)
  <1>1. /\ proc[p].pc = "prove" /\ p \in sessions /\ Release(p, said)
        /\ merging' \in {None, merging}
        /\ UNCHANGED <<now, main, log, branches, lock, sessions, late, reply, faults, foreign>>
    BY DEF ProveMerge, held, bounds
  <1>2. /\ lock = p /\ late = None /\ \A q \in Processes \ {p} : q \notin sessions
    BY <1>1, Session
  <1>3. /\ o \in Ops /\ reply[o] = "running"
        /\ \A q \in Processes \ {p} : proc[q].pc # "idle" => proc[q].op # o
    BY <1>1, Serving
  <1>4. /\ said \in {"ok", "error", "retry"}
        /\ said = "ok" <=> Has(log, o)
    BY OnMainHas DEF Proven
  <1>5. /\ proc' \in [Processes -> Local] /\ proc'[p].op = o
        /\ proc'[p].pc = "unlock" /\ proc'[p].answer = said
        /\ \A q \in Processes \ {p} : proc'[q] = proc[q]
    BY <1>1, <1>4, ReleaseTyped DEF Replies
  <1>6. TypeOK'
    BY <1>1, <1>5 DEF TypeOK
  <1>7. Sane(p)'
    BY <1>1, <1>2, <1>3, <1>4, <1>5 DEF Sane, Before, InSession
  <1> QED
    BY <1>1, <1>2, <1>3, <1>5, <1>6, <1>7, Moves DEF Clean

LEMMA ProofFailsStep ==
  ASSUME TypeOK, Control, NEW p \in Processes, ProofFails(p)
  PROVE  TypeOK' /\ Control'
PROOF
  <1> DEFINE w == At("unlock", proc[p].op, proc[p].attempt, NoBranch, "unknown", TRUE)
  <1>1. /\ proc[p].pc = "prove" /\ p \in sessions
        /\ proc' = [proc EXCEPT ![p] = w]
        /\ UNCHANGED <<now, main, log, merging, branches, lock, sessions, late, reply>>
        /\ faults' \in 0..MaxFaults /\ foreign' \in 0..MaxForeign
    BY DEF ProofFails, Fault, held, store, TypeOK
  <1>2. /\ lock = p /\ late = None /\ \A q \in Processes \ {p} : q \notin sessions
    BY <1>1, Session
  <1>3. /\ proc[p].op \in Ops /\ reply[proc[p].op] = "running"
        /\ \A q \in Processes \ {p} : proc[q].pc # "idle" => proc[q].op # proc[p].op
    BY <1>1, Serving
  <1>4. w \in Local /\ w.pc = "unlock" /\ w.op = proc[p].op /\ w.answer = "unknown"
    <2>1. "unlock" \in PCs /\ "unknown" \in Replies
      BY DEF PCs, Replies
    <2>2. w \in Local
      BY <2>1, NoBranchTyped, LocalFields, AtIsLocal
    <2> QED
      BY <2>2 DEF At
  <1> HIDE DEF w
  <1>5. /\ proc' \in [Processes -> Local] /\ proc'[p] = w
        /\ \A q \in Processes \ {p} : proc'[q] = proc[q]
    BY <1>1, <1>4, SetTyped
  <1>6. TypeOK'
    BY <1>1, <1>5 DEF TypeOK
  <1>7. Sane(p)'
    BY <1>1, <1>2, <1>3, <1>4, <1>5 DEF Sane, Before, InSession
  <1> QED
    BY <1>1, <1>2, <1>3, <1>4, <1>5, <1>6, <1>7, Moves DEF Clean

\* The end of a call: its process is idle, or takes the lock again to retry.
LEMMA EndTyped ==
  ASSUME TypeOK, Control, NEW p \in Processes, proc[p].pc = "unlock",
         NEW poisoned \in BOOLEAN, End(p, poisoned)
  PROVE  LET o == proc[p].op IN
         /\ proc' \in [Processes -> Local] /\ reply' \in [Ops -> Replies]
         /\ \A q \in Processes \ {p} : proc'[q] = proc[q]
         /\ \A x \in Ops \ {o} : reply'[x] = reply[x]
         /\ \/ proc'[p].pc = "idle" /\ reply'[o] \in {"ok", "unchanged", "unknown"} \cup Clean
            \/ /\ proc'[p].pc = "lock" /\ proc'[p].op = o /\ reply'[o] = "running"
               /\ ~Has(log, o)
         /\ reply'[o] \in Clean => ~Has(log, o)
         /\ reply'[o] = "ok" => Has(log, o)
PROOF
  <1> DEFINE w == proc[p]
             o == w.op
             next == IF w.answer = "retry" THEN AfterRetry(w) ELSE Idle(poisoned)
  <1>1. /\ o \in Ops
        /\ w.answer \in {"ok", "unchanged", "refused", "error", "retry", "unknown"}
        /\ w.answer = "ok" => Has(log, o)
        /\ w.answer \in {"refused", "error", "retry"} => ~Has(log, o)
    BY DEF Control, Sane
  <1>2. /\ Idle(poisoned) \in Local /\ Idle(w.poisoned) \in Local
        /\ Idle(poisoned).pc = "idle" /\ Idle(w.poisoned).pc = "idle"
    BY IdleIsLocal, LocalFields DEF Idle, At
  <1>3. w.attempt < MergeRetries =>
          /\ At("lock", o, w.attempt + 1, NoBranch, "none", FALSE) \in Local
          /\ At("lock", o, w.attempt + 1, NoBranch, "none", FALSE).pc = "lock"
          /\ At("lock", o, w.attempt + 1, NoBranch, "none", FALSE).op = o
    <2> SUFFICES ASSUME w.attempt < MergeRetries
                 PROVE  /\ At("lock", o, w.attempt + 1, NoBranch, "none", FALSE) \in Local
                        /\ At("lock", o, w.attempt + 1, NoBranch, "none", FALSE).pc = "lock"
                        /\ At("lock", o, w.attempt + 1, NoBranch, "none", FALSE).op = o
      OBVIOUS
    <2>1. w.attempt + 1 \in 0..MergeRetries /\ "lock" \in PCs /\ "none" \in Replies
      BY LocalFields DEF PCs, Replies
    <2>2. At("lock", o, w.attempt + 1, NoBranch, "none", FALSE) \in Local
      BY <1>1, <2>1, NoBranchTyped, AtIsLocal
    <2> QED
      BY <2>2 DEF At
  <1>4. /\ next \in Local
        /\ \/ next.pc = "idle" /\ (w.answer # "retry" \/ ~(w.attempt < MergeRetries))
           \/ next.pc = "lock" /\ next.op = o /\ w.answer = "retry" /\ w.attempt < MergeRetries
    BY <1>2, <1>3 DEF AfterRetry
  <1>5. /\ FinalAnswer(w) \in Replies
        /\ w.answer # "retry" => FinalAnswer(w) = w.answer
        /\ w.answer = "retry" /\ w.attempt = MergeRetries => FinalAnswer(w) = "conflict"
        /\ w.answer = "retry" /\ w.attempt # MergeRetries => FinalAnswer(w) = "running"
    <2>1. CASE w.answer # "retry"
      BY <1>1, <2>1 DEF FinalAnswer, Replies
    <2>2. CASE w.answer = "retry" /\ w.attempt = MergeRetries
      BY <2>2 DEF FinalAnswer, Replies
    <2>3. CASE w.answer = "retry" /\ w.attempt # MergeRetries
      BY <2>3 DEF FinalAnswer, Replies
    <2> QED
      BY <2>1, <2>2, <2>3
  <1>6. w.attempt < MergeRetries <=> w.attempt # MergeRetries
    BY LocalFields
  <1>7. /\ proc' = [proc EXCEPT ![p] = next]
        /\ reply' = [reply EXCEPT ![o] = FinalAnswer(w)]
    BY DEF End, Answer
  <1> HIDE DEF next
  <1>8. /\ proc' \in [Processes -> Local] /\ proc'[p] = next
        /\ \A q \in Processes \ {p} : proc'[q] = proc[q]
    BY <1>4, <1>7, SetTyped
  <1>9. /\ reply' \in [Ops -> Replies] /\ reply'[o] = FinalAnswer(w)
        /\ \A x \in Ops \ {o} : reply'[x] = reply[x]
    BY <1>1, <1>5, <1>7 DEF TypeOK
  <1> QED
    BY <1>1, <1>4, <1>5, <1>6, <1>8, <1>9 DEF Clean

\* The end of a call leaves the store alone, and the lock and the merges lost to others.
LEMMA EndStep ==
  ASSUME TypeOK, Control, NEW p \in Processes, proc[p].pc = "unlock",
         NEW poisoned \in BOOLEAN, End(p, poisoned),
         sessions' = sessions \ {p},
         lock' \in {lock, None, Dead}, p \notin sessions => lock' = lock,
         branches' \subseteq branches, p \notin sessions => branches' = branches,
         UNCHANGED <<now, main, log, merging, late>>,
         faults' \in 0..MaxFaults, foreign' \in 0..MaxForeign
  PROVE  TypeOK' /\ Control'
PROOF
  <1> DEFINE o == proc[p].op
  <1>1. /\ o \in Ops /\ reply[o] = "running"
        /\ \A q \in Processes \ {p} : proc[q].pc # "idle" => proc[q].op # o
    BY Serving
  <1>2. /\ proc' \in [Processes -> Local] /\ reply' \in [Ops -> Replies]
        /\ \A q \in Processes \ {p} : proc'[q] = proc[q]
        /\ \A x \in Ops \ {o} : reply'[x] = reply[x]
        /\ \/ proc'[p].pc = "idle" /\ reply'[o] \in {"ok", "unchanged", "unknown"} \cup Clean
           \/ /\ proc'[p].pc = "lock" /\ proc'[p].op = o /\ reply'[o] = "running"
              /\ ~Has(log, o)
        /\ reply'[o] \in Clean => ~Has(log, o)
        /\ reply'[o] = "ok" => Has(log, o)
    BY EndTyped
  <1>3. TypeOK'
    BY <1>2 DEF TypeOK
  <1>4. ASSUME NEW q \in Processes \ {p}, q \in sessions'
        PROVE  q \in sessions /\ lock' = lock /\ branches' = branches
    <2>1. lock = q /\ p \notin sessions
      BY <1>4, Session
    <2> QED
      BY <1>4, <2>1
  <1>5. late' = None \/ (late' = late /\ lock' = lock /\ log' = log)
    BY Session
  <1>6. Sane(p)'
    BY <1>1, <1>2 DEF Sane, Before
  <1>7. reply'[o] \in Clean \cup {"none"} => ~Has(log', o)
    BY <1>2 DEF Clean
  <1> HIDE DEF o
  <1>8. proc[p].op = o
    BY DEF o
  <1> QED
    BY <1>1, <1>2, <1>3, <1>4, <1>5, <1>6, <1>7, <1>8, Moves

LEMMA FaultTyped ==
  ASSUME TypeOK, Fault PROVE faults' \in 0..MaxFaults /\ foreign' \in 0..MaxForeign
PROOF
  BY DEF TypeOK, Fault

LEMMA UnlockStep ==
  ASSUME TypeOK, Control, NEW p \in Processes, Unlock(p) \/ UnlockFails(p)
  PROVE  TypeOK' /\ Control'
PROOF
  <1>1. /\ proc[p].pc = "unlock" /\ p \in sessions
        /\ End(p, proc[p].poisoned) \/ End(p, FALSE)
        /\ sessions' = sessions \ {p} /\ lock' \in {lock, None, Dead}
        /\ branches' \subseteq branches
        /\ UNCHANGED <<now, main, log, merging, late>>
        /\ faults' \in 0..MaxFaults /\ foreign' \in 0..MaxForeign
    <2>1. CASE Unlock(p)
      BY <2>1 DEF Unlock, SessionOver, bounds, TypeOK
    <2>2. CASE UnlockFails(p)
      <3>1. faults' \in 0..MaxFaults /\ foreign' \in 0..MaxForeign
        BY <2>2, FaultTyped DEF UnlockFails
      <3>2. /\ proc[p].pc = "unlock" /\ p \in sessions /\ End(p, FALSE)
            /\ SessionOver(p, Dead)
            /\ UNCHANGED <<now, main, log, merging, branches, late>>
        BY <2>2 DEF UnlockFails, store
      <3> QED
        BY <3>1, <3>2 DEF SessionOver
    <2> QED
      BY <2>1, <2>2
  <1> QED
    BY <1>1, EndStep, LocalFields

\* A call whose connection is gone, or that never got one, is given up: it is answered
\* as busy before its merge was sent, and as unknown or not at all after.
LEMMA GivenUp ==
  ASSUME TypeOK, Control, NEW p \in Processes, proc[p].pc # "idle",
         NEW w \in Local, w.pc = "idle", proc' = [proc EXCEPT ![p] = w],
         NEW answer \in {"busy", "unknown", "lost"}, Answer(p, answer),
         answer = "busy" => ~Has(log, proc[p].op) /\ log' = log,
         sessions' = sessions \ {p},
         lock' \in {lock, None, Dead}, p \notin sessions => lock' = lock,
         p \notin sessions => UNCHANGED <<branches, late, log>>,
         \/ late' = late
         \/ /\ late'.op = proc[p].op /\ lock' = Dead /\ answer # "busy"
            /\ ~Has(log, proc[p].op) /\ log' = log
            /\ late' \in [op : Ops, branch : BranchRows],
         log' = log \/ (log' = Append(log, proc[p].op) /\ ~Has(log, proc[p].op)),
         main' \in Table, merging' \in Ops \cup {None, Contribution}, branches' \subseteq Ops,
         UNCHANGED now, faults' \in 0..MaxFaults, foreign' \in 0..MaxForeign
  PROVE  TypeOK' /\ Control'
PROOF
  <1> DEFINE o == proc[p].op
  <1>1. /\ o \in Ops /\ reply[o] = "running"
        /\ \A q \in Processes \ {p} : proc[q].pc # "idle" => proc[q].op # o
    BY Serving
  <1>2. /\ proc' \in [Processes -> Local] /\ proc'[p] = w
        /\ \A q \in Processes \ {p} : proc'[q] = proc[q]
    BY SetTyped
  <1>3. /\ reply' \in [Ops -> Replies] /\ reply'[o] = answer
        /\ \A x \in Ops \ {o} : reply'[x] = reply[x]
    BY <1>1 DEF Answer, TypeOK, Replies
  <1>4. log' \in Seq(Ops)
    <2>1. log \in Seq(Ops)
      BY DEF TypeOK
    <2>2. CASE log' = Append(log, o)
      BY <1>1, <2>1, <2>2
    <2> QED
      BY <2>1, <2>2
  <1>5. TypeOK'
    BY <1>2, <1>3, <1>4 DEF TypeOK, BranchRows
  <1>6. ASSUME NEW q \in Processes \ {p}, q \in sessions'
        PROVE  q \in sessions /\ lock' = lock /\ branches' = branches
    <2>1. lock = q /\ p \notin sessions
      BY <1>6, Session
    <2> QED
      BY <1>6, <2>1
  <1>7. \/ late' = None
        \/ late' = late /\ lock' = lock /\ log' = log
        \/ late'.op = o /\ lock' = Dead /\ reply'[o] \in {"unknown", "lost"} /\ ~Has(log', o)
    <2>1. CASE p \in sessions
      <3>1. late = None
        BY <2>1, Session
      <3> QED
        BY <1>3, <3>1
    <2>2. CASE p \notin sessions /\ late # None
      <3>1. lock = Dead /\ late' = late
        BY <2>2 DEF Control, LateIsLost
      <3> QED
        BY <2>2, <3>1
    <2> QED
      BY <2>1, <2>2
  <1>8. Sane(p)'
    BY <1>2 DEF Sane, Before
  <1>9. reply'[o] \in Clean \cup {"none"} => ~Has(log', o)
    BY <1>3 DEF Clean
  <1> HIDE DEF o
  <1>10. proc[p].op = o /\ proc'[p].pc = "idle" /\ (reply'[o] = "ok" => Has(log', o))
    BY <1>2, <1>3 DEF o
  <1>11. log' = log \/ (log' = Append(log, o) /\ ~Has(log, o))
    BY <1>10
  <1> QED
    BY <1>1, <1>2, <1>3, <1>5, <1>6, <1>7, <1>8, <1>9, <1>10, <1>11, Moves

\* What becomes of the store when the connection of a query is lost.
LEMMA LostQueryIs ==
  ASSUME TypeOK, Control, NEW p \in Processes, proc[p].pc # "idle", p \in sessions,
         LostQuery(p)
  PROVE  LET o == proc[p].op IN
         /\ main' \in Table /\ merging' \in Ops \cup {None, Contribution} /\ branches' \subseteq Ops
         /\ \/ late' = late
            \/ proc[p].pc = "merge" /\ late' = [op |-> o, branch |-> proc[p].branch] /\ log' = log
         /\ \/ log' = log
            \/ proc[p].pc = "merge" /\ log' = Append(log, o)
PROOF
  <1> DEFINE o == proc[p].op
             b == proc[p].branch
  <1>1. o \in Ops /\ b \in BranchRows
    BY Serving, LocalFields
  <1>2. ASSUME proc[p].pc = "merge", MergeCommits(o, b) \/ MergeDisputed(o, b)
        PROVE  /\ main' \in Table /\ merging' \in Ops \cup {None, Contribution}
               /\ branches' \subseteq Ops
               /\ log' = log \/ log' = Append(log, o)
    BY <1>1, <1>2, CommitTyped DEF TypeOK
  <1>3. main \in Table /\ merging \in Ops \cup {None, Contribution} /\ branches \subseteq Ops
    BY DEF TypeOK
  <1> HIDE DEF o, b
  <1>4. proc[p].op = o /\ proc[p].branch = b
    BY DEF o, b
  <1> QED
    BY <1>1, <1>2, <1>3, <1>4 DEF LostQuery, store

LEMMA ConnectionLostStep ==
  ASSUME TypeOK, Control, NEW p \in Processes, ConnectionLost(p)
  PROVE  TypeOK' /\ Control'
PROOF
  <1> DEFINE o == proc[p].op
  <1>1. /\ proc[p].pc \in InSession /\ p \in sessions /\ LostQuery(p) /\ now' = now
        /\ SessionOver(p, Dead) /\ Fault
    BY DEF ConnectionLost
  <1>2. proc[p].pc # "idle" /\ lock = p /\ late = None
    BY <1>1, Session DEF InSession
  <1>3. o \in Ops /\ (proc[p].pc \in Before => ~Has(log, o))
    BY <1>2, Serving DEF Control, Sane
  <1>4. sessions' = sessions \ {p} /\ lock' = Dead
    BY <1>1, <1>2 DEF SessionOver
  <1>5. faults' \in 0..MaxFaults /\ foreign' \in 0..MaxForeign
    BY <1>1, FaultTyped
  <1>6. /\ main' \in Table /\ merging' \in Ops \cup {None, Contribution} /\ branches' \subseteq Ops
        /\ \/ late' = late
           \/ proc[p].pc = "merge" /\ late' = [op |-> o, branch |-> proc[p].branch] /\ log' = log
        /\ \/ log' = log
           \/ proc[p].pc = "merge" /\ log' = Append(log, o)
    BY <1>1, <1>2, LostQueryIs
  <1>7. PICK answer \in {"busy", "unknown"}, poisoned \in BOOLEAN :
          /\ Answer(p, answer) /\ proc' = [proc EXCEPT ![p] = Idle(poisoned)]
          /\ proc[p].pc = "merge" => answer = "unknown"
          /\ proc[p].pc = "prove" /\ answer = "busy" => ~Has(log, o)
    <2>1. CASE EndLost(p)
      <3>1. /\ Answer(p, WhenLost(proc[p].pc))
            /\ proc' = [proc EXCEPT ![p] = Idle(proc[p].pc \in {"merge", "prove"})]
        BY <2>1 DEF EndLost
      <3>2. (proc[p].pc \in {"merge", "prove"}) \in BOOLEAN
        OBVIOUS
      <3>3. WhenLost(proc[p].pc) \in {"busy", "unknown"}
        BY DEF WhenLost
      <3>4. proc[p].pc \in {"merge", "prove"} => WhenLost(proc[p].pc) = "unknown"
        BY DEF WhenLost
      <3> QED
        BY <3>1, <3>2, <3>3, <3>4
    <2>2. CASE /\ proc[p].pc = "prove" /\ ~OnMain(o) /\ Answer(p, "busy")
               /\ proc' = [proc EXCEPT ![p] = Idle(FALSE)]
      BY <2>2, OnMainHas
    <2> QED
      BY <2>1, <2>2 DEF ConnectionLost
  <1>8. Idle(poisoned) \in Local /\ Idle(poisoned).pc = "idle"
    BY IdleIsLocal DEF Idle, At
  <1>9. answer = "busy" => ~Has(log, o) /\ log' = log
    BY <1>1, <1>3, <1>6, <1>7 DEF InSession, Before
  <1>10. \/ late' = late
         \/ /\ late'.op = o /\ lock' = Dead /\ answer # "busy"
            /\ ~Has(log, o) /\ log' = log
            /\ late' \in [op : Ops, branch : BranchRows]
    <2>1. proc[p].branch \in BranchRows
      BY LocalFields
    <2> QED
      BY <1>3, <1>4, <1>6, <1>7, <2>1 DEF Before
  <1>11. log' = log \/ (log' = Append(log, o) /\ ~Has(log, o))
    BY <1>3, <1>6 DEF Before
  <1> QED
    BY <1>1, <1>2, <1>4, <1>5, <1>6, <1>7, <1>8, <1>9, <1>10, <1>11, GivenUp

LEMMA CrashStep ==
  ASSUME TypeOK, Control, NEW p \in Processes, Crash(p)
  PROVE  TypeOK' /\ Control'
PROOF
  <1> DEFINE o == proc[p].op
  <1>1. /\ proc[p].pc # "idle" /\ now' = now /\ Fault /\ Answer(p, "lost")
        /\ proc' = [proc EXCEPT ![p] = Idle(FALSE)]
    BY DEF Crash
  <1>2. faults' \in 0..MaxFaults /\ foreign' \in 0..MaxForeign
    BY <1>1, FaultTyped
  <1>3. Idle(FALSE) \in Local /\ Idle(FALSE).pc = "idle"
    BY IdleIsLocal DEF Idle, At
  <1>4. o \in Ops /\ (proc[p].pc = "merge" => ~Has(log, o))
    BY <1>1, Serving DEF Control, Sane, Before
  <1>5. CASE p \in sessions
    <2>1. SessionOver(p, Dead) /\ LostQuery(p) /\ lock = p
      BY <1>5, Session DEF Crash
    <2>2. sessions' = sessions \ {p} /\ lock' = Dead
      BY <2>1 DEF SessionOver
    <2>3. /\ main' \in Table /\ merging' \in Ops \cup {None, Contribution} /\ branches' \subseteq Ops
          /\ \/ late' = late
             \/ proc[p].pc = "merge" /\ late' = [op |-> o, branch |-> proc[p].branch] /\ log' = log
          /\ \/ log' = log
             \/ proc[p].pc = "merge" /\ log' = Append(log, o)
      BY <1>1, <1>5, <2>1, LostQueryIs
    <2>4. \/ late' = late
          \/ /\ late'.op = o /\ lock' = Dead /\ ~Has(log, o) /\ log' = log
             /\ late' \in [op : Ops, branch : BranchRows]
      <3>1. proc[p].branch \in BranchRows
        BY LocalFields
      <3> QED
        BY <1>4, <2>2, <2>3, <3>1
    <2>5. log' = log \/ (log' = Append(log, o) /\ ~Has(log, o))
      BY <1>4, <2>3
    <2> QED
      BY <1>1, <1>2, <1>3, <1>5, <2>1, <2>2, <2>3, <2>4, <2>5, GivenUp
  <1>6. CASE p \notin sessions
    <2>1. UNCHANGED <<main, log, merging, branches, lock, sessions, late>>
      BY <1>6 DEF Crash, store, held
    <2>2. sessions' = sessions \ {p} /\ lock' = lock
      BY <1>6, <2>1
    <2>3. main' \in Table /\ merging' \in Ops \cup {None, Contribution} /\ branches' \subseteq Ops
      BY <2>1 DEF TypeOK
    <2> QED
      BY <1>1, <1>2, <1>3, <1>6, <2>1, <2>2, <2>3, GivenUp
  <1> QED
    BY <1>5, <1>6

\* The end of a call whose process finds its connection gone or never had one.
LEMMA NoticeLossStep ==
  ASSUME TypeOK, Control, NEW p \in Processes, NoticeLoss(p)
  PROVE  TypeOK' /\ Control'
PROOF
  <1>1. /\ p \notin sessions
        /\ UNCHANGED <<now, main, log, merging, branches, lock, sessions, late, faults, foreign>>
    BY DEF NoticeLoss, store, held, bounds
  <1>2. /\ main' \in Table /\ merging' \in Ops \cup {None, Contribution} /\ branches' \subseteq Ops
        /\ faults' \in 0..MaxFaults /\ foreign' \in 0..MaxForeign /\ sessions' = sessions \ {p}
    BY <1>1 DEF TypeOK
  <1>3. CASE proc[p].pc \in InSession /\ EndLost(p)
    <2> DEFINE answer == WhenLost(proc[p].pc)
               poisoned == proc[p].pc \in {"merge", "prove"}
    <2>1. Answer(p, answer) /\ proc' = [proc EXCEPT ![p] = Idle(poisoned)]
      BY <1>3 DEF EndLost
    <2>2. proc[p].pc # "idle" /\ (proc[p].pc \in Before => ~Has(log, proc[p].op))
      BY <1>3 DEF InSession, Control, Sane
    <2>3. answer \in {"busy", "unknown"} /\ (answer = "busy" => proc[p].pc \in Before)
      BY <1>3 DEF WhenLost, InSession, Before
    <2>4. poisoned \in BOOLEAN
      OBVIOUS
    <2>5. Idle(poisoned) \in Local /\ Idle(poisoned).pc = "idle"
      BY <2>4, IdleIsLocal DEF Idle, At
    <2> HIDE DEF answer, poisoned
    <2> QED
      BY <1>1, <1>2, <2>1, <2>2, <2>3, <2>5, GivenUp
  <1>4. CASE proc[p].pc = "unlock" /\ End(p, FALSE)
    BY <1>1, <1>2, <1>4, EndStep
  <1> QED
    BY <1>3, <1>4 DEF NoticeLoss

LEMMA NoLockStep ==
  ASSUME TypeOK, Control, NEW p \in Processes, LockTimeout(p) \/ ConnectFails(p)
  PROVE  TypeOK' /\ Control'
PROOF
  <1>1. /\ proc[p].pc = "lock" /\ Answer(p, "busy") /\ proc' = [proc EXCEPT ![p] = Idle(FALSE)]
        /\ UNCHANGED <<now, main, log, merging, branches, lock, sessions, late>>
    BY DEF LockTimeout, ConnectFails, store, held
  <1>2. faults' \in 0..MaxFaults /\ foreign' \in 0..MaxForeign
    <2>1. CASE LockTimeout(p)
      BY <2>1 DEF LockTimeout, bounds, TypeOK
    <2>2. CASE ConnectFails(p)
      BY <2>2, FaultTyped DEF ConnectFails
    <2> QED
      BY <2>1, <2>2
  <1>3. p \notin sessions /\ ~Has(log, proc[p].op)
    BY <1>1 DEF Control, Sane, Before, InSession
  <1>4. /\ main' \in Table /\ merging' \in Ops \cup {None, Contribution} /\ branches' \subseteq Ops
        /\ sessions' = sessions \ {p}
    BY <1>1, <1>3 DEF TypeOK
  <1>5. Idle(FALSE) \in Local /\ Idle(FALSE).pc = "idle"
    BY IdleIsLocal DEF Idle, At
  <1> QED
    BY <1>1, <1>2, <1>3, <1>4, <1>5, GivenUp

LEMMA RestartPoisonedStep ==
  ASSUME TypeOK, Control, NEW p \in Processes, RestartPoisoned(p)
  PROVE  TypeOK' /\ Control'
PROOF
  <1>1. /\ proc[p].pc = "idle" /\ proc' = [proc EXCEPT ![p] = Idle(FALSE)]
        /\ UNCHANGED <<now, main, log, merging, branches, lock, sessions, late, reply,
                       faults, foreign>>
    BY DEF RestartPoisoned, store, held, bounds
  <1>2. Idle(FALSE) \in Local /\ Idle(FALSE).pc = "idle"
    BY IdleIsLocal DEF Idle, At
  <1>3. /\ proc' \in [Processes -> Local] /\ proc'[p] = Idle(FALSE)
        /\ \A q \in Processes \ {p} : proc'[q] = proc[q]
    BY <1>1, <1>2, SetTyped
  <1>4. TypeOK'
    BY <1>1, <1>3 DEF TypeOK
  <1>5. \A q \in Processes : proc'[q].pc # "idle" => q # p /\ proc'[q] = proc[q]
    BY <1>2, <1>3
  <1>6. ASSUME NEW q \in Processes PROVE Sane(q)'
    <2>1. CASE q = p
      BY <1>1, <1>2, <1>3, <2>1, Session DEF Sane, Before
    <2>2. CASE q # p
      BY <1>1, <1>3, <2>2 DEF Control, Sane
    <2> QED
      BY <2>1, <2>2
  <1>7. Alone'
    BY <1>5 DEF Control, Alone
  <1>8. LateIsLost' /\ Truthful' /\ AppliedOnce'
    BY <1>1 DEF Control, LateIsLost, Truthful, AppliedOnce
  <1> QED
    BY <1>4, <1>6, <1>7, <1>8 DEF Control

\* A session ends unseen: its process still believes in it.
LEMMA SessionDiesStep ==
  ASSUME TypeOK, Control, NEW p \in Processes, SessionDies(p)
  PROVE  TypeOK' /\ Control'
PROOF
  <1>1. /\ p \in sessions /\ sessions' = sessions \ {p} /\ lock' \in {lock, None}
        /\ UNCHANGED <<now, main, log, merging, branches, late, proc, reply>>
    BY DEF SessionDies, SessionOver, store
  <1>2. faults' \in 0..MaxFaults /\ foreign' \in 0..MaxForeign
    BY FaultTyped DEF SessionDies
  <1>3. late = None /\ sessions' = {}
    BY <1>1, Session DEF TypeOK
  <1>4. TypeOK'
    BY <1>1, <1>2 DEF TypeOK
  <1>5. ASSUME NEW q \in Processes PROVE Sane(q)'
    BY <1>1, <1>3 DEF Control, Sane
  <1>6. Alone' /\ LateIsLost' /\ Truthful' /\ AppliedOnce'
    BY <1>1, <1>3 DEF Control, Alone, LateIsLost, Truthful, AppliedOnce
  <1> QED
    BY <1>4, <1>5, <1>6 DEF Control

\* Steps that leave the processes, the log, the branches, the lock and the answers alone.
LEMMA OutsideStep ==
  ASSUME TypeOK, Control, UNCHANGED <<log, branches, lock, sessions, late, proc, reply>>,
         now' \in 0..MaxTime, main' \in Table, merging' \in Ops \cup {None, Contribution},
         faults' \in 0..MaxFaults, foreign' \in 0..MaxForeign
  PROVE  TypeOK' /\ Control'
PROOF
  <1>1. TypeOK'
    BY DEF TypeOK
  <1>2. ASSUME NEW q \in Processes PROVE Sane(q)'
    BY DEF Control, Sane
  <1>3. Alone' /\ LateIsLost' /\ Truthful' /\ AppliedOnce'
    BY DEF Control, Alone, LateIsLost, Truthful, AppliedOnce
  <1> QED
    BY <1>1, <1>2, <1>3 DEF Control

\* The server ends a dead session, or runs its merge first.
LEMMA DeadSessionStep ==
  ASSUME TypeOK, Control, LateMerge \/ SessionEnds
  PROVE  TypeOK' /\ Control'
PROOF
  <1>1. CASE SessionEnds
    <2>1. /\ lock = Dead /\ lock' = None /\ late' = None
          /\ UNCHANGED <<now, main, log, merging, branches, sessions, proc, reply, faults, foreign>>
      BY <1>1 DEF SessionEnds, store, bounds
    <2>2. TypeOK'
      BY <2>1 DEF TypeOK
    <2>3. ASSUME NEW q \in Processes PROVE Sane(q)'
      BY <2>1, Session DEF Control, Sane
    <2>4. Alone' /\ LateIsLost' /\ Truthful' /\ AppliedOnce'
      BY <2>1 DEF Control, Alone, LateIsLost, Truthful, AppliedOnce
    <2> QED
      BY <2>2, <2>3, <2>4 DEF Control
  <1>2. CASE LateMerge
    <2> DEFINE o == late.op
               b == late.branch
    <2>1. /\ late # None /\ late' = None
          /\ MergeCommits(o, b) \/ MergeDisputed(o, b)
          /\ UNCHANGED <<now, lock, sessions, proc, reply, faults, foreign>>
      BY <1>2 DEF LateMerge, held, bounds
    <2>2. /\ o \in Ops /\ b \in BranchRows
          /\ lock = Dead /\ reply[o] \in {"unknown", "lost"} /\ ~Has(log, o)
      BY <2>1 DEF TypeOK, BranchRows, Control, LateIsLost
    <2>3. /\ main' \in Table /\ log' \in Seq(Ops)
          /\ merging' \in Ops \cup {None, Contribution} /\ branches' = branches
          /\ log' = log \/ log' = Append(log, o)
      BY <2>1, <2>2, CommitTyped
    <2> HIDE DEF o, b
    <2>4. TypeOK'
      BY <2>1, <2>3 DEF TypeOK
    <2>5. \A x \in Ops : x # o => (Has(log', x) <=> Has(log, x))
      <3>1. CASE log' = log
        BY <3>1
      <3>2. CASE log' = Append(log, o)
        <4>1. log \in Seq(Ops)
          BY DEF TypeOK
        <4> QED
          BY <2>2, <3>2, <4>1, HasAppend
      <3> QED
        BY <2>3, <3>1, <3>2
    <2>6. ASSUME NEW q \in Processes PROVE Sane(q)'
      <3>1. proc[q].pc # "idle" => proc[q].op \in Ops /\ proc[q].op # o
        BY <2>2, Serving
      <3>2. q \notin sessions
        BY <2>2, Session
      <3> QED
        BY <2>1, <2>5, <3>1, <3>2 DEF Control, Sane, Before
    <2>7. Alone' /\ LateIsLost'
      BY <2>1 DEF Control, Alone, LateIsLost
    <2>8. Truthful'
      BY <2>1, <2>2, <2>5 DEF Control, Truthful, Clean
    <2>9. AppliedOnce'
      <3>1. CASE log' = log
        BY <3>1 DEF Control, AppliedOnce
      <3>2. CASE log' = Append(log, o)
        BY <2>2, <3>2, OnceAppend DEF Control, TypeOK
      <3> QED
        BY <2>3, <3>1, <3>2
    <2> QED
      BY <2>4, <2>6, <2>7, <2>8, <2>9 DEF Control
  <1> QED
    BY <1>1, <1>2

LEMMA InitControl == Init => TypeOK /\ Control
PROOF
  <1> SUFFICES ASSUME Init PROVE TypeOK /\ Control
    OBVIOUS
  <1>1. Idle(FALSE) \in Local /\ Idle(FALSE).pc = "idle"
    BY IdleIsLocal DEF Idle, At
  <1>2. TypeOK
    <2>1. /\ 0 \in 0..MaxTime /\ 0 \in 0..MaxFaults /\ 0 \in 0..MaxForeign
          /\ "none" \in Replies
      BY DEF Replies
    <2>2. log \in Seq(Ops) /\ main \in Table
      BY RowTypes DEF Init
    <2>3. proc \in [Processes -> Local] /\ reply \in [Ops -> Replies]
      BY <1>1, <2>1 DEF Init
    <2> QED
      BY <2>1, <2>2, <2>3 DEF Init, TypeOK
  <1>3. DOMAIN log = {} /\ \A o : ~Has(log, o)
    <2>1. log = <<>>
      BY DEF Init
    <2>2. DOMAIN log = {}
      BY <2>1
    <2> QED
      BY <2>2 DEF Has
  <1>4. ASSUME NEW p \in Processes PROVE Sane(p)
    BY <1>1 DEF Init, Sane, Before
  <1>5. Alone /\ LateIsLost /\ AppliedOnce
    <2>1. \A p \in Processes : proc[p].pc = "idle"
      BY <1>1 DEF Init
    <2> QED
      BY <1>3, <2>1 DEF Init, Alone, LateIsLost, AppliedOnce
  <1>6. Truthful
    BY <1>3 DEF Init, Truthful
  <1> QED
    BY <1>2, <1>4, <1>5, <1>6 DEF Control

LEMMA NextControl == TypeOK /\ Control /\ [Next]_vars => TypeOK' /\ Control'
PROOF
  <1> SUFFICES ASSUME TypeOK, Control, [Next]_vars PROVE TypeOK' /\ Control'
    OBVIOUS
  <1>1. ASSUME Tick PROVE TypeOK' /\ Control'
    <2>1. now' \in 0..MaxTime
      BY <1>1 DEF Tick, TypeOK
    <2>2. UNCHANGED <<main, log, merging, branches, lock, sessions, late, proc, reply,
                      faults, foreign>>
      BY <1>1 DEF Tick, store, held, bounds
    <2>3. /\ main' \in Table /\ merging' \in Ops \cup {None, Contribution}
          /\ faults' \in 0..MaxFaults /\ foreign' \in 0..MaxForeign
      BY <2>2 DEF TypeOK
    <2> QED
      BY <2>1, <2>2, <2>3, OutsideStep
  <1>2. ASSUME ContributionMerges \/ ContributionAborts \/ \E i \in Items : WriteOutside(i)
        PROVE  TypeOK' /\ Control'
    <2>1. UNCHANGED <<now, log, branches, lock, sessions, late, proc, reply, faults>>
      BY <1>2 DEF ContributionMerges, ContributionAborts, WriteOutside, OthersOnly, held
    <2>2. foreign' \in 0..MaxForeign
      BY <1>2 DEF ContributionMerges, ContributionAborts, WriteOutside, TypeOK
    <2>3. merging' \in Ops \cup {None, Contribution}
      BY <1>2 DEF ContributionMerges, ContributionAborts, WriteOutside, TypeOK
    <2>4. main' \in Table
      <3>1. CASE main' = main
        BY <3>1 DEF TypeOK
      <3>2. ASSUME NEW i \in Items, main' = [main EXCEPT ![i] = Rewritten(@)] PROVE main' \in Table
        BY <3>2, RowTypes DEF TypeOK, Table
      <3> QED
        BY <1>2, <3>1, <3>2 DEF ContributionMerges, ContributionAborts, WriteOutside
    <2>5. now' \in 0..MaxTime /\ faults' \in 0..MaxFaults
      BY <2>1 DEF TypeOK
    <2> QED
      BY <2>1, <2>2, <2>3, <2>4, <2>5, OutsideStep
  <1>3. ASSUME UNCHANGED vars PROVE TypeOK' /\ Control'
    <2>1. UNCHANGED <<now, main, log, merging, branches, lock, sessions, late, proc, reply,
                      faults, foreign>>
      BY <1>3 DEF vars
    <2>2. /\ main' \in Table /\ merging' \in Ops \cup {None, Contribution} /\ now' \in 0..MaxTime
          /\ faults' \in 0..MaxFaults /\ foreign' \in 0..MaxForeign
      BY <2>1 DEF TypeOK
    <2> QED
      BY <2>1, <2>2, OutsideStep
  <1>4. ASSUME NEW p \in Processes, Step(p) PROVE TypeOK' /\ Control'
    BY <1>4, AcquireLockStep, NoLockStep, ReconcileStep, SweepStep, RunOnBranchStep, MergeStep,
       ProveMergeStep, UnlockStep, NoticeLossStep DEF Step
  <1> QED
    BY <1>1, <1>2, <1>3, <1>4, DeadSessionStep, CallStep, ProofFailsStep, UnlockStep,
       ConnectionLostStep, SessionDiesStep, NoLockStep, CrashStep, RestartPoisonedStep DEF Next

THEOREM ControlInvariant == Spec => [](TypeOK /\ Control)
PROOF
  <1>1. Init => TypeOK /\ Control
    BY InitControl
  <1>2. TypeOK /\ Control /\ [Next]_vars => TypeOK' /\ Control'
    BY NextControl
  <1> QED
    BY <1>1, <1>2, PTL DEF Spec

\* Every reachable state has its type, whatever times out, dies or is lost.
THEOREM TypeCorrect == Spec => []TypeOK
PROOF
  BY ControlInvariant, PTL

\* A call is on main once, although it is retried and a lost merge may run after the retry.
THEOREM OnceApplied == Spec => []AppliedOnce
PROOF
  <1>1. Control => AppliedOnce
    BY DEF Control
  <1> QED
    BY <1>1, ControlInvariant, PTL

\* A call that was answered as refused, busy, in conflict or failed left no trace, and none
\* is to come (adapter.ts: what mutate() throws is safe to retry, but for the unknown).
THEOREM RefusalClean == Spec => []RefusalLeavesNoTrace
PROOF
  <1>1. TypeOK /\ Control => RefusalLeavesNoTrace
    <2> SUFFICES ASSUME TypeOK, Control, NEW o \in Ops,
                        reply[o] \in {"refused", "conflict", "busy", "error"}
                 PROVE  ~OnMain(o) /\ (late # None => late.op # o)
      BY DEF RefusalLeavesNoTrace
    <2>1. ~OnMain(o)
      BY OnMainHas DEF Control, Truthful, Clean
    <2>2. late # None => late.op # o
      BY DEF Control, LateIsLost
    <2> QED
      BY <2>1, <2>2
  <1> QED
    BY <1>1, ControlInvariant, PTL

\* A call that was answered with its row is on main.
THEOREM SuccessKept == Spec => []SuccessIsOnMain
PROOF
  <1>1. Control => SuccessIsOnMain
    BY OnMainHas DEF Control, Truthful, SuccessIsOnMain
  <1> QED
    BY <1>1, ControlInvariant, PTL

\* Nobody sweeps the branch of a call that is about to merge: sweeping is done under the lock.
THEOREM BranchKept == Spec => []NoBranchSweptAway
PROOF
  <1>1. Control => NoBranchSweptAway
    BY DEF Control, Sane, NoBranchSweptAway
  <1> QED
    BY <1>1, ControlInvariant, PTL

-----------------------------------------------------------------------------
(* What a merge does to the rows *)

\* Other writers may have rewritten the text of a row, and nothing else of it.
SameButText(row, old) ==
  /\ row.owner = old.owner /\ row.holder = old.holder /\ row.until = old.until
  /\ row.text \in {old.text, Outside}

\* Every row has a text.
HasText(table) == \A i \in Items : table[i].text = None => table[i] = NoRow

LEMMA PresentIs ==
  ASSUME NEW table \in Table, HasText(table), NEW i \in Items
  PROVE  Present(table, i) <=> table[i].text # None
PROOF
  <1>1. NoRow.text = None
    BY DEF NoRow, RowOf
  <1> QED
    BY <1>1 DEF Present, HasText

\* A row that others only rewrote may still be changed by the call that could change it,
\* unless it was created meanwhile.
LEMMA StillAllowed ==
  ASSUME NEW o \in Ops, NEW i \in Items, NEW t \in Nat,
         NEW base \in Table, NEW theirs \in Table, HasText(base), HasText(theirs),
         SameButText(theirs[i], base[i]), Allowed(o, i, base, t),
         Kind[o] = "create" => theirs[i].text = None
  PROVE  Allowed(o, i, theirs, t)
PROOF
  <1> DEFINE old == base[i]
             row == theirs[i]
  <1>1. /\ Present(base, i) <=> old.text # None
        /\ Present(theirs, i) <=> row.text # None
    BY PresentIs
  <1>2. /\ row.owner = old.owner /\ row.holder = old.holder /\ row.until = old.until
        /\ row.text \in {old.text, Outside}
    BY DEF SameButText
  <1>3. CASE Kind[o] = "create" /\ ~Present(base, i)
    BY <1>1, <1>3 DEF Allowed
  <1>4. CASE Present(base, i)
    <2>1. Present(theirs, i)
      BY <1>1, <1>2, <1>4
    <2>2. Kind[o] # "create"
      BY <1>4 DEF Allowed
    <2> QED
      BY <1>2, <1>4, <2>1, <2>2
      DEF Allowed, MayClaim, MayHeartbeat, Expired, Holds
  <1> QED
    BY <1>3, <1>4 DEF Allowed

\* What is merged where nothing is disputed is what the statement would do to main.
LEMMA MergeIsEffect ==
  ASSUME NEW o \in Ops, NEW i \in Items, NEW t \in Nat,
         NEW base \in Table, NEW theirs \in Table, HasText(base), HasText(theirs),
         \A j \in Items : SameButText(theirs[j], base[j]),
         Allowed(o, i, base, t), base[i].text # o,
         ~Disputed(base, Effect(o, i, base, t), theirs)
  PROVE  /\ Allowed(o, i, theirs, t)
         /\ Merged(base, Effect(o, i, base, t), theirs) = Effect(o, i, theirs, t)
PROOF
  <1> DEFINE mine == Effect(o, i, base, t)
             old == base[i]
             row == theirs[i]
             new == NewRow(o, old, t)
             both == Merged(base, mine, theirs)
  <1>1. mine \in Table /\ new \in Row /\ old \in Row /\ row \in Row
    BY EffectTable DEF Table
  <1>2. mine[i] = new /\ \A j \in Items : j # i => mine[j] = base[j]
    BY DEF Effect, Table
  <1>3. Kind[o] \in Kinds
    OBVIOUS
  <1>4. /\ row.owner = old.owner /\ row.holder = old.holder /\ row.until = old.until
        /\ row.text \in {old.text, Outside}
    BY DEF SameButText
  <1>5. new.text = old.text \/ row.text = old.text \/ new.text = row.text
    <2>1. "text" \in DOMAIN base[i]
      BY <1>1, RowCells DEF Cells
    <2> QED
      BY <1>2, <2>1 DEF Disputed
  <1>6. /\ Present(base, i) <=> old.text # None
        /\ Present(theirs, i) <=> row.text # None
    BY PresentIs
  <1>7. /\ both[i] \in Row
        /\ both[i].owner = IF new.owner = old.owner THEN row.owner ELSE new.owner
        /\ both[i].text = IF new.text = old.text THEN row.text ELSE new.text
        /\ both[i].holder = IF new.holder = old.holder THEN row.holder ELSE new.holder
        /\ both[i].until = IF new.until = old.until THEN row.until ELSE new.until
    BY <1>1, <1>2, MergedCells
  <1>8. /\ both[i] = RowOf(new.owner, both[i].text, new.holder, new.until)
        /\ both[i].text = IF new.text = old.text THEN row.text ELSE new.text
    <2>1. both[i] = RowOf(both[i].owner, both[i].text, both[i].holder, both[i].until)
      BY <1>7, RowCells
    <2> QED
      BY <1>4, <1>7, <2>1
  <1>9. ASSUME NEW j \in Items, j # i PROVE both[j] = theirs[j]
    <2>1. /\ both[j] \in Row /\ theirs[j] \in Row
          /\ both[j].owner = theirs[j].owner /\ both[j].text = theirs[j].text
          /\ both[j].holder = theirs[j].holder /\ both[j].until = theirs[j].until
      BY <1>1, <1>2, <1>9, MergedCells DEF Table
    <2> QED
      BY <2>1, RowCells
  <1>10. /\ both[i] = NewRow(o, row, t)
         /\ Kind[o] = "create" => row.text = None
    <2> HIDE DEF mine, both
    <2>1. CASE Kind[o] = "create"
      <3>1. new.text = o /\ new.owner = Principal[o] /\ new.holder = None /\ new.until = 0
        BY <2>1 DEF NewRow, RowOf
      <3>2. old.text = None
        BY <1>6, <2>1 DEF Allowed
      <3>3. row.text = None
        BY <1>4, <1>5, <3>1, <3>2
      <3>4. both[i].text = o
        BY <1>8, <3>1, <3>2
      <3> QED
        BY <1>8, <2>1, <3>1, <3>3, <3>4 DEF NewRow
    <2>2. CASE Kind[o] = "patch"
      <3>1. /\ new.text = o /\ new.owner = old.owner /\ new.holder = old.holder
            /\ new.until = old.until
        BY <2>2 DEF NewRow, RowOf
      <3>2. both[i].text = o
        BY <1>8, <3>1
      <3> QED
        BY <1>4, <1>8, <2>2, <3>1, <3>2 DEF NewRow
    <2>3. CASE Kind[o] = "delete"
      <3>1. new.text = None /\ new.owner = None /\ new.holder = None /\ new.until = 0
        BY <2>3 DEF NewRow, NoRow, RowOf
      <3>2. old.text # None
        BY <1>6, <2>3 DEF Allowed
      <3>3. both[i].text = None
        BY <1>8, <3>1, <3>2
      <3> QED
        BY <1>8, <2>3, <3>1, <3>3 DEF NewRow, NoRow
    <2>4. CASE Kind[o] \in {"claim", "heartbeat"}
      <3>1. /\ new.text = old.text /\ new.owner = old.owner /\ new.holder = Lease(o)
            /\ new.until = t + LeaseTTL
        BY <2>4 DEF NewRow, RowOf
      <3>2. both[i].text = row.text
        BY <1>8, <3>1
      <3> QED
        BY <1>4, <1>8, <2>4, <3>1, <3>2 DEF NewRow
    <2>5. CASE Kind[o] = "release"
      <3>1. /\ new.text = old.text /\ new.owner = old.owner /\ new.holder = None
            /\ new.until = 0
        BY <2>5 DEF NewRow, RowOf
      <3>2. both[i].text = row.text
        BY <1>8, <3>1
      <3> QED
        BY <1>4, <1>8, <2>5, <3>1, <3>2 DEF NewRow
    <2> QED
      BY <1>3, <2>1, <2>2, <2>3, <2>4, <2>5 DEF Kinds
  <1>11. Allowed(o, i, theirs, t)
    BY <1>10, StillAllowed
  <1>12. both \in Table /\ Effect(o, i, theirs, t) \in Table
    BY <1>1, MergedTable, EffectTable
  <1>13. \A j \in Items : both[j] = Effect(o, i, theirs, t)[j]
    BY <1>9, <1>10 DEF Effect, Table
  <1> HIDE DEF both
  <1>14. both = Effect(o, i, theirs, t)
    BY <1>12, <1>13 DEF Table
  <1> QED
    BY <1>11, <1>14 DEF both

\* A statement leaves every row with a text.
LEMMA EffectHasText ==
  ASSUME NEW o \in Ops, NEW i \in Items, NEW t \in Nat, NEW table \in Table,
         HasText(table), Allowed(o, i, table, t)
  PROVE  HasText(Effect(o, i, table, t))
PROOF
  <1> DEFINE row == table[i]
             new == NewRow(o, row, t)
  <1>1. Kind[o] \in Kinds
    OBVIOUS
  <1>2. new.text = None => new = NoRow
    <2>1. CASE Kind[o] \in {"create", "patch"}
      BY <2>1 DEF NewRow, RowOf
    <2>2. CASE Kind[o] = "delete"
      BY <2>2 DEF NewRow
    <2>3. CASE Kind[o] \in {"claim", "heartbeat", "release"}
      <3>1. row.text # None
        BY <2>3, PresentIs DEF Allowed
      <3> QED
        BY <2>3, <3>1 DEF NewRow, RowOf
    <2> QED
      BY <1>1, <2>1, <2>2, <2>3 DEF Kinds
  <1> QED
    BY <1>2 DEF HasText, Effect, Table

LEMMA EffectText ==
  ASSUME NEW o \in Ops, NEW i \in Items, NEW t \in Nat, NEW table \in Table, NEW j \in Items
  PROVE  Effect(o, i, table, t)[j].text \in {table[j].text, o, None}
PROOF
  <1>1. Kind[o] \in Kinds
    OBVIOUS
  <1>2. NewRow(o, table[i], t).text \in {table[i].text, o, None}
    BY <1>1 DEF NewRow, RowOf, NoRow, Kinds
  <1> QED
    BY <1>2 DEF Effect, Table

-----------------------------------------------------------------------------
(* The branches *)

\* A call's branch is what its statement, allowed at the time, made of main, which has only
\* been rewritten since.
Carries(o, b, table, time) ==
  /\ HasText(b.base)
  /\ \A j \in Items : SameButText(table[j], b.base[j]) /\ b.base[j].text # o
  /\ \E i \in Items, t \in 0..time :
       /\ Target[o] \in {i, None}
       /\ Allowed(o, i, b.base, t) /\ b.table = Effect(o, i, b.base, t)

Texts ==
  /\ HasText(main)
  /\ \A i \in Items : main[i].text \in Ops => Has(log, main[i].text)

BranchInv ==
  /\ Texts
  /\ \A p \in Processes :
       p \in sessions /\ proc[p].pc = "merge" => Carries(proc[p].op, proc[p].branch, main, now)
  /\ late # None => Carries(late.op, late.branch, main, now)

\* A branch that is merged takes effect on main as its call would there and then.
LEMMA CommitIsEffect ==
  ASSUME TypeOK, NEW o \in Ops, NEW b \in BranchRows, Carries(o, b, main, now), HasText(main),
         MergeCommits(o, b)
  PROVE  \E i \in Items, t \in 0..now :
           /\ Target[o] \in {i, None}
           /\ Allowed(o, i, main, t) /\ main' = Effect(o, i, main, t)
PROOF
  <1>1. PICK i \in Items, t \in 0..now :
          /\ Target[o] \in {i, None}
          /\ Allowed(o, i, b.base, t) /\ b.table = Effect(o, i, b.base, t)
    BY DEF Carries
  <1>2. t \in Nat /\ b.base \in Table /\ main \in Table
    BY DEF TypeOK, BranchRows
  <1>3. /\ HasText(b.base) /\ b.base[i].text # o
        /\ \A j \in Items : SameButText(main[j], b.base[j])
    BY DEF Carries
  <1>4. ~Disputed(b.base, Effect(o, i, b.base, t), main)
    BY <1>1 DEF MergeCommits, Mergeable
  <1>5. main' = Merged(b.base, Effect(o, i, b.base, t), main)
    BY <1>1 DEF MergeCommits
  <1> QED
    BY <1>1, <1>2, <1>3, <1>4, <1>5, MergeIsEffect

\* What a commit leaves has its text, and the text is of a call on main.
LEMMA CommitTexts ==
  ASSUME TypeOK, Texts, NEW o \in Ops, NEW i \in Items, NEW t \in 0..now,
         Allowed(o, i, main, t), main' = Effect(o, i, main, t), log' = Append(log, o)
  PROVE  Texts'
PROOF
  <1>1. t \in Nat /\ main \in Table /\ log \in Seq(Ops)
    BY DEF TypeOK
  <1>2. HasText(main')
    BY <1>1, EffectHasText DEF Texts
  <1>3. ASSUME NEW j \in Items, main'[j].text \in Ops PROVE Has(log', main'[j].text)
    <2>1. main'[j].text \in {main[j].text, o, None}
      BY <1>1, EffectText
    <2>2. \A x : Has(log', x) <=> Has(log, x) \/ x = o
      BY <1>1, HasAppend
    <2> QED
      BY <1>3, <2>1, <2>2 DEF Texts
  <1> QED
    BY <1>2, <1>3 DEF Texts, HasText

\* A step that leaves main alone: branches that are there to be merged are up to date, and at
\* most one call, of those that are open, is answered.
Carried ==
  /\ \A p \in Processes :
       p \in sessions' /\ proc'[p].pc = "merge" => Carries(proc'[p].op, proc'[p].branch, main, now)
  /\ late' # None => Carries(late'.op, late'.branch, main, now)
AnswersOne ==
  \/ reply' = reply
  \/ \E o \in Ops : /\ reply[o] \in {"none", "running"}
                    /\ \A x \in Ops \ {o} : reply'[x] = reply[x]
Idles == UNCHANGED <<now, main, log>> /\ Carried /\ AnswersOne

\* A step that merges a branch: it is the only one there was.
NobodyCarries ==
  /\ \A p \in Processes : p \in sessions' => proc'[p].pc # "merge"
  /\ late' = None
Commits ==
  \E o \in Ops, i \in Items, t \in 0..now :
    /\ ~Has(log, o) /\ log' = Append(log, o)
    /\ reply[o] \in {"running", "unknown", "lost"}
    /\ Target[o] \in {i, None}
    /\ Allowed(o, i, main, t) /\ main' = Effect(o, i, main, t)
    /\ now' = now /\ NobodyCarries
    /\ \A x \in Ops : \/ reply'[x] = reply[x]
                      \/ reply[x] = "running" /\ reply'[x] \in {"unknown", "lost"}

\* A merge that was sent commits, or leaves main alone.
LEMMA SentMerge ==
  ASSUME TypeOK, NEW o \in Ops, NEW b \in BranchRows, Carries(o, b, main, now), Texts,
         ~Has(log, o), reply[o] \in {"running", "unknown", "lost"}, MergeCommits(o, b),
         now' = now, NobodyCarries,
         \A x \in Ops : \/ reply'[x] = reply[x]
                        \/ reply[x] = "running" /\ reply'[x] \in {"unknown", "lost"}
  PROVE  Commits
PROOF
  <1>1. log' = Append(log, o) /\ HasText(main)
    BY DEF MergeCommits, Texts
  <1>2. PICK i \in Items, t \in 0..now :
          Target[o] \in {i, None} /\ Allowed(o, i, main, t) /\ main' = Effect(o, i, main, t)
    BY <1>1, CommitIsEffect
  <1> QED
    BY <1>1, <1>2 DEF Commits

\* A process whose next query is not a merge, on the branches others carry.
LEMMA CarriedOn ==
  ASSUME BranchInv, NEW p \in Processes,
         \A q \in Processes \ {p} : proc'[q] = proc[q], sessions' \subseteq sessions \cup {p},
         proc'[p].pc # "merge", late' = late \/ late' = None
  PROVE  Carried
PROOF
  BY DEF BranchInv, Carried

LEMMA MergeCarries ==
  ASSUME TypeOK, Control, BranchInv, NEW p \in Processes, Merge(p)
  PROVE  Idles \/ Commits
PROOF
  <1> DEFINE o == proc[p].op
             b == proc[p].branch
  <1>1. /\ proc[p].pc = "merge" /\ p \in sessions
        /\ MergeCommits(o, b) \/ UNCHANGED <<main, log>>
        /\ UNCHANGED <<now, sessions, late, reply>>
        /\ Release(p, "ok") \/ Prove(p, "disputed") \/ Prove(p, "error")
    BY DEF Merge, MergeDisputed, held, store
  <1>2. /\ late = None /\ \A q \in Processes \ {p} : q \notin sessions
    BY <1>1, Session
  <1>3. /\ o \in Ops /\ reply[o] = "running" /\ ~Has(log, o) /\ b \in BranchRows
        /\ Carries(o, b, main, now)
    BY <1>1, Serving, LocalFields DEF Control, Sane, Before, BranchInv
  <1>4. /\ proc'[p].pc # "merge" /\ \A q \in Processes \ {p} : proc'[q] = proc[q]
    BY <1>1, ReleaseTyped, ProveTyped DEF Replies
  <1>5. CASE UNCHANGED <<main, log>>
    BY <1>1, <1>4, <1>5, CarriedOn DEF Idles, AnswersOne
  <1>6. CASE MergeCommits(o, b)
    <2>1. NobodyCarries
      BY <1>1, <1>2, <1>4 DEF NobodyCarries
    <2> HIDE DEF o, b
    <2>2. Texts
      BY DEF BranchInv
    <2> QED
      BY <1>1, <1>3, <1>6, <2>1, <2>2, SentMerge
  <1> QED
    BY <1>1, <1>5, <1>6

LEMMA LateMergeCarries ==
  ASSUME TypeOK, Control, BranchInv, LateMerge PROVE Idles \/ Commits
PROOF
  <1> DEFINE o == late.op
             b == late.branch
  <1>1. /\ late # None /\ late' = None /\ UNCHANGED <<now, sessions, proc, reply>>
        /\ MergeCommits(o, b) \/ UNCHANGED <<main, log>>
    BY DEF LateMerge, MergeDisputed, held
  <1>2. /\ o \in Ops /\ b \in BranchRows /\ Carries(o, b, main, now)
        /\ lock = Dead /\ reply[o] \in {"unknown", "lost"} /\ ~Has(log, o)
    BY <1>1 DEF TypeOK, BranchRows, Control, LateIsLost, BranchInv
  <1>3. NobodyCarries /\ Carried
    <2>1. \A q \in Processes : q \notin sessions
      BY <1>2, Session
    <2> QED
      BY <1>1, <2>1 DEF NobodyCarries, Carried
  <1>4. Texts
    BY DEF BranchInv
  <1> HIDE DEF o, b
  <1>5. CASE MergeCommits(o, b)
    BY <1>1, <1>2, <1>3, <1>4, <1>5, SentMerge
  <1>6. CASE UNCHANGED <<main, log>>
    BY <1>1, <1>3, <1>6 DEF Idles, AnswersOne
  <1> QED
    BY <1>1, <1>5, <1>6

LEMMA RunOnBranchCarries ==
  ASSUME TypeOK, Control, BranchInv, NEW p \in Processes, RunOnBranch(p) PROVE Idles
PROOF
  <1>1. /\ proc[p].pc = "branch" /\ p \in sessions
        /\ UNCHANGED <<now, main, log, sessions, late, reply>>
    BY DEF RunOnBranch, held
  <1>2. /\ late = None /\ \A q \in Processes \ {p} : q \notin sessions
    BY <1>1, Session
  <1>3. proc[p].op \in Ops /\ ~Has(log, proc[p].op)
    BY <1>1, Serving DEF Control, Sane, Before
  <1>4. CASE Release(p, "unchanged") \/ Release(p, "refused")
    <2>1. /\ proc'[p].pc # "merge" /\ \A q \in Processes \ {p} : proc'[q] = proc[q]
      BY <1>4, ReleaseTyped DEF Replies
    <2> QED
      BY <1>1, <2>1, CarriedOn DEF Idles, AnswersOne
  <1>5. ASSUME NEW i \in Items, Target[proc[p].op] \in {i, None},
               Allowed(proc[p].op, i, main, now),
               proc' = [proc EXCEPT ![p] = At("merge", proc[p].op, proc[p].attempt,
                 Branch(main, Effect(proc[p].op, i, main, now)), "none", FALSE)]
        PROVE  Idles
    <2> DEFINE o == proc[p].op
               b == Branch(main, Effect(o, i, main, now))
    <2>1. b.base = main /\ b.table = Effect(o, i, main, now)
      BY DEF Branch
    <2>2. /\ proc'[p].op = o /\ proc'[p].branch = b
      BY <1>5 DEF At, TypeOK
    <2> HIDE DEF b
    <2>3. now \in 0..now
      BY DEF TypeOK
    <2>4. \A j \in Items : SameButText(main[j], main[j]) /\ main[j].text # o
      BY <1>3 DEF SameButText, BranchInv, Texts
    <2>5. HasText(main)
      BY DEF BranchInv, Texts
    <2>6. Carries(o, b, main, now)
      BY <1>5, <2>1, <2>3, <2>4, <2>5 DEF Carries
    <2>7. Carried
      BY <1>1, <1>2, <2>2, <2>6 DEF Carried
    <2> QED
      BY <1>1, <2>7 DEF Idles, AnswersOne
  <1> QED
    BY <1>3, <1>4, <1>5, RunOnBranchIs

\* A call that loses its connection, or its process.
LEMMA LossCarries ==
  ASSUME TypeOK, Control, BranchInv, NEW p \in Processes, ConnectionLost(p) \/ Crash(p)
  PROVE  Idles \/ Commits
PROOF
  <1> DEFINE o == proc[p].op
             b == proc[p].branch
  <1>1. /\ proc[p].pc # "idle" /\ now' = now /\ o \in Ops /\ reply[o] = "running"
        /\ b \in BranchRows
    BY Serving, LocalFields DEF ConnectionLost, Crash, InSession
  <1>2. PICK answer \in {"busy", "unknown", "lost"}, poisoned \in BOOLEAN :
          /\ Answer(p, answer) /\ proc' = [proc EXCEPT ![p] = Idle(poisoned)]
          /\ proc[p].pc = "merge" => answer # "busy"
    <2>1. CASE EndLost(p)
      <3>1. /\ Answer(p, WhenLost(proc[p].pc))
            /\ proc' = [proc EXCEPT ![p] = Idle(proc[p].pc \in {"merge", "prove"})]
        BY <2>1 DEF EndLost
      <3>2. (proc[p].pc \in {"merge", "prove"}) \in BOOLEAN
        OBVIOUS
      <3>3. /\ WhenLost(proc[p].pc) \in {"busy", "unknown"}
            /\ proc[p].pc = "merge" => WhenLost(proc[p].pc) # "busy"
        BY DEF WhenLost
      <3> QED
        BY <3>1, <3>2, <3>3
    <2>2. CASE /\ proc[p].pc = "prove" /\ Answer(p, "busy")
               /\ proc' = [proc EXCEPT ![p] = Idle(FALSE)]
      BY <2>2
    <2>3. CASE Answer(p, "lost") /\ proc' = [proc EXCEPT ![p] = Idle(FALSE)]
      BY <2>3
    <2> QED
      BY <2>1, <2>2, <2>3 DEF ConnectionLost, Crash
  <1>3. Idle(poisoned) \in Local /\ Idle(poisoned).pc = "idle"
    BY IdleIsLocal DEF Idle, At
  <1>4. /\ proc'[p].pc = "idle" /\ \A q \in Processes \ {p} : proc'[q] = proc[q]
    BY <1>2, <1>3, SetTyped
  <1>5. reply'[o] = answer /\ \A x \in Ops \ {o} : reply'[x] = reply[x]
    BY <1>1, <1>2 DEF Answer, TypeOK
  <1>6. AnswersOne
    BY <1>1, <1>5 DEF AnswersOne
  <1>7. CASE p \notin sessions
    <2>1. UNCHANGED <<main, log, sessions, late>>
      BY <1>7 DEF ConnectionLost, Crash, store, held
    <2> QED
      BY <1>1, <1>4, <1>6, <2>1, CarriedOn DEF Idles
  <1>8. CASE p \in sessions
    <2>1. /\ sessions' = sessions \ {p} /\ LostQuery(p)
          /\ late = None /\ \A q \in Processes \ {p} : q \notin sessions
      BY <1>8, Session DEF ConnectionLost, Crash, SessionOver
    <2>2. CASE UNCHANGED <<main, log>> /\ late' = late
      BY <1>1, <1>4, <1>6, <2>1, <2>2, CarriedOn DEF Idles
    <2>3. CASE proc[p].pc = "merge"
      <3>1. Carries(o, b, main, now) /\ ~Has(log, o) /\ Texts
        BY <1>8, <2>3 DEF BranchInv, Control, Sane, Before
      <3>2. CASE MergeCommits(o, b) /\ late' = late
        <4>1. NobodyCarries
          BY <1>4, <2>1, <3>2 DEF NobodyCarries
        <4>2. \A x \in Ops : \/ reply'[x] = reply[x]
                             \/ reply[x] = "running" /\ reply'[x] \in {"unknown", "lost"}
          BY <1>1, <1>2, <1>5, <2>3
        <4> HIDE DEF o, b
        <4> QED
          BY <1>1, <3>1, <3>2, <4>1, <4>2, SentMerge
      <3>3. CASE late' = [op |-> o, branch |-> b] /\ UNCHANGED <<main, log>>
        <4>1. Carried
          BY <1>4, <2>1, <3>1, <3>3 DEF Carried
        <4> QED
          BY <1>1, <1>6, <3>3, <4>1 DEF Idles
      <3> QED
        BY <2>1, <2>2, <2>3, <3>2, <3>3 DEF LostQuery, store, MergeDisputed
    <2> QED
      BY <2>1, <2>2, <2>3 DEF LostQuery, store
  <1> QED
    BY <1>7, <1>8

\* The other steps of a call.
LEMMA CallIdles ==
  ASSUME TypeOK, Control, BranchInv, NEW p \in Processes, NEW o \in Ops, Call(p, o) PROVE Idles
PROOF
  <1>1. /\ reply[o] = "none" /\ \A x \in Ops \ {o} : reply'[x] = reply[x]
        /\ UNCHANGED <<now, main, log, sessions, late>>
    BY DEF Call, store, held, TypeOK
  <1>2. AnswersOne
    BY <1>1 DEF AnswersOne
  <1>3. CASE proc' = proc
    BY <1>1, <1>2, <1>3 DEF Idles, BranchInv, Carried
  <1>4. CASE proc' = [proc EXCEPT ![p] = At("lock", o, 1, NoBranch, "none", FALSE)]
    <2>1. proc'[p].pc = "lock" /\ \A q \in Processes \ {p} : proc'[q] = proc[q]
      BY <1>4 DEF TypeOK, At
    <2> QED
      BY <1>1, <1>2, <2>1, CarriedOn DEF Idles
  <1> QED
    BY <1>3, <1>4 DEF Call

LEMMA QueryIdles ==
  ASSUME TypeOK, Control, BranchInv, NEW p \in Processes,
         AcquireLock(p) \/ Reconcile(p) \/ Sweep(p) \/ ProveMerge(p) \/ ProofFails(p)
  PROVE  Idles
PROOF
  <1>1. UNCHANGED <<now, main, log, late, reply>> /\ sessions' \subseteq sessions \cup {p}
    BY DEF AcquireLock, Reconcile, Sweep, ProveMerge, ProofFails, store, held
  <1>2. proc'[p].pc # "merge" /\ \A q \in Processes \ {p} : proc'[q] = proc[q]
    <2>1. CASE AcquireLock(p) \/ Sweep(p) \/ Reconcile(p)
      <3>1. Goto(p, "reconcile") \/ Goto(p, "branch") \/ Goto(p, "sweep") \/ Release(p, "error")
        BY <2>1 DEF AcquireLock, Sweep, Reconcile
      <3> QED
        BY <3>1, GotoTyped, ReleaseTyped DEF PCs, Replies
    <2>2. CASE ProveMerge(p)
      <3>1. Release(p, Proven(proc[p].op, proc[p].answer))
        BY <2>2 DEF ProveMerge
      <3>2. Proven(proc[p].op, proc[p].answer) \in {"ok", "error", "retry"}
        BY DEF Proven
      <3> QED
        BY <3>1, <3>2, ReleaseTyped DEF Replies
    <2>3. CASE ProofFails(p)
      BY <2>3 DEF ProofFails, TypeOK, At
    <2> QED
      BY <2>1, <2>2, <2>3
  <1> QED
    BY <1>1, <1>2, CarriedOn DEF Idles, AnswersOne

\* A call that ends, one way or another, without its merge.
LEMMA EndIdles ==
  ASSUME TypeOK, Control, BranchInv, NEW p \in Processes,
         \/ Unlock(p) \/ UnlockFails(p) \/ NoticeLoss(p) \/ LockTimeout(p) \/ ConnectFails(p)
  PROVE  Idles
PROOF
  <1> DEFINE o == proc[p].op
  <1>1. UNCHANGED <<now, main, log, late>> /\ sessions' \subseteq sessions
    BY DEF Unlock, UnlockFails, NoticeLoss, LockTimeout, ConnectFails, SessionOver, store, held
  <1>2. proc[p].pc # "idle"
    BY DEF Unlock, UnlockFails, NoticeLoss, LockTimeout, ConnectFails, InSession
  <1>3. o \in Ops /\ reply[o] = "running"
    BY <1>2, Serving
  <1>4. /\ proc'[p].pc # "merge" /\ \A q \in Processes \ {p} : proc'[q] = proc[q]
        /\ \A x \in Ops \ {o} : reply'[x] = reply[x]
    <2>1. CASE proc[p].pc = "unlock"
      <3>1. PICK poisoned \in BOOLEAN : End(p, poisoned)
        BY <2>1, LocalFields DEF Unlock, UnlockFails, NoticeLoss, LockTimeout, ConnectFails, InSession
      <3> QED
        BY <2>1, <3>1, EndTyped
    <2>2. CASE proc[p].pc # "unlock"
      <3>1. PICK poisoned \in BOOLEAN, answer \in Replies :
              Answer(p, answer) /\ proc' = [proc EXCEPT ![p] = Idle(poisoned)]
        <4>1. CASE EndLost(p)
          <5>1. /\ Answer(p, WhenLost(proc[p].pc))
                /\ proc' = [proc EXCEPT ![p] = Idle(proc[p].pc \in {"merge", "prove"})]
            BY <4>1 DEF EndLost
          <5>2. (proc[p].pc \in {"merge", "prove"}) \in BOOLEAN
            OBVIOUS
          <5>3. WhenLost(proc[p].pc) \in Replies
            BY DEF WhenLost, Replies
          <5> QED
            BY <5>1, <5>2, <5>3
        <4>2. CASE Answer(p, "busy") /\ proc' = [proc EXCEPT ![p] = Idle(FALSE)]
          BY <4>2 DEF Replies
        <4> QED
          BY <2>2, <4>1, <4>2 DEF Unlock, UnlockFails, NoticeLoss, LockTimeout, ConnectFails
      <3>2. Idle(poisoned) \in Local /\ Idle(poisoned).pc = "idle"
        BY IdleIsLocal DEF Idle, At
      <3> QED
        BY <1>3, <3>1, <3>2, SetTyped DEF Answer, TypeOK
    <2> QED
      BY <2>1, <2>2
  <1>5. AnswersOne
    BY <1>3, <1>4 DEF AnswersOne
  <1> QED
    BY <1>1, <1>4, <1>5, CarriedOn DEF Idles

\* Steps that leave the processes, or all but an idle one, and their answers alone.
LEMMA OtherIdles ==
  ASSUME TypeOK, Control, BranchInv,
         \/ ContributionMerges \/ ContributionAborts \/ SessionEnds \/ UNCHANGED vars
         \/ \E p \in Processes : SessionDies(p) \/ RestartPoisoned(p)
  PROVE  Idles
PROOF
  <1>1. CASE \E p \in Processes : RestartPoisoned(p)
    <2>1. PICK p \in Processes : RestartPoisoned(p)
      BY <1>1
    <2>2. /\ UNCHANGED <<now, main, log, late, sessions, reply>>
          /\ proc'[p].pc = "idle" /\ \A q \in Processes \ {p} : proc'[q] = proc[q]
      BY <2>1 DEF RestartPoisoned, store, held, TypeOK, Idle, At
    <2> QED
      BY <2>2, CarriedOn DEF Idles, AnswersOne
  <1>2. CASE ~\E p \in Processes : RestartPoisoned(p)
    <2>1. /\ UNCHANGED <<now, main, log, proc, reply>> /\ sessions' \subseteq sessions
          /\ late' = late \/ late' = None
      BY <1>2 DEF ContributionMerges, ContributionAborts, OthersOnly, SessionEnds, SessionDies,
         SessionOver, vars, store, held
    <2> QED
      BY <2>1 DEF Idles, AnswersOne, Carried, BranchInv
  <1> QED
    BY <1>1, <1>2

\* Time passes, or another writer rewrites a row: nothing else changes.
Passes == now' = now + 1 /\ UNCHANGED <<main, log, sessions, late, proc, reply>>
Rewrites ==
  /\ \E i \in Items : main' = [main EXCEPT ![i] = Rewritten(@)]
  /\ UNCHANGED <<now, log, sessions, late, proc, reply>>

LEMMA StepIs ==
  ASSUME TypeOK, Control, BranchInv, [Next]_vars
  PROVE  Passes \/ Rewrites \/ Idles \/ Commits
PROOF
  <1>1. Tick => Passes
    BY DEF Tick, Passes, store, held
  <1>2. ASSUME NEW i \in Items, WriteOutside(i) PROVE Rewrites
    BY <1>2 DEF WriteOutside, Rewrites, OthersOnly, held
  <1>3. ASSUME NEW p \in Processes, Step(p) PROVE Idles \/ Commits
    BY <1>3, QueryIdles, EndIdles, RunOnBranchCarries, MergeCarries DEF Step
  <1> QED
    BY <1>1, <1>2, <1>3, CallIdles, QueryIdles, EndIdles, OtherIdles, LateMergeCarries, LossCarries
    DEF Next

LEMMA RewriteKeepsText ==
  ASSUME NEW table \in Table, NEW i \in Items
  PROVE  LET after == [table EXCEPT ![i] = Rewritten(@)] IN
         \A j \in Items :
           /\ after[j].text = Outside \/ after[j] = table[j]
           /\ \A old : SameButText(table[j], old) => SameButText(after[j], old)
PROOF
  BY DEF Table, Rewritten, RowOf, SameButText

\* BranchInv is inductive.
LEMMA BranchStep == TypeOK /\ Control /\ BranchInv /\ [Next]_vars => BranchInv'
PROOF
  <1> SUFFICES ASSUME TypeOK, Control, BranchInv, [Next]_vars PROVE BranchInv'
    OBVIOUS
  <1>1. CASE Idles
    BY <1>1 DEF Idles, Carried, BranchInv, Texts, HasText
  <1>2. CASE Commits
    <2>1. Texts'
      BY <1>2, CommitTexts DEF Commits, BranchInv
    <2> QED
      BY <1>2, <2>1 DEF Commits, NobodyCarries, BranchInv
  <1>3. CASE Passes
    <2>1. \A t \in 0..now : t \in 0..now'
      BY <1>3 DEF Passes, TypeOK
    <2>2. ASSUME NEW o, NEW b, Carries(o, b, main, now) PROVE Carries(o, b, main', now')
      BY <1>3, <2>1, <2>2 DEF Carries, Passes
    <2> QED
      BY <1>3, <2>2 DEF Passes, BranchInv, Texts, HasText
  <1>4. CASE Rewrites
    <2>1. PICK i \in Items : main' = [main EXCEPT ![i] = Rewritten(@)]
      BY <1>4 DEF Rewrites
    <2>2. main \in Table
      BY DEF TypeOK
    <2>3. \A j \in Items :
            /\ main'[j].text = Outside \/ main'[j] = main[j]
            /\ \A old : SameButText(main[j], old) => SameButText(main'[j], old)
      BY <2>1, <2>2, RewriteKeepsText
    <2>4. Texts'
      BY <1>4, <2>3 DEF Rewrites, BranchInv, Texts, HasText
    <2>5. ASSUME NEW o, NEW b, Carries(o, b, main, now) PROVE Carries(o, b, main', now')
      BY <1>4, <2>3, <2>5 DEF Carries, Rewrites
    <2> QED
      BY <1>4, <2>4, <2>5 DEF Rewrites, BranchInv
  <1> QED
    BY <1>1, <1>2, <1>3, <1>4, StepIs

LEMMA InitBranch == Init => BranchInv
PROOF
  <1> SUFFICES ASSUME Init PROVE BranchInv
    OBVIOUS
  <1>1. \A i \in Items : main[i] = NoRow /\ main[i].text = None
    BY DEF Init, EmptyTable, NoRow, RowOf
  <1>2. Texts
    BY <1>1 DEF Texts, HasText
  <1> QED
    BY <1>2 DEF Init, BranchInv

THEOREM BranchInvariant == Spec => [](TypeOK /\ Control /\ BranchInv)
PROOF
  <1>1. Init => TypeOK /\ Control /\ BranchInv
    BY InitControl, InitBranch
  <1>2. TypeOK /\ Control /\ BranchInv /\ [Next]_vars => (TypeOK /\ Control /\ BranchInv)'
    BY NextControl, BranchStep
  <1> QED
    BY <1>1, <1>2, PTL DEF Spec

-----------------------------------------------------------------------------
(* The properties of steps *)

\* What a statement may do to a lease that was in force when it ran, or later.
LEMMA LeaseKept ==
  ASSUME NEW o \in Ops, NEW i \in Items, NEW t \in Nat, NEW time \in Nat, t <= time,
         NEW table \in Table, Allowed(o, i, table, t), NEW j \in Items,
         table[j].holder # None, ~Expired(table[j], time)
  PROVE  Effect(o, i, table, t)[j].holder \in {table[j].holder, None}
PROOF
  <1>1. CASE j # i
    BY <1>1 DEF Effect, Table
  <1>2. CASE j = i
    <2> DEFINE row == table[i]
    <2>1. Effect(o, i, table, t)[i] = NewRow(o, row, t) /\ row.until \in Nat
      BY RowCells DEF Effect, Table
    <2>2. ~Expired(row, t)
      BY <1>2, <2>1 DEF Expired
    <2>3. Kind[o] \in {"claim", "heartbeat"} => row.holder = Lease(o)
      BY <2>2 DEF Allowed, MayClaim, MayHeartbeat, Holds
    <2>4. Kind[o] \in Kinds
      OBVIOUS
    <2> QED
      BY <1>2, <2>1, <2>3, <2>4 DEF NewRow, NoRow, RowOf, Kinds
  <1> QED
    BY <1>1, <1>2

LEMMA LeaseStep ==
  ASSUME TypeOK, Control, BranchInv, [Next]_vars, NEW i \in Items,
         main[i].holder # None, ~Expired(main[i], now)
  PROVE  main'[i].holder \in {main[i].holder, None}
PROOF
  <1>1. CASE Idles \/ Passes
    BY <1>1 DEF Idles, Passes
  <1>2. CASE Rewrites
    <2>1. PICK k \in Items : main' = [main EXCEPT ![k] = Rewritten(@)]
      BY <1>2 DEF Rewrites
    <2>2. SameButText(main[i], main[i]) => SameButText(main'[i], main[i])
      BY <2>1, RewriteKeepsText DEF TypeOK
    <2> QED
      BY <2>2 DEF SameButText
  <1>3. CASE Commits
    <2>1. PICK o \in Ops, k \in Items, t \in 0..now :
            Allowed(o, k, main, t) /\ main' = Effect(o, k, main, t)
      BY <1>3 DEF Commits
    <2>2. t \in Nat /\ now \in Nat /\ t <= now /\ main \in Table
      BY DEF TypeOK
    <2> QED
      BY <2>1, <2>2, LeaseKept
  <1> QED
    BY <1>1, <1>2, <1>3, StepIs

\* A lease in force changes hands only when it is released or its row deleted: a claim that
\* ran on a branch while the lease had run out cannot be merged over one taken since.
THEOREM LeaseIsKept == Spec => LiveLeaseIsKept
PROOF
  <1>1. TypeOK /\ Control /\ BranchInv /\ [Next]_vars =>
          \A i \in Items : main[i].holder # None /\ ~Expired(main[i], now)
                            => main'[i].holder \in {main[i].holder, None}
    BY LeaseStep
  <1> QED
    BY <1>1, BranchInvariant, PTL DEF Spec, LiveLeaseIsKept

-----------------------------------------------------------------------------
(* The store is a board *)

\* The answer of a call, as the board has it.
Told(said) ==
  CASE said = "ok" -> "yes"
    [] said \in {"refused", "conflict", "busy", "error"} -> "no"
    [] OTHER -> "open"
BoardAnswer == [o \in Ops |-> Told(reply[o])]
Done == {o \in Ops : OnMain(o)}

\* Statements mean on the board what they mean here.
LEMMA BoardRows ==
  /\ Board!EmptyTable = EmptyTable /\ Board!Items = Items
  /\ \A row : Board!Rewritten(row) = Rewritten(row)
  /\ \A o, i, t, table : Board!Allowed(o, i, table, t) <=> Allowed(o, i, table, t)
  /\ \A o, i, t, table : Board!Effect(o, i, table, t) = Effect(o, i, table, t)
PROOF
  <1>1. Board!Items = Items
    BY Zenon DEF Board!Items, Items
  <1>2. \A row : Board!Rewritten(row) = Rewritten(row)
    BY Zenon DEF Board!Rewritten, Rewritten, Board!RowOf, RowOf, Board!Outside, Outside
  <1>3. Board!NoRow = NoRow
    BY Zenon DEF Board!NoRow, NoRow, Board!RowOf, RowOf
  <1>4. Board!EmptyTable = EmptyTable
    BY <1>1, <1>3, Zenon DEF Board!EmptyTable, EmptyTable
  <1>5. \A o : Board!Lease(o) = Lease(o)
    BY Zenon DEF Board!Lease, Lease
  <1>6. \A row, o : Board!Holds(row, o) <=> Holds(row, o)
    BY <1>5 DEF Board!Holds, Holds
  <1>7. \A row, t : Board!Expired(row, t) <=> Expired(row, t)
    BY Zenon DEF Board!Expired, Expired
  <1>8. \A table, i : Board!Present(table, i) <=> Present(table, i)
    BY <1>3, Zenon DEF Board!Present, Present
  <1>9. \A row, o, t : /\ Board!MayClaim(row, o, t) <=> MayClaim(row, o, t)
                       /\ Board!MayHeartbeat(row, o, t) <=> MayHeartbeat(row, o, t)
    BY <1>6, <1>7 DEF Board!MayClaim, MayClaim, Board!MayHeartbeat, MayHeartbeat
  <1>10. \A o, i, t, table : Board!Allowed(o, i, table, t) <=> Allowed(o, i, table, t)
    BY <1>1, <1>6, <1>8, <1>9 DEF Board!Allowed, Allowed
  <1>11. \A o, row, t : Board!NewRow(o, row, t) = NewRow(o, row, t)
    BY <1>3, <1>5, Zenon DEF Board!NewRow, NewRow, Board!RowOf, RowOf
  <1>12. \A o, i, t, table : Board!Effect(o, i, table, t) = Effect(o, i, table, t)
    BY <1>11, Zenon DEF Board!Effect, Effect
  <1> QED
    BY <1>1, <1>2, <1>4, <1>10, <1>12

LEMMA BoardInitIs ==
  /\ now = 0 /\ main = EmptyTable /\ Done = {}
  /\ BoardAnswer = [o \in Ops |-> "open"]
  => Board!Init
PROOF
  BY BoardRows, Zenon DEF Board!Init, Done, BoardAnswer, Told

LEMMA BoardPassIs == now' = now + 1 /\ UNCHANGED <<main, Done, BoardAnswer>> => Board!Pass
PROOF
  BY DEF Board!Pass, Done, BoardAnswer, Told

LEMMA BoardRewriteIs ==
  ASSUME NEW i, main' = [main EXCEPT ![i] = Rewritten(@)], UNCHANGED <<now, Done, BoardAnswer>>
  PROVE  Board!Rewrite(i)
PROOF
  <1>1. Board!Rewritten(main[i]) = Rewritten(main[i])
    BY BoardRows
  <1>2. main' = [main EXCEPT ![i] = Board!Rewritten(@)]
    BY <1>1
  <1> QED
    BY <1>2 DEF Board!Rewrite, Done, BoardAnswer, Told

LEMMA BoardApplyIs ==
  ASSUME NEW o, NEW i, NEW t,
         o \notin Done, BoardAnswer[o] = "open", Target[o] \in {i, None},
         Allowed(o, i, main, t), main' = Effect(o, i, main, t),
         Done' = Done \cup {o}, UNCHANGED <<now, BoardAnswer>>
  PROVE  Board!Apply(o, i, t)
PROOF
  <1>1. Board!Allowed(o, i, main, t) /\ main' = Board!Effect(o, i, main, t)
    BY BoardRows
  <1> QED
    BY <1>1 DEF Board!Apply, Done, BoardAnswer, Told

LEMMA BoardTellIs ==
  ASSUME NEW o, NEW said,
         BoardAnswer[o] = "open", said = "yes" => o \in Done, said = "no" => o \notin Done,
         BoardAnswer' = [BoardAnswer EXCEPT ![o] = said], UNCHANGED <<now, main, Done>>
  PROVE  Board!Tell(o, said)
PROOF
  BY DEF Board!Tell, Done, BoardAnswer, Told

LEMMA ToldIs ==
  ASSUME NEW said \in Replies
  PROVE  /\ Told(said) \in {"yes", "no", "open"}
         /\ Told(said) = "yes" <=> said = "ok"
         /\ Told(said) = "no" <=> said \in Clean
PROOF
  <1>1. CASE said = "ok"
    BY <1>1 DEF Told, Clean
  <1>2. CASE said \in Clean
    BY <1>2 DEF Told, Clean
  <1>3. CASE said # "ok" /\ said \notin Clean
    BY <1>3 DEF Told, Clean
  <1> QED
    BY <1>1, <1>2, <1>3

\* Steps that leave main alone, answers aside, tell the truth or nothing.
LEMMA IdlesTell ==
  ASSUME TypeOK, TypeOK', Control', Idles PROVE [Board!Next]_Board!boardVars
PROOF
  <1>1. UNCHANGED <<now, main, log>> /\ AnswersOne
    BY DEF Idles
  <1>2. Done' = Done
    BY <1>1 DEF Done, OnMain
  <1>3. CASE BoardAnswer' = BoardAnswer
    <2>1. UNCHANGED <<now, main, Done, BoardAnswer>>
      BY <1>1, <1>2, <1>3
    <2> QED
      BY <2>1 DEF Board!boardVars, Done, BoardAnswer, Told
  <1>4. CASE BoardAnswer' # BoardAnswer
    <2>1. reply' # reply
      BY <1>4 DEF BoardAnswer
    <2>2. PICK o \in Ops : /\ reply[o] \in {"none", "running"}
                           /\ \A x \in Ops \ {o} : reply'[x] = reply[x]
      BY <1>1, <2>1 DEF AnswersOne
    <2>3. reply[o] \in Replies /\ reply'[o] \in Replies
      BY DEF TypeOK
    <2>4. BoardAnswer[o] = "open"
      BY <2>2, <2>3, ToldIs DEF BoardAnswer, Clean
    <2>5. BoardAnswer' = [BoardAnswer EXCEPT ![o] = Told(reply'[o])]
      BY <2>2 DEF BoardAnswer
    <2>6. Told(reply'[o]) \in {"yes", "no"}
      <3>1. CASE Told(reply'[o]) = "open"
        <4>1. BoardAnswer' = BoardAnswer
          BY <2>4, <2>5, <3>1 DEF BoardAnswer
        <4> QED
          BY <1>4, <4>1
      <3> QED
        BY <2>3, <3>1, ToldIs
    <2>7. PICK said \in {"yes", "no"} : said = Told(reply'[o])
      BY <2>6
    <2>8. /\ said = "yes" => Has(log', o)
          /\ said = "no" => ~Has(log', o)
      BY <2>3, <2>7, ToldIs DEF Control, Truthful
    <2>9. /\ said = "yes" => o \in Done
          /\ said = "no" => o \notin Done
      BY <1>1, <2>8, OnMainHas DEF Done
    <2>10. Board!Tell(o, said)
      BY <1>1, <1>2, <2>4, <2>5, <2>7, <2>9, BoardTellIs
    <2> QED
      BY <2>10 DEF Board!Next
  <1> QED
    BY <1>3, <1>4

\* A merge that commits is the call's effect on the board.
LEMMA CommitsApply ==
  ASSUME TypeOK, TypeOK', Commits PROVE [Board!Next]_Board!boardVars
PROOF
  <1>1. PICK o \in Ops, i \in Items, t \in 0..now :
          /\ ~Has(log, o) /\ log' = Append(log, o)
          /\ reply[o] \in {"running", "unknown", "lost"}
          /\ Target[o] \in {i, None}
          /\ Allowed(o, i, main, t) /\ main' = Effect(o, i, main, t)
          /\ now' = now
          /\ \A x \in Ops : \/ reply'[x] = reply[x]
                            \/ reply[x] = "running" /\ reply'[x] \in {"unknown", "lost"}
    BY DEF Commits
  <1>2. o \notin Done
    BY <1>1, OnMainHas DEF Done
  <1>3. Done' = Done \cup {o}
    <2>1. log \in Seq(Ops)
      BY DEF TypeOK
    <2>2. \A x : Has(log', x) <=> Has(log, x) \/ x = o
      BY <1>1, <2>1, HasAppend
    <2>3. \A x : /\ OnMain(x) <=> Has(log, x)
                 /\ OnMain(x)' <=> Has(log', x)
      BY DEF OnMain, Has
    <2> QED
      BY <2>2, <2>3 DEF Done
  <1>4. BoardAnswer[o] = "open"
    <2>1. reply[o] \in Replies
      BY DEF TypeOK
    <2> QED
      BY <1>1, <2>1, ToldIs DEF BoardAnswer, Clean
  <1>5. BoardAnswer' = BoardAnswer
    <2>1. ASSUME NEW x \in Ops PROVE Told(reply'[x]) = Told(reply[x])
      <3>1. reply[x] \in Replies /\ reply'[x] \in Replies
        BY DEF TypeOK
      <3> QED
        BY <1>1, <3>1, ToldIs DEF Clean
    <2> QED
      BY <2>1 DEF BoardAnswer
  <1>6. Board!Apply(o, i, t)
    BY <1>1, <1>2, <1>3, <1>4, <1>5, BoardApplyIs
  <1>7. i \in Board!Items
    BY BoardRows
  <1> QED
    BY <1>6, <1>7 DEF Board!Next

LEMMA BoardStep ==
  ASSUME TypeOK, Control, BranchInv, [Next]_vars PROVE [Board!Next]_Board!boardVars
PROOF
  <1>1. TypeOK' /\ Control'
    BY NextControl
  <1>2. CASE Passes
    <2>1. now' = now + 1 /\ UNCHANGED <<main, Done, BoardAnswer>>
      BY <1>2 DEF Passes, Done, OnMain, BoardAnswer
    <2>2. Board!Pass
      BY <2>1, BoardPassIs
    <2> QED
      BY <2>2 DEF Board!Next
  <1>3. CASE Rewrites
    <2>1. PICK i \in Items : main' = [main EXCEPT ![i] = Rewritten(@)]
      BY <1>3 DEF Rewrites
    <2>2. UNCHANGED <<now, Done, BoardAnswer>>
      BY <1>3 DEF Rewrites, Done, OnMain, BoardAnswer
    <2>3. Board!Rewrite(i) /\ i \in Board!Items
      BY <2>1, <2>2, BoardRewriteIs, BoardRows
    <2> QED
      BY <2>3 DEF Board!Next
  <1> QED
    BY <1>1, <1>2, <1>3, StepIs, IdlesTell, CommitsApply

LEMMA BoardInit == Init => Board!Init
PROOF
  <1> SUFFICES ASSUME Init PROVE Board!Init
    OBVIOUS
  <1>1. now = 0 /\ main = EmptyTable /\ log = <<>> /\ \A o \in Ops : reply[o] = "none"
    BY DEF Init
  <1>2. Done = {}
    BY <1>1 DEF Done, OnMain
  <1>3. Told("none") = "open"
    BY DEF Told
  <1>4. BoardAnswer = [o \in Ops |-> "open"]
    BY <1>1, <1>3 DEF BoardAnswer
  <1> QED
    BY <1>1, <1>2, <1>4, BoardInitIs

\* Seen through main and the answers, the store is a board on which calls take effect one at a
\* time, each on rows it may change then, and are answered truthfully.
THEOREM StoreIsBoard == Spec => ImplementsWorkBoard
PROOF
  <1>1. Init => Board!Init
    BY BoardInit
  <1>2. TypeOK /\ Control /\ BranchInv /\ [Next]_vars => [Board!Next]_Board!boardVars
    BY BoardStep
  <1> QED
    BY <1>1, <1>2, BranchInvariant, PTL DEF Spec, ImplementsWorkBoard, Board!Spec

=============================================================================
