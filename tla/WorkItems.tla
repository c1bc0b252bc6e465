----------------------------- MODULE WorkItems -----------------------------
(***************************************************************************)
(* The work-item store: every call of the adapter takes the global         *)
(* advisory lock, repairs what an earlier call left behind, runs its       *)
(* statement on a branch of its own and merges the branch into main.       *)
(*                                                                         *)
(* Each query is an action.  Any of them may time out or lose its          *)
(* connection, applied or not; the session of a lost connection keeps the  *)
(* lock, and may still run the query it was sent, until the server ends    *)
(* it.  The server may also end a session its process believes in.  A      *)
(* process may die at any query.  Knowledge contributions merge into the   *)
(* same main, and another writer of the table (the importer, an operator's *)
(* SQL) commits there, without the lock.                                   *)
(***************************************************************************)
EXTENDS WorkItemRows, Sequences, FiniteSets

CONSTANTS
  Processes,    \* server processes, each with its adapter
  MergeRetries, \* MERGE_RETRIES
  MaxTime,      \* bound of the clock
  MaxFaults,    \* bound: queries that fail, processes that restart
  MaxForeign    \* bound: commits of others, merges of contributions

Contribution == "contribution"
Dead == "dead"

ASSUME WorkItemsAssumption ==
  /\ MergeRetries \in Nat \ {0}
  /\ MaxTime \in Nat /\ MaxFaults \in Nat /\ MaxForeign \in Nat
  /\ None \notin Processes /\ Dead \notin Processes
  /\ Contribution \notin Ops /\ None # Contribution /\ None # Dead

VARIABLES
  now,      \* the clock of the database
  main,     \* work_items on main
  log,      \* the calls whose commits main has, in order
  merging,  \* the merge main is in the middle of: a call's branch or Contribution
  branches, \* work-item-op/ branches that exist, by call
  lock,     \* the session that has the advisory lock: a process's, or Dead
  sessions, \* processes whose session lives
  late,     \* the merge a dead session may still run
  proc,     \* the local state of each process
  reply,    \* what each call was answered
  faults, foreign

vars == <<now, main, log, merging, branches, lock, sessions, late, proc, reply,
          faults, foreign>>
store == <<main, log, merging, branches>>
held == <<lock, sessions>>
bounds == <<faults, foreign>>

Replies == {"none", "running", "ok", "unchanged", "refused", "conflict",
            "busy", "error", "unknown", "lost"}

(* A branch: the table it was cut from and the table it was committed with.*)
Branch(base, table) == [base |-> base, table |-> table]
NoBranch == Branch(EmptyTable, EmptyTable)

PCs == {"idle", "lock", "reconcile", "sweep", "branch", "merge", "prove", "unlock"}
At(pc, op, attempt, branch, answer, poisoned) ==
  [pc |-> pc, op |-> op, attempt |-> attempt, branch |-> branch,
   answer |-> answer, poisoned |-> poisoned]
Idle(poisoned) == At("idle", None, 0, NoBranch, "none", poisoned)

Local ==
  [pc : PCs, op : Ops \cup {None}, attempt : 0 .. MergeRetries,
   branch : [base : Table, table : Table],
   answer : Replies \cup {"retry", "disputed"}, poisoned : BOOLEAN]

TypeOK ==
  /\ now \in 0 .. MaxTime
  /\ main \in Table
  /\ log \in Seq(Ops)
  /\ merging \in Ops \cup {None, Contribution}
  /\ branches \subseteq Ops
  /\ lock \in Processes \cup {None, Dead} /\ sessions \subseteq Processes
  /\ \/ late = None
     \/ late \in [op : Ops, branch : [base : Table, table : Table]]
  /\ proc \in [Processes -> Local]
  /\ reply \in [Ops -> Replies]
  /\ faults \in 0 .. MaxFaults /\ foreign \in 0 .. MaxForeign

Init ==
  /\ now = 0
  /\ main = EmptyTable /\ log = <<>> /\ merging = None /\ branches = {}
  /\ lock = None /\ sessions = {} /\ late = None
  /\ proc = [p \in Processes |-> Idle(FALSE)]
  /\ reply = [o \in Ops |-> "none"]
  /\ faults = 0 /\ foreign = 0

-----------------------------------------------------------------------------
(* The store: three-way merges, cell by cell, and other writers of main.   *)

Disputed(base, mine, theirs) ==
  \E i \in Items : \E c \in DOMAIN base[i] :
    /\ mine[i][c] # base[i][c] /\ theirs[i][c] # base[i][c]
    /\ mine[i][c] # theirs[i][c]
Merged(base, mine, theirs) ==
  [i \in Items |-> [c \in DOMAIN base[i] |->
     IF mine[i][c] = base[i][c] THEN theirs[i][c] ELSE mine[i][c]]]

Mergeable(b) == merging = None /\ ~Disputed(b.base, b.table, main)
MergeCommits(o, b) ==
  /\ Mergeable(b) /\ o \in branches
  /\ main' = Merged(b.base, b.table, main)
  /\ log' = Append(log, o)
  /\ UNCHANGED <<merging, branches>>

(* A disputed merge is left open on main, or rolled back by the server.    *)
MergeDisputed(o, b) ==
  /\ merging = None /\ o \in branches /\ Disputed(b.base, b.table, main)
  /\ merging' \in {o, None}
  /\ UNCHANGED <<main, log, branches>>

Tick ==
  /\ now < MaxTime
  /\ now' = now + 1
  /\ UNCHANGED <<store, held, late, proc, reply, bounds>>

OthersOnly == UNCHANGED <<now, log, branches, held, late, proc, reply, faults>>

WriteOutside(i) ==
  /\ merging = None /\ foreign < MaxForeign
  /\ foreign' = foreign + 1
  /\ main' = [main EXCEPT ![i] = Rewritten(@)]
  /\ OthersOnly /\ UNCHANGED merging

(* A contribution whose merge is disputed is open on main until its abort. *)
ContributionMerges ==
  /\ merging = None /\ foreign < MaxForeign
  /\ foreign' = foreign + 1
  /\ merging' = Contribution
  /\ OthersOnly /\ UNCHANGED main

ContributionAborts ==
  /\ merging = Contribution
  /\ merging' = None
  /\ OthersOnly /\ UNCHANGED <<main, foreign>>

-----------------------------------------------------------------------------
(* A call, up to its statement.                                             *)

Fault == faults < MaxFaults /\ faults' = faults + 1 /\ UNCHANGED foreign
NoFault == UNCHANGED bounds
Goto(p, pc) == proc' = [proc EXCEPT ![p].pc = pc]
Release(p, answer) ==
  proc' = [proc EXCEPT ![p] =
    At("unlock", @.op, @.attempt, NoBranch, answer, @.poisoned)]
SessionOver(p, holder) ==
  /\ sessions' = sessions \ {p}
  /\ lock' = IF lock = p THEN holder ELSE lock
Answer(p, answer) == reply' = [reply EXCEPT ![proc[p].op] = answer]

(* One call at a time; a poisoned adapter refuses them all.                *)
Serves(p) == proc[p].pc = "idle" /\ ~proc[p].poisoned

Call(p, o) ==
  /\ reply[o] = "none"
  /\ IF Serves(p)
     THEN /\ reply' = [reply EXCEPT ![o] = "running"]
          /\ proc' = [proc EXCEPT ![p] = At("lock", o, 1, NoBranch, "none", FALSE)]
     ELSE reply' = [reply EXCEPT ![o] = "busy"] /\ UNCHANGED proc
  /\ UNCHANGED <<now, store, held, late, bounds>>

LockFree_Always == TRUE
LockFree == lock = None
InSession == {"reconcile", "sweep", "branch", "merge", "prove"}

AcquireLock(p) ==
  /\ proc[p].pc = "lock" /\ LockFree
  /\ lock' = p /\ sessions' = sessions \cup {p}
  /\ Goto(p, "reconcile")
  /\ UNCHANGED <<now, store, late, reply, bounds>>

LockTimeout_Never(p) == FALSE
LockTimeout(p) ==
  /\ proc[p].pc = "lock" /\ lock # None
  /\ proc' = [proc EXCEPT ![p] = Idle(FALSE)]
  /\ Answer(p, "busy")
  /\ UNCHANGED <<now, store, held, late, bounds>>

(* reconcileUnderLock: a merge of the adapter's own is aborted, another's  *)
(* is refused; then every operation branch goes.                           *)
Reconcile(p) ==
  /\ proc[p].pc = "reconcile" /\ p \in sessions
  /\ IF merging = Contribution
     THEN Release(p, "error") /\ UNCHANGED merging
     ELSE merging' = None /\ Goto(p, "sweep")
  /\ UNCHANGED <<now, main, log, branches, held, late, reply, bounds>>

Sweep(p) ==
  /\ proc[p].pc = "sweep" /\ p \in sessions
  /\ branches' = {}
  /\ Goto(p, "branch")
  /\ UNCHANGED <<now, main, log, merging, held, late, reply, bounds>>

(* The branch is cut from main, the statement runs there and is committed. *)
(* A patch pushes its bookkeeping columns every time it runs, so on a      *)
(* second attempt the statement assigns them twice and may be rejected.    *)
RunOnBranch(p) ==
  LET o == proc[p].op  i == IdOf(o, main) IN
  /\ proc[p].pc = "branch" /\ p \in sessions
  /\ branches' = branches \cup {o}
  /\ \/ NothingToDo(o, main) /\ Release(p, "unchanged")
     \/ /\ ~NothingToDo(o, main)
        /\ \/ ~Allowed(o, i, main, now)
           \/ Kind[o] = "patch" /\ proc[p].attempt > 1
        /\ Release(p, "refused")
     \/ /\ ~NothingToDo(o, main) /\ Allowed(o, i, main, now)
        /\ proc' = [proc EXCEPT ![p] =
             At("merge", o, @.attempt, Branch(main, Effect(o, i, main, now)), "none", FALSE)]
  /\ UNCHANGED <<now, main, log, merging, held, late, reply, bounds>>

-----------------------------------------------------------------------------
(* The merge and what its answer proves.                                    *)

Prove(p, answer) ==
  proc' = [proc EXCEPT ![p] = At("prove", @.op, @.attempt, @.branch, answer, FALSE)]

Merge(p) ==
  LET o == proc[p].op  b == proc[p].branch IN
  /\ proc[p].pc = "merge" /\ p \in sessions
  /\ \/ MergeCommits(o, b) /\ Release(p, "ok") /\ NoFault
     \/ MergeDisputed(o, b) /\ Prove(p, "disputed") /\ NoFault
     \/ merging # None /\ UNCHANGED store /\ Prove(p, "error") /\ NoFault
     \/ MergeCommits(o, b) /\ Prove(p, "error") /\ Fault
     \/ UNCHANGED store /\ Prove(p, "error") /\ Fault
  /\ UNCHANGED <<now, held, late, reply>>

(* branchCommitIsOnMain decides whether the merge took place; if it did    *)
(* not, a merge of this branch left open is aborted and the call retried.  *)
OnMain(o) == \E n \in DOMAIN log : log[n] = o
Proven_Replay(o, answer) == IF merging = Contribution THEN "error" ELSE "retry"
Proven_Assumed(o, answer) == "ok"
Proven(o, answer) ==
  CASE OnMain(o)                              -> "ok"
    [] ~OnMain(o) /\ merging = Contribution   -> "error"
    [] OTHER -> IF merging = o \/ answer = "disputed" THEN "retry" ELSE "error"

ProveMerge(p) ==
  LET o == proc[p].op IN
  /\ proc[p].pc = "prove" /\ p \in sessions
  /\ merging' = IF ~OnMain(o) /\ merging = o THEN None ELSE merging
  /\ Release(p, Proven(o, proc[p].answer))
  /\ UNCHANGED <<now, main, log, branches, held, late, reply, bounds>>

(* The proof fails on a connection that lives: the adapter is poisoned.    *)
ProofFails(p) ==
  /\ proc[p].pc = "prove" /\ p \in sessions
  /\ Fault
  /\ proc' = [proc EXCEPT ![p] =
       At("unlock", @.op, @.attempt, NoBranch, "unknown", TRUE)]
  /\ UNCHANGED <<now, store, held, late, reply>>

-----------------------------------------------------------------------------
(* The end of a call.                                                       *)

AfterRetry_Unbounded(w) ==
  At("lock", w.op, w.attempt + 1, NoBranch, "none", FALSE)
AfterRetry(w) ==
  IF w.attempt < MergeRetries
  THEN At("lock", w.op, w.attempt + 1, NoBranch, "none", FALSE)
  ELSE Idle(w.poisoned)
FinalAnswer(w) ==
  IF w.answer # "retry" THEN w.answer
  ELSE IF w.attempt = MergeRetries THEN "conflict" ELSE "running"

End(p, poisoned) ==
  LET w == proc[p] IN
  /\ proc' = [proc EXCEPT ![p] =
       IF w.answer = "retry" THEN AfterRetry(w) ELSE Idle(poisoned)]
  /\ Answer(p, FinalAnswer(w))

(* Whether the branch could be deleted makes no difference to the answer.  *)
Unlock(p) ==
  /\ proc[p].pc = "unlock" /\ p \in sessions
  /\ SessionOver(p, None)
  /\ branches' \in {branches, branches \ {proc[p].op}}
  /\ End(p, proc[p].poisoned)
  /\ UNCHANGED <<now, main, log, merging, late, bounds>>

(* The session that may still have the lock is terminated and replaced by  *)
(* a new client, which clears the poison.                                  *)
UnlockFails(p) ==
  /\ proc[p].pc = "unlock" /\ p \in sessions
  /\ Fault
  /\ SessionOver(p, Dead)
  /\ End(p, FALSE)
  /\ UNCHANGED <<now, store, late>>

(* What a query whose connection is lost may have done to the store: any   *)
(* part of it; a merge may also be run later.                              *)
LostQuery(p) ==
  LET o == proc[p].op  b == proc[p].branch IN
  \/ UNCHANGED <<store, late>>
  \/ /\ proc[p].pc = "reconcile" /\ merging # Contribution
     /\ merging' = None /\ UNCHANGED <<main, log, branches, late>>
  \/ /\ proc[p].pc = "sweep" /\ branches' \in SUBSET branches
     /\ UNCHANGED <<main, log, merging, late>>
  \/ /\ proc[p].pc = "branch" /\ branches' = branches \cup {o}
     /\ UNCHANGED <<main, log, merging, late>>
  \/ /\ proc[p].pc = "merge"
     /\ MergeCommits(o, b) \/ MergeDisputed(o, b)
     /\ UNCHANGED late
  \/ /\ proc[p].pc = "merge" /\ late' = [op |-> o, branch |-> b]
     /\ UNCHANGED store
  \/ /\ proc[p].pc = "prove" /\ ~OnMain(o) /\ merging = o /\ merging' = None
     /\ UNCHANGED <<main, log, branches, late>>

(* The call ends as busy, but for a merge, or its proof, nobody knows of.  *)
(* Such an adapter is poisoned until its process restarts.                 *)
WhenLost_Busy(pc) == "busy"
WhenLost(pc) == IF pc \in {"merge", "prove"} THEN "unknown" ELSE "busy"
EndLost(p) ==
  /\ Answer(p, WhenLost(proc[p].pc))
  /\ proc' = [proc EXCEPT ![p] = Idle(@.pc \in {"merge", "prove"})]

ConnectionLost(p) ==
  /\ proc[p].pc \in InSession /\ p \in sessions
  /\ Fault
  /\ SessionOver(p, Dead)
  /\ LostQuery(p)
  /\ \/ EndLost(p)
     \/ /\ proc[p].pc = "prove" /\ ~OnMain(proc[p].op) \* lost in the abort
        /\ Answer(p, "busy")
        /\ proc' = [proc EXCEPT ![p] = Idle(FALSE)]
  /\ UNCHANGED now

(* The server ends the session of a process that notices at its next query.*)
SessionDies(p) ==
  /\ p \in sessions
  /\ Fault
  /\ SessionOver(p, None)
  /\ UNCHANGED <<now, store, late, proc, reply>>

NoticeLoss(p) ==
  /\ p \notin sessions
  /\ \/ proc[p].pc \in InSession /\ EndLost(p)
     \/ proc[p].pc = "unlock" /\ End(p, FALSE)
  /\ UNCHANGED <<now, store, held, late, bounds>>

ConnectFails(p) ==
  /\ proc[p].pc = "lock"
  /\ Fault
  /\ Answer(p, "busy")
  /\ proc' = [proc EXCEPT ![p] = Idle(FALSE)]
  /\ UNCHANGED <<now, store, held, late>>

Crash(p) ==
  /\ proc[p].pc # "idle"
  /\ Fault
  /\ proc' = [proc EXCEPT ![p] = Idle(FALSE)]
  /\ Answer(p, "lost")
  /\ \/ p \in sessions /\ SessionOver(p, Dead) /\ LostQuery(p)
     \/ p \notin sessions /\ UNCHANGED <<store, held, late>>
  /\ UNCHANGED now

(* A process is restarted because its adapter refuses every call. *)
RestartPoisoned(p) ==
  /\ proc[p].pc = "idle" /\ proc[p].poisoned
  /\ proc' = [proc EXCEPT ![p] = Idle(FALSE)]
  /\ UNCHANGED <<now, store, held, late, reply, bounds>>

(* The server runs the merge a dead session left it, and ends the session. *)
LateMerge ==
  /\ late # None
  /\ MergeCommits(late.op, late.branch) \/ MergeDisputed(late.op, late.branch)
  /\ late' = None
  /\ UNCHANGED <<now, held, proc, reply, bounds>>

SessionEnds ==
  /\ lock = Dead
  /\ lock' = None /\ late' = None
  /\ UNCHANGED <<now, store, sessions, proc, reply, bounds>>

-----------------------------------------------------------------------------
Step(p) ==
  \/ AcquireLock(p) \/ LockTimeout(p) \/ Reconcile(p) \/ Sweep(p)
  \/ RunOnBranch(p) \/ Merge(p) \/ ProveMerge(p) \/ Unlock(p) \/ NoticeLoss(p)

Next ==
  \/ Tick \/ ContributionMerges \/ ContributionAborts
  \/ LateMerge \/ SessionEnds
  \/ \E i \in Items : WriteOutside(i)
  \/ \E p \in Processes, o \in Ops : Call(p, o)
  \/ \E p \in Processes :
       Step(p) \/ ProofFails(p) \/ UnlockFails(p) \/ ConnectionLost(p)
         \/ SessionDies(p) \/ ConnectFails(p) \/ Crash(p) \/ RestartPoisoned(p)

Spec == Init /\ [][Next]_vars

(* A process runs on: every query is answered or times out. *)
FairSpec == Spec /\ \A p \in Processes : WF_vars(Step(p))

-----------------------------------------------------------------------------
(* Properties *)

(* However often a call is retried, and however late a lost merge runs,    *)
(* main has its effect once.                                               *)
AppliedOnce ==
  \A m, n \in DOMAIN log : log[m] = log[n] => m = n

(* A call that is answered as refused, busy, in conflict or failed has     *)
(* left no trace and never will: its caller may safely ask again.          *)
RefusalLeavesNoTrace ==
  \A o \in Ops : reply[o] \in {"refused", "conflict", "busy", "error"} =>
    /\ ~OnMain(o)
    /\ late # None => late.op # o

(* A call that was answered with its row is on main, branches and merges   *)
(* lost along the way notwithstanding.                                     *)
SuccessIsOnMain == \A o \in Ops : reply[o] = "ok" => OnMain(o)

(* While a call is about to merge, no other process's repair has taken its *)
(* branch away.                                                            *)
NoBranchSweptAway ==
  \A p \in Processes :
    p \in sessions /\ proc[p].pc = "merge" => proc[p].op \in branches

(* A lease in force changes hands only when its holder releases it or the  *)
(* owner deletes the item.                                                 *)
LiveLeaseIsKept ==
  [][\A i \in Items :
       main[i].holder # None /\ ~Expired(main[i], now)
         => main'[i].holder \in {main[i].holder, None}]_vars

(* Every call is answered, whoever has the lock and whatever merge is open.*)
CallsEnd == \A o \in Ops : reply[o] = "running" ~> reply[o] # "running"

(* Locks, branches and retries aside, the store is a board on which calls  *)
(* take effect one at a time.                                              *)
Board == INSTANCE WorkBoard WITH
  table <- main,
  done <- {o \in Ops : OnMain(o)},
  answer <- [o \in Ops |->
    CASE reply[o] = "ok" -> "yes"
      [] reply[o] \in {"refused", "conflict", "busy", "error"} -> "no"
      [] OTHER -> "open"]
ImplementsWorkBoard == Board!Spec

=============================================================================
