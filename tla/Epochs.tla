------------------------------- MODULE Epochs -------------------------------
(***************************************************************************)
(* Attribution epochs: receipts of contributions arrive, collection passes *)
(* select them into the epoch of the current window and name a claimant of *)
(* each, approvers close the epoch for review, adjust it, sign what it     *)
(* would pay and finalize it. Every step is one transaction or one read of *)
(* the store, so passes and requests interleave between their steps.       *)
(***************************************************************************)
EXTENDS Integers, FiniteSets, FiniteSetsExt, Functions, Shares

CONSTANTS
  MaxWindow,      \* windows follow each other from 1 to this one
  Receipts,       \* receipts, numbered in the order of their events
  Author,         \* of each receipt, a number that orders the authors' keys
  Shows,          \* the receipts without which the policy excludes a receipt
  Weight,         \* units of each receipt
  Components,     \* of a pool, "base" among them
  Credits,        \* of each component
  OverrideUnits,  \* what an approver may set instead of the weight
  Approvers,      \* pinned by the reviews
  Passes,         \* collection passes that may run at a time
  MaxEvents,      \* bounds the requests of approvers and the deaths of passes
  MaxDeaths,      \* bounds the passes that die
  None

ASSUME EpochsAssumption ==
  /\ MaxWindow \in Nat \ {0}
  /\ Receipts \subseteq Nat /\ IsFiniteSet(Receipts)
  /\ Author \in [Receipts -> Nat] /\ Shows \in [Receipts -> SUBSET Receipts]
  /\ Weight \in [Receipts -> Nat] /\ OverrideUnits \subseteq Nat
  /\ IsFiniteSet(Components) /\ "base" \in Components
  /\ Credits \in [Components -> Nat]
  /\ {MaxEvents, MaxDeaths} \subseteq Nat
  /\ None \notin OverrideUnits /\ None \notin {"identity", "user"}

VARIABLES
  window,      \* the one the clock is in
  arrived,     \* receipts delivered
  bound,       \* authors with a user account bound to them
  epoch,       \* of each window: its status and the artifacts of its review
  selection,   \* of each window, a row for some receipts
  claimants,   \* of each window, the draft and the locked row of receipts
  pool,        \* of each window, its components
  overrides,   \* of each window, units set in the review
  statement,   \* of each window, what it pays, once finalized
  signatures,  \* on each statement, by approver
  pass,        \* each running pass: what it is at and has read
  desk,        \* the request each approver has under way, or the message signed
  asks, deaths

world == <<window, arrived, bound>>
rows == <<selection, claimants>>
book == <<statement, signatures>>
vars == <<world, epoch, rows, pool, overrides, book, pass, desk, asks, deaths>>

Windows == 1..MaxWindow
MoreEvents == asks + deaths < MaxEvents
Authors == Range(Author)

NoClaimant == [draft |-> None, locked |-> None]
Resting == [at |-> "idle"]

Init ==
  /\ window = 1 /\ arrived = {} /\ bound = {}
  /\ epoch = [w \in Windows |-> [status |-> "none", artifacts |-> None]]
  /\ selection = [w \in Windows |-> [r \in Receipts |-> None]]
  /\ claimants = [w \in Windows |-> [r \in Receipts |-> NoClaimant]]
  /\ pool = [w \in Windows |-> {}]
  /\ overrides = [w \in Windows |-> [r \in Receipts |-> None]]
  /\ statement = [w \in Windows |-> None]
  /\ signatures = [w \in Windows |-> [a \in Approvers |-> None]]
  /\ pass = [p \in Passes |-> Resting]
  /\ desk = [a \in Approvers |-> Resting]
  /\ asks = 0 /\ deaths = 0

-----------------------------------------------------------------------------
(* The world: time, deliveries, people who sign in *)

NextWindow ==
  /\ window < MaxWindow
  /\ window' = window + 1
  /\ UNCHANGED <<arrived, bound, epoch, rows, pool, overrides, book, pass, desk,
                 asks, deaths>>

Deliver(r) ==
  /\ r \notin arrived
  /\ arrived' = arrived \cup {r}
  /\ UNCHANGED <<window, bound, epoch, rows, pool, overrides, book, pass, desk,
                 asks, deaths>>

Bind(b) ==
  /\ b \notin bound
  /\ bound' = bound \cup {b}
  /\ UNCHANGED <<window, arrived, epoch, rows, pool, overrides, book, pass,
                 desk, asks, deaths>>

-----------------------------------------------------------------------------
(* Closing an epoch: its review *)

Status(w) == epoch[w].status
Opened == {w \in Windows : Status(w) = "open"}
Selected(w) == {r \in Receipts : selection[w][r] # None}
Counted(w) == {r \in Selected(w) : selection[w][r].in}

(* What the evaluations of the profile's enricher amount to. *)
Artifacts(w) ==
  [receipts |-> Selected(w),
   byUser   |-> [b \in Authors |-> Cardinality(
                   {r \in Selected(w) : selection[w][r].user /\ Author[r] = b})]]

(* Locking turns drafts into locked rows, of which a receipt has one. *)
Lockable(w) ==
  \A r \in Receipts : claimants[w][r].draft = None \/ claimants[w][r].locked = None
Lock(w) ==
  [claimants EXCEPT ![w] =
     [r \in Receipts |->
        IF claimants[w][r].draft = None
        THEN claimants[w][r]
        ELSE [draft |-> None, locked |-> claimants[w][r].draft]]]
Missing(w) == {r \in Counted(w) : claimants[w][r] = NoClaimant}

ToReview_Unhashed(w, artifacts) == [epoch[w] EXCEPT !.status = "review"]
ToReview(w, artifacts) ==
  IF Status(w) = "open" THEN [status |-> "review", artifacts |-> artifacts]
  ELSE epoch[w]

-----------------------------------------------------------------------------
(* A collection pass *)

Move(p, to) == pass' = [pass EXCEPT ![p] = to]
At(p, place) == pass[p].at = place
Ends(p) == Move(p, Resting)

(* An open epoch of another window is stale. *)
PassStart(p) ==
  /\ At(p, "idle")
  /\ IF Opened \subseteq {window}
     THEN Move(p, [at |-> "ensure", w |-> window])
     ELSE \E v \in Opened : Move(p, [at |-> "build", w |-> window, stale |-> v])
  /\ UNCHANGED <<world, epoch, rows, pool, overrides, book, desk, asks,
                 deaths>>

PassBuild(p) ==
  /\ At(p, "build")
  /\ Move(p, [at |-> "transition", w |-> pass[p].w, stale |-> pass[p].stale,
              artifacts |-> Artifacts(pass[p].stale)])
  /\ UNCHANGED <<world, epoch, rows, pool, overrides, book, desk, asks,
                 deaths>>

(* A pass goes on only in an open epoch. *)
Enter(p, w) ==
  IF Status(w) \in {"none", "open"} THEN Move(p, [at |-> "read", w |-> w])
  ELSE Ends(p)

PassTransition(p) ==
  LET w      == pass[p].w
      v      == pass[p].stale
      closed == [epoch EXCEPT ![v] = ToReview(v, pass[p].artifacts)]
      refused == ~Lockable(v) \/ Missing(v) # {} \/ Opened \ {v} # {}
  IN
  /\ At(p, "transition")
  /\ \/ /\ Status(w) # "none"
        /\ Enter(p, w)
        /\ UNCHANGED <<epoch, claimants>>
     \/ /\ Status(w) = "none" /\ refused
        /\ Ends(p)
        /\ UNCHANGED <<epoch, claimants>>
     \/ /\ Status(w) = "none" /\ ~refused
        /\ claimants' = Lock(v)
        /\ epoch' = [closed EXCEPT ![w].status = "open"]
        /\ Enter(p, w)
  /\ UNCHANGED <<world, selection, pool, overrides, book, desk, asks, deaths>>

(* A second open epoch is refused by the index epochs_one_open_per_node. *)
PassEnsure(p) ==
  LET w == pass[p].w IN
  /\ At(p, "ensure")
  /\ IF Status(w) = "none" /\ Opened = {}
     THEN epoch' = [epoch EXCEPT ![w].status = "open"]
     ELSE UNCHANGED epoch
  /\ IF Status(w) = "none" /\ Opened # {} THEN Ends(p) ELSE Enter(p, w)
  /\ UNCHANGED <<world, rows, pool, overrides, book, desk, asks, deaths>>

(* Receipts without a row here, or one without a user, that no other epoch *)
(* has selected.                                                           *)
Candidates(w) ==
  {r \in arrived :
     /\ r \in Selected(w) => ~selection[w][r].user
     /\ \A v \in Windows \ {w} : r \notin Selected(v)}

PassCandidates(p) ==
  LET w == pass[p].w
      todo == Candidates(w)
  IN
  /\ At(p, "read")
  /\ Move(p, [at |-> IF todo = {} THEN "pool" ELSE "select", w |-> w,
              todo |-> todo,
              known |-> todo \cap Selected(w),
              included |-> {r \in todo : Shows[r] \subseteq arrived},
              resolved |-> {r \in todo : Author[r] \in bound}])
  /\ UNCHANGED <<world, epoch, rows, pool, overrides, book, desk, asks,
                 deaths>>

(* The receipt in hand, and the step after it. *)
InHand(p) == Min(pass[p].todo)
Done(p) ==
  LET rest == pass[p].todo \ {InHand(p)} IN
  Move(p, [pass[p] EXCEPT !.todo = rest, !.at = IF rest = {} THEN "pool" ELSE "select"])

(* Only what the policy includes gets a claimant. *)
Claims_NewRows(p, r) == r \in pass[p].included \ pass[p].known
Claims(p, r) == r \in pass[p].included
Onward(p) ==
  IF Claims(p, InHand(p)) THEN Move(p, [pass[p] EXCEPT !.at = "claim"]) ELSE Done(p)

(* A trigger of the database freezes the selection of a finalized epoch. It *)
(* reads the status without a lock before the row is written: the epoch may *)
(* be finalized in between.                                                 *)
Frozen_Never(w) == FALSE
Frozen(w) == Status(w) = "finalized"
Trigger(p, write) ==
  IF Frozen(pass[p].w) THEN Ends(p) ELSE Move(p, [pass[p] EXCEPT !.at = write])

PassSelect(p) ==
  /\ At(p, "select")
  /\ Trigger(p, "write")
  /\ UNCHANGED <<world, epoch, rows, pool, overrides, book, desk, asks,
                 deaths>>

(* An insertion leaves a row alone that came first; a known row takes the  *)
(* decision of the policy, and in a statement of its own the user.         *)
Written(p, r, row) ==
  IF r \in pass[p].known
  THEN IF row = None THEN None ELSE [row EXCEPT !.in = r \in pass[p].included]
  ELSE IF row = None
       THEN [in |-> r \in pass[p].included, user |-> r \in pass[p].resolved]
       ELSE row

PassSelectWrite(p) ==
  LET r == InHand(p) IN
  /\ At(p, "write")
  /\ selection' = [selection EXCEPT ![pass[p].w][r] = Written(p, r, @)]
  /\ IF r \in pass[p].known \cap pass[p].resolved
     THEN Move(p, [pass[p] EXCEPT !.at = "attach"])
     ELSE Onward(p)
  /\ UNCHANGED <<world, epoch, claimants, pool, overrides, book, desk, asks,
                 deaths>>

(* The update is of a row without a user: where it meets none, no trigger. *)
Userless(row) == row # None /\ ~row.user
PassAttach(p) ==
  /\ At(p, "attach")
  /\ IF Userless(selection[pass[p].w][InHand(p)])
     THEN Trigger(p, "attachWrite")
     ELSE Onward(p)
  /\ UNCHANGED <<world, epoch, rows, pool, overrides, book, desk, asks,
                 deaths>>

PassAttachWrite(p) ==
  /\ At(p, "attachWrite")
  /\ selection' = [selection EXCEPT ![pass[p].w][InHand(p)] =
       IF Userless(@) THEN [@ EXCEPT !.user = TRUE] ELSE @]
  /\ Onward(p)
  /\ UNCHANGED <<world, epoch, claimants, pool, overrides, book, desk, asks,
                 deaths>>

(* The draft takes the author's user, or the author's own identity; a row  *)
(* locked from the same inputs makes the write fail.                       *)
PassClaim(p) ==
  LET w    == pass[p].w
      r    == InHand(p)
      kind == IF r \in pass[p].resolved THEN "user" ELSE "identity"
  IN
  /\ At(p, "claim")
  /\ IF claimants[w][r].locked = kind
     THEN Ends(p) /\ UNCHANGED claimants
     ELSE claimants' = [claimants EXCEPT ![w][r].draft = kind] /\ Done(p)
  /\ UNCHANGED <<world, epoch, selection, pool, overrides, book, desk, asks,
                 deaths>>

(* Status and insertion are a read and a write of their own. *)
PassPool(p) ==
  /\ At(p, "pool")
  /\ IF Status(pass[p].w) = "open"
     THEN Move(p, [at |-> "insert", w |-> pass[p].w])
     ELSE Ends(p)
  /\ UNCHANGED <<world, epoch, rows, pool, overrides, book, desk, asks,
                 deaths>>

PassPoolInsert(p) ==
  /\ At(p, "insert")
  /\ pool' = [pool EXCEPT ![pass[p].w] = @ \cup {"base"}]
  /\ Ends(p)
  /\ UNCHANGED <<world, epoch, rows, overrides, book, desk, asks, deaths>>

Materialising == {"select", "write", "attach", "attachWrite", "claim"}

(* A pass that dies before it writes might as well not have started. *)
PassDies(p) ==
  /\ pass[p].at \in Materialising \cup {"pool", "insert"}
  /\ deaths < MaxDeaths /\ MoreEvents
  /\ deaths' = deaths + 1
  /\ Ends(p)
  /\ UNCHANGED <<world, epoch, rows, pool, overrides, book, desk, asks>>

-----------------------------------------------------------------------------
(* What an epoch in review pays *)

Identities == {"identity", "user"} \X Authors
Rank == [k \in Identities |-> k[2] + IF k[1] = "user" THEN 1 + Max(Authors) ELSE 0]

Key(w, r) == <<claimants[w][r].locked, Author[r]>>
Units(w, r) == IF overrides[w][r] = None THEN Weight[r] ELSE overrides[w][r]
PoolTotal(w) == SumFunctionOnSet(Credits, pool[w])

OfKey(w, k) == {r \in Counted(w) : Key(w, r) = k}
Allocation(w) ==
  LET units == [r \in Receipts |-> Units(w, r)] IN
  [k \in {Key(w, r) : r \in Counted(w)} |-> SumFunctionOnSet(units, OfKey(w, k))]
Claimed(w) == \A r \in Counted(w) : claimants[w][r].locked # None

Content(w, total) ==
  LET lines == LargestRemainder(Allocation(w), total, Rank) IN
  [allocation |-> Allocation(w), pool |-> total, lines |-> lines,
   receipts |-> [k \in DOMAIN lines |-> OfKey(w, k)]]

(* The liabilities of a statement: its lines of some crasks. *)
Owed(st) ==
  [k \in {k \in DOMAIN st.lines : st.lines[k] > 0} |-> <<st.lines[k], st.receipts[k]>>]
Message(st) == [allocation |-> st.allocation, pool |-> st.pool]

-----------------------------------------------------------------------------
(* Approvers *)

(* An approver may leave a message unsent and do something else. *)
Free(a) == desk[a].at \in {"idle", "signing"}
Asks == MoreEvents /\ asks' = asks + 1
Sit(a, what) == desk' = [desk EXCEPT ![a] = what]
Rise(a) == Sit(a, Resting)

(* On a finalized epoch the request changes nothing. *)
ReviewBuild(a, w) ==
  /\ Asks /\ Free(a) /\ Status(w) \in {"open", "review"}
  /\ Sit(a, [at |-> "review", w |-> w, artifacts |-> Artifacts(w)])
  /\ UNCHANGED <<world, epoch, rows, pool, overrides, book, pass, deaths>>

(* A review is repaired only from the artifacts it was closed with. *)
ReviewClose(a) ==
  LET w == desk[a].w
      artifacts == desk[a].artifacts
      refused ==
        \/ Status(w) = "review" /\ epoch[w].artifacts # artifacts
        \/ ~Lockable(w)
        \/ Missing(w) # {}
  IN
  /\ desk[a].at = "review"
  /\ IF Status(w) = "finalized" \/ refused
     THEN UNCHANGED <<epoch, claimants>>
     ELSE /\ claimants' = Lock(w)
          /\ epoch' = [epoch EXCEPT ![w] = ToReview(w, artifacts)]
  /\ Rise(a)
  /\ UNCHANGED <<world, selection, pool, overrides, book, pass, asks, deaths>>

(* As in a pass, the status is read before the component is inserted. *)
PoolCheck(a, w, c) ==
  /\ Asks /\ Free(a) /\ Status(w) = "open" /\ c \notin pool[w]
  /\ Sit(a, [at |-> "pool", w |-> w, component |-> c])
  /\ UNCHANGED <<world, epoch, rows, pool, overrides, book, pass, deaths>>

PoolInsert(a) ==
  /\ desk[a].at = "pool"
  /\ pool' = [pool EXCEPT ![desk[a].w] = @ \cup {desk[a].component}]
  /\ Rise(a)
  /\ UNCHANGED <<world, epoch, rows, overrides, book, pass, asks, deaths>>

Adjust(w, r, units) ==
  /\ Asks /\ Status(w) = "review"
  /\ overrides' = [overrides EXCEPT ![w][r] = units]
  /\ UNCHANGED <<world, epoch, rows, pool, book, pass, desk, deaths>>
Override(w, r, units) == claimants[w][r].locked # None /\ Adjust(w, r, units)
DeleteOverride(w, r) == overrides[w][r] # None /\ Adjust(w, r, None)

(* What the approver is shown, and signs. *)
SignData(a, w) ==
  /\ Asks /\ Free(a) /\ Status(w) = "review" /\ Claimed(w)
  /\ Sit(a, [at |-> "signing", w |-> w,
             message |-> Message(Content(w, PoolTotal(w)))])
  /\ UNCHANGED <<world, epoch, rows, pool, overrides, book, pass, deaths>>

(* A first approver's request reads the pool of the review, a later one's   *)
(* the statement.                                                           *)
FinalizeStart(a) ==
  LET w == desk[a].w IN
  /\ desk[a].at = "signing"
  /\ \/ /\ Status(w) = "review" /\ "base" \in pool[w]
        /\ Sit(a, [at |-> "compute", w |-> w, message |-> desk[a].message,
                   pool |-> PoolTotal(w)])
     \/ /\ Status(w) = "finalized" /\ desk[a].message = Message(statement[w])
        /\ Sit(a, [at |-> "seal", w |-> w, content |-> statement[w]])
  /\ UNCHANGED <<world, epoch, rows, pool, overrides, book, pass, asks, deaths>>

(* Reads claimants, selection and overrides, and verifies the signature. *)
FinalizeRead(a) ==
  LET w == desk[a].w
      content == Content(w, desk[a].pool)
  IN
  /\ desk[a].at = "compute"
  /\ IF Counted(w) # {} /\ Claimed(w) /\ desk[a].message = Message(content)
     THEN Sit(a, [at |-> "seal", w |-> w, content |-> content])
     ELSE Rise(a)
  /\ UNCHANGED <<world, epoch, rows, pool, overrides, book, pass, asks, deaths>>

(* finalizeEpochAtomic: the first to come stores the statement, a later one *)
(* must agree with it and with its own earlier signature.                   *)
Sign(a, w, content) == signatures' = [signatures EXCEPT ![w][a] = Message(content)]
Agrees_Unchecked(a, w, content) == signatures[w][a] \in {None, Message(content)}
Agrees(a, w, content) ==
  /\ statement[w].allocation = content.allocation
  /\ Owed(statement[w]) = Owed(content)
  /\ signatures[w][a] \in {None, Message(content)}
Seal(a) ==
  LET w == desk[a].w
      content == desk[a].content
  IN
  /\ desk[a].at = "seal"
  /\ \/ /\ Status(w) = "review"
        /\ epoch' = [epoch EXCEPT ![w].status = "finalized"]
        /\ statement' = [statement EXCEPT ![w] = content]
        /\ Sign(a, w, content)
     \/ /\ Status(w) = "finalized"
        /\ IF Agrees(a, w, content) THEN Sign(a, w, content) ELSE UNCHANGED signatures
        /\ UNCHANGED <<epoch, statement>>
  /\ Rise(a)
  /\ UNCHANGED <<world, rows, pool, overrides, pass, asks, deaths>>

-----------------------------------------------------------------------------
Collect(p) ==
  \/ PassStart(p) \/ PassBuild(p) \/ PassTransition(p) \/ PassEnsure(p)
  \/ PassCandidates(p) \/ PassSelect(p) \/ PassSelectWrite(p)
  \/ PassAttach(p) \/ PassAttachWrite(p) \/ PassClaim(p)
  \/ PassPool(p) \/ PassPoolInsert(p)

Handle(a) ==
  ReviewClose(a) \/ PoolInsert(a) \/ FinalizeStart(a) \/ FinalizeRead(a) \/ Seal(a)
Ask(a, w) ==
  \/ ReviewBuild(a, w) \/ SignData(a, w)
  \/ \E c \in Components : PoolCheck(a, w, c)
Edit(w, r) ==
  DeleteOverride(w, r) \/ \E units \in OverrideUnits : Override(w, r, units)

Next ==
  \/ NextWindow
  \/ \E r \in Receipts : Deliver(r)
  \/ \E b \in Authors : Bind(b)
  \/ \E p \in Passes : Collect(p) \/ PassDies(p)
  \/ \E a \in Approvers : Handle(a)
  \/ \E a \in Approvers, w \in Windows : Ask(a, w)
  \/ \E w \in Windows, r \in Receipts : Edit(w, r)

Spec == Init /\ [][Next]_vars

-----------------------------------------------------------------------------
(* Properties *)

Row == [in : BOOLEAN, user : BOOLEAN]
Kind == {None, "identity", "user"}
PassPlaces ==
  {"idle", "ensure", "build", "transition", "read", "pool", "insert"} \cup Materialising
DeskPlaces == {"idle", "review", "pool", "signing", "compute", "seal"}

Portions == UNION {[K -> Nat] : K \in SUBSET Identities}
Origins == UNION {[K -> SUBSET Receipts] : K \in SUBSET Identities}
ArtifactSet == [receipts : SUBSET Receipts, byUser : [Authors -> Nat]]
Signable == [allocation : Portions, pool : Nat]
Statement == [allocation : Portions, pool : Nat, lines : Portions, receipts : Origins]
Payment == [lines : Portions, pool : Nat, receipts : SUBSET Receipts]

ASSUME NoneIsNothing ==
  /\ None \notin Row /\ None \notin ArtifactSet
  /\ None \notin Signable /\ None \notin Statement /\ None \notin Payment

(* The variables range over what the tables and the requests can hold. *)
TypeOK ==
  /\ window \in Windows /\ arrived \subseteq Receipts /\ bound \subseteq Authors
  /\ \A w \in Windows :
       /\ Status(w) \in {"none", "open", "review", "finalized"}
       /\ (epoch[w].artifacts = None) = (Status(w) \in {"none", "open"})
       /\ \A r \in Receipts :
            /\ selection[w][r] \in Row \cup {None}
            /\ claimants[w][r] \in [draft : Kind, locked : Kind]
            /\ overrides[w][r] \in OverrideUnits \cup {None}
       /\ pool[w] \subseteq Components
       /\ (statement[w] = None) = (Status(w) # "finalized")
  /\ \A p \in Passes : pass[p].at \in PassPlaces
  /\ \A a \in Approvers : desk[a].at \in DeskPlaces
  /\ asks \in 0..MaxEvents /\ deaths \in 0..MaxDeaths

(* Whatever overrides, components and selections raced the approvers, a     *)
(* signature stored with a statement that owes anything covers its          *)
(* allocation and its pool (finalizeEpochAtomic).                           *)
SignedIsStored ==
  \A w \in Windows, a \in Approvers :
    signatures[w][a] # None =>
      /\ statement[w] # None
      /\ \/ DOMAIN Owed(statement[w]) = {}
         \/ signatures[w][a] = Message(statement[w])

(* A receipt that a finished materialisation left in an open epoch, counted *)
(* by the policy, has a claimant: no pass that lives to its pool step       *)
(* leaves the epoch impossible to close (materializeSelection).             *)
MaterializedIsComplete ==
  \A p \in Passes :
    pass[p].at \in {"pool", "insert"} /\ Status(pass[p].w) = "open"
      => Missing(pass[p].w) = {}
CompleteUnlessDied == deaths = 0 => MaterializedIsComplete

(* Once finalized, an epoch keeps its statement; its selection changes only *)
(* by the one row that each pass already past the trigger may still write,  *)
(* and no pass gets past it any more. From its review on, a locked claimant *)
(* is never replaced.                                                       *)
Writing(w) == {p \in Passes : pass[p].at \in {"write", "attachWrite"} /\ pass[p].w = w}
SealedIsFrozen ==
  [][\A w \in Windows :
       /\ Status(w) = "finalized" =>
            /\ statement'[w] = statement[w]
            /\ Writing(w)' \subseteq Writing(w)
            /\ selection'[w] # selection[w] => Writing(w)' # Writing(w)
       /\ \A r \in Receipts : claimants[w][r].locked # None =>
            claimants'[w][r].locked = claimants[w][r].locked]_vars

(* The epochs keep the book: a statement gives away its whole pool, once,   *)
(* and where passes do not overlap a receipt is paid for by one at most.    *)
Paid(st) ==
  [lines |-> st.lines, pool |-> st.pool, receipts |-> UNION Range(st.receipts)]
Book == INSTANCE EpochBook WITH
  Exclusive <- \A p, q \in Passes : p = q,
  phase   <- [w \in Windows |-> Status(w)],
  paid    <- [w \in Windows |-> IF statement[w] = None THEN None ELSE Paid(statement[w])],
  signers <- [w \in Windows |-> {a \in Approvers : signatures[w][a] # None}]
ImplementsEpochBook == Book!Spec

=============================================================================
