---------------------------- MODULE EpochsProofs ----------------------------
(***************************************************************************)
(* For every set of windows, receipts, approvers and passes: one epoch is  *)
(* open, what is signed is what is stored, what an epoch sealed stays, and *)
(* the epochs keep the book. Where passes do not overlap, one that lives   *)
(* leaves no counted receipt without a claimant and no receipt is in two   *)
(* epochs.                                                                 *)
(***************************************************************************)
EXTENDS Epochs, SharesProofs

\* What a pass holds while it materialises a selection.
Work == {"at", "w", "todo", "known", "included", "resolved"}

\* The tables have a row for every window, and a claimant of a receipt is a
\* draft and a locked kind.
TablesOK ==
  /\ DOMAIN statement = Windows
  /\ DOMAIN selection = Windows
  /\ \A w \in Windows : DOMAIN selection[w] = Receipts
  /\ claimants \in [Windows -> [Receipts -> [draft : Kind, locked : Kind]]]
Local(to) ==
  /\ to.at = "idle" \/ to.w \in Windows
  /\ to.at \in Materialising => DOMAIN to = Work
PassesOK ==
  /\ window \in Windows
  /\ DOMAIN pass = Passes
  /\ \A p \in Passes : Local(pass[p])
Shape == TablesOK /\ PassesOK

\* A counted receipt without a claimant, of an epoch that is not finalized, is
\* about to get one from a pass that has it in hand.
Claiming(p) ==
  \/ pass[p].at = "claim"
  \/ pass[p].at \in {"attach", "attachWrite"} /\ Claims(p, InHand(p))
InHandOf(r, w) ==
  \E p \in Passes : Claiming(p) /\ pass[p].w = w /\ InHand(p) = r
Covered ==
  /\ deaths \in Nat
  /\ deaths = 0 =>
       \A w \in Windows : Status(w) # "finalized" => \A r \in Missing(w) : InHandOf(r, w)

\* SealedIsFrozen, of one step: what it says of statements and claimants.
FrozenStep ==
  \A w \in Windows :
    /\ Status(w) = "finalized" => statement'[w] = statement[w]
    /\ \A r \in Receipts : claimants[w][r].locked # None =>
         claimants'[w][r].locked = claimants[w][r].locked

\* Nothing reopens a finalized epoch.
EpochRows == DOMAIN epoch = Windows
FinalStays ==
  /\ EpochRows'
  /\ \A w \in Windows : Status(w) = "finalized" => epoch'[w] = epoch[w]

\* What a step keeps that leaves no receipt newly without claimant.
NoneMissed == \A w \in Windows : Missing(w)' \subseteq Missing(w)
Kept == TablesOK' /\ FrozenStep /\ NoneMissed

\* What every step does.
Sound == Shape' /\ FrozenStep /\ Covered'

-----------------------------------------------------------------------------
(* The steps, by what they write *)

\* Locking keeps the shape of the claimants and replaces no locked row.
LEMMA LockKeeps ==
  ASSUME TablesOK, NEW v, Lockable(v) \/ v \notin Windows
  PROVE  /\ Lock(v) \in [Windows -> [Receipts -> [draft : Kind, locked : Kind]]]
         /\ \A w \in Windows, r \in Receipts :
              /\ claimants[w][r].locked # None =>
                   Lock(v)[w][r].locked = claimants[w][r].locked
              /\ Lock(v)[w][r] = NoClaimant => claimants[w][r] = NoClaimant
PROOF
  <1> DEFINE row(r) == IF claimants[v][r].draft = None
                       THEN claimants[v][r]
                       ELSE [draft |-> None, locked |-> claimants[v][r].draft]
             rowOf == [r \in Receipts |-> row(r)]
  <1>1. Lock(v) = [claimants EXCEPT ![v] = rowOf]
    BY DEF Lock
  <1>2. CASE v \notin Windows
    <2>1. Lock(v) = claimants
      BY <1>1, <1>2 DEF TablesOK
    <2> QED
      BY <2>1 DEF TablesOK
  <1>3. CASE v \in Windows
    <2>1. ASSUME NEW r \in Receipts
          PROVE  /\ row(r) \in [draft : Kind, locked : Kind]
                 /\ claimants[v][r].locked # None => row(r).locked = claimants[v][r].locked
                 /\ row(r) = NoClaimant => claimants[v][r] = NoClaimant
      <3>1. claimants[v][r] \in [draft : Kind, locked : Kind]
        BY <1>3 DEF TablesOK
      <3>2. claimants[v][r].draft = None \/ claimants[v][r].locked = None
        BY <1>3 DEF Lockable
      <3> QED
        BY <3>1, <3>2 DEF Kind, NoClaimant
    <2>2. rowOf \in [Receipts -> [draft : Kind, locked : Kind]]
      BY <2>1
    <2> HIDE DEF row
    <2>3. \A r \in Receipts : rowOf[r] = row(r)
      OBVIOUS
    <2> HIDE DEF rowOf
    <2>4. Lock(v) \in [Windows -> [Receipts -> [draft : Kind, locked : Kind]]]
      BY <1>1, <1>3, <2>2 DEF TablesOK
    <2>5. Lock(v)[v] = rowOf /\ \A w \in Windows \ {v} : Lock(v)[w] = claimants[w]
      BY <1>1, <1>3 DEF TablesOK
    <2> QED
      BY <2>1, <2>3, <2>4, <2>5
  <1> QED
    BY <1>2, <1>3

\* A step that writes neither selections, claimants nor statements.
LEMMA QuietStep ==
  ASSUME TablesOK, UNCHANGED <<rows, statement>>
  PROVE  Kept
PROOF
  <1>1. TablesOK' /\ FrozenStep
    BY DEF TablesOK, FrozenStep, rows
  <1>2. NoneMissed
    BY DEF NoneMissed, Missing, Counted, Selected, rows
  <1> QED
    BY <1>1, <1>2 DEF Kept

\* Closing a review locks the drafts.
LEMMA LockStep ==
  ASSUME TablesOK, NEW v, Lockable(v), claimants' = Lock(v),
         UNCHANGED <<selection, statement>>
  PROVE  Kept
PROOF
  <1>1. TablesOK'
    BY LockKeeps DEF TablesOK
  <1>2. FrozenStep
    BY LockKeeps DEF FrozenStep
  <1>3. ASSUME NEW w \in Windows, NEW r, r \in Missing(w)'
        PROVE  r \in Missing(w)
    <2>1. r \in Counted(w) /\ r \in Receipts
      BY <1>3 DEF Missing, Counted, Selected
    <2>2. Lock(v)[w][r] = NoClaimant
      BY <1>3 DEF Missing
    <2> QED
      BY <2>1, <2>2, LockKeeps DEF Missing
  <1> QED
    BY <1>1, <1>2, <1>3 DEF Kept, NoneMissed

\* Only a review's epoch gets a statement.
LEMMA SealStep ==
  ASSUME TablesOK, NEW a \in Approvers, Seal(a)
  PROVE  Kept
PROOF
  <1>1. CASE Status(desk[a].w) = "finalized"
    <2>1. UNCHANGED <<rows, statement>>
      BY <1>1 DEF Seal
    <2> QED
      BY <2>1, QuietStep
  <1>2. CASE Status(desk[a].w) = "review"
    <2> DEFINE v == desk[a].w
    <2>1. statement' = [statement EXCEPT ![v] = desk[a].content] /\ UNCHANGED rows
      BY <1>2 DEF Seal
    <2>2. TablesOK'
      BY <2>1 DEF TablesOK, rows
    <2>3. ASSUME NEW w \in Windows, Status(w) = "finalized"
          PROVE  statement'[w] = statement[w]
      BY <1>2, <2>1, <2>3 DEF TablesOK
    <2>4. FrozenStep
      BY <2>1, <2>3 DEF FrozenStep, rows
    <2>5. NoneMissed
      BY <2>1 DEF NoneMissed, Missing, Counted, Selected, rows
    <2> QED
      BY <2>2, <2>4, <2>5 DEF Kept
  <1> QED
    BY <1>1, <1>2 DEF Seal

\* A pass writes a row of a selection.
LEMMA SelectStep ==
  ASSUME TablesOK, NEW v, NEW b, NEW x, selection' = [selection EXCEPT ![v][b] = x],
         UNCHANGED <<claimants, statement>>
  PROVE  TablesOK' /\ FrozenStep
PROOF
  BY DEF TablesOK, FrozenStep

\* A claimant written by a pass is a draft.
LEMMA ClaimStep ==
  ASSUME TablesOK, NEW p \in Passes, PassClaim(p)
  PROVE  Kept
PROOF
  <1> DEFINE v == pass[p].w
             b == InHand(p)
             kind == IF b \in pass[p].resolved THEN "user" ELSE "identity"
  <1> HIDE DEF b
  <1>1. UNCHANGED <<selection, statement>>
    BY DEF PassClaim, book
  <1>2. CASE claimants' = claimants
    BY <1>1, <1>2, QuietStep DEF rows
  <1>3. CASE claimants' = [claimants EXCEPT ![v][b].draft = kind]
    <2>1. kind \in Kind /\ kind # None
      BY EpochsAssumption DEF Kind, EpochsAssumption
    <2> HIDE DEF kind
    <2>2. ASSUME NEW row \in [draft : Kind, locked : Kind]
          PROVE  /\ [row EXCEPT !.draft = kind] \in [draft : Kind, locked : Kind]
                 /\ [row EXCEPT !.draft = kind].draft = kind
                 /\ [row EXCEPT !.draft = kind].locked = row.locked
      BY <2>1
    <2>3. ASSUME NEW w \in Windows, NEW r \in Receipts
          PROVE  /\ claimants[w][r] \in [draft : Kind, locked : Kind]
                 /\ claimants'[w][r] = IF w = v /\ r = b
                      THEN [claimants[w][r] EXCEPT !.draft = kind]
                      ELSE claimants[w][r]
      BY <1>3 DEF TablesOK
    <2>4. ASSUME NEW w \in Windows, NEW r \in Receipts
          PROVE  /\ claimants'[w][r] \in [draft : Kind, locked : Kind]
                 /\ claimants'[w][r].locked = claimants[w][r].locked
                 /\ claimants'[w][r] = claimants[w][r] \/ claimants'[w][r].draft = kind
      <3>1. claimants[w][r] \in [draft : Kind, locked : Kind]
        BY <2>3
      <3>2. CASE w = v /\ r = b
        BY <3>1, <3>2, <2>2, <2>3
      <3>3. CASE ~(w = v /\ r = b)
        BY <3>1, <3>3, <2>3
      <3> QED
        BY <3>2, <3>3
    <2>5. /\ DOMAIN claimants' = Windows
          /\ \A w \in Windows : DOMAIN claimants'[w] = Receipts
      BY <1>3 DEF TablesOK
    <2>6. /\ claimants' = [w \in Windows |-> claimants'[w]]
          /\ \A w \in Windows :
               claimants[w] = [r \in Receipts |-> claimants[w][r]]
      BY <1>3, <2>5 DEF TablesOK
    <2>7. ASSUME NEW w \in Windows
          PROVE  claimants'[w] = [r \in Receipts |-> claimants'[w][r]]
      <3>1. claimants'[w] = IF w = v
                            THEN [claimants[w] EXCEPT ![b] = [@ EXCEPT !.draft = kind]]
                            ELSE claimants[w]
        BY <1>3 DEF TablesOK
      <3> QED
        BY <2>5, <2>6, <3>1
    <2>8. claimants' \in [Windows -> [Receipts -> [draft : Kind, locked : Kind]]]
      BY <2>4, <2>6, <2>7
    <2>9. TablesOK'
      BY <1>1, <2>8 DEF TablesOK
    <2>10. FrozenStep
      BY <1>1, <2>4 DEF FrozenStep
    <2>11. NoneMissed
      <3> SUFFICES ASSUME NEW w \in Windows, NEW r \in Receipts,
                          claimants'[w][r] = NoClaimant
                   PROVE  claimants[w][r] = NoClaimant
        BY <1>1 DEF NoneMissed, Missing, Counted, Selected
      <3>1. claimants'[w][r].draft # kind
        BY <2>1 DEF NoClaimant
      <3> QED
        BY <2>4, <3>1
    <2> QED
      BY <2>9, <2>10, <2>11 DEF Kept
  <1> QED
    BY <1>2, <1>3 DEF PassClaim, b

\* At first the tables are empty and the passes rest.
LEMMA InitShape == Init => Shape
PROOF
  <1> SUFFICES ASSUME Init PROVE Shape
    OBVIOUS
  <1>1. NoClaimant \in [draft : Kind, locked : Kind]
    BY DEF NoClaimant, Kind
  <1>2. TablesOK
    BY <1>1 DEF Init, TablesOK
  <1>3. window \in Windows
    BY EpochsAssumption DEF Init, Windows, EpochsAssumption
  <1>4. PassesOK
    BY <1>3 DEF Init, PassesOK, Local, Materialising, Resting
  <1> QED
    BY <1>2, <1>4 DEF Shape

-----------------------------------------------------------------------------
(* The passes *)

\* A step of a pass leaves the others where they are.
LEMMA MoveKeeps ==
  ASSUME PassesOK, UNCHANGED window, NEW p \in Passes, NEW to, Move(p, to),
         Local(to)
  PROVE  /\ PassesOK'
         /\ pass'[p] = to /\ \A q \in Passes \ {p} : pass'[q] = pass[q]
PROOF
  <1>1. /\ pass'[p] = to /\ \A q \in Passes \ {p} : pass'[q] = pass[q]
        /\ DOMAIN pass' = Passes
    BY DEF PassesOK, Move
  <1>2. ASSUME NEW q \in Passes
        PROVE  Local(pass'[q])
    <2>1. CASE q = p
      BY <1>1, <2>1
    <2>2. CASE q # p
      BY <1>1, <2>2 DEF PassesOK
    <2> QED
      BY <2>1, <2>2
  <1> QED
    BY <1>1, <1>2 DEF PassesOK, Local, Windows

\* A pass keeps hold of the receipt it has in hand.
Holds(p) == Claiming(p)' /\ pass'[p].w = pass[p].w /\ InHand(p)' = InHand(p)
LEMMA StandsStill ==
  ASSUME NEW p, pass'[p] = pass[p], Claiming(p)
  PROVE  Holds(p)
PROOF
  <1>1. InHand(p)' = InHand(p)
    BY DEF InHand
  <1>2. Claims(p, InHand(p))' = Claims(p, InHand(p))
    BY <1>1 DEF Claims
  <1> QED
    BY <1>1, <1>2 DEF Holds, Claiming

\* A step after which a receipt that newly lacks a claimant is in hand, and
\* that drops none from its hand.
LEMMA CoverageKept ==
  ASSUME Covered, FinalStays, UNCHANGED deaths,
         \A w \in Windows : \A r \in Missing(w)' : r \in Missing(w) \/ InHandOf(r, w)',
         \A p \in Passes : Claiming(p) /\ Status(pass[p].w) # "finalized" => Holds(p)
  PROVE  Covered'
PROOF
  <1> SUFFICES ASSUME deaths = 0, NEW w \in Windows, Status(w)' # "finalized",
                      NEW r \in Missing(w)', r \in Missing(w)
               PROVE  InHandOf(r, w)'
    BY DEF Covered, Windows
  <1>1. Status(w) # "finalized"
    BY DEF FinalStays, Status
  <1>2. PICK p \in Passes : Claiming(p) /\ pass[p].w = w /\ InHand(p) = r
    BY <1>1 DEF Covered, InHandOf
  <1>3. Holds(p)
    BY <1>1, <1>2
  <1> QED
    BY <1>2, <1>3 DEF InHandOf, Holds

\* A step of a pass, whatever it has in hand.
LEMMA HandStep ==
  ASSUME Shape, Covered, FinalStays, TablesOK', FrozenStep, UNCHANGED <<window, deaths>>,
         NEW p \in Passes, NEW to, Move(p, to), Local(to),
         \A w \in Windows : \A r \in Missing(w)' : r \in Missing(w) \/ InHandOf(r, w)',
         Claiming(p) /\ Status(pass[p].w) # "finalized" => Holds(p)
  PROVE  Sound
PROOF
  <1>1. /\ PassesOK'
        /\ \A q \in Passes \ {p} : pass'[q] = pass[q]
    BY MoveKeeps DEF Shape
  <1>2. \A q \in Passes : Claiming(q) /\ Status(pass[q].w) # "finalized" => Holds(q)
    BY <1>1, StandsStill
  <1>3. Covered'
    BY <1>2, CoverageKept
  <1> QED
    BY <1>1, <1>3 DEF Sound, Shape

\* A step of a pass that has no receipt in hand.
LEMMA MoveStep ==
  ASSUME Shape, Covered, FinalStays, Kept, UNCHANGED <<window, deaths>>,
         NEW p \in Passes, pass[p].at \notin {"attach", "attachWrite", "claim"},
         NEW to, Move(p, to), Local(to)
  PROVE  Sound
PROOF
  <1>1. ~Claiming(p)
    BY DEF Claiming
  <1>2. \A w \in Windows : \A r \in Missing(w)' : r \in Missing(w)
    BY DEF Kept, NoneMissed
  <1> QED
    BY <1>1, <1>2, HandStep DEF Kept

\* A step of no pass.
LEMMA StandStep ==
  ASSUME Shape, Covered, FinalStays, Kept, UNCHANGED <<pass, deaths>>,
         window' \in Windows
  PROVE  Sound
PROOF
  <1>1. Covered'
    BY CoverageKept, StandsStill DEF Kept, NoneMissed
  <1>2. PassesOK'
    BY DEF Shape, PassesOK, Local, Windows
  <1> QED
    BY <1>1, <1>2 DEF Sound, Shape, Kept

\* Every step of a pass but those that select, claim or die.
LEMMA PassStep ==
  ASSUME Shape, Covered, FinalStays, NEW p \in Passes,
         \/ PassStart(p) \/ PassBuild(p) \/ PassTransition(p) \/ PassEnsure(p)
         \/ PassCandidates(p) \/ PassPool(p) \/ PassPoolInsert(p)
  PROVE  Sound
PROOF
  <1> USE DEF At, world
  <1>1. window \in Windows /\ (pass[p].at # "idle" => pass[p].w \in Windows)
    BY DEF Shape, PassesOK, Local
  <1>2. Local(Resting)
    BY DEF Local, Materialising, Resting
  <1>3. ASSUME NEW w \in Windows, Enter(p, w)
        PROVE  \E to : Move(p, to) /\ Local(to)
    <2>1. Local([at |-> "read", w |-> w])
      BY DEF Local, Materialising
    <2> QED
      BY <1>2, <1>3, <2>1 DEF Enter, Ends
  <1>4. CASE PassStart(p)
    <2>1. Kept
      BY <1>4, QuietStep DEF PassStart, book, Shape
    <2>2. Local([at |-> "ensure", w |-> window])
      BY <1>1 DEF Local, Materialising
    <2>3. \A v : Local([at |-> "build", w |-> window, stale |-> v])
      BY <1>1 DEF Local, Materialising
    <2> QED
      BY <1>4, <2>1, <2>2, <2>3, MoveStep DEF PassStart
  <1>5. CASE PassBuild(p)
    <2>1. Kept
      BY <1>5, QuietStep DEF PassBuild, book, Shape
    <2> DEFINE to == [at |-> "transition", w |-> pass[p].w, stale |-> pass[p].stale,
                      artifacts |-> Artifacts(pass[p].stale)]
    <2>2. Local(to)
      BY <1>1, <1>5 DEF Local, Materialising, PassBuild
    <2> QED
      BY <1>5, <2>1, <2>2, MoveStep DEF PassBuild
  <1>6. CASE PassTransition(p)
    <2>1. Kept
      <3>1. UNCHANGED <<selection, statement>>
        BY <1>6 DEF PassTransition, book
      <3>2. CASE UNCHANGED claimants
        BY <3>1, <3>2, QuietStep DEF rows, Shape
      <3>3. CASE Lockable(pass[p].stale) /\ claimants' = Lock(pass[p].stale)
        BY <3>1, <3>3, LockStep DEF Shape
      <3> QED
        BY <1>6, <3>2, <3>3 DEF PassTransition
    <2>2. \E to : Move(p, to) /\ Local(to)
      BY <1>1, <1>2, <1>3, <1>6 DEF PassTransition, Ends
    <2> QED
      BY <1>6, <2>1, <2>2, MoveStep DEF PassTransition
  <1>7. CASE PassEnsure(p)
    <2>1. Kept
      BY <1>7, QuietStep DEF PassEnsure, book, Shape
    <2>2. \E to : Move(p, to) /\ Local(to)
      BY <1>1, <1>2, <1>3, <1>7 DEF PassEnsure, Ends
    <2> QED
      BY <1>7, <2>1, <2>2, MoveStep DEF PassEnsure
  <1>8. CASE PassCandidates(p)
    <2>1. Kept
      BY <1>8, QuietStep DEF PassCandidates, book, Shape
    <2>2. \A at, todo, known, included, resolved :
            Local([at |-> at, w |-> pass[p].w, todo |-> todo, known |-> known,
                   included |-> included, resolved |-> resolved])
      BY <1>1, <1>8 DEF Local, Work, PassCandidates
    <2> QED
      BY <1>8, <2>1, <2>2, MoveStep DEF PassCandidates
  <1>9. CASE PassPool(p)
    <2>1. Kept
      BY <1>9, QuietStep DEF PassPool, book, Shape
    <2>2. Local([at |-> "insert", w |-> pass[p].w])
      BY <1>1, <1>9 DEF Local, Materialising, PassPool
    <2> QED
      BY <1>2, <1>9, <2>1, <2>2, MoveStep DEF PassPool, Ends
  <1>10. CASE PassPoolInsert(p)
    <2>1. Kept
      BY <1>10, QuietStep DEF PassPoolInsert, book, Shape
    <2> QED
      BY <1>2, <1>10, <2>1, MoveStep DEF PassPoolInsert, Ends
  <1> QED
    BY <1>4, <1>5, <1>6, <1>7, <1>8, <1>9, <1>10

\* A pass that materialises holds what it has read.
LEMMA Places ==
  ASSUME PassesOK, NEW p \in Passes, pass[p].at \in Materialising
  PROVE  /\ pass[p].w \in Windows /\ DOMAIN pass[p] = Work
         /\ Local(Resting) /\ Resting.at = "idle"
PROOF
  BY DEF PassesOK, Local, Materialising, Resting

\* A pass on its way to claim keeps the receipt in its hand.
LEMMA OnItsWay ==
  ASSUME PassesOK, UNCHANGED window, NEW p \in Passes, pass[p].at \in Materialising,
         NEW at \in {"attach", "attachWrite", "claim"}, Claims(p, InHand(p)),
         Move(p, [pass[p] EXCEPT !.at = at])
  PROVE  Holds(p)
PROOF
  <1> DEFINE to == [pass[p] EXCEPT !.at = at]
  <1>1. /\ Local(to) /\ to.at = at /\ to.w = pass[p].w /\ to.todo = pass[p].todo
        /\ to.included = pass[p].included
    BY Places DEF Local, Work
  <1> HIDE DEF to
  <1>2. pass'[p] = to
    BY <1>1, MoveKeeps DEF to
  <1>3. InHand(p)' = InHand(p)
    BY <1>1, <1>2 DEF InHand
  <1>4. Claims(p, InHand(p))'
    BY <1>1, <1>2, <1>3 DEF Claims
  <1> QED
    BY <1>1, <1>2, <1>3, <1>4 DEF Holds, Claiming

LEMMA OnwardStep ==
  ASSUME PassesOK, UNCHANGED window, NEW p \in Passes, pass[p].at \in Materialising,
         Onward(p)
  PROVE  /\ \E to : Move(p, to) /\ Local(to) /\ to.at \in {"claim", "pool", "select"}
         /\ Claims(p, InHand(p)) => Holds(p)
PROOF
  <1>1. CASE Claims(p, InHand(p))
    <2>1. Move(p, [pass[p] EXCEPT !.at = "claim"])
      BY <1>1 DEF Onward
    <2>2. Holds(p)
      BY <1>1, <2>1, OnItsWay
    <2>3. Local([pass[p] EXCEPT !.at = "claim"]) /\ [pass[p] EXCEPT !.at = "claim"].at = "claim"
      BY Places DEF Local, Work
    <2> QED
      BY <2>1, <2>2, <2>3
  <1>2. CASE ~Claims(p, InHand(p))
    <2> DEFINE rest == pass[p].todo \ {InHand(p)}
               at == IF rest = {} THEN "pool" ELSE "select"
               to == [pass[p] EXCEPT !.todo = rest, !.at = at]
    <2>1. Move(p, to)
      BY <1>2 DEF Onward, Done
    <2>2. at \in {"claim", "pool", "select"}
      OBVIOUS
    <2> HIDE DEF rest, at
    <2>3. Local(to) /\ to.at = at
      BY Places DEF Local, Work
    <2> QED
      BY <1>2, <2>1, <2>2, <2>3
  <1> QED
    BY <1>1, <1>2

LEMMA TriggerStep ==
  ASSUME PassesOK, NEW p \in Passes, pass[p].at \in Materialising,
         NEW write \in {"write", "attachWrite"}, Trigger(p, write)
  PROVE  \E to : /\ Move(p, to) /\ Local(to)
                 /\ \/ Frozen(pass[p].w) /\ to.at = "idle"
                    \/ ~Frozen(pass[p].w) /\ to.w = pass[p].w
                         /\ to = [pass[p] EXCEPT !.at = write]
PROOF
  <1> DEFINE to == [pass[p] EXCEPT !.at = write]
  <1>1. Local(to) /\ to.w = pass[p].w
    BY Places DEF Local, Work
  <1> HIDE DEF to
  <1>2. CASE Frozen(pass[p].w)
    BY <1>2, Places DEF Trigger, Ends
  <1>3. CASE ~Frozen(pass[p].w)
    <2>1. Move(p, to)
      BY <1>3 DEF Trigger, to
    <2> QED
      BY <1>1, <1>3, <2>1 DEF to
  <1> QED
    BY <1>2, <1>3

\* The trigger writes nothing.
LEMMA SelectSound ==
  ASSUME Shape, Covered, FinalStays, NEW p \in Passes, PassSelect(p)
  PROVE  Sound
PROOF
  <1>1. Kept /\ UNCHANGED <<window, deaths>>
    BY QuietStep DEF PassSelect, book, world, Shape
  <1>2. pass[p].at = "select" /\ Trigger(p, "write")
    BY DEF PassSelect, At
  <1>3. PICK to : Move(p, to) /\ Local(to)
    BY <1>2, TriggerStep DEF Materialising, Shape
  <1> QED
    BY <1>1, <1>2, <1>3, MoveStep

\* A row that counts is one whose claimant the pass goes on to write.
LEMMA WrittenCounts ==
  ASSUME NEW p, NEW r, NEW row, Written(p, r, row) # None, Written(p, r, row).in,
         ~(row # None /\ row.in)
  PROVE  Claims(p, r)
PROOF
  <1>1. CASE r \in pass[p].known /\ row # None
    <2>1. Written(p, r, row) = [row EXCEPT !.in = r \in pass[p].included]
      BY <1>1 DEF Written
    <2>2. \/ [row EXCEPT !.in = r \in pass[p].included].in = (r \in pass[p].included)
          \/ [row EXCEPT !.in = r \in pass[p].included].in = row.in
      OBVIOUS
    <2> QED
      BY <1>1, <2>1, <2>2 DEF Claims
  <1>2. CASE r \notin pass[p].known /\ row = None
    BY <1>2 DEF Written, Claims
  <1> QED
    BY <1>1, <1>2 DEF Written

\* Selecting a receipt that counts puts it in hand to be claimed.
LEMMA WriteSound ==
  ASSUME Shape, Covered, FinalStays, NEW p \in Passes, PassSelectWrite(p)
  PROVE  Sound
PROOF
  <1> DEFINE v == pass[p].w
             b == InHand(p)
             put == Written(p, b, selection[v][b])
             attaches == b \in pass[p].known \cap pass[p].resolved
  <1>1. pass[p].at = "write" /\ pass[p].at \in Materialising /\ PassesOK
    BY DEF PassSelectWrite, At, Shape, Materialising
  <1>2. UNCHANGED <<window, claimants, statement, deaths>>
    BY DEF PassSelectWrite, world, book
  <1>3. selection' = [selection EXCEPT ![v][b] = put]
    BY DEF PassSelectWrite
  <1>4. IF attaches THEN Move(p, [pass[p] EXCEPT !.at = "attach"]) ELSE Onward(p)
    BY DEF PassSelectWrite
  <1>5. put # None /\ put.in /\ ~(selection[v][b] # None /\ selection[v][b].in) => Claims(p, b)
    BY WrittenCounts
  <1> HIDE DEF put, attaches
  <1>6. TablesOK' /\ FrozenStep
    BY <1>2, <1>3, SelectStep DEF Shape
  <1>7. Claims(p, b) => Holds(p)
    BY <1>1, <1>2, <1>4, OnItsWay, OnwardStep
  <1>8. \E to : Move(p, to) /\ Local(to)
    <2>1. Local([pass[p] EXCEPT !.at = "attach"])
      BY <1>1, Places DEF Local, Work
    <2> QED
      BY <1>1, <1>2, <1>4, <2>1, OnwardStep
  <1>9. ASSUME NEW w \in Windows, NEW r \in Missing(w)', r \notin Missing(w)
        PROVE  InHandOf(r, w)'
    <2>1. /\ r \in Receipts /\ selection'[w][r] # None /\ selection'[w][r].in
          /\ claimants[w][r] = NoClaimant
      BY <1>2 DEF Missing, Counted, Selected
    <2>2. ~(selection[w][r] # None /\ selection[w][r].in)
      BY <1>9, <2>1 DEF Missing, Counted, Selected
    <2>3. selection'[w][r] = IF w = v /\ r = b THEN put ELSE selection[w][r]
      BY <1>3, <2>1 DEF Shape, TablesOK
    <2>4. w = v /\ r = b
      BY <2>1, <2>2, <2>3
    <2>5. Claims(p, b)
      BY <1>5, <2>1, <2>2, <2>3, <2>4
    <2>6. Holds(p)
      BY <1>7, <2>5
    <2> QED
      BY <2>4, <2>6 DEF InHandOf, Holds
  <1>10. ~Claiming(p)
    BY <1>1 DEF Claiming
  <1> QED
    BY <1>2, <1>6, <1>8, <1>9, <1>10, HandStep

\* To give a known row its user, the pass keeps the receipt in its hand, unless
\* the epoch was finalized.
LEMMA AttachSound ==
  ASSUME Shape, Covered, FinalStays, NEW p \in Passes, PassAttach(p)
  PROVE  Sound
PROOF
  <1>1. Kept /\ UNCHANGED <<window, deaths>>
    BY QuietStep DEF PassAttach, book, world, Shape
  <1>2. pass[p].at = "attach" /\ pass[p].at \in Materialising /\ PassesOK
    BY DEF PassAttach, At, Materialising, Shape
  <1>3. Trigger(p, "attachWrite") \/ Onward(p)
    BY DEF PassAttach
  <1>4. \E to : Move(p, to) /\ Local(to)
    BY <1>1, <1>2, <1>3, TriggerStep, OnwardStep
  <1>5. ASSUME Claiming(p), Status(pass[p].w) # "finalized"
        PROVE  Holds(p)
    <2>1. Claims(p, InHand(p))
      BY <1>2, <1>5 DEF Claiming
    <2>2. CASE Trigger(p, "attachWrite")
      <3>1. Move(p, [pass[p] EXCEPT !.at = "attachWrite"])
        BY <1>5, <2>2 DEF Trigger, Frozen
      <3> QED
        BY <1>1, <1>2, <2>1, <3>1, OnItsWay
    <2> QED
      BY <1>1, <1>2, <1>3, <2>1, <2>2, OnwardStep
  <1> QED
    BY <1>1, <1>4, <1>5, HandStep DEF Kept, NoneMissed

LEMMA AttachWriteSound ==
  ASSUME Shape, Covered, FinalStays, NEW p \in Passes, PassAttachWrite(p)
  PROVE  Sound
PROOF
  <1> DEFINE v == pass[p].w
             b == InHand(p)
             row == selection[v][b]
             put == IF Userless(row) THEN [row EXCEPT !.user = TRUE] ELSE row
  <1>1. pass[p].at = "attachWrite" /\ pass[p].at \in Materialising /\ PassesOK
    BY DEF PassAttachWrite, At, Shape, Materialising
  <1>2. UNCHANGED <<window, claimants, statement, deaths>> /\ Onward(p)
    BY DEF PassAttachWrite, world, book
  <1>3. selection' = [selection EXCEPT ![v][b] = put]
    BY DEF PassAttachWrite
  <1>4. put # None /\ put.in => row # None /\ row.in
    <2>1. [row EXCEPT !.user = TRUE].in = row.in
      OBVIOUS
    <2> QED
      BY <2>1 DEF Userless
  <1> HIDE DEF put, row
  <1>5. TablesOK' /\ FrozenStep
    BY <1>2, <1>3, SelectStep DEF Shape
  <1>6. ASSUME NEW w \in Windows, NEW r \in Missing(w)'
        PROVE  r \in Missing(w)
    <2>1. /\ r \in Receipts /\ selection'[w][r] # None /\ selection'[w][r].in
          /\ claimants[w][r] = NoClaimant
      BY <1>2 DEF Missing, Counted, Selected
    <2>2. selection'[w][r] = IF w = v /\ r = b THEN put ELSE selection[w][r]
      BY <1>3, <2>1 DEF Shape, TablesOK
    <2>3. selection[w][r] # None /\ selection[w][r].in
      BY <1>4, <2>1, <2>2 DEF row
    <2> QED
      BY <2>1, <2>3 DEF Missing, Counted, Selected
  <1>7. Claiming(p) => Holds(p)
    BY <1>1, <1>2, OnwardStep DEF Claiming
  <1>8. \E to : Move(p, to) /\ Local(to)
    BY <1>1, <1>2, OnwardStep
  <1> QED
    BY <1>2, <1>5, <1>6, <1>7, <1>8, HandStep

\* The pass that claims the receipt in its hand gives it a claimant.
LEMMA ClaimSound ==
  ASSUME Shape, Covered, FinalStays, NEW p \in Passes, PassClaim(p)
  PROVE  Sound
PROOF
  <1> DEFINE v == pass[p].w
             b == InHand(p)
             kind == IF b \in pass[p].resolved THEN "user" ELSE "identity"
             rest == pass[p].todo \ {b}
             over == [pass[p] EXCEPT !.todo = rest,
                                     !.at = IF rest = {} THEN "pool" ELSE "select"]
  <1>1. pass[p].at = "claim" /\ v \in Windows /\ DOMAIN pass[p] = Work
    BY DEF PassClaim, At, Shape, PassesOK, Local, Materialising
  <1>2. UNCHANGED <<window, selection, deaths>>
    BY DEF PassClaim, world
  <1>3. Kept
    BY ClaimStep DEF Shape
  <1>4. Local(Resting) /\ Local(over)
    BY <1>1 DEF Local, Materialising, Resting, Work
  <1>5. PICK to : Move(p, to) /\ Local(to)
    BY <1>4 DEF PassClaim, Done, Ends
  <1>6. PassesOK' /\ \A q \in Passes \ {p} : pass'[q] = pass[q]
    BY <1>2, <1>5, MoveKeeps DEF Shape
  <1>7. b \in Receipts => claimants'[v][b] # NoClaimant
    <2> HIDE DEF b
    <2>1. kind # None
      BY EpochsAssumption DEF EpochsAssumption
    <2> HIDE DEF kind
    <2> SUFFICES ASSUME b \in Receipts PROVE claimants'[v][b] # NoClaimant
      OBVIOUS
    <2>2. claimants[v][b] \in [draft : Kind, locked : Kind]
      BY <1>1 DEF Shape, TablesOK
    <2>3. CASE claimants' = claimants /\ claimants[v][b].locked = kind
      BY <2>1, <2>3 DEF NoClaimant
    <2>4. CASE claimants' = [claimants EXCEPT ![v][b].draft = kind]
      <3>1. claimants'[v][b] = [claimants[v][b] EXCEPT !.draft = kind]
        BY <1>1, <2>4 DEF Shape, TablesOK
      <3>2. claimants'[v][b].draft = kind
        BY <2>2, <3>1
      <3> QED
        BY <2>1, <3>2 DEF NoClaimant
    <2> QED
      BY <2>3, <2>4 DEF PassClaim, b, kind
  <1>8. ASSUME deaths' = 0, NEW w \in Windows, Status(w)' # "finalized", NEW r \in Missing(w)'
        PROVE  InHandOf(r, w)'
    <2>1. r \in Missing(w) /\ r \in Receipts /\ claimants'[w][r] = NoClaimant
      BY <1>3 DEF Kept, NoneMissed, Missing, Counted, Selected
    <2>2. Status(w) # "finalized"
      BY <1>8 DEF FinalStays, Status
    <2>3. PICK q \in Passes : Claiming(q) /\ pass[q].w = w /\ InHand(q) = r
      BY <1>2, <1>8, <2>1, <2>2 DEF Covered, InHandOf
    <2>4. pass'[q] = pass[q]
      BY <1>6, <1>7, <2>1, <2>3
    <2>5. Holds(q)
      BY <2>3, <2>4, StandsStill
    <2> QED
      BY <2>3, <2>5 DEF InHandOf, Holds
  <1>9. Covered'
    BY <1>2, <1>8 DEF Covered, Windows
  <1> QED
    BY <1>3, <1>6, <1>9 DEF Sound, Shape, Kept

\* After a death nothing is promised of coverage.
LEMMA DeathSound ==
  ASSUME Shape, Covered, FinalStays, NEW p \in Passes, PassDies(p)
  PROVE  Sound
PROOF
  <1>1. Kept
    BY QuietStep DEF PassDies, book, Shape
  <1>2. Local(Resting)
    BY DEF Local, Materialising, Resting
  <1>3. PassesOK'
    BY <1>2, MoveKeeps DEF PassDies, Ends, world, Shape
  <1>4. deaths' \in Nat /\ deaths' # 0
    BY DEF PassDies, Covered
  <1> QED
    BY <1>1, <1>3, <1>4 DEF Sound, Shape, Kept, Covered

\* The requests of approvers.
LEMMA RequestSound ==
  ASSUME Shape, Covered, FinalStays, NEW a \in Approvers,
         Handle(a) \/ \E w \in Windows : Ask(a, w)
  PROVE  Sound
PROOF
  <1> USE DEF world, book, Shape
  <1>1. SUFFICES Kept /\ UNCHANGED <<window, pass, deaths>>
    BY StandStep DEF PassesOK
  <1>2. CASE ReviewClose(a)
    <2>1. UNCHANGED <<selection, statement, window, pass, deaths>>
      BY <1>2 DEF ReviewClose
    <2>2. CASE UNCHANGED claimants
      BY <2>1, <2>2, QuietStep DEF rows
    <2>3. CASE Lockable(desk[a].w) /\ claimants' = Lock(desk[a].w)
      BY <2>1, <2>3, LockStep
    <2> QED
      BY <1>2, <2>1, <2>2, <2>3 DEF ReviewClose
  <1>3. CASE Seal(a)
    BY <1>3, SealStep DEF Seal
  <1>4. CASE PoolInsert(a) \/ FinalizeStart(a) \/ FinalizeRead(a)
    BY <1>4, QuietStep DEF PoolInsert, FinalizeStart, FinalizeRead
  <1>5. CASE \E w \in Windows : Ask(a, w)
    BY <1>5, QuietStep DEF Ask, ReviewBuild, SignData, PoolCheck
  <1> QED
    BY <1>2, <1>3, <1>4, <1>5 DEF Handle

\* Overrides set or deleted in a review.
LEMMA EditSound ==
  ASSUME Shape, Covered, FinalStays, NEW w \in Windows, NEW r \in Receipts, Edit(w, r)
  PROVE  Sound
PROOF
  <1>1. Kept /\ UNCHANGED <<window, pass, deaths>>
    BY QuietStep DEF Edit, Override, DeleteOverride, Adjust, world, book, Shape
  <1> QED
    BY <1>1, StandStep DEF Shape, PassesOK

\* The world around the passes.
LEMMA WorldSound ==
  ASSUME Shape, Covered, FinalStays,
         NextWindow \/ (\E r \in Receipts : Deliver(r)) \/ \E b \in Authors : Bind(b)
  PROVE  Sound
PROOF
  <1>1. Kept /\ UNCHANGED <<pass, deaths>>
    BY QuietStep DEF NextWindow, Deliver, Bind, book, Shape
  <1>2. window' \in Windows
    BY EpochsAssumption
       DEF NextWindow, Deliver, Bind, Shape, PassesOK, Windows, EpochsAssumption
  <1> QED
    BY <1>1, <1>2, StandStep

\* Who writes what.
LEMMA Writers ==
  ASSUME [Next]_vars
  PROVE  /\ \/ epoch' = epoch
            \/ \E p \in Passes : PassTransition(p) \/ PassEnsure(p)
            \/ \E a \in Approvers : ReviewClose(a) \/ Seal(a)
         /\ selection' = selection \/ \E p \in Passes : PassSelectWrite(p) \/ PassAttachWrite(p)
         /\ overrides' = overrides \/ \E w \in Windows, r \in Receipts : Edit(w, r)
         /\ \/ pool' = pool
            \/ \E p \in Passes : PassPoolInsert(p)
            \/ \E a \in Approvers : PoolInsert(a)
         /\ book' = book \/ \E a \in Approvers : Seal(a)
         /\ pass' = pass \/ \E p \in Passes : Collect(p) \/ PassDies(p)
         /\ \/ desk' = desk
            \/ \E a \in Approvers : Handle(a) \/ \E w \in Windows : Ask(a, w)
PROOF
  <1>1. CASE UNCHANGED vars
    BY <1>1 DEF vars, rows, book
  <1>2. CASE NextWindow \/ (\E r \in Receipts : Deliver(r)) \/ (\E b \in Authors : Bind(b))
    BY <1>2 DEF NextWindow, Deliver, Bind, rows
  <1>3. ASSUME NEW p \in Passes, Collect(p) \/ PassDies(p)
        PROVE  /\ UNCHANGED <<book, overrides, desk>>
               /\ epoch' = epoch \/ PassTransition(p) \/ PassEnsure(p)
               /\ selection' = selection \/ PassSelectWrite(p) \/ PassAttachWrite(p)
               /\ pool' = pool \/ PassPoolInsert(p)
    BY <1>3 DEF Collect, PassStart, PassBuild, PassTransition, PassEnsure, PassCandidates,
                PassSelect, PassSelectWrite, PassAttach, PassAttachWrite, PassClaim,
                PassPool, PassPoolInsert, PassDies, rows
  <1>4. ASSUME NEW a \in Approvers, Handle(a) \/ \E w \in Windows : Ask(a, w)
        PROVE  /\ UNCHANGED <<selection, overrides, pass>>
               /\ epoch' = epoch \/ ReviewClose(a) \/ Seal(a)
               /\ pool' = pool \/ PoolInsert(a)
               /\ book' = book \/ Seal(a)
    BY <1>4 DEF Handle, ReviewClose, PoolInsert, FinalizeStart, FinalizeRead, Seal,
                Ask, ReviewBuild, SignData, PoolCheck, rows
  <1>5. ASSUME NEW w \in Windows, NEW r \in Receipts, Edit(w, r)
        PROVE  UNCHANGED <<epoch, selection, pool, book, pass, desk>>
    BY <1>5 DEF Edit, DeleteOverride, Override, Adjust, rows
  <1>6. CASE \E p \in Passes : Collect(p) \/ PassDies(p)
    BY <1>3, <1>6
  <1>7. CASE \E a \in Approvers : Handle(a) \/ \E w \in Windows : Ask(a, w)
    BY <1>4, <1>7
  <1>8. CASE \E w \in Windows, r \in Receipts : Edit(w, r)
    BY <1>5, <1>8
  <1> QED
    BY <1>1, <1>2, <1>6, <1>7, <1>8 DEF Next

\* No step touches the row of a finalized epoch.
LEMMA EpochsStay == EpochRows /\ [Next]_vars => FinalStays
PROOF
  <1> SUFFICES ASSUME EpochRows, [Next]_vars PROVE FinalStays
    OBVIOUS
  <1>1. CASE epoch' = epoch
    BY <1>1 DEF FinalStays, EpochRows, Windows
  <1>2. ASSUME NEW p \in Passes, PassTransition(p) PROVE FinalStays
    <2> DEFINE w == pass[p].w
               v == pass[p].stale
               row == ToReview(v, pass[p].artifacts)
               closed == [epoch EXCEPT ![v] = row]
    <2>1. CASE epoch' # epoch
      <3>1. Status(w) = "none" /\ epoch' = [closed EXCEPT ![w].status = "open"]
        BY <1>2, <2>1 DEF PassTransition
      <3>2. Status(v) = "finalized" => row = epoch[v]
        BY DEF ToReview
      <3> HIDE DEF row, w, v
      <3>3. DOMAIN epoch' = Windows
        BY <3>1 DEF EpochRows
      <3>4. ASSUME NEW x \in Windows, Status(x) = "finalized"
            PROVE  epoch'[x] = epoch[x]
        <4>1. x # w
          BY <3>1, <3>4
        <4>2. closed[x] = epoch[x]
          BY <3>2, <3>4 DEF EpochRows
        <4> HIDE DEF closed
        <4> QED
          BY <3>1, <3>3, <4>1, <4>2
      <3> QED
        BY <3>3, <3>4 DEF FinalStays, EpochRows, Windows
    <2> QED
      BY <1>1, <2>1
  <1>3. ASSUME NEW p \in Passes, PassEnsure(p) PROVE FinalStays
    <2>1. CASE epoch' # epoch
      <3>1. /\ Status(pass[p].w) = "none"
            /\ epoch' = [epoch EXCEPT ![pass[p].w].status = "open"]
        BY <1>3, <2>1 DEF PassEnsure
      <3> QED
        BY <3>1 DEF FinalStays, EpochRows, Windows, Status
    <2> QED
      BY <1>1, <2>1
  <1>4. ASSUME NEW a \in Approvers, ReviewClose(a) PROVE FinalStays
    <2>1. CASE epoch' # epoch
      <3> DEFINE w == desk[a].w
      <3>1. Status(w) # "finalized" /\ \E e : epoch' = [epoch EXCEPT ![w] = e]
        BY <1>4, <2>1 DEF ReviewClose
      <3> QED
        BY <3>1 DEF FinalStays, EpochRows, Windows, Status
    <2> QED
      BY <1>1, <2>1
  <1>5. ASSUME NEW a \in Approvers, Seal(a) PROVE FinalStays
    <2>1. CASE epoch' # epoch
      <3>1. /\ Status(desk[a].w) = "review"
            /\ epoch' = [epoch EXCEPT ![desk[a].w].status = "finalized"]
        BY <1>5, <2>1 DEF Seal
      <3> QED
        BY <3>1 DEF FinalStays, EpochRows, Windows, Status
    <2> QED
      BY <1>1, <2>1
  <1> QED
    BY <1>1, <1>2, <1>3, <1>4, <1>5, Writers

\* SealedIsFrozen, of one step: what it says of the selection.
LateStep ==
  \A w \in Windows :
    Status(w) = "finalized" =>
      /\ Writing(w)' \subseteq Writing(w)
      /\ selection'[w] # selection[w] => Writing(w)' # Writing(w)

\* Only the trigger of an epoch that is not finalized lets a pass write.
LEMMA PastTheTrigger ==
  ASSUME PassesOK, NEW p \in Passes, Collect(p) \/ PassDies(p)
  PROVE  \E to : /\ Move(p, to)
                 /\ \/ to.at \notin {"write", "attachWrite"}
                    \/ to.w = pass[p].w /\ ~Frozen(pass[p].w) /\ selection' = selection
PROOF
  <1> DEFINE Elsewhere == \E to : Move(p, to) /\ to.at \notin {"write", "attachWrite"}
  <1>1. Ends(p) => Elsewhere
    BY DEF Ends, Resting
  <1>2. \A w : Enter(p, w) => Elsewhere
    BY <1>1 DEF Enter
  <1>3. CASE PassStart(p) \/ PassBuild(p)
    <2>1. \A w, v, artifacts :
            /\ [at |-> "ensure", w |-> w].at \notin {"write", "attachWrite"}
            /\ [at |-> "build", w |-> w, stale |-> v].at \notin {"write", "attachWrite"}
            /\ [at |-> "transition", w |-> w, stale |-> v, artifacts |-> artifacts].at
                 \notin {"write", "attachWrite"}
      OBVIOUS
    <2> QED
      BY <1>3, <2>1 DEF PassStart, PassBuild
  <1>4. CASE PassTransition(p) \/ PassEnsure(p)
    BY <1>1, <1>2, <1>4 DEF PassTransition, PassEnsure
  <1>5. CASE PassCandidates(p)
    <2>1. \A at, w, todo, known, included, resolved :
            [at |-> at, w |-> w, todo |-> todo, known |-> known,
             included |-> included, resolved |-> resolved].at = at
      OBVIOUS
    <2> QED
      BY <1>5, <2>1 DEF PassCandidates
  <1>6. pass[p].at \in Materialising /\ Done(p) => Elsewhere
    <2> DEFINE rest == pass[p].todo \ {InHand(p)}
               at == IF rest = {} THEN "pool" ELSE "select"
    <2>1. Done(p) => Move(p, [pass[p] EXCEPT !.todo = rest, !.at = at])
      BY DEF Done
    <2>2. at \notin {"write", "attachWrite"}
      OBVIOUS
    <2> HIDE DEF rest, at
    <2> DEFINE to == [pass[p] EXCEPT !.todo = rest, !.at = at]
    <2>3. pass[p].at \in Materialising => to.at = at
      BY Places DEF Work
    <2> QED
      BY <2>1, <2>2, <2>3
  <1>7. pass[p].at \in Materialising /\ Onward(p) => Elsewhere
    <2>1. pass[p].at \in Materialising => [pass[p] EXCEPT !.at = "claim"].at = "claim"
      BY Places DEF Work
    <2> QED
      BY <1>6, <2>1 DEF Onward
  <1>8. CASE PassSelect(p) \/ PassAttach(p)
    <2>1. pass[p].at \in Materialising /\ selection' = selection
      BY <1>8 DEF PassSelect, PassAttach, At, Materialising, rows
    <2>2. Trigger(p, "write") \/ Trigger(p, "attachWrite") \/ Onward(p)
      BY <1>8 DEF PassSelect, PassAttach
    <2> QED
      BY <1>7, <2>1, <2>2, TriggerStep
  <1>9. CASE PassSelectWrite(p) \/ PassAttachWrite(p)
    <2>1. pass[p].at \in Materialising
      BY <1>9 DEF PassSelectWrite, PassAttachWrite, At, Materialising
    <2>2. Move(p, [pass[p] EXCEPT !.at = "attach"]) \/ Onward(p)
      BY <1>9 DEF PassSelectWrite, PassAttachWrite
    <2>3. [pass[p] EXCEPT !.at = "attach"].at = "attach"
      BY <2>1, Places DEF Work
    <2> QED
      BY <1>7, <2>1, <2>2, <2>3
  <1>10. CASE PassClaim(p)
    <2>1. pass[p].at \in Materialising /\ (Ends(p) \/ Done(p))
      BY <1>10 DEF PassClaim, At, Materialising
    <2> QED
      BY <1>1, <1>6, <2>1
  <1>11. CASE PassPool(p) \/ PassPoolInsert(p) \/ PassDies(p)
    <2>1. \A w : [at |-> "insert", w |-> w].at \notin {"write", "attachWrite"}
      OBVIOUS
    <2> QED
      BY <1>1, <1>11, <2>1 DEF PassPool, PassPoolInsert, PassDies
  <1> QED
    BY <1>3, <1>4, <1>5, <1>8, <1>9, <1>10, <1>11 DEF Collect

\* A row lands in a finalized epoch only from a pass that was past the trigger,
\* and that pass is past it no more.
LEMMA LateRows == Shape /\ [Next]_vars => LateStep
PROOF
  <1> SUFFICES ASSUME Shape, [Next]_vars PROVE LateStep
    OBVIOUS
  <1>1. CASE pass' = pass /\ selection' = selection
    BY <1>1 DEF LateStep, Writing
  <1>2. ASSUME NEW p \in Passes, Collect(p) \/ PassDies(p) PROVE LateStep
    <2>1. PICK to : /\ Move(p, to)
                    /\ \/ to.at \notin {"write", "attachWrite"}
                       \/ to.w = pass[p].w /\ ~Frozen(pass[p].w) /\ selection' = selection
      BY <1>2, PastTheTrigger DEF Shape
    <2>2. pass'[p] = to /\ \A q \in Passes \ {p} : pass'[q] = pass[q]
      BY <2>1 DEF Move, Shape, PassesOK
    <2>3. ASSUME NEW w \in Windows, Status(w) = "finalized"
          PROVE  Writing(w)' \subseteq Writing(w)
      BY <2>1, <2>2, <2>3 DEF Writing, Frozen
    <2>4. ASSUME NEW w \in Windows, selection'[w] # selection[w]
          PROVE  Writing(w)' # Writing(w)
      <3>1. PassSelectWrite(p) \/ PassAttachWrite(p)
        BY <1>2, <2>4 DEF Collect, PassStart, PassBuild, PassTransition, PassEnsure,
             PassCandidates, PassSelect, PassAttach, PassClaim, PassPool, PassPoolInsert,
             PassDies, rows
      <3>2. /\ pass[p].at \in {"write", "attachWrite"}
            /\ \E x : selection' = [selection EXCEPT ![pass[p].w][InHand(p)] = x]
        BY <3>1 DEF PassSelectWrite, PassAttachWrite, At
      <3>3. pass[p].w = w
        BY <2>4, <3>2 DEF Shape, TablesOK
      <3>4. p \in Writing(w)
        BY <3>2, <3>3 DEF Writing
      <3>5. to.at \notin {"write", "attachWrite"}
        BY <2>1, <2>4
      <3>6. p \notin Writing(w)'
        BY <2>2, <3>5 DEF Writing
      <3> QED
        BY <3>4, <3>6
    <2> QED
      BY <2>3, <2>4 DEF LateStep
  <1>3. CASE pass' = pass
    <2>1. ASSUME NEW p \in Passes, PassSelectWrite(p) \/ PassAttachWrite(p)
          PROVE  LateStep
      BY <1>2, <2>1 DEF Collect
    <2> QED
      BY <1>1, <1>3, <2>1, Writers
  <1> QED
    BY <1>2, <1>3, Writers

\* Whatever happens, shape and coverage are kept and what is sealed stays.
LEMMA StepSound == Shape /\ Covered /\ FinalStays /\ [Next]_vars => Sound
PROOF
  <1> SUFFICES ASSUME Shape, Covered, FinalStays, [Next]_vars PROVE Sound
    OBVIOUS
  <1>1. CASE UNCHANGED vars
    <2>1. Kept /\ UNCHANGED <<window, pass, deaths>>
      BY <1>1, QuietStep DEF vars, world, book, Shape
    <2> QED
      BY <2>1, StandStep DEF Shape, PassesOK
  <1>2. CASE \E p \in Passes : Collect(p) \/ PassDies(p)
    <2> SUFFICES ASSUME NEW p \in Passes, Collect(p) \/ PassDies(p) PROVE Sound
      BY <1>2
    <2> QED
      BY PassStep, SelectSound, WriteSound, AttachSound, AttachWriteSound, ClaimSound,
         DeathSound DEF Collect
  <1>3. CASE NextWindow \/ (\E r \in Receipts : Deliver(r)) \/ \E b \in Authors : Bind(b)
    BY <1>3, WorldSound
  <1>4. CASE \E a \in Approvers : Handle(a)
    BY <1>4, RequestSound
  <1>5. CASE \E a \in Approvers, w \in Windows : Ask(a, w)
    BY <1>5, RequestSound
  <1>6. CASE \E w \in Windows, r \in Receipts : Edit(w, r)
    BY <1>6, EditSound
  <1> QED
    BY <1>1, <1>2, <1>3, <1>4, <1>5, <1>6 DEF Next

\* At first nothing is selected.
LEMMA InitCovered == Init => Covered
PROOF
  BY DEF Init, Covered, Missing, Counted, Selected

-----------------------------------------------------------------------------
(* The theorems *)

\* The rows keep their shape, and while no pass has died a counted receipt
\* without a claimant is one that a pass has in hand.
THEOREM Invariance == Spec => [](EpochRows /\ Shape /\ Covered)
PROOF
  <1>1. Init => EpochRows /\ Shape /\ Covered
    BY InitShape, InitCovered DEF Init, EpochRows
  <1>2. EpochRows /\ Shape /\ Covered /\ [Next]_vars => (EpochRows /\ Shape /\ Covered)'
    BY EpochsStay, StepSound DEF Sound, FinalStays
  <1> QED
    BY <1>1, <1>2, PTL DEF Spec

\* However many passes and approvers race: a finalized epoch keeps its
\* statement, its selection takes at most one row from each pass that was past
\* the trigger when it was finalized, and no locked claimant is replaced.
THEOREM SealedStaysFrozen == Spec => SealedIsFrozen
PROOF
  <1>1. EpochRows /\ Shape /\ Covered /\ [Next]_vars => [FrozenStep /\ LateStep]_vars
    BY EpochsStay, StepSound, LateRows DEF Sound
  <1>2. Spec => [][FrozenStep /\ LateStep]_vars
    BY <1>1, Invariance, PTL DEF Spec
  <1>3. FrozenStep /\ LateStep =>
          \A w \in Windows :
            /\ Status(w) = "finalized" =>
                 /\ statement'[w] = statement[w]
                 /\ Writing(w)' \subseteq Writing(w)
                 /\ selection'[w] # selection[w] => Writing(w)' # Writing(w)
            /\ \A r \in Receipts : claimants[w][r].locked # None =>
                 claimants'[w][r].locked = claimants[w][r].locked
    BY DEF FrozenStep, LateStep
  <1> QED
    BY <1>2, <1>3, PTL DEF SealedIsFrozen

\* One pass at a time that does not die leaves every epoch it materialised
\* with a claimant of each receipt that counts.
THEOREM LivingPassCompletes ==
  ASSUME NEW p, Passes = {p}
  PROVE  Spec => []CompleteUnlessDied
PROOF
  <1>1. ASSUME Shape, Covered PROVE CompleteUnlessDied
    <2> SUFFICES ASSUME deaths = 0, pass[p].at \in {"pool", "insert"},
                        Status(pass[p].w) = "open"
                 PROVE  Missing(pass[p].w) = {}
      BY DEF CompleteUnlessDied, MaterializedIsComplete
    <2>1. pass[p].w \in Windows
      BY <1>1 DEF Shape, PassesOK, Local
    <2>2. \A r \in Missing(pass[p].w) : Claiming(p)
      BY <1>1, <2>1 DEF Covered, InHandOf
    <2> QED
      BY <2>2 DEF Claiming
  <1>2. Shape /\ Covered => CompleteUnlessDied
    BY <1>1
  <1> QED
    BY <1>2, Invariance, PTL

-----------------------------------------------------------------------------
(* What a statement is made of *)

LEMMA AuthorsAre ==
  /\ IsFiniteSet(Authors) /\ Authors \subseteq Nat
  /\ \A r \in Receipts : Author[r] \in Authors
PROOF
  <1>1. Author \in [Receipts -> Nat] /\ IsFiniteSet(Receipts)
    BY EpochsAssumption DEF EpochsAssumption
  <1>2. Author \in Surjection(Receipts, Authors)
    BY <1>1 DEF Surjection, Authors, Range
  <1>3. IsFiniteSet(Authors)
    BY <1>1, <1>2, FS_Surjection
  <1> QED
    BY <1>1, <1>3 DEF Authors, Range

\* A finite set of numbers has a greatest one.
LEMMA MaxIs ==
  ASSUME NEW S \in SUBSET Nat, IsFiniteSet(S), S # {}
  PROVE  Max(S) \in S /\ \A y \in S : Max(S) >= y
PROOF
  <1> DEFINE P == {s \in SUBSET S : s = {} \/ \E x \in s : \A y \in s : x >= y}
  <1>1. {} \in P
    OBVIOUS
  <1>2. ASSUME NEW s \in SUBSET S, NEW x \in S \ s, s \in P PROVE s \cup {x} \in P
    <2>1. CASE s = {}
      BY <2>1
    <2>2. CASE \E z \in s : \A y \in s : z >= y
      <3>1. PICK z \in s : \A y \in s : z >= y
        BY <2>2
      <3>2. CASE z >= x
        BY <3>1, <3>2
      <3>3. CASE x >= z
        <4>1. \A y \in s \cup {x} : x >= y
          BY <3>1, <3>3
        <4> QED
          BY <4>1
      <3> QED
        BY <3>2, <3>3
    <2> QED
      BY <1>2, <2>1, <2>2
  <1>3. S \in P
    <2> HIDE DEF P
    <2>1. \A s \in SUBSET S : s \in P
      BY <1>1, <1>2, FiniteSetsAll
    <2> QED
      BY <2>1
  <1> QED
    BY <1>3 DEF Max

\* No two identities have one rank.
LEMMA RanksAre == Ranks(Identities, Rank)
PROOF
  <1> DEFINE top == Max(Authors)
             up(k) == IF k[1] = "user" THEN 1 + top ELSE 0
  <1>1. \A k \in Identities : /\ k[1] \in {"identity", "user"} /\ k[2] \in Authors
                              /\ k = <<k[1], k[2]>>
    BY DEF Identities
  <1>2. \A k \in Identities : top \in Nat /\ k[2] \in Nat /\ k[2] =< top
    <2>1. CASE Authors = {}
      BY <1>1, <2>1
    <2>2. CASE Authors # {}
      BY <1>1, <2>2, MaxIs, AuthorsAre
    <2> QED
      BY <2>1, <2>2
  <1>3. \A k \in Identities : Rank[k] = k[2] + up(k)
    BY DEF Rank
  <1> HIDE DEF top
  <1>4. \A k \in Identities : Rank[k] \in Nat
    BY <1>2, <1>3
  <1>5. ASSUME NEW j \in Identities, NEW k \in Identities, Rank[j] = Rank[k] PROVE j = k
    <2>1. j[1] = k[1] /\ j[2] = k[2]
      BY <1>1, <1>2, <1>3, <1>5
    <2> QED
      BY <1>1, <2>1
  <1> QED
    BY <1>4, <1>5 DEF Ranks

LEMMA RanksOfSome ==
  ASSUME NEW K \in SUBSET Identities
  PROVE  IsFiniteSet(K) /\ Ranks(K, Rank)
PROOF
  <1>1. IsFiniteSet({"identity", "user"})
    <2>1. IsFiniteSet({"identity"} \cup {"user"})
      BY FS_Singleton, FS_AddElement
    <2>2. {"identity"} \cup {"user"} = {"identity", "user"}
      OBVIOUS
    <2> QED
      BY <2>1, <2>2
  <1>2. IsFiniteSet(Identities)
    BY <1>1, AuthorsAre, FS_Product DEF Identities
  <1> QED
    BY <1>2, RanksAre, FS_Subset DEF Ranks

\* What approvers sign and store follows from the allocation and the pool.
Computed(st) == st.lines = LargestRemainder(st.allocation, st.pool, Rank)

\* The tables a statement is computed from.
InputsOK ==
  /\ selection \in [Windows -> [Receipts -> Row \cup {None}]]
  /\ overrides \in [Windows -> [Receipts -> OverrideUnits \cup {None}]]
  /\ pool \in [Windows -> SUBSET Components]

LEMMA PoolTotalType ==
  ASSUME InputsOK, NEW w \in Windows
  PROVE  PoolTotal(w) \in Nat
PROOF
  <1>1. pool[w] \in SUBSET Components
    BY DEF InputsOK
  <1>2. IsFiniteSet(pool[w]) /\ \A c \in pool[w] : Credits[c] \in Nat
    BY <1>1, EpochsAssumption, FS_Subset DEF EpochsAssumption
  <1> QED
    BY <1>2, SumNat DEF PoolTotal, Sum

LEMMA AllocationType ==
  ASSUME TablesOK, InputsOK, NEW w \in Windows, Claimed(w)
  PROVE  /\ Allocation(w) \in [DOMAIN Allocation(w) -> Nat]
         /\ DOMAIN Allocation(w) \in SUBSET Identities
PROOF
  <1> DEFINE units == [r \in Receipts |-> Units(w, r)]
             K == {Key(w, r) : r \in Counted(w)}
  <1>1. Counted(w) \subseteq Receipts
    BY DEF Counted, Selected
  <1>2. \A r \in Counted(w) : Key(w, r) \in Identities
    <2> SUFFICES ASSUME NEW r \in Counted(w) PROVE Key(w, r) \in Identities
      OBVIOUS
    <2>1. claimants[w][r].locked \in Kind /\ claimants[w][r].locked # None
      BY <1>1 DEF Claimed, TablesOK
    <2> QED
      BY <1>1, <2>1, AuthorsAre DEF Key, Identities, Kind
  <1>3. K \in SUBSET Identities
    BY <1>2
  <1>4. \A r \in Receipts : units[r] \in Nat
    <2> SUFFICES ASSUME NEW r \in Receipts PROVE Units(w, r) \in Nat
      OBVIOUS
    <2>1. overrides[w][r] \in OverrideUnits \cup {None}
      BY DEF InputsOK
    <2> QED
      BY <2>1, EpochsAssumption DEF EpochsAssumption, Units
  <1>5. ASSUME NEW k PROVE SumFunctionOnSet(units, OfKey(w, k)) \in Nat
    <2>1. OfKey(w, k) \in SUBSET Receipts
      BY <1>1 DEF OfKey
    <2>2. IsFiniteSet(OfKey(w, k)) /\ \A r \in OfKey(w, k) : units[r] \in Nat
      BY <1>4, <2>1, EpochsAssumption, FS_Subset DEF EpochsAssumption
    <2> HIDE DEF units
    <2> QED
      BY <2>2, SumNat DEF Sum
  <1>6. Allocation(w) = [k \in K |-> SumFunctionOnSet(units, OfKey(w, k))]
    BY DEF Allocation
  <1> HIDE DEF units, K
  <1> QED
    BY <1>3, <1>5, <1>6

\* The lines of an allocation: one per claimant, or none.
LEMMA LinesType ==
  ASSUME NEW K \in SUBSET Identities, NEW units \in [K -> Nat], NEW total \in Nat
  PROVE  LET lines == LargestRemainder(units, total, Rank) IN
         /\ lines = Nobody \/ lines \in [K -> Nat]
         /\ DOMAIN lines \in SUBSET Identities /\ lines \in Portions
         /\ DOMAIN lines = {} \/ SumFunction(lines) = total
PROOF
  <1> DEFINE lines == LargestRemainder(units, total, Rank)
  <1>1. DOMAIN units = K /\ (\A k \in DOMAIN units : units[k] \in Nat)
    OBVIOUS
  <1>2. IsFiniteSet(K) /\ Ranks(K, Rank)
    BY RanksOfSome
  <1>3. /\ lines = Nobody \/ lines \in [K -> Nat]
        /\ DOMAIN lines = {} \/ SumFunction(lines) = total
    BY <1>1, <1>2, SharesType
  <1> HIDE DEF lines
  <1>4. Nobody \in [{} -> Nat]
    BY DEF Nobody
  <1>5. lines \in [{} -> Nat] \/ lines \in [K -> Nat]
    BY <1>3, <1>4
  <1>6. lines \in Portions /\ DOMAIN lines \in SUBSET Identities
    BY <1>5 DEF Portions
  <1> QED
    BY <1>3, <1>6 DEF lines

LEMMA ContentType ==
  ASSUME TablesOK, InputsOK, NEW w \in Windows, Claimed(w), NEW total \in Nat
  PROVE  LET c == Content(w, total) IN
         /\ c \in Statement /\ Computed(c)
         /\ c.pool = total /\ c.allocation = Allocation(w)
         /\ UNION Range(c.receipts) \subseteq Selected(w)
PROOF
  <1> DEFINE K == DOMAIN Allocation(w)
             lines == LargestRemainder(Allocation(w), total, Rank)
             from == [k \in DOMAIN lines |-> OfKey(w, k)]
             c == Content(w, total)
  <1>1. Allocation(w) \in [K -> Nat] /\ K \in SUBSET Identities
    BY AllocationType
  <1>2. Allocation(w) \in Portions
    BY <1>1 DEF Portions
  <1>3. lines \in Portions /\ DOMAIN lines \in SUBSET Identities
    <2> HIDE DEF K
    <2> QED
      BY <1>1, LinesType
  <1>4. c = [allocation |-> Allocation(w), pool |-> total, lines |-> lines, receipts |-> from]
    BY DEF Content
  <1> HIDE DEF lines
  <1>5. \A k : OfKey(w, k) \subseteq Selected(w) /\ OfKey(w, k) \subseteq Receipts
    BY DEF OfKey, Counted, Selected
  <1>6. from \in Origins
    BY <1>3, <1>5 DEF Origins
  <1>7. UNION Range(from) \subseteq Selected(w)
    BY <1>5 DEF Range
  <1> HIDE DEF from, c
  <1>8. c \in Statement
    BY <1>2, <1>3, <1>4, <1>6 DEF Statement
  <1> QED
    BY <1>4, <1>7, <1>8 DEF Computed, lines, c

-----------------------------------------------------------------------------
(* The tables and the requests are well formed *)

Statuses == {"none", "open", "review", "finalized"}
EpochRow == [status : Statuses, artifacts : ArtifactSet \cup {None}]
EpochOK(e) == e \in EpochRow /\ ((e.artifacts = None) = (e.status \in {"none", "open"}))

EpochsOK == DOMAIN epoch = Windows /\ \A w \in Windows : EpochOK(epoch[w])
BookOK ==
  /\ statement \in [Windows -> Statement \cup {None}]
  /\ signatures \in [Windows -> [Approvers -> Signable \cup {None}]]
  /\ \A w \in Windows :
       /\ (statement[w] = None) = (Status(w) # "finalized")
       /\ statement[w] # None => Computed(statement[w])
PlaceOK(to) ==
  /\ to.at \in PassPlaces
  /\ to.at \in {"build", "transition"} => to.stale \in Windows
  /\ to.at = "transition" => to.artifacts \in ArtifactSet
SeatOK(it) ==
  /\ it.at \in DeskPlaces
  /\ it.at # "idle" => it.w \in Windows
  /\ it.at = "review" => it.artifacts \in ArtifactSet
  /\ it.at = "pool" => it.component \in Components
  /\ it.at = "compute" => it.pool \in Nat
  /\ it.at = "seal" => it.content \in Statement /\ Computed(it.content)
RequestsOK ==
  /\ \A p \in Passes : PlaceOK(pass[p])
  /\ DOMAIN desk = Approvers /\ \A a \in Approvers : SeatOK(desk[a])
CountsOK ==
  /\ arrived \subseteq Receipts /\ bound \subseteq Authors
  /\ asks \in 0..MaxEvents /\ deaths \in 0..MaxDeaths
WellFormed == InputsOK /\ EpochsOK /\ BookOK /\ RequestsOK /\ CountsOK

LEMMA ArtifactsType ==
  ASSUME NEW w
  PROVE  Artifacts(w) \in ArtifactSet
PROOF
  <1> DEFINE of(b) == {r \in Selected(w) : selection[w][r].user /\ Author[r] = b}
  <1>1. Selected(w) \in SUBSET Receipts
    BY DEF Selected
  <1>2. ASSUME NEW b PROVE Cardinality(of(b)) \in Nat
    <2>1. of(b) \in SUBSET Receipts
      BY <1>1
    <2>2. IsFiniteSet(of(b))
      BY <2>1, EpochsAssumption, FS_Subset DEF EpochsAssumption
    <2> QED
      BY <2>2, FS_CardinalityType
  <1> HIDE DEF of
  <1>3. [b \in Authors |-> Cardinality(of(b))] \in [Authors -> Nat]
    BY <1>2
  <1>4. Artifacts(w) = [receipts |-> Selected(w), byUser |-> [b \in Authors |-> Cardinality(of(b))]]
    BY DEF Artifacts, of
  <1> QED
    BY <1>1, <1>3, <1>4 DEF ArtifactSet

\* A row of the epochs' table after its review was closed.
LEMMA ReviewedRow ==
  ASSUME EpochsOK, NEW w \in Windows, NEW artifacts \in ArtifactSet
  PROVE  EpochOK(ToReview(w, artifacts))
PROOF
  <1>1. EpochOK(epoch[w])
    BY DEF EpochsOK
  <1>2. artifacts # None
    BY NoneIsNothing DEF NoneIsNothing
  <1> QED
    BY <1>1, <1>2 DEF ToReview, EpochOK, EpochRow, Statuses

LEMMA OpenedRow ==
  ASSUME NEW e, EpochOK(e), e.status = "none"
  PROVE  EpochOK([e EXCEPT !.status = "open"])
PROOF
  BY DEF EpochOK, EpochRow, Statuses

LEMMA SealedRow ==
  ASSUME NEW e, EpochOK(e), e.status = "review"
  PROVE  EpochOK([e EXCEPT !.status = "finalized"])
PROOF
  BY DEF EpochOK, EpochRow, Statuses

\* One row of the epochs' table is replaced by another.
LEMMA RowReplaced ==
  ASSUME EpochsOK, NEW w \in Windows, NEW e, EpochOK(e), epoch' = [epoch EXCEPT ![w] = e]
  PROVE  EpochsOK'
PROOF
  <1>1. DOMAIN epoch' = Windows /\ \A v \in Windows : epoch'[v] = IF v = w THEN e ELSE epoch[v]
    BY DEF EpochsOK
  <1>2. \A v \in Windows : EpochOK(epoch'[v])
    BY <1>1 DEF EpochsOK
  <1> QED
    BY <1>1, <1>2 DEF EpochsOK, EpochOK, Windows, EpochRow, Statuses, ArtifactSet, Authors

\* What the steps that write epochs make of them, row by row.
LEMMA TransitionRows ==
  ASSUME PassesOK, RequestsOK, EpochsOK, NEW p \in Passes, PassTransition(p)
  PROVE  \/ epoch' = epoch
         \/ LET v == pass[p].stale
                w == pass[p].w
            IN /\ v \in Windows /\ w \in Windows /\ Status(w) = "none" /\ Opened \ {v} = {}
               /\ pass[p].artifacts \in ArtifactSet
               /\ \A x \in Windows :
                    epoch'[x] = IF x = w THEN [epoch[w] EXCEPT !.status = "open"]
                                ELSE IF x = v THEN ToReview(v, pass[p].artifacts)
                                ELSE epoch[x]
               /\ DOMAIN epoch' = Windows
PROOF
  <1> DEFINE v == pass[p].stale
             w == pass[p].w
             closed == [epoch EXCEPT ![v] = ToReview(v, pass[p].artifacts)]
  <1>1. pass[p].at = "transition"
    BY DEF PassTransition, At
  <1>2. v \in Windows /\ w \in Windows /\ pass[p].artifacts \in ArtifactSet
    BY <1>1 DEF PassesOK, Local, RequestsOK, PlaceOK
  <1>3. SUFFICES ASSUME epoch' # epoch
                 PROVE  /\ Status(w) = "none" /\ Opened \ {v} = {}
                        /\ \A x \in Windows :
                             epoch'[x] = IF x = w THEN [epoch[w] EXCEPT !.status = "open"]
                                         ELSE IF x = v THEN ToReview(v, pass[p].artifacts)
                                         ELSE epoch[x]
                        /\ DOMAIN epoch' = Windows
    BY <1>2
  <1>4. Status(w) = "none" /\ Opened \ {v} = {} /\ epoch' = [closed EXCEPT ![w].status = "open"]
    BY <1>3 DEF PassTransition
  <1>5. DOMAIN epoch = Windows
    BY DEF EpochsOK
  <1>6. v = w => ToReview(v, pass[p].artifacts) = epoch[w]
    BY <1>4 DEF ToReview
  <1>7. DOMAIN closed = Windows /\ closed[w] = epoch[w]
    BY <1>2, <1>5, <1>6
  <1>8. \A x \in Windows : closed[x] = IF x = v THEN ToReview(v, pass[p].artifacts) ELSE epoch[x]
    BY <1>2, <1>5
  <1> HIDE DEF closed, v, w
  <1>9. epoch' = [closed EXCEPT ![w] = [closed[w] EXCEPT !.status = "open"]]
    BY <1>4
  <1>10. \A x \in Windows : epoch'[x] = IF x = w THEN [epoch[w] EXCEPT !.status = "open"] ELSE closed[x]
    BY <1>2, <1>7, <1>9
  <1>11. DOMAIN epoch' = Windows
    BY <1>7, <1>9
  <1> QED
    BY <1>4, <1>8, <1>10, <1>11

LEMMA EnsureRows ==
  ASSUME NEW p \in Passes, PassEnsure(p)
  PROVE  \/ epoch' = epoch
         \/ LET w == pass[p].w IN
            /\ Status(w) = "none" /\ Opened = {}
            /\ epoch' = [epoch EXCEPT ![w] = [epoch[w] EXCEPT !.status = "open"]]
PROOF
  BY DEF PassEnsure

LEMMA EpochsStep ==
  ASSUME PassesOK, WellFormed, [Next]_vars
  PROVE  EpochsOK'
PROOF
  <1>0. RequestsOK /\ EpochsOK
    BY DEF WellFormed
  <1>1. CASE epoch' = epoch
    BY <1>0, <1>1 DEF EpochsOK, EpochOK, Windows, EpochRow, Statuses, ArtifactSet, Authors
  <1>2. ASSUME NEW p \in Passes, PassTransition(p) PROVE EpochsOK'
    <2> DEFINE v == pass[p].stale
               w == pass[p].w
    <2>1. CASE epoch' = epoch
      BY <1>1, <2>1
    <2>2. CASE epoch' # epoch
      <3>1. /\ v \in Windows /\ w \in Windows /\ Status(w) = "none"
            /\ pass[p].artifacts \in ArtifactSet
            /\ \A x \in Windows :
                 epoch'[x] = IF x = w THEN [epoch[w] EXCEPT !.status = "open"]
                             ELSE IF x = v THEN ToReview(v, pass[p].artifacts)
                             ELSE epoch[x]
            /\ DOMAIN epoch' = Windows
        BY <1>0, <1>2, <2>2, TransitionRows
      <3>2. EpochOK([epoch[w] EXCEPT !.status = "open"])
        BY <1>0, <3>1, OpenedRow DEF EpochsOK, Status
      <3>3. EpochOK(ToReview(v, pass[p].artifacts))
        BY <1>0, <3>1, ReviewedRow
      <3> HIDE DEF v, w
      <3>4. \A x \in Windows : EpochOK(epoch'[x])
        BY <1>0, <3>1, <3>2, <3>3 DEF EpochsOK
      <3> QED
        BY <3>1, <3>4 DEF EpochsOK, EpochOK, Windows, EpochRow, Statuses, ArtifactSet, Authors
    <2> QED
      BY <2>1, <2>2
  <1>3. ASSUME NEW p \in Passes, PassEnsure(p) PROVE EpochsOK'
    <2>1. pass[p].w \in Windows
      BY <1>3 DEF PassEnsure, At, PassesOK, Local
    <2>2. CASE epoch' = epoch
      BY <1>1, <2>2
    <2>3. CASE epoch' # epoch
      <3>1. /\ Status(pass[p].w) = "none"
            /\ epoch' = [epoch EXCEPT ![pass[p].w] = [epoch[pass[p].w] EXCEPT !.status = "open"]]
        BY <1>3, <2>3, EnsureRows
      <3>2. EpochOK([epoch[pass[p].w] EXCEPT !.status = "open"])
        BY <1>0, <2>1, <3>1, OpenedRow DEF EpochsOK, Status
      <3> QED
        BY <1>0, <2>1, <3>1, <3>2, RowReplaced
    <2> QED
      BY <2>2, <2>3
  <1>4. ASSUME NEW a \in Approvers, ReviewClose(a) PROVE EpochsOK'
    <2>1. desk[a].w \in Windows /\ desk[a].artifacts \in ArtifactSet
      BY <1>0, <1>4 DEF ReviewClose, RequestsOK, SeatOK
    <2>2. CASE epoch' = epoch
      BY <1>1, <2>2
    <2>3. CASE epoch' # epoch
      <3>1. epoch' = [epoch EXCEPT ![desk[a].w] = ToReview(desk[a].w, desk[a].artifacts)]
        BY <1>4, <2>3 DEF ReviewClose
      <3> QED
        BY <1>0, <2>1, <3>1, ReviewedRow, RowReplaced
    <2> QED
      BY <2>2, <2>3
  <1>5. ASSUME NEW a \in Approvers, Seal(a) PROVE EpochsOK'
    <2>1. desk[a].w \in Windows
      BY <1>0, <1>5 DEF Seal, RequestsOK, SeatOK
    <2>2. CASE epoch' = epoch
      BY <1>1, <2>2
    <2>3. CASE epoch' # epoch
      <3>1. /\ Status(desk[a].w) = "review"
            /\ epoch' = [epoch EXCEPT ![desk[a].w] = [epoch[desk[a].w] EXCEPT !.status = "finalized"]]
        BY <1>5, <2>3 DEF Seal
      <3>2. EpochOK([epoch[desk[a].w] EXCEPT !.status = "finalized"])
        BY <1>0, <2>1, <3>1, SealedRow DEF EpochsOK, Status
      <3> QED
        BY <1>0, <2>1, <3>1, <3>2, RowReplaced
    <2> QED
      BY <2>2, <2>3
  <1> QED
    BY <1>1, <1>2, <1>3, <1>4, <1>5, Writers

\* The rows that passes write.
LEMMA SelectedRow ==
  ASSUME NEW row \in Row \cup {None}
  PROVE  /\ \A p, r : Written(p, r, row) \in Row \cup {None}
         /\ (IF Userless(row) THEN [row EXCEPT !.user = TRUE] ELSE row) \in Row \cup {None}
PROOF
  <1>1. \A i, u \in BOOLEAN : [in |-> i, user |-> u] \in Row
    BY DEF Row
  <1>2. CASE row # None
    <2>1. row \in Row /\ row.user \in BOOLEAN /\ row.in \in BOOLEAN
      BY <1>2 DEF Row
    <2>2. /\ [row EXCEPT !.user = TRUE] \in Row
          /\ \A i \in BOOLEAN : [row EXCEPT !.in = i] \in Row
      BY <2>1 DEF Row
    <2>3. ASSUME NEW p, NEW r PROVE [row EXCEPT !.in = r \in pass[p].included] \in Row
      <3> DEFINE i == r \in pass[p].included
      <3>1. i \in BOOLEAN
        OBVIOUS
      <3> HIDE DEF i
      <3>2. [row EXCEPT !.in = i] \in Row
        BY <2>2, <3>1
      <3> QED
        BY <3>2 DEF i
    <2> QED
      BY <1>2, <2>2, <2>3 DEF Written
  <1>3. CASE row = None
    <2>1. ASSUME NEW p, NEW r
          PROVE  [in |-> r \in pass[p].included, user |-> r \in pass[p].resolved] \in Row
      <3> DEFINE i == r \in pass[p].included
                 u == r \in pass[p].resolved
      <3>1. i \in BOOLEAN /\ u \in BOOLEAN
        OBVIOUS
      <3> HIDE DEF i, u
      <3>2. [in |-> i, user |-> u] \in Row
        BY <1>1, <3>1
      <3> QED
        BY <3>2 DEF i, u
    <2> QED
      BY <1>3, <2>1 DEF Written, Userless
  <1> QED
    BY <1>2, <1>3

LEMMA InputsStep ==
  ASSUME PassesOK, WellFormed, [Next]_vars
  PROVE  InputsOK'
PROOF
  <1>0. InputsOK /\ RequestsOK
    BY DEF WellFormed
  <1>1. selection' \in [Windows -> [Receipts -> Row \cup {None}]]
    <2>1. ASSUME NEW p \in Passes, PassSelectWrite(p) \/ PassAttachWrite(p)
          PROVE  selection' \in [Windows -> [Receipts -> Row \cup {None}]]
      <3> DEFINE v == pass[p].w
                 b == InHand(p)
                 row == selection[v][b]
                 given == IF Userless(row) THEN [row EXCEPT !.user = TRUE] ELSE row
      <3>1. v \in Windows
        BY <2>1 DEF PassSelectWrite, PassAttachWrite, At, PassesOK, Local
      <3>2. \/ selection' = [selection EXCEPT ![v][b] = Written(p, b, row)]
            \/ selection' = [selection EXCEPT ![v][b] = given]
        BY <2>1 DEF PassSelectWrite, PassAttachWrite
      <3>3. row \in Row \cup {None} =>
              Written(p, b, row) \in Row \cup {None} /\ given \in Row \cup {None}
        BY SelectedRow
      <3> HIDE DEF b, v, given
      <3>4. PICK put : /\ selection' = [selection EXCEPT ![v][b] = put]
                       /\ row \in Row \cup {None} => put \in Row \cup {None}
        BY <3>2, <3>3
      <3>5. selection' = [selection EXCEPT ![v] = [selection[v] EXCEPT ![b] = put]]
        BY <3>4
      <3>6. selection[v] \in [Receipts -> Row \cup {None}]
        BY <1>0, <3>1 DEF InputsOK
      <3>7. CASE b \in Receipts
        <4>1. row \in Row \cup {None}
          BY <3>6, <3>7
        <4>2. put \in Row \cup {None}
          BY <3>4, <4>1
        <4>3. [selection[v] EXCEPT ![b] = put] \in [Receipts -> Row \cup {None}]
          BY <3>6, <4>2
        <4> QED
          BY <1>0, <3>5, <4>3 DEF InputsOK
      <3>8. CASE b \notin Receipts
        <4>1. [selection[v] EXCEPT ![b] = put] = selection[v]
          BY <3>6, <3>8
        <4> QED
          BY <1>0, <3>5, <3>6, <4>1 DEF InputsOK
      <3> QED
        BY <3>7, <3>8
    <2> QED
      BY <1>0, <2>1, Writers DEF InputsOK
  <1>2. overrides' \in [Windows -> [Receipts -> OverrideUnits \cup {None}]]
    <2>1. ASSUME NEW w \in Windows, NEW r \in Receipts, Edit(w, r)
          PROVE  overrides' \in [Windows -> [Receipts -> OverrideUnits \cup {None}]]
      <3>1. PICK u \in OverrideUnits \cup {None} : overrides' = [overrides EXCEPT ![w][r] = u]
        BY <2>1 DEF Edit, DeleteOverride, Override, Adjust
      <3> QED
        BY <1>0, <3>1 DEF InputsOK
    <2> QED
      BY <1>0, <2>1, Writers DEF InputsOK
  <1>3. pool' \in [Windows -> SUBSET Components]
    <2>1. ASSUME NEW p \in Passes, PassPoolInsert(p)
          PROVE  pool' \in [Windows -> SUBSET Components]
      <3>1. pool' = [pool EXCEPT ![pass[p].w] = pool[pass[p].w] \cup {"base"}]
        BY <2>1 DEF PassPoolInsert
      <3>2. pass[p].w \in Windows
        BY <2>1 DEF PassPoolInsert, At, PassesOK, Local
      <3> QED
        BY <1>0, <3>1, <3>2, EpochsAssumption DEF InputsOK, EpochsAssumption
    <2>2. ASSUME NEW a \in Approvers, PoolInsert(a)
          PROVE  pool' \in [Windows -> SUBSET Components]
      <3>1. pool' = [pool EXCEPT ![desk[a].w] = pool[desk[a].w] \cup {desk[a].component}]
        BY <2>2 DEF PoolInsert
      <3>2. desk[a].w \in Windows /\ desk[a].component \in Components
        BY <1>0, <2>2 DEF PoolInsert, RequestsOK, SeatOK
      <3> QED
        BY <1>0, <3>1, <3>2 DEF InputsOK
    <2> QED
      BY <1>0, <2>1, <2>2, Writers DEF InputsOK
  <1> QED
    BY <1>1, <1>2, <1>3 DEF InputsOK, Windows, Row

LEMMA CountsStep ==
  ASSUME WellFormed, [Next]_vars
  PROVE  CountsOK'
PROOF
  <1>0. CountsOK
    BY DEF WellFormed
  <1>1. arrived' \subseteq Receipts /\ bound' \subseteq Authors
    <2>1. (arrived' = arrived \/ \E r \in Receipts : arrived' = arrived \cup {r})
          /\ (bound' = bound \/ \E b \in Authors : bound' = bound \cup {b})
      BY DEF Next, vars, world, NextWindow, Deliver, Bind, Collect, PassStart, PassBuild,
             PassTransition, PassEnsure, PassCandidates, PassSelect, PassSelectWrite,
             PassAttach, PassAttachWrite, PassClaim, PassPool, PassPoolInsert, PassDies, Handle, ReviewClose, PoolInsert, FinalizeStart,
             FinalizeRead, Seal, Ask, ReviewBuild, SignData, PoolCheck, Edit, DeleteOverride,
             Override, Adjust
    <2> QED
      BY <1>0, <2>1 DEF CountsOK
  <1>2. \/ asks' = asks /\ deaths' = deaths
        \/ MoreEvents /\ asks' = asks + 1 /\ deaths' = deaths
        \/ deaths < MaxDeaths /\ deaths' = deaths + 1 /\ asks' = asks
    BY DEF Next, vars, world, NextWindow, Deliver, Bind, Collect, PassStart, PassBuild,
           PassTransition, PassEnsure, PassCandidates, PassSelect, PassSelectWrite,
           PassAttach, PassAttachWrite, PassClaim, PassPool, PassPoolInsert, PassDies, Handle, ReviewClose, PoolInsert, FinalizeStart,
           FinalizeRead, Seal, Ask, ReviewBuild, SignData, PoolCheck, Edit, DeleteOverride,
           Override, Adjust, Asks
  <1>3. asks' \in 0..MaxEvents /\ deaths' \in 0..MaxDeaths
    BY <1>0, <1>2, EpochsAssumption DEF CountsOK, MoreEvents, EpochsAssumption
  <1> QED
    BY <1>1, <1>3 DEF CountsOK, Authors

\* Only a seal finalizes, and nothing undoes it.
LEMMA FinalizedBySeal ==
  ASSUME PassesOK, WellFormed, [Next]_vars, ~\E a \in Approvers : Seal(a), NEW w \in Windows
  PROVE  Status(w)' = "finalized" <=> Status(w) = "finalized"
PROOF
  <1>0. RequestsOK /\ EpochsOK
    BY DEF WellFormed
  <1>1. CASE epoch' = epoch
    BY <1>1 DEF Status
  <1>2. ASSUME NEW p \in Passes, PassTransition(p), epoch' # epoch
        PROVE  Status(w)' = "finalized" <=> Status(w) = "finalized"
    <2> DEFINE v == pass[p].stale
               u == pass[p].w
    <2>1. /\ v \in Windows /\ u \in Windows /\ Status(u) = "none"
          /\ epoch'[w] = IF w = u THEN [epoch[u] EXCEPT !.status = "open"]
                         ELSE IF w = v THEN ToReview(v, pass[p].artifacts)
                         ELSE epoch[w]
      BY <1>0, <1>2, TransitionRows
    <2>2. epoch[u] \in EpochRow /\ epoch[v] \in EpochRow
      BY <1>0, <2>1 DEF EpochsOK, EpochOK
    <2> HIDE DEF v, u
    <2>3. [epoch[u] EXCEPT !.status = "open"].status = "open"
      BY <2>2 DEF EpochRow
    <2>4. ToReview(v, pass[p].artifacts).status = IF Status(v) = "open" THEN "review" ELSE Status(v)
      BY DEF ToReview, Status
    <2> QED
      BY <2>1, <2>3, <2>4 DEF Status
  <1>3. ASSUME NEW p \in Passes, PassEnsure(p), epoch' # epoch
        PROVE  Status(w)' = "finalized" <=> Status(w) = "finalized"
    <2> DEFINE u == pass[p].w
    <2>1. u \in Windows /\ epoch[u] \in EpochRow
      BY <1>0, <1>3 DEF PassEnsure, At, PassesOK, Local, EpochsOK, EpochOK
    <2>2. /\ Status(u) = "none"
          /\ epoch' = [epoch EXCEPT ![u] = [epoch[u] EXCEPT !.status = "open"]]
      BY <1>3, EnsureRows
    <2>3. [epoch[u] EXCEPT !.status = "open"].status = "open"
      BY <2>1 DEF EpochRow
    <2> QED
      BY <1>0, <2>1, <2>2, <2>3 DEF Status, EpochsOK
  <1>4. ASSUME NEW a \in Approvers, ReviewClose(a), epoch' # epoch
        PROVE  Status(w)' = "finalized" <=> Status(w) = "finalized"
    <2> DEFINE u == desk[a].w
    <2>1. /\ Status(u) # "finalized"
          /\ epoch' = [epoch EXCEPT ![u] = ToReview(u, desk[a].artifacts)]
      BY <1>4 DEF ReviewClose
    <2>2. ToReview(u, desk[a].artifacts).status = IF Status(u) = "open" THEN "review" ELSE Status(u)
      BY DEF ToReview, Status
    <2> QED
      BY <1>0, <2>1, <2>2 DEF Status, EpochsOK
  <1> QED
    BY <1>1, <1>2, <1>3, <1>4, Writers

\* What a seal does to its epoch.
LEMMA SealRows ==
  ASSUME PassesOK, WellFormed, NEW a \in Approvers, Seal(a)
  PROVE  LET w == desk[a].w
             content == desk[a].content
         IN /\ w \in Windows /\ content \in Statement /\ Computed(content)
            /\ \/ /\ Status(w) = "review" /\ epoch'[w].status = "finalized"
                  /\ statement' = [statement EXCEPT ![w] = content]
                  /\ Sign(a, w, content)
               \/ /\ Status(w) = "finalized" /\ UNCHANGED <<epoch, statement>>
                  /\ (Agrees(a, w, content) /\ Sign(a, w, content)) \/ UNCHANGED signatures
            /\ \A v \in Windows \ {w} : epoch'[v] = epoch[v]
PROOF
  <1> DEFINE w == desk[a].w
             content == desk[a].content
  <1>1. w \in Windows /\ content \in Statement /\ Computed(content)
    BY DEF Seal, WellFormed, RequestsOK, SeatOK
  <1>2. CASE Status(w) = "finalized"
    BY <1>1, <1>2 DEF Seal
  <1>3. CASE Status(w) = "review"
    <2>1. epoch[w] \in EpochRow /\ DOMAIN epoch = Windows
      BY <1>1 DEF WellFormed, EpochsOK, EpochOK
    <2>2. /\ epoch' = [epoch EXCEPT ![w] = [epoch[w] EXCEPT !.status = "finalized"]]
          /\ statement' = [statement EXCEPT ![w] = content]
          /\ Sign(a, w, content)
      BY <1>3 DEF Seal
    <2>3. [epoch[w] EXCEPT !.status = "finalized"].status = "finalized"
      BY <2>1 DEF EpochRow
    <2>4. epoch'[w] = [epoch[w] EXCEPT !.status = "finalized"]
          /\ \A v \in Windows \ {w} : epoch'[v] = epoch[v]
      BY <1>1, <2>1, <2>2
    <2> QED
      BY <1>1, <1>3, <2>2, <2>3, <2>4 DEF Status
  <1> QED
    BY <1>2, <1>3 DEF Seal

LEMMA MessageType ==
  ASSUME NEW st \in Statement
  PROVE  Message(st) \in Signable
PROOF
  BY DEF Statement, Signable, Message

LEMMA SignType ==
  ASSUME NEW a \in Approvers, NEW w \in Windows, NEW content \in Statement,
         Sign(a, w, content),
         signatures \in [Windows -> [Approvers -> Signable \cup {None}]]
  PROVE  /\ signatures' \in [Windows -> [Approvers -> Signable \cup {None}]]
         /\ \A v \in Windows, b \in Approvers :
              signatures'[v][b] = IF v = w /\ b = a THEN Message(content) ELSE signatures[v][b]
PROOF
  <1> DEFINE m == Message(content)
  <1>1. m \in Signable
    BY MessageType
  <1>2. signatures' = [signatures EXCEPT ![w] = [signatures[w] EXCEPT ![a] = m]]
    BY DEF Sign
  <1> HIDE DEF m
  <1>3. [signatures[w] EXCEPT ![a] = m] \in [Approvers -> Signable \cup {None}]
    BY <1>1
  <1>4. signatures' \in [Windows -> [Approvers -> Signable \cup {None}]]
    BY <1>2, <1>3
  <1>5. \A v \in Windows, b \in Approvers :
          signatures'[v][b] = IF v = w /\ b = a THEN m ELSE signatures[v][b]
    BY <1>2
  <1> QED
    BY <1>4, <1>5 DEF m

LEMMA BookStep ==
  ASSUME PassesOK, WellFormed, [Next]_vars
  PROVE  BookOK'
PROOF
  <1>0. BookOK
    BY DEF WellFormed
  <1>1. CASE ~\E a \in Approvers : Seal(a)
    <2>1. UNCHANGED <<statement, signatures>>
      BY <1>1, Writers DEF book
    <2>2. \A w \in Windows : Status(w)' = "finalized" <=> Status(w) = "finalized"
      BY <1>1, FinalizedBySeal
    <2> QED
      BY <1>0, <2>1, <2>2 DEF BookOK, Windows, Statement, Signable, Portions, Origins,
                              Identities, Authors, Computed, Rank
  <1>2. ASSUME NEW a \in Approvers, Seal(a) PROVE BookOK'
    <2> DEFINE w == desk[a].w
               content == desk[a].content
    <2>1. /\ w \in Windows /\ content \in Statement /\ Computed(content)
          /\ \/ /\ Status(w) = "review" /\ epoch'[w].status = "finalized"
                /\ statement' = [statement EXCEPT ![w] = content]
                /\ Sign(a, w, content)
             \/ /\ Status(w) = "finalized" /\ UNCHANGED <<epoch, statement>>
                /\ (Agrees(a, w, content) /\ Sign(a, w, content)) \/ UNCHANGED signatures
          /\ \A v \in Windows \ {w} : epoch'[v] = epoch[v]
      BY <1>2, SealRows
    <2> HIDE DEF w, content
    <2>2. signatures' \in [Windows -> [Approvers -> Signable \cup {None}]]
      BY <1>0, <2>1, SignType DEF BookOK
    <2>3. /\ statement' \in [Windows -> Statement \cup {None}]
          /\ \A v \in Windows : /\ (statement'[v] = None) = (Status(v)' # "finalized")
                                /\ statement'[v] # None => Computed(statement'[v])
      <3>1. CASE Status(w) = "finalized" /\ UNCHANGED <<epoch, statement>>
        BY <1>0, <3>1 DEF BookOK, Status
      <3>2. CASE epoch'[w].status = "finalized" /\ statement' = [statement EXCEPT ![w] = content]
        <4>1. content # None
          BY <2>1, NoneIsNothing DEF NoneIsNothing
        <4>2. statement' \in [Windows -> Statement \cup {None}]
          BY <1>0, <2>1, <3>2 DEF BookOK
        <4>3. statement'[w] = content /\ \A v \in Windows \ {w} : statement'[v] = statement[v]
          BY <1>0, <2>1, <3>2 DEF BookOK
        <4>4. \A v \in Windows \ {w} : Status(v)' = Status(v)
          BY <2>1 DEF Status
        <4>5. ASSUME NEW v \in Windows
              PROVE  /\ (statement'[v] = None) = (Status(v)' # "finalized")
                     /\ statement'[v] # None => Computed(statement'[v])
          <5>1. CASE v = w
            <6>1. statement'[v] = content /\ Status(v)' = "finalized"
              BY <3>2, <4>3, <5>1 DEF Status
            <6> QED
              BY <2>1, <4>1, <6>1
          <5>2. CASE v # w
            <6>1. statement'[v] = statement[v] /\ Status(v)' = Status(v)
              BY <4>3, <4>4, <5>2
            <6> QED
              BY <1>0, <6>1 DEF BookOK
          <5> QED
            BY <5>1, <5>2
        <4> QED
          BY <4>2, <4>5
      <3> QED
        BY <2>1, <3>1, <3>2
    <2> QED
      BY <2>2, <2>3 DEF BookOK, Windows, Statement, Signable, Portions, Origins,
                        Identities, Authors, Computed, Rank
  <1> QED
    BY <1>1, <1>2

\* A step of a pass takes it to a place where it has what it needs.
LEMMA PlaceReached ==
  ASSUME PassesOK, WellFormed, NEW p \in Passes, Collect(p) \/ PassDies(p)
  PROVE  \E to : Move(p, to) /\ PlaceOK(to)
PROOF
  <1> USE DEF At, Ends
  <1>0. PlaceOK(pass[p]) /\ EpochsOK
    BY DEF WellFormed, RequestsOK
  <1>1. window \in Windows /\ (pass[p].at # "idle" => pass[p].w \in Windows)
        /\ (pass[p].at \in Materialising => DOMAIN pass[p] = Work)
    BY DEF PassesOK, Local
  <1>2. PlaceOK(Resting)
    BY DEF PlaceOK, Resting, PassPlaces, Materialising
  <1>3. \A w : PlaceOK([at |-> "ensure", w |-> w]) /\ PlaceOK([at |-> "read", w |-> w])
               /\ PlaceOK([at |-> "insert", w |-> w])
    BY DEF PlaceOK, PassPlaces, Materialising
  <1>4. \A w, v, artifacts : v \in Windows =>
          /\ PlaceOK([at |-> "build", w |-> w, stale |-> v])
          /\ artifacts \in ArtifactSet =>
               PlaceOK([at |-> "transition", w |-> w, stale |-> v, artifacts |-> artifacts])
    BY DEF PlaceOK, PassPlaces, Materialising
  <1>5. \A w : Enter(p, w) => \E to : Move(p, to) /\ PlaceOK(to)
    BY <1>2, <1>3 DEF Enter
  <1>6. CASE PassStart(p)
    BY <1>3, <1>4, <1>6 DEF PassStart, Opened
  <1>7. CASE PassBuild(p)
    <2>1. pass[p].stale \in Windows
      BY <1>0, <1>7 DEF PassBuild, PlaceOK
    <2>2. Artifacts(pass[p].stale) \in ArtifactSet
      BY ArtifactsType
    <2> QED
      BY <1>4, <1>7, <2>1, <2>2 DEF PassBuild
  <1>8. CASE PassTransition(p)
    BY <1>2, <1>5, <1>8 DEF PassTransition
  <1>9. CASE PassEnsure(p)
    BY <1>2, <1>5, <1>9 DEF PassEnsure
  <1>10. CASE PassCandidates(p)
    <2> DEFINE w == pass[p].w
               todo == Candidates(w)
               to == [at |-> IF todo = {} THEN "pool" ELSE "select", w |-> w,
                      todo |-> todo,
                      known |-> todo \cap Selected(w),
                      included |-> {r \in todo : Shows[r] \subseteq arrived},
                      resolved |-> {r \in todo : Author[r] \in bound}]
    <2>1. Move(p, to)
      BY <1>10 DEF PassCandidates
    <2>2. to.at \in {"pool", "select"}
      BY DEF PlaceOK
    <2>3. PlaceOK(to)
      BY <2>2 DEF PlaceOK, PassPlaces, Materialising
    <2> QED
      BY <2>1, <2>3
  <1>11. \A rest, at : DOMAIN pass[p] = Work /\ at \in {"pool"} \cup Materialising =>
           /\ PlaceOK([pass[p] EXCEPT !.todo = rest, !.at = at])
           /\ PlaceOK([pass[p] EXCEPT !.at = at])
    BY DEF PlaceOK, PassPlaces, Materialising, Work
  <1>12. DOMAIN pass[p] = Work /\ Done(p) => \E to : Move(p, to) /\ PlaceOK(to)
    <2> DEFINE rest == pass[p].todo \ {InHand(p)}
               at == IF rest = {} THEN "pool" ELSE "select"
    <2>1. at \in {"pool"} \cup Materialising
      BY DEF Materialising
    <2>2. Done(p) => Move(p, [pass[p] EXCEPT !.todo = rest, !.at = at])
      BY DEF Done
    <2> HIDE DEF rest, at
    <2> QED
      BY <1>11, <2>1, <2>2
  <1>13. CASE PassSelect(p) \/ PassSelectWrite(p) \/ PassAttach(p) \/ PassAttachWrite(p)
    <2>1. pass[p].at \in Materialising
      BY <1>13 DEF PassSelect, PassSelectWrite, PassAttach, PassAttachWrite, Materialising
    <2>2. \/ Ends(p) \/ Done(p)
          \/ \E at \in Materialising : Move(p, [pass[p] EXCEPT !.at = at])
      BY <1>13 DEF PassSelect, PassSelectWrite, PassAttach, PassAttachWrite, Trigger, Onward,
                   Materialising
    <2> QED
      BY <1>1, <1>2, <1>11, <1>12, <2>1, <2>2
  <1>14. CASE PassClaim(p)
    <2>1. Ends(p) \/ Done(p)
      BY <1>14 DEF PassClaim
    <2> QED
      BY <1>1, <1>2, <1>12, <1>14, <2>1 DEF PassClaim, Materialising
  <1>15. CASE PassPool(p) \/ PassPoolInsert(p) \/ PassDies(p)
    BY <1>2, <1>3, <1>15 DEF PassPool, PassPoolInsert, PassDies
  <1> QED
    BY <1>6, <1>7, <1>8, <1>9, <1>10, <1>13, <1>14, <1>15 DEF Collect

\* A request has what its next step needs.
LEMMA SeatReached ==
  ASSUME TablesOK, WellFormed, NEW a \in Approvers,
         Handle(a) \/ \E w \in Windows : Ask(a, w)
  PROVE  \E it : Sit(a, it) /\ SeatOK(it)
PROOF
  <1>0. InputsOK /\ BookOK /\ SeatOK(desk[a])
    BY DEF WellFormed, RequestsOK
  <1>1. SeatOK(Resting)
    BY DEF SeatOK, Resting, DeskPlaces
  <1>2. CASE ReviewClose(a) \/ PoolInsert(a) \/ Seal(a)
    BY <1>1, <1>2 DEF ReviewClose, PoolInsert, Seal, Rise
  <1>3. CASE FinalizeStart(a)
    <2> DEFINE w == desk[a].w
    <2>1. w \in Windows
      BY <1>0, <1>3 DEF FinalizeStart, SeatOK
    <2>2. CASE Status(w) = "review"
                 /\ Sit(a, [at |-> "compute", w |-> w, message |-> desk[a].message,
                            pool |-> PoolTotal(w)])
      <3>1. PoolTotal(w) \in Nat
        BY <1>0, <2>1, PoolTotalType
      <3>2. SeatOK([at |-> "compute", w |-> w, message |-> desk[a].message,
                    pool |-> PoolTotal(w)])
        BY <2>1, <3>1 DEF SeatOK, DeskPlaces
      <3> QED
        BY <2>2, <3>2
    <2>3. CASE Status(w) = "finalized"
                 /\ Sit(a, [at |-> "seal", w |-> w, content |-> statement[w]])
      <3>1. statement[w] \in Statement /\ Computed(statement[w])
        BY <1>0, <2>1, <2>3 DEF BookOK
      <3>2. SeatOK([at |-> "seal", w |-> w, content |-> statement[w]])
        BY <2>1, <3>1 DEF SeatOK, DeskPlaces
      <3> QED
        BY <2>3, <3>2
    <2> QED
      BY <1>3, <2>2, <2>3 DEF FinalizeStart
  <1>4. CASE FinalizeRead(a)
    <2> DEFINE w == desk[a].w
               content == Content(w, desk[a].pool)
    <2>1. w \in Windows /\ desk[a].pool \in Nat
      BY <1>0, <1>4 DEF FinalizeRead, SeatOK
    <2>2. CASE Rise(a)
      BY <1>1, <2>2 DEF Rise
    <2>3. CASE Claimed(w) /\ Sit(a, [at |-> "seal", w |-> w, content |-> content])
      <3>1. content \in Statement /\ Computed(content)
        BY <1>0, <2>1, <2>3, ContentType
      <3> HIDE DEF content
      <3>2. SeatOK([at |-> "seal", w |-> w, content |-> content])
        BY <2>1, <3>1 DEF SeatOK, DeskPlaces
      <3> QED
        BY <2>3, <3>2
    <2> QED
      BY <1>4, <2>2, <2>3 DEF FinalizeRead
  <1>5. ASSUME NEW w \in Windows, Ask(a, w)
        PROVE  \E it : Sit(a, it) /\ SeatOK(it)
    <2>1. CASE ReviewBuild(a, w)
      <3>1. Artifacts(w) \in ArtifactSet
        BY ArtifactsType
      <3>2. SeatOK([at |-> "review", w |-> w, artifacts |-> Artifacts(w)])
        BY <3>1 DEF SeatOK, DeskPlaces
      <3> QED
        BY <2>1, <3>2 DEF ReviewBuild
    <2>2. CASE SignData(a, w)
      <3>1. \A m : SeatOK([at |-> "signing", w |-> w, message |-> m])
        BY DEF SeatOK, DeskPlaces
      <3> QED
        BY <2>2, <3>1 DEF SignData
    <2>3. CASE \E c \in Components : PoolCheck(a, w, c)
      <3>1. \A c \in Components : SeatOK([at |-> "pool", w |-> w, component |-> c])
        BY DEF SeatOK, DeskPlaces
      <3> QED
        BY <2>3, <3>1 DEF PoolCheck
    <2> QED
      BY <1>5, <2>1, <2>2, <2>3 DEF Ask
  <1> QED
    BY <1>2, <1>3, <1>4, <1>5 DEF Handle

LEMMA RequestsStep ==
  ASSUME Shape, WellFormed, [Next]_vars
  PROVE  RequestsOK'
PROOF
  <1> USE DEF Shape
  <1>0. RequestsOK
    BY DEF WellFormed
  <1>1. \A p \in Passes : PlaceOK(pass'[p])
    <2>1. ASSUME NEW q \in Passes, Collect(q) \/ PassDies(q), NEW p \in Passes
          PROVE  PlaceOK(pass'[p])
      <3>1. PICK to : Move(q, to) /\ PlaceOK(to)
        BY <2>1, PlaceReached
      <3>2. pass'[p] = IF p = q THEN to ELSE pass[p]
        BY <3>1 DEF Move, PassesOK
      <3> QED
        BY <1>0, <3>1, <3>2 DEF RequestsOK
    <2> QED
      BY <1>0, <2>1, Writers DEF RequestsOK
  <1>2. DOMAIN desk' = Approvers /\ \A a \in Approvers : SeatOK(desk'[a])
    <2>1. ASSUME NEW b \in Approvers, Handle(b) \/ \E w \in Windows : Ask(b, w)
          PROVE  DOMAIN desk' = Approvers /\ \A a \in Approvers : SeatOK(desk'[a])
      <3>1. PICK it : Sit(b, it) /\ SeatOK(it)
        BY <2>1, SeatReached
      <3>2. DOMAIN desk' = Approvers
            /\ \A a \in Approvers : desk'[a] = IF a = b THEN it ELSE desk[a]
        BY <1>0, <3>1 DEF Sit, RequestsOK
      <3> QED
        BY <1>0, <3>1, <3>2 DEF RequestsOK
    <2> QED
      BY <1>0, <2>1, Writers DEF RequestsOK
  <1> QED
    BY <1>1, <1>2 DEF RequestsOK, PlaceOK, SeatOK, Windows, ArtifactSet, Authors, Statement,
                      Portions, Origins, Identities, Computed, Rank

LEMMA InitWellFormed == Init => WellFormed
PROOF
  <1> SUFFICES ASSUME Init PROVE WellFormed
    OBVIOUS
  <1>1. InputsOK
    BY DEF Init, InputsOK
  <1>2. EpochsOK
    BY DEF Init, EpochsOK, EpochOK, EpochRow, Statuses
  <1>3. BookOK
    <2>1. \A w \in Windows : Status(w) = "none" /\ statement[w] = None
      BY DEF Init, Status
    <2>2. statement \in [Windows -> Statement \cup {None}]
      BY DEF Init
    <2>3. signatures \in [Windows -> [Approvers -> Signable \cup {None}]]
      BY DEF Init
    <2> QED
      BY <2>1, <2>2, <2>3 DEF BookOK
  <1>4. RequestsOK
    <2>1. PlaceOK(Resting) /\ SeatOK(Resting)
      BY DEF PlaceOK, SeatOK, Resting, PassPlaces, DeskPlaces
    <2> QED
      BY <2>1 DEF Init, RequestsOK
  <1>5. CountsOK
    BY EpochsAssumption DEF Init, CountsOK, EpochsAssumption
  <1> QED
    BY <1>1, <1>2, <1>3, <1>4, <1>5 DEF WellFormed

\* The tables hold what they can hold, and the statements what the division
\* of their pool among their allocation gives.
THEOREM Formed == Spec => [](Shape /\ WellFormed)
PROOF
  <1>1. Init => Shape /\ WellFormed
    BY InitShape, InitWellFormed
  <1>2. Shape /\ WellFormed /\ [Next]_vars => WellFormed'
    BY InputsStep, EpochsStep, BookStep, RequestsStep, CountsStep DEF WellFormed, Shape
  <1> QED
    BY <1>1, <1>2, Invariance, PTL DEF Spec

\* TypeOK for every number of windows, receipts, approvers and passes: a
\* statement stands in the rows of finalized epochs only, artifacts in those
\* of reviewed ones.
THEOREM TypeCorrect == Spec => []TypeOK
PROOF
  <1>1. Shape /\ WellFormed => TypeOK
    <2> SUFFICES ASSUME Shape, WellFormed PROVE TypeOK
      OBVIOUS
    <2>1. ASSUME NEW w \in Windows
          PROVE  /\ Status(w) \in {"none", "open", "review", "finalized"}
                 /\ (epoch[w].artifacts = None) = (Status(w) \in {"none", "open"})
      BY DEF WellFormed, EpochsOK, EpochOK, EpochRow, Statuses, Status
    <2>2. ASSUME NEW w \in Windows, NEW r \in Receipts
          PROVE  /\ selection[w][r] \in Row \cup {None}
                 /\ claimants[w][r] \in [draft : Kind, locked : Kind]
                 /\ overrides[w][r] \in OverrideUnits \cup {None}
      BY DEF WellFormed, InputsOK, Shape, TablesOK
    <2>3. ASSUME NEW w \in Windows
          PROVE  pool[w] \subseteq Components /\ (statement[w] = None) = (Status(w) # "finalized")
      BY DEF WellFormed, InputsOK, BookOK
    <2>4. \A p \in Passes : pass[p].at \in PassPlaces
      BY DEF WellFormed, RequestsOK, PlaceOK
    <2>5. \A a \in Approvers : desk[a].at \in DeskPlaces
      BY DEF WellFormed, RequestsOK, SeatOK
    <2>6. /\ window \in Windows /\ arrived \subseteq Receipts /\ bound \subseteq Authors
          /\ asks \in 0..MaxEvents /\ deaths \in 0..MaxDeaths
      BY DEF WellFormed, CountsOK, Shape, PassesOK
    <2> QED
      BY <2>1, <2>2, <2>3, <2>4, <2>5, <2>6 DEF TypeOK
  <1> QED
    BY <1>1, Formed, PTL

-----------------------------------------------------------------------------
(* What was signed is what is stored *)

\* The lines of a computed statement give its whole pool away, or none.
LEMMA LinesOf ==
  ASSUME NEW st \in Statement, Computed(st)
  PROVE  /\ st.lines = Nobody \/ st.lines \in [DOMAIN st.allocation -> Nat]
         /\ DOMAIN st.lines = {} \/ SumFunction(st.lines) = st.pool
PROOF
  <1> DEFINE units == st.allocation
             total == st.pool
             K == DOMAIN units
             lines == LargestRemainder(units, total, Rank)
  <1>1. units \in [K -> Nat] /\ K \in SUBSET Identities /\ total \in Nat
    BY DEF Statement, Portions
  <1>2. st.lines = lines
    BY DEF Computed
  <1> HIDE DEF units, total, K
  <1>3. /\ lines = Nobody \/ lines \in [K -> Nat]
        /\ DOMAIN lines = {} \/ SumFunction(lines) = total
    BY <1>1, LinesType
  <1> QED
    BY <1>2, <1>3 DEF units, total, K

\* Two computed statements of one allocation that owe the same, and owe
\* something, divide the same pool.
LEMMA OwedFixesPool ==
  ASSUME NEW st \in Statement, NEW c \in Statement, Computed(st), Computed(c),
         st.allocation = c.allocation, Owed(st) = Owed(c), DOMAIN Owed(st) # {}
  PROVE  Message(st) = Message(c)
PROOF
  <1> DEFINE units == st.allocation
             K == DOMAIN units
             paidBy(s) == {k \in DOMAIN s.lines : s.lines[k] > 0}
  <1>1. units \in [K -> Nat] /\ K \in SUBSET Identities /\ st.pool \in Nat /\ c.pool \in Nat
    BY DEF Statement, Portions
  <1> HIDE DEF K
  <1>2. /\ st.lines = Nobody \/ st.lines \in [K -> Nat]
        /\ DOMAIN st.lines = {} \/ SumFunction(st.lines) = st.pool
    BY LinesOf DEF K
  <1>3. /\ c.lines = Nobody \/ c.lines \in [K -> Nat]
        /\ DOMAIN c.lines = {} \/ SumFunction(c.lines) = c.pool
    BY LinesOf DEF K
  <1>4. /\ DOMAIN Owed(st) = paidBy(st) /\ DOMAIN Owed(c) = paidBy(c)
        /\ \A k \in paidBy(st) : Owed(st)[k] = <<st.lines[k], st.receipts[k]>>
        /\ \A k \in paidBy(c) : Owed(c)[k] = <<c.lines[k], c.receipts[k]>>
    BY DEF Owed
  <1>5. DOMAIN Nobody = {}
    BY DEF Nobody
  <1>6. DOMAIN st.lines # {} /\ DOMAIN c.lines # {}
    BY <1>4
  <1>7. st.lines \in [K -> Nat] /\ c.lines \in [K -> Nat]
    BY <1>2, <1>3, <1>5, <1>6
  <1>8. ASSUME NEW k \in K PROVE st.lines[k] = c.lines[k]
    <2>1. k \in paidBy(st) <=> k \in paidBy(c)
      BY <1>4
    <2>2. CASE k \in paidBy(st)
      <3>1. <<st.lines[k], st.receipts[k]>> = <<c.lines[k], c.receipts[k]>>
        BY <1>4, <2>1, <2>2
      <3> QED
        BY <3>1
    <2>3. CASE k \notin paidBy(st)
      BY <1>7, <2>1, <2>3
    <2> QED
      BY <2>2, <2>3
  <1>9. st.lines = c.lines
    BY <1>7, <1>8
  <1>10. st.pool = c.pool
    BY <1>2, <1>3, <1>6, <1>9
  <1> QED
    BY <1>10 DEF Message

LEMMA SignedStep ==
  ASSUME PassesOK, WellFormed, SignedIsStored, [Next]_vars
  PROVE  SignedIsStored'
PROOF
  <1>0. BookOK
    BY DEF WellFormed
  <1>1. CASE ~\E a \in Approvers : Seal(a)
    <2>1. UNCHANGED <<statement, signatures>>
      BY <1>1, Writers DEF book
    <2> QED
      BY <2>1 DEF SignedIsStored, Windows, Owed, Message
  <1>2. ASSUME NEW a \in Approvers, Seal(a) PROVE SignedIsStored'
    <2> DEFINE w == desk[a].w
               content == desk[a].content
    <2>1. /\ w \in Windows /\ content \in Statement /\ Computed(content)
          /\ \/ /\ Status(w) = "review"
                /\ statement' = [statement EXCEPT ![w] = content]
                /\ Sign(a, w, content)
             \/ /\ Status(w) = "finalized" /\ UNCHANGED statement
                /\ (Agrees(a, w, content) /\ Sign(a, w, content)) \/ UNCHANGED signatures
      BY <1>2, SealRows
    <2> HIDE DEF w, content
    <2>2. Sign(a, w, content) =>
            \A v \in Windows, b \in Approvers :
              signatures'[v][b] = IF v = w /\ b = a THEN Message(content) ELSE signatures[v][b]
      BY <1>0, <2>1, SignType DEF BookOK
    <2>3. content # None
      BY <2>1, NoneIsNothing DEF NoneIsNothing
    <2> SUFFICES ASSUME NEW v \in Windows, NEW b \in Approvers, signatures'[v][b] # None
                 PROVE  /\ statement'[v] # None
                        /\ \/ DOMAIN Owed(statement'[v]) = {}
                           \/ signatures'[v][b] = Message(statement'[v])
      BY DEF SignedIsStored, Windows, Owed, Message
    <2>4. signatures[v][b] # None => /\ statement[v] # None
                                     /\ \/ DOMAIN Owed(statement[v]) = {}
                                        \/ signatures[v][b] = Message(statement[v])
      BY DEF SignedIsStored
    <2>5. CASE UNCHANGED <<statement, signatures>>
      BY <2>4, <2>5
    <2>6. CASE /\ Status(w) = "review" /\ Sign(a, w, content)
               /\ statement' = [statement EXCEPT ![w] = content]
      <3>1. statement[w] = None
        BY <1>0, <2>1, <2>6 DEF BookOK
      <3>2. statement'[v] = IF v = w THEN content ELSE statement[v]
        BY <1>0, <2>6 DEF BookOK
      <3>3. CASE v = w
        <4>1. b = a
          BY <2>2, <2>4, <2>6, <3>1, <3>3
        <4> QED
          BY <2>2, <2>3, <2>6, <3>2, <3>3, <4>1
      <3>4. CASE v # w
        BY <2>2, <2>4, <2>6, <3>2, <3>4
      <3> QED
        BY <3>3, <3>4
    <2>7. CASE /\ Status(w) = "finalized" /\ UNCHANGED statement
               /\ Agrees(a, w, content) /\ Sign(a, w, content)
      <3>1. statement[w] \in Statement /\ Computed(statement[w]) /\ statement[w] # None
        BY <1>0, <2>1, <2>7 DEF BookOK
      <3>2. statement[w].allocation = content.allocation /\ Owed(statement[w]) = Owed(content)
        BY <2>7 DEF Agrees
      <3>3. CASE v = w /\ b = a
        <4>1. signatures'[v][b] = Message(content)
          BY <2>2, <2>7, <3>3
        <4>2. DOMAIN Owed(statement[w]) # {} => Message(statement[w]) = Message(content)
          BY <2>1, <3>1, <3>2, OwedFixesPool
        <4> QED
          BY <2>7, <3>1, <3>3, <4>1, <4>2
      <3>4. CASE ~(v = w /\ b = a)
        BY <2>2, <2>4, <2>7, <3>4
      <3> QED
        BY <3>3, <3>4
    <2> QED
      BY <2>1, <2>5, <2>6, <2>7
  <1> QED
    BY <1>1, <1>2

\* Whoever signs, and whatever raced the request: a signature stored with a
\* statement that owes anything is of that statement.
THEOREM SignedStored == Spec => []SignedIsStored
PROOF
  <1>1. Init => SignedIsStored
    BY DEF Init, SignedIsStored
  <1>2. Shape /\ WellFormed /\ SignedIsStored /\ [Next]_vars => SignedIsStored'
    BY SignedStep DEF Shape
  <1> QED
    BY <1>1, <1>2, Formed, PTL DEF Spec

-----------------------------------------------------------------------------
(* One window open at a time, and where passes do not overlap no receipt in *)
(* two of them                                                             *)

OneOpen == \A v, w \in Opened : v = w
\* No other window has selected what a pass is about to select.
WorkOK(p) ==
  pass[p].at \in Materialising =>
    /\ pass[p].todo \in SUBSET Receipts /\ pass[p].todo # {}
    /\ \A v \in Windows \ {pass[p].w} : pass[p].todo \cap Selected(v) = {}
Apart ==
  /\ \A v, w \in Windows : v # w => Selected(v) \cap Selected(w) = {}
  /\ \A p \in Passes : WorkOK(p)
\* No two passes overlap.
Alone == \A p, q \in Passes : p = q
\* What is stored, or about to be, pays for what its window has selected.
PaysFor(content, w) == UNION Range(content.receipts) \subseteq Selected(w)
Backed ==
  /\ \A w \in Windows : statement[w] # None => PaysFor(statement[w], w)
  /\ \A a \in Approvers : desk[a].at = "seal" => PaysFor(desk[a].content, desk[a].w)

\* A window is opened when no other stays open.
LEMMA OpenStep ==
  ASSUME PassesOK, WellFormed, OneOpen, [Next]_vars
  PROVE  OneOpen'
PROOF
  <1>0. RequestsOK /\ EpochsOK
    BY DEF WellFormed
  <1>1. Opened' \subseteq Opened => OneOpen'
    BY DEF OneOpen
  <1>2. CASE epoch' = epoch
    BY <1>1, <1>2 DEF Opened, Status, Windows
  <1>3. ASSUME NEW p \in Passes, PassTransition(p), epoch' # epoch PROVE OneOpen'
    <2> DEFINE v == pass[p].stale
               w == pass[p].w
    <2>1. /\ v \in Windows /\ w \in Windows /\ Status(w) = "none" /\ Opened \ {v} = {}
          /\ \A x \in Windows :
               epoch'[x] = IF x = w THEN [epoch[w] EXCEPT !.status = "open"]
                           ELSE IF x = v THEN ToReview(v, pass[p].artifacts)
                           ELSE epoch[x]
      BY <1>0, <1>3, TransitionRows
    <2> HIDE DEF v, w
    <2>2. ToReview(v, pass[p].artifacts).status # "open"
      BY DEF ToReview, Status
    <2>3. ASSUME NEW x \in Windows, x # w PROVE epoch'[x].status # "open"
      <3>1. CASE x = v
        BY <2>1, <2>2, <2>3, <3>1
      <3>2. CASE x # v
        BY <2>1, <2>3, <3>2 DEF Opened, Status
      <3> QED
        BY <3>1, <3>2
    <2>4. Opened' \subseteq {w}
      BY <2>3 DEF Opened, Status, Windows
    <2> QED
      BY <2>4 DEF OneOpen
  <1>4. ASSUME NEW p \in Passes, PassEnsure(p), epoch' # epoch PROVE OneOpen'
    <2>1. /\ Opened = {}
          /\ epoch' = [epoch EXCEPT ![pass[p].w] = [epoch[pass[p].w] EXCEPT !.status = "open"]]
      BY <1>4, EnsureRows
    <2>2. \A x \in Windows \ {pass[p].w} : epoch'[x] = epoch[x]
      BY <1>0, <2>1 DEF EpochsOK
    <2>3. Opened' \subseteq {pass[p].w}
      BY <2>1, <2>2 DEF Opened, Status, Windows
    <2> QED
      BY <2>3 DEF OneOpen
  <1>5. ASSUME NEW a \in Approvers, ReviewClose(a), epoch' # epoch PROVE OneOpen'
    <2> DEFINE w == desk[a].w
    <2>1. epoch' = [epoch EXCEPT ![w] = ToReview(w, desk[a].artifacts)]
      BY <1>5 DEF ReviewClose
    <2>2. ToReview(w, desk[a].artifacts).status # "open"
      BY DEF ToReview, Status
    <2>3. \A x \in Windows : epoch'[x] = IF x = w THEN ToReview(w, desk[a].artifacts) ELSE epoch[x]
      BY <1>0, <2>1 DEF EpochsOK
    <2> HIDE DEF w
    <2>4. \A x \in Windows : epoch'[x].status = "open" => epoch[x].status = "open"
      BY <2>2, <2>3
    <2> QED
      BY <1>1, <2>4 DEF Opened, Status, Windows
  <1>6. ASSUME NEW a \in Approvers, Seal(a) PROVE OneOpen'
    <2> DEFINE w == desk[a].w
    <2>1. /\ w \in Windows
          /\ \/ epoch'[w].status = "finalized"
             \/ Status(w) = "finalized" /\ UNCHANGED epoch
          /\ \A v \in Windows \ {w} : epoch'[v] = epoch[v]
      BY <1>6, SealRows
    <2> HIDE DEF w
    <2>2. \A x \in Windows : epoch'[x].status = "open" => epoch[x].status = "open"
      BY <2>1
    <2> QED
      BY <1>1, <2>2 DEF Opened, Status, Windows
  <1> QED
    BY <1>2, <1>3, <1>4, <1>5, <1>6, Writers

Writes(p) == PassSelectWrite(p) \/ PassAttachWrite(p)
\* What a pass selects stays selected; nobody else selects.
LEMMA SelectedGrows ==
  ASSUME TablesOK, PassesOK, [Next]_vars, InputsOK, NEW w \in Windows
  PROVE  /\ Selected(w) \subseteq Selected(w)'
         /\ \A r \in Selected(w)' \ Selected(w) :
              \E p \in Passes : Writes(p) /\ pass[p].w = w /\ r = InHand(p)
PROOF
  <1>1. CASE selection' = selection
    BY <1>1 DEF Selected
  <1>2. ASSUME NEW p \in Passes, Writes(p)
        PROVE  /\ Selected(w) \subseteq Selected(w)'
               /\ \A r \in Selected(w)' \ Selected(w) : pass[p].w = w /\ r = InHand(p)
    <2> DEFINE v == pass[p].w
               b == InHand(p)
               row == selection[v][b]
               given == IF Userless(row) THEN [row EXCEPT !.user = TRUE] ELSE row
    <2>1. \/ selection' = [selection EXCEPT ![v][b] = Written(p, b, row)]
          \/ selection' = [selection EXCEPT ![v][b] = given]
      BY <1>2 DEF Writes, PassSelectWrite, PassAttachWrite
    <2>2. v \in Windows
      BY <1>2 DEF Writes, PassSelectWrite, PassAttachWrite, At, PassesOK, Local
    <2>3. row \in Row => Written(p, b, row) # None /\ given # None
      <3> SUFFICES ASSUME row \in Row
                   PROVE  Written(p, b, row) \in Row /\ given \in Row
        BY NoneIsNothing DEF NoneIsNothing
      <3>1. row # None
        BY NoneIsNothing DEF NoneIsNothing
      <3> DEFINE i == b \in pass[p].included
      <3>2. i \in BOOLEAN
        OBVIOUS
      <3> HIDE DEF i, row
      <3>3. [row EXCEPT !.user = TRUE] \in Row /\ [row EXCEPT !.in = i] \in Row
        BY <3>2 DEF Row
      <3> QED
        BY <3>1, <3>3 DEF Written, i
    <2> HIDE DEF given, b, v, row
    <2>4. PICK put : /\ selection' = [selection EXCEPT ![v][b] = put]
                     /\ row \in Row => put # None
      BY <2>1, <2>3
    <2>5. \A r \in Receipts : selection'[w][r] = IF w = v /\ r = b THEN put ELSE selection[w][r]
      BY <2>2, <2>4 DEF TablesOK
    <2>6. \A r \in Selected(w) : selection[w][r] \in Row
      BY DEF Selected, InputsOK
    <2> QED
      BY <2>4, <2>5, <2>6 DEF Selected, v, b, row
  <1> QED
    BY <1>1, <1>2, Writers DEF Writes

\* A receipt that a pass has in hand is one of those it is to select.
LEMMA InHandIs ==
  ASSUME NEW p, pass[p].todo \in SUBSET Receipts, pass[p].todo # {}
  PROVE  InHand(p) \in pass[p].todo
PROOF
  <1> DEFINE S == pass[p].todo
             R == {ss \in Nat \X Nat : ss[1] < ss[2]}
  <1>1. S \in SUBSET Nat /\ S # {}
    BY EpochsAssumption DEF EpochsAssumption
  <1>2. IsWellFoundedOn(R, Nat)
    BY NatLessThanWellFounded DEF OpToRel
  <1>3. PICK x \in S : \A y \in S : <<y, x>> \notin R
    <2> HIDE DEF R, S
    <2> QED
      BY <1>1, <1>2, WFMin
  <1> HIDE DEF S
  <1>4. ASSUME NEW y \in S PROVE x =< y
    <2>1. x \in Nat /\ y \in Nat
      BY <1>1
    <2>2. y < x => <<y, x>> \in R
      BY <2>1
    <2> QED
      BY <1>3, <2>1, <2>2
  <1>5. Min(S) \in S
    BY <1>4 DEF Min
  <1> QED
    BY <1>5 DEF InHand, S

\* One pass at a time keeps the selections apart: between its read of what is
\* selected elsewhere and its writes nobody else selects.
LEMMA ApartStep ==
  ASSUME NEW p, Passes = {p}, TablesOK, PassesOK, WellFormed, Apart, [Next]_vars
  PROVE  Apart'
PROOF
  <1>0. PICK w : w = pass[p].w
    OBVIOUS
  <1>1. WorkOK(p) /\ \A u, v \in Windows : u # v => Selected(u) \cap Selected(v) = {}
    BY DEF Apart
  <1>2. ASSUME ~Writes(p)
        PROVE  \A v \in Windows : Selected(v)' = Selected(v)
    <2>1. selection' = selection
      BY <1>2, Writers DEF Writes
    <2> QED
      BY <2>1 DEF Selected
  <1>3. ASSUME Writes(p)
        PROVE  /\ w \in Windows /\ InHand(p) \in pass[p].todo
               /\ pass[p].todo \in SUBSET Receipts
               /\ \A v \in Windows \ {w} : /\ Selected(v)' = Selected(v)
                                           /\ pass[p].todo \cap Selected(v) = {}
               /\ Selected(w)' \subseteq Selected(w) \cup {InHand(p)}
    <2>1. pass[p].at \in Materialising /\ w \in Windows
      BY <1>0, <1>3 DEF Writes, PassSelectWrite, PassAttachWrite, At, PassesOK, Local,
                        Materialising
    <2>2. /\ pass[p].todo \in SUBSET Receipts /\ pass[p].todo # {}
          /\ \A v \in Windows \ {w} : pass[p].todo \cap Selected(v) = {}
      BY <1>0, <1>1, <2>1 DEF WorkOK
    <2>3. InHand(p) \in pass[p].todo
      BY <2>2, InHandIs
    <2>4. \A v \in Windows \ {w} : Selected(v)' = Selected(v)
      BY <1>0, SelectedGrows DEF WellFormed
    <2>5. Selected(w)' \subseteq Selected(w) \cup {InHand(p)}
      BY <1>0, <2>1, SelectedGrows DEF WellFormed
    <2> QED
      BY <2>1, <2>2, <2>3, <2>4, <2>5
  <1>4. ASSUME NEW u \in Windows, NEW v \in Windows, u # v
        PROVE  Selected(u)' \cap Selected(v)' = {}
    <2>1. CASE ~Writes(p)
      BY <1>1, <1>2, <1>4, <2>1
    <2>2. CASE Writes(p) /\ u = w
      BY <1>1, <1>3, <1>4, <2>2
    <2>3. CASE Writes(p) /\ v = w
      BY <1>1, <1>3, <1>4, <2>3
    <2>4. CASE Writes(p) /\ u # w /\ v # w
      BY <1>1, <1>3, <1>4, <2>4
    <2> QED
      BY <2>1, <2>2, <2>3, <2>4
  <1>5. WorkOK(p)'
    <2> SUFFICES ASSUME pass'[p].at \in Materialising
                 PROVE  /\ pass'[p].todo \in SUBSET Receipts /\ pass'[p].todo # {}
                        /\ \A v \in Windows \ {pass'[p].w} : pass'[p].todo \cap Selected(v)' = {}
      BY DEF WorkOK, Windows, Materialising
    <2>1. CASE pass'[p] = pass[p]
      <3>1. CASE ~Writes(p)
        BY <1>0, <1>1, <1>2, <2>1, <3>1 DEF WorkOK
      <3>2. CASE Writes(p)
        BY <1>0, <1>1, <1>3, <2>1, <3>2 DEF WorkOK
      <3> QED
        BY <3>1, <3>2
    <2>2. ASSUME \/ PassStart(p) \/ PassBuild(p) \/ PassTransition(p) \/ PassEnsure(p)
                 \/ PassPool(p) \/ PassPoolInsert(p) \/ PassDies(p)
          PROVE  pass'[p] = pass[p] \/ pass'[p].at \notin Materialising
      <3>1. \E to : Move(p, to) /\ to.at \notin Materialising
        <4>1. Resting.at \notin Materialising
          BY DEF Resting, Materialising
        <4>2. Ends(p) => \E to : Move(p, to) /\ to.at \notin Materialising
          BY <4>1 DEF Ends
        <4>3. \A v : Enter(p, v) => \E to : Move(p, to) /\ to.at \notin Materialising
          BY <4>2 DEF Enter, Materialising
        <4>4. CASE PassStart(p) \/ PassBuild(p)
          <5>1. \A u, v, x :
                  /\ [at |-> "ensure", w |-> u].at \notin Materialising
                  /\ [at |-> "build", w |-> u, stale |-> v].at \notin Materialising
                  /\ [at |-> "transition", w |-> u, stale |-> v, artifacts |-> x].at
                       \notin Materialising
            BY DEF Materialising
          <5>2. CASE PassStart(p)
            BY <5>1, <5>2 DEF PassStart
          <5>3. CASE PassBuild(p)
            BY <5>1, <5>3 DEF PassBuild
          <5> QED
            BY <4>4, <5>2, <5>3
        <4>5. CASE PassTransition(p)
          BY <4>2, <4>3, <4>5 DEF PassTransition
        <4>6. CASE PassEnsure(p)
          BY <4>2, <4>3, <4>6 DEF PassEnsure
        <4>7. CASE PassPool(p) \/ PassPoolInsert(p) \/ PassDies(p)
          BY <4>2, <4>7 DEF Materialising, PassPool, PassPoolInsert, PassDies
        <4> QED
          BY <2>2, <4>4, <4>5, <4>6, <4>7
      <3> QED
        BY <3>1 DEF Move, PassesOK
    <2>3. CASE PassCandidates(p)
      <3>1. /\ pass'[p].at = IF Candidates(w) = {} THEN "pool" ELSE "select"
            /\ pass'[p].w = w /\ pass'[p].todo = Candidates(w)
        BY <1>0, <2>3 DEF PassCandidates, Move, PassesOK
      <3>2. Candidates(w) \subseteq Receipts
        BY DEF Candidates, WellFormed, CountsOK
      <3>3. \A v \in Windows \ {w} : Candidates(w) \cap Selected(v) = {}
        BY DEF Candidates
      <3>4. \A v \in Windows : Selected(v)' = Selected(v)
        BY <2>3 DEF PassCandidates, rows, Selected
      <3> QED
        BY <3>1, <3>2, <3>3, <3>4 DEF Materialising
    <2>4. ASSUME pass[p].at \in Materialising,
                 \/ Ends(p) \/ Onward(p) \/ Done(p)
                 \/ \E at \in Materialising : Move(p, [pass[p] EXCEPT !.at = at])
          PROVE  /\ pass'[p].w = w
                 /\ \/ pass'[p].todo = pass[p].todo
                    \/ pass'[p].todo = pass[p].todo \ {InHand(p)} /\ pass'[p].todo # {}
      <3>1. DOMAIN pass[p] = Work
        BY <2>4, Places
      <3>2. CASE \E at : Move(p, [pass[p] EXCEPT !.at = at])
        BY <1>0, <3>1, <3>2 DEF Move, PassesOK, Work
      <3>3. CASE Ends(p)
        BY <3>3 DEF Ends, Move, PassesOK, Resting, Materialising
      <3>4. CASE Done(p)
        <4> DEFINE rest == pass[p].todo \ {InHand(p)}
                   at == IF rest = {} THEN "pool" ELSE "select"
                   to == [pass[p] EXCEPT !.todo = rest, !.at = at]
        <4>1. pass'[p] = to
          BY <3>4 DEF Done, Move, PassesOK
        <4>2. rest = {} => at \notin Materialising
          BY DEF Materialising
        <4> HIDE DEF rest, at
        <4>3. to.todo = rest /\ to.at = at /\ to.w = w
          BY <1>0, <3>1 DEF Work
        <4> QED
          BY <4>1, <4>2, <4>3 DEF rest
      <3> QED
        BY <2>4, <3>2, <3>3, <3>4 DEF Onward
    <2>5. ASSUME \/ PassSelect(p) \/ PassSelectWrite(p) \/ PassAttach(p)
                 \/ PassAttachWrite(p) \/ PassClaim(p)
          PROVE  /\ pass'[p].todo \in SUBSET Receipts /\ pass'[p].todo # {}
                 /\ \A v \in Windows \ {pass'[p].w} : pass'[p].todo \cap Selected(v)' = {}
      <3>1. pass[p].at \in Materialising
        BY <2>5 DEF PassSelect, PassSelectWrite, PassAttach, PassAttachWrite, PassClaim, At,
                    Materialising
      <3>2. \/ Ends(p) \/ Onward(p) \/ Done(p)
            \/ \E at \in Materialising : Move(p, [pass[p] EXCEPT !.at = at])
        BY <2>5 DEF PassSelect, PassSelectWrite, PassAttach, PassAttachWrite, PassClaim,
                    Trigger, Materialising
      <3>3. /\ pass'[p].w = w /\ pass'[p].todo # {}
            /\ pass'[p].todo \subseteq pass[p].todo /\ pass[p].todo \in SUBSET Receipts
        BY <1>1, <2>4, <3>1, <3>2 DEF WorkOK
      <3>4. \A v \in Windows \ {w} : pass[p].todo \cap Selected(v)' = {}
        BY <1>0, <1>1, <1>2, <1>3, <3>1 DEF WorkOK
      <3> QED
        BY <3>3, <3>4
    <2>6. CASE Collect(p) \/ PassDies(p)
      BY <2>1, <2>2, <2>3, <2>5, <2>6 DEF Collect
    <2> QED
      BY <2>1, <2>6, Writers
  <1> QED
    BY <1>4, <1>5 DEF Apart, Windows, WorkOK

\* A request that is about to seal pays for what its window has selected.
LEMMA SeatBacked ==
  ASSUME TablesOK, WellFormed, Backed, NEW a \in Approvers,
         Handle(a) \/ \E w \in Windows : Ask(a, w)
  PROVE  \E it : Sit(a, it) /\ (it.at = "seal" => PaysFor(it.content, it.w))
PROOF
  <1>0. InputsOK /\ BookOK /\ SeatOK(desk[a])
    BY DEF WellFormed, RequestsOK
  <1>1. Resting.at # "seal"
    BY DEF Resting
  <1>2. CASE ReviewClose(a) \/ PoolInsert(a) \/ Seal(a)
    BY <1>1, <1>2 DEF ReviewClose, PoolInsert, Seal, Rise
  <1>3. CASE FinalizeStart(a)
    <2> DEFINE w == desk[a].w
    <2>1. w \in Windows
      BY <1>0, <1>3 DEF FinalizeStart, SeatOK
    <2>2. ASSUME Sit(a, [at |-> "compute", w |-> w, message |-> desk[a].message,
                         pool |-> PoolTotal(w)])
          PROVE  \E it : Sit(a, it) /\ (it.at = "seal" => PaysFor(it.content, it.w))
      BY <2>2
    <2>3. ASSUME Status(w) = "finalized",
                 Sit(a, [at |-> "seal", w |-> w, content |-> statement[w]])
          PROVE  \E it : Sit(a, it) /\ (it.at = "seal" => PaysFor(it.content, it.w))
      <3>1. PaysFor(statement[w], w)
        BY <1>0, <2>1, <2>3 DEF BookOK, Backed
      <3> QED
        BY <2>3, <3>1
    <2> QED
      BY <1>3, <2>2, <2>3 DEF FinalizeStart
  <1>4. CASE FinalizeRead(a)
    <2> DEFINE w == desk[a].w
               content == Content(w, desk[a].pool)
    <2>1. w \in Windows /\ desk[a].pool \in Nat
      BY <1>0, <1>4 DEF FinalizeRead, SeatOK
    <2>2. CASE Rise(a)
      BY <1>1, <2>2 DEF Rise
    <2>3. CASE Claimed(w) /\ Sit(a, [at |-> "seal", w |-> w, content |-> content])
      <3>1. PaysFor(content, w)
        BY <1>0, <2>1, <2>3, ContentType DEF PaysFor
      <3> HIDE DEF content
      <3> QED
        BY <2>3, <3>1
    <2> QED
      BY <1>4, <2>2, <2>3 DEF FinalizeRead
  <1>5. ASSUME NEW w \in Windows, Ask(a, w)
        PROVE  \E it : Sit(a, it) /\ it.at # "seal"
    <2>1. CASE ReviewBuild(a, w)
      BY <2>1 DEF ReviewBuild
    <2>2. CASE SignData(a, w)
      BY <2>2 DEF SignData
    <2>3. CASE \E c \in Components : PoolCheck(a, w, c)
      BY <2>3 DEF PoolCheck
    <2> QED
      BY <1>5, <2>1, <2>2, <2>3 DEF Ask
  <1> QED
    BY <1>2, <1>3, <1>4, <1>5 DEF Handle

LEMMA BackedStep ==
  ASSUME Shape, WellFormed, Backed, [Next]_vars
  PROVE  Backed'
PROOF
  <1> USE DEF Shape
  <1>0. RequestsOK /\ BookOK
    BY DEF WellFormed
  <1>1. \A w \in Windows : \A c : PaysFor(c, w) => UNION Range(c.receipts) \subseteq Selected(w)'
    BY SelectedGrows DEF PaysFor, WellFormed
  <1>2. ASSUME NEW w \in Windows, statement'[w] # None
        PROVE  PaysFor(statement'[w], w)
    <2>1. CASE ~\E a \in Approvers : Seal(a)
      <3>1. statement' = statement
        BY <2>1, Writers DEF book
      <3> QED
        BY <1>2, <3>1 DEF Backed
    <2>2. ASSUME NEW a \in Approvers, Seal(a) PROVE PaysFor(statement'[w], w)
      <3>1. PaysFor(desk[a].content, desk[a].w)
        BY <2>2 DEF Seal, Backed
      <3>2. \/ statement' = [statement EXCEPT ![desk[a].w] = desk[a].content]
            \/ statement' = statement
        BY <2>2, SealRows
      <3>3. statement'[w] = statement[w] \/ (w = desk[a].w /\ statement'[w] = desk[a].content)
        BY <3>2 DEF TablesOK
      <3> QED
        BY <1>2, <3>1, <3>3 DEF Backed
    <2> QED
      BY <2>1, <2>2
  <1>3. ASSUME NEW a \in Approvers, desk'[a].at = "seal"
        PROVE  PaysFor(desk'[a].content, desk'[a].w)
    <2>1. CASE desk'[a] = desk[a]
      BY <1>3, <2>1 DEF Backed
    <2>2. ASSUME NEW b \in Approvers, Handle(b) \/ \E w \in Windows : Ask(b, w)
          PROVE  PaysFor(desk'[a].content, desk'[a].w)
      <3>1. PICK it : Sit(b, it) /\ (it.at = "seal" => PaysFor(it.content, it.w))
        BY <2>2, SeatBacked
      <3>2. desk'[a] = IF a = b THEN it ELSE desk[a]
        BY <1>0, <3>1 DEF Sit, RequestsOK
      <3> QED
        BY <1>3, <2>1, <3>1, <3>2
    <2> QED
      BY <2>1, <2>2, Writers
  <1>4. RequestsOK'
    BY RequestsStep
  <1>5. \A a \in Approvers : desk'[a].at = "seal" => desk'[a].w \in Windows
    <2> SUFFICES ASSUME NEW a \in Approvers, desk'[a].at = "seal" PROVE desk'[a].w \in Windows
      OBVIOUS
    <2>1. SeatOK(desk[a])'
      BY <1>4 DEF RequestsOK
    <2> QED
      BY <2>1 DEF SeatOK, Windows
  <1>6. \A w \in Windows : \A c : PaysFor(c, w) =>
          UNION Range(c.receipts) \subseteq {r \in Receipts : selection'[w][r] # None}
    BY <1>1 DEF Selected
  <1>7. ASSUME NEW a \in Approvers, desk'[a].at = "seal"
        PROVE  UNION Range(desk'[a].content.receipts)
                 \subseteq {r \in Receipts : selection'[desk'[a].w][r] # None}
    BY <1>3, <1>5, <1>6, <1>7
  <1>8. ASSUME NEW w \in Windows, statement'[w] # None
        PROVE  UNION Range(statement'[w].receipts)
                 \subseteq {r \in Receipts : selection'[w][r] # None}
    BY <1>2, <1>6, <1>8
  <1>9. /\ \A w \in Windows : (statement[w] # None)' => PaysFor(statement[w], w)'
        /\ \A a \in Approvers : (desk[a].at = "seal")' => PaysFor(desk[a].content, desk[a].w)'
    BY <1>7, <1>8 DEF PaysFor, Selected
  <1> QED
    BY <1>9 DEF Backed, Windows

-----------------------------------------------------------------------------
(* The epochs keep the book *)

PhaseOf == [w \in Windows |-> Status(w)]
PaidOf == [w \in Windows |-> IF statement[w] = None THEN None ELSE Paid(statement[w])]
SignersOf == [w \in Windows |-> {a \in Approvers : signatures[w][a] # None}]

\* The same sum, seen through the instance.
LEMMA BookSum == ASSUME NEW f PROVE Book!SumFunction(f) = SumFunction(f)
PROOF
  BY DEF Book!SumFunction, SumFunction, SumFunctionOnSet, FoldFunctionOnSet, MapThenFoldSet,
         Book!SumFunctionOnSet, Book!FoldFunctionOnSet, Book!MapThenFoldSet

LEMMA BookStutter ==
  ASSUME PhaseOf' = PhaseOf, PaidOf' = PaidOf, SignersOf' = SignersOf
  PROVE  UNCHANGED Book!vars
PROOF
  BY DEF Book!vars, PhaseOf, PaidOf, SignersOf

LEMMA BookOpen ==
  ASSUME NEW w \in Windows, PhaseOf[w] = "none", \A v \in Windows : PhaseOf[v] # "open",
         PhaseOf' = [PhaseOf EXCEPT ![w] = "open"], PaidOf' = PaidOf, SignersOf' = SignersOf
  PROVE  Book!Next
PROOF
  <1>1. PhaseOf' # PhaseOf
    BY DEF PhaseOf
  <1>2. Book!Open(w)
    BY DEF Book!Open, Book!NoneOpen, PhaseOf, PaidOf, SignersOf
  <1>3. Book!Advance
    BY <1>1, <1>2 DEF Book!Advance, PhaseOf
  <1> QED
    BY <1>3 DEF Book!Next

LEMMA BookReview ==
  ASSUME NEW w \in Windows, PhaseOf[w] = "open",
         PhaseOf' = [PhaseOf EXCEPT ![w] = "review"], PaidOf' = PaidOf, SignersOf' = SignersOf
  PROVE  Book!Next
PROOF
  <1>1. PhaseOf' # PhaseOf
    BY DEF PhaseOf
  <1>2. Book!Review(w)
    BY DEF Book!Review, PhaseOf, PaidOf, SignersOf
  <1>3. Book!Advance
    BY <1>1, <1>2 DEF Book!Advance, PhaseOf
  <1> QED
    BY <1>3 DEF Book!Next

LEMMA BookTurn ==
  ASSUME NEW v \in Windows, NEW w \in Windows, PhaseOf[v] = "open", PhaseOf[w] = "none",
         PhaseOf' = [PhaseOf EXCEPT ![v] = "review", ![w] = "open"],
         PaidOf' = PaidOf, SignersOf' = SignersOf
  PROVE  Book!Next
PROOF
  <1>1. PhaseOf' # PhaseOf
    BY DEF PhaseOf
  <1>2. Book!Turn(v, w)
    BY DEF Book!Turn, PhaseOf, PaidOf, SignersOf
  <1>3. Book!Advance
    BY <1>1, <1>2 DEF Book!Advance, PhaseOf
  <1> QED
    BY <1>3 DEF Book!Next

LEMMA BookSeal ==
  ASSUME NEW w \in Windows, NEW a \in Approvers, NEW st, PhaseOf[w] = "review", st # None,
         DOMAIN st.lines = {} \/ SumFunction(st.lines) = st.pool,
         Alone => \A v \in Windows \ {w} : PaidOf[v] # None => st.receipts \cap PaidOf[v].receipts = {},
         PhaseOf' = [PhaseOf EXCEPT ![w] = "finalized"],
         PaidOf' = [PaidOf EXCEPT ![w] = st],
         SignersOf' = [SignersOf EXCEPT ![w] = {a}]
  PROVE  Book!Next
PROOF
  <1>1. PhaseOf' # PhaseOf
    BY DEF PhaseOf
  <1>2. PaidOf'[w] = st
    BY DEF PaidOf
  <1>3. Book!WholePool(PaidOf'[w])
    BY <1>2, BookSum DEF Book!WholePool
  <1>4. Alone => PaidOf'[w].receipts \cap Book!PaidElsewhere(w) = {}
    <2>1. Book!PaidElsewhere(w)
            = UNION {PaidOf[v].receipts : v \in {v \in Windows \ {w} : PaidOf[v] # None}}
      BY DEF Book!PaidElsewhere, PaidOf
    <2>2. \A r \in Book!PaidElsewhere(w) :
            \E v \in Windows \ {w} : PaidOf[v] # None /\ r \in PaidOf[v].receipts
      BY <2>1
    <2> QED
      BY <1>2, <2>2
  <1>5. Book!Seal(w)
    BY <1>2, <1>3, <1>4 DEF Book!Seal, PhaseOf, PaidOf, SignersOf, Alone
  <1>6. Book!Advance
    BY <1>1, <1>5 DEF Book!Advance, PhaseOf
  <1> QED
    BY <1>6 DEF Book!Next

LEMMA BookCoSign ==
  ASSUME NEW w \in Windows, NEW a \in Approvers, PhaseOf[w] = "finalized",
         PhaseOf' = PhaseOf, PaidOf' = PaidOf,
         SignersOf' = [SignersOf EXCEPT ![w] = @ \cup {a}]
  PROVE  Book!Next \/ UNCHANGED Book!vars
PROOF
  <1>1. CASE SignersOf' = SignersOf
    BY <1>1, BookStutter
  <1>2. CASE SignersOf' # SignersOf
    <2>1. Book!CoSign(w, a)
      BY <1>2 DEF Book!CoSign, PhaseOf, PaidOf, SignersOf
    <2> QED
      BY <2>1 DEF Book!Next
  <1> QED
    BY <1>1, <1>2

\* What a statement is mapped to.
LEMMA PaidIs ==
  ASSUME NEW st \in Statement, Computed(st)
  PROVE  /\ Paid(st) # None /\ Paid(st).receipts = UNION Range(st.receipts)
         /\ DOMAIN Paid(st).lines = {} \/ SumFunction(Paid(st).lines) = Paid(st).pool
PROOF
  <1>1. st.lines \in Portions /\ st.pool \in Nat /\ st.receipts \in Origins
    BY DEF Statement
  <1>2. UNION Range(st.receipts) \subseteq Receipts
    <2>1. PICK K \in SUBSET Identities : st.receipts \in [K -> SUBSET Receipts]
      BY <1>1 DEF Origins
    <2> QED
      BY <2>1 DEF Range
  <1>3. Paid(st) \in Payment
    BY <1>1, <1>2 DEF Paid, Payment
  <1>4. Paid(st) # None
    BY <1>3, NoneIsNothing DEF NoneIsNothing
  <1>5. /\ Paid(st).lines = st.lines /\ Paid(st).pool = st.pool
        /\ Paid(st).receipts = UNION Range(st.receipts)
    BY DEF Paid
  <1> QED
    BY <1>4, <1>5, LinesOf

\* A step that moves the status of epochs only.
LEMMA PhaseStep ==
  ASSUME PassesOK, WellFormed, [Next]_vars, ~\E a \in Approvers : Seal(a)
  PROVE  Book!Next \/ UNCHANGED Book!vars
PROOF
  <1>0. RequestsOK /\ EpochsOK
    BY DEF WellFormed
  <1>1. PaidOf' = PaidOf /\ SignersOf' = SignersOf
    <2>1. UNCHANGED <<statement, signatures>>
      BY Writers DEF book
    <2> QED
      BY <2>1 DEF PaidOf, SignersOf, Windows, Paid
  <1>2. CASE epoch' = epoch
    <2>1. PhaseOf' = PhaseOf
      BY <1>2 DEF PhaseOf, Status, Windows
    <2> QED
      BY <1>1, <2>1, BookStutter
  <1>3. ASSUME NEW p \in Passes, PassTransition(p), epoch' # epoch PROVE Book!Next
    <2>0. PICK v, w, artifacts :
            v = pass[p].stale /\ w = pass[p].w /\ artifacts = pass[p].artifacts
      OBVIOUS
    <2>1. /\ v \in Windows /\ w \in Windows /\ Status(w) = "none" /\ Opened \ {v} = {}
          /\ \A x \in Windows :
               epoch'[x] = IF x = w THEN [epoch[w] EXCEPT !.status = "open"]
                           ELSE IF x = v THEN ToReview(v, artifacts)
                           ELSE epoch[x]
      <3>1. /\ pass[p].stale \in Windows /\ pass[p].w \in Windows
            /\ Status(pass[p].w) = "none" /\ Opened \ {pass[p].stale} = {}
            /\ \A x \in Windows :
                 epoch'[x] = IF x = pass[p].w THEN [epoch[pass[p].w] EXCEPT !.status = "open"]
                             ELSE IF x = pass[p].stale
                                  THEN ToReview(pass[p].stale, pass[p].artifacts)
                             ELSE epoch[x]
        BY <1>0, <1>3, TransitionRows
      <3> QED
        BY <2>0, <3>1
    <2>2. epoch[w] \in EpochRow /\ [epoch[w] EXCEPT !.status = "open"].status = "open"
      BY <1>0, <2>1 DEF EpochsOK, EpochOK, EpochRow
    <2>3. ToReview(v, artifacts).status = IF Status(v) = "open" THEN "review" ELSE Status(v)
      BY DEF ToReview, Status
    <2>4. \A x \in Windows :
            epoch'[x].status = IF x = w THEN "open"
                               ELSE IF x = v /\ Status(v) = "open" THEN "review"
                               ELSE Status(x)
      BY <2>1, <2>2, <2>3 DEF Status
    <2>5. PhaseOf' = [x \in Windows |-> IF x = w THEN "open"
                                        ELSE IF x = v /\ Status(v) = "open" THEN "review"
                                        ELSE Status(x)]
      BY <2>4 DEF PhaseOf, Status, Windows
    <2>6. PhaseOf[w] = "none" /\ PhaseOf[v] = Status(v)
      BY <2>1 DEF PhaseOf
    <2>7. CASE Status(v) = "open"
      <3>1. PhaseOf' = [PhaseOf EXCEPT ![v] = "review", ![w] = "open"]
        BY <2>1, <2>5, <2>7 DEF PhaseOf
      <3> QED
        BY <1>1, <2>1, <2>6, <2>7, <3>1, BookTurn
    <2>8. CASE Status(v) # "open"
      <3>1. PhaseOf' = [PhaseOf EXCEPT ![w] = "open"]
        BY <2>5, <2>8 DEF PhaseOf
      <3>2. \A x \in Windows : PhaseOf[x] # "open"
        BY <2>1, <2>8 DEF PhaseOf, Opened
      <3> QED
        BY <1>1, <2>1, <2>6, <3>1, <3>2, BookOpen
    <2> QED
      BY <2>7, <2>8
  <1>4. ASSUME NEW p \in Passes, PassEnsure(p), epoch' # epoch PROVE Book!Next
    <2>1. PICK w : /\ w = pass[p].w
                   /\ Status(w) = "none" /\ Opened = {}
                   /\ epoch' = [epoch EXCEPT ![w] = [epoch[w] EXCEPT !.status = "open"]]
      BY <1>4, EnsureRows
    <2>2. w \in Windows
      BY <1>4, <2>1 DEF PassEnsure, At, PassesOK, Local
    <2>3. [epoch[w] EXCEPT !.status = "open"].status = "open"
      BY <1>0, <2>2 DEF EpochsOK, EpochOK, EpochRow
    <2>4. \A x \in Windows : epoch'[x].status = IF x = w THEN "open" ELSE epoch[x].status
      BY <1>0, <2>1, <2>3 DEF EpochsOK
    <2>5. PhaseOf' = [PhaseOf EXCEPT ![w] = "open"]
      BY <2>4 DEF PhaseOf, Status, Windows
    <2>6. PhaseOf[w] = "none" /\ \A x \in Windows : PhaseOf[x] # "open"
      BY <2>1, <2>2 DEF PhaseOf, Opened
    <2> QED
      BY <1>1, <2>2, <2>5, <2>6, BookOpen
  <1>5. ASSUME NEW a \in Approvers, ReviewClose(a), epoch' # epoch
        PROVE  Book!Next \/ UNCHANGED Book!vars
    <2>1. PICK w, artifacts : /\ w = desk[a].w
                              /\ epoch' = [epoch EXCEPT ![w] = ToReview(w, artifacts)]
      BY <1>5 DEF ReviewClose
    <2>2. w \in Windows
      BY <1>0, <1>5, <2>1 DEF ReviewClose, RequestsOK, SeatOK
    <2>3. ToReview(w, artifacts).status = IF Status(w) = "open" THEN "review" ELSE Status(w)
      BY DEF ToReview, Status
    <2>4. \A x \in Windows :
            epoch'[x].status = IF x = w /\ Status(w) = "open" THEN "review" ELSE epoch[x].status
      BY <1>0, <2>1, <2>3 DEF EpochsOK, Status
    <2>5. CASE Status(w) = "open"
      <3>1. PhaseOf' = [PhaseOf EXCEPT ![w] = "review"] /\ PhaseOf[w] = "open"
        BY <2>2, <2>4, <2>5 DEF PhaseOf, Status, Windows
      <3> QED
        BY <1>1, <2>2, <3>1, BookReview
    <2>6. CASE Status(w) # "open"
      <3>1. PhaseOf' = PhaseOf
        BY <2>4, <2>6 DEF PhaseOf, Status, Windows
      <3> QED
        BY <1>1, <3>1, BookStutter
    <2> QED
      BY <2>5, <2>6
  <1> QED
    BY <1>2, <1>3, <1>4, <1>5, Writers

\* A seal stores a statement, of receipts that no other pays for if no passes
\* overlapped, or adds a signature.
LEMMA SealStepOfBook ==
  ASSUME Shape, WellFormed, SignedIsStored, Alone => Apart, Backed,
         NEW a \in Approvers, Seal(a)
  PROVE  Book!Next \/ UNCHANGED Book!vars
PROOF
  <1> USE DEF Shape
  <1>0. BookOK /\ EpochsOK
    BY DEF WellFormed
  <1>1. PICK w, content :
          /\ w = desk[a].w /\ content = desk[a].content
          /\ w \in Windows /\ content \in Statement /\ Computed(content)
          /\ \/ /\ Status(w) = "review" /\ epoch'[w].status = "finalized"
                /\ statement' = [statement EXCEPT ![w] = content]
                /\ Sign(a, w, content)
             \/ /\ Status(w) = "finalized" /\ UNCHANGED <<epoch, statement>>
                /\ (Agrees(a, w, content) /\ Sign(a, w, content)) \/ UNCHANGED signatures
          /\ \A v \in Windows \ {w} : epoch'[v] = epoch[v]
    BY SealRows
  <1>2. Message(content) # None
    BY <1>1, MessageType, NoneIsNothing DEF NoneIsNothing
  <1>3. Sign(a, w, content) =>
          \A v \in Windows, b \in Approvers :
            signatures'[v][b] = IF v = w /\ b = a THEN Message(content) ELSE signatures[v][b]
    BY <1>0, <1>1, SignType DEF BookOK
  <1>4. Sign(a, w, content) => SignersOf' = [SignersOf EXCEPT ![w] = @ \cup {a}]
    <2> SUFFICES ASSUME Sign(a, w, content)
                 PROVE  SignersOf' = [SignersOf EXCEPT ![w] = @ \cup {a}]
      OBVIOUS
    <2>1. \A v \in Windows : {b \in Approvers : signatures'[v][b] # None}
            = IF v = w THEN SignersOf[w] \cup {a} ELSE SignersOf[v]
      BY <1>1, <1>2, <1>3 DEF SignersOf
    <2>2. SignersOf' = [v \in Windows |-> {b \in Approvers : signatures'[v][b] # None}]
      BY DEF SignersOf, Windows
    <2>3. SignersOf' = [v \in Windows |-> IF v = w THEN SignersOf[w] \cup {a} ELSE SignersOf[v]]
      BY <2>1, <2>2
    <2>4. DOMAIN SignersOf = Windows
      BY DEF SignersOf
    <2> QED
      BY <1>1, <2>3, <2>4
  <1>5. CASE Status(w) = "finalized" /\ UNCHANGED <<epoch, statement>>
    <2>1. PhaseOf' = PhaseOf /\ PaidOf' = PaidOf /\ PhaseOf[w] = "finalized"
      BY <1>1, <1>5 DEF PhaseOf, PaidOf, Status, Windows, Paid
    <2>2. CASE Sign(a, w, content)
      BY <1>1, <1>4, <2>1, <2>2, BookCoSign
    <2>3. CASE UNCHANGED signatures
      <3>1. SignersOf' = SignersOf
        BY <2>3 DEF SignersOf, Windows
      <3> QED
        BY <2>1, <3>1, BookStutter
    <2> QED
      BY <1>1, <1>5, <2>2, <2>3
  <1>6. CASE /\ Status(w) = "review" /\ epoch'[w].status = "finalized"
             /\ statement' = [statement EXCEPT ![w] = content]
             /\ Sign(a, w, content)
    <2> DEFINE st == Paid(content)
    <2>1. /\ st # None /\ st.receipts = UNION Range(content.receipts)
          /\ DOMAIN st.lines = {} \/ SumFunction(st.lines) = st.pool
      BY <1>1, PaidIs
    <2>2. PhaseOf[w] = "review" /\ PhaseOf' = [PhaseOf EXCEPT ![w] = "finalized"]
      BY <1>1, <1>6 DEF PhaseOf, Status, Windows
    <2>3. content # None
      BY <1>1, NoneIsNothing DEF NoneIsNothing
    <2>4. PaidOf' = [PaidOf EXCEPT ![w] = st]
      <3>1. \A v \in Windows : statement'[v] = IF v = w THEN content ELSE statement[v]
        BY <1>0, <1>6 DEF BookOK
      <3>2. PaidOf' = [v \in Windows |-> IF statement'[v] = None THEN None ELSE Paid(statement'[v])]
        BY DEF PaidOf, Windows, Paid
      <3> HIDE DEF st
      <3>3. PaidOf' = [v \in Windows |-> IF v = w THEN st ELSE PaidOf[v]]
        BY <2>3, <3>1, <3>2 DEF PaidOf, st
      <3>4. DOMAIN PaidOf = Windows
        BY DEF PaidOf
      <3> QED
        BY <1>1, <3>3, <3>4
    <2>5. SignersOf' = [SignersOf EXCEPT ![w] = {a}]
      <3>1. statement[w] = None
        BY <1>0, <1>1, <1>6 DEF BookOK
      <3>2. SignersOf[w] = {}
        BY <1>1, <3>1 DEF SignersOf, SignedIsStored
      <3>3. SignersOf[w] \cup {a} = {a}
        BY <3>2
      <3> QED
        BY <1>4, <1>6, <3>3
    <2>6. st.receipts \subseteq Selected(w)
      BY <1>1, <2>1 DEF Seal, Backed, PaysFor
    <2>7. ASSUME Alone, NEW v \in Windows \ {w}, PaidOf[v] # None
          PROVE  st.receipts \cap PaidOf[v].receipts = {}
      <3>1. statement[v] # None /\ PaidOf[v] = Paid(statement[v])
        BY <2>7 DEF PaidOf
      <3>2. PaidOf[v].receipts = UNION Range(statement[v].receipts)
        BY <3>1 DEF Paid
      <3>3. PaidOf[v].receipts \subseteq Selected(v)
        BY <3>1, <3>2 DEF Backed, PaysFor
      <3>4. Selected(v) \cap Selected(w) = {}
        BY <1>1, <2>7 DEF Apart
      <3> QED
        BY <2>6, <3>3, <3>4
    <2> HIDE DEF st
    <2> QED
      BY <1>1, <2>1, <2>2, <2>4, <2>5, <2>7, BookSeal
  <1> QED
    BY <1>1, <1>5, <1>6

LEMMA BookInit == Init => Book!Init
PROOF
  BY DEF Init, Book!Init, Status

\* For any number of passes: one epoch at most is open.
THEOREM OneEpochOpen == Spec => []OneOpen
PROOF
  <1>1. Init => OneOpen
    BY DEF Init, OneOpen, Opened, Status
  <1>2. Shape /\ WellFormed /\ OneOpen /\ [Next]_vars => OneOpen'
    BY OpenStep DEF Shape
  <1> QED
    BY <1>1, <1>2, Formed, PTL DEF Spec

\* For any number of passes: what is stored, or about to be sealed, pays for
\* nothing that its epoch has not selected, however old the request's reads.
THEOREM StatementsBacked == Spec => []Backed
PROOF
  <1>1. Init => Backed
    BY DEF Init, Backed, Resting
  <1>2. Shape /\ WellFormed /\ Backed /\ [Next]_vars => Backed'
    BY BackedStep
  <1> QED
    BY <1>1, <1>2, Formed, PTL DEF Spec

\* Where passes do not overlap no receipt is selected in two epochs.
THEOREM SelectedApart == Spec => [](Alone => Apart)
PROOF
  <1>1. Init => Apart
    BY DEF Init, Apart, Selected, WorkOK, Resting, Materialising
  <1>2. ASSUME Shape, WellFormed, Apart, [Next]_vars, Alone
        PROVE  Apart'
    <2>1. CASE Passes = {}
      <3>1. selection' = selection
        BY <1>2, <2>1, Writers
      <3> QED
        BY <1>2, <2>1, <3>1 DEF Apart, Selected, Windows
    <2>2. ASSUME NEW p \in Passes PROVE Apart'
      <3>1. Passes = {p}
        BY <1>2, <2>2 DEF Alone
      <3> QED
        BY <1>2, <3>1, ApartStep DEF Shape
    <2> QED
      BY <2>1, <2>2
  <1>3. Shape /\ WellFormed /\ (Alone => Apart) /\ [Next]_vars => (Alone => Apart)'
    BY <1>2 DEF Alone
  <1> QED
    BY <1>1, <1>3, Formed, PTL DEF Spec

\* For any number of passes, whatever they, the approvers and the windows
\* interleave: epochs are opened one at a time, reviewed and sealed once by
\* statements that give away their whole pool; where passes do not overlap no
\* other statement pays for the receipts of one.
THEOREM EpochBookKept == Spec => ImplementsEpochBook
PROOF
  <1>1. Shape /\ WellFormed /\ SignedIsStored /\ (Alone => Apart) /\ Backed /\ [Next]_vars
          => [Book!Next]_(Book!vars)
    BY PhaseStep, SealStepOfBook DEF Shape
  <1> QED
    BY <1>1, BookInit, SelectedApart, StatementsBacked, Formed, SignedStored, PTL
       DEF Spec, ImplementsEpochBook, Book!Spec

=============================================================================
