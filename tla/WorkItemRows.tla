---------------------------- MODULE WorkItemRows ----------------------------
(***************************************************************************)
(* The work_items table and what the statement of each call does to it:    *)
(* who may change a row, and when a lease may be taken, renewed or given   *)
(* back.  The statements run the same way on a branch and on main.         *)
(***************************************************************************)
EXTENDS Integers

CONSTANTS
  Ops,        \* calls of the adapter
  Kind,       \* [Ops -> Kinds]
  Target,     \* [Ops -> item, None for a create that leaves the id to the store]
  Principal,  \* [Ops -> the authenticated caller]
  RunId,      \* [Ops -> the run a claim is for]
  MaxItem,    \* bound: ids are 1..MaxItem
  LeaseTTL,   \* CLAIM_TTL_SECONDS
  None        \* SQL NULL

\* Who last wrote the text of a row that another writer of the table left.
Outside == "outside"
Kinds == {"create", "patch", "delete", "claim", "heartbeat", "release"}

ASSUME RowsAssumption ==
  /\ Kind \in [Ops -> Kinds]
  /\ MaxItem \in Nat /\ LeaseTTL \in Nat
  /\ Target \in [Ops -> 1 .. MaxItem \cup {None}]
  /\ \A o \in Ops : Target[o] = None => Kind[o] = "create"
  /\ None \notin Ops /\ None \notin Nat
  /\ Outside \notin Ops /\ None # Outside

Items == 1 .. MaxItem

(* A row: its creator, who last wrote its text, the lease and when it runs *)
(* out.  Another writer of the table leaves rows that belong to nobody.    *)
Lease(o) == [principal |-> Principal[o], run |-> RunId[o]]
Leases == {Lease(o) : o \in Ops}
RowOf(owner, text, holder, until) ==
  [owner |-> owner, text |-> text, holder |-> holder, until |-> until]
Row == [owner : {Principal[o] : o \in Ops} \cup {None},
        text : Ops \cup {Outside, None},
        holder : Leases \cup {None}, until : Nat]
NoRow == RowOf(None, None, None, 0)
Rewritten(row) == RowOf(row.owner, Outside, row.holder, row.until)
Table == [Items -> Row]
EmptyTable == [i \in Items |-> NoRow]
Present(table, i) == table[i] # NoRow

(* The allocator: one more than the greatest id. *)
NewId(table) ==
  CHOOSE n \in 1 .. MaxItem + 1 :
    /\ \A i \in Items : Present(table, i) => i < n
    /\ n = 1 \/ Present(table, n - 1)
IdOf(o, table) == IF Target[o] = None THEN NewId(table) ELSE Target[o]

Expired(row, t) == row.until <= t
Holds(row, o) == row.holder = Lease(o)

(* WHERE clauses. *)
MayClaim_Anybody(row, o, t) == TRUE
MayClaim(row, o, t) == Expired(row, t) \/ Holds(row, o)
MayHeartbeat(row, o, t) == Holds(row, o) /\ ~Expired(row, t)

Allowed(o, i, table, t) ==
  /\ i \in Items
  /\ \/ Kind[o] = "create" /\ ~Present(table, i)
     \/ /\ Present(table, i)
        /\ \/ Kind[o] \in {"patch", "delete"} /\ table[i].owner = Principal[o]
           \/ Kind[o] = "claim" /\ MayClaim(table[i], o, t)
           \/ Kind[o] = "heartbeat" /\ MayHeartbeat(table[i], o, t)
           \/ Kind[o] = "release" /\ Holds(table[i], o)

(* The delete of a row that is not there leaves nothing to commit. *)
NothingToDo(o, table) == Kind[o] = "delete" /\ ~Present(table, Target[o])

NewRow(o, row, t) ==
  CASE Kind[o] = "create" -> RowOf(Principal[o], o, None, 0)
    [] Kind[o] = "patch"  -> RowOf(row.owner, o, row.holder, row.until)
    [] Kind[o] = "delete" -> NoRow
    [] Kind[o] \in {"claim", "heartbeat"} ->
         RowOf(row.owner, row.text, Lease(o), t + LeaseTTL)
    [] OTHER -> RowOf(row.owner, row.text, None, 0)

Effect(o, i, table, t) == [table EXCEPT ![i] = NewRow(o, @, t)]

=============================================================================
