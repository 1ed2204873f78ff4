--------------------------- MODULE StatusWorkflow ---------------------------
(***************************************************************************)
(* The order of the lead statuses, as administrators change it in          *)
(* workflow/page.tsx: POST and PATCH of routes/lead-statuses.ts, each a    *)
(* transaction in READ COMMITTED that reads the order and then writes every*)
(* row of it, under the row locks of PostgreSQL; the page computes the     *)
(* place it asks for from the list it shows.                               *)
(***************************************************************************)
EXTENDS Naturals, Sequences, FiniteSets, SequencesExt

CONSTANTS
  Writers,    \* administrators with the page open
  AtFirst,    \* number of statuses at first
  MaxStatuses,\* bound on the statuses ever created
  MaxMoves    \* bound on the moves

VARIABLES
  order,   \* order_index of the committed statuses, by id; ids as created_at grows
  made,    \* ids given out
  shown,   \* the list each page shows
  tx,      \* the transaction of each writer
  clashed, \* two transactions met that may number the statuses wrongly
  moves

vars == <<order, made, shown, tx, clashed, moves>>

-----------------------------------------------------------------------------
(* Shapes *)

Ids == 1 .. MaxStatuses
Numbered == UNION {[S -> 0 .. MaxStatuses + 1] : S \in SUBSET Ids}
Idle == [pc |-> "idle"]
\* `mine` are the rows the transaction wrote, and so locked; `ids` the order it
\* writes, `at` the place in it.
Tx == [pc : {"create", "lock", "list", "write", "commit"}, id : Ids \cup {0},
       new : BOOLEAN, target : 0 .. MaxStatuses + 1, ids : Seq(Ids), at : Nat, mine : Numbered]

\* No row is written by two transactions at once.
TypeOK ==
  /\ order \in Numbered
  /\ made \in Ids /\ DOMAIN order \subseteq 1 .. made
  /\ \A w \in Writers : tx[w] \in Tx \cup {Idle}
  /\ \A v, w \in Writers : v # w /\ Idle \notin {tx[v], tx[w]}
       => DOMAIN tx[v].mine \cap DOMAIN tx[w].mine = {}

Init ==
  /\ order = [s \in 1 .. AtFirst |-> s]
  /\ made = AtFirst
  /\ shown = [w \in Writers |-> order]
  /\ tx = [w \in Writers |-> Idle]
  /\ clashed = FALSE /\ moves = 0

-----------------------------------------------------------------------------
(* The rows *)

\* What a statement of w reads: what is committed, and what it wrote itself.
Over(mine, index) ==
  [s \in DOMAIN mine \cup DOMAIN index |-> IF s \in DOMAIN mine THEN mine[s] ELSE index[s]]
Seen(w) == Over(tx[w].mine, order)
Row(s, place) == [r \in {s} |-> place]

\* ORDER BY order_index, created_at.
Before(index, s, t) == index[s] < index[t] \/ (index[s] = index[t] /\ s < t)
Sorted(index) == {ids \in Bijection(1 .. Cardinality(DOMAIN index), DOMAIN index) :
  \A i, j \in DOMAIN ids : i < j => Before(index, ids[i], ids[j])}

Holders(s) == {v \in Writers : tx[v] # Idle /\ s \in DOMAIN tx[v].mine}

\* The row that the next statement of w writes.
Wanted(w) == IF tx[w].pc = "lock" THEN tx[w].id ELSE tx[w].ids[tx[w].at]
WaitsFor(w) == IF tx[w].pc \in {"lock", "write"} THEN Holders(Wanted(w)) \ {w} ELSE {}

-----------------------------------------------------------------------------
(* The page *)

Refresh(w) ==
  /\ tx[w] = Idle /\ shown[w] # order
  /\ shown' = [shown EXCEPT ![w] = order]
  /\ UNCHANGED <<order, made, tx, clashed, moves>>

Creates(w) == tx[w] # Idle /\ tx[w].new

\* moveStatus: one place up or down, counted from the order_index that is shown.
Move(w) ==
  /\ tx[w] = Idle /\ moves < MaxMoves /\ moves' = moves + 1
  /\ \E s \in DOMAIN shown[w] : \E target \in {shown[w][s] - 1, shown[w][s] + 1} :
       /\ target \in 1 .. Cardinality(DOMAIN shown[w])
       /\ tx' = [tx EXCEPT ![w] = [pc |-> "lock", id |-> s, new |-> FALSE,
             target |-> target, ids |-> << >>, at |-> 1, mine |-> << >>]]
  /\ clashed' = (clashed \/ \E v \in Writers : Creates(v) /\ tx[v].target # 0)
  /\ UNCHANGED <<order, made, shown>>

\* submitStatusForm without a status: POST, which other clients may give a place.
Submit(w) ==
  /\ tx[w] = Idle /\ made + Cardinality({v \in Writers : tx[v].pc = "create"}) < MaxStatuses
  /\ \E target \in {0, 1} :
       /\ tx' = [tx EXCEPT ![w] = [pc |-> "create", id |-> 0, new |-> TRUE,
             target |-> target, ids |-> << >>, at |-> 1, mine |-> << >>]]
       /\ clashed' = (clashed \/ \E v \in Writers :
            Creates(v) \/ (tx[v] # Idle /\ target # 0))
  /\ UNCHANGED <<order, made, shown, moves>>

-----------------------------------------------------------------------------
(* The transactions *)

\* MUTANT of NextIndex: the number of the last one.
NextIndexOfLast(index) == Max({index[s] : s \in DOMAIN index} \cup {0})

\* The greatest order_index and one more.
NextIndex(index) == Max({index[s] : s \in DOMAIN index} \cup {0}) + 1

Create(w) ==
  /\ tx[w].pc = "create"
  /\ made' = made + 1
  /\ tx' = [tx EXCEPT ![w].id = made', ![w].mine = Row(made', NextIndex(order)),
                      ![w].pc = IF tx[w].target = 0 THEN "commit" ELSE "list"]
  /\ UNCHANGED <<order, shown, clashed, moves>>

\* patchLeadStatus updates the row of the status first.
Lock(w) ==
  /\ tx[w].pc = "lock" /\ WaitsFor(w) = {}
  /\ tx' = [tx EXCEPT ![w].pc = "list", ![w].mine = Row(tx[w].id, order[tx[w].id])]
  /\ UNCHANGED <<order, made, shown, clashed, moves>>

\* repositionStatus: the list without the status, which goes in at its place.
Repositioned(ids, s, target) ==
  LET from == CHOOSE i \in DOMAIN ids : ids[i] = s
  IN InsertAt(RemoveAt(ids, from), Min({target, Len(ids)}), s)

List(w) ==
  /\ tx[w].pc = "list"
  /\ \E ids \in Sorted(Seen(w)) : tx' = [tx EXCEPT ![w].pc = "write",
       ![w].ids = Repositioned(ids, tx[w].id, tx[w].target)]
  /\ UNCHANGED <<order, made, shown, clashed, moves>>

\* reorderStatusList: one update per row, in the order of the list on the one
\* connection of the transaction; each waits for the lock of its row.
Write(w) ==
  /\ tx[w].pc = "write" /\ WaitsFor(w) = {}
  /\ tx' = [tx EXCEPT ![w].mine = Over(Row(Wanted(w), tx[w].at), tx[w].mine), ![w].at = @ + 1,
       ![w].pc = IF tx[w].at = Len(tx[w].ids) THEN "commit" ELSE "write"]
  /\ UNCHANGED <<order, made, shown, clashed, moves>>

Commit(w) ==
  /\ tx[w].pc = "commit"
  /\ order' = Seen(w)
  /\ tx' = [tx EXCEPT ![w] = Idle]
  /\ UNCHANGED <<made, shown, clashed, moves>>

\* PostgreSQL ends one of two transactions that wait for each other.
Deadlock(w) ==
  /\ \E v \in WaitsFor(w) : w \in WaitsFor(v)
  /\ tx' = [tx EXCEPT ![w] = Idle]
  /\ UNCHANGED <<order, made, shown, clashed, moves>>

Next == \E w \in Writers :
  \/ Refresh(w) \/ Move(w) \/ Submit(w) \/ Create(w) \/ Lock(w) \/ List(w)
  \/ Write(w) \/ Commit(w) \/ Deadlock(w)

Spec == Init /\ [][Next]_vars

-----------------------------------------------------------------------------

\* The statuses are numbered from 1 without a gap, however the moves of several
\* administrators interleave or wait for each other, unless a status was created
\* beside another one, or with a place of its own beside anything else.
NumberedUnlessClashed ==
  clashed \/ {order[s] : s \in DOMAIN order} = 1 .. Cardinality(DOMAIN order)
=============================================================================
