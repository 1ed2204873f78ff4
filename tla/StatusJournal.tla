--------------------------- MODULE StatusJournal ---------------------------
(***************************************************************************)
(* What the status timeline of one lead promises, with no requests, no    *)
(* cache and no configuration: the journal only grows, its last row names *)
(* the status the lead has, and a row only ever leaves a status the lead  *)
(* really had.  A row may leave an earlier status than the last one: two  *)
(* handlers that read the lead before either wrote both append.           *)
(***************************************************************************)
EXTENDS Naturals, Sequences

CONSTANTS
  Statuses,    \* ids of the rows of lead_statuses
  NewStatus,   \* the status "New" every lead is created in
  NoStatus     \* the NULL from_status_id of the creation row

VARIABLES
  state,       \* "absent" before the create, then "live", then "deleted"
  status,      \* leads.current_status_id
  journal      \* lead_status_history of the lead, oldest row first

jvars == <<state, status, journal>>

\* The statuses the lead has been in.
Held(h) == {h[i].to : i \in DOMAIN h}

Init ==
  /\ state = "absent"
  /\ status = NewStatus
  /\ journal = << >>

\* A lead is born with one row into "New", and possibly a second one that
\* takes it straight on to an assigned status.
Create ==
  /\ state = "absent"
  /\ state' = "live"
  /\ \E more \in {<< >>} \cup
                 {<<[from |-> NewStatus, to |-> s]>> : s \in Statuses} :
        /\ journal' = <<[from |-> NoStatus, to |-> NewStatus]>> \o more
        /\ status' = journal'[Len(journal')].to

\* Every later status change appends exactly one row.
Append1 ==
  /\ state = "live"
  /\ \E f \in Held(journal), t \in Statuses :
        /\ journal' = Append(journal, [from |-> f, to |-> t])
        /\ status' = t
  /\ UNCHANGED state

\* Deleting a lead deletes its timeline; its id is never used again.
Erase ==
  /\ state = "live"
  /\ state' = "deleted"
  /\ journal' = << >>
  /\ UNCHANGED status

Next == Create \/ Append1 \/ Erase

Spec == Init /\ [][Next]_jvars
=============================================================================
