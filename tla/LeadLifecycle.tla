--------------------------- MODULE LeadLifecycle ---------------------------
(***************************************************************************)
(* The status of one lead, written by every handler that moves it:        *)
(*   - the manual transition of routes/leads.ts,                          *)
(*   - the manual assign / reassign override (New -> Assigned),           *)
(*   - the automatic moves after a document upload, after a QR UTR        *)
(*     submission, after a payment review and after a gateway webhook,    *)
(*   - creation (internal and from the public form) and deletion.         *)
(* Each handler is a request that reads the lead, later asks whether the  *)
(* workflow allows the move (through a process-wide cache, except the     *)
(* webhook), and later still writes the lead WITHOUT checking that it is  *)
(* as it was read.  Administrators edit the workflow in between, and the  *)
(* server may restart.  Leads do not share status rows, so one lead is    *)
(* enough; the workflow and the cache are shared by all its requests.     *)
(***************************************************************************)
EXTENDS Naturals, Sequences, FiniteSets

CONSTANTS
  Requests,        \* the requests that can be in flight at once
  Statuses,        \* ids of the rows of lead_statuses
  NewStatus,       \* the status named "New"
  AssignedStatus,  \* the status named "Assigned"
  NoStatus,        \* the NULL from_status_id of a creation row
  AutoTarget,      \* the status each automatic kind of move leads to
  Kinds,           \* the kinds of request that arrive
  InitialEdges,    \* lead_status_transitions at the start
  InitialTerminal, \* the statuses with is_terminal at the start
  EditableEdges,   \* the transitions an administrator may add or delete
  EditableTerminal,\* the statuses an administrator may PATCH is_terminal of
  MaxHistory       \* bound on the rows of the timeline

AutoKinds == {"documents", "utr", "review", "webhook"}
CreateKinds == {"create", "mirror"}
AllKinds == AutoKinds \cup CreateKinds \cup {"transition", "assign"}
Edges == Statuses \X Statuses

ASSUME StatusesAssumption ==
  /\ {NewStatus, AssignedStatus} \subseteq Statuses
  /\ NewStatus # AssignedStatus
  /\ NoStatus \notin Statuses
  /\ AutoTarget \in [AutoKinds -> Statuses]

ASSUME BoundsAssumption ==
  /\ Kinds \subseteq AllKinds
  /\ InitialEdges \subseteq Edges
  /\ InitialTerminal \subseteq Statuses
  /\ EditableEdges \subseteq Edges
  /\ EditableTerminal \subseteq Statuses
  /\ MaxHistory \in Nat \ {0, 1}

VARIABLES
  lead,         \* leads row: does it exist, and current_status_id
  history,      \* lead_status_history rows of the lead, oldest first
  edges,        \* lead_status_transitions
  terminal,     \* statuses with is_terminal
  cache,        \* transitionCache of lead-status.service.ts
  req,          \* the requests in flight
  admin,        \* a POST /transitions request between its read and its write
  everEdges,    \* every transition that was ever configured
  everTerminal  \* every status that was ever terminal

vars == <<lead, history, edges, terminal, cache, req, admin,
          everEdges, everTerminal>>

-----------------------------------------------------------------------------
(* Shapes *)

Row == [from : Statuses \cup {NoStatus}, to : Statuses, override : BOOLEAN]

IdleReq == [pc |-> "idle", kind |-> "none", from |-> NewStatus,
            to |-> NewStatus, override |-> FALSE, allowed |-> FALSE]
Request == [pc : {"idle", "check", "store", "write"},
            kind : AllKinds \cup {"none"}, from : Statuses, to : Statuses,
            override : BOOLEAN, allowed : BOOLEAN]

IdleAdmin == [pc |-> "idle", adds |-> {}, dels |-> {}]
AdminRequest == [pc : {"idle", "commit"}, adds : SUBSET Edges, dels : SUBSET Edges]

TypeOK ==
  /\ lead \in [state : {"absent", "live", "deleted"}, status : Statuses]
  /\ history \in Seq(Row)
  /\ edges \subseteq Edges
  /\ terminal \subseteq Statuses
  /\ cache \in [Edges -> {"none", "yes", "no"}]
  /\ req \in [Requests -> Request]
  /\ admin \in AdminRequest
  /\ everEdges \subseteq Edges
  /\ everTerminal \subseteq Statuses

Init ==
  /\ lead = [state |-> "absent", status |-> NewStatus]
  /\ history = << >>
  /\ edges = InitialEdges
  /\ terminal = InitialTerminal
  /\ cache = [e \in Edges |-> "none"]
  /\ req = [r \in Requests |-> IdleReq]
  /\ admin = IdleAdmin
  /\ everEdges = InitialEdges
  /\ everTerminal = InitialTerminal

-----------------------------------------------------------------------------
(* A request reads the lead *)

Move(r) == <<req[r].from, req[r].to>>

\* The handler has read the lead in status `from` and wants it in `to`.
Begin(r, kind, from, to, override) ==
  /\ req[r].pc = "idle"
  /\ kind \in Kinds
  /\ req' = [req EXCEPT ![r] = [pc |-> "check", kind |-> kind, from |-> from,
                                to |-> to, override |-> override,
                                allowed |-> FALSE]]
  /\ UNCHANGED <<lead, history, edges, terminal, cache, admin,
                 everEdges, everTerminal>>

\* POST /:id/transition reads the lead together with is_terminal of its
\* status.  Out of a terminal status only a Super Admin with a reason gets
\* past the guards, and the move is then an override.
StartTransition(r) ==
  /\ lead.state = "live"
  /\ \E to \in Statuses \ {lead.status} :
        Begin(r, "transition", lead.status, to, lead.status \in terminal)

\* The automatic moves read the lead, give up when it is already there, and
\* never look at is_terminal.
StartAuto(r) ==
  /\ lead.state = "live"
  /\ \E k \in AutoKinds :
        /\ lead.status # AutoTarget[k]
        /\ Begin(r, k, lead.status, AutoTarget[k], FALSE)

\* Assign and reassign move the lead only when they read it in "New".
StartAssign(r) ==
  /\ lead.state = "live"
  /\ lead.status = NewStatus
  /\ Begin(r, "assign", NewStatus, AssignedStatus, FALSE)

\* A creation that found an executive asks for New -> Assigned.
StartCreate(r) ==
  /\ lead.state = "absent"
  /\ \A q \in Requests : req[q].kind \notin CreateKinds
  /\ \E k \in CreateKinds : Begin(r, k, NewStatus, AssignedStatus, FALSE)

-----------------------------------------------------------------------------
(* assertValidTransition, one step per await *)

Answer(r, pc, allowed) ==
  req' = [req EXCEPT ![r] = [@ EXCEPT !.pc = pc, !.allowed = allowed]]

CheckHit(r) ==
  /\ req[r].pc = "check"
  /\ req[r].kind # "webhook"
  /\ cache[Move(r)] # "none"
  /\ Answer(r, "write", cache[Move(r)] = "yes")
  /\ UNCHANGED <<lead, history, edges, terminal, cache, admin,
                 everEdges, everTerminal>>

CheckMiss(r) ==
  /\ req[r].pc = "check"
  /\ req[r].kind # "webhook"
  /\ cache[Move(r)] = "none"
  /\ Answer(r, "store", Move(r) \in edges)
  /\ UNCHANGED <<lead, history, edges, terminal, cache, admin,
                 everEdges, everTerminal>>

CheckStore(r) ==
  /\ req[r].pc = "store"
  /\ cache' = [cache EXCEPT ![Move(r)] = IF req[r].allowed THEN "yes" ELSE "no"]
  /\ Answer(r, "write", req[r].allowed)
  /\ UNCHANGED <<lead, history, edges, terminal, admin, everEdges, everTerminal>>

\* The webhook asks the database inside its transaction, past the cache.
CheckWebhook(r) ==
  /\ req[r].pc = "check"
  /\ req[r].kind = "webhook"
  /\ Answer(r, "write", Move(r) \in edges)
  /\ UNCHANGED <<lead, history, edges, terminal, cache, admin,
                 everEdges, everTerminal>>

-----------------------------------------------------------------------------
(* A request ends *)

Finish(r) == req' = [req EXCEPT ![r] = IdleReq]

\* The new row: from what the handler read, not from what the lead is.
NewRow(r) == [from |-> req[r].from, to |-> req[r].to, override |-> req[r].override]
CreationRow == [from |-> NoStatus, to |-> NewStatus, override |-> FALSE]

\* MUTANT of CommitMove: the nested statusHistory.create is missing.
CommitMoveUnlogged(r) ==
  /\ req[r].pc = "write"
  /\ req[r].kind \notin CreateKinds
  /\ req[r].allowed \/ req[r].override
  /\ lead.state = "live"
  /\ lead' = [lead EXCEPT !.status = req[r].to]
  /\ Finish(r)
  /\ UNCHANGED <<history, edges, terminal, cache, admin, everEdges, everTerminal>>

\* MUTANT of CommitMove: the answer of assertValidTransition is not looked at.
CommitMoveUnchecked(r) ==
  /\ req[r].pc = "write"
  /\ req[r].kind \notin CreateKinds
  /\ lead.state = "live"
  /\ Len(history) < MaxHistory
  /\ lead' = [lead EXCEPT !.status = req[r].to]
  /\ history' = Append(history, NewRow(r))
  /\ Finish(r)
  /\ UNCHANGED <<edges, terminal, cache, admin, everEdges, everTerminal>>

\* lead.update with its nested statusHistory.create, in one statement or one
\* transaction; unconditional: the lead may have moved since it was read.
CommitMove(r) ==
  /\ req[r].pc = "write"
  /\ req[r].kind \notin CreateKinds
  /\ req[r].allowed \/ req[r].override
  /\ lead.state = "live"
  /\ Len(history) < MaxHistory
  /\ lead' = [lead EXCEPT !.status = req[r].to]
  /\ history' = Append(history, NewRow(r))
  /\ Finish(r)
  /\ UNCHANGED <<edges, terminal, cache, admin, everEdges, everTerminal>>

\* MUTANT of CommitCreate: only the row of the assignment is written.
CommitCreateUnrooted(r) ==
  /\ req[r].pc = "write"
  /\ req[r].kind \in CreateKinds
  /\ req[r].allowed
  /\ lead' = [state |-> "live", status |-> AssignedStatus]
  /\ history' = <<NewRow(r)>>
  /\ Finish(r)
  /\ UNCHANGED <<edges, terminal, cache, admin, everEdges, everTerminal>>

\* One transaction inserts the lead in "New" and moves it on to "Assigned".
CommitCreate(r) ==
  /\ req[r].pc = "write"
  /\ req[r].kind \in CreateKinds
  /\ req[r].allowed
  /\ lead' = [state |-> "live", status |-> AssignedStatus]
  /\ history' = <<CreationRow, NewRow(r)>>
  /\ Finish(r)
  /\ UNCHANGED <<edges, terminal, cache, admin, everEdges, everTerminal>>

\* A creation with no executive, and the public form when New -> Assigned is
\* not configured, leave the lead in "New".
CommitCreateInNew(r) ==
  /\ \/ /\ req[r].pc = "check"
        /\ req[r].kind \in CreateKinds
     \/ /\ req[r].pc = "write"
        /\ req[r].kind = "mirror"
        /\ ~ req[r].allowed
  /\ lead' = [state |-> "live", status |-> NewStatus]
  /\ history' = <<CreationRow>>
  /\ Finish(r)
  /\ UNCHANGED <<edges, terminal, cache, admin, everEdges, everTerminal>>

\* INVALID_STATUS_TRANSITION and the silent returns of the automatic moves;
\* a failed guard of the handler that is not about the status (a note or a
\* document is missing, the payment was reviewed already); an update of a
\* lead deleted meanwhile.  Nothing was written.
Abandon(r) ==
  /\ req[r].pc # "idle"
  /\ Finish(r)
  /\ UNCHANGED <<lead, history, edges, terminal, cache, admin,
                 everEdges, everTerminal>>

\* MUTANT of DeleteLead: the timeline is left behind.
DeleteLeadOnly ==
  /\ lead.state = "live"
  /\ lead' = [lead EXCEPT !.state = "deleted"]
  /\ UNCHANGED <<history, edges, terminal, cache, req, admin, everEdges, everTerminal>>

\* DELETE /:id removes the timeline and the lead in one transaction.
DeleteLead ==
  /\ lead.state = "live"
  /\ lead' = [lead EXCEPT !.state = "deleted"]
  /\ history' = << >>
  /\ UNCHANGED <<edges, terminal, cache, req, admin, everEdges, everTerminal>>

-----------------------------------------------------------------------------
(* The workflow configuration, the cache's clock and restarts *)

\* PATCH is_terminal touches neither the transitions nor the cache.
PatchTerminal ==
  /\ \E s \in EditableTerminal :
        terminal' = IF s \in terminal THEN terminal \ {s} ELSE terminal \cup {s}
  /\ everTerminal' = everTerminal \cup terminal'
  /\ UNCHANGED <<lead, history, edges, cache, req, admin, everEdges>>

\* POST /transitions reads is_terminal of the statuses it was given, and is
\* refused when it would add a transition out of a terminal one ...
AdminRead ==
  /\ admin.pc = "idle"
  /\ \E adds, dels \in SUBSET EditableEdges :
        /\ adds \cap dels = {} /\ adds \cup dels # {}
        /\ \A e \in adds : e[1] \notin terminal
        /\ admin' = [pc |-> "commit", adds |-> adds, dels |-> dels]
  /\ UNCHANGED <<lead, history, edges, terminal, cache, req, everEdges, everTerminal>>

\* ... and applies all of it later, in one transaction.
AdminCommit ==
  /\ admin.pc = "commit"
  /\ edges' = (edges \ admin.dels) \cup admin.adds
  /\ everEdges' = everEdges \cup admin.adds
  /\ admin' = IdleAdmin
  /\ UNCHANGED <<lead, history, terminal, cache, req, everTerminal>>

\* An entry is TRANSITION_CACHE_TTL_MS old; the next read drops it.
CacheExpire ==
  /\ \E e \in Edges : cache[e] # "none" /\ cache' = [cache EXCEPT ![e] = "none"]
  /\ UNCHANGED <<lead, history, edges, terminal, req, admin, everEdges, everTerminal>>

\* The server process stops and starts: what was in flight and the cache,
\* both in its memory, are gone; the database stays.
Restart ==
  /\ req' = [r \in Requests |-> IdleReq]
  /\ cache' = [e \in Edges |-> "none"]
  /\ admin' = IdleAdmin
  /\ UNCHANGED <<lead, history, edges, terminal, everEdges, everTerminal>>

Next ==
  \/ \E r \in Requests :
        \/ StartTransition(r) \/ StartAuto(r) \/ StartAssign(r) \/ StartCreate(r)
        \/ CheckHit(r) \/ CheckMiss(r) \/ CheckStore(r) \/ CheckWebhook(r)
        \/ CommitMove(r) \/ CommitCreate(r) \/ CommitCreateInNew(r) \/ Abandon(r)
  \/ DeleteLead
  \/ PatchTerminal \/ AdminRead \/ AdminCommit
  \/ CacheExpire \/ Restart

Spec == Init /\ [][Next]_vars

-----------------------------------------------------------------------------
(* What the handlers promise together *)

Held == {history[i].to : i \in DOMAIN history}

\* The timeline and the lead agree whatever the interleaving: the last row of
\* a live lead's lead_status_history names its current_status_id, and a lead
\* that does not exist has no rows.
HistoryTracksStatus ==
  IF lead.state = "live"
    THEN history # << >> /\ history[Len(history)].to = lead.status
    ELSE history = << >>

\* No handler invents where the lead came from: each row's from_status_id is
\* NULL on the first row only, and otherwise a status an earlier row entered,
\* although the row is written from a snapshot that may be stale.
RowsLeaveHeldStatuses ==
  \A i \in DOMAIN history :
     IF i = 1 THEN history[i] = CreationRow
              ELSE \E j \in 1 .. i - 1 : history[j].to = history[i].from

\* Every move of a lead was either configured at some time (a cached answer
\* may be out of date but is never invented) or is a Super Admin override of
\* a status that was terminal at some time.
MovesWereJustified ==
  \A i \in DOMAIN history :
     \/ history[i] = CreationRow
     \/ history[i].override /\ history[i].from \in everTerminal
     \/ <<history[i].from, history[i].to>> \in everEdges

\* The cache answers "yes" only for a transition that was configured at some
\* time, whatever the order of its lookups, stores, expiries and edits.
CacheNeverInvents ==
  /\ edges \subseteq everEdges
  /\ \A e \in Edges : cache[e] = "yes" => e \in everEdges
  /\ \A r \in Requests : req[r].allowed => Move(r) \in everEdges

\* What is known of a request between its read and its write.  A creation is
\* alone and the lead is absent; any other request holds a status the lead
\* was in, unless the lead is deleted; an override left a terminal status.
InFlightIsHonest ==
  /\ terminal \subseteq everTerminal
  /\ \A r \in Requests :
        /\ req[r].pc = "idle" <=> req[r].kind = "none"
        /\ req[r].override => req[r].from \in everTerminal
        /\ req[r].kind \in CreateKinds =>
              /\ lead.state = "absent" /\ ~ req[r].override
              /\ req[r].from = NewStatus /\ req[r].to = AssignedStatus
              /\ \A q \in Requests : req[q].kind \in CreateKinds => q = r
        /\ req[r].kind \in AllKinds \ CreateKinds =>
              \/ lead.state = "live" /\ req[r].from \in Held
              \/ lead.state = "deleted"

\* The inductive invariant of LeadLifecycle_proofs.
IInv ==
  /\ HistoryTracksStatus
  /\ RowsLeaveHeldStatuses
  /\ MovesWereJustified
  /\ CacheNeverInvents
  /\ InFlightIsHonest

\* A deleted lead stays deleted: a request that read it before the delete
\* never brings the row back or appends to the timeline.
DeletedIsFinal ==
  [][lead.state = "deleted" => UNCHANGED <<lead, history>>]_vars

-----------------------------------------------------------------------------
(* Refinement: the status timeline of StatusJournal *)

\* What the journal shows of the timeline: the move of each row, and not
\* whether it was an override.
JournalView ==
  [i \in DOMAIN history |-> [from |-> history[i].from, to |-> history[i].to]]

Journal == INSTANCE StatusJournal WITH
  state <- lead.state,
  status <- lead.status,
  journal <- JournalView

\* The handlers implement the timeline: every step of theirs is a creation,
\* one appended row, an erasure, or nothing to the timeline at all.
ImplementsJournal == Journal!Spec
=============================================================================
