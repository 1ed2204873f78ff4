----------------------- MODULE LeadLifecycle_proofs ------------------------
(***************************************************************************)
(* Proofs about LeadLifecycle for every set of statuses, requests and     *)
(* workflow edits: type correctness, the agreement of a lead with its     *)
(* status timeline, and where the rows of the timeline come from.  At the *)
(* end, what is proved about the SLA flags of the leads (SlaMonitor), and *)
(* about what administrators configure for them: the districts and their  *)
(* staff (DistrictDirectory) and the order of the statuses                *)
(* (StatusWorkflow), in the instances that MCDirectory composes.          *)
(***************************************************************************)
EXTENDS LeadLifecycle, MCDirectory, FiniteSetTheorems, SequenceTheorems,
        WellFoundedInduction, TLAPS

LEMMA IdleTyped == IdleReq \in Request
BY StatusesAssumption DEF IdleReq, Request, AllKinds

\* What Begin stores is a request in flight.
LEMMA BegunTyped ==
  ASSUME NEW kind \in Kinds, NEW from \in Statuses, NEW to \in Statuses,
         NEW override \in BOOLEAN
  PROVE  [pc |-> "check", kind |-> kind, from |-> from, to |-> to,
          override |-> override, allowed |-> FALSE] \in Request
BY BoundsAssumption DEF Request, AllKinds

LEMMA AnswerTyped ==
  ASSUME NEW q \in Request, NEW pc \in {"store", "write"}, NEW allowed \in BOOLEAN
  PROVE  [q EXCEPT !.pc = pc, !.allowed = allowed] \in Request
BY DEF Request

LEMMA RowsTyped ==
  ASSUME TypeOK, NEW r \in Requests
  PROVE  NewRow(r) \in Row /\ CreationRow \in Row /\ Move(r) \in Edges
BY StatusesAssumption DEF TypeOK, NewRow, CreationRow, Row, Request, Move, Edges

\* A one- or two-row tuple is a timeline.
LEMMA ShortTimelines ==
  ASSUME NEW S, NEW a \in S, NEW b \in S
  PROVE  /\ <<a>> \in Seq(S) /\ Len(<<a>>) = 1 /\ <<a>>[1] = a
         /\ <<a, b>> \in Seq(S) /\ Len(<<a, b>>) = 2
         /\ <<a, b>>[1] = a /\ <<a, b>>[2] = b
OBVIOUS

LEMMA TypeStep == TypeOK /\ [Next]_vars => TypeOK'
<1> SUFFICES ASSUME TypeOK, [Next]_vars PROVE TypeOK'
  OBVIOUS
<1> USE DEF TypeOK
<1>1. ASSUME NEW r \in Requests, StartTransition(r) PROVE TypeOK'
  <2>1. PICK to \in Statuses \ {lead.status} :
           Begin(r, "transition", lead.status, to, lead.status \in terminal)
    BY <1>1 DEF StartTransition
  <2>2. [pc |-> "check", kind |-> "transition", from |-> lead.status, to |-> to,
         override |-> (lead.status \in terminal), allowed |-> FALSE] \in Request
    BY SMT DEF Request, AllKinds
  <2>3. QED BY <2>1, <2>2 DEF Begin
<1>2. ASSUME NEW r \in Requests, StartAuto(r) PROVE TypeOK'
  <2>1. PICK k \in AutoKinds : Begin(r, k, lead.status, AutoTarget[k], FALSE)
    BY <1>2 DEF StartAuto
  <2>2. AutoTarget[k] \in Statuses
    BY StatusesAssumption
  <2>3. [pc |-> "check", kind |-> k, from |-> lead.status, to |-> AutoTarget[k],
         override |-> FALSE, allowed |-> FALSE] \in Request
    BY <2>1, <2>2, BegunTyped DEF Begin
  <2>4. QED BY <2>1, <2>3 DEF Begin
<1>3. ASSUME NEW r \in Requests, StartAssign(r) \/ StartCreate(r) PROVE TypeOK'
  <2>1. PICK k \in AllKinds : Begin(r, k, NewStatus, AssignedStatus, FALSE)
    BY <1>3 DEF StartAssign, StartCreate, AllKinds
  <2>2. [pc |-> "check", kind |-> k, from |-> NewStatus, to |-> AssignedStatus,
         override |-> FALSE, allowed |-> FALSE] \in Request
    BY <2>1, BegunTyped, StatusesAssumption DEF Begin
  <2>3. QED BY <2>1, <2>2 DEF Begin
<1>4. ASSUME NEW r \in Requests,
             CheckHit(r) \/ CheckMiss(r) \/ CheckWebhook(r)
      PROVE  TypeOK'
  <2>1. ASSUME NEW pc \in {"store", "write"}, NEW allowed \in BOOLEAN,
               Answer(r, pc, allowed)
        PROVE  req' \in [Requests -> Request]
    BY <2>1, AnswerTyped DEF Answer
  <2>2. CASE CheckHit(r)
    <3>1. (cache[Move(r)] = "yes") \in BOOLEAN
      BY SMT
    <3>2. QED BY <2>1, <2>2, <3>1 DEF CheckHit
  <2>3. CASE CheckMiss(r)
    <3>1. (Move(r) \in edges) \in BOOLEAN
      BY SMT
    <3>2. QED BY <2>1, <2>3, <3>1 DEF CheckMiss
  <2>4. CASE CheckWebhook(r)
    <3>1. (Move(r) \in edges) \in BOOLEAN
      BY SMT
    <3>2. QED BY <2>1, <2>4, <3>1 DEF CheckWebhook
  <2>5. QED BY <1>4, <2>2, <2>3, <2>4
<1>5. ASSUME NEW r \in Requests, CheckStore(r) PROVE TypeOK'
  <2>1. req' \in [Requests -> Request]
    <3>1. req[r].allowed \in BOOLEAN
      BY DEF Request
    <3>2. QED BY <1>5, <3>1, AnswerTyped DEF CheckStore, Answer
  <2>2. cache' \in [Edges -> {"none", "yes", "no"}]
    BY <1>5 DEF CheckStore
  <2>3. QED BY <1>5, <2>1, <2>2 DEF CheckStore
<1>6. ASSUME NEW r \in Requests, Finish(r) PROVE req' \in [Requests -> Request]
  BY <1>6, IdleTyped DEF Finish
<1>7. ASSUME NEW r \in Requests, CommitMove(r) PROVE TypeOK'
  <2>1. history' \in Seq(Row)
    BY <1>7, RowsTyped DEF CommitMove
  <2>2. lead' \in [state : {"absent", "live", "deleted"}, status : Statuses]
    BY <1>7 DEF CommitMove, Request
  <2>3. QED BY <1>7, <1>6, <2>1, <2>2 DEF CommitMove
<1>8. ASSUME NEW r \in Requests, CommitCreate(r) PROVE TypeOK'
  <2>1. history' \in Seq(Row)
    BY <1>8, RowsTyped, ShortTimelines DEF CommitCreate
  <2>2. QED BY <1>8, <1>6, <2>1, StatusesAssumption DEF CommitCreate
<1>9. ASSUME NEW r \in Requests, CommitCreateInNew(r) PROVE TypeOK'
  <2>1. history' \in Seq(Row)
    BY <1>9, RowsTyped, ShortTimelines DEF CommitCreateInNew
  <2>2. QED BY <1>9, <1>6, <2>1, StatusesAssumption DEF CommitCreateInNew
<1>10. ASSUME NEW r \in Requests, Abandon(r) PROVE TypeOK'
  BY <1>10, <1>6 DEF Abandon
<1>11. ASSUME DeleteLead PROVE TypeOK'
  BY <1>11 DEF DeleteLead
<1>12. ASSUME PatchTerminal PROVE TypeOK'
  BY <1>12, BoundsAssumption DEF PatchTerminal
<1>13. ASSUME AdminRead PROVE TypeOK'
  BY <1>13, BoundsAssumption DEF AdminRead, AdminRequest
<1>14. ASSUME AdminCommit PROVE TypeOK'
  BY <1>14 DEF AdminCommit, AdminRequest, IdleAdmin
<1>15. ASSUME CacheExpire PROVE TypeOK'
  BY <1>15 DEF CacheExpire
<1>16. ASSUME Restart PROVE TypeOK'
  BY <1>16, IdleTyped DEF Restart, AdminRequest, IdleAdmin
<1>17. CASE UNCHANGED vars
  BY <1>17 DEF vars
<1>18. QED
  BY <1>1, <1>2, <1>3, <1>4, <1>5, <1>7, <1>8, <1>9, <1>10, <1>11, <1>12,
     <1>13, <1>14, <1>15, <1>16, <1>17 DEF Next

\* Every reachable state is well typed, for every value of the constants.
THEOREM TypeCorrect == Spec => []TypeOK
<1>1. Init => TypeOK
  BY StatusesAssumption, BoundsAssumption, IdleTyped
     DEF Init, TypeOK, IdleAdmin, AdminRequest, Edges
<1>2. QED BY <1>1, TypeStep, PTL DEF Spec

-----------------------------------------------------------------------------
(* The timeline *)

\* The invariants of the timeline survive a step that leaves it alone and
\* forgets nothing of the workflow.
LEMMA TimelineKept ==
  ASSUME IInv, UNCHANGED <<lead, history>>,
         everEdges \subseteq everEdges', everTerminal \subseteq everTerminal'
  PROVE  HistoryTracksStatus' /\ RowsLeaveHeldStatuses' /\ MovesWereJustified'
BY DEF IInv, HistoryTracksStatus, RowsLeaveHeldStatuses, MovesWereJustified

\* Appending a row that leaves a held status keeps the timeline honest.
LEMMA TimelineAppended ==
  ASSUME TypeOK, IInv, lead.state = "live",
         NEW row \in Row, row.from \in Held,
         (row.override /\ row.from \in everTerminal)
           \/ <<row.from, row.to>> \in everEdges,
         lead' = [lead EXCEPT !.status = row.to],
         history' = Append(history, row),
         UNCHANGED <<everEdges, everTerminal>>
  PROVE  /\ HistoryTracksStatus' /\ RowsLeaveHeldStatuses' /\ MovesWereJustified'
         /\ lead'.state = "live" /\ Held \subseteq Held'
<1> DEFINE n == Len(history)
<1>1. /\ history \in Seq(Row) /\ n \in Nat /\ n > 0 /\ DOMAIN history = 1 .. n
      /\ lead \in [state : {"absent", "live", "deleted"}, status : Statuses]
  BY DEF TypeOK, IInv, HistoryTracksStatus
<1>2. /\ DOMAIN history' = 1 .. n + 1 /\ Len(history') = n + 1
      /\ history'[n + 1] = row
      /\ \A i \in 1 .. n : history'[i] = history[i]
  BY <1>1
<1>3. lead'.state = "live" /\ lead'.status = row.to
  BY <1>1
<1>4. HistoryTracksStatus'
  BY <1>1, <1>2, <1>3 DEF HistoryTracksStatus
<1>5. RowsLeaveHeldStatuses'
  <2>1. ASSUME NEW i \in 1 .. n, i # 1
        PROVE  \E j \in 1 .. i - 1 : history'[j].to = history'[i].from
    <3>1. PICK j \in 1 .. i - 1 : history[j].to = history[i].from
      BY <1>1, <2>1 DEF IInv, RowsLeaveHeldStatuses
    <3>2. QED BY <1>1, <1>2, <2>1, <3>1
  <2>2. \E j \in 1 .. (n + 1) - 1 : history'[j].to = history'[n + 1].from
    <3>1. PICK j \in 1 .. n : history[j].to = row.from
      BY <1>1 DEF Held
    <3>2. QED BY <1>1, <1>2, <3>1
  <2>3. history'[1] = CreationRow
    BY <1>1, <1>2 DEF IInv, RowsLeaveHeldStatuses
  <2>4. ASSUME NEW i \in 1 .. n + 1
        PROVE  IF i = 1 THEN history'[i] = CreationRow
                        ELSE \E j \in 1 .. i - 1 : history'[j].to = history'[i].from
    <3>1. CASE i = n + 1
      BY <1>1, <2>2, <3>1
    <3>2. CASE i # n + 1
      BY <1>1, <2>1, <2>3, <3>2
    <3>3. QED BY <3>1, <3>2
  <2>5. QED BY <1>2, <2>4 DEF RowsLeaveHeldStatuses
<1>6. MovesWereJustified'
  <2>1. ASSUME NEW i \in 1 .. n + 1
        PROVE  \/ history'[i] = CreationRow
               \/ history'[i].override /\ history'[i].from \in everTerminal
               \/ <<history'[i].from, history'[i].to>> \in everEdges
    <3>1. CASE i = n + 1
      BY <1>2, <3>1
    <3>2. CASE i # n + 1
      <4>1. i \in 1 .. n
        BY <1>1, <3>2
      <4>2. QED BY <1>1, <1>2, <4>1 DEF IInv, MovesWereJustified
    <3>3. QED BY <3>1, <3>2
  <2>2. QED BY <1>2, <2>1 DEF MovesWereJustified
<1>7. Held \subseteq Held'
  BY <1>1, <1>2 DEF Held
<1>8. QED BY <1>3, <1>4, <1>5, <1>6, <1>7

\* A creation starts an honest timeline.
LEMMA TimelineCreated ==
  ASSUME TypeOK, NEW row \in Row, row.from = NewStatus,
         <<row.from, row.to>> \in everEdges,
         \/ /\ history' = <<CreationRow, row>>
            /\ lead' = [state |-> "live", status |-> row.to]
         \/ /\ history' = <<CreationRow>>
            /\ lead' = [state |-> "live", status |-> NewStatus],
         UNCHANGED <<everEdges, everTerminal>>
  PROVE  HistoryTracksStatus' /\ RowsLeaveHeldStatuses' /\ MovesWereJustified'
<1>1. CreationRow \in Row /\ CreationRow.to = NewStatus
  BY StatusesAssumption DEF CreationRow, Row
<1>2. CASE /\ history' = <<CreationRow, row>>
           /\ lead' = [state |-> "live", status |-> row.to]
  <2>1. /\ Len(history') = 2 /\ DOMAIN history' = 1 .. 2
        /\ history'[1] = CreationRow /\ history'[2] = row
    BY <1>2
  <2>2. HistoryTracksStatus'
    BY <1>2, <2>1 DEF HistoryTracksStatus
  <2>3. RowsLeaveHeldStatuses'
    BY <1>1, <2>1 DEF RowsLeaveHeldStatuses, CreationRow
  <2>4. QED BY <2>1, <2>2, <2>3 DEF MovesWereJustified, CreationRow
<1>3. CASE /\ history' = <<CreationRow>>
           /\ lead' = [state |-> "live", status |-> NewStatus]
  <2>1. /\ Len(history') = 1 /\ DOMAIN history' = 1 .. 1
        /\ history'[1] = CreationRow
    BY <1>3
  <2>2. HistoryTracksStatus'
    BY <1>1, <1>3, <2>1 DEF HistoryTracksStatus
  <2>3. RowsLeaveHeldStatuses'
    BY <2>1 DEF RowsLeaveHeldStatuses
  <2>4. MovesWereJustified'
    BY <2>1 DEF MovesWereJustified
  <2>5. QED BY <2>2, <2>3, <2>4
<1>4. QED BY <1>2, <1>3

-----------------------------------------------------------------------------
(* The requests in flight *)

\* Reading the lead keeps the invariant when what was read is true of it.
LEMMA BeginKeeps ==
  ASSUME TypeOK, IInv, NEW r \in Requests, NEW kind \in AllKinds,
         NEW from \in Statuses, NEW to \in Statuses, NEW override \in BOOLEAN,
         Begin(r, kind, from, to, override),
         override => from \in everTerminal,
         kind \in CreateKinds =>
           /\ lead.state = "absent" /\ ~ override
           /\ from = NewStatus /\ to = AssignedStatus
           /\ \A q \in Requests : req[q].kind \notin CreateKinds,
         kind \notin CreateKinds => lead.state = "live" /\ from \in Held
  PROVE  IInv'
<1>1. HistoryTracksStatus' /\ RowsLeaveHeldStatuses' /\ MovesWereJustified'
  BY TimelineKept DEF Begin
<1>2. /\ req'[r].kind = kind /\ req'[r].pc = "check" /\ ~ req'[r].allowed
      /\ req'[r].from = from /\ req'[r].to = to /\ req'[r].override = override
      /\ \A q \in Requests : q # r => req'[q] = req[q]
  BY DEF Begin, TypeOK
<1>3. CacheNeverInvents'
  BY <1>2 DEF Begin, IInv, CacheNeverInvents, Move
<1>4. InFlightIsHonest'
  <2>1. Held' = Held
    BY DEF Begin, Held
  <2>2. kind # "none"
    BY DEF AllKinds, AutoKinds, CreateKinds
  <2>3. QED BY <1>2, <2>1, <2>2 DEF Begin, IInv, InFlightIsHonest
<1>5. QED BY <1>1, <1>3, <1>4 DEF IInv

\* So does learning an answer that was true of the workflow at some time.
LEMMA AnswerKeeps ==
  ASSUME TypeOK, IInv, NEW r \in Requests, NEW pc \in {"store", "write"},
         NEW allowed \in BOOLEAN, Answer(r, pc, allowed), req[r].pc # "idle",
         allowed => Move(r) \in everEdges,
         \A e \in Edges : cache'[e] = "yes" => e \in everEdges,
         UNCHANGED <<lead, history, edges, terminal, everEdges, everTerminal>>
  PROVE  IInv'
<1>1. HistoryTracksStatus' /\ RowsLeaveHeldStatuses' /\ MovesWereJustified'
  BY TimelineKept
<1>2. /\ req'[r].kind = req[r].kind /\ req'[r].pc = pc /\ req'[r].allowed = allowed
      /\ req'[r].from = req[r].from /\ req'[r].to = req[r].to
      /\ req'[r].override = req[r].override
      /\ \A q \in Requests : q # r => req'[q] = req[q]
  BY DEF Answer, TypeOK, Request
<1>3. CacheNeverInvents'
  BY <1>2 DEF IInv, CacheNeverInvents, Move
<1>4. InFlightIsHonest'
  <2>1. Held' = Held
    BY DEF Held
  <2>2. QED BY <1>2, <2>1 DEF IInv, InFlightIsHonest
<1>5. QED BY <1>1, <1>3, <1>4 DEF IInv

\* Requests that end, while the rest of the state learns nothing false, leave
\* honest requests behind.
LEMMA FinishKeeps ==
  ASSUME TypeOK, IInv, NEW R \in SUBSET Requests,
         req' = [r \in Requests |-> IF r \in R THEN IdleReq ELSE req[r]],
         UNCHANGED <<lead, history, edges, terminal, everEdges, everTerminal>>,
         \A e \in Edges : cache'[e] = "yes" => e \in everEdges
  PROVE  IInv'
<1>1. HistoryTracksStatus' /\ RowsLeaveHeldStatuses' /\ MovesWereJustified'
  BY TimelineKept
<1>2. \A q \in Requests : \/ /\ req'[q].kind = "none" /\ req'[q].pc = "idle"
                              /\ ~ req'[q].allowed /\ ~ req'[q].override
                           \/ req'[q] = req[q]
  BY DEF IdleReq
<1>3. CacheNeverInvents'
  BY <1>2 DEF IInv, CacheNeverInvents, Move
<1>4. InFlightIsHonest'
  <2>1. Held' = Held
    BY DEF Held
  <2>2. "none" \notin AllKinds /\ "none" \notin CreateKinds
    BY DEF AllKinds, AutoKinds, CreateKinds
  <2>3. QED BY <1>2, <2>1, <2>2 DEF IInv, InFlightIsHonest
<1>5. QED BY <1>1, <1>3, <1>4 DEF IInv

-----------------------------------------------------------------------------
(* Every step *)

\* Finish resets its own request only.
LEMMA FinishIsReset ==
  ASSUME TypeOK, NEW r \in Requests, Finish(r)
  PROVE  /\ req' = [q \in Requests |-> IF q \in {r} THEN IdleReq ELSE req[q]]
         /\ req'[r] = IdleReq
         /\ \A q \in Requests : q # r => req'[q] = req[q]
BY DEF Finish, TypeOK

LEMMA InvStep == TypeOK /\ IInv /\ [Next]_vars => IInv'
<1> SUFFICES ASSUME TypeOK, IInv, [Next]_vars PROVE IInv'
  OBVIOUS
<1>1. ASSUME NEW r \in Requests, StartTransition(r) PROVE IInv'
  <2>1. PICK to \in Statuses \ {lead.status} :
           Begin(r, "transition", lead.status, to, lead.status \in terminal)
    BY <1>1 DEF StartTransition
  <2>2. lead.state = "live" /\ lead.status \in Held /\ lead.status \in Statuses
    BY <1>1 DEF StartTransition, IInv, HistoryTracksStatus, Held, TypeOK
  <2>3. lead.status \in terminal => lead.status \in everTerminal
    BY DEF IInv, InFlightIsHonest
  <2>4. "transition" \in AllKinds /\ "transition" \notin CreateKinds
    BY DEF AllKinds, CreateKinds
  <2>5. CASE lead.status \in terminal
    <3>1. Begin(r, "transition", lead.status, to, TRUE)
      BY <2>1, <2>5, Zenon DEF Begin
    <3>2. QED BY <2>2, <2>3, <2>4, <2>5, <3>1, BeginKeeps
  <2>6. CASE lead.status \notin terminal
    <3>1. Begin(r, "transition", lead.status, to, FALSE)
      <4>1. (lead.status \in terminal) = FALSE
        BY <2>6
      <4>2. QED BY <2>1, <4>1 DEF Begin
    <3>2. QED BY <2>2, <2>4, <3>1, BeginKeeps
  <2>7. QED BY <2>5, <2>6
<1>2. ASSUME NEW r \in Requests, StartAuto(r) PROVE IInv'
  <2>1. PICK k \in AutoKinds : Begin(r, k, lead.status, AutoTarget[k], FALSE)
    BY <1>2 DEF StartAuto
  <2>2. lead.state = "live" /\ lead.status \in Held /\ lead.status \in Statuses
    BY <1>2 DEF StartAuto, IInv, HistoryTracksStatus, Held, TypeOK
  <2>3. k \in AllKinds /\ k \notin CreateKinds /\ AutoTarget[k] \in Statuses
    BY StatusesAssumption DEF AllKinds, CreateKinds, AutoKinds
  <2>4. QED BY <2>1, <2>2, <2>3, BeginKeeps
<1>3. ASSUME NEW r \in Requests, StartAssign(r) PROVE IInv'
  <2>1. NewStatus \in Held
    BY <1>3 DEF StartAssign, IInv, HistoryTracksStatus, Held, TypeOK
  <2>2. "assign" \in AllKinds /\ "assign" \notin CreateKinds
    BY DEF AllKinds, CreateKinds
  <2>3. QED BY <1>3, <2>1, <2>2, StatusesAssumption, BeginKeeps DEF StartAssign
<1>4. ASSUME NEW r \in Requests, StartCreate(r) PROVE IInv'
  <2>1. PICK k \in CreateKinds : Begin(r, k, NewStatus, AssignedStatus, FALSE)
    BY <1>4 DEF StartCreate
  <2>2. k \in AllKinds
    BY DEF AllKinds
  <2>3. QED BY <1>4, <2>1, <2>2, StatusesAssumption, BeginKeeps DEF StartCreate
<1>5. ASSUME NEW r \in Requests, CheckHit(r) PROVE IInv'
  <2>1. req[r].pc = "check" /\ Move(r) \in Edges
    BY <1>5, RowsTyped DEF CheckHit
  <2>2. (cache[Move(r)] = "yes") \in BOOLEAN
    BY SMT
  <2>3. cache[Move(r)] = "yes" => Move(r) \in everEdges
    BY <2>1 DEF IInv, CacheNeverInvents
  <2>4. \A e \in Edges : cache'[e] = "yes" => e \in everEdges
    BY <1>5 DEF CheckHit, IInv, CacheNeverInvents
  <2>5. QED BY <1>5, <2>1, <2>2, <2>3, <2>4, AnswerKeeps DEF CheckHit
<1>6. ASSUME NEW r \in Requests, CheckMiss(r) \/ CheckWebhook(r) PROVE IInv'
  <2>1. req[r].pc = "check"
    BY <1>6 DEF CheckMiss, CheckWebhook
  <2>2. (Move(r) \in edges) \in BOOLEAN
    BY SMT
  <2>3. Move(r) \in edges => Move(r) \in everEdges
    BY DEF IInv, CacheNeverInvents
  <2>4. \A e \in Edges : cache'[e] = "yes" => e \in everEdges
    BY <1>6 DEF CheckMiss, CheckWebhook, IInv, CacheNeverInvents
  <2>5. QED BY <1>6, <2>1, <2>2, <2>3, <2>4, AnswerKeeps
            DEF CheckMiss, CheckWebhook
<1>7. ASSUME NEW r \in Requests, CheckStore(r) PROVE IInv'
  <2>1. req[r].allowed \in BOOLEAN
    BY DEF TypeOK, Request
  <2>2. req[r].allowed => Move(r) \in everEdges
    BY DEF IInv, CacheNeverInvents
  <2>3. \A e \in Edges : cache'[e] = "yes" => e \in everEdges
    BY <1>7, <2>2 DEF CheckStore, TypeOK, IInv, CacheNeverInvents
  <2>4. QED BY <1>7, <2>1, <2>2, <2>3, AnswerKeeps DEF CheckStore
<1>8. ASSUME NEW r \in Requests, CommitMove(r) PROVE IInv'
  <2>1. /\ req[r].from \in Held /\ req[r].kind \notin CreateKinds
        /\ req[r].override => req[r].from \in everTerminal
        /\ req[r].allowed => <<req[r].from, req[r].to>> \in everEdges
    BY <1>8 DEF CommitMove, IInv, InFlightIsHonest, CacheNeverInvents, Move,
                TypeOK, Request
  <2>2. /\ HistoryTracksStatus' /\ RowsLeaveHeldStatuses' /\ MovesWereJustified'
        /\ lead'.state = "live" /\ Held \subseteq Held'
    BY <1>8, <2>1, RowsTyped, TimelineAppended DEF CommitMove, NewRow
  <2>3. CacheNeverInvents'
    BY <1>8, FinishIsReset DEF CommitMove, IInv, CacheNeverInvents, Move, IdleReq
  <2>4. InFlightIsHonest'
    BY <1>8, <2>2, FinishIsReset
       DEF CommitMove, IInv, InFlightIsHonest, IdleReq, AllKinds, AutoKinds, CreateKinds
  <2>5. QED BY <2>2, <2>3, <2>4 DEF IInv
<1>9. ASSUME NEW r \in Requests, CommitCreate(r) \/ CommitCreateInNew(r) PROVE IInv'
  <2>1. /\ req[r].kind \in CreateKinds /\ req[r].pc # "idle"
        /\ req[r].from = NewStatus /\ req[r].to = AssignedStatus
        /\ req[r].allowed => <<req[r].from, req[r].to>> \in everEdges
        /\ \A q \in Requests : q # r => req[q].kind = "none"
    BY <1>9 DEF CommitCreate, CommitCreateInNew, IInv, InFlightIsHonest,
                CacheNeverInvents, Move, TypeOK, Request, CreateKinds
  <2>2. HistoryTracksStatus' /\ RowsLeaveHeldStatuses' /\ MovesWereJustified'
    <3>1. CASE CommitCreate(r)
      BY <2>1, <3>1, RowsTyped, TimelineCreated DEF CommitCreate, NewRow
    <3>2. CASE CommitCreateInNew(r)
      <4>1. Len(history') = 1 /\ DOMAIN history' = 1 .. 1 /\ history'[1] = CreationRow
        BY <3>2 DEF CommitCreateInNew
      <4>2. HistoryTracksStatus'
        BY <3>2, <4>1 DEF CommitCreateInNew, HistoryTracksStatus, CreationRow
      <4>3. RowsLeaveHeldStatuses' /\ MovesWereJustified'
        BY <4>1 DEF RowsLeaveHeldStatuses, MovesWereJustified
      <4>4. QED BY <4>2, <4>3
    <3>3. QED BY <1>9, <3>1, <3>2
  <2>3. CacheNeverInvents'
    BY <1>9, FinishIsReset
       DEF CommitCreate, CommitCreateInNew, IInv, CacheNeverInvents, Move, IdleReq
  <2>4. InFlightIsHonest'
    BY <1>9, <2>1, FinishIsReset
       DEF CommitCreate, CommitCreateInNew, IInv, InFlightIsHonest, IdleReq,
           AllKinds, AutoKinds, CreateKinds
  <2>5. QED BY <2>2, <2>3, <2>4 DEF IInv
<1>10. ASSUME NEW r \in Requests, Abandon(r) PROVE IInv'
  <2>1. \A e \in Edges : cache'[e] = "yes" => e \in everEdges
    BY <1>10 DEF Abandon, IInv, CacheNeverInvents
  <2>2. {r} \in SUBSET Requests
    OBVIOUS
  <2>3. req' = [q \in Requests |-> IF q \in {r} THEN IdleReq ELSE req[q]]
    BY <1>10, FinishIsReset DEF Abandon
  <2>4. UNCHANGED <<lead, history, edges, terminal, everEdges, everTerminal>>
    BY <1>10 DEF Abandon
  <2>5. QED BY <2>1, <2>2, <2>3, <2>4, FinishKeeps
<1>11. ASSUME DeleteLead PROVE IInv'
  <2>1. lead'.state = "deleted" /\ DOMAIN history' = {}
    BY <1>11 DEF DeleteLead, TypeOK
  <2>2. HistoryTracksStatus' /\ RowsLeaveHeldStatuses' /\ MovesWereJustified'
    BY <1>11, <2>1 DEF DeleteLead, HistoryTracksStatus, RowsLeaveHeldStatuses,
                       MovesWereJustified
  <2>3. CacheNeverInvents'
    BY <1>11 DEF DeleteLead, IInv, CacheNeverInvents, Move
  <2>4. InFlightIsHonest'
    BY <1>11, <2>1 DEF DeleteLead, IInv, InFlightIsHonest
  <2>5. QED BY <2>2, <2>3, <2>4 DEF IInv
<1>12. ASSUME PatchTerminal PROVE IInv'
  <2>1. everTerminal \subseteq everTerminal' /\ terminal' \subseteq everTerminal'
    BY <1>12 DEF PatchTerminal
  <2>2. HistoryTracksStatus' /\ RowsLeaveHeldStatuses' /\ MovesWereJustified'
    BY <1>12, <2>1, TimelineKept DEF PatchTerminal
  <2>3. CacheNeverInvents'
    BY <1>12 DEF PatchTerminal, IInv, CacheNeverInvents, Move
  <2>4. InFlightIsHonest'
    BY <1>12, <2>1 DEF PatchTerminal, IInv, InFlightIsHonest, Held
  <2>5. QED BY <2>2, <2>3, <2>4 DEF IInv
<1>13. ASSUME AdminRead PROVE IInv'
  BY <1>13, TimelineKept
     DEF AdminRead, IInv, CacheNeverInvents, InFlightIsHonest, Move, Held
<1>14. ASSUME AdminCommit PROVE IInv'
  <2>1. everEdges \subseteq everEdges' /\ UNCHANGED <<lead, history, everTerminal>>
    BY <1>14 DEF AdminCommit
  <2>2. HistoryTracksStatus' /\ RowsLeaveHeldStatuses' /\ MovesWereJustified'
    BY <2>1, TimelineKept
  <2>3. CacheNeverInvents'
    BY <1>14 DEF AdminCommit, IInv, CacheNeverInvents, Move
  <2>4. InFlightIsHonest'
    BY <1>14 DEF AdminCommit, IInv, InFlightIsHonest, Held
  <2>5. QED BY <2>2, <2>3, <2>4 DEF IInv
<1>15. ASSUME CacheExpire PROVE IInv'
  <2>1. HistoryTracksStatus' /\ RowsLeaveHeldStatuses' /\ MovesWereJustified'
    BY <1>15, TimelineKept DEF CacheExpire
  <2>2. CacheNeverInvents'
    BY <1>15 DEF CacheExpire, IInv, CacheNeverInvents, Move, TypeOK
  <2>3. InFlightIsHonest'
    BY <1>15 DEF CacheExpire, IInv, InFlightIsHonest, Held
  <2>4. QED BY <2>1, <2>2, <2>3 DEF IInv
<1>16. ASSUME Restart PROVE IInv'
  <2>1. \A e \in Edges : cache'[e] = "yes" => e \in everEdges
    BY <1>16 DEF Restart
  <2>2. req' = [q \in Requests |-> IF q \in Requests THEN IdleReq ELSE req[q]]
    BY <1>16 DEF Restart
  <2>3. UNCHANGED <<lead, history, edges, terminal, everEdges, everTerminal>>
    BY <1>16 DEF Restart
  <2>4. Requests \in SUBSET Requests
    OBVIOUS
  <2>5. QED BY <2>1, <2>2, <2>3, <2>4, FinishKeeps
<1>17. CASE UNCHANGED vars
  BY <1>17, TimelineKept
     DEF vars, IInv, CacheNeverInvents, InFlightIsHonest, Move, Held
<1>18. QED
  BY <1>1, <1>2, <1>3, <1>4, <1>5, <1>6, <1>7, <1>8, <1>9, <1>10, <1>11,
     <1>12, <1>13, <1>14, <1>15, <1>16, <1>17 DEF Next

LEMMA Invariance == Spec => []IInv
<1>1. Init => IInv
  BY DEF Init, IInv, HistoryTracksStatus, RowsLeaveHeldStatuses,
         MovesWereJustified, CacheNeverInvents, InFlightIsHonest, IdleReq,
         AllKinds, AutoKinds, CreateKinds, Edges
<1>2. QED BY <1>1, TypeCorrect, InvStep, PTL DEF Spec

\* A live lead's status is always the one its last timeline row names, however
\* the handlers interleave and whatever configuration, cache and restarts do.
THEOREM StatusMatchesTimeline == Spec => []HistoryTracksStatus
<1>1. IInv => HistoryTracksStatus
  BY DEF IInv
<1>2. QED BY <1>1, Invariance, PTL

\* Every row of the timeline leaves a status that an earlier row entered,
\* although handlers write it from a lead they read earlier.
THEOREM TimelineIsRooted == Spec => []RowsLeaveHeldStatuses
<1>1. IInv => RowsLeaveHeldStatuses
  BY DEF IInv
<1>2. QED BY <1>1, Invariance, PTL

\* No lead ever made a move that was not configured at some time or an
\* override of a once-terminal status, stale cache or not.
THEOREM MovesAreJustified == Spec => []MovesWereJustified
<1>1. IInv => MovesWereJustified
  BY DEF IInv
<1>2. QED BY <1>1, Invariance, PTL

\* The transition cache never says "yes" to what was never configured.
THEOREM CacheIsSound == Spec => []CacheNeverInvents
<1>1. IInv => CacheNeverInvents
  BY DEF IInv
<1>2. QED BY <1>1, Invariance, PTL

\* No request that outlives a delete brings the lead or its timeline back.
THEOREM DeletionIsFinal == Spec => DeletedIsFinal
<1>1. TypeOK /\ IInv /\ [Next]_vars =>
        [lead.state = "deleted" => UNCHANGED <<lead, history>>]_vars
  <2> SUFFICES ASSUME TypeOK, IInv, Next, lead.state = "deleted"
               PROVE  UNCHANGED <<lead, history>>
    OBVIOUS
  <2>1. ASSUME NEW r \in Requests,
               CommitMove(r) \/ CommitCreate(r) \/ CommitCreateInNew(r)
        PROVE  FALSE
    BY <2>1 DEF CommitMove, CommitCreate, CommitCreateInNew, IInv,
                InFlightIsHonest, CreateKinds
  <2>2. ~ DeleteLead
    BY DEF DeleteLead
  <2>3. QED
    BY <2>1, <2>2 DEF Next, StartTransition, StartAuto, StartAssign, StartCreate,
       Begin, CheckHit, CheckMiss, CheckStore, CheckWebhook, Abandon,
       PatchTerminal, AdminRead, AdminCommit, CacheExpire, Restart
<1>2. QED BY <1>1, TypeCorrect, Invariance, PTL DEF Spec, DeletedIsFinal
-----------------------------------------------------------------------------
(* The refinement of StatusJournal *)

JournalRow == [from : Statuses \cup {NoStatus}, to : Statuses]
EntryOf(row) == [from |-> row.from, to |-> row.to]
View(h) == [i \in DOMAIN h |-> EntryOf(h[i])]

LEMMA ViewOfHistory == JournalView = View(history) /\ JournalView' = View(history')
BY DEF JournalView, View, EntryOf

LEMMA EntryTyped ==
  ASSUME NEW row \in Row
  PROVE  /\ EntryOf(row) \in JournalRow
         /\ EntryOf(row).from = row.from /\ EntryOf(row).to = row.to
BY DEF Row, EntryOf, JournalRow

LEMMA ViewTyped ==
  ASSUME NEW h \in Seq(Row)
  PROVE  /\ View(h) \in Seq(JournalRow) /\ Len(View(h)) = Len(h)
         /\ DOMAIN View(h) = DOMAIN h /\ DOMAIN h = 1 .. Len(h)
         /\ \A i \in 1 .. Len(h) : View(h)[i] = EntryOf(h[i])
<1>1. /\ Len(h) \in Nat /\ DOMAIN h = 1 .. Len(h)
      /\ \A i \in 1 .. Len(h) : h[i] \in Row
  OBVIOUS
<1>2. View(h) = [i \in 1 .. Len(h) |-> EntryOf(h[i])]
  BY <1>1 DEF View
<1>3. \A i \in 1 .. Len(h) : EntryOf(h[i]) \in JournalRow
  BY <1>1, EntryTyped
<1>4. QED BY <1>1, <1>2, <1>3

\* Appending a row to the timeline appends its move to the journal.
LEMMA ViewAppended ==
  ASSUME NEW h \in Seq(Row), NEW row \in Row
  PROVE  View(Append(h, row)) = Append(View(h), EntryOf(row))
<1> DEFINE t == Append(h, row)
           v == View(t)
           a == Append(View(h), EntryOf(row))
<1>1. /\ t \in Seq(Row) /\ Len(h) \in Nat /\ Len(t) = Len(h) + 1
      /\ t[Len(h) + 1] = row
      /\ \A i \in 1 .. Len(h) : t[i] = h[i]
  OBVIOUS
<1>2. /\ View(h) \in Seq(JournalRow) /\ Len(View(h)) = Len(h)
      /\ \A i \in 1 .. Len(h) : View(h)[i] = EntryOf(h[i])
  BY ViewTyped
<1>3. /\ a \in Seq(JournalRow) /\ Len(a) = Len(h) + 1
      /\ a[Len(h) + 1] = EntryOf(row)
      /\ \A i \in 1 .. Len(h) : a[i] = EntryOf(h[i])
  BY <1>1, <1>2, EntryTyped
<1>4. /\ v \in Seq(JournalRow) /\ Len(v) = Len(h) + 1
      /\ \A i \in 1 .. Len(h) + 1 : v[i] = EntryOf(t[i])
  BY <1>1, ViewTyped
<1>5. \A i \in 1 .. Len(h) + 1 : i \in 1 .. Len(h) \/ i = Len(h) + 1
  BY <1>1
<1> HIDE DEF t, v, a
<1>6. \A i \in 1 .. Len(h) + 1 : a[i] = v[i]
  BY <1>1, <1>3, <1>4, <1>5
<1>7. v = a
  BY <1>3, <1>4, <1>6, SeqEqual
<1>8. QED BY <1>7 DEF v, a, t

\* The row of a move appends to the journal, from a status it holds.
LEMMA MoveStep ==
  ASSUME TypeOK, IInv, NEW r \in Requests, CommitMove(r)
  PROVE  Journal!Append1
<1>1. /\ NewRow(r) \in Row /\ history \in Seq(Row)
      /\ NewRow(r).from = req[r].from /\ NewRow(r).to = req[r].to
      /\ req[r].from \in Statuses /\ req[r].to \in Statuses
  BY RowsTyped DEF TypeOK, NewRow, Request
<1>2. EntryOf(NewRow(r)) = [from |-> req[r].from, to |-> req[r].to]
  BY <1>1 DEF EntryOf
<1>3. JournalView' = Append(JournalView, EntryOf(NewRow(r)))
  <2>1. history' = Append(history, NewRow(r))
    BY DEF CommitMove
  <2>2. JournalView' = View(history')
    BY ViewOfHistory
  <2>3. QED BY <1>1, <2>1, <2>2, ViewOfHistory, ViewAppended
<1>4. req[r].from \in Journal!Held(JournalView)
  <2>1. req[r].from \in Held
    BY DEF CommitMove, IInv, InFlightIsHonest, TypeOK, Request
  <2>2. PICK i \in DOMAIN history : history[i].to = req[r].from
    BY <2>1 DEF Held
  <2>3. history[i] \in Row /\ i \in DOMAIN JournalView
        /\ JournalView[i] = EntryOf(history[i])
    BY <1>1, <2>2, ViewOfHistory, ViewTyped
  <2>4. JournalView[i].to = req[r].from
    BY <2>2, <2>3, EntryTyped
  <2>5. QED BY <2>3, <2>4 DEF Journal!Held
<1>5. /\ lead.state = "live" /\ lead'.state = lead.state
      /\ lead'.status = req[r].to
  BY DEF CommitMove, TypeOK
<1>6. QED BY <1>1, <1>2, <1>3, <1>4, <1>5 DEF Journal!Append1

\* A creation starts the journal.
LEMMA CreateStep ==
  ASSUME TypeOK, IInv, NEW r \in Requests,
         CommitCreate(r) \/ CommitCreateInNew(r)
  PROVE  Journal!Create
<1> DEFINE root == [from |-> NoStatus, to |-> NewStatus]
           move == [from |-> NewStatus, to |-> AssignedStatus]
<1>1. lead.state = "absent" /\ req[r].from = NewStatus /\ req[r].to = AssignedStatus
  BY DEF CommitCreate, CommitCreateInNew, IInv, InFlightIsHonest, TypeOK,
         Request, CreateKinds
<1>2. EntryOf(CreationRow) = root /\ EntryOf(NewRow(r)) = move
  BY <1>1 DEF EntryOf, CreationRow, NewRow
<1>3. JournalView' = View(history')
  BY ViewOfHistory
<1>4. root \in JournalRow /\ move \in JournalRow
  BY StatusesAssumption DEF JournalRow
<1>5. CASE CommitCreate(r)
  <2>1. history' = <<CreationRow, NewRow(r)>>
    BY <1>5 DEF CommitCreate
  <2>2. View(<<CreationRow, NewRow(r)>>) = <<EntryOf(CreationRow), EntryOf(NewRow(r))>>
    BY DEF View
  <2>3. JournalView' = <<root, move>>
    BY <1>2, <1>3, <2>1, <2>2
  <2>4. <<root, move>> = <<root>> \o <<move>> /\ Len(<<root, move>>) = 2
        /\ <<root, move>>[2] = move
    OBVIOUS
  <2>5. lead'.state = "live" /\ lead'.status = AssignedStatus
    BY <1>5 DEF CommitCreate
  <2>6. <<move>> \in {<< >>} \cup {<<[from |-> NewStatus, to |-> s]>> : s \in Statuses}
    BY StatusesAssumption
  <2>7. JournalView'[Len(JournalView')].to = AssignedStatus
    BY <2>3, <2>4
  <2>8. JournalView' = <<root>> \o <<move>>
    BY <2>3, <2>4
  <2> HIDE DEF move
  <2>9. QED BY <1>1, <2>5, <2>6, <2>7, <2>8 DEF Journal!Create
<1>6. CASE CommitCreateInNew(r)
  <2>1. history' = <<CreationRow>>
    BY <1>6 DEF CommitCreateInNew
  <2>2. View(<<CreationRow>>) = <<EntryOf(CreationRow)>>
    BY DEF View
  <2>3. JournalView' = <<root>>
    BY <1>2, <1>3, <2>1, <2>2
  <2>4. <<root>> = <<root>> \o << >> /\ Len(<<root>>) = 1 /\ <<root>>[1] = root
    OBVIOUS
  <2>5. lead'.state = "live" /\ lead'.status = NewStatus
    BY <1>6 DEF CommitCreateInNew
  <2>6. JournalView'[Len(JournalView')].to = NewStatus
    BY <2>3, <2>4
  <2>7. JournalView' = <<root>> \o << >>
    BY <2>3, <2>4
  <2>8. QED BY <1>1, <2>5, <2>6, <2>7 DEF Journal!Create
<1>7. QED BY <1>5, <1>6

\* A deletion empties it.
LEMMA EraseStep == TypeOK /\ DeleteLead => Journal!Erase
<1> SUFFICES ASSUME TypeOK, DeleteLead PROVE Journal!Erase
  OBVIOUS
<1>1. lead.state = "live" /\ lead'.state = "deleted" /\ lead'.status = lead.status
  BY DEF TypeOK, DeleteLead
<1>2. JournalView' = << >>
  <2>1. history' = << >>
    BY DEF DeleteLead
  <2>2. View(<< >>) = << >>
    BY DEF View
  <2>3. JournalView' = View(history')
    BY ViewOfHistory
  <2>4. QED BY <2>1, <2>2, <2>3
<1>3. QED BY <1>1, <1>2 DEF Journal!Erase

LEMMA JournalStep == TypeOK /\ IInv /\ [Next]_vars => [Journal!Next]_(Journal!jvars)
<1> SUFFICES ASSUME TypeOK, IInv, [Next]_vars
             PROVE  Journal!Next \/ UNCHANGED Journal!jvars
  OBVIOUS
<1>1. CASE UNCHANGED <<lead, history>>
  <2>1. JournalView' = JournalView
    BY <1>1, ViewOfHistory
  <2>2. QED BY <1>1, <2>1 DEF Journal!jvars
<1>2. ASSUME NEW r \in Requests, CommitMove(r) PROVE Journal!Next
  BY <1>2, MoveStep DEF Journal!Next
<1>3. ASSUME NEW r \in Requests, CommitCreate(r) \/ CommitCreateInNew(r)
      PROVE  Journal!Next
  BY <1>3, CreateStep DEF Journal!Next
<1>4. CASE DeleteLead
  BY <1>4, EraseStep DEF Journal!Next
<1>5. QED
  BY <1>1, <1>2, <1>3, <1>4 DEF Next, StartTransition, StartAuto, StartAssign,
     StartCreate, Begin, CheckHit, CheckMiss, CheckStore, CheckWebhook, Abandon,
     PatchTerminal, AdminRead, AdminCommit, CacheExpire, Restart, vars

\* The handlers implement the timeline: every step of theirs is a creation, one
\* appended row that leaves a status the lead held, an erasure, or nothing to
\* the timeline at all.
THEOREM JournalIsImplemented == Spec => ImplementsJournal
<1>1. Init => Journal!Init
  BY DEF Init, Journal!Init, JournalView
<1>2. QED
  BY <1>1, JournalStep, TypeCorrect, Invariance, PTL
     DEF Spec, ImplementsJournal, Journal!Spec

-----------------------------------------------------------------------------
(* The SLA flags of the leads (SlaMonitor), for every set of leads, statuses *)
(* and servers: is_overdue agrees with overdue_at                            *)

CONSTANTS Leads, InitialKind, EditKinds, Servers, MaxFaults
VARIABLES kinds, leads, mon, faults

Sla == INSTANCE SlaMonitor WITH kind <- kinds, lead <- leads

\* What SlaMonitor assumes of its constants.
SlaParameters ==
  /\ InitialKind \in [Statuses -> Sla!Kinds]
  /\ EditKinds \subseteq Sla!Kinds
  /\ MaxFaults \in Nat

-----------------------------------------------------------------------------
(* What a write of one lead, and of one round, has to keep *)

LeadOK(w, k) ==
  /\ w \in Sla!Lead
  /\ w.late => k[w.status] = "sla"
  /\ w.overdue <=> w.at

LEMMA SoundByLead ==
  Sla!FlagsAreSound <=>
    /\ kinds \in [Statuses -> Sla!Kinds]
    /\ leads \in [Leads -> Sla!Lead]
    /\ mon \in [Servers -> Sla!Round]
    /\ faults \in 0 .. MaxFaults
    /\ \A l \in Leads : LeadOK(leads[l], kinds)
BY DEF Sla!FlagsAreSound, Sla!TypeOK, Sla!OverdueHasTime, LeadOK

\* A step that writes one lead, well, leaves all of them well.
LEMMA LeadWrite ==
  ASSUME Sla!FlagsAreSound, NEW l \in Leads, NEW w, LeadOK(w, kinds),
         leads' = [leads EXCEPT ![l] = w], UNCHANGED kinds,
         mon' \in [Servers -> Sla!Round], faults' \in 0 .. MaxFaults
  PROVE  Sla!FlagsAreSound'
<1>1. /\ leads \in [Leads -> Sla!Lead] /\ w \in Sla!Lead
      /\ kinds \in [Statuses -> Sla!Kinds]
  BY DEF Sla!FlagsAreSound, Sla!TypeOK, LeadOK
<1>2. \A k \in Leads : leads'[k] = IF k = l THEN w ELSE leads[k]
  BY <1>1
<1>3. \A k \in Leads : LeadOK(leads[k], kinds)
  BY SoundByLead
<1>4. \A k \in Leads : /\ leads'[k] \in Sla!Lead
                       /\ leads'[k].late => kinds[leads'[k].status] = "sla"
                       /\ leads'[k].overdue <=> leads'[k].at
  BY <1>2, <1>3 DEF LeadOK
<1>5. leads' \in [Leads -> Sla!Lead]
  BY <1>1
<1>6. QED BY <1>1, <1>4, <1>5 DEF Sla!FlagsAreSound, Sla!TypeOK, Sla!OverdueHasTime

\* A step of a round that writes no lead.
LEMMA RoundWrite ==
  ASSUME Sla!FlagsAreSound, UNCHANGED <<kinds, leads>>,
         mon' \in [Servers -> Sla!Round], faults' \in 0 .. MaxFaults
  PROVE  Sla!FlagsAreSound'
BY DEF Sla!FlagsAreSound, Sla!TypeOK, Sla!OverdueHasTime

\* What a round may turn into while it goes on.
LEMMA HandledTyped ==
  ASSUME Sla!TypeOK, NEW s \in Servers, NEW c \in Sla!Candidate, NEW alert \in SUBSET Leads,
         Sla!Handled(s, c, alert)
  PROVE  mon' \in [Servers -> Sla!Round]
<1>1. mon \in [Servers -> Sla!Round]
  BY DEF Sla!TypeOK
<1>2. [mon[s] EXCEPT !.todo = @ \ {c}, !.alert = alert] \in Sla!Round
  BY <1>1 DEF Sla!Round
<1>3. mon' = [mon EXCEPT ![s] = [mon[s] EXCEPT !.todo = @ \ {c}, !.alert = alert]]
  BY <1>1 DEF Sla!Handled
<1>4. QED BY <1>1, <1>2, <1>3

LEMMA CandidateTyped ==
  ASSUME Sla!TypeOK, NEW s \in Servers, NEW c \in mon[s].todo
  PROVE  c \in Sla!Candidate
BY DEF Sla!TypeOK, Sla!Round

LEMMA NoRoundTyped == Sla!NoRound \in Sla!Round
BY DEF Sla!NoRound, Sla!Round

-----------------------------------------------------------------------------
(* The steps of the rest of the system *)

LEMMA ElapseStep == Sla!FlagsAreSound /\ Sla!Elapse => Sla!FlagsAreSound'
<1> SUFFICES ASSUME Sla!FlagsAreSound, Sla!Elapse PROVE Sla!FlagsAreSound'
  OBVIOUS
<1>1. PICK l \in Leads : /\ kinds[leads[l].status] = "sla"
                         /\ leads' = [leads EXCEPT ![l].late = TRUE]
  BY DEF Sla!Elapse
<1>2. LeadOK([leads[l] EXCEPT !.late = TRUE], kinds)
  BY <1>1, SoundByLead DEF LeadOK, Sla!Lead
<1>3. UNCHANGED <<kinds, mon, faults>> /\ mon \in [Servers -> Sla!Round] /\ faults \in 0 .. MaxFaults
  BY DEF Sla!Elapse, Sla!FlagsAreSound, Sla!TypeOK
<1>4. leads' = [leads EXCEPT ![l] = [leads[l] EXCEPT !.late = TRUE]]
  BY <1>1
<1>5. QED BY <1>2, <1>3, <1>4, LeadWrite

LEMMA ChangeStep == Sla!FlagsAreSound /\ Sla!ChangeStatus => Sla!FlagsAreSound'
<1> SUFFICES ASSUME Sla!FlagsAreSound, Sla!ChangeStatus PROVE Sla!FlagsAreSound'
  OBVIOUS
<1>1. PICK l \in Leads, keeps \in BOOLEAN, s \in Statuses :
        leads' = [leads EXCEPT ![l] = [status |-> s, overdue |-> keeps /\ @.overdue,
                                     at |-> keeps /\ @.at, late |-> FALSE]]
  BY DEF Sla!ChangeStatus
<1> DEFINE w == [status |-> s, overdue |-> keeps /\ leads[l].overdue,
                 at |-> keeps /\ leads[l].at, late |-> FALSE]
<1>2. leads \in [Leads -> Sla!Lead] /\ (leads[l].overdue <=> leads[l].at)
  BY DEF Sla!FlagsAreSound, Sla!TypeOK, Sla!OverdueHasTime
<1>3. /\ (keeps /\ leads[l].overdue) \in BOOLEAN /\ (keeps /\ leads[l].at) \in BOOLEAN
      /\ (keeps /\ leads[l].overdue) <=> (keeps /\ leads[l].at)
  BY <1>2
<1>4. LeadOK(w, kinds)
  BY <1>3 DEF LeadOK, Sla!Lead
<1>5. UNCHANGED <<kinds, mon, faults>> /\ mon \in [Servers -> Sla!Round] /\ faults \in 0 .. MaxFaults
  BY DEF Sla!ChangeStatus, Sla!FlagsAreSound, Sla!TypeOK
<1>6. leads' = [leads EXCEPT ![l] = w]
  BY <1>1
<1>7. QED BY <1>4, <1>5, <1>6, LeadWrite

LEMMA PatchStep == Sla!FlagsAreSound /\ Sla!PatchOverdue => Sla!FlagsAreSound'
<1> SUFFICES ASSUME Sla!FlagsAreSound, Sla!PatchOverdue PROVE Sla!FlagsAreSound'
  OBVIOUS
<1>1. PICK l \in Leads, b \in BOOLEAN :
        leads' = [leads EXCEPT ![l].overdue = b, ![l].at = b]
  BY DEF Sla!PatchOverdue
<1> DEFINE w == [leads[l] EXCEPT !.overdue = b, !.at = b]
<1>2. leads \in [Leads -> Sla!Lead]
  BY DEF Sla!FlagsAreSound, Sla!TypeOK
<1>3. LeadOK(w, kinds)
  BY SoundByLead DEF LeadOK, Sla!Lead
<1>4. UNCHANGED <<kinds, mon, faults>> /\ mon \in [Servers -> Sla!Round] /\ faults \in 0 .. MaxFaults
  BY DEF Sla!PatchOverdue, Sla!FlagsAreSound, Sla!TypeOK
<1>5. leads' = [leads EXCEPT ![l] = w]
  BY <1>1, <1>2 DEF Sla!Lead
<1>6. QED BY <1>3, <1>4, <1>5, LeadWrite

\* An edited status takes its lateness along: a lead that it makes late is in
\* a status that has an SLA.
LEMMA EditStep ==
  ASSUME SlaParameters, Sla!FlagsAreSound, Sla!EditStatus PROVE Sla!FlagsAreSound'
<1>1. PICK s \in Statuses, k \in EditKinds, now \in SUBSET Leads :
        /\ kinds' = [kinds EXCEPT ![s] = k]
        /\ leads' = [l \in Leads |->
              IF leads[l].status = s
                THEN [leads[l] EXCEPT !.late = k = "sla" /\ l \in now]
                ELSE leads[l]]
  BY DEF Sla!EditStatus
<1>2. /\ kinds \in [Statuses -> Sla!Kinds] /\ leads \in [Leads -> Sla!Lead]
      /\ k \in Sla!Kinds
  BY DEF SlaParameters, Sla!FlagsAreSound, Sla!TypeOK
<1>3. kinds' \in [Statuses -> Sla!Kinds]
  BY <1>1, <1>2
<1>4. ASSUME NEW l \in Leads PROVE LeadOK(leads'[l], kinds')
  <2>1. LeadOK(leads[l], kinds)
    BY SoundByLead
  <2>2. CASE leads[l].status = s
    <3> DEFINE late == k = "sla" /\ l \in now
    <3>1. late \in BOOLEAN
      BY SMT
    <3>2. leads'[l] = [leads[l] EXCEPT !.late = late]
      BY <1>1, <2>2
    <3>3. late => kinds'[s] = "sla"
      BY <1>1, <1>2
    <3> HIDE DEF late
    <3>4. QED BY <2>1, <2>2, <3>1, <3>2, <3>3 DEF LeadOK, Sla!Lead
  <2>3. CASE leads[l].status # s
    BY <1>1, <1>2, <2>1, <2>3 DEF LeadOK, Sla!Lead
  <2>4. QED BY <2>2, <2>3
<1>5. leads' \in [Leads -> Sla!Lead]
  <2>1. \A l \in Leads : leads'[l] \in Sla!Lead
    BY <1>4 DEF LeadOK
  <2>2. leads' = [l \in Leads |-> leads'[l]]
    BY <1>1
  <2>3. QED BY <2>1, <2>2
<1>6. UNCHANGED <<mon, faults>> /\ mon \in [Servers -> Sla!Round] /\ faults \in 0 .. MaxFaults
  BY DEF Sla!EditStatus, Sla!FlagsAreSound, Sla!TypeOK
<1>7. QED BY <1>3, <1>4, <1>5, <1>6 DEF Sla!FlagsAreSound, Sla!TypeOK, Sla!OverdueHasTime, LeadOK

-----------------------------------------------------------------------------
(* The steps of a round *)

LEMMA StartStep ==
  ASSUME Sla!FlagsAreSound, NEW s \in Servers, Sla!StartRound(s) PROVE Sla!FlagsAreSound'
<1> DEFINE found == {k \in Leads : /\ ~ Sla!Terminal(k)
                                   /\ \/ leads[k].overdue
                                      \/ kinds[leads[k].status] = "sla"}
           seen(l) == [lead |-> l, exceeded |-> leads[l].late,
                       overdue |-> leads[l].overdue, at |-> leads[l].at]
           round == [pc |-> "on", alert |-> {}, todo |-> {seen(l) : l \in found}]
<1>1. leads \in [Leads -> Sla!Lead] /\ mon \in [Servers -> Sla!Round] /\ faults \in 0 .. MaxFaults
  BY DEF Sla!FlagsAreSound, Sla!TypeOK
<1>2. \A l \in Leads : seen(l) \in Sla!Candidate
  BY <1>1 DEF Sla!Candidate, Sla!Lead
<1>3. {seen(l) : l \in found} \in SUBSET Sla!Candidate
  BY <1>2
<1>4. round \in Sla!Round
  BY <1>3 DEF Sla!Round
<1>5. mon' = [mon EXCEPT ![s] = round] /\ UNCHANGED <<kinds, leads, faults>>
  BY DEF Sla!StartRound
<1>6. mon' \in [Servers -> Sla!Round]
  BY <1>1, <1>4, <1>5
<1>7. QED BY <1>1, <1>5, <1>6, RoundWrite

\* A candidate that is written: from the lead as it is by now, and from what
\* the snapshot said.
LEMMA CandidateStep ==
  ASSUME Sla!FlagsAreSound, NEW s \in Servers, NEW c \in mon[s].todo,
         \/ Sla!Skip(s, c) \/ Sla!ClearOverdue(s, c) \/ Sla!MarkOverdue(s, c) \/ Sla!AlreadyOverdue(s, c)
  PROVE  Sla!FlagsAreSound'
<1>1. c \in Sla!Candidate /\ c.lead \in Leads
  BY CandidateTyped DEF Sla!FlagsAreSound, Sla!Candidate
<1>2. LeadOK(leads[c.lead], kinds) /\ leads \in [Leads -> Sla!Lead] /\ faults \in 0 .. MaxFaults
  BY <1>1, SoundByLead
<1>3. ASSUME NEW alert \in SUBSET Leads, Sla!Handled(s, c, alert)
      PROVE  mon' \in [Servers -> Sla!Round]
  BY <1>1, <1>3, HandledTyped DEF Sla!FlagsAreSound
<1>4. CASE Sla!Skip(s, c)
  BY <1>2, <1>3, <1>4, RoundWrite DEF Sla!Skip
<1>5. CASE Sla!ClearOverdue(s, c)
  <2> DEFINE w == [leads[c.lead] EXCEPT !.overdue = FALSE,
                                       !.at = @ /\ ~ leads[c.lead].overdue]
  <2>1. LeadOK(w, kinds)
    <3>1. ~ (leads[c.lead].at /\ ~ leads[c.lead].overdue)
      BY <1>2 DEF LeadOK
    <3>2. w = [leads[c.lead] EXCEPT !.overdue = FALSE, !.at = FALSE]
      BY <3>1
    <3>3. QED BY <1>2, <3>2 DEF LeadOK, Sla!Lead
  <2>2. leads' = [leads EXCEPT ![c.lead] = w]
    BY <1>2, <1>5 DEF Sla!ClearOverdue, Sla!Lead
  <2>3. UNCHANGED <<kinds, faults>> /\ mon' \in [Servers -> Sla!Round]
    BY <1>3, <1>5 DEF Sla!ClearOverdue
  <2>4. QED BY <1>1, <1>2, <2>1, <2>2, <2>3, LeadWrite
<1>6. CASE Sla!MarkOverdue(s, c)
  <2> DEFINE w == [leads[c.lead] EXCEPT !.overdue = TRUE, !.at = TRUE]
  <2>1. LeadOK(w, kinds)
    BY <1>2 DEF LeadOK, Sla!Lead
  <2>2. leads' = [leads EXCEPT ![c.lead] = w]
    BY <1>2, <1>6 DEF Sla!MarkOverdue, Sla!Lead
  <2>3. UNCHANGED <<kinds, faults>> /\ mon' \in [Servers -> Sla!Round]
    BY <1>1, <1>3, <1>6 DEF Sla!MarkOverdue
  <2>4. QED BY <1>1, <1>2, <2>1, <2>2, <2>3, LeadWrite
<1>7. CASE Sla!AlreadyOverdue(s, c)
  <2> DEFINE w == [leads[c.lead] EXCEPT !.at = @ \/ (c.overdue /\ ~ c.at)]
  <2>1. LeadOK(w, kinds)
    <3>1. leads[c.lead].overdue /\ leads[c.lead].at
      BY <1>2, <1>7 DEF Sla!AlreadyOverdue, LeadOK
    <3>2. w = [leads[c.lead] EXCEPT !.at = TRUE]
      BY <3>1
    <3>3. QED BY <1>2, <3>1, <3>2 DEF LeadOK, Sla!Lead
  <2>2. leads' = [leads EXCEPT ![c.lead] = w]
    BY <1>2, <1>7 DEF Sla!AlreadyOverdue
  <2>3. UNCHANGED <<kinds, faults>> /\ mon' \in [Servers -> Sla!Round]
    BY <1>3, <1>7 DEF Sla!AlreadyOverdue
  <2>4. QED BY <1>1, <1>2, <2>1, <2>2, <2>3, LeadWrite
<1>8. QED BY <1>4, <1>5, <1>6, <1>7

LEMMA RoundStep ==
  ASSUME SlaParameters, Sla!FlagsAreSound, NEW s \in Servers,
         Sla!Notify(s) \/ Sla!EndRound(s) \/ Sla!AbortRound(s)
  PROVE  Sla!FlagsAreSound'
<1>1. mon \in [Servers -> Sla!Round] /\ faults \in 0 .. MaxFaults /\ MaxFaults \in Nat
  BY DEF SlaParameters, Sla!FlagsAreSound, Sla!TypeOK
<1>2. CASE Sla!Notify(s)
  <2>1. [mon[s] EXCEPT !.alert = {}] \in Sla!Round
    BY <1>1 DEF Sla!Round
  <2>2. mon' \in [Servers -> Sla!Round]
    BY <1>1, <1>2, <2>1 DEF Sla!Notify
  <2>3. QED BY <1>1, <1>2, <2>2, RoundWrite DEF Sla!Notify
<1>3. CASE Sla!EndRound(s)
  BY <1>1, <1>3, NoRoundTyped, RoundWrite DEF Sla!EndRound
<1>4. CASE Sla!AbortRound(s)
  <2>1. faults' \in 0 .. MaxFaults
    BY <1>1, <1>4 DEF Sla!AbortRound
  <2>2. QED BY <1>1, <1>4, <2>1, NoRoundTyped, RoundWrite DEF Sla!AbortRound
<1>5. QED BY <1>2, <1>3, <1>4

LEMMA SoundStep ==
  ASSUME SlaParameters, Sla!FlagsAreSound, [Sla!Next]_Sla!vars PROVE Sla!FlagsAreSound'
<1>1. CASE Sla!Elapse \/ Sla!ChangeStatus \/ Sla!PatchOverdue \/ Sla!EditStatus
  BY <1>1, ElapseStep, ChangeStep, PatchStep, EditStep
<1>2. ASSUME NEW s \in Servers, Sla!Monitor(s) \/ Sla!AbortRound(s) PROVE Sla!FlagsAreSound'
  BY <1>2, StartStep, CandidateStep, RoundStep DEF Sla!Monitor
<1>3. CASE UNCHANGED Sla!vars
  BY <1>3 DEF Sla!vars, Sla!FlagsAreSound, Sla!TypeOK, Sla!OverdueHasTime
<1>4. QED BY <1>1, <1>2, <1>3 DEF Sla!Next

\* is_overdue and overdue_at agree in every state, whichever handlers and
\* however many servers' rounds write them, from whatever snapshots.
THEOREM OverdueAgrees ==
  ASSUME SlaParameters PROVE Sla!Spec => []Sla!FlagsAreSound
<1>1. ASSUME Sla!Init PROVE Sla!FlagsAreSound
  <2>1. \A l \in Leads : \E s \in Statuses :
          leads[l] = [status |-> s, overdue |-> FALSE, at |-> FALSE, late |-> FALSE]
    BY <1>1 DEF Sla!Init
  <2>2. ASSUME NEW l \in Leads PROVE LeadOK(leads[l], kinds)
    <3>1. PICK s \in Statuses :
             leads[l] = [status |-> s, overdue |-> FALSE, at |-> FALSE, late |-> FALSE]
      BY <2>1
    <3>2. QED BY <3>1 DEF LeadOK, Sla!Lead
  <2>3. leads = [l \in Leads |-> leads[l]]
    BY <1>1 DEF Sla!Init
  <2>4. leads \in [Leads -> Sla!Lead]
    BY <2>2, <2>3 DEF LeadOK
  <2>5. /\ kinds \in [Statuses -> Sla!Kinds] /\ mon \in [Servers -> Sla!Round]
        /\ faults \in 0 .. MaxFaults
    BY <1>1, NoRoundTyped DEF SlaParameters, Sla!Init
  <2>6. QED BY <2>2, <2>4, <2>5, SoundByLead
<1>2. QED BY <1>1, SoundStep, PTL DEF Sla!Spec

-----------------------------------------------------------------------------
(* The districts and their staff (DistrictDirectory), for every set of        *)
(* districts, users and pages: what makes a state sound, who drops out of a   *)
(* district, what a refused deletion leaves, and who manages it               *)

World ==
  /\ active \subseteq rows /\ rows \subseteq Districts /\ withLeads \subseteq rows
  /\ staff \subseteq rows \X Users
  /\ role \in [Users -> DOMAIN Directory!Rank] /\ live \subseteq Users
  /\ sync \in Directory!Sync /\ csv \subseteq Keys
  /\ events \in 0 .. MaxEvents

\* What a page shows it can save, unless a selection has left it out; and a
\* request has checked what it relies on, unless something raced with it.
Good(g) ==
  /\ g.data.staff \subseteq g.pick["MANAGER"] \cup g.pick["EXECUTIVE"] \cup g.off
  /\ g.pc \in {"check", "roles", "write", "count", "unmap", "row"} => g.d \in g.data.rows
  /\ ~ g.raced => /\ g.pc \in {"roles", "write"} /\ g.d \in active => Directory!Of(g.pick["MANAGER"], g.d) # {}
                  /\ g.pc = "write" => Directory!RolesFit(g.d, g.pick)
                  /\ g.pc \in {"unmap", "row"} => g.d \notin withLeads
PageOK(g) == g = Directory!Closed \/ (g \in Directory!Desk /\ Good(g))
Open(f) == f \in Directory!Form /\ f.data.staff \subseteq f.pick.staff \cup f.off
FormOK == form = Directory!Closed \/ Open(form)
DistrictInv ==
  /\ World /\ FormOK
  /\ DOMAIN desk = Admins /\ desk = [p \in Admins |-> desk[p]]
  /\ \A p \in Admins : PageOK(desk[p])

LEMMA Ranks == DOMAIN Directory!Rank = {"EXECUTIVE", "MANAGER", "ADMIN"} /\
    Directory!Field \subseteq DOMAIN Directory!Rank
BY DEF Directory!Rank, Directory!Field

LEMMA DistrictTyped == DistrictInv => Directory!TypeOK
BY DEF DistrictInv, World, FormOK, Open, PageOK, Directory!TypeOK

\* A page that is shown is open.
LEMMA Shown ==
  ASSUME DistrictInv, NEW p \in Admins, desk[p].pc # "closed" PROVE desk[p] \in Directory!Desk /\ Good(desk[p])
BY DEF DistrictInv, PageOK, Directory!Closed

LEMMA MappingsTyped ==
  ASSUME World
  PROVE  /\ Directory!Mappings \in Directory!Mapping
         /\ Directory!DraftsOf(Directory!Mappings) \in [Directory!Field -> SUBSET Directory!Pairs]
         /\ Directory!Mappings.staff \subseteq Directory!DraftsOf(Directory!Mappings)["MANAGER"] \cup
                Directory!DraftsOf(Directory!Mappings)["EXECUTIVE"]
         /\ Directory!Mappings.rows = rows
<1> DEFINE pairs == {pr \in staff : role[pr[2]] \in Directory!Field}
           mapped == {pr[2] : pr \in pairs}
           as == [u \in Users |-> IF u \in mapped THEN role[u] ELSE "ADMIN"]
<1>1. Directory!Mappings = [staff |-> pairs, rows |-> rows, active |-> active, up |-> live \cap mapped,
          as |-> as]
  BY DEF Directory!Mappings
<1>2. pairs \subseteq Directory!Pairs /\ \A pr \in pairs : pr[2] \in Users /\ as[pr[2]] = role[pr[2]]
  BY DEF World, Directory!Pairs
<1>3. as \in [Users -> DOMAIN Directory!Rank] /\ live \cap mapped \subseteq Users
  BY Ranks DEF World
<1>4. Directory!Mappings \in Directory!Mapping
  BY <1>1, <1>2, <1>3 DEF Directory!Mapping, World
<1>5. Directory!DraftsOf(Directory!Mappings) = [r \in Directory!Field |-> {pr \in pairs : as[pr[2]] = r}]
  BY <1>1 DEF Directory!DraftsOf
<1>6. Directory!Mappings.staff = pairs /\ Directory!Mappings.rows = rows
  BY <1>1
<1>7. Directory!DraftsOf(Directory!Mappings) \in [Directory!Field -> SUBSET Directory!Pairs]
  BY <1>2, <1>5
<1>8. pairs \subseteq Directory!DraftsOf(Directory!Mappings)["MANAGER"] \cup
          Directory!DraftsOf(Directory!Mappings)["EXECUTIVE"]
  BY <1>2, <1>5 DEF Directory!Field
<1> HIDE DEF pairs, mapped, as
<1>9. QED BY <1>4, <1>6, <1>7, <1>8

LEMMA ListedTyped == World => Directory!Listed \in [Directory!Field -> SUBSET Users]
BY DEF World, Directory!Listed

\* One page moves, and with it at most who works in which district.
LEMMA Turn ==
  ASSUME DistrictInv, NEW p \in Admins, NEW g, PageOK(g), desk' = [desk EXCEPT ![p] = g],
         staff' \subseteq rows \X Users, events' \in 0 .. MaxEvents,
         UNCHANGED <<rows, active, role, live, withLeads, csv, form, sync, scene>>
  PROVE  DistrictInv'
<1>1. World' /\ FormOK'
  BY DEF DistrictInv, World, FormOK, Open
<1>2. DOMAIN desk' = Admins /\ desk' = [q \in Admins |-> desk'[q]]
  BY DEF DistrictInv
<1>3. ASSUME NEW q \in Admins, NEW h, h = g \/ h = desk[q] PROVE PageOK(h)'
  BY <1>3 DEF DistrictInv, PageOK, Good, Directory!RolesFit
<1>4. \A q \in Admins : desk'[q] = g \/ desk'[q] = desk[q]
  BY DEF DistrictInv
<1>5. ASSUME NEW q \in Admins PROVE PageOK(desk[q])'
  <2>1. PICK h : h = desk'[q]
    OBVIOUS
  <2>2. PageOK(h)'
    BY <1>3, <1>4, <2>1
  <2>3. QED BY <2>1, <2>2 DEF PageOK, Good, Directory!RolesFit
<1>6. QED BY <1>1, <1>2, <1>5 DEF DistrictInv

Pcs == {"shown", "check", "roles", "write", "count", "unmap", "row", "reload"}

\* A page in its next step, or given up.
LEMMA StepTo ==
  ASSUME DistrictInv, NEW p \in Admins, desk[p].pc # "closed", NEW pc \in Pcs, Directory!Step(p, pc),
         pc \in {"check", "roles", "write", "count", "unmap", "row"} => desk[p].d \in desk[p].data.rows,
         ~ desk[p].raced => /\ pc \in {"roles", "write"} /\ desk[p].d \in active
                                  => Directory!Of(desk[p].pick["MANAGER"], desk[p].d) # {}
                            /\ pc = "write" => Directory!RolesFit(desk[p].d, desk[p].pick)
                            /\ pc \in {"unmap", "row"} => desk[p].d \notin withLeads,
         staff' \subseteq rows \X Users,
         UNCHANGED <<rows, active, role, live, withLeads, csv, form, sync, scene, events>>
  PROVE  DistrictInv'
<1>1. desk[p] \in Directory!Desk /\ Good(desk[p])
  BY Shown
<1>2. PICK o : o = desk[p]
  OBVIOUS
<1>3. PICK g : g = [o EXCEPT !.pc = pc]
  OBVIOUS
<1>4. g \in Directory!Desk /\ g.d = o.d /\ g.data = o.data /\ g.pick = o.pick /\ g.off = o.off /\
          g.pc = pc /\ g.raced = o.raced
  BY <1>1, <1>2, <1>3 DEF Directory!Desk, Pcs
<1>5. PageOK(g)
  BY <1>1, <1>2, <1>4 DEF PageOK, Good
<1>6. desk' = [desk EXCEPT ![p] = g]
  BY <1>2, <1>3 DEF Directory!Step
<1>7. events' \in 0 .. MaxEvents
  BY DEF DistrictInv, World
<1>8. QED BY <1>5, <1>6, <1>7, Turn

LEMMA StaffThere == DistrictInv => staff \subseteq rows \X Users
BY DEF DistrictInv, World

LEMMA CheckInv ==
  ASSUME DistrictInv, NEW p \in Admins, Directory!CheckDistrict(p) \/ Directory!CheckRoles(p) PROVE DistrictInv'
<1> DEFINE d == desk[p].d  pick == desk[p].pick
<1>1. CASE Directory!CheckDistrict(p)
  <2>1. desk[p].pc = "check" /\ staff' \subseteq rows \X Users
    BY <1>1, StaffThere DEF Directory!CheckDistrict
  <2>2. Good(desk[p])
    BY <2>1, Shown
  <2>3. CASE Directory!Step(p, "shown")
    BY <1>1, <2>1, <2>2, <2>3, StepTo DEF Directory!CheckDistrict, Pcs
  <2>4. CASE Directory!Step(p, "roles") /\ ~ Directory!NeedsManager(d, pick)
    <3>1. d \in active => Directory!Of(pick["MANAGER"], d) # {}
      BY <2>4 DEF Directory!NeedsManager
    <3>2. d \in desk[p].data.rows
      BY <2>1, <2>2 DEF Good
    <3>3. QED BY <1>1, <2>1, <2>4, <3>1, <3>2, StepTo DEF Directory!CheckDistrict, Pcs
  <2>5. QED BY <1>1, <2>3, <2>4 DEF Directory!CheckDistrict
<1>2. CASE Directory!CheckRoles(p)
  <2>1. desk[p].pc = "roles" /\ staff' \subseteq rows \X Users
    BY <1>2, StaffThere DEF Directory!CheckRoles
  <2>2. Good(desk[p])
    BY <2>1, Shown
  <2>3. CASE ~ Directory!RolesFit(d, pick)
    BY <1>2, <2>1, <2>2, <2>3, StepTo DEF Directory!CheckRoles, Pcs
  <2>4. CASE Directory!RolesFit(d, pick)
    <3>1. d \in desk[p].data.rows /\ (~ desk[p].raced /\ d \in active => Directory!Of(pick["MANAGER"], d) # {})
      BY <2>1, <2>2 DEF Good
    <3>2. Directory!Step(p, "write")
      BY <1>2, <2>4 DEF Directory!CheckRoles
    <3>3. QED BY <1>2, <2>1, <2>4, <3>1, <3>2, StepTo DEF Directory!CheckRoles, Pcs
  <2>5. QED BY <2>3, <2>4
<1>3. QED BY <1>1, <1>2

LEMMA WriteInv ==
  ASSUME DistrictInv, NEW p \in Admins, Directory!WriteMappings(p) PROVE DistrictInv'
<1> DEFINE d == desk[p].d  pick == desk[p].pick
<1>1. desk[p].pc = "write" /\ UNCHANGED <<rows, active, role, live, withLeads, csv, form, sync, scene, events>>
  BY DEF Directory!WriteMappings
<1>2. desk[p] \in Directory!Desk
  BY <1>1, Shown
<1>3. Directory!Of(pick["MANAGER"], d) \subseteq {d} \X Users /\ Directory!Of(pick["EXECUTIVE"],
          d) \subseteq {d} \X Users
  BY <1>2 DEF Directory!Desk, Directory!Of, Directory!Pairs, Directory!Field
<1>4. staff' \subseteq rows \X Users
  <2>1. CASE d \in rows
    BY <1>3, <2>1, StaffThere DEF Directory!WriteMappings, Directory!Replaced
  <2>2. CASE d \notin rows
    BY <2>2, StaffThere DEF Directory!WriteMappings
  <2>3. QED BY <2>1, <2>2
<1>5. Directory!Step(p, "reload") \/ Directory!Step(p, "shown")
  BY DEF Directory!WriteMappings
<1>6. QED BY <1>1, <1>4, <1>5, StepTo DEF Pcs

LEMMA DeleteInv ==
  ASSUME DistrictInv, NEW p \in Admins, Directory!CountLeads(p) \/ Directory!Unmap(p) PROVE DistrictInv'
<1> DEFINE d == desk[p].d
<1>1. CASE Directory!CountLeads(p)
  <2>1. desk[p].pc = "count" /\ staff' \subseteq rows \X Users
    BY <1>1, StaffThere DEF Directory!CountLeads
  <2>2. Good(desk[p])
    BY <2>1, Shown
  <2>3. CASE ~ Directory!Unused(d)
    BY <1>1, <2>1, <2>3, StepTo DEF Directory!CountLeads, Pcs
  <2>4. CASE Directory!Unused(d)
    <3>1. d \in desk[p].data.rows /\ d \notin withLeads /\ Directory!Step(p, "unmap")
      BY <1>1, <2>1, <2>2, <2>4 DEF Good, Directory!Unused, Directory!CountLeads
    <3>2. QED BY <1>1, <2>1, <3>1, StepTo DEF Directory!CountLeads, Pcs
  <2>5. QED BY <2>3, <2>4
<1>2. CASE Directory!Unmap(p)
  <2>1. desk[p].pc = "unmap" /\ staff' \subseteq rows \X Users /\ Directory!Step(p, "row")
    BY <1>2, StaffThere DEF Directory!Unmap
  <2>2. d \in desk[p].data.rows /\ (~ desk[p].raced => d \notin withLeads)
    BY <2>1, Shown DEF Good
  <2>3. QED BY <1>2, <2>1, <2>2, StepTo DEF Directory!Unmap, Pcs
<1>3. QED BY <1>1, <1>2

LEMMA RefilledOK ==
  ASSUME World, NEW g, g \in Directory!Desk, Good(g), NEW h, h = Directory!Refilled(g)
  PROVE  h \in Directory!Desk /\ Good(h) /\ h.pc = "shown"
<1>1. CASE g.data = Directory!Mappings
  <2>1. h = [g EXCEPT !.pc = "shown"]
    BY <1>1 DEF Directory!Refilled
  <2>2. h \in Directory!Desk /\ h.pc = "shown" /\ h.data = g.data /\ h.pick = g.pick /\ h.off = g.off
    BY <2>1 DEF Directory!Desk
  <2>3. QED BY <2>2 DEF Good
<1>2. CASE g.data # Directory!Mappings
  <2>1. PICK data : data = Directory!Mappings
    OBVIOUS
  <2>2. PICK drafts : drafts = Directory!DraftsOf(Directory!Mappings)
    OBVIOUS
  <2>3. h = [g EXCEPT !.pc = "shown", !.data = data, !.pick = drafts, !.off = {}]
    BY <1>2, <2>1, <2>2 DEF Directory!Refilled
  <2>4. /\ data \in Directory!Mapping /\ drafts \in [Directory!Field -> SUBSET Directory!Pairs]
        /\ data.staff \subseteq drafts["MANAGER"] \cup drafts["EXECUTIVE"]
    BY <2>1, <2>2, MappingsTyped
  <2>5. h \in Directory!Desk /\ h.pc = "shown" /\ h.data = data /\ h.pick = drafts
    BY <2>3, <2>4 DEF Directory!Desk
  <2>6. QED BY <2>4, <2>5 DEF Good
<1>3. QED BY <1>1, <1>2

LEMMA WorldHere == DistrictInv => World /\ events \in 0 .. MaxEvents
BY DEF DistrictInv, World

LEMMA OpenInv ==
  ASSUME DistrictInv, NEW p \in Admins, Directory!OpenDesk(p) \/ Directory!ReloadDesk(p) PROVE DistrictInv'
<1>1. World /\ events \in 0 .. MaxEvents /\ staff \subseteq rows \X Users
  BY WorldHere, StaffThere
<1>2. Directory!Listed \in [Directory!Field -> SUBSET Users]
  BY <1>1, ListedTyped
<1>3. CASE Directory!ReloadDesk(p)
  <2>1. PICK h : h = Directory!Refilled(desk[p])
    OBVIOUS
  <2>2. desk[p] \in Directory!Desk /\ Good(desk[p])
    BY <1>3, Shown DEF Directory!ReloadDesk
  <2>3. PageOK(h)
    BY <1>1, <2>1, <2>2, RefilledOK DEF PageOK
  <2>4. QED BY <1>1, <1>3, <2>1, <2>3, Turn DEF Directory!ReloadDesk
<1>4. CASE Directory!OpenDesk(p) /\ desk[p].pc = "shown"
           /\ desk' = [desk EXCEPT ![p] = [Directory!Refilled(desk[p]) EXCEPT !.options = Directory!Listed]]
  <2>1. PICK h : h = Directory!Refilled(desk[p])
    OBVIOUS
  <2>2. PICK g : g = [h EXCEPT !.options = Directory!Listed]
    OBVIOUS
  <2>3. desk[p] \in Directory!Desk /\ Good(desk[p])
    BY <1>4, Shown
  <2>4. h \in Directory!Desk /\ Good(h) /\ h.pc = "shown"
    BY <1>1, <2>1, <2>3, RefilledOK
  <2>5. g \in Directory!Desk /\ g.pc = "shown" /\ g.data = h.data /\ g.pick = h.pick /\ g.off = h.off
    BY <1>2, <2>2, <2>4 DEF Directory!Desk
  <2>6. PageOK(g)
    BY <2>4, <2>5 DEF PageOK, Good
  <2>7. QED BY <1>1, <1>4, <2>1, <2>2, <2>6, Turn DEF Directory!OpenDesk
<1>5. ASSUME NEW d \in rows, Directory!OpenDesk(p),
             desk' = [desk EXCEPT ![p] =
               [pc |-> "shown", d |-> d, data |-> Directory!Mappings, options |-> Directory!Listed,
                pick |-> Directory!DraftsOf(Directory!Mappings), off |-> {}, raced |-> FALSE]]
      PROVE  DistrictInv'
  <2>1. PICK data : data = Directory!Mappings
    OBVIOUS
  <2>2. PICK drafts : drafts = Directory!DraftsOf(Directory!Mappings)
    OBVIOUS
  <2>3. PICK g : g = [pc |-> "shown", d |-> d, data |-> data, options |-> Directory!Listed,
                      pick |-> drafts, off |-> {}, raced |-> FALSE]
    OBVIOUS
  <2>4. /\ data \in Directory!Mapping /\ drafts \in [Directory!Field -> SUBSET Directory!Pairs]
        /\ data.staff \subseteq drafts["MANAGER"] \cup drafts["EXECUTIVE"]
    BY <1>1, <2>1, <2>2, MappingsTyped
  <2>5. g \in Directory!Desk
    BY <1>1, <1>2, <2>3, <2>4 DEF Directory!Desk, World
  <2>6. PageOK(g)
    BY <2>3, <2>4, <2>5 DEF PageOK, Good
  <2>7. desk' = [desk EXCEPT ![p] = g]
    BY <1>5, <2>1, <2>2, <2>3
  <2>8. QED BY <1>1, <1>5, <2>6, <2>7, Turn DEF Directory!OpenDesk
<1>6. QED BY <1>3, <1>4, <1>5 DEF Directory!OpenDesk

LEMMA SelectInv ==
  ASSUME DistrictInv, NEW p \in Admins, Directory!Select(p) PROVE DistrictInv'
<1>1. PICK o : o = desk[p]
  OBVIOUS
<1>2. o \in Directory!Desk /\ Good(o) /\ o.pc = "shown"
  BY <1>1, Shown DEF Directory!Select
<1>3. PICK d \in desk[p].data.rows, r \in Directory!Field : \E chosen \in SUBSET desk[p].options[r] :
        desk' = [desk EXCEPT ![p].pick[r] = (@ \ Directory!Of(desk[p].pick[r], d)) \cup ({d} \X chosen),
                             ![p].off = (@ \cup Directory!Of(desk[p].pick[r], d)) \ ({d} \X chosen)]
  BY DEF Directory!Select
<1>4. PICK chosen \in SUBSET o.options[r] :
        desk' = [desk EXCEPT ![p].pick[r] = (@ \ Directory!Of(desk[p].pick[r], d)) \cup ({d} \X chosen),
                             ![p].off = (@ \cup Directory!Of(desk[p].pick[r], d)) \ ({d} \X chosen)]
  BY <1>1, <1>3
<1>5. PICK before : before = Directory!Of(o.pick[r], d)
  OBVIOUS
<1>6. PICK after : after = {d} \X chosen
  OBVIOUS
<1>7. PICK g : g = [o EXCEPT !.pick[r] = (@ \ before) \cup after, !.off = (@ \cup before) \ after]
  OBVIOUS
<1>8. before \subseteq o.pick[r] /\ before \in SUBSET Directory!Pairs /\ after \in SUBSET Directory!Pairs
  BY <1>1, <1>2, <1>3, <1>5, <1>6 DEF Directory!Of, Directory!Desk, Directory!Mapping,
                                      Directory!Pairs
<1>9. /\ g \in Directory!Desk /\ g.pc = "shown" /\ g.data = o.data
      /\ g.pick = [o.pick EXCEPT ![r] = (@ \ before) \cup after] /\ g.off = (o.off \cup before) \ after
  BY <1>2, <1>7, <1>8 DEF Directory!Desk
<1>10. g.data.staff \subseteq g.pick["MANAGER"] \cup g.pick["EXECUTIVE"] \cup g.off
  <2>1. o.pick \in [Directory!Field -> SUBSET Directory!Pairs] /\
            o.data.staff \subseteq o.pick["MANAGER"] \cup o.pick["EXECUTIVE"] \cup o.off
    BY <1>2 DEF Good, Directory!Desk
  <2>2. r = "MANAGER" \/ r = "EXECUTIVE"
    BY DEF Directory!Field
  <2>3. \A q \in Directory!Field : g.pick[q] = IF q = r THEN (o.pick[r] \ before) \cup after ELSE o.pick[q]
    BY <1>9, <2>1
  <2>4. QED BY <1>8, <1>9, <2>1, <2>2, <2>3 DEF Directory!Field
<1>11. PageOK(g)
  BY <1>9, <1>10 DEF PageOK, Good
<1>12. desk' = [desk EXCEPT ![p] = g]
  BY <1>1, <1>4, <1>5, <1>6, <1>7
<1>13. events' \in 0 .. MaxEvents /\ staff' \subseteq rows \X Users
  BY WorldHere, StaffThere, DirectoryAssumption DEF Directory!Select, Directory!Event
<1>14. QED BY <1>11, <1>12, <1>13, Turn DEF Directory!Select

\* Save and StartDelete start a request for a district of the page.
LEMMA StartInv ==
  ASSUME DistrictInv, NEW p \in Admins, Directory!Save(p) \/ Directory!StartDelete(p) PROVE DistrictInv'
<1>1. PICK o : o = desk[p]
  OBVIOUS
<1>2. o \in Directory!Desk /\ Good(o)
  BY <1>1, Shown DEF Directory!Save, Directory!StartDelete
<1>3. PICK d \in o.data.rows, pc \in {"check", "count"} :
        desk' = [desk EXCEPT ![p].pc = pc, ![p].d = d, ![p].raced = FALSE]
  BY <1>1 DEF Directory!Save, Directory!StartDelete
<1>4. PICK g : g = [o EXCEPT !.pc = pc, !.d = d, !.raced = FALSE]
  OBVIOUS
<1>5. g \in Directory!Desk /\ g.pc = pc /\ g.d = d /\ g.data = o.data /\ g.pick = o.pick /\ g.off = o.off
  BY <1>2, <1>3, <1>4 DEF Directory!Desk, Directory!Mapping
<1>6. PageOK(g)
  BY <1>2, <1>5 DEF PageOK, Good
<1>7. desk' = [desk EXCEPT ![p] = g]
  BY <1>1, <1>3, <1>4
<1>8. events' \in 0 .. MaxEvents /\ staff' \subseteq rows \X Users
  BY WorldHere, StaffThere DEF Directory!Save, Directory!StartDelete
<1>9. QED BY <1>6, <1>7, <1>8, Turn DEF Directory!Save, Directory!StartDelete

-----------------------------------------------------------------------------
(* Steps that others' requests notice *)

LEMMA PageStays ==
  ASSUME NEW g, PageOK(g),
         g # Directory!Closed /\ ~ g.raced =>
           /\ g.pc \in {"roles", "write"} /\ g.d \in active' => g.d \in active
           /\ g.pc = "write" => role' = role
           /\ g.pc \in {"unmap", "row"} /\ g.d \in withLeads' => g.d \in withLeads
  PROVE  PageOK(g)'
<1>1. CASE g = Directory!Closed
  BY <1>1 DEF PageOK
<1>2. CASE g # Directory!Closed
  BY <1>2 DEF PageOK, Good, Directory!RolesFit
<1>3. QED BY <1>1, <1>2

LEMMA PageRaced ==
  ASSUME NEW g, g \in Directory!Desk, Good(g), NEW h, h = [g EXCEPT !.raced = TRUE] PROVE PageOK(h)'
<1>1. h \in Directory!Desk /\ h.raced = TRUE /\ h.pc = g.pc /\ h.d = g.d /\ h.data = g.data /\ h.pick = g.pick
      /\ h.off = g.off
  BY DEF Directory!Desk
<1>2. QED BY <1>1 DEF PageOK, Good

LEMMA PageRests ==
  ASSUME NEW g, g \in Directory!Desk, Good(g), NEW pc \in {"shown", "reload"}, NEW h, h = [g EXCEPT !.pc = pc]
  PROVE  PageOK(h)'
<1>1. h \in Directory!Desk /\ h.pc = pc /\ h.data = g.data /\ h.pick = g.pick /\ h.off = g.off
  BY DEF Directory!Desk
<1>2. QED BY <1>1 DEF PageOK, Good

LEMMA PageNow ==
  ASSUME NEW q, NEW h, h = desk'[q], PageOK(h)' PROVE PageOK(desk[q])'
BY DEF PageOK, Good, Directory!RolesFit

LEMMA PagesInv ==
  ASSUME World', FormOK', DOMAIN desk' = Admins, desk' = [q \in Admins |-> desk'[q]],
         \A q \in Admins : PageOK(desk[q])'
  PROVE  DistrictInv'
BY DEF DistrictInv

LEMMA FormStays == ASSUME DistrictInv, UNCHANGED form PROVE FormOK'
BY DEF DistrictInv, FormOK, Open

\* Those in a checked step take note of a race.
LEMMA RacedPages ==
  ASSUME DistrictInv, NEW pcs, "closed" \notin pcs, NEW d, NEW q \in Admins, NEW h,
             h = Directory!Racing(pcs, d, desk)[q],
         UNCHANGED role,
         \A c : c \in active' /\ c \notin active => c = d /\ {"roles", "write"} \subseteq pcs,
         \A c : c \in withLeads' /\ c \notin withLeads => c = d /\ {"unmap", "row"} \subseteq pcs
  PROVE  PageOK(h)'
<1>1. CASE desk[q].pc \in pcs /\ desk[q].d = d
  <2>1. h = [desk[q] EXCEPT !.raced = TRUE]
    BY <1>1 DEF Directory!Racing
  <2>2. desk[q] \in Directory!Desk /\ Good(desk[q])
    BY <1>1, Shown
  <2>3. PICK g : g = desk[q]
    OBVIOUS
  <2>4. QED BY <2>1, <2>2, <2>3, PageRaced
<1>2. CASE ~ (desk[q].pc \in pcs /\ desk[q].d = d)
  <2>1. PICK g : g = desk[q]
    OBVIOUS
  <2>2. h = g /\ PageOK(g)
    BY <1>2, <2>1 DEF Directory!Racing, DistrictInv
  <2>3. /\ g.pc \in {"roles", "write"} /\ g.d \in active' => g.d \in active
        /\ g.pc \in {"unmap", "row"} /\ g.d \in withLeads' => g.d \in withLeads
    BY <1>2, <2>1
  <2>4. PageOK(g)'
    BY <2>2, <2>3, PageStays
  <2>5. QED BY <2>2, <2>4
<1>3. QED BY <1>1, <1>2

LEMMA RacingTyped ==
  ASSUME DistrictInv, NEW pcs, NEW d
  PROVE  DOMAIN Directory!Racing(pcs, d, desk) = Admins
         /\ Directory!Racing(pcs, d, desk) = [q \in Admins |-> Directory!Racing(pcs, d, desk)[q]]
BY DEF Directory!Racing

LEMMA RaiseInv == ASSUME DistrictInv, Directory!RaiseLead PROVE DistrictInv'
<1>1. PICK d \in active \ withLeads :
        withLeads' = withLeads \cup {d} /\ desk' = Directory!Racing({"unmap", "row"}, d, desk)
  BY DEF Directory!RaiseLead
<1>2. World'
  BY <1>1, DirectoryAssumption DEF DistrictInv, World, Directory!RaiseLead, Directory!Event
<1>3. DOMAIN desk' = Admins /\ desk' = [q \in Admins |-> desk'[q]]
  BY <1>1, RacingTyped
<1>4. ASSUME NEW q \in Admins PROVE PageOK(desk[q])'
  <2>1. PICK h : h = Directory!Racing({"unmap", "row"}, d, desk)[q]
    OBVIOUS
  <2>2. /\ \A c : c \in active' /\ c \notin active => c = d /\ {"roles", "write"} \subseteq {"unmap", "row"}
        /\ \A c : c \in withLeads' /\ c \notin withLeads => c = d /\ {"unmap", "row"} \subseteq {"unmap", "row"}
        /\ UNCHANGED role /\ "closed" \notin {"unmap", "row"}
    BY <1>1 DEF Directory!RaiseLead
  <2>3. PageOK(h)'
    BY <2>1, <2>2, RacedPages
  <2>4. h = desk'[q]
    BY <1>1, <2>1
  <2>5. QED BY <2>3, <2>4, PageNow
<1>5. QED BY <1>2, <1>3, <1>4, PagesInv, FormStays DEF Directory!RaiseLead

LEMMA SuspendInv == ASSUME DistrictInv, Directory!Suspend PROVE DistrictInv'
<1>1. World'
  BY DirectoryAssumption DEF DistrictInv, World, Directory!Suspend, Directory!Event
<1>2. DOMAIN desk' = Admins /\ desk' = [q \in Admins |-> desk'[q]]
  BY DEF DistrictInv, Directory!Suspend
<1>3. ASSUME NEW q \in Admins PROVE PageOK(desk[q])'
  <2>1. PICK g : g = desk[q]
    OBVIOUS
  <2>2. PageOK(g)
    BY <2>1 DEF DistrictInv
  <2>3. PageOK(g)'
    BY <2>2, PageStays DEF Directory!Suspend
  <2>4. QED BY <2>1, <2>3, PageNow DEF Directory!Suspend
<1>4. QED BY <1>1, <1>2, <1>3, PagesInv, FormStays DEF Directory!Suspend

LEMMA SwitchInv == ASSUME DistrictInv, NEW p \in Admins, Directory!SwitchDistrict(p) PROVE DistrictInv'
<1>1. PICK d \in desk[p].data.rows :
       IF d \in rows
         THEN /\ active' \in {active \cup {d}, active \ {d}}
              /\ desk' = [Directory!Racing({"roles", "write"}, d, desk) EXCEPT ![p].pc = "reload"]
         ELSE UNCHANGED <<active, desk>>
  BY DEF Directory!SwitchDistrict
<1>2. events' \in 0 .. MaxEvents /\ desk[p].pc = "shown"
  BY DirectoryAssumption DEF DistrictInv, World, Directory!SwitchDistrict, Directory!Event
<1>3. CASE d \notin rows
  <2>1. PICK g : g = desk[p]
    OBVIOUS
  <2>2. PageOK(g) /\ desk' = [desk EXCEPT ![p] = g]
    BY <1>1, <1>3, <2>1 DEF DistrictInv
  <2>3. QED BY <1>1, <1>2, <1>3, <2>2, StaffThere, Turn DEF Directory!SwitchDistrict
<1>4. CASE d \in rows
  <2> DEFINE pages == Directory!Racing({"roles", "write"}, d, desk)
  <2>1. World'
    BY <1>1, <1>2, <1>4 DEF DistrictInv, World, Directory!SwitchDistrict
  <2>2. DOMAIN pages = Admins /\ pages = [q \in Admins |-> pages[q]]
    BY RacingTyped
  <2>3. desk' = [pages EXCEPT ![p].pc = "reload"]
    BY <1>1, <1>4
  <2>4. DOMAIN desk' = Admins /\ desk' = [q \in Admins |-> desk'[q]]
    BY <2>2, <2>3
  <2>5. ASSUME NEW q \in Admins PROVE PageOK(desk[q])'
    <3>1. PICK h : h = pages[q]
      OBVIOUS
    <3>2. CASE q # p
      <4>1. h = desk'[q]
        BY <2>2, <2>3, <3>1, <3>2
      <4>2. /\ \A c : c \in active' /\ c \notin active => c = d /\ {"roles", "write"} \subseteq {"roles",
                   "write"}
            /\ \A c : c \in withLeads' /\ c \notin withLeads => c = d /\ {"unmap",
                   "row"} \subseteq {"roles", "write"}
            /\ UNCHANGED role /\ "closed" \notin {"roles", "write"}
        BY <1>1, <1>4 DEF Directory!SwitchDistrict
      <4>3. PageOK(h)'
        BY <3>1, <4>2, RacedPages
      <4>4. QED BY <4>1, <4>3, PageNow
    <3>3. CASE q = p
      <4>1. PICK g : g = desk[p]
        OBVIOUS
      <4>2. g \in Directory!Desk /\ Good(g)
        BY <1>2, <4>1, Shown
      <4>3. h = g
        BY <1>2, <3>1, <3>3, <4>1 DEF Directory!Racing
      <4>4. PICK k : k = [g EXCEPT !.pc = "reload"]
        OBVIOUS
      <4>5. PageOK(k)'
        BY <4>2, <4>4, PageRests
      <4>6. k = desk'[q]
        BY <2>2, <2>3, <3>1, <3>3, <4>3, <4>4
      <4>7. QED BY <4>5, <4>6, PageNow
    <3>4. QED BY <3>2, <3>3
  <2>6. QED BY <2>1, <2>4, <2>5, PagesInv, FormStays DEF Directory!SwitchDistrict
<1>5. QED BY <1>3, <1>4

LEMMA CreateInv == ASSUME DistrictInv, NEW p \in Admins, Directory!CreateDistrict(p) PROVE DistrictInv'
<1>1. PICK d \in Districts \ rows :
       /\ Directory!Unknown(d) /\ rows' = rows \cup {d} /\ active' \in {active, active \cup {d}}
  BY DEF Directory!CreateDistrict
<1>2. desk[p].pc = "shown" /\ desk' = [desk EXCEPT ![p].pc = "reload"]
  BY DEF Directory!CreateDistrict, Directory!Step
<1>3. World'
  BY <1>1, DirectoryAssumption DEF DistrictInv, World, Directory!CreateDistrict, Directory!Event
<1>4. DOMAIN desk' = Admins /\ desk' = [q \in Admins |-> desk'[q]]
  BY <1>2 DEF DistrictInv
<1>5. ASSUME NEW q \in Admins PROVE PageOK(desk[q])'
  <2>1. PICK g : g = desk[q]
    OBVIOUS
  <2>2. PageOK(g) /\ DOMAIN desk = Admins
    BY <2>1 DEF DistrictInv
  <2>3. CASE q = p
    <3>1. PICK h : h = [g EXCEPT !.pc = "reload"]
      OBVIOUS
    <3>2. h = desk'[q]
      BY <1>2, <2>1, <2>2, <2>3, <3>1
    <3>3. g \in Directory!Desk /\ Good(g)
      BY <1>2, <2>1, <2>3, Shown
    <3>4. QED BY <3>1, <3>2, <3>3, PageRests, PageNow
  <2>4. CASE q # p
    <3>1. g = desk'[q]
      BY <1>2, <2>1, <2>2, <2>4
    <3>2. g = Directory!Closed \/ (g.pc # "closed" /\ g \in Directory!Desk /\ Good(g))
      BY <2>2 DEF PageOK, Directory!Desk
    <3>3. ASSUME g # Directory!Closed, g.pc \in {"roles", "write"} PROVE g.d # d
      <4>1. g.d \in g.data.rows
        BY <3>2, <3>3 DEF Good
      <4>2. d \notin g.data.rows
        BY <1>1, <2>1, <3>2, <3>3 DEF Directory!Unknown
      <4>3. QED BY <4>1, <4>2
    <3>4. PageOK(g)'
      BY <1>1, <2>2, <3>3, PageStays DEF Directory!CreateDistrict
    <3>5. QED BY <3>1, <3>4, PageNow
  <2>5. QED BY <2>3, <2>4
<1>6. QED BY <1>3, <1>4, <1>5, PagesInv, FormStays DEF Directory!CreateDistrict

LEMMA DeleteRowInv == ASSUME DistrictInv, NEW p \in Admins, Directory!DeleteRow(p) PROVE DistrictInv'
<1> DEFINE d == desk[p].d
<1>1. desk[p].pc = "row"
  BY DEF Directory!DeleteRow
<1>2. PICK pc \in {"shown", "reload"} : desk' = [desk EXCEPT ![p].pc = pc]
  BY DEF Directory!DeleteRow, Directory!Step
<1>3. /\ withLeads \subseteq rows' /\ rows' \subseteq rows /\ active' \subseteq active
      /\ active' \subseteq rows' /\ staff' \subseteq rows' \X Users
  BY StaffThere DEF Directory!DeleteRow, DistrictInv, World, Directory!Of
<1>4. World'
  BY <1>3 DEF DistrictInv, World, Directory!DeleteRow
<1>5. DOMAIN desk' = Admins /\ desk' = [q \in Admins |-> desk'[q]]
  BY <1>2 DEF DistrictInv
<1>6. ASSUME NEW q \in Admins PROVE PageOK(desk[q])'
  <2>1. PICK g : g = desk[q]
    OBVIOUS
  <2>2. PageOK(g) /\ DOMAIN desk = Admins
    BY <2>1 DEF DistrictInv
  <2>3. CASE q = p
    <3>1. PICK h : h = [g EXCEPT !.pc = pc]
      OBVIOUS
    <3>2. h = desk'[q]
      BY <1>2, <2>1, <2>2, <2>3, <3>1
    <3>3. g \in Directory!Desk /\ Good(g)
      BY <1>1, <2>1, <2>3, Shown
    <3>4. QED BY <3>1, <3>2, <3>3, PageRests, PageNow
  <2>4. CASE q # p
    <3>1. g = desk'[q]
      BY <1>2, <2>1, <2>2, <2>4
    <3>2. PageOK(g)'
      BY <1>3, <2>2, PageStays DEF Directory!DeleteRow
    <3>3. QED BY <3>1, <3>2, PageNow
  <2>5. QED BY <2>3, <2>4
<1>7. QED BY <1>4, <1>5, <1>6, PagesInv, FormStays DEF Directory!DeleteRow

-----------------------------------------------------------------------------
(* The page of a user *)

LEMMA UserTyped ==
  ASSUME DistrictInv, NEW u \in Users, NEW data, data = Directory!UserData(u)
  PROVE  data \in [staff : SUBSET Directory!Pairs, role : DOMAIN Directory!Rank]
BY DEF DistrictInv, World, Directory!UserData, Directory!Pairs

\* One that opens or closes nothing else.
LEMMA FormInv ==
  ASSUME DistrictInv, FormOK', events' \in 0 .. MaxEvents,
         UNCHANGED <<rows, active, staff, role, live, withLeads, csv, desk, sync, scene>>
  PROVE  DistrictInv'
<1>1. World'
  BY DEF DistrictInv, World
<1>2. DOMAIN desk' = Admins /\ desk' = [q \in Admins |-> desk'[q]]
  BY DEF DistrictInv
<1>3. ASSUME NEW q \in Admins PROVE PageOK(desk[q])'
  <2>1. PICK g : g = desk[q]
    OBVIOUS
  <2>2. PageOK(g)
    BY <2>1 DEF DistrictInv
  <2>3. QED BY <2>1, <2>2, PageStays, PageNow
<1>4. QED BY <1>1, <1>2, <1>3, PagesInv

LEMMA FormNow == ASSUME NEW f, Open(f), form' = f PROVE FormOK'
BY DEF Open, FormOK

LEMMA FormShown == ASSUME DistrictInv, form.pc # "closed" PROVE Open(form)
BY DEF DistrictInv, FormOK, Directory!Closed

LEMMA FormMoves ==
  ASSUME NEW f, Open(f), NEW pc \in {"shown", "read", "commit", "reload"}, NEW ok \in BOOLEAN,
         NEW g, g = [f EXCEPT !.pc = pc] \/ g = [f EXCEPT !.pc = pc, !.confirmed = ok]
  PROVE  Open(g)
<1>1. f \in Directory!Form
  BY DEF Open
<1>2. CASE g = [f EXCEPT !.pc = pc]
  <2>1. g \in Directory!Form
    BY <1>1, <1>2 DEF Directory!Form
  <2>2. g.data = f.data /\ g.pick = f.pick /\ g.off = f.off
    BY <1>1, <1>2 DEF Directory!Form
  <2>3. QED BY <2>1, <2>2 DEF Open
<1>3. CASE g = [f EXCEPT !.pc = pc, !.confirmed = ok]
  <2>1. g \in Directory!Form
    BY <1>1, <1>3 DEF Directory!Form
  <2>2. g.data = f.data /\ g.pick = f.pick /\ g.off = f.off
    BY <1>1, <1>3 DEF Directory!Form
  <2>3. QED BY <2>1, <2>2 DEF Open
<1>4. QED BY <1>2, <1>3

LEMMA OpenFormInv == ASSUME DistrictInv, Directory!OpenForm \/ Directory!ReloadForm PROVE DistrictInv'
<1>1. FormOK'
  <2>1. CASE Directory!OpenForm
    <3>1. PICK u \in Users : form' = [pc |-> "shown", u |-> u, data |-> Directory!UserData(u),
             pick |-> Directory!UserData(u), off |-> {}, confirmed |-> FALSE]
      BY <2>1 DEF Directory!OpenForm
    <3>2. PICK data : data = Directory!UserData(u)
      OBVIOUS
    <3>3. data \in [staff : SUBSET Directory!Pairs, role : DOMAIN Directory!Rank]
      BY <3>2, UserTyped
    <3>4. PICK f : f = [pc |-> "shown", u |-> u, data |-> data, pick |-> data, off |-> {},
                        confirmed |-> FALSE]
      OBVIOUS
    <3>5. Open(f)
      BY <3>3, <3>4 DEF Open, Directory!Form
    <3>6. QED BY <3>1, <3>2, <3>4, <3>5, FormNow
  <2>2. CASE Directory!ReloadForm
    <3>1. PICK o : o = form
      OBVIOUS
    <3>2. Open(o)
      BY <2>2, <3>1, FormShown DEF Directory!ReloadForm
    <3>3. PICK data : data = Directory!UserData(form.u)
      OBVIOUS
    <3>4. data \in [staff : SUBSET Directory!Pairs, role : DOMAIN Directory!Rank]
      BY <3>1, <3>2, <3>3, UserTyped DEF Open, Directory!Form
    <3>5. PICK f : f = form'
      OBVIOUS
    <3>6. f = [o EXCEPT !.pc = "shown"]
          \/ f = [o EXCEPT !.pc = "shown", !.data = data, !.pick = data, !.off = {}]
      BY <2>2, <3>1, <3>3, <3>5 DEF Directory!ReloadForm
    <3>7. CASE f = [o EXCEPT !.pc = "shown", !.data = data, !.pick = data, !.off = {}]
      <4>1. f \in Directory!Form /\ f.data = data /\ f.pick = data
        BY <3>2, <3>4, <3>7 DEF Open, Directory!Form
      <4>2. QED BY <3>5, <4>1, FormNow DEF Open
    <3>8. CASE f = [o EXCEPT !.pc = "shown"]
      BY <3>2, <3>5, <3>8, FormMoves, FormNow
    <3>9. QED BY <3>6, <3>7, <3>8
  <2>3. QED BY <2>1, <2>2
<1>2. QED BY <1>1, FormInv, WorldHere DEF Directory!OpenForm, Directory!ReloadForm

LEMMA EditFormInv == ASSUME DistrictInv, Directory!EditForm PROVE DistrictInv'
<1>1. PICK o : o = form
  OBVIOUS
<1>2. Open(o) /\ o.pick \in [staff : SUBSET Directory!Pairs, role : DOMAIN Directory!Rank] /\ o.u \in Users
      /\ o.off \in SUBSET Directory!Pairs
  BY <1>1, FormShown DEF Directory!EditForm, Open, Directory!Form
<1>3. FormOK'
  <2>1. ASSUME NEW d \in rows, NEW pr, pr = <<d, o.u>>,
               \/ form' = [form EXCEPT !.pick.staff = @ \ {pr}, !.off = @ \cup {pr}]
               \/ form' = [form EXCEPT !.pick.staff = @ \cup {pr}, !.off = @ \ {pr}]
        PROVE  FormOK'
    <3>1. pr \in Directory!Pairs
      BY <1>2, <2>1, WorldHere DEF Directory!Pairs, World
    <3>2. PICK f : f = form'
      OBVIOUS
    <3>3. \/ f = [o EXCEPT !.pick.staff = @ \ {pr}, !.off = @ \cup {pr}]
          \/ f = [o EXCEPT !.pick.staff = @ \cup {pr}, !.off = @ \ {pr}]
      BY <1>1, <2>1, <3>2
    <3>4. /\ f \in Directory!Form /\ f.data = o.data
          /\ \/ f.pick.staff = o.pick.staff \ {pr} /\ f.off = o.off \cup {pr}
             \/ f.pick.staff = o.pick.staff \cup {pr} /\ f.off = o.off \ {pr}
      <4>1. CASE f = [o EXCEPT !.pick.staff = @ \ {pr}, !.off = @ \cup {pr}]
        BY <1>2, <3>1, <4>1 DEF Open, Directory!Form
      <4>2. CASE f = [o EXCEPT !.pick.staff = @ \cup {pr}, !.off = @ \ {pr}]
        BY <1>2, <3>1, <4>2 DEF Open, Directory!Form
      <4>3. QED BY <3>3, <4>1, <4>2
    <3>5. Open(f)
      BY <1>2, <3>4 DEF Open
    <3>6. QED BY <3>2, <3>5, FormNow
  <2>2. ASSUME NEW r \in DOMAIN Directory!Rank, form' = [form EXCEPT !.pick.role = r] PROVE FormOK'
    <3>1. PICK f : f = [o EXCEPT !.pick.role = r]
      OBVIOUS
    <3>2. f \in Directory!Form /\ f.data = o.data /\ f.pick.staff = o.pick.staff /\ f.off = o.off
      BY <1>2, <2>2, <3>1 DEF Open, Directory!Form
    <3>3. QED BY <1>1, <1>2, <2>2, <3>1, <3>2, FormNow DEF Open
  <2>3. QED BY <1>1, <2>1, <2>2 DEF Directory!EditForm
<1>4. events' \in 0 .. MaxEvents
  <2>1. Directory!Event
    BY DEF Directory!EditForm
  <2>2. QED BY <2>1, WorldHere, DirectoryAssumption DEF Directory!Event
<1>5. QED BY <1>3, <1>4, FormInv DEF Directory!EditForm

LEMMA SubmitFormInv == ASSUME DistrictInv, Directory!SubmitForm \/ Directory!ReadUser PROVE DistrictInv'
<1>1. PICK o : o = form
  OBVIOUS
<1>2. Open(o)
  BY <1>1, FormShown DEF Directory!SubmitForm, Directory!ReadUser
<1>3. PICK f : f = form'
  OBVIOUS
<1>4. Open(f)
  <2>1. CASE Directory!SubmitForm
    <3> DEFINE ok == Directory!Rank[o.pick.role] < Directory!Rank[o.data.role]
    <3>1. f = [o EXCEPT !.pc = "read", !.confirmed = ok]
      BY <1>1, <1>3, <2>1 DEF Directory!SubmitForm
    <3>2. ok \in BOOLEAN
      OBVIOUS
    <3> HIDE DEF ok
    <3>3. QED BY <1>2, <3>1, <3>2, FormMoves
  <2>2. CASE Directory!ReadUser
    <3>1. PICK pc \in {"commit", "shown"} : f = [o EXCEPT !.pc = pc]
      BY <1>1, <1>3, <2>2 DEF Directory!ReadUser
    <3>2. QED BY <1>2, <3>1, FormMoves
  <2>3. QED BY <2>1, <2>2
<1>5. QED BY <1>3, <1>4, FormNow, FormInv, WorldHere DEF Directory!SubmitForm, Directory!ReadUser

\* All pages in some steps take note of a race.
LEMMA AllRaced ==
  ASSUME DistrictInv, NEW pcs, "closed" \notin pcs,
         desk' = [q \in Admins |-> IF desk[q].pc \in pcs THEN [desk[q] EXCEPT !.raced = TRUE] ELSE desk[q]],
         "write" \in pcs \/ UNCHANGED role,
         ("roles" \in pcs /\ "write" \in pcs) \/ UNCHANGED active,
         ("unmap" \in pcs /\ "row" \in pcs) \/ UNCHANGED withLeads
  PROVE  /\ DOMAIN desk' = Admins /\ desk' = [q \in Admins |-> desk'[q]]
         /\ \A q \in Admins : PageOK(desk[q])'
<1>1. DOMAIN desk' = Admins /\ desk' = [q \in Admins |-> desk'[q]]
  OBVIOUS
<1>2. ASSUME NEW q \in Admins PROVE PageOK(desk[q])'
  <2>1. PICK g : g = desk[q]
    OBVIOUS
  <2>2. PageOK(g)
    BY <2>1 DEF DistrictInv
  <2>3. CASE g.pc \in pcs
    <3>1. PICK h : h = [g EXCEPT !.raced = TRUE]
      OBVIOUS
    <3>2. h = desk'[q]
      BY <2>1, <2>3, <3>1
    <3>3. g \in Directory!Desk /\ Good(g)
      BY <2>1, <2>3, Shown
    <3>4. QED BY <3>1, <3>2, <3>3, PageRaced, PageNow
  <2>4. CASE g.pc \notin pcs
    <3>1. g = desk'[q]
      BY <2>1, <2>4
    <3>2. /\ g.pc \in {"roles", "write"} /\ g.d \in active' => g.d \in active
          /\ g.pc = "write" => role' = role
          /\ g.pc \in {"unmap", "row"} /\ g.d \in withLeads' => g.d \in withLeads
      BY <2>4
    <3>3. PageOK(g)'
      BY <2>2, <3>2, PageStays
    <3>4. QED BY <3>1, <3>3, PageNow
  <2>5. QED BY <2>3, <2>4
<1>3. QED BY <1>1, <1>2

LEMMA SentTyped ==
  ASSUME DistrictInv, Open(form),
             \A pr \in Directory!Sent : pr[1] \in rows PROVE Directory!Sent \subseteq rows \X Users
BY DEF Open, Directory!Form, Directory!Sent, Directory!Pairs

LEMMA CommitUserInv == ASSUME DistrictInv, Directory!CommitUser PROVE DistrictInv'
<1>1. Open(form)
  BY FormShown DEF Directory!CommitUser
<1>2. PICK o : o = form
  OBVIOUS
<1>3. PICK f : f = form'
  OBVIOUS
<1>4. PICK pc \in {"reload", "shown"} : f = [o EXCEPT !.pc = pc]
  BY <1>2, <1>3 DEF Directory!CommitUser
<1>5. Open(f)
  BY <1>1, <1>2, <1>4, FormMoves
<1>6. FormOK'
  BY <1>3, <1>5, FormNow
<1>7. CASE \A pr \in Directory!Sent : pr[1] \in rows
  <2>1. Directory!Sent \subseteq rows \X Users
    BY <1>1, <1>7, SentTyped
  <2>2. form.u \in Users /\ form.pick.role \in DOMAIN Directory!Rank
    BY <1>1 DEF Open, Directory!Form
  <2>3. /\ role' = [role EXCEPT ![form.u] = form.pick.role] /\ staff' = Directory!Reassigned(form.u,
               Directory!Sent)
        /\ desk' = [q \in Admins |->
             IF desk[q].pc = "write" THEN [desk[q] EXCEPT !.raced = TRUE] ELSE desk[q]]
    BY <1>7 DEF Directory!CommitUser
  <2>4. staff' \subseteq rows \X Users
    BY <2>1, <2>3, StaffThere DEF Directory!Reassigned
  <2>5. role' \in [Users -> DOMAIN Directory!Rank]
    BY <2>2, <2>3, WorldHere DEF World
  <2>6. World'
    BY <2>4, <2>5, WorldHere DEF World, Directory!CommitUser
  <2>7. desk' = [q \in Admins |->
             IF desk[q].pc \in {"write"} THEN [desk[q] EXCEPT !.raced = TRUE] ELSE desk[q]]
    BY <2>3
  <2>8. UNCHANGED <<active, withLeads>> /\ "closed" \notin {"write"} /\ "write" \in {"write"}
    BY DEF Directory!CommitUser
  <2>9. /\ DOMAIN desk' = Admins /\ desk' = [q \in Admins |-> desk'[q]]
        /\ \A q \in Admins : PageOK(desk[q])'
    BY <2>7, <2>8, AllRaced
  <2>10. QED BY <1>6, <2>6, <2>9, PagesInv
<1>8. CASE ~ \A pr \in Directory!Sent : pr[1] \in rows
  BY <1>6, <1>8, FormInv, WorldHere DEF Directory!CommitUser
<1>9. QED BY <1>7, <1>8

-----------------------------------------------------------------------------
(* The script *)

LEMMA CountTyped ==
  ASSUME NEW d PROVE Cardinality(Directory!StaffOf(d)) + (IF d \in withLeads THEN 1 ELSE 0) \in Nat
<1>1. Directory!StaffOf(d) \subseteq Users
  BY DEF Directory!StaffOf
<1>2. Cardinality(Directory!StaffOf(d)) \in Nat
  BY <1>1, DirectoryAssumption, FS_Subset, FS_CardinalityType
<1>3. QED BY <1>2

LEMMA ScriptInv ==
  ASSUME DistrictInv, World', UNCHANGED <<active, role, withLeads, form, desk>> PROVE DistrictInv'
<1>1. DOMAIN desk' = Admins /\ desk' = [q \in Admins |-> desk'[q]]
  BY DEF DistrictInv
<1>2. ASSUME NEW q \in Admins PROVE PageOK(desk[q])'
  <2>1. PICK g : g = desk[q]
    OBVIOUS
  <2>2. PageOK(g)
    BY <2>1 DEF DistrictInv
  <2>3. QED BY <2>1, <2>2, PageStays, PageNow
<1>3. QED BY <1>1, <1>2, PagesInv, FormStays

LEMMA ReadSyncInv == ASSUME DistrictInv, Directory!ReadSync PROVE DistrictInv'
<1>1. PICK refs : refs = [d \in Districts |-> Cardinality(Directory!StaffOf(d)) + (IF d \in withLeads THEN 1 ELSE 0)]
  OBVIOUS
<1>2. refs \in [Districts -> Nat]
  BY <1>1, CountTyped
<1>3. sync' = [pc |-> "read", rows |-> rows, refs |-> refs]
  <2>1. \A S : Directory!Cardinality(S) = Cardinality(S)
    BY DEF Directory!Cardinality, Cardinality
  <2>2. PICK asRead : asRead = [d \in Districts |->
          Directory!Cardinality(Directory!StaffOf(d)) + (IF d \in withLeads THEN 1 ELSE 0)]
    OBVIOUS
  <2>3. asRead = refs
    BY <1>1, <2>1, <2>2
  <2>4. QED BY <2>2, <2>3 DEF Directory!ReadSync
<1>4. sync' \in Directory!Sync
  BY <1>2, <1>3, WorldHere DEF World, Directory!Sync
<1>5. World'
  BY <1>4, WorldHere DEF World, Directory!ReadSync
<1>6. QED BY <1>5, ScriptInv DEF Directory!ReadSync

\* What the script makes of the rows it has read: the rows that take over, those
\* that go, those it adds and those it takes out for good.
Into(best) == [d \in Districts |-> IF d \in sync.rows THEN best[KeyOf[d]] ELSE d]
Old == {k \in Keys : Directory!Group(k) # {}}
Lasting(best) == {best[k] : k \in {l \in Old : Directory!Kept(best[l], l)}}
Gone(best) == sync.rows \ Lasting(best)
Doomed(best) == {best[k] : k \in Old} \ Lasting(best)
Added(fresh) == {fresh[k] : k \in {l \in csv : Directory!Group(l) = {}}}

Synced(best, fresh) ==
  /\ best \in [Keys -> Districts] /\ fresh \in [Keys -> Districts]
  /\ \A k \in Old : Directory!Survives(best[k], k)
  /\ sync.rows \subseteq rows /\ Added(fresh) \cap rows = {}
  /\ Doomed(best) \cap {Into(best)[d] : d \in withLeads} = {}
  /\ rows' = (rows \ Gone(best)) \cup Added(fresh)
  /\ active' = (active \ ({d \in sync.rows : KeyOf[d] \notin csv} \cup Gone(best)))
               \cup Added(fresh) \cup {best[k] : k \in csv \cap Old}
  /\ staff' = {pr \in Directory!Merged(staff, Into(best)) : pr[1] \notin Doomed(best)}
  /\ withLeads' = {Into(best)[d] : d \in withLeads}
  /\ desk' = [q \in Admins |->
       IF desk[q].pc \in {"roles", "write", "unmap", "row"} THEN [desk[q] EXCEPT !.raced = TRUE] ELSE desk[q]]

LEMMA SyncCases ==
  ASSUME Directory!ApplySync
  PROVE  UNCHANGED <<rows, active, staff, withLeads, desk>> \/ \E best, fresh : Synced(best, fresh)
<1>1. PICK best \in [Keys -> Districts], fresh \in [Keys -> Districts] :
        LET fails == \/ ~ sync.rows \subseteq rows
                     \/ Added(fresh) \cap rows # {}
                     \/ Doomed(best) \cap {Into(best)[d] : d \in withLeads} # {}
                     \/ \E k \in csv \cap Old : best[k] \notin Exact
                          /\ \E e \in Exact \cap rows : KeyOf[e] = k
        IN  /\ \A k \in Old : Directory!Survives(best[k], k)
            /\ IF fails THEN UNCHANGED <<rows, active, staff, withLeads, desk>>
               ELSE /\ rows' = (rows \ Gone(best)) \cup Added(fresh)
                    /\ active' = (active \ ({d \in sync.rows : KeyOf[d] \notin csv} \cup Gone(best)))
                         \cup Added(fresh) \cup {best[k] : k \in csv \cap Old}
                    /\ staff' = {pr \in Directory!Merged(staff, Into(best)) : pr[1] \notin Doomed(best)}
                    /\ withLeads' = {Into(best)[d] : d \in withLeads}
                    /\ desk' = [q \in Admins |->
                         IF desk[q].pc \in {"roles", "write", "unmap", "row"}
                           THEN [desk[q] EXCEPT !.raced = TRUE] ELSE desk[q]]
  BY ZenonT(60) DEF Directory!ApplySync, Into, Old, Lasting, Gone, Doomed, Added
<1>2. QED BY <1>1 DEF Synced

\* Where a row goes: it stays, or the row that takes over does, or both are gone.
LEMMA IntoLasts ==
  ASSUME DistrictInv, NEW best, NEW fresh, Synced(best, fresh), NEW d \in rows
  PROVE  /\ Into(best)[d] \in Districts
         /\ Into(best)[d] \in Doomed(best) \/ Into(best)[d] \in rows \ Gone(best)
         /\ d \in sync.rows => /\ KeyOf[d] \in Old /\ KeyOf[Into(best)[d]] = KeyOf[d]
                               /\ Into(best)[d] = best[KeyOf[d]]
         /\ d \notin sync.rows => Into(best)[d] = d
<1>1. d \in Districts /\ sync.rows \subseteq Districts
  BY DEF DistrictInv, World, Directory!Sync
<1>2. CASE d \notin sync.rows
  BY <1>1, <1>2 DEF Into, Gone
<1>3. CASE d \in sync.rows
  <2> DEFINE k == KeyOf[d]
  <2>1. k \in Keys /\ d \in Directory!Group(k)
    BY <1>1, <1>3, DirectoryAssumption DEF Directory!Group
  <2>2. k \in Old
    BY <2>1 DEF Old
  <2>3. best[k] \in Directory!Group(k)
    BY <2>2 DEF Synced, Directory!Survives
  <2>4. Into(best)[d] = best[k]
    BY <1>1, <1>3 DEF Into
  <2>5. best[k] \in sync.rows /\ KeyOf[best[k]] = k /\ best[k] \in rows
    BY <2>3 DEF Directory!Group, Synced
  <2>6. best[k] \in Doomed(best) \/ best[k] \in Lasting(best)
    BY <2>2 DEF Doomed
  <2>7. QED BY <1>1, <1>3, <2>2, <2>4, <2>5, <2>6 DEF Gone
<1>4. QED BY <1>2, <1>3

LEMMA AddedTyped ==
  ASSUME DistrictInv, NEW best, NEW fresh, Synced(best, fresh) PROVE Added(fresh) \subseteq Districts
BY DEF DistrictInv, World, Synced, Added

LEMMA SyncedWorld ==
  ASSUME DistrictInv, Directory!ApplySync, NEW best, NEW fresh, Synced(best, fresh) PROVE World'
<1>1. rows' \subseteq Districts /\ rows \ Gone(best) \subseteq rows' /\ Added(fresh) \subseteq rows'
  BY AddedTyped, WorldHere DEF Synced, World
<1>2. active' \subseteq rows'
  <2>1. ASSUME NEW k \in csv \cap Old PROVE best[k] \in rows'
    <3>1. Directory!Kept(best[k], k)
      BY DEF Directory!Kept
    <3>2. best[k] \in Lasting(best)
      BY <2>1, <3>1 DEF Lasting
    <3>3. best[k] \in rows
      BY <2>1 DEF Synced, Directory!Survives, Directory!Group
    <3>4. QED BY <1>1, <3>2, <3>3 DEF Gone
  <2>2. active \ Gone(best) \subseteq rows'
    BY <1>1, WorldHere DEF World
  <2>3. QED BY <1>1, <2>1, <2>2 DEF Synced
<1>3. withLeads' \subseteq rows'
  <2>1. ASSUME NEW d \in withLeads PROVE Into(best)[d] \in rows'
    <3>1. d \in rows
      BY <2>1, WorldHere DEF World
    <3>2. Into(best)[d] \notin Doomed(best)
      BY <2>1 DEF Synced
    <3>3. QED BY <1>1, <3>1, <3>2, IntoLasts
  <2>2. QED BY <2>1 DEF Synced
<1>4. staff' \subseteq rows' \X Users
  <2>1. ASSUME NEW pr \in staff, Into(best)[pr[1]] \notin Doomed(best)
        PROVE  <<Into(best)[pr[1]], pr[2]>> \in rows' \X Users
    <3>1. pr[1] \in rows /\ pr[2] \in Users
      BY <2>1, StaffThere
    <3>2. QED BY <1>1, <2>1, <3>1, IntoLasts
  <2>2. QED BY <2>1 DEF Synced, Directory!Merged
<1>5. sync' = [sync EXCEPT !.pc = "done"]
  BY DEF Directory!ApplySync
<1>6. sync' \in Directory!Sync
  BY <1>5, WorldHere DEF World, Directory!Sync
<1>7. UNCHANGED <<role, live, csv, events>>
  BY DEF Directory!ApplySync
<1>8. QED BY <1>1, <1>2, <1>3, <1>4, <1>6, <1>7, WorldHere DEF World

LEMMA ApplySyncInv == ASSUME DistrictInv, Directory!ApplySync PROVE DistrictInv'
<1>1. UNCHANGED <<role, live, csv, form, scene, events>> /\ sync' = [sync EXCEPT !.pc = "done"]
  BY DEF Directory!ApplySync
<1>2. CASE UNCHANGED <<rows, active, staff, withLeads, desk>>
  <2>1. sync' \in Directory!Sync
    BY <1>1, WorldHere DEF World, Directory!Sync
  <2>2. World'
    BY <1>1, <1>2, <2>1, WorldHere DEF World
  <2>3. QED BY <1>1, <1>2, <2>2, ScriptInv
<1>3. ASSUME NEW best, NEW fresh, Synced(best, fresh) PROVE DistrictInv'
  <2>1. desk' = [q \in Admins |-> IF desk[q].pc \in {"roles", "write", "unmap", "row"}
                                    THEN [desk[q] EXCEPT !.raced = TRUE] ELSE desk[q]]
    BY <1>3 DEF Synced
  <2>2. /\ DOMAIN desk' = Admins /\ desk' = [q \in Admins |-> desk'[q]]
        /\ \A q \in Admins : PageOK(desk[q])'
    BY <2>1, AllRaced
  <2>3. QED BY <1>1, <1>3, <2>2, SyncedWorld, PagesInv, FormStays
<1>4. QED BY <1>2, <1>3, SyncCases

-----------------------------------------------------------------------------

LEMMA DistrictInit == Directory!Init => DistrictInv
<1> SUFFICES ASSUME Directory!Init PROVE DistrictInv
  OBVIOUS
<1>1. sync.pc = "idle" /\ sync.rows = {} /\ sync.refs = [d \in Districts |-> 0] /\ sync \in Directory!Sync
  BY DEF Directory!Init, Directory!Sync
<1>2. role \in [Users -> DOMAIN Directory!Rank]
  BY DirectoryAssumption, Ranks DEF Directory!Init
<1>3. World
  BY <1>1, <1>2, DirectoryAssumption DEF Directory!Init, World
<1>4. QED BY <1>3 DEF Directory!Init, DistrictInv, FormOK, PageOK

LEMMA DistrictStep == DistrictInv /\ [Directory!Next]_Directory!vars => DistrictInv'
<1> SUFFICES ASSUME DistrictInv, [Directory!Next]_Directory!vars PROVE DistrictInv'
  OBVIOUS
<1>1. CASE UNCHANGED Directory!vars
  <2>1. World'
    BY <1>1, WorldHere DEF World, Directory!vars
  <2>2. QED BY <1>1, <2>1, ScriptInv DEF Directory!vars
<1>2. ASSUME NEW p \in Admins, Directory!DeskStep(p) PROVE DistrictInv'
  BY <1>2, OpenInv, SelectInv, StartInv, CheckInv, WriteInv, SwitchInv, CreateInv, DeleteInv,
     DeleteRowInv DEF Directory!DeskStep
<1>3. CASE Directory!FormStep
  BY <1>3, OpenFormInv, EditFormInv, SubmitFormInv, CommitUserInv DEF Directory!FormStep
<1>4. QED BY <1>1, <1>2, <1>3, ReadSyncInv, ApplySyncInv, RaiseInv, SuspendInv DEF Directory!Next

LEMMA DistrictInvariant == Directory!Spec => []DistrictInv
<1>1. QED BY DistrictInit, DistrictStep, PTL DEF Directory!Spec

\* What every state of the directory is like.
THEOREM DirectoryTyped == Directory!Spec => []Directory!TypeOK
BY DistrictTyped, DistrictInvariant, PTL

\* A request leaves its last statement by that statement only.
LEMMA LastStatement ==
  ASSUME DistrictInv, Directory!Next, NEW p \in Admins, desk[p].pc \in {"write", "row"},
             desk'[p].pc # desk[p].pc
  PROVE  Directory!WriteMappings(p) \/ Directory!DeleteRow(p)
<1>1. desk[p].pc # "closed" /\ desk[p].pc # "shown" /\ DOMAIN desk = Admins
  BY DEF DistrictInv
<1>2. ASSUME NEW q \in Admins, q # p, Directory!DeskStep(q) PROVE FALSE
  <2>1. ASSUME NEW g, desk' = [desk EXCEPT ![q] = g] PROVE FALSE
    BY <1>1, <1>2, <2>1
  <2>2. ASSUME Directory!SwitchDistrict(q) PROVE FALSE
    <3>1. PICK d : desk' = [Directory!Racing({"roles", "write"}, d, desk) EXCEPT ![q].pc = "reload"]
      BY <1>1, <2>2 DEF Directory!SwitchDistrict
    <3>2. desk'[p] = Directory!Racing({"roles", "write"}, d, desk)[p]
      BY <1>2, <3>1, RacingTyped
    <3>3. PICK g : g = desk[p]
      OBVIOUS
    <3>4. g \in Directory!Desk
      BY <1>1, <3>3, Shown
    <3>5. desk'[p] = g \/ desk'[p] = [g EXCEPT !.raced = TRUE]
      BY <3>2, <3>3 DEF Directory!Racing
    <3>6. [g EXCEPT !.raced = TRUE].pc = g.pc
      BY <3>4 DEF Directory!Desk
    <3>7. QED BY <3>3, <3>5, <3>6
  <2>3. ASSUME Directory!Select(q) PROVE FALSE
    <3>1. desk'[p] = desk[p]
      BY <1>1, <1>2, <2>3 DEF Directory!Select
    <3>2. QED BY <3>1
  <2>4. CASE Directory!OpenDesk(q) \/ Directory!ReloadDesk(q)
    BY <2>1, <2>4 DEF Directory!OpenDesk, Directory!ReloadDesk
  <2>5. CASE Directory!CheckDistrict(q) \/ Directory!CheckRoles(q) \/ Directory!WriteMappings(q) \/
            Directory!CreateDistrict(q)
    BY <1>1, <1>2, <2>5 DEF Directory!CheckDistrict, Directory!CheckRoles, Directory!WriteMappings,
                            Directory!CreateDistrict, Directory!Step
  <2>6. CASE Directory!CountLeads(q) \/ Directory!Unmap(q) \/ Directory!DeleteRow(q)
    BY <1>1, <1>2, <2>6 DEF Directory!CountLeads, Directory!Unmap, Directory!DeleteRow,
                            Directory!Step
  <2>7. CASE Directory!Save(q) \/ Directory!StartDelete(q)
    BY <1>1, <1>2, <2>7 DEF Directory!Save, Directory!StartDelete
  <2>8. QED BY <1>2, <2>2, <2>3, <2>4, <2>5, <2>6, <2>7 DEF Directory!DeskStep
<1>3. CASE Directory!DeskStep(p)
  <2>1. desk[p] # Directory!Closed
    BY <1>1 DEF Directory!Closed
  <2>2. ~ Directory!OpenDesk(p) /\ ~ Directory!ReloadDesk(p) /\ ~ Directory!Select(p) /\ ~ Directory!Save(p)
    BY <1>1, <2>1 DEF Directory!OpenDesk, Directory!ReloadDesk, Directory!Select, Directory!Save
  <2>3. ~ Directory!CheckDistrict(p) /\ ~ Directory!CheckRoles(p) /\ ~ Directory!SwitchDistrict(p) /\
            ~ Directory!CreateDistrict(p)
    BY <1>1 DEF Directory!CheckDistrict, Directory!CheckRoles, Directory!SwitchDistrict,
                Directory!CreateDistrict
  <2>4. ~ Directory!StartDelete(p) /\ ~ Directory!CountLeads(p) /\ ~ Directory!Unmap(p)
    BY <1>1 DEF Directory!StartDelete, Directory!CountLeads, Directory!Unmap
  <2>5. QED BY <1>3, <2>2, <2>3, <2>4 DEF Directory!DeskStep
<1>4. ASSUME NEW pcs, desk'[p] = IF desk[p].pc \in pcs THEN [desk[p] EXCEPT !.raced = TRUE] ELSE desk[p]
      PROVE  FALSE
  <2>1. PICK g : g = desk[p]
    OBVIOUS
  <2>2. g \in Directory!Desk
    BY <1>1, <2>1, Shown
  <2>3. [g EXCEPT !.raced = TRUE].pc = g.pc
    BY <2>2 DEF Directory!Desk
  <2>4. QED BY <1>4, <2>1, <2>3
<1>5. CASE Directory!FormStep
  <2>1. CASE Directory!CommitUser
    <3>1. desk' # desk
      OBVIOUS
    <3>2. desk'[p] = IF desk[p].pc \in {"write"} THEN [desk[p] EXCEPT !.raced = TRUE] ELSE desk[p]
      BY <2>1, <3>1 DEF Directory!CommitUser
    <3>3. QED BY <1>4, <3>2
  <2>2. QED BY <1>5, <2>1 DEF Directory!FormStep, Directory!OpenForm, Directory!ReloadForm,
                              Directory!EditForm, Directory!SubmitForm, Directory!ReadUser
<1>6. CASE Directory!ApplySync
  <2>1. PICK best, fresh : Synced(best, fresh)
    BY <1>6, SyncCases
  <2>2. desk'[p] = IF desk[p].pc \in {"roles", "write", "unmap", "row"}
                   THEN [desk[p] EXCEPT !.raced = TRUE] ELSE desk[p]
    BY <2>1 DEF Synced
  <2>3. QED BY <1>4, <2>2
<1>7. CASE Directory!RaiseLead
  <2>1. PICK d : desk' = Directory!Racing({"unmap", "row"}, d, desk)
    BY <1>7 DEF Directory!RaiseLead
  <2>2. PICK g : g = desk[p]
    OBVIOUS
  <2>3. g \in Directory!Desk
    BY <1>1, <2>2, Shown
  <2>4. desk'[p] = g \/ desk'[p] = [g EXCEPT !.raced = TRUE]
    BY <2>1, <2>2 DEF Directory!Racing
  <2>5. [g EXCEPT !.raced = TRUE].pc = g.pc
    BY <2>3 DEF Directory!Desk
  <2>6. QED BY <2>2, <2>4, <2>5
<1>8. CASE Directory!ReadSync \/ Directory!Suspend
  BY <1>8 DEF Directory!ReadSync, Directory!Suspend
<1>9. QED BY <1>2, <1>3, <1>5, <1>6, <1>7, <1>8 DEF Directory!Next

LEMMA ManagedStep ==
  ASSUME DistrictInv, Directory!Next, NEW p \in Admins, desk[p].pc = "write", desk'[p].pc = "reload",
             desk[p].d \in active
  PROVE  Directory!Managed(desk[p].d, staff', role) \/ desk[p].raced
<1> SUFFICES ASSUME ~ desk[p].raced PROVE Directory!Managed(desk[p].d, staff', role)
  OBVIOUS
<1> DEFINE d == desk[p].d  pick == desk[p].pick
<1>1. Directory!WriteMappings(p)
  BY LastStatement DEF Directory!DeleteRow
<1>2. desk[p] \in Directory!Desk /\ Good(desk[p])
  BY Shown
<1>3. PICK pr : pr \in Directory!Of(pick["MANAGER"], d)
  BY <1>2 DEF Good
<1>4. pr[1] = d /\ pr[2] \in Users /\ pr = <<d, pr[2]>>
  BY <1>2, <1>3 DEF Directory!Of, Directory!Desk, Directory!Pairs, Directory!Field
<1>5. role[pr[2]] = "MANAGER"
  BY <1>2, <1>3 DEF Good, Directory!RolesFit, Directory!Field
<1>6. d \in rows
  BY WorldHere DEF World
<1>7. pr \in staff'
  BY <1>1, <1>3, <1>6 DEF Directory!WriteMappings, Directory!Replaced
<1>8. QED BY <1>4, <1>5, <1>7 DEF Directory!Managed

\* Saving the staff of an active district leaves it somebody of the role MANAGER,
\* unless others changed what the request had checked while it was under way.
THEOREM SaveManaged == Directory!Spec => Directory!SaveKeepsManager
<1>1. DistrictInv /\ [Directory!Next]_Directory!vars =>
        [\A p \in Admins :
           desk[p].pc = "write" /\ desk'[p].pc = "reload" /\ desk[p].d \in active
             => Directory!Managed(desk[p].d, staff', role) \/ desk[p].raced]_Directory!vars
  BY ManagedStep
<1>2. QED BY <1>1, DistrictInvariant, PTL DEF Directory!Spec, Directory!SaveKeepsManager

\* The deletion of a district that is refused in the end has left its staff where
\* they were, unless a lead was raised between its statements.
THEOREM DeleteRefused == Directory!Spec => Directory!RefusedDeleteWasRaced
<1>1. ASSUME DistrictInv, Directory!Next, NEW p \in Admins, desk[p].pc = "row", desk'[p].pc = "shown",
          desk[p].d \in rows
      PROVE  desk[p].raced
  <2>1. Directory!DeleteRow(p)
    BY <1>1, LastStatement DEF Directory!WriteMappings
  <2>2. Good(desk[p]) /\ DOMAIN desk = Admins
    BY <1>1, Shown DEF DistrictInv
  <2>3. ASSUME desk[p].d \notin withLeads PROVE FALSE
    <3>1. desk' = [desk EXCEPT ![p].pc = "reload"]
      BY <1>1, <2>1, <2>3 DEF Directory!DeleteRow, Directory!Step
    <3>2. desk[p] \in Directory!Desk
      BY <1>1, Shown
    <3>3. PICK g : g = desk[p]
      OBVIOUS
    <3>4. desk'[p] = [g EXCEPT !.pc = "reload"] /\ g \in Directory!Desk
      BY <2>2, <3>1, <3>2, <3>3
    <3>5. desk'[p].pc = "reload"
      BY <3>4 DEF Directory!Desk
    <3>6. QED BY <1>1, <3>5
  <2>4. QED BY <1>1, <2>2, <2>3 DEF Good
<1>2. DistrictInv /\ [Directory!Next]_Directory!vars =>
        [\A p \in Admins :
           desk[p].pc = "row" /\ desk'[p].pc = "shown" /\ desk[p].d \in rows => desk[p].raced]_Directory!vars
  BY <1>1
<1>3. QED BY <1>2, DistrictInvariant, PTL DEF Directory!Spec, Directory!RefusedDeleteWasRaced

\* Who goes with a statement of a request.
LEMMA DroppedByDesk ==
  ASSUME DistrictInv, NEW p \in Admins, Directory!DeskStep(p), NEW pr \in staff \ staff'
  PROVE  /\ \/ desk[p].pc = "write" /\ (pr \in desk[p].off \/ pr \notin desk[p].data.staff)
            \/ desk[p].pc \in {"unmap", "row"}
         /\ desk[p].d = pr[1]
<1>1. Directory!WriteMappings(p) \/ Directory!Unmap(p) \/ Directory!DeleteRow(p)
  BY DEF Directory!DeskStep, Directory!OpenDesk, Directory!ReloadDesk, Directory!Select,
         Directory!Save, Directory!CheckDistrict, Directory!CheckRoles, Directory!SwitchDistrict,
         Directory!CreateDistrict, Directory!StartDelete, Directory!CountLeads
<1>2. CASE Directory!WriteMappings(p)
  <2>1. desk[p].pc = "write" /\ staff' = Directory!Replaced(desk[p].d, desk[p].pick)
    BY <1>2 DEF Directory!WriteMappings
  <2>2. Good(desk[p])
    BY <2>1, Shown
  <2>3. pr[1] = desk[p].d /\ pr \notin desk[p].pick["MANAGER"] /\ pr \notin desk[p].pick["EXECUTIVE"]
    BY <2>1 DEF Directory!Replaced, Directory!Of
  <2>4. QED BY <2>1, <2>2, <2>3 DEF Good
<1>3. CASE Directory!Unmap(p) \/ Directory!DeleteRow(p)
  BY <1>3 DEF Directory!Unmap, Directory!DeleteRow, Directory!Of
<1>4. QED BY <1>1, <1>2, <1>3

LEMMA DroppedByForm ==
  ASSUME DistrictInv, Directory!FormStep, NEW pr \in staff \ staff'
  PROVE  /\ form.pc = "commit" /\ form.u = pr[2]
         /\ pr \in form.off \/ pr \notin form.data.staff \/ role'[pr[2]] \notin Directory!Field
<1>1. Directory!CommitUser
  BY DEF Directory!FormStep, Directory!OpenForm, Directory!ReloadForm, Directory!EditForm,
         Directory!SubmitForm, Directory!ReadUser
<1>2. Open(form) /\ form.pc = "commit"
  BY <1>1, FormShown DEF Directory!CommitUser
<1>3. staff' = Directory!Reassigned(form.u, Directory!Sent) /\ role' = [role EXCEPT ![form.u] = form.pick.role]
  BY <1>1 DEF Directory!CommitUser
<1>4. pr[2] = form.u /\ pr \notin Directory!Sent
  BY <1>3 DEF Directory!Reassigned
<1>5. role'[pr[2]] = form.pick.role
  BY <1>2, <1>3, <1>4, WorldHere DEF Open, Directory!Form, World
<1>6. QED BY <1>2, <1>4, <1>5 DEF Open, Directory!Sent

LEMMA DroppedBySync ==
  ASSUME DistrictInv, Directory!ApplySync, NEW pr \in staff \ staff'
  PROVE  /\ pr[1] \notin rows'
         /\ \/ \E d \in rows' : KeyOf[d] = KeyOf[pr[1]] /\ <<d, pr[2]>> \in staff'
            \/ sync.pc = "read" /\ Directory!Group(KeyOf[pr[1]]) # {}
                 /\ \A d \in Directory!Group(KeyOf[pr[1]]) : sync.refs[d] = 0
<1>1. PICK best, fresh : Synced(best, fresh)
  BY SyncCases
<1>2. PICK d : d = pr[1]
  OBVIOUS
<1>3. d \in rows /\ pr[2] \in Users /\ pr = <<d, pr[2]>>
  BY <1>2, StaffThere
<1>4. PICK to : to = Into(best)[d]
  OBVIOUS
<1>5. <<to, pr[2]>> \in Directory!Merged(staff, Into(best))
  BY <1>2, <1>4 DEF Directory!Merged
<1>6. to \notin Doomed(best) => <<to, pr[2]>> \in staff'
  BY <1>1, <1>5 DEF Synced
<1>7. d \in sync.rows /\ KeyOf[d] \in Old /\ KeyOf[to] = KeyOf[d] /\ to = best[KeyOf[d]]
  <2>1. CASE d \in sync.rows
    BY <1>1, <1>3, <1>4, <2>1, IntoLasts
  <2>2. CASE d \notin sync.rows
    <3>1. to = d /\ to \notin Doomed(best)
      <4>1. to = d
        BY <1>1, <1>3, <1>4, <2>2, IntoLasts
      <4>2. Doomed(best) \subseteq sync.rows
        BY <1>1 DEF Doomed, Synced, Directory!Survives, Directory!Group
      <4>3. QED BY <2>2, <4>1, <4>2
    <3>2. QED BY <1>3, <1>6, <3>1
  <2>3. QED BY <2>1, <2>2
<1>8. d \notin Lasting(best)
  <2>1. SUFFICES ASSUME d \in Lasting(best) PROVE FALSE
    OBVIOUS
  <2>2. PICK k \in Old : d = best[k]
    BY <2>1 DEF Lasting
  <2>3. KeyOf[d] = k
    BY <1>1, <2>2 DEF Synced, Directory!Survives, Directory!Group
  <2>4. to = d
    BY <1>7, <2>2, <2>3
  <2>5. QED BY <1>3, <1>6, <2>1, <2>4 DEF Doomed
<1>9. d \notin rows'
  BY <1>1, <1>3, <1>7, <1>8 DEF Synced, Gone
<1>10. CASE to \notin Doomed(best)
  <2>1. to \in rows'
    BY <1>1, <1>3, <1>4, <1>10, IntoLasts DEF Synced
  <2>2. QED BY <1>2, <1>6, <1>7, <1>9, <1>10, <2>1
<1>11. CASE to \in Doomed(best)
  <2>1. ~ Directory!Kept(to, KeyOf[d])
    BY <1>7, <1>11 DEF Doomed, Lasting
  <2>2. sync.refs \in [Districts -> Nat] /\ sync.rows \subseteq Districts
    BY WorldHere DEF World, Directory!Sync
  <2>3. \A e \in Directory!Group(KeyOf[d]) : sync.refs[e] = 0
    BY <2>1, <2>2 DEF Directory!Kept, Directory!Group
  <2>4. QED BY <1>2, <1>7, <1>9, <2>3 DEF Directory!ApplySync, Directory!Group
<1>12. QED BY <1>10, <1>11

\* Nobody is dropped from a district but by a selection that left him out, by a page
\* that had not shown him, with the district, or with a role that has no districts;
\* and the script leaves everybody in the row that took over.
THEOREM DroppedKnowingly == Directory!Spec => Directory!DroppedOnPurpose
<1>1. ASSUME DistrictInv, Directory!Next, NEW pr \in staff \ staff'
      PROVE  \/ \E p \in Admins :
                 /\ \/ desk[p].pc = "write" /\ (pr \in desk[p].off \/ pr \notin desk[p].data.staff)
                    \/ desk[p].pc \in {"unmap", "row"}
                 /\ desk[p].d = pr[1]
             \/ /\ form.pc = "commit" /\ form.u = pr[2]
                /\ pr \in form.off \/ pr \notin form.data.staff \/ role'[pr[2]] \notin Directory!Field
             \/ /\ pr[1] \notin rows'
                /\ \/ \E d \in rows' : KeyOf[d] = KeyOf[pr[1]] /\ <<d, pr[2]>> \in staff'
                   \/ sync.pc = "read" /\ Directory!Group(KeyOf[pr[1]]) # {}
                        /\ \A d \in Directory!Group(KeyOf[pr[1]]) : sync.refs[d] = 0
  <2>1. ~ Directory!ReadSync /\ ~ Directory!RaiseLead /\ ~ Directory!Suspend
    BY <1>1 DEF Directory!ReadSync, Directory!RaiseLead, Directory!Suspend
  <2>2. QED BY <1>1, <2>1, DroppedByDesk, DroppedByForm, DroppedBySync DEF Directory!Next
<1>2. DistrictInv /\ [Directory!Next]_Directory!vars => [\A pr \in staff \ staff' :
             \/ \E p \in Admins :
                 /\ \/ desk[p].pc = "write" /\ (pr \in desk[p].off \/ pr \notin desk[p].data.staff)
                    \/ desk[p].pc \in {"unmap", "row"}
                 /\ desk[p].d = pr[1]
             \/ form.pc = "commit" /\ form.u = pr[2]
                /\ (pr \in form.off \/ pr \notin form.data.staff \/ role'[pr[2]] \notin Directory!Field)
             \/ /\ pr[1] \notin rows'
                /\ \/ \E d \in rows' : KeyOf[d] = KeyOf[pr[1]] /\ <<d, pr[2]>> \in staff'
                   \/ sync.pc = "read" /\ Directory!Group(KeyOf[pr[1]]) # {}
                        /\ \A d \in Directory!Group(KeyOf[pr[1]]) : sync.refs[d] = 0]_Directory!vars
  BY <1>1
<1>3. QED BY <1>2, DistrictInvariant, PTL DEF Directory!Spec, Directory!DroppedOnPurpose

-----------------------------------------------------------------------------
(* The order of the statuses (StatusWorkflow), for every number of            *)
(* administrators, statuses and moves                                         *)

\* The sizes and bijections that StatusWorkflow uses are those of the theorems.
LEMMA SameWords ==
  /\ \A S : Workflow!Cardinality(S) = Cardinality(S)
  /\ \A S, T : Workflow!Bijection(S, T) = Bijection(S, T)
BY DEF Workflow!Cardinality, Cardinality, Workflow!Bijection, Workflow!Injection,
       Workflow!Surjection, Workflow!IsInjective, Bijection, Injection, Surjection, IsInjective

Numbering(index) == DOMAIN index \subseteq 1 .. made /\ index \in [DOMAIN index -> 1 .. made]

\* A list that is being written, from its first row on.
Writing(t) ==
  /\ Len(t.ids) <= made /\ t.at \in 1 .. Len(t.ids) + 1
  /\ \A i, j \in 1 .. Len(t.ids) : t.ids[i] = t.ids[j] => i = j
  /\ \E i \in 1 .. Len(t.ids) : t.ids[i] = t.id
  /\ DOMAIN t.mine = {t.id} \cup {t.ids[i] : i \in 1 .. t.at - 1}
  /\ \A i \in 1 .. t.at - 1 : t.mine[t.ids[i]] = i
  /\ t.pc = "write" <=> t.at <= Len(t.ids)

TxOK(t) ==
  /\ t \in [pc : {"create", "lock", "list", "write", "commit"}, id : 0 .. made, new : BOOLEAN,
            target : 0 .. MaxStatuses, ids : Seq(1 .. made), at : Nat, mine : Workflow!Numbered]
  /\ Numbering(t.mine)
  /\ ~ t.new => t.id \in DOMAIN order /\ t.target # 0 /\ t.pc # "create"
  /\ t.pc = "lock" => ~ t.new
  /\ t.pc \in {"lock", "create"} => DOMAIN t.mine = {}
  /\ t.pc \in {"lock", "create", "list"} => t.at = 1
  /\ t.new /\ t.target = 0 => t.pc \in {"create", "commit"}
  /\ t.pc = "list" => DOMAIN t.mine = {t.id}
  /\ t.pc = "commit" /\ t.new /\ t.target = 0 => DOMAIN t.mine = {t.id}
  /\ t.pc \in {"write", "commit"} /\ ~ (t.new /\ t.target = 0) => Writing(t)

Creating == {v \in Writers : tx[v].pc = "create"}

Typed ==
  /\ made \in 1 .. MaxStatuses /\ made + Cardinality(Creating) <= MaxStatuses
  /\ Numbering(order) /\ clashed \in BOOLEAN
  /\ DOMAIN shown = Writers /\ shown = [w \in Writers |-> shown[w]]
  /\ \A w \in Writers : DOMAIN shown[w] \subseteq DOMAIN order /\ shown[w] \in [DOMAIN shown[w] -> Nat]
  /\ DOMAIN tx = Writers /\ tx = [w \in Writers |-> tx[w]]
  /\ \A w \in Writers : tx[w] = Workflow!Idle \/ TxOK(tx[w])
  /\ \A v, w \in Writers : v # w /\ Workflow!Idle \notin {tx[v], tx[w]}
       => DOMAIN tx[v].mine \cap DOMAIN tx[w].mine = {}

Size == Cardinality(DOMAIN order)
Below(n) == {s \in DOMAIN order : order[s] <= n}
Items(ids) == {ids[i] : i \in 1 .. Len(ids)}

Gapless ==
  /\ \A s, t \in DOMAIN order : order[s] = order[t] => s = t
  /\ {order[s] : s \in DOMAIN order} = 1 .. Size

\* What a transaction claims of the rows, and keeps others from changing.
Claim(t) ==
  /\ ~ t.new /\ t.pc \in {"write", "commit"} => Len(t.ids) <= Size /\ Items(t.ids) = Below(Len(t.ids))
  /\ t.new /\ t.pc # "create" => t.id \notin DOMAIN order
  /\ t.new /\ t.target = 0 /\ t.pc = "commit" => t.mine[t.id] = Size + 1
  /\ t.new /\ t.target # 0 /\ t.pc \in {"write", "commit"} => Items(t.ids) = DOMAIN order \cup {t.id}

Single ==
  \A v, w \in Writers : v # w /\ Workflow!Creates(v) /\ tx[w] # Workflow!Idle => ~ tx[w].new /\ tx[v].target = 0

Serial ==
  clashed \/ (Gapless /\ Single /\ \A w \in Writers : tx[w] = Workflow!Idle \/ Claim(tx[w]))

StatusInv == Typed /\ Serial

-----------------------------------------------------------------------------
(* Lists *)

LEMMA Overrides ==
  ASSUME NEW f, NEW g PROVE
    /\ DOMAIN Workflow!Over(f, g) = DOMAIN f \cup DOMAIN g
    /\ \A x \in DOMAIN f \cup DOMAIN g : Workflow!Over(f, g)[x] = IF x \in DOMAIN f THEN f[x] ELSE g[x]
    /\ Workflow!Over(f, g) \in [DOMAIN f \cup DOMAIN g -> {Workflow!Over(f, g)[x] : x \in DOMAIN f \cup
           DOMAIN g}]
BY DEF Workflow!Over

LEMMA Singly ==
  ASSUME NEW a, NEW b PROVE DOMAIN Workflow!Row(a, b) = {a} /\ Workflow!Row(a, b)[a] = b /\ Workflow!Row(a,
             b) \in [{a} -> {b}]
BY DEF Workflow!Row

LEMMA MinOfTwo ==
  ASSUME NEW a \in Nat, NEW b \in Nat PROVE Workflow!Min({a, b}) = IF a <= b THEN a ELSE b
<1>1. PICK c : c = IF a <= b THEN a ELSE b
  OBVIOUS
<1>2. c \in {a, b} /\ \A y \in {a, b} : c <= y
  BY <1>1
<1>3. \A z \in {a, b} : (\A y \in {a, b} : z <= y) => z = c
  BY <1>2
<1>4. Workflow!Min({a, b}) = c
  BY <1>2, <1>3 DEF Workflow!Min
<1>5. QED BY <1>1, <1>4

LEMMA Removed ==
  ASSUME NEW S, NEW ids \in Seq(S), NEW from \in 1 .. Len(ids)
  PROVE  /\ Workflow!RemoveAt(ids, from) \in Seq(S) /\ Len(Workflow!RemoveAt(ids, from)) = Len(ids) - 1
         /\ \A i \in 1 .. Len(ids) - 1 :
              Workflow!RemoveAt(ids, from)[i] = IF i < from THEN ids[i] ELSE ids[i + 1]
<1>1. Len(ids) \in Nat
  OBVIOUS
<1>2. SubSeq(ids, 1, from - 1) \in Seq(S) /\ SubSeq(ids, from + 1, Len(ids)) \in Seq(S)
      /\ Len(SubSeq(ids, 1, from - 1)) = from - 1 /\ Len(SubSeq(ids, from + 1, Len(ids))) = Len(ids) - from
  BY <1>1
<1>3. PICK a \in Seq(S) : a = SubSeq(ids, 1, from - 1)
  BY <1>2
<1>4. PICK b \in Seq(S) : b = SubSeq(ids, from + 1, Len(ids))
  BY <1>2
<1>5. /\ Len(a) = from - 1 /\ Len(b) = Len(ids) - from
      /\ \A i \in 1 .. from - 1 : a[i] = ids[i]
      /\ \A i \in 1 .. Len(ids) - from : b[i] = ids[from + i]
  <2>1. Len(a) = from - 1 /\ Len(b) = Len(ids) - from
    BY <1>2, <1>3, <1>4
  <2>2. \A i \in 1 .. from - 1 : a[i] = ids[i]
    BY <1>1, <1>3
  <2>3. \A i \in 1 .. Len(ids) - from : b[i] = ids[from + i]
    BY <1>1, <1>4
  <2>4. QED BY <2>1, <2>2, <2>3
<1>6. Workflow!RemoveAt(ids, from) = a \o b
  BY <1>3, <1>4 DEF Workflow!RemoveAt
<1>7. /\ a \o b \in Seq(S) /\ Len(a \o b) = Len(a) + Len(b)
      /\ \A i \in 1 .. Len(a) + Len(b) : (a \o b)[i] = IF i <= Len(a) THEN a[i] ELSE b[i - Len(a)]
  BY ConcatProperties
<1>8. QED BY <1>1, <1>5, <1>6, <1>7

\* A list with an item put in at a place.
Inserts(r, ids, to, s, S) ==
  /\ r \in Seq(S) /\ Len(r) = Len(ids) + 1
  /\ \A i \in 1 .. Len(ids) + 1 : r[i] = IF i < to THEN ids[i] ELSE IF i = to THEN s ELSE ids[i - 1]

LEMMA Inserted ==
  ASSUME NEW S, NEW ids \in Seq(S), NEW to \in 1 .. Len(ids) + 1, NEW s \in S
  PROVE  Inserts(Workflow!InsertAt(ids, to, s), ids, to, s, S)
<1>1. Len(ids) \in Nat
  OBVIOUS
<1>2. SubSeq(ids, 1, to - 1) \in Seq(S) /\ SubSeq(ids, to, Len(ids)) \in Seq(S)
      /\ Len(SubSeq(ids, 1, to - 1)) = to - 1 /\ Len(SubSeq(ids, to, Len(ids))) = Len(ids) - to + 1
  BY <1>1
<1>3. PICK a \in Seq(S) : a = SubSeq(ids, 1, to - 1)
  BY <1>2
<1>4. PICK b \in Seq(S) : b = SubSeq(ids, to, Len(ids))
  BY <1>2
<1>5. /\ Len(a) = to - 1 /\ Len(b) = Len(ids) - to + 1
      /\ \A i \in 1 .. to - 1 : a[i] = ids[i]
      /\ \A i \in 1 .. Len(ids) - to + 1 : b[i] = ids[to + i - 1]
  <2>1. Len(a) = to - 1 /\ Len(b) = Len(ids) - to + 1
    BY <1>2, <1>3, <1>4
  <2>2. \A i \in 1 .. to - 1 : a[i] = ids[i]
    BY <1>1, <1>3
  <2>3. \A i \in 1 .. Len(ids) - to + 1 : b[i] = ids[to + i - 1]
    BY <1>1, <1>4
  <2>4. QED BY <2>1, <2>2, <2>3
<1>6. PICK c \in Seq(S) : c = <<s>> /\ Len(c) = 1 /\ c[1] = s
  <2>1. <<s>> \in Seq(S) /\ Len(<<s>>) = 1 /\ <<s>>[1] = s
    OBVIOUS
  <2>2. QED BY <2>1
<1>7. Workflow!InsertAt(ids, to, s) = (a \o c) \o b
  BY <1>3, <1>4, <1>6 DEF Workflow!InsertAt
<1>8. /\ a \o c \in Seq(S) /\ Len(a \o c) = to
      /\ \A i \in 1 .. to : (a \o c)[i] = IF i <= to - 1 THEN a[i] ELSE s
  <2>1. /\ a \o c \in Seq(S) /\ Len(a \o c) = Len(a) + Len(c)
        /\ \A i \in 1 .. Len(a) + Len(c) : (a \o c)[i] = IF i <= Len(a) THEN a[i] ELSE c[i - Len(a)]
    BY ConcatProperties
  <2>2. QED BY <1>5, <1>6, <2>1
<1>9. PICK e \in Seq(S) : e = a \o c
  BY <1>8
<1>10. /\ e \o b \in Seq(S) /\ Len(e \o b) = Len(e) + Len(b)
       /\ \A i \in 1 .. Len(e) + Len(b) : (e \o b)[i] = IF i <= Len(e) THEN e[i] ELSE b[i - Len(e)]
  BY ConcatProperties
<1>11. Len(e) = to /\ Len(e) + Len(b) = Len(ids) + 1
  <2>1. Len(e) = to
    BY <1>8, <1>9
  <2>2. Len(b) = Len(ids) - to + 1
    BY <1>5
  <2>3. QED BY <1>1, <2>1, <2>2
<1>12. ASSUME NEW i \in 1 .. Len(ids) + 1
       PROVE  (e \o b)[i] = IF i < to THEN ids[i] ELSE IF i = to THEN s ELSE ids[i - 1]
  <2>0. i \in Nat /\ to \in Nat
    BY <1>1
  <2>1. (e \o b)[i] = IF i <= to THEN e[i] ELSE b[i - to]
    BY <1>10, <1>11
  <2>2. CASE i <= to
    <3>1. e[i] = IF i <= to - 1 THEN a[i] ELSE s
      BY <1>8, <1>9, <2>2
    <3>2. i < to => a[i] = ids[i]
      BY <1>1, <1>5, <2>2
    <3>3. CASE i < to
      <4>1. e[i] = a[i]
        BY <1>1, <3>1, <3>3
      <4>2. (e \o b)[i] = ids[i]
        BY <2>1, <2>2, <3>2, <3>3, <4>1
      <4>3. QED BY <3>3, <4>2
    <3>4. CASE i = to
      <4>1. e[i] = s
        BY <1>1, <3>1, <3>4
      <4>2. ~ (i < to)
        BY <1>1, <3>4
      <4>3. (e \o b)[i] = s
        BY <2>1, <2>2, <4>1
      <4>4. QED BY <3>4, <4>2, <4>3
    <3>5. i < to \/ i = to
      BY <2>0, <2>2
    <3>6. QED BY <3>3, <3>4, <3>5
  <2>3. CASE i > to
    <3>1. i - to \in 1 .. Len(ids) - to + 1 /\ to + (i - to) - 1 = i - 1
      BY <1>1, <2>3
    <3>2. b[i - to] = ids[i - 1]
      BY <1>5, <3>1
    <3>3. QED BY <2>1, <2>3, <3>2
  <2>4. i <= to \/ i > to
    BY <2>0
  <2>5. QED BY <2>2, <2>3, <2>4
<1>13. Inserts(e \o b, ids, to, s, S)
  <2>1. e \o b \in Seq(S) /\ Len(e \o b) = Len(ids) + 1
    BY <1>10, <1>11
  <2>2. QED BY <1>12, <2>1 DEF Inserts
<1>14. Workflow!InsertAt(ids, to, s) = e \o b
  BY <1>7, <1>9
<1>15. QED BY <1>13, <1>14

\* What repositionStatus writes is the same list, in another order.
Rearranges(r, n, S) ==
  /\ r \in Seq(S) /\ Len(r) = n
  /\ \A i, j \in 1 .. n : r[i] = r[j] => i = j
  /\ \A t \in S : \E i \in 1 .. n : r[i] = t

LEMMA Repositions ==
  ASSUME NEW S, NEW n \in Nat, NEW ids \in Bijection(1 .. n, S), NEW s \in S, NEW target \in Nat \ {0}
  PROVE  Rearranges(Workflow!Repositioned(ids, s, target), n, S)
<1>0. PICK r : r = Workflow!Repositioned(ids, s, target)
  OBVIOUS
<1>1. /\ ids \in Seq(S) /\ Len(ids) = n /\ DOMAIN ids = 1 .. n
      /\ \A i, j \in 1 .. n : ids[i] = ids[j] => i = j
      /\ \A t \in S : \E i \in 1 .. n : ids[i] = t
  <2>1. ids \in [1 .. n -> S] /\ DOMAIN ids = 1 .. n
    BY DEF Bijection, Injection
  <2>2. ids \in Seq(S)
    BY <2>1, SeqDef
  <2>3. Len(ids) = n
    BY <2>1, <2>2, LenProperties
  <2>4. QED BY <2>1, <2>2, <2>3 DEF Bijection, Injection, Surjection, IsInjective
<1>2. PICK from : from = CHOOSE i \in DOMAIN ids : ids[i] = s
  OBVIOUS
<1>3. from \in 1 .. n /\ ids[from] = s
  BY <1>1, <1>2
<1>4. PICK to : to = Workflow!Min({target, Len(ids)})
  OBVIOUS
<1>5. to \in 1 .. n
  BY <1>1, <1>3, <1>4, MinOfTwo
<1>6. PICK rest : rest = Workflow!RemoveAt(ids, from)
  OBVIOUS
<1>7. /\ rest \in Seq(S) /\ Len(rest) = n - 1
      /\ \A i \in 1 .. n - 1 : rest[i] = IF i < from THEN ids[i] ELSE ids[i + 1]
  <2>1. ids \in Seq(S) /\ from \in 1 .. Len(ids) /\ Len(ids) = n
    BY <1>1, <1>3
  <2>2. QED BY <1>6, <2>1, Removed
<1>8. r = Workflow!InsertAt(rest, to, s)
  BY <1>0, <1>2, <1>4, <1>6 DEF Workflow!Repositioned
<1>9. /\ r \in Seq(S) /\ Len(r) = n
      /\ \A i \in 1 .. n : r[i] = IF i < to THEN rest[i] ELSE IF i = to THEN s ELSE rest[i - 1]
  <2>1. n \in Nat /\ to \in 1 .. Len(rest) + 1
    BY <1>5, <1>7
  <2>2. Inserts(r, rest, to, s, S)
    <3>1. rest \in Seq(S) /\ s \in S /\ to \in 1 .. Len(rest) + 1
      BY <1>7, <2>1
    <3>2. Inserts(Workflow!InsertAt(rest, to, s), rest, to, s, S)
      BY <3>1, Inserted
    <3>3. QED BY <1>8, <3>2
  <2>3. Len(rest) + 1 = n
    BY <1>7, <2>1
  <2>4. QED BY <2>2, <2>3 DEF Inserts
<1>10. ASSUME NEW i \in 1 .. n, i # to
       PROVE  \E l \in 1 .. n - 1, k \in 1 .. n :
                /\ l = IF i < to THEN i ELSE i - 1
                /\ k = IF l < from THEN l ELSE l + 1
                /\ k # from /\ r[i] = ids[k]
  <2>1. PICK l : l = IF i < to THEN i ELSE i - 1
    OBVIOUS
  <2>2. l \in 1 .. n - 1 /\ r[i] = rest[l]
    BY <1>5, <1>9, <1>10, <2>1
  <2>3. PICK k : k = IF l < from THEN l ELSE l + 1
    OBVIOUS
  <2>4. k \in 1 .. n /\ k # from /\ rest[l] = ids[k]
    BY <1>3, <1>7, <2>2, <2>3
  <2>5. QED BY <2>1, <2>2, <2>3, <2>4
<1>11. \A i, j \in 1 .. n : r[i] = r[j] => i = j
  <2>1. ASSUME NEW i \in 1 .. n, NEW j \in 1 .. n, r[i] = r[j], i # to, j # to PROVE i = j
    <3>1. PICK l \in 1 .. n - 1, k \in 1 .. n :
            /\ l = IF i < to THEN i ELSE i - 1
            /\ k = IF l < from THEN l ELSE l + 1
            /\ r[i] = ids[k]
      BY <1>10, <2>1
    <3>2. PICK l2 \in 1 .. n - 1, k2 \in 1 .. n :
            /\ l2 = IF j < to THEN j ELSE j - 1
            /\ k2 = IF l2 < from THEN l2 ELSE l2 + 1
            /\ r[j] = ids[k2]
      BY <1>10, <2>1
    <3>3. k = k2
      <4>1. ids[k] = ids[k2]
        BY <2>1, <3>1, <3>2
      <4>2. QED BY <1>1, <4>1
    <3>4. l = l2
      BY <1>3, <3>1, <3>2, <3>3
    <3>5. QED BY <1>5, <2>1, <3>1, <3>2, <3>4
  <2>2. ASSUME NEW i \in 1 .. n, i # to PROVE r[i] # r[to]
    <3>1. PICK k \in 1 .. n : k # from /\ r[i] = ids[k]
      BY <1>10, <2>2
    <3>2. r[to] = ids[from]
      BY <1>3, <1>5, <1>9
    <3>3. QED BY <1>1, <1>3, <3>1, <3>2
  <2>3. QED BY <2>1, <2>2
<1>12. ASSUME NEW t \in S PROVE \E i \in 1 .. n : r[i] = t
  <2>1. PICK k \in 1 .. n : ids[k] = t
    BY <1>1
  <2>2. CASE k = from
    <3>1. s = t
      BY <1>3, <2>1, <2>2
    <3>2. r[to] = s
      BY <1>5, <1>9
    <3>3. QED BY <1>5, <3>1, <3>2
  <2>3. CASE k # from
    <3>1. PICK l \in 1 .. n - 1 : rest[l] = t
      <4>1. CASE k < from
        BY <1>3, <1>7, <2>1, <4>1
      <4>2. CASE k > from
        <5>1. k - 1 \in 1 .. n - 1 /\ ~ (k - 1 < from) /\ rest[k - 1] = ids[k]
          BY <1>3, <1>7, <4>2
        <5>2. QED BY <2>1, <5>1
      <4>3. QED BY <1>3, <2>3, <4>1, <4>2
    <3>2. CASE l < to
      BY <1>5, <1>9, <3>1, <3>2
    <3>3. CASE l >= to
      <4>1. l + 1 \in 1 .. n /\ r[l + 1] = rest[l]
        BY <1>5, <1>9, <3>3
      <4>2. QED BY <3>1, <4>1
    <3>4. QED BY <1>5, <3>2, <3>3
  <2>4. QED BY <2>2, <2>3
<1>13. QED BY <1>0, <1>9, <1>11, <1>12 DEF Rearranges

-----------------------------------------------------------------------------
(* Sizes *)

LEMMA MaxExists ==
  ASSUME NEW T, T \subseteq Int, IsFiniteSet(T), T # {}
  PROVE  Workflow!Max(T) \in T /\ \A y \in T : Workflow!Max(T) >= y
<1> DEFINE Above(x) == {y \in T : y > x}
           F == {Above(x) : x \in T}
<1>1. F \subseteq FiniteSubsetsOf(T) /\ F # {}
  <2>1. \A x \in T : Above(x) \in SUBSET T /\ IsFiniteSet(Above(x))
    BY FS_Subset
  <2>2. QED BY <2>1 DEF FiniteSubsetsOf
<1>2. IsWellFoundedOn(StrictSubsetOrdering(T), FiniteSubsetsOf(T))
  BY FS_StrictSubsetOrderingWellFounded
<1>3. PICK U \in F : \A V \in F : ~ (<<V, U>> \in StrictSubsetOrdering(T))
  BY <1>1, <1>2, WFMin
<1>4. PICK x \in T : U = Above(x)
  BY <1>3
<1>5. Above(x) = {}
  <2>1. SUFFICES ASSUME NEW y \in Above(x) PROVE FALSE
    OBVIOUS
  <2>a. y \in T /\ y \in Int /\ x \in Int
    OBVIOUS
  <2>b. Above(y) \in F
    BY <2>a
  <2>c. y > x /\ ~ (y > y) /\ \A z \in Int : z > y => z > x
    BY <2>a, <2>1
  <2>d. Above(y) \subseteq Above(x)
    BY <2>c
  <2>2. Above(y) \in F /\ Above(y) \subseteq Above(x) /\ y \in Above(x) /\ y \notin Above(y)
    BY <2>1, <2>b, <2>c, <2>d
  <2>3. <<Above(y), Above(x)>> \in StrictSubsetOrdering(T)
    BY <2>2 DEF StrictSubsetOrdering
  <2>4. QED BY <1>3, <1>4, <2>2, <2>3
<1>6. \A y \in T : x >= y
  BY <1>5
<1>7. QED BY <1>6 DEF Workflow!Max

LEMMA NextIs ==
  ASSUME NEW n \in Nat, NEW D, NEW f \in [D -> 1 .. n]
  PROVE  /\ Workflow!NextIndex(f) \in 1 .. n + 1
         /\ {f[s] : s \in D} = 1 .. n => Workflow!NextIndex(f) = n + 1
<1>1. PICK T : T = {f[s] : s \in D} \cup {0}
  OBVIOUS
<1>2. T \subseteq 0 .. n /\ T # {} /\ DOMAIN f = D
  BY <1>1
<1>3. IsFiniteSet(T) /\ T \subseteq Int
  <2>1. IsFiniteSet(0 .. n)
    BY FS_Interval
  <2>2. T \in SUBSET (0 .. n)
    BY <1>2
  <2>3. IsFiniteSet(T)
    BY <2>1, <2>2, FS_Subset
  <2>4. 0 .. n \subseteq Int
    OBVIOUS
  <2>5. QED BY <1>2, <2>3, <2>4
<1>4. Workflow!Max(T) \in T /\ \A y \in T : Workflow!Max(T) >= y
  BY <1>2, <1>3, MaxExists
<1>5. Workflow!NextIndex(f) = Workflow!Max(T) + 1
  BY <1>1, <1>2 DEF Workflow!NextIndex
<1>6. PICK z : z = Workflow!Max(T)
  OBVIOUS
<1>7. z \in 0 .. n /\ \A y \in T : z >= y
  BY <1>2, <1>4, <1>6
<1>8. Workflow!NextIndex(f) \in 1 .. n + 1
  BY <1>5, <1>6, <1>7
<1>9. ASSUME {f[s] : s \in D} = 1 .. n PROVE Workflow!NextIndex(f) = n + 1
  <2>1. n \in T
    BY <1>1, <1>9
  <2>2. z = n
    BY <1>7, <2>1
  <2>3. QED BY <1>5, <1>6, <2>2
<1>10. QED BY <1>8, <1>9

\* What sizes the sets of statuses have.
LEMMA SizeBound ==
  ASSUME NEW n \in Nat, NEW S, S \subseteq 1 .. n
  PROVE  IsFiniteSet(S) /\ Cardinality(S) \in 0 .. n
<1>1. IsFiniteSet(1 .. n) /\ Cardinality(1 .. n) = n
  BY FS_Interval
<1>2. IsFiniteSet(S) /\ Cardinality(S) <= n
  BY <1>1, FS_Subset
<1>3. Cardinality(S) \in Nat
  BY <1>2, FS_CardinalityType
<1>4. QED BY <1>2, <1>3

LEMMA CreatingFinite == IsFiniteSet(Creating) /\ Cardinality(Creating) \in Nat
<1>1. Creating \in SUBSET Writers
  BY DEF Creating
<1>2. IsFiniteSet(Creating)
  BY <1>1, FS_Subset, WorkflowAssumption
<1>3. QED BY <1>2, FS_CardinalityType

LEMMA NoRows == DOMAIN (<< >>) = {} /\ \A S : << >> \in [{} -> S]
<1>1. Len(<< >>) = 0 /\ \A S : << >> \in Seq(S)
  OBVIOUS
<1>2. ASSUME NEW S PROVE << >> \in [{} -> S]
  <2>1. PICK n \in Nat : << >> \in [1 .. n -> S]
    BY <1>1, SeqDef
  <2>2. n = 0
    BY <1>1, <2>1, LenProperties
  <2>3. 1 .. 0 = {}
    OBVIOUS
  <2>4. QED BY <2>1, <2>2, <2>3
<1>3. QED BY <1>2

LEMMA InNumbered ==
  ASSUME made \in 1 .. MaxStatuses, NEW f, Numbering(f)
  PROVE  f \in Workflow!Numbered
<1>1. DOMAIN f \in SUBSET Workflow!Ids
  BY WorkflowAssumption DEF Numbering, Workflow!Ids
<1>2. f \in [DOMAIN f -> 0 .. MaxStatuses + 1]
  <2>1. 1 .. made \subseteq 0 .. MaxStatuses + 1
    BY WorkflowAssumption
  <2>2. QED BY <2>1 DEF Numbering
<1>3. QED BY <1>1, <1>2 DEF Workflow!Numbered

-----------------------------------------------------------------------------
(* One transaction takes a step *)

Sets(w, x) ==
  /\ DOMAIN tx' = Writers /\ tx' = [v \in Writers |-> tx'[v]]
  /\ tx'[w] = x /\ \A v \in Writers \ {w} : tx'[v] = tx[v]

Shows == /\ DOMAIN shown = Writers /\ shown = [w \in Writers |-> shown[w]]
         /\ \A w \in Writers : DOMAIN shown[w] \subseteq DOMAIN order /\ shown[w] \in [DOMAIN shown[w] -> Nat]

Disjoint == \A v, w \in Writers : v # w /\ Workflow!Idle \notin {tx[v], tx[w]}
              => DOMAIN tx[v].mine \cap DOMAIN tx[w].mine = {}

LEMMA Updated ==
  ASSUME Typed, NEW w \in Writers, NEW x, tx' = [tx EXCEPT ![w] = x]
  PROVE  Sets(w, x)
BY DEF Sets, Typed

LEMMA TypedStep ==
  ASSUME Typed, NEW w \in Writers, NEW x, Sets(w, x), UNCHANGED <<order, made>>,
         Shows', clashed' \in BOOLEAN, x = Workflow!Idle \/ TxOK(x),
         \A v \in Writers \ {w} : x # Workflow!Idle /\ tx[v] # Workflow!Idle =>
             DOMAIN x.mine \cap DOMAIN tx[v].mine = {},
         (made + Cardinality(Creating) <= MaxStatuses)'
  PROVE  Typed'
<1>1. \A v \in Writers : tx'[v] = Workflow!Idle \/ TxOK(tx'[v])
  BY DEF Sets, Typed
<1>2. \A t : TxOK(t) => TxOK(t)'
  BY DEF TxOK, Numbering, Writing
<1>3. (\A v \in Writers : tx[v] = Workflow!Idle \/ TxOK(tx[v]))'
  BY <1>1, <1>2
<1>4. (\A u, v \in Writers : u # v /\ Workflow!Idle \notin {tx[u], tx[v]}
         => DOMAIN tx[u].mine \cap DOMAIN tx[v].mine = {})'
  BY DEF Sets, Typed
<1>5. (made \in 1 .. MaxStatuses /\ Numbering(order))'
  BY DEF Typed, Numbering
<1>6. QED BY <1>3, <1>4, <1>5 DEF Typed, Sets, Shows

\* A step that begins no creation leaves their number as it is.
LEMMA SameCreating ==
  ASSUME Typed, NEW w \in Writers, NEW x, Sets(w, x), x.pc # "create", tx[w].pc # "create", made' = made
  PROVE  (made + Cardinality(Creating) <= MaxStatuses)'
<1>1. Creating' = Creating
  BY DEF Creating, Sets
<1>2. QED BY <1>1 DEF Typed

LEMMA IdleIs == Workflow!Idle.pc = "idle" /\ \A t : TxOK(t) => t # Workflow!Idle /\ t.pc \in {"create",
    "lock", "list", "write", "commit"}
<1>1. Workflow!Idle.pc = "idle"
  BY DEF Workflow!Idle
<1>2. \A t : TxOK(t) => t.pc \in {"create", "lock", "list", "write", "commit"}
  BY DEF TxOK
<1>3. QED BY <1>1, <1>2

\* The order stays: what the others claim of it stays too.
LEMMA SerialStep ==
  ASSUME Typed, Serial, NEW w \in Writers, NEW x, Sets(w, x), UNCHANGED order,
         clashed' = FALSE => clashed = FALSE, clashed' \in BOOLEAN,
         clashed' = FALSE => (x = Workflow!Idle \/ Claim(x)) /\ Single'
  PROVE  Serial'
<1>1. SUFFICES ASSUME clashed' = FALSE PROVE (Gapless /\ Single /\
          \A v \in Writers : tx[v] = Workflow!Idle \/ Claim(tx[v]))'
  BY DEF Serial
<1>2. Gapless /\ \A v \in Writers : tx[v] = Workflow!Idle \/ Claim(tx[v])
  BY <1>1 DEF Serial
<1>3. Gapless' /\ Size' = Size /\ \A n : Below(n)' = Below(n)
  BY <1>2 DEF Gapless, Size, Below
<1>4. \A t : Claim(t) => Claim(t)'
  BY <1>3 DEF Claim, Size, Below
<1>5. \A v \in Writers : tx'[v] = Workflow!Idle \/ Claim(tx'[v])
  BY <1>1, <1>2 DEF Sets
<1>6. QED BY <1>1, <1>3, <1>4, <1>5

\* A transaction that goes on, or ends, is no new one beside another.
LEMMA SingleStep ==
  ASSUME Single, NEW w \in Writers, tx[w] # Workflow!Idle, NEW x, Sets(w, x),
         x # Workflow!Idle => x.new = tx[w].new /\ x.target = tx[w].target
  PROVE  Single'
BY DEF Single, Workflow!Creates, Sets

-----------------------------------------------------------------------------
(* The page *)

LEMMA ShownHolds == ASSUME Typed PROVE Shows
BY DEF Typed, Shows

LEMMA RefreshKeeps == ASSUME StatusInv, NEW w \in Writers, Workflow!Refresh(w) PROVE StatusInv'
<1>1. Typed /\ UNCHANGED <<order, made, tx, clashed>> /\ shown' = [shown EXCEPT ![w] = order]
  BY DEF StatusInv, Workflow!Refresh
<1>2. Shows'
  <2>1. order \in [DOMAIN order -> Nat]
    BY <1>1 DEF Typed, Numbering
  <2>2. \A v \in Writers : shown'[v] = IF v = w THEN order ELSE shown[v]
    BY <1>1 DEF Typed
  <2>3. DOMAIN shown' = Writers /\ shown' = [v \in Writers |-> shown'[v]]
    BY <1>1 DEF Typed
  <2>4. \A v \in Writers : DOMAIN shown'[v] \subseteq DOMAIN order' /\ shown'[v] \in [DOMAIN shown'[v] -> Nat]
    BY <1>1, <2>1, <2>2 DEF Typed
  <2>5. QED BY <2>3, <2>4 DEF Shows
<1>3. Typed'
  <2>1. Creating' = Creating /\ (\A v \in Writers : tx[v] = Workflow!Idle \/ TxOK(tx[v]))'
    <3>1. Creating' = Creating
      BY <1>1 DEF Creating
    <3>2. \A u : TxOK(u) => TxOK(u)'
      BY <1>1 DEF TxOK, Numbering, Writing
    <3>3. \A v \in Writers : tx'[v] = Workflow!Idle \/ TxOK(tx'[v])
      BY <1>1 DEF Typed
    <3>4. QED BY <3>1, <3>2, <3>3
  <2>2. Numbering(order)'
    BY <1>1 DEF Typed, Numbering
  <2>3. QED BY <1>1, <1>2, <2>1, <2>2 DEF Typed, Shows
<1>4. Serial'
  BY <1>1 DEF StatusInv, Serial, Gapless, Single, Claim, Size, Below, Workflow!Creates
<1>5. QED BY <1>3, <1>4 DEF StatusInv

LEMMA MoveKeeps == ASSUME StatusInv, NEW w \in Writers, Workflow!Move(w) PROVE StatusInv'
<1>1. Typed /\ Serial /\ UNCHANGED <<order, made, shown>> /\ tx[w] = Workflow!Idle
      /\ clashed' = (clashed \/ \E v \in Writers : Workflow!Creates(v) /\ tx[v].target # 0)
  BY DEF StatusInv, Workflow!Move
<1>2. PICK s \in DOMAIN shown[w], target \in 1 .. Cardinality(DOMAIN shown[w]) :
        tx' = [tx EXCEPT ![w] = [pc |-> "lock", id |-> s, new |-> FALSE,
             target |-> target, ids |-> << >>, at |-> 1, mine |-> << >>]]
  <2>1. Workflow!Cardinality(DOMAIN shown[w]) = Cardinality(DOMAIN shown[w])
    BY SameWords
  <2>2. PICK s \in DOMAIN shown[w] : \E target \in {shown[w][s] - 1, shown[w][s] + 1} :
        /\ target \in 1 .. Workflow!Cardinality(DOMAIN shown[w])
        /\ tx' = [tx EXCEPT ![w] = [pc |-> "lock", id |-> s, new |-> FALSE,
             target |-> target, ids |-> << >>, at |-> 1, mine |-> << >>]]
    BY DEF Workflow!Move
  <2>3. QED BY <2>1, <2>2
<1>3. PICK x : x = [pc |-> "lock", id |-> s, new |-> FALSE,
             target |-> target, ids |-> << >>, at |-> 1, mine |-> << >>]
  OBVIOUS
<1>4. Sets(w, x)
  BY <1>1, <1>2, <1>3, Updated
<1>5. s \in DOMAIN order /\ s \in 1 .. made /\ made \in Nat
  BY <1>1 DEF Typed, Numbering
<1>6. target \in 1 .. MaxStatuses
  <2>1. DOMAIN shown[w] \subseteq 1 .. made
    BY <1>1 DEF Typed, Numbering
  <2>2. Cardinality(DOMAIN shown[w]) \in 0 .. made
    BY <1>5, <2>1, SizeBound
  <2>3. QED BY <1>1, <2>2, WorkflowAssumption DEF Typed
<1>7. TxOK(x)
  <2>1. Numbering(<< >>)
    BY NoRows DEF Numbering
  <2>2. << >> \in Workflow!Numbered
    BY <1>1, <2>1, InNumbered DEF Typed
  <2>3. x \in [pc : {"create", "lock", "list", "write", "commit"}, id : 0 .. made, new : BOOLEAN,
            target : 0 .. MaxStatuses, ids : Seq(1 .. made), at : Nat, mine : Workflow!Numbered]
    BY <1>3, <1>5, <1>6, <2>2
  <2>4. x.pc = "lock" /\ ~ x.new /\ x.id = s /\ x.at = 1 /\ x.mine = << >> /\ x.target = target
    BY <1>3
  <2>5. x.target # 0
    BY <1>6, <2>4
  <2>6. QED BY <1>5, <2>1, <2>3, <2>4, <2>5, NoRows DEF TxOK
<1>8. Typed'
  <2>1. Shows'
    BY <1>1, ShownHolds DEF Shows
  <2>2. (made + Cardinality(Creating) <= MaxStatuses)'
    <3>1. x.pc # "create" /\ tx[w].pc # "create"
      BY <1>1, <1>3, IdleIs
    <3>2. QED BY <1>1, <1>4, <3>1, SameCreating
  <2>3. DOMAIN x.mine = {}
    BY <1>3, NoRows
  <2>4. clashed' \in BOOLEAN
    BY <1>1 DEF Typed
  <2>5. QED BY <1>1, <1>4, <1>7, <2>1, <2>2, <2>3, <2>4, TypedStep
<1>9. Serial'
  <2>1. clashed' \in BOOLEAN /\ (clashed' = FALSE => clashed = FALSE)
    BY <1>1 DEF Typed
  <2>2. ASSUME clashed' = FALSE PROVE Claim(x) /\ Single'
    <3>1. ~ x.new /\ x.pc = "lock"
      BY <1>3
    <3>2. Claim(x)
      BY <3>1 DEF Claim
    <3>3. Single /\ \A v \in Writers : Workflow!Creates(v) => tx[v].target = 0
      BY <1>1, <2>1, <2>2 DEF Serial
    <3>4. Single'
      BY <1>4, <3>1, <3>3 DEF Single, Sets, Workflow!Creates
    <3>5. QED BY <3>2, <3>4
  <2>3. QED BY <1>1, <1>4, <2>1, <2>2, SerialStep
<1>10. QED BY <1>8, <1>9 DEF StatusInv

LEMMA SubmitKeeps == ASSUME StatusInv, NEW w \in Writers, Workflow!Submit(w) PROVE StatusInv'
<1>1. /\ Typed /\ Serial /\ UNCHANGED <<order, made, shown>> /\ tx[w] = Workflow!Idle
      /\ made + Cardinality(Creating) < MaxStatuses
  <2>1. /\ Typed /\ Serial /\ UNCHANGED <<order, made, shown>> /\ tx[w] = Workflow!Idle
        /\ made + Workflow!Cardinality({v \in Writers : tx[v].pc = "create"}) < MaxStatuses
    BY DEF StatusInv, Workflow!Submit
  <2>2. Workflow!Cardinality(Creating) = Cardinality(Creating)
    BY SameWords
  <2>3. QED BY <2>1, <2>2 DEF Creating
<1>2. PICK target \in {0, 1} :
        /\ tx' = [tx EXCEPT ![w] = [pc |-> "create", id |-> 0, new |-> TRUE,
             target |-> target, ids |-> << >>, at |-> 1, mine |-> << >>]]
        /\ clashed' = (clashed \/ \E v \in Writers : Workflow!Creates(v) \/ (tx[v] # Workflow!Idle /\
               target # 0))
  BY DEF Workflow!Submit
<1>3. PICK x : x = [pc |-> "create", id |-> 0, new |-> TRUE,
             target |-> target, ids |-> << >>, at |-> 1, mine |-> << >>]
  OBVIOUS
<1>4. Sets(w, x)
  BY <1>1, <1>2, <1>3, Updated
<1>5. made \in Nat /\ made >= 1 /\ MaxStatuses \in Nat /\ MaxStatuses >= 1
  BY <1>1, WorkflowAssumption DEF Typed
<1>6. x.pc = "create" /\ x.new = TRUE /\ x.id = 0 /\ x.at = 1 /\ x.mine = << >> /\ x.target = target
  BY <1>3
<1>7. TxOK(x)
  <2>1. Numbering(<< >>)
    BY NoRows DEF Numbering
  <2>2. << >> \in Workflow!Numbered
    BY <1>1, <2>1, InNumbered DEF Typed
  <2>3. x \in [pc : {"create", "lock", "list", "write", "commit"}, id : 0 .. made, new : BOOLEAN,
            target : 0 .. MaxStatuses, ids : Seq(1 .. made), at : Nat, mine : Workflow!Numbered]
    BY <1>3, <1>5, <2>2
  <2>4. QED BY <1>6, <2>1, <2>3, NoRows DEF TxOK
<1>8. Typed'
  <2>1. Shows'
    BY <1>1, ShownHolds DEF Shows
  <2>2. (made + Cardinality(Creating) <= MaxStatuses)'
    <3>1. w \notin Creating
      BY <1>1, IdleIs DEF Creating
    <3>2. Creating' = Creating \cup {w}
      BY <1>4, <1>6 DEF Creating, Sets
    <3>3. IsFiniteSet(Creating) /\ Cardinality(Creating) \in Nat
      BY CreatingFinite
    <3>4. Cardinality(Creating \cup {w}) = Cardinality(Creating) + 1
      BY <3>1, <3>3, FS_AddElement
    <3>5. QED BY <1>1, <1>5, <3>2, <3>3, <3>4
  <2>3. DOMAIN x.mine = {}
    BY <1>6, NoRows
  <2>4. clashed' \in BOOLEAN
    BY <1>1, <1>2 DEF Typed
  <2>5. QED BY <1>1, <1>4, <1>7, <2>1, <2>2, <2>3, <2>4, TypedStep
<1>9. Serial'
  <2>1. clashed' \in BOOLEAN /\ (clashed' = FALSE => clashed = FALSE)
    BY <1>1, <1>2 DEF Typed
  <2>2. ASSUME clashed' = FALSE PROVE Claim(x) /\ Single'
    <3>1. Claim(x)
      BY <1>6 DEF Claim
    <3>2. \A v \in Writers : ~ Workflow!Creates(v) /\ (tx[v] # Workflow!Idle => target = 0)
      BY <1>2, <2>2
    <3>3. Single'
      BY <1>4, <1>6, <3>2 DEF Single, Sets, Workflow!Creates
    <3>4. QED BY <3>1, <3>3
  <2>3. QED BY <1>1, <1>4, <2>1, <2>2, SerialStep
<1>10. QED BY <1>8, <1>9 DEF StatusInv

LEMMA DeadlockKeeps == ASSUME StatusInv, NEW w \in Writers, Workflow!Deadlock(w) PROVE StatusInv'
<1>1. Typed /\ Serial /\ UNCHANGED <<order, made, shown, clashed>> /\ tx' = [tx EXCEPT ![w] = Workflow!Idle]
  BY DEF StatusInv, Workflow!Deadlock
<1>2. tx[w].pc \in {"lock", "write"}
  BY DEF Workflow!Deadlock, Workflow!WaitsFor
<1>3. Sets(w, Workflow!Idle) /\ tx[w] # Workflow!Idle
  BY <1>1, <1>2, Updated, IdleIs
<1>4. Typed'
  <2>1. Shows'
    BY <1>1, ShownHolds DEF Shows
  <2>2. (made + Cardinality(Creating) <= MaxStatuses)'
    <3>1. Workflow!Idle.pc # "create" /\ tx[w].pc # "create"
      BY <1>2, IdleIs
    <3>2. QED BY <1>1, <1>3, <3>1, SameCreating
  <2>3. clashed' \in BOOLEAN
    BY <1>1 DEF Typed
  <2>4. QED BY <1>1, <1>3, <2>1, <2>2, <2>3, TypedStep
<1>5. Serial'
  <2>1. clashed' \in BOOLEAN /\ (clashed' = FALSE => clashed = FALSE)
    BY <1>1 DEF Typed
  <2>2. clashed' = FALSE => Single'
    BY <1>1, <1>3, SingleStep DEF Serial
  <2>3. QED BY <1>1, <1>3, <2>1, <2>2, SerialStep
<1>6. QED BY <1>4, <1>5 DEF StatusInv

-----------------------------------------------------------------------------
(* The transactions *)

TxShape == [pc : {"create", "lock", "list", "write", "commit"}, id : 0 .. made, new : BOOLEAN,
            target : 0 .. MaxStatuses, ids : Seq(1 .. made), at : Nat, mine : Workflow!Numbered]

LEMMA Working ==
  ASSUME Typed, NEW w \in Writers, tx[w].pc # "idle"
  PROVE  tx[w] # Workflow!Idle /\ TxOK(tx[w]) /\ tx[w] \in TxShape
BY IdleIs DEF Typed, TxOK, TxShape

LEMMA LockKeeps == ASSUME StatusInv, NEW w \in Writers, Workflow!Lock(w) PROVE StatusInv'
<1>1. Typed /\ Serial /\ UNCHANGED <<order, made, shown, clashed>> /\ tx[w].pc = "lock" /\
          Workflow!WaitsFor(w) = {}
  BY DEF StatusInv, Workflow!Lock
<1>2. PICK t : t = tx[w]
  OBVIOUS
<1>3. t # Workflow!Idle /\ TxOK(t) /\ t \in TxShape
  BY <1>1, <1>2, Working
<1>4. PICK x : x = [t EXCEPT !.pc = "list", !.mine = Workflow!Row(t.id, order[t.id])]
  OBVIOUS
<1>5. /\ x.pc = "list" /\ x.mine = Workflow!Row(t.id, order[t.id]) /\ x.id = t.id /\ x.new = t.new
      /\ x.target = t.target /\ x.ids = t.ids /\ x.at = t.at
  BY <1>3, <1>4 DEF TxShape
<1>6. Sets(w, x)
  <2>1. tx' = [tx EXCEPT ![w].pc = "list", ![w].mine = Workflow!Row(tx[w].id, order[tx[w].id])]
    BY DEF Workflow!Lock
  <2>2. QED BY <1>1, <1>2, <1>4, <2>1 DEF Typed, Sets
<1>7. /\ ~ t.new /\ t.id \in DOMAIN order /\ t.target # 0 /\ t.at = 1 /\ t.id \in 1 .. made /\
             order[t.id] \in 1 .. made
  BY <1>1, <1>2, <1>3 DEF TxOK, Typed, Numbering
<1>8. DOMAIN x.mine = {t.id} /\ x.mine \in [{t.id} -> 1 .. made]
  <2>1. PICK s, place : s = t.id /\ place = order[t.id]
    OBVIOUS
  <2>2. x.mine = Workflow!Row(s, place)
    BY <1>5, <2>1
  <2>3. DOMAIN x.mine = {s} /\ x.mine \in [{s} -> {place}]
    <3>1. DOMAIN Workflow!Row(s, place) = {s} /\ Workflow!Row(s, place) \in [{s} -> {place}]
      BY Singly
    <3>2. QED BY <2>2, <3>1
  <2>4. QED BY <1>7, <2>1, <2>3
<1>9. TxOK(x)
  <2>1. Numbering(x.mine)
    BY <1>7, <1>8 DEF Numbering
  <2>2. x.mine \in Workflow!Numbered
    BY <1>1, <2>1, InNumbered DEF Typed
  <2>3. x \in TxShape
    BY <1>3, <1>4, <1>5, <2>2 DEF TxShape
  <2>4. QED BY <1>5, <1>7, <1>8, <2>1, <2>3 DEF TxOK, TxShape
<1>10. Typed'
  <2>1. Shows'
    BY <1>1, ShownHolds DEF Shows
  <2>2. (made + Cardinality(Creating) <= MaxStatuses)'
    <3>1. x.pc # "create" /\ tx[w].pc # "create"
      BY <1>1, <1>5
    <3>2. QED BY <1>1, <1>6, <3>1, SameCreating
  <2>3. ASSUME NEW v \in Writers \ {w}, tx[v] # Workflow!Idle PROVE DOMAIN x.mine \cap DOMAIN tx[v].mine = {}
    <3>1. t.id \notin DOMAIN tx[v].mine
      BY <1>1, <1>2, <2>3 DEF Workflow!WaitsFor, Workflow!Wanted, Workflow!Holders
    <3>2. QED BY <1>8, <3>1
  <2>4. clashed' \in BOOLEAN
    BY <1>1 DEF Typed
  <2>5. QED BY <1>1, <1>6, <1>9, <2>1, <2>2, <2>3, <2>4, TypedStep
<1>11. Serial'
  <2>1. clashed' \in BOOLEAN /\ (clashed' = FALSE => clashed = FALSE)
    BY <1>1 DEF Typed
  <2>2. ASSUME clashed' = FALSE PROVE Claim(x) /\ Single'
    <3>1. Claim(x)
      BY <1>5, <1>7 DEF Claim
    <3>2. Single
      BY <2>1, <2>2, <1>1 DEF Serial
    <3>3. Single'
      BY <1>2, <1>3, <1>5, <1>6, <3>2, SingleStep
    <3>4. QED BY <3>1, <3>3
  <2>3. QED BY <1>1, <1>6, <2>1, <2>2, SerialStep
<1>12. QED BY <1>10, <1>11 DEF StatusInv

\* What repositionStatus returns of the rows that the transaction sees.
LEMMA Lists ==
  ASSUME NEW w, NEW ids, NEW r, NEW D, Typed, w \in Writers, tx[w].pc = "list",
             ids \in Workflow!Sorted(Workflow!Seen(w)),
         r = Workflow!Repositioned(ids, tx[w].id, tx[w].target), D = DOMAIN order \cup {tx[w].id}
  PROVE  D \subseteq 1 .. made /\ Cardinality(D) \in 1 .. made /\ Rearranges(r, Cardinality(D), D)
<1>1. PICK t : t = tx[w]
  OBVIOUS
<1>2. TxOK(t) /\ t \in TxShape /\ t.pc = "list"
  BY <1>1, Working
<1>3. DOMAIN t.mine = {t.id} /\ t.id \in 1 .. made /\ t.target \in Nat \ {0}
  <2>1. t.target # 0
    BY <1>2 DEF TxOK, TxShape
  <2>2. DOMAIN t.mine = {t.id} /\ DOMAIN t.mine \subseteq 1 .. made
    BY <1>2 DEF TxOK, Numbering
  <2>3. QED BY <1>2, <2>1, <2>2 DEF TxShape
<1>4. made \in Nat /\ DOMAIN order \subseteq 1 .. made
  BY DEF Typed, Numbering
<1>5. DOMAIN Workflow!Seen(w) = D
  <2>1. PICK mine, index : mine = t.mine /\ index = order
    OBVIOUS
  <2>2. Workflow!Seen(w) = Workflow!Over(mine, index)
    BY <1>1, <2>1 DEF Workflow!Seen
  <2>3. DOMAIN Workflow!Seen(w) = DOMAIN mine \cup DOMAIN index
    BY <2>2, Overrides
  <2>4. QED BY <1>1, <1>3, <2>1, <2>3
<1>6. D \subseteq 1 .. made /\ D # {}
  BY <1>1, <1>3, <1>4
<1>7. IsFiniteSet(D) /\ Cardinality(D) \in 0 .. made
  BY <1>4, <1>6, SizeBound
<1>8. PICK n \in Nat : n = Cardinality(D)
  BY <1>4, <1>7
<1>9. ids \in Bijection(1 .. n, D)
  <2>1. ids \in Bijection(1 .. Cardinality(DOMAIN Workflow!Seen(w)), DOMAIN Workflow!Seen(w))
    BY SameWords DEF Workflow!Sorted
  <2>2. QED BY <1>5, <1>8, <2>1
<1>10. Rearranges(r, n, D)
  <2>1. PICK s, target : s = t.id /\ target = t.target
    OBVIOUS
  <2>2. s \in D /\ target \in Nat \ {0} /\ r = Workflow!Repositioned(ids, s, target)
    BY <1>1, <1>3, <2>1
  <2>3. n \in Nat /\ ids \in Bijection(1 .. n, D)
    BY <1>8, <1>9
  <2>4. Rearranges(Workflow!Repositioned(ids, s, target), n, D)
    BY <2>2, <2>3, Repositions
  <2>5. QED BY <2>2, <2>4
<1>11. n \in 1 .. made
  <2>1. n # 0
    BY <1>6, <1>7, <1>8, FS_EmptySet
  <2>2. QED BY <1>4, <1>7, <1>8, <2>1
<1>12. QED BY <1>6, <1>8, <1>10, <1>11

LEMMA ListKeeps == ASSUME StatusInv, NEW w \in Writers, Workflow!List(w) PROVE StatusInv'
<1>1. Typed /\ Serial /\ UNCHANGED <<order, made, shown, clashed>> /\ tx[w].pc = "list"
  BY DEF StatusInv, Workflow!List
<1>2. PICK t : t = tx[w]
  OBVIOUS
<1>3. t # Workflow!Idle /\ TxOK(t) /\ t \in TxShape
  BY <1>1, <1>2, Working
<1>4. PICK ids \in Workflow!Sorted(Workflow!Seen(w)) : tx' = [tx EXCEPT ![w].pc = "write",
       ![w].ids = Workflow!Repositioned(ids, tx[w].id, tx[w].target)]
  BY DEF Workflow!List
<1>5. PICK r : r = Workflow!Repositioned(ids, tx[w].id, tx[w].target)
  OBVIOUS
<1>6. PICK D : D = DOMAIN order \cup {t.id}
  OBVIOUS
<1>7. /\ D \subseteq 1 .. made /\ r \in Seq(D) /\ Len(r) = Cardinality(D) /\ Len(r) \in 1 .. made
      /\ \A i, j \in 1 .. Len(r) : r[i] = r[j] => i = j
      /\ \A s \in D : \E i \in 1 .. Len(r) : r[i] = s
  <2>1. r = Workflow!Repositioned(ids, tx[w].id, tx[w].target) /\ D = DOMAIN order \cup {tx[w].id}
    BY <1>2, <1>5, <1>6
  <2>2. D \subseteq 1 .. made /\ Cardinality(D) \in 1 .. made /\ Rearranges(r, Cardinality(D), D)
    BY <1>1, <2>1, Lists
  <2>3. QED BY <2>2 DEF Rearranges
<1>8. PICK x : x = [t EXCEPT !.pc = "write", !.ids = r]
  OBVIOUS
<1>9. /\ x.pc = "write" /\ x.mine = t.mine /\ x.id = t.id /\ x.new = t.new
      /\ x.target = t.target /\ x.ids = r /\ x.at = t.at
  BY <1>3, <1>8 DEF TxShape
<1>10. Sets(w, x)
  BY <1>1, <1>2, <1>4, <1>5, <1>8 DEF Typed, Sets
<1>11. t.at = 1 /\ DOMAIN t.mine = {t.id} /\ t.target # 0 /\ made \in Nat
  BY <1>1, <1>2, <1>3 DEF TxOK, Typed, TxShape
<1>12. TxOK(x)
  <2>1. Writing(x)
    <3>1. Len(x.ids) <= made /\ x.at \in 1 .. Len(x.ids) + 1 /\ (x.pc = "write" <=> x.at <= Len(x.ids))
      BY <1>7, <1>9, <1>11
    <3>2. 1 .. x.at - 1 = {}
      BY <1>9, <1>11
    <3>3. \E i \in 1 .. Len(x.ids) : x.ids[i] = x.id
      <4>1. PICK i \in 1 .. Len(r) : r[i] = t.id
        BY <1>6, <1>7
      <4>2. QED BY <1>9, <4>1
    <3>4. QED BY <1>7, <1>9, <1>11, <3>1, <3>2, <3>3 DEF Writing
  <2>2. r \in Seq(1 .. made)
    <3>1. r \in [1 .. Len(r) -> D] /\ Len(r) \in Nat
      BY <1>7
    <3>2. r \in [1 .. Len(r) -> 1 .. made]
      BY <1>7, <3>1
    <3>3. QED BY <3>1, <3>2, SeqDef
  <2>3. x \in TxShape
    BY <1>3, <1>8, <1>9, <2>2 DEF TxShape
  <2>4. Numbering(x.mine) /\ (~ x.new => x.id \in DOMAIN order)
    BY <1>3, <1>9 DEF TxOK
  <2>5. QED BY <1>9, <1>11, <2>1, <2>3, <2>4 DEF TxOK, TxShape
<1>13. Typed'
  <2>1. Shows'
    BY <1>1, ShownHolds DEF Shows
  <2>2. (made + Cardinality(Creating) <= MaxStatuses)'
    <3>1. x.pc # "create" /\ tx[w].pc # "create"
      BY <1>1, <1>9
    <3>2. QED BY <1>1, <1>10, <3>1, SameCreating
  <2>3. ASSUME NEW v \in Writers \ {w}, tx[v] # Workflow!Idle PROVE DOMAIN x.mine \cap DOMAIN tx[v].mine = {}
    BY <1>1, <1>2, <1>3, <1>9, <2>3 DEF Typed
  <2>4. clashed' \in BOOLEAN
    BY <1>1 DEF Typed
  <2>5. QED BY <1>1, <1>10, <1>12, <2>1, <2>2, <2>3, <2>4, TypedStep
<1>14. Serial'
  <2>1. clashed' \in BOOLEAN /\ (clashed' = FALSE => clashed = FALSE)
    BY <1>1 DEF Typed
  <2>2. ASSUME clashed' = FALSE PROVE Claim(x) /\ Single'
    <3>1. Single /\ Gapless /\ Claim(t)
      BY <2>1, <2>2, <1>1, <1>2, <1>3 DEF Serial
    <3>2. Single'
      BY <1>2, <1>3, <1>9, <1>10, <3>1, SingleStep
    <3>3. Items(x.ids) = D
      <4>1. Items(r) = D
        <5>1. \A i \in 1 .. Len(r) : r[i] \in D
          BY <1>7
        <5>2. QED BY <1>7, <5>1 DEF Items
      <4>2. QED BY <1>9, <4>1
    <3>4. x.new => x.id \notin DOMAIN order
      BY <1>1, <1>2, <1>9, <3>1 DEF Claim
    <3>5. ASSUME ~ x.new PROVE Len(x.ids) <= Size /\ Items(x.ids) = Below(Len(x.ids))
      <4>1. t.id \in DOMAIN order
        BY <1>3, <1>9, <3>5 DEF TxOK
      <4>2. D = DOMAIN order /\ Len(x.ids) = Size
        <5>1. D = DOMAIN order
          BY <1>6, <4>1
        <5>2. Len(x.ids) = Cardinality(D)
          BY <1>7, <1>9
        <5>3. QED BY <5>1, <5>2 DEF Size
      <4>3. Size \in Nat /\ \A s \in DOMAIN order : order[s] \in 1 .. Size
        BY <1>7, <1>9, <3>1, <4>2 DEF Gapless
      <4>4. Below(Size) = DOMAIN order
        BY <4>3 DEF Below
      <4>5. QED BY <3>3, <4>2, <4>3, <4>4
    <3>6. Claim(x)
      BY <1>6, <1>9, <1>11, <3>3, <3>4, <3>5 DEF Claim
    <3>7. QED BY <3>2, <3>6
  <2>3. QED BY <1>1, <1>10, <2>1, <2>2, SerialStep
<1>15. QED BY <1>13, <1>14 DEF StatusInv

LEMMA WriteKeeps == ASSUME StatusInv, NEW w \in Writers, Workflow!Write(w) PROVE StatusInv'
<1>1. Typed /\ Serial /\ UNCHANGED <<order, made, shown, clashed>> /\ tx[w].pc = "write" /\
          Workflow!WaitsFor(w) = {}
  BY DEF StatusInv, Workflow!Write
<1>2. PICK t : t = tx[w]
  OBVIOUS
<1>3. t # Workflow!Idle /\ TxOK(t) /\ t \in TxShape /\ t.pc = "write"
  BY <1>1, <1>2, Working
<1>4. PICK k : k = t.ids[t.at]
  OBVIOUS
<1>5. PICK f : f = Workflow!Over(Workflow!Row(k, t.at), t.mine)
  OBVIOUS
<1>6. PICK p : p = IF t.at = Len(t.ids) THEN "commit" ELSE "write"
  OBVIOUS
<1>7. PICK x : x = [t EXCEPT !.mine = f, !.at = t.at + 1, !.pc = p]
  OBVIOUS
<1>8. /\ x.pc = p /\ x.mine = f /\ x.id = t.id /\ x.new = t.new
      /\ x.target = t.target /\ x.ids = t.ids /\ x.at = t.at + 1
  BY <1>3, <1>7 DEF TxShape
<1>9. Sets(w, x)
  <2>1. Workflow!Wanted(w) = k
    BY <1>1, <1>2, <1>4 DEF Workflow!Wanted
  <2>2. tx' = [tx EXCEPT ![w].mine = f, ![w].at = @ + 1, ![w].pc = p]
    BY <1>2, <1>5, <1>6, <2>1 DEF Workflow!Write
  <2>3. QED BY <1>1, <1>2, <1>7, <2>2 DEF Typed, Sets
<1>10. Writing(t) /\ ~ (t.new /\ t.target = 0)
  BY <1>3 DEF TxOK, TxShape
<1>11. /\ t.ids \in Seq(1 .. made) /\ Len(t.ids) \in Nat /\ t.at \in 1 .. Len(t.ids) /\ Len(t.ids) <= made
       /\ made \in Nat /\ k \in 1 .. made /\ t.at \in 1 .. made
  <2>1. t.ids \in Seq(1 .. made) /\ t.at \in Nat /\ Len(t.ids) \in Nat
    BY <1>3 DEF TxShape
  <2>2. t.at \in 1 .. Len(t.ids) /\ Len(t.ids) <= made /\ made \in Nat
    BY <1>1, <1>3, <1>10, <2>1 DEF Writing, Typed
  <2>3. QED BY <1>4, <2>1, <2>2
<1>12. /\ DOMAIN f = {k} \cup DOMAIN t.mine /\ f \in [DOMAIN f -> {f[s] : s \in DOMAIN f}]
       /\ \A s \in DOMAIN f : f[s] = IF s = k THEN t.at ELSE t.mine[s]
  <2>1. PICK row, mine, place : row = Workflow!Row(k, place) /\ mine = t.mine /\ place = t.at
    OBVIOUS
  <2>2. f = Workflow!Over(row, mine) /\ DOMAIN row = {k} /\ row[k] = place
    BY <1>5, <2>1, Singly
  <2>3. /\ DOMAIN f = DOMAIN row \cup DOMAIN mine
        /\ \A s \in DOMAIN row \cup DOMAIN mine : f[s] = IF s \in DOMAIN row THEN row[s] ELSE mine[s]
        /\ f \in [DOMAIN row \cup DOMAIN mine -> {f[s] : s \in DOMAIN row \cup DOMAIN mine}]
    <3>1. /\ DOMAIN Workflow!Over(row, mine) = DOMAIN row \cup DOMAIN mine
          /\ \A s \in DOMAIN row \cup DOMAIN mine :
               Workflow!Over(row, mine)[s] = IF s \in DOMAIN row THEN row[s] ELSE mine[s]
          /\ Workflow!Over(row, mine) \in [DOMAIN row \cup DOMAIN mine ->
               {Workflow!Over(row, mine)[s] : s \in DOMAIN row \cup DOMAIN mine}]
      BY Overrides
    <3>2. QED BY <2>2, <3>1
  <2>4. QED BY <2>1, <2>2, <2>3
<1>13. Numbering(f) /\ f \in Workflow!Numbered
  <2>1. Numbering(t.mine)
    BY <1>3 DEF TxOK
  <2>2. \A s \in DOMAIN f : f[s] \in 1 .. made
    BY <1>11, <1>12, <2>1 DEF Numbering
  <2>3. f \in [DOMAIN f -> {f[s] : s \in DOMAIN f}]
    BY <1>12
  <2>4. DOMAIN f \subseteq 1 .. made /\ f \in [DOMAIN f -> 1 .. made]
    BY <1>11, <1>12, <2>1, <2>2, <2>3 DEF Numbering
  <2>5. Numbering(f)
    BY <2>4 DEF Numbering
  <2>6. QED BY <1>1, <2>5, InNumbered DEF Typed
<1>14. Writing(x)
  <2>1. Len(x.ids) <= made /\ x.at \in 1 .. Len(x.ids) + 1 /\ (x.pc = "write" <=> x.at <= Len(x.ids))
    BY <1>6, <1>8, <1>11
  <2>2. /\ \A i, j \in 1 .. Len(x.ids) : x.ids[i] = x.ids[j] => i = j
        /\ \E i \in 1 .. Len(x.ids) : x.ids[i] = x.id
    BY <1>8, <1>10 DEF Writing
  <2>3. 1 .. x.at - 1 = (1 .. t.at - 1) \cup {t.at}
    BY <1>8, <1>11
  <2>4. DOMAIN x.mine = {x.id} \cup {x.ids[i] : i \in 1 .. x.at - 1}
    <3>1. DOMAIN t.mine = {t.id} \cup {t.ids[i] : i \in 1 .. t.at - 1}
      BY <1>10 DEF Writing
    <3>2. DOMAIN f = {k} \cup DOMAIN t.mine
      BY <1>12
    <3>3. {t.ids[i] : i \in (1 .. t.at - 1) \cup {t.at}} = {t.ids[i] : i \in 1 .. t.at - 1} \cup {k}
      BY <1>4
    <3>4. DOMAIN f = {t.id} \cup {t.ids[i] : i \in (1 .. t.at - 1) \cup {t.at}}
      BY <3>1, <3>2, <3>3
    <3>5. x.mine = f /\ x.id = t.id /\ x.ids = t.ids /\ 1 .. x.at - 1 = (1 .. t.at - 1) \cup {t.at}
      BY <1>8, <2>3
    <3>6. QED BY <3>4, <3>5
  <2>5. ASSUME NEW i \in 1 .. x.at - 1 PROVE x.mine[x.ids[i]] = i
    <3>1. CASE i = t.at
      BY <1>4, <1>8, <1>12, <3>1
    <3>2. CASE i \in 1 .. t.at - 1
      <4>a. i \in 1 .. Len(t.ids) /\ i # t.at
        BY <1>11, <3>2
      <4>b. t.ids[i] # k
        BY <1>4, <1>10, <1>11, <4>a DEF Writing
      <4>c. t.ids[i] \in DOMAIN t.mine /\ t.mine[t.ids[i]] = i
        BY <1>10, <3>2 DEF Writing
      <4>1. t.ids[i] # k /\ t.ids[i] \in DOMAIN t.mine /\ t.mine[t.ids[i]] = i
        BY <4>b, <4>c
      <4>2. QED BY <1>8, <1>12, <4>1
    <3>3. QED BY <2>3, <3>1, <3>2
  <2>6. QED BY <2>1, <2>2, <2>4, <2>5 DEF Writing
<1>15. TxOK(x)
  <2>1. x \in TxShape
    <3>1. PICK at : at = t.at + 1
      OBVIOUS
    <3>2. at \in Nat /\ p \in {"create", "lock", "list", "write", "commit"} /\ x = [t EXCEPT !.mine = f,
              !.at = at, !.pc = p]
      BY <1>6, <1>7, <1>11, <3>1
    <3>3. QED BY <1>3, <1>13, <3>2 DEF TxShape
  <2>2. ~ x.new => x.id \in DOMAIN order /\ x.target # 0
    BY <1>3, <1>8 DEF TxOK
  <2>3. QED BY <1>6, <1>8, <1>10, <1>13, <1>14, <2>1, <2>2 DEF TxOK, TxShape
<1>16. Typed'
  <2>1. Shows'
    BY <1>1, ShownHolds DEF Shows
  <2>2. (made + Cardinality(Creating) <= MaxStatuses)'
    <3>1. x.pc # "create" /\ tx[w].pc # "create"
      BY <1>1, <1>6, <1>8
    <3>2. QED BY <1>1, <1>9, <3>1, SameCreating
  <2>3. ASSUME NEW v \in Writers \ {w}, tx[v] # Workflow!Idle PROVE DOMAIN x.mine \cap DOMAIN tx[v].mine = {}
    <3>1. k \notin DOMAIN tx[v].mine
      BY <1>1, <1>2, <1>4, <2>3 DEF Workflow!WaitsFor, Workflow!Wanted, Workflow!Holders
    <3>2. DOMAIN t.mine \cap DOMAIN tx[v].mine = {}
      BY <1>1, <1>2, <1>3, <2>3 DEF Typed
    <3>3. QED BY <1>8, <1>12, <3>1, <3>2
  <2>4. clashed' \in BOOLEAN
    BY <1>1 DEF Typed
  <2>5. QED BY <1>1, <1>9, <1>15, <2>1, <2>2, <2>3, <2>4, TypedStep
<1>17. Serial'
  <2>1. clashed' \in BOOLEAN /\ (clashed' = FALSE => clashed = FALSE)
    BY <1>1 DEF Typed
  <2>2. ASSUME clashed' = FALSE PROVE Claim(x) /\ Single'
    <3>1. Single /\ Claim(t)
      BY <2>1, <2>2, <1>1, <1>2, <1>3 DEF Serial
    <3>2. Single'
      BY <1>2, <1>3, <1>8, <1>9, <3>1, SingleStep
    <3>3. Claim(x)
      BY <1>3, <1>6, <1>8, <1>10, <3>1 DEF Claim
    <3>4. QED BY <3>2, <3>3
  <2>3. QED BY <1>1, <1>9, <2>1, <2>2, SerialStep
<1>18. QED BY <1>16, <1>17 DEF StatusInv

LEMMA CreateKeeps == ASSUME StatusInv, NEW w \in Writers, Workflow!Create(w) PROVE StatusInv'
<1>1. Typed /\ Serial /\ UNCHANGED <<order, shown, clashed>> /\ tx[w].pc = "create" /\ made' = made + 1
  BY DEF StatusInv, Workflow!Create
<1>2. PICK t : t = tx[w]
  OBVIOUS
<1>3. t # Workflow!Idle /\ TxOK(t) /\ t \in TxShape /\ t.pc = "create"
  BY <1>1, <1>2, Working
<1>4. PICK place : place = Workflow!NextIndex(order)
  OBVIOUS
<1>5. PICK m : m = made + 1
  OBVIOUS
<1>6. PICK row : row = Workflow!Row(m, place)
  OBVIOUS
<1>7. PICK p : p = IF t.target = 0 THEN "commit" ELSE "list"
  OBVIOUS
<1>8. PICK x : x = [t EXCEPT !.id = m, !.mine = row, !.pc = p]
  OBVIOUS
<1>9. /\ x.pc = p /\ x.mine = row /\ x.id = m /\ x.new = t.new
      /\ x.target = t.target /\ x.ids = t.ids /\ x.at = t.at
  BY <1>3, <1>8 DEF TxShape
<1>10. Sets(w, x)
  <2>1. tx' = [tx EXCEPT ![w].id = m, ![w].mine = row, ![w].pc = p]
    BY <1>1, <1>2, <1>4, <1>5, <1>6, <1>7 DEF Workflow!Create
  <2>2. QED BY <1>1, <1>2, <1>8, <2>1 DEF Typed, Sets
<1>11. made \in Nat /\ m \in Nat /\ made < m /\ Numbering(order)
  BY <1>1, <1>5, WorkflowAssumption DEF Typed
<1>12. place \in 1 .. m
  BY <1>4, <1>5, <1>11, NextIs DEF Numbering
<1>13. DOMAIN row = {m} /\ row[m] = place /\ row \in [{m} -> 1 .. m]
  <2>1. DOMAIN row = {m} /\ row[m] = place /\ row \in [{m} -> {place}]
    BY <1>6, Singly
  <2>2. QED BY <1>12, <2>1
<1>14. t.new = TRUE /\ t.at = 1 /\ t.target \in 0 .. MaxStatuses
  BY <1>3 DEF TxOK, TxShape
<1>15. Cardinality(Creating) \in Nat /\ Cardinality(Creating') = Cardinality(Creating) - 1
  <2>1. w \in Creating /\ Creating' = Creating \ {w}
    <3>1. x.pc # "create"
      BY <1>7, <1>9
    <3>2. QED BY <1>1, <1>10, <3>1 DEF Creating, Sets
  <2>2. IsFiniteSet(Creating) /\ Cardinality(Creating) \in Nat
    BY CreatingFinite
  <2>3. Cardinality(Creating \ {w}) = Cardinality(Creating) - 1
    BY <2>1, <2>2, FS_RemoveElement
  <2>4. QED BY <2>1, <2>2, <2>3
<1>16. made' \in 1 .. MaxStatuses /\ (made + Cardinality(Creating) <= MaxStatuses)'
  <2>1. Cardinality(Creating) # 0
    <3>1. w \in Creating
      BY <1>1 DEF Creating
    <3>2. QED BY <3>1, CreatingFinite, FS_EmptySet
  <2>2. made + Cardinality(Creating) <= MaxStatuses /\ MaxStatuses \in Nat
    BY <1>1, WorkflowAssumption DEF Typed
  <2>3. QED BY <1>1, <1>11, <1>15, <2>1, <2>2
<1>17. \A u : TxOK(u) => TxOK(u)'
  <2>1. ASSUME NEW u, TxOK(u) PROVE TxOK(u)'
    <3>1. u \in TxShape
      BY <2>1 DEF TxOK, TxShape
    <3>2. 1 .. made \subseteq 1 .. m /\ 0 .. made \subseteq 0 .. m
      BY <1>5, <1>11
    <3>3. u.ids \in Seq(1 .. m)
      <4>1. u.ids \in [1 .. Len(u.ids) -> 1 .. made] /\ Len(u.ids) \in Nat
        <5>1. PICK S : S = 1 .. made
          OBVIOUS
        <5>2. PICK q \in Seq(S) : q = u.ids
          BY <3>1, <5>1 DEF TxShape
        <5>3. q \in [1 .. Len(q) -> S] /\ Len(q) \in Nat
          BY <5>2
        <5>4. QED BY <5>1, <5>2, <5>3
      <4>2. u.ids \in [1 .. Len(u.ids) -> 1 .. m]
        BY <3>2, <4>1
      <4>3. QED BY <4>1, <4>2, SeqDef
    <3>4. u \in TxShape'
      BY <1>1, <1>5, <3>1, <3>2, <3>3 DEF TxShape, Workflow!Numbered, Workflow!Ids
    <3>5. Numbering(u.mine)'
      <4>1. DOMAIN u.mine \subseteq 1 .. made /\ u.mine \in [DOMAIN u.mine -> 1 .. made]
        BY <2>1 DEF TxOK, Numbering
      <4>2. DOMAIN u.mine \subseteq 1 .. m /\ u.mine \in [DOMAIN u.mine -> 1 .. m]
        BY <3>2, <4>1
      <4>3. QED BY <1>1, <1>5, <4>2 DEF Numbering
    <3>6. Writing(u) => Writing(u)'
      <4>1. Len(u.ids) \in Nat
        BY <3>1 DEF TxShape
      <4>2. QED BY <1>1, <1>5, <1>11, <4>1 DEF Writing
    <3>7. QED BY <1>1, <2>1, <3>4, <3>5, <3>6 DEF TxOK, TxShape
  <2>2. QED BY <2>1
<1>18. TxOK(x)'
  <2>1. Numbering(row)'
    BY <1>1, <1>5, <1>11, <1>13 DEF Numbering
  <2>2. row \in Workflow!Numbered
    <3>1. DOMAIN row \in SUBSET Workflow!Ids
      BY <1>1, <1>5, <1>11, <1>13, <1>16 DEF Workflow!Ids
    <3>2. 1 .. m \subseteq 0 .. MaxStatuses + 1
      BY <1>1, <1>5, <1>11, <1>16, WorkflowAssumption
    <3>3. row \in [DOMAIN row -> 0 .. MaxStatuses + 1]
      BY <1>13, <3>2
    <3>4. QED BY <3>1, <3>3 DEF Workflow!Numbered
  <2>3. x \in TxShape'
    <3>1. t \in TxShape'
      BY <1>3, <1>17 DEF TxOK, TxShape
    <3>2. m \in 0 .. made' /\ p \in {"create", "lock", "list", "write", "commit"}
      BY <1>1, <1>5, <1>7, <1>11
    <3>3. row \in Workflow!Numbered'
      BY <2>2 DEF Workflow!Numbered, Workflow!Ids
    <3>4. QED BY <1>8, <3>1, <3>2, <3>3 DEF TxShape
  <2>4. QED BY <1>7, <1>9, <1>13, <1>14, <2>1, <2>3 DEF TxOK, TxShape
<1>19. Typed'
  <2>1. Shows'
    BY <1>1, ShownHolds DEF Shows
  <2>2. ASSUME NEW v \in Writers \ {w}, tx[v] # Workflow!Idle PROVE DOMAIN x.mine \cap DOMAIN tx[v].mine = {}
    <3>1. DOMAIN tx[v].mine \subseteq 1 .. made
      BY <1>1, <2>2 DEF Typed, TxOK, Numbering
    <3>2. QED BY <1>9, <1>11, <1>13, <3>1
  <2>3. (\A u, v \in Writers : u # v /\ Workflow!Idle \notin {tx[u], tx[v]}
           => DOMAIN tx[u].mine \cap DOMAIN tx[v].mine = {})'
    BY <1>1, <1>10, <2>2 DEF Sets, Typed
  <2>4. (\A v \in Writers : tx[v] = Workflow!Idle \/ TxOK(tx[v]))'
    <3>1. \A v \in Writers \ {w} : tx'[v] = Workflow!Idle \/ TxOK(tx'[v])
      BY <1>1, <1>10 DEF Typed, Sets
    <3>2. \A v \in Writers \ {w} : (tx[v] = Workflow!Idle \/ TxOK(tx[v]))'
      BY <1>17, <3>1
    <3>3. (tx[w] = Workflow!Idle \/ TxOK(tx[w]))'
      BY <1>10, <1>18 DEF Sets
    <3>4. QED BY <3>2, <3>3
  <2>5. Numbering(order)' /\ clashed' \in BOOLEAN
    <3>1. DOMAIN order \subseteq 1 .. m /\ order \in [DOMAIN order -> 1 .. m]
      BY <1>5, <1>11 DEF Numbering
    <3>2. QED BY <1>1, <1>5, <3>1 DEF Numbering, Typed
  <2>6. QED BY <1>10, <1>16, <2>1, <2>3, <2>4, <2>5 DEF Typed, Shows, Sets
<1>20. Serial'
  <2>1. clashed' \in BOOLEAN /\ (clashed' = FALSE => clashed = FALSE)
    BY <1>1 DEF Typed
  <2>2. ASSUME clashed' = FALSE PROVE Claim(x) /\ Single'
    <3>1. Single /\ Gapless
      BY <2>1, <2>2, <1>1 DEF Serial
    <3>2. Single'
      BY <1>2, <1>3, <1>9, <1>10, <3>1, SingleStep
    <3>3. m \notin DOMAIN order
      BY <1>11 DEF Numbering
    <3>4. place = Size + 1
      <4>1. Size \in Nat
        BY <1>11, SizeBound DEF Numbering, Size
      <4>2. \A s \in DOMAIN order : order[s] \in 1 .. Size
        BY <3>1 DEF Gapless
      <4>3. order \in [DOMAIN order -> 1 .. Size]
        BY <1>11, <4>2 DEF Numbering
      <4>4. PICK D, f, n : D = DOMAIN order /\ f = order /\ n = Size
        OBVIOUS
      <4>5. n \in Nat /\ f \in [D -> 1 .. n] /\ {f[s] : s \in D} = 1 .. n
        BY <3>1, <4>1, <4>3, <4>4 DEF Gapless
      <4>6. Workflow!NextIndex(f) = n + 1
        BY <4>5, NextIs
      <4>7. QED BY <1>4, <4>4, <4>6
    <3>5. Claim(x)
      BY <1>7, <1>9, <1>13, <1>14, <3>3, <3>4 DEF Claim
    <3>6. QED BY <3>2, <3>5
  <2>3. QED BY <1>1, <1>10, <2>1, <2>2, SerialStep
<1>21. QED BY <1>19, <1>20 DEF StatusInv

\* A commit while nothing clashed: each of the three sorts of transaction leaves the
\* statuses numbered from 1 on, and what the others claim stays.
LEMMA AppendCommits ==
  ASSUME Typed, Gapless, Single, \A v \in Writers : tx[v] = Workflow!Idle \/ Claim(tx[v]),
         NEW w \in Writers, NEW t, t = tx[w], TxOK(t), t.pc = "commit", t.new, t.target = 0,
         order' = Workflow!Over(t.mine, order), Sets(w, Workflow!Idle)
  PROVE  Gapless' /\ \A v \in Writers \ {w} : tx[v] = Workflow!Idle \/ Claim(tx[v])'
<1>1. Claim(t) /\ t # Workflow!Idle /\ DOMAIN t.mine = {t.id}
  <2>1. t # Workflow!Idle
    BY IdleIs
  <2>2. QED BY <2>1 DEF TxOK
<1>2. t.id \notin DOMAIN order /\ t.mine[t.id] = Size + 1
  BY <1>1 DEF Claim
<1>3. DOMAIN order \subseteq 1 .. made /\ made \in Nat
  BY WorkflowAssumption DEF Typed, Numbering
<1>4. Size \in Nat /\ IsFiniteSet(DOMAIN order)
  BY <1>3, SizeBound DEF Size
<1>5. PICK s, n, D : s = t.id /\ n = Size /\ D = DOMAIN order
  OBVIOUS
<1>6. PICK f : f = order'
  OBVIOUS
<1>7. DOMAIN f = D \cup {s} /\ f[s] = n + 1 /\ \A r \in D : f[r] = order[r]
  <2>1. PICK mine, index : mine = t.mine /\ index = order
    OBVIOUS
  <2>2. /\ DOMAIN Workflow!Over(mine, index) = DOMAIN mine \cup DOMAIN index
        /\ \A x \in DOMAIN mine \cup DOMAIN index :
             Workflow!Over(mine, index)[x] = IF x \in DOMAIN mine THEN mine[x] ELSE index[x]
        /\ Workflow!Over(mine, index) \in [DOMAIN mine \cup DOMAIN index ->
             {Workflow!Over(mine, index)[x] : x \in DOMAIN mine \cup DOMAIN index}]
    BY Overrides
  <2>3. f = Workflow!Over(mine, index)
    BY <1>6, <2>1
  <2>4. DOMAIN mine = {s} /\ DOMAIN index = D /\ s \notin D /\ mine[s] = n + 1
    BY <1>1, <1>2, <1>5, <2>1
  <2>5. QED BY <2>1, <2>2, <2>3, <2>4
<1>8. Cardinality(D \cup {s}) = n + 1 /\ n \in Nat /\ s \notin D
  <2>1. IsFiniteSet(D) /\ Cardinality(D) = n /\ s \notin D
    BY <1>2, <1>4, <1>5 DEF Size
  <2>2. Cardinality(D \cup {s}) = Cardinality(D) + 1
    BY <2>1, FS_AddElement
  <2>3. n \in Nat
    BY <1>4, <1>5
  <2>4. QED BY <2>1, <2>2, <2>3
<1>9. Size' = n + 1
  BY <1>6, <1>7, <1>8 DEF Size
<1>10. /\ \A r, u \in D : order[r] = order[u] => r = u
       /\ {order[r] : r \in D} = 1 .. n
  BY <1>5 DEF Gapless
<1>11. \A r \in D : order[r] \in 1 .. n
  BY <1>10
<1>12. \A r, u \in D \cup {s} : f[r] = f[u] => r = u
  BY <1>7, <1>8, <1>10, <1>11
<1>13. {f[r] : r \in D \cup {s}} = 1 .. n + 1
  <2>1. \A r \in D \cup {s} : f[r] \in 1 .. n + 1
    BY <1>7, <1>8, <1>11
  <2>2. ASSUME NEW j \in 1 .. n + 1 PROVE \E r \in D \cup {s} : f[r] = j
    <3>1. CASE j = n + 1
      BY <1>7, <3>1
    <3>2. CASE j \in 1 .. n
      <4>1. PICK r \in D : order[r] = j
        BY <1>10, <3>2
      <4>2. QED BY <1>7, <4>1
    <3>3. QED BY <1>8, <3>1, <3>2
  <2>3. QED BY <2>1, <2>2
<1>14. Gapless'
  <2>1. DOMAIN f = D \cup {s}
    BY <1>7
  <2>2. \A r, u \in DOMAIN f : f[r] = f[u] => r = u
    BY <1>12, <2>1
  <2>3. {f[r] : r \in DOMAIN f} = 1 .. Size'
    BY <1>9, <1>13, <2>1
  <2>4. QED BY <1>6, <2>2, <2>3 DEF Gapless
<1>15. ASSUME NEW v \in Writers \ {w}, tx[v] # Workflow!Idle PROVE Claim(tx[v])'
  <2>1. PICK u : u = tx[v]
    OBVIOUS
  <2>2. ~ u.new /\ Claim(u) /\ TxOK(u)
    BY <1>1, <1>15, <2>1 DEF Single, Workflow!Creates, Typed
  <2>3. u = tx'[v]
    BY <2>1 DEF Sets
  <2>4. ASSUME u.pc \in {"write", "commit"}
        PROVE  Len(u.ids) <= Size' /\ Items(u.ids) = Below(Len(u.ids))'
    <3>1. PICK k : k = Len(u.ids)
      OBVIOUS
    <3>2. k \in Nat
      BY <2>2, <3>1 DEF TxOK
    <3>3. k <= n /\ Items(u.ids) = {r \in D : order[r] <= k}
      BY <1>5, <2>2, <2>4, <3>1 DEF Claim, Below
    <3>4. {r \in D : order[r] <= k} = {r \in D \cup {s} : f[r] <= k}
      BY <1>7, <1>8, <3>2, <3>3
    <3>5. Below(k)' = {r \in D \cup {s} : f[r] <= k}
      BY <1>6, <1>7 DEF Below
    <3>6. k <= Size'
      BY <1>8, <1>9, <3>2, <3>3
    <3>7. QED BY <3>1, <3>3, <3>4, <3>5, <3>6
  <2>5. Claim(u)'
    BY <2>2, <2>4 DEF Claim
  <2>6. QED BY <2>3, <2>5
<1>16. QED BY <1>14, <1>15

\* What a list that was written to its end put into the rows.
Wrote(t, f, n, ids) ==
  /\ n = Len(t.ids) /\ ids = t.ids /\ ids \in [1 .. n -> Items(ids)]
  /\ \A i, j \in 1 .. n : ids[i] = ids[j] => i = j
  /\ \A s \in Items(ids) : \E i \in 1 .. n : ids[i] = s
  /\ t.id \in Items(ids) /\ DOMAIN t.mine = Items(ids)
  /\ DOMAIN f = Items(ids) \cup DOMAIN order
  /\ \A i \in 1 .. n : f[ids[i]] = i
  /\ \A s \in DOMAIN order \ Items(ids) : f[s] = order[s]

LEMMA WrittenAll ==
  ASSUME NEW t, TxOK(t), t.pc = "commit", Writing(t)
  PROVE  \E n, ids : n \in Nat /\ Wrote(t, Workflow!Over(t.mine, order), n, ids)
<1>0. PICK f : f = Workflow!Over(t.mine, order)
  OBVIOUS
<1>1. PICK S : S = 1 .. made
  OBVIOUS
<1>2. PICK ids \in Seq(S) : ids = t.ids
  BY <1>1 DEF TxOK
<1>3. PICK n \in Nat : n = Len(ids) /\ ids \in [1 .. n -> S]
  <2>1. Len(ids) \in Nat /\ ids \in [1 .. Len(ids) -> S]
    BY <1>2
  <2>2. QED BY <2>1
<1>4. Items(ids) = {ids[i] : i \in 1 .. n}
  BY <1>3 DEF Items
<1>5. ids \in [1 .. n -> Items(ids)] /\ \A s \in Items(ids) : \E i \in 1 .. n : ids[i] = s
  BY <1>3, <1>4
<1>6. t.at - 1 = n /\ t.at \in Nat
  <2>1. t.at \in 1 .. n + 1 /\ ~ (t.at <= n)
    BY <1>2, <1>3 DEF Writing
  <2>2. QED BY <1>3, <2>1
<1>7. /\ \A i, j \in 1 .. n : ids[i] = ids[j] => i = j
      /\ t.id \in Items(ids) /\ DOMAIN t.mine = {t.id} \cup Items(ids)
      /\ \A i \in 1 .. n : t.mine[ids[i]] = i
  BY <1>2, <1>3, <1>4, <1>6 DEF Writing
<1>8. PICK mine, index : mine = t.mine /\ index = order
  OBVIOUS
<1>9. /\ DOMAIN Workflow!Over(mine, index) = DOMAIN mine \cup DOMAIN index
      /\ \A x \in DOMAIN mine \cup DOMAIN index :
           Workflow!Over(mine, index)[x] = IF x \in DOMAIN mine THEN mine[x] ELSE index[x]
      /\ Workflow!Over(mine, index) \in [DOMAIN mine \cup DOMAIN index ->
           {Workflow!Over(mine, index)[x] : x \in DOMAIN mine \cup DOMAIN index}]
  BY Overrides
<1>10. f = Workflow!Over(mine, index) /\ DOMAIN mine = Items(ids)
  BY <1>0, <1>7, <1>8
<1>11. DOMAIN f = Items(ids) \cup DOMAIN order /\ \A s \in DOMAIN order \ Items(ids) : f[s] = order[s]
  BY <1>8, <1>9, <1>10
<1>12. \A i \in 1 .. n : f[ids[i]] = i
  <2>1. ASSUME NEW i \in 1 .. n PROVE f[ids[i]] = i
    <3>1. ids[i] \in DOMAIN mine /\ mine[ids[i]] = i
      BY <1>4, <1>7, <1>8, <1>10
    <3>2. QED BY <1>9, <1>10, <3>1
  <2>2. QED BY <2>1
<1>13. DOMAIN t.mine = Items(ids) /\ ids = t.ids /\ n = Len(t.ids)
  BY <1>2, <1>3, <1>8, <1>10
<1>14. Wrote(t, f, n, ids)
  BY <1>5, <1>7, <1>11, <1>12, <1>13 DEF Wrote
<1>15. QED BY <1>0, <1>14

LEMMA PlaceCommits ==
  ASSUME Typed, Single, NEW w \in Writers, NEW t, t = tx[w], TxOK(t), Claim(t), t.pc = "commit", t.new,
             t.target # 0,
         order' = Workflow!Over(t.mine, order)
  PROVE  Gapless' /\ \A v \in Writers \ {w} : tx[v] = Workflow!Idle
<1>1. Writing(t)
  BY DEF TxOK
<1>2. PICK f : f = order'
  OBVIOUS
<1>3. f = Workflow!Over(t.mine, order)
  BY <1>2
<1>a. PICK n, ids : n \in Nat /\ Wrote(t, f, n, ids)
  BY <1>1, <1>3, WrittenAll
<1>4. /\ n = Len(t.ids) /\ n \in Nat /\ ids = t.ids /\ ids \in [1 .. n -> Items(ids)]
      /\ \A i, j \in 1 .. n : ids[i] = ids[j] => i = j
      /\ \A s \in Items(ids) : \E i \in 1 .. n : ids[i] = s
      /\ t.id \in Items(ids)
      /\ DOMAIN f = Items(ids) \cup DOMAIN order
      /\ \A i \in 1 .. n : f[ids[i]] = i
  BY <1>a DEF Wrote
<1>5. Items(ids) = DOMAIN order \cup {t.id}
  BY <1>4 DEF Claim
<1>6. PICK D : D = Items(ids)
  OBVIOUS
<1>7. DOMAIN f = D /\ ids \in [1 .. n -> D] /\ \A s \in D : \E i \in 1 .. n : ids[i] = s
  BY <1>4, <1>5, <1>6
<1>8. Cardinality(D) = n
  <2>1. ids \in Bijection(1 .. n, D)
    <3>a. ids \in [1 .. n -> D] /\ \A i, j \in 1 .. n : ids[i] = ids[j] => i = j
      BY <1>4, <1>7
    <3>1. ids \in Injection(1 .. n, D)
      BY <3>a DEF Injection, IsInjective
    <3>2. ids \in Surjection(1 .. n, D)
      BY <1>7 DEF Surjection
    <3>3. QED BY <3>1, <3>2 DEF Bijection
  <2>2. IsFiniteSet(1 .. n) /\ Cardinality(1 .. n) = n
    <3>1. n \in Nat
      BY <1>4
    <3>2. QED BY <3>1, FS_Interval
  <2>3. ExistsBijection(1 .. n, D)
    BY <2>1 DEF ExistsBijection
  <2>4. QED BY <2>2, <2>3, FS_Bijection
<1>9. \A s \in D : \E i \in 1 .. n : ids[i] = s /\ f[s] = i
  BY <1>4, <1>7
<1>10. \A r, s \in D : f[r] = f[s] => r = s
  BY <1>9
<1>11. {f[s] : s \in D} = 1 .. n
  BY <1>4, <1>7, <1>9
<1>12. Gapless'
  <2>1. Size' = n
    BY <1>2, <1>7, <1>8 DEF Size
  <2>2. /\ \A r, s \in DOMAIN f : f[r] = f[s] => r = s
        /\ {f[s] : s \in DOMAIN f} = 1 .. n
    BY <1>7, <1>10, <1>11
  <2>3. QED BY <1>2, <2>1, <2>2 DEF Gapless
<1>13. \A v \in Writers \ {w} : tx[v] = Workflow!Idle
  <2>1. t # Workflow!Idle
    BY IdleIs
  <2>2. QED BY <2>1 DEF Single, Workflow!Creates
<1>14. QED BY <1>12, <1>13

LEMMA MoveCommits ==
  ASSUME Typed, Gapless, Single, \A v \in Writers : tx[v] = Workflow!Idle \/ Claim(tx[v]),
         NEW w \in Writers, NEW t, t = tx[w], TxOK(t), t.pc = "commit", ~ t.new,
         order' = Workflow!Over(t.mine, order), Sets(w, Workflow!Idle)
  PROVE  Gapless' /\ \A v \in Writers \ {w} : tx[v] = Workflow!Idle \/ Claim(tx[v])'
<1>1. Writing(t) /\ Claim(t) /\ t # Workflow!Idle
  <2>1. t # Workflow!Idle
    BY IdleIs
  <2>2. QED BY <2>1 DEF TxOK
<1>2. PICK f : f = order'
  OBVIOUS
<1>3. f = Workflow!Over(t.mine, order)
  BY <1>2
<1>a. PICK k, ids : k \in Nat /\ Wrote(t, f, k, ids)
  BY <1>1, <1>3, WrittenAll
<1>4. /\ k = Len(t.ids) /\ k \in Nat /\ ids = t.ids /\ ids \in [1 .. k -> Items(ids)]
      /\ \A i, j \in 1 .. k : ids[i] = ids[j] => i = j
      /\ \A s \in Items(ids) : \E i \in 1 .. k : ids[i] = s
      /\ t.id \in Items(ids) /\ DOMAIN t.mine = Items(ids)
      /\ DOMAIN f = Items(ids) \cup DOMAIN order
      /\ \A i \in 1 .. k : f[ids[i]] = i
      /\ \A s \in DOMAIN order \ Items(ids) : f[s] = order[s]
  BY <1>a DEF Wrote
<1>5. PICK n, D, B : n = Size /\ D = DOMAIN order /\ B = Below(k)
  OBVIOUS
<1>6. n \in Nat /\ k <= n /\ Items(ids) = B /\ B \subseteq D /\ \A s \in D : s \in B <=> order[s] <= k
  <2>1. k <= n /\ Items(ids) = B
    BY <1>1, <1>4, <1>5 DEF Claim
  <2>2. n \in Nat
    BY <1>5, SizeBound, WorkflowAssumption DEF Typed, Numbering, Size
  <2>3. B \subseteq D /\ \A s \in D : s \in B <=> order[s] <= k
    BY <1>5 DEF Below
  <2>4. QED BY <2>1, <2>2, <2>3
<1>7. /\ \A r, u \in D : order[r] = order[u] => r = u
      /\ {order[r] : r \in D} = 1 .. n
  BY <1>5 DEF Gapless
<1>8. \A r \in D : order[r] \in 1 .. n
  BY <1>7
<1>9. /\ DOMAIN f = D /\ \A s \in D \ B : f[s] = order[s]
      /\ \A s \in B : \E i \in 1 .. k : ids[i] = s /\ f[s] = i
  <2>1. DOMAIN f = D
    BY <1>4, <1>5, <1>6
  <2>2. \A s \in D \ B : f[s] = order[s]
    BY <1>4, <1>5, <1>6
  <2>3. \A s \in B : \E i \in 1 .. k : ids[i] = s /\ f[s] = i
    BY <1>4, <1>6
  <2>4. QED BY <2>1, <2>2, <2>3
<1>10. \A s \in B : f[s] \in 1 .. k
  BY <1>9
<1>11. \A s \in D \ B : f[s] = order[s] /\ order[s] \in 1 .. n /\ order[s] > k
  BY <1>4, <1>6, <1>8, <1>9
<1>12. \A r, s \in D : f[r] = f[s] => r = s
  <2>1. \A r, s \in B : f[r] = f[s] => r = s
    BY <1>9
  <2>2. \A r, s \in D \ B : f[r] = f[s] => r = s
    BY <1>7, <1>11
  <2>3. \A r \in B, s \in D \ B : f[r] # f[s]
    BY <1>4, <1>10, <1>11
  <2>4. QED BY <2>1, <2>2, <2>3
<1>13. {f[s] : s \in D} = 1 .. n
  <2>1. \A s \in D : f[s] \in 1 .. n
    BY <1>4, <1>6, <1>10, <1>11
  <2>2. ASSUME NEW j \in 1 .. n PROVE \E s \in D : f[s] = j
    <3>1. CASE j <= k
      <4>1. j \in 1 .. k /\ ids[j] \in B
        BY <1>4, <1>6, <3>1
      <4>2. QED BY <1>4, <1>6, <4>1
    <3>2. CASE j > k
      <4>1. PICK s \in D : order[s] = j
        BY <1>7
      <4>2. s \notin B
        BY <1>4, <1>6, <3>2, <4>1
      <4>3. QED BY <1>11, <4>1, <4>2
    <3>3. QED BY <1>4, <3>1, <3>2
  <2>3. QED BY <2>1, <2>2
<1>14. Size' = n /\ Gapless'
  <2>1. Size' = n
    BY <1>2, <1>5, <1>9 DEF Size
  <2>2. /\ \A r, s \in DOMAIN f : f[r] = f[s] => r = s
        /\ {f[s] : s \in DOMAIN f} = 1 .. n
    BY <1>9, <1>12, <1>13
  <2>3. QED BY <1>2, <2>1, <2>2 DEF Gapless
<1>15. ASSUME NEW v \in Writers \ {w}, tx[v] # Workflow!Idle PROVE Claim(tx[v])'
  <2>1. PICK u : u = tx[v]
    OBVIOUS
  <2>2. Claim(u) /\ TxOK(u) /\ u = tx'[v]
    BY <1>15, <2>1 DEF Typed, Sets
  <2>3. DOMAIN t.mine \cap DOMAIN u.mine = {}
    BY <1>1, <1>15, <2>1 DEF Typed
  <2>4. ASSUME ~ u.new, u.pc \in {"write", "commit"}
        PROVE  Len(u.ids) <= Size' /\ Items(u.ids) = Below(Len(u.ids))'
    <3>1. PICK m : m = Len(u.ids)
      OBVIOUS
    <3>2. m \in Nat /\ Writing(u)
      BY <2>2, <2>4, <3>1 DEF TxOK
    <3>3. m <= n /\ Items(u.ids) = {r \in D : order[r] <= m}
      BY <1>5, <2>2, <2>4, <3>1 DEF Claim, Below
    <3>4. u.id \in Items(u.ids) /\ u.id \in DOMAIN u.mine
      BY <3>2 DEF Writing, Items
    <3>5. m >= k
      <4>1. SUFFICES ASSUME m < k PROVE FALSE
        BY <1>4, <3>2
      <4>2. u.id \in D /\ order[u.id] <= m /\ order[u.id] \in Nat
        BY <1>8, <3>3, <3>4
      <4>3. u.id \in B
        BY <1>4, <1>6, <3>2, <4>1, <4>2
      <4>4. DOMAIN t.mine = B
        BY <1>4, <1>6
      <4>5. QED BY <2>3, <3>4, <4>3, <4>4
    <3>6. \A s \in D : f[s] <= m <=> order[s] <= m
      <4>1. \A s \in B : f[s] <= m /\ order[s] <= m
        <5>1. ASSUME NEW s \in B PROVE f[s] <= m /\ order[s] <= m
          <6>1. f[s] \in 1 .. k
            BY <1>10
          <6>2. order[s] <= k /\ order[s] \in 1 .. n
            BY <1>6, <1>8
          <6>3. PICK a, b : a = f[s] /\ b = order[s]
            OBVIOUS
          <6>4. a \in 1 .. k /\ b \in 1 .. n /\ b <= k
            BY <6>1, <6>2, <6>3
          <6>5. a <= m /\ b <= m
            BY <1>4, <1>6, <3>2, <3>5, <6>4
          <6>6. QED BY <6>3, <6>5
        <5>2. QED BY <5>1
      <4>2. \A s \in D \ B : f[s] = order[s]
        BY <1>11
      <4>3. QED BY <4>1, <4>2
    <3>7. Below(m)' = {r \in D : f[r] <= m}
      BY <1>2, <1>9 DEF Below
    <3>8. {r \in D : order[r] <= m} = {r \in D : f[r] <= m}
      BY <3>6
    <3>9. m <= Size'
      BY <1>14, <3>3
    <3>10. QED BY <3>1, <3>3, <3>7, <3>8, <3>9
  <2>5. u.new => u.target = 0
    BY <1>1, <1>15, <2>1 DEF Single, Workflow!Creates
  <2>6. DOMAIN order' = DOMAIN order /\ Size' = Size
    BY <1>2, <1>5, <1>9, <1>14
  <2>7. Claim(u)'
    BY <2>2, <2>4, <2>5, <2>6 DEF Claim
  <2>8. QED BY <2>2, <2>7
<1>16. QED BY <1>14, <1>15

LEMMA CommitKeeps == ASSUME StatusInv, NEW w \in Writers, Workflow!Commit(w) PROVE StatusInv'
<1>1. Typed /\ Serial /\ UNCHANGED <<made, shown, clashed>> /\ tx[w].pc = "commit"
  BY DEF StatusInv, Workflow!Commit
<1>2. PICK t : t = tx[w]
  OBVIOUS
<1>3. t # Workflow!Idle /\ TxOK(t) /\ t \in TxShape /\ t.pc = "commit"
  BY <1>1, <1>2, Working
<1>4. Sets(w, Workflow!Idle) /\ order' = Workflow!Over(t.mine, order)
  BY <1>1, <1>2, Updated DEF Workflow!Commit, Workflow!Seen
<1>5. PICK f : f = order'
  OBVIOUS
<1>6. DOMAIN f = DOMAIN t.mine \cup DOMAIN order /\ f \in [DOMAIN f -> 1 .. made] /\
          DOMAIN f \subseteq 1 .. made
  <2>1. PICK mine, index : mine = t.mine /\ index = order
    OBVIOUS
  <2>2. /\ DOMAIN Workflow!Over(mine, index) = DOMAIN mine \cup DOMAIN index
        /\ \A x \in DOMAIN mine \cup DOMAIN index :
             Workflow!Over(mine, index)[x] = IF x \in DOMAIN mine THEN mine[x] ELSE index[x]
        /\ Workflow!Over(mine, index) \in [DOMAIN mine \cup DOMAIN index ->
             {Workflow!Over(mine, index)[x] : x \in DOMAIN mine \cup DOMAIN index}]
    BY Overrides
  <2>3. f = Workflow!Over(mine, index)
    BY <1>4, <1>5, <2>1
  <2>4. /\ DOMAIN mine \subseteq 1 .. made /\ mine \in [DOMAIN mine -> 1 .. made]
        /\ DOMAIN index \subseteq 1 .. made /\ index \in [DOMAIN index -> 1 .. made]
    BY <1>1, <1>3, <2>1 DEF Typed, TxOK, Numbering
  <2>5. \A x \in DOMAIN f : f[x] \in 1 .. made
    BY <2>2, <2>3, <2>4
  <2>6. f \in [DOMAIN f -> 1 .. made]
    BY <2>2, <2>3, <2>5
  <2>7. QED BY <2>1, <2>2, <2>3, <2>4, <2>6
<1>7. Creating' = Creating
  <2>1. Workflow!Idle.pc # "create" /\ t.pc # "create"
    BY <1>3, IdleIs
  <2>2. QED BY <1>2, <1>4, <2>1 DEF Creating, Sets
<1>8. \A u : TxOK(u) => TxOK(u)'
  <2>1. DOMAIN order \subseteq DOMAIN order'
    BY <1>5, <1>6
  <2>2. QED BY <1>1, <2>1 DEF TxOK, Numbering, Writing
<1>9. Typed'
  <2>1. Shows'
    <3>1. DOMAIN order \subseteq DOMAIN order'
      BY <1>5, <1>6
    <3>2. QED BY <1>1, <3>1, ShownHolds DEF Shows
  <2>2. (\A v \in Writers : tx[v] = Workflow!Idle \/ TxOK(tx[v]))'
    <3>1. \A v \in Writers : tx'[v] = Workflow!Idle \/ TxOK(tx'[v])
      BY <1>1, <1>4 DEF Typed, Sets
    <3>2. QED BY <1>8, <3>1
  <2>3. (\A u, v \in Writers : u # v /\ Workflow!Idle \notin {tx[u], tx[v]}
           => DOMAIN tx[u].mine \cap DOMAIN tx[v].mine = {})'
    BY <1>1, <1>4 DEF Sets, Typed
  <2>4. Numbering(order)'
    BY <1>1, <1>5, <1>6 DEF Numbering
  <2>5. (made \in 1 .. MaxStatuses /\ made + Cardinality(Creating) <= MaxStatuses /\ clashed \in BOOLEAN)'
    BY <1>1, <1>7 DEF Typed
  <2>6. QED BY <1>4, <2>1, <2>2, <2>3, <2>4, <2>5 DEF Typed, Shows, Sets
<1>10. Serial'
  <2>1. SUFFICES ASSUME clashed' = FALSE PROVE (Gapless /\ Single /\
            \A v \in Writers : tx[v] = Workflow!Idle \/ Claim(tx[v]))'
    BY <1>9 DEF Serial, Typed
  <2>2. Gapless /\ Single /\ \A v \in Writers : tx[v] = Workflow!Idle \/ Claim(tx[v])
    BY <1>1, <2>1 DEF Serial
  <2>3. Single'
    <3>1. tx[w] # Workflow!Idle
      BY <1>2, <1>3
    <3>2. QED BY <1>4, <2>2, <3>1, SingleStep
  <2>4. Gapless' /\ \A v \in Writers \ {w} : tx[v] = Workflow!Idle \/ Claim(tx[v])'
    <3>1. CASE t.new /\ t.target = 0
      BY <1>1, <1>2, <1>3, <1>4, <2>2, <3>1, AppendCommits
    <3>2. CASE t.new /\ t.target # 0
      <4>1. Claim(t)
        BY <1>2, <1>3, <2>2
      <4>2. Gapless' /\ \A v \in Writers \ {w} : tx[v] = Workflow!Idle
        BY <1>1, <1>2, <1>3, <1>4, <2>2, <3>2, <4>1, PlaceCommits
      <4>3. QED BY <4>2
    <3>3. CASE ~ t.new
      BY <1>1, <1>2, <1>3, <1>4, <2>2, <3>3, MoveCommits
    <3>4. QED BY <3>1, <3>2, <3>3
  <2>5. \A v \in Writers : (tx[v] = Workflow!Idle \/ Claim(tx[v]))'
    <3>1. \A v \in Writers \ {w} : (tx[v] = Workflow!Idle \/ Claim(tx[v]))'
      BY <1>4, <2>4 DEF Sets
    <3>2. (tx[w] = Workflow!Idle)'
      BY <1>4 DEF Sets
    <3>3. QED BY <3>1, <3>2
  <2>6. QED BY <2>3, <2>4, <2>5
<1>11. QED BY <1>9, <1>10 DEF StatusInv

-----------------------------------------------------------------------------
(* The theorems *)

LEMMA StatusInit == ASSUME Workflow!Init PROVE StatusInv
<1>1. /\ order = [s \in 1 .. AtFirst |-> s] /\ made = AtFirst /\ clashed = FALSE
      /\ shown = [w \in Writers |-> order] /\ tx = [w \in Writers |-> Workflow!Idle]
  BY DEF Workflow!Init
<1>2. AtFirst \in 1 .. MaxStatuses /\ MaxStatuses \in Nat /\ AtFirst \in Nat
  BY WorkflowAssumption
<1>3. DOMAIN order = 1 .. AtFirst /\ order \in [1 .. AtFirst -> 1 .. AtFirst] /\ order \in [1 .. AtFirst -> Nat]
  BY <1>1, <1>2
<1>4. Creating = {} /\ Cardinality(Creating) = 0
  <2>1. Creating = {}
    BY <1>1, IdleIs DEF Creating
  <2>2. QED BY <2>1, FS_EmptySet
<1>5. Typed
  <2>1. made \in 1 .. MaxStatuses /\ made + Cardinality(Creating) <= MaxStatuses
    BY <1>1, <1>2, <1>4
  <2>2. Numbering(order)
    BY <1>1, <1>3 DEF Numbering
  <2>3. QED BY <1>1, <1>3, <2>1, <2>2 DEF Typed
<1>6. Size = AtFirst
  BY <1>2, <1>3, FS_Interval DEF Size
<1>7. Gapless
  <2>1. \A s \in DOMAIN order : order[s] = s
    BY <1>1
  <2>2. {order[s] : s \in 1 .. AtFirst} = 1 .. AtFirst
    BY <1>3, <2>1
  <2>3. QED BY <1>3, <1>6, <2>1, <2>2 DEF Gapless
<1>8. Single
  BY <1>1 DEF Single
<1>9. QED BY <1>1, <1>5, <1>7, <1>8 DEF StatusInv, Serial

LEMMA StatusStep == ASSUME StatusInv, [Workflow!Next]_Workflow!vars PROVE StatusInv'
<1>1. ASSUME Workflow!Next PROVE StatusInv'
  <2>1. PICK w \in Writers :
          \/ Workflow!Refresh(w) \/ Workflow!Move(w) \/ Workflow!Submit(w) \/ Workflow!Create(w) \/
                 Workflow!Lock(w) \/ Workflow!List(w)
          \/ Workflow!Write(w) \/ Workflow!Commit(w) \/ Workflow!Deadlock(w)
    BY <1>1 DEF Workflow!Next
  <2>2. QED BY <2>1, RefreshKeeps, MoveKeeps, SubmitKeeps, CreateKeeps, LockKeeps, ListKeeps,
               WriteKeeps, CommitKeeps, DeadlockKeeps
<1>2. ASSUME UNCHANGED Workflow!vars PROVE StatusInv'
  <2>1. UNCHANGED <<order, made, shown, tx, clashed>>
    BY <1>2 DEF Workflow!vars
  <2>2. \A u : (TxOK(u) => TxOK(u)') /\ (Claim(u) => Claim(u)')
    BY <2>1 DEF TxOK, Numbering, Writing, Claim, Size, Below
  <2>3. Typed'
    <3>1. Creating' = Creating /\ Numbering(order)'
      BY <2>1 DEF StatusInv, Typed, Creating, Numbering
    <3>2. \A v \in Writers : tx'[v] = Workflow!Idle \/ TxOK(tx'[v])
      BY <2>1 DEF StatusInv, Typed
    <3>3. (\A v \in Writers : tx[v] = Workflow!Idle \/ TxOK(tx[v]))'
      BY <2>2, <3>2
    <3>4. QED BY <2>1, <3>1, <3>3 DEF StatusInv, Typed
  <2>4. Serial'
    BY <2>1 DEF StatusInv, Serial, Gapless, Single, Claim, Size, Below, Workflow!Creates
  <2>5. QED BY <2>3, <2>4 DEF StatusInv
<1>3. QED BY <1>1, <1>2

LEMMA StatusTells == ASSUME StatusInv PROVE Workflow!TypeOK /\ Workflow!NumberedUnlessClashed
<1>1. Typed /\ made \in Workflow!Ids /\ made \in Nat /\ MaxStatuses \in Nat /\ made <= MaxStatuses
  BY WorkflowAssumption DEF StatusInv, Typed, Workflow!Ids
<1>2. order \in Workflow!Numbered
  BY <1>1, InNumbered DEF Typed
<1>3. ASSUME NEW t, TxOK(t) PROVE t \in Workflow!Tx
  <2>1. t \in TxShape
    BY <1>3 DEF TxOK, TxShape
  <2>2. 1 .. made \subseteq Workflow!Ids /\ 0 .. made \subseteq Workflow!Ids \cup {0} /\
            0 .. MaxStatuses \subseteq 0 .. MaxStatuses + 1
    BY <1>1 DEF Workflow!Ids
  <2>3. PICK S, T : S = 1 .. made /\ T = Workflow!Ids
    OBVIOUS
  <2>4. PICK q \in Seq(S) : q = t.ids
    BY <2>1, <2>3 DEF TxShape
  <2>5. q \in Seq(T)
    <3>1. q \in [1 .. Len(q) -> S] /\ Len(q) \in Nat
      OBVIOUS
    <3>2. q \in [1 .. Len(q) -> T]
      BY <2>2, <2>3, <3>1
    <3>3. QED BY <3>1, <3>2, SeqDef
  <2>6. t.ids \in Seq(Workflow!Ids)
    BY <2>3, <2>4, <2>5
  <2>7. QED BY <2>1, <2>2, <2>6 DEF TxShape, Workflow!Tx
<1>4. Workflow!TypeOK
  BY <1>1, <1>2, <1>3 DEF Workflow!TypeOK, Typed, Numbering
<1>5. Workflow!NumberedUnlessClashed
  <2>1. Workflow!Cardinality(DOMAIN order) = Cardinality(DOMAIN order)
    BY SameWords
  <2>2. QED BY <2>1 DEF StatusInv, Serial, Gapless, Size, Workflow!NumberedUnlessClashed
<1>6. QED BY <1>4, <1>5

\* What every state of the order of the statuses is like: the pages know it by its
\* history, and without creations that met the numbers run from 1 to the last.
THEOREM WorkflowTyped == Workflow!Spec => [](Workflow!TypeOK /\ Workflow!NumberedUnlessClashed)
<1>1. Workflow!Init => StatusInv
  BY StatusInit
<1>2. StatusInv /\ [Workflow!Next]_Workflow!vars => StatusInv'
  BY StatusStep
<1>3. StatusInv => Workflow!TypeOK /\ Workflow!NumberedUnlessClashed
  BY StatusTells
<1>4. QED BY <1>1, <1>2, <1>3, PTL DEF Workflow!Spec

-----------------------------------------------------------------------------
(* Both, each with the other at rest *)

\* What is shown of the directory alone holds beside the statuses: a step of theirs
\* leaves every variable of the districts alone.
LEMMA DirectoryBeside == DirectorySpec => Directory!Spec
<1>1. DirectoryInit => Directory!Init
  BY DEF DirectoryInit
<1>2. [DirectoryNext]_<<districtVars, workflowVars>> => [Directory!Next]_Directory!vars
  BY DEF DirectoryNext, districtVars, Directory!vars
<1>3. QED
  BY <1>1, <1>2, PTL DEF DirectorySpec, Directory!Spec

\* Nobody loses a district unnoticed, whatever pages and scripts overlap.
THEOREM NobodyDroppedUnnoticed == DirectorySpec => DroppedOnPurpose
BY DirectoryBeside, DroppedKnowingly, PTL DEF DroppedOnPurpose

\* A refused deletion of a district cost nobody his district, unless a lead raced it.
THEOREM RefusalsCostNothing == DirectorySpec => RefusedDeleteWasRaced
BY DirectoryBeside, DeleteRefused, PTL DEF RefusedDeleteWasRaced

\* Saving the staff of an active district leaves it somebody of the role MANAGER,
\* unless it was raced.
THEOREM SavesKeepManagers == DirectorySpec => SaveKeepsManager
BY DirectoryBeside, SaveManaged, PTL DEF SaveKeepsManager

\* What administrators configure stays sound: the districts, the staff and the open
\* pages fit each other, no row of a status is written by two transactions at once,
\* and the statuses are numbered from 1 without a gap unless creations met.
THEOREM DirectorySound == DirectorySpec => []DirectoryIsSound
<1>1. DirectoryInit => Directory!Init /\ Workflow!Init
  BY DEF DirectoryInit
<1>2. [DirectoryNext]_<<districtVars, workflowVars>> => [Directory!Next]_Directory!vars
  BY DEF DirectoryNext, districtVars, Directory!vars
<1>3. [DirectoryNext]_<<districtVars, workflowVars>> => [Workflow!Next]_Workflow!vars
  BY DEF DirectoryNext, workflowVars, Workflow!vars
<1>4. Directory!TypeOK /\ Workflow!TypeOK /\ Workflow!NumberedUnlessClashed => DirectoryIsSound
  BY DEF DirectoryIsSound
<1>5. QED
  BY <1>1, <1>2, <1>3, <1>4, DirectoryTyped, WorkflowTyped, PTL
     DEF DirectorySpec, Directory!Spec, Workflow!Spec
=============================================================================
