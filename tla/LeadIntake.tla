---------------------------- MODULE LeadIntake ----------------------------
(***************************************************************************)
(* How a lead gets its responsibles: POST /leads and the public form pick *)
(* a manager and the least loaded executive of the district under an      *)
(* advisory lock, /assign and /reassign name them by hand, and meanwhile  *)
(* users are suspended or deactivated, mappings replaced and districts    *)
(* deleted.  Requests share a connection pool of the database: an         *)
(* interactive transaction keeps a connection, and asks for a second one  *)
(* when the status caches it consults have expired.  The database is read *)
(* committed; only the advisory lock orders two creations.                *)
(***************************************************************************)
EXTENDS Naturals, Sequences, FiniteSets

CONSTANTS
  Requests,     \* requests in flight
  Kinds,        \* the kinds of request each of them may be
  Districts, Executives, Managers,
  None,         \* NULL of assigned_executive_id and assigned_manager_id
  Cap,          \* maxActiveLeadsPerExecutive
  Connections,  \* size of the Prisma connection pool
  InitialStaff, \* user_district_assignments at the start
  EditableUsers,\* the users whose status or mapping is changed
  MaxLeads,     \* bound on the leads ever created
  MaxSubmissions, \* bound on the public submissions ever stored
  MaxManual,    \* bound on manual assignments
  MaxEdits      \* bound on mapping, status and district edits

Users == Executives \cup Managers
Staff == Users \X Districts
CreateKinds == {"create", "public"}
AssignKinds == {"assign", "reassign"}
AllKinds == CreateKinds \cup AssignKinds \cup {"deactivate", "remove"}

ASSUME IntakeAssumption ==
  /\ Kinds \in [Requests -> SUBSET AllKinds]
  /\ IsFiniteSet(Requests) /\ IsFiniteSet(Districts)
  /\ Executives \cap Managers = {}
  /\ None \notin Users \cup Requests \cup Districts
  /\ InitialStaff \subseteq Staff /\ EditableUsers \subseteq Users
  /\ Cap \in Nat \ {0} /\ Connections \in Nat \ {0}
  /\ MaxLeads \in Nat /\ MaxSubmissions \in Nat /\ MaxManual \in Nat /\ MaxEdits \in Nat

VARIABLES
  leads,       \* leads, by order of creation
  submissions, \* public_lead_submissions: is sms_delivery_status noted
  staff,       \* user_district_assignments
  status,      \* users.status
  present,     \* rows of districts
  lock,        \* holder of the advisory lock of each district
  req,         \* the requests in flight
  everStaff,   \* every mapping there ever was
  raced,       \* users named by a request that overlapped their deactivation
  manual,      \* manual assignments asked for so far
  edits        \* edits made so far

vars == <<leads, submissions, staff, status, present, lock, req,
          everStaff, raced, manual, edits>>

-----------------------------------------------------------------------------
(* Shapes *)

Nobody == Requests \cup {None}

\* `origin` is the district whose lock an automatic assignment was made under,
\* None after a manual one or a reopening; `places` every district it was in.
Lead == [exec : Executives \cup {None}, mgr : Managers \cup {None},
         flag : BOOLEAN, moved : BOOLEAN, open : BOOLEAN,
         district : Districts, origin : Districts \cup {None},
         places : SUBSET Districts]

IdleReq == [pc |-> "idle", kind |-> "none", district |-> None, exec |-> None,
            mgr |-> None, row |-> 0, sub |-> 0, ok |-> FALSE]

Request ==
  [pc : {"idle", "save", "begin", "lock", "manager", "executive", "lookup",
         "write", "tell", "checkExec", "checkManager", "count", "unmap", "drop"},
   kind : AllKinds \cup {"none"}, district : Districts \cup {None},
   exec : Executives \cup {None}, mgr : Managers \cup {None},
   row : Nat, sub : Nat, ok : BOOLEAN]

InTransaction(r) == req[r].pc \in {"lock", "manager", "executive", "lookup", "write"}

TypeOK ==
  /\ leads \in Seq(Lead)
  /\ submissions \in Seq({"pending", "noted"})
  /\ staff \subseteq Staff /\ staff \subseteq everStaff /\ everStaff \subseteq Staff
  /\ status \in [Users -> {"ACTIVE", "SUSPENDED", "DEACTIVATED"}]
  /\ present \subseteq Districts
  /\ lock \in [Districts -> Nobody]
  /\ \A d \in Districts : lock[d] # None =>
        InTransaction(lock[d]) /\ req[lock[d]].district = d
  /\ req \in [Requests -> Request]
  /\ raced \subseteq Users
  /\ manual \in 0 .. MaxManual /\ edits \in 0 .. MaxEdits

Init ==
  /\ leads = << >> /\ submissions = << >>
  /\ staff = InitialStaff /\ everStaff = InitialStaff
  /\ status = [u \in Users |-> "ACTIVE"]
  /\ present = Districts
  /\ lock = [d \in Districts |-> None]
  /\ req = [r \in Requests |-> IdleReq]
  /\ raced = {} /\ manual = 0 /\ edits = 0

-----------------------------------------------------------------------------
(* Reading the tables *)

Free == Connections - Cardinality({r \in Requests : InTransaction(r)})

Active(u) == status[u] = "ACTIVE"
Mapped(u, d) == <<u, d>> \in staff /\ Active(u)

\* listDistrictCandidates.
Candidates(S, d) == {u \in S : Mapped(u, d)}

\* countActiveExecutiveLeads and countActiveManagerLeads.
LeadsOf(u) == {i \in DOMAIN leads : leads[i].open /\ u \in {leads[i].exec, leads[i].mgr}}
Load(u) == Cardinality(LeadsOf(u))
LeastLoaded(S) == {u \in S : \A v \in S : Load(u) <= Load(v)}

\* The requests that name user u, and deactivate it or give it a lead.
Naming(u, kinds) ==
  {r \in Requests : req[r].kind \in kinds /\ u \in {req[r].exec, req[r].mgr}}

\* Naming users of S with a request of this kind: which ones overlap?
Overlap(S, kind) ==
  raced' = raced \cup {u \in S :
    Naming(u, IF kind = "deactivate" THEN AllKinds ELSE {"deactivate"}) # {}}

Set(r, record) == req' = [req EXCEPT ![r] = record]
Finish(r) == Set(r, IdleReq)
ReleaseLock(r) == lock' = [d \in Districts |-> IF lock[d] = r THEN None ELSE lock[d]]

-----------------------------------------------------------------------------
(* Creating a lead: POST /leads, and the public form *)

StartCreate(r) ==
  /\ req[r].pc = "idle" /\ "create" \in Kinds[r] /\ Len(leads) < MaxLeads
  /\ \E d \in present :
        Set(r, [IdleReq EXCEPT !.pc = "begin", !.kind = "create", !.district = d])
  /\ UNCHANGED <<leads, submissions, staff, status, present, lock, everStaff, raced, manual, edits>>

\* createPublicLead, after reCAPTCHA; the customer may send the form again.
StartPublic(r) ==
  /\ req[r].pc = "idle" /\ "public" \in Kinds[r] /\ Len(leads) < MaxLeads
  /\ \E d \in present :
        Set(r, [IdleReq EXCEPT !.pc = "save", !.kind = "public", !.district = d])
  /\ UNCHANGED <<leads, submissions, staff, status, present, lock, everStaff, raced, manual, edits>>

\* savePublicSubmission: the submission is stored, in a statement of its own,
\* before anything is tried with the leads.
SaveSubmission(r) ==
  /\ req[r].pc = "save" /\ Len(submissions) < MaxSubmissions
  /\ req[r].district \in present
  /\ submissions' = Append(submissions, "pending")
  /\ Set(r, [req[r] EXCEPT !.pc = "begin", !.sub = Len(submissions) + 1])
  /\ UNCHANGED <<leads, staff, status, present, lock, everStaff, raced, manual, edits>>

\* $transaction takes a connection, and keeps it.
Begin(r) ==
  /\ req[r].pc = "begin" /\ Free > 0
  /\ Set(r, [req[r] EXCEPT !.pc = IF req[r].kind \in CreateKinds THEN "lock" ELSE "lookup"])
  /\ UNCHANGED <<leads, submissions, staff, status, present, lock, everStaff, raced, manual, edits>>

\* MUTANT of AcquireLock: creations of a district are not put in order.
AcquireNoLock(r) ==
  /\ req[r].pc = "lock"
  /\ Set(r, [req[r] EXCEPT !.pc = "manager"])
  /\ UNCHANGED <<leads, submissions, staff, status, present, lock, everStaff, raced, manual, edits>>

\* lockDistrictAutoAssignment waits for the creations of the same district.
AcquireLock(r) ==
  /\ req[r].pc = "lock" /\ lock[req[r].district] = None
  /\ lock' = [lock EXCEPT ![req[r].district] = r]
  /\ Set(r, [req[r] EXCEPT !.pc = "manager"])
  /\ UNCHANGED <<leads, submissions, staff, status, present, everStaff, raced, manual, edits>>

\* resolveLeadAutoAssignment: with no manager the lead stays unassigned, even
\* when there is an executive.
PickManager(r) ==
  /\ req[r].pc = "manager"
  /\ LET managers == LeastLoaded(Candidates(Managers, req[r].district)) IN
     \/ /\ managers = {}
        /\ Set(r, [req[r] EXCEPT !.pc = "write"])
        /\ UNCHANGED raced
     \/ \E m \in managers :
        /\ Set(r, [req[r] EXCEPT !.pc = "executive", !.mgr = m])
        /\ Overlap({m}, req[r].kind)
  /\ UNCHANGED <<leads, submissions, staff, status, present, lock, everStaff, manual, edits>>

\* The executive with the fewest active leads among those below the cap; with
\* none the manager keeps the lead.
PickExecutive(r) ==
  /\ req[r].pc = "executive"
  /\ LET eligible == {u \in Candidates(Executives, req[r].district) : Load(u) < Cap} IN
     \/ /\ eligible = {}
        /\ Set(r, [req[r] EXCEPT !.pc = "write"])
        /\ UNCHANGED raced
     \/ \E u \in LeastLoaded(eligible) :
        /\ Set(r, [req[r] EXCEPT !.pc = "lookup", !.exec = u, !.ok = TRUE])
        /\ Overlap({u}, req[r].kind)
  /\ UNCHANGED <<leads, submissions, staff, status, present, lock, everStaff, manual, edits>>

\* getNewLeadStatus, getAssignedLeadStatus and assertValidTransition go past
\* the transaction.  When New -> Assigned is not configured POST /leads answers
\* 400, the public form and the manual assignment go on without the move.
StatusesAnswer(r) ==
  /\ req[r].pc = "lookup"
  /\ \E allowed \in BOOLEAN :
        /\ req[r].kind = "create" => allowed
        /\ Set(r, [req[r] EXCEPT !.pc = "write", !.ok = @ /\ allowed])
  /\ UNCHANGED <<leads, submissions, staff, status, present, lock, everStaff, raced, manual, edits>>

\* They answer from their caches, if these happen to be fresh, or from the
\* database, through a connection of their own.
AskCaches(r) == StatusesAnswer(r)
AskDatabase(r) == Free > 0 /\ StatusesAnswer(r)

\* Notifications, alerts to administrators and audit rows come after the commit:
\* each one that fails is logged and the next one is tried, so that nothing
\* undoes the lead, and the customer of a public submission is told in any case.
AfterCommit(r) ==
  IF req[r].kind = "public"
    THEN Set(r, [IdleReq EXCEPT !.pc = "tell", !.kind = "public", !.sub = req[r].sub])
    ELSE Finish(r)

\* lead.create, the move to Assigned, and the commit that frees the lock and
\* the connection.  The foreign key needs the district.
CommitCreate(r) ==
  /\ req[r].pc = "write" /\ req[r].kind \in CreateKinds
  /\ Len(leads) < MaxLeads
  /\ req[r].district \in present
  /\ leads' = Append(leads,
        [exec |-> req[r].exec, mgr |-> req[r].mgr, flag |-> req[r].exec = None,
         moved |-> req[r].ok, open |-> TRUE, district |-> req[r].district,
         origin |-> IF req[r].exec = None THEN None ELSE req[r].district,
         places |-> {req[r].district}])
  /\ ReleaseLock(r)
  /\ AfterCommit(r)
  /\ UNCHANGED <<submissions, staff, status, present, everStaff, raced, manual, edits>>

\* submitPublicLeadWithSms: a mirrored lead gets its message from a template;
\* without a lead or a template a text is sent.  That the outcome is noted on
\* the submission is best effort.
TellCustomer(r) ==
  /\ req[r].pc = "tell"
  /\ \E outcome \in {"pending", "noted"} :
        submissions' = [submissions EXCEPT ![req[r].sub] = outcome]
  /\ Finish(r)
  /\ UNCHANGED <<leads, staff, status, present, lock, everStaff, raced, manual, edits>>

-----------------------------------------------------------------------------
(* POST /:id/assign and POST /:id/reassign *)

\* The handler has read lead i and will give it to e and m.
Name(r, kind, i, e, m) ==
  /\ manual < MaxManual /\ manual' = manual + 1
  /\ Set(r, [IdleReq EXCEPT !.pc = "checkExec", !.kind = kind, !.row = i,
                            !.district = leads[i].district,
                            !.exec = e, !.mgr = m, !.ok = ~ leads[i].moved])
  /\ Overlap({e, m} \ {None}, kind)
  /\ UNCHANGED <<leads, submissions, staff, status, present, lock, everStaff, edits>>

\* Assign wants a lead with no executive ...
StartAssign(r) ==
  /\ req[r].pc = "idle" /\ "assign" \in Kinds[r]
  /\ \E i \in DOMAIN leads, e \in Executives :
        /\ leads[i].exec = None
        /\ \E m \in Managers \cup {None, leads[i].mgr} : Name(r, "assign", i, e, m)

\* ... and reassign one that has, and a change.
StartReassign(r) ==
  /\ req[r].pc = "idle" /\ "reassign" \in Kinds[r]
  /\ \E i \in DOMAIN leads, e \in Executives :
        /\ leads[i].exec # None
        /\ \E m \in Managers \cup {None, leads[i].mgr} :
              <<e, m>> # <<leads[i].exec, leads[i].mgr>> /\ Name(r, "reassign", i, e, m)

\* MUTANT of CheckExecutive: the user is looked at, the mapping is not.
CheckExecutiveRole(r) ==
  /\ req[r].pc = "checkExec" /\ Free > 0
  /\ Active(req[r].exec)
  /\ Set(r, [req[r] EXCEPT !.pc = IF req[r].mgr = None THEN "begin" ELSE "checkManager"])
  /\ UNCHANGED <<leads, submissions, staff, status, present, lock, everStaff, raced, manual, edits>>

CheckExecutive(r) ==
  /\ req[r].pc = "checkExec" /\ Free > 0
  /\ Mapped(req[r].exec, req[r].district)
  /\ Set(r, [req[r] EXCEPT !.pc = IF req[r].mgr = None THEN "begin" ELSE "checkManager"])
  /\ UNCHANGED <<leads, submissions, staff, status, present, lock, everStaff, raced, manual, edits>>

CheckManager(r) ==
  /\ req[r].pc = "checkManager" /\ Free > 0
  /\ Mapped(req[r].mgr, req[r].district)
  /\ Set(r, [req[r] EXCEPT !.pc = "begin"])
  /\ UNCHANGED <<leads, submissions, staff, status, present, lock, everStaff, raced, manual, edits>>

\* applyManualLeadAssignmentOverride writes whatever the lead has become: it
\* may have another executive, and a closed lead that was read in New is open
\* again.
CommitAssign(r) ==
  /\ req[r].pc = "write" /\ req[r].kind \in AssignKinds
  /\ leads' = [leads EXCEPT ![req[r].row] =
        [@ EXCEPT !.exec = req[r].exec, !.mgr = req[r].mgr, !.flag = FALSE,
                  !.moved = leads[req[r].row].moved \/ req[r].ok,
                  !.open = leads[req[r].row].open \/ req[r].ok, !.origin = None]]
  /\ Finish(r)
  /\ UNCHANGED <<submissions, staff, status, present, lock, everStaff, raced, manual, edits>>

-----------------------------------------------------------------------------
(* The lead goes on: transitions and PATCH /:id *)

CloseLead ==
  /\ \E i \in DOMAIN leads :
        /\ leads[i].open
        /\ leads' = [leads EXCEPT ![i] = [@ EXCEPT !.open = FALSE, !.moved = TRUE]]
  /\ UNCHANGED <<submissions, staff, status, present, lock, req, everStaff, raced, manual, edits>>

\* A Super Admin moves a lead out of a terminal status; its responsibles are
\* not looked at.
ReopenLead ==
  /\ edits < MaxEdits /\ edits' = edits + 1
  /\ \E i \in DOMAIN leads :
        /\ ~ leads[i].open
        /\ leads' = [leads EXCEPT ![i] = [@ EXCEPT !.open = TRUE, !.origin = None]]
        /\ raced' = raced \cup {u \in {leads[i].exec, leads[i].mgr} \cap Users :
              status[u] = "DEACTIVATED" \/ Naming(u, {"deactivate"}) # {}}
  /\ UNCHANGED <<submissions, staff, status, present, lock, req, everStaff, manual>>

\* PATCH /:id changes the district, and leaves the responsibles.
MoveLead ==
  /\ edits < MaxEdits /\ edits' = edits + 1
  /\ \E i \in DOMAIN leads, d \in present :
        /\ leads[i].district # d
        /\ leads' = [leads EXCEPT ![i] = [@ EXCEPT !.district = d,
                                      !.places = leads[i].places \cup {d}]]
  /\ UNCHANGED <<submissions, staff, status, present, lock, req, everStaff, raced, manual>>

-----------------------------------------------------------------------------
(* Users, mappings and districts change *)

\* replaceDistrictAssignments: an active district keeps a manager.
ReplaceDistrictStaff ==
  /\ edits < MaxEdits /\ edits' = edits + 1
  /\ \E d \in present : \E S \in SUBSET (EditableUsers \X {d}) :
        /\ staff' = (staff \ (EditableUsers \X {d})) \cup S
        /\ \E m \in Managers : <<m, d>> \in staff'
  /\ everStaff' = everStaff \cup staff'
  /\ UNCHANGED <<leads, submissions, status, present, lock, req, raced, manual>>

\* replaceUserDistrictAssignments knows no such rule.
ReplaceUserDistricts ==
  /\ edits < MaxEdits /\ edits' = edits + 1
  /\ \E u \in EditableUsers : \E S \in SUBSET ({u} \X present) :
        staff' = (staff \ ({u} \X Districts)) \cup S
  /\ everStaff' = everStaff \cup staff'
  /\ UNCHANGED <<leads, submissions, status, present, lock, req, raced, manual>>

\* changeUserStatus for approve and suspend looks at no lead.
ChangeStatus ==
  /\ edits < MaxEdits /\ edits' = edits + 1
  /\ \E u \in EditableUsers, s \in {"ACTIVE", "SUSPENDED"} :
        status[u] # s /\ status' = [status EXCEPT ![u] = s]
  /\ UNCHANGED <<leads, submissions, staff, present, lock, req, everStaff, raced, manual>>

\* Deactivation counts the active leads of the user first ...
StartDeactivate(r) ==
  /\ req[r].pc = "idle" /\ "deactivate" \in Kinds[r]
  /\ edits < MaxEdits /\ edits' = edits + 1
  /\ \E u \in EditableUsers :
        /\ Load(u) = 0
        /\ Set(r, [IdleReq EXCEPT !.pc = "drop", !.kind = "deactivate",
                                  !.exec = IF u \in Executives THEN u ELSE None,
                                  !.mgr = IF u \in Managers THEN u ELSE None])
        /\ Overlap({u}, "deactivate")
  /\ UNCHANGED <<leads, submissions, staff, status, present, lock, everStaff, manual>>

\* ... and writes the status later.
CommitDeactivate(r) ==
  /\ req[r].pc = "drop" /\ req[r].kind = "deactivate"
  /\ status' = [u \in Users |->
        IF u \in {req[r].exec, req[r].mgr} THEN "DEACTIVATED" ELSE status[u]]
  /\ Finish(r)
  /\ UNCHANGED <<leads, submissions, staff, present, lock, everStaff, raced, manual, edits>>

\* DELETE of a district counts its leads, removes its mappings, and then the
\* district, in three statements that are no transaction: when a lead came in
\* between, the mappings are gone and the district stays.
LeadsIn(d) == {i \in DOMAIN leads : leads[i].district = d}

StartRemove(r) ==
  /\ req[r].pc = "idle" /\ "remove" \in Kinds[r]
  /\ edits < MaxEdits /\ edits' = edits + 1
  /\ \E d \in present :
        /\ LeadsIn(d) = {}
        /\ Set(r, [IdleReq EXCEPT !.pc = "unmap", !.kind = "remove", !.district = d])
  /\ UNCHANGED <<leads, submissions, staff, status, present, lock, everStaff, raced, manual>>

RemoveMappings(r) ==
  /\ req[r].pc = "unmap"
  /\ staff' = staff \ (Users \X {req[r].district})
  /\ Set(r, [req[r] EXCEPT !.pc = "drop"])
  /\ UNCHANGED <<leads, submissions, status, present, lock, everStaff, raced, manual, edits>>

RemoveDistrict(r) ==
  /\ req[r].pc = "drop" /\ req[r].kind = "remove"
  /\ LeadsIn(req[r].district) = {}
  /\ present' = present \ {req[r].district}
  /\ Finish(r)
  /\ UNCHANGED <<leads, submissions, staff, status, lock, everStaff, raced, manual, edits>>

-----------------------------------------------------------------------------
(* Failures *)

\* MUTANT of Fail: an interactive transaction has no timeout.
FailOutsideTransaction(r) ==
  /\ req[r].pc # "idle" /\ ~ InTransaction(r)
  /\ Finish(r)
  /\ UNCHANGED <<leads, submissions, staff, status, present, lock, everStaff, raced, manual, edits>>

\* A refusal, a database error, or a timeout of the pool or the transaction.
\* The transaction rolls back and frees its lock and connection; a public
\* submission was stored before and goes on without a lead.
Fail(r) ==
  /\ req[r].pc # "idle"
  /\ ReleaseLock(r)
  /\ IF req[r].sub # 0 /\ req[r].pc # "tell"
       THEN Set(r, [IdleReq EXCEPT !.pc = "tell", !.kind = "public", !.sub = req[r].sub])
       ELSE Finish(r)
  /\ UNCHANGED <<leads, submissions, staff, status, present, everStaff, raced, manual, edits>>

Start(r) ==
  \/ StartCreate(r) \/ StartPublic(r) \/ StartAssign(r) \/ StartReassign(r)
  \/ StartDeactivate(r) \/ StartRemove(r)

Advance(r) ==
  \/ SaveSubmission(r) \/ Begin(r) \/ AcquireLock(r) \/ PickManager(r)
  \/ PickExecutive(r) \/ AskDatabase(r) \/ CommitCreate(r) \/ TellCustomer(r)
  \/ CheckExecutive(r) \/ CheckManager(r) \/ CommitAssign(r)
  \/ CommitDeactivate(r) \/ RemoveMappings(r) \/ RemoveDistrict(r)
  \/ Fail(r)

Edit ==
  \/ CloseLead \/ ReopenLead \/ MoveLead \/ ReplaceDistrictStaff
  \/ ReplaceUserDistricts \/ ChangeStatus

Next == Edit \/ \E r \in Requests : Start(r) \/ Advance(r) \/ AskCaches(r)

\* A request that came in goes on: the next statement returns, or the timeout
\* of the pool, of maxWait or of the transaction strikes.  That a cache is
\* fresh is nothing to rely on.
Spec == Init /\ [][Next]_vars /\ \A r \in Requests : WF_vars(Advance(r))

-----------------------------------------------------------------------------
(* What the intake promises *)

\* Automatic assignment exceeds the cap only by creations in other districts
\* of the executive, one each: the lock makes a district count what its own
\* creations have committed, and nothing orders two districts.
CapOvershoot ==
  \A e \in Executives :
     LET automatic == {i \in LeadsOf(e) : leads[i].origin # None}
         districts == {d \in Districts : <<e, d>> \in everStaff}
     IN automatic # {} => Cardinality(automatic) < Cap + Cardinality(districts)

\* Whoever is responsible for a lead was mapped at some time to a district the
\* lead was in, and the flag of a missing executive tells the truth, although
\* each writer checks the mapping on a read of its own and writes later.
ResponsiblesWereMapped ==
  \A i \in DOMAIN leads :
     /\ leads[i].flag <=> leads[i].exec = None
     /\ \A u \in {leads[i].exec, leads[i].mgr} \cap Users :
           \E d \in leads[i].places : <<u, d>> \in everStaff

\* "Cannot deactivate user with active lead assignments": a deactivated user
\* has none, unless a request that names the user, or a reopening, overlapped
\* the deactivation between its count and its write.
DeactivatedHoldNoLeads ==
  \A u \in Users \ raced : status[u] = "DEACTIVATED" => LeadsOf(u) = {}

\* Every request comes to an end: creations that hold all connections of the
\* pool and wait for another one, or for each other's lock, time out.
EveryRequestEnds ==
  \A r \in Requests : req[r].pc # "idle" ~> req[r].pc = "idle"

\* What every state is like: who is responsible was mapped, and who was
\* deactivated is responsible for nothing, but for a race.
AssignmentsAreSound == TypeOK /\ ResponsiblesWereMapped /\ DeactivatedHoldNoLeads
=============================================================================
