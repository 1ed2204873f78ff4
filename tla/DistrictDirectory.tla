------------------------- MODULE DistrictDirectory -------------------------
(***************************************************************************)
(* Who works in which district: the rows of districts and of               *)
(* user_district_assignments, written from four sides.  districts/page.tsx *)
(* saves the whole staff of one district (routes/districts.ts and          *)
(* districts.service.ts), users/[id]/page.tsx the whole list of districts  *)
(* of one user (PATCH /users/:id), a district can be deleted, and the      *)
(* script sync-districts-from-csv.ts merges, renames, deactivates and      *)
(* deletes districts while the API runs.  A page keeps what it was filled  *)
(* with, and a request takes several statements of the database.           *)
(***************************************************************************)
EXTENDS Naturals, FiniteSets

CONSTANTS
  Districts,  \* rows of districts there can be
  Users,      \* those who can be mapped to districts
  Admins,     \* open pages of districts, one for each request under way
  Keys, KeyOf,\* state and name of a district, as buildDistrictKey compares them
  Roles,      \* the roles the users have at first
  Scenes,     \* who is at work: "desk", "form", "sync"
  Exact,      \* the rows that are spelled as in the CSV
  MaxEvents   \* bound on what administrators choose and what others do

VARIABLES
  rows,    \* districts
  active,  \* those with is_active
  staff,   \* user_district_assignments
  role,    \* users.role
  live,    \* users whose status is ACTIVE
  leads,   \* districts with leads
  csv,     \* the keys in the CSV of the script
  desk,    \* the pages of districts, with the request each is at
  form,    \* the page of a user
  sync,    \* the script
  scene,   \* who is at work here
  events

vars == <<rows, active, staff, role, live, leads, csv, desk, form, sync, scene, events>>

-----------------------------------------------------------------------------
(* Shapes *)

Field == {"MANAGER", "EXECUTIVE"}
Rank == [EXECUTIVE |-> 1, MANAGER |-> 2, ADMIN |-> 3]
Pairs == Districts \X Users
Closed == [pc |-> "closed"]

Mapping == [staff : SUBSET Pairs, as : [Users -> DOMAIN Rank], up : SUBSET Users,
            rows : SUBSET Districts, active : SUBSET Districts]
\* A page goes through one request here.  The code disables the Save of the same
\* district alone meanwhile, and a request takes its selection along: a page with
\* several requests under way is as many pages that were filled alike.
\* `off` is what a selection left out, `raced` that the others
\* changed what the request had checked.
Desk == [pc : {"shown", "check", "roles", "write", "count", "unmap", "row", "reload"},
         d : Districts, data : Mapping, options : [Field -> SUBSET Users],
         pick : [Field -> SUBSET Pairs], off : SUBSET Pairs, raced : BOOLEAN]
Form == [pc : {"shown", "read", "commit", "reload"}, u : Users,
         data : [staff : SUBSET Pairs, role : DOMAIN Rank],
         pick : [staff : SUBSET Pairs, role : DOMAIN Rank],
         off : SUBSET Pairs, confirmed : BOOLEAN]
Sync == [pc : {"idle", "read", "done"}, rows : SUBSET Districts, refs : [Districts -> Nat]]

TypeOK ==
  /\ active \subseteq rows /\ rows \subseteq Districts /\ leads \subseteq rows
  /\ staff \subseteq rows \X Users
  /\ role \in [Users -> DOMAIN Rank] /\ live \subseteq Users
  /\ \A p \in Admins : desk[p] \in Desk \cup {Closed}
  /\ form \in Form \cup {Closed}
  /\ sync \in Sync
  /\ events \in 0 .. MaxEvents

StaffOf(d) == {u \in Users : <<d, u>> \in staff}
Managed(d, pairs, roles) == \E u \in Users : <<d, u>> \in pairs /\ roles[u] = "MANAGER"
Of(pairs, d) == {pr \in pairs : pr[1] = d}

Init ==
  /\ rows \in SUBSET Districts /\ rows # {}
  /\ active \in {rows, {}}
  /\ role = Roles
  /\ staff \in SUBSET (rows \X Users)
  /\ \A d \in active : Managed(d, staff, role)
  /\ live = Users
  /\ leads = {}
  /\ csv \in SUBSET Keys
  /\ desk = [p \in Admins |-> Closed]
  /\ form = Closed
  /\ sync = [pc |-> "idle", rows |-> {}, refs |-> [d \in Districts |-> 0]]
  /\ scene \in Scenes
  /\ events = 0

Event == events < MaxEvents /\ events' = events + 1

\* Somebody changes what the requests in these steps have checked already.
Racing(pcs, d, pages) == [p \in Admins |->
  IF pages[p].pc \in pcs /\ pages[p].d = d THEN [pages[p] EXCEPT !.raced = TRUE] ELSE pages[p]]

-----------------------------------------------------------------------------
(* The page of the districts *)

\* getDistrictAssignmentsPayload: users of other roles are left out.
Mappings ==
  LET pairs == {pr \in staff : role[pr[2]] \in Field}
      mapped == {pr[2] : pr \in pairs}
  IN [staff |-> pairs, rows |-> rows, active |-> active, up |-> live \cap mapped,
      as |-> [u \in Users |-> IF u \in mapped THEN role[u] ELSE "ADMIN"]]

DraftsOf(data) == [r \in Field |-> {pr \in data.staff : data.as[pr[2]] = r}]

\* The answer of GET /districts/mappings: drafts are filled anew, all of them,
\* when anything in it changed.
Refilled(page) ==
  IF page.data = Mappings THEN [page EXCEPT !.pc = "shown"]
  ELSE [page EXCEPT !.pc = "shown", !.data = Mappings, !.pick = DraftsOf(Mappings),
                    !.off = {}]

\* getActiveUsersByRole: the users that can be selected.
Listed == [r \in Field |-> {u \in live : role[u] = r}]

OpenDesk(p) ==
  /\ \/ /\ desk[p] = Closed
        /\ \E d \in rows : desk' = [desk EXCEPT ![p] =
             [pc |-> "shown", d |-> d, data |-> Mappings, options |-> Listed,
              pick |-> DraftsOf(Mappings), off |-> {}, raced |-> FALSE]]
     \/ /\ desk[p].pc = "shown"          \* the window has the focus again
        /\ <<desk[p].data, desk[p].options>> # <<Mappings, Listed>>
        /\ desk' = [desk EXCEPT ![p] = [Refilled(desk[p]) EXCEPT !.options = Listed]]
  /\ UNCHANGED <<rows, active, staff, role, live, leads, csv, form, sync, scene, events>>

\* After a request that succeeded.
ReloadDesk(p) ==
  /\ desk[p].pc = "reload"
  /\ desk' = [desk EXCEPT ![p] = Refilled(desk[p])]
  /\ UNCHANGED <<rows, active, staff, role, live, leads, csv, form, sync, scene, events>>

\* A selection is all that is highlighted among the options: those mapped who
\* are no option go with it.
Select(p) ==
  /\ desk[p].pc = "shown" /\ Event
  /\ \E d \in desk[p].data.rows, r \in Field : \E chosen \in SUBSET desk[p].options[r] :
       LET before == Of(desk[p].pick[r], d)
           after == {d} \X chosen
       IN /\ after # before
          /\ desk' = [desk EXCEPT ![p].pick[r] = (@ \ before) \cup after,
               ![p].off = (@ \cup before) \ after]
  /\ UNCHANGED <<rows, active, staff, role, live, leads, csv, form, sync, scene>>

\* MUTANT of NeedsManager: executives do as well.
NeedsManagerOrStaff(d, pick) == d \in active /\ \A r \in Field : Of(pick[r], d) = {}

\* An active district needs a manager.
NeedsManager(d, pick) == d \in active /\ Of(pick["MANAGER"], d) = {}

Save(p) ==
  /\ desk[p].pc = "shown"
  /\ \E d \in desk[p].data.rows :
       /\ d \in desk[p].data.active => Of(desk[p].pick["MANAGER"], d) # {}
       /\ desk' = [desk EXCEPT ![p].pc = "check", ![p].d = d, ![p].raced = FALSE]
  /\ UNCHANGED <<rows, active, staff, role, live, leads, csv, form, sync, scene, events>>

Step(p, pc) == desk' = [desk EXCEPT ![p].pc = pc]

\* PUT /districts/:id/mappings, and replaceDistrictAssignments up to its reads.
CheckDistrict(p) ==
  LET d == desk[p].d pick == desk[p].pick IN
  /\ desk[p].pc = "check"
  /\ \/ /\ d \notin rows \/ NeedsManager(d, pick)
              \/ Of(pick["MANAGER"], d) \cap Of(pick["EXECUTIVE"], d) # {}
        /\ Step(p, "shown")
     \/ /\ d \in rows /\ ~ NeedsManager(d, pick)
        /\ Of(pick["MANAGER"], d) \cap Of(pick["EXECUTIVE"], d) = {}
        /\ Step(p, "roles")
  /\ UNCHANGED <<rows, active, staff, role, live, leads, csv, form, sync, scene, events>>

RolesFit(d, pick) == \A r \in Field : \A pr \in Of(pick[r], d) : role[pr[2]] = r

CheckRoles(p) ==
  /\ desk[p].pc = "roles"
  /\ Step(p, IF RolesFit(desk[p].d, desk[p].pick) THEN "write" ELSE "shown")
  /\ UNCHANGED <<rows, active, staff, role, live, leads, csv, form, sync, scene, events>>

\* The transaction: all field staff of the district out, those listed in.
Replaced(d, pick) ==
  {pr \in staff : pr[1] = d => role[pr[2]] \notin Field}
    \cup Of(pick["MANAGER"], d) \cup Of(pick["EXECUTIVE"], d)

WriteMappings(p) ==
  LET d == desk[p].d IN
  /\ desk[p].pc = "write"
  /\ IF d \in rows
       THEN staff' = Replaced(d, desk[p].pick) /\ Step(p, "reload")
       ELSE Step(p, "shown") /\ UNCHANGED staff
  /\ UNCHANGED <<rows, active, role, live, leads, csv, form, sync, scene, events>>

\* PATCH /districts/:id, of which only is_active is told apart here.
SwitchDistrict(p) ==
  /\ desk[p].pc = "shown" /\ Event
  /\ \E d \in desk[p].data.rows :
       IF d \in rows
         THEN /\ active' \in {active \cup {d}, active \ {d}}
              /\ desk' = [Racing({"roles", "write"}, d, desk) EXCEPT ![p].pc = "reload"]
         ELSE UNCHANGED <<active, desk>>
  /\ UNCHANGED <<rows, staff, role, live, leads, csv, form, sync, scene>>

\* A row has an id of its own: no page and no script can know that of a new one.
Unknown(d) ==
  /\ \A p \in Admins : desk[p].pc # "closed" => d \notin desk[p].data.rows
  /\ form.pc # "closed" => \A pr \in form.data.staff \cup form.pick.staff : pr[1] # d
  /\ sync.pc = "read" => d \notin sync.rows

\* POST /districts: name and state are unique, and the script gave its own spelling
\* to the districts of the CSV.
CreateDistrict(p) ==
  /\ desk[p].pc = "shown" /\ Event
  /\ \E d \in Districts \ rows :
       /\ Unknown(d)
       /\ sync.pc = "done" /\ d \in Exact => KeyOf[d] \notin csv
       /\ rows' = rows \cup {d}
       /\ active' \in {active, active \cup {d}}
  /\ Step(p, "reload")
  /\ UNCHANGED <<staff, role, live, leads, csv, form, sync, scene>>

-----------------------------------------------------------------------------
(* DELETE /districts/:id, three statements after the first *)

StartDelete(p) ==
  /\ desk[p].pc = "shown"
  /\ \E d \in desk[p].data.rows :
       desk' = [desk EXCEPT ![p].pc = "count", ![p].d = d, ![p].raced = FALSE]
  /\ UNCHANGED <<rows, active, staff, role, live, leads, csv, form, sync, scene, events>>

\* MUTANT of Unused: the leads are left to the foreign key.
UnusedAnyway(d) == d \in rows

Unused(d) == d \in rows /\ d \notin leads

CountLeads(p) ==
  /\ desk[p].pc = "count"
  /\ Step(p, IF Unused(desk[p].d) THEN "unmap" ELSE "shown")
  /\ UNCHANGED <<rows, active, staff, role, live, leads, csv, form, sync, scene, events>>

Unmap(p) ==
  /\ desk[p].pc = "unmap"
  /\ staff' = staff \ Of(staff, desk[p].d)
  /\ Step(p, "row")
  /\ UNCHANGED <<rows, active, role, live, leads, csv, form, sync, scene, events>>

\* The foreign key of leads refuses, that of the assignments cascades.
DeleteRow(p) ==
  LET d == desk[p].d IN
  /\ desk[p].pc = "row"
  /\ IF d \in rows \ leads
       THEN /\ rows' = rows \ {d} /\ active' = active \ {d}
            /\ staff' = staff \ Of(staff, d)
            /\ Step(p, "reload")
       ELSE Step(p, "shown") /\ UNCHANGED <<rows, active, staff>>
  /\ UNCHANGED <<role, live, leads, csv, form, sync, scene, events>>

-----------------------------------------------------------------------------
(* The page of a user, PATCH /users/:id *)

UserData(u) == [staff |-> {pr \in staff : pr[2] = u}, role |-> role[u]]

OpenForm ==
  /\ form = Closed
  /\ \E u \in Users : form' = [pc |-> "shown", u |-> u, data |-> UserData(u),
       pick |-> UserData(u), off |-> {}, confirmed |-> FALSE]
  /\ UNCHANGED <<rows, active, staff, role, live, leads, csv, desk, sync, scene, events>>

\* After saving, or with the focus; the effect resets the form if the user changed.
ReloadForm ==
  /\ \/ form.pc = "reload"
     \/ form.pc = "shown" /\ form.data # UserData(form.u)
  /\ form' = IF form.data = UserData(form.u) THEN [form EXCEPT !.pc = "shown"]
             ELSE [form EXCEPT !.pc = "shown", !.data = UserData(form.u),
                               !.pick = UserData(form.u), !.off = {}]
  /\ UNCHANGED <<rows, active, staff, role, live, leads, csv, desk, sync, scene, events>>

EditForm ==
  /\ form.pc = "shown" /\ Event
  /\ \/ \E d \in rows : LET pr == <<d, form.u>> IN
          IF pr \in form.pick.staff
            THEN form' = [form EXCEPT !.pick.staff = @ \ {pr}, !.off = @ \cup {pr}]
            ELSE form' = [form EXCEPT !.pick.staff = @ \cup {pr}, !.off = @ \ {pr}]
     \/ \E r \in DOMAIN Rank \ {form.pick.role} : form' = [form EXCEPT !.pick.role = r]
  /\ UNCHANGED <<rows, active, staff, role, live, leads, csv, desk, sync, scene>>

\* Only a form that was changed is sent; a lower role is confirmed first, lower
\* than the one that was shown.
SubmitForm ==
  /\ form.pc = "shown" /\ form.pick # form.data
  /\ form' = [form EXCEPT !.pc = "read",
       !.confirmed = Rank[form.pick.role] < Rank[form.data.role]]
  /\ UNCHANGED <<rows, active, staff, role, live, leads, csv, desk, sync, scene, events>>

\* The districts sent, none for a role that has none.
Sent == IF form.pick.role \in Field THEN form.pick.staff ELSE {}

ReadUser ==
  /\ form.pc = "read"
  /\ LET known == \A pr \in Sent : pr[1] \in rows
         unconfirmed == Rank[form.pick.role] < Rank[role[form.u]] /\ ~ form.confirmed
     IN form' = [form EXCEPT !.pc = IF known /\ ~ unconfirmed THEN "commit" ELSE "shown"]
  /\ UNCHANGED <<rows, active, staff, role, live, leads, csv, desk, sync, scene, events>>

\* MUTANT of Reassigned: the assignments are all taken out for a new role.
ReassignedByRole(u, pairs) ==
  IF role[u] # form.pick.role THEN {pr \in staff : pr[2] # u}
  ELSE {pr \in staff : pr[2] # u} \cup pairs

\* replaceUserDistrictAssignments.
Reassigned(u, pairs) == {pr \in staff : pr[2] # u} \cup pairs

CommitUser ==
  /\ form.pc = "commit"
  /\ IF \A pr \in Sent : pr[1] \in rows
       THEN /\ role' = [role EXCEPT ![form.u] = form.pick.role]
            /\ staff' = Reassigned(form.u, Sent)
            /\ form' = [form EXCEPT !.pc = "reload"]
            /\ desk' = [p \in Admins |->
                 IF desk[p].pc = "write" THEN [desk[p] EXCEPT !.raced = TRUE] ELSE desk[p]]
       ELSE form' = [form EXCEPT !.pc = "shown"] /\ UNCHANGED <<role, staff, desk>>
  /\ UNCHANGED <<rows, active, live, leads, csv, sync, scene, events>>

-----------------------------------------------------------------------------
(* The script, and what the rest of the system does *)

\* readCurrentDistrictRows, the first statement of the transaction.
ReadSync ==
  /\ sync.pc = "idle"
  /\ sync' = [pc |-> "read", rows |-> rows, refs |-> [d \in Districts |->
       Cardinality(StaffOf(d)) + (IF d \in leads THEN 1 ELSE 0)]]
  /\ UNCHANGED <<rows, active, staff, role, live, leads, csv, desk, form, scene, events>>

Group(k) == {d \in sync.rows : KeyOf[d] = k}

\* pickSurvivor, the oldest of equals being any.
Survives(d, k) ==
  /\ d \in Group(k)
  /\ \/ k \in csv /\ d \in Exact
     \/ /\ k \in csv => Group(k) \cap Exact = {}
        /\ \A e \in Group(k) : sync.refs[e] <= sync.refs[d]

\* A district that is missing in the CSV is kept while anything refers to it.
Kept(d, k) == k \in csv \/ \E e \in Group(k) : sync.refs[e] > 0

\* mergeDistrictIntoSurvivor.
Merged(pairs, into) == {<<into[pr[1]], pr[2]>> : pr \in pairs}

\* The rest of the transaction, one step here.  It fails, and nothing is written,
\* when a row it read is gone, when a name is taken meanwhile, or when a lead was
\* raised in a district that it deletes.
ApplySync ==
  /\ sync.pc = "read"
  /\ sync' = [sync EXCEPT !.pc = "done"]
  /\ \E best \in [Keys -> Districts], fresh \in [Keys -> Districts] :
       LET old == {k \in Keys : Group(k) # {}}
           new == {k \in csv : Group(k) = {}}
           into == [d \in Districts |-> IF d \in sync.rows THEN best[KeyOf[d]] ELSE d]
           kept == {best[k] : k \in {l \in old : Kept(best[l], l)}}
           gone == sync.rows \ kept
           added == {fresh[k] : k \in new}
           doomed == {best[k] : k \in old} \ kept
           fails == \/ ~ sync.rows \subseteq rows
                    \/ added \cap rows # {}
                    \/ doomed \cap {into[d] : d \in leads} # {}
                    \/ \E k \in csv \cap old : best[k] \notin Exact
                         /\ \E e \in Exact \cap rows : KeyOf[e] = k
       IN /\ \A k \in Keys : IF k \in old THEN Survives(best[k], k)
                             ELSE best[k] = CHOOSE d \in Districts : TRUE
          /\ \A k \in Keys : IF k \in new THEN KeyOf[fresh[k]] = k
                                          /\ fresh[k] \in Exact
                             ELSE fresh[k] = CHOOSE d \in Districts : TRUE
          /\ IF fails THEN UNCHANGED <<rows, active, staff, leads, desk>>
             ELSE /\ rows' = (rows \ gone) \cup added
                  /\ active' = (active \ ({d \in sync.rows : KeyOf[d] \notin csv} \cup gone))
                       \cup added \cup {best[k] : k \in csv \cap old}
                  /\ staff' = {pr \in Merged(staff, into) : pr[1] \notin doomed}
                  /\ leads' = {into[d] : d \in leads}
                  /\ desk' = [p \in Admins |->
                       IF desk[p].pc \in {"roles", "write", "unmap", "row"} THEN
                         [desk[p] EXCEPT !.raced = TRUE] ELSE desk[p]]
  /\ UNCHANGED <<role, live, csv, form, scene, events>>

\* A lead is raised in an active district.
RaiseLead ==
  /\ Event
  /\ \E d \in active \ leads :
       /\ leads' = leads \cup {d}
       /\ desk' = Racing({"unmap", "row"}, d, desk)
  /\ UNCHANGED <<rows, active, staff, role, live, csv, form, sync, scene>>

\* A user is suspended or deactivated and keeps his assignments.
Suspend ==
  /\ Event
  /\ \E u \in live : live' = live \ {u}
  /\ UNCHANGED <<rows, active, staff, role, leads, csv, desk, form, sync, scene>>

-----------------------------------------------------------------------------

DeskStep(p) ==
  \/ OpenDesk(p) \/ ReloadDesk(p) \/ Select(p) \/ Save(p) \/ CheckDistrict(p)
  \/ CheckRoles(p) \/ WriteMappings(p) \/ SwitchDistrict(p) \/ CreateDistrict(p)
  \/ StartDelete(p) \/ CountLeads(p) \/ Unmap(p) \/ DeleteRow(p)

FormStep == OpenForm \/ ReloadForm \/ EditForm \/ SubmitForm \/ ReadUser \/ CommitUser

Next ==
  \/ "desk" \in scene /\ \E p \in Admins : DeskStep(p)
  \/ "form" \in scene /\ FormStep
  \/ "sync" \in scene /\ (ReadSync \/ ApplySync)
  \/ RaiseLead \/ Suspend

Spec == Init /\ [][Next]_vars

-----------------------------------------------------------------------------
(* Properties *)

\* Nobody is dropped from a district but by a selection that left him out, by a page
\* that had not shown him, with the district, or with a role that has no districts;
\* and the script leaves everybody in the row that took over.
DroppedOnPurpose ==
  [][\A pr \in staff \ staff' :
       \/ \E p \in Admins :
            /\ \/ desk[p].pc = "write" /\ (pr \in desk[p].off \/ pr \notin desk[p].data.staff)
               \/ desk[p].pc \in {"unmap", "row"}
            /\ desk[p].d = pr[1]
       \/ form.pc = "commit" /\ form.u = pr[2]
            /\ (pr \in form.off \/ pr \notin form.data.staff \/ role'[pr[2]] \notin Field)
       \/ /\ pr[1] \notin rows'
          /\ \/ \E d \in rows' : KeyOf[d] = KeyOf[pr[1]] /\ <<d, pr[2]>> \in staff'
             \/ sync.pc = "read" /\ Group(KeyOf[pr[1]]) # {}
                  /\ \A d \in Group(KeyOf[pr[1]]) : sync.refs[d] = 0]_vars

\* The deletion of a district that is refused in the end has left its staff where
\* they were, unless a lead was raised between its statements.
RefusedDeleteWasRaced ==
  [][\A p \in Admins :
       desk[p].pc = "row" /\ desk'[p].pc = "shown" /\ desk[p].d \in rows
         => desk[p].raced]_vars

\* Saving the staff of an active district leaves it somebody of the role MANAGER,
\* unless the district was switched, the script ran or a user was saved while the
\* request was under way.  This is a promise of PUT /districts/:id/mappings alone:
\* switching a district on asks for no manager, and the page of a user takes the
\* last one out, his districts or his role, without a question.
SaveKeepsManager ==
  [][\A p \in Admins :
       desk[p].pc = "write" /\ desk'[p].pc = "reload" /\ desk[p].d \in active
         => Managed(desk[p].d, staff', role) \/ desk[p].raced]_vars
=============================================================================
