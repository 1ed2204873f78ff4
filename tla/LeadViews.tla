------------------------------ MODULE LeadViews ------------------------------
(***************************************************************************)
(* What the screens show of the leads while the leads change: the list of  *)
(* the mobile app, read page by page and kept on the device, its home      *)
(* screen, the list of the web portal, the dashboard and the reports,      *)
(* whose figures come from queries of their own in several rounds.  The    *)
(* handlers that change leads are one step each here; LeadLifecycle and    *)
(* LeadIntake have their steps.                                            *)
(***************************************************************************)
EXTENDS Naturals, Sequences, FiniteSetsExt

CONSTANTS
  Executives,   \* field executives
  Districts,    \* districts
  Works,        \* districts each executive is mapped to
  Managed,      \* districts the manager may be mapped to
  Device,       \* the executives who use the mobile device
  Viewers,      \* users of the dashboard: "admin", "manager" and executives
  Stock,        \* the leads at the start, in the order of their creation
  Filters,      \* filters the portal's users ask for
  PageSize,     \* leads on a page: 100 on the mobile list
  HomeCap,      \* leads the home screen is computed from: 200
  MaxLeads,     \* bound on the leads ever created
  MaxChanges    \* bound on the changes of leads, users and mappings

Nobody == "nobody"
All == "any"

\* Classes of statuses: before the site visit, after it, and terminal.
Statuses == {"open", "visited", "complete"}
Terminal == {"complete"}
NoLead == [gone |-> TRUE]
NoAct == [pc |-> "idle"]
\* An empty list on the device counts for none.
NoList == [rows |-> {}, drift |-> 0]

Lead == [exec : Executives \cup {Nobody}, owned : BOOLEAN, status : Statuses,
         district : Districts, overdue : BOOLEAN,
         visitor : Executives \cup {Nobody}]
Filter == [exec : Executives \cup {All}, district : Districts \cup {All}]

VARIABLES
  leads,    \* the leads, by the order of their creation
  recent,   \* <<k, l>>: k was updated after l
  active,   \* executives whose status is ACTIVE
  managed,  \* districts the manager is mapped to
  view,     \* the screen that is open
  session,  \* the executive who is signed in on the device
  cache,    \* the list each executive has on the device, and how old it is
  late,     \* those who signed out while their list was read
  act,      \* what a user of the portal has asked for
  changes

vars == <<leads, recent, active, managed, view, session, cache, late, act, changes>>

-----------------------------------------------------------------------------
(* Who sees what *)

Closed == [kind |-> "closed"]
Ids == DOMAIN leads
Live == {l \in Ids : leads[l] # NoLead}
IsOpen == view.kind # "closed"
Reading == IsOpen /\ view.pc = "reading"
Shown(kind) == view.kind = kind /\ view.pc = "shown"

\* buildLeadAccessScope: a manager sees the leads given to him and those of his
\* districts, an executive his own.
Sees(who, lead, districts) ==
  \/ who = "admin"
  \/ who = "manager" /\ (lead.owned \/ lead.district \in districts)
  \/ who = lead.exec

\* The conditions of a query that matter here; the others read the lead alone
\* as well.
Satisfies(lead, filter) ==
  /\ filter.exec \in {All, lead.exec}
  /\ filter.district \in {All, lead.district}

Matches(who, filter, lead, districts) ==
  lead # NoLead /\ Sees(who, lead, districts) /\ Satisfies(lead, filter)

\* What the list of the mobile app asks for.
Own(e) == [exec |-> e, district |-> All]

Matching(who, filter) == {l \in Ids : Matches(who, filter, leads[l], managed)}

Newer(found, l) == Cardinality({k \in found : k > l})

\* MUTANT of OnPage: the first page is skipped.
OnPageFromOne(found, page) ==
  {l \in found : Newer(found, l) \in page * PageSize .. (page + 1) * PageSize - 1}

\* GET /api/leads: the newest leads first, `page` from 1.
OnPage(found, page) ==
  {l \in found : Newer(found, l) \in (page - 1) * PageSize .. page * PageSize - 1}

Pages(found) == (Cardinality(found) + PageSize - 1) \div PageSize

-----------------------------------------------------------------------------
(* The leads change *)

Init ==
  /\ leads = Stock
  /\ recent = {pr \in Live \X Live : pr[1] > pr[2]}
  /\ active = Executives
  /\ managed = Managed
  /\ view = Closed
  /\ session = Nobody /\ cache = [e \in Executives |-> NoList] /\ late = {}
  /\ act = NoAct
  /\ changes = 0

\* What the open screen regards of a lead: the list only whether it is there.
Regard(lead, districts) ==
  LET there == Matches(view.who, view.filter, lead, districts) IN
  IF view.kind = "list" THEN <<there>> ELSE IF there THEN <<lead>> ELSE <<>>

At(l, all) == IF l \in DOMAIN all THEN all[l] ELSE NoLead

\* The open screen drifts from the leads by each lead it regards differently;
\* that a row of the portal is stale is noted with the act on it.
Drift ==
  view' =
    IF ~ (Reading \/ Shown("list") \/ Shown("home")) THEN view
    ELSE LET changed == {l \in DOMAIN leads' :
               Regard(At(l, leads), managed) # Regard(leads'[l], managed')}
         IN [view EXCEPT !.drift = @ + Cardinality(changed),
               !.steady = {l \in @ : Matches(view.who, view.filter, leads'[l], managed')}]

\* A list on the device drifts by the leads on it that stop being its owner's.
Age ==
  cache' = [e \in Executives |-> [cache[e] EXCEPT !.drift =
    @ + Cardinality({l \in cache[e].rows : /\ Matches(e, Own(e), leads[l], managed)
                                          /\ ~ Matches(e, Own(e), leads'[l], managed')})]]

\* What the server has read for an act is no longer so.
Overtake ==
  act' = IF act.pc = "checked" /\ leads[act.lead] # leads'[act.lead]
           THEN [act EXCEPT !.raced = TRUE] ELSE act

Change == changes < MaxChanges /\ changes' = changes + 1 /\ Drift /\ Age
Untouched(l) == {pr \in recent : l \notin {pr[1], pr[2]}}
Touched(l) == Untouched(l) \cup {<<l, k>> : k \in Live \ {l}}

Write(l, lead) ==
  /\ leads[l] # NoLead /\ lead # leads[l]
  /\ leads' = [leads EXCEPT ![l] = lead]
  /\ recent' = Touched(l)
  /\ UNCHANGED <<active, managed, session, late>>
  /\ Change

Update(l, lead) == Write(l, lead) /\ Overtake

\* POST /:id/assign and /:id/reassign: an active executive of the district.
Reassign(l) ==
  /\ leads[l] # NoLead
  /\ \E e \in active, owned \in {leads[l].owned, TRUE} :
        /\ leads[l].district \in Works[e]
        /\ Update(l, [leads[l] EXCEPT !.exec = e, !.owned = owned])

\* POST /:id/transition; a visit is done by the executive of the lead.
Move(l) ==
  /\ leads[l] # NoLead
  /\ \E s \in Statuses \ {leads[l].status} :
        Update(l, [leads[l] EXCEPT !.status = s,
                     !.visitor = IF s = "visited" THEN leads[l].exec ELSE @])

\* runSlaOverdueCheck and PATCH /:id.
Flag(l) ==
  /\ leads[l] # NoLead
  /\ Update(l, [leads[l] EXCEPT !.overdue = ~ @])

DeleteLead(l) ==
  /\ leads[l] # NoLead
  /\ leads' = [leads EXCEPT ![l] = NoLead]
  /\ recent' = Untouched(l)
  /\ UNCHANGED <<active, managed, session, late>>
  /\ Change /\ Overtake

CreateLead ==
  /\ Len(leads) < MaxLeads
  /\ \E e \in active \cup {Nobody}, d \in Districts :
        /\ e # Nobody => d \in Works[e]
        /\ leads' = Append(leads, [exec |-> e, owned |-> FALSE, status |-> "open",
              district |-> d, overdue |-> FALSE, visitor |-> Nobody])
  /\ recent' = Touched(Len(leads) + 1)
  /\ UNCHANGED <<active, managed, session, late>>
  /\ Change /\ Overtake

\* Suspension, which looks at no lead, and activation.
ChangeUser ==
  /\ \E e \in Executives :
        active' = IF e \in active THEN active \ {e} ELSE active \cup {e}
  /\ UNCHANGED <<leads, recent, managed, session, late>>
  /\ Change /\ Overtake

MapManager ==
  /\ \E d \in Managed :
        managed' = IF d \in managed THEN managed \ {d} ELSE managed \cup {d}
  /\ UNCHANGED <<leads, recent, active, session, late>>
  /\ Change /\ Overtake

-----------------------------------------------------------------------------
(* Screens open and close: one at a time, and those of the portal while nobody *)
(* is signed in on the device, since they share nothing but the leads.         *)

Open(kind, who, filter, todo) ==
  /\ ~ IsOpen
  /\ view' = [kind |-> kind, who |-> who, filter |-> filter, pc |-> "reading",
              drift |-> 0, steady |-> Matching(who, filter),
              page |-> 1, pages |-> 0, rows |-> {}, how |-> "whole",
              overdue |-> 0, table |-> << >>, round |-> 1, todo |-> todo, got |-> << >>]
  /\ UNCHANGED <<leads, recent, active, managed, session, cache, late, act, changes>>

\* What was asked for on a page ends before the page is left: the server would
\* go on the same.
Close ==
  /\ IsOpen /\ act.pc = "idle" /\ view' = Closed
  /\ UNCHANGED <<leads, recent, active, managed, session, cache, late, act, changes>>

Reads(next) ==
  /\ view' = next
  /\ UNCHANGED <<leads, recent, active, managed, session, late, act, changes>>

-----------------------------------------------------------------------------
(* The list of the mobile app *)

OpenList ==
  /\ session # Nobody
  /\ Open("list", session, Own(session), {})

\* One page; the first one tells how many there are.
ReadPage ==
  /\ Reading /\ view.kind = "list" /\ (view.pages = 0 \/ view.page <= view.pages)
  /\ LET found == Matching(view.who, view.filter) IN
     Reads([view EXCEPT !.rows = @ \cup OnPage(found, view.page), !.page = @ + 1,
              !.pages = IF view.page = 1 THEN Max({1, Pages(found)}) ELSE @])
  /\ UNCHANGED cache

\* A page fails: the list ends before it.
PageFails ==
  /\ Reading /\ view.kind = "list" /\ view.page \in 2 .. view.pages
  /\ Reads([view EXCEPT !.page = view.pages + 1, !.how = "partial"])
  /\ UNCHANGED cache

\* The list is shown and kept on the device for its user.
ShowList ==
  /\ Reading /\ view.kind = "list" /\ view.pages # 0 /\ view.page > view.pages
  /\ Reads([view EXCEPT !.pc = "shown"])
  /\ cache' = [cache EXCEPT ![view.who] = [rows |-> view.rows, drift |-> view.drift]]

\* The first page fails: the list on the device is shown, however old, or none.
ShowCached ==
  /\ Reading /\ view.kind = "list" /\ view.page = 1
  /\ LET kept == cache[view.who] IN
     Reads([view EXCEPT !.pc = "shown", !.rows = kept.rows, !.drift = kept.drift,
              !.how = IF kept.rows = {} THEN "failed" ELSE "cached"])
  /\ UNCHANGED cache

SignIn ==
  /\ session = Nobody /\ ~ IsOpen
  /\ session' \in Device \cap active
  /\ UNCHANGED <<leads, recent, active, managed, view, cache, late, act, changes>>

\* logout and handleAuthFailure remove what is cached for the user; a list that
\* is being read goes on.
SignOut ==
  /\ session # Nobody
  /\ late' = IF Reading /\ view.kind = "list" THEN late \cup {session} ELSE late
  /\ cache' = [cache EXCEPT ![session] = NoList]
  /\ session' = Nobody
  /\ UNCHANGED <<leads, recent, active, managed, view, act, changes>>

-----------------------------------------------------------------------------
(* The home screen of the mobile app *)

OpenHome ==
  session # Nobody /\ Open("home", session, [exec |-> All, district |-> All], {})

Overdue(of) == {l \in of : leads[l].overdue /\ leads[l].status \notin Terminal}

\* The leads updated last, up to the cap.
Latest(who) ==
  LET mine == Matching(who, view.filter) IN
  {l \in mine : Cardinality({k \in mine : <<k, l>> \in recent}) < HomeCap}

\* Every minute the figures are read again.
ReadHome ==
  /\ view.kind = "home"
  /\ Reads([view EXCEPT !.pc = "shown", !.drift = 0, !.how = "whole",
              !.overdue = Cardinality(Overdue(Latest(view.who)))])
  /\ UNCHANGED cache

\* They could not be read: the screen shows that no lead is overdue.
HomeFails ==
  /\ view.kind = "home"
  /\ Reads([view EXCEPT !.pc = "shown", !.drift = 0, !.how = "failed", !.overdue = 0])
  /\ UNCHANGED cache

-----------------------------------------------------------------------------
(* The list of the portal *)

OpenPage ==
  session = Nobody /\ \E who \in Viewers \ Executives, filter \in Filters :
     Open("page", who, filter, {})

\* The page that is asked for; a new filter starts from the first page.  Every
\* action on a row reads the page again.
ReadPortalPage ==
  /\ view.kind = "page"
  /\ \E filter \in Filters, page \in 1 .. MaxLeads :
        /\ page = 1 \/ (filter = view.filter /\ page <= Pages(Matching(view.who, filter)))
        /\ LET rows == OnPage(Matching(view.who, filter), page) IN
           Reads([view EXCEPT !.pc = "shown", !.filter = filter, !.page = page, !.drift = 0,
                    !.steady = {}, !.table = [l \in rows |-> leads[l]]])
  /\ UNCHANGED cache

\* `to` is the executive or the status that is asked for.
Ask(l, what, to) ==
  /\ act.pc = "idle"
  /\ act' = [pc |-> "sent", lead |-> l, what |-> what, to |-> to, raced |-> FALSE]
  /\ UNCHANGED <<leads, recent, active, managed, view, session, cache, late, changes>>

\* onAssign: a reassignment, with its reason, when the row shows another
\* executive.
PageAssign(l) ==
  /\ Shown("page") /\ l \in DOMAIN view.table
  /\ \E e \in active :
        Ask(l, IF view.table[l].exec \in {Nobody, e} THEN "assign" ELSE "reassign", e)

\* onChangeStatus: a reason is asked for when the row shows a terminal status.
PageMove(l) ==
  /\ Shown("page") /\ l \in DOMAIN view.table
  /\ \E s \in Statuses :
        IF view.table[l].status \in Terminal
          THEN view.who = "admin" /\ Ask(l, "reopen", s)
          ELSE Ask(l, "move", s)

\* onDeleteLead.
PageDelete(l) ==
  /\ Shown("page") /\ l \in DOMAIN view.table /\ view.who = "admin"
  /\ Ask(l, "delete", Nobody)

\* MUTANT of Allowed: /assign takes any lead.
AllowedAnyAssign(lead) ==
  CASE act.what = "assign" -> TRUE
    [] act.what = "reassign" -> lead.exec \notin {Nobody, act.to}
    [] act.what = "move" -> lead.status \notin Terminal \cup {act.to}
    [] act.what = "reopen" -> lead.status # act.to
    [] act.what = "delete" -> TRUE

\* What the handlers require of the lead they read.
Allowed(lead) ==
  CASE act.what = "assign" -> lead.exec = Nobody
    [] act.what = "reassign" -> lead.exec \notin {Nobody, act.to}
    [] act.what = "move" -> lead.status \notin Terminal \cup {act.to}
    [] act.what = "reopen" -> lead.status # act.to
    [] act.what = "delete" -> TRUE

ServerReads ==
  /\ act.pc = "sent"
  /\ act' = IF leads[act.lead] # NoLead /\ Allowed(leads[act.lead])
              THEN [act EXCEPT !.pc = "checked"] ELSE NoAct
  /\ UNCHANGED <<leads, recent, active, managed, view, session, cache, late, changes>>

\* The lead as the handler leaves it, whatever it has become meanwhile.
Written(lead) ==
  CASE act.what \in {"assign", "reassign"} -> [lead EXCEPT !.exec = act.to]
    [] act.what \in {"move", "reopen"} -> [lead EXCEPT !.status = act.to]
    [] act.what = "delete" -> NoLead

ServerWrites ==
  /\ act.pc = "checked" /\ act' = NoAct
  /\ Write(act.lead, Written(leads[act.lead]))

\* The lead is gone, or as it should be, or the request failed.
ServerRefuses ==
  /\ act.pc # "idle" /\ act' = NoAct
  /\ UNCHANGED <<leads, recent, active, managed, view, session, cache, late, changes>>

-----------------------------------------------------------------------------
(* The dashboard and the reports *)

\* Queries whose answers belong together are asked at once, in rounds.
Rounds(kind) ==
  IF kind = "dashboard"
    THEN <<{"statuses", "districts", "executives", "assigned", "active", "terminal"},
           {"visits"}>>
    ELSE <<{"statuses", "districts"}, {"completed"}, {"executives"},
           {"assigned"}, {"visits"}>>

\* The executives a dashboard or report has rows for.
Listed(who, filter) ==
  {e \in active : /\ filter.exec \in {All, e}
                  /\ filter.district \in Works[e] \cup {All}
                  /\ who \in Executives => e = who
                  /\ who = "manager" => Works[e] \cap managed # {}}

Of(e, found) == {l \in found : leads[l].exec = e}

\* MUTANT of ActiveOf: overdue leads are no active ones.
ActiveOfInTime(e, found) ==
  {l \in Of(e, found) : leads[l].status \notin Terminal /\ ~ leads[l].overdue}

ActiveOf(e, found) == {l \in Of(e, found) : leads[l].status \notin Terminal}

\* The answer of one query.
Figure(f, found, who, filter) ==
  CASE f = "statuses" -> [s \in Statuses |-> Cardinality({l \in found : leads[l].status = s})]
    [] f = "districts" -> [d \in Districts |-> Cardinality({l \in found : leads[l].district = d})]
    [] f = "completed" -> [d \in Districts |-> Cardinality({l \in found :
          leads[l].district = d /\ leads[l].status \in Terminal})]
    [] f = "executives" -> Listed(who, filter)
    [] f = "assigned" -> [e \in Executives |-> Cardinality(Of(e, found))]
    [] f = "active" -> [e \in Executives |-> Cardinality(ActiveOf(e, found))]
    [] f = "terminal" -> [e \in Executives |-> Cardinality(
          {l \in Of(e, found) : leads[l].status \in Terminal})]
    [] f = "visits" -> [e \in Executives |-> Cardinality({l \in found : leads[l].visitor = e})]

OpenGather(kind) ==
  session = Nobody /\ \E who \in IF kind = "report" THEN Viewers \ Executives ELSE Viewers, filter \in Filters :
     Open(kind, who, filter, Rounds(kind)[1])

\* A query of the round is answered: all see their own moment.
Answer(f) ==
  /\ Reading /\ view.kind \in {"dashboard", "report"} /\ f \in view.todo
  /\ LET found == Matching(view.who, view.filter)
         got == [g \in DOMAIN view.got \cup {f} |->
                  IF g = f THEN Figure(f, found, view.who, view.filter) ELSE view.got[g]]
         left == view.todo \ {f}
         last == view.round = Len(Rounds(view.kind))
     IN Reads([view EXCEPT !.got = got,
                 !.todo = IF left = {} /\ ~ last THEN Rounds(view.kind)[view.round + 1] ELSE left,
                 !.round = IF left = {} /\ ~ last THEN @ + 1 ELSE @,
                 !.pc = IF left = {} /\ last THEN "shown" ELSE @])
  /\ UNCHANGED cache

-----------------------------------------------------------------------------
Changing ==
  \/ \E l \in Ids : Reassign(l) \/ Move(l) \/ Flag(l) \/ DeleteLead(l)
  \/ CreateLead \/ ChangeUser \/ MapManager

Screens ==
  \/ OpenList \/ ReadPage \/ PageFails \/ ShowList \/ ShowCached
  \/ OpenHome \/ ReadHome \/ HomeFails \/ OpenPage \/ ReadPortalPage
  \/ \E l \in Ids : PageAssign(l) \/ PageMove(l) \/ PageDelete(l)
  \/ ServerReads \/ ServerWrites \/ ServerRefuses
  \/ \E kind \in {"dashboard", "report"} : OpenGather(kind)
  \/ \E f \in {"statuses", "districts", "completed", "executives", "assigned", "active",
               "terminal", "visits"} : Answer(f)
  \/ Close \/ SignIn \/ SignOut

Next == Changing \/ Screens

Spec == Init /\ [][Next]_vars
-----------------------------------------------------------------------------
(* What the screens may be trusted with *)

Abs(m, n) == IF m > n THEN m - n ELSE n - m
\* The sum of the numbers of a figure.
Total(figure) == Cardinality(UNION {{g} \X (1 .. figure[g]) : g \in DOMAIN figure})

\* The list of the mobile app: when it was read to its end, it misses of the leads
\* that were the executive's all along at most one for each lead that came or went
\* since it was opened.  Read or from the device, however old, it shows no more
\* leads that are not his than came or went since it was read.
ListLagsByDrift ==
  Shown("list") =>
    LET mine == Matching(view.who, view.filter) IN
    /\ view.how = "whole" => Cardinality(view.steady \ view.rows) <= view.drift
    /\ Cardinality(view.rows \ mine) <= view.drift

\* The home screen, unless its last read failed: its number of overdue leads
\* differs from the true one by no more than the leads that changed since it was
\* read, and those that are not among the ones updated last.
HomeLagsByDrift ==
  Shown("home") /\ view.how = "whole" =>
    LET mine == Matching(view.who, view.filter)
        urgent == {l \in mine : leads[l].overdue /\ leads[l].status \notin Terminal}
        beyond == Cardinality(mine) - Cardinality(Latest(view.who))
    IN Abs(view.overdue, Cardinality(urgent)) <= view.drift + beyond

\* The figures of one answer: they contradict each other by no more leads than
\* changed while they were gathered.
GapsAreCounted ==
  /\ Shown("dashboard") =>
       /\ Abs(Total(view.got["statuses"]), Total(view.got["districts"])) <= view.drift
       /\ \A e \in view.got["executives"] :
             Abs(view.got["assigned"][e], view.got["active"][e] + view.got["terminal"][e])
               <= view.drift
  /\ Shown("report") =>
       /\ Abs(Total(view.got["statuses"]), Total(view.got["districts"])) <= view.drift
       /\ \A d \in Districts : view.got["completed"][d] <= view.got["districts"][d] + view.drift
       /\ Total(view.got["assigned"]) <= Total(view.got["districts"]) + view.drift

\* A user of the portal acts on a row that may be old.  An assignment that was
\* not meant to replace an executive, or a move without a reason out of a
\* terminal status, happens only when the lead changed under the handler.
BlindActsWereRaced ==
  [][LET lead == leads[act.lead] IN
     ServerWrites =>
       \/ act.raced
       \/ /\ act.what = "assign" => lead.exec = Nobody
          /\ act.what = "move" => lead.status \notin Terminal]_vars

\* What is cached on the device is of its user; a user who signed out leaves a
\* list behind only when it was being read at that time.
CacheOfSignedOut == \A e \in Executives : cache[e].rows # {} => e = session \/ e \in late

\* The list of the mobile app and, unless its last read failed, the home screen lag
\* behind by what changed, and what is kept for users who are signed out is explained.
ScreensLagByDrift == ListLagsByDrift /\ HomeLagsByDrift /\ CacheOfSignedOut
=============================================================================
