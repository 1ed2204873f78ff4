----------------------------- MODULE SlaMonitor -----------------------------
(***************************************************************************)
(* is_overdue and overdue_at of the leads: the SLA monitor of each server *)
(* process (services/sla-overdue.service.ts) takes a snapshot of the      *)
(* candidates and then writes them one by one, while handlers move leads  *)
(* to other statuses, PATCH sets or clears the flag, administrators edit  *)
(* the statuses, and time passes.  The clock is abstract: a lead is late  *)
(* once its status has an SLA and the lead has been in it for longer.     *)
(* Left out: the inactivity reminders of the same round, and recipients.  *)
(***************************************************************************)
EXTENDS Naturals, FiniteSets

CONSTANTS
  Leads,
  Statuses,
  InitialKind,  \* of each status: "sla", "free" (no SLA) or "terminal"
  EditKinds,    \* the kinds an administrator may turn a status into
  Servers,      \* server processes, each with its own timer and isRunning
  MaxFaults     \* bound on the rounds that end with an error

Kinds == {"sla", "free", "terminal"}

ASSUME SlaAssumption ==
  /\ InitialKind \in [Statuses -> Kinds]
  /\ EditKinds \subseteq Kinds
  /\ MaxFaults \in Nat

VARIABLES
  kind,    \* sla_duration_hours and is_terminal of each status
  lead,    \* status, is_overdue, whether overdue_at is set, lateness
  mon,     \* the round of each server: the candidates not yet handled, and
           \* the lead whose breach is still to be notified
  faults

vars == <<kind, lead, mon, faults>>

-----------------------------------------------------------------------------
(* Shapes *)

Lead == [status : Statuses, overdue : BOOLEAN, at : BOOLEAN, late : BOOLEAN]

\* A candidate as the snapshot saw it.
Candidate == [lead : Leads, exceeded : BOOLEAN, overdue : BOOLEAN, at : BOOLEAN]

NoRound == [pc |-> "off", todo |-> {}, alert |-> {}]
Round == [pc : {"off", "on"}, todo : SUBSET Candidate, alert : SUBSET Leads]

\* Only a lead in a status with an SLA is late.
TypeOK ==
  /\ kind \in [Statuses -> Kinds]
  /\ lead \in [Leads -> Lead]
  /\ mon \in [Servers -> Round]
  /\ faults \in 0 .. MaxFaults
  /\ \A l \in Leads : lead[l].late => kind[lead[l].status] = "sla"

Init ==
  /\ kind = InitialKind
  /\ lead \in [Leads -> {[status |-> s, overdue |-> FALSE, at |-> FALSE,
                          late |-> FALSE] : s \in Statuses}]
  /\ mon = [s \in Servers |-> NoRound]
  /\ faults = 0

Terminal(l) == kind[lead[l].status] = "terminal"

-----------------------------------------------------------------------------
(* The rest of the system *)

\* The SLA of the status runs out.
Elapse ==
  /\ \E l \in Leads :
        /\ kind[lead[l].status] = "sla" /\ ~ lead[l].late
        /\ lead' = [lead EXCEPT ![l].late = TRUE]
  /\ UNCHANGED <<kind, mon, faults>>

\* A transition, by hand or automatic: statusUpdatedAt is now.  All of them
\* clear the flag, but the manual assign override keeps it.
ChangeStatus ==
  /\ \E l \in Leads, keeps \in BOOLEAN : \E s \in Statuses \ {lead[l].status} :
        lead' = [lead EXCEPT ![l] = [status |-> s, overdue |-> keeps /\ @.overdue,
                                     at |-> keeps /\ @.at, late |-> FALSE]]
  /\ UNCHANGED <<kind, mon, faults>>

\* MUTANT of PatchOverdue: the flag alone is written.
PatchOverdueUntimed ==
  /\ \E l \in Leads, b \in BOOLEAN : lead' = [lead EXCEPT ![l].overdue = b]
  /\ UNCHANGED <<kind, mon, faults>>

\* PATCH /:id with isOverdue.
PatchOverdue ==
  /\ \E l \in Leads, b \in BOOLEAN :
        lead' = [lead EXCEPT ![l].overdue = b, ![l].at = b]
  /\ UNCHANGED <<kind, mon, faults>>

\* PATCH of a status; a new SLA may put leads that are in it late at once.
EditStatus ==
  /\ \E s \in Statuses, k \in EditKinds, now \in SUBSET Leads :
        /\ k # kind[s]
        /\ kind' = [kind EXCEPT ![s] = k]
        /\ lead' = [l \in Leads |->
              IF lead[l].status = s
                THEN [lead[l] EXCEPT !.late = k = "sla" /\ l \in now]
                ELSE lead[l]]
  /\ UNCHANGED <<mon, faults>>

-----------------------------------------------------------------------------
(* runSlaOverdueCheck *)

\* MUTANT of StartRound: the second half of the OR is missing.
StartRoundOverdue(s) ==
  /\ mon[s].pc = "off"
  /\ mon' = [mon EXCEPT ![s] =
        [pc |-> "on", alert |-> {},
         todo |-> {[lead |-> l, exceeded |-> lead[l].late,
                    overdue |-> lead[l].overdue, at |-> lead[l].at] :
                   l \in {k \in Leads : ~ Terminal(k) /\ lead[k].overdue}}]]
  /\ UNCHANGED <<kind, lead, faults>>

\* findMany: leads in a status that is not terminal, overdue or with an SLA.
StartRound(s) ==
  /\ mon[s].pc = "off"
  /\ mon' = [mon EXCEPT ![s] =
        [pc |-> "on", alert |-> {},
         todo |-> {[lead |-> l, exceeded |-> lead[l].late,
                    overdue |-> lead[l].overdue, at |-> lead[l].at] :
                   l \in {k \in Leads : /\ ~ Terminal(k)
                                        /\ \/ lead[k].overdue
                                           \/ kind[lead[k].status] = "sla"}}]]
  /\ UNCHANGED <<kind, lead, faults>>

\* The loop takes the next candidate once the last breach is notified.
Handles(s, c) == mon[s].alert = {} /\ c \in mon[s].todo
Handled(s, c, alert) ==
  mon' = [mon EXCEPT ![s].todo = @ \ {c}, ![s].alert = alert]

Skip(s, c) ==
  /\ Handles(s, c)
  /\ ~ c.exceeded /\ ~ c.overdue
  /\ Handled(s, c, {})
  /\ UNCHANGED <<kind, lead, faults>>

\* updateMany where is_overdue: within the SLA, or no SLA.
ClearOverdue(s, c) ==
  /\ Handles(s, c)
  /\ ~ c.exceeded /\ c.overdue
  /\ lead' = [lead EXCEPT ![c.lead].overdue = FALSE,
                          ![c.lead].at = @ /\ ~ lead[c.lead].overdue]
  /\ Handled(s, c, {})
  /\ UNCHANGED <<kind, faults>>

\* updateMany where not is_overdue: the snapshot says late, whatever the lead
\* is by now.
MarkOverdue(s, c) ==
  /\ Handles(s, c)
  /\ c.exceeded /\ ~ lead[c.lead].overdue
  /\ lead' = [lead EXCEPT ![c.lead].overdue = TRUE, ![c.lead].at = TRUE]
  /\ Handled(s, c, {c.lead})
  /\ UNCHANGED <<kind, faults>>

\* It is overdue already; an overdue_at that the snapshot saw missing is set.
AlreadyOverdue(s, c) ==
  /\ Handles(s, c)
  /\ c.exceeded /\ lead[c.lead].overdue
  /\ lead' = [lead EXCEPT ![c.lead].at = @ \/ (c.overdue /\ ~ c.at)]
  /\ Handled(s, c, {})
  /\ UNCHANGED <<kind, faults>>

Notify(s) ==
  /\ mon[s].alert # {}
  /\ mon' = [mon EXCEPT ![s].alert = {}]
  /\ UNCHANGED <<kind, lead, faults>>

\* isRunning is false again, until the timer fires.
EndRound(s) ==
  /\ mon[s].pc = "on" /\ mon[s].todo = {} /\ mon[s].alert = {}
  /\ mon' = [mon EXCEPT ![s] = NoRound]
  /\ UNCHANGED <<kind, lead, faults>>

\* A query or a notification throws, or the server restarts: the rest of the
\* round is dropped, and a breach that was marked is never notified.
AbortRound(s) ==
  /\ mon[s].pc = "on"
  /\ faults < MaxFaults
  /\ faults' = faults + 1
  /\ mon' = [mon EXCEPT ![s] = NoRound]
  /\ UNCHANGED <<kind, lead>>

Monitor(s) ==
  \/ StartRound(s) \/ Notify(s) \/ EndRound(s)
  \/ \E c \in mon[s].todo :
        \/ Skip(s, c) \/ ClearOverdue(s, c) \/ MarkOverdue(s, c) \/ AlreadyOverdue(s, c)

Next ==
  \/ Elapse \/ ChangeStatus \/ PatchOverdue \/ EditStatus
  \/ \E s \in Servers : Monitor(s) \/ AbortRound(s)

Spec == Init /\ [][Next]_vars

\* setInterval fires again and again, and a round that runs goes on.
FairSpec == Spec /\ \A s \in Servers : WF_vars(Monitor(s))

-----------------------------------------------------------------------------
(* What the monitor promises *)

\* is_overdue and overdue_at agree, although the handlers and the rounds of
\* all servers write them from snapshots: nothing ever needs the repair of
\* sla-overdue.service.ts.
OverdueHasTime == \A l \in Leads : lead[l].overdue <=> lead[l].at

\* A lead that stays past its SLA is flagged: however rounds interleave and
\* fail, it is overdue at some time, unless it moves on or the SLA changes.
BreachIsFlagged ==
  \A l \in Leads : lead[l].late ~> lead[l].overdue \/ ~ lead[l].late

\* A flag on a lead that is within its SLA, left by an override, a PATCH or a
\* stale snapshot, goes away, unless the lead is late or terminal by then.
StaleFlagIsCleared ==
  \A l \in Leads :
     lead[l].overdue /\ ~ lead[l].late /\ ~ Terminal(l) ~>
       ~ lead[l].overdue \/ lead[l].late \/ Terminal(l)

\* The flag goes and comes with the breach, whatever rounds and handlers meet.
FlagFollowsBreach == BreachIsFlagged /\ StaleFlagIsCleared

\* What every state is like, whichever handler or round wrote the lead last.
FlagsAreSound == TypeOK /\ OverdueHasTime
=============================================================================
