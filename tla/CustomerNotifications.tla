------------------------ MODULE CustomerNotifications ------------------------
(***************************************************************************)
(* What a customer is told when a lead changes its status: a log row, a   *)
(* job in the BullMQ queue, or in the process when there is no queue, and *)
(* up to MaxAttempts calls of a provider, each noted on the row before and *)
(* after.  Meanwhile the customer opts out, administrators edit or delete *)
(* the template, the lead is deleted, calls fail and the server restarts. *)
(* One lead; the queue and the providers are modelled from their use.     *)
(***************************************************************************)
EXTENDS Naturals, FiniteSets

CONSTANTS
  Channels,    \* EMAIL, SMS, WHATSAPP
  Calls,       \* the requests that may notify at a time
  MaxLogs,     \* bound on the status changes that notify
  MaxAttempts, \* customerAttempts of the worker, maxAttempts in the process
  MaxEdits,    \* bound on edits of the template and opt-outs
  MaxFaults    \* bound on failed calls and restarts

Sms == "SMS"

ASSUME NotificationAssumption ==
  /\ Sms \in Channels /\ IsFiniteSet(Channels) /\ IsFiniteSet(Calls)
  /\ MaxLogs \in Nat /\ MaxAttempts \in Nat \ {0}
  /\ MaxEdits \in Nat /\ MaxFaults \in Nat

Logs == 1 .. MaxLogs
Places == {"queue", "process"}

VARIABLES
  lead,     \* the lead, its opt-outs, and the deletion on its way
  template, \* the template of the status
  queued,   \* is there a queue at all
  call,     \* queueLeadStatusCustomerNotification, as each request runs it
  logs,     \* notification_logs
  run,      \* the job of each log, in the queue and in the process
  sent,     \* messages the provider took, for each log
  excess,   \* faults, for each log, that may repeat a message
  dropped,  \* logs whose job or whose outcome a fault has lost
  late,     \* logs written in spite of an opt-out that came before
  crossed,  \* calls that opt-outs of their channel found between read and write
  edits, faults

vars == <<lead, template, queued, call, logs, run, sent, excess, dropped,
          late, crossed, edits, faults>>

-----------------------------------------------------------------------------
(* Shapes *)

NoLog == [status |-> "none", attempts |-> 0]
NoRun == [pc |-> "none", made |-> 0, channel |-> Sms]
NoCall == [pc |-> "idle", channel |-> Sms, log |-> 0]
Settled == {"sent", "failed", "blocked"}

Log == [status : Settled \cup {"none", "deleted", "queued", "sending", "retrying"},
        attempts : 0 .. MaxAttempts]
Run == [pc : {"none", "wait", "send", "note", "fail", "done"},
        made : 0 .. MaxAttempts, channel : Channels]

TypeOK ==
  /\ lead \in [exists : BOOLEAN, optOut : SUBSET Channels,
               doomed : SUBSET Logs, deleting : BOOLEAN]
  /\ template \in [state : {"active", "inactive", "gone"}, channel : Channels,
                   promotional : BOOLEAN]
  /\ queued \in BOOLEAN
  /\ call \in [Calls -> [pc : {"idle", "create", "block", "enqueue"}, channel : Channels,
                        log : 0 .. MaxLogs]]
  /\ logs \in [Logs -> Log] /\ run \in [Logs -> [Places -> Run]]
  /\ \A n \in Logs, p \in Places :
        run[n][p].pc \in {"send", "note", "fail"} => run[n][p].made < MaxAttempts
  /\ sent \in [Logs -> Nat] /\ excess \in [Logs -> Nat]
  /\ dropped \subseteq Logs /\ late \subseteq Logs /\ crossed \in Nat
  /\ edits \in 0 .. MaxEdits /\ faults \in 0 .. MaxFaults

Init ==
  /\ lead = [exists |-> TRUE, optOut |-> {}, doomed |-> {}, deleting |-> FALSE]
  /\ template \in [state : {"active"}, channel : Channels, promotional : BOOLEAN]
  /\ queued \in BOOLEAN
  /\ call = [k \in Calls |-> NoCall]
  /\ logs = [n \in Logs |-> NoLog]
  /\ run = [n \in Logs |-> [p \in Places |-> NoRun]]
  /\ sent = [n \in Logs |-> 0] /\ excess = [n \in Logs |-> 0]
  /\ dropped = {} /\ late = {} /\ crossed = 0
  /\ edits = 0 /\ faults = 0

Fresh == {n \in Logs : logs[n].status = "none" /\ \A m \in Logs : m < n => logs[m].status # "none"}
HasLog(n) == logs[n].status \notin {"none", "deleted"}

Fault == faults < MaxFaults /\ faults' = faults + 1
Edit == edits < MaxEdits /\ edits' = edits + 1

-----------------------------------------------------------------------------
(* queueLeadStatusCustomerNotification *)

\* MUTANT of OptedOut: DND is asked for SMS, and nothing for the others.
OptedOutOfSms == template.channel = Sms /\ Sms \in lead.optOut /\ template.promotional

\* An opt-out counts for its channel; DND stops promotional SMS only.
OptedOut == template.channel \in lead.optOut /\ (template.channel = Sms => template.promotional)

\* The lead and the status with its template are read, and decide.  Nothing
\* locks: other requests may be anywhere between their read and their write.
ReadLead(k) ==
  /\ call[k].pc = "idle" /\ Fresh # {}
  /\ lead.exists /\ template.state = "active"
  /\ call' = [call EXCEPT ![k] = [pc |-> IF OptedOut THEN "block" ELSE "create",
                                  channel |-> template.channel, log |-> 0]]
  /\ UNCHANGED <<lead, template, queued, logs, run, sent, excess, dropped, late, crossed, edits, faults>>

\* The call is over.
Return(k) == call' = [call EXCEPT ![k] = NoCall]

\* createBlockedCustomerNotificationLog, or a customer without an address:
\* the row is all there is.  It needs its lead and its template.
WriteBlockedLog(k) ==
  /\ call[k].pc \in {"block", "create"} /\ lead.exists /\ template.state # "gone"
  /\ \E n \in Fresh :
        logs' = [logs EXCEPT ![n].status = IF call[k].pc = "block" THEN "blocked" ELSE "failed"]
  /\ Return(k)
  /\ UNCHANGED <<lead, template, queued, run, sent, excess, dropped, late, crossed, edits, faults>>

\* The row of a message to send.  An opt-out since the read is not seen.
WriteLog(k) ==
  /\ call[k].pc = "create" /\ lead.exists /\ template.state # "gone"
  /\ \E n \in Fresh :
        /\ logs' = [logs EXCEPT ![n].status = "queued"]
        /\ call' = [call EXCEPT ![k].pc = "enqueue", ![k].log = n]
        /\ late' = IF call[k].channel \in lead.optOut \ {Sms} THEN late \cup {n} ELSE late
  /\ UNCHANGED <<lead, template, queued, run, sent, excess, dropped, crossed, edits, faults>>

\* internal_error: the lead or the template is gone when the row is written ...
GiveUp(k) ==
  /\ call[k].pc \in {"create", "block"} /\ (~ lead.exists \/ template.state = "gone")
  /\ Return(k)
  /\ UNCHANGED <<lead, template, queued, logs, run, sent, excess, dropped, late, crossed, edits, faults>>

\* ... or the database fails.
WriteFails(k) ==
  /\ call[k].pc \in {"create", "block"} /\ Fault
  /\ Return(k)
  /\ UNCHANGED <<lead, template, queued, logs, run, sent, excess, dropped, late, crossed, edits>>

\* The job of call k's log waits in these places.
Wait(k, places) ==
  /\ run' = [run EXCEPT ![call[k].log] = [p \in Places |->
        IF p \in places THEN [pc |-> "wait", made |-> 0, channel |-> call[k].channel] ELSE @[p]]]
  /\ Return(k)

\* enqueueCustomerNotificationJob, or without a queue the process itself.
Enqueue(k) ==
  /\ call[k].pc = "enqueue"
  /\ Wait(k, IF queued THEN {"queue"} ELSE {"process"})
  /\ UNCHANGED <<lead, template, queued, logs, sent, excess, dropped, late, crossed, edits, faults>>

\* add throws, and the process takes the job on, whether or not Redis has it.
EnqueueFails(k) ==
  /\ call[k].pc = "enqueue" /\ queued /\ Fault
  /\ \/ Wait(k, {"process"}) /\ UNCHANGED excess
     \/ /\ Wait(k, Places)
        /\ excess' = [excess EXCEPT ![call[k].log] = @ + 1]
  /\ UNCHANGED <<lead, template, queued, logs, sent, dropped, late, crossed, edits>>

-----------------------------------------------------------------------------
(* processCustomerNotification *)

To(n, p, pc) == run' = [run EXCEPT ![n][p].pc = pc]

\* An attempt is over without success: another one, or the end.
Again(n, p) ==
  LET made == run[n][p].made + 1 IN
  run' = [run EXCEPT ![n][p] = [@ EXCEPT !.made = made,
             !.pc = IF made < MaxAttempts THEN "wait" ELSE "done"]]

Note(n, p, status) ==
  logs' = [logs EXCEPT ![n] = [status |-> status, attempts |-> run[n][p].made + 1]]

\* MUTANT of BeginAttempt: updateMany, which does not mind a missing row.
BeginAttemptBlind(n, p) ==
  /\ run[n][p].pc = "wait"
  /\ IF HasLog(n) THEN Note(n, p, IF run[n][p].made = 0 THEN "sending" ELSE "retrying")
                  ELSE UNCHANGED logs
  /\ To(n, p, "send")
  /\ UNCHANGED <<lead, template, queued, call, sent, excess, dropped, late, crossed, edits, faults>>

\* A worker takes the job, or the back-off of the process is over.  The row is
\* marked; without the row the attempt is over before it calls.
BeginAttempt(n, p) ==
  /\ run[n][p].pc = "wait"
  /\ \/ /\ HasLog(n)
        /\ Note(n, p, IF run[n][p].made = 0 THEN "sending" ELSE "retrying")
        /\ To(n, p, "send")
     \/ /\ ~ HasLog(n)
        /\ Again(n, p)
        /\ UNCHANGED logs
  /\ UNCHANGED <<lead, template, queued, call, sent, excess, dropped, late, crossed, edits, faults>>

\* sendCustomerNotification: the provider takes the message ...
Send(n, p) ==
  /\ run[n][p].pc = "send"
  /\ sent' = [sent EXCEPT ![n] = @ + 1]
  /\ To(n, p, "note")
  /\ UNCHANGED <<lead, template, queued, call, logs, excess, dropped, late, crossed, edits, faults>>

\* ... or refuses it: a bad number, no credentials, an answer that is not ok.
Refused(n, p) ==
  /\ run[n][p].pc = "send"
  /\ To(n, p, "fail")
  /\ UNCHANGED <<lead, template, queued, call, logs, sent, excess, dropped, late, crossed, edits, faults>>

\* The answer of the provider is lost: taken, and an error all the same.
AnswerLost(n, p) ==
  /\ run[n][p].pc = "send" /\ Fault
  /\ sent' = [sent EXCEPT ![n] = @ + 1]
  /\ excess' = [excess EXCEPT ![n] = @ + 1]
  /\ To(n, p, "fail")
  /\ UNCHANGED <<lead, template, queued, call, logs, dropped, late, crossed, edits>>

\* The success is noted; when the row is gone, its update lands in the catch
\* of the failed sends.
NoteSent(n, p) ==
  /\ run[n][p].pc = "note"
  /\ IF HasLog(n) THEN Note(n, p, "sent") /\ To(n, p, "done")
                  ELSE To(n, p, "fail") /\ UNCHANGED logs
  /\ UNCHANGED <<lead, template, queued, call, sent, excess, dropped, late, crossed, edits, faults>>

\* MUTANT of NoteFailed: the last failure is noted as a retry like the others.
NoteRetrying(n, p) ==
  /\ run[n][p].pc = "fail"
  /\ IF HasLog(n) THEN Note(n, p, "retrying") ELSE UNCHANGED logs
  /\ Again(n, p)
  /\ UNCHANGED <<lead, template, queued, call, sent, excess, dropped, late, crossed, edits, faults>>

\* The catch: the failure is noted, and thrown while attempts are left.
NoteFailed(n, p) ==
  /\ run[n][p].pc = "fail"
  /\ IF HasLog(n)
       THEN Note(n, p, IF run[n][p].made + 1 < MaxAttempts THEN "retrying" ELSE "failed")
       ELSE UNCHANGED logs
  /\ Again(n, p)
  /\ UNCHANGED <<lead, template, queued, call, sent, excess, dropped, late, crossed, edits, faults>>

\* An update of the row throws.  After a send that is a failed attempt.
UpdateFails(n, p) ==
  /\ run[n][p].pc \in {"wait", "note", "fail"} /\ Fault
  /\ IF run[n][p].pc = "note" THEN To(n, p, "fail") ELSE Again(n, p)
  /\ excess' = [excess EXCEPT ![n] = IF run[n][p].pc = "note" THEN @ + 1 ELSE @]
  /\ dropped' = dropped \cup {n}
  /\ UNCHANGED <<lead, template, queued, call, logs, sent, late, crossed, edits>>

-----------------------------------------------------------------------------
(* The customer, administrators, and faults *)

\* Call k has read the lead and will write a message to one of these channels.
AboutToWrite(k, channels) == call[k].pc = "create" /\ call[k].channel \in channels

\* unsubscribeFromToken, applyLeadChannelOptOutByContact.
OptOutOfChannel ==
  /\ lead.exists /\ Edit
  /\ \E c \in Channels \ (lead.optOut \cup {Sms}) :
        /\ lead' = [lead EXCEPT !.optOut = @ \cup {c}]
        /\ crossed' = crossed + Cardinality({k \in Calls : AboutToWrite(k, {c})})
  /\ UNCHANGED <<template, queued, call, logs, run, sent, excess, dropped, late, faults>>

\* markLeadSmsDndByPhone.
MarkSmsDnd ==
  /\ lead.exists /\ Sms \notin lead.optOut /\ Edit
  /\ lead' = [lead EXCEPT !.optOut = @ \cup {Sms}]
  /\ UNCHANGED <<template, queued, call, logs, run, sent, excess, dropped, late, crossed, faults>>

\* PATCH /templates/:id, for what later notifications see.
EditTemplate ==
  /\ template.state # "gone" /\ Edit
  /\ template' \in [state : {"active", "inactive"}, channel : Channels, promotional : {template.promotional}]
  /\ template' # template
  /\ UNCHANGED <<lead, queued, call, logs, run, sent, excess, dropped, late, crossed, faults>>

\* DELETE /templates/:id.
DeleteTemplate ==
  /\ template.state # "gone" /\ Edit
  /\ template' = [template EXCEPT !.state = "gone"]
  /\ UNCHANGED <<lead, queued, call, logs, run, sent, excess, dropped, late, crossed, faults>>

\* DELETE /leads/:id deletes the rows it sees, and then the lead; rows that
\* were written in between stay, without a lead.
DeleteLogs ==
  /\ lead.exists /\ ~ lead.deleting /\ Edit
  /\ lead' = [lead EXCEPT !.deleting = TRUE, !.doomed = {n \in Logs : HasLog(n)}]
  /\ UNCHANGED <<template, queued, call, logs, run, sent, excess, dropped, late, crossed, faults>>

DeleteLead ==
  /\ lead.deleting
  /\ lead' = [lead EXCEPT !.exists = FALSE, !.deleting = FALSE]
  /\ logs' = [n \in Logs |-> IF n \in lead.doomed THEN [logs[n] EXCEPT !.status = "deleted"] ELSE logs[n]]
  /\ UNCHANGED <<template, queued, call, run, sent, excess, dropped, late, crossed, edits, faults>>

\* The server restarts: jobs of the process are lost, those of the queue that
\* were being worked on are stalled and taken again.
Restart ==
  LET busy(n, p) == run[n][p].pc \in {"send", "note", "fail"}
      killed == {n \in Logs : run[n]["process"].pc = "wait" \/ busy(n, "process")}
  IN /\ Fault
     /\ run' = [n \in Logs |-> [p \in Places |->
           CASE p = "queue" /\ busy(n, p) -> [run[n][p] EXCEPT !.pc = "wait"]
             [] p = "process" /\ n \in killed -> [run[n][p] EXCEPT !.pc = "done"]
             [] OTHER -> run[n][p]]]
     /\ excess' = [n \in Logs |-> IF run[n]["queue"].pc = "note" THEN excess[n] + 1 ELSE excess[n]]
     /\ dropped' = dropped \cup killed \cup ({call[k].log : k \in Calls} \ {0})
     /\ call' = [k \in Calls |-> NoCall]
     /\ lead' = [lead EXCEPT !.deleting = FALSE, !.doomed = {}]
     /\ UNCHANGED <<template, queued, logs, sent, late, crossed, edits>>

Call(k) ==
  \/ ReadLead(k) \/ WriteBlockedLog(k) \/ WriteLog(k)
  \/ GiveUp(k) \/ WriteFails(k) \/ EnqueueFails(k)

Work(n, p) ==
  \/ BeginAttempt(n, p) \/ Send(n, p) \/ Refused(n, p)
  \/ NoteSent(n, p) \/ NoteFailed(n, p)

Environment ==
  OptOutOfChannel \/ MarkSmsDnd \/ EditTemplate \/ DeleteTemplate \/ DeleteLogs \/ DeleteLead \/ Restart

Next ==
  \/ Environment
  \/ \E k \in Calls : Call(k) \/ Enqueue(k)
  \/ \E n \in Logs, p \in Places : Work(n, p) \/ AnswerLost(n, p) \/ UpdateFails(n, p)

\* The event loop goes on with a call that has written its row, and the worker
\* and the back-off timers with every job.
Spec ==
  /\ Init /\ [][Next]_vars
  /\ \A k \in Calls : WF_vars(Enqueue(k))
  /\ \A n \in Logs, p \in Places : WF_vars(Work(n, p))

-----------------------------------------------------------------------------
(* What a customer may rely on *)

\* A message reaches the customer once: every repetition is paid for by a lost
\* answer, a success that could not be noted, a restart or an uncertain add.
\* That the row is deleted with its lead repeats nothing.
DuplicatesAreExplained == \A n \in Logs : sent[n] <= 1 + excess[n]

\* The row tells the truth: sent means sent, failed means not sent, unless a
\* fault hid a success, and a blocked row has no message.
OutcomeIsTrue ==
  \A n \in Logs :
     /\ logs[n].status = "sent" => sent[n] > 0
     /\ logs[n].status = "failed" /\ excess[n] = 0 => sent[n] = 0
     /\ logs[n].status = "blocked" => sent[n] = 0

\* An opt-out stops notifications: however many status changes are under way at
\* a time and follow, those written to the channel in spite of it are no more
\* than the calls it found between their read and their write.
OptOutStopsNotifications == Cardinality(late) <= crossed

\* A notification that is written comes to an outcome, unless a fault took its
\* job or its update away, or the row was deleted.
NotificationSettles ==
  \A n \in Logs :
     logs[n].status = "queued"
        ~> logs[n].status \in Settled \cup {"deleted"} \/ n \in dropped

\* What the log says happened, and nobody is told twice without a cause.
LogIsSound == TypeOK /\ OutcomeIsTrue /\ DuplicatesAreExplained
=============================================================================
