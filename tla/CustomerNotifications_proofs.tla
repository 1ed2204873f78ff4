-------------------- MODULE CustomerNotifications_proofs --------------------
(***************************************************************************)
(* Proofs about CustomerNotifications for every number of channels,        *)
(* notifications, attempts, edits and faults: type correctness, that the   *)
(* log tells the truth, that every repeated message is explained, and that *)
(* opt-outs are late only for the calls they find between their read and   *)
(* their write.  In the second part,                                       *)
(* proofs about Chat, for every number of messages, texts and failures:    *)
(* what counts as read was shown or has raced with a mark, and what was    *)
(* typed is in one place unless an answer was lost.                        *)
(***************************************************************************)
EXTENDS CustomerNotifications, MCChat, FiniteSetTheorems, TLAPS

-----------------------------------------------------------------------------
(* The inductive invariant *)

Busy == {"wait", "send", "note", "fail"}

\* Will job n at p, or the call that has written row n, still take a message
\* to the provider?  Without its row a job calls no more, once it has failed.
MaySend(n, p) == run[n][p].pc = "send" \/ (run[n][p].pc \in {"wait", "fail"} /\ HasLog(n))
Asked(n) == \E k \in Calls : call[k].pc = "enqueue" /\ call[k].log = n
Unit(b) == IF b THEN 1 ELSE 0
ToSend(n) == Unit(Asked(n)) + Unit(MaySend(n, "queue")) + Unit(MaySend(n, "process"))

\* What is sent and what may still be sent is one message, and one more for
\* each fault that may repeat it.
Paid(n) == sent[n] + ToSend(n) <= 1 + excess[n]

Untouched(n) == sent[n] = 0 /\ \A p \in Places : run[n][p].pc = "none"

LogOK(n) ==
  /\ Paid(n)
  /\ \A p \in Places : run[n][p].pc \in Busy => run[n][p].made < MaxAttempts
  /\ Asked(n) => logs[n].status \in {"queued", "deleted"}
  /\ logs[n].status \in {"none", "blocked"} \/ Asked(n) => Untouched(n)
  /\ logs[n].status = "sent" => sent[n] > 0
  /\ \A p \in Places : run[n][p].pc = "note" => sent[n] > 0
  /\ excess[n] = 0 => \E p \in Places : run[n][p].pc = "none"
  /\ logs[n].status = "failed" /\ excess[n] = 0 =>
       sent[n] = 0 /\ \A p \in Places : run[n][p].pc \notin Busy

\* No two calls have written the same row.
OneAsks ==
  \A j, k \in Calls :
     call[j].pc = "enqueue" /\ call[k].pc = "enqueue" /\ call[j].log = call[k].log => j = k

\* Late rows and those about to be are no more than the calls that opt-outs
\* have found between their read and their write.
Stopped == lead.optOut \ {Sms}
Racing == {k \in Calls : AboutToWrite(k, Stopped)}
LateOK == Cardinality(late) + Cardinality(Racing) <= crossed

IInv == TypeOK /\ (\A n \in Logs : LogOK(n)) /\ OneAsks /\ LateOK

-----------------------------------------------------------------------------
(* One job goes on *)

LEMMA Known ==
  ASSUME IInv, NEW n \in Logs
  PROVE  /\ TypeOK /\ LogOK(n) /\ OneAsks /\ LateOK
         /\ logs \in [Logs -> Log] /\ run \in [Logs -> [Places -> Run]]
         /\ logs[n] \in Log /\ \A p \in Places : run[n][p] \in Run
         /\ sent \in [Logs -> Nat] /\ excess \in [Logs -> Nat]
         /\ sent[n] \in Nat /\ excess[n] \in Nat
BY DEF IInv, TypeOK

\* Job n at p becomes q, and nothing else about jobs changes.
Becomes(n, p, q) ==
  /\ run' \in [Logs -> [Places -> Run]]
  /\ \A m \in Logs, o \in Places : run'[m][o] = IF m = n /\ o = p THEN q ELSE run[m][o]

LEMMA RunUpdate ==
  ASSUME TypeOK, NEW n \in Logs, NEW p \in Places, NEW q \in Run,
         run' = [run EXCEPT ![n][p] = q]
  PROVE  Becomes(n, p, q)
<1>1. run \in [Logs -> [Places -> Run]]
  BY DEF TypeOK
<1>2. run[n] \in [Places -> Run]
  BY <1>1
<1> DEFINE f == [run[n] EXCEPT ![p] = q]
<1>3. f \in [Places -> Run] /\ \A o \in Places : f[o] = IF o = p THEN q ELSE run[n][o]
  BY <1>2
<1>4. run' = [run EXCEPT ![n] = f]
  OBVIOUS
<1> HIDE DEF f
<1>5. QED BY <1>1, <1>3, <1>4 DEF Becomes

LEMMA ToStep ==
  ASSUME IInv, NEW n \in Logs, NEW p \in Places,
         NEW pc \in {"wait", "send", "note", "fail", "done"}, To(n, p, pc)
  PROVE  \E q \in Run : q.pc = pc /\ q.made = run[n][p].made /\ Becomes(n, p, q)
<1> DEFINE q == [run[n][p] EXCEPT !.pc = pc]
<1>1. run[n][p] \in Run /\ TypeOK
  BY Known
<1>2. q \in Run /\ q.pc = pc /\ q.made = run[n][p].made
  BY <1>1 DEF Run
<1>3. run' = [run EXCEPT ![n][p] = q]
  BY DEF To
<1> HIDE DEF q
<1>4. QED BY <1>1, <1>2, <1>3, RunUpdate

LEMMA AgainStep ==
  ASSUME IInv, NEW n \in Logs, NEW p \in Places, run[n][p].made < MaxAttempts, Again(n, p)
  PROVE  \E q \in Run :
            /\ q.pc = IF run[n][p].made + 1 < MaxAttempts THEN "wait" ELSE "done"
            /\ q.made = run[n][p].made + 1 /\ Becomes(n, p, q)
<1>0. PICK made, pc : /\ made = run[n][p].made + 1
                      /\ pc = IF made < MaxAttempts THEN "wait" ELSE "done"
  OBVIOUS
<1> DEFINE q == [run[n][p] EXCEPT !.made = made, !.pc = pc]
<1>1. run[n][p] \in Run /\ TypeOK
  BY Known
<1>2. made \in 0 .. MaxAttempts /\ pc \in {"wait", "done"}
  BY <1>0, <1>1, NotificationAssumption DEF Run
<1>3. q \in Run /\ q.pc = pc /\ q.made = made
  BY <1>1, <1>2 DEF Run
<1>4. run' = [run EXCEPT ![n][p] = q]
  BY <1>0 DEF Again
<1> HIDE DEF q
<1>5. QED BY <1>0, <1>1, <1>3, <1>4, RunUpdate

LEMMA NoteStep ==
  ASSUME IInv, NEW n \in Logs, NEW p \in Places, run[n][p].made < MaxAttempts,
         NEW status \in {"sent", "failed", "sending", "retrying"}, Note(n, p, status)
  PROVE  /\ logs' \in [Logs -> Log] /\ logs'[n].status = status
         /\ \A m \in Logs \ {n} : logs'[m] = logs[m]
<1>0. PICK made : made = run[n][p].made + 1
  OBVIOUS
<1> DEFINE l == [status |-> status, attempts |-> made]
<1>1. run[n][p] \in Run /\ logs \in [Logs -> Log]
  BY Known
<1>2. made \in 0 .. MaxAttempts
  BY <1>0, <1>1, NotificationAssumption DEF Run
<1>3. l \in Log /\ l.status = status
  BY <1>2 DEF Log, Settled
<1>4. logs' = [logs EXCEPT ![n] = l]
  BY <1>0 DEF Note
<1> HIDE DEF l
<1>5. QED BY <1>1, <1>3, <1>4

LEMMA LogStays ==
  ASSUME NEW n \in Logs, LogOK(n), sent[n] \in Nat, excess[n] \in Nat,
         logs'[n] = logs[n], run'[n] = run[n], sent'[n] = sent[n], excess'[n] = excess[n],
         Asked(n)' => Asked(n)
  PROVE  LogOK(n)'
<1>1. MaySend(n, "queue")' = MaySend(n, "queue") /\ MaySend(n, "process")' = MaySend(n, "process")
  BY DEF MaySend, HasLog
<1>2. Paid(n)'
  BY <1>1 DEF LogOK, Paid, ToSend, Unit
<1>3. Untouched(n)' <=> Untouched(n)
  BY DEF Untouched
<1>4. QED BY <1>2, <1>3 DEF LogOK

Quiet == UNCHANGED <<lead, template, queued, call, late, crossed, edits>>

\* A step of a job: what its own log needs.
LEMMA WorkStep ==
  ASSUME IInv, NEW n \in Logs, NEW p \in Places, NEW q \in Run, Becomes(n, p, q), Quiet,
         logs' \in [Logs -> Log], \A m \in Logs \ {n} : logs'[m] = logs[m],
         sent' \in [Logs -> Nat], \A m \in Logs \ {n} : sent'[m] = sent[m],
         excess' \in [Logs -> Nat], \A m \in Logs \ {n} : excess'[m] = excess[m],
         dropped' \subseteq Logs, faults' \in 0 .. MaxFaults, LogOK(n)'
  PROVE  IInv'
<1>1. \A m \in Logs \ {n} : run'[m] = run[m]
  <2>1. ASSUME NEW m \in Logs \ {n} PROVE run'[m] = run[m]
    <3>1. run[m] \in [Places -> Run] /\ run'[m] \in [Places -> Run]
      BY Known DEF Becomes
    <3>2. \A o \in Places : run'[m][o] = run[m][o]
      BY DEF Becomes
    <3>3. QED BY <3>1, <3>2
  <2>2. QED BY <2>1
<1>2. ASSUME NEW m \in Logs PROVE LogOK(m)'
  <2>1. CASE m = n
    BY <2>1
  <2>2. CASE m # n
    <3>1. LogOK(m) /\ sent[m] \in Nat /\ excess[m] \in Nat
      BY Known
    <3>2. Asked(m)' = Asked(m)
      BY DEF Asked, Quiet
    <3>3. QED BY <1>1, <2>2, <3>1, <3>2, LogStays
  <2>3. QED BY <2>1, <2>2
<1>3. \A m \in Logs, o \in Places :
         run'[m][o].pc \in {"send", "note", "fail"} => run'[m][o].made < MaxAttempts
  BY <1>2 DEF LogOK, Busy
<1>4. TypeOK'
  BY <1>3 DEF IInv, TypeOK, Becomes, Quiet
<1>5. OneAsks' /\ LateOK'
  BY DEF IInv, OneAsks, LateOK, Racing, AboutToWrite, Stopped, Quiet
<1>6. QED BY <1>2, <1>4, <1>5 DEF IInv

\* What a step of a busy job has to pay for.
LEMMA JobOK ==
  ASSUME IInv, NEW n \in Logs, NEW p \in Places, NEW q \in Run, Becomes(n, p, q), Quiet,
         run[n][p].pc \in Busy, q.pc # "none", q.pc \in Busy => q.made < MaxAttempts,
         NEW cost \in Nat, NEW fault \in Nat,
         sent'[n] = sent[n] + cost, excess'[n] = excess[n] + fault,
         HasLog(n)' = HasLog(n),
         cost + Unit(MaySend(n, p)') <= Unit(MaySend(n, p)) + fault,
         q.pc = "note" \/ logs'[n].status = "sent" => sent[n] + cost > 0,
         logs'[n].status \in {"none", "blocked"} => logs[n].status \in {"none", "blocked"},
         logs'[n].status = "failed" /\ excess[n] + fault = 0 =>
            sent[n] + cost = 0 /\ q.pc \notin Busy
  PROVE  LogOK(n)'
<1>1. LogOK(n) /\ sent[n] \in Nat /\ excess[n] \in Nat
  BY Known
<1>2. /\ run'[n][p] = q
      /\ \A o \in Places \ {p} : run'[n][o] = run[n][o]
  BY DEF Becomes
<1>3. ~ Asked(n) /\ ~ Asked(n)' /\ logs[n].status \notin {"none", "blocked"}
  BY <1>1 DEF LogOK, Untouched, Busy, Asked, Quiet
<1>4. \A o \in Places \ {p} : MaySend(n, o)' = MaySend(n, o)
  BY <1>2 DEF MaySend
<1>5. Paid(n)'
  <2>1. ASSUME NEW o \in Places \ {p}
        PROVE  /\ ToSend(n) = Unit(MaySend(n, p)) + Unit(MaySend(n, o))
               /\ ToSend(n)' = Unit(MaySend(n, p)') + Unit(MaySend(n, o))
    <3>1. CASE p = "queue" /\ o = "process"
      BY <1>3, <1>4, <3>1 DEF ToSend, Unit
    <3>2. CASE p = "process" /\ o = "queue"
      BY <1>3, <1>4, <3>2 DEF ToSend, Unit
    <3>3. QED BY <3>1, <3>2 DEF Places
  <2>2. PICK o \in Places \ {p} : TRUE
    BY DEF Places
  <2>3. QED BY <1>1, <2>1, <2>2 DEF LogOK, Paid, Unit
<1>6. \A o \in Places : run'[n][o].pc \in Busy => run'[n][o].made < MaxAttempts
  BY <1>1, <1>2 DEF LogOK
<1>7. \A o \in Places : run'[n][o].pc = "note" => sent'[n] > 0
  BY <1>1, <1>2 DEF LogOK
<1>8. excess[n] = 0 => \A o \in Places \ {p} : run[n][o].pc = "none"
  <2>1. run[n][p].pc # "none"
    BY DEF Busy
  <2>2. QED BY <1>1, <2>1 DEF LogOK, Places
<1>9. excess'[n] = 0 => \E o \in Places : run'[n][o].pc = "none"
  <2>1. PICK o \in Places \ {p} : TRUE
    BY DEF Places
  <2>2. excess'[n] = 0 => excess[n] = 0
    BY <1>1
  <2>3. QED BY <1>2, <1>8, <2>1, <2>2
<1>10. logs'[n].status = "sent" => sent'[n] > 0
  OBVIOUS
<1>11. logs'[n].status = "failed" /\ excess'[n] = 0 =>
         sent'[n] = 0 /\ \A o \in Places : run'[n][o].pc \notin Busy
  <2>1. excess'[n] = 0 => excess[n] = 0
    BY <1>1
  <2>2. QED BY <1>2, <1>8, <2>1 DEF Busy
<1>12. logs'[n].status \notin {"none", "blocked"}
  BY <1>3
<1>13. QED BY <1>3, <1>5, <1>6, <1>7, <1>9, <1>10, <1>11, <1>12 DEF LogOK

LEMMA BeginAttemptStep ==
  ASSUME IInv, NEW n \in Logs, NEW p \in Places, BeginAttempt(n, p) PROVE IInv'
<1>1. /\ run[n][p].pc = "wait" /\ LogOK(n) /\ run[n][p].made < MaxAttempts /\ Quiet
      /\ sent' = sent /\ excess' = excess /\ dropped' = dropped /\ faults' = faults
      /\ logs \in [Logs -> Log] /\ sent \in [Logs -> Nat] /\ excess \in [Logs -> Nat]
      /\ dropped \subseteq Logs /\ faults \in 0 .. MaxFaults /\ run[n][p].made \in Nat
  BY Known DEF BeginAttempt, LogOK, Busy, Quiet, TypeOK, Run
<1>2. CASE HasLog(n) /\ To(n, p, "send")
            /\ Note(n, p, IF run[n][p].made = 0 THEN "sending" ELSE "retrying")
  <2>1. PICK q \in Run : q.pc = "send" /\ q.made = run[n][p].made /\ Becomes(n, p, q)
    BY <1>2, ToStep
  <2>2. /\ logs' \in [Logs -> Log] /\ logs'[n].status \in {"sending", "retrying"}
        /\ \A m \in Logs \ {n} : logs'[m] = logs[m]
    BY <1>1, <1>2, NoteStep
  <2>3. HasLog(n)' = HasLog(n) /\ MaySend(n, p)
    BY <1>1, <1>2, <2>2 DEF HasLog, MaySend
  <2>4. LogOK(n)'
    <3>1. sent'[n] = sent[n] + 0 /\ excess'[n] = excess[n] + 0
      BY <1>1
    <3>2. 0 + Unit(MaySend(n, p)') <= Unit(MaySend(n, p)) + 0
      BY <2>3 DEF Unit
    <3>3. /\ run[n][p].pc \in Busy /\ q.pc # "none" /\ q.pc # "note"
          /\ q.pc \in Busy => q.made < MaxAttempts
          /\ logs'[n].status \notin {"none", "blocked", "sent", "failed"}
      BY <1>1, <2>1, <2>2 DEF Busy
    <3>4. QED BY <1>1, <2>1, <2>3, <3>1, <3>2, <3>3, JobOK
  <2>5. QED BY <1>1, <2>1, <2>2, <2>4, WorkStep
<1>3. CASE ~ HasLog(n) /\ Again(n, p) /\ UNCHANGED logs
  <2>1. PICK q \in Run :
          /\ q.pc = IF run[n][p].made + 1 < MaxAttempts THEN "wait" ELSE "done"
          /\ q.made = run[n][p].made + 1 /\ Becomes(n, p, q)
    BY <1>1, <1>3, AgainStep
  <2>2. /\ ~ HasLog(n) /\ HasLog(n)' = HasLog(n) /\ ~ MaySend(n, p)'
        /\ logs'[n].status = logs[n].status /\ logs[n].status \notin {"sent", "failed"}
    BY <1>3, <2>1 DEF HasLog, MaySend, Becomes
  <2>3. LogOK(n)'
    <3>1. sent'[n] = sent[n] + 0 /\ excess'[n] = excess[n] + 0
      BY <1>1
    <3>2. 0 + Unit(MaySend(n, p)') <= Unit(MaySend(n, p)) + 0
      BY <2>2 DEF Unit
    <3>3. /\ run[n][p].pc \in Busy /\ q.pc # "none" /\ q.pc # "note"
          /\ q.pc \in Busy => q.made < MaxAttempts
      BY <1>1, <2>1 DEF Busy
    <3>4. QED BY <1>1, <2>1, <2>2, <3>1, <3>2, <3>3, JobOK
  <2>4. QED BY <1>1, <1>3, <2>1, <2>3, WorkStep
<1>4. QED BY <1>2, <1>3 DEF BeginAttempt

\* The provider answers: it took the message, refused it, or took it and the
\* answer is lost.
LEMMA ProviderStep ==
  ASSUME IInv, NEW n \in Logs, NEW p \in Places,
         Send(n, p) \/ Refused(n, p) \/ AnswerLost(n, p)
  PROVE  IInv'
<1>1. /\ run[n][p].pc = "send" /\ LogOK(n) /\ run[n][p].made < MaxAttempts /\ Quiet
      /\ logs' = logs /\ dropped' = dropped
      /\ logs \in [Logs -> Log] /\ sent \in [Logs -> Nat] /\ excess \in [Logs -> Nat]
      /\ dropped \subseteq Logs /\ faults \in 0 .. MaxFaults
  BY Known DEF Send, Refused, AnswerLost, LogOK, Busy, Quiet, TypeOK, Run
<1> DEFINE Answer(cost, fault, pc) ==
        /\ sent' = [sent EXCEPT ![n] = @ + cost]
        /\ excess' = [excess EXCEPT ![n] = @ + fault]
        /\ To(n, p, pc)
        /\ pc = "note" => cost = 1 /\ fault = 0
        /\ pc = "fail" => cost = fault
<1>2. PICK cost \in 0 .. 1, fault \in 0 .. 1, pc \in {"note", "fail"} : Answer(cost, fault, pc)
  <2>0. sent = [sent EXCEPT ![n] = @ + 0] /\ excess = [excess EXCEPT ![n] = @ + 0]
    BY <1>1
  <2>1. CASE Send(n, p)
    <3>1. Answer(1, 0, "note")
      BY <1>1, <2>0, <2>1 DEF Send
    <3>2. QED BY <3>1
  <2>2. CASE Refused(n, p)
    <3>1. Answer(0, 0, "fail")
      BY <1>1, <2>0, <2>2 DEF Refused
    <3>2. QED BY <3>1
  <2>3. CASE AnswerLost(n, p)
    <3>1. Answer(1, 1, "fail")
      BY <1>1, <2>3 DEF AnswerLost
    <3>2. QED BY <3>1
  <2>4. QED BY <2>1, <2>2, <2>3
<1>3. faults' \in 0 .. MaxFaults
  <2>1. faults' = faults \/ (faults < MaxFaults /\ faults' = faults + 1)
    BY DEF Send, Refused, AnswerLost, Fault
  <2>2. QED BY <1>1, <2>1, NotificationAssumption
<1>4. PICK q \in Run : q.pc = pc /\ q.made = run[n][p].made /\ Becomes(n, p, q)
  BY <1>2, ToStep
<1>5. /\ sent' \in [Logs -> Nat] /\ sent'[n] = sent[n] + cost
      /\ excess' \in [Logs -> Nat] /\ excess'[n] = excess[n] + fault
      /\ \A m \in Logs \ {n} : sent'[m] = sent[m] /\ excess'[m] = excess[m]
  BY <1>1, <1>2
<1>6. MaySend(n, p) /\ (MaySend(n, p)' => pc = "fail")
  BY <1>1, <1>2, <1>4 DEF MaySend, Becomes
<1>7. HasLog(n)' = HasLog(n)
  BY <1>1 DEF HasLog
<1>8. LogOK(n)'
  <2>1. logs[n].status = "sent" => sent[n] > 0
    BY <1>1 DEF LogOK
  <2>2. logs[n].status = "failed" => excess[n] > 0
    BY <1>1 DEF LogOK, Busy
  <2>3. cost \in Nat /\ fault \in Nat /\ sent[n] \in Nat /\ excess[n] \in Nat
    BY <1>1
  <2>4. cost + Unit(MaySend(n, p)') <= Unit(MaySend(n, p)) + fault
    BY <1>2, <1>6, <2>3 DEF Unit
  <2>5. /\ run[n][p].pc \in Busy /\ q.pc # "none"
        /\ q.pc \in Busy => q.made < MaxAttempts
        /\ q.pc = "note" => cost = 1
    BY <1>1, <1>2, <1>4 DEF Busy
  <2>6. logs'[n].status = logs[n].status
    BY <1>1
  <2>7. QED BY <1>1, <1>4, <1>5, <1>7, <2>1, <2>2, <2>3, <2>4, <2>5, <2>6, JobOK
<1>9. QED BY <1>1, <1>3, <1>4, <1>5, <1>8, WorkStep

LEMMA NoteSentStep ==
  ASSUME IInv, NEW n \in Logs, NEW p \in Places, NoteSent(n, p) PROVE IInv'
<1>1. /\ run[n][p].pc = "note" /\ LogOK(n) /\ run[n][p].made < MaxAttempts /\ Quiet
      /\ sent' = sent /\ excess' = excess /\ dropped' = dropped /\ faults' = faults
      /\ logs \in [Logs -> Log] /\ sent \in [Logs -> Nat] /\ excess \in [Logs -> Nat]
      /\ dropped \subseteq Logs /\ faults \in 0 .. MaxFaults /\ sent[n] > 0
  BY Known DEF NoteSent, LogOK, Busy, Quiet, TypeOK
<1>2. PICK q \in Run :
        /\ q.pc \in {"done", "fail"} /\ q.made = run[n][p].made /\ Becomes(n, p, q)
        /\ q.pc = "fail" => ~ HasLog(n) /\ logs' = logs
        /\ q.pc = "done" => HasLog(n) /\ Note(n, p, "sent")
  <2>1. CASE HasLog(n)
    BY <1>1, <2>1, ToStep DEF NoteSent
  <2>2. CASE ~ HasLog(n)
    BY <1>1, <2>2, ToStep DEF NoteSent
  <2>3. QED BY <2>1, <2>2
<1>3. /\ logs' \in [Logs -> Log] /\ \A m \in Logs \ {n} : logs'[m] = logs[m]
      /\ HasLog(n)' = HasLog(n) /\ ~ MaySend(n, p)'
      /\ logs'[n].status \notin {"none", "blocked"} \/ logs'[n] = logs[n]
      /\ logs'[n].status = "failed" => ~ HasLog(n)'
  <2>1. CASE q.pc = "fail"
    BY <1>1, <1>2, <2>1 DEF HasLog, MaySend, Becomes
  <2>2. CASE q.pc = "done"
    <3>1. /\ logs' \in [Logs -> Log] /\ logs'[n].status = "sent"
          /\ \A m \in Logs \ {n} : logs'[m] = logs[m]
      BY <1>1, <1>2, <2>2, NoteStep
    <3>2. QED BY <1>2, <2>2, <3>1 DEF HasLog, MaySend, Becomes
  <2>3. QED BY <1>2, <2>1, <2>2
<1>4. LogOK(n)'
  <2>1. sent'[n] = sent[n] + 0 /\ excess'[n] = excess[n] + 0
    BY <1>1
  <2>2. 0 + Unit(MaySend(n, p)') <= Unit(MaySend(n, p)) + 0
    BY <1>3 DEF Unit
  <2>3. run[n][p].pc \in Busy /\ q.pc # "none" /\ q.made < MaxAttempts
    BY <1>1, <1>2 DEF Busy
  <2>4. logs'[n].status # "failed"
    BY <1>3 DEF HasLog
  <2>5. sent[n] + 0 > 0
    BY <1>1
  <2>6. QED BY <1>1, <1>2, <1>3, <2>1, <2>2, <2>3, <2>4, <2>5, JobOK
<1>5. QED BY <1>1, <1>2, <1>3, <1>4, WorkStep

LEMMA NoteFailedStep ==
  ASSUME IInv, NEW n \in Logs, NEW p \in Places, NoteFailed(n, p) PROVE IInv'
<1>1. /\ run[n][p].pc = "fail" /\ LogOK(n) /\ run[n][p].made < MaxAttempts /\ Quiet
      /\ sent' = sent /\ excess' = excess /\ dropped' = dropped /\ faults' = faults
      /\ logs \in [Logs -> Log] /\ sent \in [Logs -> Nat] /\ excess \in [Logs -> Nat]
      /\ dropped \subseteq Logs /\ faults \in 0 .. MaxFaults
  BY Known DEF NoteFailed, LogOK, Busy, Quiet, TypeOK
<1>2. PICK q \in Run :
        /\ q.pc = IF run[n][p].made + 1 < MaxAttempts THEN "wait" ELSE "done"
        /\ q.made = run[n][p].made + 1 /\ Becomes(n, p, q)
  BY <1>1, AgainStep DEF NoteFailed
<1>3. /\ logs' \in [Logs -> Log] /\ \A m \in Logs \ {n} : logs'[m] = logs[m]
      /\ HasLog(n) => logs'[n].status \in {"retrying", "failed"}
      /\ HasLog(n) /\ logs'[n].status = "failed" => q.pc = "done"
      /\ ~ HasLog(n) => logs' = logs
  <2>1. CASE HasLog(n)
    <3>1. PICK status \in {"retrying", "failed"} :
            Note(n, p, status) /\ (status = "failed" => q.pc = "done")
      BY <1>2, <2>1 DEF NoteFailed
    <3>2. QED BY <1>1, <2>1, <3>1, NoteStep
  <2>2. CASE ~ HasLog(n)
    BY <1>1, <2>2 DEF NoteFailed
  <2>3. QED BY <2>1, <2>2
<1>4. HasLog(n)' = HasLog(n)
  BY <1>3 DEF HasLog
<1>5. HasLog(n) => MaySend(n, p)
  BY <1>1 DEF MaySend
<1>6. ~ HasLog(n) => ~ MaySend(n, p)'
  BY <1>2, <1>4 DEF MaySend, Becomes
<1>7. HasLog(n) /\ excess[n] = 0 => sent[n] = 0
  <2>1. HasLog(n) => ToSend(n) >= 1
    <3>1. MaySend(n, p) => ToSend(n) >= 1
      BY DEF ToSend, Unit, Places
    <3>2. QED BY <1>5, <3>1
  <2>2. ToSend(n) \in Nat /\ sent[n] \in Nat /\ excess[n] \in Nat
    BY <1>1 DEF ToSend, Unit
  <2>3. sent[n] + ToSend(n) <= 1 + excess[n]
    BY <1>1 DEF LogOK, Paid
  <2>4. QED BY <2>1, <2>2, <2>3
<1>8. LogOK(n)'
  <2>1. sent'[n] = sent[n] + 0 /\ excess'[n] = excess[n] + 0 /\ sent[n] \in Nat /\ excess[n] \in Nat
    BY <1>1
  <2>2. 0 + Unit(MaySend(n, p)') <= Unit(MaySend(n, p)) + 0
    BY <1>5, <1>6 DEF Unit
  <2>3. /\ run[n][p].pc \in Busy /\ q.pc \notin {"none", "note"}
        /\ q.pc \in Busy => q.made < MaxAttempts
    BY <1>1, <1>2 DEF Busy
  <2>4. logs'[n].status # "sent" /\ (logs'[n].status = "failed" => HasLog(n) /\ q.pc = "done")
    BY <1>3 DEF HasLog
  <2>5. logs'[n].status \in {"none", "blocked"} => logs[n].status \in {"none", "blocked"}
    BY <1>3
  <2>6. logs'[n].status = "failed" /\ excess[n] + 0 = 0 => sent[n] + 0 = 0 /\ q.pc \notin Busy
    BY <1>7, <2>1, <2>4 DEF Busy
  <2>7. QED BY <1>1, <1>2, <1>4, <2>1, <2>2, <2>3, <2>4, <2>5, <2>6, JobOK
<1>9. QED BY <1>1, <1>2, <1>3, <1>8, WorkStep

LEMMA UpdateFailsStep ==
  ASSUME IInv, NEW n \in Logs, NEW p \in Places, UpdateFails(n, p) PROVE IInv'
<1>1. /\ run[n][p].pc \in {"wait", "note", "fail"} /\ LogOK(n) /\ run[n][p].made < MaxAttempts
      /\ sent' = sent /\ logs' = logs /\ Quiet
      /\ logs \in [Logs -> Log] /\ sent \in [Logs -> Nat] /\ excess \in [Logs -> Nat]
      /\ dropped' \subseteq Logs /\ faults \in 0 .. MaxFaults
      /\ faults < MaxFaults /\ faults' = faults + 1
  BY Known DEF UpdateFails, LogOK, Busy, Quiet, TypeOK, Fault
<1>2. faults' \in 0 .. MaxFaults
  BY <1>1, NotificationAssumption
<1>3. HasLog(n)' = HasLog(n)
  BY <1>1 DEF HasLog
<1>4. PICK fault \in 0 .. 1, q \in Run :
        /\ excess' = [excess EXCEPT ![n] = @ + fault]
        /\ q.pc # "none" /\ q.pc # "note" /\ Becomes(n, p, q)
        /\ q.pc \in Busy => q.made < MaxAttempts
        /\ fault = 0 => q.pc # "fail" /\ q.pc # "send" /\ run[n][p].pc \in {"wait", "fail"}
  <2>1. CASE run[n][p].pc = "note"
    <3>1. To(n, p, "fail") /\ excess' = [excess EXCEPT ![n] = @ + 1]
      BY <2>1 DEF UpdateFails
    <3>2. PICK q \in Run : q.pc = "fail" /\ q.made = run[n][p].made /\ Becomes(n, p, q)
      BY <3>1, ToStep
    <3>3. QED BY <1>1, <3>1, <3>2
  <2>2. CASE run[n][p].pc # "note"
    <3>1. Again(n, p) /\ excess' = [excess EXCEPT ![n] = @ + 0]
      <4>1. Again(n, p) /\ excess' = [excess EXCEPT ![n] = @]
        BY <1>1, <2>2 DEF UpdateFails
      <4>2. excess[n] + 0 = excess[n]
        BY <1>1
      <4>3. QED BY <4>1, <4>2
    <3>2. PICK q \in Run :
            /\ q.pc = IF run[n][p].made + 1 < MaxAttempts THEN "wait" ELSE "done"
            /\ q.made = run[n][p].made + 1 /\ Becomes(n, p, q)
      BY <1>1, <3>1, AgainStep
    <3>3. /\ q.pc # "none" /\ q.pc # "note" /\ q.pc # "fail" /\ q.pc # "send"
          /\ q.pc \in Busy => q.made < MaxAttempts
      BY <3>2 DEF Busy
    <3>4. QED BY <1>1, <2>2, <3>1, <3>2, <3>3
  <2>3. QED BY <2>1, <2>2
<1>5. /\ excess' \in [Logs -> Nat] /\ excess'[n] = excess[n] + fault
      /\ \A m \in Logs \ {n} : excess'[m] = excess[m]
  BY <1>1, <1>4
<1>6. LogOK(n)'
  <2>1. sent'[n] = sent[n] + 0 /\ fault \in Nat /\ sent[n] \in Nat /\ excess[n] \in Nat
    BY <1>1
  <2>2. fault = 0 => (MaySend(n, p)' => MaySend(n, p))
    BY <1>3, <1>4 DEF MaySend, Becomes
  <2>3. 0 + Unit(MaySend(n, p)') <= Unit(MaySend(n, p)) + fault
    BY <2>1, <2>2 DEF Unit
  <2>4. logs'[n] = logs[n] /\ (logs[n].status = "sent" => sent[n] + 0 > 0)
    BY <1>1 DEF LogOK
  <2>5. logs[n].status = "failed" => excess[n] + fault # 0
    <3>1. logs[n].status = "failed" => excess[n] # 0
      BY <1>1 DEF LogOK, Busy
    <3>2. QED BY <2>1, <3>1
  <2>6. run[n][p].pc \in Busy
    BY <1>1 DEF Busy
  <2>7. QED BY <1>1, <1>3, <1>4, <1>5, <2>1, <2>3, <2>4, <2>5, <2>6, JobOK
<1>7. \A m \in Logs \ {n} : logs'[m] = logs[m] /\ sent'[m] = sent[m]
  BY <1>1
<1>8. QED BY <1>1, <1>2, <1>4, <1>5, <1>6, <1>7, WorkStep

-----------------------------------------------------------------------------
(* The call that writes and enqueues *)

\* A step that moves no job: what it needs of the log it is about.
LEMMA CallStep ==
  ASSUME IInv, NEW n \in Logs, run' = run, sent' = sent, excess' = excess,
         \A m \in Logs \ {n} : logs'[m] = logs[m] /\ (Asked(m)' => Asked(m)),
         LogOK(n)', TypeOK', OneAsks', LateOK'
  PROVE  IInv'
<1>1. ASSUME NEW m \in Logs PROVE LogOK(m)'
  <2>1. CASE m = n
    BY <2>1
  <2>2. CASE m # n
    BY Known, <2>2, LogStays
  <2>3. QED BY <2>1, <2>2
<1>2. QED BY <1>1 DEF IInv

\* Nothing changes about logs and jobs, and no call asks for anything new.
LEMMA IdleStep ==
  ASSUME IInv, UNCHANGED <<logs, run, sent, excess>>,
         \A n \in Logs : Asked(n)' => Asked(n), TypeOK', OneAsks', LateOK'
  PROVE  IInv'
<1>1. \A n \in Logs : LogOK(n)'
  BY Known, LogStays
<1>2. QED BY <1>1 DEF IInv

LEMMA OneMore ==
  ASSUME NEW S, IsFiniteSet(S), NEW x
  PROVE  /\ IsFiniteSet(S \cup {x}) /\ Cardinality(S \cup {x}) \in Nat
         /\ Cardinality(S \cup {x}) <= Cardinality(S) + 1
         /\ x \notin S => Cardinality(S \cup {x}) = Cardinality(S) + 1
<1>1. Cardinality(S) \in Nat
  BY FS_CardinalityType
<1>2. IsFiniteSet(S \cup {x})
  BY FS_AddElement
<1>3. CASE x \in S
  <2>1. S \cup {x} = S
    BY <1>3
  <2>2. QED BY <1>1, <1>3, <2>1
<1>4. CASE x \notin S
  <2>1. Cardinality(S \cup {x}) = Cardinality(S) + 1
    BY <1>4, FS_AddElement
  <2>2. QED BY <1>1, <1>2, <1>4, <2>1
<1>5. QED BY <1>3, <1>4

LEMMA LateTyped ==
  ASSUME IInv
  PROVE  /\ IsFiniteSet(late) /\ Cardinality(late) \in Nat
         /\ IsFiniteSet(Racing) /\ Cardinality(Racing) \in Nat /\ crossed \in Nat
<1>1. IsFiniteSet(Logs)
  BY NotificationAssumption, FS_Interval DEF Logs
<1>2. late \subseteq Logs /\ Racing \subseteq Calls /\ crossed \in Nat
  BY DEF IInv, TypeOK, Racing
<1>3. QED BY <1>1, <1>2, NotificationAssumption, FS_Subset, FS_CardinalityType

\* No row is written, and no call comes between an opt-out and its row.
LEMMA LateStays ==
  ASSUME IInv, late' = late, crossed' = crossed, Racing' \subseteq Racing
  PROVE  LateOK'
<1>1. PICK S, T : S = Racing /\ T = Racing'
  OBVIOUS
<1>2. T \subseteq S /\ IsFiniteSet(S) /\ Cardinality(S) \in Nat
  BY <1>1, LateTyped
<1>3. Cardinality(T) <= Cardinality(S) /\ Cardinality(T) \in Nat
  BY <1>2, FS_Subset, FS_CardinalityType
<1>4. Cardinality(late') = Cardinality(late) /\ Cardinality(late) + Cardinality(S) <= crossed
  BY <1>1 DEF IInv, LateOK
<1>5. Cardinality(late') + Cardinality(T) <= crossed'
  BY <1>2, <1>3, <1>4, LateTyped
<1>6. QED BY <1>1, <1>5 DEF LateOK

CallState == [pc : {"idle", "create", "block", "enqueue"}, channel : Channels, log : 0 .. MaxLogs]

LEMMA ReadLeadStep == ASSUME IInv, NEW k \in Calls, ReadLead(k) PROVE IInv'
<1> DEFINE c == [pc |-> IF OptedOut THEN "block" ELSE "create",
                 channel |-> template.channel, log |-> 0]
<1>1. /\ TypeOK /\ call \in [Calls -> CallState] /\ call' = [call EXCEPT ![k] = c]
      /\ UNCHANGED <<lead, template, queued, logs, run, sent, excess, dropped, late, crossed, edits, faults>>
  BY DEF IInv, ReadLead, TypeOK, CallState
<1>2. /\ c \in CallState /\ c.pc \in {"block", "create"}
      /\ c.pc = "create" => c.channel \notin Stopped
  BY <1>1, NotificationAssumption DEF TypeOK, CallState, OptedOut, Stopped
<1> HIDE DEF c
<1>3. /\ call' \in [Calls -> CallState] /\ call'[k] = c
      /\ \A j \in Calls \ {k} : call'[j] = call[j]
  BY <1>1, <1>2
<1>4. TypeOK'
  BY <1>1, <1>3 DEF TypeOK, CallState
<1>5. Racing' \subseteq Racing /\ OneAsks' /\ \A n \in Logs : Asked(n)' => Asked(n)
  <2>1. \A j \in Calls : call'[j].pc = "enqueue" => call'[j] = call[j]
    BY <1>2, <1>3
  <2>2. OneAsks' /\ \A n \in Logs : Asked(n)' => Asked(n)
    BY <2>1 DEF IInv, OneAsks, Asked
  <2>3. Stopped' = Stopped
    BY <1>1 DEF Stopped
  <2>4. QED BY <1>2, <1>3, <2>2, <2>3 DEF Racing, AboutToWrite
<1>6. QED BY <1>1, <1>4, <1>5, LateStays, IdleStep

\* A call is over.
LEMMA CallEnds ==
  ASSUME IInv, NEW k \in Calls, Return(k), UNCHANGED <<lead, late, crossed>>
  PROVE  /\ LateOK' /\ OneAsks' /\ call' \in [Calls -> CallState]
         /\ \A n \in Logs : Asked(n)' => Asked(n)
         /\ call[k].pc = "enqueue" => \A n \in Logs : call[k].log = n => ~ Asked(n)'
<1>1. NoCall \in CallState /\ NoCall.pc = "idle"
  BY NotificationAssumption DEF NoCall, CallState
<1>2. call \in [Calls -> CallState] /\ call' = [call EXCEPT ![k] = NoCall]
  BY DEF IInv, TypeOK, CallState, Return
<1>3. /\ call' \in [Calls -> CallState] /\ call'[k].pc = "idle"
      /\ \A j \in Calls \ {k} : call'[j] = call[j]
  BY <1>1, <1>2
<1>4. Racing' \subseteq Racing
  BY <1>3 DEF Racing, AboutToWrite, Stopped
<1>5. OneAsks /\ OneAsks'
  BY <1>3 DEF IInv, OneAsks
<1>6. QED BY <1>3, <1>4, <1>5, LateStays DEF Asked, OneAsks

LEMMA WriteBlockedLogStep == ASSUME IInv, NEW k \in Calls, WriteBlockedLog(k) PROVE IInv'
<1>1. PICK n \in Fresh, status \in {"blocked", "failed"} : logs' = [logs EXCEPT ![n].status = status]
  BY DEF WriteBlockedLog
<1>2. /\ n \in Logs /\ logs[n].status = "none" /\ Return(k)
      /\ UNCHANGED <<lead, template, queued, run, sent, excess, dropped, late, crossed, edits, faults>>
  BY DEF WriteBlockedLog, Fresh
<1>3. /\ TypeOK /\ LogOK(n) /\ logs \in [Logs -> Log] /\ logs[n] \in Log
      /\ sent[n] \in Nat /\ excess[n] \in Nat
  BY <1>2, Known
<1>4. /\ logs' \in [Logs -> Log] /\ logs'[n].status = status
      /\ \A m \in Logs \ {n} : logs'[m] = logs[m]
  <2> DEFINE l == [logs[n] EXCEPT !.status = status]
  <2>1. l \in Log /\ l.status = status
    BY <1>3 DEF Log, Settled
  <2>2. logs' = [logs EXCEPT ![n] = l]
    BY <1>1
  <2> HIDE DEF l
  <2>3. QED BY <1>2, <1>3, <2>1, <2>2
<1>5. /\ LateOK' /\ OneAsks' /\ call' \in [Calls -> CallState]
      /\ \A m \in Logs : Asked(m)' => Asked(m)
  BY <1>2, CallEnds
<1>6. TypeOK'
  BY <1>2, <1>3, <1>4, <1>5 DEF TypeOK, CallState
<1>7. LogOK(n)'
  <2>1. ~ Asked(n)' /\ Untouched(n)
    BY <1>2, <1>3, <1>5 DEF LogOK
  <2>2. /\ sent'[n] = 0 /\ excess'[n] = excess[n]
        /\ \A p \in Places : run'[n][p].pc = "none"
    BY <1>2, <2>1 DEF Untouched
  <2>3. ToSend(n)' = 0
    BY <1>2, <2>1, <2>2 DEF ToSend, MaySend, Unit, Places
  <2>4. Paid(n)'
    BY <1>3, <2>2, <2>3 DEF Paid
  <2>5. QED BY <1>1, <1>4, <2>1, <2>2, <2>4 DEF LogOK, Untouched, Busy, Places
<1>8. QED BY <1>2, <1>4, <1>5, <1>6, <1>7, CallStep

LEMMA WriteLogStep == ASSUME IInv, NEW k \in Calls, WriteLog(k) PROVE IInv'
<1>1. PICK n \in Fresh :
        /\ logs' = [logs EXCEPT ![n].status = "queued"]
        /\ call' = [call EXCEPT ![k].pc = "enqueue", ![k].log = n]
        /\ late' = IF call[k].channel \in lead.optOut \ {Sms} THEN late \cup {n} ELSE late
  BY DEF WriteLog
<1>2. /\ n \in Logs /\ logs[n].status = "none" /\ call[k].pc = "create"
      /\ UNCHANGED <<lead, template, queued, run, sent, excess, dropped, crossed, edits, faults>>
  BY DEF WriteLog, Fresh
<1>3. /\ TypeOK /\ LogOK(n) /\ LateOK /\ logs \in [Logs -> Log] /\ logs[n] \in Log
      /\ sent[n] \in Nat /\ excess[n] \in Nat /\ late \subseteq Logs
      /\ call \in [Calls -> CallState]
  BY <1>2, Known DEF TypeOK, CallState
<1>4. /\ logs' \in [Logs -> Log] /\ logs'[n].status = "queued"
      /\ \A m \in Logs \ {n} : logs'[m] = logs[m]
  <2> DEFINE l == [logs[n] EXCEPT !.status = "queued"]
  <2>1. l \in Log /\ l.status = "queued"
    BY <1>3 DEF Log, Settled
  <2>2. logs' = [logs EXCEPT ![n] = l]
    BY <1>1
  <2> HIDE DEF l
  <2>3. QED BY <1>2, <1>3, <2>1, <2>2
<1>5. /\ call' \in [Calls -> CallState] /\ call'[k].pc = "enqueue" /\ call'[k].log = n
      /\ \A j \in Calls \ {k} : call'[j] = call[j]
  <2> DEFINE c == [call[k] EXCEPT !.pc = "enqueue", !.log = n]
  <2>1. n \in 0 .. MaxLogs
    BY <1>2, NotificationAssumption DEF Logs
  <2>2. c \in CallState /\ c.pc = "enqueue" /\ c.log = n
    BY <1>3, <2>1 DEF CallState
  <2>3. call' = [call EXCEPT ![k] = c]
    BY <1>1, <1>3
  <2> HIDE DEF c
  <2>4. QED BY <1>3, <2>2, <2>3
<1>6. Asked(n)' /\ OneAsks' /\ \A m \in Logs \ {n} : Asked(m)' => Asked(m)
  <2>1. ~ Asked(n)
    BY <1>2, <1>3 DEF LogOK
  <2>2. OneAsks'
    BY <1>5, <2>1 DEF IInv, OneAsks, Asked
  <2>3. QED BY <1>5, <2>2 DEF Asked
<1>7. LateOK'
  <2>1. Stopped' = Stopped
    BY <1>2 DEF Stopped
  <2>2. CASE AboutToWrite(k, Stopped)
    <3>1. PICK S, T, L : S = Racing /\ T = Racing' /\ L = late
      OBVIOUS
    <3>2. k \in S /\ T = S \ {k}
      BY <1>5, <2>1, <2>2, <3>1 DEF Racing, AboutToWrite
    <3>3. IsFiniteSet(S) /\ IsFiniteSet(L) /\ Cardinality(S) \in Nat /\ Cardinality(L) \in Nat
      BY <3>1, LateTyped
    <3>4. Cardinality(T) = Cardinality(S) - 1
      BY <3>2, <3>3, FS_RemoveElement
    <3>5. late' \subseteq L \cup {n}
      BY <1>1, <3>1
    <3>6. /\ IsFiniteSet(L \cup {n}) /\ Cardinality(L \cup {n}) \in Nat
          /\ Cardinality(L \cup {n}) <= Cardinality(L) + 1
      BY <3>3, OneMore
    <3>7. Cardinality(late') <= Cardinality(L \cup {n}) /\ Cardinality(late') \in Nat
      BY <3>5, <3>6, FS_Subset, FS_CardinalityType
    <3>8. Cardinality(L) + Cardinality(S) <= crossed /\ crossed \in Nat /\ crossed' = crossed
      BY <1>2, <1>3, <3>1, LateTyped DEF LateOK
    <3>9. Cardinality(late') + Cardinality(T) <= crossed'
      BY <3>3, <3>4, <3>6, <3>7, <3>8
    <3>10. QED BY <3>1, <3>9 DEF LateOK
  <2>3. CASE ~ AboutToWrite(k, Stopped)
    <3>1. late' = late
      BY <1>1, <1>2, <2>3 DEF AboutToWrite, Stopped
    <3>2. Racing' \subseteq Racing
      BY <1>5, <2>1 DEF Racing, AboutToWrite
    <3>3. QED BY <1>2, <3>1, <3>2, LateStays
  <2>4. QED BY <2>2, <2>3
<1>8. TypeOK'
  <2>1. late' \subseteq Logs
    BY <1>1, <1>2, <1>3
  <2>2. QED BY <1>2, <1>3, <1>4, <1>5, <2>1 DEF TypeOK, CallState
<1>9. LogOK(n)'
  <2>1. Untouched(n)
    BY <1>2, <1>3 DEF LogOK
  <2>2. /\ sent'[n] = 0 /\ excess'[n] = excess[n]
        /\ \A p \in Places : run'[n][p].pc = "none"
    BY <1>2, <2>1 DEF Untouched
  <2>3. ToSend(n)' = 1
    BY <1>6, <2>2 DEF ToSend, MaySend, Unit, Places
  <2>4. Paid(n)'
    BY <1>3, <2>2, <2>3 DEF Paid
  <2>5. QED BY <1>4, <2>2, <2>4 DEF LogOK, Untouched, Busy, Places
<1>10. QED BY <1>2, <1>4, <1>6, <1>7, <1>8, <1>9, CallStep

LEMMA FaultStep ==
  ASSUME IInv, Fault PROVE faults' \in 0 .. MaxFaults
<1>1. faults \in 0 .. MaxFaults /\ faults < MaxFaults /\ faults' = faults + 1
  BY DEF IInv, TypeOK, Fault
<1>2. QED BY <1>1, NotificationAssumption

LEMMA GiveUpStep ==
  ASSUME IInv, NEW k \in Calls, GiveUp(k) \/ WriteFails(k) PROVE IInv'
<1>1. /\ TypeOK /\ Return(k) /\ faults' \in 0 .. MaxFaults
      /\ UNCHANGED <<lead, template, queued, logs, run, sent, excess, dropped, late, crossed, edits>>
  BY FaultStep DEF IInv, TypeOK, GiveUp, WriteFails
<1>2. /\ LateOK' /\ OneAsks' /\ call' \in [Calls -> CallState]
      /\ \A n \in Logs : Asked(n)' => Asked(n)
  BY <1>1, CallEnds
<1>3. TypeOK'
  BY <1>1, <1>2 DEF TypeOK, CallState
<1>4. QED BY <1>1, <1>2, <1>3, IdleStep

\* The job of the call waits in these places; more than one is a fault.
LEMMA WaitStep ==
  ASSUME IInv, NEW k \in Calls, call[k].pc = "enqueue", NEW places \in SUBSET Places, NEW fault \in Nat,
         Wait(k, places), excess' = [excess EXCEPT ![call[k].log] = @ + fault],
         fault = 0 => places # Places, faults' \in 0 .. MaxFaults,
         UNCHANGED <<lead, template, queued, logs, sent, dropped, late, crossed, edits>>
  PROVE  IInv'
<1> DEFINE q == [pc |-> "wait", made |-> 0, channel |-> call[k].channel]
<1>1. PICK n \in 0 .. MaxLogs : n = call[k].log
  <2>1. call[k] \in CallState
    BY DEF IInv, TypeOK, CallState
  <2>2. QED BY <2>1 DEF CallState
<1>2. /\ TypeOK /\ logs \in [Logs -> Log] /\ run \in [Logs -> [Places -> Run]]
      /\ excess \in [Logs -> Nat] /\ sent \in [Logs -> Nat]
  BY DEF IInv, TypeOK
<1>3. /\ Return(k)
      /\ run' = [run EXCEPT ![n] = [p \in Places |-> IF p \in places THEN q ELSE run[n][p]]]
  BY <1>1 DEF Wait
<1>4. q \in Run /\ q.pc = "wait" /\ q.made = 0
  <2>1. call[k] \in CallState
    BY <1>2 DEF TypeOK, CallState
  <2>2. QED BY <2>1, NotificationAssumption DEF CallState, Run
<1> HIDE DEF q
<1>5. /\ run' \in [Logs -> [Places -> Run]] /\ excess' \in [Logs -> Nat]
      /\ \A m \in Logs \ {n} : run'[m] = run[m] /\ excess'[m] = excess[m]
  <2>1. CASE n \in Logs
    <3> DEFINE f == [p \in Places |-> IF p \in places THEN q ELSE run[n][p]]
    <3>1. f \in [Places -> Run]
      BY <1>2, <1>4, <2>1
    <3>2. run' = [run EXCEPT ![n] = f]
      BY <1>3
    <3> HIDE DEF f
    <3>3. QED BY <1>1, <1>2, <2>1, <3>1, <3>2
  <2>2. CASE n \notin Logs
    BY <1>1, <1>2, <1>3, <2>2
  <2>3. QED BY <2>1, <2>2
<1>6. /\ LateOK' /\ OneAsks' /\ call' \in [Calls -> CallState]
      /\ \A m \in Logs : Asked(m)' => Asked(m)
      /\ \A m \in Logs : m = n => ~ Asked(m)'
  BY <1>1, <1>3, CallEnds
<1>7. ASSUME NEW m \in Logs PROVE LogOK(m)'
  <2>1. LogOK(m) /\ sent[m] \in Nat /\ excess[m] \in Nat
    BY Known
  <2>2. CASE m # n
    BY <1>5, <1>6, <2>1, <2>2, LogStays
  <2>3. CASE m = n
    <3>0. ~ Asked(m)'
      BY <1>6, <2>3
    <3>1. Asked(m) /\ Untouched(m) /\ logs'[m].status \in {"queued", "deleted"}
      BY <1>1, <2>1, <2>3 DEF Asked, LogOK
    <3>2. \A p \in Places : IF p \in places THEN run'[m][p] = q ELSE run'[m][p].pc = "none"
      BY <1>2, <1>3, <2>3, <3>1 DEF Untouched
    <3>3. sent'[m] = 0 /\ excess'[m] = excess[m] + fault
      BY <1>1, <1>2, <2>3, <3>1 DEF Untouched
    <3>4. PICK o \in Places : fault = 0 => o \notin places
      BY DEF Places
    <3>5. fault = 0 => ~ MaySend(m, o)' /\ run'[m][o].pc = "none"
      BY <3>2, <3>4 DEF MaySend
    <3>6. ToSend(m)' <= 1 + fault /\ ToSend(m)' \in Nat
      <4>1. CASE fault = 0
        BY <3>0, <3>5, <4>1 DEF ToSend, Unit, Places
      <4>2. CASE fault # 0
        BY <3>0, <4>2 DEF ToSend, Unit
      <4>3. QED BY <4>1, <4>2
    <3>7. Paid(m)'
      BY <2>1, <3>3, <3>6 DEF Paid
    <3>8. \A p \in Places : run'[m][p].pc \in Busy => run'[m][p].made < MaxAttempts
      BY <1>4, <3>2, NotificationAssumption DEF Busy
    <3>9. \A p \in Places : run'[m][p].pc # "note"
      BY <1>4, <3>2
    <3>10. excess'[m] = 0 => \E p \in Places : run'[m][p].pc = "none"
      <4>1. excess'[m] = 0 => fault = 0
        BY <2>1, <3>3
      <4>2. QED BY <3>5, <4>1
    <3>11. QED BY <3>0, <3>1, <3>7, <3>8, <3>9, <3>10 DEF LogOK
  <2>4. QED BY <2>2, <2>3
<1>8. \A m \in Logs, p \in Places :
         run'[m][p].pc \in {"send", "note", "fail"} => run'[m][p].made < MaxAttempts
  BY <1>7 DEF LogOK, Busy
<1>9. TypeOK'
  BY <1>2, <1>3, <1>5, <1>6, <1>8 DEF TypeOK, CallState
<1>10. QED BY <1>6, <1>7, <1>9 DEF IInv

LEMMA EnqueueStep ==
  ASSUME IInv, NEW k \in Calls, Enqueue(k) \/ EnqueueFails(k) PROVE IInv'
<1>0. excess = [excess EXCEPT ![call[k].log] = @ + 0] /\ faults \in 0 .. MaxFaults
  BY DEF IInv, TypeOK
<1>1. CASE Enqueue(k)
  <2>1. PICK places \in {{"queue"}, {"process"}} : Wait(k, places)
    BY <1>1 DEF Enqueue
  <2>2. places \in SUBSET Places /\ places # Places
    BY <2>1 DEF Places
  <2>3. excess' = [excess EXCEPT ![call[k].log] = @ + 0] /\ faults' \in 0 .. MaxFaults
    BY <1>0, <1>1 DEF Enqueue
  <2>4. QED BY <1>1, <2>1, <2>2, <2>3, WaitStep DEF Enqueue
<1>2. CASE EnqueueFails(k)
  <2>1. PICK places \in {{"process"}, Places}, fault \in 0 .. 1 :
          /\ Wait(k, places) /\ excess' = [excess EXCEPT ![call[k].log] = @ + fault]
          /\ fault = 0 => places = {"process"}
    <3>1. CASE Wait(k, {"process"}) /\ UNCHANGED excess
      BY <1>0, <3>1
    <3>2. CASE Wait(k, Places) /\ excess' = [excess EXCEPT ![call[k].log] = @ + 1]
      BY <3>2
    <3>3. QED BY <1>2, <3>1, <3>2 DEF EnqueueFails
  <2>2. places \in SUBSET Places /\ (fault = 0 => places # Places) /\ fault \in Nat
    BY <2>1 DEF Places
  <2>3. faults' \in 0 .. MaxFaults
    BY <1>2, FaultStep DEF EnqueueFails
  <2>4. QED BY <1>2, <2>1, <2>2, <2>3, WaitStep DEF EnqueueFails
<1>3. QED BY <1>1, <1>2

-----------------------------------------------------------------------------
(* The customer, administrators and faults *)

LEMMA EditStep ==
  ASSUME IInv, Edit PROVE edits' \in 0 .. MaxEdits
<1>1. edits \in 0 .. MaxEdits /\ edits < MaxEdits /\ edits' = edits + 1
  BY DEF IInv, TypeOK, Edit
<1>2. QED BY <1>1, NotificationAssumption

LEMMA OptOutStep == ASSUME IInv, OptOutOfChannel \/ MarkSmsDnd PROVE IInv'
<1>1. /\ UNCHANGED <<template, queued, call, logs, run, sent, excess, dropped, late, faults>>
      /\ TypeOK /\ LateOK /\ edits' \in 0 .. MaxEdits
  BY EditStep DEF OptOutOfChannel, MarkSmsDnd, IInv
<1>2. PICK c \in Channels \ lead.optOut : lead' = [lead EXCEPT !.optOut = @ \cup {c}]
  BY NotificationAssumption DEF OptOutOfChannel, MarkSmsDnd
<1>3. PICK opted : opted = lead.optOut \cup {c}
  OBVIOUS
<1>4. /\ lead' = [lead EXCEPT !.optOut = opted] /\ opted \subseteq Channels
      /\ lead' \in [exists : BOOLEAN, optOut : SUBSET Channels,
                    doomed : SUBSET Logs, deleting : BOOLEAN]
      /\ lead'.optOut = lead.optOut \cup {c}
  BY <1>1, <1>2, <1>3 DEF TypeOK
<1>5. TypeOK'
  <2>1. crossed' \in Nat
    <3>1. CASE MarkSmsDnd
      BY <1>1, <3>1 DEF MarkSmsDnd, TypeOK
    <3>2. CASE OptOutOfChannel
      <4>1. PICK d : crossed' = crossed + Cardinality({k \in Calls : AboutToWrite(k, {d})})
        BY <3>2 DEF OptOutOfChannel
      <4>2. PICK T : T = {k \in Calls : AboutToWrite(k, {d})}
        OBVIOUS
      <4>3. T \subseteq Calls
        BY <4>2
      <4>4. Cardinality(T) \in Nat
        BY <4>3, NotificationAssumption, FS_Subset, FS_CardinalityType
      <4>5. QED BY <1>1, <4>1, <4>2, <4>4 DEF TypeOK
    <3>3. QED BY <3>1, <3>2
  <2>2. QED BY <1>1, <1>4, <2>1 DEF TypeOK
<1>6. LateOK'
  <2>1. CASE MarkSmsDnd
    <3>1. Stopped' = Stopped /\ crossed' = crossed
      BY <1>1, <2>1 DEF Stopped, MarkSmsDnd, TypeOK
    <3>2. Racing' \subseteq Racing
      BY <1>1, <3>1 DEF Racing, AboutToWrite
    <3>3. QED BY <1>1, <3>1, <3>2, LateStays
  <2>2. CASE OptOutOfChannel
    <3>1. PICK d \in Channels \ (lead.optOut \cup {Sms}) :
            /\ lead' = [lead EXCEPT !.optOut = @ \cup {d}]
            /\ crossed' = crossed + Cardinality({k \in Calls : AboutToWrite(k, {d})})
      BY <2>2 DEF OptOutOfChannel
    <3>2. Stopped' = Stopped \cup {d}
      BY <1>1, <3>1 DEF Stopped, TypeOK
    <3>3. PICK R, S, T, L : /\ R = Racing' /\ S = Racing /\ L = late
                            /\ T = {k \in Calls : AboutToWrite(k, {d})}
      OBVIOUS
    <3>4. R \subseteq S \cup T
      BY <1>1, <3>2, <3>3 DEF Racing, AboutToWrite
    <3>5. T \subseteq Calls /\ IsFiniteSet(Calls)
      BY <3>3, NotificationAssumption
    <3>6. IsFiniteSet(T) /\ Cardinality(T) \in Nat /\ IsFiniteSet(S) /\ Cardinality(S) \in Nat
      BY <3>3, <3>5, LateTyped, FS_Subset, FS_CardinalityType
    <3>7. /\ IsFiniteSet(S \cup T) /\ IsFiniteSet(S \cap T)
          /\ Cardinality(S \cup T) = Cardinality(S) + Cardinality(T) - Cardinality(S \cap T)
      BY <3>6, FS_Union, FS_Intersection
    <3>8. Cardinality(S \cap T) \in Nat /\ Cardinality(S \cup T) \in Nat
      BY <3>7, FS_CardinalityType
    <3>9. Cardinality(R) <= Cardinality(S \cup T) /\ Cardinality(R) \in Nat
      BY <3>4, <3>7, FS_Subset, FS_CardinalityType
    <3>10. Cardinality(L) + Cardinality(S) <= crossed /\ crossed \in Nat /\ Cardinality(L) \in Nat
      BY <1>1, <3>3, LateTyped DEF LateOK
    <3>11. Cardinality(L) + Cardinality(R) <= crossed + Cardinality(T)
      BY <3>6, <3>7, <3>8, <3>9, <3>10
    <3>12. late' = L /\ crossed' = crossed + Cardinality(T)
      BY <1>1, <3>1, <3>3
    <3>13. QED BY <3>3, <3>11, <3>12 DEF LateOK
  <2>3. QED BY <2>1, <2>2
<1>7. OneAsks' /\ \A n \in Logs : Asked(n)' => Asked(n)
  BY <1>1 DEF IInv, OneAsks, Asked
<1>8. QED BY <1>1, <1>5, <1>6, <1>7, IdleStep

LEMMA TemplateStep == ASSUME IInv, EditTemplate \/ DeleteTemplate PROVE IInv'
<1>1. /\ UNCHANGED <<lead, queued, call, logs, run, sent, excess, dropped, late, crossed, faults>>
      /\ TypeOK /\ LateOK /\ edits' \in 0 .. MaxEdits
  BY EditStep DEF EditTemplate, DeleteTemplate, IInv
<1>2. template' \in [state : {"active", "inactive", "gone"}, channel : Channels,
                     promotional : BOOLEAN]
  BY <1>1 DEF EditTemplate, DeleteTemplate, TypeOK
<1>3. TypeOK' /\ OneAsks' /\ LateOK'
  BY <1>1, <1>2 DEF IInv, TypeOK, OneAsks, LateOK, Racing, AboutToWrite, Stopped
<1>4. QED BY <1>1, <1>3, IdleStep DEF Asked

LEMMA DeleteLogsStep == ASSUME IInv, DeleteLogs PROVE IInv'
<1>1. /\ UNCHANGED <<template, queued, call, logs, run, sent, excess, dropped, late, crossed, faults>>
      /\ TypeOK /\ LateOK /\ edits' \in 0 .. MaxEdits
  BY EditStep DEF DeleteLogs, IInv
<1>2. PICK rows \in SUBSET Logs : lead' = [lead EXCEPT !.deleting = TRUE, !.doomed = rows]
  <2>1. {n \in Logs : HasLog(n)} \in SUBSET Logs
    OBVIOUS
  <2>2. QED BY <2>1 DEF DeleteLogs
<1>3. /\ lead' \in [exists : BOOLEAN, optOut : SUBSET Channels,
                    doomed : SUBSET Logs, deleting : BOOLEAN]
      /\ lead'.optOut = lead.optOut
  BY <1>1, <1>2 DEF TypeOK
<1>4. TypeOK' /\ OneAsks' /\ LateOK'
  BY <1>1, <1>3 DEF IInv, TypeOK, OneAsks, LateOK, Racing, AboutToWrite, Stopped
<1>5. QED BY <1>1, <1>4, IdleStep DEF Asked

LEMMA DeleteLeadStep == ASSUME IInv, DeleteLead PROVE IInv'
<1>1. /\ UNCHANGED <<template, queued, call, run, sent, excess, dropped, late, crossed, edits, faults>>
      /\ TypeOK /\ LateOK /\ logs \in [Logs -> Log]
      /\ lead' = [lead EXCEPT !.exists = FALSE, !.deleting = FALSE]
      /\ logs' = [n \in Logs |-> IF n \in lead.doomed
                                   THEN [logs[n] EXCEPT !.status = "deleted"] ELSE logs[n]]
  BY DEF DeleteLead, IInv, TypeOK
<1>2. /\ lead' \in [exists : BOOLEAN, optOut : SUBSET Channels,
                    doomed : SUBSET Logs, deleting : BOOLEAN]
      /\ lead'.optOut = lead.optOut
  BY <1>1 DEF TypeOK
<1>3. ASSUME NEW n \in Logs
      PROVE  logs'[n] \in Log /\ (logs'[n] = logs[n] \/ logs'[n].status = "deleted")
  <2>1. logs[n] \in Log /\ [logs[n] EXCEPT !.status = "deleted"] \in Log
    BY <1>1 DEF Log
  <2>2. QED BY <1>1, <2>1 DEF Log
<1>4. logs' \in [Logs -> Log]
  BY <1>1, <1>3
<1>5. ASSUME NEW n \in Logs PROVE LogOK(n)'
  <2>1. /\ LogOK(n) /\ sent[n] \in Nat /\ excess[n] \in Nat
        /\ Asked(n)' = Asked(n) /\ Untouched(n)' = Untouched(n)
    BY <1>1, Known DEF Asked, Untouched
  <2>2. CASE logs'[n] = logs[n]
    BY <1>1, <2>1, <2>2, LogStays
  <2>3. CASE logs'[n].status = "deleted"
    <3>1. /\ MaySend(n, "queue")' => MaySend(n, "queue")
          /\ MaySend(n, "process")' => MaySend(n, "process")
      BY <1>1, <2>3 DEF MaySend, HasLog
    <3>2. ToSend(n)' <= ToSend(n) /\ ToSend(n) \in Nat /\ ToSend(n)' \in Nat
      BY <2>1, <3>1 DEF ToSend, Unit
    <3>3. Paid(n)'
      BY <1>1, <2>1, <3>2 DEF LogOK, Paid
    <3>4. QED BY <1>1, <2>1, <2>3, <3>3 DEF LogOK
  <2>4. QED BY <1>3, <2>2, <2>3
<1>6. TypeOK' /\ OneAsks' /\ LateOK'
  BY <1>1, <1>2, <1>4 DEF IInv, TypeOK, OneAsks, LateOK, Racing, AboutToWrite, Stopped
<1>7. QED BY <1>5, <1>6 DEF IInv

LEMMA RestartStep == ASSUME IInv, Restart PROVE IInv'
<1> DEFINE busy(n, p) == run[n][p].pc \in {"send", "note", "fail"}
           killed == {n \in Logs : run[n]["process"].pc = "wait" \/ busy(n, "process")}
           resumed(n, p) ==
             CASE p = "queue" /\ busy(n, p) -> [run[n][p] EXCEPT !.pc = "wait"]
               [] p = "process" /\ n \in killed -> [run[n][p] EXCEPT !.pc = "done"]
               [] OTHER -> run[n][p]
<1>1. /\ UNCHANGED <<template, queued, logs, sent, late, crossed, edits>> /\ call' = [k \in Calls |-> NoCall]
      /\ TypeOK /\ LateOK /\ logs \in [Logs -> Log] /\ excess \in [Logs -> Nat]
      /\ faults' \in 0 .. MaxFaults
      /\ lead' = [lead EXCEPT !.deleting = FALSE, !.doomed = {}]
      /\ run' = [n \in Logs |-> [p \in Places |-> resumed(n, p)]]
      /\ excess' = [n \in Logs |->
            IF run[n]["queue"].pc = "note" THEN excess[n] + 1 ELSE excess[n]]
  BY FaultStep DEF Restart, IInv, TypeOK
<1>2. /\ lead' \in [exists : BOOLEAN, optOut : SUBSET Channels,
                    doomed : SUBSET Logs, deleting : BOOLEAN]
      /\ lead'.optOut = lead.optOut
  BY <1>1 DEF TypeOK
<1>3. dropped' \subseteq Logs
  <2>1. dropped' = dropped \cup killed \cup ({call[k].log : k \in Calls} \ {0})
    BY DEF Restart
  <2>2. \A k \in Calls : call[k].log \in 0 .. MaxLogs
    <3>1. \A k \in Calls : call[k] \in CallState
      BY <1>1 DEF TypeOK, CallState
    <3>2. QED BY <3>1 DEF CallState
  <2>3. \A k \in Calls : call[k].log # 0 => call[k].log \in Logs
    BY <2>2, NotificationAssumption DEF Logs
  <2>4. dropped \subseteq Logs
    BY <1>1 DEF TypeOK
  <2>5. QED BY <2>1, <2>3, <2>4
<1>4. ASSUME NEW n \in Logs, NEW p \in Places
      PROVE  /\ resumed(n, p) \in Run /\ resumed(n, p).made = run[n][p].made
             /\ resumed(n, p).pc = IF p = "queue"
                  THEN IF busy(n, p) THEN "wait" ELSE run[n][p].pc
                  ELSE IF run[n][p].pc \in Busy THEN "done" ELSE run[n][p].pc
  <2>1. run[n][p] \in Run
    BY Known
  <2>2. /\ [run[n][p] EXCEPT !.pc = "wait"] \in Run
        /\ [run[n][p] EXCEPT !.pc = "wait"].pc = "wait"
        /\ [run[n][p] EXCEPT !.pc = "wait"].made = run[n][p].made
        /\ [run[n][p] EXCEPT !.pc = "done"] \in Run
        /\ [run[n][p] EXCEPT !.pc = "done"].pc = "done"
        /\ [run[n][p] EXCEPT !.pc = "done"].made = run[n][p].made
    BY <2>1 DEF Run
  <2>3. CASE p = "queue"
    BY <2>1, <2>2, <2>3
  <2>4. CASE p = "process"
    BY <2>1, <2>2, <2>4 DEF Busy
  <2>5. QED BY <2>3, <2>4 DEF Places
<1>5. /\ run' \in [Logs -> [Places -> Run]]
      /\ \A n \in Logs, p \in Places : run'[n][p] = resumed(n, p)
  BY <1>1, <1>4
<1> HIDE DEF resumed
<1>6. excess' \in [Logs -> Nat]
  BY <1>1
<1>7. LateOK' /\ OneAsks' /\ \A n \in Logs : ~ Asked(n)'
  <2>1. \A k \in Calls : call'[k].pc = "idle"
    BY <1>1 DEF NoCall
  <2>2. Racing' \subseteq Racing
    BY <2>1 DEF Racing, AboutToWrite
  <2>3. LateOK'
    BY <1>1, <2>2, LateStays
  <2>4. QED BY <2>1, <2>3 DEF Asked, OneAsks
<1>8. ASSUME NEW n \in Logs PROVE LogOK(n)'
  <2>1. LogOK(n) /\ sent[n] \in Nat /\ excess[n] \in Nat
    BY Known
  <2>2. PICK fault \in {0, 1} :
          /\ excess'[n] = excess[n] + fault
          /\ fault = 0 => run[n]["queue"].pc # "note"
    BY <1>1, <2>1
  <2>3. /\ ~ MaySend(n, "process")'
        /\ fault = 0 => (MaySend(n, "queue")' => MaySend(n, "queue"))
    <3>1. run'[n]["process"].pc \notin Busy
      BY <1>4, <1>5 DEF Busy, Places
    <3>2. run'[n]["queue"].pc =
            IF run[n]["queue"].pc \in {"send", "note", "fail"} THEN "wait" ELSE run[n]["queue"].pc
      BY <1>4, <1>5 DEF Places
    <3>3. HasLog(n)' = HasLog(n)
      BY <1>1 DEF HasLog
    <3>4. QED BY <2>2, <3>1, <3>2, <3>3 DEF MaySend, Busy
  <2>4. ToSend(n)' <= ToSend(n) + fault /\ ToSend(n) \in Nat /\ ToSend(n)' \in Nat
    <3>1. ToSend(n)' = Unit(MaySend(n, "queue")') /\ ToSend(n) >= Unit(MaySend(n, "queue"))
      BY <1>7, <2>3 DEF ToSend, Unit
    <3>2. Unit(MaySend(n, "queue")') <= Unit(MaySend(n, "queue")) + fault
      BY <2>3 DEF Unit
    <3>3. ToSend(n) \in Nat /\ ToSend(n)' \in Nat
      BY DEF ToSend, Unit
    <3>4. QED BY <3>1, <3>2, <3>3 DEF Unit
  <2>5. Paid(n)'
    <3>1. sent'[n] = sent[n] /\ fault \in Nat /\ sent[n] + ToSend(n) <= 1 + excess[n]
      BY <1>1, <2>1 DEF LogOK, Paid
    <3>2. sent[n] + ToSend(n)' <= 1 + (excess[n] + fault)
      BY <2>1, <2>4, <3>1
    <3>3. QED BY <2>2, <3>1, <3>2 DEF Paid
  <2>6. ASSUME NEW p \in Places
        PROVE  /\ run'[n][p].made = run[n][p].made /\ run'[n][p].pc # "note"
               /\ run'[n][p].pc \in Busy => run[n][p].pc \in Busy
               /\ run[n][p].pc = "none" => run'[n][p].pc = "none"
    BY <1>4, <1>5 DEF Busy, Places
  <2>7. excess'[n] = 0 => excess[n] = 0
    BY <2>1, <2>2
  <2>8. QED BY <1>1, <1>7, <2>1, <2>5, <2>6, <2>7 DEF LogOK, Untouched
<1>9. \A n \in Logs, p \in Places :
         run'[n][p].pc \in {"send", "note", "fail"} => run'[n][p].made < MaxAttempts
  BY <1>8 DEF LogOK, Busy
<1>10. call' \in [Calls -> CallState]
  <2>1. 0 \in 0 .. MaxLogs
    BY NotificationAssumption
  <2>2. QED BY <1>1, <2>1, NotificationAssumption DEF NoCall, CallState
<1>11. TypeOK'
  BY <1>1, <1>2, <1>3, <1>5, <1>6, <1>9, <1>10 DEF TypeOK, CallState
<1>12. QED BY <1>7, <1>8, <1>11 DEF IInv

-----------------------------------------------------------------------------
(* The theorems *)

LEMMA InitHolds == Init => IInv
<1> SUFFICES ASSUME Init PROVE IInv
  OBVIOUS
<1>1. TypeOK
  <2>1. /\ 0 \in 0 .. MaxAttempts /\ 0 \in 0 .. MaxLogs
        /\ 0 \in 0 .. MaxEdits /\ 0 \in 0 .. MaxFaults /\ Sms \in Channels
    BY NotificationAssumption
  <2>2. NoLog \in Log /\ NoRun \in Run /\ NoRun.pc = "none"
    BY <2>1 DEF NoLog, NoRun, Log, Run
  <2>3. logs \in [Logs -> Log] /\ run \in [Logs -> [Places -> Run]]
    BY <2>2 DEF Init
  <2>4. \A n \in Logs, p \in Places : run[n][p].pc = "none"
    BY <2>2 DEF Init
  <2>5. NoCall \in CallState
    BY <2>1 DEF NoCall, CallState
  <2>6. QED BY <2>1, <2>3, <2>4, <2>5 DEF Init, TypeOK, CallState
<1>2. ASSUME NEW n \in Logs PROVE LogOK(n)
  <2>1. /\ logs[n].status = "none" /\ sent[n] = 0 /\ excess[n] = 0 /\ ~ Asked(n)
        /\ \A p \in Places : run[n][p].pc = "none"
    BY DEF Init, NoLog, NoRun, NoCall, Asked
  <2>2. ToSend(n) = 0
    BY <2>1 DEF ToSend, MaySend, Unit, Places
  <2>3. QED BY <2>1, <2>2 DEF LogOK, Paid, Untouched, Busy, Places
<1>3. LateOK /\ OneAsks
  <2>1. late = {} /\ Racing = {} /\ crossed = 0
    BY DEF Init, Racing, AboutToWrite, NoCall
  <2>2. QED BY <2>1, FS_EmptySet DEF LateOK, OneAsks, Init, NoCall
<1>4. QED BY <1>1, <1>2, <1>3 DEF IInv

LEMMA Inductive == IInv /\ [Next]_vars => IInv'
<1> SUFFICES ASSUME IInv, [Next]_vars PROVE IInv'
  OBVIOUS
<1>1. ASSUME NEW k \in Calls, Call(k) PROVE IInv'
  BY <1>1, ReadLeadStep, WriteBlockedLogStep, WriteLogStep, GiveUpStep, EnqueueStep DEF Call
<1>2. ASSUME NEW k \in Calls, Enqueue(k) PROVE IInv'
  BY <1>2, EnqueueStep
<1>3. CASE Environment
  BY <1>3, OptOutStep, TemplateStep, DeleteLogsStep, DeleteLeadStep, RestartStep DEF Environment
<1>4. ASSUME NEW n \in Logs, NEW p \in Places, Work(n, p) \/ AnswerLost(n, p) \/ UpdateFails(n, p)
      PROVE  IInv'
  BY <1>4, BeginAttemptStep, ProviderStep, NoteSentStep, NoteFailedStep, UpdateFailsStep DEF Work
<1>5. CASE UNCHANGED vars
  <2>1. TypeOK' /\ OneAsks' /\ LateOK'
    BY <1>5 DEF IInv, vars, TypeOK, OneAsks, LateOK, Racing, AboutToWrite, Stopped
  <2>2. QED BY <1>5, <2>1, IdleStep DEF vars, Asked
<1>6. QED BY <1>1, <1>2, <1>3, <1>4, <1>5 DEF Next

\* What every step keeps, and the properties below follow from.
THEOREM Invariant == Spec => []IInv
BY InitHolds, Inductive, PTL DEF Spec

\* Types, and that a job that calls has attempts left.
THEOREM TypeCorrect == Spec => []TypeOK
<1>1. IInv => TypeOK
  BY DEF IInv
<1>2. QED BY <1>1, Invariant, PTL

LEMMA SoundFromInvariant == IInv => LogIsSound
<1> SUFFICES ASSUME IInv PROVE LogIsSound
  OBVIOUS
<1>1. ASSUME NEW n \in Logs
      PROVE  /\ sent[n] <= 1 + excess[n]
             /\ logs[n].status = "sent" => sent[n] > 0
             /\ logs[n].status = "failed" /\ excess[n] = 0 => sent[n] = 0
             /\ logs[n].status = "blocked" => sent[n] = 0
  <2>1. LogOK(n) /\ sent[n] \in Nat /\ excess[n] \in Nat
    BY Known
  <2>2. ToSend(n) \in Nat
    BY DEF ToSend, Unit
  <2>3. sent[n] <= 1 + excess[n]
    BY <2>1, <2>2 DEF LogOK, Paid
  <2>4. QED BY <2>1, <2>3 DEF LogOK, Untouched
<1>2. QED BY <1>1 DEF IInv, LogIsSound, OutcomeIsTrue, DuplicatesAreExplained

\* The rows of the log tell what happened, and a customer gets a message more
\* than once only by as many faults as repeat it.
THEOREM LogSound == Spec => []LogIsSound
BY SoundFromInvariant, Invariant, PTL

\* The notifications written to a channel after its opt-out are no more than
\* the calls that opt-outs found between their read and their write.
THEOREM OptOutRespected == Spec => []OptOutStopsNotifications
<1>1. IInv => OptOutStopsNotifications
  BY LateTyped DEF IInv, LateOK, OptOutStopsNotifications
<1>2. QED BY <1>1, Invariant, PTL

-----------------------------------------------------------------------------
(***************************************************************************)
(* The other way to reach a person, a chat: for every number of messages,  *)
(* texts and mishaps, and any two users.  Its proofs share this module,    *)
(* and no variable, with those of the notifications.                       *)
(***************************************************************************)

\* A finite set of numbers that is not empty has a greatest one.
LEMMA MaxExists ==
  ASSUME NEW T, T \subseteq Int, IsFiniteSet(T), T # {}
  PROVE  Chat!Max(T) \in T /\ \A y \in T : Chat!Max(T) >= y
<1> DEFINE Above(x) == {y \in T : y > x}
           F == {Above(x) : x \in T}
<1>1. F \subseteq FiniteSubsetsOf(T) /\ F # {}
  <2>1. \A x \in T : Above(x) \in SUBSET T /\ IsFiniteSet(Above(x))
    BY FS_Subset
  <2>2. QED BY <2>1 DEF FiniteSubsetsOf
<1>2. IsWellFoundedOn(StrictSubsetOrdering(T), FiniteSubsetsOf(T))
  BY FS_StrictSubsetOrderingWellFounded
<1>3. PICK U \in F : \A V \in F : ~ (<<V, U>> \in StrictSubsetOrdering(T))
  BY <1>1, <1>2, WFMin
<1>4. PICK x \in T : U = Above(x)
  BY <1>3
<1>5. Above(x) = {}
  <2>1. SUFFICES ASSUME NEW y \in Above(x) PROVE FALSE
    OBVIOUS
  <2>a. y \in T /\ y \in Int /\ x \in Int
    OBVIOUS
  <2>b. Above(y) \in F
    BY <2>a
  <2>c. y > x /\ ~ (y > y) /\ \A z \in Int : z > y => z > x
    BY <2>a, <2>1
  <2>d. Above(y) \subseteq Above(x)
    BY <2>c
  <2>2. Above(y) \in F /\ Above(y) \subseteq Above(x) /\ y \in Above(x) /\ y \notin Above(y)
    BY <2>1, <2>b, <2>c, <2>d
  <2>3. <<Above(y), Above(x)>> \in StrictSubsetOrdering(T)
    BY <2>2 DEF StrictSubsetOrdering
  <2>4. QED BY <1>3, <1>4, <2>2, <2>3
<1>6. \A y \in T : x >= y
  BY <1>5
<1>7. QED BY <1>6 DEF Chat!Max

-----------------------------------------------------------------------------
(* Shapes, and what holds of one user *)

ScreenShape == [at : {"list", "creating", "thread"}, shown : SUBSET Chat!Messages,
                bubble : BOOLEAN, composer : 0 .. MaxTexts, marked : 0 .. MaxMessages]
SendShape == [pc : {"idle", "asked", "insert", "update", "stored"}, text : 0 .. MaxTexts,
              number : 0 .. MaxMessages, now : 0 .. MaxMessages, gone : BOOLEAN]
LoadShape == [pc : {"none", "asked", "answered"}, messages : SUBSET Chat!Messages]
Message == [by : Users \cup {"none"}, text : 0 .. MaxTexts,
            state : {"none", "open", "stored", "aborted"}]

Typed ==
  /\ chat \in [exists : BOOLEAN, lastMessageAt : 0 .. MaxMessages,
               lastReadAt : [Users -> 0 .. MaxMessages]]
  /\ msgs \in [Chat!Messages -> Message] /\ access \in [Users -> BOOLEAN]
  /\ screen \in [Users -> ScreenShape] /\ send \in [Users -> SendShape]
  /\ loads \in [Users -> [newest : LoadShape, older : LoadShape]]
  /\ marking \in [Users -> BOOLEAN]
  /\ seen \in [Users -> SUBSET Chat!Messages] /\ raced \in [Users -> SUBSET Chat!Messages]
  /\ typed \in 0 .. MaxTexts /\ copies \in [Chat!Texts -> Nat]
  /\ lost \subseteq Chat!Texts /\ unmarked \subseteq Users
  /\ mishaps \in 0 .. MaxMishaps

\* A bubble is of a send under way, and what is in no thread has no composer.
OnScreen(u) ==
  /\ screen[u].bubble => send[u].pc # "idle" /\ Chat!InThread(u) /\ ~ send[u].gone
  /\ ~ Chat!InThread(u) => screen[u].composer = 0
  /\ screen[u].composer <= typed

\* A send knows its text, and once it is inserted its message.
Sent(u) ==
  /\ send[u].pc = "idle" => send[u].text = 0
  /\ send[u].pc # "idle" => send[u].text \in 1 .. typed /\ (Chat!InThread(u) \/ send[u].gone)
  /\ send[u].pc \notin {"update", "stored"} => send[u].number = 0
  /\ send[u].pc \in {"update", "stored"} =>
       /\ send[u].number \in Chat!Messages /\ msgs[send[u].number].by = u
       /\ msgs[send[u].number].text = send[u].text
  /\ send[u].pc = "update" => msgs[send[u].number].state = "open"
  /\ send[u].pc = "stored" => msgs[send[u].number].state = "stored"

\* Messages are numbered as they are created, and no mark is ahead of them.
Created == Chat!InState({"open", "stored", "aborted"})
Counted == Chat!Clock \in 0 .. MaxMessages /\ Created = 1 .. Chat!Clock
Behind(u) == chat.lastReadAt[u] <= Chat!Clock /\ send[u].now <= Chat!Clock

\* Nobody writes before the conversation is there.
Unborn ==
  chat.exists \/ (Created = {} /\ \A u \in Users : send[u].pc = "idle" /\ ~ Chat!InThread(u))

Basis ==
  /\ Typed /\ Counted /\ Unborn
  /\ \A m \in Chat!Messages : msgs[m].text <= typed
  /\ \A u \in Users : OnScreen(u) /\ Sent(u) /\ Behind(u)

LEMMA BasisTyped == Basis => Chat!TypeOK
BY DEF Basis, Typed, Chat!TypeOK, OnScreen, ScreenShape, SendShape, LoadShape, Message,
       Chat!InThread

LEMMA Parameters ==
  /\ MaxMessages \in Nat /\ MaxTexts \in Nat /\ MaxMishaps \in Nat
  /\ IsFiniteSet(Users) /\ Cardinality(Users) = 2
BY ChatAssumption

\* The newest of some messages, or zero.
LEMMA NewestTyped ==
  ASSUME Basis, NEW S \in SUBSET Chat!Messages PROVE Chat!Newest(S) \in 0 .. MaxMessages
<1>1. IsFiniteSet(Chat!Messages) /\ Chat!Messages \subseteq 0 .. MaxMessages /\ 0 \in 0 .. MaxMessages
  BY Parameters, FS_Interval DEF Chat!Messages
<1>2. S \cup {0} \subseteq Int /\ S \cup {0} # {} /\ S \cup {0} \subseteq 0 .. MaxMessages
  BY <1>1
<1>a. IsFiniteSet(S \cup {0})
  <2>1. IsFiniteSet(0 .. MaxMessages)
    BY Parameters, FS_Interval
  <2>2. QED BY <1>2, <2>1, FS_Subset
<1>3. Chat!Max(S \cup {0}) \in S \cup {0}
  BY <1>2, <1>a, MaxExists
<1>4. QED BY <1>2, <1>3 DEF Chat!Newest

\* The sizes that Chat counts with are those of FiniteSets.
LEMMA SameSize == \A S : Chat!Cardinality(S) = Cardinality(S)
BY DEF Chat!Cardinality, Cardinality

LEMMA ClockIs ==
  ASSUME NEW k \in Nat, Created = 1 .. k PROVE Chat!Clock = k
BY FS_Interval, SameSize DEF Chat!Clock, Created

-----------------------------------------------------------------------------
(* Steps that keep the messages *)

LEMMA Frame ==
  ASSUME UNCHANGED msgs
  PROVE  /\ Created' = Created /\ Chat!Clock' = Chat!Clock /\ Chat!Stored' = Chat!Stored
         /\ \A u : Chat!By(u)' = Chat!By(u)
BY DEF Created, Chat!Clock, Chat!Stored, Chat!InState, Chat!By

\* The record of one user is written, and well.
LEMMA Written ==
  ASSUME NEW S, NEW f \in [Users -> S], NEW u \in Users, NEW r \in S
  PROVE  /\ [f EXCEPT ![u] = r] \in [Users -> S]
         /\ [f EXCEPT ![u] = r][u] = r
         /\ \A w \in Users \ {u} : [f EXCEPT ![u] = r][w] = f[w]
OBVIOUS

\* Loads, marks and failures leave the sends and the composers alone.
Silent ==
  /\ UNCHANGED <<msgs, send, typed>>
  /\ chat'.exists = chat.exists /\ \A w \in Users : chat'.lastReadAt[w] <= Chat!Clock
  /\ \A w \in Users : /\ screen'[w].at = screen[w].at /\ screen'[w].composer = screen[w].composer
                      /\ screen'[w].bubble => screen[w].bubble

LEMMA QuietBasis ==
  ASSUME Basis, Typed', Silent PROVE Basis'
<1>1. Created' = Created /\ Chat!Clock' = Chat!Clock
  BY Frame DEF Silent
<1>2. ASSUME NEW w \in Users
      PROVE  (OnScreen(w) /\ Sent(w) /\ Behind(w))' /\ (Chat!InThread(w)' <=> Chat!InThread(w))
  BY <1>1 DEF Basis, Silent, OnScreen, Sent, Behind, Chat!InThread
<1>3. Unborn' /\ Counted' /\ \A m \in Chat!Messages : msgs'[m].text <= typed'
  BY <1>1, <1>2 DEF Basis, Silent, Unborn, Counted
<1>4. QED BY <1>2, <1>3 DEF Basis

LEMMA FaultTyped ==
  ASSUME Basis, Chat!Fault PROVE mishaps' \in 0 .. MaxMishaps
BY Parameters DEF Basis, Typed, Chat!Fault

\* The loads of one user.
LEMMA LoadsQuiet ==
  ASSUME Basis, NEW u \in Users, NEW l \in [newest : LoadShape, older : LoadShape],
         loads' = [loads EXCEPT ![u] = l], mishaps' \in 0 .. MaxMishaps,
         UNCHANGED <<chat, msgs, access, screen, send, marking, seen, raced, typed, copies,
                     lost, unmarked>>
  PROVE  Basis'
<1>1. Typed'
  BY DEF Basis, Typed
<1>2. Silent
  BY DEF Basis, Silent, Behind
<1>3. QED BY <1>1, <1>2, QuietBasis

LEMMA StoredTyped ==
  ASSUME Basis PROVE Chat!Stored \in SUBSET Chat!Messages /\ Chat!Clock \in 0 .. MaxMessages
BY DEF Basis, Counted, Chat!Stored, Chat!InState

LEMMA LoadTyped ==
  ASSUME Basis, NEW u \in Users
  PROVE  /\ loads[u].newest \in LoadShape /\ loads[u].older \in LoadShape
         /\ loads[u] = [newest |-> loads[u].newest, older |-> loads[u].older]
         /\ Chat!NoLoad \in LoadShape /\ Chat!NewLoad \in LoadShape /\ Chat!FirstLoad(u) \in LoadShape
         /\ \A load : Chat!Answered(load, u) \in LoadShape
<1>1. loads[u] \in [newest : LoadShape, older : LoadShape]
  BY DEF Basis, Typed
<1>2. Chat!NoLoad \in LoadShape /\ Chat!NewLoad \in LoadShape
  BY DEF LoadShape, Chat!NoLoad, Chat!NewLoad
<1>3. \A load : Chat!Answered(load, u) \in LoadShape
  BY <1>2, StoredTyped DEF Chat!Answered, LoadShape
<1>4. QED BY <1>1, <1>2, <1>3 DEF Chat!FirstLoad

LEMMA LoadBasis ==
  ASSUME Basis, NEW u \in Users,
         Chat!Poll(u) \/ Chat!ServeNewest(u) \/ Chat!ServeOlder(u) \/ Chat!DropOlder(u) \/ Chat!LoadFails(u)
  PROVE  Basis'
<1> DEFINE Two == [newest : LoadShape, older : LoadShape]
           Pair(a, b) == [newest |-> a, older |-> b]
<1>1. \A a, b \in LoadShape : Pair(a, b) \in Two
  OBVIOUS
<1>2. loads \in [Users -> Two] /\ mishaps \in 0 .. MaxMishaps
  BY DEF Basis, Typed
<1>3. \A a, b : /\ [loads[u] EXCEPT !.newest = a] = Pair(a, loads[u].older)
                /\ [loads[u] EXCEPT !.older = b] = Pair(loads[u].newest, b)
  BY <1>2
<1>4. CASE Chat!Poll(u)
  <2>1. PICK l \in Two : loads' = [loads EXCEPT ![u] = l]
    BY <1>1, <1>2, <1>4, LoadTyped DEF Chat!Poll
  <2>2. QED BY <1>2, <1>4, <2>1, LoadsQuiet DEF Chat!Poll
<1>5. CASE Chat!ServeNewest(u)
  <2>1. PICK l \in Two : loads' = [loads EXCEPT ![u] = l]
    <3>1. loads' = [loads EXCEPT ![u] = [loads[u] EXCEPT !.newest = Chat!Answered(loads[u].newest, u)]]
      BY <1>5 DEF Chat!ServeNewest
    <3>2. QED BY <3>1, <1>1, <1>2, <1>3, LoadTyped
  <2>2. QED BY <1>2, <1>5, <2>1, LoadsQuiet DEF Chat!ServeNewest
<1>6. CASE Chat!ServeOlder(u)
  <2>1. PICK l \in Two : loads' = [loads EXCEPT ![u] = l]
    <3>1. loads' = [loads EXCEPT ![u] = [loads[u] EXCEPT !.older = Chat!Answered(loads[u].older, u)]]
      BY <1>6 DEF Chat!ServeOlder
    <3>2. QED BY <3>1, <1>1, <1>2, <1>3, LoadTyped
  <2>2. QED BY <1>2, <1>6, <2>1, LoadsQuiet DEF Chat!ServeOlder
<1>7. CASE Chat!DropOlder(u)
  <2>1. PICK l \in Two : loads' = [loads EXCEPT ![u] = l]
    <3>1. loads' = [loads EXCEPT ![u] = [@ EXCEPT !.older = Chat!NoLoad]]
      BY <1>7 DEF Chat!DropOlder
    <3>2. QED BY <3>1, <1>1, <1>2, <1>3, LoadTyped
  <2>2. QED BY <1>2, <1>7, <2>1, LoadsQuiet DEF Chat!DropOlder
<1>8. CASE Chat!LoadFails(u)
  <2>1. PICK l \in Two : loads' = [loads EXCEPT ![u] = l]
    <3>1. loads' = [loads EXCEPT ![u] = [@ EXCEPT !.newest = Chat!NoLoad]]
      BY <1>8 DEF Chat!LoadFails
    <3>2. QED BY <3>1, <1>1, <1>2, <1>3, LoadTyped
  <2>2. mishaps' \in 0 .. MaxMishaps
    BY <1>8, FaultTyped DEF Chat!LoadFails, Basis
  <2>3. QED BY <1>8, <2>1, <2>2, LoadsQuiet DEF Chat!LoadFails
<1>9. QED BY <1>4, <1>5, <1>6, <1>7, <1>8

LEMMA ShowBasis ==
  ASSUME Basis, NEW u \in Users, Chat!ShowNewest(u) PROVE Basis'
<1>1. PICK latest \in 0 .. MaxMessages, yet \in BOOLEAN :
        /\ screen' = [screen EXCEPT ![u].shown = loads[u].newest.messages, ![u].bubble = FALSE,
                                    ![u].marked = IF yet THEN latest ELSE @]
        /\ marking' = [marking EXCEPT ![u] = @ \/ yet]
  <2>1. loads[u].newest.messages \in SUBSET Chat!Messages
    BY LoadTyped DEF LoadShape
  <2>2. QED BY <2>1, NewestTyped DEF Chat!ShowNewest, Chat!Show
<1>2. /\ seen' = [seen EXCEPT ![u] = @ \cup loads[u].newest.messages]
      /\ loads' = [loads EXCEPT ![u].newest = Chat!NoLoad]
      /\ UNCHANGED <<chat, msgs, access, send, raced, typed, copies, lost, unmarked, mishaps>>
  BY DEF Chat!ShowNewest, Chat!Show
<1>3. loads[u].newest.messages \in SUBSET Chat!Messages /\ Chat!NoLoad \in LoadShape
  BY LoadTyped DEF LoadShape
<1>4. screen' \in [Users -> ScreenShape]
  <2>1. PICK s : s = screen[u]
    OBVIOUS
  <2>2. s \in ScreenShape /\ screen \in [Users -> ScreenShape]
    BY <2>1 DEF Basis, Typed
  <2>3. [s EXCEPT !.shown = loads[u].newest.messages, !.bubble = FALSE,
                  !.marked = IF yet THEN latest ELSE s.marked] \in ScreenShape
    BY <1>3, <2>2 DEF ScreenShape
  <2>4. screen' = [screen EXCEPT ![u] = [s EXCEPT !.shown = loads[u].newest.messages, !.bubble = FALSE,
                                                  !.marked = IF yet THEN latest ELSE s.marked]]
    BY <1>1, <2>1, <2>2
  <2>5. QED BY <2>2, <2>3, <2>4
<1>5. marking' \in [Users -> BOOLEAN] /\ seen' \in [Users -> SUBSET Chat!Messages]
  BY <1>1, <1>2, <1>3 DEF Basis, Typed
<1>6. loads' \in [Users -> [newest : LoadShape, older : LoadShape]]
  BY <1>2, <1>3 DEF Basis, Typed
<1>7. Typed'
  BY <1>2, <1>4, <1>5, <1>6 DEF Basis, Typed
<1>8. Silent
  BY <1>1, <1>2 DEF Silent, Basis, Typed, ScreenShape, Behind
<1>9. QED BY <1>7, <1>8, QuietBasis

LEMMA MarkBasis ==
  ASSUME Basis, NEW u \in Users, Chat!MarkRead(u) \/ Chat!MarkFails(u) \/ Chat!LoseAccess(u) PROVE Basis'
<1>1. Chat!InState({"open"}) \subseteq Chat!Messages /\ Chat!Clock \in 0 .. MaxMessages
  BY StoredTyped DEF Chat!InState
<1>2. CASE Chat!MarkRead(u) /\ access[u]
  <2>1. /\ marking' = [marking EXCEPT ![u] = FALSE]
        /\ chat' = [chat EXCEPT !.lastReadAt[u] = Chat!Clock]
        /\ raced' = [raced EXCEPT ![u] = @ \cup Chat!InState({"open"})]
        /\ UNCHANGED <<msgs, access, screen, send, loads, seen, typed, copies, lost, mishaps, unmarked>>
    BY <1>2 DEF Chat!MarkRead
  <2>2. Typed'
    BY <1>1, <2>1 DEF Basis, Typed
  <2>3. Silent
    BY <1>1, <2>1 DEF Silent, Basis, Typed, Behind
  <2>4. QED BY <2>2, <2>3, QuietBasis
<1>3. CASE Chat!MarkRead(u) /\ ~ access[u]
  <2>1. /\ marking' = [marking EXCEPT ![u] = FALSE] /\ unmarked' = unmarked \cup {u}
        /\ UNCHANGED <<chat, raced, msgs, access, screen, send, loads, seen, typed, copies, lost, mishaps>>
    BY <1>3 DEF Chat!MarkRead
  <2>2. Typed'
    BY <2>1 DEF Basis, Typed
  <2>3. Silent
    BY <2>1 DEF Silent, Basis, Behind
  <2>4. QED BY <2>2, <2>3, QuietBasis
<1>4. CASE Chat!MarkFails(u)
  <2>1. Typed'
    BY <1>4, FaultTyped DEF Chat!MarkFails, Basis, Typed
  <2>2. Silent
    BY <1>4 DEF Chat!MarkFails, Silent, Basis, Behind
  <2>3. QED BY <2>1, <2>2, QuietBasis
<1>5. CASE Chat!LoseAccess(u)
  <2>1. Typed'
    BY <1>5, FaultTyped DEF Chat!LoseAccess, Basis, Typed
  <2>2. Silent
    BY <1>5 DEF Chat!LoseAccess, Silent, Basis, Behind
  <2>3. QED BY <2>1, <2>2, QuietBasis
<1>6. QED BY <1>2, <1>3, <1>4, <1>5

-----------------------------------------------------------------------------
(* Steps of one user that keep the messages and the others *)

LEMMA OwnFacts ==
  ASSUME Basis, NEW u \in Users
  PROVE  /\ screen[u] \in ScreenShape /\ send[u] \in SendShape
         /\ OnScreen(u) /\ Sent(u) /\ Behind(u) /\ Unborn /\ Typed /\ typed \in Nat /\ typed <= MaxTexts
         /\ Chat!Clock \in 0 .. MaxMessages
         /\ Chat!NoScreen \in ScreenShape /\ Chat!NoSend \in SendShape
         /\ 0 \in 0 .. MaxMessages /\ 0 \in 0 .. MaxTexts
BY Parameters, StoredTyped DEF Basis, Typed, ScreenShape, SendShape, Chat!NoScreen, Chat!NoSend

LEMMA Rest ==
  ASSUME Basis, NEW u \in Users, typed' \in Nat, typed <= typed', Typed', Counted', Chat!Clock <= Chat!Clock',
         \A m \in Chat!Messages : msgs'[m].text <= typed',
         \A w \in Users \ {u} :
            /\ screen'[w] = screen[w] /\ send'[w] = send[w]
            /\ chat'.lastReadAt[w] = chat.lastReadAt[w]
            /\ send[w].pc \in {"update", "stored"} => msgs'[send[w].number] = msgs[send[w].number],
         (OnScreen(u) /\ Sent(u) /\ Behind(u) /\ Unborn)'
  PROVE  Basis'
<1>1. ASSUME NEW w \in Users \ {u} PROVE (OnScreen(w) /\ Sent(w) /\ Behind(w))'
  <2>1. /\ screen[w].composer \in Nat /\ send[w].text \in Nat /\ typed \in Nat
        /\ chat.lastReadAt[w] \in Nat /\ send[w].now \in Nat /\ Chat!Clock \in Nat /\ Chat!Clock' \in Nat
    <3>1. screen[w] \in ScreenShape /\ send[w] \in SendShape /\ typed \in Nat /\ Chat!Clock \in Nat
      BY OwnFacts, Parameters
    <3>2. chat.lastReadAt[w] \in Nat
      BY OwnFacts, Parameters DEF Typed
    <3>3. Chat!Clock' \in Nat
      BY Parameters DEF Counted
    <3>4. QED BY <3>1, <3>2, <3>3, Parameters DEF ScreenShape, SendShape
  <2>2. OnScreen(w) /\ Sent(w) /\ Behind(w)
    BY DEF Basis
  <2>3. OnScreen(w)'
    BY <2>1, <2>2 DEF OnScreen, Chat!InThread
  <2>4. Sent(w)'
    BY <2>1, <2>2 DEF Sent, Chat!InThread
  <2>5. Behind(w)'
    BY <2>1, <2>2 DEF Behind
  <2>6. QED BY <2>3, <2>4, <2>5
<1>2. QED BY <1>1 DEF Basis

LEMMA Others ==
  ASSUME Basis, NEW u \in Users, UNCHANGED msgs, typed' \in Nat, typed <= typed', Typed',
         \A w \in Users \ {u} : /\ screen'[w] = screen[w] /\ send'[w] = send[w]
                                /\ chat'.lastReadAt[w] = chat.lastReadAt[w],
         (OnScreen(u) /\ Sent(u) /\ Behind(u) /\ Unborn)'
  PROVE  Basis'
<1>1. Created' = Created /\ Chat!Clock' = Chat!Clock /\ Chat!Clock \in Nat
  BY Frame, StoredTyped
<1>2. typed \in Nat /\ \A m \in Chat!Messages : msgs[m].text \in Nat /\ msgs[m].text <= typed
  BY Parameters DEF Basis, Typed, Message
<1>3. Counted' /\ Chat!Clock <= Chat!Clock' /\ \A m \in Chat!Messages : msgs'[m].text <= typed'
  BY <1>1, <1>2 DEF Basis, Counted
<1>4. QED BY <1>3, Rest

LEMMA ThreadTyped ==
  ASSUME Basis, NEW u \in Users, Chat!ShowThread(u)
  PROVE  /\ screen' \in [Users -> ScreenShape]
         /\ loads' \in [Users -> [newest : LoadShape, older : LoadShape]]
         /\ screen'[u] = [Chat!NoScreen EXCEPT !.at = "thread"]
         /\ \A w \in Users \ {u} : screen'[w] = screen[w]
         /\ marking' = marking
<1>1. screen \in [Users -> ScreenShape] /\ loads \in [Users -> [newest : LoadShape, older : LoadShape]]
  BY DEF Basis, Typed
<1>2. [Chat!NoScreen EXCEPT !.at = "thread"] \in ScreenShape
  BY OwnFacts DEF ScreenShape
<1>3. [newest |-> Chat!FirstLoad(u), older |-> Chat!NoLoad] \in [newest : LoadShape, older : LoadShape]
  BY LoadTyped
<1>4. QED BY <1>1, <1>2, <1>3 DEF Chat!ShowThread

LEMMA FindBasis == ASSUME Basis, NEW u \in Users, Chat!Find(u) PROVE Basis'
<1>1. UNCHANGED <<chat, msgs, access, send, seen, raced, typed, copies, lost, unmarked, mishaps>>
  BY DEF Chat!Find
<1>2. CASE chat.exists
  <2>1. Chat!ShowThread(u)
    BY <1>2 DEF Chat!Find
  <2>2. Typed'
    BY <1>1, <2>1, ThreadTyped DEF Basis, Typed
  <2>3. (OnScreen(u) /\ Sent(u))' /\ Chat!InThread(u)'
    BY <1>1, <2>1, ThreadTyped, OwnFacts DEF OnScreen, Sent, Chat!InThread, Chat!NoScreen
  <2>4. Behind(u)' /\ Unborn'
    BY <1>1, <1>2, Frame, OwnFacts DEF Behind, Unborn
  <2>5. QED BY <1>1, <2>1, <2>2, <2>3, <2>4, ThreadTyped, OwnFacts, Others
<1>3. CASE ~ chat.exists
  <2>1. screen[u].at = "list" /\ screen' = [screen EXCEPT ![u].at = "creating"] /\ UNCHANGED <<loads, marking>>
    BY <1>3 DEF Chat!Find
  <2>2. Typed'
    <3>1. screen \in [Users -> ScreenShape]
      BY OwnFacts DEF Typed
    <3>2. screen' \in [Users -> ScreenShape]
      BY <2>1, <3>1 DEF ScreenShape
    <3>3. QED BY <1>1, <2>1, <3>2, OwnFacts DEF Typed
  <2>3. /\ screen'[u].at = "creating" /\ screen'[u].composer = screen[u].composer
        /\ screen'[u].bubble = screen[u].bubble
        /\ \A w \in Users \ {u} : screen'[w] = screen[w]
    BY <2>1 DEF Basis, Typed, ScreenShape
  <2>4. (OnScreen(u) /\ Sent(u))' /\ ~ Chat!InThread(u)'
    BY <1>1, <2>1, <2>3, OwnFacts DEF OnScreen, Sent, Chat!InThread
  <2>5. Behind(u)' /\ Unborn'
    BY <1>1, <2>3, <2>4, Frame, OwnFacts DEF Behind, Unborn, Chat!InThread
  <2>6. QED BY <1>1, <2>2, <2>3, <2>4, <2>5, OwnFacts, Others
<1>4. QED BY <1>2, <1>3

LEMMA CreateBasis == ASSUME Basis, NEW u \in Users, Chat!Create(u) PROVE Basis'
<1>1. /\ UNCHANGED <<msgs, access, send, seen, raced, typed, copies, lost, unmarked, mishaps>>
      /\ Chat!ShowThread(u)
      /\ chat' = IF chat.exists THEN chat ELSE [chat EXCEPT !.exists = TRUE, !.lastReadAt[u] = Chat!Clock]
  BY DEF Chat!Create
<1>2. /\ chat' \in [exists : BOOLEAN, lastMessageAt : 0 .. MaxMessages,
                    lastReadAt : [Users -> 0 .. MaxMessages]]
      /\ chat'.exists /\ chat'.lastReadAt[u] <= Chat!Clock
      /\ \A w \in Users \ {u} : chat'.lastReadAt[w] = chat.lastReadAt[w]
  <2>1. /\ chat \in [exists : BOOLEAN, lastMessageAt : 0 .. MaxMessages,
                     lastReadAt : [Users -> 0 .. MaxMessages]]
        /\ Chat!Clock \in 0 .. MaxMessages /\ chat.lastReadAt[u] <= Chat!Clock /\ Chat!Clock <= Chat!Clock
    BY OwnFacts DEF Typed, Behind
  <2>2. CASE chat.exists
    BY <1>1, <2>1, <2>2
  <2>3. CASE ~ chat.exists
    <3>1. chat' = [chat EXCEPT !.exists = TRUE, !.lastReadAt = [chat.lastReadAt EXCEPT ![u] = Chat!Clock]]
      BY <1>1, <2>1, <2>3
    <3>2. QED BY <2>1, <3>1
  <2>4. QED BY <2>2, <2>3
<1>3. Typed'
  BY <1>1, <1>2, ThreadTyped DEF Basis, Typed
<1>4. (OnScreen(u) /\ Sent(u))'
  BY <1>1, ThreadTyped, OwnFacts DEF OnScreen, Sent, Chat!InThread, Chat!NoScreen
<1>5. Behind(u)' /\ Unborn'
  BY <1>1, <1>2, Frame, OwnFacts DEF Behind, Unborn
<1>6. QED BY <1>1, <1>2, <1>3, <1>4, <1>5, ThreadTyped, OwnFacts, Others

LEMMA LeaveBasis == ASSUME Basis, NEW u \in Users, Chat!Leave(u) PROVE Basis'
<1>1. /\ screen' = [screen EXCEPT ![u] = Chat!NoScreen]
      /\ send' = [send EXCEPT ![u].gone = @ \/ send[u].pc # "idle"]
      /\ loads' = [loads EXCEPT ![u] = [newest |-> Chat!NoLoad, older |-> Chat!NoLoad]]
      /\ lost' = lost \cup ({screen[u].composer} \ {0})
      /\ UNCHANGED <<chat, msgs, access, marking, seen, raced, typed, copies, unmarked>>
      /\ mishaps' \in 0 .. MaxMishaps
  BY FaultTyped, OwnFacts DEF Chat!Leave
<1>2. screen[u].composer \in {0} \cup Chat!Texts
  BY OwnFacts DEF ScreenShape, Chat!Texts
<1>3. /\ send' \in [Users -> SendShape] /\ screen' \in [Users -> ScreenShape]
      /\ loads' \in [Users -> [newest : LoadShape, older : LoadShape]] /\ lost' \subseteq Chat!Texts
  <2>1. screen' \in [Users -> ScreenShape] /\ lost' \subseteq Chat!Texts
    BY <1>1, <1>2, OwnFacts DEF Typed
  <2>2. send' \in [Users -> SendShape]
    <3>1. send \in [Users -> SendShape]
      BY OwnFacts DEF Typed
    <3>2. PICK s \in SendShape : s = send[u]
      BY OwnFacts
    <3>3. [s EXCEPT !.gone = s.gone \/ send[u].pc # "idle"] \in SendShape
      BY DEF SendShape
    <3>4. send' = [send EXCEPT ![u] = [s EXCEPT !.gone = s.gone \/ send[u].pc # "idle"]]
      BY <1>1, <3>2
    <3>5. QED BY <3>1, <3>3, <3>4
  <2>3. loads' \in [Users -> [newest : LoadShape, older : LoadShape]]
    BY <1>1, OwnFacts, LoadTyped DEF Typed
  <2>4. QED BY <2>1, <2>2, <2>3
<1>4. Typed'
  BY <1>1, <1>3, OwnFacts DEF Typed
<1>5. /\ send'[u].pc = send[u].pc /\ send'[u].text = send[u].text /\ send'[u].number = send[u].number
      /\ send'[u].now = send[u].now /\ (send[u].pc # "idle" => send'[u].gone)
      /\ screen'[u] = Chat!NoScreen
      /\ \A w \in Users \ {u} : screen'[w] = screen[w] /\ send'[w] = send[w]
  BY <1>1, OwnFacts DEF Typed, SendShape
<1>6. (OnScreen(u) /\ Sent(u))' /\ ~ Chat!InThread(u)'
  BY <1>1, <1>5, OwnFacts DEF OnScreen, Sent, Chat!InThread, Chat!NoScreen
<1>7. Behind(u)' /\ Unborn'
  <2>1. \A w \in Users : send'[w].pc = send[w].pc /\ (Chat!InThread(w)' => Chat!InThread(w))
    BY <1>5, <1>6 DEF Chat!InThread
  <2>2. QED BY <1>1, <1>5, <2>1, Frame, OwnFacts DEF Behind, Unborn
<1>8. QED BY <1>1, <1>4, <1>5, <1>6, <1>7, OwnFacts, Others

LEMMA TypeBasis == ASSUME Basis, NEW u \in Users, Chat!Type(u) PROVE Basis'
<1>1. /\ Chat!InThread(u) /\ screen[u].composer = 0 /\ typed < MaxTexts /\ typed' = typed + 1
      /\ screen' = [screen EXCEPT ![u].composer = typed + 1]
      /\ UNCHANGED <<chat, msgs, access, send, loads, marking, seen, raced, copies, lost, unmarked, mishaps>>
  BY DEF Chat!Type
<1>2. typed + 1 \in 0 .. MaxTexts /\ typed <= typed'
  BY <1>1, OwnFacts, Parameters
<1>3. screen' \in [Users -> ScreenShape]
  <2>1. PICK s : s = screen[u]
    OBVIOUS
  <2>2. [s EXCEPT !.composer = typed + 1] \in ScreenShape
    BY <1>2, <2>1, OwnFacts DEF ScreenShape
  <2>3. screen' = [screen EXCEPT ![u] = [s EXCEPT !.composer = typed + 1]]
    BY <1>1, <2>1
  <2>4. QED BY <2>2, <2>3, OwnFacts DEF Typed
<1>4. Typed'
  BY <1>1, <1>2, <1>3, OwnFacts DEF Typed
<1>5. /\ screen'[u].at = screen[u].at /\ screen'[u].bubble = screen[u].bubble /\ screen'[u].composer = typed'
      /\ \A w \in Users \ {u} : screen'[w] = screen[w]
  BY <1>1, OwnFacts DEF Typed, ScreenShape
<1>6. OnScreen(u)' /\ Chat!InThread(u)'
  BY <1>1, <1>2, <1>5, OwnFacts DEF OnScreen, Chat!InThread
<1>7. Sent(u)'
  <2>1. send[u].text \in Nat
    BY OwnFacts, Parameters DEF SendShape
  <2>2. QED BY <1>1, <1>2, <1>6, <2>1, OwnFacts DEF Sent
<1>8. Behind(u)' /\ Unborn'
  BY <1>1, <1>5, Frame, OwnFacts DEF Behind, Unborn, Chat!InThread
<1>9. QED BY <1>1, <1>2, <1>4, <1>5, <1>6, <1>7, <1>8, OwnFacts, Others

LEMMA SendBasis == ASSUME Basis, NEW u \in Users, Chat!SendMessage(u) PROVE Basis'
<1>1. /\ Chat!InThread(u) /\ screen[u].composer # 0 /\ send[u].pc = "idle"
      /\ send' = [send EXCEPT ![u] = [Chat!NoSend EXCEPT !.pc = "asked", !.text = screen[u].composer]]
      /\ screen' = [screen EXCEPT ![u].composer = 0, ![u].bubble = TRUE]
      /\ UNCHANGED <<chat, msgs, access, loads, marking, seen, raced, typed, copies, lost, unmarked, mishaps>>
  BY DEF Chat!SendMessage
<1>2. screen[u].composer \in 1 .. typed /\ screen[u].composer \in 0 .. MaxTexts
  BY <1>1, OwnFacts DEF OnScreen, ScreenShape
<1>3. send' \in [Users -> SendShape] /\ screen' \in [Users -> ScreenShape]
  <2>1. [Chat!NoSend EXCEPT !.pc = "asked", !.text = screen[u].composer] \in SendShape
    BY <1>2, OwnFacts DEF SendShape
  <2>2. PICK s : s = screen[u]
    OBVIOUS
  <2>3. [s EXCEPT !.composer = 0, !.bubble = TRUE] \in ScreenShape
    BY <2>2, OwnFacts DEF ScreenShape
  <2>4. screen' = [screen EXCEPT ![u] = [s EXCEPT !.composer = 0, !.bubble = TRUE]]
    BY <1>1, <2>2, OwnFacts DEF Typed
  <2>5. screen \in [Users -> ScreenShape] /\ send \in [Users -> SendShape]
    BY OwnFacts DEF Typed
  <2>6. screen' \in [Users -> ScreenShape]
    BY <2>3, <2>4, <2>5
  <2>7. send' \in [Users -> SendShape]
    BY <1>1, <2>1, <2>5
  <2>8. QED BY <2>6, <2>7
<1>4. Typed'
  BY <1>1, <1>3, OwnFacts DEF Typed
<1>5. /\ screen'[u].at = screen[u].at /\ screen'[u].composer = 0
      /\ send'[u] = [Chat!NoSend EXCEPT !.pc = "asked", !.text = screen[u].composer]
      /\ \A w \in Users \ {u} : screen'[w] = screen[w] /\ send'[w] = send[w]
  BY <1>1, OwnFacts DEF Typed, ScreenShape
<1>6. (OnScreen(u) /\ Sent(u))' /\ Chat!InThread(u)'
  <2>1. /\ send'[u].pc = "asked" /\ send'[u].text = screen[u].composer /\ send'[u].number = 0
        /\ ~ send'[u].gone /\ typed' = typed /\ screen'[u].at = "thread" /\ screen'[u].composer = 0
    <3>1. /\ send'[u].pc = "asked" /\ send'[u].text = screen[u].composer /\ send'[u].number = 0
          /\ ~ send'[u].gone
      BY <1>5 DEF Chat!NoSend
    <3>2. typed' = typed /\ screen[u].at = "thread"
      BY <1>1 DEF Chat!InThread
    <3>3. QED BY <1>5, <3>1, <3>2
  <2>2. typed \in Nat /\ 0 <= typed
    BY OwnFacts
  <2>3. QED BY <1>2, <2>1, <2>2 DEF OnScreen, Sent, Chat!InThread
<1>7. Behind(u)' /\ Unborn'
  BY <1>1, <1>5, Frame, OwnFacts DEF Behind, Unborn, Chat!InThread, Chat!NoSend
<1>8. /\ typed' \in Nat /\ typed <= typed' /\ msgs' = msgs
      /\ \A w \in Users \ {u} : /\ screen'[w] = screen[w] /\ send'[w] = send[w]
                               /\ chat'.lastReadAt[w] = chat.lastReadAt[w]
  <2>1. typed \in Nat /\ typed <= typed
    BY OwnFacts
  <2>2. typed' = typed /\ msgs' = msgs /\ chat' = chat
    BY <1>1
  <2>3. QED BY <1>1, <1>5, <2>1, <2>2
<1>9. QED BY <1>4, <1>6, <1>7, <1>8, Others

LEMMA TakeBasis == ASSUME Basis, NEW u \in Users, Chat!TakeMessage(u) PROVE Basis'
<1>1. /\ send[u].pc = "asked" /\ send' = [send EXCEPT ![u].pc = "insert", ![u].now = Chat!Clock]
      /\ raced' = [raced EXCEPT ![u] = @ \cup (1 .. Chat!Clock \ seen[u])]
      /\ UNCHANGED <<chat, msgs, access, screen, loads, marking, seen, typed, copies, lost, unmarked, mishaps>>
  BY DEF Chat!TakeMessage
<1>2. 1 .. Chat!Clock \subseteq Chat!Messages
  BY OwnFacts, Parameters DEF Chat!Messages
<1>3. send' \in [Users -> SendShape] /\ raced' \in [Users -> SUBSET Chat!Messages]
  <2>1. send \in [Users -> SendShape] /\ Chat!Clock \in 0 .. MaxMessages
    BY OwnFacts DEF Typed
  <2>2. PICK s \in SendShape : s = send[u]
    BY OwnFacts
  <2>a. [s EXCEPT !.pc = "insert", !.now = Chat!Clock] \in SendShape
    BY <2>1 DEF SendShape
  <2>b. send' = [send EXCEPT ![u] = [s EXCEPT !.pc = "insert", !.now = Chat!Clock]]
    BY <1>1, <2>1, <2>2
  <2>3. send' \in [Users -> SendShape]
    BY <2>1, <2>a, <2>b
  <2>4. raced' \in [Users -> SUBSET Chat!Messages]
    BY <1>1, <1>2, OwnFacts DEF Typed
  <2>5. QED BY <2>3, <2>4
<1>4. Typed'
  BY <1>1, <1>3, OwnFacts DEF Typed
<1>5. /\ send'[u].pc = "insert" /\ send'[u].text = send[u].text /\ send'[u].number = send[u].number
      /\ send'[u].gone = send[u].gone /\ send'[u].now = Chat!Clock
      /\ \A w \in Users \ {u} : send'[w] = send[w]
  BY <1>1, OwnFacts DEF Typed, SendShape
<1>6. (OnScreen(u) /\ Sent(u))' /\ Chat!InThread(u)' = Chat!InThread(u)
  BY <1>1, <1>5, OwnFacts DEF OnScreen, Sent, Chat!InThread
<1>7. Behind(u)' /\ Unborn'
  BY <1>1, <1>5, Frame, OwnFacts DEF Behind, Unborn, Chat!InThread
<1>8. /\ typed' \in Nat /\ typed <= typed' /\ msgs' = msgs
      /\ \A w \in Users \ {u} : /\ screen'[w] = screen[w] /\ send'[w] = send[w]
                               /\ chat'.lastReadAt[w] = chat.lastReadAt[w]
  <2>1. typed \in Nat /\ typed <= typed
    BY OwnFacts
  <2>2. typed' = typed /\ msgs' = msgs /\ chat' = chat
    BY <1>1
  <2>3. QED BY <1>1, <1>5, <2>1, <2>2
<1>9. QED BY <1>4, <1>6, <1>7, <1>8, Others

LEMMA AnsweredBasis == ASSUME Basis, NEW u \in Users, Chat!SendAnswered(u) PROVE Basis'
<1>1. /\ send[u].pc = "stored" /\ send' = [send EXCEPT ![u] = Chat!NoSend]
      /\ UNCHANGED <<chat, msgs, access, loads, marking, raced, typed, copies, lost, unmarked, mishaps>>
  BY DEF Chat!SendAnswered
<1>2. /\ screen' \in [Users -> ScreenShape] /\ seen' \in [Users -> SUBSET Chat!Messages]
      /\ screen'[u].at = screen[u].at /\ screen'[u].composer = screen[u].composer /\ ~ screen'[u].bubble
      /\ \A w \in Users \ {u} : screen'[w] = screen[w]
  <2>1. send[u].number \in Chat!Messages
    BY <1>1, OwnFacts DEF Sent
  <2>2. CASE screen[u].bubble
    <3>1. /\ screen' = [screen EXCEPT ![u].bubble = FALSE, ![u].shown = @ \cup {send[u].number}]
          /\ seen' = [seen EXCEPT ![u] = @ \cup {send[u].number}]
      BY <2>2 DEF Chat!SendAnswered
    <3>2. screen \in [Users -> ScreenShape] /\ seen \in [Users -> SUBSET Chat!Messages]
      BY OwnFacts DEF Typed
    <3>3. seen' \in [Users -> SUBSET Chat!Messages]
      BY <2>1, <3>1, <3>2
    <3>a. PICK s \in ScreenShape : s = screen[u]
      BY OwnFacts
    <3>b. PICK r : r = [s EXCEPT !.bubble = FALSE, !.shown = s.shown \cup {send[u].number}]
      OBVIOUS
    <3>c. /\ r \in ScreenShape /\ ~ r.bubble
          /\ r.at = screen[u].at /\ r.composer = screen[u].composer
      BY <2>1, <3>a, <3>b DEF ScreenShape
    <3>d. screen' = [screen EXCEPT ![u] = r]
      BY <3>1, <3>2, <3>a, <3>b
    <3>4. screen' \in [Users -> ScreenShape]
      BY <3>2, <3>c, <3>d
    <3>5. /\ screen'[u].at = screen[u].at /\ screen'[u].composer = screen[u].composer
          /\ ~ screen'[u].bubble /\ \A w \in Users \ {u} : screen'[w] = screen[w]
      BY <3>2, <3>c, <3>d
    <3>6. QED BY <3>3, <3>4, <3>5
  <2>3. CASE ~ screen[u].bubble
    BY <2>3, OwnFacts DEF Chat!SendAnswered, Typed
  <2>4. QED BY <2>2, <2>3
<1>3. send' \in [Users -> SendShape] /\ send'[u] = Chat!NoSend /\ \A w \in Users \ {u} : send'[w] = send[w]
  BY <1>1, OwnFacts DEF Typed
<1>4. Typed'
  BY <1>1, <1>2, <1>3, OwnFacts DEF Typed
<1>5. (OnScreen(u) /\ Sent(u))' /\ Chat!InThread(u)' = Chat!InThread(u)
  BY <1>1, <1>2, <1>3, OwnFacts DEF OnScreen, Sent, Chat!InThread, Chat!NoSend
<1>6. Behind(u)' /\ Unborn'
  BY <1>1, <1>2, <1>3, Frame, OwnFacts DEF Behind, Unborn, Chat!InThread, Chat!NoSend
<1>7. QED BY <1>1, <1>2, <1>3, <1>4, <1>5, <1>6, OwnFacts, Others

-----------------------------------------------------------------------------
(* Steps that write a message, and the sends that fail *)

LEMMA InsertBasis == ASSUME Basis, NEW u \in Users, Chat!InsertMessage(u) PROVE Basis'
<1> DEFINE n == Chat!Clock + 1
           new == [by |-> u, text |-> send[u].text, state |-> "open"]
<1>1. /\ send[u].pc = "insert" /\ Chat!Clock < MaxMessages /\ msgs' = [msgs EXCEPT ![n] = new]
      /\ send' = [send EXCEPT ![u].pc = "update", ![u].number = n]
      /\ UNCHANGED <<chat, access, screen, loads, marking, seen, raced, typed, copies, lost, unmarked, mishaps>>
  BY DEF Chat!InsertMessage
<1>2. /\ n \in Chat!Messages /\ n \in 0 .. MaxMessages /\ n \notin Created
      /\ Created = 1 .. Chat!Clock /\ Chat!Clock \in Nat
  BY <1>1, OwnFacts, Parameters DEF Chat!Messages, Basis, Counted
<1>3. new \in Message
  BY OwnFacts DEF Message, SendShape
<1>4. /\ msgs' \in [Chat!Messages -> Message] /\ msgs'[n] = new
      /\ \A m \in Chat!Messages \ {n} : msgs'[m] = msgs[m]
  BY <1>1, <1>2, <1>3, OwnFacts DEF Typed
<1>5. Created' = 1 .. n
  <2>1. Created' = Created \cup {n}
    BY <1>2, <1>4 DEF Created, Chat!InState
  <2>2. QED BY <1>2, <2>1
<1>6. Chat!Clock' = n
  <2>1. Chat!Clock' = Cardinality(Created')
    BY SameSize DEF Chat!Clock, Created
  <2>2. QED BY <1>2, <1>5, <2>1, FS_Interval
<1>7. Counted' /\ Chat!Clock <= Chat!Clock'
  BY <1>2, <1>5, <1>6 DEF Counted
<1>8. send' \in [Users -> SendShape]
  <2>1. send \in [Users -> SendShape]
    BY OwnFacts DEF Typed
  <2>2. PICK s \in SendShape : s = send[u]
    BY OwnFacts
  <2>3. [s EXCEPT !.pc = "update", !.number = n] \in SendShape
    BY <1>2 DEF SendShape
  <2>4. send' = [send EXCEPT ![u] = [s EXCEPT !.pc = "update", !.number = n]]
    BY <1>1, <2>1, <2>2
  <2>5. QED BY <2>1, <2>3, <2>4
<1>9. Typed'
  BY <1>1, <1>4, <1>8, OwnFacts DEF Typed
<1>10. /\ send'[u].pc = "update" /\ send'[u].text = send[u].text /\ send'[u].number = n
       /\ send'[u].gone = send[u].gone /\ send'[u].now = send[u].now
       /\ \A w \in Users \ {u} : send'[w] = send[w]
  BY <1>1, OwnFacts DEF Typed, SendShape
<1>11. (OnScreen(u) /\ Sent(u))'
  BY <1>1, <1>2, <1>4, <1>10, OwnFacts DEF OnScreen, Sent, Chat!InThread
<1>12. Behind(u)'
  <2>1. chat.lastReadAt[u] \in Nat /\ send[u].now \in Nat
    BY OwnFacts, Parameters DEF Typed, SendShape
  <2>2. QED BY <1>1, <1>2, <1>6, <1>10, <2>1, OwnFacts DEF Behind
<1>13. Unborn'
  BY <1>1, OwnFacts DEF Unborn
<1>14. \A m \in Chat!Messages : msgs'[m].text <= typed'
  <2>1. send[u].text <= typed
    BY <1>1, OwnFacts DEF Sent
  <2>2. QED BY <1>1, <1>4, <2>1 DEF Basis
<1>15. ASSUME NEW w \in Users \ {u}, send[w].pc \in {"update", "stored"}
       PROVE  msgs'[send[w].number] = msgs[send[w].number]
  <2>1. send[w].number \in Created
    BY <1>15, OwnFacts DEF Sent, Created, Chat!InState
  <2>2. QED BY <1>2, <1>4, <2>1 DEF Created, Chat!InState
<1>16. /\ typed' \in Nat /\ typed <= typed'
       /\ \A w \in Users \ {u} :
            /\ screen'[w] = screen[w] /\ send'[w] = send[w]
            /\ chat'.lastReadAt[w] = chat.lastReadAt[w]
            /\ send[w].pc \in {"update", "stored"} => msgs'[send[w].number] = msgs[send[w].number]
  <2>1. typed \in Nat /\ typed <= typed
    BY OwnFacts
  <2>2. typed' = typed /\ screen' = screen /\ chat' = chat
    BY <1>1
  <2>3. QED BY <1>10, <1>15, <2>1, <2>2
<1>17. QED BY <1>7, <1>9, <1>11, <1>12, <1>13, <1>14, <1>16, Rest

\* The message of a send leaves its transaction, either way.
LEMMA Restated ==
  ASSUME Basis, NEW u \in Users, send[u].pc = "update", NEW s \in {"stored", "aborted"},
         msgs' = [msgs EXCEPT ![send[u].number].state = s], typed' = typed
  PROVE  /\ msgs' \in [Chat!Messages -> Message] /\ send[u].number \in Chat!Messages
         /\ msgs'[send[u].number] = [by |-> u, text |-> send[u].text, state |-> s]
         /\ msgs'[send[u].number].by = u /\ msgs'[send[u].number].text = send[u].text
         /\ msgs'[send[u].number].state = s
         /\ msgs[send[u].number].by = u /\ msgs[send[u].number].text = send[u].text
         /\ msgs[send[u].number].state = "open"
         /\ \A m \in Chat!Messages \ {send[u].number} : msgs'[m] = msgs[m]
         /\ Created' = Created /\ Chat!Clock' = Chat!Clock /\ Counted' /\ Chat!Clock <= Chat!Clock'
         /\ \A m \in Chat!Messages : msgs'[m].text <= typed'
         /\ \A w \in Users \ {u} : send[w].pc \in {"update", "stored"} =>
              send[w].number # send[u].number /\ msgs'[send[w].number] = msgs[send[w].number]
<1> DEFINE n == send[u].number
<1>1. /\ n \in Chat!Messages /\ msgs[n] \in Message /\ msgs \in [Chat!Messages -> Message]
      /\ msgs[n].by = u /\ msgs[n].text = send[u].text /\ msgs[n].state = "open"
  BY OwnFacts DEF Sent, Typed
<1>2. msgs[n] = [by |-> u, text |-> send[u].text, state |-> "open"]
  BY <1>1 DEF Message
<1>3. msgs'[n] = [msgs[n] EXCEPT !.state = s] /\ \A m \in Chat!Messages \ {n} : msgs'[m] = msgs[m]
  BY <1>1
<1>4. msgs'[n] = [by |-> u, text |-> send[u].text, state |-> s]
  BY <1>2, <1>3
<1>5. msgs'[n] \in Message
  BY <1>1, <1>3 DEF Message
<1>6. msgs' \in [Chat!Messages -> Message]
  BY <1>1, <1>5
<1>7. Created' = Created
  BY <1>1, <1>3, <1>4 DEF Created, Chat!InState
<1>8. Chat!Clock' = Chat!Clock
  BY <1>7 DEF Chat!Clock, Created
<1>9. Counted' /\ Chat!Clock <= Chat!Clock'
  BY <1>7, <1>8, StoredTyped DEF Basis, Counted
<1>10. \A m \in Chat!Messages : msgs'[m].text <= typed'
  BY <1>1, <1>3, <1>4 DEF Basis
<1>11. ASSUME NEW w \in Users \ {u}, send[w].pc \in {"update", "stored"}
       PROVE  send[w].number # n /\ msgs'[send[w].number] = msgs[send[w].number]
  BY <1>1, <1>3, <1>11, OwnFacts DEF Sent
<1>12. QED BY <1>1, <1>2, <1>3, <1>4, <1>6, <1>7, <1>8, <1>9, <1>10, <1>11

LEMMA CommitBasis == ASSUME Basis, NEW u \in Users, Chat!CommitMessage(u) PROVE Basis'
<1> DEFINE n == send[u].number
<1>1. /\ send[u].pc = "update" /\ msgs' = [msgs EXCEPT ![n].state = "stored"]
      /\ chat' = [chat EXCEPT !.lastMessageAt = n, !.lastReadAt[u] = send[u].now]
      /\ unmarked' \in {unmarked, unmarked \cup {u}}
      /\ raced' = [v \in Users |-> IF v # u /\ Chat!AboutToMark(v) THEN raced[v] \cup {n} ELSE raced[v]]
      /\ send' = [send EXCEPT ![u].pc = "stored"]
      /\ UNCHANGED <<access, screen, loads, marking, seen, typed, copies, lost, mishaps>>
  BY DEF Chat!CommitMessage
<1>2. /\ msgs' \in [Chat!Messages -> Message] /\ n \in Chat!Messages
      /\ msgs'[n] = [by |-> u, text |-> send[u].text, state |-> "stored"]
      /\ Created' = Created /\ Chat!Clock' = Chat!Clock /\ Counted' /\ Chat!Clock <= Chat!Clock'
      /\ \A m \in Chat!Messages : msgs'[m].text <= typed'
      /\ \A w \in Users \ {u} : send[w].pc \in {"update", "stored"} =>
           msgs'[send[w].number] = msgs[send[w].number]
  BY <1>1, Restated
<1>3. send[u].now \in 0 .. MaxMessages /\ n \in 0 .. MaxMessages
  BY OwnFacts DEF SendShape
<1>4. /\ chat' \in [exists : BOOLEAN, lastMessageAt : 0 .. MaxMessages,
                    lastReadAt : [Users -> 0 .. MaxMessages]]
      /\ chat'.exists = chat.exists /\ chat'.lastReadAt[u] = send[u].now
      /\ \A w \in Users \ {u} : chat'.lastReadAt[w] = chat.lastReadAt[w]
  <2>1. chat \in [exists : BOOLEAN, lastMessageAt : 0 .. MaxMessages,
                  lastReadAt : [Users -> 0 .. MaxMessages]]
    BY OwnFacts DEF Typed
  <2>2. chat' = [chat EXCEPT !.lastMessageAt = n,
                             !.lastReadAt = [chat.lastReadAt EXCEPT ![u] = send[u].now]]
    BY <1>1, <2>1
  <2>3. QED BY <1>3, <2>1, <2>2
<1>5. send' \in [Users -> SendShape]
  <2>1. send \in [Users -> SendShape]
    BY OwnFacts DEF Typed
  <2>2. send' = [send EXCEPT ![u].pc = "stored"]
    BY <1>1
  <2>3. QED BY <2>1, <2>2 DEF SendShape
<1>6. raced' \in [Users -> SUBSET Chat!Messages]
  BY <1>1, <1>2, OwnFacts DEF Typed
<1>7. Typed'
  BY <1>1, <1>2, <1>4, <1>5, <1>6, OwnFacts DEF Typed
<1>8. /\ send'[u].pc = "stored" /\ send'[u].text = send[u].text /\ send'[u].number = n
      /\ send'[u].gone = send[u].gone /\ send'[u].now = send[u].now
      /\ \A w \in Users \ {u} : send'[w] = send[w]
  BY <1>1, OwnFacts DEF Typed, SendShape
<1>9. (OnScreen(u) /\ Sent(u))'
  BY <1>1, <1>2, <1>8, OwnFacts DEF OnScreen, Sent, Chat!InThread
<1>10. Behind(u)'
  BY <1>2, <1>4, <1>8, OwnFacts DEF Behind
<1>11. Unborn'
  BY <1>1, <1>4, OwnFacts DEF Unborn
<1>12. typed' \in Nat /\ typed <= typed' /\ screen' = screen
  <2>1. typed \in Nat /\ typed <= typed
    BY OwnFacts
  <2>2. QED BY <1>1, <2>1
<1>13. QED BY <1>2, <1>4, <1>7, <1>8, <1>9, <1>10, <1>11, <1>12, Rest

\* The text goes back to the composer, or is given up.
LEMMA TakenBack ==
  ASSUME Basis, NEW u \in Users, send[u].pc # "idle", Chat!TakeBack(u)
  PROVE  /\ send' \in [Users -> SendShape] /\ screen' \in [Users -> ScreenShape] /\ lost' \subseteq Chat!Texts
         /\ send'[u] = Chat!NoSend /\ ~ screen'[u].bubble /\ screen'[u].at = screen[u].at
         /\ screen'[u].composer = IF send[u].gone THEN screen[u].composer ELSE send[u].text
         /\ \A w \in Users \ {u} : screen'[w] = screen[w] /\ send'[w] = send[w]
<1>1. send' = [send EXCEPT ![u] = Chat!NoSend]
  BY DEF Chat!TakeBack
<1>2. /\ send[u].text \in Chat!Texts /\ send[u].text \in 0 .. MaxTexts
      /\ screen[u].composer \in {0} \cup Chat!Texts
  BY OwnFacts DEF Sent, SendShape, ScreenShape, Chat!Texts
<1>3. send' \in [Users -> SendShape] /\ send'[u] = Chat!NoSend /\ \A w \in Users \ {u} : send'[w] = send[w]
  BY <1>1, OwnFacts DEF Typed
<1>4. CASE send[u].gone
  <2>1. lost' = lost \cup {send[u].text} /\ screen' = screen
    BY <1>4 DEF Chat!TakeBack
  <2>2. QED BY <1>2, <1>3, <1>4, <2>1, OwnFacts DEF Typed, OnScreen
<1>5. CASE ~ send[u].gone
  <2>1. /\ screen' = [screen EXCEPT ![u].bubble = FALSE, ![u].composer = send[u].text]
        /\ lost' = lost \cup ({screen[u].composer} \ {0})
    BY <1>5 DEF Chat!TakeBack
  <2>2. /\ screen' \in [Users -> ScreenShape] /\ ~ screen'[u].bubble /\ screen'[u].at = screen[u].at
        /\ screen'[u].composer = send[u].text
        /\ \A w \in Users \ {u} : screen'[w] = screen[w]
    <3>1. screen \in [Users -> ScreenShape] /\ send[u].text \in 0 .. MaxTexts
      BY <1>2, OwnFacts DEF Typed
    <3>2. PICK s \in ScreenShape : s = screen[u]
      BY OwnFacts
    <3>a. PICK r : r = [s EXCEPT !.bubble = FALSE, !.composer = send[u].text]
      OBVIOUS
    <3>b. r \in ScreenShape /\ ~ r.bubble /\ r.at = screen[u].at /\ r.composer = send[u].text
      BY <3>1, <3>2, <3>a DEF ScreenShape
    <3>c. screen' = [screen EXCEPT ![u] = r]
      BY <2>1, <3>1, <3>2, <3>a
    <3>3. screen' \in [Users -> ScreenShape]
      BY <3>1, <3>b, <3>c
    <3>4. /\ ~ screen'[u].bubble /\ screen'[u].at = screen[u].at
          /\ screen'[u].composer = send[u].text
          /\ \A w \in Users \ {u} : screen'[w] = screen[w]
      BY <3>1, <3>b, <3>c
    <3>5. QED BY <3>3, <3>4
  <2>3. lost' \subseteq Chat!Texts
    BY <1>2, <2>1, OwnFacts DEF Typed
  <2>4. QED BY <1>3, <1>5, <2>2, <2>3
<1>6. QED BY <1>4, <1>5

LEMMA TakenBackBasis ==
  ASSUME Basis, NEW u \in Users, send[u].pc # "idle", Chat!TakeBack(u), mishaps' \in 0 .. MaxMishaps,
         msgs' \in [Chat!Messages -> Message], Counted', Chat!Clock <= Chat!Clock',
         Created' = Created,
         \A m \in Chat!Messages : msgs'[m].text <= typed',
         \A w \in Users \ {u} : send[w].pc \in {"update", "stored"} =>
            msgs'[send[w].number] = msgs[send[w].number],
         copies' \in [Chat!Texts -> Nat],
         UNCHANGED <<chat, access, loads, marking, seen, raced, typed, unmarked>>
  PROVE  Basis'
<1>1. Typed'
  BY TakenBack, OwnFacts DEF Typed
<1>2. send[u].text <= typed /\ (Chat!InThread(u) \/ send[u].gone)
  BY OwnFacts DEF Sent
<1>3. (OnScreen(u) /\ Sent(u))'
  BY <1>2, TakenBack, OwnFacts DEF OnScreen, Sent, Chat!InThread, Chat!NoSend
<1>4. Behind(u)'
  <2>1. /\ chat.lastReadAt[u] \in Nat /\ chat.lastReadAt[u] <= Chat!Clock
        /\ Chat!Clock \in Nat /\ Chat!Clock' \in Nat
    BY OwnFacts, Parameters DEF Typed, Behind, Counted
  <2>2. send'[u].now = 0
    BY TakenBack DEF Chat!NoSend
  <2>3. QED BY <2>1, <2>2 DEF Behind
<1>5. Unborn'
  BY TakenBack, OwnFacts DEF Unborn, Chat!InThread, Chat!NoSend
<1>6. QED BY <1>1, <1>3, <1>4, <1>5, TakenBack, OwnFacts, Rest

LEMMA RefusedBasis == ASSUME Basis, NEW u \in Users, Chat!SendRefused(u) \/ Chat!SendFails(u) PROVE Basis'
<1>1. CASE Chat!SendRefused(u)
  <2>1. /\ send[u].pc # "idle" /\ Chat!TakeBack(u)
        /\ UNCHANGED <<chat, msgs, access, loads, marking, seen, raced, typed, copies, unmarked, mishaps>>
    BY <1>1 DEF Chat!SendRefused
  <2>2. Created' = Created /\ Chat!Clock' = Chat!Clock /\ Chat!Clock \in Nat
    BY <2>1, Frame, StoredTyped
  <2>3. /\ Counted' /\ Chat!Clock <= Chat!Clock' /\ msgs' \in [Chat!Messages -> Message]
        /\ copies' \in [Chat!Texts -> Nat] /\ mishaps' \in 0 .. MaxMishaps
        /\ \A m \in Chat!Messages : msgs'[m].text <= typed'
    BY <2>1, <2>2 DEF Basis, Counted, Typed
  <2>4. QED BY <2>1, <2>2, <2>3, TakenBackBasis
<1>2. CASE Chat!SendFails(u)
  <2>1. /\ send[u].pc # "idle" /\ Chat!TakeBack(u) /\ mishaps' \in 0 .. MaxMishaps
        /\ msgs' = IF send[u].pc = "update" THEN [msgs EXCEPT ![send[u].number].state = "aborted"] ELSE msgs
        /\ copies' = IF send[u].pc = "stored" THEN [copies EXCEPT ![send[u].text] = @ + 1] ELSE copies
        /\ UNCHANGED <<chat, access, loads, marking, seen, raced, typed, unmarked>>
    BY <1>2, FaultTyped, OwnFacts DEF Chat!SendFails
  <2>2. copies' \in [Chat!Texts -> Nat]
    <3>1. copies \in [Chat!Texts -> Nat]
      BY OwnFacts DEF Typed
    <3>a. send[u].pc = "stored" => send[u].text \in Chat!Texts
      <4>1. send[u].pc = "stored" => send[u].text \in 1 .. typed
        BY OwnFacts DEF Sent
      <4>2. typed \in Nat /\ MaxTexts \in Nat /\ typed <= MaxTexts
        BY OwnFacts, Parameters
      <4>3. QED BY <4>1, <4>2 DEF Chat!Texts
    <3>2. QED BY <2>1, <3>1, <3>a
  <2>3. CASE send[u].pc = "update"
    <3>1. msgs' = [msgs EXCEPT ![send[u].number].state = "aborted"] /\ typed' = typed
      BY <2>1, <2>3
    <3>2. "aborted" \in {"stored", "aborted"}
      OBVIOUS
    <3>3. /\ msgs' \in [Chat!Messages -> Message] /\ Created' = Created /\ Counted' /\ Chat!Clock <= Chat!Clock'
          /\ \A m \in Chat!Messages : msgs'[m].text <= typed'
          /\ \A w \in Users \ {u} : send[w].pc \in {"update", "stored"} =>
               msgs'[send[w].number] = msgs[send[w].number]
      BY <2>3, <3>1, <3>2, Restated
    <3>4. QED BY <2>1, <2>2, <3>3, TakenBackBasis
  <2>4. CASE send[u].pc # "update"
    <3>1. msgs' = msgs
      BY <2>1, <2>4
    <3>2. Created' = Created /\ Chat!Clock' = Chat!Clock /\ Chat!Clock \in Nat
      BY <3>1, Frame, StoredTyped
    <3>3. /\ Counted' /\ Chat!Clock <= Chat!Clock' /\ msgs' \in [Chat!Messages -> Message]
          /\ \A m \in Chat!Messages : msgs'[m].text <= typed'
      <4>1. Counted /\ msgs \in [Chat!Messages -> Message] /\ \A m \in Chat!Messages : msgs[m].text <= typed
        BY DEF Basis, Typed
      <4>2. typed' = typed
        BY <2>1
      <4>3. Counted' /\ Chat!Clock <= Chat!Clock'
        BY <3>2, <4>1 DEF Counted
      <4>4. QED BY <3>1, <4>1, <4>2, <4>3
    <3>4. QED BY <2>1, <2>2, <3>1, <3>2, <3>3, TakenBackBasis
  <2>5. QED BY <2>3, <2>4
<1>3. QED BY <1>1, <1>2

LEMMA BasisInit == ASSUME Chat!Init PROVE Basis
<1>1. Created = {}
  BY DEF Chat!Init, Created, Chat!InState, Chat!NoMessage
<1>2. Chat!Clock = 0
  BY <1>1, SameSize, FS_EmptySet DEF Chat!Clock, Created
<1>3. Counted /\ Unborn
  BY <1>1, <1>2, Parameters DEF Counted, Unborn, Chat!Init, Chat!NoSend, Chat!InThread,
                    Chat!NoScreen
<1>4. Typed
  BY Parameters DEF Chat!Init, Typed, Chat!NoMessage, Chat!NoScreen, Chat!NoSend, Chat!NoLoad,
         Message, ScreenShape, SendShape, LoadShape
<1>5. \A u \in Users : OnScreen(u) /\ Sent(u) /\ Behind(u)
  BY <1>2, Parameters DEF Chat!Init, OnScreen, Sent, Behind, Chat!InThread, Chat!NoScreen,
              Chat!NoSend
<1>6. QED BY <1>3, <1>4, <1>5 DEF Basis, Chat!Init, Chat!NoMessage

LEMMA BasisStep == ASSUME Basis, [Chat!Next]_Chat!vars PROVE Basis'
<1>1. CASE UNCHANGED Chat!vars
  BY <1>1 DEF Chat!vars, Basis, Typed, Counted, Unborn, OnScreen, Sent, Behind,
              Created, Chat!Clock, Chat!InState, Chat!InThread
<1>2. ASSUME NEW u \in Users, Chat!Act(u) PROVE Basis'
  BY <1>2, FindBasis, CreateBasis, LeaveBasis, TypeBasis, SendBasis, TakeBasis, InsertBasis, CommitBasis,
     AnsweredBasis, RefusedBasis, LoadBasis, ShowBasis, MarkBasis DEF Chat!Act, Chat!Sending
<1>3. QED BY <1>1, <1>2 DEF Chat!Next

-----------------------------------------------------------------------------
(* What counts as read has been shown, or has raced with a mark *)

Met(u) == seen[u] \cup raced[u]

\* What is open counts already, and what a mark or a load under way will make
\* count, or a message that has been taken, is known.
Covered(u) ==
  \A m \in Chat!Messages : msgs[m].state \in {"open", "stored"} /\ msgs[m].by # u /\ m <= chat.lastReadAt[u]
                        => m \in Met(u)
MarkCovered(u) == marking[u] => Chat!Stored \ Chat!By(u) \subseteq Met(u)
LoadCovered(u) ==
  loads[u].newest.pc = "answered" => Chat!Stored \ Chat!By(u) \subseteq loads[u].newest.messages \cup Met(u)
SendCovered(u) == send[u].pc \in {"insert", "update"} => 1 .. send[u].now \subseteq Met(u)

ReadOK(u) == Covered(u) /\ MarkCovered(u) /\ LoadCovered(u) /\ SendCovered(u)
Reads == \A u \in Users : ReadOK(u)

LEMMA ReadsMissed == Basis /\ Reads => Chat!MissedOnlyByRace
BY ChatAssumption DEF Basis, Reads, ReadOK, Covered, Met, Chat!MissedOnlyByRace, Chat!Stored,
       Chat!InState, Chat!By

\* A step that only shows more.
LEMMA ReadKept ==
  ASSUME NEW w \in Users, ReadOK(w), UNCHANGED msgs, Met(w) \subseteq Met(w)',
         chat'.lastReadAt[w] = chat.lastReadAt[w],
         marking'[w] => marking[w],
         loads'[w].newest = loads[w].newest \/ loads'[w].newest.pc # "answered",
         send'[w].pc \in {"insert", "update"} => send[w].pc = send'[w].pc /\ send'[w].now = send[w].now
  PROVE  ReadOK(w)'
<1>1. Chat!Stored' = Chat!Stored /\ Chat!By(w)' = Chat!By(w)
  BY Frame
<1>2. Covered(w)'
  BY DEF ReadOK, Covered
<1>3. MarkCovered(w)'
  BY <1>1 DEF ReadOK, MarkCovered
<1>4. LoadCovered(w)'
  BY <1>1 DEF ReadOK, LoadCovered
<1>5. SendCovered(w)'
  BY DEF ReadOK, SendCovered
<1>6. QED BY <1>2, <1>3, <1>4, <1>5 DEF ReadOK

LEMMA LoadReads ==
  ASSUME Basis, Reads, NEW u \in Users,
         Chat!Poll(u) \/ Chat!ServeNewest(u) \/ Chat!ServeOlder(u) \/ Chat!DropOlder(u) \/ Chat!LoadFails(u)
  PROVE  Reads'
<1>1. UNCHANGED <<chat, msgs, send, marking, seen, raced>>
  BY DEF Chat!Poll, Chat!ServeNewest, Chat!ServeOlder, Chat!DropOlder, Chat!LoadFails
<1>2. loads \in [Users -> [newest : LoadShape, older : LoadShape]]
  BY DEF Basis, Typed
<1>3. \A w \in Users : Met(w)' = Met(w) /\ ReadOK(w)
  BY <1>1 DEF Met, Reads
<1>4. ASSUME NEW w \in Users, loads'[w].newest = loads[w].newest \/ loads'[w].newest.pc # "answered"
      PROVE  ReadOK(w)'
  BY <1>1, <1>3, <1>4, ReadKept
<1>5. CASE Chat!ServeNewest(u)
  <2>1. /\ loads'[u].newest = Chat!Answered(loads[u].newest, u)
        /\ \A w \in Users \ {u} : loads'[w] = loads[w]
    BY <1>2, <1>5 DEF Chat!ServeNewest
  <2>2. CASE access[u]
    <3>1. loads'[u].newest.messages = Chat!Stored
      BY <2>1, <2>2 DEF Chat!Answered
    <3>2. ReadOK(u)'
      <4>1. ReadOK(u) /\ Chat!Stored' = Chat!Stored /\ Chat!By(u)' = Chat!By(u) /\ Met(u)' = Met(u)
        BY <1>1, <1>3, Frame
      <4>2. Covered(u)' /\ MarkCovered(u)' /\ SendCovered(u)'
        BY <1>1, <4>1 DEF ReadOK, Covered, MarkCovered, SendCovered
      <4>3. LoadCovered(u)'
        BY <3>1, <4>1 DEF LoadCovered
      <4>4. QED BY <4>2, <4>3 DEF ReadOK
    <3>3. QED BY <1>4, <2>1, <3>2 DEF Reads
  <2>3. CASE ~ access[u]
    <3>1. loads'[u].newest.pc # "answered"
      BY <2>1, <2>3 DEF Chat!Answered, Chat!NoLoad
    <3>2. QED BY <1>4, <2>1, <3>1 DEF Reads
  <2>4. QED BY <2>2, <2>3
<1>6. CASE Chat!Poll(u) \/ Chat!LoadFails(u)
  <2>1. loads'[u].newest.pc # "answered" /\ \A w \in Users \ {u} : loads'[w] = loads[w]
    BY <1>2, <1>6 DEF Chat!Poll, Chat!LoadFails, Chat!NewLoad, Chat!NoLoad
  <2>2. QED BY <1>4, <2>1 DEF Reads
<1>7. CASE Chat!ServeOlder(u) \/ Chat!DropOlder(u)
  <2>1. loads'[u].newest = loads[u].newest /\ \A w \in Users \ {u} : loads'[w] = loads[w]
    BY <1>2, <1>7 DEF Chat!ServeOlder, Chat!DropOlder
  <2>2. QED BY <1>4, <2>1 DEF Reads
<1>8. QED BY <1>5, <1>6, <1>7

LEMMA ShowReads ==
  ASSUME Basis, Reads, NEW u \in Users, Chat!ShowNewest(u) PROVE Reads'
<1>1. /\ loads[u].newest.pc = "answered" /\ UNCHANGED <<chat, msgs, send, raced>>
      /\ seen' = [seen EXCEPT ![u] = @ \cup loads[u].newest.messages]
      /\ loads' = [loads EXCEPT ![u].newest = Chat!NoLoad]
      /\ \A w \in Users \ {u} : marking'[w] = marking[w]
  BY DEF Chat!ShowNewest, Chat!Show, Basis, Typed
<1>2. /\ seen'[u] = seen[u] \cup loads[u].newest.messages
      /\ loads'[u].newest.pc # "answered"
      /\ \A w \in Users \ {u} : seen'[w] = seen[w] /\ loads'[w] = loads[w]
  BY <1>1 DEF Basis, Typed, Chat!NoLoad
<1>3. ASSUME NEW w \in Users \ {u} PROVE ReadOK(w)'
  BY <1>1, <1>2, ReadKept DEF Reads, Met
<1>4. ReadOK(u)'
  <2>1. /\ ReadOK(u) /\ Chat!Stored' = Chat!Stored /\ Chat!By(u)' = Chat!By(u)
        /\ Met(u)' = Met(u) \cup loads[u].newest.messages
    BY <1>1, <1>2, Frame DEF Reads, Met
  <2>2. Covered(u)' /\ SendCovered(u)'
    BY <1>1, <2>1 DEF ReadOK, Covered, SendCovered
  <2>3. MarkCovered(u)' /\ LoadCovered(u)'
    BY <1>1, <1>2, <2>1 DEF ReadOK, MarkCovered, LoadCovered
  <2>4. QED BY <2>2, <2>3 DEF ReadOK
<1>5. QED BY <1>3, <1>4 DEF Reads

LEMMA MarkReads ==
  ASSUME Basis, Reads, NEW u \in Users, Chat!MarkRead(u) \/ Chat!MarkFails(u) \/ Chat!LoseAccess(u) PROVE Reads'
<1>1. UNCHANGED <<msgs, send, loads, seen>>
  BY DEF Chat!MarkRead, Chat!MarkFails, Chat!LoseAccess
<1>2. CASE Chat!MarkRead(u) /\ access[u]
  <2>1. /\ marking[u] /\ marking' = [marking EXCEPT ![u] = FALSE]
        /\ chat' = [chat EXCEPT !.lastReadAt[u] = Chat!Clock]
        /\ raced' = [raced EXCEPT ![u] = @ \cup Chat!InState({"open"})]
    BY <1>2 DEF Chat!MarkRead
  <2>2. /\ ~ marking'[u] /\ raced'[u] = raced[u] \cup Chat!InState({"open"})
        /\ \A w \in Users \ {u} : /\ marking'[w] = marking[w] /\ raced'[w] = raced[w]
                                  /\ chat'.lastReadAt[w] = chat.lastReadAt[w]
    BY <2>1 DEF Basis, Typed
  <2>3. ASSUME NEW w \in Users \ {u} PROVE ReadOK(w)'
    BY <1>1, <2>2, ReadKept DEF Reads, Met
  <2>4. ReadOK(u)'
    <3>1. /\ ReadOK(u) /\ Chat!Stored' = Chat!Stored /\ Chat!By(u)' = Chat!By(u)
          /\ Met(u)' = Met(u) \cup Chat!InState({"open"})
      BY <1>1, <2>2, Frame DEF Reads, Met
    <3>2. Covered(u)'
      <4>1. Chat!Stored \ Chat!By(u) \subseteq Met(u)
        BY <2>1, <3>1 DEF ReadOK, MarkCovered
      <4>2. QED BY <1>1, <3>1, <4>1 DEF Covered, Chat!Stored, Chat!InState, Chat!By
    <3>3. MarkCovered(u)' /\ LoadCovered(u)' /\ SendCovered(u)'
      BY <1>1, <2>2, <3>1 DEF ReadOK, MarkCovered, LoadCovered, SendCovered
    <3>4. QED BY <3>2, <3>3 DEF ReadOK
  <2>5. QED BY <2>3, <2>4 DEF Reads
<1>3. CASE (Chat!MarkRead(u) /\ ~ access[u]) \/ Chat!MarkFails(u) \/ Chat!LoseAccess(u)
  <2>1. chat' = chat /\ raced' = raced /\ \A w \in Users : marking'[w] => marking[w]
    BY <1>3 DEF Chat!MarkRead, Chat!MarkFails, Chat!LoseAccess, Basis, Typed
  <2>2. QED BY <1>1, <2>1, ReadKept DEF Reads, Met
<1>4. QED BY <1>2, <1>3

LEMMA ScreenReads ==
  ASSUME Basis, Reads, NEW u \in Users,
         \/ Chat!Find(u) \/ Chat!Leave(u) \/ Chat!Type(u) \/ Chat!SendMessage(u)
         \/ Chat!SendAnswered(u) \/ Chat!SendRefused(u)
  PROVE  Reads'
<1>1. UNCHANGED <<chat, msgs, raced, marking>>
  <2>1. Chat!Find(u) => UNCHANGED <<chat, msgs, raced, marking>>
    BY DEF Chat!Find, Chat!ShowThread
  <2>2. QED BY <2>1 DEF Chat!Leave, Chat!Type, Chat!SendMessage, Chat!SendAnswered, Chat!SendRefused
<1>2. \A w \in Users : seen[w] \subseteq seen'[w]
  BY DEF Chat!Find, Chat!Leave, Chat!Type, Chat!SendMessage, Chat!SendAnswered, Chat!SendRefused,
         Basis, Typed
<1>3. \A w \in Users : loads'[w].newest = loads[w].newest \/ loads'[w].newest.pc # "answered"
  <2>1. loads \in [Users -> [newest : LoadShape, older : LoadShape]]
    BY DEF Basis, Typed
  <2>2. CASE Chat!ShowThread(u) \/ Chat!Leave(u)
    BY <2>1, <2>2 DEF Chat!ShowThread, Chat!Leave, Chat!FirstLoad, Chat!NewLoad, Chat!NoLoad
  <2>3. CASE loads' = loads
    BY <2>3
  <2>4. QED BY <2>2, <2>3 DEF Chat!Find, Chat!Type, Chat!SendMessage, Chat!SendAnswered,
                              Chat!SendRefused
<1>4. \A w \in Users : send'[w].pc \in {"insert", "update"} =>
        send[w].pc = send'[w].pc /\ send'[w].now = send[w].now
  <2>1. send \in [Users -> SendShape]
    BY DEF Basis, Typed
  <2>2. CASE Chat!Find(u) \/ Chat!Type(u)
    BY <2>2 DEF Chat!Find, Chat!Type
  <2>3. CASE Chat!Leave(u)
    BY <2>1, <2>3 DEF Chat!Leave, SendShape
  <2>4. CASE Chat!SendMessage(u)
    BY <2>1, <2>4 DEF Chat!SendMessage, Chat!NoSend
  <2>5. CASE Chat!SendAnswered(u) \/ Chat!SendRefused(u)
    BY <2>1, <2>5 DEF Chat!SendAnswered, Chat!SendRefused, Chat!TakeBack, Chat!NoSend
  <2>6. QED BY <2>2, <2>3, <2>4, <2>5
<1>5. QED BY <1>1, <1>2, <1>3, <1>4, ReadKept DEF Reads, Met

LEMMA CreateReads == ASSUME Basis, Reads, NEW u \in Users, Chat!Create(u) PROVE Reads'
<1>1. /\ UNCHANGED <<msgs, send, seen, raced, marking>> /\ Chat!ShowThread(u)
      /\ chat' = IF chat.exists THEN chat ELSE [chat EXCEPT !.exists = TRUE, !.lastReadAt[u] = Chat!Clock]
  BY DEF Chat!Create, Chat!ShowThread
<1>2. \A w \in Users : loads'[w].newest = loads[w].newest \/ loads'[w].newest.pc # "answered"
  BY <1>1 DEF Chat!ShowThread, Basis, Typed, Chat!FirstLoad, Chat!NewLoad, Chat!NoLoad
<1>3. \A w \in Users : Met(w)' = Met(w)
  BY <1>1 DEF Met
<1>4. CASE chat.exists
  BY <1>1, <1>2, <1>3, <1>4, ReadKept DEF Reads
<1>5. CASE ~ chat.exists
  <2>1. Created = {}
    BY <1>5 DEF Basis, Unborn
  <2>2. \A m \in Chat!Messages : msgs[m].state \notin {"open", "stored"}
    BY <2>1 DEF Created, Chat!InState
  <2>3. ASSUME NEW w \in Users PROVE ReadOK(w)'
    <3>1. ReadOK(w) /\ Chat!Stored' = Chat!Stored /\ Chat!By(w)' = Chat!By(w) /\ Chat!Stored = {}
      BY <1>1, <2>2, Frame DEF Reads, Chat!Stored, Chat!InState
    <3>2. Covered(w)'
      BY <1>1, <2>2 DEF Covered
    <3>3. MarkCovered(w)' /\ LoadCovered(w)'
      BY <3>1 DEF MarkCovered, LoadCovered
    <3>4. SendCovered(w)'
      BY <1>1, <1>3, <3>1 DEF ReadOK, SendCovered
    <3>5. QED BY <3>2, <3>3, <3>4 DEF ReadOK
  <2>4. QED BY <2>3 DEF Reads
<1>6. QED BY <1>4, <1>5

LEMMA TakeReads == ASSUME Basis, Reads, NEW u \in Users, Chat!TakeMessage(u) PROVE Reads'
<1>1. /\ send' = [send EXCEPT ![u].pc = "insert", ![u].now = Chat!Clock]
      /\ raced' = [raced EXCEPT ![u] = @ \cup (1 .. Chat!Clock \ seen[u])]
      /\ UNCHANGED <<chat, msgs, loads, marking, seen>>
  BY DEF Chat!TakeMessage
<1>2. /\ send'[u].now = Chat!Clock /\ raced'[u] = raced[u] \cup (1 .. Chat!Clock \ seen[u])
      /\ \A w \in Users \ {u} : send'[w] = send[w] /\ raced'[w] = raced[w]
  BY <1>1 DEF Basis, Typed, SendShape
<1>3. ASSUME NEW w \in Users \ {u} PROVE ReadOK(w)'
  BY <1>1, <1>2, ReadKept DEF Reads, Met
<1>4. ReadOK(u)'
  <2>1. /\ ReadOK(u) /\ Chat!Stored' = Chat!Stored /\ Chat!By(u)' = Chat!By(u)
        /\ Met(u) \subseteq Met(u)' /\ 1 .. Chat!Clock \subseteq Met(u)'
    BY <1>1, <1>2, Frame DEF Reads, Met
  <2>2. Covered(u)' /\ SendCovered(u)'
    BY <1>1, <1>2, <2>1 DEF ReadOK, Covered, SendCovered
  <2>3. MarkCovered(u)' /\ LoadCovered(u)'
    BY <1>1, <2>1 DEF ReadOK, MarkCovered, LoadCovered
  <2>4. QED BY <2>2, <2>3 DEF ReadOK
<1>5. QED BY <1>3, <1>4 DEF Reads

LEMMA InsertReads == ASSUME Basis, Reads, NEW u \in Users, Chat!InsertMessage(u) PROVE Reads'
<1> DEFINE n == Chat!Clock + 1
           new == [by |-> u, text |-> send[u].text, state |-> "open"]
<1>1. /\ send[u].pc = "insert" /\ Chat!Clock < MaxMessages /\ msgs' = [msgs EXCEPT ![n] = new]
      /\ send' = [send EXCEPT ![u].pc = "update", ![u].number = n]
      /\ UNCHANGED <<chat, loads, marking, seen, raced>>
  BY DEF Chat!InsertMessage
<1>2. n \in Chat!Messages /\ n \notin Created /\ Chat!Clock \in Nat
  BY <1>1, OwnFacts, Parameters DEF Chat!Messages, Basis, Counted
<1>3. msgs'[n] = new /\ \A m \in Chat!Messages \ {n} : msgs'[m] = msgs[m]
  BY <1>1, <1>2 DEF Basis, Typed
<1>4. ASSUME NEW w \in Users PROVE ReadOK(w)'
  <2>1. ReadOK(w) /\ Met(w)' = Met(w)
    BY <1>1 DEF Reads, Met
  <2>2. Chat!Stored' = Chat!Stored
    BY <1>2, <1>3 DEF Chat!Stored, Chat!InState, Created
  <2>3. Chat!Stored \ Chat!By(w)' = Chat!Stored \ Chat!By(w)
    BY <1>2, <1>3 DEF Chat!Stored, Chat!InState, Created, Chat!By
  <2>4. ~ (n <= chat'.lastReadAt[w])
    <3>1. chat.lastReadAt[w] \in Nat /\ chat.lastReadAt[w] <= Chat!Clock
      BY OwnFacts, Parameters DEF Typed, Behind
    <3>2. QED BY <1>1, <1>2, <3>1
  <2>5. Covered(w)'
    BY <1>1, <1>3, <2>1, <2>4 DEF ReadOK, Covered
  <2>6. MarkCovered(w)' /\ LoadCovered(w)'
    BY <1>1, <2>1, <2>2, <2>3 DEF ReadOK, MarkCovered, LoadCovered
  <2>7. SendCovered(w)'
    <3>1. /\ send'[w].now = send[w].now
          /\ send'[w].pc \in {"insert", "update"} => send[w].pc \in {"insert", "update"}
      BY <1>1 DEF Basis, Typed, SendShape
    <3>2. QED BY <2>1, <3>1 DEF ReadOK, SendCovered
  <2>8. QED BY <2>5, <2>6, <2>7 DEF ReadOK
<1>5. QED BY <1>4 DEF Reads

LEMMA CommitReads == ASSUME Basis, Reads, NEW u \in Users, Chat!CommitMessage(u) PROVE Reads'
<1> DEFINE n == send[u].number
<1>1. /\ send[u].pc = "update" /\ msgs' = [msgs EXCEPT ![n].state = "stored"] /\ typed' = typed
      /\ chat' = [chat EXCEPT !.lastMessageAt = n, !.lastReadAt[u] = send[u].now]
      /\ raced' = [v \in Users |-> IF v # u /\ Chat!AboutToMark(v) THEN raced[v] \cup {n} ELSE raced[v]]
      /\ send' = [send EXCEPT ![u].pc = "stored"]
      /\ UNCHANGED <<loads, marking, seen>>
  BY DEF Chat!CommitMessage
<1>2. /\ n \in Chat!Messages /\ msgs'[n].by = u /\ msgs'[n].state = "stored"
      /\ msgs[n].by = u /\ msgs[n].state = "open"
      /\ \A m \in Chat!Messages \ {n} : msgs'[m] = msgs[m]
  <2>1. "stored" \in {"stored", "aborted"} /\ typed' = typed
    BY <1>1
  <2>2. QED BY <1>1, <2>1, Restated
<1>3. /\ chat'.lastReadAt[u] = send[u].now
      /\ \A w \in Users \ {u} : chat'.lastReadAt[w] = chat.lastReadAt[w]
  BY <1>1 DEF Basis, Typed
<1>4. /\ send'[u].pc = "stored" /\ \A w \in Users \ {u} : send'[w] = send[w]
  BY <1>1 DEF Basis, Typed, SendShape
<1>5. ASSUME NEW w \in Users PROVE ReadOK(w)'
  <2>1. ReadOK(w) /\ Met(w) \subseteq Met(w)'
    BY <1>1 DEF Reads, Met
  <2>2. /\ Chat!Stored' = Chat!Stored \cup {n} /\ Chat!By(w)' = Chat!By(w) /\ n \in Chat!By(u)'
        /\ \A m \in Chat!Messages :
             /\ msgs'[m].by = msgs[m].by
             /\ msgs'[m].state \in {"open", "stored"} => msgs[m].state \in {"open", "stored"}
    BY <1>2 DEF Chat!Stored, Chat!InState, Chat!By
  <2>3. Covered(w)'
    <3>1. CASE w # u
      <4>1. Covered(w) /\ chat'.lastReadAt[w] = chat.lastReadAt[w]
        BY <1>3, <2>1, <3>1 DEF ReadOK
      <4>2. ASSUME NEW m \in Chat!Messages, msgs'[m].state \in {"open", "stored"}, msgs'[m].by # w,
                   m <= chat'.lastReadAt[w]
            PROVE  m \in Met(w)'
        <5>1. msgs[m].state \in {"open", "stored"} /\ msgs[m].by # w
          BY <2>2, <4>2
        <5>2. m \in Met(w)
          BY <4>1, <4>2, <5>1 DEF Covered
        <5>3. QED BY <2>1, <5>2
      <4>3. QED BY <4>2 DEF Covered
    <3>2. CASE w = u
      <4>1. 1 .. send[u].now \subseteq Met(u)
        BY <1>1, <2>1, <3>2 DEF ReadOK, SendCovered
      <4>2. \A m \in Chat!Messages : m <= send[u].now => m \in 1 .. send[u].now
        BY OwnFacts, Parameters DEF Chat!Messages, SendShape
      <4>3. QED BY <1>3, <2>1, <3>2, <4>1, <4>2 DEF Covered
    <3>3. QED BY <3>1, <3>2
  <2>4. MarkCovered(w)' /\ LoadCovered(w)'
    <3>1. marking[w] \/ loads[w].newest.pc = "answered" => n \in Chat!By(w)' \/ n \in Met(w)'
      <4>1. CASE w = u
        BY <2>2, <4>1
      <4>2. CASE w # u
        BY <1>1, <4>2 DEF Chat!AboutToMark, Met
      <4>3. QED BY <4>1, <4>2
    <3>2. QED BY <1>1, <2>1, <2>2, <3>1 DEF ReadOK, MarkCovered, LoadCovered
  <2>5. SendCovered(w)'
    BY <1>4, <2>1 DEF ReadOK, SendCovered
  <2>6. QED BY <2>3, <2>4, <2>5 DEF ReadOK
<1>6. QED BY <1>5 DEF Reads

LEMMA FailReads == ASSUME Basis, Reads, NEW u \in Users, Chat!SendFails(u) PROVE Reads'
<1>1. /\ Chat!TakeBack(u) /\ UNCHANGED <<chat, loads, marking, seen, raced, typed>>
      /\ msgs' = IF send[u].pc = "update" THEN [msgs EXCEPT ![send[u].number].state = "aborted"] ELSE msgs
  BY DEF Chat!SendFails
<1>2. send'[u].pc = "idle" /\ \A w \in Users \ {u} : send'[w] = send[w]
  BY <1>1 DEF Chat!TakeBack, Chat!NoSend, Basis, Typed
<1>3. \A w \in Users : Met(w)' = Met(w) /\ ReadOK(w)
  BY <1>1 DEF Met, Reads
<1>4. CASE send[u].pc # "update"
  BY <1>1, <1>2, <1>3, <1>4, ReadKept DEF Reads
<1>5. CASE send[u].pc = "update"
  <2> DEFINE n == send[u].number
  <2>1. /\ n \in Chat!Messages /\ msgs'[n].by = u /\ msgs'[n].state = "aborted"
        /\ msgs[n].by = u /\ msgs[n].state = "open"
        /\ \A m \in Chat!Messages \ {n} : msgs'[m] = msgs[m]
    <3>1. msgs' = [msgs EXCEPT ![n].state = "aborted"] /\ typed' = typed
      BY <1>1, <1>5
    <3>2. "aborted" \in {"stored", "aborted"}
      OBVIOUS
    <3>3. QED BY <1>5, <3>1, <3>2, Restated
  <2>2. ASSUME NEW w \in Users PROVE ReadOK(w)'
    <3>1. /\ Chat!Stored' = Chat!Stored /\ Chat!By(w)' = Chat!By(w)
          /\ \A m \in Chat!Messages :
               /\ msgs'[m].by = msgs[m].by
               /\ msgs'[m].state \in {"open", "stored"} => msgs[m].state = msgs'[m].state
      BY <2>1 DEF Chat!Stored, Chat!InState, Chat!By
    <3>2. Covered(w)'
      BY <1>1, <1>3, <3>1 DEF ReadOK, Covered
    <3>3. MarkCovered(w)' /\ LoadCovered(w)'
      BY <1>1, <1>3, <3>1 DEF ReadOK, MarkCovered, LoadCovered
    <3>4. SendCovered(w)'
      BY <1>2, <1>3 DEF ReadOK, SendCovered
    <3>5. QED BY <3>2, <3>3, <3>4 DEF ReadOK
  <2>3. QED BY <2>2 DEF Reads
<1>6. QED BY <1>4, <1>5

LEMMA ReadsStep == ASSUME Basis, Reads, [Chat!Next]_Chat!vars PROVE Reads'
<1>1. CASE UNCHANGED Chat!vars
  BY <1>1, ReadKept DEF Chat!vars, Reads, Met
<1>2. ASSUME NEW u \in Users, Chat!Act(u) PROVE Reads'
  BY <1>2, LoadReads, ShowReads, MarkReads, ScreenReads, CreateReads, TakeReads, InsertReads, CommitReads,
     FailReads DEF Chat!Act, Chat!Sending
<1>3. QED BY <1>1, <1>2 DEF Chat!Next

LEMMA ReadsInit == Chat!Init => Reads
BY DEF Chat!Init, Reads, ReadOK, Covered, MarkCovered, LoadCovered, SendCovered, Chat!NoMessage,
       Chat!NoLoad, Chat!NoSend

\* What counts as read without having been shown to the user has raced with
\* a mark (markRead and the last_read_at a sender's own message writes), for
\* any number of messages, texts and failures.
THEOREM MissedByRace == ChatSpec => []MissedOnlyByRace
<1>1. Chat!Init => Basis /\ Reads
  BY BasisInit, ReadsInit
<1>2. Basis /\ Reads /\ [Chat!Next]_Chat!vars => (Basis /\ Reads)'
  BY BasisStep, ReadsStep
<1>3. Basis /\ Reads => MissedOnlyByRace
  BY ReadsMissed DEF MissedOnlyByRace
<1>4. QED BY <1>1, <1>2, <1>3, PTL DEF ChatSpec, Chat!Spec

-----------------------------------------------------------------------------
(* Where a text is *)


Typing(t) == {u \in Users : screen[u].composer = t}
OnItsWay(t) == {u \in Users : send[u].text = t /\ send[u].number \notin Chat!Stored}
Kept(t) == {m \in Chat!Stored : msgs[m].text = t}

Accounted(t) == Chat!Places(t) <= 1 + copies[t] /\ (Chat!Places(t) = 0 => t \in lost)
AllAccounted == \A t \in 1 .. typed : Accounted(t)

LEMMA OneElement ==
  ASSUME NEW S, NEW T, NEW x, IsFiniteSet(S), IsFiniteSet(T), S \ {x} = T \ {x}
  PROVE  /\ Cardinality(S) \in Nat /\ Cardinality(T) \in Nat
         /\ Cardinality(T) + Unit(x \in S) = Cardinality(S) + Unit(x \in T)
<1>1. Cardinality(S) \in Nat /\ Cardinality(T) \in Nat
  BY FS_CardinalityType
<1>2. /\ Cardinality(S \ {x}) = IF x \in S THEN Cardinality(S) - 1 ELSE Cardinality(S)
      /\ Cardinality(T \ {x}) = IF x \in T THEN Cardinality(T) - 1 ELSE Cardinality(T)
  BY FS_RemoveElement
<1>3. QED BY <1>1, <1>2 DEF Unit

LEMMA PlacesFinite ==
  ASSUME Basis, NEW t
  PROVE  /\ IsFiniteSet(Typing(t)) /\ IsFiniteSet(OnItsWay(t)) /\ IsFiniteSet(Kept(t))
         /\ Cardinality(Typing(t)) \in Nat /\ Cardinality(OnItsWay(t)) \in Nat
         /\ Cardinality(Kept(t)) \in Nat
         /\ Chat!Places(t) = Cardinality(Typing(t)) + Cardinality(OnItsWay(t)) + Cardinality(Kept(t))
         /\ Chat!Places(t) \in Nat
<1>1. IsFiniteSet(Users) /\ IsFiniteSet(Chat!Messages)
  BY Parameters, FS_Interval DEF Chat!Messages
<1>2. Typing(t) \subseteq Users /\ OnItsWay(t) \subseteq Users /\ Kept(t) \subseteq Chat!Messages
  BY DEF Typing, OnItsWay, Kept, Chat!Stored, Chat!InState
<1>3. IsFiniteSet(Typing(t)) /\ IsFiniteSet(OnItsWay(t)) /\ IsFiniteSet(Kept(t))
  BY <1>1, <1>2, FS_Subset
<1>4. /\ Cardinality(Typing(t)) \in Nat /\ Cardinality(OnItsWay(t)) \in Nat
      /\ Cardinality(Kept(t)) \in Nat
  BY <1>3, FS_CardinalityType
<1>5. Chat!Places(t) = Cardinality(Typing(t)) + Cardinality(OnItsWay(t)) + Cardinality(Kept(t))
  BY SameSize DEF Chat!Places, Typing, OnItsWay, Kept
<1>6. QED BY <1>3, <1>4, <1>5

\* One user and one message at most make the difference.
LEMMA PlacesMove ==
  ASSUME Basis, NEW t, NEW u, NEW m,
         Typing(t)' \ {u} = Typing(t) \ {u}, OnItsWay(t)' \ {u} = OnItsWay(t) \ {u},
         Kept(t)' \ {m} = Kept(t) \ {m}
  PROVE  /\ Chat!Places(t)' \in Nat /\ Chat!Places(t) \in Nat
         /\ Chat!Places(t)' + Unit(u \in Typing(t)) + Unit(u \in OnItsWay(t)) + Unit(m \in Kept(t))
              = Chat!Places(t) + Unit(u \in Typing(t)') + Unit(u \in OnItsWay(t)') + Unit(m \in Kept(t)')
<1>1. \A b : Unit(b) \in Nat
  BY DEF Unit
<1>2. /\ IsFiniteSet(Typing(t)) /\ IsFiniteSet(OnItsWay(t)) /\ IsFiniteSet(Kept(t))
      /\ Chat!Places(t) = Cardinality(Typing(t)) + Cardinality(OnItsWay(t)) + Cardinality(Kept(t))
      /\ Chat!Places(t) \in Nat
  BY PlacesFinite
<1>3. /\ IsFiniteSet(Typing(t)') /\ IsFiniteSet(OnItsWay(t)') /\ IsFiniteSet(Kept(t)')
      /\ Chat!Places(t)' = Cardinality(Typing(t)') + Cardinality(OnItsWay(t)') + Cardinality(Kept(t)')
  <2>1. IsFiniteSet(Users) /\ IsFiniteSet(Chat!Messages)
    BY Parameters, FS_Interval DEF Chat!Messages
  <2>2. Typing(t)' \subseteq Users /\ OnItsWay(t)' \subseteq Users /\ Kept(t)' \subseteq Chat!Messages
    BY DEF Typing, OnItsWay, Kept, Chat!Stored, Chat!InState
  <2>3. Chat!Places(t)' = Cardinality(Typing(t)') + Cardinality(OnItsWay(t)') + Cardinality(Kept(t)')
    BY SameSize DEF Chat!Places, Typing, OnItsWay, Kept
  <2>4. QED BY <2>1, <2>2, <2>3, FS_Subset
<1>4. /\ Cardinality(Typing(t)) \in Nat /\ Cardinality(Typing(t)') \in Nat
      /\ Cardinality(Typing(t)') + Unit(u \in Typing(t)) = Cardinality(Typing(t)) + Unit(u \in Typing(t)')
  BY <1>2, <1>3, OneElement
<1>5. /\ Cardinality(OnItsWay(t)) \in Nat /\ Cardinality(OnItsWay(t)') \in Nat
      /\ Cardinality(OnItsWay(t)') + Unit(u \in OnItsWay(t))
           = Cardinality(OnItsWay(t)) + Unit(u \in OnItsWay(t)')
  BY <1>2, <1>3, OneElement
<1>6. /\ Cardinality(Kept(t)) \in Nat /\ Cardinality(Kept(t)') \in Nat
      /\ Cardinality(Kept(t)') + Unit(m \in Kept(t)) = Cardinality(Kept(t)) + Unit(m \in Kept(t)')
  BY <1>2, <1>3, OneElement
<1>7. QED BY <1>1, <1>2, <1>3, <1>4, <1>5, <1>6

\* Steps that move no text.
LEMMA TextsKept ==
  ASSUME AllAccounted, typed' = typed, copies' = copies, lost \subseteq lost',
         \A t \in 1 .. typed : Typing(t)' = Typing(t) /\ OnItsWay(t)' = OnItsWay(t) /\ Kept(t)' = Kept(t)
  PROVE  AllAccounted'
<1> SUFFICES ASSUME NEW t \in 1 .. typed PROVE Accounted(t)'
  BY DEF AllAccounted
<1>1. Chat!Places(t)' = Chat!Places(t)
  BY DEF Chat!Places, Typing, OnItsWay, Kept
<1>2. Accounted(t)
  BY DEF AllAccounted
<1>3. QED BY <1>1, <1>2 DEF Accounted

LEMMA QuietTexts ==
  ASSUME Basis, AllAccounted, UNCHANGED <<msgs, send, typed, copies>>, lost \subseteq lost',
         \A w \in Users : screen'[w].composer = screen[w].composer
  PROVE  AllAccounted'
<1>1. \A t : Typing(t)' = Typing(t) /\ OnItsWay(t)' = OnItsWay(t) /\ Kept(t)' = Kept(t)
  BY Frame DEF Typing, OnItsWay, Kept
<1>2. QED BY <1>1, TextsKept

LEMMA ScreenTexts ==
  ASSUME Basis, AllAccounted, NEW u \in Users,
         \/ Chat!Find(u) \/ Chat!Create(u) \/ Chat!ShowNewest(u)
         \/ Chat!Poll(u) \/ Chat!ServeNewest(u) \/ Chat!ServeOlder(u) \/ Chat!DropOlder(u)
         \/ Chat!LoadFails(u) \/ Chat!MarkRead(u) \/ Chat!MarkFails(u) \/ Chat!LoseAccess(u)
  PROVE  AllAccounted'
<1>1. UNCHANGED <<msgs, send, typed, copies, lost>>
  <2>1. CASE Chat!Find(u) \/ Chat!Create(u) \/ Chat!ShowNewest(u)
    BY <2>1 DEF Chat!Find, Chat!Create, Chat!ShowNewest
  <2>2. CASE Chat!Poll(u) \/ Chat!ServeNewest(u) \/ Chat!ServeOlder(u) \/ Chat!DropOlder(u) \/ Chat!LoadFails(u)
    BY <2>2 DEF Chat!Poll, Chat!ServeNewest, Chat!ServeOlder, Chat!DropOlder, Chat!LoadFails
  <2>3. CASE Chat!MarkRead(u) \/ Chat!MarkFails(u) \/ Chat!LoseAccess(u)
    BY <2>3 DEF Chat!MarkRead, Chat!MarkFails, Chat!LoseAccess
  <2>4. QED BY <2>1, <2>2, <2>3
<1>2. \A w \in Users : screen'[w].composer = screen[w].composer
  <2>1. screen \in [Users -> ScreenShape]
    BY DEF Basis, Typed
  <2>2. CASE Chat!Poll(u) \/ Chat!ServeNewest(u) \/ Chat!ServeOlder(u) \/ Chat!DropOlder(u) \/ Chat!LoadFails(u)
             \/ Chat!MarkRead(u) \/ Chat!MarkFails(u) \/ Chat!LoseAccess(u)
    BY <2>2 DEF Chat!Poll, Chat!ServeNewest, Chat!ServeOlder, Chat!DropOlder, Chat!LoadFails,
                Chat!MarkRead, Chat!MarkFails, Chat!LoseAccess
  <2>3. CASE Chat!Find(u) \/ Chat!Create(u)
    <3>1. ~ Chat!InThread(u)
      BY <2>3 DEF Chat!Find, Chat!Create, Chat!InThread
    <3>2. screen[u].composer = 0
      BY <3>1, OwnFacts DEF OnScreen
    <3>3. CASE Chat!ShowThread(u)
      <4>1. screen'[u].composer = 0 /\ \A w \in Users \ {u} : screen'[w] = screen[w]
        BY <3>3, ThreadTyped DEF Chat!NoScreen
      <4>2. QED BY <3>2, <4>1
    <3>4. CASE screen' = [screen EXCEPT ![u].at = "creating"]
      BY <2>1, <3>4 DEF ScreenShape
    <3>5. QED BY <2>3, <3>3, <3>4 DEF Chat!Find, Chat!Create
  <2>4. CASE Chat!ShowNewest(u)
    BY <2>1, <2>4 DEF Chat!ShowNewest, Chat!Show, ScreenShape
  <2>5. QED BY <2>2, <2>3, <2>4
<1>3. QED BY <1>1, <1>2, QuietTexts

\* A message under way is not stored, one that is stored is not under way.
LEMMA Under ==
  ASSUME Basis, NEW u \in Users
  PROVE  /\ send[u].number \in Chat!Stored <=> send[u].pc = "stored"
         /\ 0 \notin Chat!Stored
<1>1. 0 \notin Chat!Stored
  BY Parameters DEF Chat!Stored, Chat!InState, Chat!Messages
<1>2. QED BY <1>1, OwnFacts DEF Sent, Chat!Stored, Chat!InState, SendShape

LEMMA TakeTexts ==
  ASSUME Basis, AllAccounted, NEW u \in Users, Chat!TakeMessage(u) \/ Chat!InsertMessage(u), Basis'
  PROVE  AllAccounted'
<1>1. /\ UNCHANGED <<screen, typed, copies, lost>>
      /\ send'[u].text = send[u].text /\ \A w \in Users \ {u} : send'[w] = send[w]
      /\ send[u].pc # "stored" /\ send'[u].pc # "stored"
  BY DEF Chat!TakeMessage, Chat!InsertMessage, Basis, Typed, SendShape
<1>2. Chat!Stored' = Chat!Stored /\ \A m \in Chat!Stored : msgs'[m] = msgs[m]
  <2>1. CASE Chat!TakeMessage(u)
    BY <2>1, Frame DEF Chat!TakeMessage
  <2>2. CASE Chat!InsertMessage(u)
    <3>1. Chat!Clock + 1 \in Chat!Messages /\ Chat!Clock + 1 \notin Created
      BY <2>2, OwnFacts, Parameters DEF Chat!InsertMessage, Chat!Messages, Basis, Counted
    <3>2. /\ msgs'[Chat!Clock + 1].state = "open"
          /\ \A m \in Chat!Messages \ {Chat!Clock + 1} : msgs'[m] = msgs[m]
      BY <2>2, <3>1 DEF Chat!InsertMessage, Basis, Typed
    <3>3. QED BY <3>1, <3>2 DEF Chat!Stored, Chat!InState, Created
  <2>3. QED BY <2>1, <2>2
<1>3. \A w \in Users : send'[w].number \notin Chat!Stored' <=> send[w].number \notin Chat!Stored
  <2>1. send[u].number \notin Chat!Stored
    BY <1>1, Under
  <2>2. send'[u].number \notin Chat!Stored'
    <3>1. Sent(u)' /\ 0 \notin Chat!Stored'
      BY Parameters DEF Basis, Chat!Stored, Chat!InState, Chat!Messages
    <3>2. QED BY <1>1, <3>1, OwnFacts DEF Sent, Chat!Stored, Chat!InState
  <2>3. QED BY <1>1, <1>2, <2>1, <2>2
<1>4. \A t : Typing(t)' = Typing(t) /\ OnItsWay(t)' = OnItsWay(t) /\ Kept(t)' = Kept(t)
  BY <1>1, <1>2, <1>3 DEF Typing, OnItsWay, Kept
<1>5. QED BY <1>1, <1>4, TextsKept

LEMMA AnsweredTexts ==
  ASSUME Basis, AllAccounted, NEW u \in Users, Chat!SendAnswered(u) PROVE AllAccounted'
<1>1. /\ UNCHANGED <<msgs, typed, copies, lost>>
      /\ send'[u] = Chat!NoSend /\ \A w \in Users \ {u} : send'[w] = send[w]
      /\ send[u].pc = "stored"
  BY DEF Chat!SendAnswered, Basis, Typed
<1>2. \A w \in Users : screen'[w].composer = screen[w].composer
  BY DEF Chat!SendAnswered, Basis, Typed, ScreenShape
<1>3. Chat!Stored' = Chat!Stored
  BY <1>1, Frame
<1>4. ASSUME NEW t \in 1 .. typed
      PROVE  Typing(t)' = Typing(t) /\ OnItsWay(t)' = OnItsWay(t) /\ Kept(t)' = Kept(t)
  <2>1. t # 0
    BY OwnFacts
  <2>2. u \notin OnItsWay(t)
    BY <1>1, Under DEF OnItsWay
  <2>3. u \notin OnItsWay(t)'
    BY <1>1, <2>1 DEF OnItsWay, Chat!NoSend
  <2>4. OnItsWay(t)' = OnItsWay(t)
    BY <1>1, <1>3, <2>2, <2>3 DEF OnItsWay
  <2>5. QED BY <1>1, <1>2, <1>3, <2>4 DEF Typing, Kept
<1>5. QED BY <1>1, <1>4, TextsKept

LEMMA LeaveTexts ==
  ASSUME Basis, AllAccounted, NEW u \in Users, Chat!Leave(u) PROVE AllAccounted'
<1>1. /\ UNCHANGED <<msgs, typed, copies>> /\ Chat!Stored' = Chat!Stored
      /\ lost' = lost \cup ({screen[u].composer} \ {0})
      /\ \A w \in Users : send'[w].text = send[w].text /\ send'[w].number = send[w].number
      /\ screen'[u] = Chat!NoScreen /\ \A w \in Users \ {u} : screen'[w] = screen[w]
  BY Frame DEF Chat!Leave, Basis, Typed, SendShape
<1>2. SUFFICES ASSUME NEW t \in 1 .. typed PROVE Accounted(t)'
  BY <1>1 DEF AllAccounted
<1>3. t # 0 /\ t \in Chat!Texts /\ copies[t] \in Nat /\ Accounted(t)
  <2>1. Accounted(t)
    BY DEF AllAccounted
  <2>2. copies \in [Chat!Texts -> Nat] /\ typed \in Nat /\ typed <= MaxTexts /\ MaxTexts \in Nat
    BY OwnFacts, Parameters DEF Typed
  <2>3. t # 0 /\ t \in Chat!Texts
    BY <2>2 DEF Chat!Texts
  <2>4. QED BY <2>1, <2>2, <2>3
<1>4. OnItsWay(t)' = OnItsWay(t) /\ Kept(t)' = Kept(t) /\ Typing(t)' = Typing(t) \ {u}
  BY <1>1, <1>3 DEF OnItsWay, Kept, Typing, Chat!NoScreen
<1>5. /\ Chat!Places(t)' \in Nat /\ Chat!Places(t) \in Nat
      /\ Chat!Places(t)' + Unit(u \in Typing(t)) = Chat!Places(t)
  <2>1. /\ Chat!Places(t)' \in Nat /\ Chat!Places(t) \in Nat
        /\ Chat!Places(t)' + Unit(u \in Typing(t)) + Unit(u \in OnItsWay(t)) + Unit(0 \in Kept(t))
            = Chat!Places(t) + Unit(u \in Typing(t)') + Unit(u \in OnItsWay(t)') + Unit(0 \in Kept(t)')
    BY <1>4, PlacesMove
  <2>2. u \notin Typing(t)'
    BY <1>4
  <2>3. QED BY <1>4, <2>1, <2>2 DEF Unit
<1>6. u \in Typing(t) => t \in lost'
  BY <1>1, <1>3 DEF Typing
<1>7. QED BY <1>1, <1>3, <1>5, <1>6 DEF Accounted, Unit

LEMMA TypeTexts ==
  ASSUME Basis, AllAccounted, NEW u \in Users, Chat!Type(u) PROVE AllAccounted'
<1>1. /\ UNCHANGED <<msgs, send, copies, lost>> /\ Chat!Stored' = Chat!Stored
      /\ typed' = typed + 1 /\ screen[u].composer = 0 /\ typed < MaxTexts
      /\ screen'[u].composer = typed + 1 /\ \A w \in Users \ {u} : screen'[w] = screen[w]
  BY Frame DEF Chat!Type, Basis, Typed, ScreenShape
<1>2. typed \in Nat
  BY OwnFacts
<1>3. SUFFICES ASSUME NEW t \in 1 .. typed + 1 PROVE Accounted(t)'
  BY <1>1 DEF AllAccounted
<1>4. OnItsWay(t)' = OnItsWay(t) /\ Kept(t)' = Kept(t)
  BY <1>1 DEF OnItsWay, Kept
<1>5. CASE t # typed + 1
  <2>1. Typing(t)' = Typing(t)
    BY <1>1, <1>5 DEF Typing
  <2>2. Chat!Places(t)' = Chat!Places(t)
    BY <1>4, <2>1 DEF Chat!Places, Typing, OnItsWay, Kept
  <2>3. Accounted(t)
    BY <1>2, <1>5 DEF AllAccounted
  <2>4. QED BY <1>1, <2>2, <2>3 DEF Accounted
<1>6. CASE t = typed + 1
  <2>1. Typing(t) = {} /\ OnItsWay(t) = {} /\ Kept(t) = {}
    <3>1. \A w \in Users : screen[w].composer <= typed /\ send[w].text <= typed
      BY <1>2, OwnFacts DEF OnScreen, Sent
    <3>2. \A m \in Chat!Messages : msgs[m].text <= typed
      BY DEF Basis
    <3>3. ~ (t <= typed)
      BY <1>2, <1>6
    <3>4. QED BY <3>1, <3>2, <3>3 DEF Typing, OnItsWay, Kept, Chat!Stored, Chat!InState
  <2>2. Typing(t)' \ {u} = Typing(t) \ {u} /\ u \in Typing(t)'
    BY <1>1, <1>6 DEF Typing
  <2>3. Chat!Places(t) = 0
    BY <2>1, FS_EmptySet, PlacesFinite
  <2>4. /\ Chat!Places(t)' \in Nat
        /\ Chat!Places(t)' + Unit(u \in Typing(t)) + Unit(u \in OnItsWay(t)) + Unit(0 \in Kept(t))
            = Chat!Places(t) + Unit(u \in Typing(t)') + Unit(u \in OnItsWay(t)') + Unit(0 \in Kept(t)')
    BY <1>4, <2>2, PlacesMove
  <2>5. Chat!Places(t)' = 1
    BY <1>4, <2>1, <2>2, <2>3, <2>4 DEF Unit
  <2>6. copies[t] \in Nat
    BY <1>1, <1>2, <1>6, OwnFacts, Parameters DEF Typed, Chat!Texts
  <2>7. QED BY <1>1, <2>5, <2>6 DEF Accounted
<1>7. QED BY <1>5, <1>6

LEMMA SendTexts ==
  ASSUME Basis, AllAccounted, NEW u \in Users, Chat!SendMessage(u) PROVE AllAccounted'
<1>1. /\ UNCHANGED <<msgs, typed, copies, lost>> /\ Chat!Stored' = Chat!Stored
      /\ send[u].pc = "idle" /\ send'[u].text = screen[u].composer /\ send'[u].number = 0
      /\ screen'[u].composer = 0
      /\ \A w \in Users \ {u} : screen'[w] = screen[w] /\ send'[w] = send[w]
  BY Frame DEF Chat!SendMessage, Basis, Typed, ScreenShape, SendShape, Chat!NoSend
<1>2. SUFFICES ASSUME NEW t \in 1 .. typed PROVE Accounted(t)'
  BY <1>1 DEF AllAccounted
<1>3. t # 0 /\ Accounted(t) /\ send[u].text = 0
  BY <1>1, OwnFacts DEF AllAccounted, Sent
<1>4. /\ Typing(t)' \ {u} = Typing(t) \ {u} /\ OnItsWay(t)' \ {u} = OnItsWay(t) \ {u}
      /\ Kept(t)' = Kept(t)
  BY <1>1 DEF OnItsWay, Kept, Typing
<1>5. /\ u \notin Typing(t)' /\ u \notin OnItsWay(t)
      /\ u \in OnItsWay(t)' <=> u \in Typing(t)
  BY <1>1, <1>3, Under DEF OnItsWay, Typing
<1>6. /\ Chat!Places(t)' \in Nat /\ Chat!Places(t) \in Nat
      /\ Chat!Places(t)' + Unit(u \in Typing(t)) + Unit(u \in OnItsWay(t)) + Unit(0 \in Kept(t))
          = Chat!Places(t) + Unit(u \in Typing(t)') + Unit(u \in OnItsWay(t)') + Unit(0 \in Kept(t)')
  BY <1>4, PlacesMove
<1>7. Chat!Places(t)' = Chat!Places(t)
  BY <1>4, <1>5, <1>6 DEF Unit
<1>8. QED BY <1>1, <1>3, <1>7 DEF Accounted

LEMMA CommitTexts ==
  ASSUME Basis, AllAccounted, NEW u \in Users, Chat!CommitMessage(u) PROVE AllAccounted'
<1> DEFINE n == send[u].number
<1>1. /\ UNCHANGED <<screen, typed, copies, lost>> /\ send[u].pc = "update"
      /\ msgs' = [msgs EXCEPT ![n].state = "stored"]
      /\ send'[u].text = send[u].text /\ send'[u].number = n
      /\ \A w \in Users \ {u} : send'[w] = send[w]
  BY DEF Chat!CommitMessage, Basis, Typed, SendShape
<1>2. /\ n \in Chat!Messages /\ msgs'[n].state = "stored" /\ msgs[n].state = "open"
      /\ msgs'[n].text = send[u].text /\ msgs[n].text = send[u].text
      /\ \A m \in Chat!Messages \ {n} : msgs'[m] = msgs[m]
  <2>1. "stored" \in {"stored", "aborted"} /\ typed' = typed
    BY <1>1
  <2>2. QED BY <1>1, <2>1, Restated
<1>3. Chat!Stored' = Chat!Stored \cup {n} /\ n \notin Chat!Stored
  BY <1>2 DEF Chat!Stored, Chat!InState
<1>4. \A w \in Users \ {u} : send[w].number # n
  <2>1. ASSUME NEW w \in Users \ {u}, send[w].number = n PROVE FALSE
    <3>1. Sent(u) /\ Sent(w)
      BY OwnFacts
    <3>2. n # 0 /\ msgs[n].by = u
      BY <1>1, <1>2, <3>1, Parameters DEF Chat!Messages, Sent
    <3>3. msgs[n].by = w
      BY <2>1, <3>1, <3>2 DEF Sent
    <3>4. QED BY <3>2, <3>3
  <2>2. QED BY <2>1
<1>5. SUFFICES ASSUME NEW t \in 1 .. typed PROVE Accounted(t)'
  BY <1>1 DEF AllAccounted
<1>6. /\ Typing(t)' = Typing(t) /\ OnItsWay(t)' \ {u} = OnItsWay(t) \ {u}
      /\ Kept(t)' \ {n} = Kept(t) \ {n}
  BY <1>1, <1>2, <1>3, <1>4 DEF OnItsWay, Kept, Typing
<1>7. /\ u \in OnItsWay(t) <=> t = send[u].text
      /\ u \notin OnItsWay(t)'
      /\ n \notin Kept(t)
      /\ n \in Kept(t)' <=> t = send[u].text
  BY <1>1, <1>2, <1>3 DEF OnItsWay, Kept
<1>8. /\ Chat!Places(t)' \in Nat /\ Chat!Places(t) \in Nat
      /\ Chat!Places(t)' + Unit(u \in Typing(t)) + Unit(u \in OnItsWay(t)) + Unit(n \in Kept(t))
          = Chat!Places(t) + Unit(u \in Typing(t)') + Unit(u \in OnItsWay(t)') + Unit(n \in Kept(t)')
  BY <1>6, PlacesMove
<1>9. Chat!Places(t)' = Chat!Places(t)
  BY <1>6, <1>7, <1>8 DEF Unit
<1>10. Accounted(t)
  BY DEF AllAccounted
<1>11. QED BY <1>1, <1>9, <1>10 DEF Accounted

\* A text that is taken back; one that had been stored is doubled.
LEMMA TakenBackTexts ==
  ASSUME Basis, AllAccounted, NEW u \in Users, send[u].pc # "idle", Chat!TakeBack(u), typed' = typed,
         Chat!Stored' = Chat!Stored, \A m \in Chat!Stored : msgs'[m].text = msgs[m].text,
         copies' = IF send[u].pc = "stored" THEN [copies EXCEPT ![send[u].text] = @ + 1] ELSE copies
  PROVE  AllAccounted'
<1> DEFINE s == send[u].text
           c == screen[u].composer
<1>1. SUFFICES ASSUME NEW t \in 1 .. typed PROVE Accounted(t)'
  BY DEF AllAccounted
<1>2. /\ t # 0 /\ t \in Chat!Texts /\ copies[t] \in Nat /\ Accounted(t)
      /\ copies'[t] = copies[t] + Unit(send[u].pc = "stored" /\ t = s)
  <2>1. Accounted(t) /\ copies \in [Chat!Texts -> Nat] /\ typed \in Nat /\ typed <= MaxTexts
    BY OwnFacts DEF Typed, AllAccounted
  <2>2. t # 0 /\ t \in Chat!Texts
    BY <2>1, Parameters DEF Chat!Texts
  <2>3. QED BY <2>1, <2>2 DEF Unit
<1>3. /\ send'[u] = Chat!NoSend
      /\ screen'[u].composer = IF send[u].gone THEN c ELSE s
      /\ \A w \in Users \ {u} : screen'[w] = screen[w] /\ send'[w] = send[w]
  BY TakenBack
<1>4. /\ Typing(t)' \ {u} = Typing(t) \ {u} /\ OnItsWay(t)' \ {u} = OnItsWay(t) \ {u}
      /\ Kept(t)' = Kept(t)
  BY <1>3 DEF OnItsWay, Kept, Typing
<1>5. /\ Chat!Places(t)' \in Nat /\ Chat!Places(t) \in Nat
      /\ Chat!Places(t)' + Unit(u \in Typing(t)) + Unit(u \in OnItsWay(t)) + Unit(0 \in Kept(t))
          = Chat!Places(t) + Unit(u \in Typing(t)') + Unit(u \in OnItsWay(t)') + Unit(0 \in Kept(t)')
  BY <1>4, PlacesMove
<1>6. /\ u \in Typing(t) <=> c = t
      /\ u \in OnItsWay(t) <=> s = t /\ send[u].pc # "stored"
      /\ u \notin OnItsWay(t)'
      /\ u \in Typing(t)' <=> IF send[u].gone THEN c = t ELSE s = t
  BY <1>2, <1>3, Under DEF Typing, OnItsWay, Chat!NoSend
<1>7. /\ lost \subseteq lost'
      /\ t = (IF send[u].gone THEN s ELSE c) => t \in lost'
  BY <1>2 DEF Chat!TakeBack
<1>8. CASE send[u].gone
  <2>1. Chat!Places(t)' + Unit(s = t /\ send[u].pc # "stored") = Chat!Places(t)
    BY <1>4, <1>5, <1>6, <1>8 DEF Unit
  <2>2. QED BY <1>2, <1>5, <1>7, <1>8, <2>1 DEF Accounted, Unit
<1>9. CASE ~ send[u].gone
  <2>1. Chat!Places(t)' + Unit(c = t) + Unit(s = t /\ send[u].pc # "stored") = Chat!Places(t) + Unit(s = t)
    BY <1>4, <1>5, <1>6, <1>9 DEF Unit
  <2>2. QED BY <1>2, <1>5, <1>7, <1>9, <2>1 DEF Accounted, Unit
<1>10. QED BY <1>8, <1>9

LEMMA FailTexts ==
  ASSUME Basis, AllAccounted, NEW u \in Users, Chat!SendRefused(u) \/ Chat!SendFails(u) PROVE AllAccounted'
<1>1. CASE Chat!SendRefused(u)
  <2>1. Chat!Stored' = Chat!Stored
    BY <1>1, Frame DEF Chat!SendRefused
  <2>2. QED BY <1>1, <2>1, TakenBackTexts DEF Chat!SendRefused
<1>2. CASE Chat!SendFails(u)
  <2>1. /\ send[u].pc # "idle" /\ Chat!TakeBack(u) /\ typed' = typed
        /\ msgs' = IF send[u].pc = "update" THEN [msgs EXCEPT ![send[u].number].state = "aborted"] ELSE msgs
        /\ copies' = IF send[u].pc = "stored" THEN [copies EXCEPT ![send[u].text] = @ + 1] ELSE copies
    BY <1>2 DEF Chat!SendFails
  <2>2. Chat!Stored' = Chat!Stored /\ \A m \in Chat!Stored : msgs'[m].text = msgs[m].text
    <3>1. CASE send[u].pc # "update"
      BY <2>1, <3>1, Frame
    <3>2. CASE send[u].pc = "update"
      <4> DEFINE n == send[u].number
      <4>1. /\ msgs'[n].state = "aborted" /\ msgs[n].state = "open"
            /\ \A m \in Chat!Messages \ {n} : msgs'[m] = msgs[m]
        <5>1. msgs' = [msgs EXCEPT ![n].state = "aborted"] /\ typed' = typed
          BY <2>1, <3>2
        <5>2. "aborted" \in {"stored", "aborted"}
          OBVIOUS
        <5>3. QED BY <3>2, <5>1, <5>2, Restated
      <4>2. QED BY <4>1 DEF Chat!Stored, Chat!InState
    <3>3. QED BY <3>1, <3>2
  <2>3. QED BY <2>1, <2>2, TakenBackTexts
<1>3. QED BY <1>1, <1>2

LEMMA TextsStep ==
  ASSUME Basis, Basis', AllAccounted, [Chat!Next]_Chat!vars PROVE AllAccounted'
<1>1. CASE UNCHANGED Chat!vars
  BY <1>1, QuietTexts DEF Chat!vars
<1>2. ASSUME NEW u \in Users, Chat!Act(u) PROVE AllAccounted'
  BY <1>2, ScreenTexts, TakeTexts, AnsweredTexts, LeaveTexts, TypeTexts, SendTexts, CommitTexts, FailTexts
     DEF Chat!Act, Chat!Sending
<1>3. QED BY <1>1, <1>2 DEF Chat!Next

\* What was typed is on the screen, on its way, stored or given up, and in two
\* places only after an answer was lost, for any number of texts and failures.
THEOREM TextsSound == ChatSpec => []TextsAreSound
<1>1. Chat!Init => Basis /\ AllAccounted
  BY BasisInit, OwnFacts DEF Chat!Init, AllAccounted
<1>2. Basis /\ AllAccounted /\ [Chat!Next]_Chat!vars => (Basis /\ AllAccounted)'
  BY BasisStep, TextsStep
<1>3. Basis /\ AllAccounted => TextsAreSound
  BY BasisTyped DEF AllAccounted, Accounted, TextsAreSound, Chat!TextsAreSound, Chat!TextsAreAccounted
<1>4. QED BY <1>1, <1>2, <1>3, PTL DEF ChatSpec, Chat!Spec
=============================================================================
