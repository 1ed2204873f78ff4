---------------------------- MODULE CustomerForm ----------------------------
(***************************************************************************)
(* The customer details of one lead: PUT /:id/customer-details of          *)
(* routes/leads.ts, and CustomerDetailsScreen.tsx of the mobile app with   *)
(* its draft, its cached copy and what it puts into the offline queue.     *)
(* The texts of the form are one version number, counted as the executive  *)
(* types; the loan fields, which depend on each other, are kept apart.     *)
(***************************************************************************)
EXTENDS Integers

CONSTANTS
  Loans,       \* what the executive may choose: "yes", with an amount, or "no"
  MaxEdits,    \* bound on the versions the executive types
  MaxEvents    \* bound on requests of other clients, changes of the lead's
               \* status, lost answers and kills of the app, taken together

VARIABLES
  detail,   \* the row of customer_details
  closed,   \* the lead's status is terminal
  puts,     \* PUT requests, by who waits for the answer
  form,     \* the screen
  draft,    \* the draft on the device: none or one
  cache,    \* the cached answer on the device: none or one
  queue,    \* the queued update on the device: none or one
  typed,    \* the last version typed
  fate,     \* what has become of that version
  behind,   \* versions still on their way when a newer one was submitted
  events

device == <<form, draft, cache, queue>>
journal == <<typed, fate, behind>>
vars == <<detail, closed, puts, device, journal, events>>

-----------------------------------------------------------------------------
(* Shapes *)

Versions == 1 .. MaxEdits
Blank == 0    \* required texts are empty
Unsent == -1  \* the request leaves the texts out
Texts == Versions \cup {Blank}

Payload == [text : Versions \cup {Unsent}, loan : {"absent", "yes", "no"}, amount : BOOLEAN]
Detail == [text : Texts, loan : BOOLEAN, amount : BOOLEAN]

\* "phone" and "queue" are requests the device waits for, "stray" one whose
\* answer nobody waits for any more, "other" that of another client.
\* `overtaken`: what the request was checked with has changed since.
Slots == {"phone", "queue", "stray", "other"}
NoPut == [pc |-> "none"]
Put == [pc : {"sent", "read"}, payload : Payload, admin : BOOLEAN,
        overtaken : BOOLEAN]

NoForm == [pc |-> "closed"]
Form == [pc : {"open", "saving"}, text : Texts, signature : Texts, editable : BOOLEAN]

TypeOK ==
  /\ detail \in Detail /\ closed \in BOOLEAN
  /\ \A s \in Slots : puts[s] \in Put \cup {NoPut}
  /\ form \in Form \cup {NoForm}
  /\ {draft, cache, queue} \subseteq SUBSET Texts
  /\ typed \in Texts /\ fate \in {"kept", "stored", "given up"}
  /\ behind \subseteq Versions

Init ==
  /\ \E loan \in BOOLEAN : detail = [text |-> Blank, loan |-> loan, amount |-> loan]
  /\ closed = FALSE
  /\ puts = [s \in Slots |-> NoPut]
  /\ form = NoForm
  /\ draft = {} /\ cache = {} /\ queue = {}
  /\ typed = 0 /\ fate = "stored" /\ behind = {}
  /\ events = 0

Happen == events < MaxEvents /\ events' = events + 1
Idle(s) == puts[s] = NoPut
Waits == form.pc = "saving"
Shown == form.pc # "closed"
The(S) == CHOOSE x \in S : TRUE

Request(text, loan, amount, admin) ==
  [pc |-> "sent", payload |-> [text |-> text, loan |-> loan, amount |-> amount],
   admin |-> admin, overtaken |-> FALSE]

Overtake(all) == [s \in Slots |-> IF all[s].pc = "read" THEN [all[s] EXCEPT !.overtaken = TRUE]
                                  ELSE all[s]]

-----------------------------------------------------------------------------
(* PUT /:id/customer-details *)

\* What is stored, for what the payload leaves out.
EffectiveText(p) == IF p.text = Unsent THEN detail.text ELSE p.text
EffectiveLoan(p) == IF p.loan = "absent" THEN detail.loan ELSE p.loan = "yes"
EffectiveAmount(p) == p.amount \/ detail.amount

\* MUTANT of Complete: the amount is not asked for.
CompleteTexts(p) == EffectiveText(p) # Blank

Complete(p) ==
  /\ EffectiveText(p) # Blank
  /\ EffectiveLoan(p) => EffectiveAmount(p)

\* A terminal status locks the details for all but administrators.
Locked(put) == closed /\ ~ put.admin

\* The lead is read with its details, and the payload checked with them.
ReadLead(s) ==
  /\ puts[s].pc = "sent" /\ ~ Locked(puts[s]) /\ Complete(puts[s].payload)
  /\ puts' = [puts EXCEPT ![s].pc = "read"]
  /\ UNCHANGED <<detail, closed, device, journal, events>>

\* The upsert writes the fields of the payload alone; no loan clears the amount.
Upserted(p) ==
  [text |-> EffectiveText(p), loan |-> EffectiveLoan(p),
   amount |-> p.amount \/ (p.loan # "no" /\ detail.amount)]

\* The answer to the phone: the form, its signature and the cached copy become
\* what was saved, the draft is removed, and what was typed meanwhile is gone.
AnswerPhone(text) ==
  /\ form' = IF Waits THEN [form EXCEPT !.pc = "open", !.text = text, !.signature = text]
             ELSE form
  /\ draft' = {} /\ cache' = {text}
  /\ fate' = IF text = typed THEN "stored" ELSE "given up"
  /\ behind' = behind \cup ((draft \cup IF Shown THEN {form.text} ELSE {}) \cap Versions)
  /\ UNCHANGED queue

\* The flush ends and writes back what it had read: nothing of it is left, and
\* what was queued meanwhile is overwritten.
AnswerQueue(text) ==
  /\ queue' = {}
  /\ fate' = CASE text = typed -> "stored"
               [] typed \in queue -> "given up"
               [] OTHER -> fate
  /\ UNCHANGED <<form, draft, cache, behind>>

\* The details are written.
Upsert(s) ==
  /\ puts[s].pc = "read"
  /\ detail' = Upserted(puts[s].payload)
  /\ CASE s = "phone" -> AnswerPhone(detail'.text)
       [] s = "queue" -> AnswerQueue(detail'.text)
       [] OTHER -> /\ fate' = IF detail'.text = typed THEN "stored" ELSE fate
                   /\ UNCHANGED <<device, behind>>
  /\ puts' = LET rest == [puts EXCEPT ![s] = NoPut]
             IN IF detail' = detail THEN rest ELSE Overtake(rest)
  /\ UNCHANGED <<closed, typed, events>>

\* A 4xx answer: the lead is locked, the payload is not complete, or the site
\* photographs are too few or too many, which are not modelled here.  The screen
\* keeps what it shows; what the queue was refused is not sent again.
Refuse(s) ==
  /\ puts[s].pc = "sent"
  /\ form' = IF s = "phone" /\ Waits THEN [form EXCEPT !.pc = "open"] ELSE form
  /\ queue' = IF s = "queue" THEN {} ELSE queue
  /\ fate' = IF s = "queue" /\ typed \in queue \cup {puts[s].payload.text}
               THEN "given up" ELSE fate
  /\ puts' = [puts EXCEPT ![s] = NoPut]
  /\ UNCHANGED <<detail, closed, draft, cache, typed, behind, events>>

ChangeStatus ==
  /\ Happen
  /\ closed' = ~ closed
  /\ puts' = Overtake(puts)
  /\ UNCHANGED <<detail, device, journal>>

\* Another client of the API, which may leave every field out.
OtherSubmits ==
  /\ Idle("other") /\ Happen
  /\ \E loan \in {"absent", "yes", "no"}, admin \in BOOLEAN :
        puts' = [puts EXCEPT !["other"] = Request(Unsent, loan, FALSE, admin)]
  /\ UNCHANGED <<detail, closed, device, journal>>

-----------------------------------------------------------------------------
(* CustomerDetailsScreen *)

\* The draft goes on top of what is loaded, field by field.
OnTop(loaded) == IF draft = {} THEN loaded ELSE The(draft)

ShowForm(loaded) ==
  form' = [pc |-> "open", text |-> OnTop(loaded), signature |-> loaded, editable |-> ~ closed]

Load ==
  /\ ~ Shown
  /\ ShowForm(detail.text)
  /\ cache' = {detail.text}
  /\ UNCHANGED <<detail, closed, puts, draft, queue, journal, events>>

LoadCached ==
  /\ ~ Shown
  /\ \E text \in cache : ShowForm(text)
  /\ UNCHANGED <<detail, closed, puts, draft, cache, queue, journal, events>>

\* The inputs stay enabled while the form is being saved.
Type ==
  /\ Shown /\ form.editable /\ typed < MaxEdits
  /\ typed' = typed + 1 /\ fate' = "kept"
  /\ form' = [form EXCEPT !.text = typed']
  /\ UNCHANGED <<detail, closed, puts, draft, cache, queue, behind, events>>

\* 200 ms after a change, or when the app goes to the background.
PersistDraft ==
  /\ Shown
  /\ draft' = {form.text}
  /\ UNCHANGED <<detail, closed, puts, form, cache, queue, journal, events>>

\* Versions that the server may be working on, or may still get.
OnServer == {puts[s].payload.text : s \in {q \in {"phone", "queue", "stray"} : ~ Idle(q)}}
OnTheirWay == queue \cup OnServer

\* Older versions that may come after what is being submitted: the draft is not
\* removed before the answer.
Draft == draft \cap Versions

\* MUTANT of Submittable: a form that was not changed is submitted again.
SubmittableUnchanged ==
  /\ form.pc = "open" /\ form.editable
  /\ form.text # Blank

\* onSubmit: the checks of the form, which ends here when nothing has changed.
Submittable ==
  /\ form.pc = "open" /\ form.editable
  /\ form.text \notin {Blank, form.signature}

FromPhone(text, loan) == Request(text, loan, loan = "yes", FALSE)

SubmitOnline ==
  /\ Submittable /\ Idle("phone")
  /\ \E loan \in Loans : puts' = [puts EXCEPT !["phone"] = FromPhone(form.text, loan)]
  /\ form' = [form EXCEPT !.pc = "saving"]
  /\ behind' = behind \cup OnTheirWay \cup Draft
  /\ UNCHANGED <<detail, closed, draft, cache, queue, typed, fate, events>>

\* The queued version is typed over by an older one, of a stale draft say.
Overtyped == IF fate = "kept" /\ typed \in queue \ queue' THEN "given up" ELSE fate

\* The update takes the place of the queued one.
Enqueued(text) == {text}

SubmitOffline ==
  /\ Submittable
  /\ queue' = Enqueued(form.text)
  /\ form' = [form EXCEPT !.signature = form.text]
  /\ behind' = behind \cup OnServer \cup Draft
  /\ fate' = Overtyped
  /\ UNCHANGED <<detail, closed, puts, draft, cache, typed, events>>

\* The answer is lost, before or after the server has handled the request: the
\* update is queued.
LoseAnswer ==
  /\ ~ Idle("phone") /\ Idle("stray") /\ Happen
  /\ LET text == puts["phone"].payload.text IN
     /\ puts' = [puts EXCEPT !["phone"] = NoPut, !["stray"] = puts["phone"]]
     /\ queue' = Enqueued(text)
     /\ form' = IF Waits THEN [form EXCEPT !.pc = "open", !.signature = text] ELSE form
  /\ fate' = Overtyped
  /\ UNCHANGED <<detail, closed, draft, cache, typed, behind>>

\* handleManualReset.
ResetForm ==
  /\ Shown
  /\ form' = [form EXCEPT !.text = Blank]
  /\ draft' = {}
  /\ fate' = IF fate = "kept" /\ form.signature # typed THEN "given up" ELSE fate
  /\ UNCHANGED <<detail, closed, puts, cache, queue, typed, behind, events>>

\* What was typed less than 200 ms ago goes with the screen.
GoneWithScreen ==
  IF Shown /\ typed = form.text /\ typed \notin draft \cup {form.signature} /\ fate = "kept"
    THEN "given up" ELSE fate

Leave ==
  /\ Shown
  /\ form' = NoForm
  /\ fate' = GoneWithScreen
  /\ UNCHANGED <<detail, closed, puts, draft, cache, queue, typed, behind, events>>

\* flush sends what is queued, with the loan it was queued with.
StartFlush ==
  /\ Idle("queue")
  /\ \E text \in queue, loan \in Loans :
        puts' = [puts EXCEPT !["queue"] = FromPhone(text, loan)]
  /\ UNCHANGED <<detail, closed, device, journal, events>>

\* The answer of a flush is lost: what the flush had read is written back.
LoseFlush ==
  /\ ~ Idle("queue") /\ Idle("stray") /\ Happen
  /\ queue' = {puts["queue"].payload.text}
  /\ fate' = Overtyped
  /\ puts' = [puts EXCEPT !["queue"] = NoPut, !["stray"] = puts["queue"]]
  /\ UNCHANGED <<detail, closed, form, draft, cache, typed, behind>>

\* The app is killed: what the server works on goes on, the queue is kept.
Kill ==
  /\ Shown \/ ~ Idle("phone")
  /\ Idle("stray") /\ Happen
  /\ form' = NoForm
  /\ fate' = GoneWithScreen
  /\ puts' = [puts EXCEPT !["phone"] = NoPut, !["stray"] = puts["phone"]]
  /\ UNCHANGED <<detail, closed, draft, cache, queue, typed, behind>>

-----------------------------------------------------------------------------
Next ==
  \/ \E s \in Slots : ReadLead(s) \/ Upsert(s) \/ Refuse(s)
  \/ ChangeStatus \/ OtherSubmits
  \/ Load \/ LoadCached \/ Type \/ PersistDraft \/ SubmitOnline \/ SubmitOffline
  \/ LoseAnswer \/ ResetForm \/ Leave \/ StartFlush \/ LoseFlush \/ Kill

Spec == Init /\ [][Next]_vars

-----------------------------------------------------------------------------
(* What the form and its handler promise *)

\* A loan that is required has its amount.  The handler checks the payload with
\* what it read for the fields that are left out, so only a write between this
\* read and its own can leave a loan without an amount.
LoanHasAmountUnlessRaced ==
  [][detail'.loan /\ ~ detail'.amount /\ detail' # detail =>
       \E s \in Slots : puts[s].pc = "read" /\ puts[s].overtaken]_vars

\* The details of a lead in a terminal status are changed by administrators
\* alone, or by a request that had found the lead open.
ClosedDetailsUnlessRaced ==
  [][closed /\ detail' # detail =>
       \E s \in Slots : puts[s].pc = "read" /\ (puts[s].admin \/ puts[s].overtaken)]_vars

\* What the executive typed last is on the screen, in the draft, in the queue,
\* on its way or stored, unless it was given up: reset or left at once, typed
\* while an older version was being saved, refused, or overwritten in the queue
\* by a flush.
TypedIsKept ==
  fate = "kept" =>
    \/ Shown /\ form.text = typed
    \/ typed \in draft \cup OnTheirWay

\* An older version takes the place of a newer one on the server only when it
\* was still on its way, or still in the draft, when the newer one was sent.
NewerIsNotUndone ==
  [][detail'.text < detail.text => detail'.text \in behind]_vars

\* The server's checks of the details hold, but for requests that meet.
DetailsAreChecked == LoanHasAmountUnlessRaced /\ ClosedDetailsUnlessRaced
=============================================================================
