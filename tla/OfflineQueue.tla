----------------------------- MODULE OfflineQueue -----------------------------
(***************************************************************************)
(* The offline queue of the mobile app: what its user submits without a    *)
(* connection is kept in memory and on the disk, and flushed when the      *)
(* connection or the app comes back.  A flush works on the queue as it was *)
(* at its start and writes back what is left of that; several may run, and *)
(* users enqueue, sign out and in, and the app is killed meanwhile.  Every *)
(* write of the memory starts the write of the disk at once: they differ   *)
(* only until the disk has been read.  The server is modelled from its     *)
(* answers.                                                                *)
(***************************************************************************)
EXTENDS Naturals, FiniteSets

CONSTANTS
  Users,        \* users of the device, one after the other
  Items,        \* what they submit
  Owner,        \* whose each item is
  Leads,        \* items that create a lead and upload its attachments; others are one call
  Plans,        \* sets of items: those of one of them are submitted
  Rival,        \* pairs <<new, old>> of items with one dedupeKey
  Flushes,      \* flushes that may run at once
  MaxSessions,  \* bound on the times somebody signs in
  MaxFaults,    \* bound on lost answers, failures after a creation, and kills
  MaxCredit     \* bound on the repetitions of an item that are granted ahead: no
                \* fewer than the flushes, each of which may submit it

Nobody == "nobody"

ASSUME QueueAssumption ==
  /\ Nobody \notin Users
  /\ Owner \in [Items -> Users] /\ Leads \subseteq Items /\ Plans \subseteq SUBSET Items
  /\ Rival \subseteq Items \X Items
  /\ MaxSessions \in Nat /\ MaxFaults \in Nat /\ MaxCredit \in Nat \ {0}
  /\ IsFiniteSet(Flushes) /\ Cardinality(Flushes) <= MaxCredit

VARIABLES
  user,      \* who is signed in, and whether the sign-out has begun
  queue,     \* the items in memory
  disk,      \* the items on the disk, AsyncStorage offline_queue
  reading,   \* hydrate in progress, and what it has read
  flush,     \* the flushes
  fresh,     \* items not submitted yet
  credit,    \* times the server may take an item: once, and again for each reason
  repeated,  \* items it took without a reason
  settled,   \* items that were done, superseded or cleared, or refused to their user,
             \* and those lost in a race: enqueued under a flush or hydrate that held
             \* an older queue, or on the disk and unknown to a write of the memory
  sessions, faults

vars == <<user, queue, disk, reading, flush, fresh, credit, repeated, settled,
          sessions, faults>>

-----------------------------------------------------------------------------
(* Shapes *)

Queue == [Items -> {"out", "ready", "stuck"}]
Empty == [i \in Items |-> "out"]
NoFlush == [pc |-> "idle", todo |-> {}, next |-> Empty, made |-> {}, late |-> FALSE]
NoReading == [on |-> FALSE, queue |-> Empty]

TypeOK ==
  /\ user \in [id : Users \cup {Nobody}, leaving : BOOLEAN]
  /\ queue \in Queue /\ disk \in Queue
  /\ reading \in [on : BOOLEAN, queue : Queue]
  /\ flush \in [Flushes -> [pc : {"idle", "run"}, todo : SUBSET Items, next : Queue,
                            made : SUBSET Leads, late : BOOLEAN]]
  /\ \A f \in Flushes : \A i \in flush[f].todo : flush[f].next[i] = "out"
  /\ fresh \subseteq Items /\ settled \subseteq Items /\ repeated \subseteq Items
  /\ credit \in [Items -> 0 .. MaxCredit]
  /\ sessions \in 0 .. MaxSessions /\ faults \in 0 .. MaxFaults

Init ==
  /\ user = [id |-> Nobody, leaving |-> FALSE]
  /\ queue = Empty /\ disk = Empty
  /\ reading = [on |-> TRUE, queue |-> Empty]
  /\ flush = [f \in Flushes |-> NoFlush]
  /\ fresh \in Plans /\ settled = Items \ fresh /\ repeated = {}
  /\ credit = [i \in Items |-> 1]
  /\ sessions = 0 /\ faults = 0

Running == {f \in Flushes : flush[f].pc = "run"}
Fault == faults < MaxFaults /\ faults' = faults + 1

\* Items on the disk that the memory has not read yet: a write loses them.
Unread == {i \in Items : disk[i] # "out" /\ queue[i] = "out"}

\* Memory and disk become `next`; the items of `gone` need not be kept.
Save(next, gone) ==
  /\ queue' = next /\ disk' = next
  /\ settled' = settled \cup Unread \cup gone

Grant(items) ==
  credit' = [i \in Items |->
    IF i \in items /\ credit[i] < MaxCredit THEN credit[i] + 1 ELSE credit[i]]

\* The server takes item i as often as the step calls it; all but the first
\* time need their reasons.  The cookies of a session outlive it on the device
\* when the sign-out did not reach the server.
Take(i, calls, reasons) ==
  /\ credit' = [credit EXCEPT ![i] = IF @ + reasons < calls THEN 0 ELSE @ + reasons - calls]
  /\ repeated' = IF credit[i] + reasons < calls THEN repeated \cup {i} ELSE repeated

-----------------------------------------------------------------------------
(* The screens *)

\* enqueue: a new item takes the place of one with its key.  What a flush or
\* hydrate writes back afterwards does not know the item.
Enqueue(i) ==
  LET rivals == {old \in Items : <<i, old>> \in Rival /\ queue[old] # "out"} IN
  Save([j \in Items |-> IF j = i THEN "ready" ELSE IF j \in rivals THEN "out" ELSE queue[j]],
       rivals \cup IF Running # {} \/ reading.on THEN {i} ELSE {})

Submittable(i) ==
  /\ i \in fresh /\ user.id = Owner[i]
  /\ \A old \in Items : <<i, old>> \in Rival => old \notin fresh

\* Without a connection, or when the failure says the connection is bad.
SubmitOffline(i) ==
  /\ Submittable(i)
  /\ fresh' = fresh \ {i}
  /\ Enqueue(i)
  /\ UNCHANGED <<user, reading, flush, credit, repeated, sessions, faults>>

\* onSubmit with a connection: taken, or refused to the user, who knows.
SubmitOnline(i) ==
  /\ Submittable(i)
  /\ fresh' = fresh \ {i} /\ settled' = settled \cup {i}
  /\ \/ Take(i, 1, 0)
     \/ UNCHANGED <<credit, repeated>>
  /\ UNCHANGED <<user, queue, disk, reading, flush, sessions, faults>>

\* The answer is lost with the connection, and the item is queued all the same.
SubmitLost(i) ==
  /\ Submittable(i) /\ Fault
  /\ fresh' = fresh \ {i}
  /\ Take(i, 1, 1)
  /\ Enqueue(i)
  /\ UNCHANGED <<user, reading, flush, sessions>>

-----------------------------------------------------------------------------
(* flush *)

\* Items of other users stay untouched, those that cannot be retried failed.
Mine(i) == queue[i] = "ready" /\ Owner[i] = user.id

\* On a connection, or when the app becomes active: with the queue as it is.
\* An item that another flush has in its hands is submitted by both.
StartFlush(f) ==
  LET todo == {i \in Items : Mine(i)} IN
  /\ flush[f].pc = "idle" /\ user.id # Nobody
  /\ flush' = [flush EXCEPT ![f] = [pc |-> "run", todo |-> todo,
        next |-> [i \in Items |-> IF i \in todo THEN "out" ELSE queue[i]], made |-> {},
        late |-> FALSE]]
  /\ Grant(IF Running # {} THEN todo ELSE {})
  /\ settled' = settled \cup Unread
  /\ UNCHANGED <<user, queue, disk, reading, fresh, repeated, sessions, faults>>

\* The flush is done with item i, and keeps it as `left`.
Past(f, i, left) ==
  flush' = [flush EXCEPT ![f].todo = @ \ {i}, ![f].next[i] = left]

Current(f, i) == flush[f].pc = "run" /\ i \in flush[f].todo

\* MUTANT of ItemDone: what is submitted stays in the queue.
ItemDoneAndKept(f, i) ==
  /\ Current(f, i) /\ (i \in Leads => i \in flush[f].made)
  /\ IF i \in Leads THEN UNCHANGED <<credit, repeated>> ELSE Take(i, 1, 0)
  /\ Past(f, i, "ready")
  /\ settled' = settled \cup {i}
  /\ UNCHANGED <<user, queue, disk, reading, fresh, sessions, faults>>

\* POST /transition or PUT /customer-details, or the last upload of a lead.
ItemDone(f, i) ==
  /\ Current(f, i) /\ (i \in Leads => i \in flush[f].made)
  /\ IF i \in Leads THEN UNCHANGED <<credit, repeated>> ELSE Take(i, 1, 0)
  /\ Past(f, i, "out")
  /\ settled' = settled \cup {i}
  /\ UNCHANGED <<user, queue, disk, reading, fresh, sessions, faults>>

\* createLeadWithRoleFallback: POST /leads, or POST /public/leads after a
\* refusal; the uploads are still to come.
CreateLead(f, i) ==
  /\ Current(f, i) /\ i \in Leads \ flush[f].made
  /\ Take(i, 1, 0)
  /\ flush' = [flush EXCEPT ![f].made = @ \cup {i}]
  /\ UNCHANGED <<user, queue, disk, reading, fresh, settled, sessions, faults>>

\* A failure after the lead was created answers 5xx, and the lead is created
\* by the public form again.
CreateLeadTwice(f, i) ==
  /\ Current(f, i) /\ i \in Leads \ flush[f].made /\ Fault
  /\ Take(i, 2, 1)
  /\ flush' = [flush EXCEPT ![f].made = @ \cup {i}]
  /\ UNCHANGED <<user, queue, disk, reading, fresh, settled, sessions>>

\* MUTANT of ItemRefused: what is refused is given up.
ItemGivenUp(f, i) ==
  /\ Current(f, i)
  /\ Past(f, i, "out")
  /\ Grant(IF i \in flush[f].made THEN {i} ELSE {})
  /\ UNCHANGED <<user, queue, disk, reading, fresh, repeated, settled, sessions,
                 faults>>

\* A call fails: for good (4xx, the file is gone) or not.  The whole item is
\* kept, the creation of its lead with it.
ItemRefused(f, i) ==
  /\ Current(f, i)
  /\ \E left \in {"ready", "stuck"} : Past(f, i, left)
  /\ Grant(IF i \in flush[f].made THEN {i} ELSE {})
  /\ UNCHANGED <<user, queue, disk, reading, fresh, repeated, settled, sessions,
                 faults>>

\* The server takes the call and the answer is lost.
AnswerLost(f, i) ==
  /\ Current(f, i) /\ i \notin flush[f].made /\ Fault
  /\ Take(i, 1, 1)
  /\ Past(f, i, "ready")
  /\ UNCHANGED <<user, queue, disk, reading, fresh, settled, sessions>>

\* All items are past: what is left of the queue of the start is the queue.
\* What was superseded or cleared since the start is back.
EndFlush(f) ==
  /\ flush[f].pc = "run" /\ flush[f].todo = {}
  /\ Save(flush[f].next, {})
  /\ flush' = [flush EXCEPT ![f] = NoFlush]
  /\ Grant({i \in Items : queue[i] = "out" /\ flush[f].next[i] # "out"})
  /\ UNCHANGED <<user, reading, fresh, repeated, sessions, faults>>

-----------------------------------------------------------------------------
(* hydrate, sessions, and the end of the app *)

\* The queue is what was on the disk: what a flush took away since is back.
SetQueue ==
  /\ reading.on
  /\ queue' = reading.queue
  /\ reading' = NoReading
  /\ Grant({i \in Items : queue[i] = "out" /\ reading.queue[i] # "out"})
  /\ UNCHANGED <<user, disk, flush, fresh, repeated, settled, sessions, faults>>

\* hydrate asks for the queue of the disk: calls of the disk are answered in
\* their order.  Hydrations that overlap are one.
StartHydrate == reading' = [on |-> TRUE, queue |-> disk']

\* login or bootstrap; the effect of the app hydrates again for a new user.
SignIn ==
  /\ user.id = Nobody /\ sessions < MaxSessions
  /\ sessions' = sessions + 1
  /\ \E u \in Users : user' = [id |-> u, leaving |-> FALSE]
  /\ UNCHANGED <<queue, disk, flush, fresh, credit, repeated, settled, faults>>
  /\ StartHydrate

ClearByOwner(u) ==
  Save([i \in Items |-> IF Owner[i] = u THEN "out" ELSE queue[i]],
       {i \in Items : Owner[i] = u})

\* logout asks the server and clears the queue of the user ...
BeginSignOut ==
  /\ user.id # Nobody /\ ~ user.leaving
  /\ user' = [user EXCEPT !.leaving = TRUE]
  /\ ClearByOwner(user.id)
  /\ UNCHANGED <<reading, flush, fresh, credit, repeated, sessions, faults>>

\* ... and then the session is over for the app.
SignOut ==
  /\ user.leaving
  /\ user' = [id |-> Nobody, leaving |-> FALSE]
  /\ flush' = [f \in Flushes |-> [flush[f] EXCEPT !.late = flush[f].pc = "run"]]
  /\ UNCHANGED <<queue, disk, fresh, credit, repeated, settled, sessions, faults>>
  /\ StartHydrate

\* handleAuthFailure: the same at once, when the server has ended the session.
SessionLost ==
  /\ user.id # Nobody /\ ~ user.leaving /\ Fault
  /\ user' = [id |-> Nobody, leaving |-> FALSE]
  /\ ClearByOwner(user.id)
  /\ StartHydrate
  /\ flush' = [f \in Flushes |-> [flush[f] EXCEPT !.late = flush[f].pc = "run"]]
  /\ UNCHANGED <<fresh, credit, repeated, sessions>>

\* The app is killed; it starts with an empty memory and asks who its user is.
\* What a flush had done is still on the disk.
Kill ==
  /\ Fault
  /\ queue' = Empty
  /\ flush' = [f \in Flushes |-> NoFlush]
  /\ user' = [id |-> Nobody, leaving |-> FALSE]
  /\ Grant({i \in Items : disk[i] # "out" /\ credit[i] = 0})
  /\ UNCHANGED <<disk, fresh, repeated, settled, sessions>>
  /\ StartHydrate

Submit(i) == SubmitOffline(i) \/ SubmitOnline(i) \/ SubmitLost(i)

Work(f) ==
  \/ StartFlush(f) \/ EndFlush(f)
  \/ \E i \in Items :
        ItemDone(f, i) \/ CreateLead(f, i) \/ CreateLeadTwice(f, i) \/ ItemRefused(f, i)
        \/ AnswerLost(f, i)

Next ==
  \/ \E i \in Items : Submit(i)
  \/ \E f \in Flushes : Work(f)
  \/ SetQueue \/ SignIn \/ BeginSignOut \/ SignOut \/ SessionLost \/ Kill

Spec == Init /\ [][Next]_vars

-----------------------------------------------------------------------------
(* What the user may rely on *)

Held(i) ==
  \/ queue[i] # "out" \/ disk[i] # "out"
  \/ \E f \in Running : i \in flush[f].todo \/ flush[f].next[i] # "out"

\* What was queued is submitted or still in the queue: it is lost only when it
\* was enqueued under a flush or a hydrate that wrote back an older queue, or
\* when its owner signed out or a newer item took its place.
QueuedIsKept == \A i \in Items \ fresh : Held(i) \/ i \in settled

\* Of two versions of one update at most one waits, unless the newer one was
\* enqueued under a flush or a hydrate that held the older.  That is all: a newer
\* version that is submitted online replaces nothing, and an older one that
\* waits goes out after it.
OneVersionWaits ==
  \A pair \in Rival : Held(pair[1]) /\ Held(pair[2]) => pair[1] \in settled

\* The server takes an item once; every repetition has its reason: a lost
\* answer, an upload that failed after its lead, the public form after 5xx,
\* flushes that overlap, a queue of before that was written back, a kill.
RepeatsAreExplained == repeated = {}

\* What a flush has left to submit goes out in the session of its owner, unless
\* that session ended while the flush ran.
SubmittedByOwner ==
  \A f \in Running : flush[f].late \/ \A i \in flush[f].todo : Owner[i] = user.id

\* What goes out is repeated for a reason only and in the name of its owner, and
\* an update that is queued takes the place of its older versions.
SubmissionsAreSound ==
  TypeOK /\ RepeatsAreExplained /\ SubmittedByOwner /\ OneVersionWaits
=============================================================================
