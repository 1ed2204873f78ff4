# Verification of the solar lead system

The repository is a lead management system for a solar installer: an Express
and Prisma API (`apps/api`), a web portal (`apps/web`), a React Native app for
field executives (`apps/mobile`) and shared types (`packages/shared`). This
directory holds TLA+ specifications of the parts of it whose correctness rests
on the order of things: requests that interleave between two awaits, webhooks
that come twice, a cache that is out of date, a server that restarts. `PROJECT.json`
lists the components, the runs, the source lines each definition stands for,
the hazards and the theorems; this file says how they fit together.

Run a check with `tlc -config X.cfg M`, a proof with `tlapm M.tla`.

## 1. Inventory

The API is one Node process (or several behind a balancer) over PostgreSQL.
A handler is a sequence of awaits; between two of them any other handler,
the SLA timer or a webhook may run. Transactions are Prisma's default, READ
COMMITTED. Only the transition and status-by-name caches and the `isRunning`
flag of the monitor live in the process; everything else is in the database.

| Component | State | Operations | What is hard | What makes it correct |
|---|---|---|---|---|
| Lead lifecycle (`routes/leads.ts`, automatic moves in `payments.ts`, `payment-webhooks.ts`, `lead-documents.ts`, `public-lead-submission.service.ts`) | `leads.current_status_id`, `lead_status_history` | create, transition, assign, reassign, four automatic moves, delete | read, check, write as separate awaits; unconditional update | timeline and status agree; every move justified; deletion final |
| Workflow configuration (`routes/lead-statuses.ts`, `lead-status.service.ts`, `workflow/page.tsx`) | statuses, their order, transitions, two caches | create, patch, reorder, edit transitions | caches not invalidated, reads before transactions, reorders that lock each other | cached answers are not invented; the order has no gap or repetition |
| Payments (`routes/payments.ts`) | `payments` | QR UTR submit, collect order, review | three checks before one insert; Razorpay call before the insert | one verified payment per lead; a review is final |
| Webhooks (`routes/payment-webhooks.ts`) | `payment_webhook_events`, `payments` | deliver | duplicates, reordering, restart between store and apply | events are processed; payments follow Razorpay |
| Documents (`routes/lead-documents.ts`, `routes/documents.ts`, `document-upload.ts`, `documents-review/page.tsx`) | `documents`, uploads on the phone, the desk's list and preview | upload, retry, queue, reset, delete, review | version race and retry, check-then-insert limit, stale lists and previews | one latest version, the highest; nothing replaced or doubled but for named reasons; no preview of another document |
| SLA monitor (`sla-overdue.service.ts`) | `is_overdue`, `overdue_at`, `isRunning` | mark, clear, repair, notify | snapshot written back one by one | a breach is flagged; stale flags go |
| Assignment and intake (`lead-assignment.service.ts`, `public.ts`, `leads.ts`, `users.ts`, `districts.ts`) | responsibles of the leads, mappings, advisory lock, connection pool | create, public form, assign, reassign, deactivate, delete a district | lock per district, counts and checks before writes, a second connection in a transaction | cap, responsibles were mapped, every request ends |
| Accounts (`users.ts`, `auth.ts`, `supabase-auth.service.ts`, `setup-password.service.ts`) | row of users, setup token, auth user of Supabase | create, setup, reset, login, change, status, profile | two systems, no transaction | the halves stay in step; a link is used once; a revocation lasts |
| Phone session (`auth-store.ts`, `App.tsx`, `services/api.ts`, `push-notifications.ts`) | store, cookies, sessions, push tokens | sign in, bootstrap, renew, sign out, register | effects, interceptor and sign-out overlap; calls are lost | who is shown is who acts and who gets pushes |
| Offline queue (`queue-store.ts`) | memory and AsyncStorage queue | enqueue, flush, hydrate, clear | a flush writes back its snapshot; flushes overlap | nothing lost, nothing twice, nothing under another name |
| Customer notifications (`notification.service.ts`, `notification.worker.ts`, `customer-communication-preferences.service.ts`) | `notification_logs`, BullMQ queue, opt-outs | queue, send, retry, opt out | send and log are two steps | the row tells the truth; an opt-out counts; each row is settled |
| Chat (`chat.ts`, `ChatThreadScreen.tsx`, `chat/page.tsx`) | conversation, read marks, messages | open, send, poll, mark | marks from old times, bubbles and loads cross | messages are shown before they count as read |
| Customer form (`leads.ts`, `CustomerDetailsScreen.tsx`) | `customer_details`, form, draft, cache, queue | load, type, submit | effective values from an old read; copies of different age | what was typed is kept; the server's checks hold |
| Districts (`districts.ts`, `districts.service.ts`, `users.ts`, two pages, a script) | `districts`, `user_district_assignments`, drafts of the pages | save staff, save user, delete, synchronise | whole lists written from old reads; deletion in three steps | nothing dropped unseen; a save leaves an active district a manager |
| Lists, dashboard, reports (`leads.ts`, `dashboard.ts`, `reports.ts` and their screens) | what a screen shows, cached list | read pages, read figures, act | reads at different moments | a screen lags by what changed; it does not act blindly |

Interactions: the lifecycle is moved by documents, payments, webhooks and
assignment, each in its own transaction; it resets the flag of the SLA monitor,
except on manual assignment; the workflow configuration is read by all of these
through the cache, except by the webhook, which asks the database. Intake uses
the mappings that the districts' pages write, and deactivation counts what
intake assigns. A change of status queues a customer notification. On the phone
the session decides in whose name the offline queue is flushed, and the queue
feeds the creation of leads, transitions, details and uploads.

## 2. Plan

All modules of the original plan exist. What is left: refinements of
`DocumentVersioning` and `LeadIntake` against abstract specifications, the
inactivity reminders of the SLA monitor, and several servers.

Modules that are proved about use no recursive operator, keep one action per
statement or await, and state their invariants as conjunctions of named parts.
A module that is composed with another for a run only (`PhoneSession` in
`MCAccounts`, `CustomerForm` in `MCLeadPapers`, `StatusWorkflow` in
`MCDirectory`) is instantiated there, with one at rest while the other moves: they
share no state, and one run explores both.

## 3. Modules

**StatusJournal** is what a lead's timeline promises without any handler: it is
created with one or two rows, grows by rows that leave a status the lead has
held, and is erased with the lead. The last row is the status.

**LeadLifecycle** is the code. One lead is enough, since leads share only the
workflow and the cache. `req[r]` holds a handler's locals between awaits:
what it read (`from`), what it wants (`to`), the answer of
`assertValidTransition` (`allowed`), and `override` for a Super Admin who leaves
a terminal status with a reason. `Start*` are the first reads of the handlers,
with their guards; `CheckHit`, `CheckMiss`, `CheckStore` are the awaits of
`assertValidTransition`, `CheckWebhook` the webhook's own query; `CommitMove`,
`CommitCreate`, `CommitCreateInNew` the writes; `Abandon` every way to end
without one. `AdminRead` and `AdminCommit` are the two halves of `POST
/transitions`. `everEdges` and `everTerminal` are history variables.
Abstracted: note texts, roles and access scope (a request that is not let in
never starts), notifications, audit rows, district and assignee.

**PaymentLedger** is the abstract ledger: payments are added pending, QR
payments are decided once, gateway payments may be decided again, and no lead
ever has two verified ones.

**PaymentVerification** is the code: `CheckVerified`, `CheckPending` and
`CheckUtr` are the queries before the insert of `createPendingQrUtrPayment`
(the last two run in parallel, in any order), `CollectRequest` and
`CreateGatewayRow` the two halves of a collect order, `ReviewLook` and
`ReviewWrite` the review transaction, `Deliver` ... `ApplyEvent` the webhook.
The notes of a collect request may name another lead than its own (the client's
are spread over it, `payments.ts:1185`), and `Matching` is what the webhook asks for: a payment
with one of the event's ids, or of the lead in its notes, the newest first. An event
that is applied leaves its ids on the payment, so that later ones may be matched through it.
`IndexAllows` is the partial unique index `payments_lead_id_verified_unique`.
`collects` is Razorpay's side, external. A customer may settle a collect request, and its
events may arrive, before the handler has inserted the payment. The lead moves made in the same
transactions are `LeadLifecycle`'s kinds `review`, `webhook` and `utr`.

**DocumentVersioning** has a step per SQL statement. A statement sees committed
rows, `locks` are the rows a transaction has written; `PickLatest` and
`LockLatest` are one `updateMany`, which picks its rows and then waits for
those that are locked and rechecks them. `raced` remembers the categories in
which a delete ran together with another request.

**DocumentDesk** is what the two screens that take photographs and the review
page of the portal make of it, with a completed upload as one step:
`uploadLeadDocument` with its attempts, the queue, retries, resets, and the
desk's list, selection, preview and decisions. The details screen has an upload for each
picture that was picked, any number of them under way or failed at once; the form, the flush
and the portal have one at a time. A pick counts what is shown, what is queued and its own pictures
(`TakeInDetails`). `aware` of an upload says whether whoever chose its place knew what was
there, counting uploads under way and failed ones (`DetailsAware`), which the screen does not
do. A completion on the server after the app was killed is not a step of its own.

**SlaMonitor** has a round per server: `StartRound` is the candidate query,
one action per branch of the loop's body, `Notify` its notification, `EndRound`
and `AbortRound` the `finally`. Time is abstract: a lead in a status with an
SLA becomes `late` at any moment.

**LeadIntake** is how a lead gets its responsibles: the advisory lock of the
district, the choice of the least loaded, the question to the status caches
with a connection of its own, the commit; manual assignment in three reads and a
write; and what moves meanwhile: status of users, mappings, districts, closed
and moved leads. `lock` and the requests in a transaction share the pool.

**Accounts** follows one e-mail address through the database and Supabase:
every call to either system is a step, and may fail. `explained`, `closings` and
`undone` remember why a password, a link or a revocation may be what it is.

**PhoneSession** is the app's side: the store (`shown`), the cookies (`jar`), calls
in flight with the state of the interceptor, and the rows of push tokens. Equal
calls in flight count as one; an answer and the cookies it sets arrive with what
the server does, a renewal apart from it. Reuse detection of refresh tokens, and
users who are not executives, are left out.

**OfflineQueue** has the memory and the disk, and two flushes that hold the queue
they read. An item is a lead, whose creation and uploads may be parted, or one
call. `fresh` items are not submitted yet, `repeated` and `settled` count what
the server saw and what it was allowed to see.

**CustomerNotifications** has a log row per status change, written by any of the
requests that notify at a time (`Calls`), between whose read and write nothing is
locked; a job in the queue or in the process, and up to `MaxAttempts` attempts, each
noted before and after. `crossed` counts the calls that opt-outs found between the two.

**Chat** has one conversation; the screens of `Watchers` are followed with their
two newest requests, the bubble of a message that is being sent, and the mark.

**CustomerForm** has the row of `customer_details`, the put that was read and not
written, the form, its draft, its cached copy and the queued update. Texts are
one version number; the loan fields, which depend on each other, are kept apart.

**LeadViews** has the screens that read leads: pages of the list one after
another, the queries behind the dashboard and the reports, round by round, and
what a user of the portal does with a row. `drift` counts the leads that came,
went or changed since a screen began to read. The list on the device has its own:
the leads on it that stopped being its owner's since it was read, which the screen
takes over when it shows that list in place of a first page that failed.
`recent` says which lead was updated after which. `MCLeadViews` has the instance that the proofs take;
TLC runs it in `MCLeadRecords`, beside the documents.

**DistrictDirectory** has the drafts of the districts' page and of a user's page,
the requests statement by statement, and the script, whose reads come before its
one transaction. **StatusWorkflow** has the order of the statuses under the row
locks of PostgreSQL; deadlocks are cycles of two. A district that is created gets an id that no open page
has seen (`Unknown`), since ids are random.

The `MC*` modules give the constants of the TLC instances, and compose.

## 4. Runs

| Run | Shows |
|---|---|
| `lifecycle` | Scene "race": transitions, creations and an automatic move race with deletion, edits of the workflow, expiry and restart. Scene "terminal": a lead moves up to three times while a status becomes terminal and ceases to be. Status and timeline agree, rows leave a status the lead has held, every move was configured or is an override out of a status that was terminal, the handlers implement `StatusJournal`. |
| `payments_race` | One verified payment per lead, final reviews; implements `PaymentLedger`; every event that happened is processed in the end. |
| `payments_gateway` | With two collect requests, their notes and both outcomes: gateway payments follow Razorpay. |
| `records` | Documents: one latest version with the highest number unless a delete raced; retries are earned; the photograph limit is exceeded by at most the uploads in flight. Screens: the list of the app, read or from the device, the home screen when its last read did not fail, dashboard and reports lag by what changed since they were read; what a portal's user writes from an old row passed the handler's check unless the lead changed under it. |
| `sla_monitor` | Flag and time agree; a lasting breach is flagged, a stale flag is cleared. |
| `intake` | The cap is exceeded only through other districts and by hand; responsibles were mapped; deactivated users keep no lead unless raced; every request ends, although transactions ask for second connections. |
| `accounts` | Account: the two halves stay in step, a password is answered for, a spent link changes nothing, a revocation lasts. Phone: it shows the session whose cookies it sends, and pushes reach whom it shows. |
| `notifications` | Scene "outcomes": repetitions have a lost answer or a restart behind them, the row tells the truth, every row is settled. Scene "calls": with two requests that notify at a time, an opt-out is late only for the calls it found between their read and their write. |
| `chat` | What counts as read was shown or raced, no text is lost or doubled without a reason, messages are shown in the end. |
| `offline_queue` | What is queued is kept until it is submitted, once and in its owner's session, and takes the place of an older version that waits, but for named races. |
| `papers` | Photographs: nothing is replaced or stored twice without a reason; a preview that is shown is of the selected document. Details, with and without a loan: what was typed is kept unless it was given up in a way that is named, an older version wins only if it was on its way, and the server's checks of what is completed from a read hold, unless somebody wrote the row or closed the lead between the read and the upsert. |
| `directory` | Mappings are dropped only by the races named; a refused deletion has a lead behind it; a save leaves an active district somebody with the role of a manager, unless the district was activated or a role changed under it; statuses are numbered without a gap unless two creations met. |

A property that says "unless raced" or "unless explained" names the race in a
history variable whose meaning is at its declaration. That is what the code
gives: it has no locks against these races, and the properties say exactly
which they are, so that any other way to the bad state is an error.

### Where the code does less than its documents say

* `LEAD_STATUS_CONFIGURATION_AUDIT.md:61` promises a "hard-lock terminal status
  movement": a request that read the lead before it became terminal, and every
  automatic move, takes it out again (`leads.ts:2794`). `MovesWereJustified`
  says what holds instead.
* The same document, line 118, says that terminal statuses "should not have
  normal outgoing transitions": PATCH makes a status terminal and leaves them in
  place (`lead-statuses.ts:283`).
* `payments.ts:477`, "UTR already exists in active payment records": two
  submissions at once are both stored.
* `20260321203000_payment_upi_webhook_foundation/migration.sql:25`, "Idempotent
  webhook event persistence": a delivery that read the event before another
  finished applies it a second time (`payment-webhooks.ts:231`);
  `GatewayRowsFollowRazorpay` holds all the same.
* `MOBILE_CUSTOMER_DATA_FORM_AUDIT.md:109`, "Min 3 / Max 10 enforced": uploads at
  once exceed the maximum; `SitePhotoOvershoot` says by how many.
* `queue-store.ts:273` drops an older version of an update when a newer one is
  queued under its key. One that is submitted online (`CustomerDetailsScreen.tsx:1118`,
  `LeadDetailScreen.tsx:1283`) leaves the older in the queue, whose next flush puts it over
  the newer. `SubmissionsAreSound` does not exclude that, and `NewerIsNotUndone` counts a
  queued version among those on their way.
* `districts.service.ts:235`, "At least one active District Manager assignment is required for
  an active district.": the code counts the managers of the request and checks their roles,
  never their status, and the page fills its drafts with suspended managers: a save that nothing
  races with may leave an active district to a suspended manager alone. What holds is
  `SaveKeepsManager`, which counts such a manager, and for that request alone:
  switching a district on, `PATCH /users/:id` (role or districts) and the script leave active
  districts without any manager, with nothing racing.
* `LeadDetailScreen.tsx:537` counts neither the uploads under way nor those that failed: two
  pictures picked one after the other, from a screen that is up to date, get one place, and the
  later completion or retry becomes the newer version of the other picture. `PhotoReplacedUnaware`
  counts such a screen among those that do not know what is taken.
* `documents-review/page.tsx:727-763` disables the decisions while one is sent and not while a
  preview is loaded or missing; a reload may move the selection (191-201), and a click then
  decides on a document nobody has looked at. `PreviewIsOfSelection` only excludes that the
  preview of another document is shown by then.
* The home screen whose refresh fails (`HomeScreen.tsx:73-76`) drops its summary and shows 0
  overdue leads beside the error (151-155), and without it once the next refresh has begun;
  `HomeLagsByDrift` says nothing of it then.
* A lead that the monitor flags from a stale read after it became terminal is no
  candidate any more and stays overdue: `FlagFollowsBreach` is about leads
  that are not terminal.

### Bounds

* Two requests in flight: every race above is between a read of one and a write
  of another; a request slot is free again when its request ends, so that any
  number of requests follow one another, up to the bounds on rows, submissions
  or events that each module names.
* Where one run explores several things at rest beside each other, a variable `scene` says which, and
  the `MC` module has the bounds of each scene.
* Lifecycle, scene "race": two requests, three rows, since creation writes up to two, which leaves room for
  a move of the race; one transition is removed and restored, and a status that became terminal stays so.
  Scene "terminal": one request, since it is about sequences of moves and not about races; four rows, so
  that a lead enters a status, leaves it after it has become terminal (by an override, or an automatic move
  that does not look) and moves once more; a status may cease to be terminal, and the way on or the way back
  is configured and removed. Three statuses: New, Assigned and one that is not terminal at first. A payment
  moves a lead there without asking the cache, the documents take it back to Assigned and ask. The theorems
  have all kinds, any requests and any bounds.
* Payments: `payments_race` has one lead, a QR and a gateway row that compete,
  both outcomes, one fault. `payments_gateway` has two leads, two collect requests and two
  payments, which is what it takes that an event meets a payment of another collect request
  or of another lead; no QR payments and no faults.
* Documents: three rows, two attempts of the code's three, a photograph limit
  of one in place of ten. They share a run with the views, each being small.
* SLA: two leads, three statuses, one server, one failed round.
* Intake: one executive whom an edit maps to a second district, a cap of one, a
  pool of two connections, which two creations exhaust.
* Accounts: four requests by two callers, one fault. Phone: two sign-ins, two
  push tokens, two events out of lost calls, kills, expiries, ended sessions and
  rotations. Nothing distinguishes the users: the first to sign in is always the same.
* Chat: two messages, two texts, one fault. Notifications: two rows and two attempts; one request at a
  time for the outcomes, with one fault; two requests at a time for the opt-outs, where no fault and no
  failed attempt is needed. Offline queue: a lead with an update or two versions of the update; two
  flushes, and as many credits.
* Views: two leads at the start and one created, two changes, pages of one; the
  dashboard as a manager sees it, so that leads are not reopened or deleted by it; the theorems
  have any number of changes and both.
* Papers: two pictures; two versions of the form, of which the second is typed only when no loan is stored
  or on its way, and two events (another writer, a change of status, a lost answer, a kill), but no more than
  three versions and events together. That is what it takes that a loan is switched on, or its amount
  cleared, while a request that leaves them out has been checked.
* Directory: two spellings of one district, a manager and an executive, two
  events; two writers and two moves of up to four statuses. Two pages of the districts are open in the
  scene with the page of a user alone, and then with one event (`CrowdBound`): a page goes through one
  request at a time in the model, and districts/page.tsx:364 disables only the Save of the same district
  meanwhile, so that two pages filled alike stand for two requests of one page.

`CHECK_DEADLOCK FALSE` everywhere: with the bounds reached, or with no user
doing anything, the system may stop.

### Fairness

* A request that has started goes on: Node runs the continuation of a settled
  promise, and an await of the database ends. `WF` per request (`LeadIntake`,
  `PaymentVerification`) or per job and attempt (`CustomerNotifications`; a job in
  the queue is taken up again after a restart).
* Razorpay redelivers an event until it gets a success answer; a slot may be
  taken by other requests again and again, so `SF` per event on `Deliver`.
* `setInterval` fires again and each round's steps follow: `WF` per server on
  the monitor. Faults are bounded, so a round ends normally in the end.
* Chat: the timer of an open screen fires and its request is answered, `WF`; a
  poll may overtake the answer before it is shown, again and again, so `SF` on
  `ShowNewest`, which an answer faster than the interval justifies.
* Nothing is assumed of users, customers, administrators or the SLA clock.

## 5. Proofs

`LeadLifecycle_proofs` proves for every set of requests and statuses, every
workflow and every bound:

* `TypeCorrect`: `Spec => []TypeOK`.
* `StatusMatchesTimeline`, `TimelineIsRooted`, `MovesAreJustified`,
  `CacheIsSound`: the four safety invariants of the runs.
* `DeletionIsFinal`: the action property.
* `JournalIsImplemented`: the refinement of `StatusJournal`.

None of the invariants is inductive alone. `RowsLeaveHeldStatuses` needs to
know of a request in flight that the status it read is one the lead has held,
though it may not be the present one; `MovesWereJustified` needs that an answer
`allowed` was configured at some time, which needs the same of the cache; and a
creation must be the only one while the lead is absent. `InFlightIsHonest`
states these facts, and `IInv` is the conjunction of the four properties and it.
`Init => IInv` and `IInv /\ [Next]_vars => IInv'` are proved conjunct by
conjunct, one step per action. The assumptions are `StatusesAssumption` and
`BoundsAssumption`, which TLC evaluates in every lifecycle run.

For the refinement, `JournalView` projects the rows on their moves. A
`CommitMove` maps to `Append1`, whose guard (the row leaves a held status) is
what `InFlightIsHonest` knows of the request; the creations map to `Create`,
since the same invariant says the lead is absent; `DeleteLead` maps to `Erase`,
and every other action leaves lead and timeline alone.

`PaymentVerification_proofs` proves for every set of leads, UTRs, requests and
event kinds and every bound:

* `TypeCorrect`; `OneVerifiedPerLead` and `GatewayPaymentsFollow`, the safety
  invariants; `ReviewsAreFinal`, the action property; `LedgerIsImplemented`, the
  refinement of `PaymentLedger`.

`OneVerifiedPerLead` rests on the partial unique index alone (`IndexAllows` is
the guard of every write of "verified"): the handlers' own look-ups do not carry
the proof, which says that they are there for the message and not for safety.
`GatewayPaymentsFollow` is not inductive: a delivery writes what it matched two
steps earlier, so `InFlightIsHonest` keeps of a request that its event did
happen at Razorpay, that its collect request answers for the lead of the payment it
matched (it was made for that lead, or names it in its notes), and that a review holds a QR
payment. A match by ids needs the same of the ids that earlier events have left: `IdsAnswer`. `IInv`
is the conjunction of the four.
The assumption is `PaymentAssumption`, which TLC evaluates in every payment run.

At its end `LeadLifecycle_proofs` proves `OverdueAgrees` of the same leads, of an
instance of `SlaMonitor`: `SlaParameters => (Spec => []FlagsAreSound)`, for any number of servers and
leads and every workflow. `SlaParameters` repeats `SlaAssumption`, since an
instance does not bring the assumption along; TLC evaluates it in the SLA run. `FlagsAreSound`
is inductive as it stands, since each branch of the round writes flag and time
together, and a lead becomes late in a status with an SLA only.

The same module proves what the `directory` run checks, of the instances that `MCDirectory`
composes: `DirectorySound`, `NobodyDroppedUnnoticed`, `RefusalsCostNothing` and
`SavesKeepManagers`, for any districts, users, roles, pages, writers and moves. While one part
moves the other rests, so each theorem follows from one about its part.

* `DistrictInv`: the rows, the mappings and the leads fit each other (`World`); what a page
  shows is what it will send, or was left out by a selection (`Good`, `FormOK`); and a request that
  nothing raced with still has the roles, the manager and the absence of leads that it has
  checked. The script computes everything from its reads at once; `Synced` says what its one
  transaction leaves: a district of the file has one row that lasts, which takes over the
  mappings of its other rows.
* `StatusInv`: `Typed` says what a transaction has written so far of its list
  (`Writing`), and that no row is written by two at once. `Serial` holds until transactions meet that may
  number the statuses wrongly (`clashed`): the committed numbers run from 1 without a gap
  (`Gapless`), a transaction that creates a status is the only one that does and, while another
  moves one, puts its own at the end (`Single`), and a transaction's list is what it says of the
  committed rows (`Claim`). Two moves need no exception: each has locked the row it moves before it
  reads the order, and its list has all the rows, so that of two that have both read it only one
  can commit. What `repositionStatus` does to a list is `Repositions`: the same items, each
  once. That a finite set of numbers has a highest (`MaxExists`) comes from the library's theorem that
  finite subsets are well-founded, and not from an induction.

Their assumptions are `DirectoryAssumption` and `WorkflowAssumption` of `MCDirectory`; TLC
evaluates both in the run.

`DocumentVersioning_proofs` proves `TypeCorrect`, `VersionsSound` and
`OvershootBounded` for any number of uploads at once, categories, rows,
attempts and photographs. What makes the versions inductive is not in the
property: a category without a delete in it has rows whose numbers differ and a latest
one that is the highest, a request that has read its number and still holds its
row locks knows that no other number came in between, and a request whose
snapshot is older meets the unique index instead. The limit needs a potential:
photographs stored plus requests that have counted and will still add stay within the
limit and the number of requests less one. That every set of rows has a highest
would be an induction over the rows; instead it is a conjunct of the invariant
(`RowsOK`), which a new row keeps.

`LeadPapers_proofs` proves `PapersKept`, `UploadsExplained`, `DetailsChecked` and
`NewerStays` for any number of pictures, places, stored documents, loans, edits and
faults. `MCSpec` moves the pictures or the details, so it implies the
specification of each, and the theorems rest on an invariant of each.
For the pictures, `DeskInv`: a place with documents has exactly one latest version (`RowsSound`); a
picture is with one upload of the details screen or the form, or in the queue and the flush that
works it off (`ScreensApart`, `OnePlace`); whoever chose a place knowingly meets no
other picture there, stored or under way (`AwareMeetsNothing`), which is what
`PhotoReplacedUnaware` needs when the upload is stored at last; and whatever is stored
and will be sent again was left without an answer, unless the flush has
its answer already (`StoredIsUnsure`). For the details, `FormInv`: nothing anywhere is newer than what was typed
(`NothingNewer`), what may still be written over something newer is noted as
behind (`OlderAreBehind`, `FormIsKnown`), what was typed and not saved is in the draft, in the queue
or on an open screen (`KeptOnDevice`), and a request that nobody overtook since it read
the lead still passes the checks it passed (`CheckedIsSound`).

`LeadIntake_proofs` proves `TypeCorrect`, `AssignmentsSound` and
`CapOvershootBounded` for all users, districts, requests, caps and pools. `LockOK`
says that a creation holds the lock of its district from its first count to its
commit, so that each district has one creation under way at most. `CapOK` is the
potential: the leads an executive was given automatically, together with those a
creation has picked it for, stay below the cap and the number of districts it was ever mapped to;
a creation that picks it has counted less than the cap, and what the count did not
see are picks of other districts, one each. `ReqOK` keeps of each request that whomever it
picked was mapped, and `UserOK` of each user whom no request raced about that a
deactivation is alone with the user.

`CustomerNotifications_proofs` proves `TypeCorrect`, `LogSound` and
`OptOutRespected` for all sets of channels and requests and bounds on rows, attempts, edits and
faults. What was sent is no invariant to induct on; `Paid` adds what may
still be sent, a call that has its row and a job that has not called, and bounds
the sum by one and the faults that repeat. A job whose row is gone no longer
counts, which is the update before the call: a mutant without it breaks
`LogIsSound` in the run. That one row is one call's business is `OneAsks`. `LateOK` is the
potential for the opt-outs: late rows, and calls that are about to write one (`Racing`), are
no more than `crossed`. A call that reads after the opt-out does not join them, a write
takes a call from the one side to the other, and an opt-out brings those it finds to both sides.

The same module proves `MissedByRace` and `TextsSound` of an instance of `Chat`, for any two
users and any number of messages, texts and failures. `MCChat` gives them that instance and
`ChatAssumption`, and the chat run checks the same. `Basis` is what both rest on: messages
are numbered as they are created (`Counted`), no mark is ahead of them (`Behind`), a send
knows its text and its message (`Sent`), and nobody writes before the conversation is
there (`Unborn`), which is what lets its creator start with everything read.
`MissedOnlyByRace` speaks of messages that are stored; its invariant has to cover those
still open under the mark (`Covered`), what a mark under way will cover (`MarkCovered`), what
an answered load will show before it marks (`LoadCovered`), and what the user's own
message will write as read (`SendCovered`). For the texts, every step moves one user's share
and one message's at most (`PlacesMove`), so the sum of the places of a text is kept by
comparing what left with what arrived; the only step that adds one is a failure whose
message had been stored, and it adds a copy to the account as well.

`Accounts_proofs` proves `TypeCorrect`, `SignInSound`, `SetupTokenSpentOnce` and
`RevocationLasts` for every set of requests, whatever kinds they may be, and every bound. Its
invariant answers one question for each property. Who may still remove the auth user? The one
creation that made it (`MakerOK`, by the numbers of requests), and, unless it raced,
none that found it (`AdoptedOK`); so none is left once there is a row (`KeptOK`,
`BeforeOK`). Who will answer for the password? A request that wrote it and still
runs (`PasswordOK`), and one that ran alone finds its token open and its user active, as
it read them (`AloneOK`). How often was the token spent? Never, until it is used (`TokenOK`).
Who may take the marker away? Only a login on its way to clear it, and none is
when the user was revoked last (`RevocationOK`). `AccountKeepsItsSignIn` needs no
exception for creations in flight, which the proof showed.

The same module proves `ShownActs` and `PushesFollow` of the phone beside it, for any
users, sign-ins, push tokens and events. `Origin` and `AtOrigin` say where a call comes
from that is in flight after a step, so that a fact about calls is kept by arguing about
five sources and not about twenty actions. `InStep` and `SignedOutIsOver` carry the
first theorem: what bootstrap shows is the session of the cookies, and the cookies of a
session that was signed out are refused, because whatever is `refused` was refused for
a session that is over (`RefusedIsOver`). For the second, `RowsFollow` looks at the one row
of the present token: if no race is on record for its user, the phone remembers that token,
has cookies, no sign-out is at its last call, and either that user is shown or a call in
flight claims the token (`Claims`), be it the removal or the next user's registration.
`Reached` is the converse: the shown user has the row, or a registration is under way.
The proof found that the list of exceptions had been too short. With four events
(beyond the bounds of the run) the app restarts, what its bootstrap asks is lost,
another user signs in while the removal of the token is still on its way, and the removal
goes out under that user's cookies, which cannot remove the row of somebody else:
`OutOfReach` records it, and `StrayPushIsExplained` names it.

The assumptions are `DocumentAssumption`, `IntakeAssumption`,
`NotificationAssumption`, `ChatAssumption`, `AccountsAssumption`, `PhoneAssumption`, `DeskAssumption` and `FormAssumption`, which say that sets are finite, bounds are numbers and the
names of users, requests and districts differ; TLC evaluates each in its run.

Each of these invariants was checked by TLC, as an invariant of the instance of its run,
before it was proved.

`OfflineQueue_proofs` proves `TypeCorrect`, `QueuedKept` and `SubmissionsSound` for
any number of users, items and versions, flushes at once, sessions and faults.
`QueuedIsKept` asks where an item is; its invariant `Anchored` says that what must
not be lost is on the disk, and in every older queue that a flush or a hydrate may
still write over it. `Nowhere` is the opposite, for an item that was not submitted
and for one that a newer version replaced: no such queue can bring it back.
`CreditOK` is the potential behind `RepeatsAreExplained`: the flushes that will
submit an item (`Holders`), and one more when every flush that runs would leave it
in the queue (`Due`), are paid for by its credit. A flush that overlaps another
brings a credit for what it takes; `MaxCredit` must be no smaller than the number of
flushes (`QueueAssumption`), since the credit would be cut short otherwise.

At its end the same module proves `ScreensLag`, `GapsCounted` and `BlindRaced` of the
screens that show leads, in the instance of `MCLeadViews`: for any leads, executives,
districts, filters, sizes of a page and numbers of changes. The first two say how far a
screen may be off, as a count, so `ViewsInv` counts too:

* A list that is being read is charged for what it has `Missed`: leads that were the
  executive's all along and lie on the pages already read, and are not among the rows. A
  lead that goes lets at most one other slip from an unread page onto a read one (`Slide`,
  which counts what is ahead of the first and of the last of those that slip), so `Missed` grows by no more than
  `drift`. The pages were numbered when the first was read; `Missed` together with the leads
  there are now exceeds what fits on them by no more than `drift`, which is what
  bounds the rows the list has not got at its end.
* The figure of the home screen may miss the leads beyond the cap (`Beyond`), and those become
  fewer when leads go: `HomeOK` has the two directions apart, and `Capped` and `Rest`
  say how many leads lie beyond a cap.
* A figure that is not there yet counts as what it would be now (`NumberOf`, `SumOf`): then an
  answer changes nothing in `DashboardOK` and `ReportOK`, and a lead that changes moves each side
  by at most one (`PartNear`). That a figure's numbers add up to the leads they count is
  `Totals`, which builds the bijection between the two.
* `CacheOK` has the lists on the device: whose they are, and that the leads on them which are
  no longer his number at most their drift (`CacheAges`). `ListOK` takes that over when one is
  shown (`CachedShown`). `ActOK` carries `BlindActsWereRaced`: what the handler has read of a
  lead still holds or the act is noted as raced.

The assumption is `ViewsAssumption`, which TLC evaluates in the run `records`.

Only model-checked is all liveness, since liveness under fairness and ENABLED are out of
the prover's reach: `EventsGetProcessed`, `FlagFollowsBreach`, `EveryRequestEnds`,
`NotificationSettles` and `MessageIsShown`.


## 6. Not modelled

See the components with status `not_modelled` or `partly` in `PROJECT.json`.
Formatting, wording, validation of single fields, roles that only decide whether
a request starts, audit rows, storage objects and charts carry no behaviour of
the kind checked here. Left out although they have some: the inactivity
reminders of the monitor (they only send), the notification feed of users, the
internal notes of a lead, pages of older chat messages, the sessions of a
browser, several servers (the advisory lock and the indexes are in the
database; the caches and `isRunning` are per process, and `SlaMonitor` has
`Servers` as a parameter).
