------------------------ MODULE PaymentVerification ------------------------
(***************************************************************************)
(* The token payments: the QR UTR a field executive submits and a manager *)
(* reviews (routes/payments.ts), and the UPI collect requests whose fate  *)
(* Razorpay reports by webhook (routes/payment-webhooks.ts).  Every await *)
(* is a step of its own, so that the checks of one request interleave     *)
(* with the writes of the others; a transaction is read committed, so its *)
(* reads are steps and its writes become visible together, under the row  *)
(* locks they hold, when it commits.  The move of the lead that a review  *)
(* or a webhook makes in the same transaction is LeadLifecycle's.         *)
(***************************************************************************)
EXTENDS Naturals, Sequences

CONSTANTS
  Leads,
  Utrs,         \* the UTR numbers executives type
  NoUtr,        \* the NULL utr_number of a gateway payment
  Requests,     \* HTTP requests in flight
  EventKinds,   \* the kinds of event Razorpay sends
  MaxRows,      \* bound on the rows of payments
  MaxCollects,  \* bound on the UPI collect requests
  MaxFaults     \* bound on server restarts and database errors

SuccessKinds == {"captured", "paid"}
AllEventKinds == SuccessKinds \cup {"failed", "other"}
Events == (1 .. MaxCollects) \X EventKinds

ASSUME PaymentAssumption ==
  /\ NoUtr \notin Utrs
  /\ EventKinds \subseteq AllEventKinds
  /\ MaxRows \in Nat /\ MaxCollects \in Nat /\ MaxFaults \in Nat
  /\ Leads # {}

VARIABLES
  rows,      \* payments, in the order of created_at
  collects,  \* Razorpay's side: the collect requests and what became of them
  event,     \* payment_webhook_events by event_id
  req,       \* the requests in flight
  faults     \* restarts and database errors so far

vars == <<rows, collects, event, req, faults>>

-----------------------------------------------------------------------------
(* Shapes *)

\* `ids`: the collect requests whose Razorpay ids a gateway payment carries.
Row == [lead : Leads, method : {"qr", "gateway"}, utr : Utrs \cup {NoUtr},
        status : {"pending", "verified", "rejected"}, ids : SUBSET (1 .. MaxCollects)]

\* `lead`: the lead it was made for; `named`: the lead its notes name, if any;
\* `order`: whether Razorpay gave it an order, whose id the events then carry.
Collect == [lead : Leads, named : SUBSET Leads, order : BOOLEAN,
            state : {"open", "captured", "failed"}]

Checks == {"verified", "pending", "utr"}

\* `left`: the checks still to pass; `collect`: the collect request of an order;
\* `row`: the payment a review or a webhook read and `seen` its status then;
\* `verdict`: what the review decides, `dup`: what the webhook found; `event`:
\* the event a webhook delivers.
IdleReq == [pc |-> "idle", lead |-> CHOOSE l \in Leads : TRUE, utr |-> NoUtr,
            left |-> {}, collect |-> 0, row |-> 0, seen |-> "pending",
            verdict |-> "rejected", event |-> <<0, "other">>, dup |-> FALSE]

Request ==
  [pc : {"idle", "submit", "order", "orderRow", "review", "reviewWrite",
         "store", "match", "look", "write"},
   lead : Leads, utr : Utrs \cup {NoUtr}, left : SUBSET Checks,
   collect : Nat, row : Nat, seen : {"pending", "verified", "rejected"},
   verdict : {"verified", "rejected"},
   event : Events \cup {<<0, "other">>}, dup : BOOLEAN]

\* Every request that holds a payment or an event holds one that exists.
TypeOK ==
  /\ rows \in Seq(Row)
  /\ collects \in Seq(Collect)
  /\ Len(collects) <= MaxCollects
  /\ event \in [Events -> {"absent", "stored", "processed"}]
  /\ req \in [Requests -> Request]
  /\ \A r \in Requests :
        /\ req[r].pc \in {"review", "reviewWrite", "look", "write"} =>
              req[r].row \in DOMAIN rows
        /\ req[r].pc \in {"store", "match", "look", "write"} =>
              req[r].event \in Events /\ req[r].event[1] \in DOMAIN collects
        /\ req[r].pc = "orderRow" => req[r].collect \in DOMAIN collects
  /\ faults \in 0 .. MaxFaults

Init ==
  /\ rows = << >>
  /\ collects = << >>
  /\ event = [e \in Events |-> "absent"]
  /\ req = [r \in Requests |-> IdleReq]
  /\ faults = 0

Finish(r) == req' = [req EXCEPT ![r] = IdleReq]
Passed(r, check) == req' = [req EXCEPT ![r].left = @ \ {check}]

Verified(l) == {i \in DOMAIN rows : rows[i].lead = l /\ rows[i].status = "verified"}

\* MUTANT of IndexAllows: the older index, over gateway payments only.
IndexAllowsGateway(i) ==
  rows[i].method = "gateway" =>
    {j \in Verified(rows[i].lead) : rows[j].method = "gateway"} \subseteq {i}

\* payments_lead_id_verified_unique: a write that would give a lead a second
\* verified payment fails with P2002 and its transaction rolls back.
IndexAllows(i) == Verified(rows[i].lead) \subseteq {i}

-----------------------------------------------------------------------------
(* POST /qr-utr and POST / : check three times, then insert *)

StartSubmit(r) ==
  /\ req[r].pc = "idle"
  /\ \E l \in Leads, u \in Utrs :
        req' = [req EXCEPT ![r] = [IdleReq EXCEPT !.pc = "submit", !.lead = l,
                                                  !.utr = u, !.left = Checks]]
  /\ UNCHANGED <<rows, collects, event, faults>>

\* assertNoVerifiedTokenPayment, also the first check of a gateway order.
CheckVerified(r) ==
  /\ req[r].pc \in {"submit", "order"}
  /\ "verified" \in req[r].left
  /\ Verified(req[r].lead) = {}
  /\ Passed(r, "verified")
  /\ UNCHANGED <<rows, collects, event, faults>>

\* The two queries of assertQrUtrSubmissionAllowed run together, in any order.
CheckPending(r) ==
  /\ req[r].pc = "submit"
  /\ "verified" \notin req[r].left /\ "pending" \in req[r].left
  /\ \A i \in DOMAIN rows : rows[i].lead = req[r].lead /\ rows[i].method = "qr"
                              => rows[i].status # "pending"
  /\ Passed(r, "pending")
  /\ UNCHANGED <<rows, collects, event, faults>>

CheckUtr(r) ==
  /\ req[r].pc = "submit"
  /\ "verified" \notin req[r].left /\ "utr" \in req[r].left
  /\ \A i \in DOMAIN rows : rows[i].method = "qr" /\ rows[i].utr = req[r].utr
                              => rows[i].status = "rejected"
  /\ Passed(r, "utr")
  /\ UNCHANGED <<rows, collects, event, faults>>

\* MUTANT of Insert: a new payment replaces the earlier ones of its lead.
InsertReplacing(l, m, u, ids) ==
  /\ Len(rows) < MaxRows
  /\ rows' = Append(SelectSeq(rows, LAMBDA p : p.lead # l),
                    [lead |-> l, method |-> m, utr |-> u, status |-> "pending",
                     ids |-> ids])

Insert(l, m, u, ids) ==
  /\ Len(rows) < MaxRows
  /\ rows' = Append(rows, [lead |-> l, method |-> m, utr |-> u,
                           status |-> "pending", ids |-> ids])

\* createPendingQrUtrPayment: nothing in the database forbids the row now.
CreateQrRow(r) ==
  /\ req[r].pc = "submit"
  /\ req[r].left = {}
  /\ Insert(req[r].lead, "qr", req[r].utr, {})
  /\ Finish(r)
  /\ UNCHANGED <<collects, event, faults>>

-----------------------------------------------------------------------------
(* POST /gateway/razorpay/order: check, ask Razorpay, then insert *)

StartOrder(r) ==
  /\ req[r].pc = "idle"
  /\ \E l \in Leads :
        req' = [req EXCEPT ![r] = [IdleReq EXCEPT !.pc = "order", !.lead = l,
                                                  !.left = {"verified"}]]
  /\ UNCHANGED <<rows, collects, event, faults>>

\* The customer can pay from here on, whether or not the row is inserted.  The
\* client's notes are spread over the server's: they may replace the lead's id
\* by another lead's, or by one that names no lead.
CollectRequest(r) ==
  /\ req[r].pc = "order"
  /\ req[r].left = {}
  /\ Len(collects) < MaxCollects
  /\ \E named \in {{}} \cup {{l} : l \in Leads}, order \in BOOLEAN :
        collects' = Append(collects, [lead |-> req[r].lead, named |-> named,
                                      order |-> order, state |-> "open"])
  /\ req' = [req EXCEPT ![r].pc = "orderRow", ![r].collect = Len(collects) + 1]
  /\ UNCHANGED <<rows, event, faults>>

CreateGatewayRow(r) ==
  /\ req[r].pc = "orderRow"
  /\ Insert(req[r].lead, "gateway", NoUtr, {req[r].collect})
  /\ Finish(r)
  /\ UNCHANGED <<collects, event, faults>>

\* Razorpay: the customer pays, or declines.
Settle ==
  /\ \E c \in DOMAIN collects, s \in {"captured", "failed"} :
        /\ collects[c].state = "open"
        /\ collects' = [collects EXCEPT ![c].state = s]
  /\ UNCHANGED <<rows, event, req, faults>>

-----------------------------------------------------------------------------
(* POST /:id/review *)

\* The handler reads a pending QR payment; the reviewer has decided.
StartReview(r) ==
  /\ req[r].pc = "idle"
  /\ \E i \in DOMAIN rows, v \in {"verified", "rejected"} :
        /\ rows[i].method = "qr" /\ rows[i].status = "pending"
        /\ req' = [req EXCEPT ![r] =
              [IdleReq EXCEPT !.pc = IF v = "verified" THEN "review" ELSE "reviewWrite",
                              !.row = i, !.verdict = v]]
  /\ UNCHANGED <<rows, collects, event, faults>>

\* To verify, the transaction looks for another verified payment first.
ReviewLook(r) ==
  /\ req[r].pc = "review"
  /\ Verified(rows[req[r].row].lead) \subseteq {req[r].row}
  /\ req' = [req EXCEPT ![r].pc = "reviewWrite"]
  /\ UNCHANGED <<rows, collects, event, faults>>

\* MUTANT of ReviewWrite: an update by id, without the PENDING condition.
ReviewWriteById(r) ==
  /\ req[r].pc = "reviewWrite"
  /\ req[r].verdict = "verified" => IndexAllows(req[r].row)
  /\ rows' = [rows EXCEPT ![req[r].row].status = req[r].verdict]
  /\ Finish(r)
  /\ UNCHANGED <<collects, event, faults>>

\* updateMany where PENDING, and the commit.
ReviewWrite(r) ==
  /\ req[r].pc = "reviewWrite"
  /\ rows[req[r].row].status = "pending"
  /\ req[r].verdict = "verified" => IndexAllows(req[r].row)
  /\ rows' = [rows EXCEPT ![req[r].row].status = req[r].verdict]
  /\ Finish(r)
  /\ UNCHANGED <<collects, event, faults>>

-----------------------------------------------------------------------------
(* POST /webhook/razorpay: events come any number of times, in any order *)

\* What became of collect request c, as Razorpay tells it.
Happened(e) ==
  /\ e[1] \in DOMAIN collects
  /\ e[2] \in SuccessKinds => collects[e[1]].state = "captured"
  /\ e[2] = "failed" => collects[e[1]].state = "failed"

\* MUTANT of Deliver: an event that was stored once counts as processed.
DeliverOnce(r, e) ==
  /\ req[r].pc = "idle"
  /\ Happened(e)
  /\ event[e] = "absent"
  /\ req' = [req EXCEPT ![r] = [IdleReq EXCEPT !.pc = "store", !.event = e]]
  /\ UNCHANGED <<rows, collects, event, faults>>

\* The handler looks the event up; one already processed changes nothing.
Deliver(r, e) ==
  /\ req[r].pc = "idle"
  /\ Happened(e)
  /\ event[e] # "processed"
  /\ req' = [req EXCEPT ![r] =
        [IdleReq EXCEPT !.pc = IF event[e] = "absent" THEN "store" ELSE "match",
                        !.event = e]]
  /\ UNCHANGED <<rows, collects, event, faults>>

\* It inserts the event, or loses the race (P2002) and reads it again.
StoreEvent(r) ==
  /\ req[r].pc = "store"
  /\ LET e == req[r].event IN
        /\ event' = [event EXCEPT ![e] = IF @ = "absent" THEN "stored" ELSE @]
        /\ IF event[e] = "processed" THEN Finish(r)
                                     ELSE req' = [req EXCEPT ![r].pc = "match"]
  /\ UNCHANGED <<rows, collects, faults>>

\* MUTANT of Matching: an event without ids to match by takes any payment.
MatchingAny(e) == {i \in DOMAIN rows : rows[i].method = "gateway"}

\* The gateway payments that carry an id of the event's collect request, or
\* belong to the lead its notes name; the newest one is taken.
Matching(e) ==
  {i \in DOMAIN rows :
     rows[i].method = "gateway" /\ (e[1] \in rows[i].ids \/ rows[i].lead \in collects[e[1]].named)}

Processed(e) == event' = [event EXCEPT ![e] = "processed"]

\* No payment: the event is done with, for good.  So is an "other" event, one
\* that reports neither a capture nor a failure.
NothingToApply(r) ==
  /\ req[r].pc = "match"
  /\ Matching(req[r].event) = {} \/ req[r].event[2] = "other"
  /\ Processed(req[r].event)
  /\ Finish(r)
  /\ UNCHANGED <<rows, collects, faults>>

MatchPayment(r) ==
  /\ req[r].pc = "match"
  /\ req[r].event[2] # "other"
  /\ \E i \in Matching(req[r].event) :
        /\ \A j \in Matching(req[r].event) : j <= i
        /\ req' = [req EXCEPT ![r].row = i, ![r].seen = rows[i].status,
                     ![r].pc = IF req[r].event[2] = "failed" THEN "write" ELSE "look"]
  /\ UNCHANGED <<rows, collects, event, faults>>

\* A capture looks for another verified payment of the lead.
LookForDuplicate(r) ==
  /\ req[r].pc = "look"
  /\ req' = [req EXCEPT ![r].pc = "write",
                        ![r].dup = ~ (Verified(rows[req[r].row].lead) \subseteq {req[r].row})]
  /\ UNCHANGED <<rows, collects, event, faults>>

\* The status the transaction writes, from what it read: a capture verifies
\* the payment whatever its status is by now, a failure rejects it unless it
\* was seen verified.
Outcome(r) ==
  LET i == req[r].row IN
  IF req[r].event[2] = "failed"
    THEN IF req[r].seen # "verified" THEN "rejected" ELSE rows[i].status
    ELSE IF ~ req[r].dup THEN "verified" ELSE rows[i].status

\* Only a duplicate capture, and a failure of a payment seen verified, leave
\* the payment alone.
Writes(r) == IF req[r].event[2] = "failed" THEN req[r].seen # "verified" ELSE ~ req[r].dup

\* The ids of the event replace those of the payment, an order id only when the
\* event carries one.
IdsAfter(r) ==
  LET c == req[r].event[1]
      had == rows[req[r].row].ids
  IN  IF ~ Writes(r) THEN had
      ELSE {c} \cup {k \in had : ~ collects[c].order /\ collects[k].order}

\* Payment and event are written by one transaction, which the index may stop.
ApplyEvent(r) ==
  /\ req[r].pc = "write"
  /\ Outcome(r) = "verified" => IndexAllows(req[r].row)
  /\ rows' = [rows EXCEPT ![req[r].row] =
                 [@ EXCEPT !.status = Outcome(r), !.ids = IdsAfter(r)]]
  /\ Processed(req[r].event)
  /\ Finish(r)
  /\ UNCHANGED <<collects, faults>>

\* P2002 rolls everything back; the event stays stored and Razorpay tries again.
ApplyConflict(r) ==
  /\ req[r].pc = "write"
  /\ Outcome(r) = "verified" /\ ~ IndexAllows(req[r].row)
  /\ Finish(r)
  /\ UNCHANGED <<rows, collects, event, faults>>

-----------------------------------------------------------------------------
(* Requests that end early *)

\* A 4xx answer of a portal request: a check failed, the payment was reviewed
\* already, the lead may not move, the gateway refused.  Nothing was written,
\* but the collect request of an order whose insert failed stays open.
Refuse(r) ==
  /\ req[r].pc \in {"submit", "order", "orderRow", "review", "reviewWrite"}
  /\ Finish(r)
  /\ UNCHANGED <<rows, collects, event, faults>>

\* The process stops, or the database fails some requests: what they had not
\* committed is gone.
Fault ==
  /\ faults < MaxFaults
  /\ \E lost \in SUBSET {r \in Requests : req[r].pc # "idle"} :
        /\ lost # {}
        /\ req' = [r \in Requests |-> IF r \in lost THEN IdleReq ELSE req[r]]
  /\ faults' = faults + 1
  /\ UNCHANGED <<rows, collects, event>>

Webhook(r) ==
  \/ StoreEvent(r) \/ NothingToApply(r) \/ MatchPayment(r)
  \/ LookForDuplicate(r) \/ ApplyEvent(r) \/ ApplyConflict(r)

\* The steps of a portal request that has started.
Portal(r) ==
  \/ CheckVerified(r) \/ CheckPending(r) \/ CheckUtr(r) \/ CreateQrRow(r)
  \/ CollectRequest(r) \/ CreateGatewayRow(r)
  \/ ReviewLook(r) \/ ReviewWrite(r) \/ Refuse(r)

Next ==
  \/ \E r \in Requests :
        \/ StartSubmit(r) \/ StartOrder(r) \/ StartReview(r) \/ Portal(r)
        \/ Webhook(r)
        \/ \E e \in Events : Deliver(r, e)
  \/ Settle \/ Fault

Spec == Init /\ [][Next]_vars

\* Every request that has started goes on (Node runs its continuations), and
\* Razorpay redelivers an event until it is answered with success.  Customers,
\* executives and managers owe nothing.
FairSpec ==
  /\ Spec
  /\ \A r \in Requests : WF_vars(Portal(r) \/ Webhook(r))
  /\ \A e \in Events : SF_vars(\E r \in Requests : Deliver(r, e))

-----------------------------------------------------------------------------
(* What the payments promise *)

\* "Enforce one verified token payment per lead across all payment methods",
\* whatever reviews and webhooks verify at the same time.
AtMostOneVerified ==
  \A i, j \in DOMAIN rows :
     rows[i].lead = rows[j].lead /\ rows[i].status = "verified" /\ rows[j].status = "verified"
       => i = j

\* Collect request c answers for lead l: it was made for l, or its notes name l.
AnswersFor(c, l) == collects[c].lead = l \/ l \in collects[c].named

\* No webhook, however late, doubled or matched to another payment than its
\* own, decides a gateway payment on nothing: a verified one means a captured
\* collect request that was made for its lead or names it in its notes, a
\* rejected one such a request that failed, through every chain of ids that
\* events leave behind.
GatewayRowsFollowRazorpay ==
  \A i \in DOMAIN rows :
     rows[i].method = "gateway" /\ rows[i].status # "pending" =>
       \E c \in DOMAIN collects :
          /\ AnswersFor(c, rows[i].lead)
          /\ collects[c].state = IF rows[i].status = "verified" THEN "captured"
                                                              ELSE "failed"

\* The ids a gateway payment carries are those of collect requests that answer
\* for its lead.
IdsAnswer ==
  \A i \in DOMAIN rows : \A c \in rows[i].ids :
     c \in DOMAIN collects /\ AnswersFor(c, rows[i].lead)

\* What is known of a request between its reads and its write: a review holds
\* a QR payment; an order holds its own collect request; a delivery holds an
\* event that did happen and, once matched, a gateway payment of a lead its
\* collect request answers for.
InFlightIsHonest ==
  \A r \in Requests :
     /\ req[r].pc \in {"review", "reviewWrite"} => rows[req[r].row].method = "qr"
     /\ req[r].pc \in {"store", "match", "look", "write"} => Happened(req[r].event)
     /\ req[r].pc = "orderRow" => collects[req[r].collect].lead = req[r].lead
     /\ req[r].pc \in {"look", "write"} =>
           /\ rows[req[r].row].method = "gateway" /\ req[r].event[2] # "other"
           /\ AnswersFor(req[r].event[1], rows[req[r].row].lead)

\* The inductive invariant of PaymentVerification_proofs.
IInv ==
  /\ AtMostOneVerified
  /\ GatewayRowsFollowRazorpay
  /\ IdsAnswer
  /\ InFlightIsHonest

\* A QR payment is decided by one review: of two reviewers who both read it
\* pending, and whatever webhooks do, the second changes nothing.
ReviewIsFinal ==
  [][\A i \in DOMAIN rows :
       rows[i].method = "qr" /\ rows[i].status # "pending" => rows'[i] = rows[i]]_vars

\* An event that happened is processed in the end, through lost requests,
\* restarts, duplicate deliveries and conflicts with the index.
EventsGetProcessed ==
  \A e \in Events : Happened(e) ~> event[e] = "processed"

-----------------------------------------------------------------------------
(* Refinement: the ledger of PaymentLedger *)

LedgerView ==
  [i \in DOMAIN rows |->
     [lead |-> rows[i].lead, method |-> rows[i].method, status |-> rows[i].status]]

Ledger == INSTANCE PaymentLedger WITH ledger <- LedgerView

\* The requests implement the ledger: each of their steps opens one pending
\* payment, decides one as the ledger allows, or leaves all payments alone.
ImplementsLedger == Ledger!Spec
=============================================================================
