--------------------- MODULE PaymentVerification_proofs ---------------------
(***************************************************************************)
(* Proofs about PaymentVerification for every set of leads, UTRs and      *)
(* requests and every bound: type correctness, one verified payment per   *)
(* lead, gateway payments that follow Razorpay, final reviews, and the    *)
(* refinement of PaymentLedger.                                           *)
(***************************************************************************)
EXTENDS PaymentVerification, SequenceTheorems, TLAPS

Statuses == {"pending", "verified", "rejected"}
Ids == SUBSET (1 .. MaxCollects)

\* Payment p with status s and the ids d.
Settled(p, s, d) == [p EXCEPT !.status = s, !.ids = d]

LEMMA IdleTyped == IdleReq \in Request /\ IdleReq.pc = "idle"
<1>1. (CHOOSE l \in Leads : TRUE) \in Leads
  BY PaymentAssumption
<1>2. QED BY <1>1 DEF IdleReq, Request, Checks

\* There is one more payment, a pending one of lead l with the ids d.
RowAppends(l, m, d) ==
  /\ Len(rows') = Len(rows) + 1
  /\ DOMAIN rows \subseteq DOMAIN rows'
  /\ \A i \in DOMAIN rows : rows'[i] = rows[i]
  /\ \A i \in DOMAIN rows' :
        i \notin DOMAIN rows => /\ rows'[i].lead = l /\ rows'[i].method = m
                                /\ rows'[i].status = "pending" /\ rows'[i].ids = d

\* A new payment comes last; the others are as they were.
LEMMA RowsAppended ==
  ASSUME rows \in Seq(Row), NEW l \in Leads, NEW m \in {"qr", "gateway"},
         NEW u \in Utrs \cup {NoUtr}, NEW d \in Ids, Insert(l, m, u, d)
  PROVE  rows' \in Seq(Row) /\ RowAppends(l, m, d)
<1> DEFINE p == [lead |-> l, method |-> m, utr |-> u, status |-> "pending", ids |-> d]
<1>1. p \in Row /\ p.lead = l /\ p.method = m /\ p.status = "pending" /\ p.ids = d
  BY DEF Row, Ids
<1> HIDE DEF p
<1>2. rows' = Append(rows, p)
  BY DEF Insert, p
<1>3. QED BY <1>1, <1>2 DEF RowAppends

\* Payment i has status s and the ids d now, and the others are as they were.
RowSettles(i, s, d) ==
  /\ DOMAIN rows' = DOMAIN rows
  /\ \A j \in DOMAIN rows :
        /\ rows'[j].lead = rows[j].lead /\ rows'[j].method = rows[j].method
        /\ rows'[j].status = IF j = i THEN s ELSE rows[j].status
        /\ rows'[j].ids = IF j = i THEN d ELSE rows[j].ids
        /\ j # i => rows'[j] = rows[j]

\* A decision changes the status and the ids of one payment and nothing else.
LEMMA RowDecided ==
  ASSUME rows \in Seq(Row), NEW i \in DOMAIN rows, NEW s \in Statuses, NEW d \in Ids,
         rows' = [rows EXCEPT ![i] = Settled(rows[i], s, d)]
  PROVE  rows' \in Seq(Row) /\ RowSettles(i, s, d)
<1> DEFINE p == Settled(rows[i], s, d)
<1>1. rows[i] \in Row /\ \A j \in DOMAIN rows : rows[j] \in Row
  OBVIOUS
<1>2. /\ p \in Row /\ p.lead = rows[i].lead /\ p.method = rows[i].method
      /\ p.status = s /\ p.ids = d
  BY <1>1 DEF Row, Statuses, Ids, Settled
<1>3. rows' = [rows EXCEPT ![i] = p]
  OBVIOUS
<1> HIDE DEF p
<1>4. rows' \in Seq(Row) /\ DOMAIN rows' = DOMAIN rows
  BY <1>2, <1>3
<1>5. QED BY <1>2, <1>3, <1>4 DEF RowSettles

\* A review leaves the ids of the payment alone.
LEMMA StatusOnly ==
  ASSUME rows \in Seq(Row), NEW i \in DOMAIN rows, NEW s \in Statuses,
         rows' = [rows EXCEPT ![i].status = s]
  PROVE  /\ rows' = [rows EXCEPT ![i] = Settled(rows[i], s, rows[i].ids)]
         /\ rows[i].ids \in Ids
<1>1. rows[i] \in Row
  OBVIOUS
<1>2. [rows[i] EXCEPT !.status = s] = Settled(rows[i], s, rows[i].ids)
  BY <1>1 DEF Row, Settled
<1>3. rows[i].ids \in Ids
  BY <1>1 DEF Row, Ids
<1>4. QED BY <1>2, <1>3

\* What Outcome writes is a status, and a verified one only for a capture.
LEMMA OutcomeTyped ==
  ASSUME TypeOK, NEW r \in Requests, req[r].pc = "write"
  PROVE  Outcome(r) \in Statuses
<1>1. req[r].row \in DOMAIN rows /\ rows[req[r].row] \in Row
  BY DEF TypeOK
<1>2. QED BY <1>1 DEF Outcome, Row, Statuses

\* The ids a payment has after an event are those it had and the event's.
LEMMA IdsTyped ==
  ASSUME TypeOK, NEW r \in Requests, req[r].pc = "write"
  PROVE  /\ IdsAfter(r) \in Ids
         /\ IdsAfter(r) \subseteq rows[req[r].row].ids \cup {req[r].event[1]}
<1>1. req[r].row \in DOMAIN rows /\ rows[req[r].row] \in Row /\ req[r].event \in Events
  BY DEF TypeOK
<1>2. rows[req[r].row].ids \in Ids /\ req[r].event[1] \in 1 .. MaxCollects
  BY <1>1 DEF Row, Ids, Events
<1>3. QED BY <1>2 DEF IdsAfter, Ids

-----------------------------------------------------------------------------
(* Type correctness *)

HoldsRow == {"review", "reviewWrite", "look", "write"}
HoldsEvent == {"store", "match", "look", "write"}

\* One request moves on to state q, payments and collect requests only grow.
LEMMA TypeKept ==
  ASSUME TypeOK,
         rows' \in Seq(Row), DOMAIN rows \subseteq DOMAIN rows',
         collects' \in Seq(Collect), DOMAIN collects \subseteq DOMAIN collects',
         Len(collects') <= MaxCollects,
         event' \in [Events -> {"absent", "stored", "processed"}],
         UNCHANGED faults,
         NEW r \in Requests, NEW q \in Request, req' = [req EXCEPT ![r] = q],
         q.pc \in HoldsRow => q.row \in DOMAIN rows',
         q.pc \in HoldsEvent => q.event \in Events /\ q.event[1] \in DOMAIN collects',
         q.pc = "orderRow" => q.collect \in DOMAIN collects'
  PROVE  TypeOK'
<1>1. /\ req' \in [Requests -> Request]
      /\ \A p \in Requests : req'[p] = IF p = r THEN q ELSE req[p]
  BY DEF TypeOK
<1>2. ASSUME NEW p \in Requests
      PROVE  /\ req'[p].pc \in HoldsRow => req'[p].row \in DOMAIN rows'
             /\ req'[p].pc \in HoldsEvent =>
                   req'[p].event \in Events /\ req'[p].event[1] \in DOMAIN collects'
             /\ req'[p].pc = "orderRow" => req'[p].collect \in DOMAIN collects'
  <2>1. CASE p = r
    BY <1>1, <2>1
  <2>2. CASE p # r
    BY <1>1, <2>2 DEF TypeOK, HoldsRow, HoldsEvent
  <2>3. QED BY <2>1, <2>2
<1>3. QED BY <1>1, <1>2 DEF TypeOK, Collect, HoldsRow, HoldsEvent

\* The same when the request ends.
LEMMA TypeKeptByFinish ==
  ASSUME TypeOK, rows' \in Seq(Row), DOMAIN rows \subseteq DOMAIN rows',
         event' \in [Events -> {"absent", "stored", "processed"}],
         UNCHANGED <<collects, faults>>, NEW r \in Requests, Finish(r)
  PROVE  TypeOK'
<1>1. /\ collects' \in Seq(Collect) /\ DOMAIN collects \subseteq DOMAIN collects'
      /\ Len(collects') <= MaxCollects
  BY DEF TypeOK
<1>2. req' = [req EXCEPT ![r] = IdleReq] /\ UNCHANGED faults
  BY DEF Finish
<1>3. IdleReq \in Request /\ IdleReq.pc \notin HoldsRow
      /\ IdleReq.pc \notin HoldsEvent /\ IdleReq.pc # "orderRow"
  BY IdleTyped DEF HoldsRow, HoldsEvent
<1>4. QED BY <1>1, <1>2, <1>3, TypeKept

\* The same when only the request changes.
LEMMA TypeKeptByRequest ==
  ASSUME TypeOK, UNCHANGED <<rows, collects, event, faults>>,
         NEW r \in Requests, NEW q \in Request, req' = [req EXCEPT ![r] = q],
         q.pc \in HoldsRow => q.row \in DOMAIN rows,
         q.pc \in HoldsEvent => q.event \in Events /\ q.event[1] \in DOMAIN collects,
         q.pc # "orderRow"
  PROVE  TypeOK'
BY TypeKept DEF TypeOK

\* What an insert inserts.
LEMMA RowMade ==
  ASSUME TypeOK, NEW r \in Requests, CreateQrRow(r) \/ CreateGatewayRow(r)
  PROVE  \E m \in {"qr", "gateway"}, u \in Utrs \cup {NoUtr}, d \in Ids :
            /\ Insert(req[r].lead, m, u, d)
            /\ d # {} => d = {req[r].collect} /\ req[r].pc = "orderRow"
<1>1. req[r] \in Request
  BY DEF TypeOK
<1>2. CASE CreateQrRow(r)
  <2>1. Insert(req[r].lead, "qr", req[r].utr, {}) /\ req[r].utr \in Utrs \cup {NoUtr}
    BY <1>1, <1>2 DEF CreateQrRow, Request
  <2>2. {} \in Ids
    BY DEF Ids
  <2>3. QED BY <2>1, <2>2
<1>3. CASE CreateGatewayRow(r)
  <2>1. Insert(req[r].lead, "gateway", NoUtr, {req[r].collect}) /\ req[r].pc = "orderRow"
    BY <1>3 DEF CreateGatewayRow
  <2>2. {req[r].collect} \in Ids
    <3>1. /\ req[r].collect \in DOMAIN collects /\ collects \in Seq(Collect)
          /\ Len(collects) <= MaxCollects
      BY <2>1 DEF TypeOK
    <3>2. req[r].collect \in 1 .. MaxCollects
      BY <3>1, PaymentAssumption
    <3>3. QED BY <3>2 DEF Ids
  <2>3. QED BY <2>1, <2>2
<1>4. QED BY <1>2, <1>3

\* A collect request is made for the lead of its order, with any notes.
LEMMA CollectMade ==
  ASSUME TypeOK, NEW r \in Requests, CollectRequest(r)
  PROVE  \E c \in Collect : collects' = Append(collects, c) /\ c.lead = req[r].lead
<1>1. PICK named \in {{}} \cup {{l} : l \in Leads}, order \in BOOLEAN :
         collects' = Append(collects, [lead |-> req[r].lead, named |-> named,
                                       order |-> order, state |-> "open"])
  BY DEF CollectRequest
<1> DEFINE c == [lead |-> req[r].lead, named |-> named, order |-> order, state |-> "open"]
<1>2. req[r].lead \in Leads
  BY DEF TypeOK, Request
<1>3. named \in SUBSET Leads
  OBVIOUS
<1>4. c \in Collect /\ c.lead = req[r].lead
  BY <1>2, <1>3 DEF Collect
<1>5. QED BY <1>1, <1>4

\* A delivery that has found its payment.
Matched(q, i, seen, pc) == [q EXCEPT !.row = i, !.seen = seen, !.pc = pc]

LEMMA MatchedTyped ==
  ASSUME NEW q \in Request, NEW i \in Nat, NEW seen \in Statuses,
         NEW pc \in {"write", "look"}
  PROVE  /\ Matched(q, i, seen, pc) \in Request
         /\ Matched(q, i, seen, pc).row = i
         /\ Matched(q, i, seen, pc).event = q.event
         /\ Matched(q, i, seen, pc).pc = pc
BY DEF Matched, Request, Statuses

LEMMA TypeStep == TypeOK /\ [Next]_vars => TypeOK'
<1> SUFFICES ASSUME TypeOK, [Next]_vars PROVE TypeOK'
  OBVIOUS
<1>0. /\ rows \in Seq(Row) /\ collects \in Seq(Collect)
      /\ event \in [Events -> {"absent", "stored", "processed"}]
      /\ req \in [Requests -> Request]
      /\ Len(collects) \in Nat /\ Len(collects) <= MaxCollects
  BY DEF TypeOK, Collect
<1>1. ASSUME NEW r \in Requests, StartSubmit(r) \/ StartOrder(r) PROVE TypeOK'
  <2>1. PICK q \in Request : /\ req' = [req EXCEPT ![r] = q]
                             /\ q.pc \in {"submit", "order"}
    <3>1. CASE StartSubmit(r)
      <4>1. PICK l \in Leads, u \in Utrs :
               req' = [req EXCEPT ![r] = [IdleReq EXCEPT !.pc = "submit", !.lead = l,
                                                         !.utr = u, !.left = Checks]]
        BY <3>1 DEF StartSubmit
      <4> DEFINE q == [IdleReq EXCEPT !.pc = "submit", !.lead = l, !.utr = u,
                                      !.left = Checks]
      <4>2. q \in Request /\ q.pc = "submit"
        BY IdleTyped DEF Request
      <4>3. QED BY <4>1, <4>2
    <3>2. CASE StartOrder(r)
      <4>1. PICK l \in Leads :
               req' = [req EXCEPT ![r] = [IdleReq EXCEPT !.pc = "order", !.lead = l,
                                                         !.left = {"verified"}]]
        BY <3>2 DEF StartOrder
      <4> DEFINE q == [IdleReq EXCEPT !.pc = "order", !.lead = l, !.left = {"verified"}]
      <4>2. q \in Request /\ q.pc = "order"
        BY IdleTyped DEF Request, Checks
      <4>3. QED BY <4>1, <4>2
    <3>3. QED BY <1>1, <3>1, <3>2
  <2>2. UNCHANGED <<rows, collects, event, faults>>
    BY <1>1 DEF StartSubmit, StartOrder
  <2>3. QED BY <2>1, <2>2, TypeKeptByRequest DEF HoldsRow, HoldsEvent
<1>2. ASSUME NEW r \in Requests, CheckVerified(r) \/ CheckPending(r) \/ CheckUtr(r)
      PROVE  TypeOK'
  <2>1. PICK check \in Checks : Passed(r, check)
    BY <1>2 DEF CheckVerified, CheckPending, CheckUtr, Checks
  <2>0. PICK rest \in SUBSET Checks : rest = req[r].left \ {check}
    <3>1. req[r].left \in SUBSET Checks
      BY <1>0 DEF Request
    <3>2. QED BY <3>1
  <2> DEFINE q == [req[r] EXCEPT !.left = rest]
  <2>2. q \in Request /\ q.pc = req[r].pc
    <3>1. req[r] \in Request
      BY <1>0
    <3>2. QED BY <3>1 DEF Request
  <2>3. req' = [req EXCEPT ![r] = q]
    BY <2>0, <2>1 DEF Passed
  <2>4. /\ UNCHANGED <<rows, collects, event, faults>>
        /\ req[r].pc \in {"submit", "order"}
    BY <1>2 DEF CheckVerified, CheckPending, CheckUtr
  <2> HIDE DEF q
  <2>5. QED BY <2>2, <2>3, <2>4, TypeKeptByRequest DEF HoldsRow, HoldsEvent
<1>3. ASSUME NEW r \in Requests, CreateQrRow(r) \/ CreateGatewayRow(r) PROVE TypeOK'
  <2>1. PICK m \in {"qr", "gateway"}, u \in Utrs \cup {NoUtr}, d \in Ids :
           Insert(req[r].lead, m, u, d)
    BY <1>3, RowMade
  <2>2. req[r].lead \in Leads
    BY <1>0 DEF Request
  <2>3. Finish(r) /\ UNCHANGED <<collects, event, faults>>
    BY <1>3 DEF CreateQrRow, CreateGatewayRow
  <2>4. rows' \in Seq(Row) /\ DOMAIN rows \subseteq DOMAIN rows'
    <3>1. PICK l \in Leads : Insert(l, m, u, d)
      BY <2>1, <2>2
    <3>2. rows \in Seq(Row)
      BY <1>0
    <3>3. QED BY <2>1, <3>1, <3>2, RowsAppended DEF RowAppends
  <2>5. event' \in [Events -> {"absent", "stored", "processed"}]
    BY <1>0, <2>3
  <2>6. QED BY <2>3, <2>4, <2>5, TypeKeptByFinish
<1>4. ASSUME NEW r \in Requests, CollectRequest(r) PROVE TypeOK'
  <2> DEFINE q == [req[r] EXCEPT !.pc = "orderRow", !.collect = Len(collects) + 1]
  <2>1. PICK c \in Collect : collects' = Append(collects, c) /\ c.lead = req[r].lead
    BY <1>0, <1>4, CollectMade
  <2>2. q \in Request /\ q.pc = "orderRow" /\ q.collect = Len(collects) + 1
    <3>1. PICK n \in Nat : n = Len(collects) + 1
      BY <1>0
    <3>2. req[r] \in Request
      BY <1>0
    <3>3. QED BY <3>1, <3>2 DEF Request
  <2>5. /\ req' = [req EXCEPT ![r] = q]
        /\ Len(collects) < MaxCollects /\ UNCHANGED <<rows, event, faults>>
    BY <1>4 DEF CollectRequest
  <2> HIDE DEF q
  <2>3. /\ collects' \in Seq(Collect) /\ DOMAIN collects \subseteq DOMAIN collects'
        /\ Len(collects') <= MaxCollects /\ Len(collects) + 1 \in DOMAIN collects'
    BY <1>0, <2>1, <2>5, PaymentAssumption
  <2>4. QED BY <1>0, <2>2, <2>3, <2>5, TypeKept DEF HoldsRow, HoldsEvent
<1>5. CASE Settle
  <2>1. PICK c \in DOMAIN collects, s \in {"captured", "failed"} :
           collects' = [collects EXCEPT ![c].state = s]
    BY <1>5 DEF Settle
  <2>2. [collects[c] EXCEPT !.state = s] \in Collect
    <3>1. collects[c] \in Collect
      BY <1>0
    <3>2. QED BY <3>1 DEF Collect
  <2>3. /\ collects' \in Seq(Collect) /\ DOMAIN collects' = DOMAIN collects
        /\ Len(collects') = Len(collects)
    BY <1>0, <2>1, <2>2
  <2>4. QED BY <1>5, <2>3 DEF Settle, TypeOK, Collect
<1>6. ASSUME NEW r \in Requests, StartReview(r) PROVE TypeOK'
  <2>1. PICK i \in DOMAIN rows, v \in {"verified", "rejected"} :
           req' = [req EXCEPT ![r] =
              [IdleReq EXCEPT !.pc = IF v = "verified" THEN "review" ELSE "reviewWrite",
                              !.row = i, !.verdict = v]]
    BY <1>6 DEF StartReview
  <2> DEFINE q == [IdleReq EXCEPT !.pc = IF v = "verified" THEN "review" ELSE "reviewWrite",
                                  !.row = i, !.verdict = v]
  <2>2. i \in Nat
    BY <1>0
  <2>3. q \in Request /\ q.row = i /\ q.pc \notin HoldsEvent /\ q.pc # "orderRow"
    BY <2>2, IdleTyped DEF Request, HoldsEvent
  <2> HIDE DEF q
  <2>4. UNCHANGED <<rows, collects, event, faults>>
    BY <1>6 DEF StartReview
  <2>5. req' = [req EXCEPT ![r] = q]
    BY <2>1 DEF q
  <2>6. QED BY <2>3, <2>4, <2>5, TypeKeptByRequest
<1>7. ASSUME NEW r \in Requests, ReviewLook(r) PROVE TypeOK'
  <2> DEFINE q == [req[r] EXCEPT !.pc = "reviewWrite"]
  <2>1. q \in Request /\ q.pc = "reviewWrite" /\ q.row = req[r].row
    <3>1. req[r] \in Request
      BY <1>0
    <3>2. QED BY <3>1 DEF Request
  <2>2. /\ req' = [req EXCEPT ![r] = q] /\ UNCHANGED <<rows, collects, event, faults>>
        /\ req[r].pc = "review"
    BY <1>7 DEF ReviewLook
  <2> HIDE DEF q
  <2>3. req[r].row \in DOMAIN rows
    BY <2>2 DEF TypeOK
  <2>4. QED BY <2>1, <2>2, <2>3, TypeKeptByRequest DEF HoldsEvent
<1>8. ASSUME NEW r \in Requests, ReviewWrite(r) PROVE TypeOK'
  <2>1. req[r].row \in DOMAIN rows /\ req[r].verdict \in Statuses
    BY <1>0, <1>8 DEF ReviewWrite, TypeOK, Request, Statuses
  <2>2. /\ rows' = [rows EXCEPT ![req[r].row].status = req[r].verdict]
        /\ Finish(r) /\ UNCHANGED <<collects, event, faults>>
    BY <1>8 DEF ReviewWrite
  <2>3. rows' \in Seq(Row) /\ DOMAIN rows' = DOMAIN rows
    <3>1. /\ rows' = [rows EXCEPT ![req[r].row] =
                       Settled(rows[req[r].row], req[r].verdict, rows[req[r].row].ids)]
          /\ rows[req[r].row].ids \in Ids
      BY <1>0, <2>1, <2>2, StatusOnly
    <3>2. QED BY <1>0, <2>1, <3>1, RowDecided DEF RowSettles
  <2>4. event' \in [Events -> {"absent", "stored", "processed"}]
    BY <1>0, <2>2
  <2>5. QED BY <2>2, <2>3, <2>4, TypeKeptByFinish
<1>9. ASSUME NEW r \in Requests, NEW e \in Events, Deliver(r, e) PROVE TypeOK'
  <2> DEFINE q == [IdleReq EXCEPT !.pc = IF event[e] = "absent" THEN "store" ELSE "match",
                                  !.event = e]
  <2>1. q \in Request /\ q.event = e /\ q.pc \notin HoldsRow /\ q.pc # "orderRow"
    BY IdleTyped DEF Request, HoldsRow
  <2>2. /\ req' = [req EXCEPT ![r] = q] /\ UNCHANGED <<rows, collects, event, faults>>
        /\ e[1] \in DOMAIN collects
    BY <1>9 DEF Deliver, Happened
  <2> HIDE DEF q
  <2>3. QED BY <2>1, <2>2, TypeKeptByRequest
<1>10. ASSUME NEW r \in Requests, StoreEvent(r) PROVE TypeOK'
  <2> DEFINE q == IF event[req[r].event] = "processed" THEN IdleReq
                  ELSE [req[r] EXCEPT !.pc = "match"]
  <2>1. /\ q \in Request /\ q.pc \in {"idle", "match"}
        /\ q.pc = "match" => q.event = req[r].event
    BY <1>0, IdleTyped DEF Request
  <2>2. /\ req' = [req EXCEPT ![r] = q] /\ UNCHANGED <<rows, collects, faults>>
        /\ req[r].pc = "store"
    BY <1>10 DEF StoreEvent, Finish
  <2> HIDE DEF q
  <2>3. req[r].event \in Events /\ req[r].event[1] \in DOMAIN collects
    BY <2>2 DEF TypeOK
  <2>4. event' \in [Events -> {"absent", "stored", "processed"}]
    BY <1>0, <1>10, <2>3 DEF StoreEvent
  <2>5. QED BY <1>0, <2>1, <2>2, <2>3, <2>4, TypeKept DEF HoldsRow, HoldsEvent
<1>11. ASSUME NEW r \in Requests, NothingToApply(r) PROVE TypeOK'
  <2>1. event' \in [Events -> {"absent", "stored", "processed"}]
    BY <1>0, <1>11 DEF NothingToApply, Processed
  <2>2. QED BY <1>0, <1>11, <2>1, IdleTyped, TypeKept
            DEF NothingToApply, Finish, HoldsRow, HoldsEvent
<1>12. ASSUME NEW r \in Requests, MatchPayment(r) PROVE TypeOK'
  <2>1. PICK i \in Matching(req[r].event) :
           req' = [req EXCEPT ![r].row = i, ![r].seen = rows[i].status,
                     ![r].pc = IF req[r].event[2] = "failed" THEN "write" ELSE "look"]
    BY <1>12 DEF MatchPayment
  <2> DEFINE seen == rows[i].status
             pc == IF req[r].event[2] = "failed" THEN "write" ELSE "look"
             q == Matched(req[r], i, seen, pc)
  <2>2. i \in DOMAIN rows /\ i \in Nat /\ rows[i] \in Row
    BY <1>0 DEF Matching
  <2>3. q \in Request /\ q.row = i /\ q.event = req[r].event /\ q.pc # "orderRow"
    <3>1. req[r] \in Request /\ seen \in Statuses /\ pc \in {"write", "look"}
      BY <1>0, <2>2 DEF Row, Statuses
    <3> HIDE DEF seen, pc
    <3>2. i \in Nat
      BY <2>2
    <3>3. QED BY <3>1, <3>2, MatchedTyped
  <2>4. req' = [req EXCEPT ![r] = q]
    BY <2>1 DEF Matched
  <2> HIDE DEF q
  <2>5. /\ UNCHANGED <<rows, collects, event, faults>>
        /\ req[r].event \in Events /\ req[r].event[1] \in DOMAIN collects
    BY <1>12 DEF MatchPayment, TypeOK
  <2>6. QED BY <2>2, <2>3, <2>4, <2>5, TypeKeptByRequest
<1>13. ASSUME NEW r \in Requests, LookForDuplicate(r) PROVE TypeOK'
  <2> DEFINE d == ~ (Verified(rows[req[r].row].lead) \subseteq {req[r].row})
             q == [req[r] EXCEPT !.pc = "write", !.dup = d]
  <2>1. d \in BOOLEAN
    BY SMT
  <2>2. req' = [req EXCEPT ![r] = q]
    BY <1>13 DEF LookForDuplicate
  <2> HIDE DEF d
  <2>3. /\ q \in Request /\ q.row = req[r].row /\ q.event = req[r].event
        /\ q.pc = "write"
    <3>1. req[r] \in Request
      BY <1>0
    <3>2. QED BY <2>1, <3>1 DEF Request
  <2> HIDE DEF q
  <2>4. /\ UNCHANGED <<rows, collects, event, faults>> /\ req[r].row \in DOMAIN rows
        /\ req[r].event \in Events /\ req[r].event[1] \in DOMAIN collects
    BY <1>13 DEF LookForDuplicate, TypeOK
  <2>5. QED BY <2>2, <2>3, <2>4, TypeKeptByRequest
<1>14. ASSUME NEW r \in Requests, ApplyEvent(r) PROVE TypeOK'
  <2>1. /\ req[r].pc = "write" /\ req[r].row \in DOMAIN rows
        /\ Outcome(r) \in Statuses /\ IdsAfter(r) \in Ids
    BY <1>14, OutcomeTyped, IdsTyped DEF ApplyEvent, TypeOK
  <2>2. /\ rows' = [rows EXCEPT ![req[r].row] =
                      Settled(rows[req[r].row], Outcome(r), IdsAfter(r))]
        /\ Finish(r) /\ UNCHANGED <<collects, faults>>
    BY <1>14 DEF ApplyEvent, Settled
  <2>3. rows' \in Seq(Row) /\ DOMAIN rows' = DOMAIN rows
    BY <1>0, <2>1, <2>2, RowDecided DEF RowSettles
  <2>4. event' \in [Events -> {"absent", "stored", "processed"}]
    BY <1>0, <1>14 DEF ApplyEvent, Processed
  <2>5. QED BY <2>2, <2>3, <2>4, TypeKeptByFinish
<1>15. ASSUME NEW r \in Requests, ApplyConflict(r) \/ Refuse(r) PROVE TypeOK'
  BY <1>15, IdleTyped, TypeKeptByRequest
     DEF ApplyConflict, Refuse, Finish, HoldsRow, HoldsEvent
<1>16. CASE Fault
  <2>1. PICK lost \in SUBSET Requests :
           req' = [r \in Requests |-> IF r \in lost THEN IdleReq ELSE req[r]]
    BY <1>16 DEF Fault
  <2>2. faults' \in 0 .. MaxFaults
    BY <1>16, PaymentAssumption DEF Fault, TypeOK
  <2>3. UNCHANGED <<rows, collects, event>>
    BY <1>16 DEF Fault
  <2>4. QED BY <2>1, <2>2, <2>3, IdleTyped DEF TypeOK
<1>17. CASE UNCHANGED vars
  BY <1>17 DEF vars, TypeOK
<1>18. QED
  BY <1>1, <1>2, <1>3, <1>4, <1>5, <1>6, <1>7, <1>8, <1>9, <1>10, <1>11, <1>12,
     <1>13, <1>14, <1>15, <1>16, <1>17 DEF Next, Portal, Webhook

LEMMA TypeInit == Init => TypeOK
BY IdleTyped, PaymentAssumption DEF Init, TypeOK

\* Type correctness: in every reachable state of any number of requests the
\* payments, events and requests have their types, and a request that holds a
\* payment or an event holds one that exists.
THEOREM TypeCorrect == Spec => []TypeOK
<1>1. Init => TypeOK
  BY TypeInit
<1>2. TypeOK /\ [Next]_vars => TypeOK'
  BY TypeStep
<1>3. QED BY <1>1, <1>2, PTL DEF Spec

-----------------------------------------------------------------------------
(* What a step does to payments and collect requests *)

\* Payments and collect requests only grow, a collect request that is settled
\* stays settled, and none of them changes the leads it answers for.
Grows(rs, cs, rt, ct) ==
  /\ DOMAIN rs \subseteq DOMAIN rt
  /\ \A i \in DOMAIN rs : rt[i].lead = rs[i].lead /\ rt[i].method = rs[i].method
  /\ DOMAIN cs \subseteq DOMAIN ct
  /\ \A c \in DOMAIN cs : /\ ct[c].lead = cs[c].lead /\ ct[c].named = cs[c].named
                          /\ cs[c].state # "open" => ct[c].state = cs[c].state

Grown == Grows(rows, collects, rows', collects')

\* A new payment that carries only ids of collect requests made for its lead.
Inserted(l, m, u, d) ==
  /\ Insert(l, m, u, d)
  /\ \A c \in d : c \in DOMAIN collects /\ collects[c].lead = l

\* Only four things happen to the payments.
LEMMA StepKinds ==
  ASSUME TypeOK, InFlightIsHonest, [Next]_vars
  PROVE  \/ UNCHANGED rows
         \/ /\ \E l \in Leads, m \in {"qr", "gateway"}, u \in Utrs \cup {NoUtr}, d \in Ids :
                  Inserted(l, m, u, d)
            /\ UNCHANGED collects
         \/ \E r \in Requests : ReviewWrite(r)
         \/ \E r \in Requests : ApplyEvent(r)
<1>1. ASSUME NEW r \in Requests, CreateQrRow(r) \/ CreateGatewayRow(r)
      PROVE  /\ \E l \in Leads, m \in {"qr", "gateway"}, u \in Utrs \cup {NoUtr}, d \in Ids :
                   Inserted(l, m, u, d)
             /\ UNCHANGED collects
  <2>1. req[r].lead \in Leads
    BY DEF TypeOK, Request
  <2>2. PICK m \in {"qr", "gateway"}, u \in Utrs \cup {NoUtr}, d \in Ids :
           /\ Insert(req[r].lead, m, u, d)
           /\ d # {} => d = {req[r].collect} /\ req[r].pc = "orderRow"
    BY <1>1, RowMade
  <2>3. ASSUME NEW c \in d
        PROVE  c \in DOMAIN collects /\ collects[c].lead = req[r].lead
    BY <2>2 DEF TypeOK, InFlightIsHonest
  <2>4. UNCHANGED collects
    BY <1>1 DEF CreateQrRow, CreateGatewayRow
  <2>5. QED BY <2>1, <2>2, <2>3, <2>4 DEF Inserted
<1>2. ASSUME NEW r \in Requests,
             \/ StartSubmit(r) \/ StartOrder(r) \/ StartReview(r)
             \/ CheckVerified(r) \/ CheckPending(r) \/ CheckUtr(r)
             \/ CollectRequest(r) \/ ReviewLook(r) \/ Refuse(r)
             \/ StoreEvent(r) \/ NothingToApply(r) \/ MatchPayment(r)
             \/ LookForDuplicate(r) \/ ApplyConflict(r)
             \/ \E e \in Events : Deliver(r, e)
      PROVE  UNCHANGED rows
  BY <1>2 DEF StartSubmit, StartOrder, StartReview, CheckVerified, CheckPending,
              CheckUtr, CollectRequest, ReviewLook, Refuse, StoreEvent,
              NothingToApply, MatchPayment, LookForDuplicate, ApplyConflict, Deliver
<1>3. ASSUME Settle \/ Fault \/ UNCHANGED vars PROVE UNCHANGED rows
  BY <1>3 DEF Settle, Fault, vars
<1>4. QED BY <1>1, <1>2, <1>3 DEF Next, Portal, Webhook

LEMMA ReviewStep ==
  ASSUME TypeOK, NEW r \in Requests, ReviewWrite(r)
  PROVE  /\ req[r].row \in DOMAIN rows /\ req[r].verdict \in {"verified", "rejected"}
         /\ rows' = [rows EXCEPT ![req[r].row] =
                       Settled(rows[req[r].row], req[r].verdict, rows[req[r].row].ids)]
         /\ rows[req[r].row].ids \in Ids
         /\ rows[req[r].row].status = "pending"
         /\ req[r].verdict = "verified" => IndexAllows(req[r].row)
         /\ UNCHANGED collects
<1>1. /\ req[r].row \in DOMAIN rows /\ req[r].verdict \in {"verified", "rejected"}
      /\ rows' = [rows EXCEPT ![req[r].row].status = req[r].verdict]
      /\ rows[req[r].row].status = "pending"
      /\ req[r].verdict = "verified" => IndexAllows(req[r].row)
      /\ UNCHANGED collects /\ rows \in Seq(Row)
  BY DEF TypeOK, Request, ReviewWrite
<1>2. QED BY <1>1, StatusOnly DEF Statuses

\* The decision of a webhook rests on a collect request that answers for the
\* lead of the payment, and so do the ids it leaves.
LEMMA ApplyStep ==
  ASSUME TypeOK, InFlightIsHonest, NEW r \in Requests, ApplyEvent(r)
  PROVE  /\ req[r].row \in DOMAIN rows /\ Outcome(r) \in Statuses /\ IdsAfter(r) \in Ids
         /\ rows' = [rows EXCEPT ![req[r].row] =
                       Settled(rows[req[r].row], Outcome(r), IdsAfter(r))]
         /\ Outcome(r) = "verified" => IndexAllows(req[r].row)
         /\ rows[req[r].row].method = "gateway"
         /\ \/ Outcome(r) = rows[req[r].row].status
            \/ /\ Outcome(r) # "pending"
               /\ \E c \in DOMAIN collects :
                     /\ AnswersFor(c, rows[req[r].row].lead)
                     /\ collects[c].state = IF Outcome(r) = "verified" THEN "captured"
                                                                       ELSE "failed"
         /\ \A c \in IdsAfter(r) :
               \/ c \in rows[req[r].row].ids
               \/ c \in DOMAIN collects /\ AnswersFor(c, rows[req[r].row].lead)
         /\ UNCHANGED collects
<1> DEFINE e == req[r].event
<1>1. /\ req[r].pc = "write"
      /\ rows' = [rows EXCEPT ![req[r].row] =
                    Settled(rows[req[r].row], Outcome(r), IdsAfter(r))]
      /\ Outcome(r) = "verified" => IndexAllows(req[r].row)
      /\ UNCHANGED collects
  BY DEF ApplyEvent, Settled
<1>2. /\ e \in Events /\ e[1] \in DOMAIN collects
      /\ req[r].row \in DOMAIN rows
  BY <1>1 DEF TypeOK
<1>3. /\ Outcome(r) \in Statuses /\ IdsAfter(r) \in Ids
      /\ IdsAfter(r) \subseteq rows[req[r].row].ids \cup {e[1]}
  BY <1>1, OutcomeTyped, IdsTyped
<1>4. /\ e[2] \in SuccessKinds => collects[e[1]].state = "captured"
      /\ e[2] = "failed" => collects[e[1]].state = "failed"
      /\ rows[req[r].row].method = "gateway"
      /\ AnswersFor(e[1], rows[req[r].row].lead)
      /\ e[2] # "other"
  BY <1>1 DEF InFlightIsHonest, Happened
<1>5. e[2] \in SuccessKinds \/ e[2] = "failed"
  <2>1. e[2] \in EventKinds
    BY <1>2 DEF Events
  <2>2. QED BY <2>1, <1>4, PaymentAssumption DEF AllEventKinds
<1>6. CASE e[2] = "failed"
  BY <1>1, <1>2, <1>3, <1>4, <1>6 DEF Outcome
<1>7. CASE e[2] \in SuccessKinds
  <2>1. e[2] # "failed"
    BY <1>7 DEF SuccessKinds
  <2>2. QED BY <1>1, <1>2, <1>3, <1>4, <1>7, <2>1 DEF Outcome
<1>8. QED BY <1>5, <1>6, <1>7

LEMMA StepGrows ==
  ASSUME TypeOK, InFlightIsHonest, [Next]_vars
  PROVE  Grown
<1>0. rows \in Seq(Row) /\ collects \in Seq(Collect)
  BY DEF TypeOK, Collect
<1> DEFINE RowsGrow ==
             /\ DOMAIN rows \subseteq DOMAIN rows'
             /\ \A i \in DOMAIN rows : /\ rows'[i].lead = rows[i].lead
                                       /\ rows'[i].method = rows[i].method
           CollectsGrow ==
             /\ DOMAIN collects \subseteq DOMAIN collects'
             /\ \A c \in DOMAIN collects :
                   /\ collects'[c].lead = collects[c].lead
                   /\ collects'[c].named = collects[c].named
                   /\ collects[c].state # "open" =>
                         collects'[c].state = collects[c].state
<1>1. RowsGrow
  <2>1. CASE \E l \in Leads, m \in {"qr", "gateway"}, u \in Utrs \cup {NoUtr}, d \in Ids :
                Inserted(l, m, u, d)
    BY <1>0, <2>1, RowsAppended DEF Inserted, RowAppends
  <2>2. ASSUME NEW r \in Requests, ReviewWrite(r) PROVE RowsGrow
    <3>1. /\ req[r].row \in DOMAIN rows /\ req[r].verdict \in Statuses
          /\ rows[req[r].row].ids \in Ids
          /\ rows' = [rows EXCEPT ![req[r].row] =
                        Settled(rows[req[r].row], req[r].verdict, rows[req[r].row].ids)]
      BY <2>2, ReviewStep DEF Statuses
    <3>2. QED BY <1>0, <3>1, RowDecided DEF RowSettles
  <2>3. ASSUME NEW r \in Requests, ApplyEvent(r) PROVE RowsGrow
    <3>1. /\ req[r].row \in DOMAIN rows /\ Outcome(r) \in Statuses /\ IdsAfter(r) \in Ids
          /\ rows' = [rows EXCEPT ![req[r].row] =
                        Settled(rows[req[r].row], Outcome(r), IdsAfter(r))]
      BY <2>3, ApplyStep
    <3>2. QED BY <1>0, <3>1, RowDecided DEF RowSettles
  <2>4. QED BY <2>1, <2>2, <2>3, StepKinds
<1>2. CollectsGrow
  <2>1. ASSUME NEW r \in Requests, CollectRequest(r) PROVE CollectsGrow
    <3>1. PICK c \in Collect : collects' = Append(collects, c)
      BY <2>1, CollectMade
    <3>2. QED BY <1>0, <3>1
  <2>2. CASE Settle
    <3>1. PICK c \in DOMAIN collects, s \in {"captured", "failed"} :
             /\ collects[c].state = "open"
             /\ collects' = [collects EXCEPT ![c].state = s]
      BY <2>2 DEF Settle
    <3>2. collects[c] \in Collect
      BY <1>0
    <3>3. /\ [collects[c] EXCEPT !.state = s].lead = collects[c].lead
          /\ [collects[c] EXCEPT !.state = s].named = collects[c].named
      BY <3>2 DEF Collect
    <3>4. QED BY <1>0, <3>1, <3>3
  <2>3. CASE UNCHANGED collects
    BY <2>3
  <2>4. QED
    <3>1. \/ UNCHANGED collects \/ Settle \/ \E r \in Requests : CollectRequest(r)
      BY DEF Next, Portal, Webhook, vars, StartSubmit, StartOrder, StartReview,
             CheckVerified, CheckPending, CheckUtr, CreateQrRow, CreateGatewayRow,
             ReviewLook, ReviewWrite, Refuse, StoreEvent, NothingToApply, MatchPayment,
             LookForDuplicate, ApplyEvent, ApplyConflict, Deliver, Fault
    <3>2. QED BY <2>1, <2>2, <2>3, <3>1
<1>3. QED BY <1>1, <1>2 DEF Grown, Grows

-----------------------------------------------------------------------------
(* One verified payment per lead *)

LEMMA DecisionKeepsOne ==
  ASSUME rows \in Seq(Row), AtMostOneVerified,
         NEW i \in DOMAIN rows, NEW s \in Statuses, NEW d \in Ids,
         rows' = [rows EXCEPT ![i] = Settled(rows[i], s, d)],
         s = "verified" => IndexAllows(i)
  PROVE  AtMostOneVerified'
<1>1. /\ DOMAIN rows' = DOMAIN rows
      /\ \A j \in DOMAIN rows :
            /\ rows'[j].lead = rows[j].lead
            /\ rows'[j].status = IF j = i THEN s ELSE rows[j].status
  BY RowDecided DEF RowSettles
<1>2. QED BY <1>1 DEF AtMostOneVerified, IndexAllows, Verified

LEMMA OneVerifiedStep ==
  ASSUME TypeOK, InFlightIsHonest, AtMostOneVerified, [Next]_vars
  PROVE  AtMostOneVerified'
<1>0. rows \in Seq(Row)
  BY DEF TypeOK
<1>1. CASE UNCHANGED rows
  BY <1>1 DEF AtMostOneVerified
<1>2. ASSUME NEW l \in Leads, NEW m \in {"qr", "gateway"}, NEW u \in Utrs \cup {NoUtr},
             NEW d \in Ids, Inserted(l, m, u, d)
      PROVE  AtMostOneVerified'
  <2>1. /\ \A i \in DOMAIN rows : rows'[i] = rows[i]
        /\ \A i \in DOMAIN rows' : i \notin DOMAIN rows => rows'[i].status = "pending"
    BY <1>0, <1>2, RowsAppended DEF Inserted, RowAppends
  <2>2. QED BY <2>1 DEF AtMostOneVerified
<1>3. ASSUME NEW r \in Requests, ReviewWrite(r) PROVE AtMostOneVerified'
  <2>1. /\ req[r].row \in DOMAIN rows /\ req[r].verdict \in Statuses
        /\ rows[req[r].row].ids \in Ids
        /\ rows' = [rows EXCEPT ![req[r].row] =
                      Settled(rows[req[r].row], req[r].verdict, rows[req[r].row].ids)]
        /\ req[r].verdict = "verified" => IndexAllows(req[r].row)
    BY <1>3, ReviewStep DEF Statuses
  <2>2. QED BY <1>0, <2>1, DecisionKeepsOne
<1>4. ASSUME NEW r \in Requests, ApplyEvent(r) PROVE AtMostOneVerified'
  <2>1. /\ req[r].row \in DOMAIN rows /\ Outcome(r) \in Statuses /\ IdsAfter(r) \in Ids
        /\ rows' = [rows EXCEPT ![req[r].row] =
                      Settled(rows[req[r].row], Outcome(r), IdsAfter(r))]
        /\ Outcome(r) = "verified" => IndexAllows(req[r].row)
    BY <1>4, ApplyStep
  <2>2. QED BY <1>0, <2>1, DecisionKeepsOne
<1>5. QED BY <1>1, <1>2, <1>3, <1>4, StepKinds

-----------------------------------------------------------------------------
(* Gateway payments follow Razorpay *)

\* Collect request c of cs answers for lead l.
Answers(c, cs, l) == c \in DOMAIN cs /\ (cs[c].lead = l \/ l \in cs[c].named)

\* Payment p was not decided against the collect requests cs.
Follows(p, cs) ==
  p.method = "gateway" /\ p.status # "pending" =>
    \E c \in DOMAIN cs :
       /\ Answers(c, cs, p.lead)
       /\ cs[c].state = IF p.status = "verified" THEN "captured" ELSE "failed"

\* The ids payment p carries answer for its lead.
Carries(p, cs) == \A c \in p.ids : Answers(c, cs, p.lead)

LEMMA FollowMeans ==
  /\ GatewayRowsFollowRazorpay <=> \A i \in DOMAIN rows : Follows(rows[i], collects)
  /\ GatewayRowsFollowRazorpay' <=> \A i \in DOMAIN rows' : Follows(rows'[i], collects')
  /\ IdsAnswer <=> \A i \in DOMAIN rows : Carries(rows[i], collects)
  /\ IdsAnswer' <=> \A i \in DOMAIN rows' : Carries(rows'[i], collects')
BY DEF GatewayRowsFollowRazorpay, IdsAnswer, Follows, Carries, Answers, AnswersFor

LEMMA FollowKept ==
  ASSUME NEW p, Grown, Follows(p, collects), Carries(p, collects)
  PROVE  Follows(p, collects') /\ Carries(p, collects')
<1>1. \A c, l : Answers(c, collects, l) => Answers(c, collects', l)
  BY DEF Grown, Grows, Answers
<1>2. Carries(p, collects')
  BY <1>1 DEF Carries
<1>3. Follows(p, collects')
  <2>1. CASE p.method = "gateway" /\ p.status # "pending"
    <3>1. PICK c \in DOMAIN collects :
             /\ Answers(c, collects, p.lead)
             /\ collects[c].state = IF p.status = "verified" THEN "captured" ELSE "failed"
      BY <2>1 DEF Follows
    <3>2. c \in DOMAIN collects' /\ collects'[c].state = collects[c].state
      BY <3>1 DEF Grown, Grows
    <3>3. QED BY <1>1, <3>1, <3>2 DEF Follows
  <2>2. CASE ~ (p.method = "gateway" /\ p.status # "pending")
    BY <2>2 DEF Follows
  <2>3. QED BY <2>1, <2>2
<1>4. QED BY <1>2, <1>3

LEMMA FollowStep ==
  ASSUME TypeOK, InFlightIsHonest, GatewayRowsFollowRazorpay, IdsAnswer, [Next]_vars
  PROVE  GatewayRowsFollowRazorpay' /\ IdsAnswer'
<1> DEFINE Good(i) == Follows(rows'[i], collects') /\ Carries(rows'[i], collects')
<1>0. rows \in Seq(Row)
  BY DEF TypeOK
<1>7. \A i \in DOMAIN rows : Follows(rows[i], collects) /\ Carries(rows[i], collects)
  BY FollowMeans
<1> SUFFICES ASSUME NEW i \in DOMAIN rows' PROVE Good(i)
  BY FollowMeans
<1>1. ASSUME i \in DOMAIN rows, rows'[i] = rows[i] PROVE Good(i)
  BY <1>1, <1>7, StepGrows, FollowKept
<1>2. CASE UNCHANGED rows
  BY <1>1, <1>2
<1>3. ASSUME NEW l \in Leads, NEW m \in {"qr", "gateway"}, NEW u \in Utrs \cup {NoUtr},
             NEW d \in Ids, Inserted(l, m, u, d)
      PROVE  Good(i)
  <2>1. CASE i \in DOMAIN rows
    BY <1>0, <1>1, <1>3, <2>1, RowsAppended DEF Inserted, RowAppends
  <2>2. CASE i \notin DOMAIN rows
    <3>1. rows'[i].status = "pending" /\ rows'[i].ids = d /\ rows'[i].lead = l
      BY <1>0, <1>3, <2>2, RowsAppended DEF Inserted, RowAppends
    <3>2. \A c \in d : Answers(c, collects', l)
      BY <1>3, StepGrows DEF Inserted, Answers, Grown, Grows
    <3>3. QED BY <3>1, <3>2 DEF Follows, Carries
  <2>3. QED BY <2>1, <2>2
<1>4. ASSUME NEW r \in Requests, ReviewWrite(r) PROVE Good(i)
  <2>1. /\ req[r].row \in DOMAIN rows /\ req[r].verdict \in Statuses
        /\ rows[req[r].row].ids \in Ids
        /\ rows' = [rows EXCEPT ![req[r].row] =
                      Settled(rows[req[r].row], req[r].verdict, rows[req[r].row].ids)]
        /\ UNCHANGED collects
    BY <1>4, ReviewStep DEF Statuses
  <2>2. rows[req[r].row].method = "qr"
    BY <1>4 DEF ReviewWrite, InFlightIsHonest
  <2>3. /\ i \in DOMAIN rows
        /\ rows'[i].lead = rows[i].lead /\ rows'[i].method = rows[i].method
        /\ rows'[i].ids = rows[i].ids
        /\ i # req[r].row => rows'[i] = rows[i]
    <3>1. RowSettles(req[r].row, req[r].verdict, rows[req[r].row].ids)
      BY <1>0, <2>1, RowDecided
    <3>2. QED BY <3>1 DEF RowSettles
  <2>4. CASE i = req[r].row
    <3>1. Follows(rows'[i], collects')
      BY <2>2, <2>3, <2>4 DEF Follows
    <3>2. Carries(rows'[i], collects')
      BY <1>7, <2>1, <2>3 DEF Carries
    <3>3. QED BY <3>1, <3>2
  <2>5. CASE i # req[r].row
    BY <1>1, <2>3, <2>5
  <2>6. QED BY <2>4, <2>5
<1>5. ASSUME NEW r \in Requests, ApplyEvent(r) PROVE Good(i)
  <2>1. /\ req[r].row \in DOMAIN rows /\ Outcome(r) \in Statuses /\ IdsAfter(r) \in Ids
        /\ rows' = [rows EXCEPT ![req[r].row] =
                      Settled(rows[req[r].row], Outcome(r), IdsAfter(r))]
        /\ UNCHANGED collects
    BY <1>5, ApplyStep
  <2>2. /\ i \in DOMAIN rows
        /\ rows'[i].lead = rows[i].lead /\ rows'[i].method = rows[i].method
        /\ rows'[i].status = IF i = req[r].row THEN Outcome(r) ELSE rows[i].status
        /\ rows'[i].ids = IF i = req[r].row THEN IdsAfter(r) ELSE rows[i].ids
        /\ i # req[r].row => rows'[i] = rows[i]
    <3>1. RowSettles(req[r].row, Outcome(r), IdsAfter(r))
      BY <1>0, <2>1, RowDecided
    <3>2. QED BY <3>1 DEF RowSettles
  <2>3. CASE i # req[r].row
    BY <1>1, <2>2, <2>3
  <2>4. CASE i = req[r].row
    <3>1. Carries(rows'[i], collects')
      <4>1. ASSUME NEW c \in IdsAfter(r) PROVE Answers(c, collects, rows[i].lead)
        <5>1. \/ c \in rows[i].ids
              \/ c \in DOMAIN collects /\ AnswersFor(c, rows[i].lead)
          BY <1>5, <2>4, ApplyStep
        <5>2. QED BY <1>7, <2>2, <5>1 DEF Carries, Answers, AnswersFor
      <4>2. QED BY <2>1, <2>2, <2>4, <4>1 DEF Carries
    <3>2. CASE Outcome(r) = rows[i].status
      BY <1>7, <2>1, <2>2, <2>4, <3>1, <3>2 DEF Follows
    <3>3. CASE Outcome(r) # rows[i].status
      <4>1. PICK c \in DOMAIN collects :
               /\ AnswersFor(c, rows[i].lead)
               /\ collects[c].state = IF Outcome(r) = "verified" THEN "captured"
                                                                 ELSE "failed"
        BY <1>5, <2>4, <3>3, ApplyStep
      <4>2. Answers(c, collects', rows'[i].lead)
        BY <2>1, <2>2, <4>1 DEF Answers, AnswersFor
      <4>3. Follows(rows'[i], collects')
        BY <2>1, <2>2, <2>4, <4>1, <4>2 DEF Follows
      <4>4. QED BY <3>1, <4>3
    <3>4. QED BY <3>2, <3>3
  <2>5. QED BY <2>3, <2>4
<1>6. QED BY <1>2, <1>3, <1>4, <1>5, StepKinds

-----------------------------------------------------------------------------
(* What requests in flight hold *)

\* InFlightIsHonest of one request q.
Honest(q, rs, cs) ==
  /\ q.pc \in {"review", "reviewWrite"} => rs[q.row].method = "qr"
  /\ q.pc \in HoldsEvent =>
        /\ q.event[1] \in DOMAIN cs
        /\ q.event[2] \in SuccessKinds => cs[q.event[1]].state = "captured"
        /\ q.event[2] = "failed" => cs[q.event[1]].state = "failed"
  /\ q.pc \in {"look", "write"} =>
        /\ rs[q.row].method = "gateway" /\ q.event[2] # "other"
        /\ LET c == cs[q.event[1]] IN c.lead = rs[q.row].lead \/ rs[q.row].lead \in c.named
  /\ q.pc = "orderRow" => cs[q.collect].lead = q.lead

LEMMA HonestMeans ==
  /\ InFlightIsHonest <=> \A r \in Requests : Honest(req[r], rows, collects)
  /\ InFlightIsHonest' <=> \A r \in Requests : Honest(req'[r], rows', collects')
BY DEF InFlightIsHonest, Honest, Happened, AnswersFor, HoldsEvent

LEMMA HonestKept ==
  ASSUME NEW q, NEW rs, NEW cs, NEW rt, NEW ct, Grows(rs, cs, rt, ct),
         Honest(q, rs, cs), q.pc \in HoldsRow => q.row \in DOMAIN rs,
         q.pc = "orderRow" => q.collect \in DOMAIN cs
  PROVE  Honest(q, rt, ct)
BY DEF Grows, Honest, HoldsRow, HoldsEvent

LEMMA IdleHonest ==
  ASSUME NEW rs, NEW cs
  PROVE  Honest(IdleReq, rs, cs)
BY IdleTyped DEF Honest, HoldsEvent

\* One request moves on, to an honest state.
LEMMA HonestMove ==
  ASSUME TypeOK, InFlightIsHonest, Grown,
         NEW r \in Requests, NEW q, req' = [req EXCEPT ![r] = q],
         Honest(q, rows', collects')
  PROVE  InFlightIsHonest'
<1>1. ASSUME NEW p \in Requests PROVE Honest(req'[p], rows', collects')
  <2>1. req'[p] = IF p = r THEN q ELSE req[p]
    BY DEF TypeOK
  <2>2. /\ req[p].pc \in HoldsRow => req[p].row \in DOMAIN rows
        /\ req[p].pc = "orderRow" => req[p].collect \in DOMAIN collects
    BY DEF TypeOK, HoldsRow
  <2>3. Honest(req[p], rows, collects)
    BY HonestMeans
  <2>4. Honest(req[p], rows', collects')
    BY <2>2, <2>3, HonestKept DEF Grown
  <2>5. QED BY <2>1, <2>4
<1>2. QED BY <1>1, HonestMeans

LEMMA HonestStep ==
  ASSUME TypeOK, IdsAnswer, InFlightIsHonest, [Next]_vars
  PROVE  InFlightIsHonest'
<1>0. /\ req \in [Requests -> Request] /\ Grown
      /\ \A r \in Requests : Honest(req[r], rows, collects)
  BY StepGrows, HonestMeans DEF TypeOK
<1>1. ASSUME NEW r \in Requests, Finish(r) PROVE InFlightIsHonest'
  BY <1>0, <1>1, IdleHonest, HonestMove DEF Finish
<1>2. ASSUME NEW r \in Requests, StartSubmit(r) PROVE InFlightIsHonest'
  <2>1. PICK l \in Leads, u \in Utrs :
           req' = [req EXCEPT ![r] = [IdleReq EXCEPT !.pc = "submit", !.lead = l,
                                                     !.utr = u, !.left = Checks]]
    BY <1>2 DEF StartSubmit
  <2> DEFINE q == [IdleReq EXCEPT !.pc = "submit", !.lead = l, !.utr = u,
                                  !.left = Checks]
  <2>2. q.pc = "submit"
    BY IdleTyped DEF Request
  <2> HIDE DEF q
  <2>3. Honest(q, rows', collects')
    BY <2>2 DEF Honest, HoldsEvent
  <2>4. QED BY <1>0, <2>1, <2>3, HonestMove DEF q
<1>3. ASSUME NEW r \in Requests, StartOrder(r) PROVE InFlightIsHonest'
  <2>1. PICK l \in Leads :
           req' = [req EXCEPT ![r] = [IdleReq EXCEPT !.pc = "order", !.lead = l,
                                                     !.left = {"verified"}]]
    BY <1>3 DEF StartOrder
  <2> DEFINE q == [IdleReq EXCEPT !.pc = "order", !.lead = l, !.left = {"verified"}]
  <2>2. q.pc = "order"
    BY IdleTyped DEF Request
  <2> HIDE DEF q
  <2>3. Honest(q, rows', collects')
    BY <2>2 DEF Honest, HoldsEvent
  <2>4. QED BY <1>0, <2>1, <2>3, HonestMove DEF q
<1>4. ASSUME NEW r \in Requests, CheckVerified(r) \/ CheckPending(r) \/ CheckUtr(r)
      PROVE  InFlightIsHonest'
  <2>1. PICK check \in Checks : Passed(r, check)
    BY <1>4 DEF CheckVerified, CheckPending, CheckUtr, Checks
  <2> DEFINE q == [req[r] EXCEPT !.left = @ \ {check}]
  <2>2. q.pc \in {"submit", "order"}
    BY <1>0, <1>4 DEF Request, CheckVerified, CheckPending, CheckUtr
  <2>3. req' = [req EXCEPT ![r] = q]
    BY <2>1 DEF Passed
  <2> HIDE DEF q
  <2>4. Honest(q, rows', collects')
    BY <2>2 DEF Honest, HoldsEvent
  <2>5. QED BY <1>0, <2>3, <2>4, HonestMove
<1>5. ASSUME NEW r \in Requests, CollectRequest(r) PROVE InFlightIsHonest'
  <2> DEFINE q == [req[r] EXCEPT !.pc = "orderRow", !.collect = Len(collects) + 1]
  <2>1. /\ q.pc = "orderRow" /\ req' = [req EXCEPT ![r] = q]
        /\ q.lead = req[r].lead /\ q.collect = Len(collects) + 1
    BY <1>0, <1>5 DEF Request, CollectRequest
  <2> HIDE DEF q
  <2>4. PICK c \in Collect : collects' = Append(collects, c) /\ c.lead = req[r].lead
    BY <1>5, CollectMade
  <2>5. collects'[Len(collects) + 1] = c
    BY <2>4 DEF TypeOK
  <2>2. Honest(q, rows', collects')
    BY <2>1, <2>4, <2>5 DEF Honest, HoldsEvent
  <2>3. QED BY <1>0, <2>1, <2>2, HonestMove
<1>6. ASSUME NEW r \in Requests, StartReview(r) PROVE InFlightIsHonest'
  <2>1. PICK i \in DOMAIN rows, v \in {"verified", "rejected"} :
           /\ rows[i].method = "qr"
           /\ req' = [req EXCEPT ![r] =
                [IdleReq EXCEPT !.pc = IF v = "verified" THEN "review" ELSE "reviewWrite",
                                !.row = i, !.verdict = v]]
    BY <1>6 DEF StartReview
  <2> DEFINE q == [IdleReq EXCEPT !.pc = IF v = "verified" THEN "review" ELSE "reviewWrite",
                                  !.row = i, !.verdict = v]
  <2>2. q.row = i /\ q.pc \in {"review", "reviewWrite"}
    BY IdleTyped DEF Request
  <2> HIDE DEF q
  <2>3. UNCHANGED <<rows, collects>>
    BY <1>6 DEF StartReview
  <2>4. Honest(q, rows', collects')
    BY <2>1, <2>2, <2>3 DEF Honest, HoldsEvent
  <2>5. QED BY <1>0, <2>1, <2>4, HonestMove DEF q
<1>7. ASSUME NEW r \in Requests, ReviewLook(r) PROVE InFlightIsHonest'
  <2> DEFINE q == [req[r] EXCEPT !.pc = "reviewWrite"]
  <2>1. q.pc = "reviewWrite" /\ q.row = req[r].row
    BY <1>0 DEF Request
  <2>2. /\ req[r].pc = "review" /\ UNCHANGED <<rows, collects>>
        /\ req' = [req EXCEPT ![r] = q]
    BY <1>7 DEF ReviewLook
  <2> HIDE DEF q
  <2>3. Honest(q, rows', collects')
    BY <1>0, <2>1, <2>2 DEF Honest, HoldsEvent
  <2>4. QED BY <1>0, <2>2, <2>3, HonestMove
<1>8. ASSUME NEW r \in Requests, NEW e \in Events, Deliver(r, e) PROVE InFlightIsHonest'
  <2> DEFINE q == [IdleReq EXCEPT !.pc = IF event[e] = "absent" THEN "store" ELSE "match",
                                  !.event = e]
  <2>1. q.event = e /\ q.pc \in {"store", "match"}
    BY IdleTyped DEF Request
  <2>2. /\ req' = [req EXCEPT ![r] = q] /\ UNCHANGED <<rows, collects>>
        /\ Happened(e)
    BY <1>8 DEF Deliver
  <2> HIDE DEF q
  <2>3. Honest(q, rows', collects')
    BY <2>1, <2>2 DEF Honest, HoldsEvent, Happened
  <2>4. QED BY <1>0, <2>2, <2>3, HonestMove
<1>9. ASSUME NEW r \in Requests, StoreEvent(r) PROVE InFlightIsHonest'
  <2>1. CASE Finish(r)
    BY <2>1, <1>1
  <2>2. CASE ~ Finish(r)
    <3> DEFINE q == [req[r] EXCEPT !.pc = "match"]
    <3>1. q.pc = "match" /\ q.event = req[r].event
      BY <1>0 DEF Request
    <3>2. /\ req' = [req EXCEPT ![r] = q] /\ UNCHANGED <<rows, collects>>
          /\ req[r].pc = "store"
      BY <1>9, <2>2 DEF StoreEvent
    <3> HIDE DEF q
    <3>3. Honest(q, rows', collects')
      BY <1>0, <3>1, <3>2 DEF Honest, HoldsEvent
    <3>4. QED BY <1>0, <3>2, <3>3, HonestMove
  <2>3. QED BY <2>1, <2>2
<1>10. ASSUME NEW r \in Requests, MatchPayment(r) PROVE InFlightIsHonest'
  <2>1. PICK i \in Matching(req[r].event) :
           req' = [req EXCEPT ![r].row = i, ![r].seen = rows[i].status,
                     ![r].pc = IF req[r].event[2] = "failed" THEN "write" ELSE "look"]
    BY <1>10 DEF MatchPayment
  <2> DEFINE seen == rows[i].status
             pc == IF req[r].event[2] = "failed" THEN "write" ELSE "look"
             q == Matched(req[r], i, seen, pc)
  <2>2. i \in DOMAIN rows /\ i \in Nat /\ rows[i] \in Row
    BY DEF Matching, TypeOK
  <2>3. q.row = i /\ q.event = req[r].event /\ q.pc = pc
    <3>1. req[r] \in Request /\ seen \in Statuses /\ pc \in {"write", "look"}
      BY <1>0, <2>2 DEF Row, Statuses
    <3> HIDE DEF seen, pc
    <3>2. QED BY <2>2, <3>1, MatchedTyped
  <2>4. req' = [req EXCEPT ![r] = q]
    BY <2>1 DEF Matched
  <2> HIDE DEF q
  <2>5. /\ UNCHANGED <<rows, collects>>
        /\ req[r].pc = "match" /\ req[r].event[2] # "other"
    BY <1>10 DEF MatchPayment
  <2>8. rows[i].method = "gateway" /\ AnswersFor(req[r].event[1], rows[i].lead)
    BY <2>2 DEF Matching, IdsAnswer, AnswersFor
  <2>9. Honest(req[r], rows, collects)
    BY <1>0
  <2>6. Honest(q, rows', collects')
    BY <2>3, <2>5, <2>8, <2>9 DEF Honest, HoldsEvent, AnswersFor
  <2>7. QED BY <1>0, <2>4, <2>6, HonestMove
<1>11. ASSUME NEW r \in Requests, LookForDuplicate(r) PROVE InFlightIsHonest'
  <2> DEFINE d == ~ (Verified(rows[req[r].row].lead) \subseteq {req[r].row})
             q == [req[r] EXCEPT !.pc = "write", !.dup = d]
  <2>1. req' = [req EXCEPT ![r] = q]
    BY <1>11 DEF LookForDuplicate
  <2> HIDE DEF d
  <2>2. q.pc = "write" /\ q.row = req[r].row /\ q.event = req[r].event
    BY <1>0 DEF Request
  <2> HIDE DEF q
  <2>3. UNCHANGED <<rows, collects>> /\ req[r].pc = "look"
    BY <1>11 DEF LookForDuplicate
  <2>4. Honest(q, rows', collects')
    BY <1>0, <2>2, <2>3 DEF Honest, HoldsEvent
  <2>5. QED BY <1>0, <2>1, <2>4, HonestMove
<1>12. ASSUME Settle \/ UNCHANGED vars PROVE InFlightIsHonest'
  <2>1. UNCHANGED req
    BY <1>12 DEF Settle, vars
  <2>2. \A p \in Requests : /\ req[p].pc \in HoldsRow => req[p].row \in DOMAIN rows
                            /\ req[p].pc = "orderRow" => req[p].collect \in DOMAIN collects
    BY DEF TypeOK, HoldsRow
  <2>3. QED BY <1>0, <2>1, <2>2, HonestKept, HonestMeans DEF Grown
<1>13. CASE Fault
  <2>1. PICK lost \in SUBSET Requests :
           req' = [r \in Requests |-> IF r \in lost THEN IdleReq ELSE req[r]]
    BY <1>13 DEF Fault
  <2>2. UNCHANGED <<rows, collects>>
    BY <1>13 DEF Fault
  <2>3. QED BY <1>0, <2>1, <2>2, IdleHonest, HonestMeans
<1>14. QED
  BY <1>1, <1>2, <1>3, <1>4, <1>5, <1>6, <1>7, <1>8, <1>9, <1>10, <1>11, <1>12, <1>13
     DEF Next, Portal, Webhook, CreateQrRow, CreateGatewayRow, ReviewWrite, Refuse,
         NothingToApply, ApplyEvent, ApplyConflict

-----------------------------------------------------------------------------
(* The invariants and the action property *)

LEMMA InvariantInit == Init => IInv
BY IdleTyped DEF Init, IInv, AtMostOneVerified, GatewayRowsFollowRazorpay,
                 IdsAnswer, InFlightIsHonest

LEMMA InvariantStep == TypeOK /\ IInv /\ [Next]_vars => IInv'
BY OneVerifiedStep, FollowStep, HonestStep DEF IInv

LEMMA Invariant == Spec => [](TypeOK /\ IInv)
<1>1. Init => TypeOK /\ IInv
  BY TypeInit, InvariantInit
<1>2. TypeOK /\ IInv /\ [Next]_vars => (TypeOK /\ IInv)'
  BY TypeStep, InvariantStep
<1>3. QED BY <1>1, <1>2, PTL DEF Spec

\* A lead never has two verified payments, whatever reviews and webhooks
\* verify at once: the partial unique index, checked when a transaction
\* commits, is what carries the proof; the queries before it are not needed.
THEOREM OneVerifiedPerLead == Spec => []AtMostOneVerified
BY Invariant, PTL DEF IInv

\* A gateway payment is verified only if Razorpay captured a collect request
\* that was made for its lead or names it in its notes, and rejected only if
\* such a request failed: whatever the notes of clients, whichever id an event
\* is matched by, and whatever ids earlier events have left on the payment.
THEOREM GatewayPaymentsFollow == Spec => []GatewayRowsFollowRazorpay
BY Invariant, PTL DEF IInv

LEMMA ReviewedStays ==
  ASSUME TypeOK, IInv, [Next]_vars,
         NEW i \in DOMAIN rows, rows[i].method = "qr", rows[i].status # "pending"
  PROVE  rows'[i] = rows[i]
<1>0. rows \in Seq(Row) /\ InFlightIsHonest
  BY DEF TypeOK, IInv
<1>1. CASE UNCHANGED rows
  BY <1>1
<1>2. CASE \E l \in Leads, m \in {"qr", "gateway"}, u \in Utrs \cup {NoUtr}, d \in Ids :
              Inserted(l, m, u, d)
  BY <1>0, <1>2, RowsAppended DEF Inserted, RowAppends
<1>3. ASSUME NEW r \in Requests, ReviewWrite(r) PROVE rows'[i] = rows[i]
  <2>1. /\ req[r].row \in DOMAIN rows /\ req[r].verdict \in Statuses
        /\ rows[req[r].row].ids \in Ids
        /\ rows' = [rows EXCEPT ![req[r].row] =
                      Settled(rows[req[r].row], req[r].verdict, rows[req[r].row].ids)]
        /\ req[r].row # i
    BY <1>3, ReviewStep DEF Statuses
  <2>2. QED BY <1>0, <2>1, RowDecided DEF RowSettles
<1>4. ASSUME NEW r \in Requests, ApplyEvent(r) PROVE rows'[i] = rows[i]
  <2>1. /\ req[r].row \in DOMAIN rows /\ Outcome(r) \in Statuses /\ IdsAfter(r) \in Ids
        /\ rows' = [rows EXCEPT ![req[r].row] =
                      Settled(rows[req[r].row], Outcome(r), IdsAfter(r))]
        /\ req[r].row # i
    BY <1>0, <1>4, ApplyStep
  <2>2. QED BY <1>0, <2>1, RowDecided DEF RowSettles
<1>5. QED BY <1>0, <1>1, <1>2, <1>3, <1>4, StepKinds

\* A reviewed QR payment is never changed again: the second of two reviewers
\* finds it decided, and no webhook is ever matched to it.
THEOREM ReviewsAreFinal == Spec => ReviewIsFinal
<1>1. TypeOK /\ IInv /\ [Next]_vars =>
        [\A i \in DOMAIN rows :
           rows[i].method = "qr" /\ rows[i].status # "pending" => rows'[i] = rows[i]]_vars
  BY ReviewedStays
<1>2. QED BY <1>1, Invariant, PTL DEF Spec, ReviewIsFinal

-----------------------------------------------------------------------------
(* Refinement of PaymentLedger *)

EntryOf(p) == [lead |-> p.lead, method |-> p.method, status |-> p.status]
View(s) == [i \in DOMAIN s |-> EntryOf(s[i])]

LEMMA ViewOfRows == LedgerView = View(rows) /\ LedgerView' = View(rows')
BY DEF LedgerView, View, EntryOf

\* Payment k of s gets status st.
Decided(s, k, st) == [s EXCEPT ![k].status = st]

LEMMA EntryTyped ==
  ASSUME NEW p \in Row
  PROVE  /\ EntryOf(p) \in Ledger!Entry
         /\ EntryOf(p).lead = p.lead /\ EntryOf(p).method = p.method
         /\ EntryOf(p).status = p.status
BY DEF EntryOf, Row, Ledger!Entry, Ledger!Methods

LEMMA EntryDecided ==
  ASSUME NEW p \in Row, NEW s \in Statuses, NEW d \in Ids
  PROVE  [EntryOf(p) EXCEPT !.status = s] = EntryOf(Settled(p, s, d))
BY DEF EntryOf, Settled, Row

LEMMA ViewTyped ==
  ASSUME NEW s \in Seq(Row)
  PROVE  /\ View(s) \in Seq(Ledger!Entry)
         /\ DOMAIN View(s) = DOMAIN s /\ Len(View(s)) = Len(s)
         /\ \A i \in DOMAIN s : View(s)[i] = EntryOf(s[i])
<1>1. Len(s) \in Nat /\ DOMAIN s = 1 .. Len(s) /\ \A i \in 1 .. Len(s) : s[i] \in Row
  OBVIOUS
<1>2. View(s) = [i \in 1 .. Len(s) |-> EntryOf(s[i])]
  BY <1>1 DEF View
<1>3. \A i \in 1 .. Len(s) : EntryOf(s[i]) \in Ledger!Entry
  BY <1>1, EntryTyped
<1>4. View(s) \in [1 .. Len(s) -> Ledger!Entry]
  BY <1>2, <1>3
<1>5. View(s) \in Seq(Ledger!Entry)
  BY <1>1, <1>4
<1>6. QED BY <1>1, <1>2, <1>4, <1>5

LEMMA ViewAppended ==
  ASSUME NEW s \in Seq(Row), NEW p \in Row
  PROVE  View(Append(s, p)) = Append(View(s), EntryOf(p))
<1>1. /\ Append(s, p) \in Seq(Row) /\ Len(s) \in Nat
      /\ Len(Append(s, p)) = Len(s) + 1
      /\ DOMAIN Append(s, p) = 1 .. Len(s) + 1
      /\ Append(s, p)[Len(s) + 1] = p
      /\ \A i \in 1 .. Len(s) : Append(s, p)[i] = s[i]
  OBVIOUS
<1>2. /\ View(s) \in Seq(Ledger!Entry) /\ Len(View(s)) = Len(s)
      /\ \A i \in 1 .. Len(s) : View(s)[i] = EntryOf(s[i])
  BY ViewTyped
<1>3. /\ Append(View(s), EntryOf(p)) \in Seq(Ledger!Entry)
      /\ DOMAIN Append(View(s), EntryOf(p)) = 1 .. Len(s) + 1
      /\ Append(View(s), EntryOf(p))[Len(s) + 1] = EntryOf(p)
      /\ \A i \in 1 .. Len(s) : Append(View(s), EntryOf(p))[i] = EntryOf(s[i])
  BY <1>1, <1>2, EntryTyped
<1>4. /\ View(Append(s, p)) \in Seq(Ledger!Entry)
      /\ Len(View(Append(s, p))) = Len(s) + 1
      /\ \A i \in 1 .. Len(s) + 1 : View(Append(s, p))[i] = EntryOf(Append(s, p)[i])
  BY <1>1, ViewTyped
<1>5. \A i \in 1 .. Len(s) + 1 : i \in 1 .. Len(s) \/ i = Len(s) + 1
  BY <1>1
<1> DEFINE t == Append(s, p)
           v == View(t)
           a == Append(View(s), EntryOf(p))
<1>6. \A i \in 1 .. Len(s) + 1 : a[i] = v[i]
  BY <1>1, <1>3, <1>4, <1>5
<1>7. /\ v \in Seq(Ledger!Entry) /\ a \in Seq(Ledger!Entry)
      /\ Len(v) = Len(s) + 1 /\ Len(a) = Len(s) + 1
  BY <1>1, <1>2, <1>3, <1>4, EntryTyped
<1> HIDE DEF v, a
<1>8. v = a
  BY <1>6, <1>7, SeqEqual
<1>9. QED BY <1>8 DEF v, a

LEMMA ViewDecided ==
  ASSUME NEW s \in Seq(Row), NEW k \in DOMAIN s, NEW st \in Statuses, NEW d \in Ids
  PROVE  View([s EXCEPT ![k] = Settled(s[k], st, d)]) = Decided(View(s), k, st)
<1>1. /\ Len(s) \in Nat /\ DOMAIN s = 1 .. Len(s) /\ \A i \in 1 .. Len(s) : s[i] \in Row
  OBVIOUS
<1>2. View(s) = [i \in 1 .. Len(s) |-> EntryOf(s[i])]
  BY <1>1 DEF View
<1>3. [EntryOf(s[k]) EXCEPT !.status = st] = EntryOf(Settled(s[k], st, d))
  BY <1>1, EntryDecided
<1>4. [s EXCEPT ![k] = Settled(s[k], st, d)] =
        [i \in 1 .. Len(s) |-> IF i = k THEN Settled(s[k], st, d) ELSE s[i]]
  BY <1>1
<1>5. View([s EXCEPT ![k] = Settled(s[k], st, d)]) =
        [i \in 1 .. Len(s) |-> EntryOf(IF i = k THEN Settled(s[k], st, d) ELSE s[i])]
  BY <1>4 DEF View
<1>6. [View(s) EXCEPT ![k].status = st] =
        [i \in 1 .. Len(s) |->
           IF i = k THEN [EntryOf(s[k]) EXCEPT !.status = st] ELSE EntryOf(s[i])]
  BY <1>1, <1>2
<1>7. QED BY <1>3, <1>5, <1>6 DEF Decided

LEMMA OpenStep ==
  ASSUME TypeOK, NEW l \in Leads, NEW m \in {"qr", "gateway"},
         NEW u \in Utrs \cup {NoUtr}, NEW d \in Ids, Insert(l, m, u, d)
  PROVE  Ledger!Open
<1> DEFINE p == [lead |-> l, method |-> m, utr |-> u, status |-> "pending", ids |-> d]
           e == [lead |-> l, method |-> m, status |-> "pending"]
<1>1. p \in Row /\ EntryOf(p) = e
  BY DEF Row, Ids, EntryOf
<1>2. rows \in Seq(Row) /\ rows' = Append(rows, p)
  BY DEF TypeOK, Insert
<1> HIDE DEF p
<1>3. LedgerView' = Append(LedgerView, e)
  BY <1>1, <1>2, ViewOfRows, ViewAppended
<1>4. QED BY <1>3 DEF Ledger!Open, Ledger!Methods

\* Writing the status a payment has already changes nothing the ledger shows.
LEMMA ViewUnchanged ==
  ASSUME TypeOK, NEW i \in DOMAIN rows, NEW d \in Ids,
         rows' = [rows EXCEPT ![i] = Settled(rows[i], rows[i].status, d)]
  PROVE  UNCHANGED LedgerView
<1>1. rows \in Seq(Row) /\ rows[i] \in Row
  BY DEF TypeOK
<1>2. rows[i].status \in Statuses
  BY <1>1 DEF Row, Statuses
<1>3. View(rows') = Decided(View(rows), i, rows[i].status)
  BY <1>1, <1>2, ViewDecided
<1>4. /\ i \in DOMAIN View(rows) /\ View(rows)[i] = EntryOf(rows[i])
      /\ View(rows) \in Seq(Ledger!Entry)
  BY <1>1, ViewTyped
<1>5. [EntryOf(rows[i]) EXCEPT !.status = rows[i].status] = EntryOf(rows[i])
  BY <1>1 DEF EntryOf, Row
<1>6. Decided(View(rows), i, rows[i].status) = View(rows)
  BY <1>4, <1>5 DEF Decided
<1>7. QED BY <1>3, <1>6, ViewOfRows

LEMMA DecideStep ==
  ASSUME TypeOK, NEW i \in DOMAIN rows, NEW s \in {"verified", "rejected"},
         NEW d \in Ids, rows' = [rows EXCEPT ![i] = Settled(rows[i], s, d)],
         rows[i].status = "pending" \/ rows[i].method = "gateway",
         AtMostOneVerified'
  PROVE  Ledger!Decide
<1>1. rows \in Seq(Row) /\ s \in Statuses
  BY DEF TypeOK, Statuses
<1>2. LedgerView' = [LedgerView EXCEPT ![i].status = s]
  <2>2. LedgerView' = Decided(LedgerView, i, s)
    BY <1>1, ViewOfRows, ViewDecided
  <2>3. QED BY <2>2 DEF Decided
<1>3. /\ DOMAIN LedgerView = DOMAIN rows
      /\ LedgerView[i].status = "pending" \/ LedgerView[i].method = "gateway"
  <2>1. rows[i] \in Row
    BY <1>1
  <2>2. QED BY <1>1, <2>1, ViewTyped, ViewOfRows, EntryTyped
<1>4. Ledger!OneVerifiedEach(LedgerView')
  <2>1. rows' \in Seq(Row)
    BY <1>1, RowDecided DEF RowSettles
  <2>2. /\ DOMAIN LedgerView' = DOMAIN rows'
        /\ \A j \in DOMAIN rows' : /\ LedgerView'[j].lead = rows'[j].lead
                                   /\ LedgerView'[j].status = rows'[j].status
    <3>1. \A j \in DOMAIN rows' : rows'[j] \in Row
      BY <2>1
    <3>2. /\ DOMAIN View(rows') = DOMAIN rows'
          /\ \A j \in DOMAIN rows' : View(rows')[j] = EntryOf(rows'[j])
      BY <2>1, ViewTyped
    <3>3. \A j \in DOMAIN rows' : /\ EntryOf(rows'[j]).lead = rows'[j].lead
                                  /\ EntryOf(rows'[j]).status = rows'[j].status
      BY <3>1, EntryTyped
    <3>4. LedgerView' = View(rows')
      BY ViewOfRows
    <3>5. DOMAIN LedgerView' = DOMAIN rows'
      BY <3>2, <3>4
    <3>6. ASSUME NEW j \in DOMAIN rows'
          PROVE  LedgerView'[j].lead = rows'[j].lead /\ LedgerView'[j].status = rows'[j].status
      <4>1. LedgerView'[j] = EntryOf(rows'[j])
        BY <3>2, <3>4
      <4>2. QED BY <3>3, <4>1
    <3>7. QED BY <3>5, <3>6
  <2>3. QED BY <2>2 DEF AtMostOneVerified, Ledger!OneVerifiedEach
<1>5. QED BY <1>2, <1>3, <1>4 DEF Ledger!Decide

LEMMA LedgerStep == TypeOK /\ IInv /\ [Next]_vars => [Ledger!Next]_LedgerView
<1> SUFFICES ASSUME TypeOK, IInv, [Next]_vars
             PROVE  Ledger!Open \/ Ledger!Decide \/ UNCHANGED LedgerView
  BY DEF Ledger!Next
<1>0. rows \in Seq(Row) /\ InFlightIsHonest /\ AtMostOneVerified'
  BY InvariantStep DEF TypeOK, IInv
<1>1. CASE UNCHANGED rows
  BY <1>1, ViewOfRows
<1>2. CASE \E l \in Leads, m \in {"qr", "gateway"}, u \in Utrs \cup {NoUtr}, d \in Ids :
              Inserted(l, m, u, d)
  BY <1>2, OpenStep DEF Inserted
<1>3. ASSUME NEW r \in Requests, ReviewWrite(r) PROVE Ledger!Decide
  BY <1>0, <1>3, ReviewStep, DecideStep
<1>4. ASSUME NEW r \in Requests, ApplyEvent(r)
      PROVE  Ledger!Decide \/ UNCHANGED LedgerView
  <2>1. /\ req[r].row \in DOMAIN rows /\ Outcome(r) \in Statuses /\ IdsAfter(r) \in Ids
        /\ rows' = [rows EXCEPT ![req[r].row] =
                      Settled(rows[req[r].row], Outcome(r), IdsAfter(r))]
        /\ rows[req[r].row].method = "gateway"
        /\ Outcome(r) = rows[req[r].row].status \/ Outcome(r) # "pending"
    BY <1>0, <1>4, ApplyStep
  <2>2. CASE Outcome(r) = rows[req[r].row].status
    BY <2>1, <2>2, ViewUnchanged
  <2>3. CASE Outcome(r) # "pending"
    <3>1. Outcome(r) \in {"verified", "rejected"}
      BY <2>1, <2>3 DEF Statuses
    <3>2. QED BY <1>0, <2>1, <3>1, DecideStep
  <2>4. QED BY <2>1, <2>2, <2>3
<1>5. QED BY <1>0, <1>1, <1>2, <1>3, <1>4, StepKinds

\* The requests implement the ledger: every step of theirs opens one pending
\* payment, decides one as PaymentLedger allows, or leaves all of them alone.
THEOREM LedgerIsImplemented == Spec => ImplementsLedger
<1>1. Init => Ledger!Init
  BY DEF Init, Ledger!Init, LedgerView
<1>2. QED
  BY <1>1, LedgerStep, Invariant, PTL DEF Spec, ImplementsLedger, Ledger!Spec
=============================================================================
