------------------------- MODULE OfflineQueue_proofs -------------------------
(***************************************************************************)
(* Proofs about OfflineQueue for every set of users, items and versions    *)
(* and any number of flushes, sessions and faults: type correctness, what  *)
(* was queued is kept, and what goes out is repeated for a reason only, in *)
(* the session of its owner, and a queued update takes the place of its    *)
(* older versions.  At the end, what is proved about the screens that show *)
(* leads (LeadViews, in the instance of MCLeadViews), for every set of     *)
(* executives, districts, leads and filters, every page size and any number *)
(* of changes.                                                             *)
(***************************************************************************)
EXTENDS OfflineQueue, MCLeadViews, FiniteSetTheorems, SequenceTheorems,
        WellFoundedInduction, TLAPS

-----------------------------------------------------------------------------
(* The inductive invariant *)

\* The flushes that will submit item i.
Holders(i) == {f \in Running : i \in flush[f].todo \ flush[f].made}

\* Item i is in no queue, and no flush or hydrate can bring it back.
Nowhere(i) ==
  /\ queue[i] = "out" /\ disk[i] = "out"
  /\ reading.on => reading.queue[i] = "out"
  /\ \A f \in Running : i \notin flush[f].todo /\ flush[f].next[i] = "out"

\* An item that must not be lost is on the disk and in every older queue that
\* may yet be written.
Anchored(i) ==
  /\ disk[i] # "out"
  /\ reading.on => reading.queue[i] # "out"
  /\ \A f \in Running : i \in flush[f].todo \/ flush[f].next[i] # "out"

\* A queued item can go out again without a further reason when every flush
\* that runs would leave it in the queue.
Due(i) ==
  IF queue[i] # "out" /\ \A f \in Running : flush[f].next[i] # "out" THEN 1 ELSE 0

\* The server may yet take an item as often as that will happen.
CreditOK(i) ==
  /\ i \in fresh => credit[i] >= 1
  /\ Cardinality(Holders(i)) + Due(i) <= credit[i]

\* A newer version is not submitted yet, or need not be kept, or has replaced
\* the older one for good.
Replaced(new, old) ==
  new \in fresh \/ new \in settled \/ (old \notin fresh /\ Nowhere(old))

Kept == \A i \in Items \ fresh : i \in settled \/ Anchored(i)
Unseen == \A i \in fresh : Nowhere(i)
Versions == \A new, old \in Items : <<new, old>> \in Rival => Replaced(new, old)
Credits == \A i \in Items : CreditOK(i)
Sessions ==
  /\ SubmittedByOwner
  /\ user.id = Nobody => \A f \in Running : flush[f].late

IInv ==
  /\ TypeOK /\ RepeatsAreExplained
  /\ Kept /\ Unseen /\ Versions /\ Credits /\ Sessions

-----------------------------------------------------------------------------
(* The credit of an item *)

LEMMA HoldersFinite ==
  \A i : /\ IsFiniteSet(Holders(i)) /\ Cardinality(Holders(i)) \in Nat
         /\ Cardinality(Holders(i)) <= MaxCredit
<1> SUFFICES ASSUME NEW i
             PROVE  /\ IsFiniteSet(Holders(i)) /\ Cardinality(Holders(i)) \in Nat
                    /\ Cardinality(Holders(i)) <= MaxCredit
  OBVIOUS
<1>1. Holders(i) \in SUBSET Flushes
  BY DEF Holders, Running
<1>2. /\ IsFiniteSet(Holders(i)) /\ Cardinality(Holders(i)) <= Cardinality(Flushes)
      /\ IsFiniteSet(Flushes) /\ Cardinality(Flushes) <= MaxCredit
  BY <1>1, FS_Subset, QueueAssumption
<1>3. Cardinality(Holders(i)) \in Nat /\ Cardinality(Flushes) \in Nat /\ MaxCredit \in Nat
  BY <1>2, FS_CardinalityType, QueueAssumption
<1>4. QED BY <1>2, <1>3

\* A flush that does not hold an item leaves room for one more credit.
LEMMA RoomForOne ==
  ASSUME NEW i, NEW f \in Flushes, f \notin Holders(i)
  PROVE  /\ Cardinality(Holders(i)) + 1 <= MaxCredit
         /\ Cardinality(Holders(i) \cup {f}) = Cardinality(Holders(i)) + 1
<1>1. Holders(i) \cup {f} \in SUBSET Flushes
  BY DEF Holders, Running
<1>2. IsFiniteSet(Flushes) /\ Cardinality(Flushes) <= MaxCredit /\ MaxCredit \in Nat
  BY QueueAssumption
<1>3. Cardinality(Holders(i) \cup {f}) <= Cardinality(Flushes)
  BY <1>1, <1>2, FS_Subset
<1>4. Cardinality(Holders(i) \cup {f}) = Cardinality(Holders(i)) + 1
  BY HoldersFinite, FS_AddElement
<1>5. Cardinality(Flushes) \in Nat /\ Cardinality(Holders(i)) \in Nat
  BY <1>2, HoldersFinite, FS_CardinalityType
<1>6. QED BY <1>2, <1>3, <1>4, <1>5

LEMMA OneLess ==
  ASSUME NEW i, NEW f \in Holders(i)
  PROVE  /\ Cardinality(Holders(i) \ {f}) = Cardinality(Holders(i)) - 1
         /\ Cardinality(Holders(i)) >= 1
<1>1. Cardinality(Holders(i) \ {f}) = Cardinality(Holders(i)) - 1
  BY HoldersFinite, FS_RemoveElement
<1>2. Cardinality(Holders(i) \ {f}) \in Nat
  BY HoldersFinite, FS_Subset, FS_CardinalityType
<1>3. QED BY <1>1, <1>2, HoldersFinite

LEMMA GrantSound ==
  ASSUME credit \in [Items -> 0 .. MaxCredit], NEW S, Grant(S)
  PROVE  /\ credit' \in [Items -> 0 .. MaxCredit]
         /\ \A i \in Items : credit'[i] >= credit[i]
         /\ \A i \in Items : i \in S => credit'[i] >= credit[i] + 1 \/ credit'[i] = MaxCredit
BY QueueAssumption DEF Grant

\* A call that its credit or a reason pays for is no repetition.
LEMMA TakeSound ==
  ASSUME credit \in [Items -> 0 .. MaxCredit], NEW i \in Items,
         NEW calls \in Nat, NEW reasons \in Nat, Take(i, calls, reasons),
         reasons <= calls, calls <= credit[i] + reasons
  PROVE  /\ credit' \in [Items -> 0 .. MaxCredit] /\ repeated' = repeated
         /\ credit'[i] = credit[i] + reasons - calls
         /\ \A j \in Items \ {i} : credit'[j] = credit[j]
BY QueueAssumption DEF Take

-----------------------------------------------------------------------------
(* The first state *)

LEMMA Begins == Init => IInv
<1> SUFFICES ASSUME Init PROVE IInv
  OBVIOUS
<1>1. Running = {} /\ \A i : Holders(i) = {} /\ Cardinality(Holders(i)) = 0
  <2>1. Running = {}
    BY DEF Init, Running, NoFlush
  <2>2. QED BY <2>1, FS_EmptySet DEF Holders
<1>2. TypeOK
  BY QueueAssumption DEF Init, TypeOK, Queue, Empty, NoFlush
<1>3. Kept /\ Unseen /\ Versions /\ Sessions /\ RepeatsAreExplained
  BY <1>1, QueueAssumption
     DEF Init, Kept, Unseen, Versions, Replaced, Nowhere, Empty, Sessions, SubmittedByOwner,
         RepeatsAreExplained
<1>4. Credits
  BY <1>1 DEF Init, Credits, CreditOK, Due, Empty
<1>5. QED BY <1>2, <1>3, <1>4 DEF IInv

-----------------------------------------------------------------------------
(* The steps of a flush on one of its items *)

FlushRecord ==
  [pc : {"idle", "run"}, todo : SUBSET Items, next : Queue, made : SUBSET Leads,
   late : BOOLEAN]

\* What the type invariant says of the flushes.
FlushOK ==
  /\ flush \in [Flushes -> FlushRecord]
  /\ \A f \in Flushes : \A i \in flush[f].todo : flush[f].next[i] = "out"

\* What it says of the rest.
RestOK ==
  /\ user \in [id : Users \cup {Nobody}, leaving : BOOLEAN]
  /\ queue \in Queue /\ disk \in Queue
  /\ reading \in [on : BOOLEAN, queue : Queue]
  /\ fresh \subseteq Items /\ settled \subseteq Items /\ repeated \subseteq Items
  /\ credit \in [Items -> 0 .. MaxCredit]
  /\ sessions \in 0 .. MaxSessions /\ faults \in 0 .. MaxFaults

LEMMA FlushTyped == /\ IInv => FlushOK /\ RestOK /\ TypeOK
                    /\ FlushOK /\ RestOK <=> TypeOK
BY DEF IInv, TypeOK, FlushOK, RestOK, FlushRecord

LEMMA TypedNext == (FlushOK' /\ RestOK' <=> TypeOK')
BY DEF TypeOK, FlushOK, RestOK, FlushRecord

\* What a step of flush f on item i does to another item.
SameElsewhere(f, i) ==
  /\ \A g \in Flushes \ {f} : flush'[g] = flush[g]
  /\ flush'[f].pc = "run" /\ flush'[f].late = flush[f].late
  /\ flush'[f].todo \subseteq flush[f].todo
  /\ \A j \in Items \ {i} :
        /\ j \in flush'[f].todo <=> j \in flush[f].todo
        /\ j \in flush'[f].made <=> j \in flush[f].made
        /\ flush'[f].next[j] = flush[f].next[j]
        /\ credit'[j] >= credit[j]

LEMMA HandlingStep ==
  ASSUME IInv, TypeOK', NEW f \in Flushes, NEW i \in Items, Current(f, i),
         SameElsewhere(f, i), UNCHANGED <<user, queue, disk, reading, fresh, repeated>>,
         settled \subseteq settled',
         i \in settled' \/ i \in flush'[f].todo \/ flush'[f].next[i] # "out",
         Cardinality(Holders(i)') + Due(i)' <= credit'[i]
  PROVE  IInv'
<1>1. Running' = Running /\ f \in Running /\ i \notin fresh /\ ~ Nowhere(i)
  BY DEF IInv, Unseen, Nowhere, Current, Running, SameElsewhere
<1>2. Kept'
  BY <1>1 DEF IInv, Kept, Anchored, SameElsewhere, Running
<1>3. \A j \in Items \ {i} : Nowhere(j) => Nowhere(j)'
  BY <1>1 DEF Nowhere, SameElsewhere, Running
<1>4. Unseen' /\ Versions'
  <2>1. Unseen'
    BY <1>1, <1>3, QueueAssumption DEF IInv, TypeOK, Unseen
  <2>2. Versions'
    BY <1>1, <1>3 DEF IInv, Versions, Replaced
  <2>3. QED BY <2>1, <2>2
<1>5. Credits'
  <2>1. ASSUME NEW j \in Items \ {i} PROVE CreditOK(j)'
    <3>1. Holders(j)' = Holders(j)
      BY <1>1 DEF Holders, Running, SameElsewhere
    <3>2. Due(j)' = Due(j)
      BY <1>1 DEF Due, Running, SameElsewhere
    <3>3. CreditOK(j) /\ credit[j] \in Nat /\ credit'[j] \in Nat /\ credit'[j] >= credit[j]
      BY QueueAssumption DEF IInv, Credits, TypeOK, SameElsewhere
    <3>4. Cardinality(Holders(j)) \in Nat /\ Due(j) \in Nat
      BY HoldersFinite DEF Due
    <3>5. QED BY <3>1, <3>2, <3>3, <3>4 DEF CreditOK
  <2>2. CreditOK(i)'
    BY <1>1 DEF CreditOK
  <2>3. QED BY <2>1, <2>2 DEF Credits
<1>6. Sessions'
  BY <1>1 DEF IInv, Sessions, SubmittedByOwner, SameElsewhere, Running
<1>7. QED BY <1>2, <1>4, <1>5, <1>6 DEF IInv, RepeatsAreExplained

\* A flush that has an item in hand would not leave it in the queue.
LEMMA InHand ==
  ASSUME IInv, NEW f \in Flushes, NEW i \in Items, Current(f, i)
  PROVE  /\ Due(i) = 0 /\ Cardinality(Holders(i)) <= credit[i]
         /\ i \notin flush[f].made <=> f \in Holders(i)
         /\ f \in Running /\ flush[f].next[i] = "out"
<1>1. f \in Running /\ flush[f].next[i] = "out"
  BY DEF IInv, TypeOK, Current, Running
<1>2. Due(i) = 0
  BY <1>1 DEF Due
<1>3. CreditOK(i) /\ Cardinality(Holders(i)) \in Nat
  BY HoldersFinite DEF IInv, Credits
<1>4. i \notin flush[f].made <=> f \in Holders(i)
  BY <1>1 DEF Holders, Current
<1>5. QED BY <1>1, <1>2, <1>3, <1>4 DEF CreditOK

\* Flush f is past item i, which it keeps as `left`.
IsPast(f, i, left) ==
  /\ \A g \in Flushes \ {f} : flush'[g] = flush[g]
  /\ flush'[f].pc = "run" /\ flush'[f].late = flush[f].late
  /\ flush'[f].todo = flush[f].todo \ {i} /\ flush'[f].made = flush[f].made
  /\ flush'[f].next[i] = left
  /\ \A j \in Items \ {i} : flush'[f].next[j] = flush[f].next[j]

LEMMA PastTyped ==
  ASSUME IInv, NEW f \in Flushes, NEW i \in Items, NEW left \in {"out", "ready", "stuck"},
         Current(f, i), Past(f, i, left)
  PROVE  FlushOK' /\ IsPast(f, i, left)
<1>1. flush \in [Flushes -> FlushRecord] /\ FlushOK
  BY FlushTyped DEF FlushOK
<1>2. /\ \A g \in Flushes \ {f} : flush'[g] = flush[g]
      /\ flush'[f] = [flush[f] EXCEPT !.todo = @ \ {i}, !.next = [@ EXCEPT ![i] = left]]
  BY <1>1 DEF Past, FlushRecord
<1>3. /\ flush'[f].pc = "run" /\ flush'[f].late = flush[f].late
      /\ flush'[f].todo = flush[f].todo \ {i} /\ flush'[f].made = flush[f].made
      /\ flush'[f].next = [flush[f].next EXCEPT ![i] = left]
  BY <1>1, <1>2 DEF Current, FlushRecord
<1>4. flush[f].next \in Queue /\ flush'[f].next \in Queue
  BY <1>1, <1>3 DEF Queue, FlushRecord
<1>5. flush' \in [Flushes -> FlushRecord]
  <2>1. PICK next \in Queue, todo \in SUBSET Items :
          next = [flush[f].next EXCEPT ![i] = left] /\ todo = flush[f].todo \ {i}
    BY <1>1, <1>3, <1>4 DEF FlushRecord
  <2>2. flush' = [flush EXCEPT ![f] = [flush[f] EXCEPT !.todo = todo, !.next = next]]
    BY <2>1 DEF Past
  <2>3. flush[f] \in FlushRecord
    BY <1>1
  <2>4. [flush[f] EXCEPT !.todo = todo, !.next = next] \in FlushRecord
    BY <2>1, <2>3 DEF FlushRecord
  <2>5. QED BY <1>1, <2>2, <2>4
<1>6. ASSUME NEW j \in flush'[f].todo PROVE flush'[f].next[j] = "out"
  BY <1>1, <1>3, <1>4 DEF FlushOK, Queue
<1>7. FlushOK'
  <2>1. ASSUME NEW g \in Flushes, NEW j \in flush'[g].todo PROVE flush'[g].next[j] = "out"
    <3>1. CASE g = f
      BY <1>6, <2>1, <3>1
    <3>2. CASE g # f
      BY <1>1, <1>2, <2>1, <3>2 DEF FlushOK
    <3>3. QED BY <3>1, <3>2
  <2>2. QED BY <1>5, <2>1 DEF FlushOK
<1>8. QED BY <1>2, <1>3, <1>4, <1>7 DEF IsPast, Queue

LEMMA PastElsewhere ==
  ASSUME NEW f, NEW i, NEW left, IsPast(f, i, left),
         \A j \in Items \ {i} : credit'[j] >= credit[j]
  PROVE  SameElsewhere(f, i)
BY DEF IsPast, SameElsewhere

\* The flush no longer holds the item.
LEMMA HoldersAfter ==
  ASSUME IInv, NEW f \in Flushes, NEW i \in Items, Current(f, i),
         \A g \in Flushes \ {f} : flush'[g] = flush[g], flush'[f].pc = "run",
         i \notin flush'[f].todo \/ i \in flush'[f].made
  PROVE  Holders(i)' = Holders(i) \ {f}
BY DEF Holders, Running, Current

LEMMA DueNext ==
  ASSUME NEW f \in Flushes, NEW i \in Items, flush'[f].pc = "run",
         flush'[f].next[i] = "out"
  PROVE  Due(i)' = 0
BY DEF Due, Running

LEMMA DueBound == \A i : Due(i) \in {0, 1} /\ Due(i)' \in {0, 1}
BY DEF Due

\* One holder less, and no more credit spent than that frees.
LEMMA Freed ==
  ASSUME IInv, NEW f \in Flushes, NEW i \in Items, Current(f, i), i \notin flush[f].made
  PROVE  /\ Cardinality(Holders(i) \ {f}) = Cardinality(Holders(i)) - 1
         /\ Cardinality(Holders(i)) \in Nat /\ credit[i] \in Nat
         /\ 1 <= Cardinality(Holders(i)) /\ Cardinality(Holders(i)) <= credit[i]
         /\ 1 <= credit[i]
<1>1. f \in Holders(i) /\ Cardinality(Holders(i)) <= credit[i]
  BY InHand
<1>2. credit[i] \in Nat
  BY QueueAssumption DEF IInv, TypeOK
<1>3. QED BY <1>1, <1>2, OneLess, HoldersFinite

LEMMA ItemDoneStep ==
  ASSUME IInv, NEW f \in Flushes, NEW i \in Items, ItemDone(f, i) PROVE IInv'
<1>1. /\ Current(f, i) /\ Past(f, i, "out") /\ settled' = settled \cup {i}
      /\ i \in Leads => i \in flush[f].made
      /\ UNCHANGED <<user, queue, disk, reading, fresh, sessions, faults>>
  BY DEF ItemDone
<1>2. /\ credit \in [Items -> 0 .. MaxCredit] /\ RestOK
      /\ i \in Leads <=> i \in flush[f].made
  BY <1>1, FlushTyped DEF RestOK, FlushOK, FlushRecord
<1>3. /\ repeated' = repeated /\ credit' \in [Items -> 0 .. MaxCredit]
      /\ \A j \in Items \ {i} : credit'[j] = credit[j]
      /\ i \in Leads => credit'[i] = credit[i]
      /\ i \notin Leads => credit'[i] = credit[i] - 1
  <2>1. CASE i \in Leads
    BY <2>1, <1>2 DEF ItemDone
  <2>2. CASE i \notin Leads
    <3>1. Take(i, 1, 0)
      BY <2>2 DEF ItemDone
    <3>2. 1 <= credit[i] /\ credit[i] \in Nat
      BY <1>1, <1>2, <2>2, Freed
    <3>3. 1 <= credit[i] + 0 /\ credit[i] + 0 - 1 = credit[i] - 1
      BY <3>2
    <3>4. QED BY <1>2, <2>2, <3>1, <3>3, TakeSound
  <2>3. QED BY <2>1, <2>2
<1>4. FlushOK' /\ IsPast(f, i, "out")
  BY <1>1, PastTyped
<1>5. TypeOK' /\ SameElsewhere(f, i)
  <2>1. TypeOK'
    BY <1>1, <1>2, <1>3, <1>4, TypedNext DEF RestOK
  <2>2. \A j \in Items \ {i} : credit'[j] >= credit[j]
    BY <1>2, <1>3, QueueAssumption
  <2>3. QED BY <1>4, <2>1, <2>2, PastElsewhere
<1>6. Cardinality(Holders(i)') + Due(i)' <= credit'[i]
  <2>1. /\ Holders(i)' = Holders(i) \ {f} /\ Due(i)' = 0
    BY <1>1, <1>4, HoldersAfter, DueNext DEF IsPast
  <2>2. CASE i \in Leads
    <3>1. Holders(i) \ {f} = Holders(i) /\ Cardinality(Holders(i)) <= credit[i]
      BY <1>1, <2>2, InHand
    <3>2. QED BY <1>3, <2>1, <2>2, <3>1, HoldersFinite
  <2>3. CASE i \notin Leads
    BY <1>1, <1>2, <1>3, <2>1, <2>3, Freed
  <2>4. QED BY <2>2, <2>3
<1>7. QED BY <1>1, <1>3, <1>5, <1>6, HandlingStep

\* A flush creates the lead of an item: once, or twice with a reason.
LEMMA CreatedStep ==
  ASSUME IInv, NEW f \in Flushes, NEW i \in Items, Current(f, i),
         i \in Leads \ flush[f].made,
         NEW calls \in Nat, NEW reasons \in Nat, calls = reasons + 1,
         Take(i, calls, reasons),
         flush' = [flush EXCEPT ![f].made = @ \cup {i}],
         UNCHANGED <<user, queue, disk, reading, fresh, settled, sessions>>,
         faults' \in 0 .. MaxFaults
  PROVE  IInv'
<1>1. /\ flush \in [Flushes -> FlushRecord] /\ FlushOK /\ RestOK
      /\ credit \in [Items -> 0 .. MaxCredit]
  BY FlushTyped DEF FlushOK, RestOK
<1>2. /\ repeated' = repeated /\ credit' \in [Items -> 0 .. MaxCredit]
      /\ \A j \in Items \ {i} : credit'[j] = credit[j]
      /\ credit'[i] = credit[i] - 1
  <2>1. 1 <= credit[i] /\ credit[i] \in Nat
    BY Freed
  <2>2. reasons <= calls /\ calls <= credit[i] + reasons
        /\ credit[i] + reasons - calls = credit[i] - 1
    BY <2>1
  <2>3. QED BY <1>1, <2>2, TakeSound
<1>3. /\ flush' \in [Flushes -> FlushRecord]
      /\ \A g \in Flushes \ {f} : flush'[g] = flush[g]
      /\ flush'[f] = [flush[f] EXCEPT !.made = @ \cup {i}]
  BY <1>1 DEF FlushRecord
<1>4. /\ flush'[f].pc = "run" /\ flush'[f].late = flush[f].late
      /\ flush'[f].todo = flush[f].todo /\ flush'[f].next = flush[f].next
      /\ flush'[f].made = flush[f].made \cup {i}
  BY <1>1, <1>3 DEF Current, FlushRecord
<1>5. TypeOK'
  <2>1. FlushOK'
    BY <1>1, <1>3, <1>4 DEF FlushOK
  <2>2. QED BY <1>1, <1>2, <2>1, TypedNext DEF RestOK
<1>6. SameElsewhere(f, i)
  BY <1>1, <1>2, <1>3, <1>4, QueueAssumption DEF SameElsewhere
<1>7. Cardinality(Holders(i)') + Due(i)' <= credit'[i]
  <2>1. Holders(i)' = Holders(i) \ {f}
    BY <1>3, <1>4, HoldersAfter
  <2>2. Due(i)' = 0
    BY <1>4, InHand, DueNext
  <2>3. QED BY <1>2, <2>1, <2>2, Freed
<1>8. i \in flush'[f].todo
  BY <1>4 DEF Current
<1>9. QED BY <1>2, <1>5, <1>6, <1>7, <1>8, HandlingStep

LEMMA CreateLeadStep ==
  ASSUME IInv, NEW f \in Flushes, NEW i \in Items,
         CreateLead(f, i) \/ CreateLeadTwice(f, i)
  PROVE  IInv'
<1>1. faults \in 0 .. MaxFaults /\ MaxFaults \in Nat
  BY FlushTyped, QueueAssumption DEF RestOK
<1>2. CASE CreateLead(f, i)
  <2>1. 1 = 0 + 1
    OBVIOUS
  <2>2. QED BY <1>1, <1>2, <2>1, CreatedStep DEF CreateLead
<1>3. CASE CreateLeadTwice(f, i)
  <2>1. 2 = 1 + 1 /\ faults' \in 0 .. MaxFaults
    BY <1>1, <1>3 DEF CreateLeadTwice, Fault
  <2>2. QED BY <1>3, <2>1, CreatedStep DEF CreateLeadTwice
<1>4. QED BY <1>2, <1>3

LEMMA ItemRefusedStep ==
  ASSUME IInv, NEW f \in Flushes, NEW i \in Items, ItemRefused(f, i) PROVE IInv'
<1>1. PICK left \in {"ready", "stuck"} : Past(f, i, left)
  BY DEF ItemRefused
<1>2. /\ Current(f, i) /\ Grant(IF i \in flush[f].made THEN {i} ELSE {})
      /\ UNCHANGED <<user, queue, disk, reading, fresh, repeated, settled, sessions, faults>>
  BY DEF ItemRefused
<1>3. /\ RestOK /\ credit \in [Items -> 0 .. MaxCredit]
      /\ credit' \in [Items -> 0 .. MaxCredit]
      /\ \A j \in Items : credit'[j] >= credit[j]
      /\ i \in flush[f].made => credit'[i] >= credit[i] + 1 \/ credit'[i] = MaxCredit
  <2>1. RestOK /\ credit \in [Items -> 0 .. MaxCredit]
    BY FlushTyped DEF RestOK
  <2>2. QED BY <1>2, <2>1, GrantSound
<1>4. FlushOK' /\ IsPast(f, i, left) /\ left # "out"
  BY <1>1, <1>2, PastTyped
<1>5. TypeOK' /\ SameElsewhere(f, i)
  <2>1. TypeOK'
    BY <1>2, <1>3, <1>4, TypedNext DEF RestOK
  <2>2. QED BY <1>3, <1>4, <2>1, PastElsewhere
<1>6. Cardinality(Holders(i)') + Due(i)' <= credit'[i]
  <2>1. Due(i)' \in {0, 1}
    BY DueBound
  <2>2. credit[i] \in Nat /\ credit'[i] \in Nat /\ credit'[i] >= credit[i]
    BY <1>3, QueueAssumption
  <2>3. Holders(i)' = Holders(i) \ {f}
    BY <1>2, <1>4, HoldersAfter DEF IsPast
  <2>4. CASE i \in flush[f].made
    <3>1. Holders(i) \ {f} = Holders(i) /\ Cardinality(Holders(i)) <= credit[i]
          /\ f \notin Holders(i)
      BY <1>2, <2>4, InHand
    <3>2. Cardinality(Holders(i)) + 1 <= MaxCredit /\ Cardinality(Holders(i)) \in Nat
      BY <3>1, RoomForOne, HoldersFinite
    <3>3. Cardinality(Holders(i)') = Cardinality(Holders(i))
      BY <2>3, <3>1
    <3>4. credit'[i] >= credit[i] + 1 \/ credit'[i] = MaxCredit
      BY <1>3, <2>4
    <3>5. QED BY <2>1, <2>2, <3>1, <3>2, <3>3, <3>4
  <2>5. CASE i \notin flush[f].made
    BY <1>2, <2>1, <2>2, <2>3, <2>5, Freed
  <2>6. QED BY <2>4, <2>5
<1>7. flush'[f].next[i] # "out"
  BY <1>4 DEF IsPast
<1>8. QED BY <1>2, <1>5, <1>6, <1>7, HandlingStep

LEMMA AnswerLostStep ==
  ASSUME IInv, NEW f \in Flushes, NEW i \in Items, AnswerLost(f, i) PROVE IInv'
<1>1. /\ Current(f, i) /\ i \notin flush[f].made /\ Fault
      /\ Take(i, 1, 1) /\ Past(f, i, "ready")
      /\ UNCHANGED <<user, queue, disk, reading, fresh, settled, sessions>>
  BY DEF AnswerLost
<1>2. credit \in [Items -> 0 .. MaxCredit] /\ RestOK
  BY FlushTyped DEF RestOK
<1>3. /\ credit' \in [Items -> 0 .. MaxCredit] /\ repeated' = repeated
      /\ credit'[i] = credit[i] /\ \A j \in Items \ {i} : credit'[j] = credit[j]
  <2>1. credit[i] \in Nat
    BY <1>2, QueueAssumption
  <2>2. 1 \in Nat /\ 1 <= 1 /\ 1 <= credit[i] + 1 /\ credit[i] + 1 - 1 = credit[i]
    BY <2>1
  <2>3. QED BY <1>1, <1>2, <2>2, TakeSound
<1>4. FlushOK' /\ IsPast(f, i, "ready")
  BY <1>1, PastTyped
<1>5. TypeOK' /\ SameElsewhere(f, i)
  <2>1. faults' \in 0 .. MaxFaults
    BY <1>1, <1>2, QueueAssumption DEF RestOK, Fault
  <2>2. TypeOK'
    BY <1>1, <1>2, <1>3, <1>4, <2>1, TypedNext DEF RestOK
  <2>3. \A j \in Items \ {i} : credit'[j] >= credit[j]
    BY <1>2, <1>3, QueueAssumption
  <2>4. QED BY <1>4, <2>2, <2>3, PastElsewhere
<1>6. Cardinality(Holders(i)') + Due(i)' <= credit'[i]
  <2>1. Holders(i)' = Holders(i) \ {f}
    BY <1>1, <1>4, HoldersAfter DEF IsPast
  <2>2. Due(i)' \in {0, 1}
    BY DueBound
  <2>3. /\ Cardinality(Holders(i) \ {f}) = Cardinality(Holders(i)) - 1
        /\ Cardinality(Holders(i)) \in Nat /\ Cardinality(Holders(i)) <= credit[i]
        /\ credit[i] \in Nat
    BY <1>1, Freed
  <2>4. QED BY <1>3, <2>1, <2>2, <2>3
<1>7. flush'[f].next[i] # "out"
  BY <1>4 DEF IsPast
<1>8. QED BY <1>1, <1>3, <1>5, <1>6, <1>7, HandlingStep

-----------------------------------------------------------------------------
(* Steps that write the queue *)

\* What a queue and the flushes that run say of an item: no flush holds it.
LEMMA UnheldCredit ==
  ASSUME IInv, NEW i \in Items, \A f \in Running : i \notin flush[f].todo
  PROVE  Holders(i) = {} /\ Cardinality(Holders(i)) = 0
<1>1. Holders(i) = {}
  BY DEF Holders
<1>2. QED BY <1>1, FS_EmptySet

\* The screens enqueue an item that was not submitted yet.
LEMMA EnqueueStep ==
  ASSUME IInv, NEW i \in Items, Submittable(i), Enqueue(i), fresh' = fresh \ {i},
         UNCHANGED <<user, reading, flush, repeated, sessions>>,
         faults' \in 0 .. MaxFaults, credit' \in [Items -> 0 .. MaxCredit],
         \A j \in Items : credit'[j] = credit[j]
  PROVE  IInv'
<1> DEFINE rivals == {old \in Items : <<i, old>> \in Rival /\ queue[old] # "out"}
<1> DEFINE written == [j \in Items |-> IF j = i THEN "ready"
                                       ELSE IF j \in rivals THEN "out" ELSE queue[j]]
<1> DEFINE raced == IF Running # {} \/ reading.on THEN {i} ELSE {}
<1>1. /\ queue' = written /\ disk' = written
      /\ settled' = settled \cup Unread \cup (rivals \cup raced)
  BY DEF Enqueue, Save
<1> HIDE DEF rivals, written, raced
<1>2. RestOK /\ FlushOK /\ TypeOK /\ queue \in Queue
  BY FlushTyped DEF RestOK
<1>3. /\ \A j \in Items \ {i} : written[j] = IF j \in rivals THEN "out" ELSE queue[j]
      /\ written[i] = "ready" /\ written \in Queue
  BY <1>2 DEF written, Queue
<1>4. /\ rivals \subseteq Items /\ raced \subseteq Items
      /\ \A old \in Items : old \in rivals <=> <<i, old>> \in Rival /\ queue[old] # "out"
      /\ Running # {} \/ reading.on => i \in raced
  BY DEF rivals, raced
<1>5. TypeOK'
  <2>1. RestOK'
    BY <1>1, <1>2, <1>3, <1>4 DEF RestOK, Unread
  <2>2. FlushOK'
    BY <1>2 DEF FlushOK
  <2>3. QED BY <2>1, <2>2, TypedNext
<1>6. /\ Running' = Running /\ i \in fresh /\ Nowhere(i)
      /\ \A old \in Items : <<i, old>> \in Rival => old \notin fresh /\ old # i
      /\ settled \subseteq settled'
  BY <1>1 DEF Running, Submittable, IInv, Unseen
<1>7. Kept'
  <2> SUFFICES ASSUME NEW j \in Items, j \notin fresh', j \notin settled' PROVE Anchored(j)'
    BY DEF Kept
  <2>1. CASE j = i
    BY <1>1, <1>3, <1>4, <1>6, <2>1 DEF Anchored
  <2>2. CASE j # i
    <3>1. Anchored(j) /\ j \notin Unread /\ j \notin rivals
      BY <1>1, <1>6, <2>2 DEF IInv, Kept
    <3>2. queue[j] # "out"
      BY <3>1 DEF Anchored, Unread
    <3>3. QED BY <1>1, <1>3, <1>6, <2>2, <3>1, <3>2 DEF Anchored
  <2>3. QED BY <2>1, <2>2
<1>8. \A j \in Items \ {i} : Nowhere(j) => Nowhere(j)'
  BY <1>1, <1>3, <1>6 DEF Nowhere
<1>9. Unseen'
  BY <1>2, <1>8 DEF IInv, Unseen, RestOK
<1>10. Versions'
  <2> SUFFICES ASSUME NEW new \in Items, NEW old \in Items, <<new, old>> \in Rival
               PROVE  Replaced(new, old)'
    BY DEF Versions
  <2>1. CASE new = i
    <3>1. old \notin fresh /\ old # i
      BY <1>6, <2>1
    <3>2. CASE i \in settled'
      BY <2>1, <3>2 DEF Replaced
    <3>3. CASE i \notin settled'
      <4>1. Running = {} /\ ~ reading.on
        BY <1>1, <1>4, <3>3
      <4>2. queue'[old] = "out" /\ disk'[old] = "out"
        BY <1>1, <1>3, <1>4, <2>1, <3>1
      <4>3. QED BY <1>6, <3>1, <4>1, <4>2 DEF Replaced, Nowhere
    <3>4. QED BY <3>2, <3>3
  <2>2. CASE new # i
    <3>1. Replaced(new, old)
      BY DEF IInv, Versions
    <3>2. old \notin fresh => old # i
      BY <1>6
    <3>3. QED BY <1>6, <1>8, <2>2, <3>1, <3>2 DEF Replaced
  <2>3. QED BY <2>1, <2>2
<1>11. Credits'
  <2> SUFFICES ASSUME NEW j \in Items PROVE CreditOK(j)'
    BY DEF Credits
  <2>1. CreditOK(j) /\ credit[j] \in Nat /\ credit'[j] = credit[j] /\ Holders(j)' = Holders(j)
    BY <1>2, <1>6, QueueAssumption DEF IInv, Credits, RestOK, Holders
  <2>2. CASE j = i
    <3>1. Cardinality(Holders(i)) = 0 /\ credit[i] >= 1
      BY <1>6, <2>1, <2>2, UnheldCredit DEF Nowhere, CreditOK
    <3>2. Due(i)' \in {0, 1}
      BY DueBound
    <3>3. QED BY <1>6, <2>1, <2>2, <3>1, <3>2 DEF CreditOK
  <2>3. CASE j # i
    <3>1. Due(j)' = Due(j) \/ Due(j)' = 0
      BY <1>1, <1>3, <1>6, <2>3 DEF Due
    <3>2. Cardinality(Holders(j)) \in Nat /\ Due(j) \in {0, 1}
      BY HoldersFinite, DueBound
    <3>3. QED BY <2>1, <3>1, <3>2 DEF CreditOK
  <2>4. QED BY <2>2, <2>3
<1>12. Sessions'
  BY <1>6 DEF IInv, Sessions, SubmittedByOwner
<1>13. RepeatsAreExplained'
  BY DEF IInv, RepeatsAreExplained
<1>14. QED BY <1>5, <1>7, <1>9, <1>10, <1>11, <1>12, <1>13 DEF IInv

LEMMA SubmitOnlineStep ==
  ASSUME IInv, NEW i \in Items, SubmitOnline(i) PROVE IInv'
<1>1. /\ i \in fresh /\ fresh' = fresh \ {i} /\ settled' = settled \cup {i}
      /\ Take(i, 1, 0) \/ UNCHANGED <<credit, repeated>>
      /\ UNCHANGED <<user, queue, disk, reading, flush, sessions, faults>>
  BY DEF SubmitOnline, Submittable
<1>2. RestOK /\ FlushOK /\ credit \in [Items -> 0 .. MaxCredit]
  BY FlushTyped DEF RestOK
<1>3. CreditOK(i) /\ Nowhere(i) /\ credit[i] \in Nat /\ credit[i] >= 1
  BY <1>1, <1>2, QueueAssumption DEF IInv, Unseen, Credits, CreditOK
<1>4. /\ repeated' = repeated /\ credit' \in [Items -> 0 .. MaxCredit]
      /\ \A j \in Items \ {i} : credit'[j] = credit[j]
  <2>1. CASE Take(i, 1, 0)
    <3>1. 1 <= credit[i] + 0
      BY <1>3
    <3>2. QED BY <1>2, <2>1, <3>1, TakeSound
  <2>2. CASE UNCHANGED <<credit, repeated>>
    BY <1>2, <2>2
  <2>3. QED BY <1>1, <2>1, <2>2
<1>5. TypeOK'
  <2>1. RestOK'
    BY <1>1, <1>2, <1>4 DEF RestOK
  <2>2. FlushOK'
    BY <1>1, <1>2 DEF FlushOK
  <2>3. QED BY <2>1, <2>2, TypedNext
<1>6. Running' = Running /\ \A j \in Items : Nowhere(j)' = Nowhere(j)
  BY <1>1 DEF Running, Nowhere
<1>7. Kept' /\ Unseen' /\ Versions'
  <2>1. Kept'
    BY <1>1, <1>6 DEF IInv, Kept, Anchored
  <2>2. Unseen'
    BY <1>1, <1>2, <1>6 DEF IInv, Unseen, RestOK
  <2>3. Versions'
    BY <1>1, <1>6 DEF IInv, Versions, Replaced
  <2>4. QED BY <2>1, <2>2, <2>3
<1>8. Credits'
  <2> SUFFICES ASSUME NEW j \in Items PROVE CreditOK(j)'
    BY DEF Credits
  <2>1. CreditOK(j) /\ Holders(j)' = Holders(j) /\ Due(j)' = Due(j)
    BY <1>1, <1>6 DEF IInv, Credits, Holders, Due
  <2>2. CASE j = i
    <3>1. Cardinality(Holders(i)) = 0 /\ Due(i) = 0
      BY <1>3, UnheldCredit DEF Nowhere, Due
    <3>2. credit'[i] >= 0
      BY <1>4
    <3>3. QED BY <1>1, <2>1, <2>2, <3>1, <3>2 DEF CreditOK
  <2>3. CASE j # i
    BY <1>1, <1>4, <2>1, <2>3 DEF CreditOK
  <2>4. QED BY <2>2, <2>3
<1>9. Sessions' /\ RepeatsAreExplained'
  BY <1>1, <1>4, <1>6 DEF IInv, Sessions, SubmittedByOwner, RepeatsAreExplained
<1>10. QED BY <1>5, <1>7, <1>8, <1>9 DEF IInv

LEMMA SubmitStep ==
  ASSUME IInv, NEW i \in Items, Submit(i) PROVE IInv'
<1>1. RestOK /\ credit \in [Items -> 0 .. MaxCredit] /\ faults \in 0 .. MaxFaults
  BY FlushTyped DEF RestOK
<1>2. CASE SubmitOffline(i)
  BY <1>1, <1>2, EnqueueStep DEF SubmitOffline
<1>3. CASE SubmitLost(i)
  <2>1. /\ Submittable(i) /\ Fault /\ fresh' = fresh \ {i} /\ Take(i, 1, 1) /\ Enqueue(i)
        /\ UNCHANGED <<user, reading, flush, sessions>>
    BY <1>3 DEF SubmitLost
  <2>2. /\ credit' \in [Items -> 0 .. MaxCredit] /\ repeated' = repeated
        /\ \A j \in Items : credit'[j] = credit[j]
    <3>1. credit[i] \in Nat
      BY <1>1, QueueAssumption
    <3>2. 1 \in Nat /\ 1 <= 1 /\ 1 <= credit[i] + 1 /\ credit[i] + 1 - 1 = credit[i]
      BY <3>1
    <3>3. /\ credit' \in [Items -> 0 .. MaxCredit] /\ repeated' = repeated
          /\ credit'[i] = credit[i] /\ \A j \in Items \ {i} : credit'[j] = credit[j]
      BY <1>1, <2>1, <3>2, TakeSound
    <3>4. QED BY <3>3
  <2>3. faults' \in 0 .. MaxFaults
    BY <1>1, <2>1, QueueAssumption DEF Fault
  <2>4. QED BY <2>1, <2>2, <2>3, EnqueueStep
<1>4. CASE SubmitOnline(i)
  BY <1>4, SubmitOnlineStep
<1>5. QED BY <1>2, <1>3, <1>4 DEF Submit

-----------------------------------------------------------------------------
(* The steps of a session *)

\* A session that begins or ends may clear items, may hydrate, and leaves to the
\* flushes what they have in hand.
LEMMA SessionStep ==
  ASSUME IInv, RestOK', FlushOK', UNCHANGED <<fresh, credit, repeated>>,
         settled \subseteq settled',
         \A j \in Items : /\ queue'[j] \in {queue[j], "out"}
                          /\ disk'[j] \in {disk[j], queue[j], "out"}
                          /\ disk'[j] = "out" => disk[j] = "out" \/ j \in settled',
         reading' = reading \/ reading' = [on |-> TRUE, queue |-> disk'],
         \A f \in Flushes : /\ flush'[f].pc = flush[f].pc /\ flush'[f].todo = flush[f].todo
                            /\ flush'[f].next = flush[f].next /\ flush'[f].made = flush[f].made,
         Sessions'
  PROVE  IInv'
<1>1. Running' = Running /\ Running \subseteq Flushes
  BY DEF Running
<1>2. Kept'
  BY <1>1 DEF IInv, Kept, Anchored
<1>3. \A j \in Items : Nowhere(j) => Nowhere(j)'
  BY <1>1 DEF Nowhere
<1>4. Unseen' /\ Versions'
  <2>1. Unseen'
    BY <1>3 DEF IInv, Unseen, RestOK
  <2>2. Versions'
    BY <1>3 DEF IInv, Versions, Replaced
  <2>3. QED BY <2>1, <2>2
<1>5. Credits'
  <2> SUFFICES ASSUME NEW j \in Items PROVE CreditOK(j)'
    BY DEF Credits
  <2>1. CreditOK(j) /\ Holders(j)' = Holders(j)
    BY <1>1 DEF IInv, Credits, Holders
  <2>2. Due(j)' = Due(j) \/ Due(j)' = 0
    BY <1>1 DEF Due
  <2>3. Cardinality(Holders(j)) \in Nat /\ Due(j) \in {0, 1} /\ credit[j] \in Nat
    BY HoldersFinite, DueBound, QueueAssumption DEF IInv, TypeOK
  <2>4. QED BY <2>1, <2>2, <2>3 DEF CreditOK
<1>6. QED BY <1>2, <1>4, <1>5, TypedNext DEF IInv, RepeatsAreExplained

LEMMA SignInStep == ASSUME IInv, SignIn PROVE IInv'
<1>1. PICK u \in Users : user' = [id |-> u, leaving |-> FALSE]
  BY DEF SignIn
<1>2. /\ user.id = Nobody /\ sessions < MaxSessions /\ sessions' = sessions + 1
      /\ UNCHANGED <<queue, disk, flush, fresh, credit, repeated, settled, faults>>
      /\ reading' = [on |-> TRUE, queue |-> disk']
  BY DEF SignIn, StartHydrate
<1>3. RestOK /\ FlushOK
  BY FlushTyped
<1>4. RestOK' /\ FlushOK'
  BY <1>1, <1>2, <1>3, QueueAssumption DEF RestOK, FlushOK
<1>5. Sessions'
  BY <1>1, <1>2, QueueAssumption DEF IInv, Sessions, SubmittedByOwner, Running
<1>6. QED BY <1>2, <1>4, <1>5, SessionStep

\* Every flush that runs when a session ends is late.
LateNow == flush' = [f \in Flushes |-> [flush[f] EXCEPT !.late = flush[f].pc = "run"]]

LEMMA LateFlushes ==
  ASSUME IInv, LateNow, user' = [id |-> Nobody, leaving |-> FALSE]
  PROVE  /\ FlushOK' /\ Sessions'
         /\ \A f \in Flushes : /\ flush'[f].pc = flush[f].pc /\ flush'[f].todo = flush[f].todo
                               /\ flush'[f].next = flush[f].next
                               /\ flush'[f].made = flush[f].made
<1>1. FlushOK /\ flush \in [Flushes -> FlushRecord]
  BY FlushTyped DEF FlushOK
<1>2. \A f \in Flushes :
        /\ flush'[f].pc = flush[f].pc /\ flush'[f].todo = flush[f].todo
        /\ flush'[f].next = flush[f].next /\ flush'[f].made = flush[f].made
        /\ flush'[f].late = (flush[f].pc = "run")
  BY <1>1 DEF LateNow, FlushRecord
<1>3. flush' \in [Flushes -> FlushRecord]
  BY <1>1 DEF LateNow, FlushRecord
<1>4. FlushOK'
  BY <1>1, <1>2, <1>3 DEF FlushOK
<1>5. Sessions'
  BY <1>2 DEF Sessions, SubmittedByOwner, Running
<1>6. QED BY <1>2, <1>4, <1>5

\* Clearing the items of one user loses no other.
LEMMA Cleared ==
  ASSUME IInv, NEW u, ClearByOwner(u)
  PROVE  /\ queue' \in Queue /\ disk' \in Queue /\ settled' \subseteq Items
         /\ settled \subseteq settled'
         /\ \A j \in Items : /\ queue'[j] \in {queue[j], "out"}
                             /\ disk'[j] \in {disk[j], queue[j], "out"}
                             /\ disk'[j] = "out" => disk[j] = "out" \/ j \in settled'
<1>1. RestOK /\ queue \in Queue /\ disk \in Queue /\ settled \subseteq Items
  BY FlushTyped DEF RestOK
<1>2. QED BY <1>1 DEF ClearByOwner, Save, Unread, Queue

LEMMA SignOutStep == ASSUME IInv, SignOut PROVE IInv'
<1>1. /\ user' = [id |-> Nobody, leaving |-> FALSE] /\ LateNow
      /\ UNCHANGED <<queue, disk, fresh, credit, repeated, settled, sessions, faults>>
      /\ reading' = [on |-> TRUE, queue |-> disk']
  BY DEF SignOut, LateNow, StartHydrate
<1>2. RestOK
  BY FlushTyped
<1>3. RestOK'
  BY <1>1, <1>2 DEF RestOK
<1>4. QED BY <1>1, <1>3, LateFlushes, SessionStep

LEMMA SessionLostStep == ASSUME IInv, SessionLost PROVE IInv'
<1>1. /\ user' = [id |-> Nobody, leaving |-> FALSE] /\ LateNow /\ Fault
      /\ ClearByOwner(user.id)
      /\ UNCHANGED <<fresh, credit, repeated, sessions>>
      /\ reading' = [on |-> TRUE, queue |-> disk']
  BY DEF SessionLost, LateNow, StartHydrate
<1>2. RestOK
  BY FlushTyped
<1>3. faults' \in 0 .. MaxFaults
  BY <1>1, <1>2, QueueAssumption DEF Fault, RestOK
<1>4. RestOK'
  BY <1>1, <1>2, <1>3, Cleared DEF RestOK
<1>5. QED BY <1>1, <1>4, Cleared, LateFlushes, SessionStep

LEMMA BeginSignOutStep == ASSUME IInv, BeginSignOut PROVE IInv'
<1>1. /\ user' = [user EXCEPT !.leaving = TRUE] /\ ClearByOwner(user.id)
      /\ UNCHANGED <<reading, flush, fresh, credit, repeated, sessions, faults>>
  BY DEF BeginSignOut
<1>2. RestOK /\ FlushOK /\ user \in [id : Users \cup {Nobody}, leaving : BOOLEAN]
  BY FlushTyped DEF RestOK
<1>3. /\ user' \in [id : Users \cup {Nobody}, leaving : BOOLEAN] /\ user'.id = user.id
  BY <1>1, <1>2
<1>4. RestOK' /\ FlushOK'
  <2>1. RestOK'
    BY <1>1, <1>2, <1>3, Cleared DEF RestOK
  <2>2. QED BY <1>1, <1>2, <2>1 DEF FlushOK
<1>5. Sessions'
  BY <1>1, <1>3 DEF IInv, Sessions, SubmittedByOwner, Running
<1>6. QED BY <1>1, <1>4, <1>5, Cleared, SessionStep

-----------------------------------------------------------------------------
(* The memory is read from the disk, or lost *)

LEMMA SetQueueStep == ASSUME IInv, SetQueue PROVE IInv'
<1>1. /\ reading.on /\ queue' = reading.queue /\ reading' = NoReading
      /\ Grant({i \in Items : queue[i] = "out" /\ reading.queue[i] # "out"})
      /\ UNCHANGED <<user, disk, flush, fresh, repeated, settled, sessions, faults>>
  BY DEF SetQueue
<1>2. RestOK /\ FlushOK /\ credit \in [Items -> 0 .. MaxCredit]
  BY FlushTyped DEF RestOK
<1>3. /\ credit' \in [Items -> 0 .. MaxCredit]
      /\ \A i \in Items : credit'[i] >= credit[i]
      /\ \A i \in Items : queue[i] = "out" /\ reading.queue[i] # "out" =>
            credit'[i] >= credit[i] + 1 \/ credit'[i] = MaxCredit
  BY <1>1, <1>2, GrantSound
<1>4. TypeOK'
  <2>1. RestOK'
    BY <1>1, <1>2, <1>3 DEF RestOK, NoReading, Empty, Queue
  <2>2. FlushOK'
    BY <1>1, <1>2 DEF FlushOK
  <2>3. QED BY <2>1, <2>2, TypedNext
<1>5. Running' = Running /\ ~ reading'.on
  BY <1>1 DEF Running, NoReading
<1>6. Kept' /\ Unseen' /\ Versions'
  <2>1. Kept'
    BY <1>1, <1>5 DEF IInv, Kept, Anchored
  <2>2. \A j \in Items : Nowhere(j) => Nowhere(j)'
    BY <1>1, <1>5 DEF Nowhere
  <2>3. Unseen'
    BY <1>1, <1>2, <2>2 DEF IInv, Unseen, RestOK
  <2>4. Versions'
    BY <1>1, <2>2 DEF IInv, Versions, Replaced
  <2>5. QED BY <2>1, <2>3, <2>4
<1>7. Credits'
  <2> SUFFICES ASSUME NEW j \in Items PROVE CreditOK(j)'
    BY DEF Credits
  <2>1. CreditOK(j) /\ Holders(j)' = Holders(j) /\ credit[j] \in Nat /\ credit'[j] \in Nat
        /\ credit'[j] >= credit[j] /\ MaxCredit \in Nat \ {0}
    BY <1>1, <1>2, <1>3, <1>5, QueueAssumption DEF IInv, Credits, Holders
  <2>2. Cardinality(Holders(j)) \in Nat /\ Due(j) \in {0, 1} /\ Due(j)' \in {0, 1}
        /\ Cardinality(Holders(j)) <= MaxCredit
    BY HoldersFinite, DueBound
  <2>3. CASE Due(j)' = 0
    BY <1>1, <2>1, <2>2, <2>3 DEF CreditOK
  <2>4. CASE Due(j)' = 1 /\ queue[j] # "out"
    <3>1. Due(j) = 1
      BY <1>1, <1>5, <2>4 DEF Due
    <3>2. QED BY <1>1, <2>1, <2>2, <2>4, <3>1 DEF CreditOK
  <2>5. CASE Due(j)' = 1 /\ queue[j] = "out"
    <3>1. reading.queue[j] # "out" /\ \A f \in Running : flush[f].next[j] # "out"
      BY <1>1, <1>5, <2>5 DEF Due
    <3>2. \A f \in Running : j \notin flush[f].todo
      BY <1>2, <3>1 DEF FlushOK, Running
    <3>3. Cardinality(Holders(j)) = 0
      BY <3>2, UnheldCredit
    <3>4. credit'[j] >= credit[j] + 1 \/ credit'[j] = MaxCredit
      BY <1>3, <2>5, <3>1
    <3>5. credit'[j] >= 1
      BY <2>1, <3>4
    <3>6. QED BY <1>1, <2>1, <2>5, <3>3, <3>5 DEF CreditOK
  <2>6. QED BY <2>2, <2>3, <2>4, <2>5
<1>8. Sessions' /\ RepeatsAreExplained'
  BY <1>1, <1>5 DEF IInv, Sessions, SubmittedByOwner, RepeatsAreExplained
<1>9. QED BY <1>4, <1>6, <1>7, <1>8 DEF IInv

LEMMA KillStep == ASSUME IInv, Kill PROVE IInv'
<1>1. /\ Fault /\ queue' = Empty /\ flush' = [f \in Flushes |-> NoFlush]
      /\ user' = [id |-> Nobody, leaving |-> FALSE]
      /\ Grant({i \in Items : disk[i] # "out" /\ credit[i] = 0})
      /\ UNCHANGED <<disk, fresh, repeated, settled, sessions>>
      /\ reading' = [on |-> TRUE, queue |-> disk']
  BY DEF Kill, StartHydrate
<1>2. RestOK /\ FlushOK /\ credit \in [Items -> 0 .. MaxCredit]
  BY FlushTyped DEF RestOK
<1>3. /\ credit' \in [Items -> 0 .. MaxCredit]
      /\ \A i \in Items : credit'[i] >= credit[i]
  BY <1>1, <1>2, GrantSound
<1>4. TypeOK'
  <2>1. faults' \in 0 .. MaxFaults
    BY <1>1, <1>2, QueueAssumption DEF Fault, RestOK
  <2>2. RestOK'
    BY <1>1, <1>2, <1>3, <2>1 DEF RestOK, Empty, Queue
  <2>3. FlushOK'
    BY <1>1 DEF FlushOK, FlushRecord, NoFlush, Empty, Queue
  <2>4. QED BY <2>2, <2>3, TypedNext
<1>5. Running' = {}
  BY <1>1 DEF Running, NoFlush
<1>6. Kept' /\ Unseen' /\ Versions'
  <2>1. Kept'
    BY <1>1, <1>5 DEF IInv, Kept, Anchored
  <2>2. \A j \in Items : Nowhere(j) => Nowhere(j)'
    BY <1>1, <1>5 DEF Nowhere, Empty
  <2>3. Unseen'
    BY <1>1, <1>2, <2>2 DEF IInv, Unseen, RestOK
  <2>4. Versions'
    BY <1>1, <2>2 DEF IInv, Versions, Replaced
  <2>5. QED BY <2>1, <2>3, <2>4
<1>7. Credits'
  <2> SUFFICES ASSUME NEW j \in Items PROVE CreditOK(j)'
    BY DEF Credits
  <2>1. Holders(j)' = {} /\ Due(j)' = 0
    BY <1>1, <1>5 DEF Holders, Due, Empty
  <2>2. Cardinality(Holders(j)') = 0
    BY <2>1, FS_EmptySet
  <2>3. CreditOK(j) /\ credit[j] \in Nat /\ credit'[j] \in Nat /\ credit'[j] >= credit[j]
    BY <1>2, <1>3, QueueAssumption DEF IInv, Credits
  <2>4. QED BY <1>1, <2>1, <2>2, <2>3 DEF CreditOK
<1>8. Sessions' /\ RepeatsAreExplained'
  BY <1>1, <1>5 DEF IInv, Sessions, SubmittedByOwner, RepeatsAreExplained
<1>9. QED BY <1>4, <1>6, <1>7, <1>8 DEF IInv

-----------------------------------------------------------------------------
(* A flush begins and ends *)

LEMMA StartFlushStep == ASSUME IInv, NEW f \in Flushes, StartFlush(f) PROVE IInv'
<1> DEFINE todo == {i \in Items : Mine(i)}
<1> DEFINE next == [i \in Items |-> IF i \in todo THEN "out" ELSE queue[i]]
<1> DEFINE begun == [pc |-> "run", todo |-> todo, next |-> next, made |-> {}, late |-> FALSE]
<1>1. /\ flush[f].pc = "idle" /\ user.id # Nobody
      /\ flush' = [flush EXCEPT ![f] = begun]
      /\ Grant(IF Running # {} THEN todo ELSE {}) /\ settled' = settled \cup Unread
      /\ UNCHANGED <<user, queue, disk, reading, fresh, repeated, sessions, faults>>
  BY DEF StartFlush
<1>2. RestOK /\ FlushOK /\ credit \in [Items -> 0 .. MaxCredit] /\ queue \in Queue
      /\ flush \in [Flushes -> FlushRecord]
  BY FlushTyped DEF RestOK, FlushOK
<1>3. /\ todo \subseteq Items /\ next \in Queue
      /\ \A i \in Items : i \in todo => /\ queue[i] = "ready" /\ Owner[i] = user.id
                                        /\ next[i] = "out"
      /\ \A i \in Items : i \notin todo => next[i] = queue[i]
  BY <1>2 DEF Mine, Queue
<1> HIDE DEF todo, next
<1>4. /\ flush' \in [Flushes -> FlushRecord] /\ flush'[f] = begun
      /\ \A g \in Flushes \ {f} : flush'[g] = flush[g]
  BY <1>1, <1>2, <1>3 DEF FlushRecord
<1>5. /\ flush'[f].pc = "run" /\ flush'[f].todo = todo /\ flush'[f].next = next
      /\ flush'[f].made = {} /\ flush'[f].late = FALSE
  BY <1>4
<1> HIDE DEF begun
<1>6. /\ credit' \in [Items -> 0 .. MaxCredit]
      /\ \A i \in Items : credit'[i] >= credit[i]
      /\ Running # {} =>
           \A i \in todo : credit'[i] >= credit[i] + 1 \/ credit'[i] = MaxCredit
  BY <1>1, <1>2, <1>3, GrantSound
<1>7. f \notin Running /\ f \in Running' /\ Running' = Running \cup {f}
  BY <1>1, <1>4, <1>5 DEF Running
<1>8. TypeOK'
  <2>1. RestOK'
    BY <1>1, <1>2, <1>6 DEF RestOK, Unread
  <2>2. FlushOK'
    BY <1>2, <1>3, <1>4, <1>5 DEF FlushOK
  <2>3. QED BY <2>1, <2>2, TypedNext
<1>9. Kept'
  <2> SUFFICES ASSUME NEW j \in Items, j \notin fresh', j \notin settled' PROVE Anchored(j)'
    BY DEF Kept
  <2>1. Anchored(j) /\ queue[j] # "out"
    BY <1>1 DEF IInv, Kept, Anchored, Unread
  <2>2. j \in todo \/ next[j] # "out"
    BY <1>3, <2>1
  <2>3. QED BY <1>1, <1>4, <1>5, <1>7, <2>1, <2>2 DEF Anchored, Running
<1>10. \A j \in Items : Nowhere(j) => Nowhere(j)'
  <2> SUFFICES ASSUME NEW j \in Items, Nowhere(j) PROVE Nowhere(j)'
    OBVIOUS
  <2>1. j \notin todo /\ next[j] = "out"
    BY <1>3 DEF Nowhere
  <2>2. QED BY <1>1, <1>4, <1>5, <1>7, <2>1 DEF Nowhere, Running
<1>11. Unseen' /\ Versions'
  <2>1. Unseen'
    BY <1>1, <1>2, <1>10 DEF IInv, Unseen, RestOK
  <2>2. Versions'
    BY <1>1, <1>10 DEF IInv, Versions, Replaced
  <2>3. QED BY <2>1, <2>2
<1>12. Credits'
  <2> SUFFICES ASSUME NEW j \in Items PROVE CreditOK(j)'
    BY DEF Credits
  <2>1. CreditOK(j) /\ credit[j] \in Nat /\ credit'[j] \in Nat /\ credit'[j] >= credit[j]
        /\ (j \in fresh' => credit'[j] >= 1)
    BY <1>1, <1>2, <1>6, QueueAssumption DEF IInv, Credits, CreditOK
  <2>2. f \notin Holders(j) /\ Cardinality(Holders(j)) \in Nat /\ Due(j) \in {0, 1}
    BY <1>7, HoldersFinite, DueBound DEF Holders
  <2>3. CASE j \in todo
    <3>1. Holders(j)' = Holders(j) \cup {f} /\ Due(j)' = 0
      <4>1. Holders(j)' = Holders(j) \cup {f}
        BY <1>4, <1>5, <1>7, <2>3 DEF Holders, Running
      <4>2. flush'[f].next[j] = "out"
        BY <1>3, <1>5, <2>3
      <4>3. QED BY <1>5, <4>1, <4>2, DueNext
    <3>2. /\ Cardinality(Holders(j)') = Cardinality(Holders(j)) + 1
          /\ Cardinality(Holders(j)) + 1 <= MaxCredit
      BY <2>2, <3>1, RoomForOne
    <3>3. CASE Running # {}
      BY <1>6, <2>1, <2>2, <2>3, <3>1, <3>2, <3>3 DEF CreditOK
    <3>4. CASE Running = {}
      <4>1. Due(j) = 1
        BY <1>3, <2>3, <3>4 DEF Due
      <4>2. QED BY <2>1, <2>2, <3>1, <3>2, <4>1 DEF CreditOK
    <3>5. QED BY <3>3, <3>4
  <2>4. CASE j \notin todo
    <3>1. Holders(j)' = Holders(j)
      BY <1>4, <1>5, <1>7, <2>4 DEF Holders, Running
    <3>2. next[j] = queue[j]
      BY <1>3, <2>4
    <3>3. Due(j)' = Due(j)
      BY <1>1, <1>4, <1>5, <1>7, <3>2 DEF Due, Running
    <3>4. QED BY <2>1, <2>2, <3>1, <3>3 DEF CreditOK
  <2>5. QED BY <2>3, <2>4
<1>13. Sessions'
  BY <1>1, <1>3, <1>4, <1>5, <1>7 DEF IInv, Sessions, SubmittedByOwner, Running
<1>14. RepeatsAreExplained'
  BY <1>1 DEF IInv, RepeatsAreExplained
<1>15. QED BY <1>8, <1>9, <1>11, <1>12, <1>13, <1>14 DEF IInv

LEMMA EndFlushStep == ASSUME IInv, NEW f \in Flushes, EndFlush(f) PROVE IInv'
<1> DEFINE next == flush[f].next
<1>1. /\ flush[f].pc = "run" /\ flush[f].todo = {}
      /\ queue' = next /\ disk' = next /\ settled' = settled \cup Unread
      /\ flush' = [flush EXCEPT ![f] = NoFlush]
      /\ Grant({i \in Items : queue[i] = "out" /\ next[i] # "out"})
      /\ UNCHANGED <<user, reading, fresh, repeated, sessions, faults>>
  BY DEF EndFlush, Save
<1>2. RestOK /\ FlushOK /\ credit \in [Items -> 0 .. MaxCredit]
      /\ flush \in [Flushes -> FlushRecord] /\ next \in Queue
  BY FlushTyped DEF RestOK, FlushOK, FlushRecord
<1>3. /\ flush' \in [Flushes -> FlushRecord] /\ flush'[f] = NoFlush
      /\ \A g \in Flushes \ {f} : flush'[g] = flush[g]
  BY <1>1, <1>2 DEF FlushRecord, NoFlush, Empty, Queue
<1>4. f \in Running /\ Running' = Running \ {f}
  BY <1>1, <1>3 DEF Running, NoFlush
<1>5. /\ credit' \in [Items -> 0 .. MaxCredit]
      /\ \A i \in Items : credit'[i] >= credit[i]
      /\ \A i \in Items : queue[i] = "out" /\ next[i] # "out" =>
            credit'[i] >= credit[i] + 1 \/ credit'[i] = MaxCredit
  BY <1>1, <1>2, GrantSound
<1>6. TypeOK'
  <2>1. RestOK'
    BY <1>1, <1>2, <1>5 DEF RestOK, Unread
  <2>2. FlushOK'
    BY <1>2, <1>3 DEF FlushOK, NoFlush
  <2>3. QED BY <2>1, <2>2, TypedNext
<1>7. Kept'
  BY <1>1, <1>3, <1>4 DEF IInv, Kept, Anchored, Running
<1>8. \A j \in Items : Nowhere(j) => Nowhere(j)'
  BY <1>1, <1>3, <1>4 DEF Nowhere, Running
<1>9. Unseen' /\ Versions'
  <2>1. Unseen'
    BY <1>1, <1>2, <1>8 DEF IInv, Unseen, RestOK
  <2>2. Versions'
    BY <1>1, <1>8 DEF IInv, Versions, Replaced
  <2>3. QED BY <2>1, <2>2
<1>10. Credits'
  <2> SUFFICES ASSUME NEW j \in Items PROVE CreditOK(j)'
    BY DEF Credits
  <2>1. CreditOK(j) /\ credit[j] \in Nat /\ credit'[j] \in Nat /\ credit'[j] >= credit[j]
        /\ (j \in fresh' => credit'[j] >= 1)
    BY <1>1, <1>2, <1>5, QueueAssumption DEF IInv, Credits, CreditOK
  <2>2. f \notin Holders(j) /\ Cardinality(Holders(j)) \in Nat
        /\ Due(j) \in {0, 1} /\ Due(j)' \in {0, 1}
    BY <1>1, HoldersFinite, DueBound DEF Holders
  <2>3. Holders(j)' = Holders(j)
    BY <1>3, <1>4, <2>2 DEF Holders, Running
  <2>4. CASE Due(j)' = 0
    BY <2>1, <2>2, <2>3, <2>4 DEF CreditOK
  <2>5. CASE Due(j)' = 1
    <3>1. next[j] # "out" /\ \A g \in Running : flush[g].next[j] # "out"
      BY <1>1, <1>3, <1>4, <2>5 DEF Due, Running
    <3>2. CASE queue[j] # "out"
      <4>1. Due(j) = 1
        BY <3>1, <3>2 DEF Due
      <4>2. QED BY <2>1, <2>2, <2>3, <2>5, <4>1 DEF CreditOK
    <3>3. CASE queue[j] = "out"
      <4>1. credit'[j] >= credit[j] + 1 \/ credit'[j] = MaxCredit
        BY <1>5, <3>1, <3>3
      <4>2. Cardinality(Holders(j)) + 1 <= MaxCredit
        BY <2>2, RoomForOne
      <4>3. Due(j) = 0
        BY <3>3 DEF Due
      <4>4. QED BY <2>1, <2>2, <2>3, <2>5, <4>1, <4>2, <4>3 DEF CreditOK
    <3>4. QED BY <3>2, <3>3
  <2>6. QED BY <2>2, <2>4, <2>5
<1>11. Sessions'
  BY <1>1, <1>3, <1>4 DEF IInv, Sessions, SubmittedByOwner, Running
<1>12. RepeatsAreExplained'
  BY <1>1 DEF IInv, RepeatsAreExplained
<1>13. QED BY <1>6, <1>7, <1>9, <1>10, <1>11, <1>12 DEF IInv

-----------------------------------------------------------------------------
(* The theorems *)

LEMMA Inductive == IInv /\ [Next]_vars => IInv'
<1> SUFFICES ASSUME IInv, [Next]_vars PROVE IInv'
  OBVIOUS
<1>1. ASSUME NEW i \in Items, Submit(i) PROVE IInv'
  BY <1>1, SubmitStep
<1>2. ASSUME NEW f \in Flushes, Work(f) PROVE IInv'
  BY <1>2, StartFlushStep, EndFlushStep, ItemDoneStep, CreateLeadStep, ItemRefusedStep,
     AnswerLostStep DEF Work
<1>3. ASSUME SetQueue \/ SignIn \/ BeginSignOut \/ SignOut \/ SessionLost \/ Kill PROVE IInv'
  BY <1>3, SetQueueStep, SignInStep, BeginSignOutStep, SignOutStep, SessionLostStep, KillStep
<1>4. CASE UNCHANGED vars
  <2>1. UNCHANGED <<user, queue, disk, reading, flush, fresh, credit, repeated, settled,
                    sessions, faults>>
    BY <1>4 DEF vars
  <2>2. RestOK /\ FlushOK
    BY FlushTyped
  <2>3. RestOK' /\ FlushOK'
    BY <2>1, <2>2 DEF RestOK, FlushOK
  <2>4. Sessions'
    BY <2>1 DEF IInv, Sessions, SubmittedByOwner, Running
  <2>5. QED BY <2>1, <2>3, <2>4, SessionStep
<1>5. QED BY <1>1, <1>2, <1>3, <1>4 DEF Next

\* What every step keeps, and the properties below follow from.
THEOREM Invariant == Spec => []IInv
BY Begins, Inductive, PTL DEF Spec

\* Every state is well typed.
THEOREM TypeCorrect == Spec => []TypeOK
<1>1. IInv => TypeOK
  BY DEF IInv
<1>2. QED BY <1>1, Invariant, PTL

\* What was queued is submitted or still in the queue, whatever flushes,
\* hydrations, sign-outs and kills of the app come between, unless it was
\* enqueued under one that wrote back an older queue, cleared or superseded.
THEOREM QueuedKept == Spec => []QueuedIsKept
<1>1. IInv => QueuedIsKept
  BY DEF IInv, Kept, Anchored, QueuedIsKept, Held
<1>2. QED BY <1>1, Invariant, PTL

\* Every repeated submission has a reason, every flush submits in the session of
\* the owner or after its end, and an older version does not wait beside a newer
\* one that replaced it.
THEOREM SubmissionsSound == Spec => []SubmissionsAreSound
<1>1. IInv => OneVersionWaits
  <2> SUFFICES ASSUME IInv, NEW pair \in Rival, Held(pair[1]), Held(pair[2])
               PROVE  pair[1] \in settled
    BY DEF OneVersionWaits
  <2>1. pair[1] \in Items /\ pair[2] \in Items /\ <<pair[1], pair[2]>> \in Rival
    BY QueueAssumption
  <2>2. \A j : Held(j) => ~ Nowhere(j)
    BY DEF Held, Nowhere
  <2>3. pair[1] \notin fresh
    BY <2>2 DEF IInv, Unseen
  <2>4. Replaced(pair[1], pair[2])
    BY <2>1 DEF IInv, Versions
  <2>5. QED BY <2>2, <2>3, <2>4 DEF Replaced
<1>2. IInv => SubmissionsAreSound
  BY <1>1 DEF IInv, Sessions, SubmissionsAreSound
<1>3. QED BY <1>2, Invariant, PTL

-----------------------------------------------------------------------------
(* The screens that show leads: finite sets in an order *)

\* The sizes that LeadViews speaks of are those of the theorems.
LEMMA SameSizes == \A S : Views!Cardinality(S) = Cardinality(S)
BY DEF Views!Cardinality, Cardinality

\* R orders S: k before l is <<k, l>>.
Orders(R, S) ==
  /\ \A x \in S : <<x, x>> \notin R
  /\ \A x, y \in S : x # y => <<x, y>> \in R \/ <<y, x>> \in R
  /\ \A x, y, z \in S : <<x, y>> \in R /\ <<y, z>> \in R => <<x, z>> \in R

Ahead(R, S, l) == {k \in S : <<k, l>> \in R}
Rank(R, S, l) == Cardinality(Ahead(R, S, l))

LEMMA Finite ==
  ASSUME NEW S, IsFiniteSet(S), NEW T, T \subseteq S
  PROVE  IsFiniteSet(T) /\ Cardinality(T) \in Nat /\ Cardinality(T) <= Cardinality(S)
<1>1. IsFiniteSet(T) /\ Cardinality(T) <= Cardinality(S)
  BY FS_Subset
<1>2. QED BY <1>1, FS_CardinalityType

LEMMA Joint ==
  ASSUME NEW S, IsFiniteSet(S), NEW T, IsFiniteSet(T)
  PROVE  /\ IsFiniteSet(S \cup T) /\ Cardinality(S \cup T) \in Nat
         /\ Cardinality(S) \in Nat /\ Cardinality(T) \in Nat
         /\ Cardinality(S \cup T) <= Cardinality(S) + Cardinality(T)
         /\ S \cap T = {} => Cardinality(S \cup T) = Cardinality(S) + Cardinality(T)
<1>1. IsFiniteSet(S \cup T) /\ Cardinality(S \cup T) = Cardinality(S) + Cardinality(T) - Cardinality(S \cap T)
  BY FS_Union
<1>2. IsFiniteSet(S \cap T) /\ Cardinality(S \cap T) \in Nat
  BY Finite
<1>3. Cardinality(S) \in Nat /\ Cardinality(T) \in Nat /\ Cardinality(S \cup T) \in Nat
  BY <1>1, FS_CardinalityType
<1>4. S \cap T = {} => Cardinality(S \cap T) = 0
  BY FS_EmptySet
<1>5. QED BY <1>1, <1>2, <1>3, <1>4

LEMMA Parted ==
  ASSUME NEW S, IsFiniteSet(S), NEW T
  PROVE  /\ Cardinality(S) = Cardinality(S \cap T) + Cardinality(S \ T)
         /\ Cardinality(S) \in Nat /\ Cardinality(S \cap T) \in Nat /\ Cardinality(S \ T) \in Nat
         /\ IsFiniteSet(S \cap T) /\ IsFiniteSet(S \ T)
<1>1. IsFiniteSet(S \cap T) /\ Cardinality(S \cap T) \in Nat /\ Cardinality(S) \in Nat
  BY Finite
<1>2. IsFiniteSet(S \ T) /\ Cardinality(S \ T) \in Nat
  BY Finite
<1>3. Cardinality(S \ T) = Cardinality(S) - Cardinality(S \cap T)
  BY FS_Difference
<1>4. QED BY <1>1, <1>2, <1>3

\* Sets that differ in D only differ by no more than its elements.
LEMMA Near ==
  ASSUME NEW S, IsFiniteSet(S), NEW T, IsFiniteSet(T), NEW D, IsFiniteSet(D),
         T \ S \subseteq D
  PROVE  Cardinality(T) <= Cardinality(S) + Cardinality(D)
<1>1. Cardinality(S \cup D) <= Cardinality(S) + Cardinality(D) /\ IsFiniteSet(S \cup D)
      /\ Cardinality(S) \in Nat /\ Cardinality(D) \in Nat /\ Cardinality(S \cup D) \in Nat
  BY Joint
<1>2. Cardinality(T) <= Cardinality(S \cup D) /\ Cardinality(T) \in Nat
  <2>1. T \subseteq S \cup D
    OBVIOUS
  <2>2. QED BY <1>1, <2>1, Finite
<1>3. QED BY <1>1, <1>2

LEMMA First ==
  ASSUME NEW R, NEW S, Orders(R, S), NEW B, B \subseteq S, IsFiniteSet(B), B # {}
  PROVE  \E x \in B : \A y \in B : y # x => <<x, y>> \in R
<1> DEFINE F == {Ahead(R, B, x) : x \in B}
<1>1. F \subseteq FiniteSubsetsOf(B) /\ F # {}
  <2>1. \A x \in B : Ahead(R, B, x) \in SUBSET B
    BY DEF Ahead
  <2>2. \A x \in B : IsFiniteSet(Ahead(R, B, x))
    BY <2>1, Finite
  <2>3. QED BY <2>1, <2>2 DEF FiniteSubsetsOf
<1>2. IsWellFoundedOn(StrictSubsetOrdering(B), FiniteSubsetsOf(B))
  BY FS_StrictSubsetOrderingWellFounded
<1>3. PICK U \in F : \A V \in F : ~ (<<V, U>> \in StrictSubsetOrdering(B))
  BY <1>1, <1>2, WFMin
<1>4. PICK x \in B : U = Ahead(R, B, x)
  BY <1>3
<1>5. ASSUME NEW y \in B, <<y, x>> \in R PROVE FALSE
  <2>1. y \in Ahead(R, B, x)
    BY <1>5 DEF Ahead
  <2>2. y \notin Ahead(R, B, y)
    BY DEF Ahead, Orders
  <2>3. Ahead(R, B, y) \subseteq Ahead(R, B, x)
    BY <1>5 DEF Ahead, Orders
  <2>4. Ahead(R, B, y) \in F
    OBVIOUS
  <2>5. Ahead(R, B, y) \subseteq B /\ Ahead(R, B, x) \subseteq B
    BY DEF Ahead
  <2>6. <<Ahead(R, B, y), Ahead(R, B, x)>> \in StrictSubsetOrdering(B)
    BY <2>1, <2>2, <2>3, <2>5 DEF StrictSubsetOrdering
  <2>7. QED BY <1>3, <1>4, <2>4, <2>6
<1>6. \A y \in B : y # x => <<x, y>> \in R
  BY <1>5 DEF Orders
<1>7. QED BY <1>6

\* The same of the other end.
LEMMA Final ==
  ASSUME NEW R, NEW S, Orders(R, S), NEW B, B \subseteq S, IsFiniteSet(B), B # {}
  PROVE  \E x \in B : \A y \in B : y # x => <<y, x>> \in R
<1>1. PICK Q : Q = {<<pr[2], pr[1]>> : pr \in R \cap (S \X S)}
  OBVIOUS
<1>2. \A x, y \in S : <<x, y>> \in Q <=> <<y, x>> \in R
  BY <1>1
<1>3. Orders(Q, S)
  BY <1>2 DEF Orders
<1>4. PICK x \in B : \A y \in B : y # x => <<x, y>> \in Q
  BY <1>3, First
<1>5. QED BY <1>2, <1>4

\* No more than K elements have fewer than K ahead of them; and those that have
\* more come after K others.
LEMMA Top ==
  ASSUME NEW R, NEW S, Orders(R, S), IsFiniteSet(S), NEW K \in Nat,
         NEW T, T = {l \in S : Rank(R, S, l) < K}
  PROVE  Cardinality(T) \in Nat /\ Cardinality(T) <= K
<1>1. T \subseteq S /\ IsFiniteSet(T) /\ Cardinality(T) \in Nat
  BY Finite
<1>2. CASE T = {}
  <2>1. Cardinality(T) = 0
    BY <1>2, FS_EmptySet
  <2>2. QED BY <2>1
<1>3. CASE T # {}
  <2>1. PICK x \in T : \A y \in T : y # x => <<y, x>> \in R
    BY <1>1, <1>3, Final
  <2>2. T \ {x} \subseteq Ahead(R, S, x) /\ Ahead(R, S, x) \subseteq S
    BY <1>1, <2>1 DEF Ahead
  <2>3. IsFiniteSet(Ahead(R, S, x)) /\ Cardinality(Ahead(R, S, x)) \in Nat
    BY <2>2, Finite
  <2>4. Cardinality(T \ {x}) <= Cardinality(Ahead(R, S, x))
    BY <2>2, <2>3, Finite
  <2>5. Cardinality(T \ {x}) = Cardinality(T) - 1
    BY <1>1, FS_RemoveElement
  <2>6. Cardinality(Ahead(R, S, x)) < K
    BY <2>1 DEF Rank
  <2>7. QED BY <1>1, <2>3, <2>4, <2>5, <2>6
<1>4. QED BY <1>2, <1>3

LEMMA Rest ==
  ASSUME NEW R, NEW S, Orders(R, S), IsFiniteSet(S), NEW K \in Nat,
         NEW O, O = {l \in S : Rank(R, S, l) >= K}
  PROVE  /\ Cardinality(O) \in Nat /\ Cardinality(S) \in Nat
         /\ O = {} \/ Cardinality(O) + K <= Cardinality(S)
<1>1. O \subseteq S /\ IsFiniteSet(O) /\ Cardinality(O) \in Nat /\ Cardinality(S) \in Nat
  BY Finite
<1>2. ASSUME O # {} PROVE Cardinality(O) + K <= Cardinality(S)
  <2>1. PICK x \in O : \A y \in O : y # x => <<x, y>> \in R
    BY <1>1, <1>2, First
  <2>2. Ahead(R, S, x) \subseteq S /\ Ahead(R, S, x) \cap O = {}
    BY <1>1, <2>1 DEF Ahead, Orders
  <2>3. IsFiniteSet(Ahead(R, S, x)) /\ Cardinality(Ahead(R, S, x)) \in Nat
    BY <2>2, Finite
  <2>4. Cardinality(Ahead(R, S, x)) >= K
    BY <2>1 DEF Rank
  <2>5. Cardinality(Ahead(R, S, x) \cup O) = Cardinality(Ahead(R, S, x)) + Cardinality(O)
    BY <1>1, <2>2, <2>3, Joint
  <2>6. Cardinality(Ahead(R, S, x) \cup O) <= Cardinality(S) /\ Cardinality(Ahead(R, S, x) \cup O) \in Nat
    <3>1. Ahead(R, S, x) \cup O \subseteq S
      BY <1>1, <2>2
    <3>2. QED BY <3>1, Finite
  <2>7. QED BY <1>1, <2>3, <2>4, <2>5, <2>6
<1>3. QED BY <1>1, <1>2

\* What moves up behind K others does so for elements that left.
LEMMA Slide ==
  ASSUME NEW R, NEW S, NEW T, Orders(R, S \cup T), IsFiniteSet(S), IsFiniteSet(T), NEW K \in Nat,
         NEW B, B \subseteq S \cap T, \A l \in B : Rank(R, S, l) >= K /\ Rank(R, T, l) < K
  PROVE  Cardinality(B) <= Cardinality(S \ T)
<1>1. IsFiniteSet(B) /\ Cardinality(B) \in Nat /\ IsFiniteSet(S \ T) /\ Cardinality(S \ T) \in Nat
  <2>1. B \subseteq S
    OBVIOUS
  <2>2. QED BY <2>1, Finite
<1>2. CASE B = {}
  <2>1. Cardinality(B) = 0
    BY <1>2, FS_EmptySet
  <2>2. QED BY <1>1, <2>1
<1>3. CASE B # {}
  <2>0. B \subseteq S \cup T
    OBVIOUS
  <2>1. PICK x \in B : \A y \in B : y # x => <<x, y>> \in R
    BY <1>1, <1>3, <2>0, First
  <2>2. PICK z \in B : \A y \in B : y # z => <<y, z>> \in R
    BY <1>1, <1>3, <2>0, Final
  <2>3. PICK N : N = Ahead(R, S, x)
    OBVIOUS
  <2>4. PICK M : M = Ahead(R, T, z)
    OBVIOUS
  <2>5. N \subseteq S /\ IsFiniteSet(N) /\ Cardinality(N) \in Nat /\ Cardinality(N) >= K
    <3>1. N \subseteq S
      BY <2>3 DEF Ahead
    <3>2. IsFiniteSet(N) /\ Cardinality(N) \in Nat
      BY <3>1, Finite
    <3>3. QED BY <2>1, <2>3, <3>1, <3>2 DEF Rank
  <2>6. M \subseteq T /\ IsFiniteSet(M) /\ Cardinality(M) \in Nat /\ Cardinality(M) < K
    <3>1. M \subseteq T
      BY <2>4 DEF Ahead
    <3>2. IsFiniteSet(M) /\ Cardinality(M) \in Nat
      BY <3>1, Finite
    <3>3. QED BY <2>2, <2>4, <3>1, <3>2 DEF Rank
  <2>7. N \cap B = {}
    <3>1. \A y \in N : <<y, x>> \in R /\ y \in S
      BY <2>3 DEF Ahead
    <3>2. \A y \in B : ~ (<<y, x>> \in R)
      BY <2>0, <2>1 DEF Orders
    <3>3. QED BY <3>1, <3>2
  <2>8. (N \cap T) \cup (B \ {z}) \subseteq M
    <3>1. \A y \in N : <<y, x>> \in R /\ y \in S
      BY <2>3 DEF Ahead
    <3>2. \A y \in N : <<y, z>> \in R
      <4>1. x \in S \cup T /\ z \in S \cup T /\ (x = z \/ <<x, z>> \in R)
        BY <2>0, <2>1, <2>2
      <4>2. QED BY <3>1, <4>1 DEF Orders
    <3>3. \A y \in B \ {z} : <<y, z>> \in R /\ y \in T
      BY <2>2
    <3>4. QED BY <2>4, <3>2, <3>3 DEF Ahead
  <2>9. Cardinality(N) = Cardinality(N \cap T) + Cardinality(N \ T)
        /\ IsFiniteSet(N \cap T) /\ Cardinality(N \cap T) \in Nat /\ Cardinality(N \ T) \in Nat
    BY <2>5, Parted
  <2>10. Cardinality(N \ T) <= Cardinality(S \ T)
    <3>1. N \ T \subseteq S \ T
      BY <2>5
    <3>2. QED BY <1>1, <3>1, Finite
  <2>11. Cardinality(B \ {z}) = Cardinality(B) - 1 /\ IsFiniteSet(B \ {z})
    BY <1>1, <2>2, FS_RemoveElement
  <2>12. Cardinality((N \cap T) \cup (B \ {z})) = Cardinality(N \cap T) + Cardinality(B \ {z})
    <3>1. (N \cap T) \cap (B \ {z}) = {}
      BY <2>7
    <3>2. QED BY <2>9, <2>11, <3>1, Joint
  <2>13. Cardinality((N \cap T) \cup (B \ {z})) <= Cardinality(M)
    BY <2>6, <2>8, Finite
  <2>14. QED BY <1>1, <2>5, <2>6, <2>9, <2>10, <2>11, <2>12, <2>13
<1>4. QED BY <1>2, <1>3

-----------------------------------------------------------------------------
(* Figures *)

\* A figure that counts each element under its key adds up to all of them.
LEMMA Totals ==
  ASSUME NEW G, NEW F, IsFiniteSet(F), NEW key \in [F -> G], NEW figure,
         figure = [g \in G |-> Cardinality({l \in F : key[l] = g})]
  PROVE  Views!Total(figure) = Cardinality(F)
<1> DEFINE Class(g) == {l \in F : key[l] = g}
           n(g) == Cardinality(Class(g))
<1>1. ASSUME NEW g \in G PROVE n(g) \in Nat /\ Bijection(1 .. n(g), Class(g)) # {} /\ figure[g] = n(g)
  <2>1. Class(g) \subseteq F
    OBVIOUS
  <2>2. IsFiniteSet(Class(g))
    BY <2>1, Finite
  <2>3. n(g) \in Nat /\ ExistsBijection(1 .. n(g), Class(g))
    BY <2>2, FS_CardinalityType
  <2>4. QED BY <2>3 DEF ExistsBijection
<1> DEFINE b == [g \in G |-> CHOOSE f : f \in Bijection(1 .. n(g), Class(g))]
           P == UNION {{g} \X (1 .. figure[g]) : g \in G}
           h == [p \in P |-> b[p[1]][p[2]]]
<1>2. ASSUME NEW g \in G PROVE b[g] \in Bijection(1 .. n(g), Class(g))
  BY <1>1
<1> HIDE DEF b, n
<1>a. ASSUME NEW p \in P PROVE \E g \in G : \E i \in 1 .. n(g) : p = <<g, i>>
  <2>1. PICK g \in G : p \in {g} \X (1 .. figure[g])
    OBVIOUS
  <2>2. p \in {g} \X (1 .. n(g))
    BY <1>1, <2>1
  <2>3. p = <<g, p[2]>> /\ p[2] \in 1 .. n(g)
    BY <2>2
  <2>4. QED BY <2>3
<1>3. ASSUME NEW g \in G, NEW i \in 1 .. n(g) PROVE <<g, i>> \in P
  <2>1. <<g, i>> \in {g} \X (1 .. figure[g])
    BY <1>1
  <2>2. QED BY <2>1
<1> HIDE DEF P
<1>4. ASSUME NEW g \in G, NEW i \in 1 .. n(g)
      PROVE  /\ <<g, i>> \in P /\ h[<<g, i>>] = b[g][i] /\ b[g][i] \in F /\ key[b[g][i]] = g
             /\ \A j \in 1 .. n(g) : b[g][i] = b[g][j] => i = j
  <2>1. <<g, i>> \in P
    BY <1>3
  <2>2. b[g] \in [1 .. n(g) -> Class(g)]
    BY <1>2 DEF Bijection, Injection
  <2>3. b[g][i] \in Class(g)
    BY <2>2
  <2>4. \A j \in 1 .. n(g) : b[g][i] = b[g][j] => i = j
    BY <1>2 DEF Bijection, Injection, IsInjective
  <2>5. QED BY <2>1, <2>3, <2>4
<1>5. h \in [P -> F]
  <2>1. ASSUME NEW p \in P PROVE h[p] \in F
    <3>1. PICK g \in G : \E i \in 1 .. n(g) : p = <<g, i>>
      BY <1>a
    <3>2. PICK i \in 1 .. n(g) : p = <<g, i>>
      BY <3>1
    <3>3. h[<<g, i>>] \in F
      BY <1>4
    <3>4. QED BY <3>2, <3>3
  <2>2. QED BY <2>1
<1>6. ASSUME NEW p \in P, NEW q \in P, h[p] = h[q] PROVE p = q
  <2>1. PICK g \in G : \E i \in 1 .. n(g) : p = <<g, i>>
    BY <1>a
  <2>2. PICK i \in 1 .. n(g) : p = <<g, i>>
    BY <2>1
  <2>3. PICK g2 \in G : \E j \in 1 .. n(g2) : q = <<g2, j>>
    BY <1>a
  <2>4. PICK j \in 1 .. n(g2) : q = <<g2, j>>
    BY <2>3
  <2>a. h[p] = b[g][i] /\ key[b[g][i]] = g
    BY <1>4, <2>2
  <2>b. h[q] = b[g2][j] /\ key[b[g2][j]] = g2
    BY <1>4, <2>4
  <2>5. b[g][i] = b[g2][j] /\ key[b[g][i]] = g /\ key[b[g2][j]] = g2
    BY <1>6, <2>a, <2>b
  <2>6. g = g2
    BY <2>5
  <2>7. i = j
    BY <1>4, <2>5, <2>6
  <2>8. QED BY <2>2, <2>4, <2>6, <2>7
<1>7. ASSUME NEW l \in F PROVE \E p \in P : h[p] = l
  <2>1. PICK g \in G : g = key[l]
    OBVIOUS
  <2>2. l \in Class(g)
    BY <2>1
  <2>3. b[g] \in Surjection(1 .. n(g), Class(g))
    BY <1>2 DEF Bijection
  <2>4. PICK i \in 1 .. n(g) : b[g][i] = l
    BY <2>2, <2>3 DEF Surjection
  <2>5. <<g, i>> \in P /\ h[<<g, i>>] = b[g][i]
    BY <1>4
  <2>6. QED BY <2>4, <2>5
<1>8. h \in Bijection(P, F)
  <2>1. h \in Injection(P, F)
    BY <1>5, <1>6 DEF Injection, IsInjective
  <2>2. h \in Surjection(P, F)
    BY <1>5, <1>7 DEF Surjection
  <2>3. QED BY <2>1, <2>2 DEF Bijection
<1>9. IsFiniteSet(P) /\ Cardinality(P) = Cardinality(F)
  <2>1. IsFiniteSet(P)
    BY <1>8, FS_Injection DEF Bijection
  <2>2. ExistsBijection(P, F)
    BY <1>8 DEF ExistsBijection
  <2>3. QED BY <2>1, <2>2, FS_Bijection
<1>10. Views!Total(figure) = Cardinality(P)
  BY SameSizes DEF Views!Total, P
<1>11. QED BY <1>9, <1>10

-----------------------------------------------------------------------------
(* What every state of the leads and the screens is like *)

Matched(v) == Views!Matching(v.who, v.filter)

LeadsTyped ==
  /\ leads \in Seq(Views!Lead \cup {Views!NoLead}) /\ active \subseteq Executives
  /\ Orders(recent, Views!Live)

\* The newer leads come first.
Gt == {pr \in Nat \X Nat : pr[1] > pr[2]}

Shape(v) ==
  /\ v = [kind |-> v.kind, who |-> v.who, filter |-> v.filter, pc |-> v.pc, drift |-> v.drift,
          steady |-> v.steady, page |-> v.page, pages |-> v.pages, rows |-> v.rows, how |-> v.how,
          overdue |-> v.overdue, table |-> v.table, round |-> v.round, todo |-> v.todo, got |-> v.got]
  /\ v.kind \in {"list", "home", "page", "dashboard", "report"}
  /\ v.pc \in {"reading", "shown"} /\ v.drift \in Nat

\* The leads a list should have by now and has not.
Missed(v) == {l \in v.steady \ v.rows : Rank(Gt, Matched(v), l) < (v.page - 1) * PageSize}

\* What was missed, and what will not fit on the pages there were, came or went.
ListOK(v) ==
  /\ v.page \in Nat \ {0} /\ v.pages \in Nat
  /\ v.rows \subseteq Views!Ids /\ v.steady \subseteq Matched(v)
  /\ Cardinality(v.rows \ Matched(v)) <= v.drift
  /\ v.who \in Executives /\ v.who # Views!Nobody /\ v.filter = Views!Own(v.who)
  /\ (v.pc = "reading" => v.who = session \/ v.who \in late)
  /\ v.pc = "reading" /\ v.pages = 0 => v.page = 1 /\ v.how = "whole"
  /\ v.pc = "reading" /\ v.pages # 0 /\ v.how = "whole" =>
       /\ v.page \in 2 .. v.pages + 1
       /\ Cardinality(Missed(v)) <= v.drift
       /\ Cardinality(Missed(v)) + Cardinality(Matched(v)) <= v.drift + v.pages * PageSize
  /\ v.pc = "shown" /\ v.how = "whole" => Cardinality(v.steady \ v.rows) <= v.drift

Urgent(v) == {l \in Matched(v) : leads[l].overdue /\ leads[l].status \notin Views!Terminal}
Beyond(v) == {l \in Matched(v) : Rank(recent, Matched(v), l) >= HomeCap}

\* The two directions differ: a lead that goes may leave the cap behind.
HomeOK(v) ==
  /\ v.overdue \in Nat
  /\ v.pc = "shown" /\ v.how = "whole" =>
       /\ v.overdue <= Cardinality(Urgent(v)) + v.drift
       /\ Cardinality(Urgent(v)) <= v.overdue + v.drift + Cardinality(Beyond(v))

\* A number of an answer, or what it would be now.
Part(f, x, S, all) ==
  {l \in S : /\ f \in {"assigned", "active", "terminal"} => all[l].exec = x
             /\ f \in {"districts", "completed"} => all[l].district = x
             /\ f \in {"terminal", "completed"} => all[l].status \in Views!Terminal
             /\ f = "active" => all[l].status \notin Views!Terminal
             /\ f = "sum" => all[l].exec \in Executives}
NumberOf(v, f, x) ==
  IF f \in DOMAIN v.got THEN v.got[f][x] ELSE Cardinality(Part(f, x, Matched(v), leads))
SumOf(v, f) == IF f \in DOMAIN v.got THEN Views!Total(v.got[f]) ELSE Cardinality(Matched(v))
Assigned(v) ==
  IF "assigned" \in DOMAIN v.got THEN Views!Total(v.got["assigned"])
  ELSE Cardinality(Part("sum", Views!Nobody, Matched(v), leads))

Within(m, n, d) == m \in Nat /\ n \in Nat /\ m <= n + d /\ n <= m + d

DashboardOK(v) ==
  /\ Within(SumOf(v, "statuses"), SumOf(v, "districts"), v.drift)
  /\ \A e \in Executives : NumberOf(v, "active", e) \in Nat /\ NumberOf(v, "terminal", e) \in Nat
       /\ Within(NumberOf(v, "assigned", e), NumberOf(v, "active", e) + NumberOf(v, "terminal", e), v.drift)

ReportOK(v) ==
  /\ Within(SumOf(v, "statuses"), SumOf(v, "districts"), v.drift)
  /\ \A d \in Districts :
       /\ NumberOf(v, "completed", d) \in Nat /\ NumberOf(v, "districts", d) \in Nat
       /\ NumberOf(v, "completed", d) <= NumberOf(v, "districts", d) + v.drift
  /\ Assigned(v) \in Nat /\ Assigned(v) <= SumOf(v, "districts") + v.drift

\* Whatever the rounds have asked for is there, and nothing is asked for again.
RoundsOK(v) ==
  /\ v.round \in 1 .. Len(Views!Rounds(v.kind))
  /\ v.pc = "reading" => \A i \in 1 .. v.round : \A f \in Views!Rounds(v.kind)[i] :
       f \in DOMAIN v.got \/ (i = v.round /\ f \in v.todo)
  /\ v.pc = "reading" =>
       /\ v.todo \subseteq Views!Rounds(v.kind)[v.round] /\ v.todo \cap DOMAIN v.got = {}
       /\ \A i \in v.round + 1 .. Len(Views!Rounds(v.kind)) : Views!Rounds(v.kind)[i] \cap DOMAIN v.got = {}
  /\ v.pc = "shown" => \A i \in 1 .. Len(Views!Rounds(v.kind)) : Views!Rounds(v.kind)[i] \subseteq DOMAIN v.got
  /\ "executives" \in DOMAIN v.got => v.got["executives"] \subseteq Executives

ViewOK(v) ==
  /\ Shape(v)
  /\ v.kind = "list" => ListOK(v)
  /\ v.kind = "home" => HomeOK(v)
  /\ v.kind = "dashboard" => RoundsOK(v) /\ DashboardOK(v)
  /\ v.kind = "report" => RoundsOK(v) /\ ReportOK(v)

ScreenOK == view = Views!Closed \/ ViewOK(view)

\* What is on the device of a user: it is explained, and so are the leads on it
\* that are no longer his.
KeptOK(e, c) ==
  /\ c.rows \subseteq Views!Ids /\ c.drift \in Nat
  /\ Cardinality(c.rows \ Views!Matching(e, Views!Own(e))) <= c.drift
  /\ c.rows # {} => e # Views!Nobody /\ (e = session \/ e \in late)
CacheOK ==
  /\ session \in Executives \cup {Views!Nobody}
  /\ cache = [e \in Executives |-> [rows |-> cache[e].rows, drift |-> cache[e].drift]]
  /\ \A e \in Executives : KeptOK(e, cache[e])

\* What was read for an act still holds, or it is noted as raced.
Asked(a) ==
  /\ a = [pc |-> a.pc, lead |-> a.lead, what |-> a.what, to |-> a.to, raced |-> a.raced]
  /\ a.pc \in {"sent", "checked"} /\ a.lead \in Views!Ids /\ a.raced \in BOOLEAN
  /\ a.what \in {"assign", "reassign", "move", "reopen", "delete"}
  /\ a.what \in {"assign", "reassign"} => a.to \in Executives
  /\ a.what \in {"move", "reopen"} => a.to \in Views!Statuses
  /\ a.pc = "checked" /\ ~ a.raced =>
       /\ leads[a.lead] # Views!NoLead
       /\ a.what = "assign" => leads[a.lead].exec = Views!Nobody
       /\ a.what = "move" => leads[a.lead].status \notin Views!Terminal
ActOK == act = Views!NoAct \/ Asked(act)

ViewsInv == LeadsTyped /\ ScreenOK /\ CacheOK /\ ActOK

-----------------------------------------------------------------------------
(* What the words of LeadViews mean *)

LEMMA Sizes == PageSize \in Nat \ {0} /\ HomeCap \in Nat \ {0} /\ Stock \in Seq(Views!Lead)
BY ViewsAssumption

LEMMA MaxOf ==
  ASSUME NEW a \in Nat, NEW b \in Nat
  PROVE  Views!Max({a, b}) = IF a >= b THEN a ELSE b
<1>1. PICK c \in {a, b} : c = IF a >= b THEN a ELSE b
  OBVIOUS
<1>2. c \in {a, b} /\ \A y \in {a, b} : c >= y
  BY <1>1
<1>3. \A d \in {a, b} : (\A y \in {a, b} : d >= y) => d = c
  BY <1>1
<1>4. Views!Max({a, b}) = c
  BY <1>2, <1>3 DEF Views!Max
<1>5. QED BY <1>1, <1>4

LEMMA GtOrders == \A S : S \subseteq Nat => Orders(Gt, S)
<1>1. \A x, y \in Nat : <<x, y>> \in Gt <=> x > y
  BY DEF Gt
<1>2. QED BY <1>1 DEF Orders

LEMMA NewerIs ==
  ASSUME NEW S, S \subseteq Nat, NEW l \in S
  PROVE  Views!Newer(S, l) = Rank(Gt, S, l)
<1>1. {k \in S : k > l} = Ahead(Gt, S, l)
  BY DEF Ahead, Gt
<1>2. QED BY <1>1, SameSizes DEF Views!Newer, Rank

LEMMA RankNat ==
  ASSUME NEW R, NEW S, IsFiniteSet(S), NEW l
  PROVE  Rank(R, S, l) \in Nat
<1>1. Ahead(R, S, l) \subseteq S
  BY DEF Ahead
<1>2. QED BY <1>1, Finite DEF Rank

LEMMA PagesIs ==
  ASSUME NEW S, IsFiniteSet(S)
  PROVE  Views!Pages(S) \in Nat /\ Cardinality(S) <= Views!Pages(S) * PageSize
<1>1. PICK n \in Nat : n = Cardinality(S)
  BY FS_CardinalityType
<1>2. PICK p \in Nat \ {0} : p = PageSize
  BY Sizes
<1>3. PICK q : q = (n + p - 1) \div p
  OBVIOUS
<1>4. q \in Nat /\ q * p <= n + p - 1 /\ n + p - 1 < (q + 1) * p
  BY <1>3
<1>5. n <= q * p
  <2>1. (q + 1) * p = q * p + p
    BY <1>4
  <2>2. QED BY <1>4, <2>1
<1>6. Views!Pages(S) = q
  BY <1>1, <1>2, <1>3, SameSizes DEF Views!Pages
<1>7. QED BY <1>1, <1>2, <1>4, <1>5, <1>6

\* A lead that is there is one that is not gone.
LEMMA There ==
  ASSUME LeadsTyped
  PROVE  /\ Views!Ids = 1 .. Len(leads) /\ Len(leads) \in Nat /\ Views!Ids \subseteq Nat \ {0}
                /\ IsFiniteSet(Views!Ids)
         /\ \A l \in Views!Ids : leads[l] \in Views!Lead \cup {Views!NoLead}
         /\ Views!Live \subseteq Views!Ids /\ \A l \in Views!Live : leads[l] \in Views!Lead
         /\ \A l \in Views!Ids : leads[l] # Views!NoLead <=> l \in Views!Live
<1>1. Len(leads) \in Nat /\ Views!Ids = 1 .. Len(leads)
  BY DEF LeadsTyped, Views!Ids
<1>2. \A l \in Views!Ids : leads[l] \in Views!Lead \cup {Views!NoLead}
  BY <1>1 DEF LeadsTyped
<1>3. IsFiniteSet(Views!Ids)
  BY <1>1, FS_Interval
<1>4. QED BY <1>1, <1>2, <1>3 DEF Views!Live

LEMMA MineIs ==
  ASSUME LeadsTyped, NEW v
  PROVE  /\ Matched(v) \subseteq Views!Live /\ Matched(v) \subseteq Nat /\ IsFiniteSet(Matched(v))
         /\ Cardinality(Matched(v)) \in Nat
         /\ \A l : l \in Matched(v) <=> l \in Views!Ids /\ Views!Matches(v.who, v.filter, leads[l], managed)
         /\ \A l \in Matched(v) : leads[l] \in Views!Lead /\ l \in Views!Ids
         /\ Orders(recent, Matched(v)) /\ Orders(Gt, Matched(v))
<1>1. \A l : l \in Matched(v) <=> l \in Views!Ids /\ Views!Matches(v.who, v.filter, leads[l], managed)
  BY DEF Matched, Views!Matching
<1>2. \A l \in Matched(v) : leads[l] # Views!NoLead
  BY <1>1 DEF Views!Matches
<1>3. Matched(v) \subseteq Views!Live
  BY <1>1, <1>2, There
<1>4. Matched(v) \subseteq Nat /\ IsFiniteSet(Matched(v)) /\ Cardinality(Matched(v)) \in Nat
  <2>1. Matched(v) \subseteq Views!Ids
    BY <1>1
  <2>2. QED BY <2>1, There, Finite
<1>5. \A l \in Matched(v) : leads[l] \in Views!Lead /\ l \in Views!Ids
  BY <1>1, <1>3, There
<1>6. Orders(recent, Matched(v))
  <2>1. Orders(recent, Views!Live)
    BY DEF LeadsTyped
  <2>2. QED BY <1>3, <2>1 DEF Orders
<1>7. Orders(Gt, Matched(v))
  BY <1>4, GtOrders
<1>8. QED BY <1>1, <1>3, <1>4, <1>5, <1>6, <1>7

-----------------------------------------------------------------------------
(* The leads change under an open screen *)

\* The leads that the open screen regards differently after a change.
Changed == {l \in Views!Ids' : Views!Regard(Views!At(l, leads), managed) # Views!Regard(leads'[l], managed')}

LEMMA DriftIs ==
  ASSUME Views!Drift
  PROVE  \/ /\ Views!Reading \/ Views!Shown("list") \/ Views!Shown("home")
            /\ \E steady : view' = [view EXCEPT !.drift = view.drift + Cardinality(Changed),
                                                !.steady = steady]
                 /\ steady = {l \in view.steady : Views!Matches(view.who, view.filter, leads'[l], managed')}
         \/ ~ (Views!Reading \/ Views!Shown("list") \/ Views!Shown("home")) /\ view' = view
BY SameSizes DEF Views!Drift, Changed, Views!Ids

LEMMA ChangedIs ==
  ASSUME LeadsTyped, LeadsTyped', Len(leads) <= Len(leads'), NEW v, v = view, Shape(v)
  PROVE  /\ Changed \subseteq Views!Ids' /\ IsFiniteSet(Changed) /\ Cardinality(Changed) \in Nat
         /\ Views!Ids \subseteq Views!Ids'
         /\ (Matched(v)' \ Matched(v)) \cup (Matched(v) \ Matched(v)') \subseteq Changed
         /\ v.kind = "list" => Changed = (Matched(v)' \ Matched(v)) \cup (Matched(v) \ Matched(v)')
         /\ v.kind # "list" => \A l \in Matched(v) \cap Matched(v)' : l \notin Changed => leads'[l] = leads[l]
<1>1. Len(leads) \in Nat /\ Len(leads') \in Nat /\ Views!Ids = 1 .. Len(leads) /\ Views!Ids' = 1 .. Len(leads')
      /\ IsFiniteSet(Views!Ids')
  <2>1. Len(leads') \in Nat /\ Views!Ids' = 1 .. Len(leads')
    <3>1. leads' \in Seq(Views!Lead \cup {Views!NoLead})
      BY DEF LeadsTyped
    <3>2. QED BY <3>1 DEF Views!Ids
  <2>2. IsFiniteSet(1 .. Len(leads'))
    BY <2>1, FS_Interval
  <2>3. QED BY <2>1, <2>2, There
<1>2. Views!Ids \subseteq Views!Ids'
  BY <1>1
<1>3. Changed \subseteq Views!Ids' /\ IsFiniteSet(Changed) /\ Cardinality(Changed) \in Nat
  <2>1. Changed \subseteq Views!Ids'
    BY DEF Changed
  <2>2. QED BY <1>1, <2>1, Finite
<1>4. ASSUME NEW l \in Views!Ids'
      PROVE  /\ l \in Matched(v) <=> Views!Matches(v.who, v.filter, Views!At(l, leads), managed)
             /\ l \in Matched(v)' <=> Views!Matches(v.who, v.filter, leads'[l], managed')
  <2>1. l \in Matched(v)' <=> Views!Matches(v.who, v.filter, leads'[l], managed')
    BY DEF Matched, Views!Matching
  <2>2. CASE l \in Views!Ids
    <3>1. Views!At(l, leads) = leads[l]
      BY <2>2 DEF Views!At, Views!Ids
    <3>2. QED BY <2>1, <2>2, <3>1 DEF Matched, Views!Matching
  <2>3. CASE l \notin Views!Ids
    <3>1. Views!At(l, leads) = Views!NoLead
      BY <2>3 DEF Views!At, Views!Ids
    <3>2. QED BY <2>1, <2>3, <3>1 DEF Matched, Views!Matching, Views!Matches
  <2>4. QED BY <2>2, <2>3
<1>5. Matched(v) \subseteq Views!Ids' /\ Matched(v)' \subseteq Views!Ids'
  BY <1>2 DEF Matched, Views!Matching
<1>6. ASSUME NEW l \in Views!Ids'
      PROVE  l \in Changed <=> Views!Regard(Views!At(l, leads), managed) # Views!Regard(leads'[l], managed')
  BY DEF Changed
<1>7. CASE v.kind = "list"
  <2>1. ASSUME NEW l \in Views!Ids' PROVE l \in Changed <=> (l \in Matched(v)) # (l \in Matched(v)')
    <3>1. Views!Regard(Views!At(l, leads), managed) = <<Views!Matches(v.who, v.filter, Views!At(l, leads),
              managed)>>
          /\ Views!Regard(leads'[l], managed') = <<Views!Matches(v.who, v.filter, leads'[l], managed')>>
      BY <1>7 DEF Views!Regard
    <3>2. Views!Regard(Views!At(l, leads), managed) = Views!Regard(leads'[l], managed')
          <=> (Views!Matches(v.who, v.filter, Views!At(l, leads), managed) <=> Views!Matches(v.who,
              v.filter, leads'[l], managed'))
      <4>1. PICK a \in BOOLEAN : a = Views!Matches(v.who, v.filter, Views!At(l, leads), managed)
        BY DEF Views!Matches
      <4>2. PICK b \in BOOLEAN : b = Views!Matches(v.who, v.filter, leads'[l], managed')
        BY DEF Views!Matches
      <4>3. Views!Regard(Views!At(l, leads), managed) = <<a>> /\ Views!Regard(leads'[l], managed') = <<b>>
        BY <3>1, <4>1, <4>2
      <4>4. <<a>> = <<b>> <=> a = b
        OBVIOUS
      <4>5. QED BY <4>1, <4>2, <4>3, <4>4
    <3>3. QED BY <1>4, <1>6, <3>2
  <2>2. Changed = (Matched(v)' \ Matched(v)) \cup (Matched(v) \ Matched(v)')
    BY <1>3, <1>5, <2>1
  <2>3. QED BY <1>2, <1>3, <1>7, <2>2
<1>8. CASE v.kind # "list"
  <2>1. ASSUME NEW l \in Views!Ids', (l \in Matched(v)) # (l \in Matched(v)') PROVE l \in Changed
    <3>1. CASE l \in Matched(v) /\ l \notin Matched(v)'
      <4>1. Views!Regard(Views!At(l, leads), managed) = <<Views!At(l, leads)>> /\ Views!Regard(leads'[l],
                managed') = << >>
        BY <1>4, <1>8, <3>1 DEF Views!Regard
      <4>2. QED BY <1>6, <4>1
    <3>2. CASE l \notin Matched(v) /\ l \in Matched(v)'
      <4>1. Views!Regard(Views!At(l, leads), managed) = << >> /\ Views!Regard(leads'[l],
                managed') = <<leads'[l]>>
        BY <1>4, <1>8, <3>2 DEF Views!Regard
      <4>2. QED BY <1>6, <4>1
    <3>3. QED BY <2>1, <3>1, <3>2
  <2>2. (Matched(v)' \ Matched(v)) \cup (Matched(v) \ Matched(v)') \subseteq Changed
    BY <1>5, <2>1
  <2>3. ASSUME NEW l \in Matched(v) \cap Matched(v)', l \notin Changed PROVE leads'[l] = leads[l]
    <3>1. l \in Views!Ids' /\ Views!At(l, leads) = leads[l]
      BY <1>5 DEF Views!At, Views!Ids, Matched, Views!Matching
    <3>2. Views!Regard(Views!At(l, leads), managed) = <<leads[l]>> /\ Views!Regard(leads'[l],
              managed') = <<leads'[l]>>
      BY <1>4, <1>8, <3>1 DEF Views!Regard
    <3>3. QED BY <1>6, <2>3, <3>1, <3>2
  <2>4. QED BY <1>2, <1>3, <1>8, <2>2, <2>3
<1>9. QED BY <1>7, <1>8

\* What is regarded alike before and after counts alike but for what changed.
LEMMA GoneAndNew ==
  ASSUME NEW S, NEW T, IsFiniteSet(S), IsFiniteSet(T), NEW D, IsFiniteSet(D),
         (T \ S) \cup (S \ T) \subseteq D
  PROVE  /\ Cardinality(S) \in Nat /\ Cardinality(T) \in Nat /\ Cardinality(D) \in Nat
         /\ Cardinality(S \ T) \in Nat /\ Cardinality(T \ S) \in Nat
         /\ Cardinality(T) + Cardinality(S \ T) = Cardinality(S) + Cardinality(T \ S)
         /\ Cardinality(S \ T) + Cardinality(T \ S) <= Cardinality(D)
<1>1. PICK c \in Nat : c = Cardinality(S \cap T)
  BY Parted
<1>2. Cardinality(S) = c + Cardinality(S \ T) /\ Cardinality(S \ T) \in Nat
      /\ Cardinality(S) \in Nat /\ IsFiniteSet(S \ T)
  BY <1>1, Parted
<1>3. Cardinality(T) = c + Cardinality(T \ S) /\ Cardinality(T \ S) \in Nat
      /\ Cardinality(T) \in Nat /\ IsFiniteSet(T \ S)
  <2>1. S \cap T = T \cap S
    OBVIOUS
  <2>2. QED BY <1>1, <2>1, Parted
<1>4. Cardinality((S \ T) \cup (T \ S)) = Cardinality(S \ T) + Cardinality(T \ S)
  <2>1. (S \ T) \cap (T \ S) = {}
    OBVIOUS
  <2>2. QED BY <1>2, <1>3, <2>1, Joint
<1>5. Cardinality((S \ T) \cup (T \ S)) <= Cardinality(D) /\ Cardinality(D) \in Nat
  <2>1. (S \ T) \cup (T \ S) \subseteq D
    OBVIOUS
  <2>2. QED BY <2>1, Finite
<1>6. QED BY <1>1, <1>2, <1>3, <1>4, <1>5, SMT

\* A and B: those of W in S, and of V in T, that have fewer than K ahead of them.
MissesBy(S, T, K, W, V, A, B) ==
  Cardinality(A) \in Nat /\ Cardinality(B) \in Nat /\ Cardinality(B) <= Cardinality(A) + Cardinality(S \ T)

\* A list: what moves up past the pages read makes room for no more than went.
LEMMA ListMisses ==
  ASSUME NEW S, NEW T, S \subseteq Nat, T \subseteq Nat, IsFiniteSet(S), IsFiniteSet(T), NEW K \in Nat,
         NEW W, W \subseteq S, NEW V, V \subseteq W \cap T,
         NEW A, A = {l \in W : Rank(Gt, S, l) < K}, NEW B, B = {l \in V : Rank(Gt, T, l) < K}
  PROVE  MissesBy(S, T, K, W, V, A, B)
<1>1. A \subseteq S /\ IsFiniteSet(A) /\ Cardinality(A) \in Nat
  BY Finite
<1>2. B \subseteq T /\ IsFiniteSet(B) /\ Cardinality(B) \in Nat
  BY Finite
<1>3. Cardinality(B \ A) <= Cardinality(S \ T)
  <2>1. Orders(Gt, S \cup T)
    BY GtOrders
  <2>2. B \ A \subseteq S \cap T
    OBVIOUS
  <2>3. \A l \in B \ A : Rank(Gt, S, l) >= K /\ Rank(Gt, T, l) < K
    <3>1. \A l \in B \ A : l \in W /\ ~ (Rank(Gt, S, l) < K) /\ Rank(Gt, T, l) < K
      OBVIOUS
    <3>2. \A l : Rank(Gt, S, l) \in Nat
      BY RankNat
    <3>3. QED BY <3>1, <3>2
  <2>4. QED BY <2>1, <2>2, <2>3, Slide
<1>4. Cardinality(B) <= Cardinality(A) + Cardinality(B \ A) /\ Cardinality(B \ A) \in Nat
  <2>1. IsFiniteSet(B \ A) /\ Cardinality(B \ A) \in Nat
    BY <1>2, Finite
  <2>2. B \ A \subseteq B \ A
    OBVIOUS
  <2>3. QED BY <1>1, <1>2, <2>1, <2>2, Near
<1>5. Cardinality(S \ T) \in Nat
  BY Parted
<1>6. QED BY <1>1, <1>2, <1>3, <1>4, <1>5 DEF MissesBy

-----------------------------------------------------------------------------
(* A list and the home screen drift *)

\* Sums that the two screens lag behind by.
LEMMA ListSums ==
  \A a, r, n, m, c, x, y, d, q \in Nat :
    m + r = n + a /\ a + r <= c /\ y <= x + r /\ x <= d /\ x + n <= d + q
      => y <= d + c /\ y + m <= d + c + q
OBVIOUS

LEMMA HomeSums ==
  /\ \A o, q, r, n, m, h \in Nat :
       (o = 0 \/ o + h <= n) /\ m + r >= n /\ m <= q + h => o <= q + r
  /\ \A k, x, y, c, d, o, q, r \in Nat :
       x <= y + c /\ y + r <= x + c /\ o <= q + r /\ k <= x + d /\ x <= k + d + o
         => k <= y + (d + c) /\ y <= k + (d + c) + q
OBVIOUS

\* Whoever has K or more ahead is what K leave over.
LEMMA Capped ==
  ASSUME NEW R, NEW S, Orders(R, S), IsFiniteSet(S), NEW K \in Nat,
         NEW O, O = {l \in S : Rank(R, S, l) >= K}
  PROVE  Cardinality(O) \in Nat /\ Cardinality(S) \in Nat /\ Cardinality(S) <= Cardinality(O) + K
<1>1. PICK T : T = {l \in S : Rank(R, S, l) < K}
  OBVIOUS
<1>2. Cardinality(T) \in Nat /\ Cardinality(T) <= K /\ T \subseteq S
  BY <1>1, Top
<1>3. Cardinality(S) = Cardinality(S \cap T) + Cardinality(S \ T) /\ Cardinality(S) \in Nat
  BY Parted
<1>4. S \cap T = T
  BY <1>2
<1>5. S \ T = O
  <2>1. \A l : Rank(R, S, l) \in Nat
    BY RankNat
  <2>2. \A l \in S : ~ (Rank(R, S, l) < K) <=> Rank(R, S, l) >= K
    BY <2>1
  <2>3. QED BY <1>1, <2>2
<1>6. Cardinality(O) \in Nat
  <2>1. O \subseteq S
    OBVIOUS
  <2>2. QED BY <2>1, Finite
<1>7. QED BY <1>2, <1>3, <1>4, <1>5, <1>6

\* A change leaves a screen as it is but for its drift and its steady leads.
Drifts(v, w, n, steady) ==
  /\ w = [v EXCEPT !.drift = n, !.steady = steady]
  /\ w.kind = v.kind /\ w.who = v.who /\ w.filter = v.filter /\ w.pc = v.pc /\ w.page = v.page
  /\ w.pages = v.pages /\ w.rows = v.rows /\ w.how = v.how /\ w.overdue = v.overdue
  /\ w.round = v.round /\ w.todo = v.todo /\ w.got = v.got /\ w.drift = n /\ w.steady = steady

LEMMA DriftsIs ==
  ASSUME NEW v, Shape(v), NEW n \in Nat, NEW steady, NEW w, w = [v EXCEPT !.drift = n, !.steady = steady]
  PROVE  Drifts(v, w, n, steady) /\ Shape(w)
<1>1. w = [kind |-> v.kind, who |-> v.who, filter |-> v.filter, pc |-> v.pc, drift |-> n,
          steady |-> steady, page |-> v.page, pages |-> v.pages, rows |-> v.rows, how |-> v.how,
          overdue |-> v.overdue, table |-> v.table, round |-> v.round, todo |-> v.todo, got |-> v.got]
  BY DEF Shape
<1>2. /\ w.kind = v.kind /\ w.who = v.who /\ w.filter = v.filter /\ w.pc = v.pc /\ w.page = v.page
      /\ w.pages = v.pages /\ w.rows = v.rows /\ w.how = v.how /\ w.overdue = v.overdue
      /\ w.round = v.round /\ w.todo = v.todo /\ w.got = v.got /\ w.drift = n /\ w.steady = steady
      /\ w.table = v.table
  BY <1>1
<1>3. Drifts(v, w, n, steady)
  BY <1>2 DEF Drifts
<1>4. Shape(w)
  BY <1>1, <1>2 DEF Shape
<1>5. QED BY <1>3, <1>4

LEMMA ListDrifts ==
  ASSUME LeadsTyped, LeadsTyped', Len(leads) <= Len(leads'), UNCHANGED <<session, late>>,
         NEW v, v = view, Shape(v), v.kind = "list", ListOK(v), NEW steady,
         steady = {l \in v.steady : Views!Matches(v.who, v.filter, leads'[l], managed')}, NEW w,
         Drifts(v, w, v.drift + Cardinality(Changed), steady)
  PROVE  ListOK(w)'
<1>1. PICK S : S = Matched(v)
  OBVIOUS
<1>2. PICK T : T = Matched(v)' /\ T = Matched(w)'
  BY DEF Matched, Drifts
<1>3. S \subseteq Nat /\ IsFiniteSet(S) /\ S \subseteq Views!Ids
  BY <1>1, MineIs
<1>4. Views!Ids \subseteq Views!Ids' /\ Changed = (T \ S) \cup (S \ T) /\ IsFiniteSet(Changed)
          /\ Cardinality(Changed) \in Nat
      /\ IsFiniteSet(Views!Ids') /\ Views!Ids' \subseteq Nat
  <2>1. Changed = (T \ S) \cup (S \ T) /\ IsFiniteSet(Changed) /\ Cardinality(Changed) \in Nat
            /\ Views!Ids \subseteq Views!Ids'
    BY <1>1, <1>2, ChangedIs
  <2>2. Len(leads') \in Nat /\ Views!Ids' = 1 .. Len(leads')
    <3>1. leads' \in Seq(Views!Lead \cup {Views!NoLead})
      BY DEF LeadsTyped
    <3>2. QED BY <3>1 DEF Views!Ids
  <2>3. IsFiniteSet(1 .. Len(leads'))
    BY <2>2, FS_Interval
  <2>4. QED BY <2>1, <2>2, <2>3
<1>5. T \subseteq Views!Ids' /\ T \subseteq Nat /\ IsFiniteSet(T)
  <2>1. T \subseteq Views!Ids'
    BY <1>2 DEF Matched, Views!Matching
  <2>2. QED BY <1>4, <2>1, Finite
<1>6. PICK a \in Nat : a = Cardinality(T \ S)
  BY <1>5, Parted
<1>7. PICK r \in Nat : r = Cardinality(S \ T)
  BY <1>3, Parted
<1>8. PICK n \in Nat : n = Cardinality(S)
  BY <1>3, Parted
<1>9. PICK m \in Nat : m = Cardinality(T)
  BY <1>5, Parted
<1>10. PICK c \in Nat : c = Cardinality(Changed)
  BY <1>4
<1>11. m + r = n + a /\ a + r <= c
  <2>1. (T \ S) \cup (S \ T) \subseteq Changed
    BY <1>4
  <2>2. Cardinality(T) + Cardinality(S \ T) = Cardinality(S) + Cardinality(T \ S)
        /\ Cardinality(S \ T) + Cardinality(T \ S) <= Cardinality(Changed)
    BY <1>3, <1>4, <1>5, <2>1, GoneAndNew
  <2>3. QED BY <1>6, <1>7, <1>8, <1>9, <1>10, <2>2
<1>12. v.drift \in Nat /\ w.drift = v.drift + c /\ w.drift \in Nat /\ v.drift <= w.drift
  <2>1. v.drift \in Nat
    BY DEF Shape
  <2>2. w.drift = v.drift + c
    BY <1>10 DEF Drifts
  <2>3. QED BY <2>1, <2>2
<1>13. steady \subseteq v.steady /\ steady \subseteq S \cap T /\ v.steady \subseteq S
  <2>1. v.steady \subseteq S
    BY <1>1 DEF ListOK
  <2>2. \A l \in steady : l \in Views!Ids' /\ Views!Matches(v.who, v.filter, leads'[l], managed')
    BY <1>3, <1>4, <2>1
  <2>3. steady \subseteq T
    BY <1>2, <2>2 DEF Matched, Views!Matching
  <2>4. QED BY <2>1, <2>3
<1>14. w.rows \subseteq Views!Ids' /\ w.steady \subseteq Matched(w)'
  <2>1. v.rows \subseteq Views!Ids
    BY DEF ListOK
  <2>2. w.rows = v.rows /\ w.steady = steady
    BY DEF Drifts
  <2>3. QED BY <1>2, <1>4, <1>13, <2>1, <2>2
<1>15. IsFiniteSet(v.rows) /\ IsFiniteSet(v.steady)
  <2>1. v.rows \subseteq Views!Ids /\ v.steady \subseteq Views!Ids /\ IsFiniteSet(Views!Ids)
    BY <1>3, <1>13, There DEF ListOK
  <2>2. QED BY <2>1, Finite
<1>16. Cardinality(v.rows \ T) <= w.drift
  <2>1. IsFiniteSet(v.rows \ S) /\ IsFiniteSet(v.rows \ T)
        /\ Cardinality(v.rows \ S) \in Nat /\ Cardinality(v.rows \ T) \in Nat
    BY <1>15, Parted
  <2>2. (v.rows \ T) \ (v.rows \ S) \subseteq Changed
    BY <1>4
  <2>3. Cardinality(v.rows \ T) <= Cardinality(v.rows \ S) + c
    BY <1>4, <1>10, <2>1, <2>2, Near
  <2>4. Cardinality(v.rows \ S) <= v.drift
    BY <1>1 DEF ListOK
  <2>5. QED BY <1>12, <2>1, <2>3, <2>4
<1>17. ASSUME v.pc = "shown", v.how = "whole"
       PROVE  Cardinality(steady \ v.rows) <= w.drift
  <2>1. Cardinality(v.steady \ v.rows) <= v.drift
    BY <1>17 DEF ListOK
  <2>2. IsFiniteSet(v.steady \ v.rows) /\ Cardinality(v.steady \ v.rows) \in Nat
    BY <1>15, Parted
  <2>3. steady \ v.rows \subseteq v.steady \ v.rows
    BY <1>13
  <2>4. Cardinality(steady \ v.rows) \in Nat /\ Cardinality(steady \ v.rows) <= Cardinality(v.steady \ v.rows)
    BY <2>2, <2>3, Finite
  <2>5. QED BY <1>12, <2>1, <2>2, <2>4
<1>18. ASSUME v.pc = "reading", v.pages # 0, v.how = "whole"
       PROVE  /\ Cardinality(Missed(w)') <= w.drift
              /\ Cardinality(Missed(w)') + m <= w.drift + v.pages * PageSize
  <2>1. PICK K \in Nat : K = (v.page - 1) * PageSize
    <3>1. v.page \in 2 .. v.pages + 1 /\ v.pages \in Nat /\ PageSize \in Nat
      BY <1>18, Sizes DEF ListOK
    <3>2. PICK j \in Nat : j = v.page - 1
      BY <3>1
    <3>3. j * PageSize \in Nat
      BY <3>1
    <3>4. QED BY <3>2, <3>3
  <2>2. PICK A : A = Missed(v)
    OBVIOUS
  <2>3. PICK B : B = Missed(w)'
    OBVIOUS
  <2>a. PICK W : W = v.steady \ v.rows
    OBVIOUS
  <2>b. PICK V : V = steady \ v.rows
    OBVIOUS
  <2>4. A = {l \in W : Rank(Gt, S, l) < K}
    BY <1>1, <2>1, <2>2, <2>a DEF Missed
  <2>5. B = {l \in V : Rank(Gt, T, l) < K}
    <3>1. w.steady = steady /\ w.rows = v.rows /\ w.page = v.page
      BY DEF Drifts
    <3>2. QED BY <1>2, <2>1, <2>3, <2>b, <3>1 DEF Missed
  <2>6. W \subseteq S /\ V \subseteq W \cap T
    BY <1>13, <2>a, <2>b
  <2>d. S \subseteq Nat /\ T \subseteq Nat /\ IsFiniteSet(S) /\ IsFiniteSet(T) /\ K \in Nat
    BY <1>3, <1>5, <2>1
  <2>e. MissesBy(S, T, K, W, V, A, B)
    BY <2>4, <2>5, <2>6, <2>d, ListMisses
  <2>7. Cardinality(A) \in Nat /\ Cardinality(B) \in Nat
            /\ Cardinality(B) <= Cardinality(A) + Cardinality(S \ T)
    BY <2>e DEF MissesBy
  <2>8. PICK x \in Nat : x = Cardinality(A)
    BY <2>7
  <2>9. PICK y \in Nat : y = Cardinality(B)
    BY <2>7
  <2>10. y <= x + r
    BY <1>7, <2>7, <2>8, <2>9
  <2>11. x <= v.drift /\ x + n <= v.drift + v.pages * PageSize
    BY <1>1, <1>8, <1>18, <2>2, <2>8 DEF ListOK
  <2>12. PICK q \in Nat : q = v.pages * PageSize
    <3>1. v.pages \in Nat /\ PageSize \in Nat
      BY Sizes DEF ListOK
    <3>2. QED BY <3>1
  <2>c. PICK d \in Nat : d = v.drift
    BY <1>12
  <2>13. y <= d + c /\ y + m <= d + c + q
    <3>1. x <= d /\ x + n <= d + q
      BY <2>11, <2>12, <2>c
    <3>2. a \in Nat /\ r \in Nat /\ n \in Nat /\ m \in Nat /\ c \in Nat
          /\ x \in Nat /\ y \in Nat /\ d \in Nat /\ q \in Nat
      BY <1>6, <1>7, <1>8, <1>9, <1>10, <2>8, <2>9, <2>12, <2>c
    <3>3. QED BY <1>11, <2>10, <3>1, <3>2, ListSums
  <2>14. QED BY <1>12, <2>3, <2>9, <2>12, <2>13, <2>c
<1>19. QED
  <2>1. w.page = v.page /\ w.pages = v.pages /\ w.rows = v.rows /\ w.how = v.how /\ w.pc = v.pc
        /\ w.who = v.who /\ w.filter = v.filter /\ w.steady = steady
    BY DEF Drifts
  <2>2. w.who \in Executives /\ w.who # Views!Nobody /\ w.filter = Views!Own(w.who)
        /\ (w.pc = "reading" => w.who = session' \/ w.who \in late')
    BY <2>1 DEF ListOK
  <2>3. w.page \in Nat \ {0} /\ w.pages \in Nat
        /\ (w.pc = "reading" /\ w.pages = 0 => w.page = 1 /\ w.how = "whole")
        /\ (w.pc = "reading" /\ w.pages # 0 /\ w.how = "whole" => w.page \in 2 .. w.pages + 1)
    BY <2>1 DEF ListOK
  <2>4. Cardinality(w.rows \ Matched(w)') <= w.drift
    BY <1>2, <1>16, <2>1
  <2>5. w.pc = "shown" /\ w.how = "whole" => Cardinality(w.steady \ w.rows) <= w.drift
    BY <1>17, <2>1
  <2>6. w.pc = "reading" /\ w.pages # 0 /\ w.how = "whole" =>
         /\ Cardinality(Missed(w)') <= w.drift
         /\ Cardinality(Missed(w)') + Cardinality(Matched(w)') <= w.drift + w.pages * PageSize
    BY <1>2, <1>9, <1>18, <2>1
  <2>7. QED BY <1>14, <2>2, <2>3, <2>4, <2>5, <2>6 DEF ListOK

LEMMA HomeDrifts ==
  ASSUME LeadsTyped, LeadsTyped', Len(leads) <= Len(leads'),
         NEW v, v = view, Shape(v), v.kind = "home", HomeOK(v), NEW steady, NEW w,
         Drifts(v, w, v.drift + Cardinality(Changed), steady)
  PROVE  HomeOK(w)'
<1>1. PICK S : S = Matched(v)
  OBVIOUS
<1>2. PICK T : T = Matched(v)' /\ T = Matched(w)'
  BY DEF Matched, Drifts
<1>3. S \subseteq Views!Ids /\ IsFiniteSet(S) /\ Orders(recent, S)
  BY <1>1, MineIs
<1>4. /\ (T \ S) \cup (S \ T) \subseteq Changed /\ IsFiniteSet(Changed)
      /\ \A l \in S \cap T : l \notin Changed => leads'[l] = leads[l]
  BY <1>1, <1>2, ChangedIs
<1>5. IsFiniteSet(T) /\ T \subseteq Views!Live'
  <2>1. Len(leads') \in Nat /\ Views!Ids' = 1 .. Len(leads')
    <3>1. leads' \in Seq(Views!Lead \cup {Views!NoLead})
      BY DEF LeadsTyped
    <3>2. QED BY <3>1 DEF Views!Ids
  <2>2. IsFiniteSet(1 .. Len(leads'))
    BY <2>1, FS_Interval
  <2>3. T \subseteq Views!Live'
    BY <1>2 DEF Matched, Views!Matching, Views!Matches, Views!Live
  <2>4. T \subseteq Views!Ids'
    BY <1>2 DEF Matched, Views!Matching
  <2>5. QED BY <2>1, <2>2, <2>3, <2>4, Finite
<1>6. Orders(recent', T)
  <2>1. Orders(recent', Views!Live')
    BY DEF LeadsTyped
  <2>2. QED BY <1>5, <2>1 DEF Orders
<1>7. PICK r \in Nat : r = Cardinality(S \ T)
  BY <1>3, Parted
<1>8. PICK n \in Nat : n = Cardinality(S)
  BY <1>3, Parted
<1>9. PICK m \in Nat : m = Cardinality(T)
  BY <1>5, Parted
<1>10. PICK c \in Nat : c = Cardinality(Changed)
  BY <1>4, Finite
<1>11. m + r >= n
  <2>1. Cardinality(T \ S) \in Nat
    BY <1>5, Parted
  <2>2. Cardinality(T) + Cardinality(S \ T) = Cardinality(S) + Cardinality(T \ S)
    BY <1>3, <1>4, <1>5, GoneAndNew
  <2>3. QED BY <1>7, <1>8, <1>9, <2>1, <2>2
<1>12. PICK U : U = Urgent(v)
  OBVIOUS
<1>13. PICK V : V = Urgent(w)'
  OBVIOUS
<1>14. U = {l \in S : leads[l].overdue /\ leads[l].status \notin Views!Terminal}
       /\ V = {l \in T : leads'[l].overdue /\ leads'[l].status \notin Views!Terminal}
  BY <1>1, <1>2, <1>12, <1>13 DEF Urgent
<1>15. U \subseteq S /\ V \subseteq T /\ U \ V \subseteq Changed /\ V \ U \subseteq Changed \ (S \ T)
  BY <1>4, <1>14
<1>16. IsFiniteSet(U) /\ IsFiniteSet(V)
  BY <1>3, <1>5, <1>15, Finite
<1>17. PICK x \in Nat : x = Cardinality(U)
  BY <1>16, Finite
<1>18. PICK y \in Nat : y = Cardinality(V)
  BY <1>16, Finite
<1>19. x <= y + c
  BY <1>4, <1>10, <1>15, <1>16, <1>17, <1>18, Near
<1>20. y + r <= x + c
  <2>1. IsFiniteSet(Changed \ (S \ T)) /\ Cardinality(Changed \ (S \ T)) \in Nat
        /\ Cardinality(Changed) = Cardinality(Changed \cap (S \ T)) + Cardinality(Changed \ (S \ T))
    BY <1>4, Parted
  <2>2. Changed \cap (S \ T) = S \ T
    BY <1>4
  <2>3. PICK d \in Nat : d = Cardinality(Changed \ (S \ T))
    BY <2>1
  <2>4. c = r + d
    BY <1>7, <1>10, <2>1, <2>2, <2>3
  <2>5. y <= x + d
    BY <1>15, <1>16, <1>17, <1>18, <2>1, <2>3, Near
  <2>6. x \in Nat /\ y \in Nat /\ r \in Nat /\ d \in Nat
    BY <1>7, <1>17, <1>18, <2>3
  <2>7. QED BY <2>4, <2>5, <2>6
<1>21. PICK O : O = Beyond(v)
  OBVIOUS
<1>22. PICK Q : Q = Beyond(w)'
  OBVIOUS
<1>23. HomeCap \in Nat
  BY Sizes
<1>24. O = {l \in S : Rank(recent, S, l) >= HomeCap} /\ Q = {l \in T : Rank(recent', T, l) >= HomeCap}
  BY <1>1, <1>2, <1>21, <1>22 DEF Beyond
<1>25. PICK o \in Nat : o = Cardinality(O) /\ (o = 0 \/ o + HomeCap <= n)
  <2>1. Cardinality(O) \in Nat /\ (O = {} \/ Cardinality(O) + HomeCap <= Cardinality(S))
    BY <1>3, <1>23, <1>24, Rest
  <2>2. O = {} => Cardinality(O) = 0
    BY FS_EmptySet
  <2>3. QED BY <1>8, <2>1, <2>2
<1>26. PICK q \in Nat : q = Cardinality(Q) /\ m <= q + HomeCap
  BY <1>5, <1>6, <1>9, <1>23, <1>24, Capped
<1>27. o <= q + r
  BY <1>7, <1>8, <1>9, <1>11, <1>23, <1>25, <1>26, HomeSums
<1>28. PICK d \in Nat : d = v.drift /\ w.drift = d + c /\ w.overdue = v.overdue /\ w.pc = v.pc /\ w.how = v.how
  BY <1>10 DEF Shape, Drifts
<1>29. QED
  <2>1. ASSUME v.pc = "shown", v.how = "whole"
        PROVE  w.overdue <= y + w.drift /\ y <= w.overdue + w.drift + q
    <3>1. v.overdue \in Nat /\ v.overdue <= x + d /\ x <= v.overdue + d + o
      BY <1>12, <1>17, <1>21, <1>25, <1>28, <2>1 DEF HomeOK
    <3>2. PICK k \in Nat : k = v.overdue
      BY <3>1
    <3>3. k <= y + (d + c) /\ y <= k + (d + c) + q
      <4>1. k <= x + d /\ x <= k + d + o
        BY <3>1, <3>2
      <4>2. k \in Nat /\ x \in Nat /\ y \in Nat /\ c \in Nat /\ d \in Nat /\ o \in Nat /\ q \in Nat /\ r \in Nat
        BY <1>7, <1>10, <1>17, <1>18, <1>25, <1>26, <1>28, <3>2
      <4>3. QED BY <1>19, <1>20, <1>27, <4>1, <4>2, HomeSums
    <3>4. QED BY <1>28, <3>2, <3>3
  <2>2. w.overdue \in Nat
    BY <1>28 DEF HomeOK
  <2>3. QED BY <1>13, <1>18, <1>22, <1>26, <1>28, <2>1, <2>2 DEF HomeOK

-----------------------------------------------------------------------------
(* Figures drift *)

LEMMA PartNear ==
  ASSUME NEW S, NEW T, IsFiniteSet(S), IsFiniteSet(T), NEW D, IsFiniteSet(D), (T \ S) \cup (S \ T) \subseteq D,
         NEW all, NEW now, \A l \in S \cap T : l \notin D => now[l] = all[l], NEW f, NEW x
  PROVE  /\ Cardinality(Part(f, x, S, all)) \in Nat /\ Cardinality(Part(f, x, T, now)) \in Nat
         /\ Cardinality(Part(f, x, T, now)) <= Cardinality(Part(f, x, S, all)) + Cardinality(D)
         /\ Cardinality(Part(f, x, S, all)) <= Cardinality(Part(f, x, T, now)) + Cardinality(D)
<1>1. PICK P : P = Part(f, x, S, all)
  OBVIOUS
<1>2. PICK Q : Q = Part(f, x, T, now)
  OBVIOUS
<1>3. P \subseteq S /\ Q \subseteq T
  BY <1>1, <1>2 DEF Part
<1>4. P \ Q \subseteq D /\ Q \ P \subseteq D
  BY <1>1, <1>2 DEF Part
<1>5. IsFiniteSet(P) /\ IsFiniteSet(Q) /\ Cardinality(P) \in Nat /\ Cardinality(Q) \in Nat
  BY <1>3, Finite
<1>6. Cardinality(P) <= Cardinality(Q) + Cardinality(D) /\ Cardinality(Q) <= Cardinality(P) + Cardinality(D)
  BY <1>4, <1>5, Near
<1>7. QED BY <1>1, <1>2, <1>5, <1>6

LEMMA PartSplit ==
  ASSUME NEW S, IsFiniteSet(S), NEW all, NEW x
  PROVE  /\ \A f : Cardinality(Part(f, x, S, all)) \in Nat /\ Cardinality(Part(f, x, S, all)) <= Cardinality(S)
         /\ Cardinality(Part("assigned", x, S, all))
              = Cardinality(Part("active", x, S, all)) + Cardinality(Part("terminal", x, S, all))
         /\ Cardinality(Part("completed", x, S, all)) <= Cardinality(Part("districts", x, S, all))
         /\ Cardinality(S) \in Nat
<1>1. \A f : Part(f, x, S, all) \subseteq S
  BY DEF Part
<1>2. \A f : IsFiniteSet(Part(f, x, S, all)) /\ Cardinality(Part(f, x, S, all)) \in Nat
              /\ Cardinality(Part(f, x, S, all)) <= Cardinality(S)
  BY <1>1, Finite
<1>3. Cardinality(Part("assigned", x, S, all))
        = Cardinality(Part("active", x, S, all)) + Cardinality(Part("terminal", x, S, all))
  <2>1. PICK P : P = Part("active", x, S, all)
    OBVIOUS
  <2>2. PICK Q : Q = Part("terminal", x, S, all)
    OBVIOUS
  <2>3. P = {l \in S : all[l].exec = x /\ all[l].status \notin Views!Terminal}
    BY <2>1 DEF Part
  <2>4. Q = {l \in S : all[l].exec = x /\ all[l].status \in Views!Terminal}
    BY <2>2 DEF Part
  <2>5. Part("assigned", x, S, all) = {l \in S : all[l].exec = x}
    BY DEF Part
  <2>6. Part("assigned", x, S, all) = P \cup Q /\ P \cap Q = {}
    BY <2>3, <2>4, <2>5
  <2>7. IsFiniteSet(P) /\ IsFiniteSet(Q)
    BY <1>2, <2>1, <2>2
  <2>8. Cardinality(P \cup Q) = Cardinality(P) + Cardinality(Q)
    BY <2>6, <2>7, Joint
  <2>9. QED BY <2>1, <2>2, <2>6, <2>8
<1>4. Cardinality(Part("completed", x, S, all)) <= Cardinality(Part("districts", x, S, all))
  <2>1. Part("completed", x, S, all) \subseteq Part("districts", x, S, all)
    BY DEF Part
  <2>2. QED BY <1>2, <2>1, Finite
<1>5. Cardinality(S) \in Nat
  BY Finite
<1>6. QED BY <1>2, <1>3, <1>4, <1>5

LEMMA WithinSums ==
  /\ \A m, n, d, c, k \in Nat : Within(m, n, d) /\ k <= m + c /\ m <= k + c => Within(k, n, d + c)
  /\ \A m, n, d, c, k \in Nat : Within(m, n, d) /\ k <= n + c /\ n <= k + c => Within(m, k, d + c)
  /\ \A m, n, d, c \in Nat : Within(m, n, d) => Within(m, n, d + c)
  /\ \A m, d \in Nat : Within(m, m, d)
BY DEF Within

\* One of three numbers differs by no more than c, or all were so recently that
\* they agree.
LEMMA ThreeSums ==
  ASSUME NEW d \in Nat, NEW c \in Nat,
         NEW i \in Nat, NEW j \in Nat, NEW k \in Nat, NEW i2 \in Nat, NEW j2 \in Nat, NEW k2 \in Nat,
         NEW p \in Nat, NEW q \in Nat, NEW r \in Nat, NEW p2 \in Nat, NEW q2 \in Nat, NEW r2 \in Nat,
         p = q + r, p2 = q2 + r2,
         p2 <= p + c, p <= p2 + c, q2 <= q + c, q <= q2 + c, r2 <= r + c, r <= r2 + c,
         i <= j + k + d, j + k <= i + d,
         i2 = i \/ (i = p /\ i2 = p2), j2 = j \/ (j = q /\ j2 = q2), k2 = k \/ (k = r /\ k2 = r2)
  PROVE  i2 <= j2 + k2 + (d + c) /\ j2 + k2 <= i2 + (d + c)
<1>1. CASE i2 = i /\ j2 = j /\ k2 = k
  BY <1>1
<1>2. CASE i = p /\ i2 = p2 /\ j2 = j /\ k2 = k
  BY <1>2
<1>3. CASE i2 = i /\ j = q /\ j2 = q2 /\ k2 = k
  BY <1>3
<1>4. CASE i2 = i /\ j2 = j /\ k = r /\ k2 = r2
  BY <1>4
<1>5. CASE i2 = i /\ j = q /\ j2 = q2 /\ k = r /\ k2 = r2
  BY <1>5
<1>6. CASE i = p /\ i2 = p2 /\ j2 = j /\ k = r /\ k2 = r2
  BY <1>6
<1>7. CASE i = p /\ i2 = p2 /\ j = q /\ j2 = q2 /\ k2 = k
  BY <1>7
<1>8. CASE i = p /\ i2 = p2 /\ j = q /\ j2 = q2 /\ k = r /\ k2 = r2
  BY <1>8
<1>9. QED BY <1>1, <1>2, <1>3, <1>4, <1>5, <1>6, <1>7, <1>8

LEMMA GatherDrifts ==
  ASSUME LeadsTyped, LeadsTyped', Len(leads) <= Len(leads'),
         NEW v, v = view, Shape(v), v.kind \in {"dashboard", "report"}, NEW steady, NEW w,
         Drifts(v, w, v.drift + Cardinality(Changed), steady)
  PROVE  /\ DashboardOK(v) => DashboardOK(w)'
         /\ ReportOK(v) => ReportOK(w)'
<1>1. PICK S : S = Matched(v)
  OBVIOUS
<1>2. PICK T : T = Matched(v)' /\ T = Matched(w)'
  BY DEF Matched, Drifts
<1>3. IsFiniteSet(S)
  BY <1>1, MineIs
<1>4. /\ (T \ S) \cup (S \ T) \subseteq Changed /\ IsFiniteSet(Changed) /\ Cardinality(Changed) \in Nat
      /\ \A l \in S \cap T : l \notin Changed => leads'[l] = leads[l]
  BY <1>1, <1>2, ChangedIs
<1>5. IsFiniteSet(T)
  <2>1. T \subseteq S \cup Changed
    BY <1>4
  <2>2. IsFiniteSet(S \cup Changed)
    BY <1>3, <1>4, Joint
  <2>3. QED BY <2>1, <2>2, Finite
<1>6. PICK c \in Nat : c = Cardinality(Changed)
  BY <1>4
<1>7. PICK d \in Nat : d = v.drift /\ w.drift = d + c /\ w.got = v.got
  BY <1>6 DEF Shape, Drifts
<1>8. ASSUME NEW f, NEW x
      PROVE  /\ Cardinality(Part(f, x, S, leads)) \in Nat /\ Cardinality(Part(f, x, T, leads')) \in Nat
             /\ Cardinality(Part(f, x, T, leads')) <= Cardinality(Part(f, x, S, leads)) + c
             /\ Cardinality(Part(f, x, S, leads)) <= Cardinality(Part(f, x, T, leads')) + c
             /\ \/ NumberOf(w, f, x)' = NumberOf(v, f, x)
                \/ /\ NumberOf(v, f, x) = Cardinality(Part(f, x, S, leads))
                   /\ NumberOf(w, f, x)' = Cardinality(Part(f, x, T, leads'))
  <2>1. /\ Cardinality(Part(f, x, S, leads)) \in Nat /\ Cardinality(Part(f, x, T, leads')) \in Nat
        /\ Cardinality(Part(f, x, T, leads')) <= Cardinality(Part(f, x, S, leads)) + c
        /\ Cardinality(Part(f, x, S, leads)) <= Cardinality(Part(f, x, T, leads')) + c
    BY <1>3, <1>4, <1>5, <1>6, PartNear
  <2>2. CASE f \in DOMAIN v.got
    <3>1. NumberOf(w, f, x)' = v.got[f][x] /\ NumberOf(v, f, x) = v.got[f][x]
      BY <1>7, <2>2 DEF NumberOf
    <3>2. QED BY <2>1, <3>1
  <2>3. CASE f \notin DOMAIN v.got
    <3>1. /\ NumberOf(v, f, x) = Cardinality(Part(f, x, S, leads))
          /\ NumberOf(w, f, x)' = Cardinality(Part(f, x, T, leads'))
      BY <1>1, <1>2, <1>7, <2>3 DEF NumberOf
    <3>2. QED BY <2>1, <3>1
  <2>4. QED BY <2>2, <2>3
<1>9. PICK n \in Nat : n = Cardinality(S)
  BY <1>3, Finite
<1>10. PICK m \in Nat : m = Cardinality(T)
  BY <1>5, Finite
<1>11. m <= n + c /\ n <= m + c
  <2>1. T \ S \subseteq Changed /\ S \ T \subseteq Changed
    BY <1>4
  <2>2. QED BY <1>3, <1>4, <1>5, <1>6, <1>9, <1>10, <2>1, Near
<1>12. ASSUME NEW f
       PROVE  SumOf(w, f)' = SumOf(v, f) \/ (SumOf(v, f) = n /\ SumOf(w, f)' = m)
  <2>1. CASE f \in DOMAIN v.got
    BY <1>7, <2>1 DEF SumOf
  <2>2. CASE f \notin DOMAIN v.got
    BY <1>1, <1>2, <1>7, <1>9, <1>10, <2>2 DEF SumOf
  <2>3. QED BY <2>1, <2>2
<1>13. ASSUME Within(SumOf(v, "statuses"), SumOf(v, "districts"), v.drift)
       PROVE  Within(SumOf(w, "statuses"), SumOf(w, "districts"), w.drift)'
  <2>1. PICK i \in Nat : i = SumOf(v, "statuses")
    BY <1>13 DEF Within
  <2>2. PICK j \in Nat : j = SumOf(v, "districts")
    BY <1>13 DEF Within
  <2>3. i <= j + d /\ j <= i + d
    BY <1>7, <1>13, <2>1, <2>2 DEF Within
  <2>4. PICK i2 : i2 = SumOf(w, "statuses")' /\ (i2 = i \/ (i = n /\ i2 = m))
    BY <1>12, <2>1
  <2>5. PICK j2 : j2 = SumOf(w, "districts")' /\ (j2 = j \/ (j = n /\ j2 = m))
    BY <1>12, <2>2
  <2>6. i2 \in Nat /\ j2 \in Nat
    BY <1>10, <2>1, <2>2, <2>4, <2>5
  <2>7. i2 <= j2 + (d + c) /\ j2 <= i2 + (d + c)
    <3>1. (i2 = i \/ (i = n /\ i2 = m)) /\ (j2 = j \/ (j = n /\ j2 = m))
      BY <2>4, <2>5
    <3>2. i \in Nat /\ j \in Nat /\ n \in Nat /\ m \in Nat /\ d \in Nat /\ c \in Nat
      BY <1>6, <1>7, <1>9, <1>10, <2>1, <2>2
    <3>3. QED BY <1>11, <2>3, <3>1, <3>2
  <2>8. QED BY <1>7, <2>4, <2>5, <2>6, <2>7 DEF Within
<1>14. ASSUME DashboardOK(v), NEW e \in Executives
       PROVE  /\ NumberOf(w, "active", e)' \in Nat /\ NumberOf(w, "terminal", e)' \in Nat
              /\ Within(NumberOf(w, "assigned", e), NumberOf(w, "active", e) + NumberOf(w, "terminal", e),
                     w.drift)'
  <2>0. /\ NumberOf(v, "active", e) \in Nat /\ NumberOf(v, "terminal", e) \in Nat
        /\ Within(NumberOf(v, "assigned", e), NumberOf(v, "active", e) + NumberOf(v, "terminal", e), v.drift)
    BY <1>14 DEF DashboardOK
  <2>1. PICK i \in Nat : i = NumberOf(v, "assigned", e)
    BY <2>0 DEF Within
  <2>2. PICK j \in Nat : j = NumberOf(v, "active", e)
    BY <2>0
  <2>3. PICK k \in Nat : k = NumberOf(v, "terminal", e)
    BY <2>0
  <2>4. i <= j + k + d /\ j + k <= i + d
    BY <1>7, <2>0, <2>1, <2>2, <2>3 DEF Within
  <2>5. PICK p \in Nat : p = Cardinality(Part("assigned", e, S, leads))
    BY <1>8
  <2>6. PICK q \in Nat : q = Cardinality(Part("active", e, S, leads))
    BY <1>8
  <2>7. PICK r \in Nat : r = Cardinality(Part("terminal", e, S, leads))
    BY <1>8
  <2>8. PICK p2 \in Nat : p2 = Cardinality(Part("assigned", e, T, leads'))
    BY <1>8
  <2>9. PICK q2 \in Nat : q2 = Cardinality(Part("active", e, T, leads'))
    BY <1>8
  <2>10. PICK r2 \in Nat : r2 = Cardinality(Part("terminal", e, T, leads'))
    BY <1>8
  <2>11. p = q + r /\ p2 = q2 + r2
    BY <1>3, <1>5, <2>5, <2>6, <2>7, <2>8, <2>9, <2>10, PartSplit
  <2>12. p2 <= p + c /\ p <= p2 + c /\ q2 <= q + c /\ q <= q2 + c /\ r2 <= r + c /\ r <= r2 + c
    BY <1>8, <2>5, <2>6, <2>7, <2>8, <2>9, <2>10
  <2>13. PICK i2 \in Nat : i2 = NumberOf(w, "assigned", e)' /\ (i2 = i \/ (i = p /\ i2 = p2))
    BY <1>8, <2>1, <2>5, <2>8
  <2>14. PICK j2 \in Nat : j2 = NumberOf(w, "active", e)' /\ (j2 = j \/ (j = q /\ j2 = q2))
    BY <1>8, <2>2, <2>6, <2>9
  <2>15. PICK k2 \in Nat : k2 = NumberOf(w, "terminal", e)' /\ (k2 = k \/ (k = r /\ k2 = r2))
    BY <1>8, <2>3, <2>7, <2>10
  <2>16. i2 <= j2 + k2 + (d + c) /\ j2 + k2 <= i2 + (d + c)
    <3>1. d \in Nat /\ c \in Nat /\ i \in Nat /\ j \in Nat /\ k \in Nat /\ i2 \in Nat /\ j2 \in Nat
              /\ k2 \in Nat
          /\ p \in Nat /\ q \in Nat /\ r \in Nat /\ p2 \in Nat /\ q2 \in Nat /\ r2 \in Nat
      BY <1>6, <1>7, <2>1, <2>2, <2>3, <2>5, <2>6, <2>7, <2>8, <2>9, <2>10, <2>13, <2>14, <2>15
    <3>2. (i2 = i \/ (i = p /\ i2 = p2)) /\ (j2 = j \/ (j = q /\ j2 = q2)) /\ (k2 = k \/ (k = r /\ k2 = r2))
      BY <2>13, <2>14, <2>15
    <3>3. QED BY <2>4, <2>11, <2>12, <3>1, <3>2, ThreeSums
  <2>17. j2 + k2 \in Nat
    BY <2>14, <2>15
  <2>18. QED BY <1>7, <2>13, <2>14, <2>15, <2>16, <2>17 DEF Within
<1>15. ASSUME ReportOK(v), NEW x \in Districts
       PROVE  /\ NumberOf(w, "completed", x)' \in Nat /\ NumberOf(w, "districts", x)' \in Nat
              /\ NumberOf(w, "completed", x)' <= NumberOf(w, "districts", x)' + w.drift
  <2>0. /\ NumberOf(v, "completed", x) \in Nat /\ NumberOf(v, "districts", x) \in Nat
        /\ NumberOf(v, "completed", x) <= NumberOf(v, "districts", x) + v.drift
    BY <1>15 DEF ReportOK
  <2>1. PICK i \in Nat : i = NumberOf(v, "completed", x)
    BY <2>0
  <2>2. PICK j \in Nat : j = NumberOf(v, "districts", x)
    BY <2>0
  <2>3. i <= j + d
    BY <1>7, <2>0, <2>1, <2>2
  <2>4. PICK p \in Nat : p = Cardinality(Part("completed", x, S, leads))
    BY <1>8
  <2>5. PICK q \in Nat : q = Cardinality(Part("districts", x, S, leads))
    BY <1>8
  <2>6. PICK p2 \in Nat : p2 = Cardinality(Part("completed", x, T, leads'))
    BY <1>8
  <2>7. PICK q2 \in Nat : q2 = Cardinality(Part("districts", x, T, leads'))
    BY <1>8
  <2>8. p2 <= q2 /\ p2 <= p + c /\ q <= q2 + c
    <3>1. p2 <= q2
      BY <1>5, <2>6, <2>7, PartSplit
    <3>2. p2 <= p + c /\ q <= q2 + c
      BY <1>8, <2>4, <2>5, <2>6, <2>7
    <3>3. QED BY <3>1, <3>2
  <2>9. PICK i2 \in Nat : i2 = NumberOf(w, "completed", x)' /\ (i2 = i \/ (i = p /\ i2 = p2))
    BY <1>8, <2>1, <2>4, <2>6
  <2>10. PICK j2 \in Nat : j2 = NumberOf(w, "districts", x)' /\ (j2 = j \/ (j = q /\ j2 = q2))
    BY <1>8, <2>2, <2>5, <2>7
  <2>11. i2 <= j2 + (d + c)
    <3>1. d \in Nat /\ c \in Nat /\ i \in Nat /\ j \in Nat /\ i2 \in Nat /\ j2 \in Nat
          /\ p \in Nat /\ q \in Nat /\ p2 \in Nat /\ q2 \in Nat
      BY <1>6, <1>7, <2>1, <2>2, <2>4, <2>5, <2>6, <2>7, <2>9, <2>10
    <3>2. (i2 = i \/ (i = p /\ i2 = p2)) /\ (j2 = j \/ (j = q /\ j2 = q2))
      BY <2>9, <2>10
    <3>3. QED BY <2>3, <2>8, <3>1, <3>2
  <2>12. QED BY <1>7, <2>9, <2>10, <2>11
<1>16. ASSUME ReportOK(v)
       PROVE  Assigned(w)' \in Nat /\ Assigned(w)' <= SumOf(w, "districts")' + w.drift
  <2>1. PICK i \in Nat : i = Assigned(v)
    BY <1>16 DEF ReportOK
  <2>2. PICK j \in Nat : j = SumOf(v, "districts")
    BY <1>16 DEF ReportOK, Within
  <2>3. i <= j + d
    BY <1>7, <1>16, <2>1, <2>2 DEF ReportOK
  <2>4. PICK p \in Nat : p = Cardinality(Part("sum", Views!Nobody, S, leads))
    BY <1>8
  <2>5. PICK p2 \in Nat : p2 = Cardinality(Part("sum", Views!Nobody, T, leads'))
    BY <1>8
  <2>6. p2 <= p + c /\ p2 <= m
    <3>1. p2 <= p + c
      BY <1>8, <2>4, <2>5
    <3>2. p2 <= m
      BY <1>5, <1>10, <2>5, PartSplit
    <3>3. QED BY <3>1, <3>2
  <2>7. PICK i2 \in Nat : i2 = Assigned(w)' /\ (i2 = i \/ (i = p /\ i2 = p2))
    <3>1. CASE "assigned" \in DOMAIN v.got
      <4>1. Assigned(w)' = Views!Total(v.got["assigned"]) /\ Assigned(v) = Views!Total(v.got["assigned"])
        BY <1>7, <3>1 DEF Assigned
      <4>2. QED BY <2>1, <4>1
    <3>2. CASE "assigned" \notin DOMAIN v.got
      BY <1>1, <1>2, <1>7, <2>1, <2>4, <2>5, <3>2 DEF Assigned
    <3>3. QED BY <3>1, <3>2
  <2>8. PICK j2 : j2 = SumOf(w, "districts")' /\ (j2 = j \/ (j = n /\ j2 = m))
    BY <1>12, <2>2
  <2>9. i2 <= j2 + (d + c) /\ j2 \in Nat
    <3>1. d \in Nat /\ c \in Nat /\ i \in Nat /\ j \in Nat /\ i2 \in Nat
          /\ p \in Nat /\ p2 \in Nat /\ n \in Nat /\ m \in Nat
      BY <1>6, <1>7, <1>9, <1>10, <2>1, <2>2, <2>4, <2>5, <2>7
    <3>2. (i2 = i \/ (i = p /\ i2 = p2)) /\ (j2 = j \/ (j = n /\ j2 = m))
      BY <2>7, <2>8
    <3>3. QED BY <1>11, <2>3, <2>6, <3>1, <3>2
  <2>10. QED BY <1>7, <2>7, <2>8, <2>9
<1>17. ASSUME DashboardOK(v) PROVE DashboardOK(w)'
  <2>1. Within(SumOf(w, "statuses"), SumOf(w, "districts"), w.drift)'
    BY <1>13, <1>17 DEF DashboardOK
  <2>2. QED BY <1>14, <1>17, <2>1 DEF DashboardOK
<1>18. ASSUME ReportOK(v) PROVE ReportOK(w)'
  <2>1. Within(SumOf(w, "statuses"), SumOf(w, "districts"), w.drift)'
    BY <1>13, <1>18 DEF ReportOK
  <2>2. QED BY <1>15, <1>16, <1>18, <2>1 DEF ReportOK
<1>19. QED BY <1>17, <1>18

-----------------------------------------------------------------------------
(* Every change of the leads leaves the open screen explained *)

LEMMA NextView ==
  ASSUME NEW w, view' = w, (ViewOK(w))'
  PROVE  ViewOK(view)'
<1>1. Shape(w) /\ (w.kind = "list" => ListOK(w)') /\ (w.kind = "home" => HomeOK(w)')
      /\ (w.kind = "dashboard" => RoundsOK(w) /\ DashboardOK(w)')
      /\ (w.kind = "report" => RoundsOK(w) /\ ReportOK(w)')
  BY DEF ViewOK
<1>2. Shape(view)' <=> Shape(w)
  BY DEF Shape
<1>3. RoundsOK(view)' <=> RoundsOK(w)
  BY DEF RoundsOK
<1>4. ListOK(view)' <=> ListOK(w)'
  BY DEF ListOK, Missed, Matched, Views!Matching
<1>5. HomeOK(view)' <=> HomeOK(w)'
  BY DEF HomeOK, Urgent, Beyond, Matched, Views!Matching
<1>6. DashboardOK(view)' <=> DashboardOK(w)'
  BY DEF DashboardOK, SumOf, NumberOf, Matched, Views!Matching
<1>7. ReportOK(view)' <=> ReportOK(w)'
  BY DEF ReportOK, SumOf, NumberOf, Assigned, Matched, Views!Matching
<1>8. view'.kind = w.kind
  OBVIOUS
<1>9. QED BY <1>1, <1>2, <1>3, <1>4, <1>5, <1>6, <1>7, <1>8 DEF ViewOK

\* What was shown of the figures stays as it was shown.
LEMMA ShownFigures ==
  ASSUME NEW v, RoundsOK(v), v.pc = "shown"
  PROVE  /\ v.kind = "dashboard" => (DashboardOK(v) => DashboardOK(v)')
         /\ v.kind = "report" => (ReportOK(v) => ReportOK(v)')
<1>1. CASE v.kind = "dashboard"
  <2>1. Views!Rounds(v.kind)[1] \subseteq DOMAIN v.got
    BY <1>1 DEF RoundsOK, Views!Rounds
  <2>2. {"statuses", "districts", "assigned", "active", "terminal"} \subseteq DOMAIN v.got
    BY <1>1, <2>1 DEF Views!Rounds
  <2>3. /\ SumOf(v, "statuses")' = SumOf(v, "statuses") /\ SumOf(v, "districts")' = SumOf(v, "districts")
    BY <2>2 DEF SumOf
  <2>4. \A e : /\ NumberOf(v, "active", e)' = NumberOf(v, "active", e)
               /\ NumberOf(v, "terminal", e)' = NumberOf(v, "terminal", e)
               /\ NumberOf(v, "assigned", e)' = NumberOf(v, "assigned", e)
    BY <2>2 DEF NumberOf
  <2>5. QED BY <1>1, <2>3, <2>4 DEF DashboardOK
<1>2. CASE v.kind = "report"
  <2>1. Views!Rounds(v.kind)[1] \subseteq DOMAIN v.got /\ Views!Rounds(v.kind)[2] \subseteq DOMAIN v.got
        /\ Views!Rounds(v.kind)[4] \subseteq DOMAIN v.got
    BY <1>2 DEF RoundsOK, Views!Rounds
  <2>2. {"statuses", "districts", "completed", "assigned"} \subseteq DOMAIN v.got
    BY <1>2, <2>1 DEF Views!Rounds
  <2>3. /\ SumOf(v, "statuses")' = SumOf(v, "statuses") /\ SumOf(v, "districts")' = SumOf(v, "districts")
        /\ Assigned(v)' = Assigned(v)
    BY <2>2 DEF SumOf, Assigned
  <2>4. \A x : /\ NumberOf(v, "completed", x)' = NumberOf(v, "completed", x)
               /\ NumberOf(v, "districts", x)' = NumberOf(v, "districts", x)
    BY <2>2 DEF NumberOf
  <2>5. QED BY <1>2, <2>3, <2>4 DEF ReportOK
<1>3. QED BY <1>1, <1>2

LEMMA ScreenDrifts ==
  ASSUME LeadsTyped, LeadsTyped', Len(leads) <= Len(leads'), UNCHANGED <<session, late>>, ScreenOK, Views!Drift
  PROVE  ScreenOK'
<1>1. CASE view = Views!Closed
  <2>1. view' = view
    BY <1>1 DEF Views!Drift, Views!Reading, Views!IsOpen, Views!Shown, Views!Closed
  <2>2. QED BY <1>1, <2>1 DEF ScreenOK, Views!Closed
<1>2. CASE ViewOK(view)
  <2>1. PICK v : v = view
    OBVIOUS
  <2>2. Shape(v) /\ ViewOK(v)
    BY <1>2, <2>1 DEF ViewOK
  <2>3. CASE ~ (Views!Reading \/ Views!Shown("list") \/ Views!Shown("home"))
    <3>1. view' = v
      BY <2>1, <2>3 DEF Views!Drift
    <3>2. v.pc = "shown" /\ v.kind \in {"page", "dashboard", "report"}
      BY <2>1, <2>2, <2>3 DEF Shape, Views!Reading, Views!IsOpen, Views!Shown
    <3>3. v.kind = "dashboard" => RoundsOK(v) /\ DashboardOK(v)'
      BY <2>2, <3>2, ShownFigures DEF ViewOK
    <3>4. v.kind = "report" => RoundsOK(v) /\ ReportOK(v)'
      BY <2>2, <3>2, ShownFigures DEF ViewOK
    <3>5. ViewOK(v)'
      BY <2>2, <3>2, <3>3, <3>4 DEF ViewOK
    <3>6. ViewOK(view)'
      BY <3>1, <3>5, NextView
    <3>7. QED BY <3>6 DEF ScreenOK
  <2>4. CASE Views!Reading \/ Views!Shown("list") \/ Views!Shown("home")
    <3>1. PICK steady : /\ view' = [view EXCEPT !.drift = view.drift + Cardinality(Changed), !.steady = steady]
                        /\ steady = {l \in view.steady : Views!Matches(view.who, view.filter, leads'[l],
                               managed')}
      BY <2>4, DriftIs
    <3>2. PICK w : w = view'
      OBVIOUS
    <3>3. v.drift + Cardinality(Changed) \in Nat
      <4>1. Cardinality(Changed) \in Nat
        BY <2>1, <2>2, ChangedIs
      <4>2. v.drift \in Nat
        BY <2>2 DEF Shape
      <4>3. QED BY <4>1, <4>2
    <3>4. w = [v EXCEPT !.drift = v.drift + Cardinality(Changed), !.steady = steady]
      BY <2>1, <3>1, <3>2
    <3>5. Drifts(v, w, v.drift + Cardinality(Changed), steady) /\ Shape(w)
      BY <2>2, <3>3, <3>4, DriftsIs
    <3>6. w.kind = v.kind
      BY <3>5 DEF Drifts
    <3>7. w.kind = "list" => ListOK(w)'
      <4>1. steady = {l \in v.steady : Views!Matches(v.who, v.filter, leads'[l], managed')}
        BY <2>1, <3>1
      <4>2. ASSUME w.kind = "list" PROVE ListOK(w)'
        <5>1. v.kind = "list" /\ ListOK(v)
          BY <2>2, <3>6, <4>2 DEF ViewOK
        <5>2. QED BY <2>1, <2>2, <3>5, <4>1, <5>1, ListDrifts
      <4>3. QED BY <4>2
    <3>8. w.kind = "home" => HomeOK(w)'
      <4>1. ASSUME w.kind = "home" PROVE HomeOK(w)'
        <5>1. v.kind = "home" /\ HomeOK(v)
          BY <2>2, <3>6, <4>1 DEF ViewOK
        <5>2. QED BY <2>1, <2>2, <3>5, <5>1, HomeDrifts
      <4>2. QED BY <4>1
    <3>9. ASSUME w.kind \in {"dashboard", "report"}
          PROVE  RoundsOK(w) /\ (w.kind = "dashboard" => DashboardOK(w)') /\ (w.kind = "report" => ReportOK(w)')
      <4>1. v.kind = w.kind /\ RoundsOK(v) /\ (v.kind = "dashboard" => DashboardOK(v))
                /\ (v.kind = "report" => ReportOK(v))
        BY <2>2, <3>6, <3>9 DEF ViewOK
      <4>2. (DashboardOK(v) => DashboardOK(w)') /\ (ReportOK(v) => ReportOK(w)')
        <5>1. v.kind \in {"dashboard", "report"}
          BY <3>9, <4>1
        <5>2. QED BY <2>1, <2>2, <3>5, <5>1, GatherDrifts
      <4>3. RoundsOK(w)
        BY <3>5, <4>1 DEF Drifts, RoundsOK
      <4>4. QED BY <4>1, <4>2, <4>3
    <3>10. ViewOK(w)'
      BY <3>5, <3>7, <3>8, <3>9 DEF ViewOK
    <3>11. ViewOK(view)'
      BY <3>2, <3>10, NextView
    <3>12. QED BY <3>11 DEF ScreenOK
  <2>5. QED BY <2>3, <2>4
<1>3. QED BY <1>1, <1>2 DEF ScreenOK

\* A list on the device holds no more leads that are not its owner's than stopped
\* being his since it was read.
LEMMA CacheAges ==
  ASSUME LeadsTyped, LeadsTyped', Len(leads) <= Len(leads'), UNCHANGED <<session, late>>, CacheOK, Views!Age
  PROVE  CacheOK'
<1>1. Views!Ids \subseteq Views!Ids' /\ IsFiniteSet(Views!Ids)
  <2>1. leads' \in Seq(Views!Lead \cup {Views!NoLead}) /\ leads \in Seq(Views!Lead \cup {Views!NoLead})
    BY DEF LeadsTyped
  <2>2. Len(leads') \in Nat /\ Len(leads) \in Nat /\ Views!Ids = 1 .. Len(leads)
            /\ Views!Ids' = 1 .. Len(leads')
    BY <2>1 DEF Views!Ids
  <2>3. Views!Ids \subseteq Views!Ids'
    BY <2>2
  <2>4. QED BY <2>3, There
<1>2. ASSUME NEW e \in Executives
      PROVE  cache'[e] = [rows |-> cache'[e].rows, drift |-> cache'[e].drift] /\ KeptOK(e, cache[e])'
  <2>1. PICK R : R = cache[e].rows
    OBVIOUS
  <2>2. PICK d \in Nat : d = cache[e].drift
    BY DEF CacheOK, KeptOK
  <2>3. PICK S : S = Views!Matching(e, Views!Own(e))
    OBVIOUS
  <2>4. PICK T : T = Views!Matching(e, Views!Own(e))'
    OBVIOUS
  <2>5. PICK W : W = {l \in R : /\ Views!Matches(e, Views!Own(e), leads[l], managed)
                               /\ ~ Views!Matches(e, Views!Own(e), leads'[l], managed')}
    OBVIOUS
  <2>6. R \subseteq Views!Ids /\ Cardinality(R \ S) <= d /\ (R # {} => e # Views!Nobody /\ (e = session
            \/ e \in late))
    BY <2>1, <2>2, <2>3 DEF CacheOK, KeptOK
  <2>7. cache[e] = [rows |-> R, drift |-> d]
    BY <2>1, <2>2 DEF CacheOK
  <2>8. cache'[e] = [cache[e] EXCEPT !.drift = @ + Cardinality(W)]
    BY <2>1, <2>5, SameSizes DEF Views!Age
  <2>9. cache'[e] = [rows |-> R, drift |-> d + Cardinality(W)]
    BY <2>7, <2>8
  <2>10. IsFiniteSet(R) /\ IsFiniteSet(W) /\ Cardinality(W) \in Nat
         /\ IsFiniteSet(R \ S) /\ IsFiniteSet(R \ T)
         /\ Cardinality(R \ S) \in Nat /\ Cardinality(R \ T) \in Nat
    <3>1. IsFiniteSet(R)
      BY <1>1, <2>6, Finite
    <3>2. W \subseteq R /\ R \ S \subseteq R /\ R \ T \subseteq R
      BY <2>5
    <3>3. QED BY <3>1, <3>2, Finite
  <2>11. (R \ T) \ (R \ S) \subseteq W
    <3>1. \A l \in R : l \in S => Views!Matches(e, Views!Own(e), leads[l], managed)
      BY <2>3 DEF Views!Matching
    <3>2. \A l \in R : l \notin T => ~ Views!Matches(e, Views!Own(e), leads'[l], managed')
      BY <1>1, <2>4, <2>6 DEF Views!Matching
    <3>3. QED BY <2>5, <3>1, <3>2
  <2>12. Cardinality(R \ T) <= Cardinality(R \ S) + Cardinality(W)
    BY <2>10, <2>11, Near
  <2>13. Cardinality(R \ T) <= d + Cardinality(W) /\ d + Cardinality(W) \in Nat
    BY <2>6, <2>10, <2>12
  <2>14. cache'[e].rows = R /\ cache'[e].drift = d + Cardinality(W)
    BY <2>9
  <2>15. R \subseteq Views!Ids' /\ (R # {} => e # Views!Nobody /\ (e = session' \/ e \in late'))
    BY <1>1, <2>6
  <2>16. KeptOK(e, cache[e])'
    BY <2>4, <2>13, <2>14, <2>15 DEF KeptOK
  <2>17. QED BY <2>9, <2>14, <2>16
<1>3. cache' = [e \in Executives |-> [rows |-> cache'[e].rows, drift |-> cache'[e].drift]]
  <2>1. cache' = [e \in Executives |-> cache'[e]]
    BY DEF Views!Age
  <2>2. QED BY <1>2, <2>1
<1>4. session' \in Executives \cup {Views!Nobody}
  BY DEF CacheOK
<1>5. QED BY <1>2, <1>3, <1>4 DEF CacheOK

LEMMA SameCache ==
  ASSUME CacheOK, UNCHANGED <<leads, managed, cache>>, session' = session \/ session = Views!Nobody,
         session' \in Executives \cup {Views!Nobody}, late \subseteq late'
  PROVE  CacheOK'
<1>1. ASSUME NEW e \in Executives
      PROVE  KeptOK(e, cache[e])'
  <2>1. KeptOK(e, cache[e])
    BY DEF CacheOK
  <2>2. QED BY <2>1 DEF KeptOK, Views!Matching, Views!Ids
<1>2. QED BY <1>1 DEF CacheOK

-----------------------------------------------------------------------------
(* The leads keep their kind and the order of their updates *)

LEMMA TouchedOrders ==
  ASSUME LeadsTyped, NEW l, NEW S, S \subseteq Views!Live \cup {l}
  PROVE  Orders(Views!Touched(l), S)
<1>1. Orders(recent, Views!Live)
  BY DEF LeadsTyped
<1>2. \A x, y : <<x, y>> \in Views!Touched(l) <=> (<<x, y>> \in recent /\ x # l /\ y # l) \/ (x = l
          /\ y \in Views!Live \ {l})
  <2>1. ASSUME NEW x, NEW y
        PROVE  <<x, y>> \in Views!Touched(l) <=> (<<x, y>> \in recent /\ x # l /\ y # l) \/ (x = l
                   /\ y \in Views!Live \ {l})
    <3>1. <<x, y>> \in Views!Untouched(l) <=> <<x, y>> \in recent /\ x # l /\ y # l
      BY DEF Views!Untouched
    <3>2. <<x, y>> \in {<<l, k>> : k \in Views!Live \ {l}} <=> x = l /\ y \in Views!Live \ {l}
      OBVIOUS
    <3>3. QED BY <3>1, <3>2 DEF Views!Touched
  <2>2. QED BY <2>1
<1>3. \A x \in S : <<x, x>> \notin Views!Touched(l)
  BY <1>1, <1>2 DEF Orders
<1>4. \A x, y \in S : x # y => <<x, y>> \in Views!Touched(l) \/ <<y, x>> \in Views!Touched(l)
  BY <1>1, <1>2 DEF Orders
<1>5. \A x, y, z \in S : <<x, y>> \in Views!Touched(l) /\ <<y, z>> \in Views!Touched(l) => <<x,
          z>> \in Views!Touched(l)
  BY <1>1, <1>2 DEF Orders
<1>6. QED BY <1>3, <1>4, <1>5 DEF Orders

LEMMA UntouchedOrders ==
  ASSUME LeadsTyped, NEW l, NEW S, S \subseteq Views!Live \ {l}
  PROVE  Orders(Views!Untouched(l), S)
<1>1. Orders(recent, Views!Live)
  BY DEF LeadsTyped
<1>2. \A x, y : <<x, y>> \in Views!Untouched(l) <=> <<x, y>> \in recent /\ x # l /\ y # l
  BY DEF Views!Untouched
<1>3. QED BY <1>1, <1>2 DEF Orders

LEMMA WriteKeeps ==
  ASSUME LeadsTyped, NEW l \in Views!Ids, NEW lead \in Views!Lead \cup {Views!NoLead}, Views!Write(l, lead)
  PROVE  LeadsTyped' /\ Len(leads) <= Len(leads') /\ Views!Drift /\ Views!Age /\ UNCHANGED <<session, late>>
<1>1. /\ leads' = [leads EXCEPT ![l] = lead] /\ recent' = Views!Touched(l) /\ UNCHANGED <<active, session,
             late>>
      /\ Views!Drift /\ Views!Age /\ leads[l] # Views!NoLead
  BY DEF Views!Write, Views!Change
<1>2. leads \in Seq(Views!Lead \cup {Views!NoLead}) /\ Len(leads) \in Nat
  BY DEF LeadsTyped
<1>3. leads' \in Seq(Views!Lead \cup {Views!NoLead}) /\ Len(leads') = Len(leads)
  BY <1>1, <1>2 DEF Views!Ids
<1>4. Views!Live' \subseteq Views!Live \cup {l}
  BY <1>1, <1>2 DEF Views!Live, Views!Ids
<1>5. Orders(recent', Views!Live')
  BY <1>1, <1>4, TouchedOrders
<1>6. LeadsTyped'
  BY <1>1, <1>3, <1>5 DEF LeadsTyped
<1>7. QED BY <1>1, <1>2, <1>3, <1>6

LEMMA DeleteKeeps ==
  ASSUME LeadsTyped, NEW l \in Views!Ids, Views!DeleteLead(l)
  PROVE  LeadsTyped' /\ Len(leads) <= Len(leads')
<1>1. /\ leads' = [leads EXCEPT ![l] = Views!NoLead] /\ recent' = Views!Untouched(l) /\ UNCHANGED active
  BY DEF Views!DeleteLead
<1>2. leads \in Seq(Views!Lead \cup {Views!NoLead}) /\ Len(leads) \in Nat
  BY DEF LeadsTyped
<1>3. leads' \in Seq(Views!Lead \cup {Views!NoLead}) /\ Len(leads') = Len(leads)
  BY <1>1, <1>2 DEF Views!Ids
<1>4. Views!Live' \subseteq Views!Live \ {l}
  BY <1>1, <1>2 DEF Views!Live, Views!Ids
<1>5. Orders(recent', Views!Live')
  BY <1>1, <1>4, UntouchedOrders
<1>6. LeadsTyped'
  BY <1>1, <1>3, <1>5 DEF LeadsTyped
<1>7. QED BY <1>2, <1>3, <1>6

LEMMA CreateKeeps ==
  ASSUME LeadsTyped, Views!CreateLead
  PROVE  LeadsTyped' /\ Len(leads) <= Len(leads')
<1>1. PICK e \in active \cup {Views!Nobody}, d \in Districts :
        leads' = Append(leads, [exec |-> e, owned |-> FALSE, status |-> "open",
          district |-> d, overdue |-> FALSE, visitor |-> Views!Nobody])
  BY DEF Views!CreateLead
<1>2. recent' = Views!Touched(Len(leads) + 1) /\ UNCHANGED active
  BY DEF Views!CreateLead
<1>3. PICK lead : /\ lead = [exec |-> e, owned |-> FALSE, status |-> "open",
                             district |-> d, overdue |-> FALSE, visitor |-> Views!Nobody]
                  /\ lead \in Views!Lead
  <2>1. e \in Executives \cup {Views!Nobody}
    BY DEF LeadsTyped
  <2>2. [exec |-> e, owned |-> FALSE, status |-> "open", district |-> d, overdue |-> FALSE,
         visitor |-> Views!Nobody] \in Views!Lead
    BY <2>1 DEF Views!Lead, Views!Statuses
  <2>3. QED BY <2>2
<1>4. leads \in Seq(Views!Lead \cup {Views!NoLead}) /\ Len(leads) \in Nat /\ leads' = Append(leads, lead)
  BY <1>1, <1>3 DEF LeadsTyped
<1>5. leads' \in Seq(Views!Lead \cup {Views!NoLead}) /\ Len(leads') = Len(leads) + 1
      /\ \A l \in 1 .. Len(leads) : leads'[l] = leads[l]
  BY <1>3, <1>4
<1>6. Views!Live' \subseteq Views!Live \cup {Len(leads) + 1}
  <2>1. Views!Ids' = 1 .. Len(leads) + 1 /\ Views!Ids = 1 .. Len(leads)
    BY <1>4, <1>5 DEF Views!Ids
  <2>2. \A l \in Views!Live' : l \in Views!Ids' /\ leads'[l] # Views!NoLead
    BY DEF Views!Live
  <2>3. \A l \in Views!Live' : l \in Views!Ids \/ l = Len(leads) + 1
    BY <1>4, <2>1, <2>2
  <2>4. QED BY <1>5, <2>1, <2>2, <2>3 DEF Views!Live
<1>7. Orders(recent', Views!Live')
  BY <1>2, <1>6, TouchedOrders
<1>8. LeadsTyped'
  BY <1>2, <1>5, <1>7 DEF LeadsTyped
<1>9. QED BY <1>4, <1>5, <1>8

LEMMA SameLeads ==
  ASSUME LeadsTyped, UNCHANGED <<leads, recent>>, active' \subseteq Executives
  PROVE  LeadsTyped' /\ Len(leads) <= Len(leads')
<1>1. Len(leads) \in Nat
  BY DEF LeadsTyped
<1>2. QED BY <1>1 DEF LeadsTyped, Views!Live, Views!Ids

LEMMA ChangingKeeps ==
  ASSUME LeadsTyped, Views!Changing
  PROVE  LeadsTyped' /\ Len(leads) <= Len(leads') /\ Views!Drift /\ Views!Overtake /\ Views!Age
             /\ UNCHANGED <<session, late>>
<1>1. ASSUME NEW l \in Views!Ids, NEW lead \in Views!Lead \cup {Views!NoLead}, Views!Update(l, lead)
      PROVE  LeadsTyped' /\ Len(leads) <= Len(leads') /\ Views!Drift /\ Views!Overtake /\ Views!Age
                 /\ UNCHANGED <<session, late>>
  <2>1. Views!Write(l, lead) /\ Views!Overtake
    BY <1>1 DEF Views!Update
  <2>2. QED BY <2>1, WriteKeeps
<1>2. ASSUME NEW l \in Views!Ids, leads[l] # Views!NoLead
      PROVE  leads[l] \in [exec : Executives \cup {Views!Nobody}, owned : BOOLEAN, status : Views!Statuses,
                           district : Districts, overdue : BOOLEAN, visitor : Executives \cup {Views!Nobody}]
  BY <1>2, There DEF Views!Lead
<1>3. ASSUME NEW l \in Views!Ids, Views!Reassign(l)
      PROVE  \E lead \in Views!Lead \cup {Views!NoLead} : Views!Update(l, lead)
  <2>1. PICK e \in active, owned \in {leads[l].owned, TRUE} : Views!Update(l, [leads[l] EXCEPT !.exec = e,
            !.owned = owned])
    BY <1>3 DEF Views!Reassign
  <2>2. leads[l] # Views!NoLead
    BY <1>3 DEF Views!Reassign
  <2>3. [leads[l] EXCEPT !.exec = e, !.owned = owned] \in Views!Lead
    BY <1>2, <2>2 DEF LeadsTyped, Views!Lead
  <2>4. QED BY <2>1, <2>3
<1>4. ASSUME NEW l \in Views!Ids, Views!Move(l)
      PROVE  \E lead \in Views!Lead \cup {Views!NoLead} : Views!Update(l, lead)
  <2>1. PICK s \in Views!Statuses : Views!Update(l, [leads[l] EXCEPT !.status = s,
                     !.visitor = IF s = "visited" THEN leads[l].exec ELSE @])
    BY <1>4 DEF Views!Move
  <2>2. leads[l] # Views!NoLead
    BY <1>4 DEF Views!Move
  <2>3. [leads[l] EXCEPT !.status = s, !.visitor = IF s = "visited" THEN leads[l].exec ELSE @] \in Views!Lead
    BY <1>2, <2>2 DEF Views!Lead
  <2>4. QED BY <2>1, <2>3
<1>5. ASSUME NEW l \in Views!Ids, Views!Flag(l)
      PROVE  \E lead \in Views!Lead \cup {Views!NoLead} : Views!Update(l, lead)
  <2>1. Views!Update(l, [leads[l] EXCEPT !.overdue = ~ @])
    BY <1>5 DEF Views!Flag
  <2>2. leads[l] # Views!NoLead
    BY <1>5 DEF Views!Flag
  <2>3. [leads[l] EXCEPT !.overdue = ~ @] \in Views!Lead
    BY <1>2, <2>2 DEF Views!Lead
  <2>4. QED BY <2>1, <2>3
<1>6. ASSUME NEW l \in Views!Ids, Views!Reassign(l) \/ Views!Move(l) \/ Views!Flag(l)
      PROVE  LeadsTyped' /\ Len(leads) <= Len(leads') /\ Views!Drift /\ Views!Overtake /\ Views!Age
                 /\ UNCHANGED <<session, late>>
  <2>1. PICK lead \in Views!Lead \cup {Views!NoLead} : Views!Update(l, lead)
    BY <1>3, <1>4, <1>5, <1>6
  <2>2. QED BY <1>1, <2>1
<1>7. ASSUME NEW l \in Views!Ids, Views!DeleteLead(l)
      PROVE  LeadsTyped' /\ Len(leads) <= Len(leads') /\ Views!Drift /\ Views!Overtake /\ Views!Age
                 /\ UNCHANGED <<session, late>>
  <2>1. Views!Drift /\ Views!Overtake /\ Views!Age /\ UNCHANGED <<session, late>>
    BY <1>7 DEF Views!DeleteLead, Views!Change
  <2>2. QED BY <1>7, <2>1, DeleteKeeps
<1>8. ASSUME Views!CreateLead
      PROVE  LeadsTyped' /\ Len(leads) <= Len(leads') /\ Views!Drift /\ Views!Overtake /\ Views!Age
                 /\ UNCHANGED <<session, late>>
  <2>1. Views!Drift /\ Views!Overtake /\ Views!Age /\ UNCHANGED <<session, late>>
    BY <1>8 DEF Views!CreateLead, Views!Change
  <2>2. QED BY <1>8, <2>1, CreateKeeps
<1>9. ASSUME Views!ChangeUser \/ Views!MapManager
      PROVE  LeadsTyped' /\ Len(leads) <= Len(leads') /\ Views!Drift /\ Views!Overtake /\ Views!Age
                 /\ UNCHANGED <<session, late>>
  <2>1. Views!Drift /\ Views!Overtake /\ Views!Age /\ UNCHANGED <<leads, recent, session, late>>
    BY <1>9 DEF Views!ChangeUser, Views!MapManager, Views!Change
  <2>2. active' \subseteq Executives
    BY <1>9 DEF Views!ChangeUser, Views!MapManager, LeadsTyped
  <2>3. QED BY <2>1, <2>2, SameLeads
<1>10. QED BY <1>6, <1>7, <1>8, <1>9 DEF Views!Changing

-----------------------------------------------------------------------------
(* What is asked for on a page *)

LEMMA ActDrifts ==
  ASSUME ActOK, Views!Overtake, Len(leads) <= Len(leads'), LeadsTyped, LeadsTyped'
  PROVE  ActOK'
<1>1. Views!Ids \subseteq Views!Ids'
  <2>1. leads' \in Seq(Views!Lead \cup {Views!NoLead}) /\ leads \in Seq(Views!Lead \cup {Views!NoLead})
    BY DEF LeadsTyped
  <2>2. Len(leads') \in Nat /\ Len(leads) \in Nat /\ Views!Ids = 1 .. Len(leads)
            /\ Views!Ids' = 1 .. Len(leads')
    BY <2>1 DEF Views!Ids
  <2>3. QED BY <2>2
<1>2. CASE act = Views!NoAct
  <2>1. act' = Views!NoAct
    BY <1>2 DEF Views!Overtake, Views!NoAct
  <2>2. QED BY <2>1 DEF ActOK, Views!NoAct
<1>3. CASE Asked(act)
  <2>1. PICK a : a = act
    OBVIOUS
  <2>2. PICK b : b = act'
    OBVIOUS
  <2>3. /\ a = [pc |-> a.pc, lead |-> a.lead, what |-> a.what, to |-> a.to, raced |-> a.raced]
        /\ a.pc \in {"sent", "checked"} /\ a.lead \in Views!Ids /\ a.raced \in BOOLEAN
        /\ a.what \in {"assign", "reassign", "move", "reopen", "delete"}
        /\ (a.what \in {"assign", "reassign"} => a.to \in Executives)
        /\ (a.what \in {"move", "reopen"} => a.to \in Views!Statuses)
        /\ (a.pc = "checked" /\ ~ a.raced =>
              /\ leads[a.lead] # Views!NoLead
              /\ a.what = "assign" => leads[a.lead].exec = Views!Nobody
              /\ a.what = "move" => leads[a.lead].status \notin Views!Terminal)
    BY <1>3, <2>1 DEF Asked
  <2>4. b = IF a.pc = "checked" /\ leads[a.lead] # leads'[a.lead] THEN [a EXCEPT !.raced = TRUE] ELSE a
    BY <2>1, <2>2 DEF Views!Overtake
  <2>5. CASE a.pc = "checked" /\ leads[a.lead] # leads'[a.lead]
    <3>1. b = [pc |-> a.pc, lead |-> a.lead, what |-> a.what, to |-> a.to, raced |-> TRUE]
      BY <2>3, <2>4, <2>5
    <3>2. b.pc = a.pc /\ b.lead = a.lead /\ b.what = a.what /\ b.to = a.to /\ b.raced = TRUE
      BY <3>1
    <3>3. Asked(b)'
      BY <1>1, <2>3, <3>1, <3>2 DEF Asked
    <3>4. QED BY <2>2, <3>3 DEF ActOK, Asked
  <2>6. CASE a.pc = "sent" \/ leads[a.lead] = leads'[a.lead]
    <3>1. b = a
      BY <2>4, <2>6
    <3>2. Asked(a)'
      BY <1>1, <2>3, <2>6 DEF Asked
    <3>3. QED BY <2>2, <3>1, <3>2 DEF ActOK, Asked
  <2>7. QED BY <2>3, <2>5, <2>6
<1>4. QED BY <1>2, <1>3 DEF ActOK

LEMMA AskedFor ==
  ASSUME ActOK, NEW l \in Views!Ids, NEW what \in {"assign", "reassign", "move", "reopen", "delete"},
             NEW to, Views!Ask(l, what, to),
         what \in {"assign", "reassign"} => to \in Executives, what \in {"move", "reopen"} =>
             to \in Views!Statuses
  PROVE  ActOK'
<1>1. act' = [pc |-> "sent", lead |-> l, what |-> what, to |-> to, raced |-> FALSE] /\ UNCHANGED leads
  BY DEF Views!Ask
<1>2. PICK b : b = act'
  OBVIOUS
<1>3. b.pc = "sent" /\ b.lead = l /\ b.what = what /\ b.to = to /\ b.raced = FALSE
  BY <1>1, <1>2
<1>4. Asked(b)'
  BY <1>1, <1>2, <1>3 DEF Asked, Views!Ids
<1>5. QED BY <1>2, <1>4 DEF ActOK, Asked

LEMMA PageActs ==
  ASSUME LeadsTyped, ActOK, NEW l \in Views!Ids, Views!PageAssign(l) \/ Views!PageMove(l) \/ Views!PageDelete(l)
  PROVE  ActOK' /\ UNCHANGED <<leads, recent, active, managed, view, session, cache, late>>
<1>1. CASE Views!PageAssign(l)
  <2>1. PICK e \in active : Views!Ask(l, IF view.table[l].exec \in {Views!Nobody,
            e} THEN "assign" ELSE "reassign", e)
    BY <1>1 DEF Views!PageAssign
  <2>2. PICK what \in {"assign", "reassign"} : Views!Ask(l, what, e)
    BY <2>1
  <2>3. e \in Executives
    BY DEF LeadsTyped
  <2>4. ActOK'
    BY <2>2, <2>3, AskedFor
  <2>5. QED BY <2>2, <2>4 DEF Views!Ask
<1>2. CASE Views!PageMove(l)
  <2>1. PICK s \in Views!Statuses : \E what \in {"move", "reopen"} : Views!Ask(l, what, s)
    BY <1>2 DEF Views!PageMove
  <2>2. PICK what \in {"move", "reopen"} : Views!Ask(l, what, s)
    BY <2>1
  <2>3. ActOK'
    BY <2>2, AskedFor
  <2>4. QED BY <2>2, <2>3 DEF Views!Ask
<1>3. CASE Views!PageDelete(l)
  <2>1. Views!Ask(l, "delete", Views!Nobody)
    BY <1>3 DEF Views!PageDelete
  <2>2. ActOK'
    BY <2>1, AskedFor
  <2>3. QED BY <2>1, <2>2 DEF Views!Ask
<1>4. QED BY <1>1, <1>2, <1>3

LEMMA ServerReadsOK ==
  ASSUME ActOK, Views!ServerReads
  PROVE  ActOK'
<1>1. CASE act' = Views!NoAct
  BY <1>1 DEF ActOK, Views!NoAct
<1>2. CASE leads[act.lead] # Views!NoLead /\ Views!Allowed(leads[act.lead])
          /\ act' = [act EXCEPT !.pc = "checked"]
  <2>1. PICK a : a = act
    OBVIOUS
  <2>2. PICK b : b = act'
    OBVIOUS
  <2>3. a.pc = "sent" /\ UNCHANGED leads
    BY <2>1 DEF Views!ServerReads
  <2>4. Asked(a)
    BY <2>1, <2>3 DEF ActOK, Views!NoAct
  <2>5. /\ a = [pc |-> a.pc, lead |-> a.lead, what |-> a.what, to |-> a.to, raced |-> a.raced]
        /\ a.lead \in Views!Ids /\ a.raced \in BOOLEAN
        /\ a.what \in {"assign", "reassign", "move", "reopen", "delete"}
        /\ (a.what \in {"assign", "reassign"} => a.to \in Executives)
        /\ (a.what \in {"move", "reopen"} => a.to \in Views!Statuses)
    BY <2>4 DEF Asked
  <2>6. b = [a EXCEPT !.pc = "checked"]
    BY <1>2, <2>1, <2>2
  <2>7. b = [pc |-> "checked", lead |-> a.lead, what |-> a.what, to |-> a.to, raced |-> a.raced]
    BY <2>5, <2>6
  <2>8. b.pc = "checked" /\ b.lead = a.lead /\ b.what = a.what /\ b.to = a.to /\ b.raced = a.raced
    BY <2>7
  <2>9. leads[a.lead] # Views!NoLead /\ (a.what = "assign" => leads[a.lead].exec = Views!Nobody)
        /\ (a.what = "move" => leads[a.lead].status \notin Views!Terminal)
    BY <1>2, <2>1 DEF Views!Allowed
  <2>10. Asked(b)'
    BY <2>3, <2>5, <2>7, <2>8, <2>9 DEF Asked, Views!Ids
  <2>11. QED BY <2>2, <2>10 DEF ActOK, Asked
<1>3. QED BY <1>1, <1>2 DEF Views!ServerReads

LEMMA WrittenTyped ==
  ASSUME LeadsTyped, ActOK, act.pc = "checked", leads[act.lead] # Views!NoLead
  PROVE  act.lead \in Views!Ids /\ Views!Written(leads[act.lead]) \in Views!Lead \cup {Views!NoLead}
<1>1. Asked(act)
  BY DEF ActOK, Views!NoAct
<1>2. act.lead \in Views!Ids /\ leads[act.lead] \in Views!Lead
  BY <1>1, There DEF Asked
<1>3. CASE act.what \in {"assign", "reassign"}
  BY <1>1, <1>2, <1>3 DEF Asked, Views!Written, Views!Lead
<1>4. CASE act.what \in {"move", "reopen"}
  BY <1>1, <1>2, <1>4 DEF Asked, Views!Written, Views!Lead
<1>5. CASE act.what = "delete"
  BY <1>1, <1>2, <1>5 DEF Asked, Views!Written
<1>6. QED BY <1>1, <1>2, <1>3, <1>4, <1>5 DEF Asked

-----------------------------------------------------------------------------
(* Screens open and are read *)

LEMMA NextScreen ==
  ASSUME NEW w, view' = w, ViewOK(w), UNCHANGED <<leads, recent, managed, session, late>>
  PROVE  ScreenOK'
<1>1. ListOK(w) => ListOK(w)'
  BY DEF ListOK, Missed, Matched, Views!Matching, Views!Ids
<1>2. HomeOK(w) => HomeOK(w)'
  BY DEF HomeOK, Urgent, Beyond, Matched, Views!Matching, Views!Ids
<1>3. DashboardOK(w) => DashboardOK(w)'
  BY DEF DashboardOK, SumOf, NumberOf, Matched, Views!Matching, Views!Ids
<1>4. ReportOK(w) => ReportOK(w)'
  BY DEF ReportOK, SumOf, NumberOf, Assigned, Matched, Views!Matching, Views!Ids
<1>5. ViewOK(w)'
  BY <1>1, <1>2, <1>3, <1>4 DEF ViewOK
<1>6. ViewOK(view)'
  BY <1>5, NextView
<1>7. QED BY <1>6 DEF ScreenOK

LEMMA SameScreen ==
  ASSUME ScreenOK, UNCHANGED <<leads, recent, managed, view, session, late>>
  PROVE  ScreenOK'
<1>1. CASE view = Views!Closed
  BY <1>1 DEF ScreenOK, Views!Closed
<1>2. CASE ViewOK(view)
  <2>1. PICK w : w = view
    OBVIOUS
  <2>2. QED BY <1>2, <2>1, NextScreen
<1>3. QED BY <1>1, <1>2 DEF ScreenOK

LEMMA None ==
  /\ IsFiniteSet({}) /\ Cardinality({}) = 0
  /\ \A S : Cardinality({} \ S) = 0
<1>1. IsFiniteSet({}) /\ Cardinality({}) = 0
  BY FS_EmptySet
<1>2. \A S : {} \ S = {}
  OBVIOUS
<1>3. QED BY <1>1, <1>2

LEMMA Opened ==
  ASSUME LeadsTyped, NEW kind, NEW who, NEW filter, NEW todo, Views!Open(kind, who, filter, todo),
         \/ kind = "list" /\ who = session /\ who # Views!Nobody /\ who \in Executives
                /\ filter = Views!Own(who)
         \/ kind \in {"home", "page"}
         \/ kind \in {"dashboard", "report"} /\ todo = Views!Rounds(kind)[1]
  PROVE  ScreenOK'
<1>1. PICK w : w = view'
  OBVIOUS
<1>2. /\ w = [kind |-> kind, who |-> who, filter |-> filter, pc |-> "reading",
              drift |-> 0, steady |-> Views!Matching(who, filter),
              page |-> 1, pages |-> 0, rows |-> {}, how |-> "whole",
              overdue |-> 0, table |-> << >>, round |-> 1, todo |-> todo, got |-> << >>]
      /\ UNCHANGED <<leads, recent, managed, session, late>>
  BY <1>1 DEF Views!Open
<1>3. /\ w.kind = kind /\ w.who = who /\ w.filter = filter /\ w.pc = "reading" /\ w.drift = 0
      /\ w.steady = Views!Matching(who, filter) /\ w.page = 1 /\ w.pages = 0 /\ w.rows = {} /\ w.how = "whole"
      /\ w.overdue = 0 /\ w.table = << >> /\ w.round = 1 /\ w.todo = todo /\ w.got = << >>
  BY <1>2
<1>4. kind \in {"list", "home", "page", "dashboard", "report"}
  OBVIOUS
<1>5. Shape(w)
  BY <1>2, <1>3, <1>4 DEF Shape
<1>6. Matched(w) = Views!Matching(who, filter)
  BY <1>3 DEF Matched
<1>7. kind = "list" => ListOK(w)
  BY <1>3, <1>6, None DEF ListOK
<1>8. kind = "home" => HomeOK(w)
  BY <1>3 DEF HomeOK
<1>9. ASSUME kind \in {"dashboard", "report"}
      PROVE  RoundsOK(w) /\ DashboardOK(w) /\ ReportOK(w)
  <2>1. DOMAIN w.got = {}
    BY <1>3
  <2>2. Len(Views!Rounds(kind)) \in Nat /\ 1 \in 1 .. Len(Views!Rounds(kind))
    BY <1>9 DEF Views!Rounds
  <2>3. RoundsOK(w)
    BY <1>3, <1>9, <2>1, <2>2 DEF RoundsOK
  <2>4. IsFiniteSet(Matched(w)) /\ Cardinality(Matched(w)) \in Nat
    BY MineIs
  <2>5. \A f : SumOf(w, f) = Cardinality(Matched(w))
    BY <2>1 DEF SumOf
  <2>6. \A f, x : NumberOf(w, f, x) = Cardinality(Part(f, x, Matched(w), leads))
    BY <2>1 DEF NumberOf
  <2>7. Assigned(w) = Cardinality(Part("sum", Views!Nobody, Matched(w), leads))
    BY <2>1 DEF Assigned
  <2>8. Within(SumOf(w, "statuses"), SumOf(w, "districts"), w.drift)
    BY <1>3, <2>4, <2>5 DEF Within
  <2>9. ASSUME NEW x
        PROVE  /\ NumberOf(w, "active", x) \in Nat /\ NumberOf(w, "terminal", x) \in Nat
               /\ NumberOf(w, "assigned", x) = NumberOf(w, "active", x) + NumberOf(w, "terminal", x)
               /\ NumberOf(w, "completed", x) \in Nat /\ NumberOf(w, "districts", x) \in Nat
               /\ NumberOf(w, "completed", x) <= NumberOf(w, "districts", x)
    BY <2>4, <2>6, PartSplit
  <2>10. \A x : Within(NumberOf(w, "assigned", x), NumberOf(w, "active", x) + NumberOf(w, "terminal", x), 0)
    BY <2>9 DEF Within
  <2>11. DashboardOK(w)
    BY <1>3, <2>8, <2>9, <2>10 DEF DashboardOK
  <2>12. Assigned(w) \in Nat /\ Assigned(w) <= SumOf(w, "districts") /\ SumOf(w, "districts") \in Nat
    BY <2>4, <2>5, <2>7, PartSplit
  <2>13. ReportOK(w)
    <3>1. \A d \in Districts :
            /\ NumberOf(w, "completed", d) \in Nat /\ NumberOf(w, "districts", d) \in Nat
            /\ NumberOf(w, "completed", d) <= NumberOf(w, "districts", d) + w.drift
      BY <1>3, <2>9
    <3>2. Assigned(w) <= SumOf(w, "districts") + w.drift
      BY <1>3, <2>12
    <3>3. QED BY <2>8, <2>12, <3>1, <3>2 DEF ReportOK
  <2>14. QED BY <2>3, <2>11, <2>13
<1>10. ViewOK(w)
  BY <1>3, <1>5, <1>7, <1>8, <1>9 DEF ViewOK
<1>11. QED BY <1>1, <1>2, <1>10, NextScreen

LEMMA HomeRead ==
  ASSUME LeadsTyped, ScreenOK, Views!ReadHome
  PROVE  ScreenOK'
<1>1. PICK v : v = view
  OBVIOUS
<1>2. PICK w : w = view'
  OBVIOUS
<1>3. v.kind = "home"
  BY <1>1 DEF Views!ReadHome
<1>4. Shape(v)
  BY <1>1, <1>3 DEF ScreenOK, ViewOK, Views!Closed
<1>5. PICK n : n = Cardinality(Views!Overdue(Views!Latest(v.who)))
  OBVIOUS
<1>6. w = [v EXCEPT !.pc = "shown", !.drift = 0, !.how = "whole", !.overdue = n]
      /\ UNCHANGED <<leads, recent, managed, session, late>>
  BY <1>1, <1>2, <1>5, SameSizes DEF Views!ReadHome, Views!Reads
<1>7. w = [kind |-> v.kind, who |-> v.who, filter |-> v.filter, pc |-> "shown", drift |-> 0,
          steady |-> v.steady, page |-> v.page, pages |-> v.pages, rows |-> v.rows, how |-> "whole",
          overdue |-> n, table |-> v.table, round |-> v.round, todo |-> v.todo, got |-> v.got]
  BY <1>4, <1>6 DEF Shape
<1>8. /\ w.kind = v.kind /\ w.who = v.who /\ w.filter = v.filter /\ w.pc = "shown" /\ w.page = v.page
      /\ w.pages = v.pages /\ w.rows = v.rows /\ w.how = "whole" /\ w.overdue = n
      /\ w.round = v.round /\ w.todo = v.todo /\ w.got = v.got /\ w.drift = 0 /\ w.steady = v.steady
      /\ w.table = v.table
  BY <1>7
<1>9. Shape(w)
  BY <1>3, <1>7, <1>8 DEF Shape
<1>10. PICK S : S = Matched(w)
  OBVIOUS
<1>11. IsFiniteSet(S) /\ S = Views!Matching(v.who, view.filter)
  <2>1. IsFiniteSet(S)
    BY <1>10, MineIs
  <2>2. S = Views!Matching(v.who, view.filter)
    BY <1>1, <1>8, <1>10 DEF Matched
  <2>3. QED BY <2>1, <2>2
<1>12. PICK L : L = Views!Latest(v.who)
  OBVIOUS
<1>13. L = {l \in S : Rank(recent, S, l) < HomeCap}
  BY <1>11, <1>12, SameSizes DEF Views!Latest, Rank, Ahead
<1>14. PICK O : O = Views!Overdue(L)
  OBVIOUS
<1>15. O \subseteq Urgent(w) /\ Urgent(w) \ O \subseteq Beyond(w)
  <2>1. \A l : Rank(recent, S, l) \in Nat
    BY <1>11, RankNat
  <2>2. \A l \in S : l \in L \/ Rank(recent, S, l) >= HomeCap
    BY <1>13, <2>1, Sizes
  <2>3. O = {l \in L : leads[l].overdue /\ leads[l].status \notin Views!Terminal}
    BY <1>14 DEF Views!Overdue
  <2>4. Urgent(w) = {l \in S : leads[l].overdue /\ leads[l].status \notin Views!Terminal}
        /\ Beyond(w) = {l \in S : Rank(recent, S, l) >= HomeCap}
    BY <1>10 DEF Urgent, Beyond
  <2>5. QED BY <1>13, <2>2, <2>3, <2>4
<1>16. IsFiniteSet(Urgent(w)) /\ IsFiniteSet(Beyond(w)) /\ Cardinality(Urgent(w)) \in Nat
       /\ Cardinality(Beyond(w)) \in Nat
  <2>1. Urgent(w) \subseteq S /\ Beyond(w) \subseteq S
    BY <1>10 DEF Urgent, Beyond
  <2>2. QED BY <1>11, <2>1, Finite
<1>17. IsFiniteSet(O) /\ Cardinality(O) \in Nat /\ Cardinality(O) <= Cardinality(Urgent(w))
  BY <1>15, <1>16, Finite
<1>18. Cardinality(Urgent(w)) <= Cardinality(O) + Cardinality(Beyond(w))
  BY <1>15, <1>16, <1>17, Near
<1>19. n = Cardinality(O)
  BY <1>5, <1>12, <1>14, SameSizes
<1>20. HomeOK(w)
  BY <1>8, <1>16, <1>17, <1>18, <1>19 DEF HomeOK
<1>21. ViewOK(w)
  BY <1>3, <1>8, <1>9, <1>20 DEF ViewOK
<1>22. QED BY <1>2, <1>6, <1>21, NextScreen

LEMMA HomeFailed ==
  ASSUME LeadsTyped, ScreenOK, Views!HomeFails
  PROVE  ScreenOK'
<1>1. PICK v : v = view
  OBVIOUS
<1>2. PICK w : w = view'
  OBVIOUS
<1>3. v.kind = "home"
  BY <1>1 DEF Views!HomeFails
<1>4. Shape(v)
  BY <1>1, <1>3 DEF ScreenOK, ViewOK, Views!Closed
<1>5. w = [v EXCEPT !.pc = "shown", !.drift = 0, !.how = "failed", !.overdue = 0]
      /\ UNCHANGED <<leads, recent, managed, session, late>>
  BY <1>1, <1>2 DEF Views!HomeFails, Views!Reads
<1>6. w = [kind |-> v.kind, who |-> v.who, filter |-> v.filter, pc |-> "shown", drift |-> 0,
          steady |-> v.steady, page |-> v.page, pages |-> v.pages, rows |-> v.rows, how |-> "failed",
          overdue |-> 0, table |-> v.table, round |-> v.round, todo |-> v.todo, got |-> v.got]
  BY <1>4, <1>5 DEF Shape
<1>7. /\ w.kind = v.kind /\ w.who = v.who /\ w.filter = v.filter /\ w.pc = "shown" /\ w.page = v.page
      /\ w.pages = v.pages /\ w.rows = v.rows /\ w.how = "failed" /\ w.overdue = 0
      /\ w.round = v.round /\ w.todo = v.todo /\ w.got = v.got /\ w.drift = 0 /\ w.steady = v.steady
      /\ w.table = v.table
  BY <1>6
<1>8. Shape(w)
  BY <1>3, <1>6, <1>7 DEF Shape
<1>9. HomeOK(w)
  BY <1>7 DEF HomeOK
<1>10. ViewOK(w)
  BY <1>3, <1>7, <1>8, <1>9 DEF ViewOK
<1>11. QED BY <1>2, <1>5, <1>10, NextScreen

LEMMA PortalPageRead ==
  ASSUME LeadsTyped, ScreenOK, Views!ReadPortalPage
  PROVE  ScreenOK'
<1>1. PICK v : v = view
  OBVIOUS
<1>2. PICK w : w = view'
  OBVIOUS
<1>3. v.kind = "page"
  BY <1>1 DEF Views!ReadPortalPage
<1>4. Shape(v)
  BY <1>1, <1>3 DEF ScreenOK, ViewOK, Views!Closed
<1>5. PICK filter, page, table :
        w = [v EXCEPT !.pc = "shown", !.filter = filter, !.page = page, !.drift = 0,
                      !.steady = {}, !.table = table]
  <2>1. PICK filter \in Filters, page \in 1 .. MaxLeads :
          LET rows == Views!OnPage(Views!Matching(view.who, filter), page) IN
          Views!Reads([view EXCEPT !.pc = "shown", !.filter = filter, !.page = page, !.drift = 0,
                   !.steady = {}, !.table = [l \in rows |-> leads[l]]])
    BY DEF Views!ReadPortalPage
  <2>2. PICK table : table = [l \in Views!OnPage(Views!Matching(view.who, filter), page) |-> leads[l]]
    OBVIOUS
  <2>3. Views!Reads([view EXCEPT !.pc = "shown", !.filter = filter, !.page = page, !.drift = 0,
                 !.steady = {}, !.table = table])
    BY <2>1, <2>2
  <2>4. view' = [view EXCEPT !.pc = "shown", !.filter = filter, !.page = page, !.drift = 0,
                   !.steady = {}, !.table = table]
    BY <2>3 DEF Views!Reads
  <2>5. QED BY <1>1, <1>2, <2>4
<1>6. UNCHANGED <<leads, recent, managed, session, late>>
  BY DEF Views!ReadPortalPage, Views!Reads
<1>7. w = [kind |-> v.kind, who |-> v.who, filter |-> filter, pc |-> "shown", drift |-> 0,
          steady |-> {}, page |-> page, pages |-> v.pages, rows |-> v.rows, how |-> v.how,
          overdue |-> v.overdue, table |-> table, round |-> v.round, todo |-> v.todo, got |-> v.got]
  BY <1>4, <1>5 DEF Shape
<1>8. /\ w.kind = v.kind /\ w.who = v.who /\ w.filter = filter /\ w.pc = "shown" /\ w.page = page
      /\ w.pages = v.pages /\ w.rows = v.rows /\ w.how = v.how /\ w.overdue = v.overdue
      /\ w.round = v.round /\ w.todo = v.todo /\ w.got = v.got /\ w.drift = 0 /\ w.steady = {}
      /\ w.table = table
  BY <1>7
<1>9. Shape(w)
  BY <1>3, <1>7, <1>8 DEF Shape
<1>10. ViewOK(w)
  BY <1>3, <1>8, <1>9 DEF ViewOK
<1>11. QED BY <1>2, <1>6, <1>10, NextScreen

Stepped(v, w, rows, page, pages, how, pc) ==
  /\ Shape(w) /\ w.kind = v.kind /\ w.who = v.who /\ w.filter = v.filter /\ w.pc = pc /\ w.page = page
  /\ w.pages = pages /\ w.rows = rows /\ w.how = how /\ w.drift = v.drift /\ w.steady = v.steady

LEMMA ListStep ==
  ASSUME NEW v, Shape(v), NEW rows, NEW page, NEW pages, NEW how, NEW pc \in {"reading", "shown"}, NEW w,
         w = [v EXCEPT !.rows = rows, !.page = page, !.pages = pages, !.how = how, !.pc = pc]
  PROVE  Stepped(v, w, rows, page, pages, how, pc)
<1>1. w = [kind |-> v.kind, who |-> v.who, filter |-> v.filter, pc |-> pc, drift |-> v.drift,
          steady |-> v.steady, page |-> page, pages |-> pages, rows |-> rows, how |-> how,
          overdue |-> v.overdue, table |-> v.table, round |-> v.round, todo |-> v.todo, got |-> v.got]
  BY DEF Shape
<1>2. /\ w.kind = v.kind /\ w.who = v.who /\ w.filter = v.filter /\ w.pc = pc /\ w.page = page
      /\ w.pages = pages /\ w.rows = rows /\ w.how = how /\ w.overdue = v.overdue
      /\ w.round = v.round /\ w.todo = v.todo /\ w.got = v.got /\ w.drift = v.drift /\ w.steady = v.steady
      /\ w.table = v.table
  BY <1>1
<1>3. Shape(w)
  BY <1>1, <1>2 DEF Shape
<1>4. QED BY <1>2, <1>3 DEF Stepped

\* A page brings what is on it; the leads missed are the same or fewer.
LEMMA PageRead ==
  ASSUME LeadsTyped, ScreenOK, Views!ReadPage
  PROVE  ScreenOK'
<1>1. PICK v : v = view
  OBVIOUS
<1>2. PICK w : w = view'
  OBVIOUS
<1>3. PICK S : S = Matched(v)
  OBVIOUS
<1>4. v.kind = "list" /\ v.pc = "reading" /\ (v.pages = 0 \/ v.page <= v.pages)
      /\ UNCHANGED <<leads, recent, managed, session, late>>
  BY <1>1 DEF Views!ReadPage, Views!Reading, Views!Reads
<1>5. Shape(v) /\ ListOK(v)
  BY <1>1, <1>4 DEF ScreenOK, ViewOK, Views!Closed
<1>6. PICK rows : rows = v.rows \cup Views!OnPage(S, v.page)
  OBVIOUS
<1>7. PICK pages : pages = IF v.page = 1 THEN Views!Max({1, Views!Pages(S)}) ELSE v.pages
  OBVIOUS
<1>8. w = [v EXCEPT !.rows = rows, !.page = v.page + 1, !.pages = pages]
  <2>1. S = Views!Matching(view.who, view.filter)
    BY <1>1, <1>3 DEF Matched
  <2>2. Views!Reads([view EXCEPT !.rows = @ \cup Views!OnPage(S, view.page), !.page = @ + 1,
              !.pages = IF view.page = 1 THEN Views!Max({1, Views!Pages(S)}) ELSE @])
    BY <2>1 DEF Views!ReadPage
  <2>3. Views!Reads([v EXCEPT !.rows = rows, !.page = v.page + 1, !.pages = pages])
    BY <1>1, <1>6, <1>7, <2>2
  <2>4. QED BY <1>2, <2>3 DEF Views!Reads
<1>9. w = [v EXCEPT !.rows = rows, !.page = v.page + 1, !.pages = pages, !.how = v.how, !.pc = v.pc]
  BY <1>5, <1>8 DEF Shape
<1>10. /\ Shape(w) /\ w.kind = v.kind /\ w.who = v.who /\ w.filter = v.filter /\ w.pc = "reading"
       /\ w.page = v.page + 1 /\ w.pages = pages /\ w.rows = rows /\ w.how = v.how /\ w.drift = v.drift
       /\ w.steady = v.steady
  <2>1. Stepped(v, w, rows, v.page + 1, pages, v.how, v.pc)
    BY <1>4, <1>5, <1>9, ListStep
  <2>2. QED BY <1>4, <2>1 DEF Stepped
<1>11. Matched(w) = S
  BY <1>3, <1>10 DEF Matched
<1>12. S \subseteq Nat /\ S \subseteq Views!Ids /\ IsFiniteSet(S) /\ Cardinality(S) \in Nat
  BY <1>3, MineIs
<1>13. PICK p \in Nat \ {0} : p = PageSize
  BY Sizes
<1>14. v.page \in Nat \ {0} /\ v.pages \in Nat
  BY <1>5 DEF ListOK
<1>15. Views!OnPage(S, v.page) = {l \in S : Rank(Gt, S, l) \in (v.page - 1) * p .. v.page * p - 1}
  <2>1. \A l \in S : Views!Newer(S, l) = Rank(Gt, S, l)
    BY <1>12, NewerIs
  <2>2. QED BY <1>13, <2>1 DEF Views!OnPage
<1>16. pages \in Nat /\ (v.page = 1 => pages \in Nat \ {0} /\ Cardinality(S) <= pages * p)
       /\ (v.page # 1 => pages = v.pages)
  <2>1. CASE v.page = 1
    <3>1. PICK q \in Nat : q = Views!Pages(S) /\ Cardinality(S) <= q * p
      BY <1>12, <1>13, PagesIs
    <3>2. pages = IF 1 >= q THEN 1 ELSE q
      BY <1>7, <2>1, <3>1, MaxOf
    <3>3. pages \in Nat \ {0} /\ q <= pages
      BY <3>1, <3>2
    <3>4. q * p <= pages * p
      BY <1>13, <3>1, <3>2
    <3>5. pages * p \in Nat /\ q * p \in Nat
      BY <1>13, <3>1, <3>3
    <3>6. Cardinality(S) <= pages * p
      BY <1>12, <3>1, <3>4, <3>5
    <3>7. QED BY <2>1, <3>3, <3>6
  <2>2. QED BY <1>7, <1>14, <2>1
<1>17. \A l : Rank(Gt, S, l) \in Nat
  BY <1>12, RankNat
<1>18. PICK k \in Nat : k = (v.page - 1) * p /\ v.page * p = k + p
  <2>1. PICK j \in Nat : v.page = j + 1
    <3>1. v.page - 1 \in Nat /\ v.page = (v.page - 1) + 1
      BY <1>14
    <3>2. QED BY <3>1
  <2>2. j * p \in Nat /\ (j + 1) * p = j * p + p
    BY <1>13
  <2>3. v.page - 1 = j
    BY <2>1
  <2>4. QED BY <2>1, <2>2, <2>3
<1>19. \A l \in S : Rank(Gt, S, l) < k + p /\ l \notin rows => Rank(Gt, S, l) < k /\ l \notin v.rows
  <2>1. ASSUME NEW l \in S, Rank(Gt, S, l) < k + p, l \notin rows
        PROVE  Rank(Gt, S, l) < k /\ l \notin v.rows
    <3>1. PICK n \in Nat : n = Rank(Gt, S, l)
      BY <1>17
    <3>2. ~ (n \in k .. k + p - 1)
      BY <1>6, <1>15, <1>18, <2>1, <3>1
    <3>3. n < k
      BY <1>13, <1>18, <2>1, <3>1, <3>2
    <3>4. QED BY <1>6, <2>1, <3>1, <3>3
  <2>2. QED BY <2>1
<1>20. Missed(w) = {l \in v.steady \ rows : Rank(Gt, S, l) < k + p}
  <2>1. (w.page - 1) * PageSize = k + p
    <3>1. w.page - 1 = v.page
      BY <1>10, <1>14
    <3>2. QED BY <1>13, <1>18, <3>1
  <2>2. QED BY <1>10, <1>11, <2>1 DEF Missed
<1>21. Missed(v) = {l \in v.steady \ v.rows : Rank(Gt, S, l) < k}
  BY <1>3, <1>13, <1>18 DEF Missed
<1>22. v.steady \subseteq S
  BY <1>3, <1>5 DEF ListOK
<1>23. Missed(w) \subseteq Missed(v)
  BY <1>19, <1>20, <1>21, <1>22
<1>24. IsFiniteSet(Missed(v)) /\ Cardinality(Missed(w)) \in Nat /\ Cardinality(Missed(v)) \in Nat
       /\ Cardinality(Missed(w)) <= Cardinality(Missed(v))
  <2>1. Missed(v) \subseteq S
    BY <1>21, <1>22
  <2>2. IsFiniteSet(Missed(v)) /\ Cardinality(Missed(v)) \in Nat
    BY <1>12, <2>1, Finite
  <2>3. QED BY <1>23, <2>2, Finite
<1>25. v.drift \in Nat
  BY <1>5 DEF Shape
<1>26. ASSUME v.how = "whole"
       PROVE  /\ w.page \in 2 .. pages + 1
              /\ Cardinality(Missed(w)) <= v.drift
              /\ Cardinality(Missed(w)) + Cardinality(S) <= v.drift + pages * p
  <2>1. CASE v.pages = 0
    <3>1. v.page = 1
      BY <1>4, <1>5, <2>1 DEF ListOK
    <3>2. k = 0
      BY <1>13, <1>18, <3>1
    <3>3. Missed(v) = {}
      <4>1. \A l : ~ (Rank(Gt, S, l) < 0)
        BY <1>17
      <4>2. QED BY <1>21, <3>2, <4>1
    <3>4. Cardinality(Missed(w)) = 0
      BY <1>24, <3>3, None
    <3>5. pages * p \in Nat
      BY <1>13, <1>16, <3>1
    <3>6. Cardinality(S) <= pages * p
      BY <1>16, <3>1
    <3>7. w.page = 2 /\ pages \in Nat \ {0}
      BY <1>10, <1>16, <3>1
    <3>8. 0 + Cardinality(S) <= v.drift + pages * p
      BY <1>12, <1>25, <3>5, <3>6
    <3>9. QED BY <1>25, <3>4, <3>7, <3>8
  <2>2. CASE v.pages # 0
    <3>1. v.page \in 2 .. v.pages + 1 /\ Cardinality(Missed(v)) <= v.drift
          /\ Cardinality(Missed(v)) + Cardinality(S) <= v.drift + v.pages * p
      BY <1>3, <1>4, <1>5, <1>13, <1>26, <2>2 DEF ListOK
    <3>2. pages = v.pages /\ v.page <= v.pages
      BY <1>4, <1>14, <1>16, <2>2, <3>1
    <3>3. w.page \in 2 .. pages + 1
      BY <1>10, <1>14, <3>1, <3>2
    <3>4. PICK q \in Nat : q = v.pages * p
      BY <1>13, <1>14
    <3>5. Cardinality(Missed(w)) + Cardinality(S) <= v.drift + q
      BY <1>12, <1>24, <1>25, <3>1, <3>4
    <3>6. Cardinality(Missed(w)) <= v.drift
      BY <1>24, <1>25, <3>1
    <3>7. QED BY <3>2, <3>3, <3>4, <3>5, <3>6
  <2>3. QED BY <2>1, <2>2
<1>27. w.rows \subseteq Views!Ids /\ w.rows \ S = v.rows \ S
  <2>1. Views!OnPage(S, v.page) \subseteq S
    BY <1>15
  <2>2. v.rows \subseteq Views!Ids
    BY <1>5 DEF ListOK
  <2>3. QED BY <1>6, <1>10, <1>12, <2>1, <2>2
<1>28. w.page \in Nat \ {0} /\ w.page # 1
  BY <1>10, <1>14
<1>29. w.pages = 0 => FALSE
  <2>1. v.pages = 0 => v.page = 1
    BY <1>4, <1>5 DEF ListOK
  <2>2. QED BY <1>10, <1>16, <2>1
<1>30. ListOK(w)
  <2>1. Cardinality(w.rows \ Matched(w)) <= w.drift
    BY <1>3, <1>5, <1>10, <1>11, <1>27 DEF ListOK
  <2>2. w.who \in Executives /\ w.who # Views!Nobody /\ w.filter = Views!Own(w.who)
        /\ (w.who = session \/ w.who \in late)
    BY <1>4, <1>5, <1>10 DEF ListOK
  <2>3. w.how = "whole" =>
         /\ w.page \in 2 .. w.pages + 1
         /\ Cardinality(Missed(w)) <= w.drift
         /\ Cardinality(Missed(w)) + Cardinality(Matched(w)) <= w.drift + w.pages * PageSize
    BY <1>10, <1>11, <1>13, <1>26
  <2>4. w.steady \subseteq Matched(w)
    BY <1>10, <1>11, <1>22
  <2>5. w.pc = "reading" /\ w.pages \in Nat
    BY <1>10, <1>16
  <2>6. QED BY <1>27, <1>28, <1>29, <2>1, <2>2, <2>3, <2>4, <2>5 DEF ListOK
<1>31. ViewOK(w)
  BY <1>4, <1>10, <1>30 DEF ViewOK
<1>32. QED BY <1>2, <1>4, <1>31, NextScreen

LEMMA PageFailed ==
  ASSUME LeadsTyped, ScreenOK, Views!PageFails
  PROVE  ScreenOK'
<1>1. PICK v : v = view
  OBVIOUS
<1>2. PICK w : w = view'
  OBVIOUS
<1>3. v.kind = "list" /\ v.pc = "reading" /\ v.page \in 2 .. v.pages
      /\ UNCHANGED <<leads, recent, managed, session, late>>
  BY <1>1 DEF Views!PageFails, Views!Reading, Views!Reads
<1>4. Shape(v) /\ ListOK(v)
  BY <1>1, <1>3 DEF ScreenOK, ViewOK, Views!Closed
<1>5. w = [v EXCEPT !.page = v.pages + 1, !.how = "partial"]
  BY <1>1, <1>2 DEF Views!PageFails, Views!Reads
<1>6. w = [v EXCEPT !.rows = v.rows, !.page = v.pages + 1, !.pages = v.pages, !.how = "partial", !.pc = v.pc]
  BY <1>4, <1>5 DEF Shape
<1>7. /\ Shape(w) /\ w.kind = v.kind /\ w.who = v.who /\ w.filter = v.filter /\ w.pc = "reading"
      /\ w.page = v.pages + 1 /\ w.pages = v.pages /\ w.rows = v.rows /\ w.how = "partial" /\ w.drift = v.drift
      /\ w.steady = v.steady
  <2>1. Stepped(v, w, v.rows, v.pages + 1, v.pages, "partial", v.pc)
    BY <1>3, <1>4, <1>6, ListStep
  <2>2. QED BY <1>3, <2>1 DEF Stepped
<1>8. Matched(w) = Matched(v)
  BY <1>7 DEF Matched
<1>9. v.pages \in Nat /\ v.pages # 0 /\ v.pages + 1 \in Nat \ {0}
  <2>1. v.pages \in Nat
    BY <1>4 DEF ListOK
  <2>2. QED BY <1>3, <2>1
<1>10. ListOK(w)
  BY <1>3, <1>4, <1>7, <1>8, <1>9 DEF ListOK
<1>11. ViewOK(w)
  BY <1>3, <1>7, <1>10 DEF ViewOK
<1>12. QED BY <1>2, <1>3, <1>11, NextScreen

\* One list on the device is replaced.
LEMMA CacheIs ==
  ASSUME CacheOK, UNCHANGED <<leads, managed, session, late>>, NEW who, NEW c,
         c = [rows |-> c.rows, drift |-> c.drift], KeptOK(who, c), cache' = [cache EXCEPT ![who] = c]
  PROVE  CacheOK'
<1>1. ASSUME NEW e \in Executives
      PROVE  /\ cache'[e] = [rows |-> cache'[e].rows, drift |-> cache'[e].drift]
             /\ KeptOK(e, cache[e])'
  <2>1. DOMAIN cache = Executives /\ KeptOK(e, cache[e])
        /\ cache[e] = [rows |-> cache[e].rows, drift |-> cache[e].drift]
    BY DEF CacheOK
  <2>2. PICK k : k = cache'[e] /\ KeptOK(e, k) /\ k = [rows |-> k.rows, drift |-> k.drift]
    <3>1. CASE e = who
      BY <2>1, <3>1
    <3>2. CASE e # who
      BY <2>1, <3>2
    <3>3. QED BY <3>1, <3>2
  <2>3. KeptOK(e, k)'
    BY <2>2 DEF KeptOK, Views!Matching, Views!Ids
  <2>4. KeptOK(e, cache[e])'
    BY <2>2, <2>3 DEF KeptOK
  <2>5. QED BY <2>2, <2>4
<1>2. cache' = [e \in Executives |-> [rows |-> cache'[e].rows, drift |-> cache'[e].drift]]
  <2>1. cache' = [e \in Executives |-> cache'[e]]
    BY DEF CacheOK
  <2>2. QED BY <1>1, <2>1
<1>3. QED BY <1>1, <1>2 DEF CacheOK

\* All pages are read: what is missed by now is missed, and so is what did not
\* fit on them.
LEMMA ListShown ==
  ASSUME LeadsTyped, ScreenOK, CacheOK, Views!ShowList
  PROVE  ScreenOK' /\ CacheOK'
<1>1. PICK v : v = view
  OBVIOUS
<1>2. PICK w : w = view'
  OBVIOUS
<1>3. v.kind = "list" /\ v.pc = "reading" /\ v.pages # 0 /\ v.page > v.pages
      /\ cache' = [cache EXCEPT ![v.who] = [rows |-> v.rows, drift |-> v.drift]]
      /\ UNCHANGED <<leads, recent, managed, session, late>>
  BY <1>1 DEF Views!ShowList, Views!Reading, Views!Reads
<1>4. Shape(v) /\ ListOK(v)
  BY <1>1, <1>3 DEF ScreenOK, ViewOK, Views!Closed
<1>5. w = [v EXCEPT !.pc = "shown"]
  BY <1>1, <1>2 DEF Views!ShowList, Views!Reads
<1>6. w = [v EXCEPT !.rows = v.rows, !.page = v.page, !.pages = v.pages, !.how = v.how, !.pc = "shown"]
  BY <1>4, <1>5 DEF Shape
<1>7. /\ Shape(w) /\ w.kind = v.kind /\ w.who = v.who /\ w.filter = v.filter /\ w.pc = "shown"
      /\ w.page = v.page /\ w.pages = v.pages /\ w.rows = v.rows /\ w.how = v.how /\ w.drift = v.drift
      /\ w.steady = v.steady
  <2>1. Stepped(v, w, v.rows, v.page, v.pages, v.how, "shown")
    BY <1>4, <1>6, ListStep
  <2>2. QED BY <2>1 DEF Stepped
<1>8. Matched(w) = Matched(v)
  BY <1>7 DEF Matched
<1>9. PICK S : S = Matched(v)
  OBVIOUS
<1>10. S \subseteq Nat /\ IsFiniteSet(S) /\ Orders(Gt, S)
  BY <1>9, MineIs
<1>11. ASSUME v.how = "whole" PROVE Cardinality(v.steady \ v.rows) <= v.drift
  <2>1. v.pages \in Nat /\ v.page \in 2 .. v.pages + 1 /\ v.steady \subseteq S
        /\ Cardinality(Missed(v)) <= v.drift
        /\ Cardinality(Missed(v)) + Cardinality(S) <= v.drift + v.pages * PageSize
    BY <1>3, <1>4, <1>9, <1>11 DEF ListOK
  <2>2. v.page - 1 = v.pages
    BY <1>3, <2>1
  <2>3. PICK K \in Nat : K = v.pages * PageSize
    BY <2>1, Sizes
  <2>4. Missed(v) = {l \in v.steady \ v.rows : Rank(Gt, S, l) < K}
    BY <1>9, <2>2, <2>3 DEF Missed
  <2>5. PICK O : O = {l \in S : Rank(Gt, S, l) >= K}
    OBVIOUS
  <2>6. Cardinality(O) \in Nat /\ Cardinality(S) \in Nat /\ (O = {} \/ Cardinality(O) + K <= Cardinality(S))
    BY <1>10, <2>5, Rest
  <2>7. PICK A : A = v.steady \ v.rows
    OBVIOUS
  <2>8. PICK B : B = Missed(v)
    OBVIOUS
  <2>9. A \ B \subseteq O
    <3>1. \A l : Rank(Gt, S, l) \in Nat
      BY <1>10, RankNat
    <3>2. \A l \in A : l \in S /\ (Rank(Gt, S, l) < K \/ Rank(Gt, S, l) >= K)
      BY <2>1, <2>3, <2>7, <3>1
    <3>3. QED BY <2>4, <2>5, <2>7, <2>8, <3>2
  <2>10. A \subseteq S /\ B \subseteq S /\ O \subseteq S
    BY <2>1, <2>4, <2>5, <2>7, <2>8
  <2>11. IsFiniteSet(A) /\ IsFiniteSet(B) /\ IsFiniteSet(O) /\ Cardinality(A) \in Nat /\ Cardinality(B) \in Nat
    BY <1>10, <2>10, Finite
  <2>12. Cardinality(A) <= Cardinality(B) + Cardinality(O)
    BY <2>9, <2>11, Near
  <2>13. O = {} => Cardinality(O) = 0
    BY None
  <2>14. PICK d \in Nat : d = v.drift
    BY <1>4 DEF Shape
  <2>15. Cardinality(B) <= d /\ Cardinality(B) + Cardinality(S) <= d + K
    BY <2>1, <2>3, <2>8, <2>14
  <2>16. Cardinality(A) <= d
    BY <2>6, <2>11, <2>12, <2>13, <2>14, <2>15
  <2>17. QED BY <2>7, <2>14, <2>16
<1>12. ListOK(w)
  BY <1>4, <1>7, <1>8, <1>11 DEF ListOK
<1>13. ViewOK(w)
  BY <1>3, <1>7, <1>12 DEF ViewOK
<1>14. v.who # Views!Nobody /\ (v.who = session \/ v.who \in late) /\ v.filter = Views!Own(v.who)
       /\ v.rows \subseteq Views!Ids /\ v.drift \in Nat /\ Cardinality(v.rows \ Matched(v)) <= v.drift
  BY <1>3, <1>4 DEF ListOK, Shape
<1>15. CacheOK'
  <2>1. PICK c : c = [rows |-> v.rows, drift |-> v.drift]
    OBVIOUS
  <2>2. c.rows = v.rows /\ c.drift = v.drift
    BY <2>1
  <2>3. Matched(v) = Views!Matching(v.who, Views!Own(v.who))
    BY <1>14 DEF Matched
  <2>4. KeptOK(v.who, c)
    BY <1>14, <2>2, <2>3 DEF KeptOK
  <2>5. cache' = [cache EXCEPT ![v.who] = c]
    BY <1>3, <2>1
  <2>6. QED BY <1>3, <2>1, <2>4, <2>5, CacheIs
<1>16. QED BY <1>2, <1>3, <1>13, <1>15, NextScreen

LEMMA CachedShown ==
  ASSUME LeadsTyped, ScreenOK, CacheOK, Views!ShowCached
  PROVE  ScreenOK'
<1>1. PICK v : v = view
  OBVIOUS
<1>2. PICK w : w = view'
  OBVIOUS
<1>3. v.kind = "list" /\ v.pc = "reading" /\ UNCHANGED <<leads, recent, managed, session, late>>
  BY <1>1 DEF Views!ShowCached, Views!Reading, Views!Reads
<1>4. Shape(v) /\ ListOK(v)
  BY <1>1, <1>3 DEF ScreenOK, ViewOK, Views!Closed
<1>5. PICK c : c = cache[v.who]
  OBVIOUS
<1>6. PICK how : how = (IF c.rows = {} THEN "failed" ELSE "cached")
  OBVIOUS
<1>7. w = [v EXCEPT !.pc = "shown", !.rows = c.rows, !.drift = c.drift, !.how = how] /\ how # "whole"
  BY <1>1, <1>2, <1>5, <1>6 DEF Views!ShowCached, Views!Reads
<1>8. w = [kind |-> v.kind, who |-> v.who, filter |-> v.filter, pc |-> "shown", drift |-> c.drift,
          steady |-> v.steady, page |-> v.page, pages |-> v.pages, rows |-> c.rows, how |-> how,
          overdue |-> v.overdue, table |-> v.table, round |-> v.round, todo |-> v.todo, got |-> v.got]
  BY <1>4, <1>7 DEF Shape
<1>9. /\ w.kind = v.kind /\ w.who = v.who /\ w.filter = v.filter /\ w.pc = "shown" /\ w.page = v.page
      /\ w.pages = v.pages /\ w.rows = c.rows /\ w.how = how /\ w.overdue = v.overdue
      /\ w.round = v.round /\ w.todo = v.todo /\ w.got = v.got /\ w.drift = c.drift /\ w.steady = v.steady
      /\ w.table = v.table
  BY <1>8
<1>10. v.who \in Executives /\ v.who # Views!Nobody /\ v.filter = Views!Own(v.who) /\ v.page \in Nat \ {0}
       /\ v.pages \in Nat /\ v.steady \subseteq Matched(v)
  BY <1>4 DEF ListOK
<1>11. c.rows \subseteq Views!Ids /\ c.drift \in Nat /\ Cardinality(c.rows \ Matched(v)) <= c.drift
  <2>1. KeptOK(v.who, c)
    BY <1>5, <1>10 DEF CacheOK
  <2>2. Matched(v) = Views!Matching(v.who, Views!Own(v.who))
    BY <1>10 DEF Matched
  <2>3. QED BY <2>1, <2>2 DEF KeptOK
<1>12. Shape(w)
  BY <1>3, <1>8, <1>9, <1>11 DEF Shape
<1>13. Matched(w) = Matched(v)
  BY <1>9 DEF Matched
<1>14. ListOK(w)
  BY <1>7, <1>9, <1>10, <1>11, <1>13 DEF ListOK
<1>15. ViewOK(w)
  BY <1>3, <1>9, <1>12, <1>14 DEF ViewOK
<1>16. QED BY <1>2, <1>3, <1>15, NextScreen

LEMMA SignedOut ==
  ASSUME ScreenOK, CacheOK, session # Views!Nobody, Views!SignOut
  PROVE  ScreenOK' /\ CacheOK'
<1>1. /\ UNCHANGED <<leads, recent, managed, view>>
      /\ session' = Views!Nobody /\ cache' = [cache EXCEPT ![session] = Views!NoList]
      /\ late' = IF Views!Reading /\ view.kind = "list" THEN late \cup {session} ELSE late
  BY DEF Views!SignOut
<1>2. CacheOK'
  <2>1. ASSUME NEW e \in Executives
        PROVE  /\ cache'[e] = [rows |-> cache'[e].rows, drift |-> cache'[e].drift]
               /\ KeptOK(e, cache[e])'
    <3>1. DOMAIN cache = Executives /\ KeptOK(e, cache[e])
          /\ cache[e] = [rows |-> cache[e].rows, drift |-> cache[e].drift]
      BY DEF CacheOK
    <3>2. PICK k : k = cache'[e]
      OBVIOUS
    <3>3. CASE e = session
      <4>1. k = Views!NoList
        BY <1>1, <3>1, <3>2, <3>3
      <4>2. k = [rows |-> k.rows, drift |-> k.drift] /\ k.rows = {} /\ k.drift = 0
        BY <4>1 DEF Views!NoList
      <4>3. KeptOK(e, k)'
        BY <4>2, None DEF KeptOK
      <4>4. QED BY <3>2, <4>2, <4>3 DEF KeptOK
    <3>4. CASE e # session
      <4>1. k = cache[e]
        BY <1>1, <3>1, <3>2, <3>4
      <4>2. late \subseteq late'
        BY <1>1
      <4>3. KeptOK(e, k)'
        BY <1>1, <3>1, <3>4, <4>1, <4>2 DEF KeptOK, Views!Matching, Views!Ids
      <4>4. QED BY <3>1, <3>2, <4>1, <4>3 DEF KeptOK
    <3>5. QED BY <3>3, <3>4
  <2>2. cache' = [e \in Executives |-> [rows |-> cache'[e].rows, drift |-> cache'[e].drift]]
    <3>1. cache' = [e \in Executives |-> cache'[e]]
      BY <1>1 DEF CacheOK
    <3>2. QED BY <2>1, <3>1
  <2>3. QED BY <1>1, <2>1, <2>2 DEF CacheOK
<1>3. CASE view = Views!Closed
  BY <1>1, <1>2, <1>3 DEF ScreenOK, Views!Closed
<1>4. CASE ViewOK(view)
  <2>1. PICK v : v = view /\ v = view' /\ ViewOK(v)
    BY <1>1, <1>4
  <2>2. v.kind = "list" => ListOK(v)'
    <3>1. ASSUME v.kind = "list" PROVE ListOK(v)'
      <4>1. ListOK(v)
        BY <2>1, <3>1 DEF ViewOK
      <4>2. v.pc = "reading" => v.who = session' \/ v.who \in late'
        <5>1. ASSUME v.pc = "reading" PROVE v.who \in late'
          <6>1. Views!Reading /\ view.kind = "list"
            BY <2>1, <3>1, <5>1 DEF Views!Reading, Views!IsOpen
          <6>2. late' = late \cup {session}
            BY <1>1, <6>1
          <6>3. v.who = session \/ v.who \in late
            BY <4>1, <5>1 DEF ListOK
          <6>4. QED BY <6>2, <6>3
        <5>2. QED BY <5>1
      <4>3. QED BY <1>1, <4>1, <4>2 DEF ListOK, Missed, Matched, Views!Matching, Views!Ids
    <3>2. QED BY <3>1
  <2>3. HomeOK(v) => HomeOK(v)'
    BY <1>1 DEF HomeOK, Urgent, Beyond, Matched, Views!Matching, Views!Ids
  <2>4. DashboardOK(v) => DashboardOK(v)'
    BY <1>1 DEF DashboardOK, SumOf, NumberOf, Matched, Views!Matching, Views!Ids
  <2>5. ReportOK(v) => ReportOK(v)'
    BY <1>1 DEF ReportOK, SumOf, NumberOf, Assigned, Matched, Views!Matching, Views!Ids
  <2>6. ViewOK(v)'
    BY <2>1, <2>2, <2>3, <2>4, <2>5 DEF ViewOK
  <2>7. ViewOK(view)'
    BY <2>1, <2>6, NextView
  <2>8. QED BY <1>2, <2>7 DEF ScreenOK
<1>5. QED BY <1>2, <1>3, <1>4 DEF ScreenOK

-----------------------------------------------------------------------------
(* The answers of a dashboard or report *)

LEMMA FigureParts ==
  ASSUME NEW S, NEW who, NEW filter
  PROVE  /\ \A e \in Executives :
              /\ Views!Figure("assigned", S, who, filter)[e] = Cardinality(Part("assigned", e, S, leads))
              /\ Views!Figure("active", S, who, filter)[e] = Cardinality(Part("active", e, S, leads))
              /\ Views!Figure("terminal", S, who, filter)[e] = Cardinality(Part("terminal", e, S, leads))
         /\ \A d \in Districts :
              /\ Views!Figure("districts", S, who, filter)[d] = Cardinality(Part("districts", d, S, leads))
              /\ Views!Figure("completed", S, who, filter)[d] = Cardinality(Part("completed", d, S, leads))
         /\ Views!Figure("executives", S, who, filter) \subseteq active
<1>1. ASSUME NEW e \in Executives
      PROVE  /\ Views!Figure("assigned", S, who, filter)[e] = Cardinality(Part("assigned", e, S, leads))
             /\ Views!Figure("active", S, who, filter)[e] = Cardinality(Part("active", e, S, leads))
             /\ Views!Figure("terminal", S, who, filter)[e] = Cardinality(Part("terminal", e, S, leads))
  <2>1. Views!Of(e, S) = Part("assigned", e, S, leads)
    BY DEF Views!Of, Part
  <2>2. Views!ActiveOf(e, S) = Part("active", e, S, leads)
    BY DEF Views!ActiveOf, Views!Of, Part
  <2>3. {l \in Views!Of(e, S) : leads[l].status \in Views!Terminal} = Part("terminal", e, S, leads)
    BY DEF Views!Of, Part
  <2>4. Views!Figure("assigned", S, who, filter) = [x \in Executives |-> Cardinality(Views!Of(x, S))]
    BY SameSizes DEF Views!Figure
  <2>5. Views!Figure("active", S, who, filter) = [x \in Executives |-> Cardinality(Views!ActiveOf(x, S))]
    BY SameSizes DEF Views!Figure
  <2>6. Views!Figure("terminal", S, who, filter)
          = [x \in Executives |-> Cardinality({l \in Views!Of(x, S) : leads[l].status \in Views!Terminal})]
    BY SameSizes DEF Views!Figure
  <2>7. QED BY <2>1, <2>2, <2>3, <2>4, <2>5, <2>6
<1>2. ASSUME NEW d \in Districts
      PROVE  /\ Views!Figure("districts", S, who, filter)[d] = Cardinality(Part("districts", d, S, leads))
             /\ Views!Figure("completed", S, who, filter)[d] = Cardinality(Part("completed", d, S, leads))
  <2>1. {l \in S : leads[l].district = d} = Part("districts", d, S, leads)
    BY DEF Part
  <2>2. {l \in S : leads[l].district = d /\ leads[l].status \in Views!Terminal} = Part("completed", d, S, leads)
    BY DEF Part
  <2>3. Views!Figure("districts", S, who,
            filter) = [x \in Districts |-> Cardinality({l \in S : leads[l].district = x})]
    BY SameSizes DEF Views!Figure
  <2>4. Views!Figure("completed", S, who, filter)
          = [x \in Districts |-> Cardinality({l \in S : leads[l].district = x
              /\ leads[l].status \in Views!Terminal})]
    BY SameSizes DEF Views!Figure
  <2>5. QED BY <2>1, <2>2, <2>3, <2>4
<1>3. Views!Figure("executives", S, who, filter) \subseteq active
  <2>1. Views!Figure("executives", S, who, filter) = Views!Listed(who, filter)
    BY DEF Views!Figure
  <2>2. QED BY <2>1 DEF Views!Listed
<1>4. QED BY <1>1, <1>2, <1>3

LEMMA FigureTotals ==
  ASSUME NEW S, IsFiniteSet(S), \A l \in S : leads[l] \in Views!Lead, NEW who, NEW filter
  PROVE  /\ Views!Total(Views!Figure("statuses", S, who, filter)) = Cardinality(S)
         /\ Views!Total(Views!Figure("districts", S, who, filter)) = Cardinality(S)
         /\ Views!Total(Views!Figure("assigned", S, who, filter)) = Cardinality(Part("sum", Views!Nobody,
                S, leads))
<1>1. Views!Total(Views!Figure("statuses", S, who, filter)) = Cardinality(S)
  <2>1. PICK key : key = [l \in S |-> leads[l].status]
    OBVIOUS
  <2>2. key \in [S -> Views!Statuses]
    BY <2>1 DEF Views!Lead
  <2>3. PICK figure : figure = Views!Figure("statuses", S, who, filter)
    OBVIOUS
  <2>4. figure = [g \in Views!Statuses |-> Cardinality({l \in S : leads[l].status = g})]
    BY <2>3, SameSizes DEF Views!Figure
  <2>5. \A g : {l \in S : leads[l].status = g} = {l \in S : key[l] = g}
    BY <2>1
  <2>6. figure = [g \in Views!Statuses |-> Cardinality({l \in S : key[l] = g})]
    BY <2>4, <2>5
  <2>7. QED BY <2>2, <2>3, <2>6, Totals
<1>2. Views!Total(Views!Figure("districts", S, who, filter)) = Cardinality(S)
  <2>1. PICK key : key = [l \in S |-> leads[l].district]
    OBVIOUS
  <2>2. key \in [S -> Districts]
    BY <2>1 DEF Views!Lead
  <2>3. PICK figure : figure = Views!Figure("districts", S, who, filter)
    OBVIOUS
  <2>4. figure = [g \in Districts |-> Cardinality({l \in S : leads[l].district = g})]
    BY <2>3, SameSizes DEF Views!Figure
  <2>5. \A g : {l \in S : leads[l].district = g} = {l \in S : key[l] = g}
    BY <2>1
  <2>6. figure = [g \in Districts |-> Cardinality({l \in S : key[l] = g})]
    BY <2>4, <2>5
  <2>7. QED BY <2>2, <2>3, <2>6, Totals
<1>3. Views!Total(Views!Figure("assigned", S, who, filter)) = Cardinality(Part("sum", Views!Nobody, S, leads))
  <2>1. PICK F : F = Part("sum", Views!Nobody, S, leads)
    OBVIOUS
  <2>2. F = {l \in S : leads[l].exec \in Executives}
    BY <2>1 DEF Part
  <2>3. IsFiniteSet(F)
    BY <2>2, Finite
  <2>4. PICK key : key = [l \in F |-> leads[l].exec]
    OBVIOUS
  <2>5. key \in [F -> Executives]
    BY <2>2, <2>4
  <2>6. PICK figure : figure = Views!Figure("assigned", S, who, filter)
    OBVIOUS
  <2>7. figure = [g \in Executives |-> Cardinality({l \in S : leads[l].exec = g})]
    BY <2>6, SameSizes DEF Views!Figure, Views!Of
  <2>8. \A g \in Executives : {l \in S : leads[l].exec = g} = {l \in F : key[l] = g}
    BY <2>2, <2>4
  <2>9. figure = [g \in Executives |-> Cardinality({l \in F : key[l] = g})]
    BY <2>7, <2>8
  <2>10. Views!Total(figure) = Cardinality(F)
    BY <2>3, <2>5, <2>9, Totals
  <2>11. QED BY <2>1, <2>6, <2>10
<1>4. QED BY <1>1, <1>2, <1>3

LEMMA RoundsApart ==
  ASSUME NEW kind \in {"dashboard", "report"}
  PROVE  /\ Len(Views!Rounds(kind)) \in Nat \ {0}
         /\ \A i, j \in 1 .. Len(Views!Rounds(kind)) : i # j =>
                Views!Rounds(kind)[i] \cap Views!Rounds(kind)[j] = {}
<1>1. CASE kind = "dashboard"
  <2>1. Len(Views!Rounds(kind)) = 2
        /\ Views!Rounds(kind)[1] = {"statuses", "districts", "executives", "assigned", "active", "terminal"}
        /\ Views!Rounds(kind)[2] = {"visits"}
    BY <1>1 DEF Views!Rounds
  <2>2. Views!Rounds(kind)[1] \cap Views!Rounds(kind)[2] = {}
    BY <2>1
  <2>3. QED BY <2>1, <2>2
<1>2. CASE kind = "report"
  <2>1. Len(Views!Rounds(kind)) = 5 /\ Views!Rounds(kind)[1] = {"statuses", "districts"}
        /\ Views!Rounds(kind)[2] = {"completed"} /\ Views!Rounds(kind)[3] = {"executives"}
        /\ Views!Rounds(kind)[4] = {"assigned"} /\ Views!Rounds(kind)[5] = {"visits"}
    BY <1>2 DEF Views!Rounds
  <2>2. ASSUME NEW i \in 1 .. 5, NEW j \in 1 .. 5,
            i < j PROVE Views!Rounds(kind)[i] \cap Views!Rounds(kind)[j] = {}
    <3>1. i = 1 \/ i = 2 \/ i = 3 \/ i = 4
      BY <2>2
    <3>2. j = 2 \/ j = 3 \/ j = 4 \/ j = 5
      BY <2>2
    <3>3. QED BY <2>1, <2>2, <3>1, <3>2
  <2>3. ASSUME NEW i \in 1 .. 5, NEW j \in 1 .. 5,
            i # j PROVE Views!Rounds(kind)[i] \cap Views!Rounds(kind)[j] = {}
    <3>1. i < j \/ j < i
      BY <2>3
    <3>2. QED BY <2>2, <3>1
  <2>4. QED BY <2>1, <2>3
<1>3. QED BY <1>1, <1>2

\* What an answer leaves of the screen.
IsLast(v) == v.round = Len(Views!Rounds(v.kind))
Answering(v, w, got, left) ==
  /\ Shape(w) /\ w.kind = v.kind /\ w.who = v.who /\ w.filter = v.filter /\ w.drift = v.drift
  /\ w.got = got
  /\ left = {} /\ ~ IsLast(v) => w.todo = Views!Rounds(v.kind)[v.round + 1] /\ w.round = v.round + 1
         /\ w.pc = v.pc
  /\ left = {} /\ IsLast(v) => w.todo = left /\ w.round = v.round /\ w.pc = "shown"
  /\ left # {} => w.todo = left /\ w.round = v.round /\ w.pc = v.pc

Carry(v, got, todo, round, pc) == [v EXCEPT !.got = got, !.todo = todo, !.round = round, !.pc = pc]
Carried(v, w, got, todo, round, pc) ==
  /\ Shape(w) /\ w.kind = v.kind /\ w.who = v.who /\ w.filter = v.filter /\ w.drift = v.drift
  /\ w.got = got /\ w.todo = todo /\ w.round = round /\ w.pc = pc

LEMMA AnswerFields ==
  ASSUME NEW v, Shape(v), NEW got, NEW todo, NEW round, NEW pc \in {"reading", "shown"}, NEW w,
         w = Carry(v, got, todo, round, pc)
  PROVE  Carried(v, w, got, todo, round, pc)
<1>1. w = [kind |-> v.kind, who |-> v.who, filter |-> v.filter, pc |-> pc, drift |-> v.drift,
          steady |-> v.steady, page |-> v.page, pages |-> v.pages, rows |-> v.rows, how |-> v.how,
          overdue |-> v.overdue, table |-> v.table, round |-> round, todo |-> todo, got |-> got]
  BY DEF Shape, Carry
<1>2. /\ w.kind = v.kind /\ w.who = v.who /\ w.filter = v.filter /\ w.pc = pc /\ w.page = v.page
      /\ w.pages = v.pages /\ w.rows = v.rows /\ w.how = v.how /\ w.overdue = v.overdue
      /\ w.round = round /\ w.todo = todo /\ w.got = got /\ w.drift = v.drift /\ w.steady = v.steady
      /\ w.table = v.table
  BY <1>1
<1>3. Shape(w)
  BY <1>1, <1>2 DEF Shape
<1>4. QED BY <1>2, <1>3 DEF Carried

LEMMA AnswerStep ==
  ASSUME NEW v, Shape(v), NEW got, NEW left, NEW w,
         w = [v EXCEPT !.got = got,
                 !.todo = IF left = {} /\ ~ IsLast(v) THEN Views!Rounds(v.kind)[v.round + 1] ELSE left,
                 !.round = IF left = {} /\ ~ IsLast(v) THEN v.round + 1 ELSE v.round,
                 !.pc = IF left = {} /\ IsLast(v) THEN "shown" ELSE v.pc]
  PROVE  Answering(v, w, got, left)
<1>1. PICK todo : todo = (IF left = {} /\ ~ IsLast(v) THEN Views!Rounds(v.kind)[v.round + 1] ELSE left)
  OBVIOUS
<1>2. PICK round : round = (IF left = {} /\ ~ IsLast(v) THEN v.round + 1 ELSE v.round)
  OBVIOUS
<1>3. PICK pc : pc = (IF left = {} /\ IsLast(v) THEN "shown" ELSE v.pc)
  OBVIOUS
<1>4. w = Carry(v, got, todo, round, pc)
  BY <1>1, <1>2, <1>3 DEF Carry
<1>5. pc \in {"reading", "shown"}
  BY <1>3 DEF Shape
<1>6. Carried(v, w, got, todo, round, pc)
  BY <1>4, <1>5, AnswerFields
<1>7. QED BY <1>1, <1>2, <1>3, <1>6 DEF Answering, Carried

Extends(got, old, f) == DOMAIN got = DOMAIN old \cup {f} /\ \A g \in DOMAIN old \ {f} : got[g] = old[g]

LEMMA AnswerRounds ==
  ASSUME NEW v, v.kind \in {"dashboard", "report"}, RoundsOK(v), v.pc = "reading", NEW f \in v.todo,
         NEW got, Extends(got, v.got, f),
         f = "executives" => got[f] \subseteq Executives, NEW left,
         left = v.todo \ {f}, NEW w, Answering(v, w, got, left)
  PROVE  RoundsOK(w) /\ f \notin DOMAIN v.got
<1>a. DOMAIN got = DOMAIN v.got \cup {f} /\ \A g \in DOMAIN v.got \ {f} : got[g] = v.got[g]
  BY DEF Extends
<1>1. PICK R : R = Views!Rounds(v.kind)
  OBVIOUS
<1>2. PICK n \in Nat \ {0} : n = Len(R)
  BY <1>1, RoundsApart
<1>3. \A i, j \in 1 .. n : i # j => R[i] \cap R[j] = {}
  BY <1>1, <1>2, RoundsApart
<1>4. PICK r \in 1 .. n : r = v.round
  BY <1>1, <1>2 DEF RoundsOK
<1>5. left = v.todo \ {f}
  OBVIOUS
<1>6. /\ \A i \in 1 .. r : \A g \in R[i] : g \in DOMAIN v.got \/ (i = r /\ g \in v.todo)
      /\ v.todo \subseteq R[r] /\ v.todo \cap DOMAIN v.got = {}
      /\ \A i \in r + 1 .. n : R[i] \cap DOMAIN v.got = {}
      /\ ("executives" \in DOMAIN v.got => v.got["executives"] \subseteq Executives)
  BY <1>1, <1>2, <1>4 DEF RoundsOK
<1>7. f \in R[r] /\ f \notin DOMAIN v.got
  BY <1>a, <1>6
<1>8. "executives" \in DOMAIN got => got["executives"] \subseteq Executives
  BY <1>a, <1>6
<1>9. /\ w.kind = v.kind /\ w.got = got
      /\ left = {} /\ r # n => w.todo = R[r + 1] /\ w.round = r + 1 /\ w.pc = "reading"
      /\ left = {} /\ r = n => w.round = r /\ w.pc = "shown"
      /\ left # {} => w.todo = left /\ w.round = r /\ w.pc = "reading"
  BY <1>1, <1>2, <1>4 DEF Answering, IsLast
<1>10. CASE left # {}
  <2>1. w.todo = left /\ w.round = r /\ w.pc = "reading"
    BY <1>9, <1>10
  <2>2. \A i \in 1 .. r : \A g \in R[i] : g \in DOMAIN got \/ (i = r /\ g \in left)
    BY <1>a, <1>5, <1>6
  <2>3. left \subseteq R[r] /\ left \cap DOMAIN got = {}
    BY <1>a, <1>5, <1>6
  <2>4. \A i \in r + 1 .. n : R[i] \cap DOMAIN got = {}
    <3>1. ASSUME NEW i \in r + 1 .. n PROVE R[i] \cap DOMAIN got = {}
      <4>1. i \in 1 .. n /\ i # r
        OBVIOUS
      <4>2. f \notin R[i]
        BY <1>3, <1>7, <4>1
      <4>3. QED BY <1>a, <1>6, <4>2
    <3>2. QED BY <3>1
  <2>5. QED BY <1>1, <1>2, <1>7, <1>8, <1>9, <2>1, <2>2, <2>3, <2>4 DEF RoundsOK
<1>11. CASE left = {} /\ r # n
  <2>1. w.todo = R[r + 1] /\ w.round = r + 1 /\ w.pc = "reading"
    BY <1>9, <1>11
  <2>2. r + 1 \in 1 .. n
    BY <1>2, <1>11
  <2>3. \A i \in 1 .. r + 1 : \A g \in R[i] : g \in DOMAIN got \/ (i = r + 1 /\ g \in R[r + 1])
    <3>1. ASSUME NEW i \in 1 .. r + 1, NEW g \in R[i] PROVE g \in DOMAIN got \/ (i = r + 1 /\ g \in R[r + 1])
      <4>1. i \in 1 .. r \/ i = r + 1
        OBVIOUS
      <4>2. QED BY <1>a, <1>5, <1>6, <1>11, <4>1
    <3>2. QED BY <3>1
  <2>4. \A i \in r + 1 .. n : R[i] \cap DOMAIN got = {}
    <3>1. ASSUME NEW i \in r + 1 .. n PROVE R[i] \cap DOMAIN got = {}
      <4>1. i \in 1 .. n /\ i # r
        OBVIOUS
      <4>2. f \notin R[i]
        BY <1>3, <1>7, <4>1
      <4>3. QED BY <1>a, <1>6, <4>2
    <3>2. QED BY <3>1
  <2>5. R[r + 1] \cap DOMAIN got = {}
    <3>1. r + 1 \in r + 1 .. n
      BY <2>2
    <3>2. QED BY <2>4, <3>1
  <2>6. \A i \in (r + 1) + 1 .. n : R[i] \cap DOMAIN got = {}
    <3>1. ASSUME NEW i \in (r + 1) + 1 .. n PROVE i \in r + 1 .. n
      OBVIOUS
    <3>2. QED BY <2>4, <3>1
  <2>7. QED BY <1>1, <1>2, <1>7, <1>8, <1>9, <2>1, <2>2, <2>3, <2>5, <2>6 DEF RoundsOK
<1>12. CASE left = {} /\ r = n
  <2>1. w.round = r /\ w.pc = "shown"
    BY <1>9, <1>12
  <2>2. \A i \in 1 .. n : R[i] \subseteq DOMAIN got
    BY <1>a, <1>5, <1>6, <1>12
  <2>3. QED BY <1>1, <1>2, <1>7, <1>8, <1>9, <2>1, <2>2 DEF RoundsOK
<1>13. QED BY <1>10, <1>11, <1>12

LEMMA Answered ==
  ASSUME LeadsTyped, ScreenOK, NEW f, Views!Answer(f)
  PROVE  ScreenOK'
<1>1. PICK v : v = view
  OBVIOUS
<1>2. PICK w : w = view'
  OBVIOUS
<1>3. v.kind \in {"dashboard", "report"} /\ v.pc = "reading" /\ f \in v.todo
  BY <1>1 DEF Views!Answer, Views!Reading
<1>4. ViewOK(v) /\ Shape(v) /\ RoundsOK(v) /\ (v.kind = "dashboard" => DashboardOK(v))
      /\ (v.kind = "report" => ReportOK(v))
  BY <1>1, <1>3 DEF ScreenOK, ViewOK, Views!Closed
<1>5. PICK S : S = Matched(v)
  OBVIOUS
<1>6. IsFiniteSet(S) /\ \A l \in S : leads[l] \in Views!Lead
  BY <1>5, MineIs
<1>7. PICK got : got = [g \in DOMAIN v.got \cup {f} |->
                          IF g = f THEN Views!Figure(f, S, v.who, v.filter) ELSE v.got[g]]
  OBVIOUS
<1>8. DOMAIN got = DOMAIN v.got \cup {f} /\ got[f] = Views!Figure(f, S, v.who, v.filter)
      /\ \A g \in DOMAIN v.got \ {f} : got[g] = v.got[g]
  BY <1>7
<1>9. PICK left : left = v.todo \ {f}
  OBVIOUS
<1>11. /\ w = [v EXCEPT !.got = got,
                 !.todo = IF left = {} /\ ~ IsLast(v) THEN Views!Rounds(v.kind)[v.round + 1] ELSE left,
                 !.round = IF left = {} /\ ~ IsLast(v) THEN v.round + 1 ELSE v.round,
                 !.pc = IF left = {} /\ IsLast(v) THEN "shown" ELSE v.pc]
       /\ UNCHANGED <<leads, recent, managed, session, late>>
  <2>1. S = Views!Matching(view.who, view.filter)
    BY <1>1, <1>5 DEF Matched
  <2>2. got = [g \in DOMAIN view.got \cup {f} |->
                 IF g = f THEN Views!Figure(f, S, view.who, view.filter) ELSE view.got[g]]
    BY <1>1, <1>7
  <2>3. Views!Reads([view EXCEPT !.got = got,
                 !.todo = IF left = {} /\ ~ IsLast(view) THEN Views!Rounds(view.kind)[view.round + 1] ELSE left,
                 !.round = IF left = {} /\ ~ IsLast(view) THEN @ + 1 ELSE @,
                 !.pc = IF left = {} /\ IsLast(view) THEN "shown" ELSE @])
    BY <1>1, <1>9, <2>1, <2>2 DEF Views!Answer, IsLast
  <2>4. QED BY <1>1, <1>2, <2>3 DEF Views!Reads
<1>12. Answering(v, w, got, left)
  BY <1>4, <1>11, AnswerStep
<1>13. RoundsOK(w) /\ f \notin DOMAIN v.got
  <2>1. f = "executives" => got[f] \subseteq Executives
    BY <1>8, FigureParts DEF LeadsTyped
  <2>2. Extends(got, v.got, f)
    BY <1>8 DEF Extends
  <2>3. QED BY <1>3, <1>4, <1>9, <1>12, <2>1, <2>2, AnswerRounds
<1>14. w.got = got /\ w.drift = v.drift /\ w.kind = v.kind /\ Matched(w) = S /\ Shape(w)
  BY <1>5, <1>12 DEF Answering, Matched
<1>15. ASSUME NEW x \in Executives, NEW g \in {"assigned", "active", "terminal"}
       PROVE  NumberOf(w, g, x) = NumberOf(v, g, x)
  <2>1. CASE g = f
    <3>1. NumberOf(w, g, x) = Views!Figure(f, S, v.who, v.filter)[x]
      BY <1>8, <1>14, <2>1 DEF NumberOf
    <3>2. NumberOf(v, g, x) = Cardinality(Part(f, x, S, leads))
      BY <1>5, <1>13, <2>1 DEF NumberOf
    <3>3. Views!Figure(f, S, v.who, v.filter)[x] = Cardinality(Part(f, x, S, leads))
      BY <2>1, FigureParts
    <3>4. QED BY <3>1, <3>2, <3>3
  <2>2. CASE g # f
    BY <1>5, <1>8, <1>14, <2>2 DEF NumberOf
  <2>3. QED BY <2>1, <2>2
<1>16. ASSUME NEW x \in Districts, NEW g \in {"districts", "completed"}
       PROVE  NumberOf(w, g, x) = NumberOf(v, g, x)
  <2>1. CASE g = f
    <3>1. NumberOf(w, g, x) = Views!Figure(f, S, v.who, v.filter)[x]
      BY <1>8, <1>14, <2>1 DEF NumberOf
    <3>2. NumberOf(v, g, x) = Cardinality(Part(f, x, S, leads))
      BY <1>5, <1>13, <2>1 DEF NumberOf
    <3>3. Views!Figure(f, S, v.who, v.filter)[x] = Cardinality(Part(f, x, S, leads))
      BY <2>1, FigureParts
    <3>4. QED BY <3>1, <3>2, <3>3
  <2>2. CASE g # f
    BY <1>5, <1>8, <1>14, <2>2 DEF NumberOf
  <2>3. QED BY <2>1, <2>2
<1>17. ASSUME NEW g \in {"statuses", "districts"}
       PROVE  SumOf(w, g) = SumOf(v, g)
  <2>1. CASE g = f
    <3>1. SumOf(w, g) = Views!Total(Views!Figure(f, S, v.who, v.filter))
      BY <1>8, <1>14, <2>1 DEF SumOf
    <3>2. SumOf(v, g) = Cardinality(S)
      BY <1>5, <1>13, <2>1 DEF SumOf
    <3>3. Views!Total(Views!Figure(f, S, v.who, v.filter)) = Cardinality(S)
      BY <1>6, <2>1, FigureTotals
    <3>4. QED BY <3>1, <3>2, <3>3
  <2>2. CASE g # f
    BY <1>5, <1>8, <1>14, <2>2 DEF SumOf
  <2>3. QED BY <2>1, <2>2
<1>18. Assigned(w) = Assigned(v)
  <2>1. CASE "assigned" = f
    <3>1. Assigned(w) = Views!Total(Views!Figure("assigned", S, v.who, v.filter))
      BY <1>8, <1>14, <2>1 DEF Assigned
    <3>2. Assigned(v) = Cardinality(Part("sum", Views!Nobody, S, leads))
      BY <1>5, <1>13, <2>1 DEF Assigned
    <3>3. QED BY <1>6, <3>1, <3>2, FigureTotals
  <2>2. CASE "assigned" # f
    BY <1>5, <1>8, <1>14, <2>2 DEF Assigned
  <2>3. QED BY <2>1, <2>2
<1>19. (DashboardOK(v) => DashboardOK(w)) /\ (ReportOK(v) => ReportOK(w))
  <2>1. SumOf(w, "statuses") = SumOf(v, "statuses") /\ SumOf(w, "districts") = SumOf(v, "districts")
    BY <1>17
  <2>2. \A e \in Executives : /\ NumberOf(w, "assigned", e) = NumberOf(v, "assigned", e)
                              /\ NumberOf(w, "active", e) = NumberOf(v, "active", e)
                              /\ NumberOf(w, "terminal", e) = NumberOf(v, "terminal", e)
    BY <1>15
  <2>3. \A d \in Districts : /\ NumberOf(w, "districts", d) = NumberOf(v, "districts", d)
                             /\ NumberOf(w, "completed", d) = NumberOf(v, "completed", d)
    BY <1>16
  <2>4. DashboardOK(v) => DashboardOK(w)
    BY <1>14, <2>1, <2>2 DEF DashboardOK
  <2>5. ReportOK(v) => ReportOK(w)
    BY <1>14, <1>18, <2>1, <2>3 DEF ReportOK
  <2>6. QED BY <2>4, <2>5
<1>20. ViewOK(w)
  BY <1>3, <1>4, <1>13, <1>14, <1>19 DEF ViewOK
<1>21. QED BY <1>2, <1>11, <1>20, NextScreen

-----------------------------------------------------------------------------
(* The invariant and what follows from it *)

LEMMA ViewsInit ==
  ASSUME Views!Init
  PROVE  ViewsInv
<1>1. leads = Stock /\ recent = {pr \in Views!Live \X Views!Live : pr[1] > pr[2]} /\ active = Executives
      /\ view = Views!Closed /\ session = Views!Nobody /\ cache = [e \in Executives |-> Views!NoList]
             /\ act = Views!NoAct
  BY DEF Views!Init
<1>2. leads \in Seq(Views!Lead \cup {Views!NoLead})
  <2>1. Stock \in Seq(Views!Lead)
    BY Sizes
  <2>2. QED BY <1>1, <2>1
<1>3. Views!Live \subseteq Nat
  <2>1. Views!Ids = 1 .. Len(leads)
    BY <1>2 DEF Views!Ids
  <2>2. QED BY <2>1 DEF Views!Live
<1>4. Orders(recent, Views!Live)
  <2>1. \A x, y \in Views!Live : <<x, y>> \in recent <=> x > y
    BY <1>1
  <2>2. QED BY <1>3, <2>1 DEF Orders
<1>5. LeadsTyped
  BY <1>1, <1>2, <1>4 DEF LeadsTyped
<1>6. CacheOK
  <2>1. ASSUME NEW e \in Executives
        PROVE  cache[e] = [rows |-> cache[e].rows, drift |-> cache[e].drift] /\ KeptOK(e, cache[e])
    <3>1. cache[e] = [rows |-> {}, drift |-> 0]
      BY <1>1 DEF Views!NoList
    <3>2. cache[e].rows = {} /\ cache[e].drift = 0
      BY <3>1
    <3>3. QED BY <3>1, <3>2, None DEF KeptOK
  <2>2. cache = [e \in Executives |-> cache[e]]
    BY <1>1
  <2>3. cache = [e \in Executives |-> [rows |-> cache[e].rows, drift |-> cache[e].drift]]
    BY <2>1, <2>2
  <2>4. QED BY <1>1, <2>1, <2>3 DEF CacheOK
<1>7. QED BY <1>1, <1>5, <1>6 DEF ViewsInv, ScreenOK, ActOK

LEMMA ViewsStep ==
  ASSUME ViewsInv, [Views!Next]_Views!vars
  PROVE  ViewsInv'
<1>1. LeadsTyped /\ ScreenOK /\ CacheOK /\ ActOK
  BY DEF ViewsInv
<1>2. ASSUME UNCHANGED <<leads, recent, active, managed, cache, session, late>>
      PROVE  LeadsTyped' /\ CacheOK'
  <2>1. active' \subseteq Executives
    BY <1>1, <1>2 DEF LeadsTyped
  <2>2. LeadsTyped'
    BY <1>1, <1>2, <2>1, SameLeads
  <2>3. session' \in Executives \cup {Views!Nobody}
    BY <1>1, <1>2 DEF CacheOK
  <2>4. CacheOK'
    BY <1>1, <1>2, <2>3, SameCache
  <2>5. QED BY <2>2, <2>4
<1>3. ASSUME UNCHANGED <<leads, act>>
      PROVE  ActOK'
  BY <1>1, <1>3 DEF ActOK, Asked, Views!Ids, Views!NoAct
<1>4. CASE Views!Changing
  <2>1. LeadsTyped' /\ Len(leads) <= Len(leads') /\ Views!Drift /\ Views!Overtake /\ Views!Age
            /\ UNCHANGED <<session, late>>
    BY <1>1, <1>4, ChangingKeeps
  <2>2. ScreenOK'
    BY <1>1, <2>1, ScreenDrifts
  <2>3. ActOK'
    BY <1>1, <2>1, ActDrifts
  <2>4. CacheOK'
    BY <1>1, <2>1, CacheAges
  <2>5. QED BY <2>1, <2>2, <2>3, <2>4 DEF ViewsInv
<1>5. ASSUME NEW kind, NEW who, NEW filter, NEW todo, Views!Open(kind, who, filter, todo),
             \/ kind = "list" /\ who = session /\ who # Views!Nobody /\ who \in Executives
                    /\ filter = Views!Own(who)
             \/ kind \in {"home", "page"}
             \/ kind \in {"dashboard", "report"} /\ todo = Views!Rounds(kind)[1]
      PROVE  ViewsInv'
  <2>1. UNCHANGED <<leads, recent, active, managed, cache, session, late, act>>
    BY <1>5 DEF Views!Open
  <2>2. ScreenOK'
    BY <1>1, <1>5, Opened
  <2>3. QED BY <1>2, <1>3, <2>1, <2>2 DEF ViewsInv
<1>6. CASE Views!OpenList
  <2>1. Views!Open("list", session, Views!Own(session), {}) /\ session # Views!Nobody
    BY <1>6 DEF Views!OpenList
  <2>2. session \in Executives
    BY <1>1, <2>1 DEF CacheOK
  <2>3. QED BY <1>5, <2>1, <2>2
<1>7. CASE Views!OpenHome
  <2>1. Views!Open("home", session, [exec |-> Views!All, district |-> Views!All], {})
    BY <1>7 DEF Views!OpenHome
  <2>2. QED BY <1>5, <2>1
<1>8. CASE Views!OpenPage
  <2>1. PICK who, filter : Views!Open("page", who, filter, {})
    BY <1>8 DEF Views!OpenPage
  <2>2. QED BY <1>5, <2>1
<1>9. CASE \E kind \in {"dashboard", "report"} : Views!OpenGather(kind)
  <2>1. PICK kind \in {"dashboard", "report"} : Views!OpenGather(kind)
    BY <1>9
  <2>2. PICK who, filter : Views!Open(kind, who, filter, Views!Rounds(kind)[1])
    BY <2>1 DEF Views!OpenGather
  <2>3. QED BY <1>5, <2>2
<1>10. ASSUME ScreenOK', UNCHANGED <<leads, recent, active, managed, cache, session, late, act>>
       PROVE  ViewsInv'
  BY <1>2, <1>3, <1>10 DEF ViewsInv
<1>11. CASE Views!ReadPage
  <2>1. UNCHANGED <<leads, recent, active, managed, cache, session, late, act>>
    BY <1>11 DEF Views!ReadPage, Views!Reads
  <2>2. QED BY <1>1, <1>10, <1>11, <2>1, PageRead
<1>12. CASE Views!PageFails
  <2>1. UNCHANGED <<leads, recent, active, managed, cache, session, late, act>>
    BY <1>12 DEF Views!PageFails, Views!Reads
  <2>2. QED BY <1>1, <1>10, <1>12, <2>1, PageFailed
<1>13. CASE Views!ShowCached
  <2>1. UNCHANGED <<leads, recent, active, managed, cache, session, late, act>>
    BY <1>13 DEF Views!ShowCached, Views!Reads
  <2>2. QED BY <1>1, <1>10, <1>13, <2>1, CachedShown
<1>14. CASE Views!HomeFails
  <2>1. UNCHANGED <<leads, recent, active, managed, cache, session, late, act>>
    BY <1>14 DEF Views!HomeFails, Views!Reads
  <2>2. QED BY <1>1, <1>10, <1>14, <2>1, HomeFailed
<1>15. CASE Views!ReadHome
  <2>1. UNCHANGED <<leads, recent, active, managed, cache, session, late, act>>
    BY <1>15 DEF Views!ReadHome, Views!Reads
  <2>2. QED BY <1>1, <1>10, <1>15, <2>1, HomeRead
<1>16. CASE Views!ReadPortalPage
  <2>1. UNCHANGED <<leads, recent, active, managed, cache, session, late, act>>
    BY <1>16 DEF Views!ReadPortalPage, Views!Reads
  <2>2. QED BY <1>1, <1>10, <1>16, <2>1, PortalPageRead
<1>17. ASSUME NEW f, Views!Answer(f)
       PROVE  ViewsInv'
  <2>1. UNCHANGED <<leads, recent, active, managed, cache, session, late, act>>
    BY <1>17 DEF Views!Answer, Views!Reads
  <2>2. ScreenOK'
    BY <1>1, <1>17, Answered
  <2>3. QED BY <1>10, <2>1, <2>2
<1>18. CASE Views!ShowList
  <2>1. UNCHANGED <<leads, recent, active, session, late, act>>
    BY <1>18 DEF Views!ShowList, Views!Reads
  <2>2. ScreenOK' /\ CacheOK'
    BY <1>1, <1>18, ListShown
  <2>3. LeadsTyped'
    BY <1>1, <2>1, SameLeads DEF LeadsTyped
  <2>4. QED BY <1>3, <2>1, <2>2, <2>3 DEF ViewsInv
<1>19. CASE Views!SignOut
  <2>1. UNCHANGED <<leads, recent, active, act>>
    BY <1>19 DEF Views!SignOut
  <2>2. ScreenOK' /\ CacheOK'
    BY <1>1, <1>19, SignedOut DEF Views!SignOut
  <2>3. LeadsTyped'
    BY <1>1, <2>1, SameLeads DEF LeadsTyped
  <2>4. QED BY <1>3, <2>1, <2>2, <2>3 DEF ViewsInv
<1>20. CASE Views!SignIn
  <2>1. UNCHANGED <<leads, recent, active, view, cache, late, act>> /\ view = Views!Closed
            /\ session = Views!Nobody
    BY <1>1, <1>20 DEF Views!SignIn, Views!IsOpen, ScreenOK, ViewOK, Shape, Views!Closed
  <2>2. ScreenOK'
    BY <2>1 DEF ScreenOK, Views!Closed
  <2>3. CacheOK'
    <3>1. session' \in Executives \cup {Views!Nobody} /\ UNCHANGED managed
      BY <1>20, ViewsAssumption DEF Views!SignIn
    <3>2. QED BY <1>1, <2>1, <3>1, SameCache
  <2>4. LeadsTyped'
    BY <1>1, <2>1, SameLeads DEF LeadsTyped
  <2>5. QED BY <1>3, <2>1, <2>2, <2>3, <2>4 DEF ViewsInv
<1>21. CASE Views!Close
  <2>1. UNCHANGED <<leads, recent, active, managed, cache, session, late, act>> /\ view' = Views!Closed
    BY <1>21 DEF Views!Close
  <2>2. ScreenOK'
    BY <2>1 DEF ScreenOK, Views!Closed
  <2>3. QED BY <1>10, <2>1, <2>2
<1>22. ASSUME ActOK', UNCHANGED <<leads, recent, active, managed, view, cache, session, late>>
       PROVE  ViewsInv'
  <2>1. ScreenOK'
    BY <1>1, <1>22, SameScreen
  <2>2. QED BY <1>2, <1>22, <2>1 DEF ViewsInv
<1>23. CASE \E l \in Views!Ids : Views!PageAssign(l) \/ Views!PageMove(l) \/ Views!PageDelete(l)
  <2>1. PICK l \in Views!Ids : Views!PageAssign(l) \/ Views!PageMove(l) \/ Views!PageDelete(l)
    BY <1>23
  <2>2. ActOK' /\ UNCHANGED <<leads, recent, active, managed, view, session, cache, late>>
    BY <1>1, <2>1, PageActs
  <2>3. QED BY <1>22, <2>2
<1>24. CASE Views!ServerReads
  <2>1. UNCHANGED <<leads, recent, active, managed, view, session, cache, late>>
    BY <1>24 DEF Views!ServerReads
  <2>2. QED BY <1>1, <1>22, <1>24, <2>1, ServerReadsOK
<1>25. CASE Views!ServerRefuses
  <2>1. act' = Views!NoAct /\ UNCHANGED <<leads, recent, active, managed, view, session, cache, late>>
    BY <1>25 DEF Views!ServerRefuses
  <2>2. ActOK'
    BY <2>1 DEF ActOK, Views!NoAct
  <2>3. QED BY <1>22, <2>1, <2>2
<1>26. CASE Views!ServerWrites
  <2>1. act.pc = "checked" /\ act' = Views!NoAct /\ Views!Write(act.lead, Views!Written(leads[act.lead]))
    BY <1>26 DEF Views!ServerWrites
  <2>2. leads[act.lead] # Views!NoLead
    BY <2>1 DEF Views!Write
  <2>3. act.lead \in Views!Ids /\ Views!Written(leads[act.lead]) \in Views!Lead \cup {Views!NoLead}
    BY <1>1, <2>1, <2>2, WrittenTyped
  <2>4. LeadsTyped' /\ Len(leads) <= Len(leads') /\ Views!Drift /\ Views!Age /\ UNCHANGED <<session, late>>
    BY <1>1, <2>1, <2>3, WriteKeeps
  <2>5. ScreenOK'
    BY <1>1, <2>4, ScreenDrifts
  <2>6. ActOK'
    BY <2>1 DEF ActOK, Views!NoAct
  <2>7. CacheOK'
    BY <1>1, <2>4, CacheAges
  <2>8. QED BY <2>4, <2>5, <2>6, <2>7 DEF ViewsInv
<1>27. CASE UNCHANGED Views!vars
  <2>1. UNCHANGED <<leads, recent, active, managed, view, session, cache, late, act>>
    BY <1>27 DEF Views!vars
  <2>2. ActOK'
    BY <1>3, <2>1
  <2>3. QED BY <1>22, <2>1, <2>2
<1>28. CASE Views!Screens
  <2>1. \/ Views!OpenList \/ Views!ReadPage \/ Views!PageFails \/ Views!ShowList \/ Views!ShowCached
        \/ Views!OpenHome \/ Views!ReadHome \/ Views!HomeFails \/ Views!OpenPage \/ Views!ReadPortalPage
        \/ (\E l \in Views!Ids : Views!PageAssign(l) \/ Views!PageMove(l) \/ Views!PageDelete(l))
        \/ Views!ServerReads \/ Views!ServerWrites \/ Views!ServerRefuses
        \/ (\E kind \in {"dashboard", "report"} : Views!OpenGather(kind))
        \/ (\E f : Views!Answer(f))
        \/ Views!Close \/ Views!SignIn \/ Views!SignOut
    BY <1>28 DEF Views!Screens
  <2>2. QED
    BY <1>6, <1>7, <1>8, <1>9, <1>11, <1>12, <1>13, <1>15, <1>16, <1>17, <1>18, <1>19, <1>20, <1>21,
       <1>23, <1>24, <1>25, <1>26, <1>14, <2>1
<1>29. QED BY <1>4, <1>27, <1>28 DEF Views!Next

LEMMA AbsWithin ==
  ASSUME NEW m, NEW n, NEW d \in Nat, Within(m, n, d)
  PROVE  Views!Abs(m, n) <= d
BY DEF Within, Views!Abs

LEMMA ListLags ==
  ASSUME ViewsInv, Views!Shown("list")
  PROVE  LET mine == Views!Matching(view.who, view.filter) IN
         /\ view.how = "whole" => Cardinality(view.steady \ view.rows) <= view.drift
         /\ Cardinality(view.rows \ mine) <= view.drift
<1>1. view.kind = "list" /\ view.pc = "shown"
  BY DEF Views!Shown
<1>2. ListOK(view)
  BY <1>1 DEF ViewsInv, ScreenOK, ViewOK, Views!Closed
<1>3. QED BY <1>1, <1>2 DEF ListOK, Matched

LEMMA HomeLags ==
  ASSUME ViewsInv, Views!Shown("home"), view.how = "whole"
  PROVE  LET mine == Views!Matching(view.who, view.filter)
             urgent == {l \in mine : leads[l].overdue /\ leads[l].status \notin Views!Terminal}
             beyond == Cardinality(mine) - Cardinality(Views!Latest(view.who))
         IN Views!Abs(view.overdue, Cardinality(urgent)) <= view.drift + beyond
<1>1. view.kind = "home" /\ view.pc = "shown"
  BY DEF Views!Shown
<1>2. HomeOK(view) /\ Shape(view)
  BY <1>1 DEF ViewsInv, ScreenOK, ViewOK, Views!Closed
<1>3. PICK S : S = Matched(view) /\ S = Views!Matching(view.who, view.filter)
  BY DEF Matched
<1>4. IsFiniteSet(S)
  BY <1>3, MineIs DEF ViewsInv
<1>5. PICK L : L = Views!Latest(view.who)
  OBVIOUS
<1>6. L = {l \in S : Rank(recent, S, l) < HomeCap}
  BY <1>3, <1>5, SameSizes DEF Views!Latest, Rank, Ahead
<1>7. PICK O : O = Beyond(view)
  OBVIOUS
<1>8. S \cap L = L /\ S \ L = O
  <2>1. \A l : Rank(recent, S, l) \in Nat
    BY <1>4, RankNat
  <2>2. \A l \in S : ~ (Rank(recent, S, l) < HomeCap) <=> Rank(recent, S, l) >= HomeCap
    BY <2>1, Sizes
  <2>3. O = {l \in S : Rank(recent, S, l) >= HomeCap}
    BY <1>3, <1>7 DEF Beyond
  <2>4. QED BY <1>6, <2>2, <2>3
<1>9. Cardinality(S) = Cardinality(L) + Cardinality(O) /\ Cardinality(L) \in Nat /\ Cardinality(O) \in Nat
  <2>1. Cardinality(S) = Cardinality(S \cap L) + Cardinality(S \ L)
        /\ Cardinality(S \cap L) \in Nat /\ Cardinality(S \ L) \in Nat
    BY <1>4, Parted
  <2>2. QED BY <1>8, <2>1
<1>10. PICK U : U = Urgent(view) /\ U = {l \in S : leads[l].overdue /\ leads[l].status \notin Views!Terminal}
  BY <1>3 DEF Urgent
<1>11. Cardinality(U) \in Nat
  BY <1>4, <1>10, Finite
<1>12. view.overdue \in Nat /\ view.drift \in Nat
       /\ view.overdue <= Cardinality(U) + view.drift
       /\ Cardinality(U) <= view.overdue + view.drift + Cardinality(O)
  BY <1>1, <1>2, <1>7, <1>10 DEF HomeOK, Shape
<1>13. Cardinality(S) - Cardinality(L) = Cardinality(O)
  BY <1>9
<1>14. Views!Abs(view.overdue, Cardinality(U)) <= view.drift + Cardinality(O)
  <2>1. \A m, u, d, o \in Nat : m <= u + d /\ u <= m + d + o => Views!Abs(m, u) <= d + o
    BY DEF Views!Abs
  <2>2. QED BY <1>9, <1>11, <1>12, <2>1
<1>15. QED BY <1>3, <1>5, <1>10, <1>13, <1>14

LEMMA FiguresAgree ==
  ASSUME ViewsInv
  PROVE  Views!GapsAreCounted
<1>1. PICK v : v = view
  OBVIOUS
<1>2. ASSUME Views!Shown("dashboard")
      PROVE  /\ Views!Abs(Views!Total(v.got["statuses"]), Views!Total(v.got["districts"])) <= v.drift
             /\ \A e \in v.got["executives"] :
                  Views!Abs(v.got["assigned"][e], v.got["active"][e] + v.got["terminal"][e]) <= v.drift
  <2>1. v.kind = "dashboard" /\ v.pc = "shown"
    BY <1>1, <1>2 DEF Views!Shown
  <2>2. Shape(v) /\ RoundsOK(v) /\ DashboardOK(v)
    BY <1>1, <2>1 DEF ViewsInv, ScreenOK, ViewOK, Views!Closed
  <2>3. Views!Rounds(v.kind)[1] \subseteq DOMAIN v.got
    BY <2>1, <2>2 DEF RoundsOK, Views!Rounds
  <2>4. {"statuses", "districts", "executives", "assigned", "active", "terminal"} \subseteq DOMAIN v.got
    BY <2>1, <2>3 DEF Views!Rounds
  <2>5. v.drift \in Nat
    BY <2>2 DEF Shape
  <2>6. Within(Views!Total(v.got["statuses"]), Views!Total(v.got["districts"]), v.drift)
    BY <2>2, <2>4 DEF DashboardOK, SumOf
  <2>7. \A e \in Executives : Within(v.got["assigned"][e], v.got["active"][e] + v.got["terminal"][e], v.drift)
    BY <2>2, <2>4 DEF DashboardOK, NumberOf
  <2>8. v.got["executives"] \subseteq Executives
    BY <2>2, <2>4 DEF RoundsOK
  <2>9. Views!Abs(Views!Total(v.got["statuses"]), Views!Total(v.got["districts"])) <= v.drift
    BY <2>5, <2>6, AbsWithin
  <2>10. QED BY <2>5, <2>7, <2>8, <2>9, AbsWithin
<1>3. ASSUME Views!Shown("report")
      PROVE  /\ Views!Abs(Views!Total(v.got["statuses"]), Views!Total(v.got["districts"])) <= v.drift
             /\ \A d \in Districts : v.got["completed"][d] <= v.got["districts"][d] + v.drift
             /\ Views!Total(v.got["assigned"]) <= Views!Total(v.got["districts"]) + v.drift
  <2>1. v.kind = "report" /\ v.pc = "shown"
    BY <1>1, <1>3 DEF Views!Shown
  <2>2. Shape(v) /\ RoundsOK(v) /\ ReportOK(v)
    BY <1>1, <2>1 DEF ViewsInv, ScreenOK, ViewOK, Views!Closed
  <2>3. Views!Rounds(v.kind)[1] \subseteq DOMAIN v.got /\ Views!Rounds(v.kind)[2] \subseteq DOMAIN v.got
        /\ Views!Rounds(v.kind)[4] \subseteq DOMAIN v.got
    BY <2>1, <2>2 DEF RoundsOK, Views!Rounds
  <2>4. {"statuses", "districts", "completed", "assigned"} \subseteq DOMAIN v.got
    BY <2>1, <2>3 DEF Views!Rounds
  <2>5. v.drift \in Nat
    BY <2>2 DEF Shape
  <2>6. Within(Views!Total(v.got["statuses"]), Views!Total(v.got["districts"]), v.drift)
    BY <2>2, <2>4 DEF ReportOK, SumOf
  <2>7. Views!Abs(Views!Total(v.got["statuses"]), Views!Total(v.got["districts"])) <= v.drift
    BY <2>5, <2>6, AbsWithin
  <2>8. \A d \in Districts : v.got["completed"][d] <= v.got["districts"][d] + v.drift
    BY <2>2, <2>4 DEF ReportOK, NumberOf
  <2>9. Views!Total(v.got["assigned"]) <= Views!Total(v.got["districts"]) + v.drift
    BY <2>2, <2>4 DEF ReportOK, Assigned, SumOf
  <2>10. QED BY <2>7, <2>8, <2>9
<1>4. QED BY <1>1, <1>2, <1>3 DEF Views!GapsAreCounted

LEMMA ScreensAreNear ==
  ASSUME ViewsInv
  PROVE  Views!ScreensLagByDrift
<1>1. Views!ListLagsByDrift
  BY ListLags, SameSizes DEF Views!ListLagsByDrift
<1>2. Views!HomeLagsByDrift
  BY HomeLags, SameSizes DEF Views!HomeLagsByDrift
<1>3. Views!CacheOfSignedOut
  BY DEF ViewsInv, CacheOK, KeptOK, Views!CacheOfSignedOut
<1>4. QED BY <1>1, <1>2, <1>3 DEF Views!ScreensLagByDrift

\* What a handler writes after its check, it writes on what it has read or on
\* what is noted as changed under it.
BlindStep ==
  LET lead == leads[act.lead] IN
  Views!ServerWrites =>
    \/ act.raced
    \/ /\ act.what = "assign" => lead.exec = Views!Nobody
       /\ act.what = "move" => lead.status \notin Views!Terminal

LEMMA BlindStepOK ==
  ASSUME ViewsInv
  PROVE  BlindStep
<1>1. ASSUME Views!ServerWrites, ~ act.raced
      PROVE  /\ act.what = "assign" => leads[act.lead].exec = Views!Nobody
             /\ act.what = "move" => leads[act.lead].status \notin Views!Terminal
  <2>1. act.pc = "checked"
    BY <1>1 DEF Views!ServerWrites
  <2>2. Asked(act)
    BY <2>1 DEF ViewsInv, ActOK, Views!NoAct
  <2>3. QED BY <1>1, <2>1, <2>2 DEF Asked
<1>2. QED BY <1>1 DEF BlindStep

\* Every state satisfies the inductive invariant.
LEMMA ViewsKept == ViewsSpec => []ViewsInv
<1>1. Views!Init => ViewsInv
  BY ViewsInit
<1>2. ViewsInv /\ [Views!Next]_Views!vars => ViewsInv'
  BY ViewsStep
<1>3. QED BY <1>1, <1>2, PTL DEF ViewsSpec, Views!Spec

\* The list of the mobile app, from the server or from the device, and the home
\* screen, unless its last read failed, lag behind the leads by no more than what
\* changed since they were read, whatever came between two pages;
\* what is cached for a user who is signed out was read while he signed out.
THEOREM ScreensLag == ViewsSpec => []ScreensLagByDrift
<1>1. ViewsInv => ScreensLagByDrift
  BY ScreensAreNear DEF ScreensLagByDrift
<1>2. QED BY <1>1, ViewsKept, PTL

\* The figures of one dashboard or report, which come from queries of several
\* rounds, contradict each other by no more leads than changed meanwhile.
THEOREM GapsCounted == ViewsSpec => []GapsAreCounted
<1>1. ViewsInv => GapsAreCounted
  BY FiguresAgree DEF GapsAreCounted
<1>2. QED BY <1>1, ViewsKept, PTL

\* A user of the portal who acts on an old row replaces an executive unasked, or
\* moves a lead out of a terminal status without a reason, only when the lead
\* changed between the check of the handler and its write.
THEOREM BlindRaced == ViewsSpec => BlindActsWereRaced
<1>1. ViewsInv => BlindStep
  BY BlindStepOK
<1>2. BlindStep => [LET lead == leads[act.lead] IN
        Views!ServerWrites =>
          \/ act.raced
          \/ /\ act.what = "assign" => lead.exec = Views!Nobody
             /\ act.what = "move" => lead.status \notin Views!Terminal]_Views!vars
  BY DEF BlindStep
<1>3. QED BY <1>1, <1>2, ViewsKept, PTL DEF BlindActsWereRaced, Views!BlindActsWereRaced
=============================================================================
