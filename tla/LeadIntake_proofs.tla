-------------------------- MODULE LeadIntake_proofs --------------------------
(***************************************************************************)
(* Proofs about LeadIntake for every number of requests, staff, districts, *)
(* connections and edits: type correctness, where responsibles come from,  *)
(* what a deactivation leaves behind, and how far automatic assignment can *)
(* exceed the cap.                                                         *)
(***************************************************************************)
EXTENDS LeadIntake, FiniteSetTheorems, SequenceTheorems, TLAPS

-----------------------------------------------------------------------------
(* The inductive invariant *)

Was(u, d) == <<u, d>> \in everStaff
Named(q, u) == u \in {q.exec, q.mgr}

PcOK(q) ==
  /\ q.kind = "none" <=> q.pc = "idle"
  /\ q.kind \in CreateKinds =>
       q.pc \in {"save", "begin", "lock", "manager", "executive", "lookup", "write", "tell"}
  /\ q.kind \in AssignKinds =>
       q.pc \in {"checkExec", "checkManager", "begin", "lookup", "write"}
  /\ q.kind = "deactivate" => q.pc = "drop"
  /\ q.kind = "remove" => q.pc \in {"unmap", "drop"}

\* Whom a creation has picked was mapped to its district.
CreateOK(q) ==
  q.kind \in CreateKinds =>
    /\ q.pc # "tell" => q.district \in Districts
    /\ q.pc \in {"save", "begin", "lock", "manager", "tell"} => q.exec = None /\ q.mgr = None
    /\ q.pc = "executive" => q.exec = None
    /\ q.pc = "lookup" => q.exec # None
    /\ q.exec # None => Was(q.exec, q.district)
    /\ q.mgr # None => Was(q.mgr, q.district)

\* Whom a manual assignment has checked was mapped to the district that its
\* lead had when it was read.
AssignOK(q) ==
  q.kind \in AssignKinds =>
    /\ q.row \in DOMAIN leads /\ q.district \in leads[q.row].places
    /\ q.exec # None
    /\ q.pc = "checkManager" => q.mgr # None
    /\ q.pc # "checkExec" => Was(q.exec, q.district)
    /\ q.pc \notin {"checkExec", "checkManager"} /\ q.mgr # None => Was(q.mgr, q.district)

NamesNobody(q) == q.kind \in {"none", "remove"} => q.exec = None /\ q.mgr = None

ReqOK(q) == PcOK(q) /\ CreateOK(q) /\ AssignOK(q) /\ NamesNobody(q)

\* A creation holds the lock of its district from its first count to its
\* commit, and nobody else holds one.
Locking == {"manager", "executive", "lookup", "write"}
Holds(q) == q.kind \in CreateKinds /\ q.pc \in Locking
LockOK ==
  /\ \A d \in Districts : lock[d] # None => Holds(req[lock[d]]) /\ req[lock[d]].district = d
  /\ \A r \in Requests : Holds(req[r]) => lock[req[r].district] = r

\* A request that will give u a lead has seen that u is active.
Confirmed(q, u) ==
  \/ q.kind \in CreateKinds /\ Named(q, u)
  \/ q.kind \in AssignKinds /\ u = q.exec /\ q.pc # "checkExec"
  \/ q.kind \in AssignKinds /\ u = q.mgr /\ q.pc \notin {"checkExec", "checkManager"}

\* Of a user no request raced about: a deactivation is alone with the user and
\* its count is still true, and whoever is to get a lead is not deactivated.
UserOK(u) ==
  /\ status[u] = "DEACTIVATED" => LeadsOf(u) = {}
  /\ \A r \in Requests : Confirmed(req[r], u) => status[u] # "DEACTIVATED"
  /\ \A r \in Requests :
        req[r].kind = "deactivate" /\ Named(req[r], u) =>
           LeadsOf(u) = {} /\ \A q \in Requests \ {r} : ~ Named(req[q], u)

\* The creations that will give e a lead, and the leads that others gave e.
Picked(q, e) == q.kind \in CreateKinds /\ q.exec = e
Pending(e) == {r \in Requests : Picked(req[r], e)}
Automatic(e) == {i \in LeadsOf(e) : leads[i].origin # None}
Places(e) == {d \in Districts : Was(e, d)}

CapOK(e) ==
  Automatic(e) # {} \/ Pending(e) # {} =>
    Cardinality(Automatic(e)) + Cardinality(Pending(e)) < Cap + Cardinality(Places(e))

\* The places of a lead are what they are called: it is in one of them.
InPlace == \A i \in DOMAIN leads : leads[i].district \in leads[i].places

IInv ==
  /\ TypeOK /\ ResponsiblesWereMapped /\ InPlace
  /\ \A r \in Requests : ReqOK(req[r])
  /\ LockOK
  /\ \A u \in Users \ raced : UserOK(u)
  /\ \A e \in Executives : CapOK(e)

-----------------------------------------------------------------------------
(* What the invariant knows of one request *)

LEMMA IdleTyped == IdleReq \in Request
BY DEF IdleReq, Request

LEMMA ReqKnown ==
  ASSUME IInv, NEW r \in Requests
  PROVE  /\ TypeOK /\ req \in [Requests -> Request] /\ req[r] \in Request
         /\ ReqOK(req[r]) /\ LockOK
BY DEF IInv, TypeOK

LEMMA LeadsTyped ==
  ASSUME TypeOK
  PROVE  /\ leads \in Seq(Lead) /\ Len(leads) \in Nat /\ DOMAIN leads = 1 .. Len(leads)
         /\ \A i \in DOMAIN leads : leads[i] \in Lead
<1>1. leads \in Seq(Lead)
  BY DEF TypeOK
<1>2. Len(leads) \in Nat /\ DOMAIN leads = 1 .. Len(leads)
  BY <1>1, LenProperties
<1>3. QED BY <1>1, <1>2, ElementOfSeq

LEMMA LeadsFinite ==
  ASSUME TypeOK, NEW S \in SUBSET DOMAIN leads
  PROVE  IsFiniteSet(S) /\ Cardinality(S) \in Nat
<1>1. IsFiniteSet(DOMAIN leads)
  BY LeadsTyped, FS_Interval
<1>2. QED BY <1>1, FS_Subset, FS_CardinalityType

LEMMA PendingFinite ==
  \A e : /\ IsFiniteSet(Pending(e)) /\ Cardinality(Pending(e)) \in Nat
         /\ IsFiniteSet(Places(e)) /\ Cardinality(Places(e)) \in Nat
BY IntakeAssumption, FS_Subset, FS_CardinalityType DEF Pending, Places

Orderly == TypeOK /\ LockOK /\ \A r \in Requests : ReqOK(req[r])

\* The creations that have picked e are ordered by the locks of its districts:
\* there is at most one for each.
LEMMA PendingBound ==
  Orderly => \A e \in Executives : Cardinality(Pending(e)) <= Cardinality(Places(e))
<1> SUFFICES ASSUME Orderly, NEW e \in Executives
             PROVE  Cardinality(Pending(e)) <= Cardinality(Places(e))
  OBVIOUS
<1>1. ASSUME NEW r \in Pending(e)
      PROVE  /\ req[r].district \in Places(e) /\ lock[req[r].district] = r
  <2>1. r \in Requests /\ req[r].kind \in CreateKinds /\ req[r].exec = e /\ e # None
    BY IntakeAssumption DEF Pending, Picked, Users
  <2>2. ReqOK(req[r])
    BY <2>1 DEF Orderly
  <2>3. Was(e, req[r].district) /\ req[r].district \in Districts /\ Holds(req[r])
    BY <2>1, <2>2 DEF ReqOK, CreateOK, PcOK, Holds, Locking
  <2>4. QED BY <2>1, <2>3 DEF Orderly, LockOK, Places
<1> DEFINE D == {d \in Places(e) : lock[d] \in Pending(e)}
           f == [d \in D |-> lock[d]]
<1>2. f \in Surjection(D, Pending(e))
  BY <1>1 DEF Surjection
<1>3. IsFiniteSet(D) /\ Cardinality(D) <= Cardinality(Places(e)) /\ Cardinality(D) \in Nat
  BY PendingFinite, FS_Subset, FS_CardinalityType
<1>4. Cardinality(Pending(e)) <= Cardinality(D)
  BY <1>2, <1>3, FS_Surjection
<1>5. QED BY <1>3, <1>4, PendingFinite

-----------------------------------------------------------------------------
(* Steps that leave leads, mappings and users alone *)

Steady ==
  /\ leads' = leads /\ everStaff' = everStaff /\ status' = status
  /\ staff' \subseteq staff /\ present' \subseteq present
  /\ submissions' \in Seq({"pending", "noted"})
  /\ raced \subseteq raced' /\ raced' \subseteq Users
  /\ lock' \in [Districts -> Nobody]
  /\ manual' \in 0 .. MaxManual /\ edits' \in 0 .. MaxEdits

\* Request r goes on as n: what n has to be.
LEMMA QuietStep ==
  ASSUME IInv, NEW r \in Requests, NEW n \in Request,
         req' = [req EXCEPT ![r] = n], Steady, LockOK', ReqOK(n),
         \A u \in Users \ raced' :
            /\ Confirmed(n, u) => status[u] # "DEACTIVATED"
            /\ n.kind = "deactivate" /\ Named(n, u) =>
                 LeadsOf(u) = {} /\ \A q \in Requests \ {r} : ~ Named(req[q], u)
            /\ Named(n, u) =>
                 \A q \in Requests \ {r} : ~ (req[q].kind = "deactivate" /\ Named(req[q], u)),
         \A e \in Executives : Picked(n, e) => Picked(req[r], e) \/ Load(e) < Cap
  PROVE  IInv'
<1>1. TypeOK /\ req \in [Requests -> Request] /\ lock' \in [Districts -> Nobody]
  BY DEF IInv, TypeOK, Steady
<1>2. \A q \in Requests : req'[q] = IF q = r THEN n ELSE req[q]
  BY <1>1
<1>3. \A q \in Requests : ReqOK(req'[q])
  BY <1>2 DEF IInv
<1>4. (\A q \in Requests : ReqOK(req[q]))'
  BY <1>3 DEF Steady, ReqOK, PcOK, CreateOK, AssignOK, NamesNobody, Was
<1>5. TypeOK'
  <2>1. req' \in [Requests -> Request]
    BY <1>1
  <2>2. ASSUME NEW d \in Districts, lock'[d] # None
        PROVE  InTransaction(lock[d])' /\ req'[lock'[d]].district = d
    BY <2>2 DEF LockOK, Holds, Locking, InTransaction
  <2>3. QED BY <2>1, <2>2 DEF TypeOK, Steady, IInv
<1>6. ResponsiblesWereMapped' /\ InPlace'
  BY DEF IInv, ResponsiblesWereMapped, InPlace, Steady
<1>7. (\A u \in Users \ raced : UserOK(u))'
  <2>1. ASSUME NEW u \in Users \ raced' PROVE UserOK(u)'
    <3>1. UserOK(u)
      BY <2>1 DEF IInv, Steady
    <3>2. LeadsOf(u)' = LeadsOf(u) /\ status' = status
      BY DEF LeadsOf, Steady
    <3>3. \A q \in Requests : Confirmed(req'[q], u) => status[u] # "DEACTIVATED"
      BY <1>2, <2>1, <3>1 DEF UserOK
    <3>4. ASSUME NEW q \in Requests, req'[q].kind = "deactivate", Named(req'[q], u)
          PROVE  LeadsOf(u) = {} /\ \A s \in Requests \ {q} : ~ Named(req'[s], u)
      BY <1>2, <2>1, <3>1, <3>4 DEF UserOK
    <3>5. QED BY <3>1, <3>2, <3>3, <3>4 DEF UserOK, Confirmed, Named
  <2>2. QED BY <2>1
<1>8. (\A e \in Executives : CapOK(e))'
  <2>1. Orderly'
    BY <1>4, <1>5 DEF Orderly
  <2>2. (\A e \in Executives : Cardinality(Pending(e)) <= Cardinality(Places(e)))'
    BY <2>1, PendingBound, PTL
  <2>3. ASSUME NEW e \in Executives PROVE CapOK(e)'
    <3>1. Automatic(e)' = Automatic(e) /\ Places(e)' = Places(e)
      BY DEF Automatic, LeadsOf, Places, Was, Steady
    <3>2. Pending(e)' = {q \in Requests : Picked(req'[q], e)}
      BY DEF Pending, Picked
    <3>3. /\ Cardinality(Automatic(e)) \in Nat /\ Cardinality(Pending(e)) \in Nat
          /\ Cardinality(Places(e)) \in Nat /\ Cardinality(Pending(e)') \in Nat
          /\ Cardinality(Pending(e)') <= Cardinality(Places(e))
      <4>1. Automatic(e) \in SUBSET DOMAIN leads
        BY DEF Automatic, LeadsOf
      <4>2. Cardinality(Pending(e)') \in Nat
        BY <3>2, IntakeAssumption, FS_Subset, FS_CardinalityType
      <4>3. Cardinality(Pending(e)') <= Cardinality(Places(e))
        BY <2>2, <3>1
      <4>4. QED BY <1>1, <4>1, <4>2, <4>3, LeadsFinite, PendingFinite
    <3>4. CASE Picked(n, e) => Picked(req[r], e)
      <4>1. Pending(e)' \subseteq Pending(e)
        BY <1>2, <3>2, <3>4 DEF Pending
      <4>2. Cardinality(Pending(e)') <= Cardinality(Pending(e))
        BY <4>1, PendingFinite, FS_Subset
      <4>3. CapOK(e)
        BY DEF IInv
      <4>4. Cap \in Nat
        BY IntakeAssumption
      <4>5. QED BY <3>1, <3>3, <4>1, <4>2, <4>3, <4>4 DEF CapOK
    <3>5. CASE Load(e) < Cap
      <4>1. Automatic(e) \subseteq LeadsOf(e) /\ LeadsOf(e) \in SUBSET DOMAIN leads
        BY DEF Automatic, LeadsOf
      <4>2. Cardinality(Automatic(e)) <= Load(e) /\ Load(e) \in Nat /\ Cap \in Nat
        BY <1>1, <4>1, LeadsFinite, FS_Subset, IntakeAssumption DEF Load
      <4>3. QED BY <3>1, <3>3, <3>5, <4>2 DEF CapOK
    <3>6. QED BY <2>3, <3>4, <3>5
  <2>4. QED BY <2>3
<1>9. QED BY <1>4, <1>5, <1>6, <1>7, <1>8 DEF IInv

\* Request r goes on as n, which names nobody ...
LEMMA BlankStep ==
  ASSUME IInv, NEW r \in Requests, NEW n \in Request,
         req' = [req EXCEPT ![r] = n], Steady, LockOK', ReqOK(n),
         n.exec = None, n.mgr = None
  PROVE  IInv'
<1>1. \A u \in Users : ~ Named(n, u) /\ ~ Confirmed(n, u)
  BY IntakeAssumption DEF Named, Confirmed
<1>2. \A e \in Executives : ~ Picked(n, e)
  BY IntakeAssumption DEF Picked, Users
<1>3. QED BY <1>1, <1>2, QuietStep

\* ... or names whom it named before.
LEMMA MoveStep ==
  ASSUME IInv, NEW r \in Requests, NEW n \in Request,
         req' = [req EXCEPT ![r] = n], Steady, LockOK', ReqOK(n), raced' = raced,
         n.kind = req[r].kind, n.exec = req[r].exec, n.mgr = req[r].mgr,
         \A u \in Users :
            Confirmed(n, u) => Confirmed(req[r], u) \/ status[u] # "DEACTIVATED"
  PROVE  IInv'
<1>1. \A u \in Users : Named(n, u) <=> Named(req[r], u)
  BY DEF Named
<1>2. \A e \in Executives : Picked(n, e) => Picked(req[r], e)
  BY DEF Picked
<1>3. ASSUME NEW u \in Users \ raced'
      PROVE  /\ Confirmed(n, u) => status[u] # "DEACTIVATED"
             /\ n.kind = "deactivate" /\ Named(n, u) =>
                  LeadsOf(u) = {} /\ \A q \in Requests \ {r} : ~ Named(req[q], u)
             /\ Named(n, u) =>
                  \A q \in Requests \ {r} : ~ (req[q].kind = "deactivate" /\ Named(req[q], u))
  <2>1. UserOK(u)
    BY <1>3 DEF IInv
  <2>2. QED BY <1>1, <1>3, <2>1 DEF UserOK
<1>4. QED BY <1>2, <1>3, QuietStep

LEMMA Unmoved ==
  ASSUME TypeOK, UNCHANGED <<leads, submissions, staff, status, present, everStaff>>,
         raced \subseteq raced', raced' \subseteq Users,
         lock' \in [Districts -> Nobody],
         manual' \in 0 .. MaxManual, edits' \in 0 .. MaxEdits
  PROVE  Steady
BY DEF TypeOK, Steady

\* The locks when r goes on without one or keeps its own ...
LEMMA LockKept ==
  ASSUME IInv, NEW r \in Requests, NEW n, req' = [req EXCEPT ![r] = n], lock' = lock,
         Holds(n) <=> Holds(req[r]), Holds(n) => n.district = req[r].district
  PROVE  LockOK' /\ lock' \in [Districts -> Nobody]
<1>1. req \in [Requests -> Request] /\ lock \in [Districts -> Nobody] /\ LockOK
  BY DEF IInv, TypeOK
<1>2. \A q \in Requests : req'[q] = IF q = r THEN n ELSE req[q]
  BY <1>1
<1>3. ASSUME NEW d \in Districts, lock'[d] # None
      PROVE  Holds(req'[lock'[d]]) /\ req'[lock'[d]].district = d
  <2>1. lock[d] \in Requests /\ Holds(req[lock[d]]) /\ req[lock[d]].district = d
    BY <1>1, <1>3 DEF LockOK, Nobody
  <2>2. QED BY <1>2, <2>1
<1>4. ASSUME NEW q \in Requests, Holds(req'[q]) PROVE lock'[req'[q].district] = q
  BY <1>1, <1>2, <1>4 DEF LockOK
<1>5. QED BY <1>1, <1>3, <1>4 DEF LockOK, Holds

\* ... and when it gives it back.
LEMMA LockReleased ==
  ASSUME IInv, NEW r \in Requests, NEW n, req' = [req EXCEPT ![r] = n],
         ReleaseLock(r), ~ Holds(n)
  PROVE  LockOK' /\ lock' \in [Districts -> Nobody]
<1>1. /\ req \in [Requests -> Request] /\ lock \in [Districts -> Nobody] /\ LockOK
      /\ \A q \in Requests : ReqOK(req[q])
  BY DEF IInv, TypeOK
<1>2. \A q \in Requests : req'[q] = IF q = r THEN n ELSE req[q]
  BY <1>1
<1>3. /\ lock' \in [Districts -> Nobody]
      /\ \A d \in Districts : lock'[d] = IF lock[d] = r THEN None ELSE lock[d]
  BY <1>1 DEF ReleaseLock, Nobody
<1>4. ASSUME NEW d \in Districts, lock'[d] # None
      PROVE  Holds(req'[lock'[d]]) /\ req'[lock'[d]].district = d
  <2>1. /\ lock'[d] = lock[d] /\ lock[d] # r
        /\ lock[d] \in Requests /\ Holds(req[lock[d]]) /\ req[lock[d]].district = d
    BY <1>1, <1>3, <1>4 DEF LockOK, Nobody
  <2>2. QED BY <1>2, <2>1
<1>5. ASSUME NEW q \in Requests, Holds(req'[q]) PROVE lock'[req'[q].district] = q
  <2>1. q # r /\ req'[q] = req[q] /\ Holds(req[q])
    BY <1>2, <1>5
  <2>2. req[q].district \in Districts /\ lock[req[q].district] = q
    BY <1>1, <2>1 DEF LockOK, Holds, Locking, ReqOK, CreateOK
  <2>3. QED BY <1>3, <2>1, <2>2
<1>6. QED BY <1>3, <1>4, <1>5 DEF LockOK, Holds

-----------------------------------------------------------------------------
(* A request begins, goes on, or gives up *)

LEMMA StartCreateStep == ASSUME IInv, NEW r \in Requests, StartCreate(r) \/ StartPublic(r) PROVE IInv'
<1>1. /\ TypeOK /\ req[r].pc = "idle" /\ ReqOK(req[r]) /\ lock' = lock /\ LockOK
      /\ lock \in [Districts -> Nobody] /\ raced \subseteq Users
      /\ manual \in 0 .. MaxManual /\ edits \in 0 .. MaxEdits
  BY ReqKnown DEF StartCreate, StartPublic, TypeOK
<1>2. PICK d \in present, pc \in {"begin", "save"}, kind \in CreateKinds :
        Set(r, [IdleReq EXCEPT !.pc = pc, !.kind = kind, !.district = d])
  BY DEF StartCreate, StartPublic, CreateKinds
<1> DEFINE n == [IdleReq EXCEPT !.pc = pc, !.kind = kind, !.district = d]
<1>3. /\ n \in Request /\ n.pc = pc /\ n.kind = kind /\ n.district = d
      /\ n.exec = None /\ n.mgr = None /\ d \in Districts
  BY <1>1, IdleTyped DEF Request, IdleReq, TypeOK, AllKinds, CreateKinds
<1>4. req' = [req EXCEPT ![r] = n]
  BY <1>2 DEF Set
<1> HIDE DEF n
<1>5. ReqOK(n) /\ ~ Holds(n) /\ ~ Holds(req[r])
  BY <1>1, <1>3 DEF ReqOK, PcOK, CreateOK, AssignOK, NamesNobody, Holds, Locking,
                    CreateKinds, AssignKinds
<1>6. LockOK'
  BY <1>1, <1>4, <1>5, LockKept
<1>7. Steady
  BY <1>1, Unmoved DEF StartCreate, StartPublic
<1>8. QED BY <1>3, <1>4, <1>5, <1>6, <1>7, BlankStep

LEMMA SaveSubmissionStep == ASSUME IInv, NEW r \in Requests, SaveSubmission(r) PROVE IInv'
<1>1. /\ TypeOK /\ req[r].pc = "save" /\ ReqOK(req[r]) /\ lock' = lock
      /\ req[r] \in Request /\ raced' = raced
  BY ReqKnown DEF SaveSubmission
<1>0. PICK s : s = Len(submissions) + 1 OBVIOUS
<1> DEFINE n == [req[r] EXCEPT !.pc = "begin", !.sub = s]
<1>2. submissions \in Seq({"pending", "noted"}) /\ Len(submissions) \in Nat /\ s \in Nat
  BY <1>0, <1>1, LenProperties DEF TypeOK
<1>3. submissions' \in Seq({"pending", "noted"})
  BY <1>2, AppendProperties DEF SaveSubmission
<1>4. /\ n \in Request /\ n.pc = "begin" /\ n.kind = req[r].kind
      /\ n.district = req[r].district /\ n.exec = req[r].exec /\ n.mgr = req[r].mgr
  BY <1>1, <1>2 DEF Request
<1>5. req' = [req EXCEPT ![r] = n]
  BY <1>0 DEF SaveSubmission, Set
<1> HIDE DEF n
<1>6. ReqOK(n) /\ ~ Holds(n) /\ ~ Holds(req[r]) /\ n.kind \notin AssignKinds
  BY <1>1, <1>4 DEF ReqOK, PcOK, CreateOK, AssignOK, NamesNobody, Holds, Locking,
                    CreateKinds, AssignKinds
<1>7. LockOK'
  BY <1>1, <1>5, <1>6, LockKept
<1>8. Steady
  BY <1>1, <1>3 DEF SaveSubmission, Steady, TypeOK
<1>9. \A u \in Users : Confirmed(n, u) => Confirmed(req[r], u)
  BY <1>4, <1>6 DEF Confirmed, Named
<1>10. QED BY <1>1, <1>4, <1>5, <1>6, <1>7, <1>8, <1>9, MoveStep

LEMMA BeginStep == ASSUME IInv, NEW r \in Requests, Begin(r) PROVE IInv'
<1>1. /\ TypeOK /\ req[r].pc = "begin" /\ ReqOK(req[r]) /\ lock' = lock
      /\ req[r] \in Request /\ raced' = raced
      /\ raced \subseteq Users /\ lock \in [Districts -> Nobody]
      /\ manual \in 0 .. MaxManual /\ edits \in 0 .. MaxEdits
  BY ReqKnown DEF Begin, TypeOK
<1> DEFINE n == [req[r] EXCEPT !.pc = IF req[r].kind \in CreateKinds THEN "lock" ELSE "lookup"]
<1>2. /\ n \in Request /\ n.kind = req[r].kind /\ n.row = req[r].row
      /\ n.district = req[r].district /\ n.exec = req[r].exec /\ n.mgr = req[r].mgr
      /\ n.pc = IF req[r].kind \in CreateKinds THEN "lock" ELSE "lookup"
  BY <1>1 DEF Request
<1>3. req' = [req EXCEPT ![r] = n]
  BY DEF Begin, Set
<1> HIDE DEF n
<1>4. ReqOK(n) /\ ~ Holds(n) /\ ~ Holds(req[r])
  BY <1>1, <1>2 DEF ReqOK, PcOK, CreateOK, AssignOK, NamesNobody, Holds, Locking,
                    CreateKinds, AssignKinds, Request, AllKinds
<1>5. LockOK'
  BY <1>1, <1>3, <1>4, LockKept
<1>6. Steady
  BY <1>1, Unmoved DEF Begin
<1>7. \A u \in Users : Confirmed(n, u) => Confirmed(req[r], u)
  BY <1>1, <1>2 DEF Confirmed, Named
<1>8. QED BY <1>1, <1>2, <1>3, <1>4, <1>5, <1>6, <1>7, MoveStep

LEMMA AcquireLockStep == ASSUME IInv, NEW r \in Requests, AcquireLock(r) PROVE IInv'
<1>1. /\ TypeOK /\ req[r].pc = "lock" /\ ReqOK(req[r]) /\ LockOK
      /\ req[r] \in Request /\ raced' = raced /\ req \in [Requests -> Request]
      /\ raced \subseteq Users /\ lock \in [Districts -> Nobody]
      /\ manual \in 0 .. MaxManual /\ edits \in 0 .. MaxEdits
      /\ \A q \in Requests : ReqOK(req[q])
  BY ReqKnown DEF AcquireLock, TypeOK, IInv
<1>2. PICK d : d = req[r].district OBVIOUS
<1> DEFINE n == [req[r] EXCEPT !.pc = "manager"]
<1>3. /\ n \in Request /\ n.kind = req[r].kind /\ n.pc = "manager"
      /\ n.district = d /\ n.exec = req[r].exec /\ n.mgr = req[r].mgr
  BY <1>1, <1>2 DEF Request
<1>4. req' = [req EXCEPT ![r] = n] /\ lock[d] = None /\ lock' = [lock EXCEPT ![d] = r]
  BY <1>2 DEF AcquireLock, Set
<1> HIDE DEF n
<1>5. ReqOK(n) /\ Holds(n) /\ ~ Holds(req[r]) /\ req[r].kind \in CreateKinds /\ d \in Districts
  BY <1>1, <1>2, <1>3 DEF ReqOK, PcOK, CreateOK, AssignOK, NamesNobody, Holds, Locking,
                    CreateKinds, AssignKinds, Request, AllKinds
<1>6. lock' \in [Districts -> Nobody]
  BY <1>1, <1>4 DEF Nobody
<1>7. LockOK'
  <2>1. \A q \in Requests : req'[q] = IF q = r THEN n ELSE req[q]
    BY <1>1, <1>4
  <2>2. \A c \in Districts : lock'[c] = IF c = d THEN r ELSE lock[c]
    BY <1>1, <1>4
  <2>3. ASSUME NEW c \in Districts, lock'[c] # None
        PROVE  Holds(req'[lock'[c]]) /\ req'[lock'[c]].district = c
    BY <1>1, <1>3, <1>5, <2>1, <2>2, <2>3 DEF LockOK, Nobody
  <2>4. ASSUME NEW q \in Requests, Holds(req'[q]) PROVE lock'[req'[q].district] = q
    <3>1. CASE q = r
      BY <1>3, <1>5, <2>1, <2>2, <3>1
    <3>2. CASE q # r
      <4>1. Holds(req[q]) /\ req'[q] = req[q]
        BY <2>1, <2>4, <3>2
      <4>2. lock[req[q].district] = q /\ q # None
        BY <1>1, <4>1, IntakeAssumption DEF LockOK
      <4>3. req[q].district \in Districts
        BY <1>1, <4>1 DEF Holds, Locking, ReqOK, CreateOK
      <4>4. QED BY <1>4, <2>2, <4>1, <4>2, <4>3
    <3>3. QED BY <3>1, <3>2
  <2>5. QED BY <2>3, <2>4 DEF LockOK, Holds
<1>8. Steady
  BY <1>1, <1>6, Unmoved DEF AcquireLock
<1>9. \A u \in Users : Confirmed(n, u) => Confirmed(req[r], u)
  BY <1>3, <1>5 DEF Confirmed, Named, CreateKinds, AssignKinds
<1>10. QED BY <1>1, <1>2, <1>3, <1>4, <1>5, <1>7, <1>8, <1>9, MoveStep

LEMMA StatusesAnswerStep == ASSUME IInv, NEW r \in Requests, StatusesAnswer(r) PROVE IInv'
<1>1. /\ TypeOK /\ req[r].pc = "lookup" /\ ReqOK(req[r]) /\ lock' = lock
      /\ req[r] \in Request /\ raced' = raced
      /\ raced \subseteq Users /\ lock \in [Districts -> Nobody]
      /\ manual \in 0 .. MaxManual /\ edits \in 0 .. MaxEdits
  BY ReqKnown DEF StatusesAnswer, TypeOK
<1>2. PICK ok \in BOOLEAN : Set(r, [req[r] EXCEPT !.pc = "write", !.ok = ok])
  <2>1. PICK allowed \in BOOLEAN : Set(r, [req[r] EXCEPT !.pc = "write", !.ok = @ /\ allowed])
    BY DEF StatusesAnswer
  <2>2. (req[r].ok /\ allowed) \in BOOLEAN
    BY <1>1 DEF Request
  <2>3. QED BY <2>1, <2>2
<1> DEFINE n == [req[r] EXCEPT !.pc = "write", !.ok = ok]
<1>3. /\ n \in Request /\ n.kind = req[r].kind /\ n.row = req[r].row /\ n.pc = "write"
      /\ n.district = req[r].district /\ n.exec = req[r].exec /\ n.mgr = req[r].mgr
  BY <1>1 DEF Request
<1>4. req' = [req EXCEPT ![r] = n]
  BY <1>2 DEF Set
<1> HIDE DEF n
<1>5. ReqOK(n) /\ (Holds(n) <=> Holds(req[r]))
  BY <1>1, <1>3 DEF ReqOK, PcOK, CreateOK, AssignOK, NamesNobody, Holds, Locking,
                    CreateKinds, AssignKinds, Request, AllKinds
<1>6. LockOK'
  BY <1>1, <1>3, <1>4, <1>5, LockKept
<1>7. Steady
  BY <1>1, Unmoved DEF StatusesAnswer
<1>8. \A u \in Users : Confirmed(n, u) => Confirmed(req[r], u)
  BY <1>1, <1>3 DEF Confirmed, Named
<1>9. QED BY <1>1, <1>3, <1>4, <1>5, <1>6, <1>7, <1>8, MoveStep

-----------------------------------------------------------------------------
(* A creation picks its responsibles *)

LEMMA PickManagerStep == ASSUME IInv, NEW r \in Requests, PickManager(r) PROVE IInv'
<1>1. /\ TypeOK /\ req[r].pc = "manager" /\ ReqOK(req[r]) /\ lock' = lock
      /\ req[r] \in Request /\ raced \subseteq Users /\ lock \in [Districts -> Nobody]
      /\ manual \in 0 .. MaxManual /\ edits \in 0 .. MaxEdits
      /\ req \in [Requests -> Request]
  BY ReqKnown DEF PickManager, TypeOK
<1>2. /\ req[r].kind \in CreateKinds /\ req[r].exec = None /\ req[r].mgr = None
      /\ Holds(req[r])
  BY <1>1 DEF ReqOK, PcOK, CreateOK, Holds, Locking, CreateKinds, AssignKinds,
              Request, AllKinds
<1>3. CASE Set(r, [req[r] EXCEPT !.pc = "write"]) /\ UNCHANGED raced
  <2> DEFINE n == [req[r] EXCEPT !.pc = "write"]
  <2>1. /\ n \in Request /\ n.kind = req[r].kind /\ n.pc = "write"
        /\ n.district = req[r].district /\ n.exec = req[r].exec /\ n.mgr = req[r].mgr
    BY <1>1 DEF Request
  <2>2. req' = [req EXCEPT ![r] = n]
    BY <1>3 DEF Set
  <2> HIDE DEF n
  <2>3. ReqOK(n) /\ (Holds(n) <=> Holds(req[r]))
    BY <1>1, <1>2, <2>1 DEF ReqOK, PcOK, CreateOK, AssignOK, NamesNobody, Holds, Locking,
                            CreateKinds, AssignKinds
  <2>4. LockOK'
    BY <1>1, <2>1, <2>2, <2>3, LockKept
  <2>5. Steady
    BY <1>1, <1>3, Unmoved DEF PickManager
  <2>6. \A u \in Users : Confirmed(n, u) => Confirmed(req[r], u)
    BY <1>2, <2>1 DEF Confirmed, Named, CreateKinds, AssignKinds
  <2>7. QED BY <1>3, <2>1, <2>2, <2>3, <2>4, <2>5, <2>6, MoveStep
<1>4. ASSUME NEW m \in LeastLoaded(Candidates(Managers, req[r].district)),
             Set(r, [req[r] EXCEPT !.pc = "executive", !.mgr = m]),
             Overlap({m}, req[r].kind)
      PROVE  IInv'
  <2> DEFINE n == [req[r] EXCEPT !.pc = "executive", !.mgr = m]
  <2>1. m \in Managers /\ Was(m, req[r].district) /\ status[m] = "ACTIVE" /\ m \in Users
    BY <1>1 DEF LeastLoaded, Candidates, Mapped, Active, TypeOK, Was, Users
  <2>2. /\ n \in Request /\ n.kind = req[r].kind /\ n.pc = "executive"
        /\ n.district = req[r].district /\ n.exec = None /\ n.mgr = m
    BY <1>1, <1>2, <2>1 DEF Request
  <2>3. req' = [req EXCEPT ![r] = n]
    BY <1>4 DEF Set
  <2> HIDE DEF n
  <2>4. ReqOK(n) /\ Holds(n)
    BY <1>1, <1>2, <2>1, <2>2 DEF ReqOK, PcOK, CreateOK, AssignOK, NamesNobody, Holds,
                                  Locking, CreateKinds, AssignKinds
  <2>5. LockOK'
    BY <1>1, <1>2, <2>2, <2>3, <2>4, LockKept
  <2>6. /\ raced \subseteq raced' /\ raced' \subseteq Users
        /\ m \notin raced' => Naming(m, {"deactivate"}) = {}
    BY <1>1, <1>2, <1>4, <2>1 DEF Overlap, CreateKinds
  <2>7. Steady
    BY <1>1, <2>6, Unmoved DEF PickManager
  <2>8. \A u \in Users : Named(n, u) => u = m
    BY <2>2, IntakeAssumption DEF Named
  <2>9. \A u \in Users : Confirmed(n, u) => u = m
    BY <1>2, <2>2, <2>8 DEF Confirmed, CreateKinds, AssignKinds
  <2>10. m \notin raced' =>
            \A q \in Requests \ {r} : ~ (req[q].kind = "deactivate" /\ Named(req[q], m))
    BY <2>6 DEF Naming, Named
  <2>11. n.kind # "deactivate"
    BY <1>2, <2>2 DEF CreateKinds
  <2>12. \A e \in Executives : ~ Picked(n, e)
    BY <2>2, IntakeAssumption DEF Picked, Users
  <2>13. QED BY <2>1, <2>2, <2>3, <2>4, <2>5, <2>7, <2>8, <2>9, <2>10, <2>11, <2>12, QuietStep
<1>5. QED BY <1>3, <1>4 DEF PickManager

LEMMA PickExecutiveStep == ASSUME IInv, NEW r \in Requests, PickExecutive(r) PROVE IInv'
<1>1. /\ TypeOK /\ req[r].pc = "executive" /\ ReqOK(req[r]) /\ lock' = lock
      /\ req[r] \in Request /\ raced \subseteq Users /\ lock \in [Districts -> Nobody]
      /\ manual \in 0 .. MaxManual /\ edits \in 0 .. MaxEdits
      /\ req \in [Requests -> Request]
  BY ReqKnown DEF PickExecutive, TypeOK
<1>2. req[r].kind \in CreateKinds /\ req[r].exec = None /\ Holds(req[r])
  BY <1>1 DEF ReqOK, PcOK, CreateOK, Holds, Locking, CreateKinds, AssignKinds,
              Request, AllKinds
<1>3. CASE Set(r, [req[r] EXCEPT !.pc = "write"]) /\ UNCHANGED raced
  <2> DEFINE n == [req[r] EXCEPT !.pc = "write"]
  <2>1. /\ n \in Request /\ n.kind = req[r].kind /\ n.pc = "write"
        /\ n.district = req[r].district /\ n.exec = req[r].exec /\ n.mgr = req[r].mgr
    BY <1>1 DEF Request
  <2>2. req' = [req EXCEPT ![r] = n]
    BY <1>3 DEF Set
  <2> HIDE DEF n
  <2>3. ReqOK(n) /\ (Holds(n) <=> Holds(req[r]))
    BY <1>1, <1>2, <2>1 DEF ReqOK, PcOK, CreateOK, AssignOK, NamesNobody, Holds, Locking,
                            CreateKinds, AssignKinds
  <2>4. LockOK'
    BY <1>1, <2>1, <2>2, <2>3, LockKept
  <2>5. Steady
    BY <1>1, <1>3, Unmoved DEF PickExecutive
  <2>6. \A u \in Users : Confirmed(n, u) => Confirmed(req[r], u)
    BY <1>2, <2>1 DEF Confirmed, Named, CreateKinds, AssignKinds
  <2>7. QED BY <1>3, <2>1, <2>2, <2>3, <2>4, <2>5, <2>6, MoveStep
<1>4. ASSUME NEW x \in {u \in Candidates(Executives, req[r].district) : Load(u) < Cap},
             Set(r, [req[r] EXCEPT !.pc = "lookup", !.exec = x, !.ok = TRUE]),
             Overlap({x}, req[r].kind)
      PROVE  IInv'
  <2> DEFINE n == [req[r] EXCEPT !.pc = "lookup", !.exec = x, !.ok = TRUE]
  <2>1. /\ x \in Executives /\ Was(x, req[r].district) /\ status[x] = "ACTIVE" /\ x \in Users
        /\ x # None
    BY <1>1, IntakeAssumption DEF Candidates, Mapped, Active, TypeOK, Was, Users
  <2>2. /\ n \in Request /\ n.kind = req[r].kind /\ n.pc = "lookup"
        /\ n.district = req[r].district /\ n.exec = x /\ n.mgr = req[r].mgr
    BY <1>1, <2>1 DEF Request
  <2>3. req' = [req EXCEPT ![r] = n]
    BY <1>4 DEF Set
  <2> HIDE DEF n
  <2>4. ReqOK(n) /\ Holds(n)
    BY <1>1, <1>2, <2>1, <2>2 DEF ReqOK, PcOK, CreateOK, AssignOK, NamesNobody, Holds,
                                  Locking, CreateKinds, AssignKinds
  <2>5. LockOK'
    BY <1>1, <1>2, <2>2, <2>3, <2>4, LockKept
  <2>6. /\ raced \subseteq raced' /\ raced' \subseteq Users
        /\ x \notin raced' => Naming(x, {"deactivate"}) = {}
    BY <1>1, <1>2, <1>4, <2>1 DEF Overlap, CreateKinds
  <2>7. Steady
    BY <1>1, <2>6, Unmoved DEF PickExecutive
  <2>8. \A u \in Users : Named(n, u) => u = x \/ (u # x /\ Named(req[r], u))
    BY <2>2 DEF Named
  <2>9. n.kind # "deactivate" /\ req[r].kind # "deactivate"
    BY <1>2, <2>2 DEF CreateKinds
  <2>10. ASSUME NEW u \in Users \ raced'
         PROVE  /\ Confirmed(n, u) => status[u] # "DEACTIVATED"
                /\ Named(n, u) =>
                     \A q \in Requests \ {r} : ~ (req[q].kind = "deactivate" /\ Named(req[q], u))
    <3>1. CASE u = x
      BY <2>1, <2>6, <2>10, <3>1 DEF Naming, Named
    <3>2. CASE u # x /\ ~ Named(n, u)
      BY <1>2, <2>2, <3>2 DEF Confirmed, CreateKinds, AssignKinds
    <3>3. CASE u # x /\ Named(n, u)
      <4>1. Named(req[r], u) /\ Confirmed(req[r], u)
        BY <1>2, <2>8, <3>3 DEF Confirmed
      <4>2. UserOK(u)
        BY <2>6, <2>10 DEF IInv
      <4>3. QED BY <4>1, <4>2 DEF UserOK
    <3>4. QED BY <3>1, <3>2, <3>3
  <2>11. \A e \in Executives : Picked(n, e) => Load(e) < Cap
    BY <1>4, <2>2 DEF Picked
  <2>12. QED BY <2>2, <2>3, <2>4, <2>5, <2>7, <2>9, <2>10, <2>11, QuietStep
<1>5. QED BY <1>3, <1>4 DEF PickExecutive, LeastLoaded

LEMMA TellCustomerStep == ASSUME IInv, NEW r \in Requests, TellCustomer(r) PROVE IInv'
<1>1. /\ TypeOK /\ req[r].pc = "tell" /\ ReqOK(req[r]) /\ lock' = lock /\ raced' = raced
      /\ submissions \in Seq({"pending", "noted"})
  BY ReqKnown DEF TellCustomer, TypeOK
<1>2. req' = [req EXCEPT ![r] = IdleReq]
  BY DEF TellCustomer, Finish, Set
<1>3. IdleReq.exec = None /\ IdleReq.mgr = None /\ IdleReq.pc = "idle" /\ IdleReq.kind = "none"
  BY DEF IdleReq
<1>4. ReqOK(IdleReq) /\ ~ Holds(IdleReq) /\ ~ Holds(req[r])
  BY <1>1, <1>3 DEF ReqOK, PcOK, CreateOK, AssignOK, NamesNobody, Holds, Locking,
                    CreateKinds, AssignKinds
<1>5. LockOK'
  BY <1>2, <1>1, <1>4, LockKept
<1>6. submissions' \in Seq({"pending", "noted"})
  <2>0. PICK s : s = req[r].sub OBVIOUS
  <2>1. PICK outcome \in {"pending", "noted"} :
           submissions' = [submissions EXCEPT ![s] = outcome]
    BY <2>0 DEF TellCustomer
  <2>2. CASE s \in 1 .. Len(submissions)
    BY <1>1, <2>1, <2>2, ExceptSeq
  <2>3. CASE s \notin 1 .. Len(submissions)
    <3>1. DOMAIN submissions = 1 .. Len(submissions)
      BY <1>1, LenProperties
    <3>2. submissions' = submissions
      BY <1>1, <2>1, <2>3, <3>1
    <3>3. QED BY <1>1, <3>2
  <2>4. QED BY <2>2, <2>3
<1>7. Steady
  BY <1>1, <1>6 DEF TellCustomer, Steady, TypeOK
<1>8. QED BY <1>2, <1>3, <1>4, <1>5, <1>7, IdleTyped, BlankStep

-----------------------------------------------------------------------------
(* Manual assignment, deactivation, removal of a district, failures *)

LEMMA NameStep ==
  ASSUME IInv, NEW r \in Requests, req[r].pc = "idle", NEW kind \in AssignKinds,
         NEW i \in DOMAIN leads, NEW e \in Executives,
         NEW m \in Managers \cup {None, leads[i].mgr}, Name(r, kind, i, e, m)
  PROVE  IInv'
<1>1. /\ TypeOK /\ ReqOK(req[r]) /\ lock' = lock /\ raced \subseteq Users
      /\ lock \in [Districts -> Nobody] /\ InPlace
      /\ manual \in 0 .. MaxManual /\ edits \in 0 .. MaxEdits
      /\ req \in [Requests -> Request]
  BY ReqKnown DEF Name, TypeOK, IInv
<1>2. PICK d, ok, k : d = leads[i].district /\ ok = ~ leads[i].moved /\ k = kind
  OBVIOUS
<1>3. /\ d \in Districts /\ d \in leads[i].places /\ m \in Managers \cup {None}
      /\ i \in Nat /\ ok \in BOOLEAN /\ e # None /\ e \in Users
  BY <1>1, <1>2, LeadsTyped, IntakeAssumption DEF Lead, InPlace, Users
<1> DEFINE n == [IdleReq EXCEPT !.pc = "checkExec", !.kind = k, !.row = i, !.district = d,
                                !.exec = e, !.mgr = m, !.ok = ok]
<1>4. /\ n \in Request /\ n.pc = "checkExec" /\ n.kind = kind /\ n.row = i
      /\ n.district = d /\ n.exec = e /\ n.mgr = m
  BY <1>2, <1>3 DEF Request, IdleReq, AllKinds, AssignKinds
<1>5. req' = [req EXCEPT ![r] = n]
  BY <1>2 DEF Name, Set
<1> HIDE DEF n
<1>6. ReqOK(n) /\ ~ Holds(n) /\ ~ Holds(req[r])
  BY <1>1, <1>3, <1>4 DEF ReqOK, PcOK, CreateOK, AssignOK, NamesNobody, Holds, Locking,
                          CreateKinds, AssignKinds
<1>7. LockOK'
  BY <1>1, <1>5, <1>6, LockKept
<1>8. /\ raced' = raced \cup {u \in {e, m} \ {None} : Naming(u, {"deactivate"}) # {}}
      /\ raced' \subseteq Users
  <2>1. kind # "deactivate"
    BY DEF AssignKinds
  <2>2. QED BY <1>1, <1>3, <2>1 DEF Name, Overlap, Users
<1>9. Steady
  <2>1. manual' \in 0 .. MaxManual
    BY <1>1, IntakeAssumption DEF Name
  <2>2. QED BY <1>1, <1>8, <2>1, Unmoved DEF Name
<1>10. ASSUME NEW u \in Users \ raced'
       PROVE  /\ ~ Confirmed(n, u)
              /\ Named(n, u) =>
                   \A q \in Requests \ {r} : ~ (req[q].kind = "deactivate" /\ Named(req[q], u))
  <2>1. ~ Confirmed(n, u)
    BY <1>4 DEF Confirmed, CreateKinds, AssignKinds
  <2>2. Named(n, u) => Naming(u, {"deactivate"}) = {}
    BY <1>4, <1>8, <1>10, IntakeAssumption DEF Named
  <2>3. QED BY <2>1, <2>2 DEF Naming, Named
<1>11. n.kind # "deactivate" /\ \A x \in Executives : ~ Picked(n, x)
  BY <1>4 DEF Picked, CreateKinds, AssignKinds
<1>12. QED BY <1>4, <1>5, <1>6, <1>7, <1>9, <1>10, <1>11, QuietStep

LEMMA StartAssignStep ==
  ASSUME IInv, NEW r \in Requests, StartAssign(r) \/ StartReassign(r) PROVE IInv'
<1>1. req[r].pc = "idle"
  BY DEF StartAssign, StartReassign
<1>2. CASE StartAssign(r)
  <2>1. PICK i \in DOMAIN leads, e \in Executives :
           \E m \in Managers \cup {None, leads[i].mgr} : Name(r, "assign", i, e, m)
    BY <1>2 DEF StartAssign
  <2>2. "assign" \in AssignKinds
    BY DEF AssignKinds
  <2>3. QED BY <1>1, <2>1, <2>2, NameStep
<1>3. CASE StartReassign(r)
  <2>1. PICK i \in DOMAIN leads, e \in Executives :
           \E m \in Managers \cup {None, leads[i].mgr} : Name(r, "reassign", i, e, m)
    BY <1>3 DEF StartReassign
  <2>2. "reassign" \in AssignKinds
    BY DEF AssignKinds
  <2>3. QED BY <1>1, <2>1, <2>2, NameStep
<1>4. QED BY <1>2, <1>3

LEMMA CheckStep ==
  ASSUME IInv, NEW r \in Requests, CheckExecutive(r) \/ CheckManager(r) PROVE IInv'
<1>1. /\ TypeOK /\ req[r].pc \in {"checkExec", "checkManager"} /\ ReqOK(req[r])
      /\ lock' = lock /\ req[r] \in Request /\ raced' = raced
      /\ raced \subseteq Users /\ lock \in [Districts -> Nobody]
      /\ manual \in 0 .. MaxManual /\ edits \in 0 .. MaxEdits /\ staff \subseteq everStaff
  BY ReqKnown DEF CheckExecutive, CheckManager, TypeOK
<1>2. PICK pc \in {"begin", "checkManager"} :
        /\ Set(r, [req[r] EXCEPT !.pc = pc])
        /\ pc = "checkManager" => req[r].mgr # None /\ req[r].pc = "checkExec"
        /\ req[r].pc = "checkExec" => Mapped(req[r].exec, req[r].district)
        /\ req[r].pc = "checkManager" => Mapped(req[r].mgr, req[r].district)
        /\ pc = "begin" /\ req[r].pc = "checkExec" => req[r].mgr = None
  BY DEF CheckExecutive, CheckManager
<1> DEFINE n == [req[r] EXCEPT !.pc = pc]
<1>3. /\ n \in Request /\ n.kind = req[r].kind /\ n.row = req[r].row /\ n.pc = pc
      /\ n.district = req[r].district /\ n.exec = req[r].exec /\ n.mgr = req[r].mgr
  BY <1>1 DEF Request
<1>4. req' = [req EXCEPT ![r] = n]
  BY <1>2 DEF Set
<1> HIDE DEF n
<1>5. req[r].kind \in AssignKinds
  BY <1>1 DEF ReqOK, PcOK, CreateKinds, AssignKinds, Request, AllKinds
<1>6. ReqOK(n) /\ ~ Holds(n) /\ ~ Holds(req[r])
  BY <1>1, <1>2, <1>3, <1>5 DEF ReqOK, PcOK, CreateOK, AssignOK, NamesNobody, Holds,
       Locking, CreateKinds, AssignKinds, Mapped, Was
<1>7. LockOK'
  BY <1>1, <1>3, <1>4, <1>6, LockKept
<1>8. Steady
  BY <1>1, Unmoved DEF CheckExecutive, CheckManager
<1>9. ASSUME NEW u \in Users, Confirmed(n, u)
      PROVE  Confirmed(req[r], u) \/ status[u] # "DEACTIVATED"
  BY <1>1, <1>2, <1>3, <1>5, <1>9, IntakeAssumption
     DEF Confirmed, CreateKinds, AssignKinds, Mapped, Active
<1>10. QED BY <1>1, <1>3, <1>4, <1>6, <1>7, <1>8, <1>9, MoveStep

LEMMA StartDeactivateStep == ASSUME IInv, NEW r \in Requests, StartDeactivate(r) PROVE IInv'
<1>1. /\ TypeOK /\ req[r].pc = "idle" /\ ReqOK(req[r]) /\ lock' = lock
      /\ raced \subseteq Users /\ lock \in [Districts -> Nobody]
      /\ manual \in 0 .. MaxManual /\ edits \in 0 .. MaxEdits
      /\ req \in [Requests -> Request] /\ \A q \in Requests : ReqOK(req[q])
  BY ReqKnown DEF StartDeactivate, TypeOK, IInv
<1>2. PICK x \in EditableUsers :
        /\ Load(x) = 0
        /\ Set(r, [IdleReq EXCEPT !.pc = "drop", !.kind = "deactivate",
                                  !.exec = IF x \in Executives THEN x ELSE None,
                                  !.mgr = IF x \in Managers THEN x ELSE None])
        /\ Overlap({x}, "deactivate")
  BY DEF StartDeactivate
<1>3. PICK e \in Executives \cup {None}, m \in Managers \cup {None} :
        /\ e = IF x \in Executives THEN x ELSE None
        /\ m = IF x \in Managers THEN x ELSE None
  OBVIOUS
<1> DEFINE n == [IdleReq EXCEPT !.pc = "drop", !.kind = "deactivate", !.exec = e, !.mgr = m]
<1>4. /\ n \in Request /\ n.pc = "drop" /\ n.kind = "deactivate"
      /\ n.exec = e /\ n.mgr = m
  BY DEF Request, IdleReq, AllKinds
<1>5. req' = [req EXCEPT ![r] = n]
  BY <1>2, <1>3 DEF Set
<1> HIDE DEF n
<1>6. ReqOK(n) /\ ~ Holds(n) /\ ~ Holds(req[r])
  BY <1>1, <1>4 DEF ReqOK, PcOK, CreateOK, AssignOK, NamesNobody, Holds, Locking,
                    CreateKinds, AssignKinds
<1>7. LockOK'
  BY <1>1, <1>5, <1>6, LockKept
<1>8. raced \subseteq raced' /\ raced' \subseteq Users
  BY <1>1, <1>2, IntakeAssumption DEF Overlap
<1>9. Steady
  <2>1. edits' \in 0 .. MaxEdits
    BY <1>1, IntakeAssumption DEF StartDeactivate
  <2>2. QED BY <1>1, <1>8, <2>1, Unmoved DEF StartDeactivate
<1>10. ASSUME NEW u \in Users \ raced', Named(n, u)
       PROVE  LeadsOf(u) = {} /\ \A q \in Requests : ~ Named(req[q], u)
  <2>1. u = x
    BY <1>3, <1>4, <1>10, IntakeAssumption DEF Named
  <2>2. LeadsOf(u) = {}
    <3>1. LeadsOf(u) \in SUBSET DOMAIN leads
      BY DEF LeadsOf
    <3>2. IsFiniteSet(LeadsOf(u)) /\ Cardinality(LeadsOf(u)) = 0
      BY <1>1, <1>2, <2>1, <3>1, LeadsFinite DEF Load
    <3>3. QED BY <3>2, FS_EmptySet
  <2>3. Naming(u, AllKinds) = {}
    BY <1>2, <1>10, <2>1 DEF Overlap
  <2>4. ASSUME NEW q \in Requests, Named(req[q], u) PROVE FALSE
    <3>1. req[q].kind \notin AllKinds
      BY <2>3, <2>4 DEF Naming, Named
    <3>2. req[q].kind = "none"
      BY <1>1, <3>1 DEF Request
    <3>3. req[q].exec = None /\ req[q].mgr = None
      BY <1>1, <3>2 DEF ReqOK, NamesNobody
    <3>4. QED BY <2>4, <3>3, IntakeAssumption DEF Named
  <2>5. QED BY <2>2, <2>4
<1>11. \A u \in Users : ~ Confirmed(n, u)
  BY <1>4 DEF Confirmed, CreateKinds, AssignKinds
<1>12. \A y \in Executives : ~ Picked(n, y)
  BY <1>4 DEF Picked, CreateKinds
<1>13. QED BY <1>4, <1>5, <1>6, <1>7, <1>9, <1>10, <1>11, <1>12, QuietStep

LEMMA RemoveStep ==
  ASSUME IInv, NEW r \in Requests, StartRemove(r) \/ RemoveDistrict(r) PROVE IInv'
<1>1. /\ TypeOK /\ req[r].pc \in {"idle", "drop"} /\ ReqOK(req[r]) /\ lock' = lock
      /\ raced \subseteq Users /\ lock \in [Districts -> Nobody] /\ present \subseteq Districts
      /\ manual \in 0 .. MaxManual /\ edits \in 0 .. MaxEdits
      /\ submissions \in Seq({"pending", "noted"})
  BY ReqKnown DEF StartRemove, RemoveDistrict, TypeOK
<1>2. PICK n \in Request :
        /\ Set(r, n) /\ n.exec = None /\ n.mgr = None
        /\ n = IdleReq \/ (n.kind = "remove" /\ n.pc = "unmap")
  <2>1. CASE StartRemove(r)
    <3>1. PICK d \in present :
             Set(r, [IdleReq EXCEPT !.pc = "unmap", !.kind = "remove", !.district = d])
      BY <2>1 DEF StartRemove
    <3> DEFINE n == [IdleReq EXCEPT !.pc = "unmap", !.kind = "remove", !.district = d]
    <3>2. /\ n \in Request /\ n.exec = None /\ n.mgr = None
          /\ n.kind = "remove" /\ n.pc = "unmap"
      BY <1>1 DEF Request, IdleReq, AllKinds
    <3>3. QED BY <3>1, <3>2
  <2>2. CASE RemoveDistrict(r)
    <3>1. IdleReq.exec = None /\ IdleReq.mgr = None
      BY DEF IdleReq
    <3>2. QED BY <2>2, <3>1, IdleTyped DEF RemoveDistrict, Finish
  <2>3. QED BY <2>1, <2>2
<1>3. /\ n.kind \in {"none", "remove"} /\ (n.kind = "none" <=> n.pc = "idle")
      /\ n.kind = "remove" => n.pc = "unmap"
  BY <1>2 DEF IdleReq
<1>4. ReqOK(n) /\ ~ Holds(n) /\ ~ Holds(req[r])
  BY <1>1, <1>2, <1>3 DEF ReqOK, PcOK, CreateOK, AssignOK, NamesNobody, Holds, Locking,
                    CreateKinds, AssignKinds
<1>5. req' = [req EXCEPT ![r] = n]
  BY <1>2 DEF Set
<1>6. LockOK'
  BY <1>1, <1>4, <1>5, LockKept
<1>7. /\ edits' \in 0 .. MaxEdits /\ present' \subseteq present
      /\ UNCHANGED <<leads, submissions, staff, status, everStaff, raced, manual>>
  <2>1. CASE StartRemove(r)
    <3>1. edits' \in 0 .. MaxEdits
      <4>1. edits < MaxEdits /\ edits' = edits + 1
        BY <2>1 DEF StartRemove
      <4>2. QED BY <1>1, <4>1, IntakeAssumption
    <3>2. QED BY <2>1, <3>1 DEF StartRemove
  <2>2. CASE RemoveDistrict(r)
    BY <1>1, <2>2 DEF RemoveDistrict
  <2>3. QED BY <2>1, <2>2
<1>8. Steady
  BY <1>1, <1>7 DEF Steady
<1>9. QED BY <1>2, <1>4, <1>5, <1>6, <1>8, BlankStep

LEMMA RemoveMappingsStep == ASSUME IInv, NEW r \in Requests, RemoveMappings(r) PROVE IInv'
<1>1. /\ TypeOK /\ req[r].pc = "unmap" /\ ReqOK(req[r]) /\ lock' = lock
      /\ raced \subseteq Users /\ lock \in [Districts -> Nobody] /\ req[r] \in Request
      /\ manual \in 0 .. MaxManual /\ edits \in 0 .. MaxEdits
      /\ submissions \in Seq({"pending", "noted"}) /\ raced' = raced
  BY ReqKnown DEF RemoveMappings, TypeOK
<1> DEFINE n == [req[r] EXCEPT !.pc = "drop"]
<1>2. /\ n \in Request /\ n.kind = req[r].kind /\ n.pc = "drop" /\ n.row = req[r].row
      /\ n.district = req[r].district /\ n.exec = req[r].exec /\ n.mgr = req[r].mgr
  BY <1>1 DEF Request
<1>3. req' = [req EXCEPT ![r] = n]
  BY DEF RemoveMappings, Set
<1> HIDE DEF n
<1>4. n.kind = "remove"
  BY <1>1, <1>2 DEF ReqOK, PcOK, CreateKinds, AssignKinds, Request, AllKinds
<1>5. ReqOK(n) /\ ~ Holds(n) /\ ~ Holds(req[r])
  BY <1>1, <1>2, <1>4 DEF ReqOK, PcOK, CreateOK, AssignOK, NamesNobody, Holds, Locking,
                    CreateKinds, AssignKinds
<1>6. LockOK'
  BY <1>1, <1>3, <1>5, LockKept
<1>7. staff' \subseteq staff /\ UNCHANGED <<leads, submissions, status, present, everStaff,
                                            manual, edits>>
  BY DEF RemoveMappings
<1>8. Steady
  BY <1>1, <1>7 DEF Steady
<1>9. \A u \in Users : ~ Confirmed(n, u)
  BY <1>4 DEF Confirmed, CreateKinds, AssignKinds
<1>10. QED BY <1>1, <1>2, <1>3, <1>5, <1>6, <1>8, <1>9, MoveStep

LEMMA FailStep == ASSUME IInv, NEW r \in Requests, Fail(r) PROVE IInv'
<1>1. /\ TypeOK /\ ReqOK(req[r]) /\ raced' = raced
      /\ raced \subseteq Users /\ req[r] \in Request
      /\ manual \in 0 .. MaxManual /\ edits \in 0 .. MaxEdits
  BY ReqKnown DEF Fail, TypeOK
<1>2. PICK n \in Request :
        /\ Set(r, n) /\ n.exec = None /\ n.mgr = None
        /\ n = IdleReq \/ (n.kind = "public" /\ n.pc = "tell")
  <2>1. PICK s \in Nat : s = req[r].sub
    BY <1>1 DEF Request
  <2> DEFINE t == [IdleReq EXCEPT !.pc = "tell", !.kind = "public", !.sub = s]
  <2>2. Set(r, t) \/ Set(r, IdleReq)
    BY <2>1 DEF Fail, Finish
  <2>3. t \in Request /\ t.exec = None /\ t.mgr = None /\ t.kind = "public" /\ t.pc = "tell"
    BY DEF Request, IdleReq, AllKinds, CreateKinds
  <2>4. IdleReq.exec = None /\ IdleReq.mgr = None
    BY DEF IdleReq
  <2>5. QED BY <2>2, <2>3, <2>4, IdleTyped
<1>3. /\ n.kind \in {"none", "public"} /\ (n.kind = "none" <=> n.pc = "idle")
      /\ n.kind = "public" => n.pc = "tell"
  BY <1>2 DEF IdleReq
<1>4. ReqOK(n) /\ ~ Holds(n)
  BY <1>2, <1>3 DEF ReqOK, PcOK, CreateOK, AssignOK, NamesNobody, Holds, Locking,
                    CreateKinds, AssignKinds
<1>5. req' = [req EXCEPT ![r] = n] /\ ReleaseLock(r)
  BY <1>2 DEF Set, Fail
<1>6. LockOK' /\ lock' \in [Districts -> Nobody]
  BY <1>4, <1>5, LockReleased
<1>7. Steady
  BY <1>1, <1>6, Unmoved DEF Fail
<1>8. QED BY <1>2, <1>4, <1>5, <1>6, <1>7, BlankStep

-----------------------------------------------------------------------------
(* Steps that write a lead *)

\* The lead at i becomes l; a request may end by it.
LEMMA LeadStep ==
  ASSUME IInv, NEW i \in DOMAIN leads, NEW l \in Lead, leads' = [leads EXCEPT ![i] = l],
         leads[i].places \subseteq l.places, l.district \in l.places,
         l.flag <=> l.exec = None,
         \A u \in {l.exec, l.mgr} \cap Users : \E d \in l.places : Was(u, d),
         l.open /\ l.origin # None =>
            leads[i].open /\ leads[i].origin # None /\ l.exec = leads[i].exec,
         \A u \in Users \ raced' : l.open /\ u \in {l.exec, l.mgr} =>
            \/ leads[i].open /\ u \in {leads[i].exec, leads[i].mgr}
            \/ /\ status[u] # "DEACTIVATED"
               /\ \A q \in Requests : ~ (req[q].kind = "deactivate" /\ Named(req[q], u)),
         req' \in [Requests -> Request],
         \A q \in Requests : req'[q] = req[q] \/ (req'[q] = IdleReq /\ ~ Holds(req[q])),
         raced \subseteq raced', raced' \subseteq Users,
         UNCHANGED <<submissions, staff, status, present, lock, everStaff>>,
         manual' \in 0 .. MaxManual, edits' \in 0 .. MaxEdits
  PROVE  IInv'
<1>1. TypeOK /\ LockOK /\ leads \in Seq(Lead) /\ \A j \in DOMAIN leads : leads[j] \in Lead
  BY LeadsTyped DEF IInv
<1>2. /\ leads' \in Seq(Lead) /\ DOMAIN leads' = DOMAIN leads
      /\ \A j \in DOMAIN leads : leads'[j] = IF j = i THEN l ELSE leads[j]
  <2>1. i \in 1 .. Len(leads)
    BY <1>1, LeadsTyped
  <2>2. leads' \in Seq(Lead)
    BY <1>1, <2>1, ExceptSeq
  <2>3. QED BY <1>1, <2>2
<1>3. IdleReq.pc = "idle" /\ IdleReq.kind = "none" /\ IdleReq.exec = None /\ IdleReq.mgr = None
  BY DEF IdleReq
<1>4. (\A q \in Requests : ReqOK(req[q]))'
  <2>1. ASSUME NEW q \in Requests PROVE ReqOK(req[q])'
    <3>1. CASE req'[q] = IdleReq
      BY <1>3, <3>1 DEF ReqOK, PcOK, CreateOK, AssignOK, NamesNobody, CreateKinds, AssignKinds
    <3>2. CASE req'[q] = req[q]
      <4>1. ReqOK(req[q])
        BY DEF IInv
      <4>2. AssignOK(req[q])'
        BY <1>2, <3>2, <4>1 DEF ReqOK, AssignOK, Was
      <4>3. QED BY <3>2, <4>1, <4>2 DEF ReqOK, PcOK, CreateOK, NamesNobody, Was
    <3>3. QED BY <3>1, <3>2
  <2>2. QED BY <2>1
<1>5. LockOK'
  <2>1. \A q \in Requests : /\ Holds(req'[q]) => Holds(req[q]) /\ req'[q] = req[q]
                            /\ Holds(req[q]) => req'[q] = req[q]
    BY <1>3 DEF Holds, CreateKinds
  <2>2. \A d \in Districts : lock[d] # None => lock[d] \in Requests
    BY <1>1 DEF TypeOK, Nobody
  <2>3. QED BY <1>1, <2>1, <2>2 DEF LockOK, Holds
<1>6. TypeOK'
  <2>1. ASSUME NEW d \in Districts, lock'[d] # None
        PROVE  InTransaction(lock[d])' /\ req'[lock'[d]].district = d
    BY <1>5, <2>1 DEF LockOK, Holds, Locking, InTransaction
  <2>2. QED BY <1>1, <1>2, <2>1 DEF TypeOK
<1>7. ResponsiblesWereMapped' /\ InPlace'
  <2>1. ResponsiblesWereMapped /\ InPlace
    BY DEF IInv
  <2>2. InPlace'
    BY <1>2, <2>1 DEF InPlace
  <2>3. ASSUME NEW j \in DOMAIN leads
        PROVE  /\ leads'[j].flag <=> leads'[j].exec = None
               /\ \A u \in {leads'[j].exec, leads'[j].mgr} \cap Users :
                     \E d \in leads'[j].places : <<u, d>> \in everStaff
    <3>1. CASE j = i
      BY <1>2, <3>1 DEF Was
    <3>2. CASE j # i
      BY <1>2, <2>1, <3>2 DEF ResponsiblesWereMapped
    <3>3. QED BY <3>1, <3>2
  <2>4. ResponsiblesWereMapped'
    <3>1. DOMAIN leads' = DOMAIN leads /\ everStaff' = everStaff
      BY <1>2
    <3>2. QED BY <2>3, <3>1, Zenon DEF ResponsiblesWereMapped
  <2>5. QED BY <2>2, <2>4
<1>8. (\A u \in Users \ raced : UserOK(u))'
  <2>1. ASSUME NEW u \in Users \ raced' PROVE UserOK(u)'
    <3>1. UserOK(u)
      BY <2>1 DEF IInv
    <3>2. \A q \in Requests : /\ Named(req'[q], u) => Named(req[q], u) /\ req'[q] = req[q]
                              /\ Confirmed(req'[q], u) => Confirmed(req[q], u)
      BY <1>3, IntakeAssumption DEF Named, Confirmed, CreateKinds, AssignKinds
    <3>3. status[u] = "DEACTIVATED" => LeadsOf(u)' = {}
      BY <1>2, <2>1, <3>1 DEF UserOK, LeadsOf
    <3>4. ASSUME NEW q \in Requests, req'[q].kind = "deactivate", Named(req'[q], u)
          PROVE  LeadsOf(u)' = {} /\ \A s \in Requests \ {q} : ~ Named(req'[s], u)
      <4>1. req[q].kind = "deactivate" /\ Named(req[q], u)
        BY <3>2, <3>4
      <4>2. LeadsOf(u) = {} /\ \A s \in Requests \ {q} : ~ Named(req[s], u)
        BY <3>1, <4>1 DEF UserOK
      <4>3. LeadsOf(u)' = {}
        BY <1>2, <2>1, <4>1, <4>2 DEF LeadsOf
      <4>4. QED BY <3>2, <4>2, <4>3
    <3>5. \A q \in Requests : Confirmed(req'[q], u) => status[u] # "DEACTIVATED"
      BY <3>1, <3>2 DEF UserOK
    <3>6. QED BY <3>3, <3>4, <3>5 DEF UserOK, Confirmed, Named
  <2>2. QED BY <2>1
<1>9. (\A e \in Executives : CapOK(e))'
  <2>1. ASSUME NEW e \in Executives PROVE CapOK(e)'
    <3>1. Places(e)' = Places(e)
      BY DEF Places, Was
    <3>2. Pending(e)' \subseteq Pending(e)
      BY <1>3 DEF Pending, Picked, CreateKinds
    <3>3. Automatic(e)' \subseteq Automatic(e)
      <4>1. \A j \in DOMAIN leads : e # leads[j].mgr /\ e # leads'[j].mgr
        BY <1>1, <1>2, IntakeAssumption DEF Lead, Users
      <4>2. QED BY <1>2, <4>1 DEF Automatic, LeadsOf
    <3>4. Automatic(e) \in SUBSET DOMAIN leads
      BY DEF Automatic, LeadsOf
    <3>5. /\ Cardinality(Automatic(e)') <= Cardinality(Automatic(e))
          /\ Cardinality(Automatic(e)') \in Nat /\ Cardinality(Automatic(e)) \in Nat
      BY <1>1, <3>3, <3>4, LeadsFinite, FS_Subset, FS_CardinalityType
    <3>6. /\ Cardinality(Pending(e)') <= Cardinality(Pending(e))
          /\ Cardinality(Pending(e)') \in Nat /\ Cardinality(Pending(e)) \in Nat
          /\ Cardinality(Places(e)) \in Nat
      BY <3>2, PendingFinite, FS_Subset, FS_CardinalityType
    <3>7. CapOK(e) /\ Cap \in Nat
      BY IntakeAssumption DEF IInv
    <3>8. QED BY <3>1, <3>2, <3>3, <3>5, <3>6, <3>7 DEF CapOK
  <2>2. QED BY <2>1
<1>10. QED BY <1>4, <1>5, <1>6, <1>7, <1>8, <1>9 DEF IInv

LEMMA CommitAssignStep == ASSUME IInv, NEW r \in Requests, CommitAssign(r) PROVE IInv'
<1>1. /\ TypeOK /\ req[r].pc = "write" /\ req[r].kind \in AssignKinds /\ ReqOK(req[r])
      /\ req[r] \in Request /\ req \in [Requests -> Request] /\ raced \subseteq Users
      /\ manual \in 0 .. MaxManual /\ edits \in 0 .. MaxEdits
      /\ \A j \in DOMAIN leads : leads[j] \in Lead
  BY ReqKnown, LeadsTyped DEF CommitAssign, TypeOK
<1>2. PICK i, e, m : i = req[r].row /\ e = req[r].exec /\ m = req[r].mgr
  OBVIOUS
<1>3. /\ i \in DOMAIN leads /\ e \in Executives /\ m \in Managers \cup {None} /\ e # None
      /\ \E d \in leads[i].places : Was(e, d) /\ (m # None => Was(m, d))
  BY <1>1, <1>2 DEF ReqOK, AssignOK, Request
<1>4. PICK moved \in BOOLEAN, open \in BOOLEAN :
        leads' = [leads EXCEPT ![i] = [@ EXCEPT !.exec = e, !.mgr = m, !.flag = FALSE,
                     !.moved = moved, !.open = open, !.origin = None]]
  <2>1. /\ (leads[i].moved \/ req[r].ok) \in BOOLEAN
        /\ (leads[i].open \/ req[r].ok) \in BOOLEAN
    BY <1>1, <1>3 DEF Lead, Request
  <2>2. QED BY <1>2, <2>1 DEF CommitAssign
<1> DEFINE l == [leads[i] EXCEPT !.exec = e, !.mgr = m, !.flag = FALSE,
                     !.moved = moved, !.open = open, !.origin = None]
<1>5. /\ l \in Lead /\ l.exec = e /\ l.mgr = m /\ l.flag = FALSE /\ l.origin = None
      /\ l.places = leads[i].places /\ l.district = leads[i].district
  BY <1>1, <1>3 DEF Lead
<1>6. leads' = [leads EXCEPT ![i] = l]
  BY <1>4
<1> HIDE DEF l
<1>7. l.district \in l.places
  BY <1>3, <1>5 DEF IInv, InPlace
<1>8. \A u \in {l.exec, l.mgr} \cap Users : \E d \in l.places : Was(u, d)
  BY <1>3, <1>5, IntakeAssumption
<1>9. ASSUME NEW u \in Users \ raced, u \in {l.exec, l.mgr}
      PROVE  /\ status[u] # "DEACTIVATED"
             /\ \A q \in Requests : ~ (req[q].kind = "deactivate" /\ Named(req[q], u))
  <2>1. UserOK(u)
    BY <1>9 DEF IInv
  <2>2. Confirmed(req[r], u) /\ Named(req[r], u) /\ req[r].kind # "deactivate"
    BY <1>1, <1>2, <1>5, <1>9 DEF Confirmed, Named, AssignKinds
  <2>3. QED BY <2>1, <2>2 DEF UserOK
<1>10. /\ raced' = raced /\ req' = [req EXCEPT ![r] = IdleReq] /\ manual' = manual
       /\ edits' = edits /\ UNCHANGED <<submissions, staff, status, present, lock, everStaff>>
  BY DEF CommitAssign, Finish, Set
<1>11. ~ Holds(req[r]) /\ req' \in [Requests -> Request]
  BY <1>1, <1>10, IdleTyped DEF Holds, CreateKinds, AssignKinds
<1>12. \A q \in Requests : req'[q] = req[q] \/ (req'[q] = IdleReq /\ ~ Holds(req[q]))
  BY <1>1, <1>10, <1>11
<1>13. QED BY <1>1, <1>3, <1>5, <1>6, <1>7, <1>8, <1>9, <1>10, <1>11, <1>12, LeadStep

\* The lead at i closes, opens or moves; its responsibles stay.
LEMMA SameStaffStep ==
  ASSUME IInv, NEW i \in DOMAIN leads, NEW l \in Lead, leads' = [leads EXCEPT ![i] = l],
         l.exec = leads[i].exec, l.mgr = leads[i].mgr, l.flag = leads[i].flag,
         leads[i].places \subseteq l.places, l.district \in l.places,
         l.open => leads[i].open \/ l.origin = None,
         l.origin # None => leads[i].origin # None,
         raced \subseteq raced', raced' \subseteq Users,
         l.open /\ ~ leads[i].open => \A u \in {l.exec, l.mgr} \cap Users :
            u \notin raced' =>
               /\ status[u] # "DEACTIVATED"
               /\ \A q \in Requests : ~ (req[q].kind = "deactivate" /\ Named(req[q], u)),
         UNCHANGED <<submissions, staff, status, present, lock, req, everStaff>>,
         manual' \in 0 .. MaxManual, edits' \in 0 .. MaxEdits
  PROVE  IInv'
<1>1. req' \in [Requests -> Request] /\ ResponsiblesWereMapped
  BY DEF IInv, TypeOK
<1>2. \A u \in {leads[i].exec, leads[i].mgr} \cap Users : \E d \in leads[i].places : Was(u, d)
  BY <1>1 DEF ResponsiblesWereMapped, Was
<1>3. \A u \in {l.exec, l.mgr} \cap Users : \E d \in l.places : Was(u, d)
  BY <1>2
<1>4. l.flag <=> l.exec = None
  BY <1>1 DEF ResponsiblesWereMapped
<1>5. QED BY <1>1, <1>3, <1>4, LeadStep

LEMMA CloseLeadStep == ASSUME IInv, CloseLead PROVE IInv'
<1>1. PICK i \in DOMAIN leads :
        leads' = [leads EXCEPT ![i] = [@ EXCEPT !.open = FALSE, !.moved = TRUE]]
  BY DEF CloseLead
<1> DEFINE l == [leads[i] EXCEPT !.open = FALSE, !.moved = TRUE]
<1>2. leads[i] \in Lead /\ raced \subseteq Users /\ manual \in 0 .. MaxManual
      /\ edits \in 0 .. MaxEdits /\ leads[i].district \in leads[i].places
  BY LeadsTyped DEF IInv, TypeOK, InPlace
<1>3. /\ l \in Lead /\ l.exec = leads[i].exec /\ l.mgr = leads[i].mgr
      /\ l.flag = leads[i].flag /\ ~ l.open /\ l.origin = leads[i].origin
      /\ l.places = leads[i].places /\ l.district = leads[i].district
  BY <1>2 DEF Lead
<1>4. leads' = [leads EXCEPT ![i] = l]
  BY <1>1
<1> HIDE DEF l
<1>5. QED BY <1>2, <1>3, <1>4, SameStaffStep DEF CloseLead

LEMMA ReopenLeadStep == ASSUME IInv, ReopenLead PROVE IInv'
<1>1. PICK i \in DOMAIN leads :
        /\ ~ leads[i].open
        /\ leads' = [leads EXCEPT ![i] = [@ EXCEPT !.open = TRUE, !.origin = None]]
        /\ raced' = raced \cup {u \in {leads[i].exec, leads[i].mgr} \cap Users :
              status[u] = "DEACTIVATED" \/ Naming(u, {"deactivate"}) # {}}
  BY DEF ReopenLead
<1> DEFINE l == [leads[i] EXCEPT !.open = TRUE, !.origin = None]
<1>2. leads[i] \in Lead /\ raced \subseteq Users /\ manual \in 0 .. MaxManual
      /\ edits \in 0 .. MaxEdits /\ leads[i].district \in leads[i].places
  BY LeadsTyped DEF IInv, TypeOK, InPlace
<1>3. /\ l \in Lead /\ l.exec = leads[i].exec /\ l.mgr = leads[i].mgr
      /\ l.flag = leads[i].flag /\ l.open /\ l.origin = None
      /\ l.places = leads[i].places /\ l.district = leads[i].district
  BY <1>2 DEF Lead
<1>4. leads' = [leads EXCEPT ![i] = l]
  BY <1>1
<1> HIDE DEF l
<1>5. edits' \in 0 .. MaxEdits /\ manual' = manual
  <2>1. edits < MaxEdits /\ edits' = edits + 1 /\ manual' = manual
    BY DEF ReopenLead
  <2>2. QED BY <1>2, <2>1, IntakeAssumption
<1>6. raced \subseteq raced' /\ raced' \subseteq Users
  BY <1>1, <1>2
<1>7. ASSUME NEW u \in {l.exec, l.mgr} \cap Users, u \notin raced'
      PROVE  /\ status[u] # "DEACTIVATED"
             /\ \A q \in Requests : ~ (req[q].kind = "deactivate" /\ Named(req[q], u))
  BY <1>1, <1>3, <1>7 DEF Naming, Named
<1>8. UNCHANGED <<submissions, staff, status, present, lock, req, everStaff>>
  BY DEF ReopenLead
<1>9. QED BY <1>2, <1>3, <1>4, <1>5, <1>6, <1>7, <1>8, SameStaffStep

LEMMA MoveLeadStep == ASSUME IInv, MoveLead PROVE IInv'
<1>1. PICK i \in DOMAIN leads, d \in present :
        leads' = [leads EXCEPT ![i] = [@ EXCEPT !.district = d,
                                                !.places = leads[i].places \cup {d}]]
  BY DEF MoveLead
<1>2. leads[i] \in Lead /\ raced \subseteq Users /\ manual \in 0 .. MaxManual
      /\ edits \in 0 .. MaxEdits /\ leads[i].places \subseteq Districts /\ d \in Districts
  BY LeadsTyped DEF IInv, TypeOK, Lead
<1>3. leads[i].places \cup {d} \in SUBSET Districts
  BY <1>2
<1> DEFINE l == [leads[i] EXCEPT !.district = d, !.places = @ \cup {d}]
<1>4. /\ l \in Lead /\ l.exec = leads[i].exec /\ l.mgr = leads[i].mgr
      /\ l.flag = leads[i].flag /\ l.open = leads[i].open /\ l.origin = leads[i].origin
      /\ l.places = leads[i].places \cup {d} /\ l.district = d
  BY <1>2, <1>3 DEF Lead
<1>5. leads' = [leads EXCEPT ![i] = l]
  BY <1>1
<1> HIDE DEF l
<1>6. edits' \in 0 .. MaxEdits /\ manual' = manual
  <2>1. edits < MaxEdits /\ edits' = edits + 1 /\ manual' = manual
    BY DEF MoveLead
  <2>2. QED BY <1>2, <2>1, IntakeAssumption
<1>7. raced' = raced /\ UNCHANGED <<submissions, staff, status, present, lock, req, everStaff>>
  BY DEF MoveLead
<1>8. leads[i].places \subseteq l.places /\ l.district \in l.places
  BY <1>1, <1>4
<1>9. QED BY <1>2, <1>4, <1>5, <1>6, <1>7, <1>8, SameStaffStep

\* A creation commits: the lead it picked an executive for becomes one of the
\* automatic leads of the executive, and is pending no longer.
LEMMA CommitCreateStep == ASSUME IInv, NEW r \in Requests, CommitCreate(r) PROVE IInv'
<1>1. /\ TypeOK /\ req[r].pc = "write" /\ req[r].kind \in CreateKinds /\ ReqOK(req[r])
      /\ req[r] \in Request /\ req \in [Requests -> Request]
      /\ leads \in Seq(Lead) /\ Len(leads) \in Nat /\ DOMAIN leads = 1 .. Len(leads)
      /\ \A q \in Requests : ReqOK(req[q])
      /\ UNCHANGED <<submissions, staff, status, present, everStaff, raced, manual, edits>>
  BY ReqKnown, LeadsTyped DEF CommitCreate, IInv
<1>2. PICK e, m, d, last : /\ e = req[r].exec /\ m = req[r].mgr /\ d = req[r].district
                           /\ last = Len(leads) + 1
  OBVIOUS
<1>3. /\ e \in Executives \cup {None} /\ m \in Managers \cup {None} /\ d \in Districts
      /\ e # None => Was(e, d)
      /\ m # None => Was(m, d)
      /\ last \in Nat
  BY <1>1, <1>2 DEF ReqOK, CreateOK, Request
<1>4. PICK l \in Lead :
        /\ leads' = Append(leads, l) /\ l.exec = e /\ l.mgr = m /\ l.district = d
        /\ l.places = {d} /\ (l.flag <=> e = None) /\ l.open
        /\ l.origin = IF e = None THEN None ELSE d
  <2> DEFINE l == [exec |-> e, mgr |-> m, flag |-> e = None, moved |-> req[r].ok,
                   open |-> TRUE, district |-> d,
                   origin |-> IF e = None THEN None ELSE d, places |-> {d}]
  <2>1. req[r].ok \in BOOLEAN
    BY <1>1 DEF Request
  <2>2. l \in Lead
    BY <1>3, <2>1 DEF Lead
  <2>3. leads' = Append(leads, l)
    BY <1>2 DEF CommitCreate
  <2>4. QED BY <2>2, <2>3
<1>5. /\ leads' \in Seq(Lead) /\ DOMAIN leads' = 1 .. last /\ leads'[last] = l
      /\ \A j \in DOMAIN leads : j \in DOMAIN leads' /\ j # last /\ leads'[j] = leads[j]
      /\ \A j \in DOMAIN leads' : j = last \/ j \in DOMAIN leads
      /\ last \in DOMAIN leads' /\ last \notin DOMAIN leads
  BY <1>1, <1>2, <1>4, AppendProperties, LenProperties
<1>6. PICK n \in Request :
        /\ Set(r, n) /\ n.exec = None /\ n.mgr = None
        /\ n = IdleReq \/ (n.kind = "public" /\ n.pc = "tell")
  <2>1. PICK s \in Nat : s = req[r].sub
    BY <1>1 DEF Request
  <2> DEFINE t == [IdleReq EXCEPT !.pc = "tell", !.kind = "public", !.sub = s]
  <2>2. Set(r, t) \/ Set(r, IdleReq)
    BY <2>1 DEF CommitCreate, AfterCommit, Finish
  <2>3. t \in Request /\ t.exec = None /\ t.mgr = None /\ t.kind = "public" /\ t.pc = "tell"
    BY DEF Request, IdleReq, AllKinds, CreateKinds
  <2>4. IdleReq.exec = None /\ IdleReq.mgr = None
    BY DEF IdleReq
  <2>5. QED BY <2>2, <2>3, <2>4, IdleTyped
<1>7. /\ n.kind \in {"none", "public"} /\ (n.kind = "none" <=> n.pc = "idle")
      /\ n.kind = "public" => n.pc = "tell"
  BY <1>6 DEF IdleReq
<1>8. ReqOK(n) /\ ~ Holds(n)
  BY <1>6, <1>7 DEF ReqOK, PcOK, CreateOK, AssignOK, NamesNobody, Holds, Locking,
                    CreateKinds, AssignKinds
<1>9. /\ req' = [req EXCEPT ![r] = n] /\ req' \in [Requests -> Request]
      /\ \A q \in Requests : req'[q] = IF q = r THEN n ELSE req[q]
  BY <1>1, <1>6 DEF Set
<1>10. LockOK' /\ lock' \in [Districts -> Nobody]
  BY <1>8, <1>9, LockReleased DEF CommitCreate
<1>11. (\A q \in Requests : ReqOK(req[q]))'
  <2>1. ASSUME NEW q \in Requests PROVE ReqOK(req[q])'
    <3>1. ReqOK(req'[q])
      BY <1>1, <1>8, <1>9
    <3>2. AssignOK(req[q])'
      BY <1>1, <1>5, <3>1 DEF ReqOK, AssignOK, Was
    <3>3. QED BY <1>1, <3>1, <3>2 DEF ReqOK, PcOK, CreateOK, NamesNobody, Was
  <2>2. QED BY <2>1
<1>12. TypeOK'
  <2>1. ASSUME NEW c \in Districts, lock'[c] # None
        PROVE  InTransaction(lock[c])' /\ req'[lock'[c]].district = c
    BY <1>10, <2>1 DEF LockOK, Holds, Locking, InTransaction
  <2>2. QED BY <1>1, <1>5, <1>9, <1>10, <2>1 DEF TypeOK
<1>13. ResponsiblesWereMapped' /\ InPlace'
  <2>1. ResponsiblesWereMapped /\ InPlace
    BY DEF IInv
  <2>2. InPlace'
    BY <1>4, <1>5, <2>1 DEF InPlace
  <2>3. ASSUME NEW j \in DOMAIN leads'
        PROVE  /\ leads'[j].flag <=> leads'[j].exec = None
               /\ \A u \in {leads'[j].exec, leads'[j].mgr} \cap Users :
                     \E p \in leads'[j].places : <<u, p>> \in everStaff
    <3>1. CASE j = last
      <4>1. leads'[j] = l
        BY <1>5, <3>1
      <4>2. \A u \in {e, m} \cap Users : Was(u, d)
        BY <1>3, IntakeAssumption
      <4>3. \A u \in {l.exec, l.mgr} \cap Users : \E p \in l.places : <<u, p>> \in everStaff
        BY <1>4, <4>2 DEF Was
      <4>4. l.flag <=> l.exec = None
        BY <1>4
      <4>5. QED BY <4>1, <4>3, <4>4
    <3>2. CASE j \in DOMAIN leads
      <4>1. leads'[j] = leads[j]
        BY <1>5, <3>2
      <4>2. /\ leads[j].flag <=> leads[j].exec = None
            /\ \A u \in {leads[j].exec, leads[j].mgr} \cap Users :
                  \E p \in leads[j].places : <<u, p>> \in everStaff
        BY <2>1, <3>2, Zenon DEF ResponsiblesWereMapped
      <4>3. QED BY <4>1, <4>2
    <3>3. QED BY <1>5, <3>1, <3>2
  <2>4. everStaff' = everStaff
    BY <1>1
  <2>5. ResponsiblesWereMapped'
    BY <2>3, <2>4, Zenon DEF ResponsiblesWereMapped
  <2>6. QED BY <2>2, <2>5
<1>14. (\A u \in Users \ raced : UserOK(u))'
  <2>1. ASSUME NEW u \in Users \ raced' PROVE UserOK(u)'
    <3>1. UserOK(u) /\ u \in Users /\ u # None
      BY <1>1, <2>1, IntakeAssumption DEF IInv
    <3>2. Named(req[r], u) \/ LeadsOf(u)' = LeadsOf(u)
      BY <1>2, <1>4, <1>5 DEF Named, LeadsOf
    <3>3. Named(req[r], u) => status[u] # "DEACTIVATED"
      BY <1>1, <3>1 DEF UserOK, Confirmed
    <3>4. \A q \in Requests : /\ Named(req'[q], u) => q # r /\ req'[q] = req[q]
                              /\ Confirmed(req'[q], u) => q # r /\ Confirmed(req[q], u)
      BY <1>6, <1>9, <3>1 DEF Named, Confirmed
    <3>5. ASSUME NEW q \in Requests, req'[q].kind = "deactivate", Named(req'[q], u)
          PROVE  LeadsOf(u)' = {} /\ \A s \in Requests \ {q} : ~ Named(req'[s], u)
      <4>1. q # r /\ req[q].kind = "deactivate" /\ Named(req[q], u)
        BY <3>4, <3>5
      <4>2. LeadsOf(u) = {} /\ \A s \in Requests \ {q} : ~ Named(req[s], u)
        BY <3>1, <4>1 DEF UserOK
      <4>3. QED BY <3>2, <3>4, <4>1, <4>2
    <3>6. \A q \in Requests : Confirmed(req'[q], u) => status[u] # "DEACTIVATED"
      BY <3>1, <3>4 DEF UserOK
    <3>7. status[u] = "DEACTIVATED" => LeadsOf(u)' = {}
      BY <3>1, <3>2, <3>3 DEF UserOK
    <3>8. status' = status
      BY <1>1
    <3>9. QED BY <3>5, <3>6, <3>7, <3>8 DEF UserOK, Confirmed, Named
  <2>2. QED BY <2>1
<1>15. (\A x \in Executives : CapOK(x))'
  <2>1. ASSUME NEW x \in Executives PROVE CapOK(x)'
    <3>1. Places(x)' = Places(x) /\ x # None
      BY <1>1, IntakeAssumption DEF Places, Was, Users
    <3>2. Pending(x)' = Pending(x) \ {r} /\ (r \in Pending(x) <=> x = e)
      BY <1>1, <1>2, <1>6, <1>9, <3>1 DEF Pending, Picked
    <3>3. Automatic(x)' = Automatic(x) \cup (IF x = e THEN {last} ELSE {})
      <4>1. x # m /\ \A j \in DOMAIN leads : x # leads[j].mgr
        BY <1>1, <1>3, <3>1, LeadsTyped, IntakeAssumption DEF Lead, Users
      <4>2. l.origin # None <=> e # None
        BY <1>3, <1>4, IntakeAssumption
      <4>3. \A j \in DOMAIN leads : j \in Automatic(x)' <=> j \in Automatic(x)
        BY <1>5 DEF Automatic, LeadsOf
      <4>4. last \in Automatic(x)' <=> x = e
        BY <1>4, <1>5, <3>1, <4>1, <4>2 DEF Automatic, LeadsOf
      <4>5. Automatic(x) \subseteq DOMAIN leads /\ Automatic(x)' \subseteq DOMAIN leads'
        BY DEF Automatic, LeadsOf
      <4>6. QED BY <1>5, <4>3, <4>4, <4>5
    <3>4. CapOK(x) /\ Cap \in Nat
      BY IntakeAssumption DEF IInv
    <3>5. CASE x # e
      BY <3>1, <3>2, <3>3, <3>4, <3>5 DEF CapOK
    <3>6. CASE x = e
      <4>1. Automatic(x) \in SUBSET DOMAIN leads /\ last \notin Automatic(x)
        BY <1>5 DEF Automatic, LeadsOf
      <4>2. IsFiniteSet(Automatic(x)) /\ Cardinality(Automatic(x)) \in Nat
        BY <1>1, <4>1, LeadsFinite
      <4>3. PICK S : S = Automatic(x) OBVIOUS
      <4>4. Cardinality(S \cup {last}) = Cardinality(S) + 1
        BY <4>1, <4>2, <4>3, FS_AddElement
      <4>5. Cardinality(Automatic(x)') = Cardinality(Automatic(x)) + 1
        BY <3>3, <3>6, <4>3, <4>4
      <4>6. PICK P : P = Pending(x) OBVIOUS
      <4>7. Cardinality(P \ {r}) = Cardinality(P) - 1
        BY <3>2, <3>6, <4>6, PendingFinite, FS_RemoveElement
      <4>8. Cardinality(Pending(x)') = Cardinality(Pending(x)) - 1
        BY <3>2, <4>6, <4>7
      <4>9. Pending(x) # {}
        BY <3>2, <3>6
      <4>10. QED BY <3>1, <3>4, <4>2, <4>5, <4>8, <4>9, PendingFinite DEF CapOK
    <3>7. QED BY <3>5, <3>6
  <2>2. QED BY <2>1
<1>16. QED BY <1>10, <1>11, <1>12, <1>13, <1>14, <1>15 DEF IInv

-----------------------------------------------------------------------------
(* Users and mappings change *)

\* A change of users.status: who is deactivated by it is named by r alone.
LEMMA CommitDeactivateStep ==
  ASSUME IInv, NEW r \in Requests, CommitDeactivate(r) PROVE IInv'
<1>1. /\ TypeOK /\ req[r].pc = "drop" /\ req[r].kind = "deactivate" /\ LockOK
      /\ req \in [Requests -> Request] /\ status \in [Users -> {"ACTIVE", "SUSPENDED", "DEACTIVATED"}]
      /\ UNCHANGED <<leads, submissions, staff, present, lock, everStaff, raced, manual, edits>>
  BY ReqKnown DEF CommitDeactivate, TypeOK
<1>2. /\ req' = [req EXCEPT ![r] = IdleReq] /\ req' \in [Requests -> Request]
      /\ \A q \in Requests : req'[q] = IF q = r THEN IdleReq ELSE req[q]
  BY <1>1, IdleTyped DEF CommitDeactivate, Finish, Set
<1>3. IdleReq.pc = "idle" /\ IdleReq.kind = "none" /\ IdleReq.exec = None /\ IdleReq.mgr = None
  BY DEF IdleReq
<1>4. LockOK'
  BY <1>1, <1>2, <1>3, LockKept DEF Holds, CreateKinds
<1>5. /\ status' \in [Users -> {"ACTIVE", "SUSPENDED", "DEACTIVATED"}]
      /\ \A u \in Users : status'[u] = IF Named(req[r], u) THEN "DEACTIVATED" ELSE status[u]
  BY <1>1 DEF CommitDeactivate, Named
<1>6. (\A q \in Requests : ReqOK(req[q]))'
  <2>1. \A q \in Requests : ReqOK(req'[q])
    BY <1>2, <1>3 DEF IInv, ReqOK, PcOK, CreateOK, AssignOK, NamesNobody, CreateKinds, AssignKinds
  <2>2. QED BY <1>1, <2>1 DEF ReqOK, PcOK, CreateOK, AssignOK, NamesNobody, Was
<1>7. TypeOK'
  <2>1. ASSUME NEW c \in Districts, lock'[c] # None
        PROVE  InTransaction(lock[c])' /\ req'[lock'[c]].district = c
    BY <1>4, <2>1 DEF LockOK, Holds, Locking, InTransaction
  <2>2. QED BY <1>1, <1>2, <1>5, <2>1 DEF TypeOK
<1>8. ResponsiblesWereMapped' /\ InPlace'
  BY <1>1 DEF IInv, ResponsiblesWereMapped, InPlace
<1>9. (\A u \in Users \ raced : UserOK(u))'
  <2>1. ASSUME NEW u \in Users \ raced' PROVE UserOK(u)'
    <3>1. UserOK(u) /\ u \in Users /\ u # None
      BY <1>1, <2>1, IntakeAssumption DEF IInv
    <3>2. LeadsOf(u)' = LeadsOf(u)
      BY <1>1 DEF LeadsOf
    <3>3. \A q \in Requests : /\ Named(req'[q], u) => q # r /\ req'[q] = req[q]
                              /\ Confirmed(req'[q], u) => q # r /\ Confirmed(req[q], u)
      BY <1>2, <1>3, <3>1 DEF Named, Confirmed, CreateKinds, AssignKinds
    <3>4. Named(req[r], u) => LeadsOf(u) = {} /\ \A q \in Requests \ {r} : ~ Named(req[q], u)
      BY <1>1, <3>1 DEF UserOK
    <3>5. \A q \in Requests : Confirmed(req[q], u) => Named(req[q], u)
      BY DEF Confirmed, Named
    <3>6. status'[u] = "DEACTIVATED" => LeadsOf(u)' = {}
      BY <1>5, <3>1, <3>2, <3>4 DEF UserOK
    <3>7. \A q \in Requests : Confirmed(req'[q], u) => status'[u] # "DEACTIVATED"
      BY <1>5, <3>1, <3>3, <3>4, <3>5 DEF UserOK
    <3>8. ASSUME NEW q \in Requests, req'[q].kind = "deactivate", Named(req'[q], u)
          PROVE  LeadsOf(u)' = {} /\ \A s \in Requests \ {q} : ~ Named(req'[s], u)
      <4>1. req[q].kind = "deactivate" /\ Named(req[q], u)
        BY <3>3, <3>8
      <4>2. LeadsOf(u) = {} /\ \A s \in Requests \ {q} : ~ Named(req[s], u)
        BY <3>1, <4>1 DEF UserOK
      <4>3. QED BY <3>2, <3>3, <4>2
    <3>9. QED BY <3>6, <3>7, <3>8 DEF UserOK, Confirmed, Named
  <2>2. QED BY <2>1
<1>10. (\A e \in Executives : CapOK(e))'
  <2>1. ASSUME NEW e \in Executives PROVE CapOK(e)'
    <3>1. Pending(e)' = Pending(e)
      BY <1>1, <1>2, <1>3 DEF Pending, Picked, CreateKinds
    <3>2. Automatic(e)' = Automatic(e) /\ Places(e)' = Places(e)
      BY <1>1 DEF Automatic, LeadsOf, Places, Was
    <3>3. CapOK(e)
      BY DEF IInv
    <3>4. QED BY <3>1, <3>2, <3>3 DEF CapOK
  <2>2. QED BY <2>1
<1>11. QED BY <1>4, <1>6, <1>7, <1>8, <1>9, <1>10 DEF IInv

\* Users become active or suspended, mappings change: what was ever mapped
\* only grows.
LEMMA StaffStep ==
  ASSUME IInv, UNCHANGED <<leads, submissions, present, lock, req, raced, manual>>,
         edits' \in 0 .. MaxEdits,
         staff' \subseteq everStaff', everStaff \subseteq everStaff', everStaff' \subseteq Staff,
         status' \in [Users -> {"ACTIVE", "SUSPENDED", "DEACTIVATED"}],
         \A u \in Users : status'[u] = "DEACTIVATED" => status[u] = "DEACTIVATED"
  PROVE  IInv'
<1>1. TypeOK /\ LockOK /\ ResponsiblesWereMapped /\ InPlace
  BY DEF IInv
<1>2. TypeOK'
  <2>1. req \in [Requests -> Request] /\ submissions \in Seq({"pending", "noted"})
        /\ leads \in Seq(Lead)
    BY <1>1 DEF TypeOK
  <2>2. \A d \in Districts : lock'[d] # None =>
           InTransaction(lock[d])' /\ req'[lock'[d]].district = d
    BY <1>1 DEF TypeOK, InTransaction
  <2>3. staff' \subseteq Staff
    OBVIOUS
  <2>4. QED BY <1>1, <2>1, <2>2, <2>3 DEF TypeOK
<1>3. LockOK' /\ InPlace'
  BY <1>1 DEF LockOK, Holds, InPlace
<1>4. ResponsiblesWereMapped'
  <2>1. ASSUME NEW i \in DOMAIN leads
        PROVE  /\ leads[i].flag <=> leads[i].exec = None
               /\ \A u \in {leads[i].exec, leads[i].mgr} \cap Users :
                     \E d \in leads[i].places : <<u, d>> \in everStaff'
    BY <1>1 DEF ResponsiblesWereMapped
  <2>2. leads' = leads
    OBVIOUS
  <2>3. QED BY <2>1, <2>2, Zenon DEF ResponsiblesWereMapped
<1>5. (\A q \in Requests : ReqOK(req[q]))'
  <2>1. ASSUME NEW q \in Requests PROVE ReqOK(req[q])'
    <3>1. ReqOK(req[q]) /\ req' = req /\ leads' = leads
      BY DEF IInv
    <3>2. CreateOK(req[q])' /\ AssignOK(req[q])'
      BY <3>1 DEF ReqOK, CreateOK, AssignOK, Was
    <3>3. QED BY <3>1, <3>2 DEF ReqOK, PcOK, NamesNobody
  <2>2. QED BY <2>1
<1>6. (\A u \in Users \ raced : UserOK(u))'
  <2>1. ASSUME NEW u \in Users \ raced' PROVE UserOK(u)'
    <3>1. UserOK(u) /\ u \in Users
      BY <2>1 DEF IInv
    <3>2. LeadsOf(u)' = LeadsOf(u)
      BY DEF LeadsOf
    <3>3. QED BY <3>1, <3>2 DEF UserOK, Confirmed, Named
  <2>2. QED BY <2>1
<1>7. (\A e \in Executives : CapOK(e))'
  <2>1. ASSUME NEW e \in Executives PROVE CapOK(e)'
    <3>1. Automatic(e)' = Automatic(e) /\ Pending(e)' = Pending(e)
      BY DEF Automatic, LeadsOf, Pending, Picked
    <3>2. Places(e) \subseteq Places(e)'
      BY DEF Places, Was
    <3>3. /\ Cardinality(Places(e)) <= Cardinality(Places(e)')
          /\ Cardinality(Places(e)) \in Nat /\ Cardinality(Places(e)') \in Nat
      <4>1. IsFiniteSet(Places(e)')
        BY IntakeAssumption, FS_Subset DEF Places
      <4>2. QED BY <3>2, <4>1, FS_Subset, FS_CardinalityType, PendingFinite
    <3>4. Automatic(e) \in SUBSET DOMAIN leads
      BY DEF Automatic, LeadsOf
    <3>5. Cardinality(Automatic(e)) \in Nat /\ Cardinality(Pending(e)) \in Nat
      BY <1>1, <3>4, LeadsFinite, PendingFinite
    <3>6. CapOK(e) /\ Cap \in Nat
      BY IntakeAssumption DEF IInv
    <3>7. QED BY <3>1, <3>3, <3>5, <3>6 DEF CapOK
  <2>2. QED BY <2>1
<1>8. QED BY <1>2, <1>3, <1>4, <1>5, <1>6, <1>7 DEF IInv

LEMMA EditStaffStep ==
  ASSUME IInv, ReplaceDistrictStaff \/ ReplaceUserDistricts \/ ChangeStatus PROVE IInv'
<1>1. /\ TypeOK /\ edits \in 0 .. MaxEdits /\ staff \subseteq everStaff /\ everStaff \subseteq Staff
      /\ status \in [Users -> {"ACTIVE", "SUSPENDED", "DEACTIVATED"}]
      /\ present \subseteq Districts /\ EditableUsers \subseteq Users
  BY IntakeAssumption DEF IInv, TypeOK
<1>2. edits' \in 0 .. MaxEdits
  <2>1. edits < MaxEdits /\ edits' = edits + 1
    BY DEF ReplaceDistrictStaff, ReplaceUserDistricts, ChangeStatus
  <2>2. QED BY <1>1, <2>1, IntakeAssumption
<1>3. UNCHANGED <<leads, submissions, present, lock, req, raced, manual>>
  BY DEF ReplaceDistrictStaff, ReplaceUserDistricts, ChangeStatus
<1>4. CASE ReplaceDistrictStaff
  <2>0. PICK d \in present : \E S \in SUBSET (EditableUsers \X {d}) :
           staff' = (staff \ (EditableUsers \X {d})) \cup S
    BY <1>4 DEF ReplaceDistrictStaff
  <2>1. PICK S \in SUBSET (EditableUsers \X {d}) :
           staff' = (staff \ (EditableUsers \X {d})) \cup S
    BY <2>0
  <2>2. S \subseteq Staff
    BY <1>1 DEF Staff
  <2>3. staff' \subseteq Staff
    BY <1>1, <2>1, <2>2
  <2>4. everStaff' = everStaff \cup staff' /\ status' = status
    BY <1>4 DEF ReplaceDistrictStaff
  <2>5. QED BY <1>1, <1>2, <1>3, <2>3, <2>4, StaffStep
<1>5. CASE ReplaceUserDistricts
  <2>0. PICK u \in EditableUsers : \E S \in SUBSET ({u} \X present) :
           staff' = (staff \ ({u} \X Districts)) \cup S
    BY <1>5 DEF ReplaceUserDistricts
  <2>1. PICK S \in SUBSET ({u} \X present) :
           staff' = (staff \ ({u} \X Districts)) \cup S
    BY <2>0
  <2>2. S \subseteq Staff
    BY <1>1 DEF Staff
  <2>3. staff' \subseteq Staff
    BY <1>1, <2>1, <2>2
  <2>4. everStaff' = everStaff \cup staff' /\ status' = status
    BY <1>5 DEF ReplaceUserDistricts
  <2>5. QED BY <1>1, <1>2, <1>3, <2>3, <2>4, StaffStep
<1>6. CASE ChangeStatus
  <2>1. PICK u \in EditableUsers, s \in {"ACTIVE", "SUSPENDED"} :
           status' = [status EXCEPT ![u] = s]
    BY <1>6 DEF ChangeStatus
  <2>2. /\ status' \in [Users -> {"ACTIVE", "SUSPENDED", "DEACTIVATED"}]
        /\ \A v \in Users : status'[v] = "DEACTIVATED" => status[v] = "DEACTIVATED"
    BY <1>1, <2>1
  <2>3. staff' = staff /\ everStaff' = everStaff
    BY <1>6 DEF ChangeStatus
  <2>4. QED BY <1>1, <1>2, <1>3, <2>2, <2>3, StaffStep
<1>7. QED BY <1>4, <1>5, <1>6

-----------------------------------------------------------------------------
(* The theorems *)

LEMMA Begins == Init => IInv
<1> SUFFICES ASSUME Init PROVE IInv
  OBVIOUS
<1>1. /\ IdleReq.pc = "idle" /\ IdleReq.kind = "none" /\ IdleReq.exec = None
      /\ IdleReq.mgr = None /\ \A r \in Requests : req[r] = IdleReq
  BY DEF IdleReq, Init
<1>2. leads \in Seq(Lead) /\ DOMAIN leads = {} /\ submissions \in Seq({"pending", "noted"})
  BY EmptySeq, LenProperties DEF Init
<1>3. 0 \in 0 .. MaxManual /\ 0 \in 0 .. MaxEdits
  BY IntakeAssumption
<1>4. TypeOK
  BY <1>2, <1>3, IdleTyped, IntakeAssumption DEF Init, TypeOK, Nobody, Staff
<1>5. ResponsiblesWereMapped /\ InPlace
  BY <1>2 DEF ResponsiblesWereMapped, InPlace
<1>6. \A r \in Requests : ReqOK(req[r])
  BY <1>1 DEF ReqOK, PcOK, CreateOK, AssignOK, NamesNobody, CreateKinds, AssignKinds
<1>7. LockOK
  BY <1>1 DEF LockOK, Holds, CreateKinds, Init
<1>8. \A u \in Users \ raced : UserOK(u)
  BY <1>1, <1>2 DEF UserOK, LeadsOf, Confirmed, CreateKinds, AssignKinds
<1>9. \A e \in Executives : CapOK(e)
  BY <1>1, <1>2 DEF CapOK, Automatic, LeadsOf, Pending, Picked, CreateKinds
<1>10. QED BY <1>4, <1>5, <1>6, <1>7, <1>8, <1>9 DEF IInv

LEMMA Inductive == IInv /\ [Next]_vars => IInv'
<1> SUFFICES ASSUME IInv, [Next]_vars PROVE IInv'
  OBVIOUS
<1>1. ASSUME NEW r \in Requests, Start(r) PROVE IInv'
  BY <1>1, StartCreateStep, StartAssignStep, StartDeactivateStep, RemoveStep DEF Start
<1>2. ASSUME NEW r \in Requests, Advance(r) PROVE IInv'
  BY <1>2, SaveSubmissionStep, BeginStep, AcquireLockStep, PickManagerStep, PickExecutiveStep,
     StatusesAnswerStep, CommitCreateStep, TellCustomerStep, CheckStep, CommitAssignStep,
     CommitDeactivateStep, RemoveMappingsStep, RemoveStep, FailStep
     DEF Advance, AskDatabase
<1>3. ASSUME NEW r \in Requests, AskCaches(r) PROVE IInv'
  BY <1>3, StatusesAnswerStep DEF AskCaches
<1>4. ASSUME Edit PROVE IInv'
  BY <1>4, CloseLeadStep, ReopenLeadStep, MoveLeadStep, EditStaffStep DEF Edit
<1>5. CASE UNCHANGED vars
  <2>1. UNCHANGED <<leads, submissions, staff, status, present, lock, req, everStaff,
                    raced, manual, edits>>
    BY <1>5 DEF vars
  <2>2. TypeOK
    BY DEF IInv
  <2>3. QED BY <2>1, <2>2, StaffStep DEF TypeOK
<1>6. QED BY <1>1, <1>2, <1>3, <1>4, <1>5 DEF Next

\* What every step keeps, and the properties below follow from.
THEOREM Invariant == Spec => []IInv
BY Begins, Inductive, PTL DEF Spec

\* Every state is well typed.
THEOREM TypeCorrect == Spec => []TypeOK
<1>1. IInv => TypeOK
  BY DEF IInv
<1>2. QED BY <1>1, Invariant, PTL

\* Each responsible of a lead was mapped to a district the lead was in, the
\* flag of a missing executive tells the truth, and whoever was deactivated
\* holds no active lead unless a request named the user meanwhile.
THEOREM AssignmentsSound == Spec => []AssignmentsAreSound
<1>1. IInv => AssignmentsAreSound
  BY DEF IInv, AssignmentsAreSound, DeactivatedHoldNoLeads, UserOK
<1>2. QED BY <1>1, Invariant, PTL

\* An executive has fewer automatically assigned leads than the cap and its
\* districts together.
THEOREM CapOvershootBounded == Spec => []CapOvershoot
<1>1. IInv => CapOvershoot
  <2> SUFFICES ASSUME IInv, NEW e \in Executives, Automatic(e) # {}
               PROVE  Cardinality(Automatic(e)) < Cap + Cardinality(Places(e))
    BY DEF CapOvershoot, Automatic, Places, Was
  <2>1. CapOK(e) /\ TypeOK /\ Cap \in Nat
    BY IntakeAssumption DEF IInv
  <2>2. Automatic(e) \in SUBSET DOMAIN leads
    BY DEF Automatic, LeadsOf
  <2>3. Cardinality(Automatic(e)) \in Nat
    BY <2>1, <2>2, LeadsFinite
  <2>4. QED BY <2>1, <2>3, PendingFinite DEF CapOK
<1>2. QED BY <1>1, Invariant, PTL
=============================================================================
