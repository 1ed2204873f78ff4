-------------------------- MODULE Accounts_proofs --------------------------
(***************************************************************************)
(* Proofs about Accounts for every set of requests, whatever kinds each of *)
(* them may be, and every bound: type correctness, that an account keeps   *)
(* its auth user and a password that was answered for, that a setup link   *)
(* is spent once, and that a revocation lasts.                             *)
(* And about PhoneSession, beside which MCAccounts runs it, for any users, *)
(* sign-ins, push tokens and events: whom the app shows is whose cookies   *)
(* it sends, and whose the row of its push token is.                       *)
(***************************************************************************)
EXTENDS MCAccounts, SequenceTheorems, TLAPS

-----------------------------------------------------------------------------
(* The inductive invariant *)

\* Where a request of each kind can be, and what it has done by then.
PcOK(q) ==
  /\ q.kind = "none" <=> q.pc = "idle"
  /\ q.kind = "create" => q.pc \in {"find", "createAuth", "updateAuth", "insert", "cleanup"}
  /\ q.kind = "setup" => q.pc \in {"find", "updateAuth", "spend"}
  /\ q.kind = "reset" => q.pc \in {"find", "updateAuth", "spend", "mark"}
  /\ q.kind = "change" => q.pc \in {"find", "updateAuth", "relogin"}
  /\ q.kind = "profile" => q.pc \in {"find", "updateAuth"}
  /\ q.kind = "status" => q.pc \in {"writeStatus", "mark"}
  /\ q.kind = "login" => q.pc \in {"map", "provision", "clear", "pending"}
  /\ q.made => q.pc \in {"insert", "cleanup"}
  /\ q.pc = "cleanup" => q.made
  /\ q.wrote <=> \/ q.pc \in {"insert", "cleanup", "spend", "relogin"}
                 \/ q.kind = "reset" /\ q.pc = "mark"
  /\ q.pc \in {"updateAuth", "insert"} => q.found # 0

\* Requests that run have numbers of their own.
NumbersOK ==
  /\ \A r \in Requests : req[r].pc # "idle" => req[r].number \in 1 .. count
  /\ \A r, q \in Requests :
        req[r].pc # "idle" /\ req[q].pc # "idle" /\ req[r].number = req[q].number => r = q

\* What a request read is still so while it is alone.
AloneOK(r) ==
  req[r].alone /\ req[r].pc # "idle" =>
    /\ \A q \in Requests \ {r} : req[q].pc = "idle"
    /\ req[r].kind = "setup" => app.token \in {"open", "expired"}
    /\ req[r].kind = "change" => app.status = "ACTIVE"

\* A token belongs to a row, and is spent once.
TokenOK ==
  /\ app.token # "none" => Present
  /\ closings <= 1
  /\ app.token # "used" => closings = 0

\* The auth user that is there was made by the creation that says so.
External == auth.id = MaxRequests + 1
MakerOK(r) == req[r].made => auth.id = req[r].number /\ req[r].found = req[r].number /\ ~ External

\* A creation that found an auth user still finds it, and does not meet the
\* one that made it, unless it raced.
Adopting(q) == q.kind = "create" /\ q.pc \in {"updateAuth", "insert"}
AdoptedOK ==
  ~ raced =>
    /\ \A r \in Requests : Adopting(req[r]) => auth.id = req[r].found
    /\ \A r, q \in Requests : req[r].made /\ Adopting(req[q]) => r = q

\* Before there is a row, there are only creations, and logins of the user
\* that Supabase knew already.
BeforeOK ==
  ~ Present =>
    /\ \A r \in Requests : req[r].kind \in {"none", "create", "login"}
    /\ \A r \in Requests : req[r].kind = "login" => External
    /\ Exists => auth.temporary \/ External

\* Once there is one, nobody is left who might remove the auth user.
KeptOK == Present /\ ~ raced => Exists /\ \A r \in Requests : ~ req[r].made

\* Whoever wrote the password that counts will answer for it, or has.
Answers(q) == q.wrote /\ q.number = auth.password
PasswordOK == Exists => auth.password \in explained \/ \E r \in Requests : Answers(req[r])

\* A revocation that is not on its way has come, and no login takes it away.
Revoked == app.status \in {"SUSPENDED", "DEACTIVATED"}
Undoing(q) == q.pc = "clear" /\ q.marked
RevocationOK ==
  /\ Exists /\ ~ undone /\ Revoked /\ \A r \in Requests : req[r].pc # "mark"
  => auth.marker /\ \A r \in Requests : ~ Undoing(req[r])

IInv ==
  /\ TypeOK /\ NumbersOK /\ TokenOK
  /\ \A r \in Requests : PcOK(req[r]) /\ AloneOK(r) /\ MakerOK(r)
  /\ AdoptedOK /\ BeforeOK /\ KeptOK /\ PasswordOK /\ RevocationOK

-----------------------------------------------------------------------------
(* One request goes on *)

LEMMA Known ==
  ASSUME IInv, NEW r \in Requests
  PROVE  /\ TypeOK /\ PcOK(req[r]) /\ AloneOK(r) /\ MakerOK(r)
         /\ req \in [Requests -> Request] /\ req[r] \in Request
         /\ auth \in [id : 0 .. MaxRequests + 1, password : 0 .. MaxRequests,
                     temporary : BOOLEAN, marker : BOOLEAN]
         /\ app \in [status : UserStatus \cup {"absent"},
                    token : {"none", "open", "expired", "used"}]
BY DEF IInv, TypeOK

\* Request r becomes q: it ends, or goes on as what it is.
Goes(r, q) ==
  /\ q \in Request /\ req' = [req EXCEPT ![r] = q] /\ req[r].pc # "idle"
  /\ \/ q = IdleReq
     \/ /\ q.pc # "idle" /\ q.kind = req[r].kind
        /\ q.number = req[r].number /\ q.alone = req[r].alone

LEMMA Idle ==
  /\ IdleReq \in Request /\ PcOK(IdleReq) /\ IdleReq.pc = "idle" /\ IdleReq.kind = "none"
  /\ ~ IdleReq.made /\ ~ IdleReq.wrote /\ ~ Adopting(IdleReq) /\ ~ Undoing(IdleReq)
BY AccountsAssumption DEF IdleReq, Request, PcOK, Adopting, Undoing, UserStatus

LEMMA Others ==
  ASSUME IInv, NEW r \in Requests, NEW q, Goes(r, q)
  PROVE  /\ req' \in [Requests -> Request] /\ req'[r] = q
         /\ \A s \in Requests \ {r} : req'[s] = req[s]
BY Known DEF Goes

LEMMA GotoStep ==
  ASSUME IInv, NEW r \in Requests, req[r].pc # "idle",
         NEW pc \in {"createAuth", "cleanup", "mark", "provision", "clear", "pending"},
         Goto(r, pc)
  PROVE  \E q \in Request :
            /\ Goes(r, q) /\ q.pc = pc /\ q.kind = req[r].kind /\ q.number = req[r].number
            /\ q.found = req[r].found /\ q.marked = req[r].marked
            /\ q.made = req[r].made /\ q.wrote = req[r].wrote
<1> DEFINE q == [req[r] EXCEPT !.pc = pc]
<1>1. /\ q \in Request /\ q.pc = pc /\ q.kind = req[r].kind /\ q.number = req[r].number
      /\ q.found = req[r].found /\ q.marked = req[r].marked /\ q.alone = req[r].alone
      /\ q.made = req[r].made /\ q.wrote = req[r].wrote
  BY Known DEF Request
<1>2. req' = [req EXCEPT ![r] = q]
  BY DEF Goto, Set
<1> HIDE DEF q
<1>3. Goes(r, q)
  BY <1>1, <1>2 DEF Goes
<1>4. QED BY <1>1, <1>3

\* The request ends; what it owes is said by `explained`.
Ends(r) ==
  /\ Goes(r, IdleReq) /\ explained \subseteq explained' /\ explained' \subseteq 0 .. MaxRequests

LEMMA AnswerStep ==
  ASSUME IInv, NEW r \in Requests, req[r].pc # "idle",
         NEW success \in BOOLEAN, NEW excuse \in BOOLEAN, Answer(r, success, excuse)
  PROVE  /\ Ends(r)
         /\ req[r].wrote /\ (success \/ excuse) => req[r].number \in explained'
<1>1. Goes(r, IdleReq)
  BY Idle DEF Answer, Set, Goes
<1>2. explained \subseteq 0 .. MaxRequests /\ req[r].number \in 0 .. MaxRequests
  BY Known DEF TypeOK, Request
<1>3. QED BY <1>1, <1>2 DEF Answer, Ends

LEMMA RefuseStep ==
  ASSUME IInv, NEW r \in Requests, req[r].pc # "idle", Refuse(r)
  PROVE  Ends(r) /\ (req[r].wrote /\ ~ req[r].alone => req[r].number \in explained')
<1>1. PICK excuse \in BOOLEAN : excuse = ~ req[r].alone
  OBVIOUS
<1>2. Answer(r, FALSE, excuse)
  BY <1>1 DEF Refuse
<1>3. QED BY <1>1, <1>2, AnswerStep

-----------------------------------------------------------------------------
(* What a step leaves alone, part by part of the invariant *)

LEMMA NumbersKept ==
  ASSUME IInv, NEW r \in Requests, NEW q, Goes(r, q), count' = count
  PROVE  NumbersOK'
<1>1. \A s \in Requests :
        req'[s].pc # "idle" => req[s].pc # "idle" /\ req'[s].number = req[s].number
  BY Others, Idle DEF Goes
<1>2. QED BY <1>1 DEF IInv, NumbersOK

LEMMA AloneKept ==
  ASSUME IInv, NEW r \in Requests, NEW q, Goes(r, q),
         q.kind = "setup" => app'.token = app.token,
         q.kind = "change" => app'.status = app.status
  PROVE  \A s \in Requests : AloneOK(s)'
<1>1. ASSUME NEW s \in Requests PROVE AloneOK(s)'
  <2>1. CASE s = r
    BY <2>1, Known, Others, Idle DEF AloneOK, Goes
  <2>2. CASE s # r
    <3>1. ~ (req[s].alone /\ req[s].pc # "idle")
      BY <2>2, Known DEF AloneOK, Goes
    <3>2. QED BY <2>2, <3>1, Others DEF AloneOK
  <2>3. QED BY <2>1, <2>2
<1>2. QED BY <1>1

\* The parts about who made the auth user.
Makers == (\A r \in Requests : MakerOK(r)) /\ AdoptedOK /\ BeforeOK /\ KeptOK

LEMMA MakersKept ==
  ASSUME IInv, NEW r \in Requests, NEW q, Goes(r, q),
         Present' = Present, raced => raced', auth'.id = auth.id,
         ~ Present /\ auth.temporary => auth'.temporary,
         q.made => req[r].made /\ q.found = req[r].found,
         ~ raced' /\ Adopting(q) =>
            auth.id = q.found /\ \A s \in Requests \ {r} : ~ req[s].made
  PROVE  Makers'
<1>1. ASSUME NEW s \in Requests PROVE MakerOK(s)'
  <2>1. req'[s].made => /\ req[s].made /\ req'[s].found = req[s].found
                        /\ req'[s].number = req[s].number
    BY Others, Idle DEF Goes
  <2>2. QED BY <2>1, Known DEF MakerOK, External
<1>2. AdoptedOK'
  <2> SUFFICES ASSUME ~ raced'
               PROVE  /\ \A s \in Requests : Adopting(req'[s]) => auth'.id = req'[s].found
                      /\ \A s, u \in Requests : req'[s].made /\ Adopting(req'[u]) => s = u
    BY DEF AdoptedOK, Adopting
  <2>1. /\ \A s \in Requests : Adopting(req[s]) => auth.id = req[s].found
        /\ \A s, u \in Requests : req[s].made /\ Adopting(req[u]) => s = u
    BY DEF IInv, AdoptedOK
  <2>2. \A s \in Requests : req'[s].made => req[s].made
    BY Others
  <2>3. QED BY <2>1, <2>2, Others
<1>3. BeforeOK'
  <2>1. \A s \in Requests : req'[s].kind \in {"none", req[s].kind}
    BY Others, Idle DEF Goes
  <2>2. QED BY <2>1 DEF IInv, BeforeOK, External, Exists
<1>4. KeptOK'
  <2>1. \A s \in Requests : req'[s].made => req[s].made
    BY Others
  <2>2. QED BY <2>1 DEF IInv, KeptOK, Exists
<1>5. QED BY <1>1, <1>2, <1>3, <1>4 DEF Makers

LEMMA PasswordKept ==
  ASSUME IInv, NEW r \in Requests, NEW q, Goes(r, q), Exists' => Exists,
         auth'.password = auth.password, explained \subseteq explained',
         Exists /\ Answers(req[r]) => auth.password \in explained' \/ Answers(q)
  PROVE  PasswordOK'
<1> SUFFICES ASSUME Exists'
             PROVE  auth.password \in explained' \/ \E s \in Requests : Answers(req'[s])
  BY DEF PasswordOK, Answers
<1>1. CASE auth.password \in explained
  BY <1>1
<1>2. CASE \E s \in Requests : Answers(req[s])
  <2>1. PICK s \in Requests : Answers(req[s])
    BY <1>2
  <2>2. CASE s = r
    BY <2>1, <2>2, Others
  <2>3. CASE s # r
    BY <2>1, <2>3, Others
  <2>4. QED BY <2>2, <2>3
<1>3. QED BY <1>1, <1>2 DEF IInv, PasswordOK

LEMMA RevocationKept ==
  ASSUME IInv, NEW r \in Requests, NEW q, Goes(r, q), Exists' => Exists, undone => undone',
         Revoked' => Revoked \/ undone', auth.marker => auth'.marker,
         req[r].pc = "mark" => undone',
         Undoing(q) => Undoing(req[r]) \/ ~ Revoked'
  PROVE  RevocationOK'
<1> SUFFICES ASSUME Exists', ~ undone', Revoked', \A s \in Requests : req'[s].pc # "mark"
             PROVE  auth'.marker /\ \A s \in Requests : ~ Undoing(req'[s])
  BY DEF RevocationOK, Undoing
<1>1. \A s \in Requests : req[s].pc # "mark"
  BY Others
<1>2. auth.marker /\ \A s \in Requests : ~ Undoing(req[s])
  BY <1>1 DEF IInv, RevocationOK
<1>3. QED BY <1>2, Others

\* All parts together.
LEMMA Together ==
  ASSUME IInv, NEW r \in Requests, NEW q, Goes(r, q), PcOK(q), count' = count,
         app' \in [status : UserStatus \cup {"absent"}, token : {"none", "open", "expired", "used"}],
         auth' \in [id : 0 .. MaxRequests + 1, password : 0 .. MaxRequests,
                    temporary : BOOLEAN, marker : BOOLEAN],
         ~ Exists' => auth' = NoAuth, faults' \in 0 .. MaxFaults,
         explained' \subseteq 0 .. MaxRequests, closings' \in Nat,
         raced' \in BOOLEAN, undone' \in BOOLEAN,
         q.kind = "setup" => app'.token = app.token,
         q.kind = "change" => app'.status = app.status,
         TokenOK', Makers', PasswordOK', RevocationOK'
  PROVE  IInv'
<1>1. ASSUME NEW s \in Requests PROVE PcOK(req[s])' /\ req'[s] \in Request
  <2>1. PcOK(req'[s]) /\ req'[s] \in Request
    BY Others, Known DEF Goes
  <2>2. QED BY <2>1 DEF PcOK
<1>2. \A s \in Requests : req'[s].pc = "cleanup" => req'[s].kind = "create" /\ req'[s].made
  <2>1. ASSUME NEW s \in Requests, req'[s].pc = "cleanup"
        PROVE  req'[s].kind = "create" /\ req'[s].made
    BY <1>1, <2>1 DEF PcOK, Request, AllKinds
  <2>2. QED BY <2>1
<1>3. TypeOK'
  BY <1>2, Others, Known DEF TypeOK
<1>4. QED BY <1>1, <1>3, NumbersKept, AloneKept DEF IInv, Makers

\* Neither system changes, and the request stays where its kind is.
LEMMA LocalStep ==
  ASSUME IInv, NEW r \in Requests, NEW q, Goes(r, q), PcOK(q),
         UNCHANGED <<app, auth, count, closings>>,
         faults' \in 0 .. MaxFaults, raced' \in BOOLEAN, undone' \in BOOLEAN,
         explained \subseteq explained', explained' \subseteq 0 .. MaxRequests,
         raced => raced', undone => undone',
         q.made => req[r].made /\ q.found = req[r].found,
         ~ raced' /\ Adopting(q) =>
            auth.id = q.found /\ \A s \in Requests \ {r} : ~ req[s].made,
         Exists /\ Answers(req[r]) => auth.password \in explained' \/ Answers(q),
         req[r].pc = "mark" => undone',
         Undoing(q) => Undoing(req[r]) \/ ~ Revoked
  PROVE  IInv'
<1>1. Makers'
  BY MakersKept DEF Present
<1>2. PasswordOK'
  BY PasswordKept DEF Exists
<1>3. RevocationOK'
  BY RevocationKept DEF Exists, Revoked
<1>4. TokenOK'
  BY DEF IInv, TokenOK, Present
<1>5. ~ Exists' => auth' = NoAuth
  BY DEF IInv, TypeOK, Exists
<1>6. closings' \in Nat
  BY DEF IInv, TypeOK
<1>7. QED BY <1>1, <1>2, <1>3, <1>4, <1>5, <1>6, Known, Together

\* The request ends, and neither system changes.
LEMMA EndStep ==
  ASSUME IInv, NEW r \in Requests, Ends(r),
         UNCHANGED <<app, auth, count, closings>>,
         faults' \in 0 .. MaxFaults, raced' = raced, undone' \in BOOLEAN, undone => undone',
         req[r].pc = "mark" => undone',
         Exists /\ Answers(req[r]) => req[r].number \in explained'
  PROVE  IInv'
<1>1. Exists /\ Answers(req[r]) => auth.password \in explained'
  BY DEF Answers
<1>2. raced' \in BOOLEAN
  BY DEF IInv, TypeOK
<1>3. QED BY <1>1, <1>2, Idle, LocalStep DEF Ends

LEMMA FaultStep ==
  ASSUME IInv, faults < MaxFaults, faults' = faults + 1
  PROVE  faults' \in 0 .. MaxFaults
<1>1. faults \in 0 .. MaxFaults
  BY DEF IInv, TypeOK
<1>2. QED BY <1>1, AccountsAssumption

-----------------------------------------------------------------------------
(* The auth user is found, made, changed and removed *)

LEMMA FindUserStep == ASSUME IInv, NEW r \in Requests, FindUser(r) PROVE IInv'
<1>1. /\ req[r].pc = "find" /\ PcOK(req[r]) /\ ~ req[r].wrote /\ ~ req[r].made
      /\ UNCHANGED <<app, auth, count, faults, closings, undone>>
      /\ faults' \in 0 .. MaxFaults /\ undone' \in BOOLEAN /\ raced \in BOOLEAN
      /\ explained \subseteq 0 .. MaxRequests
  <2>1. PcOK(req[r]) /\ TypeOK /\ req[r] \in Request
    BY Known
  <2>2. QED BY <2>1 DEF FindUser, PcOK, TypeOK, Request
<1>2. CASE Refuse(r) /\ UNCHANGED raced
  BY <1>1, <1>2, RefuseStep, EndStep DEF Answers
<1>3. CASE req[r].kind = "create" /\ Goto(r, "createAuth") /\ UNCHANGED <<explained, raced>>
  <2>1. PICK q \in Request :
          /\ Goes(r, q) /\ q.pc = "createAuth" /\ q.kind = req[r].kind
          /\ q.made = req[r].made /\ q.wrote = req[r].wrote
    BY <1>1, <1>3, GotoStep
  <2>2. PcOK(q) /\ ~ Adopting(q) /\ ~ Undoing(q)
    BY <1>1, <1>3, <2>1 DEF PcOK, Adopting, Undoing
  <2>3. QED BY <1>1, <1>3, <2>1, <2>2, LocalStep DEF Answers
<1>4. CASE /\ Exists /\ UNCHANGED explained
           /\ Set(r, [req[r] EXCEPT !.pc = "updateAuth", !.found = auth.id, !.marked = auth.marker])
           /\ raced' = (raced \/ /\ req[r].kind = "create"
                                 /\ \E q \in Running("create") \ {r} :
                                       req[q].made /\ req[q].found = auth.id)
  <2>1. PICK id, marker : id = auth.id /\ marker = auth.marker
    OBVIOUS
  <2> DEFINE q == [req[r] EXCEPT !.pc = "updateAuth", !.found = id, !.marked = marker]
  <2>2. /\ q \in Request /\ q.pc = "updateAuth" /\ q.found = id
        /\ q.kind = req[r].kind /\ q.number = req[r].number /\ q.alone = req[r].alone
        /\ q.made = req[r].made /\ q.wrote = req[r].wrote
    BY <2>1, Known, ZenonT(60) DEF Request
  <2>3. req' = [req EXCEPT ![r] = q]
    BY <1>4, <2>1 DEF Set
  <2> HIDE DEF q
  <2>4. Goes(r, q)
    BY <1>1, <2>2, <2>3 DEF Goes
  <2>5. PcOK(q) /\ ~ Undoing(q)
    BY <1>1, <1>4, <2>1, <2>2 DEF PcOK, Undoing, Exists
  <2>6. raced' \in BOOLEAN /\ (raced => raced')
    BY <1>1, <1>4
  <2>7. ASSUME ~ raced', Adopting(q), NEW s \in Requests \ {r} PROVE ~ req[s].made
    <3> SUFFICES ASSUME req[s].made PROVE FALSE
      OBVIOUS
    <3>1. req[s].kind = "create" /\ req[s].found = auth.id
      <4>1. PcOK(req[s]) /\ req[s] \in Request /\ MakerOK(s)
        BY Known
      <4>2. QED BY <4>1 DEF PcOK, MakerOK, Request, AllKinds
    <3>2. req[r].kind = "create"
      BY <2>2, <2>7 DEF Adopting
    <3>3. QED BY <1>4, <2>7, <3>1, <3>2 DEF Running
  <2>8. QED BY <1>1, <1>4, <2>1, <2>2, <2>4, <2>5, <2>6, <2>7, LocalStep DEF Answers
<1>5. QED BY <1>2, <1>3, <1>4 DEF FindUser

LEMMA CreateAuthUserStep == ASSUME IInv, NEW r \in Requests, CreateAuthUser(r) PROVE IInv'
<1>1. /\ req[r].pc = "createAuth" /\ PcOK(req[r]) /\ ~ req[r].wrote /\ ~ req[r].made
      /\ req[r].kind = "create" /\ req[r].number \in 1 .. MaxRequests
      /\ UNCHANGED <<app, count, faults, closings, raced>>
      /\ faults' \in 0 .. MaxFaults /\ undone \in BOOLEAN /\ raced' \in BOOLEAN
      /\ explained \subseteq 0 .. MaxRequests /\ closings' \in Nat
  <2>1. PcOK(req[r]) /\ TypeOK /\ req[r] \in Request
    BY Known
  <2>2. req[r].pc = "createAuth" => req[r].number \in 1 .. count
    BY DEF IInv, NumbersOK
  <2>3. 1 .. count \subseteq 1 .. MaxRequests
    BY <2>1, AccountsAssumption DEF TypeOK
  <2>4. QED BY <2>1, <2>2, <2>3 DEF CreateAuthUser, PcOK, TypeOK, Request, AllKinds
<1>2. CASE Refuse(r) /\ UNCHANGED <<auth, undone>>
  BY <1>1, <1>2, RefuseStep, EndStep DEF Answers
<1>3. CASE /\ ~ Exists /\ UNCHANGED explained /\ undone' = (undone \/ Present)
           /\ auth' = [id |-> req[r].number, password |-> req[r].number,
                       temporary |-> TRUE, marker |-> FALSE]
           /\ Set(r, [req[r] EXCEPT !.pc = "insert", !.found = req[r].number,
                                    !.made = TRUE, !.wrote = TRUE])
  <2>1. PICK n \in 1 .. MaxRequests : n = req[r].number
    BY <1>1
  <2> DEFINE q == [req[r] EXCEPT !.pc = "insert", !.found = n, !.made = TRUE, !.wrote = TRUE]
  <2>2. /\ q \in Request /\ q.pc = "insert" /\ q.found = n /\ q.kind = req[r].kind
        /\ q.number = n /\ q.alone = req[r].alone /\ q.made /\ q.wrote
    <3>1. n \in 0 .. MaxRequests + 1
      BY AccountsAssumption
    <3>2. QED BY <2>1, <3>1, Known, ZenonT(60) DEF Request
  <2>3. req' = [req EXCEPT ![r] = q]
    BY <1>3, <2>1 DEF Set
  <2> HIDE DEF q
  <2>4. Goes(r, q) /\ PcOK(q)
    BY <1>1, <2>1, <2>2, <2>3 DEF Goes, PcOK
  <2>5. /\ auth'.id = n /\ auth'.password = n /\ auth'.temporary /\ Exists'
        /\ auth' \in [id : 0 .. MaxRequests + 1, password : 0 .. MaxRequests,
                      temporary : BOOLEAN, marker : BOOLEAN]
    <3>1. n \in 0 .. MaxRequests + 1 /\ n \in 0 .. MaxRequests /\ n # 0
      BY AccountsAssumption
    <3>2. QED BY <1>3, <2>1, <3>1 DEF Exists
  <2>6. ~ External' /\ ~ External
    BY <1>3, <2>5, AccountsAssumption DEF External, Exists
  <2>7. \A s \in Requests : ~ req[s].made
    <3>1. ASSUME NEW s \in Requests, req[s].made PROVE FALSE
      <4>1. PcOK(req[s]) /\ MakerOK(s)
        BY Known
      <4>2. req[s].number # 0
        BY <3>1, <4>1 DEF IInv, NumbersOK, PcOK
      <4>3. QED BY <1>3, <3>1, <4>1, <4>2 DEF MakerOK, Exists
    <3>2. QED BY <3>1
  <2>8. Makers'
    <3>1. ASSUME NEW s \in Requests PROVE MakerOK(s)'
      BY <2>2, <2>4, <2>5, <2>6, <2>7, Others DEF MakerOK
    <3>2. AdoptedOK'
      <4>1. ASSUME ~ raced, NEW s \in Requests PROVE ~ Adopting(req[s])
        <5>1. Adopting(req[s]) => req[s].found # 0 /\ auth.id = req[s].found
          BY <4>1, Known DEF IInv, AdoptedOK, PcOK, Adopting
        <5>2. QED BY <1>3, <5>1 DEF Exists
      <4>2. ~ raced => /\ \A s \in Requests : Adopting(req'[s]) => auth'.id = req'[s].found
                       /\ \A s, u \in Requests : req'[s].made /\ Adopting(req'[u]) => s = u
        BY <2>2, <2>4, <2>5, <2>7, <4>1, Others
      <4>3. QED BY <1>1, <4>2 DEF AdoptedOK, Adopting
    <3>3. BeforeOK'
      <4>1. \A s \in Requests : req'[s].kind = req[s].kind
        BY <2>2, <2>4, Others
      <4>2. QED BY <1>1, <2>5, <2>6, <4>1 DEF IInv, BeforeOK, Present
    <3>4. KeptOK'
      BY <1>1, <1>3 DEF IInv, KeptOK, Present
    <3>5. QED BY <3>1, <3>2, <3>3, <3>4 DEF Makers
  <2>9. PasswordOK'
    <3>1. req'[r].wrote /\ req'[r].number = auth'.password
      BY <2>2, <2>4, <2>5, Others
    <3>2. QED BY <3>1 DEF PasswordOK, Answers
  <2>10. RevocationOK'
    BY <1>1, <1>3 DEF RevocationOK, Revoked, Present
  <2>11. TokenOK'
    BY <1>1 DEF IInv, TokenOK, Present
  <2>12. undone' \in BOOLEAN /\ explained' \subseteq 0 .. MaxRequests
    BY <1>1, <1>3
  <2>13. QED BY <1>1, <2>2, <2>4, <2>5, <2>8, <2>9, <2>10, <2>11, <2>12, Known, Together
<1>4. QED BY <1>2, <1>3 DEF CreateAuthUser

LEMMA UpdateAuthUserStep == ASSUME IInv, NEW r \in Requests, UpdateAuthUser(r) PROVE IInv'
<1>1. /\ req[r].pc = "updateAuth" /\ PcOK(req[r]) /\ ~ req[r].wrote /\ ~ req[r].made
      /\ req[r].found # 0 /\ req[r].number \in 0 .. MaxRequests
      /\ req[r].kind \in {"create", "setup", "reset", "change", "profile"}
      /\ UNCHANGED <<app, count, faults, closings, raced, undone>>
      /\ faults' \in 0 .. MaxFaults /\ undone' \in BOOLEAN /\ raced' \in BOOLEAN
      /\ explained \subseteq 0 .. MaxRequests /\ closings' \in Nat
  <2>1. PcOK(req[r]) /\ TypeOK /\ req[r] \in Request
    BY Known
  <2>2. QED BY <2>1 DEF UpdateAuthUser, PcOK, TypeOK, Request, AllKinds
<1>2. CASE Refuse(r) /\ UNCHANGED auth
  BY <1>1, <1>2, RefuseStep, EndStep DEF Answers
<1>3. ASSUME auth.id = req[r].found, UNCHANGED explained, NEW metadata \in BOOLEAN,
             auth' = [auth EXCEPT
               !.password = IF req[r].kind = "profile" THEN @ ELSE req[r].number,
               !.temporary = IF req[r].kind = "profile" THEN @ ELSE req[r].kind = "create",
               !.marker = @ \/ (metadata /\ req[r].kind # "change" /\ req[r].marked)],
             IF req[r].kind = "profile"
               THEN Set(r, IdleReq)
               ELSE Set(r, [req[r] EXCEPT !.wrote = TRUE,
                              !.pc = CASE req[r].kind = "create" -> "insert"
                                       [] req[r].kind = "change" -> "relogin"
                                       [] OTHER -> "spend"])
      PROVE  IInv'
  <2>1. /\ auth' \in [id : 0 .. MaxRequests + 1, password : 0 .. MaxRequests,
                      temporary : BOOLEAN, marker : BOOLEAN]
        /\ auth'.id = auth.id /\ (auth.marker => auth'.marker) /\ Exists' /\ Exists
        /\ auth'.password = IF req[r].kind = "profile" THEN auth.password ELSE req[r].number
        /\ auth'.temporary = IF req[r].kind = "profile" THEN auth.temporary
                                                        ELSE req[r].kind = "create"
    <3>1. PICK password, temporary, marker :
            /\ password = IF req[r].kind = "profile" THEN auth.password ELSE req[r].number
            /\ temporary = IF req[r].kind = "profile" THEN auth.temporary
                                                      ELSE req[r].kind = "create"
            /\ marker = (auth.marker \/ (metadata /\ req[r].kind # "change" /\ req[r].marked))
      OBVIOUS
    <3>2. password \in 0 .. MaxRequests /\ temporary \in BOOLEAN /\ marker \in BOOLEAN
      BY <1>1, <3>1, Known
    <3>3. auth' = [auth EXCEPT !.password = password, !.temporary = temporary, !.marker = marker]
      BY <1>3, <3>1
    <3>4. /\ auth' \in [id : 0 .. MaxRequests + 1, password : 0 .. MaxRequests,
                        temporary : BOOLEAN, marker : BOOLEAN]
          /\ auth'.id = auth.id /\ auth'.password = password
          /\ auth'.temporary = temporary /\ auth'.marker = marker
      BY <3>2, <3>3, Known
    <3>5. QED BY <1>1, <1>3, <3>1, <3>4 DEF Exists
  <2>2. PICK q \in Request :
          /\ Goes(r, q) /\ PcOK(q) /\ ~ q.made /\ ~ Undoing(q)
          /\ req[r].kind # "profile" => q.wrote /\ q.number = req[r].number
          /\ Adopting(q) => q.kind = "create" /\ q.found = req[r].found
          /\ q.kind \in {"none", req[r].kind}
    <3>1. CASE req[r].kind = "profile"
      <4>1. Goes(r, IdleReq)
        BY <1>1, <1>3, <3>1, Idle DEF Set, Goes
      <4>2. QED BY <3>1, <4>1, Idle
    <3>2. CASE req[r].kind # "profile"
      <4>1. PICK pc : pc = CASE req[r].kind = "create" -> "insert"
                             [] req[r].kind = "change" -> "relogin"
                             [] OTHER -> "spend"
        OBVIOUS
      <4> DEFINE q == [req[r] EXCEPT !.wrote = TRUE, !.pc = pc]
      <4>2. /\ pc \in {"insert", "relogin", "spend"}
            /\ req[r].kind = "create" <=> pc = "insert"
            /\ req[r].kind = "change" <=> pc = "relogin"
        BY <4>1
      <4>3. /\ q \in Request /\ q.pc = pc /\ q.found = req[r].found /\ q.kind = req[r].kind
            /\ q.number = req[r].number /\ q.alone = req[r].alone
            /\ q.made = req[r].made /\ q.wrote
        BY <4>2, Known, ZenonT(60) DEF Request
      <4>4. req' = [req EXCEPT ![r] = q]
        BY <1>3, <3>2, <4>1 DEF Set
      <4> HIDE DEF q
      <4>5. Goes(r, q)
        BY <1>1, <4>2, <4>3, <4>4 DEF Goes
      <4>6. PcOK(q) /\ ~ Undoing(q)
        BY <1>1, <3>2, <4>2, <4>3 DEF PcOK, Undoing
      <4>7. QED BY <1>1, <4>3, <4>5, <4>6 DEF Adopting
    <3>3. QED BY <3>1, <3>2
  <2>3. Makers'
    <3>1. Present' = Present
      BY <1>1 DEF Present
    <3>2. ~ Present /\ auth.temporary => auth'.temporary
      <4>1. ~ Present => req[r].kind = "create"
        BY <1>1 DEF IInv, BeforeOK
      <4>2. QED BY <2>1, <4>1
    <3>3. ~ raced' /\ Adopting(q) =>
            auth.id = q.found /\ \A s \in Requests \ {r} : ~ req[s].made
      <4>1. Adopting(q) => Adopting(req[r])
        BY <1>1, <2>2, Idle DEF Adopting, Goes
      <4>2. ~ raced /\ Adopting(q) => \A s \in Requests : req[s].made => s = r
        BY <4>1 DEF IInv, AdoptedOK
      <4>3. QED BY <1>1, <1>3, <2>2, <4>2
    <3>4. QED BY <1>1, <2>1, <2>2, <3>1, <3>2, <3>3, MakersKept
  <2>4. PasswordOK'
    <3>1. CASE req[r].kind = "profile"
      BY <1>1, <1>3, <2>1, <2>2, <3>1, PasswordKept DEF Answers
    <3>2. CASE req[r].kind # "profile"
      <4>1. req'[r].wrote /\ req'[r].number = auth'.password
        BY <2>1, <2>2, <3>2, Others
      <4>2. QED BY <4>1 DEF PasswordOK, Answers
    <3>3. QED BY <3>1, <3>2
  <2>5. RevocationOK'
    BY <1>1, <2>1, <2>2, RevocationKept DEF Revoked
  <2>6. TokenOK'
    BY <1>1 DEF IInv, TokenOK, Present
  <2>7. explained' \subseteq 0 .. MaxRequests
    BY <1>1, <1>3
  <2>8. QED BY <1>1, <2>1, <2>2, <2>3, <2>4, <2>5, <2>6, <2>7, Known, Together
<1>4. QED BY <1>2, <1>3 DEF UpdateAuthUser

LEMMA RemoveAuthUserStep == ASSUME IInv, NEW r \in Requests, RemoveAuthUser(r) PROVE IInv'
<1>1. /\ req[r].pc = "cleanup" /\ req[r].made /\ Ends(r)
      /\ auth.id = req[r].number /\ req[r].found = req[r].number /\ ~ External
      /\ UNCHANGED <<app, count, faults, closings, raced, undone>>
      /\ faults' \in 0 .. MaxFaults /\ undone' \in BOOLEAN /\ raced' \in BOOLEAN
      /\ closings' \in Nat
  <2>1. PcOK(req[r]) /\ TypeOK /\ MakerOK(r)
    BY Known
  <2>2. req[r].pc = "cleanup" /\ Refuse(r)
    BY DEF RemoveAuthUser
  <2>3. QED BY <2>1, <2>2, RefuseStep DEF RemoveAuthUser, PcOK, TypeOK, MakerOK
<1>2. Goes(r, IdleReq) /\ explained' \subseteq 0 .. MaxRequests
  BY <1>1 DEF Ends
<1>3. auth' = NoAuth /\ ~ Exists'
  BY <1>1 DEF RemoveAuthUser, NoAuth, Exists
<1>4. \A s \in Requests \ {r} : ~ req[s].made
  <2>1. ASSUME NEW s \in Requests \ {r}, req[s].made PROVE FALSE
    <3>1. PcOK(req[s]) /\ MakerOK(s)
      BY Known
    <3>2. req[s].pc # "idle" /\ req[s].number = req[r].number
      BY <1>1, <2>1, <3>1 DEF PcOK, MakerOK
    <3>3. QED BY <1>1, <3>2 DEF IInv, NumbersOK
  <2>2. QED BY <2>1
<1>5. Makers'
  <2>1. \A s \in Requests : ~ req'[s].made
    BY <1>2, <1>4, Idle, Others
  <2>2. AdoptedOK'
    <3>1. ~ raced => \A s \in Requests : Adopting(req[s]) => s = r
      BY <1>1 DEF IInv, AdoptedOK
    <3>2. ~ raced => \A s \in Requests : ~ Adopting(req'[s])
      BY <1>2, <3>1, Idle, Others
    <3>3. QED BY <1>1, <2>1, <3>2 DEF AdoptedOK, Adopting
  <2>3. BeforeOK'
    <3>1. \A s \in Requests : req'[s].kind \in {"none", req[s].kind}
      BY <1>2, Idle, Others
    <3>2. QED BY <1>1, <1>3, <3>1 DEF IInv, BeforeOK, Present
  <2>4. KeptOK'
    BY <1>1 DEF IInv, KeptOK, Present
  <2>5. QED BY <2>1, <2>2, <2>3, <2>4 DEF Makers, MakerOK
<1>6. PasswordOK' /\ RevocationOK'
  BY <1>3 DEF PasswordOK, RevocationOK
<1>7. TokenOK'
  BY <1>1 DEF IInv, TokenOK, Present
<1>8. /\ auth' \in [id : 0 .. MaxRequests + 1, password : 0 .. MaxRequests,
                    temporary : BOOLEAN, marker : BOOLEAN]
  BY <1>3, AccountsAssumption DEF NoAuth
<1>9. QED BY <1>1, <1>2, <1>3, <1>5, <1>6, <1>7, <1>8, Idle, Known, Together

-----------------------------------------------------------------------------
(* The row of users and its token *)

LEMMA InsertUserStep == ASSUME IInv, NEW r \in Requests, InsertUser(r) PROVE IInv'
<1>1. /\ req[r].pc = "insert" /\ PcOK(req[r]) /\ req[r].wrote /\ req[r].kind = "create"
      /\ req[r].found # 0
      /\ UNCHANGED <<auth, count, faults, raced, undone>>
      /\ faults' \in 0 .. MaxFaults /\ undone' \in BOOLEAN /\ raced' \in BOOLEAN
      /\ explained \subseteq 0 .. MaxRequests
  <2>1. PcOK(req[r]) /\ TypeOK /\ req[r] \in Request
    BY Known
  <2>2. QED BY <2>1 DEF InsertUser, PcOK, TypeOK, Request, AllKinds
<1>2. CASE Present /\ req[r].made /\ Goto(r, "cleanup") /\ UNCHANGED <<app, closings, explained>>
  <2>1. PICK q \in Request :
          /\ Goes(r, q) /\ q.pc = "cleanup" /\ q.kind = req[r].kind /\ q.number = req[r].number
          /\ q.found = req[r].found /\ q.made = req[r].made /\ q.wrote = req[r].wrote
    BY <1>1, <1>2, GotoStep
  <2>2. PcOK(q) /\ ~ Adopting(q) /\ ~ Undoing(q)
    BY <1>1, <1>2, <2>1 DEF PcOK, Adopting, Undoing
  <2>3. QED BY <1>1, <1>2, <2>1, <2>2, LocalStep DEF Answers
<1>3. CASE Present /\ Answer(r, FALSE, TRUE) /\ UNCHANGED <<app, closings>>
  BY <1>1, <1>3, AnswerStep, EndStep DEF Answers
<1>4. CASE /\ ~ Present /\ app' = [status |-> "PENDING", token |-> "open"]
           /\ closings' = 0 /\ Answer(r, TRUE, FALSE)
  <2>1. Ends(r) /\ Goes(r, IdleReq) /\ req[r].number \in explained'
    BY <1>1, <1>4, AnswerStep DEF Ends
  <2>2. /\ app' \in [status : UserStatus \cup {"absent"}, token : {"none", "open", "expired", "used"}]
        /\ Present' /\ ~ Revoked' /\ app'.token = "open"
    BY <1>4 DEF UserStatus, Present, Revoked
  <2>3. Makers'
    <3>1. ASSUME NEW s \in Requests PROVE req'[s].made => s # r /\ req[s].made
      BY <2>1, Idle, Others
    <3>2. ASSUME NEW s \in Requests PROVE MakerOK(s)'
      BY <1>1, <2>1, <3>1, Known, Others DEF MakerOK, External
    <3>3. AdoptedOK'
      <4>1. ~ raced => /\ \A s \in Requests : Adopting(req'[s]) => auth'.id = req'[s].found
                       /\ \A s, u \in Requests : req'[s].made /\ Adopting(req'[u]) => s = u
        BY <1>1, <2>1, <3>1, Idle, Others DEF IInv, AdoptedOK
      <4>2. QED BY <1>1, <4>1 DEF AdoptedOK, Adopting
    <3>4. BeforeOK'
      BY <2>2 DEF BeforeOK
    <3>5. KeptOK'
      <4>1. Adopting(req[r])
        BY <1>1 DEF Adopting
      <4>2. ~ raced => Exists /\ \A s \in Requests : req[s].made => s = r
        BY <1>1, <4>1 DEF IInv, AdoptedOK, Exists
      <4>3. QED BY <1>1, <3>1, <4>2 DEF KeptOK, Exists
    <3>6. QED BY <3>2, <3>3, <3>4, <3>5 DEF Makers
  <2>4. PasswordOK'
    BY <1>1, <2>1, PasswordKept DEF Exists, Answers, Ends
  <2>5. RevocationOK'
    BY <2>2 DEF RevocationOK
  <2>6. TokenOK' /\ closings' \in Nat
    BY <1>4, <2>2 DEF TokenOK
  <2>7. ~ Exists' => auth' = NoAuth
    BY <1>1 DEF IInv, TypeOK, Exists
  <2>8. explained' \subseteq 0 .. MaxRequests
    BY <2>1 DEF Ends
  <2>9. QED BY <1>1, <2>1, <2>2, <2>3, <2>4, <2>5, <2>6, <2>7, <2>8, Idle, Known, Together
<1>5. QED BY <1>2, <1>3, <1>4 DEF InsertUser

\* The row changes, and the auth user does not.
LEMMA RowStep ==
  ASSUME IInv, NEW r \in Requests, NEW q, Goes(r, q), PcOK(q), ~ q.made, ~ Adopting(q),
         UNCHANGED <<auth, count, faults, raced, undone>>, Present, Present',
         app' \in [status : UserStatus \cup {"absent"}, token : {"none", "open", "expired", "used"}],
         explained \subseteq explained', explained' \subseteq 0 .. MaxRequests,
         q.kind \notin {"setup", "change"}, TokenOK', closings' \in Nat,
         Answers(req[r]) => auth.password \in explained' \/ Answers(q),
         RevocationOK'
  PROVE  IInv'
<1>1. Makers'
  BY MakersKept
<1>2. PasswordOK'
  BY PasswordKept DEF Exists
<1>3. /\ ~ Exists' => auth' = NoAuth
      /\ faults' \in 0 .. MaxFaults /\ raced' \in BOOLEAN /\ undone' \in BOOLEAN
  BY DEF IInv, TypeOK, Exists
<1>4. QED BY <1>1, <1>2, <1>3, Known, Together

LEMMA SpendStep ==
  ASSUME IInv, app.token \notin NoToken, Spend
  PROVE  /\ TokenOK' /\ closings' \in Nat /\ Present /\ Present' /\ app'.status = app.status
         /\ app' \in [status : UserStatus \cup {"absent"}, token : {"none", "open", "expired", "used"}]
<1>1. /\ app'.token = "used" /\ app'.status = app.status
      /\ app' \in [status : UserStatus \cup {"absent"}, token : {"none", "open", "expired", "used"}]
  BY DEF IInv, TypeOK, Spend
<1>2. Present /\ closings = 0
  BY DEF IInv, TokenOK, NoToken
<1>3. closings' = 1
  BY <1>2 DEF Spend
<1>4. QED BY <1>1, <1>2, <1>3 DEF TokenOK, Present

LEMMA CommitSetupStep == ASSUME IInv, NEW r \in Requests, CommitSetup(r) PROVE IInv'
<1>1. /\ req[r].pc = "spend" /\ req[r].kind = "setup" /\ AloneOK(r)
      /\ UNCHANGED <<auth, count, faults, raced, undone>>
      /\ faults' \in 0 .. MaxFaults /\ undone' \in BOOLEAN /\ raced' \in BOOLEAN
  BY Known DEF CommitSetup, TypeOK
<1>2. CASE app.token \notin NoToken /\ Spend /\ Answer(r, TRUE, FALSE)
  <2>1. Goes(r, IdleReq) /\ Ends(r) /\ (req[r].wrote => req[r].number \in explained')
    BY <1>1, <1>2, AnswerStep DEF Ends
  <2>2. RevocationOK'
    <3>1. app'.status = app.status
      BY <1>2, SpendStep
    <3>2. QED BY <1>1, <2>1, <3>1, Idle, RevocationKept DEF Revoked, Exists
  <2>3. QED BY <1>1, <1>2, <2>1, <2>2, Idle, SpendStep, RowStep DEF Ends, Answers
<1>3. CASE app.token \in NoToken /\ Refuse(r) /\ UNCHANGED <<app, closings>>
  <2>1. ~ req[r].alone
    BY <1>1, <1>3 DEF AloneOK, NoToken
  <2>2. QED BY <1>1, <1>3, <2>1, RefuseStep, EndStep DEF Answers
<1>4. QED BY <1>2, <1>3 DEF CommitSetup

LEMMA CommitResetStep == ASSUME IInv, NEW r \in Requests, CommitReset(r) PROVE IInv'
<1>1. /\ req[r].pc = "spend" /\ req[r].kind = "reset" /\ PcOK(req[r]) /\ Goto(r, "mark")
      /\ UNCHANGED <<auth, count, faults, explained, raced, undone>>
      /\ explained \subseteq 0 .. MaxRequests
  BY Known DEF CommitReset, TypeOK
<1>2. PICK q \in Request :
        /\ Goes(r, q) /\ q.pc = "mark" /\ q.kind = req[r].kind /\ q.number = req[r].number
        /\ q.made = req[r].made /\ q.wrote = req[r].wrote
  BY <1>1, GotoStep
<1>3. PcOK(q) /\ ~ q.made /\ ~ Adopting(q) /\ ~ Undoing(q)
  BY <1>1, <1>2 DEF PcOK, Adopting, Undoing
<1>4. RevocationOK'
  BY <1>2, Others DEF RevocationOK
<1>5. /\ TokenOK' /\ closings' \in Nat /\ Present /\ Present' /\ app'.status = app.status
      /\ app' \in [status : UserStatus \cup {"absent"}, token : {"none", "open", "expired", "used"}]
  <2>1. CASE app.token \notin NoToken /\ Spend
    BY <2>1, SpendStep
  <2>2. CASE UNCHANGED <<app, closings>>
    <3>1. Present
      BY <1>1 DEF IInv, BeforeOK
    <3>2. QED BY <2>2, <3>1 DEF IInv, TypeOK, TokenOK, Present
  <2>3. QED BY <2>1, <2>2 DEF CommitReset
<1>6. QED BY <1>1, <1>2, <1>3, <1>4, <1>5, RowStep DEF Answers

-----------------------------------------------------------------------------
(* Status, revocation, login *)

LEMMA WriteStatusStep == ASSUME IInv, NEW r \in Requests, WriteStatus(r) PROVE IInv'
<1>1. /\ req[r].pc = "writeStatus" /\ req[r].kind = "status" /\ PcOK(req[r])
      /\ ~ req[r].wrote /\ ~ req[r].made
      /\ UNCHANGED <<auth, count, faults, explained, closings, raced, undone>>
      /\ explained \subseteq 0 .. MaxRequests /\ closings' \in Nat
  <2>1. PcOK(req[r]) /\ TypeOK /\ req[r] \in Request
    BY Known
  <2>2. QED BY <2>1 DEF WriteStatus, PcOK, TypeOK, Request, AllKinds
<1>2. PICK status \in UserStatus : status = req[r].target
  BY Known DEF Request
<1>3. /\ app' \in [status : UserStatus \cup {"absent"}, token : {"none", "open", "expired", "used"}]
      /\ app'.status = status /\ app'.token = app.token /\ Present'
  <2>1. app' = [app EXCEPT !.status = status]
    BY <1>2 DEF WriteStatus
  <2>2. QED BY <2>1, Known DEF UserStatus, Present
<1>4. Present /\ TokenOK'
  <2>1. Present
    BY <1>1 DEF IInv, BeforeOK
  <2>2. QED BY <1>1, <1>3, <2>1 DEF IInv, TokenOK
<1>5. CASE status = "ACTIVE"
  <2>1. Goes(r, IdleReq)
    BY <1>1, <1>2, <1>5, Idle DEF WriteStatus, Set, Goes
  <2>2. RevocationOK'
    BY <1>3, <1>5 DEF RevocationOK, Revoked
  <2>3. QED BY <1>1, <1>3, <1>4, <2>1, <2>2, Idle, RowStep DEF Answers
<1>6. CASE status # "ACTIVE"
  <2>1. Goto(r, "mark")
    BY <1>2, <1>6 DEF WriteStatus
  <2>2. PICK q \in Request :
          /\ Goes(r, q) /\ q.pc = "mark" /\ q.kind = req[r].kind
          /\ q.made = req[r].made /\ q.wrote = req[r].wrote
    BY <1>1, <2>1, GotoStep
  <2>3. PcOK(q) /\ ~ Adopting(q)
    BY <1>1, <2>2 DEF PcOK, Adopting
  <2>4. RevocationOK'
    BY <2>2, Others DEF RevocationOK
  <2>5. QED BY <1>1, <1>3, <1>4, <2>2, <2>3, <2>4, RowStep DEF Answers
<1>7. QED BY <1>5, <1>6

\* Only the marker of the auth user changes.
LEMMA MarkerStep ==
  ASSUME IInv, NEW r \in Requests, NEW q, Goes(r, q), PcOK(q), ~ q.made, ~ Adopting(q),
         UNCHANGED <<app, count, faults, closings, raced>>, undone' \in BOOLEAN,
         NEW marker \in BOOLEAN, auth' = [auth EXCEPT !.marker = marker],
         ~ Exists => ~ marker,
         explained \subseteq explained', explained' \subseteq 0 .. MaxRequests,
         Answers(req[r]) => auth.password \in explained' \/ Answers(q),
         RevocationOK'
  PROVE  IInv'
<1>1. /\ auth' \in [id : 0 .. MaxRequests + 1, password : 0 .. MaxRequests,
                    temporary : BOOLEAN, marker : BOOLEAN]
      /\ auth'.id = auth.id /\ auth'.password = auth.password
      /\ auth'.temporary = auth.temporary
  BY Known
<1>2. Makers'
  BY <1>1, MakersKept DEF Present
<1>3. PasswordOK'
  BY <1>1, PasswordKept DEF Exists
<1>4. ~ Exists' => auth' = NoAuth
  <2>1. ~ Exists => auth = NoAuth
    BY DEF IInv, TypeOK
  <2>2. ~ Exists => auth'.id = 0 /\ auth'.password = 0 /\ ~ auth'.temporary /\ ~ auth'.marker
    BY <1>1, <2>1, Known DEF NoAuth
  <2>3. ~ Exists => auth' = NoAuth
    BY <1>1, <2>2 DEF NoAuth
  <2>4. QED BY <1>1, <2>3 DEF Exists
<1>5. TokenOK' /\ closings' \in Nat /\ faults' \in 0 .. MaxFaults /\ raced' \in BOOLEAN
  BY DEF IInv, TypeOK, TokenOK, Present
<1>6. QED BY <1>1, <1>2, <1>3, <1>4, <1>5, Known, Together

LEMMA MarkRevokedStep == ASSUME IInv, NEW r \in Requests, MarkRevoked(r) PROVE IInv'
<1>1. /\ req[r].pc = "mark" /\ Goes(r, IdleReq) /\ Ends(r)
      /\ req[r].wrote => req[r].number \in explained'
      /\ UNCHANGED <<app, count, faults, closings, raced>>
      /\ undone' = (~ Exists \/ Clearing # {})
      /\ auth' = [auth EXCEPT !.marker = Exists]
  BY AnswerStep DEF MarkRevoked, Ends
<1>2. PICK marker \in BOOLEAN : marker = Exists
  BY DEF Exists
<1>3. RevocationOK'
  <2> SUFFICES ASSUME ~ undone'
               PROVE  auth'.marker /\ \A s \in Requests : ~ Undoing(req'[s])
    BY DEF RevocationOK, Undoing
  <2>1. Exists /\ auth'.marker
    BY <1>1, Known
  <2>2. \A s \in Requests : ~ Undoing(req[s])
    BY <1>1 DEF Clearing, Undoing
  <2>3. QED BY <1>1, <2>1, <2>2, Idle, Others
<1>4. undone' \in BOOLEAN
  BY <1>1
<1>5. QED BY <1>1, <1>2, <1>3, <1>4, Idle, MarkerStep DEF Ends, Answers

LEMMA ClearMarkerStep == ASSUME IInv, NEW r \in Requests, ClearMarker(r) PROVE IInv'
<1>1. /\ req[r].pc = "clear" /\ PcOK(req[r]) /\ req[r].kind = "login"
      /\ ~ req[r].made /\ ~ req[r].wrote /\ Goto(r, "pending")
      /\ UNCHANGED <<app, count, faults, explained, closings, raced, undone>>
      /\ explained \subseteq 0 .. MaxRequests /\ undone' \in BOOLEAN
      /\ auth' = [auth EXCEPT !.marker = @ /\ ~ req[r].marked]
  <2>1. PcOK(req[r]) /\ TypeOK /\ req[r] \in Request
    BY Known
  <2>2. QED BY <2>1 DEF ClearMarker, PcOK, TypeOK, Request, AllKinds
<1>2. PICK q \in Request :
        /\ Goes(r, q) /\ q.pc = "pending" /\ q.kind = req[r].kind
        /\ q.made = req[r].made /\ q.wrote = req[r].wrote
  BY <1>1, GotoStep
<1>3. PcOK(q) /\ ~ Adopting(q) /\ ~ Undoing(q)
  BY <1>1, <1>2 DEF PcOK, Adopting, Undoing
<1>4. PICK marker \in BOOLEAN : marker = (auth.marker /\ ~ req[r].marked)
  OBVIOUS
<1>5. auth' = [auth EXCEPT !.marker = marker]
  BY <1>1, <1>4
<1>6. auth'.marker = marker /\ auth'.id = auth.id
  BY <1>5, Known
<1>7. RevocationOK'
  <2> SUFFICES ASSUME Exists', ~ undone', Revoked', \A s \in Requests : req'[s].pc # "mark"
               PROVE  auth'.marker /\ \A s \in Requests : ~ Undoing(req'[s])
    BY DEF RevocationOK, Undoing
  <2>1. \A s \in Requests : req[s].pc # "mark"
    BY <1>1, <1>2, Others
  <2>2. auth.marker /\ \A s \in Requests : ~ Undoing(req[s])
    BY <1>1, <1>6, <2>1 DEF IInv, RevocationOK, Revoked, Exists
  <2>3. ~ req[r].marked
    BY <1>1, <2>2 DEF Undoing
  <2>4. auth'.marker
    BY <1>4, <1>6, <2>2, <2>3
  <2>5. \A s \in Requests : ~ Undoing(req'[s])
    BY <1>2, <1>3, <2>2, Others
  <2>6. QED BY <2>4, <2>5
<1>8. ~ Exists => ~ marker
  BY <1>4 DEF IInv, TypeOK, NoAuth
<1>9. QED BY <1>1, <1>2, <1>3, <1>5, <1>7, <1>8, MarkerStep DEF Answers

LEMMA MapUserStep == ASSUME IInv, NEW r \in Requests, MapUser(r) PROVE IInv'
<1>1. /\ req[r].pc = "map" /\ PcOK(req[r]) /\ req[r].kind = "login"
      /\ ~ req[r].made /\ ~ req[r].wrote
      /\ UNCHANGED <<app, auth, count, faults, explained, closings, raced, undone>>
      /\ explained \subseteq 0 .. MaxRequests /\ undone' \in BOOLEAN /\ raced' \in BOOLEAN
      /\ faults' \in 0 .. MaxFaults
  <2>1. PcOK(req[r]) /\ TypeOK /\ req[r] \in Request
    BY Known
  <2>2. QED BY <2>1 DEF MapUser, PcOK, TypeOK, Request, AllKinds
<1>2. CASE Set(r, IdleReq)
  <2>1. Goes(r, IdleReq)
    BY <1>1, <1>2, Idle DEF Set, Goes
  <2>2. QED BY <1>1, <2>1, Idle, LocalStep DEF Answers
<1>3. ASSUME NEW pc \in {"provision", "clear"}, Goto(r, pc), pc = "clear" => app.status = "ACTIVE"
      PROVE  IInv'
  <2>1. PICK q \in Request :
          /\ Goes(r, q) /\ q.pc = pc /\ q.kind = req[r].kind
          /\ q.made = req[r].made /\ q.wrote = req[r].wrote
    BY <1>1, <1>3, GotoStep
  <2>2. PcOK(q) /\ ~ Adopting(q) /\ (Undoing(q) => ~ Revoked)
    BY <1>1, <1>3, <2>1 DEF PcOK, Adopting, Undoing, Revoked
  <2>3. QED BY <1>1, <2>1, <2>2, LocalStep DEF Answers
<1>4. QED BY <1>2, <1>3 DEF MapUser

LEMMA ProvisionStep == ASSUME IInv, NEW r \in Requests, Provision(r) PROVE IInv'
<1>1. /\ req[r].pc = "provision" /\ PcOK(req[r]) /\ req[r].kind = "login"
      /\ ~ req[r].made /\ ~ req[r].wrote
      /\ UNCHANGED <<auth, count, faults, explained, closings, raced>>
      /\ explained \subseteq 0 .. MaxRequests /\ undone \in BOOLEAN /\ raced' \in BOOLEAN
      /\ faults' \in 0 .. MaxFaults /\ closings' \in Nat
  <2>1. PcOK(req[r]) /\ TypeOK /\ req[r] \in Request
    BY Known
  <2>2. QED BY <2>1 DEF Provision, PcOK, TypeOK, Request, AllKinds
<1>2. PICK status \in {"ACTIVE", "SUSPENDED"} :
        /\ app' = [app EXCEPT !.status = status] /\ undone' = (undone \/ status # "ACTIVE")
        /\ IF status = "ACTIVE" THEN Goto(r, "clear") ELSE Set(r, IdleReq)
  BY DEF Provision
<1>3. /\ app' \in [status : UserStatus \cup {"absent"}, token : {"none", "open", "expired", "used"}]
      /\ app'.status = status /\ app'.token = app.token /\ Present'
  BY <1>2, Known DEF UserStatus, Present
<1>4. PICK q \in Request :
        Goes(r, q) /\ PcOK(q) /\ ~ q.made /\ ~ Adopting(q) /\ q.kind \in {"none", "login"}
  <2>1. CASE status = "ACTIVE"
    <3>1. PICK q \in Request :
            /\ Goes(r, q) /\ q.pc = "clear" /\ q.kind = req[r].kind
            /\ q.made = req[r].made /\ q.wrote = req[r].wrote
      BY <1>1, <1>2, <2>1, GotoStep
    <3>2. QED BY <1>1, <3>1 DEF PcOK, Adopting
  <2>2. CASE status # "ACTIVE"
    <3>1. Goes(r, IdleReq)
      BY <1>1, <1>2, <2>2, Idle DEF Set, Goes
    <3>2. QED BY <3>1, Idle
  <2>3. QED BY <2>1, <2>2
<1>5. Makers'
  <2>1. ASSUME NEW s \in Requests PROVE MakerOK(s)' /\ (req'[s].made => req[s].made)
    BY <1>1, <1>4, Known, Others DEF MakerOK, External
  <2>2. AdoptedOK'
    <3>1. ~ raced => /\ \A s \in Requests : Adopting(req'[s]) => auth'.id = req'[s].found
                     /\ \A s, u \in Requests : req'[s].made /\ Adopting(req'[u]) => s = u
      BY <1>1, <1>4, <2>1, Others DEF IInv, AdoptedOK
    <3>2. QED BY <1>1, <3>1 DEF AdoptedOK, Adopting
  <2>3. BeforeOK'
    BY <1>3 DEF BeforeOK
  <2>4. KeptOK'
    <3>1. CASE Present
      BY <1>1, <2>1, <3>1 DEF IInv, KeptOK, Exists
    <3>2. CASE ~ Present
      <4>1. External
        BY <1>1, <3>2 DEF IInv, BeforeOK
      <4>2. Exists' /\ \A s \in Requests : ~ req[s].made
        <5>1. Exists'
          BY <1>1, <4>1, AccountsAssumption DEF External, Exists
        <5>2. QED BY <4>1, <5>1, Known DEF MakerOK
      <4>3. QED BY <2>1, <4>2 DEF KeptOK
    <3>3. QED BY <3>1, <3>2
  <2>5. QED BY <2>1, <2>2, <2>3, <2>4 DEF Makers
<1>6. PasswordOK'
  BY <1>1, <1>4, PasswordKept DEF Exists, Answers
<1>7. RevocationOK' /\ undone' \in BOOLEAN
  BY <1>1, <1>2, <1>3 DEF RevocationOK, Revoked
<1>8. TokenOK'
  BY <1>1, <1>3 DEF IInv, TokenOK
<1>9. ~ Exists' => auth' = NoAuth
  BY <1>1 DEF IInv, TypeOK, Exists
<1>10. QED BY <1>1, <1>3, <1>4, <1>5, <1>6, <1>7, <1>8, <1>9, Known, Together

LEMMA FinishLoginStep == ASSUME IInv, NEW r \in Requests, FinishLogin(r) PROVE IInv'
<1>1. /\ req[r].pc = "pending" /\ PcOK(req[r]) /\ ~ req[r].wrote
      /\ UNCHANGED <<app, auth, count, faults, explained, closings, raced, undone>>
      /\ explained \subseteq 0 .. MaxRequests /\ undone' \in BOOLEAN /\ raced' \in BOOLEAN
      /\ faults' \in 0 .. MaxFaults
  <2>1. PcOK(req[r]) /\ TypeOK /\ req[r] \in Request
    BY Known
  <2>2. QED BY <2>1 DEF FinishLogin, PcOK, TypeOK, Request, AllKinds
<1>2. Goes(r, IdleReq)
  BY <1>1, Idle DEF FinishLogin, Set, Goes
<1>3. QED BY <1>1, <1>2, Idle, LocalStep DEF Answers

LEMMA ReloginStep == ASSUME IInv, NEW r \in Requests, Relogin(r) PROVE IInv'
<1>1. /\ req[r].pc = "relogin" /\ req[r].kind = "change" /\ AloneOK(r)
      /\ UNCHANGED <<app, auth, count, faults, closings, raced, undone>>
      /\ undone' \in BOOLEAN /\ faults' \in 0 .. MaxFaults
  <2>1. PcOK(req[r]) /\ TypeOK /\ req[r] \in Request /\ AloneOK(r)
    BY Known
  <2>2. QED BY <2>1 DEF Relogin, PcOK, TypeOK, Request, AllKinds
<1>2. CASE Answer(r, TRUE, FALSE)
  BY <1>1, <1>2, AnswerStep, EndStep DEF Answers
<1>3. CASE Refuse(r) /\ ~ (auth.password = req[r].number /\ app.status = "ACTIVE")
  <2>1. auth.password = req[r].number => ~ req[r].alone
    BY <1>1, <1>3 DEF AloneOK
  <2>2. QED BY <1>1, <1>3, <2>1, RefuseStep, EndStep DEF Answers
<1>4. QED BY <1>2, <1>3 DEF Relogin

-----------------------------------------------------------------------------
(* Failures *)

LEMMA FailInsertStep == ASSUME IInv, NEW r \in Requests, FailInsert(r) PROVE IInv'
<1>1. /\ req[r].pc = "insert" /\ req[r].made /\ PcOK(req[r]) /\ Goto(r, "cleanup")
      /\ UNCHANGED <<app, auth, count, explained, closings, raced, undone>>
      /\ explained \subseteq 0 .. MaxRequests /\ undone' \in BOOLEAN /\ raced' \in BOOLEAN
      /\ faults' \in 0 .. MaxFaults
  BY Known, FaultStep DEF FailInsert, TypeOK
<1>2. PICK q \in Request :
        /\ Goes(r, q) /\ q.pc = "cleanup" /\ q.kind = req[r].kind /\ q.number = req[r].number
        /\ q.found = req[r].found /\ q.made = req[r].made /\ q.wrote = req[r].wrote
  <2>1. req[r].pc # "idle" /\ Goto(r, "cleanup")
    BY <1>1
  <2>2. QED BY <2>1, GotoStep
<1>3. PcOK(q) /\ ~ Adopting(q) /\ ~ Undoing(q)
  BY <1>1, <1>2 DEF PcOK, Adopting, Undoing
<1>4. QED BY <1>1, <1>2, <1>3, LocalStep DEF Answers

LEMMA StopStep == ASSUME IInv, NEW r \in Requests, Stop(r) PROVE IInv'
<1>1. /\ req[r].pc # "idle" /\ Answer(r, FALSE, TRUE)
      /\ UNCHANGED <<app, auth, count, closings, raced>>
      /\ undone' = (undone \/ req[r].pc = "mark") /\ undone' \in BOOLEAN
      /\ faults' \in 0 .. MaxFaults
  BY FaultStep DEF Stop
<1>2. QED BY <1>1, AnswerStep, EndStep DEF Answers

LEMMA ExpireTokenStep == ASSUME IInv, ExpireToken PROVE IInv'
<1>1. /\ app.token = "open"
      /\ app' = [app EXCEPT !.token = "expired"]
      /\ UNCHANGED <<auth, req, count, faults, explained, closings, raced, undone>>
  BY DEF ExpireToken
<1>2. /\ app' \in [status : UserStatus \cup {"absent"}, token : {"none", "open", "expired", "used"}]
      /\ app'.status = app.status /\ app'.token = "expired"
  BY <1>1 DEF IInv, TypeOK
<1>3. TypeOK'
  BY <1>1, <1>2 DEF IInv, TypeOK, Exists
<1>4. NumbersOK' /\ TokenOK'
  BY <1>1, <1>2 DEF IInv, NumbersOK, TokenOK, Present
<1>5. ASSUME NEW r \in Requests PROVE PcOK(req[r])' /\ AloneOK(r)' /\ MakerOK(r)'
  BY <1>1, <1>2, Known DEF PcOK, AloneOK, MakerOK, External
<1>6. AdoptedOK' /\ BeforeOK' /\ KeptOK'
  BY <1>1, <1>2 DEF IInv, AdoptedOK, Adopting, BeforeOK, KeptOK, Present, Exists, External
<1>7. PasswordOK' /\ RevocationOK'
  BY <1>1, <1>2 DEF IInv, PasswordOK, Answers, RevocationOK, Revoked, Undoing, Exists
<1>8. QED BY <1>3, <1>4, <1>5, <1>6, <1>7 DEF IInv

-----------------------------------------------------------------------------
(* A request comes *)

\* Request r comes as q, and the others, if they run, are not alone any more.
Comes(r, q) ==
  /\ q \in Request /\ req[r].pc = "idle"
  /\ q.kind # "none" /\ q.number = count + 1 /\ count' = count + 1
  /\ q.alone => \A s \in Requests \ {r} : req[s].pc = "idle"
  /\ req' \in [Requests -> Request] /\ req'[r] = q
  /\ \A s \in Requests \ {r} :
        /\ req'[s].pc = req[s].pc /\ req'[s].kind = req[s].kind
        /\ req'[s].number = req[s].number /\ req'[s].found = req[s].found
        /\ req'[s].marked = req[s].marked /\ req'[s].made = req[s].made
        /\ req'[s].wrote = req[s].wrote
        /\ req'[s].alone => req[s].pc = "idle"
  /\ UNCHANGED <<app, auth, faults, explained, closings, raced, undone>>

LEMMA ComeStep ==
  ASSUME IInv, NEW r \in Requests, NEW kind \in AllKinds, NEW record \in Request,
         Come(r, kind, record)
  PROVE  \E q \in Request :
            /\ Comes(r, q) /\ q.kind = kind /\ q.pc = record.pc /\ q.marked = record.marked
            /\ q.found = record.found /\ q.made = record.made /\ q.wrote = record.wrote
            /\ count' \in 0 .. MaxRequests
<1>1. PICK others, n : others = {s \in Requests \ {r} : req[s].pc # "idle"} /\ n = count + 1
  OBVIOUS
<1>2. /\ req[r].pc = "idle" /\ count < MaxRequests /\ count' = n
      /\ UNCHANGED <<app, auth, faults, explained, closings, raced, undone>>
      /\ req' = [s \in Requests |->
            IF s = r THEN [record EXCEPT !.kind = kind, !.number = n, !.alone = others = {}]
            ELSE [req[s] EXCEPT !.alone = @ /\ s \notin others]]
  BY <1>1 DEF Come
<1>3. n \in 0 .. MaxRequests
  <2>1. count \in 0 .. MaxRequests /\ count < MaxRequests /\ n = count + 1
    BY <1>1, <1>2 DEF IInv, TypeOK
  <2>2. QED BY <2>1, AccountsAssumption
<1>4. PICK alone \in BOOLEAN : alone = (others = {})
  OBVIOUS
<1> DEFINE q == [record EXCEPT !.kind = kind, !.number = n, !.alone = alone]
<1>5. /\ q \in Request /\ q.kind = kind /\ q.number = n /\ q.alone = alone /\ q.pc = record.pc
      /\ q.marked = record.marked /\ q.found = record.found
      /\ q.made = record.made /\ q.wrote = record.wrote
  BY <1>3 DEF Request
<1>6. req'[r] = q
  BY <1>2, <1>4
<1> HIDE DEF q
<1>7. ASSUME NEW s \in Requests \ {r}
      PROVE  /\ req'[s] \in Request
             /\ req'[s].pc = req[s].pc /\ req'[s].kind = req[s].kind
             /\ req'[s].number = req[s].number /\ req'[s].found = req[s].found
             /\ req'[s].marked = req[s].marked /\ req'[s].made = req[s].made
             /\ req'[s].wrote = req[s].wrote
             /\ req'[s].alone => req[s].pc = "idle"
  <2>1. PICK a \in BOOLEAN : a = (req[s].alone /\ s \notin others)
    OBVIOUS
  <2>2. req'[s] = [req[s] EXCEPT !.alone = a]
    BY <1>2, <2>1
  <2>3. req[s] \in Request
    BY Known
  <2>4. a => req[s].pc = "idle"
    BY <1>1, <2>1
  <2>5. QED BY <2>2, <2>3, <2>4 DEF Request
<1>8. req' \in [Requests -> Request]
  BY <1>2, <1>5, <1>6, <1>7
<1>9. Comes(r, q)
  BY <1>1, <1>2, <1>4, <1>5, <1>6, <1>7, <1>8 DEF Comes, AllKinds
<1>10. QED BY <1>2, <1>3, <1>5, <1>9

\* A request that comes has done nothing yet.
LEMMA ComesKeeps ==
  ASSUME IInv, NEW r \in Requests, NEW q, Comes(r, q), PcOK(q), count' \in 0 .. MaxRequests,
         q.pc \in {"find", "writeStatus", "map"}, ~ q.made, ~ q.wrote,
         q.kind = "setup" => app.token = "open",
         q.kind = "change" => app.status = "ACTIVE",
         ~ Present => q.kind \in {"create", "login"} /\ (q.kind = "login" => External)
  PROVE  IInv'
<1>1. UNCHANGED <<app, auth, faults, explained, closings, raced, undone>>
  BY DEF Comes
<1>2. ASSUME NEW s \in Requests PROVE PcOK(req[s])'
  <2>1. CASE s = r
    <3>1. PcOK(req'[s])
      BY <2>1 DEF Comes
    <3>2. QED BY <3>1 DEF PcOK
  <2>2. CASE s # r
    BY <2>2, Known DEF PcOK, Comes
  <2>3. QED BY <2>1, <2>2
<1>3. TypeOK'
  <2>1. \A s \in Requests : req'[s].pc = "cleanup" => req'[s].kind = "create" /\ req'[s].made
    <3>1. ASSUME NEW s \in Requests, req'[s].pc = "cleanup"
          PROVE  req'[s].kind = "create" /\ req'[s].made
      <4>1. s # r
        BY <3>1 DEF Comes
      <4>2. QED BY <3>1, <4>1 DEF IInv, TypeOK, Comes
    <3>2. QED BY <3>1
  <2>2. req' \in [Requests -> Request]
    BY DEF Comes
  <2>3. QED BY <1>1, <2>1, <2>2 DEF IInv, TypeOK, Exists
<1>4. NumbersOK'
  <2>1. count \in Nat /\ q.number = count + 1 /\ count' = count + 1
    BY AccountsAssumption DEF IInv, TypeOK, Comes
  <2>2. ASSUME NEW s \in Requests, s # r, req'[s].pc # "idle"
        PROVE  /\ req[s].pc # "idle" /\ req'[s].number = req[s].number
               /\ req[s].number \in 1 .. count
    BY <2>2 DEF IInv, NumbersOK, Comes
  <2>3. req'[r].number = count + 1
    BY <2>1 DEF Comes
  <2>4. ASSUME NEW s \in Requests, req'[s].pc # "idle" PROVE req'[s].number \in 1 .. count'
    <3>1. CASE s = r
      BY <2>1, <2>3, <3>1
    <3>2. CASE s # r
      BY <2>1, <2>2, <2>4, <3>2
    <3>3. QED BY <3>1, <3>2
  <2>5. ASSUME NEW s \in Requests, NEW u \in Requests, req'[s].pc # "idle", req'[u].pc # "idle",
               req'[s].number = req'[u].number
        PROVE  s = u
    <3>1. CASE s # r /\ u # r
      BY <2>2, <2>5, <3>1 DEF IInv, NumbersOK
    <3>2. CASE s = r /\ u # r
      BY <2>1, <2>2, <2>3, <2>5, <3>2
    <3>3. CASE s # r /\ u = r
      BY <2>1, <2>2, <2>3, <2>5, <3>3
    <3>4. QED BY <3>1, <3>2, <3>3
  <2>6. QED BY <2>4, <2>5 DEF NumbersOK
<1>5. ASSUME NEW s \in Requests PROVE AloneOK(s)' /\ MakerOK(s)'
  <2>1. CASE s = r
    BY <1>1, <2>1 DEF Comes, AloneOK, MakerOK
  <2>2. CASE s # r
    BY <1>1, <2>2, Known DEF Comes, AloneOK, MakerOK, External
  <2>3. QED BY <2>1, <2>2
<1>6. TokenOK'
  BY <1>1 DEF IInv, TokenOK, Present
<1>7. ASSUME NEW s \in Requests
      PROVE  /\ Adopting(req'[s]) => Adopting(req[s]) /\ req'[s].found = req[s].found
             /\ req'[s].made => req[s].made
             /\ Undoing(req'[s]) => Undoing(req[s])
             /\ req[s].pc = "mark" => req'[s].pc = "mark"
             /\ Answers(req[s]) => req'[s].wrote /\ req'[s].number = auth.password
  <2>1. CASE s = r
    <3>1. ~ req[s].wrote
      BY <2>1, Known DEF PcOK, Comes
    <3>2. QED BY <2>1, <3>1 DEF Comes, Adopting, Undoing, Answers
  <2>2. CASE s # r
    BY <2>2 DEF Comes, Adopting, Undoing, Answers
  <2>3. QED BY <2>1, <2>2
<1>8. AdoptedOK'
  <2>1. ~ raced => /\ \A s \in Requests : Adopting(req'[s]) => auth'.id = req'[s].found
                   /\ \A s, u \in Requests : req'[s].made /\ Adopting(req'[u]) => s = u
    BY <1>1, <1>7 DEF IInv, AdoptedOK
  <2>2. QED BY <1>1, <2>1 DEF AdoptedOK, Adopting
<1>9. BeforeOK'
  <2>1. ~ Present => /\ \A s \in Requests : req'[s].kind \in {"none", "create", "login"}
                     /\ \A s \in Requests : req'[s].kind = "login" => External
    BY DEF IInv, BeforeOK, Comes
  <2>2. QED BY <1>1, <2>1 DEF IInv, BeforeOK, Present, External, Exists
<1>10. KeptOK'
  BY <1>1, <1>7 DEF IInv, KeptOK, Present, Exists
<1>11. PasswordOK'
  <2>1. Exists => auth.password \in explained
                    \/ \E s \in Requests : req'[s].wrote /\ req'[s].number = auth.password
    BY <1>7 DEF IInv, PasswordOK
  <2>2. QED BY <1>1, <2>1 DEF PasswordOK, Answers, Exists
<1>12. RevocationOK'
  <2> SUFFICES ASSUME Exists', ~ undone', Revoked', \A s \in Requests : req'[s].pc # "mark"
               PROVE  auth'.marker /\ \A s \in Requests : ~ Undoing(req'[s])
    BY DEF RevocationOK, Undoing
  <2>1. auth.marker /\ \A s \in Requests : ~ Undoing(req[s])
    BY <1>1, <1>7 DEF IInv, RevocationOK, Revoked, Exists
  <2>2. QED BY <1>1, <1>7, <2>1
<1>13. QED BY <1>2, <1>3, <1>4, <1>5, <1>6, <1>8, <1>9, <1>10, <1>11, <1>12 DEF IInv

LEMMA StartStep == ASSUME IInv, NEW r \in Requests, Start(r) PROVE IInv'
<1>1. IdleReq \in Request /\ ~ IdleReq.made /\ ~ IdleReq.wrote
  BY Idle
<1>2. PICK kind \in AllKinds, record \in Request :
        /\ Come(r, kind, record) /\ ~ record.made /\ ~ record.wrote
        /\ record.pc = IF kind = "status" THEN "writeStatus"
                       ELSE IF kind = "login" THEN "map" ELSE "find"
        /\ kind = "setup" => app.token = "open"
        /\ kind = "change" => app.status = "ACTIVE"
        /\ kind \in {"reset", "status", "profile"} => Present
        /\ kind = "login" => Exists /\ ~ auth.temporary
  <2>1. PICK new \in Request : new = [IdleReq EXCEPT !.pc = "find"]
    BY <1>1 DEF Request
  <2>2. new.pc = "find" /\ ~ new.made /\ ~ new.wrote
    BY <1>1, <2>1 DEF Request
  <2>3. CASE StartCreate(r) \/ StartSetup(r) \/ StartReset(r) \/ StartProfile(r)
    <3>1. PICK kind \in {"create", "setup", "reset", "profile"} :
            /\ Come(r, kind, new) /\ (kind = "setup" => app.token = "open")
            /\ kind \in {"reset", "profile"} => Present
      BY <2>1, <2>3 DEF StartCreate, StartSetup, StartReset, StartProfile
    <3>2. QED BY <2>2, <3>1 DEF AllKinds
  <2>4. CASE StartStatus(r)
    <3>1. PICK s \in UserStatus :
            Present /\ Come(r, "status", [IdleReq EXCEPT !.pc = "writeStatus", !.target = s])
      BY <2>4 DEF StartStatus
    <3>2. PICK record : record = [IdleReq EXCEPT !.pc = "writeStatus", !.target = s]
      OBVIOUS
    <3>3. record \in Request /\ record.pc = "writeStatus" /\ ~ record.made /\ ~ record.wrote
      BY <1>1, <3>2 DEF Request
    <3>4. QED BY <3>1, <3>2, <3>3 DEF AllKinds
  <2>5. CASE StartLogin(r)
    <3>1. PICK marker \in BOOLEAN : marker = auth.marker
      BY DEF IInv, TypeOK
    <3>2. PICK record : record = [IdleReq EXCEPT !.pc = "map", !.marked = marker]
      OBVIOUS
    <3>3. record \in Request /\ record.pc = "map" /\ ~ record.made /\ ~ record.wrote
      BY <1>1, <3>2 DEF Request
    <3>4. Come(r, "login", record) /\ Exists /\ ~ auth.temporary
      BY <2>5, <3>1, <3>2 DEF StartLogin
    <3>5. QED BY <3>3, <3>4 DEF AllKinds
  <2>6. CASE StartChange(r)
    <3>1. PICK password \in 0 .. MaxRequests : password = auth.password
      BY DEF IInv, TypeOK
    <3>2. PICK record : record = [IdleReq EXCEPT !.pc = "find", !.old = password]
      OBVIOUS
    <3>3. record \in Request /\ record.pc = "find" /\ ~ record.made /\ ~ record.wrote
      BY <1>1, <3>2 DEF Request
    <3>4. Come(r, "change", record) /\ app.status = "ACTIVE"
      BY <2>6, <3>1, <3>2 DEF StartChange
    <3>5. QED BY <3>3, <3>4 DEF AllKinds
  <2>7. QED BY <2>3, <2>4, <2>5, <2>6 DEF Start
<1>3. PICK q \in Request :
        /\ Comes(r, q) /\ q.kind = kind /\ q.pc = record.pc
        /\ q.made = record.made /\ q.wrote = record.wrote /\ count' \in 0 .. MaxRequests
  BY <1>2, ComeStep
<1>4. PcOK(q) /\ q.pc \in {"find", "writeStatus", "map"}
  BY <1>2, <1>3 DEF PcOK, AllKinds
<1>5. ~ Present => q.kind \in {"create", "login"} /\ (q.kind = "login" => External)
  <2>1. ~ Present => app.token = "none" /\ app.status = "absent"
    BY DEF IInv, TokenOK, Present
  <2>2. ~ Present /\ Exists /\ ~ auth.temporary => External
    BY DEF IInv, BeforeOK
  <2>3. QED BY <1>2, <1>3, <2>1, <2>2 DEF AllKinds
<1>6. QED BY <1>2, <1>3, <1>4, <1>5, ComesKeeps

-----------------------------------------------------------------------------
(* The theorems *)

LEMMA InitHolds == Init => IInv
<1> SUFFICES ASSUME Init PROVE IInv
  OBVIOUS
<1>1. PICK known : known = MaxRequests + 1 /\ known \in 0 .. MaxRequests + 1 /\ known # 0
  BY AccountsAssumption
<1>2. /\ auth.id \in {0, known} /\ auth.password = 0 /\ ~ auth.temporary
      /\ auth \in [id : 0 .. MaxRequests + 1, password : 0 .. MaxRequests,
                   temporary : BOOLEAN, marker : BOOLEAN]
      /\ ~ Exists => auth = NoAuth
      /\ Exists => External
  <2>1. 0 \in 0 .. MaxRequests /\ 0 \in 0 .. MaxRequests + 1
    BY AccountsAssumption
  <2>2. CASE auth = NoAuth
    BY <2>1, <2>2 DEF NoAuth, Exists
  <2>3. CASE auth = [NoAuth EXCEPT !.id = known]
    <3>1. /\ auth.id = known /\ auth.password = 0 /\ ~ auth.temporary
          /\ auth \in [id : 0 .. MaxRequests + 1, password : 0 .. MaxRequests,
                       temporary : BOOLEAN, marker : BOOLEAN]
      BY <1>1, <2>1, <2>3 DEF NoAuth
    <3>2. QED BY <1>1, <3>1 DEF Exists, External
  <2>4. QED BY <1>1, <2>2, <2>3 DEF Init
<1>3. \A r \in Requests : req[r] = IdleReq
  BY DEF Init
<1>4. TypeOK
  <2>1. /\ 0 \in 0 .. MaxRequests /\ 0 \in 0 .. MaxFaults
        /\ req \in [Requests -> Request] /\ {0} \subseteq 0 .. MaxRequests
    BY Idle, AccountsAssumption DEF Init
  <2>2. QED BY <1>2, <1>3, <2>1, Idle DEF Init, TypeOK, UserStatus
<1>5. NumbersOK /\ TokenOK
  BY <1>3, Idle DEF Init, NumbersOK, TokenOK, Present
<1>6. \A r \in Requests : PcOK(req[r]) /\ AloneOK(r) /\ MakerOK(r)
  BY <1>3, Idle DEF AloneOK, MakerOK
<1>7. AdoptedOK /\ BeforeOK /\ KeptOK
  BY <1>2, <1>3, Idle DEF Init, AdoptedOK, BeforeOK, KeptOK, Present
<1>8. PasswordOK /\ RevocationOK
  BY <1>2 DEF Init, PasswordOK, RevocationOK, Revoked
<1>9. QED BY <1>4, <1>5, <1>6, <1>7, <1>8 DEF IInv

LEMMA Inductive == IInv /\ [Next]_vars => IInv'
<1> SUFFICES ASSUME IInv, [Next]_vars PROVE IInv'
  OBVIOUS
<1>1. CASE ExpireToken
  BY <1>1, ExpireTokenStep
<1>2. ASSUME NEW r \in Requests, Advance(r) PROVE IInv'
  BY <1>2, FindUserStep, CreateAuthUserStep, UpdateAuthUserStep, InsertUserStep,
     RemoveAuthUserStep, CommitSetupStep, CommitResetStep, WriteStatusStep, MarkRevokedStep,
     MapUserStep, ProvisionStep, ClearMarkerStep, FinishLoginStep, ReloginStep DEF Advance
<1>3. ASSUME NEW r \in Requests, Start(r) \/ FailInsert(r) \/ Stop(r) PROVE IInv'
  BY <1>3, StartStep, FailInsertStep, StopStep
<1>4. CASE UNCHANGED vars
  <2>1. UNCHANGED <<app, auth, req, count, faults, explained, closings, raced, undone>>
    BY <1>4 DEF vars
  <2>2. TypeOK' /\ NumbersOK' /\ TokenOK'
    BY <2>1 DEF IInv, TypeOK, NumbersOK, TokenOK, Present, Exists
  <2>3. ASSUME NEW r \in Requests PROVE PcOK(req[r])' /\ AloneOK(r)' /\ MakerOK(r)'
    BY <2>1, Known DEF PcOK, AloneOK, MakerOK, External
  <2>4. AdoptedOK' /\ BeforeOK' /\ KeptOK'
    BY <2>1 DEF IInv, AdoptedOK, Adopting, BeforeOK, KeptOK, Present, Exists, External
  <2>5. PasswordOK' /\ RevocationOK'
    BY <2>1 DEF IInv, PasswordOK, Answers, RevocationOK, Revoked, Undoing, Exists
  <2>6. QED BY <2>2, <2>3, <2>4, <2>5 DEF IInv
<1>5. QED BY <1>1, <1>2, <1>3, <1>4 DEF Next

\* What every step keeps, and the properties below follow from.
THEOREM Invariant == Spec => []IInv
BY InitHolds, Inductive, PTL DEF Spec

\* Types, and that the cleanup of a creation is of an auth user it made.
THEOREM TypeCorrect == Spec => []TypeOK
<1>1. IInv => TypeOK
  BY DEF IInv
<1>2. QED BY <1>1, Invariant, PTL

LEMMA SoundFromInvariant == IInv => SignInIsSound
<1> SUFFICES ASSUME IInv PROVE SignInIsSound
  OBVIOUS
<1>1. AccountKeepsItsSignIn
  BY DEF IInv, KeptOK, AccountKeepsItsSignIn
<1>2. PasswordIsAnswered
  <2>1. ASSUME NEW r \in Requests, Answers(req[r]) PROVE req[r].pc # "idle"
    BY <2>1, Known DEF Answers, PcOK
  <2>2. QED BY <2>1 DEF IInv, PasswordOK, PasswordIsAnswered, Quiet
<1>3. QED BY <1>1, <1>2 DEF IInv, SignInIsSound

\* An account that was inserted keeps an auth user to sign in with, whose
\* password was answered for: no failure of a call, and no order of creations,
\* setups, resets and changes takes it away unexplained.
THEOREM SignInSound == Spec => []SignInIsSound
BY SoundFromInvariant, Invariant, PTL

\* A setup link, or a reset in its place, is spent once.
THEOREM SetupTokenSpentOnce == Spec => []SetupTokenUsedOnce
<1>1. IInv => SetupTokenUsedOnce
  BY DEF IInv, TokenOK, SetupTokenUsedOnce
<1>2. QED BY <1>1, Invariant, PTL

\* A suspended or deactivated user stays revoked, whoever else writes the
\* metadata of the auth user.
THEOREM RevocationLasts == Spec => []RevokedStaysRevoked
<1>1. IInv => RevokedStaysRevoked
  BY DEF IInv, RevocationOK, RevokedStaysRevoked, Revoked, Quiet
<1>2. QED BY <1>1, Invariant, PTL

-----------------------------------------------------------------------------
(* The phone (PhoneSession): its sessions, its calls and the rows of its tokens *)

\* What the constants are is used throughout.
USE PhoneAssumption

Removal(c) == c.job \in {"unregister", "forget"}
Registration(c) == c.job \in {"register", "reregister"}

SessionsOK ==
  /\ owner \in Seq(PhoneUsers) /\ Len(owner) <= MaxSignIns
  /\ live \subseteq Phone!Sessions
  /\ jar \in [session : 0 .. Len(owner), fresh : BOOLEAN]
  /\ shown \in 0 .. Len(owner)
  /\ unsure \subseteq signedOut /\ signedOut \subseteq Phone!Sessions

\* FCM has not given out a token yet that a row, a call or the phone names.
TokensOK ==
  /\ token \in 1 .. MaxTokens /\ stored \in 0 .. token
  /\ rows \subseteq PhoneUsers \X (1 .. token)

FlagsOK ==
  /\ booting \in BOOLEAN /\ crossed \in BOOLEAN /\ missed \in BOOLEAN
  /\ listening \subseteq {"shown", "leaked"} /\ events \in 0 .. MaxEvents
  /\ loose \subseteq PhoneUsers

CallOK(c) ==
  /\ c \in Phone!Call
  /\ c.job = "renew" => c.at \in {"renew", "refused", "lost"}
  /\ IF Registration(c) \/ Removal(c) THEN c.tok \in 1 .. token ELSE c.tok = 0
  /\ c.job \in {"forget", "signOut"} => c.of \in Phone!Sessions

CallsOK == \A c \in calls : CallOK(c)

\* One call of the interceptor renews, and the flag says so.
Renewing(c) == c.at = "renew" /\ c.job # "renew"
RenewalOK ==
  /\ renewing \in BOOLEAN /\ (renewing <=> \E c \in calls : Renewing(c))
  /\ \A c, d \in calls : Renewing(c) /\ Renewing(d) => c = d

PhoneTyped == SessionsOK /\ TokensOK /\ FlagsOK /\ CallsOK /\ RenewalOK

LEMMA PhoneTypedIsTypeOK == PhoneTyped => Phone!TypeOK
<1> SUFFICES ASSUME PhoneTyped PROVE Phone!TypeOK
  OBVIOUS
<1>1. rows \subseteq PhoneUsers \X (1 .. MaxTokens) /\ stored \in 0 .. MaxTokens
  BY DEF PhoneTyped, TokensOK
<1>2. calls \subseteq Phone!Call
  BY DEF PhoneTyped, CallsOK, CallOK
<1>3. renewing <=> \E c \in calls : c.at = "renew" /\ c.job # "renew"
  BY DEF PhoneTyped, RenewalOK, Renewing
<1>4. QED
  BY <1>1, <1>2, <1>3 DEF PhoneTyped, SessionsOK, TokensOK, FlagsOK, Phone!TypeOK

\* What is known of a session, and of a call.
LEMMA SessionFields ==
  ASSUME SessionsOK
  PROVE  /\ Len(owner) \in Nat /\ Phone!Sessions = 1 .. Len(owner) /\ Len(owner) <= MaxSignIns
         /\ \A s \in Phone!Sessions : owner[s] \in PhoneUsers /\ Phone!UserOf(s) = owner[s] /\ s # 0
         /\ Phone!UserOf(0) = "nobody" /\ 0 \notin live
         /\ \A s \in 0 .. Len(owner) : Phone!UserOf(s) = "nobody" <=> s = 0
         /\ jar.session \in 0 .. Len(owner) /\ jar.fresh \in BOOLEAN
         /\ Phone!Authorised => jar.session \in Phone!Sessions /\ Phone!UserOf(jar.session) \in PhoneUsers
<1>1. Len(owner) \in Nat /\ \A s \in 1 .. Len(owner) : owner[s] \in PhoneUsers
  BY LenProperties DEF SessionsOK
<1>2. jar.session \in 0 .. Len(owner) /\ jar.fresh \in BOOLEAN
  BY DEF SessionsOK
<1>3. QED BY <1>1, <1>2 DEF SessionsOK, Phone!Sessions, Phone!UserOf, Phone!Authorised

LEMMA CallFields ==
  ASSUME NEW c \in Phone!Call
  PROVE  /\ c.job \in Phone!Jobs /\ c.tok \in 0 .. MaxTokens /\ c.of \in 0 .. MaxSignIns
         /\ c.with \in 0 .. MaxSignIns /\ c.mounted \in BOOLEAN
         /\ c.at \in {"send", "renew", "wait", "again", "refused", "lost"}
BY DEF Phone!Call

LEMMA NewCallFields ==
  ASSUME NEW job \in Phone!Jobs, NEW tok \in 0 .. MaxTokens, NEW of \in 0 .. MaxSignIns
  PROVE  /\ Phone!NewCall(job, tok, of) \in Phone!Call
         /\ Phone!NewCall(job, tok, of).job = job /\ Phone!NewCall(job, tok, of).tok = tok
         /\ Phone!NewCall(job, tok, of).of = of /\ Phone!NewCall(job, tok, of).at = "send"
BY DEF Phone!Call, Phone!NewCall

\* A call that goes on is for the same thing.
Follows(d, c) == d \in Phone!Call /\ d.job = c.job /\ d.tok = c.tok /\ d.of = c.of

LEMMA Remounted ==
  ASSUME NEW c \in Phone!Call, NEW mounted \in BOOLEAN
  PROVE  /\ Follows([c EXCEPT !.mounted = mounted], c)
         /\ [c EXCEPT !.mounted = mounted].at = c.at
BY DEF Phone!Call, Follows

\* What the cleaning up of the effects leaves of a call.
Left(c) == [c EXCEPT !.mounted = @ /\ c.job # "register"]

LEMMA Leaving == \A c \in Phone!Call : Follows(Left(c), c) /\ Left(c).at = c.at
<1> TAKE c \in Phone!Call
<1>1. PICK b \in BOOLEAN : b = (c.mounted /\ c.job # "register")
  OBVIOUS
<1>2. Left(c) = [c EXCEPT !.mounted = b]
  BY <1>1 DEF Left
<1>3. QED BY <1>2, Remounted

\* The calls after the store shows somebody, whether he is another or not.
LEMMA Showing ==
  ASSUME NEW s, NEW others \in SUBSET Phone!Call, NEW remembered, NEW ends,
         Phone!Show(s, others, remembered, ends)
  PROVE  /\ shown' = s
         /\ \A d \in calls' :
              \/ \E c \in others : Follows(d, c) /\ d.at = c.at
              \/ d = Phone!NewCall("me", 0, 0)
              \/ s # 0 /\ d = Phone!NewCall("register", token, 0)
              \/ s = 0 /\ remembered # 0 /\ d = Phone!NewCall("unregister", remembered, 0)
         /\ \A c \in others : \E d \in calls' : Follows(d, c) /\ d.at = c.at
         /\ Phone!UserOf(s) # Phone!UserOf(shown) =>
              /\ s # 0 => Phone!NewCall("register", token, 0) \in calls'
              /\ s = 0 /\ remembered # 0 => Phone!NewCall("unregister", remembered, 0) \in calls'
         /\ (\A c, d \in others : Renewing(c) /\ Renewing(d) => c = d) =>
              \A c, d \in calls' : Renewing(c) /\ Renewing(d) => c = d
<1>1. \A c \in others : Follows(c, c)
  BY DEF Follows
<1>2. CASE Phone!UserOf(s) = Phone!UserOf(shown)
  BY <1>1, <1>2 DEF Phone!Show
<1>3. CASE Phone!UserOf(s) # Phone!UserOf(shown)
  <2>1. calls' = Phone!Effects(others, s # 0, remembered) /\ shown' = s
    BY <1>3 DEF Phone!Show
  <2>2. PICK fresh : fresh = {Phone!NewCall("me", 0, 0)}
                       \cup (IF s # 0 THEN {Phone!NewCall("register", token, 0)}
                             ELSE IF remembered # 0 THEN {Phone!NewCall("unregister", remembered, 0)}
                             ELSE {})
    OBVIOUS
  <2>3. calls' = {Left(c) : c \in others} \cup fresh
    BY <2>1, <2>2 DEF Phone!Effects, Left
  <2>4. \A d \in fresh : d.at = "send"
    BY <2>2 DEF Phone!NewCall
  <2>5. \A c \in others : Follows(Left(c), c) /\ Left(c).at = c.at
    BY Leaving
  <2>6. /\ \A d \in calls' : d \in fresh \/ \E c \in others : Follows(d, c) /\ d.at = c.at
        /\ \A c \in others : \E d \in calls' : Follows(d, c) /\ d.at = c.at
    BY <2>3, <2>5
  <2>7. ASSUME \A c, d \in others : Renewing(c) /\ Renewing(d) => c = d,
               NEW c \in calls', NEW d \in calls', Renewing(c), Renewing(d)
        PROVE  c = d
    <3>1. PICK a \in others : c = Left(a)
      BY <2>3, <2>4, <2>7 DEF Renewing
    <3>2. PICK b \in others : d = Left(b)
      BY <2>3, <2>4, <2>7 DEF Renewing
    <3>3. Renewing(a) /\ Renewing(b)
      BY <2>5, <2>7, <3>1, <3>2 DEF Renewing, Follows
    <3>4. QED BY <2>7, <3>1, <3>2, <3>3
  <2>8. fresh \subseteq calls'
    BY <2>3
  <2>9. QED BY <2>1, <2>2, <2>6, <2>7, <2>8
<1>4. QED BY <1>2, <1>3

\* And after a sign-in.
LEMMA SigningIn ==
  ASSUME calls \in SUBSET Phone!Call, calls' = Phone!Effects(calls, TRUE, 0)
  PROVE  /\ \A d \in calls' : \/ \E c \in calls : Follows(d, c) /\ d.at = c.at
                              \/ d = Phone!NewCall("me", 0, 0) \/ d = Phone!NewCall("register", token, 0)
         /\ \A c \in calls : \E d \in calls' : Follows(d, c) /\ d.at = c.at
         /\ Phone!NewCall("register", token, 0) \in calls'
         /\ (\A c, d \in calls : Renewing(c) /\ Renewing(d) => c = d) =>
              \A c, d \in calls' : Renewing(c) /\ Renewing(d) => c = d
<1>1. PICK fresh : fresh = {Phone!NewCall("me", 0, 0), Phone!NewCall("register", token, 0)}
  OBVIOUS
<1>2. calls' = {Left(c) : c \in calls} \cup fresh
  BY <1>1 DEF Phone!Effects, Left
<1>3. \A d \in fresh : d.at = "send"
  BY <1>1 DEF Phone!NewCall
<1>4. \A c \in calls : Follows(Left(c), c) /\ Left(c).at = c.at
  BY Leaving
<1>5. /\ \A d \in calls' : d \in fresh \/ \E c \in calls : Follows(d, c) /\ d.at = c.at
      /\ \A c \in calls : \E d \in calls' : Follows(d, c) /\ d.at = c.at
  BY <1>2, <1>4
<1>6. ASSUME \A c, d \in calls : Renewing(c) /\ Renewing(d) => c = d,
             NEW c \in calls', NEW d \in calls', Renewing(c), Renewing(d)
      PROVE  c = d
  <2>1. PICK a \in calls : c = Left(a)
    BY <1>2, <1>3, <1>6 DEF Renewing
  <2>2. PICK b \in calls : d = Left(b)
    BY <1>2, <1>3, <1>6 DEF Renewing
  <2>3. Renewing(a) /\ Renewing(b)
    BY <1>4, <1>6, <2>1, <2>2 DEF Renewing, Follows
  <2>4. QED BY <1>6, <2>1, <2>2, <2>3
<1>7. QED BY <1>1, <1>2, <1>5, <1>6

-----------------------------------------------------------------------------
(* Shapes *)

\* The steps of the phone, without the order in which the app takes them up.
Moved ==
  \/ \E c \in calls : Phone!Rejected(c) \/ Phone!Answered(c) \/ Phone!Refused(c) \/ Phone!Lost(c) \/ Phone!Renewed(c) \/ Phone!NotRenewed(c)
  \/ \E w \in PhoneUsers : Phone!SignIn(w) \/ Phone!Notify(w)
  \/ \E s \in live : Phone!EndSession(s)
  \/ Phone!TapSignOut \/ Phone!Expire \/ Phone!Reopen \/ Phone!Rotate

LEMMA NextMoves == Phone!Next => Moved
BY DEF Phone!Next, Moved

LEMMA SessionsStay ==
  ASSUME SessionsOK, owner' = owner, live' \subseteq live,
         jar' \in [session : 0 .. Len(owner), fresh : BOOLEAN], shown' \in 0 .. Len(owner),
         signedOut' \subseteq Phone!Sessions, unsure' \subseteq signedOut'
  PROVE  SessionsOK'
BY DEF SessionsOK, Phone!Sessions

LEMMA SessionsStep == ASSUME PhoneTyped, Moved PROVE SessionsOK'
<1> USE DEF PhoneTyped
<1>1. /\ Len(owner) \in Nat /\ Phone!Sessions = 1 .. Len(owner) /\ live \subseteq Phone!Sessions
      /\ jar \in [session : 0 .. Len(owner), fresh : BOOLEAN] /\ shown \in 0 .. Len(owner)
      /\ jar.session \in 0 .. Len(owner) /\ signedOut \subseteq Phone!Sessions /\ unsure \subseteq signedOut
      /\ Phone!Authorised => jar.session \in Phone!Sessions
  BY SessionFields DEF SessionsOK
<1>2. \A c \in calls : c.job = "signOut" => c.of \in Phone!Sessions
  BY DEF CallsOK, CallOK
<1>3. ASSUME NEW c \in calls, Phone!Rejected(c) PROVE SessionsOK'
  <2>1. owner' = owner /\ live' = live /\ jar' = jar /\ shown' \in {shown, 0}
    BY <1>3 DEF Phone!Rejected, Phone!serverVars, Phone!EndSignOut, Phone!Show
  <2>2. signedOut' \subseteq Phone!Sessions /\ unsure' \subseteq signedOut'
    BY <1>1, <1>2, <1>3 DEF Phone!Rejected, Phone!signVars, Phone!EndSignOut
  <2>3. QED BY <1>1, <2>1, <2>2, SessionsStay
<1>4. ASSUME NEW c \in calls, Phone!Answered(c) PROVE SessionsOK'
  <2>1. /\ owner' = owner /\ live' \subseteq live /\ jar' \in {jar, [session |-> 0, fresh |-> FALSE]}
        /\ shown' \in {shown, 0, jar.session}
    BY <1>4 DEF Phone!Answered, Phone!SessionClosed, Phone!EndSignOut, Phone!Show
  <2>2. signedOut' \subseteq Phone!Sessions /\ unsure' \subseteq signedOut'
    BY <1>1, <1>2, <1>4 DEF Phone!Answered, Phone!signVars, Phone!EndSignOut
  <2>3. [session |-> 0, fresh |-> FALSE] \in [session : 0 .. Len(owner), fresh : BOOLEAN]
    BY <1>1
  <2>4. QED BY <1>1, <2>1, <2>2, <2>3, SessionsStay
<1>5. ASSUME NEW c \in calls, Phone!Refused(c) \/ Phone!Lost(c) PROVE SessionsOK'
  <2>1. /\ owner' = owner /\ live' \subseteq live /\ jar' = jar /\ shown' = shown
        /\ signedOut' = signedOut /\ unsure' = unsure
    BY <1>5 DEF Phone!Refused, Phone!Lost, Phone!serverVars, Phone!signVars
  <2>2. QED BY <1>1, <2>1, SessionsStay
<1>6. ASSUME NEW c \in calls, Phone!Renewed(c) PROVE SessionsOK'
  <2>1. /\ owner' = owner /\ live' = live /\ shown' = shown /\ c.with \in live
        /\ jar' = [session |-> c.with, fresh |-> TRUE]
        /\ signedOut' = signedOut /\ unsure' = unsure
    BY <1>6 DEF Phone!Renewed, Phone!Rotates, Phone!serverVars, Phone!signVars
  <2>2. c.with \in 0 .. Len(owner)
    BY <1>1, <2>1
  <2>3. jar' \in [session : 0 .. Len(owner), fresh : BOOLEAN]
    BY <2>1, <2>2
  <2>4. QED BY <1>1, <2>1, <2>3, SessionsStay
<1>7. ASSUME NEW c \in calls, Phone!NotRenewed(c) PROVE SessionsOK'
  <2>1. /\ owner' = owner /\ live' = live /\ jar' = jar /\ shown' \in {shown, 0}
        /\ signedOut' = signedOut /\ unsure' = unsure
    BY <1>7 DEF Phone!NotRenewed, Phone!serverVars, Phone!signVars, Phone!Show
  <2>2. QED BY <1>1, <2>1, SessionsStay
<1>8. ASSUME NEW w \in PhoneUsers, Phone!SignIn(w) PROVE SessionsOK'
  <2>1. /\ owner' = Append(owner, w) /\ Len(owner) < MaxSignIns
        /\ live' = live \cup {Len(owner')} /\ jar' = [session |-> Len(owner'), fresh |-> TRUE]
        /\ shown' = Len(owner') /\ signedOut' = signedOut /\ unsure' = unsure
    BY <1>8 DEF Phone!SignIn, Phone!signVars
  <2>2. owner' \in Seq(PhoneUsers) /\ Len(owner') = Len(owner) + 1
    BY <2>1, AppendProperties DEF SessionsOK
  <2>3. Phone!Sessions' = 1 .. Len(owner')
    BY DEF Phone!Sessions
  <2>4. Phone!Sessions \subseteq Phone!Sessions' /\ Len(owner') \in Phone!Sessions' /\ Len(owner') <= MaxSignIns
    BY <1>1, <2>1, <2>2, <2>3
  <2>5. jar' \in [session : 0 .. Len(owner'), fresh : BOOLEAN] /\ shown' \in 0 .. Len(owner')
    BY <2>1, <2>3, <2>4
  <2>6. QED BY <1>1, <2>1, <2>2, <2>4, <2>5 DEF SessionsOK
<1>9. ASSUME NEW s \in live, Phone!EndSession(s) PROVE SessionsOK'
  <2>1. /\ owner' = owner /\ live' \subseteq live /\ jar' = jar /\ shown' = shown
        /\ signedOut' = signedOut /\ unsure' = unsure
    BY <1>9 DEF Phone!EndSession, Phone!signVars
  <2>2. QED BY <1>1, <2>1, SessionsStay
<1>10. ASSUME NEW w \in PhoneUsers, Phone!Notify(w) PROVE SessionsOK'
  <2>1. /\ owner' = owner /\ live' = live /\ jar' = jar /\ shown' = shown
        /\ signedOut' = signedOut /\ unsure' = unsure
    BY <1>10 DEF Phone!Notify, Phone!signVars
  <2>2. QED BY <1>1, <2>1, SessionsStay
<1>11. ASSUME Phone!TapSignOut \/ Phone!Expire \/ Phone!Reopen \/ Phone!Rotate PROVE SessionsOK'
  <2>1. /\ owner' = owner /\ live' = live /\ shown' \in {shown, 0}
        /\ signedOut' = signedOut /\ unsure' = unsure
        /\ jar' \in {jar, [jar EXCEPT !.fresh = FALSE]}
    BY <1>11 DEF Phone!TapSignOut, Phone!Expire, Phone!Reopen, Phone!Rotate, Phone!serverVars,
                 Phone!signVars
  <2>2. jar' \in [session : 0 .. Len(owner), fresh : BOOLEAN]
    BY <1>1, <2>1
  <2>3. QED BY <1>1, <2>1, <2>2, SessionsStay
<1>12. QED BY <1>3, <1>4, <1>5, <1>6, <1>7, <1>8, <1>9, <1>10, <1>11 DEF Moved

\* Sessions are never forgotten, and tokens get newer.
LEMMA Grows ==
  ASSUME PhoneTyped, Moved
  PROVE  /\ Phone!Sessions \subseteq Phone!Sessions' /\ \A s \in Phone!Sessions : owner'[s] = owner[s]
         /\ token \in 1 .. MaxTokens /\ token' \in 1 .. MaxTokens /\ token <= token'
<1> USE DEF PhoneTyped
<1>1. Len(owner) \in Nat /\ Phone!Sessions = 1 .. Len(owner) /\ owner \in Seq(PhoneUsers) /\ token \in 1 .. MaxTokens
  BY SessionFields DEF SessionsOK, TokensOK
<1>2. owner' = owner \/ \E w \in PhoneUsers : owner' = Append(owner, w)
  BY DEF Moved, Phone!Rejected, Phone!Answered, Phone!Refused, Phone!Lost, Phone!Renewed,
         Phone!NotRenewed, Phone!SignIn, Phone!Notify, Phone!EndSession, Phone!TapSignOut,
         Phone!Expire, Phone!Reopen, Phone!Rotate, Phone!serverVars
<1>3. token' = token \/ (token < MaxTokens /\ token' = token + 1)
  BY DEF Moved, Phone!Rejected, Phone!Answered, Phone!Refused, Phone!Lost, Phone!Renewed,
         Phone!NotRenewed, Phone!SignIn, Phone!Notify, Phone!EndSession, Phone!TapSignOut,
         Phone!Expire, Phone!Reopen, Phone!Rotate
<1>4. Phone!Sessions \subseteq Phone!Sessions' /\ \A s \in Phone!Sessions : owner'[s] = owner[s]
  <2>1. CASE owner' = owner
    BY <2>1 DEF Phone!Sessions
  <2>2. ASSUME NEW w \in PhoneUsers, owner' = Append(owner, w) PROVE <1>4!1 /\ <1>4!2
    BY <1>1, <2>2, AppendProperties DEF Phone!Sessions
  <2>3. QED BY <1>2, <2>1, <2>2
<1>5. QED BY <1>1, <1>3, <1>4

LEMMA TokensStep == ASSUME PhoneTyped, Moved PROVE TokensOK'
<1> USE DEF PhoneTyped
<1>1. /\ token \in 1 .. MaxTokens /\ token' \in 1 .. MaxTokens /\ token <= token'
      /\ stored \in 0 .. token /\ rows \subseteq PhoneUsers \X (1 .. token)
      /\ Phone!Authorised => Phone!UserOf(jar.session) \in PhoneUsers
  BY Grows, SessionFields DEF TokensOK
<1>2. \A c \in calls : Registration(c) => c.tok \in 1 .. token
  BY DEF CallsOK, CallOK
<1>3. stored' \in 0 .. token
  <2>1. stored' = stored \/ stored' = 0 \/ \E c \in calls : Registration(c) /\ stored' = c.tok
    <3> DEFINE Goal == stored' = stored \/ stored' = 0 \/ \E c \in calls : Registration(c) /\ stored' = c.tok
    <3>1. ASSUME NEW c \in calls, Phone!Answered(c) PROVE Goal
      BY <3>1 DEF Phone!Answered, Phone!EndSignOut, Registration
    <3>2. ASSUME NEW c \in calls, Phone!Rejected(c) \/ Phone!Refused(c) \/ Phone!Lost(c) PROVE Goal
      BY <3>2 DEF Phone!Rejected, Phone!Refused, Phone!Lost
    <3>3. ASSUME NEW c \in calls, Phone!Renewed(c) \/ Phone!NotRenewed(c) PROVE Goal
      BY <3>3 DEF Phone!Renewed, Phone!NotRenewed
    <3>4. CASE \/ \E w \in PhoneUsers : Phone!SignIn(w) \/ Phone!Notify(w)
               \/ \E s \in live : Phone!EndSession(s)
               \/ Phone!TapSignOut \/ Phone!Expire \/ Phone!Reopen \/ Phone!Rotate
      BY <3>4 DEF Phone!SignIn, Phone!Notify, Phone!EndSession, Phone!TapSignOut, Phone!Expire,
                  Phone!Reopen, Phone!Rotate
    <3>5. QED BY <3>1, <3>2, <3>3, <3>4 DEF Moved
  <2>2. QED BY <1>1, <1>2, <2>1
<1>4. rows' \subseteq PhoneUsers \X (1 .. token)
  <2>1. ASSUME NEW c \in calls, Phone!Answered(c) \/ Phone!Lost(c) PROVE <1>4
    <3>1. Registration(c) /\ Phone!Authorised => Phone!Registered(Phone!UserOf(jar.session), c.tok) \subseteq PhoneUsers \X (1 .. token)
      BY <1>1, <1>2 DEF Phone!Registered
    <3>2. Phone!Removed(Phone!UserOf(jar.session), c.tok) \subseteq PhoneUsers \X (1 .. token)
      BY <1>1 DEF Phone!Removed
    <3>3. \/ rows' = rows
          \/ rows' = Phone!Removed(Phone!UserOf(jar.session), c.tok)
          \/ Registration(c) /\ Phone!Authorised /\ rows' = Phone!Registered(Phone!UserOf(jar.session), c.tok)
      BY <2>1 DEF Phone!Answered, Phone!Lost, Registration
    <3>4. QED BY <1>1, <3>1, <3>2, <3>3
  <2>2. ASSUME NEW c \in calls, Phone!Rejected(c) \/ Phone!Refused(c) \/ Phone!Renewed(c) \/ Phone!NotRenewed(c) PROVE <1>4
    BY <1>1, <2>2 DEF Phone!Rejected, Phone!Refused, Phone!Renewed, Phone!NotRenewed,
                      Phone!serverVars
  <2>3. ASSUME NEW w \in PhoneUsers, Phone!SignIn(w) \/ Phone!Notify(w) PROVE <1>4
    BY <1>1, <2>3 DEF Phone!SignIn, Phone!Notify
  <2>4. ASSUME NEW s \in live, Phone!EndSession(s) PROVE <1>4
    BY <1>1, <2>4 DEF Phone!EndSession
  <2>5. ASSUME Phone!TapSignOut \/ Phone!Expire \/ Phone!Reopen \/ Phone!Rotate PROVE <1>4
    BY <1>1, <2>5 DEF Phone!TapSignOut, Phone!Expire, Phone!Reopen, Phone!Rotate, Phone!serverVars
  <2>6. QED BY <2>1, <2>2, <2>3, <2>4, <2>5 DEF Moved
<1>5. stored' \in 0 .. token' /\ rows' \subseteq PhoneUsers \X (1 .. token')
  BY <1>1, <1>3, <1>4
<1>6. QED BY <1>1, <1>5 DEF TokensOK

LEMMA FlagsStep == ASSUME PhoneTyped, Moved PROVE FlagsOK'
<1> USE DEF PhoneTyped
<1>1. /\ booting \in BOOLEAN /\ crossed \in BOOLEAN /\ missed \in BOOLEAN
      /\ listening \subseteq {"shown", "leaked"} /\ events \in 0 .. MaxEvents /\ loose \subseteq PhoneUsers
      /\ calls \subseteq Phone!Call
  BY DEF FlagsOK, CallsOK, CallOK
<1>2. /\ \A t : Phone!OwnersOf(t) \subseteq PhoneUsers /\ Phone!OutOfReach(t) \subseteq PhoneUsers
      /\ Phone!Authorised => Phone!UserOf(jar.session) \in PhoneUsers
      /\ \A s \in live : owner[s] \in PhoneUsers
  BY SessionFields DEF Phone!OwnersOf, Phone!OutOfReach, SessionsOK
<1>3. events' \in 0 .. MaxEvents
  <2>1. events' = events \/ Phone!Event
    BY DEF Moved, Phone!Rejected, Phone!Answered, Phone!Refused, Phone!Lost, Phone!Renewed,
           Phone!NotRenewed, Phone!SignIn, Phone!Notify, Phone!EndSession, Phone!TapSignOut,
           Phone!Expire, Phone!Reopen, Phone!Rotate
  <2>2. QED BY <1>1, <2>1 DEF Phone!Event
<1>4. crossed' \in BOOLEAN /\ missed' \in BOOLEAN
  <2>1. crossed' = crossed \/ \E c \in calls : crossed' = (crossed \/ jar.session # c.with)
    BY DEF Moved, Phone!Rejected, Phone!Answered, Phone!Refused, Phone!Lost, Phone!Renewed,
           Phone!NotRenewed, Phone!SignIn, Phone!Notify, Phone!EndSession, Phone!TapSignOut,
           Phone!Expire, Phone!Reopen, Phone!Rotate
  <2>2. \/ missed' \in {missed, TRUE}
        \/ \E c \in calls : missed' = (Phone!Contended(calls \ {c}) \/ c.tok # token)
    BY DEF Moved, Phone!Rejected, Phone!Answered, Phone!Refused, Phone!Lost, Phone!Renewed,
           Phone!NotRenewed, Phone!SignIn, Phone!Notify, Phone!EndSession, Phone!TapSignOut,
           Phone!Expire, Phone!Reopen, Phone!Rotate
  <2>3. QED BY <1>1, <2>1, <2>2
<1>5. loose' \subseteq PhoneUsers
  <2>1. ASSUME NEW c \in calls, Phone!Answered(c) PROVE loose' \subseteq PhoneUsers
    <3>1. /\ Phone!UserOf(jar.session) \in PhoneUsers
          /\ \/ loose' = loose
             \/ loose' \in {loose \cup {Phone!UserOf(jar.session)} \cup Phone!OutOfReach(token),
                            loose \ {Phone!UserOf(jar.session)}}
             \/ loose' = loose \cup Phone!OutOfReach(c.tok)
      BY <1>2, <2>1 DEF Phone!Answered
    <3>2. Phone!OutOfReach(token) \subseteq PhoneUsers /\ Phone!OutOfReach(c.tok) \subseteq PhoneUsers
      BY <1>2
    <3>3. QED BY <1>1, <3>1, <3>2
  <2>2. ASSUME NEW c \in calls, Phone!Lost(c) PROVE loose' \subseteq PhoneUsers
    BY <1>1, <1>2, <2>2 DEF Phone!Lost
  <2>3. ASSUME NEW c \in calls, Phone!Rejected(c) \/ Phone!NotRenewed(c) PROVE loose' \subseteq PhoneUsers
    BY <1>1, <1>2, <2>3 DEF Phone!Rejected, Phone!NotRenewed
  <2>4. ASSUME NEW s \in live, Phone!EndSession(s) PROVE loose' \subseteq PhoneUsers
    BY <1>1, <1>2, <2>4 DEF Phone!EndSession
  <2>5. CASE loose' = loose
    BY <1>1, <2>5
  <2>6. QED BY <2>1, <2>2, <2>3, <2>4, <2>5 DEF Moved, Phone!Refused, Phone!Renewed, Phone!SignIn,
                                                Phone!Notify, Phone!TapSignOut, Phone!Expire,
                                                Phone!Reopen, Phone!Rotate
<1>6. /\ listening' \subseteq {"shown", "leaked"} /\ booting' \in BOOLEAN
  <2> DEFINE Kept == listening' \subseteq {"shown", "leaked"} /\ booting' \in BOOLEAN
  <2>1. ASSUME NEW s, NEW others, NEW remembered, NEW ends, Phone!Show(s, others, remembered, ends) PROVE Kept
    BY <1>1, <2>1 DEF Phone!Show
  <2>2. ASSUME NEW c \in calls, Phone!Answered(c) PROVE Kept
    <3>1. \/ \E s, others, remembered, ends : Phone!Show(s, others, remembered, ends)
          \/ listening' \in {listening, Phone!Subscribed(c)} /\ booting' = booting
      BY <2>2 DEF Phone!Answered, Phone!EndSignOut
    <3>2. QED BY <1>1, <2>1, <3>1 DEF Phone!Subscribed
  <2>3. ASSUME NEW c \in calls, Phone!Rejected(c) PROVE Kept
    <3>1. \/ \E s, others, remembered, ends : Phone!Show(s, others, remembered, ends)
          \/ listening' \in {listening, Phone!Subscribed(c)} /\ booting' = booting
      BY <2>3 DEF Phone!Rejected, Phone!EndSignOut
    <3>2. QED BY <1>1, <2>1, <3>1 DEF Phone!Subscribed
  <2>4. ASSUME NEW c \in calls, Phone!NotRenewed(c) PROVE Kept
    <3>1. \/ \E s, others, remembered, ends : Phone!Show(s, others, remembered, ends)
          \/ listening' = listening /\ booting' = booting
      BY <2>4 DEF Phone!NotRenewed
    <3>2. QED BY <1>1, <2>1, <3>1
  <2>5. ASSUME NEW c \in calls, Phone!Refused(c) \/ Phone!Lost(c) \/ Phone!Renewed(c) PROVE Kept
    BY <1>1, <2>5 DEF Phone!Refused, Phone!Lost, Phone!Renewed
  <2>6. ASSUME NEW w \in PhoneUsers, Phone!SignIn(w) \/ Phone!Notify(w) PROVE Kept
    BY <1>1, <2>6 DEF Phone!SignIn, Phone!Notify
  <2>7. ASSUME NEW s \in live, Phone!EndSession(s) PROVE Kept
    BY <1>1, <2>7 DEF Phone!EndSession
  <2>8. ASSUME Phone!TapSignOut \/ Phone!Expire \/ Phone!Reopen \/ Phone!Rotate PROVE Kept
    BY <1>1, <2>8 DEF Phone!TapSignOut, Phone!Expire, Phone!Reopen, Phone!Rotate
  <2>9. QED BY <2>2, <2>3, <2>4, <2>5, <2>6, <2>7, <2>8 DEF Moved
<1>7. QED BY <1>3, <1>4, <1>5, <1>6 DEF FlagsOK

-----------------------------------------------------------------------------
(* The calls *)

\* A call that goes on as a renewal stays one until it is answered.
GoneOn(d, c) == Follows(d, c) /\ (d.job = "renew" => d.at \in {c.at, "refused", "lost"})

\* Where a call comes from that is sent by a step.
Begun(d) ==
  \/ d \in {Phone!NewCall("me", 0, 0), Phone!NewCall("meAgain", 0, 0), Phone!NewCall("register", token, 0),
            Phone!NewCall("reregister", token', 0)}
  \/ d = [Phone!NewCall("renew", 0, 0) EXCEPT !.at = "renew", !.with = jar.session]
  \/ stored # 0 /\ d = Phone!NewCall("unregister", stored, 0)
  \/ shown # 0 /\ d = Phone!StartSignOut(shown)
  \/ \E c \in calls : c.job = "forget" /\ d = Phone!NewCall("signOut", 0, c.of)

LEMMA ResumedCalls ==
  ASSUME CallsOK, NEW c \in calls, c.job # "renew", NEW at \in {"again", "refused", "lost"}
  PROVE  /\ Phone!Resumed(c, at) \subseteq Phone!Call
         /\ \A e \in Phone!Resumed(c, at) : \E d \in calls :
              /\ GoneOn(e, d)
              /\ d = c \/ d.at = "wait" => e.at = at
              /\ d = c \/ d.at = "wait" \/ e = d
         /\ \A d \in calls : \E e \in Phone!Resumed(c, at) : Follows(e, d)
<1>1. at \in {"send", "renew", "wait", "again", "refused", "lost"} /\ 0 \in 0 .. MaxSignIns
  OBVIOUS
<1> DEFINE Gone(d) == IF d = c \/ d.at = "wait" THEN [d EXCEPT !.at = at, !.with = 0] ELSE d
<1>2. \A d \in calls : /\ GoneOn(Gone(d), d)
                       /\ d = c \/ d.at = "wait" => Gone(d).at = at
                       /\ d = c \/ d.at = "wait" \/ Gone(d) = d
  <2> TAKE d \in calls
  <2>1. d \in Phone!Call /\ (d.at = "wait" => d.job # "renew")
    BY DEF CallsOK, CallOK
  <2>2. CASE d = c \/ d.at = "wait"
    <3>1. /\ Follows([d EXCEPT !.at = at, !.with = 0], d)
          /\ [d EXCEPT !.at = at, !.with = 0].at = at
      BY <1>1, <2>1 DEF Follows, Phone!Call
    <3>2. Gone(d) = [d EXCEPT !.at = at, !.with = 0]
      BY <2>2
    <3>3. d.job # "renew"
      BY <2>1, <2>2
    <3> HIDE DEF Gone
    <3>4. QED BY <2>2, <3>1, <3>2, <3>3 DEF GoneOn, Follows
  <2>3. CASE ~ (d = c \/ d.at = "wait")
    BY <2>1, <2>3 DEF GoneOn, Follows
  <2>4. QED BY <2>2, <2>3
<1>3. Phone!Resumed(c, at) = {Gone(d) : d \in calls}
  BY DEF Phone!Resumed
<1> HIDE DEF Gone
<1>4. QED BY <1>2, <1>3 DEF GoneOn, Follows

LEMMA Origin ==
  ASSUME PhoneTyped, Moved, NEW d \in calls'
  PROVE  Begun(d) \/ \E c \in calls : GoneOn(d, c)
<1> USE DEF PhoneTyped
<1>1. /\ calls \subseteq Phone!Call /\ \A c \in calls : CallOK(c) /\ GoneOn(c, c)
      /\ jar.session \in 0 .. MaxSignIns
  <2>1. jar.session \in 0 .. MaxSignIns
    BY SessionFields
  <2>2. QED BY <2>1 DEF CallsOK, CallOK, GoneOn, Follows
<1> DEFINE Goal == Begun(d) \/ \E c \in calls : GoneOn(d, c)
<1>2. ASSUME NEW s, NEW others \in SUBSET calls, NEW ends, Phone!Show(s, others, stored, ends) PROVE Goal
  <2>1. others \in SUBSET Phone!Call
    BY <1>1
  <2>2. \/ \E c \in others : Follows(d, c) /\ d.at = c.at
        \/ d = Phone!NewCall("me", 0, 0) \/ d = Phone!NewCall("register", token, 0)
        \/ stored # 0 /\ d = Phone!NewCall("unregister", stored, 0)
    BY <1>2, <2>1, Showing
  <2>3. QED BY <2>2 DEF GoneOn, Begun
<1>3. ASSUME NEW c \in calls, NEW at \in {"refused", "lost", "renew", "wait"}, NEW with \in 0 .. MaxSignIns,
             c.job = "renew" => at \in {"refused", "lost"}
      PROVE  GoneOn([c EXCEPT !.at = at], c) /\ GoneOn([c EXCEPT !.at = at, !.with = with], c)
  <2>0. at \in {"send", "renew", "wait", "again", "refused", "lost"} /\ c \in Phone!Call
    BY <1>1
  <2>1. /\ Follows([c EXCEPT !.at = at], c) /\ [c EXCEPT !.at = at].at = at
        /\ Follows([c EXCEPT !.at = at, !.with = with], c)
        /\ [c EXCEPT !.at = at, !.with = with].at = at
    BY <2>0 DEF Follows, Phone!Call
  <2>2. QED BY <1>3, <2>1 DEF GoneOn, Follows
<1>4. ASSUME NEW c \in calls, Phone!Rejected(c) PROVE Goal
  <2>1. \/ calls' \subseteq calls \cup {[Phone!NewCall("renew", 0, 0) EXCEPT !.at = "renew", !.with = jar.session]}
        \/ c.job = "forget" /\ calls' \subseteq calls \cup {Phone!NewCall("signOut", 0, c.of)}
        \/ \E ends \in BOOLEAN : Phone!Show(0, calls \ {c}, stored, ends)
    BY <1>4 DEF Phone!Rejected, Phone!EndSignOut
  <2>2. QED BY <1>1, <1>2, <2>1 DEF Begun
<1>5. ASSUME NEW c \in calls, Phone!Answered(c) PROVE Goal
  <2>1. \/ calls' \subseteq calls
        \/ c.job = "forget" /\ calls' \subseteq calls \cup {Phone!NewCall("signOut", 0, c.of)}
        \/ \E s, ends : Phone!Show(s, calls \ {c}, stored, ends)
    BY <1>5 DEF Phone!Answered, Phone!EndSignOut
  <2>2. QED BY <1>1, <1>2, <2>1 DEF Begun
<1>6. ASSUME NEW c \in calls, Phone!Refused(c) \/ Phone!Lost(c) PROVE Goal
  <2>1. c.job # "renew"
    BY <1>1, <1>6 DEF CallOK, Phone!Refused, Phone!Lost
  <2>2. \/ \E at \in {"refused", "lost", "wait"} : calls' = (calls \ {c}) \cup {[c EXCEPT !.at = at]}
        \/ calls' = (calls \ {c}) \cup {[c EXCEPT !.at = "renew", !.with = jar.session]}
    BY <1>6 DEF Phone!Refused, Phone!Lost
  <2>3. QED BY <1>1, <1>3, <2>1, <2>2, ZenonT(60)
<1>7. ASSUME NEW c \in calls, Phone!Renewed(c) PROVE Goal
  <2>1. CASE c.job = "renew"
    <3>1. calls' = (calls \ {c}) \cup {Phone!NewCall("meAgain", 0, 0)}
      BY <1>7, <2>1 DEF Phone!Renewed
    <3>2. QED BY <1>1, <3>1 DEF Begun
  <2>2. CASE c.job # "renew"
    <3>1. calls' = Phone!Resumed(c, "again")
      BY <1>7, <2>2 DEF Phone!Renewed
    <3>2. \A e \in Phone!Resumed(c, "again") : \E b \in calls : GoneOn(e, b)
      BY <2>2, ResumedCalls
    <3>3. QED BY <3>1, <3>2
  <2>3. QED BY <2>1, <2>2
<1>8. ASSUME NEW c \in calls, Phone!NotRenewed(c) PROVE Goal
  <2>1. CASE c.job = "renew"
    <3>1. PICK at \in {"refused", "lost"} : calls' = (calls \ {c}) \cup {[c EXCEPT !.at = at]}
      BY <1>8, <2>1 DEF Phone!NotRenewed
    <3>2. at \in {"refused", "lost", "renew", "wait"} /\ 0 \in 0 .. MaxSignIns /\ at \in {"refused", "lost"}
      OBVIOUS
    <3>3. GoneOn([c EXCEPT !.at = at], c)
      BY <1>3, <3>2
    <3>4. QED BY <1>1, <3>1, <3>3
  <2>2. CASE c.job # "renew"
    <3>1. PICK at \in {"refused", "lost"} : Phone!Show(0, Phone!Resumed(c, at), 0, FALSE)
      BY <1>8, <2>2 DEF Phone!NotRenewed
    <3>2. Phone!Resumed(c, at) \in SUBSET Phone!Call
      BY <2>2, ResumedCalls
    <3>3. d = Phone!NewCall("me", 0, 0) \/ \E e \in Phone!Resumed(c, at) : Follows(d, e) /\ d.at = e.at
      BY <3>1, <3>2, Showing
    <3>4. \A e \in Phone!Resumed(c, at) : \E b \in calls : GoneOn(e, b)
      BY <2>2, ResumedCalls
    <3>5. QED BY <3>3, <3>4 DEF Begun, GoneOn, Follows
  <2>3. QED BY <2>1, <2>2
<1>9. ASSUME NEW w \in PhoneUsers, Phone!SignIn(w) PROVE Goal
  <2>1. calls' = Phone!Effects(calls, TRUE, 0) /\ calls \in SUBSET Phone!Call
    BY <1>1, <1>9 DEF Phone!SignIn
  <2>2. \/ \E c \in calls : Follows(d, c) /\ d.at = c.at
        \/ d = Phone!NewCall("me", 0, 0) \/ d = Phone!NewCall("register", token, 0)
    BY <2>1, SigningIn
  <2>3. QED BY <2>2 DEF Begun, GoneOn
<1>10. ASSUME Phone!TapSignOut \/ Phone!Reopen \/ Phone!Rotate PROVE Goal
  <2>1. \/ shown # 0 /\ calls' = calls \cup {Phone!StartSignOut(shown)}
        \/ calls' = calls \/ calls' = calls \cup {Phone!NewCall("reregister", token', 0)}
        \/ calls' \subseteq {Phone!NewCall("me", 0, 0)}
        \/ stored # 0 /\ calls' \subseteq {Phone!NewCall("me", 0, 0), Phone!NewCall("unregister", stored, 0)}
    BY <1>10 DEF Phone!TapSignOut, Phone!Reopen, Phone!Rotate, Phone!Effects
  <2>2. QED BY <1>1, <2>1 DEF Begun
<1>11. CASE calls' = calls
  BY <1>1, <1>11
<1>12. QED
  BY <1>4, <1>5, <1>6, <1>7, <1>8, <1>9, <1>10, <1>11 DEF Moved, Phone!Notify, Phone!EndSession,
                                                          Phone!Expire

LEMMA CallsStep == ASSUME PhoneTyped, Moved PROVE CallsOK'
<1> SUFFICES ASSUME NEW d \in calls' PROVE CallOK(d)'
  BY DEF CallsOK
<1>1. /\ Phone!Sessions \subseteq Phone!Sessions' /\ token \in 1 .. MaxTokens /\ token' \in 1 .. MaxTokens
      /\ 1 .. token \subseteq 1 .. token' /\ token <= token' /\ Phone!Sessions \subseteq 0 .. MaxSignIns /\ jar.session \in 0 .. MaxSignIns
      /\ stored \in 0 .. token /\ shown \in {0} \cup Phone!Sessions
  BY Grows, SessionFields DEF PhoneTyped, TokensOK, SessionsOK
<1>2. \A c \in calls : CallOK(c)
  BY DEF PhoneTyped, CallsOK
<1>3. ASSUME NEW c \in calls, GoneOn(d, c) PROVE CallOK(d)'
  <2>1. d \in Phone!Call /\ d.job = c.job /\ d.tok = c.tok /\ d.of = c.of 
    BY <1>3 DEF GoneOn, Follows, Phone!Call
  <2>2. d.job = "renew" => d.at \in {"renew", "refused", "lost"}
    BY <1>2, <1>3, <2>1 DEF GoneOn, CallOK
  <2>3. IF Registration(d) \/ Removal(d) THEN d.tok \in 1 .. token' ELSE d.tok = 0
    BY <1>1, <1>2, <2>1 DEF CallOK, Registration, Removal
  <2>4. d.job \in {"forget", "signOut"} => d.of \in Phone!Sessions'
    BY <1>1, <1>2, <2>1 DEF CallOK
  <2>5. QED BY <2>1, <2>2, <2>3, <2>4 DEF CallOK, Registration, Removal
<1>4. ASSUME NEW job \in Phone!Jobs, NEW tok \in 0 .. MaxTokens, NEW of \in 0 .. MaxSignIns,
             d = Phone!NewCall(job, tok, of), job # "renew",
             IF job \in {"register", "reregister", "unregister", "forget"} THEN tok \in 1 .. token' ELSE tok = 0,
             job \in {"forget", "signOut"} => of \in Phone!Sessions
      PROVE  CallOK(d)'
  <2>1. d \in Phone!Call /\ d.job = job /\ d.tok = tok /\ d.of = of
    BY <1>4, NewCallFields
  <2>2. CASE job \in {"register", "reregister", "unregister", "forget"}
    BY <1>4, <2>1, <2>2, <1>1 DEF CallOK, Registration, Removal
  <2>3. CASE job \notin {"register", "reregister", "unregister", "forget"}
    BY <1>4, <2>1, <2>3, <1>1 DEF CallOK, Registration, Removal
  <2>4. QED BY <2>2, <2>3
<1>5. ASSUME Begun(d) PROVE CallOK(d)'
  <2>0. /\ 0 \in 0 .. MaxTokens /\ 0 \in 0 .. MaxSignIns /\ token \in 0 .. MaxTokens /\ token' \in 0 .. MaxTokens
        /\ stored \in 0 .. MaxTokens /\ shown \in 0 .. MaxSignIns
        /\ token \in 1 .. token' /\ token' \in 1 .. token' /\ (stored # 0 => stored \in 1 .. token')
        /\ {"me", "meAgain", "register", "reregister", "unregister", "forget", "signOut"} \subseteq Phone!Jobs
    BY <1>1 DEF Phone!Jobs
  <2>1. CASE d = Phone!NewCall("me", 0, 0) \/ d = Phone!NewCall("meAgain", 0, 0)
    BY <1>4, <2>0, <2>1
  <2>2. CASE d = Phone!NewCall("register", token, 0) \/ d = Phone!NewCall("reregister", token', 0)
    BY <1>4, <2>0, <2>2
  <2>3. CASE d = [Phone!NewCall("renew", 0, 0) EXCEPT !.at = "renew", !.with = jar.session]
    BY <1>1, <2>0, <2>3 DEF Phone!NewCall, CallOK, Phone!Call, Phone!Jobs, Registration, Removal
  <2>4. CASE stored # 0 /\ d = Phone!NewCall("unregister", stored, 0)
    BY <1>4, <2>0, <2>4
  <2>5. CASE shown # 0 /\ d = Phone!StartSignOut(shown)
    <3>1. shown \in Phone!Sessions
      BY <1>1, <2>5
    <3>2. QED BY <1>4, <2>0, <2>5, <3>1 DEF Phone!StartSignOut
  <2>6. ASSUME NEW c \in calls, c.job = "forget", d = Phone!NewCall("signOut", 0, c.of) PROVE CallOK(d)'
    <3>1. c.of \in Phone!Sessions /\ c.of \in 0 .. MaxSignIns
      BY <1>1, <1>2, <2>6 DEF CallOK
    <3>2. QED BY <1>4, <2>0, <2>6, <3>1
  <2>7. QED BY <1>5, <2>1, <2>2, <2>3, <2>4, <2>5, <2>6 DEF Begun
<1>6. QED BY <1>3, <1>5, Origin

LEMMA RenewalStep == ASSUME PhoneTyped, Moved PROVE RenewalOK'
<1>1. /\ \A c \in calls : CallOK(c) /\ c \in Phone!Call
      /\ \A c : calls \ {c} \in SUBSET Phone!Call
      /\ renewing \in BOOLEAN /\ (renewing <=> \E c \in calls : Renewing(c))
      /\ \A c, d \in calls : Renewing(c) /\ Renewing(d) => c = d
  BY DEF PhoneTyped, CallsOK, CallOK, RenewalOK
<1>2. \A job, tok, of : ~ Renewing(Phone!NewCall(job, tok, of))
  BY DEF Phone!NewCall, Renewing
\* The same call renews as before, or none.
<1>3. ASSUME renewing' = renewing, \A c \in calls' : Renewing(c) => c \in calls,
             \A c \in calls : Renewing(c) => c \in calls'
      PROVE  RenewalOK'
  BY <1>1, <1>3 DEF RenewalOK, Renewing
<1>4. ASSUME NEW s, NEW others \in SUBSET Phone!Call, NEW remembered, NEW ends, Phone!Show(s, others, remembered, ends),
             \A c, d \in others : Renewing(c) /\ Renewing(d) => c = d,
             renewing' \in BOOLEAN, renewing' <=> \E c \in others : Renewing(c)
      PROVE  RenewalOK'
  <2>1. /\ \A d \in calls' : Renewing(d) => \E c \in others : Follows(d, c) /\ d.at = c.at
        /\ \A c \in others : \E d \in calls' : Follows(d, c) /\ d.at = c.at
        /\ \A c, d \in calls' : Renewing(c) /\ Renewing(d) => c = d
    <3>1. \A d \in calls' :
            \/ \E c \in others : Follows(d, c) /\ d.at = c.at
            \/ d = Phone!NewCall("me", 0, 0)
            \/ s # 0 /\ d = Phone!NewCall("register", token, 0)
            \/ s = 0 /\ remembered # 0 /\ d = Phone!NewCall("unregister", remembered, 0)
      BY <1>4, Showing
    <3>2. \A c \in others : \E d \in calls' : Follows(d, c) /\ d.at = c.at
      BY <1>4, Showing
    <3>3. \A c, d \in calls' : Renewing(c) /\ Renewing(d) => c = d
      BY <1>4, Showing
    <3>4. QED BY <1>2, <3>1, <3>2, <3>3
  <2>2. QED BY <1>4, <2>1 DEF RenewalOK, Renewing, Follows
<1>5. ASSUME NEW c \in calls, Phone!Rejected(c) PROVE RenewalOK'
  <2>0. ~ Renewing(c) /\ renewing' = renewing
    BY <1>5 DEF Phone!Rejected, Renewing
  <2>1. CASE calls' \in {calls \ {c}, (calls \ {c}) \cup {Phone!NewCall("signOut", 0, c.of)},
              (calls \ {c}) \cup {[Phone!NewCall("renew", 0, 0) EXCEPT !.at = "renew", !.with = jar.session]}}
    <3>1. [Phone!NewCall("renew", 0, 0) EXCEPT !.at = "renew", !.with = jar.session].job = "renew"
      BY DEF Phone!NewCall
    <3>2. PICK d : ~ Renewing(d) /\ calls' \in {calls \ {c}, (calls \ {c}) \cup {d}}
      BY <1>2, <2>1, <3>1 DEF Renewing
    <3>3. /\ \A e \in calls' : Renewing(e) => e \in calls
          /\ \A e \in calls : Renewing(e) => e \in calls'
      BY <2>0, <3>2
    <3>4. QED BY <1>3, <2>0, <3>3
  <2>2. ASSUME NEW s, NEW ends, Phone!Show(s, calls \ {c}, stored, ends) PROVE RenewalOK'
    <3>1. /\ calls \ {c} \in SUBSET Phone!Call
          /\ \A a, b \in calls \ {c} : Renewing(a) /\ Renewing(b) => a = b
          /\ renewing' \in BOOLEAN /\ (renewing' <=> \E a \in calls \ {c} : Renewing(a))
      BY <1>1, <2>0
    <3>2. QED BY <1>4, <2>2, <3>1
  <2>3. QED BY <1>5, <2>1, <2>2 DEF Phone!Rejected, Phone!EndSignOut
<1>6. ASSUME NEW c \in calls, Phone!Answered(c) PROVE RenewalOK'
  <2>0. ~ Renewing(c) /\ renewing' = renewing
    BY <1>6 DEF Phone!Answered, Renewing
  <2>1. CASE calls' \in {calls \ {c}, (calls \ {c}) \cup {Phone!NewCall("signOut", 0, c.of)}}
    BY <1>2, <1>3, <2>0, <2>1
  <2>2. ASSUME NEW s, NEW ends, Phone!Show(s, calls \ {c}, stored, ends) PROVE RenewalOK'
    <3>1. /\ calls \ {c} \in SUBSET Phone!Call
          /\ \A a, b \in calls \ {c} : Renewing(a) /\ Renewing(b) => a = b
          /\ renewing' \in BOOLEAN /\ (renewing' <=> \E a \in calls \ {c} : Renewing(a))
      BY <1>1, <2>0
    <3>2. QED BY <1>4, <2>2, <3>1
  <2>3. QED BY <1>6, <2>1, <2>2 DEF Phone!Answered, Phone!EndSignOut
<1>7. ASSUME NEW c \in calls, Phone!Refused(c) PROVE RenewalOK'
  <2>1. ~ Renewing(c) /\ c.job # "renew" /\ c.at \in {"send", "again"} /\ c \in Phone!Call
    BY <1>1, <1>7 DEF Phone!Refused, Renewing, CallOK
  <2>2. CASE c.at = "again" \/ renewing
    <3>1. PICK at \in {"refused", "wait"} : calls' = (calls \ {c}) \cup {[c EXCEPT !.at = at]}
      BY <1>7, <2>2 DEF Phone!Refused
    <3>2. renewing' = renewing
      BY <1>1, <1>7, <2>1, <2>2 DEF Phone!Refused
    <3>3. [c EXCEPT !.at = at].at = at
      BY <2>1 DEF Phone!Call
    <3>4. QED BY <1>3, <2>1, <3>1, <3>2, <3>3 DEF Renewing
  <2>3. CASE ~ (c.at = "again" \/ renewing)
    <3>1. calls' = (calls \ {c}) \cup {[c EXCEPT !.at = "renew", !.with = jar.session]} /\ renewing' = TRUE
      BY <1>1, <1>7, <2>1, <2>3 DEF Phone!Refused
    <3>2. Renewing([c EXCEPT !.at = "renew", !.with = jar.session])
      BY <2>1 DEF Phone!Call, Renewing
    <3>3. QED BY <1>1, <2>3, <3>1, <3>2 DEF RenewalOK, Renewing
  <2>4. QED BY <2>2, <2>3
<1>8. ASSUME NEW c \in calls, Phone!Lost(c) PROVE RenewalOK'
  <2>1. ~ Renewing(c) /\ c \in Phone!Call /\ calls' = (calls \ {c}) \cup {[c EXCEPT !.at = "lost"]} /\ renewing' = renewing
    BY <1>1, <1>8 DEF Phone!Lost, Renewing
  <2>2. [c EXCEPT !.at = "lost"].at = "lost"
    BY <2>1 DEF Phone!Call
  <2>3. QED BY <1>3, <2>1, <2>2 DEF Renewing
\* All that waited go on, so nobody renews.
<1>9. ASSUME NEW c \in calls, Renewing(c), NEW at \in {"again", "refused", "lost"}
      PROVE  \A e \in Phone!Resumed(c, at) : ~ Renewing(e)
  <2> TAKE e \in Phone!Resumed(c, at)
  <2>1. PICK d \in calls : e = IF d = c \/ d.at = "wait" THEN [d EXCEPT !.at = at, !.with = 0] ELSE d
    BY DEF Phone!Resumed
  <2>2. CASE d = c \/ d.at = "wait"
    <3>1. d \in Phone!Call
      BY <1>1
    <3>2. e.at = at
      BY <2>1, <2>2, <3>1 DEF Phone!Call
    <3>3. QED BY <3>2 DEF Renewing
  <2>3. CASE ~ (d = c \/ d.at = "wait")
    BY <1>1, <1>9, <2>1, <2>3
  <2>4. QED BY <2>2, <2>3
<1>10. ASSUME NEW c \in calls, Phone!Renewed(c) PROVE RenewalOK'
  <2>1. CASE c.job = "renew"
    <3>1. calls' = (calls \ {c}) \cup {Phone!NewCall("meAgain", 0, 0)} /\ renewing' = renewing /\ ~ Renewing(c)
      BY <1>10, <2>1 DEF Phone!Renewed, Renewing
    <3>2. QED BY <1>2, <1>3, <3>1
  <2>2. CASE c.job # "renew"
    <3>1. calls' = Phone!Resumed(c, "again") /\ renewing' = FALSE /\ Renewing(c)
      BY <1>10, <2>2 DEF Phone!Renewed, Phone!Rotates, Renewing
    <3>2. QED BY <1>9, <3>1 DEF RenewalOK, Renewing
  <2>3. QED BY <2>1, <2>2
<1>11. ASSUME NEW c \in calls, Phone!NotRenewed(c) PROVE RenewalOK'
  <2>1. CASE c.job = "renew"
    <3>1. PICK at \in {"refused", "lost"} : calls' = (calls \ {c}) \cup {[c EXCEPT !.at = at]}
      BY <1>11, <2>1 DEF Phone!NotRenewed
    <3>2. renewing' = renewing /\ ~ Renewing(c) /\ [c EXCEPT !.at = at].at = at
      BY <1>1, <1>11, <2>1 DEF Phone!NotRenewed, Renewing, Phone!Call
    <3>3. QED BY <1>3, <3>1, <3>2 DEF Renewing
  <2>2. CASE c.job # "renew"
    <3>1. PICK at \in {"refused", "lost"} : Phone!Show(0, Phone!Resumed(c, at), 0, FALSE)
      BY <1>11, <2>2 DEF Phone!NotRenewed
    <3>2. renewing' = FALSE /\ Renewing(c)
      BY <1>11, <2>2 DEF Phone!NotRenewed, Renewing
    <3>3. Phone!Resumed(c, at) \in SUBSET Phone!Call /\ \A e \in Phone!Resumed(c, at) : ~ Renewing(e)
      <4>1. Phone!Resumed(c, at) \in SUBSET Phone!Call
        BY <1>1, <2>2, ResumedCalls DEF CallsOK
      <4>2. QED BY <1>9, <3>2, <4>1
    <3>4. /\ \A a, b \in Phone!Resumed(c, at) : Renewing(a) /\ Renewing(b) => a = b
          /\ renewing' \in BOOLEAN /\ (renewing' <=> \E a \in Phone!Resumed(c, at) : Renewing(a))
      BY <3>2, <3>3
    <3>5. QED BY <1>4, <3>1, <3>3, <3>4
  <2>3. QED BY <2>1, <2>2
<1>12. ASSUME NEW w \in PhoneUsers, Phone!SignIn(w) PROVE RenewalOK'
  <2>1. renewing' = renewing /\ shown = 0 /\ calls' = Phone!Effects(calls, TRUE, 0)
    BY <1>12 DEF Phone!SignIn
  <2>2. /\ \A d \in calls' : \/ \E c \in calls : Follows(d, c) /\ d.at = c.at
                             \/ d = Phone!NewCall("me", 0, 0) \/ d = Phone!NewCall("register", token, 0)
        /\ \A c \in calls : \E d \in calls' : Follows(d, c) /\ d.at = c.at
        /\ \A c, d \in calls' : Renewing(c) /\ Renewing(d) => c = d
    BY <1>1, <2>1, SigningIn
  <2>3. renewing' <=> \E c \in calls' : Renewing(c)
    <3>1. \A d \in calls' : Renewing(d) => \E c \in calls : Renewing(c)
      BY <1>2, <2>2 DEF Renewing, Follows
    <3>2. \A c \in calls : Renewing(c) => \E d \in calls' : Renewing(d)
      BY <2>2 DEF Renewing, Follows
    <3>3. QED BY <1>1, <2>1, <3>1, <3>2
  <2>4. QED BY <1>1, <2>1, <2>2, <2>3 DEF RenewalOK, Renewing
<1>13. ASSUME Phone!TapSignOut \/ Phone!Reopen \/ Phone!Rotate PROVE RenewalOK'
  <2>1. CASE Phone!Reopen
    <3>1. \A d \in calls' : \E job, tok : d = Phone!NewCall(job, tok, 0)
      BY <2>1 DEF Phone!Reopen, Phone!Effects
    <3>2. \A d \in calls' : ~ Renewing(d)
      BY <1>2, <3>1
    <3>3. renewing' = FALSE
      BY <2>1 DEF Phone!Reopen
    <3>4. QED BY <3>2, <3>3 DEF RenewalOK, Renewing
  <2>2. CASE Phone!TapSignOut \/ Phone!Rotate
    BY <1>2, <1>3, <2>2 DEF Phone!TapSignOut, Phone!Rotate, Phone!StartSignOut
  <2>3. QED BY <1>13, <2>1, <2>2
<1>14. CASE UNCHANGED <<calls, renewing>>
  BY <1>3, <1>14
<1>15. QED
  BY <1>5, <1>6, <1>7, <1>8, <1>10, <1>11, <1>12, <1>13, <1>14 DEF Moved, Phone!Notify,
                                                                   Phone!EndSession, Phone!Expire

-----------------------------------------------------------------------------
(* Who is signed in *)

\* Where a call comes from that was repeated, refused or lost.
LEMMA AtOrigin ==
  ASSUME PhoneTyped, Moved, NEW d \in calls', d.job # "renew", d.at \in {"again", "refused", "lost"}
  PROVE  \/ \E c \in calls : Follows(d, c) /\ d.at = c.at
         \/ d.at = "again" /\ \E c \in calls : Phone!Renewed(c)
         \/ d.at = "refused" /\ \E c \in calls : Phone!Refused(c) /\ c.at = "again"
         \/ d.at = "lost" /\ \E c \in calls : Phone!Lost(c) /\ Follows(d, c)
         \/ \E c \in calls : /\ Phone!NotRenewed(c) /\ c.job # "renew" /\ d.at # "again"
                             /\ d.at = "refused" => c.with \notin live
                             /\ d.at = "lost" => loose' = loose \cup Phone!OwnersOf(token)
<1> DEFINE Before == \E c \in calls : Follows(d, c) /\ d.at = c.at
           Goal == \/ Before
                   \/ d.at = "again" /\ \E c \in calls : Phone!Renewed(c)
                   \/ d.at = "refused" /\ \E c \in calls : Phone!Refused(c) /\ c.at = "again"
                   \/ d.at = "lost" /\ \E c \in calls : Phone!Lost(c) /\ Follows(d, c)
                   \/ \E c \in calls : /\ Phone!NotRenewed(c) /\ c.job # "renew" /\ d.at # "again"
                                       /\ d.at = "refused" => c.with \notin live
                                       /\ d.at = "lost" => loose' = loose \cup Phone!OwnersOf(token)
<1> SUFFICES Goal
  OBVIOUS
<1>1. /\ \A c \in calls : c \in Phone!Call /\ CallOK(c) /\ Follows(c, c)
      /\ \A c : calls \ {c} \in SUBSET Phone!Call
      /\ calls \in SUBSET Phone!Call /\ CallsOK
  BY DEF PhoneTyped, CallsOK, CallOK, Follows
<1>2. \A job, tok, of : Phone!NewCall(job, tok, of).at = "send"
  BY DEF Phone!NewCall
<1>3. ASSUME NEW c \in calls, NEW s, NEW ends, Phone!Show(s, calls \ {c}, stored, ends) PROVE Before
  <2>1. \/ \E b \in calls \ {c} : Follows(d, b) /\ d.at = b.at
        \/ d = Phone!NewCall("me", 0, 0) \/ d = Phone!NewCall("register", token, 0)
        \/ d = Phone!NewCall("unregister", stored, 0)
    BY <1>1, <1>3, Showing
  <2>2. QED BY <1>2, <2>1
<1>4. ASSUME NEW c \in calls, Phone!Rejected(c) \/ Phone!Answered(c) PROVE Before
  <2>1. CASE \E s, ends : Phone!Show(s, calls \ {c}, stored, ends)
    BY <1>3, <2>1
  <2>2. CASE \/ calls' = calls \ {c} \/ \E job, of : calls' = (calls \ {c}) \cup {Phone!NewCall(job, 0, of)}
             \/ calls' = (calls \ {c}) \cup {[Phone!NewCall("renew", 0, 0) EXCEPT !.at = "renew", !.with = jar.session]}
    <3>1. [Phone!NewCall("renew", 0, 0) EXCEPT !.at = "renew", !.with = jar.session].at = "renew"
      BY DEF Phone!NewCall
    <3>2. \A job, of : d # Phone!NewCall(job, 0, of)
      BY <1>2
    <3>3. d # [Phone!NewCall("renew", 0, 0) EXCEPT !.at = "renew", !.with = jar.session]
      BY <3>1
    <3>4. d \in calls
      BY <2>2, <3>2, <3>3
    <3>5. QED BY <1>1, <3>4
  <2>3. QED BY <1>4, <2>1, <2>2 DEF Phone!Rejected, Phone!Answered, Phone!EndSignOut
<1>5. ASSUME NEW c \in calls, Phone!Refused(c) PROVE Goal
  <2>1. c \in Phone!Call /\ c.job # "renew" /\ c.at \in {"send", "again"}
    BY <1>1, <1>5 DEF Phone!Refused, CallOK
  <2>2. CASE d \in calls
    BY <1>1, <2>2
  <2>3. CASE d \notin calls
    <3>1. d = IF c.at = "again" THEN [c EXCEPT !.at = "refused"]
              ELSE IF renewing THEN [c EXCEPT !.at = "wait"]
              ELSE [c EXCEPT !.at = "renew", !.with = jar.session]
      BY <1>5, <2>3 DEF Phone!Refused
    <3>2. d.at = "refused" /\ c.at = "again"
      BY <2>1, <3>1 DEF Phone!Call
    <3>3. QED BY <1>5, <3>2
  <2>4. QED BY <2>2, <2>3
<1>6. ASSUME NEW c \in calls, Phone!Lost(c) PROVE Goal
  <2>1. c \in Phone!Call
    BY <1>1
  <2>2. CASE d \in calls
    BY <1>1, <2>2
  <2>3. CASE d \notin calls
    <3>1. d = [c EXCEPT !.at = "lost"]
      BY <1>6, <2>3 DEF Phone!Lost
    <3>2. d.at = "lost" /\ Follows(d, c)
      BY <2>1, <3>1 DEF Phone!Call, Follows
    <3>3. QED BY <1>6, <3>2
  <2>4. QED BY <2>2, <2>3
<1>7. ASSUME NEW c \in calls, Phone!Renewed(c) PROVE Goal
  <2>1. CASE c.job = "renew"
    <3>1. calls' = (calls \ {c}) \cup {Phone!NewCall("meAgain", 0, 0)}
      BY <1>7, <2>1 DEF Phone!Renewed
    <3>2. d \in calls
      BY <1>2, <3>1
    <3>3. QED BY <1>1, <3>2
  <2>2. CASE c.job # "renew"
    <3>1. calls' = Phone!Resumed(c, "again")
      BY <1>7, <2>2 DEF Phone!Renewed
    <3>2. \A e \in Phone!Resumed(c, "again") :
            \E b \in calls : /\ GoneOn(e, b)
                             /\ b = c \/ b.at = "wait" => e.at = "again"
                             /\ b = c \/ b.at = "wait" \/ e = b
      BY <1>1, <2>2, ResumedCalls
    <3>3. d.at = "again" \/ d \in calls
      BY <3>1, <3>2
    <3>4. QED BY <1>1, <1>7, <3>3
  <2>3. QED BY <2>1, <2>2
<1>8. ASSUME NEW c \in calls, Phone!NotRenewed(c) PROVE Goal
  <2>1. CASE c.job = "renew"
    <3>1. PICK at \in {"refused", "lost"} : calls' = (calls \ {c}) \cup {[c EXCEPT !.at = at]}
      BY <1>8, <2>1 DEF Phone!NotRenewed
    <3>2. [c EXCEPT !.at = at].job = "renew"
      BY <1>1, <2>1 DEF Phone!Call
    <3>3. d \in calls
      BY <3>1, <3>2
    <3>4. QED BY <1>1, <3>3
  <2>2. CASE c.job # "renew"
    <3>1. PICK at \in {"refused", "lost"} :
            /\ Phone!Show(0, Phone!Resumed(c, at), 0, FALSE)
            /\ at = "refused" => c.with \notin live
            /\ at = "lost" => loose' = loose \cup Phone!OwnersOf(token)
      BY <1>8, <2>2 DEF Phone!NotRenewed
    <3>2. Phone!Resumed(c, at) \in SUBSET Phone!Call
      BY <1>1, <2>2, ResumedCalls
    <3>3. d = Phone!NewCall("me", 0, 0) \/ \E e \in Phone!Resumed(c, at) : Follows(d, e) /\ d.at = e.at
      BY <3>1, <3>2, Showing
    <3>4. PICK e \in Phone!Resumed(c, at) : Follows(d, e) /\ d.at = e.at
      BY <1>2, <3>3
    <3>5. PICK b \in calls : e = IF b = c \/ b.at = "wait" THEN [b EXCEPT !.at = at, !.with = 0] ELSE b
      BY <3>4 DEF Phone!Resumed
    <3>6. e \in calls \/ e.at = at
      <4>1. b \in Phone!Call
        BY <1>1
      <4>2. QED BY <3>5, <4>1 DEF Phone!Call
    <3>7. QED BY <1>8, <2>2, <3>1, <3>4, <3>6
  <2>3. QED BY <2>1, <2>2
<1>9. ASSUME NEW w \in PhoneUsers, Phone!SignIn(w) PROVE Before
  <2>1. calls' = Phone!Effects(calls, TRUE, 0)
    BY <1>9 DEF Phone!SignIn
  <2>2. \/ \E c \in calls : Follows(d, c) /\ d.at = c.at
        \/ d = Phone!NewCall("me", 0, 0) \/ d = Phone!NewCall("register", token, 0)
    BY <1>1, <2>1, SigningIn
  <2>3. QED BY <1>2, <2>2
<1>10. ASSUME Phone!TapSignOut \/ Phone!Reopen \/ Phone!Rotate PROVE Before
  <2>1. d \in calls \/ \E job, tok, of : d = Phone!NewCall(job, tok, of)
    BY <1>10 DEF Phone!TapSignOut, Phone!Reopen, Phone!Rotate, Phone!Effects, Phone!StartSignOut
  <2>2. QED BY <1>1, <1>2, <2>1
<1>11. CASE calls' = calls
  BY <1>1, <1>11
<1>12. QED
  BY <1>4, <1>5, <1>6, <1>7, <1>8, <1>9, <1>10, <1>11 DEF Moved, Phone!Notify, Phone!EndSession,
                                                          Phone!Expire


\* Unless a renewal crossed a sign-in, the cookies are those of the shown session.
InStep == shown # 0 /\ ~ crossed => jar.session = shown
\* A call is repeated with a fresh access token, or its session is over.
AgainIsFresh == \A c \in calls : c.at = "again" => jar.fresh \/ jar.session \notin live
\* A call is refused when its session is over.
RefusedIsOver ==
  \A c \in calls : c.at = "refused" /\ c.job # "renew" /\ ~ crossed => jar.session \notin live
\* The cookies of a session that was signed out are of no use.
SignedOutIsOver ==
  jar.session \in signedOut /\ jar.session \in live => jar.session \in unsure \/ crossed
SessionsInStep ==
  InStep /\ AgainIsFresh /\ RefusedIsOver /\ SignedOutIsOver /\ Phone!SignedOutStaysOut

\* The cookies change at a sign-in, a sign-out, a renewal and when they expire.
LEMMA Cookies ==
  ASSUME PhoneTyped, Moved
  PROVE  /\ crossed => crossed'
         /\ \/ \E w \in PhoneUsers : Phone!SignIn(w)
            \/ live' \subseteq live /\ jar' = jar
            \/ live' \subseteq live /\ jar'.session = 0 /\ shown' = 0
            \/ \E c \in calls : Phone!Renewed(c)
            \/ Phone!Expire
<1>1. \A c \in calls : Phone!Answered(c) =>
        \/ live' = live /\ jar' = jar
        \/ live' \subseteq live /\ jar'.session = 0 /\ shown' = 0
  BY DEF Phone!Answered, Phone!SessionClosed, Phone!EndSignOut, Phone!Show
<1>2. crossed => crossed'
  BY DEF Moved, Phone!Rejected, Phone!Answered, Phone!Refused, Phone!Lost, Phone!Renewed,
         Phone!NotRenewed, Phone!SignIn, Phone!Notify, Phone!EndSession, Phone!TapSignOut,
         Phone!Expire, Phone!Reopen, Phone!Rotate
<1>3. \A c \in calls : Phone!Rejected(c) \/ Phone!Refused(c) \/ Phone!Lost(c) \/ Phone!NotRenewed(c) =>
        live' \subseteq live /\ jar' = jar
  BY DEF Phone!Rejected, Phone!Refused, Phone!Lost, Phone!NotRenewed, Phone!serverVars
<1>4. (\E w \in PhoneUsers : Phone!Notify(w)) \/ (\E s \in live : Phone!EndSession(s)) \/ Phone!TapSignOut \/ Phone!Reopen \/ Phone!Rotate =>
        live' \subseteq live /\ jar' = jar
  BY DEF Phone!Notify, Phone!EndSession, Phone!TapSignOut, Phone!Reopen, Phone!Rotate,
         Phone!serverVars
<1>5. QED BY <1>1, <1>2, <1>3, <1>4 DEF Moved

\* What the store shows changes at a sign-in and to nobody, or to whom bootstrap found.
LEMMA Shows ==
  ASSUME PhoneTyped, Moved
  PROVE  \/ \E w \in PhoneUsers : Phone!SignIn(w)
         \/ shown' = 0
         \/ shown' = shown
         \/ shown' = jar.session /\ Phone!Authorised /\ jar' = jar
<1> DEFINE Goal == \/ \E w \in PhoneUsers : Phone!SignIn(w)
                   \/ shown' = 0
                   \/ shown' = shown
                   \/ shown' = jar.session /\ Phone!Authorised /\ jar' = jar
<1>1. ASSUME NEW c \in calls, Phone!Answered(c) PROVE Goal
  BY <1>1 DEF Phone!Answered, Phone!EndSignOut, Phone!Show
<1>2. ASSUME NEW c \in calls, Phone!Rejected(c) PROVE Goal
  BY <1>2 DEF Phone!Rejected, Phone!EndSignOut, Phone!Show
<1>3. ASSUME NEW c \in calls, Phone!Refused(c) \/ Phone!Lost(c) \/ Phone!Renewed(c) \/ Phone!NotRenewed(c) PROVE Goal
  BY <1>3 DEF Phone!Refused, Phone!Lost, Phone!Renewed, Phone!NotRenewed, Phone!Show
<1>4. ASSUME NEW w \in PhoneUsers, Phone!Notify(w) PROVE Goal
  BY <1>4 DEF Phone!Notify
<1>5. ASSUME NEW s \in live, Phone!EndSession(s) PROVE Goal
  BY <1>5 DEF Phone!EndSession
<1>6. ASSUME Phone!TapSignOut \/ Phone!Expire \/ Phone!Reopen \/ Phone!Rotate PROVE Goal
  BY <1>6 DEF Phone!TapSignOut, Phone!Expire, Phone!Reopen, Phone!Rotate
<1>7. QED BY <1>1, <1>2, <1>3, <1>4, <1>5, <1>6 DEF Moved

LEMMA InStepStep == ASSUME PhoneTyped, Moved, InStep PROVE InStep'
<1>1. CASE \E w \in PhoneUsers : Phone!SignIn(w)
  BY <1>1 DEF Phone!SignIn, InStep
<1>2. ASSUME NEW c \in calls, Phone!Renewed(c) PROVE InStep'
  BY <1>2 DEF Phone!Renewed, InStep, PhoneTyped, FlagsOK
<1>3. CASE Phone!Expire
  BY <1>3 DEF Phone!Expire, InStep, PhoneTyped, SessionsOK
<1>4. CASE jar' = jar
  BY <1>4, Shows, Cookies, <1>1 DEF InStep
<1>5. QED BY <1>1, <1>2, <1>3, <1>4, Cookies DEF InStep

LEMMA AgainIsFreshStep == ASSUME PhoneTyped, Moved, AgainIsFresh PROVE AgainIsFresh'
<1> SUFFICES ASSUME NEW d \in calls', d.at = "again" PROVE jar'.fresh \/ jar'.session \notin live'
  BY DEF AgainIsFresh
<1>1. d.job # "renew"
  BY CallsStep DEF CallsOK, CallOK
<1>2. ASSUME NEW c \in calls, Phone!Renewed(c) PROVE jar'.fresh
  BY <1>2 DEF Phone!Renewed
<1>3. ASSUME NEW w \in PhoneUsers, Phone!SignIn(w) PROVE jar'.fresh
  BY <1>3 DEF Phone!SignIn
<1>4. ASSUME NEW c \in calls, c.at = "again" PROVE jar'.fresh \/ jar'.session \notin live'
  <2>1. jar.fresh \/ jar.session \notin live
    BY <1>4 DEF AgainIsFresh
  <2>2. ~ Phone!Expire
    BY <1>4 DEF Phone!Expire
  <2>3. 0 \notin live
    BY SessionFields DEF PhoneTyped
  <2>4. QED BY <1>2, <1>3, <2>1, <2>2, <2>3, Cookies
<1>5. \/ \E c \in calls : Follows(d, c) /\ d.at = c.at
      \/ \E c \in calls : Phone!Renewed(c)
  BY <1>1, AtOrigin
<1>6. QED BY <1>2, <1>4, <1>5

LEMMA RefusedIsOverStep ==
  ASSUME PhoneTyped, Phone!Next, AgainIsFresh, RefusedIsOver
  PROVE  RefusedIsOver'
<1> SUFFICES ASSUME NEW d \in calls', d.at = "refused", d.job # "renew", ~ crossed'
             PROVE  jar'.session \notin live'
  BY DEF RefusedIsOver
<1>1. Moved
  BY NextMoves
<1>2. ~ crossed
  BY <1>1, Cookies
<1>3. ASSUME NEW c \in calls, Follows(d, c), d.at = c.at PROVE jar'.session \notin live'
  <2>1. PICK b \in calls : Phone!Rejected(b)
    BY <1>3 DEF Phone!Next, Phone!Settled
  <2>2. jar' = jar /\ live' = live
    BY <2>1 DEF Phone!Rejected, Phone!serverVars
  <2>3. c.at = "refused" /\ c.job # "renew"
    BY <1>3 DEF Follows
  <2>4. QED BY <1>2, <2>2, <2>3 DEF RefusedIsOver
<1>4. ASSUME NEW c \in calls, Phone!Refused(c), c.at = "again" PROVE jar'.session \notin live'
  BY <1>4 DEF Phone!Refused, Phone!Authorised, AgainIsFresh, Phone!serverVars
<1>5. ASSUME NEW c \in calls, Phone!NotRenewed(c), c.job # "renew", c.with \notin live PROVE jar'.session \notin live'
  BY <1>5 DEF Phone!NotRenewed, Phone!serverVars
<1>6. QED BY <1>1, <1>3, <1>4, <1>5, AtOrigin

\* Signing out ends with nobody shown, and is a sign-out that was answered.
LEMMA SignVars ==
  ASSUME PhoneTyped, Moved
  PROVE  /\ unsure \subseteq unsure' /\ (crossed => crossed')
         /\ signedOut' = signedOut \/ shown' = 0
         /\ signedOut' = signedOut \/ \E c \in calls : c.job = "signOut" /\ (Phone!Answered(c) \/ Phone!Rejected(c))
<1> DEFINE Goal == /\ unsure \subseteq unsure' /\ (crossed => crossed')
                   /\ signedOut' = signedOut \/ shown' = 0
                   /\ signedOut' = signedOut
                      \/ \E c \in calls : c.job = "signOut" /\ (Phone!Answered(c) \/ Phone!Rejected(c))
<1>1. ASSUME NEW c \in calls, Phone!Answered(c) PROVE Goal
  BY <1>1 DEF Phone!Answered, Phone!EndSignOut, Phone!Show, Phone!signVars
<1>2. ASSUME NEW c \in calls, Phone!Rejected(c) PROVE Goal
  BY <1>2 DEF Phone!Rejected, Phone!EndSignOut, Phone!Show, Phone!signVars
<1>3. ASSUME NEW c \in calls, Phone!Refused(c) \/ Phone!Lost(c) \/ Phone!Renewed(c) \/ Phone!NotRenewed(c) PROVE Goal
  BY <1>3 DEF Phone!Refused, Phone!Lost, Phone!Renewed, Phone!NotRenewed, Phone!signVars
<1>4. ASSUME NEW w \in PhoneUsers, Phone!SignIn(w) \/ Phone!Notify(w) PROVE Goal
  <2>1. UNCHANGED <<Phone!signVars, crossed>>
    BY <1>4 DEF Phone!SignIn, Phone!Notify
  <2>2. QED BY <2>1 DEF Phone!signVars
<1>5. ASSUME NEW s \in live, Phone!EndSession(s) PROVE Goal
  BY <1>5 DEF Phone!EndSession, Phone!signVars
<1>6. ASSUME Phone!TapSignOut \/ Phone!Expire \/ Phone!Reopen \/ Phone!Rotate PROVE Goal
  <2>1. UNCHANGED <<Phone!signVars, crossed>>
    BY <1>6 DEF Phone!TapSignOut, Phone!Expire, Phone!Reopen, Phone!Rotate
  <2>2. QED BY <2>1 DEF Phone!signVars
<1>7. QED BY <1>1, <1>2, <1>3, <1>4, <1>5, <1>6 DEF Moved

LEMMA SignedOutIsOverStep ==
  ASSUME PhoneTyped, Moved, RefusedIsOver, SignedOutIsOver
  PROVE  SignedOutIsOver'
<1>1. /\ signedOut \subseteq Phone!Sessions /\ 0 \notin signedOut /\ Phone!Sessions = 1 .. Len(owner) /\ Len(owner) \in Nat
      /\ jar \in [session : 0 .. Len(owner), fresh : BOOLEAN]
  BY SessionFields DEF PhoneTyped, SessionsOK
<1>2. unsure \subseteq unsure' /\ (crossed => crossed')
  BY SignVars
<1>3. CASE signedOut' = signedOut
  <2>1. ASSUME NEW w \in PhoneUsers, Phone!SignIn(w) PROVE jar'.session \notin signedOut
    <3>1. owner' = Append(owner, w) /\ jar'.session = Len(owner')
      BY <2>1 DEF Phone!SignIn
    <3>2. Len(owner') = Len(owner) + 1
      BY <3>1, AppendProperties DEF PhoneTyped, SessionsOK
    <3>3. QED BY <1>1, <3>1, <3>2
  <2>2. ASSUME NEW c \in calls, Phone!Renewed(c) PROVE SignedOutIsOver'
    <3>1. live' = live /\ jar'.session = c.with /\ crossed' = (crossed \/ jar.session # c.with)
      BY <2>2 DEF Phone!Renewed, Phone!serverVars
    <3>2. QED BY <1>2, <1>3, <3>1 DEF SignedOutIsOver
  <2>3. CASE Phone!Expire
    <3>1. live' = live /\ jar'.session = jar.session
      BY <1>1, <2>3 DEF Phone!Expire, Phone!serverVars
    <3>2. QED BY <1>2, <1>3, <3>1 DEF SignedOutIsOver
  <2>4. QED BY <1>1, <1>2, <1>3, <2>1, <2>2, <2>3, Cookies DEF SignedOutIsOver
<1>4. ASSUME NEW c \in calls, Phone!Answered(c), c.job = "signOut" PROVE SignedOutIsOver'
  <2>1. jar'.session = 0
    BY <1>4 DEF Phone!Answered, Phone!SessionClosed
  <2>2. 0 \notin signedOut'
    BY <1>4, SessionsStep, SessionFields DEF PhoneTyped, SessionsOK, Phone!Sessions
  <2>3. QED BY <2>1, <2>2 DEF SignedOutIsOver
<1>5. ASSUME NEW c \in calls, Phone!Rejected(c), c.job = "signOut" PROVE SignedOutIsOver'
  <2>1. /\ signedOut' = signedOut \cup {c.of} /\ (c.at = "lost" => unsure' = unsure \cup {c.of})
        /\ c.at \in {"refused", "lost"} /\ jar' = jar /\ live' = live /\ crossed' = crossed
    BY <1>5 DEF Phone!Rejected, Phone!EndSignOut, Phone!serverVars
  <2>2. c.at = "refused" => jar.session \notin live \/ crossed
    BY <1>5 DEF RefusedIsOver
  <2>3. QED BY <1>2, <2>1, <2>2 DEF SignedOutIsOver
<1>6. signedOut' = signedOut \/ \E c \in calls : c.job = "signOut" /\ (Phone!Answered(c) \/ Phone!Rejected(c))
  BY SignVars
<1>7. QED BY <1>3, <1>4, <1>5, <1>6

LEMMA SignedOutStaysOutStep ==
  ASSUME PhoneTyped, Moved, SignedOutIsOver, Phone!SignedOutStaysOut
  PROVE  Phone!SignedOutStaysOut'
<1>1. /\ signedOut \subseteq Phone!Sessions /\ 0 \notin signedOut' /\ Phone!Sessions = 1 .. Len(owner) /\ Len(owner) \in Nat
  BY SessionFields, SessionsStep DEF PhoneTyped, SessionsOK, Phone!Sessions
<1>2. unsure \subseteq unsure' /\ (crossed => crossed')
  BY SignVars
<1>3. signedOut' = signedOut \/ shown' = 0
  BY SignVars
<1>4. ASSUME NEW w \in PhoneUsers, Phone!SignIn(w) PROVE shown' \notin signedOut'
  <2>1. owner' = Append(owner, w) /\ shown' = Len(owner') /\ signedOut' = signedOut
    BY <1>4 DEF Phone!SignIn, Phone!signVars
  <2>2. Len(owner') = Len(owner) + 1
    BY <2>1, AppendProperties DEF PhoneTyped, SessionsOK
  <2>3. QED BY <1>1, <2>1, <2>2
<1>5. QED BY <1>1, <1>2, <1>3, <1>4, Shows DEF Phone!SignedOutStaysOut, SignedOutIsOver,
                                               Phone!Authorised

-----------------------------------------------------------------------------
(* Whose row the token is in *)

\* The row of the token is that of `w`, and no race or loss may have left it so.
HasRow(w) == <<w, token>> \in rows /\ w \notin loose
\* A call that will take the token from whom it is with, and one that lets it be
\* with `w` until then.
Claims(c) == (c.job = "register" \/ Removal(c)) /\ c.tok = token
Fits(c, w) ==
  /\ c.job # "signOut" /\ (Removal(c) => c.tok = token)
  /\ c.at = "lost" => c.tok # token
  /\ c.at = "refused" /\ c.job # "renew" => Phone!UserOf(jar.session) # w
Claimed(w) == Phone!UserOf(shown) = w \/ \E c \in calls : Claims(c)
RowOK(w) ==
  /\ stored = token /\ jar.session # 0
  /\ Phone!UserOf(jar.session) = w => jar.session \in live
  /\ \A c \in calls : Fits(c, w)
  /\ Claimed(w)
RowsFollow == \A w \in PhoneUsers : HasRow(w) => RowOK(w)

\* A call that goes on fits and claims as before; and so do new ones.
LEMMA GoesOnFitting ==
  ASSUME NEW w, NEW c, NEW d, Follows(d, c), token' = token, Fits(c, w),
         \/ d.at \notin {"lost", "refused"}
         \/ d.at = c.at /\ Phone!UserOf(jar.session)' = Phone!UserOf(jar.session)
  PROVE  Fits(d, w)'
BY DEF Fits, Follows, Removal

LEMMA GoesOnClaiming ==
  ASSUME NEW c, NEW d, Follows(d, c), token' = token, Claims(c)
  PROVE  Claims(d)'
BY DEF Claims, Follows, Removal

LEMMA NewFits ==
  ASSUME NEW w, NEW job, NEW tok, NEW of, job # "signOut",
         job \in {"unregister", "forget"} => tok = token'
  PROVE  Fits(Phone!NewCall(job, tok, of), w)'
BY DEF Fits, Phone!NewCall, Removal

LEMMA NewClaims ==
  ASSUME NEW job \in {"register", "unregister", "forget"}, NEW tok, NEW of, tok = token'
  PROVE  Claims(Phone!NewCall(job, tok, of))'
BY DEF Claims, Phone!NewCall, Removal

\* The store shows somebody else: what follows from it takes the token along.
LEMMA ShownFitting ==
  ASSUME PhoneTyped, NEW w \in PhoneUsers, RowOK(w), NEW s \in {0, jar.session}, NEW c \in calls, NEW ends,
         Phone!Show(s, calls \ {c}, stored, ends), ~ Claims(c), token' = token, owner' = owner, jar' = jar
  PROVE  (\A d \in calls' : Fits(d, w)') /\ Claimed(w)'
<1>1. /\ calls \ {c} \in SUBSET Phone!Call /\ stored = token /\ stored # 0
      /\ \A b \in calls : Fits(b, w)
      /\ \A r : Phone!UserOf(r)' = Phone!UserOf(r)
  BY DEF PhoneTyped, CallsOK, CallOK, TokensOK, RowOK, Phone!UserOf
<1>2. PICK tok : tok = token
  OBVIOUS
<1>3. PICK others \in SUBSET Phone!Call : others = calls \ {c} /\ Phone!Show(s, others, tok, ends)
  BY <1>1, <1>2
<1>4. /\ shown' = s
      /\ \A d \in calls' :
           \/ \E b \in others : Follows(d, b) /\ d.at = b.at
           \/ d = Phone!NewCall("me", 0, 0)
           \/ s # 0 /\ d = Phone!NewCall("register", token, 0)
           \/ s = 0 /\ tok # 0 /\ d = Phone!NewCall("unregister", tok, 0)
      /\ \A b \in others : \E d \in calls' : Follows(d, b) /\ d.at = b.at
      /\ Phone!UserOf(s) # Phone!UserOf(shown) =>
           /\ s # 0 => Phone!NewCall("register", token, 0) \in calls'
           /\ s = 0 /\ tok # 0 => Phone!NewCall("unregister", tok, 0) \in calls'
  BY <1>3, Showing
<1>5. /\ Fits(Phone!NewCall("me", 0, 0), w)' /\ Fits(Phone!NewCall("register", tok, 0), w)'
      /\ Fits(Phone!NewCall("unregister", tok, 0), w)'
      /\ Claims(Phone!NewCall("register", tok, 0))' /\ Claims(Phone!NewCall("unregister", tok, 0))'
  BY <1>1, <1>2 DEF Fits, Claims, Phone!NewCall, Removal
<1>6. ASSUME NEW d \in calls' PROVE Fits(d, w)'
  <2>1. ASSUME NEW b \in others, Follows(d, b), d.at = b.at PROVE Fits(d, w)'
    <3>1. Fits(b, w) /\ Phone!UserOf(jar.session)' = Phone!UserOf(jar.session)
      BY <1>1, <1>3, <2>1
    <3>2. QED BY <2>1, <3>1, GoesOnFitting
  <2>2. QED BY <1>2, <1>4, <1>5, <2>1
<1>7. Claimed(w)'
  <2>1. CASE Phone!UserOf(s) # Phone!UserOf(shown)
    <3>1. tok # 0
      BY <1>1, <1>2
    <3>2. Phone!NewCall("register", tok, 0) \in calls' \/ Phone!NewCall("unregister", tok, 0) \in calls'
      BY <1>2, <1>4, <2>1, <3>1
    <3>3. QED BY <1>5, <3>2 DEF Claimed
  <2>2. CASE Phone!UserOf(s) = Phone!UserOf(shown) /\ Phone!UserOf(shown) = w
    <3>1. Phone!UserOf(shown)' = w
      BY <1>1, <1>4, <2>2
    <3>2. QED BY <3>1 DEF Claimed
  <2>3. ASSUME NEW b \in calls, Claims(b) PROVE Claimed(w)'
    <3>1. PICK d \in calls' : Follows(d, b)
      BY <1>3, <1>4, <2>3
    <3>2. Claims(d)'
      BY <2>3, <3>1, GoesOnClaiming
    <3>3. QED BY <3>1, <3>2 DEF Claimed
  <2>4. QED BY <2>1, <2>2, <2>3 DEF RowOK, Claimed
<1>8. QED BY <1>6, <1>7

\* What a step knows of `w`, and of nobody's row changing.
LEMMA RowFacts ==
  ASSUME PhoneTyped, RowsFollow, NEW w \in PhoneUsers
  PROVE  /\ w # "nobody" /\ calls \subseteq Phone!Call /\ \A c \in calls : CallOK(c) /\ Follows(c, c)
         /\ token \in 1 .. MaxTokens /\ rows \subseteq PhoneUsers \X (1 .. token)
         /\ \A r \in Phone!Sessions : r # 0 /\ Phone!UserOf(r) = owner[r]
         /\ live \subseteq Phone!Sessions /\ 0 \notin live
         /\ Phone!Authorised => Phone!UserOf(jar.session) \in PhoneUsers /\ jar.session # 0
         /\ HasRow(w) => RowOK(w) /\ \A c \in calls : Fits(c, w)
         /\ HasRow(w) => \A tok : w \in Phone!OwnersOf(tok) <=> <<w, tok>> \in rows
         /\ HasRow(w) => (w \in Phone!OutOfReach(token) <=> jar.session # 0 /\ w # Phone!UserOf(jar.session))
BY SessionFields DEF PhoneTyped, SessionsOK, TokensOK, CallsOK, CallOK, Follows, RowsFollow,
                     RowOK, HasRow, Phone!OwnersOf, Phone!OutOfReach, Phone!Authorised

LEMMA RowsAnswered ==
  ASSUME PhoneTyped, Phone!Settled, RowsFollow, NEW c \in calls, Phone!Answered(c), NEW w \in PhoneUsers, HasRow(w)'
  PROVE  RowOK(w)'
<1>1. /\ c.at \in {"send", "again"} /\ Phone!Authorised /\ owner' = owner /\ token' = token
      /\ \A d \in calls : d.at \notin {"refused", "lost"}
      /\ \A r : Phone!UserOf(r)' = Phone!UserOf(r)
  BY DEF Phone!Answered, Phone!Settled, Phone!UserOf
<1>2. ASSUME c.job \in {"me", "meAgain"} PROVE RowOK(w)'
  <2>1. /\ Phone!Show(jar.session, calls \ {c}, stored, TRUE) /\ live' = live /\ jar' = jar
        /\ rows' = rows /\ stored' = stored /\ loose' = loose
    BY <1>2 DEF Phone!Answered
  <2>2. HasRow(w) /\ RowOK(w)
    BY <1>1, <2>1, RowFacts DEF HasRow
  <2>3. ~ Claims(c)
    BY <1>2 DEF Claims, Removal
  <2>4. PICK s, ends : s = jar.session /\ Phone!Show(s, calls \ {c}, stored, ends)
    BY <2>1
  <2>5. (\A d \in calls' : Fits(d, w)') /\ Claimed(w)'
    BY <1>1, <2>1, <2>2, <2>3, <2>4, ShownFitting
  <2>6. QED BY <1>1, <2>1, <2>2, <2>5 DEF RowOK
<1>3. ASSUME Registration(c) PROVE RowOK(w)'
  <2>1. /\ rows' = Phone!Registered(Phone!UserOf(jar.session), c.tok) /\ stored' = c.tok
        /\ missed' = (Phone!Contended(calls \ {c}) \/ c.tok # token)
        /\ loose' = IF missed' THEN loose \cup {Phone!UserOf(jar.session)} \cup Phone!OutOfReach(token)
                               ELSE loose \ {Phone!UserOf(jar.session)}
        /\ calls' = calls \ {c} /\ live' = live /\ jar' = jar /\ shown' = shown
    BY <1>3 DEF Phone!Answered, Registration
  <2>2. CASE missed'
    <3>1. w # Phone!UserOf(jar.session) /\ w \notin loose /\ w \notin Phone!OutOfReach(token)
      BY <2>1, <2>2 DEF HasRow
    <3>2. <<w, token>> \in rows
      BY <1>1, <2>1, <3>1 DEF HasRow, Phone!Registered
    <3>3. QED BY <1>1, <3>1, <3>2, RowFacts DEF HasRow
  <2>3. CASE ~ missed'
    <3>1. c.tok = token /\ ~ Phone!Contended(calls \ {c})
      BY <2>1, <2>3
    <3>2. w = Phone!UserOf(jar.session)
      BY <1>1, <2>1, <3>1 DEF HasRow, Phone!Registered
    <3>3. shown = jar.session /\ \A d \in calls' : d.job \notin {"unregister", "forget", "signOut"}
      BY <2>1, <3>1 DEF Phone!Contended
    <3>4. \A d \in calls' : Fits(d, w)'
      BY <1>1, <2>1, <3>3 DEF Fits, Removal
    <3>5. QED BY <1>1, <2>1, <3>1, <3>2, <3>3, <3>4, RowFacts DEF RowOK, Claimed, Phone!Authorised
  <2>4. QED BY <2>2, <2>3
<1>4. ASSUME Removal(c) PROVE RowOK(w)'
  <2>1. rows' = Phone!Removed(Phone!UserOf(jar.session), c.tok) /\ loose' = loose \cup Phone!OutOfReach(c.tok)
    BY <1>4 DEF Phone!Answered, Removal
  <2>2. HasRow(w) /\ w \notin Phone!OutOfReach(c.tok)
    BY <1>1, <2>1 DEF HasRow, Phone!Removed
  <2>3. c.tok = token
    BY <1>4, <2>2, RowFacts DEF Fits
  <2>4. w # Phone!UserOf(jar.session)
    BY <1>1, <2>1, <2>3 DEF HasRow, Phone!Removed
  <2>5. QED BY <1>1, <2>2, <2>3, <2>4, RowFacts
<1>5. ASSUME c.job = "signOut" PROVE RowOK(w)'
  <2>1. rows' = rows /\ loose' = loose
    BY <1>5 DEF Phone!Answered
  <2>2. HasRow(w)
    BY <1>1, <2>1 DEF HasRow
  <2>3. QED BY <1>5, <2>2, RowFacts DEF Fits
<1>6. QED BY <1>2, <1>3, <1>4, <1>5 DEF Phone!Answered, Registration, Removal

\* One call goes on to something that fits.
LEMMA GoesOn ==
  ASSUME PhoneTyped, NEW w \in PhoneUsers, RowOK(w), NEW c \in calls, NEW d \in Phone!Call,
         Follows(d, c), Fits(d, w)', calls' = (calls \ {c}) \cup {d},
         owner' = owner, jar' = jar, token' = token, stored' = stored, shown' = shown,
         Phone!UserOf(jar.session) = w => jar.session \in live'
  PROVE  RowOK(w)'
<1>1. /\ \A r : Phone!UserOf(r)' = Phone!UserOf(r)
      /\ \A b \in calls : Fits(b, w) /\ Follows(b, b)
  BY DEF Phone!UserOf, RowOK, PhoneTyped, CallsOK, CallOK, Follows
<1>2. ASSUME NEW b \in calls' PROVE Fits(b, w)'
  <2>1. CASE b \in calls
    <3>1. Phone!UserOf(jar.session)' = Phone!UserOf(jar.session) /\ Fits(b, w) /\ Follows(b, b)
      BY <1>1, <2>1
    <3>2. QED BY <3>1, GoesOnFitting
  <2>2. QED BY <2>1
<1>3. Claimed(w)'
  <2>1. ASSUME NEW b \in calls, Claims(b) PROVE Claimed(w)'
    <3>1. PICK e \in calls' : Follows(e, b)
      BY <1>1
    <3>2. Claims(e)'
      BY <2>1, <3>1, GoesOnClaiming
    <3>3. QED BY <3>1, <3>2 DEF Claimed
  <2>2. QED BY <1>1, <2>1 DEF RowOK, Claimed
<1>4. QED BY <1>1, <1>2, <1>3 DEF RowOK

LEMMA RowsRefused ==
  ASSUME PhoneTyped, Phone!Settled, AgainIsFresh, RowsFollow, NEW c \in calls, Phone!Refused(c),
         NEW w \in PhoneUsers, HasRow(w)'
  PROVE  RowOK(w)'
<1>1. /\ owner' = owner /\ live' = live /\ rows' = rows /\ jar' = jar /\ shown' = shown /\ token' = token
      /\ stored' = stored /\ loose' = loose /\ ~ Phone!Authorised
      /\ c.at \in {"send", "again"}
  BY DEF Phone!Refused, Phone!serverVars
<1>2. HasRow(w) /\ RowOK(w) /\ c \in Phone!Call /\ Fits(c, w)
  BY <1>1, RowFacts DEF HasRow
<1>3. PICK d : /\ d = IF c.at = "again" THEN [c EXCEPT !.at = "refused"]
                      ELSE IF renewing THEN [c EXCEPT !.at = "wait"]
                      ELSE [c EXCEPT !.at = "renew", !.with = jar.session]
               /\ calls' = (calls \ {c}) \cup {d}
  BY DEF Phone!Refused
<1>4. d \in Phone!Call /\ Follows(d, c) /\ d.at # "lost" /\ (d.at = "refused" => c.at = "again")
  <2>1. jar.session \in 0 .. MaxSignIns
    BY SessionFields DEF PhoneTyped
  <2>2. QED BY <1>2, <1>3, <2>1 DEF Phone!Call, Follows
<1>5. Fits(d, w)'
  <2>1. CASE d.at # "refused"
    BY <1>1, <1>2, <1>4, <2>1, GoesOnFitting
  <2>2. CASE d.at = "refused"
    <3>1. jar.session \notin live
      BY <1>1, <1>4, <2>2 DEF AgainIsFresh, Phone!Authorised
    <3>2. Phone!UserOf(jar.session) # w /\ Phone!UserOf(jar.session)' = Phone!UserOf(jar.session)
      BY <1>1, <1>2, <3>1 DEF RowOK, Phone!UserOf
    <3>3. QED BY <1>1, <1>2, <1>4, <2>2, <3>2 DEF Fits, Follows, Removal
  <2>3. QED BY <2>1, <2>2
<1>6. Phone!UserOf(jar.session) = w => jar.session \in live'
  BY <1>1, <1>2 DEF RowOK
<1>7. QED BY <1>1, <1>2, <1>3, <1>4, <1>5, <1>6, GoesOn

LEMMA RowsLost ==
  ASSUME PhoneTyped, Phone!Settled, RowsFollow, NEW c \in calls, Phone!Lost(c), NEW w \in PhoneUsers, HasRow(w)'
  PROVE  RowOK(w)'
<1>1. /\ owner' = owner /\ jar' = jar /\ shown' = shown /\ token' = token /\ stored' = stored
      /\ c.at \in {"send", "again"} /\ calls' = (calls \ {c}) \cup {[c EXCEPT !.at = "lost"]}
      /\ Phone!OwnersOf(c.tok) \subseteq loose' /\ loose \subseteq loose'
      /\ Phone!Authorised /\ Registration(c) => Phone!UserOf(jar.session) \in loose'
  BY DEF Phone!Lost, Registration
<1>2. /\ \/ rows' \subseteq rows
         \/ Phone!Authorised /\ Registration(c) /\ rows' = Phone!Registered(Phone!UserOf(jar.session), c.tok)
      /\ live' = live \/ c.job = "signOut"
  BY DEF Phone!Lost, Registration, Phone!Removed
<1>3. HasRow(w)
  BY <1>1, <1>2 DEF HasRow, Phone!Registered
<1>4. c.tok # token
  BY <1>1, <1>3, RowFacts DEF HasRow
<1>5. RowOK(w) /\ c \in Phone!Call /\ Fits(c, w) /\ c.job # "signOut"
  BY <1>3, RowFacts DEF Fits
<1>6. PICK d : d = [c EXCEPT !.at = "lost"]
  OBVIOUS
<1>7. d \in Phone!Call /\ Follows(d, c) /\ d.at = "lost"
  BY <1>5, <1>6 DEF Phone!Call, Follows
<1>8. Fits(d, w)'
  BY <1>1, <1>4, <1>5, <1>7 DEF Fits, Follows, Removal
<1>9. Phone!UserOf(jar.session) = w => jar.session \in live'
  BY <1>2, <1>5 DEF RowOK
<1>10. QED BY <1>1, <1>5, <1>6, <1>7, <1>8, <1>9, GoesOn

LEMMA RowsRejected ==
  ASSUME PhoneTyped, RowsFollow, NEW c \in calls, Phone!Rejected(c), NEW w \in PhoneUsers, HasRow(w)'
  PROVE  RowOK(w)'
<1>1. /\ owner' = owner /\ live' = live /\ rows' = rows /\ jar' = jar /\ token' = token
      /\ c.at \in {"refused", "lost"} /\ loose' = loose \cup Phone!OutOfReach(c.tok)
      /\ \A r : Phone!UserOf(r)' = Phone!UserOf(r)
  BY DEF Phone!Rejected, Phone!serverVars, Phone!UserOf
<1>2. /\ HasRow(w) /\ RowOK(w) /\ w \notin Phone!OutOfReach(c.tok) /\ Fits(c, w)
      /\ stored = token /\ jar.session # 0 /\ (Phone!UserOf(jar.session) = w => jar.session \in live)
  BY <1>1, RowFacts DEF HasRow, RowOK
\* Had it been about the token, the cookies were of somebody else.
<1>3. ~ (c.tok = token /\ (Registration(c) \/ Removal(c)))
  <2>1. SUFFICES ASSUME c.tok = token, Registration(c) \/ Removal(c) PROVE FALSE
    OBVIOUS
  <2>2. c.at = "refused" /\ c.job # "renew"
    BY <1>1, <1>2, <2>1 DEF Fits, Registration, Removal
  <2>3. Phone!UserOf(jar.session) # w
    BY <1>2, <2>2 DEF Fits
  <2>4. QED BY <1>2, <2>1, <2>3, RowFacts
<1>4. ~ Claims(c) /\ ~ Removal(c) /\ c.job # "signOut"
  BY <1>2, <1>3 DEF Claims, Registration, Fits
<1>5. ASSUME c.job \in {"renew", "meAgain"} PROVE RowOK(w)'
  <2>1. Phone!Show(0, calls \ {c}, stored, TRUE) /\ stored' = stored
    BY <1>5 DEF Phone!Rejected
  <2>2. PICK s, ends : s = 0 /\ Phone!Show(s, calls \ {c}, stored, ends)
    BY <2>1
  <2>3. (\A d \in calls' : Fits(d, w)') /\ Claimed(w)'
    BY <1>1, <1>2, <1>4, <2>2, ShownFitting
  <2>4. QED BY <1>1, <1>2, <2>1, <2>3 DEF RowOK
<1>6. ASSUME c.job \notin {"renew", "meAgain"} PROVE RowOK(w)'
  <2>1. shown' = shown /\ stored' = stored
    BY <1>4, <1>6 DEF Phone!Rejected, Removal
  <2>2. \/ calls' = calls \ {c}
        \/ calls' = (calls \ {c}) \cup {[Phone!NewCall("renew", 0, 0) EXCEPT !.at = "renew", !.with = jar.session]}
    BY <1>4, <1>6 DEF Phone!Rejected, Removal
  <2>3. Fits([Phone!NewCall("renew", 0, 0) EXCEPT !.at = "renew", !.with = jar.session], w)'
    <3>1. PICK r : r = jar.session
      OBVIOUS
    <3>2. Fits([Phone!NewCall("renew", 0, 0) EXCEPT !.at = "renew", !.with = r], w)'
      BY DEF Fits, Phone!NewCall, Removal
    <3>3. QED BY <1>1, <3>1, <3>2
  <2>4. ASSUME NEW b \in calls PROVE Fits(b, w)'
    <3>1. Phone!UserOf(jar.session)' = Phone!UserOf(jar.session) /\ Fits(b, w) /\ Follows(b, b)
      BY <1>1, <1>2, RowFacts
    <3>2. QED BY <1>1, <3>1, GoesOnFitting
  <2>5. Claimed(w)'
    <3>1. ASSUME NEW b \in calls, Claims(b) PROVE Claimed(w)'
      <4>1. b \in calls' /\ Follows(b, b)
        BY <1>4, <2>2, <3>1, RowFacts
      <4>2. Claims(b)'
        BY <1>1, <3>1, <4>1, GoesOnClaiming
      <4>3. QED BY <4>1, <4>2 DEF Claimed
    <3>2. QED BY <1>1, <1>2, <2>1, <3>1 DEF RowOK, Claimed
  <2>6. \A d \in calls' : Fits(d, w)'
    BY <1>1, <2>2, <2>3, <2>4
  <2>7. QED BY <1>1, <1>2, <2>1, <2>5, <2>6 DEF RowOK
<1>7. QED BY <1>5, <1>6

\* All calls go on, some of them after a renewal.
LEMMA AllGoOn ==
  ASSUME NEW w \in PhoneUsers, RowOK(w), Phone!Settled, token' = token,
         \A d \in calls' : d.at \notin {"lost", "refused"},
         \A d \in calls' : \E c \in calls : Follows(d, c),
         \A c \in calls : \E d \in calls' : Follows(d, c),
         Phone!UserOf(shown)' = Phone!UserOf(shown)
  PROVE  (\A d \in calls' : Fits(d, w)') /\ Claimed(w)'
<1>1. ASSUME NEW d \in calls' PROVE Fits(d, w)'
  <2>1. PICK c \in calls : Follows(d, c)
    OBVIOUS
  <2>2. Fits(c, w)
    BY DEF RowOK
  <2>3. QED BY <2>1, <2>2, GoesOnFitting
<1>2. ASSUME NEW c \in calls, Claims(c) PROVE Claimed(w)'
  <2>1. PICK d \in calls' : Follows(d, c)
    OBVIOUS
  <2>2. Claims(d)'
    BY <1>2, <2>1, GoesOnClaiming
  <2>3. QED BY <2>1, <2>2 DEF Claimed
<1>3. QED BY <1>1, <1>2 DEF RowOK, Claimed

LEMMA RowsRenewed ==
  ASSUME PhoneTyped, Phone!Settled, RowsFollow, NEW c \in calls, Phone!Renewed(c), NEW w \in PhoneUsers, HasRow(w)'
  PROVE  RowOK(w)'
<1>1. /\ owner' = owner /\ live' = live /\ rows' = rows /\ shown' = shown /\ token' = token
      /\ stored' = stored /\ loose' = loose /\ jar'.session = c.with /\ c.with \in live
      /\ Phone!UserOf(shown)' = Phone!UserOf(shown)
  BY DEF Phone!Renewed, Phone!Rotates, Phone!serverVars, Phone!UserOf
<1>2. HasRow(w) /\ RowOK(w) /\ stored = token /\ c.with # 0
  BY <1>1, RowFacts DEF HasRow, RowOK
<1>3. (\A d \in calls' : Fits(d, w)') /\ Claimed(w)'
  <2>1. CASE c.job = "renew"
    <3>1. calls' = (calls \ {c}) \cup {Phone!NewCall("meAgain", 0, 0)}
      BY <2>1 DEF Phone!Renewed
    <3>2. PICK job, tok : job = "meAgain" /\ tok = 0
      OBVIOUS
    <3>3. Fits(Phone!NewCall(job, tok, tok), w)'
      BY <3>2 DEF Fits, Phone!NewCall, Removal
    <3>4. ASSUME NEW b \in calls PROVE Fits(b, w)'
      <4>1. Fits(b, w) /\ Follows(b, b) /\ b.at \notin {"lost", "refused"}
        BY <1>2, RowFacts DEF Phone!Settled
      <4>2. QED BY <1>1, <4>1, GoesOnFitting
    <3>5. ASSUME NEW b \in calls, Claims(b) PROVE Claimed(w)'
      <4>1. b \in calls' /\ Follows(b, b)
        BY <2>1, <3>1, <3>5, RowFacts DEF Claims, Removal
      <4>2. Claims(b)'
        BY <1>1, <3>5, <4>1, GoesOnClaiming
      <4>3. QED BY <4>1, <4>2 DEF Claimed
    <3>6. QED BY <1>1, <1>2, <3>1, <3>2, <3>3, <3>4, <3>5 DEF RowOK, Claimed
  <2>2. CASE c.job # "renew"
    <3>1. calls' = Phone!Resumed(c, "again")
      BY <2>2 DEF Phone!Renewed
    <3>2. CallsOK
      BY DEF PhoneTyped
    <3>3. \A e \in Phone!Resumed(c, "again") :
            \E d \in calls : /\ GoneOn(e, d)
                             /\ d = c \/ d.at = "wait" => e.at = "again"
                             /\ d = c \/ d.at = "wait" \/ e = d
      BY <2>2, <3>2, ResumedCalls
    <3>4. \A d \in calls : \E e \in Phone!Resumed(c, "again") : Follows(e, d)
      BY <2>2, <3>2, ResumedCalls
    <3>5. \A d \in calls' : d.at \notin {"lost", "refused"} /\ \E b \in calls : Follows(d, b)
      BY <3>1, <3>3 DEF Phone!Settled, GoneOn
    <3>6. QED BY <1>1, <1>2, <3>1, <3>4, <3>5, AllGoOn
  <2>3. QED BY <2>1, <2>2
<1>4. QED BY <1>1, <1>2, <1>3 DEF RowOK

LEMMA RowsNotRenewed ==
  ASSUME PhoneTyped, Phone!Settled, RowsFollow, NEW c \in calls, Phone!NotRenewed(c), NEW w \in PhoneUsers, HasRow(w)'
  PROVE  RowOK(w)'
<1>1. /\ owner' = owner /\ live' = live /\ rows' = rows /\ jar' = jar /\ token' = token /\ loose \subseteq loose'
  BY DEF Phone!NotRenewed, Phone!serverVars
<1>2. /\ HasRow(w) /\ RowOK(w) /\ w \notin loose' /\ c \in Phone!Call /\ Fits(c, w) /\ w \in Phone!OwnersOf(token)
      /\ Phone!UserOf(jar.session) = w => jar.session \in live
  BY <1>1, RowFacts DEF HasRow, RowOK
<1>3. CASE c.job = "renew"
  <2>1. PICK at \in {"refused", "lost"} : calls' = (calls \ {c}) \cup {[c EXCEPT !.at = at]}
    BY <1>3 DEF Phone!NotRenewed
  <2>2. shown' = shown /\ stored' = stored
    BY <1>3 DEF Phone!NotRenewed
  <2>3. PICK d : d = [c EXCEPT !.at = at]
    OBVIOUS
  <2>4. d \in Phone!Call /\ Follows(d, c)
    BY <1>2, <2>3 DEF Phone!Call, Follows
  <2>5. d.tok # token /\ d.job = "renew"
    BY <1>3, <2>4, RowFacts DEF Follows, CallOK, Registration, Removal
  <2>6. Fits(d, w)'
    BY <1>1, <2>5 DEF Fits, Removal
  <2>7. QED BY <1>1, <1>2, <2>1, <2>2, <2>3, <2>4, <2>6, GoesOn
\* The session was renewed in vain: it was not that of the cookies, or is over.
<1>4. CASE c.job # "renew"
  <2>1. \/ Phone!OwnersOf(token) \subseteq loose'
        \/ c.with \notin live /\ jar.session = c.with /\ Phone!OutOfReach(token) \subseteq loose'
    BY <1>4 DEF Phone!NotRenewed
  <2>2. c.with \notin live /\ jar.session = c.with /\ w \notin Phone!OutOfReach(token)
    BY <1>2, <2>1
  <2>3. jar.session # 0
    BY <1>2 DEF RowOK
  <2>4. QED BY <1>2, <2>2, <2>3, RowFacts
<1>5. QED BY <1>3, <1>4

LEMMA RowsSignIn ==
  ASSUME PhoneTyped, Phone!Settled, RowsFollow, NEW v \in PhoneUsers, Phone!SignIn(v), NEW w \in PhoneUsers, HasRow(w)'
  PROVE  RowOK(w)'
<1>1. /\ rows' = rows /\ loose' = loose /\ token' = token /\ stored' = stored
      /\ owner' = Append(owner, v) /\ jar'.session = Len(owner') /\ live' = live \cup {Len(owner')}
      /\ calls' = Phone!Effects(calls, TRUE, 0)
  BY DEF Phone!SignIn
<1>2. HasRow(w) /\ RowOK(w) /\ calls \in SUBSET Phone!Call /\ stored = token
  BY <1>1, RowFacts DEF HasRow, RowOK
<1>3. jar'.session # 0
  <2>1. Len(owner') = Len(owner) + 1 /\ Len(owner) \in Nat
    BY <1>1, AppendProperties, SessionFields DEF PhoneTyped, SessionsOK
  <2>2. QED BY <1>1, <2>1
<1>4. /\ \A d \in calls' : \/ \E c \in calls : Follows(d, c) /\ d.at = c.at
                           \/ d = Phone!NewCall("me", 0, 0) \/ d = Phone!NewCall("register", token, 0)
      /\ Phone!NewCall("register", token, 0) \in calls'
  BY <1>1, <1>2, SigningIn
<1>5. PICK tok : tok = token
  OBVIOUS
<1>6. /\ Fits(Phone!NewCall("me", 0, 0), w)' /\ Fits(Phone!NewCall("register", tok, 0), w)'
      /\ Claims(Phone!NewCall("register", tok, 0))'
  BY <1>1, <1>5 DEF Fits, Claims, Phone!NewCall, Removal
<1>7. ASSUME NEW d \in calls' PROVE Fits(d, w)'
  <2>1. ASSUME NEW c \in calls, Follows(d, c), d.at = c.at PROVE Fits(d, w)'
    <3>1. Fits(c, w) /\ d.at \notin {"lost", "refused"}
      BY <1>2, <2>1 DEF RowOK, Phone!Settled
    <3>2. QED BY <1>1, <2>1, <3>1, GoesOnFitting
  <2>2. QED BY <1>4, <1>5, <1>6, <2>1
<1>8. Claimed(w)'
  BY <1>4, <1>5, <1>6 DEF Claimed
<1>9. QED BY <1>1, <1>2, <1>3, <1>7, <1>8 DEF RowOK

\* Nothing that concerns the calls or the token happens.
LEMMA NothingMoves ==
  ASSUME NEW w, RowOK(w), calls' = calls, token' = token, stored' = stored, shown' = shown,
         owner' = owner, jar'.session = jar.session, Phone!UserOf(jar.session) = w => jar.session \in live'
  PROVE  RowOK(w)'
<1>1. \A r : Phone!UserOf(r)' = Phone!UserOf(r)
  BY DEF Phone!UserOf
<1>2. Phone!UserOf(jar.session)' = Phone!UserOf(jar.session) /\ Phone!UserOf(shown)' = Phone!UserOf(shown)
  BY DEF Phone!UserOf
<1>3. \A c : (Fits(c, w)' <=> Fits(c, w)) /\ (Claims(c)' <=> Claims(c))
  BY <1>2 DEF Fits, Claims, Removal
<1>4. QED BY <1>2, <1>3 DEF RowOK, Claimed

LEMMA RowsOther ==
  ASSUME PhoneTyped, RowsFollow, NEW w \in PhoneUsers, HasRow(w)',
         \/ \E v \in PhoneUsers : Phone!Notify(v)
         \/ \E s \in live : Phone!EndSession(s)
         \/ Phone!TapSignOut \/ Phone!Expire \/ Phone!Reopen \/ Phone!Rotate
  PROVE  RowOK(w)'
<1>1. CASE Phone!Rotate
  <2>1. token' = token + 1 /\ rows' = rows
    BY <1>1 DEF Phone!Rotate, Phone!serverVars
  <2>2. rows \subseteq PhoneUsers \X (1 .. token) /\ token \in Nat
    BY RowFacts
  <2>3. <<w, token + 1>> \in rows
    BY <2>1 DEF HasRow
  <2>4. QED BY <2>2, <2>3
<1>2. CASE \/ \E v \in PhoneUsers : Phone!Notify(v)
           \/ \E s \in live : Phone!EndSession(s)
           \/ Phone!Expire
  <2>1. /\ calls' = calls /\ token' = token /\ stored' = stored /\ shown' = shown /\ owner' = owner
        /\ rows' \subseteq rows /\ loose \subseteq loose'
    BY <1>2 DEF Phone!Notify, Phone!EndSession, Phone!Expire, Phone!serverVars
  <2>2. HasRow(w) /\ RowOK(w)
    BY <2>1, RowFacts DEF HasRow
  <2>3. jar'.session = jar.session
    BY <1>2 DEF Phone!Notify, Phone!EndSession, Phone!Expire, PhoneTyped, SessionsOK
  <2>4. live' = live \/ \E s \in live : live' = live \ {s} /\ loose' = loose \cup {owner[s]}
    BY <1>2 DEF Phone!Notify, Phone!EndSession, Phone!Expire, Phone!serverVars
  <2>5. Phone!UserOf(jar.session) = w => jar.session \in live'
    <3>1. CASE live' = live
      BY <2>2, <3>1 DEF RowOK
    <3>2. ASSUME NEW s \in live, live' = live \ {s}, loose' = loose \cup {owner[s]} PROVE <2>5
      <4>1. owner[s] # w /\ Phone!UserOf(s) = owner[s]
        BY <3>2, RowFacts DEF HasRow
      <4>2. QED BY <2>2, <3>2, <4>1 DEF RowOK
    <3>3. QED BY <2>4, <3>1, <3>2
  <2>6. QED BY <2>1, <2>2, <2>3, <2>5, NothingMoves
<1>3. CASE Phone!TapSignOut
  <2>1. /\ calls' = calls \cup {Phone!StartSignOut(shown)} /\ token' = token /\ stored' = stored /\ shown' = shown
        /\ owner' = owner /\ rows' = rows /\ loose' = loose /\ jar' = jar /\ live' = live
        /\ \A r : Phone!UserOf(r)' = Phone!UserOf(r)
    BY <1>3 DEF Phone!TapSignOut, Phone!serverVars, Phone!UserOf
  <2>2. HasRow(w) /\ RowOK(w) /\ stored = token /\ token # 0
    BY <2>1, RowFacts DEF HasRow, RowOK
  <2>3. PICK tok, of : tok = token /\ of = shown
    OBVIOUS
  <2>4. Phone!StartSignOut(shown) = Phone!NewCall("forget", tok, of)
    BY <2>2, <2>3 DEF Phone!StartSignOut
  <2>5. Fits(Phone!NewCall("forget", tok, of), w)'
    BY <2>1, <2>3 DEF Fits, Phone!NewCall, Removal
  <2>6. ASSUME NEW b \in calls PROVE Fits(b, w)'
    <3>1. Fits(b, w) /\ Follows(b, b) /\ Phone!UserOf(jar.session)' = Phone!UserOf(jar.session)
      BY <2>1, <2>2, RowFacts
    <3>2. QED BY <2>1, <3>1, GoesOnFitting
  <2>7. \A b \in calls : Claims(b)' <=> Claims(b)
    BY <2>1 DEF Claims, Removal
  <2>8. Claimed(w)'
    BY <2>1, <2>2, <2>7 DEF RowOK, Claimed
  <2>9. \A b \in calls' : Fits(b, w)'
    BY <2>1, <2>4, <2>5, <2>6
  <2>10. QED BY <2>1, <2>2, <2>8, <2>9 DEF RowOK
<1>4. CASE Phone!Reopen
  <2>1. /\ calls' = Phone!Effects({}, FALSE, stored) /\ token' = token /\ stored' = stored
        /\ owner' = owner /\ rows' = rows /\ loose' = loose /\ jar' = jar /\ live' = live
        /\ \A r : Phone!UserOf(r)' = Phone!UserOf(r)
    BY <1>4 DEF Phone!Reopen, Phone!serverVars, Phone!UserOf
  <2>2. HasRow(w) /\ RowOK(w) /\ stored = token /\ token # 0
    BY <2>1, RowFacts DEF HasRow, RowOK
  <2>3. PICK tok : tok = token
    OBVIOUS
  <2>4. calls' = {Phone!NewCall("me", 0, 0), Phone!NewCall("unregister", tok, 0)}
    BY <2>1, <2>2, <2>3 DEF Phone!Effects
  <2>5. /\ Fits(Phone!NewCall("me", 0, 0), w)' /\ Fits(Phone!NewCall("unregister", tok, 0), w)'
        /\ Claims(Phone!NewCall("unregister", tok, 0))'
    BY <2>1, <2>3 DEF Fits, Claims, Phone!NewCall, Removal
  <2>6. QED BY <2>1, <2>2, <2>4, <2>5 DEF RowOK, Claimed
<1>5. QED BY <1>1, <1>2, <1>3, <1>4

LEMMA RowsFollowStep ==
  ASSUME PhoneTyped, Phone!Next, AgainIsFresh, RowsFollow
  PROVE  RowsFollow'
<1> SUFFICES ASSUME NEW w \in PhoneUsers, HasRow(w)' PROVE RowOK(w)'
  BY DEF RowsFollow
<1>1. CASE \E c \in calls : Phone!Rejected(c)
  BY <1>1, RowsRejected
<1>2. CASE Phone!Settled /\ \E c \in calls : Phone!Answered(c)
  BY <1>2, RowsAnswered
<1>3. CASE Phone!Settled /\ \E c \in calls : Phone!Refused(c)
  BY <1>3, RowsRefused
<1>4. CASE Phone!Settled /\ \E c \in calls : Phone!Lost(c)
  BY <1>4, RowsLost
<1>5. CASE Phone!Settled /\ \E c \in calls : Phone!Renewed(c)
  BY <1>5, RowsRenewed
<1>6. CASE Phone!Settled /\ \E c \in calls : Phone!NotRenewed(c)
  BY <1>6, RowsNotRenewed
<1>7. CASE Phone!Settled /\ \E v \in PhoneUsers : Phone!SignIn(v)
  BY <1>7, RowsSignIn
<1>8. QED BY <1>1, <1>2, <1>3, <1>4, <1>5, <1>6, <1>7, RowsOther DEF Phone!Next

-----------------------------------------------------------------------------
(* Who is reached *)

\* A call after which the one who is shown has the token, or is not shown any more.
Pending(c) == Registration(c) \/ c.job \in {"forget", "signOut"}
Reached ==
  shown # 0 /\ ~ missed =>
    \/ <<Phone!UserOf(shown), token>> \in rows /\ \A c \in calls : c.job # "unregister"
    \/ \E c \in calls : Pending(c)

\* The calls go on and the rows of the token stay.
LEMMA StaysReached ==
  ASSUME Reached, shown # 0, ~ missed, Phone!UserOf(shown)' = Phone!UserOf(shown), token' = token,
         (\A c \in calls : ~ Pending(c) /\ c.job # "unregister") =>
           \A u : <<u, token>> \in rows => <<u, token>> \in rows',
         \A c \in calls : Pending(c) => \E d \in calls' : Follows(d, c) \/ Pending(d),
         \A d \in calls' : d.job = "unregister" => \E c \in calls : c.job = "unregister"
  PROVE  Reached'
<1>1. CASE \E c \in calls : Pending(c)
  <2>1. \E d \in calls' : Pending(d)
    BY <1>1 DEF Pending, Registration, Follows
  <2>2. QED BY <2>1 DEF Reached, Pending, Registration
<1>2. CASE <<Phone!UserOf(shown), token>> \in rows /\ \A c \in calls : c.job # "unregister" /\ ~ Pending(c)
  BY <1>2 DEF Reached, Pending, Registration
<1>3. QED BY <1>1, <1>2 DEF Reached

\* An answer, or what it sets off when none comes.
LEMMA ReachedAnswered ==
  ASSUME PhoneTyped, Reached, NEW c \in calls, Phone!Answered(c) \/ Phone!Rejected(c), shown' # 0, ~ missed'
  PROVE  Reached'
<1>1. /\ owner' = owner /\ token' = token /\ \A r : Phone!UserOf(r)' = Phone!UserOf(r)
      /\ calls \ {c} \in SUBSET Phone!Call /\ Phone!Sessions = 1 .. Len(owner) /\ Phone!UserOf(0) = "nobody"
      /\ Phone!Authorised => jar.session # 0 /\ Phone!UserOf(jar.session) \in PhoneUsers /\ Phone!UserOf(jar.session) # "nobody"
      /\ \A d \in calls : Follows(d, d)
  BY SessionFields DEF Phone!Answered, Phone!Rejected, Phone!serverVars, Phone!UserOf, PhoneTyped,
                       CallsOK, CallOK, Follows, Phone!Authorised
<1>2. ASSUME Phone!Answered(c), c.job \in {"me", "meAgain"} PROVE Reached'
  <2>1. /\ Phone!Show(jar.session, calls \ {c}, stored, TRUE) /\ rows' = rows /\ missed' = missed
        /\ Phone!Authorised /\ shown' = jar.session
    BY <1>2 DEF Phone!Answered, Phone!Show
  <2>2. CASE Phone!UserOf(jar.session) = Phone!UserOf(shown)
    <3>1. calls' = calls \ {c}
      BY <2>1, <2>2 DEF Phone!Show
    <3>2. shown # 0 /\ ~ Pending(c) /\ Phone!UserOf(shown)' = Phone!UserOf(shown)
      BY <1>1, <1>2, <2>1, <2>2 DEF Pending, Registration
    <3>3. \A d \in calls : Pending(d) => \E e \in calls' : Follows(e, d) \/ Pending(e)
      BY <3>1, <3>2
    <3>4. QED BY <1>1, <2>1, <3>1, <3>2, <3>3, StaysReached
  <2>3. CASE Phone!UserOf(jar.session) # Phone!UserOf(shown)
    <3>1. calls' = Phone!Effects(calls \ {c}, TRUE, stored)
      BY <1>1, <2>1, <2>3 DEF Phone!Show
    <3>2. Phone!NewCall("register", token, 0) \in calls'
      BY <3>1 DEF Phone!Effects
    <3>3. QED BY <3>2 DEF Reached, Pending, Registration, Phone!NewCall
  <2>4. QED BY <2>2, <2>3
<1>3. ASSUME Phone!Answered(c), Registration(c) PROVE Reached'
  <2>1. /\ rows' = Phone!Registered(Phone!UserOf(jar.session), c.tok) /\ calls' = calls \ {c} /\ shown' = shown
        /\ ~ Phone!Contended(calls \ {c}) /\ c.tok = token
    BY <1>3 DEF Phone!Answered, Registration
  <2>2. shown = jar.session /\ \A d \in calls' : d.job # "unregister"
    BY <2>1 DEF Phone!Contended
  <2>3. <<Phone!UserOf(shown), token>>' \in rows'
    BY <1>1, <2>1, <2>2 DEF Phone!Registered
  <2>4. QED BY <2>2, <2>3 DEF Reached
<1>4. ASSUME c.job = "forget" PROVE Reached'
  <2>1. Phone!NewCall("signOut", 0, c.of) \in calls'
    BY <1>4 DEF Phone!Answered, Phone!Rejected
  <2>2. QED BY <2>1 DEF Reached, Pending, Registration, Phone!NewCall
<1>5. ASSUME c.job = "unregister" PROVE Reached'
  <2>1. calls' = calls \ {c} /\ shown' = shown /\ missed' = missed
    BY <1>5 DEF Phone!Answered, Phone!Rejected
  <2>2. ~ Pending(c)
    BY <1>5 DEF Pending, Registration
  <2>3. \A d \in calls : Pending(d) => \E e \in calls' : Follows(e, d) \/ Pending(e)
    BY <2>1, <2>2
  <2>4. Phone!UserOf(shown)' = Phone!UserOf(shown)
    BY <1>1, <2>1
  <2>5. QED BY <1>1, <1>5, <2>1, <2>3, <2>4, StaysReached
<1>6. ASSUME c.job = "signOut" \/ (Phone!Rejected(c) /\ c.job \in {"renew", "meAgain"}) PROVE Reached'
  BY <1>6 DEF Phone!Answered, Phone!Rejected, Phone!EndSignOut, Phone!Show
<1>7. ASSUME Phone!Rejected(c), Registration(c) PROVE Reached'
  BY <1>7 DEF Phone!Rejected, Registration
<1>8. ASSUME Phone!Rejected(c), c.job = "me" PROVE Reached'
  <2>1. /\ calls' = (calls \ {c}) \cup {[Phone!NewCall("renew", 0, 0) EXCEPT !.at = "renew", !.with = jar.session]}
        /\ shown' = shown /\ missed' = missed /\ rows' = rows
    BY <1>8 DEF Phone!Rejected, Phone!serverVars
  <2>2. ~ Pending(c) /\ [Phone!NewCall("renew", 0, 0) EXCEPT !.at = "renew", !.with = jar.session].job = "renew"
    BY <1>8 DEF Pending, Registration, Phone!NewCall
  <2>3. \A d \in calls : Pending(d) => \E e \in calls' : Follows(e, d) \/ Pending(e)
    BY <2>1, <2>2
  <2>4. Phone!UserOf(shown)' = Phone!UserOf(shown)
    BY <1>1, <2>1
  <2>5. \A d \in calls' : d.job = "unregister" => \E b \in calls : b.job = "unregister"
    BY <2>1, <2>2
  <2>6. QED BY <1>1, <2>1, <2>3, <2>4, <2>5, StaysReached
<1>9. QED BY <1>2, <1>3, <1>4, <1>5, <1>6, <1>7, <1>8 DEF Phone!Answered, Phone!Rejected,
                                                          Registration

\* A call goes on.
LEMMA ReachedGoesOn ==
  ASSUME PhoneTyped, Reached, NEW c \in calls,
         Phone!Refused(c) \/ Phone!Lost(c) \/ Phone!Renewed(c) \/ Phone!NotRenewed(c), shown' # 0, ~ missed'
  PROVE  Reached'
<1>1. /\ owner' = owner /\ token' = token /\ missed' = missed /\ c \in Phone!Call
      /\ \A d \in calls : d \in Phone!Call /\ Follows(d, d)
      /\ jar.session \in 0 .. MaxSignIns /\ CallsOK
  <2>1. owner' = owner /\ token' = token /\ missed' = missed
    BY DEF Phone!Refused, Phone!Lost, Phone!Renewed, Phone!NotRenewed, Phone!serverVars
  <2>2. CallsOK /\ \A d \in calls : d \in Phone!Call /\ Follows(d, d)
    BY DEF PhoneTyped, CallsOK, CallOK, Follows
  <2>3. jar.session \in 0 .. MaxSignIns
    BY SessionFields DEF PhoneTyped
  <2>4. QED BY <2>1, <2>2, <2>3
<1>2. ASSUME NEW d, Follows(d, c), calls' = (calls \ {c}) \cup {d}, shown' = shown,
             ~ Pending(c) /\ c.job # "unregister" => rows' = rows
      PROVE  Reached'
  <2>1. Phone!UserOf(shown)' = Phone!UserOf(shown)
    BY <1>1, <1>2 DEF Phone!UserOf
  <2>2. \A b \in calls : Pending(b) => \E e \in calls' : Follows(e, b) \/ Pending(e)
    BY <1>1, <1>2
  <2>3. \A e \in calls' : e.job = "unregister" => \E b \in calls : b.job = "unregister"
    BY <1>2 DEF Follows
  <2>4. QED BY <1>1, <1>2, <2>1, <2>2, <2>3, StaysReached
<1>3. ASSUME Phone!Refused(c) PROVE Reached'
  <2>1. PICK d : /\ d = IF c.at = "again" THEN [c EXCEPT !.at = "refused"]
                        ELSE IF renewing THEN [c EXCEPT !.at = "wait"]
                        ELSE [c EXCEPT !.at = "renew", !.with = jar.session]
                 /\ calls' = (calls \ {c}) \cup {d}
    BY <1>3 DEF Phone!Refused
  <2>2. Follows(d, c)
    BY <1>1, <2>1 DEF Phone!Call, Follows
  <2>3. shown' = shown /\ rows' = rows
    BY <1>3 DEF Phone!Refused, Phone!serverVars
  <2>4. QED BY <1>2, <2>1, <2>2, <2>3
<1>4. ASSUME Phone!Lost(c) PROVE Reached'
  <2>1. PICK d : d = [c EXCEPT !.at = "lost"] /\ calls' = (calls \ {c}) \cup {d}
    BY <1>4 DEF Phone!Lost
  <2>2. Follows(d, c)
    BY <1>1, <2>1 DEF Phone!Call, Follows
  <2>3. shown' = shown /\ (~ Pending(c) /\ c.job # "unregister" => rows' = rows)
    BY <1>4 DEF Phone!Lost, Pending, Registration
  <2>4. QED BY <1>2, <2>1, <2>2, <2>3
<1>5. ASSUME Phone!Renewed(c) PROVE Reached'
  <2>1. shown' = shown /\ rows' = rows /\ Phone!UserOf(shown)' = Phone!UserOf(shown)
    BY <1>5 DEF Phone!Renewed, Phone!serverVars, Phone!UserOf
  <2>2. CASE c.job = "renew"
    <3>1. calls' = (calls \ {c}) \cup {Phone!NewCall("meAgain", 0, 0)} /\ ~ Pending(c)
      BY <1>5, <2>2 DEF Phone!Renewed, Pending, Registration
    <3>2. Phone!NewCall("meAgain", 0, 0).job = "meAgain"
      BY DEF Phone!NewCall
    <3>3. \A b \in calls : Pending(b) => \E e \in calls' : Follows(e, b) \/ Pending(e)
      BY <3>1
    <3>4. \A e \in calls' : e.job = "unregister" => \E b \in calls : b.job = "unregister"
      BY <3>1, <3>2
    <3>5. QED BY <1>1, <2>1, <3>3, <3>4, StaysReached
  <2>3. CASE c.job # "renew"
    <3>1. calls' = Phone!Resumed(c, "again")
      BY <1>5, <2>3 DEF Phone!Renewed
    <3>2. \A e \in Phone!Resumed(c, "again") :
            \E d \in calls : /\ GoneOn(e, d)
                             /\ d = c \/ d.at = "wait" => e.at = "again"
                             /\ d = c \/ d.at = "wait" \/ e = d
      BY <1>1, <2>3, ResumedCalls
    <3>3. \A d \in calls : \E e \in Phone!Resumed(c, "again") : Follows(e, d)
      BY <1>1, <2>3, ResumedCalls
    <3>4. \A b \in calls : Pending(b) => \E e \in calls' : Follows(e, b) \/ Pending(e)
      BY <3>1, <3>3
    <3>5. \A e \in calls' : e.job = "unregister" => \E b \in calls : b.job = "unregister"
      BY <3>1, <3>2 DEF GoneOn, Follows
    <3>6. QED BY <1>1, <2>1, <3>4, <3>5, StaysReached
  <2>4. QED BY <2>2, <2>3
<1>6. ASSUME Phone!NotRenewed(c) PROVE Reached'
  <2>1. CASE c.job = "renew"
    <3>1. PICK at \in {"refused", "lost"} : calls' = (calls \ {c}) \cup {[c EXCEPT !.at = at]}
      BY <1>6, <2>1 DEF Phone!NotRenewed
    <3>2. shown' = shown /\ rows' = rows
      BY <1>6, <2>1 DEF Phone!NotRenewed, Phone!serverVars
    <3>3. PICK d : d = [c EXCEPT !.at = at]
      OBVIOUS
    <3>4. Follows(d, c)
      BY <1>1, <3>3 DEF Phone!Call, Follows
    <3>5. QED BY <1>2, <3>1, <3>2, <3>3, <3>4
  <2>2. CASE c.job # "renew"
    BY <1>6, <2>2 DEF Phone!NotRenewed, Phone!Show
  <2>3. QED BY <2>1, <2>2
<1>7. QED BY <1>3, <1>4, <1>5, <1>6

LEMMA ReachedStep == ASSUME PhoneTyped, Moved, Reached PROVE Reached'
<1> SUFFICES ASSUME shown' # 0, ~ missed' PROVE Reached'
  BY DEF Reached
<1>1. CASE Phone!Reopen
  BY <1>1 DEF Phone!Reopen
<1>2. ASSUME NEW w \in PhoneUsers, Phone!SignIn(w) PROVE Reached'
  <2>1. calls' = Phone!Effects(calls, TRUE, 0)
    BY <1>2 DEF Phone!SignIn
  <2>2. Phone!NewCall("register", token, 0) \in calls'
    BY <2>1 DEF Phone!Effects
  <2>3. QED BY <2>2 DEF Reached, Pending, Registration, Phone!NewCall
<1>3. CASE Phone!TapSignOut
  <2>1. Phone!StartSignOut(shown) \in calls'
    BY <1>3 DEF Phone!TapSignOut
  <2>2. Pending(Phone!StartSignOut(shown))
    BY DEF Phone!StartSignOut, Phone!NewCall, Pending
  <2>3. PICK d \in calls' : Pending(d)
    BY <2>1, <2>2
  <2>4. QED BY <2>3 DEF Reached, Pending, Registration
<1>4. CASE Phone!Rotate
  <2>1. Phone!NewCall("reregister", token', 0) \in calls'
    BY <1>4 DEF Phone!Rotate
  <2>2. Phone!NewCall("reregister", token', 0).job = "reregister"
    BY DEF Phone!NewCall
  <2>3. QED BY <2>1, <2>2 DEF Reached, Pending, Registration
<1>5. CASE \/ \E w \in PhoneUsers : Phone!Notify(w)
           \/ \E s \in live : Phone!EndSession(s)
           \/ Phone!Expire
  <2>1. /\ calls' = calls /\ shown' = shown /\ missed' = missed /\ token' = token
        /\ Phone!UserOf(shown)' = Phone!UserOf(shown)
        /\ \A w : <<w, token>> \in rows => <<w, token>> \in rows'
    BY <1>5 DEF Phone!Notify, Phone!EndSession, Phone!Expire, Phone!serverVars, Phone!UserOf
  <2>2. \A c \in calls : Pending(c) => \E d \in calls' : Follows(d, c) \/ Pending(d)
    BY <2>1
  <2>3. QED BY <2>1, <2>2, StaysReached
<1>6. QED
  BY <1>1, <1>2, <1>3, <1>4, <1>5, ReachedAnswered, ReachedGoesOn DEF Moved

-----------------------------------------------------------------------------
(* The theorems of the phone *)

\* What holds of the phone at all times.
PhoneInv ==
  /\ PhoneTyped
  /\ InStep /\ AgainIsFresh /\ RefusedIsOver /\ SignedOutIsOver /\ Phone!SignedOutStaysOut
  /\ RowsFollow /\ Reached

LEMMA PhoneBegins == Phone!Init => PhoneInv
<1> SUFFICES ASSUME Phone!Init PROVE PhoneInv
  OBVIOUS
<1>1. owner \in Seq(PhoneUsers) /\ Len(owner) = 0
  BY EmptySeq DEF Phone!Init
<1>2. PhoneTyped
  <2>1. SessionsOK
    BY <1>1 DEF Phone!Init, SessionsOK, Phone!Sessions
  <2>2. TokensOK
    <3>1. token = 1 /\ stored = 0 /\ rows = {}
      BY DEF Phone!Init
    <3>2. 1 \in 1 .. MaxTokens
      OBVIOUS
    <3>3. QED BY <3>1, <3>2 DEF TokensOK
  <2>3. FlagsOK
    <3>1. /\ booting = FALSE /\ crossed = FALSE /\ missed = FALSE /\ listening = {} /\ events = 0
          /\ loose = {}
      BY DEF Phone!Init
    <3>2. 0 \in 0 .. MaxEvents
      OBVIOUS
    <3>3. QED BY <3>1, <3>2 DEF FlagsOK
  <2>4. CallsOK /\ RenewalOK
    BY DEF Phone!Init, CallsOK, RenewalOK
  <2>5. QED BY <2>1, <2>2, <2>3, <2>4 DEF PhoneTyped
<1>3. InStep /\ AgainIsFresh /\ RefusedIsOver /\ SignedOutIsOver /\ Phone!SignedOutStaysOut
  BY DEF Phone!Init, InStep, AgainIsFresh, RefusedIsOver, SignedOutIsOver, Phone!SignedOutStaysOut
<1>4. RowsFollow /\ Reached
  BY DEF Phone!Init, RowsFollow, HasRow, Reached
<1>5. QED BY <1>2, <1>3, <1>4 DEF PhoneInv

LEMMA PhoneGoesOn == PhoneInv /\ Phone!Next => PhoneInv'
<1> SUFFICES ASSUME PhoneInv, Phone!Next PROVE PhoneInv'
  OBVIOUS
<1>1. PhoneTyped /\ Moved /\ InStep /\ AgainIsFresh /\ RefusedIsOver /\ SignedOutIsOver /\ Phone!SignedOutStaysOut
  BY NextMoves DEF PhoneInv
<1>2. RowsFollow /\ Reached
  BY DEF PhoneInv
<1>3. PhoneTyped'
  BY <1>1, SessionsStep, TokensStep, FlagsStep, CallsStep, RenewalStep DEF PhoneTyped
<1>4. InStep' /\ AgainIsFresh'
  BY <1>1, InStepStep, AgainIsFreshStep
<1>5. RefusedIsOver' /\ SignedOutIsOver' /\ Phone!SignedOutStaysOut'
  BY <1>1, RefusedIsOverStep, SignedOutIsOverStep, SignedOutStaysOutStep
<1>6. RowsFollow'
  BY <1>1, <1>2, RowsFollowStep
<1>7. Reached'
  BY <1>1, <1>2, ReachedStep
<1>8. QED BY <1>3, <1>4, <1>5, <1>6, <1>7 DEF PhoneInv

\* When the other scene moves, the phone stays as it is.
LEMMA PhoneRests == PhoneInv /\ UNCHANGED phoneVars => PhoneInv'
<1> SUFFICES ASSUME PhoneInv, UNCHANGED phoneVars PROVE PhoneInv'
  OBVIOUS
<1>1. /\ owner' = owner /\ live' = live /\ jar' = jar /\ shown' = shown /\ booting' = booting
      /\ calls' = calls /\ renewing' = renewing /\ rows' = rows /\ token' = token /\ stored' = stored
      /\ listening' = listening /\ events' = events /\ signedOut' = signedOut /\ unsure' = unsure
      /\ crossed' = crossed /\ loose' = loose /\ missed' = missed
  BY DEF phoneVars
<1>2. PhoneTyped' <=> PhoneTyped
  BY <1>1 DEF PhoneTyped, SessionsOK, TokensOK, FlagsOK, CallsOK, CallOK, RenewalOK, Renewing,
              Registration, Removal, Phone!Sessions, Phone!Call, Phone!Jobs
<1>3. (Phone!SignedOutStaysOut' <=> Phone!SignedOutStaysOut) /\ (InStep' <=> InStep) /\ (AgainIsFresh' <=> AgainIsFresh)
      /\ (RefusedIsOver' <=> RefusedIsOver) /\ (SignedOutIsOver' <=> SignedOutIsOver)
  BY <1>1 DEF Phone!SignedOutStaysOut, InStep, AgainIsFresh, RefusedIsOver, SignedOutIsOver
<1>4. \A r : Phone!UserOf(r)' = Phone!UserOf(r)
  BY <1>1 DEF Phone!UserOf
<1>5. \A w : (HasRow(w)' <=> HasRow(w)) /\ (Claimed(w)' <=> Claimed(w))
  BY <1>1, <1>4 DEF HasRow, Claimed, Claims, Removal
<1>6. \A c, w : Fits(c, w)' <=> Fits(c, w)
  BY <1>1, <1>4 DEF Fits, Removal
<1>7. RowsFollow' <=> RowsFollow
  BY <1>1, <1>4, <1>5, <1>6 DEF RowsFollow, RowOK
<1>8. Reached' <=> Reached
  BY <1>1, <1>4 DEF Reached, Pending, Registration
<1>9. QED BY <1>2, <1>3, <1>7, <1>8 DEF PhoneInv

\* The invariant of the phone holds at all times, whichever scene moves.
THEOREM PhoneInvariant == MCSpec => []PhoneInv
<1>1. MCInit => PhoneInv
  BY PhoneBegins DEF MCInit
<1>2. PhoneInv /\ [MCNext]_<<vars, phoneVars, scene>> => PhoneInv'
  BY PhoneGoesOn, PhoneRests DEF MCNext
<1>3. QED BY <1>1, <1>2, PTL DEF MCSpec

\* With nothing in flight nothing claims the token, so the row is of whom it shows.
LEMMA PushesHold == PhoneInv => PushesFollowTheShown
<1> SUFFICES ASSUME PhoneInv PROVE PushesFollowTheShown
  OBVIOUS
<1>1. RowsFollow /\ Reached
  BY DEF PhoneInv
<1>2. Phone!StrayPushIsExplained
  BY <1>1 DEF Phone!StrayPushIsExplained, RowsFollow, HasRow, RowOK, Claimed
<1>3. Phone!ShownIsReached
  BY <1>1 DEF Phone!ShownIsReached, Reached
<1>4. QED BY <1>2, <1>3 DEF PushesFollowTheShown

LEMMA ShownHold == PhoneInv => PhoneShowsItsSession
<1> SUFFICES ASSUME PhoneInv PROVE PhoneShowsItsSession
  OBVIOUS
<1>1. Phone!ActsAsShown
  BY DEF PhoneInv, InStep, Phone!ActsAsShown
<1>2. Phone!TypeOK /\ Phone!SignedOutStaysOut
  BY PhoneTypedIsTypeOK DEF PhoneInv
<1>3. QED BY <1>1, <1>2 DEF PhoneShowsItsSession

\* For any number of sign-ins, push tokens, lost calls and restarts: the app shows
\* the user whose cookies it sends, unless a renewal crossed a sign-in, and a session
\* that was signed out does not come back (interceptor of api.ts, logout of auth-store.ts).
THEOREM ShownActs == MCSpec => []PhoneShowsItsSession
<1>1. MCSpec => []PhoneInv
  BY PhoneInvariant
<1>2. PhoneInv => PhoneShowsItsSession
  BY ShownHold
<1>3. QED BY <1>1, <1>2, PTL

\* And with nothing in flight the row of the phone's token is that of the user it
\* shows, unless a loss or a race named in `loose` or `missed` came first
\* (push-notifications.ts, upsertUserDeviceToken, removeUserDeviceToken).
THEOREM PushesFollow == MCSpec => []PushesFollowTheShown
<1>1. MCSpec => []PhoneInv
  BY PhoneInvariant
<1>2. PhoneInv => PushesFollowTheShown
  BY PushesHold
<1>3. QED BY <1>1, <1>2, PTL
=============================================================================
