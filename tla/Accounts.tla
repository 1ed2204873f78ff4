------------------------------ MODULE Accounts ------------------------------
(***************************************************************************)
(* One e-mail address and the two systems that know it: the row of `users` *)
(* with its setup token, in the database, and the auth user of Supabase,  *)
(* with the password that counts.  No transaction spans both, so that a    *)
(* creation, a setup by link, a reset, a change of password, a login and   *)
(* a change of status are sequences of calls, of which any may fail and    *)
(* between which others run.  Supabase is modelled from how the code uses  *)
(* it: an update of user_metadata replaces the keys it names.              *)
(***************************************************************************)
EXTENDS Naturals, FiniteSets

CONSTANTS
  Requests,    \* requests in flight
  Kinds,       \* the kinds of request each of them may be
  MaxRequests, \* bound on the requests that ever come
  MaxFaults    \* bound on failed calls and stops of the process

AllKinds == {"create", "setup", "reset", "change", "profile", "status", "login"}

ASSUME AccountsAssumption ==
  /\ Kinds \in [Requests -> SUBSET AllKinds]
  /\ MaxRequests \in Nat /\ MaxFaults \in Nat

VARIABLES
  app,       \* the row of users, and its setup token
  auth,      \* the auth user of Supabase; id 0 when there is none
  req,       \* the requests in flight
  count,     \* requests that came so far; a password is the number of its request
  faults,    \* faults so far
  explained, \* passwords of requests answered with success, or refused by a race or a fault
  closings,  \* times the setup token was spent
  raced,     \* a creation adopted an auth user whose own creation went on
  undone     \* a login that signed in under a revocation overlapped the next one

vars == <<app, auth, req, count, faults, explained, closings, raced, undone>>

-----------------------------------------------------------------------------
(* Shapes *)

UserStatus == {"PENDING", "ACTIVE", "SUSPENDED", "DEACTIVATED"}
NoAuth == [id |-> 0, password |-> 0, temporary |-> FALSE, marker |-> FALSE]
NoToken == {"none", "used"}

\* Locals of a request: the auth user it found and whether it carried the
\* marker session_revoked_at, the password it was to replace, whether it made
\* the auth user or wrote a password, and whether no other request ran beside it.
IdleReq == [pc |-> "idle", kind |-> "none", number |-> 0, target |-> "ACTIVE",
            found |-> 0, marked |-> FALSE, old |-> 0,
            made |-> FALSE, wrote |-> FALSE, alone |-> TRUE]

Request ==
  [pc : {"idle", "find", "createAuth", "updateAuth", "insert", "cleanup", "spend",
         "writeStatus", "mark", "relogin", "map", "provision", "clear", "pending"},
   kind : AllKinds \cup {"none"}, number : 0 .. MaxRequests, target : UserStatus,
   found : 0 .. MaxRequests + 1, marked : BOOLEAN, old : 0 .. MaxRequests,
   made : BOOLEAN, wrote : BOOLEAN, alone : BOOLEAN]

Present == app.status # "absent"
Exists == auth.id # 0
Running(kind) == {r \in Requests : req[r].kind = kind}
Quiet == \A r \in Requests : req[r].pc = "idle"

TypeOK ==
  /\ app \in [status : UserStatus \cup {"absent"}, token : {"none", "open", "expired", "used"}]
  /\ auth \in [id : 0 .. MaxRequests + 1, password : 0 .. MaxRequests,
               temporary : BOOLEAN, marker : BOOLEAN]
  /\ ~ Exists => auth = NoAuth
  /\ req \in [Requests -> Request]
  /\ \A r \in Requests : req[r].pc = "cleanup" => req[r].kind = "create" /\ req[r].made
  /\ count \in 0 .. MaxRequests /\ faults \in 0 .. MaxFaults
  /\ explained \subseteq 0 .. MaxRequests
  /\ closings \in Nat /\ raced \in BOOLEAN /\ undone \in BOOLEAN

\* Supabase may know the address already: an account made in its console.
Init ==
  /\ app = [status |-> "absent", token |-> "none"]
  /\ auth \in {NoAuth, [NoAuth EXCEPT !.id = MaxRequests + 1]}
  /\ req = [r \in Requests |-> IdleReq]
  /\ count = 0 /\ faults = 0
  /\ explained = {0} /\ closings = 0
  /\ raced = FALSE /\ undone = FALSE

-----------------------------------------------------------------------------
(* Requests come and end *)

Set(r, record) == req' = [req EXCEPT ![r] = record]
Goto(r, pc) == Set(r, [req[r] EXCEPT !.pc = pc])

\* A request comes; it and those that run beside it are no longer alone.
Come(r, kind, record) ==
  /\ req[r].pc = "idle" /\ kind \in Kinds[r] /\ count < MaxRequests
  /\ count' = count + 1
  /\ LET others == {q \in Requests \ {r} : req[q].pc # "idle"} IN
     req' = [q \in Requests |->
        IF q = r THEN [record EXCEPT !.kind = kind, !.number = count + 1, !.alone = others = {}]
        ELSE [req[q] EXCEPT !.alone = @ /\ q \notin others]]
  /\ UNCHANGED <<app, auth, faults, explained, closings, raced, undone>>

\* It is answered.  A password it wrote is explained when the answer is a
\* success, or when `excuse` says why the writer was refused.
Answer(r, success, excuse) ==
  /\ Set(r, IdleReq)
  /\ explained' = IF req[r].wrote /\ (success \/ excuse)
                    THEN explained \cup {req[r].number} ELSE explained

Refuse(r) == Answer(r, FALSE, ~ req[r].alone)

-----------------------------------------------------------------------------
(* ensureSupabaseAuthUserForAppUser *)

\* findSupabaseUser, by the id of the app user or by e-mail.  Without a user a
\* creation makes one, all others end: 404, or a warning of PATCH.
FindUser(r) ==
  /\ req[r].pc = "find"
  /\ \/ /\ ~ Exists
        /\ IF req[r].kind = "create"
             THEN Goto(r, "createAuth") /\ UNCHANGED explained
             ELSE Refuse(r)
        /\ UNCHANGED raced
     \/ /\ Exists /\ (req[r].kind = "change" => auth.password = req[r].old)
        /\ Set(r, [req[r] EXCEPT !.pc = "updateAuth", !.found = auth.id, !.marked = auth.marker])
        /\ raced' = (raced \/ /\ req[r].kind = "create"
                              /\ \E q \in Running("create") \ {r} :
                                    req[q].made /\ req[q].found = auth.id)
        /\ UNCHANGED explained
     \/ /\ Exists /\ req[r].kind = "change" /\ auth.password # req[r].old
        /\ Refuse(r)
        /\ UNCHANGED raced
  /\ UNCHANGED <<app, auth, count, faults, closings, undone>>

\* createUser, with a temporary password; Supabase holds an address once.
CreateAuthUser(r) ==
  /\ req[r].pc = "createAuth"
  /\ \/ /\ ~ Exists
        /\ auth' = [id |-> req[r].number, password |-> req[r].number,
                    temporary |-> TRUE, marker |-> FALSE]
        /\ Set(r, [req[r] EXCEPT !.pc = "insert", !.found = req[r].number,
                                 !.made = TRUE, !.wrote = TRUE])
        /\ undone' = (undone \/ Present)
        /\ UNCHANGED explained
     \/ /\ Exists
        /\ Refuse(r)
        /\ UNCHANGED <<auth, undone>>
  /\ UNCHANGED <<app, count, faults, closings, raced>>

\* updateUserById on the user found before.  The metadata, if they are
\* written, are those that were read: a marker that was read is set again.
UpdateAuthUser(r) ==
  /\ req[r].pc = "updateAuth"
  /\ \/ /\ auth.id = req[r].found
        /\ \E metadata \in BOOLEAN :
              auth' = [auth EXCEPT
                 !.password = IF req[r].kind = "profile" THEN @ ELSE req[r].number,
                 !.temporary = IF req[r].kind = "profile" THEN @ ELSE req[r].kind = "create",
                 !.marker = @ \/ (metadata /\ req[r].kind # "change" /\ req[r].marked)]
        /\ IF req[r].kind = "profile"
             THEN Set(r, IdleReq)
             ELSE Set(r, [req[r] EXCEPT !.wrote = TRUE,
                            !.pc = CASE req[r].kind = "create" -> "insert"
                                     [] req[r].kind = "change" -> "relogin"
                                     [] OTHER -> "spend"])
        /\ UNCHANGED explained
     \/ /\ auth.id # req[r].found
        /\ Refuse(r)
        /\ UNCHANGED auth
  /\ UNCHANGED <<app, count, faults, closings, raced, undone>>

-----------------------------------------------------------------------------
(* POST /users *)

\* Nothing looks for the address before Supabase is asked.
StartCreate(r) == Come(r, "create", [IdleReq EXCEPT !.pc = "find"])

\* MUTANT of InsertUser: the cleanup does not ask who made the auth user.
InsertUserCleaningUp(r) ==
  /\ req[r].pc = "insert"
  /\ \/ /\ ~ Present
        /\ app' = [status |-> "PENDING", token |-> "open"]
        /\ closings' = 0
        /\ Answer(r, TRUE, FALSE)
     \/ /\ Present
        /\ Set(r, [req[r] EXCEPT !.pc = "cleanup", !.made = TRUE])
        /\ UNCHANGED <<app, closings, explained>>
  /\ UNCHANGED <<auth, count, faults, raced, undone>>

\* The transaction inserts the user, its mappings and the setup token.  The
\* address is unique: a second one is refused, after its temporary password
\* has replaced the one of the account that exists.
InsertUser(r) ==
  /\ req[r].pc = "insert"
  /\ \/ /\ ~ Present
        /\ app' = [status |-> "PENDING", token |-> "open"]
        /\ closings' = 0
        /\ Answer(r, TRUE, FALSE)
     \/ /\ Present
        /\ IF req[r].made THEN Goto(r, "cleanup") /\ UNCHANGED explained
                          ELSE Answer(r, FALSE, TRUE)
        /\ UNCHANGED <<app, closings>>
  /\ UNCHANGED <<auth, count, faults, raced, undone>>

\* removeSupabaseAuthUser, of the user this request made.
RemoveAuthUser(r) ==
  /\ req[r].pc = "cleanup"
  /\ auth' = IF auth.id = req[r].found THEN NoAuth ELSE auth
  /\ Refuse(r)
  /\ UNCHANGED <<app, count, faults, closings, raced, undone>>

-----------------------------------------------------------------------------
(* POST /setup-password and POST /users/:id/reset-password *)

StartSetup(r) ==
  /\ app.token = "open" /\ app.status # "DEACTIVATED"
  /\ Come(r, "setup", [IdleReq EXCEPT !.pc = "find"])

StartReset(r) ==
  /\ Present
  /\ Come(r, "reset", [IdleReq EXCEPT !.pc = "find"])

\* The token expires; a setup that has read it goes on.
ExpireToken ==
  /\ app.token = "open"
  /\ app' = [app EXCEPT !.token = "expired"]
  /\ UNCHANGED <<auth, req, count, faults, explained, closings, raced, undone>>

Spend ==
  /\ app' = [app EXCEPT !.token = "used"]
  /\ closings' = closings + 1

\* MUTANT of CommitSetup: update, where the code counts what updateMany found.
CommitSetupUncounted(r) ==
  /\ req[r].pc = "spend" /\ req[r].kind = "setup"
  /\ Spend
  /\ Answer(r, TRUE, FALSE)
  /\ UNCHANGED <<auth, count, faults, raced, undone>>

\* The transaction of a setup spends the token, or finds it spent and
\* rolls back: 400, and the password is changed all the same.
CommitSetup(r) ==
  /\ req[r].pc = "spend" /\ req[r].kind = "setup"
  /\ \/ app.token \notin NoToken /\ Spend /\ Answer(r, TRUE, FALSE)
     \/ app.token \in NoToken /\ Refuse(r) /\ UNCHANGED <<app, closings>>
  /\ UNCHANGED <<auth, count, faults, raced, undone>>

\* The transaction of a reset spends all tokens that are left.
CommitReset(r) ==
  /\ req[r].pc = "spend" /\ req[r].kind = "reset"
  /\ \/ app.token \notin NoToken /\ Spend
     \/ app.token \in NoToken /\ UNCHANGED <<app, closings>>
  /\ Goto(r, "mark")
  /\ UNCHANGED <<auth, count, faults, explained, raced, undone>>

-----------------------------------------------------------------------------
(* Status, revocation, login *)

\* changeUserStatus; its count of leads is part of LeadIntake.
StartStatus(r) ==
  /\ Present
  /\ \E s \in UserStatus \ {"PENDING"} :
        Come(r, "status", [IdleReq EXCEPT !.pc = "writeStatus", !.target = s])

WriteStatus(r) ==
  /\ req[r].pc = "writeStatus"
  /\ app' = [app EXCEPT !.status = req[r].target]
  /\ IF req[r].target = "ACTIVE" THEN Set(r, IdleReq) ELSE Goto(r, "mark")
  /\ UNCHANGED <<auth, count, faults, explained, closings, raced, undone>>

\* A login that has signed in under a revocation and will clear the marker.
Clearing == {q \in Requests : req[q].pc \in {"map", "clear"} /\ req[q].marked}

\* revokeAllUserRefreshSessions marks the auth user.
MarkRevoked(r) ==
  /\ req[r].pc = "mark"
  /\ auth' = [auth EXCEPT !.marker = Exists]
  /\ undone' = (~ Exists \/ Clearing # {})
  /\ Answer(r, TRUE, FALSE)
  /\ UNCHANGED <<app, count, faults, closings, raced>>

\* login: signInWithPassword, by someone who was told the password.
StartLogin(r) ==
  /\ Exists /\ ~ auth.temporary
  /\ Come(r, "login", [IdleReq EXCEPT !.pc = "map", !.marked = auth.marker])

\* MUTANT of MapUser: the marker is cleared whatever the status is.
MapAnyUser(r) ==
  /\ req[r].pc = "map"
  /\ IF Present THEN Goto(r, "clear") ELSE Goto(r, "provision")
  /\ UNCHANGED <<app, auth, count, faults, explained, closings, raced, undone>>

\* mapSupabaseUserToAppUser and the checks of the status.
MapUser(r) ==
  /\ req[r].pc = "map"
  /\ IF ~ Present THEN Goto(r, "provision")
     ELSE IF app.status = "ACTIVE" THEN Goto(r, "clear") ELSE Set(r, IdleReq)
  /\ UNCHANGED <<app, auth, count, faults, explained, closings, raced, undone>>

\* Without an app user one is upserted from the auth user: over one that was
\* inserted meanwhile.
Provision(r) ==
  /\ req[r].pc = "provision"
  /\ \E s \in {"ACTIVE", "SUSPENDED"} :
        /\ app' = [app EXCEPT !.status = s]
        /\ undone' = (undone \/ s # "ACTIVE")
        /\ IF s = "ACTIVE" THEN Goto(r, "clear") ELSE Set(r, IdleReq)
  /\ UNCHANGED <<auth, count, faults, explained, closings, raced>>

\* clearSessionRevocationMarker, as the metadata were at the sign-in.
ClearMarker(r) ==
  /\ req[r].pc = "clear"
  /\ auth' = [auth EXCEPT !.marker = @ /\ ~ req[r].marked]
  /\ Goto(r, "pending")
  /\ UNCHANGED <<app, count, faults, explained, closings, raced, undone>>

\* POST /login answers 403 while a setup link is open; either way it ends.
FinishLogin(r) ==
  /\ req[r].pc = "pending"
  /\ Set(r, IdleReq)
  /\ UNCHANGED <<app, auth, count, faults, explained, closings, raced, undone>>

-----------------------------------------------------------------------------
(* POST /change-password and PATCH /users/:id *)

StartChange(r) ==
  /\ app.status = "ACTIVE" /\ ~ auth.temporary
  /\ Come(r, "change", [IdleReq EXCEPT !.pc = "find", !.old = auth.password])

\* The new password is tried before the answer; the row of users keeps the
\* hash of the old one.
Relogin(r) ==
  /\ req[r].pc = "relogin"
  /\ IF auth.password = req[r].number /\ app.status = "ACTIVE"
       THEN Answer(r, TRUE, FALSE) ELSE Refuse(r)
  /\ UNCHANGED <<app, auth, count, faults, closings, raced, undone>>

\* The transaction of PATCH changes no column of this model; then the auth
\* user is brought in line.
StartProfile(r) ==
  /\ Present
  /\ Come(r, "profile", [IdleReq EXCEPT !.pc = "find"])

-----------------------------------------------------------------------------
(* Failures *)

\* A call fails, and a creation tidies up before it answers 500 ...
FailInsert(r) ==
  /\ faults < MaxFaults /\ faults' = faults + 1
  /\ req[r].pc = "insert" /\ req[r].made
  /\ Goto(r, "cleanup")
  /\ UNCHANGED <<app, auth, count, explained, closings, raced, undone>>

\* ... or the process stops, or a call fails that nothing makes good.
Stop(r) ==
  /\ faults < MaxFaults /\ faults' = faults + 1
  /\ req[r].pc # "idle"
  /\ undone' = (undone \/ req[r].pc = "mark")
  /\ Answer(r, FALSE, TRUE)
  /\ UNCHANGED <<app, auth, count, closings, raced>>

Start(r) ==
  \/ StartCreate(r) \/ StartSetup(r) \/ StartReset(r) \/ StartStatus(r)
  \/ StartLogin(r) \/ StartChange(r) \/ StartProfile(r)

Advance(r) ==
  \/ FindUser(r) \/ CreateAuthUser(r) \/ UpdateAuthUser(r) \/ InsertUser(r)
  \/ RemoveAuthUser(r) \/ CommitSetup(r) \/ CommitReset(r) \/ WriteStatus(r)
  \/ MarkRevoked(r) \/ MapUser(r) \/ Provision(r) \/ ClearMarker(r)
  \/ FinishLogin(r) \/ Relogin(r)

Next ==
  \/ ExpireToken
  \/ \E r \in Requests : Start(r) \/ Advance(r) \/ FailInsert(r) \/ Stop(r)

Spec == Init /\ [][Next]_vars

-----------------------------------------------------------------------------
(* What the two systems promise together *)

\* An account keeps an auth user to sign in with: a creation that fails
\* removes the auth user it made, never one it found, unless another creation
\* of the address adopted what it was about to remove.
AccountKeepsItsSignIn == Present /\ ~ raced => Exists

\* The password in Supabase is one whose request was answered with success,
\* save where a fault, a request beside it or a creation for a taken address
\* explains that its writer was refused: a link that is spent changes nothing.
PasswordIsAnswered == Quiet /\ Exists => auth.password \in explained

\* A setup link is spent once, by a setup or by a reset.
SetupTokenUsedOnce == closings <= 1

\* The sessions of a suspended or deactivated user stay revoked: only a login
\* that signed in under an earlier revocation, a fault or a new auth user can
\* take the marker away.
RevokedStaysRevoked ==
  /\ Quiet /\ Exists /\ ~ undone
  /\ app.status \in {"SUSPENDED", "DEACTIVATED"}
  => auth.marker

\* What every state is like: the account can sign in, with a password that was
\* answered for.
SignInIsSound == TypeOK /\ AccountKeepsItsSignIn /\ PasswordIsAnswered
=============================================================================
