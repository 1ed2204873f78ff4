---------------------------- MODULE PhoneSession ----------------------------
(***************************************************************************)
(* Who is signed in on a phone, as four places know it: the store of the   *)
(* app (`shown`), its cookies (`jar`), the sessions of Supabase and the    *)
(* rows of user_device_tokens, by which pushes find the phone.  Everything *)
(* the app asks of the API passes one interceptor, which renews the        *)
(* session once for all calls that meet a 401 together.  The effects of    *)
(* App.tsx that follow the user of the store start the bootstrap and the   *)
(* push token's registration again on every change.                        *)
(* Two equal calls in flight count as one; an answer and the cookies it    *)
(* sets arrive together with what the server does, a renewal apart.        *)
(***************************************************************************)
EXTENDS Naturals, Sequences, FiniteSets

CONSTANTS
  Users,      \* field executives who use the phone
  MaxSignIns, \* bound on the sign-ins
  MaxTokens,  \* bound on the push tokens FCM gives to the phone
  MaxEvents   \* bound on lost calls, kills of the app, and what the world does to it

VARIABLES
  owner,     \* the user of each session Supabase ever opened for this phone
  live,      \* the sessions that are not over
  jar,       \* the cookies: a session, or 0, and whether the access token is fresh
  shown,     \* the session whose user the store shows, or 0
  booting,   \* isBootstrapping
  calls,     \* calls of the app in flight
  renewing,  \* isRefreshing
  rows,      \* user_device_tokens: pairs of a user and a push token
  token,     \* the push token FCM gives to the phone now
  stored,    \* the token the phone remembers to have registered, or 0
  listening, \* subscriptions to onTokenRefresh: of the shown user, or leaked
  events,
  signedOut, \* sessions whose sign-out ended
  unsure,    \* those of them for which the call of sign-out was lost
  crossed,   \* a renewal was answered after a sign-in or in another session
  loose,     \* users of whom a race or a loss may have left the token registered
  missed     \* the last registration may not stand

vars == <<owner, live, jar, shown, booting, calls, renewing, rows, token, stored,
          listening, events, signedOut, unsure, crossed, loose, missed>>

serverVars == <<owner, live, rows>>
signVars == <<signedOut, unsure>>
-----------------------------------------------------------------------------
(* Shapes *)

Sessions == 1 .. Len(owner)
UserOf(s) == IF s = 0 THEN "nobody" ELSE owner[s]
OwnersOf(tok) == {u \in Users : <<u, tok>> \in rows}

\* fetchAuthenticatedUser, its repetition after bootstrap's own renewal, the
\* registration of a push token and, of sign-out, its two calls.
Jobs == {"me", "renew", "meAgain", "register", "reregister", "unregister",
         "forget", "signOut"}
\* `tok` is the push token a call is about, `of` the session that was shown
\* when a sign-out began, `with` the session a renewal was sent in;
\* `mounted` is false when its effect has been cleaned up.
Call == [job : Jobs, at : {"send", "renew", "wait", "again", "refused", "lost"},
         tok : 0 .. MaxTokens, of : 0 .. MaxSignIns, with : 0 .. MaxSignIns,
         mounted : BOOLEAN]
NewCall(job, tok, of) ==
  [job |-> job, at |-> "send", tok |-> tok, of |-> of, with |-> 0, mounted |-> TRUE]

TypeOK ==
  /\ owner \in Seq(Users) /\ Len(owner) <= MaxSignIns
  /\ live \subseteq Sessions
  /\ jar \in [session : 0 .. Len(owner), fresh : BOOLEAN]
  /\ shown \in 0 .. Len(owner) /\ booting \in BOOLEAN
  /\ calls \subseteq Call
  /\ renewing <=> \E c \in calls : c.at = "renew" /\ c.job # "renew"
  /\ rows \subseteq Users \X (1 .. MaxTokens)
  /\ token \in 1 .. MaxTokens /\ stored \in 0 .. MaxTokens
  /\ listening \subseteq {"shown", "leaked"}
  /\ events \in 0 .. MaxEvents
  /\ unsure \subseteq signedOut /\ signedOut \subseteq Sessions
  /\ crossed \in BOOLEAN /\ loose \subseteq Users /\ missed \in BOOLEAN

\* The app is open and nobody has signed in on the phone.
Init ==
  /\ owner = <<>> /\ live = {} /\ jar = [session |-> 0, fresh |-> FALSE]
  /\ shown = 0 /\ booting = FALSE /\ calls = {} /\ renewing = FALSE
  /\ rows = {} /\ token = 1 /\ stored = 0 /\ listening = {}
  /\ events = 0 /\ signedOut = {} /\ unsure = {} /\ crossed = FALSE
  /\ loose = {} /\ missed = FALSE

-----------------------------------------------------------------------------
(* The store and the effects of App.tsx *)

\* What runs when the store shows another user: the effects are cleaned up, the
\* bootstrap runs again, and the push token is registered or, with nobody, the
\* one that is remembered is removed.
Effects(others, signed, remembered) ==
  {[c EXCEPT !.mounted = @ /\ c.job # "register"] : c \in others}
    \cup {NewCall("me", 0, 0)}
    \cup (IF signed THEN {NewCall("register", token, 0)}
          ELSE IF remembered # 0 THEN {NewCall("unregister", remembered, 0)} ELSE {})

\* set({ user }), and isBootstrapping when a bootstrap ends with it.
Show(s, others, remembered, ends) ==
  /\ shown' = s
  /\ IF UserOf(s) = UserOf(shown)
       THEN calls' = others /\ booting' = (booting /\ ~ ends) /\ UNCHANGED listening
       ELSE /\ calls' = Effects(others, s # 0, remembered)
            /\ booting' = TRUE
            /\ listening' = listening \ {"shown"}

\* login.  The cookies are those of the new session, whatever they were.
SignIn(u) ==
  /\ shown = 0 /\ ~ booting /\ Len(owner) < MaxSignIns
  /\ owner' = Append(owner, u)
  /\ live' = live \cup {Len(owner')}
  /\ jar' = [session |-> Len(owner'), fresh |-> TRUE]
  /\ shown' = Len(owner') /\ booting' = TRUE
  /\ calls' = Effects(calls, TRUE, 0) /\ listening' = listening \ {"shown"}
  /\ UNCHANGED <<renewing, rows, token, stored, events, signVars, crossed, loose, missed>>

\* logout clears the store whatever became of its calls.  A sign-out that was
\* lost on the way leaves the session as it was.
EndSignOut(c, others, lost) ==
  /\ Show(0, others, stored, FALSE)
  /\ signedOut' = signedOut \cup {c.of}
  /\ unsure' = IF lost THEN unsure \cup {c.of} ELSE unsure

\* MUTANT of StartSignOut: the push token is left where it is.
StartSignOutAtOnce(s) == NewCall("signOut", 0, s)

\* logout begins with unregisterCurrentPushToken, when a token is remembered.
StartSignOut(s) ==
  IF stored # 0 THEN NewCall("forget", stored, s) ELSE NewCall("signOut", 0, s)

\* MUTANT of TapSignOut: the store is cleared before its calls are answered.
TapSignOutUnawaited ==
  /\ shown # 0 /\ ~ booting
  /\ ~ \E c \in calls : c.job \in {"forget", "signOut"}
  /\ EndSignOut(NewCall("signOut", 0, shown), calls \cup {StartSignOut(shown)}, FALSE)
  /\ UNCHANGED <<serverVars, jar, renewing, token, stored, events, crossed, loose, missed>>

TapSignOut ==
  /\ shown # 0 /\ ~ booting
  /\ ~ \E c \in calls : c.job \in {"forget", "signOut"}
  /\ calls' = calls \cup {StartSignOut(shown)}
  /\ UNCHANGED <<serverVars, jar, shown, booting, renewing, token, stored, listening,
                 events, signVars, crossed, loose, missed>>

-----------------------------------------------------------------------------
(* The interceptor: a call is answered, refused, or lost *)

Event == events < MaxEvents /\ events' = events + 1

Authorised == jar.session \in live /\ jar.fresh

\* upsertUserDeviceToken takes the token from everybody else.
Registered(u, tok) == {r \in rows : r[2] # tok} \cup {<<u, tok>>}
\* removeUserDeviceToken, of the user the cookies name.
Removed(u, tok) == rows \ {<<u, tok>>}
\* Those whose row no call with the cookies of somebody else removes.
OutOfReach(tok) == {u \in OwnersOf(tok) : jar.session # 0 /\ u # UserOf(jar.session)}

\* initializePushNotifications subscribes after its registration, whether that
\* succeeded or not; when the user has changed meanwhile nobody unsubscribes.
Subscribed(c) ==
  IF c.job = "register" THEN listening \cup {IF c.mounted THEN "shown" ELSE "leaked"}
                        ELSE listening

\* Something else is about to remove the token, or to sign the user out.
Contended(others) ==
  \/ shown # jar.session
  \/ \E c \in others : c.job \in {"unregister", "forget", "signOut"}

\* POST /logout: revokeRefreshToken, and the cookies are cleared.
SessionClosed == live' = live \ {jar.session} /\ jar' = [session |-> 0, fresh |-> FALSE]

\* The API does what it was asked for.
Answered(c) ==
  LET others == calls \ {c}
      holder == UserOf(jar.session)
  IN
  /\ c \in calls /\ c.at \in {"send", "again"} /\ Authorised
  /\ \/ /\ c.job \in {"me", "meAgain"}
        /\ Show(jar.session, others, stored, TRUE)
        /\ UNCHANGED <<live, jar, rows, stored, signVars, loose, missed>>
     \/ /\ c.job \in {"register", "reregister"}
        /\ rows' = Registered(holder, c.tok) /\ stored' = c.tok
        /\ missed' = (Contended(others) \/ c.tok # token)
        /\ loose' = IF missed' THEN loose \cup {holder} \cup OutOfReach(token)
                              ELSE loose \ {holder}
        /\ listening' = Subscribed(c) /\ calls' = others
        /\ UNCHANGED <<live, jar, shown, booting, signVars>>
     \/ /\ c.job = "unregister"
        /\ rows' = Removed(holder, c.tok) /\ stored' = 0 /\ calls' = others
        /\ loose' = loose \cup OutOfReach(c.tok)
        /\ UNCHANGED <<live, jar, shown, booting, listening, signVars, missed>>
     \/ /\ c.job = "forget"
        /\ rows' = Removed(holder, c.tok) /\ stored' = 0
        /\ calls' = others \cup {NewCall("signOut", 0, c.of)}
        /\ loose' = loose \cup OutOfReach(c.tok)
        /\ UNCHANGED <<live, jar, shown, booting, listening, signVars, missed>>
     \/ /\ c.job = "signOut"
        /\ SessionClosed
        /\ EndSignOut(c, others, FALSE)
        /\ UNCHANGED <<rows, stored, loose, missed>>
  /\ UNCHANGED <<owner, renewing, token, events, crossed>>

\* A 401.  The first call that meets one renews the session, others wait for
\* it; a call that was repeated already is rejected.
Refused(c) ==
  /\ c \in calls /\ c.at \in {"send", "again"} /\ ~ Authorised
  /\ calls' = (calls \ {c}) \cup
       {IF c.at = "again" THEN [c EXCEPT !.at = "refused"]
        ELSE IF renewing THEN [c EXCEPT !.at = "wait"]
        ELSE [c EXCEPT !.at = "renew", !.with = jar.session]}
  /\ renewing' = (renewing \/ c.at = "send")
  /\ UNCHANGED <<serverVars, jar, shown, booting, token, stored, listening, events,
                 signVars, crossed, loose, missed>>

\* No answer comes; the API may have done its part.
Lost(c) ==
  LET holder == UserOf(jar.session) IN
  /\ c \in calls /\ c.at \in {"send", "again"} /\ Event
  /\ calls' = (calls \ {c}) \cup {[c EXCEPT !.at = "lost"]}
  /\ \/ UNCHANGED <<live, rows>>
     \/ /\ Authorised /\ c.job \in {"register", "reregister"}
        /\ rows' = Registered(holder, c.tok) /\ UNCHANGED live
     \/ /\ Authorised /\ c.job \in {"unregister", "forget"}
        /\ rows' = Removed(holder, c.tok) /\ UNCHANGED live
     \/ /\ Authorised /\ c.job = "signOut"
        /\ live' = live \ {jar.session} /\ UNCHANGED rows
  /\ loose' = loose \cup OwnersOf(c.tok)
                \cup (IF Authorised /\ c.job \in {"register", "reregister"} THEN {holder} ELSE {})
  /\ UNCHANGED <<owner, jar, shown, booting, renewing, token, stored, listening,
                 signVars, crossed, missed>>

\* A call is rejected: what its caller does then.
Rejected(c) ==
  LET others == calls \ {c} IN
  /\ c \in calls /\ c.at \in {"refused", "lost"}
  /\ \/ /\ c.job = "me"
        /\ calls' = others \cup {[NewCall("renew", 0, 0) EXCEPT !.at = "renew",
                                                               !.with = jar.session]}
        /\ UNCHANGED <<shown, booting, stored, listening, signVars, missed>>
     \/ /\ c.job \in {"renew", "meAgain"}
        /\ Show(0, others, stored, TRUE)
        /\ UNCHANGED <<stored, signVars, missed>>
     \/ /\ c.job \in {"register", "reregister"}
        /\ calls' = others /\ listening' = Subscribed(c) /\ missed' = TRUE
        /\ UNCHANGED <<shown, booting, stored, signVars>>
     \/ /\ c.job = "unregister"
        /\ calls' = others /\ stored' = 0
        /\ UNCHANGED <<shown, booting, listening, signVars, missed>>
     \/ /\ c.job = "forget"
        /\ calls' = others \cup {NewCall("signOut", 0, c.of)} /\ stored' = 0
        /\ UNCHANGED <<shown, booting, listening, signVars, missed>>
     \/ /\ c.job = "signOut"
        /\ EndSignOut(c, others, c.at = "lost")
        /\ UNCHANGED <<stored, missed>>
  /\ loose' = loose \cup OutOfReach(c.tok)
  /\ UNCHANGED <<serverVars, jar, renewing, token, events, crossed>>

-----------------------------------------------------------------------------
(* POST /refresh *)

\* Those that wait for the renewal of `c`, and `c`, go on.
Resumed(c, at) ==
  {IF d = c \/ d.at = "wait" THEN [d EXCEPT !.at = at, !.with = 0] ELSE d : d \in calls}

\* rotateRefreshToken renews a session that is not over.
Rotates(c) == c.at = "renew" /\ c.with \in live

\* The answer replaces the cookies.
Renewed(c) ==
  /\ c \in calls /\ Rotates(c)
  /\ jar' = [session |-> c.with, fresh |-> TRUE]
  /\ crossed' = (crossed \/ jar.session # c.with)
  /\ IF c.job = "renew"
       THEN calls' = (calls \ {c}) \cup {NewCall("meAgain", 0, 0)} /\ UNCHANGED renewing
       ELSE calls' = Resumed(c, "again") /\ renewing' = FALSE
  /\ UNCHANGED <<serverVars, shown, booting, token, stored, listening, events, signVars,
                 loose, missed>>

\* The session is over, or no answer comes.  For a call of the interceptor,
\* handleAuthFailure signs the store out and forgets the push token.
NotRenewed(c) ==
  /\ c \in calls /\ c.at = "renew"
  /\ \E lost \in BOOLEAN :
       LET at == IF lost THEN "lost" ELSE "refused" IN
       /\ IF lost THEN Event ELSE c.with \notin live /\ UNCHANGED events
       /\ IF c.job = "renew"
            THEN /\ calls' = (calls \ {c}) \cup {[c EXCEPT !.at = at]}
                 /\ UNCHANGED <<shown, booting, renewing, stored, listening, crossed, loose>>
            ELSE /\ Show(0, Resumed(c, at), 0, FALSE)
                 /\ renewing' = FALSE /\ stored' = 0
                 /\ crossed' = (crossed \/ jar.session # c.with)
                 /\ loose' = loose \cup (IF lost \/ jar.session # c.with
                                          THEN OwnersOf(token) ELSE OutOfReach(token))
  /\ UNCHANGED <<serverVars, jar, token, signVars, missed>>

-----------------------------------------------------------------------------
(* What happens around *)

\* The cookie of the access token goes after fifteen minutes; a renewal and the
\* calls repeated after it end, or time out, long before.
Expire ==
  /\ jar.fresh /\ Event /\ \A c \in calls : c.at \notin {"renew", "again"}
  /\ jar' = [jar EXCEPT !.fresh = FALSE]
  /\ UNCHANGED <<serverVars, shown, booting, calls, renewing, token, stored, listening,
                 signVars, crossed, loose, missed>>

\* An administrator blocks the account or revokes its sessions: requireAuth and
\* rotateRefreshToken refuse from then on.
EndSession(s) ==
  /\ s \in live /\ Event /\ live' = live \ {s}
  /\ loose' = loose \cup {owner[s]}
  /\ UNCHANGED <<owner, rows, jar, shown, booting, calls, renewing, token, stored,
                 listening, signVars, crossed, missed>>

\* The app is killed and opened again: the store begins with nobody, for whom
\* the effects run before bootstrap has asked who is signed in.
Reopen ==
  /\ Event /\ shown' = 0 /\ booting' = TRUE /\ renewing' = FALSE /\ listening' = {}
  /\ calls' = Effects({}, FALSE, stored)
  /\ UNCHANGED <<serverVars, jar, token, stored, signVars, crossed, loose, missed>>

\* FCM gives the phone another token; whoever listens registers it.
Rotate ==
  /\ token < MaxTokens /\ Event /\ token' = token + 1
  /\ IF listening = {} THEN missed' = TRUE /\ UNCHANGED calls
     ELSE calls' = calls \cup {NewCall("reregister", token', 0)} /\ UNCHANGED missed
  /\ UNCHANGED <<serverVars, jar, shown, booting, renewing, stored, listening, signVars,
                 crossed, loose>>

\* processInternalNotification: a push goes to the tokens of a user, and those
\* FCM does not know any more are removed.
Notify(u) ==
  /\ \E t \in 1 .. token - 1 : <<u, t>> \in rows
  /\ rows' = {r \in rows : r[1] = u => r[2] = token}
  /\ UNCHANGED <<owner, live, jar, shown, booting, calls, renewing, token, stored,
                 listening, events, signVars, crossed, loose, missed>>

\* What a rejection sets off runs before the app takes anything else up.
Settled == \A c \in calls : c.at \notin {"refused", "lost"}

Next ==
  \/ \E c \in calls : Rejected(c)
  \/ /\ Settled
     /\ \/ \E u \in Users : SignIn(u) \/ Notify(u)
        \/ \E c \in calls : Answered(c) \/ Refused(c) \/ Lost(c) \/ Renewed(c) \/ NotRenewed(c)
        \/ \E s \in live : EndSession(s)
        \/ TapSignOut \/ Expire \/ Reopen \/ Rotate

Spec == Init /\ [][Next]_vars

-----------------------------------------------------------------------------
(* Properties *)

\* The user the app shows is the one whose cookies it sends, so that what is
\* queued and read offline goes under that name: unless a renewal sent before a
\* sign-in was answered after it (interceptor of api.ts, login of auth-store.ts).
ActsAsShown ==
  shown # 0 /\ jar.session # 0 /\ ~ crossed => UserOf(jar.session) = UserOf(shown)

\* Once a sign-out has ended, the bootstrap that follows it does not bring its
\* session back, unless its call was lost on the way, or a renewal crossed it
\* (logout of auth-store.ts, POST /logout).
SignedOutStaysOut == shown \in signedOut => shown \in unsure \/ crossed

\* When nothing is in flight, a phone gets no pushes of somebody it does not
\* show, unless a call was lost, a registration met a removal, the session ended
\* elsewhere, or the next user's cookies were sent instead, so that the token could
\* not be removed (unregisterCurrentPushToken, handleAuthFailure).
StrayPushIsExplained ==
  calls = {} =>
    \A u \in Users : <<u, token>> \in rows /\ u # UserOf(shown) => u \in loose

\* When nothing is in flight, the one it shows is reached by pushes, unless the
\* last registration failed, came under a removal or was overtaken by a new
\* token (initializePushNotifications).
ShownIsReached ==
  calls = {} /\ shown # 0 /\ ~ missed => <<UserOf(shown), token>> \in rows
=============================================================================
