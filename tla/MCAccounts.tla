----------------------------- MODULE MCAccounts -----------------------------
(***************************************************************************)
(* How people sign in, each at rest while the other moves: one account,    *)
(* where what administrators ask for meets what its owner does; and one    *)
(* phone, which its users use in turn.                                     *)
(***************************************************************************)
EXTENDS Accounts, TLC

CONSTANTS r1, r2, PhoneUsers, FirstUser, MaxSignIns, MaxTokens, MaxEvents

ASSUME PhoneAssumption ==
  /\ "nobody" \notin PhoneUsers
  /\ MaxSignIns \in Nat /\ MaxTokens \in Nat \ {0} /\ MaxEvents \in Nat

VARIABLES owner, live, jar, shown, booting, calls, renewing, rows, token, stored,
          listening, events, signedOut, unsure, crossed, loose, missed,
          scene \* what moves: "account" or "phone"

phoneVars == <<owner, live, jar, shown, booting, calls, renewing, rows, token, stored,
               listening, events, signedOut, unsure, crossed, loose, missed>>

Phone == INSTANCE PhoneSession WITH Users <- PhoneUsers

MCKinds == r1 :> {"create", "status", "reset", "profile", "setup"} @@
           r2 :> {"create", "setup", "login", "change", "status"}

\* Supabase may know the address already: that matters for the account only.
MCInit ==
  /\ Init /\ Phone!Init
  /\ scene \in {"account", "phone"}
  /\ scene = "phone" => auth = NoAuth

\* Nothing tells the users apart: the first to sign in is always the same.
MCNext ==
  /\ UNCHANGED scene
  /\ \/ scene = "account" /\ Next /\ UNCHANGED phoneVars
     \/ scene = "phone" /\ Phone!Next /\ UNCHANGED vars /\ (owner' # <<>> => owner'[1] = FirstUser)

MCSpec == MCInit /\ [][MCNext]_<<vars, phoneVars, scene>>

\* The app shows the user whose cookies it sends, and a session that was signed
\* out does not come back.
PhoneShowsItsSession == Phone!TypeOK /\ Phone!ActsAsShown /\ Phone!SignedOutStaysOut

\* Pushes reach the user the phone shows, and somebody else for a reason only.
PushesFollowTheShown == Phone!StrayPushIsExplained /\ Phone!ShownIsReached
=============================================================================
