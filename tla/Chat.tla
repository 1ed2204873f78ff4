--------------------------------- MODULE Chat ---------------------------------
(***************************************************************************)
(* A conversation of two users.  The server creates it once for both, and  *)
(* keeps messages, their order and what each user has read; the screens    *)
(* poll the messages, show a message that is being sent before it is       *)
(* stored, and mark as read what they have loaded.  A message is created   *)
(* at one time and committed later, requests and answers take time, and a  *)
(* lead chat may be closed to a user.  A message is the number of its      *)
(* creation, which is also the clock; a page of fifty messages holds all.  *)
(***************************************************************************)
EXTENDS Naturals, FiniteSets, FiniteSetsExt

CONSTANTS
  Users,       \* the two participants
  Watchers,    \* those whose screens are followed; the others only write
  MaxMessages, \* bound on the messages that are created
  MaxTexts,    \* bound on the texts that are typed
  MaxFaults    \* bound on failed requests, withdrawn access and screens left

Messages == 1 .. MaxMessages
Texts == 1 .. MaxTexts

VARIABLES
  chat,    \* the conversation: does it exist, last_message_at, last_read_at
  msgs,    \* chat_messages, by creation
  access,  \* may the user see the lead of the conversation
  screen,  \* the thread screen of each user
  send,    \* the request that sends a message
  loads,   \* the two newest requests for messages
  marking, \* is a request to mark the conversation read under way
  seen,    \* messages a screen of the user has shown
  raced,   \* messages that came too late to be shown and early enough to be read
  typed, excess, dropped, \* texts typed, copies by lost answers, texts thrown away
  unmarked, \* users whose mark failed or was set back
  faults

vars == <<chat, msgs, access, screen, send, loads, marking, seen, raced,
          typed, excess, dropped, unmarked, faults>>

-----------------------------------------------------------------------------
(* Shapes *)

NoMessage == [by |-> "none", text |-> 0, state |-> "none"]
NoSend == [pc |-> "idle", text |-> 0, number |-> 0, now |-> 0, gone |-> FALSE]
NoLoad == [pc |-> "none", messages |-> {}]
NewLoad == [pc |-> "asked", messages |-> {}]
NoScreen == [at |-> "list", shown |-> {}, bubble |-> FALSE, composer |-> 0, marked |-> 0]

TypeOK ==
  /\ chat \in [exists : BOOLEAN, lastMessageAt : 0 .. MaxMessages,
               lastReadAt : [Users -> 0 .. MaxMessages]]
  /\ msgs \in [Messages -> [by : Users \cup {"none"}, text : 0 .. MaxTexts,
                            state : {"none", "open", "stored", "aborted"}]]
  /\ access \in [Users -> BOOLEAN]
  /\ screen \in [Users -> [at : {"list", "creating", "thread"}, shown : SUBSET Messages,
                           bubble : BOOLEAN, composer : 0 .. MaxTexts, marked : 0 .. MaxMessages]]
  /\ send \in [Users -> [pc : {"idle", "asked", "insert", "update", "stored"}, text : 0 .. MaxTexts,
                         number : 0 .. MaxMessages, now : 0 .. MaxMessages, gone : BOOLEAN]]
  /\ loads \in [Users -> [newest : [pc : {"none", "asked", "answered"}, messages : SUBSET Messages],
                          older : [pc : {"none", "asked", "answered"}, messages : SUBSET Messages]]]
  /\ marking \in [Users -> BOOLEAN]
  /\ seen \in [Users -> SUBSET Messages] /\ raced \in [Users -> SUBSET Messages]
  /\ typed \in 0 .. MaxTexts /\ excess \in [Texts -> Nat]
  /\ dropped \subseteq Texts /\ unmarked \subseteq Users
  /\ faults \in 0 .. MaxFaults
  /\ \A u \in Users : screen[u].bubble => send[u].pc # "idle" /\ screen[u].at = "thread"

Init ==
  /\ chat = [exists |-> FALSE, lastMessageAt |-> 0, lastReadAt |-> [u \in Users |-> 0]]
  /\ msgs = [m \in Messages |-> NoMessage]
  /\ access = [u \in Users |-> TRUE]
  /\ screen = [u \in Users |-> NoScreen]
  /\ send = [u \in Users |-> NoSend]
  /\ loads = [u \in Users |-> [newest |-> NoLoad, older |-> NoLoad]]
  /\ marking = [u \in Users |-> FALSE]
  /\ seen = [u \in Users |-> {}] /\ raced = [u \in Users |-> {}]
  /\ typed = 0 /\ excess = [t \in Texts |-> 0] /\ dropped = {}
  /\ unmarked = {} /\ faults = 0

InState(states) == {m \in Messages : msgs[m].state \in states}
Stored == InState({"stored"})
Clock == Cardinality(InState({"open", "stored", "aborted"}))
By(u) == {m \in Messages : msgs[m].by = u}
Newest(set) == Max(set \cup {0})
InThread(u) == screen[u].at = "thread"
Fault == faults < MaxFaults /\ faults' = faults + 1

\* GET /conversations: the last message, of the other one, after the mark.
Unread(u) ==
  /\ Newest(Stored) \notin By(u)
  /\ Newest(Stored) > chat.lastReadAt[u]

-----------------------------------------------------------------------------
(* POST /conversations, and the screen it opens *)

FirstLoad(u) == IF u \in Watchers THEN NewLoad ELSE NoLoad

\* MUTANT of ShowThread: what is there when the screen opens counts as read.
ShowThreadRead(u) ==
  /\ screen' = [screen EXCEPT ![u] = [NoScreen EXCEPT !.at = "thread"]]
  /\ loads' = [loads EXCEPT ![u] = [newest |-> FirstLoad(u), older |-> NoLoad]]
  /\ marking' = [marking EXCEPT ![u] = TRUE]

\* The screen starts empty, and asks for the messages.
ShowThread(u) ==
  /\ screen' = [screen EXCEPT ![u] = [NoScreen EXCEPT !.at = "thread"]]
  /\ loads' = [loads EXCEPT ![u] = [newest |-> FirstLoad(u), older |-> NoLoad]]
  /\ UNCHANGED marking

\* The conversation is looked for by its key ...
Find(u) ==
  /\ screen[u].at = "list"
  /\ IF chat.exists
       THEN ShowThread(u)
       ELSE /\ screen' = [screen EXCEPT ![u].at = "creating"]
            /\ UNCHANGED <<loads, marking>>
  /\ UNCHANGED <<chat, msgs, access, send, seen, raced, typed, excess, dropped,
                 unmarked, faults>>

\* ... and created; who comes second finds it by its unique key again.
Create(u) ==
  /\ screen[u].at = "creating"
  /\ chat' = IF chat.exists THEN chat
             ELSE [chat EXCEPT !.exists = TRUE, !.lastReadAt[u] = Clock]
  /\ ShowThread(u)
  /\ UNCHANGED <<msgs, access, send, seen, raced, typed, excess, dropped,
                 unmarked, faults>>

\* The user goes: what is in the composer goes too, and a message that is
\* being sent has no screen to come back to.
Leave(u) ==
  /\ InThread(u) /\ u \in Watchers /\ Fault
  /\ screen' = [screen EXCEPT ![u] = NoScreen]
  /\ send' = [send EXCEPT ![u].gone = @ \/ send[u].pc # "idle"]
  /\ loads' = [loads EXCEPT ![u] = [newest |-> NoLoad, older |-> NoLoad]]
  /\ dropped' = dropped \cup ({screen[u].composer} \ {0})
  /\ UNCHANGED <<chat, msgs, access, marking, seen, raced, typed, excess, unmarked>>

-----------------------------------------------------------------------------
(* POST /conversations/:id/messages *)

\* The composer stays open while a message is sent.
Type(u) ==
  /\ InThread(u) /\ screen[u].composer = 0 /\ typed < MaxTexts
  /\ typed' = typed + 1
  /\ screen' = [screen EXCEPT ![u].composer = typed + 1]
  /\ UNCHANGED <<chat, msgs, access, send, loads, marking, seen, raced, excess,
                 dropped, unmarked, faults>>

\* sendMessage: the message is shown at once, as a bubble without a number.
SendMessage(u) ==
  /\ InThread(u) /\ screen[u].composer # 0 /\ send[u].pc = "idle"
  /\ send' = [send EXCEPT ![u] = [NoSend EXCEPT !.pc = "asked", !.text = screen[u].composer]]
  /\ screen' = [screen EXCEPT ![u].composer = 0, ![u].bubble = TRUE]
  /\ UNCHANGED <<chat, msgs, access, loads, marking, seen, raced, typed, excess,
                 dropped, unmarked, faults>>

\* getConversationForUserOrFail lets the user in, and the time is read: what
\* the sender has not been shown by then will count as read.
TakeMessage(u) ==
  /\ send[u].pc = "asked" /\ access[u]
  /\ send' = [send EXCEPT ![u].pc = "insert", ![u].now = Clock]
  /\ raced' = [raced EXCEPT ![u] = @ \cup (1 .. Clock \ seen[u])]
  /\ UNCHANGED <<chat, msgs, access, screen, loads, marking, seen, typed, excess,
                 dropped, unmarked, faults>>

InsertMessage(u) ==
  /\ send[u].pc = "insert" /\ Clock < MaxMessages
  /\ msgs' = [msgs EXCEPT ![Clock + 1] = [by |-> u, text |-> send[u].text, state |-> "open"]]
  /\ send' = [send EXCEPT ![u].pc = "update", ![u].number = Clock + 1]
  /\ UNCHANGED <<chat, access, screen, loads, marking, seen, raced, typed, excess,
                 dropped, unmarked, faults>>

\* Another user will mark as read what it has not loaded.
AboutToMark(u) ==
  marking[u] \/ loads[u].newest.pc = "answered"

\* The conversation takes the time of the message, whichever came last, the
\* sender the time the request came, even if a mark has been later, and the
\* transaction commits.
CommitMessage(u) ==
  /\ send[u].pc = "update"
  /\ LET n == send[u].number IN
     /\ msgs' = [msgs EXCEPT ![n].state = "stored"]
     /\ chat' = [chat EXCEPT !.lastMessageAt = n, !.lastReadAt[u] = send[u].now]
     /\ unmarked' = IF send[u].now < chat.lastReadAt[u] THEN unmarked \cup {u} ELSE unmarked
     /\ raced' = [v \in Users |-> IF v # u /\ AboutToMark(v) THEN raced[v] \cup {n} ELSE raced[v]]
  /\ send' = [send EXCEPT ![u].pc = "stored"]
  /\ UNCHANGED <<access, screen, loads, marking, seen, typed, excess, dropped,
                 faults>>

\* The answer puts the message in the place of its bubble, if a load has not
\* taken the bubble away.
SendAnswered(u) ==
  /\ send[u].pc = "stored"
  /\ send' = [send EXCEPT ![u] = NoSend]
  /\ IF screen[u].bubble
       THEN /\ screen' = [screen EXCEPT ![u].bubble = FALSE, ![u].shown = @ \cup {send[u].number}]
            /\ seen' = [seen EXCEPT ![u] = @ \cup {send[u].number}]
       ELSE UNCHANGED <<screen, seen>>
  /\ UNCHANGED <<chat, msgs, access, loads, marking, raced, typed, excess, dropped,
                 unmarked, faults>>

\* MUTANT of TakeBack: the error is shown, and the text is gone.
TakeBackNothing(u) ==
  /\ send' = [send EXCEPT ![u] = NoSend]
  /\ screen' = [screen EXCEPT ![u].bubble = FALSE]
  /\ UNCHANGED dropped

\* The catch of sendMessage: the text is back in the composer, over whatever
\* was typed there since.
TakeBack(u) ==
  /\ send' = [send EXCEPT ![u] = NoSend]
  /\ IF send[u].gone
       THEN dropped' = dropped \cup {send[u].text} /\ UNCHANGED screen
       ELSE /\ screen' = [screen EXCEPT ![u].bubble = FALSE, ![u].composer = send[u].text]
            /\ dropped' = dropped \cup ({screen[u].composer} \ {0})

\* The user has no access any more.
SendRefused(u) ==
  /\ send[u].pc = "asked" /\ ~ access[u]
  /\ TakeBack(u)
  /\ UNCHANGED <<chat, msgs, access, loads, marking, seen, raced, typed, excess,
                 unmarked, faults>>

\* The request fails: before it is stored, or only its answer is lost.
SendFails(u) ==
  /\ send[u].pc # "idle" /\ Fault
  /\ msgs' = IF send[u].pc = "update" THEN [msgs EXCEPT ![send[u].number].state = "aborted"] ELSE msgs
  /\ excess' = IF send[u].pc = "stored" THEN [excess EXCEPT ![send[u].text] = @ + 1] ELSE excess
  /\ TakeBack(u)
  /\ UNCHANGED <<chat, access, loads, marking, seen, raced, typed, unmarked>>

-----------------------------------------------------------------------------
(* GET /conversations/:id/messages *)

\* MUTANT of Poll: a screen without messages has no timer.
PollWhenShown(u) ==
  /\ InThread(u) /\ u \in Watchers /\ screen[u].shown # {}
  /\ loads' = [loads EXCEPT ![u] =
        [newest |-> NewLoad, older |-> IF @.newest.pc = "none" THEN @.older ELSE @.newest]]
  /\ UNCHANGED <<chat, msgs, access, screen, send, marking, seen, raced, typed, excess,
                 dropped, unmarked, faults>>

\* The timer of the screen, or Retry: an older request may still be out.
Poll(u) ==
  /\ InThread(u) /\ u \in Watchers
  /\ loads' = [loads EXCEPT ![u] =
        [newest |-> NewLoad, older |-> IF @.newest.pc = "none" THEN @.older ELSE @.newest]]
  /\ UNCHANGED <<chat, msgs, access, screen, send, marking, seen, raced, typed, excess,
                 dropped, unmarked, faults>>

Answered(load, u) ==
  IF access[u] THEN [pc |-> "answered", messages |-> Stored] ELSE NoLoad

ServeNewest(u) ==
  /\ loads[u].newest.pc = "asked"
  /\ loads' = [loads EXCEPT ![u].newest = Answered(@, u)]
  /\ UNCHANGED <<chat, msgs, access, screen, send, marking, seen, raced, typed, excess,
                 dropped, unmarked, faults>>

ServeOlder(u) ==
  /\ loads[u].older.pc = "asked"
  /\ loads' = [loads EXCEPT ![u].older = Answered(@, u)]
  /\ UNCHANGED <<chat, msgs, access, screen, send, marking, seen, raced, typed, excess,
                 dropped, unmarked, faults>>

\* setMessages, and the mark: for a message of the other one that this screen
\* has not marked before.
Show(u, messages) ==
  LET latest == Newest(messages)
      unmarkedYet == latest # 0 /\ latest \notin By(u) /\ latest # screen[u].marked
  IN /\ screen' = [screen EXCEPT ![u].shown = messages, ![u].bubble = FALSE,
                                 ![u].marked = IF unmarkedYet THEN latest ELSE @]
     /\ marking' = [marking EXCEPT ![u] = @ \/ unmarkedYet]
     /\ seen' = [seen EXCEPT ![u] = @ \cup messages]

ShowNewest(u) ==
  /\ loads[u].newest.pc = "answered"
  /\ Show(u, loads[u].newest.messages)
  /\ loads' = [loads EXCEPT ![u].newest = NoLoad]
  /\ UNCHANGED <<chat, msgs, access, send, raced, typed, excess, dropped,
                 unmarked, faults>>

\* An answer that a newer request has overtaken is thrown away.
DropOlder(u) ==
  /\ loads[u].older.pc = "answered"
  /\ loads' = [loads EXCEPT ![u].older = NoLoad]
  /\ UNCHANGED <<chat, msgs, access, screen, send, marking, seen, raced, typed, excess,
                 dropped, unmarked, faults>>

LoadFails(u) ==
  /\ loads[u].newest.pc # "none" /\ Fault
  /\ loads' = [loads EXCEPT ![u].newest = NoLoad]
  /\ UNCHANGED <<chat, msgs, access, screen, send, marking, seen, raced, typed, excess,
                 dropped, unmarked>>

-----------------------------------------------------------------------------
(* POST /conversations/:id/read *)

\* Everything created so far counts as read, transactions under way included.
MarkRead(u) ==
  /\ marking[u]
  /\ marking' = [marking EXCEPT ![u] = FALSE]
  /\ IF access[u]
       THEN /\ chat' = [chat EXCEPT !.lastReadAt[u] = Clock]
            /\ raced' = [raced EXCEPT ![u] = @ \cup InState({"open"})]
            /\ UNCHANGED unmarked
       ELSE UNCHANGED <<chat, raced>> /\ unmarked' = unmarked \cup {u}
  /\ UNCHANGED <<msgs, access, screen, send, loads, seen, typed, excess, dropped, faults>>

\* markRead ignores a failure, and the screen does not ask again.
MarkFails(u) ==
  /\ marking[u] /\ Fault
  /\ marking' = [marking EXCEPT ![u] = FALSE]
  /\ unmarked' = unmarked \cup {u}
  /\ UNCHANGED <<chat, msgs, access, screen, send, loads, seen, raced, typed, excess,
                 dropped>>

\* The lead of the conversation is reassigned.
LoseAccess(u) ==
  /\ access[u] /\ u \in Watchers /\ Fault
  /\ access' = [access EXCEPT ![u] = FALSE]
  /\ UNCHANGED <<chat, msgs, screen, send, loads, marking, seen, raced, typed, excess,
                 dropped, unmarked>>

-----------------------------------------------------------------------------

Sending(u) ==
  \/ TakeMessage(u) \/ InsertMessage(u) \/ CommitMessage(u) \/ SendAnswered(u) \/ SendRefused(u)

Act(u) ==
  \/ Find(u) \/ Create(u) \/ Leave(u) \/ Type(u) \/ SendMessage(u) \/ Sending(u) \/ SendFails(u)
  \/ Poll(u) \/ ServeNewest(u) \/ ServeOlder(u) \/ ShowNewest(u) \/ DropOlder(u) \/ LoadFails(u)
  \/ MarkRead(u) \/ MarkFails(u) \/ LoseAccess(u)

Next == \E u \in Users : Act(u)

\* The timer goes on while the screen is open; answers come before the next
\* tick again and again, and requests are served.
Spec ==
  /\ Init /\ [][Next]_vars
  /\ \A u \in Watchers :
        /\ WF_vars(Poll(u)) /\ WF_vars(ServeNewest(u)) /\ SF_vars(ShowNewest(u))
        /\ WF_vars(MarkRead(u))

-----------------------------------------------------------------------------
(* What the two users may rely on *)

\* A message that counts as read without having been shown has raced with a
\* mark: committed between the load and the mark, open while the mark or the
\* user's own message was taken, or not loaded yet when the user wrote.
MissedOnlyByRace ==
  \A u \in Watchers : \A m \in Stored \ By(u) :
     m <= chat.lastReadAt[u] => m \in seen[u] \cup raced[u]

Places(t) ==
    Cardinality({u \in Users : screen[u].composer = t})
  + Cardinality({u \in Users : send[u].text = t /\ send[u].number \notin Stored})
  + Cardinality({m \in Stored : msgs[m].text = t})

\* A text is in a composer, on its way or stored, and in one place only; it is
\* lost only over a failed send or a screen that was left, and doubled only
\* when an answer was lost.
TextsAreAccounted ==
  \A t \in 1 .. typed :
     /\ Places(t) <= 1 + excess[t]
     /\ Places(t) = 0 => t \in dropped

\* A message that is stored reaches every screen that stays open, and the
\* user is not told of it as unread for ever, unless access or a mark was lost.
MessageIsShown ==
  \A u \in Watchers : \A m \in Messages :
     m \in Stored /\ InThread(u)
       ~> \/ ~ InThread(u) \/ ~ access[u]
          \/ m \in screen[u].shown /\ (~ Unread(u) \/ u \in unmarked)

\* What was typed is on the screen, on its way, stored or given up.
TextsAreSound == TypeOK /\ TextsAreAccounted
=============================================================================
