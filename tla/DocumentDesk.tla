---------------------------- MODULE DocumentDesk ----------------------------
(***************************************************************************)
(* The site photographs of one lead, from the phone to the review desk:    *)
(* the two screens of the mobile app that take photographs                 *)
(* (LeadDetailScreen.tsx and CustomerDetailsScreen.tsx), uploadLeadDocument*)
(* of document-upload.ts with its attempts, the uploads in the offline     *)
(* queue, the resetting of the uploads, and documents-review/page.tsx of   *)
(* the web portal with the handlers of routes/documents.ts.                *)
(*                                                                         *)
(* A completed upload is one step here: how two of them interleave on the  *)
(* server is the matter of DocumentVersioning.                             *)
(***************************************************************************)
EXTENDS Naturals, Sequences, FiniteSets, FiniteSetsExt

CONSTANTS
  Files,      \* the pictures taken with the phone
  Other,      \* a picture uploaded with the portal
  Scenes,     \* who is at work: "phone", "desk", or both
  PhotoMax,   \* SITE_PHOTO_MAX, SITE_PHOTO_ALLOWED_MAX
  MaxDocs,    \* bound on the documents ever stored
  MaxFaults   \* bound on lost answers, lack of network, kills of the app, deletions
              \* by others, and uploads by others while the phone is at work

ASSUME DeskAssumption ==
  /\ PhotoMax \in Nat /\ MaxDocs \in Nat /\ MaxFaults \in Nat
  /\ Files \cap {Other, "form", "flush", "web"} = {}

VARIABLES
  docs,     \* the rows of documents, in the order of their creation
  details,  \* LeadDetailScreen: the documents it shows, those to be deleted,
            \* the pictures with a card that tells how their upload goes
  count,    \* CustomerDetailsScreen: how many photographs it believes there are
  ups,      \* the upload each client is at
  queue,    \* uploads in the offline queue
  desk,     \* the review page
  taken,    \* pictures taken so far
  unsure,   \* pictures whose upload was answered by nothing
  faults,
  scene     \* who is at work here

phone == <<details, count, queue, taken, unsure, scene>>
vars == <<docs, details, count, ups, queue, desk, taken, unsure, faults, scene>>

-----------------------------------------------------------------------------
(* Shapes *)

Places == 1 .. PhotoMax      \* site_photo_1, site_photo_2, ...
Ids == 1 .. MaxDocs

\* The details screen has an upload for every picture that was picked, told apart
\* by the picture; the form, the flush and the portal have one at a time.
Clients == Files \cup {"form", "flush", "web"}

\* DocumentReviewStatus is PENDING or not: what was decided is not told apart.
Doc == [place : Places, file : Files \cup {Other}, pending : BOOLEAN,
        latest : BOOLEAN, live : BOOLEAN]
\* `aware`: whoever chose the place knew which places were taken.
Item == [file : Files \cup {Other}, place : Places, aware : BOOLEAN]
NoUpload == [pc |-> "none"]
Upload == [pc : {"trying", "stored", "failed"}, left : 0 .. 1, item : Item]
Desk == [list : SUBSET Ids, sel : Ids \cup {0}, seen : Ids \cup {0},
         asked : SUBSET Ids, loading : BOOLEAN]

TypeOK ==
  /\ docs \in Seq(Doc) /\ Len(docs) <= MaxDocs
  /\ details \in [shown : SUBSET Ids, doomed : SUBSET Ids, cards : SUBSET Files]
  /\ count \in 0 .. PhotoMax
  /\ \A c \in Clients : ups[c] \in Upload \cup {NoUpload}
  /\ queue \subseteq Item
  /\ desk \in Desk
  /\ unsure \subseteq taken /\ taken \subseteq Files
  /\ faults \in 0 .. MaxFaults

Init ==
  /\ docs = << >>
  /\ details = [shown |-> {}, doomed |-> {}, cards |-> {}]
  /\ count = 0
  /\ ups = [c \in Clients |-> NoUpload]
  /\ queue = {}
  /\ desk = [list |-> {}, sel |-> 0, seen |-> 0, asked |-> {}, loading |-> FALSE]
  /\ taken = {} /\ unsure = {} /\ faults = 0
  /\ scene \in Scenes

Fault == faults < MaxFaults /\ faults' = faults + 1

\* The portal's uploads while the phone is at work are bounded in the same way.
Elsewhere == IF "phone" \in scene THEN Fault ELSE UNCHANGED faults

-----------------------------------------------------------------------------
(* The server *)

Live == {d \in DOMAIN docs : docs[d].live}
Latest == {d \in Live : docs[d].latest}
PlacesOf(ds) == {docs[d].place : d \in ds}
LatestAt(p) == {d \in Latest : docs[d].place = p}

\* A new site photograph is refused when there are enough of them, a new
\* version of one that exists is not.
LimitReached(p) == LatestAt(p) = {} /\ Cardinality(Latest) >= PhotoMax

\* createVersionedDocument.
WithVersion(item) ==
  Append([d \in DOMAIN docs |->
            [docs[d] EXCEPT !.latest = @ /\ docs[d].place # item.place]],
         [place |-> item.place, file |-> item.file, pending |-> TRUE,
          latest |-> TRUE, live |-> TRUE])

\* handleDocumentDelete: the version before the latest one becomes the latest.
Without(d) ==
  LET before == {e \in Live \ {d} : docs[e].place = docs[d].place} IN
  [e \in DOMAIN docs |->
     CASE e = d -> [docs[e] EXCEPT !.live = FALSE, !.latest = FALSE]
       [] docs[d].latest /\ before # {} /\ e = Max(before) -> [docs[e] EXCEPT !.latest = TRUE]
       [] OTHER -> docs[e]]

\* Others that chose the same place no longer know what is there.
Unaware(p, all) == [c \in Clients |->
  IF all[c] # NoUpload /\ all[c].item.place = p THEN [all[c] EXCEPT !.item.aware = FALSE]
  ELSE all[c]]
UnawareItems(p) == {[i EXCEPT !.aware = @ /\ i.place # p] : i \in queue}

\* POST /documents/complete, after presign and the upload to the storage.
Store(c) ==
  LET item == ups[c].item IN
  /\ ups[c].pc = "trying" /\ ~ LimitReached(item.place) /\ Len(docs) < MaxDocs
  /\ docs' = WithVersion(item)
  /\ LET stored == [ups EXCEPT ![c].pc = "stored"] IN
     IF c = "web"
       THEN ups' = Unaware(item.place, stored) /\ queue' = UnawareItems(item.place)
       ELSE ups' = stored /\ UNCHANGED queue
  /\ UNCHANGED <<details, count, desk, taken, unsure, faults, scene>>

-----------------------------------------------------------------------------
(* uploadLeadDocument: presign, storage, complete, and all of it once more *)

Counted(c) == IF c = "form" THEN Min({count + 1, PhotoMax}) ELSE count

\* The upload is left to the queue.
LeftToQueue(c) ==
  /\ queue' = queue \cup {ups[c].item}
  /\ count' = Counted(c)
  /\ ups' = [ups EXCEPT ![c] = NoUpload]

\* What becomes of an upload whose last attempt failed: its card on the details
\* screen shows the failure, if it is still there; the form takes any failure for
\* one of the network and queues the upload, and a flush writes back what it could
\* not upload, a refusal included (uploadLeadDocument throws an error that no
\* longer shows it).
AfterLastAttempt(c) ==
  CASE c \in details.cards ->
         /\ ups' = [ups EXCEPT ![c].pc = "failed"]
         /\ UNCHANGED <<queue, count>>
    [] c \in {"form", "flush"} -> LeftToQueue(c)
    [] OTHER ->
         /\ ups' = [ups EXCEPT ![c] = NoUpload]
         /\ UNCHANGED <<queue, count>>

AttemptFails(c) ==
  IF ups[c].left > 0
    THEN /\ ups' = [ups EXCEPT ![c].pc = "trying", ![c].left = @ - 1]
         /\ UNCHANGED <<queue, count>>
    ELSE AfterLastAttempt(c)

\* The server refuses: too many photographs.
Refused(c) ==
  /\ ups[c].pc = "trying" /\ LimitReached(ups[c].item.place)
  /\ AttemptFails(c)
  /\ UNCHANGED <<docs, details, desk, taken, unsure, faults, scene>>

\* The request, or the answer to it, is lost.
Lost(c) ==
  /\ c # "web" /\ ups[c].pc \in {"trying", "stored"} /\ Fault
  /\ unsure' = unsure \cup {ups[c].item.file}
  /\ AttemptFails(c)
  /\ UNCHANGED <<docs, details, desk, taken, scene>>

\* The screens look for a network before the first attempt; without one the
\* picture is queued.
Offline(c) ==
  /\ c \in Files \cup {"form"} /\ ups[c].pc = "trying" /\ ups[c].left = 1 /\ Fault
  /\ LeftToQueue(c)
  /\ UNCHANGED <<docs, details, desk, taken, unsure, scene>>

\* What is left of the queue when an upload of it has succeeded.
Leftover(item) == {i \in queue : <<i.file, i.place>> # <<item.file, item.place>>}

Answered(c) ==
  /\ ups[c].pc = "stored"
  /\ ups' = [ups EXCEPT ![c] = NoUpload]
  /\ count' = Counted(c)
  /\ queue' = IF c = "flush" THEN Leftover(ups[c].item) ELSE queue
  /\ details' = IF c \in Files THEN [details EXCEPT !.shown = Latest, !.cards = @ \ {c}] ELSE details
  /\ UNCHANGED <<docs, desk, taken, unsure, faults, scene>>

-----------------------------------------------------------------------------
(* The phone *)

LoadDetails ==
  /\ details' = [details EXCEPT !.shown = Latest]
  /\ UNCHANGED <<docs, count, ups, queue, desk, taken, unsure, faults, scene>>

LoadForm ==
  /\ ups["form"] = NoUpload
  /\ count' = Cardinality(Latest)
  /\ UNCHANGED <<docs, details, ups, queue, desk, taken, unsure, faults, scene>>

PlacesQueued == {i.place : i \in queue}

\* But for these pictures nothing is under way, or failed, that the queue does not show.
QuietBut(before) == \A o \in Clients \ before :
  ups[o] # NoUpload => o = "flush" /\ ups[o].item.place \in PlacesQueued

\* MUTANT of FreePlaces: the queue is not looked at.
FreePlacesShown == Places \ PlacesOf(details.shown)

\* buildSitePhotoIndexSet: the places that are taken neither by what is shown
\* nor by what is queued.
FreePlaces == Places \ (PlacesOf(details.shown) \cup PlacesQueued)

DetailsAware(before) == QuietBut(before) /\ details.shown = Latest
FormAware == QuietBut({}) /\ 1 .. count = PlacesOf(Latest) \cup PlacesQueued

\* A picture is taken for a place, which is chosen when the button is pressed.
Take(c, f, p, aware) ==
  LET item == [file |-> f, place |-> p, aware |-> aware] IN
  /\ ups[c] = NoUpload
  /\ taken' = taken \cup {f}
  /\ ups' = [IF aware THEN ups ELSE Unaware(p, ups)
              EXCEPT ![c] = [pc |-> "trying", left |-> 1, item |-> item]]
  /\ queue' = IF aware THEN queue ELSE UnawareItems(p)
  /\ UNCHANGED <<docs, count, desk, unsure, faults, scene>>

Failed == {f \in Files : ups[f].pc = "failed"}

\* handlePickedFiles: the pictures of one pick are uploaded one after another, and
\* the places of those before are not chosen again.  What other picks have under
\* way, or could not upload, is not counted.
TakeInDetails ==
  \E f \in Files \ taken, before \in SUBSET Failed :
    LET free == FreePlaces \ {ups[b].item.place : b \in before} IN
    /\ free # {}
    /\ Take(f, f, Min(free), DetailsAware(before))
    /\ details' = [details EXCEPT !.cards = @ \cup {f}]

\* site_photo_{count + 1}: a gap that a deletion left is not seen.
TakeInForm ==
  /\ count < PhotoMax
  /\ \E f \in Files \ taken : Take("form", f, count + 1, FormAware)
  /\ UNCHANGED details

\* retryUpload of what a card shows as failed.
Retry ==
  /\ \E f \in Failed : ups' = [ups EXCEPT ![f].pc = "trying", ![f].left = 1]
  /\ UNCHANGED <<docs, phone, desk, faults>>

\* A flush is taken item by item here: OfflineQueue has what it overwrites.
StartFlush ==
  /\ ups["flush"] = NoUpload
  /\ \E item \in queue :
        ups' = [ups EXCEPT !["flush"] = [pc |-> "trying", left |-> 1, item |-> item]]
  /\ UNCHANGED <<docs, phone, desk, faults>>

\* resetDocumentUploadSection: the cards and what is queued are dropped, and what
\* is shown is deleted, one document after the other.  An upload under way goes on.
StartReset ==
  /\ details.doomed = {}
  /\ details' = [details EXCEPT !.doomed = details.shown, !.cards = {}]
  /\ queue' = {}
  /\ ups' = [c \in Clients |-> IF c \in Failed THEN NoUpload ELSE ups[c]]
  /\ UNCHANGED <<docs, count, desk, taken, unsure, faults, scene>>

ResetNext ==
  /\ details.doomed # {}
  /\ LET d == Min(details.doomed)
         rest == details.doomed \ {d}
     IN
     /\ docs' = IF d \in Live THEN Without(d) ELSE docs
     /\ details' = [details EXCEPT !.doomed = rest, !.shown = IF rest = {} THEN Latest' ELSE @]
  /\ UNCHANGED <<count, ups, queue, desk, taken, unsure, faults, scene>>

\* The app is killed: what it uploaded itself is forgotten, the queue is not.
Kill ==
  /\ \E c \in Clients \ {"web"} : ups[c] # NoUpload
  /\ Fault
  /\ ups' = [c \in Clients |-> IF c = "web" THEN ups[c] ELSE NoUpload]
  /\ details' = [shown |-> {}, doomed |-> {}, cards |-> {}]
  /\ unsure' = unsure \cup {i.file : i \in {ups[c].item : c \in {k \in {"flush"} : ups[k] # NoUpload}}}
  /\ UNCHANGED <<docs, count, queue, desk, taken, scene>>

-----------------------------------------------------------------------------
(* The review page *)

\* A selection asks for its preview; the answer to the selection before it is
\* not waited for any more.
Select(sel, list) ==
  IF sel = desk.sel \/ sel = 0
    THEN [desk EXCEPT !.list = list, !.sel = sel, !.seen = IF sel = 0 THEN 0 ELSE @]
    ELSE [desk EXCEPT !.list = list, !.sel = sel, !.asked = @ \cup {sel}, !.loading = TRUE]

\* The list of what is to be reviewed; a selection that is not in it goes to the
\* first of the list, the newest document.
Listed(ds) ==
  LET list == {d \in DOMAIN ds : ds[d].live /\ ds[d].pending} IN
  Select(CASE desk.sel \in list -> desk.sel
           [] list = {} -> 0
           [] OTHER -> Max(list), list)

List ==
  /\ desk' = Listed(docs)
  /\ UNCHANGED <<docs, phone, ups, faults>>

Click ==
  /\ \E d \in desk.list : desk' = Select(d, desk.list)
  /\ UNCHANGED <<docs, phone, ups, faults>>

\* MUTANT of Awaited: every answer is shown.
AwaitedAny(d) == TRUE

\* The flag of the effect that asked.
Awaited(d) == d = desk.sel

Preview ==
  /\ \E d \in desk.asked, url \in BOOLEAN :
       LET told == [desk EXCEPT !.asked = @ \ {d}] IN
       desk' = IF Awaited(d)
                 THEN [told EXCEPT !.seen = IF url /\ d \in Live THEN d ELSE 0, !.loading = FALSE]
                 ELSE told
  /\ UNCHANGED <<docs, phone, ups, faults>>

\* POST /:id/review by this page or by another reviewer, whose decision the page
\* does not see before it lists again.  The last decision wins.
Decide(d) ==
  /\ d \in Live
  /\ docs' = [docs EXCEPT ![d].pending = FALSE]
  /\ desk' = IF d = desk.sel THEN Listed(docs') ELSE desk
  /\ UNCHANGED <<phone, ups, faults>>

\* A document is deleted on this page, or elsewhere.
Delete(d) ==
  /\ d \in Live /\ Fault
  /\ docs' = Without(d)
  /\ desk' = IF d = desk.sel THEN Listed(docs') ELSE desk
  /\ UNCHANGED <<phone, ups>>

\* The portal uploads for any place, with one attempt.
WebUpload ==
  /\ ups["web"] = NoUpload /\ Elsewhere
  /\ \E p \in Places : ups' = [ups EXCEPT !["web"] =
       [pc |-> "trying", left |-> 0, item |-> [file |-> Other, place |-> p, aware |-> FALSE]]]
  /\ UNCHANGED <<docs, phone, desk>>

-----------------------------------------------------------------------------
Next ==
  \/ \E c \in Clients : Store(c) \/ Refused(c) \/ Lost(c) \/ Offline(c) \/ Answered(c)
  \/ WebUpload \/ \E d \in DOMAIN docs : Delete(d)
  \/ /\ "phone" \in scene
     /\ \/ LoadDetails \/ LoadForm \/ TakeInDetails \/ TakeInForm \/ Retry \/ StartFlush
        \/ StartReset \/ ResetNext \/ Kill
  \/ "desk" \in scene /\ (List \/ Click \/ Preview \/ \E d \in DOMAIN docs : Decide(d))

Spec == Init /\ [][Next]_vars

-----------------------------------------------------------------------------
(* What the photographs rely on *)

Stored == Len(docs') > Len(docs)
New == docs'[Len(docs')]

\* A photograph takes the place of another picture only when one of the two was
\* given the place by somebody who did not know, or could not count, all that was
\* stored, queued, under way or failed (a screen that is not up to date; the other
\* screen; the details screen itself, which counts no upload of another pick), or
\* when the portal stored one for the same place meanwhile.
PhotoReplacedUnaware ==
  [][Stored /\ (\E d \in LatestAt(New.place) : docs[d].file # New.file) =>
       \E c \in Clients : ups[c].pc = "trying" /\ ups'[c].pc = "stored" /\ ~ ups[c].item.aware]_vars

\* A picture is stored a second time only after an upload of it was left
\* without an answer.
StoredTwiceOnlyIfUnsure ==
  [][Stored /\ New.file \in {docs[d].file : d \in DOMAIN docs} \ {Other} => New.file \in unsure]_vars

\* The page never shows the preview of one document while another is selected and
\* its own is there.  Whoever decides while the preview is being loaded, or could
\* not be, decides unseen: the buttons do not wait for it.
PreviewIsOfSelection ==
  desk.sel # 0 /\ ~ desk.loading => desk.seen \in {0, desk.sel}

\* Pictures are replaced and stored twice for a reason only.
UploadsAreExplained == PhotoReplacedUnaware /\ StoredTwiceOnlyIfUnsure
=============================================================================
