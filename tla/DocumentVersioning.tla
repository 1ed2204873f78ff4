------------------------- MODULE DocumentVersioning -------------------------
(***************************************************************************)
(* The documents of one lead: POST /complete of routes/lead-documents.ts  *)
(* stores a new version of a category, DELETE /:id of routes/documents.ts *)
(* removes one and promotes the previous version.  Every statement of     *)
(* their transactions is a step.  The database is read committed: a       *)
(* statement sees what others have committed, waits for the rows another  *)
(* transaction has written, and then looks at them again.  The rows a     *)
(* request wrote are in its `locks`; they change when it commits.         *)
(* Reviews and notes touch neither version nor is_latest and are left out.*)
(***************************************************************************)
EXTENDS Naturals, Sequences, FiniteSets

CONSTANTS
  Requests,     \* HTTP requests in flight
  Categories,   \* document categories
  SitePhotos,   \* the categories that count as site photographs
  MaxPhotos,    \* SITE_PHOTO_ALLOWED_MAX
  MaxAttempts,  \* maxRetries of createVersionedDocument
  MaxRows       \* bound on the documents ever stored

ASSUME DocumentAssumption ==
  /\ IsFiniteSet(Requests) /\ Requests # {} /\ Categories # {}
  /\ SitePhotos \subseteq Categories
  /\ MaxPhotos \in Nat
  /\ MaxAttempts \in Nat \ {0}
  /\ MaxRows \in Nat

VARIABLES
  docs,   \* committed rows of documents, by order of insertion
  req,    \* the requests in flight
  raced   \* categories in which a delete ran together with another request

vars == <<docs, req, raced>>

-----------------------------------------------------------------------------
(* Shapes *)

Doc == [cat : Categories, version : Nat \ {0}, latest : BOOLEAN, live : BOOLEAN]

IdleReq == [pc |-> "idle", kind |-> "none", cat |-> CHOOSE c \in Categories : TRUE,
            left |-> {}, own |-> FALSE, full |-> FALSE,
            attempt |-> 1, base |-> 0, next |-> 1, snap |-> {},
            row |-> 0, wasLatest |-> FALSE, prev |-> 0, locks |-> {}]

\* Uploads: `left`, `own`, `full` are the site photograph check, `base` the
\* number of rows at the start, `next` the version to insert, `snap` the rows
\* to take is_latest from.  Deletes: `row` and its is_latest as first read, and
\* the version to promote, 0 when there is none.
Request ==
  [pc : {"idle", "upload", "clear", "lock", "insert", "delete", "find", "promote"},
   kind : {"none", "upload", "delete"}, cat : Categories,
   left : SUBSET {"own", "count"}, own : BOOLEAN, full : BOOLEAN,
   attempt : 1 .. MaxAttempts, base : Nat, next : Nat \ {0}, snap : SUBSET Nat,
   row : Nat, wasLatest : BOOLEAN, prev : Nat, locks : SUBSET Nat]

TypeOK ==
  /\ docs \in Seq(Doc)
  /\ req \in [Requests -> Request]
  /\ \A r \in Requests :
        /\ req[r].locks \cup req[r].snap \subseteq DOMAIN docs
        /\ req[r].kind = "delete" => req[r].row \in DOMAIN docs
        /\ req[r].prev \in DOMAIN docs \cup {0}
  /\ raced \subseteq Categories

Init ==
  /\ docs = << >>
  /\ req = [r \in Requests |-> IdleReq]
  /\ raced = {}

Live(c) == {i \in DOMAIN docs : docs[i].live /\ docs[i].cat = c}
Latest(c) == {i \in Live(c) : docs[i].latest}
Photos == UNION {Latest(c) : c \in SitePhotos}
Highest(S) == {i \in S : \A j \in S : docs[j].version <= docs[i].version}

Locked(r, i) == \E q \in Requests \ {r} : i \in req[q].locks

\* r starts in category c: is that a delete next to another request?
Races(r, c, kind) ==
  raced' = raced \cup
    {d \in {c} : \E q \in Requests \ {r} :
                    /\ req[q].kind # "none" /\ req[q].cat = c
                    /\ "delete" \in {kind, req[q].kind}}

Finish(r) == req' = [req EXCEPT ![r] = IdleReq]

-----------------------------------------------------------------------------
(* POST /complete *)

StartUpload(r) ==
  /\ req[r].pc = "idle"
  /\ Len(docs) < MaxRows
  /\ \E c \in Categories :
        /\ req' = [req EXCEPT ![r] =
              [IdleReq EXCEPT !.pc = "upload", !.kind = "upload", !.cat = c,
                              !.left = IF c \in SitePhotos THEN {"own", "count"} ELSE {},
                              !.base = Len(docs)]]
        /\ Races(r, c, "upload")
  /\ UNCHANGED docs

\* The two queries of the site photograph check, in either order: is there a
\* photograph of this very category, and are there MaxPhotos of them in all?
LookForOwnPhoto(r) ==
  /\ req[r].pc = "upload" /\ "own" \in req[r].left
  /\ req' = [req EXCEPT ![r].left = @ \ {"own"},
                        ![r].own = Latest(req[r].cat) # {}]
  /\ UNCHANGED <<docs, raced>>

\* MUTANT of CountPhotos: only the category that is uploaded is counted.
CountOwnPhotos(r) ==
  /\ req[r].pc = "upload" /\ "count" \in req[r].left
  /\ req' = [req EXCEPT ![r].left = @ \ {"count"},
                        ![r].full = MaxPhotos <= Cardinality(Latest(req[r].cat))]
  /\ UNCHANGED <<docs, raced>>

CountPhotos(r) ==
  /\ req[r].pc = "upload" /\ "count" \in req[r].left
  /\ req' = [req EXCEPT ![r].left = @ \ {"count"},
                        ![r].full = MaxPhotos <= Cardinality(Photos)]
  /\ UNCHANGED <<docs, raced>>

\* Each attempt is a transaction; first the highest version there is ...
ReadMaxVersion(r) ==
  /\ req[r].pc = "upload" /\ req[r].left = {}
  /\ req[r].own \/ ~ req[r].full
  /\ LET top == Highest(Live(req[r].cat)) IN
     \E v \in {docs[i].version : i \in top} \cup {0} :
        /\ v = 0 => top = {}
        /\ req' = [req EXCEPT ![r].pc = "clear", ![r].next = v + 1]
  /\ UNCHANGED <<docs, raced>>

\* ... then updateMany is_latest = false: it picks the rows as they are when
\* it starts, waits for those that others have written, and takes the ones
\* that still match ...
PickLatest(r) ==
  /\ req[r].pc = "clear"
  /\ req' = [req EXCEPT ![r].pc = "lock", ![r].snap = Latest(req[r].cat)]
  /\ UNCHANGED <<docs, raced>>

LockLatest(r) ==
  /\ req[r].pc = "lock"
  /\ \A i \in req[r].snap : ~ Locked(r, i)
  /\ req' = [req EXCEPT ![r].pc = "insert", ![r].snap = {},
                        ![r].locks = req[r].snap \cap Latest(req[r].cat)]
  /\ UNCHANGED <<docs, raced>>

SameVersion(r) == {i \in Live(req[r].cat) : docs[i].version = req[r].next}
Deleting(q) == IF req[q].pc \in {"find", "promote"} THEN {req[q].row} ELSE {}

\* ... then the insert and the commit.  The unique index on lead, category and
\* version waits for a delete of that version.
InsertVersion(r) ==
  /\ req[r].pc = "insert"
  /\ Len(docs) < MaxRows
  /\ SameVersion(r) = {}
  /\ docs' = Append([i \in DOMAIN docs |->
                       [docs[i] EXCEPT !.latest = @ /\ i \notin req[r].locks]],
                    [cat |-> req[r].cat, version |-> req[r].next,
                     latest |-> TRUE, live |-> TRUE])
  /\ Finish(r)
  /\ UNCHANGED raced

\* MUTANT of VersionConflict: the next number is tried in the same transaction.
VersionConflictBump(r) ==
  /\ req[r].pc = "insert"
  /\ SameVersion(r) \ UNION {Deleting(q) : q \in Requests} # {}
  /\ req' = [req EXCEPT ![r].next = @ + 1]
  /\ UNCHANGED <<docs, raced>>

\* P2002: the transaction rolls back and, while attempts are left, starts over.
VersionConflict(r) ==
  /\ req[r].pc = "insert"
  /\ SameVersion(r) \ UNION {Deleting(q) : q \in Requests} # {}
  /\ IF req[r].attempt < MaxAttempts
       THEN req' = [req EXCEPT ![r].pc = "upload", ![r].locks = {}, ![r].attempt = @ + 1]
       ELSE Finish(r)
  /\ UNCHANGED <<docs, raced>>

-----------------------------------------------------------------------------
(* DELETE /:id *)

\* The handler reads the document, outside of the transaction.
StartDelete(r) ==
  /\ req[r].pc = "idle"
  /\ \E i \in DOMAIN docs :
        /\ docs[i].live
        /\ req' = [req EXCEPT ![r] =
              [IdleReq EXCEPT !.pc = "delete", !.kind = "delete", !.cat = docs[i].cat,
                              !.row = i, !.wasLatest = docs[i].latest]]
        /\ Races(r, docs[i].cat, "delete")
  /\ UNCHANGED docs

DeleteRow(r) ==
  /\ req[r].pc = "delete"
  /\ ~ Locked(r, req[r].row)
  /\ docs[req[r].row].live
  /\ req' = [req EXCEPT ![r].pc = "find", ![r].locks = {req[r].row}]
  /\ UNCHANGED <<docs, raced>>

\* The version to promote, when the document was the latest as first read.
FindPrevious(r) ==
  /\ req[r].pc = "find"
  /\ LET others == Live(req[r].cat) \ {req[r].row} IN
     \E p \in IF req[r].wasLatest /\ others # {} THEN Highest(others) ELSE {0} :
        req' = [req EXCEPT ![r].pc = "promote", ![r].prev = p]
  /\ UNCHANGED <<docs, raced>>

\* The update of that version, which must still exist, and the commit.
CommitDelete(r) ==
  /\ req[r].pc = "promote"
  /\ req[r].prev # 0 => docs[req[r].prev].live /\ ~ Locked(r, req[r].prev)
  /\ docs' = [i \in DOMAIN docs |->
                [docs[i] EXCEPT !.live = @ /\ i # req[r].row,
                                !.latest = @ \/ i = req[r].prev]]
  /\ Finish(r)
  /\ UNCHANGED raced

\* A 4xx answer (the photographs are complete, the document is gone), a
\* database error, a deadlock the database resolves, or a restart: what the
\* request had not committed is gone, and so are its locks.
Rollback(r) ==
  /\ req[r].pc # "idle"
  /\ Finish(r)
  /\ UNCHANGED <<docs, raced>>

Next ==
  \E r \in Requests :
     \/ StartUpload(r) \/ LookForOwnPhoto(r) \/ CountPhotos(r) \/ ReadMaxVersion(r)
     \/ PickLatest(r) \/ LockLatest(r) \/ InsertVersion(r) \/ VersionConflict(r)
     \/ StartDelete(r) \/ DeleteRow(r) \/ FindPrevious(r) \/ CommitDelete(r)
     \/ Rollback(r)

Spec == Init /\ [][Next]_vars

-----------------------------------------------------------------------------
(* What the documents promise *)

\* However many uploads of a category run at once, exactly one version is the
\* latest and it has the highest number: the unique index makes every upload
\* that read an old maximum start over.  Deletes keep this too, as long as
\* each has its category to itself from its first read to its commit.
OneLatestUnlessDeleteRaced ==
  \A c \in Categories \ raced :
     Live(c) # {} => \E i \in Live(c) : Latest(c) = {i} /\ Highest(Live(c)) = {i}

\* An upload makes its k-th attempt only after k - 1 others have been stored
\* since it came in, so it gives up only when MaxAttempts others overtook it.
RetriesAreEarned ==
  \A r \in Requests :
     req[r].kind = "upload" => req[r].base + (req[r].attempt - 1) <= Len(docs)

\* The check of the photographs is separated from the insert, so the limit can
\* be exceeded, but only by the uploads that were in flight at once, and never
\* by uploads that come one after the other.
SitePhotoOvershoot ==
  raced = {} => Cardinality(Photos) <= MaxPhotos + Cardinality(Requests) - 1

\* What every state is like: one latest version, by uploads that tried again
\* for a reason only.
VersionsAreSound == TypeOK /\ OneLatestUnlessDeleteRaced /\ RetriesAreEarned
=============================================================================
