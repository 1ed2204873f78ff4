---------------------- MODULE DocumentVersioning_proofs ----------------------
(***************************************************************************)
(* Proofs about DocumentVersioning for every number of requests,           *)
(* categories, attempts and photographs: type correctness, one latest      *)
(* version, retries for a reason, and how far the limit of the site        *)
(* photographs can be exceeded.                                            *)
(***************************************************************************)
EXTENDS DocumentVersioning, FiniteSetTheorems, SequenceTheorems, TLAPS

-----------------------------------------------------------------------------
(* The inductive invariant *)

Rows(c) == {i \in DOMAIN docs : docs[i].cat = c}

\* One version of c is the latest, and it is the one with the highest number.
OneLatest(c) ==
  Live(c) # {} => \E i \in Live(c) : Latest(c) = {i} /\ Highest(Live(c)) = {i}

\* What the rows are like: the unique index, and that rows have a highest one.
RowsOK ==
  /\ \A S \in SUBSET DOMAIN docs : S # {} => Highest(S) # {}
  /\ \A i, j \in DOMAIN docs :
        /\ docs[i].live /\ docs[j].live /\ docs[i].cat = docs[j].cat
        /\ docs[i].version = docs[j].version
        => i = j

\* The number q holds is the next one; somebody stored it in the meantime.
Fresh(q) ==
  /\ \A i \in Live(q.cat) : docs[i].version < q.next
  /\ q.next = 1 \/ \E i \in Live(q.cat) : docs[i].version = q.next - 1
Taken(q) == \E i \in Live(q.cat) : docs[i].version = q.next

Uploading == {"upload", "clear", "lock", "insert"}
Numbered == {"clear", "lock", "insert"}
Deletion == {"delete", "find", "promote"}

PcOK(q) ==
  /\ q.kind = "none" <=> q.pc = "idle"
  /\ q.kind = "upload" <=> q.pc \in Uploading
  /\ q.kind = "delete" <=> q.pc \in Deletion

\* A request touches rows of its category only.
RefsOK(q) ==
  /\ q.locks \subseteq Rows(q.cat) /\ q.snap \subseteq Rows(q.cat)
  /\ q.kind = "delete" => q.row \in Rows(q.cat)
  /\ q.prev \in Rows(q.cat) \cup {0}

\* Whatever has the number q holds was stored since q read the maximum.
RetryOK(q) ==
  /\ q.kind = "upload" => q.base + (q.attempt - 1) <= Len(docs)
  /\ q.pc \in Numbered =>
       \A i \in Live(q.cat) : docs[i].version >= q.next => q.base + (q.attempt - 1) < i

\* An upload that meets no delete holds all that is the latest, or a number
\* that is taken.
UploadOK(q) ==
  /\ q.pc \in Numbered => Fresh(q) \/ Taken(q)
  /\ q.pc = "lock" /\ Fresh(q) => q.snap = Latest(q.cat)
  /\ q.pc = "insert" /\ Fresh(q) => q.locks = Latest(q.cat)
  /\ q.kind = "upload" /\ q.own => Latest(q.cat) # {}

\* A delete that meets nobody sees the rows as it first read them.
DeleteOK(q) ==
  LET others == Live(q.cat) \ {q.row} IN
  /\ q.kind = "delete" => docs[q.row].live /\ (q.wasLatest <=> docs[q.row].latest)
  /\ q.pc = "promote" =>
       IF q.wasLatest /\ others # {} THEN q.prev \in Highest(others) ELSE q.prev = 0

ReqOK(q) ==
  /\ PcOK(q) /\ RefsOK(q) /\ RetryOK(q)
  /\ q.cat \notin raced => UploadOK(q) /\ DeleteOK(q)

\* Two requests of a category that no delete raced in are uploads.
ApartOK ==
  \A r, q \in Requests :
     /\ r # q /\ req[r].kind # "none" /\ req[q].kind # "none"
     /\ req[r].cat = req[q].cat /\ req[r].cat \notin raced
     => req[r].kind = "upload"

\* The uploads that were let through as one photograph more.
Adding(q) ==
  /\ q.kind = "upload" /\ q.cat \in SitePhotos
  /\ "count" \notin q.left /\ ~ q.full /\ ~ q.own
Adders == {r \in Requests : Adding(req[r])}

PhotosOK ==
  raced = {} =>
    Cardinality(Photos) + Cardinality(Adders) <= MaxPhotos + Cardinality(Requests) - 1

\* Each photograph in it is checked once more before it is added.
CheckOK ==
  \A r \in Requests :
     req[r].pc \in Numbered /\ req[r].cat \in SitePhotos => req[r].own \/ Adding(req[r])

IInv ==
  /\ TypeOK /\ RowsOK
  /\ \A c \in Categories \ raced : OneLatest(c)
  /\ \A r \in Requests : ReqOK(req[r])
  /\ ApartOK /\ CheckOK /\ PhotosOK

-----------------------------------------------------------------------------
(* Steps that leave the rows alone *)

LEMMA IdleTyped == IdleReq \in Request
BY DocumentAssumption DEF IdleReq, Request

LEMMA DocsTyped ==
  ASSUME TypeOK
  PROVE  /\ docs \in Seq(Doc) /\ Len(docs) \in Nat /\ DOMAIN docs = 1 .. Len(docs)
         /\ req \in [Requests -> Request]
         /\ \A i \in DOMAIN docs :
               /\ docs[i] \in Doc /\ docs[i].cat \in Categories
               /\ docs[i].version \in Nat \ {0}
               /\ docs[i].latest \in BOOLEAN /\ docs[i].live \in BOOLEAN
<1>1. docs \in Seq(Doc) /\ req \in [Requests -> Request]
  BY DEF TypeOK
<1>2. Len(docs) \in Nat /\ DOMAIN docs = 1 .. Len(docs)
  BY <1>1, LenProperties
<1>3. \A i \in DOMAIN docs : docs[i] \in Doc
  BY <1>1, ElementOfSeq, <1>2
<1>4. QED BY <1>1, <1>2, <1>3 DEF Doc

LEMMA PhotosFinite == TypeOK => IsFiniteSet(Photos)
<1> SUFFICES ASSUME TypeOK PROVE IsFiniteSet(Photos)
  OBVIOUS
<1>1. IsFiniteSet(1 .. Len(docs))
  BY DocsTyped, FS_Interval
<1>2. Photos \subseteq 1 .. Len(docs)
  BY DocsTyped DEF Photos, Latest, Live
<1>3. QED BY <1>1, <1>2, FS_Subset

\* One element more.
LEMMA AddOne ==
  ASSUME NEW S, IsFiniteSet(S), NEW x
  PROVE  /\ Cardinality(S \cup {x}) \in Nat /\ Cardinality(S) \in Nat
         /\ Cardinality(S \cup {x}) <= Cardinality(S) + 1
<1>1. IsFiniteSet(S \cup {x})
  BY FS_AddElement
<1>2. Cardinality(S \cup {x}) \in Nat /\ Cardinality(S) \in Nat
  BY <1>1, FS_CardinalityType
<1>3. CASE x \in S
  BY <1>2, <1>3, FS_AddElement
<1>4. CASE x \notin S
  BY <1>2, <1>4, FS_AddElement
<1>5. QED BY <1>2, <1>3, <1>4

LEMMA RequestsFinite ==
  \A S \in SUBSET Requests : /\ IsFiniteSet(S) /\ Cardinality(S) \in Nat
                             /\ Cardinality(S) <= Cardinality(Requests)
BY DocumentAssumption, FS_Subset, FS_CardinalityType

\* A request moves on while the rows stay: what its new state n has to be.
LEMMA QuietStep ==
  ASSUME IInv, NEW r \in Requests, NEW n \in Request,
         req' = [req EXCEPT ![r] = n], UNCHANGED docs,
         raced \subseteq raced', raced' \subseteq Categories,
         ReqOK(n),
         \A q \in Requests \ {r} :
            /\ n.kind # "none" /\ req[q].kind # "none"
            /\ req[q].cat = n.cat /\ n.cat \notin raced'
            => n.kind = "upload" /\ req[q].kind = "upload",
         n.pc \in Numbered /\ n.cat \in SitePhotos => n.own \/ Adding(n),
         raced' = {} /\ Adding(n) => Adding(req[r]) \/ Cardinality(Photos) < MaxPhotos
  PROVE  IInv'
<1>1. TypeOK /\ req \in [Requests -> Request]
  BY DEF IInv, TypeOK
<1>2. \A q \in Requests : req'[q] = IF q = r THEN n ELSE req[q]
  BY <1>1
<1>3. \A q \in Requests : ReqOK(req'[q])
  BY <1>2 DEF IInv
<1>4. TypeOK'
  <2>1. docs' \in Seq(Doc) /\ req' \in [Requests -> Request]
    BY <1>1 DEF TypeOK
  <2>2. ASSUME NEW q \in Requests
        PROVE  /\ req'[q].locks \cup req'[q].snap \subseteq DOMAIN docs
               /\ req'[q].kind = "delete" => req'[q].row \in DOMAIN docs
               /\ req'[q].prev \in DOMAIN docs \cup {0}
    BY <1>3 DEF ReqOK, RefsOK, Rows
  <2>3. QED BY <2>1, <2>2 DEF TypeOK
<1>5. RowsOK'
  BY DEF IInv, RowsOK, Highest
<1>6. (\A c \in Categories \ raced : OneLatest(c))'
  BY DEF IInv, OneLatest, Live, Latest, Highest
<1>7. (\A q \in Requests : ReqOK(req[q]))'
  <2>1. ASSUME NEW q \in Requests PROVE ReqOK(req[q])'
    <3> DEFINE m == req'[q]
    <3>1. ReqOK(m)
      BY <1>3
    <3> HIDE DEF m
    <3>2. QED
      BY <3>1 DEF m, ReqOK, PcOK, RefsOK, Rows, RetryOK, UploadOK, DeleteOK, Fresh, Taken,
                  Live, Latest, Highest
  <2>2. QED BY <2>1
<1>8. ApartOK'
  BY <1>2 DEF IInv, ApartOK
<1>9. CheckOK'
  BY <1>2 DEF IInv, CheckOK, Adding
<1>10. PhotosOK'
  <2> SUFFICES ASSUME raced' = {}
               PROVE  Cardinality(Photos') + Cardinality(Adders')
                        <= MaxPhotos + Cardinality(Requests) - 1
    BY DEF PhotosOK
  <2>1. Photos' = Photos
    BY DEF Photos, Latest, Live
  <2>2. Cardinality(Photos) + Cardinality(Adders) <= MaxPhotos + Cardinality(Requests) - 1
    BY DEF IInv, PhotosOK
  <2>3. Adders' = {q \in Requests : Adding(req'[q])}
    BY DEF Adders, Adding
  <2>4. /\ Cardinality(Photos) \in Nat /\ Cardinality(Adders) \in Nat
        /\ Cardinality(Adders') \in Nat /\ Cardinality(Requests) \in Nat
        /\ Cardinality(Adders') <= Cardinality(Requests) /\ MaxPhotos \in Nat
    BY <1>1, <2>3, PhotosFinite, RequestsFinite, FS_CardinalityType, DocumentAssumption
       DEF Adders
  <2>5. CASE Adding(n) => Adding(req[r])
    <3>1. Adders' \subseteq Adders
      BY <1>2, <2>3, <2>5 DEF Adders
    <3>2. Cardinality(Adders') <= Cardinality(Adders)
      BY <3>1, RequestsFinite, FS_Subset DEF Adders
    <3>3. QED BY <2>1, <2>2, <2>4, <3>2
  <2>6. CASE Cardinality(Photos) < MaxPhotos
    BY <2>1, <2>4, <2>6
  <2>7. QED BY <2>5, <2>6
<1>11. QED BY <1>4, <1>5, <1>6, <1>7, <1>8, <1>9, <1>10 DEF IInv

LEMMA StartUploadStep == ASSUME IInv, NEW r \in Requests, StartUpload(r) PROVE IInv'
<1>1. PICK c \in Categories :
        /\ req' = [req EXCEPT ![r] =
              [IdleReq EXCEPT !.pc = "upload", !.kind = "upload", !.cat = c,
                              !.left = IF c \in SitePhotos THEN {"own", "count"} ELSE {},
                              !.base = Len(docs)]]
        /\ Races(r, c, "upload")
  BY DEF StartUpload
<1> DEFINE n == [IdleReq EXCEPT !.pc = "upload", !.kind = "upload", !.cat = c,
                                !.left = IF c \in SitePhotos THEN {"own", "count"} ELSE {},
                                !.base = Len(docs)]
<1>2. TypeOK /\ Len(docs) \in Nat /\ req \in [Requests -> Request]
  BY DocsTyped DEF IInv
<1>3. n \in Request
  BY <1>2, IdleTyped DEF Request
<1>4. /\ n.pc = "upload" /\ n.kind = "upload" /\ n.cat = c /\ n.base = Len(docs)
      /\ n.locks = {} /\ n.snap = {} /\ n.prev = 0 /\ n.own = FALSE /\ n.attempt = 1
      /\ c \in SitePhotos => "count" \in n.left
  BY DEF IdleReq
<1>5. req' = [req EXCEPT ![r] = n]
  BY <1>1
<1> HIDE DEF n
<1>6. ReqOK(n)
  BY <1>2, <1>4 DEF ReqOK, PcOK, RefsOK, RetryOK, UploadOK, DeleteOK, Uploading, Deletion,
                    Numbered
<1>7. UNCHANGED docs /\ raced \subseteq raced' /\ raced' \subseteq Categories
  BY <1>1, <1>2 DEF StartUpload, Races, TypeOK
<1>8. ASSUME NEW q \in Requests \ {r}, req[q].kind # "none", req[q].cat = n.cat,
             n.cat \notin raced'
      PROVE  n.kind = "upload" /\ req[q].kind = "upload"
  <2>1. req[q].kind # "delete"
    BY <1>1, <1>4, <1>8 DEF Races
  <2>2. QED BY <1>2, <1>4, <1>8, <2>1 DEF Request
<1>9. n.pc \notin Numbered /\ ~ Adding(n)
  BY <1>4 DEF Numbered, Adding
<1>10. QED BY <1>3, <1>5, <1>6, <1>7, <1>8, <1>9, QuietStep

LEMMA StartDeleteStep == ASSUME IInv, NEW r \in Requests, StartDelete(r) PROVE IInv'
<1>1. PICK i \in DOMAIN docs :
        /\ docs[i].live
        /\ req' = [req EXCEPT ![r] =
              [IdleReq EXCEPT !.pc = "delete", !.kind = "delete", !.cat = docs[i].cat,
                              !.row = i, !.wasLatest = docs[i].latest]]
        /\ Races(r, docs[i].cat, "delete")
  BY DEF StartDelete
<1> DEFINE n == [IdleReq EXCEPT !.pc = "delete", !.kind = "delete", !.cat = docs[i].cat,
                                !.row = i, !.wasLatest = docs[i].latest]
<1>2. /\ TypeOK /\ i \in Nat /\ docs[i].cat \in Categories /\ docs[i].latest \in BOOLEAN
      /\ req \in [Requests -> Request]
  BY DocsTyped DEF IInv
<1>3. n \in Request
  BY <1>2, IdleTyped DEF Request
<1>4. /\ n.pc = "delete" /\ n.kind = "delete" /\ n.cat = docs[i].cat /\ n.row = i
      /\ n.locks = {} /\ n.snap = {} /\ n.prev = 0 /\ n.wasLatest = docs[i].latest
  BY DEF IdleReq
<1>5. req' = [req EXCEPT ![r] = n]
  BY <1>1
<1> HIDE DEF n
<1>6. ReqOK(n)
  BY <1>1, <1>2, <1>4
     DEF ReqOK, PcOK, RefsOK, Rows, RetryOK, UploadOK, DeleteOK, Uploading, Deletion, Numbered
<1>7. UNCHANGED docs /\ raced \subseteq raced' /\ raced' \subseteq Categories
  BY <1>1, <1>2 DEF StartDelete, Races, TypeOK
<1>8. ASSUME NEW q \in Requests \ {r}, req[q].kind # "none", req[q].cat = n.cat
      PROVE  n.cat \in raced'
  BY <1>1, <1>4, <1>8 DEF Races
<1>9. n.pc \notin Numbered /\ ~ Adding(n)
  BY <1>4 DEF Numbered, Adding
<1>10. QED BY <1>3, <1>5, <1>6, <1>7, <1>8, <1>9, QuietStep

\* A request in flight that stays what it is.
LEMMA MoveStep ==
  ASSUME IInv, NEW r \in Requests, NEW n \in Request,
         req' = [req EXCEPT ![r] = n], UNCHANGED <<docs, raced>>,
         n.kind = req[r].kind, n.cat = req[r].cat,
         ReqOK(n),
         n.pc \in Numbered /\ n.cat \in SitePhotos => n.own \/ Adding(n),
         raced = {} /\ Adding(n) => Adding(req[r]) \/ Cardinality(Photos) < MaxPhotos
  PROVE  IInv'
<1>1. \A q \in Requests \ {r} :
         /\ n.kind # "none" /\ req[q].kind # "none"
         /\ req[q].cat = n.cat /\ n.cat \notin raced
         => n.kind = "upload" /\ req[q].kind = "upload"
  BY DEF IInv, ApartOK
<1>2. raced \subseteq Categories
  BY DEF IInv, TypeOK
<1>3. QED BY <1>1, <1>2, QuietStep

\* A request that ends and changes nothing.
LEMMA EndStep ==
  ASSUME IInv, NEW r \in Requests, Finish(r), UNCHANGED <<docs, raced>>
  PROVE  IInv'
<1>1. /\ IdleReq.pc = "idle" /\ IdleReq.kind = "none" /\ IdleReq.locks = {}
      /\ IdleReq.snap = {} /\ IdleReq.prev = 0
  BY DEF IdleReq
<1>2. ReqOK(IdleReq)
  BY <1>1 DEF ReqOK, PcOK, RefsOK, RetryOK, UploadOK, DeleteOK, Uploading, Deletion, Numbered
<1>3. IdleReq.pc \notin Numbered /\ ~ Adding(IdleReq)
  BY <1>1 DEF Numbered, Adding
<1>4. req' = [req EXCEPT ![r] = IdleReq]
  BY DEF Finish
<1>5. raced \subseteq Categories
  BY DEF IInv, TypeOK
<1> HIDE DEF Finish
<1>6. QED BY <1>1, <1>2, <1>3, <1>4, <1>5, IdleTyped, QuietStep

\* What is known of the request that moves.
LEMMA ReqKnown ==
  ASSUME IInv, NEW r \in Requests
  PROVE  /\ TypeOK /\ req \in [Requests -> Request] /\ req[r] \in Request
         /\ ReqOK(req[r])
         /\ req[r].pc \in Numbered /\ req[r].cat \in SitePhotos
              => req[r].own \/ Adding(req[r])
BY DEF IInv, TypeOK, CheckOK

LEMMA LookStep == ASSUME IInv, NEW r \in Requests, LookForOwnPhoto(r) PROVE IInv'
<1> DEFINE own == Latest(req[r].cat) # {}
           n == [req[r] EXCEPT !.left = @ \ {"own"}, !.own = own]
<1>1. req[r].pc = "upload" /\ UNCHANGED <<docs, raced>>
  BY DEF LookForOwnPhoto
<1>2. own \in BOOLEAN
  OBVIOUS
<1>3. req' = [req EXCEPT ![r] = n]
  BY ReqKnown DEF LookForOwnPhoto
<1> HIDE DEF own
<1>4. n \in Request
  <2>1. req[r] \in Request
    BY ReqKnown
  <2>2. req[r].left \ {"own"} \in SUBSET {"own", "count"}
    BY <2>1 DEF Request
  <2>3. QED BY <1>2, <2>1, <2>2 DEF Request
<1>5. /\ n.pc = "upload" /\ n.kind = req[r].kind /\ n.cat = req[r].cat /\ n.own = own
      /\ n.locks = req[r].locks /\ n.snap = req[r].snap /\ n.prev = req[r].prev
      /\ n.row = req[r].row /\ n.base = req[r].base /\ n.attempt = req[r].attempt
      /\ n.full = req[r].full /\ n.left = req[r].left \ {"own"}
  BY <1>1, ReqKnown DEF Request
<1> HIDE DEF n
<1>6. ReqOK(n)
  <2>1. own => Latest(n.cat) # {}
    BY <1>5 DEF own
  <2>2. PcOK(n) /\ RefsOK(n) /\ RetryOK(n)
    BY <1>1, <1>5, ReqKnown DEF ReqOK, PcOK, RefsOK, RetryOK, Numbered
  <2>3. n.kind = "upload" /\ n.pc \notin Numbered
    BY <1>5, <2>2 DEF PcOK, Uploading, Numbered
  <2>4. UploadOK(n) /\ DeleteOK(n)
    BY <1>5, <2>1, <2>3 DEF UploadOK, DeleteOK
  <2>5. QED BY <2>2, <2>4 DEF ReqOK
<1>7. n.pc \notin Numbered
  BY <1>5 DEF Numbered
<1>8. raced = {} /\ Adding(n) => Adding(req[r])
  <2> SUFFICES ASSUME raced = {}, Adding(n) PROVE Adding(req[r])
    OBVIOUS
  <2>1. Latest(req[r].cat) = {} /\ req[r].kind = "upload"
    BY <1>5 DEF own, Adding
  <2>2. ~ req[r].own
    BY <2>1, ReqKnown DEF ReqOK, UploadOK
  <2>3. QED
    BY <1>5, <2>2 DEF Adding
<1>9. QED BY <1>1, <1>3, <1>4, <1>5, <1>6, <1>7, <1>8, MoveStep

LEMMA CountStep == ASSUME IInv, NEW r \in Requests, CountPhotos(r) PROVE IInv'
<1> DEFINE full == MaxPhotos <= Cardinality(Photos)
           n == [req[r] EXCEPT !.left = @ \ {"count"}, !.full = full]
<1>1. req[r].pc = "upload" /\ UNCHANGED <<docs, raced>>
  BY DEF CountPhotos
<1>2. full \in BOOLEAN
  OBVIOUS
<1>3. req' = [req EXCEPT ![r] = n]
  BY ReqKnown DEF CountPhotos
<1>4. ~ full => Cardinality(Photos) < MaxPhotos
  BY PhotosFinite, FS_CardinalityType, DocumentAssumption, ReqKnown
<1> HIDE DEF full
<1>5. n \in Request
  <2>1. req[r] \in Request
    BY ReqKnown
  <2>2. req[r].left \ {"count"} \in SUBSET {"own", "count"}
    BY <2>1 DEF Request
  <2>3. QED BY <1>2, <2>1, <2>2 DEF Request
<1>6. /\ n.pc = "upload" /\ n.kind = req[r].kind /\ n.cat = req[r].cat
      /\ n.locks = req[r].locks /\ n.snap = req[r].snap /\ n.prev = req[r].prev
      /\ n.row = req[r].row /\ n.base = req[r].base /\ n.attempt = req[r].attempt
      /\ n.own = req[r].own /\ n.full = full
  BY <1>1, ReqKnown DEF Request
<1> HIDE DEF n
<1>7. ReqOK(n)
  <2>1. PcOK(n) /\ RefsOK(n) /\ RetryOK(n)
    BY <1>1, <1>6, ReqKnown DEF ReqOK, PcOK, RefsOK, RetryOK, Numbered
  <2>2. n.kind = "upload" /\ n.pc \notin Numbered /\ n.pc # "promote"
    BY <1>6, <2>1 DEF PcOK, Uploading, Numbered
  <2>3. n.cat \notin raced => UploadOK(n) /\ DeleteOK(n)
    BY <1>6, <2>2, ReqKnown DEF ReqOK, UploadOK, DeleteOK, Numbered
  <2>4. QED BY <2>1, <2>3 DEF ReqOK
<1>8. n.pc \notin Numbered
  BY <1>6 DEF Numbered
<1>9. Adding(n) => Cardinality(Photos) < MaxPhotos
  BY <1>4, <1>6 DEF Adding
<1>10. QED BY <1>1, <1>3, <1>5, <1>6, <1>7, <1>8, <1>9, MoveStep

LEMMA ReadStep == ASSUME IInv, NEW r \in Requests, ReadMaxVersion(r) PROVE IInv'
<1> DEFINE rows == Live(req[r].cat)
           top == Highest(rows)
<1>1. PICK v \in {docs[i].version : i \in top} \cup {0} :
        /\ v = 0 => top = {}
        /\ req' = [req EXCEPT ![r].pc = "clear", ![r].next = v + 1]
  BY DEF ReadMaxVersion
<1> DEFINE n == [req[r] EXCEPT !.pc = "clear", !.next = v + 1]
<1>2. /\ req[r].pc = "upload" /\ req[r].left = {} /\ (req[r].own \/ ~ req[r].full)
      /\ UNCHANGED <<docs, raced>>
  BY DEF ReadMaxVersion
<1>3. rows \subseteq DOMAIN docs /\ top \subseteq rows
  BY DEF Live, Highest
<1>4. v \in Nat
  BY <1>1, <1>3, ReqKnown, DocsTyped
<1>5. /\ \A i \in rows : docs[i].version < v + 1
      /\ v = 0 \/ \E i \in rows : docs[i].version = v
  <2>1. CASE v = 0
    <3>1. rows = {}
      BY <1>1, <1>3, <2>1 DEF IInv, RowsOK
    <3>2. QED BY <2>1, <3>1
  <2>2. CASE v # 0
    <3>1. PICK j \in top : docs[j].version = v
      BY <1>1, <2>2
    <3>2. \A i \in rows : docs[i].version <= v
      BY <3>1 DEF Highest
    <3>3. \A i \in rows : docs[i].version \in Nat
      BY <1>3, ReqKnown, DocsTyped
    <3>4. QED BY <1>3, <1>4, <3>1, <3>2, <3>3
  <2>3. QED BY <2>1, <2>2
<1>6. req' = [req EXCEPT ![r] = n]
  BY <1>1, ReqKnown
<1>7. n \in Request
  <2>1. req[r] \in Request /\ v + 1 \in Nat \ {0}
    BY <1>4, ReqKnown
  <2>2. QED BY <2>1 DEF Request
<1>8. /\ n.pc = "clear" /\ n.kind = req[r].kind /\ n.cat = req[r].cat /\ n.next = v + 1
      /\ n.locks = req[r].locks /\ n.snap = req[r].snap /\ n.prev = req[r].prev
      /\ n.row = req[r].row /\ n.base = req[r].base /\ n.attempt = req[r].attempt
      /\ n.own = req[r].own /\ n.full = req[r].full /\ n.left = {}
  BY <1>2, ReqKnown DEF Request
<1> HIDE DEF n
<1>9. n.kind = "upload"
  BY <1>2, <1>8, ReqKnown DEF ReqOK, PcOK, Uploading
<1>10. ReqOK(n)
  <2>1. PcOK(n) /\ RefsOK(n)
    BY <1>8, <1>9, ReqKnown DEF ReqOK, PcOK, RefsOK, Uploading, Deletion
  <2>2. RetryOK(n)
    <3>1. n.base + (n.attempt - 1) <= Len(docs)
      BY <1>8, <1>9, ReqKnown DEF ReqOK, RetryOK
    <3>2. \A i \in Live(n.cat) : ~ (docs[i].version >= n.next)
      BY <1>3, <1>4, <1>5, <1>8, ReqKnown, DocsTyped
    <3>3. QED BY <3>1, <3>2 DEF RetryOK
  <2>3. Fresh(n)
    BY <1>4, <1>5, <1>8 DEF Fresh
  <2>4. n.cat \notin raced => UploadOK(n) /\ DeleteOK(n)
    BY <1>8, <1>9, <2>3, ReqKnown DEF ReqOK, UploadOK, DeleteOK
  <2>5. QED BY <2>1, <2>2, <2>4 DEF ReqOK
<1>11. /\ n.cat \in SitePhotos => n.own \/ Adding(n)
       /\ Adding(n) => Adding(req[r])
  BY <1>2, <1>8, <1>9 DEF Adding
<1>12. QED BY <1>2, <1>6, <1>7, <1>8, <1>10, <1>11, MoveStep

LEMMA PickStep == ASSUME IInv, NEW r \in Requests, PickLatest(r) PROVE IInv'
<1> DEFINE snap == Latest(req[r].cat)
           n == [req[r] EXCEPT !.pc = "lock", !.snap = snap]
<1>1. req[r].pc = "clear" /\ UNCHANGED <<docs, raced>>
  BY DEF PickLatest
<1>2. req' = [req EXCEPT ![r] = n]
  BY ReqKnown DEF PickLatest
<1>3. snap \subseteq Rows(req[r].cat) /\ snap \in SUBSET Nat
  BY ReqKnown, DocsTyped DEF Latest, Live, Rows
<1> HIDE DEF snap
<1>4. req[r] \in Request
  BY ReqKnown
<1>5. n \in Request
  BY <1>3, <1>4 DEF Request
<1>6. /\ n.pc = "lock" /\ n.kind = req[r].kind /\ n.cat = req[r].cat
      /\ n.next = req[r].next /\ n.locks = req[r].locks /\ n.snap = snap
      /\ n.prev = req[r].prev /\ n.row = req[r].row /\ n.base = req[r].base
      /\ n.attempt = req[r].attempt /\ n.own = req[r].own /\ n.full = req[r].full
      /\ n.left = req[r].left
  BY <1>1, <1>4 DEF Request
<1> HIDE DEF n
<1>7. ReqOK(n)
  <2>1. PcOK(n) /\ RefsOK(n) /\ RetryOK(n)
    BY <1>1, <1>3, <1>6, ReqKnown
       DEF ReqOK, PcOK, RefsOK, RetryOK, Uploading, Deletion, Numbered
  <2>2. (Fresh(n) <=> Fresh(req[r])) /\ (Taken(n) <=> Taken(req[r]))
    BY <1>6 DEF Fresh, Taken
  <2>3. n.kind = "upload" /\ req[r].kind = "upload" /\ req[r].pc \in Numbered
    BY <1>1, <1>6, ReqKnown DEF ReqOK, PcOK, Uploading, Numbered
  <2>4. n.cat \notin raced => UploadOK(n)
    BY <1>1, <1>6, <2>2, <2>3, ReqKnown DEF snap, ReqOK, UploadOK
  <2>5. DeleteOK(n)
    BY <1>6, <2>3 DEF DeleteOK
  <2>6. QED BY <2>1, <2>4, <2>5 DEF ReqOK
<1>8. /\ n.cat \in SitePhotos => n.own \/ Adding(n)
      /\ Adding(n) => Adding(req[r])
  BY <1>1, <1>6, ReqKnown DEF Adding, Numbered
<1>9. QED BY <1>1, <1>2, <1>5, <1>6, <1>7, <1>8, MoveStep

LEMMA LockStep == ASSUME IInv, NEW r \in Requests, LockLatest(r) PROVE IInv'
<1> DEFINE locks == req[r].snap \cap Latest(req[r].cat)
           n == [req[r] EXCEPT !.pc = "insert", !.snap = {}, !.locks = locks]
<1>1. req[r].pc = "lock" /\ UNCHANGED <<docs, raced>>
  BY DEF LockLatest
<1>2. req' = [req EXCEPT ![r] = n]
  BY ReqKnown DEF LockLatest
<1>3. locks \subseteq Rows(req[r].cat) /\ locks \in SUBSET Nat
  BY ReqKnown, DocsTyped DEF Latest, Live, Rows
<1>4. req[r].snap = Latest(req[r].cat) => locks = Latest(req[r].cat)
  OBVIOUS
<1> HIDE DEF locks
<1>5. req[r] \in Request
  BY ReqKnown
<1>6. n \in Request
  BY <1>3, <1>5 DEF Request
<1>7. /\ n.pc = "insert" /\ n.kind = req[r].kind /\ n.cat = req[r].cat
      /\ n.next = req[r].next /\ n.locks = locks /\ n.snap = {}
      /\ n.prev = req[r].prev /\ n.row = req[r].row /\ n.base = req[r].base
      /\ n.attempt = req[r].attempt /\ n.own = req[r].own /\ n.full = req[r].full
      /\ n.left = req[r].left
  BY <1>1, <1>5 DEF Request
<1> HIDE DEF n
<1>8. ReqOK(n)
  <2>1. PcOK(n) /\ RefsOK(n) /\ RetryOK(n)
    BY <1>1, <1>3, <1>7, ReqKnown
       DEF ReqOK, PcOK, RefsOK, RetryOK, Uploading, Deletion, Numbered
  <2>2. (Fresh(n) <=> Fresh(req[r])) /\ (Taken(n) <=> Taken(req[r]))
    BY <1>7 DEF Fresh, Taken
  <2>3. n.kind = "upload" /\ req[r].kind = "upload" /\ req[r].pc \in Numbered
    BY <1>1, <1>7, ReqKnown DEF ReqOK, PcOK, Uploading, Numbered
  <2>4. n.cat \notin raced => UploadOK(n)
    BY <1>1, <1>4, <1>7, <2>2, <2>3, ReqKnown DEF ReqOK, UploadOK
  <2>5. DeleteOK(n)
    BY <1>7, <2>3 DEF DeleteOK
  <2>6. QED BY <2>1, <2>4, <2>5 DEF ReqOK
<1>9. /\ n.cat \in SitePhotos => n.own \/ Adding(n)
      /\ Adding(n) => Adding(req[r])
  BY <1>1, <1>7, ReqKnown DEF Adding, Numbered
<1>10. QED BY <1>1, <1>2, <1>6, <1>7, <1>8, <1>9, MoveStep

\* An attempt that fails has been overtaken: the number it held was stored
\* after it read the maximum.
LEMMA ConflictStep == ASSUME IInv, NEW r \in Requests, VersionConflict(r) PROVE IInv'
<1> DEFINE n == [req[r] EXCEPT !.pc = "upload", !.locks = {}, !.attempt = @ + 1]
<1>1. /\ req[r].pc = "insert" /\ UNCHANGED <<docs, raced>>
      /\ SameVersion(r) # {}
  BY DEF VersionConflict
<1>2. CASE ~ (req[r].attempt < MaxAttempts)
  BY <1>1, <1>2, EndStep DEF VersionConflict
<1>3. CASE req[r].attempt < MaxAttempts
  <2>1. req' = [req EXCEPT ![r] = n]
    BY <1>3, ReqKnown DEF VersionConflict
  <2>2. req[r] \in Request /\ req[r].attempt + 1 \in 1 .. MaxAttempts
    BY <1>3, ReqKnown, DocumentAssumption DEF Request
  <2>3. n \in Request
    BY <2>2 DEF Request
  <2>4. /\ n.pc = "upload" /\ n.kind = req[r].kind /\ n.cat = req[r].cat
        /\ n.locks = {} /\ n.snap = req[r].snap
        /\ n.prev = req[r].prev /\ n.row = req[r].row /\ n.base = req[r].base
        /\ n.attempt = req[r].attempt + 1 /\ n.own = req[r].own /\ n.full = req[r].full
        /\ n.left = req[r].left
    BY <2>2 DEF Request
  <2>5. req[r].base + req[r].attempt <= Len(docs)
    <3>1. PICK i \in Live(req[r].cat) : docs[i].version = req[r].next
      BY <1>1 DEF SameVersion
    <3>2. i \in 1 .. Len(docs) /\ docs[i].version \in Nat /\ Len(docs) \in Nat
      BY ReqKnown, DocsTyped DEF Live
    <3>3. docs[i].version >= req[r].next
      BY <3>1, <3>2
    <3>4. req[r].base + (req[r].attempt - 1) < i
      BY <1>1, <3>1, <3>3, ReqKnown DEF ReqOK, RetryOK, Numbered
    <3>5. req[r].base \in Nat /\ req[r].attempt \in Nat
      BY <2>2, DocumentAssumption DEF Request
    <3>6. QED BY <3>2, <3>4, <3>5
  <2> HIDE DEF n
  <2>6. ReqOK(n)
    <3>1. PcOK(n) /\ RefsOK(n) /\ n.kind = "upload"
      BY <1>1, <2>4, ReqKnown DEF ReqOK, PcOK, RefsOK, Uploading, Deletion
    <3>2. RetryOK(n)
      BY <2>2, <2>4, <2>5, DocumentAssumption DEF RetryOK, Numbered, Request
    <3>3. n.cat \notin raced => UploadOK(n) /\ DeleteOK(n)
      BY <2>4, <3>1, ReqKnown DEF ReqOK, UploadOK, DeleteOK, Numbered
    <3>4. QED BY <3>1, <3>2, <3>3 DEF ReqOK
  <2>7. n.pc \notin Numbered /\ (Adding(n) => Adding(req[r]))
    BY <2>4 DEF Adding, Numbered
  <2>8. QED BY <1>1, <2>1, <2>3, <2>4, <2>6, <2>7, MoveStep
<1>4. QED BY <1>2, <1>3

LEMMA DeleteRowStep == ASSUME IInv, NEW r \in Requests, DeleteRow(r) PROVE IInv'
<1> DEFINE n == [req[r] EXCEPT !.pc = "find", !.locks = {req[r].row}]
<1>1. req[r].pc = "delete" /\ UNCHANGED <<docs, raced>>
  BY DEF DeleteRow
<1>2. req' = [req EXCEPT ![r] = n]
  BY ReqKnown DEF DeleteRow
<1>3. req[r] \in Request
  BY ReqKnown
<1>4. n \in Request
  BY <1>3 DEF Request
<1>5. /\ n.pc = "find" /\ n.kind = req[r].kind /\ n.cat = req[r].cat
      /\ n.locks = {n.row} /\ n.snap = req[r].snap
      /\ n.prev = req[r].prev /\ n.row = req[r].row
      /\ n.wasLatest = req[r].wasLatest /\ n.base = req[r].base
  BY <1>3 DEF Request
<1> HIDE DEF n
<1>6. n.kind = "delete"
  BY <1>1, <1>5, ReqKnown DEF ReqOK, PcOK, Deletion
<1>7. ReqOK(n)
  <2>1. PcOK(n) /\ RefsOK(n) /\ RetryOK(n)
    BY <1>1, <1>5, <1>6, ReqKnown
       DEF ReqOK, PcOK, RefsOK, RetryOK, Uploading, Deletion, Numbered
  <2>2. n.cat \notin raced => UploadOK(n) /\ DeleteOK(n)
    BY <1>5, <1>6, ReqKnown DEF ReqOK, UploadOK, DeleteOK, Numbered
  <2>3. QED BY <2>1, <2>2 DEF ReqOK
<1>8. n.pc \notin Numbered /\ ~ Adding(n)
  BY <1>5, <1>6 DEF Adding, Numbered
<1>9. QED BY <1>1, <1>2, <1>4, <1>5, <1>7, <1>8, MoveStep

LEMMA FindStep == ASSUME IInv, NEW r \in Requests, FindPrevious(r) PROVE IInv'
<1> DEFINE others == Live(req[r].cat) \ {req[r].row}
<1>1. PICK p \in IF req[r].wasLatest /\ others # {} THEN Highest(others) ELSE {0} :
         req' = [req EXCEPT ![r].pc = "promote", ![r].prev = p]
  BY DEF FindPrevious
<1> DEFINE n == [req[r] EXCEPT !.pc = "promote", !.prev = p]
<1>2. req[r].pc = "find" /\ UNCHANGED <<docs, raced>>
  BY DEF FindPrevious
<1>3. req[r] \in Request
  BY ReqKnown
<1>4. p \in Rows(req[r].cat) \cup {0} /\ p \in Nat
  <2>1. Highest(others) \subseteq Rows(req[r].cat)
    BY DEF Highest, Live, Rows
  <2>2. Rows(req[r].cat) \subseteq Nat
    BY ReqKnown, DocsTyped DEF Rows
  <2>3. p \in Highest(others) \/ p = 0
    BY <1>1
  <2>4. QED BY <2>1, <2>2, <2>3
<1>5. req' = [req EXCEPT ![r] = n]
  BY <1>1, ReqKnown
<1>6. n \in Request
  BY <1>3, <1>4 DEF Request
<1>7. /\ n.pc = "promote" /\ n.kind = req[r].kind /\ n.cat = req[r].cat
      /\ n.locks = req[r].locks /\ n.snap = req[r].snap
      /\ n.prev = p /\ n.row = req[r].row
      /\ n.wasLatest = req[r].wasLatest /\ n.base = req[r].base
  BY <1>3 DEF Request
<1> HIDE DEF n
<1>8. n.kind = "delete"
  BY <1>2, <1>7, ReqKnown DEF ReqOK, PcOK, Deletion
<1>9. ReqOK(n)
  <2>1. PcOK(n) /\ RefsOK(n) /\ RetryOK(n)
    BY <1>2, <1>4, <1>7, <1>8, ReqKnown
       DEF ReqOK, PcOK, RefsOK, RetryOK, Uploading, Deletion, Numbered
  <2>2. n.cat \notin raced => UploadOK(n) /\ DeleteOK(n)
    BY <1>1, <1>7, <1>8, ReqKnown DEF ReqOK, UploadOK, DeleteOK, Numbered
  <2>3. QED BY <2>1, <2>2 DEF ReqOK
<1>10. n.pc \notin Numbered /\ ~ Adding(n)
  BY <1>7, <1>8 DEF Adding, Numbered
<1>11. QED BY <1>2, <1>5, <1>6, <1>7, <1>9, <1>10, MoveStep

-----------------------------------------------------------------------------
(* The insert of a version *)

\* The row that is stored.
Last == Len(docs) + 1

LEMMA InsertRows ==
  ASSUME IInv, NEW r \in Requests, InsertVersion(r)
  PROVE  /\ docs' \in Seq(Doc) /\ Len(docs') = Last /\ Last \notin DOMAIN docs
         /\ DOMAIN docs' = DOMAIN docs \cup {Last}
         /\ \A i \in DOMAIN docs :
               /\ docs'[i].cat = docs[i].cat /\ docs'[i].version = docs[i].version
               /\ docs'[i].live = docs[i].live
               /\ docs'[i].latest <=> docs[i].latest /\ i \notin req[r].locks
         /\ docs'[Last].cat = req[r].cat /\ docs'[Last].version = req[r].next
         /\ docs'[Last].latest /\ docs'[Last].live
<1> DEFINE k == Last
           L == req[r].locks
           kept == [i \in DOMAIN docs |-> [docs[i] EXCEPT !.latest = @ /\ i \notin L]]
           new == [cat |-> req[r].cat, version |-> req[r].next, latest |-> TRUE, live |-> TRUE]
<1>1. TypeOK /\ req[r] \in Request /\ DOMAIN docs = 1 .. Len(docs) /\ Len(docs) \in Nat
  BY ReqKnown, DocsTyped
<1>2. ASSUME NEW i \in DOMAIN docs
      PROVE  /\ kept[i] \in Doc
             /\ kept[i].cat = docs[i].cat /\ kept[i].version = docs[i].version
             /\ kept[i].live = docs[i].live
             /\ kept[i].latest <=> docs[i].latest /\ i \notin L
  <2> DEFINE b == docs[i].latest /\ i \notin L
  <2>1. docs[i] \in Doc
    BY <1>1, DocsTyped
  <2>2. b \in BOOLEAN /\ kept[i] = [docs[i] EXCEPT !.latest = b]
    OBVIOUS
  <2> HIDE DEF b
  <2>3. [docs[i] EXCEPT !.latest = b] \in Doc
    BY <2>1, <2>2 DEF Doc
  <2>4. /\ kept[i].cat = docs[i].cat /\ kept[i].version = docs[i].version
        /\ kept[i].live = docs[i].live /\ kept[i].latest = b
    BY <2>1, <2>2 DEF Doc
  <2>5. QED BY <2>2, <2>3, <2>4 DEF b
<1>3. new \in Doc
  BY <1>1 DEF Request, Doc
<1>4. kept \in [1 .. Len(docs) -> Doc]
  BY <1>1, <1>2
<1>5. kept \in Seq(Doc) /\ Len(kept) = Len(docs)
  BY <1>1, <1>4, SeqDef, LenProperties
<1>6. docs' = Append(kept, new)
  BY DEF InsertVersion
<1> HIDE DEF kept, new
<1>7. /\ docs' \in Seq(Doc) /\ Len(docs') = k /\ docs'[k] = new
      /\ \A i \in 1 .. Len(docs) : docs'[i] = kept[i]
  BY <1>1, <1>3, <1>5, <1>6, AppendProperties DEF Last
<1>8. DOMAIN docs' = DOMAIN docs \cup {k} /\ k \notin DOMAIN docs
  BY <1>1, <1>7, LenProperties DEF Last
<1>9. QED BY <1>1, <1>2, <1>7, <1>8 DEF new

\* The sets of rows, of the category and of all others.
LEMMA InsertSets ==
  ASSUME IInv, NEW r \in Requests, InsertVersion(r)
  PROVE  /\ \A d : Rows(d) \subseteq Rows(d)'
         /\ \A d : Live(d)' = IF d = req[r].cat THEN Live(d) \cup {Last} ELSE Live(d)
         /\ \A d : Latest(d)' = IF d = req[r].cat THEN (Latest(d) \ req[r].locks) \cup {Last}
                               ELSE Latest(d)
<1>1. req[r].locks \subseteq Rows(req[r].cat)
  BY ReqKnown DEF ReqOK, RefsOK
<1>2. /\ Last \notin DOMAIN docs /\ DOMAIN docs' = DOMAIN docs \cup {Last}
      /\ \A i \in DOMAIN docs :
            /\ docs'[i].cat = docs[i].cat /\ docs'[i].live = docs[i].live
            /\ docs'[i].latest <=> docs[i].latest /\ i \notin req[r].locks
      /\ docs'[Last].cat = req[r].cat /\ docs'[Last].latest /\ docs'[Last].live
  BY InsertRows
<1>3. \A d : Rows(d) \subseteq Rows(d)'
  BY <1>2 DEF Rows
<1>4. ASSUME NEW d, d = req[r].cat
      PROVE  Live(d)' = Live(d) \cup {Last}
             /\ Latest(d)' = (Latest(d) \ req[r].locks) \cup {Last}
  <2>1. Live(d)' = Live(d) \cup {Last}
    BY <1>2, <1>4 DEF Live
  <2>2. Latest(d)' = (Latest(d) \ req[r].locks) \cup {Last}
    BY <1>2, <1>4 DEF Live, Latest
  <2>3. QED BY <2>1, <2>2
<1>5. ASSUME NEW d, d # req[r].cat PROVE Live(d)' = Live(d) /\ Latest(d)' = Latest(d)
  <2>1. \A i \in req[r].locks : docs[i].cat # d
    BY <1>1, <1>5 DEF Rows
  <2>2. Live(d)' = Live(d)
    BY <1>2, <1>5 DEF Live
  <2>3. QED BY <1>2, <1>5, <2>1 DEF Live, Latest
<1>6. QED BY <1>3, <1>4, <1>5

\* An insert that meets no delete stores the next number, and what it held was
\* the latest.
LEMMA InsertFresh ==
  ASSUME IInv, NEW r \in Requests, InsertVersion(r), req[r].cat \notin raced
  PROVE  Fresh(req[r]) /\ req[r].locks = Latest(req[r].cat)
<1>1. req[r].pc = "insert" /\ SameVersion(r) = {}
  BY DEF InsertVersion
<1>2. ~ Taken(req[r])
  BY <1>1 DEF SameVersion, Taken
<1>3. QED BY <1>1, <1>2, ReqKnown DEF ReqOK, UploadOK, Numbered

LEMMA InsertRowsOK == ASSUME IInv, NEW r \in Requests, InsertVersion(r) PROVE RowsOK'
<1>0. PICK c, k : c = req[r].cat /\ k = Last
  OBVIOUS
<1>1. /\ DOMAIN docs' = DOMAIN docs \cup {k} /\ k \notin DOMAIN docs
      /\ \A i \in DOMAIN docs :
            /\ docs'[i].cat = docs[i].cat /\ docs'[i].version = docs[i].version
            /\ docs'[i].live = docs[i].live
      /\ docs'[k].cat = c /\ docs'[k].version = req[r].next
  BY <1>0, InsertRows
<1>2. /\ req[r].next \in Nat
      /\ \A i \in DOMAIN docs : docs[i].version \in Nat
  BY ReqKnown, DocsTyped DEF Request
<1>3. RowsOK
  BY DEF IInv
<1>4. ASSUME NEW S \in SUBSET DOMAIN docs', S # {}
      PROVE  \E i \in S : \A j \in S : docs'[j].version <= docs'[i].version
  <2> DEFINE T == S \ {k}
  <2>1. T \in SUBSET DOMAIN docs
    BY <1>1
  <2>2. CASE T = {}
    BY <1>1, <1>2, <1>4, <2>2
  <2>3. CASE T # {}
    <3>1. PICK m \in T : \A j \in T : docs[j].version <= docs[m].version
      BY <1>3, <2>1, <2>3 DEF RowsOK, Highest
    <3>2. \A j \in T : docs'[j].version <= docs'[m].version
      BY <1>1, <2>1, <3>1
    <3>3. docs'[m].version \in Nat /\ docs'[k].version \in Nat
      BY <1>1, <1>2, <2>1
    <3>4. CASE k \in S /\ docs'[m].version < docs'[k].version
      <4>1. \A j \in T : docs'[j].version \in Nat
        BY <1>1, <1>2, <2>1
      <4>2. \A j \in S : docs'[j].version <= docs'[k].version
        BY <3>2, <3>3, <3>4, <4>1
      <4>3. QED BY <3>4, <4>2
    <3>5. CASE ~ (k \in S /\ docs'[m].version < docs'[k].version)
      <4>1. \A j \in S : docs'[j].version <= docs'[m].version
        BY <3>2, <3>3, <3>5
      <4>2. QED BY <4>1
    <3>6. QED BY <3>4, <3>5
  <2>4. QED BY <2>2, <2>3
<1>5. ASSUME NEW i \in DOMAIN docs', NEW j \in DOMAIN docs',
             docs'[i].live, docs'[j].live, docs'[i].cat = docs'[j].cat,
             docs'[i].version = docs'[j].version
      PROVE  i = j
  <2>1. \A m \in DOMAIN docs :
           ~ (docs[m].live /\ docs[m].cat = c /\ docs[m].version = req[r].next)
    BY <1>0 DEF InsertVersion, SameVersion, Live
  <2>2. QED BY <1>1, <1>3, <1>5, <2>1 DEF RowsOK
<1>6. QED BY <1>4, <1>5 DEF RowsOK, Highest

LEMMA InsertLatest ==
  ASSUME IInv, NEW r \in Requests, InsertVersion(r), NEW d \in Categories \ raced
  PROVE  OneLatest(d)'
<1>0. PICK c, k, L : c = req[r].cat /\ k = Last /\ L = req[r].locks
  OBVIOUS
<1>1. /\ DOMAIN docs' = DOMAIN docs \cup {k} /\ k \notin DOMAIN docs
      /\ \A i \in DOMAIN docs : docs'[i].version = docs[i].version
      /\ docs'[k].version = req[r].next
  BY <1>0, InsertRows
<1>2. /\ Live(c)' = Live(c) \cup {k} /\ Latest(c)' = (Latest(c) \ L) \cup {k}
      /\ d # c => Live(d)' = Live(d) /\ Latest(d)' = Latest(d)
  BY <1>0, InsertSets
<1>3. OneLatest(d) /\ Live(d) \subseteq DOMAIN docs
  BY DEF IInv, Live
<1>4. CASE d # c
  BY <1>1, <1>2, <1>3, <1>4 DEF OneLatest, Highest
<1>5. CASE d = c
  <2>1. Fresh(req[r]) /\ L = Latest(d)
    BY <1>0, <1>5, InsertFresh
  <2>2. Latest(d)' = {k} /\ Live(d)' = Live(d) \cup {k}
    BY <1>2, <1>5, <2>1
  <2>3. \A i \in Live(d) : docs'[i].version < docs'[k].version
    BY <1>0, <1>1, <1>3, <1>5, <2>1 DEF Fresh
  <2>4. /\ docs'[k].version \in Nat
        /\ \A i \in Live(d) : docs'[i].version \in Nat
    BY <1>1, <1>3, ReqKnown, DocsTyped DEF Request
  <2>5. Highest(Live(d))' = {k}
    BY <2>2, <2>3, <2>4 DEF Highest
  <2>6. QED BY <2>2, <2>5 DEF OneLatest
<1>6. QED BY <1>4, <1>5

\* Everybody else stays as good as before: who held the same number meets a
\* number that is taken.
LEMMA InsertOthers ==
  ASSUME IInv, NEW r \in Requests, InsertVersion(r), NEW q \in Request, ReqOK(q),
         \/ q.kind = "none"
         \/ \E s \in Requests \ {r} : q = req[s]
  PROVE  ReqOK(q)'
<1>0. PICK c, k, d : c = req[r].cat /\ k = Last /\ d = q.cat
  OBVIOUS
<1>1. /\ DOMAIN docs' = DOMAIN docs \cup {k} /\ k \notin DOMAIN docs /\ Len(docs') = k
      /\ \A i \in DOMAIN docs :
            /\ docs'[i].version = docs[i].version /\ docs'[i].live = docs[i].live
            /\ docs'[i].latest <=> docs[i].latest /\ i \notin req[r].locks
      /\ docs'[k].version = req[r].next
  BY <1>0, InsertRows
<1>2. /\ Rows(d) \subseteq Rows(d)'
      /\ Live(d)' = IF d = c THEN Live(d) \cup {k} ELSE Live(d)
      /\ Latest(d)' = IF d = c THEN (Latest(d) \ req[r].locks) \cup {k} ELSE Latest(d)
  BY <1>0, InsertSets
<1>3. /\ Live(d) \subseteq DOMAIN docs /\ Len(docs) \in Nat /\ k = Len(docs) + 1
      /\ \A i \in DOMAIN docs : docs[i].version \in Nat
      /\ req[r].pc = "insert" /\ req[r].kind = "upload" /\ req[r].next \in Nat
      /\ q.next \in Nat /\ q.base \in Nat /\ q.attempt \in Nat
      /\ raced' = raced
  <2>1. req[r].pc = "insert" /\ raced' = raced
    BY DEF InsertVersion
  <2>2. q.attempt \in Nat
    BY DocumentAssumption DEF Request
  <2>3. QED
    BY <1>0, <2>1, <2>2, ReqKnown, DocsTyped
       DEF Live, Last, Request, ReqOK, PcOK, Uploading
<1>4. PcOK(q)'
  BY DEF ReqOK, PcOK
<1>5. RefsOK(q)'
  BY <1>0, <1>2 DEF ReqOK, RefsOK
<1>6. RetryOK(q)'
  <2>1. q.kind = "upload" => q.base + (q.attempt - 1) < k
    BY <1>3 DEF ReqOK, RetryOK
  <2>2. q.pc \in Numbered => q.kind = "upload"
    BY DEF ReqOK, PcOK, Uploading, Numbered
  <2>3. ASSUME q.pc \in Numbered, NEW i \in Live(d)', docs'[i].version >= q.next
        PROVE  q.base + (q.attempt - 1) < i
    <3>1. CASE i = k
      BY <2>1, <2>2, <2>3, <3>1
    <3>2. CASE i # k
      <4>1. i \in Live(d) /\ docs[i].version >= q.next
        BY <1>1, <1>2, <1>3, <2>3, <3>2
      <4>2. QED BY <1>0, <2>3, <4>1 DEF ReqOK, RetryOK
    <3>3. QED BY <3>1, <3>2
  <2>4. QED BY <1>0, <1>1, <1>3, <2>1, <2>3 DEF RetryOK
<1>7. ASSUME d \notin raced PROVE UploadOK(q)' /\ DeleteOK(q)'
  <2>1. UploadOK(q) /\ DeleteOK(q)
    BY <1>0, <1>7 DEF ReqOK
  <2>2. q.kind \in {"none", "upload"} => q.pc # "promote" /\ q.kind # "delete"
    BY DEF ReqOK, PcOK, Deletion, Uploading
  <2>3. CASE q.kind = "none"
    <3>1. q.pc = "idle"
      BY <2>3 DEF ReqOK, PcOK
    <3>2. QED BY <2>2, <2>3, <3>1 DEF UploadOK, DeleteOK, Numbered
  <2>4. CASE q.kind # "none" /\ d = c
    <3>1. q.kind = "upload"
      BY <1>0, <1>3, <1>7, <2>4 DEF IInv, ApartOK
    <3>2. Fresh(req[r])
      BY <1>0, <1>7, <2>4, InsertFresh
    <3>3. ASSUME q.pc \in Numbered PROVE Taken(q)' /\ ~ Fresh(q)'
      <4>1. CASE Fresh(q)
        <5>1. req[r].next = q.next
          <6>1. /\ \A i \in Live(c) : docs[i].version < q.next
                /\ q.next = 1 \/ \E i \in Live(c) : docs[i].version = q.next - 1
            BY <1>0, <2>4, <4>1 DEF Fresh
          <6>2. /\ \A i \in Live(c) : docs[i].version < req[r].next
                /\ req[r].next = 1 \/ \E i \in Live(c) : docs[i].version = req[r].next - 1
            BY <1>0, <3>2 DEF Fresh
          <6>3. \A i \in Live(c) : docs[i].version \in Nat
            BY <1>0, <1>3, <2>4
          <6>4. q.next \in Nat \ {0} /\ req[r].next \in Nat \ {0}
            BY ReqKnown DEF Request
          <6>5. QED BY <6>1, <6>2, <6>3, <6>4
        <5>2. k \in Live(d)' /\ docs'[k].version = q.next
          BY <1>1, <1>2, <2>4, <5>1
        <5>3. QED BY <1>0, <1>3, <5>2 DEF Taken, Fresh
      <4>2. CASE ~ Fresh(q)
        <5>1. PICK i \in Live(d) : docs[i].version = q.next
          BY <1>0, <2>1, <3>3, <4>2 DEF UploadOK, Taken
        <5>2. i \in Live(d)' /\ docs'[i].version = q.next
          BY <1>1, <1>2, <1>3, <5>1
        <5>3. QED BY <1>0, <1>3, <5>2 DEF Taken, Fresh
      <4>3. QED BY <4>1, <4>2
    <3>4. Latest(d)' # {}
      BY <1>2, <2>4
    <3>5. UploadOK(q)'
      BY <1>0, <3>3, <3>4 DEF UploadOK, Numbered
    <3>6. DeleteOK(q)'
      BY <2>2, <3>1 DEF DeleteOK
    <3>7. QED BY <3>5, <3>6
  <2>5. CASE d # c
    <3>1. Live(d)' = Live(d) /\ Latest(d)' = Latest(d)
      BY <1>2, <2>5
    <3>2. \A i \in Live(d) : docs'[i].version = docs[i].version
      BY <1>1, <1>3
    <3>3. UploadOK(q)'
      BY <1>0, <2>1, <3>1, <3>2 DEF UploadOK, Fresh, Taken
    <3>4. Highest(Live(d) \ {q.row})' = Highest(Live(d) \ {q.row})
      BY <3>1, <3>2 DEF Highest
    <3>5. q.kind = "delete" => /\ docs'[q.row].live = docs[q.row].live
                               /\ docs'[q.row].latest <=> docs[q.row].latest
      <4>1. req[r].locks \subseteq Rows(c)
        BY <1>0, ReqKnown DEF ReqOK, RefsOK
      <4>2. q.kind = "delete" => q.row \in DOMAIN docs /\ q.row \notin req[r].locks
        BY <1>0, <2>5, <4>1 DEF ReqOK, RefsOK, Rows
      <4>3. QED BY <1>1, <4>2
    <3>6. DeleteOK(q)'
      BY <1>0, <2>1, <3>1, <3>4, <3>5 DEF DeleteOK
    <3>7. QED BY <3>3, <3>6
  <2>6. QED BY <2>3, <2>4, <2>5
<1>8. QED BY <1>0, <1>3, <1>4, <1>5, <1>6, <1>7 DEF ReqOK

\* What a request leaves behind that has ended: all others as they were.
LEMMA FinishKnown ==
  ASSUME IInv, NEW r \in Requests, Finish(r)
  PROVE  /\ req' \in [Requests -> Request]
         /\ \A q \in Requests : req'[q] = IF q = r THEN IdleReq ELSE req[q]
         /\ IdleReq.kind = "none" /\ IdleReq.pc = "idle" /\ IdleReq.prev = 0
         /\ IdleReq.locks = {} /\ IdleReq.snap = {}
         /\ Adders' = Adders \ {r}
<1>1. /\ req' \in [Requests -> Request]
      /\ \A q \in Requests : req'[q] = IF q = r THEN IdleReq ELSE req[q]
  BY ReqKnown, IdleTyped DEF Finish
<1>2. /\ IdleReq.kind = "none" /\ IdleReq.pc = "idle" /\ IdleReq.prev = 0
      /\ IdleReq.locks = {} /\ IdleReq.snap = {}
  BY DEF IdleReq
<1>3. Adders' = Adders \ {r}
  BY <1>1, <1>2 DEF Adders, Adding
<1>4. QED BY <1>1, <1>2, <1>3

\* The request that ends was one of those that add, or none of them.
LEMMA AddersShrink ==
  ASSUME IInv, NEW r \in Requests, Finish(r)
  PROVE  /\ Cardinality(Adders) \in Nat /\ Cardinality(Adders') \in Nat
         /\ Cardinality(Adders') = IF Adding(req[r]) THEN Cardinality(Adders) - 1
                                   ELSE Cardinality(Adders)
<1>1. IsFiniteSet(Adders) /\ Adders' = Adders \ {r}
  BY FinishKnown, RequestsFinite DEF Adders
<1>2. r \in Adders <=> Adding(req[r])
  BY DEF Adders
<1>3. QED BY <1>1, <1>2, FS_RemoveElement, FS_CardinalityType

LEMMA InsertPhotos == ASSUME IInv, NEW r \in Requests, InsertVersion(r) PROVE PhotosOK'
<1>0. PICK c, k, L : c = req[r].cat /\ k = Last /\ L = req[r].locks
  OBVIOUS
<1>1. raced' = raced /\ Finish(r) /\ req[r].pc = "insert"
  BY DEF InsertVersion
<1> SUFFICES ASSUME raced = {}
             PROVE  Cardinality(Photos') + Cardinality(Adders')
                      <= MaxPhotos + Cardinality(Requests) - 1
  BY <1>1 DEF PhotosOK
<1>2. /\ Cardinality(Photos) + Cardinality(Adders) <= MaxPhotos + Cardinality(Requests) - 1
      /\ IsFiniteSet(Photos) /\ Cardinality(Photos) \in Nat
      /\ Cardinality(Requests) \in Nat /\ MaxPhotos \in Nat
  BY ReqKnown, PhotosFinite, RequestsFinite, FS_CardinalityType, DocumentAssumption
     DEF IInv, PhotosOK
<1>3. \A d \in SitePhotos :
         Latest(d)' = IF d = c THEN (Latest(d) \ L) \cup {k} ELSE Latest(d)
  BY <1>0, InsertSets
<1>4. L = Latest(c) /\ c \in Categories
  BY <1>0, InsertFresh, ReqKnown DEF Request
<1>5. CASE c \notin SitePhotos
  <2>1. Photos' = Photos
    BY <1>3, <1>5 DEF Photos
  <2>2. QED BY <1>1, <1>2, <2>1, AddersShrink
<1>6. CASE c \in SitePhotos /\ Latest(c) = {}
  <2>1. Photos' = Photos \cup {k}
    BY <1>3, <1>4, <1>6 DEF Photos
  <2>2. Cardinality(Photos') <= Cardinality(Photos) + 1 /\ Cardinality(Photos') \in Nat
    BY <1>2, <2>1, AddOne
  <2>3. ~ req[r].own
    BY <1>0, <1>1, <1>6, ReqKnown DEF ReqOK, UploadOK, PcOK, Uploading
  <2>4. Adding(req[r])
    BY <1>0, <1>1, <1>6, <2>3, ReqKnown DEF Numbered
  <2>5. QED BY <1>1, <1>2, <2>2, <2>4, AddersShrink
<1>7. CASE c \in SitePhotos /\ Latest(c) # {}
  <2>1. PICK i \in Live(c) : Latest(c) = {i}
    BY <1>4, <1>7 DEF IInv, OneLatest, Latest
  <2>2. i \in Photos
    BY <1>7, <2>1 DEF Photos
  <2>3. \A d \in SitePhotos \ {c} : i \notin Latest(d)
    BY <2>1 DEF Latest, Live
  <2>4. Photos' = (Photos \ {i}) \cup {k}
    BY <1>3, <1>4, <1>7, <2>1, <2>3 DEF Photos
  <2>5. /\ IsFiniteSet(Photos \ {i}) /\ Cardinality(Photos \ {i}) = Cardinality(Photos) - 1
    BY <1>2, <2>2, FS_RemoveElement
  <2>6. Cardinality(Photos') <= Cardinality(Photos) /\ Cardinality(Photos') \in Nat
    <3>1. PICK S : S = Photos \ {i}
      OBVIOUS
    <3>2. Cardinality(S \cup {k}) <= Cardinality(S) + 1 /\ Cardinality(S \cup {k}) \in Nat
      BY <2>5, <3>1, AddOne
    <3>3. QED BY <1>2, <2>4, <2>5, <3>1, <3>2
  <2>7. QED BY <1>1, <1>2, <2>6, AddersShrink
<1>8. QED BY <1>5, <1>6, <1>7

\* A step that ends a request and writes rows.
LEMMA CommitStep ==
  ASSUME IInv, NEW r \in Requests, Finish(r), raced' = raced,
         docs' \in Seq(Doc), DOMAIN docs \subseteq DOMAIN docs',
         RowsOK', PhotosOK',
         \A d \in Categories \ raced : OneLatest(d)',
         \A q \in Request :
            /\ ReqOK(q)
            /\ q.kind = "none" \/ \E s \in Requests \ {r} : q = req[s]
            => ReqOK(q)'
  PROVE  IInv'
<1>1. /\ req' \in [Requests -> Request]
      /\ \A q \in Requests : req'[q] = IF q = r THEN IdleReq ELSE req[q]
      /\ IdleReq.kind = "none" /\ IdleReq.pc = "idle" /\ IdleReq.prev = 0
      /\ IdleReq.locks = {} /\ IdleReq.snap = {}
  BY FinishKnown
<1>2. TypeOK'
  <2>1. ASSUME NEW q \in Requests
        PROVE  /\ req'[q].locks \cup req'[q].snap \subseteq DOMAIN docs'
               /\ req'[q].kind = "delete" => req'[q].row \in DOMAIN docs'
               /\ req'[q].prev \in DOMAIN docs' \cup {0}
    <3>1. CASE q = r
      BY <1>1, <3>1
    <3>2. CASE q # r
      BY <1>1, <3>2 DEF IInv, TypeOK
    <3>3. QED BY <3>1, <3>2
  <2>2. raced' \subseteq Categories
    BY DEF IInv, TypeOK
  <2>3. QED BY <1>1, <2>1, <2>2 DEF TypeOK
<1>3. (\A q \in Requests : ReqOK(req[q]))'
  <2>1. ASSUME NEW q \in Requests, NEW m, m = req'[q] PROVE ReqOK(m)'
    <3>1. CASE q = r
      <4>1. ReqOK(m)
        BY <1>1, <2>1, <3>1
           DEF ReqOK, PcOK, RefsOK, RetryOK, UploadOK, DeleteOK, Uploading, Deletion, Numbered
      <4>2. QED BY <1>1, <2>1, <3>1, <4>1, IdleTyped
    <3>2. CASE q # r
      <4>1. m = req[q] /\ m \in Request /\ ReqOK(m)
        BY <1>1, <2>1, <3>2, ReqKnown
      <4>2. QED BY <3>2, <4>1
    <3>3. QED BY <3>1, <3>2
  <2>2. QED
    BY <2>1 DEF ReqOK, PcOK, RefsOK, Rows, RetryOK, UploadOK, DeleteOK, Fresh, Taken, Live,
                Latest, Highest
<1>4. ApartOK'
  BY <1>1 DEF IInv, ApartOK
<1>5. CheckOK'
  BY <1>1 DEF IInv, CheckOK, Adding, Numbered
<1>6. (\A d \in Categories \ raced : OneLatest(d))'
  OBVIOUS
<1>7. QED BY <1>2, <1>3, <1>4, <1>5, <1>6 DEF IInv

LEMMA InsertStep == ASSUME IInv, NEW r \in Requests, InsertVersion(r) PROVE IInv'
<1>1. /\ docs' \in Seq(Doc) /\ DOMAIN docs \subseteq DOMAIN docs'
  BY InsertRows
<1>2. Finish(r) /\ raced' = raced
  BY DEF InsertVersion
<1>3. QED
  BY <1>1, <1>2, InsertRowsOK, InsertPhotos, InsertLatest, InsertOthers, CommitStep

-----------------------------------------------------------------------------
(* The commit of a delete *)

LEMMA DeleteRows ==
  ASSUME IInv, NEW r \in Requests, CommitDelete(r)
  PROVE  /\ docs' \in Seq(Doc) /\ Len(docs') = Len(docs) /\ DOMAIN docs' = DOMAIN docs
         /\ \A i \in DOMAIN docs :
               /\ docs'[i].cat = docs[i].cat /\ docs'[i].version = docs[i].version
               /\ docs'[i].live <=> docs[i].live /\ i # req[r].row
               /\ docs'[i].latest <=> docs[i].latest \/ i = req[r].prev
<1>1. TypeOK /\ DOMAIN docs = 1 .. Len(docs) /\ Len(docs) \in Nat
  BY ReqKnown, DocsTyped
<1>2. docs' = [i \in DOMAIN docs |->
                 [docs[i] EXCEPT !.live = @ /\ i # req[r].row,
                                 !.latest = @ \/ i = req[r].prev]]
  BY DEF CommitDelete
<1>3. ASSUME NEW i \in DOMAIN docs
      PROVE  /\ docs'[i] \in Doc
             /\ docs'[i].cat = docs[i].cat /\ docs'[i].version = docs[i].version
             /\ docs'[i].live <=> docs[i].live /\ i # req[r].row
             /\ docs'[i].latest <=> docs[i].latest \/ i = req[r].prev
  <2> DEFINE live == docs[i].live /\ i # req[r].row
             latest == docs[i].latest \/ i = req[r].prev
  <2>1. docs[i] \in Doc
    BY <1>1, DocsTyped
  <2>2. /\ live \in BOOLEAN /\ latest \in BOOLEAN
        /\ docs'[i] = [docs[i] EXCEPT !.live = live, !.latest = latest]
    BY <1>2
  <2> HIDE DEF live, latest
  <2>3. /\ docs'[i] \in Doc
        /\ docs'[i].cat = docs[i].cat /\ docs'[i].version = docs[i].version
        /\ docs'[i].live = live /\ docs'[i].latest = latest
    BY <2>1, <2>2 DEF Doc
  <2>4. QED BY <2>2, <2>3 DEF live, latest
<1>4. docs' \in [1 .. Len(docs) -> Doc]
  BY <1>1, <1>2, <1>3
<1>5. docs' \in Seq(Doc) /\ Len(docs') = Len(docs)
  BY <1>1, <1>4, SeqDef, LenProperties
<1>6. QED BY <1>1, <1>3, <1>4, <1>5

\* The sets of rows, of the category and of all others.
LEMMA DeleteSets ==
  ASSUME IInv, NEW r \in Requests, CommitDelete(r)
  PROVE  /\ \A d : Rows(d)' = Rows(d)
         /\ \A d : Live(d)' = Live(d) \ {req[r].row}
         /\ \A d : d # req[r].cat => Live(d)' = Live(d) /\ Latest(d)' = Latest(d)
         /\ \A d : Latest(d)' \subseteq Latest(d) \cup {req[r].prev}
         /\ \A d : d = req[r].cat =>
               Latest(d)' = {i \in Live(d) : i # req[r].row /\
                                             (docs[i].latest \/ i = req[r].prev)}
<1>1. /\ req[r].pc = "promote" /\ req[r].row \in Rows(req[r].cat)
      /\ req[r].prev \in Rows(req[r].cat) \cup {0}
  BY ReqKnown DEF CommitDelete, ReqOK, PcOK, RefsOK, Deletion
<1>2. /\ DOMAIN docs' = DOMAIN docs
      /\ \A i \in DOMAIN docs :
            /\ docs'[i].cat = docs[i].cat
            /\ docs'[i].live <=> docs[i].live /\ i # req[r].row
            /\ docs'[i].latest <=> docs[i].latest \/ i = req[r].prev
  BY DeleteRows
<1>3. \A d : Rows(d)' = Rows(d)
  BY <1>2 DEF Rows
<1>4. \A d : Live(d)' = Live(d) \ {req[r].row}
  BY <1>2 DEF Live
<1>5. ASSUME NEW d
      PROVE  Latest(d)' = {i \in Live(d) : i # req[r].row /\
                                           (docs[i].latest \/ i = req[r].prev)}
  BY <1>2 DEF Live, Latest
<1>6. ASSUME NEW d, d # req[r].cat PROVE Live(d)' = Live(d) /\ Latest(d)' = Latest(d)
  <2>1. /\ \A i \in Live(d) : i \in DOMAIN docs /\ docs[i].cat = d
        /\ req[r].row \notin Live(d) /\ req[r].prev \notin Live(d)
    <3>1. 0 \notin DOMAIN docs
      BY ReqKnown, DocsTyped
    <3>2. QED BY <1>1, <1>6, <3>1 DEF Live, Rows
  <2>2. Live(d)' = Live(d)
    BY <1>4, <2>1
  <2>3. Latest(d)' = Latest(d)
    BY <1>5, <2>1 DEF Latest
  <2>4. QED BY <2>2, <2>3
<1>7. \A d : Latest(d)' \subseteq Latest(d) \cup {req[r].prev}
  BY <1>5 DEF Latest
<1>8. QED BY <1>3, <1>4, <1>5, <1>6, <1>7

\* A delete that meets nobody removes one row, and the version it promotes is
\* the highest that is left.
LEMMA DeleteAlone ==
  ASSUME IInv, NEW r \in Requests, CommitDelete(r), req[r].cat \notin raced,
         NEW c, c = req[r].cat, NEW others, others = Live(c) \ {req[r].row}
  PROVE  /\ req[r].row \in Live(c) /\ OneLatest(c)
         /\ req[r].wasLatest <=> req[r].row \in Latest(c)
         /\ IF req[r].wasLatest /\ others # {} THEN req[r].prev \in Highest(others)
            ELSE req[r].prev = 0
         /\ \A q \in Requests \ {r} : req[q].cat = c => req[q].kind = "none"
<1>1. req[r].pc = "promote" /\ req[r].kind = "delete"
  BY ReqKnown DEF CommitDelete, ReqOK, PcOK, Deletion
<1>2. /\ docs[req[r].row].live /\ (req[r].wasLatest <=> docs[req[r].row].latest)
      /\ IF req[r].wasLatest /\ others # {} THEN req[r].prev \in Highest(others)
         ELSE req[r].prev = 0
  BY <1>1, ReqKnown DEF ReqOK, DeleteOK
<1>3. req[r].row \in Live(c)
  BY <1>1, <1>2, ReqKnown DEF ReqOK, RefsOK, Rows, Live
<1>4. req[r].wasLatest <=> req[r].row \in Latest(c)
  BY <1>2, <1>3 DEF Latest
<1>5. c \in Categories \ raced /\ OneLatest(c)
  BY ReqKnown DEF Request, IInv
<1>6. \A q \in Requests \ {r} : req[q].cat = c => req[q].kind = "none"
  BY <1>1 DEF IInv, ApartOK
<1>7. QED BY <1>2, <1>3, <1>4, <1>5, <1>6

LEMMA DeleteRowsOK == ASSUME IInv, NEW r \in Requests, CommitDelete(r) PROVE RowsOK'
<1>1. /\ DOMAIN docs' = DOMAIN docs
      /\ \A i \in DOMAIN docs :
            /\ docs'[i].cat = docs[i].cat /\ docs'[i].version = docs[i].version
            /\ docs'[i].live => docs[i].live
  BY DeleteRows
<1>2. QED BY <1>1 DEF IInv, RowsOK, Highest

LEMMA DeleteLatest ==
  ASSUME IInv, NEW r \in Requests, CommitDelete(r), NEW d \in Categories \ raced
  PROVE  OneLatest(d)'
<1>1. /\ DOMAIN docs' = DOMAIN docs
      /\ \A i \in DOMAIN docs : docs'[i].version = docs[i].version
  BY DeleteRows
<1>2. /\ OneLatest(d) /\ Live(d) \subseteq DOMAIN docs
      /\ \A i, j \in Live(d) : docs[i].version = docs[j].version => i = j
  BY DEF IInv, RowsOK, Live
<1>3. CASE d # req[r].cat
  <2>1. Live(d)' = Live(d) /\ Latest(d)' = Latest(d)
    BY <1>3, DeleteSets
  <2>2. QED BY <1>1, <1>2, <2>1 DEF OneLatest, Highest
<1>4. CASE d = req[r].cat
  <2>0. PICK row, p, others :
           row = req[r].row /\ p = req[r].prev /\ others = Live(d) \ {row}
    OBVIOUS
  <2>1. /\ row \in Live(d)
        /\ req[r].wasLatest <=> row \in Latest(d)
        /\ IF req[r].wasLatest /\ others # {} THEN p \in Highest(others) ELSE p = 0
    BY <1>4, <2>0, DeleteAlone
  <2>2. /\ Live(d)' = others
        /\ Latest(d)' = {i \in Live(d) : i # row /\ (docs[i].latest \/ i = p)}
    BY <1>4, <2>0, DeleteSets
  <2>3. PICK i \in Live(d) : Latest(d) = {i} /\ Highest(Live(d)) = {i}
    BY <1>2, <2>1 DEF OneLatest
  <2>4. \A j \in Live(d) : docs[j].version \in Nat /\ (docs[j].latest <=> j = i)
    BY <1>2, <2>3, ReqKnown, DocsTyped DEF Latest
  <2>5. SUFFICES ASSUME others # {}
                 PROVE  \E j \in Live(d)' : Latest(d)' = {j} /\ Highest(Live(d))' = {j}
    BY <2>2 DEF OneLatest
  <2>6. Highest(Live(d))' = Highest(others)
    BY <1>1, <1>2, <2>0, <2>2 DEF Highest
  <2>7. CASE row = i
    <3>1. p \in Highest(others)
      BY <2>1, <2>3, <2>5, <2>7
    <3>2. Highest(others) = {p}
      <4>1. ASSUME NEW j \in Highest(others) PROVE j = p
        <5>1. docs[j].version <= docs[p].version /\ docs[p].version <= docs[j].version
          BY <3>1 DEF Highest
        <5>2. j \in Live(d) /\ p \in Live(d)
          BY <2>0, <3>1 DEF Highest
        <5>3. QED BY <1>2, <2>4, <5>1, <5>2
      <4>2. QED BY <3>1, <4>1
    <3>3. p \in others
      BY <3>1 DEF Highest
    <3>4. Latest(d)' = {p}
      BY <2>0, <2>2, <2>4, <2>7, <3>3
    <3>5. QED BY <2>2, <2>6, <3>2, <3>3, <3>4
  <2>8. CASE row # i
    <3>1. p = 0 /\ 0 \notin Live(d)
      BY <1>2, <2>1, <2>3, <2>8, ReqKnown, DocsTyped
    <3>2. i \in others
      BY <2>0, <2>3, <2>8
    <3>3. Latest(d)' = {i}
      BY <2>2, <2>3, <2>4, <2>8, <3>1
    <3>4. \A j \in Live(d) : docs[j].version <= docs[i].version
      BY <2>3 DEF Highest
    <3>5. i \in Highest(others)
      BY <2>0, <3>2, <3>4 DEF Highest
    <3>6. ASSUME NEW j \in Highest(others) PROVE j = i
      <4>1. docs[i].version <= docs[j].version /\ j \in Live(d)
        BY <2>0, <3>2 DEF Highest
      <4>2. QED BY <1>2, <2>3, <2>4, <3>4, <4>1
    <3>7. QED BY <2>2, <2>6, <3>2, <3>3, <3>5, <3>6
  <2>9. QED BY <2>7, <2>8
<1>5. QED BY <1>3, <1>4

LEMMA DeleteOthers ==
  ASSUME IInv, NEW r \in Requests, CommitDelete(r), NEW q \in Request, ReqOK(q),
         \/ q.kind = "none"
         \/ \E s \in Requests \ {r} : q = req[s]
  PROVE  ReqOK(q)'
<1>0. PICK d : d = q.cat
  OBVIOUS
<1>1. /\ DOMAIN docs' = DOMAIN docs /\ Len(docs') = Len(docs)
      /\ \A i \in DOMAIN docs :
            /\ docs'[i].version = docs[i].version
            /\ docs'[i].live <=> docs[i].live /\ i # req[r].row
            /\ docs'[i].latest <=> docs[i].latest \/ i = req[r].prev
  BY DeleteRows
<1>2. /\ Rows(d)' = Rows(d) /\ Live(d)' \subseteq Live(d) /\ Live(d) \subseteq DOMAIN docs
      /\ d # req[r].cat => Live(d)' = Live(d) /\ Latest(d)' = Latest(d)
  <2>1. Rows(d)' = Rows(d) /\ Live(d)' = Live(d) \ {req[r].row}
    BY DeleteSets
  <2>2. d # req[r].cat => Live(d)' = Live(d) /\ Latest(d)' = Latest(d)
    BY DeleteSets
  <2>3. Live(d) \subseteq DOMAIN docs
    BY DEF Live
  <2>4. QED BY <2>1, <2>2, <2>3
<1>3. raced' = raced
  BY DEF CommitDelete
<1>4. PcOK(q)' /\ RefsOK(q)'
  BY <1>0, <1>2 DEF ReqOK, PcOK, RefsOK
<1>5. RetryOK(q)'
  <2>1. RetryOK(q)
    BY DEF ReqOK
  <2>2. \A i \in Live(d)' : i \in Live(d) /\ docs'[i].version = docs[i].version
    BY <1>1, <1>2
  <2>3. QED BY <1>0, <1>1, <2>1, <2>2 DEF RetryOK
<1>6. ASSUME d \notin raced PROVE UploadOK(q)' /\ DeleteOK(q)'
  <2>1. UploadOK(q) /\ DeleteOK(q) /\ PcOK(q)
    BY <1>0, <1>6 DEF ReqOK
  <2>2. CASE q.kind = "none"
    <3>1. q.pc = "idle"
      BY <2>1, <2>2 DEF PcOK
    <3>2. QED BY <2>2, <3>1 DEF UploadOK, DeleteOK, Numbered
  <2>3. CASE q.kind # "none"
    <3>1. d # req[r].cat
      <4>1. PICK others : others = Live(d) \ {req[r].row}
        OBVIOUS
      <4>2. d = req[r].cat => \A s \in Requests \ {r} : req[s].cat = d => req[s].kind = "none"
        BY <1>6, <4>1, DeleteAlone
      <4>3. QED BY <1>0, <2>3, <4>2
    <3>2. Live(d)' = Live(d) /\ Latest(d)' = Latest(d)
      BY <1>2, <3>1
    <3>3. \A i \in Live(d) : docs'[i].version = docs[i].version
      BY <1>1, <1>2
    <3>4. UploadOK(q)'
      BY <1>0, <2>1, <3>2, <3>3 DEF UploadOK, Fresh, Taken
    <3>5. Highest(Live(d) \ {q.row})' = Highest(Live(d) \ {q.row})
      BY <3>2, <3>3 DEF Highest
    <3>6. q.kind = "delete" => /\ docs'[q.row].live <=> docs[q.row].live
                               /\ docs'[q.row].latest <=> docs[q.row].latest
      <4>1. /\ req[r].row \in Rows(req[r].cat)
            /\ req[r].prev \in Rows(req[r].cat) \cup {0}
        BY ReqKnown DEF CommitDelete, ReqOK, PcOK, RefsOK, Deletion
      <4>2. 0 \notin DOMAIN docs
        BY ReqKnown, DocsTyped
      <4>3. q.kind = "delete" =>
              q.row \in DOMAIN docs /\ q.row # req[r].row /\ q.row # req[r].prev
        BY <1>0, <3>1, <4>1, <4>2 DEF ReqOK, RefsOK, Rows
      <4>4. QED BY <1>1, <4>3
    <3>7. DeleteOK(q)'
      BY <1>0, <2>1, <3>2, <3>5, <3>6 DEF DeleteOK
    <3>8. QED BY <3>4, <3>7
  <2>4. QED BY <2>2, <2>3
<1>7. QED BY <1>0, <1>3, <1>4, <1>5, <1>6 DEF ReqOK

LEMMA DeletePhotos == ASSUME IInv, NEW r \in Requests, CommitDelete(r) PROVE PhotosOK'
<1>0. PICK c, row, p : c = req[r].cat /\ row = req[r].row /\ p = req[r].prev
  OBVIOUS
<1>1. raced' = raced /\ Finish(r)
  BY DEF CommitDelete
<1> SUFFICES ASSUME raced = {}
             PROVE  Cardinality(Photos') + Cardinality(Adders')
                      <= MaxPhotos + Cardinality(Requests) - 1
  BY <1>1 DEF PhotosOK
<1>2. /\ Cardinality(Photos) + Cardinality(Adders) <= MaxPhotos + Cardinality(Requests) - 1
      /\ IsFiniteSet(Photos) /\ Cardinality(Photos) \in Nat
      /\ Cardinality(Requests) \in Nat /\ MaxPhotos \in Nat
  BY ReqKnown, PhotosFinite, RequestsFinite, FS_CardinalityType, DocumentAssumption
     DEF IInv, PhotosOK
<1>3. Cardinality(Adders') <= Cardinality(Adders) /\ Cardinality(Adders') \in Nat
      /\ Cardinality(Adders) \in Nat
  BY <1>1, AddersShrink
<1>4. \A d \in SitePhotos : d # c => Latest(d)' = Latest(d)
  BY <1>0, DeleteSets
<1>5. CASE Latest(c)' \subseteq Latest(c) \/ c \notin SitePhotos
  <2>1. Photos' \subseteq Photos
    BY <1>4, <1>5 DEF Photos
  <2>2. Cardinality(Photos') <= Cardinality(Photos) /\ Cardinality(Photos') \in Nat
    BY <1>2, <2>1, FS_Subset, FS_CardinalityType
  <2>3. QED BY <1>2, <1>3, <2>2
<1>6. CASE ~ (Latest(c)' \subseteq Latest(c)) /\ c \in SitePhotos
  <2>1. Latest(c)' \subseteq Latest(c) \cup {p} /\ p \in Latest(c)' /\ p \in Live(c)
    BY <1>0, <1>6, DeleteSets
  <2>2. row \in Latest(c) /\ OneLatest(c)
    <3>1. 0 \notin Live(c)
      BY ReqKnown, DocsTyped DEF Live
    <3>2. PICK others : others = Live(c) \ {req[r].row}
      OBVIOUS
    <3>3. QED BY <1>0, <2>1, <3>1, <3>2, DeleteAlone
  <2>3. Latest(c) = {row}
    BY <2>2 DEF OneLatest, Latest
  <2>4. row \notin Latest(c)'
    BY <1>0, DeleteSets
  <2>5. \A d \in SitePhotos \ {c} : row \notin Latest(d)
    BY <2>2 DEF Latest, Live
  <2>6. Photos' = (Photos \ {row}) \cup {p} /\ row \in Photos
    BY <1>4, <1>6, <2>1, <2>3, <2>4, <2>5 DEF Photos
  <2>7. IsFiniteSet(Photos \ {row}) /\ Cardinality(Photos \ {row}) = Cardinality(Photos) - 1
    BY <1>2, <2>6, FS_RemoveElement
  <2>8. Cardinality(Photos') <= Cardinality(Photos) /\ Cardinality(Photos') \in Nat
    <3>1. PICK S : S = Photos \ {row}
      OBVIOUS
    <3>2. Cardinality(S \cup {p}) <= Cardinality(S) + 1 /\ Cardinality(S \cup {p}) \in Nat
      BY <2>7, <3>1, AddOne
    <3>3. QED BY <1>2, <2>6, <2>7, <3>1, <3>2
  <2>9. QED BY <1>2, <1>3, <2>8
<1>7. QED BY <1>5, <1>6

LEMMA DeleteStep == ASSUME IInv, NEW r \in Requests, CommitDelete(r) PROVE IInv'
<1>1. docs' \in Seq(Doc) /\ DOMAIN docs \subseteq DOMAIN docs'
  BY DeleteRows
<1>2. Finish(r) /\ raced' = raced
  BY DEF CommitDelete
<1>3. QED
  BY <1>1, <1>2, DeleteRowsOK, DeletePhotos, DeleteLatest, DeleteOthers, CommitStep

-----------------------------------------------------------------------------
(* The theorems *)

LEMMA InvStep == IInv /\ [Next]_vars => IInv'
<1> SUFFICES ASSUME IInv, [Next]_vars PROVE IInv'
  OBVIOUS
<1>1. ASSUME NEW r \in Requests, Rollback(r) PROVE IInv'
  BY <1>1, EndStep DEF Rollback
<1>2. CASE UNCHANGED vars
  BY <1>2 DEF vars, IInv, TypeOK, RowsOK, OneLatest, ReqOK, PcOK, RefsOK, RetryOK, UploadOK,
              DeleteOK, Fresh, Taken, ApartOK, CheckOK, PhotosOK, Adders, Adding, Photos,
              Latest, Live, Highest, Rows
<1>3. CASE Next
  BY <1>1, <1>3, StartUploadStep, LookStep, CountStep, ReadStep, PickStep, LockStep,
     InsertStep, ConflictStep, StartDeleteStep, DeleteRowStep, FindStep, DeleteStep DEF Next
<1>4. QED BY <1>2, <1>3

LEMMA InvInit == Init => IInv
<1> SUFFICES ASSUME Init PROVE IInv
  OBVIOUS
<1>1. /\ IdleReq.kind = "none" /\ IdleReq.pc = "idle" /\ IdleReq.prev = 0
      /\ IdleReq.locks = {} /\ IdleReq.snap = {}
  BY DEF IdleReq
<1>2. DOMAIN docs = {} /\ docs \in Seq(Doc)
  BY EmptySeq, LenProperties DEF Init
<1>3. req \in [Requests -> Request] /\ \A r \in Requests : req[r] = IdleReq
  BY IdleTyped DEF Init
<1>4. TypeOK
  BY <1>1, <1>2, <1>3 DEF Init, TypeOK
<1>5. RowsOK /\ \A c \in Categories : OneLatest(c)
  BY <1>2 DEF RowsOK, OneLatest, Live
<1>6. \A r \in Requests : ReqOK(req[r])
  BY <1>1, <1>3
     DEF ReqOK, PcOK, RefsOK, RetryOK, UploadOK, DeleteOK, Uploading, Deletion, Numbered
<1>7. ApartOK /\ CheckOK
  BY <1>1, <1>3 DEF ApartOK, CheckOK, Numbered
<1>8. PhotosOK
  <2>1. Photos = {} /\ Adders = {}
    BY <1>1, <1>2, <1>3 DEF Photos, Latest, Live, Adders, Adding
  <2>2. Cardinality(Requests) \in Nat \ {0} /\ MaxPhotos \in Nat
    BY DocumentAssumption, FS_EmptySet, FS_CardinalityType
  <2>3. QED BY <2>1, <2>2, FS_EmptySet DEF PhotosOK
<1>9. QED BY <1>4, <1>5, <1>6, <1>7, <1>8 DEF IInv

\* Every reachable state is well typed, for every value of the constants.
THEOREM TypeCorrect == Spec => []TypeOK
<1>1. IInv => TypeOK
  BY DEF IInv
<1>2. QED BY <1>1, InvInit, InvStep, PTL DEF Spec

\* One latest version with the highest number in every category that no delete
\* raced in, and retries for a reason only: however many uploads of the
\* category run at once, and however many attempts each of them has.
THEOREM VersionsSound == Spec => []VersionsAreSound
<1>1. IInv => VersionsAreSound
  BY DEF IInv, VersionsAreSound, OneLatestUnlessDeleteRaced, OneLatest, RetriesAreEarned,
         ReqOK, RetryOK
<1>2. QED BY <1>1, InvInit, InvStep, PTL DEF Spec

\* Without a race with a delete, the limit of the site photographs is exceeded
\* by the uploads that were in flight at once, and by no more.
THEOREM OvershootBounded == Spec => []SitePhotoOvershoot
<1>1. IInv => SitePhotoOvershoot
  <2> SUFFICES ASSUME IInv, raced = {}
               PROVE  Cardinality(Photos) <= MaxPhotos + Cardinality(Requests) - 1
    BY DEF SitePhotoOvershoot
  <2>1. Cardinality(Photos) + Cardinality(Adders) <= MaxPhotos + Cardinality(Requests) - 1
    BY DEF IInv, PhotosOK
  <2>2. /\ Cardinality(Photos) \in Nat /\ Cardinality(Adders) \in Nat
        /\ Cardinality(Requests) \in Nat /\ MaxPhotos \in Nat
    BY PhotosFinite, RequestsFinite, FS_CardinalityType, DocumentAssumption DEF IInv, Adders
  <2>3. QED BY <2>1, <2>2
<1>2. QED BY <1>1, InvInit, InvStep, PTL DEF Spec
=============================================================================
