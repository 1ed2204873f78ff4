------------------------- MODULE LeadPapers_proofs -------------------------
(***************************************************************************)
(* Proofs about the papers of a lead, DocumentDesk and CustomerForm as     *)
(* MCLeadPapers joins them, for every set of pictures, every limit of      *)
(* photographs, and any number of versions, faults and events: the types,  *)
(* when a photograph is replaced or stored twice, that what was typed is   *)
(* kept, and when a write undoes a newer one or evades the checks.         *)
(***************************************************************************)
EXTENDS MCLeadPapers, FiniteSetTheorems, SequenceTheorems, TLAPS

-----------------------------------------------------------------------------
(* The least and the greatest element of a finite set of numbers *)

LEMMA MaxExists ==
  ASSUME NEW T, T \subseteq Int, IsFiniteSet(T), T # {}
  PROVE  Max(T) \in T /\ \A y \in T : Max(T) >= y
<1> DEFINE Above(x) == {y \in T : y > x}
           F == {Above(x) : x \in T}
<1>1. F \subseteq FiniteSubsetsOf(T) /\ F # {}
  <2>1. \A x \in T : Above(x) \in SUBSET T /\ IsFiniteSet(Above(x))
    BY FS_Subset
  <2>2. QED BY <2>1 DEF FiniteSubsetsOf
<1>2. IsWellFoundedOn(StrictSubsetOrdering(T), FiniteSubsetsOf(T))
  BY FS_StrictSubsetOrderingWellFounded
<1>3. PICK U \in F : \A V \in F : ~ (<<V, U>> \in StrictSubsetOrdering(T))
  BY <1>1, <1>2, WFMin
<1>4. PICK x \in T : U = Above(x)
  BY <1>3
<1>5. Above(x) = {}
  <2>1. SUFFICES ASSUME NEW y \in Above(x) PROVE FALSE
    OBVIOUS
  <2>a. y \in T /\ y \in Int /\ x \in Int
    OBVIOUS
  <2>b. Above(y) \in F
    BY <2>a
  <2>c. y > x /\ ~ (y > y) /\ \A z \in Int : z > y => z > x
    BY <2>a, <2>1
  <2>d. Above(y) \subseteq Above(x)
    BY <2>c
  <2>2. Above(y) \in F /\ Above(y) \subseteq Above(x) /\ y \in Above(x) /\ y \notin Above(y)
    BY <2>1, <2>b, <2>c, <2>d
  <2>3. <<Above(y), Above(x)>> \in StrictSubsetOrdering(T)
    BY <2>2 DEF StrictSubsetOrdering
  <2>4. QED BY <1>3, <1>4, <2>2, <2>3
<1>6. \A y \in T : x >= y
  BY <1>5
<1>7. QED BY <1>6 DEF Max

LEMMA MinExists ==
  ASSUME NEW T, T \subseteq Int, IsFiniteSet(T), T # {}
  PROVE  Min(T) \in T /\ \A y \in T : Min(T) <= y
<1> DEFINE Below(x) == {y \in T : y < x}
           F == {Below(x) : x \in T}
<1>1. F \subseteq FiniteSubsetsOf(T) /\ F # {}
  <2>1. \A x \in T : Below(x) \in SUBSET T /\ IsFiniteSet(Below(x))
    BY FS_Subset
  <2>2. QED BY <2>1 DEF FiniteSubsetsOf
<1>2. IsWellFoundedOn(StrictSubsetOrdering(T), FiniteSubsetsOf(T))
  BY FS_StrictSubsetOrderingWellFounded
<1>3. PICK U \in F : \A V \in F : ~ (<<V, U>> \in StrictSubsetOrdering(T))
  BY <1>1, <1>2, WFMin
<1>4. PICK x \in T : U = Below(x)
  BY <1>3
<1>5. Below(x) = {}
  <2>1. SUFFICES ASSUME NEW y \in Below(x) PROVE FALSE
    OBVIOUS
  <2>a. y \in T /\ y \in Int /\ x \in Int
    OBVIOUS
  <2>b. Below(y) \in F
    BY <2>a
  <2>c. y < x /\ ~ (y < y) /\ \A z \in Int : z < y => z < x
    BY <2>a, <2>1
  <2>d. Below(y) \subseteq Below(x)
    BY <2>c
  <2>2. Below(y) \in F /\ Below(y) \subseteq Below(x) /\ y \in Below(x) /\ y \notin Below(y)
    BY <2>1, <2>b, <2>c, <2>d
  <2>3. <<Below(y), Below(x)>> \in StrictSubsetOrdering(T)
    BY <2>2 DEF StrictSubsetOrdering
  <2>4. QED BY <1>3, <1>4, <2>2, <2>3
<1>6. \A y \in T : x <= y
  BY <1>5
<1>7. QED BY <1>6 DEF Min

LEMMA MinOfTwo ==
  ASSUME NEW n \in Nat, NEW k \in 0 .. n PROVE Min({k + 1, n}) \in 0 .. n
<1>1. {k + 1, n} \subseteq Int /\ {k + 1, n} # {} /\ IsFiniteSet({k + 1, n})
  <2>1. IsFiniteSet({n} \cup {k + 1})
    BY FS_Singleton, FS_AddElement
  <2>2. {k + 1, n} = {n} \cup {k + 1}
    OBVIOUS
  <2>3. QED BY <2>1, <2>2
<1>2. Min({k + 1, n}) \in {k + 1, n} /\ Min({k + 1, n}) <= n
  BY <1>1, MinExists
<1>3. QED BY <1>2

-----------------------------------------------------------------------------
(* The rows *)

RowsTyped == docs \in Seq(Doc) /\ Len(docs) <= MaxDocs

\* One version of a photograph is the latest, as long as there is one.
OneLatest == \A d, e \in Latest : docs[d].place = docs[e].place => d = e
LiveHaveLatest == \A d \in Live : \E e \in Latest : docs[e].place = docs[d].place

RowsSound == RowsTyped /\ OneLatest /\ LiveHaveLatest

LEMMA RowFields ==
  ASSUME RowsTyped
  PROVE  /\ Len(docs) \in Nat /\ DOMAIN docs = 1 .. Len(docs) /\ DOMAIN docs \subseteq Ids
         /\ \A d \in DOMAIN docs : /\ docs[d] \in Doc /\ docs[d].place \in Places
                                   /\ docs[d].file \in Files \cup {Other}
                                   /\ docs[d].latest \in BOOLEAN /\ docs[d].live \in BOOLEAN
                                   /\ docs[d].pending \in BOOLEAN
         /\ Live \subseteq DOMAIN docs /\ Latest \subseteq Live
<1>1. Len(docs) \in Nat /\ DOMAIN docs = 1 .. Len(docs) /\ Len(docs) <= MaxDocs
  BY LenProperties DEF RowsTyped
<1>2. \A d \in DOMAIN docs : docs[d] \in Doc
  BY <1>1, ElementOfSeq DEF RowsTyped
<1>3. DOMAIN docs \subseteq Ids
  BY <1>1, DeskAssumption DEF Ids
<1>4. QED BY <1>1, <1>2, <1>3 DEF Doc, Live, Latest

\* The same of the state after a step.
LEMMA RowFieldsNext ==
  ASSUME RowsTyped'
  PROVE  (DOMAIN docs \subseteq Ids /\ Live \subseteq DOMAIN docs /\ Latest \subseteq Live)'
<1>1. Len(docs') \in Nat /\ DOMAIN docs' = 1 .. Len(docs') /\ Len(docs') <= MaxDocs
  BY LenProperties DEF RowsTyped
<1>2. DOMAIN docs' \subseteq Ids
  BY <1>1, DeskAssumption DEF Ids
<1>3. QED BY <1>2 DEF Live, Latest, Ids

LEMMA LatestCounted ==
  ASSUME RowsSound PROVE Cardinality(Latest) \in 0 .. PhotoMax
<1> DEFINE f == [d \in Latest |-> docs[d].place]
<1>1. f \in Injection(Latest, Places)
  BY RowFields DEF RowsSound, OneLatest, Injection, IsInjective
<1>2. IsFiniteSet(Places) /\ Cardinality(Places) = PhotoMax
  BY FS_Interval, DeskAssumption DEF Places
<1>3. IsFiniteSet(Latest) /\ Cardinality(Latest) <= PhotoMax
  BY <1>1, <1>2, FS_Injection
<1>4. QED BY <1>3, FS_CardinalityType, DeskAssumption

\* createVersionedDocument.
LEMMA Versioned ==
  ASSUME RowsSound, Len(docs) < MaxDocs, NEW item \in Item, docs' = WithVersion(item)
  PROVE  /\ RowsSound'
         /\ Len(docs') = Len(docs) + 1
         /\ New.file = item.file /\ New.place = item.place
         /\ DOMAIN docs' = DOMAIN docs \cup {Len(docs')}
         /\ \A d \in DOMAIN docs : docs'[d].file = docs[d].file /\ docs'[d].place = docs[d].place
         /\ Live' = Live \cup {Len(docs')}
<1> DEFINE n == Len(docs) + 1
           old == [d \in DOMAIN docs |-> [docs[d] EXCEPT !.latest = @ /\ docs[d].place # item.place]]
           new == [place |-> item.place, file |-> item.file, pending |-> TRUE, latest |-> TRUE, live |-> TRUE]
<1>1. /\ RowsTyped /\ Len(docs) \in Nat /\ DOMAIN docs = 1 .. Len(docs)
      /\ \A d \in DOMAIN docs : docs[d] \in Doc
  BY RowFields DEF RowsSound
<1>2. \A d \in DOMAIN docs : [docs[d] EXCEPT !.latest = @ /\ docs[d].place # item.place] \in Doc
  BY <1>1 DEF Doc
<1>3. old \in Seq(Doc) /\ Len(old) = Len(docs)
  BY <1>1, <1>2, SeqDef, LenProperties
<1>4. new \in Doc
  BY DEF Doc, Item
<1>5. docs' = Append(old, new)
  BY DEF WithVersion
<1>6. /\ docs' \in Seq(Doc) /\ Len(docs') = n /\ docs'[n] = new
      /\ \A d \in DOMAIN docs : docs'[d] = old[d]
  BY <1>1, <1>3, <1>4, <1>5, AppendProperties
<1>7. RowsTyped' /\ DOMAIN docs' = DOMAIN docs \cup {n} /\ n \notin DOMAIN docs
  <2>1. DOMAIN docs' = 1 .. n
    BY <1>6, LenProperties
  <2>2. n <= MaxDocs
    BY <1>1, DeskAssumption
  <2>3. 1 .. n = (1 .. Len(docs)) \cup {n} /\ n \notin 1 .. Len(docs)
    BY <1>1
  <2>4. QED BY <1>1, <1>6, <2>1, <2>2, <2>3 DEF RowsTyped
<1>8. \A d \in DOMAIN docs : /\ docs'[d].file = docs[d].file /\ docs'[d].place = docs[d].place
                             /\ docs'[d].live = docs[d].live
                             /\ docs'[d].latest <=> docs[d].latest /\ docs[d].place # item.place
  BY <1>1, <1>6 DEF Doc
<1>9. Live' = Live \cup {n}
  BY <1>6, <1>7, <1>8 DEF Live
<1>10. Latest' = {d \in Latest : docs[d].place # item.place} \cup {n}
  BY <1>6, <1>7, <1>8, <1>9 DEF Latest, Live
<1> HIDE DEF old, new
<1>11. docs'[n].place = item.place /\ docs'[n].file = item.file
  BY <1>6 DEF new
<1>12. OneLatest'
  BY <1>7, <1>8, <1>10, <1>11 DEF RowsSound, OneLatest, Latest, Live
<1>13. LiveHaveLatest'
  <2>1. SUFFICES ASSUME NEW d \in Live' PROVE \E e \in Latest' : docs'[e].place = docs'[d].place
    BY DEF LiveHaveLatest
  <2>2. CASE docs'[d].place = item.place
    BY <1>10, <1>11, <2>2
  <2>3. CASE docs'[d].place # item.place
    <3>1. d \in Live /\ docs[d].place # item.place /\ docs'[d].place = docs[d].place
      BY <1>8, <1>9, <1>11, <2>3 DEF Live
    <3>2. PICK e \in Latest : docs[e].place = docs[d].place
      BY <3>1 DEF RowsSound, LiveHaveLatest
    <3>3. e \in Latest' /\ docs'[e].place = docs[e].place
      BY <1>8, <1>10, <3>1, <3>2 DEF Latest, Live
    <3>4. QED BY <3>1, <3>2, <3>3
  <2>4. QED BY <2>2, <2>3
<1>14. QED BY <1>6, <1>7, <1>8, <1>9, <1>11, <1>12, <1>13 DEF RowsSound, New

\* handleDocumentDelete.
LEMMA Deleted ==
  ASSUME RowsSound, NEW d \in Live, docs' = Without(d)
  PROVE  /\ RowsSound'
         /\ Len(docs') = Len(docs) /\ DOMAIN docs' = DOMAIN docs
         /\ \A e \in DOMAIN docs : docs'[e].file = docs[e].file /\ docs'[e].place = docs[e].place
         /\ Live' = Live \ {d}
<1> DEFINE before == {e \in Live \ {d} : docs[e].place = docs[d].place}
<1>1. /\ RowsTyped /\ Len(docs) \in Nat /\ DOMAIN docs = 1 .. Len(docs)
      /\ Live \subseteq DOMAIN docs
      /\ \A e \in DOMAIN docs : docs[e] \in Doc
  BY RowFields DEF RowsSound
<1>2. before # {} => Max(before) \in before
  <2>1. IsFiniteSet(1 .. Len(docs)) /\ before \subseteq 1 .. Len(docs)
    BY <1>1, FS_Interval
  <2>2. IsFiniteSet(before) /\ before \subseteq Int
    BY <2>1, FS_Subset
  <2>3. QED BY <2>2, MaxExists
<1> DEFINE m == Max(before)
           row(e) == CASE e = d -> [docs[e] EXCEPT !.live = FALSE, !.latest = FALSE]
                       [] docs[d].latest /\ before # {} /\ e = m -> [docs[e] EXCEPT !.latest = TRUE]
                       [] OTHER -> docs[e]
<1> HIDE DEF m
<1>3. docs' = [e \in DOMAIN docs |-> row(e)]
  BY DEF Without, m
<1>4. \A e \in DOMAIN docs : row(e) \in Doc
  BY <1>1 DEF Doc
<1> HIDE DEF row, before
<1>5. docs' \in Seq(Doc) /\ Len(docs') = Len(docs) /\ DOMAIN docs' = DOMAIN docs
  BY <1>1, <1>3, <1>4, SeqDef, LenProperties
<1>6. /\ \A e \in DOMAIN docs : docs'[e] = row(e)
      /\ RowsTyped'
  BY <1>1, <1>3, <1>5 DEF RowsTyped
<1>7. \A e \in DOMAIN docs : /\ docs'[e].file = docs[e].file /\ docs'[e].place = docs[e].place
                             /\ e # d => docs'[e].live = docs[e].live
                             /\ e = d => ~ docs'[e].live
                             /\ docs'[e].latest <=> e # d /\ (docs[e].latest \/ (docs[d].latest /\ before # {} /\ e = m))
  <2>1. SUFFICES ASSUME NEW e \in DOMAIN docs
        PROVE  /\ row(e).file = docs[e].file /\ row(e).place = docs[e].place
               /\ e # d => row(e).live = docs[e].live
               /\ e = d => ~ row(e).live
               /\ row(e).latest <=> e # d /\ (docs[e].latest \/ (docs[d].latest /\ before # {} /\ e = m))
    BY <1>6
  <2>2. docs[e] \in Doc
    BY <1>1
  <2>3. CASE e = d
    <3>1. row(e) = [docs[e] EXCEPT !.live = FALSE, !.latest = FALSE]
      <4>1. ~ (before # {} /\ e = m)
        BY <1>2, <2>3 DEF before, m
      <4>2. QED BY <2>3, <4>1 DEF row
    <3>2. /\ row(e).file = docs[e].file /\ row(e).place = docs[e].place
          /\ row(e).live = FALSE /\ row(e).latest = FALSE
      BY <2>2, <3>1 DEF Doc
    <3>3. QED BY <2>3, <3>2
  <2>4. CASE e # d /\ docs[d].latest /\ before # {} /\ e = m
    BY <2>2, <2>4 DEF row, Doc
  <2>5. CASE e # d /\ ~ (docs[d].latest /\ before # {} /\ e = m)
    <3>1. row(e) = docs[e]
      BY <2>5 DEF row
    <3>2. docs[e].latest \in BOOLEAN
      BY <2>2 DEF Doc
    <3>3. QED BY <2>5, <3>1, <3>2
  <2>6. QED BY <2>3, <2>4, <2>5
<1>8. Live' = Live \ {d}
  BY <1>5, <1>7 DEF Live
<1>9. Latest' = {e \in Live \ {d} : docs[e].latest \/ (docs[d].latest /\ before # {} /\ e = m)}
  BY <1>1, <1>7, <1>8 DEF Latest
<1>10. before # {} => m \in Live \ {d} /\ docs[m].place = docs[d].place
  BY <1>2 DEF before, m
<1>11. OneLatest'
  <2>1. SUFFICES ASSUME NEW a \in Latest', NEW b \in Latest', docs'[a].place = docs'[b].place PROVE a = b
    BY DEF OneLatest
  <2>2. docs[a].place = docs[b].place /\ a \in Live \ {d} /\ b \in Live \ {d}
    BY <1>1, <1>7, <1>9, <2>1
  <2>3. \A x, y \in Latest : docs[x].place = docs[y].place => x = y
    BY DEF RowsSound, OneLatest
  <2>4. CASE docs[d].latest
    <3>1. d \in Latest
      BY <2>4 DEF Latest
    <3>2. \A e \in Live \ {d} : docs[e].latest => docs[e].place # docs[d].place
      BY <2>3, <3>1 DEF Latest
    <3>3. QED BY <1>9, <1>10, <2>2, <2>3, <3>2 DEF Latest
  <2>5. CASE ~ docs[d].latest
    BY <1>9, <2>2, <2>3, <2>5 DEF Latest
  <2>6. QED BY <2>4, <2>5
<1>12. LiveHaveLatest'
  <2>1. SUFFICES ASSUME NEW a \in Live' PROVE \E e \in Latest' : docs'[e].place = docs'[a].place
    BY DEF LiveHaveLatest
  <2>2. a \in Live \ {d} /\ docs'[a].place = docs[a].place
    BY <1>1, <1>7, <1>8
  <2>3. PICK e \in Latest : docs[e].place = docs[a].place
    BY <2>2 DEF RowsSound, LiveHaveLatest
  <2>4. CASE e # d
    BY <1>1, <1>7, <1>9, <2>2, <2>3, <2>4 DEF Latest
  <2>5. CASE e = d
    <3>1. a \in before /\ docs[d].latest
      BY <2>2, <2>3, <2>5 DEF before, Latest
    <3>2. m \in Latest' /\ docs[m].place = docs[d].place
      BY <1>9, <1>10, <3>1
    <3>3. docs'[m].place = docs[m].place
      BY <1>1, <1>7, <1>10, <3>1
    <3>4. QED BY <2>2, <2>3, <2>5, <3>2, <3>3
  <2>6. QED BY <2>4, <2>5
<1>13. QED BY <1>5, <1>6, <1>7, <1>8, <1>11, <1>12 DEF RowsSound

-----------------------------------------------------------------------------
(* The uploads, and what is queued *)

Own == Clients \ {"web"}
Screens == Files \cup {"form"}
Busy(c) == ups[c] # NoUpload

LEMMA Names ==
  /\ Clients = Own \cup {"web"} /\ Own = Screens \cup {"flush"} /\ Screens \subseteq Own
  /\ "flush" \notin Screens /\ "web" \notin Own
  /\ Files \subseteq Screens /\ "form" \notin Files /\ "flush" \notin Files /\ "web" \notin Files
  /\ Other \notin Files
BY DeskAssumption DEF Clients, Own, Screens

UploadsTyped == ups \in [Clients -> Upload \cup {NoUpload}] /\ queue \subseteq Item

PhoneTyped ==
  /\ details \in [shown : SUBSET Ids, doomed : SUBSET Ids, cards : SUBSET Files]
  /\ count \in 0 .. PhotoMax
  /\ unsure \subseteq taken /\ taken \subseteq Files
  /\ faults \in 0 .. MaxFaults

\* A picture is with one upload of the two screens, or in the queue, which the
\* flush works off.
WebIsOther == Busy("web") => ups["web"].item.file = Other /\ ~ ups["web"].item.aware

Sent(x) == x \in queue \/ \E c \in Own : Busy(c) /\ ups[c].item = x

PicturesAreTaken == \A x : Sent(x) => x.file \in taken

OnePlace == \A x, y : Sent(x) /\ Sent(y) /\ x.file = y.file => x.place = y.place

ScreensApart ==
  \A a \in Screens : Busy(a) =>
    /\ \A o \in Own \ {a} : Busy(o) => ups[o].item.file # ups[a].item.file
    /\ \A x \in queue : x.file # ups[a].item.file

\* Who chose a place knowingly meets no other picture there, neither stored
\* nor under way.
AwareMeetsNothing ==
  /\ \A x : Sent(x) /\ x.aware =>
       \A d \in Live : docs[d].place = x.place => docs[d].file = x.file
  /\ \A x, y : Sent(x) /\ Sent(y) /\ x.aware /\ x.place = y.place => x.file = y.file

Items == UploadsTyped /\ WebIsOther /\ PicturesAreTaken /\ OnePlace /\ ScreensApart /\ AwareMeetsNothing

\* What is stored and will be sent again was left without an answer.
DocFiles == {docs[d].file : d \in DOMAIN docs}

StoredIsUnsure ==
  /\ DocFiles \subseteq taken \cup {Other}
  /\ \A c \in Own : Busy(c) /\ ups[c].pc # "stored" /\ ups[c].item.file \in DocFiles =>
        ups[c].item.file \in unsure
  /\ \A x \in queue : x.file \in DocFiles =>
        \/ x.file \in unsure
        \/ ups["flush"].pc = "stored" /\ ups["flush"].item.file = x.file

LEMMA UploadFields ==
  ASSUME UploadsTyped, NEW c \in Clients, Busy(c)
  PROVE  /\ ups[c] \in Upload /\ ups[c].item \in Item
         /\ ups[c].item.place \in Places /\ ups[c].item.aware \in BOOLEAN
         /\ ups[c].pc \in {"trying", "stored", "failed"} /\ ups[c].left \in 0 .. 1
BY DEF UploadsTyped, Busy, Upload, Item

LEMMA PcIsBusy ==
  ASSUME NEW c \in Clients, ups[c].pc # "none" PROVE Busy(c)
BY DEF Busy, NoUpload

LEMMA DoubtedUploads ==
  ASSUME NEW p, NEW all \in [Clients -> Upload \cup {NoUpload}]
  PROVE  /\ Unaware(p, all) \in [Clients -> Upload \cup {NoUpload}]
         /\ \A c \in Clients :
              /\ Unaware(p, all)[c] # NoUpload <=> all[c] # NoUpload
              /\ all[c] # NoUpload =>
                   /\ Unaware(p, all)[c].pc = all[c].pc
                   /\ Unaware(p, all)[c].item.file = all[c].item.file
                   /\ Unaware(p, all)[c].item.place = all[c].item.place
                   /\ Unaware(p, all)[c].item.aware => all[c].item.aware /\ all[c].item.place # p
<1> DEFINE doubted == [c \in Clients |-> [all[c] EXCEPT !.item.aware = FALSE]]
<1>1. ASSUME NEW c \in Clients, all[c] # NoUpload
      PROVE  /\ doubted[c] \in Upload /\ doubted[c] # NoUpload /\ doubted[c].pc = all[c].pc
             /\ doubted[c].item.file = all[c].item.file /\ doubted[c].item.place = all[c].item.place
             /\ doubted[c].item.aware = FALSE
  <2>1. all[c] \in Upload /\ all[c].item \in Item
    BY <1>1 DEF Upload
  <2>2. [all[c].item EXCEPT !.aware = FALSE] \in Item
    BY <2>1 DEF Item
  <2>3. doubted[c] = [all[c] EXCEPT !.item = [all[c].item EXCEPT !.aware = FALSE]]
    OBVIOUS
  <2>4. doubted[c] \in Upload /\ doubted[c].item = [all[c].item EXCEPT !.aware = FALSE] /\ doubted[c].pc = all[c].pc
    BY <2>1, <2>2, <2>3 DEF Upload
  <2>5. doubted[c].item.file = all[c].item.file /\ doubted[c].item.place = all[c].item.place /\ doubted[c].item.aware = FALSE
    BY <2>1, <2>4 DEF Item
  <2>6. doubted[c] # NoUpload
    BY <2>4 DEF Upload, NoUpload
  <2>7. QED BY <2>4, <2>5, <2>6
<1>2. \A c \in Clients : Unaware(p, all)[c] = IF all[c] # NoUpload /\ all[c].item.place = p THEN doubted[c] ELSE all[c]
  BY DEF Unaware
<1> HIDE DEF doubted
<1>3. Unaware(p, all) = [c \in Clients |-> Unaware(p, all)[c]]
  BY DEF Unaware
<1>4. \A c \in Clients : Unaware(p, all)[c] \in Upload \cup {NoUpload}
  BY <1>1, <1>2
<1>5. QED BY <1>1, <1>2, <1>3, <1>4

LEMMA DoubtedItems ==
  ASSUME NEW p, queue \subseteq Item
  PROVE  /\ UnawareItems(p) \subseteq Item
         /\ \A x \in UnawareItems(p) : \E y \in queue :
              /\ x.file = y.file /\ x.place = y.place
              /\ x.aware => y.aware /\ y.place # p
<1> DEFINE doubt(y) == [y EXCEPT !.aware = @ /\ y.place # p]
<1>1. \A y \in queue : /\ doubt(y) \in Item /\ doubt(y).file = y.file /\ doubt(y).place = y.place
                       /\ doubt(y).aware => y.aware /\ y.place # p
  <2>1. SUFFICES ASSUME NEW y \in Item
        PROVE  /\ doubt(y) \in Item /\ doubt(y).file = y.file /\ doubt(y).place = y.place
               /\ doubt(y).aware => y.aware /\ y.place # p
    OBVIOUS
  <2>2. QED BY DEF Item
<1>2. UnawareItems(p) = {doubt(y) : y \in queue}
  BY DEF UnawareItems
<1> HIDE DEF doubt
<1>3. QED BY <1>1, <1>2

\* No picture is added, and none gets known: the uploads end, go on or are doubted.
Fewer ==
  /\ UploadsTyped'
  /\ \A c \in Clients : Busy(c)' =>
       /\ Busy(c) /\ ups'[c].item.file = ups[c].item.file /\ ups'[c].item.place = ups[c].item.place
       /\ ups'[c].item.aware => ups[c].item.aware
  /\ \A x \in queue' : \E y \in queue :
       x.file = y.file /\ x.place = y.place /\ (x.aware => y.aware)

NoMoreRows ==
  /\ Live' \subseteq Live
  /\ \A d \in Live' : docs'[d].file = docs[d].file /\ docs'[d].place = docs[d].place

LEMMA SentBefore ==
  ASSUME Fewer, NEW x, Sent(x)'
  PROVE  \E y : Sent(y) /\ x.file = y.file /\ x.place = y.place /\ (x.aware => y.aware)
<1>1. CASE x \in queue'
  BY <1>1 DEF Fewer, Sent
<1>2. CASE \E c \in Own : Busy(c)' /\ ups'[c].item = x
  BY <1>2 DEF Fewer, Sent, Own
<1>3. QED BY <1>1, <1>2 DEF Sent

LEMMA FewerItems ==
  ASSUME Items, Fewer, NoMoreRows, taken \subseteq taken' PROVE Items'
<1>1. PicturesAreTaken'
  BY SentBefore DEF Items, PicturesAreTaken
<1>2. OnePlace'
  BY SentBefore DEF Items, OnePlace
<1>3. WebIsOther'
  BY Names DEF Items, WebIsOther, Fewer
<1>4. ScreensApart'
  BY Names DEF Items, ScreensApart, Fewer
<1>5. AwareMeetsNothing'
  <2>1. ASSUME NEW x, Sent(x)', x.aware, NEW d \in Live', docs'[d].place = x.place
        PROVE  docs'[d].file = x.file
    BY <2>1, SentBefore DEF Items, AwareMeetsNothing, NoMoreRows
  <2>2. ASSUME NEW x, NEW y, Sent(x)', Sent(y)', x.aware, x.place = y.place
        PROVE  x.file = y.file
    BY <2>2, SentBefore DEF Items, AwareMeetsNothing
  <2>3. QED BY <2>1, <2>2 DEF AwareMeetsNothing
<1>6. QED BY <1>1, <1>2, <1>3, <1>4, <1>5 DEF Items, Fewer

\* The upload is left to the queue.
LEMMA Left ==
  ASSUME UploadsTyped, NEW c \in Own, Busy(c), LeftToQueue(c), count \in 0 .. PhotoMax
  PROVE  /\ UploadsTyped' /\ count' \in 0 .. PhotoMax
         /\ \A o \in Clients \ {c} : ups'[o] = ups[o]
         /\ ~ Busy(c)' /\ queue' = queue \cup {ups[c].item}
<1>1. /\ ups \in [Clients -> Upload \cup {NoUpload}] /\ queue \subseteq Item
      /\ c \in Clients /\ ups[c].item \in Item
  BY UploadFields, Names DEF UploadsTyped
<1>2. Min({count + 1, PhotoMax}) \in 0 .. PhotoMax
  BY MinOfTwo, DeskAssumption
<1>3. /\ queue' = queue \cup {ups[c].item} /\ ups' = [ups EXCEPT ![c] = NoUpload]
      /\ count' \in 0 .. PhotoMax
  BY <1>2 DEF LeftToQueue, Counted
<1>4. QED BY <1>1, <1>3 DEF UploadsTyped, Busy

\* What the last attempt leaves of an upload, or the next one.
LEMMA Attempted ==
  ASSUME UploadsTyped, PhoneTyped, NEW c \in Clients, Busy(c), AttemptFails(c)
  PROVE  /\ UploadsTyped' /\ count' \in 0 .. PhotoMax
         /\ \A o \in Clients \ {c} : ups'[o] = ups[o]
         /\ Busy(c)' => ups'[c].item = ups[c].item /\ ups'[c].pc \in {"trying", "failed"}
         /\ \/ queue' = queue
            \/ c \in Own /\ ~ Busy(c)' /\ queue' = queue \cup {ups[c].item}
<1>1. /\ ups \in [Clients -> Upload \cup {NoUpload}] /\ queue \subseteq Item
      /\ ups[c] \in Upload /\ ups[c].item \in Item /\ ups[c].left \in 0 .. 1
      /\ count \in 0 .. PhotoMax
  BY UploadFields DEF UploadsTyped, PhoneTyped
<1>2. CASE ups[c].left > 0
  <2>1. PICK u \in Upload : /\ ups' = [ups EXCEPT ![c] = u] /\ u.item = ups[c].item /\ u.pc = "trying"
    <3> DEFINE u == [ups[c] EXCEPT !.pc = "trying", !.left = @ - 1]
    <3>1. u \in Upload /\ u.item = ups[c].item /\ u.pc = "trying"
      <4>1. ups[c].left - 1 \in 0 .. 1
        BY <1>1, <1>2
      <4>2. QED BY <1>1, <4>1 DEF Upload
    <3>2. ups' = [ups EXCEPT ![c] = u]
      BY <1>2 DEF AttemptFails
    <3>3. QED BY <3>1, <3>2
  <2>2. queue' = queue /\ count' = count
    BY <1>2 DEF AttemptFails
  <2>3. QED BY <1>1, <2>1, <2>2 DEF UploadsTyped, Busy
<1>3. CASE ~ (ups[c].left > 0)
  <2>1. AfterLastAttempt(c)
    BY <1>3 DEF AttemptFails
  <2>a. details.cards \subseteq Files
    BY DEF PhoneTyped
  <2>2. CASE c \in details.cards
    <3>1. ups' = [ups EXCEPT ![c].pc = "failed"] /\ queue' = queue /\ count' = count
      BY <2>1, <2>2, <2>a, Names DEF AfterLastAttempt
    <3>2. [ups[c] EXCEPT !.pc = "failed"] \in Upload
      BY <1>1 DEF Upload
    <3>3. ups'[c] = [ups[c] EXCEPT !.pc = "failed"] /\ ups'[c].item = ups[c].item /\ ups'[c].pc = "failed"
      BY <1>1, <3>1 DEF Upload
    <3>4. QED BY <1>1, <3>1, <3>2, <3>3 DEF UploadsTyped
  <2>3. CASE c \in {"form", "flush"}
    <3>1. LeftToQueue(c) /\ c \in Own
      BY <2>1, <2>3, <2>a, Names DEF AfterLastAttempt, Screens
    <3>2. QED BY <1>1, <3>1, Left
  <2>4. CASE c \notin details.cards \cup {"form", "flush"}
    BY <1>1, <2>1, <2>4 DEF AfterLastAttempt, UploadsTyped, Busy
  <2>5. QED BY <2>2, <2>3, <2>4
<1>4. QED BY <1>2, <1>3

\* Items that only change hands.
LEMMA HandedOver ==
  ASSUME Items, UploadsTyped', NoMoreRows, taken' = taken, ups'["web"] = ups["web"],
         \A x : Sent(x)' => Sent(x),
         ScreensApart'
  PROVE  Items'
BY DEF Items, PicturesAreTaken, OnePlace, AwareMeetsNothing, NoMoreRows, WebIsOther, Busy

\* What the queue takes from an upload, or the upload keeps.
LEMMA PassedOn ==
  ASSUME Items, NEW c \in Clients, Busy(c), UploadsTyped',
         \A o \in Clients \ {c} : ups'[o] = ups[o],
         Busy(c)' => ups'[c].item = ups[c].item,
         \/ queue' = queue
         \/ c \in Own /\ ~ Busy(c)' /\ queue' = queue \cup {ups[c].item},
         docs' = docs, taken' = taken
  PROVE  Items'
<1>2. NoMoreRows
  BY DEF NoMoreRows, Live
<1>3. CASE queue' = queue
  <2>1. Fewer
    BY <1>3 DEF Fewer, Busy
  <2>2. QED BY <1>2, <2>1, FewerItems
<1>4. CASE c \in Own /\ ~ Busy(c)' /\ queue' = queue \cup {ups[c].item}
  <2>1. \A x : Sent(x)' => Sent(x)
    BY <1>4, Names DEF Sent, Busy
  <2>2. ScreensApart'
    BY <1>4, Names DEF Items, ScreensApart, Busy
  <2>3. ups'["web"] = ups["web"]
    BY <1>4, Names
  <2>4. QED BY <1>2, <2>1, <2>2, <2>3, HandedOver
<1>5. QED BY <1>3, <1>4

LEMMA AttemptedItems ==
  ASSUME Items, PhoneTyped, NEW c \in Clients, Busy(c), AttemptFails(c), docs' = docs, taken' = taken
  PROVE  Items'
<1>1. /\ UploadsTyped'
      /\ \A o \in Clients \ {c} : ups'[o] = ups[o]
      /\ Busy(c)' => ups'[c].item = ups[c].item
      /\ \/ queue' = queue
         \/ c \in Own /\ ~ Busy(c)' /\ queue' = queue \cup {ups[c].item}
  BY Attempted DEF Items
<1>2. QED BY <1>1, PassedOn

LEMMA OfflineItems ==
  ASSUME Items, PhoneTyped, NEW c \in Clients, Offline(c) PROVE Items' /\ count' \in 0 .. PhotoMax
<1>1. c \in Own /\ Busy(c) /\ LeftToQueue(c) /\ docs' = docs /\ taken' = taken
  BY PcIsBusy, Names DEF Offline, Screens
<1>2. /\ UploadsTyped' /\ count' \in 0 .. PhotoMax
      /\ \A o \in Clients \ {c} : ups'[o] = ups[o]
      /\ ~ Busy(c)' /\ queue' = queue \cup {ups[c].item}
  BY <1>1, Left DEF Items, PhoneTyped
<1>3. QED BY <1>1, <1>2, PassedOn

\* An upload is stored: whoever knew the place had the same picture for it.
LEMMA StoredItems ==
  ASSUME Items, RowsSound, NEW c \in Clients, Store(c) PROVE Items' /\ UploadsTyped'
<1> DEFINE item == ups[c].item
           stored == [ups EXCEPT ![c].pc = "stored"]
<1>1. /\ ups \in [Clients -> Upload \cup {NoUpload}] /\ queue \subseteq Item
      /\ Busy(c) /\ ups[c] \in Upload /\ item \in Item
  BY UploadFields, PcIsBusy DEF Items, UploadsTyped, Store
<1>2. [ups[c] EXCEPT !.pc = "stored"] \in Upload /\ [ups[c] EXCEPT !.pc = "stored"].item = item
  BY <1>1 DEF Upload
<1>3. /\ stored \in [Clients -> Upload \cup {NoUpload}]
      /\ \A o \in Clients : /\ stored[o] # NoUpload <=> ups[o] # NoUpload
                            /\ stored[o] # NoUpload => stored[o].item = ups[o].item
  BY <1>1, <1>2 DEF Busy, NoUpload, Upload
<1> HIDE DEF stored
<1>4. /\ Live' = Live \cup {Len(docs')} /\ New.file = item.file /\ New.place = item.place
      /\ \A d \in Live : docs'[d].file = docs[d].file /\ docs'[d].place = docs[d].place
  <2>1. Len(docs) < MaxDocs /\ docs' = WithVersion(item)
    BY DEF Store
  <2>2. QED BY <1>1, <2>1, Versioned DEF Live
<1>5. taken' = taken
  BY DEF Store
<1>6. CASE c = "web"
  <2>1. ups' = Unaware(item.place, stored) /\ queue' = UnawareItems(item.place)
    BY <1>6 DEF Store, stored
  <2>2. /\ ups' \in [Clients -> Upload \cup {NoUpload}]
        /\ \A o \in Clients : Busy(o)' =>
             /\ Busy(o) /\ ups'[o].item.file = ups[o].item.file /\ ups'[o].item.place = ups[o].item.place
             /\ ups'[o].item.aware => ups[o].item.aware /\ ups[o].item.place # item.place
    <3>1. /\ ups' \in [Clients -> Upload \cup {NoUpload}]
          /\ \A o \in Clients :
               /\ ups'[o] # NoUpload <=> stored[o] # NoUpload
               /\ stored[o] # NoUpload =>
                    /\ ups'[o].item.file = stored[o].item.file /\ ups'[o].item.place = stored[o].item.place
                    /\ ups'[o].item.aware => stored[o].item.aware /\ stored[o].item.place # item.place
      BY <1>3, <2>1, DoubtedUploads
    <3> HIDE DEF item
    <3>2. QED BY <1>3, <3>1 DEF Busy
  <2>3. /\ queue' \subseteq Item
        /\ \A x \in queue' : \E y \in queue :
              x.file = y.file /\ x.place = y.place /\ (x.aware => y.aware /\ y.place # item.place)
    BY <1>1, <2>1, DoubtedItems
  <2>4. Fewer
    BY <2>2, <2>3 DEF Fewer, UploadsTyped
  <2>5. WebIsOther' /\ PicturesAreTaken' /\ OnePlace' /\ ScreensApart'
    <3>1. PicturesAreTaken' /\ OnePlace'
      BY <1>5, <2>4, SentBefore DEF Items, PicturesAreTaken, OnePlace
    <3>2. WebIsOther' /\ ScreensApart'
      BY <2>4, Names DEF Items, WebIsOther, ScreensApart, Fewer
    <3>3. QED BY <3>1, <3>2
  <2>6. \A x : Sent(x)' => \E y : /\ Sent(y) /\ x.file = y.file /\ x.place = y.place
                                  /\ x.aware => y.aware /\ y.place # item.place
    BY <2>2, <2>3 DEF Sent, Own
  <2>7. AwareMeetsNothing'
    <3>1. ASSUME NEW x, Sent(x)', x.aware, NEW d \in Live', docs'[d].place = x.place
          PROVE  docs'[d].file = x.file
      BY <1>4, <2>6, <3>1 DEF Items, AwareMeetsNothing, New
    <3>2. ASSUME NEW x, NEW y, Sent(x)', Sent(y)', x.aware, x.place = y.place
          PROVE  x.file = y.file
      BY <2>6, <3>2 DEF Items, AwareMeetsNothing
    <3>3. QED BY <3>1, <3>2 DEF AwareMeetsNothing
  <2>8. QED BY <2>4, <2>5, <2>7 DEF Items, Fewer
<1>7. CASE c # "web"
  <2>1. ups' = stored /\ queue' = queue
    BY <1>7 DEF Store, stored
  <2>a. \A o \in Clients : /\ Busy(o)' <=> Busy(o)
                           /\ Busy(o) => ups'[o].item = ups[o].item
    BY <1>3, <2>1 DEF Busy
  <2>2. \A x : Sent(x)' <=> Sent(x)
    <3>1. \A x : (\E o \in Own : Busy(o)' /\ ups'[o].item = x) <=> (\E o \in Own : Busy(o) /\ ups[o].item = x)
      BY <2>a DEF Own, Busy
    <3>2. QED BY <2>1, <3>1 DEF Sent
  <2>3. Sent(item)
    BY <1>1, <1>7 DEF Sent, Own
  <2>4. PicturesAreTaken' /\ OnePlace'
    BY <1>5, <2>2 DEF Items, PicturesAreTaken, OnePlace
  <2>5. WebIsOther' /\ ScreensApart'
    <3>1. WebIsOther'
      BY <2>a, Names DEF Items, WebIsOther, Busy
    <3>2. ScreensApart'
      BY <2>1, <2>a, Names DEF Items, ScreensApart, Busy
    <3>3. QED BY <3>1, <3>2
  <2>6. AwareMeetsNothing'
    <3>1. ASSUME NEW x, Sent(x), x.aware, NEW d \in Live', docs'[d].place = x.place
          PROVE  docs'[d].file = x.file
      BY <1>4, <2>3, <3>1 DEF Items, AwareMeetsNothing, New
    <3>2. QED BY <2>2, <3>1 DEF Items, AwareMeetsNothing
  <2>7. UploadsTyped'
    BY <1>1, <1>3, <2>1 DEF UploadsTyped
  <2>8. QED BY <2>4, <2>5, <2>6, <2>7 DEF Items
<1>8. QED BY <1>6, <1>7 DEF Items

\* A picture is taken: a place that is known to be free meets nothing, and who
\* does not know leaves the others in doubt.
LEMMA TakenItems ==
  ASSUME Items, PhoneTyped, NEW c \in Screens, NEW f \in Files \ taken, NEW p \in Places,
         NEW aware \in BOOLEAN, Take(c, f, p, aware),
         aware => /\ \A d \in Live : docs[d].place # p
                  /\ \A x : Sent(x) => x.place # p
  PROVE  Items'
<1> DEFINE item == [file |-> f, place |-> p, aware |-> aware]
           doubted == IF aware THEN ups ELSE Unaware(p, ups)
           upload == [pc |-> "trying", left |-> 1, item |-> item]
<1>2. item \in Item /\ upload \in Upload /\ upload # NoUpload
  BY DEF Item, Upload, NoUpload
<1>4. /\ c \in Clients /\ c # "web" /\ ups \in [Clients -> Upload \cup {NoUpload}] /\ queue \subseteq Item
      /\ ~ Busy(c) /\ docs' = docs /\ taken' = taken \cup {f}
  BY Names DEF Items, UploadsTyped, Take, Busy
<1>5. /\ doubted \in [Clients -> Upload \cup {NoUpload}]
      /\ \A o \in Clients : doubted[o] # NoUpload =>
            /\ ups[o] # NoUpload /\ doubted[o].item.file = ups[o].item.file
            /\ doubted[o].item.place = ups[o].item.place
            /\ doubted[o].item.aware => ups[o].item.aware /\ (aware \/ ups[o].item.place # p)
  BY <1>4, DoubtedUploads
<1>6. /\ queue' \subseteq Item
      /\ \A x \in queue' : \E y \in queue :
            x.file = y.file /\ x.place = y.place /\ (x.aware => y.aware /\ (aware \/ y.place # p))
  BY <1>4, DoubtedItems DEF Take
<1>7. ups' = [doubted EXCEPT ![c] = upload]
  BY DEF Take
<1> HIDE DEF doubted, upload, item
<1>8. doubted[c] = NoUpload /\ upload.item = item /\ item.file = f /\ item.place = p /\ (item.aware <=> aware)
  BY <1>4, <1>5 DEF Busy, upload, item
<1>9. UploadsTyped'
  BY <1>2, <1>4, <1>5, <1>6, <1>7 DEF UploadsTyped
<1>10. \A x : Sent(x)' => \/ x = item
                          \/ \E y : /\ Sent(y) /\ x.file = y.file /\ x.place = y.place
                                    /\ x.aware => y.aware /\ (aware \/ y.place # p)
  <2>1. SUFFICES ASSUME NEW x, Sent(x)', x # item
        PROVE  \E y : /\ Sent(y) /\ x.file = y.file /\ x.place = y.place
                      /\ x.aware => y.aware /\ (aware \/ y.place # p)
    OBVIOUS
  <2>2. CASE x \in queue'
    BY <1>6, <2>2 DEF Sent
  <2>3. CASE \E o \in Own : Busy(o)' /\ ups'[o].item = x
    <3>1. PICK o \in Own : Busy(o)' /\ ups'[o].item = x
      BY <2>3
    <3>2. o \in Clients /\ doubted[o] # NoUpload /\ doubted[o].item = x
      BY <1>4, <1>5, <1>7, <1>8, <2>1, <3>1 DEF Busy, Own
    <3>3. QED BY <1>5, <3>1, <3>2 DEF Sent, Busy
  <2>4. QED BY <2>1, <2>2, <2>3 DEF Sent
<1>11. taken' = taken \cup {f} /\ f \notin taken /\ \A y : Sent(y) => y.file # f
  BY <1>4 DEF Items, PicturesAreTaken
<1>12. PicturesAreTaken' /\ OnePlace'
  BY <1>8, <1>10, <1>11 DEF Items, PicturesAreTaken, OnePlace
<1>13. WebIsOther'
  BY <1>4, <1>5, <1>7, Names DEF Items, WebIsOther, Busy
<1>14. ScreensApart'
  <2>1. \A o \in Own : doubted[o] # NoUpload => doubted[o].item.file # f /\ Busy(o)
    BY <1>5, <1>11 DEF Sent, Own, Busy
  <2>2. \A x \in queue' : x.file # f
    BY <1>6, <1>11 DEF Sent
  <2>3. \A a \in Screens : doubted[a] # NoUpload =>
          /\ \A o \in Own \ {a} : doubted[o] # NoUpload => doubted[o].item.file # doubted[a].item.file
          /\ \A x \in queue' : x.file # doubted[a].item.file
    <3>1. SUFFICES ASSUME NEW a \in Screens, doubted[a] # NoUpload
          PROVE  /\ \A o \in Own \ {a} : doubted[o] # NoUpload => doubted[o].item.file # doubted[a].item.file
                 /\ \A x \in queue' : x.file # doubted[a].item.file
      OBVIOUS
    <3>2. a \in Own /\ a \in Clients /\ Own \subseteq Clients
      BY Names
    <3>3. Busy(a) /\ doubted[a].item.file = ups[a].item.file
      BY <1>5, <3>1, <3>2 DEF Busy
    <3>4. /\ \A o \in Own \ {a} : Busy(o) => ups[o].item.file # ups[a].item.file
          /\ \A x \in queue : x.file # ups[a].item.file
      BY <3>3 DEF Items, ScreensApart
    <3>5. QED BY <1>5, <1>6, <3>2, <3>3, <3>4 DEF Busy
  <2>4. \A o \in Clients : ups'[o] = IF o = c THEN upload ELSE doubted[o]
    BY <1>4, <1>5, <1>7
  <2>5. QED BY <1>8, <2>1, <2>2, <2>3, <2>4, Names DEF ScreensApart, Busy
<1>15. AwareMeetsNothing'
  <2>1. Live' = Live
    BY <1>4 DEF Live
  <2>2. ASSUME NEW x, Sent(x)', x.aware, NEW d \in Live, docs[d].place = x.place
        PROVE  docs[d].file = x.file
    BY <1>8, <1>10, <2>2 DEF Items, AwareMeetsNothing
  <2>3. ASSUME NEW x, NEW y, Sent(x)', Sent(y)', x.aware, x.place = y.place
        PROVE  x.file = y.file
    <3>1. CASE aware
      BY <1>8, <1>10, <2>3, <3>1 DEF Items, AwareMeetsNothing
    <3>2. CASE ~ aware
      BY <1>8, <1>10, <2>3, <3>2 DEF Items, AwareMeetsNothing
    <3>3. QED BY <3>1, <3>2
  <2>4. QED BY <1>4, <2>1, <2>2, <2>3 DEF AwareMeetsNothing
<1>16. QED BY <1>9, <1>12, <1>13, <1>14, <1>15 DEF Items

-----------------------------------------------------------------------------
(* The steps: the rows *)

\* POST /documents/:id/review.
LEMMA Decided ==
  ASSUME RowsSound, NEW d \in Live, docs' = [docs EXCEPT ![d].pending = FALSE]
  PROVE  /\ RowsSound'
         /\ Len(docs') = Len(docs) /\ DOMAIN docs' = DOMAIN docs
         /\ \A e \in DOMAIN docs : docs'[e].file = docs[e].file /\ docs'[e].place = docs[e].place
         /\ Live' = Live
<1>1. /\ RowsTyped /\ Len(docs) \in Nat /\ DOMAIN docs = 1 .. Len(docs) /\ d \in DOMAIN docs
      /\ \A e \in DOMAIN docs : docs[e] \in Doc
  BY RowFields DEF RowsSound
<1>2. PICK r \in Doc : /\ docs' = [docs EXCEPT ![d] = r]
                       /\ r.file = docs[d].file /\ r.place = docs[d].place
                       /\ r.live = docs[d].live /\ r.latest = docs[d].latest
  <2>1. /\ [docs[d] EXCEPT !.pending = FALSE] \in Doc
        /\ [docs[d] EXCEPT !.pending = FALSE].file = docs[d].file
        /\ [docs[d] EXCEPT !.pending = FALSE].place = docs[d].place
        /\ [docs[d] EXCEPT !.pending = FALSE].live = docs[d].live
        /\ [docs[d] EXCEPT !.pending = FALSE].latest = docs[d].latest
    BY <1>1 DEF Doc
  <2>2. docs' = [docs EXCEPT ![d] = [docs[d] EXCEPT !.pending = FALSE]]
    OBVIOUS
  <2>3. QED BY <2>1, <2>2
<1>3. docs' \in Seq(Doc) /\ Len(docs') = Len(docs) /\ DOMAIN docs' = DOMAIN docs
  <2>1. docs \in Seq(Doc) /\ d \in 1 .. Len(docs)
    BY <1>1 DEF RowsTyped
  <2>2. docs' \in Seq(Doc) /\ Len(docs') = Len(docs)
    <3>1. docs' \in [1 .. Len(docs) -> Doc]
      BY <1>1, <1>2
    <3>2. QED BY <1>1, <3>1, SeqDef, LenProperties
  <2>3. DOMAIN docs' = 1 .. Len(docs')
    BY <2>2, LenProperties
  <2>4. QED BY <1>1, <2>2, <2>3
<1>4. \A e \in DOMAIN docs : /\ docs'[e].file = docs[e].file /\ docs'[e].place = docs[e].place
                             /\ docs'[e].live = docs[e].live /\ docs'[e].latest = docs[e].latest
  BY <1>1, <1>2
<1>5. Live' = Live /\ Latest' = Latest
  BY <1>3, <1>4 DEF Live, Latest
<1>6. RowsTyped'
  BY <1>1, <1>3 DEF RowsTyped
<1>7. OneLatest' /\ LiveHaveLatest'
  BY <1>4, <1>5 DEF RowsSound, OneLatest, LiveHaveLatest, Latest, Live
<1>8. QED BY <1>3, <1>4, <1>5, <1>6, <1>7 DEF RowsSound

\* No row is added.
RowsStay ==
  /\ RowsSound' /\ NoMoreRows
  /\ DocFiles' = DocFiles /\ Len(docs') = Len(docs)

LEMMA RowsUntouched ==
  ASSUME RowsSound, docs' = docs PROVE RowsStay
<1>1. Live' = Live /\ Latest' = Latest /\ DocFiles' = DocFiles
  BY DEF Live, Latest, DocFiles
<1>2. QED
  BY <1>1 DEF RowsStay, RowsSound, RowsTyped, OneLatest, LiveHaveLatest, NoMoreRows

LEMMA RowsChanged ==
  ASSUME RowsSound, RowsSound', Len(docs') = Len(docs), DOMAIN docs' = DOMAIN docs, Live' \subseteq Live,
         \A e \in DOMAIN docs : docs'[e].file = docs[e].file /\ docs'[e].place = docs[e].place
  PROVE  RowsStay
<1>1. DocFiles' = DocFiles
  BY DEF DocFiles
<1>2. NoMoreRows
  BY DEF NoMoreRows, Live
<1>3. QED BY <1>1, <1>2 DEF RowsStay

LEMMA DeletedStay ==
  ASSUME RowsSound, NEW d \in Live, docs' = Without(d) PROVE RowsStay
BY Deleted, RowsChanged

LEMMA OtherSteps ==
  ASSUME RowsSound, Next PROVE (\E c \in Clients : Store(c)) \/ RowsStay
<1>1. CASE \E c \in Clients : Refused(c) \/ Lost(c) \/ Offline(c) \/ Answered(c)
  BY <1>1, RowsUntouched DEF Refused, Lost, Offline, Answered
<1>2. CASE WebUpload
  BY <1>2, RowsUntouched DEF WebUpload
<1>3. ASSUME NEW d \in DOMAIN docs, Delete(d) PROVE RowsStay
  BY <1>3, DeletedStay DEF Delete
<1>4. CASE LoadDetails \/ LoadForm \/ Retry \/ StartFlush \/ StartReset \/ Kill
  BY <1>4, RowsUntouched DEF LoadDetails, LoadForm, Retry, StartFlush, StartReset, Kill
<1>5. CASE TakeInDetails \/ TakeInForm
  BY <1>5, RowsUntouched DEF TakeInDetails, TakeInForm, Take
<1>6. CASE ResetNext
  <2> DEFINE d == Min(details.doomed)
  <2>1. docs' = IF d \in Live THEN Without(d) ELSE docs
    BY <1>6 DEF ResetNext
  <2>2. QED BY <2>1, DeletedStay, RowsUntouched
<1>7. CASE List \/ Click \/ Preview
  BY <1>7, RowsUntouched DEF List, Click, Preview
<1>8. ASSUME NEW d \in DOMAIN docs, Decide(d) PROVE RowsStay
  BY <1>8, Decided, RowsChanged DEF Decide
<1>9. QED BY <1>1, <1>2, <1>3, <1>4, <1>5, <1>6, <1>7, <1>8 DEF Next

LEMMA RowsKept ==
  ASSUME RowsSound, Items, Next PROVE RowsSound'
<1>1. ASSUME NEW c \in Clients, Store(c) PROVE RowsSound'
  <2>1. Len(docs) < MaxDocs /\ docs' = WithVersion(ups[c].item) /\ ups[c].item \in Item
    BY <1>1, PcIsBusy, UploadFields DEF Store, Items
  <2>2. QED BY <2>1, Versioned
<1>2. QED BY <1>1, OtherSteps DEF RowsStay

-----------------------------------------------------------------------------
(* The steps: the items *)

LEMMA PhoneAsBefore ==
  ASSUME Items, NoMoreRows, ups' = ups, queue' = queue, taken' = taken PROVE Items'
<1>1. Fewer
  BY DEF Items, Fewer, UploadsTyped, Busy
<1>2. QED BY <1>1, FewerItems

\* A choice that counted everything meets nothing.
LEMMA FreeMeetsNothing ==
  ASSUME Items, RowsSound, NEW before \in SUBSET Clients, NEW p, QuietBut(before),
         p \notin PlacesOf(Latest) \cup PlacesQueued,
         \A b \in before : ups[b].item.place # p
  PROVE  /\ \A d \in Live : docs[d].place # p
         /\ \A x : Sent(x) => x.place # p
<1>1. \A d \in Live : docs[d].place # p
  BY DEF RowsSound, LiveHaveLatest, PlacesOf
<1>2. \A x \in queue : x.place # p
  BY DEF PlacesQueued
<1>3. \A o \in Own : Busy(o) => ups[o].item.place # p
  BY DEF QuietBut, Own, Busy
<1>4. QED BY <1>1, <1>2, <1>3 DEF Sent

\* The details screen takes a picture, for a place that was free as far as it knew.
LEMMA PickedWhere ==
  ASSUME TakeInDetails
  PROVE  \E f \in Files \ taken, before \in SUBSET Failed, p \in Places :
           /\ Take(f, f, p, DetailsAware(before)) /\ DetailsAware(before) \in BOOLEAN
           /\ p \notin PlacesOf(details.shown) \cup PlacesQueued
           /\ \A b \in before : ups[b].item.place # p
           /\ details' = [details EXCEPT !.cards = @ \cup {f}]
<1>1. PICK f \in Files \ taken, before \in SUBSET Failed :
        LET free == FreePlaces \ {ups[b].item.place : b \in before} IN
        /\ free # {} /\ Take(f, f, Min(free), DetailsAware(before))
        /\ details' = [details EXCEPT !.cards = @ \cup {f}]
  BY DEF TakeInDetails
<1> DEFINE free == FreePlaces \ {ups[b].item.place : b \in before}
<1>2. Min(free) \in free
  <2>1. IsFiniteSet(1 .. PhotoMax) /\ 1 .. PhotoMax \subseteq Int
    BY FS_Interval, DeskAssumption
  <2>2. free \subseteq 1 .. PhotoMax
    BY DEF FreePlaces, Places
  <2>3. IsFiniteSet(free) /\ free \subseteq Int /\ free # {}
    BY <1>1, <2>1, <2>2, FS_Subset
  <2> HIDE DEF free
  <2>4. QED BY <2>3, MinExists
<1>3. PICK p : p = Min(free)
  OBVIOUS
<1>4. p \in Places /\ p \notin PlacesOf(details.shown) \cup PlacesQueued /\ \A b \in before : ups[b].item.place # p
  BY <1>2, <1>3 DEF FreePlaces
<1>5. Take(f, f, p, DetailsAware(before)) /\ details' = [details EXCEPT !.cards = @ \cup {f}]
  BY <1>1, <1>3
<1>6. DetailsAware(before) \in BOOLEAN
  BY DEF DetailsAware, QuietBut
<1>7. QED BY <1>4, <1>5, <1>6

LEMMA TakenInDetails ==
  ASSUME Items, RowsSound, PhoneTyped, TakeInDetails PROVE Items'
<1>1. PICK f \in Files \ taken, before \in SUBSET Failed, p \in Places :
           /\ Take(f, f, p, DetailsAware(before)) /\ DetailsAware(before) \in BOOLEAN
           /\ p \notin PlacesOf(details.shown) \cup PlacesQueued
           /\ \A b \in before : ups[b].item.place # p
  BY PickedWhere
<1>2. before \in SUBSET Clients /\ f \in Screens
  BY Names DEF Failed
<1>3. DetailsAware(before) => /\ \A d \in Live : docs[d].place # p
                              /\ \A x : Sent(x) => x.place # p
  <2>1. ASSUME DetailsAware(before)
        PROVE  QuietBut(before) /\ p \notin PlacesOf(Latest) \cup PlacesQueued
    BY <1>1, <2>1 DEF DetailsAware
  <2>2. QED BY <1>1, <1>2, <2>1, FreeMeetsNothing
<1>4. QED BY <1>1, <1>2, <1>3, TakenItems

LEMMA TakenInForm ==
  ASSUME Items, RowsSound, PhoneTyped, TakeInForm PROVE Items'
<1> DEFINE p == count + 1
<1>1. p \in Places /\ p \notin 1 .. count
  BY DeskAssumption DEF PhoneTyped, TakeInForm, Places
<1> HIDE DEF p
<1>2. PICK f \in Files \ taken : Take("form", f, p, FormAware)
  BY DEF TakeInForm, p
<1>a. FormAware \in BOOLEAN /\ "form" \in Screens
  BY Names DEF FormAware, QuietBut, Screens
<1>3. FormAware => /\ \A d \in Live : docs[d].place # p
                   /\ \A x : Sent(x) => x.place # p
  <2>1. ASSUME FormAware PROVE QuietBut({}) /\ p \notin PlacesOf(Latest) \cup PlacesQueued
    BY <1>1, <2>1 DEF FormAware
  <2>2. {} \in SUBSET Clients /\ \A b \in {} : ups[b].item.place # p
    OBVIOUS
  <2>3. QED BY <2>1, <2>2, FreeMeetsNothing
<1>4. QED BY <1>1, <1>2, <1>a, <1>3, TakenItems

LEMMA TakesWhere ==
  ASSUME PhoneTyped, TakeInDetails \/ TakeInForm
  PROVE  \E c \in Screens, f \in Files \ taken, p \in Places, aware \in BOOLEAN :
            /\ Take(c, f, p, aware)
            /\ details' = details \/ details' = [details EXCEPT !.cards = @ \cup {f}]
<1>1. CASE TakeInDetails
  BY <1>1, PickedWhere, Names
<1>2. CASE TakeInForm
  <2>1. PICK f \in Files \ taken : Take("form", f, count + 1, FormAware) /\ details' = details
    BY <1>2 DEF TakeInForm
  <2>2. count + 1 \in Places /\ FormAware \in BOOLEAN /\ "form" \in Screens
    BY <1>2, DeskAssumption, Names DEF TakeInForm, Places, PhoneTyped, FormAware, QuietBut, Screens
  <2>3. QED BY <2>1, <2>2
<1>3. QED BY <1>1, <1>2

\* What the answers leave of the items: fewer of them.
LEMMA AnsweredItems ==
  ASSUME Items, NoMoreRows, NEW c \in Clients, Answered(c) PROVE Items'
<1>1. /\ ups \in [Clients -> Upload \cup {NoUpload}] /\ queue \subseteq Item
      /\ ups' = [ups EXCEPT ![c] = NoUpload] /\ taken' = taken /\ queue' \subseteq queue
  BY DEF Items, UploadsTyped, Answered, Leftover
<1>2. UploadsTyped'
  BY <1>1 DEF UploadsTyped
<1>3. Fewer
  BY <1>1, <1>2 DEF Fewer, Busy
<1>4. QED BY <1>1, <1>3, FewerItems

LEMMA WebItems ==
  ASSUME Items, NoMoreRows, WebUpload PROVE Items'
<1>1. PICK p \in Places : ups' = [ups EXCEPT !["web"] =
         [pc |-> "trying", left |-> 0, item |-> [file |-> Other, place |-> p, aware |-> FALSE]]]
  BY DEF WebUpload
<1> DEFINE item == [file |-> Other, place |-> p, aware |-> FALSE]
           u == [pc |-> "trying", left |-> 0, item |-> item]
<1>2. /\ ups \in [Clients -> Upload \cup {NoUpload}] /\ queue \subseteq Item
      /\ queue' = queue /\ taken' = taken /\ "web" \in Clients
  BY DEF Items, UploadsTyped, WebUpload, phone, Clients
<1>3. u \in Upload /\ u.item = item /\ item.file = Other /\ ~ item.aware
  BY DEF Upload, Item
<1> HIDE DEF u, item
<1>4. ups' = [ups EXCEPT !["web"] = u]
  BY <1>1 DEF u, item
<1>5. UploadsTyped' /\ WebIsOther'
  BY <1>2, <1>3, <1>4 DEF UploadsTyped, WebIsOther
<1>6. \A o \in Own : ups'[o] = ups[o]
  BY <1>2, <1>4 DEF Own
<1>7. \A x : Sent(x)' => Sent(x)
  BY <1>2, <1>6 DEF Sent, Busy
<1>8. ScreensApart'
  BY <1>2, <1>6, Names DEF Items, ScreensApart, Busy
<1>9. PicturesAreTaken' /\ OnePlace' /\ AwareMeetsNothing'
  BY <1>2, <1>7 DEF Items, PicturesAreTaken, OnePlace, AwareMeetsNothing, NoMoreRows
<1>10. QED BY <1>5, <1>8, <1>9 DEF Items

\* retryUpload.
LEMMA Retried ==
  ASSUME UploadsTyped, Retry
  PROVE  /\ UploadsTyped'
         /\ \E f \in Files : /\ ups[f].pc = "failed" /\ Busy(f) /\ ups'[f].item = ups[f].item
                             /\ \A o \in Clients \ {f} : ups'[o] = ups[o]
<1>1. PICK f \in Failed : ups' = [ups EXCEPT ![f].pc = "trying", ![f].left = 1]
  BY DEF Retry
<1>2. f \in Files /\ f \in Clients /\ ups[f].pc = "failed"
  BY Names DEF Failed
<1>3. /\ ups \in [Clients -> Upload \cup {NoUpload}] /\ queue \subseteq Item /\ queue' = queue
      /\ Busy(f) /\ ups[f] \in Upload
  BY <1>2, PcIsBusy, UploadFields DEF UploadsTyped, Retry, phone
<1>4. PICK u \in Upload : ups' = [ups EXCEPT ![f] = u] /\ u.item = ups[f].item
  <2>1. /\ [ups[f] EXCEPT !.pc = "trying", !.left = 1] \in Upload
        /\ [ups[f] EXCEPT !.pc = "trying", !.left = 1].item = ups[f].item
    <3>1. 1 \in 0 .. 1
      OBVIOUS
    <3>2. QED BY <1>3, <3>1 DEF Upload
  <2>2. ups' = [ups EXCEPT ![f] = [ups[f] EXCEPT !.pc = "trying", !.left = 1]]
    BY <1>1
  <2>3. QED BY <2>1, <2>2
<1>5. UploadsTyped'
  BY <1>3, <1>4 DEF UploadsTyped
<1>6. ups'[f].item = ups[f].item /\ \A o \in Clients \ {f} : ups'[o] = ups[o]
  BY <1>2, <1>3, <1>4
<1>7. QED BY <1>2, <1>3, <1>5, <1>6

LEMMA RetriedItems ==
  ASSUME Items, NoMoreRows, Retry PROVE Items'
<1>1. PICK f \in Files : /\ Busy(f) /\ ups'[f].item = ups[f].item
                         /\ \A o \in Clients \ {f} : ups'[o] = ups[o]
  BY Retried DEF Items
<1>2. UploadsTyped' /\ queue' = queue /\ taken' = taken
  BY Retried DEF Items, Retry, phone
<1>3. Fewer
  BY <1>1, <1>2 DEF Fewer, Busy
<1>4. QED BY <1>2, <1>3, FewerItems

LEMMA FlushedItems ==
  ASSUME Items, NoMoreRows, StartFlush PROVE Items'
<1>1. PICK item \in queue :
        ups' = [ups EXCEPT !["flush"] = [pc |-> "trying", left |-> 1, item |-> item]]
  BY DEF StartFlush
<1> DEFINE u == [pc |-> "trying", left |-> 1, item |-> item]
<1>2. /\ ups \in [Clients -> Upload \cup {NoUpload}] /\ queue \subseteq Item /\ item \in Item
      /\ queue' = queue /\ taken' = taken /\ "flush" \in Clients
  BY DEF Items, UploadsTyped, StartFlush, phone, Clients
<1>3. u \in Upload /\ u.item = item /\ u # NoUpload
  BY <1>2 DEF Upload, NoUpload
<1> HIDE DEF u
<1>4. ups' = [ups EXCEPT !["flush"] = u]
  BY <1>1 DEF u
<1>5. UploadsTyped'
  BY <1>2, <1>3, <1>4 DEF UploadsTyped
<1>6. ups'["web"] = ups["web"] /\ \A o \in Own : ups'[o] = IF o = "flush" THEN u ELSE ups[o]
  BY <1>2, <1>4 DEF Clients, Own
<1>7. \A x : Sent(x)' => Sent(x)
  BY <1>2, <1>3, <1>6 DEF Sent, Busy
<1>8. ScreensApart'
  BY <1>2, <1>3, <1>6, Names DEF Items, ScreensApart, Busy
<1>9. QED BY <1>2, <1>5, <1>6, <1>7, <1>8, HandedOver

LEMMA ResetItems ==
  ASSUME Items, NoMoreRows, StartReset PROVE Items'
<1>1. /\ ups \in [Clients -> Upload \cup {NoUpload}] /\ queue' = {} /\ taken' = taken
      /\ ups' = [c \in Clients |-> IF c \in Failed THEN NoUpload ELSE ups[c]]
  BY DEF Items, UploadsTyped, StartReset
<1>2. UploadsTyped'
  BY <1>1 DEF UploadsTyped
<1>3. Fewer
  BY <1>1, <1>2 DEF Fewer, Busy
<1>4. QED BY <1>1, <1>3, FewerItems

LEMMA KilledItems ==
  ASSUME Items, NoMoreRows, Kill PROVE Items'
<1>1. /\ ups \in [Clients -> Upload \cup {NoUpload}] /\ queue \subseteq Item
      /\ queue' = queue /\ taken' = taken
      /\ ups' = [c \in Clients |-> IF c = "web" THEN ups[c] ELSE NoUpload]
  BY DEF Items, UploadsTyped, Kill
<1>2. UploadsTyped'
  BY <1>1 DEF UploadsTyped
<1>3. Fewer
  BY <1>1, <1>2 DEF Fewer, Busy
<1>4. QED BY <1>1, <1>3, FewerItems

LEMMA ItemsKept ==
  ASSUME Items, RowsSound, PhoneTyped, Next PROVE Items'
<1> USE DEF RowsStay
<1>a. ASSUME docs' = docs PROVE NoMoreRows
  BY <1>a, RowsUntouched
<1>1. ASSUME NEW c \in Clients, Store(c) PROVE Items'
  BY <1>1, StoredItems
<1>2. ASSUME NEW c \in Clients, Refused(c) \/ Lost(c) PROVE Items'
  <2>1. /\ Busy(c) /\ AttemptFails(c) /\ docs' = docs /\ taken' = taken
    BY <1>2, PcIsBusy DEF Refused, Lost
  <2>2. QED BY <2>1, AttemptedItems
<1>b. ASSUME NEW c \in Clients, Offline(c) PROVE Items'
  BY <1>b, OfflineItems
<1>3. ASSUME NEW c \in Clients, Answered(c) PROVE Items'
  BY <1>3, <1>a, AnsweredItems DEF Answered
<1>4. CASE WebUpload
  BY <1>4, <1>a, WebItems DEF WebUpload
<1>5. ASSUME NEW d \in DOMAIN docs, Delete(d) PROVE Items'
  BY <1>5, DeletedStay, PhoneAsBefore DEF Delete, phone
<1>6. CASE LoadDetails
  BY <1>6, <1>a, PhoneAsBefore DEF LoadDetails
<1>7. CASE LoadForm
  BY <1>7, <1>a, PhoneAsBefore DEF LoadForm
<1>8. CASE TakeInDetails \/ TakeInForm
  BY <1>8, TakenInDetails, TakenInForm
<1>9. CASE Retry
  BY <1>9, <1>a, RetriedItems DEF Retry
<1>10. CASE StartFlush
  BY <1>10, <1>a, FlushedItems DEF StartFlush
<1>11. CASE StartReset
  BY <1>11, <1>a, ResetItems DEF StartReset
<1>12. CASE ResetNext
  <2> DEFINE d == Min(details.doomed)
  <2>1. docs' = (IF d \in Live THEN Without(d) ELSE docs) /\ ups' = ups /\ queue' = queue /\ taken' = taken
    BY <1>12 DEF ResetNext
  <2>2. NoMoreRows
    BY <2>1, <1>a, DeletedStay
  <2>3. QED BY <2>1, <2>2, PhoneAsBefore
<1>13. CASE Kill
  BY <1>13, <1>a, KilledItems DEF Kill
<1>14. CASE List \/ Click \/ Preview
  BY <1>14, <1>a, PhoneAsBefore DEF List, Click, Preview, phone
<1>15. ASSUME NEW d \in DOMAIN docs, Decide(d) PROVE Items'
  BY <1>15, Decided, RowsChanged, PhoneAsBefore DEF Decide, phone
<1>16. QED
  BY <1>1, <1>2, <1>b, <1>3, <1>4, <1>5, <1>6, <1>7, <1>8, <1>9, <1>10, <1>11, <1>12, <1>13, <1>14,
     <1>15 DEF Next

-----------------------------------------------------------------------------
(* The steps: what was left without an answer *)

\* Nothing that is stored is sent anew.
LEMMA UnsureStays ==
  ASSUME StoredIsUnsure, DocFiles' = DocFiles, taken \subseteq taken', unsure \subseteq unsure',
         \A c \in Own : ups'[c] # NoUpload /\ ups'[c].pc # "stored" =>
            \/ ups'[c].item.file \notin DocFiles \/ ups'[c].item.file \in unsure'
            \/ ups[c] # NoUpload /\ ups[c].pc # "stored" /\ ups'[c].item.file = ups[c].item.file,
         \A x \in queue' :
            \/ x.file \notin DocFiles \/ x.file \in unsure'
            \/ \E y \in queue : x.file = y.file,
         \A x \in queue' :
            ups["flush"].pc = "stored" /\ ups["flush"].item.file = x.file =>
              \/ x.file \in unsure'
              \/ ups'["flush"].pc = "stored" /\ ups'["flush"].item.file = x.file
  PROVE  StoredIsUnsure'
<1>1. DocFiles' \subseteq taken' \cup {Other}
  BY DEF StoredIsUnsure
<1>2. ASSUME NEW c \in Own, ups'[c] # NoUpload, ups'[c].pc # "stored", ups'[c].item.file \in DocFiles
      PROVE  ups'[c].item.file \in unsure'
  BY <1>2 DEF StoredIsUnsure, Busy
<1>3. ASSUME NEW x \in queue', x.file \in DocFiles
      PROVE  x.file \in unsure' \/ (ups'["flush"].pc = "stored" /\ ups'["flush"].item.file = x.file)
  BY <1>3 DEF StoredIsUnsure
<1>4. QED BY <1>1, <1>2, <1>3 DEF StoredIsUnsure, Busy

\* An upload is stored: no other attempt of its picture is under way, and what
\* the queue has of it is what the flush sends.
LEMMA StoredUnsure ==
  ASSUME Items, RowsSound, PhoneTyped, StoredIsUnsure, NEW c \in Clients, Store(c)
  PROVE  StoredIsUnsure'
<1> DEFINE item == ups[c].item
           stored == [ups EXCEPT ![c].pc = "stored"]
<1>1. /\ ups \in [Clients -> Upload \cup {NoUpload}] /\ queue \subseteq Item
      /\ Busy(c) /\ ups[c] \in Upload /\ item \in Item /\ ups[c].pc = "trying"
  BY UploadFields, PcIsBusy DEF Items, UploadsTyped, Store
<1>2. [ups[c] EXCEPT !.pc = "stored"] \in Upload /\ [ups[c] EXCEPT !.pc = "stored"].item = item
      /\ [ups[c] EXCEPT !.pc = "stored"].pc = "stored"
  BY <1>1 DEF Upload
<1>3. /\ stored \in [Clients -> Upload \cup {NoUpload}]
      /\ stored[c] # NoUpload /\ stored[c].pc = "stored" /\ stored[c].item = item
      /\ \A o \in Clients \ {c} : stored[o] = ups[o]
  BY <1>1, <1>2 DEF Busy, NoUpload, Upload
<1> HIDE DEF stored
<1>4. /\ taken' = taken /\ unsure' = unsure
      /\ \/ c # "web" /\ ups' = stored /\ queue' = queue
         \/ c = "web" /\ ups' = Unaware(item.place, stored) /\ queue' = UnawareItems(item.place)
  BY DEF Store, stored
<1> HIDE DEF item
<1>5. \A o \in Clients : ups'[o] # NoUpload =>
        /\ stored[o] # NoUpload /\ ups'[o].pc = stored[o].pc /\ ups'[o].item.file = stored[o].item.file
  BY <1>3, <1>4, DoubtedUploads
<1>6. \A o \in Clients : stored[o] # NoUpload =>
        ups'[o].pc = stored[o].pc /\ ups'[o].item.file = stored[o].item.file
  BY <1>3, <1>4, DoubtedUploads
<1>7. \A x \in queue' : \E y \in queue : x.file = y.file
  BY <1>1, <1>4, DoubtedItems
<1>8. DocFiles' = DocFiles \cup {item.file}
  <2>1. Len(docs) < MaxDocs /\ docs' = WithVersion(item)
    BY DEF Store, item
  <2>2. /\ New.file = item.file
        /\ DOMAIN docs' = DOMAIN docs \cup {Len(docs')}
        /\ \A d \in DOMAIN docs : docs'[d].file = docs[d].file
    BY <1>1, <2>1, Versioned
  <2>3. QED BY <2>2 DEF DocFiles, New
<1>9. c # "web" => Sent(item) /\ item.file \in taken
  BY <1>1 DEF Sent, Own, item, Items, PicturesAreTaken
<1>10. c = "web" => item.file = Other
  BY <1>1 DEF Items, WebIsOther, item
<1>11. \A x : Sent(x) => x.file # Other
  BY DeskAssumption DEF Items, PicturesAreTaken, PhoneTyped
<1>12. \A o \in Own \ {c} : Busy(o) => ups[o].item.file # item.file
  <2>1. SUFFICES ASSUME NEW o \in Own \ {c}, Busy(o) PROVE ups[o].item.file # item.file
    OBVIOUS
  <2>2. CASE c = "web"
    BY <1>10, <1>11, <2>1, <2>2 DEF Sent
  <2>3. CASE c # "web"
    BY <1>1, <2>1, <2>3, Names DEF Items, ScreensApart, item
  <2>4. QED BY <2>2, <2>3
<1>13. c # "flush" => \A y \in queue : y.file # item.file
  <2>1. CASE c = "web"
    BY <1>10, <1>11, <2>1 DEF Sent
  <2>2. CASE c \in Screens
    BY <1>1, <2>2 DEF Items, ScreensApart, item
  <2>3. QED BY <2>1, <2>2, Names
<1>14. DocFiles' \subseteq taken' \cup {Other}
  BY <1>4, <1>8, <1>9, <1>10 DEF StoredIsUnsure
<1>15. ASSUME NEW o \in Own, ups'[o] # NoUpload, ups'[o].pc # "stored", ups'[o].item.file \in DocFiles'
       PROVE  ups'[o].item.file \in unsure'
  <2>1. o # c /\ o \in Clients /\ Busy(o) /\ ups[o].pc # "stored" /\ ups'[o].item.file = ups[o].item.file
    BY <1>3, <1>5, <1>15 DEF Own, Busy
  <2>2. ups[o].item.file \in DocFiles
    BY <1>8, <1>12, <1>15, <2>1
  <2>3. QED BY <1>4, <2>1, <2>2 DEF StoredIsUnsure
<1>16. ASSUME NEW x \in queue', x.file \in DocFiles'
       PROVE  x.file \in unsure' \/ (ups'["flush"].pc = "stored" /\ ups'["flush"].item.file = x.file)
  <2>1. PICK y \in queue : x.file = y.file
    BY <1>7
  <2>2. CASE x.file = item.file
    BY <1>3, <1>6, <1>13, <2>1, <2>2
  <2>3. CASE x.file # item.file
    <3>1. y.file \in DocFiles
      BY <1>8, <1>16, <2>1, <2>3
    <3>2. \/ y.file \in unsure
          \/ ups["flush"].pc = "stored" /\ ups["flush"].item.file = y.file
      BY <3>1 DEF StoredIsUnsure
    <3>3. ASSUME ups["flush"].pc = "stored" /\ ups["flush"].item.file = y.file
          PROVE  ups'["flush"].pc = "stored" /\ ups'["flush"].item.file = y.file
      <4>1. "flush" \in Clients /\ c # "flush" /\ ups["flush"] # NoUpload
        BY <1>1, <3>3, PcIsBusy DEF Clients, Busy
      <4>2. QED BY <1>3, <1>6, <3>3, <4>1
    <3>4. QED BY <1>4, <2>1, <3>2, <3>3
  <2>4. QED BY <2>2, <2>3
<1>17. QED BY <1>14, <1>15, <1>16 DEF StoredIsUnsure, Busy

\* An attempt fails: by a refusal nothing is stored, after a lost answer the
\* picture is one of those that may be.
LEMMA PassedUnsure ==
  ASSUME Items, StoredIsUnsure, NEW c \in Clients, Busy(c),
         \A o \in Clients \ {c} : ups'[o] = ups[o],
         Busy(c)' => ups'[c].item = ups[c].item,
         queue' = queue \/ (c \in Own /\ queue' = queue \cup {ups[c].item}),
         DocFiles' = DocFiles, taken' = taken, unsure \subseteq unsure',
         c # "web" /\ ups[c].pc = "stored" => ups[c].item.file \in unsure'
  PROVE  StoredIsUnsure'
<1>2. c # "web" /\ ups[c].item.file \in DocFiles => ups[c].item.file \in unsure'
  BY DEF StoredIsUnsure, Own
<1>3. \A o \in Own : ups'[o] # NoUpload /\ ups'[o].pc # "stored" =>
            \/ ups'[o].item.file \notin DocFiles \/ ups'[o].item.file \in unsure'
            \/ ups[o] # NoUpload /\ ups[o].pc # "stored" /\ ups'[o].item.file = ups[o].item.file
  BY <1>2 DEF Own, Busy
<1>4. \A x \in queue' :
            \/ x.file \notin DocFiles \/ x.file \in unsure'
            \/ \E y \in queue : x.file = y.file
  BY <1>2, Names
<1>5. \A x \in queue' :
            ups["flush"].pc = "stored" /\ ups["flush"].item.file = x.file =>
              \/ x.file \in unsure'
              \/ ups'["flush"].pc = "stored" /\ ups'["flush"].item.file = x.file
  <2>1. CASE c = "flush"
    BY <2>1
  <2>2. CASE c # "flush"
    BY <2>2, Names
  <2>3. QED BY <2>1, <2>2
<1>6. QED BY <1>3, <1>4, <1>5, UnsureStays

LEMMA AttemptedUnsure ==
  ASSUME Items, PhoneTyped, StoredIsUnsure, NEW c \in Clients, Busy(c), AttemptFails(c),
         DocFiles' = DocFiles, taken' = taken, unsure \subseteq unsure',
         c # "web" /\ ups[c].pc = "stored" => ups[c].item.file \in unsure'
  PROVE  StoredIsUnsure'
<1>1. /\ \A o \in Clients \ {c} : ups'[o] = ups[o]
      /\ Busy(c)' => ups'[c].item = ups[c].item
      /\ queue' = queue \/ (c \in Own /\ queue' = queue \cup {ups[c].item})
  BY Attempted DEF Items
<1>2. QED BY <1>1, PassedUnsure

\* Without a network nothing is sent that had been stored.
LEMMA OfflineUnsure ==
  ASSUME Items, PhoneTyped, StoredIsUnsure, NEW c \in Clients, Offline(c) PROVE StoredIsUnsure'
<1>1. /\ c \in Own /\ Busy(c) /\ LeftToQueue(c) /\ docs' = docs /\ taken' = taken /\ unsure' = unsure
      /\ ups[c].pc = "trying"
  BY PcIsBusy, Names DEF Offline, Screens
<1>2. /\ \A o \in Clients \ {c} : ups'[o] = ups[o]
      /\ ~ Busy(c)' /\ queue' = queue \cup {ups[c].item}
  BY <1>1, Left DEF Items, PhoneTyped
<1>3. DocFiles' = DocFiles
  BY <1>1 DEF DocFiles
<1>4. QED BY <1>1, <1>2, <1>3, PassedUnsure

\* The queue forgets a picture when the flush has its answer.
LEMMA AnsweredUnsure ==
  ASSUME Items, StoredIsUnsure, NEW c \in Clients, Answered(c) PROVE StoredIsUnsure'
<1>1. /\ ups \in [Clients -> Upload \cup {NoUpload}] /\ ups[c].pc = "stored"
      /\ ups' = [ups EXCEPT ![c] = NoUpload] /\ taken' = taken /\ unsure' = unsure /\ docs' = docs
      /\ queue' = IF c = "flush" THEN Leftover(ups[c].item) ELSE queue
  BY DEF Items, UploadsTyped, Answered
<1>2. DocFiles' = DocFiles
  BY <1>1 DEF DocFiles
<1>3. \A o \in Own : ups'[o] # NoUpload => ups'[o] = ups[o]
  BY <1>1 DEF Own
<1>4. queue' \subseteq queue
  BY <1>1 DEF Leftover
<1>5. ASSUME NEW x \in queue', ups["flush"].pc = "stored" /\ ups["flush"].item.file = x.file
      PROVE  ups'["flush"].pc = "stored" /\ ups'["flush"].item.file = x.file
  <2>1. CASE c # "flush"
    BY <1>1, <1>5, <2>1, Names
  <2>2. CASE c = "flush"
    <3>1. Sent(x) /\ Sent(ups["flush"].item)
      BY <1>4, <1>5, PcIsBusy, Names DEF Sent
    <3>2. x.place = ups["flush"].item.place
      BY <1>5, <3>1 DEF Items, OnePlace
    <3>3. <<x.file, x.place>> # <<ups["flush"].item.file, ups["flush"].item.place>>
      BY <1>1, <2>2 DEF Leftover
    <3>4. QED BY <1>5, <3>2, <3>3
  <2>3. QED BY <2>1, <2>2
<1>6. QED BY <1>1, <1>2, <1>3, <1>4, <1>5, UnsureStays

\* A picture that is taken is new to the server.
LEMMA TakenUnsure ==
  ASSUME Items, PhoneTyped, StoredIsUnsure, NEW c \in Screens, NEW f \in Files \ taken, NEW p, NEW aware,
         Take(c, f, p, aware)
  PROVE  StoredIsUnsure'
<1> DEFINE item == [file |-> f, place |-> p, aware |-> aware]
           doubted == IF aware THEN ups ELSE Unaware(p, ups)
           upload == [pc |-> "trying", left |-> 1, item |-> item]
<1>2. /\ c \in Clients /\ c # "flush" /\ ups \in [Clients -> Upload \cup {NoUpload}] /\ queue \subseteq Item
      /\ docs' = docs /\ unsure' = unsure /\ taken' = taken \cup {f}
  BY Names DEF Items, UploadsTyped, Take
<1>3. /\ doubted \in [Clients -> Upload \cup {NoUpload}]
      /\ \A o \in Clients : doubted[o] # NoUpload <=> ups[o] # NoUpload
      /\ \A o \in Clients : doubted[o] # NoUpload =>
            /\ doubted[o].pc = ups[o].pc /\ doubted[o].item.file = ups[o].item.file
  BY <1>2, DoubtedUploads
<1>4. \A x \in queue' : \E y \in queue : x.file = y.file
  BY <1>2, DoubtedItems DEF Take
<1>5. upload.item = item /\ item.file = f
  OBVIOUS
<1>6. ups' = [doubted EXCEPT ![c] = upload]
  BY DEF Take
<1> HIDE DEF doubted, upload, item
<1>7. DocFiles' = DocFiles /\ taken \subseteq taken' /\ unsure \subseteq unsure' /\ f \notin DocFiles
  BY <1>2, Names DEF DocFiles, StoredIsUnsure
<1>8. \A o \in Own : ups'[o] # NoUpload /\ ups'[o].pc # "stored" =>
            \/ ups'[o].item.file \notin DocFiles
            \/ ups[o] # NoUpload /\ ups[o].pc # "stored" /\ ups'[o].item.file = ups[o].item.file
  <2>1. \A o \in Own : ups'[o] = doubted[o] \/ ups'[o] = upload
    BY <1>2, <1>3, <1>6 DEF Own
  <2>2. QED BY <1>3, <1>5, <1>7, <2>1 DEF Own
<1>10. ups["flush"].pc = "stored" => ups'["flush"].pc = "stored" /\ ups'["flush"].item.file = ups["flush"].item.file
  <2>1. "flush" \in Clients /\ (ups["flush"].pc = "stored" => ups["flush"] # NoUpload)
    BY PcIsBusy, Names DEF Busy
  <2>2. ups'["flush"] = doubted["flush"]
    BY <1>2, <1>3, <1>6, <2>1
  <2>3. QED BY <1>3, <2>1, <2>2
<1>11. QED BY <1>4, <1>7, <1>8, <1>10, UnsureStays

LEMMA UnsureUntouched ==
  ASSUME StoredIsUnsure, DocFiles' = DocFiles, taken' = taken, unsure' = unsure,
         \A c \in Own : ups'[c] = ups[c], queue' = queue
  PROVE  StoredIsUnsure'
BY Names DEF StoredIsUnsure, Busy

LEMMA UnsureKept ==
  ASSUME Items, RowsSound, PhoneTyped, StoredIsUnsure, Next PROVE StoredIsUnsure'
<1>a. ASSUME docs' = docs PROVE DocFiles' = DocFiles
  BY <1>a DEF DocFiles
<1>b. ups \in [Clients -> Upload \cup {NoUpload}]
  BY DEF Items, UploadsTyped
<1>1. ASSUME NEW c \in Clients, Store(c) PROVE StoredIsUnsure'
  BY <1>1, StoredUnsure
<1>2. ASSUME NEW c \in Clients, Refused(c) PROVE StoredIsUnsure'
  <2>1. /\ Busy(c) /\ AttemptFails(c) /\ docs' = docs /\ taken' = taken /\ unsure' = unsure /\ ups[c].pc = "trying"
    BY <1>2, PcIsBusy DEF Refused
  <2>2. QED BY <1>a, <2>1, AttemptedUnsure
<1>3. ASSUME NEW c \in Clients, Lost(c) PROVE StoredIsUnsure'
  <2>1. /\ Busy(c) /\ AttemptFails(c) /\ docs' = docs /\ taken' = taken
        /\ unsure' = unsure \cup {ups[c].item.file}
    BY <1>3, PcIsBusy DEF Lost
  <2>2. QED BY <1>a, <2>1, AttemptedUnsure
<1>c. ASSUME NEW c \in Clients, Offline(c) PROVE StoredIsUnsure'
  BY <1>c, OfflineUnsure
<1>4. ASSUME NEW c \in Clients, Answered(c) PROVE StoredIsUnsure'
  BY <1>4, AnsweredUnsure
<1>5. CASE WebUpload
  <2>1. \A c \in Own : ups'[c] = ups[c]
    BY <1>b, <1>5 DEF WebUpload, Own
  <2>2. QED BY <1>5, <1>a, <2>1, UnsureUntouched DEF WebUpload, phone
<1>6. ASSUME NEW d \in DOMAIN docs, Delete(d) PROVE StoredIsUnsure'
  BY <1>6, DeletedStay, UnsureUntouched DEF Delete, phone, RowsStay
<1>7. CASE LoadDetails \/ LoadForm \/ List \/ Click \/ Preview
  BY <1>7, <1>a, UnsureUntouched DEF LoadDetails, LoadForm, List, Click, Preview, phone
<1>8. CASE TakeInDetails \/ TakeInForm
  BY <1>8, TakesWhere, TakenUnsure
<1>10. CASE Retry
  <2>1. docs' = docs /\ taken' = taken /\ unsure' = unsure /\ queue' = queue
    BY <1>10 DEF Retry, phone
  <2>2. PICK f \in Files : /\ ups[f].pc = "failed" /\ Busy(f) /\ ups'[f].item = ups[f].item
                           /\ \A o \in Clients \ {f} : ups'[o] = ups[o]
    BY <1>10, Retried DEF Items
  <2>3. \A o \in Own : ups'[o] # NoUpload /\ ups'[o].pc # "stored" =>
          ups[o] # NoUpload /\ ups[o].pc # "stored" /\ ups'[o].item.file = ups[o].item.file
    BY <2>2, Names DEF Busy
  <2>4. ups'["flush"] = ups["flush"]
    BY <2>2, Names
  <2>5. QED BY <1>a, <2>1, <2>3, <2>4, UnsureStays
<1>11. CASE StartFlush
  <2>1. PICK item \in queue :
          ups' = [ups EXCEPT !["flush"] = [pc |-> "trying", left |-> 1, item |-> item]]
    BY <1>11 DEF StartFlush
  <2>2. /\ docs' = docs /\ taken' = taken /\ unsure' = unsure /\ queue' = queue
        /\ ups["flush"].pc = "none" /\ "flush" \in Clients
    BY <1>11 DEF StartFlush, phone, Clients, NoUpload
  <2>3. /\ \A o \in Clients \ {"flush"} : ups'[o] = ups[o]
        /\ ups'["flush"].item = item
    BY <1>b, <2>1, <2>2
  <2>4. \A y \in queue : y.file \in DocFiles => y.file \in unsure
    BY <2>2 DEF StoredIsUnsure
  <2>5. QED BY <1>a, <2>2, <2>3, <2>4, UnsureStays DEF Own
<1>12. CASE StartReset
  <2>1. /\ docs' = docs /\ taken' = taken /\ unsure' = unsure /\ queue' = {}
        /\ ups' = [c \in Clients |-> IF c \in Failed THEN NoUpload ELSE ups[c]]
    BY <1>12 DEF StartReset
  <2>2. \A o \in Own : ups'[o] # NoUpload => ups'[o] = ups[o]
    BY <1>b, <2>1 DEF Own
  <2>3. QED BY <1>a, <2>1, <2>2, UnsureStays
<1>13. CASE ResetNext
  <2> DEFINE d == Min(details.doomed)
  <2>1. /\ docs' = (IF d \in Live THEN Without(d) ELSE docs)
        /\ ups' = ups /\ queue' = queue /\ taken' = taken /\ unsure' = unsure
    BY <1>13 DEF ResetNext
  <2>2. DocFiles' = DocFiles
    BY <2>1, <1>a, DeletedStay DEF RowsStay
  <2>3. QED BY <2>1, <2>2, UnsureUntouched
<1>14. CASE Kill
  <2>1. /\ docs' = docs /\ taken' = taken /\ queue' = queue
        /\ ups' = [c \in Clients |-> IF c = "web" THEN ups[c] ELSE NoUpload]
        /\ unsure' = unsure \cup {i.file : i \in {ups[c].item : c \in {k \in {"flush"} : ups[k] # NoUpload}}}
    BY <1>14 DEF Kill
  <2>2. \A o \in Own : ups'[o] = NoUpload
    BY <2>1 DEF Own
  <2>3. ups["flush"].pc = "stored" => ups["flush"].item.file \in unsure'
    BY <2>1, PcIsBusy DEF Busy, Clients
  <2>4. QED BY <1>a, <2>1, <2>2, <2>3, UnsureStays
<1>15. ASSUME NEW d \in DOMAIN docs, Decide(d) PROVE StoredIsUnsure'
  BY <1>15, Decided, RowsChanged, UnsureUntouched DEF Decide, phone, RowsStay
<1>16. QED
  BY <1>1, <1>2, <1>3, <1>c, <1>4, <1>5, <1>6, <1>7, <1>8, <1>10, <1>11, <1>12, <1>13, <1>14,
     <1>15 DEF Next

-----------------------------------------------------------------------------
(* The steps: the phone's own state *)

LEMMA PhoneUntouched ==
  ASSUME PhoneTyped, details' = details, count' = count, taken' = taken, unsure' = unsure,
         faults' \in 0 .. MaxFaults
  PROVE  PhoneTyped'
BY DEF PhoneTyped

LEMMA FaultCounted ==
  ASSUME PhoneTyped, Fault PROVE faults' \in 0 .. MaxFaults
BY DeskAssumption DEF PhoneTyped, Fault

LEMMA PhoneKept ==
  ASSUME Items, RowsSound, PhoneTyped, Next PROVE PhoneTyped'
<1>a. /\ details \in [shown : SUBSET Ids, doomed : SUBSET Ids, cards : SUBSET Files]
      /\ count \in 0 .. PhotoMax
      /\ unsure \subseteq taken /\ taken \subseteq Files /\ faults \in 0 .. MaxFaults
      /\ ups \in [Clients -> Upload \cup {NoUpload}]
  BY DEF PhoneTyped, Items, UploadsTyped
<1>b. Latest \subseteq Ids
  BY RowFields DEF RowsSound
<1>c. Latest' \subseteq Ids
  <2>1. RowsSound'
    BY RowsKept
  <2>2. (DOMAIN docs \subseteq Ids /\ Live \subseteq DOMAIN docs /\ Latest \subseteq Live)'
    BY <2>1, RowFieldsNext DEF RowsSound
  <2>3. QED BY <2>2 DEF Ids
<1>d. \A c \in Own : Busy(c) => ups[c].item.file \in taken
  BY DEF Items, PicturesAreTaken, Sent
<1>1. ASSUME NEW c \in Clients, Store(c) PROVE PhoneTyped'
  BY <1>1, <1>a, PhoneUntouched DEF Store
<1>2. ASSUME NEW c \in Clients, Refused(c) PROVE PhoneTyped'
  <2>1. Busy(c) /\ AttemptFails(c) /\ UNCHANGED <<details, taken, unsure, faults>>
    BY <1>2, PcIsBusy DEF Refused
  <2>2. count' \in 0 .. PhotoMax
    BY <2>1, Attempted DEF Items
  <2>3. QED BY <1>a, <2>1, <2>2 DEF PhoneTyped
<1>3. ASSUME NEW c \in Clients, Lost(c) PROVE PhoneTyped'
  <2>1. /\ Busy(c) /\ AttemptFails(c) /\ UNCHANGED <<details, taken>> /\ Fault /\ c \in Own
        /\ unsure' = unsure \cup {ups[c].item.file}
    BY <1>3, PcIsBusy DEF Lost, Own
  <2>2. count' \in 0 .. PhotoMax /\ faults' \in 0 .. MaxFaults
    BY <2>1, Attempted, FaultCounted DEF Items
  <2>3. QED BY <1>a, <1>d, <2>1, <2>2 DEF PhoneTyped
<1>e. ASSUME NEW c \in Clients, Offline(c) PROVE PhoneTyped'
  <2>1. UNCHANGED <<details, taken, unsure>> /\ Fault
    BY <1>e DEF Offline
  <2>2. count' \in 0 .. PhotoMax /\ faults' \in 0 .. MaxFaults
    BY <1>e, <2>1, OfflineItems, FaultCounted
  <2>3. QED BY <1>a, <2>1, <2>2 DEF PhoneTyped
<1>4. ASSUME NEW c \in Clients, Answered(c) PROVE PhoneTyped'
  <2>1. count' \in 0 .. PhotoMax
    BY <1>4, <1>a, MinOfTwo, DeskAssumption DEF Answered, Counted
  <2>2. details' \in [shown : SUBSET Ids, doomed : SUBSET Ids, cards : SUBSET Files]
    BY <1>4, <1>a, <1>b DEF Answered
  <2>3. UNCHANGED <<taken, unsure, faults>>
    BY <1>4 DEF Answered
  <2>4. QED BY <1>a, <2>1, <2>2, <2>3 DEF PhoneTyped
<1>5. CASE WebUpload
  <2>1. faults' \in 0 .. MaxFaults
    BY <1>5, <1>a, FaultCounted DEF WebUpload, Elsewhere
  <2>2. QED BY <1>5, <2>1, PhoneUntouched DEF WebUpload, phone
<1>6. ASSUME NEW d \in DOMAIN docs, Delete(d) PROVE PhoneTyped'
  BY <1>6, FaultCounted, PhoneUntouched DEF Delete, phone
<1>7. CASE LoadDetails
  <2>1. details' \in [shown : SUBSET Ids, doomed : SUBSET Ids, cards : SUBSET Files]
    BY <1>7, <1>a, <1>b DEF LoadDetails
  <2>2. QED BY <1>7, <1>a, <2>1 DEF PhoneTyped, LoadDetails
<1>8. CASE LoadForm
  BY <1>8, <1>a, LatestCounted DEF LoadForm, PhoneTyped
<1>9. CASE TakeInDetails \/ TakeInForm
  <2>1. PICK c \in Screens, f \in Files \ taken, p \in Places, aware \in BOOLEAN :
            /\ Take(c, f, p, aware)
            /\ details' = details \/ details' = [details EXCEPT !.cards = @ \cup {f}]
    BY <1>9, TakesWhere
  <2>2. UNCHANGED <<unsure, count, faults>> /\ taken' = taken \cup {f}
    BY <2>1 DEF Take
  <2>3. details' \in [shown : SUBSET Ids, doomed : SUBSET Ids, cards : SUBSET Files]
    BY <1>a, <2>1
  <2>4. QED BY <1>a, <2>2, <2>3 DEF PhoneTyped
<1>10. CASE Retry \/ StartFlush \/ List \/ Click \/ Preview
  BY <1>10, <1>a, PhoneUntouched DEF Retry, StartFlush, List, Click, Preview, phone
<1>11. CASE StartReset
  <2>1. details' \in [shown : SUBSET Ids, doomed : SUBSET Ids, cards : SUBSET Files]
    BY <1>11, <1>a DEF StartReset
  <2>2. QED BY <1>11, <1>a, <2>1 DEF PhoneTyped, StartReset
<1>12. CASE ResetNext
  <2>1. details' \in [shown : SUBSET Ids, doomed : SUBSET Ids, cards : SUBSET Files]
    BY <1>12, <1>a, <1>c DEF ResetNext
  <2>2. QED BY <1>12, <1>a, <2>1 DEF PhoneTyped, ResetNext
<1>13. CASE Kill
  <2>1. /\ count' = count /\ taken' = taken /\ Fault
        /\ details' = [shown |-> {}, doomed |-> {}, cards |-> {}]
        /\ unsure' = unsure \cup {i.file : i \in {ups[c].item : c \in {k \in {"flush"} : ups[k] # NoUpload}}}
    BY <1>13 DEF Kill
  <2>2. unsure' \subseteq taken
    BY <1>a, <1>d, <2>1, Names DEF Busy
  <2>3. QED BY <1>a, <2>1, <2>2, FaultCounted DEF PhoneTyped
<1>14. ASSUME NEW d \in DOMAIN docs, Decide(d) PROVE PhoneTyped'
  BY <1>14, <1>a, PhoneUntouched DEF Decide, phone
<1>15. QED
  BY <1>1, <1>2, <1>3, <1>e, <1>4, <1>5, <1>6, <1>7, <1>8, <1>9, <1>10, <1>11, <1>12, <1>13, <1>14
     DEF Next

-----------------------------------------------------------------------------
(* The steps: the review page *)

DeskSound == desk \in Desk /\ PreviewIsOfSelection

LEMMA Selected ==
  ASSUME DeskSound, NEW list \in SUBSET Ids, NEW sel \in Ids \cup {0}, desk' = Select(sel, list)
  PROVE  DeskSound'
<1>1. /\ desk \in Desk /\ desk.list \in SUBSET Ids /\ desk.sel \in Ids \cup {0}
      /\ desk.seen \in Ids \cup {0} /\ desk.asked \in SUBSET Ids /\ desk.loading \in BOOLEAN
  BY DEF DeskSound, Desk
<1>2. 0 \notin Ids
  BY DEF Ids
<1>3. CASE sel = desk.sel \/ sel = 0
  <2>1. desk' = [desk EXCEPT !.list = list, !.sel = sel, !.seen = IF sel = 0 THEN 0 ELSE @]
    BY <1>3 DEF Select
  <2>2. /\ desk' \in Desk /\ desk'.sel = sel /\ desk'.loading = desk.loading
        /\ desk'.seen = IF sel = 0 THEN 0 ELSE desk.seen
    BY <1>1, <2>1 DEF Desk
  <2>3. QED BY <1>3, <2>2 DEF DeskSound, PreviewIsOfSelection
<1>4. CASE ~ (sel = desk.sel \/ sel = 0)
  <2>1. desk' = [desk EXCEPT !.list = list, !.sel = sel, !.asked = desk.asked \cup {sel}, !.loading = TRUE]
    BY <1>4 DEF Select
  <2>2. desk.asked \cup {sel} \in SUBSET Ids
    BY <1>1, <1>4
  <2>3. desk' \in Desk /\ desk'.loading = TRUE
    BY <1>1, <2>1, <2>2 DEF Desk
  <2>4. QED BY <2>3 DEF DeskSound, PreviewIsOfSelection
<1>5. QED BY <1>3, <1>4

LEMMA ListedSound ==
  ASSUME DeskSound, NEW ds, DOMAIN ds \subseteq Ids, desk' = Listed(ds) PROVE DeskSound'
<1> DEFINE list == {d \in DOMAIN ds : ds[d].live /\ ds[d].pending}
           sel == CASE desk.sel \in list -> desk.sel
                    [] list = {} -> 0
                    [] OTHER -> Max(list)
<1>1. list \in SUBSET Ids
  OBVIOUS
<1>2. IsFiniteSet(list) /\ list \subseteq Int
  <2>1. IsFiniteSet(1 .. MaxDocs) /\ 1 .. MaxDocs \subseteq Int
    BY FS_Interval, DeskAssumption
  <2>2. list \subseteq 1 .. MaxDocs
    BY <1>1 DEF Ids
  <2>3. QED BY <2>1, <2>2, FS_Subset
<1>3. list # {} => Max(list) \in list
  BY <1>2, MaxExists
<1>4. desk' = Select(sel, list)
  BY DEF Listed
<1> HIDE DEF list
<1>5. sel \in Ids \cup {0}
  <2>1. CASE desk.sel \in list
    <3>1. list # {}
      BY <2>1
    <3>2. sel = desk.sel
      BY <2>1, <3>1
    <3>3. QED BY <1>1, <2>1, <3>2
  <2>2. CASE list = {}
    BY <2>2
  <2>3. CASE desk.sel \notin list /\ list # {}
    BY <1>1, <1>3, <2>3
  <2>4. QED BY <2>1, <2>2, <2>3
<1> HIDE DEF sel
<1>6. QED BY <1>1, <1>4, <1>5, Selected

LEMMA DeskKept ==
  ASSUME DeskSound, RowsSound, Items, Next PROVE DeskSound'
<1>a. /\ desk \in Desk /\ desk.list \in SUBSET Ids /\ desk.sel \in Ids \cup {0}
      /\ desk.seen \in Ids \cup {0} /\ desk.asked \in SUBSET Ids /\ desk.loading \in BOOLEAN
  BY DEF DeskSound, Desk
<1>b. DOMAIN docs \subseteq Ids /\ DOMAIN docs' \subseteq Ids
  <2>1. RowsSound'
    BY RowsKept
  <2>2. (DOMAIN docs \subseteq Ids)'
    BY <2>1, RowFieldsNext DEF RowsSound
  <2>3. QED BY <2>2, RowFields DEF RowsSound, Ids
<1>c. ASSUME desk' = desk PROVE DeskSound'
  BY <1>c DEF DeskSound, PreviewIsOfSelection
<1>1. ASSUME NEW c \in Clients, Store(c) \/ Refused(c) \/ Lost(c) \/ Offline(c) \/ Answered(c)
      PROVE  DeskSound'
  BY <1>1, <1>c DEF Store, Refused, Lost, Offline, Answered
<1>2. CASE WebUpload \/ LoadDetails \/ LoadForm \/ TakeInDetails \/ TakeInForm
  BY <1>2, <1>c DEF WebUpload, LoadDetails, LoadForm, TakeInDetails, TakeInForm, Take
<1>3. CASE Retry \/ StartFlush \/ StartReset \/ ResetNext \/ Kill
  BY <1>3, <1>c DEF Retry, StartFlush, StartReset, ResetNext, Kill
<1>4. ASSUME NEW d \in DOMAIN docs, Delete(d) PROVE DeskSound'
  BY <1>4, <1>b, <1>c, ListedSound DEF Delete
<1>5. CASE List
  BY <1>5, <1>b, ListedSound DEF List
<1>6. CASE Click
  <2>1. PICK d \in desk.list : desk' = Select(d, desk.list)
    BY <1>6 DEF Click
  <2>2. QED BY <1>a, <2>1, Selected
<1>7. CASE Preview
  <2>1. PICK d \in desk.asked, url \in BOOLEAN :
          desk' = IF Awaited(d)
                    THEN [[desk EXCEPT !.asked = @ \ {d}] EXCEPT
                            !.seen = IF url /\ d \in Live THEN d ELSE 0, !.loading = FALSE]
                    ELSE [desk EXCEPT !.asked = @ \ {d}]
    BY <1>7 DEF Preview
  <2> DEFINE told == [desk EXCEPT !.asked = @ \ {d}]
             s == IF url /\ d \in Live THEN d ELSE 0
  <2>2. /\ told \in Desk /\ told.sel = desk.sel /\ told.seen = desk.seen /\ told.loading = desk.loading
    BY <1>a DEF Desk
  <2>3. s \in Ids \cup {0} /\ s \in {0, d}
    BY <1>a
  <2> HIDE DEF told, s
  <2>4. CASE Awaited(d)
    <3>1. desk' = [told EXCEPT !.seen = s, !.loading = FALSE]
      BY <2>1, <2>4 DEF told, s
    <3>2. desk' \in Desk /\ desk'.sel = desk.sel /\ desk'.seen = s
      BY <2>2, <2>3, <3>1 DEF Desk
    <3>3. QED BY <2>3, <2>4, <3>2 DEF Awaited, DeskSound, PreviewIsOfSelection
  <2>5. CASE ~ Awaited(d)
    BY <2>1, <2>2, <2>5 DEF told, DeskSound, PreviewIsOfSelection
  <2>6. QED BY <2>4, <2>5
<1>8. ASSUME NEW d \in DOMAIN docs, Decide(d) PROVE DeskSound'
  BY <1>8, <1>b, <1>c, ListedSound DEF Decide
<1>9. QED BY <1>1, <1>2, <1>3, <1>4, <1>5, <1>6, <1>7, <1>8 DEF Next

-----------------------------------------------------------------------------
(* The whole *)

DeskInv == RowsSound /\ Items /\ PhoneTyped /\ StoredIsUnsure /\ DeskSound

LEMMA DeskInit == Init => DeskInv
<1> SUFFICES ASSUME Init PROVE DeskInv
  OBVIOUS
<1>1. docs = << >> /\ Len(docs) = 0 /\ DOMAIN docs = {} /\ docs \in Seq(Doc)
  BY DEF Init
<1>2. Live = {} /\ Latest = {} /\ DocFiles = {}
  BY <1>1 DEF Live, Latest, DocFiles
<1>3. RowsSound
  BY <1>1, <1>2, DeskAssumption DEF RowsSound, RowsTyped, OneLatest, LiveHaveLatest
<1>4. queue = {} /\ taken = {} /\ ups = [c \in Clients |-> NoUpload]
  BY DEF Init
<1>5. \A c \in Clients : ~ Busy(c)
  BY <1>4 DEF Busy
<1>6. \A x : ~ Sent(x)
  BY <1>4, <1>5 DEF Sent, Own
<1>7. Items
  <2>1. UploadsTyped
    BY <1>4 DEF UploadsTyped
  <2>2. WebIsOther /\ ScreensApart
    BY <1>5, Names DEF WebIsOther, ScreensApart
  <2>3. PicturesAreTaken /\ OnePlace /\ AwareMeetsNothing
    BY <1>6 DEF PicturesAreTaken, OnePlace, AwareMeetsNothing
  <2>4. QED BY <2>1, <2>2, <2>3 DEF Items
<1>8. StoredIsUnsure
  BY <1>2 DEF StoredIsUnsure
<1>9. PhoneTyped
  BY DeskAssumption DEF Init, PhoneTyped
<1>10. DeskSound
  BY DEF Init, DeskSound, Desk, PreviewIsOfSelection
<1>11. QED BY <1>3, <1>7, <1>8, <1>9, <1>10 DEF DeskInv

LEMMA DeskStutters == ASSUME DeskInv, UNCHANGED vars PROVE DeskInv'
<1> USE DEF vars
<1>1. RowsStay
  BY RowsUntouched DEF DeskInv
<1>2. Items'
  BY <1>1, PhoneAsBefore DEF DeskInv, RowsStay
<1>3. StoredIsUnsure'
  BY <1>1, UnsureUntouched DEF DeskInv, RowsStay
<1>4. PhoneTyped' /\ DeskSound'
  BY DEF DeskInv, PhoneTyped, DeskSound, PreviewIsOfSelection
<1>5. QED BY <1>1, <1>2, <1>3, <1>4 DEF DeskInv, RowsStay

LEMMA DeskNext == ASSUME DeskInv, [Next]_vars PROVE DeskInv'
<1>1. CASE Next
  BY <1>1, RowsKept, ItemsKept, PhoneKept, UnsureKept, DeskKept DEF DeskInv
<1>2. QED BY <1>1, DeskStutters

LEMMA DeskTyped == DeskInv => TypeOK /\ PreviewIsOfSelection
<1> SUFFICES ASSUME DeskInv PROVE TypeOK /\ PreviewIsOfSelection
  OBVIOUS
<1>1. docs \in Seq(Doc) /\ Len(docs) <= MaxDocs
  BY DEF DeskInv, RowsSound, RowsTyped
<1>2. /\ details \in [shown : SUBSET Ids, doomed : SUBSET Ids, cards : SUBSET Files]
      /\ count \in 0 .. PhotoMax
      /\ unsure \subseteq taken /\ taken \subseteq Files /\ faults \in 0 .. MaxFaults
  BY DEF DeskInv, PhoneTyped
<1>3. (\A c \in Clients : ups[c] \in Upload \cup {NoUpload}) /\ queue \subseteq Item
  BY DEF DeskInv, Items, UploadsTyped
<1>4. desk \in Desk /\ PreviewIsOfSelection
  BY DEF DeskInv, DeskSound
<1>5. QED BY <1>1, <1>2, <1>3, <1>4 DEF TypeOK

\* A step that stores a row is one that completes an upload.
LEMMA StoredByUpload ==
  ASSUME DeskInv, [Next]_vars, Stored
  PROVE  \E c \in Clients : /\ Store(c) /\ Busy(c) /\ ups[c].pc = "trying" /\ ups'[c].pc = "stored"
                            /\ New.file = ups[c].item.file /\ New.place = ups[c].item.place
<1>1. Len(docs) \in Nat
  BY RowFields DEF DeskInv, RowsSound
<1>2. Next
  BY <1>1 DEF Stored, vars
<1>3. PICK c \in Clients : Store(c)
  BY <1>1, <1>2, OtherSteps DEF DeskInv, RowsStay, Stored
<1> DEFINE item == ups[c].item
           stored == [ups EXCEPT ![c].pc = "stored"]
<1>4. /\ ups \in [Clients -> Upload \cup {NoUpload}]
      /\ Busy(c) /\ ups[c] \in Upload /\ item \in Item /\ ups[c].pc = "trying"
  BY <1>3, UploadFields, PcIsBusy DEF DeskInv, Items, UploadsTyped, Store
<1>5. New.file = item.file /\ New.place = item.place
  <2>1. Len(docs) < MaxDocs /\ docs' = WithVersion(item)
    BY <1>3 DEF Store
  <2>2. QED BY <1>4, <2>1, Versioned DEF DeskInv
<1>6. [ups[c] EXCEPT !.pc = "stored"] \in Upload /\ [ups[c] EXCEPT !.pc = "stored"].pc = "stored"
  BY <1>4 DEF Upload
<1>7. stored \in [Clients -> Upload \cup {NoUpload}] /\ stored[c] # NoUpload /\ stored[c].pc = "stored"
  BY <1>4, <1>6 DEF Upload, NoUpload
<1>8. ups' = stored \/ ups' = Unaware(item.place, stored)
  BY <1>3 DEF Store
<1> HIDE DEF stored
<1>9. ups'[c].pc = "stored"
  BY <1>7, <1>8, DoubtedUploads
<1>10. QED BY <1>3, <1>4, <1>5, <1>9

LEMMA ReplacedUnaware ==
  ASSUME DeskInv, [Next]_vars, Stored, \E d \in LatestAt(New.place) : docs[d].file # New.file
  PROVE  \E c \in Clients : ups[c].pc = "trying" /\ ups'[c].pc = "stored" /\ ~ ups[c].item.aware
<1>1. PICK c \in Clients : /\ Store(c) /\ Busy(c) /\ ups[c].pc = "trying" /\ ups'[c].pc = "stored"
                           /\ New.file = ups[c].item.file /\ New.place = ups[c].item.place
  BY StoredByUpload
<1>2. PICK d \in Live : docs[d].place = ups[c].item.place /\ docs[d].file # ups[c].item.file
  BY <1>1 DEF LatestAt, Latest
<1>3. SUFFICES ASSUME ups[c].item.aware PROVE FALSE
  BY <1>1
<1>4. c # "web"
  BY <1>1, <1>3 DEF DeskInv, Items, WebIsOther
<1>5. Sent(ups[c].item)
  BY <1>1, <1>4 DEF Sent, Own
<1>6. QED BY <1>2, <1>3, <1>5 DEF DeskInv, Items, AwareMeetsNothing

LEMMA TwiceUnsure ==
  ASSUME DeskInv, [Next]_vars, Stored, New.file \in DocFiles \ {Other}
  PROVE  New.file \in unsure
<1>1. PICK c \in Clients : /\ Store(c) /\ Busy(c) /\ ups[c].pc = "trying"
                           /\ New.file = ups[c].item.file
  BY StoredByUpload
<1>2. c \in Own
  BY <1>1 DEF DeskInv, Items, WebIsOther, Own
<1>3. QED BY <1>1, <1>2 DEF DeskInv, StoredIsUnsure

-----------------------------------------------------------------------------
(* The customer details *)

\* The device keeps one draft, and the screen shows versions that were typed.
OneDraft == draft = {} \/ \E t \in Form!Texts : draft = {t}

ScreenShaped ==
  /\ form \in Form!Form \cup {Form!NoForm}
  /\ draft \subseteq Form!Texts /\ OneDraft
  /\ cache \subseteq Form!Texts
  /\ updates \subseteq Form!Versions
  /\ typed \in Form!Texts /\ fate \in {"kept", "stored", "given up"}
  /\ behind \subseteq Form!Versions

\* The device sends what was typed, other clients leave the texts out.
PutOK(s, put) ==
  put # Form!NoPut =>
    /\ put \in Form!Put
    /\ IF s = "other" THEN put.payload.text = Form!Unsent ELSE put.payload.text \in Form!Versions

\* At most one request of a kind is under way, and it sends a version or nothing.
RequestsShaped ==
  /\ puts \in [Form!Slots -> Form!Put \cup {Form!NoPut}]
  /\ \A s \in Form!Slots : PutOK(s, puts[s])

RowShaped == detail \in Form!Detail /\ closed \in BOOLEAN

FormTyped == ScreenShaped /\ RequestsShaped /\ RowShaped

\* The three shapes are the type invariant.
LEMMA FormTypedIsTypeOK == FormTyped => Form!TypeOK
BY DEF FormTyped, ScreenShaped, RequestsShaped, RowShaped, Form!TypeOK, Form!Texts

LEMMA TheOne == ASSUME NEW t PROVE Form!The({t}) = t
BY DEF Form!The

\* Requests start, move on, and are left by a screen that is gone.
LEMMA PutSet ==
  ASSUME RequestsShaped, NEW s \in Form!Slots, NEW put, PutOK(s, put),
         puts' = [puts EXCEPT ![s] = put]
  PROVE  RequestsShaped'
BY DEF RequestsShaped, PutOK

LEMMA PutMoved ==
  ASSUME RequestsShaped, NEW s \in {"phone", "queue"},
         puts' = [puts EXCEPT ![s] = Form!NoPut, !["stray"] = puts[s]]
  PROVE  RequestsShaped'
BY DEF RequestsShaped, PutOK, Form!Slots

\* overtake marks what was read, and changes nothing else.
LEMMA Overtaken ==
  ASSUME NEW all \in [Form!Slots -> Form!Put \cup {Form!NoPut}]
  PROVE  /\ Form!Overtake(all) \in [Form!Slots -> Form!Put \cup {Form!NoPut}]
         /\ \A s \in Form!Slots :
              /\ (Form!Overtake(all)[s] = Form!NoPut) <=> (all[s] = Form!NoPut)
              /\ all[s] # Form!NoPut => /\ Form!Overtake(all)[s].pc = all[s].pc
                                        /\ Form!Overtake(all)[s].payload = all[s].payload
                                        /\ Form!Overtake(all)[s].admin = all[s].admin
                                        /\ all[s].pc = "read" => Form!Overtake(all)[s].overtaken
BY DEF Form!Overtake, Form!Put, Form!NoPut

LEMMA OvertakenShaped ==
  ASSUME RequestsShaped, puts' = Form!Overtake(puts) PROVE RequestsShaped'
BY Overtaken DEF RequestsShaped, PutOK

\* What a client sends is a request.
LEMMA RequestTyped ==
  ASSUME NEW text \in Form!Versions \cup {Form!Unsent}, NEW loan \in {"absent", "yes", "no"},
         NEW amount \in BOOLEAN, NEW admin \in BOOLEAN
  PROVE  /\ Form!Request(text, loan, amount, admin) \in Form!Put
         /\ Form!Request(text, loan, amount, admin) # Form!NoPut
         /\ Form!Request(text, loan, amount, admin).payload.text = text
         /\ Form!Request(text, loan, amount, admin).pc = "sent"
BY DEF Form!Request, Form!Put, Form!Payload, Form!NoPut

LEMMA FromPhoneTyped ==
  ASSUME NEW text \in Form!Versions, NEW loan \in Loans
  PROVE  \A s \in Form!Slots \ {"other"} : PutOK(s, Form!FromPhone(text, loan))
<1>1. loan \in {"absent", "yes", "no"} /\ text \in Form!Versions \cup {Form!Unsent}
  BY FormAssumption
<1>a. PICK amount \in BOOLEAN : amount = (loan = "yes")
  OBVIOUS
<1>b. /\ Form!Request(text, loan, amount, FALSE) \in Form!Put
      /\ Form!Request(text, loan, amount, FALSE).payload.text = text
  BY <1>1, RequestTyped
<1>c. Form!FromPhone(text, loan) = Form!Request(text, loan, amount, FALSE)
  BY <1>a DEF Form!FromPhone
<1>2. Form!FromPhone(text, loan) \in Form!Put /\ Form!FromPhone(text, loan).payload.text = text
  BY <1>b, <1>c
<1>3. QED BY <1>2 DEF PutOK

\* What the handler writes is a row.
LEMMA UpsertTyped ==
  ASSUME RequestsShaped, RowShaped, NEW s \in Form!Slots, puts[s].pc = "read"
  PROVE  /\ Form!Upserted(puts[s].payload) \in Form!Detail
         /\ Form!Upserted(puts[s].payload).text = IF s = "other" THEN detail.text ELSE puts[s].payload.text
         /\ puts[s] \in Form!Put
         /\ ~ Form!Idle(s)
         /\ s # "other" => puts[s].payload.text \in Form!Versions
<1> DEFINE p == puts[s].payload
<1>1. puts[s] \in Form!Put /\ puts[s] # Form!NoPut /\ ~ Form!Idle(s)
  BY DEF RequestsShaped, Form!NoPut, Form!Idle
<1>2. p.text \in Form!Versions \cup {Form!Unsent} /\ p.loan \in {"absent", "yes", "no"} /\ p.amount \in BOOLEAN
  BY <1>1 DEF Form!Put, Form!Payload
<1>3. detail.text \in Form!Texts /\ detail.loan \in BOOLEAN /\ detail.amount \in BOOLEAN
  BY DEF RowShaped, Form!Detail
<1>4. Form!EffectiveText(p) = IF s = "other" THEN detail.text ELSE p.text
  BY <1>1, FormAssumption DEF RequestsShaped, PutOK, Form!EffectiveText, Form!Versions, Form!Unsent
<1>5. Form!EffectiveText(p) \in Form!Texts
  BY <1>2, <1>3 DEF Form!EffectiveText, Form!Texts
<1>6. Form!EffectiveLoan(p) \in BOOLEAN
  BY <1>3 DEF Form!EffectiveLoan
<1>7. (p.amount \/ (p.loan # "no" /\ detail.amount)) \in BOOLEAN
  OBVIOUS
<1>8. Form!Upserted(p) \in Form!Detail /\ Form!Upserted(p).text = Form!EffectiveText(p)
  BY <1>5, <1>6, <1>7 DEF Form!Upserted, Form!Detail
<1>9. s # "other" => p.text \in Form!Versions
  BY <1>1 DEF RequestsShaped, PutOK
<1>10. QED BY <1>1, <1>4, <1>8, <1>9

\* What the screen shows.
LEMMA ShowFormTyped ==
  ASSUME ScreenShaped, NEW t \in Form!Texts, Form!ShowForm(t), closed \in BOOLEAN
  PROVE form' \in Form!Form
BY TheOne DEF ScreenShaped, OneDraft, Form!ShowForm, Form!OnTop, Form!Form

LEMMA FormFields ==
  ASSUME ScreenShaped
  PROVE  /\ form.pc # "closed" => form \in Form!Form /\ form.text \in Form!Texts /\ form.signature \in Form!Texts
         /\ form.pc = "closed" => form = Form!NoForm
<1>1. CASE form = Form!NoForm
  BY <1>1 DEF Form!NoForm
<1>2. CASE form \in Form!Form
  BY <1>2 DEF Form!Form
<1>3. QED BY <1>1, <1>2 DEF ScreenShaped

\* The screen, whatever becomes of the rest.
LEMMA ScreenStep == ASSUME FormTyped, Form!Next PROVE ScreenShaped'
<1> USE FormAssumption DEF Form!device, Form!journal
<1>0. ScreenShaped /\ RequestsShaped /\ RowShaped
  BY DEF FormTyped
<1>a. /\ Form!Versions \subseteq Form!Texts /\ Form!Blank \in Form!Texts
      /\ form.pc # "closed" => form \in Form!Form /\ form.text \in Form!Texts /\ form.signature \in Form!Texts
      /\ form.pc = "closed" => form = Form!NoForm
  BY <1>0, FormFields DEF Form!Texts
<1>1. ASSUME NEW s \in Form!Slots, Form!ReadLead(s) PROVE ScreenShaped'
  BY <1>0, <1>1 DEF Form!ReadLead, ScreenShaped, OneDraft
<1>2. ASSUME NEW s \in Form!Slots, Form!Upsert(s) PROVE ScreenShaped'
  <2>1. detail'.text \in Form!Texts /\ (s # "other" => detail'.text = puts[s].payload.text /\ puts[s].payload.text \in Form!Versions)
    BY <1>0, <1>2, UpsertTyped DEF Form!Upsert, Form!Detail
  <2>2. CASE s = "phone"
    <3>1. Form!AnswerPhone(detail'.text)
      BY <1>2, <2>2 DEF Form!Upsert
    <3>2. form' \in Form!Form \cup {Form!NoForm}
      BY <1>0, <1>a, <2>1, <3>1 DEF Form!AnswerPhone, ScreenShaped, Form!Waits, Form!Form
    <3>3. behind' \subseteq Form!Versions
      BY <1>0, <1>a, <2>1, <3>1 DEF Form!AnswerPhone, ScreenShaped, Form!Shown
    <3>4. QED BY <1>0, <1>2, <2>1, <2>2, <3>1, <3>2, <3>3 DEF Form!AnswerPhone, ScreenShaped,
                 OneDraft, Form!Upsert
  <2>3. CASE s = "queue"
    BY <1>0, <1>2, <2>1, <2>3 DEF Form!AnswerQueue, ScreenShaped, OneDraft, Form!Upsert
  <2>4. CASE s \notin {"phone", "queue"}
    BY <1>0, <1>2, <2>1, <2>4 DEF ScreenShaped, OneDraft, Form!Upsert
  <2>5. QED BY <2>2, <2>3, <2>4
<1>3. ASSUME NEW s \in Form!Slots, Form!Refuse(s) PROVE ScreenShaped'
  <2>1. form' \in Form!Form \cup {Form!NoForm}
    BY <1>0, <1>3, <1>a DEF Form!Refuse, ScreenShaped, Form!Waits, Form!Form
  <2>2. QED BY <1>0, <1>3, <2>1 DEF Form!Refuse, ScreenShaped, OneDraft
<1>4. ASSUME Form!ChangeStatus \/ Form!OtherSubmits \/ Form!StartFlush PROVE ScreenShaped'
  BY <1>0, <1>4 DEF Form!ChangeStatus, Form!OtherSubmits, Form!StartFlush, ScreenShaped, OneDraft
<1>6. ASSUME Form!Load \/ Form!LoadCached PROVE ScreenShaped'
  <2>1. PICK t \in Form!Texts : Form!ShowForm(t) /\ cache' \in {cache, {t}}
    BY <1>0, <1>6 DEF Form!Load, Form!LoadCached, ScreenShaped, RowShaped, Form!Detail
  <2>2. form' \in Form!Form
    BY <1>0, <2>1, ShowFormTyped DEF RowShaped
  <2>3. QED BY <1>0, <1>6, <2>1, <2>2 DEF Form!Load, Form!LoadCached, ScreenShaped, OneDraft
<1>7. ASSUME Form!Type PROVE ScreenShaped'
  <2>1. typed' \in Form!Texts
    <3>1. typed \in Form!Texts /\ typed < MaxEdits /\ typed' = typed + 1
      BY <1>0, <1>7 DEF Form!Type, ScreenShaped
    <3>2. QED BY <3>1 DEF Form!Texts, Form!Versions, Form!Blank
  <2>2. form' \in Form!Form
    BY <1>a, <1>7, <2>1 DEF Form!Type, Form!Form, Form!Shown
  <2>3. QED BY <1>0, <1>7, <2>1, <2>2 DEF Form!Type, ScreenShaped, OneDraft
<1>8. ASSUME Form!PersistDraft PROVE ScreenShaped'
  BY <1>0, <1>a, <1>8 DEF Form!PersistDraft, ScreenShaped, OneDraft, Form!Shown
<1>9. ASSUME Form!SubmitOnline \/ Form!SubmitOffline PROVE ScreenShaped'
  <2>1. form.text \in Form!Versions /\ form.pc = "open"
    BY <1>a, <1>9 DEF Form!SubmitOnline, Form!SubmitOffline, Form!Submittable, Form!Texts
  <2>2. form' \in Form!Form
    BY <1>a, <1>9, <2>1 DEF Form!SubmitOnline, Form!SubmitOffline, Form!Form
  <2>3. \A s \in {"phone", "queue", "stray"} : ~ Form!Idle(s) => puts[s].payload.text \in Form!Versions
    BY <1>0 DEF RequestsShaped, PutOK, Form!Idle, Form!Slots
  <2>4. behind' \subseteq Form!Versions
    <3>1. Form!OnServer \subseteq Form!Versions
      BY <2>3 DEF Form!OnServer
    <3>2. Form!OnTheirWay \subseteq Form!Versions /\ Form!Draft \subseteq Form!Versions /\ behind \subseteq Form!Versions
      BY <1>0, <3>1 DEF ScreenShaped, Form!OnTheirWay, Form!Draft
    <3>3. behind' \in {behind \cup Form!OnTheirWay \cup Form!Draft, behind \cup Form!OnServer \cup Form!Draft}
      BY <1>9 DEF Form!SubmitOnline, Form!SubmitOffline
    <3>4. QED BY <3>1, <3>2, <3>3
  <2>5. QED BY <1>0, <1>9, <2>1, <2>2, <2>4
        DEF Form!SubmitOnline, Form!SubmitOffline, ScreenShaped, OneDraft, Form!Enqueued, Form!Overtyped
<1>11. ASSUME Form!LoseAnswer PROVE ScreenShaped'
  <2>1. puts["phone"].payload.text \in Form!Versions
    BY <1>0, <1>11 DEF Form!LoseAnswer, RequestsShaped, PutOK, Form!Idle, Form!Slots
  <2>2. form' \in Form!Form \cup {Form!NoForm}
    BY <1>0, <1>a, <1>11, <2>1 DEF Form!LoseAnswer, ScreenShaped, Form!Waits, Form!Form
  <2>3. QED BY <1>0, <1>11, <2>1, <2>2 DEF Form!LoseAnswer, ScreenShaped, OneDraft,
               Form!Enqueued, Form!Overtyped
<1>12. ASSUME Form!ResetForm PROVE ScreenShaped'
  <2>1. form' \in Form!Form
    BY <1>a, <1>12 DEF Form!ResetForm, Form!Form, Form!Shown
  <2>2. QED BY <1>0, <1>12, <2>1 DEF Form!ResetForm, ScreenShaped, OneDraft
<1>13. ASSUME Form!Leave \/ Form!Kill PROVE ScreenShaped'
  BY <1>0, <1>13 DEF Form!Leave, Form!Kill, ScreenShaped, OneDraft, Form!GoneWithScreen
<1>15. ASSUME Form!LoseFlush PROVE ScreenShaped'
  <2>1. puts["queue"].payload.text \in Form!Versions
    BY <1>0, <1>15 DEF Form!LoseFlush, RequestsShaped, PutOK, Form!Idle, Form!Slots
  <2>2. QED BY <1>0, <1>15, <2>1 DEF Form!LoseFlush, ScreenShaped, OneDraft, Form!Overtyped
<1>17. QED BY <1>1, <1>2, <1>3, <1>4, <1>6, <1>7, <1>8, <1>9, <1>11, <1>12, <1>13, <1>15 DEF
              Form!Next

\* The row and the requests.
LEMMA ServerStep == ASSUME FormTyped, Form!Next PROVE RequestsShaped' /\ RowShaped'
<1> USE FormAssumption DEF Form!device, Form!journal
<1>0. ScreenShaped /\ RequestsShaped /\ RowShaped
  BY DEF FormTyped
<1>1. ASSUME NEW s \in Form!Slots, Form!ReadLead(s) PROVE RequestsShaped' /\ RowShaped'
  <2>1. PICK put \in Form!Put : put = [puts[s] EXCEPT !.pc = "read"] /\ put.payload = puts[s].payload
    BY <1>0, <1>1 DEF Form!ReadLead, RequestsShaped, Form!Put, Form!NoPut
  <2>2. PutOK(s, put)
    BY <1>0, <1>1, <2>1 DEF RequestsShaped, PutOK, Form!ReadLead, Form!NoPut
  <2>3. puts' = [puts EXCEPT ![s] = put]
    BY <1>1, <2>1 DEF Form!ReadLead
  <2>4. QED BY <1>0, <1>1, <2>2, <2>3, PutSet DEF Form!ReadLead, RowShaped
<1>2. ASSUME NEW s \in Form!Slots, Form!Upsert(s) PROVE RequestsShaped' /\ RowShaped'
  <2>1. detail' \in Form!Detail
    BY <1>0, <1>2, UpsertTyped DEF Form!Upsert
  <2> DEFINE rest == [puts EXCEPT ![s] = Form!NoPut]
  <2>2. rest \in [Form!Slots -> Form!Put \cup {Form!NoPut}] /\ \A q \in Form!Slots : PutOK(q, rest[q])
    BY <1>0 DEF RequestsShaped, PutOK
  <2>3. puts' = rest \/ puts' = Form!Overtake(rest)
    BY <1>2 DEF Form!Upsert
  <2>4. RequestsShaped'
    <3>1. \A q \in Form!Slots : Form!Overtake(rest)[q] # Form!NoPut => rest[q] # Form!NoPut /\ Form!Overtake(rest)[q].payload = rest[q].payload
      BY <2>2, Overtaken
    <3>2. Form!Overtake(rest) \in [Form!Slots -> Form!Put \cup {Form!NoPut}]
      BY <2>2, Overtaken
    <3>3. \A q \in Form!Slots : PutOK(q, Form!Overtake(rest)[q])
      BY <2>2, <3>1, <3>2 DEF PutOK
    <3>4. QED BY <2>2, <2>3, <3>2, <3>3 DEF RequestsShaped
  <2>5. QED BY <1>0, <1>2, <2>1, <2>4 DEF RowShaped, Form!Upsert
<1>3. ASSUME NEW s \in Form!Slots, Form!Refuse(s) PROVE RequestsShaped' /\ RowShaped'
  BY <1>0, <1>3, PutSet DEF Form!Refuse, RowShaped, PutOK
<1>4. ASSUME Form!ChangeStatus PROVE RequestsShaped' /\ RowShaped'
  BY <1>0, <1>4, OvertakenShaped DEF Form!ChangeStatus, RowShaped
<1>5. ASSUME Form!OtherSubmits PROVE RequestsShaped' /\ RowShaped'
  <2>1. PICK loan \in {"absent", "yes", "no"}, admin \in BOOLEAN :
          puts' = [puts EXCEPT !["other"] = Form!Request(Form!Unsent, loan, FALSE, admin)]
    BY <1>5 DEF Form!OtherSubmits
  <2>3. PutOK("other", Form!Request(Form!Unsent, loan, FALSE, admin))
    <3>1. Form!Request(Form!Unsent, loan, FALSE, admin) \in Form!Put /\ Form!Request(Form!Unsent, loan, FALSE, admin).payload.text = Form!Unsent
      BY DEF Form!Request, Form!Put, Form!Payload
    <3>2. QED BY <3>1 DEF PutOK
  <2>2. QED BY <1>0, <1>5, <2>1, <2>3, PutSet DEF Form!OtherSubmits, RowShaped, Form!Slots
<1>6. ASSUME Form!Load \/ Form!LoadCached \/ Form!Type \/ Form!PersistDraft \/ Form!SubmitOffline \/ Form!ResetForm \/ Form!Leave
      PROVE RequestsShaped' /\ RowShaped'
  BY <1>0, <1>6 DEF Form!Load, Form!LoadCached, Form!Type, Form!PersistDraft,
     Form!SubmitOffline, Form!ResetForm, Form!Leave,
     RequestsShaped, RowShaped, PutOK
<1>7. ASSUME Form!SubmitOnline PROVE RequestsShaped' /\ RowShaped'
  <2>1. form.text \in Form!Versions
    BY <1>0, <1>7, FormFields DEF Form!SubmitOnline, Form!Submittable, Form!Texts
  <2>2. PICK put : puts' = [puts EXCEPT !["phone"] = put] /\ PutOK("phone", put)
    BY <1>7, <2>1, FromPhoneTyped DEF Form!SubmitOnline, Form!Slots
  <2>3. QED BY <1>0, <1>7, <2>2, PutSet DEF Form!SubmitOnline, RowShaped, Form!Slots
<1>8. ASSUME Form!StartFlush PROVE RequestsShaped' /\ RowShaped'
  <2>1. PICK put : puts' = [puts EXCEPT !["queue"] = put] /\ PutOK("queue", put)
    BY <1>0, <1>8, FromPhoneTyped DEF Form!StartFlush, ScreenShaped, Form!Slots
  <2>2. QED BY <1>0, <1>8, <2>1, PutSet DEF Form!StartFlush, RowShaped, Form!Slots
<1>9. ASSUME Form!LoseAnswer \/ Form!LoseFlush \/ Form!Kill PROVE RequestsShaped' /\ RowShaped'
  BY <1>0, <1>9, PutMoved DEF Form!LoseAnswer, Form!LoseFlush, Form!Kill, RowShaped
<1>10. QED BY <1>1, <1>2, <1>3, <1>4, <1>5, <1>6, <1>7, <1>8, <1>9 DEF Form!Next

-----------------------------------------------------------------------------
(* Versions: nothing is newer than what was typed last, and what may still  *)
(* come after something newer is noted as behind                            *)

\* Nothing is newer than what was typed last.
NothingNewer ==
  /\ \A t \in draft \cup cache \cup Form!OnTheirWay : t <= typed
  /\ detail.text <= typed
  /\ Form!Shown => form.text <= typed /\ form.signature <= typed

\* What the screen shows is the draft, the last version, the one just submitted, or noted as behind.
FormIsKnown ==
  /\ form.pc = "open" => form.text \in {Form!Blank, typed, form.signature} \cup draft \cup behind
  /\ form.pc = "saving" => form.text \in {Form!Blank, typed} \cup draft \cup behind

\* What may still be written over something newer is noted as behind.
OlderAreBehind ==
  \A t \in Form!OnTheirWay, u \in Form!OnTheirWay \cup {detail.text} : t < u => t \in behind

VersionInv == NothingNewer /\ FormIsKnown /\ OlderAreBehind

\* Versions are counted from one, 0 is the empty form.
LEMMA NumberedTexts == Form!Texts \subseteq Nat /\ Form!Versions \subseteq Form!Texts /\ Form!Blank = 0 /\ 0 \notin Form!Versions
BY FormAssumption DEF Form!Texts, Form!Versions, Form!Blank

\* Only versions are sent.
LEMMA SentTexts ==
  ASSUME FormTyped
  PROVE  /\ Form!OnServer \subseteq Form!Versions /\ Form!OnTheirWay \subseteq Form!Versions
         /\ \A s \in {"phone", "queue", "stray"} :
              ~ Form!Idle(s) => puts[s].payload.text \in Form!OnServer
<1>1. \A s \in {"phone", "queue", "stray"} : ~ Form!Idle(s) => puts[s].payload.text \in Form!Versions
  BY DEF FormTyped, RequestsShaped, PutOK, Form!Idle, Form!Slots
<1>2. Form!OnServer \subseteq Form!Versions
  BY <1>1 DEF Form!OnServer
<1>3. QED BY <1>2 DEF Form!OnServer, Form!OnTheirWay, FormTyped, ScreenShaped

\* A request ends: nothing that was not on its way is.
LEMMA Ended ==
  ASSUME FormTyped, NEW s \in Form!Slots, Form!Upsert(s) \/ Form!Refuse(s)
  PROVE  Form!OnServer' \subseteq Form!OnServer
<1>1. \A q \in Form!Slots : puts'[q] # Form!NoPut => puts[q] # Form!NoPut /\ puts'[q].payload = puts[q].payload
  <2> DEFINE rest == [puts EXCEPT ![s] = Form!NoPut]
  <2>1. rest \in [Form!Slots -> Form!Put \cup {Form!NoPut}]
    BY DEF FormTyped, RequestsShaped
  <2>2. puts' = rest \/ puts' = Form!Overtake(rest)
    BY DEF Form!Upsert, Form!Refuse
  <2>3. \A q \in Form!Slots : rest[q] # Form!NoPut => puts[q] # Form!NoPut /\ rest[q] = puts[q]
    BY DEF FormTyped, RequestsShaped
  <2>4. \A q \in Form!Slots : Form!Overtake(rest)[q] # Form!NoPut =>
          rest[q] # Form!NoPut /\ Form!Overtake(rest)[q].payload = rest[q].payload
    BY <2>1, Overtaken
  <2> HIDE DEF rest
  <2>5. QED BY <2>2, <2>3, <2>4
<1>2. QED BY <1>1 DEF Form!OnServer, Form!Idle, Form!Slots

\* Other steps put nothing new on its way.
LEMMA Unmoved ==
  ASSUME FormTyped,
         \/ \E s \in Form!Slots : Form!ReadLead(s)
         \/ Form!ChangeStatus \/ Form!OtherSubmits
         \/ Form!Load \/ Form!LoadCached \/ Form!Type \/ Form!PersistDraft \/ Form!SubmitOffline \/ Form!ResetForm \/ Form!Leave
         \/ Form!LoseAnswer \/ Form!LoseFlush \/ Form!Kill
  PROVE  Form!OnServer' \subseteq Form!OnServer
<1>1. CASE \E s \in Form!Slots : Form!ReadLead(s)
  <2>1. \A q \in Form!Slots : puts'[q] # Form!NoPut => puts[q] # Form!NoPut /\ puts'[q].payload = puts[q].payload
    <3>1. PICK s \in Form!Slots : puts[s].pc = "sent" /\ puts' = [puts EXCEPT ![s].pc = "read"]
      BY <1>1 DEF Form!ReadLead
    <3>2. puts \in [Form!Slots -> Form!Put \cup {Form!NoPut}]
      BY DEF FormTyped, RequestsShaped
    <3>3. puts[s] # Form!NoPut /\ puts[s] \in Form!Put /\ puts'[s] = [puts[s] EXCEPT !.pc = "read"]
      BY <3>1, <3>2 DEF Form!NoPut
    <3>4. puts'[s].payload = puts[s].payload
      BY <3>3 DEF Form!Put
    <3>5. \A q \in Form!Slots \ {s} : puts'[q] = puts[q]
      BY <3>1, <3>2
    <3>6. ASSUME NEW q \in Form!Slots, puts'[q] # Form!NoPut
          PROVE  puts[q] # Form!NoPut /\ puts'[q].payload = puts[q].payload
      <4>1. CASE q = s
        BY <3>3, <3>4, <4>1
      <4>2. CASE q # s
        BY <3>5, <3>6, <4>2
      <4>3. QED BY <4>1, <4>2
    <3>7. QED BY <3>6
  <2>2. QED BY <2>1 DEF Form!OnServer, Form!Idle, Form!Slots
<1>2. CASE Form!ChangeStatus
  <2>1. \A q \in Form!Slots : puts'[q] # Form!NoPut => puts[q] # Form!NoPut /\ puts'[q].payload = puts[q].payload
    BY <1>2, Overtaken DEF FormTyped, RequestsShaped, Form!ChangeStatus
  <2>2. QED BY <2>1 DEF Form!OnServer, Form!Idle, Form!Slots
<1>3. CASE Form!OtherSubmits
  <2>1. \A q \in Form!Slots \ {"other"} : puts'[q] = puts[q]
    BY <1>3 DEF FormTyped, RequestsShaped, Form!OtherSubmits
  <2>2. QED BY <2>1 DEF Form!OnServer, Form!Idle, Form!Slots
<1>4. CASE Form!Load \/ Form!LoadCached \/ Form!Type \/ Form!PersistDraft \/ Form!SubmitOffline \/ Form!ResetForm \/ Form!Leave
  BY <1>4 DEF Form!Load, Form!LoadCached, Form!Type, Form!PersistDraft, Form!SubmitOffline,
     Form!ResetForm, Form!Leave, Form!OnServer, Form!Idle
<1>5. CASE Form!LoseAnswer \/ Form!LoseFlush \/ Form!Kill
  <2>1. PICK s \in {"phone", "queue"} : puts' = [puts EXCEPT ![s] = Form!NoPut, !["stray"] = puts[s]]
    BY <1>5 DEF Form!LoseAnswer, Form!LoseFlush, Form!Kill
  <2>2. \A q \in Form!Slots : puts'[q] = IF q = s THEN Form!NoPut ELSE IF q = "stray" THEN puts[s] ELSE puts[q]
    BY <2>1 DEF FormTyped, RequestsShaped, Form!Slots
  <2>3. QED BY <2>2 DEF Form!OnServer, Form!Idle, Form!Slots
<1>6. QED BY <1>1, <1>2, <1>3, <1>4, <1>5

\* A submission online sends what the screen shows.
LEMMA Submitted ==
  ASSUME FormTyped, Form!SubmitOnline PROVE Form!OnServer' \subseteq Form!OnServer \cup {form.text}
<1>1. PICK loan : puts' = [puts EXCEPT !["phone"] = Form!FromPhone(form.text, loan)]
  BY DEF Form!SubmitOnline
<1>2. Form!FromPhone(form.text, loan).payload.text = form.text
  BY DEF Form!FromPhone, Form!Request
<1>3. \A q \in Form!Slots : puts'[q] = IF q = "phone" THEN Form!FromPhone(form.text, loan) ELSE puts[q]
  BY <1>1 DEF FormTyped, RequestsShaped, Form!Slots
<1>4. QED BY <1>2, <1>3 DEF Form!OnServer, Form!Idle, Form!Slots

\* The flush sends what is queued.
LEMMA Flushed ==
  ASSUME FormTyped, Form!StartFlush PROVE Form!OnServer' \subseteq Form!OnServer \cup updates
<1>1. PICK loan \in Loans, text \in updates : puts' = [puts EXCEPT !["queue"] = Form!FromPhone(text, loan)]
  BY DEF Form!StartFlush
<1>2. Form!FromPhone(text, loan).payload.text = text
  BY DEF Form!FromPhone, Form!Request
<1>3. \A q \in Form!Slots : puts'[q] = IF q = "queue" THEN Form!FromPhone(text, loan) ELSE puts[q]
  BY <1>1 DEF FormTyped, RequestsShaped, Form!Slots
<1>4. QED BY <1>2, <1>3 DEF Form!OnServer, Form!Idle, Form!Slots

\* A write takes a text that was on its way, or leaves the one there is.
LEMMA Written ==
  ASSUME FormTyped, NEW s \in Form!Slots, Form!Upsert(s)
  PROVE  /\ detail'.text \in Form!Texts
         /\ s # "other" => detail'.text \in Form!OnServer
         /\ s = "other" => detail'.text = detail.text
<1>1. puts[s].pc = "read" /\ detail' = Form!Upserted(puts[s].payload)
  BY DEF Form!Upsert
<1>2. /\ Form!Upserted(puts[s].payload) \in Form!Detail
      /\ Form!Upserted(puts[s].payload).text = IF s = "other" THEN detail.text ELSE puts[s].payload.text
      /\ ~ Form!Idle(s)
  BY <1>1, UpsertTyped DEF FormTyped
<1>3. QED BY <1>1, <1>2, SentTexts DEF Form!Detail, Form!Slots

LEMMA VersionStep == ASSUME FormTyped, ScreenShaped', VersionInv, Form!Next PROVE VersionInv'
<1> USE FormAssumption DEF Form!device, Form!journal, Form!Shown, Form!Waits
<1>0. /\ Form!Texts \subseteq Nat /\ Form!Versions \subseteq Form!Texts /\ Form!Blank = 0 /\ 0 \notin Form!Versions
      /\ Form!OnServer \subseteq Form!Versions /\ Form!OnTheirWay \subseteq Form!Versions
      /\ draft \subseteq Form!Texts /\ cache \subseteq Form!Texts /\ updates \subseteq Form!Versions
      /\ typed \in Nat /\ detail.text \in Nat /\ Form!OnTheirWay = updates \cup Form!OnServer
  BY NumberedTexts, SentTexts DEF FormTyped, ScreenShaped, RowShaped, Form!Detail, Form!OnTheirWay
<1>a. Form!OnTheirWay' = updates' \cup Form!OnServer'
  BY DEF Form!OnTheirWay
<1>b. form.pc # "closed" => form \in Form!Form /\ form.text \in Nat /\ form.signature \in Nat
  BY <1>0, FormFields DEF FormTyped
<1>1. ASSUME NEW s \in Form!Slots, Form!ReadLead(s) PROVE VersionInv'
  <2>1. Form!OnServer' \subseteq Form!OnServer
    BY <1>1, Unmoved
  <2>2. QED BY <1>0, <1>a, <1>1, <2>1 DEF Form!ReadLead, VersionInv, NothingNewer, FormIsKnown,
               OlderAreBehind
<1>2. ASSUME NEW s \in Form!Slots, Form!Upsert(s) PROVE VersionInv'
  <2>1. Form!OnServer' \subseteq Form!OnServer /\ detail'.text \in Form!OnServer \cup {detail.text} /\ detail'.text \in Form!Texts
    BY <1>2, Ended, Written
  <2>2. CASE s = "phone"
    <3>1. Form!AnswerPhone(detail'.text) /\ typed' = typed
      BY <1>2, <2>2 DEF Form!Upsert
    <3>2. NothingNewer'
      BY <1>0, <1>a, <1>b, <2>1, <3>1 DEF Form!AnswerPhone, VersionInv, NothingNewer, Form!Form
    <3>3. FormIsKnown'
      <4>1. CASE Form!Waits
        BY <1>b, <3>1, <4>1 DEF Form!AnswerPhone, FormIsKnown, Form!Form
      <4>2. CASE ~ Form!Waits
        <5>1. form' = form /\ draft' = {} /\ behind \subseteq behind'
          BY <3>1, <4>2 DEF Form!AnswerPhone
        <5>2. form.pc = "open" => form.text \in behind' \cup {Form!Blank}
          BY <1>b, <3>1, FormFields DEF Form!AnswerPhone, FormTyped, Form!Texts
        <5>3. QED BY <4>2, <5>1, <5>2 DEF FormIsKnown
      <4>3. QED BY <4>1, <4>2
    <3>4. OlderAreBehind'
      BY <1>0, <1>a, <2>1, <3>1 DEF Form!AnswerPhone, VersionInv, OlderAreBehind
    <3>5. QED BY <3>2, <3>3, <3>4 DEF VersionInv
  <2>3. CASE s = "queue"
    BY <1>0, <1>a, <1>2, <2>1, <2>3 DEF Form!Upsert, Form!AnswerQueue, VersionInv,
       NothingNewer, FormIsKnown, OlderAreBehind
  <2>4. CASE s \notin {"phone", "queue"}
    BY <1>0, <1>a, <1>2, <2>1, <2>4 DEF Form!Upsert, VersionInv, NothingNewer, FormIsKnown,
       OlderAreBehind
  <2>5. QED BY <2>2, <2>3, <2>4
<1>3. ASSUME NEW s \in Form!Slots, Form!Refuse(s) PROVE VersionInv'
  <2>1. Form!OnServer' \subseteq Form!OnServer
    BY <1>3, Ended
  <2>2. updates' \subseteq updates
    BY <1>3 DEF Form!Refuse
  <2>3. /\ form'.pc # "closed" => form.pc # "closed" /\ form'.text = form.text /\ form'.signature = form.signature
        /\ form'.pc = "saving" => form.pc = "saving"
        /\ form'.pc = "open" => form.pc \in {"open", "saving"}
    BY <1>3, <1>b DEF Form!Refuse, Form!Form
  <2>4. UNCHANGED <<detail, draft, cache, typed, behind>> /\ Form!OnTheirWay' \subseteq Form!OnTheirWay
    BY <1>0, <1>a, <1>3, <2>1, <2>2 DEF Form!Refuse
  <2>5. NothingNewer'
    BY <1>0, <1>b, <2>3, <2>4 DEF VersionInv, NothingNewer
  <2>6. FormIsKnown' /\ OlderAreBehind'
    BY <1>0, <2>3, <2>4 DEF VersionInv, FormIsKnown, OlderAreBehind
  <2>7. QED BY <2>5, <2>6 DEF VersionInv
<1>4. ASSUME Form!ChangeStatus \/ Form!OtherSubmits PROVE VersionInv'
  <2>1. Form!OnServer' \subseteq Form!OnServer
    BY <1>4, Unmoved
  <2>2. QED BY <1>0, <1>a, <1>4, <2>1
        DEF Form!ChangeStatus, Form!OtherSubmits, VersionInv, NothingNewer, FormIsKnown, OlderAreBehind
<1>5. ASSUME Form!StartFlush PROVE VersionInv'
  <2>1. Form!OnServer' \subseteq Form!OnServer \cup updates
    BY <1>5, Flushed
  <2>2. QED BY <1>0, <1>a, <1>5, <2>1 DEF Form!StartFlush, VersionInv, NothingNewer,
               FormIsKnown, OlderAreBehind
<1>6. ASSUME Form!Load \/ Form!LoadCached PROVE VersionInv'
  <2>1. PICK t \in cache \cup {detail.text} : Form!ShowForm(t) /\ cache' \in {cache, {detail.text}}
    BY <1>6 DEF Form!Load, Form!LoadCached
  <2>2. form'.pc = "open" /\ form'.signature = t /\ form'.text \in draft \cup {t}
    BY <2>1, TheOne DEF Form!ShowForm, Form!OnTop, FormTyped, ScreenShaped, OneDraft
  <2>3. Form!OnServer' \subseteq Form!OnServer
    BY <1>6, Unmoved
  <2>4. QED BY <1>0, <1>a, <1>6, <2>1, <2>2, <2>3
        DEF Form!Load, Form!LoadCached, VersionInv, NothingNewer, FormIsKnown, OlderAreBehind
<1>7. ASSUME Form!Type PROVE VersionInv'
  <2>1. Form!OnServer' \subseteq Form!OnServer
    BY <1>7, Unmoved
  <2>2. typed' = typed + 1 /\ form'.text = typed' /\ form'.pc = form.pc /\ form'.signature = form.signature
    BY <1>7, <1>b DEF Form!Type, Form!Form
  <2>3. NothingNewer'
    BY <1>0, <1>a, <1>b, <1>7, <2>1, <2>2 DEF Form!Type, VersionInv, NothingNewer
  <2>4. FormIsKnown'
    BY <2>2 DEF FormIsKnown
  <2>5. OlderAreBehind'
    BY <1>0, <1>a, <1>7, <2>1 DEF Form!Type, VersionInv, OlderAreBehind
  <2>6. QED BY <2>3, <2>4, <2>5 DEF VersionInv
<1>8. ASSUME Form!PersistDraft PROVE VersionInv'
  <2>1. Form!OnServer' \subseteq Form!OnServer
    BY <1>8, Unmoved
  <2>2. QED BY <1>0, <1>a, <1>b, <1>8, <2>1 DEF Form!PersistDraft, VersionInv, NothingNewer,
               FormIsKnown, OlderAreBehind
<1>9. ASSUME Form!SubmitOnline PROVE VersionInv'
  <2>1. Form!OnServer' \subseteq Form!OnServer \cup {form.text}
    BY <1>9, Submitted
  <2>2. /\ form.text \in {typed} \cup draft \cup behind /\ form.text \in Form!Versions
        /\ form'.pc = "saving" /\ form'.text = form.text /\ form'.signature = form.signature /\ form.pc = "open"
    BY <1>0, <1>9, <1>b, FormFields DEF Form!SubmitOnline, Form!Submittable, VersionInv,
       FormIsKnown, Form!Form, FormTyped, Form!Texts, Form!Blank
  <2>3. QED BY <1>0, <1>a, <1>b, <1>9, <2>1, <2>2
        DEF Form!SubmitOnline, Form!Draft, VersionInv, NothingNewer, FormIsKnown, OlderAreBehind
<1>10. ASSUME Form!SubmitOffline PROVE VersionInv'
  <2>1. Form!OnServer' \subseteq Form!OnServer
    BY <1>10, Unmoved
  <2>2. /\ form.text \in {typed} \cup draft \cup behind /\ form.text \in Form!Versions
        /\ form'.pc = "open" /\ form'.text = form.text /\ form'.signature = form.text /\ form.pc = "open"
    BY <1>0, <1>10, <1>b, FormFields DEF Form!SubmitOffline, Form!Submittable, VersionInv,
       FormIsKnown, Form!Form, FormTyped, Form!Texts, Form!Blank
  <2>3. QED BY <1>0, <1>a, <1>b, <1>10, <2>1, <2>2
        DEF Form!SubmitOffline, Form!Enqueued, Form!Draft, VersionInv, NothingNewer, FormIsKnown, OlderAreBehind
<1>11. ASSUME Form!LoseAnswer PROVE VersionInv'
  <2>1. Form!OnServer' \subseteq Form!OnServer
    BY <1>11, Unmoved
  <2>2. PICK text \in Form!OnServer : updates' = {text} /\ form' = IF Form!Waits THEN [form EXCEPT !.pc = "open", !.signature = text] ELSE form
    BY <1>11, SentTexts DEF Form!LoseAnswer, Form!Enqueued
  <2>3. /\ form'.pc # "closed" => form.pc # "closed" /\ form'.text = form.text /\ form'.signature \in {form.signature, text}
        /\ form'.pc # "saving"
        /\ form.pc = "open" => form' = form
    BY <2>2, <1>b DEF Form!Form, FormTyped, ScreenShaped, Form!NoForm
  <2>4. QED BY <1>0, <1>a, <1>b, <1>11, <2>1, <2>2, <2>3
        DEF Form!LoseAnswer, VersionInv, NothingNewer, FormIsKnown, OlderAreBehind
<1>12. ASSUME Form!ResetForm PROVE VersionInv'
  <2>1. Form!OnServer' \subseteq Form!OnServer
    BY <1>12, Unmoved
  <2>2. form'.text = Form!Blank /\ form'.pc = form.pc /\ form'.signature = form.signature
    BY <1>12, <1>b DEF Form!ResetForm, Form!Form
  <2>3. UNCHANGED <<detail, cache, typed, behind>> /\ draft' = {} /\ Form!OnTheirWay' \subseteq Form!OnTheirWay
    BY <1>0, <1>a, <1>12, <2>1 DEF Form!ResetForm
  <2>4. NothingNewer'
    <3>1. \A t \in draft' \cup cache' \cup Form!OnTheirWay' : t <= typed'
      BY <2>3 DEF VersionInv, NothingNewer
    <3>2. detail'.text <= typed'
      BY <2>3 DEF VersionInv, NothingNewer
    <3>3. form'.pc # "closed" => form'.text <= typed' /\ form'.signature <= typed'
      BY <1>0, <2>2, <2>3 DEF VersionInv, NothingNewer
    <3>4. QED BY <3>1, <3>2, <3>3 DEF NothingNewer
  <2>5. FormIsKnown' /\ OlderAreBehind'
    BY <1>0, <2>2, <2>3 DEF VersionInv, FormIsKnown, OlderAreBehind
  <2>6. QED BY <2>4, <2>5 DEF VersionInv
<1>13. ASSUME Form!Leave \/ Form!Kill PROVE VersionInv'
  <2>1. Form!OnServer' \subseteq Form!OnServer
    BY <1>13, Unmoved
  <2>2. QED BY <1>0, <1>a, <1>13, <2>1 DEF Form!Leave, Form!Kill, Form!NoForm, VersionInv,
               NothingNewer, FormIsKnown, OlderAreBehind
<1>14. ASSUME Form!LoseFlush PROVE VersionInv'
  <2>1. Form!OnServer' \subseteq Form!OnServer
    BY <1>14, Unmoved
  <2>2. updates' \subseteq Form!OnServer
    BY <1>14, SentTexts DEF Form!LoseFlush
  <2>3. UNCHANGED <<form, draft, cache, typed, behind, detail>> /\ Form!OnTheirWay' \subseteq Form!OnTheirWay
    BY <1>0, <1>a, <1>14, <2>1, <2>2 DEF Form!LoseFlush
  <2>4. QED BY <1>0, <2>3 DEF VersionInv, NothingNewer, FormIsKnown, OlderAreBehind
<1>15. QED BY <1>1, <1>2, <1>3, <1>4, <1>5, <1>6, <1>7, <1>8, <1>9, <1>10, <1>11, <1>12, <1>13,
              <1>14 DEF Form!Next

-----------------------------------------------------------------------------
(* What was typed last is kept on the device                                 *)

\* What is saved is not only kept.
SavedIsNotKept == fate = "kept" => typed \notin cache \cup {detail.text}

\* What is kept is in the draft, in the queue, or on the screen that has not been submitted.
KeptOnDevice ==
  fate = "kept" =>
    \/ typed \in draft \cup updates
    \/ Form!Shown /\ form.text = typed /\ form.signature # typed

ShownIsDraft == Form!Shown /\ typed \in draft => form.text = typed

SignedIsQueued == Form!Shown /\ form.signature = typed /\ fate = "kept" => typed \in updates

KeptInv == SavedIsNotKept /\ KeptOnDevice /\ ShownIsDraft /\ SignedIsQueued

LEMMA KeptStep == ASSUME FormTyped, ScreenShaped', VersionInv, KeptInv, Form!Next PROVE KeptInv'
<1> USE FormAssumption DEF Form!device, Form!journal, Form!Shown, Form!Waits
<1>0. /\ draft \subseteq Nat /\ cache \subseteq Nat
      /\ typed \in Nat /\ detail.text \in Nat /\ detail.text <= typed
      /\ \A t \in draft \cup cache : t <= typed
      /\ form.pc # "closed" => form \in Form!Form /\ form.text \in Nat /\ form.signature \in Nat /\ form.signature <= typed
  BY NumberedTexts, FormFields DEF FormTyped, ScreenShaped, RowShaped, Form!Detail, VersionInv,
     NothingNewer
<1>1. ASSUME NEW s \in Form!Slots, Form!ReadLead(s) \/ Form!ChangeStatus \/ Form!OtherSubmits \/ Form!StartFlush PROVE KeptInv'
  BY <1>1 DEF Form!ReadLead, Form!ChangeStatus, Form!OtherSubmits, Form!StartFlush, KeptInv,
     SavedIsNotKept, KeptOnDevice, ShownIsDraft, SignedIsQueued
<1>2. ASSUME NEW s \in Form!Slots, Form!Upsert(s) PROVE KeptInv'
  <2>1. typed' = typed
    BY <1>2 DEF Form!Upsert
  <2>2. CASE s = "phone"
    <3>1. Form!AnswerPhone(detail'.text)
      BY <1>2, <2>2 DEF Form!Upsert
    <3>2. fate' # "kept" /\ draft' = {}
      BY <3>1 DEF Form!AnswerPhone
    <3>3. QED BY <3>2 DEF KeptInv, SavedIsNotKept, KeptOnDevice, ShownIsDraft, SignedIsQueued
  <2>3. CASE s = "queue"
    <3>1. Form!AnswerQueue(detail'.text)
      BY <1>2, <2>3 DEF Form!Upsert
    <3>2. fate' = "kept" => fate = "kept" /\ typed \notin updates /\ detail'.text # typed
      BY <3>1 DEF Form!AnswerQueue
    <3>3. QED BY <2>1, <3>1, <3>2 DEF Form!AnswerQueue, KeptInv, SavedIsNotKept, KeptOnDevice,
                 ShownIsDraft, SignedIsQueued
  <2>4. CASE s \notin {"phone", "queue"}
    BY <1>2, <2>1, <2>4 DEF Form!Upsert, KeptInv, SavedIsNotKept, KeptOnDevice, ShownIsDraft,
       SignedIsQueued
  <2>5. QED BY <2>2, <2>3, <2>4
<1>3. ASSUME NEW s \in Form!Slots, Form!Refuse(s) PROVE KeptInv'
  <2>1. /\ form'.pc # "closed" <=> form.pc # "closed"
        /\ form.pc # "closed" => form'.text = form.text /\ form'.signature = form.signature
    BY <1>0, <1>3 DEF Form!Refuse, Form!Form
  <2>2. UNCHANGED <<detail, draft, cache, typed>>
    BY <1>3 DEF Form!Refuse
  <2>3. fate' = "kept" => fate = "kept" /\ (typed \in updates => typed \in updates')
    BY <1>3 DEF Form!Refuse
  <2>4. QED BY <2>1, <2>2, <2>3 DEF KeptInv, SavedIsNotKept, KeptOnDevice, ShownIsDraft,
               SignedIsQueued
<1>4. ASSUME Form!Load \/ Form!LoadCached PROVE KeptInv'
  <2>1. PICK t \in cache \cup {detail.text} : Form!ShowForm(t) /\ cache' \in {cache, {detail.text}}
    BY <1>4 DEF Form!Load, Form!LoadCached
  <2>2. /\ form'.signature = t /\ form'.pc = "open"
        /\ \A d \in draft : form'.text = d
    BY <2>1, TheOne DEF Form!ShowForm, Form!OnTop, FormTyped, ScreenShaped, OneDraft
  <2>3. form.pc = "closed" /\ UNCHANGED <<detail, draft, updates, typed, fate>>
    BY <1>4 DEF Form!Load, Form!LoadCached
  <2>4. QED BY <2>1, <2>2, <2>3 DEF KeptInv, SavedIsNotKept, KeptOnDevice, ShownIsDraft,
               SignedIsQueued
<1>5. ASSUME Form!Type PROVE KeptInv'
  <2>1. /\ form'.text = typed' /\ form'.signature = form.signature /\ form'.pc = form.pc /\ form.pc # "closed"
        /\ typed' = typed + 1 /\ UNCHANGED <<detail, draft, cache>>
    BY <1>0, <1>5 DEF Form!Type, Form!Form
  <2>2. typed' \notin draft \cup cache \cup {detail.text, form.signature}
    BY <1>0, <2>1
  <2>3. QED BY <2>1, <2>2 DEF KeptInv, SavedIsNotKept, KeptOnDevice, ShownIsDraft, SignedIsQueued
<1>6. ASSUME Form!PersistDraft PROVE KeptInv'
  BY <1>6 DEF Form!PersistDraft, KeptInv, SavedIsNotKept, KeptOnDevice, ShownIsDraft, SignedIsQueued
<1>7. ASSUME Form!SubmitOnline PROVE KeptInv'
  <2>1. form'.text = form.text /\ form'.signature = form.signature /\ form'.pc = "saving" /\ form.pc = "open"
    BY <1>0, <1>7 DEF Form!SubmitOnline, Form!Submittable, Form!Form
  <2>2. QED BY <1>7, <2>1 DEF Form!SubmitOnline, KeptInv, SavedIsNotKept, KeptOnDevice,
               ShownIsDraft, SignedIsQueued
<1>8. ASSUME Form!SubmitOffline PROVE KeptInv'
  <2>1. form'.text = form.text /\ form'.signature = form.text /\ form'.pc = "open" /\ form.pc = "open"
    BY <1>0, <1>8 DEF Form!SubmitOffline, Form!Submittable, Form!Form
  <2>2. updates' = {form.text} /\ UNCHANGED <<detail, draft, cache, typed>>
    BY <1>8 DEF Form!SubmitOffline, Form!Enqueued
  <2>3. fate' = "kept" => fate = "kept" /\ (typed \in updates => typed \in updates')
    BY <1>8 DEF Form!SubmitOffline, Form!Overtyped
  <2>4. QED BY <2>1, <2>2, <2>3 DEF KeptInv, SavedIsNotKept, KeptOnDevice, ShownIsDraft,
               SignedIsQueued
<1>9. ASSUME Form!LoseAnswer PROVE KeptInv'
  <2>1. PICK text : updates' = {text} /\ form' = IF Form!Waits THEN [form EXCEPT !.pc = "open", !.signature = text] ELSE form
    BY <1>9 DEF Form!LoseAnswer, Form!Enqueued
  <2>2. /\ form'.pc # "closed" <=> form.pc # "closed"
        /\ form.pc # "closed" => form'.text = form.text /\ form'.signature \in {form.signature, text}
    BY <1>0, <2>1 DEF Form!Form
  <2>3. fate' = "kept" => fate = "kept" /\ (typed \in updates => typed \in updates')
    BY <1>9 DEF Form!LoseAnswer, Form!Overtyped
  <2>4. UNCHANGED <<detail, draft, cache, typed>>
    BY <1>9 DEF Form!LoseAnswer
  <2>5. QED BY <2>1, <2>2, <2>3, <2>4 DEF KeptInv, SavedIsNotKept, KeptOnDevice, ShownIsDraft,
               SignedIsQueued
<1>10. ASSUME Form!ResetForm PROVE KeptInv'
  <2>1. form'.signature = form.signature /\ form'.pc = form.pc /\ form.pc # "closed" /\ draft' = {}
    BY <1>0, <1>10 DEF Form!ResetForm, Form!Form
  <2>2. fate' = "kept" => fate = "kept" /\ form.signature = typed
    BY <1>10 DEF Form!ResetForm
  <2>3. UNCHANGED <<detail, updates, cache, typed>>
    BY <1>10 DEF Form!ResetForm
  <2>4. QED BY <2>1, <2>2, <2>3 DEF KeptInv, SavedIsNotKept, KeptOnDevice, ShownIsDraft,
               SignedIsQueued
<1>11. ASSUME Form!Leave \/ Form!Kill PROVE KeptInv'
  <2>1. form'.pc = "closed" /\ UNCHANGED <<detail, draft, cache, updates, typed>>
    BY <1>11 DEF Form!Leave, Form!Kill, Form!NoForm
  <2>2. fate' = "kept" => fate = "kept" /\ ~ (Form!Shown /\ form.text = typed /\ typed \notin draft \cup {form.signature})
    BY <1>11 DEF Form!Leave, Form!Kill, Form!GoneWithScreen
  <2>3. QED BY <2>1, <2>2 DEF KeptInv, SavedIsNotKept, KeptOnDevice, ShownIsDraft, SignedIsQueued
<1>12. ASSUME Form!LoseFlush PROVE KeptInv'
  <2>1. fate' = "kept" => fate = "kept" /\ (typed \in updates => typed \in updates')
    BY <1>12 DEF Form!LoseFlush, Form!Overtyped
  <2>2. UNCHANGED <<detail, form, draft, cache, typed>>
    BY <1>12 DEF Form!LoseFlush
  <2>3. QED BY <2>1, <2>2 DEF KeptInv, SavedIsNotKept, KeptOnDevice, ShownIsDraft, SignedIsQueued
<1>13. QED BY <1>1, <1>2, <1>3, <1>4, <1>5, <1>6, <1>7, <1>8, <1>9, <1>10, <1>11, <1>12 DEF
              Form!Next, Form!Slots

-----------------------------------------------------------------------------
(* What was checked still holds when it is written, unless somebody came    *)
(* between                                                                   *)

CheckedIsSound ==
  \A s \in Form!Slots : puts[s].pc = "read" /\ ~ puts[s].overtaken =>
    Form!Complete(puts[s].payload) /\ ~ Form!Locked(puts[s])

LEMMA CheckStep == ASSUME FormTyped, FormTyped', CheckedIsSound, Form!Next PROVE CheckedIsSound'
<1> USE DEF Form!device, Form!journal
<1>0. puts \in [Form!Slots -> Form!Put \cup {Form!NoPut}] /\ puts' \in [Form!Slots -> Form!Put \cup {Form!NoPut}] /\ Form!NoPut.pc # "read"
  BY DEF FormTyped, RequestsShaped, Form!NoPut
<1>a. ASSUME UNCHANGED <<detail, closed>>,
             \A q \in Form!Slots : puts'[q].pc = "read" => puts'[q] = puts[q]
      PROVE  CheckedIsSound'
  BY <1>a DEF CheckedIsSound, Form!Complete, Form!EffectiveText, Form!EffectiveLoan,
     Form!EffectiveAmount, Form!Locked
<1>b. ASSUME \A q \in Form!Slots : puts'[q].pc = "read" => puts'[q].overtaken
      PROVE  CheckedIsSound'
  BY <1>b DEF CheckedIsSound
<1>1. ASSUME NEW s \in Form!Slots, Form!ReadLead(s) PROVE CheckedIsSound'
  <2>1. puts[s] \in Form!Put /\ Form!Complete(puts[s].payload) /\ ~ Form!Locked(puts[s]) /\ UNCHANGED <<detail, closed>>
    BY <1>0, <1>1 DEF Form!ReadLead, Form!NoPut
  <2>2. puts'[s].payload = puts[s].payload /\ puts'[s].admin = puts[s].admin
    BY <1>0, <1>1, <2>1 DEF Form!ReadLead, Form!Put
  <2>3. \A q \in Form!Slots \ {s} : puts'[q] = puts[q]
    BY <1>0, <1>1 DEF Form!ReadLead
  <2>4. QED BY <2>1, <2>2, <2>3 DEF CheckedIsSound, Form!Complete, Form!EffectiveText,
               Form!EffectiveLoan, Form!EffectiveAmount, Form!Locked
<1>2. ASSUME NEW s \in Form!Slots, Form!Upsert(s) PROVE CheckedIsSound'
  <2> DEFINE rest == [puts EXCEPT ![s] = Form!NoPut]
  <2>1. rest \in [Form!Slots -> Form!Put \cup {Form!NoPut}]
    BY <1>0
  <2>2. CASE detail' = detail
    <3>1. puts' = rest /\ closed' = closed
      BY <1>2, <2>2 DEF Form!Upsert
    <3>2. QED BY <1>0, <1>a, <2>2, <3>1
  <2>3. CASE detail' # detail
    <3>1. puts' = Form!Overtake(rest)
      BY <1>2, <2>3 DEF Form!Upsert
    <3>2. \A q \in Form!Slots : Form!Overtake(rest)[q].pc = "read" => Form!Overtake(rest)[q].overtaken
      BY <1>0, <2>1, Overtaken
    <3>3. QED BY <1>b, <3>1, <3>2
  <2>4. QED BY <2>2, <2>3
<1>3. ASSUME NEW s \in Form!Slots, Form!Refuse(s) PROVE CheckedIsSound'
  BY <1>0, <1>3, <1>a DEF Form!Refuse
<1>4. ASSUME Form!ChangeStatus PROVE CheckedIsSound'
  <2>1. \A q \in Form!Slots : Form!Overtake(puts)[q].pc = "read" => Form!Overtake(puts)[q].overtaken
    BY <1>0, Overtaken
  <2>2. QED BY <1>4, <1>b, <2>1 DEF Form!ChangeStatus
<1>5. ASSUME Form!OtherSubmits \/ Form!SubmitOnline \/ Form!StartFlush PROVE CheckedIsSound'
  <2>1. UNCHANGED <<detail, closed>> /\ {"other", "phone", "queue"} \subseteq Form!Slots
    BY <1>5 DEF Form!OtherSubmits, Form!SubmitOnline, Form!StartFlush, Form!Slots
  <2>2. ASSUME NEW s \in {"other", "phone", "queue"}, NEW text, NEW loan, NEW amount, NEW admin,
               puts' = [puts EXCEPT ![s] = Form!Request(text, loan, amount, admin)]
        PROVE  CheckedIsSound'
    <3>1. Form!Request(text, loan, amount, admin).pc = "sent"
      BY DEF Form!Request
    <3>2. \A q \in Form!Slots : puts'[q] = IF q = s THEN Form!Request(text, loan, amount, admin) ELSE puts[q]
      BY <1>0, <2>1, <2>2
    <3>3. QED BY <1>a, <2>1, <3>1, <3>2
  <2>3. CASE Form!OtherSubmits
    <3>1. PICK loan, admin : puts' = [puts EXCEPT !["other"] = Form!Request(Form!Unsent, loan, FALSE, admin)]
      BY <2>3 DEF Form!OtherSubmits
    <3>2. QED BY <2>2, <3>1
  <2>4. CASE Form!SubmitOnline
    <3>1. PICK loan : puts' = [puts EXCEPT !["phone"] = Form!Request(form.text, loan, loan = "yes", FALSE)]
      BY <2>4 DEF Form!SubmitOnline, Form!FromPhone
    <3>2. QED BY <2>2, <3>1
  <2>5. CASE Form!StartFlush
    <3>1. PICK text, loan : puts' = [puts EXCEPT !["queue"] = Form!Request(text, loan, loan = "yes", FALSE)]
      BY <2>5 DEF Form!StartFlush, Form!FromPhone
    <3>2. QED BY <2>2, <3>1
  <2>6. QED BY <1>5, <2>3, <2>4, <2>5
<1>6. ASSUME Form!Load \/ Form!LoadCached \/ Form!Type \/ Form!PersistDraft \/ Form!SubmitOffline \/ Form!ResetForm \/ Form!Leave
      PROVE CheckedIsSound'
  BY <1>6, <1>a DEF Form!Load, Form!LoadCached, Form!Type, Form!PersistDraft,
     Form!SubmitOffline, Form!ResetForm, Form!Leave
<1>7. ASSUME Form!LoseAnswer \/ Form!LoseFlush \/ Form!Kill PROVE CheckedIsSound'
  <2>1. PICK s \in {"phone", "queue"} : puts' = [puts EXCEPT ![s] = Form!NoPut, !["stray"] = puts[s]]
    BY <1>7 DEF Form!LoseAnswer, Form!LoseFlush, Form!Kill
  <2>2. \A q \in Form!Slots : puts'[q] = IF q = s THEN Form!NoPut ELSE IF q = "stray" THEN puts[s] ELSE puts[q]
    BY <1>0, <2>1 DEF Form!Slots
  <2>3. UNCHANGED <<detail, closed>>
    BY <1>7 DEF Form!LoseAnswer, Form!LoseFlush, Form!Kill
  <2>4. s \in Form!Slots
    BY <2>1 DEF Form!Slots
  <2>5. QED BY <1>0, <2>2, <2>3, <2>4 DEF CheckedIsSound, Form!Complete, Form!EffectiveText,
               Form!EffectiveLoan, Form!EffectiveAmount, Form!Locked
<1>8. QED BY <1>1, <1>2, <1>3, <1>4, <1>5, <1>6, <1>7 DEF Form!Next

-----------------------------------------------------------------------------
FormInv == FormTyped /\ VersionInv /\ KeptInv /\ CheckedIsSound

LEMMA FormInit == Form!Init => FormInv
<1> SUFFICES ASSUME Form!Init PROVE FormInv OBVIOUS
<1>1. detail \in Form!Detail /\ detail.text = 0
  BY DEF Form!Init, Form!Detail, Form!Texts, Form!Blank
<1>2. FormTyped
  BY <1>1 DEF Form!Init, FormTyped, ScreenShaped, RequestsShaped, RowShaped, PutOK, OneDraft,
     Form!Texts, Form!Blank
<1>3. Form!OnTheirWay = {}
  BY DEF Form!Init, Form!OnTheirWay, Form!OnServer, Form!Idle, Form!Slots
<1>4. VersionInv
  BY <1>1, <1>3 DEF Form!Init, VersionInv, NothingNewer, FormIsKnown, OlderAreBehind,
     Form!NoForm, Form!Shown
<1>5. KeptInv
  BY DEF Form!Init, KeptInv, SavedIsNotKept, KeptOnDevice, ShownIsDraft, SignedIsQueued,
     Form!NoForm, Form!Shown
<1>6. CheckedIsSound
  BY DEF Form!Init, CheckedIsSound, Form!NoPut
<1>7. QED BY <1>2, <1>4, <1>5, <1>6 DEF FormInv

LEMMA FormNext == FormInv /\ [Form!Next]_Form!vars => FormInv'
<1> SUFFICES ASSUME FormInv, [Form!Next]_Form!vars PROVE FormInv' OBVIOUS
<1>1. CASE Form!Next
  <2>1. FormTyped /\ VersionInv /\ KeptInv /\ CheckedIsSound
    BY DEF FormInv
  <2>2. ScreenShaped' /\ FormTyped'
    BY <1>1, <2>1, ScreenStep, ServerStep DEF FormTyped
  <2>3. VersionInv'
    BY <1>1, <2>1, <2>2, VersionStep
  <2>4. KeptInv'
    BY <1>1, <2>1, <2>2, KeptStep
  <2>5. CheckedIsSound'
    BY <1>1, <2>1, <2>2, CheckStep
  <2>6. QED BY <2>2, <2>3, <2>4, <2>5 DEF FormInv
<1>2. CASE UNCHANGED Form!vars
  <2>1. UNCHANGED <<detail, closed, puts, form, draft, cache, updates, typed, fate, behind>>
    BY <1>2 DEF Form!vars, Form!device, Form!journal
  <2>2. FormTyped'
    BY <2>1 DEF FormInv, FormTyped, ScreenShaped, RequestsShaped, RowShaped, PutOK, OneDraft
  <2>3. VersionInv'
    BY <2>1 DEF FormInv, VersionInv, NothingNewer, FormIsKnown, OlderAreBehind,
       Form!OnTheirWay, Form!OnServer, Form!Idle, Form!Shown
  <2>4. KeptInv'
    BY <2>1 DEF FormInv, KeptInv, SavedIsNotKept, KeptOnDevice, ShownIsDraft, SignedIsQueued,
       Form!Shown
  <2>5. CheckedIsSound'
    BY <2>1 DEF FormInv, CheckedIsSound, Form!Complete, Form!EffectiveText, Form!EffectiveLoan,
       Form!EffectiveAmount, Form!Locked
  <2>6. QED BY <2>2, <2>3, <2>4, <2>5 DEF FormInv
<1>3. QED BY <1>1, <1>2

LEMMA FormKeeps == FormInv => Form!TypeOK /\ Form!TypedIsKept
<1> SUFFICES ASSUME FormInv PROVE Form!TypeOK /\ Form!TypedIsKept OBVIOUS
<1>1. Form!TypeOK
  BY FormTypedIsTypeOK DEF FormInv
<1>2. Form!TypedIsKept
  BY DEF FormInv, KeptInv, KeptOnDevice, Form!TypedIsKept, Form!OnTheirWay
<1>3. QED BY <1>1, <1>2

\* Only a write changes the row; what it may change follows from the invariant.
LEMMA FormSteps ==
  ASSUME FormInv, Form!Next, detail' # detail
  PROVE  /\ detail'.text < detail.text => detail'.text \in behind
         /\ detail'.loan /\ ~ detail'.amount =>
              \E s \in Form!Slots : puts[s].pc = "read" /\ puts[s].overtaken
         /\ closed => \E s \in Form!Slots : puts[s].pc = "read" /\ (puts[s].admin \/ puts[s].overtaken)
<1>1. PICK s \in Form!Slots : Form!Upsert(s)
  BY DEF Form!Next, Form!ReadLead, Form!Refuse, Form!ChangeStatus, Form!OtherSubmits,
     Form!Load, Form!LoadCached, Form!Type, Form!PersistDraft, Form!SubmitOnline,
     Form!SubmitOffline, Form!LoseAnswer,
     Form!ResetForm, Form!Leave, Form!StartFlush, Form!LoseFlush, Form!Kill
<1>2. puts[s].pc = "read" /\ detail' = Form!Upserted(puts[s].payload)
  BY <1>1 DEF Form!Upsert
<1>3. FormTyped /\ VersionInv /\ CheckedIsSound
  BY DEF FormInv
<1>4. detail'.text < detail.text => detail'.text \in behind
  <2>1. detail'.text \in Form!OnServer \cup {detail.text}
    BY <1>1, <1>3, Written
  <2>2. detail.text \in Nat
    BY <1>3, NumberedTexts DEF FormTyped, RowShaped, Form!Detail
  <2>3. QED BY <1>3, <2>1, <2>2 DEF VersionInv, OlderAreBehind, Form!OnTheirWay
<1>5. CASE puts[s].overtaken
  BY <1>2, <1>4, <1>5
<1>6. CASE ~ puts[s].overtaken
  <2>1. Form!Complete(puts[s].payload) /\ ~ Form!Locked(puts[s])
    BY <1>2, <1>3, <1>6 DEF CheckedIsSound
  <2>2. detail'.loan => detail'.amount
    BY <1>2, <2>1 DEF Form!Upserted, Form!Complete, Form!EffectiveLoan, Form!EffectiveAmount
  <2>3. closed => puts[s].admin
    BY <2>1 DEF Form!Locked
  <2>4. QED BY <1>2, <1>4, <2>2, <2>3
<1>7. QED BY <1>5, <1>6

-----------------------------------------------------------------------------
(* The two together *)

LEMMA ApartSteps ==
  ASSUME [MCNext]_<<vars, formVars>> PROVE [Next]_vars /\ [Form!Next]_Form!vars
BY DEF MCNext, formVars, vars, Form!vars, Form!device, Form!journal

LEMMA BothApart == MCSpec => Spec /\ Form!Spec
<1>1. MCInit => Init /\ Form!Init
  BY DEF MCInit
<1>2. [MCNext]_<<vars, formVars>> => [Next]_vars /\ [Form!Next]_Form!vars
  BY ApartSteps
<1>3. QED BY <1>1, <1>2, PTL DEF MCSpec, Spec, Form!Spec

LEMMA DeskIsKept == Spec => []DeskInv
<1>1. DeskInv /\ [Next]_vars => DeskInv'
  BY DeskNext
<1>2. QED BY <1>1, DeskInit, PTL DEF Spec

LEMMA FormIsKept == Form!Spec => []FormInv
<1>1. FormInv /\ [Form!Next]_Form!vars => FormInv'
  BY FormNext
<1>2. QED BY <1>1, FormInit, PTL DEF Form!Spec

\* Once the page of documents-review waits for no preview, the one it shows is of the
\* selected document; it says nothing of a decision taken before, or without one.  What
\* was typed last in the form is on the screen, in the draft, in the queue, on its way
\* or stored, until `fate` has one of the reasons that CustomerForm names.  And every
\* variable has its type.
THEOREM PapersKept == MCSpec => []PapersAreKept
<1>1. DeskInv /\ FormInv => PapersAreKept
  BY DeskTyped, FormKeeps DEF PapersAreKept
<1>2. QED BY <1>1, BothApart, DeskIsKept, FormIsKept, PTL

\* createVersionedDocument puts a photograph in the place of another picture only
\* if whoever chose the place for the new one did not know, or could not count, all
\* that was stored, queued, under way or failed, or lost that knowledge when somebody
\* else chose the same place or the portal stored one there; and it stores a picture
\* twice only if an upload of it was left unanswered.
THEOREM UploadsExplained == MCSpec => UploadsAreExplained
<1>1. DeskInv /\ [Next]_vars =>
        [Stored /\ (\E d \in LatestAt(New.place) : docs[d].file # New.file) =>
           \E c \in Clients : ups[c].pc = "trying" /\ ups'[c].pc = "stored" /\ ~ ups[c].item.aware]_vars
  BY ReplacedUnaware
<1>2. DeskInv /\ [Next]_vars =>
        [Stored /\ New.file \in {docs[d].file : d \in DOMAIN docs} \ {Other} => New.file \in unsure]_vars
  BY TwiceUnsure DEF DocFiles
<1>3. Spec => UploadsAreExplained
  BY <1>1, <1>2, DeskIsKept, PTL
     DEF Spec, UploadsAreExplained, PhotoReplacedUnaware, StoredTwiceOnlyIfUnsure
<1>4. QED BY <1>3, BothApart, PTL

\* PUT customer-details leaves a loan without its amount, or writes for somebody
\* who is no administrator once the lead is closed, only if what the request was
\* checked with has changed since.
THEOREM DetailsChecked == MCSpec => DetailsAreChecked
<1>1. FormInv /\ [Form!Next]_Form!vars =>
        [detail'.loan /\ ~ detail'.amount /\ detail' # detail =>
           \E s \in Form!Slots : puts[s].pc = "read" /\ puts[s].overtaken]_Form!vars
  BY FormSteps
<1>2. FormInv /\ [Form!Next]_Form!vars =>
        [closed /\ detail' # detail =>
           \E s \in Form!Slots : puts[s].pc = "read" /\ (puts[s].admin \/ puts[s].overtaken)]_Form!vars
  BY FormSteps
<1>3. Form!Spec => DetailsAreChecked
  BY <1>1, <1>2, FormIsKept, PTL
     DEF Form!Spec, DetailsAreChecked, Form!DetailsAreChecked,
         Form!LoanHasAmountUnlessRaced, Form!ClosedDetailsUnlessRaced
<1>4. QED BY <1>3, BothApart, PTL

\* A version of the details that takes the place of a newer one was on its way
\* when the newer one was submitted.
THEOREM NewerStays == MCSpec => NewerIsNotUndone
<1>1. FormInv /\ [Form!Next]_Form!vars =>
        [detail'.text < detail.text => detail'.text \in behind]_Form!vars
  <2>1. FormInv => ~ (detail.text < detail.text)
    <3>1. FormInv => detail.text \in Nat
      BY NumberedTexts DEF FormInv, FormTyped, RowShaped, Form!Detail
    <3>2. QED BY <3>1
  <2>2. QED BY <2>1, FormSteps
<1>2. Form!Spec => NewerIsNotUndone
  BY <1>1, FormIsKept, PTL DEF Form!Spec, NewerIsNotUndone, Form!NewerIsNotUndone
<1>3. QED BY <1>2, BothApart, PTL
=============================================================================
