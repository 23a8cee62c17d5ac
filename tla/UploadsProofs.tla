---------------------------- MODULE UploadsProofs ----------------------------
(***************************************************************************)
(* Proofs about the objects in storage and the rows that the uploads       *)
(* write, which leaves out the portfolio: every such row points at an      *)
(* object that is there, and nothing is left there that none of them       *)
(* points at, once every request is over.                                  *)
(*                                                                         *)
(* A key is, at any time, held by a row, by a request that has stored its  *)
(* object and not yet written its row, by a request that is about to       *)
(* remove it, or by nobody; and the three holders never share one.  A      *)
(* request that replaces a picture also remembers the key it read, which   *)
(* may have been replaced meanwhile but has not come back anywhere.        *)
(***************************************************************************)
EXTENDS MarketplaceProofs

-----------------------------------------------------------------------------
(* Who holds a key *)

(* Every key that an upload has put in a row other than the profile's, and *)
(* NoKey for a message without an attachment.                              *)
KeysOf(rows) == {rows[i].key : i \in DOMAIN rows}

Filed == KeysOf(messages) \cup KeysOf(documents) \cup KeysOf(gallery)

(* The object is stored and no row is written yet; the picture of the      *)
(* profile is to be replaced; the object is to be removed.                 *)
Fresh(h)     == h.route \in Uploading /\ h.at \in {"row", "place", "insert"}
Replacing(h) == h.route = "provider_image" /\ h.at \in {"put", "row"}
Removing(h)  == h.at = "discard"

UploadSteps == {"put", "row", "place", "insert", "discard"}

RowsResolve == \A k \in Filed \cup Pictures : k = NoKey \/ k \in objects

PicturesApart ==
  \A kind \in ImageKind :
    image[kind] # NoKey => /\ image[kind] \notin Filed
                           /\ \A other \in ImageKind \ {kind} : image[other] # image[kind]

FreshApart ==
  \A s \in Session : Fresh(handler[s]) =>
    /\ handler[s].kept.key \in objects /\ handler[s].kept.key \notin Filed \cup Pictures
    /\ \A r \in Session \ {s} : Fresh(handler[r]) => handler[r].kept.key # handler[s].kept.key

ReplacedApart ==
  \A s \in Session : Replacing(handler[s]) =>
    /\ handler[s].kept.old \in 0..keys
    /\ handler[s].kept.old # NoKey =>
         /\ handler[s].kept.old \notin Filed
         /\ \A kind \in ImageKind \ {handler[s].kept.ref} : image[kind] # handler[s].kept.old
         /\ \A r \in Session : Fresh(handler[r]) => handler[r].kept.key # handler[s].kept.old

RemovedApart ==
  \A s \in Session : Removing(handler[s]) =>
    /\ handler[s].kept.old \in 1..keys /\ handler[s].kept.old \notin Filed \cup Pictures
    /\ \A r \in Session : Fresh(handler[r]) => handler[r].kept.key # handler[s].kept.old

StationsOK ==
  \A s \in Session : /\ handler[s].route \in Uploading => handler[s].at \in UploadSteps
                     /\ handler[s].route = "message" => handler[s].kept.key = NoKey

KeysOK ==
  /\ RowsResolve /\ PicturesApart /\ FreshApart /\ ReplacedApart /\ RemovedApart /\ StationsOK

(* Every object is held, while storage and the database answer.            *)
Answered == faults = scenario.faults /\ restarts = 0

Held ==
  Filed \cup Pictures
    \cup {handler[s].kept.key : s \in {r \in Session : Fresh(handler[r])}}
    \cup {handler[s].kept.old : s \in {r \in Session : Removing(handler[r])}}

CountsOK == scenario.faults \in Nat /\ faults \in 0..scenario.faults /\ restarts \in Nat

HeldOK ==
  Alone({"provider_image"}) /\ Answered =>
    /\ objects \subseteq Held
    /\ \A s \in Session : Replacing(handler[s])
                            => handler[s].kept.old = image[handler[s].kept.ref]

-----------------------------------------------------------------------------
(* What the rows hold after a step *)

LEMMA AppendKeys ==
  ASSUME NEW R, NEW rows \in Seq(R), NEW row
  PROVE  KeysOf(Append(rows, row)) = KeysOf(rows) \cup {row.key}
<1> DEFINE next == Append(rows, row)
<1>1. /\ DOMAIN rows = 1..Len(rows) /\ Len(rows) \in Nat
      /\ DOMAIN next = 1..(Len(rows) + 1)
      /\ \A i \in DOMAIN rows : next[i] = rows[i]
      /\ next[Len(rows) + 1] = row
  OBVIOUS
<1>2. DOMAIN next = DOMAIN rows \cup {Len(rows) + 1}
  BY <1>1
<1> HIDE DEF next
<1>3. KeysOf(next) = KeysOf(rows) \cup {row.key}
  BY <1>1, <1>2 DEF KeysOf
<1> QED
  BY <1>3 DEF next

LEMMA SameKeys ==
  ASSUME NEW rows, NEW next, DOMAIN next = DOMAIN rows,
         \A i \in DOMAIN rows : next[i].key = rows[i].key
  PROVE  KeysOf(next) = KeysOf(rows)
BY DEF KeysOf

(* Which rows come to hold a key.                                          *)
FilesKey(s) ==
  /\ UNCHANGED image
  /\ \/ CreateDocument(s) /\ UNCHANGED <<messages, gallery>>
     \/ CreateServiceImage(s) /\ UNCHANGED <<messages, documents>>
     \/ InsertMessage(s) /\ UNCHANGED <<documents, gallery>>

LEMMA FiledGrows ==
  ASSUME Base, NEW s \in Session, FilesKey(s)
  PROVE  /\ Filed' = Filed \cup {handler[s].kept.key}
         /\ Done(s) /\ UNCHANGED <<objects, keys, image, faults>>
<1> DEFINE key == handler[s].kept.key
<1>1. documents \in Seq(DocumentRow) /\ gallery \in Seq(GalleryRow) /\ messages \in Seq(MessageRow)
  BY DEF Base, FilesOK, ThreadsOK
<1>2. CASE CreateDocument(s) /\ UNCHANGED <<messages, gallery>>
  <2> DEFINE row == [key |-> key, status |-> "PENDING"]
  <2>1. documents' = Append(documents, row) /\ row.key = key
    BY <1>2 DEF CreateDocument, Kept
  <2> HIDE DEF row
  <2>2. KeysOf(documents') = KeysOf(documents) \cup {key}
    BY <1>1, <2>1, AppendKeys
  <2> QED
    BY <1>2, <2>2 DEF CreateDocument, Continue, stored, Filed, FilesKey
<1>3. CASE CreateServiceImage(s) /\ UNCHANGED <<messages, documents>>
  <2> DEFINE row == [listing |-> Kept(s).ref, key |-> Kept(s).key, position |-> Kept(s).old]
  <2>1. gallery' = Append(gallery, row) /\ row.key = key
    BY <1>3 DEF CreateServiceImage, Kept
  <2> HIDE DEF row
  <2>2. KeysOf(gallery') = KeysOf(gallery) \cup {key}
    BY <1>1, <2>1, AppendKeys
  <2> QED
    BY <1>3, <2>2 DEF CreateServiceImage, Continue, stored, Filed, FilesKey
<1>4. CASE InsertMessage(s) /\ UNCHANGED <<documents, gallery>>
  <2> DEFINE m == Kept(s)
             row == [anchor |-> m.anchor, from |-> m.from, to |-> m.to,
                     key |-> m.key, read |-> FALSE, shown |-> FALSE]
  <2>1. messages' = Append(messages, row) /\ row.key = key
    BY <1>4 DEF InsertMessage, Kept
  <2> HIDE DEF row
  <2>2. KeysOf(messages') = KeysOf(messages) \cup {key}
    BY <1>1, <2>1, AppendKeys
  <2> QED
    BY <1>4, <2>2 DEF InsertMessage, Continue, stored, Filed, FilesKey
<1> QED
  BY <1>2, <1>3, <1>4 DEF FilesKey

LEMMA FiledKinds ==
  ASSUME Base, [Next]_vars
  PROVE  \/ \E s \in Session : FilesKey(s)
         \/ \E s \in Session : WriteProviderImage(s) /\ Filed' = Filed
         \/ UNCHANGED image /\ Filed' = Filed
<1> DEFINE Goal == \/ \E s \in Session : FilesKey(s)
                   \/ \E s \in Session : WriteProviderImage(s) /\ Filed' = Filed
                   \/ UNCHANGED image /\ Filed' = Filed
<1>1. ASSUME UNCHANGED <<image, documents, gallery, messages>> PROVE Goal
  BY <1>1 DEF Filed
<1>2. ASSUME NEW s \in Session, CatalogueWrite(s), UNCHANGED messageVars PROVE Goal
  <2>1. UNCHANGED messages
    BY <1>2 DEF messageVars
  <2>2. ASSUME CreateDocument(s) PROVE Goal
    BY <2>1, <2>2 DEF CreateDocument, FilesKey
  <2>3. ASSUME CreateServiceImage(s) PROVE Goal
    BY <2>1, <2>3 DEF CreateServiceImage, FilesKey, profileVars
  <2>4. ASSUME WriteProviderImage(s) PROVE Goal
    BY <2>1, <2>4 DEF WriteProviderImage, Filed
  <2>5. ASSUME NEW i \in DOMAIN documents, NEW d, ReviewDocument(s, i, d) PROVE Goal
    <3>1. documents' = [documents EXCEPT ![i].status = d] /\ UNCHANGED <<image, gallery>>
      BY <2>5 DEF ReviewDocument
    <3>2. \A j \in DOMAIN documents : documents[j] \in DocumentRow
      BY DEF Base, FilesOK
    <3>3. DOMAIN documents' = DOMAIN documents
          /\ \A j \in DOMAIN documents : documents'[j].key = documents[j].key
      BY <3>1, <3>2 DEF DocumentRow
    <3>4. KeysOf(documents') = KeysOf(documents)
      BY <3>3, SameKeys
    <3> QED
      BY <2>1, <3>1, <3>4 DEF Filed
  <2>6. UNCHANGED image \/ WriteProviderImage(s)
    BY <1>2, CatalogueWriters
  <2>7. UNCHANGED gallery \/ CreateServiceImage(s)
    BY <1>2, CatalogueWriters
  <2>8. \/ UNCHANGED documents \/ CreateDocument(s)
        \/ \E i \in DOMAIN documents, d \in {"APPROVED", "REJECTED"} : ReviewDocument(s, i, d)
    BY <1>2, CatalogueWriters
  <2> HIDE DEF Goal
  <2> QED
    BY <1>1, <2>1, <2>2, <2>3, <2>4, <2>5, <2>6, <2>7, <2>8
<1>3. ASSUME UNCHANGED catalogueVars PROVE Goal
  <2>1. UNCHANGED <<image, documents, gallery>>
    BY <1>3 DEF catalogueVars, profileVars
  <2>2. ASSUME NEW s \in Session, InsertMessage(s) PROVE Goal
    BY <2>1, <2>2 DEF FilesKey
  <2>3. ASSUME NEW s \in Session, StampRead(s) PROVE Goal
    <3>1. \A i \in DOMAIN messages : messages[i] \in MessageRow
      BY DEF Base, ThreadsOK
    <3>2. DOMAIN messages' = DOMAIN messages
          /\ \A i \in DOMAIN messages : messages'[i].key = messages[i].key
      BY <2>3, <3>1 DEF StampRead, MessageRow
    <3>3. KeysOf(messages') = KeysOf(messages)
      BY <3>2, SameKeys
    <3> QED
      BY <2>1, <3>3 DEF Filed
  <2> HIDE DEF Goal
  <2> QED
    BY <1>1, <2>1, <2>2, <2>3, MessageWriters
<1> HIDE DEF Goal
<1>4. Goal
  BY <1>1, <1>2, <1>3, StepKinds DEF Quiet, catalogueVars, profileVars
<1> QED
  BY <1>4 DEF Goal

-----------------------------------------------------------------------------
(* How the holders change *)

(* A session comes to hold no key but one it held, or read in the row.     *)
Gentle(s) ==
  LET g == handler[s]
      h == handler'[s]
  IN  /\ Fresh(h) => Fresh(g) /\ h.kept.key = g.kept.key
      /\ Replacing(h) =>
           \/ Replacing(g) /\ h.kept.ref = g.kept.ref /\ h.kept.old = g.kept.old
           \/ h.kept.ref \in ImageKind /\ h.kept.old = image[h.kept.ref]
      /\ Removing(h) =>
           \/ Removing(g) /\ h.kept.old = g.kept.old
           \/ Fresh(g) /\ h.kept.old = g.kept.key
      /\ h.route \in Uploading => h.at \in UploadSteps
      /\ h.route = "message" => h.kept.key = NoKey

LEMMA FreshMeans ==
  ASSUME NEW h, Fresh(h)
  PROVE  ~Removing(h) /\ h.route \in Uploading /\ h.at \in {"row", "place", "insert"}
BY DEF Fresh, Removing

LEMMA KeysBelow ==
  ASSUME Base, KeysOK
  PROVE  /\ keys \in Nat /\ objects \subseteq 1..keys
         /\ \A k \in Filed \cup Pictures : k \in 0..keys
         /\ \A kind \in ImageKind : image[kind] \in Pictures
         /\ \A s \in Session : Fresh(handler[s]) =>
              handler[s].kept.key \in 1..keys /\ handler[s].kept.key # NoKey
<1>1. keys \in Nat /\ objects \subseteq 1..keys
  BY DEF Base, StorageOK
<1>2. \A k \in Filed \cup Pictures : k \in 0..keys
  <2>1. \A k \in Filed \cup Pictures : k = 0 \/ k \in objects
    BY DEF KeysOK, RowsResolve, NoKey
  <2>2. 0 \in 0..keys /\ 1..keys \subseteq 0..keys
    BY <1>1
  <2> QED
    BY <1>1, <2>1, <2>2
<1>3. \A kind \in ImageKind : image[kind] \in Pictures
  BY DEF Pictures
<1>4. \A s \in Session : Fresh(handler[s]) => handler[s].kept.key \in 1..keys
  BY <1>1 DEF KeysOK, FreshApart
<1> QED
  BY <1>1, <1>2, <1>3, <1>4 DEF NoKey

LEMMA GentleKeeps ==
  ASSUME Base, KeysOK, Base', UNCHANGED image, Filed' = Filed, keys <= keys',
         objects \cap (Filed \cup Pictures) \subseteq objects',
         \A s \in Session : Fresh(handler[s]) => handler[s].kept.key \in objects',
         \A s \in Session : Gentle(s)
  PROVE  KeysOK'
<1>1. Pictures' = Pictures /\ 0..keys \subseteq 0..keys' /\ 1..keys \subseteq 1..keys'
  BY DEF Pictures, Base, StorageOK
<1>2. RowsResolve' /\ PicturesApart'
  BY <1>1 DEF KeysOK, RowsResolve, PicturesApart
<1>3. \A s \in Session : Fresh(handler[s])'
        => Fresh(handler[s]) /\ handler'[s].kept.key = handler[s].kept.key
  BY DEF Gentle, Fresh
<1>4. FreshApart'
  BY <1>1, <1>3 DEF KeysOK, FreshApart
<1>5. ReplacedApart'
  <2> SUFFICES ASSUME NEW s \in Session, Replacing(handler[s])'
               PROVE  /\ handler'[s].kept.old \in 0..keys'
                      /\ handler'[s].kept.old # NoKey =>
                           /\ handler'[s].kept.old \notin Filed'
                           /\ \A kind \in ImageKind \ {handler'[s].kept.ref} :
                                image'[kind] # handler'[s].kept.old
                           /\ \A r \in Session :
                                Fresh(handler[r])' => handler'[r].kept.key # handler'[s].kept.old
    BY DEF ReplacedApart
  <2>1. CASE /\ Replacing(handler[s])
             /\ handler'[s].kept.ref = handler[s].kept.ref
             /\ handler'[s].kept.old = handler[s].kept.old
    BY <1>1, <1>3, <2>1 DEF KeysOK, ReplacedApart
  <2>2. CASE /\ handler'[s].kept.ref \in ImageKind
             /\ handler'[s].kept.old = image[handler'[s].kept.ref]
    <3>1. image[handler'[s].kept.ref] \in 0..keys /\ image[handler'[s].kept.ref] \in Pictures
      BY <2>2, KeysBelow
    <3>2. \A r \in Session : Fresh(handler[r])' => handler'[r].kept.key # image[handler'[s].kept.ref]
      BY <1>3, <3>1 DEF KeysOK, FreshApart
    <3> QED
      BY <1>1, <2>2, <3>1, <3>2 DEF KeysOK, PicturesApart
  <2> QED
    BY <2>1, <2>2 DEF Gentle, Replacing
<1>6. RemovedApart'
  <2> SUFFICES ASSUME NEW s \in Session, Removing(handler[s])'
               PROVE  /\ handler'[s].kept.old \in 1..keys'
                      /\ handler'[s].kept.old \notin Filed' \cup Pictures'
                      /\ \A r \in Session :
                           Fresh(handler[r])' => handler'[r].kept.key # handler'[s].kept.old
    BY DEF RemovedApart
  <2>1. CASE Removing(handler[s]) /\ handler'[s].kept.old = handler[s].kept.old
    BY <1>1, <1>3, <2>1 DEF KeysOK, RemovedApart
  <2>2. CASE Fresh(handler[s]) /\ handler'[s].kept.old = handler[s].kept.key
    <3>1. ~Fresh(handler[s])'
      BY DEF Fresh, Removing
    <3>2. \A r \in Session \ {s} : Fresh(handler[r]) => handler[r].kept.key # handler[s].kept.key
      BY <2>2 DEF KeysOK, FreshApart
    <3>3. \A r \in Session : Fresh(handler[r])' => handler'[r].kept.key # handler[s].kept.key
      BY <1>3, <3>1, <3>2
    <3>4. handler[s].kept.key \in 1..keys /\ handler[s].kept.key \notin Filed \cup Pictures
      BY <2>2, KeysBelow DEF KeysOK, FreshApart
    <3> QED
      BY <1>1, <2>2, <3>3, <3>4
  <2> QED
    BY <2>1, <2>2 DEF Gentle, Removing
<1>7. StationsOK'
  BY DEF Gentle, StationsOK
<1> QED
  BY <1>2, <1>4, <1>5, <1>6, <1>7 DEF KeysOK

(* A new object: nobody had its key.                                       *)
LEMMA PutKeeps ==
  ASSUME Base, KeysOK, Base', NEW s \in Session, Put(s), ~Done(s), UNCHANGED image, Filed' = Filed
  PROVE  KeysOK'
<1> DEFINE g == handler[s]
           h == handler'[s]
<1>1. /\ keys \in Nat /\ objects \subseteq 1..keys
      /\ \A k \in Filed \cup Pictures : k \in 0..keys
      /\ \A r \in Session : Fresh(handler[r]) => handler[r].kept.key \in 1..keys
  BY KeysBelow
<1>2. /\ keys' = keys + 1 /\ objects' = objects \cup {keys'}
      /\ keys' \notin 0..keys /\ 0..keys \subseteq 0..keys' /\ 1..keys \subseteq 1..keys'
      /\ keys' # NoKey /\ keys' \notin 1..keys
  BY <1>1 DEF Put, NoKey
<1>3. Pictures' = Pictures
  BY DEF Pictures
<1>4. /\ \A r \in Session \ {s} : handler'[r] = handler[r]
      /\ h = HandlerAt(g.route, "row", [g.kept EXCEPT !.key = keys'])
  BY DEF Put, Goes, Kept, HandlerAt, Base, HandlersOK
<1>5. /\ g.at = "put" /\ g.route \in Uploading
      /\ h.route = g.route /\ h.at = "row" /\ h.kept.key = keys' /\ h.kept.old = g.kept.old
      /\ g.route = "provider_image" => h.kept.ref = g.kept.ref
  <2>1. g.at = "put" /\ HandlerOK(g)
    BY InHandler DEF Put
  <2>2. g.route \in Uploading
    BY <2>1 DEF HandlerOK, StationOK
  <2>3. /\ g.route = "provider_image" => g.kept \in [ref : ImageKind, old : Nat, key : Nat]
        /\ g.route = "document" => g.kept \in [ref : {0}, old : Nat, key : Nat]
        /\ g.route = "service_image" => g.kept \in [ref : Listing, old : Nat, key : Nat]
        /\ g.route = "attachment" => g.kept \in Letter
    BY <2>1 DEF HandlerOK, KeepsFile, KeepsMessage
  <2>4. [g.kept EXCEPT !.key = keys'].key = keys'
        /\ [g.kept EXCEPT !.key = keys'].old = g.kept.old
    BY <2>2, <2>3 DEF Uploading, Letter
  <2>5. g.route = "provider_image" => [g.kept EXCEPT !.key = keys'].ref = g.kept.ref
    BY <2>3
  <2>6. h.route = g.route /\ h.at = "row" /\ h.kept = [g.kept EXCEPT !.key = keys']
    BY <1>4 DEF HandlerAt
  <2> QED
    BY <2>1, <2>2, <2>4, <2>5, <2>6
<1> HIDE DEF g, h
<1>6. /\ Fresh(h) /\ ~Fresh(g) /\ ~Removing(h)
      /\ Replacing(h) => /\ Replacing(g) /\ h.kept.ref = g.kept.ref
  BY <1>5 DEF Fresh, Replacing, Removing
<1>7. RowsResolve' /\ PicturesApart'
  BY <1>2, <1>3 DEF KeysOK, RowsResolve, PicturesApart
<1>8. FreshApart'
  <2> SUFFICES ASSUME NEW r \in Session, Fresh(handler[r])'
               PROVE  /\ handler'[r].kept.key \in objects'
                      /\ handler'[r].kept.key \notin Filed' \cup Pictures'
                      /\ \A q \in Session \ {r} :
                           Fresh(handler[q])' => handler'[q].kept.key # handler'[r].kept.key
    BY DEF FreshApart
  <2>1. \A q \in Session \ {s} : Fresh(handler[q])' => Fresh(handler[q])
    BY <1>4 DEF Fresh
  <2>2. CASE r = s
    BY <1>1, <1>2, <1>3, <1>4, <1>5, <2>1, <2>2 DEF h
  <2>3. CASE r # s
    BY <1>1, <1>2, <1>3, <1>4, <1>5, <2>1, <2>3 DEF h, KeysOK, FreshApart
  <2> QED
    BY <2>2, <2>3
<1>9. ReplacedApart'
  <2> SUFFICES ASSUME NEW r \in Session, Replacing(handler[r])'
               PROVE  /\ handler'[r].kept.old \in 0..keys'
                      /\ handler'[r].kept.old # NoKey =>
                           /\ handler'[r].kept.old \notin Filed'
                           /\ \A kind \in ImageKind \ {handler'[r].kept.ref} :
                                image'[kind] # handler'[r].kept.old
                           /\ \A q \in Session :
                                Fresh(handler[q])' => handler'[q].kept.key # handler'[r].kept.old
    BY DEF ReplacedApart
  <2>1. /\ Replacing(handler[r]) /\ handler'[r].kept.old = handler[r].kept.old
        /\ handler'[r].kept.ref = handler[r].kept.ref
    BY <1>4, <1>5, <1>6 DEF g, h, Replacing
  <2>2. \A q \in Session \ {s} : Fresh(handler[q])' => Fresh(handler[q])
    BY <1>4 DEF Fresh
  <2>3. handler[r].kept.old \in 0..keys
    BY <2>1 DEF KeysOK, ReplacedApart
  <2>4. \A q \in Session :
          Fresh(handler[q])' => handler[r].kept.old = NoKey \/ handler'[q].kept.key # handler[r].kept.old
    BY <1>2, <1>4, <1>5, <2>1, <2>2, <2>3 DEF h, KeysOK, ReplacedApart
  <2> QED
    BY <1>2, <2>1, <2>3, <2>4 DEF KeysOK, ReplacedApart
<1>10. RemovedApart'
  <2> SUFFICES ASSUME NEW r \in Session, Removing(handler[r])'
               PROVE  /\ handler'[r].kept.old \in 1..keys'
                      /\ handler'[r].kept.old \notin Filed' \cup Pictures'
                      /\ \A q \in Session :
                           Fresh(handler[q])' => handler'[q].kept.key # handler'[r].kept.old
    BY DEF RemovedApart
  <2>1. r # s /\ Removing(handler[r]) /\ handler'[r] = handler[r]
    BY <1>4, <1>6 DEF h, Removing
  <2>2. \A q \in Session \ {s} : Fresh(handler[q])' => Fresh(handler[q])
    BY <1>4 DEF Fresh
  <2>3. handler[r].kept.old \in 1..keys
    BY <2>1 DEF KeysOK, RemovedApart
  <2>4. \A q \in Session : Fresh(handler[q])' => handler'[q].kept.key # handler[r].kept.old
    BY <1>2, <1>4, <1>5, <2>1, <2>2, <2>3 DEF h, KeysOK, RemovedApart
  <2> QED
    BY <1>2, <1>3, <2>1, <2>3, <2>4 DEF KeysOK, RemovedApart
<1>11. StationsOK'
  BY <1>4, <1>5 DEF g, h, KeysOK, StationsOK, UploadSteps, Uploading
<1> QED
  BY <1>7, <1>8, <1>9, <1>10, <1>11 DEF KeysOK

(* The object is replaced in the row before it is removed.                 *)
LEMMA PictureKeeps ==
  ASSUME Base, KeysOK, NEW s \in Session, WriteProviderImage(s), Filed' = Filed
  PROVE  KeysOK'
<1> DEFINE g == handler[s]
           h == handler'[s]
           key == g.kept.key
<1>1. /\ keys \in Nat /\ objects \subseteq 1..keys
      /\ \A k \in Filed \cup Pictures : k \in 0..keys
      /\ \A r \in Session : Fresh(handler[r]) => handler[r].kept.key \in 1..keys
  BY KeysBelow
<1>2. /\ g.route = "provider_image" /\ g.at = "row" /\ UNCHANGED <<objects, keys>>
      /\ image' = [image EXCEPT ![g.kept.ref] = key] /\ Replaces(s)
  BY DEF WriteProviderImage, Continue, At, Kept, stored
<1>3. /\ g.kept.ref \in ImageKind /\ image \in [ImageKind -> Nat]
  BY <1>2, InHandler DEF HandlerOK, KeepsFile, Base, FilesOK
<1>4. Fresh(g) /\ Replacing(g)
  BY <1>2 DEF Fresh, Replacing, Uploading
<1>5. /\ \A r \in Session \ {s} : handler'[r] = handler[r]
      /\ \/ h = Idle
         \/ /\ g.kept.old # NoKey /\ h.route = "provider_image"
            /\ h.at = "discard" /\ h.kept = g.kept
  BY <1>2 DEF Replaces, Done, Goes, Kept, Base, HandlersOK
<1>6. /\ ~Fresh(h) /\ ~Replacing(h)
      /\ h.route \in Uploading => h.at \in UploadSteps
      /\ h.route # "message"
  BY <1>5 DEF Fresh, Replacing, Idle, Uploading, UploadSteps
<1>7. /\ image'[g.kept.ref] = key
      /\ \A kind \in ImageKind \ {g.kept.ref} : image'[kind] = image[kind]
      /\ Pictures' \subseteq Pictures \cup {key}
  BY <1>2, <1>3 DEF Pictures
<1>8. key \in objects /\ key \notin Filed \cup Pictures
  BY <1>4 DEF KeysOK, FreshApart
<1>9. g.kept.old # NoKey =>
        /\ g.kept.old \notin Filed /\ g.kept.old # key /\ g.kept.old \in 0..keys
        /\ \A kind \in ImageKind \ {g.kept.ref} : image[kind] # g.kept.old
        /\ \A r \in Session : Fresh(handler[r]) => handler[r].kept.key # g.kept.old
  BY <1>4 DEF KeysOK, ReplacedApart
<1>10. \A r \in Session : Fresh(handler[r])'
         => r # s /\ Fresh(handler[r]) /\ handler'[r] = handler[r] /\ handler[r].kept.key # key
  <2> SUFFICES ASSUME NEW r \in Session, Fresh(handler[r])'
               PROVE  r # s /\ Fresh(handler[r]) /\ handler'[r] = handler[r]
                      /\ handler[r].kept.key # key
    OBVIOUS
  <2>1. r # s
    BY <1>6 DEF Fresh
  <2>2. handler'[r] = handler[r] /\ Fresh(handler[r])
    BY <1>5, <2>1 DEF Fresh
  <2> QED
    BY <1>4, <2>1, <2>2 DEF KeysOK, FreshApart
<1> HIDE DEF g, h, key
<1>11. RowsResolve'
  BY <1>2, <1>7, <1>8 DEF KeysOK, RowsResolve
<1>12. PicturesApart'
  <2>1. \A kind \in ImageKind : image[kind] \in Pictures
    BY DEF Pictures
  <2> QED
    BY <1>3, <1>7, <1>8, <2>1 DEF KeysOK, PicturesApart
<1>13. FreshApart'
  BY <1>2, <1>7, <1>10 DEF KeysOK, FreshApart
<1>14. ReplacedApart'
  <2> SUFFICES ASSUME NEW r \in Session, Replacing(handler[r])'
               PROVE  /\ handler'[r].kept.old \in 0..keys'
                      /\ handler'[r].kept.old # NoKey =>
                           /\ handler'[r].kept.old \notin Filed'
                           /\ \A kind \in ImageKind \ {handler'[r].kept.ref} :
                                image'[kind] # handler'[r].kept.old
                           /\ \A q \in Session :
                                Fresh(handler[q])' => handler'[q].kept.key # handler'[r].kept.old
    BY DEF ReplacedApart
  <2>1. r # s
    BY <1>6 DEF Replacing, h
  <2>2. handler'[r] = handler[r] /\ Replacing(handler[r])
    BY <1>5, <2>1 DEF Replacing
  <2>3. handler[r].kept.old # NoKey => key # handler[r].kept.old
    BY <1>4, <2>2 DEF KeysOK, ReplacedApart, key, g
  <2>4. \A kind \in ImageKind : image'[kind] = image[kind] \/ image'[kind] = key
    BY <1>7
  <2> QED
    BY <1>2, <1>10, <2>2, <2>3, <2>4 DEF KeysOK, ReplacedApart
<1>15. RemovedApart'
  <2> SUFFICES ASSUME NEW r \in Session, Removing(handler[r])'
               PROVE  /\ handler'[r].kept.old \in 1..keys'
                      /\ handler'[r].kept.old \notin Filed' \cup Pictures'
                      /\ \A q \in Session :
                           Fresh(handler[q])' => handler'[q].kept.key # handler'[r].kept.old
    BY DEF RemovedApart
  <2>1. CASE r = s
    <3>1. h.kept = g.kept /\ g.kept.old # NoKey
      BY <1>5, <2>1 DEF h, Removing, Idle
    <3>2. g.kept.old \in 1..keys
      BY <1>1, <1>9, <3>1 DEF NoKey
    <3>3. g.kept.old \notin Pictures'
      BY <1>3, <1>7, <1>9, <3>1 DEF Pictures
    <3> QED
      BY <1>2, <1>9, <1>10, <2>1, <3>1, <3>2, <3>3 DEF h
  <2>2. CASE r # s
    <3>1. handler'[r] = handler[r] /\ Removing(handler[r])
      BY <1>5, <2>2 DEF Removing
    <3>2. key # handler[r].kept.old
      BY <1>4, <3>1 DEF KeysOK, RemovedApart, key, g
    <3> QED
      BY <1>2, <1>7, <1>10, <3>1, <3>2 DEF KeysOK, RemovedApart
  <2> QED
    BY <2>1, <2>2
<1>16. StationsOK'
  BY <1>5, <1>6 DEF h, KeysOK, StationsOK
<1> QED
  BY <1>11, <1>12, <1>13, <1>14, <1>15, <1>16 DEF KeysOK

(* A row other than the profile's comes to hold the key of the request.    *)
LEMMA FileKeeps ==
  ASSUME Base, KeysOK, NEW s \in Session, FilesKey(s)
  PROVE  KeysOK'
<1> DEFINE g == handler[s]
           key == g.kept.key
<1>1. /\ keys \in Nat /\ objects \subseteq 1..keys
      /\ \A k \in Filed \cup Pictures : k \in 0..keys
  BY KeysBelow
<1>2. /\ Filed' = Filed \cup {key} /\ UNCHANGED <<objects, keys, image>>
      /\ handler'[s] = Idle /\ \A r \in Session \ {s} : handler'[r] = handler[r]
  BY FiledGrows DEF Done, Base, HandlersOK
<1>3. Fresh(g) \/ key = NoKey
  BY DEF FilesKey, CreateDocument, CreateServiceImage, InsertMessage, Continue, At, Fresh,
         Uploading, KeysOK, StationsOK
<1>4. ~Fresh(Idle) /\ ~Replacing(Idle) /\ ~Removing(Idle) /\ Idle.route = "none"
  BY DEF Fresh, Replacing, Removing, Idle, Uploading
<1>5. Pictures' = Pictures
  BY <1>2 DEF Pictures
<1>6. key # NoKey =>
        /\ key \in objects /\ key \notin Filed \cup Pictures
        /\ \A r \in Session : Replacing(handler[r]) /\ handler[r].kept.old # NoKey
                                => handler[r].kept.old # key
        /\ \A r \in Session : Removing(handler[r]) => handler[r].kept.old # key
        /\ \A r \in Session \ {s} : Fresh(handler[r]) => handler[r].kept.key # key
  BY <1>3 DEF KeysOK, FreshApart, ReplacedApart, RemovedApart
<1>7. \A r \in Session : Fresh(handler[r])' => r # s /\ Fresh(handler[r]) /\ handler'[r] = handler[r]
  <2> SUFFICES ASSUME NEW r \in Session, Fresh(handler[r])'
               PROVE  r # s /\ Fresh(handler[r]) /\ handler'[r] = handler[r]
    OBVIOUS
  <2>1. r # s
    BY <1>2, <1>4 DEF Fresh
  <2> QED
    BY <1>2, <2>1 DEF Fresh
<1>8. \A r \in Session : Replacing(handler[r])' => Replacing(handler[r]) /\ handler'[r] = handler[r]
  <2> SUFFICES ASSUME NEW r \in Session, Replacing(handler[r])'
               PROVE  Replacing(handler[r]) /\ handler'[r] = handler[r]
    OBVIOUS
  <2>1. r # s
    BY <1>2, <1>4 DEF Replacing
  <2> QED
    BY <1>2, <2>1 DEF Replacing
<1>9. \A r \in Session : Removing(handler[r])' => Removing(handler[r]) /\ handler'[r] = handler[r]
  <2> SUFFICES ASSUME NEW r \in Session, Removing(handler[r])'
               PROVE  Removing(handler[r]) /\ handler'[r] = handler[r]
    OBVIOUS
  <2>1. r # s
    BY <1>2, <1>4 DEF Removing
  <2> QED
    BY <1>2, <2>1 DEF Removing
<1> HIDE DEF g, key
<1>10. RowsResolve'
  BY <1>2, <1>5, <1>6 DEF KeysOK, RowsResolve
<1>11. PicturesApart'
  <2>1. \A kind \in ImageKind : image[kind] \in Pictures
    BY DEF Pictures
  <2> QED
    BY <1>2, <1>6, <2>1 DEF KeysOK, PicturesApart
<1>12. FreshApart'
  <2>1. \A r \in Session : Fresh(handler[r]) => handler[r].kept.key # NoKey
    BY KeysBelow
  <2> QED
    BY <1>2, <1>5, <1>6, <1>7, <2>1 DEF KeysOK, FreshApart
<1>13. ReplacedApart'
  BY <1>2, <1>6, <1>7, <1>8 DEF KeysOK, ReplacedApart
<1>14. RemovedApart'
  <2>1. NoKey \notin 1..keys
    BY <1>1 DEF NoKey
  <2> QED
    BY <1>2, <1>5, <1>6, <1>7, <1>9, <2>1 DEF KeysOK, RemovedApart
<1>15. StationsOK'
  BY <1>2, <1>4 DEF KeysOK, StationsOK, Uploading
<1> QED
  BY <1>10, <1>11, <1>12, <1>13, <1>14, <1>15 DEF KeysOK

(* Only what nobody holds is removed.                                      *)
LEMMA ObjectWriters ==
  ASSUME [Next]_vars
  PROVE  UNCHANGED stored \/ \E s \in Session : StorageWrite(s)
<1>1. ASSUME NEW s \in Session, CatalogueWrite(s) PROVE UNCHANGED stored
  BY <1>1, CatalogueWriters
<1>2. ASSUME NEW s \in Session, MessageWrite(s) PROVE UNCHANGED stored
  BY <1>2 DEF MessageWrite, InsertMessage, StampRead, InsertReport, UpsertFavourite,
              RemoveFavourite, MarkRead, Continue, Begin
<1>3. ASSUME NEW p \in Supplier, QuoteArrives(p) PROVE UNCHANGED stored
  BY <1>3 DEF QuoteArrives, stored, storageVars
<1> QED
  BY <1>1, <1>2, <1>3, StepKinds DEF Quiet

LEMMA NoneLost ==
  ASSUME Base, KeysOK, [Next]_vars
  PROVE  /\ objects \cap (Filed \cup Pictures) \subseteq objects'
         /\ \A s \in Session : Fresh(handler[s]) => handler[s].kept.key \in objects'
<1>1. \A s \in Session : Fresh(handler[s]) => handler[s].kept.key \in objects
  BY DEF KeysOK, FreshApart
<1>2. CASE UNCHANGED stored
  BY <1>1, <1>2 DEF stored
<1>3. ASSUME NEW s \in Session, Put(s) \/ Fail(s) PROVE objects \subseteq objects'
  BY <1>3 DEF Put, Fail
<1>4. ASSUME NEW s \in Session, Discard(s)
      PROVE  /\ objects \cap (Filed \cup Pictures) \subseteq objects'
             /\ \A r \in Session : Fresh(handler[r]) => handler[r].kept.key \in objects'
  <2>1. Removing(handler[s]) /\ (UNCHANGED objects \/ objects' = objects \ {handler[s].kept.old})
    BY <1>4 DEF Discard, Removing, Kept
  <2>2. /\ handler[s].kept.old \notin Filed \cup Pictures
        /\ \A r \in Session : Fresh(handler[r]) => handler[r].kept.key # handler[s].kept.old
    BY <2>1 DEF KeysOK, RemovedApart
  <2> QED
    BY <1>1, <2>1, <2>2
<1> QED
  BY <1>1, <1>2, <1>3, <1>4, ObjectWriters DEF StorageWrite

(* Every step but those three is gentle.                                   *)
LEMMA Settled ==
  ASSUME KeysOK, NEW s \in Session, handler'[s] = handler[s] \/ handler'[s] = Idle
  PROVE  Gentle(s)
<1>1. CASE handler'[s] = handler[s]
  BY <1>1 DEF Gentle, KeysOK, StationsOK
<1>2. CASE handler'[s] = Idle
  BY <1>2 DEF Gentle, Fresh, Replacing, Removing, Idle, Uploading
<1> QED
  BY <1>1, <1>2

LEMMA CallIsGentle ==
  ASSUME Base, Base', KeysOK, NEW s \in Session, SessionCall(s)
  PROVE  Gentle(s)
<1> DEFINE h == handler'[s]
<1>1. CASE UNCHANGED handler
  BY <1>1, Settled
<1>2. CASE Opened(s) /\ OpenedBy(s)
  <2>1. StationOK(handler[s])'
    BY DEF Base, HandlersOK, HandlerOK
  <2>2. ASSUME h.route = "provider_image" PROVE Gentle(s)
    <3>1. PICK kind \in ImageKind : UploadProviderImage(s, kind)
      BY <1>2, <2>2 DEF OpenedBy
    <3>2. h.at = "put" /\ h.kept = Upload(kind, image[kind])
      BY <3>1, GoesTo DEF UploadProviderImage, Uploads
    <3>3. h.kept.ref = kind /\ h.kept.old = image[kind]
      BY <3>2 DEF Upload
    <3> HIDE DEF h
    <3>4. ~Fresh(h) /\ ~Removing(h)
      BY <3>2 DEF Fresh, Removing
    <3> QED
      BY <2>2, <3>2, <3>3, <3>4 DEF h, Gentle, UploadSteps
  <2>3. ASSUME h.route \in {"document", "service_image", "attachment"} PROVE Gentle(s)
    <3>1. \E ref : Uploads(s, "document", ref, NoKey) \/ Uploads(s, "service_image", ref, NoKey)
                   \/ Goes(s, "attachment", "put", ref)
      BY <1>2, <2>3 DEF OpenedBy, UploadProviderDocument, UploadServiceImage, SendAttachment
    <3>2. h.at = "put"
      BY <3>1, GoesTo DEF Uploads
    <3> HIDE DEF h
    <3> QED
      BY <2>3, <3>2 DEF h, Gentle, Fresh, Replacing, Removing, UploadSteps
  <2>4. ASSUME h.route = "message" PROVE Gentle(s)
    <3>1. PICK user \in User, a \in Anchor : Send(s, user, a)
      BY <1>2, <2>4 DEF OpenedBy
    <3>2. PICK to \in Recipients(user, a) :
            Goes(s, "message", "insert", Envelope(user, a, to, NoKey))
      BY <3>1 DEF Send
    <3>3. h.at = "insert" /\ h.kept.key = NoKey
      BY <3>2, GoesTo DEF Envelope
    <3> HIDE DEF h
    <3> QED
      BY <2>4, <3>3 DEF h, Gentle, Fresh, Replacing, Removing, Uploading
  <2>5. ASSUME h.route \notin Uploading, h.route # "message" PROVE Gentle(s)
    <3>1. h.at # "discard"
      BY <2>1, <2>5 DEF StationOK, Uploading
    <3> HIDE DEF h
    <3> QED
      BY <2>5, <3>1 DEF h, Gentle, Fresh, Replacing, Removing, Uploading
  <2> QED
    BY <2>2, <2>3, <2>4, <2>5 DEF Uploading
<1> QED
  BY <1>1, <1>2, CallsOpen

LEMMA StepIsGentle ==
  ASSUME Base, KeysOK, NEW s \in Session, SessionStep(s),
         ~Put(s) \/ Done(s), ~WriteProviderImage(s)
  PROVE  Gentle(s)
<1> DEFINE g == handler[s]
           h == handler'[s]
<1>1. ASSUME h = Idle PROVE Gentle(s)
  BY <1>1, Settled
<1>2. Done(s) => h = Idle
  BY DEF Done, Base, HandlersOK
<1>3. ASSUME NEW route \in {"close_profile", "move_category"}, h.route = route, h.at # "discard"
      PROVE  Gentle(s)
  BY <1>3 DEF Gentle, Fresh, Replacing, Removing, Uploading
<1>4. ASSUME CountBookings(s) PROVE Gentle(s)
  <2>1. CASE Goes(s, "close_profile", "write", <<>>)
    BY <1>3, <2>1, GoesTo
  <2> QED
    BY <1>1, <1>2, <1>4, <2>1 DEF CountBookings
<1>5. ASSUME Climb(s) PROVE Gentle(s)
  <2>1. Done(s) \/ \E at \in {"write", "climb"} : \E kept : Goes(s, "move_category", at, kept)
    BY <1>5 DEF Climb
  <2>2. ASSUME NEW at \in {"write", "climb"}, NEW kept, Goes(s, "move_category", at, kept)
        PROVE  Gentle(s)
    BY <1>3, <2>2, GoesTo
  <2> QED
    BY <1>1, <1>2, <2>1, <2>2
<1>6. ASSUME CountImages(s) PROVE Gentle(s)
  <2> DEFINE n == Cardinality(ImagesOf(g.kept.ref))
  <2>1. g.route = "service_image" /\ g.at = "row"
        /\ Goes(s, "service_image", "place", [g.kept EXCEPT !.old = n])
    BY <1>6 DEF CountImages, Continue, At, Kept
  <2>2. g.kept \in [ref : Listing, old : Nat, key : Nat]
    BY <2>1, InHandler DEF HandlerOK, KeepsFile
  <2> HIDE DEF n
  <2>3. h.route = "service_image" /\ h.at = "place" /\ h.kept.key = g.kept.key
    BY <2>1, <2>2, GoesTo
  <2> HIDE DEF g, h
  <2> QED
    BY <2>1, <2>3 DEF g, h, Gentle, Fresh, Replacing, Removing, Uploading, UploadSteps
<1>7. ASSUME ResolveAttachment(s) \/ (Fail(s) /\ ~Done(s)) PROVE Gentle(s)
  <2>1. g.route = "attachment" /\ g.at \in {"row", "place", "insert"}
    BY <1>7 DEF ResolveAttachment, Fail, Continue, At, KeysOK, StationsOK, Uploading, UploadSteps
  <2>2. g.kept \in Letter /\ Fresh(g)
    BY <2>1, InHandler DEF HandlerOK, KeepsMessage, Fresh, Uploading
  <2>3. \/ Goes(s, "attachment", "discard", [g.kept EXCEPT !.old = g.kept.key])
        \/ \E to : Goes(s, "attachment", "insert", [g.kept EXCEPT !.to = to])
    BY <1>7 DEF ResolveAttachment, Refuse, Fail, Kept
  <2>4. CASE Goes(s, "attachment", "discard", [g.kept EXCEPT !.old = g.kept.key])
    <3>1. h.route = "attachment" /\ h.at = "discard" /\ h.kept.old = g.kept.key
      BY <2>2, <2>4, GoesTo DEF Letter
    <3> HIDE DEF g, h
    <3> QED
      BY <2>2, <3>1 DEF g, h, Gentle, Fresh, Replacing, Removing, Uploading, UploadSteps
  <2>5. ASSUME NEW to, Goes(s, "attachment", "insert", [g.kept EXCEPT !.to = to]) PROVE Gentle(s)
    <3>1. h.route = "attachment" /\ h.at = "insert" /\ h.kept.key = g.kept.key
      BY <2>2, <2>5, GoesTo DEF Letter
    <3> HIDE DEF g, h
    <3> QED
      BY <2>2, <3>1 DEF g, h, Gentle, Fresh, Replacing, Removing, Uploading, UploadSteps
  <2> QED
    BY <2>3, <2>4, <2>5
<1> QED
  BY <1>1, <1>2, <1>4, <1>5, <1>6, <1>7, StepsLead

LEMMA AllGentle ==
  ASSUME Base, Base', KeysOK, [Next]_vars, NEW s \in Session
  PROVE  Gentle(s) \/ (Put(s) /\ ~Done(s)) \/ WriteProviderImage(s)
<1>1. CASE UNCHANGED handler \/ handler' = [r \in Session |-> Idle]
  BY <1>1, Settled
<1>2. ASSUME NEW r \in Session, Acts(r)
      PROVE  Gentle(s) \/ (Put(s) /\ ~Done(s)) \/ WriteProviderImage(s)
  <2>1. CASE r = s
    BY <1>2, <2>1, CallIsGentle, StepIsGentle DEF Acts
  <2>2. CASE r # s
    BY <1>2, <2>2, Settled DEF Acts
  <2> QED
    BY <2>1, <2>2
<1> QED
  BY <1>1, <1>2, OneActs

LEMMA KeysStep ==
  ASSUME Base, Base', KeysOK, [Next]_vars
  PROVE  KeysOK'
<1>1. CASE \E s \in Session : FilesKey(s)
  BY <1>1, FileKeeps
<1>2. CASE \E s \in Session : WriteProviderImage(s) /\ Filed' = Filed
  BY <1>2, PictureKeeps
<1>3. ASSUME UNCHANGED image, Filed' = Filed PROVE KeysOK'
  <2>1. CASE \A s \in Session : Gentle(s)
    BY <1>3, <2>1, NoneLost, StorageStep, GentleKeeps
  <2>2. CASE \E s \in Session : Put(s) /\ ~Done(s)
    BY <1>3, <2>2, PutKeeps
  <2>3. CASE \E s \in Session : WriteProviderImage(s)
    BY <1>3, <2>3, PictureKeeps
  <2> QED
    BY <2>1, <2>2, <2>3, AllGentle
<1> QED
  BY <1>1, <1>2, <1>3, FiledKinds

LEMMA KeysInit ==
  ASSUME Init
  PROVE  KeysOK
<1>1. /\ Filed = {} /\ objects = (IF scenario.profile THEN {1} ELSE {})
      /\ image = [kind \in ImageKind |->
                    IF scenario.profile /\ kind = "avatar" THEN 1 ELSE NoKey]
      /\ handler = [s \in Session |-> Idle]
  BY DEF Init, Filed, KeysOf
<1>2. RowsResolve
  BY <1>1 DEF RowsResolve, Pictures
<1>3. PicturesApart
  BY <1>1 DEF PicturesApart, ImageKind, NoKey
<1>4. ~Fresh(Idle) /\ ~Replacing(Idle) /\ ~Removing(Idle) /\ Idle.route = "none"
  BY DEF Fresh, Replacing, Removing, Idle, Uploading
<1>5. FreshApart /\ ReplacedApart /\ RemovedApart
  BY <1>1, <1>4 DEF FreshApart, ReplacedApart, RemovedApart
<1>6. StationsOK
  BY <1>1, <1>4 DEF StationsOK, Uploading
<1> QED
  BY <1>2, <1>3, <1>5, <1>6 DEF KeysOK

LEMMA PointedIsHeld == Pointed = (Filed \cup Pictures) \ {NoKey}
BY DEF Pointed, Filed, KeysOf, Attached

(* No picture, document, service image or attachment points at an object   *)
(* that is not there: whatever overlaps, wherever a request is cut off and *)
(* whenever storage fails, the object comes before its row and goes after  *)
(* it.  Nothing is said of the portfolio, whose keys the requests name.    *)
THEOREM UploadedRowsPointAtObjects == Spec => []PointersResolve
<1>1. Init => KeysOK
  BY KeysInit
<1>2. Base /\ Base' /\ KeysOK /\ [Next]_vars => KeysOK'
  BY KeysStep
<1>3. KeysOK => PointersResolve
  BY PointedIsHeld DEF KeysOK, RowsResolve, PointersResolve
<1> QED
  BY <1>1, <1>2, <1>3, BaseAlways, MarketplaceAssumption, PTL DEF Spec

-----------------------------------------------------------------------------
(* Nothing is left that no row points at *)

LEMMA AloneMeans ==
  ASSUME MarketplaceAssumption, NEW routes, Alone(routes), ~scenario.serial,
         NEW r \in Session, scenario.routes[r] \cap routes # {},
         NEW s \in Session, scenario.routes[s] \cap routes # {}
  PROVE  r = s
<1> DEFINE S == {q \in Session : scenario.routes[q] \cap routes # {}}
<1>1. IsFiniteSet(S) /\ Cardinality(S) < 2
  BY FS_Subset DEF Alone, MarketplaceAssumption
<1>2. SUFFICES ASSUME r # s PROVE FALSE
  OBVIOUS
<1>3. /\ IsFiniteSet({r}) /\ Cardinality({r}) = 1
      /\ Cardinality({r} \cup {s}) = Cardinality({r}) + 1
  BY <1>2, FS_Singleton, FS_AddElement
<1>4. {r} \cup {s} \subseteq S
  OBVIOUS
<1>5. Cardinality({r} \cup {s}) <= Cardinality(S) /\ Cardinality(S) \in Nat
  BY <1>1, <1>4, Fewer
<1> QED
  BY <1>1, <1>3, <1>5

LEMMA AloneKept ==
  ASSUME [Next]_vars, NEW routes
  PROVE  UNCHANGED scenario /\ Alone(routes)' = Alone(routes)
<1>1. UNCHANGED scenario
  BY StepKinds
<1> QED
  BY <1>1 DEF Alone

(* Of two requests under way, one is of another kind.                      *)
LEMMA OnlyOne ==
  ASSUME MarketplaceAssumption, Base, NEW route \in Routes, Alone({route}),
         NEW r \in Session, NEW s \in Session, handler[r].route = route, handler[s].route = route
  PROVE  r = s
<1>1. \A q \in {r, s} : handler[q].at # "idle" /\ route \in scenario.routes[q]
  <2> SUFFICES ASSUME NEW q \in {r, s}
               PROVE  handler[q].at # "idle" /\ route \in scenario.routes[q]
    OBVIOUS
  <2>1. route # "none" /\ handler[q].route = route
    BY DEF Routes
  <2>2. HandlerOK(handler[q]) /\ handler[q].route \in scenario.routes[q] \cup {"none"}
    BY DEF Base, HandlersOK
  <2> QED
    BY <2>1, <2>2 DEF HandlerOK, StationOK
<1>2. CASE scenario.serial
  BY <1>1, <1>2 DEF Base, HandlersOK
<1>3. CASE ~scenario.serial
  BY <1>1, <1>3, AloneMeans
<1> QED
  BY <1>2, <1>3

LEMMA CountsStep ==
  ASSUME CountsOK, [Next]_vars
  PROVE  /\ CountsOK' /\ faults' <= faults /\ restarts <= restarts'
         /\ Answered' => Answered
<1>1. UNCHANGED scenario
  BY StepKinds
<1>2. faults' \in 0..scenario.faults /\ faults' <= faults
  <2>1. CASE UNCHANGED stored
    BY <2>1 DEF stored, CountsOK
  <2>2. ASSUME NEW s \in Session, StorageWrite(s)
        PROVE  UNCHANGED faults \/ (faults > 0 /\ faults' = faults - 1)
    BY <2>2 DEF StorageWrite, Put, Discard, Fail
  <2> QED
    BY <2>1, <2>2, ObjectWriters DEF CountsOK
<1>3. restarts' \in Nat /\ restarts <= restarts'
  <2>1. UNCHANGED restarts \/ restarts' = restarts + 1
    BY DEF Next, CatalogueNext, MessagesNext, StorageNext, Restart, vars, boundVars
  <2> QED
    BY <2>1 DEF CountsOK
<1>4. CountsOK'
  BY <1>1, <1>2, <1>3 DEF CountsOK
<1>5. Answered' => Answered
  BY <1>1, <1>2, <1>3 DEF Answered, CountsOK
<1> QED
  BY <1>2, <1>3, <1>4, <1>5

(* Who can let go of a key that it holds.                                  *)
LEMMA FreshActs ==
  ASSUME NEW s \in Session, SessionStep(s), Fresh(handler[s])
  PROVE  \/ CountImages(s) \/ ResolveAttachment(s) \/ Fail(s) \/ WriteProviderImage(s)
         \/ CreateDocument(s) \/ CreateServiceImage(s) \/ InsertMessage(s)
<1>1. handler[s].route \in Uploading /\ handler[s].at \notin {"put", "discard"}
  BY DEF Fresh
<1>2. CASE ProfileStep(s)
  BY <1>1, <1>2 DEF ProfileStep, InsertProfile, WriteProfile, CountBookings, WriteClosed,
     InsertWeek, InsertPortfolioItem, Continue, At, Uploading
<1>3. ~ListingStep(s) /\ ~TreeStep(s)
  BY <1>1 DEF ListingStep, InsertListing, WriteListing, WriteRemoved, WriteModerated,
     WriteVerified, TreeStep, InsertCategory, Climb, WriteMove, HideCategory, DeleteCategory,
     Continue, At, Uploading
<1>4. CASE MessageStep(s)
  BY <1>1, <1>4 DEF MessageStep, StampRead, InsertReport, UpsertFavourite, Continue, At, Uploading
<1>5. CASE StorageWrite(s)
  BY <1>1, <1>5 DEF StorageWrite, Put, Discard
<1> QED
  BY <1>2, <1>3, <1>4, <1>5 DEF SessionStep

LEMMA RemovingActs ==
  ASSUME NEW s \in Session, SessionStep(s), Removing(handler[s])
  PROVE  Discard(s)
<1>1. handler[s].at = "discard"
  BY DEF Removing
<1>2. ~ProfileStep(s)
  BY <1>1 DEF ProfileStep, InsertProfile, WriteProfile, CountBookings, WriteClosed, InsertWeek,
     InsertPortfolioItem, WriteProviderImage, CreateDocument, CountImages, CreateServiceImage,
     Continue, At
<1>3. ~ListingStep(s) /\ ~TreeStep(s)
  BY <1>1 DEF ListingStep, InsertListing, WriteListing, WriteRemoved, WriteModerated,
     WriteVerified, TreeStep, InsertCategory, Climb, WriteMove, HideCategory, DeleteCategory,
     Continue, At
<1>4. ~MessageStep(s)
  BY <1>1 DEF MessageStep, ResolveAttachment, InsertMessage, StampRead, InsertReport,
     UpsertFavourite, Continue, At
<1> QED
  BY <1>1, <1>2, <1>3, <1>4 DEF SessionStep, StorageWrite, Put, Fail

LEMMA FilesItsKey ==
  ASSUME Base, NEW s \in Session, CreateDocument(s) \/ CreateServiceImage(s) \/ InsertMessage(s)
  PROVE  handler[s].kept.key \in Filed'
<1> DEFINE key == handler[s].kept.key
<1>1. documents \in Seq(DocumentRow) /\ gallery \in Seq(GalleryRow) /\ messages \in Seq(MessageRow)
  BY DEF Base, FilesOK, ThreadsOK
<1>2. CASE CreateDocument(s)
  <2> DEFINE row == [key |-> key, status |-> "PENDING"]
  <2>1. documents' = Append(documents, row) /\ row.key = key
    BY <1>2 DEF CreateDocument, Kept
  <2> HIDE DEF row
  <2>2. KeysOf(documents') = KeysOf(documents) \cup {key}
    BY <1>1, <2>1, AppendKeys
  <2> QED
    BY <2>2 DEF Filed
<1>3. CASE CreateServiceImage(s)
  <2> DEFINE row == [listing |-> Kept(s).ref, key |-> Kept(s).key, position |-> Kept(s).old]
  <2>1. gallery' = Append(gallery, row) /\ row.key = key
    BY <1>3 DEF CreateServiceImage, Kept
  <2> HIDE DEF row
  <2>2. KeysOf(gallery') = KeysOf(gallery) \cup {key}
    BY <1>1, <2>1, AppendKeys
  <2> QED
    BY <2>2 DEF Filed
<1>4. CASE InsertMessage(s)
  <2> DEFINE m == Kept(s)
             row == [anchor |-> m.anchor, from |-> m.from, to |-> m.to,
                     key |-> m.key, read |-> FALSE, shown |-> FALSE]
  <2>1. messages' = Append(messages, row) /\ row.key = key
    BY <1>4 DEF InsertMessage, Kept
  <2> HIDE DEF row
  <2>2. KeysOf(messages') = KeysOf(messages) \cup {key}
    BY <1>1, <2>1, AppendKeys
  <2> QED
    BY <2>2 DEF Filed
<1> QED
  BY <1>2, <1>3, <1>4

(* While storage answers, the request that holds a key acts on it.         *)
LEMMA HolderActs ==
  ASSUME Base, KeysOK, CountsOK, [Next]_vars, Answered', NEW s \in Session,
         Fresh(handler[s]) \/ Removing(handler[s]), handler'[s] # handler[s]
  PROVE  SessionStep(s) /\ ~Fail(s)
<1>1. Answered
  BY CountsStep
<1>2. handler[s].at # "idle"
  BY DEF Fresh, Removing
<1>3. ~(restarts' = restarts + 1)
  BY <1>1 DEF Answered
<1>4. ~Fail(s)
  <2>1. faults' = scenario.faults /\ faults = scenario.faults /\ scenario.faults \in Nat
    BY <1>1, StepKinds DEF Answered, CountsOK
  <2> QED
    BY <2>1 DEF Fail
<1>5. Acts(s)
  BY <1>3, OneActs DEF Acts
<1> QED
  BY <1>2, <1>4, <1>5, CallsOpen DEF Acts

LEMMA FreshStaysHeld ==
  ASSUME Base, KeysOK, CountsOK, [Next]_vars, Answered', NEW s \in Session, Fresh(handler[s])
  PROVE  handler[s].kept.key \in Held'
<1> DEFINE g == handler[s]
           h == handler'[s]
           key == g.kept.key
<1>1. CASE h = g
  BY <1>1 DEF Held, Fresh
<1>2. ASSUME h # g PROVE key \in Held'
  <2>1. \/ CountImages(s) \/ ResolveAttachment(s) \/ WriteProviderImage(s)
        \/ CreateDocument(s) \/ CreateServiceImage(s) \/ InsertMessage(s)
    BY <1>2, HolderActs, FreshActs
  <2>2. CASE CreateDocument(s) \/ CreateServiceImage(s) \/ InsertMessage(s)
    BY <2>2, FilesItsKey DEF Held
  <2>3. CASE WriteProviderImage(s)
    <3>1. g.route = "provider_image" /\ image' = [image EXCEPT ![g.kept.ref] = key]
      BY <2>3 DEF WriteProviderImage, Continue, At, Kept
    <3>2. g.kept.ref \in ImageKind /\ DOMAIN image = ImageKind
      BY <3>1, InHandler DEF HandlerOK, KeepsFile, Base, FilesOK
    <3>3. key = image'[g.kept.ref]
      BY <3>1, <3>2
    <3> QED
      BY <3>2, <3>3 DEF Held, Pictures
  <2>4. CASE CountImages(s)
    <3> DEFINE n == Cardinality(ImagesOf(g.kept.ref))
    <3>1. g.route = "service_image" /\ Goes(s, "service_image", "place", [g.kept EXCEPT !.old = n])
      BY <2>4 DEF CountImages, Continue, At, Kept
    <3>2. g.kept \in [ref : Listing, old : Nat, key : Nat]
      BY <3>1, InHandler DEF HandlerOK, KeepsFile
    <3> HIDE DEF n
    <3>3. h.route = "service_image" /\ h.at = "place" /\ h.kept.key = key
      BY <3>1, <3>2, GoesTo
    <3> QED
      BY <3>3 DEF Held, Fresh, Uploading
  <2>5. CASE ResolveAttachment(s)
    <3>1. g.route = "attachment"
      BY <2>5 DEF ResolveAttachment, Continue, At
    <3>2. g.kept \in Letter
      BY <3>1, InHandler DEF HandlerOK, KeepsMessage
    <3>3. CASE Goes(s, "attachment", "discard", [g.kept EXCEPT !.old = g.kept.key])
      <4>1. h.at = "discard" /\ h.kept.old = key
        BY <3>2, <3>3, GoesTo DEF Letter
      <4> QED
        BY <4>1 DEF Held, Removing
    <3>4. ASSUME NEW to, Goes(s, "attachment", "insert", [g.kept EXCEPT !.to = to])
          PROVE  key \in Held'
      <4>1. h.route = "attachment" /\ h.at = "insert" /\ h.kept.key = key
        BY <3>2, <3>4, GoesTo DEF Letter
      <4> QED
        BY <4>1 DEF Held, Fresh, Uploading
    <3> QED
      BY <2>5, <3>3, <3>4 DEF ResolveAttachment, Refuse, Kept
  <2> QED
    BY <2>1, <2>2, <2>3, <2>4, <2>5
<1> QED
  BY <1>1, <1>2

(* What a request that replaces a picture remembers is what the row holds, *)
(* while no other replaces one.                                            *)
LEMMA ReplacingStep ==
  ASSUME MarketplaceAssumption, Base, Base', KeysOK, HeldOK, [Next]_vars,
         Alone({"provider_image"}), Answered, NEW s \in Session, Replacing(handler[s])'
  PROVE  handler'[s].kept.old = image'[handler'[s].kept.ref]
<1> DEFINE g == handler[s]
           h == handler'[s]
<1>1. h.route = "provider_image" /\ h.at \in {"put", "row"}
  BY DEF Replacing
<1>2. ASSUME NEW r \in Session, WriteProviderImage(r) PROVE FALSE
  <2>1. /\ handler[r].route = "provider_image"
        /\ \A q \in Session \ {r} : handler'[q] = handler[q]
        /\ handler'[r].at \in {"idle", "discard"}
    BY <1>2 DEF WriteProviderImage, Continue, At, Replaces, Done, Goes, Idle, Base, HandlersOK
  <2>2. r # s
    BY <1>1, <2>1
  <2>3. g.route = "provider_image"
    BY <1>1, <2>1, <2>2
  <2> QED
    BY <2>1, <2>2, <2>3, OnlyOne DEF Routes
<1>3. UNCHANGED image
  BY <1>2, Writers
<1>4. CASE Gentle(s)
  <2>1. CASE Replacing(g) /\ h.kept.ref = g.kept.ref /\ h.kept.old = g.kept.old
    BY <1>3, <2>1 DEF HeldOK
  <2>2. CASE h.kept.old = image[h.kept.ref]
    BY <1>3, <2>2
  <2> QED
    BY <1>4, <2>1, <2>2 DEF Gentle
<1>5. CASE Put(s) /\ ~Done(s)
  <2>1. g.at = "put" /\ h = HandlerAt(g.route, "row", [g.kept EXCEPT !.key = keys'])
    BY <1>5, GoesTo DEF Put, Kept
  <2>2. g.route = "provider_image"
    BY <1>1, <2>1 DEF HandlerAt
  <2>3. g.kept \in [ref : ImageKind, old : Nat, key : Nat]
    BY <2>2, InHandler DEF HandlerOK, KeepsFile
  <2>4. h.kept.ref = g.kept.ref /\ h.kept.old = g.kept.old
    BY <2>1, <2>3 DEF HandlerAt
  <2> QED
    BY <1>3, <2>1, <2>2, <2>4 DEF HeldOK, Replacing
<1> QED
  BY <1>2, <1>4, <1>5, AllGentle

LEMMA HeldStep ==
  ASSUME MarketplaceAssumption, Base, Base', KeysOK, CountsOK, HeldOK, [Next]_vars
  PROVE  HeldOK'
<1> SUFFICES ASSUME Alone({"provider_image"})', Answered'
             PROVE  /\ objects' \subseteq Held'
                    /\ \A s \in Session : Replacing(handler[s])'
                         => handler'[s].kept.old = image'[handler'[s].kept.ref]
  BY DEF HeldOK
<1>1. Alone({"provider_image"}) /\ Answered
  BY AloneKept, CountsStep
<1>2. \A s \in Session : Replacing(handler[s])'
        => handler'[s].kept.old = image'[handler'[s].kept.ref]
  BY <1>1, ReplacingStep
<1>3. objects \subseteq Held /\ objects \subseteq 1..keys /\ keys \in Nat
  BY <1>1 DEF HeldOK, Base, StorageOK
<1> SUFFICES ASSUME NEW x \in objects' PROVE x \in Held'
  BY <1>2
<1>4. ASSUME x \notin objects PROVE x \in Held'
  <2>1. PICK s \in Session : Put(s)
    BY <1>4, ObjectWriters DEF stored, StorageWrite, Discard, Fail
  <2>2. ~(faults > 0 /\ faults' = faults - 1)
    BY <1>1, StepKinds DEF Answered, CountsOK
  <2>3. /\ objects' = objects \cup {keys'}
        /\ Goes(s, handler[s].route, "row", [Kept(s) EXCEPT !.key = keys'])
    BY <2>1, <2>2 DEF Put
  <2>4. handler'[s] = HandlerAt(handler[s].route, "row", [handler[s].kept EXCEPT !.key = keys'])
    BY <2>3, GoesTo DEF Kept
  <2>5. handler[s].route \in Uploading /\ HandlerOK(handler[s])
    BY <2>1, InHandler DEF Put, HandlerOK, StationOK
  <2>6. [handler[s].kept EXCEPT !.key = keys'].key = keys'
    BY <2>5 DEF HandlerOK, KeepsFile, KeepsMessage, Uploading, Letter
  <2>7. Fresh(handler'[s]) /\ handler'[s].kept.key = keys' /\ x = keys'
    <3>1. /\ handler'[s].route = handler[s].route /\ handler'[s].at = "row"
          /\ handler'[s].kept = [handler[s].kept EXCEPT !.key = keys']
      BY <2>4 DEF HandlerAt
    <3>2. handler'[s].kept.key = keys'
      BY <2>6, <3>1
    <3> QED
      BY <1>4, <2>3, <2>5, <3>1, <3>2 DEF Fresh
  <2> QED
    BY <2>7 DEF Held, Fresh
<1>5. ASSUME x \in Filed PROVE x \in Held'
  <2>1. Filed \subseteq Filed'
    BY FiledGrows, FiledKinds
  <2> QED
    BY <1>5, <2>1 DEF Held
<1>6. ASSUME NEW kind \in ImageKind, x = image[kind], x \in objects PROVE x \in Held'
  <2>1. CASE image'[kind] = image[kind]
    BY <1>6, <2>1 DEF Held, Pictures
  <2>2. ASSUME NEW s \in Session, WriteProviderImage(s), image'[kind] # image[kind]
        PROVE  x \in Held'
    <3>1. /\ handler[s].route = "provider_image" /\ handler[s].at = "row" /\ Replaces(s)
          /\ image' = [image EXCEPT ![handler[s].kept.ref] = handler[s].kept.key]
      BY <2>2 DEF WriteProviderImage, Continue, At, Kept
    <3>2. kind = handler[s].kept.ref /\ handler[s].kept.old = image[kind]
      <4>1. kind = handler[s].kept.ref
        BY <2>2, <3>1 DEF Base, FilesOK
      <4> QED
        BY <1>1, <3>1, <4>1 DEF HeldOK, Replacing
    <3>3. x # NoKey
      BY <1>3, <1>6 DEF NoKey
    <3>4. Goes(s, handler[s].route, "discard", handler[s].kept)
      BY <1>6, <3>1, <3>2, <3>3 DEF Replaces, Kept
    <3>5. handler'[s].at = "discard" /\ handler'[s].kept.old = x
      BY <1>6, <3>2, <3>4, GoesTo
    <3> QED
      BY <3>5 DEF Held, Removing
  <2> QED
    BY <2>1, <2>2, Writers
<1>7. ASSUME NEW s \in Session, Fresh(handler[s]), x = handler[s].kept.key PROVE x \in Held'
  BY <1>7, FreshStaysHeld
<1>8. ASSUME NEW s \in Session, Removing(handler[s]), x = handler[s].kept.old PROVE x \in Held'
  <2>1. CASE handler'[s] = handler[s]
    BY <1>8, <2>1 DEF Held, Removing
  <2>2. CASE handler'[s] # handler[s]
    <3>1. Discard(s)
      BY <1>8, <2>2, HolderActs, RemovingActs
    <3>2. ~(faults > 0 /\ faults' = faults - 1)
      BY <1>1, StepKinds DEF Answered, CountsOK
    <3>3. objects' = objects \ {handler[s].kept.old}
      BY <3>1, <3>2 DEF Discard, Kept
    <3> QED
      BY <1>8, <3>3
  <2> QED
    BY <2>1, <2>2
<1> QED
  BY <1>3, <1>4, <1>5, <1>6, <1>7, <1>8 DEF Held, Pictures

LEMMA HeldInit ==
  ASSUME MarketplaceAssumption, Init
  PROVE  CountsOK /\ HeldOK
<1>1. scenario \in ScenarioType
  BY DEF Init, MarketplaceAssumption
<1>2. scenario.faults \in Nat /\ faults = scenario.faults /\ restarts = 0
  BY <1>1 DEF Init, ScenarioType
<1>3. /\ objects = (IF scenario.profile THEN {1} ELSE {})
      /\ image = [kind \in ImageKind |->
                    IF scenario.profile /\ kind = "avatar" THEN 1 ELSE NoKey]
      /\ handler = [s \in Session |-> Idle]
  BY DEF Init
<1>4. objects \subseteq Held
  BY <1>3 DEF Held, Pictures, ImageKind
<1>5. \A s \in Session : ~Replacing(handler[s])
  BY <1>3 DEF Replacing, Idle
<1> QED
  BY <1>2, <1>4, <1>5 DEF CountsOK, HeldOK

(* Once every request is over nothing is left in storage that no row an    *)
(* upload writes points at, as long as storage and the database answered   *)
(* and no two replaced the pictures of the profile at once.                *)
THEOREM StorageIsTidy == Spec => []NothingIsOrphaned
<1>1. Init => KeysOK /\ CountsOK /\ HeldOK
  BY KeysInit, HeldInit, MarketplaceAssumption
<1>2. Base /\ Base' /\ KeysOK /\ CountsOK /\ HeldOK /\ [Next]_vars
        => KeysOK' /\ CountsOK' /\ HeldOK'
  BY KeysStep, CountsStep, HeldStep, MarketplaceAssumption
<1>3. Base /\ KeysOK /\ HeldOK => NothingIsOrphaned
  <2> SUFFICES ASSUME Base, KeysOK, HeldOK, Alone({"provider_image"}), Answered,
                      \A s \in Session : handler[s].at = "idle"
               PROVE  objects = Pointed
    BY DEF NothingIsOrphaned, Answered
  <2>1. \A s \in Session : ~Fresh(handler[s]) /\ ~Removing(handler[s])
    BY DEF Fresh, Removing
  <2>2. objects \subseteq Filed \cup Pictures
    BY <2>1 DEF HeldOK, Held
  <2>3. NoKey \notin objects
    BY DEF Base, StorageOK, NoKey
  <2>4. Pointed \subseteq objects
    BY PointedIsHeld DEF KeysOK, RowsResolve
  <2> QED
    BY <2>2, <2>3, <2>4, PointedIsHeld
<1> QED
  BY <1>1, <1>2, <1>3, BaseAlways, MarketplaceAssumption, PTL DEF Spec
=============================================================================
