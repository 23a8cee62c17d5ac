-------------------------- MODULE MarketplaceProofs --------------------------
(***************************************************************************)
(* Proofs about Marketplace, for any number of sessions, listings and      *)
(* categories, any limits and any set of scenarios: what every row refers  *)
(* to exists, a listing that was taken down does not come straight back    *)
(* into the public list, and who asks for the first page of a thread has   *)
(* seen the newest message before it is marked read.                       *)
(*                                                                         *)
(* A request acts on what it read some statements ago.  What it can still  *)
(* rely on is that profiles and listings, once there, are never removed,   *)
(* and that the foreign keys are looked at again by the statement that     *)
(* writes.  The invariant says that of every request under way.            *)
(***************************************************************************)
EXTENDS Marketplace, FiniteSetTheorems, TLAPS

-----------------------------------------------------------------------------
(* The inductive invariant *)

ProviderRow ==
  [exists : BOOLEAN, closed : BOOLEAN, suspended : BOOLEAN,
   status : {"UNVERIFIED", "APPROVED", "REJECTED"}, accepting : BOOLEAN]

ListingRow ==
  [exists : BOOLEAN, status : {"ACTIVE", "DRAFT", "PAUSED", "ARCHIVED"},
   deleted : BOOLEAN, category : Category \cup {NoCategory}]

WeekRow == [hour : Hours, save : Nat]
DocumentRow == [key : Nat, status : {"PENDING", "APPROVED", "REJECTED"}]
GalleryRow == [listing : Listing, key : Nat, position : Nat]

MessageRow ==
  [anchor : Anchor, from : User, to : User, key : Nat, read : BOOLEAN, shown : BOOLEAN]

NoticeRow == [to : User, read : BOOLEAN]

WorkKey == Nat \cup {ForeignKey}

ProviderOK == provider \in ProviderRow /\ (provider.exists \/ provider = NoProfile)

WeekOK ==
  /\ week \in [saves : Nat, rows : SUBSET WeekRow]
  /\ \A row \in week.rows : row.save \in 1..week.saves

FilesOK ==
  /\ image \in [ImageKind -> Nat]
  /\ portfolio \in Seq(WorkKey)
  /\ documents \in Seq(DocumentRow)
  /\ gallery \in Seq(GalleryRow)
  /\ \A i \in 1..Len(gallery) : listing[gallery[i].listing].exists

ListingsOK ==
  /\ listing \in [Listing -> ListingRow]
  /\ \A v \in Listing :
       IF listing[v].exists
       THEN listing[v].category \in Category /\ category[listing[v].category].exists
       ELSE listing[v] = NoListing

TreeOK ==
  /\ category \in [Category -> CategoryRow]
  /\ \A c \in Category :
       IF category[c].exists THEN Exists(category[c].parent)
                             ELSE category[c] \in {NoRow, Deleted}

ThreadsOK ==
  /\ request \in [to : {"nobody"} \cup Supplier, quoted : SUBSET Supplier]
  /\ messages \in Seq(MessageRow)
  /\ \A i \in 1..Len(messages) : messages[i].from # messages[i].to
  /\ notices \in Seq(NoticeRow)
  /\ Len(notices) = Len(messages)

StorageOK == keys \in Nat /\ objects \subseteq 1..keys

(* What a request under way has kept, and still relies on.                 *)
Uploading == {"provider_image", "document", "service_image", "attachment"}

Letter == [anchor : Anchor, from : User, to : User, old : Nat, key : Nat]
Climber ==
  [id : Category, parent : Category \cup {NoCategory},
   cursor : Category \cup {NoCategory}, depth : Nat]

StationOK(h) ==
  /\ h.route \in Routes \cup {"none"}
  /\ h.at = "idle" <=> h.route = "none"
  /\ h.at = "put" => h.route \in Uploading
  /\ h.at = "discard" => h.route \in {"provider_image", "attachment"}

KeepsFile(h) ==
  /\ h.route = "provider_image" => h.kept \in [ref : ImageKind, old : Nat, key : Nat]
  /\ h.route = "document" => h.kept \in [ref : {0}, old : Nat, key : Nat]
  /\ h.route = "service_image" => /\ h.kept \in [ref : Listing, old : Nat, key : Nat]
                                  /\ listing[h.kept.ref].exists

KeepsProfile(h) ==
  /\ h.route \in {"update_profile", "close_profile", "verify"} => provider.exists
  /\ h.route = "update_profile" => h.kept \in BOOLEAN
  /\ h.route = "set_week" => h.kept \in [old : SUBSET WeekRow, new : SUBSET Hours]
  /\ h.route = "verify" => h.kept \in {"APPROVED", "REJECTED"}
  /\ h.route = "add_work" => h.kept \in WorkKey

KeepsListing(h) ==
  /\ h.route = "create_listing"
       => h.kept \in [id : Listing, status : {"ACTIVE", "DRAFT"}, category : Category]
  /\ h.route = "update_listing"
       => /\ h.kept \in [id : Listing, status : Patches, category : Category \cup {NoCategory}]
          /\ listing[h.kept.id].exists
  /\ h.route = "remove_listing" => h.kept \in Listing /\ listing[h.kept].exists
  /\ h.route = "moderate"
       => /\ h.kept \in [id : Listing, action : {"TAKE_DOWN", "PAUSE", "REINSTATE"}]
          /\ listing[h.kept.id].exists

KeepsCategory(h) ==
  /\ h.route = "create_category"
       => h.kept \in [id : Category, parent : Category \cup {NoCategory}]
  /\ h.route = "move_category" => h.kept \in Climber
  /\ h.route = "remove_category" => h.kept \in Category

KeepsMessage(h) ==
  /\ h.route \in {"message", "attachment"} => h.kept \in Letter
  /\ h.route \in {"message", "attachment"} /\ h.at = "insert" => h.kept.from # h.kept.to
  /\ h.route = "thread" => h.kept \in [user : User, anchor : Anchor, page : SUBSET Nat]

HandlerOK(h) ==
  /\ StationOK(h)
  /\ KeepsFile(h) /\ KeepsProfile(h) /\ KeepsListing(h) /\ KeepsCategory(h)
  /\ KeepsMessage(h)

HandlersOK ==
  /\ DOMAIN handler = Session
  /\ \A s \in Session :
       /\ HandlerOK(handler[s])
       /\ handler[s].route \in scenario.routes[s] \cup {"none"}
  /\ scenario.serial =>
       \A r, s \in Session : r # s => handler[r].at = "idle" \/ handler[s].at = "idle"

ScenarioOK == scenario \in Scenarios

Base ==
  /\ ProviderOK /\ WeekOK /\ FilesOK /\ ListingsOK /\ TreeOK /\ ThreadsOK
  /\ StorageOK /\ HandlersOK /\ ScenarioOK

-----------------------------------------------------------------------------
(* Which steps write, and what *)

RemovesWork(s) == \E i \in DOMAIN portfolio : RemovePortfolioItem(s, i)

CatalogueWrite(s) ==
  \/ InsertProfile(s) \/ WriteProfile(s) \/ WriteClosed(s) \/ InsertWeek(s)
  \/ InsertPortfolioItem(s) \/ RemovesWork(s)
  \/ WriteProviderImage(s) \/ CreateDocument(s) \/ CreateServiceImage(s)
  \/ InsertListing(s) \/ WriteListing(s) \/ WriteRemoved(s) \/ WriteModerated(s)
  \/ SuspendProvider(s) \/ ReinstateProvider(s) \/ WriteVerified(s)
  \/ \E i \in DOMAIN documents, d \in {"APPROVED", "REJECTED"} : ReviewDocument(s, i, d)
  \/ InsertCategory(s) \/ WriteMove(s) \/ HideCategory(s) \/ DeleteCategory(s)
  \/ \E c \in Category, active \in BOOLEAN : ShowCategory(s, c, active)

MessageWrite(s) ==
  \/ InsertMessage(s) \/ StampRead(s) \/ InsertReport(s) \/ UpsertFavourite(s)
  \/ RemoveFavourite(s)
  \/ \E user \in User, ids \in SUBSET DOMAIN notices : MarkRead(s, user, ids)

StorageWrite(s) == Put(s) \/ Discard(s) \/ Fail(s)

LEMMA CallKinds ==
  ASSUME NEW s \in Session
  PROVE  /\ ProfileCall(s) \/ ListingCall(s) \/ AdminCall(s) \/ TreeCall(s)
              => UNCHANGED <<stored, catalogueVars>> \/ CatalogueWrite(s)
         /\ MessageCall(s) \/ FavouriteCall(s)
              => UNCHANGED <<stored, messageVars>> \/ MessageWrite(s)
<1>1. ProfileCall(s) => UNCHANGED <<stored, catalogueVars>> \/ RemovesWork(s)
  BY DEF ProfileCall, Begin, CreateProfile, UpdateProfile, CloseProfile,
         SetAvailability, AddPortfolioItem, RemovesWork, UploadProviderImage,
         UploadProviderDocument, UploadServiceImage
<1>2. ListingCall(s) => UNCHANGED <<stored, catalogueVars>>
  BY DEF ListingCall, Begin, CreateListing, UpdateListing, RemoveListing
<1>3. AdminCall(s) => UNCHANGED <<stored, catalogueVars>> \/ CatalogueWrite(s)
  BY DEF AdminCall, Begin, ModerateService, VerifyProvider, CatalogueWrite
<1>4. TreeCall(s) => UNCHANGED <<stored, catalogueVars>> \/ CatalogueWrite(s)
  BY DEF TreeCall, Begin, CreateCategory, MoveCategory, RemoveCategory, CatalogueWrite
<1>5. MessageCall(s) \/ FavouriteCall(s) => UNCHANGED <<stored, messageVars>> \/ MessageWrite(s)
  BY DEF MessageCall, FavouriteCall, Begin, Send, SendAttachment, ReadThread, Report,
         AddFavourite, MessageWrite
<1> QED
  BY <1>1, <1>2, <1>3, <1>4, <1>5 DEF CatalogueWrite

LEMMA StepsOnlyMove ==
  ASSUME NEW s \in Session
  PROVE  /\ CountBookings(s) \/ CountImages(s) \/ Climb(s)
              => UNCHANGED <<stored, catalogueVars>>
         /\ ResolveAttachment(s) => UNCHANGED <<stored, messageVars>>
BY DEF CountBookings, CountImages, Climb, ResolveAttachment, Continue

Quiet == UNCHANGED <<stored, catalogueVars, messageVars>>

LEMMA StepKinds ==
  ASSUME [Next]_vars
  PROVE  /\ UNCHANGED scenario
         /\ \/ Quiet
            \/ \E s \in Session : CatalogueWrite(s) /\ UNCHANGED messageVars
            \/ \E s \in Session : MessageWrite(s) /\ UNCHANGED catalogueVars
            \/ \E p \in Supplier : QuoteArrives(p) /\ UNCHANGED catalogueVars
            \/ \E s \in Session : StorageWrite(s) /\ UNCHANGED <<catalogueVars, messageVars>>
<1> DEFINE Kinds ==
             /\ UNCHANGED scenario
             /\ \/ Quiet
                \/ \E s \in Session : CatalogueWrite(s) /\ UNCHANGED messageVars
                \/ \E s \in Session : MessageWrite(s) /\ UNCHANGED catalogueVars
                \/ \E p \in Supplier : QuoteArrives(p) /\ UNCHANGED catalogueVars
                \/ \E s \in Session : StorageWrite(s) /\ UNCHANGED <<catalogueVars, messageVars>>
<1>1. CASE CatalogueNext
  <2>1. UNCHANGED <<messageVars, scenario>>
    BY <1>1 DEF CatalogueNext
  <2>2. PICK s \in Session :
          \/ ProfileCall(s) \/ ListingCall(s) \/ AdminCall(s) \/ TreeCall(s)
          \/ ProfileStep(s) \/ ListingStep(s) \/ TreeStep(s)
    BY <1>1 DEF CatalogueNext
  <2>3. UNCHANGED <<stored, catalogueVars>> \/ CatalogueWrite(s)
    BY <2>2, CallKinds, StepsOnlyMove
       DEF ProfileStep, ListingStep, TreeStep, CatalogueWrite
  <2> QED
    BY <2>1, <2>3 DEF Quiet
<1>2. CASE MessagesNext
  <2>1. UNCHANGED <<catalogueVars, scenario>>
    BY <1>2 DEF MessagesNext
  <2>2. CASE \E p \in Supplier : QuoteArrives(p)
    BY <2>1, <2>2
  <2>3. ASSUME NEW s \in Session, MessageCall(s) \/ FavouriteCall(s) \/ MessageStep(s)
        PROVE  UNCHANGED <<stored, messageVars>> \/ MessageWrite(s)
    BY <2>3, CallKinds, StepsOnlyMove DEF MessageStep, MessageWrite
  <2> QED
    BY <1>2, <2>1, <2>2, <2>3 DEF MessagesNext, Quiet
<1>3. CASE StorageNext
  BY <1>3 DEF StorageNext, StorageWrite, boundVars
<1>4. CASE Restart
  BY <1>4 DEF Restart, Quiet
<1>5. CASE UNCHANGED vars
  BY <1>5 DEF vars, storageVars, stored, boundVars, Quiet
<1> QED
  BY <1>1, <1>2, <1>3, <1>4, <1>5 DEF Next

(* The rows of each table, and who writes them.                            *)
WritesProvider(s) ==
  \/ InsertProfile(s) \/ WriteProfile(s) \/ WriteClosed(s) \/ SuspendProvider(s)
  \/ ReinstateProvider(s) \/ WriteVerified(s)

WritesListing(s) ==
  \/ WriteClosed(s) \/ InsertListing(s) \/ WriteListing(s) \/ WriteRemoved(s)
  \/ WriteModerated(s)

WritesCategory(s) ==
  \/ InsertCategory(s) \/ WriteMove(s) \/ HideCategory(s) \/ DeleteCategory(s)
  \/ \E c \in Category, active \in BOOLEAN : ShowCategory(s, c, active)

LEMMA CatalogueWriters ==
  ASSUME NEW s \in Session, CatalogueWrite(s)
  PROVE  /\ UNCHANGED provider \/ WritesProvider(s)
         /\ UNCHANGED image \/ WriteProviderImage(s)
         /\ UNCHANGED week \/ InsertWeek(s)
         /\ UNCHANGED portfolio \/ InsertPortfolioItem(s) \/ RemovesWork(s)
         /\ \/ UNCHANGED documents \/ CreateDocument(s)
            \/ \E i \in DOMAIN documents, d \in {"APPROVED", "REJECTED"} : ReviewDocument(s, i, d)
         /\ UNCHANGED listing \/ WritesListing(s)
         /\ UNCHANGED gallery \/ CreateServiceImage(s)
         /\ UNCHANGED category \/ WritesCategory(s)
         /\ UNCHANGED stored
<1>1. CASE InsertProfile(s) \/ WriteProfile(s) \/ SuspendProvider(s)
           \/ ReinstateProvider(s) \/ WriteVerified(s)
  BY <1>1 DEF InsertProfile, WriteProfile, SuspendProvider, ReinstateProvider,
              WriteVerified, WritesProvider, Continue, Begin
<1>2. CASE WriteClosed(s)
  BY <1>2 DEF WriteClosed, WritesProvider, WritesListing, Continue
<1>3. CASE InsertWeek(s) \/ InsertPortfolioItem(s) \/ RemovesWork(s)
           \/ WriteProviderImage(s) \/ CreateDocument(s) \/ CreateServiceImage(s)
  BY <1>3 DEF InsertWeek, InsertPortfolioItem, RemovesWork, RemovePortfolioItem, WriteProviderImage,
              CreateDocument, CreateServiceImage, Continue, Begin, profileVars
<1>4. CASE InsertListing(s) \/ WriteListing(s) \/ WriteRemoved(s) \/ WriteModerated(s)
  BY <1>4 DEF InsertListing, WriteListing, WriteRemoved, WriteModerated, WritesListing,
              Continue, profileVars
<1>5. CASE \E i \in DOMAIN documents, d \in {"APPROVED", "REJECTED"} : ReviewDocument(s, i, d)
  BY <1>5 DEF ReviewDocument, Begin
<1>6. CASE InsertCategory(s) \/ WriteMove(s) \/ HideCategory(s) \/ DeleteCategory(s)
           \/ \E c \in Category, active \in BOOLEAN : ShowCategory(s, c, active)
  BY <1>6 DEF InsertCategory, WriteMove, HideCategory, DeleteCategory, ShowCategory,
              WritesCategory, Continue, Begin, treeOnly, profileVars
<1> QED
  BY <1>1, <1>2, <1>3, <1>4, <1>5, <1>6 DEF CatalogueWrite

(* The same of any step.                                                   *)
LEMMA Writers ==
  ASSUME [Next]_vars
  PROVE  /\ UNCHANGED provider \/ \E s \in Session : WritesProvider(s)
         /\ UNCHANGED image \/ \E s \in Session : WriteProviderImage(s)
         /\ UNCHANGED week \/ \E s \in Session : InsertWeek(s)
         /\ \/ UNCHANGED portfolio
            \/ \E s \in Session : InsertPortfolioItem(s) \/ RemovesWork(s)
         /\ \/ UNCHANGED documents
            \/ \E s \in Session :
                 \/ CreateDocument(s)
                 \/ \E i \in DOMAIN documents, d \in {"APPROVED", "REJECTED"} :
                      ReviewDocument(s, i, d)
         /\ UNCHANGED listing \/ \E s \in Session : WritesListing(s)
         /\ UNCHANGED gallery \/ \E s \in Session : CreateServiceImage(s)
         /\ UNCHANGED category \/ \E s \in Session : WritesCategory(s)
<1>1. UNCHANGED catalogueVars \/ \E s \in Session : CatalogueWrite(s)
  BY StepKinds DEF Quiet
<1>2. CASE UNCHANGED catalogueVars
  BY <1>2 DEF catalogueVars, profileVars
<1>3. CASE \E s \in Session : CatalogueWrite(s)
  BY <1>3, CatalogueWriters
<1> QED
  BY <1>1, <1>2, <1>3

-----------------------------------------------------------------------------
(* Each table keeps its type; profiles and listings are never removed      *)

LEMMA ShorterWork ==
  ASSUME NEW S, NEW seq \in Seq(S), NEW i \in DOMAIN seq
  PROVE  RemoveAt(seq, i) \in Seq(S) /\ Len(RemoveAt(seq, i)) = Len(seq) - 1
<1> DEFINE left == SubSeq(seq, 1, i - 1)
           right == SubSeq(seq, i + 1, Len(seq))
<1>1. i \in 1..Len(seq) /\ Len(seq) \in Nat
  OBVIOUS
<1>2. left \in Seq(S) /\ Len(left) = i - 1
  BY <1>1
<1>3. right \in Seq(S) /\ Len(right) = Len(seq) - i
  BY <1>1
<1> HIDE DEF left, right
<1>4. left \o right \in Seq(S) /\ Len(left \o right) = Len(seq) - 1
  BY <1>1, <1>2, <1>3
<1> QED
  BY <1>4 DEF left, right, RemoveAt

LEMMA InHandler ==
  ASSUME Base, NEW s \in Session
  PROVE  HandlerOK(handler[s])
BY DEF Base, HandlersOK

LEMMA ProviderStep ==
  ASSUME Base, [Next]_vars
  PROVE  ProviderOK' /\ (provider.exists => provider'.exists)
<1> DEFINE Goal == ProviderOK' /\ (provider.exists => provider'.exists)
<1>1. provider \in ProviderRow /\ (provider.exists \/ provider = NoProfile)
  BY DEF Base, ProviderOK
<1>2. NoProfile \in ProviderRow
  BY DEF NoProfile, ProviderRow
<1>3. ASSUME NEW row \in ProviderRow, provider' = row, row.exists PROVE Goal
  BY <1>3 DEF ProviderOK
<1>4. ASSUME UNCHANGED provider PROVE Goal
  BY <1>1, <1>4 DEF ProviderOK
<1> HIDE DEF Goal
<1>5. ASSUME NEW s \in Session, InsertProfile(s) PROVE Goal
  <2> DEFINE row == [NoProfile EXCEPT !.exists = TRUE]
  <2>1. row \in ProviderRow
    BY DEF NoProfile, ProviderRow
  <2>2. row.exists
    BY DEF NoProfile
  <2>3. provider' = provider \/ provider' = row
    BY <1>5 DEF InsertProfile
  <2> HIDE DEF row
  <2> QED
    BY <1>3, <1>4, <2>1, <2>2, <2>3
<1>6. ASSUME NEW s \in Session, WriteProfile(s) PROVE Goal
  <2> DEFINE row == [provider EXCEPT !.accepting = handler[s].kept]
  <2>1. provider.exists /\ handler[s].kept \in BOOLEAN
    BY <1>6, InHandler DEF WriteProfile, Continue, At, HandlerOK, KeepsProfile
  <2>2. row \in ProviderRow
    BY <1>1, <2>1 DEF ProviderRow
  <2>3. row.exists = provider.exists
    BY <1>1 DEF ProviderRow
  <2>4. provider' = row
    BY <1>6 DEF WriteProfile, Kept
  <2> HIDE DEF row
  <2> QED
    BY <1>3, <2>1, <2>2, <2>3, <2>4
<1>7. ASSUME NEW s \in Session, WriteClosed(s) PROVE Goal
  <2> DEFINE row == [provider EXCEPT !.closed = TRUE, !.accepting = FALSE]
  <2>1. provider.exists
    BY <1>7, InHandler DEF WriteClosed, Continue, At, HandlerOK, KeepsProfile
  <2>2. row \in ProviderRow
    BY <1>1 DEF ProviderRow
  <2>3. row.exists = provider.exists
    BY <1>1 DEF ProviderRow
  <2>4. provider' = row
    BY <1>7 DEF WriteClosed
  <2> HIDE DEF row
  <2> QED
    BY <1>3, <2>1, <2>2, <2>3, <2>4
<1>8. ASSUME NEW s \in Session, SuspendProvider(s) PROVE Goal
  <2> DEFINE row == [provider EXCEPT !.suspended = TRUE, !.accepting = FALSE]
  <2>1. row \in ProviderRow
    BY <1>1 DEF ProviderRow
  <2>2. row.exists = provider.exists
    BY <1>1 DEF ProviderRow
  <2>3. provider' = row /\ provider.exists
    BY <1>8 DEF SuspendProvider
  <2> HIDE DEF row
  <2> QED
    BY <1>3, <2>1, <2>2, <2>3
<1>9. ASSUME NEW s \in Session, ReinstateProvider(s) PROVE Goal
  <2> DEFINE row == [provider EXCEPT !.suspended = FALSE]
  <2>1. row \in ProviderRow
    BY <1>1 DEF ProviderRow
  <2>2. row.exists = provider.exists
    BY <1>1 DEF ProviderRow
  <2>3. provider' = row /\ provider.exists
    BY <1>9 DEF ReinstateProvider
  <2> HIDE DEF row
  <2> QED
    BY <1>3, <2>1, <2>2, <2>3
<1>10. ASSUME NEW s \in Session, WriteVerified(s) PROVE Goal
  <2> DEFINE row == [provider EXCEPT !.status = handler[s].kept]
  <2>1. provider.exists /\ handler[s].kept \in {"APPROVED", "REJECTED"}
    BY <1>10, InHandler DEF WriteVerified, Continue, At, HandlerOK, KeepsProfile
  <2>2. row \in ProviderRow
    BY <1>1, <2>1 DEF ProviderRow
  <2>3. row.exists = provider.exists
    BY <1>1 DEF ProviderRow
  <2>4. provider' = row
    BY <1>10 DEF WriteVerified, Kept
  <2> HIDE DEF row
  <2> QED
    BY <1>3, <2>1, <2>2, <2>3, <2>4
<1>11. Goal
  BY <1>4, <1>5, <1>6, <1>7, <1>8, <1>9, <1>10, Writers DEF WritesProvider
<1> QED
  BY <1>11 DEF Goal

LEMMA WeekStep ==
  ASSUME Base, [Next]_vars
  PROVE  WeekOK'
<1>1. week \in [saves : Nat, rows : SUBSET WeekRow] /\ \A row \in week.rows : row.save \in 1..week.saves
  BY DEF Base, WeekOK
<1>2. CASE UNCHANGED week
  BY <1>2 DEF Base, WeekOK
<1>3. ASSUME NEW s \in Session, InsertWeek(s), week' # week PROVE WeekOK'
  <2> DEFINE kept == handler[s].kept
             saves == week.saves + 1
             left == week.rows \ kept.old
             new == {[hour |-> h, save |-> saves] : h \in kept.new}
  <2>1. kept \in [old : SUBSET WeekRow, new : SUBSET Hours]
    BY <1>3, InHandler DEF InsertWeek, Continue, At, HandlerOK, KeepsProfile
  <2>2. saves \in Nat /\ week.saves \in Nat
    BY <1>1
  <2>3. new \subseteq WeekRow /\ \A row \in new : row.save = saves
    BY <2>1, <2>2 DEF WeekRow
  <2>4. left \subseteq WeekRow /\ \A row \in left : row.save \in 1..week.saves
    BY <1>1
  <2>5. week' = [saves |-> saves, rows |-> left \cup new]
    BY <1>3 DEF InsertWeek, Kept
  <2> HIDE DEF saves, left, new
  <2>6. week'.saves = saves /\ week'.rows = left \cup new
        /\ week' \in [saves : Nat, rows : SUBSET WeekRow]
    BY <2>2, <2>3, <2>4, <2>5
  <2>7. \A row \in left \cup new : row.save \in 1..saves
    BY <2>2, <2>3, <2>4 DEF saves
  <2> QED
    BY <2>6, <2>7 DEF WeekOK
<1> QED
  BY <1>2, <1>3, Writers

(* A row that is stored under an id that has one keeps the row there.      *)
LEMMA ListingKept ==
  ASSUME ListingsOK, NEW v \in Listing, NEW row \in ListingRow, listing[v].exists, row.exists,
         row.category \in Category /\ category[row.category].exists,
         listing' = [listing EXCEPT ![v] = row], UNCHANGED category
  PROVE  ListingsOK' /\ \A w \in Listing : listing[w].exists => listing'[w].exists
BY DEF ListingsOK

LEMMA ListingWrites ==
  ASSUME Base, NEW s \in Session, WritesListing(s)
  PROVE  ListingsOK' /\ \A w \in Listing : listing[w].exists => listing'[w].exists
<1> DEFINE Goal == ListingsOK' /\ \A w \in Listing : listing[w].exists => listing'[w].exists
<1>1. ListingsOK /\ listing \in [Listing -> ListingRow]
  BY DEF Base, ListingsOK
<1>2. ASSUME UNCHANGED <<listing, category>> PROVE Goal
  BY <1>1, <1>2 DEF ListingsOK
<1>3. CASE WriteClosed(s)
  <2> DEFINE Gone(row) == [row EXCEPT !.deleted = TRUE, !.status = "ARCHIVED"]
  <2>1. \A row \in ListingRow : Gone(row) \in ListingRow /\ Gone(row).category = row.category
    BY DEF ListingRow
  <2>2. \A row \in ListingRow : Gone(row).exists = row.exists
    BY DEF ListingRow
  <2>3. /\ listing' = [v \in Listing |-> IF listing[v].exists /\ ~listing[v].deleted
                                          THEN Gone(listing[v]) ELSE listing[v]]
        /\ UNCHANGED category
    BY <1>3 DEF WriteClosed
  <2> HIDE DEF Gone
  <2>4. ASSUME NEW v \in Listing
        PROVE  /\ listing'[v] \in ListingRow
               /\ listing'[v].category = listing[v].category
               /\ listing'[v].exists = listing[v].exists
               /\ ~listing[v].exists => listing'[v] = listing[v]
    <3>1. listing[v] \in ListingRow
      BY <1>1
    <3>2. CASE listing[v].exists /\ ~listing[v].deleted
      <4>1. listing'[v] = Gone(listing[v])
        BY <2>3, <3>2
      <4>2. Gone(listing[v]).exists = listing[v].exists
        BY <2>2, <3>1
      <4> QED
        BY <2>1, <3>1, <3>2, <4>1, <4>2
    <3>3. CASE ~(listing[v].exists /\ ~listing[v].deleted)
      BY <2>3, <3>1, <3>3
    <3> QED
      BY <3>2, <3>3
  <2>5. listing' \in [Listing -> ListingRow]
    BY <2>3, <2>4
  <2> QED
    BY <1>1, <2>3, <2>4, <2>5 DEF ListingsOK
<1>4. CASE InsertListing(s)
  <2> DEFINE new == handler[s].kept
             row == [exists |-> TRUE, status |-> new.status, deleted |-> FALSE,
                     category |-> new.category]
  <2>1. new \in [id : Listing, status : {"ACTIVE", "DRAFT"}, category : Category]
    BY <1>4, InHandler DEF InsertListing, Continue, At, HandlerOK, KeepsListing
  <2>2. row \in ListingRow /\ row.category \in Category
    BY <2>1 DEF ListingRow
  <2>3. row.exists
    OBVIOUS
  <2>4. CASE listing[new.id].exists \/ ~category[new.category].exists
    BY <1>2, <1>4, <2>4 DEF InsertListing, Kept
  <2>5. CASE ~listing[new.id].exists /\ category[new.category].exists
    <3>1. listing' = [listing EXCEPT ![new.id] = row] /\ UNCHANGED category
      BY <1>4, <2>5 DEF InsertListing, Kept
    <3>2. category[row.category].exists
      BY <2>5
    <3> HIDE DEF row
    <3> QED
      BY <1>1, <2>1, <2>2, <2>3, <2>5, <3>1, <3>2 DEF ListingsOK
  <2> QED
    BY <2>4, <2>5
<1>5. CASE WriteListing(s)
  <2> DEFINE patch == handler[s].kept
             v == patch.id
             status == IF patch.status = "same" THEN listing[v].status ELSE patch.status
             filed == IF patch.category = NoCategory THEN listing[v].category ELSE patch.category
             row == [listing[v] EXCEPT !.status = status, !.category = filed]
  <2>1. /\ patch \in [id : Listing, status : Patches, category : Category \cup {NoCategory}]
        /\ listing[v].exists
    BY <1>5, InHandler DEF WriteListing, Continue, At, HandlerOK, KeepsListing
  <2>2. v \in Listing /\ listing[v] \in ListingRow
    BY <1>1, <2>1
  <2>3. status \in {"ACTIVE", "DRAFT", "PAUSED", "ARCHIVED"}
    BY <2>1, <2>2 DEF ListingRow, Patches
  <2>4. CASE patch.category # NoCategory /\ ~category[patch.category].exists
    BY <1>2, <1>5, <2>4 DEF WriteListing, Kept
  <2>5. CASE ~(patch.category # NoCategory /\ ~category[patch.category].exists)
    <3>1. filed \in Category /\ category[filed].exists
      BY <1>1, <2>1, <2>2, <2>5 DEF ListingsOK
    <3>2. row \in ListingRow /\ row.category = filed
      BY <2>2, <2>3, <3>1 DEF ListingRow
    <3>3. row.exists
      BY <2>1, <2>2 DEF ListingRow
    <3>4. listing' = [listing EXCEPT ![v] = row] /\ UNCHANGED category
      <4>1. listing' = [listing EXCEPT
                          ![v].status = IF patch.status = "same" THEN @ ELSE patch.status,
                          ![v].category = IF patch.category = NoCategory THEN @ ELSE patch.category]
            /\ UNCHANGED category
        BY <1>5, <2>5 DEF WriteListing, Kept
      <4> QED
        BY <1>1, <2>2, <4>1 DEF ListingRow
    <3> HIDE DEF row, filed, v
    <3> QED
      BY <1>1, <2>1, <2>2, <3>1, <3>2, <3>3, <3>4, ListingKept
  <2> QED
    BY <2>4, <2>5
<1>6. CASE WriteRemoved(s)
  <2> DEFINE v == handler[s].kept
             row == [listing[v] EXCEPT !.deleted = TRUE, !.status = "ARCHIVED"]
  <2>1. v \in Listing /\ listing[v].exists
    BY <1>6, InHandler DEF WriteRemoved, Continue, At, HandlerOK, KeepsListing
  <2>2. listing[v] \in ListingRow
    BY <1>1, <2>1
  <2>3. row \in ListingRow /\ row.category = listing[v].category
    BY <2>2 DEF ListingRow
  <2>4. row.exists
    BY <2>1, <2>2 DEF ListingRow
  <2>5. listing' = [listing EXCEPT ![v] = row] /\ UNCHANGED category
    <3>1. listing' = [listing EXCEPT ![v].deleted = TRUE, ![v].status = "ARCHIVED"]
          /\ UNCHANGED category
      BY <1>6 DEF WriteRemoved, Kept
    <3> QED
      BY <1>1, <2>1, <2>2, <3>1 DEF ListingRow
  <2> HIDE DEF row, v
  <2> QED
    BY <1>1, <2>1, <2>3, <2>4, <2>5, ListingKept DEF ListingsOK
<1>7. CASE WriteModerated(s)
  <2> DEFINE v == handler[s].kept.id
             next == Ruling(handler[s].kept.action)
             row == [listing[v] EXCEPT !.status = next.status, !.deleted = next.deleted]
  <2>1. /\ handler[s].kept.action \in {"TAKE_DOWN", "PAUSE", "REINSTATE"}
        /\ v \in Listing /\ listing[v].exists
    BY <1>7, InHandler DEF WriteModerated, Continue, At, HandlerOK, KeepsListing
  <2>2. listing[v] \in ListingRow
    BY <1>1, <2>1
  <2>3. next.status \in {"ARCHIVED", "PAUSED", "DRAFT"}
    BY <2>1 DEF Ruling
  <2>4. next.deleted \in BOOLEAN
    BY <2>1 DEF Ruling
  <2> HIDE DEF next
  <2>5. row \in ListingRow /\ row.category = listing[v].category
    BY <2>2, <2>3, <2>4 DEF ListingRow
  <2>6. row.exists
    BY <2>1, <2>2 DEF ListingRow
  <2>7. listing' = [listing EXCEPT ![v] = row] /\ UNCHANGED category
    <3>1. listing' = [listing EXCEPT ![v].status = next.status, ![v].deleted = next.deleted]
          /\ UNCHANGED category
      BY <1>7 DEF WriteModerated, Kept, next
    <3> QED
      BY <1>1, <2>1, <2>2, <3>1 DEF ListingRow
  <2> HIDE DEF row, v
  <2> QED
    BY <1>1, <2>1, <2>5, <2>6, <2>7, ListingKept DEF ListingsOK
<1> QED
  BY <1>3, <1>4, <1>5, <1>6, <1>7 DEF WritesListing

(* A category that goes away had no child and nothing filed in it, at the  *)
(* statement that deletes it.                                              *)
LEMMA CategoryWrites ==
  ASSUME MarketplaceAssumption, Base, NEW s \in Session, WritesCategory(s)
  PROVE  TreeOK' /\ ListingsOK' /\ UNCHANGED listing
<1> DEFINE Goal == TreeOK' /\ ListingsOK' /\ UNCHANGED listing
<1>1. /\ TreeOK /\ ListingsOK /\ category \in [Category -> CategoryRow]
      /\ listing \in [Listing -> ListingRow] /\ NoCategory \notin Category
  BY DEF Base, TreeOK, ListingsOK, MarketplaceAssumption
<1>2. UNCHANGED listing
  BY DEF WritesCategory, InsertCategory, WriteMove, HideCategory, DeleteCategory,
         ShowCategory, treeOnly
<1>3. ASSUME UNCHANGED category PROVE Goal
  BY <1>1, <1>2, <1>3 DEF TreeOK, ListingsOK, Exists
<1>4. ASSUME NEW c \in Category, NEW row \in CategoryRow, row.exists, Exists(row.parent),
             category' = [category EXCEPT ![c] = row]
      PROVE  Goal
  <2>1. /\ category' \in [Category -> CategoryRow] /\ category'[c] = row
        /\ \A d \in Category \ {c} : category'[d] = category[d]
    BY <1>1, <1>4
  <2>2. \A d \in Category : category[d].exists => category'[d].exists
    BY <1>4, <2>1
  <2>3. \A d \in Category \cup {NoCategory} : Exists(d) => Exists(d)'
    BY <2>2 DEF Exists
  <2>4. row.parent \in Category \cup {NoCategory}
        /\ \A d \in Category : category[d].parent \in Category \cup {NoCategory}
    BY <1>1 DEF CategoryRow
  <2>5. TreeOK'
    BY <1>1, <1>4, <2>1, <2>3, <2>4 DEF TreeOK
  <2>6. ListingsOK'
    BY <1>1, <1>2, <2>2 DEF ListingsOK
  <2> QED
    BY <1>2, <2>5, <2>6
<1> HIDE DEF Goal
<1>5. ASSUME InsertCategory(s) PROVE Goal
  <2> DEFINE new == handler[s].kept
             row == [exists |-> TRUE, active |-> TRUE, parent |-> new.parent]
  <2>1. new \in [id : Category, parent : Category \cup {NoCategory}]
    BY <1>5, InHandler DEF InsertCategory, Continue, At, HandlerOK, KeepsCategory
  <2>2. row \in CategoryRow /\ row.parent = new.parent
    BY <2>1 DEF CategoryRow
  <2>3. row.exists
    OBVIOUS
  <2>4. CASE category[new.id] # NoRow \/ ~Exists(new.parent)
    BY <1>3, <1>5, <2>4 DEF InsertCategory, Kept
  <2>5. CASE category[new.id] = NoRow /\ Exists(new.parent)
    <3>1. category' = [category EXCEPT ![new.id] = row]
      BY <1>5, <2>5 DEF InsertCategory, Kept
    <3>2. Exists(row.parent) /\ new.id \in Category
      BY <2>1, <2>2, <2>5
    <3> HIDE DEF row
    <3> QED
      BY <1>4, <2>2, <2>3, <3>1, <3>2
  <2> QED
    BY <2>4, <2>5
<1>6. ASSUME WriteMove(s) PROVE Goal
  <2> DEFINE k == handler[s].kept
             row == [category[k.id] EXCEPT !.parent = k.parent]
  <2>1. k.id \in Category /\ k.parent \in Category \cup {NoCategory}
    BY <1>6, InHandler DEF WriteMove, Continue, At, HandlerOK, KeepsCategory, Climber
  <2>2. category[k.id] \in CategoryRow
    BY <1>1, <2>1
  <2>3. row \in CategoryRow /\ row.parent = k.parent
    BY <2>1, <2>2 DEF CategoryRow
  <2>4. row.exists = category[k.id].exists
    BY <2>2 DEF CategoryRow
  <2>5. CASE ~category[k.id].exists \/ ~Exists(k.parent)
    BY <1>3, <1>6, <2>5 DEF WriteMove, Kept
  <2>6. CASE category[k.id].exists /\ Exists(k.parent)
    <3>1. category' = [category EXCEPT ![k.id] = row]
      BY <1>6, <2>6 DEF WriteMove, Kept
    <3> HIDE DEF row
    <3> QED
      BY <1>4, <2>1, <2>3, <2>4, <2>6, <3>1
  <2> QED
    BY <2>5, <2>6
<1>7. ASSUME NEW c \in Category, NEW active \in BOOLEAN, category[c].exists,
             category' = [category EXCEPT ![c].active = active]
      PROVE  Goal
  <2> DEFINE row == [category[c] EXCEPT !.active = active]
  <2>1. category[c] \in CategoryRow
    BY <1>1
  <2>2. row \in CategoryRow /\ row.parent = category[c].parent
    BY <2>1 DEF CategoryRow
  <2>3. row.exists = category[c].exists
    BY <2>1 DEF CategoryRow
  <2>4. category' = [category EXCEPT ![c] = row]
    BY <1>7
  <2>5. Exists(row.parent)
    BY <1>1, <1>7, <2>2 DEF TreeOK
  <2> HIDE DEF row
  <2> QED
    BY <1>4, <1>7, <2>2, <2>3, <2>4, <2>5
<1>8. ASSUME HideCategory(s) PROVE Goal
  <2>1. handler[s].kept \in Category
    BY <1>8, InHandler DEF HideCategory, Continue, At, HandlerOK, KeepsCategory
  <2> QED
    BY <1>3, <1>7, <1>8, <2>1 DEF HideCategory, Kept
<1>9. ASSUME \E c \in Category, active \in BOOLEAN : ShowCategory(s, c, active) PROVE Goal
  BY <1>7, <1>9 DEF ShowCategory
<1>10. ASSUME DeleteCategory(s) PROVE Goal
  <2> DEFINE c == handler[s].kept
  <2>1. c \in Category
    BY <1>10, InHandler DEF DeleteCategory, Continue, At, HandlerOK, KeepsCategory
  <2>2. CASE ChildrenOf(c) # {} \/ FiledIn(c) # {}
    BY <1>3, <1>10, <2>2 DEF DeleteCategory, Kept
  <2>3. CASE ChildrenOf(c) = {} /\ FiledIn(c) = {}
    <3>1. category' = [category EXCEPT ![c] = Deleted]
      BY <1>10, <2>3 DEF DeleteCategory, Kept
    <3>2. Deleted \in CategoryRow
      BY DEF Deleted, CategoryRow
    <3>3. ~Deleted.exists
      BY DEF Deleted
    <3>4. /\ category' \in [Category -> CategoryRow] /\ category'[c] = Deleted
          /\ \A d \in Category \ {c} : category'[d] = category[d]
      BY <1>1, <2>1, <3>1, <3>2
    <3>5. \A d \in Category : category[d].exists => category[d].parent # c
      BY <2>3 DEF ChildrenOf
    <3>6. \A v \in Listing : listing[v].exists => listing[v].category # c
      BY <2>3 DEF FiledIn
    <3>7. TreeOK'
      <4> SUFFICES ASSUME NEW d \in Category
                   PROVE  IF category'[d].exists THEN Exists(category[d].parent)'
                          ELSE category'[d] \in {NoRow, Deleted}
        BY <3>4 DEF TreeOK
      <4>1. CASE d = c
        BY <3>3, <3>4, <4>1
      <4>2. CASE d # c
        <5>1. category'[d] = category[d] /\ category[d].parent \in Category \cup {NoCategory}
          BY <1>1, <3>4, <4>2 DEF CategoryRow
        <5>2. CASE category[d].exists
          <6>1. Exists(category[d].parent) /\ category[d].parent # c
            BY <1>1, <3>5, <5>2 DEF TreeOK
          <6>2. Exists(category[d].parent)'
            BY <3>4, <5>1, <6>1 DEF Exists
          <6> QED
            BY <5>1, <5>2, <6>2
        <5>3. CASE ~category[d].exists
          BY <1>1, <5>1, <5>3 DEF TreeOK
        <5> QED
          BY <5>2, <5>3
      <4> QED
        BY <4>1, <4>2
    <3>8. ListingsOK'
      BY <1>1, <1>2, <3>4, <3>6 DEF ListingsOK
    <3> QED
      BY <1>2, <3>7, <3>8 DEF Goal
  <2> QED
    BY <2>2, <2>3
<1>11. Goal
  BY <1>5, <1>6, <1>8, <1>9, <1>10 DEF WritesCategory
<1> QED
  BY <1>11 DEF Goal

LEMMA TablesStep ==
  ASSUME MarketplaceAssumption, Base, [Next]_vars
  PROVE  /\ TreeOK' /\ ListingsOK'
         /\ \A v \in Listing : listing[v].exists => listing'[v].exists
<1> DEFINE Goal == /\ TreeOK' /\ ListingsOK'
                   /\ \A v \in Listing : listing[v].exists => listing'[v].exists
<1>1. TreeOK /\ ListingsOK
  BY DEF Base
<1>2. CASE UNCHANGED <<listing, category>>
  BY <1>1, <1>2 DEF TreeOK, ListingsOK, Exists
<1>3. ASSUME NEW s \in Session, WritesListing(s) PROVE Goal
  <2>1. UNCHANGED category
    BY <1>3 DEF WritesListing, WriteClosed, InsertListing, WriteListing, WriteRemoved,
                WriteModerated
  <2>2. TreeOK'
    BY <1>1, <2>1 DEF TreeOK, Exists
  <2> QED
    BY <1>3, <2>2, ListingWrites
<1>4. ASSUME NEW s \in Session, WritesCategory(s) PROVE Goal
  BY <1>4, CategoryWrites
<1> QED
  BY <1>2, <1>3, <1>4, Writers

LEMMA FilesStep ==
  ASSUME MarketplaceAssumption, Base, [Next]_vars
  PROVE  FilesOK'
<1>1. /\ image \in [ImageKind -> Nat]
      /\ documents \in Seq(DocumentRow) /\ DOMAIN documents = 1..Len(documents)
      /\ gallery \in Seq(GalleryRow) /\ Len(gallery) \in Nat
      /\ \A i \in 1..Len(gallery) : listing[gallery[i].listing].exists
  BY DEF Base, FilesOK
<1>2. \A v \in Listing : listing[v].exists => listing'[v].exists
  BY TablesStep
<1>3. \A i \in 1..Len(gallery) : gallery[i].listing \in Listing
  <2>1. \A i \in 1..Len(gallery) : gallery[i] \in GalleryRow
    BY <1>1
  <2> QED
    BY <2>1 DEF GalleryRow
<1>4. image' \in [ImageKind -> Nat]
  <2>1. ASSUME NEW s \in Session, WriteProviderImage(s) PROVE image' \in [ImageKind -> Nat]
    <3>1. handler[s].kept \in [ref : ImageKind, old : Nat, key : Nat]
      BY <2>1, InHandler DEF WriteProviderImage, Continue, At, HandlerOK, KeepsFile
    <3>2. image' = [image EXCEPT ![handler[s].kept.ref] = handler[s].kept.key]
      BY <2>1 DEF WriteProviderImage, Kept
    <3> QED
      BY <1>1, <3>1, <3>2
  <2> QED
    BY <1>1, <2>1, Writers
<1>5. documents' \in Seq(DocumentRow)
  <2>1. ASSUME NEW s \in Session, CreateDocument(s) PROVE documents' \in Seq(DocumentRow)
    <3>1. handler[s].kept \in [ref : {0}, old : Nat, key : Nat]
      BY <2>1, InHandler DEF CreateDocument, Continue, At, HandlerOK, KeepsFile
    <3>2. [key |-> handler[s].kept.key, status |-> "PENDING"] \in DocumentRow
      BY <3>1 DEF DocumentRow
    <3> QED
      BY <1>1, <2>1, <3>2 DEF CreateDocument, Kept
  <2>2. ASSUME NEW s \in Session, NEW i \in DOMAIN documents, NEW d \in {"APPROVED", "REJECTED"},
               ReviewDocument(s, i, d)
        PROVE  documents' \in Seq(DocumentRow)
    <3> DEFINE row == [documents[i] EXCEPT !.status = d]
    <3>1. row \in DocumentRow
      <4>1. documents[i] \in DocumentRow
        BY <1>1
      <4> QED
        BY <4>1 DEF DocumentRow
    <3>2. documents' = [documents EXCEPT ![i] = row]
      BY <2>2 DEF ReviewDocument
    <3> HIDE DEF row
    <3> QED
      BY <1>1, <3>1, <3>2
  <2> QED
    BY <1>1, <2>1, <2>2, Writers
<1>6. /\ gallery' \in Seq(GalleryRow)
      /\ \A i \in 1..Len(gallery') : listing'[gallery'[i].listing].exists
  <2>1. CASE UNCHANGED gallery
    BY <1>1, <1>2, <1>3, <2>1
  <2>2. ASSUME NEW s \in Session, CreateServiceImage(s)
        PROVE  /\ gallery' \in Seq(GalleryRow)
               /\ \A i \in 1..Len(gallery') : listing'[gallery'[i].listing].exists
    <3> DEFINE row == [listing |-> handler[s].kept.ref, key |-> handler[s].kept.key,
                       position |-> handler[s].kept.old]
    <3>1. /\ handler[s].kept \in [ref : Listing, old : Nat, key : Nat]
          /\ listing[handler[s].kept.ref].exists
      BY <2>2, InHandler DEF CreateServiceImage, Continue, At, HandlerOK, KeepsFile
    <3>2. row \in GalleryRow /\ row.listing = handler[s].kept.ref
      BY <3>1 DEF GalleryRow
    <3>3. gallery' = Append(gallery, row)
      BY <2>2 DEF CreateServiceImage, Kept
    <3> HIDE DEF row
    <3>4. /\ gallery' \in Seq(GalleryRow) /\ Len(gallery') = Len(gallery) + 1
          /\ \A i \in 1..Len(gallery) : gallery'[i] = gallery[i]
          /\ gallery'[Len(gallery) + 1] = row
      BY <1>1, <3>2, <3>3
    <3>5. listing'[row.listing].exists
      BY <1>2, <3>1, <3>2
    <3>6. ASSUME NEW i \in 1..Len(gallery) PROVE listing'[gallery[i].listing].exists
      BY <1>1, <1>2, <1>3
    <3> QED
      BY <1>1, <3>4, <3>5, <3>6
  <2> QED
    BY <2>1, <2>2, Writers
<1>7. portfolio \in Seq(WorkKey)
  BY DEF Base, FilesOK
<1>8. portfolio' \in Seq(WorkKey)
  <2>1. ASSUME NEW s \in Session, InsertPortfolioItem(s) PROVE portfolio' \in Seq(WorkKey)
    <3>1. handler[s].kept \in WorkKey
      BY <2>1, InHandler DEF InsertPortfolioItem, Continue, At, HandlerOK, KeepsProfile
    <3>2. portfolio' = Append(portfolio, handler[s].kept)
      BY <2>1 DEF InsertPortfolioItem, Kept
    <3> QED
      BY <1>7, <3>1, <3>2
  <2>2. ASSUME NEW s \in Session, RemovesWork(s) PROVE portfolio' \in Seq(WorkKey)
    <3>1. PICK i \in DOMAIN portfolio : portfolio' = RemoveAt(portfolio, i)
      BY <2>2 DEF RemovesWork, RemovePortfolioItem
    <3> QED
      BY <1>7, <3>1, ShorterWork
  <2> QED
    BY <1>7, <2>1, <2>2, Writers
<1> QED
  BY <1>4, <1>5, <1>6, <1>8 DEF FilesOK

(* Who writes what belongs to messages.                                    *)
LEMMA MessageWriters ==
  ASSUME [Next]_vars
  PROVE  /\ UNCHANGED request \/ \E p \in Supplier : QuoteArrives(p)
         /\ \/ UNCHANGED <<messages, notices>>
            \/ \E s \in Session : InsertMessage(s)
            \/ UNCHANGED notices /\ \E s \in Session : StampRead(s)
            \/ UNCHANGED messages
               /\ \E s \in Session, user \in User, ids \in SUBSET DOMAIN notices :
                    MarkRead(s, user, ids)
<1>1. CASE UNCHANGED messageVars
  BY <1>1 DEF messageVars
<1>2. ASSUME NEW p \in Supplier, QuoteArrives(p) PROVE UNCHANGED <<messages, notices>>
  BY <1>2 DEF QuoteArrives
<1>3. ASSUME NEW s \in Session, MessageWrite(s)
      PROVE  /\ UNCHANGED request
             /\ \/ UNCHANGED <<messages, notices>>
                \/ InsertMessage(s)
                \/ UNCHANGED notices /\ StampRead(s)
                \/ UNCHANGED messages
                   /\ \E user \in User, ids \in SUBSET DOMAIN notices : MarkRead(s, user, ids)
  BY <1>3 DEF MessageWrite, InsertMessage, StampRead, InsertReport, UpsertFavourite,
              RemoveFavourite, MarkRead
<1> QED
  BY <1>1, <1>2, <1>3, StepKinds DEF Quiet

LEMMA ThreadsStep ==
  ASSUME Base, [Next]_vars
  PROVE  ThreadsOK'
<1>1. /\ request \in [to : {"nobody"} \cup Supplier, quoted : SUBSET Supplier]
      /\ messages \in Seq(MessageRow) /\ Len(messages) \in Nat
      /\ DOMAIN messages = 1..Len(messages)
      /\ \A i \in 1..Len(messages) : messages[i].from # messages[i].to
      /\ notices \in Seq(NoticeRow) /\ DOMAIN notices = 1..Len(notices)
      /\ Len(notices) = Len(messages)
  BY DEF Base, ThreadsOK
<1>2. request' \in [to : {"nobody"} \cup Supplier, quoted : SUBSET Supplier]
  <2>1. ASSUME NEW p \in Supplier, QuoteArrives(p)
        PROVE  request' \in [to : {"nobody"} \cup Supplier, quoted : SUBSET Supplier]
    BY <1>1, <2>1 DEF QuoteArrives
  <2> QED
    BY <1>1, <2>1, MessageWriters
<1> DEFINE Rest == /\ messages' \in Seq(MessageRow)
                   /\ \A i \in 1..Len(messages') : messages'[i].from # messages'[i].to
                   /\ notices' \in Seq(NoticeRow)
                   /\ Len(notices') = Len(messages')
<1>3. ASSUME UNCHANGED <<messages, notices>> PROVE Rest
  BY <1>1, <1>3
<1>4. ASSUME NEW s \in Session, InsertMessage(s) PROVE Rest
  <2> DEFINE m == handler[s].kept
             row == [anchor |-> m.anchor, from |-> m.from, to |-> m.to,
                     key |-> m.key, read |-> FALSE, shown |-> FALSE]
             notice == [to |-> m.to, read |-> FALSE]
  <2>1. m \in Letter /\ m.from # m.to
    BY <1>4, InHandler DEF InsertMessage, Continue, At, HandlerOK, KeepsMessage
  <2>2. row \in MessageRow /\ notice \in NoticeRow /\ row.from # row.to
    BY <2>1 DEF MessageRow, NoticeRow, Letter
  <2>3. messages' = Append(messages, row) /\ notices' = Append(notices, notice)
    BY <1>4 DEF InsertMessage, Kept
  <2> HIDE DEF row, notice
  <2>4. /\ messages' \in Seq(MessageRow) /\ Len(messages') = Len(messages) + 1
        /\ \A i \in 1..Len(messages) : messages'[i] = messages[i]
        /\ messages'[Len(messages) + 1] = row
        /\ notices' \in Seq(NoticeRow) /\ Len(notices') = Len(notices) + 1
    BY <1>1, <2>2, <2>3
  <2> QED
    BY <1>1, <2>2, <2>4
<1>5. ASSUME NEW s \in Session, StampRead(s), UNCHANGED notices PROVE Rest
  <2> DEFINE k == handler[s].kept
             Read(i) == messages[i].read \/ i \in Stamped(k.user, k.anchor)
             Shown(i) == messages[i].shown \/ (i \in k.page /\ messages[i].to = k.user)
             row(i) == [messages[i] EXCEPT !.read = Read(i), !.shown = Shown(i)]
  <2>1. messages' = [i \in 1..Len(messages) |-> row(i)]
    BY <1>1, <1>5 DEF StampRead, Kept
  <2>2. ASSUME NEW i \in 1..Len(messages)
        PROVE  row(i) \in MessageRow /\ row(i).from = messages[i].from
               /\ row(i).to = messages[i].to
    <3>1. messages[i] \in MessageRow
      BY <1>1
    <3>2. Read(i) \in BOOLEAN /\ Shown(i) \in BOOLEAN
      BY <3>1 DEF MessageRow
    <3> HIDE DEF Read, Shown
    <3> QED
      BY <3>1, <3>2 DEF MessageRow
  <2> HIDE DEF row
  <2>3. messages' \in Seq(MessageRow) /\ Len(messages') = Len(messages)
    BY <1>1, <2>1, <2>2
  <2> QED
    BY <1>1, <1>5, <2>1, <2>2, <2>3
<1>6. ASSUME NEW s \in Session, NEW user \in User, NEW ids \in SUBSET DOMAIN notices,
             MarkRead(s, user, ids), UNCHANGED messages
      PROVE  Rest
  <2> DEFINE row(i) == IF notices[i].to = user /\ i \in ids
                       THEN [notices[i] EXCEPT !.read = TRUE] ELSE notices[i]
  <2>1. notices' = [i \in 1..Len(notices) |-> row(i)]
    BY <1>1, <1>6 DEF MarkRead
  <2>2. ASSUME NEW i \in 1..Len(notices) PROVE row(i) \in NoticeRow
    <3>1. notices[i] \in NoticeRow
      BY <1>1
    <3> QED
      BY <3>1 DEF NoticeRow
  <2> HIDE DEF row
  <2>3. notices' \in Seq(NoticeRow) /\ Len(notices') = Len(notices)
    BY <1>1, <2>1, <2>2
  <2> QED
    BY <1>1, <1>6, <2>3
<1> HIDE DEF Rest
<1>7. Rest
  BY <1>3, <1>4, <1>5, <1>6, MessageWriters
<1> QED
  BY <1>2, <1>7 DEF Rest, ThreadsOK

-----------------------------------------------------------------------------
(* What requests keep *)

HandlerAt(route, at, kept) == [route |-> route, at |-> at, kept |-> kept]

(* Session s goes on with h, which still holds: the next statement of its  *)
(* request, the end of it, or the first of a new one.                      *)
Turns(s, h) ==
  /\ handler' = [handler EXCEPT ![s] = h]
  /\ HandlerOK(h)
  /\ \/ handler[s].at # "idle" /\ h.route \in {handler[s].route, "none"}
     \/ /\ handler[s].at = "idle" /\ h.route \in scenario.routes[s]
        /\ scenario.serial => \A r \in Session : handler[r].at = "idle"

LEMMA HandlerKept ==
  ASSUME NEW h, HandlerOK(h), provider.exists => provider'.exists,
         \A v \in Listing : listing[v].exists => listing'[v].exists
  PROVE  HandlerOK(h)'
<1>1. KeepsFile(h)'
  <2>1. h.route = "service_image" => h.kept.ref \in Listing
    BY DEF HandlerOK, KeepsFile
  <2> QED
    BY <2>1 DEF HandlerOK, KeepsFile
<1>2. KeepsListing(h)'
  <2>1. h.route \in {"update_listing", "moderate"} => h.kept.id \in Listing
    BY DEF HandlerOK, KeepsListing
  <2> QED
    BY <2>1 DEF HandlerOK, KeepsListing
<1>3. StationOK(h)' /\ KeepsProfile(h)' /\ KeepsCategory(h)' /\ KeepsMessage(h)'
  BY DEF HandlerOK, StationOK, KeepsProfile, KeepsCategory, KeepsMessage
<1> QED
  BY <1>1, <1>2, <1>3 DEF HandlerOK

LEMMA IdleOK == HandlerOK(Idle)
BY DEF HandlerOK, Idle, StationOK, KeepsFile, KeepsProfile, KeepsListing, KeepsCategory,
       KeepsMessage, Uploading

LEMMA Ends ==
  ASSUME NEW s \in Session, handler[s].at # "idle", Done(s)
  PROVE  \E h : Turns(s, h)
<1>1. handler' = [handler EXCEPT ![s] = Idle] /\ Idle.route = "none"
  BY DEF Done, Idle
<1> QED
  BY <1>1, IdleOK DEF Turns

LEMMA Opens ==
  ASSUME NEW s \in Session, NEW route, NEW at, NEW kept, Calls(s, route), Begin(s),
         Goes(s, route, at, kept), HandlerOK(HandlerAt(route, at, kept))
  PROVE  \E h : Turns(s, h)
<1> DEFINE h == HandlerAt(route, at, kept)
<1>1. handler' = [handler EXCEPT ![s] = h] /\ h.route = route
  BY DEF Goes, HandlerAt
<1>2. handler[s].at = "idle" /\ route \in scenario.routes[s]
      /\ (scenario.serial => \A r \in Session : handler[r].at = "idle")
  BY DEF Begin, At, Calls
<1> HIDE DEF h
<1>3. HandlerOK(h)
  BY DEF h
<1>4. Turns(s, h)
  BY <1>1, <1>2, <1>3 DEF Turns
<1> QED
  BY <1>4

LEMMA GoesOn ==
  ASSUME NEW s \in Session, NEW at, NEW kept, handler[s].at # "idle",
         Goes(s, handler[s].route, at, kept), HandlerOK(HandlerAt(handler[s].route, at, kept))
  PROVE  \E h : Turns(s, h)
<1> DEFINE h == HandlerAt(handler[s].route, at, kept)
<1>1. handler' = [handler EXCEPT ![s] = h] /\ h.route = handler[s].route
  BY DEF Goes, HandlerAt
<1> HIDE DEF h
<1>2. HandlerOK(h)
  BY DEF h
<1>3. Turns(s, h)
  BY <1>1, <1>2 DEF Turns
<1> QED
  BY <1>3

LEMMA RecipientsOK ==
  ASSUME ThreadsOK, NEW user \in User, NEW anchor \in Anchor
  PROVE  Recipients(user, anchor) \subseteq User \ {user}
<1>1. request.to \in {"nobody"} \cup Supplier /\ request.quoted \subseteq Supplier
  BY DEF ThreadsOK
<1>2. CASE anchor = "booking"
  BY <1>2 DEF Recipients, User, Supplier
<1>3. CASE anchor = "request" /\ user = "customer"
  BY <1>1, <1>3 DEF Recipients, User, Supplier
<1>4. CASE anchor = "request" /\ user # "customer"
  BY <1>1, <1>4 DEF Recipients, User, Supplier
<1> QED
  BY <1>2, <1>3, <1>4 DEF Anchor

LEMMA ProfileCallTurns ==
  ASSUME Base, NEW s \in Session, ProfileCall(s)
  PROVE  UNCHANGED handler \/ \E h : Turns(s, h)
<1> DEFINE Goal == UNCHANGED handler \/ \E h : Turns(s, h)
<1> USE DEF HandlerAt, HandlerOK, StationOK, KeepsFile, KeepsProfile, KeepsListing,
            KeepsCategory, KeepsMessage, Routes, Uploading, Upload
<1>1. ASSUME Calls(s, "create_profile"), CreateProfile(s) PROVE Goal
  <2>1. HandlerOK(HandlerAt("create_profile", "insert", <<>>))
    OBVIOUS
  <2> QED
    BY <1>1, <2>1, Opens DEF CreateProfile
<1>2. ASSUME Calls(s, "update_profile"), NEW accepting \in BOOLEAN, UpdateProfile(s, accepting)
      PROVE  Goal
  <2>1. HandlerOK(HandlerAt("update_profile", "write", accepting))
    BY <1>2 DEF UpdateProfile, Open
  <2> QED
    BY <1>2, <2>1, Opens DEF UpdateProfile
<1>3. ASSUME Calls(s, "close_profile"), CloseProfile(s) PROVE Goal
  <2>1. HandlerOK(HandlerAt("close_profile", "count", <<>>))
    BY <1>3 DEF CloseProfile, Open
  <2> QED
    BY <1>3, <2>1, Opens DEF CloseProfile
<1>4. ASSUME Calls(s, "set_week"), NEW hours \in SUBSET Hours, SetAvailability(s, hours)
      PROVE  Goal
  <2>1. week.rows \subseteq WeekRow
    BY DEF Base, WeekOK
  <2>2. HandlerOK(HandlerAt("set_week", "insert", [old |-> week.rows, new |-> hours]))
    BY <2>1
  <2> QED
    BY <1>4, <2>2, Opens DEF SetAvailability
<1>5. ASSUME Calls(s, "add_work"), NEW key \in WorkKeys, AddPortfolioItem(s, key) PROVE Goal
  <2>1. key \in WorkKey
    BY DEF WorkKeys, WorkKey, NoKey, Base, StorageOK
  <2>2. HandlerOK(HandlerAt("add_work", "insert", key))
    BY <2>1
  <2> QED
    BY <1>5, <2>2, Opens DEF AddPortfolioItem
<1>6. ASSUME RemovesWork(s) PROVE Goal
  BY <1>6 DEF RemovesWork, RemovePortfolioItem
<1>7. ASSUME Calls(s, "provider_image"), NEW kind \in ImageKind, UploadProviderImage(s, kind)
      PROVE  Goal
  <2>1. image[kind] \in Nat /\ NoKey \in Nat
    BY DEF Base, FilesOK, NoKey
  <2>2. HandlerOK(HandlerAt("provider_image", "put", Upload(kind, image[kind])))
    BY <2>1
  <2> QED
    BY <1>7, <2>2, Opens DEF UploadProviderImage, Uploads
<1>8. ASSUME Calls(s, "document"), UploadProviderDocument(s) PROVE Goal
  <2>1. HandlerOK(HandlerAt("document", "put", Upload(0, NoKey)))
    BY DEF NoKey
  <2> QED
    BY <1>8, <2>1, Opens DEF UploadProviderDocument, Uploads
<1>9. ASSUME Calls(s, "service_image"), NEW v \in Listing, UploadServiceImage(s, v)
      PROVE  Goal
  <2>1. HandlerOK(HandlerAt("service_image", "put", Upload(v, NoKey)))
    BY <1>9 DEF NoKey, UploadServiceImage
  <2> QED
    BY <1>9, <2>1, Opens DEF UploadServiceImage, Uploads
<1> QED
  BY <1>1, <1>2, <1>3, <1>4, <1>5, <1>6, <1>7, <1>8, <1>9 DEF ProfileCall, RemovesWork

LEMMA ListingCallTurns ==
  ASSUME Base, NEW s \in Session, ListingCall(s)
  PROVE  UNCHANGED handler \/ \E h : Turns(s, h)
<1> DEFINE Goal == UNCHANGED handler \/ \E h : Turns(s, h)
<1> USE DEF HandlerAt, HandlerOK, StationOK, KeepsFile, KeepsProfile, KeepsListing,
            KeepsCategory, KeepsMessage, Routes, Uploading
<1>1. ASSUME Calls(s, "create_listing"), NEW v \in Listing, NEW status \in {"ACTIVE", "DRAFT"},
             NEW c \in Category, CreateListing(s, v, status, c)
      PROVE  Goal
  <2> DEFINE kept == [id |-> v, status |-> status, category |-> c]
  <2>1. HandlerOK(HandlerAt("create_listing", "insert", kept))
    OBVIOUS
  <2> QED
    BY <1>1, <2>1, Opens DEF CreateListing
<1>2. ASSUME Calls(s, "update_listing"), NEW v \in Listing, NEW status \in Patches,
             NEW c \in Category \cup {NoCategory}, UpdateListing(s, v, status, c)
      PROVE  Goal
  <2> DEFINE kept == [id |-> v, status |-> status, category |-> c]
  <2>1. HandlerOK(HandlerAt("update_listing", "write", kept))
    BY <1>2 DEF UpdateListing
  <2> QED
    BY <1>2, <2>1, Opens DEF UpdateListing
<1>3. ASSUME Calls(s, "remove_listing"), NEW v \in Listing, RemoveListing(s, v) PROVE Goal
  <2>1. HandlerOK(HandlerAt("remove_listing", "write", v))
    BY <1>3 DEF RemoveListing
  <2> QED
    BY <1>3, <2>1, Opens DEF RemoveListing
<1> QED
  BY <1>1, <1>2, <1>3 DEF ListingCall

LEMMA AdminCallTurns ==
  ASSUME Base, NEW s \in Session, AdminCall(s)
  PROVE  UNCHANGED handler \/ \E h : Turns(s, h)
<1> DEFINE Goal == UNCHANGED handler \/ \E h : Turns(s, h)
<1> USE DEF HandlerAt, HandlerOK, StationOK, KeepsFile, KeepsProfile, KeepsListing,
            KeepsCategory, KeepsMessage, Routes, Uploading
<1>1. ASSUME Calls(s, "moderate"), NEW v \in Listing,
             NEW action \in {"TAKE_DOWN", "PAUSE", "REINSTATE"}, ModerateService(s, v, action)
      PROVE  Goal
  <2>1. HandlerOK(HandlerAt("moderate", "write", [id |-> v, action |-> action]))
    BY <1>1 DEF ModerateService
  <2> QED
    BY <1>1, <2>1, Opens DEF ModerateService
<1>2. ASSUME Calls(s, "verify"), NEW d \in {"APPROVED", "REJECTED"}, VerifyProvider(s, d)
      PROVE  Goal
  <2>1. HandlerOK(HandlerAt("verify", "write", d))
    BY <1>2 DEF VerifyProvider, Open
  <2> QED
    BY <1>2, <2>1, Opens DEF VerifyProvider
<1>3. ASSUME SuspendProvider(s) \/ ReinstateProvider(s) PROVE Goal
  BY <1>3 DEF SuspendProvider, ReinstateProvider
<1>4. ASSUME NEW i, NEW d, ReviewDocument(s, i, d) PROVE Goal
  BY <1>4 DEF ReviewDocument
<1> QED
  BY <1>1, <1>2, <1>3, <1>4 DEF AdminCall

LEMMA TreeCallTurns ==
  ASSUME Base, NEW s \in Session, TreeCall(s)
  PROVE  UNCHANGED handler \/ \E h : Turns(s, h)
<1> DEFINE Goal == UNCHANGED handler \/ \E h : Turns(s, h)
<1> USE DEF HandlerAt, HandlerOK, StationOK, KeepsFile, KeepsProfile, KeepsListing,
            KeepsCategory, KeepsMessage, Routes, Uploading
<1>1. ASSUME Calls(s, "create_category"), NEW c \in Category, NEW p \in Category \cup {NoCategory},
             CreateCategory(s, c, p)
      PROVE  Goal
  <2>1. HandlerOK(HandlerAt("create_category", "insert", [id |-> c, parent |-> p]))
    OBVIOUS
  <2> QED
    BY <1>1, <2>1, Opens DEF CreateCategory
<1>2. ASSUME Calls(s, "move_category"), NEW c \in Category, NEW p \in Category \cup {NoCategory},
             MoveCategory(s, c, p)
      PROVE  Goal
  <2> DEFINE kept == [id |-> c, parent |-> p, cursor |-> p, depth |-> 0]
  <2>1. kept \in Climber
    BY DEF Climber
  <2> HIDE DEF kept
  <2>2. \A at \in {"write", "climb"} : HandlerOK(HandlerAt("move_category", at, kept))
    BY <2>1
  <2> QED
    BY <1>2, <2>2, Opens DEF MoveCategory, kept
<1>3. ASSUME Calls(s, "remove_category"), NEW c \in Category, RemoveCategory(s, c) PROVE Goal
  <2>1. \A at \in {"hide", "delete"} : HandlerOK(HandlerAt("remove_category", at, c))
    OBVIOUS
  <2> QED
    BY <1>3, <2>1, Opens DEF RemoveCategory
<1>4. ASSUME NEW c, NEW active, ShowCategory(s, c, active) PROVE Goal
  BY <1>4 DEF ShowCategory
<1> QED
  BY <1>1, <1>2, <1>3, <1>4 DEF TreeCall

LEMMA MessageCallTurns ==
  ASSUME Base, NEW s \in Session, MessageCall(s) \/ FavouriteCall(s)
  PROVE  UNCHANGED handler \/ \E h : Turns(s, h)
<1> DEFINE Goal == UNCHANGED handler \/ \E h : Turns(s, h)
<1> USE DEF HandlerAt, HandlerOK, StationOK, KeepsFile, KeepsProfile, KeepsListing,
            KeepsCategory, KeepsMessage, Routes, Uploading
<1>1. ASSUME Calls(s, "message"), NEW user \in User, NEW a \in Anchor, Send(s, user, a)
      PROVE  Goal
  <2>1. PICK to \in Recipients(user, a) :
          Goes(s, "message", "insert", Envelope(user, a, to, NoKey))
    BY <1>1 DEF Send
  <2>2. to \in User /\ to # user
    BY RecipientsOK DEF Base
  <2>3. Envelope(user, a, to, NoKey) \in Letter
        /\ Envelope(user, a, to, NoKey).from # Envelope(user, a, to, NoKey).to
    BY <2>2 DEF Envelope, Letter, NoKey
  <2>4. HandlerOK(HandlerAt("message", "insert", Envelope(user, a, to, NoKey)))
    BY <2>3
  <2> QED
    BY <1>1, <2>1, <2>4, Opens DEF Send
<1>2. ASSUME Calls(s, "attachment"), NEW user \in User, NEW a \in Anchor,
             SendAttachment(s, user, a)
      PROVE  Goal
  <2>1. Envelope(user, a, user, NoKey) \in Letter
    BY DEF Envelope, Letter, NoKey
  <2>2. HandlerOK(HandlerAt("attachment", "put", Envelope(user, a, user, NoKey)))
    BY <2>1
  <2> QED
    BY <1>2, <2>2, Opens DEF SendAttachment
<1>3. ASSUME Calls(s, "thread"), NEW user \in User, NEW a \in Anchor,
             NEW n \in scenario.pages, NEW limit \in 1..MaxLimit,
             ReadThread(s, user, a, n, limit)
      PROVE  Goal
  <2> DEFINE kept == [user |-> user, anchor |-> a, page |-> Page(Thread(user, a), n, limit)]
  <2>1. Page(Thread(user, a), n, limit) \subseteq Nat
    BY DEF Page, Thread, Base, ThreadsOK
  <2>2. HandlerOK(HandlerAt("thread", "stamp", kept))
    BY <2>1
  <2> QED
    BY <1>3, <2>2, Opens DEF ReadThread
<1>4. ASSUME NEW user, NEW ids, MarkRead(s, user, ids) PROVE Goal
  BY <1>4 DEF MarkRead
<1>5. ASSUME Calls(s, "report"), NEW user \in User, NEW target \in Target, Report(s, user, target)
      PROVE  Goal
  <2>1. HandlerOK(HandlerAt("report", "insert", <<user, target>>))
    OBVIOUS
  <2> QED
    BY <1>5, <2>1, Opens DEF Report
<1>6. ASSUME Calls(s, "favourite"), AddFavourite(s) PROVE Goal
  <2>1. HandlerOK(HandlerAt("favourite", "upsert", <<>>))
    OBVIOUS
  <2> QED
    BY <1>6, <2>1, Opens DEF AddFavourite
<1>7. ASSUME RemoveFavourite(s) PROVE Goal
  BY <1>7 DEF RemoveFavourite
<1> QED
  BY <1>1, <1>2, <1>3, <1>4, <1>5, <1>6, <1>7 DEF MessageCall, FavouriteCall

LEMMA StepTurns ==
  ASSUME Base, NEW s \in Session,
         \/ ProfileStep(s) \/ ListingStep(s) \/ TreeStep(s) \/ MessageStep(s)
  PROVE  \E h : Turns(s, h)
<1> DEFINE Goal == \E h : Turns(s, h)
<1>1. HandlerOK(handler[s])
  BY InHandler
<1>2. ASSUME Done(s), handler[s].at # "idle" PROVE Goal
  BY <1>2, Ends
<1>3. ASSUME InsertProfile(s) \/ WriteProfile(s) \/ WriteClosed(s) \/ InsertWeek(s)
             \/ InsertPortfolioItem(s) \/ CreateDocument(s) \/ CreateServiceImage(s)
      PROVE  Goal
  BY <1>2, <1>3 DEF InsertProfile, WriteProfile, WriteClosed, InsertWeek, InsertPortfolioItem,
                    CreateDocument, CreateServiceImage, Continue, At
<1>4. ASSUME InsertListing(s) \/ WriteListing(s) \/ WriteRemoved(s) \/ WriteModerated(s)
             \/ WriteVerified(s)
      PROVE  Goal
  BY <1>2, <1>4 DEF InsertListing, WriteListing, WriteRemoved, WriteModerated, WriteVerified,
                    Continue, At
<1>5. ASSUME InsertCategory(s) \/ WriteMove(s) \/ HideCategory(s) \/ DeleteCategory(s)
      PROVE  Goal
  BY <1>2, <1>5 DEF InsertCategory, WriteMove, HideCategory, DeleteCategory, Continue, At
<1>6. ASSUME InsertMessage(s) \/ StampRead(s) \/ InsertReport(s) \/ UpsertFavourite(s) PROVE Goal
  BY <1>2, <1>6 DEF InsertMessage, StampRead, InsertReport, UpsertFavourite, Continue, At
<1>7. ASSUME CountBookings(s) PROVE Goal
  <2>1. handler[s].route = "close_profile" /\ handler[s].at = "count"
    BY <1>7 DEF CountBookings, Continue, At
  <2>2. HandlerOK(HandlerAt("close_profile", "write", <<>>))
    BY <1>1, <2>1 DEF HandlerAt, HandlerOK, StationOK, KeepsFile, KeepsProfile, KeepsListing,
                      KeepsCategory, KeepsMessage, Routes, Uploading
  <2> QED
    BY <1>2, <1>7, <2>1, <2>2, GoesOn DEF CountBookings
<1>8. ASSUME WriteProviderImage(s) PROVE Goal
  <2>1. handler[s].route = "provider_image" /\ handler[s].at = "row"
    BY <1>8 DEF WriteProviderImage, Continue, At
  <2>2. HandlerOK(HandlerAt("provider_image", "discard", handler[s].kept))
    BY <1>1, <2>1 DEF HandlerAt, HandlerOK, StationOK, KeepsFile, KeepsProfile, KeepsListing,
                      KeepsCategory, KeepsMessage, Routes, Uploading
  <2> QED
    BY <1>2, <1>8, <2>1, <2>2, GoesOn DEF WriteProviderImage, Replaces, Kept
<1>9. ASSUME CountImages(s) PROVE Goal
  <2> DEFINE n == Cardinality(ImagesOf(handler[s].kept.ref))
             kept == [handler[s].kept EXCEPT !.old = n]
  <2>1. handler[s].route = "service_image" /\ handler[s].at = "row"
    BY <1>9 DEF CountImages, Continue, At
  <2>2. IsFiniteSet(ImagesOf(handler[s].kept.ref))
    <3>1. IsFiniteSet(1..Len(gallery)) /\ DOMAIN gallery = 1..Len(gallery)
      BY FS_Interval DEF Base, FilesOK
    <3>2. ImagesOf(handler[s].kept.ref) \subseteq 1..Len(gallery)
      BY <3>1 DEF ImagesOf
    <3> QED
      BY <3>1, <3>2, FS_Subset
  <2>3. n \in Nat
    BY <2>2, FS_CardinalityType
  <2> HIDE DEF n
  <2>4. /\ handler[s].kept \in [ref : Listing, old : Nat, key : Nat]
        /\ listing[handler[s].kept.ref].exists
    BY <1>1, <2>1 DEF HandlerOK, KeepsFile
  <2>5. kept \in [ref : Listing, old : Nat, key : Nat] /\ kept.ref = handler[s].kept.ref
    BY <2>3, <2>4
  <2>6. Goes(s, "service_image", "place", kept)
    BY <1>9 DEF CountImages, Kept, n
  <2> HIDE DEF kept
  <2>7. HandlerOK(HandlerAt("service_image", "place", kept))
    BY <2>4, <2>5 DEF HandlerAt, HandlerOK, StationOK, KeepsFile, KeepsProfile, KeepsListing,
                      KeepsCategory, KeepsMessage, Routes, Uploading
  <2> QED
    BY <2>1, <2>6, <2>7, GoesOn
<1>10. ASSUME Climb(s) PROVE Goal
  <2> DEFINE k == handler[s].kept
             up == IF category[k.cursor].exists THEN category[k.cursor].parent ELSE NoCategory
             next == [k EXCEPT !.depth = @ + 1, !.cursor = up]
  <2>1. handler[s].route = "move_category" /\ handler[s].at = "climb"
    BY <1>10 DEF Climb, Continue, At
  <2>2. k \in Climber
    BY <1>1, <2>1 DEF HandlerOK, KeepsCategory
  <2>3. \A kept \in Climber, at \in {"write", "climb"} :
          HandlerOK(HandlerAt("move_category", at, kept))
    BY DEF HandlerAt, HandlerOK, StationOK, KeepsFile, KeepsProfile, KeepsListing,
           KeepsCategory, KeepsMessage, Routes, Uploading
  <2>4. CASE k.cursor = NoCategory \/ k.depth = Depth
    <3>1. Goes(s, "move_category", "write", k)
      BY <1>10, <2>4 DEF Climb, Kept
    <3> QED
      BY <2>1, <2>2, <2>3, <3>1, GoesOn
  <2>5. CASE ~(k.cursor = NoCategory \/ k.depth = Depth)
    <3>1. Done(s) \/ Goes(s, "move_category", "climb", next)
      BY <1>10, <2>5 DEF Climb, Kept
    <3>2. next \in Climber
      <4>1. category[k.cursor] \in CategoryRow
        BY <2>2, <2>5 DEF Base, TreeOK, Climber
      <4>2. up \in Category \cup {NoCategory}
        BY <4>1 DEF CategoryRow
      <4>3. \A kept \in Climber, c \in Category \cup {NoCategory} :
              [kept EXCEPT !.depth = @ + 1, !.cursor = c] \in Climber
        <5>1. \A kept \in Climber, c \in Category \cup {NoCategory}, n \in Nat :
                [kept EXCEPT !.depth = n, !.cursor = c] \in Climber
          BY DEF Climber
        <5>2. \A kept \in Climber : kept.depth + 1 \in Nat
          BY DEF Climber
        <5> QED
          BY <5>1, <5>2
      <4> HIDE DEF up
      <4> QED
        BY <2>2, <4>2, <4>3
    <3> HIDE DEF next
    <3> QED
      BY <1>2, <2>1, <2>3, <3>1, <3>2, GoesOn
  <2> QED
    BY <2>4, <2>5
<1>11. ASSUME ResolveAttachment(s) PROVE Goal
  <2> DEFINE m == handler[s].kept
  <2>1. handler[s].route = "attachment" /\ handler[s].at = "row"
    BY <1>11 DEF ResolveAttachment, Continue, At
  <2>2. m \in Letter
    BY <1>1, <2>1 DEF HandlerOK, KeepsMessage
  <2>3. \A kept \in Letter :
          /\ HandlerOK(HandlerAt("attachment", "discard", kept))
          /\ kept.from # kept.to => HandlerOK(HandlerAt("attachment", "insert", kept))
    BY DEF HandlerAt, HandlerOK, StationOK, KeepsFile, KeepsProfile, KeepsListing,
           KeepsCategory, KeepsMessage, Routes, Uploading
  <2>4. CASE Refuse(s)
    <3>1. [m EXCEPT !.old = m.key] \in Letter
      BY <2>2 DEF Letter
    <3>2. Goes(s, "attachment", "discard", [m EXCEPT !.old = m.key])
      BY <2>4 DEF Refuse, Kept
    <3> QED
      BY <2>1, <2>3, <3>1, <3>2, GoesOn
  <2>5. ASSUME NEW to \in Recipients(m.from, m.anchor),
               Goes(s, "attachment", "insert", [m EXCEPT !.to = to])
        PROVE  Goal
    <3>1. to \in User /\ to # m.from
      BY <2>2, RecipientsOK DEF Base, Letter
    <3>2. [m EXCEPT !.to = to] \in Letter
          /\ [m EXCEPT !.to = to].from # [m EXCEPT !.to = to].to
      BY <2>2, <3>1 DEF Letter
    <3> QED
      BY <2>1, <2>3, <2>5, <3>2, GoesOn
  <2> QED
    BY <1>11, <2>4, <2>5 DEF ResolveAttachment, Kept
<1> HIDE DEF Goal
<1>12. Goal
  BY <1>3, <1>4, <1>5, <1>6, <1>7, <1>8, <1>9, <1>10, <1>11
     DEF ProfileStep, ListingStep, TreeStep, MessageStep
<1> QED
  BY <1>12 DEF Goal

LEMMA StorageTurns ==
  ASSUME Base, NEW s \in Session, StorageWrite(s)
  PROVE  \E h : Turns(s, h)
<1> DEFINE Goal == \E h : Turns(s, h)
<1> USE DEF HandlerAt, HandlerOK, StationOK, KeepsFile, KeepsProfile, KeepsListing,
            KeepsCategory, KeepsMessage, Routes, Uploading
<1>1. HandlerOK(handler[s])
  BY InHandler
<1>2. handler[s].at # "idle"
  BY DEF StorageWrite, Put, Discard, Fail
<1>3. CASE Done(s)
  BY <1>2, <1>3, Ends
<1>4. ASSUME Put(s), ~Done(s) PROVE Goal
  <2> DEFINE kept == [handler[s].kept EXCEPT !.key = keys']
  <2>1. keys' \in Nat
    BY <1>4 DEF Put, Base, StorageOK
  <2>2. handler[s].route \in Uploading /\ Goes(s, handler[s].route, "row", kept)
    BY <1>1, <1>4 DEF Put, Kept
  <2>3. HandlerOK(HandlerAt(handler[s].route, "row", kept))
    <3>1. CASE handler[s].route = "provider_image"
      <4>1. kept \in [ref : ImageKind, old : Nat, key : Nat]
        BY <1>1, <2>1, <3>1
      <4> HIDE DEF kept
      <4> QED
        BY <3>1, <4>1
    <3>2. CASE handler[s].route = "document"
      <4>1. kept \in [ref : {0}, old : Nat, key : Nat]
        BY <1>1, <2>1, <3>2
      <4> HIDE DEF kept
      <4> QED
        BY <3>2, <4>1
    <3>3. CASE handler[s].route = "service_image"
      <4>1. kept \in [ref : Listing, old : Nat, key : Nat] /\ listing[kept.ref].exists
        BY <1>1, <2>1, <3>3
      <4> HIDE DEF kept
      <4> QED
        BY <3>3, <4>1
    <3>4. CASE handler[s].route = "attachment"
      <4>1. kept \in Letter
        BY <1>1, <2>1, <3>4 DEF Letter
      <4> HIDE DEF kept
      <4> QED
        BY <3>4, <4>1
    <3> QED
      BY <2>2, <3>1, <3>2, <3>3, <3>4
  <2> HIDE DEF kept
  <2> QED
    BY <1>2, <2>2, <2>3, GoesOn
<1>5. ASSUME Fail(s), ~Done(s) PROVE Goal
  <2> DEFINE kept == [handler[s].kept EXCEPT !.old = handler[s].kept.key]
  <2>1. handler[s].route = "attachment" /\ Goes(s, "attachment", "discard", kept)
    BY <1>5 DEF Fail, Kept
  <2>2. kept \in Letter
    BY <1>1, <2>1 DEF Letter
  <2> HIDE DEF kept
  <2>3. HandlerOK(HandlerAt("attachment", "discard", kept))
    BY <2>2
  <2> QED
    BY <1>2, <2>1, <2>3, GoesOn
<1>6. Discard(s) => Done(s)
  BY DEF Discard
<1> QED
  BY <1>3, <1>4, <1>5, <1>6 DEF StorageWrite

(* Every step that is not a restart is a turn of one session, or of none.  *)
LEMMA WhoTurns ==
  ASSUME Base, [Next]_vars
  PROVE  \/ UNCHANGED handler
         \/ \E s \in Session : \E h : Turns(s, h)
         \/ handler' = [s \in Session |-> Idle]
<1>1. CASE CatalogueNext
  BY <1>1, ProfileCallTurns, ListingCallTurns, AdminCallTurns, TreeCallTurns, StepTurns
     DEF CatalogueNext
<1>2. CASE MessagesNext
  BY <1>2, MessageCallTurns, StepTurns DEF MessagesNext, QuoteArrives, storageVars
<1>3. CASE StorageNext
  BY <1>3, StorageTurns DEF StorageNext, StorageWrite
<1>4. CASE Restart
  BY <1>4 DEF Restart
<1>5. CASE UNCHANGED vars
  BY <1>5 DEF vars, storageVars
<1> QED
  BY <1>1, <1>2, <1>3, <1>4, <1>5 DEF Next

LEMMA StorageStep ==
  ASSUME Base, [Next]_vars
  PROVE  StorageOK' /\ keys <= keys'
<1>1. keys \in Nat /\ objects \subseteq 1..keys
  BY DEF Base, StorageOK
<1>2. CASE UNCHANGED stored
  BY <1>1, <1>2 DEF stored, StorageOK
<1>3. ASSUME NEW s \in Session, StorageWrite(s) PROVE StorageOK' /\ keys <= keys'
  BY <1>1, <1>3 DEF StorageWrite, Put, Discard, Fail, StorageOK
<1>4. ASSUME NEW s \in Session, CatalogueWrite(s) PROVE UNCHANGED stored
  BY <1>4, CatalogueWriters
<1>5. ASSUME NEW s \in Session, MessageWrite(s) PROVE UNCHANGED stored
  BY <1>5 DEF MessageWrite, InsertMessage, StampRead, InsertReport, UpsertFavourite,
              RemoveFavourite, MarkRead, Continue, Begin
<1>6. ASSUME NEW p \in Supplier, QuoteArrives(p) PROVE UNCHANGED stored
  BY <1>6 DEF QuoteArrives, stored, storageVars
<1> QED
  BY <1>2, <1>3, <1>4, <1>5, <1>6, StepKinds DEF Quiet

LEMMA HandlerIs ==
  ASSUME NEW s \in Session, NEW h, handler'[s] = h, HandlerOK(h)'
  PROVE  HandlerOK(handler[s])'
<1>1. StationOK(handler[s])'
  BY DEF HandlerOK, StationOK
<1>2. KeepsFile(handler[s])'
  BY DEF HandlerOK, KeepsFile
<1>3. KeepsProfile(handler[s])' /\ KeepsListing(handler[s])'
  BY DEF HandlerOK, KeepsProfile, KeepsListing
<1>4. KeepsCategory(handler[s])' /\ KeepsMessage(handler[s])'
  BY DEF HandlerOK, KeepsCategory, KeepsMessage
<1> QED
  BY <1>1, <1>2, <1>3, <1>4 DEF HandlerOK

LEMMA HandlersStep ==
  ASSUME MarketplaceAssumption, Base, [Next]_vars
  PROVE  HandlersOK'
<1>1. /\ DOMAIN handler = Session
      /\ \A s \in Session : /\ HandlerOK(handler[s])
                            /\ handler[s].route \in scenario.routes[s] \cup {"none"}
      /\ scenario.serial =>
           \A r, s \in Session : r # s => handler[r].at = "idle" \/ handler[s].at = "idle"
  BY DEF Base, HandlersOK
<1>2. /\ provider.exists => provider'.exists
      /\ \A v \in Listing : listing[v].exists => listing'[v].exists
      /\ UNCHANGED scenario
  BY ProviderStep, TablesStep, StepKinds
<1>3. ASSUME NEW h, HandlerOK(h) PROVE HandlerOK(h)'
  BY <1>2, <1>3, HandlerKept
<1>4. CASE UNCHANGED handler
  BY <1>1, <1>2, <1>3, <1>4, HandlerIs DEF HandlersOK
<1>5. ASSUME NEW s \in Session, NEW h, Turns(s, h) PROVE HandlersOK'
  <2>1. /\ handler' = [handler EXCEPT ![s] = h]
        /\ DOMAIN handler' = Session /\ handler'[s] = h
        /\ \A r \in Session \ {s} : handler'[r] = handler[r]
        /\ HandlerOK(h)
    BY <1>1, <1>5 DEF Turns
  <2>2. h.route \in scenario.routes[s] \cup {"none"}
    BY <1>1, <1>5 DEF Turns
  <2>3. \A r \in Session : HandlerOK(handler[r])'
    BY <1>1, <1>3, <2>1, HandlerIs
  <2>4. \A r \in Session : handler'[r].route \in scenario'.routes[r] \cup {"none"}
    BY <1>1, <1>2, <2>1, <2>2
  <2>5. scenario'.serial =>
          \A r, q \in Session : r # q => handler'[r].at = "idle" \/ handler'[q].at = "idle"
    BY <1>1, <1>2, <1>5, <2>1 DEF Turns
  <2> QED
    BY <2>1, <2>3, <2>4, <2>5 DEF HandlersOK
<1>6. CASE handler' = [s \in Session |-> Idle]
  <2>1. /\ DOMAIN handler' = Session
        /\ \A s \in Session : handler'[s] = Idle
    BY <1>6
  <2>2. Idle.route = "none" /\ Idle.at = "idle"
    BY DEF Idle
  <2>3. \A s \in Session : HandlerOK(handler[s])'
    BY <1>3, <2>1, IdleOK, HandlerIs
  <2> QED
    BY <2>1, <2>2, <2>3 DEF HandlersOK
<1> QED
  BY <1>4, <1>5, <1>6, WhoTurns

LEMMA BaseStep ==
  ASSUME MarketplaceAssumption, Base, [Next]_vars
  PROVE  Base'
<1>1. ScenarioOK'
  BY StepKinds DEF Base, ScenarioOK
<1> QED
  BY <1>1, ProviderStep, WeekStep, FilesStep, TablesStep, ThreadsStep, StorageStep,
     HandlersStep DEF Base

LEMMA BaseInit ==
  ASSUME MarketplaceAssumption, Init
  PROVE  Base
<1>1. scenario \in Scenarios /\ scenario \in ScenarioType /\ WellFormed(scenario)
  BY DEF Init, MarketplaceAssumption
<1>2. ProviderOK
  BY DEF Init, ProviderOK, ProviderRow, NoProfile
<1>3. WeekOK /\ StorageOK /\ ThreadsOK
  BY DEF Init, WeekOK, StorageOK, ThreadsOK, Supplier
<1>4. image \in [ImageKind -> Nat] /\ portfolio = <<>> /\ documents = <<>> /\ gallery = <<>>
  BY DEF Init, NoKey
<1>5. FilesOK
  BY <1>4 DEF FilesOK
<1>6. category \in [Category -> CategoryRow] /\ category = scenario.tree
  BY <1>1 DEF Init, ScenarioType
<1>7. TreeOK
  <2> SUFFICES ASSUME NEW c \in Category
               PROVE  IF category[c].exists THEN Exists(category[c].parent)
                                            ELSE category[c] \in {NoRow, Deleted}
    BY <1>6 DEF TreeOK
  <2>1. category[c] = NoRow \/ category[c].exists
    BY <1>1, <1>6 DEF WellFormed
  <2>2. category[c].parent = NoCategory \/ category[category[c].parent].exists
    BY <1>1, <1>6 DEF WellFormed
  <2> QED
    BY <2>1, <2>2 DEF Exists
<1>8. ListingsOK
  <2>1. scenario.listed \subseteq Listing /\ scenario.shelf \in Category
    BY <1>1 DEF ScenarioType
  <2>2. scenario.listed # {} => category[scenario.shelf].exists
    BY <1>1, <1>6 DEF WellFormed
  <2> DEFINE Shown == [exists |-> TRUE, status |-> "ACTIVE", deleted |-> FALSE,
                       category |-> scenario.shelf]
  <2>3. Shown \in ListingRow /\ NoListing \in ListingRow
    BY <2>1 DEF ListingRow, NoListing
  <2>4. Shown.exists /\ Shown.category = scenario.shelf /\ ~NoListing.exists
    BY DEF NoListing
  <2>5. listing = [v \in Listing |-> IF v \in scenario.listed THEN Shown ELSE NoListing]
    BY DEF Init
  <2> HIDE DEF Shown
  <2> QED
    BY <2>1, <2>2, <2>3, <2>4, <2>5 DEF ListingsOK
<1>9. HandlersOK
  <2>1. handler = [s \in Session |-> Idle] /\ Idle.route = "none" /\ Idle.at = "idle"
    BY DEF Init, Idle
  <2> QED
    BY <2>1, IdleOK DEF HandlersOK
<1> QED
  BY <1>1, <1>2, <1>3, <1>5, <1>7, <1>8, <1>9 DEF Base, ScenarioOK

LEMMA BaseAlways ==
  ASSUME MarketplaceAssumption
  PROVE  Spec => []Base
<1>1. Init => Base
  BY BaseInit
<1>2. Base /\ [Next]_vars => Base'
  BY BaseStep
<1> QED
  BY <1>1, <1>2, PTL DEF Spec

-----------------------------------------------------------------------------
(* Whose step it is, and where it leads *)

SessionCall(s) ==
  \/ ProfileCall(s) \/ ListingCall(s) \/ AdminCall(s) \/ TreeCall(s)
  \/ MessageCall(s) \/ FavouriteCall(s)

SessionStep(s) ==
  \/ ProfileStep(s) \/ ListingStep(s) \/ TreeStep(s) \/ MessageStep(s) \/ StorageWrite(s)

Acts(s) ==
  /\ SessionCall(s) \/ SessionStep(s)
  /\ \A r \in Session \ {s} : handler'[r] = handler[r]

LEMMA OneActs ==
  ASSUME Base, [Next]_vars
  PROVE  \/ UNCHANGED <<handler, objects, messages>>
         \/ handler' = [s \in Session |-> Idle] /\ Quiet /\ restarts' = restarts + 1
         \/ \E s \in Session : Acts(s)
<1> DEFINE Goal == \/ UNCHANGED <<handler, objects, messages>>
                   \/ handler' = [s \in Session |-> Idle] /\ Quiet /\ restarts' = restarts + 1
                   \/ \E s \in Session : Acts(s)
<1>1. DOMAIN handler = Session
  BY DEF Base, HandlersOK
<1>2. ASSUME NEW s \in Session, UNCHANGED handler \/ \E h : Turns(s, h)
      PROVE  \A r \in Session \ {s} : handler'[r] = handler[r]
  BY <1>1, <1>2 DEF Turns
<1>3. ASSUME NEW s \in Session,
             \/ ProfileCall(s) \/ ListingCall(s) \/ AdminCall(s) \/ TreeCall(s)
             \/ MessageCall(s) \/ FavouriteCall(s)
      PROVE  Goal
  BY <1>2, <1>3, ProfileCallTurns, ListingCallTurns, AdminCallTurns, TreeCallTurns,
     MessageCallTurns DEF Acts, SessionCall
<1>4. ASSUME NEW s \in Session,
             ProfileStep(s) \/ ListingStep(s) \/ TreeStep(s) \/ MessageStep(s)
      PROVE  Goal
  BY <1>2, <1>4, StepTurns DEF Acts, SessionStep
<1>5. ASSUME NEW s \in Session, StorageWrite(s) PROVE Goal
  BY <1>2, <1>5, StorageTurns DEF Acts, SessionStep
<1>6. ASSUME NEW p \in Supplier, QuoteArrives(p) PROVE Goal
  BY <1>6 DEF QuoteArrives, storageVars
<1>7. Restart => Goal
  BY DEF Restart, Quiet
<1>8. UNCHANGED vars => Goal
  BY DEF vars, storageVars, messageVars
<1> HIDE DEF Goal
<1>9. Goal
  BY <1>3, <1>4, <1>5, <1>6, <1>7, <1>8
     DEF Next, CatalogueNext, MessagesNext, StorageNext, StorageWrite
<1> QED
  BY <1>9 DEF Goal

LEMMA GoesTo ==
  ASSUME Base, NEW s \in Session, NEW route, NEW at, NEW kept, Goes(s, route, at, kept)
  PROVE  /\ handler'[s] = HandlerAt(route, at, kept)
         /\ handler'[s].route = route /\ handler'[s].at = at /\ handler'[s].kept = kept
BY DEF Goes, HandlerAt, Base, HandlersOK

(* The first statement of a request, by the route it opens.                *)
Opened(s) ==
  /\ handler'[s].at # "idle"
  /\ handler'[s].route \in scenario.routes[s]
  /\ scenario.serial => \A r \in Session : handler[r].at = "idle"
  /\ UNCHANGED stored

OpenedBy(s) ==
  /\ handler'[s].route = "add_work" => \E key \in WorkKeys : AddPortfolioItem(s, key)
  /\ handler'[s].route = "provider_image" => \E kind \in ImageKind : UploadProviderImage(s, kind)
  /\ handler'[s].route = "document" => UploadProviderDocument(s)
  /\ handler'[s].route = "service_image" => \E v \in Listing : UploadServiceImage(s, v)
  /\ handler'[s].route = "move_category"
       => \E c \in Category, p \in Category \cup {NoCategory} : MoveCategory(s, c, p)
  /\ handler'[s].route = "message" => \E user \in User, a \in Anchor : Send(s, user, a)
  /\ handler'[s].route = "attachment" => \E user \in User, a \in Anchor : SendAttachment(s, user, a)
  /\ handler'[s].route = "thread"
       => \E user \in User, a \in Anchor, n \in scenario.pages, limit \in 1..MaxLimit :
            ReadThread(s, user, a, n, limit)

LEMMA CallsOpen ==
  ASSUME Base, NEW s \in Session, SessionCall(s)
  PROVE  handler[s].at = "idle" /\ (UNCHANGED handler \/ (Opened(s) /\ OpenedBy(s)))
<1> DEFINE Goal == handler[s].at = "idle" /\ (UNCHANGED handler \/ (Opened(s) /\ OpenedBy(s)))
           Open2(route) == handler[s].at = "idle" /\ Opened(s) /\ handler'[s].route = route
<1>1. ASSUME NEW route, NEW at, NEW kept, Calls(s, route), Begin(s), at # "idle",
             Goes(s, route, at, kept)
      PROVE  Open2(route)
  BY <1>1, GoesTo DEF Calls, Begin, At, Opened
<1>2. ASSUME NEW route, Open2(route),
             route \notin {"add_work", "provider_image", "document", "service_image",
                           "move_category", "message", "attachment", "thread"}
      PROVE  Goal
  BY <1>2 DEF OpenedBy
<1>3. ASSUME Begin(s), UNCHANGED handler PROVE Goal
  <2>1. handler[s].at = "idle"
    BY <1>3 DEF Begin, At
  <2> QED
    BY <1>3, <2>1
<1> HIDE DEF Goal, Open2
<1>4. ASSUME ProfileCall(s) PROVE Goal
  <2>1. CASE Calls(s, "create_profile") /\ CreateProfile(s)
    <3>1. Open2("create_profile")
      BY <1>1, <2>1 DEF CreateProfile
    <3> QED
      BY <1>2, <3>1
  <2>2. ASSUME Calls(s, "update_profile"), NEW accepting \in BOOLEAN, UpdateProfile(s, accepting)
        PROVE  Goal
    <3>1. Open2("update_profile")
      BY <1>1, <2>2 DEF UpdateProfile
    <3> QED
      BY <1>2, <3>1
  <2>3. CASE Calls(s, "close_profile") /\ CloseProfile(s)
    <3>1. Open2("close_profile")
      BY <1>1, <2>3 DEF CloseProfile
    <3> QED
      BY <1>2, <3>1
  <2>4. ASSUME Calls(s, "set_week"), NEW hours \in SUBSET Hours, SetAvailability(s, hours)
        PROVE  Goal
    <3>1. Open2("set_week")
      BY <1>1, <2>4 DEF SetAvailability
    <3> QED
      BY <1>2, <3>1
  <2>5. ASSUME Calls(s, "add_work"), NEW key \in WorkKeys, AddPortfolioItem(s, key)
        PROVE  Goal
    <3>1. Open2("add_work")
      BY <1>1, <2>5 DEF AddPortfolioItem
    <3> QED
      BY <2>5, <3>1 DEF Goal, Open2, OpenedBy
  <2>6. CASE RemovesWork(s)
    BY <1>3, <2>6 DEF RemovesWork, RemovePortfolioItem
  <2>7. ASSUME Calls(s, "provider_image"), NEW kind \in ImageKind, UploadProviderImage(s, kind)
        PROVE  Goal
    <3>1. Open2("provider_image")
      BY <1>1, <2>7 DEF UploadProviderImage, Uploads
    <3> QED
      BY <2>7, <3>1 DEF Goal, Open2, OpenedBy
  <2>8. CASE Calls(s, "document") /\ UploadProviderDocument(s)
    <3>1. Open2("document")
      BY <1>1, <2>8 DEF UploadProviderDocument, Uploads
    <3> QED
      BY <2>8, <3>1 DEF Goal, Open2, OpenedBy
  <2>9. ASSUME Calls(s, "service_image"), NEW v \in Listing, UploadServiceImage(s, v)
        PROVE  Goal
    <3>1. Open2("service_image")
      BY <1>1, <2>9 DEF UploadServiceImage, Uploads
    <3> QED
      BY <2>9, <3>1 DEF Goal, Open2, OpenedBy
  <2> QED
    BY <1>4, <2>1, <2>2, <2>3, <2>4, <2>5, <2>6, <2>7, <2>8, <2>9
       DEF ProfileCall, RemovesWork
<1>5. ASSUME ListingCall(s) PROVE Goal
  <2>1. ASSUME Calls(s, "create_listing"), NEW v, NEW status, NEW c, CreateListing(s, v, status, c)
        PROVE  Goal
    <3>1. Open2("create_listing")
      BY <1>1, <2>1 DEF CreateListing
    <3> QED
      BY <1>2, <3>1
  <2>2. ASSUME Calls(s, "update_listing"), NEW v, NEW status, NEW c, UpdateListing(s, v, status, c)
        PROVE  Goal
    <3>1. Open2("update_listing")
      BY <1>1, <2>2 DEF UpdateListing
    <3> QED
      BY <1>2, <3>1
  <2>3. ASSUME Calls(s, "remove_listing"), NEW v, RemoveListing(s, v) PROVE Goal
    <3>1. Open2("remove_listing")
      BY <1>1, <2>3 DEF RemoveListing
    <3> QED
      BY <1>2, <3>1
  <2> QED
    BY <1>5, <2>1, <2>2, <2>3 DEF ListingCall
<1>6. ASSUME AdminCall(s) PROVE Goal
  <2>1. ASSUME Calls(s, "moderate"), NEW v, NEW action, ModerateService(s, v, action) PROVE Goal
    <3>1. Open2("moderate")
      BY <1>1, <2>1 DEF ModerateService
    <3> QED
      BY <1>2, <3>1
  <2>2. ASSUME Calls(s, "verify"), NEW d, VerifyProvider(s, d) PROVE Goal
    <3>1. Open2("verify")
      BY <1>1, <2>2 DEF VerifyProvider
    <3> QED
      BY <1>2, <3>1
  <2>3. CASE SuspendProvider(s) \/ ReinstateProvider(s)
    BY <1>3, <2>3 DEF SuspendProvider, ReinstateProvider
  <2>4. ASSUME NEW i, NEW d, ReviewDocument(s, i, d) PROVE Goal
    BY <1>3, <2>4 DEF ReviewDocument
  <2> QED
    BY <1>6, <2>1, <2>2, <2>3, <2>4 DEF AdminCall
<1>7. ASSUME TreeCall(s) PROVE Goal
  <2>1. ASSUME Calls(s, "create_category"), NEW c, NEW p, CreateCategory(s, c, p) PROVE Goal
    <3>1. Open2("create_category")
      BY <1>1, <2>1 DEF CreateCategory
    <3> QED
      BY <1>2, <3>1
  <2>2. ASSUME Calls(s, "move_category"), NEW c \in Category, NEW p \in Category \cup {NoCategory},
               MoveCategory(s, c, p)
        PROVE  Goal
    <3>1. Open2("move_category")
      BY <1>1, <2>2 DEF MoveCategory
    <3> QED
      BY <2>2, <3>1 DEF Goal, Open2, OpenedBy
  <2>3. ASSUME Calls(s, "remove_category"), NEW c, RemoveCategory(s, c) PROVE Goal
    <3>1. Open2("remove_category")
      BY <1>1, <2>3 DEF RemoveCategory
    <3> QED
      BY <1>2, <3>1
  <2>4. ASSUME NEW c, NEW active, ShowCategory(s, c, active) PROVE Goal
    BY <1>3, <2>4 DEF ShowCategory
  <2> QED
    BY <1>7, <2>1, <2>2, <2>3, <2>4 DEF TreeCall
<1>8. ASSUME MessageCall(s) \/ FavouriteCall(s) PROVE Goal
  <2>1. ASSUME Calls(s, "message"), NEW user \in User, NEW a \in Anchor, Send(s, user, a)
        PROVE  Goal
    <3>1. Open2("message")
      BY <1>1, <2>1 DEF Send
    <3> QED
      BY <2>1, <3>1 DEF Goal, Open2, OpenedBy
  <2>2. ASSUME Calls(s, "attachment"), NEW user \in User, NEW a \in Anchor,
               SendAttachment(s, user, a)
        PROVE  Goal
    <3>1. Open2("attachment")
      BY <1>1, <2>2 DEF SendAttachment
    <3> QED
      BY <2>2, <3>1 DEF Goal, Open2, OpenedBy
  <2>3. ASSUME Calls(s, "thread"), NEW user \in User, NEW a \in Anchor,
               NEW n \in scenario.pages, NEW limit \in 1..MaxLimit,
               ReadThread(s, user, a, n, limit)
        PROVE  Goal
    <3>1. Open2("thread")
      BY <1>1, <2>3 DEF ReadThread
    <3> QED
      BY <2>3, <3>1 DEF Goal, Open2, OpenedBy
  <2>4. ASSUME Calls(s, "report"), NEW user, NEW target, Report(s, user, target) PROVE Goal
    <3>1. Open2("report")
      BY <1>1, <2>4 DEF Report
    <3> QED
      BY <1>2, <3>1
  <2>5. CASE Calls(s, "favourite") /\ AddFavourite(s)
    <3>1. Open2("favourite")
      BY <1>1, <2>5 DEF AddFavourite
    <3> QED
      BY <1>2, <3>1
  <2>6. CASE RemoveFavourite(s)
    BY <1>3, <2>6 DEF RemoveFavourite
  <2>7. ASSUME NEW user, NEW ids, MarkRead(s, user, ids) PROVE Goal
    BY <1>3, <2>7 DEF MarkRead
  <2> QED
    BY <1>8, <2>1, <2>2, <2>3, <2>4, <2>5, <2>6, <2>7 DEF MessageCall, FavouriteCall
<1>9. Goal
  BY <1>4, <1>5, <1>6, <1>7, <1>8 DEF SessionCall
<1> QED
  BY <1>9 DEF Goal

(* Every other statement ends the request, except these.                   *)
LEMMA StepsLead ==
  ASSUME Base, NEW s \in Session, SessionStep(s)
  PROVE  /\ handler[s].at # "idle"
         /\ \/ handler'[s] = Idle
            \/ CountBookings(s) \/ CountImages(s) \/ Climb(s) \/ ResolveAttachment(s)
               \/ WriteProviderImage(s) \/ Put(s) \/ Fail(s)
<1> DEFINE Goal == /\ handler[s].at # "idle"
                   /\ \/ handler'[s] = Idle
                      \/ CountBookings(s) \/ CountImages(s) \/ Climb(s) \/ ResolveAttachment(s)
                         \/ WriteProviderImage(s) \/ Put(s) \/ Fail(s)
<1>1. ASSUME Done(s), handler[s].at # "idle" PROVE Goal
  BY <1>1 DEF Done, Base, HandlersOK
<1>2. ASSUME CountBookings(s) \/ CountImages(s) \/ Climb(s) \/ ResolveAttachment(s)
             \/ WriteProviderImage(s) \/ Put(s) \/ Fail(s)
      PROVE  Goal
  BY <1>2 DEF CountBookings, CountImages, Climb, ResolveAttachment, WriteProviderImage, Put,
              Fail, Continue, At
<1> HIDE DEF Goal
<1>3. ASSUME ProfileStep(s) PROVE Goal
  BY <1>1, <1>2, <1>3 DEF ProfileStep, InsertProfile, WriteProfile, WriteClosed, InsertWeek,
     InsertPortfolioItem, CreateDocument, CreateServiceImage, Continue, At
<1>4. ASSUME ListingStep(s) PROVE Goal
  BY <1>1, <1>4 DEF ListingStep, InsertListing, WriteListing, WriteRemoved, WriteModerated,
     WriteVerified, Continue, At
<1>5. ASSUME TreeStep(s) PROVE Goal
  BY <1>1, <1>2, <1>5 DEF TreeStep, InsertCategory, WriteMove, HideCategory, DeleteCategory,
     Continue, At
<1>6. ASSUME MessageStep(s) PROVE Goal
  BY <1>1, <1>2, <1>6 DEF MessageStep, InsertMessage, StampRead, InsertReport, UpsertFavourite,
     Continue, At
<1>7. ASSUME StorageWrite(s) PROVE Goal
  BY <1>1, <1>2, <1>7 DEF StorageWrite, Discard
<1>8. Goal
  BY <1>3, <1>4, <1>5, <1>6, <1>7 DEF SessionStep
<1> QED
  BY <1>8 DEF Goal

-----------------------------------------------------------------------------
(* Every row has its type and what it refers to; the portfolio is bounded  *)

Adding == {s \in Session : At(s, "add_work", "insert")}

AddersOK ==
  Len(portfolio) + Cardinality(Adding) <= PortfolioLimit + Cardinality(Session) - 1

LEMMA Fewer ==
  ASSUME NEW S, IsFiniteSet(S), NEW T, T \subseteq S
  PROVE  /\ IsFiniteSet(T) /\ Cardinality(T) <= Cardinality(S)
         /\ Cardinality(T) \in Nat /\ Cardinality(S) \in Nat
<1>1. T \in SUBSET S
  OBVIOUS
<1>2. IsFiniteSet(T) /\ Cardinality(T) <= Cardinality(S)
  BY <1>1, FS_Subset
<1> QED
  BY <1>2, FS_CardinalityType

LEMMA OneLess ==
  ASSUME NEW S, IsFiniteSet(S), NEW x \in S
  PROVE  /\ IsFiniteSet(S \ {x}) /\ Cardinality(S \ {x}) = Cardinality(S) - 1
         /\ Cardinality(S \ {x}) \in Nat /\ Cardinality(S) \in Nat
BY FS_RemoveElement, FS_CardinalityType

(* A session begins to add a piece of work only below the limit.           *)
LEMMA AddersGrow ==
  ASSUME Base, [Next]_vars
  PROVE  Adding' \subseteq Adding \/ (UNCHANGED portfolio /\ Len(portfolio) < PortfolioLimit)
<1>1. CASE UNCHANGED handler \/ handler' = [s \in Session |-> Idle]
  BY <1>1 DEF Adding, At, Idle
<1>2. ASSUME NEW s \in Session, Acts(s)
      PROVE  Adding' \subseteq Adding \/ (UNCHANGED portfolio /\ Len(portfolio) < PortfolioLimit)
  <2>1. CASE ~At(s, "add_work", "insert")'
    BY <1>2, <2>1 DEF Acts, Adding, At
  <2>2. CASE SessionCall(s) /\ At(s, "add_work", "insert")'
    <3>1. UNCHANGED handler \/ \E key : AddPortfolioItem(s, key)
      BY <2>2, CallsOpen DEF OpenedBy, At
    <3>2. (\E key : AddPortfolioItem(s, key)) => UNCHANGED portfolio /\ Len(portfolio) < PortfolioLimit
      BY DEF AddPortfolioItem, catalogueVars, profileVars
    <3> QED
      BY <1>1, <3>1, <3>2
  <2>3. CASE SessionStep(s) /\ At(s, "add_work", "insert")'
    <3>1. handler'[s].route = "add_work"
      BY <2>3 DEF At
    <3>2. handler'[s] # Idle
      BY <3>1 DEF Idle
    <3>3. ASSUME NEW kept, NEW at, NEW route, Goes(s, route, at, kept), route # "add_work"
          PROVE  FALSE
      BY <3>1, <3>3, GoesTo
    <3>4. ~Done(s)
      BY <3>2 DEF Done, Base, HandlersOK
    <3>5. ~(CountBookings(s) \/ CountImages(s) \/ Climb(s))
      BY <3>3, <3>4 DEF CountBookings, CountImages, Climb
    <3>6. ~(ResolveAttachment(s) \/ WriteProviderImage(s))
      BY <3>3, <3>4 DEF ResolveAttachment, Refuse, WriteProviderImage, Replaces, Continue, At
    <3>7. ~(Put(s) \/ Fail(s))
      <4>1. handler[s].at = "put" => handler[s].route # "add_work"
        BY InHandler DEF HandlerOK, StationOK, Uploading
      <4> QED
        BY <3>3, <3>4, <4>1 DEF Put, Fail
    <3> QED
      BY <2>3, <3>2, <3>5, <3>6, <3>7, StepsLead
  <2> QED
    BY <1>2, <2>1, <2>2, <2>3 DEF Acts
<1> QED
  BY <1>1, <1>2, OneActs

LEMMA AddersStep ==
  ASSUME MarketplaceAssumption, Base, AddersOK, [Next]_vars
  PROVE  AddersOK'
<1>1. /\ IsFiniteSet(Session) /\ PortfolioLimit \in Nat
      /\ portfolio \in Seq(WorkKey) /\ Len(portfolio) \in Nat
      /\ Adding \subseteq Session /\ Adding' \subseteq Session
      /\ Len(portfolio) + Cardinality(Adding) <= PortfolioLimit + Cardinality(Session) - 1
  BY DEF MarketplaceAssumption, AddersOK, Adding, Base, FilesOK
<1>2. /\ IsFiniteSet(Adding) /\ IsFiniteSet(Adding')
      /\ Cardinality(Adding) \in Nat /\ Cardinality(Adding') \in Nat
      /\ Cardinality(Session) \in Nat /\ Cardinality(Adding') <= Cardinality(Session)
  BY <1>1, Fewer
<1>3. CASE UNCHANGED portfolio /\ Len(portfolio) < PortfolioLimit
  BY <1>1, <1>2, <1>3 DEF AddersOK
<1>4. CASE UNCHANGED portfolio /\ Adding' \subseteq Adding
  <2>1. Cardinality(Adding') <= Cardinality(Adding)
    BY <1>2, <1>4, Fewer
  <2> QED
    BY <1>1, <1>2, <1>4, <2>1 DEF AddersOK
<1>5. ASSUME NEW s \in Session, InsertPortfolioItem(s) PROVE AddersOK'
  <2>1. s \in Adding /\ handler' = [handler EXCEPT ![s] = Idle]
        /\ portfolio' = Append(portfolio, handler[s].kept)
    BY <1>5 DEF InsertPortfolioItem, Continue, Adding, Done, Kept
  <2>2. Adding' = Adding \ {s}
    BY <2>1 DEF Adding, At, Idle, Base, HandlersOK
  <2>3. Cardinality(Adding') = Cardinality(Adding) - 1
    BY <1>2, <2>1, <2>2, OneLess
  <2>4. Len(portfolio') = Len(portfolio) + 1
    BY <1>1, <2>1
  <2> QED
    BY <1>1, <1>2, <2>3, <2>4 DEF AddersOK
<1>6. ASSUME NEW s \in Session, RemovesWork(s) PROVE AddersOK'
  <2>1. Len(portfolio') = Len(portfolio) - 1 /\ UNCHANGED handler
    BY <1>1, <1>6, ShorterWork DEF RemovesWork, RemovePortfolioItem
  <2>2. Adding' = Adding
    BY <2>1 DEF Adding, At
  <2> QED
    BY <1>1, <1>2, <2>1, <2>2 DEF AddersOK
<1> QED
  BY <1>3, <1>4, <1>5, <1>6, AddersGrow, Writers

(* Every row has its type and the rows it refers to, in every state: the   *)
(* foreign keys are looked at by the statement that writes, whatever was   *)
(* read before; and the portfolio outgrows its limit by at most one piece  *)
(* for each other session.                                                 *)
THEOREM MarketplaceTypeCorrect == Spec => []MarketplaceTypeOK
<1>1. Init => AddersOK
  <2> SUFFICES ASSUME Init PROVE AddersOK
    OBVIOUS
  <2>1. Len(portfolio) = 0 /\ Adding = {}
    BY DEF Init, Adding, At, Idle
  <2>2. Cardinality(Adding) = 0 /\ Cardinality(Session) \in Nat /\ PortfolioLimit \in Nat \ {0}
    BY <2>1, FS_EmptySet, FS_CardinalityType, MarketplaceAssumption DEF MarketplaceAssumption
  <2> QED
    BY <2>1, <2>2 DEF AddersOK
<1>2. Base /\ AddersOK /\ [Next]_vars => AddersOK'
  BY AddersStep, MarketplaceAssumption
<1>3. Base /\ AddersOK => MarketplaceTypeOK
  <2> SUFFICES ASSUME Base, AddersOK PROVE MarketplaceTypeOK
    OBVIOUS
  <2>1. objects \subseteq 1..keys
    BY DEF Base, StorageOK
  <2>2. \A s \in Session : handler[s].route \in Routes \cup {"none"}
    BY InHandler DEF HandlerOK, StationOK
  <2>3. /\ provider.exists \/ provider = NoProfile
        /\ provider.status \in {"UNVERIFIED", "APPROVED", "REJECTED"}
    BY DEF Base, ProviderOK, ProviderRow
  <2>4. week.rows \subseteq [hour : Hours, save : 1..week.saves]
    BY DEF Base, WeekOK, WeekRow
  <2>5. Len(portfolio) <= PortfolioLimit + Cardinality(Session) - 1
    <3>1. /\ IsFiniteSet(Session) /\ IsFiniteSet(Adding) /\ PortfolioLimit \in Nat
          /\ Len(portfolio) \in Nat
      BY Fewer, MarketplaceAssumption DEF MarketplaceAssumption, Adding, Base, FilesOK
    <3>2. Cardinality(Session) \in Nat /\ Cardinality(Adding) \in Nat
      BY <3>1, FS_CardinalityType
    <3> QED
      BY <3>1, <3>2 DEF AddersOK
  <2>6. /\ \A v \in Listing : listing[v].exists => category[listing[v].category].exists
        /\ \A c \in Category : category[c].exists => Exists(category[c].parent)
    BY DEF Base, ListingsOK, TreeOK
  <2>7. /\ \A i \in DOMAIN gallery : listing[gallery[i].listing].exists
        /\ \A i \in DOMAIN messages : messages[i].from # messages[i].to
        /\ Len(notices) = Len(messages)
    <3>1. DOMAIN gallery = 1..Len(gallery) /\ DOMAIN messages = 1..Len(messages)
      BY DEF Base, FilesOK, ThreadsOK
    <3> QED
      BY <3>1 DEF Base, FilesOK, ThreadsOK
  <2> QED
    BY <2>1, <2>2, <2>3, <2>4, <2>5, <2>6, <2>7 DEF MarketplaceTypeOK
<1> QED
  BY <1>1, <1>2, <1>3, BaseAlways, MarketplaceAssumption, PTL DEF Spec

-----------------------------------------------------------------------------
(* What was taken down returns unlisted *)

LEMMA UnlistedStep ==
  ASSUME Base, [Next]_vars, NEW v \in Listing, listing[v].deleted
  PROVE  ~Discoverable(v)'
<1> DEFINE Goal == listing'[v].deleted \/ listing'[v].status # "ACTIVE"
<1>1. listing \in [Listing -> ListingRow] /\ (listing[v].exists \/ listing[v] = NoListing)
  BY DEF Base, ListingsOK
<1>2. listing[v].exists
  BY <1>1 DEF NoListing
<1>3. ASSUME UNCHANGED listing PROVE Goal
  BY <1>3
<1>4. ASSUME NEW s \in Session, WriteClosed(s) PROVE Goal
  BY <1>4 DEF WriteClosed
<1>5. ASSUME NEW s \in Session, InsertListing(s) PROVE Goal
  BY <1>1, <1>2, <1>5 DEF InsertListing
<1>6. ASSUME NEW s \in Session, WriteListing(s) PROVE Goal
  <2> DEFINE patch == handler[s].kept
             status == IF patch.status = "same" THEN listing[patch.id].status ELSE patch.status
  <2>1. CASE UNCHANGED listing
    BY <2>1
  <2>2. CASE listing' = [listing EXCEPT
                   ![patch.id].status = IF patch.status = "same" THEN @ ELSE patch.status,
                   ![patch.id].category = IF patch.category = NoCategory THEN @ ELSE patch.category]
    <3>1. listing'[v].deleted = listing[v].deleted
      BY <1>1, <2>2 DEF ListingRow
    <3> QED
      BY <3>1
  <2> QED
    BY <1>6, <2>1, <2>2 DEF WriteListing, Kept
<1>7. ASSUME NEW s \in Session, WriteRemoved(s) PROVE Goal
  BY <1>1, <1>7 DEF WriteRemoved, ListingRow
<1>8. ASSUME NEW s \in Session, WriteModerated(s) PROVE Goal
  <2>1. handler[s].kept \in [id : Listing, action : {"TAKE_DOWN", "PAUSE", "REINSTATE"}]
    BY <1>8, InHandler DEF WriteModerated, Continue, At, HandlerOK, KeepsListing
  <2>2. Ruling(handler[s].kept.action).status # "ACTIVE"
    BY <2>1 DEF Ruling
  <2> QED
    BY <1>1, <1>8, <2>1, <2>2 DEF WriteModerated, Kept, ListingRow
<1> HIDE DEF Goal
<1>9. Goal
  BY <1>3, <1>4, <1>5, <1>6, <1>7, <1>8, Writers DEF WritesListing, Goal
<1> QED
  BY <1>9 DEF Goal, Discoverable

(* No step brings a listing that is deleted into what the public list      *)
(* selects, not even one that read the listing before it was.              *)
THEOREM TakenDownStaysUnlisted == Spec => ReturnsUnlisted
<1>1. Base /\ [Next]_vars => [\A v \in Listing : listing[v].deleted => ~Discoverable(v)']_vars
  BY UnlistedStep
<1> QED
  BY <1>1, BaseAlways, MarketplaceAssumption, PTL DEF Spec, ReturnsUnlisted

-----------------------------------------------------------------------------
(* The newest message of a thread is seen before it is marked read *)

FirstPage == scenario.serial /\ scenario.pages = {1}

(* i has a newer message in its thread.                                    *)
Buried(i) == \E j \in Thread(messages[i].to, messages[i].anchor) : j > i

MissedIsBuried ==
  \A i \in DOMAIN messages : messages[i].read /\ ~messages[i].shown => Buried(i)

(* While nothing comes between them, the page of a request that is about   *)
(* to stamp a thread leaves out nothing but what is buried.                *)
PagesAreNewest ==
  \A s \in Session :
    At(s, "thread", "stamp")
      => LET k == handler[s].kept
         IN  \A i \in Thread(k.user, k.anchor) \ k.page :
               \E j \in Thread(k.user, k.anchor) : j > i

SeenOK == FirstPage => MissedIsBuried /\ PagesAreNewest

(* The first page leaves out nothing but what is buried.                   *)
LEMMA FirstPageIsNewest ==
  ASSUME NEW S, S \subseteq Nat, NEW limit \in Nat \ {0}, NEW i \in S \ Page(S, 1, limit)
  PROVE  \E j \in S : j > i
<1> SUFFICES ASSUME ~\E j \in S : j > i PROVE FALSE
  OBVIOUS
<1>1. {j \in S : j > i} = {}
  OBVIOUS
<1>2. Cardinality({j \in S : j > i}) = 0
  BY <1>1, FS_EmptySet
<1>3. 0 \in ((1 - 1) * limit)..(1 * limit - 1)
  OBVIOUS
<1> QED
  BY <1>2, <1>3 DEF Page

LEMMA ThreadsGrow ==
  ASSUME MarketplaceAssumption, Base, [Next]_vars, NEW user, NEW anchor
  PROVE  Thread(user, anchor) \subseteq Thread(user, anchor)'
<1>1. /\ messages \in Seq(MessageRow) /\ Len(messages) \in Nat
      /\ DOMAIN messages = 1..Len(messages)
  BY DEF Base, ThreadsOK
<1>2. CASE UNCHANGED messages
  BY <1>2 DEF Thread
<1>3. ASSUME NEW s \in Session, InsertMessage(s)
      PROVE  Thread(user, anchor) \subseteq Thread(user, anchor)'
  <2>1. PICK row : messages' = Append(messages, row)
    BY <1>3 DEF InsertMessage
  <2>2. /\ DOMAIN messages \subseteq DOMAIN messages'
        /\ \A i \in DOMAIN messages : messages'[i] = messages[i]
    BY <1>1, <2>1
  <2> QED
    BY <2>2 DEF Thread
<1>4. ASSUME NEW s \in Session, StampRead(s)
      PROVE  Thread(user, anchor) \subseteq Thread(user, anchor)'
  <2>1. \A i \in DOMAIN messages : messages[i] \in MessageRow
    BY <1>1
  <2>2. /\ DOMAIN messages' = DOMAIN messages
        /\ \A i \in DOMAIN messages : /\ messages'[i].anchor = messages[i].anchor
                                      /\ messages'[i].from = messages[i].from
                                      /\ messages'[i].to = messages[i].to
    BY <1>4, <2>1 DEF StampRead, MessageRow
  <2> QED
    BY <2>2 DEF Thread
<1> QED
  BY <1>2, <1>3, <1>4, MessageWriters

LEMMA ThreadsCount ==
  ASSUME Base, NEW user, NEW anchor
  PROVE  Thread(user, anchor) \subseteq Nat
BY DEF Base, ThreadsOK, Thread

(* What a request that is about to stamp has read, after any step.         *)
LEMMA PageStep ==
  ASSUME MarketplaceAssumption, Base, SeenOK, [Next]_vars, FirstPage,
         NEW s \in Session, At(s, "thread", "stamp")'
  PROVE  /\ UNCHANGED messages
         /\ LET k == handler'[s].kept
            IN  \A i \in Thread(k.user, k.anchor) \ k.page :
                  \E j \in Thread(k.user, k.anchor) : j > i
<1> DEFINE Newest == LET k == handler'[s].kept
                     IN  \A i \in Thread(k.user, k.anchor) \ k.page :
                           \E j \in Thread(k.user, k.anchor) : j > i
<1>1. handler'[s].at # "idle" /\ handler'[s].route = "thread" /\ handler'[s] # Idle
  BY DEF At, Idle
<1>2. ASSUME handler'[s] = handler[s] PROVE Newest
  BY <1>2 DEF SeenOK, PagesAreNewest, At
<1>3. ASSUME NEW r \in Session, InsertMessage(r) \/ StampRead(r) PROVE FALSE
  <2>1. handler[r].at # "idle" /\ Done(r)
    BY <1>3 DEF InsertMessage, StampRead, Continue, At
  <2>2. handler'[r] = Idle /\ \A q \in Session \ {r} : handler'[q] = handler[q]
    BY <2>1 DEF Done, Base, HandlersOK
  <2>3. r # s /\ handler[s].at # "idle"
    BY <1>1, <2>2
  <2> QED
    BY <2>1, <2>3 DEF Base, HandlersOK, FirstPage
<1>4. UNCHANGED messages
  BY <1>3, MessageWriters
<1>5. ASSUME Acts(s), handler'[s] # handler[s] PROVE Newest
  <2>1. CASE SessionCall(s)
    <3>1. PICK user \in User, a \in Anchor, n \in scenario.pages, limit \in 1..MaxLimit :
                 ReadThread(s, user, a, n, limit)
      BY <1>1, <1>5, <2>1, CallsOpen DEF OpenedBy
    <3>2. n = 1 /\ limit \in Nat \ {0}
      BY DEF FirstPage, MarketplaceAssumption
    <3>3. handler'[s].kept = [user |-> user, anchor |-> a, page |-> Page(Thread(user, a), 1, limit)]
      BY <3>1, <3>2, GoesTo DEF ReadThread
    <3>4. \A i \in Thread(user, a) \ Page(Thread(user, a), 1, limit) :
            \E j \in Thread(user, a) : j > i
      BY <3>2, ThreadsCount, FirstPageIsNewest
    <3> QED
      BY <3>3, <3>4
  <2>2. CASE SessionStep(s)
    <3>1. ASSUME NEW kept, NEW at, NEW route, Goes(s, route, at, kept), route # "thread"
          PROVE  FALSE
      BY <1>1, <3>1, GoesTo
    <3>2. ~Done(s)
      BY <1>1 DEF Done, Base, HandlersOK
    <3>3. ~(CountBookings(s) \/ CountImages(s) \/ Climb(s))
      BY <3>1, <3>2 DEF CountBookings, CountImages, Climb
    <3>4. ~(ResolveAttachment(s) \/ WriteProviderImage(s))
      BY <3>1, <3>2 DEF ResolveAttachment, Refuse, WriteProviderImage, Replaces, Continue, At
    <3>5. ~(Put(s) \/ Fail(s))
      <4>1. handler[s].at = "put" => handler[s].route # "thread"
        BY InHandler DEF HandlerOK, StationOK, Uploading
      <4> QED
        BY <3>1, <3>2, <4>1 DEF Put, Fail
    <3> QED
      BY <1>1, <2>2, <3>3, <3>4, <3>5, StepsLead
  <2> QED
    BY <1>5, <2>1, <2>2 DEF Acts
<1>6. Newest
  <2>1. handler' = [q \in Session |-> Idle] => FALSE
    BY <1>1
  <2>2. ASSUME NEW r \in Session, Acts(r), r # s PROVE handler'[s] = handler[s]
    BY <2>2 DEF Acts
  <2> QED
    BY <1>2, <1>5, <2>1, <2>2, OneActs
<1> QED
  BY <1>4, <1>6

(* What is buried stays so: threads only grow.                             *)
LEMMA BuriedStays ==
  ASSUME MarketplaceAssumption, Base, [Next]_vars, NEW i, Buried(i),
         messages'[i].to = messages[i].to, messages'[i].anchor = messages[i].anchor
  PROVE  Buried(i)'
<1>1. PICK user, anchor : user = messages[i].to /\ anchor = messages[i].anchor
  OBVIOUS
<1>2. PICK j \in Thread(user, anchor) : j > i
  BY <1>1 DEF Buried
<1>3. j \in Thread(user, anchor)'
  BY <1>2, ThreadsGrow
<1>4. j \in DOMAIN messages' /\ messages'[j].anchor = messages'[i].anchor
      /\ messages'[i].to \in {messages'[j].from, messages'[j].to}
  BY <1>1, <1>3 DEF Thread
<1> QED
  BY <1>2, <1>4 DEF Buried, Thread

LEMMA SeenStep ==
  ASSUME MarketplaceAssumption, Base, Base', SeenOK, [Next]_vars
  PROVE  SeenOK'
<1> SUFFICES ASSUME FirstPage' PROVE MissedIsBuried' /\ PagesAreNewest'
  BY DEF SeenOK
<1>1. FirstPage
  BY StepKinds DEF FirstPage
<1>2. PagesAreNewest'
  <2>1. ASSUME NEW s \in Session, At(s, "thread", "stamp")'
        PROVE  /\ UNCHANGED messages
               /\ LET k == handler'[s].kept
                  IN  \A i \in Thread(k.user, k.anchor) \ k.page :
                        \E j \in Thread(k.user, k.anchor) : j > i
    BY <1>1, <2>1, PageStep
  <2> QED
    BY <2>1 DEF PagesAreNewest, Thread
<1>3. /\ messages \in Seq(MessageRow) /\ Len(messages) \in Nat
      /\ DOMAIN messages = 1..Len(messages)
      /\ \A i \in DOMAIN messages : messages[i] \in MessageRow
      /\ \A i \in DOMAIN messages : messages[i].read /\ ~messages[i].shown => Buried(i)
  BY <1>1 DEF Base, ThreadsOK, SeenOK, MissedIsBuried
<1> DEFINE Goal == \A i \in DOMAIN messages' :
                     messages'[i].read /\ ~messages'[i].shown => Buried(i)'
<1>4. ASSUME NEW s \in Session, InsertMessage(s) PROVE Goal
  <2> DEFINE m == handler[s].kept
             row == [anchor |-> m.anchor, from |-> m.from, to |-> m.to,
                     key |-> m.key, read |-> FALSE, shown |-> FALSE]
  <2>1. messages' = Append(messages, row) /\ row.read = FALSE
    BY <1>4 DEF InsertMessage, Kept
  <2> HIDE DEF row
  <2>2. /\ DOMAIN messages' = 1..(Len(messages) + 1)
        /\ \A i \in DOMAIN messages : messages'[i] = messages[i]
        /\ messages'[Len(messages) + 1] = row
    BY <1>3, <2>1
  <2>3. ASSUME NEW i \in DOMAIN messages, messages'[i].read, ~messages'[i].shown
        PROVE  Buried(i)'
    BY <1>3, <2>2, <2>3, BuriedStays
  <2> QED
    BY <1>3, <2>1, <2>2, <2>3
<1>5. ASSUME NEW s \in Session, StampRead(s) PROVE Goal
  <2> DEFINE k == handler[s].kept
             Read(i) == messages[i].read \/ i \in Stamped(k.user, k.anchor)
             Shown(i) == messages[i].shown \/ (i \in k.page /\ messages[i].to = k.user)
  <2>1. messages' = [i \in DOMAIN messages |->
                       [messages[i] EXCEPT !.read = Read(i), !.shown = Shown(i)]]
    BY <1>5 DEF StampRead, Kept
  <2>2. ASSUME NEW i \in Thread(k.user, k.anchor), i \notin k.page
        PROVE  \E j \in Thread(k.user, k.anchor) : j > i
    BY <1>1, <1>5, <2>2 DEF StampRead, Continue, SeenOK, PagesAreNewest
  <2>3. ASSUME NEW i \in DOMAIN messages, Read(i), ~Shown(i) PROVE Buried(i)
    <3>1. CASE messages[i].read
      BY <1>3, <2>3, <3>1
    <3>2. CASE i \in Stamped(k.user, k.anchor)
      <4>1. /\ i \in Thread(k.user, k.anchor) /\ i \notin k.page
            /\ messages[i].to = k.user /\ messages[i].anchor = k.anchor
        BY <2>3, <3>2 DEF Stamped, Thread
      <4> QED
        BY <2>2, <4>1 DEF Buried
    <3> QED
      BY <2>3, <3>1, <3>2
  <2> HIDE DEF Read, Shown
  <2>4. /\ DOMAIN messages' = DOMAIN messages
        /\ \A i \in DOMAIN messages :
             /\ messages'[i].read = Read(i) /\ messages'[i].shown = Shown(i)
             /\ messages'[i].to = messages[i].to /\ messages'[i].anchor = messages[i].anchor
    BY <1>3, <2>1 DEF MessageRow
  <2>5. ASSUME NEW i \in DOMAIN messages, messages'[i].read, ~messages'[i].shown
        PROVE  Buried(i)'
    BY <2>3, <2>4, <2>5, BuriedStays
  <2> QED
    BY <2>4, <2>5
<1>6. ASSUME UNCHANGED messages PROVE Goal
  <2>1. ASSUME NEW i \in DOMAIN messages, messages'[i].read, ~messages'[i].shown
        PROVE  Buried(i)'
    BY <1>3, <1>6, <2>1, BuriedStays
  <2> QED
    BY <1>6, <2>1
<1> HIDE DEF Goal
<1>7. Goal
  BY <1>4, <1>5, <1>6, MessageWriters
<1> QED
  BY <1>2, <1>7 DEF Goal, MissedIsBuried

(* While no other request comes between the page and the mark, and readers *)
(* ask for the first page, however short, the newest message of a thread   *)
(* is not marked read before its recipient was answered with it.           *)
THEOREM NewestWasSeen == Spec => []NewestIsSeen
<1>1. Init => SeenOK
  BY DEF Init, SeenOK, MissedIsBuried, PagesAreNewest, At, Idle
<1>2. Base /\ Base' /\ SeenOK /\ [Next]_vars => SeenOK'
  BY SeenStep, MarketplaceAssumption
<1>3. SeenOK => NewestIsSeen
  BY DEF SeenOK, FirstPage, MissedIsBuried, Buried, NewestIsSeen
<1> QED
  BY <1>1, <1>2, <1>3, BaseAlways, MarketplaceAssumption, PTL DEF Spec
=============================================================================
