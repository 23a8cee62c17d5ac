----------------------------- MODULE Catalogue -----------------------------
(***************************************************************************)
(* One provider's side of the marketplace: the profile, its verification,  *)
(* its pictures, hours and portfolio, and its listings, written by the     *)
(* provider (ProvidersService, ProviderProfileService, ServicesService and *)
(* the upload routes) and by administrators (AdminService).  Providers     *)
(* share only the uniqueness of slugs, which is an index.                  *)
(*                                                                         *)
(* The services check in one statement and write by id in a later one,     *)
(* outside any transaction; administrators do both in one transaction,     *)
(* which under READ COMMITTED makes no difference to the rows they meet.   *)
(* Prices, texts and places are left out: they are checked against the     *)
(* input and again by CHECK constraints.                                   *)
(***************************************************************************)
EXTENDS Storage, SequencesExt

CONSTANTS
  Listing,          \* rows of services the provider may come to have
  Category,         \* rows of categories
  NoCategory,       \* the parent of a root
  PortfolioLimit,   \* pieces of work a profile can show
  ForeignKey,       \* a key this storage never gave out
  MaxDocuments      \* bound: documents submitted

VARIABLES
  provider,         \* the row of providers
  image,            \* its avatar_key and cover_key
  week,             \* its rows of availability, and how often they were saved
  portfolio,        \* the keys its portfolio_items hold, in order of creation
  documents,        \* its provider_documents, in order of submission
  listing,          \* rows of services
  gallery,          \* rows of service_images, in order of creation
  category          \* rows of categories

profileVars == <<provider, image, week, portfolio, documents>>
catalogueVars == <<profileVars, listing, gallery, category>>

ImageKind == {"avatar", "cover"}
Hours == {"morning", "evening"}

NoProfile ==
  [exists |-> FALSE, closed |-> FALSE, suspended |-> FALSE, status |-> "UNVERIFIED",
   accepting |-> TRUE]

NoListing == [exists |-> FALSE, status |-> "DRAFT", deleted |-> FALSE, category |-> NoCategory]

Open == provider.exists /\ ~provider.closed

(* What the public list selects (ServicesService.list).                    *)
Discoverable(v) ==
  /\ listing[v].exists /\ ~listing[v].deleted /\ listing[v].status = "ACTIVE"
  /\ Open /\ ~provider.suspended /\ provider.status = "APPROVED"

(* What the public page of one listing selects (findOne): it asks neither  *)
(* for the status nor about the provider.                                  *)
Viewable(v) == listing[v].exists /\ ~listing[v].deleted

-----------------------------------------------------------------------------
(* The profile                                                             *)

(* The caller has no profile; a free slug is looked up.                    *)
CreateProfile(s) ==
  /\ Begin(s) /\ ~provider.exists
  /\ Goes(s, "create_profile", "insert", <<>>)
  /\ UNCHANGED catalogueVars

(* providers.user_id is unique: of two that overlap one is rolled back.    *)
InsertProfile(s) ==
  /\ Continue(s, "create_profile", "insert") /\ Done(s)
  /\ provider' = IF provider.exists THEN provider ELSE [NoProfile EXCEPT !.exists = TRUE]
  /\ UNCHANGED <<image, week, portfolio, documents, listing, gallery, category>>

UpdateProfile(s, accepting) ==
  /\ Begin(s) /\ Open
  /\ Goes(s, "update_profile", "write", accepting)
  /\ UNCHANGED catalogueVars

WriteProfile(s) ==
  /\ Continue(s, "update_profile", "write") /\ Done(s)
  /\ provider' = [provider EXCEPT !.accepting = Kept(s)]
  /\ UNCHANGED <<image, week, portfolio, documents, listing, gallery, category>>

CloseProfile(s) ==
  /\ Begin(s) /\ Open
  /\ Goes(s, "close_profile", "count", <<>>)
  /\ UNCHANGED catalogueVars

(* Whether bookings are active is for module Bookings to say.              *)
CountBookings(s) ==
  /\ Continue(s, "close_profile", "count")
  /\ Done(s) \/ Goes(s, "close_profile", "write", <<>>)
  /\ UNCHANGED catalogueVars

(* The profile and all of its listings, in one transaction.                *)
WriteClosed(s) ==
  /\ Continue(s, "close_profile", "write") /\ Done(s)
  /\ provider' = [provider EXCEPT !.closed = TRUE, !.accepting = FALSE]
  /\ listing' = [v \in Listing |->
                   IF listing[v].exists /\ ~listing[v].deleted
                   THEN [listing[v] EXCEPT !.deleted = TRUE, !.status = "ARCHIVED"]
                   ELSE listing[v]]
  /\ UNCHANGED <<image, week, portfolio, documents, gallery, category>>

(* The week is replaced in one transaction.  deleteMany waits for another  *)
(* one that holds the same rows but sees only those that were there when   *)
(* it started: of two that overlap the second keeps the first one's hours, *)
(* and fails if an hour is in both.  Each save makes rows of its own.      *)
SetAvailability(s, hours) ==
  /\ Begin(s) /\ provider.exists
  /\ Goes(s, "set_week", "insert", [old |-> week.rows, new |-> hours])
  /\ UNCHANGED catalogueVars

InsertWeek(s) ==
  /\ Continue(s, "set_week", "insert") /\ Done(s)
  /\ LET left == week.rows \ Kept(s).old
         new  == {[hour |-> h, save |-> week.saves + 1] : h \in Kept(s).new}
     IN  week' = IF \E row \in left : row.hour \in Kept(s).new THEN week
                 ELSE [saves |-> week.saves + 1, rows |-> left \cup new]
  /\ UNCHANGED <<provider, image, portfolio, documents, listing, gallery, category>>

(* The image of a piece of work has no upload route.  The key is the one   *)
(* the request names, and nobody asks storage about it: it may be none, the *)
(* key of an object that is there now, or of none that ever was.           *)
WorkKeys == {NoKey, ForeignKey} \cup objects

(* Faulty: the count is compared after the piece of work is added.         *)
FaultyAddPortfolioItem(s, key) ==
  /\ Begin(s) /\ provider.exists
  /\ Len(portfolio) <= PortfolioLimit
  /\ Goes(s, "add_work", "insert", key)
  /\ UNCHANGED catalogueVars

AddPortfolioItem(s, key) ==
  /\ Begin(s) /\ provider.exists
  /\ Len(portfolio) < PortfolioLimit
  /\ Goes(s, "add_work", "insert", key)
  /\ UNCHANGED catalogueVars

InsertPortfolioItem(s) ==
  /\ Continue(s, "add_work", "insert") /\ Done(s)
  /\ portfolio' = Append(portfolio, Kept(s))
  /\ UNCHANGED <<provider, image, week, documents, listing, gallery, category>>

RemovePortfolioItem(s, i) ==
  /\ Begin(s)
  /\ portfolio' = RemoveAt(portfolio, i)
  /\ UNCHANGED <<handler, provider, image, week, documents, listing, gallery, category>>

-----------------------------------------------------------------------------
(* Files of the profile and of its listings                                *)

(* Both keys of the row are read before the file is stored.                *)
UploadProviderImage(s, kind) ==
  /\ Begin(s) /\ provider.exists
  /\ Uploads(s, "provider_image", kind, image[kind])
  /\ UNCHANGED catalogueVars

(* Faulty: the replaced object is removed before the row is written.       *)
FaultyWriteProviderImage(s) ==
  /\ At(s, "provider_image", "row")
  /\ IF Kept(s).old \in objects
     THEN objects' = objects \ {Kept(s).old} /\ UNCHANGED <<handler, image>>
     ELSE image' = [image EXCEPT ![Kept(s).ref] = Kept(s).key] /\ Done(s) /\ UNCHANGED objects
  /\ UNCHANGED <<keys, faults, provider, week, portfolio, documents, listing, gallery, category>>

WriteProviderImage(s) ==
  /\ Continue(s, "provider_image", "row") /\ Replaces(s)
  /\ image' = [image EXCEPT ![Kept(s).ref] = Kept(s).key]
  /\ UNCHANGED <<provider, week, portfolio, documents, listing, gallery, category>>

UploadProviderDocument(s) ==
  /\ Begin(s) /\ provider.exists
  /\ Uploads(s, "document", 0, NoKey)
  /\ UNCHANGED catalogueVars

CreateDocument(s) ==
  /\ Continue(s, "document", "row") /\ Done(s)
  /\ documents' = Append(documents, [key |-> Kept(s).key, status |-> "PENDING"])
  /\ UNCHANGED <<provider, image, week, portfolio, listing, gallery, category>>

UploadServiceImage(s, v) ==
  /\ Begin(s)
  /\ listing[v].exists /\ ~listing[v].deleted
  /\ Uploads(s, "service_image", v, NoKey)
  /\ UNCHANGED catalogueVars

ImagesOf(v) == {i \in DOMAIN gallery : gallery[i].listing = v}

(* The count becomes the position of the new image, in a statement of its  *)
(* own: two that overlap get the same one.                                 *)
CountImages(s) ==
  /\ Continue(s, "service_image", "row")
  /\ Goes(s, "service_image", "place",
          [Kept(s) EXCEPT !.old = Cardinality(ImagesOf(Kept(s).ref))])
  /\ UNCHANGED catalogueVars

CreateServiceImage(s) ==
  /\ Continue(s, "service_image", "place") /\ Done(s)
  /\ gallery' = Append(gallery, [listing |-> Kept(s).ref, key |-> Kept(s).key,
                                 position |-> Kept(s).old])
  /\ UNCHANGED <<profileVars, listing, category>>

-----------------------------------------------------------------------------
(* Listings                                                                *)

CreateListing(s, v, status, c) ==
  /\ Begin(s) /\ ~listing[v].exists
  /\ Open /\ ~provider.suspended
  /\ status = "ACTIVE" => provider.status = "APPROVED"
  /\ category[c].exists /\ category[c].active
  /\ Goes(s, "create_listing", "insert", [id |-> v, status |-> status, category |-> c])
  /\ UNCHANGED catalogueVars

(* The foreign key holds; nothing else that was read is looked at again.   *)
(* Two of the same title find the same free slug: one insert fails.        *)
InsertListing(s) ==
  /\ Continue(s, "create_listing", "insert") /\ Done(s)
  /\ LET new == Kept(s)
     IN  listing' =
           IF listing[new.id].exists \/ ~category[new.category].exists THEN listing
           ELSE [listing EXCEPT ![new.id] = [exists |-> TRUE, status |-> new.status,
                                             deleted |-> FALSE, category |-> new.category]]
  /\ UNCHANGED <<profileVars, gallery, category>>

(* The patch may leave the status, or the category (NoCategory), alone.    *)
UpdateListing(s, v, status, c) ==
  /\ Begin(s)
  /\ listing[v].exists /\ ~listing[v].deleted
  /\ status = "ACTIVE" => provider.status = "APPROVED"
  /\ Goes(s, "update_listing", "write", [id |-> v, status |-> status, category |-> c])
  /\ UNCHANGED catalogueVars

(* By id, whether or not the row has been taken down since.                *)
WriteListing(s) ==
  /\ Continue(s, "update_listing", "write") /\ Done(s)
  /\ LET patch == Kept(s)
     IN  listing' =
           IF patch.category # NoCategory /\ ~category[patch.category].exists THEN listing
           ELSE [listing EXCEPT
                   ![patch.id].status = IF patch.status = "same" THEN @ ELSE patch.status,
                   ![patch.id].category = IF patch.category = NoCategory THEN @ ELSE patch.category]
  /\ UNCHANGED <<profileVars, gallery, category>>

RemoveListing(s, v) ==
  /\ Begin(s)
  /\ listing[v].exists /\ ~listing[v].deleted
  /\ Goes(s, "remove_listing", "write", v)
  /\ UNCHANGED catalogueVars

WriteRemoved(s) ==
  /\ Continue(s, "remove_listing", "write") /\ Done(s)
  /\ listing' = [listing EXCEPT ![Kept(s)].deleted = TRUE, ![Kept(s)].status = "ARCHIVED"]
  /\ UNCHANGED <<profileVars, gallery, category>>

ModerateService(s, v, action) ==
  /\ Begin(s) /\ listing[v].exists
  /\ action # "REINSTATE" => ~listing[v].deleted
  /\ Goes(s, "moderate", "write", [id |-> v, action |-> action])
  /\ UNCHANGED catalogueVars

Ruling(action) ==
  CASE action = "TAKE_DOWN" -> [status |-> "ARCHIVED", deleted |-> TRUE]
    [] action = "PAUSE"     -> [status |-> "PAUSED", deleted |-> FALSE]
    [] action = "REINSTATE" -> [status |-> "DRAFT", deleted |-> FALSE]

(* Faulty: putting a listing back only clears the deletion.                *)
FaultyWriteModerated(s) ==
  /\ Continue(s, "moderate", "write") /\ Done(s)
  /\ LET next == Ruling(Kept(s).action)
     IN  listing' = [listing EXCEPT ![Kept(s).id].status =
                                      IF Kept(s).action = "REINSTATE" THEN @ ELSE next.status,
                                    ![Kept(s).id].deleted = next.deleted]
  /\ UNCHANGED <<profileVars, gallery, category>>

WriteModerated(s) ==
  /\ Continue(s, "moderate", "write") /\ Done(s)
  /\ LET next == Ruling(Kept(s).action)
     IN  listing' = [listing EXCEPT ![Kept(s).id].status = next.status,
                                    ![Kept(s).id].deleted = next.deleted]
  /\ UNCHANGED <<profileVars, gallery, category>>

-----------------------------------------------------------------------------
(* Verification and suspension                                             *)

(* Suspending the user hides the profile; reinstating does not reopen it   *)
(* for bookings.                                                           *)
SuspendProvider(s) ==
  /\ Begin(s) /\ provider.exists
  /\ provider' = [provider EXCEPT !.suspended = TRUE, !.accepting = FALSE]
  /\ UNCHANGED <<handler, image, week, portfolio, documents, listing, gallery, category>>

ReinstateProvider(s) ==
  /\ Begin(s) /\ provider.exists
  /\ provider' = [provider EXCEPT !.suspended = FALSE]
  /\ UNCHANGED <<handler, image, week, portfolio, documents, listing, gallery, category>>

VerifyProvider(s, decision) ==
  /\ Begin(s) /\ Open
  /\ decision = "APPROVED" => \E d \in DOMAIN documents : documents[d].status = "APPROVED"
  /\ Goes(s, "verify", "write", decision)
  /\ UNCHANGED catalogueVars

WriteVerified(s) ==
  /\ Continue(s, "verify", "write") /\ Done(s)
  /\ provider' = [provider EXCEPT !.status = Kept(s)]
  /\ UNCHANGED <<image, week, portfolio, documents, listing, gallery, category>>

ReviewDocument(s, d, decision) ==
  /\ Begin(s)
  /\ documents' = [documents EXCEPT ![d].status = decision]
  /\ UNCHANGED <<handler, provider, image, week, portfolio, listing, gallery, category>>
=============================================================================
