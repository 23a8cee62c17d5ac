---------------------------- MODULE Marketplace ----------------------------
(***************************************************************************)
(* Catalogue, categories, messages and the storage under them together:    *)
(* the requests of several sessions, made of the steps those modules       *)
(* define, interleaved statement by statement.                             *)
(*                                                                         *)
(* An instance is a set of scenarios, one of which is chosen at the start: *)
(* what there is already, which requests each session may make and how     *)
(* many, whether they wait for each other, how often a statement or        *)
(* storage may fail, and how often the process may restart.                *)
(***************************************************************************)
EXTENDS Taxonomy, Messages

CONSTANTS
  Scenarios     \* what may happen in this instance

VARIABLES
  scenario,     \* the scenario chosen
  calls,        \* bound: requests each session may still make
  restarts      \* restarts so far

boundVars == <<scenario, calls, restarts>>
vars == <<storageVars, catalogueVars, messageVars, boundVars>>

Routes ==
  {"create_profile", "update_profile", "close_profile", "set_week", "add_work",
   "remove_work", "provider_image", "document", "service_image",
   "create_listing", "update_listing", "remove_listing", "moderate",
   "suspend", "reinstate", "verify", "review_document",
   "create_category", "move_category", "show_category", "remove_category",
   "message", "attachment", "thread", "mark_read", "report", "favourite", "unfavourite"}

CategoryRow == [exists : BOOLEAN, active : BOOLEAN, parent : Category \cup {NoCategory}]

ScenarioType ==
  [profile  : BOOLEAN,                  \* there is an approved profile with an avatar
   listed   : SUBSET Listing,           \* its listings
   tree     : [Category -> CategoryRow],
   shelf    : Category,                 \* the category the listings are filed in
   routes   : [Session -> SUBSET Routes],
   calls    : [Session -> Nat],
   pages    : SUBSET (Nat \ {0}),       \* the pages of a thread readers ask for
   serial   : BOOLEAN,                  \* requests do not overlap
   faults   : Nat,
   restarts : Nat]

(* The rows a scenario starts from are rows the constraints allow: every   *)
(* parent and the shelf are there, and no category is its own ancestor.    *)
WellFormed(start) ==
  /\ \A c \in Category : start.tree[c] = NoRow \/ start.tree[c].exists
  /\ \A c \in Category :
       LET parent == start.tree[c].parent
       IN  parent = NoCategory \/ start.tree[parent].exists
  /\ \A S \in SUBSET Category : S # {} => \E c \in S : start.tree[c].parent \notin S
  /\ start.listed # {} => start.profile /\ start.tree[start.shelf].exists

ASSUME MarketplaceAssumption ==
  /\ IsFiniteSet(Session) /\ IsFiniteSet(Category)
  /\ NoCategory \notin Category
  /\ PortfolioLimit \in Nat \ {0} /\ MaxDocuments \in Nat
  /\ ForeignKey \notin Nat
  /\ MaxLimit \in Nat \ {0} /\ Depth \in Nat \ {0}
  /\ Scenarios \subseteq ScenarioType
  /\ \A start \in Scenarios : WellFormed(start)

Init ==
  /\ scenario \in Scenarios
  /\ provider = IF scenario.profile
                THEN [NoProfile EXCEPT !.exists = TRUE, !.status = "APPROVED"] ELSE NoProfile
  /\ image = [kind \in ImageKind |-> IF scenario.profile /\ kind = "avatar" THEN 1 ELSE NoKey]
  /\ objects = IF scenario.profile THEN {1} ELSE {}
  /\ keys = 1
  /\ week = [saves |-> 0, rows |-> {}] /\ portfolio = <<>> /\ documents = <<>> /\ gallery = <<>>
  /\ listing = [v \in Listing |->
                  IF v \in scenario.listed
                  THEN [exists |-> TRUE, status |-> "ACTIVE", deleted |-> FALSE,
                        category |-> scenario.shelf]
                  ELSE NoListing]
  /\ category = scenario.tree
  /\ request = [to |-> "nobody", quoted |-> {}]
  /\ messages = <<>> /\ notices = <<>> /\ reports = {} /\ favourite = FALSE
  /\ handler = [s \in Session |-> Idle]
  /\ faults = scenario.faults /\ calls = scenario.calls /\ restarts = 0

-----------------------------------------------------------------------------

(* A session may make one more request of this kind now.                   *)
Calls(s, route) ==
  /\ route \in scenario.routes[s]
  /\ calls[s] > 0
  /\ scenario.serial => \A r \in Session : handler[r].at = "idle"
  /\ calls' = [calls EXCEPT ![s] = @ - 1]

Patches == {"ACTIVE", "PAUSED", "same"}

ProfileCall(s) ==
  \/ Calls(s, "create_profile") /\ CreateProfile(s)
  \/ Calls(s, "update_profile") /\ \E accepting \in BOOLEAN : UpdateProfile(s, accepting)
  \/ Calls(s, "close_profile") /\ CloseProfile(s)
  \/ Calls(s, "set_week") /\ \E hours \in SUBSET Hours : SetAvailability(s, hours)
  \/ Calls(s, "add_work") /\ \E key \in WorkKeys : AddPortfolioItem(s, key)
  \/ Calls(s, "remove_work") /\ \E i \in DOMAIN portfolio : RemovePortfolioItem(s, i)
  \/ Calls(s, "provider_image") /\ \E kind \in ImageKind : UploadProviderImage(s, kind)
  \/ Calls(s, "document") /\ Len(documents) < MaxDocuments /\ UploadProviderDocument(s)
  \/ Calls(s, "service_image") /\ \E v \in Listing : UploadServiceImage(s, v)

ListingCall(s) ==
  \/ /\ Calls(s, "create_listing")
     /\ \E v \in Listing, status \in {"ACTIVE", "DRAFT"}, c \in Category :
          CreateListing(s, v, status, c)
  \/ /\ Calls(s, "update_listing")
     /\ \E v \in Listing, status \in Patches, c \in Category \cup {NoCategory} :
          UpdateListing(s, v, status, c)
  \/ Calls(s, "remove_listing") /\ \E v \in Listing : RemoveListing(s, v)

AdminCall(s) ==
  \/ /\ Calls(s, "moderate")
     /\ \E v \in Listing, action \in {"TAKE_DOWN", "PAUSE", "REINSTATE"} :
          ModerateService(s, v, action)
  \/ Calls(s, "suspend") /\ SuspendProvider(s)
  \/ Calls(s, "reinstate") /\ ReinstateProvider(s)
  \/ Calls(s, "verify") /\ \E d \in {"APPROVED", "REJECTED"} : VerifyProvider(s, d)
  \/ /\ Calls(s, "review_document")
     /\ \E i \in DOMAIN documents, d \in {"APPROVED", "REJECTED"} : ReviewDocument(s, i, d)

TreeCall(s) ==
  \E c \in Category :
    \/ Calls(s, "create_category") /\ \E p \in Category \cup {NoCategory} : CreateCategory(s, c, p)
    \/ Calls(s, "move_category") /\ \E p \in Category \cup {NoCategory} : MoveCategory(s, c, p)
    \/ Calls(s, "show_category") /\ \E active \in BOOLEAN : ShowCategory(s, c, active)
    \/ Calls(s, "remove_category") /\ RemoveCategory(s, c)

MessageCall(s) ==
  \E user \in User :
    \/ Calls(s, "message") /\ \E a \in Anchor : Send(s, user, a)
    \/ Calls(s, "attachment") /\ \E a \in Anchor : SendAttachment(s, user, a)
    \/ /\ Calls(s, "thread")
       /\ \E a \in Anchor, n \in scenario.pages, limit \in 1..MaxLimit :
            ReadThread(s, user, a, n, limit)
    \/ Calls(s, "mark_read") /\ \E ids \in SUBSET DOMAIN notices : MarkRead(s, user, ids)
    \/ Calls(s, "report") /\ \E target \in Target : Report(s, user, target)

FavouriteCall(s) ==
  \/ Calls(s, "favourite") /\ AddFavourite(s)
  \/ Calls(s, "unfavourite") /\ RemoveFavourite(s)

ProfileStep(s) ==
  \/ InsertProfile(s) \/ WriteProfile(s) \/ CountBookings(s) \/ WriteClosed(s)
  \/ InsertWeek(s) \/ InsertPortfolioItem(s)
  \/ WriteProviderImage(s) \/ CreateDocument(s) \/ CountImages(s) \/ CreateServiceImage(s)

ListingStep(s) ==
  \/ InsertListing(s) \/ WriteListing(s) \/ WriteRemoved(s)
  \/ WriteModerated(s) \/ WriteVerified(s)

TreeStep(s) ==
  \/ InsertCategory(s) \/ Climb(s) \/ WriteMove(s) \/ HideCategory(s) \/ DeleteCategory(s)

MessageStep(s) ==
  \/ ResolveAttachment(s) \/ InsertMessage(s) \/ StampRead(s)
  \/ InsertReport(s) \/ UpsertFavourite(s)

(* The process stops, and whatever was under way stops where it was.       *)
Restart ==
  /\ restarts < scenario.restarts
  /\ \E s \in Session : handler[s].at # "idle"
  /\ handler' = [s \in Session |-> Idle]
  /\ restarts' = restarts + 1
  /\ UNCHANGED <<stored, catalogueVars, messageVars, scenario, calls>>

CatalogueNext ==
  /\ \E s \in Session :
       \/ ProfileCall(s) \/ ListingCall(s) \/ AdminCall(s) \/ TreeCall(s)
       \/ (ProfileStep(s) \/ ListingStep(s) \/ TreeStep(s)) /\ UNCHANGED calls
  /\ UNCHANGED <<messageVars, scenario, restarts>>

(* Quotes come while there is anything left to say about the request.      *)
MessagesNext ==
  /\ \/ \E s \in Session : \/ MessageCall(s) \/ FavouriteCall(s)
                           \/ MessageStep(s) /\ UNCHANGED calls
     \/ /\ \E s \in Session : "message" \in scenario.routes[s] /\ calls[s] > 0
        /\ \E p \in Supplier : QuoteArrives(p)
        /\ UNCHANGED calls
  /\ UNCHANGED <<catalogueVars, scenario, restarts>>

StorageNext ==
  /\ \E s \in Session : Put(s) \/ Discard(s) \/ Fail(s)
  /\ UNCHANGED <<catalogueVars, messageVars, boundVars>>

Next == CatalogueNext \/ MessagesNext \/ StorageNext \/ Restart

Spec == Init /\ [][Next]_vars

-----------------------------------------------------------------------------
(* Properties                                                              *)

Pictures == {image[kind] : kind \in ImageKind}
Attached == {messages[i].key : i \in DOMAIN messages}

(* Every key that a row holds and a route that uploads has written.  The   *)
(* keys of the portfolio are not among them: a request names them, and     *)
(* nothing has to be behind them (AddPortfolioItem).                       *)
Pointed ==
  (Pictures \cup Attached
     \cup {documents[d].key : d \in DOMAIN documents}
     \cup {gallery[i].key : i \in DOMAIN gallery}) \ {NoKey}

(* Only one session of the scenario makes any of these requests, or no two *)
(* requests overlap.                                                       *)
Alone(routes) ==
  scenario.serial \/ Cardinality({s \in Session : scenario.routes[s] \cap routes # {}}) < 2

(* Every row has its type and what it refers to exists; and however many   *)
(* add a piece of work at once, the portfolio outgrows its limit by at     *)
(* most one piece for each of the others.                                  *)
MarketplaceTypeOK ==
  /\ objects \subseteq 1..keys
  /\ \A s \in Session : handler[s].route \in Routes \cup {"none"}
  /\ provider.exists \/ provider = NoProfile
  /\ provider.status \in {"UNVERIFIED", "APPROVED", "REJECTED"}
  /\ week.rows \subseteq [hour : Hours, save : 1..week.saves]
  /\ Len(portfolio) <= PortfolioLimit + Cardinality(Session) - 1
  /\ \A v \in Listing : listing[v].exists => category[listing[v].category].exists
  /\ \A c \in Category : category[c].exists => Exists(category[c].parent)
  /\ \A i \in DOMAIN gallery : listing[gallery[i].listing].exists
  /\ \A i \in DOMAIN messages : messages[i].from # messages[i].to
  /\ Len(notices) = Len(messages)

(* No picture, document, service image or attachment points at an object   *)
(* that is not there: the object comes before the row and goes after it,   *)
(* whatever overlaps, wherever a request is cut off and whenever storage   *)
(* fails.                                                                  *)
PointersResolve == Pointed \subseteq objects

(* Nothing is left in storage that no row an upload writes points at, once *)
(* every request is over - as long as storage and the database answered    *)
(* each of them and no two replaced the pictures of the profile at once.   *)
NothingIsOrphaned ==
  /\ Alone({"provider_image"})
  /\ faults = scenario.faults /\ restarts = 0
  /\ \A s \in Session : handler[s].at = "idle"
  => objects = Pointed

(* The walk up the tree stops a move that would close a loop, unless the   *)
(* loop is longer than the walk - while moves do not overlap; categories   *)
(* may come, go and be hidden during the walk.                             *)
LoopsAreLong ==
  Alone({"move_category"})
    => \A S \in SUBSET Category : Loop(S) => Cardinality(S) > Depth

(* What was taken down does not come straight back into the public list:   *)
(* no step, not the provider's update that was read before and written     *)
(* after, brings a listing that is deleted into what the list selects.     *)
ReturnsUnlisted ==
  [][\A v \in Listing : listing[v].deleted => ~Discoverable(v)']_vars

(* A takedown drops a listing out of every public read path                *)
(* (AdminService.moderateService), its own page among them, and there it   *)
(* stays until an administrator puts it back.                              *)
OnlyReinstated ==
  [][\A v \in Listing :
       listing[v].deleted /\ Viewable(v)'
         => \E s \in Session : At(s, "moderate", "write") /\ Kept(s).action = "REINSTATE"]_vars

(* The newest message of a thread is not marked read before its recipient  *)
(* was answered with it, however short the page - while no other request   *)
(* comes between the page and the mark, and readers ask for the first.     *)
NewestIsSeen ==
  scenario.serial /\ scenario.pages = {1}
    => \A i \in DOMAIN messages :
         messages[i].read /\ ~messages[i].shown
           => \E j \in Thread(messages[i].to, messages[i].anchor) : j > i
=============================================================================
