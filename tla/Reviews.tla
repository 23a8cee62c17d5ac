------------------------------- MODULE Reviews -------------------------------
(***************************************************************************)
(* Reviews of finished bookings: ReviewsService and the moderation of      *)
(* reviews in AdminService, over the reviews table, its edit history and   *)
(* the rating shown on a provider's profile.                               *)
(*                                                                         *)
(* A booking has at most one review (reviews.booking_id is unique), so a   *)
(* review is named by its booking.  A handler that writes one takes the    *)
(* lock on its row, aggregates what it can see - other transactions'       *)
(* commits and its own write - and commits the row and the aggregate       *)
(* together.  Store is the first half, tx[s] then holds the new row and    *)
(* the tally; Commit is the second.                                        *)
(*                                                                         *)
(* Comment and partial ratings are one field, text; averages are kept as   *)
(* count and sum; a reply is set or not; a review has one reporter.        *)
(***************************************************************************)
EXTENDS Integers, Sequences, FiniteSetsExt

CONSTANTS
  Booking,      \* bookings, and so reviews
  Provider,     \* providers
  providerOf,   \* the provider a booking is with
  Rating,       \* ratings a customer may give
  Text,         \* what else a customer may write
  Nothing,      \* a field the caller left out
  Session,      \* database transactions that may be open at once
  RoutesOf,     \* the handlers each session runs in this instance
  Editor,       \* who edits reviews in this instance
  Busy,         \* bound: reviews that anything happens to once they are posted
  MaxEdits,     \* bound: edits of a review
  MaxRulings    \* bound: decisions on the visibility of a review

AllRoutes ==
  {"post", "rerate", "reword", "reply", "report", "resolve", "takedown", "hide"}

(* The two callers update accepts an edit from.                            *)
MayEdit == {"author", "admin"}

ASSUME ReviewsAssumption ==
  /\ IsFiniteSet(Booking)
  /\ providerOf \in [Booking -> Provider]
  /\ Rating \subseteq 1..5
  /\ Nothing \notin Rating \cup Text
  /\ RoutesOf \in [Session -> SUBSET AllRoutes]
  /\ Editor \subseteq MayEdit
  /\ Busy \subseteq Booking
  /\ MaxEdits \in Nat /\ MaxRulings \in Nat

VARIABLES
  finished,     \* bookings whose status is COMPLETED
  review,       \* the reviews table
  rating,       \* providers.rating_avg and rating_count
  report,       \* reports about reviews
  rulings,      \* admin_actions: takedowns and restorations per review
  inbox,        \* reviews whose provider has a REVIEW_RECEIVED notice
  tx            \* the transaction each session has open

db   == <<finished, review, rating, report, rulings, inbox>>
vars == <<finished, review, rating, report, rulings, inbox, tx>>

-----------------------------------------------------------------------------
(* Types. *)

Version == [rating : Rating, text : Text]

Review == [version : Version \cup {Nothing},      \* Nothing: not inserted yet
           history : Seq(Version),
           hidden : BOOLEAN, replied : BOOLEAN]

(* The row as it is inserted; and before.                                  *)
Posted(v) == [version |-> v, history |-> <<>>, hidden |-> FALSE, replied |-> FALSE]
NoReview  == Posted(Nothing)

ASSUME NothingAssumption == Nothing \notin Version

Tally == [count : Nat, sum : Nat]

(* The fields of UpdateReviewDto that matter here.                         *)
Change == [rating : Rating \cup {Nothing}, text : Text \cup {Nothing}]

Idle == [op |-> "idle"]

Editing == [op : {"edit"}, review : Booking, by : MayEdit, change : Change,
            seen : Version, history : Seq(Version)]
Hiding  == [op : {"hide"}, review : Booking, hidden : BOOLEAN]
Stored  == [op : {"stored"}, review : Booking, row : Review,
            counts : BOOLEAN, ruled : BOOLEAN, tally : Tally]

Tx == {Idle} \cup Editing \cup Hiding \cup Stored

ReviewsTypeOK ==
  /\ finished \subseteq Booking
  /\ review \in [Booking -> Review]
  /\ rating \in [Provider -> Tally]
  /\ report \in [Booking -> {"NONE", "OPEN", "HANDLED"}]
  /\ rulings \in [Booking -> Nat]
  /\ inbox \subseteq Booking
  /\ tx \in [Session -> Tx]

Written(b) == review[b].version # Nothing

-----------------------------------------------------------------------------
(* The rating of a provider. *)

RatingOver(bs, rows) ==
  [count |-> Cardinality(bs), sum |-> SumFunction([b \in bs |-> rows[b].version.rating])]

WrittenFor(p, rows) == { b \in Booking : providerOf[b] = p /\ rows[b].version # Nothing }

(* Faulty: hidden reviews keep counting.                                   *)
FaultyTallyOf(p, rows) == RatingOver(WrittenFor(p, rows), rows)

(* The aggregate of recomputeRating and of its copy in AdminService.       *)
TallyOf(p, rows) == RatingOver({ b \in WrittenFor(p, rows) : ~rows[b].hidden }, rows)

(* What a visitor can count: the reviews that listForProvider shows.       *)
Listed(p, rows) == { b \in Booking : /\ rows[b].version # Nothing
                                     /\ providerOf[b] = p
                                     /\ rows[b].hidden = FALSE }

Shown(p, rows) == RatingOver(Listed(p, rows), rows)

-----------------------------------------------------------------------------
(* Transactions. *)

Runs(s, route) == route \in RoutesOf[s]

(* Nobody else has written the review and not yet committed.               *)
Unlocked(b) == \A s \in Session : tx[s].op = "stored" => tx[s].review # b

(* Session s has written row r under id b and, if the rating counts, taken *)
(* the aggregate that it is going to write.                                *)
Store(s, b, r, counts, ruled) ==
  /\ Unlocked(b)
  /\ tx' = [tx EXCEPT ![s] =
              [op |-> "stored", review |-> b, row |-> r,
               counts |-> counts, ruled |-> ruled,
               tally |-> TallyOf(providerOf[b], [review EXCEPT ![b] = r])]]
  /\ UNCHANGED db

(* The rest of the handler: the aggregate is written over the provider's   *)
(* old one, the notice and the audit row are inserted, all is committed.   *)
Commit(s) ==
  /\ tx[s].op = "stored"
  /\ LET b == tx[s].review
         p == providerOf[b]
     IN  /\ review' = [review EXCEPT ![b] = tx[s].row]
         /\ rating' = IF tx[s].counts
                      THEN [rating EXCEPT ![p] = tx[s].tally] ELSE rating
         /\ inbox' = IF Written(b) THEN inbox ELSE inbox \cup {b}
         /\ rulings' = IF tx[s].ruled
                       THEN [rulings EXCEPT ![b] = @ + 1] ELSE rulings
  /\ tx' = [tx EXCEPT ![s] = Idle]
  /\ UNCHANGED <<finished, report>>

Abort(s) ==
  /\ tx[s] # Idle
  /\ tx' = [tx EXCEPT ![s] = Idle]
  /\ UNCHANGED db

-----------------------------------------------------------------------------
(* Bookings, as far as reviews look at them: complete, and the dispute or  *)
(* ruling that takes COMPLETED away again.  Once the review is written     *)
(* nothing looks at the status, so the changes after that are left out.    *)
Finish(b) ==
  /\ b \notin finished
  /\ ~Written(b)
  /\ finished' = finished \cup {b}
  /\ UNCHANGED <<review, rating, report, rulings, inbox, tx>>

Reopen(b) ==
  /\ b \in finished
  /\ ~Written(b)
  /\ finished' = finished \ {b}
  /\ UNCHANGED <<review, rating, report, rulings, inbox, tx>>

-----------------------------------------------------------------------------
(* Reviews. *)

(* ReviewsService.create up to its aggregate; the checks it reads are made *)
(* again by the trigger and the unique index at the insert.                *)
Post(s, b, v) ==
  /\ Runs(s, "post")
  /\ tx[s] = Idle
  /\ b \in finished
  /\ ~Written(b)
  /\ Store(s, b, Posted(v), TRUE, FALSE)

(* The version that change makes of v.                                     *)
Changed(v, change) ==
  [rating |-> IF change.rating = Nothing THEN v.rating ELSE change.rating,
   text   |-> IF change.text = Nothing THEN v.text ELSE change.text]

EditRoute(change) == IF change.rating = Nothing THEN "reword" ELSE "rerate"

(* ReviewsService.update, an edit: the version and its history are read.   *)
EditRead(s, b, by, change) ==
  /\ Runs(s, EditRoute(change))
  /\ tx[s] = Idle
  /\ Written(b)
  /\ Changed(review[b].version, change) # review[b].version
  /\ Len(review[b].history) < MaxEdits
  /\ tx' = [tx EXCEPT ![s] =
              [op |-> "edit", review |-> b, by |-> by, change |-> change,
               seen |-> review[b].version, history |-> review[b].history]]
  /\ UNCHANGED db

(* Faulty: a history of the same length passes, whatever changed.          *)
FaultyGuardUpdate(by, old, new) ==
  by = "admin" \/ Len(new.history) >= Len(old.history)

(* reviews_guard_update, for an edit: administrators pass.                 *)
GuardUpdate(by, old, new) ==
  \/ by = "admin"
  \/ /\ Len(new.history) >= Len(old.history)
     /\ new.version # old.version => Len(new.history) > Len(old.history)

(* Faulty: the whole row is saved, as it was published.                    *)
FaultyEditedRow(old, t) ==
  [old EXCEPT !.version = Changed(@, t.change),
              !.history = Append(t.history, t.seen),
              !.hidden = FALSE]

(* Faulty: a field the caller left out is written all the same.            *)
FaultyOverwrittenRow(old, t) ==
  [old EXCEPT !.version = t.change,
              !.history = Append(t.history, t.seen)]

(* The columns that were asked for, on the row as it is now; the history   *)
(* from what was read.                                                     *)
EditedRow(old, t) ==
  [old EXCEPT !.version = Changed(@, t.change),
              !.history = Append(t.history, t.seen)]

EditWrite(s) ==
  /\ tx[s].op = "edit"
  /\ LET b   == tx[s].review
         new == EditedRow(review[b], tx[s])
     IN  /\ GuardUpdate(tx[s].by, review[b], new)
         /\ Store(s, b, new, tx[s].change.rating # Nothing, FALSE)

(* ReviewsService.update, a provider's response.                           *)
Reply(s, b) ==
  /\ Runs(s, "reply")
  /\ tx[s] = Idle
  /\ Written(b) /\ Unlocked(b)
  /\ review' = [review EXCEPT ![b].replied = TRUE]
  /\ UNCHANGED <<finished, rating, report, rulings, inbox, tx>>

Report(s, b) ==
  /\ Runs(s, "report")
  /\ tx[s] = Idle
  /\ Written(b)
  /\ report[b] = "NONE"
  /\ report' = [report EXCEPT ![b] = "OPEN"]
  /\ UNCHANGED <<finished, review, rating, rulings, inbox, tx>>

-----------------------------------------------------------------------------
(* Moderation. *)

(* AdminService.resolveReport: on request the review is hidden as part of  *)
(* the decision; the rating is left as it is.                              *)
ResolveReport(s, b, hide) ==
  /\ Runs(s, IF hide THEN "takedown" ELSE "resolve")
  /\ tx[s] = Idle
  /\ report[b] # "NONE"
  /\ report' = [report EXCEPT ![b] = "HANDLED"]
  /\ IF hide
     THEN /\ Unlocked(b)
          /\ rulings[b] < MaxRulings
          /\ review' = [review EXCEPT ![b].hidden = TRUE]
          /\ rulings' = [rulings EXCEPT ![b] = @ + 1]
     ELSE UNCHANGED <<review, rulings>>
  /\ UNCHANGED <<finished, rating, inbox, tx>>

(* AdminService.setReviewVisibility.                                       *)
HideRead(s, b, hidden) ==
  /\ Runs(s, "hide")
  /\ tx[s] = Idle
  /\ Written(b)
  /\ review[b].hidden # hidden
  /\ rulings[b] < MaxRulings
  /\ tx' = [tx EXCEPT ![s] = [op |-> "hide", review |-> b, hidden |-> hidden]]
  /\ UNCHANGED db

HideWrite(s) ==
  /\ tx[s].op = "hide"
  /\ LET b == tx[s].review IN
       Store(s, b, [review[b] EXCEPT !.hidden = tx[s].hidden], TRUE, TRUE)

-----------------------------------------------------------------------------
(* Specification. *)

Init ==
  /\ finished = {}
  /\ review = [b \in Booking |-> NoReview]
  /\ rating = [p \in Provider |-> [count |-> 0, sum |-> 0]]
  /\ report = [b \in Booking |-> "NONE"]
  /\ rulings = [b \in Booking |-> 0]
  /\ inbox = {}
  /\ tx = [s \in Session |-> Idle]

Posting(s) ==
  \E b \in Booking :
    \/ Finish(b)
    \/ Reopen(b)
    \/ \E v \in Version : Post(s, b, v)

Changing(s) ==
  \E b \in Busy :
    \/ \E by \in Editor, change \in Change : EditRead(s, b, by, change)
    \/ Reply(s, b)
    \/ Report(s, b)
    \/ \E hide \in BOOLEAN : ResolveReport(s, b, hide)
    \/ \E hidden \in BOOLEAN : HideRead(s, b, hidden)

Next ==
  \E s \in Session :
    \/ Posting(s)
    \/ Changing(s)
    \/ EditWrite(s)
    \/ HideWrite(s)
    \/ Commit(s)
    \/ Abort(s)

Spec == Init /\ [][Next]_vars

-----------------------------------------------------------------------------
(* What must hold. *)

(* "Keeps providers.ratingAvg and ratingCount honest ... so the two can    *)
(* never disagree" (reviews.service.ts): the rating on a profile is that   *)
(* of the reviews a visitor is shown.                                      *)
RatingIsCurrent == \A p \in Provider : rating[p] = Shown(p, review)

(* No handler but the resolution of a report, which recomputes nothing,    *)
(* changes the reviews behind a rating that is current, and one that does  *)
(* write the rating leaves it current.  So it is while one session at a    *)
(* time runs handlers that count or hide; rewording, replies and reports   *)
(* may overlap with them.                                                  *)
RatingKeepsUp ==
  [][\A p \in Provider :
       \/ /\ rating'[p] = rating[p]
          /\ \/ UNCHANGED review
             \/ rating[p] # Shown(p, review)
             \/ \E s \in Session, b \in Booking : ResolveReport(s, b, TRUE)
       \/ rating'[p] = Shown(p, review')]_vars

(* Business rule 8, "an edit appends to edit_history. The original is      *)
(* kept": two edits of the author that overlap, from two devices, lose no  *)
(* version, although both append to the history they read.                 *)
HistoryKeepsEveryVersion ==
  [][\A b \in Booking :
       Written(b) =>
         \/ /\ review'[b].version = review[b].version
            /\ review'[b].history = review[b].history
         \/ review'[b].history = Append(review[b].history, review[b].version)]_vars

(* A review that an administrator has hidden is brought back by nothing    *)
(* but another decision that is on record: not by an edit that had read    *)
(* the review while it was visible.                                        *)
VisibilityIsRuled ==
  [][\A b \in Booking :
       (Written(b) /\ review'[b].hidden # review[b].hidden)
         => rulings'[b] > rulings[b]]_vars
=============================================================================
