---------------------------- MODULE ReviewsProofs ----------------------------
(***************************************************************************)
(* Proofs about Reviews: the edits of authors keep every version, whether  *)
(* a review is shown changes by decisions on record alone, and the rating  *)
(* keeps up with the reviews while one session counts; for any number of   *)
(* bookings, sessions and edits.  That the tally of a rating is a pair of  *)
(* numbers takes an induction over finite sets; it is done by the smallest *)
(* counterexample, with the well-foundedness of inclusion.                 *)
(***************************************************************************)
EXTENDS Reviews, SequenceTheorems, FiniteSetTheorems, WellFoundedInduction, TLAPS

-----------------------------------------------------------------------------
(* All versions of a review, the present one last.                         *)
Versions(r) == Append(r.history, r.version)

(* h starts k.                                                             *)
Starts(h, k) == Len(h) <= Len(k) /\ \A i \in 1..Len(h) : h[i] = k[i]

(* new shows what old shows, or old's versions have become its history.    *)
Keeps(old, new) ==
  \/ new.version = old.version /\ new.history = old.history
  \/ new.history = Versions(old)

-----------------------------------------------------------------------------
(* The inductive invariant. *)

(* What an author read is where the versions of the review still start.    *)
EditOK(t, rows) ==
  /\ t.review \in Booking /\ rows[t.review].version # Nothing
  /\ t.by = "author"
  /\ t.change \in Change
  /\ t.seen \in Version /\ t.history \in Seq(Version)
  /\ Starts(Append(t.history, t.seen), Versions(rows[t.review]))

HideOK(t, rows) ==
  t.review \in Booking /\ rows[t.review].version # Nothing /\ t.hidden \in BOOLEAN

(* A row that waits to be committed still follows the one it replaces.     *)
StoredOK(t, rows) ==
  /\ t.review \in Booking
  /\ t.row \in Review /\ t.row.version # Nothing
  /\ rows[t.review].version # Nothing => Keeps(rows[t.review], t.row)

SessionOK(t, rows) ==
  /\ t.op = "edit" => EditOK(t, rows)
  /\ t.op = "hide" => HideOK(t, rows)
  /\ t.op = "stored" => StoredOK(t, rows)

(* A review is locked by one transaction.                                  *)
OneWriter ==
  \A s, u \in Session :
    (tx[s].op = "stored" /\ tx[u].op = "stored" /\ tx[s].review = tx[u].review)
      => s = u

IInv ==
  /\ review \in [Booking -> Review]
  /\ DOMAIN tx = Session
  /\ \A s \in Session : SessionOK(tx[s], review)
  /\ OneWriter

Assumptions == ReviewsAssumption /\ NothingAssumption /\ "admin" \notin Editor

-----------------------------------------------------------------------------
(* Sequences of versions. *)

LEMMA VersionsType ==
  ASSUME NEW r \in Review, r.version # Nothing
  PROVE  /\ r.version \in Version /\ r.history \in Seq(Version)
         /\ Versions(r) \in Seq(Version)
         /\ Len(Versions(r)) = Len(r.history) + 1
BY AppendProperties DEF Review, Versions

LEMMA StartsTransitive ==
  ASSUME NEW h \in Seq(Version), NEW k \in Seq(Version), NEW l \in Seq(Version),
         Starts(h, k), Starts(k, l)
  PROVE  Starts(h, l)
BY DEF Starts

LEMMA StartsAppend ==
  ASSUME NEW h \in Seq(Version), NEW v \in Version
  PROVE  Starts(h, Append(h, v))
BY AppendProperties DEF Starts

(* A row that keeps the versions of another is started by them.            *)
LEMMA KeepsStarts ==
  ASSUME NEW old \in Review, NEW new \in Review,
         old.version # Nothing, new.version # Nothing, Keeps(old, new)
  PROVE  Starts(Versions(old), Versions(new))
<1>1. CASE new.version = old.version /\ new.history = old.history
  BY <1>1, VersionsType DEF Versions, Starts
<1>2. CASE new.history = Versions(old)
  BY <1>2, VersionsType, StartsAppend DEF Versions
<1> QED
  BY <1>1, <1>2 DEF Keeps

(* The trigger's point: a row whose history is what an author once read,   *)
(* and that passes, keeps the versions of the row it replaces.             *)
LEMMA GuardKeeps ==
  ASSUME NEW old \in Review, old.version # Nothing,
         NEW new \in Review,
         NEW h \in Seq(Version), NEW v \in Version,
         new.history = Append(h, v),
         Starts(Append(h, v), Versions(old)),
         GuardUpdate("author", old, new)
  PROVE  Keeps(old, new)
<1>1. /\ old.version \in Version /\ old.history \in Seq(Version)
      /\ Versions(old) \in Seq(Version)
      /\ Len(Versions(old)) = Len(old.history) + 1
      /\ \A i \in 1..Len(old.history) : Versions(old)[i] = old.history[i]
  BY VersionsType, AppendProperties DEF Versions
<1>2. new.history \in Seq(Version)
  BY AppendProperties
<1>3. /\ Len(new.history) <= Len(old.history) + 1
      /\ \A i \in 1..Len(new.history) : new.history[i] = Versions(old)[i]
  BY <1>1 DEF Starts
<1>4. Len(new.history) >= Len(old.history)
  BY DEF GuardUpdate
<1>5. CASE Len(new.history) = Len(old.history)
  <2>1. new.history = old.history
    BY <1>1, <1>2, <1>3, <1>5, SeqEqual
  <2>2. new.version = old.version
    BY <1>5 DEF GuardUpdate
  <2> QED
    BY <2>1, <2>2 DEF Keeps
<1>6. CASE Len(new.history) = Len(old.history) + 1
  <2>1. new.history = Versions(old)
    BY <1>1, <1>2, <1>3, <1>6, SeqEqual
  <2> QED
    BY <2>1 DEF Keeps
<1> QED
  BY <1>1, <1>2, <1>3, <1>4, <1>5, <1>6

-----------------------------------------------------------------------------
(* Steps. *)

(* What a step may do to the reviews: a row that is written stays so and   *)
(* keeps its versions.                                                     *)
ReviewEffect ==
  /\ review' \in [Booking -> Review]
  /\ \A b \in Booking :
       Written(b) => review'[b].version # Nothing /\ Keeps(review[b], review'[b])

(* What an author read stays a start, and a reader's review stays there.   *)
LEMMA ReadersStay ==
  ASSUME IInv, ReviewEffect, NEW t
  PROVE  /\ EditOK(t, review) => EditOK(t, review')
         /\ HideOK(t, review) => HideOK(t, review')
<1>1. ASSUME EditOK(t, review) PROVE EditOK(t, review')
  <2> DEFINE b == t.review
  <2>1. /\ b \in Booking /\ review[b] \in Review /\ review'[b] \in Review
        /\ review[b].version # Nothing /\ review'[b].version # Nothing
        /\ Keeps(review[b], review'[b])
    BY <1>1 DEF EditOK, IInv, ReviewEffect, Written
  <2>2. Starts(Versions(review[b]), Versions(review'[b]))
    BY <2>1, KeepsStarts
  <2>3. /\ Versions(review[b]) \in Seq(Version)
        /\ Versions(review'[b]) \in Seq(Version)
    BY <2>1, VersionsType
  <2>4. Append(t.history, t.seen) \in Seq(Version)
    BY <1>1, AppendProperties DEF EditOK
  <2>5. Starts(Append(t.history, t.seen), Versions(review'[b]))
    BY <1>1, <2>2, <2>3, <2>4, StartsTransitive DEF EditOK
  <2> QED
    BY <1>1, <2>1, <2>5 DEF EditOK
<1>2. ASSUME HideOK(t, review) PROVE HideOK(t, review')
  BY <1>2 DEF HideOK, ReviewEffect, Written
<1> QED
  BY <1>1, <1>2

(* A step that leaves the reviews alone and puts one session into a state  *)
(* that is in order.                                                       *)
LEMMA SessionStep ==
  ASSUME IInv, UNCHANGED review, NEW s \in Session, NEW t,
         tx' = [tx EXCEPT ![s] = t],
         SessionOK(t, review),
         t.op = "stored" => Unlocked(t.review)
  PROVE  IInv'
<1>1. tx'[s] = t /\ \A u \in Session \ {s} : tx'[u] = tx[u]
  BY DEF IInv
<1>2. \A u \in Session : SessionOK(tx'[u], review')
  BY <1>1 DEF IInv
<1>3. OneWriter'
  BY <1>1 DEF IInv, OneWriter, Unlocked
<1> QED
  BY <1>2, <1>3 DEF IInv

LEMMA IdleStep ==
  ASSUME IInv, UNCHANGED review, NEW s \in Session,
         tx' = [tx EXCEPT ![s] = Idle]
  PROVE  IInv'
<1>1. SessionOK(Idle, review) /\ Idle.op # "stored"
  BY DEF SessionOK, Idle
<1> QED
  BY <1>1, SessionStep

LEMMA StoreStep ==
  ASSUME IInv, NEW s \in Session, NEW b \in Booking,
         NEW r \in Review, r.version # Nothing,
         Written(b) => Keeps(review[b], r),
         NEW counts, NEW ruled, Store(s, b, r, counts, ruled)
  PROVE  IInv'
<1> DEFINE t == [op |-> "stored", review |-> b, row |-> r,
                 counts |-> counts, ruled |-> ruled,
                 tally |-> TallyOf(providerOf[b], [review EXCEPT ![b] = r])]
<1>1. tx' = [tx EXCEPT ![s] = t] /\ UNCHANGED review /\ Unlocked(b)
  BY DEF Store, db
<1>2. t.op = "stored" /\ t.review = b /\ t.row = r
  OBVIOUS
<1> HIDE DEF t
<1>3. SessionOK(t, review)
  BY <1>2 DEF SessionOK, StoredOK, Written
<1> QED
  BY <1>1, <1>2, <1>3, SessionStep

LEMMA CommitStep ==
  ASSUME IInv, NEW s \in Session, Commit(s)
  PROVE  IInv' /\ ReviewEffect
<1> DEFINE b == tx[s].review
<1>1. /\ tx[s].op = "stored"
      /\ StoredOK(tx[s], review)
      /\ review' = [review EXCEPT ![b] = tx[s].row]
      /\ tx' = [tx EXCEPT ![s] = Idle]
  BY DEF IInv, SessionOK, Commit
<1>2. ReviewEffect
  BY <1>1 DEF IInv, ReviewEffect, StoredOK, Keeps, Written
<1>3. tx'[s].op = "idle" /\ \A u \in Session \ {s} : tx'[u] = tx[u]
  BY <1>1 DEF IInv, Idle
<1>4. ASSUME NEW u \in Session, u # s, tx[u].op = "stored"
      PROVE  StoredOK(tx[u], review')
  <2>1. tx[u].review # b
    BY <1>1, <1>4 DEF IInv, OneWriter
  <2>2. StoredOK(tx[u], review)
    BY <1>4 DEF IInv, SessionOK
  <2>3. review'[tx[u].review] = review[tx[u].review]
    BY <1>1, <2>1, <2>2 DEF StoredOK, IInv
  <2> QED
    BY <2>2, <2>3 DEF StoredOK
<1>5. ASSUME NEW u \in Session PROVE SessionOK(tx'[u], review')
  <2>1. CASE u = s
    BY <1>3, <2>1 DEF SessionOK
  <2>2. CASE u # s
    <3>1. tx'[u] = tx[u] /\ SessionOK(tx[u], review)
      BY <1>3, <2>2 DEF IInv
    <3>2. /\ EditOK(tx[u], review) => EditOK(tx[u], review')
          /\ HideOK(tx[u], review) => HideOK(tx[u], review')
      BY <1>2, ReadersStay
    <3> QED
      BY <1>4, <2>2, <3>1, <3>2 DEF SessionOK
  <2> QED
    BY <2>1, <2>2
<1>6. OneWriter'
  BY <1>3 DEF IInv, OneWriter
<1> QED
  BY <1>1, <1>2, <1>5, <1>6 DEF IInv, ReviewEffect

(* A flag of a review nobody has locked is set in place.                   *)
LEMMA FlagStep ==
  ASSUME IInv, NEW b \in Booking, NEW r \in Review, Unlocked(b),
         review[b].version # Nothing,
         r.version = review[b].version, r.history = review[b].history,
         review' = [review EXCEPT ![b] = r], UNCHANGED tx
  PROVE  IInv' /\ ReviewEffect
<1>1. ReviewEffect
  BY DEF IInv, ReviewEffect, Keeps, Written
<1>2. ASSUME NEW u \in Session PROVE SessionOK(tx[u], review')
  <2>1. SessionOK(tx[u], review)
    BY DEF IInv
  <2>2. /\ EditOK(tx[u], review) => EditOK(tx[u], review')
        /\ HideOK(tx[u], review) => HideOK(tx[u], review')
    BY <1>1, ReadersStay
  <2>3. ASSUME tx[u].op = "stored" PROVE StoredOK(tx[u], review')
    <3>1. StoredOK(tx[u], review) /\ tx[u].review # b
      BY <2>1, <2>3 DEF SessionOK, Unlocked
    <3>2. review'[tx[u].review] = review[tx[u].review]
      BY <3>1 DEF StoredOK, IInv
    <3> QED
      BY <3>1, <3>2 DEF StoredOK
  <2> QED
    BY <2>1, <2>2, <2>3 DEF SessionOK
<1> QED
  BY <1>1, <1>2 DEF IInv, ReviewEffect, OneWriter

-----------------------------------------------------------------------------
(* Handlers. *)

LEMMA PostStep ==
  ASSUME IInv, NEW s \in Session, NEW b \in Booking,
         NEW v \in Version, Post(s, b, v)
  PROVE  IInv'
<1>1. <<>> \in Seq(Version) /\ v # Nothing
  BY NothingAssumption
<1>2. Posted(v) \in Review /\ Posted(v).version # Nothing
  BY <1>1 DEF Posted, Review
<1>3. ~Written(b) /\ Store(s, b, Posted(v), TRUE, FALSE)
  BY DEF Post
<1> QED
  BY <1>2, <1>3, StoreStep

LEMMA EditReadStep ==
  ASSUME IInv, Assumptions, NEW s \in Session, NEW b \in Booking,
         NEW by \in Editor, NEW change \in Change, EditRead(s, b, by, change)
  PROVE  IInv'
<1> DEFINE t == [op |-> "edit", review |-> b, by |-> by, change |-> change,
                 seen |-> review[b].version, history |-> review[b].history]
<1>1. tx' = [tx EXCEPT ![s] = t] /\ UNCHANGED review
  BY DEF EditRead, db
<1>2. review[b] \in Review /\ review[b].version # Nothing
  BY DEF EditRead, Written, IInv
<1>3. by = "author"
  BY DEF Assumptions, ReviewsAssumption, MayEdit
<1>4. /\ review[b].version \in Version /\ review[b].history \in Seq(Version)
      /\ Versions(review[b]) \in Seq(Version)
  BY <1>2, VersionsType
<1>5. Starts(Versions(review[b]), Versions(review[b]))
  BY <1>4 DEF Starts
<1>6. EditOK(t, review)
  BY <1>2, <1>3, <1>4, <1>5 DEF EditOK, Versions
<1>7. t.op = "edit"
  OBVIOUS
<1> HIDE DEF t
<1>8. SessionOK(t, review)
  BY <1>6, <1>7 DEF SessionOK
<1> QED
  BY <1>1, <1>7, <1>8, SessionStep

LEMMA EditWriteStep ==
  ASSUME IInv, Assumptions, NEW s \in Session, EditWrite(s)
  PROVE  IInv'
<1> DEFINE t   == tx[s]
           b   == t.review
           old == review[b]
           new == EditedRow(old, t)
<1>1. EditOK(t, review)
  BY DEF IInv, SessionOK, EditWrite
<1>2. b \in Booking /\ old \in Review /\ old.version # Nothing
  BY <1>1 DEF EditOK, IInv
<1>3. /\ GuardUpdate("author", old, new)
      /\ Store(s, b, new, t.change.rating # Nothing, FALSE)
  BY <1>1 DEF EditWrite, EditOK
<1>4. /\ t.history \in Seq(Version) /\ t.seen \in Version /\ t.change \in Change
      /\ Starts(Append(t.history, t.seen), Versions(old))
  BY <1>1 DEF EditOK
<1>5. Append(t.history, t.seen) \in Seq(Version)
  BY <1>4, AppendProperties
<1>6. old.version \in Version
  BY <1>2, VersionsType
<1>7. Changed(old.version, t.change) \in Version
  BY <1>4, <1>6 DEF Changed, Change, Version
<1>8. /\ new \in Review
      /\ new.version = Changed(old.version, t.change)
      /\ new.history = Append(t.history, t.seen)
  BY <1>2, <1>5, <1>7 DEF EditedRow, Review
<1>9. new.version # Nothing
  BY <1>7, <1>8 DEF Assumptions, NothingAssumption
<1>10. Keeps(old, new)
  BY <1>2, <1>3, <1>4, <1>8, GuardKeeps
<1> HIDE DEF new
<1> QED
  BY <1>2, <1>3, <1>8, <1>9, <1>10, StoreStep

LEMMA HideReadStep ==
  ASSUME IInv, NEW s \in Session, NEW b \in Booking, NEW hidden \in BOOLEAN,
         HideRead(s, b, hidden)
  PROVE  IInv'
<1> DEFINE t == [op |-> "hide", review |-> b, hidden |-> hidden]
<1>1. tx' = [tx EXCEPT ![s] = t] /\ UNCHANGED review
  BY DEF HideRead, db
<1>2. SessionOK(t, review) /\ t.op # "stored"
  BY DEF SessionOK, HideOK, HideRead, Written
<1> HIDE DEF t
<1> QED
  BY <1>1, <1>2, SessionStep

LEMMA HideWriteStep ==
  ASSUME IInv, NEW s \in Session, HideWrite(s)
  PROVE  IInv'
<1> DEFINE b == tx[s].review
           r == [review[b] EXCEPT !.hidden = tx[s].hidden]
<1>1. HideOK(tx[s], review)
  BY DEF IInv, SessionOK, HideWrite
<1>2. b \in Booking /\ review[b] \in Review /\ review[b].version # Nothing
  BY <1>1 DEF HideOK, IInv
<1>3. /\ r \in Review
      /\ r.version = review[b].version /\ r.history = review[b].history
  BY <1>1, <1>2 DEF HideOK, Review
<1>4. Store(s, b, r, TRUE, TRUE)
  BY DEF HideWrite
<1> HIDE DEF r
<1> QED
  BY <1>2, <1>3, <1>4, StoreStep DEF Keeps

LEMMA ReplyStep ==
  ASSUME IInv, NEW s \in Session, NEW b \in Booking, Reply(s, b)
  PROVE  IInv' /\ ReviewEffect
<1> DEFINE r == [review[b] EXCEPT !.replied = TRUE]
<1>1. review[b] \in Review /\ review[b].version # Nothing /\ Unlocked(b)
  BY DEF Reply, Written, IInv
<1>2. /\ r \in Review
      /\ r.version = review[b].version /\ r.history = review[b].history
  BY <1>1 DEF Review
<1>3. review' = [review EXCEPT ![b] = r] /\ UNCHANGED tx
  BY DEF Reply
<1> HIDE DEF r
<1> QED
  BY <1>1, <1>2, <1>3, FlagStep

(* A report is about a review that was written; only hiding changes it.    *)
ReportsOK == \A b \in Booking : report[b] # "NONE" => Written(b)

LEMMA ResolveReportStep ==
  ASSUME IInv, ReportsOK, NEW s \in Session, NEW b \in Booking, NEW hide,
         ResolveReport(s, b, hide)
  PROVE  IInv' /\ (ReviewEffect \/ UNCHANGED review)
<1>1. CASE hide
  <2> DEFINE r == [review[b] EXCEPT !.hidden = TRUE]
  <2>1. review[b] \in Review /\ review[b].version # Nothing /\ Unlocked(b)
    BY <1>1 DEF ResolveReport, ReportsOK, Written, IInv
  <2>2. /\ r \in Review
        /\ r.version = review[b].version /\ r.history = review[b].history
    BY <2>1 DEF Review
  <2>3. review' = [review EXCEPT ![b] = r] /\ UNCHANGED tx
    BY <1>1 DEF ResolveReport
  <2> HIDE DEF r
  <2> QED
    BY <2>1, <2>2, <2>3, FlagStep
<1>2. CASE ~hide
  BY <1>2 DEF ResolveReport, IInv, OneWriter
<1> QED
  BY <1>1, <1>2

-----------------------------------------------------------------------------
(* The theorem. *)

Inv == IInv /\ ReportsOK

LEMMA InvInit ==
  ASSUME NothingAssumption, Init
  PROVE  Inv
<1>1. NoReview \in Review /\ NoReview.version = Nothing
  <2>1. <<>> \in Seq(Version)
    OBVIOUS
  <2> QED
    BY <2>1 DEF NoReview, Posted, Review
<1>2. review \in [Booking -> Review]
  BY <1>1 DEF Init
<1>3. DOMAIN tx = Session /\ \A s \in Session : tx[s].op = "idle"
  BY DEF Init, Idle
<1> QED
  BY <1>2, <1>3 DEF Init, Inv, IInv, ReportsOK, SessionOK, OneWriter

(* What every handler does: the invariant is kept, and reviews either stay *)
(* as they are or keep their versions.                                     *)
LEMMA StepKinds ==
  ASSUME IInv, ReportsOK, Assumptions, [Next]_vars
  PROVE  IInv' /\ (ReviewEffect \/ UNCHANGED review)
<1>1. CASE UNCHANGED vars
  BY <1>1 DEF vars, IInv, OneWriter
<1>2. ASSUME NEW b \in Booking, NEW s \in Session
      PROVE  /\ Finish(b) \/ Reopen(b) \/ Report(s, b) => IInv' /\ UNCHANGED review
             /\ Reply(s, b) => IInv' /\ ReviewEffect
             /\ (\E v \in Version : Post(s, b, v)) => IInv' /\ UNCHANGED review
             /\ (\E by \in Editor, change \in Change : EditRead(s, b, by, change))
                  => IInv' /\ UNCHANGED review
             /\ (\E hidden \in BOOLEAN : HideRead(s, b, hidden))
                  => IInv' /\ UNCHANGED review
             /\ (\E hide \in BOOLEAN : ResolveReport(s, b, hide))
                  => IInv' /\ (ReviewEffect \/ UNCHANGED review)
  <2>1. Finish(b) \/ Reopen(b) \/ Report(s, b) => IInv' /\ UNCHANGED review
    BY DEF Finish, Reopen, Report, IInv, OneWriter
  <2>2. Reply(s, b) => IInv' /\ ReviewEffect
    BY ReplyStep
  <2>3. (\E v \in Version : Post(s, b, v)) => IInv' /\ UNCHANGED review
    BY PostStep DEF Post, Store, db
  <2>4. (\E by \in Editor, change \in Change : EditRead(s, b, by, change))
          => IInv' /\ UNCHANGED review
    BY EditReadStep DEF EditRead, db
  <2>5. (\E hidden \in BOOLEAN : HideRead(s, b, hidden)) => IInv' /\ UNCHANGED review
    BY HideReadStep DEF HideRead, db
  <2>6. (\E hide \in BOOLEAN : ResolveReport(s, b, hide))
          => IInv' /\ (ReviewEffect \/ UNCHANGED review)
    BY ResolveReportStep
  <2> QED
    BY <2>1, <2>2, <2>3, <2>4, <2>5, <2>6
<1>3. CASE Next
  <2>1. Busy \subseteq Booking
    BY DEF Assumptions, ReviewsAssumption
  <2>2. PICK s \in Session :
             \/ Posting(s) \/ Changing(s)
             \/ EditWrite(s) \/ HideWrite(s) \/ Commit(s) \/ Abort(s)
    BY <1>3, Zenon DEF Next
  <2>3. CASE Posting(s)
    BY <1>2, <2>3, Zenon DEF Posting
  <2>4. CASE Changing(s)
    <3>1. PICK b \in Busy :
             \/ \E by \in Editor, change \in Change : EditRead(s, b, by, change)
             \/ Reply(s, b)
             \/ Report(s, b)
             \/ \E hide \in BOOLEAN : ResolveReport(s, b, hide)
             \/ \E hidden \in BOOLEAN : HideRead(s, b, hidden)
      BY <2>4, Zenon DEF Changing
    <3>2. b \in Booking
      BY <2>1
    <3> QED
      BY <1>2, <3>1, <3>2
  <2>5. CASE EditWrite(s) \/ HideWrite(s)
    BY <2>5, EditWriteStep, HideWriteStep DEF EditWrite, HideWrite, Store, db
  <2>6. CASE Commit(s)
    BY <2>6, CommitStep
  <2>7. CASE Abort(s)
    BY <2>7, IdleStep DEF Abort, db
  <2> QED
    BY <2>2, <2>3, <2>4, <2>5, <2>6, <2>7
<1> QED
  BY <1>1, <1>3

(* Who reports has seen the review, and what is written stays written.     *)
LEMMA ReportsStep ==
  ASSUME ReportsOK, Assumptions, ReviewEffect \/ UNCHANGED review, [Next]_vars
  PROVE  ReportsOK'
<1>1. ASSUME NEW b \in Booking PROVE Written(b) => Written(b)'
  BY DEF ReviewEffect, Written
<1>2. ASSUME NEW b \in Booking, report'[b] # "NONE" PROVE Written(b)
  <2>1. CASE UNCHANGED report
    BY <1>2, <2>1 DEF ReportsOK
  <2>2. ASSUME NEW s \in Session, NEW c \in Booking, Report(s, c) PROVE Written(b)
    BY <1>2, <2>2 DEF Report, ReportsOK
  <2>3. ASSUME NEW s \in Session, NEW c \in Booking, NEW hide, ResolveReport(s, c, hide)
        PROVE  Written(b)
    BY <1>2, <2>3 DEF ResolveReport, ReportsOK
  <2>4. ASSUME NEW s \in Session, NEW c \in Booking PROVE
          /\ Finish(c) \/ Reopen(c) \/ Reply(s, c) => UNCHANGED report
          /\ \A v : Post(s, c, v) => UNCHANGED report
          /\ \A by, change : EditRead(s, c, by, change) => UNCHANGED report
          /\ \A hidden : HideRead(s, c, hidden) => UNCHANGED report
    BY DEF Finish, Reopen, Post, Store, db, EditRead, Reply, HideRead
  <2>5. ASSUME NEW s \in Session,
               EditWrite(s) \/ HideWrite(s) \/ Commit(s) \/ Abort(s)
        PROVE  UNCHANGED report
    BY <2>5 DEF EditWrite, HideWrite, Store, db, Commit, Abort
  <2>6. CASE UNCHANGED vars
    BY <2>1, <2>6 DEF vars
  <2>7. CASE Next
    <3>1. PICK s \in Session :
             \/ Posting(s) \/ Changing(s)
             \/ EditWrite(s) \/ HideWrite(s) \/ Commit(s) \/ Abort(s)
      BY <2>7, Zenon DEF Next
    <3>2. CASE Posting(s)
      BY <2>1, <2>4, <3>2, Zenon DEF Posting
    <3>3. CASE Changing(s)
      <4>1. Busy \subseteq Booking
        BY DEF Assumptions, ReviewsAssumption
      <4>2. PICK c \in Busy :
               \/ \E by \in Editor, change \in Change : EditRead(s, c, by, change)
               \/ Reply(s, c)
               \/ Report(s, c)
               \/ \E hide \in BOOLEAN : ResolveReport(s, c, hide)
               \/ \E hidden \in BOOLEAN : HideRead(s, c, hidden)
        BY <3>3, Zenon DEF Changing
      <4>3. c \in Booking
        BY <4>1
      <4> QED
        BY <2>1, <2>2, <2>3, <2>4, <4>2, <4>3
    <3> QED
      BY <2>1, <2>5, <3>1, <3>2, <3>3
  <2> QED
    BY <2>6, <2>7
<1> QED
  BY <1>1, <1>2 DEF ReportsOK

(* Business rule 8 for authors: whatever handlers overlap, an edit by the  *)
(* author appends the version it replaces to the history that is there.    *)
(* The theorem leaves out edits by administrators, whom the trigger that   *)
(* the argument rests on (reviews_guard_update) lets pass.                 *)
THEOREM EditsKeepHistory ==
  ASSUME "admin" \notin Editor
  PROVE  Spec => HistoryKeepsEveryVersion
<1>1. Assumptions
  BY ReviewsAssumption, NothingAssumption DEF Assumptions
<1>2. Init => Inv
  BY InvInit, NothingAssumption
<1>3. Inv /\ [Next]_vars => Inv'
  BY <1>1, StepKinds, ReportsStep DEF Inv
<1>4. Inv /\ [Next]_vars =>
        [\A b \in Booking :
           Written(b) =>
             \/ /\ review'[b].version = review[b].version
                /\ review'[b].history = review[b].history
             \/ review'[b].history = Append(review[b].history, review[b].version)]_vars
  BY <1>1, StepKinds DEF Inv, ReviewEffect, Keeps, Versions
<1> QED
  BY <1>2, <1>3, <1>4, PTL DEF Spec, HistoryKeepsEveryVersion

-----------------------------------------------------------------------------
(***************************************************************************)
(* Visibility and ratings.  The invariant of these two does not care who   *)
(* edits: it says how a row that waits to be committed differs from the    *)
(* row it replaces.                                                        *)
(***************************************************************************)

(* Sessions with a handler that changes what a rating counts.              *)
Recounts(s) == RoutesOf[s] \cap {"post", "rerate", "takedown", "hide"} # {}

(* An edit that waits will be stored as its route says.                    *)
WaitingEdit(s, t, rows) ==
  /\ t.review \in Booking /\ rows[t.review].version # Nothing
  /\ t.change \in Change
  /\ t.seen \in Version /\ t.history \in Seq(Version)
  /\ t.change.rating # Nothing => Recounts(s)

WaitingHide(s, t, rows) ==
  HideOK(t, rows) /\ Recounts(s)

(* Only a decision changes whether a review is shown, and only what counts *)
(* changes the rating it gives.                                            *)
WaitingRow(s, t, rows) ==
  /\ t.review \in Booking
  /\ t.row \in Review /\ t.row.version # Nothing
  /\ t.counts \in BOOLEAN /\ t.ruled \in BOOLEAN
  /\ (~t.ruled /\ rows[t.review].version # Nothing)
       => t.row.hidden = rows[t.review].hidden
  /\ ~t.counts => /\ ~t.ruled
                  /\ rows[t.review].version # Nothing
                  /\ t.row.version.rating = rows[t.review].version.rating
  /\ t.counts => Recounts(s)

Waiting(s, t, rows) ==
  /\ t.op = "edit" => WaitingEdit(s, t, rows)
  /\ t.op = "hide" => WaitingHide(s, t, rows)
  /\ t.op = "stored" => WaitingRow(s, t, rows)

RowsInv ==
  /\ review \in [Booking -> Review]
  /\ rulings \in [Booking -> Nat]
  /\ DOMAIN tx = Session
  /\ \A s \in Session : Waiting(s, tx[s], review)
  /\ OneWriter

(* What waits to be written over the rating counts the reviews as they     *)
(* will be.                                                                *)
TallyOK ==
  /\ DOMAIN rating = Provider
  /\ \A s \in Session :
       (tx[s].op = "stored" /\ tx[s].counts) =>
         tx[s].tally = TallyOf(providerOf[tx[s].review],
                               [review EXCEPT ![tx[s].review] = tx[s].row])

RowAssumptions == ReviewsAssumption /\ NothingAssumption

(* As far as the rating of p counts, the reviews are the same.             *)
SameFor(p, old, new) ==
  \A b \in Booking : providerOf[b] = p =>
    /\ old[b].version # Nothing <=> new[b].version # Nothing
    /\ old[b].version # Nothing =>
         old[b].hidden = new[b].hidden /\ old[b].version.rating = new[b].version.rating

LEMMA SameTally ==
  ASSUME NEW p, NEW old, NEW new, SameFor(p, old, new)
  PROVE  TallyOf(p, old) = TallyOf(p, new)
<1> DEFINE counted(rows) == { b \in WrittenFor(p, rows) : ~rows[b].hidden }
<1>1. counted(old) = counted(new)
  BY DEF SameFor, WrittenFor
<1>2. \A b \in counted(old) : old[b].version.rating = new[b].version.rating
  BY DEF SameFor, WrittenFor
<1> HIDE DEF counted
<1>3. [b \in counted(old) |-> old[b].version.rating]
        = [b \in counted(new) |-> new[b].version.rating]
  BY <1>1, <1>2
<1>4. RatingOver(counted(old), old) = RatingOver(counted(new), new)
  BY <1>1, <1>3 DEF RatingOver
<1> QED
  BY <1>4 DEF TallyOf, counted

(* What the service aggregates is what a visitor is shown.                 *)
LEMMA TallyIsShown ==
  ASSUME NEW p, NEW rows \in [Booking -> Review]
  PROVE  TallyOf(p, rows) = Shown(p, rows)
<1>1. \A b \in Booking : rows[b].hidden \in BOOLEAN
  BY DEF Review
<1>2. { b \in WrittenFor(p, rows) : ~rows[b].hidden } = Listed(p, rows)
  BY <1>1 DEF WrittenFor, Listed
<1> QED
  BY <1>2 DEF TallyOf, Shown

-----------------------------------------------------------------------------
(* Steps of RowsInv. *)

LEMMA RowsSessionStep ==
  ASSUME RowsInv, UNCHANGED <<review, rulings>>, NEW s \in Session, NEW t,
         tx' = [tx EXCEPT ![s] = t],
         Waiting(s, t, review),
         t.op = "stored" => Unlocked(t.review)
  PROVE  RowsInv'
<1>1. tx'[s] = t /\ \A u \in Session \ {s} : tx'[u] = tx[u]
  BY DEF RowsInv
<1>2. \A u \in Session : Waiting(u, tx'[u], review')
  BY <1>1 DEF RowsInv
<1>3. OneWriter'
  BY <1>1 DEF RowsInv, OneWriter, Unlocked
<1> QED
  BY <1>2, <1>3 DEF RowsInv

LEMMA RowsIdleStep ==
  ASSUME RowsInv, UNCHANGED <<review, rulings>>, NEW s \in Session,
         tx' = [tx EXCEPT ![s] = Idle]
  PROVE  RowsInv'
<1>1. Waiting(s, Idle, review) /\ Idle.op # "stored"
  BY DEF Waiting, Idle
<1> QED
  BY <1>1, RowsSessionStep

LEMMA RowsStoreStep ==
  ASSUME RowsInv, NEW s \in Session, NEW b \in Booking,
         NEW r \in Review, r.version # Nothing,
         NEW counts \in BOOLEAN, NEW ruled \in BOOLEAN,
         (~ruled /\ Written(b)) => r.hidden = review[b].hidden,
         ~counts => ~ruled /\ Written(b) /\ r.version.rating = review[b].version.rating,
         counts => Recounts(s),
         Store(s, b, r, counts, ruled)
  PROVE  RowsInv'
<1> DEFINE t == [op |-> "stored", review |-> b, row |-> r,
                 counts |-> counts, ruled |-> ruled,
                 tally |-> TallyOf(providerOf[b], [review EXCEPT ![b] = r])]
<1>1. /\ tx' = [tx EXCEPT ![s] = t] /\ UNCHANGED <<review, rulings>>
      /\ Unlocked(b)
  BY DEF Store, db
<1>2. /\ t.op = "stored" /\ t.review = b /\ t.row = r
      /\ t.counts = counts /\ t.ruled = ruled
  OBVIOUS
<1> HIDE DEF t
<1>3. WaitingRow(s, t, review)
  BY <1>2 DEF WaitingRow, Written
<1>4. Waiting(s, t, review)
  BY <1>2, <1>3 DEF Waiting
<1> QED
  BY <1>1, <1>2, <1>4, RowsSessionStep

(* A row that is not locked takes another version of the same rating, or   *)
(* flag; what waits for other rows stands.                                 *)
LEMMA WaitingStands ==
  ASSUME NEW u \in Session, NEW t, NEW b \in Booking, NEW r,
         review \in [Booking -> Review],
         review[b].version # Nothing => r.version # Nothing,
         t.op = "stored" => t.review # b,
         review' = [review EXCEPT ![b] = r],
         Waiting(u, t, review)
  PROVE  Waiting(u, t, review')
<1>1. \A c \in Booking : review'[c] = IF c = b THEN r ELSE review[c]
  OBVIOUS
<1>2. \A c \in Booking : review[c].version # Nothing => review'[c].version # Nothing
  BY <1>1
<1>3. ASSUME t.op = "edit" PROVE WaitingEdit(u, t, review')
  BY <1>2, <1>3 DEF Waiting, WaitingEdit
<1>4. ASSUME t.op = "hide" PROVE WaitingHide(u, t, review')
  BY <1>2, <1>4 DEF Waiting, WaitingHide, HideOK
<1>5. ASSUME t.op = "stored" PROVE WaitingRow(u, t, review')
  <2>1. WaitingRow(u, t, review) /\ t.review \in Booking
    BY <1>5 DEF Waiting, WaitingRow
  <2>2. review'[t.review] = review[t.review]
    BY <1>1, <1>5, <2>1
  <2> QED
    BY <2>1, <2>2 DEF WaitingRow
<1> QED
  BY <1>3, <1>4, <1>5 DEF Waiting

LEMMA RowsCommitStep ==
  ASSUME RowsInv, NEW s \in Session, Commit(s)
  PROVE  RowsInv'
<1> DEFINE b == tx[s].review
<1>1. /\ WaitingRow(s, tx[s], review)
      /\ b \in Booking /\ tx[s].row \in Review /\ tx[s].row.version # Nothing
      /\ tx[s].op = "stored"
  BY DEF RowsInv, Waiting, WaitingRow, Commit
<1>2. /\ review' = [review EXCEPT ![b] = tx[s].row]
      /\ tx' = [tx EXCEPT ![s] = Idle]
      /\ rulings' = IF tx[s].ruled THEN [rulings EXCEPT ![b] = @ + 1] ELSE rulings
  BY DEF Commit
<1>3. review' \in [Booking -> Review] /\ rulings' \in [Booking -> Nat]
  BY <1>1, <1>2 DEF RowsInv
<1>4. tx'[s].op = "idle" /\ \A u \in Session \ {s} : tx'[u] = tx[u]
  BY <1>2 DEF RowsInv, Idle
<1>5. ASSUME NEW u \in Session PROVE Waiting(u, tx'[u], review')
  <2>1. CASE u = s
    BY <1>4, <2>1 DEF Waiting
  <2>2. CASE u # s
    <3>1. tx'[u] = tx[u] /\ Waiting(u, tx[u], review)
      BY <1>4, <2>2 DEF RowsInv
    <3>2. tx[u].op = "stored" => tx[u].review # b
      BY <1>1, <2>2 DEF RowsInv, OneWriter
    <3> QED
      BY <1>1, <1>2, <3>1, <3>2, WaitingStands DEF RowsInv
  <2> QED
    BY <2>1, <2>2
<1>6. DOMAIN tx' = Session /\ OneWriter'
  BY <1>2, <1>4 DEF RowsInv, OneWriter
<1> QED
  BY <1>3, <1>5, <1>6 DEF RowsInv

LEMMA RowsFlagStep ==
  ASSUME RowsInv, NEW b \in Booking, NEW r \in Review, Unlocked(b),
         r.version = review[b].version,
         review' = [review EXCEPT ![b] = r], UNCHANGED tx,
         rulings' \in [Booking -> Nat]
  PROVE  RowsInv'
<1>1. ASSUME NEW u \in Session PROVE Waiting(u, tx[u], review')
  <2>1. Waiting(u, tx[u], review) /\ (tx[u].op = "stored" => tx[u].review # b)
    BY DEF RowsInv, Unlocked
  <2> QED
    BY <2>1, WaitingStands DEF RowsInv
<1> QED
  BY <1>1 DEF RowsInv, OneWriter

(* A step that waits, or starts: the tables stay, and what a session       *)
(* stores is the tally of the reviews as they will be.                     *)
Quiet ==
  /\ UNCHANGED <<review, rating, rulings>>
  /\ \A s \in Session :
       \/ tx'[s] = tx[s]
       \/ tx'[s].op # "stored"
       \/ tx'[s].tally = TallyOf(providerOf[tx'[s].review],
                                 [review EXCEPT ![tx'[s].review] = tx'[s].row])

LEMMA QuietStore ==
  ASSUME RowsInv, NEW s \in Session, NEW b, NEW r, NEW counts, NEW ruled,
         Store(s, b, r, counts, ruled)
  PROVE  Quiet
<1> DEFINE t == [op |-> "stored", review |-> b, row |-> r,
                 counts |-> counts, ruled |-> ruled,
                 tally |-> TallyOf(providerOf[b], [review EXCEPT ![b] = r])]
<1>1. tx' = [tx EXCEPT ![s] = t] /\ UNCHANGED <<review, rating, rulings>>
  BY DEF Store, db
<1>2. /\ t.review = b /\ t.row = r
      /\ t.tally = TallyOf(providerOf[b], [review EXCEPT ![b] = r])
  OBVIOUS
<1> HIDE DEF t
<1>3. tx'[s] = t /\ \A u \in Session \ {s} : tx'[u] = tx[u]
  BY <1>1 DEF RowsInv
<1> QED
  BY <1>1, <1>2, <1>3 DEF Quiet

LEMMA QuietRead ==
  ASSUME RowsInv, NEW s \in Session, NEW t, t.op # "stored",
         tx' = [tx EXCEPT ![s] = t], UNCHANGED <<review, rating, rulings>>
  PROVE  Quiet
BY DEF Quiet, RowsInv

LEMMA PostRows ==
  ASSUME RowsInv, RowAssumptions, NEW s \in Session, NEW b \in Booking,
         NEW v \in Version, Post(s, b, v)
  PROVE  RowsInv' /\ Quiet
<1>1. <<>> \in Seq(Version) /\ v # Nothing
  BY DEF RowAssumptions, NothingAssumption
<1>2. Posted(v) \in Review /\ Posted(v).version # Nothing
  BY <1>1 DEF Posted, Review
<1>3. ~Written(b) /\ Recounts(s) /\ Store(s, b, Posted(v), TRUE, FALSE)
  BY DEF Post, Runs, Recounts
<1> QED
  BY <1>2, <1>3, RowsStoreStep, QuietStore

LEMMA EditReadRows ==
  ASSUME RowsInv, RowAssumptions, NEW s \in Session, NEW b \in Booking,
         NEW by \in Editor, NEW change \in Change, EditRead(s, b, by, change)
  PROVE  RowsInv' /\ Quiet
<1> DEFINE t == [op |-> "edit", review |-> b, by |-> by, change |-> change,
                 seen |-> review[b].version, history |-> review[b].history]
<1>1. tx' = [tx EXCEPT ![s] = t] /\ UNCHANGED <<review, rating, rulings>>
  BY DEF EditRead, db
<1>2. review[b] \in Review /\ review[b].version # Nothing
  BY DEF EditRead, Written, RowsInv
<1>3. review[b].version \in Version /\ review[b].history \in Seq(Version)
  BY <1>2, VersionsType
<1>4. change.rating # Nothing => Recounts(s)
  BY DEF EditRead, EditRoute, Runs, Recounts
<1>5. WaitingEdit(s, t, review)
  BY <1>2, <1>3, <1>4 DEF WaitingEdit
<1>6. t.op = "edit"
  OBVIOUS
<1> HIDE DEF t
<1>7. Waiting(s, t, review)
  BY <1>5, <1>6 DEF Waiting
<1> QED
  BY <1>1, <1>6, <1>7, RowsSessionStep, QuietRead

LEMMA EditWriteRows ==
  ASSUME RowsInv, RowAssumptions, NEW s \in Session, EditWrite(s)
  PROVE  RowsInv' /\ Quiet
<1> DEFINE t   == tx[s]
           b   == t.review
           old == review[b]
           new == EditedRow(old, t)
<1>1. WaitingEdit(s, t, review)
  BY DEF RowsInv, Waiting, EditWrite
<1>2. b \in Booking /\ old \in Review /\ old.version # Nothing
  BY <1>1 DEF WaitingEdit, RowsInv
<1>3. /\ t.history \in Seq(Version) /\ t.seen \in Version /\ t.change \in Change
      /\ t.change.rating # Nothing => Recounts(s)
  BY <1>1 DEF WaitingEdit
<1>4. old.version \in Version /\ Append(t.history, t.seen) \in Seq(Version)
  BY <1>2, <1>3, VersionsType, AppendProperties
<1>5. Changed(old.version, t.change) \in Version
  BY <1>3, <1>4 DEF Changed, Change, Version
<1>6. /\ new \in Review
      /\ new.version = Changed(old.version, t.change)
      /\ new.hidden = old.hidden
  BY <1>2, <1>4, <1>5 DEF EditedRow, Review
<1>7. new.version # Nothing
  BY <1>5, <1>6 DEF RowAssumptions, NothingAssumption
<1>8. t.change.rating = Nothing => new.version.rating = old.version.rating
  BY <1>6 DEF Changed
<1>9. Store(s, b, new, t.change.rating # Nothing, FALSE) /\ Written(b)
  BY <1>2 DEF EditWrite, Written
<1> HIDE DEF new
<1> QED
  BY <1>2, <1>3, <1>6, <1>7, <1>8, <1>9, RowsStoreStep, QuietStore

LEMMA HideReadRows ==
  ASSUME RowsInv, NEW s \in Session, NEW b \in Booking, NEW hidden \in BOOLEAN,
         HideRead(s, b, hidden)
  PROVE  RowsInv' /\ Quiet
<1> DEFINE t == [op |-> "hide", review |-> b, hidden |-> hidden]
<1>1. tx' = [tx EXCEPT ![s] = t] /\ UNCHANGED <<review, rating, rulings>>
  BY DEF HideRead, db
<1>2. Recounts(s)
  BY DEF HideRead, Runs, Recounts
<1>3. WaitingHide(s, t, review)
  BY <1>2 DEF WaitingHide, HideOK, HideRead, Written
<1>4. t.op = "hide"
  OBVIOUS
<1> HIDE DEF t
<1>5. Waiting(s, t, review)
  BY <1>3, <1>4 DEF Waiting
<1> QED
  BY <1>1, <1>4, <1>5, RowsSessionStep, QuietRead

LEMMA HideWriteRows ==
  ASSUME RowsInv, NEW s \in Session, HideWrite(s)
  PROVE  RowsInv' /\ Quiet
<1> DEFINE b == tx[s].review
           r == [review[b] EXCEPT !.hidden = tx[s].hidden]
<1>1. HideOK(tx[s], review) /\ Recounts(s)
  BY DEF RowsInv, Waiting, WaitingHide, HideWrite
<1>2. b \in Booking /\ review[b] \in Review /\ review[b].version # Nothing
  BY <1>1 DEF HideOK, RowsInv
<1>3. r \in Review /\ r.version = review[b].version
  BY <1>1, <1>2 DEF HideOK, Review
<1>4. Store(s, b, r, TRUE, TRUE)
  BY DEF HideWrite
<1> HIDE DEF r
<1> QED
  BY <1>1, <1>2, <1>3, <1>4, RowsStoreStep, QuietStore

LEMMA ReplyRows ==
  ASSUME RowsInv, NEW s \in Session, NEW b \in Booking, Reply(s, b)
  PROVE  RowsInv'
<1> DEFINE r == [review[b] EXCEPT !.replied = TRUE]
<1>1. review[b] \in Review /\ Unlocked(b)
  BY DEF Reply, RowsInv
<1>2. r \in Review /\ r.version = review[b].version
  BY <1>1 DEF Review
<1>3. review' = [review EXCEPT ![b] = r] /\ UNCHANGED <<tx, rulings>>
  BY DEF Reply
<1> HIDE DEF r
<1> QED
  BY <1>1, <1>2, <1>3, RowsFlagStep DEF RowsInv

LEMMA TakedownRows ==
  ASSUME RowsInv, NEW s \in Session, NEW b \in Booking, ResolveReport(s, b, TRUE)
  PROVE  RowsInv'
<1> DEFINE r == [review[b] EXCEPT !.hidden = TRUE]
<1>1. review[b] \in Review /\ Unlocked(b)
  BY DEF ResolveReport, RowsInv
<1>2. r \in Review /\ r.version = review[b].version
  BY <1>1 DEF Review
<1>3. /\ review' = [review EXCEPT ![b] = r] /\ UNCHANGED tx
      /\ rulings' = [rulings EXCEPT ![b] = @ + 1]
  BY DEF ResolveReport
<1>4. rulings' \in [Booking -> Nat]
  BY <1>3 DEF RowsInv
<1> HIDE DEF r
<1> QED
  BY <1>1, <1>2, <1>3, <1>4, RowsFlagStep

(* Every step waits, commits, replies, or takes a review down.             *)
Kinds ==
  \/ Quiet
  \/ \E s \in Session : Commit(s)
  \/ \E s \in Session, b \in Booking : Reply(s, b) \/ ResolveReport(s, b, TRUE)

LEMMA StandsStill ==
  ASSUME RowsInv, UNCHANGED <<review, rating, rulings, tx>>
  PROVE  RowsInv' /\ Kinds
BY DEF RowsInv, OneWriter, Kinds, Quiet

LEMMA BusyRows ==
  ASSUME RowsInv, RowAssumptions, NEW s \in Session, Changing(s)
  PROVE  RowsInv' /\ Kinds
<1>1. PICK b \in Busy :
         \/ \E by \in Editor, change \in Change : EditRead(s, b, by, change)
         \/ Reply(s, b)
         \/ Report(s, b)
         \/ \E hide \in BOOLEAN : ResolveReport(s, b, hide)
         \/ \E hidden \in BOOLEAN : HideRead(s, b, hidden)
  BY Zenon DEF Changing
<1>2. b \in Booking
  BY DEF RowAssumptions, ReviewsAssumption
<1>3. CASE \E by \in Editor, change \in Change : EditRead(s, b, by, change)
  BY <1>2, <1>3, EditReadRows DEF Kinds
<1>4. CASE Reply(s, b)
  BY <1>2, <1>4, ReplyRows DEF Kinds
<1>5. CASE Report(s, b)
  BY <1>5, StandsStill DEF Report
<1>6. CASE \E hide \in BOOLEAN : ResolveReport(s, b, hide)
  <2>1. CASE ResolveReport(s, b, TRUE)
    BY <1>2, <2>1, TakedownRows DEF Kinds
  <2>2. CASE ResolveReport(s, b, FALSE)
    BY <2>2, StandsStill DEF ResolveReport
  <2> QED
    BY <1>6, <2>1, <2>2
<1>7. CASE \E hidden \in BOOLEAN : HideRead(s, b, hidden)
  BY <1>2, <1>7, HideReadRows DEF Kinds
<1> QED
  BY <1>1, <1>3, <1>4, <1>5, <1>6, <1>7

LEMMA RowsStep ==
  ASSUME RowsInv, RowAssumptions, [Next]_vars
  PROVE  RowsInv' /\ Kinds
<1>1. CASE UNCHANGED vars
  BY <1>1, StandsStill DEF vars
<1>2. CASE Next
  <2>1. PICK s \in Session :
           \/ Posting(s) \/ Changing(s)
           \/ EditWrite(s) \/ HideWrite(s) \/ Commit(s) \/ Abort(s)
    BY <1>2, Zenon DEF Next
  <2>2. CASE Posting(s)
    <3>1. PICK b \in Booking : \/ Finish(b) \/ Reopen(b)
                               \/ \E v \in Version : Post(s, b, v)
      BY <2>2, Zenon DEF Posting
    <3>2. Finish(b) \/ Reopen(b) => UNCHANGED <<review, rating, rulings, tx>>
      BY DEF Finish, Reopen
    <3> QED
      BY <3>1, <3>2, StandsStill, PostRows DEF Kinds
  <2>3. CASE Changing(s)
    BY <2>3, BusyRows
  <2>4. CASE EditWrite(s) \/ HideWrite(s)
    BY <2>4, EditWriteRows, HideWriteRows DEF Kinds
  <2>5. CASE Commit(s)
    BY <2>5, RowsCommitStep DEF Kinds
  <2>6. CASE Abort(s)
    <3>1. tx' = [tx EXCEPT ![s] = Idle] /\ UNCHANGED <<review, rating, rulings>>
      BY <2>6 DEF Abort, db
    <3>2. Idle.op # "stored"
      BY DEF Idle
    <3> QED
      BY <3>1, <3>2, RowsIdleStep, QuietRead DEF Kinds
  <2> QED
    BY <2>1, <2>2, <2>3, <2>4, <2>5, <2>6
<1> QED
  BY <1>1, <1>2

LEMMA RowsInit ==
  ASSUME RowAssumptions, Init
  PROVE  RowsInv /\ TallyOK
<1>1. NoReview \in Review
  <2>1. <<>> \in Seq(Version)
    OBVIOUS
  <2> QED
    BY <2>1 DEF NoReview, Posted, Review
<1>2. review \in [Booking -> Review] /\ rulings \in [Booking -> Nat]
  BY <1>1 DEF Init
<1>3. DOMAIN tx = Session /\ \A s \in Session : tx[s].op = "idle"
  BY DEF Init, Idle
<1>4. DOMAIN rating = Provider
  BY DEF Init
<1> QED
  BY <1>2, <1>3, <1>4 DEF RowsInv, TallyOK, Waiting, OneWriter

-----------------------------------------------------------------------------
(* Of what a step can be, only a decision changes the flag.                *)
LEMMA RulingsDecide ==
  ASSUME RowsInv, Kinds, NEW b \in Booking, Written(b),
         review'[b].hidden # review[b].hidden
  PROVE  rulings'[b] > rulings[b]
<1>1. CASE Quiet
  BY <1>1 DEF Quiet
<1>2. ASSUME NEW s \in Session, Commit(s) PROVE rulings'[b] > rulings[b]
  <2>1. WaitingRow(s, tx[s], review)
    BY <1>2 DEF RowsInv, Waiting, Commit
  <2>2. review' = [review EXCEPT ![tx[s].review] = tx[s].row]
    BY <1>2 DEF Commit
  <2>3. tx[s].review = b
    BY <2>1, <2>2 DEF WaitingRow, RowsInv
  <2>4. tx[s].ruled
    BY <2>1, <2>2, <2>3 DEF WaitingRow, Written, RowsInv
  <2>5. rulings' = [rulings EXCEPT ![b] = @ + 1]
    BY <1>2, <2>3, <2>4 DEF Commit
  <2> QED
    BY <2>5 DEF RowsInv
<1>3. ASSUME NEW s \in Session, NEW c \in Booking, Reply(s, c)
      PROVE  rulings'[b] > rulings[b]
  <2>1. review' = [review EXCEPT ![c].replied = TRUE]
    BY <1>3 DEF Reply
  <2>2. review'[b].hidden = review[b].hidden
    BY <2>1 DEF RowsInv, Review
  <2> QED
    BY <2>2
<1>4. ASSUME NEW s \in Session, NEW c \in Booking, ResolveReport(s, c, TRUE)
      PROVE  rulings'[b] > rulings[b]
  <2>1. /\ review' = [review EXCEPT ![c].hidden = TRUE]
        /\ rulings' = [rulings EXCEPT ![c] = @ + 1]
    BY <1>4 DEF ResolveReport
  <2>2. c = b
    BY <2>1 DEF RowsInv
  <2> QED
    BY <2>1, <2>2 DEF RowsInv
<1> QED
  BY <1>1, <1>2, <1>3, <1>4 DEF Kinds

(* A review that is hidden stays hidden, and one that is shown stays       *)
(* shown, through every edit, reply and post that had read it before,      *)
(* until an administrator decides otherwise and the decision is recorded:  *)
(* whoever edits, and whichever handlers overlap.                          *)
THEOREM DecisionsAreOnRecord ==
  Spec => VisibilityIsRuled
<1>1. RowAssumptions
  BY ReviewsAssumption, NothingAssumption DEF RowAssumptions
<1>2. Init => RowsInv
  BY <1>1, RowsInit
<1>3. RowsInv /\ [Next]_vars => RowsInv'
  BY <1>1, RowsStep
<1>4. RowsInv /\ [Next]_vars =>
        [\A b \in Booking :
           (Written(b) /\ review'[b].hidden # review[b].hidden)
             => rulings'[b] > rulings[b]]_vars
  BY <1>1, RowsStep, RulingsDecide
<1> QED
  BY <1>2, <1>3, <1>4, PTL DEF Spec, VisibilityIsRuled

-----------------------------------------------------------------------------
(* The rating.  A session that counts has its tally waiting while others   *)
(* commit; theirs are rows of other reviews that count as they did.        *)

OneCounts == \A s, u \in Session : Recounts(s) /\ Recounts(u) => s = u

(* A commit that does not count leaves every rating what it was.           *)
LEMMA QuietCommitCounts ==
  ASSUME RowsInv, NEW s \in Session, Commit(s), ~tx[s].counts, NEW p
  PROVE  SameFor(p, review, review')
<1>1. WaitingRow(s, tx[s], review)
  BY DEF RowsInv, Waiting, Commit
<1>2. review' = [review EXCEPT ![tx[s].review] = tx[s].row]
  BY DEF Commit
<1>3. \A c \in Booking : c # tx[s].review => review'[c] = review[c]
  BY <1>2 DEF RowsInv
<1>4. review'[tx[s].review] = tx[s].row
  BY <1>1, <1>2 DEF RowsInv, WaitingRow
<1> QED
  BY <1>1, <1>3, <1>4 DEF SameFor, WaitingRow

LEMMA ReplyCounts ==
  ASSUME RowsInv, NEW s \in Session, NEW b \in Booking, Reply(s, b), NEW p
  PROVE  SameFor(p, review, review')
<1>1. review' = [review EXCEPT ![b].replied = TRUE] /\ review[b] \in Review
  BY DEF Reply, RowsInv
<1>2. \A c \in Booking : c # b => review'[c] = review[c]
  BY <1>1 DEF RowsInv
<1>3. /\ review'[b].version = review[b].version
      /\ review'[b].hidden = review[b].hidden
  BY <1>1 DEF Review, RowsInv
<1> QED
  BY <1>2, <1>3 DEF SameFor

(* What counts the same before a row is replaced does so after.            *)
LEMMA SameAfter ==
  ASSUME RowsInv, RowsInv', NEW b \in Booking, NEW r \in Review, NEW p,
         SameFor(p, review, review')
  PROVE  TallyOf(p, [review EXCEPT ![b] = r]) = TallyOf(p, [review' EXCEPT ![b] = r])
<1> DEFINE old == [review EXCEPT ![b] = r]
           new == [review' EXCEPT ![b] = r]
<1>1. \A c \in Booking : /\ old[c] = IF c = b THEN r ELSE review[c]
                         /\ new[c] = IF c = b THEN r ELSE review'[c]
  BY DEF RowsInv
<1> HIDE DEF old, new
<1>2. SameFor(p, old, new)
  BY <1>1 DEF SameFor
<1>3. TallyOf(p, old) = TallyOf(p, new)
  BY <1>2, SameTally
<1> QED
  BY <1>3 DEF old, new

(* Nobody touches what a session that counts has waiting.                  *)
LEMMA TallyStep ==
  ASSUME RowsInv, RowsInv', TallyOK, Kinds, OneCounts
  PROVE  TallyOK'
<1>1. CASE Quiet
  BY <1>1 DEF Quiet, TallyOK, RowsInv
<1>2. ASSUME NEW s \in Session, tx'[s].op = "stored", tx[s] = tx'[s], tx[s].counts,
             \A p : SameFor(p, review, review')
      PROVE  tx'[s].tally = TallyOf(providerOf[tx'[s].review],
                               [review' EXCEPT ![tx'[s].review] = tx'[s].row])
  <2>1. WaitingRow(s, tx[s], review)
    BY <1>2 DEF RowsInv, Waiting
  <2>2. tx[s].tally = TallyOf(providerOf[tx[s].review],
                              [review EXCEPT ![tx[s].review] = tx[s].row])
    BY <1>2 DEF TallyOK
  <2> QED
    BY <1>2, <2>1, <2>2, SameAfter DEF WaitingRow
<1>3. ASSUME NEW u \in Session, Commit(u) PROVE TallyOK'
  <2>1. /\ tx' = [tx EXCEPT ![u] = Idle]
        /\ DOMAIN rating' = DOMAIN rating
    BY <1>3 DEF Commit
  <2>2. tx'[u].op = "idle" /\ \A s \in Session \ {u} : tx'[s] = tx[s]
    BY <2>1 DEF RowsInv, Idle
  <2>3. ASSUME NEW s \in Session, tx'[s].op = "stored", tx'[s].counts
        PROVE  tx'[s].tally = TallyOf(providerOf[tx'[s].review],
                                 [review' EXCEPT ![tx'[s].review] = tx'[s].row])
    <3>1. s # u /\ tx'[s] = tx[s]
      BY <2>2, <2>3
    <3>2. Recounts(s)
      BY <2>3, <3>1 DEF RowsInv, Waiting, WaitingRow
    <3>3. ~tx[u].counts
      BY <1>3, <3>1, <3>2 DEF OneCounts, RowsInv, Waiting, WaitingRow, Commit
    <3>4. \A p : SameFor(p, review, review')
      BY <1>3, <3>3, QuietCommitCounts
    <3> QED
      BY <1>2, <2>3, <3>1, <3>4
  <2> QED
    BY <2>1, <2>3 DEF TallyOK
<1>4. ASSUME NEW u \in Session, NEW b \in Booking, Reply(u, b) PROVE TallyOK'
  <2>1. UNCHANGED <<tx, rating>>
    BY <1>4 DEF Reply
  <2>2. \A p : SameFor(p, review, review')
    BY <1>4, ReplyCounts
  <2> QED
    BY <1>2, <2>1, <2>2 DEF TallyOK
<1>5. ASSUME NEW u \in Session, NEW b \in Booking, ResolveReport(u, b, TRUE)
      PROVE  TallyOK'
  <2>1. UNCHANGED <<tx, rating>> /\ tx[u] = Idle /\ Recounts(u)
    BY <1>5 DEF ResolveReport, Runs, Recounts
  <2>2. \A s \in Session : tx[s].op = "stored" /\ tx[s].counts => Recounts(s)
    BY DEF RowsInv, Waiting, WaitingRow
  <2>3. \A s \in Session : ~(tx[s].op = "stored" /\ tx[s].counts)
    BY <2>1, <2>2 DEF OneCounts, Idle
  <2> QED
    BY <2>1, <2>3 DEF TallyOK
<1> QED
  BY <1>1, <1>3, <1>4, <1>5 DEF Kinds

(* What one step does to the rating of a provider.                         *)
LEMMA RatingFollows ==
  ASSUME RowsInv, RowsInv', TallyOK, RowAssumptions, Kinds, NEW p \in Provider
  PROVE  \/ /\ rating'[p] = rating[p]
            /\ \/ UNCHANGED review
               \/ rating[p] # Shown(p, review)
               \/ \E s \in Session, b \in Booking : ResolveReport(s, b, TRUE)
         \/ rating'[p] = Shown(p, review')
<1>1. review \in [Booking -> Review] /\ review' \in [Booking -> Review]
  BY DEF RowsInv
<1>2. /\ TallyOf(p, review) = Shown(p, review)
      /\ TallyOf(p, review') = Shown(p, review')
  BY <1>1, TallyIsShown
<1>3. SameFor(p, review, review') => Shown(p, review) = Shown(p, review')
  BY <1>2, SameTally
<1>4. CASE Quiet
  BY <1>4 DEF Quiet
<1>5. ASSUME NEW s \in Session, Commit(s)
      PROVE  \/ rating'[p] = rating[p] /\ Shown(p, review) = Shown(p, review')
             \/ rating'[p] = Shown(p, review')
  <2> DEFINE b == tx[s].review
  <2>1. WaitingRow(s, tx[s], review) /\ b \in Booking /\ tx[s].op = "stored"
    BY <1>5 DEF RowsInv, Waiting, WaitingRow, Commit
  <2>2. review' = [review EXCEPT ![b] = tx[s].row]
    BY <1>5 DEF Commit
  <2>3. CASE ~tx[s].counts
    <3>1. rating' = rating
      BY <1>5, <2>3 DEF Commit
    <3>2. SameFor(p, review, review')
      BY <1>5, <2>3, QuietCommitCounts
    <3> QED
      BY <1>3, <3>1, <3>2
  <2>4. CASE tx[s].counts /\ providerOf[b] = p
    <3>1. rating' = [rating EXCEPT ![p] = tx[s].tally]
      BY <1>5, <2>4 DEF Commit
    <3>2. rating'[p] = tx[s].tally
      BY <3>1 DEF TallyOK
    <3>3. tx[s].tally = TallyOf(p, review')
      BY <2>1, <2>2, <2>4 DEF TallyOK
    <3> QED
      BY <1>2, <3>2, <3>3
  <2>5. CASE tx[s].counts /\ providerOf[b] # p
    <3>1. rating' = [rating EXCEPT ![providerOf[b]] = tx[s].tally]
      BY <1>5, <2>5 DEF Commit
    <3>2. rating'[p] = rating[p]
      BY <2>5, <3>1 DEF TallyOK
    <3>3. SameFor(p, review, review')
      BY <1>1, <2>2, <2>5 DEF SameFor
    <3> QED
      BY <1>3, <3>2, <3>3
  <2> QED
    BY <2>1, <2>3, <2>4, <2>5 DEF WaitingRow
<1>6. ASSUME NEW s \in Session, NEW b \in Booking, Reply(s, b)
      PROVE  rating'[p] = rating[p] /\ Shown(p, review) = Shown(p, review')
  BY <1>3, <1>6, ReplyCounts DEF Reply
<1>7. ASSUME NEW s \in Session, NEW b \in Booking, ResolveReport(s, b, TRUE)
      PROVE  rating'[p] = rating[p]
  BY <1>7 DEF ResolveReport
<1>8. CASE \E s \in Session : Commit(s)
  BY <1>5, <1>8
<1>9. CASE \E s \in Session, b \in Booking : Reply(s, b)
  BY <1>6, <1>9
<1>10. CASE \E s \in Session, b \in Booking : ResolveReport(s, b, TRUE)
  BY <1>7, <1>10
<1> QED
  BY <1>4, <1>8, <1>9, <1>10 DEF Kinds

(* The rating on a profile keeps up with the reviews a visitor is shown,   *)
(* as long as handlers that count or hide run in one session: edits of     *)
(* words, replies, reports and their resolutions may overlap with them in  *)
(* any number of others.  Without the hypothesis it is false, as the run   *)
(* in which two sessions count shows.                                      *)
THEOREM RatingsKeepUp ==
  ASSUME OneCounts
  PROVE  Spec => RatingKeepsUp
<1>1. RowAssumptions
  BY ReviewsAssumption, NothingAssumption DEF RowAssumptions
<1>2. Init => RowsInv /\ TallyOK
  BY <1>1, RowsInit
<1>3. RowsInv /\ TallyOK /\ [Next]_vars => (RowsInv /\ TallyOK)'
  BY <1>1, RowsStep, TallyStep
<1>4. RowsInv /\ TallyOK /\ [Next]_vars =>
        [\A p \in Provider :
           \/ /\ rating'[p] = rating[p]
              /\ \/ UNCHANGED review
                 \/ rating[p] # Shown(p, review)
                 \/ \E s \in Session, b \in Booking : ResolveReport(s, b, TRUE)
           \/ rating'[p] = Shown(p, review')]_vars
  BY <1>1, RowsStep, RatingFollows
<1> QED
  BY <1>2, <1>3, <1>4, PTL DEF Spec, RatingKeepsUp

-----------------------------------------------------------------------------
(***************************************************************************)
(* Sums.  SumFunction is a recursive function on the subsets of a domain;  *)
(* it is shown to exist, to be unique, and to give numbers.  Each of the   *)
(* three is an induction over the subsets of a finite set: of the subsets  *)
(* on which the claim fails there would be a smallest one.                 *)
(***************************************************************************)

(* The element that the recursion takes from a set first.                  *)
Pick(s) == CHOOSE x \in s : TRUE

(* g solves the recursion for f on the subsets of s.                       *)
Sums(f, s, g) ==
  g = [t \in SUBSET s |-> IF t = {} THEN 0 ELSE f[Pick(t)] + g[t \ {Pick(t)}]]

LEMMA SumIs ==
  ASSUME NEW f
  PROVE  SumFunction(f) = (CHOOSE g : Sums(f, DOMAIN f, g))[DOMAIN f]
BY DEF SumFunction, SumFunctionOnSet, FoldFunctionOnSet, MapThenFoldSet, Sums, Pick

(* A family of subsets of a finite set has a smallest member.              *)
LEMMA SmallestSubset ==
  ASSUME NEW S, IsFiniteSet(S), NEW B \in SUBSET (SUBSET S), B # {}
  PROVE  \E t \in B : \A u \in B : ~(u \subseteq t /\ u # t)
<1>1. B \subseteq FiniteSubsetsOf(S)
  BY FS_Subset DEF FiniteSubsetsOf
<1>2. \E t \in B : \A u \in B : <<u, t>> \notin StrictSubsetOrdering(S)
  BY <1>1, FS_StrictSubsetOrderingWellFounded, WFMin
<1> QED
  BY <1>2 DEF StrictSubsetOrdering

(* A solution on a set is one on its subsets.                              *)
LEMMA SumsBelow ==
  ASSUME NEW f, NEW s, NEW g, Sums(f, s, g), NEW u \in SUBSET s
  PROVE  Sums(f, u, [t \in SUBSET u |-> g[t]])
<1> DEFINE h == [t \in SUBSET u |-> g[t]]
<1>1. ASSUME NEW t \in SUBSET u
      PROVE  h[t] = IF t = {} THEN 0 ELSE f[Pick(t)] + h[t \ {Pick(t)}]
  <2>1. t \in SUBSET s /\ t \ {Pick(t)} \in SUBSET u
    OBVIOUS
  <2>2. g[t] = IF t = {} THEN 0 ELSE f[Pick(t)] + g[t \ {Pick(t)}]
    BY <2>1 DEF Sums
  <2> QED
    BY <2>1, <2>2
<1>2. h = [t \in SUBSET u |-> h[t]]
  OBVIOUS
<1> HIDE DEF h
<1>3. h = [t \in SUBSET u |-> IF t = {} THEN 0 ELSE f[Pick(t)] + h[t \ {Pick(t)}]]
  BY <1>1, <1>2
<1>4. Sums(f, u, h)
  BY <1>3 DEF Sums
<1> QED
  BY <1>4 DEF h

LEMMA PickIsMember ==
  ASSUME NEW t, t # {}
  PROVE  Pick(t) \in t /\ t \ {Pick(t)} \subseteq t /\ t \ {Pick(t)} # t
<1>1. Pick(t) \in t
  BY DEF Pick
<1> QED
  BY <1>1

(* And there is only one.                                                  *)
LEMMA SumsUnique ==
  ASSUME NEW f, NEW s, IsFiniteSet(s), NEW g, NEW h,
         Sums(f, s, g), Sums(f, s, h)
  PROVE  g = h
<1> DEFINE B == { t \in SUBSET s : g[t] # h[t] }
<1>1. SUFFICES ASSUME B # {} PROVE FALSE
  <2>1. g = [t \in SUBSET s |-> g[t]] /\ h = [t \in SUBSET s |-> h[t]]
    BY DEF Sums
  <2> QED
    BY <2>1
<1>2. PICK t \in B : \A u \in B : ~(u \subseteq t /\ u # t)
  <2>1. B \in SUBSET (SUBSET s)
    OBVIOUS
  <2> HIDE DEF B
  <2> QED
    BY <1>1, <2>1, SmallestSubset
<1>3. /\ g[t] = IF t = {} THEN 0 ELSE f[Pick(t)] + g[t \ {Pick(t)}]
      /\ h[t] = IF t = {} THEN 0 ELSE f[Pick(t)] + h[t \ {Pick(t)}]
  BY DEF Sums
<1>4. t # {}
  BY <1>3
<1>5. t \ {Pick(t)} \in SUBSET s /\ t \ {Pick(t)} \notin B
  BY <1>2, <1>4, PickIsMember
<1> QED
  BY <1>3, <1>5

(* A smallest set without a solution would have one: the solutions on its  *)
(* subsets agree where they meet.                                          *)
LEMMA SumsExist ==
  ASSUME NEW f, NEW s, IsFiniteSet(s)
  PROVE  \E g : Sums(f, s, g)
<1> DEFINE B == { t \in SUBSET s : ~ \E g : Sums(f, t, g) }
<1>1. SUFFICES ASSUME B # {} PROVE FALSE
  OBVIOUS
<1>2. PICK top \in B : \A u \in B : ~(u \subseteq top /\ u # top)
  <2>1. B \in SUBSET (SUBSET s)
    OBVIOUS
  <2> HIDE DEF B
  <2> QED
    BY <1>1, <2>1, SmallestSubset
<1> DEFINE of(t) == CHOOSE g : Sums(f, t, g)
           h == [t \in SUBSET top |->
                   IF t = top
                   THEN IF t = {} THEN 0
                        ELSE f[Pick(t)] + of(t \ {Pick(t)})[t \ {Pick(t)}]
                   ELSE of(t)[t]]
<1>3. ASSUME NEW t \in SUBSET top, t # top PROVE Sums(f, t, of(t))
  <2>1. t \in SUBSET s /\ t \notin B
    BY <1>2, <1>3
  <2> QED
    BY <2>1
<1>4. ASSUME NEW t \in SUBSET top, t # top, NEW u \in SUBSET t
      PROVE  of(t)[u] = of(u)[u]
  <2>1. u \in SUBSET top /\ u # top
    BY <1>4
  <2>2. Sums(f, t, of(t)) /\ Sums(f, u, of(u))
    BY <1>3, <1>4, <2>1
  <2>3. IsFiniteSet(u)
    BY <2>1, FS_Subset
  <2> HIDE DEF of
  <2>4. Sums(f, u, [v \in SUBSET u |-> of(t)[v]])
    BY <2>2, SumsBelow
  <2>5. [v \in SUBSET u |-> of(t)[v]] = of(u)
    BY <2>2, <2>3, <2>4, SumsUnique
  <2>6. [v \in SUBSET u |-> of(t)[v]][u] = of(t)[u]
    OBVIOUS
  <2> QED
    BY <2>5, <2>6
<1>5. ASSUME NEW t \in SUBSET top
      PROVE  h[t] = IF t = {} THEN 0 ELSE f[Pick(t)] + h[t \ {Pick(t)}]
  <2> DEFINE u == t \ {Pick(t)}
  <2>1. CASE t = {}
    <3>1. CASE t = top
      BY <2>1, <3>1
    <3>2. CASE t # top
      <4>1. Sums(f, t, of(t))
        BY <1>3, <3>2
      <4> HIDE DEF of
      <4>2. of(t)[t] = 0
        BY <2>1, <4>1 DEF Sums
      <4> QED
        BY <2>1, <3>2, <4>2
    <3> QED
      BY <3>1, <3>2
  <2>2. CASE t # {}
    <3>1. u \in SUBSET top /\ u # top /\ u \in SUBSET t /\ u # t
      BY <2>2, PickIsMember
    <3>2. h[u] = of(u)[u]
      BY <3>1
    <3>3. CASE t = top
      BY <2>2, <3>2, <3>3
    <3>4. CASE t # top
      <4>1. Sums(f, t, of(t)) /\ of(t)[u] = of(u)[u]
        BY <1>3, <1>4, <3>1, <3>4
      <4>2. h[t] = of(t)[t]
        BY <3>4
      <4> HIDE DEF of, h
      <4>3. of(t)[t] = f[Pick(t)] + of(t)[u]
        BY <2>2, <4>1 DEF Sums
      <4> QED
        BY <2>2, <3>2, <4>1, <4>2, <4>3
    <3> QED
      BY <3>3, <3>4
  <2> QED
    BY <2>1, <2>2
<1>6. h = [t \in SUBSET top |-> h[t]]
  OBVIOUS
<1> HIDE DEF h
<1>7. h = [t \in SUBSET top |-> IF t = {} THEN 0 ELSE f[Pick(t)] + h[t \ {Pick(t)}]]
  BY <1>5, <1>6
<1>8. Sums(f, top, h)
  BY <1>7 DEF Sums
<1> QED
  BY <1>2, <1>8

LEMMA SumIsNatural ==
  ASSUME NEW S, IsFiniteSet(S), NEW f \in [S -> Nat]
  PROVE  SumFunction(f) \in Nat
<1> DEFINE g == CHOOSE g : Sums(f, S, g)
<1>1. SumFunction(f) = g[S]
  BY SumIs
<1>2. Sums(f, S, g)
  BY SumsExist
<1> HIDE DEF g
<1> DEFINE B == { t \in SUBSET S : g[t] \notin Nat }
<1>3. SUFFICES ASSUME B # {} PROVE FALSE
  BY <1>1
<1>4. PICK t \in B : \A u \in B : ~(u \subseteq t /\ u # t)
  <2>1. B \in SUBSET (SUBSET S)
    OBVIOUS
  <2> HIDE DEF B
  <2> QED
    BY <1>3, <2>1, SmallestSubset
<1>5. g[t] = IF t = {} THEN 0 ELSE f[Pick(t)] + g[t \ {Pick(t)}]
  BY <1>2 DEF Sums
<1>6. t # {}
  BY <1>5
<1>7. Pick(t) \in S /\ t \ {Pick(t)} \in SUBSET S /\ t \ {Pick(t)} \notin B
  BY <1>4, <1>6, PickIsMember
<1> QED
  BY <1>5, <1>6, <1>7

-----------------------------------------------------------------------------
(* Types. *)

LEMMA TallyType ==
  ASSUME RowAssumptions, NEW p, NEW rows \in [Booking -> Review]
  PROVE  TallyOf(p, rows) \in Tally
<1> DEFINE counted == { b \in WrittenFor(p, rows) : ~rows[b].hidden }
           gives   == [b \in counted |-> rows[b].version.rating]
<1>1. IsFiniteSet(counted) /\ counted \subseteq Booking
  BY FS_Subset DEF WrittenFor, RowAssumptions, ReviewsAssumption
<1>2. \A b \in counted : rows[b].version.rating \in Nat
  <2>1. ASSUME NEW b \in counted PROVE rows[b].version.rating \in Rating
    <3>1. rows[b] \in Review /\ rows[b].version # Nothing
      BY DEF WrittenFor
    <3>2. rows[b].version \in Version
      BY <3>1, VersionsType
    <3> QED
      BY <3>2 DEF Version
  <2>2. Rating \subseteq Nat
    <3>1. Rating \subseteq 1..5
      BY DEF RowAssumptions, ReviewsAssumption
    <3> QED
      BY <3>1
  <2> HIDE DEF counted
  <2> QED
    BY <2>1, <2>2
<1> HIDE DEF counted
<1>3. gives \in [counted -> Nat]
  BY <1>2
<1>4. Cardinality(counted) \in Nat
  BY <1>1, FS_CardinalityType
<1> HIDE DEF gives
<1>5. SumFunction(gives) \in Nat
  BY <1>1, <1>3, SumIsNatural
<1>6. [count |-> Cardinality(counted), sum |-> SumFunction(gives)] \in Tally
  BY <1>4, <1>5 DEF Tally
<1> QED
  BY <1>6 DEF TallyOf, RatingOver, counted, gives

(* What a step leaves to show, next to RowsInv.                            *)
OtherTypes ==
  /\ finished \subseteq Booking
  /\ rating \in [Provider -> Tally]
  /\ report \in [Booking -> {"NONE", "OPEN", "HANDLED"}]
  /\ inbox \subseteq Booking
  /\ tx \in [Session -> Tx]

LEMMA OpensTx ==
  ASSUME OtherTypes, UNCHANGED db, NEW s \in Session, NEW t \in Tx,
         tx' = [tx EXCEPT ![s] = t]
  PROVE  OtherTypes'
BY DEF OtherTypes, db

LEMMA StoreTypes ==
  ASSUME OtherTypes, RowsInv, RowsInv', RowAssumptions, NEW s \in Session, NEW b,
         NEW r, NEW counts, NEW ruled, Store(s, b, r, counts, ruled)
  PROVE  OtherTypes'
<1> DEFINE tally == TallyOf(providerOf[b], [review EXCEPT ![b] = r])
           t == [op |-> "stored", review |-> b, row |-> r,
                 counts |-> counts, ruled |-> ruled, tally |-> tally]
<1>1. tx' = [tx EXCEPT ![s] = t] /\ UNCHANGED db
  BY DEF Store
<1>2. tx'[s] = t
  BY <1>1 DEF RowsInv
<1>3. WaitingRow(s, t, review')
  BY <1>2 DEF RowsInv, Waiting
<1>4. b \in Booking /\ r \in Review /\ counts \in BOOLEAN /\ ruled \in BOOLEAN
  BY <1>3 DEF WaitingRow
<1>5. [review EXCEPT ![b] = r] \in [Booking -> Review]
  BY <1>4 DEF RowsInv
<1>6. tally \in Tally
  BY <1>5, TallyType
<1> HIDE DEF tally
<1>7. t \in Stored
  BY <1>4, <1>6 DEF Stored
<1> HIDE DEF t
<1> QED
  BY <1>1, <1>7, OpensTx DEF Tx

LEMMA CommitTypes ==
  ASSUME OtherTypes, RowsInv, RowAssumptions, NEW s \in Session, Commit(s)
  PROVE  OtherTypes'
<1> DEFINE b == tx[s].review
<1>1. WaitingRow(s, tx[s], review) /\ tx[s].op = "stored"
  BY DEF RowsInv, Waiting, Commit
<1>2. b \in Booking /\ providerOf[b] \in Provider
  BY <1>1 DEF WaitingRow, RowAssumptions, ReviewsAssumption
<1>3. tx[s].tally \in Tally
  <2>1. tx[s] \in Tx
    BY DEF OtherTypes
  <2>2. tx[s] \in Stored
    BY <1>1, <2>1 DEF Tx, Idle, Editing, Hiding
  <2> QED
    BY <2>2 DEF Stored
<1>4. rating' \in [Provider -> Tally]
  BY <1>2, <1>3 DEF Commit, OtherTypes
<1>5. inbox' \subseteq Booking
  BY <1>2 DEF Commit, OtherTypes
<1>6. tx' \in [Session -> Tx]
  BY DEF Commit, OtherTypes, Tx
<1> QED
  BY <1>4, <1>5, <1>6 DEF Commit, OtherTypes

LEMMA ChangingTypes ==
  ASSUME OtherTypes, RowsInv, RowAssumptions, NEW s \in Session, Changing(s)
  PROVE  OtherTypes'
<1>1. PICK b \in Busy :
         \/ \E by \in Editor, change \in Change : EditRead(s, b, by, change)
         \/ Reply(s, b)
         \/ Report(s, b)
         \/ \E hide \in BOOLEAN : ResolveReport(s, b, hide)
         \/ \E hidden \in BOOLEAN : HideRead(s, b, hidden)
  BY Zenon DEF Changing
<1>2. b \in Booking
  BY DEF RowAssumptions, ReviewsAssumption
<1>3. ASSUME NEW by \in Editor, NEW change \in Change, EditRead(s, b, by, change)
      PROVE  OtherTypes'
  <2> DEFINE t == [op |-> "edit", review |-> b, by |-> by, change |-> change,
                   seen |-> review[b].version, history |-> review[b].history]
  <2>1. tx' = [tx EXCEPT ![s] = t] /\ UNCHANGED db
    BY <1>3 DEF EditRead
  <2>2. review[b].version \in Version /\ review[b].history \in Seq(Version)
    BY <1>2, <1>3, VersionsType DEF EditRead, Written, RowsInv
  <2>3. by \in MayEdit
    BY DEF RowAssumptions, ReviewsAssumption
  <2>4. t \in Editing
    BY <1>2, <2>2, <2>3 DEF Editing
  <2> HIDE DEF t
  <2> QED
    BY <2>1, <2>4, OpensTx DEF Tx
<1>4. CASE Reply(s, b)
  BY <1>4 DEF Reply, OtherTypes
<1>5. CASE Report(s, b)
  BY <1>2, <1>5 DEF Report, OtherTypes
<1>6. ASSUME NEW hide \in BOOLEAN, ResolveReport(s, b, hide) PROVE OtherTypes'
  BY <1>2, <1>6 DEF ResolveReport, OtherTypes
<1>7. ASSUME NEW hidden \in BOOLEAN, HideRead(s, b, hidden) PROVE OtherTypes'
  <2> DEFINE t == [op |-> "hide", review |-> b, hidden |-> hidden]
  <2>1. tx' = [tx EXCEPT ![s] = t] /\ UNCHANGED db
    BY <1>7 DEF HideRead
  <2>2. t \in Hiding
    BY <1>2 DEF Hiding
  <2> HIDE DEF t
  <2> QED
    BY <2>1, <2>2, OpensTx DEF Tx
<1> QED
  BY <1>1, <1>3, <1>4, <1>5, <1>6, <1>7

LEMMA TypesStep ==
  ASSUME OtherTypes, RowsInv, RowsInv', RowAssumptions, [Next]_vars
  PROVE  OtherTypes'
<1>1. CASE UNCHANGED vars
  BY <1>1 DEF vars, OtherTypes
<1>2. CASE Next
  <2>1. PICK s \in Session :
           \/ Posting(s) \/ Changing(s)
           \/ EditWrite(s) \/ HideWrite(s) \/ Commit(s) \/ Abort(s)
    BY <1>2, Zenon DEF Next
  <2>2. CASE Posting(s)
    <3>1. PICK b \in Booking : \/ Finish(b) \/ Reopen(b)
                               \/ \E v \in Version : Post(s, b, v)
      BY <2>2, Zenon DEF Posting
    <3>2. CASE Finish(b) \/ Reopen(b)
      BY <3>2 DEF Finish, Reopen, OtherTypes
    <3>3. CASE \E v \in Version : Post(s, b, v)
      BY <3>3, StoreTypes DEF Post
    <3> QED
      BY <3>1, <3>2, <3>3
  <2>3. CASE Changing(s)
    BY <2>3, ChangingTypes
  <2>4. CASE EditWrite(s) \/ HideWrite(s)
    BY <2>4, StoreTypes DEF EditWrite, HideWrite
  <2>5. CASE Commit(s)
    BY <2>5, CommitTypes
  <2>6. CASE Abort(s)
    BY <2>6, OpensTx DEF Abort, Tx
  <2> QED
    BY <2>1, <2>2, <2>3, <2>4, <2>5, <2>6
<1> QED
  BY <1>1, <1>2

LEMMA TypesInit ==
  ASSUME Init
  PROVE  OtherTypes
BY DEF Init, OtherTypes, Tally, Tx

(* The state of reviews has its types whatever overlaps: rows hold         *)
(* versions, histories are sequences of versions, and a rating is a count  *)
(* and a sum of natural numbers.                                           *)
THEOREM ReviewsTypeCorrect ==
  Spec => []ReviewsTypeOK
<1>1. RowAssumptions
  BY ReviewsAssumption, NothingAssumption DEF RowAssumptions
<1>2. Init => RowsInv /\ OtherTypes
  BY <1>1, RowsInit, TypesInit
<1>3. RowsInv /\ OtherTypes /\ [Next]_vars => (RowsInv /\ OtherTypes)'
  BY <1>1, RowsStep, TypesStep
<1>4. RowsInv /\ OtherTypes => ReviewsTypeOK
  BY DEF RowsInv, OtherTypes, ReviewsTypeOK
<1> QED
  BY <1>2, <1>3, <1>4, PTL DEF Spec
=============================================================================
