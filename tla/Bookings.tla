------------------------------ MODULE Bookings ------------------------------
(***************************************************************************)
(* The life of a booking once it exists: BookingsService, DisputesService  *)
(* and AdminService.resolveDispute over the bookings, disputes, providers, *)
(* notifications and booking_status_history tables.                        *)
(*                                                                         *)
(* Every handler runs in PrismaService.withUser, one READ COMMITTED        *)
(* transaction: it reads the row, checks what it read, and later issues an *)
(* UPDATE that names the row by id only.  A handler is therefore a read    *)
(* step, which remembers what a later step needs in tx[s], and a write     *)
(* step, which commits.  Other sessions' steps fall in between.  A write   *)
(* step happens only if the row it produces satisfies the CHECK            *)
(* constraints and the unique indexes at that moment; otherwise the        *)
(* transaction can only Abort, as it can at any time (a timeout, a lost    *)
(* connection, a crash).                                                   *)
(*                                                                         *)
(* Amounts, payment fields, reasons, and the timestamps of which only      *)
(* "set or not" matters are abstracted.  All instants in Time are in the   *)
(* future, so the SCHEDULE_IN_PAST refusals are the choice of the input.   *)
(***************************************************************************)
EXTENDS Integers, Sequences, FiniteSets, Lifecycle

CONSTANTS
  Booking,      \* ids of bookings
  Dispute,      \* ids of disputes
  bookingOf,    \* the booking a dispute, once raised, is about
  Provider,     \* providers
  providerOf,   \* the provider a booking is with
  Session,      \* database transactions that may be open at once
  Time,         \* instants a caller may ask for
  NoTime,       \* SQL NULL in a timestamp column
  Routes,       \* the handlers clients call in this instance
  Caller,       \* who calls them in this instance
  MaxMoves      \* bound: changes of status a booking goes through

AllRoutes ==
  {"confirm", "start", "cancel", "complete", "reschedule", "dispute", "resolve"}

ASSUME ConstantsAssumption ==
  /\ providerOf \in [Booking -> Provider]
  /\ bookingOf \in [Dispute -> Booking]
  /\ Time \subseteq Int
  /\ NoTime \notin Int
  /\ Routes \subseteq AllRoutes
  /\ Caller \subseteq Actor
  /\ MaxMoves \in Nat

VARIABLES
  booking,      \* the bookings table
  trail,        \* booking_status_history, per booking, oldest first
  dispute,      \* the disputes table
  jobs,         \* providers.completed_jobs_count
  inbox,        \* notifications: <<type, booking, recipient>>
  audited,      \* disputes whose ruling has an admin_actions row
  tx            \* the transaction each session has open

db   == <<booking, trail, dispute, jobs, inbox, audited>>
vars == <<booking, trail, dispute, jobs, inbox, audited, tx>>

-----------------------------------------------------------------------------
(* Types. *)

Instant == Int \cup {NoTime}

Row == [status : BookingStatus \cup {"NONE"},   \* NONE: not inserted yet
        start : Instant, end : Instant,
        released : BOOLEAN,                      \* contact_released_at is set
        cancelled : BOOLEAN,                     \* cancelled_at and _by are set
        completed : BOOLEAN]                     \* completed_at is set

NoRow == [status |-> "NONE", start |-> NoTime, end |-> NoTime,
          released |-> FALSE, cancelled |-> FALSE, completed |-> FALSE]

Entry == [from : BookingStatus \cup {"NONE"}, to : BookingStatus, by : Actor]

DisputeState == {"NONE", "OPEN", "RESOLVED"}

Ruling == {"RESOLVED_REFUND", "RESOLVED_PARTIAL_REFUND", "RESOLVED_NO_ACTION"}

NoticeType == {"BOOKING_CONFIRMED", "BOOKING_CANCELLED", "BOOKING_COMPLETED",
               "DISPUTE_UPDATE"}

Notice == NoticeType \X Booking \X {"customer", "provider"}

Idle == [op |-> "idle"]

Moving       == [op : {"confirm", "start", "cancel", "complete"},
                 booking : Booking, actor : Actor]
Rescheduling == [op : {"reschedule"}, booking : Booking,
                 start : Instant, end : Instant]
Replanned    == [op : {"replanned"}, booking : Booking,
                 start : Instant, end : Instant, asked : Instant]
Disputing    == [op : {"dispute", "disputable"},
                 booking : Booking, actor : Actor, seen : BookingStatus]
Resolving    == [op : {"resolve"}, dispute : Dispute, ruling : Ruling,
                 seen : BookingStatus]

Tx == {Idle} \cup Moving \cup Rescheduling \cup Replanned
             \cup Disputing \cup Resolving

TypeOK ==
  /\ booking \in [Booking -> Row]
  /\ trail \in [Booking -> Seq(Entry)]
  /\ dispute \in [Dispute -> DisputeState]
  /\ jobs \in [Provider -> Nat]
  /\ inbox \subseteq Notice
  /\ audited \subseteq Dispute
  /\ tx \in [Session -> Tx]

-----------------------------------------------------------------------------
(* What the database enforces on a write. *)

(* The CHECK constraints of section 3 on one row of bookings.              *)
RowChecks(r) ==
  /\ r.end # NoTime => r.end > r.start
  /\ r.released => r.status # "PENDING_CONFIRMATION"
  /\ r.status \in Cancelled => r.cancelled
  /\ r.status = "COMPLETED" => r.completed

(* bookings_provider_slot_unique, for row r written under id b.            *)
SlotFree(b, r) ==
  r.status \in LiveBooking =>
    \A c \in Booking \ {b} :
      (booking[c].status \in LiveBooking /\ providerOf[c] = providerOf[b])
        => booking[c].start # r.start

(* One INSERT or UPDATE of bookings, as far as the table is concerned.     *)
StoreRow(b, r) ==
  /\ RowChecks(r)
  /\ SlotFree(b, r)
  /\ booking' = [booking EXCEPT ![b] = r]

(* Faulty: a trigger without the "is not distinct from" test.              *)
FaultyWriteBooking(b, r, by) ==
  /\ StoreRow(b, r)
  /\ Len(trail[b]) < MaxMoves
  /\ trail' = [trail EXCEPT ![b] =
                 Append(@, [from |-> booking[b].status,
                            to |-> r.status, by |-> by])]

(* A write that names the status: the AFTER trigger logs a change of it    *)
(* against the row as it is at the write, not as the handler read it.      *)
(* Len(trail[b]) < MaxMoves bounds the instance; the code has no bound.    *)
WriteBooking(b, r, by) ==
  /\ StoreRow(b, r)
  /\ Len(trail[b]) < MaxMoves
  /\ trail' = IF r.status = booking[b].status
              THEN trail
              ELSE [trail EXCEPT ![b] =
                      Append(@, [from |-> booking[b].status,
                                 to |-> r.status, by |-> by])]

IsOpen(d) == dispute[d] = "OPEN"

OpenDisputesOf(b) == { d \in Dispute : IsOpen(d) /\ bookingOf[d] = b }

-----------------------------------------------------------------------------
(* Transactions. *)

(* Session s starts a handler and remembers t; nothing is written yet.     *)
Open(s, route, t) ==
  /\ route \in Routes
  /\ tx[s] = Idle
  /\ tx' = [tx EXCEPT ![s] = t]
  /\ UNCHANGED db

Proceed(s, t) == tx' = [tx EXCEPT ![s] = t] /\ UNCHANGED db

Done(s) == tx' = [tx EXCEPT ![s] = Idle]

Notify(type, b, to) == inbox' = inbox \cup {<<type, b, to>>}

(* Faulty: the caller is checked but not the status the booking is in.     *)
FaultyMayMove(b, to, actor) ==
  \E from \in BookingStatus : <<from, to, actor>> \in BookingTransitions

(* assertTransition, on the status that was read.                          *)
MayMove(b, to, actor) ==
  <<booking[b].status, to, actor>> \in BookingTransitions

(* The transaction of s rolls back: a constraint, a timeout, a crash.      *)
Abort(s) ==
  /\ tx[s] # Idle
  /\ Done(s)
  /\ UNCHANGED db

-----------------------------------------------------------------------------
(* Handlers. *)

(* tx.booking.create, called by QuotesService.accept and by the admin-only *)
(* BookingsService.create.                                                 *)
Create(b, start, end, by) ==
  /\ booking[b].status = "NONE"
  /\ WriteBooking(b, [NoRow EXCEPT !.status = "PENDING_CONFIRMATION",
                                   !.start = start, !.end = end], by)
  /\ UNCHANGED <<dispute, jobs, inbox, audited, tx>>

(* The read half of confirm, start, cancel and complete: loadForActor, the *)
(* side the route is guarded for, and assertTransition.                    *)
Load(s, route, b, a, to) ==
  /\ MayMove(b, to, a)
  /\ Open(s, route, [op |-> route, booking |-> b, actor |-> a])

CancelTarget(a) ==
  IF a = "provider" THEN "CANCELLED_BY_PROVIDER" ELSE "CANCELLED_BY_CUSTOMER"

ConfirmRead(s, b, a)  == a \in ProviderSide /\ Load(s, "confirm", b, a, "CONFIRMED")
StartRead(s, b, a)    == a \in ProviderSide /\ Load(s, "start", b, a, "IN_PROGRESS")
CancelRead(s, b, a)   == Load(s, "cancel", b, a, CancelTarget(a))
CompleteRead(s, b, a) == a \in ProviderSide /\ Load(s, "complete", b, a, "COMPLETED")

(* Faulty: the stamp that opens the contact view is forgotten.             *)
FaultyConfirmWrite(s) ==
  /\ tx[s].op = "confirm"
  /\ LET b == tx[s].booking IN
       /\ WriteBooking(b, [booking[b] EXCEPT !.status = "CONFIRMED"], tx[s].actor)
       /\ Notify("BOOKING_CONFIRMED", b, "customer")
  /\ Done(s)
  /\ UNCHANGED <<dispute, jobs, audited>>

(* Confirming stamps contact_released_at and tells the customer.           *)
ConfirmWrite(s) ==
  /\ tx[s].op = "confirm"
  /\ LET b == tx[s].booking IN
       /\ WriteBooking(b, [booking[b] EXCEPT !.status = "CONFIRMED",
                                             !.released = TRUE], tx[s].actor)
       /\ Notify("BOOKING_CONFIRMED", b, "customer")
  /\ Done(s)
  /\ UNCHANGED <<dispute, jobs, audited>>

StartWrite(s) ==
  /\ tx[s].op = "start"
  /\ LET b == tx[s].booking IN
       WriteBooking(b, [booking[b] EXCEPT !.status = "IN_PROGRESS"], tx[s].actor)
  /\ Done(s)
  /\ UNCHANGED <<dispute, jobs, inbox, audited>>

(* Faulty: whoever cancelled is told of it, and the other side is not.     *)
FaultyCancelWrite(s) ==
  /\ tx[s].op = "cancel"
  /\ LET b == tx[s].booking
         a == tx[s].actor
     IN  /\ WriteBooking(b, [booking[b] EXCEPT !.status = CancelTarget(a),
                                               !.cancelled = TRUE], a)
         /\ Notify("BOOKING_CANCELLED", b,
                   IF a = "provider" THEN "provider" ELSE "customer")
  /\ Done(s)
  /\ UNCHANGED <<dispute, jobs, audited>>

(* Cancelling tells the other side; an administrator counts as the customer. *)
CancelWrite(s) ==
  /\ tx[s].op = "cancel"
  /\ LET b == tx[s].booking
         a == tx[s].actor
     IN  /\ WriteBooking(b, [booking[b] EXCEPT !.status = CancelTarget(a),
                                               !.cancelled = TRUE], a)
         /\ Notify("BOOKING_CANCELLED", b,
                   IF a = "provider" THEN "customer" ELSE "provider")
  /\ Done(s)
  /\ UNCHANGED <<dispute, jobs, audited>>

(* Faulty: the increment of the counter is forgotten.                      *)
FaultyCompleteWrite(s) ==
  /\ tx[s].op = "complete"
  /\ LET b == tx[s].booking IN
       /\ WriteBooking(b, [booking[b] EXCEPT !.status = "COMPLETED",
                                             !.completed = TRUE], tx[s].actor)
       /\ Notify("BOOKING_COMPLETED", b, "customer")
  /\ Done(s)
  /\ UNCHANGED <<dispute, jobs, audited>>

(* Completing also increments the provider's counter, in SQL.              *)
CompleteWrite(s) ==
  /\ tx[s].op = "complete"
  /\ LET b == tx[s].booking IN
       /\ WriteBooking(b, [booking[b] EXCEPT !.status = "COMPLETED",
                                             !.completed = TRUE], tx[s].actor)
       /\ jobs' = [jobs EXCEPT ![providerOf[b]] = @ + 1]
       /\ Notify("BOOKING_COMPLETED", b, "customer")
  /\ Done(s)
  /\ UNCHANGED <<dispute, audited>>

(***************************************************************************)
(* BookingsService.update, in three statements: the status is read and     *)
(* checked; the current window is read and the new one computed from it;   *)
(* the columns that change are written.  start and end are the caller's,   *)
(* NoTime when absent.                                                     *)
(***************************************************************************)
RescheduleRead(s, b, start, end) ==
  /\ booking[b].status \in {"PENDING_CONFIRMATION", "CONFIRMED"}
  /\ <<start, end>> # <<NoTime, NoTime>>
  /\ Open(s, "reschedule", [op |-> "reschedule", booking |-> b,
                            start |-> start, end |-> end])

(* Faulty: an end that was not asked for stays where it is.                *)
FaultyRescheduleTimes(s) ==
  /\ tx[s].op = "reschedule"
  /\ LET t         == tx[s]
         r         == booking[t.booking]
         nextStart == IF t.start # NoTime THEN t.start ELSE r.start
         nextEnd   == IF t.end # NoTime THEN t.end ELSE r.end
     IN  /\ nextEnd # NoTime => nextEnd > nextStart
         /\ Proceed(s, [op |-> "replanned", booking |-> t.booking,
                        start |-> t.start, end |-> t.end, asked |-> t.end])

(* The end keeps its distance when only the start moves.  An end equal to  *)
(* NoTime is a column left as it is; asked is the end the caller sent.     *)
RescheduleTimes(s) ==
  /\ tx[s].op = "reschedule"
  /\ LET t         == tx[s]
         r         == booking[t.booking]
         shifts    == t.start # NoTime /\ t.end = NoTime /\ r.end # NoTime
         nextStart == IF t.start # NoTime THEN t.start ELSE r.start
         newEnd    == IF shifts THEN t.start + (r.end - r.start) ELSE t.end
     IN  /\ newEnd # NoTime => newEnd > nextStart
         /\ Proceed(s, [op |-> "replanned", booking |-> t.booking,
                        start |-> t.start, end |-> newEnd, asked |-> t.end])

RescheduleWrite(s) ==
  /\ tx[s].op = "replanned"
  /\ LET b == tx[s].booking
         r == booking[b]
     IN  StoreRow(b,
           [r EXCEPT
              !.start = IF tx[s].start # NoTime THEN tx[s].start ELSE @,
              !.end   = IF tx[s].end # NoTime THEN tx[s].end ELSE @])
  /\ Done(s)
  /\ UNCHANGED <<trail, dispute, jobs, inbox, audited>>

(***************************************************************************)
(* DisputesService.create, in three statements: the booking is read, the   *)
(* absence of an open dispute is read, the dispute is inserted and the     *)
(* booking moved.  The move does not consult the TRANSITIONS table.        *)
(***************************************************************************)
(* Faulty: any booking can be disputed.                                    *)
FaultyDisputeRead(s, b, a) ==
  /\ booking[b].status # "NONE"
  /\ Open(s, "dispute", [op |-> "dispute", booking |-> b, actor |-> a,
                         seen |-> booking[b].status])

DisputeRead(s, b, a) ==
  /\ booking[b].status \in Disputable
  /\ Open(s, "dispute", [op |-> "dispute", booking |-> b, actor |-> a,
                         seen |-> booking[b].status])

DisputeCheck(s) ==
  /\ tx[s].op = "dispute"
  /\ OpenDisputesOf(tx[s].booking) = {}
  /\ Proceed(s, [tx[s] EXCEPT !.op = "disputable"])

(* d is the id the insert allocates; the guard on OpenDisputesOf is the    *)
(* index disputes_one_open_per_booking.                                    *)
DisputeWrite(s, d) ==
  /\ tx[s].op = "disputable"
  /\ dispute[d] = "NONE"
  /\ bookingOf[d] = tx[s].booking
  /\ LET b == tx[s].booking IN
       /\ OpenDisputesOf(b) = {}
       /\ dispute' = [dispute EXCEPT ![d] = "OPEN"]
       /\ IF tx[s].seen \in NoShow
          THEN UNCHANGED <<booking, trail>>
          ELSE WriteBooking(b, [booking[b] EXCEPT !.status = "DISPUTED"],
                            tx[s].actor)
  /\ Done(s)
  /\ UNCHANGED <<jobs, inbox, audited>>

(***************************************************************************)
(* AdminService.resolveDispute: any dispute, decided before or not.  The   *)
(* booking moves only if it was read as DISPUTED.                          *)
(***************************************************************************)
ResolveRead(s, d, ruling) ==
  /\ dispute[d] # "NONE"
  /\ Open(s, "resolve", [op |-> "resolve", dispute |-> d, ruling |-> ruling,
                         seen |-> booking[bookingOf[d]].status])

(* Faulty: the ruling's own status is written to the booking.              *)
FaultyRuledStatus(r, ruling) == [r EXCEPT !.status = ruling]

(* Faulty: a ruling of "no action" takes no action on the booking either.  *)
FaultyRuledRow(r, ruling) ==
  CASE ruling = "RESOLVED_REFUND" ->
         [r EXCEPT !.status = "CANCELLED_BY_PROVIDER", !.cancelled = TRUE]
    [] ruling = "RESOLVED_PARTIAL_REFUND" ->
         [r EXCEPT !.status = "COMPLETED", !.completed = TRUE]
    [] ruling = "RESOLVED_NO_ACTION" -> r

RuledRow(r, ruling) ==
  IF ruling = "RESOLVED_REFUND"
  THEN [r EXCEPT !.status = "CANCELLED_BY_PROVIDER", !.cancelled = TRUE]
  ELSE [r EXCEPT !.status = "COMPLETED", !.completed = TRUE]

(* Faulty: the booking is moved whatever it was read as.                   *)
FaultyResolveWrite(s) ==
  /\ tx[s].op = "resolve"
  /\ LET d == tx[s].dispute
         b == bookingOf[d]
     IN  /\ dispute' = [dispute EXCEPT ![d] = "RESOLVED"]
         /\ WriteBooking(b, RuledRow(booking[b], tx[s].ruling), "admin")
         /\ Notify("DISPUTE_UPDATE", b, "customer")
         /\ audited' = audited \cup {d}
  /\ Done(s)
  /\ UNCHANGED jobs

ResolveWrite(s) ==
  /\ tx[s].op = "resolve"
  /\ LET d == tx[s].dispute
         b == bookingOf[d]
     IN  /\ dispute' = [dispute EXCEPT ![d] = "RESOLVED"]
         /\ IF tx[s].seen = "DISPUTED"
            THEN WriteBooking(b, RuledRow(booking[b], tx[s].ruling), "admin")
            ELSE UNCHANGED <<booking, trail>>
         /\ Notify("DISPUTE_UPDATE", b, "customer")
         /\ audited' = audited \cup {d}
  /\ Done(s)
  /\ UNCHANGED jobs

-----------------------------------------------------------------------------
(* Specification. *)

Init ==
  /\ booking = [b \in Booking |-> NoRow]
  /\ trail = [b \in Booking |-> <<>>]
  /\ dispute = [d \in Dispute |-> "NONE"]
  /\ jobs = [p \in Provider |-> 0]
  /\ inbox = {}
  /\ audited = {}
  /\ tx = [s \in Session |-> Idle]

AskedTime == Time \cup {NoTime}

Next ==
  \/ \E b \in Booking, start \in Time, end \in AskedTime, by \in CustomerSide \cap Caller :
       Create(b, start, end, by)
  \/ \E s \in Session :
       \/ \E b \in Booking, a \in Caller :
            \/ ConfirmRead(s, b, a)
            \/ StartRead(s, b, a)
            \/ CancelRead(s, b, a)
            \/ CompleteRead(s, b, a)
            \/ DisputeRead(s, b, a)
       \/ \E b \in Booking, start, end \in AskedTime :
            RescheduleRead(s, b, start, end)
       \/ \E d \in Dispute :
            \/ DisputeWrite(s, d)
            \/ \E ruling \in Ruling : ResolveRead(s, d, ruling)
       \/ ConfirmWrite(s)
       \/ StartWrite(s)
       \/ CancelWrite(s)
       \/ CompleteWrite(s)
       \/ RescheduleTimes(s)
       \/ RescheduleWrite(s)
       \/ DisputeCheck(s)
       \/ ResolveWrite(s)
       \/ Abort(s)

Spec == Init /\ [][Next]_vars

-----------------------------------------------------------------------------
(* What must hold however the handlers overlap. *)

(* Business rule 6, "no status change can escape the log": the trail of a  *)
(* booking starts from nothing, ends at the booking's status, and each     *)
(* entry takes up where the one before left off - even when the handler    *)
(* that wrote it had read an older status.                                 *)
TrailIsFaithful ==
  \A b \in Booking :
    LET h == trail[b]
        n == Len(h)
    IN  IF n = 0
        THEN booking[b].status = "NONE"
        ELSE /\ h[1].from = "NONE"
             /\ h[n].to = booking[b].status
             /\ \A i \in 1..n : h[i].from # h[i].to
             /\ \A i \in 1..(n - 1) : h[i].to = h[i + 1].from

(* Business rule 5: the customer's address is out exactly when somebody on *)
(* the provider's side, or an administrator, has confirmed the booking.    *)
ConfirmedBySomeone(b) ==
  \E i \in 1..Len(trail[b]) :
    trail[b][i].to = "CONFIRMED" /\ trail[b][i].by \in ProviderSide

ContactFollowsConfirmation ==
  \A b \in Booking : booking[b].released <=> ConfirmedBySomeone(b)

(* Nobody works, has worked or is in dispute on a booking whose address    *)
(* the provider was never given.                                           *)
WorkHasContact ==
  \A b \in Booking :
    booking[b].status \in {"CONFIRMED", "IN_PROGRESS", "COMPLETED", "DISPUTED"}
      => booking[b].released

(* A booking never stays DISPUTED with nothing left to decide: ruling on a *)
(* dispute is what moves it on, so an open dispute must exist, however     *)
(* rulings, repeated rulings and new disputes overlap.                     *)
DisputedHasOpenDispute ==
  \A b \in Booking :
    booking[b].status = "DISPUTED" => OpenDisputesOf(b) # {}

(* The counter shown on a provider's profile is at least the number of     *)
(* bookings that stand COMPLETED, except those that a ruling alone         *)
(* completed: resolveDispute completes a booking that was disputed while   *)
(* in progress and leaves the counter alone.  Still counted are those with *)
(* a dispute that is open, and those the provider had completed before a   *)
(* dispute, a ruling or a late write of another handler moved them.        *)
Ruled(b) == \E d \in Dispute : bookingOf[d] = b /\ dispute[d] = "RESOLVED"

CompletedByProvider(b) ==
  \E i \in 1..Len(trail[b]) :
    trail[b][i].to = "COMPLETED" /\ trail[b][i].by = "provider"

JobsAreCounted ==
  \A p \in Provider :
    Cardinality({ b \in Booking : /\ providerOf[b] = p
                                  /\ booking[b].status = "COMPLETED"
                                  /\ ~Ruled(b) \/ CompletedByProvider(b) })
      <= jobs[p]

(* Four moves are never kept from the party who did not make them: a       *)
(* confirmation, a cancellation by either side, and a completion, by the   *)
(* handler's own notice or by that of a ruling.  The code tells nobody     *)
(* that a dispute was opened, tells the provider of no ruling, and tells   *)
(* the customer nothing when an administrator cancels in their name.       *)
CounterpartyTold ==
  \A b \in Booking :
    LET told(types, to) == \E type \in types : <<type, b, to>> \in inbox
    IN  /\ booking[b].released => told({"BOOKING_CONFIRMED"}, "customer")
        /\ booking[b].status = "CANCELLED_BY_CUSTOMER"
             => told({"BOOKING_CANCELLED"}, "provider")
        /\ booking[b].status = "CANCELLED_BY_PROVIDER"
             => told({"BOOKING_CANCELLED", "DISPUTE_UPDATE"}, "customer")
        /\ booking[b].status = "COMPLETED"
             => told({"BOOKING_COMPLETED", "DISPUTE_UPDATE"}, "customer")

-----------------------------------------------------------------------------
(* What holds as long as handlers do not overlap: one session. *)

(* "The booking lifecycle, as data. Nothing moves except along these       *)
(* edges." (bookings.service.ts)                                           *)
StatusFollowsEdges ==
  [][\A b \in Booking :
       (booking[b].status # "NONE" /\ booking'[b].status # booking[b].status)
         => <<booking[b].status, booking'[b].status>> \in BookingEdges]_vars

(* "Moving a booking keeps its length." (bookings.service.ts)  The update   *)
(* of a caller who asked for a start alone leaves the booking as long as   *)
(* that update found it.  Two updates that overlap break this.             *)
Length(r) == IF r.end = NoTime THEN NoTime ELSE r.end - r.start

MovingKeepsLength ==
  [][\A s \in Session :
       LET t == tx[s] IN
         ( /\ t.op = "replanned" /\ t.asked = NoTime
           /\ tx'[s] = Idle /\ booking' # booking )
         => Length(booking'[t.booking]) = Length(booking[t.booking])]_vars

(* cancelled_at is never left behind on a booking that is not cancelled.   *)
CancellationStands ==
  \A b \in Booking :
    booking[b].cancelled => booking[b].status \in Cancelled
=============================================================================
