---------------------------- MODULE BookingsProofs ----------------------------
(***************************************************************************)
(* Proofs about Bookings, for any number of bookings, disputes, providers, *)
(* instants and overlapping sessions.                                      *)
(*                                                                         *)
(* A handler writes by id what it decided from an older read.  The proofs  *)
(* turn on the facts that stay true between the two: an address that was   *)
(* released stays released, a row that exists keeps existing, and an open  *)
(* dispute that a pending ruling is about keeps any second one out.        *)
(***************************************************************************)
EXTENDS Bookings, FiniteSetTheorems, TLAPS

-----------------------------------------------------------------------------
(* The inductive invariant. *)

(* A row that is not there has no columns; one that is has a start.        *)
RowsOK ==
  \A b \in Booking :
    /\ booking[b].status = "NONE" => booking[b] = NoRow
    /\ booking[b].status # "NONE" => booking[b].start # NoTime

(* Disputes are about bookings that exist.                                 *)
DisputesOK ==
  \A d \in Dispute : dispute[d] # "NONE" => booking[bookingOf[d]].status # "NONE"

(* What a session that has read may still rely on.                         *)
MoveOK(t) ==
  /\ booking[t.booking].status # "NONE"
  /\ t.op = "confirm" => t.actor \in ProviderSide
  /\ t.op \in {"start", "complete"} => booking[t.booking].released

PlanOK(t) == booking[t.booking].status # "NONE"

DisputingOK(t) ==
  /\ booking[t.booking].status # "NONE"
  /\ t.seen \in Disputable
  /\ t.seen \notin NoShow => booking[t.booking].released

ResolvingOK(t) ==
  LET b == bookingOf[t.dispute] IN
    /\ dispute[t.dispute] # "NONE"
    /\ t.seen = "DISPUTED" => booking[b].released
    /\ (IsOpen(t.dispute) /\ booking[b].status = "DISPUTED") => t.seen = "DISPUTED"

SessionOK(s) ==
  /\ tx[s] \in Moving => MoveOK(tx[s])
  /\ tx[s] \in Rescheduling \cup Replanned => PlanOK(tx[s])
  /\ tx[s] \in Disputing => DisputingOK(tx[s])
  /\ tx[s] \in Resolving => ResolvingOK(tx[s])

TxOK == \A s \in Session : SessionOK(s)

Base == TypeOK /\ RowsOK /\ DisputesOK /\ WorkHasContact /\ TxOK

-----------------------------------------------------------------------------
(* Reading a record of Tx. *)

(* The op of a transaction tells which handler it is in, and so its fields. *)
LEMMA OpTells ==
  ASSUME NEW t \in Tx
  PROVE  /\ t.op \in {"confirm", "start", "cancel", "complete"} <=> t \in Moving
         /\ t.op = "reschedule" <=> t \in Rescheduling
         /\ t.op = "replanned" <=> t \in Replanned
         /\ t.op \in {"dispute", "disputable"} <=> t \in Disputing
         /\ t.op = "resolve" <=> t \in Resolving
         /\ t.op = "idle" <=> t = Idle
BY DEF Tx, Idle, Moving, Rescheduling, Replanned, Disputing, Resolving

(* Storing a row leaves the other rows as they are.                        *)
LEMMA StoreRowSets ==
  ASSUME TypeOK, NEW b \in Booking, NEW r \in Row, StoreRow(b, r)
  PROVE  /\ booking' \in [Booking -> Row]
         /\ booking'[b] = r
         /\ \A c \in Booking \ {b} : booking'[c] = booking[c]
         /\ RowChecks(r)
         /\ SlotFree(b, r)
BY DEF StoreRow, TypeOK

(* A write that names the status leaves a trail of the right type.         *)
LEMMA WriteBookingSets ==
  ASSUME TypeOK, NEW b \in Booking, NEW r \in Row, NEW by \in Actor,
         r.status \in BookingStatus, WriteBooking(b, r, by)
  PROVE  /\ StoreRow(b, r)
         /\ trail' \in [Booking -> Seq(Entry)]
<1>1. booking[b].status \in BookingStatus \cup {"NONE"}
  BY DEF TypeOK, Row
<1>2. [from |-> booking[b].status, to |-> r.status, by |-> by] \in Entry
  BY <1>1 DEF Entry
<1>3. Append(trail[b], [from |-> booking[b].status, to |-> r.status, by |-> by])
        \in Seq(Entry)
  BY <1>2 DEF TypeOK
<1> QED
  BY <1>3 DEF WriteBooking, TypeOK

-----------------------------------------------------------------------------
(* What a step may do to the tables, whatever handler it belongs to.       *)

(* A write of r under id b that names the status, by an actor of kind by.  *)
Moves(b, r, by) ==
  /\ WriteBooking(b, r, by)
  /\ r.status \in BookingStatus
  /\ r.start # NoTime
  /\ r.status = "CONFIRMED" => r.released /\ by \in ProviderSide
  /\ r.status # "CONFIRMED" => r.released = booking[b].released
  /\ r.status \in {"IN_PROGRESS", "COMPLETED", "DISPUTED"} => r.released
  /\ r.status = "DISPUTED" => OpenDisputesOf(b) = {}

(* A write of the window alone.                                            *)
Replans(b, r) ==
  /\ StoreRow(b, r)
  /\ UNCHANGED trail
  /\ r.status = booking[b].status
  /\ r.status # "NONE"
  /\ r.released = booking[b].released
  /\ r.start # NoTime

BookingEffect ==
  \/ UNCHANGED <<booking, trail>>
  \/ \E b \in Booking, r \in Row, by \in Actor : Moves(b, r, by)
  \/ \E b \in Booking, r \in Row : Replans(b, r)

DisputeEffect ==
  /\ dispute' \in [Dispute -> DisputeState]
  /\ \A d \in Dispute :
       /\ dispute[d] # "NONE" => dispute'[d] # "NONE"
       /\ dispute'[d] = "OPEN" => dispute[d] \in {"OPEN", "NONE"}
       /\ (dispute[d] = "NONE" /\ dispute'[d] # "NONE")
            => booking[bookingOf[d]].status # "NONE"

Effect == BookingEffect /\ DisputeEffect

(* The vocabulary facts the proofs use again and again.                    *)
LEMMA Vocabulary ==
  /\ "NONE" \notin BookingStatus
  /\ {"PENDING_CONFIRMATION", "CONFIRMED", "IN_PROGRESS", "COMPLETED",
      "DISPUTED", "CANCELLED_BY_CUSTOMER", "CANCELLED_BY_PROVIDER"}
       \subseteq BookingStatus
  /\ ProviderSide \subseteq Actor
  /\ "admin" \in Actor
BY DEF BookingStatus, Cancelled, NoShow, ProviderSide, Actor

(* A confirming write: the row exists and is released by it.               *)
LEMMA ConfirmMoves ==
  ASSUME Base, NEW s \in Session, ConfirmWrite(s)
  PROVE  \E b \in Booking, r \in Row, by \in Actor : Moves(b, r, by)
<1> DEFINE t == tx[s]
           b == t.booking
           r == [booking[b] EXCEPT !.status = "CONFIRMED", !.released = TRUE]
<1>1. t \in Moving /\ MoveOK(t)
  BY OpTells DEF Base, TypeOK, TxOK, SessionOK, ConfirmWrite
<1>2. b \in Booking /\ t.actor \in ProviderSide /\ t.actor \in Actor
  BY <1>1 DEF Moving, MoveOK, ConfirmWrite
<1>3. booking[b] \in Row /\ booking[b].start # NoTime
  BY <1>1, <1>2 DEF Base, TypeOK, RowsOK, MoveOK
<1>4. r \in Row /\ r.status = "CONFIRMED" /\ r.released /\ r.start # NoTime
  BY <1>3, Vocabulary DEF Row
<1>5. WriteBooking(b, r, t.actor)
  BY DEF ConfirmWrite
<1>6. Moves(b, r, t.actor)
  BY <1>2, <1>4, <1>5, Vocabulary DEF Moves
<1> QED
  BY <1>2, <1>4, <1>6

LEMMA StartMoves ==
  ASSUME Base, NEW s \in Session, StartWrite(s)
  PROVE  \E b \in Booking, r \in Row, by \in Actor : Moves(b, r, by)
<1> DEFINE t == tx[s]
           b == t.booking
           r == [booking[b] EXCEPT !.status = "IN_PROGRESS"]
<1>1. t \in Moving /\ MoveOK(t)
  BY OpTells DEF Base, TypeOK, TxOK, SessionOK, StartWrite
<1>2. b \in Booking /\ t.actor \in Actor /\ booking[b].released
  BY <1>1 DEF Moving, MoveOK, StartWrite
<1>3. booking[b] \in Row /\ booking[b].start # NoTime
  BY <1>1, <1>2 DEF Base, TypeOK, RowsOK, MoveOK
<1>4. r \in Row /\ r.status = "IN_PROGRESS" /\ r.start # NoTime
      /\ r.released = booking[b].released
  BY <1>3, Vocabulary DEF Row
<1>5. WriteBooking(b, r, t.actor)
  BY DEF StartWrite
<1>6. Moves(b, r, t.actor)
  BY <1>2, <1>4, <1>5, Vocabulary DEF Moves
<1> QED
  BY <1>2, <1>4, <1>6

LEMMA CancelMoves ==
  ASSUME Base, NEW s \in Session, CancelWrite(s)
  PROVE  \E b \in Booking, r \in Row, by \in Actor : Moves(b, r, by)
<1> DEFINE t == tx[s]
           b == t.booking
           r == [booking[b] EXCEPT !.status = CancelTarget(t.actor),
                                   !.cancelled = TRUE]
<1>1. t \in Moving /\ MoveOK(t)
  BY OpTells DEF Base, TypeOK, TxOK, SessionOK, CancelWrite
<1>2. b \in Booking /\ t.actor \in Actor
  BY <1>1 DEF Moving
<1>3. booking[b] \in Row /\ booking[b].start # NoTime
  BY <1>1, <1>2 DEF Base, TypeOK, RowsOK, MoveOK
<1>4. CancelTarget(t.actor) \in {"CANCELLED_BY_CUSTOMER", "CANCELLED_BY_PROVIDER"}
  BY DEF CancelTarget
<1>5. r \in Row /\ r.status = CancelTarget(t.actor) /\ r.start # NoTime
      /\ r.released = booking[b].released
  BY <1>3, <1>4, Vocabulary DEF Row
<1>6. WriteBooking(b, r, t.actor)
  BY DEF CancelWrite
<1>7. Moves(b, r, t.actor)
  BY <1>2, <1>4, <1>5, <1>6, Vocabulary DEF Moves
<1> QED
  BY <1>2, <1>5, <1>7

LEMMA CompleteMoves ==
  ASSUME Base, NEW s \in Session, CompleteWrite(s)
  PROVE  \E b \in Booking, r \in Row, by \in Actor : Moves(b, r, by)
<1> DEFINE t == tx[s]
           b == t.booking
           r == [booking[b] EXCEPT !.status = "COMPLETED", !.completed = TRUE]
<1>1. t \in Moving /\ MoveOK(t)
  BY OpTells DEF Base, TypeOK, TxOK, SessionOK, CompleteWrite
<1>2. b \in Booking /\ t.actor \in Actor /\ booking[b].released
  BY <1>1 DEF Moving, MoveOK, CompleteWrite
<1>3. booking[b] \in Row /\ booking[b].start # NoTime
  BY <1>1, <1>2 DEF Base, TypeOK, RowsOK, MoveOK
<1>4. r \in Row /\ r.status = "COMPLETED" /\ r.start # NoTime
      /\ r.released = booking[b].released
  BY <1>3, Vocabulary DEF Row
<1>5. WriteBooking(b, r, t.actor)
  BY DEF CompleteWrite
<1>6. Moves(b, r, t.actor)
  BY <1>2, <1>4, <1>5, Vocabulary DEF Moves
<1> QED
  BY <1>2, <1>4, <1>6

(* Creating: the row was not there, so nothing was released.               *)
LEMMA CreateMoves ==
  ASSUME ConstantsAssumption, Base, NEW b \in Booking, NEW start \in Time,
         NEW end \in AskedTime, NEW by \in CustomerSide, Create(b, start, end, by)
  PROVE  \E c \in Booking, r \in Row, a \in Actor : Moves(c, r, a)
<1> DEFINE r == [NoRow EXCEPT !.status = "PENDING_CONFIRMATION",
                              !.start = start, !.end = end]
<1>1. start \in Instant /\ start # NoTime /\ end \in Instant
  BY DEF ConstantsAssumption, AskedTime, Instant
<1>2. by \in Actor
  BY DEF CustomerSide, Actor
<1>3. NoRow \in Row /\ NoRow.released = FALSE
  BY DEF NoRow, Row, Instant
<1>4. r \in Row /\ r.status = "PENDING_CONFIRMATION" /\ r.start = start
      /\ r.released = FALSE
  BY <1>1, <1>3, Vocabulary DEF Row
<1>5. booking[b] = NoRow
  BY DEF Create, Base, RowsOK
<1>6. WriteBooking(b, r, by)
  BY DEF Create
<1>7. booking[b].released = FALSE
  BY <1>3, <1>5
<1>8. Moves(b, r, by)
  BY <1>1, <1>4, <1>6, <1>7, Vocabulary DEF Moves
<1> QED
  BY <1>2, <1>4, <1>8

(* Disputing: a no-show is left where it is, anything else had its address *)
(* released, and the index kept a second open dispute out.                 *)
LEMMA DisputeMoves ==
  ASSUME Base, NEW s \in Session, NEW d \in Dispute, DisputeWrite(s, d)
  PROVE  BookingEffect
<1> DEFINE t == tx[s]
           b == t.booking
           r == [booking[b] EXCEPT !.status = "DISPUTED"]
<1>1. t \in Disputing /\ DisputingOK(t)
  BY OpTells DEF Base, TypeOK, TxOK, SessionOK, DisputeWrite
<1>2. b \in Booking /\ t.actor \in Actor
  BY <1>1 DEF Disputing
<1>3. booking[b] \in Row /\ booking[b].start # NoTime
  BY <1>1, <1>2 DEF Base, TypeOK, RowsOK, DisputingOK
<1>4. CASE t.seen \in NoShow
  BY <1>4 DEF DisputeWrite, BookingEffect
<1>5. CASE t.seen \notin NoShow
  <2>1. r \in Row /\ r.status = "DISPUTED" /\ r.start # NoTime
        /\ r.released = booking[b].released
    BY <1>3, Vocabulary DEF Row
  <2>2. booking[b].released
    BY <1>1, <1>5 DEF DisputingOK
  <2>3. WriteBooking(b, r, t.actor) /\ OpenDisputesOf(b) = {}
    BY <1>5 DEF DisputeWrite
  <2>4. Moves(b, r, t.actor)
    BY <2>1, <2>2, <2>3, Vocabulary DEF Moves
  <2> QED
    BY <1>2, <2>1, <2>4 DEF BookingEffect
<1> QED
  BY <1>4, <1>5

(* Ruling: a booking read as DISPUTED had its address released.            *)
LEMMA ResolveMoves ==
  ASSUME ConstantsAssumption, Base, NEW s \in Session, ResolveWrite(s)
  PROVE  BookingEffect
<1> DEFINE t == tx[s]
           b == bookingOf[t.dispute]
           r == RuledRow(booking[b], t.ruling)
<1>1. t \in Resolving /\ ResolvingOK(t)
  BY OpTells DEF Base, TypeOK, TxOK, SessionOK, ResolveWrite
<1>2. t.dispute \in Dispute /\ b \in Booking
  BY <1>1 DEF Resolving, ConstantsAssumption
<1>3. booking[b] \in Row /\ booking[b].start # NoTime
  BY <1>1, <1>2 DEF Base, TypeOK, RowsOK, DisputesOK, ResolvingOK
<1>4. CASE t.seen # "DISPUTED"
  BY <1>4 DEF ResolveWrite, BookingEffect
<1>5. CASE t.seen = "DISPUTED"
  <2>1. /\ r \in Row
        /\ r.status \in {"CANCELLED_BY_PROVIDER", "COMPLETED"}
        /\ r.start # NoTime
        /\ r.released = booking[b].released
    BY <1>3, Vocabulary DEF Row, RuledRow
  <2>2. booking[b].released
    BY <1>1, <1>5 DEF ResolvingOK
  <2>3. WriteBooking(b, r, "admin")
    BY <1>5 DEF ResolveWrite
  <2>4. Moves(b, r, "admin")
    BY <2>1, <2>2, <2>3, Vocabulary DEF Moves
  <2> QED
    BY <1>2, <2>1, <2>4, Vocabulary DEF BookingEffect
<1> QED
  BY <1>4, <1>5

(* Rescheduling: only the window changes, and never to nothing.            *)
LEMMA RescheduleReplans ==
  ASSUME Base, NEW s \in Session, RescheduleWrite(s)
  PROVE  \E b \in Booking, r \in Row : Replans(b, r)
<1> DEFINE t == tx[s]
           b == t.booking
           r == [booking[b] EXCEPT
                   !.start = IF t.start # NoTime THEN t.start ELSE @,
                   !.end   = IF t.end # NoTime THEN t.end ELSE @]
<1>1. t \in Replanned /\ PlanOK(t)
  BY OpTells DEF Base, TypeOK, TxOK, SessionOK, RescheduleWrite
<1>2. b \in Booking /\ t.start \in Instant /\ t.end \in Instant
  BY <1>1 DEF Replanned
<1>3. booking[b] \in Row /\ booking[b].status # "NONE" /\ booking[b].start # NoTime
  BY <1>1, <1>2 DEF Base, TypeOK, RowsOK, PlanOK
<1>4. /\ r \in Row
      /\ r.status = booking[b].status
      /\ r.released = booking[b].released
      /\ r.start # NoTime
  BY <1>2, <1>3 DEF Row
<1>5. StoreRow(b, r) /\ UNCHANGED trail
  BY DEF RescheduleWrite
<1>6. Replans(b, r)
  BY <1>3, <1>4, <1>5 DEF Replans
<1> QED
  BY <1>2, <1>4, <1>6

-----------------------------------------------------------------------------
(* Which steps write.                                                      *)

Writes ==
  \/ \E b \in Booking, start \in Time, end \in AskedTime,
        by \in CustomerSide \cap Caller : Create(b, start, end, by)
  \/ \E s \in Session :
       \/ ConfirmWrite(s) \/ StartWrite(s) \/ CancelWrite(s)
       \/ CompleteWrite(s) \/ RescheduleWrite(s) \/ ResolveWrite(s)
       \/ \E d \in Dispute : DisputeWrite(s, d)

LEMMA StepKinds ==
  ASSUME [Next]_vars
  PROVE  UNCHANGED db \/ Writes
<1>1. ASSUME NEW s \in Session, NEW b \in Booking, NEW a \in Caller,
             \/ ConfirmRead(s, b, a) \/ StartRead(s, b, a)
             \/ CancelRead(s, b, a) \/ CompleteRead(s, b, a)
             \/ DisputeRead(s, b, a)
      PROVE  UNCHANGED db
  BY <1>1 DEF ConfirmRead, StartRead, CancelRead, CompleteRead,
              DisputeRead, Load, Open
<1>2. ASSUME NEW s \in Session, NEW b \in Booking,
             NEW start \in AskedTime, NEW end \in AskedTime,
             RescheduleRead(s, b, start, end)
      PROVE  UNCHANGED db
  BY <1>2 DEF RescheduleRead, Open
<1>3. ASSUME NEW s \in Session, NEW d \in Dispute, NEW ruling \in Ruling,
             ResolveRead(s, d, ruling)
      PROVE  UNCHANGED db
  BY <1>3 DEF ResolveRead, Open
<1>4. ASSUME NEW s \in Session,
             RescheduleTimes(s) \/ DisputeCheck(s) \/ Abort(s)
      PROVE  UNCHANGED db
  BY <1>4 DEF RescheduleTimes, DisputeCheck, Abort, Proceed
<1>5. CASE UNCHANGED vars
  BY <1>5 DEF vars, db
<1> QED
  BY <1>1, <1>2, <1>3, <1>4, <1>5 DEF Next, Writes

-----------------------------------------------------------------------------
(* Every step has such an effect, one case per action.                     *)

(* Disputes are inserted open, for a booking that exists, and closed by    *)
(* rulings; nothing reopens one.                                           *)
LEMMA DisputeWriteDisputes ==
  ASSUME ConstantsAssumption, Base, NEW s \in Session, NEW d \in Dispute,
         DisputeWrite(s, d)
  PROVE  DisputeEffect
<1>1. tx[s] \in Disputing /\ DisputingOK(tx[s])
  BY OpTells DEF Base, TypeOK, TxOK, SessionOK, DisputeWrite
<1>2. booking[bookingOf[d]].status # "NONE"
  BY <1>1 DEF DisputingOK, DisputeWrite
<1>3. dispute[d] = "NONE" /\ dispute' = [dispute EXCEPT ![d] = "OPEN"]
  BY DEF DisputeWrite
<1> QED
  BY <1>2, <1>3 DEF DisputeEffect, DisputeState, Base, TypeOK

LEMMA ResolveWriteDisputes ==
  ASSUME Base, NEW s \in Session, ResolveWrite(s)
  PROVE  DisputeEffect
<1>1. tx[s] \in Resolving /\ ResolvingOK(tx[s])
  BY OpTells DEF Base, TypeOK, TxOK, SessionOK, ResolveWrite
<1>2. tx[s].dispute \in Dispute /\ dispute[tx[s].dispute] # "NONE"
  BY <1>1 DEF Resolving, ResolvingOK
<1>3. dispute' = [dispute EXCEPT ![tx[s].dispute] = "RESOLVED"]
  BY DEF ResolveWrite
<1> QED
  BY <1>2, <1>3 DEF DisputeEffect, DisputeState, Base, TypeOK

LEMMA EffectStep ==
  ASSUME ConstantsAssumption, Base, [Next]_vars
  PROVE  Effect
<1> USE DEF Effect
<1>0. UNCHANGED dispute => DisputeEffect
  BY DEF DisputeEffect, Base, TypeOK
<1>1. UNCHANGED db => Effect
  BY <1>0 DEF db, BookingEffect
<1>2. ASSUME NEW b \in Booking, NEW start \in Time, NEW end \in AskedTime,
             NEW by \in CustomerSide, Create(b, start, end, by)
      PROVE  Effect
  BY <1>0, <1>2, CreateMoves DEF Create, BookingEffect
<1>3. ASSUME NEW s \in Session, ConfirmWrite(s)
      PROVE  Effect
  BY <1>0, <1>3, ConfirmMoves DEF ConfirmWrite, BookingEffect
<1>4. ASSUME NEW s \in Session, StartWrite(s)
      PROVE  Effect
  BY <1>0, <1>4, StartMoves DEF StartWrite, BookingEffect
<1>5. ASSUME NEW s \in Session, CancelWrite(s)
      PROVE  Effect
  BY <1>0, <1>5, CancelMoves DEF CancelWrite, BookingEffect
<1>6. ASSUME NEW s \in Session, CompleteWrite(s)
      PROVE  Effect
  BY <1>0, <1>6, CompleteMoves DEF CompleteWrite, BookingEffect
<1>7. ASSUME NEW s \in Session, RescheduleWrite(s)
      PROVE  Effect
  BY <1>0, <1>7, RescheduleReplans DEF RescheduleWrite, BookingEffect
<1>8. ASSUME NEW s \in Session, NEW d \in Dispute, DisputeWrite(s, d)
      PROVE  Effect
  BY <1>8, DisputeMoves, DisputeWriteDisputes
<1>9. ASSUME NEW s \in Session, ResolveWrite(s)
      PROVE  Effect
  BY <1>9, ResolveMoves, ResolveWriteDisputes
<1> QED
  BY <1>1, <1>2, <1>3, <1>4, <1>5, <1>6, <1>7, <1>8, <1>9, StepKinds DEF Writes

-----------------------------------------------------------------------------
(* What an effect preserves.                                               *)

LEMMA EffectTypes ==
  ASSUME Base, BookingEffect
  PROVE  booking' \in [Booking -> Row] /\ trail' \in [Booking -> Seq(Entry)]
<1>1. CASE UNCHANGED <<booking, trail>>
  BY <1>1 DEF Base, TypeOK
<1>2. ASSUME NEW b \in Booking, NEW r \in Row, NEW by \in Actor, Moves(b, r, by)
      PROVE  booking' \in [Booking -> Row] /\ trail' \in [Booking -> Seq(Entry)]
  BY <1>2, WriteBookingSets, StoreRowSets DEF Base, Moves
<1>3. ASSUME NEW b \in Booking, NEW r \in Row, Replans(b, r)
      PROVE  booking' \in [Booking -> Row] /\ trail' \in [Booking -> Seq(Entry)]
  BY <1>3, StoreRowSets DEF Base, Replans, TypeOK
<1> QED
  BY <1>1, <1>2, <1>3 DEF BookingEffect

(* Row by row: rows do not vanish, addresses are not taken back, and a     *)
(* booking becomes DISPUTED only where no dispute about it was open.       *)
RowKept(c) ==
  /\ booking[c].status # "NONE" => booking'[c].status # "NONE"
  /\ booking[c].released => booking'[c].released
  /\ booking'[c].status = "NONE" => booking'[c] = booking[c]
  /\ booking'[c].status # "NONE" => booking'[c].start # NoTime
  /\ booking'[c].status \in {"CONFIRMED", "IN_PROGRESS", "COMPLETED", "DISPUTED"}
       => booking'[c].released
  /\ booking'[c].status = "DISPUTED"
       => booking[c].status = "DISPUTED" \/ OpenDisputesOf(c) = {}

LEMMA EffectOnRow ==
  ASSUME Base, BookingEffect, NEW c \in Booking
  PROVE  RowKept(c)
<1> USE DEF RowKept
<1>0. booking[c] \in Row
  BY DEF Base, TypeOK
<1>1. ASSUME booking'[c] = booking[c]
      PROVE  RowKept(c)
  BY <1>1 DEF Base, RowsOK, WorkHasContact
<1>2. ASSUME NEW b \in Booking, NEW r \in Row, NEW by \in Actor, Moves(b, r, by)
      PROVE  RowKept(c)
  <2>1. booking'[b] = r /\ (c # b => booking'[c] = booking[c])
    BY <1>2, WriteBookingSets, StoreRowSets DEF Base, Moves
  <2>2. CASE c # b
    BY <1>1, <2>1, <2>2
  <2>3. CASE c = b
    BY <1>0, <1>2, <2>1, <2>3, Vocabulary DEF Moves, Row
  <2> QED
    BY <2>2, <2>3
<1>3. ASSUME NEW b \in Booking, NEW r \in Row, Replans(b, r)
      PROVE  RowKept(c)
  <2>1. booking'[b] = r /\ (c # b => booking'[c] = booking[c])
    BY <1>3, StoreRowSets DEF Base, Replans
  <2>2. CASE c # b
    BY <1>1, <2>1, <2>2
  <2>3. CASE c = b
    BY <1>3, <2>1, <2>3 DEF Replans, Base, WorkHasContact
  <2> QED
    BY <2>2, <2>3
<1> QED
  BY <1>1, <1>2, <1>3 DEF BookingEffect

LEMMA EffectRows ==
  ASSUME ConstantsAssumption, Base, Effect
  PROVE  RowsOK' /\ DisputesOK' /\ WorkHasContact'
<1>1. RowsOK'
  BY EffectOnRow DEF RowKept, RowsOK, Effect, Base
<1>2. WorkHasContact'
  BY EffectOnRow DEF RowKept, WorkHasContact, Effect
<1>3. DisputesOK'
  <2> SUFFICES ASSUME NEW d \in Dispute, dispute'[d] # "NONE"
               PROVE  booking'[bookingOf[d]].status # "NONE"
    BY DEF DisputesOK
  <2>1. bookingOf[d] \in Booking
    BY DEF ConstantsAssumption
  <2>2. booking[bookingOf[d]].status # "NONE"
    BY DEF Effect, DisputeEffect, Base, DisputesOK
  <2> QED
    BY <2>1, <2>2, EffectOnRow DEF RowKept, Effect
<1> QED
  BY <1>1, <1>2, <1>3

(* A session that does not move keeps what it relies on.                   *)
LEMMA EffectOnSession ==
  ASSUME ConstantsAssumption, Base, Effect, NEW s \in Session, tx'[s] = tx[s]
  PROVE  tx'[s] \in Tx /\ SessionOK(s)'
<1>1. tx[s] \in Tx /\ SessionOK(s)
  BY DEF Base, TypeOK, TxOK
<1>2. ASSUME tx[s] \in Moving PROVE MoveOK(tx[s])'
  BY <1>1, <1>2, EffectOnRow DEF Moving, SessionOK, MoveOK, RowKept, Effect
<1>3. ASSUME tx[s] \in Rescheduling \cup Replanned PROVE PlanOK(tx[s])'
  BY <1>1, <1>3, EffectOnRow
     DEF Rescheduling, Replanned, SessionOK, PlanOK, RowKept, Effect
<1>4. ASSUME tx[s] \in Disputing PROVE DisputingOK(tx[s])'
  BY <1>1, <1>4, EffectOnRow DEF Disputing, SessionOK, DisputingOK, RowKept, Effect
<1>5. ASSUME tx[s] \in Resolving PROVE ResolvingOK(tx[s])'
  <2> DEFINE d == tx[s].dispute
             b == bookingOf[d]
  <2>1. d \in Dispute /\ b \in Booking /\ ResolvingOK(tx[s])
    BY <1>1, <1>5 DEF Resolving, SessionOK, ConstantsAssumption
  <2>2. RowKept(b)
    BY <2>1, EffectOnRow DEF Effect
  <2>3. dispute'[d] # "NONE" /\ (dispute'[d] = "OPEN" => dispute[d] = "OPEN")
    BY <2>1 DEF Effect, DisputeEffect, ResolvingOK
  <2>4. tx[s].seen = "DISPUTED" => booking'[b].released
    BY <2>1, <2>2 DEF ResolvingOK, RowKept
  <2>5. ASSUME dispute'[d] = "OPEN", booking'[b].status = "DISPUTED"
        PROVE  tx[s].seen = "DISPUTED"
    <3>1. d \in OpenDisputesOf(b)
      BY <2>1, <2>3, <2>5 DEF OpenDisputesOf, IsOpen
    <3>2. booking[b].status = "DISPUTED"
      BY <2>2, <2>5, <3>1 DEF RowKept
    <3> QED
      BY <2>1, <2>3, <2>5, <3>2 DEF ResolvingOK, IsOpen
  <2> QED
    BY <2>3, <2>4, <2>5 DEF ResolvingOK, IsOpen
<1> QED
  BY <1>1, <1>2, <1>3, <1>4, <1>5 DEF SessionOK

-----------------------------------------------------------------------------
(* The sessions: one lemma per kind of step.                               *)

LEMMA TxStep ==
  ASSUME ConstantsAssumption, Base, Effect, NEW s \in Session, NEW t \in Tx,
         tx' = [tx EXCEPT ![s] = t], SessionOK(s)'
  PROVE  tx' \in [Session -> Tx] /\ TxOK'
<1>1. tx' \in [Session -> Tx]
  BY DEF Base, TypeOK
<1>2. ASSUME NEW u \in Session PROVE SessionOK(u)'
  <2>1. CASE u = s
    BY <2>1
  <2>2. CASE u # s
    BY <2>2, EffectOnSession DEF Base, TypeOK
  <2> QED
    BY <2>1, <2>2
<1> QED
  BY <1>1, <1>2 DEF TxOK

(* Committing or rolling back leaves nothing to rely on.                   *)
LEMMA DoneStep ==
  ASSUME ConstantsAssumption, Base, Effect, NEW s \in Session, Done(s)
  PROVE  tx' \in [Session -> Tx] /\ TxOK'
<1>1. Idle \in Tx /\ tx' = [tx EXCEPT ![s] = Idle] /\ tx'[s] = Idle
  BY DEF Tx, Done, Base, TypeOK
<1>2. /\ Idle \notin Moving /\ Idle \notin Disputing /\ Idle \notin Resolving
      /\ Idle \notin Rescheduling /\ Idle \notin Replanned
  BY DEF Idle, Moving, Disputing, Resolving, Rescheduling, Replanned
<1>3. SessionOK(s)'
  BY <1>1, <1>2 DEF SessionOK
<1> QED
  BY <1>1, <1>3, TxStep

(* What the TRANSITIONS table says of the status a move starts from.       *)
LEMMA TableFrom ==
  ASSUME NEW from, NEW to, NEW a, <<from, to, a>> \in BookingTransitions
  PROVE  /\ from # "NONE"
         /\ to = "IN_PROGRESS" => from = "CONFIRMED"
         /\ to = "COMPLETED" => from \in {"IN_PROGRESS", "DISPUTED"}
BY DEF BookingTransitions, Cancelled

(* A handler that moves the status has read a status that allows it.       *)
LEMMA MoveReadStep ==
  ASSUME ConstantsAssumption, Base, Effect, NEW s \in Session, NEW b \in Booking,
         NEW a \in Caller,
         \/ ConfirmRead(s, b, a) \/ StartRead(s, b, a)
         \/ CancelRead(s, b, a) \/ CompleteRead(s, b, a)
  PROVE  tx' \in [Session -> Tx] /\ TxOK'
<1>1. a \in Actor
  BY DEF ConstantsAssumption
<1> SUFFICES
      ASSUME NEW op \in {"confirm", "start", "cancel", "complete"}, NEW to,
             Load(s, op, b, a, to),
             op = "confirm" => a \in ProviderSide,
             op = "start" => to = "IN_PROGRESS",
             op = "complete" => to = "COMPLETED"
      PROVE  tx' \in [Session -> Tx] /\ TxOK'
  BY DEF ConfirmRead, StartRead, CancelRead, CompleteRead
<1> DEFINE t == [op |-> op, booking |-> b, actor |-> a]
<1>2. t \in Moving /\ t \in Tx
  BY <1>1 DEF Moving, Tx
<1>3. tx' = [tx EXCEPT ![s] = t] /\ tx'[s] = t /\ booking' = booking
  BY DEF Load, Open, db, Base, TypeOK
<1>4. /\ booking[b].status # "NONE"
      /\ op \in {"start", "complete"} => booking[b].released
  BY TableFrom DEF Load, MayMove, Base, WorkHasContact
<1>5. MoveOK(tx[s])'
  BY <1>3, <1>4 DEF MoveOK
<1>6. SessionOK(s)'
  BY <1>2, <1>3, <1>5, OpTells DEF SessionOK
<1> QED
  BY <1>2, <1>3, <1>6, TxStep

LEMMA DisputeReadStep ==
  ASSUME ConstantsAssumption, Base, Effect, NEW s \in Session, NEW b \in Booking,
         NEW a \in Caller, DisputeRead(s, b, a)
  PROVE  tx' \in [Session -> Tx] /\ TxOK'
<1> DEFINE t == [op |-> "dispute", booking |-> b, actor |-> a,
                 seen |-> booking[b].status]
<1>1. a \in Actor /\ booking[b].status \in Disputable
  BY DEF ConstantsAssumption, DisputeRead
<1>2. Disputable \subseteq BookingStatus
  BY DEF Disputable, BookingStatus, NoShow
<1>3. t \in Disputing /\ t \in Tx
  BY <1>1, <1>2 DEF Disputing, Tx
<1>4. tx' = [tx EXCEPT ![s] = t] /\ tx'[s] = t /\ booking' = booking
  BY DEF DisputeRead, Open, db, Base, TypeOK
<1>5. DisputingOK(tx[s])'
  BY <1>1, <1>2, <1>4, Vocabulary
     DEF DisputingOK, Disputable, NoShow, Base, WorkHasContact
<1>6. SessionOK(s)'
  BY <1>3, <1>4, <1>5, OpTells DEF SessionOK
<1> QED
  BY <1>3, <1>4, <1>6, TxStep

LEMMA DisputeCheckStep ==
  ASSUME ConstantsAssumption, Base, Effect, NEW s \in Session, DisputeCheck(s)
  PROVE  tx' \in [Session -> Tx] /\ TxOK'
<1> DEFINE t == [tx[s] EXCEPT !.op = "disputable"]
<1>1. tx[s] \in Disputing /\ DisputingOK(tx[s])
  BY OpTells DEF Base, TypeOK, TxOK, SessionOK, DisputeCheck
<1>2. t \in Disputing /\ t \in Tx
  BY <1>1 DEF Disputing, Tx
<1>3. tx' = [tx EXCEPT ![s] = t] /\ tx'[s] = t /\ booking' = booking
  BY DEF DisputeCheck, Proceed, db, Base, TypeOK
<1>4. t.booking = tx[s].booking /\ t.seen = tx[s].seen
  BY <1>1 DEF Disputing
<1>5. DisputingOK(tx[s])'
  BY <1>1, <1>3, <1>4 DEF DisputingOK
<1>6. SessionOK(s)'
  BY <1>2, <1>3, <1>5, OpTells DEF SessionOK
<1> QED
  BY <1>2, <1>3, <1>6, TxStep

LEMMA ResolveReadStep ==
  ASSUME ConstantsAssumption, Base, Effect, NEW s \in Session, NEW d \in Dispute,
         NEW ruling \in Ruling, ResolveRead(s, d, ruling)
  PROVE  tx' \in [Session -> Tx] /\ TxOK'
<1> DEFINE b == bookingOf[d]
           t == [op |-> "resolve", dispute |-> d, ruling |-> ruling,
                 seen |-> booking[b].status]
<1>1. b \in Booking /\ dispute[d] # "NONE" /\ booking[b].status # "NONE"
  BY DEF ConstantsAssumption, ResolveRead, Base, DisputesOK
<1>2. booking[b].status \in BookingStatus
  BY <1>1 DEF Base, TypeOK, Row
<1>3. t \in Resolving /\ t \in Tx
  BY <1>2 DEF Resolving, Tx
<1>4. /\ tx' = [tx EXCEPT ![s] = t] /\ tx'[s] = t
      /\ booking' = booking /\ dispute' = dispute
  BY DEF ResolveRead, Open, db, Base, TypeOK
<1>5. ResolvingOK(tx[s])'
  BY <1>1, <1>4 DEF ResolvingOK, IsOpen, Base, WorkHasContact
<1>6. SessionOK(s)'
  BY <1>3, <1>4, <1>5, OpTells DEF SessionOK
<1> QED
  BY <1>3, <1>4, <1>6, TxStep

LEMMA RescheduleReadStep ==
  ASSUME ConstantsAssumption, Base, Effect, NEW s \in Session, NEW b \in Booking,
         NEW start \in AskedTime, NEW end \in AskedTime,
         RescheduleRead(s, b, start, end)
  PROVE  tx' \in [Session -> Tx] /\ TxOK'
<1> DEFINE t == [op |-> "reschedule", booking |-> b, start |-> start, end |-> end]
<1>1. start \in Instant /\ end \in Instant
  BY DEF ConstantsAssumption, AskedTime, Instant
<1>2. t \in Rescheduling /\ t \in Tx
  BY <1>1 DEF Rescheduling, Tx
<1>3. tx' = [tx EXCEPT ![s] = t] /\ tx'[s] = t /\ booking' = booking
  BY DEF RescheduleRead, Open, db, Base, TypeOK
<1>4. PlanOK(tx[s])'
  BY <1>3 DEF PlanOK, RescheduleRead
<1>5. SessionOK(s)'
  BY <1>2, <1>3, <1>4, OpTells DEF SessionOK
<1> QED
  BY <1>2, <1>3, <1>5, TxStep

(* The shifted end is an instant because the row that is read has a start. *)
LEMMA RescheduleTimesStep ==
  ASSUME ConstantsAssumption, Base, Effect, NEW s \in Session, RescheduleTimes(s)
  PROVE  tx' \in [Session -> Tx] /\ TxOK'
<1>1. tx[s] \in Rescheduling /\ PlanOK(tx[s])
  BY OpTells DEF Base, TypeOK, TxOK, SessionOK, RescheduleTimes
<1> DEFINE r == booking[tx[s].booking]
<1>2. /\ tx[s].booking \in Booking /\ r \in Row
      /\ tx[s].start \in Instant /\ tx[s].end \in Instant
      /\ r.start \in Int /\ r.end \in Instant
  BY <1>1 DEF Rescheduling, PlanOK, Base, TypeOK, RowsOK, Row, Instant
<1> DEFINE shifts == tx[s].start # NoTime /\ tx[s].end = NoTime /\ r.end # NoTime
           newEnd == IF shifts THEN tx[s].start + (r.end - r.start) ELSE tx[s].end
           t == [op |-> "replanned", booking |-> tx[s].booking,
                 start |-> tx[s].start, end |-> newEnd, asked |-> tx[s].end]
<1>3. newEnd \in Instant
  BY <1>2 DEF Instant
<1>4. t \in Replanned /\ t \in Tx /\ t.op = "replanned"
  BY <1>2, <1>3 DEF Replanned, Tx
<1>5. tx' = [tx EXCEPT ![s] = t] /\ tx'[s] = t /\ booking' = booking
  BY DEF RescheduleTimes, Proceed, db, Base, TypeOK
<1>6. PlanOK(tx[s])'
  BY <1>1, <1>5 DEF PlanOK
<1>7. SessionOK(s)'
  BY <1>4, <1>5, <1>6, OpTells DEF SessionOK
<1> QED
  BY <1>4, <1>5, <1>7, TxStep

(* Every step leaves every session with what it relies on.                 *)
LEMMA SessionsStep ==
  ASSUME ConstantsAssumption, Base, Effect, [Next]_vars
  PROVE  tx' \in [Session -> Tx] /\ TxOK'
<1> DEFINE Kept == tx' \in [Session -> Tx] /\ TxOK'
<1>1. CASE UNCHANGED tx
  BY <1>1, EffectOnSession DEF TxOK, Base, TypeOK
<1>2. ASSUME NEW s \in Session, NEW b \in Booking, NEW a \in Caller,
             \/ ConfirmRead(s, b, a) \/ StartRead(s, b, a)
             \/ CancelRead(s, b, a) \/ CompleteRead(s, b, a)
      PROVE  Kept
  BY <1>2, MoveReadStep
<1>3. ASSUME NEW s \in Session, NEW b \in Booking, NEW a \in Caller,
             DisputeRead(s, b, a)
      PROVE  Kept
  BY <1>3, DisputeReadStep
<1>4. ASSUME NEW s \in Session, NEW b \in Booking,
             NEW start \in AskedTime, NEW end \in AskedTime,
             RescheduleRead(s, b, start, end)
      PROVE  Kept
  BY <1>4, RescheduleReadStep
<1>5. ASSUME NEW s \in Session, NEW d \in Dispute, NEW ruling \in Ruling,
             ResolveRead(s, d, ruling)
      PROVE  Kept
  BY <1>5, ResolveReadStep
<1>6. ASSUME NEW s \in Session, RescheduleTimes(s) PROVE Kept
  BY <1>6, RescheduleTimesStep
<1>7. ASSUME NEW s \in Session, DisputeCheck(s) PROVE Kept
  BY <1>7, DisputeCheckStep
<1>8. ASSUME NEW s \in Session, Done(s) PROVE Kept
  BY <1>8, DoneStep
<1>9. ASSUME NEW s \in Session, NEW d \in Dispute, DisputeWrite(s, d) PROVE Kept
  BY <1>8, <1>9 DEF DisputeWrite
<1>10. ASSUME NEW s \in Session,
              \/ ConfirmWrite(s) \/ StartWrite(s) \/ CancelWrite(s)
              \/ CompleteWrite(s) \/ RescheduleWrite(s) \/ ResolveWrite(s)
              \/ Abort(s)
       PROVE  Kept
  BY <1>8, <1>10 DEF ConfirmWrite, StartWrite, CancelWrite, CompleteWrite,
                     RescheduleWrite, ResolveWrite, Abort
<1>11. ASSUME NEW b \in Booking, NEW start \in Time, NEW end \in AskedTime,
              NEW by \in CustomerSide, Create(b, start, end, by)
       PROVE  Kept
  BY <1>1, <1>11 DEF Create
<1>12. CASE UNCHANGED vars
  BY <1>1, <1>12 DEF vars
<1> QED
  BY <1>2, <1>3, <1>4, <1>5, <1>6, <1>7, <1>9, <1>10, <1>11, <1>12 DEF Next

(* The tables a step writes besides bookings and disputes.                 *)
LEMMA SideTablesStep ==
  ASSUME ConstantsAssumption, Base, [Next]_vars
  PROVE  jobs' \in [Provider -> Nat] /\ inbox' \subseteq Notice
         /\ audited' \subseteq Dispute
<1> DEFINE Side == /\ jobs' \in [Provider -> Nat]
                   /\ inbox' \subseteq Notice
                   /\ audited' \subseteq Dispute
<1>0. jobs \in [Provider -> Nat] /\ inbox \subseteq Notice /\ audited \subseteq Dispute
  BY DEF Base, TypeOK
<1>1. CASE UNCHANGED <<jobs, inbox, audited>>
  BY <1>0, <1>1
<1>2. ASSUME NEW s \in Session, ConfirmWrite(s) \/ CancelWrite(s) PROVE Side
  <2>1. tx[s] \in Moving
    BY <1>2, OpTells DEF Base, TypeOK, ConfirmWrite, CancelWrite
  <2>2. tx[s].booking \in Booking
    BY <2>1 DEF Moving
  <2> QED
    BY <1>0, <1>2, <2>2 DEF ConfirmWrite, CancelWrite, Notify, Notice, NoticeType
<1>3. ASSUME NEW s \in Session, CompleteWrite(s) PROVE Side
  <2>1. tx[s] \in Moving
    BY <1>3, OpTells DEF Base, TypeOK, CompleteWrite
  <2>2. tx[s].booking \in Booking /\ providerOf[tx[s].booking] \in Provider
    BY <2>1 DEF Moving, ConstantsAssumption
  <2>3. jobs' \in [Provider -> Nat]
    BY <1>0, <1>3, <2>2 DEF CompleteWrite
  <2> QED
    BY <1>0, <1>3, <2>2, <2>3 DEF CompleteWrite, Notify, Notice, NoticeType
<1>4. ASSUME NEW s \in Session, ResolveWrite(s) PROVE Side
  <2>1. tx[s] \in Resolving
    BY <1>4, OpTells DEF Base, TypeOK, ResolveWrite
  <2>2. tx[s].dispute \in Dispute /\ bookingOf[tx[s].dispute] \in Booking
    BY <2>1 DEF Resolving, ConstantsAssumption
  <2> QED
    BY <1>0, <1>4, <2>2 DEF ResolveWrite, Notify, Notice, NoticeType
<1>5. ASSUME NEW s \in Session, StartWrite(s) \/ RescheduleWrite(s) PROVE Side
  BY <1>1, <1>5 DEF StartWrite, RescheduleWrite
<1>6. ASSUME NEW s \in Session, NEW d \in Dispute, DisputeWrite(s, d) PROVE Side
  BY <1>1, <1>6 DEF DisputeWrite
<1>7. CASE UNCHANGED db
  BY <1>1, <1>7 DEF db
<1>8. ASSUME NEW b \in Booking, NEW start \in Time, NEW end \in AskedTime,
             NEW by \in CustomerSide, Create(b, start, end, by)
      PROVE  Side
  BY <1>1, <1>8 DEF Create
<1> QED
  BY <1>2, <1>3, <1>4, <1>5, <1>6, <1>7, <1>8, StepKinds DEF Writes

LEMMA BaseStep ==
  ASSUME ConstantsAssumption, Base, [Next]_vars
  PROVE  Base'
<1>1. Effect
  BY EffectStep
<1>2. TypeOK'
  BY <1>1, EffectTypes, SessionsStep, SideTablesStep
     DEF Effect, DisputeEffect, TypeOK
<1> QED
  BY <1>1, <1>2, EffectRows, SessionsStep DEF Base

LEMMA BaseInit == ASSUME ConstantsAssumption, Init PROVE Base
<1>1. NoRow \in Row
  BY DEF NoRow, Row, Instant
<1>2. Idle \in Tx /\ Idle \notin Moving \cup Rescheduling \cup Replanned
                               \cup Disputing \cup Resolving
  BY DEF Tx, Idle, Moving, Rescheduling, Replanned, Disputing, Resolving
<1>3. NoRow.status = "NONE"
  BY DEF NoRow
<1>4. TypeOK
  BY <1>1, <1>2 DEF Init, TypeOK, DisputeState
<1>5. RowsOK /\ DisputesOK /\ WorkHasContact
  BY <1>3 DEF Init, RowsOK, DisputesOK, WorkHasContact
<1>6. TxOK
  BY <1>2 DEF Init, TxOK, SessionOK
<1> QED
  BY <1>4, <1>5, <1>6 DEF Base

(* Every variable of Bookings keeps to its type, for whichever handlers    *)
(* are called and however they overlap.                                    *)
THEOREM TypeCorrect == Spec => []TypeOK
<1>1. Init => Base
  BY BaseInit, ConstantsAssumption
<1>2. Base /\ [Next]_vars => Base'
  BY BaseStep, ConstantsAssumption
<1>3. Base => TypeOK
  BY DEF Base
<1> QED
  BY <1>1, <1>2, <1>3, PTL DEF Spec

(* Nobody works, has worked or disputes on a booking whose address was     *)
(* never released: a stale write of start, complete or dispute finds the   *)
(* address still out, because nothing takes it back.                       *)
THEOREM WorkOnlyWithContact == Spec => []WorkHasContact
<1>1. Init => Base
  BY BaseInit, ConstantsAssumption
<1>2. Base /\ [Next]_vars => Base'
  BY BaseStep, ConstantsAssumption
<1>3. Base => WorkHasContact
  BY DEF Base
<1> QED
  BY <1>1, <1>2, <1>3, PTL DEF Spec

-----------------------------------------------------------------------------
(* Disputes. *)

(* A write of bookings that leaves disputes alone and does not make the    *)
(* booking DISPUTED leaves the others as decided as they were.             *)
LEMMA OtherWrite ==
  ASSUME Base, DisputedHasOpenDispute, NEW b \in Booking, NEW r,
         StoreRow(b, r), UNCHANGED dispute,
         r.status = "DISPUTED" => booking[b].status = "DISPUTED"
  PROVE  DisputedHasOpenDispute'
<1>1. \A c \in Booking :
        booking'[c].status = "DISPUTED" => booking[c].status = "DISPUTED"
  BY DEF StoreRow, Base, TypeOK
<1> QED
  BY <1>1 DEF DisputedHasOpenDispute, OpenDisputesOf, IsOpen

LEMMA DisputedStep ==
  ASSUME ConstantsAssumption, Base, DisputedHasOpenDispute, [Next]_vars
  PROVE  DisputedHasOpenDispute'
<1>1. CASE UNCHANGED <<booking, dispute>>
  BY <1>1 DEF DisputedHasOpenDispute, OpenDisputesOf, IsOpen
<1>2. ASSUME NEW b \in Booking, NEW start, NEW end, NEW by, Create(b, start, end, by)
      PROVE  DisputedHasOpenDispute'
  BY <1>2, OtherWrite DEF Create, WriteBooking, NoRow
<1>3. ASSUME NEW s \in Session,
             \/ ConfirmWrite(s) \/ StartWrite(s) \/ CancelWrite(s)
             \/ CompleteWrite(s)
      PROVE  DisputedHasOpenDispute'
  <2> DEFINE b == tx[s].booking
  <2>1. tx[s] \in Moving
    BY <1>3, OpTells
       DEF Base, TypeOK, ConfirmWrite, StartWrite, CancelWrite, CompleteWrite
  <2>2. b \in Booking
    BY <2>1 DEF Moving
  <2>3. booking[b] \in Row
    BY <2>2 DEF Base, TypeOK
  <2>4. CASE ConfirmWrite(s)
    BY <2>2, <2>3, <2>4, OtherWrite DEF ConfirmWrite, WriteBooking, Row
  <2>5. CASE StartWrite(s)
    BY <2>2, <2>3, <2>5, OtherWrite DEF StartWrite, WriteBooking, Row
  <2>6. CASE CancelWrite(s)
    BY <2>2, <2>3, <2>6, OtherWrite DEF CancelWrite, CancelTarget, WriteBooking, Row
  <2>7. CASE CompleteWrite(s)
    BY <2>2, <2>3, <2>7, OtherWrite DEF CompleteWrite, WriteBooking, Row
  <2> QED
    BY <1>3, <2>4, <2>5, <2>6, <2>7
<1>4. ASSUME NEW s \in Session, RescheduleWrite(s)
      PROVE  DisputedHasOpenDispute'
  <2>1. tx[s] \in Replanned
    BY <1>4, OpTells DEF Base, TypeOK, RescheduleWrite
  <2>2. tx[s].booking \in Booking
    BY <2>1 DEF Replanned
  <2>3. booking[tx[s].booking] \in Row
    BY <2>2 DEF Base, TypeOK
  <2> QED
    BY <1>4, <2>2, <2>3, OtherWrite DEF RescheduleWrite, Row
<1>5. ASSUME NEW s \in Session, NEW d \in Dispute, DisputeWrite(s, d)
      PROVE  DisputedHasOpenDispute'
  <2> SUFFICES ASSUME NEW c \in Booking, booking'[c].status = "DISPUTED"
               PROVE  \E e \in Dispute : dispute'[e] = "OPEN" /\ bookingOf[e] = c
    BY DEF DisputedHasOpenDispute, OpenDisputesOf, IsOpen
  <2>1. dispute' = [dispute EXCEPT ![d] = "OPEN"] /\ dispute'[d] = "OPEN"
    BY <1>5 DEF DisputeWrite, Base, TypeOK
  <2>2. CASE c = bookingOf[d]
    BY <2>1, <2>2
  <2>3. CASE c # bookingOf[d]
    <3>1. booking'[c] = booking[c]
      BY <1>5, <2>3 DEF DisputeWrite, WriteBooking, StoreRow, Base, TypeOK
    <3>2. PICK e \in Dispute : dispute[e] = "OPEN" /\ bookingOf[e] = c
      BY <3>1 DEF DisputedHasOpenDispute, OpenDisputesOf, IsOpen
    <3> QED
      BY <2>1, <3>2 DEF Base, TypeOK
  <2> QED
    BY <2>2, <2>3
<1>6. ASSUME NEW s \in Session, ResolveWrite(s)
      PROVE  DisputedHasOpenDispute'
  <2> DEFINE d == tx[s].dispute
             b == bookingOf[d]
  <2>1. tx[s] \in Resolving /\ ResolvingOK(tx[s])
    BY <1>6, OpTells DEF Base, TypeOK, TxOK, SessionOK, ResolveWrite
  <2>2. d \in Dispute /\ b \in Booking
    BY <2>1 DEF Resolving, ConstantsAssumption
  <2>3. dispute' = [dispute EXCEPT ![d] = "RESOLVED"]
    BY <1>6 DEF ResolveWrite
  <2> SUFFICES ASSUME NEW c \in Booking, booking'[c].status = "DISPUTED"
               PROVE  \E e \in Dispute : dispute'[e] = "OPEN" /\ bookingOf[e] = c
    BY DEF DisputedHasOpenDispute, OpenDisputesOf, IsOpen
  <2>4. booking[c].status = "DISPUTED" /\ (c = b => tx[s].seen # "DISPUTED")
    <3>1. CASE tx[s].seen = "DISPUTED"
      <4>1. booking[b] \in Row
        BY <2>2 DEF Base, TypeOK
      <4>2. booking' = [booking EXCEPT ![b] = RuledRow(booking[b], tx[s].ruling)]
        BY <1>6, <3>1 DEF ResolveWrite, WriteBooking, StoreRow
      <4>3. RuledRow(booking[b], tx[s].ruling).status # "DISPUTED"
        BY <4>1 DEF RuledRow, Row
      <4> QED
        BY <2>2, <4>2, <4>3 DEF Base, TypeOK
    <3>2. CASE tx[s].seen # "DISPUTED"
      BY <1>6, <3>2 DEF ResolveWrite
    <3> QED
      BY <3>1, <3>2
  <2>5. PICK e \in Dispute : dispute[e] = "OPEN" /\ bookingOf[e] = c
    BY <2>4 DEF DisputedHasOpenDispute, OpenDisputesOf, IsOpen
  <2>6. e # d
    BY <2>1, <2>4, <2>5 DEF ResolvingOK, IsOpen
  <2> QED
    BY <2>3, <2>5, <2>6 DEF Base, TypeOK
<1>7. UNCHANGED db => UNCHANGED <<booking, dispute>>
  BY DEF db
<1> QED
  BY <1>1, <1>2, <1>3, <1>4, <1>5, <1>6, <1>7, StepKinds DEF Writes

(* A DISPUTED booking always has an open dispute, so a ruling can still    *)
(* move it on - also when rulings are repeated, or were prepared before    *)
(* the dispute that is open now.                                           *)
THEOREM DisputedIsDecidable == Spec => []DisputedHasOpenDispute
<1>1. Init => Base /\ DisputedHasOpenDispute
  BY BaseInit, ConstantsAssumption DEF Init, DisputedHasOpenDispute, NoRow
<1>2. (Base /\ DisputedHasOpenDispute) /\ [Next]_vars
        => (Base /\ DisputedHasOpenDispute)'
  BY BaseStep, DisputedStep, ConstantsAssumption
<1> QED
  BY <1>1, <1>2, PTL DEF Spec

-----------------------------------------------------------------------------
(* The trail and the release of contact details. *)

(* The part of TrailIsFaithful that is about one booking.                  *)
Faithful(h, status) ==
  IF Len(h) = 0
  THEN status = "NONE"
  ELSE /\ h[1].from = "NONE"
       /\ h[Len(h)].to = status
       /\ \A i \in 1..Len(h) : h[i].from # h[i].to
       /\ \A i \in 1..(Len(h) - 1) : h[i].to = h[i + 1].from

(* Logging a change from the current status keeps a trail faithful.        *)
LEMMA FaithfulAppend ==
  ASSUME NEW h \in Seq(Entry), NEW status, NEW to, NEW by,
         Faithful(h, status), to # status,
         [from |-> status, to |-> to, by |-> by] \in Entry
  PROVE  Faithful(Append(h, [from |-> status, to |-> to, by |-> by]), to)
<1> DEFINE e == [from |-> status, to |-> to, by |-> by]
           g == Append(h, e)
<1>1. /\ Len(g) = Len(h) + 1 /\ Len(h) \in Nat
      /\ \A i \in 1..Len(h) : g[i] = h[i]
      /\ g[Len(h) + 1] = e
  OBVIOUS
<1>2. e.from = status /\ e.to = to
  OBVIOUS
<1> HIDE DEF e, g
<1>3. ASSUME Len(h) = 0 PROVE Faithful(g, to)
  BY <1>1, <1>2, <1>3 DEF Faithful
<1>4. ASSUME Len(h) # 0 PROVE Faithful(g, to)
  <2>1. g[1].from = "NONE"
    BY <1>1, <1>4 DEF Faithful
  <2>2. \A i \in 1..Len(g) : g[i].from # g[i].to
    BY <1>1, <1>2, <1>4 DEF Faithful
  <2>3. \A i \in 1..(Len(g) - 1) : g[i].to = g[i + 1].from
    BY <1>1, <1>2, <1>4 DEF Faithful
  <2> QED
    BY <1>1, <1>2, <2>1, <2>2, <2>3 DEF Faithful
<1>5. Faithful(g, to)
  BY <1>3, <1>4
<1> QED
  BY <1>5 DEF g, e

LEMMA TrailStep ==
  ASSUME Base, TrailIsFaithful, BookingEffect
  PROVE  TrailIsFaithful'
<1>1. \A c \in Booking : Faithful(trail[c], booking[c].status)
  BY DEF TrailIsFaithful, Faithful
<1>2. ASSUME NEW c \in Booking PROVE Faithful(trail'[c], booking'[c].status)
  <2>1. ASSUME trail'[c] = trail[c], booking'[c].status = booking[c].status
        PROVE  Faithful(trail'[c], booking'[c].status)
    BY <1>1, <2>1
  <2>2. ASSUME NEW b \in Booking, NEW r \in Row, NEW by \in Actor, Moves(b, r, by)
        PROVE  Faithful(trail'[c], booking'[c].status)
    <3>1. booking'[b] = r /\ (c # b => booking'[c] = booking[c])
      BY <2>2, WriteBookingSets, StoreRowSets DEF Base, Moves
    <3>2. CASE c # b \/ r.status = booking[b].status
      BY <2>1, <2>2, <3>1, <3>2 DEF Moves, WriteBooking, Base, TypeOK
    <3>3. CASE c = b /\ r.status # booking[b].status
      <4> DEFINE e == [from |-> booking[b].status, to |-> r.status, by |-> by]
      <4>1. e \in Entry
        BY <2>2 DEF Moves, Entry, Base, TypeOK, Row
      <4>2. trail'[c] = Append(trail[c], e)
        BY <2>2, <3>3 DEF Moves, WriteBooking, Base, TypeOK
      <4>3. trail[c] \in Seq(Entry)
        BY DEF Base, TypeOK
      <4> QED
        BY <1>1, <3>1, <3>3, <4>1, <4>2, <4>3, FaithfulAppend
    <3> QED
      BY <3>2, <3>3
  <2>3. ASSUME NEW b \in Booking, NEW r \in Row, Replans(b, r)
        PROVE  Faithful(trail'[c], booking'[c].status)
    <3>1. booking'[b] = r /\ (c # b => booking'[c] = booking[c])
      BY <2>3, StoreRowSets DEF Base, Replans
    <3> QED
      BY <2>1, <2>3, <3>1 DEF Replans
  <2>4. CASE UNCHANGED <<booking, trail>>
    BY <2>1, <2>4
  <2> QED
    BY <2>2, <2>3, <2>4 DEF BookingEffect
<1> QED
  BY <1>2 DEF TrailIsFaithful, Faithful

(* Business rule 6: the trail of every booking is a chain of real changes  *)
(* from nothing to the status the booking has, whatever older status the   *)
(* handlers that wrote it had read.                                        *)
THEOREM TrailStaysFaithful == Spec => []TrailIsFaithful
<1>1. Init => Base /\ TrailIsFaithful
  BY BaseInit, ConstantsAssumption DEF Init, TrailIsFaithful, NoRow
<1>2. (Base /\ TrailIsFaithful) /\ [Next]_vars => (Base /\ TrailIsFaithful)'
  BY BaseStep, EffectStep, TrailStep, ConstantsAssumption DEF Effect
<1> QED
  BY <1>1, <1>2, PTL DEF Spec

LEMMA ContactStep ==
  ASSUME Base, ContactFollowsConfirmation, BookingEffect
  PROVE  ContactFollowsConfirmation'
<1> SUFFICES ASSUME NEW c \in Booking
             PROVE  booking'[c].released <=> ConfirmedBySomeone(c)'
  BY DEF ContactFollowsConfirmation
<1>1. booking[c].released <=> ConfirmedBySomeone(c)
  BY DEF ContactFollowsConfirmation
<1>2. ASSUME trail'[c] = trail[c], booking'[c].released = booking[c].released
      PROVE  booking'[c].released <=> ConfirmedBySomeone(c)'
  BY <1>1, <1>2 DEF ConfirmedBySomeone
<1>3. ASSUME NEW b \in Booking, NEW r \in Row, NEW by \in Actor, Moves(b, r, by)
      PROVE  booking'[c].released <=> ConfirmedBySomeone(c)'
  <2>1. booking'[b] = r /\ (c # b => booking'[c] = booking[c])
    BY <1>3, WriteBookingSets, StoreRowSets DEF Base, Moves
  <2>2. booking[b] \in Row
    BY DEF Base, TypeOK
  <2>3. CASE c # b
    BY <1>2, <1>3, <2>1, <2>3 DEF Moves, WriteBooking, Base, TypeOK
  <2>4. CASE c = b /\ r.status = booking[b].status
    <3>1. trail'[c] = trail[c]
      BY <1>3, <2>4 DEF Moves, WriteBooking
    <3>2. r.status = "CONFIRMED" => booking[b].released /\ r.released
      BY <1>3, <2>4 DEF Moves, Base, WorkHasContact
    <3>3. r.released = booking[b].released
      BY <1>3, <2>2, <3>2 DEF Moves, Row
    <3> QED
      BY <1>2, <2>1, <2>4, <3>1, <3>3
  <2>5. CASE c = b /\ r.status # booking[b].status
    <3> DEFINE h == trail[c]
               e == [from |-> booking[b].status, to |-> r.status, by |-> by]
               g == Append(h, e)
    <3>1. trail'[c] = g
      BY <1>3, <2>5 DEF Moves, WriteBooking, Base, TypeOK
    <3>2. h \in Seq(Entry)
      BY DEF Base, TypeOK
    <3>3. /\ Len(g) = Len(h) + 1 /\ Len(h) \in Nat
          /\ \A i \in 1..Len(h) : g[i] = h[i]
          /\ g[Len(h) + 1].to = r.status /\ g[Len(h) + 1].by = by
      BY <3>2
    <3> HIDE DEF g
    <3>4. CASE r.status = "CONFIRMED"
      <4>1. r.released /\ by \in ProviderSide
        BY <1>3, <3>4 DEF Moves
      <4>2. ConfirmedBySomeone(c)'
        BY <3>1, <3>3, <3>4, <4>1 DEF ConfirmedBySomeone
      <4> QED
        BY <2>1, <2>5, <4>1, <4>2
    <3>5. CASE r.status # "CONFIRMED"
      <4>1. ConfirmedBySomeone(c)' <=> ConfirmedBySomeone(c)
        BY <3>1, <3>3, <3>5 DEF ConfirmedBySomeone
      <4>2. r.released = booking[b].released
        BY <1>3, <3>5 DEF Moves
      <4> QED
        BY <1>1, <2>1, <2>5, <4>1, <4>2
    <3> QED
      BY <3>4, <3>5
  <2> QED
    BY <2>3, <2>4, <2>5
<1>4. ASSUME NEW b \in Booking, NEW r \in Row, Replans(b, r)
      PROVE  booking'[c].released <=> ConfirmedBySomeone(c)'
  <2>1. booking'[b] = r /\ (c # b => booking'[c] = booking[c])
    BY <1>4, StoreRowSets DEF Base, Replans
  <2> QED
    BY <1>2, <1>4, <2>1 DEF Replans
<1>5. CASE UNCHANGED <<booking, trail>>
  BY <1>2, <1>5
<1> QED
  BY <1>3, <1>4, <1>5 DEF BookingEffect

(* Business rule 5: an address is out exactly when the provider's side or  *)
(* an administrator has confirmed the booking at some time.                *)
THEOREM ContactIsReleasedByConfirming == Spec => []ContactFollowsConfirmation
<1>1. Init => Base /\ ContactFollowsConfirmation
  BY BaseInit, ConstantsAssumption
     DEF Init, ContactFollowsConfirmation, ConfirmedBySomeone, NoRow
<1>2. (Base /\ ContactFollowsConfirmation) /\ [Next]_vars
        => (Base /\ ContactFollowsConfirmation)'
  BY BaseStep, EffectStep, ContactStep, ConstantsAssumption DEF Effect
<1> QED
  BY <1>1, <1>2, PTL DEF Spec

-----------------------------------------------------------------------------
(* Who has been told. *)

(* The part of CounterpartyTold that is about one booking.                 *)
Told(types, b, to) == \E type \in types : <<type, b, to>> \in inbox

ToldOf(b) ==
  /\ booking[b].released => Told({"BOOKING_CONFIRMED"}, b, "customer")
  /\ booking[b].status = "CANCELLED_BY_CUSTOMER" => Told({"BOOKING_CANCELLED"}, b, "provider")
  /\ booking[b].status = "CANCELLED_BY_PROVIDER"
       => Told({"BOOKING_CANCELLED", "DISPUTE_UPDATE"}, b, "customer")
  /\ booking[b].status = "COMPLETED"
       => Told({"BOOKING_COMPLETED", "DISPUTE_UPDATE"}, b, "customer")

(* Notices are not taken back, so only the row that is written matters,    *)
(* and of it only a status or a release that is new.                       *)
LEMMA ToldStep ==
  ASSUME Base, CounterpartyTold, inbox \subseteq inbox',
         NEW b \in Booking, NEW r \in Row, StoreRow(b, r),
         r.released => booking[b].released \/ <<"BOOKING_CONFIRMED", b, "customer">> \in inbox',
         r.status = "CANCELLED_BY_CUSTOMER"
           => r.status = booking[b].status \/ <<"BOOKING_CANCELLED", b, "provider">> \in inbox',
         r.status = "CANCELLED_BY_PROVIDER"
           => \/ r.status = booking[b].status
              \/ <<"BOOKING_CANCELLED", b, "customer">> \in inbox'
              \/ <<"DISPUTE_UPDATE", b, "customer">> \in inbox',
         r.status = "COMPLETED"
           => \/ r.status = booking[b].status
              \/ <<"BOOKING_COMPLETED", b, "customer">> \in inbox'
              \/ <<"DISPUTE_UPDATE", b, "customer">> \in inbox'
  PROVE  CounterpartyTold'
<1>1. booking'[b] = r /\ \A c \in Booking \ {b} : booking'[c] = booking[c]
  BY StoreRowSets DEF Base
<1>2. \A c \in Booking : ToldOf(c)
  BY DEF CounterpartyTold, ToldOf, Told
<1>3. ASSUME NEW c \in Booking PROVE ToldOf(c)'
  <2>1. CASE c # b
    BY <1>1, <1>2, <2>1 DEF ToldOf, Told
  <2>2. CASE c = b
    BY <1>1, <1>2, <2>2 DEF ToldOf, Told
  <2> QED
    BY <2>1, <2>2
<1> QED
  BY <1>3 DEF CounterpartyTold, ToldOf, Told

LEMMA CounterpartyStep ==
  ASSUME ConstantsAssumption, Base, CounterpartyTold, [Next]_vars
  PROVE  CounterpartyTold'
<1>1. CASE UNCHANGED <<booking, inbox>>
  BY <1>1 DEF CounterpartyTold
<1>2. ASSUME NEW b \in Booking, NEW start \in Time, NEW end \in AskedTime,
             NEW by \in CustomerSide, Create(b, start, end, by)
      PROVE  CounterpartyTold'
  <2> DEFINE r == [NoRow EXCEPT !.status = "PENDING_CONFIRMATION",
                                !.start = start, !.end = end]
  <2>1. start \in Instant /\ end \in Instant
    BY DEF ConstantsAssumption, AskedTime, Instant
  <2>2. r \in Row /\ r.status = "PENDING_CONFIRMATION"
    BY <2>1, Vocabulary DEF NoRow, Row
  <2>3. ~r.released
    BY DEF NoRow
  <2>4. StoreRow(b, r) /\ UNCHANGED inbox
    BY <1>2 DEF Create, WriteBooking
  <2> HIDE DEF r
  <2> QED
    BY <2>2, <2>3, <2>4, ToldStep
<1>3. ASSUME NEW s \in Session,
             \/ ConfirmWrite(s) \/ StartWrite(s) \/ CancelWrite(s) \/ CompleteWrite(s)
      PROVE  CounterpartyTold'
  <2> DEFINE b == tx[s].booking
  <2>1. tx[s] \in Moving
    BY <1>3, OpTells
       DEF Base, TypeOK, ConfirmWrite, StartWrite, CancelWrite, CompleteWrite
  <2>2. b \in Booking /\ tx[s].actor \in Actor
    BY <2>1 DEF Moving
  <2>3. booking[b] \in Row
    BY <2>2 DEF Base, TypeOK
  <2>4. CASE ConfirmWrite(s)
    <3> DEFINE r == [booking[b] EXCEPT !.status = "CONFIRMED", !.released = TRUE]
    <3>1. r \in Row /\ r.status = "CONFIRMED"
      BY <2>3, Vocabulary DEF Row
    <3>2. StoreRow(b, r) /\ inbox' = inbox \cup {<<"BOOKING_CONFIRMED", b, "customer">>}
      BY <2>4 DEF ConfirmWrite, WriteBooking, Notify
    <3> HIDE DEF r
    <3> QED
      BY <2>2, <3>1, <3>2, ToldStep
  <2>5. CASE StartWrite(s)
    <3> DEFINE r == [booking[b] EXCEPT !.status = "IN_PROGRESS"]
    <3>1. r \in Row /\ r.status = "IN_PROGRESS"
      BY <2>3, Vocabulary DEF Row
    <3>2. r.released = booking[b].released
      BY <2>3 DEF Row
    <3>3. StoreRow(b, r) /\ UNCHANGED inbox
      BY <2>5 DEF StartWrite, WriteBooking
    <3> HIDE DEF r
    <3> QED
      BY <2>2, <3>1, <3>2, <3>3, ToldStep
  <2>6. CASE CancelWrite(s)
    <3> DEFINE r == [booking[b] EXCEPT !.status = CancelTarget(tx[s].actor), !.cancelled = TRUE]
               to == IF tx[s].actor = "provider" THEN "customer" ELSE "provider"
    <3>1. r \in Row /\ r.status = CancelTarget(tx[s].actor)
      BY <2>3, Vocabulary DEF Row, CancelTarget
    <3>2. r.released = booking[b].released
      BY <2>3 DEF Row
    <3>3. StoreRow(b, r) /\ inbox' = inbox \cup {<<"BOOKING_CANCELLED", b, to>>}
      BY <2>6 DEF CancelWrite, WriteBooking, Notify
    <3>4. IF tx[s].actor = "provider"
          THEN r.status = "CANCELLED_BY_PROVIDER" /\ to = "customer"
          ELSE r.status = "CANCELLED_BY_CUSTOMER" /\ to = "provider"
      BY <3>1 DEF CancelTarget
    <3> HIDE DEF r, to
    <3> QED
      BY <2>2, <3>1, <3>2, <3>3, <3>4, ToldStep
  <2>7. CASE CompleteWrite(s)
    <3> DEFINE r == [booking[b] EXCEPT !.status = "COMPLETED", !.completed = TRUE]
    <3>1. r \in Row /\ r.status = "COMPLETED"
      BY <2>3, Vocabulary DEF Row
    <3>2. r.released = booking[b].released
      BY <2>3 DEF Row
    <3>3. StoreRow(b, r) /\ inbox' = inbox \cup {<<"BOOKING_COMPLETED", b, "customer">>}
      BY <2>7 DEF CompleteWrite, WriteBooking, Notify
    <3> HIDE DEF r
    <3> QED
      BY <2>2, <3>1, <3>2, <3>3, ToldStep
  <2> QED
    BY <1>3, <2>4, <2>5, <2>6, <2>7
<1>4. ASSUME NEW s \in Session, RescheduleWrite(s) PROVE CounterpartyTold'
  <2>1. PICK b \in Booking, r \in Row : Replans(b, r)
    BY <1>4, RescheduleReplans
  <2> QED
    BY <1>4, <2>1, ToldStep DEF Replans, RescheduleWrite
<1>5. ASSUME NEW s \in Session, NEW d \in Dispute, DisputeWrite(s, d) PROVE CounterpartyTold'
  <2> DEFINE b == tx[s].booking
             r == [booking[b] EXCEPT !.status = "DISPUTED"]
  <2>1. CASE tx[s].seen \in NoShow
    BY <1>1, <1>5, <2>1 DEF DisputeWrite
  <2>2. CASE tx[s].seen \notin NoShow
    <3>1. b \in Booking
      BY <1>5, OpTells DEF Base, TypeOK, DisputeWrite, Disputing
    <3>2. booking[b] \in Row
      BY <3>1 DEF Base, TypeOK
    <3>3. r \in Row /\ r.status = "DISPUTED"
      BY <3>2, Vocabulary DEF Row
    <3>4. r.released = booking[b].released
      BY <3>2 DEF Row
    <3>5. StoreRow(b, r) /\ UNCHANGED inbox
      BY <1>5, <2>2 DEF DisputeWrite, WriteBooking
    <3> HIDE DEF r
    <3> QED
      BY <3>1, <3>3, <3>4, <3>5, ToldStep
  <2> QED
    BY <2>1, <2>2
<1>6. ASSUME NEW s \in Session, ResolveWrite(s) PROVE CounterpartyTold'
  <2> DEFINE b == bookingOf[tx[s].dispute]
             r == RuledRow(booking[b], tx[s].ruling)
  <2>1. b \in Booking
    BY <1>6, OpTells DEF Base, TypeOK, ResolveWrite, Resolving, ConstantsAssumption
  <2>2. inbox' = inbox \cup {<<"DISPUTE_UPDATE", b, "customer">>}
    BY <1>6 DEF ResolveWrite, Notify
  <2>3. CASE tx[s].seen # "DISPUTED"
    <3>1. UNCHANGED booking
      BY <1>6, <2>3 DEF ResolveWrite
    <3>2. \A c \in Booking : ToldOf(c)
      BY DEF CounterpartyTold, ToldOf, Told
    <3>3. \A c \in Booking : ToldOf(c)'
      BY <2>2, <3>1, <3>2 DEF ToldOf, Told
    <3> QED
      BY <3>3 DEF CounterpartyTold, ToldOf, Told
  <2>4. CASE tx[s].seen = "DISPUTED"
    <3>1. booking[b] \in Row
      BY <2>1 DEF Base, TypeOK
    <3>2. r \in Row /\ r.status \in {"CANCELLED_BY_PROVIDER", "COMPLETED"}
      BY <3>1, Vocabulary DEF Row, RuledRow
    <3>3. r.released = booking[b].released
      BY <3>1 DEF Row, RuledRow
    <3>4. StoreRow(b, r)
      BY <1>6, <2>4 DEF ResolveWrite, WriteBooking
    <3> HIDE DEF r
    <3> QED
      BY <2>1, <2>2, <3>2, <3>3, <3>4, ToldStep
  <2> QED
    BY <2>3, <2>4
<1>7. UNCHANGED db => UNCHANGED <<booking, inbox>>
  BY DEF db
<1> QED
  BY <1>1, <1>2, <1>3, <1>4, <1>5, <1>6, <1>7, StepKinds DEF Writes

(* However handlers overlap, the party who did not act has been told how   *)
(* the booking stands.                                                     *)
THEOREM CounterpartyIsTold == Spec => []CounterpartyTold
<1>1. Init => Base /\ CounterpartyTold
  BY BaseInit, ConstantsAssumption DEF Init, CounterpartyTold, NoRow
<1>2. (Base /\ CounterpartyTold) /\ [Next]_vars => (Base /\ CounterpartyTold)'
  BY BaseStep, CounterpartyStep, ConstantsAssumption
<1> QED
  BY <1>1, <1>2, PTL DEF Spec

-----------------------------------------------------------------------------
(* The counter on a provider's profile.                                    *)

(* The bookings of p that the counter must cover: what the provider ever   *)
(* completed, and what stands COMPLETED without a ruling.                  *)
ToCount(b) ==
  CompletedByProvider(b) \/ (booking[b].status = "COMPLETED" /\ ~Ruled(b))

FinishedAt(p) == { b \in Booking : providerOf[b] = p /\ ToCount(b) }

(* The set is finite because each step adds at most one booking to it: the *)
(* table itself may be of any size.                                        *)
JobsOK ==
  \A p \in Provider :
    IsFiniteSet(FinishedAt(p)) /\ Cardinality(FinishedAt(p)) <= jobs[p]

(* Part of a finite set counts no more than the whole.                     *)
LEMMA Fewer ==
  ASSUME NEW S, IsFiniteSet(S), NEW T, T \subseteq S
  PROVE  /\ IsFiniteSet(T) /\ Cardinality(T) <= Cardinality(S)
         /\ Cardinality(T) \in Nat /\ Cardinality(S) \in Nat
<1>1. T \in SUBSET S
  OBVIOUS
<1>2. IsFiniteSet(T) /\ Cardinality(T) <= Cardinality(S)
  BY <1>1, FS_Subset
<1> QED
  BY <1>2, FS_CardinalityType

(* One element adds at most one.                                           *)
LEMMA OneMore ==
  ASSUME NEW S, IsFiniteSet(S), NEW x
  PROVE  /\ IsFiniteSet(S \cup {x}) /\ Cardinality(S \cup {x}) <= Cardinality(S) + 1
         /\ Cardinality(S \cup {x}) \in Nat /\ Cardinality(S) \in Nat
<1>1. Cardinality(S) \in Nat
  BY FS_CardinalityType
<1>2. /\ IsFiniteSet(S \cup {x})
      /\ Cardinality(S \cup {x}) = IF x \in S THEN Cardinality(S) ELSE Cardinality(S) + 1
  BY FS_AddElement
<1> QED
  BY <1>1, <1>2

(* A ruling is not taken back.                                             *)
LEMMA RuledStays ==
  ASSUME Base, DisputeEffect
  PROVE  \A c \in Booking : Ruled(c) => Ruled(c)'
<1>1. ASSUME NEW d \in Dispute, dispute[d] = "RESOLVED" PROVE dispute'[d] = "RESOLVED"
  BY <1>1 DEF DisputeEffect, DisputeState
<1> QED
  BY <1>1 DEF Ruled

(* Nobody but a provider who completes adds an entry that says so.         *)
LEMMA ProviderEntries ==
  ASSUME TypeOK, NEW b \in Booking, NEW r \in Row, NEW by \in Actor,
         WriteBooking(b, r, by), r.status = "COMPLETED" => by # "provider",
         NEW c \in Booking
  PROVE  CompletedByProvider(c)' => CompletedByProvider(c)
<1>1. trail[b] \in Seq(Entry) /\ trail \in [Booking -> Seq(Entry)]
  BY DEF TypeOK
<1>2. CASE trail' = trail \/ c # b
  BY <1>1, <1>2 DEF WriteBooking, CompletedByProvider
<1>3. CASE trail' # trail /\ c = b
  <2> DEFINE e == [from |-> booking[b].status, to |-> r.status, by |-> by]
             n == Len(trail[b])
  <2>1. trail'[b] = Append(trail[b], e)
    BY <1>1, <1>3 DEF WriteBooking
  <2>2. Len(trail'[b]) = n + 1 /\ n \in Nat
        /\ trail'[b][n + 1] = e /\ \A i \in 1..n : trail'[b][i] = trail[b][i]
    BY <1>1, <2>1
  <2>3. ~(e.to = "COMPLETED" /\ e.by = "provider")
    OBVIOUS
  <2> HIDE DEF e
  <2>4. ASSUME NEW i \in 1..Len(trail'[b]), trail'[b][i].to = "COMPLETED",
               trail'[b][i].by = "provider"
        PROVE  i \in 1..n /\ trail[b][i] = trail'[b][i]
    BY <2>2, <2>3, <2>4
  <2> QED
    BY <1>3, <2>2, <2>4 DEF CompletedByProvider
<1> QED
  BY <1>2, <1>3

(* A write that finishes only what was finished before, or by a ruling.    *)
LEMMA NotNewlyFinished ==
  ASSUME Base, DisputeEffect, NEW b \in Booking, NEW r \in Row, NEW by \in Actor,
         WriteBooking(b, r, by),
         r.status = "COMPLETED" => by # "provider" /\ Ruled(b)',
         NEW p \in Provider
  PROVE  FinishedAt(p)' \subseteq FinishedAt(p)
<1>1. booking'[b] = r /\ \A c \in Booking \ {b} : booking'[c] = booking[c]
  BY StoreRowSets DEF Base, WriteBooking
<1>2. \A c \in Booking : Ruled(c) => Ruled(c)'
  BY RuledStays
<1>3. \A c \in Booking : CompletedByProvider(c)' => CompletedByProvider(c)
  BY ProviderEntries DEF Base
<1>4. \A c \in Booking : ToCount(c)' => ToCount(c)
  BY <1>1, <1>2, <1>3 DEF ToCount
<1> QED
  BY <1>4 DEF FinishedAt

(* A step finishes nothing new, or it is a completion, and counted.        *)
Finishes(b) ==
  /\ jobs' = [jobs EXCEPT ![providerOf[b]] = @ + 1]
  /\ \A p \in Provider :
       FinishedAt(p)' \subseteq (IF p = providerOf[b] THEN FinishedAt(p) \cup {b}
                                                      ELSE FinishedAt(p))

FinishesNothing ==
  UNCHANGED jobs /\ \A p \in Provider : FinishedAt(p)' \subseteq FinishedAt(p)

LEMMA FinishedStep ==
  ASSUME ConstantsAssumption, Base, [Next]_vars
  PROVE  FinishesNothing \/ \E b \in Booking : Finishes(b)
<1>0. DisputeEffect
  BY EffectStep DEF Effect
<1>1. ASSUME UNCHANGED <<booking, trail, jobs>> PROVE FinishesNothing
  <2>1. \A c \in Booking : ToCount(c)' => ToCount(c)
    BY <1>0, <1>1, RuledStays DEF ToCount, CompletedByProvider
  <2> QED
    BY <1>1, <2>1 DEF FinishesNothing, FinishedAt
<1>2. ASSUME NEW b \in Booking, NEW start \in Time, NEW end \in AskedTime,
             NEW by \in CustomerSide, Create(b, start, end, by)
      PROVE  FinishesNothing
  <2> DEFINE r == [NoRow EXCEPT !.status = "PENDING_CONFIRMATION",
                                !.start = start, !.end = end]
  <2>1. start \in Instant /\ end \in Instant
    BY DEF ConstantsAssumption, AskedTime, Instant
  <2>2. r \in Row /\ r.status = "PENDING_CONFIRMATION"
    BY <2>1, Vocabulary DEF NoRow, Row
  <2>3. WriteBooking(b, r, by) /\ UNCHANGED jobs /\ by \in Actor
    BY <1>2 DEF Create, CustomerSide, Actor
  <2> HIDE DEF r
  <2> QED
    BY <1>0, <2>2, <2>3, NotNewlyFinished DEF FinishesNothing
<1>3. ASSUME NEW s \in Session, ConfirmWrite(s) \/ StartWrite(s) \/ CancelWrite(s)
      PROVE  FinishesNothing
  <2> DEFINE b == tx[s].booking
  <2>1. tx[s] \in Moving
    BY <1>3, OpTells DEF Base, TypeOK, ConfirmWrite, StartWrite, CancelWrite
  <2>2. b \in Booking /\ booking[b] \in Row /\ tx[s].actor \in Actor
    BY <2>1 DEF Moving, Base, TypeOK
  <2>3. CASE ConfirmWrite(s)
    <3> DEFINE r == [booking[b] EXCEPT !.status = "CONFIRMED", !.released = TRUE]
    <3>1. r \in Row /\ r.status = "CONFIRMED" /\ WriteBooking(b, r, tx[s].actor)
          /\ UNCHANGED jobs
      BY <2>2, <2>3, Vocabulary DEF Row, ConfirmWrite
    <3> HIDE DEF r
    <3> QED
      BY <1>0, <2>2, <3>1, NotNewlyFinished DEF FinishesNothing
  <2>4. CASE StartWrite(s)
    <3> DEFINE r == [booking[b] EXCEPT !.status = "IN_PROGRESS"]
    <3>1. r \in Row /\ r.status = "IN_PROGRESS" /\ WriteBooking(b, r, tx[s].actor)
          /\ UNCHANGED jobs
      BY <2>2, <2>4, Vocabulary DEF Row, StartWrite
    <3> HIDE DEF r
    <3> QED
      BY <1>0, <2>2, <3>1, NotNewlyFinished DEF FinishesNothing
  <2>5. CASE CancelWrite(s)
    <3> DEFINE r == [booking[b] EXCEPT !.status = CancelTarget(tx[s].actor), !.cancelled = TRUE]
    <3>1. r \in Row /\ r.status # "COMPLETED" /\ WriteBooking(b, r, tx[s].actor)
          /\ UNCHANGED jobs
      BY <2>2, <2>5, Vocabulary DEF Row, CancelWrite, CancelTarget
    <3> HIDE DEF r
    <3> QED
      BY <1>0, <2>2, <3>1, NotNewlyFinished DEF FinishesNothing
  <2> QED
    BY <1>3, <2>3, <2>4, <2>5
<1>4. ASSUME NEW s \in Session, CompleteWrite(s)
      PROVE  \E b \in Booking : Finishes(b)
  <2> DEFINE b == tx[s].booking
  <2>1. b \in Booking
    BY <1>4, OpTells DEF Base, TypeOK, CompleteWrite, Moving
  <2>2. jobs' = [jobs EXCEPT ![providerOf[b]] = @ + 1] /\ UNCHANGED dispute
    BY <1>4 DEF CompleteWrite
  <2>3. /\ \A c \in Booking \ {b} : booking'[c] = booking[c]
        /\ \A c \in Booking \ {b} : trail'[c] = trail[c]
    BY <1>4, <2>1 DEF CompleteWrite, WriteBooking, StoreRow, Base, TypeOK
  <2>4. \A c \in Booking \ {b} : ToCount(c)' = ToCount(c)
    BY <2>2, <2>3 DEF ToCount, Ruled, CompletedByProvider
  <2>5. ASSUME NEW p \in Provider, NEW c \in FinishedAt(p)', c # b
        PROVE  c \in FinishedAt(p)
    BY <2>4, <2>5 DEF FinishedAt
  <2>6. ASSUME NEW p \in Provider, p # providerOf[b] PROVE b \notin FinishedAt(p)'
    BY <2>6 DEF FinishedAt
  <2>7. \A p \in Provider :
          FinishedAt(p)' \subseteq (IF p = providerOf[b] THEN FinishedAt(p) \cup {b}
                                                         ELSE FinishedAt(p))
    BY <2>5, <2>6
  <2> QED
    BY <2>1, <2>2, <2>7 DEF Finishes
<1>5. ASSUME NEW s \in Session, RescheduleWrite(s) PROVE FinishesNothing
  <2>1. PICK b \in Booking, r \in Row : Replans(b, r)
    BY <1>5, RescheduleReplans
  <2>2. UNCHANGED <<trail, jobs, dispute>>
    BY <1>5 DEF RescheduleWrite
  <2>3. \A c \in Booking : booking'[c].status = booking[c].status
    BY <2>1, StoreRowSets DEF Base, Replans
  <2>4. \A c \in Booking : ToCount(c)' = ToCount(c)
    BY <2>2, <2>3 DEF ToCount, Ruled, CompletedByProvider
  <2> QED
    BY <2>2, <2>4 DEF FinishedAt, FinishesNothing
<1>6. ASSUME NEW s \in Session, NEW d \in Dispute, DisputeWrite(s, d) PROVE FinishesNothing
  <2> DEFINE b == tx[s].booking
             r == [booking[b] EXCEPT !.status = "DISPUTED"]
  <2>1. CASE tx[s].seen \in NoShow
    BY <1>1, <1>6, <2>1 DEF DisputeWrite
  <2>2. CASE tx[s].seen \notin NoShow
    <3>1. b \in Booking /\ tx[s].actor \in Actor
      BY <1>6, OpTells DEF Base, TypeOK, DisputeWrite, Disputing
    <3>2. booking[b] \in Row
      BY <3>1 DEF Base, TypeOK
    <3>3. r \in Row /\ r.status = "DISPUTED" /\ WriteBooking(b, r, tx[s].actor)
          /\ UNCHANGED jobs
      BY <1>6, <2>2, <3>2, Vocabulary DEF Row, DisputeWrite
    <3> HIDE DEF r
    <3> QED
      BY <1>0, <3>1, <3>3, NotNewlyFinished DEF FinishesNothing
  <2> QED
    BY <2>1, <2>2
<1>7. ASSUME NEW s \in Session, ResolveWrite(s) PROVE FinishesNothing
  <2>1. tx[s] \in Resolving
    BY <1>7, OpTells DEF Base, TypeOK, ResolveWrite
  <2>2. PICK b \in Booking : b = bookingOf[tx[s].dispute]
    BY <2>1 DEF Resolving, ConstantsAssumption
  <2>3. Ruled(b)'
    BY <1>7, <2>1, <2>2 DEF Resolving, ResolveWrite, Ruled, Base, TypeOK
  <2> DEFINE r == RuledRow(booking[b], tx[s].ruling)
  <2>4. CASE tx[s].seen # "DISPUTED"
    BY <1>1, <1>7, <2>4 DEF ResolveWrite
  <2>5. CASE tx[s].seen = "DISPUTED"
    <3>1. booking[b] \in Row
      BY DEF Base, TypeOK
    <3>2. r \in Row /\ WriteBooking(b, r, "admin") /\ UNCHANGED jobs
      BY <1>7, <2>2, <2>5, <3>1, Vocabulary DEF Row, RuledRow, ResolveWrite
    <3> HIDE DEF r
    <3> QED
      BY <1>0, <2>3, <3>2, NotNewlyFinished, Vocabulary DEF FinishesNothing
  <2> QED
    BY <2>4, <2>5
<1>8. UNCHANGED db => UNCHANGED <<booking, trail, jobs>>
  BY DEF db
<1> QED
  BY <1>1, <1>2, <1>3, <1>4, <1>5, <1>6, <1>7, <1>8, StepKinds DEF Writes

LEMMA JobsStep ==
  ASSUME ConstantsAssumption, Base, JobsOK, [Next]_vars
  PROVE  JobsOK'
<1> SUFFICES ASSUME NEW p \in Provider
             PROVE  IsFiniteSet(FinishedAt(p)') /\ Cardinality(FinishedAt(p)') <= jobs'[p]
  BY DEF JobsOK
<1>1. IsFiniteSet(FinishedAt(p)) /\ Cardinality(FinishedAt(p)) <= jobs[p]
  BY DEF JobsOK
<1>2. jobs \in [Provider -> Nat]
  BY DEF Base, TypeOK
<1>3. CASE FinishesNothing
  BY <1>1, <1>2, <1>3, Fewer DEF FinishesNothing
<1>4. ASSUME NEW b \in Booking, Finishes(b)
      PROVE  IsFiniteSet(FinishedAt(p)') /\ Cardinality(FinishedAt(p)') <= jobs'[p]
  <2>1. providerOf[b] \in Provider
    BY DEF ConstantsAssumption
  <2>2. CASE p # providerOf[b]
    <3>1. FinishedAt(p)' \subseteq FinishedAt(p) /\ jobs'[p] = jobs[p]
      BY <1>2, <1>4, <2>2 DEF Finishes
    <3> QED
      BY <1>1, <1>2, <3>1, Fewer
  <2>3. CASE p = providerOf[b]
    <3> DEFINE T == FinishedAt(p) \cup {b}
    <3>1. FinishedAt(p)' \subseteq T /\ jobs'[p] = jobs[p] + 1
      BY <1>2, <1>4, <2>3 DEF Finishes
    <3>2. IsFiniteSet(T) /\ Cardinality(T) <= Cardinality(FinishedAt(p)) + 1
          /\ Cardinality(T) \in Nat /\ Cardinality(FinishedAt(p)) \in Nat
      BY <1>1, OneMore
    <3> HIDE DEF T
    <3>3. IsFiniteSet(FinishedAt(p)') /\ Cardinality(FinishedAt(p)') <= Cardinality(T)
          /\ Cardinality(FinishedAt(p)') \in Nat
      BY <3>1, <3>2, Fewer
    <3> QED
      BY <1>1, <1>2, <3>1, <3>2, <3>3
  <2> QED
    BY <2>2, <2>3
<1> QED
  BY <1>3, <1>4, FinishedStep

(* The counter on a provider's profile never falls behind the bookings     *)
(* that stand COMPLETED, those apart that only a ruling completed, however *)
(* completions, disputes and rulings overlap.                              *)
THEOREM JobsNeverFallBehind == Spec => []JobsAreCounted
<1>1. Init => Base /\ JobsOK
  <2> SUFFICES ASSUME Init PROVE JobsOK
    BY BaseInit, ConstantsAssumption
  <2>1. \A p \in Provider : FinishedAt(p) = {} /\ jobs[p] = 0
    BY DEF Init, NoRow, FinishedAt, ToCount, CompletedByProvider
  <2> QED
    BY <2>1, FS_EmptySet DEF JobsOK
<1>2. (Base /\ JobsOK) /\ [Next]_vars => (Base /\ JobsOK)'
  BY BaseStep, JobsStep, ConstantsAssumption
<1>3. Base /\ JobsOK => JobsAreCounted
  <2> SUFFICES ASSUME Base, JobsOK, NEW p \in Provider
               PROVE  Cardinality({ b \in Booking :
                          /\ providerOf[b] = p
                          /\ booking[b].status = "COMPLETED"
                          /\ ~Ruled(b) \/ CompletedByProvider(b) }) <= jobs[p]
    BY DEF JobsAreCounted
  <2> DEFINE S == { b \in Booking : /\ providerOf[b] = p
                                    /\ booking[b].status = "COMPLETED"
                                    /\ ~Ruled(b) \/ CompletedByProvider(b) }
  <2>1. S \subseteq FinishedAt(p)
    BY DEF FinishedAt, ToCount
  <2>2. IsFiniteSet(FinishedAt(p)) /\ Cardinality(FinishedAt(p)) <= jobs[p]
        /\ jobs[p] \in Nat
    BY DEF JobsOK, Base, TypeOK
  <2> HIDE DEF S
  <2>3. Cardinality(S) <= Cardinality(FinishedAt(p)) /\ Cardinality(S) \in Nat
        /\ Cardinality(FinishedAt(p)) \in Nat
    BY <2>1, <2>2, Fewer
  <2>4. Cardinality(S) <= jobs[p]
    BY <2>2, <2>3
  <2> QED
    BY <2>4 DEF S
<1> QED
  BY <1>1, <1>2, <1>3, PTL DEF Spec

-----------------------------------------------------------------------------
(* One transaction at a time.                                              *)

(* What the handlers are written for: no transaction overlaps another.     *)
OneSession == \A s, t \in Session : s = t

(* Where a handler that has read is about to move its booking.             *)
Target(t) ==
  CASE t.op = "confirm"  -> "CONFIRMED"
    [] t.op = "start"    -> "IN_PROGRESS"
    [] t.op = "cancel"   -> CancelTarget(t.actor)
    [] t.op = "complete" -> "COMPLETED"

(* What a transaction has read of the status is still so.                  *)
ReadStands(t) ==
  /\ t \in Moving
       => <<booking[t.booking].status, Target(t), t.actor>> \in BookingTransitions
  /\ t \in Disputing => t.seen = booking[t.booking].status
  /\ t \in Resolving => t.seen = booking[bookingOf[t.dispute]].status

ReadsStand == \A s \in Session : ReadStands(tx[s])

(* A plan made for a start alone keeps the length of the booking it was    *)
(* made for, and that booking is still as it was.                          *)
PlanStands(t) ==
  (t \in Replanned /\ t.asked = NoTime)
    => LET r == booking[t.booking] IN
         /\ t.start # NoTime
         /\ t.end = IF r.end = NoTime THEN NoTime ELSE t.start + (r.end - r.start)

PlanAsked(t) ==
  t \in Rescheduling => (t.start # NoTime \/ t.end # NoTime)

PlansStand == \A s \in Session : PlanStands(tx[s]) /\ PlanAsked(tx[s])

LEMMA EdgeOf ==
  ASSUME NEW from, NEW to, NEW a, <<from, to, a>> \in BookingTransitions
  PROVE  <<from, to>> \in BookingEdges /\ from \notin Cancelled
<1> DEFINE e == <<from, to, a>>
<1>1. e \in BookingTransitions /\ <<from, to>> = <<e[1], e[2]>>
  OBVIOUS
<1>2. <<from, to>> \in BookingEdges
  BY <1>1 DEF BookingEdges
<1>3. from \notin Cancelled
  BY DEF BookingTransitions, Cancelled
<1> QED
  BY <1>2, <1>3

(* The edges that disputes and rulings take without asking the table.      *)
LEMMA DisputeEdges ==
  /\ \A from \in {"IN_PROGRESS", "COMPLETED"} : <<from, "DISPUTED">> \in BookingEdges
  /\ \A to \in Cancelled \cup {"COMPLETED"} : <<"DISPUTED", to>> \in BookingEdges
<1>1. ASSUME NEW from \in {"IN_PROGRESS", "COMPLETED"}
      PROVE  <<from, "DISPUTED">> \in BookingEdges
  <2>1. <<from, "DISPUTED", "customer">> \in BookingTransitions
    BY DEF BookingTransitions, Actor, CustomerSide
  <2> QED
    BY <2>1, EdgeOf
<1>2. ASSUME NEW to \in Cancelled \cup {"COMPLETED"}
      PROVE  <<"DISPUTED", to>> \in BookingEdges
  <2>1. <<"DISPUTED", to, "admin">> \in BookingTransitions
    BY DEF BookingTransitions
  <2> QED
    BY <2>1, EdgeOf
<1> QED
  BY <1>1, <1>2

(* A write of row r under id b that keeps to the lifecycle.                *)
Along(b, r) ==
  /\ booking' = [booking EXCEPT ![b] = r]
  /\ (booking[b].status # "NONE" /\ r.status # booking[b].status)
       => <<booking[b].status, r.status>> \in BookingEdges
  /\ r.cancelled => r.status \in Cancelled

(* A move that the table allows, of the row as it is now.                  *)
LEMMA MoveAlong ==
  ASSUME Base, ReadsStand, CancellationStands, NEW s \in Session,
         \/ ConfirmWrite(s) \/ StartWrite(s) \/ CancelWrite(s) \/ CompleteWrite(s)
  PROVE  \E b \in Booking, r \in Row : Along(b, r)
<1> DEFINE t == tx[s]
           b == t.booking
<1>1. t \in Moving /\ ReadStands(t)
  BY OpTells DEF Base, TypeOK, ReadsStand, ConfirmWrite, StartWrite,
                 CancelWrite, CompleteWrite
<1>2. b \in Booking /\ booking[b] \in Row
  BY <1>1 DEF Moving, Base, TypeOK
<1>3. /\ <<booking[b].status, Target(t)>> \in BookingEdges
      /\ booking[b].status \notin Cancelled
  BY <1>1, EdgeOf DEF ReadStands
<1>4. ~booking[b].cancelled
  BY <1>2, <1>3 DEF CancellationStands
<1>5. CASE ConfirmWrite(s)
  <2> DEFINE r == [booking[b] EXCEPT !.status = "CONFIRMED", !.released = TRUE]
  <2>1. r \in Row /\ r.status = Target(t) /\ booking' = [booking EXCEPT ![b] = r]
    BY <1>2, <1>5, Vocabulary DEF Row, ConfirmWrite, WriteBooking, StoreRow, Target
  <2>2. ~r.cancelled
    BY <1>2, <1>4 DEF Row
  <2> HIDE DEF r
  <2> QED
    BY <1>2, <1>3, <2>1, <2>2 DEF Along
<1>6. CASE StartWrite(s)
  <2> DEFINE r == [booking[b] EXCEPT !.status = "IN_PROGRESS"]
  <2>1. r \in Row /\ r.status = Target(t) /\ booking' = [booking EXCEPT ![b] = r]
    BY <1>2, <1>6, Vocabulary DEF Row, StartWrite, WriteBooking, StoreRow, Target
  <2>2. ~r.cancelled
    BY <1>2, <1>4 DEF Row
  <2> HIDE DEF r
  <2> QED
    BY <1>2, <1>3, <2>1, <2>2 DEF Along
<1>7. CASE CancelWrite(s)
  <2> DEFINE r == [booking[b] EXCEPT !.status = CancelTarget(t.actor), !.cancelled = TRUE]
  <2>1. CancelTarget(t.actor) \in Cancelled
    BY DEF CancelTarget, Cancelled
  <2>2. r \in Row /\ r.status = Target(t) /\ r.status \in Cancelled
        /\ booking' = [booking EXCEPT ![b] = r]
    BY <1>2, <1>7, <2>1, Vocabulary
       DEF Row, CancelWrite, WriteBooking, StoreRow, Target, BookingStatus
  <2> HIDE DEF r
  <2> QED
    BY <1>2, <1>3, <2>2 DEF Along
<1>8. CASE CompleteWrite(s)
  <2> DEFINE r == [booking[b] EXCEPT !.status = "COMPLETED", !.completed = TRUE]
  <2>1. r \in Row /\ r.status = Target(t) /\ booking' = [booking EXCEPT ![b] = r]
    BY <1>2, <1>8, Vocabulary DEF Row, CompleteWrite, WriteBooking, StoreRow, Target
  <2>2. ~r.cancelled
    BY <1>2, <1>4 DEF Row
  <2> HIDE DEF r
  <2> QED
    BY <1>2, <1>3, <2>1, <2>2 DEF Along
<1> QED
  BY <1>5, <1>6, <1>7, <1>8

(* Every step keeps to the lifecycle while what was read still stands.     *)
LEMMA AlongStep ==
  ASSUME ConstantsAssumption, Base, ReadsStand, CancellationStands, [Next]_vars
  PROVE  UNCHANGED booking \/ \E b \in Booking, r \in Row : Along(b, r)
<1> DEFINE Goal == UNCHANGED booking \/ \E b \in Booking, r \in Row : Along(b, r)
<1>1. ASSUME NEW b \in Booking, NEW start \in Time, NEW end \in AskedTime,
             NEW by \in CustomerSide, Create(b, start, end, by)
      PROVE  Goal
  <2> DEFINE r == [NoRow EXCEPT !.status = "PENDING_CONFIRMATION",
                                !.start = start, !.end = end]
  <2>1. start \in Instant /\ end \in Instant
    BY DEF ConstantsAssumption, AskedTime, Instant
  <2>2. r \in Row
    BY <2>1, Vocabulary DEF NoRow, Row
  <2>3. ~r.cancelled
    BY DEF NoRow
  <2>4. booking[b].status = "NONE" /\ booking' = [booking EXCEPT ![b] = r]
    BY <1>1 DEF Create, WriteBooking, StoreRow
  <2> HIDE DEF r
  <2> QED
    BY <2>2, <2>3, <2>4 DEF Along
<1>2. ASSUME NEW s \in Session,
             \/ ConfirmWrite(s) \/ StartWrite(s) \/ CancelWrite(s) \/ CompleteWrite(s)
      PROVE  Goal
  BY <1>2, MoveAlong
<1>3. ASSUME NEW s \in Session, RescheduleWrite(s) PROVE Goal
  <2> DEFINE b == tx[s].booking
             r == [booking[b] EXCEPT
                     !.start = IF tx[s].start # NoTime THEN tx[s].start ELSE @,
                     !.end   = IF tx[s].end # NoTime THEN tx[s].end ELSE @]
  <2>1. tx[s] \in Replanned
    BY <1>3, OpTells DEF Base, TypeOK, RescheduleWrite
  <2>2. b \in Booking /\ booking[b] \in Row /\ tx[s].start \in Instant
        /\ tx[s].end \in Instant
    BY <2>1 DEF Replanned, Base, TypeOK
  <2>3. r \in Row /\ r.status = booking[b].status
        /\ booking' = [booking EXCEPT ![b] = r]
    BY <1>3, <2>2 DEF Row, RescheduleWrite, StoreRow
  <2>4. r.cancelled = booking[b].cancelled
    BY <2>2 DEF Row
  <2> HIDE DEF r
  <2> QED
    BY <2>2, <2>3, <2>4 DEF Along, CancellationStands
<1>4. ASSUME NEW s \in Session, NEW d \in Dispute, DisputeWrite(s, d) PROVE Goal
  <2> DEFINE b == tx[s].booking
             r == [booking[b] EXCEPT !.status = "DISPUTED"]
  <2>1. CASE tx[s].seen \in NoShow
    BY <1>4, <2>1 DEF DisputeWrite
  <2>2. CASE tx[s].seen \notin NoShow
    <3>1. tx[s] \in Disputing /\ DisputingOK(tx[s]) /\ ReadStands(tx[s])
      BY <1>4, OpTells DEF Base, TypeOK, DisputeWrite, ReadsStand, TxOK, SessionOK
    <3>2. b \in Booking /\ booking[b] \in Row
      BY <3>1 DEF Disputing, Base, TypeOK
    <3>3. booking[b].status \in {"IN_PROGRESS", "COMPLETED"}
      BY <2>2, <3>1 DEF DisputingOK, ReadStands, Disputable
    <3>4. r \in Row /\ r.status = "DISPUTED" /\ booking' = [booking EXCEPT ![b] = r]
      BY <1>4, <2>2, <3>2, Vocabulary DEF Row, DisputeWrite, WriteBooking, StoreRow
    <3>5. r.cancelled = booking[b].cancelled
      BY <3>2 DEF Row
    <3>6. ~booking[b].cancelled
      BY <3>2, <3>3 DEF CancellationStands, Cancelled
    <3> HIDE DEF r
    <3> QED
      BY <3>2, <3>3, <3>4, <3>5, <3>6, DisputeEdges DEF Along
  <2> QED
    BY <2>1, <2>2
<1>5. ASSUME NEW s \in Session, ResolveWrite(s) PROVE Goal
  <2> DEFINE b == bookingOf[tx[s].dispute]
             r == RuledRow(booking[b], tx[s].ruling)
  <2>1. CASE tx[s].seen # "DISPUTED"
    BY <1>5, <2>1 DEF ResolveWrite
  <2>2. CASE tx[s].seen = "DISPUTED"
    <3>1. tx[s] \in Resolving /\ ReadStands(tx[s])
      BY <1>5, OpTells DEF Base, TypeOK, ResolveWrite, ReadsStand
    <3>2. b \in Booking /\ booking[b] \in Row /\ booking[b].status = "DISPUTED"
      BY <2>2, <3>1 DEF Resolving, ConstantsAssumption, Base, TypeOK, ReadStands
    <3>3. ~booking[b].cancelled
      BY <3>2 DEF CancellationStands, Cancelled
    <3>4. r \in Row /\ r.status \in Cancelled \cup {"COMPLETED"}
          /\ booking' = [booking EXCEPT ![b] = r]
      BY <1>5, <2>2, <3>2, Vocabulary
         DEF Row, RuledRow, ResolveWrite, WriteBooking, StoreRow, Cancelled
    <3>5. r.cancelled => r.status \in Cancelled
      BY <3>2, <3>3, Vocabulary DEF Row, RuledRow, Cancelled
    <3> HIDE DEF r
    <3> QED
      BY <3>2, <3>4, <3>5, DisputeEdges DEF Along
  <2> QED
    BY <2>1, <2>2
<1>6. UNCHANGED db => Goal
  BY DEF db
<1> HIDE DEF Goal
<1>7. Goal
  BY <1>1, <1>2, <1>3, <1>4, <1>5, <1>6, StepKinds DEF Writes
<1> QED
  BY <1>7 DEF Goal

(* With one session nothing comes between a read and its write, except the *)
(* insertion of a booking no handler can have read.                        *)
LEMMA ReadsStandStep ==
  ASSUME ConstantsAssumption, OneSession, Base, ReadsStand, [Next]_vars
  PROVE  ReadsStand'
<1>0. /\ Idle \notin Moving /\ Idle \notin Disputing /\ Idle \notin Resolving
      /\ tx \in [Session -> Tx]
  BY DEF Idle, Moving, Disputing, Resolving, Base, TypeOK
<1>1. ASSUME NEW s \in Session, ReadStands(tx[s])' PROVE ReadsStand'
  BY <1>1 DEF OneSession, ReadsStand
<1>2. ASSUME NEW s \in Session, Done(s) PROVE ReadsStand'
  <2>1. tx'[s] = Idle
    BY <1>0, <1>2 DEF Done
  <2> QED
    BY <1>0, <1>1, <2>1 DEF ReadStands
<1>3. CASE UNCHANGED vars
  BY <1>3 DEF vars, ReadsStand, ReadStands
<1>4. ASSUME NEW b \in Booking, NEW start \in Time, NEW end \in AskedTime,
             NEW by \in CustomerSide, Create(b, start, end, by)
      PROVE  ReadsStand'
  <2> SUFFICES ASSUME NEW s \in Session PROVE ReadStands(tx[s])'
    BY DEF ReadsStand
  <2>1. booking[b].status = "NONE" /\ tx' = tx
        /\ \A c \in Booking \ {b} : booking'[c] = booking[c]
    BY <1>4 DEF Create, WriteBooking, StoreRow, Base, TypeOK
  <2>2. SessionOK(s) /\ ReadStands(tx[s])
    BY DEF Base, TxOK, ReadsStand
  <2>3. tx[s] \in Moving => tx[s].booking \in Booking \ {b}
    BY <2>1, <2>2 DEF Moving, SessionOK, MoveOK
  <2>4. tx[s] \in Disputing => tx[s].booking \in Booking \ {b}
    BY <2>1, <2>2 DEF Disputing, SessionOK, DisputingOK
  <2>5. tx[s] \in Resolving => bookingOf[tx[s].dispute] \in Booking \ {b}
    BY <2>1, <2>2 DEF Resolving, SessionOK, ResolvingOK, ConstantsAssumption,
                      Base, DisputesOK
  <2> QED
    BY <2>1, <2>2, <2>3, <2>4, <2>5 DEF ReadStands
<1>5. ASSUME NEW s \in Session, NEW b \in Booking, NEW a \in Caller,
             \/ ConfirmRead(s, b, a) \/ StartRead(s, b, a)
             \/ CancelRead(s, b, a) \/ CompleteRead(s, b, a)
      PROVE  ReadsStand'
  <2> SUFFICES
        ASSUME NEW op \in {"confirm", "start", "cancel", "complete"}, NEW to,
               Load(s, op, b, a, to),
               to = Target([op |-> op, booking |-> b, actor |-> a])
        PROVE  ReadsStand'
    BY <1>5 DEF ConfirmRead, StartRead, CancelRead, CompleteRead, Target
  <2> DEFINE t == [op |-> op, booking |-> b, actor |-> a]
  <2>1. a \in Actor
    BY DEF ConstantsAssumption
  <2>2. t \notin Disputing /\ t \notin Resolving
    BY DEF Disputing, Resolving
  <2>3. tx'[s] = t /\ booking' = booking
        /\ <<booking[b].status, to, a>> \in BookingTransitions
    BY <1>0 DEF Load, Open, MayMove, db
  <2>4. ReadStands(tx[s])'
    BY <2>2, <2>3 DEF ReadStands, Target
  <2> QED
    BY <1>1, <2>4
<1>6. ASSUME NEW s \in Session, NEW b \in Booking, NEW a \in Caller, DisputeRead(s, b, a)
      PROVE  ReadsStand'
  <2> DEFINE t == [op |-> "dispute", booking |-> b, actor |-> a,
                   seen |-> booking[b].status]
  <2>1. t \notin Moving /\ t \notin Resolving
    BY DEF Moving, Resolving
  <2>2. tx'[s] = t /\ booking' = booking
    BY <1>0, <1>6 DEF DisputeRead, Open, db
  <2>3. ReadStands(tx[s])'
    BY <2>1, <2>2 DEF ReadStands
  <2> QED
    BY <1>1, <2>3
<1>7. ASSUME NEW s \in Session, NEW d \in Dispute, NEW ruling \in Ruling,
             ResolveRead(s, d, ruling)
      PROVE  ReadsStand'
  <2> DEFINE t == [op |-> "resolve", dispute |-> d, ruling |-> ruling,
                   seen |-> booking[bookingOf[d]].status]
  <2>1. t \notin Moving /\ t \notin Disputing
    BY DEF Moving, Disputing
  <2>2. tx'[s] = t /\ booking' = booking
    BY <1>0, <1>7 DEF ResolveRead, Open, db
  <2>3. ReadStands(tx[s])'
    BY <2>1, <2>2 DEF ReadStands
  <2> QED
    BY <1>1, <2>3
<1>8. ASSUME NEW s \in Session, NEW b \in Booking, NEW start \in AskedTime,
             NEW end \in AskedTime, RescheduleRead(s, b, start, end)
      PROVE  ReadsStand'
  <2> DEFINE t == [op |-> "reschedule", booking |-> b, start |-> start, end |-> end]
  <2>1. t \notin Moving /\ t \notin Disputing /\ t \notin Resolving
    BY DEF Moving, Disputing, Resolving
  <2>2. tx'[s] = t
    BY <1>0, <1>8 DEF RescheduleRead, Open
  <2>3. ReadStands(tx[s])'
    BY <2>1, <2>2 DEF ReadStands
  <2> QED
    BY <1>1, <2>3
<1>9. ASSUME NEW s \in Session, RescheduleTimes(s) PROVE ReadsStand'
  <2>1. tx'[s].op = "replanned"
    BY <1>0, <1>9 DEF RescheduleTimes, Proceed
  <2>2. tx'[s] \notin Moving /\ tx'[s] \notin Disputing /\ tx'[s] \notin Resolving
    BY <2>1 DEF Moving, Disputing, Resolving
  <2>3. ReadStands(tx[s])'
    BY <2>2 DEF ReadStands
  <2> QED
    BY <1>1, <2>3
<1>10. ASSUME NEW s \in Session, DisputeCheck(s) PROVE ReadsStand'
  <2>1. tx[s] \in Disputing /\ ReadStands(tx[s])
    BY <1>10, OpTells DEF Base, TypeOK, DisputeCheck, ReadsStand
  <2>2. tx'[s] = [tx[s] EXCEPT !.op = "disputable"] /\ booking' = booking
    BY <1>0, <1>10 DEF DisputeCheck, Proceed, db
  <2>3. tx'[s] \in Disputing /\ tx'[s].seen = tx[s].seen
        /\ tx'[s].booking = tx[s].booking
    BY <2>1, <2>2 DEF Disputing
  <2>4. tx'[s] \notin Moving /\ tx'[s] \notin Resolving
    BY <2>3 DEF Disputing, Moving, Resolving
  <2>5. ReadStands(tx[s])'
    BY <2>1, <2>2, <2>3, <2>4 DEF ReadStands
  <2> QED
    BY <1>1, <2>5
<1>11. ASSUME NEW s \in Session, NEW d \in Dispute, DisputeWrite(s, d) PROVE ReadsStand'
  BY <1>2, <1>11 DEF DisputeWrite
<1>12. ASSUME NEW s \in Session,
              \/ ConfirmWrite(s) \/ StartWrite(s) \/ CancelWrite(s)
              \/ CompleteWrite(s) \/ RescheduleWrite(s) \/ ResolveWrite(s)
              \/ Abort(s)
       PROVE  ReadsStand'
  BY <1>2, <1>12 DEF ConfirmWrite, StartWrite, CancelWrite, CompleteWrite,
                     RescheduleWrite, ResolveWrite, Abort
<1> QED
  BY <1>3, <1>4, <1>5, <1>6, <1>7, <1>8, <1>9, <1>10, <1>11, <1>12 DEF Next

SerialInv == Base /\ ReadsStand /\ CancellationStands

LEMMA SerialAlways ==
  ASSUME OneSession
  PROVE  Spec => []SerialInv
<1>1. Init => SerialInv
  <2> SUFFICES ASSUME Init PROVE ReadsStand /\ CancellationStands
    BY BaseInit, ConstantsAssumption DEF SerialInv
  <2>1. Idle \notin Moving /\ Idle \notin Disputing /\ Idle \notin Resolving
    BY DEF Idle, Moving, Disputing, Resolving
  <2>2. ReadsStand
    BY <2>1 DEF Init, ReadsStand, ReadStands
  <2>3. CancellationStands
    BY DEF Init, NoRow, CancellationStands
  <2> QED
    BY <2>2, <2>3
<1>2. SerialInv /\ [Next]_vars => SerialInv'
  <2> SUFFICES ASSUME SerialInv, [Next]_vars PROVE SerialInv'
    OBVIOUS
  <2>1. Base' /\ ReadsStand'
    BY BaseStep, ReadsStandStep, ConstantsAssumption DEF SerialInv
  <2>2. CancellationStands'
    <3>1. CASE UNCHANGED booking
      BY <3>1 DEF SerialInv, CancellationStands
    <3>2. ASSUME NEW b \in Booking, NEW r \in Row, Along(b, r) PROVE CancellationStands'
      BY <3>2 DEF Along, SerialInv, CancellationStands, Base, TypeOK
    <3> QED
      BY <3>1, <3>2, AlongStep, ConstantsAssumption DEF SerialInv
  <2> QED
    BY <2>1, <2>2 DEF SerialInv
<1> QED
  BY <1>1, <1>2, PTL DEF Spec

(* As long as handlers do not overlap, a booking moves only along the      *)
(* edges of the TRANSITIONS table, disputes and rulings included, although *)
(* those two do not consult it.                                            *)
THEOREM StatusFollowsTheTable ==
  ASSUME OneSession
  PROVE  Spec => StatusFollowsEdges
<1>1. SerialInv /\ [Next]_vars
        => [\A b \in Booking :
              (booking[b].status # "NONE" /\ booking'[b].status # booking[b].status)
                => <<booking[b].status, booking'[b].status>> \in BookingEdges]_vars
  <2> SUFFICES
        ASSUME SerialInv, [Next]_vars, NEW b \in Booking,
               booking[b].status # "NONE", booking'[b].status # booking[b].status
        PROVE  <<booking[b].status, booking'[b].status>> \in BookingEdges
    OBVIOUS
  <2>1. PICK c \in Booking, r \in Row : Along(c, r)
    BY AlongStep, ConstantsAssumption DEF SerialInv
  <2>2. booking \in [Booking -> Row]
    BY DEF SerialInv, Base, TypeOK
  <2> QED
    BY <2>1, <2>2 DEF Along
<1> QED
  BY <1>1, SerialAlways, PTL DEF Spec, StatusFollowsEdges

(* The same of the plans of a reschedule: with one session no other write  *)
(* comes between the two statements.                                       *)
LEMMA PlansStandStep ==
  ASSUME ConstantsAssumption, OneSession, Base, PlansStand, [Next]_vars
  PROVE  PlansStand'
<1>0. /\ Idle \notin Rescheduling /\ Idle \notin Replanned
      /\ tx \in [Session -> Tx]
  BY DEF Idle, Rescheduling, Replanned, Base, TypeOK
<1>1. ASSUME NEW s \in Session, PlanStands(tx[s])', PlanAsked(tx[s])' PROVE PlansStand'
  BY <1>1 DEF OneSession, PlansStand
<1>2. ASSUME NEW s \in Session, tx'[s] \notin Rescheduling, tx'[s] \notin Replanned
      PROVE  PlansStand'
  BY <1>1, <1>2 DEF PlanStands, PlanAsked
<1>3. ASSUME NEW s \in Session, Done(s) PROVE PlansStand'
  <2>1. tx'[s] = Idle
    BY <1>0, <1>3 DEF Done
  <2> QED
    BY <1>0, <1>2, <2>1
<1>4. CASE UNCHANGED vars
  BY <1>4 DEF vars, PlansStand, PlanStands, PlanAsked
<1>5. ASSUME NEW b \in Booking, NEW start \in Time, NEW end \in AskedTime,
             NEW by \in CustomerSide, Create(b, start, end, by)
      PROVE  PlansStand'
  <2> SUFFICES ASSUME NEW s \in Session PROVE PlanStands(tx[s])' /\ PlanAsked(tx[s])'
    BY DEF PlansStand
  <2>1. booking[b].status = "NONE" /\ tx' = tx
        /\ \A c \in Booking \ {b} : booking'[c] = booking[c]
    BY <1>5 DEF Create, WriteBooking, StoreRow, Base, TypeOK
  <2>2. SessionOK(s) /\ PlanStands(tx[s]) /\ PlanAsked(tx[s])
    BY DEF Base, TxOK, PlansStand
  <2>3. tx[s] \in Replanned => tx[s].booking \in Booking \ {b}
    BY <2>1, <2>2 DEF Replanned, SessionOK, PlanOK
  <2> QED
    BY <2>1, <2>2, <2>3 DEF PlanStands, PlanAsked
<1>6. ASSUME NEW s \in Session, NEW b \in Booking, NEW start \in AskedTime,
             NEW end \in AskedTime, RescheduleRead(s, b, start, end)
      PROVE  PlansStand'
  <2> DEFINE t == [op |-> "reschedule", booking |-> b, start |-> start, end |-> end]
  <2>1. t \notin Replanned /\ (start # NoTime \/ end # NoTime)
    BY <1>6 DEF Replanned, RescheduleRead
  <2>2. tx'[s] = t
    BY <1>0, <1>6 DEF RescheduleRead, Open
  <2>3. PlanStands(tx[s])' /\ PlanAsked(tx[s])'
    BY <2>1, <2>2 DEF PlanStands, PlanAsked
  <2> QED
    BY <1>1, <2>3
<1>7. ASSUME NEW s \in Session, RescheduleTimes(s) PROVE PlansStand'
  <2>1. tx[s] \in Rescheduling /\ PlanAsked(tx[s])
    BY <1>7, OpTells DEF Base, TypeOK, RescheduleTimes, PlansStand
  <2> DEFINE r == booking[tx[s].booking]
             shifts == tx[s].start # NoTime /\ tx[s].end = NoTime /\ r.end # NoTime
             newEnd == IF shifts THEN tx[s].start + (r.end - r.start) ELSE tx[s].end
             t == [op |-> "replanned", booking |-> tx[s].booking,
                   start |-> tx[s].start, end |-> newEnd, asked |-> tx[s].end]
  <2>2. tx'[s] = t /\ booking' = booking
    BY <1>0, <1>7 DEF RescheduleTimes, Proceed, db
  <2>3. t \notin Rescheduling
    BY DEF Rescheduling
  <2>4. t.asked = NoTime => t.start # NoTime
        /\ t.end = IF r.end = NoTime THEN NoTime ELSE t.start + (r.end - r.start)
    BY <2>1 DEF PlanAsked
  <2>5. PlanAsked(tx[s])'
    BY <2>2, <2>3 DEF PlanAsked
  <2>6. PlanStands(tx[s])'
    BY <2>2, <2>4 DEF PlanStands
  <2> QED
    BY <1>1, <2>5, <2>6
<1>8. ASSUME NEW s \in Session, NEW t, tx'[s] = t,
             t \in Moving \/ t \in Disputing \/ t \in Resolving
      PROVE  PlansStand'
  <2>1. t \notin Rescheduling /\ t \notin Replanned
    BY <1>8 DEF Moving, Disputing, Resolving, Rescheduling, Replanned
  <2> QED
    BY <1>2, <1>8, <2>1
<1>9. ASSUME NEW s \in Session, NEW b \in Booking, NEW a \in Caller,
             \/ ConfirmRead(s, b, a) \/ StartRead(s, b, a)
             \/ CancelRead(s, b, a) \/ CompleteRead(s, b, a)
      PROVE  PlansStand'
  <2> SUFFICES ASSUME NEW op \in {"confirm", "start", "cancel", "complete"}, NEW to,
                      Load(s, op, b, a, to)
               PROVE  PlansStand'
    BY <1>9 DEF ConfirmRead, StartRead, CancelRead, CompleteRead
  <2>1. tx'[s] = [op |-> op, booking |-> b, actor |-> a]
    BY <1>0 DEF Load, Open
  <2>2. [op |-> op, booking |-> b, actor |-> a] \in Moving
    BY DEF Moving, ConstantsAssumption
  <2> QED
    BY <1>8, <2>1, <2>2
<1>10. ASSUME NEW s \in Session, NEW b \in Booking, NEW a \in Caller, DisputeRead(s, b, a)
       PROVE  PlansStand'
  <2>1. tx'[s].op = "dispute"
    BY <1>0, <1>10 DEF DisputeRead, Open
  <2> QED
    BY <1>2, <2>1 DEF Rescheduling, Replanned
<1>11. ASSUME NEW s \in Session, NEW d \in Dispute, NEW ruling \in Ruling,
              ResolveRead(s, d, ruling)
       PROVE  PlansStand'
  <2>1. tx'[s].op = "resolve"
    BY <1>0, <1>11 DEF ResolveRead, Open
  <2> QED
    BY <1>2, <2>1 DEF Rescheduling, Replanned
<1>12. ASSUME NEW s \in Session, DisputeCheck(s) PROVE PlansStand'
  <2>1. tx[s] \in Disputing
    BY <1>12, OpTells DEF Base, TypeOK, DisputeCheck
  <2>2. tx'[s] = [tx[s] EXCEPT !.op = "disputable"]
    BY <1>0, <1>12 DEF DisputeCheck, Proceed
  <2>3. tx'[s] \in Disputing
    BY <2>1, <2>2 DEF Disputing
  <2> QED
    BY <1>8, <2>3
<1>13. ASSUME NEW s \in Session, NEW d \in Dispute, DisputeWrite(s, d) PROVE PlansStand'
  BY <1>3, <1>13 DEF DisputeWrite
<1>14. ASSUME NEW s \in Session,
              \/ ConfirmWrite(s) \/ StartWrite(s) \/ CancelWrite(s)
              \/ CompleteWrite(s) \/ RescheduleWrite(s) \/ ResolveWrite(s)
              \/ Abort(s)
       PROVE  PlansStand'
  BY <1>3, <1>14 DEF ConfirmWrite, StartWrite, CancelWrite, CompleteWrite,
                     RescheduleWrite, ResolveWrite, Abort
<1> QED
  BY <1>4, <1>5, <1>6, <1>7, <1>9, <1>10, <1>11, <1>12, <1>13, <1>14 DEF Next

(* A step that lets a session go and changes bookings is that session's    *)
(* write: after a plan, it is the write of the plan.                       *)
LEMMA ReplannedWrites ==
  ASSUME ConstantsAssumption, Base, [Next]_vars, NEW s \in Session,
         OneSession, tx[s].op = "replanned", tx'[s] = Idle, booking' # booking
  PROVE  RescheduleWrite(s)
<1>1. tx \in [Session -> Tx] /\ tx[s] \in Tx /\ Idle.op # tx[s].op
  BY DEF Base, TypeOK, Idle
<1>2. \A t \in Session : t = s
  BY DEF OneSession
<1>3. CASE \E b \in Booking, start \in Time, end \in AskedTime,
             by \in CustomerSide \cap Caller : Create(b, start, end, by)
  BY <1>1, <1>3 DEF Create
<1>4. CASE UNCHANGED vars
  BY <1>1, <1>4 DEF vars
<1>5. ASSUME NEW t \in Session,
             \/ ConfirmWrite(t) \/ StartWrite(t) \/ CancelWrite(t)
             \/ CompleteWrite(t) \/ ResolveWrite(t)
             \/ \E d \in Dispute : DisputeWrite(t, d)
      PROVE  FALSE
  BY <1>2, <1>5 DEF ConfirmWrite, StartWrite, CancelWrite, CompleteWrite,
                    ResolveWrite, DisputeWrite
<1>6. CASE UNCHANGED db
  BY <1>6 DEF db
<1> QED
  BY <1>2, <1>3, <1>4, <1>5, <1>6, StepKinds DEF Writes, Create

(* As long as handlers do not overlap, moving a booking keeps its length:  *)
(* the length is computed from one read, and what is written is added to   *)
(* the row that read saw.                                                  *)
THEOREM MovingKeepsTheLength ==
  ASSUME OneSession
  PROVE  Spec => MovingKeepsLength
<1>1. Init => Base /\ PlansStand
  <2>1. Idle \notin Rescheduling /\ Idle \notin Replanned
    BY DEF Idle, Rescheduling, Replanned
  <2> QED
    BY <2>1, BaseInit, ConstantsAssumption DEF Init, PlansStand, PlanStands, PlanAsked
<1>2. (Base /\ PlansStand) /\ [Next]_vars => (Base /\ PlansStand)'
  BY BaseStep, PlansStandStep, ConstantsAssumption
<1>3. (Base /\ PlansStand) /\ [Next]_vars
        => [\A s \in Session :
              LET t == tx[s] IN
                ( /\ t.op = "replanned" /\ t.asked = NoTime
                  /\ tx'[s] = Idle /\ booking' # booking )
                => Length(booking'[t.booking]) = Length(booking[t.booking])]_vars
  <2> SUFFICES
        ASSUME Base, PlansStand, [Next]_vars, NEW s \in Session,
               tx[s].op = "replanned", tx[s].asked = NoTime,
               tx'[s] = Idle, booking' # booking
        PROVE  Length(booking'[tx[s].booking]) = Length(booking[tx[s].booking])
    OBVIOUS
  <2>1. tx[s] \in Replanned /\ PlanStands(tx[s]) /\ PlanOK(tx[s])
    BY OpTells DEF Base, TypeOK, PlansStand, TxOK, SessionOK
  <2>2. RescheduleWrite(s)
    BY ReplannedWrites, ConstantsAssumption
  <2> DEFINE b == tx[s].booking
             r == booking[b]
             t == tx[s]
  <2>3. b \in Booking /\ r \in Row /\ r.start \in Int /\ r.end \in Instant
        /\ t.start \in Int /\ t.end \in Instant
    BY <2>1 DEF Replanned, PlanOK, PlanStands, Base, TypeOK, RowsOK, Row, Instant
  <2>4. booking'[b].start = t.start
        /\ booking'[b].end = IF t.end # NoTime THEN t.end ELSE r.end
    BY <2>1, <2>2, <2>3 DEF RescheduleWrite, StoreRow, PlanStands, Base, TypeOK, Row
  <2>5. t.end = IF r.end = NoTime THEN NoTime ELSE t.start + (r.end - r.start)
    BY <2>1 DEF PlanStands
  <2>6. CASE r.end = NoTime
    BY <2>4, <2>5, <2>6 DEF Length
  <2>7. CASE r.end # NoTime
    <3>1. r.end \in Int /\ NoTime \notin Int
      BY <2>3, <2>7, ConstantsAssumption DEF Instant, ConstantsAssumption
    <3>2. t.end = t.start + (r.end - r.start) /\ t.end # NoTime
      BY <2>3, <2>5, <2>7, <3>1
    <3>3. booking'[b].end = t.end /\ booking'[b].start = t.start
      BY <2>4, <3>2
    <3>4. t.end - t.start = r.end - r.start
      BY <2>3, <3>1, <3>2
    <3> QED
      BY <2>7, <3>2, <3>3, <3>4 DEF Length
  <2> QED
    BY <2>6, <2>7
<1> QED
  BY <1>1, <1>2, <1>3, PTL DEF Spec, MovingKeepsLength

(* As long as handlers do not overlap, cancelled_at is set only on a       *)
(* booking that is cancelled.                                              *)
THEOREM CancelledIsCancelled ==
  ASSUME OneSession
  PROVE  Spec => []CancellationStands
<1>1. SerialInv => CancellationStands
  BY DEF SerialInv
<1> QED
  BY <1>1, SerialAlways, PTL
=============================================================================
