----------------------------- MODULE MCBookings -----------------------------
(* Instances of Bookings for TLC. *)
EXTENDS Bookings, TLC

CONSTANTS b1, d1, d2, p1

(* Every booking is with one provider.                                     *)
MCProviderOf == [b \in Booking |-> p1]

(* Every dispute is about the first booking.                               *)
MCBookingOf == [d \in Dispute |-> b1]

OneTime   == {1}
LongTime  == 1..3

ChangeStatus == AllRoutes \ {"reschedule"}

Everybody == Actor

(* Sessions are interchangeable.                                           *)
SessionSymmetry == Permutations(Session)
=============================================================================
