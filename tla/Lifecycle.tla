------------------------------ MODULE Lifecycle ------------------------------
(***************************************************************************)
(* The status vocabularies of the marketplace and the two TRANSITIONS      *)
(* tables its services consult, as data.  Nothing here has state: the      *)
(* modules of the handlers extend this one and look their moves up.        *)
(***************************************************************************)

(* Who is calling, relative to a row: loadForActor and actorFor return one. *)
Actor == {"customer", "provider", "admin"}

(* What OwnershipGuard lets through on side 'provider'; it waves ADMIN by.  *)
ProviderSide == {"provider", "admin"}

(* What OwnershipGuard lets through on side 'customer'.                     *)
CustomerSide == {"customer", "admin"}

(***************************************************************************)
(* Bookings.                                                               *)
(***************************************************************************)
Cancelled == {"CANCELLED_BY_CUSTOMER", "CANCELLED_BY_PROVIDER"}
NoShow    == {"NO_SHOW_CUSTOMER", "NO_SHOW_PROVIDER"}

BookingStatus ==
  {"PENDING_CONFIRMATION", "CONFIRMED", "IN_PROGRESS", "COMPLETED", "DISPUTED"}
    \cup Cancelled \cup NoShow

(* The statuses that hold a slot of the provider's calendar.               *)
LiveBooking == {"PENDING_CONFIRMATION", "CONFIRMED", "IN_PROGRESS"}

(* The table of bookings.service.ts: <<from, to, who may>>.                *)
BookingTransitions ==
  ({"PENDING_CONFIRMATION"} \X {"CONFIRMED"} \X ProviderSide)
    \cup ({"PENDING_CONFIRMATION", "CONFIRMED"}
            \X {"CANCELLED_BY_CUSTOMER"} \X CustomerSide)
    \cup ({"PENDING_CONFIRMATION", "CONFIRMED"}
            \X {"CANCELLED_BY_PROVIDER"} \X ProviderSide)
    \cup ({"CONFIRMED"} \X {"IN_PROGRESS", "NO_SHOW_CUSTOMER"} \X ProviderSide)
    \cup ({"CONFIRMED"} \X {"NO_SHOW_PROVIDER"} \X CustomerSide)
    \cup ({"IN_PROGRESS"} \X {"COMPLETED"} \X ProviderSide)
    \cup ({"IN_PROGRESS"} \X {"DISPUTED"} \X Actor)
    \cup ({"COMPLETED"} \X {"DISPUTED"} \X CustomerSide)
    \cup ({"DISPUTED"} \X (Cancelled \cup {"COMPLETED"}) \X {"admin"})

(* The same table with the caller forgotten: the shape of the lifecycle.   *)
BookingEdges == { <<t[1], t[2]>> : t \in BookingTransitions }

(* disputes.module.ts: "never got underway is not a dispute".              *)
Disputable == {"IN_PROGRESS", "COMPLETED"} \cup NoShow

(***************************************************************************)
(* Service requests.                                                       *)
(***************************************************************************)
RequestStatus ==
  {"DRAFT", "OPEN", "QUOTED", "ACCEPTED", "BOOKED",
   "CANCELLED", "EXPIRED", "CLOSED"}

(* The table of requests.service.ts.                                       *)
RequestTransitions ==
  ({"DRAFT"} \X {"OPEN"} \X CustomerSide)
    \cup ({"DRAFT", "OPEN", "QUOTED", "ACCEPTED"}
            \X {"CANCELLED"} \X CustomerSide)
    \cup ({"OPEN"} \X {"QUOTED"} \X ProviderSide)
    \cup ({"OPEN", "QUOTED"} \X {"EXPIRED"} \X {"admin"})
    \cup ({"QUOTED"} \X {"ACCEPTED"} \X CustomerSide)
    \cup ({"ACCEPTED"} \X {"BOOKED"} \X CustomerSide)
    \cup ({"BOOKED"} \X {"CLOSED"} \X Actor)

(* The statuses under which a request still takes quotes.                  *)
TakingQuotes == {"OPEN", "QUOTED"}

(***************************************************************************)
(* Quotes.                                                                 *)
(***************************************************************************)
QuoteStatus == {"PENDING", "ACCEPTED", "REJECTED", "WITHDRAWN"}

(* A live quote blocks the same provider from quoting the request again.   *)
LiveQuote == {"PENDING", "ACCEPTED"}
=============================================================================
