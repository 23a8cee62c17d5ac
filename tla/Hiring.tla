------------------------------- MODULE Hiring -------------------------------
(***************************************************************************)
(* From a request for a job to a booking: RequestsService, QuotesService   *)
(* and the admin-only BookingsService.create, over the service_requests,   *)
(* quotes, bookings (as far as its insertion goes) and notifications       *)
(* tables.                                                                 *)
(*                                                                         *)
(* As in Bookings, a handler is a READ COMMITTED transaction: a read step  *)
(* that checks what it sees and remembers it in tx[s], and a write step    *)
(* that writes rows by id and commits, all or nothing.  A write step is    *)
(* enabled only if the unique indexes admit it; Abort covers the rest.     *)
(*                                                                         *)
(* Provider is the set of providers who are verified, not suspended and    *)
(* open for work.  A quote's parts, notes and duration, a request's        *)
(* details, the scheduled time and the calendar of Bookings are left out.  *)
(***************************************************************************)
EXTENDS FiniteSets, Lifecycle

CONSTANTS
  Request,      \* ids of requests
  Quote,        \* ids of quotes
  Provider,     \* providers who may quote
  requestOf,    \* the request a quote, once made, is on
  quoterOf,     \* the provider who makes it
  Amount,       \* amounts a provider may ask for
  NoAmount,     \* a field the caller left out, or a booking not made
  Anyone,       \* SQL NULL in service_requests.provider_id: a broadcast
  Session,      \* database transactions that may be open at once
  Changes,      \* the revisions providers ask for in this instance
  Routes,       \* the handlers clients call in this instance
  Caller        \* who calls them: "customer", "admin" and providers

AllRoutes == {"status", "quote", "revise", "accept", "reject", "record"}

(* The optional fields of UpdateQuoteDto that matter here.                 *)
Change == [amount : Amount \cup {NoAmount}, withdraw : BOOLEAN, renew : BOOLEAN]

ASSUME HiringAssumption ==
  /\ requestOf \in [Quote -> Request]
  /\ quoterOf \in [Quote -> Provider]
  /\ NoAmount \notin Amount
  /\ Anyone \notin Provider
  /\ Changes \subseteq Change
  /\ Routes \subseteq AllRoutes
  /\ Caller \subseteq CustomerSide \cup Provider
  /\ CustomerSide \cap Provider = {}

VARIABLES
  request,      \* the service_requests table
  quote,        \* the quotes table
  booked,       \* per quote, total_amount of the booking made from it
  inbox,        \* notifications
  tx            \* the transaction each session has open

db   == <<request, quote, booked, inbox>>
vars == <<request, quote, booked, inbox, tx>>

-----------------------------------------------------------------------------
(* Types. *)

RequestRow == [status : RequestStatus \cup {"NONE"},   \* NONE: not inserted yet
               target : Provider \cup {Anyone},
               expired : BOOLEAN]                       \* expires_at has passed

QuoteRow == [status : QuoteStatus \cup {"NONE"},
             amount : Amount \cup {NoAmount},
             lapsed : BOOLEAN]                          \* valid_until has passed

Notice == ({"QUOTE_RECEIVED"} \X Quote \X {"customer"})
            \cup ({"QUOTE_ACCEPTED"} \X Quote \X CustomerSide)
            \cup ({"CANCELLED", "CLOSED"} \X Request \X Provider)

Idle == [op |-> "idle"]

Moving    == [op : {"status"}, request : Request, to : RequestStatus,
              caller : CustomerSide \cup Provider]
Quoting   == [op : {"quote"}, quote : Quote, amount : Amount]
Quoted    == [op : {"quoted"}, quote : Quote, amount : Amount,
              seen : RequestStatus \cup {"NONE"}]
Revising  == [op : {"revise"}, quote : Quote, change : Change]
Accepting == [op : {"accept"}, quote : Quote, amount : Amount,
              caller : CustomerSide]
Rejecting == [op : {"reject"}, quote : Quote]
Recording == [op : {"record"}, quote : Quote, amount : Amount]

Tx == {Idle} \cup Moving \cup Quoting \cup Quoted \cup Revising
             \cup Accepting \cup Rejecting \cup Recording

HiringTypeOK ==
  /\ request \in [Request -> RequestRow]
  /\ quote \in [Quote -> QuoteRow]
  /\ booked \in [Quote -> Amount \cup {NoAmount}]
  /\ inbox \subseteq Notice
  /\ tx \in [Session -> Tx]

-----------------------------------------------------------------------------
(* What the database enforces on a write. *)

QuotesOn(r) == { q \in Quote : requestOf[q] = r /\ quote[q].status # "NONE" }

Siblings(q) == { o \in Quote : requestOf[o] = requestOf[q] /\ o # q }

(* quotes_one_live_per_provider_per_request, for q becoming live.          *)
NoOtherLive(q) ==
  \A o \in Siblings(q) :
    quoterOf[o] = quoterOf[q] => quote[o].status \notin LiveQuote

(* quotes_one_accepted_per_request, for q becoming accepted.               *)
NoOtherAccepted(q) == \A o \in Siblings(q) : quote[o].status # "ACCEPTED"

(* The unique bookings.quote_id, for a booking made from q.                *)
NoBookingYet(q) == booked[q] = NoAmount

-----------------------------------------------------------------------------
(* Transactions. *)

Open(s, route, t) ==
  /\ route \in Routes
  /\ tx[s] = Idle
  /\ tx' = [tx EXCEPT ![s] = t]
  /\ UNCHANGED db

Done(s) == tx' = [tx EXCEPT ![s] = Idle]

Abort(s) ==
  /\ tx[s] # Idle
  /\ Done(s)
  /\ UNCHANGED db

-----------------------------------------------------------------------------
(* Requests. *)

(* RequestsService.create: one insert, OPEN from the start.                *)
PostRequest(r, target) ==
  /\ request[r].status = "NONE"
  /\ request' = [request EXCEPT
                   ![r] = [status |-> "OPEN", target |-> target, expired |-> FALSE]]
  /\ UNCHANGED <<quote, booked, inbox, tx>>

(* actorFor, of a caller whom row level security lets see the request.     *)
ActorFor(c) == IF c \in Provider THEN "provider" ELSE c

Sees(c, r) ==
  \/ c \in CustomerSide
  \/ request[r].target = c
  \/ \E q \in QuotesOn(r) : quoterOf[q] = c

(* RequestsService.updateStatus: the TRANSITIONS table is consulted.       *)
MoveRequestRead(s, r, c, to) ==
  /\ Sees(c, r)
  /\ <<request[r].status, to, ActorFor(c)>> \in RequestTransitions
  /\ Open(s, "status", [op |-> "status", request |-> r, to |-> to, caller |-> c])

(* Faulty: the notice is addressed to the quote and not to its provider.   *)
FaultyRecipients(c, r) ==
  { o \in QuotesOn(r) : c \in CustomerSide \cup {quoterOf[o]} }

(* Faulty: only providers whose quote still stands are told.               *)
FaultyQuotersSeenBy(c, r) ==
  { quoterOf[q] : q \in { o \in QuotesOn(r) :
                             /\ quote[o].status = "PENDING"
                             /\ c \in CustomerSide \cup {quoterOf[o]} } }

(* The providers of the quotes the caller can see: all of them for the     *)
(* customer and administrators, for a provider its own (quotes_select).    *)
QuotersSeenBy(c, r) ==
  { quoterOf[q] : q \in { o \in QuotesOn(r) : c \in CustomerSide \cup {quoterOf[o]} } }

(* "A provider who spent time writing a quote is owed the news".           *)
MoveRequestWrite(s) ==
  /\ tx[s].op = "status"
  /\ LET r  == tx[s].request
         to == tx[s].to
     IN  /\ request' = [request EXCEPT ![r].status = to]
         /\ inbox' = IF to \in {"CANCELLED", "CLOSED"}
                     THEN inbox \cup
                            ({to} \X {r} \X QuotersSeenBy(tx[s].caller, r))
                     ELSE inbox
  /\ Done(s)
  /\ UNCHANGED <<quote, booked>>

(* The 14 days of a request, or the validity of a quote, run out.  The     *)
(* guards leave out the moments at which nothing looks at the deadline.    *)
ExpireRequest(r) ==
  /\ request[r].status \in TakingQuotes
  /\ request' = [request EXCEPT ![r].expired = TRUE]
  /\ UNCHANGED <<quote, booked, inbox, tx>>

LapseQuote(q) ==
  /\ quote[q].status = "PENDING"
  /\ quote' = [quote EXCEPT ![q].lapsed = TRUE]
  /\ UNCHANGED <<request, booked, inbox, tx>>

-----------------------------------------------------------------------------
(* Quotes. *)

(* The request is addressed to p or to nobody, still takes quotes and has  *)
(* not expired: read from the base table, or by way of the feed view.      *)
MayQuote(p, r) ==
  /\ request[r].target \in {p, Anyone}
  /\ request[r].status \in TakingQuotes
  /\ ~request[r].expired

(***************************************************************************)
(* QuotesService.create: the request and the quoter's other quotes are     *)
(* read; the quote is inserted and the request read once more; if that     *)
(* second read said OPEN, the request becomes QUOTED.  q is the id the     *)
(* insert allocates.                                                       *)
(***************************************************************************)
QuoteRead(s, q, amount) ==
  /\ quote[q].status = "NONE"
  /\ MayQuote(quoterOf[q], requestOf[q])
  /\ NoOtherLive(q)
  /\ Open(s, "quote", [op |-> "quote", quote |-> q, amount |-> amount])

QuoteReread(s) ==
  /\ tx[s].op = "quote"
  /\ tx' = [tx EXCEPT ![s] =
              [op |-> "quoted", quote |-> tx[s].quote, amount |-> tx[s].amount,
               seen |-> request[requestOf[tx[s].quote]].status]]
  /\ UNCHANGED db

QuoteWrite(s) ==
  /\ tx[s].op = "quoted"
  /\ LET q == tx[s].quote
         r == requestOf[q]
     IN  /\ quote[q].status = "NONE"
         /\ NoOtherLive(q)
         /\ quote' = [quote EXCEPT ![q] = [status |-> "PENDING",
                                           amount |-> tx[s].amount,
                                           lapsed |-> FALSE]]
         /\ request' = IF tx[s].seen = "OPEN"
                       THEN [request EXCEPT ![r].status = "QUOTED"]
                       ELSE request
         /\ inbox' = inbox \cup {<<"QUOTE_RECEIVED", q, "customer">>}
  /\ Done(s)
  /\ UNCHANGED booked

(* QuotesService.update: only while pending, as far as the read goes.      *)
ReviseRead(s, q, change) ==
  /\ quote[q].status = "PENDING"
  /\ Open(s, "revise", [op |-> "revise", quote |-> q, change |-> change])

ReviseWrite(s) ==
  /\ tx[s].op = "revise"
  /\ LET c == tx[s].change IN
       quote' = [quote EXCEPT ![tx[s].quote] =
                   [status |-> IF c.withdraw THEN "WITHDRAWN" ELSE @.status,
                    amount |-> IF c.amount # NoAmount THEN c.amount ELSE @.amount,
                    lapsed |-> @.lapsed /\ ~c.renew]]
  /\ Done(s)
  /\ UNCHANGED <<request, booked, inbox>>

(* QuotesService.accept: the quote is checked, its request's status is not. *)
AcceptRead(s, q, c) ==
  /\ quote[q].status = "PENDING"
  /\ ~quote[q].lapsed
  /\ Open(s, "accept", [op |-> "accept", quote |-> q,
                        amount |-> quote[q].amount, caller |-> c])

(* Faulty: the booking is inserted only while the request takes quotes.    *)
FaultyAcceptBooking(s) ==
  /\ tx[s].op = "accept"
  /\ LET q == tx[s].quote
         r == requestOf[q]
     IN  /\ NoOtherLive(q)
         /\ NoOtherAccepted(q)
         /\ NoBookingYet(q)
         /\ quote' = [quote EXCEPT ![q].status = "ACCEPTED"]
         /\ booked' = IF request[r].status \in TakingQuotes
                      THEN [booked EXCEPT ![q] = tx[s].amount]
                      ELSE booked
         /\ request' = [request EXCEPT ![r].status = "BOOKED"]
         /\ inbox' = inbox \cup {<<"QUOTE_ACCEPTED", q, tx[s].caller>>}
  /\ Done(s)

(* Faulty: pending siblings are left pending.                              *)
FaultyAcceptWrite(s) ==
  /\ tx[s].op = "accept"
  /\ LET q == tx[s].quote IN
       /\ NoOtherLive(q)
       /\ NoOtherAccepted(q)
       /\ NoBookingYet(q)
       /\ quote' = [quote EXCEPT ![q].status = "ACCEPTED"]
       /\ booked' = [booked EXCEPT ![q] = tx[s].amount]
       /\ request' = [request EXCEPT ![requestOf[q]].status = "BOOKED"]
       /\ inbox' = inbox \cup {<<"QUOTE_ACCEPTED", q, tx[s].caller>>}
  /\ Done(s)

(* In this order: the quote is accepted (both indexes see its siblings as  *)
(* they were), pending siblings are rejected, the booking is inserted with *)
(* the amount that was read, the request is booked, the caller is told.    *)
AcceptWrite(s) ==
  /\ tx[s].op = "accept"
  /\ LET q == tx[s].quote IN
       /\ NoOtherLive(q)
       /\ NoOtherAccepted(q)
       /\ NoBookingYet(q)
       /\ quote' = [o \in Quote |->
                      IF o = q
                      THEN [quote[o] EXCEPT !.status = "ACCEPTED"]
                      ELSE IF o \in Siblings(q) /\ quote[o].status = "PENDING"
                           THEN [quote[o] EXCEPT !.status = "REJECTED"]
                           ELSE quote[o]]
       /\ booked' = [booked EXCEPT ![q] = tx[s].amount]
       /\ request' = [request EXCEPT ![requestOf[q]].status = "BOOKED"]
       /\ inbox' = inbox \cup {<<"QUOTE_ACCEPTED", q, tx[s].caller>>}
  /\ Done(s)

RejectRead(s, q) ==
  /\ quote[q].status = "PENDING"
  /\ Open(s, "reject", [op |-> "reject", quote |-> q])

RejectWrite(s) ==
  /\ tx[s].op = "reject"
  /\ quote' = [quote EXCEPT ![tx[s].quote].status = "REJECTED"]
  /\ Done(s)
  /\ UNCHANGED <<request, booked, inbox>>

(* BookingsService.create, "agreed off platform": an administrator makes a *)
(* booking from any quote, whatever its status, and nothing else changes.  *)
RecordRead(s, q) ==
  /\ quote[q].status # "NONE"
  /\ Open(s, "record", [op |-> "record", quote |-> q, amount |-> quote[q].amount])

RecordWrite(s) ==
  /\ tx[s].op = "record"
  /\ NoBookingYet(tx[s].quote)
  /\ booked' = [booked EXCEPT ![tx[s].quote] = tx[s].amount]
  /\ Done(s)
  /\ UNCHANGED <<request, quote, inbox>>

-----------------------------------------------------------------------------
(* Specification. *)

Init ==
  /\ request = [r \in Request |->
                  [status |-> "NONE", target |-> Anyone, expired |-> FALSE]]
  /\ quote = [q \in Quote |->
                [status |-> "NONE", amount |-> NoAmount, lapsed |-> FALSE]]
  /\ booked = [q \in Quote |-> NoAmount]
  /\ inbox = {}
  /\ tx = [s \in Session |-> Idle]

Next ==
  \/ \E r \in Request :
       \/ \E target \in Provider \cup {Anyone} : PostRequest(r, target)
       \/ ExpireRequest(r)
  \/ \E q \in Quote : LapseQuote(q)
  \/ \E s \in Session :
       \/ \E r \in Request, c \in Caller, to \in RequestStatus :
            MoveRequestRead(s, r, c, to)
       \/ \E q \in Quote :
            \/ \E amount \in Amount : QuoteRead(s, q, amount)
            \/ \E change \in Changes : ReviseRead(s, q, change)
            \/ \E c \in CustomerSide \cap Caller : AcceptRead(s, q, c)
            \/ RejectRead(s, q)
            \/ RecordRead(s, q)
       \/ MoveRequestWrite(s)
       \/ QuoteReread(s)
       \/ QuoteWrite(s)
       \/ ReviseWrite(s)
       \/ AcceptWrite(s)
       \/ RejectWrite(s)
       \/ RecordWrite(s)
       \/ Abort(s)

Spec == Init /\ [][Next]_vars

-----------------------------------------------------------------------------
(* What must hold however the handlers overlap. *)

IsAccepted(q) == quote[q].status = "ACCEPTED"

(* An accepted quote has its booking, and no later write of another        *)
(* handler, prepared on an older read, separates the two.  (The writes of  *)
(* one acceptance commit together and are one step here.)                  *)
AcceptedQuoteIsBooked == \A q \in Quote : IsAccepted(q) => booked[q] # NoAmount

(* Business rule 4, "a request can only ever have one accepted quote, so   *)
(* it can only ever produce one booking".                                  *)
OneBookingPerRequest ==
  \A q, o \in Quote :
    (booked[q] # NoAmount /\ booked[o] # NoAmount /\ requestOf[q] = requestOf[o])
      => q = o

-----------------------------------------------------------------------------
(* What holds as long as handlers do not overlap: one session. *)

AwardOf(r) ==
  IF \E q \in QuotesOn(r) : IsAccepted(q)
  THEN LET q == CHOOSE q \in QuotesOn(r) : IsAccepted(q)
       IN  [quote |-> q, price |-> booked[q]]
  ELSE [quote |-> NoAmount, price |-> NoAmount]

(* Hiring, seen from outside, is a Tender: an offer stands while its quote *)
(* is pending; a request is awarded once, at the price the quote stood at, *)
(* and every sibling is closed by it for good.                             *)
AsTender == INSTANCE Tender WITH
  offer   <- [q \in Quote |->
                IF quote[q].status = "PENDING" THEN quote[q].amount ELSE NoAmount],
  award   <- [r \in Request |-> AwardOf(r)],
  NoAward <- [quote |-> NoAmount, price |-> NoAmount]

ImplementsTender == AsTender!Spec

(* Whoever quoted a request that its customer called off has been told.    *)
QuotersHearOfCancellation ==
  \A r \in Request :
    request[r].status = "CANCELLED" =>
      \A q \in QuotesOn(r) : <<"CANCELLED", r, quoterOf[q]>> \in inbox
=============================================================================
