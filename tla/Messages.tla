------------------------------ MODULE Messages ------------------------------
(***************************************************************************)
(* MessagesService, with the notices that go with messages, and the small  *)
(* tables a user keeps: reports and favourites.  One customer, two         *)
(* providers; a booking of the customer with the first, and a request that *)
(* is addressed to the first or to nobody.                                 *)
(***************************************************************************)
EXTENDS Catalogue

CONSTANTS
  MaxLimit      \* messages a page of a thread shows at most

VARIABLES
  request,      \* to whom the request is addressed, and who has quoted it
  messages,     \* rows of messages with their attachment, in order
  notices,      \* MESSAGE_RECEIVED rows of notifications, in order
  reports,      \* rows of reports
  favourite     \* whether the customer has favourited the provider

messageVars == <<request, messages, notices, reports, favourite>>

Supplier == {"first", "second"}
User == {"customer"} \cup Supplier
Anchor == {"booking", "request"}

Target == {"provider", "listing", "message"}

(* Row level security: sender and recipient see a message.                 *)
Thread(user, anchor) ==
  {i \in DOMAIN messages : /\ messages[i].anchor = anchor
                           /\ user \in {messages[i].from, messages[i].to}}

(* The n-th page of a set of messages, limit to a page, newest first.      *)
Page(S, n, limit) ==
  {i \in S : Cardinality({j \in S : j > i}) \in ((n - 1) * limit)..(n * limit - 1)}

(* A quote from a provider the request is open to: module Hiring.          *)
QuoteArrives(p) ==
  /\ request.to \in {"nobody", p} /\ p \notin request.quoted
  /\ request' = [request EXCEPT !.quoted = @ \cup {p}]
  /\ UNCHANGED <<storageVars, messages, notices, reports, favourite>>

(* resolveRecipient.  The quotes come in no order: of several, any may be  *)
(* the one the customer's message goes to.                                 *)
Recipients(user, anchor) ==
  CASE anchor = "booking" /\ user = "customer" -> {"first"}
    [] anchor = "booking" /\ user = "first"    -> {"customer"}
    [] anchor = "request" /\ user = "customer" ->
         IF request.to # "nobody" THEN {request.to} ELSE request.quoted
    [] anchor = "request" /\ user \in request.quoted \cup {request.to} -> {"customer"}
    [] OTHER -> {}

Envelope(user, anchor, to, key) ==
  [anchor |-> anchor, from |-> user, to |-> to, old |-> NoKey, key |-> key]

Send(s, user, anchor) ==
  /\ Begin(s)
  /\ \E to \in Recipients(user, anchor) :
       Goes(s, "message", "insert", Envelope(user, anchor, to, NoKey))
  /\ UNCHANGED messageVars

(* An image is stored before anything about the thread is known.           *)
SendAttachment(s, user, anchor) ==
  /\ Begin(s)
  /\ Goes(s, "attachment", "put", Envelope(user, anchor, user, NoKey))
  /\ UNCHANGED messageVars

(* Nobody to send it to: the object is removed again.                      *)
Refuse(s) == Goes(s, "attachment", "discard", [Kept(s) EXCEPT !.old = Kept(s).key])

ResolveAttachment(s) ==
  /\ Continue(s, "attachment", "row")
  /\ LET R == Recipients(Kept(s).from, Kept(s).anchor)
     IN  \/ R = {} /\ Refuse(s)
         \/ \E to \in R : Goes(s, "attachment", "insert", [Kept(s) EXCEPT !.to = to])
  /\ UNCHANGED messageVars

(* The message, its attachment and its notice: one transaction.            *)
InsertMessage(s) ==
  /\ \E route \in {"message", "attachment"} : Continue(s, route, "insert")
  /\ Done(s)
  /\ LET m == Kept(s)
     IN  /\ messages' = Append(messages, [anchor |-> m.anchor, from |-> m.from, to |-> m.to,
                                          key |-> m.key, read |-> FALSE, shown |-> FALSE])
         /\ notices' = Append(notices, [to |-> m.to, read |-> FALSE])
  /\ UNCHANGED <<request, reports, favourite>>

(* Reading a thread is a SELECT of the page the caller asks for, and an    *)
(* UPDATE of every inbound message of the thread that is there by then,    *)
(* on that page or not.                                                    *)
ReadThread(s, user, anchor, n, limit) ==
  /\ Begin(s)
  /\ Goes(s, "thread", "stamp",
          [user |-> user, anchor |-> anchor, page |-> Page(Thread(user, anchor), n, limit)])
  /\ UNCHANGED messageVars

(* Faulty: the anchor is missing from the WHERE.                           *)
FaultyStamped(user, anchor) == {i \in DOMAIN messages : messages[i].to = user}

(* Which messages the UPDATE of a thread stamps.                           *)
Stamped(user, anchor) == {i \in Thread(user, anchor) : messages[i].to = user}

(* shown is no column: whether the recipient was ever answered with it.    *)
StampRead(s) ==
  /\ Continue(s, "thread", "stamp") /\ Done(s)
  /\ LET k == Kept(s)
     IN  messages' = [i \in DOMAIN messages |->
           [messages[i] EXCEPT
              !.read  = @ \/ i \in Stamped(k.user, k.anchor),
              !.shown = @ \/ (i \in k.page /\ messages[i].to = k.user)]]
  /\ UNCHANGED <<request, notices, reports, favourite>>

(* NotificationsService.markRead: the caller's own, named or all.          *)
MarkRead(s, user, ids) ==
  /\ Begin(s)
  /\ notices' = [i \in DOMAIN notices |->
                   IF notices[i].to = user /\ i \in ids
                   THEN [notices[i] EXCEPT !.read = TRUE] ELSE notices[i]]
  /\ UNCHANGED <<handler, request, messages, reports, favourite>>

TargetExists(user, target) ==
  CASE target = "provider" -> Open
    [] target = "listing"  -> \E v \in Listing : listing[v].exists /\ ~listing[v].deleted
    [] target = "message"  -> \E anchor \in Anchor : Thread(user, anchor) # {}

(* The target and a report of the same target are looked for first; the    *)
(* unique index has the last word.                                         *)
Report(s, user, target) ==
  /\ Begin(s)
  /\ TargetExists(user, target) /\ <<user, target>> \notin reports
  /\ Goes(s, "report", "insert", <<user, target>>)
  /\ UNCHANGED messageVars

InsertReport(s) ==
  /\ Continue(s, "report", "insert") /\ Done(s)
  /\ reports' = reports \cup {Kept(s)}
  /\ UNCHANGED <<request, messages, notices, favourite>>

AddFavourite(s) ==
  /\ Begin(s) /\ Open
  /\ Goes(s, "favourite", "upsert", <<>>)
  /\ UNCHANGED messageVars

UpsertFavourite(s) ==
  /\ Continue(s, "favourite", "upsert") /\ Done(s)
  /\ favourite' = TRUE
  /\ UNCHANGED <<request, messages, notices, reports>>

RemoveFavourite(s) ==
  /\ Begin(s)
  /\ favourite' = FALSE
  /\ UNCHANGED <<handler, request, messages, notices, reports>>
=============================================================================
