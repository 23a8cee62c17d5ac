-------------------------------- MODULE Feed --------------------------------
(***************************************************************************)
(* The change feed: which resources a request announces, the coalescing    *)
(* window of ChangeFeedService, and the streams EventsController opens.    *)
(*                                                                         *)
(* The service keeps a window and a trailing timer per resource, and they  *)
(* do not touch each other; the model keeps those of the one resource the  *)
(* pages of this instance show, watched.  A path is the tuple of its       *)
(* segments after /api, ids left out.                                      *)
(***************************************************************************)
EXTENDS Naturals, Sequences

CONSTANT
  Page          \* pages that keep a stream open

VARIABLES
  watched,      \* the resource the pages show
  window,       \* its last emission is less than COALESCE_MS old
  trailing,     \* its trailing timer: "none", "set" or, once it has run out, "due"
  stream,       \* each page's connection: "none", "ticket" or "open"
  told,         \* pages that have an event, or a new stream, to answer with a fetch
  listeners,    \* the service's own count of open connections
  opens         \* bound: streams that may still be opened

feedVars == <<watched, window, trailing, stream, told, listeners, opens>>

-----------------------------------------------------------------------------
(* What a request announces                                                *)

Segments ==
  {"bookings", "categories", "disputes", "favorites", "messages",
   "notifications", "providers", "quotes", "reports", "requests", "reviews",
   "services", "settings", "users"}

ResourceBySegment == [s \in Segments |-> IF s = "favorites" THEN "providers" ELSE s]

Also ==
  [quotes   |-> {"requests", "bookings", "notifications"},
   requests |-> {"quotes", "notifications"},
   bookings |-> {"notifications", "messages"},
   messages |-> {"notifications"},
   reviews  |-> {"providers", "notifications"},
   disputes |-> {"bookings", "notifications"},
   reports  |-> {"notifications"}]

Verifying == {"verification", "providers", "notifications"}

AdminResource ==
  [providers    |-> Verifying,
   documents    |-> Verifying,
   verification |-> Verifying,
   users        |-> {"users", "notifications"},
   listings     |-> {"services"},
   services     |-> {"services"},
   reviews      |-> {"reviews", "providers"},
   reports      |-> {"reports", "notifications"},
   disputes     |-> {"disputes", "notifications"},
   categories   |-> {"categories"},
   settings     |-> {"settings"},
   bookings     |-> {"bookings"}]

At(table, key) == IF key \in DOMAIN table THEN table[key] ELSE {}

(* A path that is ignored, or not listed, announces nothing.               *)
ResourcesFor(path) ==
  IF Head(path) = "admin"
  THEN IF Len(path) > 1 THEN At(AdminResource, path[2]) ELSE {}
  ELSE IF Head(path) \in Segments
  THEN LET resource == ResourceBySegment[Head(path)]
       IN  {resource} \cup At(Also, resource)
  ELSE {}

-----------------------------------------------------------------------------
(* The coalescing window                                                   *)

Emit ==
  /\ window' = TRUE
  /\ told' = [p \in Page |-> told[p] \/ stream[p] = "open"]

(* Faulty: what happens inside the window is dropped.                      *)
FaultyPublish(resources) ==
  IF watched \notin resources \/ window
  THEN UNCHANGED <<window, trailing, told>>
  ELSE Emit /\ UNCHANGED trailing

(* Outside the window an event goes out at once; inside it, one timer is   *)
(* set for the whole burst.                                                *)
Publish(resources) ==
  IF watched \notin resources
  THEN UNCHANGED <<window, trailing, told>>
  ELSE \/ ~window /\ Emit /\ UNCHANGED trailing
       \/ /\ window
          /\ trailing' = IF trailing = "none" THEN "set" ELSE trailing
          /\ UNCHANGED <<window, told>>

(* COALESCE_MS have passed since the last emission.                        *)
WindowCloses ==
  /\ window
  /\ window' = FALSE
  /\ trailing' = IF trailing = "set" THEN "due" ELSE trailing
  /\ UNCHANGED <<watched, stream, told, listeners, opens>>

(* The timer emits whatever has happened since it was set.                 *)
TrailingFires ==
  /\ trailing = "due"
  /\ trailing' = "none"
  /\ Emit
  /\ UNCHANGED <<watched, stream, listeners, opens>>

-----------------------------------------------------------------------------
(* Streams                                                                 *)

(* POST /events/ticket.                                                    *)
Ticket(p) ==
  /\ stream[p] = "none" /\ opens > 0
  /\ stream' = [stream EXCEPT ![p] = "ticket"]
  /\ UNCHANGED <<watched, window, trailing, told, listeners, opens>>

(* Faulty: a connection is counted before its ticket is read.              *)
FaultyOpenStream(p) ==
  /\ stream[p] = "ticket"
  /\ listeners' = listeners + 1
  /\ \/ /\ opens > 0
        /\ stream' = [stream EXCEPT ![p] = "open"]
        /\ opens' = opens - 1
        /\ told' = [told EXCEPT ![p] = TRUE]
     \/ /\ stream' = [stream EXCEPT ![p] = "none"]
        /\ UNCHANGED <<told, opens>>
  /\ UNCHANGED <<watched, window, trailing>>

(* The ticket passes verifyTicket, or its sixty seconds are over and it    *)
(* does not.  A page that has its stream fetches what it shows.            *)
OpenStream(p) ==
  /\ stream[p] = "ticket"
  /\ \/ /\ opens > 0
        /\ stream' = [stream EXCEPT ![p] = "open"]
        /\ listeners' = listeners + 1
        /\ opens' = opens - 1
        /\ told' = [told EXCEPT ![p] = TRUE]
     \/ /\ stream' = [stream EXCEPT ![p] = "none"]
        /\ UNCHANGED <<told, listeners, opens>>
  /\ UNCHANGED <<watched, window, trailing>>

(* Faulty: the stream ends and the service is not told.                    *)
FaultyCloseStream(p) ==
  /\ stream[p] = "open"
  /\ stream' = [stream EXCEPT ![p] = "none"]
  /\ told' = [told EXCEPT ![p] = FALSE]
  /\ UNCHANGED <<watched, window, trailing, listeners, opens>>

(* The page goes away, or a proxy drops the connection: finalize.          *)
CloseStream(p) ==
  /\ stream[p] = "open"
  /\ stream' = [stream EXCEPT ![p] = "none"]
  /\ listeners' = IF listeners > 0 THEN listeners - 1 ELSE 0
  /\ told' = [told EXCEPT ![p] = FALSE]
  /\ UNCHANGED <<watched, window, trailing, opens>>

(* The feed is in the process: a restart forgets timers and connections.   *)
FeedRestarts ==
  /\ window' = FALSE
  /\ trailing' = "none"
  /\ stream' = [p \in Page |-> "none"]
  /\ told' = [p \in Page |-> FALSE]
  /\ listeners' = 0
  /\ UNCHANGED <<watched, opens>>

FeedInit ==
  /\ window = FALSE /\ trailing = "none"
  /\ stream = [p \in Page |-> "none"]
  /\ told = [p \in Page |-> FALSE]
  /\ listeners = 0
=============================================================================
