----------------------------- MODULE MCFreshness -----------------------------
(* Instances of Freshness for TLC. *)
EXTENDS Freshness, TLC

CONSTANTS w1, w2

Case(resource, jobs1, jobs2) ==
  [watched |-> resource, jobs |-> (w1 :> jobs1) @@ (w2 :> jobs2),
   visits |-> {Listing}, opens |-> 0,
   warm |-> TRUE, outage |-> FALSE, restart |-> FALSE]

Profile == <<"providers">>
Review  == <<"reviews">>
Quote   == <<"quotes">>

Once     == Case("providers", <<Profile>>, <<>>)
InTurn   == Case("providers", <<Profile, Profile>>, <<>>)
Together == Case("providers", <<Profile>>, <<Profile>>)

(* Visitors alone, a page alone, and both.                                 *)
Orders ==
  {InTurn, Together, [Once EXCEPT !.opens = 1]} \cup
  {[c EXCEPT !.opens = 1, !.visits = {}] : c \in {InTurn, Together}}

Faults ==
  {[Once EXCEPT !.visits = {Detail}],                      \* a fill races the delete
   [Once EXCEPT !.outage = TRUE],
   [Once EXCEPT !.restart = TRUE],
   [Once EXCEPT !.warm = FALSE],                            \* the counter moves back
   [Case("providers", <<Review>>, <<>>) EXCEPT !.opens = 1, !.visits = {}]}

Uncached ==
  {[Case("bookings", <<Quote, <<"bookings">>>>, <<<<"disputes">>>>)
      EXCEPT !.restart = TRUE, !.opens = 2, !.visits = {}]}

EveryScenario == Orders \cup Faults \cup Uncached

(* A request is posted to /service-requests.                               *)
PostedRequest == {[Case("requests", <<<<"service-requests">>>>, <<>>) EXCEPT !.opens = 1]}
=============================================================================
