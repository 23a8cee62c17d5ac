--------------------------- MODULE MCMarketplace ---------------------------
(* Instances of Marketplace for TLC. *)
EXTENDS Marketplace, TLC

CONSTANTS s1, s2, v1, c1, c2, c3, c4

Row(parent) == [exists |-> TRUE, active |-> TRUE, parent |-> parent]

Flat  == (c1 :> Row(NoCategory)) @@ [c \in Category |-> NoRow]
Two   == (c1 :> Row(NoCategory)) @@ (c2 :> Row(NoCategory)) @@ [c \in Category |-> NoRow]
Short == (c1 :> Row(NoCategory)) @@ (c2 :> Row(c1)) @@ (c3 :> Row(c2)) @@ (c4 :> NoRow)
Chain == (c1 :> Row(NoCategory)) @@ (c2 :> Row(c1)) @@ (c3 :> Row(c2)) @@ (c4 :> Row(c3))

Case(requests1, n1, requests2, n2) ==
  [profile |-> TRUE, listed |-> {v1}, tree |-> Flat, shelf |-> c1,
   routes |-> (s1 :> requests1) @@ (s2 :> requests2), calls |-> (s1 :> n1) @@ (s2 :> n2),
   pages |-> {1}, serial |-> FALSE, faults |-> 0, restarts |-> 0]

Cut(case)     == [case EXCEPT !.faults = 1, !.restarts = 1]
OneByOne(case) == [case EXCEPT !.serial = TRUE]

Files ==
  {Cut(Case({"provider_image", "document"}, 2, {"provider_image", "service_image"}, 2)),
   Case({"provider_image", "document", "attachment"}, 2, {"attachment", "service_image"}, 1),
   Cut(Case({"attachment", "message"}, 2, {"attachment"}, 1))}

Profiles ==
  {[Case({"create_profile", "update_profile", "set_week"}, 3, {"create_profile", "set_week"}, 3)
      EXCEPT !.profile = FALSE, !.listed = {}],
   Case({"add_work", "remove_work"}, 4, {"add_work"}, 2)}

Listings ==
  {Cut(Case({"update_listing", "remove_listing"}, 3, {"moderate", "close_profile"}, 3)),
   [Case({"create_listing", "update_listing"}, 3, {"moderate", "suspend", "reinstate"}, 3)
      EXCEPT !.listed = {}],
   Case({"document", "update_listing"}, 2, {"review_document", "verify"}, 3)}

(* Two administrators on one listing.                                      *)
Admins == {Case({"moderate"}, 1, {"moderate"}, 1)}

Trees ==
  {[Case({"move_category"}, 2, {"move_category"}, 1) EXCEPT !.tree = Chain, !.listed = {}],
   [Case({"move_category"}, 2, {"remove_category", "create_category"}, 2) EXCEPT !.tree = Short],
   [Case({"remove_category", "show_category"}, 2, {"create_listing", "create_category", "moderate"}, 3)
      EXCEPT !.tree = Two, !.listed = {}]}

Talk ==
  {OneByOne(Case({"message", "thread"}, 5, {}, 0)),
   [Case({"message", "thread", "mark_read"}, 2, {"message", "thread"}, 2) EXCEPT !.pages = {1, 2}],
   Case({"report", "message"}, 2, {"report", "favourite", "unfavourite", "close_profile"}, 2)}

Everything == Files \cup Profiles \cup Listings \cup Admins \cup Trees \cup Talk
=============================================================================
