----------------------------- MODULE MCAccounts -----------------------------
(* Instances of Accounts for TLC. *)
EXTENDS Accounts, TLC

CONSTANTS s1, s2

Google == {1, 2}

Overlap(member, requests1, n1, requests2, n2) ==
  [member |-> member, routes |-> (s1 :> requests1) @@ (s2 :> requests2),
   calls |-> (s1 :> n1) @@ (s2 :> n2), serial |-> FALSE, restarts |-> 0]

Serial(requests, n) ==
  [Overlap(TRUE, requests, n, {}, 0) EXCEPT !.serial = TRUE, !.restarts = 1]

Everything ==
  {Overlap(TRUE, {"login", "refresh", "logout"}, 3, {"refresh", "suspend", "reinstate"}, 3),
   Overlap(TRUE, {"request_reset", "verify", "login"}, 4, {"verify", "reset", "refresh"}, 4),
   Overlap(TRUE, {"send", "confirm"}, 4, {"confirm", "google"}, 3),
   Overlap(TRUE, {"send", "request_reset"}, 2, {"send", "request_reset", "confirm", "verify"}, 4),
   Overlap(FALSE, {"register", "google", "login"}, 3, {"register", "google"}, 2),
   Serial({"login", "refresh", "logout", "google", "suspend", "reinstate"}, 5),
   Serial({"login", "request_reset", "verify", "reset", "suspend"}, 6),
   Serial({"send", "confirm", "google"}, 5)}
=============================================================================
