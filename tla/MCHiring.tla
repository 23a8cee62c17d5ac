------------------------------ MODULE MCHiring ------------------------------
(* Instances of Hiring for TLC. *)
EXTENDS Hiring, TLC

CONSTANTS r1, q1, q2, q3, p1, p2

(* Every quote is on the one request; p1 may quote it more than once.      *)
MCRequestOf == [q \in Quote |-> r1]
MCQuoterOf  == [q \in Quote |-> IF q = q2 THEN p2 ELSE p1]

OneAmount == {1}
Amounts   == {1, 2}

Everybody == {"customer", "admin", p1, p2}
OnlyCustomer == {"customer"}
Parties   == {"customer", p1, p2}

Requoting == AllRoutes \ {"record"}
Deal == {"quote", "revise", "accept"}

Keep      == [amount |-> NoAmount, withdraw |-> FALSE, renew |-> FALSE]
Withdraw  == [Keep EXCEPT !.withdraw = TRUE]
Renew     == [Keep EXCEPT !.renew = TRUE]
OnlyWithdraw == {Withdraw}
NoPrice   == {Withdraw, Renew}
AnyChange == {Withdraw, Renew} \cup { [Keep EXCEPT !.amount = a] : a \in Amount }

(* Sessions are interchangeable, and so are the quotes of p1.              *)
Symmetry == Permutations(Session) \cup Permutations(Quote \ {q2})
=============================================================================
