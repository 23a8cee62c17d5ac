------------------------------- MODULE Tender -------------------------------
(***************************************************************************)
(* What hiring promises the two sides, without requests' statuses, reads,  *)
(* writes or transactions: providers stand by offers on a request, at most *)
(* one each; the customer awards the request once, to an offer that stands *)
(* at that moment and for the amount it states, and with that every other  *)
(* offer on the request is over and none is made again.                    *)
(***************************************************************************)
CONSTANTS Request, Quote, Provider, requestOf, quoterOf, Amount, NoAmount, NoAward

VARIABLES
  offer,        \* the amount a quote stands for, NoAmount if it does not stand
  award         \* per request, the quote it went to and the price

Stands(q) == offer[q] # NoAmount

Rivals(q) == { o \in Quote : requestOf[o] = requestOf[q] }

Init ==
  /\ offer = [q \in Quote |-> NoAmount]
  /\ award = [r \in Request |-> NoAward]

(* A provider makes an offer, or changes the amount of the one it has.     *)
Offer(q, a) ==
  /\ award[requestOf[q]] = NoAward
  /\ \A o \in Rivals(q) \ {q} : quoterOf[o] = quoterOf[q] => ~Stands(o)
  /\ offer' = [offer EXCEPT ![q] = a]
  /\ UNCHANGED award

(* The provider withdraws an offer or the customer turns it down.          *)
Drop(q) ==
  /\ Stands(q)
  /\ offer' = [offer EXCEPT ![q] = NoAmount]
  /\ UNCHANGED award

Award(q) ==
  /\ Stands(q)
  /\ award[requestOf[q]] = NoAward
  /\ award' = [award EXCEPT ![requestOf[q]] = [quote |-> q, price |-> offer[q]]]
  /\ offer' = [o \in Quote |-> IF o \in Rivals(q) THEN NoAmount ELSE offer[o]]

Next ==
  \E q \in Quote :
    \/ \E a \in Amount : Offer(q, a)
    \/ Drop(q)
    \/ Award(q)

Spec == Init /\ [][Next]_<<offer, award>>
=============================================================================
