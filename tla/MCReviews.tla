------------------------------ MODULE MCReviews ------------------------------
(* Instances of Reviews for TLC. *)
EXTENDS Reviews, TLC

CONSTANTS p1, b1, s1, s2

MCProviderOf == [b \in Booking |-> p1]

Ratings == {1, 5}

Author == {"author"}

Rerating == {"post", "rerate", "hide"}
Talking  == {"reword", "reply", "report", "resolve"}

(* Handlers that change what the rating counts run in one session only.    *)
OneRecomputes == (s1 :> (Rerating \cup {"takedown"})) @@ (s2 :> Talking)

(* Texts are interchangeable.                                              *)
Symmetry == Permutations(Text)

(* They run in both.                                                       *)
BothRecompute == [s \in Session |-> Rerating]
=============================================================================
