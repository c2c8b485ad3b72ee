--------------------------------- MODULE Places ---------------------------------
(***************************************************************************)
(* Picking entries out of a sequence by their places.                      *)
(***************************************************************************)
EXTENDS Naturals, FiniteSets

(* What is in these places of a sequence, in its order. *)
InOrder(seq, places) ==
    LET nth(n) == CHOOSE p \in places : Cardinality({q \in places : q <= p}) = n
    IN  [n \in 1..Cardinality(places) |-> seq[nth(n)]]
=============================================================================
