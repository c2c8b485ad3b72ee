------------------------------ MODULE MCObserver ------------------------------
(* Observer on small instances: the sizes of exchanges and events. *)
EXTENDS Observer

SameSize  == [n \in Exchanges |-> 1]
MixedSize == [n \in Exchanges |-> 1 + (n % 2)]

AnyAfter   == {NoAfter} \cup 0..MaxIssued
FreshOnly  == {NoAfter}
=============================================================================
