----------------------------- MODULE MCTransport -----------------------------
EXTENDS Transport

CONSTANTS physical, functional, other, silent

(* An ECU with a physical endpoint and a functional one that replies through *)
(* it, a second ECU, and an endpoint that only transmits.                     *)
FourEndpoints == <<physical, functional, other, silent>>

RepliesVia == [e \in {physical, functional, other, silent} |-> IF e = functional THEN physical ELSE e]

AllButSilent == {physical, functional, other}
=============================================================================
