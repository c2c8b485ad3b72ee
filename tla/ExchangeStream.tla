---------------------------- MODULE ExchangeStream ----------------------------
(***************************************************************************)
(* What WS /api/v1/events promises each client about exchanges             *)
(* (decisions/0010 section 4.5): each is delivered at most once and in seq *)
(* order, from where the client's history starts; and between the first    *)
(* and the last it has received it misses no more published exchanges than *)
(* its queue refused and counted.                                          *)
(***************************************************************************)
EXTENDS Integers, Sequences

CONSTANTS
    Clients,
    Exchanges  \* the sequence numbers there can be

VARIABLES
    log,     \* every exchange published, in order
    got,     \* the exchanges each client has received, in order
    refused  \* how many each client's queue has refused (client_dropped)

Init ==
    /\ log = << >>
    /\ got = [c \in Clients |-> << >>]
    /\ refused = [c \in Clients |-> 0]

Last(s) == s[Len(s)]

Publish ==
    /\ \E n \in Exchanges :
           /\ log = << >> \/ n > Last(log)
           /\ log' = Append(log, n)
    /\ \E over \in SUBSET Clients :
           refused' = [c \in Clients |-> refused[c] + (IF c \in over THEN 1 ELSE 0)]
    /\ UNCHANGED got

(* The published exchanges that a client with these deliveries was passed over. *)
Position(n) == CHOOSE k \in 1..Len(log) : log[k] = n
Missed(g)   == Position(Last(g)) - Position(g[1]) + 1 - Len(g)

Deliver(c) ==
    /\ \E k \in 1..Len(log) :
           /\ got[c] = << >> \/ log[k] > Last(got[c])
           /\ got' = [got EXCEPT ![c] = Append(@, log[k])]
    /\ Missed(got'[c]) <= refused[c]
    /\ UNCHANGED <<log, refused>>

Next == Publish \/ \E c \in Clients : Deliver(c)

Spec == Init /\ [][Next]_<<log, got, refused>>
=============================================================================
