------------------------------- MODULE DemoTraffic -------------------------------
(***************************************************************************)
(* scripts/gui_demo_traffic.py: another tester on the bus of the simulator, *)
(* which reads at a human pace while somebody watches the page.             *)
(***************************************************************************)
EXTENDS Acceptance, Reports

(* Tester: the address each socket sends on, and the one the answer is read from. *)
Sockets ==
    [functional |-> [sends |-> \h7DF, reads |-> \h7E8],
     e0         |-> [sends |-> \h7E0, reads |-> \h7E8],
     e1         |-> [sends |-> \h7E1, reads |-> \h7E9]]

(* Mutant of Cycle: the codes are cleared on the way. *)
CycleClears == <<<<"functional", <<3>>>>, <<"functional", <<4>>>>>>

(* CYCLE. *)
Cycle == <<
    <<"functional", <<1, 0>>>>, <<"functional", <<1, \h0C>>>>, <<"functional", <<1, \h0D>>>>,
    <<"functional", <<1, 5>>>>, <<"functional", <<1, 4>>>>, <<"e0", <<\h22, \hF1, \h90>>>>,
    <<"functional", <<1, \h11>>>>, <<"functional", <<1, \h2F>>>>, <<"functional", <<3>>>>,
    <<"functional", <<1, \h0F>>>>, <<"e0", <<\h19, 2, \hFF>>>>, <<"functional", <<1, \h0C>>>>,
    <<"functional", <<1, \h0D>>>>, <<"functional", <<7>>>>,
    <<"functional", <<9, 2>>>>, <<"e1", <<\h19, 2, \hFF>>>>, <<"functional", <<1, \h20>>>>,
    <<"functional", <<1, \h10>>>>>>

(* READ_SERVICES. *)
ReadServices == {1, 3, 7, 9, \h19, \h22}

(* Tester.exchange: what a request would be answered now, << >> standing for none *)
(* within the timeout; an answer is read if it comes on the socket's address.     *)
Exchanged(asked) ==
    LET b == CHOOSE c \in Bound : c.at.rx = Sockets[asked[1]].sends
        r == First(Resolved(b.at.rx, b.at.functional))
    IN  IF ReplyVia(b).at.tx = Sockets[asked[1]].reads THEN Reply(r, asked[2]) ELSE NoReply
-----------------------------------------------------------------------------
(* At every moment of the scenario the traffic only reads, and it sees what   *)
(* the script says it is there to show: an answer to every request on the      *)
(* socket that waits for it, but serviceNotSupported to 22 and silence to 07.  *)
TrafficOnlyReads ==
    Driven => \A i \in DOMAIN Cycle :
        LET request == Cycle[i][2]
            b == CHOOSE c \in Bound : c.at.rx = Sockets[Cycle[i][1]].sends
        IN  /\ AfterRequest(First(Resolved(b.at.rx, b.at.functional)), request) = stores
            /\ request[1] \in ReadServices
            /\ CASE request[1] = 7    -> Exchanged(Cycle[i]) = NoReply
                 [] request[1] = \h22 -> Exchanged(Cycle[i]) = Negative(\h22, NotSupported)
                 [] OTHER -> Exchanged(Cycle[i]) # NoReply /\ Exchanged(Cycle[i])[1] = PositiveSid(request[1])
=============================================================================
