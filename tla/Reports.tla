--------------------------------- MODULE Reports ---------------------------------
(***************************************************************************)
(* observe/events.py and observe/snapshots.py: what the observer says of a *)
(* request, of the trouble codes and of the vehicle.  An exchange is       *)
(* reported after it was handled, when the publisher comes to it: the       *)
(* router may have taken routes in between.  Retained bytes, times and the  *)
(* wording are left out.                                                    *)
(***************************************************************************)
EXTENDS Diagnostics, Requests

(* Mutant of First: the newest route. *)
FirstNewest(routes) == CHOOSE r \in routes : Cardinality(routes) = 1 \/ r \in LateRoutes

(* The order of resolve: the routes of the profile are there before any other. *)
First(routes) ==
    LET configured == {Route(b) : b \in Bound}
    IN  CHOOSE r \in routes : r \in configured \/ routes \cap configured = {}

EndpointNamed(name) == CHOOSE b \in Bound : b.name = name

(* endpoints.get(endpoint.reply_via): build_endpoints has put the ECU before it. *)
ReplyVia(b) == IF b.at.via = NoVia THEN b ELSE EndpointNamed(b.ecu \o b.at.via)

(* classify. *)
Outcome(routes) ==
    CASE exchange.outcome = "raised" -> "error"
      [] exchange.outcome # "raised" /\ exchange.reply # NoReply -> "responded"
      [] exchange.outcome # "raised" /\ exchange.reply = NoReply ->
             IF routes = {} THEN "unrouted" ELSE "no_response"

(* OBD_SERVICES, UDS_SERVICES. *)
ObdServices == 1..10
UdsServices == {\h10, \h11, \h14, \h19, \h3E}

(* Mutant of RangeCovered: without the PID that continues the chain. *)
RangeCoveredShort(base) == base + 1..base + 31

(* summarise, the PIDs that a mask may list. *)
RangeCovered(base) == base + 1..Min({base + 32, 255})

(* summarise: the protocol it names, and the PIDs it mentions. *)
Summary(p) ==
    [protocol |-> CASE p = << >> -> "nobody"
                    [] p # << >> /\ p[1] \in ObdServices -> "obd"
                    [] p # << >> /\ p[1] \in UdsServices -> "uds"
                    [] OTHER -> "nobody",
     pids |-> IF Len(p) < 2 \/ p[1] # CurrentData THEN {}
              ELSE IF Len(p) = 2 /\ IsRange(p[2]) THEN RangeCovered(p[2])
              ELSE Range(Tail(p))]

(* encode_exchange, for the last request, as the router is now. *)
Report ==
    LET b == EndpointNamed(exchange.at)
        routes == Resolved(b.at.rx, b.at.functional)
    IN  [ecu |-> IF routes = {} THEN Nobody ELSE First(routes).ecu, outcome |-> Outcome(routes),
         endpoint |-> b.name, rx |-> b.at.rx, tx |-> ReplyVia(b).at.tx, summary |-> Summary(exchange.payload)]
-----------------------------------------------------------------------------
(* Mutant of IndicatorOn: only a confirmed code can ask for it. *)
IndicatorOnConfirmed(store) == \E s \in Range(store) : {"confirmed", "indicator_requested"} \subseteq s.flags

(* DtcStore.indicator_on. *)
IndicatorOn(store) == \E s \in Range(store) : "indicator_requested" \in s.flags

(* dtcs, of one ECU. *)
DtcSnapshot(e) == [codes |-> stores[e], mil |-> IndicatorOn(stores[e])]

(* A signal's value is a sequence, empty when the value is not finite. *)
NotFinite == << >>
Null == << >>

(* vehicle: a value that is not finite is sent as null, and listed unless the *)
(* signal has no source.                                                       *)
VehicleSnapshot(signals, unavailable) ==
    [signals |-> [s \in DOMAIN signals |-> IF signals[s] = NotFinite THEN Null ELSE signals[s]],
     unavailable |-> unavailable,
     nonfinite |-> {s \in DOMAIN signals : signals[s] = NotFinite} \ unavailable]
-----------------------------------------------------------------------------
(* What the log says of a request is what became of it, however late it is    *)
(* written: the ECU that handled it and not one whose route was added since,  *)
(* an answer if and only if one was sent, and sent by an endpoint of that     *)
(* ECU; an error only where the address was ambiguous; and the protocol it     *)
(* names is the one that answered.                                             *)
ReportedAsHandled ==
    exchange.outcome # "none" =>
        /\ Report.ecu # Nobody
        /\ \E b \in Bound : b.ecu = Report.ecu /\ b.at.tx = Report.tx
        /\ exchange.outcome = "handled" =>
            /\ Report.ecu = exchange.ecu
            /\ Report.outcome = (IF exchange.reply = NoReply THEN "no_response" ELSE "responded")
            /\ exchange.payload # << >> /\ exchange.reply # NoReply =>
                \/ Report.summary.protocol = Owner(exchange.ecu, exchange.payload[1])
                \/ exchange.reply = Negative(exchange.payload[1], NotSupported)
        /\ exchange.outcome = "raised" => Report.outcome = "error" /\ FanOut(Resolved(Report.rx, TRUE))

(* What GET /dtcs shows is what a tester reads: the confirmed codes are those *)
(* of Mode 03, in its order, and the lamp is on exactly when UDS finds a code *)
(* by the bit of warningIndicatorRequested.                                     *)
DtcsShown ==
    \A e \in DOMAIN stores :
        LET shown == DtcSnapshot(e)
            obd == Mode03(<<StoredDtcs>>, stores[e])
            confirmed == {i \in DOMAIN shown.codes : "confirmed" \in shown.codes[i].flags}
            rank(i) == Cardinality({j \in confirmed : j <= i})
        IN  /\ obd[2] = Cardinality(confirmed) /\ Len(obd) = 2 + 2 * Cardinality(confirmed)
            /\ \A i \in confirmed : SubSeq(obd, 2 * rank(i) + 1, 2 * rank(i) + 2) = CodeBytes(shown.codes[i].code)
            /\ shown.mil <=> Len(UdsReply(<<ReadInformation, 2, 128>>, stores[e])) > 3

(* Whatever is read, encoded or masked, a reply is made of bytes. *)
RepliesAreBytes == exchange.reply \in Seq(0..255)

(* The views of one store, the protocols' and the observer's, and the log; and *)
(* whoever may look at them can.                                               *)
ShownAsServed == RepliesAreBytes /\ ViewsAgree /\ DtcsShown /\ ReportedAsHandled /\ RequestsGuarded
=============================================================================
