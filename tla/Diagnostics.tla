------------------------------ MODULE Diagnostics ------------------------------
(***************************************************************************)
(* From a profile to an answered request: main of cli.py and run of app.py *)
(* up to the start of the server, with ecu/router.py, ecu/dispatcher.py and *)
(* ecu/ecu.py; then the requests that the transport delivers, the trouble  *)
(* codes they clear and those that the scenario changes meanwhile.  When   *)
(* the scenario does so is Scenario's subject, how requests arrive and     *)
(* replies leave is Transport's.                                           *)
(***************************************************************************)
EXTENDS Uds, Obd, Profile

CONSTANTS
    Profiles,       \* the profiles considered
    Payloads,       \* the payloads of requests
    Values,         \* kind -> signal -> the value that the profile gives it, a whole number
    Vin,            \* the bytes of the VIN
    LateRoutes,     \* routes that code which embeds the simulator may add later
    Questions       \* the UDS payloads that SuppressionRule is evaluated for

ASSUME DiagnosticsAssumption ==
    /\ Profiles \subseteq ProfileModel
    /\ Payloads \subseteq Seq(0..255)
    /\ \A kind \in Kinds : Values[kind] \in [Signals(kind) -> Int]
    /\ Vin \in Seq(0..255)
    /\ LateRoutes \subseteq [address : 0..CanSffMax, functional : BOOLEAN, ecu : Name,
                             protocols : SUBSET Protocols, answers : BOOLEAN]
    /\ Questions \subseteq {p \in Seq(0..255) : p # << >> /\ p[1] \in UdsSids}

VARIABLES
    profile,    \* the profile of the command line
    phase,      \* how far the start is, or how it ended
    endpoints,  \* what build_endpoints makes of it, in order
    next,       \* the endpoint whose route build_router adds next
    table,      \* AddressRouter: the set of its routes, physical and functional
    stores,     \* ECU -> its DtcStore
    values,     \* VehicleState: signal -> its value
    exchange    \* the last request since the scenario's last event, with what was made of it

vars == <<profile, phase, endpoints, next, table, stores, values, exchange>>

(* "refused" and "exit2" are exit status 2, the first with a ConfigError; *)
(* "raised" is an exception that leaves main.                             *)
Phases == {"file", "building", "routing", "serving", "refused", "raised", "exit2"}

Nobody == << >>
NoExchange == [at |-> Nobody, ecu |-> Nobody, payload |-> << >>, reply |-> NoReply, outcome |-> "none"]

TypeOK ==
    /\ profile \in ProfileModel
    /\ phase \in Phases
    /\ Range(endpoints) \subseteq Range(Bindings(profile))
    /\ next \in 1..Len(endpoints) + 1
    /\ \A r \in table : /\ r.address \in 0..CanSffMax /\ {r.functional, r.answers} \subseteq BOOLEAN
                        /\ r.ecu \in Keys(profile) /\ r.protocols \in (SUBSET Protocols) \ {{}}
    /\ DOMAIN stores \subseteq Keys(profile)
    /\ \A e \in DOMAIN stores : \A s \in Range(stores[e]) : s.flags \subseteq Flags
    /\ DOMAIN values \in {{}, Signals(profile.kind)}
    /\ exchange.ecu \in Keys(profile) \cup {Nobody}
    /\ exchange.outcome \in {"none", "unrouted", "raised", "handled"}

Init ==
    /\ profile \in Profiles
    /\ phase = "file"
    /\ endpoints = << >>
    /\ next = 1
    /\ table = {}
    /\ stores = [e \in {} |-> << >>]
    /\ values = [s \in {} |-> 0]
    /\ exchange = NoExchange
-----------------------------------------------------------------------------
(* load_profile: a ConfigError, or a profile; then run builds its endpoints. *)
Load ==
    /\ phase = "file"
    /\ phase' = IF Accepted(profile) THEN "building" ELSE "refused"
    /\ endpoints' = IF Accepted(profile) THEN Bindings(profile) ELSE << >>
    /\ UNCHANGED <<profile, next, table, stores, values, exchange>>

(* build_vehicle, then build_ecus: an ECU refuses an empty name. *)
BuildEcus ==
    /\ phase = "building"
    /\ values' = Values[profile.kind]
    /\ IF Empty \in Keys(profile)
       THEN /\ phase' = "raised"
            /\ UNCHANGED stores
       ELSE /\ phase' = "routing"
            /\ stores' = [e \in Keys(profile) |-> Store(profile, e)]
    /\ UNCHANGED <<profile, endpoints, next, table, exchange>>

(* build_ecus: the protocols registered on an ECU are those of its endpoints. *)
Served(ecu) == UNION {b.at.protocols : b \in {c \in Range(endpoints) : c.ecu = ecu}}

Route(b) ==
    [address |-> b.at.rx, functional |-> b.at.functional, ecu |-> b.ecu,
     protocols |-> b.at.protocols, answers |-> Answers(b.at)]

(* Mutant of Conflict: a route of the other kind is not looked for. *)
ConflictSameKind(r) ==
    \E q \in table : /\ q.address = r.address /\ q.functional = r.functional
                     /\ q # r /\ (~r.functional \/ q.ecu = r.ecu)

(* add_physical, add_functional: RouteConflictError. *)
Conflict(r) ==
    \E q \in table : /\ q.address = r.address
                     /\ \/ q.functional # r.functional
                        \/ q # r /\ (~r.functional \/ q.ecu = r.ecu)

(* build_router, one endpoint.  A route that is there already changes nothing. *)
AddRoute ==
    /\ phase = "routing" /\ next <= Len(endpoints)
    /\ LET r == Route(endpoints[next]) IN
           IF Conflict(r)
           THEN /\ phase' = "raised"
                /\ UNCHANGED <<table, next>>
           ELSE /\ table' = table \cup {r}
                /\ next' = next + 1
                /\ UNCHANGED phase
    /\ UNCHANGED <<profile, endpoints, stores, values, exchange>>

(* AddressRouter.resolve. *)
Resolved(address, functional) == {r \in table : r.address = address /\ r.functional = functional}

(* _reject_fan_out. *)
FanOut(routes) == Cardinality(routes) > 1

(* AddressRouter.ecu_names. *)
RoutedEcus == {r.ecu : r \in table}

(* Dispatcher.__init__ raises: an ECU, or a protocol of one, that is not there, *)
(* or a functional address of several ECUs.                                      *)
DispatcherRaises ==
    \/ ~(RoutedEcus \subseteq Keys(profile))
    \/ \E r \in table : ~(r.protocols \subseteq Served(r.ecu))
    \/ \E r \in table : FanOut(Resolved(r.address, TRUE))

(* check_routes raises: for each address the last endpoint counts. *)
CheckRoutesRaises ==
    LET at(a)     == {i \in DOMAIN endpoints : endpoints[i].at.rx = a}
        listens   == {b.at.rx : b \in Range(endpoints)}
        listening == [a \in listens |-> endpoints[Max(at(a))].at.functional]
        routed    == {r.address : r \in table}
        kind(a)   == Resolved(a, TRUE) # {}
    IN  listens # routed \/ \E a \in listens : kind(a) # listening[a]

(* build_runtime ends, check_routes, and the transport is constructed. *)
Assemble ==
    /\ phase = "routing" /\ next > Len(endpoints)
    /\ phase' = IF DispatcherRaises \/ CheckRoutesRaises THEN "raised"
                ELSE IF TransportAccepts(endpoints) THEN "serving" ELSE "exit2"
    /\ UNCHANGED <<profile, endpoints, next, table, stores, values, exchange>>
-----------------------------------------------------------------------------
(* Ecu.register: which protocol owns the service identifier on this ECU. *)
Owner(ecu, sid) ==
    CASE sid \in ObdSids /\ "obd" \in Served(ecu) -> "obd"
      [] sid \in UdsSids /\ "uds" \in Served(ecu) -> "uds"
      [] OTHER -> "nobody"

(* Route.permits. *)
Permits(route, protocol) == protocol \in route.protocols

(* Mutant of Eligible: what the ECU serves, it serves at any of its addresses. *)
EligibleAnywhere(route, p) == Owner(route.ecu, p[1]) # "nobody"

(* Ecu._eligible_protocol. *)
Eligible(route, p) == Permits(route, Owner(route.ecu, p[1]))

(* Ecu._unserved_on_this_route: the route decides. *)
Unserved(route, p) == IF route.answers THEN Negative(p[1], NotSupported) ELSE NoReply

(* Ecu._handle.  The name that Mode 09 reports is not told apart from the VIN. *)
Reply(route, p) ==
    IF p = << >> THEN NoReply
    ELSE IF ~Eligible(route, p) THEN Unserved(route, p)
    ELSE IF Owner(route.ecu, p[1]) = "uds" THEN UdsReply(p, stores[route.ecu])
    ELSE ObdReply(p, stores[route.ecu], profile.kind, values, Vin, Vin)

ClearsCodes(route, p) ==
    /\ p # << >> /\ Eligible(route, p)
    /\ IF Owner(route.ecu, p[1]) = "uds" THEN Clears(Masked(p)) ELSE ObdClears(p)

(* Mutant of AfterRequest: the clear reaches every ECU. *)
AfterRequestAll(route, p) ==
    [e \in DOMAIN stores |-> IF ClearsCodes(route, p) THEN Cleared(stores[e]) ELSE stores[e]]

(* Ecu._handle, the state it leaves. *)
AfterRequest(route, p) ==
    [e \in DOMAIN stores |-> IF e = route.ecu /\ ClearsCodes(route, p) THEN Cleared(stores[e]) ELSE stores[e]]

(* Dispatcher.__call__, for a request that the socket of one endpoint received: *)
(* without a route it is dropped, with several it raises, the transport's       *)
(* callback goes on, and nothing is sent.                                        *)
Request(b, p) ==
    /\ phase = "serving"
    /\ LET routes == Resolved(b.at.rx, b.at.functional) IN
           IF routes = {} \/ FanOut(routes)
           THEN /\ exchange' = [NoExchange EXCEPT !.at = b.name, !.payload = p,
                                                  !.outcome = IF routes = {} THEN "unrouted" ELSE "raised"]
                /\ UNCHANGED stores
           ELSE \E r \in routes :
                /\ exchange' = [at |-> b.name, ecu |-> r.ecu, payload |-> p, reply |-> Reply(r, p),
                                outcome |-> "handled"]
                /\ stores' = AfterRequest(r, p)
    /\ UNCHANGED <<profile, phase, endpoints, next, table, values>>

(* ScenarioRunner._apply_event. *)
AfterEvent(store, event) ==
    CASE event.action = "clear_all"         -> Cleared(store)
      [] event.action = "clear_code"        -> ClearedCode(store, event.code)
      [] event.action = "raise_pending"     -> Raised(store, event.code, "pending")
      [] event.action = "raise_confirmed"   -> Raised(store, event.code, "confirmed")
      [] event.action = "request_indicator" -> Raised(store, event.code, "indicator_requested")

(* The scenario applies an event of the profile. *)
ScenarioEvent(e, event) ==
    /\ phase = "serving"
    /\ stores' = [stores EXCEPT ![e] = AfterEvent(@, event)]
    /\ exchange' = NoExchange
    /\ UNCHANGED <<profile, phase, endpoints, next, table, values>>

(* Mutant of RouteOK: a route without protocols is taken. *)
RouteOKEmpty(r) == r.ecu \notin {Nobody, Empty}

(* _make_route: ValueError. *)
RouteOK(r) == r.ecu \notin {Nobody, Empty} /\ r.protocols # {}

(* The router is a live object: it takes routes after the start, unless they conflict. *)
LateRoute(r) ==
    /\ phase = "serving" /\ r.ecu \in Keys(profile) /\ RouteOK(r) /\ ~Conflict(r)
    /\ table' = table \cup {r}
    /\ UNCHANGED <<profile, phase, endpoints, next, stores, values, exchange>>

Startup == Load \/ BuildEcus \/ AddRoute \/ Assemble

Traffic ==
    \/ \E b \in Range(endpoints), p \in Payloads : Request(b, p)
    \/ \E e \in DOMAIN stores : \E event \in Range(EcuOf(profile, e).events) : ScenarioEvent(e, event)
    \/ \E r \in LateRoutes : LateRoute(r)

Next == Startup \/ Traffic

Spec == Init /\ [][Next]_vars
-----------------------------------------------------------------------------
(* The start ends with an exception exactly for the profiles that are        *)
(* ambiguous although the schema accepts them: an ECU without a name, or two *)
(* endpoints on one address that stand for different routes, be it another   *)
(* kind, another ECU, other protocols or another policy.  It does not depend *)
(* on the order of the file.  The simulator serves exactly the others whose  *)
(* endpoints have names and address pairs of their own.                      *)
Bound == Range(endpoints)

(* snapshots.ecus: the endpoints it lists under an ECU, by the prefix of their names. *)
Listed(key) == {b \in Bound : Len(b.name) > Len(key) /\ IsPrefix(key, b.name)}

Ambiguous ==
    \/ Empty \in Keys(profile)
    \/ \E b, c \in Bound : b.at.rx = c.at.rx /\ Route(b) # Route(c)

StartsIffUnambiguous ==
    /\ phase = "refused" => ~Accepted(profile)
    /\ phase = "raised"  => Accepted(profile) /\ Ambiguous
    /\ phase = "exit2"   => Accepted(profile) /\ ~Ambiguous /\ ~TransportAccepts(endpoints)
    /\ phase = "serving" => Accepted(profile) /\ ~Ambiguous /\ TransportAccepts(endpoints)

(* What the sockets, the router and GET /ecus say of the endpoints agrees:   *)
(* each endpoint has its route, each route has an endpoint or was added      *)
(* later, and an ECU lists its endpoints; beside them it lists only those of *)
(* an ECU whose key continues its own after a dot, or whose key its own      *)
(* continues, as the names of that ECU's endpoints may.                      *)
EndpointsAgree ==
    phase = "serving" =>
        /\ \A b \in Bound : Route(b) \in table
        /\ table \ LateRoutes \subseteq {Route(b) : b \in Bound}
        /\ \A key \in Keys(profile) :
            /\ {b \in Bound : b.ecu = key} \subseteq Listed(key)
            /\ \A b \in Listed(key) : b.ecu # key => IsPrefix(key, b.ecu) \/ IsPrefix(b.ecu, key)

(* With the types, what was started fits together. *)
DiagnosticsInv == TypeOK /\ EndpointsAgree

(* A request is answered by the ECU of the endpoint it arrived at, and by a  *)
(* protocol that this endpoint enables; for the rest the endpoint's policy   *)
(* decides between silence and serviceNotSupported.  An address that became  *)
(* ambiguous after the start answers nothing at all.                         *)
AnsweredByItsEndpoint ==
    exchange.outcome = "handled" /\ exchange.payload # << >> =>
        \E b \in Bound :
            LET sid == exchange.payload[1]
                enabled == \/ sid \in ObdSids /\ "obd" \in b.at.protocols
                           \/ sid \in UdsSids /\ "uds" \in b.at.protocols
            IN  /\ b.name = exchange.at /\ b.ecu = exchange.ecu
                /\ ~enabled => exchange.reply = IF Answers(b.at) THEN Negative(sid, NotSupported) ELSE NoReply
                /\ exchange.reply = Negative(sid, NotSupported) => ~enabled

(* A request changes trouble codes only if it is answered with 44 or 54, and *)
(* such an answer means that every flag of that ECU is reset, and no other   *)
(* ECU's: not one that is refused, suppressed, ambiguous or not routed.      *)
ClearedIffAcknowledged ==
    [][exchange'.outcome # "none" =>
           LET acknowledged == exchange'.reply \in {<<PositiveSid(ClearDtcs)>>, <<PositiveSid(ClearInformation)>>}
           IN  /\ \A e \in DOMAIN stores : e # exchange'.ecu \/ ~acknowledged => stores'[e] = stores[e]
               /\ acknowledged => \A s \in Range(stores'[exchange'.ecu]) : s.flags = {}]_vars

(* Bit 7 of a sub-function withholds a positive response and nothing else: a *)
(* refusal is the same with and without it, and where a service has no       *)
(* sub-function the bit is part of its data.                                 *)
SuppressedRightly(p, store) ==
    /\ Len(p) > 1 /\ p[2] >= 128 =>
        LET reply == UdsReply([p EXCEPT ![2] = @ - 128], store) IN
        IF p[1] = ClearInformation
        THEN UdsReply(p, store) = IF p = <<ClearInformation, 255, 255, 255>> THEN <<PositiveSid(p[1])>>
                                  ELSE Negative(p[1], IF Len(p) = 4 THEN OutOfRange ELSE BadLength)
        ELSE UdsReply(p, store) = IF reply[1] = NegativeSid THEN reply ELSE NoReply
    /\ Len(p) = 1 \/ p[2] < 128 => UdsReply(p, store) # NoReply

(* So it is for every ECU, with the trouble codes of its configuration. *)
SuppressionRule ==
    phase = "building" =>
        \A key \in Keys(profile) : \A p \in Questions : SuppressedRightly(p, Store(profile, key))

(* The two views of one store agree: Mode 03 lists the codes that UDS reads  *)
(* with the mask of confirmedDTC, in the same order, and a mask of several   *)
(* bits finds what its bits find; bits that are not available find nothing.  *)
ViewsAgree ==
    \A e \in DOMAIN stores :
        LET obd == Mode03(<<StoredDtcs>>, stores[e])
            uds(mask) == UdsReply(<<ReadInformation, 2, mask>>, stores[e])
            found(mask) == LET reply == uds(mask)
                           IN  {SubSeq(reply, 4 * i, 4 * i + 3) : i \in 1..(Len(reply) - 3) \div 4}
            byBit == [k \in 0..7 |-> found(2^k)]
        IN  /\ Len(obd) = 2 + 2 * obd[2] /\ Len(uds(8)) = 3 + 4 * obd[2]
            /\ \A i \in 1..obd[2] : SubSeq(obd, 2 * i + 1, 2 * i + 2) = SubSeq(uds(8), 4 * i, 4 * i + 1)
            /\ \A mask \in {AvailabilityMask, 12, 255} :
                found(mask) = UNION {byBit[k] : k \in {j \in 0..7 : Bit(mask, j)}}
            /\ found(255 - AvailabilityMask) = {}
=============================================================================
