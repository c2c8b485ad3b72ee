-------------------------------- MODULE Profile --------------------------------
(***************************************************************************)
(* config/schema.py and config/loader.py, and the builders of app.py: which *)
(* profiles are accepted, and the endpoints and codes a profile stands for. *)
(* The ECUs of a profile are in the order of the file.  An address is a    *)
(* number.  The key of an ECU and the name of an endpoint are sequences of *)
(* segments, those between the dots, for endpoint_name joins the two with  *)
(* a dot.                                                                   *)
(***************************************************************************)
EXTENDS Naturals, Sequences, SequencesExt, FiniteSets, Vehicle, TroubleCodes

CanSffMax == 2047
MAX_DTCS == 255
Protocols == {"obd", "uds"}

(* The empty string, as a key or as a name. *)
Empty == <<"">>

NoVia == << >>
NoCode == << >>

(* The models of the schema, as the types of their fields say. *)
Name == Seq(STRING) \ {<< >>}
EndpointConfigModel ==
    [name : Name, rx : Nat, tx : Nat, functional : BOOLEAN, protocols : SUBSET STRING,
     answer : {"default", "yes", "no"}, via : Name \cup {NoVia}]
Code == Nat \X Nat \X Nat
DtcConfigModel == [code : Code, flags : SUBSET Flags]
DtcEvent ==
    [at : Nat, action : {"raise_pending", "raise_confirmed", "request_indicator", "clear_code", "clear_all"},
     code : Code \cup {NoCode}]
EcuConfig ==
    [key : Name, endpoints : Seq(EndpointConfigModel), dtcs : Seq(DtcConfigModel), events : Seq(DtcEvent)]
ProfileModel ==
    [kind : Kinds, sections : SUBSET STRING, driven : Seq(Seq(STRING)), ecus : Seq(EcuConfig)]

(* EndpointConfigModel, with its field constraints and both validators. *)
EndpointOK(e) ==
    /\ e.name # Empty
    /\ {e.rx, e.tx} \subseteq 0..CanSffMax
    /\ e.protocols # {} /\ e.protocols \subseteq Protocols
    /\ e.rx # e.tx

(* EndpointConfigModel.answers_unsupported. *)
Answers(e) == IF e.answer = "default" THEN ~e.functional ELSE e.answer = "yes"

(* DtcConfigModel: a bare code is pending and confirmed. *)
Bare(code) == [code |-> code, flags |-> {"pending", "confirmed"}]

(* Mutant of CodeOK: any digits are. *)
CodeOKAny(code) == TRUE

(* DtcConfigModel.code_is_encodable: a group and a type, in two bits each, and three *)
(* hexadecimal digits.                                                              *)
CodeOK(code) == code[1] \in 0..3 /\ code[2] \in 0..3 /\ code[3] \in 0..4095

(* Mutant of CodesFit: an ECU has as many codes as one likes. *)
CodesFitAnyNumber(dtcs) == TRUE

(* EcuConfig.dtcs: no more codes than the count of a Mode 03 reply can say. *)
CodesFit(dtcs) == Len(dtcs) <= MAX_DTCS

(* DtcEvent.the_action_and_the_code_agree: clear_all names no code, the others do. *)
EventOK(event) == event.action = "clear_all" <=> event.code = NoCode

(* EcuConfig: names and address pairs are unique, a reply_via names an endpoint, *)
(* codes are unique, and an event names a code that is configured.               *)
EcuOK(ecu) ==
    LET names == [i \in DOMAIN ecu.endpoints |-> ecu.endpoints[i].name]
        pairs == [i \in DOMAIN ecu.endpoints |-> <<ecu.endpoints[i].rx, ecu.endpoints[i].tx>>]
        codes == [i \in DOMAIN ecu.dtcs |-> ecu.dtcs[i].code]
    IN  /\ ecu.endpoints # << >>
        /\ \A e \in Range(ecu.endpoints) : EndpointOK(e) /\ e.via \in Range(names) \cup {NoVia}
        /\ IsInjective(names) /\ IsInjective(pairs)
        /\ CodesFit(ecu.dtcs) /\ IsInjective(codes) /\ \A code \in Range(codes) : CodeOK(code)
        /\ \A event \in Range(ecu.events) : EventOK(event) /\ event.code \in Range(codes) \cup {NoCode}

(* Profile.scenario_signals_exist_on_this_vehicle: each is driven once. *)
SignalsOK(p) == Range(p.driven) \subseteq Numeric(p.kind) /\ IsInjective(p.driven)

(* Profile.receive_addresses_are_unique_across_ecus: only two physical endpoints *)
(* are compared.                                                                 *)
AddressesOK(p) ==
    \A i, j \in DOMAIN p.ecus : \A e \in Range(p.ecus[i].endpoints), f \in Range(p.ecus[j].endpoints) :
        i # j /\ e.rx = f.rx => e.functional \/ f.functional

(* load_yaml refuses a key that occurs twice; parse_profile accepts the rest. *)
Accepted(p) ==
    /\ SectionsMatch(p.kind, p.sections)
    /\ p.ecus # << >> /\ \A i \in DOMAIN p.ecus : EcuOK(p.ecus[i])
    /\ IsInjective([i \in DOMAIN p.ecus |-> p.ecus[i].key])
    /\ SignalsOK(p)
    /\ AddressesOK(p)
-----------------------------------------------------------------------------
(* Mutant of EndpointName: the name of the profile, without its ECU. *)
EndpointNameBare(ecu, e) == e.name

(* app.endpoint_name. *)
EndpointName(ecu, e) == ecu.key \o e.name

(* build_endpoints, and the order in which build_router goes through them. *)
Bindings(p) ==
    FlattenSeq([i \in DOMAIN p.ecus |->
        [j \in DOMAIN p.ecus[i].endpoints |-> [ecu |-> p.ecus[i].key, at |-> p.ecus[i].endpoints[j],
                                               name |-> EndpointName(p.ecus[i], p.ecus[i].endpoints[j])]]])

(* IsoTpTransport.__init__: names and address pairs are unique on the bus. *)
TransportAccepts(endpoints) ==
    /\ IsInjective([i \in DOMAIN endpoints |-> endpoints[i].name])
    /\ IsInjective([i \in DOMAIN endpoints |-> <<endpoints[i].at.rx, endpoints[i].at.tx>>])

Keys(p) == {p.ecus[i].key : i \in DOMAIN p.ecus}

EcuOf(p, key) == CHOOSE ecu \in Range(p.ecus) : ecu.key = key

(* build_dtc_store: the configured codes, in order, with the flags they start in. *)
Store(p, key) == [i \in DOMAIN EcuOf(p, key).dtcs |-> EcuOf(p, key).dtcs[i]]
=============================================================================
