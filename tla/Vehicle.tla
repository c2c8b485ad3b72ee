-------------------------------- MODULE Vehicle --------------------------------
(***************************************************************************)
(* vehicle/state.py, the vehicle section of config/schema.py, build_vehicle *)
(* of app.py and observe/availability.py: which signals a vehicle has,     *)
(* which of them a profile can set, and which have no source at all.       *)
(* A signal is a pair of a namespace and a field.                          *)
(***************************************************************************)
EXTENDS Integers, FiniteSets

Kinds == {"ice", "hev", "bev"}

(* CommonState, IceState, TractionBattery, EMotor, Charging: their fields and types. *)
Fields ==
    [vehicle  |-> [vin |-> "str", speed |-> "int", ambient_temp |-> "float", odometer |-> "int",
                   battery_voltage |-> "float", obd_standard |-> "int"],
     engine   |-> [rpm |-> "int", coolant_temp |-> "float", intake_temp |-> "float", engine_load |-> "float",
                   throttle |-> "float", maf |-> "float", map |-> "int", timing_advance |-> "float",
                   short_fuel_trim |-> "float", long_fuel_trim |-> "float", runtime |-> "int",
                   fuel_level |-> "int", fuel_type |-> "int"],
     battery  |-> [soc |-> "float", voltage |-> "float", current |-> "float", temp |-> "float"],
     motor    |-> [rpm |-> "int", torque |-> "float", temp |-> "float"],
     charging |-> [active |-> "bool", power |-> "float"]]

(* The powertrains' components(), after the common state. *)
Components(kind) ==
    {"vehicle"} \cup CASE kind = "ice" -> {"engine"}
                       [] kind = "hev" -> {"engine", "battery", "motor", "charging"}
                       [] kind = "bev" -> {"battery", "motor", "charging"}

Within(namespaces) == {<<n, f>> : n \in namespaces, f \in UNION {DOMAIN Fields[m] : m \in namespaces}}

(* signal_types and VehicleState.has: what a vehicle of this kind has. *)
Signals(kind) == {s \in Within(Components(kind)) : s[2] \in DOMAIN Fields[s[1]]}

TypeOf(signal) == Fields[signal[1]][signal[2]]

(* Profile.scenario_signals_exist_on_this_vehicle: what a generator may drive. *)
Numeric(kind) == {s \in Signals(kind) : TypeOf(s) \in {"int", "float"}}
-----------------------------------------------------------------------------
(* VehicleConfig, EngineConfig, BatteryConfig: plain fields, and two sections *)
(* that may be absent.                                                        *)
SchemaFields ==
    [vehicle |-> {"vin", "type", "speed", "ambient_temp", "battery_voltage", "obd_standard"},
     engine  |-> {"fuel_level", "fuel_type", "rpm", "coolant_temp", "intake_temp", "engine_load", "throttle",
                  "maf", "map", "timing_advance", "short_fuel_trim", "long_fuel_trim", "runtime"},
     battery |-> {"soc", "voltage", "temp"}]

(* VehicleConfig.components_match_the_vehicle_type, for the sections that are given. *)
SectionsMatch(kind, sections) ==
    /\ kind = "bev" => "engine" \notin sections
    /\ kind = "ice" => "battery" \notin sections

(* build_vehicle: what it copies from the profile, section by section.  The  *)
(* other signals keep the defaults of their classes.                         *)
CopiedFields ==
    [vehicle |-> {"vin", "speed", "ambient_temp", "battery_voltage", "obd_standard"},
     engine  |-> {"rpm", "coolant_temp", "intake_temp", "engine_load", "throttle", "maf", "map", "timing_advance",
                  "short_fuel_trim", "long_fuel_trim", "runtime", "fuel_level", "fuel_type"},
     battery |-> {"soc", "voltage", "temp"}]

Copied(kind, sections) ==
    LET given == {"vehicle"} \cup {n \in sections : <<n, kind>> \notin {<<"engine", "bev">>, <<"battery", "ice">>}}
    IN  {s \in Within(given) : s[2] \in CopiedFields[s[1]]}

(* Mutant of Settable: the fields of the state instead of those of the schema. *)
SettableByState(paths) == {s \in paths : s[1] \in DOMAIN SchemaFields}

(* availability.settable, over the schema's model. *)
Settable(paths) ==
    {s \in paths : s[1] \in DOMAIN SchemaFields /\ s[2] \in SchemaFields[s[1]]}

(* availability.unavailable: neither the schema nor the scenario can set it. *)
Unavailable(kind, driven) == (Signals(kind) \ Settable(Signals(kind))) \ driven
-----------------------------------------------------------------------------
(* The page calls a signal unavailable exactly when no profile of this kind   *)
(* could have given it a value: the sections that the schema accepts, all of *)
(* them together, are copied by build_vehicle, and the list is what is left. *)
(* The two sides read different things, the schema's fields and the builder. *)
AvailabilityMatchesBuilder(kind) ==
    LET accepted == {s \in SUBSET {"engine", "battery"} : SectionsMatch(kind, s)}
        most == UNION {Copied(kind, sections) : sections \in accepted}
    IN  /\ most \subseteq Signals(kind)
        /\ \A driven \in {{}, {<<"vehicle", "odometer">>}, {<<"motor", "rpm">>, <<"vehicle", "speed">>}} :
            Unavailable(kind, driven) = Signals(kind) \ (most \cup driven)
=============================================================================
