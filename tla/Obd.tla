---------------------------------- MODULE Obd ----------------------------------
(***************************************************************************)
(* protocols/obd: the modes 01, 03, 04 and 09, the parameter table with its *)
(* encoders, and the masks that advertise it.  Bytes are numbers.  A value *)
(* of a signal is a whole number of its unit, for which the floating-point *)
(* arithmetic of the encoders is exact up to its last truncation.          *)
(***************************************************************************)
EXTENDS Integers, TroubleCodes, FiniteSetsExt, Vehicle

ObdSids == 1..10
CurrentData == 1
StoredDtcs == 3
ClearDtcs == 4
VehicleInfo == 9

(* MODE01_DEFINITIONS: PID, the signal it reads, and its encoder. *)
Definitions == {
    [pid |-> \h04, signal |-> <<"engine", "engine_load">>,      by |-> "percent"],
    [pid |-> \h05, signal |-> <<"engine", "coolant_temp">>,     by |-> "temp"],
    [pid |-> \h06, signal |-> <<"engine", "short_fuel_trim">>,  by |-> "trim"],
    [pid |-> \h07, signal |-> <<"engine", "long_fuel_trim">>,   by |-> "trim"],
    [pid |-> \h0B, signal |-> <<"engine", "map">>,              by |-> "byte"],
    [pid |-> \h0C, signal |-> <<"engine", "rpm">>,              by |-> "quarter"],
    [pid |-> \h0D, signal |-> <<"vehicle", "speed">>,           by |-> "byte"],
    [pid |-> \h0E, signal |-> <<"engine", "timing_advance">>,   by |-> "timing"],
    [pid |-> \h0F, signal |-> <<"engine", "intake_temp">>,      by |-> "temp"],
    [pid |-> \h10, signal |-> <<"engine", "maf">>,              by |-> "hundredth"],
    [pid |-> \h11, signal |-> <<"engine", "throttle">>,         by |-> "percent"],
    [pid |-> \h1C, signal |-> <<"vehicle", "obd_standard">>,    by |-> "byte"],
    [pid |-> \h1F, signal |-> <<"engine", "runtime">>,          by |-> "word"],
    [pid |-> \h2F, signal |-> <<"engine", "fuel_level">>,       by |-> "percent"],
    [pid |-> \h42, signal |-> <<"vehicle", "battery_voltage">>, by |-> "thousandth"],
    [pid |-> \h46, signal |-> <<"vehicle", "ambient_temp">>,    by |-> "temp"],
    [pid |-> \h51, signal |-> <<"engine", "fuel_type">>,        by |-> "byte"]}

Words == {"quarter", "hundredth", "thousandth", "word"}
Top(by) == IF by \in Words THEN 65535 ELSE 255

(* Mutant of Clamped: the value is taken as it is. *)
Unclamped(by, n) == n

(* _byte and _word. *)
Clamped(by, n) == Max({0, Min({Top(by), n})})

(* Mutant of RawValue: the scales are swapped round. *)
RawValueInverse(by, value) ==
    Clamped(by, IF by = "percent" THEN (value * 100) \div 255 ELSE IF by = "timing" THEN value * 2 + 64 ELSE value)

(* The encoders and their helpers: truncated, then clamped to the field. *)
RawValue(by, value) ==
    Clamped(by,
        CASE by = "percent"    -> (value * 255) \div 100
          [] by = "temp"       -> value + 40
          [] by = "trim"       -> (value * 128 + 12800) \div 100
          [] by = "timing"     -> (value + 64) * 2
          [] by = "quarter"    -> value * 4
          [] by = "hundredth"  -> value * 100
          [] by = "thousandth" -> value * 1000
          [] by \in {"byte", "word"} -> value)

(* PidDefinition.read: as many bytes as the field has. *)
Encoded(d, values) ==
    LET n == RawValue(d.by, values[d.signal])
    IN  IF d.by \in Words THEN <<n \div 256, n % 256>> ELSE <<n>>

(* supported_pids, and ObdProtocol.definition. *)
Supported(kind) == {d \in Definitions : d.signal \in Signals(kind)}
Pids(kind) == {d.pid : d \in Supported(kind)}
-----------------------------------------------------------------------------
IsRange(pid) == pid % 32 = 0

(* has_supported_above. *)
Beyond(base, pids) == \E pid \in pids : pid > base + 32

(* Mutant of MaskSet: the continuation bit is always set, as before DEV-04. *)
MaskSetContinues(base, pids) == {pid \in pids : base < pid /\ pid < base + 32} \cup {base + 32}

(* supported_mask, as the set of the PIDs whose bit is set: a PID of the range, *)
(* and its end when there is anything beyond.                                   *)
MaskSet(base, pids) ==
    {pid \in pids : base < pid /\ pid < base + 32}
    \cup (IF base < 224 /\ Beyond(base, pids) THEN {base + 32} ELSE {})

(* The first PID of the range is the most significant bit of the first byte. *)
MaskByte(base, pids, k) ==
    LET bit(n) == IF base + 8 * k - n \in MaskSet(base, pids) THEN 1 ELSE 0
    IN  bit(0) + 2 * bit(1) + 4 * bit(2) + 8 * bit(3) + 16 * bit(4) + 32 * bit(5) + 64 * bit(6) + 128 * bit(7)

Mask(base, pids) == [k \in 1..4 |-> MaskByte(base, pids, k)]

(* is_advertised_range. *)
AdvertisedRange(base, pids) ==
    /\ IsRange(base) /\ base \in 0..224
    /\ \A earlier \in 0..base - 1 : IsRange(earlier) => Beyond(earlier, pids)
-----------------------------------------------------------------------------
(* Mutant of Requested: a repeated parameter is answered again. *)
RequestedRepeats(p) == SubSeq(p, 2, Min({7, Len(p)}))

(* _parameters_to_answer: six at most, each where it first occurs. *)
Requested(p) ==
    LET asked == SubSeq(p, 2, Min({7, Len(p)}))
    IN  InOrder(asked, {i \in DOMAIN asked : \A j \in 1..i - 1 : asked[j] # asked[i]})

(* _mode01_parameter: no bytes, or the identifier and its data. *)
Parameter(pid, kind, values) ==
    IF IsRange(pid)
    THEN IF AdvertisedRange(pid, Pids(kind)) THEN <<pid>> \o Mask(pid, Pids(kind)) ELSE << >>
    ELSE IF pid \in Pids(kind)
         THEN <<pid>> \o Encoded(CHOOSE d \in Supported(kind) : d.pid = pid, values) ELSE << >>

Mode01(p, kind, values) ==
    LET asked == Requested(p)
        body == FlattenSeq([i \in DOMAIN asked |-> Parameter(asked[i], kind, values)])
    IN  IF body = << >> THEN NoReply ELSE <<PositiveSid(CurrentData)>> \o body

(* ObdProtocol._prefix: one byte after the service identifier is echoed. *)
Echo(p) == <<PositiveSid(p[1])>> \o (IF Len(p) > 1 THEN <<p[2]>> ELSE << >>)

(* obd/dtc.encode: a count, and two bytes a code. *)
EncodedCodes(codes) ==
    IF Len(codes) \notin 1..255 THEN <<0>>
    ELSE <<Len(codes)>> \o FlattenSeq([i \in DOMAIN codes |-> CodeBytes(codes[i].code)])

Mode03(p, store) == Echo(p) \o EncodedCodes(Confirmed(store))

(* _vin and _ecu_name_field: cut to n bytes, padded with zeros on the left. *)
Field(bytes, n) == [i \in 1..n - Min({n, Len(bytes)}) |-> 0] \o SubSeq(bytes, 1, Min({n, Len(bytes)}))

InfoPids == {2, 10}

Mode09(p, vin, name) ==
    CASE Len(p) > 1 /\ IsRange(p[2]) /\ AdvertisedRange(p[2], InfoPids) -> Echo(p) \o Mask(p[2], InfoPids)
      [] Len(p) > 1 /\ p[2] = 2  -> Echo(p) \o <<1>> \o Field(vin, 17)
      [] Len(p) > 1 /\ p[2] = 10 -> Echo(p) \o Field(name, 20)
      [] OTHER -> NoReply

(* ObdProtocol.handle: DTCs are cleared whatever follows the mode. *)
ObdClears(p) == p[1] = ClearDtcs

ObdReply(p, store, kind, values, vin, name) ==
    CASE p[1] = CurrentData -> Mode01(p, kind, values)
      [] p[1] = ClearDtcs   -> <<PositiveSid(ClearDtcs)>>
      [] p[1] = StoredDtcs  -> Mode03(p, store)
      [] p[1] = VehicleInfo -> Mode09(p, vin, name)
      [] OTHER -> NoReply
=============================================================================
