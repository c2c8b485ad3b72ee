----------------------------- MODULE MCDiagnostics -----------------------------
(***************************************************************************)
(* Diagnostics for TLC: profiles with all combinations of two or three     *)
(* endpoints on two addresses, profiles with one mistake each, and two     *)
(* profiles with trouble codes and events; and what the protocols' pure    *)
(* functions compute, over bounded payloads.                               *)
(***************************************************************************)
EXTENDS DemoTraffic, FaultServer

Endpoint(name, rx, tx, functional, protocols, answer) ==
    [name |-> name, rx |-> rx, tx |-> tx, functional |-> functional, protocols |-> protocols,
     answer |-> answer, via |-> NoVia]

EcuWith(key, list, dtcs, events) == [key |-> key, endpoints |-> list, dtcs |-> dtcs, events |-> events]

Car(kind, ecus) == [kind |-> kind, sections |-> {}, driven |-> << >>, ecus |-> ecus]

P1 == Bare(<<0, 0, 291>>)
P2 == [code |-> <<3, 2, 3840>>, flags |-> {}]

Endpoints(name, txs, answers) ==
    {Endpoint(name, rx, tx, functional, protocols, answer) :
        rx \in {1, 2}, tx \in txs, functional \in BOOLEAN, protocols \in {{"obd"}, {"obd", "uds"}}, answer \in answers}

FirstEcus ==
    {EcuWith(<<"a">>, <<e>>, <<P1>>, << >>) : e \in Endpoints(<<"p">>, {8}, {"default", "yes"})}
    \cup {EcuWith(<<"a">>, <<e, f>>, <<P1>>, << >>) :
            e \in Endpoints(<<"p">>, {8}, {"default"}), f \in Endpoints(<<"q">>, {9}, {"default", "no"})}

SecondEcus == {EcuWith(<<"b">>, <<e>>, <<P1>>, << >>) : e \in Endpoints(<<"p">>, {10}, {"default"})}

Combined ==
    {Car("ice", <<e>>) : e \in FirstEcus} \cup {Car("ice", <<e, f>>) : e \in FirstEcus, f \in SecondEcus}
    \cup {Car("ice", <<f, e>>) : e \in FirstEcus, f \in SecondEcus}

(* Two ECUs with codes and events, and a functional address that one of them has. *)
Event(at, action, code) == [at |-> at, action |-> action, code |-> code]
Events == <<Event(0, "raise_confirmed", P2.code), Event(0, "request_indicator", P2.code),
            Event(0, "clear_code", P1.code), Event(0, "clear_all", NoCode)>>

Both == {"obd", "uds"}
Engine == EcuWith(<<"engine">>,
    <<Endpoint(<<"p">>, 1, 8, FALSE, Both, "default"), Endpoint(<<"f">>, 3, 9, TRUE, {"obd"}, "default")>>,
    <<P1, P2>>, Events)
Gearbox == EcuWith(<<"gearbox">>, <<Endpoint(<<"p">>, 2, 10, FALSE, {"uds"}, "no")>>, <<P1, P2>>, <<Events[1]>>)

Serving == {Car(kind, <<Engine, Gearbox>>) : kind \in Kinds}

MCLateRoutes ==
    {[address |-> 3, functional |-> TRUE, ecu |-> <<"gearbox">>, protocols |-> {"uds"}, answers |-> FALSE],
     [address |-> 1, functional |-> TRUE, ecu |-> <<"gearbox">>, protocols |-> {"uds"}, answers |-> FALSE],
     [address |-> 4, functional |-> TRUE, ecu |-> <<"gearbox">>, protocols |-> {}, answers |-> FALSE]}

(* One mistake each, or one oddity that is accepted. *)
Plain(name, rx, tx) == Endpoint(name, rx, tx, FALSE, {"obd"}, "default")
One(list, dtcs, events) == Car("ice", <<EcuWith(<<"a">>, list, dtcs, events)>>)
Pair(key, name, key2, name2) ==
    Car("ice", <<EcuWith(key, <<Plain(name, 1, 8)>>, << >>, << >>), EcuWith(key2, <<Plain(name2, 2, 9)>>, << >>, << >>)>>)

Odd == {
    One(<<Plain(<<"p">>, 1, 1)>>, << >>, << >>), One(<<Plain(Empty, 1, 8)>>, << >>, << >>),
    One(<<Plain(<<"p">>, 1, 2048)>>, << >>, << >>), One(<<Plain(<<"p">>, 1, 8), Plain(<<"p">>, 2, 9)>>, << >>, << >>),
    One(<<Plain(<<"p">>, 1, 8), Plain(<<"q">>, 1, 8)>>, << >>, << >>),
    One(<<[Plain(<<"p">>, 1, 8) EXCEPT !.via = <<"q">>]>>, << >>, << >>),
    One(<<[Plain(<<"p">>, 1, 8) EXCEPT !.via = <<"p">>]>>, << >>, << >>),
    One(<<Plain(<<"p">>, 1, 8)>>, <<P1, P1>>, << >>), One(<<Plain(<<"p">>, 1, 8)>>, <<P1>>, <<Events[1]>>),
    One(<<Plain(<<"p">>, 1, 8)>>, <<Bare(<<4, 0, 1>>)>>, << >>),
    One(<<Plain(<<"p">>, 1, 8)>>, [n \in 1..256 |-> Bare(<<0, 0, n>>)], << >>),
    One(<<Plain(<<"p">>, 1, 8)>>, <<P1>>, <<Event(0, "clear_all", P1.code)>>),
    One(<<[Plain(<<"p">>, 1, 8) EXCEPT !.protocols = {}]>>, << >>, << >>), One(<< >>, << >>, << >>), Car("ice", << >>),
    Car("ice", <<EcuWith(<<"a">>, <<Endpoint(<<"p">>, 1, 8, FALSE, {"obd"}, "no")>>, << >>, << >>),
                 EcuWith(<<"b">>, <<Endpoint(<<"p">>, 1, 8, TRUE, {"obd"}, "no")>>, << >>, << >>)>>),
    Pair(<<"a">>, <<"b", "c">>, <<"a", "b">>, <<"c">>), Pair(<<"a">>, <<"p">>, <<"a", "b">>, <<"p">>),
    Pair(<<"a">>, <<"b", "c">>, <<"a", "b">>, <<"d">>),
    Pair(<<"a">>, <<"p">>, <<"a">>, <<"q">>), Pair(<<"a">>, <<"p">>, Empty, <<"p">>),
    [Pair(<<"a">>, <<"p">>, <<"b">>, <<"p">>) EXCEPT !.sections = {"battery"}],
    [Pair(<<"a">>, <<"p">>, <<"b">>, <<"p">>) EXCEPT !.driven = <<<<"vehicle", "vin">>>>],
    [Pair(<<"a">>, <<"p">>, <<"b">>, <<"p">>) EXCEPT !.driven = <<<<"engine", "rpm">>, <<"engine", "rpm">>>>]}

(* ice_scenario.yaml: its endpoints, its codes, its events, and what drives the *)
(* signals that the script reads, and one more.                                  *)
P0128 == <<0, 0, \h128>>
MCDemo ==
    Car("ice", <<EcuWith(<<"ecu">>,
        <<[Endpoint(<<"obd_functional">>, \h7DF, \h7E8, TRUE, {"obd"}, "no") EXCEPT !.via = <<"obd_physical">>],
          Endpoint(<<"obd_physical">>, \h7E0, \h7E8, FALSE, Both, "default"),
          Endpoint(<<"uds_physical">>, \h7E1, \h7E9, FALSE, Both, "default")>>,
        <<[code |-> P0128, flags |-> {}], [code |-> <<0, 0, \h171>>, flags |-> {}], [code |-> <<2, 1, \h477>>, flags |-> {}]>>,
        <<Event(40, "raise_pending", P0128), Event(75, "raise_confirmed", P0128),
          Event(75, "request_indicator", P0128)>>)>>)

MCDrive ==
    (<<"vehicle", "speed">> :> Timeline(<< <<0, 0>>, <<10, 0>>, <<20, 30>>, <<30, 55>>, <<45, 80>>, <<70, 80>>, <<80, 40>>,
                                           <<90, 0>>, <<100, 45>>, <<115, 70>>, <<120, 0>> >>))
    @@ (<<"engine", "rpm">> :> Timeline(<< <<0, 800>>, <<10, 850>>, <<20, 1600>>, <<30, 1900>>, <<45, 2300>>, <<70, 2100>>,
                                           <<80, 1400>>, <<90, 800>>, <<100, 2000>>, <<115, 2400>>, <<120, 800>> >>))
    @@ (<<"engine", "coolant_temp">> :> Ramp(20, 92, 60))
    @@ (<<"engine", "throttle">> :> Stepped(<<8, 24, 41, 24>>, 12))

MCProfiles == Combined \cup Serving \cup Odd \cup {MCDemo}

MCPayloads == {
    << >>, <<3>>, <<4>>, <<5>>, <<1, \h0C>>, <<\h14, 255, 255, 255>>, <<\h14, 255, 255, 255, 1>>,
    <<\h19, 2, 8>>, <<\h10, \h81>>, <<\h22, 1>>}

MCValues == [kind \in Kinds |-> [s \in Signals(kind) |-> IF s = <<"engine", "rpm">> THEN 20000 ELSE 20]]
(* Every second byte at which one service or another decides differently. *)
MCQuestions ==
    {<<sid>> : sid \in UdsSids}
    \cup {<<sid, b>> : sid \in UdsSids, b \in 0..6 \cup 126..134 \cup {255}}
    \cup {<<sid, b, c>> : sid \in UdsSids, b \in {0, 2, 128, 130}, c \in {0, 8, 255}}
    \cup {<<sid, b, 255, 255>> : sid \in UdsSids, b \in {0, 128, 255}}

MCVin == <<86, 73, 78>>

MCChannels == [obd |-> <<"ecu", "obd_physical">>, uds |-> <<"ecu", "uds_physical">>]

Check(at, channel, request, expect, tolerance) ==
    [at |-> at, channel |-> channel, request |-> request, expect |-> expect, tolerance |-> tolerance]
Obd03(at, expect) == Check(at, "obd", <<3>>, expect, 0)
Uds19(at, codes) == Check(at, "uds", <<\h19, 2, \hFF>>, <<\h59, 2, \h8C>> \o codes, 0)
Pid(at, pid, expect, tolerance) == Check(at, "obd", <<1, pid>>, <<\h41, pid>> \o expect, tolerance)

MCChecks == <<
    Pid(1, \h0D, <<0>>, 0), Obd03(1, <<\h43, 0>>), Uds19(1, << >>),
    Pid(25, \h0D, <<\h1E>>, 0), Pid(25, \h0C, <<\h19, 0>>, 0), Pid(25, 5, <<\h5A>>, 2), Pid(25, \h0D, <<\h1E>>, 0),
    Obd03(35, <<\h43, 0>>), Uds19(35, << >>),
    Uds19(45, <<1, \h28, 1, 4>>), Obd03(45, <<\h43, 0>>),
    Obd03(78, <<\h43, 1, 1, \h28>>), Uds19(78, <<1, \h28, 1, \h8C>>), Pid(78, 5, <<\h84>>, 0),
    Check(82, "obd", <<4>>, <<\h44>>, 0), Obd03(82, <<\h43, 0>>), Uds19(82, << >>), Obd03(82, <<\h43, 0>>),
    Obd03(125, <<\h43, 0>>), Uds19(125, << >>), Pid(125, \h0D, <<0>>, 0), Pid(125, \h0C, <<\h0C, \h80>>, 0),
    Pid(125, 5, <<\h84>>, 0)>>

(* The times of checks and events, with the seconds after them. *)
MCInstants ==
    {0} \cup UNION {at..at + MaxLate : at \in {MCChecks[i].at : i \in DOMAIN MCChecks}} \cup {39, 40, 74, 75}
-----------------------------------------------------------------------------
(* The pure functions, over bounded payloads and stores, in one state of a *)
(* simulator of each kind of vehicle.                                       *)
Once == profile \in Serving /\ phase = "building"

(* The PIDs whose bit is set in the four bytes of a reply to a range. *)
Advertises(reply) ==
    {reply[2] + 8 * k + j : k \in 0..3, j \in 1..8} \cap
    {pid \in 0..256 : LET d == pid - reply[2] - 1 IN d \in 0..31 /\ Bit(reply[3 + (d \div 8)], 7 - (d % 8))}

(* A tester that follows the masks from range 00 on, going on while the last *)
(* bit is set, finds exactly what the vehicle answers: every range it is     *)
(* sent to answers, no other does, and a PID answers if and only if its bit  *)
(* was set (DEV-04).  Mode 09 likewise.                                      *)
MaskChainAgrees ==
    Once => \A mode \in {CurrentData, VehicleInfo} :
        LET kind == profile.kind
            reply == [pid \in 0..255 |-> ObdReply(<<mode, pid>>, << >>, kind, MCValues[kind], MCVin, MCVin)]
            ranges == {32 * k : k \in 0..7}
            reached == {base \in ranges : \A earlier \in {e \in ranges : e < base} :
                            reply[earlier] # NoReply /\ earlier + 32 \in Advertises(reply[earlier])}
            found == UNION {Advertises(reply[base]) : base \in reached \cap {r \in ranges : reply[r] # NoReply}}
        IN  /\ reached = {base \in ranges : reply[base] # NoReply}
            /\ found \ ranges = {pid \in (0..255) \ ranges : reply[pid] # NoReply}

(* Several parameters in one request are answered as if they had been asked  *)
(* for one by one: the first six, each once, in the order of the request,    *)
(* and those that have no answer are left out.                               *)
SomePids == {0, \h0C, \h0D, \h20, \h21, \h42}
MultiIsSingles ==
    Once => \A pids \in UNION {[1..n -> SomePids] : n \in 0..3} \cup {<<1, 2, 3, 4, 5, 6, 7>>, <<7, 6, 5, 5, 4, 3, 12, 13>>} :
        LET ask(seq) == ObdReply(<<CurrentData>> \o seq, << >>, profile.kind, MCValues[profile.kind], MCVin, MCVin)
            first(i) == i <= 6 /\ \A j \in 1..i - 1 : pids[j] # pids[i]
            singles == FlattenSeq([i \in DOMAIN pids |-> IF first(i) /\ ask(<<pids[i]>>) # NoReply
                                                         THEN Tail(ask(<<pids[i]>>)) ELSE << >>])
        IN  ask(pids) = IF singles = << >> THEN NoReply ELSE <<PositiveSid(CurrentData)>> \o singles

(* How a tester reads a field: raw * num / den - minus; and the whole values *)
(* that the field can express.                                                *)
ReadingOf(by) ==
    CASE by = "percent"    -> [num |-> 100, den |-> 255,  minus |-> 0,   from |-> 0,    to |-> 100]
      [] by = "temp"       -> [num |-> 1,   den |-> 1,    minus |-> 40,  from |-> -40,  to |-> 215]
      [] by = "trim"       -> [num |-> 100, den |-> 128,  minus |-> 100, from |-> -100, to |-> 99]
      [] by = "timing"     -> [num |-> 1,   den |-> 2,    minus |-> 64,  from |-> -64,  to |-> 63]
      [] by = "quarter"    -> [num |-> 1,   den |-> 4,    minus |-> 0,   from |-> 0,    to |-> 16383]
      [] by = "hundredth"  -> [num |-> 1,   den |-> 100,  minus |-> 0,   from |-> 0,    to |-> 655]
      [] by = "thousandth" -> [num |-> 1,   den |-> 1000, minus |-> 0,   from |-> 0,    to |-> 65]
      [] by = "byte"       -> [num |-> 1,   den |-> 1,    minus |-> 0,   from |-> 0,    to |-> 255]
      [] by = "word"       -> [num |-> 1,   den |-> 1,    minus |-> 0,   from |-> 0,    to |-> 65535]

(* A tester reads back what the vehicle has, less than a step of the field    *)
(* below it, for every whole value the field can express; beyond it reads the *)
(* nearest end of the field, never a value that wrapped round.                *)
EncodersLoseLessThanAStep ==
    Once => \A by \in {d.by : d \in Definitions} : LET r == ReadingOf(by) IN
        /\ \A v \in r.from..Min({r.to, r.from + 1000}) \cup {r.to} :
            LET raw == RawValue(by, v) IN
            raw * r.num <= (v + r.minus) * r.den /\ (v + r.minus) * r.den < (raw + 1) * r.num
        /\ \A beyond \in {1, 2, 300, 20000} :
            RawValue(by, r.from - beyond) = 0 /\ RawValue(by, r.to + beyond) = Top(by)

(* Vehicle, for the kind of the profile. *)
AvailabilityMatches == Once => AvailabilityMatchesBuilder(profile.kind)

(* What the log says of a range request is the range: it mentions every PID    *)
(* that any mask of that range can list, the one that continues the chain      *)
(* among them, and none of another range.                                       *)
SummariesFit ==
    Once => \A base \in {32 * k : k \in 0..7} :
        LET most == Advertises(<<\h41, base, 255, 255, 255, 255>>)
        IN  /\ Summary(<<CurrentData, base>>).pids = most \cap (0..255)
            /\ LET reply == ObdReply(<<CurrentData, base>>, << >>, profile.kind, MCValues[profile.kind], MCVin, MCVin)
               IN  reply # NoReply => Advertises(reply) \subseteq Summary(<<CurrentData, base>>).pids

(* What a vehicle has, what it says that it has, what it answers, asked singly  *)
(* or together, what a tester reads in the bytes, and what the log says of it.  *)
ParametersAgree ==
    MaskChainAgrees /\ MultiIsSingles /\ EncodersLoseLessThanAStep /\ AvailabilityMatches /\ SummariesFit

(* What a generator computes does not depend on how it is written: a sequence *)
(* is the timeline of the moments at which its steps begin, a staircase goes  *)
(* once through the sequence of its values and then repeats, and a ramp is     *)
(* between its ends, never turns back and holds its end.                       *)
GeneratorsAgree ==
    Once => LET Steps == {<<7>>, <<5, 9>>, <<9, 5, 7>>}
                Holds == {1, 3}
                Times == -2..12
            IN  /\ \A held \in Steps : \A for \in [1..Len(held) -> Holds] :
                    LET sequence == Sequence([i \in 1..Len(held) |-> <<held[i], for[i]>>])
                        begins(i) == IF i = 1 THEN 0 ELSE EndOf(sequence, i - 1)
                        timeline == Timeline([i \in 1..Len(held) |-> <<begins(i), held[i]>>])
                    IN  \A at \in Times : ValueAt(sequence, at) = ValueAt(timeline, at)
                /\ \A held \in Steps : \A interval \in Holds :
                    LET stepped == Stepped(held, interval)
                        once == Sequence([i \in 1..Len(held) |-> <<held[i], interval>>])
                        round == interval * Len(held)
                    IN  \A at \in Times : ValueAt(stepped, at) =
                            IF at < round THEN ValueAt(once, at) ELSE ValueAt(stepped, at - round)
                /\ \A from, to \in {-40, 0, 25} : \A over \in Holds :
                    LET ramp == Ramp(from, to, over)
                        at(n) == ValueAt(ramp, n)
                    IN  \A n \in Times : /\ n <= 0 => at(n) = from
                                         /\ n >= over => at(n) = to
                                         /\ from <= to => at(n) <= at(n + 1)
                                         /\ from = to => at(n) = ValueAt(Constant(from), n)

(* The windows of a fault server's command line, one or two of one signal, in *)
(* the order of their starts, and the times of the scenario's ticks, which may *)
(* miss any of them.                                                            *)
Windows == [start : 0..3, end : 1..4]
WindowLists == {<<w>> : w \in Windows} \cup {<<v, w>> : v, w \in Windows}
Options(windows) == [i \in DOMAIN windows |-> [path |-> <<"vehicle", "speed">>, window |-> windows[i]]]
Accepts(windows) ==
    /\ \A o \in Range(Options(windows)) : NonfiniteOption(o)
    /\ Apart(Options(windows)) /\ KnownPaths("ice", Options(windows))
    /\ \A i \in 1..Len(windows) - 1 : windows[i].start <= windows[i + 1].start
TickTimes == {times \in UNION {[1..n -> 0..5] : n \in 1..4} : \A i \in 1..Len(times) - 1 : times[i] <= times[i + 1]}
Own == <<-1>>

(* Whenever the ticks come, the signal is invalid exactly while a window is    *)
(* open; otherwise it has the value the scenario gives it, or its own again.   *)
(* The timers of a server without a scenario do the same.  The page is told    *)
(* so, unless the signal has no source.  Faults of the state never keep the     *)
(* server from starting, the whole snapshot fails exactly while one of them is   *)
(* open, and the answers to GET fail only then.                                  *)
FaultsAsScheduled ==
    Once => \A windows \in {list \in WindowLists : Accepts(list)} :
        LET open(now) == \E w \in Range(windows) : OpenAt(w, now)
            listed(value, unavailable) == VehicleSnapshot([s \in {"signal"} |-> value], unavailable).nonfinite # {}
        IN  /\ \A times \in TickTimes, driven \in BOOLEAN :
                LET now == Last(times)
                    value == AfterApplies(Own, windows, times, driven).value
                IN  /\ value = IF open(now) THEN NotFinite ELSE IF driven THEN <<now>> ELSE Own
                    /\ listed(value, {}) <=> open(now)
                    /\ ~listed(value, {"signal"})
            /\ \A now \in 0..5 :
                AfterTimers(Own, windows, now).value = IF open(now) THEN NotFinite ELSE Own
            /\ \A parts \in [DOMAIN windows -> Parts \cup {"ecus"}] :
                LET faults == [i \in DOMAIN windows |-> [window |-> windows[i], part |-> parts[i]]]
                IN  (\A f \in Range(faults) : StateFaultOK(f)) =>
                        /\ ~StartRefused(faults)
                        /\ \A now \in 0..5 :
                            /\ SnapshotFails("state", faults, now) <=> open(now)
                            /\ \A path \in {"status", "vehicle", "dtcs"} :
                                AnswerFails(path, faults, now) => open(now)

(* What the scripts that drive the simulator rely on. *)
ScriptsHold == BenchInv /\ GeneratorsAgree /\ TrafficOnlyReads /\ FaultsAsScheduled
=============================================================================
