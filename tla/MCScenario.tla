------------------------------ MODULE MCScenario ------------------------------
(***************************************************************************)
(* Scenario for TLC: two ECUs, one of them with two trouble codes, and     *)
(* lists of up to three events out of a pool.                               *)
(***************************************************************************)
EXTENDS Scenario, SequencesExt

MCEcus == {"engine", "gearbox"}

MCDtcs == {<<"engine", "P1">>, <<"engine", "P2">>, <<"gearbox", "P1">>}

(* One code is confirmed from the start, as the shorthand of a profile makes it. *)
MCInitially == [d \in MCDtcs |-> IF d[2] = "P2" THEN {"confirmed"} ELSE {}]

RaiseOrClear(times) ==
    [ecu : {"engine"}, at : times, action : {"raise_pending", "clear_code"}, code : {"P1"}]

EngineEvents(times) ==
    RaiseOrClear(times) \cup [ecu : {"engine"}, at : times, action : {"clear_all"}, code : {NoCode}]

Pool(times) ==
    EngineEvents(times)
    \cup [ecu : {"engine"}, at : times, action : {"request_indicator"}, code : {"P2"}]
    \cup [ecu : {"gearbox"}, at : times, action : {"raise_confirmed"}, code : {"P1"}]

ThreeEvents == SeqOf(Pool({0, 2}), 2) \cup [1..3 -> RaiseOrClear({1, 2})]
TwoEvents   == SeqOf(Pool({0, 2}), 2)
OneEvent    == SeqOf(Pool({0, 1, 2}), 1)

AllFinite  == {<<{}, {}>>}
OneRefused == {<<{}, {}>>, <<{}, {1}>>}            \* NaN for a while, on the second signal
Refused    == {<<{}, {1}>>, <<{}, 0..MaxTime>>}    \* for a while, or always
=============================================================================
