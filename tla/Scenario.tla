-------------------------------- MODULE Scenario --------------------------------
(***************************************************************************)
(* The scenario of a profile on a running simulator: ScenarioRunner        *)
(* (scenario/runner.py) applies generator values and timed trouble-code    *)
(* events, through ScenarioSync (scenario/sync.py), to the vehicle and to  *)
(* the DtcStore of every ECU (dtc/store.py).  Two callers share it: the    *)
(* tick task (app.scenario_tick) and every diagnostic request              *)
(* (Dispatcher.__call__), which may then clear a store (OBD Mode 04, UDS   *)
(* 0x14).  Nothing in a call awaits, so a call is one step.                *)
(*                                                                         *)
(* A generator is a pure function of the elapsed time: the value a signal  *)
(* has is named by the time it was computed for, and of the generators the *)
(* model keeps at which times the value is one that int() refuses (NaN or  *)
(* an infinity, on a signal the vehicle holds as an integer).              *)
(***************************************************************************)
EXTENDS Integers, Sequences, FiniteSets

CONSTANTS
    Ecus,           \* the names of the ECUs
    Dtcs,           \* the <<ECU, code>> pairs the profile configures
    Initially,      \* the flags each of them starts with (the profile's dtcs)
    EventLists,     \* the lists of timed events of the profiles considered
    SignalCount,    \* the scenario drives the signals 1..SignalCount, in this order
    NonFinite,      \* for the profiles considered, the times int(value) raises at, per signal
    TickPeriod,     \* the profile's scenario.tick
    MaxTime,        \* bound: the last instant of the clock
    MaxAnomalies    \* bound: how often the clock is read going backwards

Flags    == {"pending", "confirmed", "indicator_requested"}    \* DtcState
NoCode   == "none"
NotYet   == -1        \* last_applied is None
Signals  == 1..SignalCount

(* CODE_ACTIONS: the actions that set a flag, and the flag each one sets. *)
RaisedFlag == [raise_pending     |-> "pending",
               raise_confirmed   |-> "confirmed",
               request_indicator |-> "indicator_requested"]

Actions == DOMAIN RaisedFlag \cup {"clear_code", "clear_all"}

(* DtcEvent, with the ECU that build_scenario pairs it with. *)
Event == [ecu : Ecus, at : Nat, action : Actions, code : {d[2] : d \in Dtcs} \cup {NoCode}]

ASSUME ScenarioAssumption ==
    /\ Dtcs \subseteq Ecus \X {d[2] : d \in Dtcs}
    /\ Initially \in [Dtcs -> SUBSET Flags]
    /\ EventLists \subseteq Seq(Event)
    /\ SignalCount \in Nat
    /\ NonFinite \subseteq [Signals -> SUBSET Nat]
    /\ TickPeriod \in Nat \ {0}
    /\ MaxTime \in Nat
    /\ MaxAnomalies \in Nat

VARIABLES
    events,     \* the profile's timed events, in the order it lists them
    bad,        \* the times a generator's value is refused by int(), per signal
    clock,      \* ScenarioSync.elapsed
    applied,    \* _Event.applied, per event
    written,    \* per signal, the time its value in VehicleState was computed for
    flags,      \* the flags of every trouble code, in the stores
    last,       \* ScenarioRunner._last_applied
    tickDue,    \* when the sleep of the tick task ends
    clearedAt,  \* history: per ECU, the scenario time of the last diagnostic clear
    anomalies   \* history: how often the clock went backwards

profile == <<events, bad>>
domain  == <<applied, written, flags, last, clearedAt>>
vars    == <<profile, clock, domain, tickDue, anomalies>>

TypeOK ==
    /\ events \in EventLists
    /\ bad \in NonFinite
    /\ clock \in 0..MaxTime
    /\ applied \in [DOMAIN events -> BOOLEAN]
    /\ written \in [Signals -> 0..MaxTime \cup {NotYet}]
    /\ flags \in [Dtcs -> SUBSET Flags]
    /\ last \in 0..MaxTime \cup {NotYet}
    /\ tickDue \in Nat
    /\ clearedAt \in [Ecus -> 0..MaxTime \cup {NotYet}]
    /\ anomalies \in 0..MaxAnomalies

Init ==
    /\ events \in EventLists
    /\ bad \in NonFinite
    /\ clock = 0
    /\ applied = [i \in DOMAIN events |-> FALSE]
    /\ written = [s \in Signals |-> NotYet]
    /\ flags = Initially
    /\ last = NotYet
    /\ tickDue = TickPeriod
    /\ clearedAt = [e \in Ecus |-> NotYet]
    /\ anomalies = 0
-----------------------------------------------------------------------------
(* What the i-th event does to the trouble code d, through DtcStore.update *)
(* or DtcStore.clear: it sets one flag, or it resets every flag.           *)
Raises(i, d, flag) ==
    /\ events[i].action \in DOMAIN RaisedFlag
    /\ flag = RaisedFlag[events[i].action]
    /\ d = <<events[i].ecu, events[i].code>>

Resets(i, d) ==
    \/ events[i].action = "clear_code" /\ d = <<events[i].ecu, events[i].code>>
    \/ events[i].action = "clear_all"  /\ d[1] = events[i].ecu

(* Mutant of Due: the marker is not looked at, so events fire again. *)
DueAgain == {i \in DOMAIN events : events[i].at <= clock}

(* _apply_events, the condition. *)
Due == {i \in DOMAIN events : ~applied[i] /\ events[i].at <= clock}

(* Mutant of AfterEvents: resets first, whatever their place in the list. *)
AfterEventsResetsFirst(table, due) ==
    [d \in Dtcs |-> {flag \in Flags :
        \/ \E i \in due : Raises(i, d, flag)
        \/ flag \in table[d] /\ \A j \in due : ~Resets(j, d)}]

(* _apply_events, the loop over the events that are due, in the order of the *)
(* list: a flag is set by an event that no later one resets, or was set      *)
(* before and is not reset.                                                  *)
AfterEvents(table, due) ==
    [d \in Dtcs |-> {flag \in Flags :
        \/ \E i \in due : Raises(i, d, flag) /\ \A j \in due : Resets(j, d) => j < i
        \/ flag \in table[d] /\ \A j \in due : ~Resets(j, d)}]

(* DtcStore.clear on the stores of some ECUs. *)
Cleared(table, ecus) == [d \in Dtcs |-> IF d[1] \in ecus THEN {} ELSE table[d]]

(* _apply_signals: in the order of the list, up to a value that int() refuses. *)
SignalsWritten ==
    [s \in Signals |-> IF \A q \in 1..s : clock \notin bad[q] THEN clock ELSE written[s]]

ValueRefused == \E s \in Signals : clock \in bad[s]
-----------------------------------------------------------------------------
(* Each way a call of ScenarioRunner.apply can go, followed by the clear of *)
(* some stores that a request asks for.                                     *)

Clear(ecus, when) == clearedAt' = [e \in Ecus |-> IF e \in ecus THEN when ELSE clearedAt[e]]

(* Mutant of RefuseApply: the signals are set before the time is looked at. *)
RefuseAfterSignals(ecus) ==
    /\ clock < last
    /\ written' = SignalsWritten
    /\ flags' = Cleared(flags, ecus)
    /\ Clear(ecus, last)
    /\ UNCHANGED <<applied, last>>

(* Time went backwards: a warning, and the state already reached is served. *)
RefuseApply(ecus) ==
    /\ clock < last
    /\ flags' = Cleared(flags, ecus)
    /\ Clear(ecus, last)
    /\ UNCHANGED <<applied, written, last>>

(* int(value) raises out of apply: the signals before it are written, no event *)
(* is looked at, the time does not count as applied.  The tick logs it; the    *)
(* transport logs it and sends no reply, so no store is cleared either.        *)
ApplyRaises ==
    /\ clock >= last
    /\ ValueRefused
    /\ written' = SignalsWritten
    /\ UNCHANGED <<applied, flags, last, clearedAt>>

(* Mutant of Apply: a request is served before the scenario is synchronised. *)
ApplyAfterClear(ecus) ==
    /\ clock >= last
    /\ ~ValueRefused
    /\ written' = SignalsWritten
    /\ applied' = [i \in DOMAIN events |-> applied[i] \/ i \in Due]
    /\ flags' = AfterEvents(Cleared(flags, ecus), Due)
    /\ last' = clock
    /\ Clear(ecus, clock)

(* The signals, then the events that are due, each marked as applied, then *)
(* the time; and then the request's clear.                                 *)
Apply(ecus) ==
    /\ clock >= last
    /\ ~ValueRefused
    /\ written' = SignalsWritten
    /\ applied' = [i \in DOMAIN events |-> applied[i] \/ i \in Due]
    /\ flags' = Cleared(AfterEvents(flags, Due), ecus)
    /\ last' = clock
    /\ Clear(ecus, clock)

Sync(ecus) == RefuseApply(ecus) \/ ApplyRaises \/ Apply(ecus)
-----------------------------------------------------------------------------
(* Mutant of Tick: an exception out of sync ends the task. *)
TickDiesOnError ==
    /\ clock >= tickDue
    /\ tickDue' = IF clock >= last /\ ValueRefused THEN MaxTime + 1 ELSE clock + TickPeriod
    /\ Sync({})
    /\ UNCHANGED <<profile, clock, anomalies>>

(* The tick task: its sleep is over, it synchronises and sleeps again.  It may *)
(* come late, the event loop is shared.                                        *)
Tick ==
    /\ clock >= tickDue
    /\ tickDue' = clock + TickPeriod
    /\ Sync({})
    /\ UNCHANGED <<profile, clock, anomalies>>

(* A diagnostic request: synchronise, then serve it.  It changes nothing, or *)
(* it clears the store of the one ECU it is routed to.                       *)
Request ==
    /\ \E ecus \in {{}} \cup {{e} : e \in Ecus} : Sync(ecus)
    /\ UNCHANGED <<profile, clock, tickDue, anomalies>>

TimePasses ==
    /\ clock < MaxTime
    /\ clock' = clock + 1
    /\ UNCHANGED <<profile, domain, tickDue, anomalies>>

(* The clock anomaly that apply's guard is written for. *)
TimeGoesBack ==
    /\ anomalies < MaxAnomalies
    /\ \E earlier \in 0..(clock - 1) : clock' = earlier
    /\ anomalies' = anomalies + 1
    /\ UNCHANGED <<profile, domain, tickDue>>

Next == Tick \/ Request \/ TimePasses \/ TimeGoesBack

Spec == Init /\ [][Next]_vars

(* Time passes, and the event loop runs a task whose sleep is over; nothing *)
(* makes a tester send a request.                                           *)
Fairness == WF_vars(TimePasses) /\ WF_vars(Tick)

FairSpec == Spec /\ Fairness
-----------------------------------------------------------------------------
(* What the documentation promises: the state at a time is a function of the *)
(* profile, of that time and of the diagnostic clears, whoever asked before. *)
(* Events take effect in the order of their times, and the order of the list *)
(* only decides between two events that share one.                           *)

Before(i, j) == events[i].at < events[j].at \/ (events[i].at = events[j].at /\ i < j)

Arrived == {i \in DOMAIN events : events[i].at <= last}

Replay ==
    [d \in Dtcs |-> {flag \in Flags :
        /\ \/ \E i \in Arrived : /\ Raises(i, d, flag)
                                 /\ events[i].at > clearedAt[d[1]]
                                 /\ \A j \in Arrived : Resets(j, d) => Before(j, i)
           \/ /\ flag \in Initially[d]
              /\ clearedAt[d[1]] = NotYet
              /\ \A j \in Arrived : ~Resets(j, d)}]

(* The profile lists the events of each ECU in the order of their times. *)
Ascending ==
    \A i, j \in DOMAIN events : (i < j /\ events[i].ecu = events[j].ecu) => events[i].at <= events[j].at

(* An event is consumed when, and only when, its time has been applied: not  *)
(* early, not skipped by a call that raised or that was refused (_Event and  *)
(* _last_applied agree).                                                     *)
MarkersMatchTime == \A i \in DOMAIN events : applied[i] <=> events[i].at <= last

(* For a profile that lists its events in order, the stores hold what a      *)
(* replay of the events and the diagnostic clears gives, however ticks,      *)
(* requests, late calls and calls that raise were interleaved.               *)
StateIsReplay == Ascending => flags = Replay

(* The same of every profile that validation accepts: "the order in the file *)
(* is only the tie-break for events sharing a time".                         *)
OrderIsOnlyATieBreak == flags = Replay

(* A flag appears only in the step that consumes an event that raises it: no *)
(* event fires twice, and what a tester cleared stays cleared.               *)
NoReplay ==
    [][/\ \A i \in DOMAIN events : applied[i] => applied'[i]
       /\ \A d \in Dtcs : \A flag \in flags'[d] \ flags[d] :
              \E i \in DOMAIN events : applied'[i] /\ ~applied[i] /\ Raises(i, d, flag)]_vars

(* The observer's snapshots report the vehicle with the scenario time it was *)
(* applied at (as_of, snapshots.py): every signal has the value of that time. *)
AsOfIsTheValuesTime == \A s \in Signals : written[s] = last

(* It is so as long as no generator gives a value that int() refuses, also   *)
(* when the clock is read going backwards.                                   *)
AsOfHolds == (\A s \in Signals : bad[s] = {}) => AsOfIsTheValuesTime

(* _apply_events and _apply_event as they are written: a loop over the list, *)
(* one call of the store per event.                                          *)
OneCall(table, i) ==
    [d \in Dtcs |-> IF Resets(i, d) THEN {} ELSE table[d] \cup {flag \in Flags : Raises(i, d, flag)}]

Loop(due) ==
    LET table[i \in 0..Len(events)] ==
            IF i = 0 THEN flags ELSE IF i \in due THEN OneCall(table[i - 1], i) ELSE table[i - 1]
    IN  table[Len(events)]

(* What AfterEvents says of a call of apply is what the loop computes, in any *)
(* state and for whatever events are due, of lists in any order.              *)
AfterEventsIsTheLoop == \A due \in SUBSET DOMAIN events : AfterEvents(flags, due) = Loop(due)

(* Mutant of PendingEvents: those whose time has not come, applied or not. *)
PendingByClock == Cardinality({i \in DOMAIN events : events[i].at > clock})

(* ScenarioRunner.pending_events. *)
PendingEvents == Cardinality({i \in DOMAIN events : ~applied[i]})

(* snapshots.status, of the scenario. *)
Status == [t_last_applied |-> last, pending_events |-> PendingEvents]

(* GET /status does not contradict itself, whenever it is asked: it counts as  *)
(* pending the events later than the time it says was applied, also after a     *)
(* call that raised, that came late or that was refused.                        *)
StatusAgrees ==
    Status.pending_events = Cardinality({i \in DOMAIN events : events[i].at > Status.t_last_applied})

(* What a call makes of the events that are due, and what is said of the rest. *)
EventsAccountedFor == AfterEventsIsTheLoop /\ StatusAgrees

(* A timed event arrives even when no tester is asking anything: it is       *)
(* consumed, once its time is one that a tick within the bound reaches.      *)
EventsArrive ==
    \A i \in UNION {DOMAIN list : list \in EventLists} :
        (i \in DOMAIN events /\ events[i].at + TickPeriod <= MaxTime) ~> (i \in DOMAIN events /\ applied[i])
=============================================================================
