------------------------------- MODULE Acceptance -------------------------------
(***************************************************************************)
(* scripts/acceptance/phase7_scenario_acceptance.py, which drives the       *)
(* simulator with the profile ice_scenario.yaml for two minutes and          *)
(* compares what it answers, byte for byte; with ScenarioSync, the runner    *)
(* and the tick on the simulator's side.  It composes Diagnostics with the   *)
(* generators and with time.  With another profile nothing drives the        *)
(* vehicle, and requests and events come as Diagnostics lets them.            *)
(*   Time is counted in seconds since the runtime was built; it passes by    *)
(* jumps over instants at which nothing can be told apart.                    *)
(***************************************************************************)
EXTENDS Diagnostics, Generators

CONSTANTS
    Demo,       \* the profile the script starts the simulator with; its events have times
    Drive,      \* scenario.signals of that profile: signal -> generator
    Checks,     \* CHECKS: [at, channel, request, expect, tolerance]
    Channels,   \* channel -> the endpoint that its tester's address pair reaches
    Instants,   \* the instants considered
    MaxLate     \* bound: how late the start is seen and a request is sent, together

ASSUME DriveAssumption == \A s \in DOMAIN Drive : GeneratorOK(Drive[s])

VARIABLES
    t,          \* ScenarioSync.elapsed
    last,       \* ScenarioRunner._last_applied
    script      \* the script: its stage, when it began, the check it is at, and those that failed

bench == <<t, last, script>>

NotYet == -1

BenchTypeOK ==
    /\ t \in Instants
    /\ last \in Instants \cup {NotYet}
    /\ script.stage \in {"waiting", "checking", "asking", "interrupted"}
    /\ script.started \in 0..MaxLate
    /\ script.at \in 1..Len(Checks) + 1
    /\ script.failed \subseteq DOMAIN Checks

BenchInit ==
    /\ Init
    /\ t = 0
    /\ last = NotYet
    /\ script = [stage |-> "waiting", started |-> 0, at |-> 1, failed |-> {}]
-----------------------------------------------------------------------------
(* Mutant of Due: an event is applied again whenever its time has come. *)
DueAgain(event) == event.at <= t

(* The events that a call of apply consumes. *)
Due(event) == last < event.at /\ event.at <= t

(* ScenarioSync.__call__ and ScenarioRunner.apply, at this instant: every driven *)
(* signal, then the events that are due, in the order of the list.                *)
Apply ==
    /\ last' = t
    /\ values' = [s \in DOMAIN values |-> IF s \in DOMAIN Drive THEN ValueAt(Drive[s], t) ELSE values[s]]
    /\ stores' = [e \in DOMAIN stores |->
           FoldLeft(AfterEvent, stores[e], SelectSeq(EcuOf(profile, e).events, Due))]
    /\ exchange' = NoExchange
    /\ UNCHANGED <<profile, phase, endpoints, next, table>>

Driven == profile = Demo /\ phase = "serving"

(* The tick, however late; in between a request and its answer nothing runs. *)
Tick ==
    /\ Driven /\ script.stage # "asking"
    /\ last < t
    /\ Apply
    /\ UNCHANGED <<t, script>>

Late(instant) ==
    \/ script.stage = "waiting" /\ instant > MaxLate
    \/ script.at <= Len(Checks) /\ instant > Checks[script.at].at + MaxLate

(* Time passes; whoever waits is not woken too late. *)
TimePasses ==
    /\ Driven /\ script.stage # "asking"
    /\ \E later \in Instants :
        /\ t < later /\ \A i \in Instants : i <= t \/ later <= i
        /\ ~Late(later)
        /\ t' = later
    /\ UNCHANGED <<vars, last, script>>

(* Simulator.wait_ready. *)
Ready ==
    /\ Driven /\ script.stage = "waiting"
    /\ script' = [script EXCEPT !.stage = "checking", !.started = t]
    /\ UNCHANGED <<vars, t, last>>

(* run, for the next check: it sleeps until the time of the check has come. *)
Asks ==
    /\ Driven /\ script.stage = "checking" /\ script.at <= Len(Checks)
    /\ t - script.started >= Checks[script.at].at
    /\ script' = [script EXCEPT !.stage = "asking"]
    /\ Apply
    /\ UNCHANGED t

(* Check.evaluate: the same bytes, but for a last byte that may be off by the tolerance. *)
Passes(check, observed) ==
    \/ observed = check.expect
    \/ /\ check.tolerance > 0 /\ NoReply \notin {observed, check.expect}
       /\ Len(observed) = Len(check.expect) /\ Front(observed) = Front(check.expect)
       /\ Last(observed) - Last(check.expect) \in -check.tolerance..check.tolerance

(* Tester.ask and Check.evaluate: the request reaches an endpoint of the simulator. *)
(* The dispatcher synchronises, in Asks, and then handles it: nothing comes between. *)
IsAnswered ==
    /\ Driven /\ script.stage = "asking"
    /\ LET check == Checks[script.at] IN
           /\ \E b \in Range(endpoints) : b.name = Channels[check.channel] /\ Request(b, check.request)
           /\ script' = [script EXCEPT !.stage = "checking", !.at = @ + 1,
                                       !.failed = IF Passes(check, exchange'.reply) THEN @ ELSE @ \cup {script.at}]
    /\ UNCHANGED <<t, last>>

(* Simulator.interrupt, after the last check: SIGINT, and the simulator leaves. *)
Interrupts ==
    /\ script.stage = "checking" /\ script.at > Len(Checks)
    /\ script' = [script EXCEPT !.stage = "interrupted"]
    /\ UNCHANGED <<vars, t, last>>

BenchNext ==
    \/ Startup /\ UNCHANGED bench
    \/ profile # Demo /\ Traffic /\ UNCHANGED bench
    \/ Tick \/ TimePasses \/ Ready \/ Asks \/ IsAnswered \/ Interrupts

BenchSpec == BenchInit /\ [][BenchNext]_<<vars, bench>>
-----------------------------------------------------------------------------
(* Every check passes, whenever the tick comes and however requests fall on  *)
(* the seconds, as long as the script is not later than its bound: what the   *)
(* generators, the events, both protocols and a clear over one of them make   *)
(* of the shipped profile is what the script expects, and stays so.            *)
AcceptancePasses == script.failed = {}

(* With the types, the bench between two steps. *)
BenchInv == BenchTypeOK /\ AcceptancePasses
=============================================================================
