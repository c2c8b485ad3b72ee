------------------------------- MODULE PageCases -------------------------------
(***************************************************************************)
(* The browser checks of scripts/gui_demo_capture.py (--m3b) that are about  *)
(* the page's connection, its recovery and its announcements: what each case  *)
(* does to the simulator, the socket and the page, in order, and what it must  *)
(* then have seen.  A sight is a record of what to look at, with the values     *)
(* that will do.  Waits are kept where something must have happened meanwhile;   *)
(* how long anything takes, the texts, the graphs and the log are left out.       *)
(***************************************************************************)
EXTENDS Naturals, Sequences

Live1 == [health |-> {"live"}]
Down == [conn |-> {"down"}]
Recovered == [health |-> {"live"}, episode |-> {"none"}, attempt |-> {0}]
Doubtful == [conn |-> {"live"}, health |-> {"last-known"}, reason |-> {{"malformed"}}, episode |-> {"active"}]

Restored == {"restored"}
LiveRestored == {"live restored"}
LastKnown == {"last known"}

(* The steps.  See: until it is so; Expect: it must be so, now.  Mark: what was   *)
(* seen before does not count.  Inject: a frame on the page's socket, and what the   *)
(* page shows at once.  Faults: the parts of the state that raise from now on.       *)
See(sight) == <<[do |-> "see", sight |-> sight]>>
Expect(sight) == <<[do |-> "expect", sight |-> sight]>>
Inject(frame, sight) == <<[do |-> "inject", frame |-> frame]>> \o Expect(sight)
Mark == <<[do |-> "mark"]>>
Wait == <<[do |-> "wait"]>>
Signal(signal) == <<[do |-> "signal", signal |-> signal]>>
BadFirst(on) == <<[do |-> "badFirst", on |-> on]>>
IncompleteFirst == <<[do |-> "incompleteFirst"]>>
OpenClient == <<[do |-> "openClient"]>>
CloseClient == <<[do |-> "closeClient"]>>
RetryButton == <<[do |-> "retryButton"]>>
Load == <<[do |-> "load"]>>
Faults(parts) == <<[do |-> "faults", parts |-> parts]>>

(* M3b.open_page, and then the case. *)
OpenPage == See(Live1)
Healthy == OpenPage \o Mark
-----------------------------------------------------------------------------
NoFalseInvalidation ==
    OpenPage \o Wait
    \o Expect([conn |-> {"live"}, health |-> {"live"}, episode |-> {"none"}, lives |-> {1}, states |-> {1},
               said |-> {<<>>}])

AnnounceDisconnect ==
    Healthy \o Signal("STOP") \o See(Down) \o See([retries |-> {2}]) \o Signal("CONT") \o See(Live1) \o Wait
    \o Expect([health |-> {"live"}, lives |-> {1}, said |-> {<<{"down"}, Restored>>}])

(* The reconnect's first state is incomplete; then a stop during an episode. *)
AnnounceOutages ==
    Healthy \o Signal("STOP") \o See(Down) \o IncompleteFirst \o Signal("CONT") \o See(Live1) \o Wait
    \o Expect([incompletes |-> {1}, said |-> {<<{"down"}, {"reconnected"}, Restored>>}])
    \o Mark \o Inject("unreadable", Doubtful) \o Signal("STOP") \o See(Down) \o Signal("CONT") \o See(Live1) \o Wait
    \o Expect([said |-> {<<LastKnown, {"down"}, Restored>>}])

(* The simulator stopped at the page load; then a load whose first state is incomplete. *)
AnnounceFirstLoad ==
    OpenPage \o Load \o Signal("STOP") \o See(Down) \o See([retries |-> {1, 2}]) \o Signal("CONT") \o See(Live1) \o Wait
    \o Expect([lives |-> {1}, said |-> {<<{"down"}, Restored>>}])
    \o Load \o IncompleteFirst \o See(Live1) \o Wait
    \o Expect([lives |-> {1}, incompletes |-> {1}, attempts |-> {<<1, 0>>}, said |-> {<<LastKnown, LiveRestored>>}])

(* fault_announcements. *)
FaultSaid == [said |-> {<<LastKnown, LiveRestored>>}]

MalformedOnce ==
    Healthy \o Inject("unreadable", Doubtful) \o See(Live1)
    \o Expect(Recovered) \o Expect([socks |-> {1}, runs |-> {0}]) \o Expect(FaultSaid)

MalformedBounded ==
    Healthy \o BadFirst(TRUE) \o Inject("unreadable", Doubtful) \o See([episode |-> {"exhausted"}]) \o Wait
    \o Expect([socks |-> {3}, attempts |-> {<<1, 2, 3>>}, button |-> {"Retry now"}, lives |-> {0},
               said |-> {<<LastKnown, {"could not recover"}>>}])
    \o BadFirst(FALSE) \o Mark \o RetryButton \o See(Live1)
    \o Expect(Recovered) \o Expect([attempts |-> {<<0, 1, 0>>}, said |-> {<<LiveRestored>>}])

(* Missing dtcs, then missing vehicle. *)
IncompleteState ==
    LET Once == Mark \o Inject("incomplete", Doubtful) \o See(Live1)
                \o Expect(Recovered) \o Expect([socks |-> {1}, lives |-> {1}, runs |-> {0}]) \o Expect(FaultSaid)
    IN  OpenPage \o Once \o Once

UnknownType ==
    LET Same == [health |-> {"live"}, episode |-> {"none"}, socks |-> {0}]
    IN  Healthy \o Inject("future", Same) \o Wait \o Expect(Same) \o Expect([lives |-> {0}, said |-> {<<>>}])

IncompleteInAttempt ==
    Healthy \o IncompleteFirst \o Inject("unreadable", [episode |-> {"active"}]) \o See(Live1)
    \o Expect(Recovered) \o Expect([socks |-> {2}, incompletes |-> {1}, attempts |-> {<<1, 2, 0>>}])

(* run_slot_cases: three clients of the script's own, and the page. *)
ThreeClients == OpenClient \o OpenClient \o OpenClient \o Healthy

SlotsA ==
    ThreeClients \o Inject("unreadable", Doubtful) \o See(Live1)
    \o Expect(Recovered) \o Expect([socks |-> 1..3, attempts |-> {<<1, 0>>, <<1, 2, 0>>, <<1, 2, 3, 0>>}])

SlotsB ==
    ThreeClients \o Inject("unreadable", Doubtful) \o OpenClient
    \o Expect([attempts |-> {<<>>}])
    \o See([episode |-> {"exhausted"}]) \o Wait
    \o Expect([socks |-> {3}, refused |-> {3}, attempts |-> {<<1, 2, 3>>}, button |-> {"Retry now"}, lives |-> {0}])
    \o CloseClient \o RetryButton \o See(Live1)
    \o Expect(Recovered)

SlotsC ==
    ThreeClients \o Inject("unreadable", Doubtful) \o OpenClient
    \o Expect([attempts |-> {<<>>}])
    \o See([refused |-> {1}]) \o CloseClient \o See(Live1)
    \o Expect(Recovered) \o Expect([socks |-> {2, 3}, refused |-> {1}, attempts |-> {<<1, 2, 0>>, <<1, 2, 3, 0>>}])
    \o Mark \o Inject("unreadable", [episode |-> {"active"}]) \o See(Live1)
    \o Expect(Recovered) \o Expect([attempts |-> {<<1, 0>>}])

Sigstop ==
    Healthy \o Signal("STOP") \o See(Down)
    \o Expect([health |-> {"stale"}, episode |-> {"none"}])
    \o Signal("CONT") \o See(Live1)
    \o Expect([runs |-> {0}])

Restart ==
    Healthy \o Signal("TERM") \o See([conn |-> {"down", "refused"}]) \o Signal("start") \o See(Live1)
    \o Expect([runs |-> {1}])

(* part D: recovery only by a state of a socket opened after an ok true that      *)
(* followed the last ok false.                                                     *)
Encoding ==
    Healthy \o Faults({"state"}) \o See([reason |-> {{"encoding"}}]) \o Wait
    \o Expect([conn |-> {"live"}, health |-> {"last-known"}, lives |-> {0}])
    \o Faults({}) \o See(Live1)
    \o Expect([lives |-> {1}, trust |-> {"state"}, socks |-> {1}])

(* part E: a page loaded before the fault, and one loaded during it; then a fault  *)
(* of one part only, while GET /vehicle answers.                                     *)
SameValue ==
    OpenPage \o Mark \o Faults({"state"}) \o See([reason |-> {{"encoding"}}]) \o Wait
    \o Faults({}) \o See(Live1) \o Expect([states |-> 1..3])
    \o Faults({"state"}) \o See([encodes |-> {FALSE}]) \o Load \o See([conn |-> {"live"}, states |-> 1..3]) \o Wait
    \o Expect([health |-> {"last-known"}, reason |-> {{"encoding"}}, lives |-> {0}])
    \o Faults({}) \o See(Live1)

RestIsNotProof ==
    Healthy \o Faults({"dtcs"}) \o See([reason |-> {{"encoding"}}]) \o Wait
    \o Expect([vehicle |-> {200}, health |-> {"last-known"}, lives |-> {0}])
    \o Faults({}) \o See(Live1)

Cases ==
    <<NoFalseInvalidation, AnnounceDisconnect, AnnounceOutages, AnnounceFirstLoad, MalformedOnce, MalformedBounded,
      IncompleteState, UnknownType, IncompleteInAttempt, SlotsA, SlotsB, SlotsC, Sigstop, Restart, Encoding,
      SameValue, RestIsNotProof>>
=============================================================================
