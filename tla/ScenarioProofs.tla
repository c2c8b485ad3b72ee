---------------------------- MODULE ScenarioProofs ----------------------------
(***************************************************************************)
(* Proofs about Scenario, for every profile, every set of ECUs and codes   *)
(* and every bound.                                                        *)
(***************************************************************************)
EXTENDS Scenario, WellFoundedInduction, TLAPS

(* Every event of a profile's list is one that DtcEvent accepts: at >= 0. *)
LEMMA EventTimes ==
    ASSUME TypeOK
    PROVE  \A i \in DOMAIN events : events[i].at \in Nat /\ events[i].ecu \in Ecus
<1>1. events \in Seq(Event)
  BY ScenarioAssumption DEF TypeOK
<1>2. \A i \in DOMAIN events : events[i] \in Event
  BY <1>1
<1> QED
  BY <1>2 DEF Event

(* The bounds are numbers. *)
LEMMA Bounds == SignalCount \in Nat /\ TickPeriod \in Nat /\ MaxTime \in Nat /\ MaxAnomalies \in Nat
  BY ScenarioAssumption

(* The initial state has its type. *)
LEMMA InitTyped == Init => TypeOK
  BY ScenarioAssumption DEF Init, TypeOK, NotYet

(* A call of apply, however it goes, keeps the types of what it writes. *)
LEMMA SyncTyped ==
    ASSUME TypeOK, NEW ecus \in SUBSET Ecus, Sync(ecus)
    PROVE  /\ applied' \in [DOMAIN events -> BOOLEAN]
           /\ written' \in [Signals -> 0..MaxTime \cup {NotYet}]
           /\ flags' \in [Dtcs -> SUBSET Flags]
           /\ last' \in 0..MaxTime \cup {NotYet}
           /\ clearedAt' \in [Ecus -> 0..MaxTime \cup {NotYet}]
<1>1. SignalsWritten \in [Signals -> 0..MaxTime \cup {NotYet}]
  BY DEF SignalsWritten, TypeOK
<1>2. Cleared(flags, ecus) \in [Dtcs -> SUBSET Flags]
  BY DEF Cleared, TypeOK
<1>3. Cleared(AfterEvents(flags, Due), ecus) \in [Dtcs -> SUBSET Flags]
  BY DEF Cleared, AfterEvents
<1>4. CASE RefuseApply(ecus)
  BY <1>2, <1>4 DEF RefuseApply, Clear, TypeOK
<1>5. CASE ApplyRaises
  BY <1>1, <1>5 DEF ApplyRaises, TypeOK
<1>6. CASE Apply(ecus)
  BY <1>1, <1>3, <1>6 DEF Apply, Clear, TypeOK
<1> QED
  BY <1>4, <1>5, <1>6 DEF Sync

(* Every step keeps the types. *)
LEMMA StepTyped == TypeOK /\ [Next]_vars => TypeOK'
<1> SUFFICES ASSUME TypeOK, [Next]_vars
             PROVE  TypeOK'
  OBVIOUS
<1>1. CASE Tick
  <2>1. Sync({}) /\ UNCHANGED <<profile, clock, anomalies>> /\ tickDue' = clock + TickPeriod
    BY <1>1 DEF Tick
  <2>2. tickDue' \in Nat
    BY <2>1, Bounds DEF TypeOK
  <2> QED
    BY <2>1, <2>2, SyncTyped DEF TypeOK, profile
<1>2. CASE Request
  <2>1. PICK ecus \in {{}} \cup {{e} : e \in Ecus} : Sync(ecus)
    BY <1>2 DEF Request
  <2>2. UNCHANGED <<profile, clock, tickDue, anomalies>>
    BY <1>2 DEF Request
  <2>3. ecus \in SUBSET Ecus
    BY <2>1
  <2> QED
    BY <2>1, <2>2, <2>3, SyncTyped DEF TypeOK, profile
<1>3. CASE TimePasses
  BY <1>3, Bounds DEF TimePasses, TypeOK, profile, domain
<1>4. CASE TimeGoesBack
  <2>1. UNCHANGED <<profile, domain, tickDue>>
    BY <1>4 DEF TimeGoesBack
  <2>2. clock' \in 0..MaxTime /\ anomalies' \in 0..MaxAnomalies
    BY <1>4, Bounds DEF TimeGoesBack, TypeOK
  <2> QED
    BY <2>1, <2>2 DEF TypeOK, profile, domain
<1>5. CASE UNCHANGED vars
  BY <1>5 DEF TypeOK, vars, profile, domain
<1> QED
  BY <1>1, <1>2, <1>3, <1>4, <1>5 DEF Next

(* Every variable of the runner, the stores and their callers keeps its type. *)
THEOREM TypeCorrect == Spec => []TypeOK
  BY InitTyped, StepTyped, PTL DEF Spec
-----------------------------------------------------------------------------
(* A step changes the runner and the stores only through a call of apply. *)
LEMMA StepIsSync ==
    ASSUME TypeOK, [Next]_vars
    PROVE  /\ events' = events /\ bad' = bad
           /\ (\E ecus \in SUBSET Ecus : Sync(ecus)) \/ UNCHANGED domain
<1>1. CASE Tick
  BY <1>1 DEF Tick, profile
<1>2. CASE Request
  BY <1>2 DEF Request, profile
<1>3. CASE TimePasses
  BY <1>3 DEF TimePasses, profile
<1>4. CASE TimeGoesBack
  BY <1>4 DEF TimeGoesBack, profile
<1>5. CASE UNCHANGED vars
  BY <1>5 DEF vars, profile
<1> QED
  BY <1>1, <1>2, <1>3, <1>4, <1>5 DEF Next

(* The markers of the events and the time applied agree before and after every *)
(* step.                                                                       *)
LEMMA StepKeepsMarkers ==
    ASSUME TypeOK, MarkersMatchTime, [Next]_vars
    PROVE  MarkersMatchTime'
<1>1. events' = events
  BY StepIsSync
<1>2. CASE UNCHANGED domain
  BY <1>1, <1>2 DEF MarkersMatchTime, domain
<1>3. CASE \E ecus \in SUBSET Ecus : Sync(ecus)
  <2>1. PICK ecus \in SUBSET Ecus : Sync(ecus)
    BY <1>3
  <2>2. CASE RefuseApply(ecus) \/ ApplyRaises
    BY <1>1, <2>2 DEF RefuseApply, ApplyRaises, MarkersMatchTime
  <2>3. CASE Apply(ecus)
    <3>1. clock \in Int /\ last \in Int /\ last <= clock
      BY <2>3, Bounds DEF Apply, TypeOK, NotYet
    <3>2. last' = clock /\ applied' = [i \in DOMAIN events |-> applied[i] \/ i \in Due]
      BY <2>3 DEF Apply
    <3>3. ASSUME NEW i \in DOMAIN events
          PROVE  applied'[i] <=> events[i].at <= clock
      <4>1. events[i].at \in Int
        BY EventTimes
      <4>2. applied'[i] <=> (applied[i] \/ events[i].at <= clock)
        BY <3>2 DEF Due
      <4>3. applied[i] <=> events[i].at <= last
        BY DEF MarkersMatchTime
      <4> QED
        BY <3>1, <4>1, <4>2, <4>3
    <3> QED
      BY <1>1, <3>2, <3>3 DEF MarkersMatchTime
  <2> QED
    BY <2>1, <2>2, <2>3 DEF Sync
<1> QED
  BY <1>2, <1>3, StepIsSync

(* At the start no event is marked and no time has been applied. *)
LEMMA InitMarkers == Init => MarkersMatchTime
<1> SUFFICES ASSUME Init
             PROVE  MarkersMatchTime
  OBVIOUS
<1>1. TypeOK
  BY InitTyped
<1>2. ASSUME NEW i \in DOMAIN events
      PROVE  ~applied[i] /\ ~(events[i].at <= last)
  BY <1>1, EventTimes DEF Init, NotYet
<1> QED
  BY <1>2 DEF MarkersMatchTime

(* No event is consumed early, and none whose time has been applied is left. *)
THEOREM MarkersAreRight == Spec => []MarkersMatchTime
<1>1. Init => TypeOK /\ MarkersMatchTime
  BY InitTyped, InitMarkers
<1>2. (TypeOK /\ MarkersMatchTime) /\ [Next]_vars => (TypeOK /\ MarkersMatchTime)'
  BY StepTyped, StepKeepsMarkers
<1> QED
  BY <1>1, <1>2, PTL DEF Spec
-----------------------------------------------------------------------------
(* A flag that appears is raised by an event that this very step consumes. *)
LEMMA StepDoesNotReplay ==
    ASSUME TypeOK, [Next]_vars
    PROVE  /\ \A i \in DOMAIN events : applied[i] => applied'[i]
           /\ \A d \in Dtcs : \A flag \in flags'[d] \ flags[d] :
                  \E i \in DOMAIN events : applied'[i] /\ ~applied[i] /\ Raises(i, d, flag)
<1>1. CASE UNCHANGED domain
  BY <1>1 DEF domain
<1>2. ASSUME NEW ecus \in SUBSET Ecus, RefuseApply(ecus) \/ ApplyRaises
      PROVE  /\ applied' = applied
             /\ \A d \in Dtcs : flags'[d] \subseteq flags[d]
  BY <1>2 DEF RefuseApply, ApplyRaises, Cleared
<1>3. ASSUME NEW ecus \in SUBSET Ecus, Apply(ecus)
      PROVE  /\ \A i \in DOMAIN events : applied[i] => applied'[i]
             /\ \A d \in Dtcs : \A flag \in flags'[d] \ flags[d] :
                    \E i \in DOMAIN events : applied'[i] /\ ~applied[i] /\ Raises(i, d, flag)
  <2>1. applied' = [i \in DOMAIN events |-> applied[i] \/ i \in Due]
    BY <1>3 DEF Apply
  <2>2. ASSUME NEW d \in Dtcs, NEW flag \in flags'[d] \ flags[d]
        PROVE  \E i \in Due : Raises(i, d, flag)
    <3>1. flag \in AfterEvents(flags, Due)[d]
      BY <1>3, <2>2 DEF Apply, Cleared
    <3> QED
      BY <3>1, <2>2 DEF AfterEvents
  <2> QED
    BY <2>1, <2>2 DEF Due
<1> QED
  BY <1>1, <1>2, <1>3, StepIsSync DEF Sync

(* No event fires twice, and what a tester cleared stays cleared unless a later *)
(* event raises it.                                                             *)
THEOREM NothingIsReplayed == Spec => NoReplay
<1>1. TypeOK /\ [Next]_vars =>
        [/\ \A i \in DOMAIN events : applied[i] => applied'[i]
         /\ \A d \in Dtcs : \A flag \in flags'[d] \ flags[d] :
                \E i \in DOMAIN events : applied'[i] /\ ~applied[i] /\ Raises(i, d, flag)]_vars
  BY StepDoesNotReplay
<1> QED
  BY <1>1, TypeCorrect, PTL DEF Spec, NoReplay
-----------------------------------------------------------------------------
(* A diagnostic clear happens at a time that has been applied. *)
ClearsAreApplied == \A e \in Ecus : clearedAt[e] <= last

(* The strengthening of StateIsReplay that every step preserves. *)
ReplayInv == TypeOK /\ MarkersMatchTime /\ ClearsAreApplied /\ StateIsReplay

(* What is due at a call that applies is what the time passed over. *)
LEMMA DueIsPassedOver ==
    ASSUME TypeOK, MarkersMatchTime, clock >= last
    PROVE  \A i \in DOMAIN events : i \in Due <=> (last < events[i].at /\ events[i].at <= clock)
<1> SUFFICES ASSUME NEW i \in DOMAIN events
             PROVE  i \in Due <=> (last < events[i].at /\ events[i].at <= clock)
  OBVIOUS
<1>1. events[i].at \in Int /\ last \in Int
  BY EventTimes DEF TypeOK, NotYet
<1>2. applied[i] <=> events[i].at <= last
  BY DEF MarkersMatchTime
<1> QED
  BY <1>1, <1>2 DEF Due

(* In a list in the order of the times, an event that is due comes before    *)
(* another one on the same ECU in the list exactly when it does in time, and *)
(* after every event that arrived earlier.                                   *)
LEMMA ListOrderIsTimeOrder ==
    ASSUME TypeOK, MarkersMatchTime, clock >= last, Ascending,
           NEW i \in Due, NEW j \in DOMAIN events, events[i].ecu = events[j].ecu
    PROVE  /\ j \in Due => (j < i <=> Before(j, i))
           /\ j \in Arrived => (Before(j, i) /\ ~Before(i, j))
<1>1. i \in DOMAIN events /\ last < events[i].at /\ events[i].at <= clock
  BY DueIsPassedOver DEF Due
<1>2. events[i].at \in Nat /\ events[j].at \in Nat /\ last \in Int
  BY <1>1, EventTimes DEF TypeOK, NotYet
<1>3. i \in Nat /\ j \in Nat
  <2>1. events \in Seq(Event)
    BY ScenarioAssumption DEF TypeOK
  <2> QED
    BY <1>1, <2>1
<1>4. (i < j => events[i].at <= events[j].at) /\ (j < i => events[j].at <= events[i].at)
  BY <1>1 DEF Ascending
<1>5. j \in Arrived => events[j].at <= last
  BY DEF Arrived
<1> QED
  BY <1>1, <1>2, <1>3, <1>4, <1>5 DEF Before
-----------------------------------------------------------------------------
(* Replay, as a function of a time and of the time of the last clear. *)
Reached(t) == {i \in DOMAIN events : events[i].at <= t}

Replayed(d, flag, t, cleared) ==
    \/ \E i \in Reached(t) : /\ Raises(i, d, flag)
                             /\ events[i].at > cleared
                             /\ \A j \in Reached(t) : Resets(j, d) => Before(j, i)
    \/ /\ flag \in Initially[d]
       /\ cleared = NotYet
       /\ \A j \in Reached(t) : ~Resets(j, d)

(* Replay is that function at the time applied and at the time of the last clear. *)
LEMMA ReplayIsReplayed ==
    Replay = [d \in Dtcs |-> {flag \in Flags : Replayed(d, flag, last, clearedAt[d[1]])}]
  BY DEF Replay, Replayed, Reached, Arrived

(* The same of the state after a step, which leaves the list of events alone. *)
LEMMA ReplayIsReplayedNext ==
    ASSUME events' = events
    PROVE  Replay' = [d \in Dtcs |-> {flag \in Flags : Replayed(d, flag, last', clearedAt'[d[1]])}]
  BY DEF Replay, Replayed, Reached, Arrived, Raises, Resets, Before

(* Events act on the codes of their own ECU. *)
LEMMA SameEcu ==
    ASSUME NEW i, NEW d, NEW flag
    PROVE  /\ Raises(i, d, flag) => d[1] = events[i].ecu
           /\ Resets(i, d) => d[1] = events[i].ecu
  BY DEF Raises, Resets

(* One call of apply, over any number of events, moves the replay of a flag *)
(* from the time applied before to the time of the call.                    *)
LEMMA EventsExtendReplay ==
    ASSUME TypeOK, MarkersMatchTime, clock >= last, Ascending,
           NEW d \in Dtcs, NEW flag \in Flags, NEW cleared \in Int, cleared <= last,
           flag \in flags[d] <=> Replayed(d, flag, last, cleared)
    PROVE  flag \in AfterEvents(flags, Due)[d] <=> Replayed(d, flag, clock, cleared)
<1> DEFINE RaisedByDue == \E i \in Due : Raises(i, d, flag) /\ \A j \in Due : Resets(j, d) => j < i
           NotReset    == \A j \in Due : ~Resets(j, d)
<1>1. flag \in AfterEvents(flags, Due)[d] <=> RaisedByDue \/ (flag \in flags[d] /\ NotReset)
  BY DEF AfterEvents
<1>2. Reached(last) = Arrived
  BY DEF Reached, Arrived
<1>3. Reached(clock) = Arrived \cup Due
  <2>1. \A i \in DOMAIN events : events[i].at \in Int
    BY EventTimes
  <2>2. clock \in Int /\ last \in Int
    BY DEF TypeOK, NotYet
  <2> QED
    BY <2>1, <2>2, DueIsPassedOver DEF Reached, Arrived, Due
<1>4. Due \subseteq DOMAIN events /\ Arrived \subseteq DOMAIN events
  BY DEF Due, Arrived
<1>5. ASSUME RaisedByDue
      PROVE  Replayed(d, flag, clock, cleared)
  <2>1. PICK i \in Due : Raises(i, d, flag) /\ \A j \in Due : Resets(j, d) => j < i
    BY <1>5
  <2>2. \A j \in Reached(clock) : Resets(j, d) => Before(j, i)
    <3> SUFFICES ASSUME NEW j \in Reached(clock), Resets(j, d)
                 PROVE  Before(j, i)
      OBVIOUS
    <3>1. events[i].ecu = events[j].ecu /\ j \in DOMAIN events
      BY <2>1, <1>3, <1>4, SameEcu
    <3> QED
      BY <2>1, <3>1, <1>3, ListOrderIsTimeOrder
  <2>3. events[i].at > cleared
    <3>1. last < events[i].at
      BY <2>1, <1>4, DueIsPassedOver
    <3>2. events[i].at \in Int /\ last \in Int
      BY <2>1, <1>4, EventTimes DEF TypeOK, NotYet
    <3> QED
      BY <3>1, <3>2
  <2> QED
    BY <2>1, <2>2, <2>3, <1>3 DEF Replayed
<1>6. ASSUME NotReset
      PROVE  Replayed(d, flag, last, cleared) => Replayed(d, flag, clock, cleared)
  BY <1>2, <1>3, <1>6 DEF Replayed
<1>7. ASSUME Replayed(d, flag, clock, cleared)
      PROVE  RaisedByDue \/ (Replayed(d, flag, last, cleared) /\ NotReset)
  <2>1. CASE \E i \in Reached(clock) : /\ Raises(i, d, flag)
                                       /\ events[i].at > cleared
                                       /\ \A j \in Reached(clock) : Resets(j, d) => Before(j, i)
    <3>1. PICK i \in Reached(clock) : /\ Raises(i, d, flag)
                                      /\ events[i].at > cleared
                                      /\ \A j \in Reached(clock) : Resets(j, d) => Before(j, i)
      BY <2>1
    <3>2. \A j \in Due : Resets(j, d) => (Before(j, i) /\ j \in DOMAIN events /\ events[j].ecu = events[i].ecu)
      BY <3>1, <1>3, <1>4, SameEcu
    <3>3. CASE i \in Due
      <4>1. \A j \in Due : Resets(j, d) => j < i
        BY <3>2, <3>3, ListOrderIsTimeOrder
      <4> QED
        BY <3>1, <3>3, <4>1
    <3>4. CASE i \in Arrived
      <4>1. NotReset
        <5> SUFFICES ASSUME NEW j \in Due, Resets(j, d)
                     PROVE  FALSE
          OBVIOUS
        <5>1. i \in DOMAIN events
          BY <3>4, <1>4
        <5> QED
          BY <3>2, <3>4, <5>1, ListOrderIsTimeOrder
      <4> QED
        BY <3>1, <3>4, <4>1, <1>2, <1>3 DEF Replayed
    <3> QED
      BY <3>3, <3>4, <3>1, <1>3
  <2>2. CASE /\ flag \in Initially[d]
             /\ cleared = NotYet
             /\ \A j \in Reached(clock) : ~Resets(j, d)
    BY <2>2, <1>2, <1>3 DEF Replayed
  <2> QED
    BY <1>7, <2>1, <2>2 DEF Replayed
<1> QED
  BY <1>1, <1>5, <1>6, <1>7

(* Right after a clear the replay is empty: nothing that arrived is later. *)
LEMMA ClearedReplayIsEmpty ==
    ASSUME TypeOK, NEW d, NEW flag, NEW t \in Nat
    PROVE  ~Replayed(d, flag, t, t)
<1>1. \A i \in Reached(t) : events[i].at \in Int /\ ~(events[i].at > t)
  BY EventTimes DEF Reached
<1>2. t # NotYet
  BY DEF NotYet
<1> QED
  BY <1>1, <1>2 DEF Replayed

(* What every step preserves holds at the start: nothing has been applied. *)
LEMMA InitReplay == Init => ReplayInv
<1> SUFFICES ASSUME Init
             PROVE  ReplayInv
  OBVIOUS
<1>1. TypeOK /\ MarkersMatchTime
  BY InitTyped, InitMarkers
<1>2. ClearsAreApplied
  <2>1. \A e \in Ecus : clearedAt[e] = NotYet /\ last = NotYet
    BY DEF Init
  <2>2. NotYet <= NotYet
    BY DEF NotYet
  <2> QED
    BY <2>1, <2>2 DEF ClearsAreApplied
<1>3. Arrived = {}
  BY <1>1, EventTimes DEF Init, Arrived, NotYet
<1>4. \A d \in Dtcs : clearedAt[d[1]] = NotYet
  BY ScenarioAssumption DEF Init
<1>5. Replay = Initially
  BY <1>3, <1>4, ScenarioAssumption DEF Replay
<1> QED
  BY <1>1, <1>2, <1>5 DEF ReplayInv, StateIsReplay, Init

(* A call of apply that was refused, with the clear of a request after it. *)
LEMMA RefusedKeepsReplay ==
    ASSUME ReplayInv, events' = events, NEW ecus \in SUBSET Ecus, RefuseApply(ecus)
    PROVE  ClearsAreApplied' /\ StateIsReplay'
<1>1. clock < last /\ last' = last /\ flags' = Cleared(flags, ecus)
      /\ clearedAt' = [e \in Ecus |-> IF e \in ecus THEN last ELSE clearedAt[e]]
  BY DEF RefuseApply, Clear
<1>2. last \in Nat
  BY <1>1 DEF ReplayInv, TypeOK, NotYet
<1>3. ClearsAreApplied'
  BY <1>1, <1>2 DEF ClearsAreApplied, ReplayInv
<1>4. ASSUME Ascending'
      PROVE  flags' = Replay'
  <2>1. Ascending
    BY <1>4 DEF Ascending
  <2>2. flags = Replay
    BY <2>1 DEF ReplayInv, StateIsReplay
  <2>3. ASSUME NEW d \in Dtcs
        PROVE  flags'[d] = {flag \in Flags : Replayed(d, flag, last', clearedAt'[d[1]])}
    <3>1. d[1] \in Ecus
      BY ScenarioAssumption
    <3>2. CASE d[1] \in ecus
      <4>1. flags'[d] = {} /\ clearedAt'[d[1]] = last
        BY <1>1, <3>1, <3>2 DEF Cleared
      <4>2. \A flag \in Flags : ~Replayed(d, flag, last, last)
        BY <1>2, ClearedReplayIsEmpty DEF ReplayInv
      <4> QED
        BY <4>1, <4>2, <1>1
    <3>3. CASE d[1] \notin ecus
      <4>1. flags'[d] = flags[d] /\ clearedAt'[d[1]] = clearedAt[d[1]]
        BY <1>1, <3>1, <3>3 DEF Cleared
      <4> QED
        BY <4>1, <1>1, <2>2, ReplayIsReplayed
    <3> QED
      BY <3>2, <3>3
  <2>4. flags' = [d \in Dtcs |-> flags'[d]]
    BY <1>1 DEF Cleared
  <2> QED
    BY <2>3, <2>4, ReplayIsReplayedNext
<1> QED
  BY <1>3, <1>4 DEF StateIsReplay

(* A call of apply that applies, with the clear of a request after it. *)
LEMMA ApplyKeepsReplay ==
    ASSUME ReplayInv, events' = events, NEW ecus \in SUBSET Ecus, Apply(ecus)
    PROVE  ClearsAreApplied' /\ StateIsReplay'
<1>1. clock >= last /\ last' = clock /\ flags' = Cleared(AfterEvents(flags, Due), ecus)
      /\ clearedAt' = [e \in Ecus |-> IF e \in ecus THEN clock ELSE clearedAt[e]]
  BY DEF Apply, Clear
<1>2. clock \in Nat /\ last \in Int
  BY DEF ReplayInv, TypeOK, NotYet
<1>3. \A e \in Ecus : clearedAt[e] \in Int /\ clearedAt[e] <= last
  BY DEF ReplayInv, ClearsAreApplied, TypeOK, NotYet
<1>4. ClearsAreApplied'
  BY <1>1, <1>2, <1>3 DEF ClearsAreApplied
<1>5. ASSUME Ascending'
      PROVE  flags' = Replay'
  <2>1. Ascending
    BY <1>5 DEF Ascending
  <2>2. flags = Replay
    BY <2>1 DEF ReplayInv, StateIsReplay
  <2>3. ASSUME NEW d \in Dtcs, NEW flag \in Flags
        PROVE  flag \in flags'[d] <=> Replayed(d, flag, last', clearedAt'[d[1]])
    <3>1. d[1] \in Ecus
      BY ScenarioAssumption
    <3>2. CASE d[1] \in ecus
      <4>1. flags'[d] = {} /\ clearedAt'[d[1]] = clock
        BY <1>1, <3>1, <3>2 DEF Cleared
      <4>2. ~Replayed(d, flag, clock, clock)
        BY <1>2, ClearedReplayIsEmpty DEF ReplayInv
      <4> QED
        BY <4>1, <4>2, <1>1
    <3>3. CASE d[1] \notin ecus
      <4>1. flags'[d] = AfterEvents(flags, Due)[d] /\ clearedAt'[d[1]] = clearedAt[d[1]]
        BY <1>1, <3>1, <3>3 DEF Cleared
      <4>2. flag \in flags[d] <=> Replayed(d, flag, last, clearedAt[d[1]])
        BY <2>2, ReplayIsReplayed
      <4>3. flag \in AfterEvents(flags, Due)[d] <=> Replayed(d, flag, clock, clearedAt[d[1]])
        BY <1>1, <1>3, <2>1, <3>1, <4>2, EventsExtendReplay DEF ReplayInv
      <4> QED
        BY <4>1, <4>3, <1>1
    <3> QED
      BY <3>2, <3>3
  <2>4. flags' \in [Dtcs -> SUBSET Flags]
    BY <1>1 DEF Cleared, AfterEvents
  <2>5. flags' = [d \in Dtcs |-> {flag \in Flags : flag \in flags'[d]}]
    BY <2>4
  <2> QED
    BY <2>3, <2>5, ReplayIsReplayedNext
<1> QED
  BY <1>4, <1>5 DEF StateIsReplay

(* A step that leaves the runner and the stores alone. *)
LEMMA IdleKeepsReplay ==
    ASSUME ReplayInv, events' = events, flags' = flags, last' = last, clearedAt' = clearedAt
    PROVE  ClearsAreApplied' /\ StateIsReplay'
<1>1. ClearsAreApplied'
  BY DEF ReplayInv, ClearsAreApplied
<1>2. Replay' = Replay
  BY ReplayIsReplayed, ReplayIsReplayedNext
<1>3. Ascending' <=> Ascending
  BY DEF Ascending
<1> QED
  BY <1>1, <1>2, <1>3 DEF ReplayInv, StateIsReplay

(* Every step preserves the invariant. *)
LEMMA StepKeepsReplay == ReplayInv /\ [Next]_vars => ReplayInv'
<1> SUFFICES ASSUME ReplayInv, [Next]_vars
             PROVE  ReplayInv'
  OBVIOUS
<1>1. TypeOK' /\ MarkersMatchTime'
  BY StepTyped, StepKeepsMarkers DEF ReplayInv
<1>2. events' = events /\ ((\E ecus \in SUBSET Ecus : Sync(ecus)) \/ UNCHANGED domain)
  BY StepIsSync DEF ReplayInv
<1>3. CASE UNCHANGED domain
  BY <1>1, <1>2, <1>3, IdleKeepsReplay DEF ReplayInv, domain
<1>4. CASE \E ecus \in SUBSET Ecus : Sync(ecus)
  <2>1. PICK ecus \in SUBSET Ecus : Sync(ecus)
    BY <1>4
  <2>2. CASE RefuseApply(ecus)
    BY <1>1, <1>2, <2>2, RefusedKeepsReplay DEF ReplayInv
  <2>3. CASE ApplyRaises
    BY <1>1, <1>2, <2>3, IdleKeepsReplay DEF ReplayInv, ApplyRaises
  <2>4. CASE Apply(ecus)
    BY <1>1, <1>2, <2>4, ApplyKeepsReplay DEF ReplayInv
  <2> QED
    BY <2>1, <2>2, <2>3, <2>4 DEF Sync
<1> QED
  BY <1>2, <1>3, <1>4

(* For a profile that lists its events in the order of their times, what the *)
(* stores hold depends on the profile, the time applied and the diagnostic   *)
(* clears alone, and not on who synchronised, when, how often, or which      *)
(* calls failed.                                                             *)
THEOREM StateIsTheReplay == Spec => []StateIsReplay
<1>1. ReplayInv => StateIsReplay
  BY DEF ReplayInv
<1> QED
  BY <1>1, InitReplay, StepKeepsReplay, PTL DEF Spec
-----------------------------------------------------------------------------
(* With values that can be converted, a call writes every signal or none. *)
LEMMA StepKeepsAsOf == TypeOK /\ AsOfHolds /\ [Next]_vars => AsOfHolds'
<1> SUFFICES ASSUME TypeOK, AsOfHolds, [Next]_vars, \A s \in Signals : bad'[s] = {}
             PROVE  \A s \in Signals : written'[s] = last'
  BY DEF AsOfHolds, AsOfIsTheValuesTime
<1>1. bad' = bad /\ ((\E ecus \in SUBSET Ecus : Sync(ecus)) \/ UNCHANGED domain)
  BY StepIsSync
<1>2. \A s \in Signals : written[s] = last
  BY <1>1 DEF AsOfHolds, AsOfIsTheValuesTime
<1>3. CASE UNCHANGED domain
  BY <1>2, <1>3 DEF domain
<1>4. CASE \E ecus \in SUBSET Ecus : Sync(ecus)
  <2>1. PICK ecus \in SUBSET Ecus : Sync(ecus)
    BY <1>4
  <2>2. ~ValueRefused
    BY <1>1 DEF ValueRefused
  <2>3. CASE RefuseApply(ecus)
    BY <1>2, <2>3 DEF RefuseApply
  <2>4. CASE Apply(ecus)
    <3>1. SignalsWritten = [s \in Signals |-> clock]
      <4>1. \A s \in Signals : 1..s \subseteq Signals
        BY Bounds DEF Signals
      <4> QED
        BY <4>1, <2>2 DEF SignalsWritten, ValueRefused
    <3> QED
      BY <2>4, <3>1 DEF Apply
  <2> QED
    BY <2>1, <2>2, <2>3, <2>4 DEF Sync, ApplyRaises
<1> QED
  BY <1>1, <1>3, <1>4

(* For a profile all of whose values can be converted, the vehicle an observer *)
(* reads is the vehicle at the scenario time reported with it.                 *)
THEOREM AsOfIsRight == Spec => []AsOfHolds
<1>1. Init => TypeOK /\ AsOfHolds
  BY InitTyped DEF Init, AsOfHolds, AsOfIsTheValuesTime
<1>2. (TypeOK /\ AsOfHolds) /\ [Next]_vars => (TypeOK /\ AsOfHolds)'
  BY StepTyped, StepKeepsAsOf
<1> QED
  BY <1>1, <1>2, PTL DEF Spec
-----------------------------------------------------------------------------
(* Induction over the natural numbers, for the members of a set: a set that   *)
(* is not all of them misses a smallest one.                                  *)
LEMMA NatSetInduction ==
    ASSUME NEW S \in SUBSET Nat, 0 \in S, \A n \in S : n + 1 \in S
    PROVE  \A n \in Nat : n \in S
<1> SUFFICES ASSUME NEW n \in Nat, n \notin S
             PROVE  FALSE
  OBVIOUS
<1> DEFINE T == Nat \ S
           R == OpToRel(<, Nat)
<1>1. IsWellFoundedOn(R, Nat) /\ T \subseteq Nat /\ T # {}
  BY NatLessThanWellFounded
<1>2. R = {ss \in Nat \X Nat : ss[1] < ss[2]}
  BY DEF OpToRel
<1> HIDE DEF R
<1>3. PICK x \in T : \A y \in T : <<y, x>> \notin R
  <2> HIDE DEF T
  <2> QED
    BY <1>1, WFMin
<1>4. x # 0 /\ x - 1 \in Nat /\ x - 1 \notin S
  OBVIOUS
<1>5. <<x - 1, x>> \in R
  BY <1>4, <1>2
<1> QED
  BY <1>3, <1>4, <1>5

(* One more event that is due: what AfterEvents says of them all is one call *)
(* of the store after what it says of those before.                          *)
LEMMA OneMoreEvent ==
    ASSUME NEW due \in SUBSET Nat, NEW k \in due, \A j \in due : j <= k
    PROVE  AfterEvents(flags, due) = OneCall(AfterEvents(flags, due \ {k}), k)
<1> SUFFICES ASSUME NEW d \in Dtcs, NEW flag \in Flags
             PROVE  flag \in AfterEvents(flags, due)[d]
                    <=> flag \in OneCall(AfterEvents(flags, due \ {k}), k)[d]
  <2>1. AfterEvents(flags, due) = [d \in Dtcs |-> {flag \in Flags : flag \in AfterEvents(flags, due)[d]}]
    BY DEF AfterEvents
  <2>2. OneCall(AfterEvents(flags, due \ {k}), k)
        = [d \in Dtcs |-> {flag \in Flags : flag \in OneCall(AfterEvents(flags, due \ {k}), k)[d]}]
    BY DEF OneCall, AfterEvents
  <2> QED
    BY <2>1, <2>2
<1> DEFINE before == due \ {k}
           Raised(s) == \E i \in s : Raises(i, d, flag) /\ \A j \in s : Resets(j, d) => j < i
           Kept(s)   == flag \in flags[d] /\ \A j \in s : ~Resets(j, d)
<1>1. \A s : flag \in AfterEvents(flags, s)[d] <=> Raised(s) \/ Kept(s)
  BY DEF AfterEvents
<1>2. flag \in OneCall(AfterEvents(flags, before), k)[d]
      <=> ~Resets(k, d) /\ (flag \in AfterEvents(flags, before)[d] \/ Raises(k, d, flag))
  BY DEF OneCall
<1>3. \A j \in before : j \in Nat /\ k \in Nat /\ j < k
  OBVIOUS
<1>4. due = before \cup {k}
  OBVIOUS
<1>5. Raises(k, d, flag) => ~Resets(k, d)
  BY DEF Raises, Resets, RaisedFlag
<1>6. CASE Resets(k, d)
  <2>1. ~Kept(due)
    BY <1>6
  <2>2. ~Raised(due)
    <3> SUFFICES ASSUME NEW i \in due, Raises(i, d, flag), k < i
                 PROVE  FALSE
      BY <1>6
    <3> QED
      BY <1>3, <1>4
  <2> QED
    BY <1>1, <1>2, <1>6, <2>1, <2>2
<1>7. CASE ~Resets(k, d)
  <2>1. Kept(due) <=> Kept(before)
    BY <1>4, <1>7
  <2>2. Raised(due) <=> Raised(before) \/ Raises(k, d, flag)
    <3>1. ASSUME Raises(k, d, flag)
          PROVE  Raised(due)
      BY <1>3, <1>4, <1>7, <3>1
    <3>2. Raised(before) => Raised(due)
      BY <1>4, <1>7
    <3>3. Raised(due) => Raised(before) \/ Raises(k, d, flag)
      BY <1>4
    <3> QED
      BY <3>1, <3>2, <3>3
  <2> QED
    BY <1>1, <1>2, <1>7, <2>1, <2>2
<1> QED
  BY <1>6, <1>7

(* With nothing due, nothing happens. *)
LEMMA NoEvent ==
    ASSUME flags \in [Dtcs -> SUBSET Flags]
    PROVE  AfterEvents(flags, {}) = flags
  BY DEF AfterEvents

(* The table after each event of the list, as the loop computes it. *)
IsLoop(g, due) ==
    g = [i \in 0..Len(events) |->
            IF i = 0 THEN flags ELSE IF i \in due THEN OneCall(g[i - 1], i) ELSE g[i - 1]]

(* There is such a table: AfterEvents of what is due among the first events. *)
LEMMA ThereIsALoop ==
    ASSUME flags \in [Dtcs -> SUBSET Flags], NEW due \in SUBSET Nat, Len(events) \in Nat
    PROVE  IsLoop([i \in 0..Len(events) |-> AfterEvents(flags, due \cap 1..i)], due)
<1> DEFINE g == [i \in 0..Len(events) |-> AfterEvents(flags, due \cap 1..i)]
<1>1. ASSUME NEW i \in 0..Len(events)
      PROVE  g[i] = IF i = 0 THEN flags ELSE IF i \in due THEN OneCall(g[i - 1], i) ELSE g[i - 1]
  <2>1. CASE i = 0
    <3>1. due \cap 1..0 = {}
      OBVIOUS
    <3> QED
      BY <2>1, <3>1, NoEvent
  <2>2. CASE i # 0
    <3>1. i \in Nat /\ i - 1 \in 0..Len(events)
      BY <2>2
    <3>2. g[i - 1] = AfterEvents(flags, due \cap 1..(i - 1))
      BY <3>1
    <3>3. CASE i \in due
      <4>1. i \in due \cap 1..i /\ (\A j \in due \cap 1..i : j <= i)
        BY <3>1, <3>3, <2>2
      <4>2. (due \cap 1..i) \ {i} = due \cap 1..(i - 1)
        BY <3>1
      <4>3. AfterEvents(flags, due \cap 1..i) = OneCall(AfterEvents(flags, (due \cap 1..i) \ {i}), i)
        BY <4>1, OneMoreEvent
      <4> QED
        BY <2>2, <3>2, <3>3, <4>2, <4>3
    <3>4. CASE i \notin due
      <4>1. due \cap 1..i = due \cap 1..(i - 1)
        BY <3>1, <3>4
      <4> QED
        BY <2>2, <3>2, <3>4, <4>1
    <3> QED
      BY <3>3, <3>4
  <2> QED
    BY <2>1, <2>2
<1> HIDE DEF g
<1>2. g = [i \in 0..Len(events) |-> g[i]]
  BY DEF g
<1>3. IsLoop(g, due)
  BY <1>1, <1>2 DEF IsLoop
<1> QED
  BY <1>3 DEF g

(* And no other. *)
LEMMA OneLoop ==
    ASSUME NEW due, Len(events) \in Nat, NEW g, NEW h, IsLoop(g, due), IsLoop(h, due)
    PROVE  g[Len(events)] = h[Len(events)]
<1> DEFINE S == {n \in Nat : n <= Len(events) => g[n] = h[n]}
<1>1. \A i \in 0..Len(events) :
        g[i] = IF i = 0 THEN flags ELSE IF i \in due THEN OneCall(g[i - 1], i) ELSE g[i - 1]
  BY DEF IsLoop
<1>2. \A i \in 0..Len(events) :
        h[i] = IF i = 0 THEN flags ELSE IF i \in due THEN OneCall(h[i - 1], i) ELSE h[i - 1]
  BY DEF IsLoop
<1>3. 0 \in S
  BY <1>1, <1>2
<1>4. ASSUME NEW n \in S
      PROVE  n + 1 \in S
  <2> SUFFICES ASSUME n + 1 <= Len(events)
               PROVE  g[n + 1] = h[n + 1]
    OBVIOUS
  <2>1. n + 1 \in 0..Len(events) /\ n + 1 # 0 /\ (n + 1) - 1 = n /\ g[n] = h[n]
    OBVIOUS
  <2> HIDE DEF S
  <2>2. g[n + 1] = IF n + 1 \in due THEN OneCall(g[n], n + 1) ELSE g[n]
    BY <1>1, <2>1
  <2>3. h[n + 1] = IF n + 1 \in due THEN OneCall(h[n], n + 1) ELSE h[n]
    BY <1>2, <2>1
  <2> QED
    BY <2>1, <2>2, <2>3
<1>5. S \in SUBSET Nat
  OBVIOUS
<1> HIDE DEF S
<1>6. \A n \in Nat : n \in S
  BY <1>3, <1>4, <1>5, NatSetInduction
<1> QED
  BY <1>6 DEF S

(* What AfterEvents says of the events that are due, in one formula, is what *)
(* the loop over the list computes.                                          *)
LEMMA TheLoopIsAfterEvents == TypeOK => AfterEventsIsTheLoop
<1> SUFFICES ASSUME TypeOK, NEW due \in SUBSET DOMAIN events
             PROVE  AfterEvents(flags, due) = Loop(due)
  BY DEF AfterEventsIsTheLoop
<1>1. flags \in [Dtcs -> SUBSET Flags]
  BY DEF TypeOK
<1>2. Len(events) \in Nat /\ DOMAIN events = 1..Len(events)
  <2>1. events \in Seq(Event)
    BY ScenarioAssumption DEF TypeOK
  <2> QED
    BY <2>1
<1>3. due \in SUBSET Nat /\ due \cap 1..Len(events) = due
  BY <1>2
<1> DEFINE loop == CHOOSE g : IsLoop(g, due)
           g    == [i \in 0..Len(events) |-> AfterEvents(flags, due \cap 1..i)]
<1>4. IsLoop(g, due)
  BY <1>1, <1>2, <1>3, ThereIsALoop
<1>5. g[Len(events)] = AfterEvents(flags, due)
  <2>1. Len(events) \in 0..Len(events)
    BY <1>2
  <2> QED
    BY <1>3, <2>1
<1>6. Loop(due) = loop[Len(events)]
  BY DEF Loop, IsLoop
<1> HIDE DEF g
<1>7. IsLoop(loop, due)
  BY <1>4
<1> HIDE DEF loop
<1>8. loop[Len(events)] = g[Len(events)]
  BY <1>2, <1>4, <1>7, OneLoop
<1> QED
  BY <1>5, <1>6, <1>8

(* The events whose marker is not set are those later than the time applied. *)
LEMMA TheStatusAgrees == TypeOK /\ MarkersMatchTime => StatusAgrees
<1> SUFFICES ASSUME TypeOK, MarkersMatchTime
             PROVE  StatusAgrees
  OBVIOUS
<1>1. ASSUME NEW i \in DOMAIN events
      PROVE  ~applied[i] <=> events[i].at > last
  <2>1. events[i].at \in Int /\ last \in Int
    BY EventTimes DEF TypeOK, NotYet
  <2> QED
    BY <2>1 DEF MarkersMatchTime
<1>2. {i \in DOMAIN events : ~applied[i]} = {i \in DOMAIN events : events[i].at > last}
  BY <1>1
<1> QED
  BY <1>2 DEF StatusAgrees, Status, PendingEvents

(* Every call of apply does with the events that are due what the loop of the  *)
(* code does, whatever the list, and GET /status always counts as pending the  *)
(* events later than the time it reports.                                      *)
THEOREM EventsAreAccountedFor == Spec => []EventsAccountedFor
<1>1. TypeOK /\ MarkersMatchTime => EventsAccountedFor
  BY TheLoopIsAfterEvents, TheStatusAgrees DEF EventsAccountedFor
<1> QED
  BY <1>1, TypeCorrect, MarkersAreRight, PTL
=============================================================================
