------------------------------- MODULE Observer -------------------------------
(***************************************************************************)
(* The observer's stream of exchanges, from the dispatcher to the clients  *)
(* of WS /api/v1/events:                                                   *)
(*   observe/wrapper.py    ObservedDispatcher numbers every exchange;      *)
(*   observe/handoff.py    HandOff buffers it, or drops and counts it;     *)
(*   observe/publisher.py  Publisher drains the buffer into the history    *)
(*                         ring and into every open connection, and keeps  *)
(*                         the account of what became of every exchange;   *)
(*   observe/writer.py     run_writer sends one connection's messages.     *)
(* Everything runs in one asyncio event loop, so an action is the code     *)
(* between two awaits.  A turn of Publisher.run may stop after any one     *)
(* record (TURN_MAX_S), so a turn of several is that many turns of one.    *)
(***************************************************************************)
EXTENDS Connection, History

CONSTANTS
    MaxConnections,     \* bound: connections ever opened
    MaxRefused,         \* bound: connects refused with TooManyClients
    MaxFaults,          \* bound: failed encodings, offers, snapshots and writers
    MaxTime,            \* bound: ticks of the clock
    MaxStateTurns,      \* bound: ticks in which run_state takes a snapshot
    MaxStates,          \* bound: distinct texts of the state message
    Afters,             \* bound: the after= a client may ask for
    HandlerCodes,       \* bound: the codes that the handler and stop() give by themselves
    ClientCodes         \* bound: the codes that a client's own close frame may carry

ASSUME ObserverAssumption ==
    /\ {MaxConnections, MaxRefused, MaxFaults, MaxTime, MaxStateTurns} \subseteq Nat
    /\ MaxStates \in Nat \ {0}
    /\ Afters \subseteq Nat \cup {NoAfter}
    \* 1001 of stop(), 1008 of the handler, 1006 of a lost socket (server.py:273, 349, 338, 356).
    /\ HandlerCodes \subseteq Nat \ {NotClosed, InternalError, TooSlow}
    \* Any code, 1011 and 1013 too; a frame without one, or with code 0, is recorded as 1006.
    /\ ClientCodes \subseteq Nat \ {NotClosed}

Ids == 1..MaxConnections

VARIABLES
    issued,      \* ObservedDispatcher.issued
    handoff,     \* HandOff: the records it holds, their bytes, and how many it dropped
    wake,        \* Publisher._event is set
    draining,    \* Publisher.run is inside its loop, not awaiting _event
    published,   \* Publisher.published
    ring,        \* Publisher.history
    opened,      \* Publisher._next_id and connections_opened
    conns,       \* every Connection object, by id
    connections, \* Publisher.connections: the ids registered
    unresolved,  \* Publisher._unresolved: the ids retired and not yet in the totals
    totals,      \* Publisher._totals
    counters,    \* Publisher's refused_clients, forced_disconnects, *_failed
    feed,        \* run_state: the last text pushed, _must_publish, when it runs next
    now,         \* the monotonic clock
    writer,      \* each connection's writer task: where it waits and what state it is sending
    history,     \* each writer's history, from the event it sends next
    client,      \* each client: what it asked for and what was written to its socket
    log,         \* history variable: every exchange published, in order
    hungUp       \* history variable: the connections closed with the code of the client's own frame

stream == <<issued, handoff, wake, draining, published, ring, log>>
tasks  == <<writer, history>>
vars == <<stream, opened, conns, connections, unresolved, totals, counters, feed, now, tasks, client, hungUp>>

LedgerFields ==
    {"connections", "published_span", "history_sent", "offered", "client_dropped", "enqueued",
     "sent", "delivery_unknown", "discarded_on_close", "closed_1011", "closed_1013",
     "delivery_unknown_over_allowance"}

CounterNames ==
    {"refused_clients", "forced_disconnects", "encode_failed", "fanout_failed", "writer_failed",
     "state_encode_failed"}

Faults == counters["encode_failed"] + counters["fanout_failed"] + counters["writer_failed"]
            + counters["state_encode_failed"]

(* Where a writer task is: not started, in wait_changed, in a send, died of *)
(* an exception nobody has looked at yet, or done.                           *)
Sending == {"hello", "preamble", "live"}
WriterStates == {"none", "wait", "raised", "ended"} \cup Sending

Init ==
    /\ issued = 0
    /\ handoff = [records |-> << >>, bytes |-> 0, dropped |-> 0]
    /\ wake = FALSE
    /\ draining = FALSE
    /\ published = 0
    /\ ring = EmptyRing
    /\ opened = 0
    /\ conns = [i \in Ids |-> NewConnection(0, 0, 0)]
    /\ connections = {}
    /\ unresolved = {}
    /\ totals = [f \in LedgerFields |-> 0]
    /\ counters = [n \in CounterNames |-> 0]
    /\ feed = [last |-> 1, mustPublish |-> FALSE, due |-> 0]
    /\ now = 0
    /\ writer = [i \in Ids |-> [at |-> "none", carrying |-> 0, took |-> 0]]
    /\ history = [i \in Ids |-> << >>]
    /\ client = [i \in Ids |-> [after |-> NoAfter, gap |-> FALSE, opening |-> << >>, got |-> << >>,
                             state |-> 0]]
    /\ log = << >>
    /\ hungUp = {}

-----------------------------------------------------------------------------
(* The account of closed connections. *)

Ledger(c) ==
    [connections        |-> 1,
     published_span     |-> c.publishedAtClose - c.publishedAtOpen,
     history_sent       |-> c.historySent,
     offered            |-> c.offered,
     client_dropped     |-> c.clientDropped,
     enqueued           |-> c.enqueued,
     sent               |-> c.sent,
     delivery_unknown   |-> c.unknown,
     discarded_on_close |-> c.discarded,
     closed_1011        |-> IF c.closeCode = InternalError THEN 1 ELSE 0,
     closed_1013        |-> IF c.closeCode = TooSlow THEN 1 ELSE 0,
     delivery_unknown_over_allowance |->
         IF c.unknown > (IF c.closeCode \in {TooSlow, 1006} THEN 1 ELSE 0) THEN 1 ELSE 0]

SumOfLedgers(ids, cs) ==
    [f \in LedgerFields |-> SumFunction([i \in ids |-> Ledger(cs[i])[f]])]

(* Mutant of Fold: does not wait for a send under way. *)
FoldAtOnce(ids, cs) ==
    LET added == SumOfLedgers(ids, cs)
    IN  /\ unresolved' = {}
        /\ totals' = [f \in LedgerFields |-> totals[f] + added[f]]

(* _fold: each closed connection is added once, when its in-flight send has *)
(* resolved; the others keep waiting.                                       *)
Fold(ids, cs) ==
    LET final == {i \in ids : Queued(cs[i]) = 0}
        added == SumOfLedgers(final, cs)
    IN  /\ unresolved' = ids \ final
        /\ totals' = [f \in LedgerFields |-> totals[f] + added[f]]

(* _retire, for each of the registered connections that leave; cs and counts *)
(* are the connections and the counters as the calls before it left them.    *)
CountLeaving(leaving, cs, counts) ==
    counters' = [counts EXCEPT !["forced_disconnects"] =
                     @ + Cardinality({i \in leaving : cs[i].closeCode = TooSlow})]

Account(leaving, cs, counts) ==
    /\ CountLeaving(leaving, cs, counts)
    /\ IF leaving = {} THEN UNCHANGED <<unresolved, totals>>
                       ELSE Fold(unresolved \cup leaving, cs)

Retire(ids, cs, counts) ==
    /\ connections' = connections \ ids
    /\ Account(ids \cap connections, cs, counts)

(* _retire_closed: what connect and stats retire first, closed outside the Publisher. *)
ClosedMeanwhile == {i \in connections : Closed(conns[i])}

Count(name) == [counters EXCEPT ![name] = @ + 1]

-----------------------------------------------------------------------------
(* The dispatch path and the publisher task. *)

(* Mutant of Dispatch: a full hand-off drops without counting. *)
DispatchDropsUncounted ==
    LET n == issued + 1
    IN  /\ issued < MaxIssued
        /\ issued' = n
        /\ handoff' = IF Len(handoff.records) >= HandOffMaxRecords
                      THEN handoff
                      ELSE [handoff EXCEPT !.records = Append(@, n), !.bytes = @ + RecordSize[n]]
        /\ wake' = TRUE
        /\ UNCHANGED <<draining, published, ring, log, opened, conns, connections, unresolved, totals,
                       counters, feed, now, tasks, client, hungUp>>

(* ObservedDispatcher.__call__: one exchange, answered or raised; it is *)
(* numbered, handed off or dropped, and the publisher is woken.         *)
Dispatch ==
    LET n    == issued + 1
        full == \/ Len(handoff.records) >= HandOffMaxRecords
                \/ handoff.bytes + RecordSize[n] > HandOffMaxBytes
    IN  /\ issued < MaxIssued
        /\ issued' = n
        /\ handoff' = IF full
                      THEN [handoff EXCEPT !.dropped = @ + 1]
                      ELSE [handoff EXCEPT !.records = Append(@, n), !.bytes = @ + RecordSize[n]]
        /\ wake' = TRUE
        /\ UNCHANGED <<draining, published, ring, log, opened, conns, connections, unresolved, totals,
                       counters, feed, now, tasks, client, hungUp>>

(* Mutant of Offered: an abandoned connection's span takes in the failed offer. *)
OfferedThenAbandonedLate(c, n, raises) ==
    IF raises THEN Close(c, InternalError, published + 1) ELSE Offer(c, n, now)

(* What one publication does to a connection: an offer that raises leaves the *)
(* queue and the counters alone and the connection is closed one publication   *)
(* earlier (_abandon).                                                         *)
Offered(c, n, raises) ==
    IF raises THEN Close(c, InternalError, published) ELSE Offer(c, n, now)

(* Mutant of Publish: a client forced out by its offer is not retired. *)
PublishForgetsForced(n) ==
    LET cs == [i \in Ids |-> IF i \in connections THEN Offered(conns[i], n, FALSE) ELSE conns[i]]
    IN  /\ published' = published + 1
        /\ ring' = RingAdd(ring, n)
        /\ log' = Append(log, n)
        /\ conns' = cs
        /\ UNCHANGED <<connections, unresolved, totals, counters>>

(* _publish: never fails.  An event that does not encode becomes a fallback, *)
(* a connection whose offer raises is abandoned.                             *)
Publish(n) ==
    \E encodes \in BOOLEAN, raising \in SUBSET connections :
        LET cs     == [i \in Ids |-> IF i \in connections THEN Offered(conns[i], n, i \in raising)
                                                          ELSE conns[i]]
            counts == [counters EXCEPT !["encode_failed"] = @ + (IF encodes THEN 0 ELSE 1),
                                       !["fanout_failed"] = @ + Cardinality(raising)]
        IN  /\ \/ encodes /\ raising = {}
               \/ Faults + Cardinality(raising) + (IF encodes THEN 0 ELSE 1) <= MaxFaults
            /\ published' = published + 1
            /\ ring' = RingAdd(ring, n)
            /\ log' = Append(log, n)
            /\ conns' = cs
            /\ Retire({i \in connections : Closed(cs[i])}, cs, counts)

(* Mutant of PublisherTurn: one record for each wake-up. *)
PublisherTurnOnce ==
    /\ wake
    /\ wake' = FALSE
    /\ UNCHANGED draining
    /\ IF handoff.records = << >>
       THEN UNCHANGED <<handoff, published, ring, log, conns, connections, unresolved, totals, counters>>
       ELSE /\ handoff' = [handoff EXCEPT !.records = Tail(@),
                                          !.bytes = @ - RecordSize[Head(handoff.records)]]
            /\ Publish(Head(handoff.records))
    /\ UNCHANGED <<issued, opened, feed, now, tasks, client, hungUp>>

(* Publisher.run, from one await to the next: the event is cleared before the *)
(* buffer is read, and the buffer is read until it is empty.                  *)
PublisherTurn ==
    /\ draining \/ wake
    /\ IF handoff.records = << >>
       THEN /\ draining' = FALSE
            /\ wake' = FALSE
            /\ UNCHANGED <<handoff, published, ring, log, conns, connections, unresolved, totals, counters>>
       ELSE /\ draining' = TRUE
            /\ wake' = (draining /\ wake)
            /\ handoff' = [handoff EXCEPT !.records = Tail(@),
                                          !.bytes = @ - RecordSize[Head(handoff.records)]]
            /\ Publish(Head(handoff.records))
    /\ UNCHANGED <<issued, opened, feed, now, tasks, client, hungUp>>

-----------------------------------------------------------------------------
(* Clients come and go. *)

(* Mutant of Connect: the id is not counted. *)
ConnectUncounted(after) ==
    LET i == opened + 1
    IN  /\ opened < MaxConnections
        /\ Cardinality(connections) < MaxClients
        /\ connections' = connections \cup {i}
        /\ UNCHANGED <<stream, opened, conns, unresolved, totals, counters, feed, now, tasks, client, hungUp>>

(* connect: one synchronous step, so nothing is published between reading the *)
(* history and registering the connection.                                    *)
Connect(after) ==
    LET i       == opened + 1
        opening == Since(ring, after)
        fresh   == NewConnection(ring.lastSeq, published, Len(opening))
    IN  /\ opened < MaxConnections
        /\ Cardinality(connections \ ClosedMeanwhile) < MaxClients
        /\ opened' = i
        /\ conns' = [conns EXCEPT ![i] = SetState(fresh, feed.last)]
        /\ connections' = (connections \ ClosedMeanwhile) \cup {i}
        /\ Account(ClosedMeanwhile, conns, counters)
        /\ history' = [history EXCEPT ![i] = opening]
        /\ client' = [client EXCEPT ![i] = [@ EXCEPT !.after = after, !.gap = Gap(ring, after),
                                                     !.opening = opening]]
        /\ UNCHANGED <<stream, feed, now, writer, hungUp>>

(* connect, with every client slot taken. *)
RefuseClient ==
    /\ Cardinality(connections \ ClosedMeanwhile) >= MaxClients
    /\ counters["refused_clients"] < MaxRefused
    /\ Retire(ClosedMeanwhile, conns, Count("refused_clients"))
    /\ UNCHANGED <<stream, opened, conns, feed, now, tasks, client, hungUp>>

(* disconnect: close, where the first code wins, then retire. *)
CloseAndRetire(i, code, counts) ==
    /\ conns' = [conns EXCEPT ![i] = Close(@, code, published)]
    /\ Retire({i}, conns', counts)

(* The handler of /events or ApiServer.stop ends a connection whose socket is *)
(* ready.  When the client itself closed, the handler takes over the code of   *)
(* its frame, whatever it is (ws.close_code).                                  *)
Disconnect(i) ==
    /\ i <= opened
    /\ writer[i].at # "none"
    /\ \/ /\ \E code \in HandlerCodes : CloseAndRetire(i, code, counters)
          /\ UNCHANGED hungUp
       \/ /\ \E code \in ClientCodes : CloseAndRetire(i, code, counters)
          /\ hungUp' = IF Closed(conns[i]) THEN hungUp ELSE hungUp \cup {i}
    /\ UNCHANGED <<stream, opened, feed, now, tasks, client>>

(* GET /status: stats folds what has resolved since. *)
Stats ==
    /\ connections' = connections \ ClosedMeanwhile
    /\ CountLeaving(ClosedMeanwhile, conns, counters)
    /\ Fold(unresolved \cup ClosedMeanwhile, conns)
    /\ UNCHANGED <<stream, opened, conns, feed, now, tasks, client, hungUp>>

-----------------------------------------------------------------------------
(* The writer task of one connection. *)

Task(i, c, at, carrying, rest) ==
    /\ conns' = [conns EXCEPT ![i] = c]
    /\ history' = [history EXCEPT ![i] = rest]
    /\ writer' = [writer EXCEPT ![i] = [at |-> at, carrying |-> carrying,
                                        took |-> IF c.inFlight # 0 THEN now ELSE @.took]]

(* run_writer from a message it has dealt with to its next await: the rest of *)
(* the history, whether or not the connection has closed; then the loop.      *)
Proceed(i, c, rest) ==
    IF rest # << >>            THEN Task(i, c, "preamble", 0, rest)
    ELSE IF Closed(c)          THEN Task(i, c, "ended", 0, << >>)
    ELSE IF NothingToSend(c)   THEN Task(i, [c EXCEPT !.changed = FALSE], "wait", 0, << >>)
    ELSE Task(i, NextMessage(c), "live", c.state, << >>)

(* What is under way has been written to the client's socket. *)
Reached(i) ==
    LET w == writer[i]
        c == client[i]
    IN  IF w.carrying # 0        THEN [c EXCEPT !.state = w.carrying]
        ELSE IF w.at = "preamble" THEN [c EXCEPT !.got = Append(@, Head(history[i]))]
        ELSE IF conns[i].inFlight # 0 THEN [c EXCEPT !.got = Append(@, conns[i].inFlight)]
        ELSE c

(* _events after ws.prepare: the writer task begins with hello. *)
StartWriter(i) ==
    /\ i <= opened
    /\ writer[i].at = "none"
    /\ writer' = [writer EXCEPT ![i].at = "hello"]
    /\ UNCHANGED <<stream, opened, conns, connections, unresolved, totals, counters, feed, now, history, client,
                   hungUp>>

(* ws.prepare raises: the connection is closed and no writer ever starts. *)
PrepareFails(i) ==
    /\ i <= opened
    /\ writer[i].at = "none"
    /\ writer' = [writer EXCEPT ![i].at = "ended"]
    /\ history' = [history EXCEPT ![i] = << >>]
    /\ CloseAndRetire(i, 1006, counters)
    /\ UNCHANGED <<stream, opened, feed, now, client, hungUp>>

(* send returns: the message is resolved and the writer goes on. *)
SendReturns(i) ==
    LET w == writer[i]
        c == conns[i]
    IN  /\ w.at \in Sending
        /\ client' = [client EXCEPT ![i] = Reached(i)]
        /\ \/ /\ w.at = "hello"
              /\ IF c.state # 0 THEN Task(i, TakeState(c), "preamble", c.state, history[i])
                                ELSE Proceed(i, c, history[i])
           \/ /\ w.at = "preamble"
              /\ Proceed(i, c, IF w.carrying # 0 THEN history[i] ELSE Tail(history[i]))
           \/ /\ w.at = "live"
              /\ Proceed(i, MarkSent(c), << >>)
        /\ UNCHANGED <<stream, opened, connections, unresolved, totals, counters, feed, now, hungUp>>

(* send raises NotDelivered: the socket was already closed or closing.  The *)
(* handler of the connection is the one to record that (_writer_ended).     *)
SendRefused(i) ==
    /\ writer[i].at \in Sending
    /\ Task(i, MarkFailed(conns[i]), "ended", 0, << >>)
    /\ UNCHANGED <<stream, opened, connections, unresolved, totals, counters, feed, now, client, hungUp>>

(* send raises anything else: the message may have been written or not. *)
SendRaises(i) ==
    /\ writer[i].at \in Sending
    /\ Faults < MaxFaults
    /\ client' \in {client, [client EXCEPT ![i] = Reached(i)]}
    /\ Task(i, MarkUnknown(conns[i]), "raised", 0, << >>)
    /\ UNCHANGED <<stream, opened, connections, unresolved, totals, counters, feed, now, hungUp>>

(* The writer's done callback: a writer that died on a healthy socket is a *)
(* server fault (fail_writer); on a socket going away the handler decides. *)
WriterEnded(i) ==
    /\ writer[i].at = "raised"
    /\ writer' = [writer EXCEPT ![i].at = "ended"]
    /\ \E healthy \in BOOLEAN :
           IF healthy /\ ~Closed(conns[i])
           THEN CloseAndRetire(i, InternalError, Count("writer_failed"))
           ELSE UNCHANGED <<conns, connections, unresolved, totals, counters>>
    /\ UNCHANGED <<stream, opened, feed, now, history, client, hungUp>>

(* The handler's grace for the writer runs out while it is sending; outside the *)
(* live send nothing is in flight, and MarkUnknown has nothing to resolve.       *)
CancelWriter(i) ==
    /\ writer[i].at \in Sending
    /\ Closed(conns[i])
    /\ client' \in {client, [client EXCEPT ![i] = Reached(i)]}
    /\ Task(i, MarkUnknown(conns[i]), "ended", 0, << >>)
    /\ UNCHANGED <<stream, opened, connections, unresolved, totals, counters, feed, now, hungUp>>

(* wait_changed returns: the event is cleared and the loop goes round. *)
WriterWakes(i) ==
    /\ writer[i].at = "wait"
    /\ conns[i].changed
    /\ Proceed(i, [conns[i] EXCEPT !.changed = FALSE], << >>)
    /\ UNCHANGED <<stream, opened, connections, unresolved, totals, counters, feed, now, client, hungUp>>

-----------------------------------------------------------------------------
(* The periodic state. *)

PushDropped(cs) == [i \in Ids |-> IF i \in connections THEN SetDropped(cs[i]) ELSE cs[i]]
PushState(cs, version) ==
    [i \in Ids |-> IF i \in connections THEN SetState(cs[i], version) ELSE cs[i]]

(* One turn of run_state that has a snapshot: pushed when it differs from the *)
(* last one, or after a failure.                                              *)
SnapshotTaken(version) ==
    LET push == feed.mustPublish \/ version # feed.last
    IN  /\ now >= feed.due /\ now < MaxStateTurns
        /\ version <= MaxStates
        /\ feed' = [last |-> version, mustPublish |-> FALSE, due |-> now + 1]
        /\ conns' = PushDropped(IF push THEN PushState(conns, version) ELSE conns)
        /\ UNCHANGED <<stream, opened, connections, unresolved, totals, counters, now, tasks, client, hungUp>>

(* One turn whose snapshot raises: contained, and nothing but the notice is pushed. *)
SnapshotFails ==
    /\ now >= feed.due /\ now < MaxStateTurns
    /\ Faults < MaxFaults
    /\ counters' = Count("state_encode_failed")
    /\ feed' = [feed EXCEPT !.mustPublish = TRUE, !.due = now + 1]
    /\ conns' = PushDropped(conns)
    /\ UNCHANGED <<stream, opened, connections, unresolved, totals, now, tasks, client, hungUp>>

Tick ==
    /\ now < MaxTime
    /\ now' = now + 1
    /\ UNCHANGED <<stream, opened, conns, connections, unresolved, totals, counters, feed, tasks, client,
                   hungUp>>

-----------------------------------------------------------------------------
WriterStep(i) ==
    \/ StartWriter(i)
    \/ PrepareFails(i)
    \/ SendReturns(i)
    \/ SendRefused(i)
    \/ SendRaises(i)
    \/ WriterEnded(i)
    \/ CancelWriter(i)
    \/ WriterWakes(i)

Next ==
    \/ Dispatch
    \/ PublisherTurn
    \/ \E after \in Afters : Connect(after)
    \/ RefuseClient
    \/ \E i \in Ids : Disconnect(i)
    \/ Stats
    \/ \E i \in Ids : WriterStep(i)
    \/ \E version \in {feed.last, feed.last + 1} : SnapshotTaken(version)
    \/ SnapshotFails
    \/ Tick

Spec == Init /\ [][Next]_vars

-----------------------------------------------------------------------------
ClientViews ==
    [after : Nat \cup {NoAfter}, gap : BOOLEAN, opening : Seq(Exchanges), got : Seq(Exchanges),
     state : Nat]

(* Every variable has its type, and an id registered or retired is one that  *)
(* Publisher.connect has given out.  Two are left to the invariants that give *)
(* their value: totals (TotalsAreFinalLedgers), ring.bytes (BuffersBounded).  *)
TypeOK ==
    /\ issued \in 0..MaxIssued
    /\ handoff \in [records : Seq(Exchanges), bytes : Int, dropped : Nat]
    /\ wake \in BOOLEAN
    /\ draining \in BOOLEAN
    /\ published \in Nat
    /\ ring.events \in Seq(Exchanges)
    /\ ring.lastSeq \in 0..MaxIssued
    /\ opened \in 0..MaxConnections
    /\ conns \in [Ids -> Connections]
    /\ connections \in SUBSET (1..opened)
    /\ unresolved \in SUBSET (1..opened)
    /\ counters \in [CounterNames -> Nat]
    /\ feed \in [last : Nat \ {0}, mustPublish : BOOLEAN, due : Nat]
    /\ now \in Nat
    /\ writer \in [Ids -> [at : WriterStates, carrying : Nat, took : Nat]]
    /\ history \in [Ids -> Seq(Exchanges)]
    /\ client \in [Ids -> ClientViews]
    /\ log \in Seq(Exchanges)
    /\ hungUp \in SUBSET (1..opened)

(* P5(a) of decisions/0010: every exchange ever numbered is published, dropped *)
(* at the hand-off or still in it, whatever failed to encode on the way.       *)
ExchangesAccounted ==
    issued = published + handoff.dropped + Len(handoff.records)

(* The identities of decisions/0010 section 5.1 hold for every connection at *)
(* every instant: through drops, abandoned offers, forced closes and sends   *)
(* that resolve after their connection has closed.                           *)
LedgersBalance ==
    \A i \in 1..opened : LedgerIdentities(conns[i], published)

(* A connection holds a client slot exactly while it is open, so a closed one *)
(* neither keeps a client out nor is offered anything.                        *)
RegisteredIffOpen ==
    \A i \in 1..opened : i \in connections <=> ~Closed(conns[i])

(* closed_totals is the sum of the ledgers of the closed connections that have *)
(* resolved: each is in it once, and nothing moves in a ledger after that.     *)
TotalsAreFinalLedgers ==
    /\ unresolved \cap connections = {}
    /\ totals = SumOfLedgers((1..opened) \ (connections \cup unresolved), conns)

(* P5(e), as the code has it: forced_disconnects counts every close with 1013,  *)
(* also that of a client which says so itself, and each 1011 that no client has *)
(* said is a failed offer or a failed writer.                                   *)
CloseCodesExplained ==
    LET closedWith(code) == {i \in 1..opened : conns[i].closeCode = code}
    IN  /\ counters["forced_disconnects"] = Cardinality(closedWith(TooSlow))
        /\ counters["fanout_failed"] + counters["writer_failed"]
                = Cardinality(closedWith(InternalError) \ hungUp)

(***************************************************************************)
(* What a client sees.                                                     *)
(***************************************************************************)

Increasing(s) == \A j, k \in 1..Len(s) : j < k => s[j] < s[k]

(* The exchanges on their way to client i: its history, what is being sent, its queue. *)
OnTheWay(i) ==
    history[i]
        \o (IF conns[i].inFlight # 0 THEN <<conns[i].inFlight>> ELSE << >>)
        \o conns[i].queue

(* What is being sent to client i can still reach it, and its connection is open. *)
Serving(i) == ~Closed(conns[i]) /\ writer[i].at \notin {"raised", "ended"}

PublishedSince(i) == SubSeq(log, conns[i].publishedAtOpen + 1, Len(log))

(* Nothing is lost, repeated or reordered between the history a client was *)
(* given and the live stream, however publications fall around connect and *)
(* hello: what it has and what is on its way are its history and then what *)
(* was published since, except as many as its ledger says were refused.    *)
NoSilentLoss ==
    \A i \in 1..opened : Serving(i) =>
        LET due  == client[i].opening \o PublishedSince(i)
            flow == client[i].got \o OnTheWay(i)
        IN  /\ Increasing(flow)
            /\ ToSet(flow) \subseteq ToSet(due)
            /\ Len(flow) = Len(due) - conns[i].clientDropped

(* P5(d): the live exchanges written to a client, those after its watermark, *)
(* are those its ledger counts as sent, and at most the unknown ones too.    *)
ReceivedMatchesLedger ==
    \A i \in 1..opened :
        LET got  == client[i].got
            live == Cardinality({k \in DOMAIN got : got[k] > conns[i].watermark})
        IN  live >= conns[i].sent /\ live <= conns[i].sent + conns[i].unknown

(* A writer leaves at most one exchange in doubt, and only by ending. *)
OneUnknownAtMost ==
    \A i \in 1..opened :
        /\ conns[i].unknown <= 1
        /\ conns[i].unknown = 1 => writer[i].at \in {"raised", "ended"}

(* Resuming after an exchange: without a gap the history is every exchange     *)
(* published after it, in order; with one, the client has missed one for good. *)
ResumeIsHonest ==
    \A i \in 1..opened : client[i].after # NoAfter =>
        LET before == SubSeq(log, 1, conns[i].publishedAtOpen)
            given  == client[i].opening
        IN  IF client[i].gap
            THEN \E n \in 1..issued : n > client[i].after /\ n \notin ToSet(given) /\ n < given[1]
            ELSE /\ ToSet(given) = {n \in ToSet(before) : n > client[i].after}
                 /\ Increasing(given)

(* Every buffer keeps to its limits and knows its own size: the counters of *)
(* bytes never drift from what the buffers hold.                            *)
BuffersBounded ==
    /\ Len(handoff.records) <= HandOffMaxRecords
    /\ handoff.bytes = Total(RecordSize, handoff.records)
    /\ handoff.bytes <= HandOffMaxBytes
    /\ Len(ring.events) <= HistoryMaxEvents
    /\ ring.bytes = Bytes(ring.events)
    /\ ring.bytes <= HistoryMaxBytes \/ Len(ring.events) = 1
    /\ \A i \in 1..opened :
           /\ Len(conns[i].queue) <= ClientMaxMessages
           /\ conns[i].bytes = Bytes(conns[i].queue)
           /\ conns[i].bytes <= ClientMaxBytes

(* The ring always holds the newest exchanges published, without a hole. *)
RingIsTail ==
    /\ ring.events = LastEvents(log, Len(ring.events))
    /\ log # << >> => ring.events # << >> /\ ring.lastSeq = log[Len(log)]

(* What is kept is bounded, and is what a client that resumes needs. *)
BuffersHold == BuffersBounded /\ RingIsTail

(* While events are of one size, a client is forced out only if it has taken *)
(* nothing from its queue since the queue first refused an exchange.         *)
ForcedOutOnlyWhenStalled ==
    \A i \in (1..opened) \ hungUp : conns[i].closeCode = TooSlow =>
        /\ now >= conns[i].overflowSince + OverflowDisconnect
        /\ writer[i].took <= conns[i].overflowSince

(* An open connection never settles on an old state: the newest of what waits, *)
(* what is being sent and what arrived is the last state pushed, also for a     *)
(* client that connects between two pushes or whose hello is still under way.   *)
StateIsCurrent ==
    \A i \in 1..opened : Serving(i) =>
        feed.last = IF conns[i].state # 0         THEN conns[i].state
                    ELSE IF writer[i].carrying # 0 THEN writer[i].carrying
                    ELSE client[i].state

(* A closed connection's code, span and offers never change again: the first  *)
(* code wins, whatever else ends the connection afterwards.                    *)
FirstCodeWins ==
    [][\A i \in Ids : Closed(conns[i]) =>
           /\ conns'[i].closeCode = conns[i].closeCode
           /\ conns'[i].publishedAtClose = conns[i].publishedAtClose
           /\ conns'[i].offered = conns[i].offered]_vars

(* The observer implements the stream every client is promised. *)
Stream == INSTANCE ExchangeStream WITH
              Clients <- Ids, Exchanges <- Exchanges,
              log     <- log,
              got     <- [i \in Ids |-> client[i].got],
              refused <- [i \in Ids |-> conns[i].clientDropped]
ImplementsStream == Stream!Spec

-----------------------------------------------------------------------------
(* Fairness: the event loop runs every task that is ready.  A send ends, and *)
(* a handler whose writer has ended closes its connection.                    *)
HandlerNotices(i) == writer[i].at = "ended" /\ ~Closed(conns[i]) /\ Disconnect(i)

Fairness ==
    /\ WF_vars(PublisherTurn)
    /\ \A i \in Ids : WF_vars(StartWriter(i)) /\ WF_vars(WriterEnded(i)) /\ WF_vars(WriterWakes(i))
                     /\ WF_vars(SendReturns(i) \/ SendRefused(i) \/ SendRaises(i) \/ CancelWriter(i))
                     /\ WF_vars(HandlerNotices(i))

LiveSpec == Spec /\ Fairness

(* No wake-up is lost: a record in the hand-off is published, although the *)
(* publisher clears its event before it reads the buffer.                  *)
HandOffDrains == (handoff.records # << >>) ~> (handoff.records = << >>)

(* No message is stranded: what an open connection's queue or state slot holds *)
(* is sent or the connection closes, although a writer clears its event after   *)
(* waking and may find nothing.                                                 *)
NothingStranded ==
    \A i \in Ids : (conns[i].queue # << >> \/ conns[i].state # 0)
                      ~> (conns[i].queue = << >> /\ conns[i].state = 0)

(* Every connection that closes has a writer that stops, so its ledger ends. *)
ClosedWritersStop ==
    \A i \in Ids : Closed(conns[i]) ~> (writer[i].at = "ended" /\ Queued(conns[i]) = 0)

(* The three together: publisher and writers go on while there is anything to *)
(* do, and stop after it.                                                      *)
EverythingGoesOn == HandOffDrains /\ NothingStranded /\ ClosedWritersStop
=============================================================================
