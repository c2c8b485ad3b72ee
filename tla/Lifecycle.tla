------------------------------- MODULE Lifecycle -------------------------------
(***************************************************************************)
(* app.py (run, scenario_tick) and api/server.py (start, stop, the /events *)
(* handler with its closer, _close_or_abort): what is started and stopped, *)
(* in which order, while clients connect, stall, talk and leave.  One step *)
(* is what happens between two awaits.  The ledger of a connection is here *)
(* only its close code; Observer has the rest.                             *)
(***************************************************************************)
EXTENDS Naturals, FiniteSets

CONSTANTS
    Clients,            \* those who may ask for a WebSocket
    ClientCodes,        \* bound: the codes that a client's own close frame may carry
    MayInterrupt        \* bound: whether the main task may be interrupted while it stops

(* Codes of a close, as WSCloseCode and limits.py have them; 0 is none yet. *)
Open == 0
Normal == 1000
GoingAway == 1001
Abnormal == 1006
PolicyViolation == 1008
Unacceptable == 1009     \* and 1002 and 1007: what aiohttp answers to a frame it refuses
InternalError == 1011
TooSlow == 1013
Codes == {Open, GoingAway, Abnormal, PolicyViolation, InternalError, TooSlow}
Frames == (Codes \ {Abnormal}) \cup {Normal, Unacceptable}

(* A client may close with any code, those that this server sends included; a *)
(* close frame without a code, or with code 0, counts as none.                 *)
ASSUME LifecycleAssumption == ClientCodes \subseteq Nat \ {Open}

VARIABLES
    api,            \* --api was given
    stage,          \* where run() awaits
    interrupted,    \* the main task was cancelled while it stopped
    stopEvent,      \* stop is set
    signals,        \* the signal handlers are installed
    tick,           \* the scenario tick task runs
    bus,            \* the transport is running: CAN sockets open, readers registered
    listening,      \* the TCP site accepts connections
    tasks,          \* the publisher's tasks run
    stopping,       \* ApiServer._stopping
    known,          \* history: the sockets that stop() found in _sockets
    handler,        \* client -> where its /events handler is
    code,           \* client -> the close code its connection recorded
    writer,         \* client -> its writer task runs
    closer,         \* client -> its _close_when_closed task
    stopper,        \* client -> the _close_or_abort task of stop() for it
    frame,          \* client -> the code of the close frame that was sent to it
    said,           \* history: client -> the code of its own close frame
    socket          \* client -> its TCP connection

main == <<stage, interrupted, stopEvent, signals, tick, bus>>
server == <<listening, tasks, stopping, known>>
conns == <<handler, code, writer, closer, stopper, frame, said, socket>>
vars == <<api, main, server, conns>>

Stages == {"serverStart", "transportStart", "ready", "tickEnds", "serverStop", "gather", "tasksEnd",
           "cleanup", "transportStop", "over", "failed"}
HandlerStages == {"none", "refused", "prepare", "reading", "refusing", "grace", "awaitCloser", "over"}

TypeOK ==
    /\ {api, interrupted, stopEvent, signals, tick, bus, listening, tasks, stopping} \subseteq BOOLEAN
    /\ stage \in Stages
    /\ known \subseteq Clients
    /\ handler \in [Clients -> HandlerStages]
    /\ code \in [Clients -> Codes \cup ClientCodes]
    /\ writer \in [Clients -> BOOLEAN]
    /\ closer \in [Clients -> {"none", "waiting", "closing", "done"}]
    /\ stopper \in [Clients -> {"none", "ready", "closing", "done"}]
    /\ frame \in [Clients -> Frames]
    /\ said \in [Clients -> ClientCodes \cup {Open}]
    /\ socket \in [Clients -> {"none", "open", "closed"}]

(* Mutant of FirstStage: the transport is started before the server. *)
TransportFirst == "transportStart"

(* What run() does first: a busy port must fail before a CAN socket opens. *)
FirstStage == IF api THEN "serverStart" ELSE "transportStart"

Init ==
    /\ api \in BOOLEAN
    /\ stage = FirstStage
    /\ interrupted = FALSE /\ stopEvent = FALSE /\ signals = FALSE
    /\ tick = FALSE /\ bus = FALSE
    /\ listening = FALSE /\ tasks = FALSE /\ stopping = FALSE
    /\ known = {}
    /\ handler = [c \in Clients |-> "none"]
    /\ code = [c \in Clients |-> Open]
    /\ writer = [c \in Clients |-> FALSE]
    /\ closer = [c \in Clients |-> "none"]
    /\ stopper = [c \in Clients |-> "none"]
    /\ frame = [c \in Clients |-> Open]
    /\ said = [c \in Clients |-> Open]
    /\ socket = [c \in Clients |-> "none"]
-----------------------------------------------------------------------------
(* Connections: what a step does to one of them. *)

(* ApiServer._sockets: a handler enters its socket after the handshake and   *)
(* removes it when the read loop has ended.                                  *)
Sockets == {c \in Clients : handler[c] \in {"reading", "refusing"}}

(* Mutant of Recorded: the last code wins. *)
RecordedLast(c, why) == why

(* Publisher.disconnect: the first code wins. *)
Recorded(c, why) == IF code[c] = Open THEN why ELSE code[c]

(* ws.close is a no-op once one has begun or the socket is gone. *)
WsClosed(c) == frame[c] # Open \/ socket[c] = "closed"

(* A client is accepted: Publisher.connect, then ws.prepare. *)
Connect(c) ==
    /\ listening /\ handler[c] = "none"
    /\ handler' = [handler EXCEPT ![c] = IF stopping THEN "refused" ELSE "prepare"]
    /\ socket' = [socket EXCEPT ![c] = IF stopping THEN "closed" ELSE "open"]
    /\ UNCHANGED <<api, main, server, code, writer, closer, stopper, frame, said>>

Prepared(c) ==
    /\ handler[c] = "prepare" /\ socket[c] = "open"
    /\ handler' = [handler EXCEPT ![c] = "reading"]
    /\ writer' = [writer EXCEPT ![c] = TRUE]
    /\ closer' = [closer EXCEPT ![c] = "waiting"]
    /\ UNCHANGED <<api, main, server, code, stopper, frame, said, socket>>

PrepareFails(c) ==
    /\ handler[c] = "prepare" /\ socket[c] = "closed"
    /\ handler' = [handler EXCEPT ![c] = "over"]
    /\ code' = [code EXCEPT ![c] = Recorded(c, Abnormal)]
    /\ UNCHANGED <<api, main, server, writer, closer, stopper, frame, said, socket>>

(* The client or the network goes, without a close frame: what aiohttp writes *)
(* to the socket from now on fails.                                            *)
PeerGone(c) ==
    /\ socket[c] = "open"
    /\ socket' = [socket EXCEPT ![c] = "closed"]
    /\ UNCHANGED <<api, main, server, handler, code, writer, closer, stopper, frame, said>>

(* The publisher gives a registered connection up: a client too slow (1013)  *)
(* or an offer that raised (1011).                                           *)
PublisherCloses(c) ==
    /\ tasks /\ code[c] = Open
    /\ handler[c] \in {"prepare", "reading"}
    /\ \E why \in {TooSlow, InternalError} : code' = [code EXCEPT ![c] = why]
    /\ UNCHANGED <<api, main, server, handler, writer, closer, stopper, frame, said, socket>>

(* A writer ends with its connection, or dies: then, on a socket that is not *)
(* closing, _writer_ended closes the connection with 1011.                   *)
WriterEnds(c) ==
    /\ writer[c]
    /\ writer' = [writer EXCEPT ![c] = FALSE]
    /\ code' = [code EXCEPT ![c] = IF socket[c] = "open" THEN Recorded(c, InternalError) ELSE @]
    /\ UNCHANGED <<api, main, server, handler, closer, stopper, frame, said, socket>>

(* The client sends a message: 1008, unless a close is under way already. *)
DataMessage(c) ==
    /\ handler[c] = "reading" /\ socket[c] = "open" /\ frame[c] # Unacceptable
    /\ code' = [code EXCEPT ![c] = Recorded(c, PolicyViolation)]
    /\ IF WsClosed(c)
       THEN /\ handler' = [handler EXCEPT ![c] = "grace"]
            /\ UNCHANGED frame
       ELSE /\ handler' = [handler EXCEPT ![c] = "refusing"]
            /\ frame' = [frame EXCEPT ![c] = PolicyViolation]
    /\ UNCHANGED <<api, main, server, writer, closer, stopper, said, socket>>

(* Mutant of FinallyCode: the finally block records no code. *)
FinallyCodeNone(c, closeCode) == code[c]

(* Mutant of FinallyCode: the code of the client's frame is not looked at. *)
FinallyCodeAbnormal(c, closeCode) == Recorded(c, Abnormal)

(* What the finally block records: ws.close_code, or 1006 when it has none. *)
FinallyCode(c, closeCode) == Recorded(c, IF closeCode = Open THEN Abnormal ELSE closeCode)

(* The client closes: aiohttp keeps the code of its frame as ws.close_code,   *)
(* answers with 1000 unless a close has begun, and the finally block begins,  *)
(* all without a suspension.                                                   *)
ClientCloses(c) ==
    /\ handler[c] = "reading" /\ socket[c] = "open" /\ frame[c] # Unacceptable
    /\ \E mine \in ClientCodes \cup {Open} :
           /\ said' = [said EXCEPT ![c] = mine]
           /\ code' = [code EXCEPT ![c] = FinallyCode(c, mine)]
    /\ handler' = [handler EXCEPT ![c] = "grace"]
    /\ IF WsClosed(c)
       THEN UNCHANGED <<frame, socket>>
       ELSE /\ frame' = [frame EXCEPT ![c] = Normal]
            /\ socket' = [socket EXCEPT ![c] = "closed"]
    /\ UNCHANGED <<api, main, server, writer, closer, stopper>>

(* The read loop ends with a lost socket; the finally block begins. *)
ReadEnds(c) ==
    /\ handler[c] = "reading" /\ socket[c] = "closed"
    /\ handler' = [handler EXCEPT ![c] = "grace"]
    /\ code' = [code EXCEPT ![c] = FinallyCode(c, Abnormal)]
    /\ UNCHANGED <<api, main, server, writer, closer, stopper, frame, said, socket>>

(* The client sends what aiohttp refuses, more than MAX_BODY bytes or text     *)
(* that is not UTF-8: its receive begins a close of its own, which waits for   *)
(* the client to take what is buffered, with no timeout (server.py:96).        *)
BadFrame(c) ==
    /\ handler[c] = "reading" /\ ~WsClosed(c)
    /\ frame' = [frame EXCEPT ![c] = Unacceptable]
    /\ UNCHANGED <<api, main, server, handler, code, writer, closer, stopper, said, socket>>

(* That close ends, finding the reader broken: ws.close_code is 1006. *)
RefusalEnds(c) ==
    /\ handler[c] = "reading" /\ frame[c] = Unacceptable
    /\ handler' = [handler EXCEPT ![c] = "grace"]
    /\ code' = [code EXCEPT ![c] = FinallyCode(c, Abnormal)]
    /\ socket' = [socket EXCEPT ![c] = "closed"]
    /\ UNCHANGED <<api, main, server, writer, closer, stopper, frame, said>>

(* The writer has ended, or its grace has and it is cancelled. *)
GraceEnds(c) ==
    /\ handler[c] = "grace"
    /\ handler' = [handler EXCEPT ![c] = "awaitCloser"]
    /\ writer' = [writer EXCEPT ![c] = FALSE]
    /\ UNCHANGED <<api, main, server, code, closer, stopper, frame, said, socket>>

HandlerEnds(c) ==
    /\ handler[c] = "awaitCloser" /\ closer[c] = "done"
    /\ handler' = [handler EXCEPT ![c] = "over"]
    /\ socket' = [socket EXCEPT ![c] = "closed"]
    /\ UNCHANGED <<api, main, server, code, writer, closer, stopper, frame, said>>

(* _close_when_closed sends the codes that the publisher or a dead writer    *)
(* decided; other codes are sent by those who decide them.                   *)
CloserWakes(c) ==
    /\ closer[c] = "waiting" /\ code[c] # Open
    /\ IF code[c] \in {TooSlow, InternalError} /\ ~WsClosed(c)
       THEN /\ closer' = [closer EXCEPT ![c] = "closing"]
            /\ frame' = [frame EXCEPT ![c] = code[c]]
       ELSE /\ closer' = [closer EXCEPT ![c] = "done"]
            /\ UNCHANGED frame
    /\ UNCHANGED <<api, main, server, handler, code, writer, stopper, said, socket>>

StopperRuns(c) ==
    /\ stopper[c] = "ready"
    /\ IF WsClosed(c)
       THEN /\ stopper' = [stopper EXCEPT ![c] = "done"]
            /\ UNCHANGED frame
       ELSE /\ stopper' = [stopper EXCEPT ![c] = "closing"]
            /\ frame' = [frame EXCEPT ![c] = GoingAway]
    /\ UNCHANGED <<api, main, server, handler, code, writer, closer, said, socket>>

(* Who is in _close_or_abort with a ws.close that began. *)
InClose(c) == handler[c] = "refusing" \/ closer[c] = "closing" \/ stopper[c] = "closing"

(* Whoever is in _close_or_abort of a socket leaves it. *)
LeaveClose(c) ==
    /\ handler' = [handler EXCEPT ![c] = IF @ = "refusing" THEN "grace" ELSE @]
    /\ closer' = [closer EXCEPT ![c] = IF @ = "closing" THEN "done" ELSE @]
    /\ stopper' = [stopper EXCEPT ![c] = IF @ = "closing" THEN "done" ELSE @]

(* ws.close returns: the client took the frame, and the socket is closed. *)
CloseReturns(c) ==
    /\ InClose(c)
    /\ LeaveClose(c)
    /\ socket' = [socket EXCEPT ![c] = "closed"]
    /\ UNCHANGED <<api, main, server, code, writer, frame, said>>

(* Mutant of TimeoutAborts: a close that does not return is waited for. *)
NoTimeout(c) == FALSE

TimeoutAborts(c) == InClose(c)

(* The client has stopped reading: after the timeout its socket is aborted. *)
CloseTimesOut(c) ==
    /\ TimeoutAborts(c)
    /\ LeaveClose(c)
    /\ socket' = [socket EXCEPT ![c] = "closed"]
    /\ UNCHANGED <<api, main, server, code, writer, frame, said>>

Connection(c) ==
    \/ Connect(c) \/ Prepared(c) \/ PrepareFails(c) \/ PeerGone(c) \/ PublisherCloses(c) \/ WriterEnds(c)
    \/ DataMessage(c) \/ ClientCloses(c) \/ ReadEnds(c) \/ BadFrame(c) \/ RefusalEnds(c) \/ GraceEnds(c)
    \/ HandlerEnds(c) \/ CloserWakes(c) \/ StopperRuns(c) \/ CloseReturns(c) \/ CloseTimesOut(c)
-----------------------------------------------------------------------------
(* run() *)

(* A busy port: the runner is cleaned up and run() raises ApiStartupError. *)
PortBusy ==
    /\ stage = "serverStart"
    /\ stage' = "failed"
    /\ UNCHANGED <<api, interrupted, stopEvent, signals, tick, bus, server, conns>>

ServerStarts ==
    /\ stage = "serverStart"
    /\ stage' = "transportStart"
    /\ listening' = TRUE
    /\ tasks' = TRUE
    /\ UNCHANGED <<api, interrupted, stopEvent, signals, tick, bus, stopping, known, conns>>

(* Mutant of Finally: without a server, nothing is stopped. *)
FinallyServerOnly == IF api THEN "serverStop" ELSE "over"

(* The finally block begins with the server, when there is one. *)
Finally == IF api THEN "serverStop" ELSE "transportStop"

(* An interface that is missing or down, or a socket that cannot be bound: *)
(* Transport leaves nothing open, and the server is stopped.               *)
TransportFails ==
    /\ stage = "transportStart"
    /\ stage' = Finally
    /\ UNCHANGED <<api, interrupted, stopEvent, signals, tick, bus, server, conns>>

TransportStarts ==
    /\ stage = "transportStart"
    /\ stage' = "ready"
    /\ bus' = TRUE
    /\ signals' = TRUE
    /\ tick' \in BOOLEAN                       \* with a scenario
    /\ UNCHANGED <<api, interrupted, stopEvent, server, conns>>

(* SIGINT or SIGTERM, or whoever holds the event. *)
Signal ==
    /\ stage = "ready"
    /\ stopEvent' = TRUE
    /\ UNCHANGED <<api, stage, interrupted, signals, tick, bus, server, conns>>

(* The tick task is cancelled, and awaited. *)
Stopped ==
    /\ stage = "ready" /\ stopEvent
    /\ stage' = "tickEnds"
    /\ UNCHANGED <<api, interrupted, stopEvent, signals, tick, bus, server, conns>>

TickEnds ==
    /\ stage = "tickEnds"
    /\ stage' = Finally
    /\ tick' = FALSE
    /\ signals' = FALSE
    /\ UNCHANGED <<api, interrupted, stopEvent, bus, server, conns>>

(* stop() refuses new clients from its first statement on. *)
RefuseFrom == stopping' = TRUE

(* Mutant of Reached: a socket whose client talked is left to its handler. *)
ReachedReading == {c \in Clients : handler[c] = "refusing"}

Reached == Sockets

(* stop(), up to its first await: every socket it knows gets its code and a *)
(* task that closes it.                                                     *)
ServerStops ==
    /\ stage = "serverStop"
    /\ stage' = "gather"
    /\ RefuseFrom
    /\ known' = Sockets
    /\ code' = [c \in Clients |-> IF c \in Reached THEN Recorded(c, GoingAway) ELSE code[c]]
    /\ stopper' = [c \in Clients |-> IF c \in Reached THEN "ready" ELSE "none"]
    /\ UNCHANGED <<api, interrupted, stopEvent, signals, tick, bus, listening, tasks,
                   handler, writer, closer, frame, said, socket>>

SocketsClosed ==
    /\ stage = "gather"
    /\ \A c \in Clients : stopper[c] \in {"none", "done"}
    /\ stage' = "tasksEnd"
    /\ UNCHANGED <<api, interrupted, stopEvent, signals, tick, bus, server, conns>>

(* The publisher's tasks are cancelled and gathered; AppRunner.cleanup begins *)
(* with the listening socket.                                                 *)
TasksEnd ==
    /\ stage = "tasksEnd"
    /\ stage' = "cleanup"
    /\ tasks' = FALSE
    /\ listening' = FALSE
    /\ UNCHANGED <<api, interrupted, stopEvent, signals, tick, bus, stopping, known, conns>>

(* Handlers are cancelled: in a handshake one records 1006, in a close it    *)
(* aborts, waiting for its closer it passes the cancellation on to it.       *)
CancelHandlers(closers) ==
    /\ handler' = [c \in Clients |-> CASE handler[c] \in {"prepare", "awaitCloser"} -> "over"
                                       [] handler[c] \in {"reading", "refusing"} -> "grace"
                                       [] OTHER -> handler[c]]
    /\ code' = [c \in Clients |-> IF handler[c] \in {"prepare", "reading", "refusing"}
                                  THEN Recorded(c, Abnormal) ELSE code[c]]
    /\ closer' = closers
    /\ socket' = [c \in Clients |-> IF socket[c] = "open" THEN "closed" ELSE socket[c]]

HandlersOver == \A c \in Clients : handler[c] \in {"none", "refused", "over"}

(* AppRunner.cleanup waits for the handlers, for so long, and cancels them. *)
CleanedUp ==
    /\ stage = "cleanup"
    /\ stage' = "transportStop"
    /\ IF HandlersOver
       THEN UNCHANGED <<handler, code, closer, socket>>
       ELSE CancelHandlers([c \in Clients |-> IF handler[c] = "awaitCloser" THEN "done" ELSE closer[c]])
    /\ UNCHANGED <<writer, stopper, frame, said>>
    /\ UNCHANGED <<api, interrupted, stopEvent, signals, tick, bus, server>>

TransportStops ==
    /\ stage = "transportStop"
    /\ stage' = "over"
    /\ bus' = FALSE
    /\ UNCHANGED <<api, interrupted, stopEvent, signals, tick, server, conns>>

(* A second SIGINT, with the handlers removed, leaves the event loop; what   *)
(* runs asyncio.run then cancels every task.  In run() the await in          *)
(* server.stop() raises: the rest of it and transport.stop() are skipped.    *)
Interrupted ==
    /\ MayInterrupt /\ stage \in {"gather", "tasksEnd", "cleanup"}
    /\ stage' = "over"
    /\ interrupted' = TRUE
    /\ tasks' = FALSE
    /\ stopper' = [c \in Clients |-> IF stopper[c] = "none" THEN "none" ELSE "done"]
    /\ CancelHandlers([c \in Clients |-> IF closer[c] = "none" THEN "none" ELSE "done"])
    /\ UNCHANGED <<api, stopEvent, signals, tick, bus, listening, stopping, known, writer, frame, said>>

Run ==
    \/ PortBusy \/ ServerStarts \/ TransportFails \/ TransportStarts \/ Signal \/ Stopped \/ TickEnds
    \/ ServerStops \/ SocketsClosed \/ TasksEnd \/ CleanedUp \/ TransportStops \/ Interrupted

Next == Run \/ \E c \in Clients : Connection(c)

Spec == Init /\ [][Next]_vars

(* The event loop runs every callback that is ready, and its timers: a close *)
(* that does not return times out, and so does the grace of a writer.  What  *)
(* clients do, and whether a close ever returns, is up to them.              *)
FairSpec ==
    /\ Spec
    /\ WF_vars(TickEnds \/ ServerStops \/ SocketsClosed \/ TasksEnd \/ CleanedUp \/ TransportStops)
    /\ \A c \in Clients :
        /\ WF_vars(ReadEnds(c))
        /\ WF_vars(GraceEnds(c))
        /\ WF_vars(HandlerEnds(c))
        /\ WF_vars(CloserWakes(c))
        /\ WF_vars(StopperRuns(c))
        /\ WF_vars(CloseTimesOut(c))
        /\ WF_vars(Prepared(c) \/ PrepareFails(c))
-----------------------------------------------------------------------------
(* The transport runs only once the port was bound, so a busy port fails     *)
(* before any CAN socket is opened, and until after the publisher's tasks    *)
(* have ended: an exchange has an observer from the first request on.        *)
BusInsideServer ==
    /\ stage = "failed" => ~bus /\ ~tasks /\ ~listening
    /\ api /\ bus /\ stage \in {"ready", "tickEnds", "serverStop", "gather", "tasksEnd"} => listening /\ tasks

(* When run() is over and was not interrupted, nothing it started is left:   *)
(* no CAN socket, no task, no listening socket, no signal handler, and no    *)
(* connection of a client, those that were still in their handshake when     *)
(* stop() went through the table included.                                   *)
NothingLeftRunning ==
    stage = "over" /\ ~interrupted =>
        /\ ~bus /\ ~tick /\ ~signals /\ ~tasks /\ ~listening
        /\ \A c \in Clients : /\ socket[c] # "open"
                              /\ code[c] = Open => handler[c] \in {"none", "refused"}

(* Once stop() has closed the sockets it knows, none of their connections is *)
(* open and unwarned: a close frame was sent, or the socket is gone, whoever *)
(* closed it and whether or not the client still reads.                      *)
StopLeavesNobody ==
    stage \in {"tasksEnd", "cleanup", "transportStop"} => \A c \in known : WsClosed(c) /\ code[c] # Open

(* The three together, with the types: what is started is stopped, in order, *)
(* and with every client told.                                               *)
LifecycleInv == TypeOK /\ BusInsideServer /\ NothingLeftRunning /\ StopLeavesNobody

(* How the code of a close frame and the one in the ledger may differ.  The  *)
(* publisher's or stop()'s code is recorded before the task that sends it     *)
(* runs, so another part of the server, or aiohttp, may be quicker to the     *)
(* socket; to a client that closes aiohttp answers with 1000, and the ledger  *)
(* gets the client's own code, or 1006; to a frame it refuses it sends a code *)
(* that the ledger never gets.  Nothing else is sent and not recorded.        *)
FrameNearlyRecorded ==
    \A c \in Clients : frame[c] # Open =>
        \/ frame[c] = code[c]
        \/ code[c] \in {TooSlow, InternalError} /\ frame[c] \in {GoingAway, PolicyViolation, Normal, Unacceptable}
        \/ code[c] = GoingAway /\ frame[c] \in {PolicyViolation, Normal, Unacceptable}
        \/ frame[c] = Normal /\ code[c] = (IF said[c] = Open THEN Abnormal ELSE said[c])
        \/ frame[c] = Unacceptable /\ code[c] \in {Open, Abnormal}

(* "The ledger records the code sent", as api/server.py:272 and :349 have it *)
(* of the codes that stop() and the handler send.                            *)
RecordedCodeWasSent ==
    \A c \in Clients : frame[c] \in {GoingAway, PolicyViolation} => code[c] = frame[c]

(* Stopping ends, however many clients have stopped reading.                 *)
StopEnds == stage = "serverStop" ~> stage = "over"

(* A receive that waits for a stalled client to take aiohttp's own close. *)
Refusing(c) == handler[c] = "reading" /\ frame[c] = Unacceptable /\ socket[c] = "open"

(* A connection that was closed, for whatever reason and by whomever, or     *)
(* whose client has gone, is given up by its handler, and the handler ends:  *)
(* it waits neither for a stalled writer nor for its closer for ever.  Only  *)
(* aiohttp's own close, of a client that sent what it refuses, has no        *)
(* timeout, and ends with that client or with stop().                        *)
HandlersEnd ==
    \A c \in Clients :
        handler[c] = "reading" /\ (code[c] # Open \/ socket[c] = "closed")
            ~> handler[c] = "over" \/ Refusing(c)
=============================================================================
