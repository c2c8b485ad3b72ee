------------------------------- MODULE Transport -------------------------------
(***************************************************************************)
(* transport/socketcan/transport.py and isotp.py: the ISO-TP sockets of    *)
(* the simulator, one an endpoint, and the readiness callbacks by which    *)
(* the event loop drives them.  A callback awaits nothing, so it is one    *)
(* step.  The handler, the dispatcher or its observing wrapper, is only    *)
(* its outcome here.                                                       *)
(***************************************************************************)
EXTENDS Naturals, Sequences, SequencesExt, FiniteSets, Places

CONSTANTS
    Endpoints,      \* the endpoints of the profile, in the order of their sockets
    Via,            \* endpoint -> the endpoint whose socket sends its replies
    Receiving,      \* the endpoints with receive=True
    MaxReplies,     \* bound: replies of the handler
    MaxStarts       \* bound: calls of start

VARIABLES
    running,    \* _loop is not None
    open,       \* the kernel sockets that are open
    readers,    \* the event loop's readers ...
    writers,    \* ... and writers
    pending,    \* endpoint -> _Endpoint.pending
    armed,      \* endpoint -> _Endpoint.writer_armed
    issued,     \* endpoint -> history: the replies handed to its socket, in order
    sent,       \* endpoint -> history: the replies the kernel took, in order
    lost,       \* history: the replies whose send failed, and those discarded by stop
    starts      \* calls of start so far

vars == <<running, open, readers, writers, pending, armed, issued, sent, lost, starts>>

history == <<issued, sent, lost>>

Names == Range(Endpoints)
Replies == 1..MaxReplies
Issued == Cardinality(UNION {Range(issued[e]) : e \in Names})   \* replies are numbered from 1

(* IsoTpTransport.__init__ accepts distinct endpoints that reply via one of them. *)
ASSUME TransportAssumption ==
    /\ Endpoints \in Seq(Names) /\ IsInjective(Endpoints) /\ Endpoints # << >>
    /\ Via \in [Names -> Names]
    /\ Receiving \subseteq Names
    /\ MaxReplies \in Nat
    /\ MaxStarts \in Nat

(* All but the history of what was sent. *)
QueueTypes ==
    /\ running \in BOOLEAN
    /\ open \subseteq Names
    /\ readers \subseteq Names
    /\ writers \subseteq Names
    /\ pending \in [Names -> Seq(Replies)]
    /\ armed \in [Names -> BOOLEAN]
    /\ issued \in [Names -> Seq(Replies)]
    /\ lost \subseteq Replies
    /\ starts \in 0..MaxStarts

TypeOK == QueueTypes /\ sent \in [Names -> Seq(Replies)]

Init ==
    /\ running = FALSE
    /\ open = {}
    /\ readers = {}
    /\ writers = {}
    /\ pending = [e \in Names |-> << >>]
    /\ armed = [e \in Names |-> FALSE]
    /\ issued = [e \in Names |-> << >>]
    /\ sent = [e \in Names |-> << >>]
    /\ lost = {}
    /\ starts = 0

(* check_isotp_support and check_interface: the kernel has no ISO-TP sockets, *)
(* the interface does not exist or is down.  Nothing has been opened yet.     *)
EnvironmentFails ==
    /\ ~running /\ starts < MaxStarts
    /\ starts' = starts + 1
    /\ UNCHANGED <<running, open, readers, writers, pending, armed, history>>

(* Mutant of AfterOpenFailed: the socket that could not be bound is left to itself. *)
AfterOpenFailedLeaks(e) == {e}

(* IsoTpSocket.open: a socket that cannot be created, or that is closed because *)
(* its options are refused or its address cannot be bound.                      *)
AfterOpenFailed(e) == {}

(* Mutant of Rollback: the sockets opened before the one that failed stay open. *)
RollbackLeaks(k) == {Endpoints[j] : j \in 1..k}

(* What is open of the first k sockets after the next could not be opened. *)
Rollback(k) == {}

(* start opens the sockets in order.  One may fail: what was opened is closed and *)
(* the transport is as before.  A second start is refused before anything happens. *)
OpenFails ==
    /\ ~running /\ starts < MaxStarts
    /\ starts' = starts + 1
    /\ \E k \in 0..Len(Endpoints) - 1 : open' = Rollback(k) \union AfterOpenFailed(Endpoints[k + 1])
    /\ UNCHANGED <<running, readers, writers, pending, armed, history>>

Start ==
    /\ ~running /\ starts < MaxStarts
    /\ starts' = starts + 1
    /\ running' = TRUE
    /\ open' = Names
    /\ readers' = Receiving
    /\ UNCHANGED <<writers, pending, armed, history>>

(* stop removes the writers it believes armed. *)
WritersAfterStop == writers \ {e \in Names : armed[e]}

(* stop: callbacks removed, sockets closed, what was pending forgotten. *)
Stop ==
    /\ running
    /\ running' = FALSE
    /\ open' = {}
    /\ readers' = readers \ Names
    /\ writers' = WritersAfterStop
    /\ lost' = lost \union UNION {Range(pending[e]) : e \in Names}
    /\ pending' = [e \in Names |-> << >>]
    /\ armed' = [e \in Names |-> FALSE]
    /\ UNCHANGED <<issued, sent, starts>>

(* Mutant of Direct: a reply is tried at once although others wait. *)
DirectAlways(e) == TRUE

(* _send tries the socket only when nothing waits for it. *)
Direct(e) == pending[e] = << >>

(* Mutant of Armed: the writer is not registered. *)
Unarmed(e) == /\ UNCHANGED writers
              /\ armed' = [armed EXCEPT ![e] = TRUE]

(* _arm_writer. *)
Armed(e) ==
    /\ writers' = IF armed[e] THEN writers ELSE writers \union {e}
    /\ armed' = [armed EXCEPT ![e] = TRUE]

(* IsoTpSocket.send: the kernel takes a payload, is busy with an earlier one *)
(* (EAGAIN), or fails.                                                       *)
Outcomes == {"taken", "busy", "failed"}

(* _send: a reply that is not sent at once is appended and the writer armed. *)
Send(e, reply, outcome) ==
    \/ /\ Direct(e) /\ outcome = "taken"
       /\ sent' = [sent EXCEPT ![e] = Append(@, reply)]
       /\ UNCHANGED <<pending, lost, writers, armed>>
    \/ /\ Direct(e) /\ outcome = "failed"
       /\ lost' = lost \union {reply}
       /\ UNCHANGED <<pending, sent, writers, armed>>
    \/ /\ ~Direct(e) \/ outcome = "busy"
       /\ pending' = [pending EXCEPT ![e] = Append(@, reply)]
       /\ Armed(e)
       /\ UNCHANGED <<sent, lost>>

(* _on_readable, with a request the handler replies to.  In the other cases  *)
(* (nothing to receive, a receive error, a handler that raises or has no     *)
(* reply) nothing changes.                                                   *)
OnReadable(e) ==
    /\ e \in readers
    /\ \E reply \in Replies :
           /\ reply = Issued + 1
           /\ issued' = [issued EXCEPT ![Via[e]] = Append(@, reply)]
           /\ \E outcome \in Outcomes : Send(Via[e], reply, outcome)
    /\ UNCHANGED <<running, open, readers, starts>>

(* Mutant of Dropped: a payload whose send fails stays at the head. *)
DroppedNot(e, k, failed) == k - Cardinality(failed)

(* How many payloads leave the queue when the kernel is asked k times and not *)
(* busy: a payload whose send failed leaves as well.                          *)
Dropped(e, k, failed) == k

(* Mutant of Disarmed: the flag is left set when the writer is removed. *)
DisarmedNot(e) == /\ writers' = writers \ {e}
                  /\ UNCHANGED armed

(* Mutant of Disarmed: the endpoint is dropped together with its writer. *)
DisarmedForgets(e) == /\ writers' = writers \ {e}
                      /\ armed' = [x \in Names \ {e} |-> armed[x]]

Disarmed(e) ==
    /\ writers' = writers \ {e}
    /\ armed' = [armed EXCEPT ![e] = FALSE]

(* _on_writable: the first k payloads are tried, those in failed in vain; then *)
(* the kernel is busy and the writer stays, or the queue is empty and it goes. *)
OnWritable(e) ==
    /\ e \in writers
    /\ \E k \in 0..Len(pending[e]) : \E failed \in SUBSET (1..k) :
        LET left == SubSeq(pending[e], Dropped(e, k, failed) + 1, Len(pending[e]))
        IN  /\ sent' = [sent EXCEPT ![e] = @ \o InOrder(pending[e], (1..k) \ failed)]
            /\ lost' = lost \union {pending[e][j] : j \in failed}
            /\ pending' = [pending EXCEPT ![e] = left]
            /\ IF left = << >> THEN Disarmed(e) ELSE UNCHANGED <<writers, armed>>
    /\ UNCHANGED <<running, open, readers, issued, starts>>

Next ==
    \/ EnvironmentFails
    \/ OpenFails
    \/ Start
    \/ Stop
    \/ \E e \in Names : OnReadable(e) \/ OnWritable(e)

Spec == Init /\ [][Next]_vars

(* The kernel is not busy for ever: it sends the frames of a payload or gives *)
(* it up after its timeout, and the loop then calls the writer.               *)
Drains(e) == OnWritable(e) /\ pending'[e] # pending[e]

FairSpec == Spec /\ \A e \in Names : WF_vars(Drains(e))
-----------------------------------------------------------------------------
(* The loop has a writer for a socket exactly while replies wait for it, and *)
(* the flag says so: a flag left set would never arm the writer again, and   *)
(* replies would wait for ever; a writer left over would spin.               *)
WriterFollowsQueue ==
    \A e \in Names : /\ armed[e] <=> pending[e] # << >>
                     /\ e \in writers <=> pending[e] # << >>

(* A transport that is not running, never started, failed to start or was    *)
(* stopped, has no socket open and no callback with the loop; one that runs  *)
(* has all of them, and callbacks only on sockets that are open.             *)
NothingLeftBehind ==
    /\ open = IF running THEN Names ELSE {}
    /\ readers \union writers \subseteq open

(* Every reply handed to a socket is in one place: sent, waiting in its queue, *)
(* or lost to an error or to stop.  None is sent or kept twice.                *)
RepliesAccounted ==
    \A e \in Names :
        /\ IsInjective(sent[e] \o pending[e])
        /\ Range(sent[e]) \intersect lost = {} /\ Range(pending[e]) \intersect lost = {}
        /\ Range(issued[e]) = Range(sent[e]) \union Range(pending[e]) \union (lost \intersect Range(issued[e]))

(* The three together, with the types: the transport between two callbacks. *)
TransportInv == TypeOK /\ WriterFollowsQueue /\ NothingLeftBehind /\ RepliesAccounted

(* Replies leave each socket in the order in which the handler gave them,    *)
(* whether they went at once or waited, and whichever endpoint, physical or  *)
(* functional, received their requests.                                      *)
Channel == INSTANCE ReplyChannel WITH
    Sockets <- Names, accepted <- issued, settled <- [e \in Names |-> Len(issued[e]) - Len(pending[e])]

ImplementsChannel == Channel!ChannelSpec

(* A reply that waits leaves its queue in the end: it is sent, fails, or is  *)
(* discarded by stop; a failing one does not hold up the next.               *)
RepliesLeave ==
    \A e \in Names : \A r \in Replies : r \in Range(pending[e]) ~> r \notin Range(pending[e])
=============================================================================
