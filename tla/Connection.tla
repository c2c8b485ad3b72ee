------------------------------ MODULE Connection ------------------------------
(***************************************************************************)
(* observe/connection.py: one WebSocket client's queue, its one-slot       *)
(* messages and its ledger.  A Connection object is a record and every     *)
(* method that changes it is an operator from the record before the call   *)
(* to the record after it, so the modules that share connections between   *)
(* tasks (Observer) compose the methods in one atomic step, the way code   *)
(* between two awaits does.                                                *)
(*                                                                         *)
(* An exchange is its sequence number, a state message the version of the  *)
(* state it carries; 0 stands for Python's None in both.                   *)
(***************************************************************************)
EXTENDS Limits, Sequences

NotClosed     == 0
InternalError == 1011
TooSlow       == 1013
Never         == -1     \* _overflow_since is None

(* What a connection is when Publisher.connect has just built it. *)
NewConnection(watermark, publishedNow, historySent) ==
    [ closeCode       |-> NotClosed,
      watermark       |-> watermark,
      queue           |-> << >>,
      bytes           |-> 0,
      state           |-> 0,
      notice          |-> FALSE,
      overflowSince   |-> Never,
      inFlight        |-> 0,
      changed         |-> FALSE,
      publishedAtOpen |-> publishedNow,
      publishedAtClose|-> 0,
      historySent     |-> historySent,
      offered         |-> 0,
      enqueued        |-> 0,
      clientDropped   |-> 0,
      sent            |-> 0,
      discarded       |-> 0,
      unknown         |-> 0 ]

Connections ==
    [ closeCode       : Nat,
      watermark       : Nat,
      queue           : Seq(Exchanges),
      bytes           : Int,
      state           : Nat,
      notice          : BOOLEAN,
      overflowSince   : Int,
      inFlight        : Exchanges \cup {0},
      changed         : BOOLEAN,
      publishedAtOpen : Nat,
      publishedAtClose: Nat,
      historySent     : Nat,
      offered         : Nat,
      enqueued        : Nat,
      clientDropped   : Nat,
      sent            : Nat,
      discarded       : Nat,
      unknown         : Nat ]

Closed(c) == c.closeCode # NotClosed

(* The ledger's "queued": what waits, and the exchange handed to send and not yet resolved. *)
UnderWay(c) == IF c.inFlight # 0 THEN 1 ELSE 0
Queued(c)   == Len(c.queue) + UnderWay(c)

-----------------------------------------------------------------------------
(* Mutant of CloseNow: the writer waiting for a message is not told. *)
CloseInSilence(c, code, publishedNow) ==
    [c EXCEPT !.closeCode = code, !.publishedAtClose = publishedNow,
              !.discarded = @ + Len(c.queue), !.queue = << >>, !.bytes = 0,
              !.state = 0, !.notice = FALSE]

(* _close: everything still queued is discarded and the slots are emptied; *)
(* an exchange in flight is left to the writer.                             *)
CloseNow(c, code, publishedNow) ==
    [c EXCEPT !.closeCode = code,
              !.publishedAtClose = publishedNow,
              !.discarded = @ + Len(c.queue),
              !.queue = << >>,
              !.bytes = 0,
              !.state = 0,
              !.notice = FALSE,
              !.changed = TRUE]

(* Mutant of Close: the last code wins. *)
CloseAgain(c, code, publishedNow) == CloseNow(c, code, publishedNow)

(* close: the first code wins. *)
Close(c, code, publishedNow) ==
    IF Closed(c) THEN c ELSE CloseNow(c, code, publishedNow)

-----------------------------------------------------------------------------
Full(c, n) ==
    \/ Len(c.queue) >= ClientMaxMessages
    \/ c.bytes + TextSize[n] > ClientMaxBytes

(* Mutant of Drop: the refused exchange is not counted. *)
DropUncounted(c, now) ==
    [c EXCEPT !.overflowSince = IF @ = Never THEN now ELSE @, !.offered = @ + 1]

Drop(c, now) ==
    [c EXCEPT !.overflowSince = IF @ = Never THEN now ELSE @,
              !.offered = @ + 1,
              !.clientDropped = @ + 1]

(* Mutant of Enqueue: the overflow goes on although the queue has accepted again. *)
EnqueueKeepsOverflow(c, n) ==
    [c EXCEPT !.queue = Append(@, n), !.bytes = @ + TextSize[n],
              !.offered = @ + 1, !.enqueued = @ + 1, !.changed = TRUE]

(* Mutant of Enqueue: the writer is not woken. *)
EnqueueInSilence(c, n) ==
    [c EXCEPT !.overflowSince = Never, !.queue = Append(@, n), !.bytes = @ + TextSize[n],
              !.offered = @ + 1, !.enqueued = @ + 1]

Enqueue(c, n) ==
    [c EXCEPT !.overflowSince = Never,
              !.queue = Append(@, n),
              !.bytes = @ + TextSize[n],
              !.offered = @ + 1,
              !.enqueued = @ + 1,
              !.changed = TRUE]

(* Mutant of Offer: a bounded deque, which discards its oldest in silence. *)
OfferDiscardsOldest(c, n, now) ==
    IF Closed(c) THEN c
    ELSE IF ~Full(c, n) \/ c.queue = << >> THEN Enqueue(c, n)
    ELSE Enqueue([c EXCEPT !.queue = Tail(@), !.bytes = @ - TextSize[Head(c.queue)]], n)

(* offer: keep one live exchange, or count its drop and, once the queue has *)
(* refused everything for OverflowDisconnect, force the client out.          *)
Offer(c, n, now) ==
    IF Closed(c) THEN c
    ELSE IF ~Full(c, n) THEN Enqueue(c, n)
    ELSE LET d == Drop(c, now)
         IN  IF now - d.overflowSince >= OverflowDisconnect
             THEN CloseNow(d, TooSlow, d.publishedAtOpen + d.offered)
             ELSE d

(* Mutant of SetState: a state that waits is kept, not replaced. *)
SetFirstState(c, version) ==
    IF Closed(c) \/ c.state # 0 THEN c ELSE [c EXCEPT !.state = version, !.changed = TRUE]

SetState(c, version) ==
    IF Closed(c) THEN c ELSE [c EXCEPT !.state = version, !.changed = TRUE]

SetDropped(c) ==
    IF Closed(c) THEN c ELSE [c EXCEPT !.notice = TRUE, !.changed = TRUE]

-----------------------------------------------------------------------------
(* The writer's side. *)
TakeState(c) == [c EXCEPT !.state = 0]

(* Mutant of NextMessage: the byte count keeps what has left the queue. *)
NextMessageKeepsBytes(c) ==
    IF c.state # 0 THEN TakeState(c)
    ELSE IF c.notice THEN [c EXCEPT !.notice = FALSE]
    ELSE IF c.queue # << >> THEN [c EXCEPT !.queue = Tail(@), !.inFlight = Head(c.queue)]
    ELSE c

(* next_message: the state, else the dropped notice, else the oldest exchange; *)
(* a connection with nothing to send is returned as it is.                      *)
NextMessage(c) ==
    IF c.state # 0 THEN TakeState(c)
    ELSE IF c.notice THEN [c EXCEPT !.notice = FALSE]
    ELSE IF c.queue # << >>
    THEN [c EXCEPT !.queue = Tail(@),
                   !.bytes = @ - TextSize[Head(c.queue)],
                   !.inFlight = Head(c.queue)]
    ELSE c

NothingToSend(c) == c.state = 0 /\ ~c.notice /\ c.queue = << >>

MarkSent(c) ==
    IF c.inFlight = 0 THEN c ELSE [c EXCEPT !.inFlight = 0, !.sent = @ + 1]

MarkFailed(c) ==
    IF c.inFlight = 0 THEN c ELSE [c EXCEPT !.inFlight = 0, !.discarded = @ + 1]

(* Mutant of MarkUnknown: a cancelled send counts as known not to be delivered. *)
MarkNotDelivered(c) == MarkFailed(c)

MarkUnknown(c) ==
    IF c.inFlight = 0 THEN c ELSE [c EXCEPT !.inFlight = 0, !.unknown = @ + 1]

-----------------------------------------------------------------------------
(* The ledger's span: exchanges published while the connection was registered. *)
PublishedAtEnd(c, publishedNow) ==
    IF Closed(c) THEN c.publishedAtClose ELSE publishedNow

(* decisions/0010 section 5.1: the three identities every ledger keeps at every *)
(* instant.                                                                      *)
LedgerIdentities(c, publishedNow) ==
    /\ c.publishedAtOpen + c.offered = PublishedAtEnd(c, publishedNow)
    /\ c.offered = c.enqueued + c.clientDropped
    /\ c.enqueued = c.sent + c.unknown + Queued(c) + c.discarded
=============================================================================
