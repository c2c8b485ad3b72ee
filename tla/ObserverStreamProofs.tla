-------------------------- MODULE ObserverStreamProofs --------------------------
(***************************************************************************)
(* No silent loss, for any number of exchanges and clients and any limits: *)
(* what a client has been sent, and what is on its way to it, are its      *)
(* history and then what was published since it connected, in order,       *)
(* except as many as its ledger says its queue refused.                    *)
(*                                                                         *)
(* A writer moves one exchange along this flow and a publication adds one  *)
(* to its end.  The end is newer than all the rest because the hand-off    *)
(* holds what is newer than all that was published, in order; a client's   *)
(* history joins its live stream because connect reads the ring and the    *)
(* count of publications in one step.                                      *)
(*                                                                         *)
(* Then, from the same invariant: an open connection that owes its client  *)
(* nothing has left it with the last state, because a writer that waits    *)
(* carries nothing and takes a state before anything else; and what has    *)
(* arrived is what its ledger counts, because what waits is newer than its *)
(* watermark and its history is not.                                       *)
(***************************************************************************)
EXTENDS ObserverProofs, SequenceTheorems

AtMost(s, n) == \A k \in 1..Len(s) : s[k] <= n

(* Where exchanges come from: the log, the ring and the hand-off are in order. *)
SourceOK ==
    /\ Len(log) = published
    /\ ring.lastSeq <= issued
    /\ AtMost(log, ring.lastSeq)
    /\ Increasing(ring.events) /\ AtMost(ring.events, ring.lastSeq)
    /\ Increasing(handoff.records)
    /\ \A k \in 1..Len(handoff.records) : ring.lastSeq < handoff.records[k] /\ handoff.records[k] <= issued

(* What a writer sends, it sends one thing at a time, and the history first. *)
WriterOK ==
    \A i \in Ids :
        /\ writer[i].at \in {"none", "hello", "wait"} => writer[i].carrying = 0
        /\ writer[i].at \in {"live", "wait"} => history[i] = << >>
        /\ writer[i].carrying # 0 => conns[i].inFlight = 0
        /\ AtMost(client[i].opening, ring.lastSeq)
        /\ i > opened => client[i].got = << >>

(* The parts of NoSilentLoss. *)
Due(i)  == client[i].opening \o PublishedSince(i)
Flow(i) == client[i].got \o OnTheWay(i)
Joins(flow, due, dropped) ==
    /\ Increasing(flow)
    /\ ToSet(flow) \subseteq ToSet(due)
    /\ Len(flow) = Len(due) - dropped

StreamInv == ObserverInv /\ SourceOK /\ WriterOK /\ NoSilentLoss

Kept == SourceOK' /\ WriterOK' /\ NoSilentLoss'

(* What a client has, and what can still follow it: a writer that has failed *)
(* or ended sends nothing more.                                              *)
Sendable(i) ==
    client[i].got \o (IF writer[i].at \in {"raised", "ended"} THEN << >> ELSE OnTheWay(i))

Begins(t, s) == Len(t) \in 0..Len(s) /\ \A k \in 1..Len(t) : t[k] = s[k]

(* At most one exchange has arrived. *)
Arrives(later, got) == later = got \/ \E n \in Exchanges : later = Append(got, n)

(* What every step but a publication and a connect does to the streams: one  *)
(* client may get the next exchange of what it can be sent, and what a client *)
(* can be sent only loses its end.                                            *)
Forwards ==
    /\ log' = log /\ ring' = ring /\ opened' = opened
    /\ \A j \in Ids : /\ conns'[j].clientDropped = conns[j].clientDropped
                       /\ conns'[j].publishedAtOpen = conns[j].publishedAtOpen
                       /\ client'[j].opening = client[j].opening
                       /\ Begins(client'[j].got, Sendable(j)) /\ Begins(Sendable(j)', Sendable(j))
    /\ \/ \A j \in Ids : client'[j].got = client[j].got
       \/ \E i \in Ids : /\ Arrives(client'[i].got, client[i].got)
                         /\ \A j \in Ids \ {i} : client'[j].got = client[j].got

-----------------------------------------------------------------------------
(* Sequences of exchanges. *)

LEMMA Concatenation ==
    /\ \A s, t \in Seq(Exchanges) : s \o t \in Seq(Exchanges)
    /\ \A s, t, u \in Seq(Exchanges) : (s \o t) \o u = s \o (t \o u)
    /\ \A n \in Exchanges : <<n>> \in Seq(Exchanges)
<1>1. ASSUME NEW s \in Seq(Exchanges), NEW t \in Seq(Exchanges)
      PROVE  s \o t \in Seq(Exchanges)
  BY ConcatProperties
<1>2. ASSUME NEW s \in Seq(Exchanges), NEW t \in Seq(Exchanges), NEW u \in Seq(Exchanges)
      PROVE  (s \o t) \o u = s \o (t \o u)
  BY ConcatAssociative
<1> QED
  BY <1>1, <1>2

LEMMA HeadJoins ==
    ASSUME NEW s \in Seq(Exchanges), s # << >>
    PROVE  <<Head(s)>> \o Tail(s) = s /\ Head(s) \in Exchanges /\ Tail(s) \in Seq(Exchanges)
<1>1. Head(s) \in Exchanges /\ Tail(s) \in Seq(Exchanges) /\ Len(s) \in Nat \ {0}
  BY HeadTailProperties, EmptySeq
<1>2. SubSeq(s, 1, Len(s)) = <<s[1]>> \o SubSeq(s, 2, Len(s))
  BY <1>1, SubSeqRecursiveFirst
<1>3. SubSeq(s, 1, Len(s)) = s /\ Tail(s) = SubSeq(s, 2, Len(s))
  BY SubSeqFull, TailIsSubSeq
<1> QED
  BY <1>1, <1>2, <1>3

(* What is on the way to a client: its history, what is being sent, its queue. *)
Flight(f) == IF f # 0 THEN <<f>> ELSE << >>
Way(h, f, q) == h \o Flight(f) \o q

LEMMA WayType ==
    ASSUME NEW h \in Seq(Exchanges), NEW f \in Exchanges \cup {0}, NEW q \in Seq(Exchanges)
    PROVE  /\ Flight(f) \in Seq(Exchanges)
           /\ Way(h, f, q) \in Seq(Exchanges)
           /\ Way(h, 0, q) = h \o q
           /\ Way(<< >>, f, q) = Flight(f) \o q
           /\ Way(<< >>, 0, q) = q
<1>1. Flight(f) \in Seq(Exchanges) /\ Flight(0) = << >> /\ << >> \in Seq(Exchanges)
  BY DEF Flight
<1>2. h \o Flight(f) \in Seq(Exchanges) /\ h \o << >> = h /\ << >> \o Flight(f) = Flight(f)
  BY <1>1, ConcatProperties, ConcatEmptySeq
<1>3. << >> \o << >> = << >> /\ << >> \o q = q
  BY <1>1, ConcatEmptySeq
<1> QED
  BY <1>1, <1>2, <1>3, ConcatProperties DEF Way

(* The queue's oldest is the next to be sent. *)
LEMMA WayTakesHead ==
    ASSUME NEW q \in Seq(Exchanges), q # << >>
    PROVE  Way(<< >>, Head(q), Tail(q)) = q /\ Head(q) \in Exchanges /\ Tail(q) \in Seq(Exchanges)
<1>1. Head(q) \in Exchanges /\ Tail(q) \in Seq(Exchanges) /\ <<Head(q)>> \o Tail(q) = q
  BY HeadJoins
<1>2. Flight(Head(q)) = <<Head(q)>>
  BY <1>1 DEF Flight, Exchanges
<1>3. \A n \in Exchanges, s \in Seq(Exchanges) : Way(<< >>, n, s) = Flight(n) \o s
  BY WayType
<1> QED
  BY <1>1, <1>2, <1>3

(* What has arrived leaves the way and ends what the client has. *)
LEMMA HistoryArrives ==
    ASSUME NEW g \in Seq(Exchanges), NEW h \in Seq(Exchanges), h # << >>, NEW q \in Seq(Exchanges)
    PROVE  Append(g, Head(h)) \o Way(Tail(h), 0, q) = g \o Way(h, 0, q)
<1> DEFINE x == <<Head(h)>>
           t == Tail(h)
           u == t \o q
<1>1. Head(h) \in Exchanges /\ x \in Seq(Exchanges) /\ t \in Seq(Exchanges) /\ x \o t = h
  BY HeadJoins
<1>2. Append(g, Head(h)) = g \o x
  BY <1>1, AppendIsConcat
<1>3. Way(t, 0, q) = t \o q /\ Way(h, 0, q) = h \o q
  BY <1>1, WayType
<1> HIDE DEF x, t
<1>4. u \in Seq(Exchanges)
  BY <1>1, Concatenation
<1>5. (g \o x) \o u = g \o (x \o u)
  <2>1. x \in Seq(Exchanges) /\ u \in Seq(Exchanges)
    BY <1>1, <1>4
  <2> HIDE DEF u
  <2> QED
    BY SMTT(30), <2>1, Concatenation
<1>6. x \o u = (x \o t) \o q
  BY ZenonT(60), <1>1, Concatenation
<1> QED
  BY <1>1, <1>2, <1>3, <1>5, <1>6 DEF t

LEMMA LiveArrives ==
    ASSUME NEW g \in Seq(Exchanges), NEW f \in Exchanges, NEW q \in Seq(Exchanges)
    PROVE  Append(g, f) \o Way(<< >>, 0, q) = g \o Way(<< >>, f, q)
<1>1. Flight(f) = <<f>> /\ <<f>> \in Seq(Exchanges)
  BY DEF Flight, Exchanges
<1>2. Append(g, f) = g \o <<f>>
  BY AppendIsConcat
<1>3. (g \o <<f>>) \o q = g \o (<<f>> \o q)
  BY <1>1, Concatenation
<1>4. Way(<< >>, 0, q) = q /\ Way(<< >>, f, q) = Flight(f) \o q
  BY WayType
<1> QED
  BY <1>1, <1>2, <1>3, <1>4

(* Exchanges are numbers. *)
LEMMA Elements ==
    ASSUME NEW s \in Seq(Exchanges)
    PROVE  \A k \in 1..Len(s) : s[k] \in Exchanges /\ s[k] \in Nat
<1> TAKE k \in 1..Len(s)
<1>1. s[k] \in Exchanges
  BY ElementOfSeq
<1> QED
  BY <1>1 DEF Exchanges

(* An order with one more at its end. *)
LEMMA IncreasingGrows ==
    ASSUME NEW s \in Seq(Exchanges), NEW n \in Exchanges, Increasing(s), \A k \in 1..Len(s) : s[k] < n
    PROVE  Increasing(Append(s, n))
BY AppendProperties, Elements DEF Increasing

LEMMA ToSetGrows ==
    ASSUME NEW s \in Seq(Exchanges), NEW n \in Exchanges
    PROVE  ToSet(Append(s, n)) = ToSet(s) \cup {n}
<1>1. /\ \A k \in 1..Len(s) : Append(s, n)[k] = s[k]
      /\ Append(s, n)[Len(s) + 1] = n /\ Len(s) \in Nat
      /\ DOMAIN s = 1..Len(s) /\ DOMAIN Append(s, n) = 1..(Len(s) + 1)
  BY AppendProperties
<1>2. 1..(Len(s) + 1) = (1..Len(s)) \cup {Len(s) + 1}
  BY <1>1
<1> QED
  BY <1>1, <1>2 DEF ToSet

LEMMA IncreasingPart ==
    ASSUME NEW s \in Seq(Exchanges), Increasing(s), NEW n \in Nat, AtMost(s, n),
           NEW a \in 1..Len(s) + 1, NEW b \in 0..Len(s)
    PROVE  Increasing(SubSeq(s, a, b)) /\ AtMost(SubSeq(s, a, b), n)
BY DEF Increasing, AtMost

-----------------------------------------------------------------------------
(* The methods of a connection. *)

LEMMA MethodsKeepQueue ==
    ASSUME NEW c \in Connections, NEW version \in Nat
    PROVE  /\ SetState(c, version).queue = c.queue /\ TakeState(c).queue = c.queue
           /\ SetDropped(c).queue = c.queue /\ [c EXCEPT !.changed = FALSE].queue = c.queue
           /\ MarkSent(c).queue = c.queue /\ MarkSent(c).state = c.state
           /\ SetDropped(c).state = c.state /\ [c EXCEPT !.changed = FALSE].state = c.state
BY DEF SetState, TakeState, SetDropped, MarkSent, Connections

(* next_message starts with the oldest of the queue, or leaves the queue to the slots. *)
LEMMA NextMessageWay ==
    ASSUME NEW c \in Connections, c.inFlight = 0
    PROVE  /\ Way(<< >>, NextMessage(c).inFlight, NextMessage(c).queue) = c.queue
           /\ c.state # 0 => NextMessage(c).inFlight = 0
<1>1. c.queue \in Seq(Exchanges)
  BY DEF Connections
<1>2. Way(<< >>, 0, c.queue) = c.queue
  BY <1>1, WayType
<1>3. CASE c.state # 0
  <2>1. NextMessage(c).queue = c.queue /\ NextMessage(c).inFlight = 0
    BY <1>3 DEF NextMessage, TakeState, Connections
  <2> QED
    BY <1>2, <2>1
<1>4. CASE c.state = 0 /\ c.notice
  <2>1. NextMessage(c).queue = c.queue /\ NextMessage(c).inFlight = 0
    BY <1>4 DEF NextMessage, Connections
  <2> QED
    BY <1>2, <1>4, <2>1
<1>5. CASE c.state = 0 /\ ~c.notice /\ c.queue # << >>
  <2>1. NextMessage(c).queue = Tail(c.queue) /\ NextMessage(c).inFlight = Head(c.queue)
    BY <1>5 DEF NextMessage, Connections
  <2> QED
    BY <1>1, <1>5, <2>1, WayTakesHead
<1>6. CASE c.state = 0 /\ ~c.notice /\ c.queue = << >>
  BY <1>2, <1>6 DEF NextMessage
<1> QED
  BY <1>3, <1>4, <1>5, <1>6

-----------------------------------------------------------------------------
(* The steps of a writer. *)

(* What the invariant says of the state it speaks about. *)
LEMMA StreamTypes ==
    ASSUME StreamInv
    PROVE  /\ opened \in Nat /\ \A i \in 1..opened : i \in Ids
           /\ conns \in [Ids -> Connections] /\ client \in [Ids -> ClientViews]
           /\ history \in [Ids -> Seq(Exchanges)]
           /\ writer \in [Ids -> [at : WriterStates, carrying : Nat, took : Nat]]
           /\ log \in Seq(Exchanges) /\ ring.events \in Seq(Exchanges)
           /\ ring.lastSeq \in Nat /\ issued \in Nat /\ published \in Nat
           /\ handoff.records \in Seq(Exchanges)
           /\ \A i \in Ids : /\ client[i].got \in Seq(Exchanges) /\ client[i].opening \in Seq(Exchanges)
                              /\ conns[i].queue \in Seq(Exchanges) /\ conns[i].inFlight \in Exchanges \cup {0}
<1>1. /\ opened \in 0..MaxConnections /\ conns \in [Ids -> Connections] /\ client \in [Ids -> ClientViews]
      /\ issued \in 0..MaxIssued /\ ring.lastSeq \in 0..MaxIssued
      /\ handoff \in [records : Seq(Exchanges), bytes : Int, dropped : Nat]
  BY DEF StreamInv, ObserverInv, TypeOK
<1>2. opened \in Nat /\ \A i \in 1..opened : i \in Ids
  BY <1>1, ObserverAssumption DEF Ids, ObserverAssumption
<1>3. issued \in Nat /\ ring.lastSeq \in Nat
  BY <1>1, LimitsAssumption DEF LimitsAssumption
<1>4. \A i \in Ids : /\ client[i].got \in Seq(Exchanges) /\ client[i].opening \in Seq(Exchanges)
                     /\ conns[i].queue \in Seq(Exchanges) /\ conns[i].inFlight \in Exchanges \cup {0}
  BY <1>1 DEF ClientViews, Connections
<1> QED
  BY <1>1, <1>2, <1>3, <1>4 DEF StreamInv, ObserverInv, TypeOK

LEMMA ConcatBegins ==
    ASSUME NEW s \in Seq(Exchanges), NEW t \in Seq(Exchanges)
    PROVE  Begins(s, s \o t) /\ Begins(s, s)
<1>1. /\ Len(s \o t) = Len(s) + Len(t) /\ Len(s) \in Nat /\ Len(t) \in Nat
      /\ \A k \in 1..Len(s) + Len(t) : (s \o t)[k] = IF k <= Len(s) THEN s[k] ELSE t[k - Len(s)]
  BY ConcatProperties
<1> QED
  BY <1>1 DEF Begins

(* A client's flow, and the part of it that can be sent. *)
LEMMA SendableFlow ==
    ASSUME StreamInv, NEW i \in Ids
    PROVE  /\ Flow(i) \in Seq(Exchanges) /\ Sendable(i) \in Seq(Exchanges)
           /\ Begins(client[i].got, Flow(i)) /\ Begins(client[i].got, Sendable(i))
           /\ Begins(Sendable(i), Sendable(i))
           /\ writer[i].at \in {"raised", "ended"} => Sendable(i) = client[i].got
           /\ writer[i].at \notin {"raised", "ended"} => Sendable(i) = Flow(i)
<1> DEFINE g == client[i].got
           w == OnTheWay(i)
           h == history[i]
           f == conns[i].inFlight
           q == conns[i].queue
<1>1. /\ g \in Seq(Exchanges) /\ h \in Seq(Exchanges) /\ q \in Seq(Exchanges) /\ f \in Exchanges \cup {0}
      /\ w = Way(h, f, q)
  BY StreamTypes DEF OnTheWay, Way, Flight
<1>2. w \in Seq(Exchanges)
  <2> HIDE DEF w, h, f, q
  <2> QED
    BY <1>1, WayType
<1>3. Flow(i) = g \o w
  BY DEF Flow
<1>4. /\ writer[i].at \in {"raised", "ended"} => Sendable(i) = g \o << >>
      /\ writer[i].at \notin {"raised", "ended"} => Sendable(i) = g \o w
  BY DEF Sendable
<1> HIDE DEF g, w
<1>5. g \o << >> = g /\ g \o w \in Seq(Exchanges) /\ Begins(g, g \o w) /\ Begins(g, g)
  BY <1>1, <1>2, ConcatEmptySeq, Concatenation, ConcatBegins
<1>6. Sendable(i) \in {g, g \o w}
  BY <1>4, <1>5
<1>7. Sendable(i) \in Seq(Exchanges) /\ Begins(g, Sendable(i))
  BY <1>1, <1>5, <1>6
<1>8. Begins(Sendable(i), Sendable(i))
  BY <1>7, ConcatBegins
<1> QED
  BY <1>3, <1>4, <1>5, <1>7, <1>8 DEF g

(* A step that touches one client at most. *)
LEMMA OneForwards ==
    ASSUME StreamInv, UNCHANGED <<stream, opened>>, NEW i \in Ids,
           \A j \in Ids \ {i} : /\ conns'[j] = conns[j] /\ history'[j] = history[j]
                                /\ client'[j] = client[j] /\ writer'[j].at = writer[j].at,
           conns'[i].clientDropped = conns[i].clientDropped,
           conns'[i].publishedAtOpen = conns[i].publishedAtOpen,
           client'[i].opening = client[i].opening, Arrives(client'[i].got, client[i].got),
           Begins(client'[i].got, Sendable(i)), Begins(Sendable(i)', Sendable(i))
    PROVE  Forwards
<1>1. log' = log /\ ring' = ring /\ opened' = opened
  BY DEF stream
<1>2. ASSUME NEW j \in Ids \ {i}
      PROVE  Begins(Sendable(j)', Sendable(j)) /\ Begins(client'[j].got, Sendable(j))
  <2>1. Sendable(j)' = Sendable(j)
    BY ZenonT(30) DEF Sendable, OnTheWay
  <2> QED
    BY SMTT(30), <2>1, SendableFlow
<1> QED
  BY <1>1, <1>2 DEF Forwards

(* A client whose queue is discarded loses the end of what it could be sent. *)
LEMMA LosesQueue ==
    ASSUME StreamInv, NEW i \in Ids, client'[i].got = client[i].got, history'[i] = history[i],
           writer'[i].at = writer[i].at, conns'[i].inFlight = conns[i].inFlight,
           conns'[i].queue \in {conns[i].queue, << >>}
    PROVE  Begins(Sendable(i)', Sendable(i))
<1> DEFINE g == client[i].got
           h == history[i] \o Flight(conns[i].inFlight)
           q == conns[i].queue
           u == g \o h
<1>1. g \in Seq(Exchanges) /\ q \in Seq(Exchanges) /\ h \in Seq(Exchanges)
  <2>1. /\ history[i] \in Seq(Exchanges) /\ conns[i].inFlight \in Exchanges \cup {0}
        /\ g \in Seq(Exchanges) /\ q \in Seq(Exchanges)
    BY StreamTypes
  <2>2. Flight(conns[i].inFlight) \in Seq(Exchanges)
    BY <2>1, WayType
  <2> QED
    BY <2>1, <2>2, Concatenation
<1>2. Begins(Sendable(i), Sendable(i))
  BY SendableFlow
<1>3. CASE writer[i].at \in {"raised", "ended"}
  <2>1. Sendable(i)' = Sendable(i)
    BY <1>3 DEF Sendable
  <2> QED
    BY <1>2, <2>1
<1>4. CASE writer[i].at \notin {"raised", "ended"}
  <2>1. Sendable(i) = g \o (h \o q) /\ Sendable(i)' = g \o (h \o conns'[i].queue)
    BY <1>4 DEF Sendable, OnTheWay, Flight
  <2> HIDE DEF g, h, q
  <2>2. h \o << >> = h /\ g \o (h \o q) = u \o q /\ u \in Seq(Exchanges)
    BY SMTT(30), <1>1, ConcatEmptySeq, Concatenation
  <2>3. Sendable(i) = u \o q /\ Begins(u, u \o q)
    BY <1>1, <2>1, <2>2, ConcatBegins
  <2>4. conns'[i].queue = << >> => Sendable(i)' = u
    BY <2>1, <2>2
  <2>5. conns'[i].queue = q => Sendable(i)' = Sendable(i)
    BY <2>1
  <2> QED
    BY <1>2, <2>3, <2>4, <2>5 DEF q
<1> QED
  BY <1>3, <1>4

(* A connection whose flow a step leaves as it was. *)
FlowStays(j) ==
    /\ Serving(j)
    /\ Flow(j)' = Flow(j)
    /\ Due(j)' = Due(j)
    /\ conns'[j].clientDropped = conns[j].clientDropped

LEMMA FlowsStay ==
    ASSUME StreamInv, UNCHANGED opened,
           \A j \in 1..opened : Serving(j)' => FlowStays(j)
    PROVE  NoSilentLoss'
<1> SUFFICES ASSUME NEW j \in 1..opened', Serving(j)'
             PROVE  Joins(Flow(j), Due(j), conns[j].clientDropped)'
  BY DEF NoSilentLoss, Joins, Flow, Due
<1>1. FlowStays(j)
  OBVIOUS
<1>2. Joins(Flow(j), Due(j), conns[j].clientDropped)
  BY <1>1 DEF StreamInv, NoSilentLoss, Joins, Flow, Due, FlowStays
<1> QED
  BY <1>1, <1>2 DEF FlowStays, Joins

(* One writer goes on: the others are where they were. *)
LEMMA TaskStep ==
    ASSUME StreamInv, UNCHANGED <<stream, opened>>,
           NEW i \in Ids, writer[i].at \notin {"none", "raised", "ended"},
           NEW d \in Connections, SameAccount(conns[i], d),
           NEW at \in WriterStates \ {"none", "hello"}, NEW carrying, NEW rest,
           Task(i, d, at, carrying, rest),
           NEW v, client' = [client EXCEPT ![i] = v], v.opening = client[i].opening,
           at \in {"live", "wait"} => rest = << >>,
           carrying # 0 => d.inFlight = 0, at = "wait" => carrying = 0,
           Arrives(v.got, client[i].got), Begins(v.got, Flow(i)), v.got \in Seq(Exchanges),
           at \notin {"raised", "ended"} => v.got \o Way(rest, d.inFlight, d.queue) = Flow(i)
    PROVE  Kept /\ Forwards
<1>1. /\ conns' = [conns EXCEPT ![i] = d] /\ history' = [history EXCEPT ![i] = rest]
      /\ writer'[i].at = at /\ writer'[i].carrying = carrying
      /\ \A j \in Ids \ {i} : writer'[j] = writer[j]
  BY StreamTypes DEF Task
<1>2. /\ conns'[i] = d /\ history'[i] = rest /\ client'[i] = v
      /\ \A j \in Ids \ {i} : conns'[j] = conns[j] /\ history'[j] = history[j] /\ client'[j] = client[j]
  BY <1>1, StreamTypes
<1>3. i <= opened
  BY WriterFacts DEF StreamInv
<1>4. SourceOK'
  BY DEF StreamInv, SourceOK, stream
<1>5. WriterOK'
  <2> SUFFICES ASSUME NEW j \in Ids
               PROVE  /\ writer'[j].at \in {"none", "hello", "wait"} => writer'[j].carrying = 0
                      /\ writer'[j].at \in {"live", "wait"} => history'[j] = << >>
                      /\ writer'[j].carrying # 0 => conns'[j].inFlight = 0
                      /\ AtMost(client'[j].opening, ring'.lastSeq)
                      /\ j > opened' => client'[j].got = << >>
    BY DEF WriterOK, AtMost
  <2>1. ring' = ring /\ opened' = opened
    BY DEF stream
  <2>2. CASE j = i
    BY <1>1, <1>2, <1>3, <2>1, <2>2, StreamTypes DEF StreamInv, WriterOK, Ids
  <2>3. CASE j # i
    BY <1>1, <1>2, <2>1, <2>3 DEF StreamInv, WriterOK
  <2> QED
    BY <2>2, <2>3
<1>6. ASSUME NEW j \in 1..opened, Serving(j)'
      PROVE  FlowStays(j)
  <2>1. j \in Ids /\ log' = log
    BY StreamTypes DEF stream
  <2>2. CASE j = i
    <3>1. ~Closed(d) /\ at \notin {"raised", "ended"}
      BY <1>1, <1>2, <1>6, <2>2 DEF Serving
    <3>2. Serving(i)
      BY SMTT(30), <3>1 DEF Serving, Closed, SameAccount
    <3>3. Flow(i)' = v.got \o Way(rest, d.inFlight, d.queue)
      BY <1>2 DEF Flow, OnTheWay, Way, Flight
    <3>4. Due(i)' = Due(i) /\ d.clientDropped = conns[i].clientDropped
      BY ZenonT(30), <1>2, <2>1 DEF Due, PublishedSince, SameAccount
    <3> QED
      BY <1>2, <2>2, <3>1, <3>2, <3>3, <3>4 DEF FlowStays
  <2>3. CASE j # i
    <3>1. conns'[j] = conns[j] /\ history'[j] = history[j] /\ client'[j] = client[j] /\ writer'[j] = writer[j]
      BY <1>1, <1>2, <2>1, <2>3
    <3> QED
      BY ZenonT(30), <1>6, <2>1, <3>1 DEF FlowStays, Serving, Flow, Due, OnTheWay, PublishedSince
  <2> QED
    BY <2>2, <2>3
<1>7. NoSilentLoss'
  BY <1>6, FlowsStay
<1>8. Begins(Sendable(i)', Sendable(i))
  <2>1. Sendable(i) = Flow(i) /\ Begins(Flow(i), Flow(i))
    BY SendableFlow
  <2>2. CASE at \in {"raised", "ended"}
    <3>1. Sendable(i)' = v.got \o << >>
      BY <1>1, <1>2, <2>2 DEF Sendable
    <3>2. Sendable(i)' = v.got
      BY <3>1, ConcatEmptySeq
    <3> QED
      BY <2>1, <3>2
  <2>3. CASE at \notin {"raised", "ended"}
    <3>1. Sendable(i)' = v.got \o Way(rest, d.inFlight, d.queue)
      BY <1>1, <1>2, <2>3 DEF Sendable, OnTheWay, Way, Flight
    <3> QED
      BY <2>1, <2>3, <3>1
  <2> QED
    BY <2>2, <2>3
<1>9. Forwards
  <2>1. Begins(client'[i].got, Sendable(i))
    BY <1>2, SendableFlow
  <2> QED
    BY <1>1, <1>2, <1>8, <2>1, OneForwards DEF SameAccount
<1> QED
  BY <1>4, <1>5, <1>7, <1>9 DEF Kept

(* A writer that has dealt with its message: the flow is the rest of the history, then the queue. *)
LEMMA ProceedStep ==
    ASSUME StreamInv, UNCHANGED <<stream, opened>>,
           NEW i \in Ids, writer[i].at \notin {"none", "raised", "ended"},
           NEW c \in Connections, SameAccount(conns[i], c), c.inFlight = 0,
           NEW rest \in Seq(Exchanges), Proceed(i, c, rest),
           NEW v, client' = [client EXCEPT ![i] = v], v.opening = client[i].opening,
           Arrives(v.got, client[i].got), Begins(v.got, Flow(i)), v.got \in Seq(Exchanges),
           v.got \o Way(rest, 0, c.queue) = Flow(i)
    PROVE  Kept /\ Forwards
<1>1. "preamble" \in WriterStates \ {"none", "hello"} /\ "ended" \in WriterStates \ {"none", "hello"}
      /\ "wait" \in WriterStates \ {"none", "hello"} /\ "live" \in WriterStates \ {"none", "hello"}
  BY DEF WriterStates, Sending
<1>2. CASE rest # << >>
  <2>1. Task(i, c, "preamble", 0, rest)
    BY <1>2 DEF Proceed
  <2> QED
    BY <1>1, <2>1, TaskStep
<1>3. CASE rest = << >> /\ Closed(c)
  <2>1. Task(i, c, "ended", 0, << >>)
    BY <1>3 DEF Proceed
  <2> QED
    BY <1>1, <1>3, <2>1, TaskStep
<1>4. CASE rest = << >> /\ ~Closed(c) /\ NothingToSend(c)
  <2> DEFINE d == [c EXCEPT !.changed = FALSE]
  <2>1. Task(i, d, "wait", 0, << >>)
    BY <1>4 DEF Proceed
  <2>2. KeepsAccount(c, d) /\ d.queue = c.queue
    BY NoticeKeepsAccount, MethodsKeepQueue
  <2> HIDE DEF d
  <2>3. d \in Connections /\ d.inFlight = 0 /\ SameAccount(conns[i], d) /\ (Closed(d) <=> Closed(c))
    BY <2>2 DEF KeepsAccount, SameAccount, Closed
  <2> QED
    BY <1>1, <1>4, <2>1, <2>2, <2>3, TaskStep
<1>5. CASE rest = << >> /\ ~Closed(c) /\ ~NothingToSend(c)
  <2> DEFINE d == NextMessage(c)
  <2>1. Task(i, d, "live", c.state, << >>)
    BY <1>5 DEF Proceed
  <2>2. d \in Connections /\ SameAccount(c, d)
    BY NextMessageBalances
  <2>3. Way(<< >>, d.inFlight, d.queue) = c.queue /\ (c.state # 0 => d.inFlight = 0)
    BY NextMessageWay
  <2>4. Way(<< >>, 0, c.queue) = c.queue
    BY WayType DEF Connections
  <2> HIDE DEF d
  <2>5. SameAccount(conns[i], d) /\ (Closed(d) <=> Closed(c))
    BY <2>2 DEF SameAccount, Closed
  <2> QED
    BY <1>1, <1>5, <2>1, <2>2, <2>3, <2>4, <2>5, TaskStep
<1> QED
  BY <1>2, <1>3, <1>4, <1>5

(* What a client has, and its way, when a writer's step begins. *)
LEMMA FlowParts ==
    ASSUME StreamInv, NEW i \in Ids, writer[i].at # "none"
    PROVE  /\ Flow(i) = client[i].got \o Way(history[i], conns[i].inFlight, conns[i].queue)
           /\ client[i].got \in Seq(Exchanges) /\ history[i] \in Seq(Exchanges)
           /\ conns[i] \in Connections /\ conns[i].queue \in Seq(Exchanges)
           /\ conns[i].inFlight \in Exchanges \cup {0}
           /\ client \in [Ids -> ClientViews] /\ client = [client EXCEPT ![i] = client[i]]
<1>1. Flow(i) = client[i].got \o Way(history[i], conns[i].inFlight, conns[i].queue)
  BY DEF Flow, OnTheWay, Way, Flight
<1>2. client = [client EXCEPT ![i] = client[i]]
  BY StreamTypes
<1> QED
  BY <1>1, <1>2, StreamTypes

(* What reaches a client ends what it has. *)
LEMMA ReachedGot ==
    ASSUME StreamInv, NEW i \in Ids, writer[i].at \in Sending
    PROVE  /\ Reached(i).opening = client[i].opening
           /\ Reached(i).got =
                  IF writer[i].carrying # 0 THEN client[i].got
                  ELSE IF writer[i].at = "preamble" THEN Append(client[i].got, Head(history[i]))
                  ELSE IF conns[i].inFlight # 0 THEN Append(client[i].got, conns[i].inFlight)
                  ELSE client[i].got
<1>1. client[i] \in ClientViews
  BY StreamTypes
<1> QED
  BY <1>1 DEF Reached, ClientViews

(* What reaches a client is the next that it could be sent. *)
LEMMA ReachedNext ==
    ASSUME StreamInv, NEW i \in Ids, writer[i].at \in Sending
    PROVE  /\ Arrives(Reached(i).got, client[i].got)
           /\ Begins(Reached(i).got, Flow(i)) /\ Reached(i).got \in Seq(Exchanges)
<1> DEFINE g == client[i].got
           c == conns[i]
           v == Reached(i)
<1>0. writer[i].at # "none"
  BY DEF Sending
<1>1. /\ Flow(i) = g \o Way(history[i], c.inFlight, c.queue)
      /\ g \in Seq(Exchanges) /\ history[i] \in Seq(Exchanges)
      /\ c.queue \in Seq(Exchanges) /\ c.inFlight \in Exchanges \cup {0} /\ Begins(g, Flow(i))
  BY <1>0, FlowParts, SendableFlow
<1>2. v.got = IF writer[i].carrying # 0 THEN g
              ELSE IF writer[i].at = "preamble" THEN Append(g, Head(history[i]))
              ELSE IF c.inFlight # 0 THEN Append(g, c.inFlight)
              ELSE g
  BY ReachedGot
<1>3. /\ writer[i].at # "live" => c.inFlight = 0
      /\ writer[i].at = "preamble" /\ writer[i].carrying = 0 => history[i] # << >>
      /\ writer[i].at = "live" => history[i] = << >>
  BY <1>0, WriterFacts DEF StreamInv, WriterOK
<1> HIDE DEF v, g, c
<1>4. CASE v.got = g
  BY <1>1, <1>4 DEF Arrives, v, g
<1>5. CASE writer[i].at = "preamble" /\ v.got = Append(g, Head(history[i])) /\ history[i] # << >>
  <2> DEFINE n == Head(history[i])
             rest == Way(Tail(history[i]), 0, c.queue)
  <2>1. n \in Exchanges /\ Tail(history[i]) \in Seq(Exchanges)
    BY <1>1, <1>5, HeadJoins
  <2>2. rest \in Seq(Exchanges)
    <3> DEFINE h == Tail(history[i])
    <3> HIDE DEF h
    <3>1. h \in Seq(Exchanges) /\ 0 \in Exchanges \cup {0}
      BY <2>1 DEF h
    <3> QED
      BY <1>1, <3>1, WayType DEF h
  <2>3. Append(g, n) \o rest = Flow(i)
    <3>1. Append(g, n) \o rest = g \o Way(history[i], 0, c.queue)
      BY <1>1, <1>5, HistoryArrives
    <3>2. c.inFlight = 0
      BY <1>3, <1>5
    <3> QED
      BY <1>1, <3>1, <3>2
  <2> HIDE DEF n, rest
  <2>5. Append(g, n) \in Seq(Exchanges)
    BY <1>1, <2>1, AppendProperties
  <2>4. v.got = Append(g, n)
    BY <1>5 DEF n
  <2> QED
    BY <2>1, <2>2, <2>3, <2>4, <2>5, ConcatBegins DEF Arrives, v, g
<1>6. CASE writer[i].at # "preamble" /\ v.got = Append(g, c.inFlight) /\ c.inFlight # 0
  <2> DEFINE n == c.inFlight
             q == c.queue
  <2>1. n \in Exchanges /\ history[i] = << >> /\ v.got = Append(g, n)
    BY <1>1, <1>3, <1>6
  <2>2. q \in Seq(Exchanges) /\ Flow(i) = g \o Way(<< >>, n, q)
    BY <1>1, <2>1
  <2> HIDE DEF n, q
  <2>3. Append(g, n) \o Way(<< >>, 0, q) = g \o Way(<< >>, n, q) /\ Way(<< >>, 0, q) = q
    BY ZenonT(60), <1>1, <2>1, <2>2, LiveArrives, WayType, Literals
  <2>4. Append(g, n) \in Seq(Exchanges) /\ Append(g, n) \o q = Flow(i)
    BY <1>1, <2>1, <2>2, <2>3, AppendProperties
  <2> QED
    BY <2>1, <2>2, <2>4, ConcatBegins DEF Arrives, v, g
<1> QED
  BY <1>2, <1>3, <1>4, <1>5, <1>6

(* A send that returns: what was sent is now at the end of what the client has. *)
LEMMA SendReturnsStep ==
    ASSUME StreamInv, NEW i \in Ids, SendReturns(i)
    PROVE  Kept /\ Forwards
<1> DEFINE c == conns[i]
           v == Reached(i)
<1>1. /\ writer[i].at \in Sending /\ writer[i].at \notin {"none", "raised", "ended"}
      /\ UNCHANGED <<stream, opened>> /\ client' = [client EXCEPT ![i] = v]
  BY DEF SendReturns, Sending
<1>2. /\ Flow(i) = client[i].got \o Way(history[i], c.inFlight, c.queue)
      /\ client[i].got \in Seq(Exchanges) /\ history[i] \in Seq(Exchanges)
      /\ c \in Connections /\ c.queue \in Seq(Exchanges) /\ c.inFlight \in Exchanges \cup {0}
      /\ SameAccount(c, c)
  BY <1>1, FlowParts, WriterFacts DEF StreamInv
<1>3. /\ v.opening = client[i].opening
      /\ v.got = IF writer[i].carrying # 0 THEN client[i].got
                 ELSE IF writer[i].at = "preamble" THEN Append(client[i].got, Head(history[i]))
                 ELSE IF c.inFlight # 0 THEN Append(client[i].got, c.inFlight)
                 ELSE client[i].got
  BY <1>1, ReachedGot
<1>4. /\ writer[i].at # "live" => c.inFlight = 0
      /\ writer[i].at = "preamble" /\ writer[i].carrying = 0 => history[i] # << >>
      /\ writer[i].at \in {"none", "hello", "wait"} => writer[i].carrying = 0
      /\ writer[i].at = "live" => history[i] = << >>
      /\ writer[i].carrying # 0 => c.inFlight = 0
  BY <1>1, WriterFacts DEF StreamInv, WriterOK
<1>10. Arrives(v.got, client[i].got) /\ Begins(v.got, Flow(i)) /\ v.got \in Seq(Exchanges)
  BY <1>1, ReachedNext
<1> HIDE DEF v
<1>5. CASE writer[i].at = "hello" /\ c.state # 0
  <2> DEFINE d == TakeState(c)
  <2>1. Task(i, d, "preamble", c.state, history[i])
    BY <1>5 DEF SendReturns
  <2>2. KeepsAccount(c, d) /\ d.queue = c.queue
    BY <1>2, StateKeepsAccount, MethodsKeepQueue, Literals
  <2> HIDE DEF d
  <2>3. d \in Connections /\ SameAccount(c, d) /\ d.inFlight = 0
    BY <1>4, <1>5, <2>2 DEF KeepsAccount
  <2>4. v.got = client[i].got
    BY <1>3, <1>4, <1>5
  <2>5. v.got \o Way(history[i], d.inFlight, d.queue) = Flow(i)
    BY <1>2, <1>4, <1>5, <2>2, <2>3, <2>4
  <2>6. "preamble" \in WriterStates \ {"none", "hello"} /\ "preamble" \notin {"live", "wait"}
    BY DEF WriterStates, Sending
  <2> QED
    BY ZenonT(30), <1>1, <1>3, <1>10, <2>1, <2>3, <2>5, <2>6, TaskStep
<1>6. CASE writer[i].at = "hello" /\ c.state = 0
  <2>1. Proceed(i, c, history[i])
    BY <1>6 DEF SendReturns
  <2>2. c.inFlight = 0 /\ v.got = client[i].got
    BY <1>3, <1>4, <1>6
  <2> QED
    BY <1>1, <1>2, <1>3, <1>10, <2>1, <2>2, ProceedStep
<1>7. CASE writer[i].at = "preamble" /\ writer[i].carrying # 0
  <2>1. Proceed(i, c, history[i])
    BY <1>7 DEF SendReturns
  <2>2. c.inFlight = 0 /\ v.got = client[i].got
    BY SMTT(30), <1>3, <1>4, <1>7
  <2> QED
    BY <1>1, <1>2, <1>3, <1>10, <2>1, <2>2, ProceedStep
<1>8. CASE writer[i].at = "preamble" /\ writer[i].carrying = 0
  <2> DEFINE rest == Tail(history[i])
  <2>1. Proceed(i, c, rest)
    BY <1>8 DEF SendReturns
  <2>2. c.inFlight = 0 /\ history[i] # << >> /\ v.got = Append(client[i].got, Head(history[i]))
    BY <1>3, <1>4, <1>8
  <2>3. rest \in Seq(Exchanges)
    BY <1>2, <2>2, HeadJoins
  <2>4. v.got \o Way(rest, 0, c.queue) = Flow(i)
    <3>1. Append(client[i].got, Head(history[i])) \o Way(Tail(history[i]), 0, c.queue)
              = client[i].got \o Way(history[i], 0, c.queue)
      BY ZenonT(30), <1>2, <2>2, HistoryArrives
    <3> QED
      BY <1>2, <2>2, <3>1
  <2> HIDE DEF rest
  <2> QED
    BY ZenonT(30), <1>1, <1>2, <1>3, <1>10, <2>1, <2>2, <2>3, <2>4, ProceedStep
<1>9. CASE writer[i].at = "live"
  <2> DEFINE d == MarkSent(c)
             none == << >>
  <2>1. Proceed(i, d, none)
    BY <1>9 DEF SendReturns
  <2>2. d \in Connections /\ SameAccount(c, d) /\ d.inFlight = 0
    BY <1>2, MarkBalances
  <2>3. d.queue = c.queue
    BY <1>2, MethodsKeepQueue, Literals
  <2>4. v.got \o Way(none, 0, d.queue) = Flow(i)
    <3>1. Flow(i) = client[i].got \o Way(<< >>, c.inFlight, c.queue)
      BY <1>2, <1>4, <1>9
    <3>2. CASE c.inFlight = 0
      <4>1. v.got = client[i].got
        BY <1>3, <1>9, <3>2
      <4> QED
        BY <2>3, <3>1, <3>2, <4>1
    <3>3. CASE c.inFlight # 0
      <4>1. v.got = Append(client[i].got, c.inFlight) /\ c.inFlight \in Exchanges
        BY <1>2, <1>3, <1>4, <1>9, <3>3
      <4> QED
        BY ZenonT(60), <1>2, <2>3, <3>1, <4>1, LiveArrives
    <3> QED
      BY <3>2, <3>3
  <2>5. none \in Seq(Exchanges)
    BY Literals
  <2> HIDE DEF d, none
  <2> QED
    BY <1>1, <1>3, <1>10, <2>1, <2>2, <2>4, <2>5, ProceedStep
<1> QED
  BY <1>1, <1>5, <1>6, <1>7, <1>8, <1>9 DEF Sending

(* A send that is refused, fails or is cancelled: the client is served no more. *)
LEMMA SendEndsStep ==
    ASSUME StreamInv, UNCHANGED <<stream, opened>>,
           NEW i \in Ids, writer[i].at \in Sending,
           NEW at \in {"raised", "ended"},
           NEW d \in {MarkFailed(conns[i]), MarkUnknown(conns[i])},
           client' \in {client, [client EXCEPT ![i] = Reached(i)]},
           Task(i, d, at, 0, << >>)
    PROVE  Kept /\ Forwards
<1>1. writer[i].at \notin {"none", "raised", "ended"} /\ at \in WriterStates \ {"none", "hello"}
  BY DEF Sending, WriterStates
<1>2. d \in Connections /\ SameAccount(conns[i], d)
  <2>1. conns[i] \in Connections
    BY <1>1, FlowParts
  <2> QED
    BY <2>1, MarkBalances
<1>3. PICK v \in {client[i], Reached(i)} : client' = [client EXCEPT ![i] = v]
  BY <1>1, FlowParts
<1>4. v.opening = client[i].opening
  BY <1>3, ReachedGot
<1>5. client[i].got \in Seq(Exchanges) /\ Begins(client[i].got, Flow(i))
  BY StreamTypes, SendableFlow
<1>6. Arrives(v.got, client[i].got) /\ Begins(v.got, Flow(i)) /\ v.got \in Seq(Exchanges)
  BY <1>3, <1>5, ReachedNext DEF Arrives
<1> QED
  BY <1>1, <1>2, <1>3, <1>4, <1>6, TaskStep

(* A writer that wakes. *)
LEMMA WriterWakesStep ==
    ASSUME StreamInv, NEW i \in Ids, WriterWakes(i)
    PROVE  Kept /\ Forwards
<1> DEFINE c == conns[i]
           d == [c EXCEPT !.changed = FALSE]
           none == << >>
<1>1. /\ writer[i].at = "wait" /\ Proceed(i, d, none) /\ UNCHANGED <<stream, opened>>
      /\ client' = client
  BY DEF WriterWakes
<1>2. /\ Flow(i) = client[i].got \o Way(history[i], c.inFlight, c.queue)
      /\ c \in Connections /\ client = [client EXCEPT ![i] = client[i]]
  BY <1>1, FlowParts
<1>3. c.inFlight = 0 /\ history[i] = << >>
  BY <1>1, WriterFacts DEF StreamInv, WriterOK
<1>4. KeepsAccount(c, d) /\ d.queue = c.queue
  BY <1>2, NoticeKeepsAccount, MethodsKeepQueue, Literals
<1>5. none \in Seq(Exchanges)
  BY Literals
<1>6. client[i].got \o Way(none, 0, d.queue) = Flow(i)
  BY <1>2, <1>3, <1>4
<1> HIDE DEF d, none
<1>7. d \in Connections /\ SameAccount(c, d) /\ d.inFlight = 0
  BY <1>3, <1>4 DEF KeepsAccount
<1>8. /\ Arrives(client[i].got, client[i].got) /\ Begins(client[i].got, Flow(i))
      /\ client[i].got \in Seq(Exchanges)
  BY StreamTypes, SendableFlow DEF Arrives
<1> QED
  BY <1>1, <1>2, <1>5, <1>6, <1>7, <1>8, ProceedStep

-----------------------------------------------------------------------------
(* Steps that move no exchange, and steps that end a connection. *)

(* A step that leaves every flow and every writer's place alone. *)
LEMMA QuietStep ==
    ASSUME StreamInv, UNCHANGED <<stream, opened, client, history>>,
           \A j \in Ids : /\ SameAccount(conns[j], conns'[j])
                          /\ conns'[j].queue = conns[j].queue /\ conns'[j].inFlight = conns[j].inFlight
                          /\ writer'[j].carrying = writer[j].carrying
                          /\ \/ writer'[j].at = writer[j].at
                             \/ writer[j].at = "none" /\ writer'[j].at = "hello"
    PROVE  Kept /\ Forwards
<1>1. SourceOK'
  BY DEF StreamInv, SourceOK, stream
<1>2. WriterOK'
  BY DEF StreamInv, WriterOK, AtMost, stream
<1>3. ASSUME NEW j \in 1..opened, Serving(j)' PROVE FlowStays(j)
  <2>1. j \in Ids /\ log' = log
    BY StreamTypes DEF stream
  <2>2. Serving(j)
    BY <1>3, <2>1 DEF Serving, Closed, SameAccount
  <2> QED
    BY <2>1, <2>2 DEF FlowStays, Flow, Due, OnTheWay, PublishedSince, SameAccount
<1>4. NoSilentLoss'
  BY <1>3, FlowsStay
<1>5. ASSUME NEW j \in Ids
      PROVE  Begins(Sendable(j)', Sendable(j)) /\ Begins(client'[j].got, Sendable(j))
  <2>1. Sendable(j)' = Sendable(j)
    BY DEF Sendable, OnTheWay
  <2> QED
    BY <2>1, SendableFlow
<1> QED
  BY <1>1, <1>2, <1>4, <1>5 DEF Kept, Forwards, SameAccount, stream

(* A step after which one client is served no more. *)
LEMMA EndStep ==
    ASSUME StreamInv, UNCHANGED <<stream, opened, client>>, NEW i \in Ids,
           \A j \in Ids \ {i} : conns'[j] = conns[j] /\ history'[j] = history[j] /\ writer'[j] = writer[j],
           ~Serving(i)', conns'[i].inFlight = conns[i].inFlight,
           writer'[i].carrying = writer[i].carrying, writer'[i].at \in {writer[i].at, "ended"},
           history'[i] \in {history[i], << >>},
           writer'[i].at = "ended" \/ (writer'[i].at = writer[i].at /\ history'[i] = history[i]),
           conns'[i].queue \in {conns[i].queue, << >>},
           conns'[i].clientDropped = conns[i].clientDropped,
           conns'[i].publishedAtOpen = conns[i].publishedAtOpen
    PROVE  Kept /\ Forwards
<1>1. SourceOK'
  BY DEF StreamInv, SourceOK, stream
<1>2. WriterOK'
  BY SMTT(30) DEF StreamInv, WriterOK, AtMost, stream
<1>3. ASSUME NEW j \in 1..opened, Serving(j)' PROVE FlowStays(j)
  <2>1. j \in Ids /\ log' = log /\ j # i
    BY <1>3, StreamTypes DEF stream
  <2>2. Serving(j)
    BY <1>3, <2>1 DEF Serving
  <2> QED
    BY <2>1, <2>2 DEF FlowStays, Flow, Due, OnTheWay, PublishedSince
<1>4. NoSilentLoss'
  BY <1>3, FlowsStay
<1>5. writer'[i].at \in {"raised", "ended"} => Begins(Sendable(i)', Sendable(i))
  <2>1. Begins(client[i].got, Sendable(i)) /\ client[i].got \o << >> = client[i].got
    BY SendableFlow, StreamTypes, ConcatEmptySeq
  <2> QED
    BY <2>1 DEF Sendable
<1>6. writer'[i].at \notin {"raised", "ended"} => Begins(Sendable(i)', Sendable(i))
  BY LosesQueue
<1>7. Begins(client'[i].got, Sendable(i)) /\ Begins(Sendable(i)', Sendable(i))
  BY <1>5, <1>6, SendableFlow
<1>8. Forwards
  BY <1>7, OneForwards DEF Arrives
<1> QED
  BY <1>1, <1>2, <1>4, <1>8 DEF Kept

(* Closing leaves what is in flight to the writer. *)
LEMMA ClosedByNow ==
    ASSUME StreamInv, NEW i \in Ids, NEW code, code # NotClosed, NEW counts, CloseAndRetire(i, code, counts)
    PROVE  /\ \A j \in Ids \ {i} : conns'[j] = conns[j]
           /\ Closed(conns'[i]) /\ conns'[i].inFlight = conns[i].inFlight
           /\ conns'[i].queue \in {conns[i].queue, << >>}
           /\ conns'[i].clientDropped = conns[i].clientDropped
           /\ conns'[i].publishedAtOpen = conns[i].publishedAtOpen
<1>1. conns \in [Ids -> Connections] /\ conns' = [conns EXCEPT ![i] = Close(conns[i], code, published)]
  BY StreamTypes DEF CloseAndRetire
<1>2. conns'[i] = Close(conns[i], code, published) /\ conns[i] \in Connections
  BY <1>1
<1>3. /\ Closed(conns'[i]) /\ conns'[i].inFlight = conns[i].inFlight
      /\ conns'[i].queue \in {conns[i].queue, << >>}
      /\ conns'[i].clientDropped = conns[i].clientDropped
      /\ conns'[i].publishedAtOpen = conns[i].publishedAtOpen
  BY <1>2 DEF Close, CloseNow, Closed, Connections
<1> QED
  BY <1>1, <1>3

(* Every step of a writer, of its callback and of a failed handshake. *)
LEMMA WriterStepsFlow ==
    ASSUME StreamInv, NEW i \in Ids, WriterStep(i)
    PROVE  Kept /\ Forwards
<1>0. writer \in [Ids -> [at : WriterStates, carrying : Nat, took : Nat]] /\ history \in [Ids -> Seq(Exchanges)]
  BY StreamTypes
<1>1. CASE StartWriter(i)
  <2>1. \A j \in Ids : /\ writer'[j].carrying = writer[j].carrying
                       /\ \/ writer'[j].at = writer[j].at
                          \/ writer[j].at = "none" /\ writer'[j].at = "hello"
    BY <1>0, <1>1 DEF StartWriter
  <2>2. UNCHANGED <<stream, opened, client, history, conns>>
    BY <1>1 DEF StartWriter
  <2> QED
    BY <2>1, <2>2, QuietStep DEF SameAccount
<1>2. CASE PrepareFails(i)
  <2>1. /\ UNCHANGED <<stream, opened, client>> /\ CloseAndRetire(i, 1006, counters)
        /\ writer' = [writer EXCEPT ![i].at = "ended"] /\ history' = [history EXCEPT ![i] = << >>]
    BY <1>2 DEF PrepareFails
  <2> DEFINE code == 1006
  <2>2. CloseAndRetire(i, code, counters) /\ code # NotClosed
    BY <2>1 DEF NotClosed
  <2> HIDE DEF code
  <2>3. /\ \A j \in Ids \ {i} : conns'[j] = conns[j]
        /\ Closed(conns'[i]) /\ conns'[i].inFlight = conns[i].inFlight
        /\ conns'[i].queue \in {conns[i].queue, << >>}
        /\ conns'[i].clientDropped = conns[i].clientDropped
        /\ conns'[i].publishedAtOpen = conns[i].publishedAtOpen
    BY <2>1, <2>2, ClosedByNow
  <2>4. /\ \A j \in Ids \ {i} : writer'[j] = writer[j] /\ history'[j] = history[j]
        /\ writer'[i].at = "ended" /\ writer'[i].carrying = writer[i].carrying /\ history'[i] = << >>
    BY <1>0, <2>1
  <2>5. \A j \in Ids \ {i} : conns'[j] = conns[j] /\ history'[j] = history[j] /\ writer'[j] = writer[j]
    BY <2>3, <2>4
  <2> QED
    BY <2>1, <2>3, <2>4, <2>5, EndStep DEF Serving
<1>3. CASE SendReturns(i)
  BY <1>3, SendReturnsStep
<1>4. CASE SendRefused(i)
  BY <1>4, SendEndsStep DEF SendRefused
<1>5. CASE SendRaises(i)
  BY <1>5, SendEndsStep DEF SendRaises
<1>6. CASE WriterEnded(i)
  <2>1. /\ UNCHANGED <<stream, opened, client, history>> /\ writer' = [writer EXCEPT ![i].at = "ended"]
    BY <1>6 DEF WriterEnded
  <2>2. /\ \A j \in Ids \ {i} : writer'[j] = writer[j]
        /\ writer'[i].at = "ended" /\ writer'[i].carrying = writer[i].carrying
    BY <1>0, <2>1
  <2>3. InternalError # NotClosed
    BY DEF InternalError, NotClosed
  <2>4. CASE CloseAndRetire(i, InternalError, Count("writer_failed"))
    BY <2>1, <2>2, <2>3, <2>4, ClosedByNow, EndStep DEF Serving
  <2>5. CASE UNCHANGED conns
    BY <2>1, <2>2, <2>5, EndStep DEF Serving
  <2> QED
    BY <1>6, <2>4, <2>5 DEF WriterEnded
<1>7. CASE CancelWriter(i)
  BY <1>7, SendEndsStep DEF CancelWriter
<1>8. CASE WriterWakes(i)
  BY <1>8, WriterWakesStep
<1> QED
  BY <1>1, <1>2, <1>3, <1>4, <1>5, <1>6, <1>7, <1>8 DEF WriterStep

(* The handler or the server ends a connection. *)
LEMMA DisconnectStep ==
    ASSUME StreamInv, NEW i \in Ids, Disconnect(i)
    PROVE  Kept /\ Forwards
<1>1. PICK code \in HandlerCodes \cup ClientCodes : CloseAndRetire(i, code, counters)
  BY DEF Disconnect
<1>2. code # NotClosed
  BY ObserverAssumption DEF ObserverAssumption
<1>3. UNCHANGED <<stream, opened, client, writer, history>>
  BY DEF Disconnect, tasks
<1> QED
  BY ZenonT(60), <1>1, <1>2, <1>3, ClosedByNow, EndStep DEF Serving

(* A turn of run_state fills slots. *)
LEMMA PushStep ==
    ASSUME StreamInv, UNCHANGED <<stream, opened, client, history, writer>>,
           NEW version \in Nat, NEW push \in BOOLEAN,
           conns' = PushDropped(IF push THEN PushState(conns, version) ELSE conns)
    PROVE  Kept /\ Forwards
<1> DEFINE ss == IF push THEN PushState(conns, version) ELSE conns
<1>1. \A j \in Ids : KeepsAccount(conns[j], conns'[j])
  BY PushKeepsAccount DEF StreamInv
<1>2. ASSUME NEW j \in Ids
      PROVE  ss[j] \in Connections /\ ss[j].queue = conns[j].queue
  <2>1. conns[j] \in Connections
    BY StreamTypes
  <2>2. ss[j] \in {conns[j], SetState(conns[j], version)}
    BY StreamTypes DEF PushState
  <2>3. SetState(conns[j], version) \in Connections
    BY <2>1, StateKeepsAccount DEF KeepsAccount
  <2> QED
    BY <2>1, <2>2, <2>3, MethodsKeepQueue
<1>3. ASSUME NEW j \in Ids
      PROVE  conns'[j].queue = conns[j].queue
  <2>1. conns'[j] \in {ss[j], SetDropped(ss[j])}
    BY DEF PushDropped
  <2> HIDE DEF ss
  <2>2. SetDropped(ss[j]).queue = ss[j].queue
    BY <1>2, MethodsKeepQueue
  <2> QED
    BY <1>2, <2>1, <2>2
<1> HIDE DEF ss
<1> QED
  BY <1>1, <1>3, QuietStep DEF KeepsAccount

-----------------------------------------------------------------------------
(* The dispatcher, and the steps that move nothing. *)

LEMMA DispatchStep ==
    ASSUME StreamInv, Dispatch
    PROVE  Kept /\ Forwards
<1> DEFINE n == issued + 1
           records == handoff.records
<1>1. /\ issued' = n /\ issued < MaxIssued
      /\ UNCHANGED <<published, ring, log, opened, conns, writer, history, client>>
  BY DEF Dispatch, tasks
<1>2. handoff'.records \in {records, Append(records, n)}
  <2>1. handoff \in [records : Seq(Exchanges), bytes : Int, dropped : Nat]
    BY DEF StreamInv, ObserverInv, TypeOK
  <2> QED
    BY <2>1 DEF Dispatch
<1>3. records \in Seq(Exchanges) /\ issued \in Nat /\ ring.lastSeq \in Nat /\ Len(records) \in Nat
  BY StreamTypes
<1>4. n \in Exchanges
  BY <1>1, <1>3, LimitsAssumption DEF Exchanges, LimitsAssumption
<1>5. /\ Len(log) = published /\ ring.lastSeq <= issued /\ AtMost(log, ring.lastSeq)
      /\ Increasing(ring.events) /\ AtMost(ring.events, ring.lastSeq) /\ Increasing(records)
      /\ \A k \in 1..Len(records) : ring.lastSeq < records[k] /\ records[k] <= issued
  BY DEF StreamInv, SourceOK
<1>6. \A k \in 1..Len(records) : records[k] \in Nat
  BY <1>3, Elements
<1> HIDE DEF records
<1>7. ASSUME handoff'.records = records PROVE SourceOK'
  <2>1. ring.lastSeq <= n /\ \A k \in 1..Len(records) : records[k] <= n
    BY <1>3, <1>5, <1>6
  <2> HIDE DEF n
  <2> QED
    BY <1>1, <1>5, <1>7, <2>1 DEF SourceOK, AtMost
<1>8. ASSUME handoff'.records = Append(records, n) PROVE SourceOK'
  <2> DEFINE more == Append(records, n)
  <2>1. ring.lastSeq < n /\ \A k \in 1..Len(records) : records[k] < n
    BY <1>3, <1>5, <1>6
  <2> HIDE DEF n
  <2>2. Increasing(more)
    BY <1>3, <1>4, <1>5, <2>1, IncreasingGrows
  <2>3. /\ Len(more) = Len(records) + 1 /\ more[Len(records) + 1] = n
        /\ \A k \in 1..Len(records) : more[k] = records[k]
    BY <1>3, <1>4, AppendProperties
  <2>4. \A k \in 1..Len(more) : ring.lastSeq < more[k] /\ more[k] <= n
    <3> SUFFICES ASSUME NEW k \in 1..Len(more)
                 PROVE  ring.lastSeq < more[k] /\ more[k] <= n
      OBVIOUS
    <3>1. CASE k = Len(records) + 1
      BY <1>4, <2>1, <2>3, <3>1 DEF Exchanges
    <3>2. CASE k \in 1..Len(records)
      BY <1>4, <1>5, <1>6, <2>1, <2>3, <3>2 DEF Exchanges
    <3> QED
      BY <1>3, <2>3, <3>1, <3>2
  <2>5. ring.lastSeq <= n
    BY <1>3, <1>4, <2>1 DEF Exchanges
  <2> HIDE DEF more
  <2> QED
    BY <1>1, <1>5, <1>8, <2>2, <2>4, <2>5 DEF SourceOK, AtMost, more
<1>9. WriterOK'
  BY <1>1 DEF StreamInv, WriterOK, AtMost
<1>10. \A j \in 1..opened : Serving(j)' => FlowStays(j)
  BY <1>1 DEF FlowStays, Serving, Flow, Due, OnTheWay, PublishedSince
<1>11. NoSilentLoss'
  BY <1>1, <1>10, FlowsStay
<1>12. ASSUME NEW j \in Ids
      PROVE  Begins(Sendable(j)', Sendable(j)) /\ Begins(client'[j].got, Sendable(j))
  <2>1. Sendable(j)' = Sendable(j) /\ client' = client
    BY <1>1 DEF Sendable, OnTheWay
  <2> QED
    BY <2>1, SendableFlow
<1>13. Forwards
  BY <1>1, <1>12 DEF Forwards
<1> QED
  BY <1>2, <1>7, <1>8, <1>9, <1>11, <1>13 DEF records, Kept

(* Steps that change no connection. *)
LEMMA StillStep ==
    ASSUME StreamInv, UNCHANGED <<stream, opened, conns, tasks, client>>
    PROVE  Kept /\ Forwards
BY QuietStep DEF SameAccount, tasks

LEMMA StateStep ==
    ASSUME StreamInv, \/ \E version \in {feed.last, feed.last + 1} : SnapshotTaken(version)
                      \/ SnapshotFails
    PROVE  Kept /\ Forwards
<1>1. UNCHANGED <<stream, opened, client, history, writer>> /\ ObserverInv
  BY DEF StreamInv, SnapshotTaken, SnapshotFails, tasks
<1>2. ASSUME NEW version \in {feed.last, feed.last + 1}, SnapshotTaken(version)
      PROVE  Kept /\ Forwards
  <2> DEFINE push == feed.mustPublish \/ version # feed.last
  <2>1. conns' = PushDropped(IF push THEN PushState(conns, version) ELSE conns)
    BY <1>2 DEF SnapshotTaken
  <2>2. version \in Nat /\ push \in BOOLEAN
    BY <1>1, QuietTypes
  <2> HIDE DEF push
  <2> QED
    BY <1>1, <2>1, <2>2, PushStep
<1>3. ASSUME SnapshotFails
      PROVE  Kept /\ Forwards
  <2> DEFINE push == FALSE
             none == 0
  <2>1. conns' = PushDropped(IF push THEN PushState(conns, none) ELSE conns)
    BY <1>3 DEF SnapshotFails
  <2>2. none \in Nat /\ push \in BOOLEAN
    OBVIOUS
  <2> HIDE DEF push, none
  <2> QED
    BY <1>1, <2>1, <2>2, PushStep
<1> QED
  BY <1>2, <1>3

-----------------------------------------------------------------------------
(* A publication. *)

(* The ring stays in order, and what it hands out is. *)
LEMMA RingAddOrder ==
    ASSUME NEW r, r.events \in Seq(Exchanges), Increasing(r.events), NEW m \in Nat, AtMost(r.events, m),
           NEW n \in Exchanges, m < n
    PROVE  Increasing(RingAdd(r, n).events) /\ AtMost(RingAdd(r, n).events, n)
<1> DEFINE all      == Append(r.events, n)
           bytes(k) == r.bytes + TextSize[n] - Bytes(SubSeq(all, 1, Len(all) - k))
           over(k)  == k > HistoryMaxEvents \/ (bytes(k) > HistoryMaxBytes /\ k > 1)
           fits     == {k \in 1..Len(all) : ~over(k)}
<1>1. all \in Seq(Exchanges) /\ fits \in SUBSET (1..Len(all))
  OBVIOUS
<1>2. RingAdd(r, n).events = LastEvents(all, Cardinality(fits))
  BY DEF RingAdd
<1> HIDE DEF fits
<1>3. \A k \in 1..Len(r.events) : r.events[k] < n
  BY Elements DEF AtMost, Exchanges
<1>4. Increasing(all)
  BY <1>3, IncreasingGrows
<1>5. AtMost(all, n)
  <2>1. /\ Len(all) = Len(r.events) + 1 /\ all[Len(r.events) + 1] = n /\ Len(r.events) \in Nat
        /\ \A k \in 1..Len(r.events) : all[k] = r.events[k]
    BY AppendProperties
  <2>2. \A k \in 1..Len(r.events) : r.events[k] \in Nat
    BY Elements
  <2> HIDE DEF all
  <2>3. \A k \in 1..Len(r.events) : all[k] <= n
    BY <1>3, <2>1, <2>2 DEF Exchanges
  <2>4. 1..Len(all) = (1..Len(r.events)) \cup {Len(all)}
    BY <2>1
  <2> QED
    BY <2>1, <2>3, <2>4 DEF AtMost, Exchanges
<1> HIDE DEF all
<1>6. Cardinality(fits) \in 0..Len(all) /\ Len(all) \in Nat
  BY <1>1, CountOfPositions
<1>7. n \in Nat /\ Len(all) - Cardinality(fits) + 1 \in 1..Len(all) + 1 /\ Len(all) \in 0..Len(all)
  BY <1>6 DEF Exchanges
<1> QED
  BY <1>1, <1>2, <1>4, <1>5, <1>7, IncreasingPart DEF LastEvents

LEMMA LastInOrder ==
    ASSUME NEW s \in Seq(Exchanges), Increasing(s), NEW m \in Nat, AtMost(s, m), NEW k \in 0..Len(s)
    PROVE  Increasing(LastEvents(s, k)) /\ AtMost(LastEvents(s, k), m)
<1>1. Len(s) - k + 1 \in 1..Len(s) + 1 /\ Len(s) \in 0..Len(s)
  OBVIOUS
<1> QED
  BY <1>1, IncreasingPart DEF LastEvents

LEMMA SinceOrder ==
    ASSUME NEW r, r.events \in Seq(Exchanges), Increasing(r.events), NEW m \in Nat, AtMost(r.events, m),
           NEW after \in Nat \cup {NoAfter}
    PROVE  Increasing(Since(r, after)) /\ AtMost(Since(r, after), m)
<1> DEFINE newer == {k \in DOMAIN r.events : r.events[k] > after}
           later == LastEvents(r.events, Cardinality(newer))
<1>0. ExchangesMaxLimit \in Nat /\ Len(r.events) \in Nat
  BY LimitsAssumption DEF LimitsAssumption
<1>1. CASE after = NoAfter
  <2> DEFINE k == Min({ExchangesMaxLimit, Len(r.events)})
  <2>1. k \in 0..Len(r.events)
    BY <1>0, MinOfTwo
  <2>2. Since(r, after) = LastEvents(r.events, k)
    BY <1>1 DEF Since
  <2> HIDE DEF k
  <2> QED
    BY <2>1, <2>2, LastInOrder
<1>2. CASE after # NoAfter
  <2>1. newer \in SUBSET (1..Len(r.events))
    OBVIOUS
  <2>2. Since(r, after) = SubSeq(later, 1, Min({ExchangesMaxLimit, Len(later)}))
    BY <1>2 DEF Since
  <2> HIDE DEF newer
  <2>3. Cardinality(newer) \in 0..Len(r.events)
    BY <2>1, CountOfPositions
  <2>4. later \in Seq(Exchanges) /\ Len(later) \in Nat /\ Increasing(later) /\ AtMost(later, m)
    BY <2>3, LastEventsType, LastInOrder
  <2> HIDE DEF later
  <2> DEFINE k == Min({ExchangesMaxLimit, Len(later)})
  <2>5. k \in 0..Len(later) /\ 1 \in 1..Len(later) + 1
    BY <1>0, <2>4, MinOfTwo
  <2>6. Since(r, after) = SubSeq(later, 1, k)
    BY <2>2
  <2> HIDE DEF k
  <2> QED
    BY <2>4, <2>5, <2>6, IncreasingPart
<1> QED
  BY <1>1, <1>2

(* One more at the end of what is due, received or refused. *)
LEMMA JoinsGrow ==
    ASSUME NEW flow \in Seq(Exchanges), NEW due \in Seq(Exchanges), NEW dropped \in Nat,
           NEW n \in Exchanges, Joins(flow, due, dropped), \A k \in 1..Len(due) : due[k] < n
    PROVE  /\ Joins(Append(flow, n), Append(due, n), dropped)
           /\ Joins(flow, Append(due, n), dropped + 1)
<1>1. /\ ToSet(Append(flow, n)) = ToSet(flow) \cup {n} /\ ToSet(Append(due, n)) = ToSet(due) \cup {n}
      /\ Len(Append(flow, n)) = Len(flow) + 1 /\ Len(Append(due, n)) = Len(due) + 1
      /\ Len(flow) \in Nat /\ Len(due) \in Nat
  BY ToSetGrows, AppendProperties
<1>2. \A k \in 1..Len(flow) : flow[k] < n
  <2> SUFFICES ASSUME NEW k \in 1..Len(flow) PROVE flow[k] < n
    OBVIOUS
  <2>1. flow[k] \in ToSet(flow)
    BY DEF ToSet
  <2>2. flow[k] \in ToSet(due)
    BY <2>1 DEF Joins
  <2> QED
    BY <2>2 DEF ToSet
<1>3. Increasing(Append(flow, n))
  BY <1>2, IncreasingGrows DEF Joins
<1> QED
  BY <1>1, <1>3 DEF Joins

LEMMA EndJoins ==
    ASSUME NEW s \in Seq(Exchanges), NEW t \in Seq(Exchanges), NEW n \in Exchanges
    PROVE  s \o Append(t, n) = Append(s \o t, n) /\ s \o t \in Seq(Exchanges)
<1> DEFINE l == <<n>>
<1>1. l \in Seq(Exchanges) /\ s \o t \in Seq(Exchanges)
  BY Concatenation
<1>2. Append(t, n) = t \o l /\ Append(s \o t, n) = (s \o t) \o l
  BY <1>1, AppendIsConcat
<1> HIDE DEF l
<1> QED
  BY SMTT(30), <1>1, <1>2, Concatenation

LEMMA BothAtMost ==
    ASSUME NEW s \in Seq(Exchanges), NEW t \in Seq(Exchanges), NEW m \in Nat, AtMost(s, m), AtMost(t, m)
    PROVE  AtMost(s \o t, m)
<1>1. /\ Len(s \o t) = Len(s) + Len(t) /\ Len(s) \in Nat /\ Len(t) \in Nat
      /\ \A k \in 1..Len(s) + Len(t) : (s \o t)[k] = IF k <= Len(s) THEN s[k] ELSE t[k - Len(s)]
  BY ConcatProperties
<1> QED
  BY <1>1 DEF AtMost

(* What an offer does to a client that is still served after it. *)
LEMMA OfferFlow ==
    ASSUME NEW c \in Connections, NEW n \in Exchanges, NEW t, ~Closed(c),
           NEW d, d = Offer(c, n, t), ~Closed(d)
    PROVE  /\ d.publishedAtOpen = c.publishedAtOpen /\ d.state = c.state
           /\ \/ d.queue = Append(c.queue, n) /\ d.clientDropped = c.clientDropped
              \/ d.queue = c.queue /\ d.clientDropped = c.clientDropped + 1
<1> DEFINE e == Drop(c, t)
<1>1. d \in {Enqueue(c, n), e, CloseNow(e, TooSlow, e.publishedAtOpen + e.offered)}
  BY DEF Offer
<1>2. /\ Enqueue(c, n).publishedAtOpen = c.publishedAtOpen /\ Enqueue(c, n).state = c.state
      /\ Enqueue(c, n).queue = Append(c.queue, n) /\ Enqueue(c, n).clientDropped = c.clientDropped
  BY DEF Enqueue, Connections
<1>3. /\ e.publishedAtOpen = c.publishedAtOpen /\ e.state = c.state /\ e.queue = c.queue
      /\ e.clientDropped = c.clientDropped + 1 /\ DOMAIN e = DOMAIN c
  BY DEF Drop, Connections
<1>4. "closeCode" \in DOMAIN c
  BY DEF Connections
<1> HIDE DEF e
<1>5. ASSUME NEW p PROVE Closed(CloseNow(e, TooSlow, p))
  BY <1>3, <1>4 DEF CloseNow, Closed, TooSlow, NotClosed
<1> QED
  BY <1>1, <1>2, <1>3, <1>5

(* A client that a publication leaves served was open before it, and its offer did not raise. *)
LEMMA OfferedFlow ==
    ASSUME NEW c \in Connections, ~Closed(c), NEW n \in Exchanges, NEW raises \in BOOLEAN,
           NEW d, d = Offered(c, n, raises), now \in Nat, published \in Nat, LedgerIdentities(c, published)
    PROVE  /\ d.inFlight = c.inFlight
           /\ ~Closed(d) =>
                  /\ d.publishedAtOpen = c.publishedAtOpen /\ d.state = c.state
                  /\ \/ d.queue = Append(c.queue, n) /\ d.clientDropped = c.clientDropped
                     \/ d.queue = c.queue /\ d.clientDropped = c.clientDropped + 1
<1>1. d.inFlight = c.inFlight
  BY OfferedBalances
<1>2. CASE raises
  <2>1. d = CloseNow(c, InternalError, published)
    BY <1>2 DEF Offered, Close
  <2>2. Closed(d)
    BY <2>1 DEF CloseNow, Closed, InternalError, NotClosed, Connections
  <2> QED
    BY <1>1, <2>2
<1>3. CASE ~raises
  <2>1. d = Offer(c, n, now)
    BY <1>3 DEF Offered
  <2> QED
    BY <1>1, <2>1, OfferFlow
<1> QED
  BY <1>2, <1>3

(* The end of a sequence that grows. *)
LEMMA EndGrows ==
    ASSUME NEW s \in Seq(Exchanges), NEW p \in 0..Len(s), NEW n \in Exchanges, NEW m \in Nat, AtMost(s, m)
    PROVE  /\ SubSeq(s, p + 1, Len(s)) \in Seq(Exchanges)
           /\ AtMost(SubSeq(s, p + 1, Len(s)), m)
           /\ SubSeq(Append(s, n), p + 1, Len(Append(s, n))) = Append(SubSeq(s, p + 1, Len(s)), n)
<1> DEFINE t == SubSeq(s, p + 1, Len(s))
           u == Append(s, n)
           v == SubSeq(u, p + 1, Len(u))
<1>1. Len(s) \in Nat /\ Len(u) = Len(s) + 1 /\ u \in Seq(Exchanges)
  BY AppendProperties
<1>2. /\ t \in Seq(Exchanges) /\ Len(t) = Len(s) - p
      /\ \A k \in 1..Len(s) - p : t[k] = s[p + k]
  OBVIOUS
<1>3. AtMost(t, m)
  BY <1>1, <1>2 DEF AtMost
<1>4. /\ v \in Seq(Exchanges) /\ Len(v) = Len(s) - p + 1
      /\ \A k \in 1..Len(s) - p + 1 : v[k] = u[p + k]
  <2> HIDE DEF u
  <2> QED
    BY <1>1
<1>5. u[Len(s) + 1] = n /\ \A k \in 1..Len(s) : u[k] = s[k]
  BY AppendProperties
<1> HIDE DEF t, u, v
<1>6. Append(t, n) \in Seq(Exchanges) /\ Len(Append(t, n)) = Len(s) - p + 1
      /\ Append(t, n)[Len(s) - p + 1] = n /\ \A k \in 1..Len(s) - p : Append(t, n)[k] = t[k]
  BY <1>2, AppendProperties
<1>7. \A k \in 1..Len(s) - p + 1 : v[k] = Append(t, n)[k]
  <2> SUFFICES ASSUME NEW k \in 1..Len(s) - p + 1 PROVE v[k] = Append(t, n)[k]
    OBVIOUS
  <2>1. CASE k = Len(s) - p + 1
    <3>1. p + k = Len(s) + 1
      BY <1>1, <2>1
    <3> QED
      BY <1>4, <1>5, <1>6, <2>1, <3>1
  <2>2. CASE k \in 1..Len(s) - p
    <3>1. p + k \in 1..Len(s)
      BY <1>1, <2>2
    <3> QED
      BY <1>2, <1>4, <1>5, <1>6, <2>2, <3>1
  <2>3. k = Len(s) - p + 1 \/ k \in 1..Len(s) - p
    BY <1>1
  <2> QED
    BY <2>1, <2>2, <2>3
<1>8. v = Append(t, n)
  <2> DEFINE w == Append(t, n)
  <2> HIDE DEF w
  <2> QED
    BY <1>4, <1>6, <1>7, SeqEqual DEF w
<1> QED
  BY <1>2, <1>3, <1>8 DEF t, u, v

(* What is due to a client before a publication, and after it. *)
LEMMA DueGrows ==
    ASSUME StreamInv, NEW j \in 1..opened, ~Closed(conns[j]), NEW n \in Exchanges, ring.lastSeq < n,
           log' = Append(log, n), client' = client,
           conns'[j].publishedAtOpen = conns[j].publishedAtOpen
    PROVE  /\ Due(j)' = Append(Due(j), n)
           /\ Due(j) \in Seq(Exchanges)
           /\ \A k \in 1..Len(Due(j)) : Due(j)[k] < n
<1> DEFINE p    == conns[j].publishedAtOpen
           past == PublishedSince(j)
           own  == client[j].opening
<1>1. /\ j \in Ids /\ own \in Seq(Exchanges) /\ log \in Seq(Exchanges) /\ published \in Nat
      /\ conns[j] \in Connections /\ ring.lastSeq \in Nat /\ n \in Nat
  BY StreamTypes DEF Exchanges
<1>2. p \in 0..Len(log)
  <2>1. p + conns[j].offered = published /\ Len(log) = published
    BY DEF StreamInv, ObserverInv, LedgersBalance, LedgerIdentities, PublishedAtEnd, SourceOK
  <2>2. p \in Nat /\ conns[j].offered \in Nat
    BY <1>1, LedgerTypes
  <2> HIDE DEF p
  <2> QED
    BY <1>1, <2>1, <2>2
<1>3. past = SubSeq(log, p + 1, Len(log)) /\ PublishedSince(j)' = SubSeq(Append(log, n), p + 1, Len(Append(log, n)))
  BY DEF PublishedSince
<1>4. /\ past \in Seq(Exchanges) /\ AtMost(past, ring.lastSeq)
      /\ PublishedSince(j)' = Append(past, n)
  <2>1. AtMost(log, ring.lastSeq)
    BY DEF StreamInv, SourceOK
  <2> HIDE DEF p, past
  <2> QED
    BY <1>1, <1>2, <1>3, <2>1, EndGrows
<1>5. AtMost(own, ring.lastSeq)
  BY <1>1 DEF StreamInv, WriterOK
<1>6. Due(j)' = own \o PublishedSince(j)' /\ Due(j) = own \o past
  BY DEF Due
<1> HIDE DEF own, past
<1>7. Due(j)' = Append(Due(j), n) /\ Due(j) \in Seq(Exchanges)
  BY SMTT(30), <1>1, <1>4, <1>6, EndJoins
<1>8. AtMost(Due(j), ring.lastSeq)
  BY <1>1, <1>4, <1>5, <1>6, BothAtMost
<1>9. \A k \in 1..Len(Due(j)) : Due(j)[k] \in Nat
  BY <1>7, Elements
<1> QED
  BY <1>1, <1>7, <1>8, <1>9 DEF AtMost

(* A client's flow when its queue takes one more. *)
LEMMA FlowTakes ==
    ASSUME StreamInv, NEW j \in Ids, NEW n \in Exchanges, UNCHANGED <<client, history>>,
           conns'[j].inFlight = conns[j].inFlight
    PROVE  /\ Flow(j) \in Seq(Exchanges)
           /\ conns'[j].queue = conns[j].queue => Flow(j)' = Flow(j)
           /\ conns'[j].queue = Append(conns[j].queue, n) => Flow(j)' = Append(Flow(j), n)
<1> DEFINE g == client[j].got
           x == history[j] \o Flight(conns[j].inFlight)
           q == conns[j].queue
           l == <<n>>
           w == g \o (x \o q)
<1>1. g \in Seq(Exchanges) /\ q \in Seq(Exchanges) /\ x \in Seq(Exchanges) /\ l \in Seq(Exchanges)
  BY StreamTypes, WayType, Concatenation
<1>2. Flow(j) = w /\ Flow(j)' = g \o (x \o conns'[j].queue)
  BY DEF Flow, OnTheWay, Flight
<1> HIDE DEF g, x, l
<1>3. Append(q, n) = q \o l
  BY <1>1, AppendIsConcat DEF l
<1>4. x \o (q \o l) = (x \o q) \o l /\ x \o q \in Seq(Exchanges)
  BY ZenonT(60), <1>1, Concatenation
<1>5. g \o ((x \o q) \o l) = w \o l /\ w \in Seq(Exchanges)
  BY ZenonT(60), <1>1, <1>4, Concatenation
<1>6. conns'[j].queue = q => Flow(j)' = w
  BY <1>2
<1>7. conns'[j].queue = q \o l => Flow(j)' = w \o l
  BY <1>2, <1>4, <1>5
<1> HIDE DEF w, q
<1>8. Append(w, n) = w \o l
  BY <1>5, AppendIsConcat DEF l
<1>9. conns'[j].queue = Append(q, n) => Flow(j)' = Append(w, n)
  BY <1>3, <1>7, <1>8
<1> QED
  BY <1>2, <1>5, <1>6, <1>9 DEF q

LEMMA PublishStep ==
    ASSUME StreamInv, handoff.records # << >>, NEW n, n = Head(handoff.records), Publish(n),
           handoff'.records = Tail(handoff.records),
           UNCHANGED <<issued, opened, now, tasks, client>>
    PROVE  Kept
<1>1. PICK raising \in SUBSET connections :
        /\ published' = published + 1
        /\ ring' = RingAdd(ring, n)
        /\ log' = Append(log, n)
        /\ conns' = [i \in Ids |-> IF i \in connections THEN Offered(conns[i], n, i \in raising)
                                                        ELSE conns[i]]
  BY DEF Publish
<1> DEFINE records == handoff.records
<1>2. /\ records \in Seq(Exchanges) /\ log \in Seq(Exchanges) /\ ring.events \in Seq(Exchanges)
      /\ ring.lastSeq \in Nat /\ issued \in Nat /\ published \in Nat /\ opened \in Nat
      /\ conns \in [Ids -> Connections] /\ \A i \in 1..opened : i \in Ids
  BY StreamTypes
<1>3. /\ Len(log) = published /\ AtMost(log, ring.lastSeq)
      /\ Increasing(ring.events) /\ AtMost(ring.events, ring.lastSeq) /\ Increasing(records)
      /\ \A k \in 1..Len(records) : ring.lastSeq < records[k] /\ records[k] <= issued
  BY DEF StreamInv, SourceOK
<1>4. /\ n \in Exchanges /\ n \in Nat /\ n = records[1] /\ 1 \in 1..Len(records)
      /\ ring.lastSeq < n /\ n <= issued
  <2>1. n \in Exchanges /\ Len(records) \in Nat \ {0} /\ n = records[1]
    BY <1>2, HeadTailProperties, EmptySeq
  <2> QED
    BY <1>3, <2>1 DEF Exchanges
<1>5. SourceOK'
  <2> DEFINE later == Tail(records)
  <2>1. later \in Seq(Exchanges) /\ Len(later) = Len(records) - 1
        /\ \A k \in 1..Len(later) : later[k] = records[k + 1]
    BY <1>2, <1>4
  <2>2. Increasing(later)
    BY <1>2, <1>3, <2>1 DEF Increasing
  <2>3. \A k \in 1..Len(later) : n < later[k] /\ later[k] <= issued
    BY <1>2, <1>3, <1>4, <2>1 DEF Increasing
  <2>4. Increasing(RingAdd(ring, n).events) /\ AtMost(RingAdd(ring, n).events, n)
    BY <1>2, <1>3, <1>4, RingAddOrder
  <2>5. ring'.lastSeq = n
    BY <1>1, <1>2, <1>4, RingAddType
  <2>6. Len(Append(log, n)) = published + 1 /\ AtMost(Append(log, n), n)
    <3>1. \A k \in 1..Len(log) : log[k] \in Nat
      BY <1>2, Elements
    <3>2. /\ Len(Append(log, n)) = Len(log) + 1 /\ Append(log, n)[Len(log) + 1] = n
          /\ \A k \in 1..Len(log) : Append(log, n)[k] = log[k]
      BY <1>2, <1>4, AppendProperties
    <3> DEFINE more == Append(log, n)
    <3> HIDE DEF more
    <3>3. 1..Len(more) = (1..Len(log)) \cup {Len(log) + 1}
      BY <1>2, <1>3, <3>2 DEF more
    <3> QED
      BY SMTT(30), <1>2, <1>3, <1>4, <3>1, <3>2, <3>3 DEF AtMost, more
  <2> HIDE DEF later
  <2>7. handoff'.records = later
    BY DEF later
  <2> QED
    BY <1>1, <1>4, <2>2, <2>3, <2>4, <2>5, <2>6, <2>7 DEF SourceOK
<1>6. now \in Nat
  BY DEF StreamInv, ObserverInv, TypeOK
<1>7. ASSUME NEW j \in connections
      PROVE  /\ j \in 1..opened /\ j \in Ids /\ ~Closed(conns[j])
             /\ conns'[j].inFlight = conns[j].inFlight
             /\ ~Closed(conns'[j]) =>
                    /\ conns'[j].publishedAtOpen = conns[j].publishedAtOpen
                    /\ \/ /\ conns'[j].queue = Append(conns[j].queue, n)
                          /\ conns'[j].clientDropped = conns[j].clientDropped
                       \/ /\ conns'[j].queue = conns[j].queue
                          /\ conns'[j].clientDropped = conns[j].clientDropped + 1
  <2>1. j \in 1..opened /\ j \in Ids
    BY <1>2 DEF StreamInv, ObserverInv, TypeOK
  <2>2. conns[j] \in Connections /\ ~Closed(conns[j]) /\ LedgerIdentities(conns[j], published)
    BY <1>2, <2>1 DEF StreamInv, ObserverInv, RegisteredIffOpen, LedgersBalance
  <2> DEFINE raises == j \in raising
  <2>3. conns'[j] = Offered(conns[j], n, raises) /\ raises \in BOOLEAN
    BY <1>1, <2>1
  <2> HIDE DEF raises
  <2>4. published \in Nat
    BY <1>2
  <2> DEFINE c == conns[j]
             d == conns'[j]
  <2>5. c \in Connections /\ ~Closed(c) /\ LedgerIdentities(c, published) /\ d = Offered(c, n, raises)
    BY <2>2, <2>3
  <2> HIDE DEF c, d
  <2>6. /\ d.inFlight = c.inFlight
        /\ ~Closed(d) =>
                  /\ d.publishedAtOpen = c.publishedAtOpen
                  /\ \/ d.queue = Append(c.queue, n) /\ d.clientDropped = c.clientDropped
                     \/ d.queue = c.queue /\ d.clientDropped = c.clientDropped + 1
    BY <1>4, <1>6, <2>3, <2>4, <2>5, OfferedFlow
  <2> QED
    BY <2>1, <2>2, <2>6 DEF c, d
<1>8. \A j \in Ids : j \notin connections => conns'[j] = conns[j]
  BY <1>1
<1>9. WriterOK'
  <2> SUFFICES ASSUME NEW j \in Ids
               PROVE  /\ writer'[j].at \in {"none", "hello", "wait"} => writer'[j].carrying = 0
                      /\ writer'[j].at \in {"live", "wait"} => history'[j] = << >>
                      /\ writer'[j].carrying # 0 => conns'[j].inFlight = 0
                      /\ AtMost(client'[j].opening, ring'.lastSeq)
                      /\ j > opened' => client'[j].got = << >>
    BY DEF WriterOK, AtMost
  <2>1. conns'[j].inFlight = conns[j].inFlight
    BY <1>7, <1>8
  <2>2. ring'.lastSeq = n
    BY <1>1, <1>2, <1>4, RingAddType
  <2>3. AtMost(client[j].opening, n)
    <3>1. AtMost(client[j].opening, ring.lastSeq)
      BY DEF StreamInv, WriterOK
    <3>2. \A k \in 1..Len(client[j].opening) : client[j].opening[k] \in Nat
      BY StreamTypes, Elements
    <3> QED
      BY <1>2, <1>4, <3>1, <3>2 DEF AtMost
  <2> QED
    BY <2>1, <2>2, <2>3 DEF StreamInv, WriterOK, tasks
<1>10. NoSilentLoss'
  <2> SUFFICES ASSUME NEW j \in 1..opened, Serving(j)'
               PROVE  Joins(Flow(j)', Due(j)', conns'[j].clientDropped)
    BY DEF NoSilentLoss, Joins, Flow, Due
  <2>1. j \in Ids /\ ~Closed(conns'[j])
    BY <1>2 DEF Serving
  <2>2. j \in connections
    <3>1. j \notin connections => Closed(conns[j]) /\ conns'[j] = conns[j]
      BY <1>8, <2>1 DEF StreamInv, ObserverInv, RegisteredIffOpen
    <3> QED
      BY <2>1, <3>1
  <2>3. /\ ~Closed(conns[j]) /\ conns'[j].inFlight = conns[j].inFlight
        /\ conns'[j].publishedAtOpen = conns[j].publishedAtOpen
        /\ \/ /\ conns'[j].queue = Append(conns[j].queue, n)
              /\ conns'[j].clientDropped = conns[j].clientDropped
           \/ /\ conns'[j].queue = conns[j].queue
              /\ conns'[j].clientDropped = conns[j].clientDropped + 1
    BY <1>7, <2>1, <2>2
  <2>4. Serving(j)
    BY <2>3 DEF Serving, tasks
  <2>5. Joins(Flow(j), Due(j), conns[j].clientDropped)
    <3>1. NoSilentLoss
      BY DEF StreamInv
    <3> QED
      BY SMTT(30), <2>4, <3>1 DEF NoSilentLoss, Joins, Flow, Due
  <2>6. /\ Due(j)' = Append(Due(j), n) /\ Due(j) \in Seq(Exchanges)
        /\ \A k \in 1..Len(Due(j)) : Due(j)[k] < n
    BY ZenonT(30), <1>1, <1>4, <2>3, DueGrows
  <2>7. /\ Flow(j) \in Seq(Exchanges)
        /\ conns'[j].queue = conns[j].queue => Flow(j)' = Flow(j)
        /\ conns'[j].queue = Append(conns[j].queue, n) => Flow(j)' = Append(Flow(j), n)
    BY <1>4, <2>1, <2>3, FlowTakes DEF tasks
  <2>8. conns[j].clientDropped \in Nat
    BY <1>2, <2>1, LedgerTypes
  <2> QED
    BY <1>4, <2>3, <2>5, <2>6, <2>7, <2>8, JoinsGrow
<1> QED
  BY <1>5, <1>9, <1>10 DEF Kept

LEMMA PublisherStep ==
    ASSUME StreamInv, PublisherTurn
    PROVE  Kept
<1>1. handoff \in [records : Seq(Exchanges), bytes : Int, dropped : Nat]
  BY DEF StreamInv, ObserverInv, TypeOK
<1>2. CASE handoff.records = << >>
  <2>1. UNCHANGED <<handoff, published, ring, log, conns, issued, opened, writer, history, client>>
    BY <1>2 DEF PublisherTurn, tasks
  <2>2. SourceOK' /\ WriterOK'
    BY <2>1 DEF StreamInv, SourceOK, WriterOK, AtMost
  <2>3. \A j \in 1..opened : Serving(j)' => FlowStays(j)
    BY <2>1 DEF FlowStays, Serving, Flow, Due, OnTheWay, PublishedSince
  <2> QED
    BY <2>1, <2>2, <2>3, FlowsStay DEF Kept
<1>3. CASE handoff.records # << >>
  <2> DEFINE n == Head(handoff.records)
  <2>1. Publish(n) /\ UNCHANGED <<issued, opened, now, tasks, client>>
    BY <1>3 DEF PublisherTurn
  <2>2. handoff'.records = Tail(handoff.records)
    BY <1>1, <1>3 DEF PublisherTurn
  <2> HIDE DEF n
  <2> QED
    BY <1>3, <2>1, <2>2, PublishStep DEF n
<1> QED
  BY <1>2, <1>3

-----------------------------------------------------------------------------
(* A client connects: its history ends where its live stream begins. *)
LEMMA ConnectStep ==
    ASSUME StreamInv, NEW after \in Afters, Connect(after)
    PROVE  Kept
<1> DEFINE i       == opened + 1
           opening == Since(ring, after)
           fresh   == NewConnection(ring.lastSeq, published, Len(opening))
           d       == SetState(fresh, feed.last)
           v       == [client[i] EXCEPT !.after = after, !.gap = Gap(ring, after), !.opening = opening]
<1>1. /\ opened' = i /\ conns' = [conns EXCEPT ![i] = d] /\ opened < MaxConnections
      /\ history' = [history EXCEPT ![i] = opening] /\ client' = [client EXCEPT ![i] = v]
      /\ UNCHANGED <<stream, writer>>
  BY DEF Connect
<1>2. /\ conns \in [Ids -> Connections] /\ opened \in Nat /\ client \in [Ids -> ClientViews]
      /\ published \in Nat /\ ring.lastSeq \in Nat /\ ring.events \in Seq(Exchanges)
      /\ history \in [Ids -> Seq(Exchanges)] /\ \A j \in 1..opened : j \in Ids
      /\ log \in Seq(Exchanges)
  BY StreamTypes
<1>3. MaxConnections \in Nat /\ after \in Nat \cup {NoAfter}
  BY ObserverAssumption DEF ObserverAssumption
<1>4. /\ i \in Ids /\ i > opened /\ ~(i <= opened) /\ \A j \in 1..i : j = i \/ j \in 1..opened
  BY <1>1, <1>2, <1>3 DEF Ids
<1>5. opening \in Seq(Exchanges) /\ Increasing(opening) /\ AtMost(opening, ring.lastSeq)
  <2>1. Increasing(ring.events) /\ AtMost(ring.events, ring.lastSeq)
    BY DEF StreamInv, SourceOK
  <2>2. opening \in Seq(Exchanges)
    BY <1>2, <1>3, SinceType
  <2> QED
    BY <1>2, <1>3, <2>1, <2>2, SinceOrder
<1>6. /\ d.queue = << >> /\ d.inFlight = 0 /\ d.clientDropped = 0 /\ d.publishedAtOpen = published
  <2> HIDE DEF opening
  <2>1. fresh.closeCode = NotClosed
    BY DEF NewConnection
  <2>2. d = [fresh EXCEPT !.state = feed.last, !.changed = TRUE]
    BY <2>1 DEF SetState, Closed
  <2> QED
    BY ZenonT(60), <2>2 DEF NewConnection
<1>7. v.opening = opening /\ v.got = << >>
  <2>1. client[i] \in ClientViews /\ client[i].got = << >>
    BY <1>2, <1>4 DEF StreamInv, WriterOK
  <2> HIDE DEF opening, i
  <2> QED
    BY <2>1 DEF ClientViews
<1>8. writer[i].at = "none"
  BY <1>4 DEF StreamInv, ObserverInv, OnlyOpenedStart
<1> HIDE DEF d, v, opening, i
<1>9. /\ conns'[i] = d /\ history'[i] = opening /\ client'[i] = v
      /\ \A j \in Ids \ {i} : conns'[j] = conns[j] /\ history'[j] = history[j] /\ client'[j] = client[j]
  BY <1>1, <1>2, <1>4
<1>10. SourceOK'
  BY <1>1 DEF StreamInv, SourceOK, stream
<1>11. WriterOK'
  <2> SUFFICES ASSUME NEW j \in Ids
               PROVE  /\ writer'[j].at \in {"none", "hello", "wait"} => writer'[j].carrying = 0
                      /\ writer'[j].at \in {"live", "wait"} => history'[j] = << >>
                      /\ writer'[j].carrying # 0 => conns'[j].inFlight = 0
                      /\ AtMost(client'[j].opening, ring'.lastSeq)
                      /\ j > opened' => client'[j].got = << >>
    BY DEF WriterOK, AtMost
  <2>1. ring' = ring /\ writer' = writer
    BY <1>1 DEF stream
  <2>2. CASE j = i
    BY <1>5, <1>6, <1>7, <1>8, <1>9, <2>1, <2>2 DEF StreamInv, WriterOK
  <2>3. CASE j # i
    <3>1. j > opened' => j > opened
      BY <1>1, <1>2 DEF i, Ids
    <3> QED
      BY <1>9, <2>1, <2>3, <3>1 DEF StreamInv, WriterOK
  <2> QED
    BY <2>2, <2>3
<1>12. NoSilentLoss'
  <2> SUFFICES ASSUME NEW j \in 1..i, Serving(j)'
               PROVE  Joins(Flow(j)', Due(j)', conns'[j].clientDropped)
    BY <1>1 DEF NoSilentLoss, Joins, Flow, Due
  <2>1. log' = log /\ writer' = writer
    BY <1>1 DEF stream
  <2>2. CASE j = i
    <3> DEFINE none == << >>
    <3>0. conns'[j] = d /\ history'[j] = opening /\ client'[j] = v
      BY <1>9, <2>2
    <3>1. none \in Seq(Exchanges) /\ Flight(0) = none
      BY DEF Flight
    <3>2. none \o opening = opening /\ opening \o none = opening /\ none \o none = none
      BY <1>5, <3>1, ConcatEmptySeq
    <3>3. Flow(j)' = none \o (opening \o Flight(0) \o none)
      BY <1>6, <1>7, <3>0 DEF Flow, OnTheWay, Flight
    <3>4. PublishedSince(j)' = none
      <4>1. PublishedSince(j)' = SubSeq(log, published + 1, Len(log)) /\ Len(log) = published
        BY <1>6, <3>0, <2>1 DEF PublishedSince, StreamInv, SourceOK
      <4> QED
        BY <1>2, <4>1
    <3>5. Due(j)' = opening \o none
      BY <1>7, <3>0, <3>4 DEF Due
    <3> HIDE DEF none
    <3>6. Flow(j)' = opening /\ Due(j)' = opening
      BY <3>1, <3>2, <3>3, <3>5
    <3>7. Len(opening) = Len(opening) - 0
      BY <1>5
    <3> QED
      BY <1>5, <1>6, <3>0, <2>2, <3>6, <3>7 DEF Joins
  <2>3. CASE j # i
    <3>1. j \in 1..opened /\ j \in Ids
      BY <1>2, <1>4, <2>3
    <3>2. conns'[j] = conns[j] /\ history'[j] = history[j] /\ client'[j] = client[j]
      BY <1>9, <2>3, <3>1
    <3>3. Serving(j) /\ Flow(j)' = Flow(j) /\ Due(j)' = Due(j)
      BY <2>1, <3>2 DEF Serving, Flow, Due, OnTheWay, PublishedSince
    <3>4. Joins(Flow(j), Due(j), conns[j].clientDropped)
      BY <3>1, <3>3 DEF StreamInv, NoSilentLoss, Joins, Flow, Due
    <3> QED
      BY <3>2, <3>3, <3>4
  <2> QED
    BY <2>2, <2>3
<1> QED
  BY <1>10, <1>11, <1>12 DEF Kept

-----------------------------------------------------------------------------
LEMMA StreamStarts == Init => StreamInv
<1> SUFFICES ASSUME Init PROVE StreamInv
  OBVIOUS
<1>1. ObserverInv
  BY InitEstablishes
<1>2. SourceOK
  BY DEF Init, EmptyRing, SourceOK, AtMost, Increasing
<1>3. WriterOK
  BY DEF Init, WriterOK, AtMost, NewConnection
<1>4. NoSilentLoss
  BY DEF Init, NoSilentLoss
<1> QED
  BY <1>1, <1>2, <1>3, <1>4 DEF StreamInv

(* Every step keeps the source, the writers and the flows in order. *)
LEMMA StreamStep == StreamInv /\ [Next]_vars => StreamInv'
<1> SUFFICES ASSUME StreamInv, [Next]_vars PROVE Kept
  BY NextKeeps DEF StreamInv, Kept
<1>1. CASE Dispatch
  BY <1>1, DispatchStep
<1>2. CASE PublisherTurn
  BY <1>2, PublisherStep
<1>3. ASSUME NEW after \in Afters, Connect(after) PROVE Kept
  BY <1>3, ConnectStep
<1>4. CASE RefuseClient
  BY <1>4, StillStep DEF RefuseClient
<1>5. ASSUME NEW i \in Ids, Disconnect(i) PROVE Kept
  BY <1>5, DisconnectStep
<1>6. CASE Stats
  BY <1>6, StillStep DEF Stats
<1>7. ASSUME NEW i \in Ids, WriterStep(i) PROVE Kept
  BY <1>7, WriterStepsFlow
<1>8. CASE \E version \in {feed.last, feed.last + 1} : SnapshotTaken(version)
  BY <1>8, StateStep
<1>9. CASE SnapshotFails
  BY <1>9, StateStep
<1>10. CASE Tick
  BY <1>10, StillStep DEF Tick
<1>11. CASE UNCHANGED vars
  BY <1>11, StillStep DEF vars
<1> QED
  BY <1>1, <1>2, <1>3, <1>4, <1>5, <1>6, <1>7, <1>8, <1>9, <1>10, <1>11 DEF Next

LEMMA StreamInvariant == Spec => []StreamInv
BY StreamStarts, StreamStep, PTL DEF Spec

(* Nothing is lost, repeated or reordered between the history a client is given *)
(* and its live stream, however publications fall around connect, hello and the *)
(* sends of its writer; only what its ledger counts as refused is missing.      *)
THEOREM NothingIsLostInSilence == Spec => []NoSilentLoss
<1>1. StreamInv => NoSilentLoss
  BY DEF StreamInv
<1> QED
  BY <1>1, StreamInvariant, PTL

-----------------------------------------------------------------------------
(* The state a client is left with: what waits in its slot, else what is being *)
(* sent, else what arrived last.                                               *)
Current(i) ==
    IF conns[i].state # 0         THEN conns[i].state
    ELSE IF writer[i].carrying # 0 THEN writer[i].carrying
    ELSE client[i].state

CurrentInv == StreamInv /\ StateIsCurrent

(* A step that pushes nothing and leaves what each client will have. *)
LEMMA StatesStay ==
    ASSUME CurrentInv, UNCHANGED opened, feed'.last = feed.last,
           \A j \in 1..opened : Serving(j)' => Serving(j) /\ Current(j)' = Current(j)
    PROVE  StateIsCurrent'
BY DEF CurrentInv, StateIsCurrent, Current

LEMMA TaskCurrent ==
    ASSUME CurrentInv, UNCHANGED <<opened, feed>>,
           NEW i \in Ids, writer[i].at \notin {"raised", "ended"},
           NEW d \in Connections, Closed(d) <=> Closed(conns[i]),
           NEW at, NEW carrying, NEW rest, Task(i, d, at, carrying, rest),
           NEW v, client' = [client EXCEPT ![i] = v],
           ~Closed(d) /\ at \notin {"raised", "ended"} =>
               Current(i) = IF d.state # 0 THEN d.state ELSE IF carrying # 0 THEN carrying ELSE v.state
    PROVE  StateIsCurrent'
<1>1. /\ conns' = [conns EXCEPT ![i] = d] /\ writer'[i].at = at /\ writer'[i].carrying = carrying
      /\ \A j \in Ids \ {i} : writer'[j] = writer[j]
  BY StreamTypes DEF CurrentInv, Task
<1>2. /\ conns'[i] = d /\ client'[i] = v
      /\ \A j \in Ids \ {i} : conns'[j] = conns[j] /\ client'[j] = client[j]
  BY <1>1, StreamTypes DEF CurrentInv
<1>3. ASSUME NEW j \in 1..opened, Serving(j)'
      PROVE  Serving(j) /\ Current(j)' = Current(j)
  <2>1. j \in Ids
    BY StreamTypes DEF CurrentInv
  <2>2. CASE j = i
    <3>1. ~Closed(d) /\ at \notin {"raised", "ended"}
      BY <1>1, <1>2, <1>3, <2>2 DEF Serving
    <3> QED
      BY <1>1, <1>2, <2>2, <3>1 DEF Serving, Current
  <2>3. CASE j # i
    BY <1>1, <1>2, <1>3, <2>1, <2>3 DEF Serving, Current
  <2> QED
    BY <2>2, <2>3
<1> QED
  BY <1>3, StatesStay

(* A writer that goes on takes the state first. *)
LEMMA ProceedCurrent ==
    ASSUME CurrentInv, UNCHANGED <<opened, feed>>,
           NEW i \in Ids, writer[i].at \notin {"raised", "ended"},
           NEW c \in Connections, Closed(c) <=> Closed(conns[i]), c.state = conns[i].state, c.inFlight = 0,
           NEW rest, Proceed(i, c, rest),
           NEW v, client' = [client EXCEPT ![i] = v],
           v.state = IF writer[i].carrying # 0 THEN writer[i].carrying ELSE client[i].state
    PROVE  StateIsCurrent'
<1>0. Current(i) = IF c.state # 0 THEN c.state ELSE v.state
  BY DEF Current
<1>1. CASE rest # << >>
  <2>1. Task(i, c, "preamble", 0, rest)
    BY <1>1 DEF Proceed
  <2> QED
    BY <1>0, <2>1, TaskCurrent
<1>2. CASE rest = << >> /\ Closed(c)
  <2>1. Task(i, c, "ended", 0, << >>)
    BY <1>2 DEF Proceed
  <2> QED
    BY <1>2, <2>1, TaskCurrent
<1>3. CASE rest = << >> /\ ~Closed(c) /\ NothingToSend(c)
  <2> DEFINE d == [c EXCEPT !.changed = FALSE]
  <2>1. Task(i, d, "wait", 0, << >>)
    BY <1>3 DEF Proceed
  <2>2. KeepsAccount(c, d) /\ d.state = c.state
    BY NoticeKeepsAccount, MethodsKeepQueue, Literals
  <2> HIDE DEF d
  <2>3. d \in Connections /\ (Closed(d) <=> Closed(c))
    BY <2>2 DEF KeepsAccount, SameAccount, Closed
  <2> QED
    BY <1>0, <2>1, <2>2, <2>3, TaskCurrent
<1>4. CASE rest = << >> /\ ~Closed(c) /\ ~NothingToSend(c)
  <2> DEFINE d == NextMessage(c)
  <2>1. Task(i, d, "live", c.state, << >>)
    BY <1>4 DEF Proceed
  <2>2. d \in Connections /\ SameAccount(c, d)
    BY NextMessageBalances
  <2>3. d.state = 0
    BY DEF NextMessage, TakeState, Connections
  <2> HIDE DEF d
  <2>4. Closed(d) <=> Closed(c)
    BY <2>2 DEF SameAccount, Closed
  <2> QED
    BY ZenonT(60), <1>0, <2>1, <2>2, <2>3, <2>4, TaskCurrent
<1> QED
  BY <1>1, <1>2, <1>3, <1>4

LEMMA ReachedState ==
    ASSUME CurrentInv, NEW i \in Ids
    PROVE  Reached(i).state = IF writer[i].carrying # 0 THEN writer[i].carrying ELSE client[i].state
<1>1. client[i] \in ClientViews
  BY StreamTypes DEF CurrentInv
<1> QED
  BY <1>1 DEF Reached, ClientViews

LEMMA SendReturnsCurrent ==
    ASSUME CurrentInv, NEW i \in Ids, SendReturns(i)
    PROVE  StateIsCurrent'
<1> DEFINE c == conns[i]
           v == Reached(i)
<1>1. /\ writer[i].at \in Sending /\ writer[i].at \notin {"none", "raised", "ended"}
      /\ UNCHANGED <<opened, feed>> /\ client' = [client EXCEPT ![i] = v]
  BY DEF SendReturns, Sending
<1>2. /\ c \in Connections /\ (writer[i].at # "live" => c.inFlight = 0)
  BY <1>1, WriterFacts DEF CurrentInv, StreamInv
<1>3. v.state = IF writer[i].carrying # 0 THEN writer[i].carrying ELSE client[i].state
  BY ReachedState
<1> HIDE DEF v
<1>4. CASE writer[i].at = "hello" /\ c.state # 0
  <2> DEFINE d == TakeState(c)
  <2>1. Task(i, d, "preamble", c.state, history[i])
    BY <1>4 DEF SendReturns
  <2>2. KeepsAccount(c, d) /\ d.state = 0
    BY <1>2, StateKeepsAccount, Literals DEF TakeState, Connections
  <2> HIDE DEF d
  <2>3. d \in Connections /\ (Closed(d) <=> Closed(c))
    BY <2>2 DEF KeepsAccount, SameAccount, Closed
  <2>4. Current(i) = c.state
    BY <1>4 DEF Current
  <2> QED
    BY <1>1, <1>4, <2>1, <2>2, <2>3, <2>4, TaskCurrent
<1>5. CASE writer[i].at = "hello" /\ c.state = 0
  <2>1. Proceed(i, c, history[i])
    BY <1>5 DEF SendReturns
  <2> QED
    BY <1>1, <1>2, <1>3, <1>5, <2>1, ProceedCurrent
<1>6. CASE writer[i].at = "preamble"
  <2> DEFINE rest == IF writer[i].carrying # 0 THEN history[i] ELSE Tail(history[i])
  <2>1. Proceed(i, c, rest)
    BY <1>6 DEF SendReturns
  <2> HIDE DEF rest
  <2> QED
    BY <1>1, <1>2, <1>3, <1>6, <2>1, ProceedCurrent
<1>7. CASE writer[i].at = "live"
  <2> DEFINE d == MarkSent(c)
             none == << >>
  <2>1. Proceed(i, d, none)
    BY <1>7 DEF SendReturns
  <2>2. d \in Connections /\ SameAccount(c, d) /\ d.inFlight = 0 /\ d.state = c.state
    BY <1>2, MarkBalances, MethodsKeepQueue, Literals
  <2> HIDE DEF d, none
  <2>3. Closed(d) <=> Closed(c)
    BY <2>2 DEF SameAccount, Closed
  <2> QED
    BY <1>1, <1>3, <2>1, <2>2, <2>3, ProceedCurrent
<1> QED
  BY <1>1, <1>4, <1>5, <1>6, <1>7 DEF Sending

LEMMA SendEndsCurrent ==
    ASSUME CurrentInv, UNCHANGED <<opened, feed>>, NEW i \in Ids, writer[i].at \in Sending,
           NEW at \in {"raised", "ended"}, NEW d \in {MarkFailed(conns[i]), MarkUnknown(conns[i])},
           client' \in {client, [client EXCEPT ![i] = Reached(i)]}, Task(i, d, at, 0, << >>)
    PROVE  StateIsCurrent'
<1>1. writer[i].at \notin {"none", "raised", "ended"}
  BY DEF Sending
<1>2. conns[i] \in Connections /\ client = [client EXCEPT ![i] = client[i]]
  BY <1>1, FlowParts DEF CurrentInv
<1>3. d \in Connections /\ SameAccount(conns[i], d)
  BY <1>2, MarkBalances
<1>4. Closed(d) <=> Closed(conns[i])
  BY <1>3 DEF SameAccount, Closed
<1>5. PICK v \in {client[i], Reached(i)} : client' = [client EXCEPT ![i] = v]
  BY <1>2
<1> QED
  BY <1>1, <1>3, <1>4, <1>5, TaskCurrent

LEMMA WriterWakesCurrent ==
    ASSUME CurrentInv, NEW i \in Ids, WriterWakes(i)
    PROVE  StateIsCurrent'
<1> DEFINE c == conns[i]
           d == [c EXCEPT !.changed = FALSE]
           none == << >>
<1>1. /\ writer[i].at = "wait" /\ Proceed(i, d, none) /\ UNCHANGED <<opened, feed>> /\ client' = client
  BY DEF WriterWakes
<1>2. c \in Connections /\ client = [client EXCEPT ![i] = client[i]]
  BY <1>1, FlowParts DEF CurrentInv
<1>3. c.inFlight = 0 /\ writer[i].carrying = 0
  BY <1>1, WriterFacts DEF CurrentInv, StreamInv, WriterOK
<1>4. KeepsAccount(c, d) /\ d.state = c.state
  BY <1>2, NoticeKeepsAccount, MethodsKeepQueue, Literals
<1> HIDE DEF d, none
<1>5. d \in Connections /\ d.inFlight = 0 /\ (Closed(d) <=> Closed(c))
  BY <1>3, <1>4 DEF KeepsAccount, SameAccount, Closed
<1> QED
  BY <1>1, <1>2, <1>3, <1>4, <1>5, ProceedCurrent

(* Closing one connection leaves the others their states. *)
LEMMA EndCurrent ==
    ASSUME CurrentInv, UNCHANGED <<opened, feed, client>>, NEW i \in Ids, ~Serving(i)',
           \A j \in Ids \ {i} : conns'[j] = conns[j] /\ writer'[j] = writer[j]
    PROVE  StateIsCurrent'
<1>1. ASSUME NEW j \in 1..opened, Serving(j)'
      PROVE  Serving(j) /\ Current(j)' = Current(j)
  <2>1. j \in Ids /\ j # i
    BY <1>1, StreamTypes DEF CurrentInv
  <2> QED
    BY <1>1, <2>1 DEF Serving, Current
<1> QED
  BY <1>1, StatesStay

LEMMA WriterStepsCurrent ==
    ASSUME CurrentInv, NEW i \in Ids, WriterStep(i)
    PROVE  StateIsCurrent'
<1>0. StreamInv /\ writer \in [Ids -> [at : WriterStates, carrying : Nat, took : Nat]]
  BY StreamTypes DEF CurrentInv
<1>1. CASE StartWriter(i)
  <2>1. /\ \A j \in Ids : writer'[j].carrying = writer[j].carrying
        /\ \A j \in Ids : writer'[j].at \notin {"raised", "ended"} => writer[j].at \notin {"raised", "ended"}
    BY <1>0, <1>1 DEF StartWriter
  <2>2. UNCHANGED <<opened, client, conns, feed>> /\ \A j \in 1..opened : j \in Ids
    BY <1>0, <1>1, StreamTypes DEF StartWriter
  <2> QED
    BY <2>1, <2>2, StatesStay DEF Serving, Current
<1>2. CASE PrepareFails(i)
  <2>1. /\ UNCHANGED <<opened, feed, client>> /\ CloseAndRetire(i, 1006, counters)
        /\ writer' = [writer EXCEPT ![i].at = "ended"]
    BY <1>2 DEF PrepareFails
  <2>2. 1006 # NotClosed
    BY DEF NotClosed
  <2>3. (\A j \in Ids \ {i} : conns'[j] = conns[j]) /\ Closed(conns'[i])
    BY <1>0, <2>1, <2>2, ClosedByNow
  <2>4. \A j \in Ids \ {i} : writer'[j] = writer[j]
    BY <1>0, <2>1
  <2> QED
    BY <2>1, <2>3, <2>4, EndCurrent DEF Serving
<1>3. CASE SendReturns(i)
  BY <1>3, SendReturnsCurrent
<1>4. CASE SendRefused(i)
  BY <1>4, SendEndsCurrent DEF SendRefused
<1>5. CASE SendRaises(i)
  BY <1>5, SendEndsCurrent DEF SendRaises
<1>6. CASE WriterEnded(i)
  <2>1. UNCHANGED <<opened, feed, client>> /\ writer' = [writer EXCEPT ![i].at = "ended"]
    BY <1>6 DEF WriterEnded
  <2>2. (\A j \in Ids \ {i} : writer'[j] = writer[j]) /\ writer'[i].at = "ended"
    BY <1>0, <2>1
  <2>3. InternalError # NotClosed
    BY DEF InternalError, NotClosed
  <2>4. CASE CloseAndRetire(i, InternalError, Count("writer_failed"))
    BY <1>0, <2>1, <2>2, <2>3, <2>4, ClosedByNow, EndCurrent DEF Serving
  <2>5. CASE UNCHANGED conns
    BY <2>1, <2>2, <2>5, EndCurrent DEF Serving
  <2> QED
    BY <1>6, <2>4, <2>5 DEF WriterEnded
<1>7. CASE CancelWriter(i)
  BY <1>7, SendEndsCurrent DEF CancelWriter
<1>8. CASE WriterWakes(i)
  BY <1>8, WriterWakesCurrent
<1> QED
  BY <1>1, <1>2, <1>3, <1>4, <1>5, <1>6, <1>7, <1>8 DEF WriterStep

(* A publication touches no slot of a connection it leaves open. *)
LEMMA PublisherCurrent ==
    ASSUME CurrentInv, PublisherTurn
    PROVE  StateIsCurrent'
<1>0. /\ UNCHANGED <<opened, feed, writer, client>> /\ StreamInv
      /\ conns \in [Ids -> Connections] /\ \A j \in 1..opened : j \in Ids
  BY StreamTypes DEF CurrentInv, PublisherTurn, tasks
<1>1. CASE handoff.records = << >>
  <2>1. UNCHANGED conns
    BY <1>1 DEF PublisherTurn
  <2> QED
    BY <1>0, <2>1, StatesStay DEF Serving, Current
<1>2. CASE handoff.records # << >>
  <2> DEFINE n == Head(handoff.records)
  <2>1. Publish(n) /\ n \in Exchanges
    BY <1>0, <1>2, StreamTypes, HeadJoins DEF PublisherTurn
  <2> HIDE DEF n
  <2>2. PICK raising \in SUBSET connections :
          conns' = [i \in Ids |-> IF i \in connections THEN Offered(conns[i], n, i \in raising)
                                                        ELSE conns[i]]
    BY <2>1 DEF Publish
  <2>3. now \in Nat /\ published \in Nat
    BY <1>0 DEF StreamInv, ObserverInv, TypeOK
  <2>4. ASSUME NEW j \in 1..opened, Serving(j)'
        PROVE  Serving(j) /\ Current(j)' = Current(j)
    <3>1. j \in Ids /\ ~Closed(conns'[j])
      BY <1>0, <2>4 DEF Serving
    <3>2. CASE j \notin connections
      <4>1. conns'[j] = conns[j]
        BY <2>2, <3>1, <3>2
      <4> QED
        BY <1>0, <2>4, <4>1 DEF Serving, Current
    <3>3. CASE j \in connections
      <4> DEFINE c == conns[j]
                 d == conns'[j]
                 raises == j \in raising
      <4>1. d = Offered(c, n, raises) /\ raises \in BOOLEAN
        BY <2>2, <3>1, <3>3
      <4>2. c \in Connections /\ ~Closed(c) /\ LedgerIdentities(c, published)
        BY <1>0, <3>1, <3>3 DEF StreamInv, ObserverInv, RegisteredIffOpen, LedgersBalance
      <4> HIDE DEF c, d, raises
      <4>3. ~Closed(d) => d.state = c.state
        BY <2>1, <2>3, <4>1, <4>2, OfferedFlow
      <4> QED
        BY <1>0, <2>4, <3>1, <4>2, <4>3 DEF Serving, Current, c, d
    <3> QED
      BY <3>2, <3>3
  <2> QED
    BY <1>0, <2>4, StatesStay
<1> QED
  BY <1>1, <1>2

(* A new client has the last state in its slot. *)
LEMMA ConnectCurrent ==
    ASSUME CurrentInv, NEW after \in Afters, Connect(after)
    PROVE  StateIsCurrent'
<1> DEFINE i       == opened + 1
           opening == Since(ring, after)
           fresh   == NewConnection(ring.lastSeq, published, Len(opening))
           d       == SetState(fresh, feed.last)
           v       == [client[i] EXCEPT !.after = after, !.gap = Gap(ring, after), !.opening = opening]
<1>1. /\ opened' = i /\ conns' = [conns EXCEPT ![i] = d] /\ opened < MaxConnections
      /\ client' = [client EXCEPT ![i] = v] /\ UNCHANGED <<feed, writer>>
  BY DEF Connect
<1>2. /\ conns \in [Ids -> Connections] /\ opened \in Nat /\ client \in [Ids -> ClientViews]
      /\ \A j \in 1..opened : j \in Ids
  BY StreamTypes DEF CurrentInv
<1>3. /\ i \in Ids /\ \A j \in 1..i : j = i \/ j \in 1..opened
  BY <1>1, <1>2, ObserverAssumption DEF Ids, ObserverAssumption
<1>4. d.state = feed.last /\ feed.last # 0
  <2> HIDE DEF opening
  <2>1. fresh.closeCode = NotClosed
    BY DEF NewConnection
  <2>2. d = [fresh EXCEPT !.state = feed.last, !.changed = TRUE]
    BY <2>1 DEF SetState, Closed
  <2>3. d.state = feed.last
    BY <2>2 DEF NewConnection
  <2>4. feed.last # 0
    BY DEF CurrentInv, StreamInv, ObserverInv, TypeOK
  <2> QED
    BY <2>3, <2>4
<1> HIDE DEF d, v, opening, i
<1> SUFFICES ASSUME NEW j \in 1..i, Serving(j)' PROVE feed'.last = Current(j)'
  BY <1>1 DEF StateIsCurrent, Current
<1>5. CASE j = i
  <2>1. conns'[j] = d
    BY <1>1, <1>2, <1>3, <1>5
  <2> QED
    BY <1>1, <1>4, <2>1 DEF Current
<1>6. CASE j # i
  <2>1. j \in 1..opened /\ j \in Ids /\ conns'[j] = conns[j] /\ client'[j] = client[j]
    BY <1>1, <1>2, <1>3, <1>6
  <2>2. Serving(j) /\ Current(j)' = Current(j)
    BY <1>1, <2>1 DEF Serving, Current
  <2>3. feed.last = Current(j)
    BY <2>1, <2>2 DEF CurrentInv, StateIsCurrent, Current
  <2> QED
    BY <1>1, <2>2, <2>3
<1> QED
  BY <1>5, <1>6

(* A state that is pushed is in the slot of every client that is served. *)
LEMMA PushCurrent ==
    ASSUME CurrentInv, UNCHANGED <<opened, writer, client>>, NEW version \in Nat \ {0}, NEW push \in BOOLEAN,
           conns' = PushDropped(IF push THEN PushState(conns, version) ELSE conns),
           feed'.last = IF push THEN version ELSE feed.last
    PROVE  StateIsCurrent'
<1> DEFINE ss == IF push THEN PushState(conns, version) ELSE conns
<1>1. \A j \in Ids : KeepsAccount(conns[j], conns'[j])
  BY PushKeepsAccount DEF CurrentInv, StreamInv
<1> SUFFICES ASSUME NEW j \in 1..opened, Serving(j)' PROVE feed'.last = Current(j)'
  BY DEF StateIsCurrent, Current
<1>2. j \in Ids /\ conns[j] \in Connections /\ Serving(j) /\ ~Closed(conns[j])
  <2>1. j \in Ids /\ conns[j] \in Connections
    BY StreamTypes DEF CurrentInv
  <2>2. Closed(conns'[j]) <=> Closed(conns[j])
    BY <1>1, <2>1 DEF KeepsAccount, SameAccount, Closed
  <2> QED
    BY <2>1, <2>2 DEF Serving
<1>3. j \in connections
  BY <1>2 DEF CurrentInv, StreamInv, ObserverInv, RegisteredIffOpen
<1>4. conns'[j] = SetDropped(ss[j])
  BY <1>2, <1>3 DEF PushDropped
<1>5. feed.last = Current(j)
  BY <1>2 DEF CurrentInv, StateIsCurrent, Current
<1>6. CASE push
  <2> DEFINE d == SetState(conns[j], version)
  <2>1. ss[j] = d
    BY <1>2, <1>3, <1>6 DEF PushState
  <2>2. d \in Connections /\ d.state = version
    <3>1. d \in Connections
      BY <1>2, StateKeepsAccount DEF KeepsAccount
    <3> QED
      BY <1>2, <3>1 DEF SetState, Connections
  <2> HIDE DEF d, ss
  <2>3. conns'[j].state = version
    BY <1>4, <2>1, <2>2, MethodsKeepQueue
  <2> QED
    BY <1>6, <2>3 DEF Current
<1>7. CASE ~push
  <2>1. ss[j] = conns[j]
    BY <1>7
  <2> HIDE DEF ss
  <2>2. conns'[j].state = conns[j].state
    BY <1>2, <1>4, <2>1, MethodsKeepQueue, Literals
  <2> QED
    BY <1>5, <1>7, <2>2 DEF Current
<1> QED
  BY <1>6, <1>7

LEMMA StateTurnCurrent ==
    ASSUME CurrentInv, \/ \E version \in {feed.last, feed.last + 1} : SnapshotTaken(version)
                       \/ SnapshotFails
    PROVE  StateIsCurrent'
<1>1. /\ UNCHANGED <<opened, writer, client>>
      /\ feed \in [last : Nat \ {0}, mustPublish : BOOLEAN, due : Nat]
  BY DEF CurrentInv, StreamInv, ObserverInv, TypeOK, SnapshotTaken, SnapshotFails, tasks
<1>2. ASSUME NEW version \in {feed.last, feed.last + 1}, SnapshotTaken(version)
      PROVE  StateIsCurrent'
  <2> DEFINE push == feed.mustPublish \/ version # feed.last
  <2>1. conns' = PushDropped(IF push THEN PushState(conns, version) ELSE conns) /\ feed'.last = version
    BY <1>2 DEF SnapshotTaken
  <2>2. version \in Nat \ {0} /\ push \in BOOLEAN
    BY <1>1
  <2>3. feed'.last = IF push THEN version ELSE feed.last
    BY <2>1
  <2> HIDE DEF push
  <2> QED
    BY <1>1, <2>1, <2>2, <2>3, PushCurrent
<1>3. ASSUME SnapshotFails
      PROVE  StateIsCurrent'
  <2> DEFINE push == FALSE
             some == 1
  <2>1. conns' = PushDropped(IF push THEN PushState(conns, some) ELSE conns)
    BY <1>3 DEF SnapshotFails
  <2>2. some \in Nat \ {0} /\ push \in BOOLEAN
    OBVIOUS
  <2>3. feed'.last = IF push THEN some ELSE feed.last
    BY <1>1, <1>3 DEF SnapshotFails
  <2> HIDE DEF push, some
  <2> QED
    BY <1>1, <2>1, <2>2, <2>3, PushCurrent
<1> QED
  BY <1>2, <1>3

LEMMA StillCurrent ==
    ASSUME CurrentInv, UNCHANGED <<opened, feed, conns, writer, client>>
    PROVE  StateIsCurrent'
BY StatesStay DEF Serving, Current

LEMMA CurrentStarts == Init => CurrentInv
BY StreamStarts DEF Init, CurrentInv, StateIsCurrent

LEMMA CurrentStep == CurrentInv /\ [Next]_vars => CurrentInv'
<1> SUFFICES ASSUME CurrentInv, [Next]_vars PROVE StateIsCurrent'
  BY StreamStep DEF CurrentInv
<1>0. StreamInv
  BY DEF CurrentInv
<1>1. CASE Dispatch
  BY <1>1, StillCurrent DEF Dispatch, tasks
<1>2. CASE PublisherTurn
  BY <1>2, PublisherCurrent
<1>3. ASSUME NEW after \in Afters, Connect(after) PROVE StateIsCurrent'
  BY <1>3, ConnectCurrent
<1>4. CASE RefuseClient
  BY <1>4, StillCurrent DEF RefuseClient, tasks
<1>5. ASSUME NEW i \in Ids, Disconnect(i) PROVE StateIsCurrent'
  <2>1. PICK code \in HandlerCodes \cup ClientCodes : CloseAndRetire(i, code, counters)
    BY <1>5 DEF Disconnect
  <2>2. code # NotClosed
    BY ObserverAssumption DEF ObserverAssumption
  <2>3. UNCHANGED <<opened, feed, client, writer>>
    BY <1>5 DEF Disconnect, tasks
  <2> QED
    BY <1>0, <2>1, <2>2, <2>3, ClosedByNow, EndCurrent DEF Serving
<1>6. CASE Stats
  BY <1>6, StillCurrent DEF Stats, tasks
<1>7. ASSUME NEW i \in Ids, WriterStep(i) PROVE StateIsCurrent'
  BY <1>7, WriterStepsCurrent
<1>8. CASE \E version \in {feed.last, feed.last + 1} : SnapshotTaken(version)
  BY <1>8, StateTurnCurrent
<1>9. CASE SnapshotFails
  BY <1>9, StateTurnCurrent
<1>10. CASE Tick
  BY <1>10, StillCurrent DEF Tick, tasks
<1>11. CASE UNCHANGED vars
  BY <1>11, StillCurrent DEF vars, tasks
<1> QED
  BY <1>1, <1>2, <1>3, <1>4, <1>5, <1>6, <1>7, <1>8, <1>9, <1>10, <1>11 DEF Next

LEMMA CurrentInvariant == Spec => []CurrentInv
BY CurrentStarts, CurrentStep, PTL DEF Spec

(* No client that is served settles on an old state: what waits for it, else what *)
(* is being sent to it, else what arrived last, is the last state pushed.         *)
THEOREM NoOneHasAnOldState == Spec => []StateIsCurrent
<1>1. CurrentInv => StateIsCurrent
  BY DEF CurrentInv
<1> QED
  BY <1>1, CurrentInvariant, PTL

-----------------------------------------------------------------------------
(* What arrives is what the ledger counts. *)

(* The live exchanges of those a client has. *)
LiveOf(got, watermark) == Cardinality({k \in DOMAIN got : got[k] > watermark})

(* What waits for a client or is being sent to it is newer than its watermark. *)
Beyond(c) ==
    /\ \A k \in 1..Len(c.queue) : c.queue[k] > c.watermark
    /\ c.inFlight # 0 => c.inFlight > c.watermark

ReceivedOK(i) ==
    /\ Beyond(conns[i])
    /\ conns[i].watermark <= ring.lastSeq
    /\ AtMost(history[i], conns[i].watermark)
    /\ LiveOf(client[i].got, conns[i].watermark) \in
           conns[i].sent .. conns[i].sent + conns[i].unknown

ReceivedInv == StreamInv /\ \A i \in Ids : ReceivedOK(i)

(* What a method that resolves nothing does. *)
Moves(c, d) ==
    /\ d.watermark = c.watermark /\ d.sent = c.sent /\ d.unknown = c.unknown
    /\ Beyond(c) => Beyond(d)

LEMMA MethodsMove ==
    ASSUME NEW c \in Connections, NEW version \in Nat, NEW code, NEW p
    PROVE  /\ Moves(c, c)
           /\ Moves(c, SetState(c, version)) /\ Moves(c, TakeState(c)) /\ Moves(c, SetDropped(c))
           /\ Moves(c, [c EXCEPT !.changed = FALSE])
           /\ Moves(c, CloseNow(c, code, p)) /\ Moves(c, Close(c, code, p))
<1>1. /\ Moves(c, c) /\ Moves(c, [c EXCEPT !.changed = FALSE])
      /\ Moves(c, [c EXCEPT !.state = version, !.changed = TRUE])
      /\ Moves(c, [c EXCEPT !.notice = TRUE, !.changed = TRUE]) /\ Moves(c, TakeState(c))
  BY DEF Moves, Beyond, Connections, TakeState
<1>2. Moves(c, CloseNow(c, code, p))
  BY DEF Moves, Beyond, Connections, CloseNow
<1> QED
  BY <1>1, <1>2 DEF SetState, SetDropped, Close

LEMMA NextMessageMoves ==
    ASSUME NEW c \in Connections, c.inFlight = 0
    PROVE  Moves(c, NextMessage(c))
<1> DEFINE d == NextMessage(c)
<1>1. CASE c.state # 0 \/ c.notice \/ c.queue = << >>
  <2>1. d.queue = c.queue /\ d.inFlight = c.inFlight /\ d.watermark = c.watermark
        /\ d.sent = c.sent /\ d.unknown = c.unknown
    BY <1>1 DEF NextMessage, TakeState, Connections
  <2> HIDE DEF d
  <2>2. Moves(c, d)
    BY <2>1 DEF Moves, Beyond
  <2> QED
    BY <2>2 DEF d
<1>2. CASE c.state = 0 /\ ~c.notice /\ c.queue # << >>
  <2>1. d.queue = Tail(c.queue) /\ d.inFlight = Head(c.queue) /\ d.watermark = c.watermark
        /\ d.sent = c.sent /\ d.unknown = c.unknown
    BY <1>2 DEF NextMessage, Connections
  <2> HIDE DEF d
  <2>2. c.queue \in Seq(Exchanges) /\ c.watermark \in Nat
    BY DEF Connections
  <2>3. /\ Head(c.queue) = c.queue[1] /\ Len(c.queue) \in Nat \ {0} /\ Len(Tail(c.queue)) = Len(c.queue) - 1
        /\ \A k \in 1..Len(Tail(c.queue)) : Tail(c.queue)[k] = c.queue[k + 1] /\ k + 1 \in 1..Len(c.queue)
    BY <1>2, <2>2
  <2>4. Moves(c, d)
    BY <2>1, <2>2, <2>3 DEF Moves, Beyond
  <2> QED
    BY <2>4 DEF d
<1> QED
  BY <1>1, <1>2

LEMMA OfferMoves ==
    ASSUME NEW c \in Connections, NEW n \in Exchanges, c.watermark < n, NEW raises
    PROVE  Moves(c, Offered(c, n, raises))
<1>0. c.queue \in Seq(Exchanges) /\ c.watermark \in Nat
  BY DEF Connections
<1>1. Moves(c, c) /\ Moves(c, Close(c, InternalError, published))
  BY MethodsMove, Literals
<1>2. Moves(c, Enqueue(c, n))
  <2> DEFINE d == Enqueue(c, n)
  <2>1. /\ d.queue = Append(c.queue, n) /\ d.inFlight = c.inFlight /\ d.watermark = c.watermark
        /\ d.sent = c.sent /\ d.unknown = c.unknown
    BY DEF Enqueue, Connections
  <2> HIDE DEF d
  <2>2. \A k \in 1..Len(Append(c.queue, n)) :
            \/ k \in 1..Len(c.queue) /\ Append(c.queue, n)[k] = c.queue[k]
            \/ Append(c.queue, n)[k] = n
    BY <1>0, AppendProperties
  <2>3. Moves(c, d)
    BY <1>0, <2>1, <2>2 DEF Moves, Beyond
  <2> QED
    BY <2>3 DEF d
<1>3. Moves(c, Drop(c, now))
  BY DEF Moves, Beyond, Drop, Connections
<1>4. \A p : Moves(c, CloseNow(Drop(c, now), TooSlow, p))
  BY DEF Moves, Beyond, CloseNow, Drop, Connections
<1> QED
  BY <1>1, <1>2, <1>3, <1>4 DEF Offered, Offer

(* Resolving what is in flight. *)
LEMMA MarksMove ==
    ASSUME NEW c \in Connections
    PROVE  /\ Moves(c, MarkFailed(c))
           /\ c.inFlight = 0 => MarkSent(c) = c /\ MarkUnknown(c) = c
           /\ c.inFlight # 0 =>
                 /\ MarkSent(c).watermark = c.watermark /\ MarkUnknown(c).watermark = c.watermark
                 /\ MarkSent(c).sent = c.sent + 1 /\ MarkSent(c).unknown = c.unknown
                 /\ MarkUnknown(c).sent = c.sent /\ MarkUnknown(c).unknown = c.unknown + 1
           /\ Beyond(c) => Beyond(MarkSent(c)) /\ Beyond(MarkUnknown(c))
BY DEF Moves, Beyond, MarkFailed, MarkSent, MarkUnknown, Connections

(* One more that has arrived is counted if it is newer than the watermark. *)
LEMMA LiveGrows ==
    ASSUME NEW g \in Seq(Exchanges), NEW n \in Exchanges, NEW w \in Nat
    PROVE  /\ LiveOf(g, w) \in Nat
           /\ LiveOf(Append(g, n), w) = IF n > w THEN LiveOf(g, w) + 1 ELSE LiveOf(g, w)
<1> DEFINE S == {k \in DOMAIN g : g[k] > w}
           h == Append(g, n)
           T == {k \in DOMAIN h : h[k] > w}
           e == Len(g) + 1
<1>1. /\ S \in SUBSET (1..Len(g)) /\ e \notin S /\ DOMAIN h = 1..e
      /\ \A k \in 1..e : k # e => k \in 1..Len(g) /\ h[k] = g[k]
      /\ h[e] = n /\ e \in 1..e /\ \A k \in 1..Len(g) : k \in 1..e /\ k # e
  BY AppendProperties
<1>2. IsFiniteSet(S) /\ Cardinality(S) \in Nat
  <2>1. IsFiniteSet(1..Len(g))
    <3>1. Len(g) \in Int /\ 1 \in Int
      OBVIOUS
    <3> QED
      BY <3>1, FS_Interval
  <2> QED
    BY <1>1, <2>1, FS_Subset, FS_CardinalityType
<1>3. T = IF n > w THEN S \cup {e} ELSE S
  <2>1. DOMAIN g = 1..Len(g)
    OBVIOUS
  <2> HIDE DEF h, e
  <2> QED
    BY <1>1, <2>1
<1> HIDE DEF S, T, e
<1>4. Cardinality(S \cup {e}) = Cardinality(S) + 1
  BY <1>1, <1>2, FS_AddElement
<1> QED
  BY <1>2, <1>3, <1>4 DEF LiveOf, S, T

LEMMA ReceivedTypes ==
    ASSUME ReceivedInv, NEW i \in Ids
    PROVE  /\ StreamInv /\ ReceivedOK(i)
           /\ conns \in [Ids -> Connections] /\ client \in [Ids -> ClientViews]
           /\ history \in [Ids -> Seq(Exchanges)]
           /\ conns[i] \in Connections /\ conns[i].watermark \in Nat
           /\ conns[i].sent \in Nat /\ conns[i].unknown \in Nat
           /\ client[i].got \in Seq(Exchanges)
           /\ LiveOf(client[i].got, conns[i].watermark) \in Nat
           /\ ring.lastSeq \in Nat
<1>1. /\ StreamInv /\ ReceivedOK(i)
      /\ conns \in [Ids -> Connections] /\ client \in [Ids -> ClientViews]
      /\ history \in [Ids -> Seq(Exchanges)] /\ client[i].got \in Seq(Exchanges) /\ ring.lastSeq \in Nat
  BY StreamTypes DEF ReceivedInv
<1>2. conns[i] \in Connections /\ conns[i].watermark \in Nat
      /\ conns[i].sent \in Nat /\ conns[i].unknown \in Nat
  BY <1>1 DEF Connections
<1>3. LiveOf(client[i].got, conns[i].watermark) \in Nat
  BY <1>2 DEF ReceivedInv, ReceivedOK
<1> QED
  BY <1>1, <1>2, <1>3

(* A step of one writer. *)
LEMMA TaskReceived ==
    ASSUME ReceivedInv, UNCHANGED ring, NEW i \in Ids, NEW d, d.watermark = conns[i].watermark, Beyond(d),
           NEW at, NEW carrying, NEW rest, AtMost(rest, conns[i].watermark),
           Task(i, d, at, carrying, rest), NEW v, client' = [client EXCEPT ![i] = v],
           LiveOf(v.got, d.watermark) \in d.sent .. d.sent + d.unknown
    PROVE  \A j \in Ids : ReceivedOK(j)'
<1>1. /\ conns'[i] = d /\ history'[i] = rest /\ client'[i] = v
      /\ \A j \in Ids : j # i => conns'[j] = conns[j] /\ history'[j] = history[j] /\ client'[j] = client[j]
  BY ReceivedTypes DEF Task
<1>2. ReceivedOK(i)'
  BY <1>1 DEF ReceivedInv, ReceivedOK
<1>3. ASSUME NEW j \in Ids, j # i PROVE ReceivedOK(j)'
  BY <1>1, <1>3 DEF ReceivedInv, ReceivedOK
<1> QED
  BY <1>2, <1>3

LEMMA ProceedReceived ==
    ASSUME ReceivedInv, UNCHANGED ring, NEW i \in Ids, NEW c \in Connections, c.inFlight = 0,
           c.watermark = conns[i].watermark, Beyond(c),
           NEW rest, AtMost(rest, conns[i].watermark), Proceed(i, c, rest),
           NEW v, client' = [client EXCEPT ![i] = v],
           LiveOf(v.got, c.watermark) \in c.sent .. c.sent + c.unknown
    PROVE  \A j \in Ids : ReceivedOK(j)'
<1>1. Moves(c, c) /\ Moves(c, [c EXCEPT !.changed = FALSE]) /\ Moves(c, NextMessage(c))
  BY MethodsMove, NextMessageMoves, Literals
<1>2. PICK d \in {c, [c EXCEPT !.changed = FALSE], NextMessage(c)} :
             \E at, carrying : \E r \in {rest, << >>} : Task(i, d, at, carrying, r)
  BY DEF Proceed
<1>3. PICK at, carrying : \E r \in {rest, << >>} : Task(i, d, at, carrying, r)
  BY <1>2
<1>4. PICK r \in {rest, << >>} : Task(i, d, at, carrying, r)
  BY <1>3
<1>5. AtMost(r, conns[i].watermark)
  BY DEF AtMost
<1>6. /\ d.watermark = c.watermark /\ d.sent = c.sent /\ d.unknown = c.unknown /\ Beyond(d)
  BY <1>1, <1>2 DEF Moves
<1> QED
  BY <1>4, <1>5, <1>6, TaskReceived

(* What is written to a client's socket is counted when it is live. *)
LEMMA ReachedReceived ==
    ASSUME ReceivedInv, NEW i \in Ids, writer[i].at \in Sending
    PROVE  LET w == conns[i].watermark
               n == LiveOf(client[i].got, w)
           IN  LiveOf(Reached(i).got, w) = IF conns[i].inFlight # 0 THEN n + 1 ELSE n
<1> DEFINE w == conns[i].watermark
           g == client[i].got
           f == conns[i].inFlight
           h == history[i]
           r == Reached(i).got
<1>0. /\ StreamInv /\ g \in Seq(Exchanges) /\ w \in Nat /\ h \in Seq(Exchanges)
      /\ f \in Exchanges \cup {0} /\ AtMost(h, w) /\ (f # 0 => f > w)
  BY ReceivedTypes, StreamTypes DEF ReceivedOK, Beyond
<1>1. /\ writer[i].at # "live" => f = 0
      /\ writer[i].at = "preamble" /\ writer[i].carrying = 0 => h # << >>
      /\ writer[i].carrying # 0 => f = 0
  BY <1>0, WriterFacts DEF StreamInv, WriterOK, Sending
<1>2. r = IF writer[i].carrying # 0 THEN g
          ELSE IF writer[i].at = "preamble" THEN Append(g, Head(h))
          ELSE IF f # 0 THEN Append(g, f)
          ELSE g
  BY <1>0, ReachedGot
<1> HIDE DEF w, g, f, h, r
<1>3. CASE writer[i].carrying = 0 /\ writer[i].at = "preamble"
  <2>1. Head(h) \in Exchanges /\ Head(h) <= w /\ f = 0
    <3>1. h # << >> /\ f = 0
      BY <1>1, <1>3
    <3>2. Head(h) = h[1] /\ 1 \in 1..Len(h) /\ h[1] \in Exchanges
      BY <1>0, <3>1
    <3> QED
      BY <1>0, <3>1, <3>2 DEF AtMost
  <2>2. ~(Head(h) > w)
    BY <1>0, <2>1 DEF Exchanges
  <2>3. LiveOf(Append(g, Head(h)), w) = LiveOf(g, w)
    BY <1>0, <2>1, <2>2, LiveGrows
  <2> QED
    BY <1>2, <1>3, <2>1, <2>3 DEF w, g, f, r
<1>4. CASE writer[i].carrying = 0 /\ writer[i].at # "preamble" /\ f # 0
  <2>1. LiveOf(Append(g, f), w) = LiveOf(g, w) + 1
    BY <1>0, <1>4, LiveGrows
  <2> QED
    BY <1>2, <1>4, <2>1 DEF w, g, f, r
<1>5. CASE f = 0 /\ (writer[i].carrying # 0 \/ writer[i].at # "preamble")
  BY <1>2, <1>5 DEF w, g, f, r
<1> QED
  BY <1>1, <1>3, <1>4, <1>5

LEMMA SendReturnsReceived ==
    ASSUME ReceivedInv, NEW i \in Ids, SendReturns(i)
    PROVE  \A j \in Ids : ReceivedOK(j)'
<1> DEFINE c == conns[i]
           v == Reached(i)
           w == c.watermark
<1>1. /\ writer[i].at \in Sending /\ writer[i].at \notin {"none", "raised", "ended"}
      /\ UNCHANGED ring /\ client' = [client EXCEPT ![i] = v]
  BY DEF SendReturns, Sending, stream
<1>2. /\ c \in Connections /\ (writer[i].at # "live" => c.inFlight = 0) /\ c.unknown = 0
      /\ c.sent \in Nat /\ Beyond(c) /\ AtMost(history[i], w) /\ history[i] \in Seq(Exchanges)
      /\ LiveOf(client[i].got, w) = c.sent
  <2>1. StreamInv /\ ReceivedOK(i) /\ c.sent \in Nat
    BY ReceivedTypes
  <2>2. c \in Connections /\ (writer[i].at # "live" => c.inFlight = 0) /\ c.unknown = 0
        /\ history[i] \in Seq(Exchanges)
    BY <1>1, <2>1, WriterFacts DEF StreamInv
  <2> QED
    BY <2>1, <2>2 DEF ReceivedOK
<1>3. LiveOf(v.got, w) = IF c.inFlight # 0 THEN c.sent + 1 ELSE c.sent
  BY <1>1, <1>2, ReachedReceived
<1> HIDE DEF v
<1>4. CASE writer[i].at = "hello" /\ c.state # 0
  <2> DEFINE d == TakeState(c)
  <2>1. Task(i, d, "preamble", c.state, history[i])
    BY <1>4 DEF SendReturns
  <2>2. Moves(c, d)
    BY <1>2, MethodsMove, Literals
  <2> HIDE DEF d
  <2>3. d.watermark = w /\ Beyond(d) /\ LiveOf(v.got, d.watermark) \in d.sent .. d.sent + d.unknown
    BY <1>2, <1>3, <1>4, <2>2 DEF Moves
  <2> QED
    BY <1>1, <1>2, <2>1, <2>3, TaskReceived
<1>5. CASE writer[i].at # "live" /\ ~(writer[i].at = "hello" /\ c.state # 0)
  <2>1. PICK rest \in {history[i], Tail(history[i])} :
              Proceed(i, c, rest) /\ (rest = Tail(history[i]) => rest = history[i] \/ history[i] # << >>)
    <3>1. writer[i].at = "preamble" /\ writer[i].carrying = 0 => history[i] # << >>
      BY <1>1, ReceivedTypes, WriterFacts DEF StreamInv
    <3> QED
      BY <1>5, <3>1 DEF SendReturns
  <2>2. AtMost(rest, w)
    <3>1. CASE rest = history[i]
      BY <1>2, <3>1
    <3>2. CASE rest = Tail(history[i]) /\ history[i] # << >>
      <4>1. \A k \in 1..Len(rest) : k + 1 \in 1..Len(history[i]) /\ rest[k] = history[i][k + 1]
        BY <1>2, <3>2
      <4> QED
        BY <1>2, <4>1 DEF AtMost
    <3> QED
      BY <2>1, <3>1, <3>2
  <2>3. LiveOf(v.got, w) \in c.sent .. c.sent + c.unknown
    BY <1>2, <1>3, <1>5
  <2> QED
    BY <1>1, <1>2, <1>5, <2>1, <2>2, <2>3, ProceedReceived
<1>6. CASE writer[i].at = "live"
  <2> DEFINE d == MarkSent(c)
             none == << >>
  <2>1. Proceed(i, d, none)
    BY <1>6 DEF SendReturns
  <2>2. d \in Connections /\ d.inFlight = 0
    BY <1>2, MarkBalances
  <2>3. d.watermark = w /\ Beyond(d) /\ d.unknown = 0
        /\ d.sent = IF c.inFlight # 0 THEN c.sent + 1 ELSE c.sent
    BY <1>2, MarksMove
  <2>4. AtMost(none, w)
    BY DEF AtMost
  <2> HIDE DEF d, none
  <2>5. LiveOf(v.got, d.watermark) \in d.sent .. d.sent + d.unknown
    BY <1>2, <1>3, <2>3
  <2> QED
    BY <1>1, <2>1, <2>2, <2>3, <2>4, <2>5, ProceedReceived
<1> QED
  BY <1>4, <1>5, <1>6

LEMMA SendEndsReceived ==
    ASSUME ReceivedInv, UNCHANGED ring, NEW i \in Ids, writer[i].at \in Sending, NEW at,
           \/ client' = client /\ \E d \in {MarkFailed(conns[i]), MarkUnknown(conns[i])} :
                                      Task(i, d, at, 0, << >>)
           \/ client' = [client EXCEPT ![i] = Reached(i)] /\ Task(i, MarkUnknown(conns[i]), at, 0, << >>)
    PROVE  \A j \in Ids : ReceivedOK(j)'
<1> DEFINE c == conns[i]
           w == c.watermark
           none == << >>
           n == LiveOf(client[i].got, w)
<1>1. c \in Connections /\ Beyond(c) /\ c.sent \in Nat /\ n = c.sent /\ c.unknown = 0
      /\ client = [client EXCEPT ![i] = client[i]] /\ AtMost(none, w)
  <2>1. StreamInv /\ ReceivedOK(i) /\ c.sent \in Nat /\ client \in [Ids -> ClientViews] /\ c \in Connections
    BY ReceivedTypes
  <2>2. c.unknown = 0
    BY <2>1, WriterFacts DEF StreamInv, Sending
  <2> QED
    BY <2>1, <2>2 DEF ReceivedOK, AtMost
<1>2. LiveOf(Reached(i).got, w) = IF c.inFlight # 0 THEN n + 1 ELSE n
  BY ReachedReceived
<1>3. PICK d \in {MarkFailed(c), MarkUnknown(c)}, v \in {client[i], Reached(i)} :
            /\ Task(i, d, at, 0, none) /\ client' = [client EXCEPT ![i] = v]
            /\ v = client[i] \/ d = MarkUnknown(c)
  BY <1>1
<1>4. d.watermark = w /\ Beyond(d) /\ LiveOf(v.got, w) \in d.sent .. d.sent + d.unknown
  <2>1. Moves(c, MarkFailed(c))
    BY <1>1, MarksMove
  <2>2. CASE d = MarkFailed(c) /\ v = client[i]
    BY <1>1, <2>1, <2>2 DEF Moves
  <2>3. CASE d = MarkUnknown(c) /\ c.inFlight = 0
    <3>1. d = c
      BY <1>1, <2>3, MarksMove
    <3>2. LiveOf(v.got, w) = n
      BY <1>2, <1>3, <2>3
    <3> QED
      BY <1>1, <3>1, <3>2
  <2>4. CASE d = MarkUnknown(c) /\ c.inFlight # 0
    <3>1. d.watermark = w /\ Beyond(d) /\ d.sent = c.sent /\ d.unknown = 1
      BY <1>1, <2>4, MarksMove
    <3>2. LiveOf(v.got, w) \in {n, n + 1}
      BY <1>2, <1>3, <2>4
    <3> HIDE DEF n, w
    <3> QED
      BY <1>1, <3>1, <3>2
  <2> QED
    BY <1>3, <2>2, <2>3, <2>4
<1> HIDE DEF none
<1> QED
  BY <1>1, <1>3, <1>4, TaskReceived

(* A step that writes nothing to a client and resolves nothing. *)
LEMMA MovesReceived ==
    ASSUME ReceivedInv, ring.lastSeq <= ring'.lastSeq, ring'.lastSeq \in Nat,
           \A j \in Ids : /\ Moves(conns[j], conns'[j]) /\ client'[j].got = client[j].got
                          /\ history'[j] \in {history[j], << >>}
    PROVE  \A j \in Ids : ReceivedOK(j)'
<1> SUFFICES ASSUME NEW j \in Ids PROVE ReceivedOK(j)'
  OBVIOUS
<1>1. ReceivedOK(j) /\ conns[j].watermark \in Nat /\ ring.lastSeq \in Nat
  BY ReceivedTypes
<1>2. AtMost(history'[j], conns[j].watermark)
  BY <1>1 DEF ReceivedOK, AtMost
<1>3. conns'[j].watermark = conns[j].watermark /\ conns[j].watermark <= ring'.lastSeq
  BY <1>1 DEF ReceivedOK, Moves
<1> QED
  BY <1>1, <1>2, <1>3 DEF ReceivedOK, Moves

LEMMA ClosingReceived ==
    ASSUME ReceivedInv, NEW i \in Ids, NEW code, NEW counts, CloseAndRetire(i, code, counts),
           UNCHANGED <<ring, client>>, \A j \in Ids : history'[j] \in {history[j], << >>}
    PROVE  \A j \in Ids : ReceivedOK(j)'
<1> DEFINE d == Close(conns[i], code, published)
<1>1. conns \in [Ids -> Connections] /\ conns' = [conns EXCEPT ![i] = d] /\ ring.lastSeq \in Nat
  BY ReceivedTypes DEF CloseAndRetire
<1>2. Moves(conns[i], d) /\ \A j \in Ids : Moves(conns[j], conns[j])
  BY <1>1, MethodsMove, Literals
<1>3. conns'[i] = d /\ \A j \in Ids : j # i => conns'[j] = conns[j]
  BY <1>1
<1> HIDE DEF d
<1>4. \A j \in Ids : Moves(conns[j], conns'[j])
  BY <1>2, <1>3
<1> QED
  BY <1>1, <1>4, MovesReceived

LEMMA StillReceived ==
    ASSUME ReceivedInv, UNCHANGED <<ring, conns, client>>,
           \A j \in Ids : history'[j] \in {history[j], << >>}
    PROVE  \A j \in Ids : ReceivedOK(j)'
<1>1. \A j \in Ids : Moves(conns[j], conns[j])
  BY DEF Moves
<1> QED
  BY <1>1, MovesReceived, ReceivedTypes

LEMMA WriterStepsReceived ==
    ASSUME ReceivedInv, NEW i \in Ids, WriterStep(i)
    PROVE  \A j \in Ids : ReceivedOK(j)'
<1>0. history \in [Ids -> Seq(Exchanges)]
  BY ReceivedTypes
<1>1. CASE StartWriter(i)
  BY <1>1, StillReceived DEF StartWriter, stream
<1>2. CASE PrepareFails(i)
  <2>1. /\ CloseAndRetire(i, 1006, counters) /\ UNCHANGED <<ring, client>>
        /\ history' = [history EXCEPT ![i] = << >>]
    BY <1>2 DEF PrepareFails, stream
  <2>2. \A j \in Ids : history'[j] \in {history[j], << >>}
    BY <1>0, <2>1
  <2> QED
    BY <2>1, <2>2, ClosingReceived
<1>3. CASE SendReturns(i)
  BY <1>3, SendReturnsReceived
<1>4. CASE SendRefused(i) \/ SendRaises(i) \/ CancelWriter(i)
  <2>1. \E at : \/ client' = client /\ \E d \in {MarkFailed(conns[i]), MarkUnknown(conns[i])} :
                                           Task(i, d, at, 0, << >>)
                \/ client' = [client EXCEPT ![i] = Reached(i)] /\ Task(i, MarkUnknown(conns[i]), at, 0, << >>)
    BY <1>4 DEF SendRefused, SendRaises, CancelWriter
  <2>2. writer[i].at \in Sending /\ UNCHANGED ring
    BY <1>4 DEF SendRefused, SendRaises, CancelWriter, stream
  <2> QED
    BY <2>1, <2>2, SendEndsReceived
<1>5. CASE WriterEnded(i)
  BY <1>5, StillReceived, ClosingReceived DEF WriterEnded, stream
<1>6. CASE WriterWakes(i)
  <2> DEFINE c == conns[i]
             d == [c EXCEPT !.changed = FALSE]
             none == << >>
  <2>1. /\ writer[i].at = "wait" /\ Proceed(i, d, none) /\ UNCHANGED <<ring, client>>
    BY <1>6 DEF WriterWakes, stream
  <2>2. /\ c \in Connections /\ StreamInv /\ ReceivedOK(i)
        /\ client = [client EXCEPT ![i] = client[i]]
    BY ReceivedTypes
  <2>3. c.inFlight = 0
    BY <2>1, <2>2, WriterFacts DEF StreamInv
  <2>4. d \in Connections /\ Moves(c, d) /\ d.inFlight = 0
    <3>1. KeepsAccount(c, d) /\ Moves(c, d)
      BY <2>2, NoticeKeepsAccount, MethodsMove, Literals
    <3> QED
      BY <2>3, <3>1 DEF KeepsAccount, SameAccount
  <2>5. AtMost(none, c.watermark)
    BY DEF AtMost
  <2> HIDE DEF d, none
  <2>6. Beyond(d) /\ d.watermark = c.watermark
        /\ LiveOf(client[i].got, d.watermark) \in d.sent .. d.sent + d.unknown
    BY <2>2, <2>4 DEF Moves, ReceivedOK
  <2> QED
    BY <2>1, <2>2, <2>4, <2>5, <2>6, ProceedReceived
<1> QED
  BY <1>1, <1>2, <1>3, <1>4, <1>5, <1>6 DEF WriterStep

(* What is published is newer than any watermark. *)
LEMMA PublisherReceived ==
    ASSUME ReceivedInv, PublisherTurn
    PROVE  \A j \in Ids : ReceivedOK(j)'
<1>0. UNCHANGED <<history, client>> /\ StreamInv
  BY DEF PublisherTurn, ReceivedInv, tasks
<1>1. CASE handoff.records = << >>
  BY <1>0, <1>1, StillReceived DEF PublisherTurn
<1>2. CASE handoff.records # << >>
  <2> DEFINE n == Head(handoff.records)
  <2>1. Publish(n) /\ n \in Exchanges /\ ring.lastSeq < n
    <3>1. handoff.records \in Seq(Exchanges)
      BY <1>0, StreamTypes
    <3>2. n = handoff.records[1] /\ 1 \in 1..Len(handoff.records) /\ n \in Exchanges
      BY <1>2, <3>1
    <3> QED
      BY <1>0, <1>2, <3>2 DEF PublisherTurn, StreamInv, SourceOK
  <2> HIDE DEF n
  <2>2. PICK raising \in SUBSET connections :
          conns' = [i \in Ids |-> IF i \in connections THEN Offered(conns[i], n, i \in raising)
                                                        ELSE conns[i]]
    BY <2>1 DEF Publish
  <2>3. ring'.lastSeq = n /\ n \in Nat /\ ring.lastSeq \in Nat
    BY <1>0, <2>1, StreamTypes DEF Publish, RingAdd, Exchanges
  <2>4. ASSUME NEW j \in Ids
        PROVE  Moves(conns[j], conns'[j])
    <3>1. conns[j] \in Connections /\ conns[j].watermark < n
      <4>1. conns[j] \in Connections /\ conns[j].watermark \in Nat /\ conns[j].watermark <= ring.lastSeq
        BY ReceivedTypes DEF ReceivedOK
      <4> QED
        BY <2>1, <2>3, <4>1
    <3>2. conns'[j] = conns[j] \/ \E raises : conns'[j] = Offered(conns[j], n, raises)
      BY <2>2
    <3>3. Moves(conns[j], conns[j])
      BY DEF Moves
    <3> QED
      BY <2>1, <3>1, <3>2, <3>3, OfferMoves
  <2> QED
    BY <1>0, <2>1, <2>3, <2>4, MovesReceived
<1> QED
  BY <1>1, <1>2

(* A new client's watermark is the last exchange of its history's ring. *)
LEMMA ConnectReceived ==
    ASSUME ReceivedInv, StreamInv', NEW after \in Afters, Connect(after)
    PROVE  \A j \in Ids : ReceivedOK(j)'
<1>1. /\ conns \in [Ids -> Connections] /\ opened \in Nat /\ client \in [Ids -> ClientViews]
      /\ history \in [Ids -> Seq(Exchanges)] /\ ring.lastSeq \in Nat
  BY StreamTypes DEF ReceivedInv
<1>2. PICK i \in Ids : i = opened + 1
  BY <1>1, ObserverAssumption DEF Connect, Ids, ObserverAssumption
<1> DEFINE opening == Since(ring, after)
           fresh   == NewConnection(ring.lastSeq, published, Len(opening))
           d       == SetState(fresh, feed.last)
           v       == [client[i] EXCEPT !.after = after, !.gap = Gap(ring, after), !.opening = opening]
<1>3. /\ conns' = [conns EXCEPT ![i] = d] /\ history' = [history EXCEPT ![i] = opening]
      /\ client' = [client EXCEPT ![i] = v] /\ UNCHANGED ring
  BY <1>2 DEF Connect, stream
<1>4. /\ d.queue = << >> /\ d.inFlight = 0 /\ d.watermark = ring.lastSeq /\ d.sent = 0 /\ d.unknown = 0
  BY DEF SetState, NewConnection
<1>5. v.got = client[i].got /\ v.opening = opening
  <2>1. client[i] \in ClientViews
    BY <1>1, <1>2
  <2> QED
    BY <2>1 DEF ClientViews
<1>6. client[i].got = << >>
  <2>1. i > opened
    BY <1>1, <1>2
  <2> QED
    BY <2>1 DEF ReceivedInv, StreamInv, WriterOK
<1>7. AtMost(opening, ring.lastSeq)
  <2>1. client'[i].opening = opening
    BY <1>1, <1>3, <1>5
  <2> QED
    BY <1>3, <2>1 DEF StreamInv, WriterOK
<1> HIDE DEF d, v, opening
<1>8. conns'[i] = d /\ history'[i] = opening /\ client'[i] = v
      /\ \A j \in Ids : j # i => conns'[j] = conns[j] /\ history'[j] = history[j] /\ client'[j] = client[j]
  BY <1>1, <1>3
<1>9. LiveOf(v.got, d.watermark) = 0
  <2>1. {k \in DOMAIN v.got : v.got[k] > d.watermark} = {}
    BY <1>5, <1>6
  <2> QED
    BY <2>1, FS_EmptySet DEF LiveOf
<1>10. ReceivedOK(i)'
  BY <1>1, <1>3, <1>4, <1>7, <1>8, <1>9 DEF ReceivedOK, Beyond
<1>11. ASSUME NEW j \in Ids, j # i PROVE ReceivedOK(j)'
  BY <1>3, <1>8, <1>11 DEF ReceivedInv, ReceivedOK
<1> QED
  BY <1>10, <1>11

(* A turn of run_state touches only the slots. *)
LEMMA StateTurnReceived ==
    ASSUME ReceivedInv, \/ \E version \in {feed.last, feed.last + 1} : SnapshotTaken(version)
                        \/ SnapshotFails
    PROVE  \A j \in Ids : ReceivedOK(j)'
<1>1. /\ UNCHANGED <<ring, client, history>> /\ ring.lastSeq \in Nat
      /\ feed \in [last : Nat \ {0}, mustPublish : BOOLEAN, due : Nat]
  <2>1. UNCHANGED <<ring, client, history>>
    BY DEF SnapshotTaken, SnapshotFails, tasks, stream
  <2>2. ring.lastSeq \in Nat /\ feed \in [last : Nat \ {0}, mustPublish : BOOLEAN, due : Nat]
    BY StreamTypes DEF ReceivedInv, StreamInv, ObserverInv, TypeOK
  <2> QED
    BY <2>1, <2>2
<1>2. PICK version \in Nat : \E cs \in {conns, PushState(conns, version)} : conns' = PushDropped(cs)
  <2>1. CASE SnapshotFails
    BY <1>1, <2>1 DEF SnapshotFails
  <2>2. ASSUME NEW version \in {feed.last, feed.last + 1}, SnapshotTaken(version)
        PROVE  \E u \in Nat : \E cs \in {conns, PushState(conns, u)} : conns' = PushDropped(cs)
    BY <1>1, <2>2 DEF SnapshotTaken
  <2> QED
    BY <2>1, <2>2
<1>3. PICK cs \in {conns, PushState(conns, version)} : conns' = PushDropped(cs)
  BY <1>2
<1>4. ASSUME NEW j \in Ids
      PROVE  Moves(conns[j], conns'[j])
  <2> DEFINE c == conns[j]
             d == cs[j]
  <2>1. c \in Connections
    BY ReceivedTypes
  <2>2. d = c \/ d = SetState(c, version)
    BY <1>3 DEF PushState
  <2>3. conns'[j] = d \/ conns'[j] = SetDropped(d)
    BY <1>3 DEF PushDropped
  <2> HIDE DEF c, d
  <2>4. d \in Connections /\ Moves(c, d)
    BY <2>1, <2>2, StateKeepsAccount, MethodsMove, Literals DEF KeepsAccount
  <2>5. Moves(d, conns'[j])
    BY <2>3, <2>4, MethodsMove, Literals
  <2>6. Moves(c, conns'[j])
    BY <2>4, <2>5 DEF Moves
  <2> QED
    BY <2>6 DEF c
<1> QED
  BY <1>1, <1>4, MovesReceived

LEMMA ReceivedStep == ReceivedInv /\ [Next]_vars => ReceivedInv'
<1> SUFFICES ASSUME ReceivedInv, [Next]_vars PROVE StreamInv' /\ \A j \in Ids : ReceivedOK(j)'
  BY DEF ReceivedInv
<1>0. StreamInv'
  BY StreamStep DEF ReceivedInv
<1>1. CASE PublisherTurn
  BY <1>0, <1>1, PublisherReceived
<1>2. ASSUME NEW after \in Afters, Connect(after) PROVE \A j \in Ids : ReceivedOK(j)'
  BY <1>0, <1>2, ConnectReceived
<1>3. ASSUME NEW i \in Ids, Disconnect(i) PROVE \A j \in Ids : ReceivedOK(j)'
  BY <1>3, ClosingReceived DEF Disconnect, stream, tasks
<1>4. ASSUME NEW i \in Ids, WriterStep(i) PROVE \A j \in Ids : ReceivedOK(j)'
  BY <1>4, WriterStepsReceived
<1>5. CASE (\E version \in {feed.last, feed.last + 1} : SnapshotTaken(version)) \/ SnapshotFails
  BY <1>0, <1>5, StateTurnReceived
<1>6. CASE Dispatch \/ RefuseClient \/ Stats \/ Tick \/ UNCHANGED vars
  BY <1>0, <1>6, StillReceived DEF Dispatch, RefuseClient, Stats, Tick, vars, stream, tasks
<1> QED
  BY <1>0, <1>1, <1>2, <1>3, <1>4, <1>5, <1>6 DEF Next

LEMMA ReceivedStarts == Init => ReceivedInv
<1> SUFFICES ASSUME Init, NEW i \in Ids PROVE ReceivedOK(i)
  BY StreamStarts DEF ReceivedInv
<1>1. /\ conns[i].queue = << >> /\ conns[i].inFlight = 0 /\ conns[i].watermark = 0
      /\ conns[i].sent = 0 /\ conns[i].unknown = 0 /\ ring.lastSeq = 0
      /\ history[i] = << >> /\ client[i].got = << >>
  BY DEF Init, NewConnection, EmptyRing
<1>2. LiveOf(<< >>, 0) = 0
  <2>1. {k \in DOMAIN << >> : << >>[k] > 0} = {}
    OBVIOUS
  <2> QED
    BY <2>1, FS_EmptySet DEF LiveOf
<1> QED
  BY <1>1, <1>2 DEF ReceivedOK, Beyond, AtMost

(* P5(d): in every reachable state, the live exchanges written to a client are   *)
(* those its ledger counts as sent, and at most the one that is unknown besides: *)
(* also through a writer that dies, a refused send and a cancelled one.          *)
THEOREM WhatArrivedIsCounted == Spec => []ReceivedMatchesLedger
<1>1. ReceivedInv => ReceivedMatchesLedger
  <2> SUFFICES ASSUME ReceivedInv PROVE ReceivedMatchesLedger
    OBVIOUS
  <2>1. \A i \in 1..opened : i \in Ids
    BY StreamTypes DEF ReceivedInv
  <2>2. ASSUME NEW i \in Ids
        PROVE  /\ LiveOf(client[i].got, conns[i].watermark) >= conns[i].sent
               /\ LiveOf(client[i].got, conns[i].watermark) <= conns[i].sent + conns[i].unknown
    BY ReceivedTypes DEF ReceivedOK
  <2> QED
    BY <2>1, <2>2 DEF ReceivedMatchesLedger, LiveOf
<1> QED
  BY <1>1, ReceivedStarts, ReceivedStep, PTL DEF Spec
=============================================================================
