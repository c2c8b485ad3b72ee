------------------------ MODULE ObserverRefinementProofs ------------------------
(***************************************************************************)
(* The observer implements the stream that every client is promised, for   *)
(* any number of exchanges and clients and any limits under which an       *)
(* answer can hold all of the ring.                                        *)
(*                                                                         *)
(* The abstract stream bounds what lies between the first and the last     *)
(* exchange a client has, so the argument is about places in the log.  The *)
(* ring is the end of the log, so a client's history is a stretch of it,   *)
(* and the k-th of what a client can be sent is at most as many places     *)
(* further on as its queue has refused.  A refusal moves what comes later; *)
(* nothing moves what is already on its way, also not after a close, which *)
(* discards the queue and lets the writer finish.                          *)
(*                                                                         *)
(* What a client is given when it resumes is a stretch of the log as well, *)
(* and it stays what it was: resuming is honest at that moment, and what   *)
(* is published later is not before the first exchange it was given.       *)
(***************************************************************************)
EXTENDS ObserverStreamProofs

(* The published exchanges are in order and the ring holds the last of them. *)
RingOK ==
    /\ RingIsTail
    /\ Increasing(log)
    /\ Len(ring.events) \in 0..Len(log)
    /\ Len(ring.events) <= HistoryMaxEvents

(* The place in the log before the first exchange of a client's history. *)
StartsAt(i) == conns[i].publishedAtOpen - Len(client[i].opening)

(* The k-th is in the source, at most so many places after the k-th from the start. *)
Placed(s, source, start, dropped) ==
    \A k \in 1..Len(s) : \E p \in 1..Len(source) :
        start + k <= p /\ p <= start + k + dropped /\ s[k] = source[p]

SendableOK ==
    \A i \in Ids :
        /\ Increasing(Sendable(i))
        /\ Placed(Sendable(i), log, StartsAt(i), conns[i].clientDropped)
        /\ i > opened => conns[i].clientDropped = 0

RefinementInv == StreamInv /\ RingOK /\ SendableOK

-----------------------------------------------------------------------------
(* Ends of sequences. *)

LEMMA EndOf ==
    ASSUME NEW s \in Seq(Exchanges), NEW k \in 0..Len(s)
    PROVE  /\ LastEvents(s, k) \in Seq(Exchanges) /\ Len(LastEvents(s, k)) = k
           /\ \A j \in 1..k : LastEvents(s, k)[j] = s[Len(s) - k + j]
BY DEF LastEvents

LEMMA EndOfEnd ==
    ASSUME NEW s \in Seq(Exchanges), NEW m \in 0..Len(s), NEW k \in 0..m
    PROVE  LastEvents(LastEvents(s, m), k) = LastEvents(s, k)
<1> DEFINE t == LastEvents(s, m)
           u == LastEvents(t, k)
           v == LastEvents(s, k)
<1>1. t \in Seq(Exchanges) /\ Len(t) = m /\ \A j \in 1..m : t[j] = s[Len(s) - m + j]
  BY EndOf
<1>2. k \in 0..Len(s) /\ k \in 0..Len(t) /\ Len(s) \in Nat
  BY <1>1
<1> HIDE DEF t
<1>3. u \in Seq(Exchanges) /\ Len(u) = k /\ \A j \in 1..k : u[j] = t[m - k + j]
  BY <1>1, <1>2, EndOf
<1>4. v \in Seq(Exchanges) /\ Len(v) = k /\ \A j \in 1..k : v[j] = s[Len(s) - k + j]
  BY <1>2, EndOf
<1> HIDE DEF u, v
<1>5. ASSUME NEW j \in 1..k PROVE u[j] = v[j]
  <2>1. m - k + j \in 1..m /\ Len(s) - m + (m - k + j) = Len(s) - k + j
    BY <1>2
  <2> QED
    BY SMTT(30), <1>1, <1>3, <1>4, <2>1
<1> QED
  BY <1>3, <1>4, <1>5, SeqEqual DEF t, u, v

(* One more at the end of a sequence is one more at the end of its end. *)
LEMMA EndTakes ==
    ASSUME NEW s \in Seq(Exchanges), NEW m \in 0..Len(s), NEW n \in Exchanges
    PROVE  Append(LastEvents(s, m), n) = LastEvents(Append(s, n), m + 1)
<1> DEFINE p == Len(s) - m
           all == Append(s, n)
<1>1. /\ p \in 0..Len(s) /\ MaxIssued \in Nat /\ AtMost(s, MaxIssued)
      /\ Len(all) = Len(s) + 1 /\ Len(s) \in Nat
  BY Elements, LimitsAssumption, AppendProperties DEF AtMost, Exchanges, LimitsAssumption
<1>2. SubSeq(all, p + 1, Len(all)) = Append(SubSeq(s, p + 1, Len(s)), n)
  BY <1>1, EndGrows
<1>3. Len(all) - (m + 1) + 1 = p + 1
  BY <1>1
<1> HIDE DEF all
<1> QED
  BY <1>2, <1>3 DEF LastEvents, all

(* Counting a first stretch of the positions of a sequence and something of the rest. *)
LEMMA CountWithFirst ==
    ASSUME NEW s \in Seq(Exchanges), NEW T \in SUBSET (1..Len(s)), 1 \in T,
           NEW h \in Nat, T \subseteq 1..h
    PROVE  Cardinality(T) \in 1..Len(s) /\ Cardinality(T) <= h
<1>1. Cardinality(T) \in 0..Len(s) /\ Len(s) \in Nat
  BY CountOfPositions
<1>2. IsFiniteSet(1..h) /\ Cardinality(1..h) = h
  <2>1. h \in Int /\ 1 \in Int
    OBVIOUS
  <2>2. IsFiniteSet(1..h) /\ Cardinality(1..h) = IF 1 > h THEN 0 ELSE h - 1 + 1
    BY <2>1, FS_Interval
  <2> QED
    BY <2>2
<1>3. IsFiniteSet(T) /\ Cardinality(T) <= h
  BY <1>2, FS_Subset
<1>4. Cardinality(T) # 0
  BY <1>3, FS_EmptySet
<1> QED
  BY <1>1, <1>3, <1>4

-----------------------------------------------------------------------------
(* The ring. *)

(* Whatever is evicted is the oldest, and the newest stays. *)
LEMMA RingAddIsTail ==
    ASSUME NEW s \in Seq(Exchanges), NEW r, r.events \in Seq(Exchanges),
           Len(r.events) \in 0..Len(s), r.events = LastEvents(s, Len(r.events)), NEW n \in Exchanges
    PROVE  LET e   == RingAdd(r, n).events
               all == Append(s, n)
           IN  /\ e = LastEvents(all, Len(e)) /\ Len(e) \in 1..Len(all)
               /\ Len(e) <= HistoryMaxEvents
<1> DEFINE own      == Append(r.events, n)
           bytes(k) == r.bytes + TextSize[n] - Bytes(SubSeq(own, 1, Len(own) - k))
           over(k)  == k > HistoryMaxEvents \/ (bytes(k) > HistoryMaxBytes /\ k > 1)
           fits     == {k \in 1..Len(own) : ~over(k)}
           kept     == Cardinality(fits)
           all      == Append(s, n)
           m        == Len(r.events)
<1>1. RingAdd(r, n).events = LastEvents(own, kept)
  BY DEF RingAdd
<1>2. own \in Seq(Exchanges) /\ Len(own) = m + 1 /\ all \in Seq(Exchanges) /\ Len(all) = Len(s) + 1
  BY AppendProperties
<1>3. own = LastEvents(all, m + 1) /\ m + 1 \in 0..Len(all)
  BY <1>2, EndTakes
<1>4. HistoryMaxEvents \in Nat \ {0}
  BY LimitsAssumption DEF LimitsAssumption
<1>5. fits \in SUBSET (1..Len(own)) /\ fits \subseteq 1..HistoryMaxEvents /\ 1 \in fits
  <2> HIDE DEF bytes, own
  <2>1. 1 \in 1..Len(own) /\ \A k \in 1..Len(own) : k \in Nat /\ k >= 1
    BY <1>2
  <2>2. ~over(1)
    BY <1>4
  <2>3. \A k \in fits : k \in 1..HistoryMaxEvents
    BY <1>4, <2>1
  <2> QED
    BY <2>1, <2>2, <2>3
<1> HIDE DEF fits, own, all
<1>6. kept \in 1..Len(own) /\ kept <= HistoryMaxEvents
  BY <1>2, <1>4, <1>5, CountWithFirst
<1> HIDE DEF kept
<1>7. kept \in 0..(m + 1)
  BY <1>2, <1>6
<1>8. LastEvents(own, kept) = LastEvents(all, kept)
  BY <1>2, <1>3, <1>7, EndOfEnd
<1>9. Len(LastEvents(all, kept)) = kept /\ kept \in 1..Len(all)
  <2>1. kept \in 1..Len(all) /\ kept \in 0..Len(all)
    BY <1>2, <1>6
  <2> QED
    BY <1>2, <2>1, EndOf
<1> QED
  BY <1>1, <1>6, <1>8, <1>9 DEF all

(* What comes after a number is all given, as an answer can hold all of the ring. *)
LEMMA SinceIsNewer ==
    ASSUME NEW r, r.events \in Seq(Exchanges), Len(r.events) <= HistoryMaxEvents,
           NEW after \in Nat \cup {NoAfter}, after # NoAfter
    PROVE  LET c == Cardinality({k \in DOMAIN r.events : r.events[k] > after})
           IN  c \in 0..Len(r.events) /\ Since(r, after) = LastEvents(r.events, c)
<1> DEFINE newer == {k \in DOMAIN r.events : r.events[k] > after}
           c     == Cardinality(newer)
           later == LastEvents(r.events, c)
<1>1. /\ ExchangesMaxLimit \in Nat /\ HistoryMaxEvents \in Nat /\ Len(r.events) \in Nat
      /\ HistoryMaxEvents <= ExchangesMaxLimit
  BY LimitsAssumption, AnswerHoldsRing DEF LimitsAssumption, AnswerHoldsRing
<1>2. newer \in SUBSET (1..Len(r.events))
  OBVIOUS
<1>3. Since(r, after) = SubSeq(later, 1, Min({ExchangesMaxLimit, Len(later)}))
  BY DEF Since
<1> HIDE DEF newer
<1>4. c \in 0..Len(r.events)
  BY <1>2, CountOfPositions
<1> HIDE DEF c
<1>5. later \in Seq(Exchanges) /\ Len(later) = c
  BY <1>4, EndOf
<1>6. Min({ExchangesMaxLimit, Len(later)}) = Len(later)
  <2> DEFINE l == Len(later)
  <2>1. l \in Nat /\ l <= ExchangesMaxLimit
    BY <1>1, <1>4, <1>5
  <2> HIDE DEF later, l
  <2>2. \A x \in {ExchangesMaxLimit, l} : (\A y \in {ExchangesMaxLimit, l} : x =< y) => x = l
    BY <1>1, <2>1
  <2>3. \E x \in {ExchangesMaxLimit, l} : \A y \in {ExchangesMaxLimit, l} : x =< y
    BY <1>1, <2>1
  <2>4. Min({ExchangesMaxLimit, l}) = l
    BY <2>2, <2>3 DEF Min
  <2> QED
    BY <2>4 DEF l
<1> HIDE DEF later
<1>7. SubSeq(later, 1, Len(later)) = later
  BY <1>5, SubSeqFull
<1> QED
  BY <1>3, <1>4, <1>6, <1>7 DEF later, c, newer

(* A client is given the end of the ring. *)
LEMMA SinceIsTail ==
    ASSUME NEW r, r.events \in Seq(Exchanges), Len(r.events) <= HistoryMaxEvents,
           NEW after \in Nat \cup {NoAfter}
    PROVE  \E k \in 0..Len(r.events) : Since(r, after) = LastEvents(r.events, k)
<1>1. CASE after = NoAfter
  <2> DEFINE k == Min({ExchangesMaxLimit, Len(r.events)})
  <2>1. ExchangesMaxLimit \in Nat /\ Len(r.events) \in Nat
    BY LimitsAssumption DEF LimitsAssumption
  <2>2. k \in 0..Len(r.events)
    BY <2>1, MinOfTwo
  <2>3. Since(r, after) = LastEvents(r.events, k)
    BY <1>1 DEF Since
  <2> HIDE DEF k
  <2> QED
    BY <2>2, <2>3
<1>2. CASE after # NoAfter
  BY <1>2, SinceIsNewer
<1> QED
  BY <1>1, <1>2

-----------------------------------------------------------------------------
(* Places in the log. *)

(* What loses its end, or is refused more, stays placed while the log grows. *)
LEMMA PlacedStays ==
    ASSUME NEW s \in Seq(Exchanges), NEW t, Begins(t, s),
           NEW l \in Seq(Exchanges), NEW m \in Seq(Exchanges), Begins(l, m),
           NEW start \in Int, NEW d \in Nat, NEW e \in Nat, d <= e, Placed(s, l, start, d), Increasing(s)
    PROVE  Placed(t, m, start, e) /\ Increasing(t)
<1>1. Len(t) \in 0..Len(s) /\ Len(l) \in 0..Len(m) /\ Len(s) \in Nat /\ Len(m) \in Nat
      /\ \A k \in 1..Len(t) : t[k] = s[k]
      /\ \A p \in 1..Len(l) : l[p] = m[p]
  BY DEF Begins
<1>2. Increasing(t)
  BY <1>1 DEF Increasing
<1>3. ASSUME NEW k \in 1..Len(t)
      PROVE  \E p \in 1..Len(m) : start + k <= p /\ p <= start + k + e /\ t[k] = m[p]
  <2>1. k \in 1..Len(s)
    BY <1>1
  <2>2. PICK p \in 1..Len(l) : start + k <= p /\ p <= start + k + d /\ s[k] = l[p]
    BY <2>1 DEF Placed
  <2>3. p \in 1..Len(m) /\ p <= start + k + e /\ t[k] = m[p]
    BY <1>1, <2>2
  <2> QED
    BY <2>2, <2>3
<1> QED
  BY <1>2, <1>3 DEF Placed

(* What is offered and taken is at the end of both. *)
LEMMA PlacedGrows ==
    ASSUME NEW s \in Seq(Exchanges), NEW l \in Seq(Exchanges), NEW n \in Exchanges,
           NEW start \in Int, NEW d \in Nat, Placed(s, l, start, d), Increasing(s),
           \A p \in 1..Len(l) : l[p] < n, Len(l) = start + Len(s) + d
    PROVE  Placed(Append(s, n), Append(l, n), start, d) /\ Increasing(Append(s, n))
<1> DEFINE t == Append(s, n)
           m == Append(l, n)
<1>1. /\ Len(t) = Len(s) + 1 /\ t[Len(s) + 1] = n /\ Len(s) \in Nat
      /\ \A k \in 1..Len(s) : t[k] = s[k]
      /\ Len(m) = Len(l) + 1 /\ m[Len(l) + 1] = n /\ Len(l) \in Nat
      /\ \A p \in 1..Len(l) : m[p] = l[p]
  BY AppendProperties
<1>2. \A k \in 1..Len(s) : s[k] < n
  BY DEF Placed
<1>3. Increasing(t)
  BY <1>2, IncreasingGrows
<1> HIDE DEF t, m
<1>4. ASSUME NEW k \in 1..Len(t)
      PROVE  \E p \in 1..Len(m) : start + k <= p /\ p <= start + k + d /\ t[k] = m[p]
  <2>1. CASE k = Len(s) + 1
    <3>1. Len(m) \in 1..Len(m) /\ start + k <= Len(m) /\ Len(m) <= start + k + d /\ t[k] = m[Len(m)]
      BY <1>1, <2>1
    <3> QED
      BY <3>1
  <2>2. CASE k \in 1..Len(s)
    <3>1. PICK p \in 1..Len(l) : start + k <= p /\ p <= start + k + d /\ s[k] = l[p]
      BY <2>2 DEF Placed
    <3>2. p \in 1..Len(m) /\ t[k] = m[p]
      BY <1>1, <2>2, <3>1
    <3> QED
      BY <3>1, <3>2
  <2> QED
    BY <1>1, <2>1, <2>2
<1> QED
  BY <1>3, <1>4 DEF Placed, t, m

(* The numbers a client's places are counted with. *)
LEMMA PlaceTypes ==
    ASSUME StreamInv, NEW i \in Ids
    PROVE  /\ StartsAt(i) \in Int /\ conns[i].clientDropped \in Nat
           /\ conns[i].publishedAtOpen \in Nat /\ Len(client[i].opening) \in Nat
           /\ Sendable(i) \in Seq(Exchanges) /\ log \in Seq(Exchanges) /\ Begins(log, log)
<1>1. conns[i] \in Connections /\ client[i].opening \in Seq(Exchanges) /\ log \in Seq(Exchanges)
  BY StreamTypes
<1>2. conns[i].clientDropped \in Nat /\ conns[i].publishedAtOpen \in Nat /\ Len(client[i].opening) \in Nat
  BY <1>1, LedgerTypes
<1>3. Begins(log, log)
  BY <1>1, ConcatBegins
<1> QED
  BY SMTT(30), <1>1, <1>2, <1>3, SendableFlow DEF StartsAt

(* One client's part of the invariant, when it is passed over or stays as it is. *)
LEMMA SendableStays ==
    ASSUME RefinementInv, NEW i \in Ids, opened' = opened, log' \in Seq(Exchanges), Begins(log, log'),
           conns'[i].publishedAtOpen = conns[i].publishedAtOpen, client'[i].opening = client[i].opening,
           conns'[i].clientDropped \in Nat, conns[i].clientDropped <= conns'[i].clientDropped,
           i > opened => conns'[i].clientDropped = conns[i].clientDropped,
           Begins(Sendable(i)', Sendable(i))
    PROVE  /\ Increasing(Sendable(i))'
           /\ Placed(Sendable(i), log, StartsAt(i), conns[i].clientDropped)'
           /\ i > opened' => conns'[i].clientDropped = 0
<1> DEFINE s == Sendable(i)
           t == Sendable(i)'
           start == StartsAt(i)
           d == conns[i].clientDropped
           e == conns'[i].clientDropped
<1>1. /\ s \in Seq(Exchanges) /\ start \in Int /\ d \in Nat /\ log \in Seq(Exchanges)
      /\ Increasing(s) /\ Placed(s, log, start, d)
  BY PlaceTypes DEF RefinementInv, SendableOK
<1>2. StartsAt(i)' = start
  BY DEF StartsAt
<1> HIDE DEF s, t, start, d, e
<1>3. Begins(t, s) /\ e \in Nat /\ d <= e
  BY DEF s, t, d, e
<1>4. Placed(t, log', start, e) /\ Increasing(t)
  BY <1>1, <1>3, PlacedStays
<1> QED
  BY <1>2, <1>4 DEF RefinementInv, SendableOK, s, t, d, e, start

-----------------------------------------------------------------------------
(* The steps. *)

(* Every step but a publication and a connect takes the streams forward or leaves them. *)
LEMMA StepForwards ==
    ASSUME StreamInv, [Next]_vars
    PROVE  \/ Forwards
           \/ \E after \in Afters : Connect(after)
           \/ PublisherTurn /\ handoff.records # << >>
<1>1. CASE Dispatch
  BY <1>1, DispatchStep
<1>2. CASE PublisherTurn /\ handoff.records = << >>
  <2>1. UNCHANGED <<ring, log, conns, opened, writer, history, client>>
    BY <1>2 DEF PublisherTurn, tasks
  <2>2. ASSUME NEW j \in Ids
        PROVE  Begins(Sendable(j)', Sendable(j)) /\ Begins(client'[j].got, Sendable(j))
    <3>1. Sendable(j)' = Sendable(j)
      BY <2>1 DEF Sendable, OnTheWay
    <3> QED
      BY <2>1, <3>1, SendableFlow
  <2> QED
    BY <2>1, <2>2 DEF Forwards
<1>3. CASE RefuseClient
  BY <1>3, StillStep DEF RefuseClient
<1>4. ASSUME NEW i \in Ids, Disconnect(i) PROVE Forwards
  BY <1>4, DisconnectStep
<1>5. CASE Stats
  BY <1>5, StillStep DEF Stats
<1>6. ASSUME NEW i \in Ids, WriterStep(i) PROVE Forwards
  BY <1>6, WriterStepsFlow
<1>7. CASE \E version \in {feed.last, feed.last + 1} : SnapshotTaken(version)
  BY <1>7, StateStep
<1>8. CASE SnapshotFails
  BY <1>8, StateStep
<1>9. CASE Tick
  BY <1>9, StillStep DEF Tick
<1>10. CASE UNCHANGED vars
  BY <1>10, StillStep DEF vars
<1> QED
  BY <1>1, <1>2, <1>3, <1>4, <1>5, <1>6, <1>7, <1>8, <1>9, <1>10 DEF Next

LEMMA ForwardsKeeps ==
    ASSUME RefinementInv, Forwards
    PROVE  RingOK' /\ SendableOK'
<1>1. log' = log /\ ring' = ring /\ opened' = opened
  BY DEF Forwards
<1>2. RingOK'
  BY <1>1 DEF RefinementInv, RingOK, RingIsTail
<1>3. ASSUME NEW i \in Ids
      PROVE  /\ Increasing(Sendable(i))'
             /\ Placed(Sendable(i), log, StartsAt(i), conns[i].clientDropped)'
             /\ i > opened' => conns'[i].clientDropped = 0
  <2>1. /\ conns'[i].clientDropped = conns[i].clientDropped
        /\ conns'[i].publishedAtOpen = conns[i].publishedAtOpen
        /\ client'[i].opening = client[i].opening
        /\ Begins(Sendable(i)', Sendable(i))
    BY DEF Forwards
  <2>2. /\ log' \in Seq(Exchanges) /\ Begins(log, log')
        /\ conns'[i].clientDropped \in Nat /\ conns[i].clientDropped <= conns'[i].clientDropped
    BY <1>1, <2>1, PlaceTypes DEF RefinementInv
  <2> QED
    BY <1>1, <2>1, <2>2, SendableStays
<1> QED
  BY <1>2, <1>3 DEF SendableOK

(* What a publication does to one connection. *)
LEMMA OfferedSends ==
    ASSUME NEW c \in Connections, ~Closed(c), NEW n \in Exchanges, NEW raises \in BOOLEAN,
           NEW d, d = Offered(c, n, raises), now \in Nat, published \in Nat, LedgerIdentities(c, published)
    PROVE  /\ d.inFlight = c.inFlight /\ d.publishedAtOpen = c.publishedAtOpen
           /\ d.clientDropped \in {c.clientDropped, c.clientDropped + 1}
           /\ \/ d.queue = Append(c.queue, n) /\ d.clientDropped = c.clientDropped /\ ~Closed(d)
              \/ d.queue \in {c.queue, << >>}
<1> DEFINE e == Drop(c, now)
           p == e.publishedAtOpen + e.offered
<1>1. d.inFlight = c.inFlight
  BY OfferedBalances
<1>2. d \in {CloseNow(c, InternalError, published), Enqueue(c, n), e, CloseNow(e, TooSlow, p)}
  BY DEF Offered, Close, Offer
<1>3. ASSUME NEW code, NEW q
      PROVE  LET x == CloseNow(c, code, q)
             IN  x.publishedAtOpen = c.publishedAtOpen /\ x.clientDropped = c.clientDropped /\ x.queue = << >>
  BY DEF CloseNow, Connections
<1>4. LET x == Enqueue(c, n)
      IN  /\ x.publishedAtOpen = c.publishedAtOpen /\ x.clientDropped = c.clientDropped
          /\ x.queue = Append(c.queue, n) /\ x.closeCode = c.closeCode
  BY DEF Enqueue, Connections
<1>5. /\ e.publishedAtOpen = c.publishedAtOpen /\ e.clientDropped = c.clientDropped + 1 /\ e.queue = c.queue
      /\ DOMAIN e = DOMAIN c
  BY DEF Drop, Connections
<1>6. {"publishedAtOpen", "clientDropped", "queue"} \subseteq DOMAIN c
  BY DEF Connections
<1> HIDE DEF e
<1>7. ASSUME NEW code, NEW q
      PROVE  LET x == CloseNow(e, code, q)
             IN  /\ x.publishedAtOpen = c.publishedAtOpen /\ x.clientDropped = c.clientDropped + 1
                 /\ x.queue = << >>
  BY <1>5, <1>6 DEF CloseNow
<1> HIDE DEF p
<1> QED
  BY <1>1, <1>2, <1>3, <1>4, <1>5, <1>7 DEF Closed

(* Before a publication, a client's stream and its refusals make up what was published. *)
LEMMA FlowReachesEnd ==
    ASSUME StreamInv, NEW i \in Ids, i \in 1..opened, Serving(i)
    PROVE  Len(log) = StartsAt(i) + Len(Sendable(i)) + conns[i].clientDropped
<1> DEFINE p    == conns[i].publishedAtOpen
           past == PublishedSince(i)
           own  == client[i].opening
           d    == conns[i].clientDropped
<1>1. /\ own \in Seq(Exchanges) /\ log \in Seq(Exchanges) /\ published \in Nat
      /\ conns[i] \in Connections /\ p \in Nat /\ d \in Nat
  BY StreamTypes, PlaceTypes
<1>2. p <= Len(log)
  <2>1. p + conns[i].offered = published /\ Len(log) = published
    BY DEF StreamInv, ObserverInv, LedgersBalance, LedgerIdentities, PublishedAtEnd, SourceOK, Serving
  <2>2. conns[i].offered \in Nat
    BY <1>1, LedgerTypes
  <2> HIDE DEF p
  <2> QED
    BY <1>1, <2>1, <2>2
<1>3. past = SubSeq(log, p + 1, Len(log))
  BY DEF PublishedSince
<1>4. past \in Seq(Exchanges) /\ Len(past) = Len(log) - p
  <2> HIDE DEF p, past
  <2> QED
    BY <1>1, <1>2, <1>3
<1>5. Len(Flow(i)) = Len(Due(i)) - d /\ Due(i) = own \o past
  BY DEF StreamInv, NoSilentLoss, Flow, Due
<1>6. Sendable(i) = Flow(i) /\ Flow(i) \in Seq(Exchanges)
  BY SendableFlow DEF Serving
<1> HIDE DEF p, past, own, d
<1>7. Len(own \o past) = Len(own) + Len(past) /\ Len(own) \in Nat /\ Len(past) \in Nat
  <2>1. own \in Seq(Exchanges) /\ past \in Seq(Exchanges)
    BY <1>1, <1>4
  <2> QED
    BY <2>1, ConcatProperties
<1>8. StartsAt(i) = p - Len(own)
  BY DEF StartsAt, p, own
<1>9. Len(Flow(i)) = (Len(own) + Len(past)) - d /\ Len(Sendable(i)) = Len(Flow(i))
  BY <1>5, <1>6, <1>7
<1>10. Len(log) \in Nat
  BY <1>1
<1>11. Len(log) = StartsAt(i) + Len(Sendable(i)) + d
  <2> DEFINE a == Len(own)
             b == Len(past)
             n == Len(log)
             s == StartsAt(i)
             f == Len(Sendable(i))
  <2>1. /\ a \in Nat /\ b \in Nat /\ n \in Nat /\ p \in Nat /\ d \in Nat
        /\ b = n - p /\ s = p - a /\ f = (a + b) - d
    BY <1>1, <1>4, <1>7, <1>8, <1>9, <1>10
  <2> HIDE DEF a, b, n, s, f
  <2>2. n = s + f + d
    BY ONLY <2>1
  <2> QED
    BY <2>2 DEF n, s, f
<1> QED
  BY <1>11 DEF d

(* The log goes on, and stays as far as it was. *)
LEMMA LogGrows ==
    ASSUME NEW l \in Seq(Exchanges), NEW m \in Nat, AtMost(l, m), Increasing(l), NEW n \in Exchanges, m < n
    PROVE  /\ Append(l, n) \in Seq(Exchanges) /\ Begins(l, Append(l, n))
           /\ Len(Append(l, n)) = Len(l) + 1 /\ Append(l, n)[Len(l) + 1] = n
           /\ Increasing(Append(l, n)) /\ \A k \in 1..Len(l) : l[k] < n
<1>1. /\ Len(Append(l, n)) = Len(l) + 1 /\ Append(l, n)[Len(l) + 1] = n /\ Len(l) \in Nat
      /\ \A k \in 1..Len(l) : Append(l, n)[k] = l[k]
      /\ Append(l, n) \in Seq(Exchanges)
  BY AppendProperties
<1>2. \A k \in 1..Len(l) : l[k] < n
  <2>1. \A k \in 1..Len(l) : l[k] \in Nat
    BY Elements
  <2> QED
    BY <2>1 DEF AtMost, Exchanges
<1>3. Increasing(Append(l, n))
  BY <1>2, IncreasingGrows
<1> QED
  BY <1>1, <1>2, <1>3 DEF Begins

(* A publication goes to the end of what a client can be sent, or past it. *)
LEMMA PublishedToClient ==
    ASSUME RefinementInv, NEW j \in connections, NEW n \in Exchanges, ring.lastSeq < n,
           log' = Append(log, n), UNCHANGED <<opened, client, history, writer>>,
           conns'[j].inFlight = conns[j].inFlight, conns'[j].publishedAtOpen = conns[j].publishedAtOpen,
           conns'[j].clientDropped \in {conns[j].clientDropped, conns[j].clientDropped + 1},
           \/ /\ conns'[j].queue = Append(conns[j].queue, n)
              /\ conns'[j].clientDropped = conns[j].clientDropped
           \/ conns'[j].queue \in {conns[j].queue, << >>}
    PROVE  /\ Increasing(Sendable(j))'
           /\ Placed(Sendable(j), log, StartsAt(j), conns[j].clientDropped)'
           /\ j > opened' => conns'[j].clientDropped = 0
<1>1. /\ j \in 1..opened /\ j \in Ids /\ ~Closed(conns[j]) /\ StreamInv
  <2>1. j \in 1..opened
    BY DEF RefinementInv, StreamInv, ObserverInv, TypeOK
  <2> QED
    BY <2>1, StreamTypes DEF RefinementInv, StreamInv, ObserverInv, RegisteredIffOpen
<1>2. /\ log' \in Seq(Exchanges) /\ Begins(log, log') /\ \A k \in 1..Len(log) : log[k] < n
  <2>1. ring.lastSeq \in Nat /\ AtMost(log, ring.lastSeq) /\ Increasing(log) /\ log \in Seq(Exchanges)
    BY <1>1, StreamTypes DEF RefinementInv, RingOK, StreamInv, SourceOK
  <2> QED
    BY <2>1, LogGrows
<1>3. ~(j > opened)
  BY <1>1, StreamTypes
<1>4. conns[j].clientDropped \in Nat /\ conns'[j].clientDropped \in Nat
      /\ conns[j].clientDropped <= conns'[j].clientDropped
  BY SMTT(30), <1>1, PlaceTypes
<1>5. ASSUME Begins(Sendable(j)', Sendable(j))
      PROVE  /\ Increasing(Sendable(j))'
             /\ Placed(Sendable(j), log, StartsAt(j), conns[j].clientDropped)'
             /\ j > opened' => conns'[j].clientDropped = 0
  BY <1>1, <1>2, <1>3, <1>4, <1>5, SendableStays
<1>6. CASE conns'[j].queue \in {conns[j].queue, << >>}
  <2>1. Begins(Sendable(j)', Sendable(j))
    BY <1>1, <1>6, LosesQueue
  <2> QED
    BY <1>5, <2>1
<1>7. CASE writer[j].at \in {"raised", "ended"}
  <2>1. Sendable(j)' = Sendable(j)
    BY <1>7 DEF Sendable
  <2>2. Begins(Sendable(j)', Sendable(j))
    BY <1>1, <2>1, SendableFlow
  <2> QED
    BY <1>5, <2>2
<1>8. CASE /\ conns'[j].queue = Append(conns[j].queue, n) /\ conns'[j].clientDropped = conns[j].clientDropped
           /\ writer[j].at \notin {"raised", "ended"}
  <2> DEFINE s == Sendable(j)
             start == StartsAt(j)
             d == conns[j].clientDropped
  <2>1. Serving(j)
    BY <1>1, <1>8 DEF Serving
  <2>2. Sendable(j)' = Append(s, n)
    <3>1. Flow(j)' = Append(Flow(j), n) /\ s = Flow(j)
      BY <1>1, <1>8, FlowTakes, SendableFlow
    <3>2. Sendable(j)' = Flow(j)'
      BY <1>8 DEF Sendable, Flow
    <3> QED
      BY <3>1, <3>2
  <2>3. Len(log) = start + Len(s) + d
    BY <1>1, <2>1, FlowReachesEnd
  <2>4. /\ s \in Seq(Exchanges) /\ start \in Int /\ d \in Nat /\ log \in Seq(Exchanges)
        /\ Increasing(s) /\ Placed(s, log, start, d)
    BY <1>1, PlaceTypes DEF RefinementInv, SendableOK
  <2>5. StartsAt(j)' = start /\ conns'[j].clientDropped = d
    BY <1>8 DEF StartsAt
  <2> HIDE DEF s, start, d
  <2>6. Placed(Append(s, n), Append(log, n), start, d) /\ Increasing(Append(s, n))
    BY <1>2, <2>3, <2>4, PlacedGrows
  <2> QED
    BY <1>3, <2>2, <2>5, <2>6
<1> QED
  BY <1>6, <1>7, <1>8

LEMMA PublicationKeeps ==
    ASSUME RefinementInv, PublisherTurn, handoff.records # << >>
    PROVE  /\ RingOK' /\ SendableOK' /\ client' = client
           /\ \E n \in Exchanges : log' = Append(log, n) /\ \A k \in 1..Len(log) : log[k] < n
           /\ \A j \in Ids : /\ conns'[j].clientDropped \in {conns[j].clientDropped, conns[j].clientDropped + 1}
                              /\ conns'[j].publishedAtOpen = conns[j].publishedAtOpen
<1> DEFINE n == Head(handoff.records)
<1>1. Publish(n) /\ UNCHANGED <<issued, opened, writer, history, client>>
  BY DEF PublisherTurn, tasks
<1>2. PICK raising \in SUBSET connections :
        /\ ring' = RingAdd(ring, n)
        /\ log' = Append(log, n)
        /\ conns' = [i \in Ids |-> IF i \in connections THEN Offered(conns[i], n, i \in raising)
                                                        ELSE conns[i]]
  <2> HIDE DEF n
  <2> QED
    BY <1>1 DEF Publish
<1>3. /\ StreamInv /\ log \in Seq(Exchanges) /\ ring.events \in Seq(Exchanges) /\ ring.lastSeq \in Nat
      /\ published \in Nat /\ conns \in [Ids -> Connections] /\ \A i \in 1..opened : i \in Ids
      /\ handoff.records \in Seq(Exchanges)
  BY StreamTypes DEF RefinementInv
<1>4. n \in Exchanges /\ ring.lastSeq < n
  <2>1. n \in Exchanges /\ Len(handoff.records) \in Nat \ {0} /\ n = handoff.records[1]
    BY <1>3, HeadTailProperties, EmptySeq
  <2> QED
    BY <1>3, <2>1 DEF StreamInv, SourceOK
<1> HIDE DEF n
<1>5. /\ AtMost(log, ring.lastSeq) /\ Increasing(log) /\ Len(ring.events) \in 0..Len(log)
      /\ ring.events = LastEvents(log, Len(ring.events))
  BY <1>3 DEF RefinementInv, RingOK, RingIsTail, StreamInv, SourceOK
<1>6. /\ log' \in Seq(Exchanges) /\ Begins(log, log') /\ Increasing(log')
      /\ Len(log') = Len(log) + 1 /\ log'[Len(log) + 1] = n
      /\ \A k \in 1..Len(log) : log[k] < n
  BY <1>2, <1>3, <1>4, <1>5, LogGrows
<1>7. RingOK'
  <2>1. /\ ring'.events = LastEvents(log', Len(ring'.events)) /\ Len(ring'.events) \in 1..Len(log')
        /\ Len(ring'.events) <= HistoryMaxEvents
    BY <1>2, <1>3, <1>4, <1>5, RingAddIsTail
  <2>2. ring'.lastSeq = n
    BY <1>2, <1>3, <1>4, RingAddType
  <2>3. ring'.events # << >> /\ Len(ring'.events) \in 0..Len(log')
    BY <2>1
  <2> QED
    BY <1>6, <2>1, <2>2, <2>3 DEF RingOK, RingIsTail
<1>8. ASSUME NEW j \in Ids
      PROVE  /\ Increasing(Sendable(j))'
             /\ Placed(Sendable(j), log, StartsAt(j), conns[j].clientDropped)'
             /\ j > opened' => conns'[j].clientDropped = 0
             /\ conns'[j].clientDropped \in {conns[j].clientDropped, conns[j].clientDropped + 1}
             /\ conns'[j].publishedAtOpen = conns[j].publishedAtOpen
  <2>1. CASE j \notin connections
    <3>1. conns'[j] = conns[j]
      BY <1>2, <2>1
    <3>2. Sendable(j)' = Sendable(j)
      BY <1>1, <3>1 DEF Sendable, OnTheWay
    <3>3. Begins(Sendable(j)', Sendable(j)) /\ conns[j].clientDropped \in Nat
          /\ conns[j].clientDropped <= conns'[j].clientDropped
      BY SMTT(30), <1>3, <3>1, <3>2, SendableFlow, PlaceTypes
    <3> QED
      BY <1>1, <1>6, <3>1, <3>3, SendableStays
  <2>2. CASE j \in connections
    <3> DEFINE c == conns[j]
               d == conns'[j]
               raises == j \in raising
    <3>1. d = Offered(c, n, raises) /\ raises \in BOOLEAN
      BY <1>2, <2>2
    <3>2. c \in Connections /\ ~Closed(c) /\ LedgerIdentities(c, published)
      <4>1. j \in 1..opened
        BY <1>3, <2>2 DEF StreamInv, ObserverInv, TypeOK
      <4> QED
        BY <1>3, <2>2, <4>1 DEF StreamInv, ObserverInv, RegisteredIffOpen, LedgersBalance
    <3>3. now \in Nat /\ published \in Nat
      BY <1>3 DEF StreamInv, ObserverInv, TypeOK
    <3> HIDE DEF c, d, raises
    <3>4. /\ d.inFlight = c.inFlight /\ d.publishedAtOpen = c.publishedAtOpen
          /\ d.clientDropped \in {c.clientDropped, c.clientDropped + 1}
          /\ \/ d.queue = Append(c.queue, n) /\ d.clientDropped = c.clientDropped
             \/ d.queue \in {c.queue, << >>}
      BY <1>4, <3>1, <3>2, <3>3, OfferedSends
    <3> QED
      BY <1>1, <1>2, <1>4, <2>2, <3>4, PublishedToClient DEF c, d
  <2> QED
    BY <2>1, <2>2
<1> QED
  BY <1>1, <1>2, <1>4, <1>6, <1>7, <1>8 DEF SendableOK

(* A client's history is the end of the log, and its stream goes on from there. *)
LEMMA NewClientPlaced ==
    ASSUME RefinementInv, NEW after \in Afters, NEW s, s = Since(ring, after)
    PROVE  /\ s \in Seq(Exchanges) /\ Increasing(s)
           /\ Placed(s, log, published - Len(s), 0)
<1>1. /\ StreamInv /\ log \in Seq(Exchanges) /\ ring.events \in Seq(Exchanges) /\ ring.lastSeq \in Nat
      /\ published \in Nat
  BY StreamTypes DEF RefinementInv
<1>2. /\ Len(log) = published /\ Increasing(ring.events) /\ AtMost(ring.events, ring.lastSeq)
      /\ Len(ring.events) \in 0..Len(log) /\ Len(ring.events) <= HistoryMaxEvents
      /\ ring.events = LastEvents(log, Len(ring.events))
  BY <1>1 DEF RefinementInv, RingOK, RingIsTail, StreamInv, SourceOK
<1>3. after \in Nat \cup {NoAfter}
  BY ObserverAssumption DEF ObserverAssumption
<1>4. s \in Seq(Exchanges) /\ Increasing(s)
  BY <1>1, <1>2, <1>3, SinceType, SinceOrder
<1>5. PICK k \in 0..Len(ring.events) : s = LastEvents(ring.events, k)
  BY <1>1, <1>2, <1>3, SinceIsTail
<1>6. s = LastEvents(log, k) /\ k \in 0..Len(log)
  BY <1>1, <1>2, <1>5, EndOfEnd
<1>7. Len(s) = k /\ \A j \in 1..k : s[j] = log[Len(log) - k + j]
  BY <1>1, <1>6, EndOf
<1>8. ASSUME NEW j \in 1..Len(s)
      PROVE  \E p \in 1..Len(log) :
                 published - Len(s) + j <= p /\ p <= published - Len(s) + j + 0 /\ s[j] = log[p]
  <2>1. Len(log) - k + j \in 1..Len(log)
    BY <1>1, <1>2, <1>6, <1>7
  <2>2. published - Len(s) + j = Len(log) - k + j /\ published - Len(s) + j + 0 = Len(log) - k + j
    BY <1>1, <1>2, <1>6, <1>7
  <2>3. s[j] = log[Len(log) - k + j]
    BY <1>7
  <2> QED
    BY <2>1, <2>2, <2>3
<1> QED
  BY <1>4, <1>8 DEF Placed

LEMMA ConnectPlaces ==
    ASSUME RefinementInv, NEW after \in Afters, Connect(after)
    PROVE  /\ RingOK' /\ SendableOK'
           /\ \A j \in Ids : /\ client'[j].got = client[j].got
                             /\ conns'[j].clientDropped = conns[j].clientDropped
<1> DEFINE i       == opened + 1
           opening == Since(ring, after)
           fresh   == NewConnection(ring.lastSeq, published, Len(opening))
           d       == SetState(fresh, feed.last)
           v       == [client[i] EXCEPT !.after = after, !.gap = Gap(ring, after), !.opening = opening]
<1>1. /\ opened' = i /\ conns' = [conns EXCEPT ![i] = d] /\ opened < MaxConnections
      /\ history' = [history EXCEPT ![i] = opening] /\ client' = [client EXCEPT ![i] = v]
      /\ UNCHANGED <<stream, writer>>
  BY DEF Connect
<1>2. /\ StreamInv /\ conns \in [Ids -> Connections] /\ opened \in Nat /\ client \in [Ids -> ClientViews]
      /\ history \in [Ids -> Seq(Exchanges)]
  BY StreamTypes DEF RefinementInv
<1>3. i \in Ids /\ i > opened
  BY <1>1, <1>2, ObserverAssumption DEF Ids, ObserverAssumption
<1>4. d.queue = << >> /\ d.inFlight = 0 /\ d.clientDropped = 0 /\ d.publishedAtOpen = published
  <2> HIDE DEF opening
  <2>1. fresh.closeCode = NotClosed
    BY DEF NewConnection
  <2>2. d = [fresh EXCEPT !.state = feed.last, !.changed = TRUE]
    BY <2>1 DEF SetState, Closed
  <2> QED
    BY ZenonT(60), <2>2 DEF NewConnection
<1>5. v.opening = opening /\ v.got = << >> /\ client[i].got = << >>
  <2>1. client[i] \in ClientViews /\ client[i].got = << >>
    BY <1>2, <1>3 DEF StreamInv, WriterOK
  <2> HIDE DEF opening, i
  <2> QED
    BY <2>1 DEF ClientViews
<1>6. writer[i].at = "none"
  BY <1>2, <1>3 DEF StreamInv, ObserverInv, OnlyOpenedStart
<1>7. opening \in Seq(Exchanges) /\ Increasing(opening) /\ Placed(opening, log, published - Len(opening), 0)
  <2> HIDE DEF opening
  <2> QED
    BY NewClientPlaced DEF opening
<1> HIDE DEF d, v, opening, i
<1>8. /\ conns'[i] = d /\ history'[i] = opening /\ client'[i] = v /\ writer' = writer
      /\ ring' = ring /\ log' = log
      /\ \A j \in Ids \ {i} : conns'[j] = conns[j] /\ history'[j] = history[j] /\ client'[j] = client[j]
  BY <1>1, <1>2, <1>3 DEF stream
<1>9. RingOK'
  BY <1>8 DEF RefinementInv, RingOK, RingIsTail
<1>10. ASSUME NEW j \in Ids, j = i
       PROVE  Sendable(j)' = opening /\ StartsAt(j)' = published - Len(opening)
  <2> DEFINE none == << >>
  <2>1. none \in Seq(Exchanges) /\ none \o opening = opening /\ opening \o none = opening
    BY <1>7, ConcatEmptySeq
  <2>2. Sendable(j)' = none \o (opening \o none \o none)
    BY <1>4, <1>5, <1>6, <1>8, <1>10 DEF Sendable, OnTheWay
  <2>3. StartsAt(j)' = published - Len(opening)
    BY <1>4, <1>5, <1>8, <1>10 DEF StartsAt
  <2> HIDE DEF none
  <2> QED
    BY <2>1, <2>2, <2>3
<1>11. ASSUME NEW j \in Ids
       PROVE  /\ Increasing(Sendable(j))'
              /\ Placed(Sendable(j), log, StartsAt(j), conns[j].clientDropped)'
              /\ j > opened' => conns'[j].clientDropped = 0
  <2>1. CASE j = i
    <3>1. ~(j > opened')
      BY <1>1, <1>3, <2>1 DEF Ids
    <3>2. conns'[j].clientDropped = 0 /\ Sendable(j)' = opening /\ StartsAt(j)' = published - Len(opening)
      BY <1>4, <1>8, <1>10, <2>1
    <3>3. log' = log
      BY <1>8
    <3> QED
      BY <1>7, <3>1, <3>2, <3>3
  <2>2. CASE j # i
    <3>1. conns'[j] = conns[j] /\ Sendable(j)' = Sendable(j) /\ StartsAt(j)' = StartsAt(j)
      BY <1>8, <2>2 DEF Sendable, OnTheWay, StartsAt
    <3>2. j > opened' => j > opened
      BY <1>1, <1>2 DEF i, Ids
    <3>3. /\ Increasing(Sendable(j)) /\ Placed(Sendable(j), log, StartsAt(j), conns[j].clientDropped)
          /\ j > opened => conns[j].clientDropped = 0
      BY DEF RefinementInv, SendableOK
    <3> QED
      BY <1>8, <3>1, <3>2, <3>3
  <2> QED
    BY <2>1, <2>2
<1>12. conns[i].clientDropped = 0
  BY <1>3 DEF RefinementInv, SendableOK
<1> QED
  BY <1>4, <1>5, <1>8, <1>9, <1>11, <1>12 DEF SendableOK

-----------------------------------------------------------------------------
(* The invariant. *)

LEMMA RefinementStarts == Init => RefinementInv
<1> SUFFICES ASSUME Init PROVE RefinementInv
  OBVIOUS
<1>1. StreamInv
  BY StreamStarts
<1>2. RingOK
  BY LimitsAssumption DEF Init, EmptyRing, RingOK, RingIsTail, LastEvents, Increasing, LimitsAssumption
<1>3. SendableOK
  <2> DEFINE none == << >>
  <2>1. \A i \in Ids : Sendable(i) = none \o (none \o none \o none) /\ conns[i].clientDropped = 0
    BY DEF Init, Sendable, OnTheWay, NewConnection
  <2>2. none \o none = none /\ Len(none) = 0
    BY ConcatEmptySeq
  <2> HIDE DEF none
  <2>3. \A i \in Ids : Len(Sendable(i)) = 0
    BY <2>1, <2>2
  <2> QED
    BY <2>1, <2>3 DEF SendableOK, Increasing, Placed
<1> QED
  BY <1>1, <1>2, <1>3 DEF RefinementInv

LEMMA RefinementStep == RefinementInv /\ [Next]_vars => RefinementInv'
<1> SUFFICES ASSUME RefinementInv, [Next]_vars PROVE RingOK' /\ SendableOK'
  BY StreamStep DEF RefinementInv
<1>1. CASE Forwards
  BY <1>1, ForwardsKeeps
<1>2. ASSUME NEW after \in Afters, Connect(after) PROVE RingOK' /\ SendableOK'
  BY <1>2, ConnectPlaces
<1>3. CASE PublisherTurn /\ handoff.records # << >>
  BY <1>3, PublicationKeeps
<1> QED
  BY <1>1, <1>2, <1>3, StepForwards DEF RefinementInv

LEMMA RefinementInvariant == Spec => []RefinementInv
BY RefinementStarts, RefinementStep, PTL DEF Spec

(* The ring always holds the newest exchanges published, without a hole: what an *)
(* eviction takes out is the oldest, also when several must go for a large one.   *)
THEOREM RingKeepsTheNewest == Spec => []RingIsTail
<1>1. RefinementInv => RingIsTail
  BY DEF RefinementInv, RingOK
<1> QED
  BY <1>1, RefinementInvariant, PTL

(* What is kept is bounded, its counts of bytes are right, and it is the newest. *)
THEOREM BuffersHoldWhatTheyShould == Spec => []BuffersHold
<1>1. BuffersBounded /\ RingIsTail => BuffersHold
  BY DEF BuffersHold
<1> QED
  BY <1>1, BuffersStayBounded, RingKeepsTheNewest, PTL

-----------------------------------------------------------------------------
(* The refinement. *)

Got     == [i \in Ids |-> client[i].got]
Refused == [i \in Ids |-> conns[i].clientDropped]

LEMMA PositionInLog ==
    ASSUME log \in Seq(Exchanges), Increasing(log), NEW p \in 1..Len(log)
    PROVE  Stream!Position(log[p]) = p
<1>1. \A k \in 1..Len(log) : log[k] = log[p] => k = p
  <2> SUFFICES ASSUME NEW k \in 1..Len(log), log[k] = log[p] PROVE k = p
    OBVIOUS
  <2>1. log[k] \in Nat /\ ~(log[k] < log[p]) /\ ~(log[p] < log[k])
    BY Elements
  <2>2. ~(k < p) /\ ~(p < k)
    BY <2>1 DEF Increasing
  <2> QED
    BY <2>2
<1> QED
  BY <1>1 DEF Stream!Position

(* What arrives is the next of what the client can be sent. *)
LEMMA ArrivalDelivers ==
    ASSUME RefinementInv, Forwards, NEW i \in Ids, NEW n \in Exchanges,
           client'[i].got = Append(client[i].got, n),
           \A j \in Ids \ {i} : client'[j].got = client[j].got
    PROVE  Stream!Deliver(i)
<1> DEFINE g     == client[i].got
           h     == client'[i].got
           s     == Sendable(i)
           start == StartsAt(i)
           d     == conns[i].clientDropped
<1>1. /\ g \in Seq(Exchanges) /\ s \in Seq(Exchanges) /\ log \in Seq(Exchanges)
      /\ start \in Int /\ d \in Nat /\ Increasing(log) /\ Increasing(s) /\ Placed(s, log, start, d)
  BY StreamTypes, PlaceTypes DEF RefinementInv, RingOK, SendableOK
<1>2. Begins(g, s) /\ Begins(h, s)
  BY SendableFlow DEF RefinementInv, Forwards
<1>3. h = Append(g, n)
  OBVIOUS
<1> HIDE DEF g, h, s, start, d
<1>4. /\ Len(h) = Len(g) + 1 /\ Len(g) \in Nat /\ Len(h) \in 1..Len(s) /\ h[Len(h)] = n
      /\ \A k \in 1..Len(h) : h[k] = s[k]
      /\ \A k \in 1..Len(g) : g[k] = s[k]
  BY <1>1, <1>2, <1>3, AppendProperties DEF Begins
<1>5. PICK p \in 1..Len(log) : start + Len(h) <= p /\ p <= start + Len(h) + d /\ s[Len(h)] = log[p]
  BY <1>1, <1>4 DEF Placed
<1>6. PICK q \in 1..Len(log) : start + 1 <= q /\ q <= start + 1 + d /\ s[1] = log[q]
  <2>1. 1 \in 1..Len(s)
    BY <1>1, <1>4
  <2> QED
    BY <1>1, <2>1 DEF Placed
<1>7. n = log[p]
  BY <1>4, <1>5
<1>8. g = << >> \/ log[p] > g[Len(g)]
  <2>1. CASE Len(g) = 0
    BY <1>1, <2>1, EmptySeq
  <2>2. CASE Len(g) # 0
    <3>1. Len(g) \in 1..Len(g) /\ Len(g) \in 1..Len(s) /\ Len(h) \in 1..Len(s) /\ Len(g) < Len(h)
      BY <1>1, <1>4, <2>2
    <3>2. s[Len(g)] < s[Len(h)] /\ g[Len(g)] = s[Len(g)]
      BY <1>1, <1>4, <3>1 DEF Increasing
    <3>3. s[Len(g)] \in Nat /\ s[Len(h)] \in Nat
      BY <1>1, <3>1, Elements
    <3> QED
      BY <1>5, <3>2, <3>3
  <2> QED
    BY <2>1, <2>2
<1>9. Stream!Position(h[Len(h)]) = p /\ Stream!Position(h[1]) = q
  <2>1. h[1] = log[q] /\ h[Len(h)] = log[p]
    BY <1>4, <1>6, <1>7
  <2> QED
    BY <1>1, <2>1, PositionInLog
<1>10. Stream!Missed(h) <= d
  <2>1. Stream!Missed(h) = p - q + 1 - Len(h)
    BY <1>9 DEF Stream!Missed, Stream!Last
  <2> QED
    BY <1>1, <1>4, <1>5, <1>6, <2>1
<1>11. Got' = [Got EXCEPT ![i] = Append(@, log[p])]
  <2>1. \A j \in Ids : Got'[j] = IF j = i THEN Append(Got[i], log[p]) ELSE Got[j]
    BY <1>3, <1>7 DEF Got, g, h
  <2> QED
    BY <2>1 DEF Got
<1>12. log' = log /\ Refused' = Refused
  BY DEF Forwards, Refused
<1>13. Got[i] = g /\ Got'[i] = h /\ Refused[i] = d
  BY DEF Got, Refused, g, h, d
<1>14. Got[i] = << >> \/ log[p] > Stream!Last(Got[i])
  BY <1>8, <1>13 DEF Stream!Last
<1>15. Stream!Missed(Got'[i]) <= Refused[i]
  BY <1>10, <1>13
<1> QED
  BY <1>11, <1>12, <1>14, <1>15 DEF Stream!Deliver, Got, Refused

LEMMA PublicationPublishes ==
    ASSUME RefinementInv, PublisherTurn, handoff.records # << >>
    PROVE  Stream!Publish
<1>1. PICK n \in Exchanges : log' = Append(log, n) /\ \A k \in 1..Len(log) : log[k] < n
  BY PublicationKeeps
<1>2. /\ Got' = Got /\ log \in Seq(Exchanges)
      /\ \A j \in Ids : /\ conns[j].clientDropped \in Nat
                        /\ conns'[j].clientDropped \in {conns[j].clientDropped, conns[j].clientDropped + 1}
  BY PublicationKeeps, PlaceTypes, StreamTypes DEF Got, RefinementInv
<1>3. log = << >> \/ n > Stream!Last(log)
  <2>1. CASE Len(log) = 0
    BY <1>2, <2>1, EmptySeq
  <2>2. CASE Len(log) # 0
    <3>1. Len(log) \in 1..Len(log) /\ log[Len(log)] \in Nat /\ n \in Nat
      BY <1>2, <2>2, Elements DEF Exchanges
    <3> QED
      BY <1>1, <3>1 DEF Stream!Last
  <2> QED
    BY <2>1, <2>2
<1> DEFINE over == {j \in Ids : conns'[j].clientDropped # conns[j].clientDropped}
<1>4. Refused' = [j \in Ids |-> Refused[j] + (IF j \in over THEN 1 ELSE 0)]
  BY <1>2 DEF Refused
<1>5. over \in SUBSET Ids
  OBVIOUS
<1> HIDE DEF over
<1> QED
  BY <1>1, <1>2, <1>3, <1>4, <1>5 DEF Stream!Publish, Got, Refused

LEMMA StreamBegins == Init => Stream!Init
BY DEF Init, Stream!Init, NewConnection

LEMMA StreamGoesOn ==
    ASSUME RefinementInv, [Next]_vars
    PROVE  Stream!Next \/ UNCHANGED <<log, Got, Refused>>
<1>1. CASE Forwards
  <2>1. log' = log /\ Refused' = Refused
    BY <1>1 DEF Forwards, Refused
  <2>2. CASE \A j \in Ids : client'[j].got = client[j].got
    BY <2>1, <2>2 DEF Got
  <2>3. ASSUME NEW i \in Ids, Arrives(client'[i].got, client[i].got),
               \A j \in Ids \ {i} : client'[j].got = client[j].got
        PROVE  Stream!Next \/ UNCHANGED <<log, Got, Refused>>
    <3>1. CASE client'[i].got = client[i].got
      BY <2>1, <2>3, <3>1 DEF Got
    <3>2. ASSUME NEW n \in Exchanges, client'[i].got = Append(client[i].got, n) PROVE Stream!Next
      BY <1>1, <2>3, <3>2, ArrivalDelivers DEF Stream!Next
    <3> QED
      BY <2>3, <3>1, <3>2 DEF Arrives
  <2> QED
    BY <1>1, <2>2, <2>3 DEF Forwards
<1>2. ASSUME NEW after \in Afters, Connect(after) PROVE UNCHANGED <<log, Got, Refused>>
  <2>1. log' = log
    BY <1>2 DEF Connect, stream
  <2> QED
    BY <1>2, <2>1, ConnectPlaces DEF Got, Refused
<1>3. CASE PublisherTurn /\ handoff.records # << >>
  BY <1>3, PublicationPublishes DEF Stream!Next
<1> QED
  BY <1>1, <1>2, <1>3, StepForwards DEF RefinementInv

(* The observer implements the stream every client is promised: whatever a      *)
(* client receives is published, in order and once, and from its first exchange  *)
(* to its last it misses at most as many as its queue refused and counted.        *)
THEOREM ObserverImplementsStream == Spec => ImplementsStream
<1>1. RefinementInv /\ [Next]_vars => [Stream!Next]_<<log, Got, Refused>>
  BY StreamGoesOn
<1> QED
  BY <1>1, StreamBegins, RefinementInvariant, PTL DEF Spec, ImplementsStream, Stream!Spec, Got, Refused

-----------------------------------------------------------------------------
(* Resuming after an exchange. *)

(* A set of positions that with each holds the ones after it is a last stretch. *)
LEMMA LastStretch ==
    ASSUME NEW m \in Nat, NEW T \in SUBSET (1..m), \A k \in T : \A j \in k..m : j \in T
    PROVE  Cardinality(T) \in 0..m /\ T = m - Cardinality(T) + 1 .. m
<1>1. CASE T = {}
  <2>1. Cardinality(T) = 0 /\ (m - 0 + 1 .. m) = {}
    BY <1>1, FS_EmptySet
  <2> QED
    BY <1>1, <2>1
<1>2. CASE T # {}
  <2>1. PICK h \in T : h - 1 \notin T
    <3> SUFFICES ASSUME \A k \in T : k - 1 \in T
                 PROVE  FALSE
      OBVIOUS
    <3> DEFINE N == {n \in Nat : m - n \in T}
    <3>1. m \in T
      <4>1. PICK k \in T : TRUE
        BY <1>2
      <4>2. k \in 1..m /\ m \in k..m
        BY <4>1
      <4> QED
        BY <4>2
    <3>2. N \in SUBSET Nat /\ 0 \in N /\ \A n \in N : n + 1 \in N
      <4>1. \A n \in Nat : m - (n + 1) = (m - n) - 1
        OBVIOUS
      <4> QED
        BY <3>1, <4>1
    <3> HIDE DEF N
    <3>3. \A n \in Nat : n \in N
      BY <3>2, NatSetInduction
    <3>4. m - m \in T
      BY <3>3 DEF N
    <3> QED
      BY <3>4
  <2>2. T = h..m
    <3>1. ASSUME NEW k \in T, k < h
          PROVE  FALSE
      <4>1. h - 1 \in k..m
        BY <3>1
      <4> QED
        BY <2>1, <4>1
    <3>2. T \subseteq h..m
      BY <3>1
    <3>3. \A j \in h..m : j \in T
      BY <2>1
    <3> QED
      BY <3>2, <3>3
  <2>3. Cardinality(h..m) = m - h + 1
    <3>1. h \in Int /\ m \in Int /\ h <= m
      OBVIOUS
    <3>2. Cardinality(h..m) = IF h > m THEN 0 ELSE m - h + 1
      BY <3>1, FS_Interval
    <3> QED
      BY <3>1, <3>2
  <2>4. m - (m - h + 1) + 1 = h /\ m - h + 1 \in 0..m
    OBVIOUS
  <2> QED
    BY <2>2, <2>3, <2>4
<1> QED
  BY <1>1, <1>2

(* The elements of the end of an ordered sequence that are after a number. *)
LEMMA NewerIsTail ==
    ASSUME NEW s \in Seq(Exchanges), Increasing(s), NEW after \in Nat
    PROVE  LET c == Cardinality({k \in DOMAIN s : s[k] > after})
           IN  c \in 0..Len(s) /\ ToSet(LastEvents(s, c)) = {n \in ToSet(s) : n > after}
<1> DEFINE T == {k \in DOMAIN s : s[k] > after}
           c == Cardinality(T)
           m == Len(s)
           t == LastEvents(s, c)
<1>1. m \in Nat /\ DOMAIN s = 1..m /\ \A k \in 1..m : s[k] \in Nat
  <2>1. Len(s) \in Nat /\ DOMAIN s = 1..Len(s) /\ \A k \in 1..Len(s) : s[k] \in Nat
    BY Elements
  <2> QED
    BY <2>1
<1>0. m = Len(s)
  OBVIOUS
<1> HIDE DEF m
<1>2. T \in SUBSET (1..m) /\ \A k \in T : \A j \in k..m : j \in T
  <2>1. ASSUME NEW k \in T, NEW j \in k..m
        PROVE  j \in 1..m /\ s[j] > after
    <3>1. k \in 1..m /\ s[k] > after /\ j \in 1..m
      BY <1>1
    <3>2. k < j => s[k] < s[j]
      BY <1>0, <3>1 DEF Increasing
    <3> QED
      BY <1>1, <3>1, <3>2
  <2> QED
    BY <1>1, <2>1
<1> HIDE DEF T
<1>3. c \in 0..m /\ T = m - c + 1 .. m
  BY <1>1, <1>2, LastStretch
<1> HIDE DEF c
<1>4. t \in Seq(Exchanges) /\ Len(t) = c /\ \A j \in 1..c : t[j] = s[m - c + j]
  BY <1>0, <1>3, EndOf
<1> HIDE DEF t
<1>5. ToSet(t) = {t[j] : j \in 1..c} /\ ToSet(s) = {s[k] : k \in 1..m}
  <2>1. DOMAIN t = 1..c
    BY <1>4
  <2> QED
    BY <1>1, <2>1 DEF ToSet
<1>6. ASSUME NEW n \in ToSet(t)
      PROVE  n \in ToSet(s) /\ n > after
  <2>1. PICK j \in 1..c : n = t[j]
    BY <1>5
  <2>2. m - c + j \in T /\ n = s[m - c + j]
    BY <1>1, <1>3, <1>4, <2>1
  <2> QED
    BY <1>1, <1>5, <2>2 DEF T
<1>7. ASSUME NEW n \in ToSet(s), n > after
      PROVE  n \in ToSet(t)
  <2>1. PICK k \in 1..m : n = s[k]
    BY <1>5
  <2>2. k \in T
    BY <1>1, <1>7, <2>1 DEF T
  <2>3. k - (m - c) \in 1..c /\ m - c + (k - (m - c)) = k
    BY <1>1, <1>3, <2>2
  <2>4. t[k - (m - c)] = n
    BY <1>4, <2>1, <2>3
  <2> QED
    BY <1>5, <2>3, <2>4
<1>8. ToSet(t) = {n \in ToSet(s) : n > after}
  BY <1>6, <1>7
<1> QED
  BY <1>3, <1>8 DEF t, c, T, m

(* What a ring answers to a number, when it holds the end of a log. *)
LEMMA AnswerOfRing ==
    ASSUME NEW r, NEW s \in Seq(Exchanges), r.events = s, NEW source \in Seq(Exchanges),
           NEW m \in 0..Len(source), s = LastEvents(source, m), m <= HistoryMaxEvents,
           source # << >> => s # << >>, Increasing(s), Increasing(source),
           NEW top \in Nat, AtMost(s, top), NEW after \in Nat, NEW given, given = Since(r, after)
    PROVE  IF Gap(r, after)
           THEN \E n \in 1..top : n > after /\ n \notin ToSet(given) /\ n < given[1]
           ELSE ToSet(given) = {n \in ToSet(source) : n > after} /\ Increasing(given)
<1> DEFINE c == Cardinality({k \in DOMAIN s : s[k] > after})
<1>1. /\ Len(s) = m /\ m \in Nat /\ Len(source) \in Nat /\ after \in Nat \cup {NoAfter} /\ after # NoAfter
      /\ \A j \in 1..m : s[j] = source[Len(source) - m + j]
      /\ \A j \in 1..m : s[j] \in Nat /\ s[j] <= top
      /\ \A p \in 1..Len(source) : source[p] \in Nat
      /\ ToSet(s) = {s[k] : k \in 1..m} /\ ToSet(source) = {source[k] : k \in 1..Len(source)}
  <2>1. Len(s) = m /\ \A j \in 1..m : s[j] = source[Len(source) - m + j]
    BY EndOf
  <2>2. DOMAIN s = 1..m /\ DOMAIN source = 1..Len(source)
    BY <2>1
  <2>3. \A j \in 1..m : s[j] \in Nat /\ s[j] <= top
    BY <2>1, Elements DEF AtMost
  <2>4. \A p \in 1..Len(source) : source[p] \in Nat
    BY Elements
  <2> QED
    BY <2>1, <2>2, <2>3, <2>4 DEF ToSet, NoAfter
<1>2. given = LastEvents(s, c) /\ c \in 0..m /\ ToSet(LastEvents(s, c)) = {n \in ToSet(s) : n > after}
  <2>1. given = LastEvents(s, c)
    BY SMTT(30), <1>1, SinceIsNewer
  <2>2. c \in 0..Len(s) /\ ToSet(LastEvents(s, c)) = {n \in ToSet(s) : n > after}
    BY NewerIsTail
  <2> QED
    BY <1>1, <2>1, <2>2
<1> HIDE DEF c
<1>3. ToSet(given) = {n \in ToSet(s) : n > after} /\ given \in Seq(Exchanges)
  BY <1>1, <1>2, EndOf
<1>4. Increasing(given)
  BY <1>1, SinceOrder
<1>5. CASE Gap(r, after)
  <2>1. s # << >> /\ after < Head(s) - 1
    BY <1>5 DEF Gap, OldestSeq
  <2>2. m # 0 /\ 1 \in 1..m /\ Head(s) = s[1]
    BY <1>1, <2>1
  <2>3. PICK n \in Nat : n = s[1] - 1 /\ n > after /\ n \in 1..top
    BY <1>1, <2>1, <2>2
  <2>4. \A x \in ToSet(s) : x >= s[1] /\ x \in Nat
    <3>1. \A k \in 1..m : s[k] \in Nat /\ s[k] >= s[1]
      BY <1>1, <2>2 DEF Increasing
    <3> QED
      BY <1>1, <3>1
  <2>5. n \notin ToSet(given)
    <3>1. s[1] \in Nat /\ ~(n >= s[1])
      BY <1>1, <2>2, <2>3
    <3> QED
      BY <1>3, <2>4, <3>1
  <2>6. n < given[1]
    <3>1. s[1] \in ToSet(s) /\ s[1] > after
      BY <1>1, <2>2, <2>3
    <3>2. s[1] \in ToSet(given) /\ ToSet(given) = {given[k] : k \in 1..Len(given)}
      <4>1. DOMAIN given = 1..Len(given)
        BY <1>3
      <4> QED
        BY <1>3, <3>1, <4>1 DEF ToSet
    <3>3. Len(given) \in Nat /\ 1 \in 1..Len(given)
      BY <1>3, <3>2
    <3>4. given[1] \in ToSet(s)
      BY <1>3, <3>2, <3>3
    <3>5. s[1] \in Nat /\ given[1] >= s[1] /\ given[1] \in Nat
      BY <1>1, <2>2, <2>4, <3>4
    <3> QED
      BY <2>3, <3>5
  <2> QED
    BY <1>5, <2>3, <2>5, <2>6
<1>6. CASE ~Gap(r, after)
  <2>1. ASSUME NEW p \in 1..Len(source), source[p] > after
        PROVE  source[p] \in ToSet(s)
    <3>1. source # << >> /\ s # << >>
      BY <1>1
    <3>2. m # 0 /\ ~(after < s[1] - 1)
      BY <1>1, <1>6, <3>1 DEF Gap, OldestSeq
    <3>3. CASE p > Len(source) - m
      <4>0. PICK l \in Nat : l = Len(source) /\ p \in 1..l /\ m \in 0..l /\ p > l - m
        BY <1>1, <3>3
      <4>1. PICK j \in 1..m : j = p - (l - m)
        <5>1. \A x, y, z \in Int : x <= y /\ x > y - z => x - (y - z) \in 1..z
          OBVIOUS
        <5>2. p \in Int /\ m \in Int /\ p <= l
          BY <4>0
        <5>3. p - (l - m) \in 1..m
          BY <4>0, <5>1, <5>2
        <5> QED
          BY <5>3
      <4>2. Len(source) - m + j = p
        BY <4>0, <4>1
      <4>3. s[j] = source[p]
        BY <1>1, <4>2
      <4> QED
        BY <1>1, <4>3
    <3>4. CASE p <= Len(source) - m
      <4>1. PICK f \in 1..Len(source) : f = Len(source) - m + 1 /\ p < f
        BY <1>1, <3>2, <3>4
      <4>2. source[p] < source[f] /\ s[1] = source[f]
        BY <1>1, <3>2, <4>1 DEF Increasing
      <4>3. source[p] \in Nat /\ s[1] \in Nat
        BY <1>1, <3>2
      <4> QED
        BY <2>1, <3>2, <4>2, <4>3
    <3> QED
      BY <1>1, <3>3, <3>4
  <2>2. \A n \in ToSet(s) : n \in ToSet(source)
    <3>1. \A j \in 1..m : s[j] = source[Len(source) - m + j] /\ Len(source) - m + j \in 1..Len(source)
      BY <1>1
    <3> QED
      BY <1>1, <3>1
  <2>3. \A n \in ToSet(source) : n > after => n \in ToSet(s)
    BY <1>1, <2>1
  <2>4. ToSet(given) = {n \in ToSet(source) : n > after}
    BY <1>3, <2>2, <2>3
  <2> QED
    BY <1>4, <1>6, <2>4
<1> QED
  BY <1>5, <1>6

(* What a client that resumes is told is true when it is told. *)
LEMMA AnswerIsHonest ==
    ASSUME RefinementInv, NEW after \in Nat, NEW given, given = Since(ring, after)
    PROVE  IF Gap(ring, after)
           THEN \E n \in 1..issued : n > after /\ n \notin ToSet(given) /\ n < given[1]
           ELSE ToSet(given) = {n \in ToSet(log) : n > after} /\ Increasing(given)
<1>1. /\ ring.events \in Seq(Exchanges) /\ log \in Seq(Exchanges) /\ issued \in Nat /\ ring.lastSeq \in Nat
      /\ AtMost(ring.events, ring.lastSeq) /\ ring.lastSeq <= issued /\ Increasing(ring.events)
  BY StreamTypes DEF RefinementInv, StreamInv, SourceOK
<1>2. AtMost(ring.events, issued)
  <2>1. \A k \in 1..Len(ring.events) : ring.events[k] \in Nat
    BY <1>1, Elements
  <2> QED
    BY <1>1, <2>1 DEF AtMost
<1>3. /\ Increasing(log) /\ Len(ring.events) \in 0..Len(log) /\ Len(ring.events) <= HistoryMaxEvents
      /\ ring.events = LastEvents(log, Len(ring.events)) /\ (log # << >> => ring.events # << >>)
  BY DEF RefinementInv, RingOK, RingIsTail
<1> QED
  BY <1>1, <1>2, <1>3, AnswerOfRing

(* What the answer to client i was, as ResumeIsHonest has it. *)
HonestTo(i) ==
    client[i].after # NoAfter =>
        LET before == SubSeq(log, 1, conns[i].publishedAtOpen)
            given  == client[i].opening
        IN  IF client[i].gap
            THEN \E n \in 1..issued : n > client[i].after /\ n \notin ToSet(given) /\ n < given[1]
            ELSE /\ ToSet(given) = {n \in ToSet(before) : n > client[i].after}
                 /\ Increasing(given)

ResumeInv ==
    /\ RefinementInv
    /\ \A i \in 1..opened : conns[i].publishedAtOpen \in 0..Len(log) /\ HonestTo(i)

(* Nothing but a connect asks a question or answers it. *)
LEMMA AnswersStay ==
    ASSUME StreamInv, [Next]_vars, ~\E after \in Afters : Connect(after)
    PROVE  /\ issued \in Nat /\ issued' \in Nat /\ issued <= issued'
           /\ \A j \in Ids : client'[j].after = client[j].after /\ client'[j].gap = client[j].gap
<1>0. issued \in Nat /\ client \in [Ids -> ClientViews]
  BY StreamTypes
<1>1. CASE Dispatch
  BY <1>0, <1>1 DEF Dispatch
<1>2. ASSUME UNCHANGED <<issued, client>>
      PROVE  /\ issued' \in Nat /\ issued <= issued'
             /\ \A j \in Ids : client'[j].after = client[j].after /\ client'[j].gap = client[j].gap
  BY <1>0, <1>2
<1>3. CASE \/ PublisherTurn \/ RefuseClient \/ Stats \/ SnapshotFails \/ Tick \/ UNCHANGED vars
           \/ \E i \in Ids : Disconnect(i)
           \/ \E version \in {feed.last, feed.last + 1} : SnapshotTaken(version)
  <2>1. UNCHANGED <<issued, client>>
    BY <1>3 DEF PublisherTurn, RefuseClient, Stats, SnapshotFails, Tick, vars, Disconnect, SnapshotTaken, stream
  <2> QED
    BY <1>0, <1>2, <2>1
<1>4. ASSUME NEW i \in Ids, WriterStep(i)
      PROVE  /\ issued' \in Nat /\ issued <= issued'
             /\ \A j \in Ids : client'[j].after = client[j].after /\ client'[j].gap = client[j].gap
  <2>1. CASE SendReturns(i) \/ SendRaises(i) \/ CancelWriter(i)
    <3>1. issued' = issued /\ client' \in {client, [client EXCEPT ![i] = Reached(i)]}
      BY <2>1 DEF SendReturns, SendRaises, CancelWriter, stream
    <3>2. Reached(i).after = client[i].after /\ Reached(i).gap = client[i].gap
      BY <1>0 DEF Reached, ClientViews
    <3> HIDE DEF Reached
    <3> QED
      BY <1>0, <3>1, <3>2
  <2>2. CASE StartWriter(i) \/ PrepareFails(i) \/ SendRefused(i) \/ WriterEnded(i) \/ WriterWakes(i)
    <3>1. UNCHANGED <<issued, client>>
      BY <2>2 DEF StartWriter, PrepareFails, SendRefused, WriterEnded, WriterWakes, stream
    <3> QED
      BY <1>0, <1>2, <3>1
  <2> QED
    BY <1>4, <2>1, <2>2 DEF WriterStep
<1> QED
  BY <1>0, <1>1, <1>3, <1>4 DEF Next

(* An answer given stays true, as the log only grows. *)
LEMMA HonestStays ==
    ASSUME StreamInv, [Next]_vars, ~\E after \in Afters : Connect(after), NEW i \in Ids,
           conns[i].publishedAtOpen \in 0..Len(log), HonestTo(i),
           conns'[i].publishedAtOpen = conns[i].publishedAtOpen,
           client'[i].opening = client[i].opening, log' = log \/ \E n \in Exchanges : log' = Append(log, n)
    PROVE  conns'[i].publishedAtOpen \in 0..Len(log') /\ HonestTo(i)'
<1> DEFINE p == conns[i].publishedAtOpen
           before == SubSeq(log, 1, p)
<1>1. /\ issued \in Nat /\ issued' \in Nat /\ issued <= issued' /\ log \in Seq(Exchanges)
      /\ client'[i].after = client[i].after /\ client'[i].gap = client[i].gap
  BY AnswersStay, StreamTypes
<1>2. p \in 0..Len(log') /\ SubSeq(log', 1, p) = before
  <2>0. p \in 0..Len(log)
    OBVIOUS
  <2> HIDE DEF p
  <2>1. CASE log' = log
    BY <2>0, <2>1
  <2>2. ASSUME NEW n \in Exchanges, log' = Append(log, n)
        PROVE  p \in 0..Len(log') /\ SubSeq(log', 1, p) = SubSeq(log, 1, p)
    BY <1>1, <2>0, <2>2
  <2> QED
    BY <2>1, <2>2
<1>3. conns'[i].publishedAtOpen = p
  OBVIOUS
<1>4. \A n \in 1..issued : n \in 1..issued'
  BY <1>1
<1>5. HonestTo(i)'
  <2>1. client[i].after # NoAfter =>
            IF client[i].gap
            THEN \E n \in 1..issued : n > client[i].after /\ n \notin ToSet(client[i].opening) /\ n < client[i].opening[1]
            ELSE /\ ToSet(client[i].opening) = {n \in ToSet(before) : n > client[i].after}
                 /\ Increasing(client[i].opening)
    BY DEF HonestTo
  <2>2. SubSeq(log', 1, conns'[i].publishedAtOpen) = before
    BY <1>2, <1>3
  <2> HIDE DEF before, p
  <2> QED
    BY <1>1, <1>4, <2>1, <2>2 DEF HonestTo
<1> QED
  BY <1>2, <1>3, <1>5

LEMMA ConnectIsHonest ==
    ASSUME ResumeInv, NEW after \in Afters, Connect(after)
    PROVE  \A j \in 1..opened' : conns'[j].publishedAtOpen \in 0..Len(log') /\ HonestTo(j)'
<1>1. /\ opened \in Nat /\ conns \in [Ids -> Connections] /\ client \in [Ids -> ClientViews]
      /\ Len(log) = published /\ published \in Nat /\ log \in Seq(Exchanges)
      /\ \A i \in 1..opened : i \in Ids
  BY StreamTypes DEF ResumeInv, RefinementInv, StreamInv, SourceOK
<1>2. PICK i \in Ids : i = opened + 1
  BY <1>1, ObserverAssumption DEF Connect, Ids, ObserverAssumption
<1> DEFINE opening == Since(ring, after)
           fresh   == NewConnection(ring.lastSeq, published, Len(opening))
           d       == SetState(fresh, feed.last)
           v       == [client[i] EXCEPT !.after = after, !.gap = Gap(ring, after), !.opening = opening]
<1>3. /\ opened' = i /\ conns' = [conns EXCEPT ![i] = d] /\ client' = [client EXCEPT ![i] = v]
      /\ UNCHANGED stream
  BY <1>2 DEF Connect
<1>4. d.publishedAtOpen = published
  <2> HIDE DEF opening
  <2>1. fresh.closeCode = NotClosed
    BY DEF NewConnection
  <2>2. d = [fresh EXCEPT !.state = feed.last, !.changed = TRUE]
    BY <2>1 DEF SetState, Closed
  <2> QED
    BY <2>2 DEF NewConnection
<1>5. v.after = after /\ v.gap = Gap(ring, after) /\ v.opening = opening
  <2>1. client[i] \in ClientViews
    BY <1>1
  <2> HIDE DEF opening
  <2> QED
    BY <2>1 DEF ClientViews
<1>6. after # NoAfter =>
          IF Gap(ring, after)
          THEN \E n \in 1..issued : n > after /\ n \notin ToSet(opening) /\ n < opening[1]
          ELSE ToSet(opening) = {n \in ToSet(log) : n > after} /\ Increasing(opening)
  <2> SUFFICES ASSUME after # NoAfter PROVE after \in Nat
    <3> HIDE DEF opening
    <3>1. after # NoAfter /\ after \in Nat =>
              IF Gap(ring, after)
              THEN \E n \in 1..issued : n > after /\ n \notin ToSet(opening) /\ n < opening[1]
              ELSE ToSet(opening) = {n \in ToSet(log) : n > after} /\ Increasing(opening)
      BY AnswerIsHonest DEF ResumeInv, opening
    <3> QED
      BY <3>1
  <2> QED
    BY ObserverAssumption DEF ObserverAssumption
<1> HIDE DEF d, v, opening
<1>7. /\ conns'[i] = d /\ client'[i] = v /\ log' = log /\ issued' = issued
      /\ \A j \in Ids \ {i} : conns'[j] = conns[j] /\ client'[j] = client[j]
  BY <1>1, <1>3 DEF stream
<1>8. conns'[i].publishedAtOpen \in 0..Len(log')
  BY <1>1, <1>4, <1>7
<1>9. HonestTo(i)'
  <2>1. SubSeq(log, 1, published) = log
    BY <1>1, SubSeqFull
  <2>2. SubSeq(log', 1, conns'[i].publishedAtOpen) = log
    BY <1>4, <1>7, <2>1
  <2> QED
    BY <1>5, <1>6, <1>7, <2>2 DEF HonestTo
<1>10. ASSUME NEW j \in 1..opened
       PROVE  conns'[j].publishedAtOpen \in 0..Len(log') /\ HonestTo(j)'
  <2>1. j \in Ids /\ j # i /\ conns[j].publishedAtOpen \in 0..Len(log) /\ HonestTo(j)
    BY <1>1, <1>2 DEF ResumeInv
  <2>2. conns'[j] = conns[j] /\ client'[j] = client[j]
    BY <1>7, <2>1
  <2> QED
    BY <1>7, <2>1, <2>2 DEF HonestTo
<1>11. \A j \in 1..opened' : j \in 1..opened \/ j = i
  BY <1>1, <1>2, <1>3
<1> QED
  BY <1>8, <1>9, <1>10, <1>11

LEMMA ResumeStep == ResumeInv /\ [Next]_vars => ResumeInv'
<1> SUFFICES ASSUME ResumeInv, [Next]_vars PROVE ResumeInv'
  OBVIOUS
<1>1. RefinementInv /\ RefinementInv' /\ StreamInv
  BY RefinementStep DEF ResumeInv, RefinementInv
<1>2. CASE \E after \in Afters : Connect(after)
  BY <1>1, <1>2, ConnectIsHonest DEF ResumeInv
<1>3. CASE ~\E after \in Afters : Connect(after)
  <2>1. ASSUME NEW j \in Ids
        PROVE  conns'[j].publishedAtOpen = conns[j].publishedAtOpen /\ client'[j].opening = client[j].opening
    BY <1>1, <1>3, StepForwards, PublicationKeeps DEF Forwards
  <2>2. opened' = opened /\ (log' = log \/ \E n \in Exchanges : log' = Append(log, n))
    <3>1. CASE Forwards
      BY <3>1 DEF Forwards
    <3>2. CASE PublisherTurn /\ handoff.records # << >>
      BY <1>1, <3>2, PublicationKeeps DEF PublisherTurn
    <3> QED
      BY <1>1, <1>3, <3>1, <3>2, StepForwards
  <2>3. ASSUME NEW j \in 1..opened'
        PROVE  conns'[j].publishedAtOpen \in 0..Len(log') /\ HonestTo(j)'
    <3>1. j \in Ids /\ conns[j].publishedAtOpen \in 0..Len(log) /\ HonestTo(j)
      BY <1>1, <2>2, StreamTypes DEF ResumeInv
    <3> QED
      BY <1>1, <1>3, <2>1, <2>2, <3>1, HonestStays
  <2> QED
    BY <1>1, <2>3 DEF ResumeInv
<1> QED
  BY <1>2, <1>3

(* Resuming after an exchange: without a gap the history is every exchange        *)
(* published after it, in order, as the ring holds the end of what was published; *)
(* with one, the exchange before the oldest held is lost to the client for good.  *)
THEOREM ResumesAreHonest == Spec => []ResumeIsHonest
<1>1. Init => ResumeInv
  <2>1. Init => \A i \in 1..opened : FALSE
    BY DEF Init
  <2> QED
    BY <2>1, RefinementStarts DEF ResumeInv
<1>2. ResumeInv => ResumeIsHonest
  BY DEF ResumeInv, HonestTo, ResumeIsHonest
<1> QED
  BY <1>1, <1>2, ResumeStep, PTL DEF Spec
=============================================================================
