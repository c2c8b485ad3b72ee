-------------------------------- MODULE History --------------------------------
(***************************************************************************)
(* observe/history.py: HistoryRing, the last published exchanges, bounded  *)
(* by their number and by their encoded bytes.  The ring is a record and   *)
(* its methods are operators on it.                                        *)
(***************************************************************************)
EXTENDS Limits, SequencesExt

NoAfter == -1      \* since(None)

(* What a sequence of exchanges amounts to, and its encoded bytes. *)
Total(size, events) == SumFunction([k \in DOMAIN events |-> size[events[k]]])
Bytes(events) == Total(TextSize, events)

EmptyRing == [events |-> << >>, bytes |-> 0, lastSeq |-> 0]

LastEvents(events, k) == SubSeq(events, Len(events) - k + 1, Len(events))

OldestSeq(ring) == Head(ring.events)    \* of a ring that is not empty

(* Mutant of RingAdd: evicts the newest events, not the oldest. *)
RingAddEvictsNewest(ring, n) ==
    LET all  == Append(ring.events, n)
        kept == SubSeq(all, 1, Min({Len(all), HistoryMaxEvents}))
    IN  [events |-> kept, bytes |-> Bytes(kept), lastSeq |-> n]

(* add: append, then evict from the front while the ring is over a bound; the *)
(* byte bound alone never evicts the newest event.  A tail that is over a     *)
(* bound makes every longer one so: as many events stay as there are tails    *)
(* that fit.                                                                  *)
RingAdd(ring, n) ==
    LET all       == Append(ring.events, n)
        bytes(k)  == ring.bytes + TextSize[n] - Bytes(SubSeq(all, 1, Len(all) - k))
        over(k)   == k > HistoryMaxEvents \/ (bytes(k) > HistoryMaxBytes /\ k > 1)
        kept      == Cardinality({k \in 1..Len(all) : ~over(k)})
    IN  [events |-> LastEvents(all, kept), bytes |-> bytes(kept), lastSeq |-> n]

(* since: the events after a sequence number, at most ExchangesMaxLimit and *)
(* oldest first, or the most recent ones when none is given.  The ring is in *)
(* order, so the events after a sequence number are its last ones.            *)
Since(ring, after) ==
    LET later == LastEvents(ring.events, Cardinality({k \in DOMAIN ring.events : ring.events[k] > after}))
    IN  IF after = NoAfter
        THEN LastEvents(ring.events, Min({ExchangesMaxLimit, Len(ring.events)}))
        ELSE SubSeq(later, 1, Min({ExchangesMaxLimit, Len(later)}))

(* Mutant of Gap: one off, so a client that missed nothing is told of a gap. *)
GapOneEarly(ring, after) ==
    after # NoAfter /\ ring.events # << >> /\ after < OldestSeq(ring)

(* Some exchange after the one the client names is no longer held. *)
Gap(ring, after) ==
    /\ after # NoAfter
    /\ ring.events # << >>
    /\ after < OldestSeq(ring) - 1
=============================================================================
