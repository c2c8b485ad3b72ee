---------------------------- MODULE TransportProofs ----------------------------
(***************************************************************************)
(* The callbacks of the transport, for any endpoints and any routing of     *)
(* their replies: the event loop calls a socket's writer exactly while      *)
(* replies wait for it, nothing is left behind by a failed start or a stop,  *)
(* every reply is in one place, and replies leave in order.                 *)
(*                                                                          *)
(* For the last two the argument is about positions.  A reply is new when it *)
(* is handed over, so what is lost from one queue was never in another, and  *)
(* a queue is always the end of what was handed to its socket, so what the   *)
(* writer takes from its head are the next places after those settled.       *)
(***************************************************************************)
EXTENDS Transport, FiniteSetTheorems, TLAPS

(* The inductive invariant.  A callback can only run on a socket that is open, *)
(* so a reply is never queued by a transport that has stopped.                 *)
TransportIInv == QueueTypes /\ WriterFollowsQueue /\ NothingLeftBehind

LEMMA NamesOfEndpoints == Via \in [Names -> Names] /\ Receiving \subseteq Names
BY TransportAssumption

LEMMA InitIsRight == Init => TransportIInv
<1> SUFFICES ASSUME Init PROVE TransportIInv
  OBVIOUS
<1>1. << >> \in Seq(Replies)
  OBVIOUS
<1>2. pending \in [Names -> Seq(Replies)] /\ issued \in [Names -> Seq(Replies)]
  BY <1>1 DEF Init
<1>3. starts \in 0..MaxStarts
  BY TransportAssumption DEF Init
<1>4. QueueTypes
  BY <1>2, <1>3 DEF Init, QueueTypes
<1>5. WriterFollowsQueue /\ NothingLeftBehind
  BY DEF Init, WriterFollowsQueue, NothingLeftBehind
<1> QED
  BY <1>4, <1>5 DEF TransportIInv

LEMMA StutterKeeps == TransportIInv /\ UNCHANGED vars => TransportIInv'
BY DEF TransportIInv, QueueTypes, WriterFollowsQueue, NothingLeftBehind, vars

LEMMA EnvironmentFailsKeeps == TransportIInv /\ EnvironmentFails => TransportIInv'
BY TransportAssumption
   DEF TransportIInv, QueueTypes, WriterFollowsQueue, NothingLeftBehind, EnvironmentFails, history

(* Whichever socket could not be opened, those before it are closed again. *)
LEMMA OpenFailsKeeps == TransportIInv /\ OpenFails => TransportIInv'
BY TransportAssumption
   DEF TransportIInv, QueueTypes, WriterFollowsQueue, NothingLeftBehind, OpenFails, Rollback,
       AfterOpenFailed, history

LEMMA StartKeeps == TransportIInv /\ Start => TransportIInv'
BY TransportAssumption
   DEF TransportIInv, QueueTypes, WriterFollowsQueue, NothingLeftBehind, Start, history

(* stop removes the writers it believes armed, which are all that there are. *)
LEMMA StopKeeps == TransportIInv /\ Stop => TransportIInv'
<1> SUFFICES ASSUME TransportIInv, Stop
             PROVE  TransportIInv'
  OBVIOUS
<1> USE DEF TransportIInv
<1>1. writers' = {}
  BY DEF QueueTypes, WriterFollowsQueue, Stop, WritersAfterStop
<1>2. readers' = {}
  BY DEF QueueTypes, Stop
<1>3. lost' \subseteq Replies
  <2>1. ASSUME NEW e \in Names PROVE Range(pending[e]) \subseteq Replies
    BY DEF QueueTypes, Range
  <2> QED
    BY <2>1 DEF QueueTypes, Stop
<1>4. QueueTypes'
  <2>1. << >> \in Seq(Replies)
    OBVIOUS
  <2>2. pending' \in [Names -> Seq(Replies)] /\ armed' \in [Names -> BOOLEAN]
    BY <2>1 DEF Stop
  <2>3. open' = {} /\ running' = FALSE /\ issued' = issued /\ starts' = starts
    BY DEF Stop
  <2> QED
    BY <1>1, <1>2, <1>3, <2>2, <2>3 DEF QueueTypes
<1>5. WriterFollowsQueue'
  BY <1>1 DEF WriterFollowsQueue, Stop
<1>6. NothingLeftBehind'
  BY <1>1, <1>2 DEF NothingLeftBehind, Stop
<1> QED
  BY <1>4, <1>5, <1>6

(* _send on one socket: it is armed if and only if the reply had to wait. *)
LEMMA SendKeepsQueues ==
    ASSUME QueueTypes, WriterFollowsQueue, NEW s \in Names, NEW reply \in Replies, NEW outcome \in Outcomes,
           Send(s, reply, outcome)
    PROVE  /\ pending' \in [Names -> Seq(Replies)]
           /\ armed' \in [Names -> BOOLEAN]
           /\ writers' \subseteq writers \union {s}
           /\ lost' \subseteq Replies
           /\ WriterFollowsQueue'
<1>1. CASE UNCHANGED <<pending, writers, armed>> /\ lost' \in {lost, lost \union {reply}}
  BY <1>1 DEF QueueTypes, WriterFollowsQueue
<1>2. CASE /\ pending' = [pending EXCEPT ![s] = Append(@, reply)]
           /\ Armed(s)
           /\ lost' = lost
  <2> DEFINE longer == Append(pending[s], reply)
  <2>1. longer \in Seq(Replies) /\ Len(longer) = Len(pending[s]) + 1 /\ Len(pending[s]) \in Nat
    BY DEF QueueTypes
  <2>2. pending' = [pending EXCEPT ![s] = longer]
    BY <1>2
  <2> HIDE DEF longer
  <2>3. longer # << >>
    <3>1. Len(longer) # 0
      BY <2>1
    <3> QED
      BY <3>1
  <2>4. pending' \in [Names -> Seq(Replies)] /\ pending'[s] # << >>
    BY <2>1, <2>2, <2>3 DEF QueueTypes
  <2>5. armed' \in [Names -> BOOLEAN] /\ armed'[s] /\ s \in writers'
    BY <1>2 DEF QueueTypes, WriterFollowsQueue, Armed
  <2>6. \A e \in Names \ {s} : /\ pending'[e] = pending[e] /\ armed'[e] = armed[e]
                               /\ e \in writers' <=> e \in writers
    BY <1>2 DEF QueueTypes, Armed
  <2>7. WriterFollowsQueue'
    BY <2>4, <2>5, <2>6 DEF WriterFollowsQueue
  <2> QED
    BY <1>2, <2>4, <2>5, <2>7 DEF QueueTypes, Armed
<1> QED
  BY <1>1, <1>2 DEF Send

LEMMA OnReadableKeeps ==
    ASSUME TransportIInv, NEW e \in Names, OnReadable(e)
    PROVE  TransportIInv'
<1> USE DEF TransportIInv
<1>1. Via[e] \in Names
  BY NamesOfEndpoints
<1>2. PICK reply \in Replies :
          /\ issued' = [issued EXCEPT ![Via[e]] = Append(@, reply)]
          /\ \E outcome \in Outcomes : Send(Via[e], reply, outcome)
  BY DEF OnReadable
<1>3. /\ pending' \in [Names -> Seq(Replies)]
      /\ armed' \in [Names -> BOOLEAN]
      /\ writers' \subseteq writers \union {Via[e]}
      /\ lost' \subseteq Replies
      /\ WriterFollowsQueue'
  BY <1>1, <1>2, SendKeepsQueues
<1>4. issued' \in [Names -> Seq(Replies)]
  BY <1>1, <1>2 DEF QueueTypes
<1>5. running /\ open = Names
  BY DEF NothingLeftBehind, OnReadable, QueueTypes
<1>6. NothingLeftBehind'
  BY <1>1, <1>3, <1>5 DEF NothingLeftBehind, OnReadable, QueueTypes
<1>7. QueueTypes'
  BY <1>1, <1>3, <1>4 DEF QueueTypes, OnReadable
<1> QED
  BY <1>3, <1>6, <1>7

(* _on_writable leaves the writer exactly if replies still wait. *)
LEMMA OnWritableKeeps ==
    ASSUME TransportIInv, NEW e \in Names, OnWritable(e)
    PROVE  TransportIInv'
<1> USE DEF TransportIInv
<1>1. PICK k \in 0..Len(pending[e]) : \E failed \in SUBSET (1..k) :
          LET left == SubSeq(pending[e], k + 1, Len(pending[e]))
          IN  /\ lost' = lost \union {pending[e][j] : j \in failed}
              /\ pending' = [pending EXCEPT ![e] = left]
              /\ IF left = << >> THEN Disarmed(e) ELSE UNCHANGED <<writers, armed>>
  BY DEF OnWritable, Dropped
<1> DEFINE left == SubSeq(pending[e], k + 1, Len(pending[e]))
<1>2. left \in Seq(Replies) /\ \A j \in 1..k : pending[e][j] \in Replies
  BY DEF QueueTypes
<1>3. PICK failed \in SUBSET (1..k) :
      /\ lost' = lost \union {pending[e][j] : j \in failed}
      /\ pending' = [pending EXCEPT ![e] = left]
      /\ IF left = << >> THEN Disarmed(e) ELSE UNCHANGED <<writers, armed>>
  BY <1>1
<1> HIDE DEF left
<1>4. lost' \subseteq Replies
  BY <1>2, <1>3 DEF QueueTypes
<1>5. pending' \in [Names -> Seq(Replies)] /\ armed' \in [Names -> BOOLEAN]
  BY <1>2, <1>3 DEF QueueTypes, Disarmed
<1>6. /\ pending'[e] = left
      /\ armed'[e] <=> left # << >>
      /\ e \in writers' <=> left # << >>
  BY <1>3 DEF QueueTypes, WriterFollowsQueue, OnWritable, Disarmed
<1>7. \A s \in Names \ {e} : /\ pending'[s] = pending[s] /\ armed'[s] = armed[s]
                             /\ s \in writers' <=> s \in writers
  BY <1>3 DEF QueueTypes, Disarmed
<1>8. writers' \subseteq writers
  BY <1>3 DEF Disarmed
<1>9. WriterFollowsQueue'
  BY <1>6, <1>7 DEF WriterFollowsQueue
<1>10. QueueTypes' /\ NothingLeftBehind'
  BY <1>4, <1>5, <1>8 DEF QueueTypes, NothingLeftBehind, OnWritable
<1> QED
  BY <1>9, <1>10

LEMMA StepKeeps == TransportIInv /\ [Next]_vars => TransportIInv'
BY StutterKeeps, EnvironmentFailsKeeps, OpenFailsKeeps, StartKeeps, StopKeeps, OnReadableKeeps, OnWritableKeeps
   DEF Next

(* The three hold of every state of the transport (transport.py). *)
THEOREM TransportInvariant == Spec => []TransportIInv
BY InitIsRight, StepKeeps, PTL DEF Spec

(* Between two callbacks, the loop has a writer for a socket exactly while    *)
(* replies wait for it: none waits unseen, and no writer spins (transport.py, *)
(* _arm_writer and _on_writable).                                             *)
THEOREM WritersFollowQueues == Spec => []WriterFollowsQueue
BY TransportInvariant, PTL DEF TransportIInv

(* After a failed start and after stop no socket is open and the loop knows   *)
(* no callback; a running transport has them on open sockets only.            *)
THEOREM NothingIsLeftBehind == Spec => []NothingLeftBehind
BY TransportInvariant, PTL DEF TransportIInv

-----------------------------------------------------------------------------
(* Positions of a queue. *)

(* The positions of a queue can be counted off: the n-th is the one with n at or before it. *)
LEMMA Ranks ==
    ASSUME NEW m \in Nat, NEW S \in SUBSET (1..m)
    PROVE  LET nth(n) == CHOOSE p \in S : Cardinality({q \in S : q <= p}) = n
               c      == Cardinality(S)
           IN  /\ c \in Nat
               /\ \A n \in 1..c : nth(n) \in S
               /\ \A j, k \in 1..c : j < k => nth(j) < nth(k)
               /\ \A p \in S : \E n \in 1..c : nth(n) = p
<1> DEFINE upto(p) == {q \in S : q <= p}
           c       == Cardinality(S)
           rank    == [p \in S |-> Cardinality(upto(p))]
           nth(n)  == CHOOSE p \in S : Cardinality(upto(p)) = n
<1>1. IsFiniteSet(S) /\ c \in Nat
  <2>1. IsFiniteSet(1..m)
    BY FS_Interval
  <2> QED
    BY <2>1, FS_Subset, FS_CardinalityType
<1>2. ASSUME NEW p \in S
      PROVE  IsFiniteSet(upto(p)) /\ Cardinality(upto(p)) \in 1..c
  <2>1. upto(p) \subseteq S /\ p \in upto(p)
    OBVIOUS
  <2> HIDE DEF upto
  <2>2. IsFiniteSet(upto(p)) /\ Cardinality(upto(p)) <= c
    BY <1>1, <2>1, FS_Subset
  <2>3. Cardinality(upto(p)) \in Nat /\ Cardinality(upto(p)) # 0
    BY <2>1, <2>2, FS_CardinalityType, FS_EmptySet
  <2> QED
    BY <1>1, <2>2, <2>3
<1>3. ASSUME NEW p \in S, NEW q \in S, p < q
      PROVE  Cardinality(upto(p)) < Cardinality(upto(q))
  <2>0. \A x \in S : x \in Int
    OBVIOUS
  <2>1. upto(p) \subseteq upto(q) /\ q \in upto(q) /\ q \notin upto(p)
    <3>1. p \in Int /\ q \in Int /\ p < q
      BY <1>3, <2>0
    <3>2. \A x \in S : x <= p => x <= q
      BY <2>0, <3>1
    <3>3. q <= q /\ ~(q <= p)
      BY <3>1
    <3> QED
      BY <3>2, <3>3
  <2>2. IsFiniteSet(upto(p)) /\ IsFiniteSet(upto(q))
        /\ Cardinality(upto(p)) \in Nat /\ Cardinality(upto(q)) \in Nat
    BY <1>2
  <2> HIDE DEF upto
  <2>3. Cardinality(upto(p)) <= Cardinality(upto(q)) /\ Cardinality(upto(p)) # Cardinality(upto(q))
    BY <2>1, <2>2, FS_Subset
  <2> QED
    BY <2>2, <2>3
<1>4. rank \in Injection(S, 1..c)
  <2>1. rank \in [S -> 1..c]
    BY <1>2
  <2>2. ASSUME NEW p \in S, NEW q \in S, rank[p] = rank[q]
        PROVE  p = q
    <3>1. ~(p < q) /\ ~(q < p)
      <4>1. Cardinality(upto(p)) = Cardinality(upto(q)) /\ Cardinality(upto(p)) \in Nat
        BY <1>2, <2>2
      <4> HIDE DEF upto
      <4> QED
        BY <1>3, <4>1
    <3> QED
      BY <3>1
  <2> HIDE DEF rank
  <2> QED
    BY <2>1, <2>2 DEF Injection, IsInjective
<1>5. \A n \in 1..c : \E p \in S : rank[p] = n
  <2>1. IsFiniteSet(1..c) /\ Cardinality(1..c) = c
    BY <1>1, FS_Interval
  <2> HIDE DEF rank
  <2>2. rank \in Surjection(S, 1..c)
    BY <1>1, <1>4, <2>1, FS_Injection
  <2> QED
    BY <2>2 DEF Surjection
<1>6. \A p \in S : rank[p] = Cardinality(upto(p))
  OBVIOUS
<1> HIDE DEF rank, upto
<1>7. ASSUME NEW n \in 1..c
      PROVE  nth(n) \in S /\ Cardinality(upto(nth(n))) = n
  <2>1. \E p \in S : Cardinality(upto(p)) = n
    BY <1>5, <1>6
  <2> QED
    BY <2>1
<1>8. ASSUME NEW p \in S
      PROVE  nth(Cardinality(upto(p))) = p
  <2>1. Cardinality(upto(p)) \in 1..c
    BY <1>2
  <2> DEFINE q == nth(Cardinality(upto(p)))
  <2>2. q \in S /\ Cardinality(upto(q)) = Cardinality(upto(p))
    BY <1>7, <2>1
  <2> HIDE DEF q
  <2>3. ~(p < q) /\ ~(q < p)
    BY <1>1, <1>3, <2>1, <2>2
  <2> QED
    BY <2>2, <2>3 DEF q
<1>9. ASSUME NEW j \in 1..c, NEW k \in 1..c, j < k
      PROVE  nth(j) < nth(k)
  <2>1. /\ nth(j) \in S /\ nth(k) \in S
        /\ Cardinality(upto(nth(j))) = j /\ Cardinality(upto(nth(k))) = k
    BY <1>7
  <2> DEFINE p == nth(j)
             q == nth(k)
  <2> HIDE DEF p, q, nth
  <2>2. p \in S /\ q \in S /\ Cardinality(upto(p)) = j /\ Cardinality(upto(q)) = k
    BY <2>1 DEF p, q
  <2>3. ~(q < p) /\ p # q
    BY <1>1, <1>3, <1>9, <2>2
  <2>4. p < q
    BY <2>2, <2>3
  <2> QED
    BY <2>4 DEF p, q
<1>10. \A p \in S : \E n \in 1..c : nth(n) = p
  BY <1>2, <1>8
<1> QED
  BY <1>1, <1>7, <1>9, <1>10 DEF upto

(* What is taken from positions of a queue. *)
LEMMA InOrderTakes ==
    ASSUME NEW queue \in Seq(Replies), IsInjective(queue), NEW S \in SUBSET (1..Len(queue))
    PROVE  /\ InOrder(queue, S) \in Seq(Replies)
           /\ IsInjective(InOrder(queue, S))
           /\ Range(InOrder(queue, S)) = {queue[p] : p \in S}
           /\ \E place \in [1..Len(InOrder(queue, S)) -> S] :
                  /\ \A j, k \in 1..Len(InOrder(queue, S)) : j < k => place[j] < place[k]
                  /\ \A j \in 1..Len(InOrder(queue, S)) : InOrder(queue, S)[j] = queue[place[j]]
<1> DEFINE nth(n) == CHOOSE p \in S : Cardinality({q \in S : q <= p}) = n
           c      == Cardinality(S)
           place  == [n \in 1..c |-> nth(n)]
           t      == InOrder(queue, S)
<1>1. /\ c \in Nat
      /\ \A n \in 1..c : nth(n) \in S
      /\ \A j, k \in 1..c : j < k => nth(j) < nth(k)
      /\ \A p \in S : \E n \in 1..c : nth(n) = p
  <2>1. Len(queue) \in Nat
    OBVIOUS
  <2> QED
    BY <2>1, Ranks
<1>2. t = [n \in 1..c |-> queue[nth(n)]]
  BY DEF InOrder
<1> HIDE DEF c, nth, t
<1>3. /\ place \in [1..c -> S] /\ \A n \in 1..c : place[n] = nth(n)
  BY <1>1
<1> HIDE DEF place
<1>4. /\ t \in Seq(Replies) /\ Len(t) = c /\ DOMAIN t = 1..c /\ \A n \in 1..c : t[n] = queue[place[n]]
  <2>1. \A p \in S : queue[p] \in Replies
    OBVIOUS
  <2>2. \A n \in 1..c : queue[nth(n)] \in Replies
    BY <1>1, <2>1
  <2> QED
    BY <1>1, <1>2, <1>3, <2>2
<1>5. IsInjective(t)
  <2>1. ASSUME NEW j \in 1..c, NEW k \in 1..c, t[j] = t[k]
        PROVE  j = k
    <3>0. place[j] \in 1..Len(queue) /\ place[k] \in 1..Len(queue)
      BY <1>3
    <3>1. place[j] = place[k] /\ place[j] \in Int
      BY <1>4, <2>1, <3>0 DEF IsInjective
    <3>2. ~(j < k) /\ ~(k < j)
      BY <1>1, <1>3, <3>1
    <3> QED
      BY <3>2
  <2> QED
    BY <1>4, <2>1 DEF IsInjective
<1>6. Range(t) = {queue[p] : p \in S}
  <2>1. Range(t) = {t[n] : n \in 1..c}
    BY <1>4 DEF Range
  <2>2. \A p \in S : \E n \in 1..c : place[n] = p
    BY <1>1, <1>3
  <2>3. ASSUME NEW r \in Range(t) PROVE r \in {queue[p] : p \in S}
    <3>1. PICK n \in 1..c : r = t[n]
      BY <2>1
    <3>2. place[n] \in S /\ t[n] = queue[place[n]]
      BY <1>3, <1>4
    <3> QED
      BY <3>1, <3>2
  <2>4. ASSUME NEW p \in S PROVE queue[p] \in Range(t)
    <3>1. PICK n \in 1..c : place[n] = p
      BY <2>2
    <3> QED
      BY <1>4, <2>1, <3>1
  <2> QED
    BY <2>3, <2>4
<1> QED
  BY <1>1, <1>3, <1>4, <1>5, <1>6 DEF t

-----------------------------------------------------------------------------
(* Where each reply is. *)

Handed == UNION {Range(issued[e]) : e \in Names}

(* The waiting replies are the last of those handed to their socket. *)
QueueIsTail(e) ==
    /\ Len(pending[e]) <= Len(issued[e])
    /\ \A j \in 1..Len(pending[e]) : pending[e][j] = issued[e][Len(issued[e]) - Len(pending[e]) + j]

(* A reply is new when it is handed over: the numbers given are the first   *)
(* ones, each went to one socket, and only what was handed over can be lost. *)
AccountInv ==
    /\ TransportIInv
    /\ sent \in [Names -> Seq(Replies)]
    /\ RepliesAccounted
    /\ Issued \in Nat /\ Handed = 1..Issued
    /\ lost \subseteq Handed
    /\ \A e, s \in Names : e # s => Range(issued[e]) \intersect Range(issued[s]) = {}
    /\ \A e \in Names : QueueIsTail(e)

(* RepliesAccounted of one socket, in parts. *)
Placed(sentOne, pendingOne, issuedOne, lostAll) ==
    /\ IsInjective(sentOne) /\ IsInjective(pendingOne)
    /\ Range(sentOne) \intersect Range(pendingOne) = {}
    /\ Range(sentOne) \intersect lostAll = {} /\ Range(pendingOne) \intersect lostAll = {}
    /\ Range(issuedOne) = Range(sentOne) \union Range(pendingOne) \union (lostAll \intersect Range(issuedOne))

LEMMA RangeOf ==
    ASSUME NEW s \in Seq(Replies)
    PROVE  Range(s) = {s[j] : j \in 1..Len(s)} /\ Range(s) \subseteq Replies
<1>1. DOMAIN s = 1..Len(s)
  OBVIOUS
<1> QED
  BY <1>1 DEF Range

LEMMA JoinedRange ==
    ASSUME NEW s \in Seq(Replies), NEW t \in Seq(Replies)
    PROVE  /\ s \o t \in Seq(Replies)
           /\ Range(s \o t) = Range(s) \union Range(t)
           /\ IsInjective(s \o t) <=> /\ IsInjective(s) /\ IsInjective(t)
                                      /\ Range(s) \intersect Range(t) = {}
<1> DEFINE u == s \o t
<1>1. /\ u \in Seq(Replies) /\ Len(u) = Len(s) + Len(t) /\ Len(s) \in Nat /\ Len(t) \in Nat
      /\ \A j \in 1..Len(s) : u[j] = s[j]
      /\ \A j \in 1..Len(t) : u[Len(s) + j] = t[j]
  OBVIOUS
<1> DEFINE m == Len(s)
           n == Len(t)
<1>2. DOMAIN s = 1..m /\ DOMAIN t = 1..n /\ DOMAIN u = 1..(m + n) /\ m \in Nat /\ n \in Nat
  BY <1>1
<1>3. (\A j \in 1..m : u[j] = s[j]) /\ (\A j \in 1..n : u[m + j] = t[j])
  BY <1>1
<1>4. ASSUME NEW j \in 1..(m + n), j > m PROVE \E k \in 1..n : j = m + k
  <2>1. j - m \in 1..n /\ m + (j - m) = j
    BY <1>2, <1>4
  <2> QED
    BY <2>1
<1>5. (\A j \in 1..m : j \in 1..(m + n)) /\ (\A j \in 1..n : m + j \in 1..(m + n))
  BY <1>2
<1> HIDE DEF u, m, n
<1>6. Range(u) = Range(s) \union Range(t)
  <2>1. ASSUME NEW j \in 1..(m + n) PROVE u[j] \in Range(s) \union Range(t)
    <3>1. CASE j > m
      <4>1. PICK k \in 1..n : j = m + k
        BY <1>4, <3>1
      <4> QED
        BY <1>2, <1>3, <4>1 DEF Range
    <3>2. CASE ~(j > m)
      <4>1. j \in 1..m
        BY <1>2, <3>2
      <4> QED
        BY <1>2, <1>3, <4>1 DEF Range
    <3> QED
      BY <3>1, <3>2
  <2>2. ASSUME NEW j \in 1..m PROVE s[j] \in Range(u)
    BY <1>2, <1>3, <1>5 DEF Range
  <2>3. ASSUME NEW j \in 1..n PROVE t[j] \in Range(u)
    BY <1>2, <1>3, <1>5 DEF Range
  <2> QED
    BY <1>2, <2>1, <2>2, <2>3 DEF Range
<1>7. ASSUME IsInjective(u)
      PROVE  IsInjective(s) /\ IsInjective(t) /\ Range(s) \intersect Range(t) = {}
  <2>1. \A j, k \in 1..(m + n) : u[j] = u[k] => j = k
    BY <1>2, <1>7 DEF IsInjective
  <2>2. IsInjective(s)
    BY <1>2, <1>3, <1>5, <2>1 DEF IsInjective
  <2>3. ASSUME NEW j \in 1..n, NEW k \in 1..n, t[j] = t[k] PROVE j = k
    <3>1. m + j = m + k
      BY <1>3, <1>5, <2>1, <2>3
    <3> QED
      BY <1>2, <3>1
  <2>4. ASSUME NEW j \in 1..m, NEW k \in 1..n, s[j] = t[k] PROVE FALSE
    <3>1. j = m + k
      BY <1>3, <1>5, <2>1, <2>4
    <3> QED
      BY <1>2, <3>1
  <2> QED
    BY <1>2, <2>2, <2>3, <2>4 DEF IsInjective, Range
<1>8. ASSUME IsInjective(s), IsInjective(t), Range(s) \intersect Range(t) = {}
      PROVE  IsInjective(u)
  <2>1. ASSUME NEW j \in 1..(m + n), NEW k \in 1..(m + n), u[j] = u[k] PROVE j = k
    <3>1. CASE j > m /\ k > m
      <4>1. PICK a \in 1..n : j = m + a
        BY <1>4, <3>1
      <4>2. PICK b \in 1..n : k = m + b
        BY <1>4, <3>1
      <4>3. t[a] = t[b]
        BY <1>3, <2>1, <4>1, <4>2
      <4> QED
        BY <1>2, <1>8, <4>1, <4>2, <4>3 DEF IsInjective
    <3>2. CASE ~(j > m) /\ ~(k > m)
      <4>1. j \in 1..m /\ k \in 1..m
        BY <1>2, <3>2
      <4> QED
        BY <1>2, <1>3, <1>8, <2>1, <4>1 DEF IsInjective
    <3>3. CASE j > m /\ ~(k > m)
      <4>1. PICK a \in 1..n : j = m + a
        BY <1>4, <3>3
      <4>2. k \in 1..m
        BY <1>2, <3>3
      <4>3. t[a] = s[k]
        BY <1>3, <2>1, <4>1, <4>2
      <4> QED
        BY <1>2, <1>8, <4>2, <4>3 DEF Range
    <3>4. CASE ~(j > m) /\ k > m
      <4>1. PICK b \in 1..n : k = m + b
        BY <1>4, <3>4
      <4>2. j \in 1..m
        BY <1>2, <3>4
      <4>3. t[b] = s[j]
        BY <1>3, <2>1, <4>1, <4>2
      <4> QED
        BY <1>2, <1>8, <4>2, <4>3 DEF Range
    <3> QED
      BY <3>1, <3>2, <3>3, <3>4
  <2> QED
    BY <1>2, <2>1 DEF IsInjective
<1> QED
  BY <1>1, <1>6, <1>7, <1>8 DEF u

LEMMA AppendedRange ==
    ASSUME NEW s \in Seq(Replies), NEW r \in Replies
    PROVE  /\ Append(s, r) \in Seq(Replies)
           /\ Range(Append(s, r)) = Range(s) \union {r}
           /\ IsInjective(s) /\ r \notin Range(s) => IsInjective(Append(s, r))
<1> DEFINE one == <<r>>
<1>1. one \in Seq(Replies) /\ Len(one) = 1 /\ DOMAIN one = {1} /\ one[1] = r
  OBVIOUS
<1>2. Append(s, r) = s \o one
  OBVIOUS
<1> HIDE DEF one
<1>3. Range(one) = {r} /\ IsInjective(one)
  BY <1>1 DEF Range, IsInjective
<1> QED
  BY <1>1, <1>2, <1>3, JoinedRange

LEMMA AccountedInParts ==
    QueueTypes /\ sent \in [Names -> Seq(Replies)] =>
        (RepliesAccounted <=> \A e \in Names : Placed(sent[e], pending[e], issued[e], lost))
<1> SUFFICES ASSUME QueueTypes, sent \in [Names -> Seq(Replies)], NEW e \in Names
             PROVE  IsInjective(sent[e] \o pending[e])
                        <=> /\ IsInjective(sent[e]) /\ IsInjective(pending[e])
                            /\ Range(sent[e]) \intersect Range(pending[e]) = {}
  BY DEF RepliesAccounted, Placed
<1>1. sent[e] \in Seq(Replies) /\ pending[e] \in Seq(Replies)
  BY DEF QueueTypes
<1> QED
  BY <1>1, JoinedRange

(* What every state has where it speaks of one socket. *)
LEMMA AccountParts ==
    ASSUME AccountInv
    PROVE  /\ QueueTypes /\ sent \in [Names -> Seq(Replies)] /\ lost \subseteq Handed
           /\ \A e \in Names : /\ sent[e] \in Seq(Replies) /\ pending[e] \in Seq(Replies)
                               /\ issued[e] \in Seq(Replies) /\ Placed(sent[e], pending[e], issued[e], lost)
                               /\ Range(issued[e]) \subseteq Handed /\ Range(sent[e]) \subseteq Range(issued[e])
                               /\ Range(pending[e]) \subseteq Range(issued[e])
<1>1. QueueTypes /\ sent \in [Names -> Seq(Replies)] /\ lost \subseteq Handed
  BY DEF AccountInv, TransportIInv
<1>2. \A e \in Names : Placed(sent[e], pending[e], issued[e], lost)
  BY <1>1, AccountedInParts DEF AccountInv
<1>3. \A e \in Names : sent[e] \in Seq(Replies) /\ pending[e] \in Seq(Replies) /\ issued[e] \in Seq(Replies)
  BY <1>1 DEF QueueTypes
<1>4. \A e \in Names : /\ Range(issued[e]) \subseteq Handed /\ Range(sent[e]) \subseteq Range(issued[e])
                       /\ Range(pending[e]) \subseteq Range(issued[e])
  BY <1>2 DEF Handed, Placed
<1> QED
  BY <1>1, <1>2, <1>3, <1>4

LEMMA AccountGoesOn ==
    ASSUME TransportIInv', sent' \in [Names -> Seq(Replies)],
           \A e \in Names : Placed(sent'[e], pending'[e], issued'[e], lost')
    PROVE  RepliesAccounted'
<1> SUFFICES ASSUME NEW e \in Names
             PROVE  IsInjective(sent'[e] \o pending'[e])
                        <=> /\ IsInjective(sent'[e]) /\ IsInjective(pending'[e])
                            /\ Range(sent'[e]) \intersect Range(pending'[e]) = {}
  BY DEF RepliesAccounted, Placed
<1>1. sent'[e] \in Seq(Replies) /\ pending'[e] \in Seq(Replies)
  BY DEF TransportIInv, QueueTypes
<1> QED
  BY <1>1, JoinedRange

(* While nothing is handed over, the numbers given stay. *)
LEMMA NothingHandedOver ==
    ASSUME AccountInv, TransportIInv', issued' = issued, sent' \in [Names -> Seq(Replies)],
           \A e \in Names : Placed(sent'[e], pending'[e], issued[e], lost'),
           lost' \subseteq Handed, \A e \in Names : QueueIsTail(e)'
    PROVE  AccountInv'
<1>1. RepliesAccounted'
  BY AccountGoesOn
<1>2. Handed' = Handed /\ Issued' = Issued
  BY DEF Handed, Issued
<1> QED
  BY <1>1, <1>2 DEF AccountInv

LEMMA QueuesAsTheyWere ==
    ASSUME AccountInv, TransportIInv', UNCHANGED <<issued, sent, lost, pending>>
    PROVE  AccountInv'
<1>1. \A e \in Names : QueueIsTail(e)'
  BY DEF AccountInv, QueueIsTail
<1> QED
  BY <1>1, AccountParts, NothingHandedOver

(* A reply handed over is sent, lost or kept, and no other is touched. *)
LEMMA HandedOver ==
    ASSUME AccountInv, TransportIInv', NEW e \in Names, OnReadable(e)
    PROVE  AccountInv'
<1> DEFINE s == Via[e]
<1>1. s \in Names
  BY NamesOfEndpoints
<1>2. PICK r \in Replies : /\ r = Issued + 1
                           /\ issued' = [issued EXCEPT ![s] = Append(@, r)]
                           /\ \E outcome \in Outcomes : Send(s, r, outcome)
  BY DEF OnReadable
<1>3. PICK outcome \in Outcomes : Send(s, r, outcome)
  BY <1>2
<1> HIDE DEF s
<1>4. /\ QueueTypes /\ sent \in [Names -> Seq(Replies)] /\ lost \subseteq Handed
      /\ \A x \in Names : /\ sent[x] \in Seq(Replies) /\ pending[x] \in Seq(Replies)
                          /\ issued[x] \in Seq(Replies) /\ Placed(sent[x], pending[x], issued[x], lost)
                          /\ Range(issued[x]) \subseteq Handed /\ Range(sent[x]) \subseteq Range(issued[x])
                          /\ Range(pending[x]) \subseteq Range(issued[x])
  BY AccountParts
<1>5. Issued \in Nat /\ Handed = 1..Issued /\ r \notin Handed
  BY <1>2 DEF AccountInv
<1>6. /\ Range(issued'[s]) = Range(issued[s]) \union {r} /\ issued'[s] = Append(issued[s], r)
      /\ \A x \in Names \ {s} : issued'[x] = issued[x]
      /\ issued' \in [Names -> Seq(Replies)]
  <2>1. issued'[s] = Append(issued[s], r) /\ \A x \in Names \ {s} : issued'[x] = issued[x]
    BY <1>1, <1>2, <1>4 DEF QueueTypes
  <2>2. issued' \in [Names -> Seq(Replies)]
    BY DEF TransportIInv, QueueTypes
  <2> QED
    BY <1>1, <1>4, <2>1, <2>2, AppendedRange
<1>7. Handed' = Handed \union {r}
  BY <1>1, <1>6 DEF Handed
<1>8. Issued' \in Nat /\ Handed' = 1..Issued'
  <2>1. Handed' = 1..(Issued + 1)
    BY <1>2, <1>5, <1>7
  <2>2. Issued' = Cardinality(Handed')
    BY DEF Issued, Handed
  <2>3. Cardinality(1..(Issued + 1)) = Issued + 1
    BY <1>5, FS_Interval
  <2> QED
    BY <1>5, <2>1, <2>2, <2>3
<1>9. \A x, y \in Names : x # y => Range(issued'[x]) \intersect Range(issued'[y]) = {}
  <2>1. \A x, y \in Names : x # y => Range(issued[x]) \intersect Range(issued[y]) = {}
    BY DEF AccountInv
  <2>2. \A x \in Names : r \notin Range(issued[x])
    BY <1>4, <1>5
  <2>3. ASSUME NEW x \in Names, NEW y \in Names, x # y
        PROVE  Range(issued'[x]) \intersect Range(issued'[y]) = {}
    <3>1. CASE x = s
      BY <1>6, <2>1, <2>2, <2>3, <3>1
    <3>2. CASE y = s
      BY <1>6, <2>1, <2>2, <2>3, <3>2
    <3>3. CASE x # s /\ y # s
      BY <1>6, <2>1, <2>3, <3>3
    <3> QED
      BY <3>1, <3>2, <3>3
  <2> QED
    BY <2>3
<1>13. ASSUME NEW x \in Names
       PROVE  LET S == Range(sent[x])
                  P == Range(pending[x])
                  I == Range(issued[x])
              IN  /\ IsInjective(sent[x]) /\ IsInjective(pending[x])
                  /\ r \notin I /\ r \notin S /\ r \notin P /\ r \notin lost
                  /\ S \intersect P = {} /\ S \intersect lost = {} /\ P \intersect lost = {}
                  /\ (S \union {r}) \intersect P = {} /\ S \intersect (P \union {r}) = {}
                  /\ (S \union {r}) \intersect lost = {} /\ (P \union {r}) \intersect lost = {}
                  /\ S \intersect (lost \union {r}) = {} /\ P \intersect (lost \union {r}) = {}
                  /\ I \union {r} = (S \union {r}) \union P \union (lost \intersect (I \union {r}))
                  /\ I \union {r} = S \union (P \union {r}) \union (lost \intersect (I \union {r}))
                  /\ I \union {r} = S \union P \union ((lost \union {r}) \intersect (I \union {r}))
                  /\ I = S \union P \union ((lost \union {r}) \intersect I)
  <2> DEFINE S == Range(sent[x])
             P == Range(pending[x])
             I == Range(issued[x])
  <2>1. /\ IsInjective(sent[x]) /\ IsInjective(pending[x]) /\ S \subseteq I /\ P \subseteq I
        /\ S \intersect P = {} /\ S \intersect lost = {} /\ P \intersect lost = {}
        /\ I = S \union P \union (lost \intersect I)
    BY <1>4 DEF Placed
  <2>2. r \notin I /\ r \notin lost
    BY <1>4, <1>5
  <2> HIDE DEF S, P, I
  <2>3. r \notin S /\ r \notin P
    BY <2>1, <2>2
  <2>4. /\ (S \union {r}) \intersect P = {} /\ S \intersect (P \union {r}) = {}
        /\ (S \union {r}) \intersect lost = {} /\ (P \union {r}) \intersect lost = {}
        /\ S \intersect (lost \union {r}) = {} /\ P \intersect (lost \union {r}) = {}
        /\ I \union {r} = (S \union {r}) \union P \union (lost \intersect (I \union {r}))
        /\ I \union {r} = S \union (P \union {r}) \union (lost \intersect (I \union {r}))
        /\ I \union {r} = S \union P \union ((lost \union {r}) \intersect (I \union {r}))
        /\ I = S \union P \union ((lost \union {r}) \intersect I)
    BY <2>1, <2>2, <2>3
  <2> QED
    BY <2>1, <2>2, <2>3, <2>4 DEF S, P, I
<1>14. ASSUME NEW x \in Names, pending'[x] = pending[x], issued'[x] = issued[x]
       PROVE  QueueIsTail(x)'
  <2>1. QueueIsTail(x)
    BY DEF AccountInv
  <2> QED
    BY <1>14, <2>1 DEF QueueIsTail
<1>10. CASE Direct(s) /\ outcome = "taken" /\ sent' = [sent EXCEPT ![s] = Append(@, r)]
            /\ UNCHANGED <<pending, lost>>
  <2>1. sent'[s] = Append(sent[s], r) /\ \A x \in Names \ {s} : sent'[x] = sent[x]
    BY <1>1, <1>4, <1>10
  <2>2. /\ sent'[s] \in Seq(Replies) /\ Range(sent'[s]) = Range(sent[s]) \union {r}
        /\ IsInjective(sent[s]) /\ r \notin Range(sent[s]) => IsInjective(sent'[s])
    BY <1>1, <1>4, <2>1, AppendedRange
  <2>3. sent' \in [Names -> Seq(Replies)]
    BY <1>1, <1>4, <1>10, <2>1, <2>2
  <2>4. Placed(sent'[s], pending'[s], issued'[s], lost')
    BY <1>1, <1>6, <1>10, <1>13, <2>2 DEF Placed
  <2>5. \A x \in Names \ {s} : Placed(sent'[x], pending'[x], issued'[x], lost')
    BY <1>4, <1>6, <1>10, <2>1
  <2>6. ASSUME NEW x \in Names PROVE QueueIsTail(x)'
    <3>1. CASE x = s
      <4>1. Len(pending'[x]) = 0 /\ Len(issued'[x]) \in Nat
        BY <1>1, <1>6, <1>10, <3>1 DEF Direct
      <4> QED
        BY <4>1 DEF QueueIsTail
    <3>2. CASE x # s
      BY <1>6, <1>10, <1>14, <3>2
    <3> QED
      BY <3>1, <3>2
  <2>7. RepliesAccounted'
    BY <2>3, <2>4, <2>5, AccountGoesOn
  <2> QED
    BY <1>4, <1>7, <1>8, <1>9, <1>10, <2>3, <2>6, <2>7 DEF AccountInv
<1>11. CASE Direct(s) /\ outcome = "failed" /\ lost' = lost \union {r} /\ UNCHANGED <<pending, sent>>
  <2>1. ASSUME NEW x \in Names PROVE Placed(sent'[x], pending'[x], issued'[x], lost')
    <3>1. CASE x = s
      BY <1>6, <1>11, <1>13, <3>1 DEF Placed
    <3>2. CASE x # s
      BY <1>6, <1>11, <1>13, <3>2 DEF Placed
    <3> QED
      BY <3>1, <3>2
  <2>2. ASSUME NEW x \in Names PROVE QueueIsTail(x)'
    <3>1. CASE x = s
      <4>1. Len(pending'[x]) = 0 /\ Len(issued'[x]) \in Nat
        BY <1>1, <1>6, <1>11, <3>1 DEF Direct
      <4> QED
        BY <4>1 DEF QueueIsTail
    <3>2. CASE x # s
      BY <1>6, <1>11, <1>14, <3>2
    <3> QED
      BY <3>1, <3>2
  <2>3. sent' \in [Names -> Seq(Replies)] /\ RepliesAccounted'
    BY <1>4, <1>11, <2>1, AccountGoesOn
  <2> QED
    BY <1>4, <1>7, <1>8, <1>9, <1>11, <2>2, <2>3 DEF AccountInv
<1>12. CASE pending' = [pending EXCEPT ![s] = Append(@, r)] /\ UNCHANGED <<sent, lost>>
  <2>1. pending'[s] = Append(pending[s], r) /\ \A x \in Names \ {s} : pending'[x] = pending[x]
    BY <1>1, <1>4, <1>12 DEF QueueTypes
  <2>2. /\ pending'[s] \in Seq(Replies) /\ Range(pending'[s]) = Range(pending[s]) \union {r}
        /\ IsInjective(pending[s]) /\ r \notin Range(pending[s]) => IsInjective(pending'[s])
    BY <1>1, <1>4, <2>1, AppendedRange
  <2>3. Placed(sent'[s], pending'[s], issued'[s], lost')
    BY <1>1, <1>6, <1>12, <1>13, <2>2 DEF Placed
  <2>4. \A x \in Names \ {s} : Placed(sent'[x], pending'[x], issued'[x], lost')
    BY <1>4, <1>6, <1>12, <2>1
  <2>5. ASSUME NEW x \in Names PROVE QueueIsTail(x)'
    <3>1. CASE x = s
      <4> DEFINE p == pending[s]
                 i == issued[s]
                 m == Len(p)
                 n == Len(i)
      <4>1. p \in Seq(Replies) /\ i \in Seq(Replies) /\ m \in Nat /\ n \in Nat
        BY <1>1, <1>4
      <4>2. m <= n /\ \A j \in 1..m : p[j] = i[n - m + j]
        BY <1>1 DEF AccountInv, QueueIsTail
      <4>3. /\ Len(pending'[s]) = m + 1 /\ Len(issued'[s]) = n + 1
            /\ \A j \in 1..m : pending'[s][j] = p[j]
            /\ pending'[s][m + 1] = r /\ issued'[s][n + 1] = r
            /\ \A j \in 1..n : issued'[s][j] = i[j]
        BY <1>6, <2>1, <4>1
      <4> HIDE DEF p, i, m, n
      <4>4. ASSUME NEW j \in 1..(m + 1)
            PROVE  pending'[s][j] = issued'[s][(n + 1) - (m + 1) + j]
        <5>1. CASE j = m + 1
          <6>1. (n + 1) - (m + 1) + j = n + 1
            BY <4>1, <5>1
          <6> QED
            BY <4>3, <5>1, <6>1
        <5>2. CASE j # m + 1
          <6>1. j \in 1..m /\ (n + 1) - (m + 1) + j = n - m + j /\ n - m + j \in 1..n
            BY <4>1, <4>2, <5>2
          <6> QED
            BY <4>2, <4>3, <6>1
        <5> QED
          BY <5>1, <5>2
      <4>5. m + 1 <= n + 1
        BY <4>1, <4>2
      <4> QED
        BY <3>1, <4>3, <4>4, <4>5 DEF QueueIsTail
    <3>2. CASE x # s
      BY <1>6, <1>14, <2>1, <3>2
    <3> QED
      BY <3>1, <3>2
  <2>6. sent' \in [Names -> Seq(Replies)] /\ RepliesAccounted'
    BY <1>4, <1>12, <2>3, <2>4, AccountGoesOn
  <2> QED
    BY <1>4, <1>7, <1>8, <1>9, <1>12, <2>5, <2>6 DEF AccountInv
<1> QED
  BY <1>3, <1>10, <1>11, <1>12 DEF Send

(* What the writer takes from the head of a queue is sent or lost. *)
LEMMA Written ==
    ASSUME AccountInv, TransportIInv', NEW e \in Names, OnWritable(e)
    PROVE  AccountInv'
<1>1. PICK k \in 0..Len(pending[e]) : \E failed \in SUBSET (1..k) :
        /\ sent' = [sent EXCEPT ![e] = @ \o InOrder(pending[e], (1..k) \ failed)]
        /\ lost' = lost \union {pending[e][j] : j \in failed}
        /\ pending' = [pending EXCEPT ![e] = SubSeq(pending[e], k + 1, Len(pending[e]))]
  BY DEF OnWritable, Dropped
<1>2. PICK failed \in SUBSET (1..k) :
        /\ sent' = [sent EXCEPT ![e] = @ \o InOrder(pending[e], (1..k) \ failed)]
        /\ lost' = lost \union {pending[e][j] : j \in failed}
        /\ pending' = [pending EXCEPT ![e] = SubSeq(pending[e], k + 1, Len(pending[e]))]
  BY <1>1
<1> DEFINE q    == pending[e]
           m    == Len(q)
           kept == (1..k) \ failed
           took == InOrder(q, kept)
           left == SubSeq(q, k + 1, m)
           fell == {q[j] : j \in failed}
<1>3. /\ QueueTypes /\ sent \in [Names -> Seq(Replies)] /\ lost \subseteq Handed
      /\ \A x \in Names : /\ sent[x] \in Seq(Replies) /\ pending[x] \in Seq(Replies)
                          /\ issued[x] \in Seq(Replies) /\ Placed(sent[x], pending[x], issued[x], lost)
                          /\ Range(issued[x]) \subseteq Handed /\ Range(sent[x]) \subseteq Range(issued[x])
                          /\ Range(pending[x]) \subseteq Range(issued[x])
  BY AccountParts
<1>4. q \in Seq(Replies) /\ m \in Nat /\ k \in 0..m /\ IsInjective(q) /\ m = Len(q)
  BY <1>3 DEF Placed
<1>5. /\ took \in Seq(Replies) /\ IsInjective(took) /\ Range(took) = {q[j] : j \in kept}
  <2>1. kept \in SUBSET (1..Len(q))
    BY <1>4
  <2> HIDE DEF q, kept
  <2> QED
    BY <1>4, <2>1, InOrderTakes
<1>6. /\ left \in Seq(Replies) /\ Len(left) = m - k /\ \A j \in 1..(m - k) : left[j] = q[k + j]
  BY <1>4
<1>7. Range(left) = {q[j] : j \in (k + 1)..m} /\ IsInjective(left)
  <2> HIDE DEF q, m, left
  <2>1. DOMAIN left = 1..(m - k) /\ m - k \in Nat /\ k \in Nat /\ m \in Nat
    BY <1>4, <1>6
  <2>2. \A j \in 1..(m - k) : k + j \in (k + 1)..m
    BY <2>1
  <2>3. ASSUME NEW i \in (k + 1)..m PROVE q[i] \in Range(left)
    <3>1. i - k \in 1..(m - k) /\ k + (i - k) = i
      BY <2>1
    <3>2. left[i - k] = q[i]
      BY <1>6, <3>1
    <3> QED
      BY <2>1, <3>1, <3>2 DEF Range
  <2>4. Range(left) = {q[j] : j \in (k + 1)..m}
    BY <1>6, <2>1, <2>2, <2>3 DEF Range
  <2>5. ASSUME NEW i \in 1..(m - k), NEW j \in 1..(m - k), left[i] = left[j] PROVE i = j
    <3>1. k + i \in DOMAIN q /\ k + j \in DOMAIN q /\ q[k + i] = q[k + j]
      BY <1>4, <1>6, <2>1, <2>2, <2>5
    <3>2. k + i = k + j
      BY <1>4, <3>1 DEF IsInjective
    <3> QED
      BY <2>1, <3>2
  <2> QED
    BY <2>1, <2>4, <2>5 DEF IsInjective
<1>8. /\ Range(q) = Range(took) \union fell \union Range(left)
      /\ Range(took) \intersect fell = {} /\ Range(took) \intersect Range(left) = {}
      /\ fell \intersect Range(left) = {}
  <2>1. DOMAIN q = 1..m /\ Range(q) = {q[j] : j \in 1..m}
    BY <1>4 DEF Range
  <2>2. /\ kept \union failed \union ((k + 1)..m) = 1..m /\ kept \intersect failed = {}
        /\ kept \intersect ((k + 1)..m) = {} /\ failed \intersect ((k + 1)..m) = {}
    <3> HIDE DEF q, m
    <3>1. (1..k) \union ((k + 1)..m) = 1..m /\ (1..k) \intersect ((k + 1)..m) = {}
      BY <1>4
    <3>2. kept \union failed = 1..k /\ kept \intersect failed = {} /\ failed \subseteq 1..k
      OBVIOUS
    <3> HIDE DEF kept
    <3> QED
      BY <3>1, <3>2
  <2>3. \A i, j \in 1..m : q[i] = q[j] => i = j
    BY <1>4, <2>1 DEF IsInjective
  <2> HIDE DEF kept, took, left, q, m
  <2>4. Range(q) = {q[j] : j \in kept} \union {q[j] : j \in failed} \union {q[j] : j \in (k + 1)..m}
    BY <2>1, <2>2
  <2>5. \A A, B \in SUBSET (1..m) : A \intersect B = {} => {q[j] : j \in A} \intersect {q[j] : j \in B} = {}
    BY <2>3
  <2>6. kept \in SUBSET (1..m) /\ failed \in SUBSET (1..m) /\ (k + 1)..m \in SUBSET (1..m)
    BY <2>2
  <2>7. /\ {q[j] : j \in kept} \intersect {q[j] : j \in failed} = {}
        /\ {q[j] : j \in kept} \intersect {q[j] : j \in (k + 1)..m} = {}
        /\ {q[j] : j \in failed} \intersect {q[j] : j \in (k + 1)..m} = {}
    BY <2>2, <2>5, <2>6
  <2> QED
    BY <1>5, <1>7, <2>4, <2>7
<1>9. /\ sent'[e] = sent[e] \o took /\ pending'[e] = left /\ lost' = lost \union fell
      /\ \A x \in Names \ {e} : sent'[x] = sent[x] /\ pending'[x] = pending[x]
  <2>1. sent' = [sent EXCEPT ![e] = sent[e] \o took] /\ pending' = [pending EXCEPT ![e] = left]
    BY <1>2
  <2> HIDE DEF took, left, q
  <2>2. lost' = lost \union fell
    BY <1>2 DEF q
  <2> QED
    BY <1>3, <2>1, <2>2 DEF QueueTypes
<1>10. /\ sent'[e] \in Seq(Replies) /\ Range(sent'[e]) = Range(sent[e]) \union Range(took)
       /\ IsInjective(sent[e]) /\ Range(sent[e]) \intersect Range(took) = {} => IsInjective(sent'[e])
  <2> HIDE DEF took
  <2> QED
    BY <1>3, <1>5, <1>9, JoinedRange
<1>11. issued' = issued
  BY DEF OnWritable
<1> HIDE DEF q, m, kept, took, left, fell
<1>12. q = pending[e] /\ fell \subseteq Range(q)
  BY <1>8 DEF q
<1>13. Placed(sent'[e], pending'[e], issued[e], lost')
  <2> DEFINE S == Range(sent[e])
             I == Range(issued[e])
  <2>1. /\ IsInjective(sent[e]) /\ S \intersect Range(q) = {} /\ S \intersect lost = {} /\ Range(q) \intersect lost = {}
        /\ I = S \union Range(q) \union (lost \intersect I)
    BY <1>3, <1>12 DEF Placed
  <2>2. Range(pending'[e]) = Range(left) /\ IsInjective(pending'[e])
    BY <1>7, <1>9
  <2>3. IsInjective(sent'[e]) /\ Range(sent'[e]) = S \union Range(took)
    BY <1>8, <1>10, <2>1
  <2> HIDE DEF S, I
  <2>4. /\ (S \union Range(took)) \intersect Range(left) = {}
        /\ (S \union Range(took)) \intersect (lost \union fell) = {}
        /\ Range(left) \intersect (lost \union fell) = {}
        /\ I = (S \union Range(took)) \union Range(left) \union ((lost \union fell) \intersect I)
    BY <1>8, <2>1
  <2> QED
    BY <1>9, <2>2, <2>3, <2>4 DEF Placed, I
<1>14. ASSUME NEW x \in Names, x # e PROVE Placed(sent'[x], pending'[x], issued[x], lost')
  <2>1. Range(issued[x]) \intersect fell = {}
    <3>1. Range(issued[x]) \intersect Range(issued[e]) = {}
      BY <1>14 DEF AccountInv
    <3> QED
      BY <1>3, <1>12, <3>1
  <2>2. /\ Placed(sent[x], pending[x], issued[x], lost) /\ Range(sent[x]) \subseteq Range(issued[x])
        /\ Range(pending[x]) \subseteq Range(issued[x])
    BY <1>3
  <2>3. sent'[x] = sent[x] /\ pending'[x] = pending[x] /\ lost' = lost \union fell
    BY <1>9, <1>14
  <2> QED
    BY <2>1, <2>2, <2>3 DEF Placed
<1>15. lost' \subseteq Handed
  BY <1>3, <1>9, <1>12
<1>16. sent' \in [Names -> Seq(Replies)]
  BY <1>2, <1>3, <1>10
<1>17. ASSUME NEW x \in Names PROVE QueueIsTail(x)'
  <2>1. QueueIsTail(x)
    BY DEF AccountInv
  <2>2. CASE x # e
    BY <1>9, <1>11, <2>1, <2>2 DEF QueueIsTail
  <2>3. CASE x = e
    <3> DEFINE i == issued[e]
               n == Len(i)
    <3>0. n \in Nat
      BY <1>3
    <3>1. m <= n /\ n \in Nat /\ \A j \in 1..m : q[j] = i[n - m + j]
      BY <2>1, <2>3, <3>0 DEF QueueIsTail, q, m
    <3> HIDE DEF i, n
    <3>2. ASSUME NEW j \in 1..(m - k) PROVE left[j] = i[n - (m - k) + j]
      <4>1. k + j \in 1..m /\ n - m + (k + j) = n - (m - k) + j
        BY <1>4, <3>1
      <4> QED
        BY <1>6, <3>1, <4>1
    <3>3. m - k <= n
      BY <1>4, <3>1
    <3> QED
      BY <1>6, <1>9, <1>11, <2>3, <3>2, <3>3 DEF QueueIsTail, i, n
  <2> QED
    BY <2>2, <2>3
<1> QED
  BY <1>11, <1>13, <1>14, <1>15, <1>16, <1>17, NothingHandedOver

(* stop forgets what waits, and counts it as lost. *)
LEMMA Forgotten ==
    ASSUME AccountInv, TransportIInv', Stop
    PROVE  AccountInv'
<1>1. /\ issued' = issued /\ sent' = sent /\ lost' = lost \union UNION {Range(pending[e]) : e \in Names}
      /\ \A e \in Names : pending'[e] = << >>
  BY DEF Stop
<1>2. /\ sent \in [Names -> Seq(Replies)] /\ lost \subseteq Handed
      /\ \A x \in Names : /\ issued[x] \in Seq(Replies) /\ Placed(sent[x], pending[x], issued[x], lost)
                          /\ Range(issued[x]) \subseteq Handed /\ Range(sent[x]) \subseteq Range(issued[x])
                          /\ Range(pending[x]) \subseteq Range(issued[x])
  BY AccountParts
<1>3. ASSUME NEW e \in Names PROVE Placed(sent'[e], pending'[e], issued[e], lost')
  <2>1. Range(sent[e]) \intersect UNION {Range(pending[x]) : x \in Names} = {}
    <3>1. ASSUME NEW x \in Names PROVE Range(sent[e]) \intersect Range(pending[x]) = {}
      <4>1. CASE x = e
        BY <1>2, <4>1 DEF Placed
      <4>2. CASE x # e
        BY <1>2, <4>2 DEF AccountInv
      <4> QED
        BY <4>1, <4>2
    <3> QED
      BY <3>1
  <2>2. Range(<< >>) = {} /\ IsInjective(<< >>)
    BY DEF Range, IsInjective
  <2>3. Range(pending[e]) \subseteq lost'
    BY <1>1
  <2>4. lost \subseteq lost' /\ Range(sent[e]) \intersect lost' = {}
    BY <1>1, <1>2, <2>1 DEF Placed
  <2>5. Range(issued[e]) = Range(sent[e]) \union (lost' \intersect Range(issued[e]))
    BY <1>2, <2>3, <2>4 DEF Placed
  <2>6. IsInjective(sent[e])
    BY <1>2 DEF Placed
  <2> QED
    BY <1>1, <2>2, <2>4, <2>5, <2>6 DEF Placed
<1>4. ASSUME NEW e \in Names PROVE QueueIsTail(e)'
  <2>1. Len(pending'[e]) = 0 /\ Len(issued'[e]) \in Nat
    BY <1>1, <1>2
  <2> QED
    BY <2>1 DEF QueueIsTail
<1>5. lost' \subseteq Handed
  BY <1>1, <1>2
<1> QED
  BY <1>1, <1>2, <1>3, <1>4, <1>5, NothingHandedOver

LEMMA AccountStarts == Init => AccountInv
<1> SUFFICES ASSUME Init PROVE AccountInv
  OBVIOUS
<1>1. TransportIInv /\ sent \in [Names -> Seq(Replies)]
  BY InitIsRight DEF Init
<1>2. \A e \in Names : issued[e] = << >> /\ sent[e] = << >> /\ pending[e] = << >> /\ lost = {}
  BY DEF Init
<1>3. Range(<< >>) = {} /\ IsInjective(<< >>) /\ Len(<< >>) = 0
  BY DEF Range, IsInjective
<1>4. Handed = {} /\ Issued = 0
  <2>1. Handed = {}
    BY <1>2, <1>3 DEF Handed
  <2> QED
    BY <2>1, FS_EmptySet DEF Handed, Issued
<1>5. RepliesAccounted
  <2>1. \A e \in Names : Placed(sent[e], pending[e], issued[e], lost)
    BY <1>2, <1>3 DEF Placed
  <2> QED
    BY <1>1, <2>1, AccountedInParts DEF TransportIInv
<1>6. \A e \in Names : QueueIsTail(e)
  <2>1. \A e \in Names : Len(pending[e]) = 0 /\ Len(issued[e]) = 0
    BY <1>2, <1>3
  <2>2. 0 <= 0 /\ \A j \in 1..0 : FALSE
    OBVIOUS
  <2> QED
    BY <2>1, <2>2 DEF QueueIsTail
<1>7. Issued \in Nat /\ Handed = 1..Issued /\ lost \subseteq Handed
  BY <1>4, <1>2 DEF Init
<1>8. \A e, s \in Names : Range(issued[e]) \intersect Range(issued[s]) = {}
  BY <1>2, <1>3
<1> QED
  BY <1>1, <1>5, <1>6, <1>7, <1>8 DEF AccountInv

LEMMA AccountStep == AccountInv /\ [Next]_vars => AccountInv'
<1> SUFFICES ASSUME AccountInv, [Next]_vars PROVE AccountInv'
  OBVIOUS
<1>1. TransportIInv'
  BY StepKeeps DEF AccountInv
<1>2. CASE EnvironmentFails \/ OpenFails \/ Start \/ UNCHANGED vars
  <2>1. UNCHANGED <<issued, sent, lost, pending>>
    BY <1>2 DEF EnvironmentFails, OpenFails, Start, vars, history
  <2> QED
    BY <1>1, <2>1, QueuesAsTheyWere
<1>3. CASE Stop
  BY <1>1, <1>3, Forgotten
<1>4. ASSUME NEW e \in Names, OnReadable(e) \/ OnWritable(e) PROVE AccountInv'
  BY <1>1, <1>4, HandedOver, Written
<1> QED
  BY <1>2, <1>3, <1>4 DEF Next

LEMMA AccountInvariant == Spec => []AccountInv
BY AccountStarts, AccountStep, PTL DEF Spec

(* Every reply a handler gave is in one place, sent, waiting or lost, and once:  *)
(* a restart, a socket that fails half-way through its queue, and an endpoint    *)
(* that replies through another's socket neither repeat nor forget one.          *)
THEOREM TransportIsRight == Spec => []TransportInv
<1>1. AccountInv => TransportInv
  BY DEF AccountInv, TransportIInv, TransportInv, TypeOK
<1> QED
  BY <1>1, AccountInvariant, PTL

-----------------------------------------------------------------------------
(* The refinement. *)

Settled == [e \in Names |-> Len(issued[e]) - Len(pending[e])]

(* What ReplyChannel says of one socket, with the places spelled out. *)
LEMMA Serves ==
    ASSUME AccountInv, AccountInv', NEW e \in Names,
           NEW more \in {<< >>} \union {<<r>> : r \in Replies}, issued'[e] = issued[e] \o more,
           Settled[e] <= Settled'[e],
           NEW n \in 0..(Settled'[e] - Settled[e]), NEW place \in [1..n -> Settled[e] + 1 .. Settled'[e]],
           \A j, k \in 1..n : j < k => place[j] < place[k],
           sent'[e] = sent[e] \o [k \in 1..n |-> issued'[e][place[k]]]
    PROVE  Channel!Serve(e)
<1>1. issued'[e] \in Seq(Replies) /\ pending'[e] \in Seq(Replies) /\ Len(pending'[e]) <= Len(issued'[e])
  BY DEF AccountInv, TransportIInv, QueueTypes, QueueIsTail
<1>2. issued[e] \in Seq(Replies) /\ pending[e] \in Seq(Replies) /\ Len(pending[e]) <= Len(issued[e])
  BY DEF AccountInv, TransportIInv, QueueTypes, QueueIsTail
<1>3. Settled'[e] \in 0..Len(issued'[e]) /\ Settled[e] \in Nat
  <2>1. /\ Len(issued'[e]) \in Nat /\ Len(pending'[e]) \in Nat
        /\ Len(issued[e]) \in Nat /\ Len(pending[e]) \in Nat
    BY <1>1, <1>2
  <2>2. Settled'[e] = Len(issued'[e]) - Len(pending'[e]) /\ Settled[e] = Len(issued[e]) - Len(pending[e])
    BY DEF Settled
  <2>3. \A a, b \in Nat : b <= a => a - b \in 0..a /\ a - b \in Nat
    OBVIOUS
  <2>4. Len(issued'[e]) - Len(pending'[e]) \in 0..Len(issued'[e])
    BY <1>1, <2>1, <2>3
  <2>5. Len(issued[e]) - Len(pending[e]) \in Nat
    BY <1>2, <2>1, <2>3
  <2> QED
    BY <2>2, <2>4, <2>5
<1>4. Settled'[e] \in Settled[e]..Len(issued'[e])
  BY <1>3
<1> HIDE DEF Settled
<1> QED
  BY <1>4 DEF Channel!Serve, Settled

(* A socket to which nothing is done. *)
LEMMA Rests ==
    ASSUME AccountInv, AccountInv', NEW e \in Names,
           issued'[e] = issued[e], sent'[e] = sent[e], Settled[e] <= Settled'[e]
    PROVE  Channel!Serve(e)
<1> DEFINE none == << >>
           place == [k \in 1..0 |-> 0]
<1>1. issued[e] \in Seq(Replies) /\ sent[e] \in Seq(Replies) /\ pending[e] \in Seq(Replies)
  BY DEF AccountInv, TransportIInv, QueueTypes
<1>2. issued[e] \o none = issued[e] /\ sent[e] \o none = sent[e]
  BY <1>1
<1>3. none = [k \in 1..0 |-> issued'[e][place[k]]]
  OBVIOUS
<1>4. Settled[e] \in Int /\ Settled'[e] \in Int
  <2>1. pending'[e] \in Seq(Replies)
    BY DEF AccountInv, TransportIInv, QueueTypes
  <2> QED
    BY <1>1, <2>1 DEF Settled
<1>5. 0 \in 0..(Settled'[e] - Settled[e]) /\ place \in [1..0 -> Settled[e] + 1 .. Settled'[e]]
  BY <1>4
<1>6. \A j, k \in 1..0 : j < k => place[j] < place[k]
  OBVIOUS
<1>7. issued'[e] = issued[e] \o none /\ sent'[e] = sent[e] \o [k \in 1..0 |-> issued'[e][place[k]]]
  BY <1>2, <1>3
<1> HIDE DEF none, place
<1>8. none \in {<< >>} \union {<<r>> : r \in Replies}
  BY DEF none
<1> QED
  BY <1>5, <1>6, <1>7, <1>8, Serves

LEMMA HandOverServes ==
    ASSUME AccountInv, AccountInv', NEW e \in Names, OnReadable(e), NEW x \in Names
    PROVE  Channel!Serve(x)
<1> DEFINE s == Via[e]
<1>1. s \in Names
  BY NamesOfEndpoints
<1>2. PICK r \in Replies : /\ issued' = [issued EXCEPT ![s] = Append(@, r)]
                           /\ \E outcome \in Outcomes : Send(s, r, outcome)
  BY DEF OnReadable
<1>3. PICK outcome \in Outcomes : Send(s, r, outcome)
  BY <1>2
<1> HIDE DEF s
<1>4. /\ sent \in [Names -> Seq(Replies)] /\ issued \in [Names -> Seq(Replies)]
      /\ pending \in [Names -> Seq(Replies)] /\ pending' \in [Names -> Seq(Replies)]
  BY DEF AccountInv, TransportIInv, QueueTypes
<1>5. CASE x # s
  <2>1. issued'[x] = issued[x] /\ sent'[x] = sent[x] /\ pending'[x] = pending[x]
    BY <1>1, <1>2, <1>3, <1>4, <1>5 DEF Send
  <2>2. Settled'[x] = Settled[x] /\ Settled[x] <= Settled[x]
    <3>1. Len(issued[x]) \in Nat /\ Len(pending[x]) \in Nat
      BY <1>4
    <3>2. Settled'[x] = Settled[x] /\ Settled[x] = Len(issued[x]) - Len(pending[x])
      BY <2>1 DEF Settled
    <3> QED
      BY <3>1, <3>2
  <2> QED
    BY <2>1, <2>2, Rests
<1>6. CASE x = s
  <2> DEFINE one == <<r>>
  <2>1. issued'[s] = issued[s] \o one /\ Len(issued'[s]) = Len(issued[s]) + 1 /\ Len(issued[s]) \in Nat
        /\ issued'[s][Len(issued[s]) + 1] = r
    BY <1>1, <1>2, <1>4
  <2>2. one \in {<< >>} \union {<<y>> : y \in Replies}
    OBVIOUS
  <2>3. CASE Direct(s) /\ sent' = [sent EXCEPT ![s] = Append(@, r)] /\ pending' = pending
    <3> DEFINE a == Settled[s]
               b == Settled'[s]
               place == [k \in 1..1 |-> b]
    <3>1. a = Len(issued[s]) /\ b = a + 1 /\ a \in Nat
      BY <1>1, <1>4, <2>1, <2>3 DEF Settled, Direct
    <3>2. sent'[s] = sent[s] \o one
      BY <1>1, <1>4, <2>3
    <3>3. issued'[s][b] = r
      BY <2>1, <3>1
    <3> HIDE DEF a, b
    <3>4. one = [k \in 1..1 |-> issued'[s][place[k]]]
      BY <3>3
    <3>5. 1 \in 0..(b - a) /\ place \in [1..1 -> a + 1 .. b] /\ a <= b
      BY <3>1
    <3>6. \A j, k \in 1..1 : j < k => place[j] < place[k]
      OBVIOUS
    <3> HIDE DEF place, one
    <3>7. sent'[s] = sent[s] \o [k \in 1..1 |-> issued'[s][place[k]]]
      BY <3>2, <3>4
    <3> QED
      BY <1>1, <1>6, <2>1, <2>2, <3>5, <3>6, <3>7, Serves DEF a, b
  <2>4. CASE sent' = sent
    <3> DEFINE a == Settled[s]
               b == Settled'[s]
               place == [k \in 1..0 |-> 0]
               none == << >>
    <3>1. a \in Int /\ b \in Int /\ a <= b
      <4>1. CASE pending' = pending
        BY <1>1, <1>4, <2>1, <4>1 DEF Settled
      <4>2. CASE pending' = [pending EXCEPT ![s] = Append(@, r)]
        <5>1. Len(pending'[s]) = Len(pending[s]) + 1 /\ Len(pending[s]) \in Nat
          BY <1>1, <1>4, <4>2
        <5>2. a = Len(issued[s]) - Len(pending[s]) /\ b = (Len(issued[s]) + 1) - (Len(pending[s]) + 1)
          BY <1>1, <2>1, <5>1 DEF Settled
        <5> QED
          BY <2>1, <5>1, <5>2
      <4>3. pending' = pending \/ pending' = [pending EXCEPT ![s] = Append(@, r)]
        BY <1>3 DEF Send
      <4> QED
        BY <4>1, <4>2, <4>3
    <3>2. none = [k \in 1..0 |-> issued'[s][place[k]]] /\ sent[s] \o none = sent[s]
      BY <1>1, <1>4
    <3> HIDE DEF a, b
    <3>3. 0 \in 0..(b - a) /\ place \in [1..0 -> a + 1 .. b]
      BY <3>1
    <3>4. \A j, k \in 1..0 : j < k => place[j] < place[k]
      OBVIOUS
    <3>5. sent'[s] = sent[s] \o [k \in 1..0 |-> issued'[s][place[k]]]
      BY <2>4, <3>2
    <3> HIDE DEF place, one
    <3> QED
      BY <1>1, <1>6, <2>1, <2>2, <3>1, <3>3, <3>4, <3>5, Serves DEF a, b
  <2> QED
    BY <1>3, <2>3, <2>4 DEF Send
<1> QED
  BY <1>5, <1>6

(* The writer settles the head of the queue: what it sends is in its places. *)
LEMMA WrittenServes ==
    ASSUME AccountInv, AccountInv', NEW e \in Names, OnWritable(e), NEW x \in Names
    PROVE  Channel!Serve(x)
<1>1. PICK k \in 0..Len(pending[e]) : \E failed \in SUBSET (1..k) :
        /\ sent' = [sent EXCEPT ![e] = @ \o InOrder(pending[e], (1..k) \ failed)]
        /\ pending' = [pending EXCEPT ![e] = SubSeq(pending[e], k + 1, Len(pending[e]))]
  BY DEF OnWritable, Dropped
<1>2. PICK failed \in SUBSET (1..k) :
        /\ sent' = [sent EXCEPT ![e] = @ \o InOrder(pending[e], (1..k) \ failed)]
        /\ pending' = [pending EXCEPT ![e] = SubSeq(pending[e], k + 1, Len(pending[e]))]
  BY <1>1
<1>3. issued' = issued
  BY DEF OnWritable
<1>4. /\ sent \in [Names -> Seq(Replies)] /\ issued \in [Names -> Seq(Replies)]
      /\ pending \in [Names -> Seq(Replies)] /\ pending' \in [Names -> Seq(Replies)]
  BY DEF AccountInv, TransportIInv, QueueTypes
<1>5. CASE x # e
  <2>1. issued'[x] = issued[x] /\ sent'[x] = sent[x] /\ pending'[x] = pending[x]
    BY <1>2, <1>3, <1>4, <1>5
  <2>2. Settled'[x] = Settled[x] /\ Settled[x] <= Settled[x]
    <3>1. Len(issued[x]) \in Nat /\ Len(pending[x]) \in Nat
      BY <1>4
    <3>2. Settled'[x] = Settled[x] /\ Settled[x] = Len(issued[x]) - Len(pending[x])
      BY <2>1 DEF Settled
    <3> QED
      BY <3>1, <3>2
  <2> QED
    BY <2>1, <2>2, Rests
<1>6. CASE x = e
  <2> DEFINE q    == pending[e]
             m    == Len(q)
             i    == issued[e]
             kept == (1..k) \ failed
             took == InOrder(q, kept)
             n    == Len(took)
             a    == Settled[e]
             b    == Settled'[e]
  <2>1. q \in Seq(Replies) /\ m \in Nat /\ k \in 0..m /\ IsInjective(q) /\ i \in Seq(Replies) /\ Len(i) \in Nat
        /\ m = Len(q)
    BY <1>4, AccountParts DEF Placed
  <2>2. m <= Len(i) /\ \A j \in 1..m : q[j] = i[Len(i) - m + j]
    BY DEF AccountInv, QueueIsTail
  <2>3. /\ took \in Seq(Replies)
        /\ \E at \in [1..n -> kept] : /\ \A j, h \in 1..n : j < h => at[j] < at[h]
                                      /\ \A j \in 1..n : took[j] = q[at[j]]
    <3>1. kept \in SUBSET (1..Len(q))
      BY <2>1
    <3> HIDE DEF q, kept
    <3> QED
      BY <2>1, <3>1, InOrderTakes
  <2>4. PICK at \in [1..n -> kept] : /\ \A j, h \in 1..n : j < h => at[j] < at[h]
                                     /\ \A j \in 1..n : took[j] = q[at[j]]
    BY <2>3
  <2>5. sent'[e] = sent[e] \o took
    BY <1>2, <1>4
  <2>6. a = Len(i) - m /\ b = a + k
    <3>1. Len(pending'[e]) = m - k
      BY <1>2, <1>4, <2>1
    <3>2. Settled[e] = Len(i) - m /\ Settled'[e] = Len(i) - (m - k)
      BY <1>3, <3>1 DEF Settled
    <3> HIDE DEF m, i
    <3> QED
      BY <2>1, <3>2
  <2>7. kept \subseteq 1..k
    OBVIOUS
  <2> HIDE DEF q, m, i, kept, took, a, b
  <2>8. n \in Nat /\ a \in Nat /\ n <= k
    <3>1. n \in Nat
      BY <2>3
    <3>0. \A h \in Nat : IsFiniteSet(1..h) /\ Cardinality(1..h) = h
      <4> SUFFICES ASSUME NEW h \in Nat PROVE IsFiniteSet(1..h) /\ Cardinality(1..h) = h
        OBVIOUS
      <4> QED
        BY FS_Interval
    <3>2. IsFiniteSet(1..n) /\ Cardinality(1..n) = n /\ IsFiniteSet(1..k) /\ Cardinality(1..k) = k
      <4> HIDE DEF n
      <4> QED
        BY <2>1, <3>0, <3>1
    <3>3. at \in Injection(1..n, 1..k)
      <4>1. at \in [1..n -> 1..k]
        BY <2>7
      <4>2. ASSUME NEW j \in 1..n, NEW h \in 1..n, at[j] = at[h] PROVE j = h
        <5>1. at[j] \in 1..k /\ at[h] \in 1..k
          BY <4>1
        <5>2. ~(j < h) /\ ~(h < j)
          BY <2>4, <4>2, <5>1
        <5> QED
          BY <3>1, <5>2
      <4> QED
        BY <4>1, <4>2 DEF Injection, IsInjective
    <3>4. n <= k
      <4> HIDE DEF n
      <4> QED
        BY <3>2, <3>3, FS_Injection
    <3> QED
      BY <2>1, <2>2, <2>6, <3>1, <3>4
  <2> DEFINE place == [j \in 1..n |-> a + at[j]]
  <2>9. \A j \in 1..n : at[j] \in 1..k /\ at[j] \in Nat
    <3>1. \A j \in 1..n : at[j] \in kept
      OBVIOUS
    <3>2. \A h \in 1..k : h \in Nat
      BY <2>1
    <3> QED
      BY <2>7, <3>1, <3>2
  <2>10. n \in 0..(b - a) /\ a <= b
    BY <2>1, <2>6, <2>8
  <2> HIDE DEF n
  <2>11. place \in [1..n -> a + 1 .. b] /\ \A j \in 1..n : place[j] = a + at[j]
    <3>1. \A j \in 1..n : a + at[j] \in a + 1 .. b
      BY <2>1, <2>6, <2>8, <2>9
    <3> QED
      BY <3>1
  <2>12. \A j, h \in 1..n : j < h => place[j] < place[h]
    BY <2>4, <2>8, <2>9, <2>11
  <2>13. took = [j \in 1..n |-> issued'[e][place[j]]]
    <3>1. ASSUME NEW j \in 1..n PROVE took[j] = issued'[e][place[j]]
      <4>1. took[j] = q[at[j]] /\ at[j] \in 1..m
        BY <2>1, <2>4, <2>9
      <4>2. q[at[j]] = i[Len(i) - m + at[j]]
        BY <2>2, <4>1
      <4>3. place[j] = Len(i) - m + at[j]
        BY <2>6, <2>11
      <4> QED
        BY <1>3, <4>1, <4>2, <4>3 DEF i
    <3>2. DOMAIN took = 1..n
      BY <2>3 DEF n
    <3>3. took = [j \in DOMAIN took |-> took[j]]
      BY <2>3
    <3> QED
      BY <3>1, <3>2, <3>3
  <2> HIDE DEF place
  <2>14. sent'[e] = sent[e] \o [j \in 1..n |-> issued'[e][place[j]]]
    BY <2>5, <2>13
  <2>15. issued'[e] = issued[e] \o << >>
    BY <1>3, <1>4
  <2> QED
    BY <1>6, <2>10, <2>11, <2>12, <2>14, <2>15, Serves DEF a, b
<1> QED
  BY <1>5, <1>6

LEMMA ChannelBegins == Init => Channel!ChannelInit
BY DEF Init, Channel!ChannelInit

LEMMA ChannelGoesOn ==
    ASSUME AccountInv, [Next]_vars
    PROVE  (\A s \in Names : Channel!Serve(s)) \/ UNCHANGED <<issued, Settled, sent>>
<1>1. AccountInv'
  BY AccountStep
<1>2. CASE EnvironmentFails \/ OpenFails \/ Start \/ UNCHANGED vars
  BY <1>2 DEF EnvironmentFails, OpenFails, Start, vars, history, Settled
<1>3. CASE Stop
  <2>1. issued' = issued /\ sent' = sent /\ \A s \in Names : pending'[s] = << >>
    BY <1>3 DEF Stop
  <2>2. ASSUME NEW s \in Names PROVE Settled[s] <= Settled'[s]
    <3>1. Len(issued[s]) \in Nat /\ Len(pending[s]) \in Nat /\ Len(pending'[s]) = 0
      BY <2>1 DEF AccountInv, TransportIInv, QueueTypes
    <3>2. Settled[s] = Len(issued[s]) - Len(pending[s]) /\ Settled'[s] = Len(issued[s]) - 0
      BY <2>1, <3>1 DEF Settled
    <3>3. \A a, b \in Nat : a - b <= a - 0
      OBVIOUS
    <3> QED
      BY <3>1, <3>2, <3>3
  <2> QED
    BY <1>1, <2>1, <2>2, Rests
<1>4. ASSUME NEW e \in Names, OnReadable(e) PROVE \A s \in Names : Channel!Serve(s)
  BY <1>1, <1>4, HandOverServes
<1>5. ASSUME NEW e \in Names, OnWritable(e) PROVE \A s \in Names : Channel!Serve(s)
  BY <1>1, <1>5, WrittenServes
<1> QED
  BY <1>2, <1>3, <1>4, <1>5 DEF Next

(* The transport implements the channel its users are promised: replies leave   *)
(* each socket in the order in which they were handed to it, a failed one        *)
(* skipped, whether they went at once or waited, and across restarts.            *)
THEOREM TransportImplementsChannel == Spec => ImplementsChannel
<1>1. AccountInv /\ [Next]_vars => [\A s \in Names : Channel!Serve(s)]_<<issued, Settled, sent>>
  BY ChannelGoesOn
<1> QED
  BY <1>1, ChannelBegins, AccountInvariant, PTL
     DEF Spec, ImplementsChannel, Channel!ChannelSpec, Channel!channel, Settled
=============================================================================
