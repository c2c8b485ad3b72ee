------------------------------ MODULE PageProofs ------------------------------
(***************************************************************************)
(* The browser page and its announcer, for every budget of attempts.        *)
(*   The page's functions run within a callback, so the proof follows them:   *)
(* a lemma for each operator of PageClient says which page it makes of which    *)
(* page, the lemmas of the callbacks put them together, and PageOK is what all    *)
(* of them keep.  Turned adds what a callback may not do to the Live of the page    *)
(* and to the budget of its episode; AnnOK relates what the announcer remembers      *)
(* to what it has said.                                                                *)
(***************************************************************************)
EXTENDS PageBench, FiniteSetTheorems, TLAPS

Reqs == [connect : BOOLEAN, mine : BOOLEAN, malformed : BOOLEAN, unreadable : BOOLEAN, incomplete : BOOLEAN,
         after : BOOLEAN, encoding : BOOLEAN, ok : BOOLEAN, okAfter : BOOLEAN]
Eps == [state : {"none", "active", "exhausted"}, attempts : Nat, inFlight : BOOLEAN]
Sockets == [open : BOOLEAN, opened : BOOLEAN, spoiled : BOOLEAN, due : {"hello", "state", "any"}]
Pages ==
    [conn : {"loading", "live", "down", "refused"}, req : Reqs, ep : Eps, ws : Sockets, timer : BOOLEAN,
     connecting : BOOLEAN, fetches : SUBSET Fetches, pollTimer : {"none", "current", "stale"},
     polling : BOOLEAN, loaded : BOOLEAN, known : BOOLEAN, old : BOOLEAN, trust : {"none", "opened", "state"}]

(* The fetches that count. *)
Has(p, what) == [what |-> what, current |-> TRUE] \in p.fetches
InAttempt(p) == Has(p, "status") \/ Has(p, "initial") \/ Has(p, "diagnose")
Polled(p) == Has(p, "poll") \/ p.pollTimer = "current"
Exhausted(p) == p.ep.state = "exhausted"

(* fetchJson, of this generation: one more fetch that counts. *)
LEMMA Starts ==
    ASSUME NEW p \in Pages, NEW what \in {"status", "initial", "diagnose", "poll"}
    PROVE  /\ Start(p, what) \in Pages
           /\ \A w : Has(Start(p, what), w) <=> Has(p, w) \/ w = what
           /\ Start(p, what) = [p EXCEPT !.fetches = Start(p, what).fetches]
<1> DEFINE q == Start(p, what)
           f == [what |-> what, current |-> TRUE]
<1>1. f \in Fetches
  BY DEF Fetches
<1>2. q = [p EXCEPT !.fetches = p.fetches \cup {f}]
  BY DEF Start
<1>4. \A w : [what |-> w, current |-> TRUE] = f <=> w = what
  OBVIOUS
<1> DEFINE more == p.fetches \cup {f}
<1>6. more \in SUBSET Fetches
  BY <1>1 DEF Pages
<1> HIDE DEF f
<1>7. q = [p EXCEPT !.fetches = more]
  BY <1>2
<1> HIDE DEF more
<1>8. q \in Pages /\ q.fetches = more
  BY <1>6, <1>7 DEF Pages
<1>3. q \in Pages /\ q.fetches = p.fetches \cup {f}
  BY <1>8 DEF more
<1>5. \A w : Has(q, w) <=> Has(p, w) \/ w = what
  BY <1>3, <1>4 DEF Has
<1> QED
  BY <1>2, <1>3, <1>5

(* S.gen += 1: nothing that was started counts any more. *)
LEMMA Generation ==
    ASSUME NEW p \in Pages
    PROVE  LET q == NewGeneration(p)
           IN  /\ q \in Pages
               /\ \A w : ~Has(q, w)
               /\ q.pollTimer # "current" /\ q.polling = FALSE
               /\ q.conn = p.conn /\ q.req = p.req /\ q.ep = p.ep /\ q.ws = p.ws /\ q.timer = p.timer
               /\ q.connecting = p.connecting /\ q.loaded = p.loaded /\ q.known = p.known /\ q.old = p.old
               /\ q.trust = p.trust
<1> DEFINE q == NewGeneration(p)
           F == {[f EXCEPT !.current = FALSE] : f \in p.fetches}
           t == IF p.pollTimer = "none" THEN "none" ELSE "stale"
<1>1. p.fetches \subseteq Fetches
  BY DEF Pages
<1>2. F \subseteq Fetches /\ \A f \in F : f.current = FALSE
  BY <1>1 DEF Fetches
<1>3. q = [p EXCEPT !.fetches = F, !.pollTimer = t, !.polling = FALSE]
  BY DEF NewGeneration
<1>4. t \in {"none", "stale"}
  OBVIOUS
<1> HIDE DEF F, t
<1>5. /\ q \in Pages /\ q.fetches = F /\ q.pollTimer = t /\ q.polling = FALSE
      /\ q.conn = p.conn /\ q.req = p.req /\ q.ep = p.ep /\ q.ws = p.ws /\ q.timer = p.timer
      /\ q.connecting = p.connecting /\ q.loaded = p.loaded /\ q.known = p.known /\ q.old = p.old
      /\ q.trust = p.trust
  BY <1>2, <1>3, <1>4 DEF Pages
<1>6. \A w : ~Has(q, w)
  BY <1>2, <1>5 DEF Has
<1> HIDE DEF q
<1> QED
  BY <1>4, <1>5, <1>6 DEF q

(* resyncClose leaves the page without a socket, a fetch or a poll. *)
LEMMA Resyncs ==
    ASSUME NEW p \in Pages
    PROVE  LET q == ResyncClose(p)
           IN  /\ q \in Pages
               /\ \A w : ~Has(q, w)
               /\ q.pollTimer = "none" /\ q.polling = FALSE /\ q.connecting = FALSE /\ q.ws = NoWs
               /\ q.trust = "none" /\ q.conn = p.conn /\ q.req = p.req /\ q.ep = p.ep /\ q.timer = p.timer
<1> DEFINE g == NewGeneration(p)
           q == ResyncClose(p)
<1>1. g \in Pages /\ \A w : ~Has(g, w)
  BY Generation
<1>2. g.conn = p.conn /\ g.req = p.req /\ g.ep = p.ep /\ g.timer = p.timer /\ g.polling = FALSE
  BY Generation
<1> HIDE DEF g
<1> DEFINE old == g.old \/ g.ws.open
           h == [g EXCEPT !.ws = NoWs, !.old = old, !.trust = "none"]
<1>3. q = [h EXCEPT !.connecting = FALSE, !.pollTimer = "none"]
  BY DEF ResyncClose, CloseSocket, g
<1>4. NoWs \in Sockets /\ old \in BOOLEAN
  BY DEF NoWs, Sockets
<1> HIDE DEF old, NoWs
<1>7. /\ h \in Pages /\ h.fetches = g.fetches /\ h.polling = g.polling /\ h.ws = NoWs /\ h.trust = "none"
      /\ h.conn = g.conn /\ h.req = g.req /\ h.ep = g.ep /\ h.timer = g.timer
  BY <1>1, <1>4 DEF Pages
<1> HIDE DEF h, q
<1>5. /\ q \in Pages /\ q.fetches = g.fetches
      /\ q.pollTimer = "none" /\ q.polling = FALSE /\ q.connecting = FALSE /\ q.ws = NoWs
      /\ q.trust = "none" /\ q.conn = p.conn /\ q.req = p.req /\ q.ep = p.ep /\ q.timer = p.timer
  BY <1>2, <1>3, <1>7 DEF Pages
<1>6. \A w : ~Has(q, w)
  BY <1>1, <1>5 DEF Has
<1> QED
  BY <1>5, <1>6 DEF q

-----------------------------------------------------------------------------
(* The page between two callbacks. *)

(* OneDriver, of a page. *)
Driver(p) ==
    /\ p.timer => ~p.connecting /\ ~p.ws.open /\ ~Exhausted(p)
    /\ p.connecting <=> InAttempt(p) \/ (p.ws.open /\ ~Polled(p) /\ ~Exhausted(p))
    /\ ~(Has(p, "status") /\ Has(p, "initial")) /\ ~(Has(p, "status") /\ Has(p, "diagnose"))
    /\ ~(Has(p, "initial") /\ Has(p, "diagnose")) /\ (p.ws.open => ~InAttempt(p))
    /\ ~(Has(p, "poll") /\ p.pollTimer = "current")
    /\ Polled(p) => p.ws.open /\ p.conn = "live"
    /\ p.timer \/ p.connecting \/ Polled(p) \/ Exhausted(p)

(* What holds also within a callback. *)
Sound(p) ==
    /\ p \in Pages
    /\ p.ep.state = "none" => p.ep = NoEp
    /\ ~Pending(p) => p.ep.state = "none"
    /\ Exhausted(p) => ~p.timer /\ ~p.ep.inFlight
    /\ p.ep.attempts <= EPISODE_ATTEMPTS
    /\ p.req.malformed <=> p.req.unreadable \/ p.req.incomplete

(* An episode, and the attempt of it that is under way. *)
EpisodeOK(p) ==
    /\ p.ep.inFlight <=> Active(p) /\ (p.connecting \/ p.ws.open)
    /\ Active(p) /\ ~p.ep.inFlight => p.ep.attempts < EPISODE_ATTEMPTS
    /\ Exhausted(p) => ~p.connecting /\ (Stale(p) \/ HasFault(p)) /\ (p.ws.open => p.ws.due # "hello")

(* A socket, before and after its hello. *)
SocketOK(p) ==
    /\ ~p.ws.open => p.ws = NoWs
    /\ p.ws.due # "hello" => p.ws.opened
    /\ p.ws.due = "hello" => ~Polled(p)
    /\ p.ws.spoiled => p.req.malformed
    /\ p.ws.open /\ p.ws.due # "hello" /\ ~p.ws.spoiled => Polled(p)
    /\ p.ws.open /\ p.ws.due # "hello" /\ ~HasFault(p) /\ Pending(p) => p.req.mine
    /\ p.polling <=> Polled(p)

(* What makes a state worth trusting. *)
TrustOK(p) ==
    /\ p.ws.open /\ (HasFault(p) => Qualifies(p)) => p.trust # "none"
    /\ Live(p) => p.ws.open /\ p.ws.due # "hello" /\ p.trust = "state"

PageOK(p) == Sound(p) /\ Driver(p) /\ EpisodeOK(p) /\ SocketOK(p) /\ TrustOK(p)

(* A page without a socket and without a fetch that counts. *)
Resting(q) ==
    /\ q \in Pages /\ \A w : ~Has(q, w)
    /\ q.pollTimer = "none" /\ q.polling = FALSE /\ q.connecting = FALSE /\ q.ws = NoWs

LEMMA RestingIsOK ==
    ASSUME NEW q, Resting(q), Sound(q), q.timer <=> ~Exhausted(q), ~Live(q),
           ~q.ep.inFlight, Active(q) => q.ep.attempts < EPISODE_ATTEMPTS,
           Exhausted(q) => Stale(q) \/ HasFault(q)
    PROVE  PageOK(q)
<1>1. q.ws.open = FALSE /\ q.ws.opened = FALSE /\ q.ws.spoiled = FALSE /\ q.ws.due = "hello"
  BY DEF Resting, NoWs
<1>2. ~InAttempt(q) /\ ~Polled(q) /\ ~Has(q, "status") /\ ~Has(q, "initial") /\ ~Has(q, "diagnose")
  BY DEF InAttempt, Polled, Resting
<1>3. Driver(q)
  BY <1>1, <1>2 DEF Driver, Resting
<1>4. EpisodeOK(q)
  BY <1>1 DEF EpisodeOK, Resting, Active, Exhausted
<1>5. SocketOK(q)
  BY <1>1, <1>2 DEF SocketOK, Resting
<1>6. TrustOK(q)
  BY <1>1 DEF TrustOK
<1> QED
  BY <1>3, <1>4, <1>5, <1>6 DEF PageOK

LEMMA NewEpIs == NewEp \in Eps /\ NewEp.state = "active" /\ NewEp.attempts = 0 /\ NewEp.inFlight = FALSE
                 /\ NoEp \in Eps /\ NoEp.state = "none" /\ NoEp.attempts = 0 /\ NoEp.inFlight = FALSE
BY DEF NewEp, NoEp, Eps

(* startEpisode waits for its retry timer. *)
LEMMA StartEpisodeIsOK ==
    ASSUME NEW p, Sound(p), Pending(p)
    PROVE  LET q == StartEpisode(p)
           IN  /\ PageOK(q) /\ q.ep = NewEp /\ q.conn = p.conn /\ q.req = p.req /\ q.trust = "none"
<1> DEFINE g == ResyncClose(p)
           q == StartEpisode(p)
<1>1. Resting(g) /\ g.trust = "none" /\ g.conn = p.conn /\ g.req = p.req /\ p \in Pages
  BY Resyncs DEF Sound, Resting
<1>2. q = [g EXCEPT !.ep = NewEp, !.timer = TRUE]
  BY DEF StartEpisode
<1> HIDE DEF g, q
<1>3. /\ q \in Pages /\ q.ep = NewEp /\ q.conn = g.conn /\ q.req = g.req /\ q.trust = g.trust /\ q.timer = TRUE
      /\ q.fetches = g.fetches /\ q.pollTimer = g.pollTimer /\ q.polling = g.polling
      /\ q.connecting = g.connecting /\ q.ws = g.ws
  BY <1>1, <1>2, NewEpIs DEF Pages, Resting
<1>4. Resting(q)
  BY <1>1, <1>3 DEF Resting, Has
<1>5. Pending(q) /\ ~Live(q)
  BY <1>1, <1>3 DEF Pending, Live
<1>6. Sound(q) /\ ~Exhausted(q) /\ ~q.ep.inFlight /\ q.ep.attempts < EPISODE_ATTEMPTS
  BY <1>1, <1>3, <1>5, NewEpIs, AttemptsAssumption DEF Sound, Exhausted
<1>7. PageOK(q)
  BY <1>3, <1>4, <1>5, <1>6, RestingIsOK
<1> QED
  BY <1>1, <1>3, <1>7 DEF q

(* fail, and the end of an attempt that has no socket. *)
LEMMA AttemptEndsIsOK ==
    ASSUME NEW p, Resting(p), Sound(p), Active(p), Stale(p)
    PROVE  LET q == AttemptEnded(p, FALSE)
           IN  PageOK(q) /\ q.conn = p.conn /\ q.req = p.req /\ q.trust = p.trust
               /\ q.ep.state # "none" /\ q.ep.attempts = p.ep.attempts
<1> DEFINE e == [p.ep EXCEPT !.inFlight = FALSE]
           m == [p EXCEPT !.ep.inFlight = FALSE, !.connecting = FALSE]
           x == [e EXCEPT !.state = "exhausted"]
           q == AttemptEnded(p, FALSE)
<1>1. p \in Pages /\ p.ep \in Eps
  BY DEF Resting, Pages
<1>2. e \in Eps /\ e.state = p.ep.state /\ e.attempts = p.ep.attempts /\ e.inFlight = FALSE
  BY <1>1 DEF Eps
<1>3. x \in Eps /\ x.state = "exhausted" /\ x.attempts = p.ep.attempts /\ x.inFlight = FALSE
  BY <1>2 DEF Eps
<1>5. m = [p EXCEPT !.ep = e, !.connecting = FALSE]
  BY <1>1 DEF e
<1> HIDE DEF e, x
<1>4. /\ m \in Pages /\ m.ep = e /\ m.conn = p.conn /\ m.req = p.req /\ m.trust = p.trust /\ m.timer = p.timer
      /\ m.fetches = p.fetches /\ m.pollTimer = p.pollTimer /\ m.polling = p.polling
      /\ m.connecting = FALSE /\ m.ws = p.ws
  BY <1>1, <1>2, <1>5 DEF Pages
<1>6. p.ws.open = FALSE /\ (Spent(m) <=> p.ep.attempts >= EPISODE_ATTEMPTS)
  <2>1. m.ep.attempts = p.ep.attempts
    BY <1>2, <1>4
  <2> HIDE DEF m
  <2> QED
    BY <2>1 DEF Resting, NoWs, Spent
<1>7. q = IF p.ep.attempts >= EPISODE_ATTEMPTS THEN [m EXCEPT !.ep = x, !.timer = FALSE]
          ELSE [m EXCEPT !.timer = TRUE]
  <2>1. CASE p.ep.attempts >= EPISODE_ATTEMPTS
    <3> DEFINE r == [m EXCEPT !.ep.state = "exhausted", !.timer = FALSE]
    <3>1. r = [m EXCEPT !.ep = x, !.timer = FALSE]
      BY <1>4 DEF x
    <3>2. r.ws = m.ws
      BY <1>4 DEF Pages
    <3>3. r.ws.open = FALSE
      BY <1>4, <1>6, <3>2
    <3>4. q = IF Spent(m) THEN IF r.ws.open /\ r.conn = "live" /\ ~r.polling THEN Poll(r) ELSE r
              ELSE [m EXCEPT !.timer = TRUE]
      BY DEF AttemptEnded
    <3> HIDE DEF m, q, r
    <3> QED
      BY <1>6, <2>1, <3>1, <3>3, <3>4
  <2>2. CASE ~(p.ep.attempts >= EPISODE_ATTEMPTS)
    <3> DEFINE r == [m EXCEPT !.ep.state = "exhausted", !.timer = FALSE]
    <3>1. q = IF Spent(m) THEN IF r.ws.open /\ r.conn = "live" /\ ~r.polling THEN Poll(r) ELSE r
              ELSE [m EXCEPT !.timer = TRUE]
      BY DEF AttemptEnded
    <3> HIDE DEF m, q, r
    <3> QED
      BY <1>6, <2>2, <3>1
  <2> QED
    BY <2>1, <2>2
<1> HIDE DEF m, q
<1>8. CASE p.ep.attempts >= EPISODE_ATTEMPTS
  <2>1. /\ q \in Pages /\ q.ep = x /\ q.timer = FALSE /\ q.conn = p.conn /\ q.req = p.req /\ q.trust = p.trust
        /\ q.fetches = p.fetches /\ q.pollTimer = p.pollTimer /\ q.polling = p.polling
        /\ q.connecting = FALSE /\ q.ws = p.ws
    BY <1>3, <1>4, <1>7, <1>8 DEF Pages
  <2>2. Resting(q) /\ Exhausted(q) /\ Stale(q) /\ ~Live(q) /\ ~Active(q)
    BY <1>3, <2>1 DEF Resting, Has, Exhausted, Stale, Live, Active
  <2>3. Sound(q)
    BY <1>3, <2>1, <2>2 DEF Sound, Pending, Exhausted, Active
  <2>4. PageOK(q)
    BY <1>3, <2>1, <2>2, <2>3, RestingIsOK
  <2> QED
    BY <1>3, <2>1, <2>4 DEF q
<1>9. CASE ~(p.ep.attempts >= EPISODE_ATTEMPTS)
  <2>1. /\ q \in Pages /\ q.ep = e /\ q.timer = TRUE /\ q.conn = p.conn /\ q.req = p.req /\ q.trust = p.trust
        /\ q.fetches = p.fetches /\ q.pollTimer = p.pollTimer /\ q.polling = p.polling
        /\ q.connecting = FALSE /\ q.ws = p.ws
    BY <1>2, <1>4, <1>7, <1>9 DEF Pages
  <2>2. Resting(q) /\ ~Exhausted(q) /\ Stale(q) /\ ~Live(q) /\ q.ep.attempts < EPISODE_ATTEMPTS
    BY <1>1, <1>2, <1>9, <2>1, AttemptsAssumption DEF Resting, Has, Exhausted, Stale, Live, Active, Eps
  <2>3. Sound(q)
    BY <1>2, <2>1, <2>2 DEF Sound, Pending, Exhausted, Active
  <2>4. PageOK(q)
    BY <1>2, <2>1, <2>2, <2>3, RestingIsOK
  <2> QED
    BY <1>2, <2>1, <2>4 DEF q, Active
<1> QED
  BY <1>8, <1>9 DEF q

(* fail leaves a page that is stale, whatever the page was within the callback. *)
LEMMA FailIsOK ==
    ASSUME NEW p, Sound(p), NEW refused \in BOOLEAN
    PROVE  LET q == Fail(p, refused)
           IN  /\ PageOK(q) /\ Stale(q) /\ q.trust = "none" /\ q.req = p.req
               /\ q.ep.attempts = p.ep.attempts /\ (q.ep = NoEp => p.ep = NoEp)
<1> DEFINE g == ResyncClose(p)
           c == IF refused THEN "refused" ELSE "down"
           h == [g EXCEPT !.conn = c]
           q == Fail(p, refused)
<1>1. Resting(g) /\ g.trust = "none" /\ g.req = p.req /\ g.ep = p.ep /\ g.timer = p.timer /\ p \in Pages
  BY Resyncs DEF Sound, Resting
<1>2. c \in {"down", "refused"}
  OBVIOUS
<1>3. q = IF h.ep = NoEp THEN [h EXCEPT !.timer = TRUE] ELSE IF Active(h) THEN AttemptEnded(h, FALSE) ELSE h
  BY DEF Fail
<1> HIDE DEF g, c, q
<1>4. /\ h \in Pages /\ h.conn = c /\ h.req = p.req /\ h.ep = p.ep /\ h.timer = p.timer /\ h.trust = "none"
      /\ h.fetches = g.fetches /\ h.pollTimer = g.pollTimer /\ h.polling = g.polling
      /\ h.connecting = g.connecting /\ h.ws = g.ws
  BY <1>1, <1>2 DEF Pages, Resting
<1> HIDE DEF h
<1>5. Resting(h) /\ Sound(h) /\ Stale(h) /\ ~Live(h)
  <2>1. Resting(h)
    BY <1>1, <1>4 DEF Resting, Has
  <2>2. Sound(h)
    BY <1>4 DEF Sound, Pending, Exhausted
  <2> QED
    BY <1>2, <1>4, <2>1, <2>2 DEF Stale, Live
<1>6. CASE h.ep = NoEp
  <2>1. /\ q \in Pages /\ q.conn = h.conn /\ q.req = p.req /\ q.ep = NoEp /\ q.timer = TRUE /\ q.trust = "none"
        /\ q.fetches = h.fetches /\ q.pollTimer = h.pollTimer /\ q.polling = h.polling
        /\ q.connecting = h.connecting /\ q.ws = h.ws
    BY <1>3, <1>4, <1>6 DEF Pages
  <2>2. Resting(q) /\ Sound(q) /\ Stale(q) /\ ~Live(q)
    <3>1. Resting(q)
      BY <1>5, <2>1 DEF Resting, Has
    <3>2. Sound(q)
      BY <1>5, <1>4, <1>6, <2>1, NewEpIs DEF Sound, Pending, Exhausted
    <3> QED
      BY <1>5, <2>1, <3>1, <3>2 DEF Stale, Live
  <2>3. PageOK(q)
    BY <2>1, <2>2, NewEpIs, RestingIsOK DEF Exhausted, Active
  <2> QED
    BY <1>4, <1>6, <2>1, <2>2, <2>3 DEF q
<1>7. CASE h.ep # NoEp /\ Active(h)
  <2>1. q = AttemptEnded(h, FALSE)
    BY <1>3, <1>7
  <2>2. PageOK(q) /\ q.conn = h.conn /\ q.req = h.req /\ q.trust = h.trust /\ q.ep.state # "none"
        /\ q.ep.attempts = h.ep.attempts
    BY <1>5, <1>7, <2>1, AttemptEndsIsOK
  <2> QED
    BY <1>4, <1>5, <2>2, NewEpIs DEF q, Stale
<1>8. CASE h.ep # NoEp /\ ~Active(h)
  <2>1. q = h
    BY <1>3, <1>8
  <2>2. Exhausted(h)
    BY <1>4, <1>5, <1>8 DEF Sound, Active, Exhausted, Pages, Eps
  <2>3. PageOK(h)
    BY <1>5, <1>8, <2>2, RestingIsOK DEF Sound
  <2> QED
    BY <1>4, <1>5, <2>1, <2>3 DEF q
<1> QED
  BY <1>6, <1>7, <1>8 DEF q

(* connect starts an attempt, which an episode counts. *)
LEMMA ConnectIsOK ==
    ASSUME NEW p, Sound(p), ~p.connecting, p.ws = NoWs, ~p.ep.inFlight, ~Exhausted(p), ~Live(p),
           Active(p) => p.ep.attempts < EPISODE_ATTEMPTS
    PROVE  LET q == Connect(p)
           IN  /\ PageOK(q) /\ q.conn = p.conn /\ q.req = p.req /\ q.trust = p.trust
               /\ q.ep.state = p.ep.state /\ q.ep.attempts >= p.ep.attempts
<1> DEFINE g == NewGeneration(p)
           e == AttemptStarted(p)
           m == [g EXCEPT !.connecting = TRUE, !.timer = FALSE, !.ep = e]
           q == Connect(p)
<1>1. /\ g \in Pages /\ (\A w : ~Has(g, w)) /\ g.pollTimer # "current" /\ g.polling = FALSE
      /\ g.conn = p.conn /\ g.req = p.req /\ g.ws = p.ws /\ g.trust = p.trust
  BY Generation DEF Sound
<1>2. p \in Pages /\ p.ep \in Eps /\ p.ep.attempts \in Nat /\ p.ws.open = FALSE
  BY DEF Sound, Pages, Eps, NoWs
<1>3. /\ e \in Eps /\ e.state = p.ep.state /\ (e.inFlight <=> Active(p)) /\ e.attempts >= p.ep.attempts
      /\ e.attempts <= EPISODE_ATTEMPTS /\ (~Active(p) => e = p.ep)
  <2>1. CASE Active(p)
    <3> DEFINE n == p.ep.attempts + 1
    <3>3. n \in Nat /\ n <= EPISODE_ATTEMPTS /\ n >= p.ep.attempts
      BY <1>2, <2>1, AttemptsAssumption
    <3>1. e = [p.ep EXCEPT !.attempts = n, !.inFlight = TRUE]
      BY <2>1 DEF AttemptStarted
    <3> HIDE DEF n, e
    <3>2. e \in Eps /\ e.state = p.ep.state /\ e.inFlight = TRUE /\ e.attempts = n
      BY <1>2, <3>1, <3>3 DEF Eps
    <3> QED
      BY <2>1, <3>2, <3>3
  <2>2. CASE ~Active(p)
    <3>1. e = p.ep
      BY <2>2 DEF AttemptStarted
    <3> QED
      BY <1>2, <2>2, <3>1 DEF Sound
  <2> QED
    BY <2>1, <2>2
<1>4. q = Start(m, "status")
  BY <1>2 DEF Connect
<1> HIDE DEF g, e
<1>5. /\ m \in Pages /\ m.connecting = TRUE /\ m.timer = FALSE /\ m.ep = e /\ m.fetches = g.fetches
      /\ m.pollTimer = g.pollTimer /\ m.polling = g.polling /\ m.conn = p.conn /\ m.req = p.req
      /\ m.ws = p.ws /\ m.trust = p.trust
  BY <1>1, <1>3 DEF Pages
<1> HIDE DEF m, q
<1>6. /\ q \in Pages /\ (\A w : Has(q, w) <=> w = "status") /\ q = [m EXCEPT !.fetches = q.fetches]
  <2>1. \A w : ~Has(m, w)
    BY <1>1, <1>5 DEF Has
  <2>2. /\ q \in Pages /\ (\A w : Has(q, w) <=> Has(m, w) \/ w = "status") /\ q = [m EXCEPT !.fetches = q.fetches]
    BY <1>4, <1>5, Starts
  <2> QED
    BY <2>1, <2>2
<1>7. /\ q.connecting = TRUE /\ q.timer = FALSE /\ q.ep = e /\ q.pollTimer # "current" /\ q.polling = FALSE
      /\ q.conn = p.conn /\ q.req = p.req /\ q.ws = NoWs /\ q.trust = p.trust
  BY <1>1, <1>5, <1>6 DEF Pages
<1>8. Has(q, "status") /\ ~Has(q, "initial") /\ ~Has(q, "diagnose") /\ ~Has(q, "poll")
  BY <1>6
<1>9. q.ws.open = FALSE /\ q.ws.opened = FALSE /\ q.ws.spoiled = FALSE /\ q.ws.due = "hello"
  BY <1>7 DEF NoWs
<1>10. /\ (Active(q) <=> Active(p)) /\ ~Exhausted(q) /\ (Pending(q) <=> Pending(p)) /\ ~Live(q)
       /\ (HasFault(q) <=> HasFault(p))
  BY <1>3, <1>7 DEF Active, Exhausted, Pending, Live, HasFault
<1>11. Sound(q)
  BY <1>3, <1>6, <1>7, <1>10 DEF Sound, Exhausted, Active
<1>12. Driver(q) /\ EpisodeOK(q) /\ SocketOK(q) /\ TrustOK(q)
  <2>1. Driver(q)
    BY <1>7, <1>8, <1>9, <1>10 DEF Driver, InAttempt, Polled
  <2>2. EpisodeOK(q)
    BY <1>3, <1>7, <1>9, <1>10 DEF EpisodeOK
  <2>3. SocketOK(q)
    BY <1>7, <1>8, <1>9, <1>10 DEF SocketOK, Polled
  <2>4. TrustOK(q)
    BY <1>9, <1>10 DEF TrustOK
  <2> QED
    BY <2>1, <2>2, <2>3, <2>4
<1> QED
  BY <1>3, <1>7, <1>11, <1>12 DEF q, PageOK

(* q differs from p in its requirement and in its trust only. *)
SameBut(p, q) ==
    /\ q.conn = p.conn /\ q.ep = p.ep /\ q.ws = p.ws /\ q.timer = p.timer /\ q.connecting = p.connecting
    /\ q.fetches = p.fetches /\ q.pollTimer = p.pollTimer /\ q.polling = p.polling
    /\ q.loaded = p.loaded /\ q.known = p.known /\ q.old = p.old

(* q differs from p in its socket only. *)
SameButWs(p, q) ==
    /\ q.conn = p.conn /\ q.ep = p.ep /\ q.req = p.req /\ q.timer = p.timer /\ q.connecting = p.connecting
    /\ q.fetches = p.fetches /\ q.pollTimer = p.pollTimer /\ q.polling = p.polling
    /\ q.loaded = p.loaded /\ q.known = p.known /\ q.old = p.old /\ q.trust = p.trust

(* fault changes the requirement and takes the trust away. *)
LEMMA FaultIs ==
    ASSUME NEW p \in Pages, NEW kind \in {"malformed", "encoding"}, p.req.malformed <=> p.req.unreadable \/ p.req.incomplete
    PROVE  LET q == Fault(p, kind)
           IN  /\ q \in Pages /\ q.trust = "none" /\ SameBut(p, q)
               /\ kind = "malformed" =>
                     /\ q.req.malformed /\ ~q.req.after /\ (q.req.encoding <=> p.req.encoding)
                     /\ (q.req.unreadable <=> p.req.unreadable) /\ (q.req.incomplete <=> p.req.incomplete)
               /\ kind = "encoding" =>
                     /\ q.req.encoding /\ ~q.req.ok /\ (q.req.malformed <=> p.req.malformed)
                     /\ (q.req.unreadable <=> p.req.unreadable) /\ (q.req.incomplete <=> p.req.incomplete)
<1> DEFINE r == IF HasFault(p) THEN p.req ELSE NoReq
           s == IF kind = "malformed" THEN [r EXCEPT !.malformed = TRUE, !.after = FALSE]
                ELSE [r EXCEPT !.encoding = TRUE, !.ok = FALSE, !.okAfter = FALSE]
           q == Fault(p, kind)
<1>1. p.req \in Reqs /\ NoReq \in Reqs
  BY DEF Pages, NoReq, Reqs
<1>2. /\ r \in Reqs /\ (r.malformed <=> p.req.malformed) /\ (r.encoding <=> p.req.encoding)
      /\ (r.unreadable <=> p.req.unreadable) /\ (r.incomplete <=> p.req.incomplete)
  <2>1. CASE HasFault(p)
    BY <1>1, <2>1
  <2>2. CASE ~HasFault(p)
    <3>1. r = NoReq
      BY <2>2
    <3>2. ~p.req.malformed /\ ~p.req.encoding
      BY <2>2 DEF HasFault
    <3> QED
      BY <1>1, <3>1, <3>2 DEF NoReq
  <2> QED
    BY <2>1, <2>2
<1>3. q = [p EXCEPT !.trust = "none", !.req = s]
  BY DEF Fault
<1> HIDE DEF r
<1>4. /\ s \in Reqs
      /\ kind = "malformed" =>
            /\ s.malformed = TRUE /\ s.after = FALSE /\ s.encoding = r.encoding
            /\ s.unreadable = r.unreadable /\ s.incomplete = r.incomplete
      /\ kind = "encoding" =>
            /\ s.encoding = TRUE /\ s.ok = FALSE /\ s.malformed = r.malformed
            /\ s.unreadable = r.unreadable /\ s.incomplete = r.incomplete
  BY <1>2 DEF Reqs
<1> HIDE DEF s, q
<1>5. q \in Pages /\ q.req = s
  BY <1>3, <1>4 DEF Pages
<1>6. q.trust = "none" /\ SameBut(p, q)
  BY <1>3, <1>4 DEF Pages, SameBut
<1>7. kind = "malformed" =>
         /\ q.req.malformed /\ ~q.req.after /\ (q.req.encoding <=> p.req.encoding)
         /\ (q.req.unreadable <=> p.req.unreadable) /\ (q.req.incomplete <=> p.req.incomplete)
  BY <1>2, <1>4, <1>5
<1>8. kind = "encoding" =>
         /\ q.req.encoding /\ ~q.req.ok /\ (q.req.malformed <=> p.req.malformed)
         /\ (q.req.unreadable <=> p.req.unreadable) /\ (q.req.incomplete <=> p.req.incomplete)
  BY <1>2, <1>4, <1>5
<1> QED
  BY <1>5, <1>6, <1>7, <1>8 DEF q

-----------------------------------------------------------------------------
(* A page whose socket has brought its first message. *)
Served(p) ==
    /\ Sound(p) /\ SocketOK(p) /\ TrustOK(p)
    /\ ~InAttempt(p) /\ ~(Has(p, "poll") /\ p.pollTimer = "current") /\ (Polled(p) => p.conn = "live")
    /\ p.ws.open /\ p.ws.due # "hello" /\ ~p.timer

LEMMA ServedIsOK ==
    ASSUME NEW p, Served(p), EpisodeOK(p), p.connecting <=> ~Polled(p) /\ ~Exhausted(p)
    PROVE  PageOK(p)
<1>1. Driver(p)
  BY DEF Served, Driver, InAttempt
<1> QED
  BY <1>1 DEF Served, PageOK

LEMMA OpenIsServed ==
    ASSUME NEW p, PageOK(p), p.ws.open, p.ws.due # "hello"
    PROVE  Served(p) /\ EpisodeOK(p) /\ (p.connecting <=> ~Polled(p) /\ ~Exhausted(p))
BY DEF PageOK, Driver, Served

(* episodeAttemptEnded, on a socket that stays open once the budget is spent. *)
LEMMA AttemptEndsOpenIsOK ==
    ASSUME NEW p, Served(p), Active(p), HasFault(p)
    PROVE  LET q == AttemptEnded(p, TRUE)
           IN  /\ PageOK(q) /\ q.req = p.req /\ q.ep.state # "none" /\ q.ep.attempts = p.ep.attempts
<1> DEFINE e == [p.ep EXCEPT !.inFlight = FALSE]
           m == [p EXCEPT !.ep.inFlight = FALSE, !.connecting = FALSE]
           x == [e EXCEPT !.state = "exhausted"]
           r == [m EXCEPT !.ep.state = "exhausted", !.timer = FALSE]
           c == ResyncClose(m)
           q == AttemptEnded(p, TRUE)
<1>1. p \in Pages /\ p.ep \in Eps /\ p.ep.attempts \in Nat
  BY DEF Served, Sound, Pages, Eps
<1>2. e \in Eps /\ e.state = p.ep.state /\ e.attempts = p.ep.attempts /\ e.inFlight = FALSE
  BY <1>1 DEF Eps
<1>3. x \in Eps /\ x.state = "exhausted" /\ x.attempts = p.ep.attempts /\ x.inFlight = FALSE
  BY <1>2 DEF Eps
<1>4. m = [p EXCEPT !.ep = e, !.connecting = FALSE]
  BY <1>1 DEF e
<1>5. q = IF Spent(m) THEN IF r.ws.open /\ r.conn = "live" /\ ~r.polling THEN Poll(r) ELSE r
          ELSE [c EXCEPT !.timer = TRUE]
  BY DEF AttemptEnded
<1> HIDE DEF e, m
<1>6. /\ m \in Pages /\ m.ep = e /\ m.connecting = FALSE /\ m.conn = p.conn /\ m.req = p.req /\ m.trust = p.trust
      /\ m.timer = p.timer /\ m.fetches = p.fetches /\ m.pollTimer = p.pollTimer /\ m.polling = p.polling
      /\ m.ws = p.ws
  BY <1>1, <1>2, <1>4 DEF Pages
<1>7. r = [m EXCEPT !.ep = x, !.timer = FALSE]
  BY <1>6
<1>8. Spent(m) <=> p.ep.attempts >= EPISODE_ATTEMPTS
  BY <1>2, <1>6 DEF Spent
<1> HIDE DEF x, r
<1>9. /\ r \in Pages /\ r.ep = x /\ r.connecting = FALSE /\ r.conn = p.conn /\ r.req = p.req /\ r.trust = p.trust
      /\ r.timer = FALSE /\ r.fetches = p.fetches /\ r.pollTimer = p.pollTimer /\ r.polling = p.polling
      /\ r.ws = p.ws
  BY <1>3, <1>6, <1>7 DEF Pages
<1>10. Resting(c) /\ c.ep = e /\ c.conn = p.conn /\ c.req = p.req
  BY <1>6, Resyncs DEF Resting
<1> HIDE DEF c, q
<1>11. CASE ~Spent(m)
  <2>1. q = [c EXCEPT !.timer = TRUE]
    BY <1>5, <1>11
  <2>2. /\ q \in Pages /\ q.timer = TRUE /\ q.ep = e /\ q.conn = p.conn /\ q.req = p.req /\ q.fetches = c.fetches
        /\ q.pollTimer = c.pollTimer /\ q.polling = c.polling /\ q.connecting = c.connecting /\ q.ws = c.ws
    BY <1>10, <2>1 DEF Resting, Pages
  <2>3. Resting(q)
    BY <1>10, <2>2 DEF Resting, Has
  <2>4. q.ep.attempts < EPISODE_ATTEMPTS /\ ~q.ep.inFlight /\ Active(q) /\ ~Exhausted(q)
    BY <1>1, <1>2, <1>8, <1>11, <2>2, AttemptsAssumption DEF Active, Exhausted
  <2>5. Pending(q) /\ ~Live(q)
    BY <2>2 DEF HasFault, Pending, Live
  <2>6. Sound(q)
    BY <1>2, <2>2, <2>4, <2>5 DEF Served, Sound, Active
  <2>7. PageOK(q)
    BY <2>2, <2>3, <2>4, <2>5, <2>6, RestingIsOK
  <2> QED
    BY <1>2, <2>2, <2>4, <2>7 DEF q, Active
<1>12. CASE Spent(m)
  <2>1. q = IF p.ws.open /\ p.conn = "live" /\ ~p.polling THEN [r EXCEPT !.pollTimer = "current", !.polling = TRUE] ELSE r
    BY <1>5, <1>9, <1>12 DEF Poll
  <2>2. /\ q \in Pages /\ q.ep = x /\ q.connecting = FALSE /\ q.conn = p.conn /\ q.req = p.req /\ q.trust = p.trust
        /\ q.timer = FALSE /\ q.fetches = p.fetches /\ q.ws = p.ws
    BY <1>9, <2>1 DEF Pages
  <2>3. IF p.conn = "live" /\ ~p.polling THEN q.pollTimer = "current" /\ q.polling = TRUE
        ELSE q.pollTimer = p.pollTimer /\ q.polling = p.polling
    BY <1>9, <2>1 DEF Pages, Served
  <2>4. \A w : Has(q, w) <=> Has(p, w)
    BY <2>2 DEF Has
  <2>5. /\ Polled(p) => Polled(q)
        /\ Polled(q) => p.conn = "live"
        /\ q.polling <=> Polled(q)
        /\ ~(Has(q, "poll") /\ q.pollTimer = "current")
    BY <2>3, <2>4 DEF Served, SocketOK, Polled
  <2>6. Exhausted(q) /\ HasFault(q) /\ Pending(q) /\ ~Live(q) /\ ~Active(q)
    BY <1>3, <2>2 DEF Exhausted, HasFault, Pending, Live, Active
  <2>7. Sound(q)
    BY <1>3, <2>2, <2>6 DEF Served, Sound
  <2>8. SocketOK(q)
    BY <2>2, <2>5, <2>6 DEF Served, SocketOK
  <2>9. TrustOK(q)
    BY <2>2, <2>6 DEF Served, TrustOK, HasFault, Qualifies
  <2>10. Served(q)
    BY <2>2, <2>4, <2>5, <2>7, <2>8, <2>9 DEF Served, InAttempt
  <2>11. EpisodeOK(q)
    BY <1>3, <2>2, <2>6 DEF EpisodeOK, Served
  <2>12. PageOK(q)
    BY <2>2, <2>6, <2>10, <2>11, ServedIsOK
  <2> QED
    BY <1>3, <2>2, <2>12 DEF q
<1> QED
  BY <1>11, <1>12 DEF q

-----------------------------------------------------------------------------
(* What a callback makes of the page p; new: /status has read a new run. *)

(* LiveUntilFault, of a step. *)
LiveKept(p, q) == Live(p) /\ q.trust = "state" => Live(q)

(* BudgetKept, of a step. *)
EpKept(p, q, new) ==
    p.ep # NoEp /\ (q.ep = NoEp \/ q.ep.attempts < p.ep.attempts)
        => Live(q) \/ new \/ (Exhausted(p) /\ Active(q))

Turned(p, q, new) == PageOK(q) /\ LiveKept(p, q) /\ EpKept(p, q, new)

(* Where the attempts do not go down and no episode is dropped. *)
LEMMA Counted ==
    ASSUME NEW p, NEW q, NEW new, p \in Pages, q \in Pages, PageOK(q), LiveKept(p, q),
           q.ep = NoEp => p.ep = NoEp, q.ep.attempts >= p.ep.attempts
    PROVE  Turned(p, q, new)
<1>1. p.ep.attempts \in Nat /\ q.ep.attempts \in Nat
  BY DEF Pages, Eps
<1> QED
  BY <1>1 DEF Turned, EpKept

LEMMA FailTurns ==
    ASSUME NEW p, NEW p0, p0 \in Pages, Sound(p), p.ep = p0.ep, NEW refused \in BOOLEAN, NEW new
    PROVE  Turned(p0, Fail(p, refused), new)
<1> DEFINE q == Fail(p, refused)
<1>1. /\ PageOK(q) /\ q.trust = "none" /\ q.ep.attempts = p.ep.attempts /\ (q.ep = NoEp => p.ep = NoEp)
  BY FailIsOK
<1> HIDE DEF q
<1>2. q \in Pages
  BY <1>1 DEF PageOK, Sound
<1>3. LiveKept(p0, q)
  BY <1>1 DEF LiveKept
<1>5. p0.ep.attempts \in Nat
  BY DEF Pages, Eps
<1>4. q.ep.attempts >= p0.ep.attempts
  BY <1>1, <1>5
<1>6. Turned(p0, q, new)
  BY <1>1, <1>2, <1>3, <1>4, Counted
<1> QED
  BY <1>6 DEF q

(* A first or a later message: what onMessage has noted before it looks at it. *)
Noted(p, d) == [p EXCEPT !.ws.due = d]

LEMMA NotedIs ==
    ASSUME NEW p \in Pages, NEW d \in {"state", "any"}
    PROVE  LET q == Noted(p, d)
           IN  /\ q \in Pages /\ SameButWs(p, q) /\ q.ws.open = p.ws.open /\ q.ws.opened = p.ws.opened
               /\ q.ws.spoiled = p.ws.spoiled /\ q.ws.due = d
<1> DEFINE w == [p.ws EXCEPT !.due = d]
           q == Noted(p, d)
<1>1. p.ws \in Sockets
  BY DEF Pages
<1>2. w \in Sockets /\ w.due = d /\ w.open = p.ws.open /\ w.opened = p.ws.opened /\ w.spoiled = p.ws.spoiled
  BY <1>1 DEF Sockets
<1>3. q = [p EXCEPT !.ws = w]
  BY <1>1 DEF Noted
<1> HIDE DEF w, q
<1>4. q \in Pages /\ q.ws = w /\ SameButWs(p, q)
  BY <1>2, <1>3 DEF Pages, SameButWs
<1> QED
  BY <1>2, <1>4 DEF q

LEMMA NotedIsSound ==
    ASSUME NEW p, NEW d \in {"state", "any"}, Sound(p)
    PROVE  Sound(Noted(p, d))
<1> DEFINE q == Noted(p, d)
<1>1. q \in Pages /\ SameButWs(p, q)
  BY NotedIs DEF Sound
<1> HIDE DEF q
<1>2. Sound(q)
  BY <1>1 DEF SameButWs, Sound, Pending, Exhausted
<1> QED
  BY <1>2 DEF q

(* Two pages that nothing in PageOK tells apart. *)
Alike(p, q) ==
    /\ q.conn = p.conn /\ q.req = p.req /\ q.ep = p.ep /\ q.timer = p.timer /\ q.connecting = p.connecting
    /\ q.polling = p.polling /\ q.trust = p.trust
    /\ \A w : w # "poll" => (Has(q, w) <=> Has(p, w))
    /\ Polled(q) <=> Polled(p)
    /\ ~(Has(q, "poll") /\ q.pollTimer = "current")
    /\ q.ws.open = p.ws.open /\ q.ws.spoiled = p.ws.spoiled /\ (q.ws.due = "hello" <=> p.ws.due = "hello")
    /\ p.ws.opened => q.ws.opened
    /\ ~p.ws.open => q.ws = p.ws

LEMMA AlikeTurns ==
    ASSUME NEW p, NEW q, PageOK(p), q \in Pages, Alike(p, q), NEW new
    PROVE  Turned(p, q, new)
<1>1. /\ (Exhausted(q) <=> Exhausted(p)) /\ (Pending(q) <=> Pending(p)) /\ (HasFault(q) <=> HasFault(p))
      /\ (Active(q) <=> Active(p)) /\ (Live(q) <=> Live(p)) /\ (Stale(q) <=> Stale(p)) /\ (Qualifies(q) <=> Qualifies(p))
  BY DEF Alike, Exhausted, Pending, HasFault, Active, Live, Stale, Qualifies
<1>2. /\ (Has(q, "status") <=> Has(p, "status")) /\ (Has(q, "initial") <=> Has(p, "initial"))
      /\ (Has(q, "diagnose") <=> Has(p, "diagnose"))
  BY DEF Alike
<1>3. Sound(q)
  BY <1>1 DEF PageOK, Sound, Alike
<1>4. Driver(q)
  BY <1>1, <1>2 DEF PageOK, Driver, Alike, InAttempt
<1>5. EpisodeOK(q)
  BY <1>1 DEF PageOK, EpisodeOK, Alike
<1>6. SocketOK(q)
  BY <1>1 DEF PageOK, SocketOK, Alike
<1>7. TrustOK(q)
  BY <1>1 DEF PageOK, TrustOK, Alike
<1>8. PageOK(q) /\ p \in Pages /\ p.ep.attempts \in Nat
  BY <1>3, <1>4, <1>5, <1>6, <1>7 DEF PageOK, Sound, Pages, Eps
<1> QED
  BY <1>1, <1>8, Counted DEF LiveKept, Alike

LEMMA NotedIsOK ==
    ASSUME NEW p, NEW d \in {"state", "any"}, PageOK(p), p.ws.open, p.ws.due # "hello"
    PROVE  PageOK(Noted(p, d)) /\ (Live(Noted(p, d)) <=> Live(p)) /\ Noted(p, d).ep = p.ep
<1> DEFINE q == Noted(p, d)
<1>1. /\ q \in Pages /\ SameButWs(p, q) /\ q.ws.open = p.ws.open /\ q.ws.opened = p.ws.opened
      /\ q.ws.spoiled = p.ws.spoiled /\ q.ws.due = d
  BY NotedIs DEF PageOK, Sound
<1> HIDE DEF q
<1>2. \A w : Has(q, w) <=> Has(p, w)
  BY <1>1 DEF SameButWs, Has
<1>3. Alike(p, q)
  BY <1>1, <1>2 DEF PageOK, Driver, Alike, SameButWs, Polled
<1>4. Turned(p, q, FALSE)
  BY <1>1, <1>3, AlikeTurns
<1> QED
  BY <1>1, <1>4 DEF Turned, q, SameButWs, Live, Pending

(* onState, of a complete state on a socket that has said hello. *)
LEMMA StateTurns ==
    ASSUME NEW p, PageOK(p), p.ws.open, p.ws.due # "hello", NEW new
    PROVE  Turned(p, OnState(p), new)
<1> DEFINE t == IF p.trust = "opened" THEN "state" ELSE p.trust
           q == [p EXCEPT !.trust = t]
           s == [q EXCEPT !.req = NoReq, !.ep = NoEp]
<1>1. p \in Pages /\ p.ep.attempts \in Nat /\ Sound(p) /\ Driver(p) /\ EpisodeOK(p) /\ SocketOK(p) /\ TrustOK(p)
  BY DEF PageOK, Sound, Pages, Eps
<1>2. t \in {"none", "opened", "state"} /\ t # "opened" /\ (t = "none" <=> p.trust = "none")
      /\ (p.trust = "state" => t = "state")
  BY <1>1 DEF Pages
<1>3. OnState(p) = IF ~Pending(p) THEN q ELSE IF Qualifies(p) THEN s
                   ELSE IF Active(p) /\ p.ep.inFlight THEN AttemptEnded(q, TRUE) ELSE q
  BY DEF OnState
<1> HIDE DEF t
<1>4. /\ q \in Pages /\ q.trust = t /\ q.conn = p.conn /\ q.req = p.req /\ q.ep = p.ep /\ q.ws = p.ws
      /\ q.timer = p.timer /\ q.connecting = p.connecting /\ q.fetches = p.fetches
      /\ q.pollTimer = p.pollTimer /\ q.polling = p.polling
  BY <1>1, <1>2 DEF Pages
<1> HIDE DEF q
<1>5. \A w : Has(q, w) <=> Has(p, w)
  BY <1>4 DEF Has
<1>6. /\ (Polled(q) <=> Polled(p)) /\ (Exhausted(q) <=> Exhausted(p)) /\ (Pending(q) <=> Pending(p))
      /\ (HasFault(q) <=> HasFault(p)) /\ (Active(q) <=> Active(p)) /\ (Live(q) <=> Live(p))
      /\ (InAttempt(q) <=> InAttempt(p)) /\ (Stale(q) <=> Stale(p)) /\ (Qualifies(q) <=> Qualifies(p))
  BY <1>4, <1>5 DEF Polled, Exhausted, Pending, HasFault, Active, Live, InAttempt, Stale, Qualifies
<1>7. PageOK(q)
  <2>1. Sound(q)
    BY <1>1, <1>4, <1>6 DEF Sound
  <2>2. Driver(q)
    BY <1>1, <1>4, <1>5, <1>6 DEF Driver
  <2>3. EpisodeOK(q)
    BY <1>1, <1>4, <1>6 DEF EpisodeOK
  <2>4. SocketOK(q)
    BY <1>1, <1>4, <1>6 DEF SocketOK
  <2>5. TrustOK(q)
    BY <1>1, <1>2, <1>4, <1>6 DEF TrustOK
  <2> QED
    BY <2>1, <2>2, <2>3, <2>4, <2>5 DEF PageOK
<1>8. Turned(p, q, new)
  BY <1>1, <1>4, <1>6, <1>7, Counted DEF LiveKept
<1>9. CASE ~Pending(p)
  BY <1>3, <1>8, <1>9
<1>10. CASE Pending(p) /\ Qualifies(p)
  <2>1. NoReq \in Reqs /\ ~NoReq.malformed /\ ~NoReq.encoding /\ ~NoReq.connect /\ ~NoReq.unreadable /\ ~NoReq.incomplete
    BY DEF NoReq, Reqs
  <2>2. /\ s \in Pages /\ s.trust = t /\ s.conn = p.conn /\ s.req = NoReq /\ s.ep = NoEp /\ s.ws = p.ws
        /\ s.timer = p.timer /\ s.connecting = p.connecting /\ s.fetches = p.fetches
        /\ s.pollTimer = p.pollTimer /\ s.polling = p.polling
    BY <1>4, <2>1, NewEpIs DEF Pages
  <2> HIDE DEF s
  <2>3. \A w : Has(s, w) <=> Has(p, w)
    BY <2>2 DEF Has
  <2>4. Polled(s) <=> Polled(p)
    BY <2>2, <2>3 DEF Polled
  <2>5. ~Pending(s) /\ ~HasFault(s) /\ ~Exhausted(s) /\ ~Active(s) /\ (Live(s) <=> p.conn = "live")
    BY <2>1, <2>2, NewEpIs DEF Pending, HasFault, Exhausted, Active, Live
  <2>6. ~p.ws.spoiled /\ Polled(p) /\ p.conn = "live" /\ t = "state"
    <3>1. ~p.ws.spoiled
      BY <1>1, <1>10 DEF Qualifies, HasFault, SocketOK
    <3>2. Polled(p) /\ p.conn = "live"
      BY <1>1, <3>1 DEF SocketOK, Driver
    <3>3. p.trust # "none"
      BY <1>1, <1>10 DEF TrustOK
    <3> QED
      BY <1>2, <3>1, <3>2, <3>3
  <2>7. Sound(s)
    BY <2>1, <2>2, <2>5, NewEpIs, AttemptsAssumption DEF Sound
  <2>8. Driver(s)
    BY <1>1, <2>2, <2>3, <2>4, <2>5, <2>6 DEF Driver, InAttempt
  <2>9. EpisodeOK(s)
    BY <2>2, <2>5, NewEpIs DEF EpisodeOK
  <2>10. SocketOK(s)
    BY <1>1, <2>2, <2>4, <2>5, <2>6 DEF SocketOK
  <2>11. TrustOK(s)
    BY <2>2, <2>6 DEF TrustOK
  <2>12. Live(s)
    BY <2>5, <2>6
  <2>13. Turned(p, s, new)
    BY <2>7, <2>8, <2>9, <2>10, <2>11, <2>12 DEF Turned, PageOK, LiveKept, EpKept
  <2> QED
    BY <1>3, <1>10, <2>13
<1>11. CASE Pending(p) /\ ~Qualifies(p) /\ Active(p) /\ p.ep.inFlight
  <2>1. HasFault(p)
    BY <1>1, <1>11 DEF Qualifies, SocketOK
  <2>2. Served(q) /\ Active(q) /\ HasFault(q)
    BY <1>4, <1>6, <1>7, <1>11, <2>1, OpenIsServed
  <2> DEFINE u == AttemptEnded(q, TRUE)
  <2>3. /\ PageOK(u) /\ u.ep.state # "none" /\ u.ep.attempts = q.ep.attempts
    BY <2>2, AttemptEndsOpenIsOK
  <2> HIDE DEF u
  <2>4. u \in Pages /\ u.ep # NoEp
    BY <2>3, NewEpIs DEF PageOK, Sound
  <2>5. Turned(p, u, new)
    <3>1. LiveKept(p, u)
      BY <1>11 DEF LiveKept, Live
    <3>2. u.ep.attempts >= p.ep.attempts
      BY <1>1, <1>4, <2>3
    <3> QED
      BY <1>1, <2>3, <2>4, <3>1, <3>2, Counted
  <2> QED
    BY <1>3, <1>11, <2>5 DEF u
<1>12. CASE Pending(p) /\ ~Qualifies(p) /\ ~(Active(p) /\ p.ep.inFlight)
  BY <1>3, <1>8, <1>12
<1> QED
  BY <1>9, <1>10, <1>11, <1>12

(* onMalformed, of the page p0, once its socket is open. *)
LEMMA MalformedTurns ==
    ASSUME NEW p0, PageOK(p0), p0.ws.open, p0.ws.opened, NEW d \in {"state", "any"},
           NEW what \in {"unreadable", "incomplete"}, NEW new
    PROVE  Turned(p0, OnMalformed(Noted(p0, d), what), new)
<1> DEFINE p == Noted(p0, d)
           w == [p.ws EXCEPT !.spoiled = TRUE]
           b == [p EXCEPT !.ws.spoiled = TRUE]
           f == Fault(b, "malformed")
           r == [f.req EXCEPT ![what] = TRUE]
           q == [f EXCEPT !.req[what] = TRUE]
           done == OnMalformed(p, what)
<1>1. /\ p0 \in Pages /\ p0.ep.attempts \in Nat /\ Sound(p0) /\ Driver(p0) /\ EpisodeOK(p0) /\ SocketOK(p0) /\ TrustOK(p0)
  BY DEF PageOK, Sound, Pages, Eps
<1>2. /\ p \in Pages /\ SameButWs(p0, p) /\ p.ws.open = p0.ws.open /\ p.ws.opened = p0.ws.opened /\ p.ws.due = d
  BY <1>1, NotedIs
<1>3. done = IF p.ep # NoEp THEN MalformedInEpisode(q)
             ELSE IF p.req.encoding /\ ~p.req.malformed THEN q ELSE StartEpisode(q)
  BY DEF OnMalformed
<1> HIDE DEF p, done
<1>4. p.ws \in Sockets
  BY <1>2 DEF Pages
<1>5. w \in Sockets /\ w.spoiled = TRUE /\ w.open = p.ws.open /\ w.opened = p.ws.opened /\ w.due = p.ws.due
  BY <1>4 DEF Sockets
<1>6. b = [p EXCEPT !.ws = w]
  BY <1>4 DEF w
<1> HIDE DEF w, b
<1>7. b \in Pages /\ b.ws = w /\ SameButWs(p, b)
  BY <1>2, <1>5, <1>6 DEF Pages, SameButWs
<1>8. b.req.malformed <=> b.req.unreadable \/ b.req.incomplete
  BY <1>1, <1>2, <1>7 DEF SameButWs, Sound
<1>9. f \in Pages /\ f.trust = "none" /\ SameBut(b, f) /\ f.req.malformed
      /\ (f.req.unreadable <=> b.req.unreadable) /\ (f.req.incomplete <=> b.req.incomplete)
  BY <1>7, <1>8, FaultIs
<1> HIDE DEF f
<1>10. f.req \in Reqs
  BY <1>9 DEF Pages
<1>11. r \in Reqs /\ r.malformed /\ (r.unreadable \/ r.incomplete)
  <2>1. r \in Reqs /\ r.malformed = f.req.malformed
    BY <1>10 DEF Reqs
  <2>2. what = "unreadable" => r.unreadable = TRUE
    BY <1>10 DEF Reqs
  <2>3. what = "incomplete" => r.incomplete = TRUE
    BY <1>10 DEF Reqs
  <2> QED
    BY <1>9, <2>1, <2>2, <2>3
<1>12. q = [f EXCEPT !.req = r]
  BY <1>10 DEF r
<1> HIDE DEF r, q
<1>13. q \in Pages /\ q.req = r /\ q.trust = "none" /\ SameBut(b, q)
  BY <1>9, <1>11, <1>12 DEF Pages, SameBut
<1>14. /\ q.conn = p0.conn /\ q.ep = p0.ep /\ q.timer = p0.timer /\ q.connecting = p0.connecting
       /\ q.fetches = p0.fetches /\ q.pollTimer = p0.pollTimer /\ q.polling = p0.polling
       /\ q.ws.open = TRUE /\ q.ws.opened = TRUE /\ q.ws.due = d /\ q.ws.spoiled = TRUE
  <2>1. p0.ws.open = TRUE /\ p0.ws.opened = TRUE
    BY <1>1 DEF Pages, Sockets
  <2> QED
    BY <1>2, <1>5, <1>7, <1>13, <2>1 DEF SameBut, SameButWs
<1>15. \A x : Has(q, x) <=> Has(p0, x)
  BY <1>14 DEF Has
<1>16. (Polled(q) <=> Polled(p0)) /\ (InAttempt(q) <=> InAttempt(p0))
       /\ (Exhausted(q) <=> Exhausted(p0)) /\ (Active(q) <=> Active(p0))
  BY <1>14, <1>15 DEF Polled, InAttempt, Exhausted, Active
<1>17. Pending(q) /\ HasFault(q) /\ ~Qualifies(q) /\ ~Live(q)
  BY <1>11, <1>13, <1>14 DEF Pending, HasFault, Qualifies, Live
<1>18. Sound(q)
  BY <1>1, <1>11, <1>13, <1>14, <1>16, <1>17 DEF Sound
<1>19. Served(q)
  <2>1. SocketOK(q)
    BY <1>1, <1>11, <1>13, <1>14, <1>16, <1>17 DEF SocketOK
  <2>2. TrustOK(q)
    BY <1>17 DEF TrustOK
  <2> QED
    BY <1>1, <1>14, <1>15, <1>16, <1>18, <2>1, <2>2 DEF Served, Driver
<1>20. LiveKept(p0, q) /\ q.ep = p0.ep /\ p.ep = p0.ep /\ p.req = p0.req
  BY <1>2, <1>13, <1>14 DEF LiveKept, SameButWs
<1>21. CASE p.ep # NoEp /\ Active(q) /\ q.ep.inFlight
  <2> DEFINE u == AttemptEnded(q, TRUE)
  <2>1. /\ PageOK(u) /\ u.ep.state # "none" /\ u.ep.attempts = q.ep.attempts /\ u.req = q.req
    BY <1>17, <1>19, <1>21, AttemptEndsOpenIsOK
  <2>2. done = u
    BY <1>3, <1>21 DEF MalformedInEpisode
  <2> HIDE DEF u
  <2>3. u \in Pages /\ u.ep # NoEp
    BY <2>1, NewEpIs DEF PageOK, Sound
  <2>4. LiveKept(p0, u)
    BY <1>1, <1>20, <1>21, NewEpIs DEF LiveKept, Sound, Live
  <2>5. u.ep.attempts >= p0.ep.attempts
    BY <1>1, <1>20, <2>1
  <2> QED
    BY <1>1, <2>1, <2>2, <2>3, <2>4, <2>5, Counted DEF done, p
<1>22. (p.ep # NoEp /\ ~(Active(q) /\ q.ep.inFlight)) \/ p.ep = NoEp => EpisodeOK(q)
  BY <1>1, <1>14, <1>16, <1>17, <1>20, NewEpIs DEF EpisodeOK, Sound, Active, Exhausted
<1>23. EpisodeOK(q) => Turned(p0, q, new)
  <2>1. EpisodeOK(q) => PageOK(q)
    BY <1>1, <1>14, <1>16, <1>19, ServedIsOK DEF Driver
  <2> QED
    BY <1>1, <1>13, <1>20, <2>1, Counted
<1>24. CASE p.ep # NoEp /\ ~(Active(q) /\ q.ep.inFlight)
  <2>1. done = q
    BY <1>3, <1>24 DEF MalformedInEpisode
  <2> QED
    BY <1>22, <1>23, <1>24, <2>1 DEF done, p
<1>25. CASE p.ep = NoEp /\ p.req.encoding /\ ~p.req.malformed
  <2>1. done = q
    BY <1>3, <1>25
  <2> QED
    BY <1>22, <1>23, <1>25, <2>1 DEF done, p
<1>26. CASE p.ep = NoEp /\ ~(p.req.encoding /\ ~p.req.malformed)
  <2> DEFINE u == StartEpisode(q)
  <2>1. PageOK(u) /\ u.ep = NewEp /\ u.trust = "none"
    BY <1>17, <1>18, StartEpisodeIsOK
  <2>2. done = u
    BY <1>3, <1>26
  <2> HIDE DEF u
  <2>3. Turned(p0, u, new)
    BY <1>20, <1>26, <2>1 DEF Turned, LiveKept, EpKept
  <2> QED
    BY <2>2, <2>3 DEF done, p
<1> QED
  BY <1>21, <1>24, <1>25, <1>26

(* onHello, of the page p0 whose socket has opened. *)
LEMMA HelloTurns ==
    ASSUME NEW p0, PageOK(p0), p0.ws.open, p0.ws.opened, p0.ws.due = "hello", NEW new
    PROVE  Turned(p0, OnHello(Noted(p0, "state")), new)
<1> DEFINE p == Noted(p0, "state")
           r == IF HasFault(p) THEN p.req ELSE [NoReq EXCEPT !.connect = TRUE, !.mine = TRUE]
           b == [p EXCEPT !.connecting = FALSE, !.conn = "live", !.req = r]
           q == OnHello(p)
<1>1. /\ p0 \in Pages /\ p0.ep.attempts \in Nat /\ Sound(p0) /\ Driver(p0) /\ EpisodeOK(p0) /\ SocketOK(p0) /\ TrustOK(p0)
      /\ p0.ws.open = TRUE /\ p0.ws.opened = TRUE
  BY DEF PageOK, Sound, Pages, Eps, Sockets
<1>2. /\ p \in Pages /\ SameButWs(p0, p) /\ p.ws.open = p0.ws.open /\ p.ws.opened = p0.ws.opened
      /\ p.ws.due = "state" /\ p.ws.spoiled = p0.ws.spoiled
  BY <1>1, NotedIs
<1>3. q = Poll([p EXCEPT !.connecting = FALSE, !.conn = "live", !.req = r])
  BY DEF OnHello
<1> HIDE DEF p
<1>4. /\ r \in Reqs /\ (HasFault(p) => r = p.req)
      /\ (~HasFault(p) => r.connect /\ r.mine /\ ~r.malformed /\ ~r.encoding /\ ~r.unreadable /\ ~r.incomplete)
  <2>1. p.req \in Reqs
    BY <1>2 DEF Pages
  <2> QED
    BY <2>1 DEF NoReq, Reqs
<1> HIDE DEF r
<1>5. q = [b EXCEPT !.pollTimer = "current", !.polling = TRUE]
  BY <1>3 DEF Poll
<1>6. /\ b \in Pages /\ b.connecting = FALSE /\ b.conn = "live" /\ b.req = r /\ b.ep = p.ep /\ b.ws = p.ws
      /\ b.timer = p.timer /\ b.fetches = p.fetches /\ b.trust = p.trust
  BY <1>2, <1>4 DEF Pages
<1> HIDE DEF b, q
<1>7. /\ q \in Pages /\ q.connecting = FALSE /\ q.conn = "live" /\ q.req = r /\ q.ep = p0.ep /\ q.ws = p.ws
      /\ q.timer = p0.timer /\ q.fetches = p0.fetches /\ q.trust = p0.trust
      /\ q.pollTimer = "current" /\ q.polling = TRUE
  <2>1. /\ q \in Pages /\ q.connecting = FALSE /\ q.conn = "live" /\ q.req = r /\ q.ep = b.ep /\ q.ws = b.ws
        /\ q.timer = b.timer /\ q.fetches = b.fetches /\ q.trust = b.trust
        /\ q.pollTimer = "current" /\ q.polling = TRUE
    BY <1>5, <1>6 DEF Pages
  <2> QED
    BY <1>2, <1>6, <2>1 DEF SameButWs
<1>8. q.ws.open = TRUE /\ q.ws.opened = TRUE /\ q.ws.due = "state" /\ q.ws.spoiled = p0.ws.spoiled
  BY <1>1, <1>2, <1>7
<1>9. \A x : Has(q, x) <=> Has(p0, x)
  BY <1>7 DEF Has
<1>10. Polled(q) /\ ~Has(q, "poll") /\ ~InAttempt(q) /\ ~Exhausted(q) /\ (Active(q) <=> Active(p0))
  BY <1>1, <1>7, <1>9 DEF Polled, InAttempt, Driver, SocketOK, EpisodeOK, Exhausted, Active
<1>11. /\ (HasFault(q) <=> HasFault(p0)) /\ (HasFault(p0) => q.req = p0.req /\ Pending(q))
       /\ (~HasFault(p0) => ~q.req.malformed /\ ~q.req.encoding /\ q.req.mine /\ Pending(q)
                             /\ ~q.req.unreadable /\ ~q.req.incomplete)
  BY <1>2, <1>4, <1>7 DEF HasFault, Pending, SameButWs
<1>12. Pending(q) /\ ~Live(q)
  BY <1>11 DEF Live
<1>13. Sound(q)
  BY <1>1, <1>7, <1>10, <1>11, <1>12 DEF Sound
<1>14. Driver(q)
  BY <1>1, <1>7, <1>8, <1>9, <1>10 DEF Driver, InAttempt
<1>15. EpisodeOK(q)
  BY <1>1, <1>7, <1>8, <1>10 DEF EpisodeOK, Active
<1>16. SocketOK(q)
  <2>1. q.ws.spoiled => q.req.malformed
    BY <1>1, <1>8, <1>11 DEF SocketOK, HasFault
  <2>2. ~HasFault(q) => q.req.mine
    BY <1>11
  <2> QED
    BY <1>7, <1>8, <1>10, <2>1, <2>2 DEF SocketOK
<1>17. TrustOK(q)
  <2>1. HasFault(p0) => (Qualifies(q) <=> Qualifies(p0))
    BY <1>8, <1>11 DEF Qualifies
  <2>2. (HasFault(q) => Qualifies(q)) => q.trust # "none"
    BY <1>1, <1>7, <1>11, <2>1 DEF TrustOK
  <2> QED
    BY <1>12, <2>2 DEF TrustOK
<1>18. PageOK(q)
  BY <1>13, <1>14, <1>15, <1>16, <1>17 DEF PageOK
<1>19. LiveKept(p0, q)
  BY <1>1 DEF LiveKept, TrustOK
<1>20. Turned(p0, q, new)
  BY <1>1, <1>7, <1>18, <1>19, Counted
<1> QED
  BY <1>20 DEF q, p

-----------------------------------------------------------------------------
(* An attempt before its socket: one fetch of it is over, and nothing else is under way. *)
Attempting(p) ==
    /\ Sound(p) /\ ~InAttempt(p) /\ ~Has(p, "poll") /\ p.pollTimer # "current" /\ p.polling = FALSE
    /\ p.connecting = TRUE /\ p.ws = NoWs /\ ~p.timer /\ ~Exhausted(p) /\ (p.ep.inFlight <=> Active(p)) /\ ~Live(p)

LEMMA AttemptGoesOn ==
    ASSUME NEW p, Attempting(p), NEW what \in {"initial", "diagnose"}
    PROVE  LET q == Start(p, what) IN PageOK(q) /\ q.ep = p.ep /\ q.trust = p.trust
<1> DEFINE q == Start(p, what)
<1>1. p \in Pages
  BY DEF Attempting, Sound
<1>2. q \in Pages /\ (\A w : Has(q, w) <=> Has(p, w) \/ w = what) /\ q = [p EXCEPT !.fetches = q.fetches]
  BY <1>1, Starts
<1> HIDE DEF q
<1>3. /\ q.connecting = p.connecting /\ q.conn = p.conn /\ q.req = p.req /\ q.ep = p.ep /\ q.ws = p.ws
      /\ q.timer = p.timer /\ q.pollTimer = p.pollTimer /\ q.polling = p.polling /\ q.trust = p.trust
  BY <1>1, <1>2 DEF Pages
<1>4. ~Has(q, "poll") /\ ~Has(q, "status") /\ (Has(q, "initial") \/ Has(q, "diagnose"))
      /\ ~(Has(q, "initial") /\ Has(q, "diagnose"))
  BY <1>2 DEF Attempting, InAttempt
<1>5. q.ws.open = FALSE /\ q.ws.opened = FALSE /\ q.ws.spoiled = FALSE /\ q.ws.due = "hello"
  BY <1>3 DEF Attempting, NoWs
<1>6. /\ (Active(q) <=> Active(p)) /\ ~Exhausted(q) /\ (Pending(q) <=> Pending(p)) /\ ~Live(q)
  BY <1>3 DEF Attempting, Active, Exhausted, Pending, Live
<1>7. Sound(q)
  BY <1>2, <1>3, <1>6 DEF Attempting, Sound
<1>8. Driver(q)
  BY <1>3, <1>4, <1>5, <1>6 DEF Attempting, Driver, InAttempt, Polled
<1>9. EpisodeOK(q)
  BY <1>3, <1>5, <1>6 DEF Attempting, EpisodeOK
<1>10. SocketOK(q)
  BY <1>3, <1>4, <1>5, <1>6 DEF Attempting, SocketOK, Polled
<1>11. TrustOK(q)
  BY <1>5, <1>6 DEF TrustOK
<1>12. PageOK(q)
  BY <1>7, <1>8, <1>9, <1>10, <1>11 DEF PageOK
<1> QED
  BY <1>3, <1>12 DEF q

(* openSocket, at the end of an attempt's fetches. *)
LEMMA SocketStarts ==
    ASSUME NEW p, Attempting(p)
    PROVE  LET q == OpenSocket(p) IN PageOK(q) /\ q.ep = p.ep
<1> DEFINE old == p.old \/ p.ws.open
           after == p.req.malformed
           okAfter == p.req.ok
           ws == [NoWs EXCEPT !.open = TRUE]
           r == [p.req EXCEPT !.mine = FALSE, !.after = after, !.okAfter = okAfter]
           t == IF p.req.encoding /\ ~p.req.ok THEN "none" ELSE "opened"
           c == [p EXCEPT !.ws = NoWs, !.old = old, !.trust = "none"]
           q == OpenSocket(p)
<1>1. p \in Pages /\ p.req \in Reqs
  BY DEF Attempting, Sound, Pages
<1>2. ws \in Sockets /\ ws.open = TRUE /\ ws.opened = FALSE /\ ws.spoiled = FALSE /\ ws.due = "hello" /\ NoWs \in Sockets
  BY DEF NoWs, Sockets
<1>3. old \in BOOLEAN /\ after \in BOOLEAN /\ okAfter \in BOOLEAN /\ t \in {"none", "opened"}
  BY <1>1 DEF Reqs
<1>4. q = [c EXCEPT !.ws = ws, !.req = [@ EXCEPT !.mine = FALSE, !.after = after, !.okAfter = okAfter], !.trust = t]
  BY DEF OpenSocket, CloseSocket
<1> HIDE DEF after, okAfter
<1>5. /\ r \in Reqs /\ r.malformed = p.req.malformed /\ r.encoding = p.req.encoding /\ r.connect = p.req.connect
      /\ r.ok = p.req.ok /\ r.unreadable = p.req.unreadable /\ r.incomplete = p.req.incomplete
  BY <1>1, <1>3 DEF Reqs
<1> HIDE DEF old, ws, NoWs
<1>6. /\ c \in Pages /\ c.req = p.req /\ c.ep = p.ep /\ c.conn = p.conn /\ c.timer = p.timer
      /\ c.connecting = p.connecting /\ c.fetches = p.fetches /\ c.pollTimer = p.pollTimer /\ c.polling = p.polling
  BY <1>1, <1>2, <1>3 DEF Pages
<1> HIDE DEF c
<1>7. q = [c EXCEPT !.ws = ws, !.req = r, !.trust = t]
  BY <1>4, <1>6
<1> HIDE DEF r, t, q
<1>8. /\ q \in Pages /\ q.ws = ws /\ q.req = r /\ q.trust = t /\ q.ep = p.ep /\ q.conn = p.conn /\ q.timer = p.timer
      /\ q.connecting = p.connecting /\ q.fetches = p.fetches /\ q.pollTimer = p.pollTimer /\ q.polling = p.polling
  BY <1>2, <1>3, <1>5, <1>6, <1>7 DEF Pages
<1>9. \A w : Has(q, w) <=> Has(p, w)
  BY <1>8 DEF Has
<1>10. /\ (Active(q) <=> Active(p)) /\ ~Exhausted(q) /\ (Pending(q) <=> Pending(p)) /\ ~Live(q)
       /\ ~InAttempt(q) /\ ~Polled(q) /\ ~Has(q, "poll")
  BY <1>5, <1>8, <1>9 DEF Attempting, Active, Exhausted, Pending, Live, InAttempt, Polled
<1>11. Sound(q)
  BY <1>5, <1>8, <1>10 DEF Attempting, Sound
<1>12. Driver(q)
  BY <1>2, <1>8, <1>10 DEF Attempting, Driver, InAttempt
<1>13. EpisodeOK(q)
  BY <1>2, <1>8, <1>10 DEF Attempting, EpisodeOK
<1>14. SocketOK(q)
  BY <1>2, <1>8, <1>10 DEF Attempting, SocketOK
<1>15. TrustOK(q)
  <2>1. (HasFault(q) => Qualifies(q)) => q.trust # "none"
    BY <1>5, <1>8 DEF HasFault, Qualifies, t
  <2> QED
    BY <1>10, <2>1 DEF TrustOK
<1>16. PageOK(q)
  BY <1>11, <1>12, <1>13, <1>14, <1>15 DEF PageOK
<1> QED
  BY <1>8, <1>16 DEF q

(* readEncoding: a fault, or the good news since the last one. *)
LEMMA EncodingIsRead ==
    ASSUME NEW p, Sound(p), NEW ok \in BOOLEAN
    PROVE  LET q == ReadEncoding(p, ok)
           IN  /\ Sound(q) /\ SameBut(p, q) /\ (Live(q) => Live(p)) /\ (q.req.malformed <=> p.req.malformed)
               /\ ~ok => q.req.encoding /\ ~q.req.ok /\ q.trust = "none"
               /\ ok /\ p.req.encoding => q.req.encoding /\ ~q.req.okAfter /\ q.trust = p.trust
               /\ ok /\ ~p.req.encoding => q = p
<1> DEFINE q == ReadEncoding(p, ok)
           r == [p.req EXCEPT !.ok = TRUE, !.okAfter = FALSE]
<1>1. p \in Pages /\ p.req \in Reqs
  BY DEF Sound, Pages
<1>2. CASE ~ok
  <2> DEFINE f == Fault(p, "encoding")
  <2>1. /\ f \in Pages /\ f.trust = "none" /\ SameBut(p, f) /\ f.req.encoding /\ ~f.req.ok
        /\ (f.req.malformed <=> p.req.malformed)
        /\ (f.req.unreadable <=> p.req.unreadable) /\ (f.req.incomplete <=> p.req.incomplete)
    BY <1>1, FaultIs DEF Sound
  <2>2. q = f
    BY <1>2 DEF ReadEncoding
  <2> HIDE DEF f, q
  <2>3. Pending(f) /\ ~Live(f)
    BY <2>1 DEF Pending, Live
  <2>4. Sound(f)
    BY <2>1, <2>3 DEF Sound, SameBut, Exhausted
  <2> QED
    BY <1>2, <2>1, <2>2, <2>3, <2>4 DEF q
<1>3. CASE ok /\ p.req.encoding
  <2>1. r \in Reqs /\ r.encoding = p.req.encoding /\ r.okAfter = FALSE /\ r.malformed = p.req.malformed
        /\ r.unreadable = p.req.unreadable /\ r.incomplete = p.req.incomplete
    BY <1>1 DEF Reqs
  <2>2. q = [p EXCEPT !.req.ok = TRUE, !.req.okAfter = FALSE]
    BY <1>3 DEF ReadEncoding
  <2>3. q = [p EXCEPT !.req = r]
    BY <1>1, <2>2 DEF r
  <2> HIDE DEF r, q
  <2>4. q \in Pages /\ q.req = r /\ SameBut(p, q) /\ q.trust = p.trust
    BY <1>1, <2>1, <2>3 DEF Pages, SameBut
  <2>5. Pending(q) /\ ~Live(q)
    BY <1>3, <2>1, <2>4 DEF Pending, Live
  <2>6. Sound(q)
    BY <2>1, <2>4, <2>5 DEF Sound, SameBut, Exhausted
  <2> QED
    BY <1>3, <2>1, <2>4, <2>5, <2>6 DEF q
<1>4. CASE ok /\ ~p.req.encoding
  <2>1. q = p
    BY <1>4 DEF ReadEncoding
  <2>2. SameBut(p, p)
    BY DEF SameBut
  <2> HIDE DEF q
  <2> QED
    BY <1>4, <2>1, <2>2 DEF q
<1> QED
  BY <1>2, <1>3, <1>4

LEMMA AttemptReads ==
    ASSUME NEW p, Attempting(p), NEW ok \in BOOLEAN
    PROVE  Attempting(ReadEncoding(p, ok)) /\ ReadEncoding(p, ok).ep = p.ep
<1> DEFINE q == ReadEncoding(p, ok)
<1>1. Sound(q) /\ SameBut(p, q) /\ (Live(q) => Live(p))
  BY EncodingIsRead DEF Attempting
<1> HIDE DEF q
<1>2. \A w : Has(q, w) <=> Has(p, w)
  BY <1>1 DEF SameBut, Has
<1>3. (Active(q) <=> Active(p)) /\ (Exhausted(q) <=> Exhausted(p))
  BY <1>1 DEF SameBut, Active, Exhausted
<1>4. Attempting(q)
  BY <1>1, <1>2, <1>3 DEF Attempting, InAttempt, SameBut
<1> QED
  BY <1>1, <1>4 DEF q, SameBut

(* connect, /status answered. *)
LEMMA StatusTurns ==
    ASSUME NEW p0, NEW p, PageOK(p0), ~Live(p0), Attempting(p), p.ep = p0.ep, NEW new \in BOOLEAN, NEW ok \in BOOLEAN
    PROVE  Turned(p0, OnStatus(p, new, ok), new)
<1> DEFINE again == p.known /\ new
           e == IF again THEN NoEp ELSE p.ep
           c == [NoReq EXCEPT !.connect = TRUE]
           n == IF again THEN c ELSE p.req
           q == [p EXCEPT !.known = TRUE, !.ep = e, !.req = n]
           r == ReadEncoding(q, ok)
           done == OnStatus(p, new, ok)
<1>1. p \in Pages /\ p0 \in Pages /\ p.ep \in Eps /\ p.req \in Reqs /\ p0.ep.attempts \in Nat
  BY DEF Attempting, PageOK, Sound, Pages, Eps
<1>2. c \in Reqs /\ c.connect = TRUE /\ c.malformed = FALSE /\ c.encoding = FALSE /\ c.unreadable = FALSE /\ c.incomplete = FALSE
  BY DEF NoReq, Reqs
<1>3. done = IF ~ok /\ Active(q) THEN Fail(r, FALSE) ELSE IF ~p.loaded \/ again THEN Start(r, "initial") ELSE OpenSocket(r)
  <2>1. q = [p EXCEPT !.known = TRUE, !.ep = IF again THEN NoEp ELSE @, !.req = IF again THEN [NoReq EXCEPT !.connect = TRUE] ELSE @]
    BY <1>1
  <2> QED
    BY <2>1 DEF OnStatus
<1> HIDE DEF c
<1>4. e \in Eps /\ n \in Reqs
  BY <1>1, <1>2, NewEpIs
<1> HIDE DEF e, n, done
<1>5. /\ q \in Pages /\ q.ep = e /\ q.req = n /\ q.conn = p.conn /\ q.ws = p.ws /\ q.timer = p.timer
      /\ q.connecting = p.connecting /\ q.fetches = p.fetches /\ q.pollTimer = p.pollTimer /\ q.polling = p.polling
  BY <1>1, <1>4 DEF Pages
<1> HIDE DEF q
<1>6. \A w : Has(q, w) <=> Has(p, w)
  BY <1>5 DEF Has
<1>7. Attempting(q)
  <2>1. CASE again
    <3>1. q.ep = NoEp /\ q.req = c
      BY <1>5, <2>1 DEF e, n
    <3>2. Pending(q) /\ ~Live(q) /\ ~Exhausted(q) /\ ~Active(q)
      BY <1>2, <3>1, NewEpIs DEF Pending, Live, Exhausted, Active
    <3>3. Sound(q)
      BY <1>2, <1>5, <3>1, <3>2, NewEpIs, AttemptsAssumption DEF Sound
    <3> QED
      BY <1>5, <1>6, <3>1, <3>2, <3>3, NewEpIs DEF Attempting, InAttempt
  <2>2. CASE ~again
    <3>1. q.ep = p.ep /\ q.req = p.req
      BY <1>5, <2>2 DEF e, n
    <3>2. (Pending(q) <=> Pending(p)) /\ (Live(q) <=> Live(p)) /\ (Exhausted(q) <=> Exhausted(p)) /\ (Active(q) <=> Active(p))
      BY <1>5, <3>1 DEF Pending, Live, Exhausted, Active
    <3>3. Sound(q)
      BY <1>5, <3>1, <3>2 DEF Attempting, Sound
    <3> QED
      BY <1>5, <1>6, <3>1, <3>2, <3>3 DEF Attempting, InAttempt
  <2> QED
    BY <2>1, <2>2
<1>8. Attempting(r) /\ r.ep = q.ep
  BY <1>7, AttemptReads
<1> HIDE DEF r
<1>9. again \/ q.ep = p0.ep
  BY <1>5 DEF e
<1>10. CASE ~ok /\ Active(q)
  <2>1. ~again
    BY <1>5, <1>10, NewEpIs DEF e, Active
  <2>2. r.ep = p0.ep /\ Sound(r)
    BY <1>8, <1>9, <2>1 DEF Attempting
  <2> QED
    BY <1>1, <1>3, <1>10, <2>2, FailTurns DEF done
<1>11. ASSUME NEW u, PageOK(u), u.ep = r.ep
       PROVE  Turned(p0, u, new)
  <2>1. LiveKept(p0, u)
    BY DEF LiveKept
  <2>2. CASE again
    BY <1>11, <2>1, <2>2 DEF Turned, EpKept
  <2>3. CASE ~again
    BY <1>1, <1>8, <1>9, <1>11, <2>1, <2>3 DEF Turned, EpKept
  <2> QED
    BY <2>2, <2>3
<1>12. CASE ~(~ok /\ Active(q)) /\ (~p.loaded \/ again)
  <2> DEFINE u == Start(r, "initial")
  <2>1. PageOK(u) /\ u.ep = r.ep
    BY <1>8, AttemptGoesOn
  <2>2. done = u
    BY <1>3, <1>12
  <2> HIDE DEF u
  <2> QED
    BY <1>11, <2>1, <2>2 DEF done
<1>13. CASE ~(~ok /\ Active(q)) /\ ~(~p.loaded \/ again)
  <2> DEFINE u == OpenSocket(r)
  <2>1. PageOK(u) /\ u.ep = r.ep
    BY <1>8, SocketStarts
  <2>2. done = u
    BY <1>3, <1>13
  <2> HIDE DEF u
  <2> QED
    BY <1>11, <2>1, <2>2 DEF done
<1> QED
  BY <1>10, <1>12, <1>13

(* poll, /status answered: p is p0 whose poll has been answered. *)
LEMMA PollTurns ==
    ASSUME NEW p0, NEW p, PageOK(p0), Has(p0, "poll"), p \in Pages, p = [p0 EXCEPT !.fetches = p.fetches],
           \A w : Has(p, w) <=> Has(p0, w) /\ w # "poll", NEW ok \in BOOLEAN, NEW new
    PROVE  Turned(p0, OnPoll(p, ok), new)
<1> DEFINE b == Poll(p)
           q == ReadEncoding(b, ok)
           done == OnPoll(p, ok)
<1>1. /\ p0 \in Pages /\ p0.ep.attempts \in Nat /\ Sound(p0) /\ Driver(p0) /\ EpisodeOK(p0) /\ SocketOK(p0) /\ TrustOK(p0)
  BY DEF PageOK, Sound, Pages, Eps
<1>2. Polled(p0) /\ p0.ws.open /\ p0.conn = "live" /\ p0.ws.due # "hello" /\ ~InAttempt(p0) /\ ~p0.timer
      /\ ~p0.connecting /\ p0.polling = TRUE
  BY <1>1 DEF Polled, Driver, SocketOK, Pages
<1>3. done = IF ok /\ p.req.encoding /\ p.ep = NoEp THEN StartEpisode(q) ELSE q
  BY DEF OnPoll
<1>4. b = [p EXCEPT !.pollTimer = "current", !.polling = TRUE]
  BY DEF Poll
<1> HIDE DEF b, done
<1>5. p.req = p0.req /\ p.ep = p0.ep
  BY <1>1 DEF Pages
<1>6. /\ b \in Pages /\ b.req = p0.req /\ b.ep = p0.ep /\ b.conn = p0.conn /\ b.ws = p0.ws /\ b.timer = p0.timer
      /\ b.connecting = p0.connecting /\ b.fetches = p.fetches /\ b.pollTimer = "current" /\ b.polling = TRUE
      /\ b.trust = p0.trust
  BY <1>1, <1>4 DEF Pages
<1>7. (Pending(b) <=> Pending(p0)) /\ (HasFault(b) <=> HasFault(p0)) /\ (Live(b) <=> Live(p0)) /\ (Exhausted(b) <=> Exhausted(p0))
      /\ (Active(b) <=> Active(p0))
  BY <1>6 DEF Pending, HasFault, Live, Exhausted, Active
<1>8. Sound(b)
  BY <1>1, <1>6, <1>7 DEF Sound
<1>9. /\ Sound(q) /\ SameBut(b, q) /\ (Live(q) => Live(b)) /\ (q.req.malformed <=> b.req.malformed)
      /\ (~ok => q.req.encoding /\ ~q.req.ok /\ q.trust = "none")
      /\ (ok /\ b.req.encoding => q.req.encoding /\ ~q.req.okAfter /\ q.trust = b.trust)
      /\ (ok /\ ~b.req.encoding => q = b)
  BY <1>8, EncodingIsRead
<1> HIDE DEF q
<1>10. /\ q \in Pages /\ q.ep = p0.ep /\ q.conn = "live" /\ q.ws = p0.ws /\ q.timer = p0.timer
       /\ q.connecting = p0.connecting /\ q.fetches = p.fetches /\ q.pollTimer = "current" /\ q.polling = TRUE
  BY <1>2, <1>6, <1>9 DEF SameBut, Sound
<1>11. \A w : Has(q, w) <=> Has(p0, w) /\ w # "poll"
  BY <1>10 DEF Has
<1>12. Polled(q) /\ ~InAttempt(q) /\ ~Has(q, "poll")
  BY <1>2, <1>10, <1>11 DEF Polled, InAttempt
<1>13. (Exhausted(q) <=> Exhausted(p0)) /\ (Active(q) <=> Active(p0))
  BY <1>10 DEF Exhausted, Active
<1>14. LiveKept(p0, q)
  BY <1>1, <1>6, <1>7, <1>9 DEF LiveKept, Live, Pending
<1>15. HasFault(p0) => HasFault(q)
  BY <1>6, <1>9 DEF HasFault
<1>16. SocketOK(q)
  <2>1. q.ws.spoiled => q.req.malformed
    BY <1>1, <1>6, <1>9, <1>10 DEF SocketOK
  <2>2. ~HasFault(q) /\ Pending(q) => q.req.mine
    BY <1>1, <1>2, <1>6, <1>7, <1>9, <1>15 DEF HasFault, Pending, SocketOK
  <2> QED
    BY <1>1, <1>2, <1>10, <1>12, <2>1, <2>2 DEF SocketOK
<1>17. TrustOK(q)
  <2>1. CASE ok /\ ~b.req.encoding
    <3>1. (HasFault(q) <=> HasFault(p0)) /\ (Qualifies(q) <=> Qualifies(p0)) /\ q.trust = p0.trust /\ (Live(q) <=> Live(p0))
      BY <1>6, <1>7, <1>9, <2>1 DEF HasFault, Qualifies
    <3> QED
      BY <1>1, <1>10, <3>1 DEF TrustOK
  <2>2. CASE ~(ok /\ ~b.req.encoding)
    <3>1. HasFault(q) /\ ~Qualifies(q) /\ ~Live(q)
      BY <1>9, <2>2 DEF HasFault, Qualifies, Live, Pending
    <3> QED
      BY <3>1 DEF TrustOK
  <2> QED
    BY <2>1, <2>2
<1>18. EpisodeOK(q)
  BY <1>1, <1>2, <1>10, <1>13, <1>15 DEF EpisodeOK, Stale
<1>19. Served(q)
  BY <1>2, <1>9, <1>10, <1>12, <1>16, <1>17 DEF Served
<1>20. Turned(p0, q, new)
  <2>1. PageOK(q)
    BY <1>2, <1>10, <1>12, <1>18, <1>19, ServedIsOK
  <2> QED
    BY <1>1, <1>10, <1>14, <2>1, Counted
<1>21. CASE ok /\ p.req.encoding /\ p.ep = NoEp
  <2> DEFINE u == StartEpisode(q)
  <2>1. Pending(q)
    BY <1>5, <1>6, <1>9, <1>21 DEF Pending
  <2>2. PageOK(u) /\ u.ep = NewEp /\ u.trust = "none"
    BY <1>9, <2>1, StartEpisodeIsOK
  <2>3. done = u
    BY <1>3, <1>21
  <2> HIDE DEF u
  <2> QED
    BY <1>5, <1>21, <2>2, <2>3 DEF Turned, LiveKept, EpKept, done
<1> QED
  BY <1>3, <1>20, <1>21 DEF done

-----------------------------------------------------------------------------
(* A callback, as the variables tell it. *)
Advanced == Turned(page, page', restarted /\ ~restarted')

LEMMA AgainTurns ==
    ASSUME NEW p, NEW q, NEW old, NEW new, Turned(p, q, old), old => new
    PROVE  Turned(p, q, new)
BY DEF Turned, EpKept

LEMMA SameTurns ==
    ASSUME NEW p, PageOK(p), NEW new
    PROVE  Turned(p, p, new)
<1>1. p \in Pages /\ Alike(p, p)
  BY DEF PageOK, Sound, Driver, Alike
<1> QED
  BY <1>1, AlikeTurns

LEMMA RetryAdvances ==
    ASSUME PageOK(page), RetryFires
    PROVE  Advanced
<1> DEFINE p == [page EXCEPT !.timer = FALSE]
           q == Connect(p)
<1>1. page \in Pages /\ Sound(page) /\ Driver(page) /\ EpisodeOK(page) /\ SocketOK(page) /\ TrustOK(page) /\ page.timer
      /\ page' = q
  BY DEF PageOK, Sound, RetryFires
<1>2. ~page.connecting /\ ~page.ws.open /\ ~Exhausted(page) /\ page.ws = NoWs /\ ~Live(page) /\ ~page.ep.inFlight
  BY <1>1 DEF Driver, SocketOK, TrustOK, EpisodeOK
<1>3. /\ p \in Pages /\ p.timer = FALSE /\ p.conn = page.conn /\ p.req = page.req /\ p.ep = page.ep /\ p.ws = page.ws
      /\ p.connecting = page.connecting
  BY <1>1 DEF Pages
<1> HIDE DEF p
<1>4. ~Exhausted(p) /\ ~Live(p) /\ (Active(p) <=> Active(page)) /\ (Pending(p) <=> Pending(page))
  BY <1>2, <1>3 DEF Exhausted, Live, Pending, Active
<1>5. Sound(p)
  BY <1>1, <1>3, <1>4 DEF Sound
<1>6. Active(p) => p.ep.attempts < EPISODE_ATTEMPTS
  BY <1>1, <1>2, <1>3, <1>4 DEF EpisodeOK
<1>7. PageOK(q) /\ q.ep.state = p.ep.state /\ q.ep.attempts >= p.ep.attempts
  BY <1>2, <1>3, <1>4, <1>5, <1>6, ConnectIsOK
<1> HIDE DEF q
<1>8. q \in Pages /\ (q.ep = NoEp => page.ep = NoEp)
  BY <1>1, <1>3, <1>7, NewEpIs DEF PageOK, Sound
<1>9. LiveKept(page, q)
  BY <1>2 DEF LiveKept
<1> QED
  BY <1>1, <1>3, <1>7, <1>8, <1>9, Counted DEF Advanced

LEMMA PollAdvances ==
    ASSUME PageOK(page), PollFires
    PROVE  Advanced
<1> DEFINE p == [page EXCEPT !.pollTimer = "none"]
           q == Start(p, "poll")
<1>1. page \in Pages /\ Driver(page) /\ page.pollTimer # "none"
      /\ page' = IF page.pollTimer = "current" THEN q ELSE p
  BY DEF PageOK, Sound, PollFires
<1>2. /\ p \in Pages /\ p.pollTimer = "none" /\ p.conn = page.conn /\ p.req = page.req /\ p.ep = page.ep /\ p.ws = page.ws
      /\ p.connecting = page.connecting /\ p.timer = page.timer /\ p.polling = page.polling /\ p.trust = page.trust
      /\ p.fetches = page.fetches
  BY <1>1 DEF Pages
<1> HIDE DEF p
<1>3. \A w : Has(p, w) <=> Has(page, w)
  BY <1>2 DEF Has
<1>4. CASE page.pollTimer = "current"
  <2>1. q \in Pages /\ (\A w : Has(q, w) <=> Has(p, w) \/ w = "poll") /\ q = [p EXCEPT !.fetches = q.fetches]
    BY <1>2, Starts
  <2> HIDE DEF q
  <2>2. /\ q.pollTimer = p.pollTimer /\ q.conn = p.conn /\ q.req = p.req /\ q.ep = p.ep /\ q.ws = p.ws
        /\ q.connecting = p.connecting /\ q.timer = p.timer /\ q.polling = p.polling /\ q.trust = p.trust
    BY <1>2, <2>1 DEF Pages
  <2>3. Alike(page, q)
    BY <1>2, <1>3, <1>4, <2>1, <2>2 DEF Alike, Polled
  <2> QED
    BY <1>1, <1>4, <2>1, <2>3, AlikeTurns DEF Advanced
<1>5. CASE page.pollTimer # "current"
  <2>1. Alike(page, p)
    BY <1>2, <1>3, <1>5 DEF Alike, Polled
  <2> QED
    BY <1>1, <1>2, <1>5, <2>1, AlikeTurns DEF Advanced
<1> QED
  BY <1>4, <1>5

LEMMA OpenAdvances ==
    ASSUME PageOK(page), Opens
    PROVE  Advanced
<1> DEFINE w == [page.ws EXCEPT !.opened = TRUE]
           q == [page EXCEPT !.ws.opened = TRUE]
<1>1. page \in Pages /\ Driver(page) /\ page.ws.open /\ page' = q
  BY DEF PageOK, Sound, Opens
<1>2. page.ws \in Sockets
  BY <1>1 DEF Pages
<1>3. w \in Sockets /\ w.opened = TRUE /\ w.open = page.ws.open /\ w.spoiled = page.ws.spoiled /\ w.due = page.ws.due
  BY <1>2 DEF Sockets
<1>4. q = [page EXCEPT !.ws = w]
  BY <1>2 DEF w
<1> HIDE DEF w, q
<1>5. q \in Pages /\ q.ws = w /\ SameButWs(page, q)
  BY <1>1, <1>3, <1>4 DEF Pages, SameButWs
<1>6. \A x : Has(q, x) <=> Has(page, x)
  BY <1>5 DEF Has, SameButWs
<1>7. Alike(page, q)
  BY <1>1, <1>3, <1>5, <1>6 DEF Alike, SameButWs, Polled, Driver
<1> QED
  BY <1>1, <1>5, <1>7, AlikeTurns DEF Advanced

LEMMA ClickAdvances ==
    ASSUME PageOK(page), Click
    PROVE  Advanced
<1>1. page \in Pages /\ Sound(page) /\ Driver(page) /\ EpisodeOK(page) /\ SocketOK(page) /\ TrustOK(page)
      /\ page.ep.attempts \in Nat
  BY DEF PageOK, Sound, Pages, Eps
<1>2. CASE Exhausted(page)
  <2> DEFINE p == [page EXCEPT !.ep = NewEp]
             c == ResyncClose(p)
             q == RetryNow(page)
  <2>1. page' = q /\ ~page.connecting /\ Pending(page)
    BY <1>1, <1>2 DEF Click, Exhausted, EpisodeOK, Sound
  <2>2. q = IF page.ws.open THEN [c EXCEPT !.timer = TRUE] ELSE Connect(p)
    BY <2>1 DEF RetryNow
  <2> HIDE DEF q
  <2>3. /\ p \in Pages /\ p.ep = NewEp /\ p.conn = page.conn /\ p.req = page.req /\ p.ws = page.ws
        /\ p.connecting = page.connecting /\ p.timer = page.timer
    BY <1>1, NewEpIs DEF Pages
  <2> HIDE DEF p
  <2>4. Pending(p) /\ ~Live(p) /\ ~Exhausted(p) /\ Active(p) /\ p.ep.attempts < EPISODE_ATTEMPTS /\ ~p.ep.inFlight
    BY <2>1, <2>3, NewEpIs, AttemptsAssumption DEF Pending, Live, Exhausted, Active
  <2>5. Sound(p)
    BY <1>1, <2>3, <2>4, NewEpIs, AttemptsAssumption DEF Sound
  <2>6. CASE page.ws.open
    <3>1. Resting(c) /\ c.ep = NewEp /\ c.conn = p.conn /\ c.req = p.req
      BY <2>3, Resyncs DEF Resting
    <3> HIDE DEF c
    <3>2. /\ q \in Pages /\ q.ep = NewEp /\ q.conn = p.conn /\ q.req = p.req /\ q.timer = TRUE /\ q.fetches = c.fetches
          /\ q.pollTimer = c.pollTimer /\ q.polling = c.polling /\ q.connecting = c.connecting /\ q.ws = c.ws
      BY <2>2, <2>6, <3>1 DEF Resting, Pages
    <3>3. Resting(q)
      BY <3>1, <3>2 DEF Resting, Has
    <3>4. ~Live(q) /\ ~Exhausted(q) /\ Pending(q) /\ Active(q)
      BY <2>3, <2>4, <3>2 DEF Pending, Live, Exhausted, Active
    <3>5. Sound(q)
      BY <2>3, <2>5, <3>2, <3>4, NewEpIs DEF Sound
    <3>6. PageOK(q)
      BY <2>3, <2>4, <3>2, <3>3, <3>4, <3>5, RestingIsOK
    <3>7. LiveKept(page, q) /\ EpKept(page, q, restarted /\ ~restarted')
      BY <1>2, <2>1, <3>4 DEF LiveKept, EpKept, Live
    <3> QED
      BY <2>1, <3>6, <3>7 DEF Advanced, Turned
  <2>7. CASE ~page.ws.open
    <3>1. p.ws = NoWs
      BY <1>1, <2>3, <2>7 DEF SocketOK
    <3> DEFINE u == Connect(p)
    <3>2. PageOK(u) /\ u.ep.state = p.ep.state
      BY <2>1, <2>3, <2>4, <2>5, <3>1, ConnectIsOK
    <3>3. q = u
      BY <2>2, <2>7
    <3> HIDE DEF u
    <3>4. Active(u)
      BY <2>4, <3>2 DEF Active
    <3>5. LiveKept(page, u) /\ EpKept(page, u, restarted /\ ~restarted')
      BY <1>2, <2>1, <3>4 DEF LiveKept, EpKept, Live
    <3> QED
      BY <2>1, <3>2, <3>3, <3>5 DEF Advanced, Turned
  <2> QED
    BY <2>6, <2>7
<1>3. CASE ~Exhausted(page)
  <2> DEFINE u == Connect(page)
  <2>1. Stale(page) /\ ~Active(page) /\ page' = u /\ page' # page
    BY <1>3 DEF Click, Exhausted
  <2>2. ~page.connecting /\ ~page.ws.open
    BY <2>1 DEF Connect
  <2>3. page.ws = NoWs /\ ~page.ep.inFlight /\ ~Live(page)
    BY <1>1, <2>1, <2>2 DEF SocketOK, EpisodeOK, TrustOK
  <2>4. PageOK(u) /\ u.ep.state = page.ep.state /\ u.ep.attempts >= page.ep.attempts
    BY <1>1, <1>3, <2>1, <2>2, <2>3, ConnectIsOK
  <2> HIDE DEF u
  <2>5. u \in Pages /\ (u.ep = NoEp => page.ep = NoEp) /\ LiveKept(page, u)
    BY <1>1, <2>3, <2>4, NewEpIs DEF PageOK, Sound, LiveKept
  <2> QED
    BY <1>1, <2>1, <2>4, <2>5, Counted DEF Advanced
<1> QED
  BY <1>2, <1>3

-----------------------------------------------------------------------------
LEMMA WithoutIs ==
    ASSUME page \in Pages, NEW f \in Fetches
    PROVE  LET q == Without(f)
           IN  /\ q \in Pages /\ q = [page EXCEPT !.fetches = q.fetches]
               /\ \A w : Has(q, w) <=> Has(page, w) /\ ~(f.current /\ f.what = w)
<1> DEFINE less == page.fetches \ {f}
           q == Without(f)
<1>1. less \in SUBSET Fetches
  BY DEF Pages
<1>2. q = [page EXCEPT !.fetches = less]
  BY DEF Without
<1> HIDE DEF less, q
<1>3. q \in Pages /\ q.fetches = less
  BY <1>1, <1>2 DEF Pages
<1>4. \A w : [what |-> w, current |-> TRUE] = f <=> f.current /\ f.what = w
  BY DEF Fetches
<1>5. \A w : Has(q, w) <=> Has(page, w) /\ ~(f.current /\ f.what = w)
  BY <1>3, <1>4 DEF less, Has
<1> QED
  BY <1>2, <1>3, <1>5 DEF q

(* A fetch of an earlier generation. *)
LEMMA LateTurns ==
    ASSUME PageOK(page), NEW f \in Fetches, ~f.current, NEW new
    PROVE  Turned(page, Without(f), new)
<1> DEFINE q == Without(f)
<1>1. page \in Pages /\ Driver(page)
  BY DEF PageOK, Sound
<1>2. q \in Pages /\ q = [page EXCEPT !.fetches = q.fetches] /\ \A w : Has(q, w) <=> Has(page, w)
  BY <1>1, WithoutIs
<1> HIDE DEF q
<1>3. Alike(page, q)
  <2>1. /\ q.pollTimer = page.pollTimer /\ q.conn = page.conn /\ q.req = page.req /\ q.ep = page.ep /\ q.ws = page.ws
        /\ q.connecting = page.connecting /\ q.timer = page.timer /\ q.polling = page.polling /\ q.trust = page.trust
    BY <1>1, <1>2 DEF Pages
  <2> QED
    BY <1>1, <1>2, <2>1 DEF Alike, Polled, Driver
<1>4. Turned(page, q, new)
  BY <1>2, <1>3, AlikeTurns
<1> QED
  BY <1>4 DEF q

(* The fetch of the attempt. *)
LEMMA AttemptFetched ==
    ASSUME PageOK(page), NEW f \in Fetches, f \in page.fetches, f.current, f.what # "poll"
    PROVE  LET q == Without(f)
           IN  Attempting(q) /\ q.ep = page.ep /\ ~Live(page) /\ q.loaded = page.loaded
<1> DEFINE q == Without(f)
<1>1. page \in Pages /\ Sound(page) /\ Driver(page) /\ EpisodeOK(page) /\ SocketOK(page) /\ TrustOK(page)
  BY DEF PageOK, Sound
<1>2. q \in Pages /\ q = [page EXCEPT !.fetches = q.fetches] /\ \A w : Has(q, w) <=> Has(page, w) /\ w # f.what
  BY <1>1, WithoutIs
<1>3. f.what \in {"status", "initial", "diagnose"} /\ Has(page, f.what)
  BY DEF Fetches, Has
<1> HIDE DEF q
<1>4. /\ q.pollTimer = page.pollTimer /\ q.conn = page.conn /\ q.req = page.req /\ q.ep = page.ep /\ q.ws = page.ws
      /\ q.connecting = page.connecting /\ q.timer = page.timer /\ q.polling = page.polling /\ q.trust = page.trust
      /\ q.loaded = page.loaded
  BY <1>1, <1>2 DEF Pages
<1>5. InAttempt(page) /\ ~page.ws.open /\ ~Polled(page) /\ page.connecting /\ ~page.timer
  BY <1>1, <1>3 DEF InAttempt, Driver
<1>6. page.ws = NoWs /\ ~Exhausted(page) /\ ~Live(page) /\ (page.ep.inFlight <=> Active(page)) /\ ~page.polling
  BY <1>1, <1>5 DEF SocketOK, EpisodeOK, TrustOK
<1>7. /\ (Active(q) <=> Active(page)) /\ ~Exhausted(q) /\ (Pending(q) <=> Pending(page)) /\ ~Live(q)
  BY <1>4, <1>6 DEF Active, Exhausted, Pending, Live
<1>8. Sound(q)
  BY <1>1, <1>2, <1>4, <1>6, <1>7 DEF Sound
<1>9. ~InAttempt(q) /\ ~Has(q, "poll") /\ q.pollTimer # "current"
  BY <1>1, <1>2, <1>3, <1>4, <1>5 DEF InAttempt, Polled, Driver
<1>10. q.polling = FALSE /\ q.connecting = TRUE
  BY <1>2, <1>4, <1>5, <1>6 DEF Pages
<1>11. Attempting(q)
  BY <1>4, <1>5, <1>6, <1>7, <1>8, <1>9, <1>10 DEF Attempting
<1> QED
  BY <1>4, <1>6, <1>11 DEF q

LEMMA WithoutIsSound ==
    ASSUME Sound(page), NEW f \in Fetches
    PROVE  Sound(Without(f)) /\ Without(f).ep = page.ep
<1> DEFINE q == Without(f)
<1>1. page \in Pages /\ q \in Pages /\ q = [page EXCEPT !.fetches = q.fetches]
  BY WithoutIs DEF Sound
<1> HIDE DEF q
<1>2. q.conn = page.conn /\ q.req = page.req /\ q.ep = page.ep /\ q.timer = page.timer
  BY <1>1 DEF Pages
<1>3. Sound(q)
  BY <1>1, <1>2 DEF Sound, Pending, Exhausted
<1> QED
  BY <1>2, <1>3 DEF q

LEMMA StatusAdvances ==
    ASSUME PageOK(page), restarted \in BOOLEAN, NEW f \in Fetches, NEW ok \in BOOLEAN, StatusReads(f, ok)
    PROVE  Advanced
<1> DEFINE p == Without(f)
<1>1. f \in page.fetches /\ f.what \in {"status", "poll"} /\ page \in Pages /\ Driver(page)
  BY DEF StatusReads, PageOK, Sound
<1>2. CASE ~f.current
  <2>1. page' = Without(f)
    BY <1>2 DEF StatusReads
  <2> QED
    BY <1>2, <2>1, LateTurns DEF Advanced
<1>3. CASE f.current /\ f.what = "status"
  <2>1. page' = OnStatus(p, restarted, ok) /\ (restarted => restarted /\ ~restarted')
    BY <1>3 DEF StatusReads
  <2>2. Attempting(p) /\ p.ep = page.ep /\ ~Live(page)
    BY <1>1, <1>3, AttemptFetched
  <2> HIDE DEF p
  <2>3. Turned(page, OnStatus(p, restarted, ok), restarted)
    BY <2>2, StatusTurns
  <2> QED
    BY <2>1, <2>3, AgainTurns DEF Advanced
<1>4. CASE f.current /\ f.what = "poll"
  <2>1. Has(page, "poll")
    BY <1>1, <1>4 DEF Has, Fetches
  <2>2. page.conn = "live"
    BY <1>1, <2>1 DEF Driver, Polled
  <2>3. page' = OnPoll(p, ok)
    BY <1>4, <2>2 DEF StatusReads
  <2>4. p \in Pages /\ p = [page EXCEPT !.fetches = p.fetches] /\ \A w : Has(p, w) <=> Has(page, w) /\ w # "poll"
    BY <1>1, <1>4, WithoutIs
  <2> HIDE DEF p
  <2>5. Turned(page, OnPoll(p, ok), restarted /\ ~restarted')
    BY <2>1, <2>4, PollTurns
  <2> QED
    BY <2>3, <2>5 DEF Advanced
<1> QED
  BY <1>1, <1>2, <1>3, <1>4

LEMMA InitialAdvances ==
    ASSUME PageOK(page), NEW f \in Fetches, InitialAnswers(f)
    PROVE  Advanced
<1> DEFINE p == Without(f)
           n == [p EXCEPT !.loaded = TRUE]
           q == OpenSocket(n)
<1>1. f \in page.fetches /\ f.what = "initial" /\ page \in Pages /\ page.ep.attempts \in Nat
      /\ page' = IF f.current THEN q ELSE p
  BY DEF InitialAnswers, PageOK, Sound, Pages, Eps
<1>2. CASE ~f.current
  BY <1>1, <1>2, LateTurns DEF Advanced
<1>3. CASE f.current
  <2>1. Attempting(p) /\ p.ep = page.ep /\ ~Live(page)
    BY <1>1, <1>3, AttemptFetched
  <2> HIDE DEF p
  <2>2. p \in Pages
    BY <2>1 DEF Attempting, Sound
  <2>3. /\ n \in Pages /\ n.pollTimer = p.pollTimer /\ n.conn = p.conn /\ n.req = p.req /\ n.ep = p.ep /\ n.ws = p.ws
        /\ n.connecting = p.connecting /\ n.timer = p.timer /\ n.polling = p.polling /\ n.fetches = p.fetches
    BY <2>2 DEF Pages
  <2> HIDE DEF n
  <2>4. \A w : Has(n, w) <=> Has(p, w)
    BY <2>3 DEF Has
  <2>5. /\ (Active(n) <=> Active(p)) /\ (Exhausted(n) <=> Exhausted(p)) /\ (Pending(n) <=> Pending(p)) /\ (Live(n) <=> Live(p))
    BY <2>3 DEF Active, Exhausted, Pending, Live
  <2>6. Sound(n)
    BY <2>1, <2>3, <2>5 DEF Attempting, Sound
  <2>7. Attempting(n)
    BY <2>1, <2>3, <2>4, <2>5, <2>6 DEF Attempting, InAttempt
  <2>8. PageOK(q) /\ q.ep = n.ep
    BY <2>7, SocketStarts
  <2> HIDE DEF q
  <2>9. q \in Pages /\ q.ep = page.ep /\ LiveKept(page, q)
    BY <2>1, <2>3, <2>8 DEF PageOK, Sound, LiveKept
  <2> QED
    BY <1>1, <1>3, <2>8, <2>9, Counted DEF Advanced
<1> QED
  BY <1>2, <1>3

LEMMA FetchFailTurns ==
    ASSUME PageOK(page), NEW f \in Fetches, NEW refused \in BOOLEAN, NEW new
    PROVE  Turned(page, Fail(Without(f), refused), new)
<1>1. page \in Pages /\ Sound(page)
  BY DEF PageOK, Sound
<1>2. Sound(Without(f)) /\ Without(f).ep = page.ep
  BY <1>1, WithoutIsSound
<1> QED
  BY <1>1, <1>2, FailTurns

LEMMA DiagnosedAdvances ==
    ASSUME PageOK(page), NEW f \in Fetches, Diagnosed(f)
    PROVE  Advanced
<1>1. page' = IF f.current THEN Fail(Without(f), TRUE) ELSE Without(f)
  BY DEF Diagnosed
<1>2. CASE f.current
  BY <1>1, <1>2, FetchFailTurns DEF Advanced
<1>3. CASE ~f.current
  BY <1>1, <1>3, LateTurns DEF Advanced
<1> QED
  BY <1>2, <1>3

LEMMA FailAdvances ==
    ASSUME PageOK(page), NEW f \in Fetches, NEW refused \in BOOLEAN, Fails(f, refused)
    PROVE  Advanced
<1>1. f \in page.fetches
      /\ page' = IF ~f.current \/ (f.what = "poll" /\ page.conn # "live") THEN Without(f) ELSE Fail(Without(f), refused)
  BY DEF Fails
<1>2. CASE ~f.current
  BY <1>1, <1>2, LateTurns DEF Advanced
<1>3. CASE f.current
  <2>1. f.what = "poll" => page.conn = "live"
    <3>1. f.what = "poll" => Has(page, "poll")
      BY <1>1, <1>3 DEF Has, Fetches
    <3> QED
      BY <3>1 DEF PageOK, Driver, Polled
  <2> QED
    BY <1>1, <1>3, <2>1, FetchFailTurns DEF Advanced
<1> QED
  BY <1>2, <1>3

LEMMA NoHandshakeAdvances ==
    ASSUME PageOK(page), NoHandshake
    PROVE  Advanced
<1>1. page \in Pages /\ Sound(page) /\ page' = Fail(page, FALSE)
  BY DEF PageOK, Sound, NoHandshake
<1> QED
  BY <1>1, FailTurns DEF Advanced

LEMMA EndAdvances ==
    ASSUME PageOK(page), NEW s \in {"current", "old"}, Ends(s)
    PROVE  Advanced
<1>1. page \in Pages /\ Sound(page) /\ Driver(page) /\ EpisodeOK(page) /\ SocketOK(page) /\ TrustOK(page)
      /\ page.ep.attempts \in Nat
  BY DEF PageOK, Sound, Pages, Eps
<1>2. CASE s = "old"
  <2> DEFINE q == [page EXCEPT !.old = FALSE]
  <2>1. page' = q
    BY <1>2 DEF Ends, Heeds
  <2>2. /\ q \in Pages /\ q.pollTimer = page.pollTimer /\ q.conn = page.conn /\ q.req = page.req /\ q.ep = page.ep
        /\ q.ws = page.ws /\ q.connecting = page.connecting /\ q.timer = page.timer /\ q.polling = page.polling
        /\ q.fetches = page.fetches /\ q.trust = page.trust
    BY <1>1 DEF Pages
  <2> HIDE DEF q
  <2>3. Alike(page, q)
    BY <1>1, <2>2 DEF Alike, Has, Polled, Driver
  <2> QED
    BY <2>1, <2>2, <2>3, AlikeTurns DEF Advanced
<1>3. CASE s = "current"
  <2> DEFINE g == [page EXCEPT !.ws = NoWs, !.trust = "none"]
             u == Start(g, "diagnose")
  <2>1. page.ws.open /\ page' = IF page.ws.opened THEN Fail(g, FALSE) ELSE u
    BY <1>3 DEF Ends, Heeds, Exists
  <2>2. NoWs \in Sockets
    BY DEF NoWs, Sockets
  <2>3. /\ g \in Pages /\ g.pollTimer = page.pollTimer /\ g.conn = page.conn /\ g.req = page.req /\ g.ep = page.ep
        /\ g.ws = NoWs /\ g.connecting = page.connecting /\ g.timer = page.timer /\ g.polling = page.polling
        /\ g.fetches = page.fetches /\ g.trust = "none"
    BY <1>1, <2>2 DEF Pages
  <2> HIDE DEF g
  <2>4. (Pending(g) <=> Pending(page)) /\ (Exhausted(g) <=> Exhausted(page)) /\ (Active(g) <=> Active(page)) /\ (Live(g) <=> Live(page))
    BY <2>3 DEF Pending, Exhausted, Active, Live
  <2>5. Sound(g)
    BY <1>1, <2>3, <2>4 DEF Sound
  <2>6. CASE page.ws.opened
    BY <1>1, <2>1, <2>3, <2>5, <2>6, FailTurns DEF Advanced
  <2>7. CASE ~page.ws.opened
    <3>1. page.ws.due = "hello" /\ ~Polled(page) /\ ~InAttempt(page) /\ ~page.timer /\ ~Exhausted(page) /\ page.connecting
          /\ ~Live(page) /\ ~page.polling /\ (page.ep.inFlight <=> Active(page))
      BY <1>1, <2>1, <2>7 DEF SocketOK, Driver, InAttempt, EpisodeOK, TrustOK
    <3>2. \A w : Has(g, w) <=> Has(page, w)
      BY <2>3 DEF Has
    <3>3. g.polling = FALSE /\ g.connecting = TRUE
      BY <1>1, <2>3, <3>1 DEF Pages
    <3>4. Attempting(g)
      BY <2>3, <2>4, <2>5, <3>1, <3>2, <3>3 DEF Attempting, InAttempt, Polled
    <3>5. PageOK(u) /\ u.ep = g.ep
      BY <3>4, AttemptGoesOn
    <3> HIDE DEF u
    <3>6. u \in Pages /\ LiveKept(page, u)
      BY <3>1, <3>5 DEF PageOK, Sound, LiveKept
    <3> QED
      BY <1>1, <2>1, <2>3, <2>7, <3>5, <3>6, Counted DEF Advanced
  <2> QED
    BY <2>6, <2>7
<1> QED
  BY <1>2, <1>3

(* What may come on a socket. *)
InOrder(what) ==
    /\ what \in {"hello", "state", "unreadable", "incomplete", "other API"}
    /\ what = "hello" => page.ws.due = "hello"
    /\ what = "state" => page.ws.due # "hello"

LEMMA MessageAdvances ==
    ASSUME PageOK(page), NEW s \in {"current", "old"}, NEW what, s = "current" => InOrder(what), Arrives(s, what)
    PROVE  Advanced
<1>1. CASE s = "old"
  <2>1. page' = page
    BY <1>1 DEF Arrives, Heeds
  <2> QED
    BY <2>1, SameTurns DEF Advanced
<1>2. CASE s = "current"
  <2> DEFINE d == IF page.ws.due = "hello" THEN "state" ELSE "any"
             p == Noted(page, d)
             new == restarted /\ ~restarted'
  <2>1. page \in Pages /\ Sound(page) /\ page.ws \in Sockets /\ page.ws.open /\ page.ws.opened /\ InOrder(what)
    BY <1>2 DEF PageOK, Sound, Pages, Arrives, Exists
  <2>2. d \in {"state", "any"}
    OBVIOUS
  <2>3. page' = Received(p, what)
    <3>1. p = [page EXCEPT !.ws.due = IF @ = "hello" THEN "state" ELSE "any"]
      BY <2>1 DEF Noted, Pages
    <3> QED
      BY <1>2, <3>1 DEF Arrives, Heeds
  <2>4. CASE what = "hello"
    <3>1. page' = OnHello(p) /\ d = "state" /\ page.ws.due = "hello"
      BY <2>1, <2>3, <2>4 DEF Received, InOrder
    <3> HIDE DEF d
    <3> QED
      BY <2>1, <3>1, HelloTurns DEF Advanced
  <2>5. CASE what = "state"
    <3>1. page' = OnState(p) /\ page.ws.due # "hello"
      BY <2>1, <2>3, <2>5 DEF Received, InOrder
    <3> HIDE DEF d
    <3>2. PageOK(p) /\ (Live(p) <=> Live(page)) /\ p.ep = page.ep
      BY <2>1, <2>2, <3>1, NotedIsOK
    <3>3. p.ws.open /\ p.ws.due # "hello"
      BY <2>1, <2>2, NotedIs
    <3> HIDE DEF p
    <3>4. Turned(p, OnState(p), new)
      BY <3>2, <3>3, StateTurns
    <3> QED
      BY <3>1, <3>2, <3>4 DEF Advanced, Turned, LiveKept, EpKept, Exhausted
  <2>6. CASE what \in {"unreadable", "incomplete"}
    <3>1. page' = OnMalformed(p, what)
      BY <2>3, <2>6 DEF Received
    <3> HIDE DEF d
    <3> QED
      BY <2>1, <2>2, <2>6, <3>1, MalformedTurns DEF Advanced
  <2>7. CASE what = "other API"
    <3>1. page' = Fail(p, TRUE)
      BY <2>3, <2>7 DEF Received
    <3> HIDE DEF d
    <3>2. Sound(p) /\ p.ep = page.ep
      BY <2>1, <2>2, NotedIsSound, NotedIs DEF SameButWs
    <3> HIDE DEF p
    <3> QED
      BY <2>1, <3>1, <3>2, FailTurns DEF Advanced
  <2> QED
    BY <2>1, <2>4, <2>5, <2>6, <2>7 DEF InOrder
<1> QED
  BY <1>1, <1>2

-----------------------------------------------------------------------------
(* The inductive invariant of the page. *)
PageHolds == PageOK(page) /\ sim \in {"well", "faulty"} /\ restarted \in BOOLEAN

LEMMA FreshIsOK == PageOK(Fresh) /\ Fresh.trust = "none" /\ ~Live(Fresh)
<1> DEFINE r == [NoReq EXCEPT !.connect = TRUE]
           p == [conn |-> "loading", req |-> r, ep |-> NoEp, ws |-> NoWs,
                 timer |-> FALSE, connecting |-> FALSE, fetches |-> {}, pollTimer |-> "none",
                 polling |-> FALSE, loaded |-> FALSE, known |-> FALSE, old |-> FALSE, trust |-> "none"]
<1>1. r \in Reqs /\ r.connect = TRUE /\ r.malformed = FALSE /\ r.unreadable = FALSE /\ r.incomplete = FALSE
  BY DEF NoReq, Reqs
<1>2. Fresh = Connect(p)
  BY DEF Fresh
<1>3. NoWs \in Sockets
  BY DEF NoWs, Sockets
<1> HIDE DEF r
<1>4. p \in Pages
  BY <1>1, <1>3, NewEpIs DEF Pages
<1>5. p.conn = "loading" /\ p.req = r /\ p.ep = NoEp /\ p.ws = NoWs /\ p.connecting = FALSE /\ p.timer = FALSE /\ p.trust = "none"
  OBVIOUS
<1> HIDE DEF p
<1>6. Pending(p) /\ ~Live(p) /\ ~Exhausted(p) /\ ~Active(p)
  BY <1>1, <1>5, NewEpIs DEF Pending, Live, Exhausted, Active
<1>7. Sound(p)
  BY <1>1, <1>4, <1>5, <1>6, NewEpIs, AttemptsAssumption DEF Sound
<1>8. PageOK(Connect(p)) /\ Connect(p).conn = p.conn /\ Connect(p).req = p.req /\ Connect(p).trust = p.trust
  BY <1>5, <1>6, <1>7, NewEpIs, ConnectIsOK
<1> QED
  BY <1>2, <1>5, <1>8 DEF Live

LEMMA InitHolds == Init => PageHolds
BY FreshIsOK DEF Init, PageHolds

LEMMA NextAdvances ==
    ASSUME PageHolds, [Next]_vars
    PROVE  Advanced /\ PageHolds'
<1>1. PageOK(page) /\ restarted \in BOOLEAN /\ sim \in {"well", "faulty"}
  BY DEF PageHolds
<1>2. Advanced
  <2>1. CASE page' = page
    BY <1>1, <2>1, SameTurns DEF Advanced
  <2>2. CASE RetryFires
    BY <1>1, <2>2, RetryAdvances
  <2>3. CASE PollFires
    BY <1>1, <2>3, PollAdvances
  <2>4. CASE Opens
    BY <1>1, <2>4, OpenAdvances
  <2>5. CASE HandshakeTimesOut
    BY <1>1, <2>5, NoHandshakeAdvances DEF HandshakeTimesOut
  <2>6. CASE Click
    BY <1>1, <2>6, ClickAdvances
  <2>7. CASE \E f \in Fetches : Step(f)
    <3>1. PICK f \in Fetches : Step(f)
      BY <2>7
    <3>2. CASE StatusAnswers(f)
      <4>1. PICK ok \in {TRUE} \cup {sim = "well"} : StatusReads(f, ok)
        BY <3>2 DEF StatusAnswers
      <4>2. ok \in BOOLEAN
        BY <4>1
      <4> QED
        BY <1>1, <4>1, <4>2, StatusAdvances
    <3>3. CASE InitialAnswers(f)
      BY <1>1, <3>3, InitialAdvances
    <3>4. CASE Diagnosed(f)
      BY <1>1, <3>4, DiagnosedAdvances
    <3>5. CASE FetchFails(f)
      <4> DEFINE maybe == f.what \in {"status", "initial"}
      <4>1. PICK refused \in {FALSE, maybe} : Fails(f, refused)
        BY <3>5 DEF FetchFails
      <4>3. maybe \in BOOLEAN
        OBVIOUS
      <4> HIDE DEF maybe
      <4>2. refused \in BOOLEAN
        BY <4>1, <4>3
      <4> QED
        BY <1>1, <4>1, <4>2, FailAdvances
    <3> QED
      BY <3>1, <3>2, <3>3, <3>4, <3>5 DEF Step
  <2>8. CASE \E s \in {"current", "old"} : Message(s) \/ Closes(s)
    <3>1. PICK s \in {"current", "old"} : Message(s) \/ Closes(s)
      BY <2>8
    <3>2. CASE Closes(s)
      BY <1>1, <3>2, EndAdvances DEF Closes
    <3>3. CASE Message(s)
      <4>1. PICK what : InOrder(what) /\ Arrives(s, what)
        BY <3>3 DEF Message, InTurn, InOrder
      <4> QED
        BY <1>1, <4>1, MessageAdvances
    <3> QED
      BY <3>1, <3>2, <3>3
  <2> QED
    BY <2>1, <2>2, <2>3, <2>4, <2>5, <2>6, <2>7, <2>8 DEF Next, Restarts, Changes, vars
<1>3. sim' \in {"well", "faulty"}
  BY <1>1 DEF Next, vars, RetryFires, PollFires, Opens, HandshakeTimesOut, NoHandshake, Click, Restarts, Changes, Step,
              StatusAnswers, StatusReads, InitialAnswers, Diagnosed, FetchFails, Fails, Message, Closes, Arrives, Ends
<1>4. restarted' \in BOOLEAN
  BY <1>1 DEF Next, vars, RetryFires, PollFires, Opens, HandshakeTimesOut, NoHandshake, Click, Restarts, Changes, Step,
              StatusAnswers, StatusReads, InitialAnswers, Diagnosed, FetchFails, Fails, Message, Closes, Arrives, Ends
<1>5. PageOK(page)'
  BY <1>2 DEF Advanced, Turned, PageOK, Sound, Driver, EpisodeOK, SocketOK, TrustOK, Pages, Pending, Exhausted, HasFault,
              Active, Live, Stale, Polled, InAttempt, Has, Qualifies
<1> QED
  BY <1>2, <1>3, <1>4, <1>5 DEF PageHolds

LEMMA AdvancedKeeps ==
    ASSUME Advanced
    PROVE  /\ Live(page) /\ page'.trust = "state" => Live(page')
           /\ page.ep # NoEp /\ (page'.ep = NoEp \/ page'.ep.attempts < page.ep.attempts)
                => \/ Live(page')
                   \/ restarted /\ ~restarted'
                   \/ page.ep.state = "exhausted" /\ page'.ep.state = "active"
BY DEF Advanced, Turned, LiveKept, EpKept, Exhausted, Active

(* What OneDriver counts. *)
LEMMA DriverIsOne ==
    ASSUME PageHolds
    PROVE  PageInv
<1> DEFINE attempts == {f \in page.fetches : f.current /\ f.what # "poll"}
           asked == {f \in page.fetches : f.current /\ f.what = "poll"}
           polls == Cardinality(asked) + (IF page.pollTimer = "current" THEN 1 ELSE 0)
           rec(w) == [what |-> w, current |-> TRUE]
<1>1. page \in Pages /\ page.fetches \subseteq Fetches /\ Driver(page) /\ Sound(page)
  BY DEF PageHolds, PageOK, Sound, Pages
<1>2. \A f \in page.fetches : f.current => f = rec(f.what) /\ f.what \in {"status", "initial", "diagnose", "poll"} /\ Has(page, f.what)
  <2>1. ASSUME NEW f \in page.fetches, f.current
        PROVE  f = rec(f.what) /\ f.what \in {"status", "initial", "diagnose", "poll"} /\ Has(page, f.what)
    <3>1. f \in [what : {"status", "initial", "diagnose", "poll"}, current : BOOLEAN]
      BY <1>1 DEF Fetches
    <3>2. f = [what |-> f.what, current |-> f.current] /\ f.current = TRUE
      BY <2>1, <3>1
    <3>3. f = rec(f.what)
      BY <3>2
    <3>4. Has(page, f.what)
      BY <3>3 DEF Has
    <3> QED
      BY <3>1, <3>3, <3>4
  <2> QED
    BY <2>1
<1>3. IF Has(page, "poll") THEN asked = {rec("poll")} ELSE asked = {}
  BY <1>2 DEF Has
<1>4. Cardinality(asked) = IF Has(page, "poll") THEN 1 ELSE 0
  BY <1>3, FS_Singleton, FS_EmptySet
<1>5. attempts = {} <=> ~InAttempt(page)
  <2>1. ASSUME NEW w \in {"status", "initial", "diagnose"}, Has(page, w)
        PROVE  rec(w) \in attempts
    BY <2>1 DEF Has
  <2>2. \A f \in attempts : InAttempt(page)
    BY <1>2 DEF InAttempt
  <2> HIDE DEF attempts
  <2> QED
    BY <2>1, <2>2 DEF InAttempt
<1>6. Cardinality(attempts) = IF InAttempt(page) THEN 1 ELSE 0
  <2>1. CASE ~InAttempt(page)
    BY <1>5, <2>1, FS_EmptySet
  <2>2. CASE InAttempt(page)
    <3>1. PICK w \in {"status", "initial", "diagnose"} : Has(page, w)
      BY <2>2 DEF InAttempt
    <3>2. \A v \in {"status", "initial", "diagnose"} : Has(page, v) => v = w
      BY <1>1, <3>1 DEF Driver
    <3>3. attempts = {rec(w)}
      <4>1. rec(w) \in attempts
        BY <3>1 DEF Has
      <4>2. \A f \in attempts : f = rec(w)
        BY <1>2, <3>2
      <4> HIDE DEF attempts, rec
      <4> QED
        BY <4>1, <4>2
    <3> QED
      BY <2>2, <3>3, FS_Singleton
  <2> QED
    BY <2>1, <2>2
<1> HIDE DEF attempts, asked
<1>7. polls = (IF Has(page, "poll") THEN 1 ELSE 0) + (IF page.pollTimer = "current" THEN 1 ELSE 0)
  BY <1>4
<1> HIDE DEF polls
<1>8. (polls = 1 <=> Polled(page)) /\ (polls = 0 <=> ~Polled(page)) /\ polls <= 1
  BY <1>1, <1>7 DEF Polled, Driver
<1>9. /\ page.timer => ~page.connecting /\ ~page.ws.open /\ page.ep.state # "exhausted"
      /\ page.connecting <=> attempts # {} \/ (page.ws.open /\ polls = 0 /\ page.ep.state # "exhausted")
      /\ Cardinality(attempts) + (IF page.ws.open THEN 1 ELSE 0) <= 1
      /\ polls <= 1 /\ (polls = 1 => page.ws.open /\ page.conn = "live")
      /\ page.timer \/ page.connecting \/ polls = 1 \/ page.ep.state = "exhausted"
  BY <1>1, <1>5, <1>6, <1>8 DEF Driver, Exhausted
<1>10. OneDriver
  BY <1>9 DEF OneDriver, polls, attempts, asked
<1>11. TypeOK
  <2>1. page.req \in [DOMAIN NoReq -> BOOLEAN]
    <3>1. page.req \in Reqs
      BY <1>1 DEF Pages
    <3> QED
      BY <3>1 DEF Reqs, NoReq
  <2>2. page.ep \in [state : {"none", "active", "exhausted"}, attempts : 0..EPISODE_ATTEMPTS, inFlight : BOOLEAN]
    <3>1. page.ep \in Eps /\ page.ep.attempts \in 0..EPISODE_ATTEMPTS
      BY <1>1, AttemptsAssumption DEF Sound, Pages, Eps
    <3> QED
      BY <3>1 DEF Eps
  <2>3. page.ws.open \in BOOLEAN
    BY <1>1 DEF Pages, Sockets
  <2> QED
    BY <1>1, <2>1, <2>2, <2>3 DEF TypeOK, PageHolds, Pages
<1> QED
  BY <1>10, <1>11 DEF PageInv

-----------------------------------------------------------------------------
(* The announcer. *)
Anns == [hadDisconnect : BOOLEAN, hadFault : BOOLEAN, exhausted : BOOLEAN,
         sig : (SUBSET Causes) \cup {{"down"}, {"refused"}}]

(* What the announcer remembers has been said. *)
AnnOK(a, t) ==
    /\ a \in Anns /\ t \subseteq {"down", "refused", "last known", "could not recover"}
    /\ t \cap {"down", "refused"} # {} <=> a.hadDisconnect
    /\ t # {} => a.hadDisconnect \/ a.hadFault
    /\ a.sig = {"down"} => "down" \in t
    /\ a.sig = {"refused"} => "refused" \in t
    /\ a.sig # {} /\ a.sig \subseteq Causes => "last known" \in t
    /\ a.exhausted => "could not recover" \in t

(* announceState, of what was told. *)
ToldAfter(a, t, p) == IF Live(p) THEN {} ELSE t \cup {IF w = "reconnected" THEN "last known" ELSE w : w \in Words(a, p)}

(* What there is to say of a page: its class, or the causes of its fault. *)
LEMMA Signatures ==
    ASSUME NEW p, PageOK(p)
    PROVE  /\ Stale(p) => Signature(p) \in {{"down"}, {"refused"}} /\ Signature(p) = {p.conn}
           /\ ~Stale(p) => Signature(p) \in SUBSET Causes /\ (Signature(p) # {} <=> HasFault(p))
<1>1. Stale(p) => p.conn \in {"down", "refused"} /\ Signature(p) = {p.conn}
  BY DEF Stale, Signature
<1>2. ~Stale(p) => Signature(p) = {c \in Causes : p.req[c]}
  BY DEF Signature
<1>3. {c \in Causes : p.req[c]} # {} <=> p.req.unreadable \/ p.req.incomplete \/ p.req.encoding
  BY DEF Causes
<1>4. HasFault(p) <=> p.req.unreadable \/ p.req.incomplete \/ p.req.encoding
  BY DEF HasFault, PageOK, Sound
<1> QED
  BY <1>1, <1>2, <1>3, <1>4

LEMMA CausesAre == \A s : s \in SUBSET Causes => s # {"down"} /\ s # {"refused"} /\ ~OfConnection(s)
BY DEF Causes, OfConnection

(* What the announcer says, and remembers, where it does not keep silent. *)
SpeaksOf(a, p) == ~Waiting(p) /\ ~Live(p) /\ ~StateDecides(a, p)

LEMMA Remembers ==
    ASSUME NEW a, NEW p, a \in Anns, PageOK(p), SpeaksOf(a, p)
    PROVE  LET b == Remembered(a, p)
           IN  /\ b \in Anns
               /\ b.hadDisconnect <=> a.hadDisconnect \/ Stale(p)
               /\ b.hadFault <=> a.hadFault \/ HasFault(p)
               /\ b.sig = IF Changed(a, p) THEN Signature(p) ELSE a.sig
               /\ b.exhausted <=> Exhausted(p)
<1> DEFINE d == a.hadDisconnect \/ Stale(p)
           f == a.hadFault \/ HasFault(p)
           s == IF Changed(a, p) THEN Signature(p) ELSE a.sig
           x == p.ep.state = "exhausted"
           b == Remembered(a, p)
<1>1. b = [hadDisconnect |-> d, hadFault |-> f, sig |-> s, exhausted |-> x]
  BY DEF Remembered, SpeaksOf
<1>2. d \in BOOLEAN /\ f \in BOOLEAN /\ x \in BOOLEAN
  OBVIOUS
<1>3. s \in (SUBSET Causes) \cup {{"down"}, {"refused"}}
  <2>1. Signature(p) \in (SUBSET Causes) \cup {{"down"}, {"refused"}}
    BY Signatures
  <2>2. a.sig \in (SUBSET Causes) \cup {{"down"}, {"refused"}}
    BY DEF Anns
  <2> QED
    BY <2>1, <2>2
<1> HIDE DEF d, f, s, x, b
<1>4. b \in Anns /\ b.hadDisconnect = d /\ b.hadFault = f /\ b.sig = s /\ b.exhausted = x
  BY <1>1, <1>2, <1>3 DEF Anns
<1>5. (b.hadDisconnect <=> d) /\ (b.hadFault <=> f) /\ (b.exhausted <=> x)
  BY <1>4
<1> QED
  BY <1>4, <1>5 DEF d, f, s, x, b, Exhausted

LEMMA ToldIs ==
    ASSUME NEW a, NEW t, NEW p, PageOK(p), SpeaksOf(a, p)
    PROVE  /\ ToldAfter(a, t, p) =
                t \cup (IF ~Changed(a, p) THEN {} ELSE IF Stale(p) THEN {p.conn} ELSE {"last known"})
                  \cup (IF Exhausted(p) /\ ~a.exhausted THEN {"could not recover"} ELSE {})
<1> DEFINE news == IF ~Changed(a, p) THEN {} ELSE IF Stale(p) THEN {p.conn}
                   ELSE IF a.hadDisconnect THEN {"reconnected"} ELSE {"last known"}
           end == IF Exhausted(p) /\ ~a.exhausted THEN {"could not recover"} ELSE {}
           said(w) == IF w = "reconnected" THEN "last known" ELSE w
<1>1. Words(a, p) = news \cup end
  BY DEF Words, SpeaksOf, Exhausted
<1>2. ToldAfter(a, t, p) = t \cup {said(w) : w \in news \cup end}
  BY <1>1 DEF ToldAfter, SpeaksOf
<1>3. {said(w) : w \in news \cup end} = {said(w) : w \in news} \cup {said(w) : w \in end}
  OBVIOUS
<1>4. {said(w) : w \in end} = end
  <2>1. said("could not recover") = "could not recover"
    OBVIOUS
  <2> QED
    BY <2>1
<1>5. {said(w) : w \in news} = IF ~Changed(a, p) THEN {} ELSE IF Stale(p) THEN {p.conn} ELSE {"last known"}
  <2>1. said("reconnected") = "last known" /\ said("last known") = "last known"
    OBVIOUS
  <2>2. Stale(p) => said(p.conn) = p.conn
    BY DEF Stale
  <2> HIDE DEF said
  <2>3. CASE ~Changed(a, p)
    BY <2>3
  <2>4. CASE Changed(a, p) /\ Stale(p)
    BY <2>2, <2>4
  <2>5. CASE Changed(a, p) /\ ~Stale(p)
    BY <2>1, <2>5
  <2> QED
    BY <2>3, <2>4, <2>5
<1> HIDE DEF news, said
<1> QED
  BY <1>2, <1>3, <1>4, <1>5

LEMMA NothingSaidIs == NothingSaid \in Anns /\ NothingSaid.hadDisconnect = FALSE /\ NothingSaid.hadFault = FALSE
                       /\ NothingSaid.sig = {} /\ NothingSaid.exhausted = FALSE
BY DEF NothingSaid, Anns

(* Each rendering keeps what was told in step with what is remembered. *)
LEMMA AnnouncedIsOK ==
    ASSUME NEW a, NEW t, NEW p, AnnOK(a, t), PageOK(p)
    PROVE  AnnOK(Remembered(a, p), ToldAfter(a, t, p))
<1> DEFINE b == Remembered(a, p)
           u == ToldAfter(a, t, p)
<1>1. a \in Anns
  BY DEF AnnOK
<1>2. CASE Live(p)
  <2>1. ~Waiting(p)
    BY <1>2 DEF Live, Waiting
  <2>2. b = NothingSaid /\ u = {}
    BY <1>2, <2>1 DEF Remembered, ToldAfter
  <2>3. AnnOK(NothingSaid, {})
    BY NothingSaidIs DEF AnnOK
  <2> QED
    BY <2>2, <2>3
<1>3. CASE Waiting(p) /\ ~Live(p)
  <2>1. b = a /\ Words(a, p) = {}
    BY <1>3 DEF Remembered, Words
  <2>2. u = t
    BY <1>3, <2>1 DEF ToldAfter
  <2> QED
    BY <2>1, <2>2
<1>4. CASE StateDecides(a, p) /\ ~Waiting(p) /\ ~Live(p)
  <2>1. b = [a EXCEPT !.exhausted = FALSE] /\ Words(a, p) = {}
    BY <1>4 DEF Remembered, Words
  <2>2. u = t
    BY <1>4, <2>1 DEF ToldAfter
  <2> HIDE DEF b
  <2>3. b \in Anns /\ b.exhausted = FALSE /\ b.sig = a.sig /\ b.hadDisconnect = a.hadDisconnect /\ b.hadFault = a.hadFault
    BY <1>1, <2>1 DEF Anns
  <2>4. AnnOK(b, t)
    BY <2>3 DEF AnnOK
  <2> QED
    BY <2>2, <2>4 DEF b
<1>5. CASE SpeaksOf(a, p)
  <2> DEFINE news == IF ~Changed(a, p) THEN {} ELSE IF Stale(p) THEN {p.conn} ELSE {"last known"}
             end == IF Exhausted(p) /\ ~a.exhausted THEN {"could not recover"} ELSE {}
  <2>1. /\ b \in Anns /\ (b.hadDisconnect <=> a.hadDisconnect \/ Stale(p)) /\ (b.hadFault <=> a.hadFault \/ HasFault(p))
        /\ b.sig = (IF Changed(a, p) THEN Signature(p) ELSE a.sig) /\ (b.exhausted <=> Exhausted(p))
    BY <1>1, <1>5, Remembers
  <2>2. u = t \cup news \cup end
    BY <1>5, ToldIs
  <2> HIDE DEF b, u
  <2>3. /\ Stale(p) => Signature(p) \in {{"down"}, {"refused"}} /\ Signature(p) = {p.conn}
        /\ ~Stale(p) => Signature(p) \in SUBSET Causes /\ (Signature(p) # {} <=> HasFault(p))
    BY Signatures
  <2>4. Stale(p) => p.conn \in {"down", "refused"}
    BY DEF Stale
  <2>5. Stale(p) => p.conn \in u
    <3>1. CASE Stale(p) /\ Changed(a, p)
      BY <2>2, <3>1
    <3>2. CASE Stale(p) /\ ~Changed(a, p)
      <4>1. a.sig = {p.conn}
        BY <2>3, <3>2 DEF Changed
      <4>2. p.conn \in t
        BY <2>4, <3>2, <4>1 DEF AnnOK
      <4> QED
        BY <2>2, <4>2
    <3> QED
      BY <3>1, <3>2
  <2>6. news \subseteq {"down", "refused", "last known"} /\ (~Stale(p) => news \subseteq {"last known"}) /\ end \subseteq {"could not recover"}
    BY <2>4
  <2> HIDE DEF news, end
  <2>7. u \subseteq {"down", "refused", "last known", "could not recover"}
    BY <2>2, <2>6 DEF AnnOK
  <2>8. u \cap {"down", "refused"} # {} <=> b.hadDisconnect
    <3>1. CASE Stale(p)
      BY <2>1, <2>4, <2>5, <3>1
    <3>2. CASE ~Stale(p)
      <4>1. u \cap {"down", "refused"} = t \cap {"down", "refused"}
        BY <2>2, <2>6, <3>2
      <4> QED
        BY <2>1, <3>2, <4>1 DEF AnnOK
    <3> QED
      BY <3>1, <3>2
  <2>9. u # {} => b.hadDisconnect \/ b.hadFault
    <3>1. CASE Stale(p) \/ HasFault(p)
      BY <2>1, <3>1
    <3>2. CASE ~Stale(p) /\ ~HasFault(p)
      <4>1. ~Changed(a, p) /\ ~Exhausted(p)
        BY <2>3, <3>2 DEF Changed, PageOK, EpisodeOK
      <4>2. u = t
        BY <2>2, <4>1 DEF news, end
      <4> QED
        BY <2>1, <4>2 DEF AnnOK
    <3> QED
      BY <3>1, <3>2
  <2>10. /\ b.sig = {"down"} => "down" \in u
         /\ b.sig = {"refused"} => "refused" \in u
         /\ b.sig # {} /\ b.sig \subseteq Causes => "last known" \in u
    <3>1. CASE ~Changed(a, p)
      <4>1. b.sig = a.sig /\ t \subseteq u
        BY <2>1, <2>2, <3>1
      <4> QED
        BY <4>1 DEF AnnOK
    <3>2. CASE Changed(a, p) /\ Stale(p)
      <4>1. b.sig = {p.conn}
        BY <2>1, <2>3, <3>2
      <4>2. ~(b.sig \subseteq Causes)
        BY <2>4, <3>2, <4>1 DEF Causes
      <4>3. (b.sig = {"down"} => "down" \in u) /\ (b.sig = {"refused"} => "refused" \in u)
        BY <2>5, <3>2, <4>1
      <4> QED
        BY <4>2, <4>3
    <3>3. CASE Changed(a, p) /\ ~Stale(p)
      <4>1. b.sig = Signature(p) /\ "last known" \in u
        BY <2>1, <2>2, <3>3 DEF news
      <4> QED
        BY <2>3, <3>3, <4>1, CausesAre
    <3> QED
      BY <3>1, <3>2, <3>3
  <2>11. b.exhausted => "could not recover" \in u
    <3>1. CASE a.exhausted
      BY <2>2, <3>1 DEF AnnOK
    <3>2. CASE ~a.exhausted /\ Exhausted(p)
      BY <2>2, <3>2 DEF end
    <3> QED
      BY <2>1, <3>1, <3>2
  <2>12. AnnOK(b, u)
    BY <2>1, <2>7, <2>8, <2>9, <2>10, <2>11 DEF AnnOK
  <2> QED
    BY <2>12 DEF b, u
<1> QED
  BY <1>2, <1>3, <1>4, <1>5 DEF SpeaksOf

(* Asked again about the same page, the announcer says nothing, and remembers the same. *)
LEMMA AgainIsSilent ==
    ASSUME NEW a, NEW p, a \in Anns, PageOK(p)
    PROVE  LET again == Remembered(a, p) IN Words(again, p) = {} /\ Remembered(again, p) = again
<1> DEFINE b == Remembered(a, p)
<1>1. CASE Waiting(p)
  BY <1>1 DEF Remembered, Words
<1>2. CASE Live(p) /\ ~Waiting(p)
  <2>1. b = NothingSaid
    BY <1>2 DEF Remembered
  <2>2. Words(NothingSaid, p) = {} /\ Remembered(NothingSaid, p) = NothingSaid
    BY <1>2, NothingSaidIs DEF Remembered, Words
  <2> HIDE DEF b
  <2> QED
    BY <2>1, <2>2 DEF b
<1>3. CASE StateDecides(a, p) /\ ~Live(p) /\ ~Waiting(p)
  <2>1. b = [a EXCEPT !.exhausted = FALSE]
    BY <1>3 DEF Remembered
  <2> HIDE DEF b
  <2>2. b \in Anns /\ b.exhausted = FALSE /\ b.sig = a.sig
    BY <2>1 DEF Anns
  <2>3. StateDecides(b, p)
    BY <1>3, <2>2 DEF StateDecides
  <2>4. Words(b, p) = {} /\ Remembered(b, p) = [b EXCEPT !.exhausted = FALSE]
    BY <1>3, <2>3 DEF Remembered, Words
  <2>5. [b EXCEPT !.exhausted = FALSE] = b
    BY <2>2 DEF Anns
  <2> QED
    BY <2>4, <2>5 DEF b
<1>4. CASE SpeaksOf(a, p)
  <2>1. /\ b \in Anns /\ (b.hadDisconnect <=> a.hadDisconnect \/ Stale(p)) /\ (b.hadFault <=> a.hadFault \/ HasFault(p))
        /\ b.sig = (IF Changed(a, p) THEN Signature(p) ELSE a.sig) /\ (b.exhausted <=> Exhausted(p))
    BY <1>4, Remembers
  <2> HIDE DEF b
  <2>2. ~Changed(b, p)
    BY <2>1 DEF Changed
  <2>3. ~StateDecides(b, p)
    <3>1. CASE Changed(a, p) /\ ~Stale(p)
      BY <2>1, <3>1, Signatures, CausesAre DEF StateDecides
    <3>2. CASE ~Changed(a, p)
      BY <1>4, <2>1, <3>2 DEF StateDecides, SpeaksOf
    <3> QED
      BY <3>1, <3>2 DEF StateDecides
  <2>4. SpeaksOf(b, p)
    BY <1>4, <2>3 DEF SpeaksOf
  <2>5. Words(b, p) = {}
    BY <2>1, <2>2, <2>4 DEF Words, SpeaksOf, Exhausted
  <2> DEFINE c == Remembered(b, p)
  <2>6. /\ c \in Anns /\ (c.hadDisconnect <=> b.hadDisconnect \/ Stale(p)) /\ (c.hadFault <=> b.hadFault \/ HasFault(p))
        /\ c.sig = (IF Changed(b, p) THEN Signature(p) ELSE b.sig) /\ (c.exhausted <=> Exhausted(p))
    BY <2>1, <2>4, Remembers
  <2> HIDE DEF c
  <2>7. (c.hadDisconnect <=> b.hadDisconnect) /\ (c.hadFault <=> b.hadFault) /\ c.sig = b.sig /\ (c.exhausted <=> b.exhausted)
    BY <2>1, <2>2, <2>6
  <2>8. c.hadDisconnect = b.hadDisconnect /\ c.hadFault = b.hadFault /\ c.exhausted = b.exhausted
    BY <2>1, <2>6, <2>7 DEF Anns
  <2>9. c = b
    BY <2>1, <2>6, <2>7, <2>8 DEF Anns
  <2> QED
    BY <2>5, <2>9 DEF b, c
<1> QED
  BY <1>1, <1>2, <1>3, <1>4 DEF SpeaksOf

LEMMA ClaimsHold ==
    ASSUME PageOK(page), AnnOK(ann, told)
    PROVE  ClaimsAreTrue
<1>1. ann \in Anns
  BY DEF AnnOK
<1>2. LiveIsTrusted
  BY DEF LiveIsTrusted, PageOK, TrustOK
<1>3. AskedAgain
  BY <1>1, AgainIsSilent DEF AskedAgain
<1>4. ASSUME Spoken
      PROVE  /\ Live(page) => told = {}
             /\ Stale(page) => page.conn \in told
             /\ page.conn = "live" /\ HasFault(page) /\ ~StateDecides(ann, page) => "last known" \in told
             /\ page.ep.state = "exhausted" /\ page.conn # "loading" => "could not recover" \in told
  <2>1. Live(page) => told = {}
    <3>1. CASE Live(page)
      <4>1. ann = NothingSaid
        BY <1>4, <3>1 DEF Spoken, Remembered, Waiting, Live
      <4> QED
        BY <4>1, NothingSaidIs DEF AnnOK
    <3> QED
      BY <3>1
  <2>2. SpeaksOf(ann, page) => /\ Signature(page) = {} \/ Signature(page) = ann.sig
                               /\ ann.exhausted <=> Exhausted(page)
    <3>1. CASE SpeaksOf(ann, page)
      <4>1. /\ ann.sig = (IF Changed(ann, page) THEN Signature(page) ELSE ann.sig) /\ (ann.exhausted <=> Exhausted(page))
        BY <1>1, <1>4, <3>1, Remembers DEF Spoken
      <4> QED
        BY <4>1 DEF Changed
    <3> QED
      BY <3>1
  <2>3. /\ Stale(page) => Signature(page) \in {{"down"}, {"refused"}} /\ Signature(page) = {page.conn}
        /\ ~Stale(page) => Signature(page) \in SUBSET Causes /\ (Signature(page) # {} <=> HasFault(page))
    BY Signatures
  <2>4. Stale(page) => page.conn \in told
    <3>1. CASE Stale(page)
      <4>1. SpeaksOf(ann, page) /\ page.conn \in {"down", "refused"}
        BY <3>1 DEF SpeaksOf, Stale, Waiting, Live, StateDecides
      <4>3. Signature(page) = {page.conn} /\ Signature(page) # {}
        BY <2>3, <3>1
      <4>2. ann.sig = {page.conn}
        BY <2>2, <4>1, <4>3
      <4> QED
        BY <4>1, <4>2 DEF AnnOK
    <3> QED
      BY <3>1
  <2>5. page.conn = "live" /\ HasFault(page) /\ ~StateDecides(ann, page) => "last known" \in told
    <3>1. CASE page.conn = "live" /\ HasFault(page) /\ ~StateDecides(ann, page)
      <4>1. SpeaksOf(ann, page) /\ ~Stale(page)
        BY <3>1 DEF SpeaksOf, Stale, Waiting, Live, Pending, HasFault
      <4>3. Signature(page) \in SUBSET Causes /\ Signature(page) # {}
        BY <2>3, <3>1, <4>1
      <4>2. ann.sig # {} /\ ann.sig \subseteq Causes
        BY <2>2, <4>1, <4>3
      <4> QED
        BY <4>2 DEF AnnOK
    <3> QED
      BY <3>1
  <2>6. page.ep.state = "exhausted" /\ page.conn # "loading" => "could not recover" \in told
    <3>1. CASE Exhausted(page) /\ page.conn # "loading"
      <4>1. (Stale(page) \/ HasFault(page)) /\ Pending(page)
        BY <3>1 DEF PageOK, EpisodeOK, Sound, Exhausted
      <4>2. SpeaksOf(ann, page)
        BY <3>1, <4>1 DEF SpeaksOf, Stale, Waiting, Live, StateDecides, Active, Exhausted
      <4> QED
        BY <2>2, <3>1, <4>2 DEF AnnOK
    <3> QED
      BY <3>1 DEF Exhausted
  <2> QED
    BY <2>1, <2>4, <2>5, <2>6
<1>5. ListenerKnows
  BY <1>4 DEF ListenerKnows, AnnOK
<1> QED
  BY <1>2, <1>3, <1>5 DEF ClaimsAreTrue

-----------------------------------------------------------------------------
(* The inductive invariant of the page with its announcer. *)
ListenerHolds == PageHolds /\ AnnOK(ann, told)

LEMMA AnnInitHolds == AnnInit => ListenerHolds
<1>1. AnnOK(NothingSaid, {})
  BY NothingSaidIs DEF AnnOK
<1> QED
  BY <1>1, InitHolds DEF AnnInit, ListenerHolds

LEMMA AnnounceHolds ==
    ASSUME NEW p, PageOK(p), AnnOK(ann, told), Announce(p)
    PROVE  AnnOK(ann', told')
<1>1. AnnOK(Remembered(ann, p), ToldAfter(ann, told, p))
  BY AnnouncedIsOK
<1>2. ann' = Remembered(ann, p) /\ told' = ToldAfter(ann, told, p)
  BY DEF Announce, ToldAfter
<1> QED
  BY <1>1, <1>2

LEMMA AnnNextHolds ==
    ASSUME ListenerHolds, [AnnNext]_avars
    PROVE  ListenerHolds' /\ (Advanced \/ UNCHANGED vars)
<1>1. PageHolds /\ PageOK(page) /\ AnnOK(ann, told)
  BY DEF ListenerHolds, PageHolds
<1>2. CASE Callback
  <2>1. Next /\ IF Unrendered THEN UNCHANGED <<ann, told>> ELSE Announce(page')
    BY <1>2 DEF Callback
  <2>2. Advanced /\ PageHolds'
    BY <1>1, <2>1, NextAdvances
  <2>3. PageOK(page')
    BY <2>2 DEF Advanced, Turned
  <2>4. AnnOK(ann', told')
    BY <1>1, <2>1, <2>3, AnnounceHolds
  <2>5. AnnOK(ann, told)'
    BY <2>4 DEF AnnOK
  <2> QED
    BY <2>2, <2>5 DEF ListenerHolds
<1>3. CASE Ticks
  <2>1. AnnOK(ann', told') /\ UNCHANGED vars
    BY <1>1, <1>3, AnnounceHolds DEF Ticks
  <2>2. AnnOK(ann, told)'
    BY <2>1 DEF AnnOK
  <2>3. PageHolds'
    BY <1>1, <2>1, NextAdvances
  <2> QED
    BY <2>1, <2>2, <2>3 DEF ListenerHolds
<1>4. CASE UNCHANGED avars
  <2>1. UNCHANGED vars /\ UNCHANGED <<ann, told>>
    BY <1>4 DEF avars
  <2>2. PageHolds'
    BY <1>1, <2>1, NextAdvances
  <2>3. AnnOK(ann, told)'
    BY <1>1, <2>1 DEF AnnOK
  <2> QED
    BY <2>1, <2>2, <2>3 DEF ListenerHolds
<1> QED
  BY <1>2, <1>3, <1>4 DEF AnnNext

(* Between any two callbacks of app.js the page is as PageOK says, and what the *)
(* announcer remembers is what it has said since the last recovery.               *)
THEOREM ThePageIsSound == AnnSpec => []ListenerHolds
<1>1. ListenerHolds /\ [AnnNext]_avars => ListenerHolds'
  BY AnnNextHolds
<1> QED
  BY <1>1, AnnInitHolds, PTL DEF AnnSpec

(* What the page claims is true whatever the simulator answers: its Live rests on *)
(* a state of a socket that onHello accepted after the last fault, and who only      *)
(* listens to annText knows what the banner shows.                                    *)
THEOREM WhatThePageClaimsIsTrue == AnnSpec => []ClaimsAreTrue
<1>1. ListenerHolds => ClaimsAreTrue
  BY ClaimsHold DEF ListenerHolds, PageHolds
<1> QED
  BY <1>1, ThePageIsSound, PTL

(* The page goes on by exactly one thing, its retry timer, its attempt or its     *)
(* poll loop, and only after exhaustion by none: connect, poll and armRetry never    *)
(* run twice at a time.                                                                *)
THEOREM ThePageGoesOnByOneThing == AnnSpec => [](PageInv /\ AnnTypeOK)
<1>1. ListenerHolds => PageInv
  BY DriverIsOne DEF ListenerHolds
<1>2. ListenerHolds => AnnTypeOK
  BY DEF ListenerHolds, AnnOK, Anns, AnnTypeOK
<1> QED
  BY <1>1, <1>2, ThePageIsSound, PTL

(* No callback takes Live from a page that still trusts its state: only fault, or *)
(* the end of the socket, does.                                                      *)
THEOREM LiveEndsWithAFault == AnnSpec => LiveUntilFault
<1>1. ListenerHolds /\ [AnnNext]_avars => [Live(page) /\ page'.trust = "state" => Live(page')]_vars
  BY AnnNextHolds, AdvancedKeeps
<1> QED
  BY <1>1, ThePageIsSound, PTL DEF AnnSpec, LiveUntilFault

(* An episode's attempts are never given back but by a recovery in onState, by a  *)
(* new run that connect reads, or by retryNow after exhaustion.                      *)
THEOREM TheBudgetIsKept == AnnSpec => BudgetKept
<1>1. ListenerHolds /\ [AnnNext]_avars =>
        [page.ep # NoEp /\ (page'.ep = NoEp \/ page'.ep.attempts < page.ep.attempts)
            => \/ Live(page')
               \/ restarted /\ ~restarted'
               \/ page.ep.state = "exhausted" /\ page'.ep.state = "active"]_vars
  BY AnnNextHolds, AdvancedKeeps
<1> QED
  BY <1>1, ThePageIsSound, PTL DEF AnnSpec, BudgetKept

-----------------------------------------------------------------------------
(* The page on the bench. *)
BenchHolds == ListenerHolds /\ "ok" \in DOMAIN server /\ server.ok \in BOOLEAN

(* A frame of the script, on a page whose socket has said hello. *)
LEMMA InjectAdvances ==
    ASSUME PageOK(page), NEW what, page.ws.open, page.ws.due # "hello", what # "hello", page' = Received(page, what)
    PROVE  Advanced
<1> DEFINE d == page.ws.due
           new == restarted /\ ~restarted'
<1>1. page \in Pages /\ Sound(page) /\ page.ws \in Sockets /\ page.ws.opened /\ d \in {"state", "any"}
  BY DEF PageOK, Sound, SocketOK, Pages, Sockets
<1>2. CASE what = "state"
  BY <1>2, StateTurns DEF Received, Advanced
<1>3. CASE what \in {"unreadable", "incomplete"}
  <2>1. page' = OnMalformed(page, what)
    BY <1>3 DEF Received
  <2>2. Noted(page, d) = page
    <3>1. [page.ws EXCEPT !.due = d] = page.ws
      BY <1>1 DEF Sockets
    <3> QED
      BY <1>1, <3>1 DEF Noted, Pages
  <2> HIDE DEF d
  <2>3. Turned(page, OnMalformed(Noted(page, d), what), new)
    BY <1>1, <1>3, MalformedTurns
  <2> QED
    BY <2>1, <2>2, <2>3 DEF Advanced
<1>4. CASE what = "other API"
  BY <1>1, <1>4, FailTurns DEF Received, Advanced
<1>5. CASE what \notin {"hello", "state", "unreadable", "incomplete", "other API"}
  <2>1. page' = page
    BY <1>5 DEF Received
  <2> QED
    BY <2>1, SameTurns DEF Advanced
<1> QED
  BY <1>2, <1>3, <1>4, <1>5

LEMMA FrameIsInOrder == InOrder(Frame)
BY DEF Frame, InOrder

(* What the script, the page and the server do between two states of the bench. *)
LEMMA BenchNextHolds ==
    ASSUME BenchHolds, InjectsHeard, [BenchNext]_<<avars, bench>>
    PROVE  BenchHolds' /\ (Live(page) /\ page'.trust = "state" => Live(page'))
<1>1. ListenerHolds /\ PageHolds /\ PageOK(page) /\ AnnOK(ann, told) /\ restarted \in BOOLEAN /\ sim \in {"well", "faulty"}
      /\ "ok" \in DOMAIN server /\ server.ok \in BOOLEAN
  BY DEF BenchHolds, ListenerHolds, PageHolds
<1>2. ASSUME UNCHANGED avars
      PROVE  ListenerHolds' /\ (Live(page) /\ page'.trust = "state" => Live(page'))
  <2>1. ListenerHolds'
    BY <1>1, <1>2, AnnNextHolds
  <2> QED
    BY <1>2, <2>1 DEF avars, vars
<1>3. ASSUME Advanced, sim' = sim, restarted' \in BOOLEAN, AnnOK(ann', told')
      PROVE  ListenerHolds' /\ (Live(page) /\ page'.trust = "state" => Live(page'))
  <2>1. PageOK(page')
    BY <1>3 DEF Advanced, Turned
  <2>2. PageOK(page)'
    BY <2>1 DEF PageOK, Sound, Driver, EpisodeOK, SocketOK, TrustOK, Pages, Pending, Exhausted, HasFault,
                Active, Live, Stale, Polled, InAttempt, Has, Qualifies
  <2>3. AnnOK(ann, told)'
    BY <1>3 DEF AnnOK
  <2> QED
    BY <1>1, <1>3, <2>2, <2>3, AdvancedKeeps DEF ListenerHolds, PageHolds
<1>4. ASSUME Advanced, Follow
      PROVE  AnnOK(ann', told')
  <2>1. PageOK(page')
    BY <1>4 DEF Advanced, Turned
  <2> QED
    BY <1>1, <1>4, <2>1, AnnounceHolds DEF Follow
<1>5. ASSUME Noticeable = server'
      PROVE  "ok" \in DOMAIN server' /\ server'.ok \in BOOLEAN
  BY <1>1, <1>5 DEF Noticeable
<1>6. CASE UNCHANGED <<avars, bench>>
  BY <1>1, <1>2, <1>6 DEF BenchHolds, bench
<1>7. CASE AnnNext /\ UNCHANGED bench
  <2>1. ListenerHolds' /\ (Advanced \/ UNCHANGED vars)
    BY <1>1, <1>7, AnnNextHolds
  <2>2. Live(page) /\ page'.trust = "state" => Live(page')
    BY <2>1, AdvancedKeeps DEF vars
  <2> QED
    BY <1>1, <1>7, <2>1, <2>2 DEF BenchHolds, bench
<1>8. CASE PageTurn
  <2>1. Advanced /\ sim' = sim /\ restarted' \in BOOLEAN
    <3>1. CASE RetryFires
      BY <1>1, <3>1, RetryAdvances DEF RetryFires
    <3>2. CASE PollFires
      BY <1>1, <3>2, PollAdvances DEF PollFires
    <3>3. CASE \E f \in Fetches : Answered(f)
      <4>1. PICK f \in Fetches : Answered(f)
        BY <3>3
      <4>2. CASE StatusReads(f, server.ok)
        BY <1>1, <4>2, StatusAdvances DEF StatusReads
      <4>3. CASE InitialAnswers(f)
        BY <1>1, <4>3, InitialAdvances DEF InitialAnswers
      <4>4. CASE Diagnosed(f)
        BY <1>1, <4>4, DiagnosedAdvances DEF Diagnosed
      <4>5. CASE Fails(f, FALSE)
        BY <1>1, <4>5, FailAdvances DEF Fails
      <4> QED
        BY <4>1, <4>2, <4>3, <4>4, <4>5 DEF Answered
    <3>4. CASE Opens
      BY <1>1, <3>4, OpenAdvances DEF Opens
    <3>5. CASE Ends("current")
      BY <1>1, <3>5, EndAdvances DEF Ends
    <3>6. CASE Ends("old")
      BY <1>1, <3>6, EndAdvances DEF Ends
    <3> QED
      BY <1>8, <3>1, <3>2, <3>3, <3>4, <3>5, <3>6 DEF PageTurn
  <2>2. Follow /\ Noticeable = server'
    BY <1>8 DEF PageTurn, Follow
  <2> QED
    BY <1>3, <1>4, <1>5, <2>1, <2>2 DEF BenchHolds
<1>9. CASE FrameComes
  <2>1. Arrives("current", Frame) /\ sim' = sim /\ restarted' = restarted /\ Announce(page') /\ Noticeable = server'
    BY <1>9 DEF FrameComes, Arrives
  <2>2. Advanced
    BY <1>1, <2>1, FrameIsInOrder, MessageAdvances
  <2>3. PageOK(page')
    BY <2>2 DEF Advanced, Turned
  <2>4. AnnOK(ann', told')
    BY <1>1, <2>1, <2>3, AnnounceHolds
  <2> QED
    BY <1>1, <1>3, <1>5, <2>1, <2>2, <2>4 DEF BenchHolds
<1>10. CASE Snapshot \/ Notices
  <2>1. UNCHANGED avars /\ "ok" \in DOMAIN server' /\ server'.ok \in BOOLEAN
    BY <1>1, <1>10 DEF Snapshot, Notices
  <2> QED
    BY <1>2, <2>1 DEF BenchHolds
<1>11. CASE ScriptTurn
  <2>1. CASE UNCHANGED avars /\ UNCHANGED server
    BY <1>1, <1>2, <2>1 DEF BenchHolds
  <2>2. CASE Step1.do = "inject" /\ Injects(Step1.frame)
    <3>1. Advanced
      <4>1. CASE page.ws.open
        <5>1. page.ws.due # "hello" /\ Step1.frame # "hello"
          BY <1>11, <2>2, <4>1 DEF InjectsHeard, ScriptTurn
        <5> QED
          BY <1>1, <2>2, <4>1, <5>1, InjectAdvances DEF Injects
      <4>2. CASE ~page.ws.open
        BY <1>1, <2>2, <4>2, SameTurns DEF Injects, Advanced
      <4> QED
        BY <4>1, <4>2
    <3>2. Follow /\ Noticeable = server' /\ sim' = sim /\ restarted' = restarted
      BY <2>2 DEF Injects, Follow
    <3> QED
      BY <1>1, <1>3, <1>4, <1>5, <3>1, <3>2 DEF BenchHolds
  <2>3. CASE Click /\ Follow
    <3>1. Advanced /\ sim' = sim /\ restarted' = restarted
      BY <1>1, <2>3, ClickAdvances DEF Click
    <3>2. Noticeable = server'
      BY <2>3 DEF Follow
    <3> QED
      BY <1>1, <1>3, <1>4, <1>5, <2>3, <3>1, <3>2 DEF BenchHolds
  <2>4. CASE Loads
    <3>1. page' = Fresh /\ ann' = NothingSaid /\ told' = {} /\ sim' = sim /\ restarted' = restarted
          /\ "ok" \in DOMAIN server' /\ server'.ok \in BOOLEAN
      BY <1>1, <2>4 DEF Loads
    <3>2. PageOK(page')
      BY <3>1, FreshIsOK
    <3>3. PageOK(page)'
      BY <3>2 DEF PageOK, Sound, Driver, EpisodeOK, SocketOK, TrustOK, Pages, Pending, Exhausted, HasFault,
                  Active, Live, Stale, Polled, InAttempt, Has, Qualifies
    <3>4. AnnOK(NothingSaid, {})
      BY NothingSaidIs DEF AnnOK
    <3>5. AnnOK(ann, told)'
      BY <3>1, <3>4 DEF AnnOK
    <3>6. page'.trust # "state"
      BY <3>1, FreshIsOK
    <3> QED
      BY <1>1, <3>1, <3>3, <3>5, <3>6 DEF BenchHolds, ListenerHolds, PageHolds
  <2>5. CASE \E signal : Signals(signal)
    <3>1. PICK signal : Signals(signal)
      BY <2>5
    <3>2. /\ page' = page /\ sim' = sim /\ restarted' \in BOOLEAN /\ UNCHANGED <<ann, told>>
          /\ "ok" \in DOMAIN server' /\ server'.ok \in BOOLEAN
      BY <1>1, <3>1 DEF Signals
    <3>3. Advanced
      BY <1>1, <3>2, SameTurns DEF Advanced
    <3>4. AnnOK(ann', told')
      BY <1>1, <3>2
    <3> QED
      BY <1>3, <3>2, <3>3, <3>4 DEF BenchHolds
  <2>6. CASE UNCHANGED avars /\ \E n : Clients(n)
    <3>1. "ok" \in DOMAIN server' /\ server'.ok \in BOOLEAN
      BY <1>1, <2>6 DEF Clients
    <3> QED
      BY <1>2, <2>6, <3>1 DEF BenchHolds
  <2>7. CASE UNCHANGED avars /\ \E parts : server' = [server EXCEPT !.faults = parts]
    <3>1. "ok" \in DOMAIN server' /\ server'.ok \in BOOLEAN
      BY <1>1, <2>7
    <3> QED
      BY <1>2, <2>7, <3>1 DEF BenchHolds
  <2> QED
    BY <1>11, <2>1, <2>2, <2>3, <2>4, <2>5, <2>6, <2>7 DEF ScriptTurn, Sights, Judge, Clients
<1> QED
  BY <1>6, <1>7, <1>8, <1>9, <1>10, <1>11 DEF BenchNext

(* The same of the page under gui_demo_capture.py, with the simulator's process,  *)
(* slots and faults, and the script's injected frames: as long as the script speaks   *)
(* only to a socket that has said hello, what the page claims is true.                 *)
THEOREM ClaimsHoldOnTheBench == BenchSpec /\ []InjectsHeard => []ClaimsAreTrue
<1>1. BenchInit => BenchHolds
  BY AnnInitHolds DEF BenchInit, BenchHolds
<1>2. BenchHolds /\ InjectsHeard /\ [BenchNext]_<<avars, bench>> => BenchHolds'
  BY BenchNextHolds
<1>3. BenchHolds => ClaimsAreTrue
  BY ClaimsHold DEF BenchHolds, ListenerHolds, PageHolds
<1> QED
  BY <1>1, <1>2, <1>3, PTL DEF BenchSpec

(* And there, a page load included, it leaves Live only for a fault or the end of *)
(* its socket.                                                                       *)
THEOREM LiveEndsWithAFaultOnTheBench == BenchSpec /\ []InjectsHeard => LiveUntilFault
<1>1. BenchInit => BenchHolds
  BY AnnInitHolds DEF BenchInit, BenchHolds
<1>2. BenchHolds /\ InjectsHeard /\ [BenchNext]_<<avars, bench>> => BenchHolds'
  BY BenchNextHolds
<1>3. BenchHolds /\ InjectsHeard /\ [BenchNext]_<<avars, bench>>
        => [Live(page) /\ page'.trust = "state" => Live(page')]_vars
  BY BenchNextHolds
<1> QED
  BY <1>1, <1>2, <1>3, PTL DEF BenchSpec, LiveUntilFault
=============================================================================
