------------------------------ MODULE PageClient ------------------------------
(***************************************************************************)
(* The connection of the browser page, api/static/app.js: one attempt at a *)
(* time over GET /status and the socket of /events, the status polls of a  *)
(* live page, the recovery requirement and the recovery episodes, against  *)
(* a simulator that may answer anything until it is well.                   *)
(*   The page is one record; its functions are operators from page to page, *)
(* as they call each other within one turn of the browser's event loop; an *)
(* action is one callback.  S.gen is compared only with the generation in  *)
(* which something was started, a socket's number only with that of a      *)
(* fault or a poll: both are kept as flags.  How long a wait is, the log    *)
(* and the views are left out; HandshakeMs, the 5 s of a fetch, are a        *)
(* failure that may come at any time.                                       *)
(***************************************************************************)
EXTENDS Naturals, FiniteSets

CONSTANT EPISODE_ATTEMPTS

ASSUME AttemptsAssumption == EPISODE_ATTEMPTS \in Nat \ {0}

VARIABLES
    page,       \* S
    sim,        \* "well", or "faulty": then any answer is possible
    restarted   \* the simulator is in a run that no attempt has read yet

vars == <<page, sim, restarted>>

NoWs == [open |-> FALSE, opened |-> FALSE, spoiled |-> FALSE, due |-> "hello"]
NoEp == [state |-> "none", attempts |-> 0, inFlight |-> FALSE]
NewEp == [NoEp EXCEPT !.state = "active"]

(* connect, or malformed (unreadable or incomplete) and encoding; mine: the      *)
(* current socket is the one that the connect requirement names; after: it was   *)
(* opened after the malformed message; ok: /status said ok since the encoding     *)
(* fault, okAfter: and the current socket was opened after that.                 *)
NoReq == [connect |-> FALSE, mine |-> FALSE, malformed |-> FALSE, unreadable |-> FALSE,
          incomplete |-> FALSE, after |-> FALSE, encoding |-> FALSE, ok |-> FALSE, okAfter |-> FALSE]

Fetches == [what : {"status", "initial", "diagnose", "poll"}, current : BOOLEAN]

TypeOK ==
    /\ page.conn \in {"loading", "live", "down", "refused"}
    /\ page.req \in [DOMAIN NoReq -> BOOLEAN]
    /\ page.ep \in [state : {"none", "active", "exhausted"}, attempts : 0..EPISODE_ATTEMPTS, inFlight : BOOLEAN]
    /\ page.fetches \subseteq Fetches
    /\ page.pollTimer \in {"none", "current", "stale"}
    /\ {page.timer, page.connecting, page.polling, page.loaded, page.known, page.old, page.ws.open} \subseteq BOOLEAN
    /\ page.trust \in {"none", "opened", "state"}
    /\ sim \in {"well", "faulty"} /\ restarted \in BOOLEAN

Pending(p) == p.req.connect \/ p.req.malformed \/ p.req.encoding
HasFault(p) == p.req.malformed \/ p.req.encoding
Active(p) == p.ep.state = "active"
Stale(p) == p.conn \in {"down", "refused"}
Live(p) == p.conn = "live" /\ ~Pending(p)

Start(p, what) == [p EXCEPT !.fetches = @ \cup {[what |-> what, current |-> TRUE]}]
-----------------------------------------------------------------------------
(* Mutant of NewGeneration: what was started before is still heeded. *)
NewGenerationNot(p) == p

(* S.gen += 1: fetches and poll timers of before find a token that is not theirs. *)
NewGeneration(p) ==
    [p EXCEPT !.fetches = {[f EXCEPT !.current = FALSE] : f \in @},
              !.pollTimer = IF @ = "none" THEN "none" ELSE "stale",
              !.polling = FALSE]

(* closeSocket: the socket of before may still deliver events. *)
CloseSocket(p) == [p EXCEPT !.ws = NoWs, !.old = @ \/ p.ws.open, !.trust = "none"]

(* Mutant of AttemptStarted: it is not counted. *)
AttemptStartedUncounted(p) == IF Active(p) THEN [p.ep EXCEPT !.inFlight = TRUE] ELSE p.ep

AttemptStarted(p) == IF Active(p) THEN [p.ep EXCEPT !.attempts = @ + 1, !.inFlight = TRUE] ELSE p.ep

(* connect. *)
Connect(p) ==
    IF p.connecting \/ p.ws.open THEN p
    ELSE Start([NewGeneration(p) EXCEPT !.connecting = TRUE, !.timer = FALSE, !.ep = AttemptStarted(p)], "status")

(* resyncClose. *)
ResyncClose(p) == [CloseSocket(NewGeneration(p)) EXCEPT !.connecting = FALSE, !.pollTimer = "none"]

(* startEpisode, with armRetry. *)
StartEpisode(p) == [ResyncClose(p) EXCEPT !.ep = NewEp, !.timer = TRUE]

(* poll: the loop of this generation. *)
Poll(p) == [p EXCEPT !.pollTimer = "current", !.polling = TRUE]

(* Mutant of Spent: one attempt more. *)
SpentLate(p) == p.ep.attempts > EPISODE_ATTEMPTS

Spent(p) == p.ep.attempts >= EPISODE_ATTEMPTS

(* episodeAttemptEnded. *)
AttemptEnded(p, open) ==
    LET q == [p EXCEPT !.ep.inFlight = FALSE, !.connecting = FALSE] IN
    IF Spent(q)
    THEN LET r == [q EXCEPT !.ep.state = "exhausted", !.timer = FALSE]
         IN  IF r.ws.open /\ r.conn = "live" /\ ~r.polling THEN Poll(r) ELSE r
    ELSE [(IF open THEN ResyncClose(q) ELSE q) EXCEPT !.timer = TRUE]

(* fail. *)
Fail(p, refused) ==
    LET q == [ResyncClose(p) EXCEPT !.conn = IF refused THEN "refused" ELSE "down"] IN
    IF q.ep = NoEp THEN [q EXCEPT !.timer = TRUE]
    ELSE IF Active(q) THEN AttemptEnded(q, FALSE) ELSE q

(* retryNow, and the listener of the button: after exhaustion, or for a stale page. *)
RetryNow(p) ==
    LET q == [p EXCEPT !.ep = NewEp] IN
    IF p.connecting THEN p
    ELSE IF p.ws.open THEN [ResyncClose(q) EXCEPT !.timer = TRUE] ELSE Connect(q)
-----------------------------------------------------------------------------
(* fault. *)
Fault(p, kind) ==
    LET r == IF HasFault(p) THEN p.req ELSE NoReq IN
    [p EXCEPT !.trust = "none",
              !.req = IF kind = "malformed" THEN [r EXCEPT !.malformed = TRUE, !.after = FALSE]
                      ELSE [r EXCEPT !.encoding = TRUE, !.ok = FALSE, !.okAfter = FALSE]]

(* readEncoding. *)
ReadEncoding(p, ok) ==
    IF ~ok THEN Fault(p, "encoding")
    ELSE IF p.req.encoding THEN [p EXCEPT !.req.ok = TRUE, !.req.okAfter = FALSE] ELSE p

(* openSocket.  trust: a state that comes now is to be trusted, unless /status *)
(* said just before that it is not up to date.                                  *)
OpenSocket(p) ==
    [CloseSocket(p) EXCEPT
        !.ws = [NoWs EXCEPT !.open = TRUE],
        !.req = [@ EXCEPT !.mine = FALSE, !.after = p.req.malformed, !.okAfter = p.req.ok],
        !.trust = IF p.req.encoding /\ ~p.req.ok THEN "none" ELSE "opened"]

(* Mutant of MalformedInEpisode: a new episode. *)
MalformedInEpisodeAnew(p) == StartEpisode(p)

(* onMalformed, during an episode: the attempt has ended. *)
MalformedInEpisode(p) == IF Active(p) /\ p.ep.inFlight THEN AttemptEnded(p, TRUE) ELSE p

(* onMalformed; what: unreadable, or incomplete. *)
OnMalformed(p, what) ==
    LET f == Fault([p EXCEPT !.ws.spoiled = TRUE], "malformed")
        q == [f EXCEPT !.req[what] = TRUE]
        encodingOnly == p.req.encoding /\ ~p.req.malformed
    IN  IF p.ep # NoEp THEN MalformedInEpisode(q)
        ELSE IF encodingOnly THEN q ELSE StartEpisode(q)

(* Mutant of Qualifies: any socket will do. *)
QualifiesAny(p) == IF HasFault(p) THEN p.req.encoding => p.req.ok ELSE p.req.mine

(* Mutant of Qualifies: any fault asks for a socket after an unreadable message. *)
QualifiesAfter(p) ==
    IF HasFault(p) THEN ~p.ws.spoiled /\ p.req.after /\ (p.req.encoding => p.req.ok /\ p.req.okAfter) ELSE p.req.mine

(* onState: does this state meet the requirement? *)
Qualifies(p) ==
    IF HasFault(p)
    THEN /\ ~p.ws.spoiled
         /\ p.req.malformed => p.req.after
         /\ p.req.encoding => p.req.ok /\ p.req.okAfter
    ELSE p.req.mine

(* onState, of a complete state. *)
OnState(p) ==
    LET q == [p EXCEPT !.trust = IF @ = "opened" THEN "state" ELSE @] IN
    IF ~Pending(p) THEN q
    ELSE IF Qualifies(p) THEN [q EXCEPT !.req = NoReq, !.ep = NoEp]
    ELSE IF Active(p) /\ p.ep.inFlight THEN AttemptEnded(q, TRUE) ELSE q

(* onHello, of an API that the page speaks. *)
OnHello(p) ==
    Poll([p EXCEPT !.connecting = FALSE, !.conn = "live",
                   !.req = IF HasFault(p) THEN @ ELSE [NoReq EXCEPT !.connect = TRUE, !.mine = TRUE]])

(* connect, /status answered: a new run ends the episode, and asks for connect. *)
OnStatus(p, new, ok) ==
    LET again == p.known /\ new
        q == [p EXCEPT !.known = TRUE, !.ep = IF again THEN NoEp ELSE @,
                       !.req = IF again THEN [NoReq EXCEPT !.connect = TRUE] ELSE @]
        r == ReadEncoding(q, ok)
    IN  IF ~ok /\ Active(q) THEN Fail(r, FALSE)
        ELSE IF ~p.loaded \/ again THEN Start(r, "initial") ELSE OpenSocket(r)

(* poll, /status answered. *)
OnPoll(p, ok) ==
    LET q == ReadEncoding(Poll(p), ok)
    IN  IF ok /\ p.req.encoding /\ p.ep = NoEp THEN StartEpisode(q) ELSE q
-----------------------------------------------------------------------------
(* A document that was just loaded, its first attempt under way. *)
Fresh ==
    Connect([conn |-> "loading", req |-> [NoReq EXCEPT !.connect = TRUE], ep |-> NoEp, ws |-> NoWs,
             timer |-> FALSE, connecting |-> FALSE, fetches |-> {}, pollTimer |-> "none",
             polling |-> FALSE, loaded |-> FALSE, known |-> FALSE, old |-> FALSE, trust |-> "none"])

Init ==
    /\ page = Fresh
    /\ sim \in {"well", "faulty"}
    /\ restarted = FALSE

RetryFires ==
    /\ page.timer
    /\ page' = Connect([page EXCEPT !.timer = FALSE])
    /\ UNCHANGED <<sim, restarted>>

PollFires ==
    /\ page.pollTimer # "none"
    /\ LET p == [page EXCEPT !.pollTimer = "none"]
       IN  page' = IF page.pollTimer = "current" THEN Start(p, "poll") ELSE p
    /\ UNCHANGED <<sim, restarted>>

Without(f) == [page EXCEPT !.fetches = @ \ {f}]

(* /status answers. *)
StatusReads(f, ok) ==
    /\ f \in page.fetches /\ f.what \in {"status", "poll"}
    /\ page' = IF ~f.current THEN Without(f)
               ELSE IF f.what = "status" THEN OnStatus(Without(f), restarted, ok)
               ELSE IF page.conn = "live" THEN OnPoll(Without(f), ok) ELSE Without(f)
    /\ restarted' = (restarted /\ ~(f.current /\ f.what = "status"))
    /\ UNCHANGED sim

(* Only a faulty simulator says that its state cannot be built. *)
StatusAnswers(f) == \E ok \in {TRUE} \cup {sim = "well"} : StatusReads(f, ok)

(* /vehicle, /dtcs and /ecus answer. *)
InitialAnswers(f) ==
    /\ f \in page.fetches /\ f.what = "initial"
    /\ page' = IF f.current THEN OpenSocket([Without(f) EXCEPT !.loaded = TRUE]) ELSE Without(f)
    /\ UNCHANGED <<sim, restarted>>

(* diagnoseRefusal: whatever the cause, it was a refusal. *)
Diagnosed(f) ==
    /\ f \in page.fetches /\ f.what = "diagnose"
    /\ page' = IF f.current THEN Fail(Without(f), TRUE) ELSE Without(f)
    /\ UNCHANGED <<sim, restarted>>

(* A fetch fails or takes longer than FETCH_TIMEOUT_MS; 403 and 421 are refusals. *)
Fails(f, refused) ==
    /\ f \in page.fetches
    /\ page' = IF ~f.current \/ (f.what = "poll" /\ page.conn # "live") THEN Without(f)
               ELSE Fail(Without(f), refused)
    /\ UNCHANGED <<sim, restarted>>

FetchFails(f) ==
    /\ ~f.current \/ sim = "faulty"
    /\ \E refused \in {FALSE, f.what \in {"status", "initial"}} : Fails(f, refused)

(* Mutant of Heeds: the handlers do not look at the socket they belong to. *)
HeedsAll(s) == TRUE

(* S.ws === ws, in the handlers of the current socket and of one it replaced. *)
Heeds(s) == s = "current"

Exists(s) == IF s = "current" THEN page.ws.open ELSE page.old

Opens ==
    /\ page.ws.open /\ ~page.ws.opened
    /\ page' = [page EXCEPT !.ws.opened = TRUE]
    /\ UNCHANGED <<sim, restarted>>

(* onMessage: hello, a state, one that cannot be read or lacks its parts, one of  *)
(* another version of the API, or one of an unknown type.                          *)
Received(p, what) ==
    CASE what = "hello" -> OnHello(p)
      [] what = "state" -> OnState(p)
      [] what \in {"unreadable", "incomplete"} -> OnMalformed(p, what)
      [] what = "other API" -> Fail(p, TRUE)
      [] OTHER -> p

(* A message of the socket. *)
Arrives(s, what) ==
    /\ Exists(s)
    /\ s = "current" => page.ws.opened
    /\ page' = IF Heeds(s) THEN Received([page EXCEPT !.ws.due = IF @ = "hello" THEN "state" ELSE "any"], what)
               ELSE page
    /\ UNCHANGED <<sim, restarted>>

(* What the server sends: hello, then a state, and more of them. *)
InTurn == IF page.ws.due = "hello" THEN "hello" ELSE "state"

Message(s) ==
    \/ Arrives(s, InTurn)
    \/ \E what \in {"unreadable", "incomplete"} : sim = "faulty" /\ Arrives(s, what)
    \/ sim = "faulty" /\ page.ws.due = "hello" /\ Arrives(s, "other API")

(* onclose: before it was open, the page asks why. *)
Ends(s) ==
    /\ Exists(s)
    /\ LET gone == IF s = "old" THEN [page EXCEPT !.old = FALSE] ELSE [page EXCEPT !.ws = NoWs, !.trust = "none"]
       IN  page' = IF ~Heeds(s) THEN gone
                   ELSE IF page.ws.opened THEN Fail(gone, FALSE) ELSE Start(gone, "diagnose")
    /\ UNCHANGED <<sim, restarted>>

Closes(s) == (s = "current" => sim = "faulty") /\ Ends(s)

(* The handshake does not end within FETCH_TIMEOUT_MS. *)
NoHandshake ==
    /\ page.ws.open /\ ~page.ws.opened
    /\ page' = Fail(page, FALSE)
    /\ UNCHANGED <<sim, restarted>>

HandshakeTimesOut == sim = "faulty" /\ NoHandshake

(* The button, which is shown to a stale page and after exhaustion. *)
Click ==
    /\ page' = IF page.ep.state = "exhausted" THEN RetryNow(page)
               ELSE IF Stale(page) /\ ~Active(page) THEN Connect(page) ELSE page
    /\ page' # page
    /\ UNCHANGED <<sim, restarted>>

(* A new run: the sockets of the old one are gone. *)
Restarts ==
    /\ sim = "faulty" /\ ~page.ws.open
    /\ restarted' = TRUE
    /\ UNCHANGED <<page, sim>>

Changes ==
    /\ sim' \in {"well", "faulty"} \ {sim}
    /\ UNCHANGED <<page, restarted>>

Step(f) == StatusAnswers(f) \/ InitialAnswers(f) \/ Diagnosed(f) \/ FetchFails(f)

(* What the browser's timers, and a socket's first two messages or its end, bring. *)
Handshake == Opens \/ HandshakeTimesOut \/ (~page.ws.opened /\ Closes("current"))
Speaks == page.ws.due # "any" /\ (Message("current") \/ Closes("current"))

Next ==
    \/ RetryFires \/ PollFires \/ Opens \/ HandshakeTimesOut \/ Click \/ Restarts \/ Changes
    \/ \E f \in Fetches : Step(f)
    \/ \E s \in {"current", "old"} : Message(s) \/ Closes(s)

Spec == Init /\ [][Next]_vars

(* A fetch ends, for it has a timeout; so does a handshake; a socket that opened *)
(* says hello and sends its state, or ends, while the simulator's loop runs.     *)
Fairness ==
    /\ WF_vars(RetryFires) /\ WF_vars(PollFires)
    /\ \A f \in Fetches : WF_vars(Step(f))
    /\ WF_vars(Handshake) /\ WF_vars(Speaks)

FairSpec == Spec /\ Fairness
-----------------------------------------------------------------------------
(* "Live" (gui-m3b-graphs-design.md:736) is never a mistake: the connection   *)
(* has said hello, and a complete state came on a socket that was opened     *)
(* after the last unreadable message and after /status last said that the    *)
(* state is up to date.                                                        *)
LiveIsTrusted == Live(page) => page.trust = "state"

(* And the page leaves Live only for a fault or the end of its socket: no      *)
(* healthy poll, no late event of an earlier attempt, no click does it.        *)
LiveUntilFault == [][Live(page) /\ page'.trust = "state" => Live(page')]_vars

(* The page always goes on by exactly one thing: the retry timer, an attempt *)
(* with one fetch or one socket, or an open connection that is polled; only   *)
(* after exhaustion it may wait for the reader.  Nothing is armed while an     *)
(* attempt is in flight.                                                       *)
OneDriver ==
    LET attempts == {f \in page.fetches : f.current /\ f.what # "poll"}
        polls == Cardinality({f \in page.fetches : f.current /\ f.what = "poll"})
                 + (IF page.pollTimer = "current" THEN 1 ELSE 0)
    IN  /\ page.timer => ~page.connecting /\ ~page.ws.open /\ page.ep.state # "exhausted"
        /\ page.connecting <=> attempts # {} \/ (page.ws.open /\ polls = 0 /\ page.ep.state # "exhausted")
        /\ Cardinality(attempts) + (IF page.ws.open THEN 1 ELSE 0) <= 1
        /\ polls <= 1 /\ (polls = 1 => page.ws.open /\ page.conn = "live")
        /\ page.timer \/ page.connecting \/ polls = 1 \/ page.ep.state = "exhausted"

(* With the types, the page between two callbacks. *)
PageInv == TypeOK /\ OneDriver

(* The budget of an episode is given back only by a recovery, by a new run, or *)
(* by the reader after exhaustion; not by hello, a poll or another fault.      *)
BudgetKept ==
    [][page.ep # NoEp /\ (page'.ep = NoEp \/ page'.ep.attempts < page.ep.attempts)
        => \/ Live(page')
           \/ restarted /\ ~restarted'
           \/ page.ep.state = "exhausted" /\ page'.ep.state = "active"]_vars

(* The first message was unreadable while an encoding fault was pending: the *)
(* attempt stays under way, and nothing but the socket's end ends it.          *)
Deaf(p) == p.ws.open /\ p.ws.spoiled /\ p.connecting

(* With a simulator that is well again for ever, the page comes back to Live, *)
(* where it stays, or has used up an episode and waits for the reader; but a   *)
(* deaf attempt may wait for ever.                                              *)
EndsLive == <>[](sim = "well") => []<>(Live(page) \/ page.ep.state = "exhausted" \/ Deaf(page))

(* An episode ends whatever the simulator answers, also if it is never well.   *)
EpisodesEnd == page.ep.state = "active" ~> page.ep.state # "active"

(* "With an encoding requirement pending, the resync waits for a poll that    *)
(* reads ok true" (app.js:402): a page that waits so has its poll loop.         *)
ResyncHasItsPoll ==
    page.req.encoding /\ page.req.malformed /\ page.ws.open /\ page.ep = NoEp => page.polling
=============================================================================
