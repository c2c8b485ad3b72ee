# A TLA+ model of the ECU simulator

The ECU simulator (`src/src/ecu_simulator/`) answers diagnostic requests (OBD-II and UDS over ISO-TP) on a CAN
interface, from a configured set of ECUs whose signals and trouble codes follow a scenario.  With `--api` it also
serves a browser page that shows what happens on the bus, live.  This directory holds TLA+ modules translated from
that code, TLC configurations that check them on small instances, and proofs of the main safety results.  Four of
the scripts that drive the simulator or its page are modelled too, as the environment they are.

Paths below are relative to `src/src/ecu_simulator/`, unless they begin with `decisions/` (`src/docs/decisions/`) or
`scripts/` (`src/scripts/`).

## 1. The system

Everything runs in one `asyncio` event loop, in one process; nothing is persisted.  Concurrency is therefore between
tasks and callbacks, and only at an `await`: the code between two awaits is atomic.  That is the granularity of every
action in these modules.

| Component | State it keeps | Operations | Hard behaviour | What makes it correct |
|---|---|---|---|---|
| Observed dispatcher, hand-off (`observe/wrapper.py`, `handoff.py`) | issued numbers; a bounded buffer and its bytes; drops | wrap a dispatch; append or drop; pop | full while the publisher is behind | every exchange is accounted for |
| Publisher (`observe/publisher.py`) | ring, open connections, closed and unresolved ones, cumulative totals, counters, last state | wake, drain turn, publish, connect, disconnect, retire, fold, stats, periodic state | failures in the middle of a fan-out; sends that resolve after their connection closed; lost wake-ups | ledgers balance; totals are the sums of final ledgers; slots are freed |
| History ring (`observe/history.py`) | recent events by number and bytes | add, since | eviction under two bounds; the edge of a gap | newest events without a hole; honest resume |
| Connection (`observe/connection.py`) | queue, one-slot state and notice, in-flight exchange, overflow start, ledger | offer, set/take, next, mark, close | close during a send; overflow time; first code wins | ledger identities; bounds; no message stranded |
| Writer (`observe/writer.py`) | where the task waits | hello, state, history, live loop | a send that is refused, fails or is cancelled | at most one exchange in doubt |
| API server (`api/server.py`) | sockets, tasks, stopping flag | start, stop, `/events` handler, snapshots | stop against handshakes; grace of the writer; abort of a stalled socket | bounded shutdown; one recorded code |
| Page (`api/static/app.js`) | socket, fetches, poll and retry timers, recovery requirement, episode, live region | load, connect, hello, state, poll, fault, resync, retry, announce | late events of replaced sockets and fetches; overlapping timers; faults of two kinds at once | one thing drives it; Live is true; recovery ends; nothing false is announced |
| Scenario (`scenario/`, `clock.py`) | last time applied, events consumed | apply, from the tick and from requests | interleaving with clears; failure half way | each timed event once, in order |
| Trouble codes (`dtc/`) | three flags a code | update, clear | two protocols clear the same store | a clear is complete; nothing comes back by itself |
| Dispatcher, router, ECU (`ecu/`) | routes, protocols by service id | resolve, eligibility, handle | live routing table | one answer from one ECU; a protocol not enabled on a route never runs |
| ISO-TP transport (`transport/socketcan/`) | per endpoint: pending replies, writer armed | start, stop, readable, send, writable | refused sends, errors, stop | replies in order, none stuck |
| UDS, OBD (`protocols/`) | none of their own beyond the store | one function a service | suppression, negative responses, support masks | what is answered and when silence is right |
| Application (`app.py`, `cli.py`) | what has been started | run, tick, stop | partial start, errors during stop | everything started is stopped |
| Profile (`config/`), vehicle (`vehicle/`) | configuration, values | load, validate, read, write | rules split between schema, cross-checks and constructors | what is accepted starts, or is ambiguous |
| Reports (`observe/events.py`, `snapshots.py`, `availability.py`) | none | describe an exchange, the codes, the vehicle | the description is made later than the handling | it says what became of the request |
| Scripts (`scripts/`) | their own place in a list of steps | drive, wait for, compare | their waits race the simulator and the page | what they require holds at every interleaving |

How they interact: the transport calls the dispatcher for each request, synchronously; with `--api` the dispatcher is
wrapped by `ObservedDispatcher`, which numbers the exchange, puts a record in the hand-off and wakes the publisher
task.  The publisher turns records into events, keeps the last ones in the ring, and offers each to every open
connection.  Each connection is drained by a writer task of its own into a WebSocket.  The `/events` handler opens a
connection, starts its writer and closes the connection when the socket ends; a writer that dies is reported by a done
callback.  A second publisher task pushes the vehicle state when it changes.  `GET /status` reads the account of all
of this, which `decisions/0010` (sections 5.1 and 9.2) requires to hold *exactly, at every instant*.

## 2. Modules

| Module | Models | Notes |
|---|---|---|
| `Limits` | `observe/limits.py` | the limits and sizes, as constants with their assumptions |
| `Connection` | `observe/connection.py` | an object is a record, a method an operator on it |
| `History` | `observe/history.py` | the ring as a record |
| `Observer` | wrapper, hand-off, publisher, writer, the `/events` part of `api/server.py` | composes the two above; one action per stretch of code between awaits |
| `ExchangeStream` | what `WS /api/v1/events` promises (`decisions/0010` section 4.5) | abstract specification, implemented by `Observer` |
| `MCObserver` | | sizes and inputs of the small instances |
| `Scenario` | `scenario/runner.py`, `sync.py`, `events.py`, `dtc/store.py`, the tick of `app.py`, the synchronisation of `ecu/dispatcher.py` | stands alone: it shares no state with the observer, which only reads |
| `MCScenario` | | events, codes and lists of the small instances |
| `Transport` | `transport/socketcan/transport.py`, `isotp.py` | one action per readiness callback, per way `start` can go, and `stop` |
| `ReplyChannel` | what the transport promises of replies | abstract specification, implemented by `Transport` |
| `MCTransport` | | four endpoints, one of them functional, one that only transmits |
| `Lifecycle` | `app.run`, `scenario_tick`, `ApiServer.start`, `stop`, the `/events` handler, its closer | an action is the code between two awaits; small enough to be its own instance |
| `Vehicle`, `Profile` | `vehicle/state.py`, `config/schema.py`, `loader.py`, the builders of `app.py` | operators on a profile; the shape the types of the schema give it |
| `TroubleCodes`, `Uds`, `Obd` | `dtc/`, `protocols/` | pure functions from payload and state to reply |
| `Places` | a queue or a list that is filtered | picks entries of a sequence by their places, for the above and `Transport` |
| `Diagnostics` | `cli.main` and `app.run` up to the server, `ecu/router.py`, `dispatcher.py`, `ecu.py` | composes the five above; from a profile to answered requests |
| `Requests` | `api/options.py`, the guard and the body limit of `api/server.py` | operators |
| `Reports` | `observe/events.py`, `snapshots.py`, `availability.py` | what is said of each step of `Diagnostics` |
| `Generators` | `scenario/generators.py` | recursive functions of the time |
| `Acceptance` | `scripts/acceptance/phase7_scenario_acceptance.py` | drives `Diagnostics` with the shipped scenario, on the clock |
| `DemoTraffic`, `FaultServer` | `scripts/gui_demo_traffic.py`, `gui_fault_server.py` | another tester; scheduled faults |
| `MCDiagnostics` | | profiles, payloads and schedules; reference definitions of the pure functions |
| `PageClient` | the connection of `api/static/app.js` | the page is a record, its functions are operators, an action is a callback |
| `PageAnnouncer` | the live region of `app.js` | composes with `PageClient`: it speaks at each rendering |
| `PageCases`, `PageBench` | the browser checks of `scripts/gui_demo_capture.py` | cases as data; the script, its wrapper around `WebSocket` and the server, composed with the page |
| `ObserverProofs`, `ObserverStreamProofs`, `ObserverRefinementProofs`, `ScenarioProofs`, `TransportProofs`, `LifecycleProofs`, `DiagnosticsProofs`, `PageProofs` | | theorems and lemmas |

### How `Observer` corresponds to the code

* **State.**  Each variable's comment names the attribute it stands for.  `conns[i]` is the `Connection` object with
  id `i`; `connections` and `unresolved` are the two lists of the publisher that hold connections.  `writer[i].at`
  says at which `await` of `run_writer` the task is: `hello`, `preamble` (the state, then the history), `live`, or
  `wait` (`wait_changed`); `raised` is a task that died and whose done callback has not run, `ended` a task that is
  over.  `history[i]` is the rest of the writer's history list.
* **What is observed.**  `client[i].got` is what was written to the client's socket, in order; whether the network
  delivers it is outside the program.  `log` is every exchange published: a history variable no guard reads.
  `writer[i].took` is the time at which the writer last took an exchange, for one property; no guard reads it either,
  nor `hungUp`, the connections whose recorded code is that of the client's own close frame.
* **Close codes.**  The handler and `stop` give 1001, 1006 and 1008 by themselves (`HandlerCodes`).  When the client
  closes, `server.py:356` records `ws.close_code`, which aiohttp sets to the code of the client's frame: any code it
  accepts, 1011 and 1013 too (`ClientCodes`).  `Disconnect` has a disjunct for each.
* **Sends.**  An awaited `send` has four ends: it returns; it is refused before anything is written
  (`NotDelivered`, from `send_via`); it raises otherwise, or is cancelled by the handler's grace, and then the message
  may or may not have been written.  All four may happen whatever the state of the socket, in any order with the rest.
* **Turns.**  `drain_turn` stops after a bounded number of records or after a bounded time, then the task yields.
  The clock can end a turn after any one record, so a turn of several records is the same as several turns of one with
  no other task in between: `PublisherTurn` takes one record.
* **Failures.**  `Publish` chooses whether the encoding fails (the fallback event takes its place) and which offers
  raise.  `Connection.offer` promises to have changed nothing when it raises, because what can fail (encoding the
  text, reading the clock) comes before the first assignment.
* **Data.**  An exchange is its sequence number, with the size of its record and of its encoded event given by
  constants; a fallback event keeps the size of the event it replaces.  A state message is a version number.  A
  dropped notice is only there or not.  `0` stands for `None`.
* **Left out.**  Timestamps for display, the longest turn, the sixty-four closed ledgers kept for `/status`, logging,
  and the health record of the state encoding: no step reads them.

### How `Scenario` corresponds to the code

* **Steps.**  `ScenarioRunner.apply` awaits nothing, and neither does `Dispatcher.__call__`, so a tick and a request,
  with the clear it may ask for (OBD Mode 04, UDS 0x14), are one step each.  `Sync` is the call of `apply`, with one
  disjunct for each way it goes: refused because time went backwards, raised by `int(value)`, applied.
* **A call that raises.**  The signals before the refused one are written, no event is looked at, `_last_applied` does
  not move.  The tick logs it and sleeps again; the transport logs it and sends no reply, so a clear is not served.
* **Events.**  `AfterEvents` says what the loop of `_apply_events` leaves in the stores, without a loop: a flag is set
  if an event that is due raises it and no later one in the list resets it, or it was set and none resets it.
  `Loop` is the loop as it is written, and `AfterEventsIsTheLoop`, checked and proved, says that the two agree.
* **Data.**  Time is discrete.  A signal's value is named by the time it was computed for, because a generator is a
  pure function of time; which times are refused by `int()` is chosen with the profile (`bad`), and so is the list of
  events, which never changes afterwards: one run covers many profiles.
* **History variables.**  `clearedAt` (when a store was last cleared by a request) and `anomalies` (a bound).

The abstract specification of the scenario is the state function `Replay`: what the stores hold when every event that
arrived takes effect in the order of the times, the order of the list deciding only between two at the same time, and
clears wipe what came before them.  It mentions neither markers nor calls.

### How `Transport` corresponds to the code

* **Steps.**  The readiness callbacks await nothing: `OnReadable` is `_on_readable` with the reply's way through
  `_send`, `OnWritable` all the iterations of its loop.  How far that loop gets (`k` payloads tried, those in `failed`
  in vain) is the kernel's choice.  A request without a reply, a receive error and a handler that raises change
  nothing, and are no steps.
* **Start.**  `EnvironmentFails` is a check before any socket is opened, `OpenFails` a socket that cannot be bound after
  `k` others were, with the rollback of `start` and the clean-up of `IsoTpSocket.open`.
* **Data.**  A reply is its number, in the order in which the handler gave them.  `Via` sends the replies of a
  functional endpoint through the socket of another.

### How `Lifecycle` corresponds to the code

* **Steps.**  `stage` says at which await `run` is, `handler[c]` where the `/events` handler of client `c` is,
  `closer[c]` and `stopper[c]` where its `_close_when_closed` and the `_close_or_abort` task of `stop` are.  A ledger is
  its close code, a socket is open or closed, a frame is the code of the first `ws.close` to run.
* **Clients that close.**  `ClientCloses` is the close handshake: aiohttp keeps the code of the client's frame as
  `ws.close_code`, answers with 1000 unless a close has begun already, and the finally block records that code, or 1006
  when the frame has none.  `PeerGone` is a socket lost without a close frame.  A message that aiohttp refuses (longer
  than `MAX_BODY`, or not UTF-8) makes its receive begin a close of its own (`BadFrame`), with 1009, which stands for
  1002 and 1007 too; when that ends (`RefusalEnds`) `ws.close_code` is 1006.  This close is not one of `_close_or_abort`
  and waits for the client without a timeout.  aiohttp itself is not in the repository: what it does is external.
  `said`, a history variable, is the code of the client's frame.
* **Failures.**  A port that is in use, a transport that does not start, a client that leaves or stalls, a close that
  does not return, and an interrupt of the main task while it stops (`MayInterrupt`).  After an interrupt `run` does not
  reach `transport.stop()`: the CAN sockets are left to the end of the process, and the properties say `~interrupted`.
* **Left out.**  What the tick does (`Scenario`), what the publisher counts (`Observer`), file and status requests.

### How the diagnostics group corresponds to the code

* **Steps.**  `Diagnostics` begins with a profile and goes through `main` and `run` in their order: acceptance, the
  building of routes, the checks of dispatcher and transport, serving.  A request is one step, because the dispatcher
  awaits nothing; an event of the scenario and a route added late are steps of their own between requests.
* **Functions.**  `UdsReply`, the modes of `Obd`, the acceptance of a profile, the options and the guard of `Requests`,
  `Generators` and the bookkeeping of `FaultServer` are pure: they are compared with reference definitions over bounded
  inputs in one state of each kind of vehicle (`Once`), which is why these properties begin with it.
* **Values** are whole numbers of their unit; fractions, and the sine, are left out.  Bytes and addresses are numbers; a
  trouble code is a group, a type and a number.
* **Accepted, and worth knowing.**  Two endpoints of one ECU with one receive address and equal routes are accepted, and
  each request is then handled on both sockets.  An ECU with an empty key is accepted by the schema and refused by the
  constructors.  Some profiles that validation accepts make `main` raise (`RouteConflictError`, for an ambiguous
  address) although `app.py:370` says such an error ends with exit status 2: `StartsIffUnambiguous` says exactly which.
  The suppression bit is masked for every service with sub-functions, also in `10 81`, of which the comments
  (`protocols/uds/protocol.py`, DEV-07) speak differently: `SuppressionRule` states what is done.  `GET /ecus` finds an
  ECU's endpoints by a prefix of their names, so an ECU `a.b` also lists the endpoint `c.d` of an ECU `a.b.c`, and the
  endpoint `b.c.d` of an ECU `a`: `EndpointsAgree` says which others there can be.
* **Requests.**  The limit on bodies is `MaxBody`, small, for 1024.  A body without a declared length is the pieces in
  which it arrives, and whether its end comes before the deadline.  Upper and lower case of header names, 404 and 405,
  files and query strings are left out.
* **Reports.**  The publisher describes an exchange when it comes to it, with the router as it is *then*.  The retained
  bytes, times and the wording are left out.
* **Acceptance.**  Time jumps over instants at which nothing can be told apart.  The tick may come as late as it likes;
  the script is at most `MaxLate` (2 s) late, because with 3 s its own check of the coolant temperature should fail.
  What the shipped profile drives with a sine is not compared by the script.
* **DemoTraffic** asks what each request of the script's cycle would be answered, in every serving state of the shipped
  scenario.  Its pacing, and answers later than its timeout, are left out.  **FaultServer** follows one signal through
  schedules of up to two windows, with the scenario's ticks at all times of a short schedule.

### How the page group corresponds to the code

* **Steps.**  An action is one callback of the browser: a timer, the end of a fetch, an event of a socket, a click.  The
  functions that call each other within it are operators from page to page.  Fetches and sockets that were replaced
  remain, marked as not current, and may still end or speak at any time; that is what the generation number and the
  identity of the socket are compared for, so a flag stands for each.
* **The simulator** (`sim`) is `faulty` and answers anything, or `well`, for ever.  A restart closes the socket first.
* **History variables.**  `page.trust` is what a reader would need to know to believe the word Live; `told` is what a
  listener to the live region has been told since the last recovery.
* **Left out.**  Lengths of waits (the backoff), the log with its filters and gaps, graphs, views, texts, and the key
  by which the announcer avoids repeating itself: `AskedAgain` shows that asking again says nothing anyway.
* **Cases.**  `PageCases` has the seventeen checks of the script about connection, recovery and announcements, as lists
  of steps: what is done to simulator, socket and page, and what must then be seen.  `PageBench` runs one of them on a
  fresh page, or none, and then the page is free.  Its timing assumptions are those the script makes: samples every
  0.1 to 0.2 s and the server's notice of a closed socket are faster than the page's waits of 1 s and more, and hello
  and the first state arrive before a poll is answered.  In the free mode nothing of the kind is assumed.
  A frame that the script injects reaches the page's latest socket; a page that has let that socket go does not heed it.

## 3. Runs

| Run | Question | Bounds |
|---|---|---|
| `observer_accounts` | do the account of exchanges, the ledgers, the slots, the totals and the close codes agree at every instant? | 2 connections, 2 exchanges, hand-off of 1, queue of 1, one fault, clients that close with 1011 or 1013, forced close at the first overflow |
| `observer_stream` | what does one client see, connecting fresh or resuming after any number? | 1 connection, 4 exchanges of sizes 1 and 2, two-event buffers with byte limits of 3, one fault, one refused client |
| `observer_slow_client` | when is a client forced out? | 1 connection, 4 exchanges, hand-off and queue of 1, 2 ticks, overflow time of 2, two state versions, no fault, a client that may close with 1013 |
| `observer_live` | does everything that waits go on, and which state is a client left with? | 1 connection, 2 exchanges, 2 ticks with a snapshot each, two state versions, one fault, fairness below |
| `scenario_state` | do events take effect once and at their time, is the state a function of time, and does the tick alone bring every event? | 2 ECUs, 3 codes, lists of up to three events, 4 instants, tick of 1, one clock anomaly, a value refused at one instant, fairness below |
| `transport_replies` | do replies leave each socket in order, once, and in the end? | 4 endpoints, 5 replies, 3 starts, fairness below |
| `lifecycle_stop` | is what is started stopped, in order, with every client told, and which codes are sent and recorded? | 1 client that may close with any of six codes, those of the server among them, or none; an interrupt; fairness below |
| `diagnostics` | who answers what, and do the protocols, the reports and the scripts agree with it? | every combination of two or three endpoints on two addresses, about twenty odd profiles, two with codes and events, the shipped scenario; `MaxLate` 2, `MaxBody` 3 |
| `page_recovers` | does the page recover, and is what it shows and says true? | episodes of 3 attempts, 4 client slots; free, and in 17 cases; fairness below |
| `scenario_unsorted`, `lifecycle_codes`, `page_deaf` | the three findings below | |

Why the bounds are enough to be interesting:

* Two connections are the fewest with which one can be retired, abandoned or unresolved while another is served and
  the totals are a sum of more than one ledger.  A hand-off and a queue of one entry make a drop at the hand-off, a
  drop at the queue and a forced close happen with two exchanges.  A client's own 1011 and 1013 are the
  codes that the counters are about and, with a failed handshake (1006), fall on both sides of the allowance for
  deliveries in doubt; closes with other codes differ in nothing that is checked there.
* Four exchanges with buffers of two make the ring evict by number and by bytes, make gaps of resumed clients appear,
  and let drops at the hand-off leave holes in the numbers that are not gaps of the ring.
* Four exchanges with a hand-off and a queue of one, over two ticks, are the fewest with which a queue fills, refuses,
  accepts again and refuses again before the overflow time has passed since the first refusal.  (With three, forgetting
  to end an overflow goes unnoticed.)  Faults only end connections there, and are left to the other runs.
* Two ticks and two versions let a state be pushed, replaced in its slot and pushed again while a hello or an exchange
  is being sent; the theorem about the same property has no bound.
* In the other runs one fault of any kind (`MaxFaults`) suffices: a fault ends one connection or replaces one event,
  a connection ends once, and faults of different connections share only counters.
* Two events on one code are the fewest whose order matters, three the fewest with which the first and the last agree
  and the one in between does not; two times with an instant before, between and after let a call come early, late, and
  across both.  A clear between two calls, an anomaly after one, and a refused value at the instant between two events
  all fit in four instants.  The ECU without events of its own sees that a clear, or `clear_all`, reaches one store.
* Five replies let two sockets have a queue at once, one of them filled from two endpoints and emptied in part; three
  starts allow a failed one and a restart after a stop with replies pending.
* One client suffices in `Lifecycle` because clients share nothing there but the stages of `run` and the stopping flag;
  both invariants are proved for any number.
* Two endpoints on two addresses are the fewest that can be ambiguous, three the fewest that can be so within an ECU
  and across two; each mistake of a profile is alone in one of the odd profiles.
* Three attempts are a first one, one in between and a last one, after which an episode is exhausted.

Deadlock is checked, except in three runs.  The transport, the lifecycle and the simulator of `diagnostics` end (after
their starts, when `run` is over, when a profile is refused or the script has interrupted): `CHECK_DEADLOCK FALSE`
there.  In the others `Stats`, as a status request, `Request`, as a diagnostic one, or the page's rendering and its
polls are always possible.

What each property says is written above its definition.  Several are conjunctions, one name for one question:

* `BuffersHold` is `BuffersBounded` (counts and bytes of hand-off, ring, queue, page) and `RingIsTail`;
  `EverythingGoesOn` is `HandOffDrains`, `NothingStranded` and `ClosedWritersStop`.
* `EventsAccountedFor` is `AfterEventsIsTheLoop` (the definition without a loop is the loop) and `StatusAgrees`.
* `TransportInv` and `LifecycleInv` are types and three statements each, written there.
* `ShownAsServed` is `RepliesAreBytes`, `ViewsAgree`, `DtcsShown`, `ReportedAsHandled` and `RequestsGuarded`;
  `ParametersAgree` is the mask chain, replies to several PIDs, the encoders, availability and summaries; `ScriptsHold`
  is the acceptance script (`BenchInv` of `Acceptance`), `GeneratorsAgree`, `TrafficOnlyReads` and `FaultsAsScheduled`.
* `BenchInv` of `PageBench` is the types, `OneDriver`, `CasesPass`, and `InjectsHeard`, that the script injects only into a
  socket that has said hello, which two theorems assume; `ClaimsAreTrue` is `LiveIsTrusted`,
  `ListenerKnows` and `AskedAgain`; `AllEnds` is `EndsLive` and the end of every case.

`OneUnknownAtMost`, `FirstCodeWins` and `MarkersMatchTime` are proved and in no run.

Six need a word.

* `CloseCodesExplained` is what the counters say although clients may close with any code: `forced_disconnects` counts
  every close with 1013, also one that the client said itself, and the failures explain each 1011 that no client said.
  The plain equality for 1011 is false in the code; see the smaller disagreements below.
* `HandlersEnd` excepts a handler that waits in aiohttp's own close of a refused frame (`Refusing`): that close has no
  timeout, and ends when the client reads or goes, or when the application stops.
* `ForcedOutOnlyWhenStalled` is about clients that did not close with 1013 themselves.  It holds when events are of
  one size.  With unequal sizes the byte limit can refuse a large event although the queue has just shrunk, and since
  only an *accepted* exchange ends an overflow, a client that reads slowly can be forced out; the code's comments
  claim nothing else, so this is a limit of the property.
* `ImplementsStream` bounds what a client misses *between the first and the last exchange it received* by what its
  queue refused.  A client can also miss exchanges after the last one, when its connection closes: those it asks for
  when it resumes, and `ResumeIsHonest` is the property about that.
* `ResumeIsHonest` and `ImplementsStream` rest on `EXCHANGES_MAX_LIMIT` not being smaller than `HISTORY_MAX_EVENTS`
  (`AnswerHoldsRing` of `Limits`).  Both are 500 and nothing in the code compares them.  `since(after)` keeps the oldest
  of what comes after, so with a shorter answer a client would be given a history that stops before its live stream
  begins, with no gap reported: TLC finds both violated with a ring of two and answers of one.
* `AsOfHolds` is about values that can be converted.  A call that raises leaves the signals before the refused one at
  the new time and `last_applied` at the old, so a snapshot then names a time its values are not of
  (`observe/snapshots.py:1-2` says otherwise).  It needs a profile with a NaN or an infinity for a signal that is an
  integer, which validation accepts; `docs/known-deviations.md` (DEV-26) records the exception and the lost reply, not
  this effect, nor that a generator whose value is always refused stops all timed events.

Properties have mutants: operators such as `OfferDiscardsOldest` or `FoldAtOnce`, defined before the definition they
replace, each a plausible mistake in that code.  They are not part of the model; `PROJECT.json` pairs each with the
property that finds it.

### Findings

* `scenario_unsorted`: validation accepts a list of events in any order, and `_apply_events` takes what is due in list
  order.  A late call therefore leaves another state than timely calls (a raise at 2 listed before a clear at 0: one
  call at 2 clears last).  `tests/unit/test_scenario_schema.py:229-230` and `app.py:173-174` say that the order is only
  the tie-break between events sharing a time, and the repository's README (line 170) that the same elapsed time always
  gives the same answer.  For lists in the order of their times both are true: `StateIsReplay`, proved.
* `lifecycle_codes`: the publisher gives up a client (1011 or 1013) and, before the task that closes it has run, the
  handler takes a message of that client and closes with 1008.  The ledger then records a code that was not sent;
  `api/server.py:349` (and `:272`) says it records the code sent.  `FrameNearlyRecorded` says in which ways the two can
  differ, a client's own close included, and is proved.
* `page_deaf`: with an encoding fault pending, an unreadable *first* message leaves the socket open, to wait for a poll
  that reads ok (`api/static/app.js:402`); but polls are started by hello only.  No poll runs, no timer is armed and
  "Retry now" does nothing, until the socket ends.

Smaller disagreements, met while modelling and modelled as the code has them:

* a client that closes, as a browser does with 1001 when its tab is closed, has its own code recorded while aiohttp
  answers with 1000: a code that this server did not send, although `api/server.py:354-355` says that the ledger never
  gets one.  The fourth case of `FrameNearlyRecorded` is this one;
* such a client may close with 1011 or 1013.  `closed_totals.close_codes["1011"]` is then more than `fanout_failed`
  and `writer_failed`, which `docs/decisions/0010-gui-observer-api.md:925` (P5(e)) and
  `scripts/gui_m2_early_check.py:529-530` require to be equal (`CloseCodesExplained` says what holds); and a 1013 of
  the client's is counted as a forced disconnect (`observe/publisher.py:208`), for which the equality holds but the
  name does not;
* to a message that aiohttp refuses, 1009 (or 1002, 1007) is sent and 1006 recorded, the fifth case of
  `FrameNearlyRecorded`;
* a second unreadable message during an encoding fault starts an episode at once, although `app.js:402` says that the
  resync waits for a poll;
* a healthy poll answered between hello and the state moves the socket number that the encoding requirement names
  (`app.js:234`), so a good state on a socket opened after an ok reading does not clear it and an attempt may be used up
  (`gui-m3b-graphs-design.md:716` and `:729`);
* a restart of the simulator between `/status` and the opening of the socket is not noticed; and an open socket that
  never says hello has no timeout (the fairness below assumes that it speaks or ends);
* on a first load where every hello is unreadable the page stays `loading`, the episode is exhausted, and nothing is
  announced, although `app.js:1253-1256` says that exhaustion is (`ListenerKnows` exempts it);
* the fault server undoes windows of one path given in descending order at once (`gui_fault_server.py:138-152`),
  although its text says that an option may be given more than once.

### Fairness

`LiveSpec` of `Observer` assumes weak fairness of the publisher's turn, of a writer that is ready to start or to wake,
of a done callback that is due, and of the handler's disconnect once its writer has ended: the event loop runs every
ready callback, in order of readiness.  It also assumes that a send under way ends, in one of its four ways.  The code
justifies this for a connection that is closing: the close is bounded by a timeout after which the socket is aborted,
and the handler's grace cancels the writer.  For an open connection whose client has stopped reading, the send ends
when the client reads, when the overflow time forces it out, or when the socket goes; a client that stops reading with
nothing published after it is the one case in which a send can wait for ever, and it harms nobody but itself.  Nothing
is assumed of the dispatcher, of clients, of the clock or of the periodic task.

The disconnect of the handler is assumed only for a writer that has ended: `SendRefused` is a send on a socket that is
closed or closing, and a writer that raised is either a server fault, closed by its callback, or on a socket that is
going away; in both the handler's read loop ends.

`FairSpec` of `Scenario` assumes that time passes and that the tick task runs once its sleep is over, however late.  No
request is assumed.

`FairSpec` of `Transport` assumes that the kernel is not busy for ever: a pending payload is taken or fails (ISO-TP
has its own timeouts), after which the loop calls the writer.  `FairSpec` of `Lifecycle` assumes that the loop runs
what is ready and its timers, those of a close and of a writer's grace among them; whether a close returns, aiohttp's
own of a refused frame included, what clients do and whether anybody asks the application to stop is left open.

`Fairness` of `PageClient` assumes that the browser's timers fire, that a fetch and a handshake end (both have
a timeout), and that a socket that was opened says hello and sends its state, or ends.  Nobody is assumed to click.
`BenchSpec` adds that the script takes its steps, that the server takes its next snapshot and that it notices a closed
socket.

## 4. What is proved

`tlapm` checks all proofs, for every value of the constants allowed by the assumptions of the modules
(`LimitsAssumption` and `ObserverAssumption`: limits are natural numbers, the ring and the history page hold at least
one event; the handler and `stop` by themselves give other codes than 1011 and 1013, since `server.py:273`, `:338`,
`:349` and `:356` name 1001, 1006 and 1008 only; a client's code is any number but 0, which counts as none;
`AnswerHoldsRing`: an answer can hold all of the ring, which only `ObserverImplementsStream` and `ResumesAreHonest`
use; `ScenarioAssumption`; `TransportAssumption`: endpoints are distinct, at least one, and each replies through one
of them; `DiagnosticsAssumption`: profiles have the shape that the types of the schema give them, valid or not,
payloads are sequences of bytes, and the routes that may be added later have the shape of routes; `BodyAssumption`:
the limit on bodies is a natural number; `AttemptsAssumption`: an episode has at least one attempt;
`LifecycleAssumption`: a client's code is any number but 0).  The theorems of `DiagnosticsProofs` are about `Spec` of
`Diagnostics`; the run adds the scripts to it (`BenchSpec` of `MCDiagnostics`), whose steps are steps of
`Diagnostics` or leave it alone.  Those of `PageProofs` are about `AnnSpec` of `PageAnnouncer`, the page with its
announcer and a simulator that answers anything, and two about `BenchSpec` of `PageBench`, which the run checks.

| Theorem | Says |
|---|---|
| `ObserverInvariant` | `Spec => []ObserverInv`, the inductive invariant |
| `TypeCorrect` | `Spec => []TypeOK` |
| `ExchangesAreAccounted` | `Spec => []ExchangesAccounted` |
| `LedgersAlwaysBalance` | `Spec => []LedgersBalance` |
| `SlotsAreForOpenConnections` | `Spec => []RegisteredIffOpen` |
| `AtMostOneUnknown` | `Spec => []OneUnknownAtMost` |
| `TheFirstCodeWins` | `Spec => FirstCodeWins`, an action property |
| `CodesAreExplained` | `Spec => []CloseCodesExplained` |
| `TotalsAreTheFinalLedgers` | `Spec => []TotalsAreFinalLedgers` |
| `BuffersStayBounded` | `Spec => []BuffersBounded`, one of the statements of `BuffersHold` |
| `OnlyTheStalledAreForcedOut` | `EventsOfOneSize => (Spec => []ForcedOutOnlyWhenStalled)` |
| `NothingIsLostInSilence` (`ObserverStreamProofs`) | `Spec => []NoSilentLoss` |
| `NoOneHasAnOldState` (`ObserverStreamProofs`) | `Spec => []StateIsCurrent` |
| `WhatArrivedIsCounted` (`ObserverStreamProofs`) | `Spec => []ReceivedMatchesLedger` |
| `RingKeepsTheNewest` (`ObserverRefinementProofs`) | `Spec => []RingIsTail`, the other statement of `BuffersHold` |
| `BuffersHoldWhatTheyShould` (`ObserverRefinementProofs`) | `Spec => []BuffersHold` |
| `ObserverImplementsStream` (`ObserverRefinementProofs`) | `Spec => ImplementsStream`, the refinement |
| `ResumesAreHonest` (`ObserverRefinementProofs`) | `Spec => []ResumeIsHonest` |
| `MarkersAreRight` (`ScenarioProofs`) | `Spec => []MarkersMatchTime` |
| `NothingIsReplayed` (`ScenarioProofs`) | `Spec => NoReplay`, an action property |
| `StateIsTheReplay` (`ScenarioProofs`) | `Spec => []StateIsReplay` |
| `AsOfIsRight` (`ScenarioProofs`) | `Spec => []AsOfHolds` |
| `EventsAreAccountedFor` (`ScenarioProofs`) | `Spec => []EventsAccountedFor`: the loop, and what the status counts |
| `WritersFollowQueues`, `NothingIsLeftBehind` (`TransportProofs`) | two of the statements of `TransportInv` |
| `TransportIsRight` (`TransportProofs`) | `Spec => []TransportInv` |
| `TransportImplementsChannel` (`TransportProofs`) | `Spec => ImplementsChannel`, the refinement |
| `WhatIsStartedIsStopped` (`LifecycleProofs`) | `Spec => []LifecycleInv` |
| `FramesAreNearlyRecorded` (`LifecycleProofs`) | `Spec => []FrameNearlyRecorded` |
| `TheStartRefusesAmbiguity` (`DiagnosticsProofs`) | `Spec => []StartsIffUnambiguous` |
| `WhatIsServedFitsTogether` (`DiagnosticsProofs`) | `Spec => []DiagnosticsInv` |
| `TheRightEcuAnswers` (`DiagnosticsProofs`) | `Spec => []AnsweredByItsEndpoint` |
| `ClearsAreAcknowledged` (`DiagnosticsProofs`) | `Spec => ClearedIffAcknowledged`, an action property |
| `SuppressionHolds` (`DiagnosticsProofs`) | `Spec => []SuppressionRule` |
| `ReportsAreTrue` (`DiagnosticsProofs`) | `Spec => []ReportedAsHandled`, one of the statements of `ShownAsServed` |
| `WhatIsShownIsServed` (`DiagnosticsProofs`) | `Spec => []ShownAsServed` |
| `WhatThePageClaimsIsTrue` (`PageProofs`) | `AnnSpec => []ClaimsAreTrue` |
| `ThePageGoesOnByOneThing` (`PageProofs`) | `AnnSpec => [](PageInv /\ AnnTypeOK)`, two of the statements of `BenchInv` |
| `LiveEndsWithAFault` (`PageProofs`) | `AnnSpec => LiveUntilFault`, an action property |
| `TheBudgetIsKept` (`PageProofs`) | `AnnSpec => BudgetKept`, an action property |
| `ClaimsHoldOnTheBench` (`PageProofs`) | `BenchSpec /\ []InjectsHeard => []ClaimsAreTrue` |
| `LiveEndsWithAFaultOnTheBench` (`PageProofs`) | `BenchSpec /\ []InjectsHeard => LiveUntilFault` |

**The observer's accounts.**  The three ledger identities are equations between counters of one connection and the
publisher's count; they are not inductive by themselves.  `NextMessage` puts an exchange in the in-flight slot and
would lose one that was still there, so the invariant needs `InFlightOnlyWhileSending`: a connection has an exchange in
flight only while its writer is in a live send, and a writer takes the next message only when it is not.  A new
connection takes the next id, so ids not yet given must have their initial state (`OnlyOpenedStart`); and the
publication that closes a connection closes it at the count it has just reached, for which an open connection must be
a registered one (`RegisteredIffOpen`): otherwise one that is open and not registered would fall behind.
`PreambleHasHistory` says that a writer sending history has some left, for the types.  `ObserverInv` is the conjunction
of these and of the properties; TLC checked it on the instances above before it was proved.

`ObserverProofs` begins with the types of what the ring returns and one lemma per method of `Connection`, about any
record of the type: which of the counters it moves, and that the identities hold after it (`OfferBalances`, `CloseBalances`,
`MarkBalances`, `NextMessageBalances` ...).  It then has one lemma per action, a lemma for the initial
state and one for the stuttering step.

**Closes.**  `TheFirstCodeWins` needs one more invariant, that only opened connections are ever closed: then the id
that a new client takes was not closed, a publication reaches only registered connections, which are open, and whatever
a writer does leaves the publisher's part of the account alone.  `CodesAreExplained` rests on it: since a code is never
changed, the connections closed with a code are those of before and those that the step closes, and each action counts
exactly the latter; a publication may close several.  For 1011 this is about the connections that no client closed
(`OwnFaults`): a step that lets a client hang up closes that one connection and counts it only if the code is 1013
(`HangUpStep`), every other step leaves `hungUp` alone (`NobodyHangsUp`), and who hung up stays closed with that code
(`HungUpStayClosed`), so that what other steps close is never among them.

**Sums.**  `SumOfLedgers` and `Bytes` are folds, of which the definition says only that some function satisfies the
recursion.  `ObserverProofs` therefore shows first that there is one and only one (`FoldExists`, `FoldsAgree`, by
induction over a set of numbers, `NatSetInduction`, since a lemma cannot take the induction predicate as a parameter),
then that a sum takes and leaves an element (`SumTakesAny`, `SumOfUnion`) and that the bytes of a sequence are those of
its parts.  `TotalsAreTheFinalLedgers` needs that what is in the totals never moves: `Final`, closed with nothing under
way and nothing queued, is kept by every method together with the ledger (`Passes`, `EveryStepPasses`), and a fold adds
exactly the final ones that leave.  `BuffersStayBounded` uses the same step lemmas; for the ring it shows that the numbers
of events that fit are a first stretch (`FirstStretch`), so that the eviction stops where both limits are met.

**Who is forced out.**  Of a client that did not hang up with 1013 itself: while a queue refuses, its writer has
taken nothing since the overflow began, or it has and the queue has room again (`Patient`): with events of one size,
what is taken makes room for whatever comes, and the next offer is accepted and ends the overflow.  With events of
different sizes it need not be, and the statement is false.

**The stream.**  `StreamInv` adds to `ObserverInv` that the source is in order (`SourceOK`: the hand-off is newer than
all that was published), that a writer sends one thing at a time and history first (`WriterOK`), and `NoSilentLoss`
itself.  What a client has got and what is on its way to it are one sequence: a writer moves an exchange along it, a
publication adds one at its end or counts one as refused, a close cuts its end.  History and live stream join because
`connect` reads the ring and the count of publications in one step.  `NoOneHasAnOldState` follows the last state pushed:
it is in the slot, else being sent, else it was the last to arrive; a writer that waits carries nothing and takes a
state before anything else.

**The refinement.**  The abstract stream bounds the gaps in what a client *has*, also after its connection has closed and
`NoSilentLoss` says nothing any more, so the argument is about places in the log.  `RefinementInv` adds that the ring is
the end of the log (`RingOK`) and, for every client, that the *k*-th exchange of what it can be sent (`Sendable`: what it
has and, while its writer lives, what is on its way) is between *k* and *k* plus the refusals counted so far places after
the start of its history (`SendableOK`).  Every step but a publication and a connect takes the streams forward
(`Forwards`, proved with the step lemmas of `ObserverStreamProofs`): one client gets the next of what it can be sent,
which otherwise only loses its end.  A publication that is taken lands on the last place possible, because for a client
that is served, start, stream and refusals add up to the log (`FlowReachesEnd`, from `NoSilentLoss`); one that is refused
moves what comes later.  A new client's history is the end of the log because an answer holds all of the ring
(`SinceIsTail`).  Then a forward step is `Deliver` or stutters, a publication is `Publish`, a connect stutters.

**What arrives, and resuming.**  `ReceivedMatchesLedger` counts what a client got of the live stream, which is what is
newer than the watermark of its connection: history never is, what is queued or in flight always is (`Beyond`).  So
(`ReceivedOK`) the live part of what it got is at least what was marked sent, and exceeds it at most by the unknown one.
`ResumesAreHonest` follows one client's opening history back to the ring it was read from, which is the end of the log
(`RingOK`), the log being in ascending order: `Since` takes what is newer, and a gap is told exactly when something
newer than the client's last exchange had been evicted.

**The scenario.**  `ScenarioProofs` (with its own `TypeCorrect`) is for any ECUs, codes, lists of events, generators,
period and bounds.  The invariant behind `StateIsTheReplay` is `ReplayInv`: the state is the replay, the markers agree
with the time applied (so that what is due is exactly what the time passed over, `DueIsPassedOver`), and no clear is
later than the time applied (so that an event that is due is later than every clear).  The one step that needs work is a
call that applies: in an ascending list, an event that is due is listed before another one of its ECU exactly when it is
earlier, and follows all that arrived before (`ListOrderIsTimeOrder`); with it `EventsExtendReplay` shows, flag by flag,
that the loop over what is due takes the replay from one time to the next.  `EventsAreAccountedFor` needs no invariant
for the loop: the function that gives, for each number of events, what the formula says of those satisfies the recursion
of the loop, and no other does.

**The transport.**  `QueueTypes`, `WriterFollowsQueue` and `NothingLeftBehind` are inductive together, for any
endpoints and any routing of replies: a stop removes the writers it believes armed, so it needs the flag to be right; a
failed start leaves nothing pending because nothing was pending while nothing ran.  The account of replies
(`AccountInv`) needs that a reply is new when it is handed over: the replies handed over are the first numbers, each
went to one socket, only those can be lost, and what waits at a socket is the end of what it was handed (`QueueIsTail`).
Then what a socket sent and what waits at it have no reply twice, none in common and none that is lost, and with the
lost ones are all that it was handed (`Placed`); what `on_writable` sends and skips is picked out of the queue by
places, in their order.  The refinement counts as settled what was handed over and does not wait any more: a request
that is answered, a queue that is drained, as far as it goes, and a stop are `Serve` steps of the channel; the rest
stutters.

**The lifecycle.**  `LifecycleIInv` is the types, `StageOK` (what exists at each stage of `run`) and, for each
client, `ClientOK`: what its handler's place says about code, frame, writer and closer (`HandlerOK`), that the
sockets `stop` found are handled (`KnownOK`), what a closed socket means (`GoneOK`) and how the frame and the code go
together (`FrameOK`, with a case for each frame that aiohttp sends: 1000 goes with the client's code or an earlier
one, 1009 with what was recorded before or will be 1006 in the end).  The step of a client leaves the others as they
are (`OthersKept`), a step of `run` that touches no client keeps all (`ClientsKept`), and those that touch all of
them at once, `ServerStops` and an interrupt, are done per client.

**From a profile to an answer.**  `StartOK` says what each phase of the start has built: the endpoints of the profile
in its order, and the routes of those ECUs that were done, no two of which conflict.  Two routes that do not conflict are
equal or on one address by different kinds, so after the router only an address with several routes is left to refuse,
and that is what the dispatcher and `check_routes` look for: together they refuse exactly what is `Ambiguous`, whatever
the order (`TheStartRefusesAmbiguity`).  While it serves, an address has the route of its endpoint and perhaps later ones;
one route means that of the endpoint, which is why the right ECU answers (`HandledOK`) and why the publisher, which
looks at the routes later, still names it.

What the answers look like is proved for every payload: a protocol that owns a request answers with silence, with a
negative response that is not serviceNotSupported, or with a sequence that begins with the identifier it derives from the
request's (`Answered`, `Proper`); so 44 and 54 are answers to a clear only, and silence and refusals say whose they are.
The lengths in the middle are `FlattenSeq` of unknown length, of which it is proved that there is such a sequence, of
what it consists and how it begins (`FlattenedSeq`, `FlatIsSequence`).  `EveryPayloadIsSuppressedRightly` goes through the
services one by one, with the bit and without.

**One store, three views.**  `WhatIsShownIsServed` is about Mode 03 and 07, service 19 and `GET /dtcs`.  What an ECU stores
is what its profile configured but for the flags (`ConfiguredOK`), so it is at most 255 codes, each of
which can be encoded (`StoreOK`).  A reply is records of one length, joined, of the codes that are picked: a record is
where the number of picked codes before it puts it (`FlatOfOneLength`, `JoinedPicks`), so a reader that knows the length
gets back exactly the codes (`RecordsRead`, `CodesRead`).  The status byte is a sum of different powers of two, of which
each flag is a bit (`StatusBits`, `MaskBits`), so a code is picked by a mask exactly if it has a flag of the mask
(`SharingIs`).  From these `UdsReads` and `ObdLists` say what each protocol tells of a store, and they agree
(`StoresAgree`, `StoresShown`).  That replies are bytes (`RepliesStayBytes`) goes through the services: an encoder clamps
to the range of its length, a mask is eight bits, and the count of codes fits into a byte because of the limit on codes.
For the guard, `TheProbe` is by induction over the pieces of a body: however it is cut, what is read is all of it, or
one byte more than the limit; `TheGuard` goes through the answers.

Stating these for every profile corrected the model in three places: `EndpointsAgree` allowed an ECU to list only
endpoints of ECUs whose key continues its own, while the names of another ECU's endpoints may continue it too;
`First`, the first route of an address, was not determined for an address that only has routes added later; and `EcuOK`
lacked the limit of 255 codes (`CodesFit`), without which Mode 03 would have to say 256 in one byte: an odd profile has
256 codes, and the run finds `ShownAsServed` violated if it is accepted.

**The page.**  The functions of the page call each other within a callback, and so does the proof: a lemma for each
operator says which page it makes of which page, from `fetchJson` up to `onHello` and `fail`, and each callback puts a few
of them together.  What holds in the middle of a callback is little (`Sound`: types, an episode that has not begun is
empty, an exhausted one has no timer).  What holds between two callbacks is `PageOK`, which `ThePageIsSound` proves:

* `Driver`: the page is driven by its retry timer, its attempt or its poll loop, by one of them, and by none only when
  the episode is exhausted.  It is what the generation number is for: a fetch that counts would otherwise meet another.
* `EpisodeOK`: an attempt is in flight exactly while the page connects or has a socket, and one that is not yet in
  flight is within the budget.  The last clause, that an exhausted page is stale or has a fault, is what makes the word
  Live impossible there.
* `SocketOK`: after its hello a socket that had no unreadable frame is polled.  This joins the two halves of the
  connection, events by the socket and state by polls.
* `TrustOK`: on an open socket trust is gone only where there is a fault that this socket cannot end, because it does
  not meet what the page requires (`req`).  `LiveIsTrusted` alone is not inductive: that a state restores Live only where the page may trust it needs this.

`ClaimsAreTrue` is also about what a listener was told: `AnnOK` says that what the announcer remembers (the signature it
spoke last, whether it spoke of a disconnect, a fault, exhaustion) has been said since the last recovery.  A callback
that changes the condition of the page and renders nothing (`Unrendered`) leaves the page connecting, where the
announcer has nothing to say.  Each callback's lemma also carries what it may not do (`Turned`): take Live from a page
that trusts its state, or give attempts back; the two action properties follow.

On the bench an injected frame is the one step that is none of the page's callbacks.  Injected before the hello it would
find the page waiting for something else, and the script never does that: `InjectsHeard`, which depends on the script
having waited for what it waits for, on its data and on the timing assumptions, and is left to the run.  `BudgetKept` is
not claimed there: a page load is a new document with a new budget.

Model-checked only:

* the liveness properties: leads-to under fairness is beyond the prover;
* `ParametersAgree`, which compares finite tables, masks and encoders with their definitions by evaluation, over
  operators the provers do not instantiate;
* `ScriptsHold`: one shipped scenario, one script, finite tables;
* of `BenchInv`, `CasesPass`, `InjectsHeard` and the bench's types: seventeen cases, each a finite list of steps.

## 5. Not modelled

* `api/server.py`: the files of the page, headers, query strings, 404 and 405.  They keep no state.
* `api/static/app.js`: the log with its filters and its gaps, graphs, views, texts.  The connection is what others depend
  on; the rest shows what it was given.
* `config/`: the ranges of single numbers, the table of DIDs (no service uses it), YAML itself and the messages of
  errors.  What one section requires of another is modelled.
* `scripts/`: of `gui_demo_capture.py` the checks of layout, graphs, log and screenshots; the measuring and trace
  scripts, and the kernel experiments, which are about Linux.
* Encodings (event and snapshot JSON), fractions of values, timestamps, formatting and logging: no step reads them.

What would come next: the log window of the page composed with `ExchangeStream`.

## 6. Running

    tlc -workers 2 -config observer_accounts.cfg MCObserver    # likewise observer_stream, _slow_client, _live
    tlc -workers 2 -config scenario_state.cfg MCScenario       # and scenario_unsorted
    tlc -workers 2 -config transport_replies.cfg MCTransport
    tlc -workers 2 -config lifecycle_stop.cfg Lifecycle        # and lifecycle_codes
    tlc -workers 2 -config diagnostics.cfg MCDiagnostics
    tlc -workers 2 -config page_recovers.cfg PageBench         # page_deaf.cfg with PageClient
    tlapm ObserverProofs.tla                                   # likewise the other Proofs modules
