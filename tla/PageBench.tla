------------------------------- MODULE PageBench -------------------------------
(***************************************************************************)
(* The page on the bench of scripts/gui_demo_capture.py: the script at a      *)
(* step of one of its cases, the wrapper it puts around WebSocket, the         *)
(* recorders, and the simulator, or scripts/gui_fault_server.py, as far as the  *)
(* page can tell.  With no case the page and its announcer run free, against     *)
(* any answers.                                                                    *)
(*   The script's samples, 0.1 s apart, and the server's notice of a closed         *)
(* socket are faster than the page's waits, of 1 s and more; hello and the first     *)
(* state arrive together, before a poll is answered.                                  *)
(***************************************************************************)
EXTENDS PageAnnouncer, PageCases

CONSTANT
    MAX_CLIENTS     \* the simulator's client slots

VARIABLES
    script,     \* the case, its next step, and the steps whose conditions failed
    wrapper,    \* window.__m3b
    seen,       \* what wrapper and recorders have logged since the mark
    server      \* the process, its state snapshots, and its clients

bench == <<script, wrapper, seen, server>>

NoCase == 0
NothingSeen == [socks |-> 0, refused |-> 0, states |-> 0, incompletes |-> 0, attempts |-> <<>>, said |-> <<>>,
                lives |-> 0, retries |-> 0, runs |-> 0]

Steps == Cases[script.case]
Step1 == Steps[script.at]
Ended == script.case = NoCase \/ script.at > Len(Steps)

BenchTypeOK ==
    /\ script.case \in 0..Len(Cases)
    /\ script.case # NoCase => script.at \in 1..Len(Steps) + 1 /\ script.failed \subseteq DOMAIN Steps
    /\ wrapper \in [badFirst : BOOLEAN, incompleteFirst : 0..1]
    /\ server.process \in {"running", "stopped", "gone"}
    /\ server.faults \subseteq {"state", "dtcs"}
    /\ {server.ok, server.pushes} \subseteq BOOLEAN
    /\ server.held \in 0..MAX_CLIENTS /\ server.leaving \in 0..MAX_CLIENTS

BenchInit ==
    /\ AnnInit
    /\ \E case \in 0..Len(Cases) :
        /\ script = [case |-> case, at |-> 1, failed |-> {}]
        /\ case # NoCase => sim = "well"
    /\ wrapper = [badFirst |-> FALSE, incompleteFirst |-> 0]
    /\ seen = NothingSeen
    /\ server = [process |-> "running", faults |-> {}, ok |-> TRUE, pushes |-> FALSE, held |-> 0, leaving |-> 0]
-----------------------------------------------------------------------------
(* PAGE_STATE, with the wrapper's counts and GET /vehicle. *)
Shown ==
    [conn |-> page.conn,
     health |-> IF page.conn # "live" THEN "stale" ELSE IF Pending(page) THEN "last-known" ELSE "live",
     reason |-> {k \in {"malformed", "encoding"} : page.req[k]},
     episode |-> page.ep.state, attempt |-> page.ep.attempts,
     button |-> IF (Stale(page) \/ page.ep.state = "exhausted") /\ ~Active(page) /\ ~page.connecting
                THEN "Retry now" ELSE "none",
     trust |-> page.trust, encodes |-> server.ok,
     vehicle |-> IF "vehicle" \in server.faults THEN 500 ELSE 200]

IsSeen(sight) ==
    \A k \in DOMAIN sight : (IF k \in DOMAIN NothingSeen THEN seen[k] ELSE Shown[k]) \in sight[k]

(* What the page becomes, in one callback, with what the recorders make of it: the *)
(* sockets opened and refused, each value of data-attempts, each announcement, each *)
(* change to Live, the retries that failed while down, the runs.                     *)
Recorded(p) ==
    LET new == ~page.ws.open /\ p.ws.open
        refused == page.ws.open /\ ~page.ws.opened /\ ~p.ws.open
        words == IF Unrendered THEN {} ELSE Words(ann, p)
    IN  [seen EXCEPT
            !.socks = IF new THEN @ + 1 ELSE @,
            !.refused = IF refused /\ server.process = "running" THEN @ + 1 ELSE @,
            !.attempts = IF p.ep.attempts # page.ep.attempts THEN Append(@, p.ep.attempts) ELSE @,
            !.said = IF words # {} THEN Append(@, words) ELSE @,
            !.lives = IF Live(p) /\ ~Live(page) THEN @ + 1 ELSE @,
            !.retries = IF Stale(page) /\ page.connecting /\ p.timer /\ @ < 2 THEN @ + 1 ELSE @,
            !.runs = IF restarted /\ ~restarted' THEN @ + 1 ELSE @]

Used == server.held + server.leaving + (IF page.ws.opened THEN 1 ELSE 0)

(* The page closed a socket that the server still has. *)
Noticeable == [server EXCEPT !.leaving = IF page.ws.opened /\ ~page'.ws.opened /\ server.process # "gone" THEN @ + 1 ELSE @]

Follow ==
    /\ seen' = Recorded(page')
    /\ server' = Noticeable
    /\ IF Unrendered THEN UNCHANGED <<ann, told>> ELSE Announce(page')
-----------------------------------------------------------------------------
(* A step that is taken as soon as it is come to, and one that would be now. *)
AtOnce == ~Ended /\ Step1.do \notin {"see", "wait"}
Due == AtOnce \/ (~Ended /\ Step1.do = "see" /\ IsSeen(Step1.sight))

Running == server.process = "running"

(* The next frame on the page's socket, as the wrapper lets it through. *)
Frame ==
    IF page.ws.due = "hello" THEN IF wrapper.badFirst THEN "unreadable" ELSE "hello"
    ELSE IF page.ws.due = "state" /\ wrapper.incompleteFirst > 0 THEN "incomplete" ELSE "state"

FrameComes ==
    /\ Running /\ (page.ws.due = "any" => server.pushes)
    /\ Arrives("current", Frame)
    /\ wrapper' = [wrapper EXCEPT !.incompleteFirst = IF Frame = "incomplete" THEN 0 ELSE @]
    /\ seen' = [Recorded(page') EXCEPT !.states = IF page.ws.due = "state" THEN @ + 1 ELSE @,
                                       !.incompletes = IF Frame = "incomplete" THEN @ + 1 ELSE @]
    /\ server' = Noticeable
    /\ Announce(page')

(* Another callback of the page, with what the simulator answers. *)
Answered(f) ==
    \/ /\ Running /\ (f.what = "poll" /\ f.current => page.ws.due = "any")
       /\ StatusReads(f, server.ok) \/ InitialAnswers(f) \/ Diagnosed(f)
    \/ ~Running /\ Fails(f, FALSE)

PageTurn ==
    /\ \/ RetryFires /\ ~Due /\ (Running => server.leaving = 0)
       \/ PollFires
       \/ \E f \in Fetches : Answered(f)
       \/ Opens /\ Running /\ Used < MAX_CLIENTS
       \/ Running /\ Used >= MAX_CLIENTS /\ ~page.ws.opened /\ Ends("current")
       \/ server.process = "gone" /\ Ends("current")
       \/ Ends("old")
    /\ Follow
    /\ UNCHANGED wrapper

(* Publisher.run_state: the next snapshot; a good one is pushed after a failed one. *)
Snapshot ==
    /\ Running /\ server.ok # (server.faults = {})
    /\ server' = [server EXCEPT !.ok = ~@, !.pushes = ~server.ok]
    /\ UNCHANGED <<avars, script, wrapper, seen>>

Notices ==
    /\ Running /\ server.leaving > 0
    /\ server' = [server EXCEPT !.leaving = @ - 1]
    /\ UNCHANGED <<avars, script, wrapper, seen>>
-----------------------------------------------------------------------------
Goes == script' = [script EXCEPT !.at = @ + 1]

(* Cases.record. *)
Judge(holds) == script' = [script EXCEPT !.at = @ + 1, !.failed = IF holds THEN @ ELSE @ \cup {script.at}]

(* T.bad and T.send, on the page's latest socket. *)
Injects(what) ==
    /\ page' = IF page.ws.open THEN Received(page, what) ELSE page
    /\ Follow
    /\ UNCHANGED <<sim, restarted, wrapper>>

Sights(sight) ==
    /\ IsSeen(sight)
    /\ Goes
    /\ UNCHANGED <<avars, wrapper, seen, server>>

Signals(signal) ==
    /\ server' = [server EXCEPT !.process = CASE signal = "STOP" -> "stopped" [] signal = "TERM" -> "gone" [] OTHER -> "running",
                                !.leaving = IF signal = "TERM" THEN 0 ELSE @]
    /\ restarted' = (restarted \/ signal = "start")
    /\ UNCHANGED <<page, sim, ann, told, wrapper, seen>>

(* ScriptClients.open and close_last, each after /status has said that a slot is free. *)
Clients(n) ==
    /\ server.leaving = 0
    /\ server' = [server EXCEPT !.held = n]
    /\ UNCHANGED <<avars, wrapper, seen>>

(* Page.navigate: another document, with its own recorders. *)
Loads ==
    /\ page' = Fresh /\ ann' = NothingSaid /\ told' = {}
    /\ seen' = NothingSeen
    /\ server' = [server EXCEPT !.leaving = IF page.ws.opened THEN @ + 1 ELSE @]
    /\ UNCHANGED <<sim, restarted, wrapper>>

ScriptTurn ==
    /\ ~Ended
    /\ LET s == Step1 IN
       \/ s.do = "see" /\ Sights(s.sight)
       \/ s.do = "wait" /\ Goes /\ UNCHANGED <<avars, wrapper, seen, server>>
       \/ s.do = "expect" /\ Judge(IsSeen(s.sight)) /\ UNCHANGED <<avars, wrapper, seen, server>>
       \/ s.do = "inject" /\ Injects(s.frame) /\ Goes
       \/ s.do = "mark" /\ Goes /\ seen' = NothingSeen /\ UNCHANGED <<avars, wrapper, server>>
       \/ s.do = "signal" /\ Signals(s.signal) /\ Goes
       \/ s.do = "badFirst" /\ wrapper' = [wrapper EXCEPT !.badFirst = s.on] /\ Goes /\ UNCHANGED <<avars, seen, server>>
       \/ s.do = "incompleteFirst" /\ wrapper' = [wrapper EXCEPT !.incompleteFirst = 1] /\ Goes /\ UNCHANGED <<avars, seen, server>>
       \/ s.do = "openClient" /\ Clients(server.held + 1) /\ Goes
       \/ s.do = "closeClient" /\ Clients(server.held - 1) /\ Goes
       \/ s.do = "retryButton" /\ Click /\ Follow /\ Goes /\ UNCHANGED wrapper
       \/ s.do = "load" /\ Loads /\ Goes
       \/ s.do = "faults" /\ server' = [server EXCEPT !.faults = s.parts] /\ Goes /\ UNCHANGED <<avars, wrapper, seen>>

BenchNext ==
    \/ script.case = NoCase /\ AnnNext /\ UNCHANGED bench
    \/ script.case # NoCase /\ ScriptTurn
    \/ script.case # NoCase /\ ~AtOnce /\ (PageTurn \/ FrameComes) /\ UNCHANGED script
    \/ script.case # NoCase /\ (Snapshot \/ Notices)

BenchSpec ==
    /\ BenchInit /\ [][BenchNext]_<<avars, bench>>
    /\ Fairness
    /\ WF_<<avars, bench>>(ScriptTurn) /\ WF_<<avars, bench>>(Snapshot) /\ WF_<<avars, bench>>(Notices)
-----------------------------------------------------------------------------
(* Every condition of every case holds, however the callbacks of the page and  *)
(* the server's snapshots and notices fall between the script's steps.           *)
CasesPass == script.case # NoCase => script.failed = {}

(* The script injects into a socket that has said hello, and never a hello. *)
InjectsHeard ==
    ~Ended /\ Step1.do = "inject" /\ page.ws.open => page.ws.due # "hello" /\ Step1.frame # "hello"

(* With the types, the page between two callbacks, and the script between two steps. *)
BenchInv == PageInv /\ AnnTypeOK /\ BenchTypeOK /\ InjectsHeard /\ CasesPass

(* What the page claims is true: the Live it shows, and what it announces, to    *)
(* which another rendering of the same page adds nothing.                         *)
ClaimsAreTrue == LiveIsTrusted /\ ListenerKnows /\ AskedAgain

(* The page comes back, or waits for its reader; and no case of the script waits *)
(* for ever for something to see.                                                  *)
AllEnds == EndsLive /\ <>Ended
=============================================================================
