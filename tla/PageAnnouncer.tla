----------------------------- MODULE PageAnnouncer -----------------------------
(***************************************************************************)
(* The announcer of the browser page, api/static/app.js: the one live region *)
(* that speaks when an outage begins, when its fault becomes another one,      *)
(* when an episode is exhausted and when the data is current again, and that    *)
(* is silent about retries.  It composes with PageClient: it speaks whenever     *)
(* the page is rendered, at the end of nearly every callback and each second      *)
(* of an outage.                                                                   *)
(*   An announcement is the set of what it says.  ann.key is left out: to be        *)
(* asked again about the same condition says nothing (AskedAgain).                   *)
(***************************************************************************)
EXTENDS PageClient

VARIABLE
    ann,    \* ann
    told    \* the kinds of trouble announced since the last recovery

avars == <<vars, ann, told>>

Causes == {"unreadable", "incomplete", "encoding"}
NothingSaid == [hadDisconnect |-> FALSE, hadFault |-> FALSE, sig |-> {}, exhausted |-> FALSE]

AnnTypeOK ==
    /\ ann \in [hadDisconnect : BOOLEAN, hadFault : BOOLEAN, exhausted : BOOLEAN,
                sig : (SUBSET Causes) \cup {{"down"}, {"refused"}}]
    /\ told \subseteq {"down", "refused", "last known", "could not recover"}
-----------------------------------------------------------------------------
(* annState, where there is nothing to say yet. *)
Waiting(p) == p.conn = "loading" \/ (p.conn = "live" /\ Pending(p) /\ ~HasFault(p) /\ p.ep = NoEp)

(* faultSig: the class and the cause of the trouble. *)
Signature(p) == IF Stale(p) THEN {p.conn} ELSE {c \in Causes : p.req[c]}

OfConnection(sig) == sig \in {{"down"}, {"refused"}}

(* annText: the connection is back and the attempt goes on, so its state decides. *)
StateDecides(a, p) == ~Stale(p) /\ Active(p) /\ p.ep.inFlight /\ OfConnection(a.sig)

(* Mutant of Changed: each failure of a retry is said. *)
ChangedEach(a, p) == Signature(p) # {} /\ (Stale(p) \/ Signature(p) # a.sig)

(* Mutant of Changed: only another class is another fault. *)
ChangedClass(a, p) == Signature(p) # {} /\ (a.sig = {} \/ OfConnection(a.sig) # Stale(p))

(* annText: a materially different fault. *)
Changed(a, p) == Signature(p) # {} /\ Signature(p) # a.sig

(* annText: the announcement. *)
Words(a, p) ==
    IF Waiting(p) THEN {}
    ELSE IF Live(p) THEN IF a.hadDisconnect THEN {"restored"} ELSE IF a.hadFault THEN {"live restored"} ELSE {}
    ELSE IF StateDecides(a, p) THEN {}
    ELSE (IF ~Changed(a, p) THEN {}
          ELSE IF Stale(p) THEN {p.conn}
          ELSE IF a.hadDisconnect THEN {"reconnected"} ELSE {"last known"})
         \cup (IF p.ep.state = "exhausted" /\ ~a.exhausted THEN {"could not recover"} ELSE {})

(* annText: what it remembers. *)
Remembered(a, p) ==
    IF Waiting(p) THEN a
    ELSE IF Live(p) THEN NothingSaid
    ELSE IF StateDecides(a, p) THEN [a EXCEPT !.exhausted = FALSE]
    ELSE [hadDisconnect |-> a.hadDisconnect \/ Stale(p),
          hadFault |-> a.hadFault \/ HasFault(p),
          sig |-> IF Changed(a, p) THEN Signature(p) ELSE a.sig,
          exhausted |-> p.ep.state = "exhausted"]

(* announceState, of the page p. *)
Announce(p) ==
    /\ ann' = Remembered(ann, p)
    /\ told' = IF Live(p) THEN {} ELSE told \cup {IF w = "reconnected" THEN "last known" ELSE w : w \in Words(ann, p)}
-----------------------------------------------------------------------------
AnnInit == Init /\ ann = NothingSaid /\ told = {}

(* /status answered and the attempt goes on: the only callback that changes the *)
(* condition of the page and does not render it.                                 *)
Unrendered ==
    /\ page'.connecting
    /\ \E f \in page.fetches \ page'.fetches : f.current /\ f.what = "status"

(* A callback, and renderLink in it. *)
Callback == Next /\ IF Unrendered THEN UNCHANGED <<ann, told>> ELSE Announce(page')

(* Each second, for the countdown of the banner. *)
Ticks ==
    /\ Stale(page) \/ page.ep # NoEp
    /\ Announce(page)
    /\ UNCHANGED vars

AnnNext == Callback \/ Ticks

AnnSpec == AnnInit /\ [][AnnNext]_avars /\ Fairness
-----------------------------------------------------------------------------
(* Nothing is left to say about the page as it is. *)
Spoken == Remembered(ann, page) = ann

(* Asked again about the same page, the announcer says nothing.                *)
AskedAgain == LET again == Remembered(ann, page) IN Words(again, page) = {} /\ Remembered(again, page) = again

(* Who only listens knows what the banner shows (app.js:1265 on): nothing is   *)
(* announced of a page that is Live; the trouble of one that is not has been    *)
(* said, the exhaustion too; and the recovery will be said, as the end of a      *)
(* disconnect if and only if a disconnect was said.                               *)
ListenerKnows ==
    Spoken =>
        /\ Live(page) => told = {}
        /\ Stale(page) => page.conn \in told
        /\ page.conn = "live" /\ HasFault(page) /\ ~StateDecides(ann, page)
            => "last known" \in told
        /\ page.ep.state = "exhausted" /\ page.conn # "loading" => "could not recover" \in told
        /\ told \cap {"down", "refused"} # {} <=> ann.hadDisconnect
        /\ told # {} => ann.hadDisconnect \/ ann.hadFault
=============================================================================
