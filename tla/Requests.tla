-------------------------------- MODULE Requests --------------------------------
(***************************************************************************)
(* api/options.py and the guard of api/server.py: where --api listens, and  *)
(* what becomes of an HTTP request before a handler sees it.  A body whose  *)
(* length nobody declared is the sizes of the pieces in which it arrives,   *)
(* and whether its end arrives before the deadline.                          *)
(***************************************************************************)
EXTENDS Integers, Sequences

CONSTANT MaxBody        \* MAX_BODY: a small number stands for the 1024 bytes

ASSUME BodyAssumption == MaxBody \in Nat

(* A host is written with or without the brackets of IPv6. *)
Literal(host) == CASE host = "[::1]" -> "::1" [] OTHER -> host

LoopbackHosts == {"127.0.0.1", "::1", "localhost"}

(* parse_api: "none" when it refuses to start, else the address it binds. *)
BindHost(host) ==
    CASE Literal(host) \notin LoopbackHosts -> "none"
      [] Literal(host) = "localhost" -> "127.0.0.1"
      [] OTHER -> Literal(host)

(* Mutant of AllowedHosts: the address as it is bound. *)
AllowedHostsBare(bound, port) == {<<bound, port>>, <<"localhost", port>>}

(* allowed_hosts, of the port the socket has got: what the Host header may be. *)
AllowedHosts(bound, port) == {<<IF bound = "::1" THEN "[::1]" ELSE bound, port>>, <<"localhost", port>>}
-----------------------------------------------------------------------------
NoLength == -1

(* Mutant of Taken: the probe asks for no byte beyond the limit. *)
TakenToLimit(size, piece) == IF size + piece <= MaxBody THEN size + piece ELSE MaxBody

(* Mutant of Taken: one read is all. *)
TakenOnce(size, piece) == IF size = 0 THEN TakenToLimit(0, piece) ELSE size

(* _body_size, one read: of MaxBody + 1 - size bytes, and none past that. *)
Taken(size, piece) ==
    CASE size > MaxBody -> size
      [] size <= MaxBody /\ size + piece <= MaxBody + 1 -> size + piece
      [] OTHER -> MaxBody + 1

(* _body_size, over what arrives. *)
BodySize(pieces) ==
    LET size[n \in 0..Len(pieces)] == IF n = 0 THEN 0 ELSE Taken(size[n - 1], pieces[n])
    IN  size[Len(pieces)]

(* The probe ends with the body, or with the first byte too many; else the *)
(* deadline ends it.                                                       *)
ProbeEnds(r) == r.ends \/ BodySize(r.pieces) > MaxBody

Upgrade(r) == r.path = "/api/v1/events" /\ r.method = "GET"

SameOrigin(r) == r.origin = r.host

(* guard: the status it answers, or "handled". *)
Guarded(r, allowed) ==
    LET probed == r.length = NoLength
    IN  CASE r.host \notin allowed -> "421"
          [] r.host \in allowed /\ r.length > MaxBody -> "413"
          [] r.host \in allowed /\ probed /\ ~ProbeEnds(r) -> "408"
          [] r.host \in allowed /\ probed /\ ProbeEnds(r) /\ BodySize(r.pieces) > MaxBody -> "413"
          [] OTHER -> IF Upgrade(r) /\ ~SameOrigin(r) THEN "403" ELSE "handled"

(* _refuse_and_close: the connection is not kept, the rest of the body not read. *)
ClosedAtOnce(status) == status \in {"413", "408"}
-----------------------------------------------------------------------------
Ports == {8000, 8001}
Headers == {"127.0.0.1", "::1", "[::1]", "localhost", "other"} \X Ports
Pieces == UNION {[1..n -> 1..MaxBody + 2] : n \in 0..3}
Asked(bodies) ==
    {[host |-> host, origin |-> origin, path |-> path, method |-> method,
      length |-> body.length, pieces |-> body.pieces, ends |-> body.ends] :
        host \in Headers, origin \in {<<"localhost", 8000>>, <<"127.0.0.1", 8000>>},
        path \in {"/api/v1/events", "/api/v1/status"}, method \in {"GET", "POST"}, body \in bodies}
Declared == {[length |-> n, pieces |-> << >>, ends |-> TRUE] : n \in 0..MaxBody + 2}
Chunked == {[length |-> NoLength, pieces |-> pieces, ends |-> ends] : pieces \in Pieces, ends \in BOOLEAN}

(* The length of a body, declared or not. *)
Length(pieces) ==
    LET upTo[n \in 0..Len(pieces)] == IF n = 0 THEN 0 ELSE upTo[n - 1] + pieces[n]
    IN  upTo[Len(pieces)]
Whole(r) == IF r.length = NoLength THEN Length(r.pieces) ELSE r.length

(* The Host header of a browser that is told to go where --api was said to listen. *)
Told(typed) == <<IF typed = "::1" THEN "[::1]" ELSE typed, 8000>>

AllowedAt(typed) == AllowedHosts(BindHost(typed), 8000)

(* Of the bodies exactly those pass that are within the limit and arrive in     *)
(* time, however they are cut into pieces: the probe tells a body of the limit   *)
(* from a longer one, and after a body of undeclared length a connection is kept *)
(* only if that body has been read to its end.                                   *)
GuardedRightly(r, status) ==
    LET fits == Whole(r) <= MaxBody
    IN  /\ status = "413" <=> ~fits
        /\ ~ClosedAtOnce(status) <=> fits /\ r.ends
        /\ ~ClosedAtOnce(status) /\ r.length = NoLength => BodySize(r.pieces) = Whole(r)

(* Wherever --api listens, the address a browser is told is one that the guard *)
(* lets in, and it treats the requests to it rightly.                           *)
RequestsGuarded ==
    \A typed \in LoopbackHosts :
        /\ Told(typed) \in AllowedAt(typed)
        /\ \A body \in Declared \cup Chunked : \A r \in Asked({body}) :
            r.host \in AllowedAt(typed) => GuardedRightly(r, Guarded(r, AllowedAt(typed)))
=============================================================================
