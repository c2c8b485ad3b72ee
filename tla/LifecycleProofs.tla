---------------------------- MODULE LifecycleProofs ----------------------------
(***************************************************************************)
(* Starting and stopping, for any number of clients: what is started is    *)
(* stopped, in order, no client is left open and unwarned, and a close      *)
(* frame and the ledger differ only in the ways that the code allows.       *)
(***************************************************************************)
EXTENDS Lifecycle, TLAPS

(* The stages in which a server, if there is one, accepts clients and serves them. *)
Up == {"transportStart", "ready", "tickEnds", "serverStop", "gather", "tasksEnd"}

(* What has been started, by the stage of run(). *)
StageOK ==
    /\ stage \in Up => listening = api /\ tasks = api
    /\ stage \notin Up => ~tasks
    /\ listening => stage \in Up \/ (stage = "over" /\ interrupted)
    /\ bus => \/ stage \in {"ready", "tickEnds", "serverStop", "gather", "tasksEnd", "cleanup", "transportStop"}
              \/ stage = "over" /\ interrupted
    /\ tick \/ signals => stage \in {"ready", "tickEnds"}
    /\ stage \in {"serverStart", "serverStop", "gather", "tasksEnd", "cleanup"} => api
    /\ listening => api
    /\ interrupted => stage = "over"

(* A handler has its socket, and records a code before it gives it up. *)
HandlerOK(c) ==
    /\ handler[c] = "none" <=> socket[c] = "none"
    /\ handler[c] = "none" => closer[c] = "none" /\ stopper[c] = "none"
    /\ handler[c] \in {"refused", "over"} => socket[c] = "closed"
    /\ handler[c] \in {"refusing", "grace", "awaitCloser", "over"} => code[c] # Open
    /\ handler[c] \in {"prepare", "reading"} => code[c] \in {Open, TooSlow, InternalError, GoingAway}
    /\ handler[c] \in {"none", "refused"} => ~writer[c] /\ code[c] = Open
    /\ handler[c] = "refusing" => frame[c] # Open
    /\ handler[c] \in {"none", "refused", "prepare", "reading", "refusing"} => frame[c] # Normal
    /\ ~api => handler[c] = "none"

(* The sockets that stop() found: each has a task that closes it. *)
KnownOK(c) ==
    /\ c \in known => handler[c] # "none" /\ code[c] # Open /\ stopper[c] # "none"
    /\ c \in known /\ stopper[c] \in {"closing", "done"} => WsClosed(c)
    /\ stopper[c] = "ready" => WsClosed(c) \/ code[c] \in {GoingAway, TooSlow, InternalError}
    /\ stage \in {"tasksEnd", "cleanup", "transportStop"} => stopper[c] \in {"none", "done"}

(* Behind cleanup there is no client that was not told or that is still there. *)
GoneOK(c) ==
    stage \in {"transportStop", "over"} /\ ~interrupted =>
        socket[c] # "open" /\ (code[c] = Open => handler[c] \in {"none", "refused"})

FrameOK(c) ==
    frame[c] # Open =>
        \/ frame[c] = code[c]
        \/ code[c] \in {TooSlow, InternalError} /\ frame[c] \in {GoingAway, PolicyViolation, Normal, Unacceptable}
        \/ code[c] = GoingAway /\ frame[c] \in {PolicyViolation, Normal, Unacceptable}
        \/ frame[c] = Normal /\ code[c] = (IF said[c] = Open THEN Abnormal ELSE said[c])
        \/ frame[c] = Unacceptable /\ code[c] \in {Open, Abnormal}

ClientOK(c) == HandlerOK(c) /\ KnownOK(c) /\ GoneOK(c) /\ FrameOK(c)

(* The inductive invariant. *)
LifecycleIInv == TypeOK /\ StageOK /\ \A c \in Clients : ClientOK(c)

LEMMA InitIsRight == Init => LifecycleIInv
<1> SUFFICES ASSUME Init PROVE LifecycleIInv
  OBVIOUS
<1>1. TypeOK
  <2>1. Open \in Codes /\ Open \in Frames
    BY DEF Codes, Frames, Open, Abnormal
  <2>2. /\ code \in [Clients -> Codes \cup ClientCodes]
        /\ frame \in [Clients -> Frames]
        /\ said \in [Clients -> ClientCodes \cup {Open}]
    BY <2>1 DEF Init
  <2> QED
    BY <2>2 DEF Init, FirstStage, TypeOK, Stages, HandlerStages
<1>2. StageOK
  BY DEF Init, FirstStage, StageOK, Up
<1>3. ASSUME NEW c \in Clients PROVE ClientOK(c)
  <2>1. /\ handler[c] = "none" /\ code[c] = Open /\ ~writer[c] /\ closer[c] = "none" /\ stopper[c] = "none"
        /\ frame[c] = Open /\ socket[c] = "none" /\ c \notin known
        /\ stage \in {"serverStart", "transportStart"}
    BY DEF Init, FirstStage
  <2> QED
    BY <2>1 DEF ClientOK, HandlerOK, KnownOK, GoneOK, FrameOK, Open, Normal
<1> QED
  BY <1>1, <1>2, <1>3 DEF LifecycleIInv

LEMMA InvariantSuffices == LifecycleIInv => LifecycleInv /\ FrameNearlyRecorded
BY DEF LifecycleIInv, LifecycleInv, FrameNearlyRecorded, BusInsideServer, NothingLeftRunning, StopLeavesNobody,
       TypeOK, StageOK, ClientOK, HandlerOK, KnownOK, GoneOK, FrameOK, Up, Codes

(* Steps of one client change nothing that belongs to run(), and nothing of *)
(* another client.                                                          *)
Kept(c) ==
    /\ UNCHANGED <<api, main, server>>
    /\ \A d \in Clients \ {c} :
        /\ handler'[d] = handler[d] /\ code'[d] = code[d] /\ writer'[d] = writer[d] /\ closer'[d] = closer[d]
        /\ stopper'[d] = stopper[d] /\ frame'[d] = frame[d] /\ said'[d] = said[d] /\ socket'[d] = socket[d]

LEMMA OthersKept ==
    ASSUME LifecycleIInv, NEW c \in Clients, Kept(c), TypeOK', ClientOK(c)'
    PROVE  LifecycleIInv'
<1>1. StageOK'
  BY DEF LifecycleIInv, StageOK, Kept, main, server
<1>2. ASSUME NEW d \in Clients, d # c PROVE ClientOK(d)'
  BY <1>2 DEF LifecycleIInv, ClientOK, HandlerOK, KnownOK, GoneOK, FrameOK, WsClosed, Kept, main, server
<1> QED
  BY <1>1, <1>2 DEF LifecycleIInv

LEMMA ConnectKeeps ==
    ASSUME LifecycleIInv, NEW c \in Clients, Connect(c)
    PROVE  LifecycleIInv'
<1>1. Kept(c)
  BY DEF LifecycleIInv, TypeOK, Connect, Kept, main, server
<1>2. TypeOK'
  BY DEF LifecycleIInv, TypeOK, Connect, main, server, Codes, Frames, HandlerStages
<1>3. HandlerOK(c)'
  BY <1>1
   DEF LifecycleIInv, TypeOK, StageOK, ClientOK, HandlerOK, FrameOK, Connect, Kept, Open, GoingAway,
       Abnormal, Normal, Unacceptable, PolicyViolation, InternalError, TooSlow
<1>4. KnownOK(c)' /\ GoneOK(c)' /\ FrameOK(c)'
  BY <1>1
   DEF LifecycleIInv, TypeOK, StageOK, ClientOK, HandlerOK, KnownOK, GoneOK, FrameOK, WsClosed, Connect,
       Kept, main, server, Up, Open, GoingAway, Abnormal, Normal, Unacceptable, PolicyViolation,
       InternalError, TooSlow
<1> QED
  BY <1>1, <1>2, <1>3, <1>4, OthersKept DEF ClientOK

LEMMA PreparedKeeps ==
    ASSUME LifecycleIInv, NEW c \in Clients, Prepared(c)
    PROVE  LifecycleIInv'
<1>1. Kept(c)
  BY DEF LifecycleIInv, TypeOK, Prepared, Kept, main, server
<1>2. TypeOK'
  BY DEF LifecycleIInv, TypeOK, Prepared, main, server, Codes, Frames, HandlerStages
<1>3. HandlerOK(c)'
  BY <1>1
   DEF LifecycleIInv, TypeOK, StageOK, ClientOK, HandlerOK, FrameOK, Prepared, Kept, Open, GoingAway,
       Abnormal, Normal, Unacceptable, PolicyViolation, InternalError, TooSlow
<1>4. KnownOK(c)' /\ GoneOK(c)' /\ FrameOK(c)'
  BY <1>1
   DEF LifecycleIInv, TypeOK, StageOK, ClientOK, HandlerOK, KnownOK, GoneOK, FrameOK, WsClosed, Prepared,
       Kept, main, server, Up, Open, GoingAway, Abnormal, Normal, Unacceptable, PolicyViolation,
       InternalError, TooSlow
<1> QED
  BY <1>1, <1>2, <1>3, <1>4, OthersKept DEF ClientOK

LEMMA PrepareFailsKeeps ==
    ASSUME LifecycleIInv, NEW c \in Clients, PrepareFails(c)
    PROVE  LifecycleIInv'
<1>1. Kept(c)
  BY DEF LifecycleIInv, TypeOK, PrepareFails, Recorded, Kept, main, server
<1>2. TypeOK'
  BY DEF LifecycleIInv, TypeOK, PrepareFails, Recorded, main, server, Codes, Frames, HandlerStages
<1>3. HandlerOK(c)'
  BY <1>1
   DEF LifecycleIInv, TypeOK, StageOK, ClientOK, HandlerOK, FrameOK, PrepareFails, Recorded, Kept, Open,
       GoingAway, Abnormal, Normal, Unacceptable, PolicyViolation, InternalError, TooSlow
<1>4. KnownOK(c)' /\ GoneOK(c)' /\ FrameOK(c)'
  BY <1>1
   DEF LifecycleIInv, TypeOK, StageOK, ClientOK, HandlerOK, KnownOK, GoneOK, FrameOK, WsClosed,
       PrepareFails, Recorded, Kept, main, server, Up, Open, GoingAway, Abnormal, Normal, Unacceptable,
       PolicyViolation, InternalError, TooSlow
<1> QED
  BY <1>1, <1>2, <1>3, <1>4, OthersKept DEF ClientOK

LEMMA PeerGoneKeeps ==
    ASSUME LifecycleIInv, NEW c \in Clients, PeerGone(c)
    PROVE  LifecycleIInv'
<1>1. Kept(c)
  BY DEF LifecycleIInv, TypeOK, PeerGone, Kept, main, server
<1>2. TypeOK'
  BY DEF LifecycleIInv, TypeOK, PeerGone, main, server, Codes, Frames, HandlerStages
<1>3. HandlerOK(c)'
  BY <1>1
   DEF LifecycleIInv, TypeOK, StageOK, ClientOK, HandlerOK, FrameOK, PeerGone, Kept, Open, GoingAway,
       Abnormal, Normal, Unacceptable, PolicyViolation, InternalError, TooSlow
<1>4. KnownOK(c)' /\ GoneOK(c)' /\ FrameOK(c)'
  BY <1>1
   DEF LifecycleIInv, TypeOK, StageOK, ClientOK, HandlerOK, KnownOK, GoneOK, FrameOK, WsClosed, PeerGone,
       Kept, main, server, Up, Open, GoingAway, Abnormal, Normal, Unacceptable, PolicyViolation,
       InternalError, TooSlow
<1> QED
  BY <1>1, <1>2, <1>3, <1>4, OthersKept DEF ClientOK

LEMMA PublisherClosesKeeps ==
    ASSUME LifecycleIInv, NEW c \in Clients, PublisherCloses(c)
    PROVE  LifecycleIInv'
<1>1. Kept(c)
  BY DEF LifecycleIInv, TypeOK, PublisherCloses, Kept, main, server
<1>2. TypeOK'
  BY DEF LifecycleIInv, TypeOK, PublisherCloses, main, server, Codes, Frames, HandlerStages
<1>3. HandlerOK(c)'
  BY <1>1
   DEF LifecycleIInv, TypeOK, StageOK, ClientOK, HandlerOK, FrameOK, PublisherCloses, Kept, Open, GoingAway,
       Abnormal, Normal, Unacceptable, PolicyViolation, InternalError, TooSlow
<1>4. KnownOK(c)' /\ GoneOK(c)' /\ FrameOK(c)'
  BY <1>1
   DEF LifecycleIInv, TypeOK, StageOK, ClientOK, HandlerOK, KnownOK, GoneOK, FrameOK, WsClosed,
       PublisherCloses, Kept, main, server, Up, Open, GoingAway, Abnormal, Normal, Unacceptable,
       PolicyViolation, InternalError, TooSlow
<1> QED
  BY <1>1, <1>2, <1>3, <1>4, OthersKept DEF ClientOK

LEMMA WriterEndsKeeps ==
    ASSUME LifecycleIInv, NEW c \in Clients, WriterEnds(c)
    PROVE  LifecycleIInv'
<1>1. Kept(c)
  BY DEF LifecycleIInv, TypeOK, WriterEnds, Recorded, Kept, main, server
<1>2. TypeOK'
  BY DEF LifecycleIInv, TypeOK, WriterEnds, Recorded, main, server, Codes, Frames, HandlerStages
<1>3. HandlerOK(c)'
  BY <1>1
   DEF LifecycleIInv, TypeOK, StageOK, ClientOK, HandlerOK, FrameOK, WriterEnds, Recorded, Kept, Open,
       GoingAway, Abnormal, Normal, Unacceptable, PolicyViolation, InternalError, TooSlow
<1>4. KnownOK(c)' /\ GoneOK(c)' /\ FrameOK(c)'
  BY <1>1
   DEF LifecycleIInv, TypeOK, StageOK, ClientOK, HandlerOK, KnownOK, GoneOK, FrameOK, WsClosed, WriterEnds,
       Recorded, Kept, main, server, Up, Open, GoingAway, Abnormal, Normal, Unacceptable, PolicyViolation,
       InternalError, TooSlow
<1> QED
  BY <1>1, <1>2, <1>3, <1>4, OthersKept DEF ClientOK

LEMMA DataMessageKeeps ==
    ASSUME LifecycleIInv, NEW c \in Clients, DataMessage(c)
    PROVE  LifecycleIInv'
<1>1. Kept(c)
  BY DEF LifecycleIInv, TypeOK, DataMessage, Recorded, Kept, main, server
<1>2. TypeOK'
  BY DEF LifecycleIInv, TypeOK, DataMessage, Recorded, WsClosed, main, server, Codes, Frames, HandlerStages,
         Open, GoingAway, Abnormal, PolicyViolation, InternalError, TooSlow
<1>3. HandlerOK(c)'
  BY <1>1
   DEF LifecycleIInv, TypeOK, StageOK, ClientOK, HandlerOK, FrameOK, DataMessage, Recorded, WsClosed, Kept,
       Open, GoingAway, Abnormal, Normal, Unacceptable, PolicyViolation, InternalError, TooSlow
<1>4. KnownOK(c)' /\ GoneOK(c)' /\ FrameOK(c)'
  BY <1>1
   DEF LifecycleIInv, TypeOK, StageOK, ClientOK, HandlerOK, KnownOK, GoneOK, FrameOK, WsClosed, DataMessage,
       Recorded, Kept, main, server, Up, Open, GoingAway, Abnormal, Normal, Unacceptable, PolicyViolation,
       InternalError, TooSlow
<1> QED
  BY <1>1, <1>2, <1>3, <1>4, OthersKept DEF ClientOK

LEMMA ClientClosesKeeps ==
    ASSUME LifecycleIInv, NEW c \in Clients, ClientCloses(c)
    PROVE  LifecycleIInv'
<1>1. Kept(c)
  BY DEF LifecycleIInv, TypeOK, ClientCloses, FinallyCode, Recorded, WsClosed, Kept, main, server
<1>2. TypeOK'
  BY
   DEF LifecycleIInv, TypeOK, ClientCloses, FinallyCode, Recorded, WsClosed, main, server, Codes, Frames,
       HandlerStages
<1>3. HandlerOK(c)'
  BY <1>1, LifecycleAssumption
   DEF LifecycleIInv, TypeOK, StageOK, ClientOK, HandlerOK, FrameOK, ClientCloses, FinallyCode, Recorded,
       WsClosed, Kept, Open, GoingAway, Abnormal, Normal, Unacceptable, PolicyViolation, InternalError,
       TooSlow
<1>4. KnownOK(c)' /\ GoneOK(c)' /\ FrameOK(c)'
  BY <1>1, LifecycleAssumption
   DEF LifecycleIInv, TypeOK, StageOK, ClientOK, HandlerOK, KnownOK, GoneOK, FrameOK, WsClosed,
       ClientCloses, FinallyCode, Recorded, WsClosed, Kept, main, server, Up, Open, GoingAway, Abnormal,
       Normal, Unacceptable, PolicyViolation, InternalError, TooSlow
<1> QED
  BY <1>1, <1>2, <1>3, <1>4, OthersKept DEF ClientOK

LEMMA ReadEndsKeeps ==
    ASSUME LifecycleIInv, NEW c \in Clients, ReadEnds(c)
    PROVE  LifecycleIInv'
<1>1. Kept(c)
  BY DEF LifecycleIInv, TypeOK, ReadEnds, FinallyCode, Recorded, Kept, main, server
<1>2. TypeOK'
  BY DEF LifecycleIInv, TypeOK, ReadEnds, FinallyCode, Recorded, main, server, Codes, Frames, HandlerStages
<1>3. HandlerOK(c)'
  BY <1>1
   DEF LifecycleIInv, TypeOK, StageOK, ClientOK, HandlerOK, FrameOK, ReadEnds, FinallyCode, Recorded, Kept,
       Open, GoingAway, Abnormal, Normal, Unacceptable, PolicyViolation, InternalError, TooSlow
<1>4. KnownOK(c)' /\ GoneOK(c)' /\ FrameOK(c)'
  BY <1>1
   DEF LifecycleIInv, TypeOK, StageOK, ClientOK, HandlerOK, KnownOK, GoneOK, FrameOK, WsClosed, ReadEnds,
       FinallyCode, Recorded, Kept, main, server, Up, Open, GoingAway, Abnormal, Normal, Unacceptable,
       PolicyViolation, InternalError, TooSlow
<1> QED
  BY <1>1, <1>2, <1>3, <1>4, OthersKept DEF ClientOK

LEMMA BadFrameKeeps ==
    ASSUME LifecycleIInv, NEW c \in Clients, BadFrame(c)
    PROVE  LifecycleIInv'
<1>1. Kept(c)
  BY DEF LifecycleIInv, TypeOK, BadFrame, Kept, main, server
<1>2. TypeOK'
  BY DEF LifecycleIInv, TypeOK, BadFrame, WsClosed, main, server, Codes, Frames, HandlerStages
<1>3. HandlerOK(c)'
  BY <1>1
   DEF LifecycleIInv, TypeOK, StageOK, ClientOK, HandlerOK, FrameOK, BadFrame, WsClosed, Kept, Open,
       GoingAway, Abnormal, Normal, Unacceptable, PolicyViolation, InternalError, TooSlow
<1>4. KnownOK(c)' /\ GoneOK(c)' /\ FrameOK(c)'
  BY <1>1
   DEF LifecycleIInv, TypeOK, StageOK, ClientOK, HandlerOK, KnownOK, GoneOK, FrameOK, WsClosed, BadFrame,
       Kept, main, server, Up, Open, GoingAway, Abnormal, Normal, Unacceptable, PolicyViolation,
       InternalError, TooSlow
<1> QED
  BY <1>1, <1>2, <1>3, <1>4, OthersKept DEF ClientOK

LEMMA RefusalEndsKeeps ==
    ASSUME LifecycleIInv, NEW c \in Clients, RefusalEnds(c)
    PROVE  LifecycleIInv'
<1>1. Kept(c)
  BY DEF LifecycleIInv, TypeOK, RefusalEnds, FinallyCode, Recorded, Kept, main, server
<1>2. TypeOK'
  BY DEF LifecycleIInv, TypeOK, RefusalEnds, FinallyCode, Recorded, main, server, Codes, Frames, HandlerStages
<1>3. HandlerOK(c)'
  BY <1>1
   DEF LifecycleIInv, TypeOK, StageOK, ClientOK, HandlerOK, FrameOK, RefusalEnds, FinallyCode, Recorded,
       Kept, Open, GoingAway, Abnormal, Normal, Unacceptable, PolicyViolation, InternalError, TooSlow
<1>4. KnownOK(c)' /\ GoneOK(c)' /\ FrameOK(c)'
  BY <1>1
   DEF LifecycleIInv, TypeOK, StageOK, ClientOK, HandlerOK, KnownOK, GoneOK, FrameOK, WsClosed, RefusalEnds,
       FinallyCode, Recorded, Kept, main, server, Up, Open, GoingAway, Abnormal, Normal, Unacceptable,
       PolicyViolation, InternalError, TooSlow
<1> QED
  BY <1>1, <1>2, <1>3, <1>4, OthersKept DEF ClientOK

LEMMA GraceEndsKeeps ==
    ASSUME LifecycleIInv, NEW c \in Clients, GraceEnds(c)
    PROVE  LifecycleIInv'
<1>1. Kept(c)
  BY DEF LifecycleIInv, TypeOK, GraceEnds, Kept, main, server
<1>2. TypeOK'
  BY DEF LifecycleIInv, TypeOK, GraceEnds, main, server, Codes, Frames, HandlerStages
<1>3. HandlerOK(c)'
  BY <1>1
   DEF LifecycleIInv, TypeOK, StageOK, ClientOK, HandlerOK, FrameOK, GraceEnds, Kept, Open, GoingAway,
       Abnormal, Normal, Unacceptable, PolicyViolation, InternalError, TooSlow
<1>4. KnownOK(c)' /\ GoneOK(c)' /\ FrameOK(c)'
  BY <1>1
   DEF LifecycleIInv, TypeOK, StageOK, ClientOK, HandlerOK, KnownOK, GoneOK, FrameOK, WsClosed, GraceEnds,
       Kept, main, server, Up, Open, GoingAway, Abnormal, Normal, Unacceptable, PolicyViolation,
       InternalError, TooSlow
<1> QED
  BY <1>1, <1>2, <1>3, <1>4, OthersKept DEF ClientOK

LEMMA HandlerEndsKeeps ==
    ASSUME LifecycleIInv, NEW c \in Clients, HandlerEnds(c)
    PROVE  LifecycleIInv'
<1>1. Kept(c)
  BY DEF LifecycleIInv, TypeOK, HandlerEnds, Kept, main, server
<1>2. TypeOK'
  BY DEF LifecycleIInv, TypeOK, HandlerEnds, main, server, Codes, Frames, HandlerStages
<1>3. HandlerOK(c)'
  BY <1>1
   DEF LifecycleIInv, TypeOK, StageOK, ClientOK, HandlerOK, FrameOK, HandlerEnds, Kept, Open, GoingAway,
       Abnormal, Normal, Unacceptable, PolicyViolation, InternalError, TooSlow
<1>4. KnownOK(c)' /\ GoneOK(c)' /\ FrameOK(c)'
  BY <1>1
   DEF LifecycleIInv, TypeOK, StageOK, ClientOK, HandlerOK, KnownOK, GoneOK, FrameOK, WsClosed, HandlerEnds,
       Kept, main, server, Up, Open, GoingAway, Abnormal, Normal, Unacceptable, PolicyViolation,
       InternalError, TooSlow
<1> QED
  BY <1>1, <1>2, <1>3, <1>4, OthersKept DEF ClientOK

LEMMA CloserWakesKeeps ==
    ASSUME LifecycleIInv, NEW c \in Clients, CloserWakes(c)
    PROVE  LifecycleIInv'
<1>1. Kept(c)
  BY DEF LifecycleIInv, TypeOK, CloserWakes, WsClosed, Kept, main, server
<1>2. TypeOK'
  BY DEF LifecycleIInv, TypeOK, CloserWakes, WsClosed, main, server, Codes, Frames, HandlerStages,
         Open, GoingAway, Abnormal, PolicyViolation, InternalError, TooSlow
<1>3. HandlerOK(c)'
  BY <1>1
   DEF LifecycleIInv, TypeOK, StageOK, ClientOK, HandlerOK, FrameOK, CloserWakes, WsClosed, Kept, Open,
       GoingAway, Abnormal, Normal, Unacceptable, PolicyViolation, InternalError, TooSlow
<1>4. KnownOK(c)' /\ GoneOK(c)' /\ FrameOK(c)'
  BY <1>1
   DEF LifecycleIInv, TypeOK, StageOK, ClientOK, HandlerOK, KnownOK, GoneOK, FrameOK, WsClosed, CloserWakes,
       Kept, main, server, Up, Open, GoingAway, Abnormal, Normal, Unacceptable, PolicyViolation,
       InternalError, TooSlow
<1> QED
  BY <1>1, <1>2, <1>3, <1>4, OthersKept DEF ClientOK

LEMMA StopperRunsKeeps ==
    ASSUME LifecycleIInv, NEW c \in Clients, StopperRuns(c)
    PROVE  LifecycleIInv'
<1>1. Kept(c)
  BY DEF LifecycleIInv, TypeOK, StopperRuns, WsClosed, Kept, main, server
<1>2. TypeOK'
  BY DEF LifecycleIInv, TypeOK, StopperRuns, WsClosed, main, server, Codes, Frames, HandlerStages,
         Open, GoingAway, Abnormal, PolicyViolation, InternalError, TooSlow
<1>3. HandlerOK(c)'
  BY <1>1
   DEF LifecycleIInv, TypeOK, StageOK, ClientOK, HandlerOK, FrameOK, StopperRuns, WsClosed, Kept, Open,
       GoingAway, Abnormal, Normal, Unacceptable, PolicyViolation, InternalError, TooSlow
<1>4. KnownOK(c)' /\ GoneOK(c)' /\ FrameOK(c)'
  BY <1>1
   DEF LifecycleIInv, TypeOK, StageOK, ClientOK, HandlerOK, KnownOK, GoneOK, FrameOK, WsClosed, StopperRuns,
       Kept, main, server, Up, Open, GoingAway, Abnormal, Normal, Unacceptable, PolicyViolation,
       InternalError, TooSlow
<1> QED
  BY <1>1, <1>2, <1>3, <1>4, OthersKept DEF ClientOK

LEMMA CloseReturnsKeeps ==
    ASSUME LifecycleIInv, NEW c \in Clients, CloseReturns(c)
    PROVE  LifecycleIInv'
<1>1. Kept(c)
  BY DEF LifecycleIInv, TypeOK, CloseReturns, InClose, LeaveClose, Kept, main, server
<1>2. TypeOK'
  BY DEF LifecycleIInv, TypeOK, CloseReturns, InClose, LeaveClose, main, server, Codes, Frames, HandlerStages
<1>3. HandlerOK(c)'
  BY <1>1
   DEF LifecycleIInv, TypeOK, StageOK, ClientOK, HandlerOK, FrameOK, CloseReturns, InClose, LeaveClose,
       Kept, Open, GoingAway, Abnormal, Normal, Unacceptable, PolicyViolation, InternalError, TooSlow
<1>4. KnownOK(c)' /\ GoneOK(c)' /\ FrameOK(c)'
  BY <1>1
   DEF LifecycleIInv, TypeOK, StageOK, ClientOK, HandlerOK, KnownOK, GoneOK, FrameOK, WsClosed,
       CloseReturns, InClose, LeaveClose, Kept, main, server, Up, Open, GoingAway, Abnormal, Normal,
       Unacceptable, PolicyViolation, InternalError, TooSlow
<1> QED
  BY <1>1, <1>2, <1>3, <1>4, OthersKept DEF ClientOK

LEMMA CloseTimesOutKeeps ==
    ASSUME LifecycleIInv, NEW c \in Clients, CloseTimesOut(c)
    PROVE  LifecycleIInv'
<1>1. Kept(c)
  BY DEF LifecycleIInv, TypeOK, CloseTimesOut, TimeoutAborts, InClose, LeaveClose, Kept, main, server
<1>2. TypeOK'
  BY
   DEF LifecycleIInv, TypeOK, CloseTimesOut, TimeoutAborts, InClose, LeaveClose, main, server, Codes,
       Frames, HandlerStages
<1>3. HandlerOK(c)'
  BY <1>1
   DEF LifecycleIInv, TypeOK, StageOK, ClientOK, HandlerOK, FrameOK, CloseTimesOut, TimeoutAborts, InClose,
       LeaveClose, Kept, Open, GoingAway, Abnormal, Normal, Unacceptable, PolicyViolation, InternalError,
       TooSlow
<1>4. KnownOK(c)' /\ GoneOK(c)' /\ FrameOK(c)'
  BY <1>1
   DEF LifecycleIInv, TypeOK, StageOK, ClientOK, HandlerOK, KnownOK, GoneOK, FrameOK, WsClosed,
       CloseTimesOut, TimeoutAborts, InClose, LeaveClose, Kept, main, server, Up, Open, GoingAway, Abnormal,
       Normal, Unacceptable, PolicyViolation, InternalError, TooSlow
<1> QED
  BY <1>1, <1>2, <1>3, <1>4, OthersKept DEF ClientOK

(* A step of run() that touches no client. *)
LEMMA ClientsKept ==
    ASSUME LifecycleIInv, UNCHANGED <<api, known, conns>>, TypeOK', StageOK',
           stage' \in {"tasksEnd", "cleanup"} /\ stage \notin {"tasksEnd", "cleanup"}
               => \A c \in Clients : stopper[c] \in {"none", "done"},
           stage' = "transportStop" => ~api,
           stage' = "over" => stage \in {"transportStop", "over"},
           interrupted' = interrupted
    PROVE  LifecycleIInv'
BY DEF LifecycleIInv, ClientOK, HandlerOK, KnownOK, GoneOK, FrameOK, WsClosed, conns, Open

LEMMA PortBusyKeeps == LifecycleIInv /\ PortBusy => LifecycleIInv'
BY ClientsKept
   DEF LifecycleIInv, TypeOK, StageOK, PortBusy, main, server, conns, Stages, Up

LEMMA ServerStartsKeeps == LifecycleIInv /\ ServerStarts => LifecycleIInv'
BY ClientsKept
   DEF LifecycleIInv, TypeOK, StageOK, ServerStarts, main, server, conns, Stages, Up

LEMMA TransportFailsKeeps == LifecycleIInv /\ TransportFails => LifecycleIInv'
BY ClientsKept
   DEF LifecycleIInv, TypeOK, StageOK, TransportFails, Finally, main, server, conns, Stages, Up

LEMMA TransportStartsKeeps == LifecycleIInv /\ TransportStarts => LifecycleIInv'
BY ClientsKept
   DEF LifecycleIInv, TypeOK, StageOK, TransportStarts, main, server, conns, Stages, Up

LEMMA SignalKeeps == LifecycleIInv /\ Signal => LifecycleIInv'
BY ClientsKept
   DEF LifecycleIInv, TypeOK, StageOK, Signal, main, server, conns, Stages, Up

LEMMA StoppedKeeps == LifecycleIInv /\ Stopped => LifecycleIInv'
BY ClientsKept
   DEF LifecycleIInv, TypeOK, StageOK, Stopped, main, server, conns, Stages, Up

LEMMA TickEndsKeeps == LifecycleIInv /\ TickEnds => LifecycleIInv'
<1> SUFFICES ASSUME LifecycleIInv, TickEnds PROVE LifecycleIInv'
  OBVIOUS
<1>1. TypeOK'
  BY DEF LifecycleIInv, TypeOK, TickEnds, Finally, server, conns, Stages
<1>2. StageOK'
  BY DEF LifecycleIInv, StageOK, TickEnds, Finally, server, Up
<1>3. /\ UNCHANGED <<api, interrupted, known, conns>>
      /\ stage' = "transportStop" => ~api
      /\ stage' = "over" => stage = "transportStop"
      /\ stage' = "cleanup" => stage = "tasksEnd"
      /\ stage' # "tasksEnd"
  BY DEF TickEnds, Finally, server
<1> QED
  BY <1>1, <1>2, <1>3, ClientsKept

LEMMA SocketsClosedKeeps == LifecycleIInv /\ SocketsClosed => LifecycleIInv'
BY ClientsKept
   DEF LifecycleIInv, TypeOK, StageOK, SocketsClosed, main, server, conns, Stages, Up

LEMMA TasksEndKeeps == LifecycleIInv /\ TasksEnd => LifecycleIInv'
<1> SUFFICES ASSUME LifecycleIInv, TasksEnd PROVE LifecycleIInv'
  OBVIOUS
<1>1. TypeOK'
  BY DEF LifecycleIInv, TypeOK, TasksEnd, server, conns, Stages
<1>2. StageOK'
  BY DEF LifecycleIInv, StageOK, TasksEnd, server, Up
<1>3. /\ UNCHANGED <<api, interrupted, known, conns>>
      /\ stage' = "transportStop" => ~api
      /\ stage' = "over" => stage = "transportStop"
      /\ stage' = "cleanup" => stage = "tasksEnd"
      /\ stage' # "tasksEnd"
  BY DEF TasksEnd, server
<1> QED
  BY <1>1, <1>2, <1>3, ClientsKept

LEMMA TransportStopsKeeps == LifecycleIInv /\ TransportStops => LifecycleIInv'
<1> SUFFICES ASSUME LifecycleIInv, TransportStops PROVE LifecycleIInv'
  OBVIOUS
<1>1. TypeOK'
  BY DEF LifecycleIInv, TypeOK, TransportStops, server, conns, Stages
<1>2. StageOK'
  BY DEF LifecycleIInv, StageOK, TransportStops, server, Up
<1>3. /\ UNCHANGED <<api, interrupted, known, conns>>
      /\ stage' = "transportStop" => ~api
      /\ stage' = "over" => stage = "transportStop"
      /\ stage' = "cleanup" => stage = "tasksEnd"
      /\ stage' # "tasksEnd"
  BY DEF TransportStops, server
<1> QED
  BY <1>1, <1>2, <1>3, ClientsKept

(* stop() up to its first await: whom it finds, it tells. *)
LEMMA ServerStopsKeeps == LifecycleIInv /\ ServerStops => LifecycleIInv'
<1> SUFFICES ASSUME LifecycleIInv, ServerStops PROVE LifecycleIInv'
  OBVIOUS
<1>1. TypeOK'
  BY DEF LifecycleIInv, TypeOK, ServerStops, RefuseFrom, Reached, Sockets, Recorded, Stages, Codes, GoingAway
<1>2. StageOK'
  BY DEF LifecycleIInv, StageOK, ServerStops, RefuseFrom, Up
<1>3. ASSUME NEW c \in Clients PROVE ClientOK(c)'
  <2>1. /\ UNCHANGED <<api, handler, writer, closer, frame, said, socket>>
        /\ known' = Sockets /\ stage' = "gather"
        /\ code'[c] = IF c \in Sockets THEN Recorded(c, GoingAway) ELSE code[c]
        /\ stopper'[c] = IF c \in Sockets THEN "ready" ELSE "none"
    BY DEF ServerStops, Reached
  <2>2. ClientOK(c) /\ (handler[c] = "refusing" => WsClosed(c))
    BY DEF LifecycleIInv, TypeOK, ClientOK, HandlerOK, WsClosed
  <2> QED
    BY <2>1, <2>2
     DEF ClientOK, HandlerOK, KnownOK, GoneOK, FrameOK, WsClosed, Sockets, Recorded, Open, GoingAway,
         Abnormal, Normal, Unacceptable, PolicyViolation, InternalError, TooSlow
<1> QED
  BY <1>1, <1>2, <1>3 DEF LifecycleIInv

(* Cancelling the handlers leaves no socket open, and none without a code. *)
LEMMA CancelledClients ==
    ASSUME LifecycleIInv, NEW c \in Clients, NEW closers, CancelHandlers(closers)
    PROVE  /\ handler'[c] \in HandlerStages \ {"prepare", "reading", "refusing"}
           /\ handler[c] \in {"none", "refused"} <=> handler'[c] \in {"none", "refused"}
           /\ handler[c] \in {"none", "refused"} => handler'[c] = handler[c] /\ code'[c] = code[c]
           /\ handler[c] \notin {"none", "refused"} => code'[c] # Open
           /\ code[c] # Open => code'[c] = code[c]
           /\ code'[c] \in {code[c], Abnormal}
           /\ socket'[c] = IF socket[c] = "open" THEN "closed" ELSE socket[c]
BY DEF LifecycleIInv, TypeOK, ClientOK, HandlerOK, CancelHandlers, Recorded, HandlerStages, Open, Abnormal

LEMMA CleanedUpKeeps == LifecycleIInv /\ CleanedUp => LifecycleIInv'
<1> SUFFICES ASSUME LifecycleIInv, CleanedUp PROVE LifecycleIInv'
  OBVIOUS
<1>1. StageOK'
  BY DEF LifecycleIInv, StageOK, CleanedUp, server, Up
<1>2. /\ UNCHANGED <<api, interrupted, known, writer, stopper, frame, said>>
      /\ stage = "cleanup" /\ stage' = "transportStop"
  BY DEF CleanedUp, server
<1>3. CASE HandlersOver
  <2>1. UNCHANGED <<handler, code, closer, socket>>
    BY <1>3 DEF CleanedUp
  <2>2. TypeOK'
    BY <2>1 DEF LifecycleIInv, TypeOK, CleanedUp, server, Stages
  <2>3. ASSUME NEW c \in Clients PROVE ClientOK(c)'
    BY <1>2, <1>3, <2>1
       DEF LifecycleIInv, StageOK, ClientOK, HandlerOK, KnownOK, GoneOK, FrameOK, WsClosed, HandlersOver
  <2> QED
    BY <1>1, <2>2, <2>3 DEF LifecycleIInv
<1>4. CASE ~HandlersOver
  <2> DEFINE closers == [c \in Clients |-> IF handler[c] = "awaitCloser" THEN "done" ELSE closer[c]]
  <2>1. CancelHandlers(closers) /\ closer' = closers
    BY <1>4 DEF CleanedUp, CancelHandlers
  <2>2. TypeOK'
    BY <1>2, <2>1 DEF LifecycleIInv, TypeOK, CleanedUp, CancelHandlers, Recorded, server, Stages, HandlerStages,
                      Codes, Abnormal
  <2>3. ASSUME NEW c \in Clients PROVE ClientOK(c)'
    <3>1. closer[c] = "none" /\ handler[c] = "none" => closer'[c] = "none"
      BY <2>1
    <3> HIDE DEF closers
    <3>2. /\ handler'[c] \in HandlerStages \ {"prepare", "reading", "refusing"}
          /\ handler[c] \in {"none", "refused"} <=> handler'[c] \in {"none", "refused"}
          /\ handler[c] \in {"none", "refused"} => handler'[c] = handler[c] /\ code'[c] = code[c]
          /\ handler[c] \notin {"none", "refused"} => code'[c] # Open
          /\ code[c] # Open => code'[c] = code[c]
          /\ code'[c] \in {code[c], Abnormal}
          /\ socket'[c] = IF socket[c] = "open" THEN "closed" ELSE socket[c]
      BY <2>1, CancelledClients
    <3>3. ClientOK(c) /\ stopper[c] \in {"none", "done"} /\ socket[c] \in {"none", "open", "closed"}
      BY <1>2 DEF LifecycleIInv, TypeOK, ClientOK, KnownOK
    <3>4. HandlerOK(c)'
      BY <1>2, <3>1, <3>2, <3>3 DEF ClientOK, HandlerOK, HandlerStages
    <3>5. KnownOK(c)' /\ FrameOK(c)'
      BY <1>2, <3>2, <3>3
       DEF ClientOK, KnownOK, FrameOK, WsClosed, Open, Normal, Unacceptable, GoingAway, PolicyViolation,
           InternalError, TooSlow
    <3>6. GoneOK(c)'
      BY <1>2, <3>2, <3>3 DEF GoneOK
    <3> QED
      BY <3>4, <3>5, <3>6 DEF ClientOK
  <2> QED
    BY <1>1, <2>2, <2>3 DEF LifecycleIInv
<1> QED
  BY <1>3, <1>4

LEMMA InterruptedKeeps == LifecycleIInv /\ Interrupted => LifecycleIInv'
<1> SUFFICES ASSUME LifecycleIInv, Interrupted PROVE LifecycleIInv'
  OBVIOUS
<1> DEFINE closers == [c \in Clients |-> IF closer[c] = "none" THEN "none" ELSE "done"]
<1>1. StageOK'
  BY DEF LifecycleIInv, StageOK, Interrupted, Up
<1>2. /\ UNCHANGED <<api, known, writer, frame, said>>
      /\ stage' = "over" /\ interrupted' = TRUE
      /\ stopper' = [c \in Clients |-> IF stopper[c] = "none" THEN "none" ELSE "done"]
      /\ CancelHandlers(closers) /\ closer' = closers
  BY DEF Interrupted, CancelHandlers
<1>3. TypeOK'
  <2>1. /\ handler' \in [Clients -> HandlerStages]
        /\ code' \in [Clients -> Codes \cup ClientCodes]
        /\ socket' \in [Clients -> {"none", "open", "closed"}]
    BY <1>2 DEF LifecycleIInv, TypeOK, CancelHandlers, Recorded, HandlerStages, Codes, Abnormal
  <2>2. /\ closer' \in [Clients -> {"none", "waiting", "closing", "done"}]
        /\ stopper' \in [Clients -> {"none", "ready", "closing", "done"}]
    BY <1>2
  <2>3. /\ {api, interrupted, stopEvent, signals, tick, bus, listening, tasks, stopping}' \subseteq BOOLEAN
        /\ stage' \in Stages
    BY DEF LifecycleIInv, TypeOK, Interrupted, Stages
  <2> QED
    BY <1>2, <2>1, <2>2, <2>3 DEF LifecycleIInv, TypeOK
<1>4. ASSUME NEW c \in Clients PROVE ClientOK(c)'
  <2>1. /\ closer[c] = "none" => closer'[c] = "none"
        /\ stopper'[c] = IF stopper[c] = "none" THEN "none" ELSE "done"
    BY <1>2
  <2> HIDE DEF closers
  <2> QED
    BY <1>2, <2>1, CancelledClients
     DEF LifecycleIInv, TypeOK, StageOK, ClientOK, HandlerOK, KnownOK, GoneOK, FrameOK, WsClosed,
         HandlerStages, Open, GoingAway, Abnormal, Normal, Unacceptable, PolicyViolation, InternalError,
         TooSlow
<1> QED
  BY <1>1, <1>3, <1>4 DEF LifecycleIInv

LEMMA StutterKeeps == LifecycleIInv /\ UNCHANGED vars => LifecycleIInv'
BY
 DEF LifecycleIInv, TypeOK, StageOK, ClientOK, HandlerOK, KnownOK, GoneOK, FrameOK, WsClosed, vars, main,
     server, conns

LEMMA StepKeeps == LifecycleIInv /\ [Next]_vars => LifecycleIInv'
<1> SUFFICES ASSUME LifecycleIInv, [Next]_vars PROVE LifecycleIInv'
  OBVIOUS
<1>1. CASE Run
  BY <1>1, PortBusyKeeps, ServerStartsKeeps, TransportFailsKeeps, TransportStartsKeeps, SignalKeeps,
     StoppedKeeps, TickEndsKeeps, ServerStopsKeeps, SocketsClosedKeeps, TasksEndKeeps, CleanedUpKeeps,
     TransportStopsKeeps, InterruptedKeeps
   DEF Run
<1>2. ASSUME NEW c \in Clients, Connection(c) PROVE LifecycleIInv'
  BY <1>2, ConnectKeeps, PreparedKeeps, PrepareFailsKeeps, PeerGoneKeeps, PublisherClosesKeeps,
     WriterEndsKeeps, DataMessageKeeps, ClientClosesKeeps, ReadEndsKeeps, BadFrameKeeps, RefusalEndsKeeps,
     GraceEndsKeeps, HandlerEndsKeeps, CloserWakesKeeps, StopperRunsKeeps, CloseReturnsKeeps,
     CloseTimesOutKeeps
   DEF Connection
<1>3. CASE UNCHANGED vars
  BY <1>3, StutterKeeps
<1> QED
  BY <1>1, <1>2, <1>3 DEF Next

THEOREM LifecycleInvariant == Spec => []LifecycleIInv
BY InitIsRight, StepKeeps, PTL DEF Spec

(* What run() and ApiServer start is stopped, in order, and with every client *)
(* told, whether a start failed, a client stalled or a handshake was under    *)
(* way (app.py, run; api/server.py, start and stop).                          *)
THEOREM WhatIsStartedIsStopped == Spec => []LifecycleInv
BY LifecycleInvariant, InvariantSuffices, PTL

(* The code of a close frame and the one in the ledger differ only when the   *)
(* publisher or stop() decided a code and another was quicker to the socket,  *)
(* when the client itself closed, so that its code is recorded and 1000 sent, *)
(* or when aiohttp refused what it sent (api/server.py, _events, stop and      *)
(* _close_when_closed).                                                        *)
THEOREM FramesAreNearlyRecorded == Spec => []FrameNearlyRecorded
BY LifecycleInvariant, InvariantSuffices, PTL
=============================================================================
