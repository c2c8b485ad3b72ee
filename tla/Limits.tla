-------------------------------- MODULE Limits --------------------------------
(***************************************************************************)
(* observe/limits.py: every limit of the observer in one place, and the    *)
(* sizes the byte limits are about.                                        *)
(***************************************************************************)
EXTENDS Integers

CONSTANTS
    HandOffMaxRecords,  \* HANDOFF_MAX_RECORDS
    HandOffMaxBytes,    \* HANDOFF_MAX_BYTES
    HistoryMaxEvents,   \* HISTORY_MAX_EVENTS
    HistoryMaxBytes,    \* HISTORY_MAX_BYTES
    ExchangesMaxLimit,  \* EXCHANGES_MAX_LIMIT
    ClientMaxMessages,  \* CLIENT_MAX_MESSAGES
    ClientMaxBytes,     \* CLIENT_MAX_BYTES
    MaxClients,         \* MAX_CLIENTS
    OverflowDisconnect, \* OVERFLOW_DISCONNECT_S, in ticks of the model's clock
    MaxIssued,          \* bound: the exchanges the dispatcher handles
    RecordSize,         \* request and response bytes of each exchange
    TextSize            \* encoded bytes of the event of each exchange

(* An exchange is its sequence number: ObservedDispatcher numbers from 1. *)
Exchanges == 1..MaxIssued

ASSUME LimitsAssumption ==
    /\ HandOffMaxRecords \in Nat
    /\ HandOffMaxBytes \in Nat
    /\ HistoryMaxEvents \in Nat \ {0}
    /\ HistoryMaxBytes \in Nat
    /\ ExchangesMaxLimit \in Nat \ {0}
    /\ ClientMaxMessages \in Nat
    /\ ClientMaxBytes \in Nat
    /\ MaxClients \in Nat
    /\ OverflowDisconnect \in Nat
    /\ MaxIssued \in Nat
    /\ RecordSize \in [Exchanges -> Nat]
    /\ TextSize \in [Exchanges -> Nat]

(* Both are 500: an answer holds all of the ring, so since(after) never has to *)
(* leave out the newest of what comes after.                                    *)
ASSUME AnswerHoldsRing == HistoryMaxEvents <= ExchangesMaxLimit
=============================================================================
