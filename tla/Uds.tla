---------------------------------- MODULE Uds ----------------------------------
(***************************************************************************)
(* protocols/uds: the services 10, 11, 14, 19 and 3E, what UdsProtocol     *)
(* answers to a payload, given the trouble codes of its ECU, and whether    *)
(* the codes are cleared.                                                   *)
(***************************************************************************)
EXTENDS TroubleCodes

SessionControl == \h10
EcuReset == \h11
ClearInformation == \h14
ReadInformation == \h19
TesterPresent == \h3E
(* SERVICE_IDS. *)
UdsSids == {SessionControl, EcuReset, ClearInformation, ReadInformation, TesterPresent}

(* SUB_FUNCTION_SERVICES. *)
SubFunctionServices == UdsSids \ {ClearInformation}

SessionTypes == 1..4
ResetTypes == 1..5
RapidPowerShutDown == 4
PowerDownTime == \h0F
SessionParameters == <<0, \h1E, \h0B, \hB8>>
AllGroups == <<255, 255, 255>>

(* status_byte, and the mask of the bits it can set. *)
StatusByte(flags) ==
    (IF "pending" \in flags THEN 4 ELSE 0) + (IF "confirmed" \in flags THEN 8 ELSE 0)
    + (IF "indicator_requested" \in flags THEN 128 ELSE 0)

AvailabilityMask == \h8C

(* Mutant of Shares: every bit of the mask has to match. *)
SharesAll(status, mask) == mask # 0 /\ \A k \in 0..7 : Bit(mask, k) => Bit(status, k)

(* DtcRegistry.read: a record is reported when it shares a bit with the mask. *)
Shares(status, mask) == \E k \in 0..7 : Bit(status, k) /\ Bit(mask, k)

(* DtcRecord, as bytes. *)
Record(s) == CodeBytes(s.code) \o <<1, StatusByte(s.flags)>>

(* DtcStoreProvider.dtc_records, read with a mask, as bytes. *)
Records(store, mask) ==
    LET reported == InOrder(store, {i \in DOMAIN store : Shares(StatusByte(store[i].flags), mask)})
    IN  FlattenSeq([i \in DOMAIN reported |-> Record(reported[i])])
-----------------------------------------------------------------------------
SessionReply(p) ==
    CASE Len(p) # 2 -> Negative(SessionControl, BadLength)
      [] Len(p) = 2 /\ p[2] \notin SessionTypes -> Negative(SessionControl, SubFunctionNotSupported)
      [] OTHER -> <<PositiveSid(SessionControl), p[2]>> \o SessionParameters

ResetReply(p) ==
    CASE Len(p) # 2 -> Negative(EcuReset, BadLength)
      [] Len(p) = 2 /\ p[2] \notin ResetTypes -> Negative(EcuReset, SubFunctionNotSupported)
      [] OTHER -> <<PositiveSid(EcuReset), p[2]>> \o (IF p[2] = RapidPowerShutDown THEN <<PowerDownTime>> ELSE << >>)

(* _clear_diagnostic_information reaches DtcStore.clear. *)
Clears(p) == p[1] = ClearInformation /\ Len(p) = 4 /\ SubSeq(p, 2, 4) = AllGroups

ClearReply(p) ==
    CASE Len(p) # 4 -> Negative(ClearInformation, BadLength)
      [] Len(p) = 4 /\ SubSeq(p, 2, 4) # AllGroups -> Negative(ClearInformation, OutOfRange)
      [] OTHER -> <<PositiveSid(ClearInformation)>>

ReadReply(p, store) ==
    CASE Len(p) < 2 -> Negative(ReadInformation, BadLength)
      [] Len(p) >= 2 /\ p[2] # 2 -> Negative(ReadInformation, SubFunctionNotSupported)
      [] Len(p) >= 2 /\ p[2] = 2 /\ Len(p) # 3 -> Negative(ReadInformation, BadLength)
      [] OTHER -> <<PositiveSid(ReadInformation), p[2], AvailabilityMask>> \o Records(store, p[3])

PresentReply(p) ==
    CASE Len(p) < 2 -> Negative(TesterPresent, BadLength)
      [] Len(p) >= 2 /\ p[2] # 0 -> Negative(TesterPresent, SubFunctionNotSupported)
      [] Len(p) > 2 /\ p[2] = 0 -> Negative(TesterPresent, BadLength)
      [] OTHER -> <<PositiveSid(TesterPresent), p[2]>>

(* UdsProtocol._serve. *)
Serve(p, store) ==
    CASE p[1] = SessionControl -> SessionReply(p)
      [] p[1] = EcuReset -> ResetReply(p)
      [] p[1] = ClearInformation -> ClearReply(p)
      [] p[1] = ReadInformation -> ReadReply(p, store)
      [] p[1] = TesterPresent -> PresentReply(p)

HasSubFunction(p) == p[1] \in SubFunctionServices /\ Len(p) > 1

SuppressBit(p) == HasSubFunction(p) /\ p[2] >= 128

(* UdsProtocol.handle, the bit masked off before the service sees the byte. *)
Masked(p) == IF HasSubFunction(p) THEN [p EXCEPT ![2] = @ % 128] ELSE p

(* Mutant of Withheld: whatever the service answered is withheld. *)
WithheldAlways(p, reply) == SuppressBit(p)

(* UdsProtocol.handle: a positive response is withheld, a negative one never. *)
Withheld(p, reply) == SuppressBit(p) /\ reply[1] # NegativeSid

UdsReply(p, store) ==
    LET reply == Serve(Masked(p), store)
    IN  IF Withheld(p, reply) THEN NoReply ELSE reply
=============================================================================
