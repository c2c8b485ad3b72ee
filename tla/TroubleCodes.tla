------------------------------ MODULE TroubleCodes ------------------------------
(***************************************************************************)
(* dtc/store.py and dtc/codes.py, with the framing of protocols/base.py: an *)
(* ECU's trouble codes, and the bytes both protocols make of them.  A code *)
(* is <<group, type, number>>, P0123 being <<0, 0, 16#123>>; a store is    *)
(* the sequence of its entries in configuration order; a reply that is not *)
(* sent is the empty sequence.                                             *)
(***************************************************************************)
EXTENDS Naturals, Sequences, SequencesExt, Places

Flags == {"pending", "confirmed", "indicator_requested"}

NoReply == << >>

(* DtcStore.clear: flags are reset, codes stay. *)
Cleared(store) == [i \in DOMAIN store |-> [store[i] EXCEPT !.flags = {}]]

(* DtcStore.update, of one flag of one code. *)
Raised(store, code, flag) ==
    [i \in DOMAIN store |-> IF store[i].code = code THEN [store[i] EXCEPT !.flags = @ \cup {flag}] ELSE store[i]]

(* DtcStore.update with every flag false. *)
ClearedCode(store, code) ==
    [i \in DOMAIN store |-> IF store[i].code = code THEN [store[i] EXCEPT !.flags = {}] ELSE store[i]]

(* DtcStore.confirmed. *)
Confirmed(store) == InOrder(store, {i \in DOMAIN store : "confirmed" \in store[i].flags})

(* code_number, as its two bytes. *)
CodeBytes(code) ==
    LET number == code[1] * 16384 + code[2] * 4096 + code[3]
    IN  <<number \div 256, number % 256>>

PositiveSid(sid) == sid + \h40
NegativeSid == \h7F
Negative(sid, nrc) == <<NegativeSid, sid, nrc>>

NotSupported == \h11
SubFunctionNotSupported == \h12
BadLength == \h13
OutOfRange == \h31

Bit(byte, k) == (byte \div 2^k) % 2 = 1
=============================================================================
