----------------------------- MODULE ReplyChannel -----------------------------
(***************************************************************************)
(* What the ISO-TP transport promises about the replies of one socket:     *)
(* they leave in the order in which the handler returned them, each at     *)
(* most once.  A reply may be lost, and a lost one holds up none of those  *)
(* behind it.                                                              *)
(***************************************************************************)
EXTENDS Naturals, Sequences

CONSTANTS
    Sockets,
    Replies

VARIABLES
    accepted,   \* socket -> the replies handed to it, in order
    settled,    \* socket -> how many of them were sent or lost
    sent        \* socket -> the replies sent, in order

channel == <<accepted, settled, sent>>

ChannelInit ==
    /\ accepted = [s \in Sockets |-> << >>]
    /\ settled = [s \in Sockets |-> 0]
    /\ sent = [s \in Sockets |-> << >>]

(* A socket takes at most one more reply and settles the next few: of these, *)
(* some are sent, in the order in which they were handed to it.              *)
Serve(s) ==
    /\ \E more \in {<< >>} \union {<<r>> : r \in Replies} : accepted'[s] = accepted[s] \o more
    /\ settled'[s] \in settled[s]..Len(accepted'[s])
    /\ \E n \in 0..settled'[s] - settled[s] : \E place \in [1..n -> settled[s] + 1 .. settled'[s]] :
           /\ \A j, k \in 1..n : j < k => place[j] < place[k]
           /\ sent'[s] = sent[s] \o [k \in 1..n |-> accepted'[s][place[k]]]

ChannelSpec == ChannelInit /\ [][\A s \in Sockets : Serve(s)]_channel
=============================================================================
