----------------------------- MODULE H5Channel -----------------------------
(***************************************************************************)
(* What the Three-Wire UART transport promises to the HCI layers above it: *)
(* in each direction a reliable channel that holds at most one packet      *)
(* whose sender has not yet been told TRANSPORT_PACKET_SENT.               *)
(***************************************************************************)
EXTENDS Naturals, Sequences

CONSTANT Side

VARIABLES
    sent,       \* packets handed over by each side (send_packet returned 0)
    given,      \* packets of each side the other side's upper layer was given
    confirmed   \* packets of each side reported as sent (TRANSPORT_PACKET_SENT)

chanVars == << sent, given, confirmed >>

Zero == [s \in Side |-> 0]

ChanInit ==
    /\ sent = Zero
    /\ given = [s \in Side |-> << >>]
    /\ confirmed = Zero

\* The next packet of s comes out at the other side.
Give(s) ==
    /\ Len(given[s]) < sent[s]
    /\ given' = [given EXCEPT ![s] = Append(@, Len(@) + 1)]

\* The packet of s that was given to the other side is reported as sent.
Confirm(s) ==
    /\ confirmed[s] < Len(given[s])
    /\ confirmed' = [confirmed EXCEPT ![s] = @ + 1]

\* s hands over its next packet, at once in the report of the one before it.
Submit(s) ==
    /\ sent[s] = confirmed'[s]
    /\ sent' = [sent EXCEPT ![s] = @ + 1]

(***************************************************************************)
(* One step of s: it may take a packet of its peer, which may carry the    *)
(* acknowledgement of its own, and it may hand over its next packet from   *)
(* inside either callback.                                                 *)
(***************************************************************************)
ChanStep(s, r) ==
    /\ Give(r) \/ given' = given
    /\ Confirm(s) \/ confirmed' = confirmed
    /\ Submit(s) \/ sent' = sent

ChanNext == \E s, r \in Side : s # r /\ ChanStep(s, r)

ChanSpec == ChanInit /\ [][ChanNext]_chanVars
=============================================================================
