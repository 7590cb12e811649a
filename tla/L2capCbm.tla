------------------------------ MODULE L2capCbm ------------------------------
(***************************************************************************)
(* An L2CAP channel in LE credit-based flow control mode (src/l2cap.c)     *)
(* between two devices that run this code: connection, SDUs sent as PDUs   *)
(* against credits, credit indications and disconnection.                  *)
(*                                                                         *)
(* A function of l2cap.c is an operator on the record of one device; an    *)
(* API call, a received packet or TRANSPORT_PACKET_SENT is one step,       *)
(* l2cap_run included.  A device can send again after TRANSPORT_PACKET_    *)
(* SENT.  The LE link delivers everything in order.  An SDU is a sequence  *)
(* of pieces of MPS octets; the length field is the number of pieces.      *)
(***************************************************************************)
EXTENDS Integers, SequencesExt, Totals

CONSTANTS
    A, B,          \* initiator and acceptor
    CreditMod,     \* 2^16, credits count modulo
    Watermark,     \* ..._AUTOMATIC_CREDITS_WATERMARK
    Increment,     \* ..._AUTOMATIC_CREDITS_INCREMENT
    InitialCredits,\* credits each application may give at the start
    MaxProvided,   \* bound on the credits an application tops up to
    MaxPieces,     \* bound on the pieces of an SDU
    MaxSdus        \* bound on the SDUs both devices send

Sides == {A, B}
Peer(x) == IF x = A THEN B ELSE A

Automatic == CreditMod - 1     \* L2CAP_LE_AUTOMATIC_CREDITS

ASSUME SideAssumption == A # B
ASSUME CreditAssumption ==
    /\ CreditMod \in Nat \ {0}
    /\ Watermark \in Nat \ {0} /\ Increment \in Nat \ {0}
    /\ Watermark + Increment <= CreditMod
    /\ InitialCredits \in [Sides -> SUBSET (0..(CreditMod - 1))]
ASSUME CbmBoundAssumption ==
    /\ MaxProvided \in Nat /\ MaxProvided < CreditMod
    /\ MaxPieces \in Nat /\ MaxSdus \in Nat

VARIABLES
    ch,         \* the channel of each device, see Channel
    wire,       \* packets on their way from each device
    submitted,  \* auxiliary: SDUs accepted by l2cap_send
    delivered,  \* auxiliary: SDUs of a device its peer's application got
    asked       \* auxiliary: l2cap_disconnect was called

vars == << ch, wire, submitted, delivered, asked >>

Credits == 0..(CreditMod - 1)

\* The pieces of the k-th SDU of a device are numbered.
Piece == (1..MaxSdus) \X (1..MaxPieces)
NewSdu(k, n) == [i \in 1..n |-> << k, i >>]
Sdu == { NewSdu(k, n) : k \in 1..MaxSdus, n \in 1..MaxPieces }

States == {"none", "will_request", "wait_response", "wait_accept",
           "will_accept", "will_decline", "open", "will_disconnect",
           "wait_disconnect", "will_answer", "closed"}

Channel ==
    [ state  : States,
      in     : Credits,     \* credits_incoming
      new    : Credits,     \* new_credits_incoming
      auto   : BOOLEAN,     \* automatic_credits
      out    : Credits,     \* credits_outgoing
      sdu    : Sdu \cup {<< >>},    \* send_sdu_buffer, << >> if NULL
      pos    : 0..MaxPieces,        \* pieces of it that were sent
      rlen   : 0..MaxPieces,        \* receive_sdu_len
      rbuf   : Seq(Piece),          \* receive_sdu_buffer
      busy   : BOOLEAN,     \* ~hci_can_send_acl_packet_now
      notify : BOOLEAN,     \* l2cap_call_notify_channel_in_run
      out_q  : {<< >>} ]    \* sent in this step, nothing between steps

Signals == {"request", "accept", "decline", "credits", "disconnect", "answer"}

Packet == [type : {"pdu"}, len : 0..MaxPieces, piece : Piece]
            \cup [type : Signals, n : Credits]

CbmTypeOK ==
    /\ ch \in [Sides -> Channel]
    /\ \A x \in Sides : ch[x].pos <= Len(ch[x].sdu) /\ Len(ch[x].rbuf) <= ch[x].rlen
    /\ wire \in [Sides -> Seq(Packet)]
    /\ submitted \in [Sides -> Seq(Sdu)] /\ delivered \in [Sides -> Seq(Sdu)]
    /\ asked \in BOOLEAN

-----------------------------------------------------------------------------
(* l2cap.c: sending *)

Transmit(s, p) == [s EXCEPT !.busy = TRUE, !.out_q = Append(@, p)]

Pdu(len, piece) == [type |-> "pdu", len |-> len, piece |-> piece]
Signal(t, n)    == [type |-> t, n |-> n]

\* Mutant: the credits are not looked at.
MutantReadyToSend(s) == s.state = "open" /\ s.sdu # << >> /\ ~s.busy

\* l2cap_channel_ready_to_send, case L2CAP_CHANNEL_TYPE_CHANNEL_CBM
ReadyToSend(s) ==
    s.state = "open" /\ s.sdu # << >> /\ s.out > 0 /\ ~s.busy

\* l2cap_credit_based_send_pdu: the first PDU carries the length of the SDU;
\* the buffer is given up with the last one.
SendPdu(s) ==
    LET done == s.pos + 1 = Len(s.sdu)
        len  == IF s.pos = 0 THEN Len(s.sdu) ELSE 0
    IN  Transmit([s EXCEPT !.out = @ - 1,
                           !.sdu = IF done THEN << >> ELSE @,
                           !.pos = IF done THEN 0 ELSE @ + 1],
                 Pdu(len, s.sdu[s.pos + 1]))

\* l2cap_notify_channel_can_send; after one PDU the device is busy.
NotifyCanSend(s) == IF ReadyToSend(s) THEN SendPdu(s) ELSE s

\* Mutant: the credits sent are not expected back.
MutantSendCredits(s) == Transmit([s EXCEPT !.new = 0], Signal("credits", s.new))

\* l2cap_credit_based_send_credits
SendCredits(s) ==
    Transmit([s EXCEPT !.new = 0, !.in = (@ + s.new) % CreditMod],
             Signal("credits", s.new))

\* l2cap_cbm_run_channel
RunChannel(s) ==
    CASE s.state = "will_request" ->
            Transmit([s EXCEPT !.state = "wait_response", !.in = s.new, !.new = 0],
                     Signal("request", s.new))
      [] s.state = "will_accept" ->
            Transmit([s EXCEPT !.state = "open", !.in = s.new, !.new = 0],
                     Signal("accept", s.new))
      [] s.state = "will_decline" ->
            Transmit([s EXCEPT !.state = "closed"], Signal("decline", 0))
      [] s.state = "open" /\ s.new > 0 -> SendCredits(s)
      [] s.state = "will_disconnect" ->
            Transmit([s EXCEPT !.state = "wait_disconnect"], Signal("disconnect", 0))
      [] s.state = "will_answer" ->
            Transmit([s EXCEPT !.state = "closed"], Signal("answer", 0))
      [] OTHER -> s

\* l2cap_run: l2cap_cbm_run_channels, then the notification if it was asked for.
Run(s) ==
    LET r == IF s.busy THEN s ELSE RunChannel(s)
    IN  IF r.notify THEN NotifyCanSend([r EXCEPT !.notify = FALSE]) ELSE r

-----------------------------------------------------------------------------
(* l2cap.c: receiving *)

\* Mutant: new credits do not wake up the sender.
MutantHandleCredits(s, n) ==
    LET sum == (s.out + n) % CreditMod
    IN  IF s.out > sum THEN [s EXCEPT !.out = sum, !.state = "will_disconnect"]
        ELSE [s EXCEPT !.out = sum]

\* l2cap_credit_based_handle_credit_indication
HandleCredits(s, n) ==
    LET sum == (s.out + n) % CreditMod
    IN  IF s.out > sum THEN [s EXCEPT !.out = sum, !.state = "will_disconnect"]
        ELSE [s EXCEPT !.out = sum, !.notify = TRUE]

\* The credit counting at the start of l2cap_credit_based_handle_pdu
CountPdu(s) ==
    LET in == s.in - 1
    IN  [s EXCEPT !.in = in,
                  !.new = IF in < Watermark /\ s.auto THEN Increment ELSE @]

\* Mutant: a complete SDU leaves its octets in the buffer.
MutantHandlePdu(s, p) ==
    IF s.in = 0 THEN [s EXCEPT !.state = "will_disconnect"]
    ELSE LET c    == CountPdu(s)
             len  == IF c.rlen = 0 THEN p.len ELSE c.rlen
             rbuf == Append(c.rbuf, p.piece)
         IN  IF Len(rbuf) > len THEN [c EXCEPT !.state = "will_disconnect"]
             ELSE IF Len(rbuf) = len THEN [c EXCEPT !.rlen = 0, !.rbuf = rbuf]
             ELSE [c EXCEPT !.rlen = len, !.rbuf = rbuf]

\* The rest of l2cap_credit_based_handle_pdu; a complete SDU leaves rlen = 0.
HandlePdu(s, p) ==
    IF s.in = 0 THEN [s EXCEPT !.state = "will_disconnect"]
    ELSE LET c    == CountPdu(s)
             len  == IF c.rlen = 0 THEN p.len ELSE c.rlen
             rbuf == Append(c.rbuf, p.piece)
         IN  IF Len(rbuf) > len THEN [c EXCEPT !.state = "will_disconnect"]
             ELSE IF Len(rbuf) = len THEN [c EXCEPT !.rlen = 0, !.rbuf = << >>]
             ELSE [c EXCEPT !.rlen = len, !.rbuf = rbuf]

\* The SDU that this PDU completes, if any.
Dispatched(s, p) ==
    LET len == IF s.rlen = 0 THEN p.len ELSE s.rlen
    IN  IF s.in > 0 /\ Len(s.rbuf) + 1 = len THEN << Append(s.rbuf, p.piece) >>
        ELSE << >>

\* Mutant: a request that crosses the own one is not answered.
MutantHandle(s, p) ==
    IF p.type = "request" THEN [s EXCEPT !.state = "wait_accept", !.out = p.n]
    ELSE IF s.state = "closed" THEN s
    ELSE CASE p.type = "accept"  -> [s EXCEPT !.state = "open", !.out = p.n]
           [] p.type = "decline" -> [s EXCEPT !.state = "closed"]
           [] p.type = "credits" -> HandleCredits(s, p.n)
           [] p.type = "pdu"     -> HandlePdu(s, p)
           [] p.type = "disconnect" ->
                 IF s.state = "open" THEN [s EXCEPT !.state = "will_answer"] ELSE s
           [] p.type = "answer" ->
                 IF s.state = "wait_disconnect" THEN [s EXCEPT !.state = "closed"] ELSE s

\* The cases of l2cap_le_signaling_handler and of l2cap_acl_le_handler.  A
\* closed channel is not in the list and ignores what comes; there is no
\* disconnection request to it between two devices of this kind.
Handle(s, p) ==
    IF p.type = "request" THEN [s EXCEPT !.state = "wait_accept", !.out = p.n]
    ELSE IF s.state = "closed" THEN s
    ELSE CASE p.type = "accept"  -> [s EXCEPT !.state = "open", !.out = p.n]
           [] p.type = "decline" -> [s EXCEPT !.state = "closed"]
           [] p.type = "credits" -> HandleCredits(s, p.n)
           [] p.type = "pdu"     -> HandlePdu(s, p)
           [] p.type = "disconnect" -> [s EXCEPT !.state = "will_answer"]
           [] p.type = "answer" ->
                 IF s.state = "wait_disconnect" THEN [s EXCEPT !.state = "closed"] ELSE s

-----------------------------------------------------------------------------
(* Steps *)

Finish(x, s) ==
    /\ ch' = [ch EXCEPT ![x] = [s EXCEPT !.out_q = << >>]]
    /\ wire' = [wire EXCEPT ![x] = @ \o s.out_q]

Give(s, c) == [s EXCEPT !.new = c, !.auto = (c = Automatic)]

\* l2cap_cbm_create_channel, the security level is sufficient
CreateChannel(c) ==
    /\ ch[A].state = "none"
    /\ Finish(A, Run(Give([ch[A] EXCEPT !.state = "will_request"], c)))
    /\ UNCHANGED << submitted, delivered, asked >>

\* l2cap_cbm_accept_connection
AcceptConnection(c) ==
    /\ ch[B].state = "wait_accept"
    /\ Finish(B, Run(Give([ch[B] EXCEPT !.state = "will_accept"], c)))
    /\ UNCHANGED << submitted, delivered, asked >>

\* l2cap_cbm_decline_connection
DeclineConnection ==
    /\ ch[B].state = "wait_accept"
    /\ Finish(B, Run([ch[B] EXCEPT !.state = "will_decline"]))
    /\ UNCHANGED << submitted, delivered, asked >>

\* l2cap_send, l2cap_credit_based_send_data
Send(x) ==
    /\ ch[x].state = "open" /\ ch[x].sdu = << >>
    /\ Len(submitted[A]) + Len(submitted[B]) < MaxSdus
    /\ \E n \in 1..MaxPieces :
        LET d == NewSdu(Len(submitted[x]) + 1, n)
        IN  /\ submitted' = [submitted EXCEPT ![x] = Append(@, d)]
            /\ Finish(x, NotifyCanSend([ch[x] EXCEPT !.sdu = d, !.pos = 0]))
    /\ UNCHANGED << delivered, asked >>

\* l2cap_cbm_provide_credits; a total beyond 16 bits is only logged, the
\* application has to avoid it.
ProvideCredits(x) ==
    /\ ch[x].state = "open" /\ ~ch[x].auto
    /\ ch[x].in + ch[x].new < MaxProvided
    /\ Finish(x, Run([ch[x] EXCEPT !.new = @ + 1]))
    /\ UNCHANGED << submitted, delivered, asked >>

\* l2cap_disconnect of an open channel
Disconnect(x) ==
    /\ ch[x].state = "open"
    /\ asked' = TRUE
    /\ Finish(x, Run([ch[x] EXCEPT !.state = "will_disconnect"]))
    /\ UNCHANGED << submitted, delivered >>

\* l2cap_acl_handler
Receive(x) ==
    LET w == Peer(x) IN
    /\ wire[w] # << >>
    /\ LET p == Head(wire[w])
           s == Run(Handle(ch[x], p))
       IN  /\ ch' = [ch EXCEPT ![x] = [s EXCEPT !.out_q = << >>]]
           /\ wire' = [wire EXCEPT ![w] = Tail(@), ![x] = @ \o s.out_q]
           /\ delivered' = [delivered EXCEPT ![w] = @ \o
                IF p.type = "pdu" /\ ch[x].state # "closed"
                THEN Dispatched(ch[x], p) ELSE << >>]
    /\ UNCHANGED << submitted, asked >>

\* HCI_EVENT_TRANSPORT_PACKET_SENT or NUMBER_OF_COMPLETED_PACKETS
PacketSent(x) ==
    /\ ch[x].busy
    /\ Finish(x, Run([ch[x] EXCEPT !.busy = FALSE, !.notify = TRUE]))
    /\ UNCHANGED << submitted, delivered, asked >>

Init ==
    /\ ch = [x \in Sides |->
              [ state |-> "none", in |-> 0, new |-> 0, auto |-> FALSE, out |-> 0,
                sdu |-> << >>, pos |-> 0, rlen |-> 0, rbuf |-> << >>,
                busy |-> FALSE, notify |-> FALSE, out_q |-> << >> ]]
    /\ wire = [x \in Sides |-> << >>]
    /\ submitted = [x \in Sides |-> << >>] /\ delivered = submitted
    /\ asked = FALSE

Next ==
    \/ \E c \in InitialCredits[A] : CreateChannel(c)
    \/ \E c \in InitialCredits[B] : AcceptConnection(c)
    \/ DeclineConnection
    \/ \E x \in Sides : \/ Send(x) \/ ProvideCredits(x) \/ Disconnect(x)
                        \/ Receive(x) \/ PacketSent(x)

\* The run loop of either device goes on handling what its transport reports.
Fairness == \A x \in Sides : WF_vars(Receive(x) \/ PacketSent(x))

Spec == Init /\ [][Next]_vars /\ Fairness

-----------------------------------------------------------------------------
(* Properties *)

\* The PDUs in w, and the credits in w, those that open the channel included
Pdus(w) == Total([i \in DOMAIN w |-> IF w[i].type = "pdu" THEN 1 ELSE 0])
Grants(w) == Total([i \in DOMAIN w |->
    IF w[i].type \in {"request", "accept", "credits"} THEN w[i].n ELSE 0])

\* No credit is lost or made up (credits_outgoing, credits_incoming and
\* new_credits_incoming of l2cap.c): what a device may still send, with the PDUs
\* and credits under way, is what its peer is prepared to receive.
CreditsConserved ==
    \A x \in Sides : ch[x].state = "open" /\ ch[Peer(x)].state = "open" =>
        ch[x].out + Pdus(wire[x]) + Grants(wire[Peer(x)]) = ch[Peer(x)].in

\* The state of a device as its application sees it.
Phase(x) ==
    CASE ch[x].state \in {"open", "will_disconnect", "wait_disconnect",
                          "will_answer"} -> "open"
      [] ch[x].state = "closed" -> "closed"
      [] OTHER -> "new"

Fifo == INSTANCE SduFifo WITH phase <- [x \in Sides |-> Phase(x)],
                              Sides <- Sides, Sdu <- Sdu

\* SDUs arrive whole, once and in order in both directions, and the devices
\* never close the channel on their own ("packet received but no incoming
\* credits", "new credits caused overrun").
ImplementsFifo == Fifo!FifoSpec

\* With automatic credits at the receiver an SDU is delivered, however short
\* of credits the sender was, unless the channel is closed.
SduDelivered ==
    \A x \in Sides :
        (Len(submitted[x]) > Len(delivered[x]) /\ ch[Peer(x)].auto)
            ~> (Len(submitted[x]) = Len(delivered[x]) \/ asked)

\* A disconnection ends at both devices, also when both ask for it.
DisconnectCompletes ==
    asked ~> \A x \in Sides : ch[x].state = "closed"

=============================================================================
