----------------------------- MODULE L2capErtm -----------------------------
(***************************************************************************)
(* An open L2CAP channel in enhanced retransmission mode (src/l2cap.c)     *)
(* between two devices that run this code, over a link that may corrupt    *)
(* frames: a frame with a wrong FCS is dropped by its receiver.            *)
(*                                                                         *)
(* A function of l2cap.c is an operator on the record of one device; an    *)
(* API call, a received frame, a timeout or the report that the controller *)
(* has a free buffer is one step, l2cap_run included.  A device that gives *)
(* up leaves the open state and takes no further part: signaling is not    *)
(* modelled here.                                                          *)
(***************************************************************************)
EXTENDS Integers, SequencesExt

CONSTANTS
    A, B,          \* the two devices
    SeqModulus,    \* 64, sequence numbers count modulo
    NumTx,         \* num_tx_buffers
    Window,        \* remote_tx_window_size
    NumRx,         \* num_rx_buffers
    MaxTransmit,   \* remote_max_transmit
    AclBuffers,    \* packets the controller takes at a time
    MaxPieces,     \* frames needed for an SDU of remote_mtu octets
    RequestWhenFull, \* applications ask for CAN_SEND_NOW also when an SDU does
                   \* not fit into the buffers
    MaxSdus,       \* bound on the SDUs both devices send
    MaxFaults      \* bound on corrupted frames, timeouts while frames are still
                   \* under way, and calls of l2cap_ertm_set_busy, together

Sides == {A, B}
Peer(x) == IF x = A THEN B ELSE A

ASSUME ErtmAssumption ==
    /\ A # B
    /\ NumTx \in Nat \ {0} /\ NumRx \in Nat \ {0} /\ AclBuffers \in Nat \ {0}
    /\ Window \in Nat \ {0} /\ MaxPieces \in 1..NumTx
    /\ SeqModulus \in Nat /\ SeqModulus > NumTx + 1 /\ SeqModulus > Window
    /\ MaxTransmit \in Nat \ {0} /\ RequestWhenFull \in BOOLEAN
ASSUME ErtmBoundAssumption ==
    MaxSdus \in Nat /\ MaxFaults \in Nat

VARIABLES
    ch,         \* the channel of each device, see Channel
    wire,       \* frames on their way from each device
    submitted,  \* auxiliary: SDUs accepted by l2cap_send
    delivered,  \* auxiliary: SDUs of a device its peer's application got
    stored,     \* auxiliary: number of frames each device stored so far
    accepted,   \* auxiliary: number of frames its peer took in sequence
    faults      \* auxiliary: see MaxFaults

vars == << ch, wire, submitted, delivered, stored, accepted, faults >>

SeqNr == 0..(SeqModulus - 1)
TxIndex == 0..(NumTx - 1)
RxIndex == 0..(NumRx - 1)

\* The k-th SDU of a device consists of copies of k.
Sdu == { [i \in 1..n |-> k] : n \in 1..MaxPieces, k \in 1..MaxSdus }

\* A segment: its place in the SDU (SAR), the SDU length field of the first
\* of several segments, and its payload.
Segment == [sar : {"whole", "start", "continuation", "end"},
            len : 0..MaxPieces, piece : 0..MaxSdus]
NoSegment == [sar |-> "whole", len |-> 0, piece |-> 0]

Segments(d) ==
    [i \in DOMAIN d |->
        [sar   |-> IF Len(d) = 1 THEN "whole"
                   ELSE IF i = 1 THEN "start"
                   ELSE IF i = Len(d) THEN "end" ELSE "continuation",
         len   |-> IF i = 1 /\ Len(d) > 1 THEN Len(d) ELSE 0,
         piece |-> d[i]]]

Channel ==
    [ open    : BOOLEAN,
      tx      : [TxIndex -> [seq : SeqNr, state : {"new", "sent", "again"},
                             retry : 0..MaxTransmit, segment : Segment]],
      read    : TxIndex,        \* tx_read_index
      write   : TxIndex,        \* tx_write_index
      send    : TxIndex,        \* tx_send_index
      num     : 0..NumTx,       \* num_stored_tx_frames
      unacked : 0..NumTx,       \* unacked_frames
      next    : SeqNr,          \* next_tx_seq
      expect  : SeqNr,          \* expected_tx_seq
      req     : SeqNr,          \* req_seq
      rx      : [RxIndex -> [valid : BOOLEAN, segment : Segment]],
      store   : RxIndex,        \* rx_store_index
      rlen    : 0..MaxPieces,   \* reassembly_sdu_length
      rbuf    : Seq(Nat),       \* reassembly_buffer up to reassembly_pos
      flags   : SUBSET {"rr", "poll", "rnr", "rej", "srej"}, \* send_supervisor_frame_*
      final   : BOOLEAN,        \* set_final_bit_after_packet_with_poll_bit_set
      active  : BOOLEAN,        \* srej_active
      wait    : BOOLEAN,        \* tx_wait_for_final
      busy    : BOOLEAN,        \* local_busy
      waiting : BOOLEAN,        \* waiting_for_can_send_now
      retrans : BOOLEAN,        \* the retransmission timer is running
      monitor : BOOLEAN,        \* the monitor timer is running
      acl     : 0..AclBuffers,  \* packets the controller can still take
      out_q   : {<< >>} ]       \* sent in this step, nothing between steps
-----------------------------------------------------------------------------
(* l2cap.c: sending *)

CanSend(s) == s.acl > 0
Transmit(s, f) == [s EXCEPT !.acl = @ - 1, !.out_q = Append(@, f)]

SFrame(kind, poll, final, req) ==
    [type |-> kind, poll |-> poll, final |-> final, req |-> req]
IFrame(seq, final, req, segment) ==
    [type |-> "I", seq |-> seq, final |-> final, req |-> req, segment |-> segment]

\* l2cap_ertm_can_store_packet_now
CanStore(s) == MaxPieces <= NumTx - s.num

\* l2cap_ertm_notify_channel_can_send; what the application sends then is a
\* step of its own.
NotifyApplication(s) == [s EXCEPT !.waiting = @ /\ ~CanStore(s)]

\* Indices of the frames sent and not acknowledged
Unacknowledged(s) == { (s.read + k) % NumTx : k \in 0..(s.unacked - 1) }

\* l2cap_ertm_retransmit_unacknowledged_frames
Retransmit(s) ==
    [s EXCEPT !.send = s.read,
              !.tx = [i \in TxIndex |->
                        IF i \in Unacknowledged(s)
                        THEN [s.tx[i] EXCEPT !.state = "again"] ELSE s.tx[i]]]

\* l2cap_ertm_send_information_frame
SendInformationFrame(s, i, final) ==
    Transmit([s EXCEPT !.tx[i].state = "sent", !.retrans = TRUE],
             IFrame(s.tx[i].seq, final, s.req, s.tx[i].segment))

\* l2cap_ertm_channel_send_information_frame
ChannelSend(s) ==
    SendInformationFrame(
        [s EXCEPT !.unacked = @ + IF s.tx[s.send].state = "new" THEN 1 ELSE 0,
                  !.send = (@ + 1) % NumTx], s.send, FALSE)

\* Mutant: the transmit window of the peer is not respected.
MutantNotifyOnce(s) ==
    LET new   == s.unacked < s.num
        again == { k \in 0..(s.unacked - 1) :
                     s.tx[(s.read + k) % NumTx].state = "again" }
        t     == IF new \/ again = {} THEN s
                 ELSE [s EXCEPT !.send = (s.read + Min(again)) % NumTx]
    IN  IF ~s.open \/ s.wait \/ (~new /\ again = {} /\ ~s.waiting) THEN s
        ELSE IF CanSend(t) THEN ChannelSend(t) ELSE t

\* One round of l2cap_notify_channel_can_send: l2cap_channel_ready_to_send
\* moves tx_send_index to the first frame to send again, also if it cannot
\* be sent now.  A channel that waits for CAN_SEND_NOW counts as ready too, and
\* l2cap_channel_trigger_send then sends a frame without clearing the flag.
NotifyOnce(s) ==
    LET new   == s.unacked < Min({Window, s.num})
        again == { k \in 0..(s.unacked - 1) :
                     s.tx[(s.read + k) % NumTx].state = "again" }
        t     == IF new \/ again = {} THEN s
                 ELSE [s EXCEPT !.send = (s.read + Min(again)) % NumTx]
    IN  IF ~s.open \/ s.wait \/ (~new /\ again = {} /\ ~s.waiting) THEN s
        ELSE IF CanSend(t) THEN ChannelSend(t) ELSE t

\* l2cap_notify_channel_can_send: the loop over the channels ends when the
\* controller takes no more packets or none is ready.
NotifyCanSend(s) ==
    LET rounds[k \in 0..(AclBuffers + 1)] ==
            IF k = 0 THEN s ELSE NotifyOnce(rounds[k - 1])
    IN  rounds[AclBuffers + 1]

\* l2cap_run_for_classic_channel_ertm
RunErtm(s) ==
    IF ~CanSend(s) THEN s
    ELSE CASE "rr" \in s.flags ->
                Transmit([s EXCEPT !.flags = @ \ {"rr"}, !.final = FALSE],
                         SFrame("RR", FALSE, s.final, s.req))
           [] s.flags \cap {"rr", "poll"} = {"poll"} ->
                Transmit([s EXCEPT !.flags = @ \ {"poll"}],
                         SFrame("RR", TRUE, FALSE, s.req))
           [] s.flags \cap {"rr", "poll", "rnr"} = {"rnr"} ->
                Transmit([s EXCEPT !.flags = @ \ {"rnr"}],
                         SFrame("RNR", FALSE, FALSE, s.req))
           [] s.flags \ {"srej"} = {"rej"} ->
                Transmit([s EXCEPT !.flags = @ \ {"rej"}],
                         SFrame("REJ", FALSE, FALSE, s.req))
           [] s.flags = {"srej"} ->
                Transmit([s EXCEPT !.flags = {}, !.final = FALSE],
                         SFrame("SREJ", FALSE, s.final, s.expect))
           [] s.flags = {} /\ s.active ->
                LET again == { i \in TxIndex : s.tx[i].state = "again" }
                IN  IF again = {} THEN [s EXCEPT !.active = FALSE]
                    ELSE SendInformationFrame([s EXCEPT !.final = FALSE],
                                              Min(again), s.final)
           [] OTHER -> s

-----------------------------------------------------------------------------
(* l2cap.c: receiving *)

\* Mutant: the frame with the request sequence number counts as acknowledged.
MutantProcessReqSeq(s, r) ==
    LET delta == (r - s.tx[s.read].seq) % SeqModulus
        n     == IF delta > Window THEN 0 ELSE Min({delta + 1, s.unacked})
        t     == [s EXCEPT !.num = @ - n, !.unacked = @ - n,
                           !.read = (@ + n) % NumTx,
                           !.retrans = @ /\ n < s.unacked]
    IN  IF n > 0 THEN NotifyApplication(t) ELSE t

\* Mutant: any acknowledgement stops the retransmission timer.
MutantStopTimer(s, r) ==
    LET delta == (r - s.tx[s.read].seq) % SeqModulus
        n     == IF delta > Window THEN 0 ELSE Min({delta, s.unacked})
        t     == [s EXCEPT !.num = @ - n, !.unacked = @ - n,
                           !.read = (@ + n) % NumTx, !.retrans = @ /\ n = 0]
    IN  IF n > 0 THEN NotifyApplication(t) ELSE t

\* l2cap_ertm_process_req_seq; frames are stored with consecutive numbers.
ProcessReqSeq(s, r) ==
    LET delta == (r - s.tx[s.read].seq) % SeqModulus
        n     == IF delta > Window THEN 0 ELSE Min({delta, s.unacked})
        t     == [s EXCEPT !.num = @ - n, !.unacked = @ - n,
                           !.read = (@ + n) % NumTx,
                           !.retrans = @ /\ n < s.unacked]
    IN  IF n > 0 THEN NotifyApplication(t) ELSE t

\* l2cap_ertm_handle_in_sequence_sdu; what it dispatches is Dispatched.
Reassemble(s, g) ==
    IF g.sar = "whole" THEN s
    ELSE IF g.sar = "start" THEN [s EXCEPT !.rlen = g.len, !.rbuf = << g.piece >>]
    ELSE IF Len(s.rbuf) = MaxPieces THEN s       \* the MTU is exceeded
    ELSE IF g.sar = "end" /\ Len(s.rbuf) + 1 = s.rlen THEN [s EXCEPT !.rbuf = << >>]
    ELSE [s EXCEPT !.rbuf = Append(@, g.piece)]

Dispatched(s, g) ==
    IF g.sar = "whole" THEN << << g.piece >> >>
    ELSE IF g.sar = "end" /\ Len(s.rbuf) < MaxPieces /\ Len(s.rbuf) + 1 = s.rlen
         THEN << Append(s.rbuf, g.piece) >>
    ELSE << >>

Advance(s) ==
    LET e == (s.expect + 1) % SeqModulus IN [s EXCEPT !.expect = e, !.req = e]

\* The frame that is expected, then the one stored out of sequence, if any;
\* one is stored at most, see Store.
Expected(s, g) ==
    LET t == Reassemble(Advance(s), g)
        x == t.rx[t.store]
        u == Reassemble(Advance([t EXCEPT !.rx[t.store].valid = FALSE,
                                          !.store = (@ + 1) % NumRx]), x.segment)
    IN  [(IF x.valid THEN u ELSE t) EXCEPT !.flags = @ \cup {"rr"}]

ExpectedDispatch(s, g) ==
    LET t == Reassemble(s, g)
        x == s.rx[s.store]
    IN  Dispatched(s, g) \o IF x.valid THEN Dispatched(t, x.segment) ELSE << >>

\* l2cap_ertm_handle_out_of_sequence_sdu, called with delta = 1
Store(s, g) ==
    IF s.rx[s.store].valid THEN s
    ELSE [s EXCEPT !.rx[s.store] = [valid |-> TRUE, segment |-> g]]

\* Mutant: every frame out of sequence is taken for the one after the gap.
MutantHandleI(s, f) ==
    LET p == ProcessReqSeq(s, f.req)
        t == IF f.final THEN Retransmit(p) ELSE p
    IN  IF f.seq = t.expect THEN Expected(t, f.segment)
        ELSE [Store(t, f.segment) EXCEPT !.flags = @ \cup {"srej"}]

\* l2cap_acl_classic_handler_for_channel, information frames
HandleI(s, f) ==
    LET p == ProcessReqSeq(s, f.req)
        t == IF f.final THEN Retransmit(p) ELSE p
    IN  IF f.seq = t.expect THEN Expected(t, f.segment)
        ELSE IF (f.seq - t.expect) % SeqModulus < 2
             THEN [Store(t, f.segment) EXCEPT !.flags = @ \cup {"srej"}]
             ELSE [t EXCEPT !.flags = @ \cup {"rej"}]

\* Mutant: the answer to a poll does not stop the monitor timer.
MutantHandleRR(s, f) ==
    LET p == ProcessReqSeq(s, f.req)
        held == \E i \in RxIndex : p.rx[i].valid
        q == [p EXCEPT !.flags = @ \cup {IF held THEN "srej" ELSE "rr"},
                       !.final = TRUE]
        r == Retransmit([p EXCEPT !.retrans = @ \/ p.unacked > 0])
    IN  NotifyCanSend(IF f.poll THEN q ELSE IF f.final THEN r ELSE p)

\* l2cap_acl_classic_handler_for_channel, receiver ready: a poll is answered
\* with F = 1, an answer ends the recovery.
HandleRR(s, f) ==
    LET p == ProcessReqSeq(s, f.req)
        held == \E i \in RxIndex : p.rx[i].valid
        q == [p EXCEPT !.flags = @ \cup {IF held THEN "srej" ELSE "rr"},
                       !.final = TRUE]
        r == Retransmit([p EXCEPT !.monitor = FALSE,
                                  !.retrans = @ \/ p.unacked > 0])
    IN  NotifyCanSend(IF f.poll THEN q ELSE IF f.final THEN r ELSE p)

\* l2cap_ertm_get_tx_state looks at all buffers; devices of this kind send
\* SREJ with P = 0.
HandleSrej(s, f) ==
    LET found == { i \in TxIndex : s.tx[i].seq = f.req }
    IN  IF found = {} THEN s
        ELSE [s EXCEPT !.final = FALSE, !.active = TRUE,
                       !.tx[Min(found)].state = "again"]

\* l2cap_acl_classic_handler_for_channel
Handle(s, f) ==
    LET t == IF f.final THEN [s EXCEPT !.wait = FALSE] ELSE s
    IN  IF ~s.open THEN s
        ELSE CASE f.type = "I"    -> HandleI(t, f)
               [] f.type = "RR"   -> HandleRR(t, f)
               [] f.type = "REJ"  -> NotifyCanSend(Retransmit(ProcessReqSeq(t, f.req)))
               [] f.type = "RNR"  -> t
               [] f.type = "SREJ" -> HandleSrej(t, f)
-----------------------------------------------------------------------------
(* Steps *)

\* l2cap_run, then the notification if it was asked for
Run(s, notify) ==
    LET r == RunErtm(s) IN IF notify THEN NotifyCanSend(r) ELSE r

\* An open device after a step that leaves it in state s
Finish(x, s) ==
    /\ ch[x].open
    /\ ch' = [ch EXCEPT ![x] = [s EXCEPT !.out_q = << >>]]
    /\ wire' = [wire EXCEPT ![x] = @ \o s.out_q]

Fault == faults < MaxFaults /\ faults' = faults + 1

\* l2cap_ertm_store_fragment
StoreFragment(s, g) ==
    [s EXCEPT !.tx[s.write] = [seq |-> s.next, state |-> "new", retry |-> 0,
                               segment |-> g],
              !.num = @ + 1, !.next = (@ + 1) % SeqModulus, !.write = (@ + 1) % NumTx]

\* The loop over the fragments of an SDU in l2cap_ertm_send
StoreFragments(s, gs) ==
    LET stores[k \in 0..Len(gs)] ==
            IF k = 0 THEN s ELSE StoreFragment(stores[k - 1], gs[k])
    IN  stores[Len(gs)]

\* l2cap_ertm_send
Send(x) ==
    /\ CanStore(ch[x])
    /\ Len(submitted[A]) + Len(submitted[B]) < MaxSdus
    /\ \E n \in 1..MaxPieces :
        LET d == [i \in 1..n |-> Len(submitted[x]) + 1]
            t == StoreFragments(ch[x], Segments(d))
        IN  /\ Finish(x, NotifyCanSend(t))
            /\ submitted' = [submitted EXCEPT ![x] = Append(@, d)]
            /\ stored' = [stored EXCEPT ![x] = @ + n]
    /\ UNCHANGED << delivered, accepted, faults >>

\* l2cap_request_can_send_now_event
RequestCanSend(x) ==
    /\ RequestWhenFull \/ CanStore(ch[x])
    /\ Finish(x, NotifyApplication([ch[x] EXCEPT !.waiting = TRUE]))
    /\ UNCHANGED << submitted, delivered, stored, accepted, faults >>

\* l2cap_ertm_set_busy
SetBusy(x) ==
    /\ ~ch[x].busy /\ Fault
    /\ Finish(x, Run([ch[x] EXCEPT !.busy = TRUE, !.flags = @ \cup {"rnr"}], FALSE))
    /\ UNCHANGED << submitted, delivered, stored, accepted >>

\* l2cap_ertm_set_ready
SetReady(x) ==
    /\ ch[x].busy
    /\ Finish(x, Run([ch[x] EXCEPT !.busy = FALSE, !.wait = TRUE,
                                   !.flags = @ \cup {"poll"}], FALSE))
    /\ UNCHANGED << submitted, delivered, stored, accepted, faults >>

\* l2cap_acl_handler
Receive(x) ==
    LET w == Peer(x) IN
    /\ wire[w] # << >> /\ ch[x].open
    /\ LET f == Head(wire[w])
           s == Run(Handle(ch[x], f), FALSE)
           expected == f.type = "I" /\ f.seq = ch[x].expect
       IN  /\ ch' = [ch EXCEPT ![x] = [s EXCEPT !.out_q = << >>]]
           /\ wire' = [wire EXCEPT ![w] = Tail(@), ![x] = @ \o s.out_q]
           /\ delivered' = [delivered EXCEPT ![w] = @ \o
                IF expected THEN ExpectedDispatch(ch[x], f.segment) ELSE << >>]
           /\ accepted' = [accepted EXCEPT ![w] = @ + ((s.expect - ch[x].expect) % SeqModulus)]
    /\ UNCHANGED << submitted, stored, faults >>

\* A frame arrives with a wrong FCS and is dropped, or at a device that left.
Lose(x) ==
    /\ wire[x] # << >>
    /\ \/ Fault
       \/ ~ch[Peer(x)].open /\ UNCHANGED faults
    /\ wire' = [wire EXCEPT ![x] = Tail(@)]
    /\ UNCHANGED << ch, submitted, delivered, stored, accepted >>

\* HCI_EVENT_NUMBER_OF_COMPLETED_PACKETS
Completed(x) ==
    /\ ch[x].acl + Len(wire[x]) < AclBuffers
    /\ Finish(x, Run([ch[x] EXCEPT !.acl = @ + 1], TRUE))
    /\ UNCHANGED << submitted, delivered, stored, accepted, faults >>

\* Timeouts are longer than a frame and its answer take, but not always.
Idle == \A x \in Sides : wire[x] = << >> /\ (ch[x].open => ch[x].acl = AclBuffers)
Elapse ==
    \/ Idle /\ UNCHANGED faults
    \/ ~Idle /\ Fault

\* l2cap_ertm_retransmission_timeout_callback
RetransmissionTimeout(x) ==
    /\ ch[x].retrans /\ Elapse
    /\ LET t == Retransmit([ch[x] EXCEPT !.tx[ch[x].read].retry = 1])
       IN  Finish(x, Run([t EXCEPT !.retrans = FALSE, !.monitor = TRUE,
                                   !.wait = TRUE, !.flags = @ \cup {"poll"}], FALSE))
    /\ UNCHANGED << submitted, delivered, stored, accepted >>

\* l2cap_ertm_monitor_timeout_callback
MonitorTimeout(x) ==
    /\ ch[x].monitor /\ Elapse
    /\ LET i == ch[x].read
           t == Retransmit([ch[x] EXCEPT !.tx[i].retry = @ + 1])
       IN  IF ch[x].tx[i].retry < MaxTransmit
           THEN Finish(x, Run([t EXCEPT !.flags = @ \cup {"poll"}], FALSE))
           ELSE Finish(x, [ch[x] EXCEPT !.open = FALSE, !.monitor = FALSE])
    /\ UNCHANGED << submitted, delivered, stored, accepted >>

Init ==
    /\ ch = [x \in Sides |->
          [ open |-> TRUE,
            tx |-> [i \in TxIndex |-> [seq |-> 0, state |-> "new", retry |-> 0,
                                       segment |-> NoSegment]],
            read |-> 0, write |-> 0, send |-> 0, num |-> 0, unacked |-> 0,
            next |-> 0, expect |-> 0, req |-> 0,
            rx |-> [i \in RxIndex |-> [valid |-> FALSE, segment |-> NoSegment]],
            store |-> 0, rlen |-> 0, rbuf |-> << >>, flags |-> {}, final |-> FALSE,
            active |-> FALSE, wait |-> FALSE, busy |-> FALSE, waiting |-> FALSE,
            retrans |-> FALSE, monitor |-> FALSE, acl |-> AclBuffers, out_q |-> << >> ]]
    /\ wire = [x \in Sides |-> << >>]
    /\ submitted = [x \in Sides |-> << >>] /\ delivered = submitted
    /\ stored = [x \in Sides |-> 0] /\ accepted = stored
    /\ faults = 0

Next ==
    \E x \in Sides : \/ Send(x) \/ RequestCanSend(x) \/ SetBusy(x) \/ SetReady(x)
                     \/ Receive(x) \/ Lose(x) \/ Completed(x)
                     \/ RetransmissionTimeout(x) \/ MonitorTimeout(x)

Spec == Init /\ [][Next]_vars

-----------------------------------------------------------------------------
(* Properties *)

\* unacked_frames counts "frames have been sent, but not acknowledged yet" (l2cap.h
\* 343): they are among the frames that are stored and within the window of the
\* peer, as l2cap_channel_ready_to_send computes it.
UnackedWithinWindow ==
    \A x \in Sides : ch[x].unacked <= Min({Window, ch[x].num})

\* The ring of frames is well formed: num_stored_tx_frames frames with
\* consecutive numbers from tx_read_index to tx_write_index, of which at most
\* the window of the peer is sent and not acknowledged.
ErtmTypeOK ==
    /\ UnackedWithinWindow
    /\ ch \in [Sides -> Channel]
    /\ \A x \in Sides :
        LET s == ch[x] IN
        /\ s.write = (s.read + s.num) % NumTx
        /\ \A k \in 0..(s.num - 1) :
            s.tx[(s.read + k) % NumTx].seq = (s.next - s.num + k) % SeqModulus

\* l2cap_ertm_process_req_seq drops a frame from the buffers only after the peer
\* took it in sequence, however late acknowledgements arrive and through timeouts
\* and retransmissions, and the peer never takes a frame twice, though sequence
\* numbers are used again.
AcknowledgedMeansAccepted ==
    \A x \in Sides :
        /\ stored[x] - ch[x].num <= accepted[x]
        /\ accepted[x] <= stored[x]

\* l2cap_ertm_monitor_timeout_callback closes the channel only after more faults
\* than retries are allowed: retransmission, polling and answering never end a
\* channel that works.
GivesUpOnFaults ==
    \A x \in Sides : ~ch[x].open => faults > MaxTransmit

Fifo == INSTANCE SduFifo WITH phase <- [x \in Sides |-> "open"],
                              asked <- \E x \in Sides : ~ch[x].open

\* SDUs arrive whole, once and in order, through loss, reordering by selective
\* retransmission and reassembly (l2cap_ertm_handle_in_sequence_sdu).
ImplementsFifo == Fifo!FifoSpec

\* No stall: when nothing is under way, no timer of the ERTM functions runs and
\* no poll is open, then every frame is acknowledged and every SDU delivered.
NeverStuck ==
    (Idle /\ \A x \in Sides : /\ ch[x].open /\ ~ch[x].wait
                              /\ ~ch[x].retrans /\ ~ch[x].monitor)
        => \A x \in Sides : ch[x].num = 0 /\ delivered[x] = submitted[x]

=============================================================================
