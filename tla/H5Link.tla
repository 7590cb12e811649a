------------------------------- MODULE H5Link -------------------------------
(***************************************************************************)
(* Two H5 endpoints on one UART.  The host is BTstack; the controller at   *)
(* the other end of a Three-Wire UART speaks the same protocol and is      *)
(* modelled by the same code.  A frame that is damaged on the wire fails   *)
(* its checksum, length or CRC check and is dropped by process_frame: the  *)
(* wire is a FIFO that may lose frames.                                    *)
(***************************************************************************)
EXTENDS H5Endpoint

CONSTANTS
    Side,              \* the two endpoints
    WireCap,           \* bound: frames on the wire in one direction
    Calls,             \* calls each upper layer makes: "DATA", "SCO", "BAUD"
    TimerDuringWrite   \* may the link timer expire while a frame is written?

ASSUME SideAssumption == \E a, b \in Side : a # b /\ Side = {a, b}
ASSUME WireCapAssumption == WireCap \in Nat \ {0}
ASSUME CallsAssumption == Calls \in [Side -> SUBSET {"DATA", "SCO", "BAUD"}]
ASSUME ConfigAssumption == ConfigField \in [Side -> ConfigFields]
ASSUME TimerAssumption == TimerDuringWrite \in BOOLEAN

VARIABLES
    ep,      \* the endpoint of each side
    wire     \* frames on their way from each side to the other

vars == << ep, wire >>

Other(s) == CHOOSE r \in Side : r # s

\* What the upper layer may do when it is called back.
Reactions(s) == Calls[s] \cup {"none"}

TypeOK ==
    /\ ep \in [Side -> Endpoint]
    /\ wire \in [Side -> Seq(Frame)]

Running(s) == ~Faulted(ep[s])

Init ==
    /\ ep = [s \in Side |-> link_init(s, Closed)]
    /\ wire = [s \in Side |-> << >>]

Become(s, e) == ep' = [ep EXCEPT ![s] = e]

-----------------------------------------------------------------------------
\* The upper layer calls send_packet or set_baudrate from the run loop.
UpperCall(s, call) ==
    /\ Running(s)
    /\ MayCall(ep[s], call)
    /\ call \in {"DATA", "SCO"} => h5_can_send_packet_now(ep[s])
    /\ Become(s, Upper(s, ep[s], call))
    /\ UNCHANGED wire

\* The UART driver has clocked out the frame; the wire keeps it or loses it.
Transmit(s) ==
    /\ Running(s)
    /\ ep[s].uart # NoFrame /\ ~ep[s].uart_done
    /\ Len(wire[s]) < WireCap
    /\ Become(s, [ep[s] EXCEPT !.uart_done = TRUE])
    /\ wire' = [wire EXCEPT ![s] = Append(@, ep[s].uart)]

Lose(s) ==
    /\ Running(s)
    /\ ep[s].uart # NoFrame /\ ~ep[s].uart_done
    /\ Become(s, [ep[s] EXCEPT !.uart_done = TRUE])
    /\ UNCHANGED wire

FrameSent(s) ==
    /\ Running(s)
    /\ ep[s].uart_done
    /\ \E sleepCall, sentCall \in Reactions(s) :
           Become(s, h5_frame_sent(s, ep[s], sleepCall, sentCall))
    /\ UNCHANGED wire

FrameReceived(s) ==
    LET r == Other(s)
    IN  /\ Running(s)
        /\ wire[r] # << >>
        /\ \E ackCall, rxCall \in Reactions(s) :
               Become(s, h5_process_frame(s, ep[s], Head(wire[r]),
                                          ackCall, rxCall))
        /\ wire' = [wire EXCEPT ![r] = Tail(@)]

LinkTimeout(s) ==
    /\ Running(s)
    /\ ep[s].link_timer
    /\ TimerDuringWrite \/ ep[s].uart = NoFrame
    /\ Become(s, link_timeout_handler(s, ep[s]))
    /\ UNCHANGED wire

InactivityTimeout(s) ==
    /\ Running(s)
    /\ ep[s].inactivity_timer
    /\ Become(s, inactivity_timeout_handler(s, ep[s]))
    /\ UNCHANGED wire

Next ==
    \E s \in Side :
        \/ \E call \in Calls[s] : UpperCall(s, call)
        \/ Transmit(s)
        \/ Lose(s)
        \/ FrameSent(s)
        \/ FrameReceived(s)
        \/ LinkTimeout(s)
        \/ InactivityTimeout(s)

Spec == Init /\ [][Next]_vars

(***************************************************************************)
(* Fairness.  The run loop serves every data source and every timer that   *)
(* is due, the UART driver finishes every write, and after some point the  *)
(* wire damages no more frames: the link is to recover from any finite     *)
(* pattern of losses.                                                      *)
(***************************************************************************)
Fairness ==
    /\ \A s \in Side :
        /\ WF_vars(Transmit(s) \/ Lose(s))
        /\ WF_vars(FrameSent(s))
        /\ WF_vars(FrameReceived(s))
        /\ WF_vars(LinkTimeout(s))
    /\ <>[][\A s \in Side : ~Lose(s)]_vars

FairSpec == Spec /\ Fairness

-----------------------------------------------------------------------------
(* Safety.                                                                 *)

\* The packets an upper layer is given are the packets the other upper layer
\* handed over, in that order, each once: no retransmission is taken for a new
\* packet and no packet is skipped (the sequence number check of process_frame,
\* link_inc_seq_nr, the clearing of the queue).
InOrderDelivery ==
    \A s \in Side :
        /\ ep[s].received = [i \in 1..Len(ep[s].received) |-> i]
        /\ Len(ep[s].received) <= ep[Other(s)].submitted

\* Reliable packets of s that were reported to its upper layer as sent.
Confirmed(e) == e.submitted - (IF e.packet = "DATA" THEN 1 ELSE 0)

\* TRANSPORT_PACKET_SENT is emitted for a reliable packet only after the peer
\* has taken it, and send_packet takes the next one only after that: at most one
\* packet is between "handed over" and "acknowledged".
SentMeansReceived ==
    \A s \in Side :
        LET taken == Len(ep[Other(s)].received)
        IN  taken \in Confirmed(ep[s])..Confirmed(ep[s]) + 1

\* While the link is up, no interleaving of retransmission timer,
\* acknowledgement and nested send_packet registers the link timer a second
\* time: btstack_run_loop_base_add_timer would stop in its assertion.
TimerNeverRegisteredTwice ==
    \A s \in Side : ep[s].fault # "timer_registered"

\* The pair of endpoints implements the reliable channel: what the upper layers
\* see of send_packet, TRANSPORT_PACKET_SENT and the packet handler is a
\* behaviour of H5Channel.
Channel == INSTANCE H5Channel WITH
    sent      <- [s \in Side |-> ep[s].submitted],
    given     <- [s \in Side |-> ep[Other(s)].received],
    confirmed <- [s \in Side |-> Confirmed(ep[s])]

ImplementsChannel == Channel!ChanSpec

-----------------------------------------------------------------------------
(* Liveness.                                                               *)

\* Whatever is lost, both endpoints reach LINK_ACTIVE: the SYNC and CONFIG
\* messages are repeated by the link timer and answered in every state the
\* other side can be in.
EventuallyActive ==
    <>(\A s \in Side : ep[s].link_state = "ACTIVE")

\* Every packet handed over is acknowledged by the other side and reported as
\* sent, through losses of the packet and of its acknowledgement and through
\* sleep and wakeup: no packet stays in the queue for ever.
EventuallyAcknowledged ==
    []<>(\A s \in Side : Confirmed(ep[s]) = ep[s].submitted)

\* A baud rate change that set_baudrate put off until the acknowledgement is out
\* is carried out: the end of the write that is active, or of the one
\* set_baudrate starts, finds the request.
EventuallyBaudrateSet ==
    []<>(\A s \in Side : "SET_BAUDRATE" \notin ep[s].actions)

-----------------------------------------------------------------------------
(* What comments of the source say and the code does not do.               *)

\* hci_transport_link_run sends the queued packet only "if needed": never when
\* there is none.
QueuedPacketExists ==
    \A s \in Side : ep[s].fault # "null_packet"

-----------------------------------------------------------------------------
(***************************************************************************)
(* The inductive invariant behind the safety properties.  The properties   *)
(* speak of the two ends only; that they stay true rests on every frame    *)
(* still on the wire, or being written, fitting the state of both ends.    *)
(***************************************************************************)

\* The sequence numbers are the packet counts modulo SeqModulus, the packets
\* given to the upper layer are 1, 2, 3, ..., and nothing was exchanged before
\* the link became active.
LocalInv(e) ==
    /\ e.packet = "DATA" => e.submitted >= 1
    /\ e.seq_nr = Confirmed(e) % SeqModulus
    /\ e.ack_nr = e.accepted % SeqModulus
    /\ e.received = [i \in 1..e.accepted |-> i]
    /\ e.packet \in {"none", e.packet_type}
    /\ e.link_state # "ACTIVE" =>
           e.packet = "none" /\ e.submitted = 0 /\ e.accepted = 0

\* A frame f that e has sent and p has not yet received carries the packet p
\* expects or the one it took last, and acknowledges no less than what p knows
\* to be acknowledged and no more than e has taken.
InFlight(e, p, f) ==
    /\ f.type = "DATA" =>
           /\ f.n \in {p.accepted, p.accepted + 1}
           /\ f.n \in 1..e.submitted
           /\ f.seq = (f.n - 1) % SeqModulus
    /\ f.type \in {"DATA", "ACK"} =>
           /\ f.upto \in Confirmed(p)..e.accepted
           /\ f.ack = f.upto % SeqModulus

\* f was written before g: packets and acknowledgements never go back.
Before(f, g) ==
    /\ f.type = "DATA" /\ g.type = "DATA" => f.n <= g.n
    /\ f.type \in {"DATA", "ACK"} /\ g.type \in {"DATA", "ACK"} =>
           f.upto <= g.upto

\* The direction from e to p with the frames w on the wire.
DirectionInv(e, p, w) ==
    /\ p.accepted \in Confirmed(e)..e.submitted
    /\ \A i \in 1..Len(w) : InFlight(e, p, w[i])
    /\ \A i, j \in 1..Len(w) : i < j => Before(w[i], w[j])
    /\ e.uart # NoFrame /\ ~e.uart_done =>
           /\ InFlight(e, p, e.uart)
           /\ \A i \in 1..Len(w) : Before(w[i], e.uart)

\* Sequence numbers, counts and every frame under way agree: the invariant of
\* hci_transport_link_run, process_frame and clear_queue taken together, of
\* which InOrderDelivery and SentMeansReceived are consequences.
WindowInv ==
    \A s \in Side :
        /\ LocalInv(ep[s])
        /\ DirectionInv(ep[s], ep[Other(s)], wire[s])
=============================================================================
