----------------------------- MODULE H5Endpoint -----------------------------
(***************************************************************************)
(* One endpoint of BTstack's Three-Wire UART transport, translated from    *)
(* src/src/hci_transport_h5.c.  The file-scope variables of that file are  *)
(* the fields of an endpoint record, and every handler is an operator from *)
(* the endpoint (and its input) to the endpoint after the WHOLE handler,   *)
(* its trailing call of hci_transport_link_run included.  Operators carry  *)
(* the C names without the prefix "hci_transport_".                        *)
(*                                                                         *)
(* The file has no variables: H5Link puts two endpoints on one wire.       *)
(***************************************************************************)
EXTENDS Integers, Sequences

CONSTANTS
    SeqModulus,   \* sequence numbers are modulo this (8 in the code: & 0x07)
    MaxSend,      \* bound: reliable packets an upper layer hands over
    MaxBaud,      \* bound: baud rate changes an upper layer asks for
    ConfigField,  \* the configuration field an endpoint sends, per side
    AutoSleep,    \* sides with link_inactivity_timeout_ms # 0
    UartSleep     \* sides whose UART driver supports wake on RX

ASSUME SeqModulusAssumption == SeqModulus \in Nat /\ SeqModulus >= 2
ASSUME MaxSendAssumption == MaxSend \in Nat
ASSUME MaxBaudAssumption == MaxBaud \in Nat

-----------------------------------------------------------------------------
(* Link control messages, link states, actions and frames.                 *)

\* "absent": a BCSP controller sends its config without the field; the other
\* two are one-byte fields with and without the data integrity check bit 0x10,
\* and a four-packet window.
ConfigFields == {"absent", "w1_dic", "w4_dic", "w1_nodic"}

SupportsDic(cfg) == cfg \in {"w1_dic", "w4_dic"}

LinkStates == {"UNINITIALIZED", "INITIALIZED", "ACTIVE"}

\* The actions hci_transport_link_run serves, in the order it tests them.
RunOrder == << "SYNC", "SYNC_RESPONSE", "CONFIG", "CONFIG_RESPONSE",
               "CONFIG_RESPONSE_EMPTY", "WOKEN", "WAKEUP", "QUEUED_PACKET",
               "ACK_PACKET", "SLEEP" >>

Sendable == {RunOrder[i] : i \in 1..10}

Actions == Sendable \cup {"ENTER_SLEEP", "SET_BAUDRATE"}

ControlTypes == {"SYNC", "SYNC_RESPONSE", "CONFIG", "CONFIG_RESPONSE",
                 "WOKEN", "WAKEUP", "SLEEP"}

FrameTypes == ControlTypes \cup {"ACK", "DATA", "SCO"}

(***************************************************************************)
(* A frame that passed the header checksum, length and CRC checks: its     *)
(* type (DATA stands for the reliable command, ACL, event and ISO types),  *)
(* sequence and acknowledgement number, whether a data integrity check was *)
(* stored behind it, and its configuration field.  n is the payload: the   *)
(* position of a DATA packet among the packets its sender's upper layer    *)
(* handed over.  upto is a history field: how many packets its sender had  *)
(* accepted when it wrote ack.                                             *)
(***************************************************************************)
Frame == [type : FrameTypes, seq : 0..SeqModulus - 1, ack : 0..SeqModulus - 1,
          dic : BOOLEAN, cfg : ConfigFields, n : Nat, upto : Nat]

\* btstack_uart has nothing to write: slip_write_active = 0.
NoFrame == [type |-> "none"]

Endpoint ==
    [link_state : LinkStates,
     actions    : SUBSET Actions,
     uart       : Frame \cup {NoFrame},  \* the frame handed to send_frame
     uart_done  : BOOLEAN,  \* its bytes have left, frame_sent is still to come
     seq_nr     : 0..SeqModulus - 1,
     ack_nr     : 0..SeqModulus - 1,
     peer_asleep : BOOLEAN,
     dic        : BOOLEAN,  \* link_peer_supports_data_integrity_check
     packet     : {"none", "DATA", "SCO"},     \* what hci_packet points to
     packet_type : {"none", "DATA", "SCO"},    \* outlives clear_queue
     link_timer : BOOLEAN,
     inactivity_timer : BOOLEAN,
     uart_asleep : BOOLEAN,
     sleep_reported : BOOLEAN,  \* last_state of emit_sleep_state
     baud       : Nat,          \* baud rate changes carried out
     fault      : {"none", "null_packet", "timer_registered"},
     submitted  : Nat,          \* DATA packets taken from the upper layer
     accepted   : Nat,          \* DATA frames accepted in sequence
     received   : Seq(Nat)]     \* DATA payloads given to the upper layer

\* The endpoint after hci_transport_h5_open on a fresh start, before link_init.
Closed ==
    [link_state |-> "UNINITIALIZED", actions |-> {}, uart |-> NoFrame,
     uart_done |-> FALSE, seq_nr |-> 0, ack_nr |-> 0, peer_asleep |-> FALSE,
     dic |-> FALSE, packet |-> "none", packet_type |-> "none",
     link_timer |-> FALSE, inactivity_timer |-> FALSE,
     uart_asleep |-> FALSE, sleep_reported |-> FALSE, baud |-> 0,
     fault |-> "none", submitted |-> 0, accepted |-> 0,
     received |-> << >>]

\* An assertion of the run loop has failed or a null pointer was used.
Faulted(e) == e.fault # "none"

-----------------------------------------------------------------------------
(* Timers and the outgoing packet.                                         *)

Request(e, a) == [e EXCEPT !.actions = @ \cup {a}]
Served(e, a)  == [e EXCEPT !.actions = @ \ {a}]

\* btstack_run_loop_base_add_timer asserts that the timer is not registered.
link_set_timer(e) ==
    [e EXCEPT !.link_timer = TRUE,
              !.fault = IF e.link_timer THEN "timer_registered" ELSE @]

inactivity_timer_set(s, e) ==
    [e EXCEPT !.inactivity_timer = @ \/ s \in AutoSleep]

\* Mutant: the mask 0x07 is forgotten.
MutantIncSeqNr(n) == n + 1

link_inc_seq_nr(n) == (n + 1) % SeqModulus

link_have_outgoing_packet(e) == e.packet # "none"

\* Mutant: the link timer is not removed.
MutantClearQueue(e) == [e EXCEPT !.packet = "none"]

link_clear_queue(e) == [e EXCEPT !.packet = "none", !.link_timer = FALSE]

h5_emit_sleep_state(e, active) == [e EXCEPT !.sleep_reported = active]

-----------------------------------------------------------------------------
(* Sending: one frame is written at a time.                                *)

slip_send_frame_with_dic(e, f) == [e EXCEPT !.uart = f, !.uart_done = FALSE]

ControlFrame(e, type, cfg) ==
    [type |-> type, seq |-> 0, ack |-> 0, dic |-> e.dic, cfg |-> cfg,
     n |-> 0, upto |-> 0]

link_send_control(e, type, cfg) ==
    slip_send_frame_with_dic(e, ControlFrame(e, type, cfg))

AckFrame(e) ==
    [type |-> "ACK", seq |-> 0, ack |-> e.ack_nr, dic |-> FALSE,
     cfg |-> "absent", n |-> 0, upto |-> e.accepted]

link_send_ack_packet(e) == slip_send_frame_with_dic(e, AckFrame(e))

\* calc_header: an unreliable packet carries sequence number 0.
PacketFrame(e) ==
    [type |-> e.packet, seq |-> IF e.packet = "DATA" THEN e.seq_nr ELSE 0,
     ack |-> e.ack_nr, dic |-> e.dic, cfg |-> "absent",
     n |-> IF e.packet = "DATA" THEN e.submitted ELSE 0,
     upto |-> e.accepted]

\* With hci_packet = NULL the header is written through NULL - 4.
link_send_queued_packet(s, e) ==
    IF link_have_outgoing_packet(e)
    THEN inactivity_timer_set(s,
           slip_send_frame_with_dic(e, PacketFrame(e)))
    ELSE [e EXCEPT !.fault = "null_packet"]

\* The pending action hci_transport_link_run comes to first.
FirstAction(e) ==
    RunOrder[CHOOSE i \in 1..10 : /\ RunOrder[i] \in e.actions
                                  /\ \A j \in 1..i - 1 :
                                         RunOrder[j] \notin e.actions]

link_serve(s, e, a) ==
    CASE a = "CONFIG" ->
           link_send_control(Served(e, a), "CONFIG", ConfigField[s])
      [] a = "CONFIG_RESPONSE" ->
           link_send_control(Served(e, a), "CONFIG_RESPONSE", ConfigField[s])
      [] a = "CONFIG_RESPONSE_EMPTY" ->
           link_send_control(Served(e, a), "CONFIG_RESPONSE", "absent")
      [] a = "QUEUED_PACKET" ->
           link_send_queued_packet(s, Served(Served(e, a), "ACK_PACKET"))
      [] a = "ACK_PACKET" ->
           link_send_ack_packet(Served(e, a))
      [] a = "SLEEP" ->
           link_send_control([Request(Served(e, a), "ENTER_SLEEP")
                                EXCEPT !.peer_asleep = TRUE], "SLEEP", "absent")
      [] OTHER ->
           link_send_control(Served(e, a), a, "absent")

link_run(s, e) ==
    IF e.uart # NoFrame \/ e.actions \cap Sendable = {}
    THEN e
    ELSE link_serve(s, e, FirstAction(e))

link_init(s, e) ==
    link_run(s, link_set_timer(Request(
        [e EXCEPT !.link_state = "UNINITIALIZED", !.peer_asleep = FALSE,
                  !.dic = FALSE], "SYNC")))

-----------------------------------------------------------------------------
(* Calls of the upper layer.  HCI calls them from the run loop, and from   *)
(* inside the packet handler while a frame is being processed.             *)

h5_can_send_packet_now(e) ==
    ~link_have_outgoing_packet(e) /\ e.link_state = "ACTIVE"

h5_queue_packet(e, type) ==
    [e EXCEPT !.packet = type, !.packet_type = type,
              !.submitted = IF type = "DATA" THEN @ + 1 ELSE @]

WakeupFirst(s, e) ==
    Request([h5_emit_sleep_state(e, FALSE)
               EXCEPT !.uart_asleep = @ /\ s \notin UartSleep], "WAKEUP")

\* send_packet reports -1 and changes nothing when it cannot send now.
h5_send_packet(s, e, type) ==
    IF ~h5_can_send_packet_now(e) THEN e
    ELSE LET q == h5_queue_packet(e, type)
         IN  link_run(s, link_set_timer(
                 IF e.peer_asleep THEN WakeupFirst(s, q)
                                  ELSE Request(q, "QUEUED_PACKET")))

h5_set_baudrate(s, e) ==
    IF "ACK_PACKET" \in e.actions
    THEN link_run(s, Request(e, "SET_BAUDRATE"))
    ELSE [e EXCEPT !.baud = @ + 1]

\* Bounds of the model: packets handed over and baud rate changes asked for.
MayCall(e, call) ==
    CASE call = "DATA" -> e.submitted < MaxSend
      [] call = "BAUD" -> e.baud < MaxBaud /\ "SET_BAUDRATE" \notin e.actions
      [] OTHER -> TRUE

Upper(s, e, call) ==
    IF ~MayCall(e, call) \/ call = "none" THEN e
    ELSE IF call = "BAUD" THEN h5_set_baudrate(s, e)
         ELSE h5_send_packet(s, e, call)

-----------------------------------------------------------------------------
(* Handlers: the link timer, the inactivity timer, the end of a write.     *)

\* The run loop takes a timer off its list before it calls the handler.
link_timeout_handler(s, e0) ==
    LET e == [e0 EXCEPT !.link_timer = FALSE]
        Resend(a) == link_run(s, link_set_timer(Request(e, a)))
    IN  CASE e.link_state = "UNINITIALIZED" -> Resend("SYNC")
          [] e.link_state = "INITIALIZED"   -> Resend("CONFIG")
          [] OTHER -> IF ~link_have_outgoing_packet(e) THEN e
                      ELSE IF e.peer_asleep THEN Resend("WAKEUP")
                                            ELSE Resend("QUEUED_PACKET")

inactivity_timeout_handler(s, e0) ==
    LET e == [e0 EXCEPT !.inactivity_timer = FALSE]
    IN  IF \/ link_have_outgoing_packet(e)
           \/ e.link_state # "ACTIVE"
           \/ e.actions # {}
           \/ e.peer_asleep
        THEN e
        ELSE link_run(s, Request(e, "SLEEP"))

\* Mutant: the end of a write does not look for a pending baud rate.
MutantApplyBaudrate(e) == e

ApplyBaudrate(e) ==
    IF "SET_BAUDRATE" \in e.actions
    THEN [Served(e, "SET_BAUDRATE") EXCEPT !.baud = @ + 1]
    ELSE e

\* emit_sleep_state(1) calls the packet handler when the state is news; the
\* upper layer may send from there.  (emit_sleep_state(0) is called from
\* send_packet, whose queue is full: the upper layer could not send.)
SleepReported(s, e, call) ==
    IF e.sleep_reported THEN e
    ELSE Upper(s, h5_emit_sleep_state(e, TRUE), call)

EnterSleep(s, e, call) ==
    IF "ENTER_SLEEP" \in e.actions
    THEN SleepReported(s, [Served(e, "ENTER_SLEEP")
           EXCEPT !.uart_asleep = @ \/ s \in UartSleep], call)
    ELSE e

\* An SCO packet is unreliable: its queue is cleared and the upper layer,
\* called with TRANSPORT_PACKET_SENT, may send again (sentCall).  sleepCall is
\* what it does when told of the sleep state.
h5_frame_sent(s, e, sleepCall, sentCall) ==
    LET idle  == [e EXCEPT !.uart = NoFrame, !.uart_done = FALSE]
        ready == EnterSleep(s, ApplyBaudrate(idle), sleepCall)
    IN  link_run(s, IF ready.packet_type = "SCO"
                    THEN Upper(s, link_clear_queue(ready), sentCall)
                    ELSE ready)

-----------------------------------------------------------------------------
(* hci_transport_h5_process_frame, by link state.                          *)

\* Mutant: SYNC is not answered.
MutantAnswerSync(e) == e

AnswerSync(e) == Request(e, "SYNC_RESPONSE")

FrameWhileUninitialized(s, e, f) ==
    CASE f.type = "SYNC" -> AnswerSync(e)
      [] f.type = "SYNC_RESPONSE" ->
           link_set_timer(Request([e EXCEPT !.link_state = "INITIALIZED",
                                            !.link_timer = FALSE], "CONFIG"))
      [] OTHER -> e

\* Mutant: the sequence numbers of an earlier session are kept.
MutantLinkActivated(e, f) ==
    [e EXCEPT !.dic = SupportsDic(f.cfg), !.link_state = "ACTIVE",
              !.link_timer = FALSE]

LinkActivated(e, f) ==
    [e EXCEPT !.dic = SupportsDic(f.cfg), !.link_state = "ACTIVE",
              !.link_timer = FALSE, !.seq_nr = 0, !.ack_nr = 0]

FrameWhileInitialized(s, e, f, call) ==
    CASE f.type = "SYNC" -> AnswerSync(e)
      [] f.type = "CONFIG" ->
           Request(e, IF f.cfg = "absent" THEN "CONFIG_RESPONSE_EMPTY"
                                          ELSE "CONFIG_RESPONSE")
      [] f.type = "CONFIG_RESPONSE" -> Upper(s, LinkActivated(e, f), call)
      [] OTHER -> e

\* Mutant: the sequence number is not checked.
MutantInSequence(e, f) == TRUE

InSequence(e, f) == f.seq = e.ack_nr

\* Mutant: a retransmission is dropped without repeating the acknowledgement.
MutantOutOfSequence(e) == e

OutOfSequence(e) == Request(e, "ACK_PACKET")

\* Mutant: any acknowledgement will do.
MutantAckedBy(e, f) ==
    f.type \in {"DATA", "ACK"} /\ link_have_outgoing_packet(e)

\* Our packet is good if the remote expects our sequence number + 1.
AckedBy(e, f) ==
    /\ f.type \in {"DATA", "ACK"}
    /\ link_have_outgoing_packet(e)
    /\ f.ack = link_inc_seq_nr(e.seq_nr)

\* Mutant: the expected sequence number does not advance.
MutantAcceptReliable(e, f) ==
    IF f.type = "DATA"
    THEN Request([e EXCEPT !.accepted = @ + 1], "ACK_PACKET")
    ELSE e

AcceptReliable(e, f) ==
    IF f.type = "DATA"
    THEN Request([e EXCEPT !.ack_nr = link_inc_seq_nr(@),
                           !.accepted = @ + 1], "ACK_PACKET")
    ELSE e

ProcessAck(s, e, f, call) ==
    IF AckedBy(e, f)
    THEN Upper(s, link_clear_queue([e EXCEPT !.seq_nr = link_inc_seq_nr(@)]),
               call)
    ELSE e

\* Only a config message equal to our own, field included, is answered.
ProcessControl(s, e, f, call) ==
    CASE f.type = "CONFIG" ->
           IF f.cfg # "absent" /\ f.cfg = ConfigField[s]
           THEN Request(e, "CONFIG_RESPONSE") ELSE e
      [] f.type = "SLEEP" ->
           [ IF s \in UartSleep
             THEN SleepReported(s, [e EXCEPT !.uart_asleep = TRUE], call)
             ELSE e  EXCEPT !.peer_asleep = TRUE ]
      [] f.type = "WAKEUP" ->
           Request([e EXCEPT !.peer_asleep = FALSE], "WOKEN")
      [] f.type = "WOKEN" -> [e EXCEPT !.peer_asleep = FALSE]
      [] OTHER -> e

Deliver(s, e, f, call) ==
    inactivity_timer_set(s,
        Upper(s, [e EXCEPT !.peer_asleep = FALSE,
                           !.received = IF f.type = "DATA"
                                        THEN Append(@, f.n) ELSE @], call))

\* ackCall: what the upper layer does on TRANSPORT_PACKET_SENT;
\* rxCall: what it does when it is given the packet or told of the sleep state.
FrameWhileActive(s, e, f, ackCall, rxCall) ==
    IF f.type = "DATA" /\ ~InSequence(e, f)
    THEN OutOfSequence(e)
    ELSE LET acked == ProcessAck(s, AcceptReliable(e, f), f, ackCall)
         IN  CASE f.type \in ControlTypes    ->
                    ProcessControl(s, acked, f, rxCall)
               [] f.type \in {"DATA", "SCO"} -> Deliver(s, acked, f, rxCall)
               [] OTHER -> acked

h5_process_frame(s, e, f, ackCall, rxCall) ==
    link_run(s,
        CASE e.link_state = "UNINITIALIZED" -> FrameWhileUninitialized(s, e, f)
          [] e.link_state = "INITIALIZED" ->
               FrameWhileInitialized(s, e, f, ackCall)
          [] OTHER -> FrameWhileActive(s, e, f, ackCall, rxCall))

\* Mutant: the outgoing packet survives and is sent again.
MutantResetLink(s, e) ==
    link_init(s, Request([e EXCEPT !.link_timer = FALSE], "QUEUED_PACKET"))

\* Mutant: the queue is cleared and the link is not started again.
MutantClearOnly(s, e) == link_clear_queue(e)

h5_reset_link(s, e) == link_init(s, link_clear_queue(e))
=============================================================================
