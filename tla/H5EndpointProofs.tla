-------------------------- MODULE H5EndpointProofs --------------------------
(***************************************************************************)
(* What the operators of H5Endpoint preserve.  Every handler is a chain of *)
(* small updates of the endpoint record; each lemma says that an operator  *)
(* yields an endpoint again and what it does to the fields the sliding     *)
(* window protocol rests on.                                               *)
(***************************************************************************)
EXTENDS H5Endpoint, TLAPS

\* r differs from e in neither the protocol fields nor the write.
Quiet(e, r) ==
    /\ r.link_state = e.link_state
    /\ r.seq_nr = e.seq_nr
    /\ r.ack_nr = e.ack_nr
    /\ r.packet = e.packet
    /\ r.packet_type = e.packet_type
    /\ r.submitted = e.submitted
    /\ r.accepted = e.accepted
    /\ r.received = e.received
    /\ r.uart = e.uart
    /\ r.uart_done = e.uart_done

\* f is a frame that link_run can build from e.
FrameFrom(e, f) ==
    /\ f \in Frame
    /\ f.type = "DATA" => /\ e.packet = "DATA"
                          /\ f.n = e.submitted
                          /\ f.seq = e.seq_nr
    /\ f.type \in {"DATA", "ACK"} => /\ f.ack = e.ack_nr
                                     /\ f.upto = e.accepted

\* hci_packet_type is the type of the packet hci_packet points to.
TypeMatches(e) == e.packet \in {"none", e.packet_type}

\* r comes from e by calls of send_packet, set_baudrate and link_run.
Step(e, r) ==
    /\ r.link_state = e.link_state
    /\ r.seq_nr = e.seq_nr
    /\ r.ack_nr = e.ack_nr
    /\ r.accepted = e.accepted
    /\ r.received = e.received
    /\ \/ r.submitted = e.submitted /\ (r.packet = "DATA" <=> e.packet = "DATA")
       \/ /\ e.packet # "DATA" /\ r.packet = "DATA"
          /\ r.submitted = e.submitted + 1 /\ e.submitted < MaxSend
          /\ e.link_state = "ACTIVE"
    /\ e.link_state # "ACTIVE" /\ e.packet = "none" => r.packet = "none"
    /\ TypeMatches(e) => TypeMatches(r)
    /\ \/ r.uart = e.uart /\ r.uart_done = e.uart_done
       \/ e.uart = NoFrame /\ r.uart_done = FALSE /\ FrameFrom(r, r.uart)

-----------------------------------------------------------------------------
\* An update that touches no protocol field is a Step.
LEMMA QuietStep ==
    ASSUME NEW e \in Endpoint, NEW r \in Endpoint, Quiet(e, r)
    PROVE  Step(e, r)
  BY DEF Quiet, Step, Endpoint, TypeMatches

\* Steps compose: a handler that calls several helpers is one Step.
LEMMA StepTransitive ==
    ASSUME NEW e \in Endpoint, NEW q \in Endpoint, NEW r \in Endpoint,
           Step(e, q), Step(q, r)
    PROVE  Step(e, r)
  <1>1. /\ r.link_state = e.link_state /\ r.seq_nr = e.seq_nr
        /\ r.ack_nr = e.ack_nr /\ r.accepted = e.accepted
        /\ r.received = e.received
        /\ e.link_state # "ACTIVE" /\ e.packet = "none" => r.packet = "none"
        /\ TypeMatches(e) => TypeMatches(r)
    BY DEF Step
  <1>2. \/ r.submitted = e.submitted /\ (r.packet = "DATA" <=> e.packet = "DATA")
        \/ /\ e.packet # "DATA" /\ r.packet = "DATA"
           /\ r.submitted = e.submitted + 1 /\ e.submitted < MaxSend
           /\ e.link_state = "ACTIVE"
    BY DEF Step
  <1>3. \/ r.uart = e.uart /\ r.uart_done = e.uart_done
        \/ e.uart = NoFrame /\ r.uart_done = FALSE /\ FrameFrom(r, r.uart)
    <2>1. CASE r.uart = q.uart /\ r.uart_done = q.uart_done
      BY <2>1 DEF Step, FrameFrom
    <2>2. CASE q.uart = NoFrame /\ r.uart_done = FALSE /\ FrameFrom(r, r.uart)
      <3>1. NoFrame \notin Frame
        BY DEF NoFrame, Frame, FrameTypes, ControlTypes
      <3>2. q.uart = e.uart
        BY <2>2, <3>1 DEF Step, FrameFrom
      <3> QED BY <2>2, <3>2
    <2> QED BY <2>1, <2>2 DEF Step
  <1> QED BY <1>1, <1>2, <1>3 DEF Step

-----------------------------------------------------------------------------
(* Updates that touch neither the protocol fields nor the write.           *)

Faults == {"none", "null_packet", "timer_registered"}

\* Setting a bit of link_actions is quiet.
LEMMA RequestQuiet ==
    ASSUME NEW e \in Endpoint, NEW a \in Actions
    PROVE  Request(e, a) \in Endpoint /\ Quiet(e, Request(e, a))
  BY DEF Request, Endpoint, Quiet

\* Clearing a bit of link_actions is quiet.
LEMMA ServedQuiet ==
    ASSUME NEW e \in Endpoint, NEW a
    PROVE  Served(e, a) \in Endpoint /\ Quiet(e, Served(e, a))
  BY DEF Served, Endpoint, Quiet

\* Starting the link timer is quiet, also when it is registered already.
LEMMA SetTimerQuiet ==
    ASSUME NEW e \in Endpoint
    PROVE  link_set_timer(e) \in Endpoint /\ Quiet(e, link_set_timer(e))
  <1> DEFINE f == IF e.link_timer THEN "timer_registered" ELSE e.fault
  <1>1. f \in Faults
    BY DEF Endpoint, Faults
  <1> HIDE DEF f
  <1>2. /\ [e EXCEPT !.link_timer = TRUE, !.fault = f] \in Endpoint
        /\ Quiet(e, [e EXCEPT !.link_timer = TRUE, !.fault = f])
    BY <1>1 DEF Endpoint, Quiet, Faults
  <1> QED BY <1>2 DEF link_set_timer, f

\* Restarting the inactivity timer is quiet.
LEMMA InactivityTimerQuiet ==
    ASSUME NEW s, NEW e \in Endpoint
    PROVE  /\ inactivity_timer_set(s, e) \in Endpoint
           /\ Quiet(e, inactivity_timer_set(s, e))
  <1> DEFINE b == e.inactivity_timer \/ s \in AutoSleep
  <1>1. b \in BOOLEAN
    OBVIOUS
  <1> HIDE DEF b
  <1>2. /\ [e EXCEPT !.inactivity_timer = b] \in Endpoint
        /\ Quiet(e, [e EXCEPT !.inactivity_timer = b])
    BY <1>1 DEF Endpoint, Quiet
  <1> QED BY <1>2 DEF inactivity_timer_set, b

\* Reporting the sleep state is quiet.
LEMMA EmitSleepQuiet ==
    ASSUME NEW e \in Endpoint, NEW b \in BOOLEAN
    PROVE  /\ h5_emit_sleep_state(e, b) \in Endpoint
           /\ Quiet(e, h5_emit_sleep_state(e, b))
  BY DEF h5_emit_sleep_state, Endpoint, Quiet

\* Switching the UART driver's sleep mode is quiet.
LEMMA UartAsleepQuiet ==
    ASSUME NEW e \in Endpoint, NEW b \in BOOLEAN
    PROVE  /\ [e EXCEPT !.uart_asleep = b] \in Endpoint
           /\ Quiet(e, [e EXCEPT !.uart_asleep = b])
  BY DEF Endpoint, Quiet

\* Noting that the peer sleeps or woke up is quiet.
LEMMA PeerAsleepQuiet ==
    ASSUME NEW e \in Endpoint, NEW b \in BOOLEAN
    PROVE  /\ [e EXCEPT !.peer_asleep = b] \in Endpoint
           /\ Quiet(e, [e EXCEPT !.peer_asleep = b])
  BY DEF Endpoint, Quiet

\* Removing the link timer or the inactivity timer is quiet.
LEMMA TimerOffQuiet ==
    ASSUME NEW e \in Endpoint
    PROVE  /\ [e EXCEPT !.link_timer = FALSE] \in Endpoint
           /\ Quiet(e, [e EXCEPT !.link_timer = FALSE])
           /\ [e EXCEPT !.inactivity_timer = FALSE] \in Endpoint
           /\ Quiet(e, [e EXCEPT !.inactivity_timer = FALSE])
  BY DEF Endpoint, Quiet

\* Carrying out a baud rate change is quiet.
LEMMA BaudQuiet ==
    ASSUME NEW e \in Endpoint
    PROVE  /\ [e EXCEPT !.baud = @ + 1] \in Endpoint
           /\ Quiet(e, [e EXCEPT !.baud = @ + 1])
  <1>1. e.baud + 1 \in Nat
    BY DEF Endpoint
  <1>2. ASSUME NEW b \in Nat
        PROVE  [e EXCEPT !.baud = b] \in Endpoint /\ Quiet(e, [e EXCEPT !.baud = b])
    BY DEF Endpoint, Quiet
  <1> QED BY <1>1, <1>2

\* Stopping in a fault is quiet.
LEMMA FaultQuiet ==
    ASSUME NEW e \in Endpoint
    PROVE  /\ [e EXCEPT !.fault = "null_packet"] \in Endpoint
           /\ Quiet(e, [e EXCEPT !.fault = "null_packet"])
  BY DEF Endpoint, Quiet

\* Quiet updates compose.
LEMMA QuietTransitive ==
    ASSUME NEW e, NEW q, NEW r, Quiet(e, q), Quiet(q, r)
    PROVE  Quiet(e, r)
  BY DEF Quiet

-----------------------------------------------------------------------------
(* Writing a frame.                                                        *)

\* Handing a frame built from the endpoint to the idle UART is a Step.
LEMMA SendFrameStep ==
    ASSUME NEW e \in Endpoint, NEW f, FrameFrom(e, f), e.uart = NoFrame
    PROVE  /\ slip_send_frame_with_dic(e, f) \in Endpoint
           /\ Step(e, slip_send_frame_with_dic(e, f))
  <1> DEFINE r == slip_send_frame_with_dic(e, f)
  <1>1. /\ r \in Endpoint
        /\ r.uart = f /\ r.uart_done = FALSE
        /\ r.link_state = e.link_state /\ r.seq_nr = e.seq_nr
        /\ r.ack_nr = e.ack_nr /\ r.packet = e.packet
        /\ r.packet_type = e.packet_type
        /\ r.submitted = e.submitted /\ r.accepted = e.accepted
        /\ r.received = e.received
    BY DEF slip_send_frame_with_dic, FrameFrom, Endpoint
  <1> HIDE DEF r
  <1> QED BY <1>1 DEF Step, FrameFrom, TypeMatches, r

\* Sending a link control message is a Step.
LEMMA SendControlStep ==
    ASSUME NEW e \in Endpoint, e.uart = NoFrame,
           NEW type \in ControlTypes, NEW cfg \in ConfigFields
    PROVE  /\ link_send_control(e, type, cfg) \in Endpoint
           /\ Step(e, link_send_control(e, type, cfg))
  <1>1. FrameFrom(e, ControlFrame(e, type, cfg))
    BY SeqModulusAssumption
    DEF FrameFrom, ControlFrame, Frame, FrameTypes, ControlTypes, Endpoint
  <1> QED BY <1>1, SendFrameStep DEF link_send_control

\* Sending a pure acknowledgement is a Step.
LEMMA SendAckStep ==
    ASSUME NEW e \in Endpoint, e.uart = NoFrame
    PROVE  /\ link_send_ack_packet(e) \in Endpoint
           /\ Step(e, link_send_ack_packet(e))
  <1>1. FrameFrom(e, AckFrame(e))
    BY SeqModulusAssumption
    DEF FrameFrom, AckFrame, Frame, FrameTypes, ConfigFields, Endpoint
  <1> QED BY <1>1, SendFrameStep DEF link_send_ack_packet

\* Sending the queued packet, or faulting without one, is a Step.
LEMMA SendQueuedStep ==
    ASSUME NEW s, NEW e \in Endpoint, e.uart = NoFrame
    PROVE  /\ link_send_queued_packet(s, e) \in Endpoint
           /\ Step(e, link_send_queued_packet(s, e))
  <1>1. CASE link_have_outgoing_packet(e)
    <2> DEFINE q == slip_send_frame_with_dic(e, PacketFrame(e))
    <2>1. FrameFrom(e, PacketFrame(e))
      <3>1. e.packet \in {"DATA", "SCO"}
        BY <1>1 DEF link_have_outgoing_packet, Endpoint
      <3> QED BY <3>1, SeqModulusAssumption
              DEF FrameFrom, PacketFrame, Frame, FrameTypes, ConfigFields,
                  Endpoint
    <2>2. q \in Endpoint /\ Step(e, q)
      BY <2>1, SendFrameStep
    <2>3. /\ inactivity_timer_set(s, q) \in Endpoint
          /\ Step(q, inactivity_timer_set(s, q))
      BY <2>2, InactivityTimerQuiet, QuietStep
    <2> HIDE DEF q
    <2>4. Step(e, inactivity_timer_set(s, q))
      BY <2>2, <2>3, StepTransitive
    <2> QED BY <1>1, <2>3, <2>4 DEF link_send_queued_packet, q
  <1>2. CASE ~link_have_outgoing_packet(e)
    BY <1>2, FaultQuiet, QuietStep DEF link_send_queued_packet
  <1> QED BY <1>1, <1>2

\* The action link_run picks is one of those it can send.
LEMMA FirstActionSendable ==
    ASSUME NEW e \in Endpoint, e.actions \cap Sendable # {}
    PROVE  FirstAction(e) \in Sendable
  <1> DEFINE P(i) == /\ RunOrder[i] \in e.actions
                     /\ \A j \in 1..i - 1 : RunOrder[j] \notin e.actions
  <1>1. PICK k \in 1..10 : RunOrder[k] \in e.actions
    BY DEF Sendable
  <1>2. \E i \in 1..10 : P(i)
    <2>1. CASE \A j \in 1..9 : RunOrder[j] \notin e.actions
      BY <1>1, <2>1
    <2>2. CASE \E j \in 1..9 : RunOrder[j] \in e.actions
      <3> DEFINE T == {j \in 1..9 : RunOrder[j] \in e.actions}
      <3>1. \E i \in T : \A j \in T : i <= j
        BY <2>2
      <3> QED BY <3>1
    <2> QED BY <2>1, <2>2
  <1>3. (CHOOSE i \in 1..10 : P(i)) \in 1..10
    BY <1>2
  <1> QED BY <1>3 DEF FirstAction, Sendable
-----------------------------------------------------------------------------
(* hci_transport_link_run.                                                 *)

\* Whatever hci_transport_link_run picks, serving it is a Step.
LEMMA ServeStep ==
    ASSUME NEW s, ConfigField[s] \in ConfigFields,
           NEW e \in Endpoint, e.uart = NoFrame, NEW a \in Sendable
    PROVE  link_serve(s, e, a) \in Endpoint /\ Step(e, link_serve(s, e, a))
  <1> DEFINE q == Served(e, a)
  <1>1. /\ q \in Endpoint /\ Quiet(e, q) /\ Step(e, q)
        /\ q.uart = NoFrame
    BY ServedQuiet, QuietStep DEF Quiet
  <1>2. ASSUME NEW r \in Endpoint, Step(q, r)
        PROVE  r \in Endpoint /\ Step(e, r)
    BY <1>1, <1>2, StepTransitive
  <1>3. a \in Actions /\ "absent" \in ConfigFields
    BY DEF Actions, ConfigFields
  <1> HIDE DEF q
  <1>4. CASE a \in {"CONFIG", "CONFIG_RESPONSE", "CONFIG_RESPONSE_EMPTY"}
    <2>1. \A type \in {"CONFIG", "CONFIG_RESPONSE"}, cfg \in ConfigFields :
             link_send_control(q, type, cfg) \in Endpoint
             /\ Step(q, link_send_control(q, type, cfg))
      BY <1>1, SendControlStep DEF ControlTypes
    <2>2. \A type \in {"CONFIG", "CONFIG_RESPONSE"}, cfg \in ConfigFields :
             link_send_control(q, type, cfg) \in Endpoint
             /\ Step(e, link_send_control(q, type, cfg))
      BY <2>1, <1>2
    <2> QED BY <1>3, <1>4, <2>2 DEF link_serve, q
  <1>5. CASE a = "QUEUED_PACKET"
    <2> DEFINE p == Served(q, "ACK_PACKET")
    <2>1. p \in Endpoint /\ Step(q, p) /\ p.uart = NoFrame
      BY <1>1, ServedQuiet, QuietStep DEF Quiet
    <2> HIDE DEF p
    <2>2. /\ link_send_queued_packet(s, p) \in Endpoint
          /\ Step(p, link_send_queued_packet(s, p))
      BY <2>1, SendQueuedStep
    <2>3. Step(q, link_send_queued_packet(s, p))
      BY <1>1, <2>1, <2>2, StepTransitive
    <2> QED BY <1>2, <1>5, <2>2, <2>3 DEF link_serve, p, q
  <1>6. CASE a = "ACK_PACKET"
    BY <1>1, <1>2, <1>6, SendAckStep DEF link_serve, q
  <1>7. CASE a = "SLEEP"
    <2> DEFINE p == Request(q, "ENTER_SLEEP")
               w == [p EXCEPT !.peer_asleep = TRUE]
    <2>1. p \in Endpoint /\ Quiet(q, p)
      BY <1>1, RequestQuiet DEF Actions
    <2>2. w \in Endpoint /\ Quiet(p, w)
      BY <2>1, PeerAsleepQuiet
    <2> HIDE DEF p, w
    <2>3. w \in Endpoint /\ Step(q, w) /\ w.uart = NoFrame
      BY <1>1, <2>1, <2>2, QuietTransitive, QuietStep DEF Quiet
    <2>4. /\ link_send_control(w, "SLEEP", "absent") \in Endpoint
          /\ Step(w, link_send_control(w, "SLEEP", "absent"))
      BY <1>3, <2>3, SendControlStep DEF ControlTypes
    <2>5. Step(q, link_send_control(w, "SLEEP", "absent"))
      BY <1>1, <2>3, <2>4, StepTransitive
    <2> QED BY <1>2, <1>7, <2>4, <2>5 DEF link_serve, p, q, w
  <1>8. CASE a \in {"SYNC", "SYNC_RESPONSE", "WOKEN", "WAKEUP"}
    <2>1. /\ link_send_control(q, a, "absent") \in Endpoint
          /\ Step(q, link_send_control(q, a, "absent"))
      BY <1>1, <1>3, <1>8, SendControlStep DEF ControlTypes
    <2> QED BY <1>2, <1>8, <2>1 DEF link_serve, q
  <1>9. a \in {"SYNC", "SYNC_RESPONSE", "CONFIG", "CONFIG_RESPONSE",
               "CONFIG_RESPONSE_EMPTY", "WOKEN", "WAKEUP", "QUEUED_PACKET",
               "ACK_PACKET", "SLEEP"}
    BY DEF Sendable, RunOrder
  <1> QED BY <1>4, <1>5, <1>6, <1>7, <1>8, <1>9

\* hci_transport_link_run as a whole is a Step.
LEMMA RunStep ==
    ASSUME NEW s, ConfigField[s] \in ConfigFields, NEW e \in Endpoint
    PROVE  link_run(s, e) \in Endpoint /\ Step(e, link_run(s, e))
  <1>1. CASE e.uart # NoFrame \/ e.actions \cap Sendable = {}
    BY <1>1, QuietStep DEF link_run, Quiet
  <1>2. CASE ~(e.uart # NoFrame \/ e.actions \cap Sendable = {})
    BY <1>2, FirstActionSendable, ServeStep DEF link_run
  <1> QED BY <1>1, <1>2
-----------------------------------------------------------------------------
(* Calls of the upper layer.                                               *)

\* hci_transport_h5_queue_packet on an active link with an empty queue is a Step.
LEMMA QueueStep ==
    ASSUME NEW e \in Endpoint, NEW type \in {"DATA", "SCO"},
           h5_can_send_packet_now(e), type = "DATA" => e.submitted < MaxSend
    PROVE  h5_queue_packet(e, type) \in Endpoint
           /\ Step(e, h5_queue_packet(e, type))
  <1> DEFINE n == IF type = "DATA" THEN e.submitted + 1 ELSE e.submitted
             r == [e EXCEPT !.packet = type, !.packet_type = type,
                            !.submitted = n]
  <1>1. n \in Nat
    BY DEF Endpoint
  <1> HIDE DEF n
  <1>2. /\ r \in Endpoint
        /\ r.packet = type /\ r.packet_type = type /\ r.submitted = n
        /\ r.uart = e.uart /\ r.uart_done = e.uart_done
        /\ r.link_state = e.link_state /\ r.seq_nr = e.seq_nr
        /\ r.ack_nr = e.ack_nr /\ r.accepted = e.accepted
        /\ r.received = e.received
    BY <1>1 DEF Endpoint
  <1>3. r = h5_queue_packet(e, type)
    BY DEF h5_queue_packet, n
  <1>4. e.packet = "none" /\ e.link_state = "ACTIVE"
    BY DEF h5_can_send_packet_now, link_have_outgoing_packet
  <1> HIDE DEF r
  <1>5. Step(e, r)
    BY <1>2, <1>4 DEF Step, TypeMatches, n
  <1> QED BY <1>2, <1>3, <1>5

\* Asking for a wakeup message before the packet is a Step.
LEMMA WakeupFirstStep ==
    ASSUME NEW s, NEW e \in Endpoint
    PROVE  WakeupFirst(s, e) \in Endpoint /\ Step(e, WakeupFirst(s, e))
  <1> DEFINE q == h5_emit_sleep_state(e, FALSE)
             b == q.uart_asleep /\ s \notin UartSleep
             w == [q EXCEPT !.uart_asleep = b]
  <1>1. q \in Endpoint /\ Quiet(e, q)
    BY EmitSleepQuiet
  <1>2. b \in BOOLEAN
    OBVIOUS
  <1> HIDE DEF q, b
  <1>3. w \in Endpoint /\ Quiet(q, w)
    BY <1>1, <1>2, UartAsleepQuiet
  <1> HIDE DEF w
  <1>4. Request(w, "WAKEUP") \in Endpoint /\ Quiet(w, Request(w, "WAKEUP"))
    BY <1>3, RequestQuiet DEF Actions, Sendable, RunOrder
  <1>5. Quiet(e, Request(w, "WAKEUP"))
    BY <1>1, <1>3, <1>4, QuietTransitive
  <1> QED BY <1>4, <1>5, QuietStep DEF WakeupFirst, q, b, w

\* hci_transport_h5_send_packet is a Step.
LEMMA SendPacketStep ==
    ASSUME NEW s, ConfigField[s] \in ConfigFields, NEW e \in Endpoint,
           NEW type \in {"DATA", "SCO"}, type = "DATA" => e.submitted < MaxSend
    PROVE  h5_send_packet(s, e, type) \in Endpoint
           /\ Step(e, h5_send_packet(s, e, type))
  <1>1. CASE ~h5_can_send_packet_now(e)
    BY <1>1, QuietStep DEF h5_send_packet, Quiet
  <1>2. CASE h5_can_send_packet_now(e)
    <2> DEFINE q == h5_queue_packet(e, type)
               w == IF e.peer_asleep THEN WakeupFirst(s, q)
                                     ELSE Request(q, "QUEUED_PACKET")
               t == link_set_timer(w)
    <2>1. q \in Endpoint /\ Step(e, q)
      BY <1>2, QueueStep
    <2> HIDE DEF q
    <2>2. w \in Endpoint /\ Step(q, w)
      <3>1. "QUEUED_PACKET" \in Actions
        BY DEF Actions, Sendable, RunOrder
      <3> QED BY <2>1, <3>1, WakeupFirstStep, RequestQuiet, QuietStep
    <2> HIDE DEF w
    <2>3. t \in Endpoint /\ Step(w, t)
      BY <2>2, SetTimerQuiet, QuietStep
    <2> HIDE DEF t
    <2>4. link_run(s, t) \in Endpoint /\ Step(t, link_run(s, t))
      BY <2>3, RunStep
    <2>5. Step(e, w)
      BY <2>1, <2>2, StepTransitive
    <2>6. Step(e, t)
      BY <2>2, <2>3, <2>5, StepTransitive
    <2>7. Step(e, link_run(s, t))
      BY <2>3, <2>4, <2>6, StepTransitive
    <2> QED BY <1>2, <2>4, <2>7 DEF h5_send_packet, q, w, t
  <1> QED BY <1>1, <1>2

\* hci_transport_h5_set_baudrate is a Step.
LEMMA SetBaudrateStep ==
    ASSUME NEW s, ConfigField[s] \in ConfigFields, NEW e \in Endpoint
    PROVE  h5_set_baudrate(s, e) \in Endpoint /\ Step(e, h5_set_baudrate(s, e))
  <1> DEFINE q == Request(e, "SET_BAUDRATE")
  <1>1. q \in Endpoint /\ Step(e, q)
    BY RequestQuiet, QuietStep DEF Actions
  <1> HIDE DEF q
  <1>2. link_run(s, q) \in Endpoint /\ Step(e, link_run(s, q))
    BY <1>1, RunStep, StepTransitive
  <1>3. [e EXCEPT !.baud = @ + 1] \in Endpoint /\ Step(e, [e EXCEPT !.baud = @ + 1])
    BY BaudQuiet, QuietStep
  <1> QED BY <1>2, <1>3 DEF h5_set_baudrate, q

AnyCall == {"none", "DATA", "SCO", "BAUD"}

\* Any call of the upper layer is a Step.
LEMMA UpperStep ==
    ASSUME NEW s, ConfigField[s] \in ConfigFields, NEW e \in Endpoint,
           NEW call \in AnyCall
    PROVE  Upper(s, e, call) \in Endpoint /\ Step(e, Upper(s, e, call))
  <1>1. e \in Endpoint /\ Step(e, e)
    BY QuietStep DEF Quiet
  <1> QED BY <1>1, SetBaudrateStep, SendPacketStep DEF Upper, MayCall, AnyCall
-----------------------------------------------------------------------------
(* The timers and the end of a write.                                      *)

\* Request an action, start the link timer, run: a Step.
LEMMA RequestTimerRunStep ==
    ASSUME NEW s, ConfigField[s] \in ConfigFields, NEW e \in Endpoint,
           NEW a \in Actions
    PROVE  LET r == link_run(s, link_set_timer(Request(e, a)))
           IN  r \in Endpoint /\ Step(e, r)
  <1> DEFINE q == Request(e, a)
             t == link_set_timer(q)
  <1>1. q \in Endpoint /\ Quiet(e, q)
    BY RequestQuiet
  <1> HIDE DEF q
  <1>2. t \in Endpoint /\ Quiet(q, t)
    BY <1>1, SetTimerQuiet
  <1> HIDE DEF t
  <1>3. Step(e, t)
    BY <1>1, <1>2, QuietTransitive, QuietStep
  <1>4. link_run(s, t) \in Endpoint /\ Step(e, link_run(s, t))
    BY <1>2, <1>3, RunStep, StepTransitive
  <1> QED BY <1>4 DEF q, t

\* The retransmission timer's handler is a Step.
LEMMA LinkTimeoutStep ==
    ASSUME NEW s, ConfigField[s] \in ConfigFields, NEW e \in Endpoint
    PROVE  link_timeout_handler(s, e) \in Endpoint
           /\ Step(e, link_timeout_handler(s, e))
  <1> DEFINE q == [e EXCEPT !.link_timer = FALSE]
             R(a) == link_run(s, link_set_timer(Request(q, a)))
  <1>1. q \in Endpoint /\ Step(e, q)
    BY TimerOffQuiet, QuietStep
  <1> HIDE DEF q
  <1>2. \A a \in {"SYNC", "CONFIG", "WAKEUP", "QUEUED_PACKET"} :
           R(a) \in Endpoint /\ Step(q, R(a))
    BY <1>1, RequestTimerRunStep DEF Actions, Sendable, RunOrder
  <1>3. \A a \in {"SYNC", "CONFIG", "WAKEUP", "QUEUED_PACKET"} :
           R(a) \in Endpoint /\ Step(e, R(a))
    BY <1>1, <1>2, StepTransitive
  <1>4. link_timeout_handler(s, e)
          \in {q, R("SYNC"), R("CONFIG"), R("WAKEUP"), R("QUEUED_PACKET")}
    BY DEF link_timeout_handler, q
  <1> QED BY <1>1, <1>3, <1>4

\* The inactivity timer's handler is a Step.
LEMMA InactivityTimeoutStep ==
    ASSUME NEW s, ConfigField[s] \in ConfigFields, NEW e \in Endpoint
    PROVE  inactivity_timeout_handler(s, e) \in Endpoint
           /\ Step(e, inactivity_timeout_handler(s, e))
  <1> DEFINE q == [e EXCEPT !.inactivity_timer = FALSE]
             p == Request(q, "SLEEP")
  <1>1. q \in Endpoint /\ Step(e, q)
    BY TimerOffQuiet, QuietStep
  <1> HIDE DEF q
  <1>2. p \in Endpoint /\ Step(q, p)
    BY <1>1, RequestQuiet, QuietStep DEF Actions, Sendable, RunOrder
  <1> HIDE DEF p
  <1>3. link_run(s, p) \in Endpoint /\ Step(q, link_run(s, p))
    BY <1>2, <1>1, RunStep, StepTransitive
  <1>4. Step(e, link_run(s, p))
    BY <1>1, <1>3, StepTransitive
  <1>5. inactivity_timeout_handler(s, e) \in {q, link_run(s, p)}
    BY DEF inactivity_timeout_handler, q, p
  <1> QED BY <1>1, <1>3, <1>4, <1>5

\* An endpoint whose write has ended.
Idle(e) == [e EXCEPT !.uart = NoFrame, !.uart_done = FALSE]

\* Clearing a queue that holds no reliable packet is a Step.
LEMMA ClearQueueStep ==
    ASSUME NEW e \in Endpoint, e.packet # "DATA"
    PROVE  link_clear_queue(e) \in Endpoint /\ Step(e, link_clear_queue(e))
  <1> DEFINE r == link_clear_queue(e)
  <1>1. /\ r \in Endpoint
        /\ r.packet = "none" /\ r.submitted = e.submitted
        /\ r.uart = e.uart /\ r.uart_done = e.uart_done
        /\ r.link_state = e.link_state /\ r.seq_nr = e.seq_nr
        /\ r.ack_nr = e.ack_nr /\ r.accepted = e.accepted
        /\ r.received = e.received
    BY DEF link_clear_queue, Endpoint
  <1> HIDE DEF r
  <1>2. Step(e, r)
    BY <1>1 DEF Step, TypeMatches
  <1> QED BY <1>1, <1>2 DEF r

\* Carrying out a pending baud rate change is a Step.
LEMMA ApplyBaudrateStep ==
    ASSUME NEW e \in Endpoint
    PROVE  ApplyBaudrate(e) \in Endpoint /\ Step(e, ApplyBaudrate(e))
           /\ ApplyBaudrate(e).packet = e.packet
  <1> DEFINE q == Served(e, "SET_BAUDRATE")
             r == [q EXCEPT !.baud = @ + 1]
  <1>1. q \in Endpoint /\ Quiet(e, q)
    BY ServedQuiet
  <1> HIDE DEF q
  <1>2. r \in Endpoint /\ Quiet(q, r)
    BY <1>1, BaudQuiet
  <1> HIDE DEF r
  <1>3. Quiet(e, r) /\ Quiet(e, e)
    BY <1>1, <1>2, QuietTransitive DEF Quiet
  <1>4. ApplyBaudrate(e) \in {e, r}
    BY DEF ApplyBaudrate, q, r
  <1> QED BY <1>2, <1>3, <1>4, QuietStep DEF Quiet

\* Telling the upper layer of the sleep state, with what it does then, is a Step.
LEMMA SleepReportedStep ==
    ASSUME NEW s, ConfigField[s] \in ConfigFields, NEW e \in Endpoint,
           NEW call \in AnyCall
    PROVE  /\ SleepReported(s, e, call) \in Endpoint
           /\ Step(e, SleepReported(s, e, call))
  <1> DEFINE r == h5_emit_sleep_state(e, TRUE)
             u == Upper(s, r, call)
  <1>1. r \in Endpoint /\ Step(e, r) /\ Step(e, e)
    BY EmitSleepQuiet, QuietStep DEF Quiet
  <1> HIDE DEF r
  <1>2. u \in Endpoint /\ Step(r, u)
    BY <1>1, UpperStep
  <1> HIDE DEF u
  <1>3. Step(e, u)
    BY <1>1, <1>2, StepTransitive
  <1>4. SleepReported(s, e, call) \in {e, u}
    BY DEF SleepReported, r, u
  <1> QED BY <1>1, <1>2, <1>3, <1>4

\* Entering sleep after the SLEEP message is a Step.
LEMMA EnterSleepStep ==
    ASSUME NEW s, ConfigField[s] \in ConfigFields, NEW e \in Endpoint,
           NEW call \in AnyCall
    PROVE  /\ EnterSleep(s, e, call) \in Endpoint
           /\ Step(e, EnterSleep(s, e, call))
  <1> DEFINE q == Served(e, "ENTER_SLEEP")
             b == q.uart_asleep \/ s \in UartSleep
             w == [q EXCEPT !.uart_asleep = b]
             r == SleepReported(s, w, call)
  <1>1. q \in Endpoint /\ Quiet(e, q)
    BY ServedQuiet
  <1>2. b \in BOOLEAN
    OBVIOUS
  <1> HIDE DEF q, b
  <1>3. w \in Endpoint /\ Quiet(q, w)
    BY <1>1, <1>2, UartAsleepQuiet
  <1> HIDE DEF w
  <1>4. r \in Endpoint /\ Step(w, r)
    BY <1>3, SleepReportedStep
  <1> HIDE DEF r
  <1>5. Step(e, w) /\ Step(e, e)
    BY <1>1, <1>3, QuietTransitive, QuietStep DEF Quiet
  <1>6. Step(e, r)
    BY <1>3, <1>4, <1>5, StepTransitive
  <1>7. EnterSleep(s, e, call) \in {e, r}
    BY DEF EnterSleep, q, b, w, r
  <1> QED BY <1>4, <1>5, <1>6, <1>7

\* hci_transport_h5_frame_sent frees the UART and then does a Step.
LEMMA FrameSentStep ==
    ASSUME NEW s, ConfigField[s] \in ConfigFields, NEW e \in Endpoint,
           TypeMatches(e), NEW sleepCall \in AnyCall, NEW sentCall \in AnyCall
    PROVE  /\ Idle(e) \in Endpoint
           /\ h5_frame_sent(s, e, sleepCall, sentCall) \in Endpoint
           /\ Step(Idle(e), h5_frame_sent(s, e, sleepCall, sentCall))
  <1> DEFINE i == Idle(e)
             b == ApplyBaudrate(i)
             q == EnterSleep(s, b, sleepCall)
             c == link_clear_queue(q)
             u == Upper(s, c, sentCall)
             x == IF q.packet_type = "SCO" THEN u ELSE q
  <1>1. i \in Endpoint /\ TypeMatches(i)
    BY DEF Idle, Endpoint, TypeMatches
  <1> HIDE DEF i
  <1>2. b \in Endpoint /\ Step(i, b)
    BY <1>1, ApplyBaudrateStep
  <1> HIDE DEF b
  <1>3. q \in Endpoint /\ Step(i, q)
    BY <1>1, <1>2, EnterSleepStep, StepTransitive
  <1> HIDE DEF q
  <1>4. x \in Endpoint /\ Step(i, x)
    <2>1. CASE q.packet_type = "SCO"
      <3>1. q.packet # "DATA"
        BY <1>1, <1>3, <2>1 DEF TypeMatches, Step
      <3>2. c \in Endpoint /\ Step(i, c)
        BY <1>1, <1>3, <3>1, ClearQueueStep, StepTransitive
      <3> HIDE DEF c
      <3>3. u \in Endpoint /\ Step(i, u)
        BY <1>1, <3>2, UpperStep, StepTransitive
      <3> QED BY <2>1, <3>3
    <2>2. CASE q.packet_type # "SCO"
      BY <2>2, <1>3
    <2> QED BY <2>1, <2>2
  <1> HIDE DEF x
  <1>5. link_run(s, x) \in Endpoint /\ Step(i, link_run(s, x))
    BY <1>1, <1>4, RunStep, StepTransitive
  <1>6. h5_frame_sent(s, e, sleepCall, sentCall) = link_run(s, x)
    BY DEF h5_frame_sent, Idle, i, b, q, c, u, x
  <1> QED BY <1>1, <1>5, <1>6 DEF i
-----------------------------------------------------------------------------
(* Processing a frame.                                                     *)

\* What a received frame f does to e itself, before the upper layer's calls and
\* link_run, which follow as a Step.
FrameEffect(e, f, q) ==
    /\ q.uart = e.uart
    /\ q.uart_done = e.uart_done
    /\ q.submitted = e.submitted
    /\ TypeMatches(e) => TypeMatches(q)
    /\ \/ /\ e.link_state # "ACTIVE"
          /\ q.packet = e.packet
          /\ q.accepted = e.accepted
          /\ q.received = e.received
          /\ q.seq_nr \in {e.seq_nr, 0}
          /\ q.ack_nr \in {e.ack_nr, 0}
          /\ q.link_state = "ACTIVE" => q.seq_nr = 0 /\ q.ack_nr = 0
          /\ e.link_state = "UNINITIALIZED" /\ f.type # "SYNC_RESPONSE" =>
                q.link_state = "UNINITIALIZED"
       \/ /\ e.link_state = "ACTIVE" /\ q.link_state = "ACTIVE"
          /\ IF f.type = "DATA" /\ InSequence(e, f)
             THEN /\ q.ack_nr = link_inc_seq_nr(e.ack_nr)
                  /\ q.accepted = e.accepted + 1
                  /\ q.received = Append(e.received, f.n)
             ELSE /\ q.ack_nr = e.ack_nr
                  /\ q.accepted = e.accepted
                  /\ q.received = e.received
          /\ IF AckedBy(e, f) /\ (f.type = "DATA" => InSequence(e, f))
             THEN q.seq_nr = link_inc_seq_nr(e.seq_nr) /\ q.packet = "none"
             ELSE q.seq_nr = e.seq_nr /\ q.packet = e.packet

\* link_inc_seq_nr stays below the modulus.
LEMMA IncSeqNrType ==
    ASSUME NEW n \in 0..SeqModulus - 1
    PROVE  link_inc_seq_nr(n) \in 0..SeqModulus - 1
  BY SeqModulusAssumption DEF link_inc_seq_nr

\* A frame received while the link is not initialized.
LEMMA UninitializedEffect ==
    ASSUME NEW s, NEW e \in Endpoint, NEW f \in Frame,
           e.link_state = "UNINITIALIZED"
    PROVE  /\ FrameWhileUninitialized(s, e, f) \in Endpoint
           /\ FrameEffect(e, f, FrameWhileUninitialized(s, e, f))
  <1> DEFINE i == [e EXCEPT !.link_state = "INITIALIZED", !.link_timer = FALSE]
             p == Request(i, "CONFIG")
             t == link_set_timer(p)
  <1>1. /\ i \in Endpoint
        /\ i.seq_nr = e.seq_nr /\ i.ack_nr = e.ack_nr /\ i.packet = e.packet
        /\ i.packet_type = e.packet_type /\ i.submitted = e.submitted
        /\ i.accepted = e.accepted /\ i.received = e.received
        /\ i.uart = e.uart /\ i.uart_done = e.uart_done
        /\ i.link_state = "INITIALIZED"
    BY DEF Endpoint, LinkStates
  <1> HIDE DEF i
  <1>2. p \in Endpoint /\ Quiet(i, p)
    BY <1>1, RequestQuiet DEF Actions, Sendable, RunOrder
  <1> HIDE DEF p
  <1>3. t \in Endpoint /\ Quiet(p, t)
    BY <1>2, SetTimerQuiet
  <1> HIDE DEF t
  <1>4. f.type = "SYNC_RESPONSE" => FrameEffect(e, f, t)
    BY <1>1, <1>2, <1>3 DEF FrameEffect, Quiet, TypeMatches
  <1>5. AnswerSync(e) \in Endpoint /\ Quiet(e, AnswerSync(e)) /\ Quiet(e, e)
    BY RequestQuiet DEF AnswerSync, Actions, Sendable, RunOrder, Quiet
  <1>6. FrameEffect(e, f, AnswerSync(e)) /\ FrameEffect(e, f, e)
    BY <1>5 DEF FrameEffect, Quiet, TypeMatches
  <1>7. /\ FrameWhileUninitialized(s, e, f) \in {e, t, AnswerSync(e)}
        /\ f.type # "SYNC_RESPONSE" =>
              FrameWhileUninitialized(s, e, f) \in {e, AnswerSync(e)}
    BY DEF FrameWhileUninitialized, i, p, t
  <1> QED BY <1>3, <1>4, <1>5, <1>6, <1>7

\* A frame received while the link waits for its configuration.
LEMMA InitializedEffect ==
    ASSUME NEW s, ConfigField[s] \in ConfigFields, NEW e \in Endpoint,
           NEW f \in Frame, e.link_state = "INITIALIZED", NEW call \in AnyCall
    PROVE  LET r == FrameWhileInitialized(s, e, f, call)
           IN  /\ r \in Endpoint
               /\ \E q \in Endpoint : FrameEffect(e, f, q) /\ Step(q, r)
  <1> DEFINE a == LinkActivated(e, f)
             u == Upper(s, a, call)
             N(m) == Request(e, m)
  <1>1. /\ a \in Endpoint
        /\ a.seq_nr = 0 /\ a.ack_nr = 0 /\ a.packet = e.packet
        /\ a.packet_type = e.packet_type /\ a.submitted = e.submitted
        /\ a.accepted = e.accepted /\ a.received = e.received
        /\ a.uart = e.uart /\ a.uart_done = e.uart_done
    <2>1. SupportsDic(f.cfg) \in BOOLEAN /\ 0 \in 0..SeqModulus - 1
      BY SeqModulusAssumption DEF SupportsDic
    <2> QED BY <2>1 DEF LinkActivated, Endpoint, LinkStates
  <1> HIDE DEF a
  <1>2. FrameEffect(e, f, a)
    BY <1>1 DEF FrameEffect, TypeMatches
  <1>3. u \in Endpoint /\ Step(a, u)
    BY <1>1, UpperStep
  <1>4. \A m \in {"SYNC_RESPONSE", "CONFIG_RESPONSE", "CONFIG_RESPONSE_EMPTY"} :
           N(m) \in Endpoint /\ Quiet(e, N(m))
    BY RequestQuiet DEF Actions, Sendable, RunOrder
  <1>5. ASSUME NEW q \in Endpoint, Quiet(e, q)
        PROVE  FrameEffect(e, f, q) /\ Step(q, q)
    BY <1>5, QuietStep DEF FrameEffect, Quiet, TypeMatches
  <1>6. Quiet(e, e)
    BY DEF Quiet
  <1>7. FrameWhileInitialized(s, e, f, call)
           \in {e, u, N("SYNC_RESPONSE"), N("CONFIG_RESPONSE"),
                N("CONFIG_RESPONSE_EMPTY")}
    BY DEF FrameWhileInitialized, AnswerSync, a, u
  <1> HIDE DEF u, N
  <1> QED BY <1>1, <1>2, <1>3, <1>4, <1>5, <1>6, <1>7

\* Taking a reliable frame in sequence advances ack_nr and the count together.
LEMMA AcceptEffect ==
    ASSUME NEW e \in Endpoint, NEW f \in Frame
    PROVE  LET q == AcceptReliable(e, f)
           IN  /\ q \in Endpoint
               /\ IF f.type = "DATA"
                  THEN /\ q.ack_nr = link_inc_seq_nr(e.ack_nr)
                       /\ q.accepted = e.accepted + 1
                  ELSE q.ack_nr = e.ack_nr /\ q.accepted = e.accepted
               /\ q.link_state = e.link_state /\ q.seq_nr = e.seq_nr
               /\ q.packet = e.packet /\ q.packet_type = e.packet_type
               /\ q.submitted = e.submitted /\ q.received = e.received
               /\ q.uart = e.uart /\ q.uart_done = e.uart_done
  <1> DEFINE m == link_inc_seq_nr(e.ack_nr)
             p == [e EXCEPT !.ack_nr = m, !.accepted = e.accepted + 1]
  <1>1. m \in 0..SeqModulus - 1 /\ e.accepted + 1 \in Nat
    BY IncSeqNrType DEF Endpoint
  <1> HIDE DEF m
  <1>2. /\ p \in Endpoint
        /\ p.ack_nr = m /\ p.accepted = e.accepted + 1
        /\ p.link_state = e.link_state /\ p.seq_nr = e.seq_nr
        /\ p.packet = e.packet /\ p.packet_type = e.packet_type
        /\ p.submitted = e.submitted /\ p.received = e.received
        /\ p.uart = e.uart /\ p.uart_done = e.uart_done
    BY <1>1 DEF Endpoint
  <1> HIDE DEF p
  <1>3. Request(p, "ACK_PACKET") \in Endpoint /\ Quiet(p, Request(p, "ACK_PACKET"))
    BY <1>2, RequestQuiet DEF Actions, Sendable, RunOrder
  <1>4. AcceptReliable(e, f) = IF f.type = "DATA" THEN Request(p, "ACK_PACKET")
                                                  ELSE e
    BY DEF AcceptReliable, p, m
  <1> QED BY <1>2, <1>3, <1>4 DEF Quiet, m

\* The endpoint in which the packet f acknowledges has been reported as sent.
AckCleared(e) == link_clear_queue([e EXCEPT !.seq_nr = link_inc_seq_nr(@)])

\* An acknowledgement advances seq_nr and empties the queue.
LEMMA AckClearedEffect ==
    ASSUME NEW e \in Endpoint
    PROVE  LET q == AckCleared(e)
           IN  /\ q \in Endpoint
               /\ q.seq_nr = link_inc_seq_nr(e.seq_nr) /\ q.packet = "none"
               /\ q.ack_nr = e.ack_nr /\ q.accepted = e.accepted
               /\ q.link_state = e.link_state /\ q.packet_type = e.packet_type
               /\ q.submitted = e.submitted /\ q.received = e.received
               /\ q.uart = e.uart /\ q.uart_done = e.uart_done
  <1> DEFINE m == link_inc_seq_nr(e.seq_nr)
             p == [e EXCEPT !.seq_nr = m]
  <1>1. m \in 0..SeqModulus - 1
    BY IncSeqNrType DEF Endpoint
  <1> HIDE DEF m
  <1>2. /\ p \in Endpoint
        /\ p.seq_nr = m
        /\ p.ack_nr = e.ack_nr /\ p.accepted = e.accepted
        /\ p.link_state = e.link_state /\ p.packet_type = e.packet_type
        /\ p.submitted = e.submitted /\ p.received = e.received
        /\ p.uart = e.uart /\ p.uart_done = e.uart_done
    BY <1>1 DEF Endpoint
  <1> HIDE DEF p
  <1> DEFINE q == link_clear_queue(p)
  <1>3. /\ q \in Endpoint
        /\ q.packet = "none" /\ q.seq_nr = p.seq_nr
        /\ q.ack_nr = p.ack_nr /\ q.accepted = p.accepted
        /\ q.link_state = p.link_state /\ q.packet_type = p.packet_type
        /\ q.submitted = p.submitted /\ q.received = p.received
        /\ q.uart = p.uart /\ q.uart_done = p.uart_done
    BY <1>2 DEF Endpoint, link_clear_queue
  <1> HIDE DEF q
  <1>4. AckCleared(e) = q
    BY DEF AckCleared, q, p, m
  <1> QED BY <1>2, <1>3, <1>4 DEF m

\* Link control messages on an active link are Steps.
LEMMA ControlStep ==
    ASSUME NEW s, ConfigField[s] \in ConfigFields, NEW e \in Endpoint,
           NEW f \in Frame, NEW call \in AnyCall
    PROVE  ProcessControl(s, e, f, call) \in Endpoint
           /\ Step(e, ProcessControl(s, e, f, call))
  <1> DEFINE c == Request(e, "CONFIG_RESPONSE")
             y == [e EXCEPT !.uart_asleep = TRUE]
             x == SleepReported(s, y, call)
             z == IF s \in UartSleep THEN x ELSE e
             a == [z EXCEPT !.peer_asleep = TRUE]
             w == [e EXCEPT !.peer_asleep = FALSE]
             v == Request(w, "WOKEN")
  <1>1. c \in Endpoint /\ Step(e, c) /\ Step(e, e)
    BY RequestQuiet, QuietStep DEF Actions, Sendable, RunOrder, Quiet
  <1>2. w \in Endpoint /\ Quiet(e, w) /\ Step(e, w)
    BY PeerAsleepQuiet, QuietStep
  <1>3. y \in Endpoint /\ Step(e, y)
    BY UartAsleepQuiet, QuietStep
  <1> HIDE DEF y, w
  <1>4. x \in Endpoint /\ Step(e, x)
    BY <1>3, SleepReportedStep, StepTransitive
  <1> HIDE DEF x
  <1>5. z \in Endpoint /\ Step(e, z)
    BY <1>1, <1>4
  <1> HIDE DEF z
  <1>6. a \in Endpoint /\ Step(e, a)
    BY <1>5, PeerAsleepQuiet, QuietStep, StepTransitive
  <1>7. v \in Endpoint /\ Step(e, v)
    <2>1. "WOKEN" \in Actions
      BY DEF Actions, Sendable, RunOrder
    <2> QED BY <1>2, <2>1, RequestQuiet, QuietTransitive, QuietStep
  <1>8. ProcessControl(s, e, f, call) \in {c, e, a, v, w}
    BY DEF ProcessControl, c, a, x, y, z, v, w
  <1> HIDE DEF c, a, v
  <1> QED BY <1>1, <1>2, <1>6, <1>7, <1>8

\* Delivering a packet appends it to what was received; apart from that it is a
\* Step, also when it comes after one.
LEMMA DeliverStep ==
    ASSUME NEW s, ConfigField[s] \in ConfigFields,
           NEW c \in Endpoint, NEW e \in Endpoint, Step(c, e),
           NEW f \in Frame, NEW call \in AnyCall
    PROVE  LET l == IF f.type = "DATA" THEN Append(c.received, f.n)
                                       ELSE c.received
               q == [c EXCEPT !.received = l]
               r == Deliver(s, e, f, call)
           IN  q \in Endpoint /\ r \in Endpoint /\ Step(q, r)
  <1> DEFINE l == IF f.type = "DATA" THEN Append(c.received, f.n)
                                     ELSE c.received
             q == [c EXCEPT !.received = l]
             d == [e EXCEPT !.peer_asleep = FALSE, !.received = l]
             u == Upper(s, d, call)
             r == inactivity_timer_set(s, u)
  <1>1. l \in Seq(Nat) /\ e.received = c.received
    BY DEF Endpoint, Frame, Step
  <1>2. Deliver(s, e, f, call) = r
    BY <1>1 DEF Deliver
  <1> HIDE DEF l
  <1>3. /\ q \in Endpoint /\ q.received = l
        /\ q.link_state = c.link_state /\ q.seq_nr = c.seq_nr
        /\ q.ack_nr = c.ack_nr /\ q.packet = c.packet
        /\ q.packet_type = c.packet_type /\ q.submitted = c.submitted
        /\ q.accepted = c.accepted
        /\ q.uart = c.uart /\ q.uart_done = c.uart_done
    BY <1>1 DEF Endpoint
  <1>4. /\ d \in Endpoint /\ d.received = l
        /\ d.link_state = e.link_state /\ d.seq_nr = e.seq_nr
        /\ d.ack_nr = e.ack_nr /\ d.packet = e.packet
        /\ d.packet_type = e.packet_type /\ d.submitted = e.submitted
        /\ d.accepted = e.accepted
        /\ d.uart = e.uart /\ d.uart_done = e.uart_done
    BY <1>1 DEF Endpoint
  <1> HIDE DEF q, d
  <1>5. Step(q, d)
    BY <1>3, <1>4 DEF Step, FrameFrom, TypeMatches
  <1>6. u \in Endpoint /\ Step(q, u)
    BY <1>3, <1>4, <1>5, UpperStep, StepTransitive
  <1> HIDE DEF u
  <1>7. r \in Endpoint /\ Step(q, r)
    BY <1>3, <1>6, InactivityTimerQuiet, QuietStep, StepTransitive
  <1> HIDE DEF r
  <1> QED BY <1>2, <1>3, <1>7 DEF q, l

\* A frame received on an active link has its FrameEffect, then does a Step.
LEMMA ActiveEffect ==
    ASSUME NEW s, ConfigField[s] \in ConfigFields, NEW e \in Endpoint,
           NEW f \in Frame, e.link_state = "ACTIVE",
           NEW ackCall \in AnyCall, NEW rxCall \in AnyCall
    PROVE  LET r == FrameWhileActive(s, e, f, ackCall, rxCall)
           IN  /\ r \in Endpoint
               /\ \E q \in Endpoint : FrameEffect(e, f, q) /\ Step(q, r)
  <1> DEFINE r == FrameWhileActive(s, e, f, ackCall, rxCall)
  <1>1. CASE f.type = "DATA" /\ ~InSequence(e, f)
    <2>1. r = Request(e, "ACK_PACKET")
      BY <1>1 DEF FrameWhileActive, OutOfSequence
    <2>2. r \in Endpoint /\ Quiet(e, r)
      BY <2>1, RequestQuiet DEF Actions, Sendable, RunOrder
    <2> HIDE DEF r
    <2>3. FrameEffect(e, f, r) /\ Step(r, r)
      BY <1>1, <2>2, QuietStep DEF FrameEffect, Quiet, TypeMatches
    <2> QED BY <2>2, <2>3 DEF r
  <1>2. CASE ~(f.type = "DATA" /\ ~InSequence(e, f))
    <2> DEFINE a == AcceptReliable(e, f)
               c == IF AckedBy(a, f) THEN AckCleared(a) ELSE a
               x == ProcessAck(s, a, f, ackCall)
               l == IF f.type = "DATA" THEN Append(c.received, f.n)
                                       ELSE c.received
               q == [c EXCEPT !.received = l]
    <2>1. /\ a \in Endpoint
          /\ IF f.type = "DATA"
             THEN /\ a.ack_nr = link_inc_seq_nr(e.ack_nr)
                  /\ a.accepted = e.accepted + 1
             ELSE a.ack_nr = e.ack_nr /\ a.accepted = e.accepted
          /\ a.link_state = e.link_state /\ a.seq_nr = e.seq_nr
          /\ a.packet = e.packet /\ a.packet_type = e.packet_type
          /\ a.submitted = e.submitted /\ a.received = e.received
          /\ a.uart = e.uart /\ a.uart_done = e.uart_done
      BY AcceptEffect
    <2> HIDE DEF a
    <2>2. AckedBy(a, f) <=> AckedBy(e, f)
      BY <2>1 DEF AckedBy, link_have_outgoing_packet
    <2>3. /\ c \in Endpoint
          /\ IF AckedBy(e, f)
             THEN c.seq_nr = link_inc_seq_nr(e.seq_nr) /\ c.packet = "none"
             ELSE c.seq_nr = e.seq_nr /\ c.packet = e.packet
          /\ c.ack_nr = a.ack_nr /\ c.accepted = a.accepted
          /\ c.link_state = e.link_state /\ c.packet_type = e.packet_type
          /\ c.submitted = e.submitted /\ c.received = e.received
          /\ c.uart = e.uart /\ c.uart_done = e.uart_done
      BY <2>1, <2>2, AckClearedEffect
    <2>4. x = IF AckedBy(a, f) THEN Upper(s, c, ackCall) ELSE c
      BY DEF ProcessAck, AckCleared
    <2> HIDE DEF c, x
    <2>5. x \in Endpoint /\ Step(c, x)
      BY <2>3, <2>4, UpperStep, QuietStep DEF Quiet
    <2>6. /\ q \in Endpoint /\ q.received = l
          /\ q.link_state = c.link_state /\ q.seq_nr = c.seq_nr
          /\ q.ack_nr = c.ack_nr /\ q.packet = c.packet
          /\ q.packet_type = c.packet_type /\ q.submitted = c.submitted
          /\ q.accepted = c.accepted
          /\ q.uart = c.uart /\ q.uart_done = c.uart_done
      <3>1. l \in Seq(Nat)
        BY <2>3 DEF Endpoint, Frame
      <3> HIDE DEF l
      <3> QED BY <2>3, <3>1 DEF Endpoint
    <2>7. FrameEffect(e, f, q)
      <3> HIDE DEF q
      <3>1. TypeMatches(e) => TypeMatches(q)
        BY <2>3, <2>6 DEF TypeMatches
      <3> QED BY <1>2, <2>1, <2>3, <2>6, <3>1 DEF FrameEffect
    <2>8. CASE f.type \in ControlTypes
      <3>1. r = ProcessControl(s, x, f, rxCall)
        BY <1>2, <2>8 DEF FrameWhileActive, ControlTypes, x, a
      <3>2. r \in Endpoint /\ Step(c, r)
        BY <2>3, <2>5, <3>1, ControlStep, StepTransitive
      <3>3. FrameEffect(e, f, c)
        BY <1>2, <2>1, <2>3, <2>8 DEF FrameEffect, TypeMatches, ControlTypes
      <3> QED BY <2>3, <3>2, <3>3
    <2>9. CASE f.type \in {"DATA", "SCO"}
      <3>1. r = Deliver(s, x, f, rxCall)
        BY <1>2, <2>9 DEF FrameWhileActive, ControlTypes, x, a
      <3> HIDE DEF r
      <3>2. Deliver(s, x, f, rxCall) \in Endpoint /\ Step(q, Deliver(s, x, f, rxCall))
        BY <2>3, <2>5, DeliverStep, Zenon
      <3>3. r \in Endpoint /\ Step(q, r)
        BY <3>1, <3>2
      <3> HIDE DEF q
      <3> QED BY <2>6, <2>7, <3>3 DEF r
    <2>10. CASE f.type = "ACK"
      <3>1. r = x
        BY <1>2, <2>10 DEF FrameWhileActive, ControlTypes, x, a
      <3>2. FrameEffect(e, f, c)
        BY <1>2, <2>1, <2>3, <2>10 DEF FrameEffect, TypeMatches
      <3> QED BY <2>3, <2>5, <3>1, <3>2
    <2> QED BY <2>8, <2>9, <2>10 DEF Frame, FrameTypes
  <1> QED BY <1>1, <1>2

\* hci_transport_h5_process_frame: the FrameEffect of the frame, then a Step.
LEMMA ProcessFrameEffect ==
    ASSUME NEW s, ConfigField[s] \in ConfigFields, NEW e \in Endpoint,
           NEW f \in Frame, NEW ackCall \in AnyCall, NEW rxCall \in AnyCall
    PROVE  LET r == h5_process_frame(s, e, f, ackCall, rxCall)
           IN  /\ r \in Endpoint
               /\ \E q \in Endpoint : FrameEffect(e, f, q) /\ Step(q, r)
  <1> DEFINE x == CASE e.link_state = "UNINITIALIZED" ->
                         FrameWhileUninitialized(s, e, f)
                    [] e.link_state = "INITIALIZED" ->
                         FrameWhileInitialized(s, e, f, ackCall)
                    [] OTHER -> FrameWhileActive(s, e, f, ackCall, rxCall)
  <1>1. x \in Endpoint /\ \E q \in Endpoint : FrameEffect(e, f, q) /\ Step(q, x)
    <2>1. CASE e.link_state = "UNINITIALIZED"
      <3>1. x = FrameWhileUninitialized(s, e, f)
        BY <2>1
      <3>2. x \in Endpoint /\ FrameEffect(e, f, x)
        BY <2>1, <3>1, UninitializedEffect
      <3> HIDE DEF x
      <3>3. Step(x, x)
        BY <3>2, QuietStep DEF Quiet
      <3> QED BY <3>2, <3>3
    <2>2. CASE e.link_state = "INITIALIZED"
      BY <2>2, InitializedEffect
    <2>3. CASE e.link_state = "ACTIVE"
      BY <2>3, ActiveEffect
    <2> QED BY <2>1, <2>2, <2>3 DEF Endpoint, LinkStates
  <1>2. h5_process_frame(s, e, f, ackCall, rxCall) = link_run(s, x)
    BY DEF h5_process_frame
  <1> HIDE DEF x
  <1>3. PICK q \in Endpoint : FrameEffect(e, f, q) /\ Step(q, x)
    BY <1>1
  <1>4. link_run(s, x) \in Endpoint /\ Step(x, link_run(s, x))
    BY <1>1, RunStep
  <1>5. Step(q, link_run(s, x))
    BY <1>1, <1>3, <1>4, StepTransitive
  <1> QED BY <1>2, <1>3, <1>4, <1>5

-----------------------------------------------------------------------------
(* The link timer and the order of what is written.                        *)

\* The link timer is registered while there is a packet to repeat and never on
\* an active link without one; the queue is empty and no acknowledgement is due
\* until the link is active.
Orderly(e) ==
    /\ e.link_timer => ~(e.link_state = "ACTIVE" /\ e.packet = "none")
    /\ e.packet # "none" => e.link_timer /\ e.link_state = "ACTIVE"
    /\ e.fault # "timer_registered"
    /\ "ACK_PACKET" \in e.actions => e.link_state = "ACTIVE"

\* The link may come to send a SYNC_RESPONSE.
MayAnswerSync(e) ==
    "SYNC_RESPONSE" \in e.actions \/ e.link_state # "ACTIVE"

\* From e to r the link stays up, an active link gets no new reason to answer a
\* SYNC, and a packet is only written when no SYNC_RESPONSE is left to write.
Tidy(e, r) ==
    /\ e.link_state = "ACTIVE" => r.link_state = "ACTIVE"
    /\ MayAnswerSync(r) => MayAnswerSync(e)
    /\ \/ r.uart = e.uart /\ r.uart_done = e.uart_done
       \/ /\ e.uart = NoFrame /\ r.uart # NoFrame
          /\ r.uart.type = "SYNC_RESPONSE" => MayAnswerSync(e)
          /\ r.uart.type = "DATA" => ~MayAnswerSync(r)
          /\ r.uart.type = "ACK" => r.link_state = "ACTIVE"

\* r is orderly and comes from e in a tidy way.
Neat(e, r) == Orderly(r) /\ Tidy(e, r)

\* Tidy steps compose.
LEMMA TidyTransitive ==
    ASSUME NEW e, NEW q, NEW r, Tidy(e, q), Tidy(q, r)
    PROVE  Tidy(e, r)
  BY DEF Tidy, MayAnswerSync

\* Neat steps compose.
LEMMA NeatTransitive ==
    ASSUME NEW e, NEW q, NEW r, Tidy(e, q), Neat(q, r)
    PROVE  Neat(e, r)
  BY TidyTransitive DEF Neat

\* r differs from e in nothing Orderly and Tidy speak of, but for actions of no
\* concern to them and actions that were served.
Mild(e, r) ==
    /\ r.link_state = e.link_state
    /\ r.packet = e.packet
    /\ r.link_timer = e.link_timer
    /\ r.uart = e.uart
    /\ r.uart_done = e.uart_done
    /\ r.fault \in {e.fault, "null_packet"}
    /\ \A a \in {"SYNC_RESPONSE", "ACK_PACKET"} :
           a \in r.actions => a \in e.actions

\* A mild update keeps an endpoint orderly.
LEMMA MildNeat ==
    ASSUME NEW e, NEW r, Mild(e, r)
    PROVE  Tidy(e, r) /\ (Orderly(e) => Orderly(r))
  BY DEF Mild, Orderly, Tidy, MayAnswerSync

\* Mild updates compose.
LEMMA MildTransitive ==
    ASSUME NEW e, NEW q, NEW r, Mild(e, q), Mild(q, r)
    PROVE  Mild(e, r)
  BY DEF Mild

\* Asking for anything but a SYNC_RESPONSE or an acknowledgement is mild.
LEMMA RequestMild ==
    ASSUME NEW e \in Endpoint,
           NEW a \in Actions \ {"SYNC_RESPONSE", "ACK_PACKET"}
    PROVE  Request(e, a) \in Endpoint /\ Mild(e, Request(e, a))
  BY DEF Request, Endpoint, Mild

\* Clearing a bit of link_actions is mild.
LEMMA ServedMild ==
    ASSUME NEW e \in Endpoint, NEW a
    PROVE  Served(e, a) \in Endpoint /\ Mild(e, Served(e, a))
  BY DEF Served, Endpoint, Mild

\* Sleep states, the inactivity timer and the baud rate are of no concern.
LEMMA FieldsMild ==
    ASSUME NEW e \in Endpoint, NEW b \in BOOLEAN
    PROVE  /\ [e EXCEPT !.inactivity_timer = b] \in Endpoint
           /\ Mild(e, [e EXCEPT !.inactivity_timer = b])
           /\ [e EXCEPT !.uart_asleep = b] \in Endpoint
           /\ Mild(e, [e EXCEPT !.uart_asleep = b])
           /\ [e EXCEPT !.peer_asleep = b] \in Endpoint
           /\ Mild(e, [e EXCEPT !.peer_asleep = b])
           /\ [e EXCEPT !.sleep_reported = b] \in Endpoint
           /\ Mild(e, [e EXCEPT !.sleep_reported = b])
           /\ [e EXCEPT !.baud = @ + 1] \in Endpoint
           /\ Mild(e, [e EXCEPT !.baud = @ + 1])
           /\ [e EXCEPT !.fault = "null_packet"] \in Endpoint
           /\ Mild(e, [e EXCEPT !.fault = "null_packet"])
  <1>1. e.baud + 1 \in Nat
    BY DEF Endpoint
  <1>2. ASSUME NEW n \in Nat
        PROVE  [e EXCEPT !.baud = n] \in Endpoint /\ Mild(e, [e EXCEPT !.baud = n])
    BY DEF Endpoint, Mild
  <1>3. [e EXCEPT !.baud = @ + 1] \in Endpoint /\ Mild(e, [e EXCEPT !.baud = @ + 1])
    BY <1>1, <1>2
  <1>4. /\ [e EXCEPT !.inactivity_timer = b] \in Endpoint
        /\ Mild(e, [e EXCEPT !.inactivity_timer = b])
    BY DEF Endpoint, Mild
  <1>5. /\ [e EXCEPT !.uart_asleep = b] \in Endpoint
        /\ Mild(e, [e EXCEPT !.uart_asleep = b])
    BY DEF Endpoint, Mild
  <1>6. /\ [e EXCEPT !.peer_asleep = b] \in Endpoint
        /\ Mild(e, [e EXCEPT !.peer_asleep = b])
    BY DEF Endpoint, Mild
  <1>7. /\ [e EXCEPT !.sleep_reported = b] \in Endpoint
        /\ Mild(e, [e EXCEPT !.sleep_reported = b])
    BY DEF Endpoint, Mild
  <1>8. /\ [e EXCEPT !.fault = "null_packet"] \in Endpoint
        /\ Mild(e, [e EXCEPT !.fault = "null_packet"])
    BY DEF Endpoint, Mild
  <1> QED BY <1>3, <1>4, <1>5, <1>6, <1>7, <1>8

\* Restarting the inactivity timer is mild.
LEMMA InactivityTimerMild ==
    ASSUME NEW s, NEW e \in Endpoint
    PROVE  /\ inactivity_timer_set(s, e) \in Endpoint
           /\ Mild(e, inactivity_timer_set(s, e))
  <1> DEFINE b == e.inactivity_timer \/ s \in AutoSleep
  <1>1. b \in BOOLEAN
    OBVIOUS
  <1> HIDE DEF b
  <1>2. /\ [e EXCEPT !.inactivity_timer = b] \in Endpoint
        /\ Mild(e, [e EXCEPT !.inactivity_timer = b])
    BY <1>1, FieldsMild
  <1> QED BY <1>2 DEF inactivity_timer_set, b

\* r is reached from e, keeps its link timer and does not recover from a fault.
Writes(e, r) ==
    /\ r \in Endpoint
    /\ Tidy(e, r)
    /\ Orderly(e) => Orderly(r)
    /\ r.link_timer = e.link_timer
    /\ r.fault \in {e.fault, "null_packet"}
    /\ r.uart # NoFrame \/ Faulted(r)

\* After a mild update a frame may be written that is not a SYNC_RESPONSE out of
\* the blue, not a packet ahead of a SYNC_RESPONSE and not an acknowledgement on
\* an inactive link.
LEMMA WriteServes ==
    ASSUME NEW e \in Endpoint, NEW q \in Endpoint, Mild(e, q), e.uart = NoFrame,
           NEW f \in Frame,
           f.type = "SYNC_RESPONSE" => MayAnswerSync(e),
           f.type = "DATA" => ~MayAnswerSync(q),
           f.type = "ACK" => e.link_state = "ACTIVE"
    PROVE  Writes(e, slip_send_frame_with_dic(q, f))
  <1> DEFINE r == slip_send_frame_with_dic(q, f)
  <1>1. /\ r \in Endpoint
        /\ r.uart = f /\ r.uart_done = FALSE
        /\ r.link_state = q.link_state /\ r.packet = q.packet
        /\ r.link_timer = q.link_timer /\ r.fault = q.fault
        /\ r.actions = q.actions
    BY DEF slip_send_frame_with_dic, Endpoint
  <1>2. f # NoFrame
    BY DEF NoFrame, Frame, FrameTypes, ControlTypes
  <1> HIDE DEF r
  <1>3. Tidy(e, r)
    BY <1>1, <1>2 DEF Mild, Tidy, MayAnswerSync
  <1>4. Orderly(e) => Orderly(r)
    BY <1>1 DEF Mild, Orderly
  <1>5. r.link_timer = e.link_timer /\ r.fault \in {e.fault, "null_packet"}
    BY <1>1 DEF Mild
  <1> QED BY <1>1, <1>2, <1>3, <1>4, <1>5 DEF Writes, r

\* So may a link control message that is not a SYNC_RESPONSE.
LEMMA ControlServes ==
    ASSUME NEW e \in Endpoint, NEW q \in Endpoint, Mild(e, q), e.uart = NoFrame,
           NEW type \in ControlTypes, NEW cfg \in ConfigFields,
           type = "SYNC_RESPONSE" => MayAnswerSync(e)
    PROVE  Writes(e, link_send_control(q, type, cfg))
  <1> DEFINE f == ControlFrame(q, type, cfg)
  <1>1. f \in Frame /\ f.type = type
    BY SeqModulusAssumption
    DEF ControlFrame, Frame, FrameTypes, ControlTypes, Endpoint
  <1>2. f.type \notin {"DATA", "ACK"}
    BY <1>1 DEF ControlTypes
  <1> HIDE DEF f
  <1> QED BY <1>1, <1>2, WriteServes DEF link_send_control, f

\* The action link_run picks is pending, and no SYNC_RESPONSE is when it picks
\* the queued packet.
LEMMA FirstActionFirst ==
    ASSUME NEW e \in Endpoint, e.actions \cap Sendable # {}
    PROVE  /\ FirstAction(e) \in e.actions
           /\ FirstAction(e) \in Sendable
           /\ FirstAction(e) = "QUEUED_PACKET" => "SYNC_RESPONSE" \notin e.actions
           /\ "SYNC" \in e.actions => FirstAction(e) = "SYNC"
  <1> DEFINE P(i) == /\ RunOrder[i] \in e.actions
                     /\ \A j \in 1..i - 1 : RunOrder[j] \notin e.actions
             k == CHOOSE i \in 1..10 : P(i)
  <1>1. PICK n \in 1..10 : RunOrder[n] \in e.actions
    BY DEF Sendable
  <1>2. \E i \in 1..10 : P(i)
    <2>1. CASE \A j \in 1..9 : RunOrder[j] \notin e.actions
      BY <1>1, <2>1
    <2>2. CASE \E j \in 1..9 : RunOrder[j] \in e.actions
      <3> DEFINE T == {j \in 1..9 : RunOrder[j] \in e.actions}
      <3>1. \E i \in T : \A j \in T : i <= j
        BY <2>2
      <3> QED BY <3>1
    <2> QED BY <2>1, <2>2
  <1>3. k \in 1..10 /\ P(k)
    BY <1>2
  <1>4. FirstAction(e) = RunOrder[k]
    BY DEF FirstAction
  <1> HIDE DEF k
  <1>5. RunOrder[k] \in e.actions /\ RunOrder[k] \in Sendable
    BY <1>3 DEF Sendable
  <1>6. ASSUME RunOrder[k] = "QUEUED_PACKET"
        PROVE  "SYNC_RESPONSE" \notin e.actions
    <2>1. k = 8
      BY <1>3, <1>6 DEF RunOrder
    <2>2. RunOrder[2] \notin e.actions
      BY <1>3, <2>1
    <2> QED BY <2>2 DEF RunOrder
  <1>7. ASSUME "SYNC" \in e.actions
        PROVE  RunOrder[k] = "SYNC"
    <2>1. RunOrder[1] = "SYNC"
      BY DEF RunOrder
    <2>2. k = 1
      BY <1>3, <1>7, <2>1
    <2> QED BY <2>1, <2>2
  <1> QED BY <1>4, <1>5, <1>6, <1>7

\* Whatever hci_transport_link_run picks, serving it is tidy.
LEMMA ServeServes ==
    ASSUME NEW s, ConfigField[s] \in ConfigFields,
           NEW e \in Endpoint, e.uart = NoFrame, Orderly(e),
           NEW a \in Sendable, a \in e.actions,
           a = "QUEUED_PACKET" => "SYNC_RESPONSE" \notin e.actions
    PROVE  Writes(e, link_serve(s, e, a))
  <1> DEFINE q == Served(e, a)
  <1>1. q \in Endpoint /\ Mild(e, q)
    BY ServedMild
  <1>2. "absent" \in ConfigFields
    BY DEF ConfigFields
  <1>3. q.actions = e.actions \ {a} /\ q.accepted = e.accepted
    BY DEF Served, Endpoint
  <1> HIDE DEF q
  <1>4. CASE a \in {"CONFIG", "CONFIG_RESPONSE", "CONFIG_RESPONSE_EMPTY"}
    <2>1. \A type \in {"CONFIG", "CONFIG_RESPONSE"}, cfg \in ConfigFields :
             Writes(e, link_send_control(q, type, cfg))
      BY <1>1, ControlServes DEF ControlTypes
    <2> QED BY <1>2, <1>4, <2>1 DEF link_serve, q
  <1>5. CASE a = "QUEUED_PACKET"
    <2> DEFINE p == Served(q, "ACK_PACKET")
               f == PacketFrame(p)
               w == slip_send_frame_with_dic(p, f)
    <2>1. p \in Endpoint /\ Mild(e, p)
      BY <1>1, ServedMild, MildTransitive
    <2> HIDE DEF p
    <2>2. CASE link_have_outgoing_packet(p)
      <3>1. p.packet \in {"DATA", "SCO"} /\ e.link_state = "ACTIVE"
        BY <2>1, <2>2 DEF link_have_outgoing_packet, Endpoint, Mild, Orderly
      <3>2. f \in Frame /\ f.type = p.packet
        BY <2>1, <3>1, SeqModulusAssumption
        DEF PacketFrame, Frame, FrameTypes, ConfigFields, Endpoint
      <3> HIDE DEF f
      <3>3. ~MayAnswerSync(p)
        BY <1>5, <2>1, <3>1 DEF MayAnswerSync, Mild
      <3>4. Writes(e, w)
        BY <2>1, <3>1, <3>2, <3>3, WriteServes
      <3> HIDE DEF w
      <3>5. /\ inactivity_timer_set(s, w) \in Endpoint
            /\ Mild(w, inactivity_timer_set(s, w))
        BY <3>4, InactivityTimerMild DEF Writes
      <3>6. /\ Tidy(w, inactivity_timer_set(s, w))
            /\ Orderly(w) => Orderly(inactivity_timer_set(s, w))
        BY <3>5, MildNeat
      <3>7. Writes(e, inactivity_timer_set(s, w))
        BY <3>4, <3>5, <3>6, TidyTransitive DEF Writes, Mild, Faulted
      <3> QED BY <1>5, <2>2, <3>7 DEF link_serve, link_send_queued_packet, p, q, w, f
    <2>3. CASE ~link_have_outgoing_packet(p)
      <3> DEFINE r == [p EXCEPT !.fault = "null_packet"]
      <3>1. r \in Endpoint /\ Mild(e, r) /\ r.fault = "null_packet"
        <4>1. TRUE \in BOOLEAN
          OBVIOUS
        <4>2. r \in Endpoint /\ Mild(p, r)
          BY <2>1, <4>1, FieldsMild
        <4>3. r.fault = "null_packet"
          BY <2>1 DEF Endpoint
        <4> HIDE DEF r
        <4> QED BY <2>1, <4>2, <4>3, MildTransitive
      <3> HIDE DEF r
      <3>2. Writes(e, r)
        BY <3>1, MildNeat DEF Writes, Mild, Faulted
      <3> QED BY <1>5, <2>3, <3>2 DEF link_serve, link_send_queued_packet, p, q, r
    <2> QED BY <2>2, <2>3
  <1>6. CASE a = "ACK_PACKET"
    <2> DEFINE f == AckFrame(q)
    <2>1. f \in Frame /\ f.type = "ACK"
      BY <1>1, SeqModulusAssumption
      DEF AckFrame, Frame, FrameTypes, ConfigFields, Endpoint
    <2>2. e.link_state = "ACTIVE"
      BY <1>6 DEF Orderly
    <2> HIDE DEF f
    <2>3. Writes(e, slip_send_frame_with_dic(q, f))
      BY <1>1, <2>1, <2>2, WriteServes
    <2> QED BY <1>6, <2>3 DEF link_serve, link_send_ack_packet, q, f
  <1>7. CASE a = "SLEEP"
    <2> DEFINE p == Request(q, "ENTER_SLEEP")
               w == [p EXCEPT !.peer_asleep = TRUE]
    <2>1. p \in Endpoint /\ Mild(q, p)
      BY <1>1, RequestMild DEF Actions
    <2>2. w \in Endpoint /\ Mild(p, w)
      BY <2>1, FieldsMild
    <2> HIDE DEF p, w
    <2>3. Mild(e, w)
      BY <1>1, <2>1, <2>2, MildTransitive
    <2>4. Writes(e, link_send_control(w, "SLEEP", "absent"))
      BY <1>2, <2>2, <2>3, ControlServes DEF ControlTypes
    <2> QED BY <1>7, <2>4 DEF link_serve, p, q, w
  <1>8. CASE a \in {"SYNC", "SYNC_RESPONSE", "WOKEN", "WAKEUP"}
    <2>1. a = "SYNC_RESPONSE" => MayAnswerSync(e)
      BY DEF MayAnswerSync
    <2>2. Writes(e, link_send_control(q, a, "absent"))
      BY <1>1, <1>2, <1>8, <2>1, ControlServes DEF ControlTypes
    <2> QED BY <1>8, <2>2 DEF link_serve, q
  <1>9. a \in {"SYNC", "SYNC_RESPONSE", "CONFIG", "CONFIG_RESPONSE",
               "CONFIG_RESPONSE_EMPTY", "WOKEN", "WAKEUP", "QUEUED_PACKET",
               "ACK_PACKET", "SLEEP"}
    BY DEF Sendable, RunOrder
  <1> QED BY <1>4, <1>5, <1>6, <1>7, <1>8, <1>9

\* Nothing is left to send while the UART is free.
Settled(e) == e.uart = NoFrame /\ ~Faulted(e) => e.actions \cap Sendable = {}

\* hci_transport_link_run is tidy, keeps the timer and leaves nothing to send
\* with a free UART.
LEMMA RunNeat ==
    ASSUME NEW s, ConfigField[s] \in ConfigFields, NEW e \in Endpoint, Orderly(e)
    PROVE  LET r == link_run(s, e)
           IN  /\ r \in Endpoint /\ Neat(e, r) /\ Settled(r)
               /\ r.link_timer = e.link_timer
               /\ r.fault \in {e.fault, "null_packet"}
  <1> DEFINE a == FirstAction(e)
             r == link_serve(s, e, a)
  <1>1. CASE e.uart # NoFrame \/ e.actions \cap Sendable = {}
    <2>1. Tidy(e, e)
      BY DEF Tidy
    <2>2. link_run(s, e) = e
      BY <1>1 DEF link_run
    <2> QED BY <1>1, <2>1, <2>2 DEF Neat, Settled
  <1>2. CASE ~(e.uart # NoFrame \/ e.actions \cap Sendable = {})
    <2>1. /\ a \in e.actions /\ a \in Sendable
          /\ a = "QUEUED_PACKET" => "SYNC_RESPONSE" \notin e.actions
      BY <1>2, FirstActionFirst
    <2> HIDE DEF a
    <2>2. Writes(e, r)
      BY <1>2, <2>1, ServeServes
    <2>3. link_run(s, e) = r
      BY <1>2 DEF link_run, a
    <2> HIDE DEF r
    <2> QED BY <2>2, <2>3 DEF Writes, Neat, Settled
  <1> QED BY <1>1, <1>2

-----------------------------------------------------------------------------
(* The calls of the upper layer and the handlers are neat.                 *)

\* An endpoint as a handler leaves it: neat, with nothing left to send.
Tidied(e, r) ==
    /\ r \in Endpoint
    /\ Neat(e, r)
    /\ Settled(e) => Settled(r)

\* Doing nothing is tidied.
LEMMA NothingTidied ==
    ASSUME NEW e \in Endpoint, Orderly(e)
    PROVE  Tidied(e, e)
  BY DEF Tidied, Neat, Tidy

\* A mild update that asks for nothing and leaves the UART alone is tidied.
LEMMA MildTidied ==
    ASSUME NEW e \in Endpoint, Orderly(e), NEW r \in Endpoint, Mild(e, r),
           r.actions \subseteq e.actions
    PROVE  Tidied(e, r)
  <1>1. Settled(e) => Settled(r)
    BY DEF Settled, Mild, Faulted
  <1> QED BY <1>1, MildNeat DEF Tidied, Neat

\* link_run at the end of a tidy step leaves a tidied endpoint.
LEMMA RunTidied ==
    ASSUME NEW s, ConfigField[s] \in ConfigFields, NEW e,
           NEW q \in Endpoint, Neat(e, q)
    PROVE  Tidied(e, link_run(s, q))
  <1>1. /\ link_run(s, q) \in Endpoint /\ Neat(q, link_run(s, q))
        /\ Settled(link_run(s, q))
    BY RunNeat DEF Neat
  <1>2. Neat(e, link_run(s, q))
    BY <1>1, NeatTransitive DEF Neat
  <1> QED BY <1>1, <1>2 DEF Tidied

\* Tidied steps compose.
LEMMA TidiedTransitive ==
    ASSUME NEW e, NEW q, NEW r, Tidied(e, q), Tidied(q, r)
    PROVE  Tidied(e, r)
  BY NeatTransitive DEF Tidied, Neat

\* Starting the link timer while it is not registered.
LEMMA SetTimerFields ==
    ASSUME NEW e \in Endpoint, ~e.link_timer
    PROVE  LET r == link_set_timer(e)
           IN  /\ r \in Endpoint /\ r.link_timer
               /\ r.link_state = e.link_state /\ r.packet = e.packet
               /\ r.uart = e.uart /\ r.uart_done = e.uart_done
               /\ r.actions = e.actions /\ r.fault = e.fault
  <1> DEFINE f == IF e.link_timer THEN "timer_registered" ELSE e.fault
             r == [e EXCEPT !.link_timer = TRUE, !.fault = f]
  <1>1. f = e.fault
    OBVIOUS
  <1> HIDE DEF f
  <1>2. /\ r \in Endpoint /\ r.link_timer = TRUE
        /\ r.link_state = e.link_state /\ r.packet = e.packet
        /\ r.uart = e.uart /\ r.uart_done = e.uart_done
        /\ r.actions = e.actions /\ r.fault = e.fault
    BY <1>1 DEF Endpoint
  <1> HIDE DEF r
  <1>3. link_set_timer(e) = r
    BY DEF link_set_timer, r, f
  <1> QED BY <1>2, <1>3

\* hci_transport_h5_send_packet finds the timer free and leaves it running.
LEMMA SendPacketTidied ==
    ASSUME NEW s, ConfigField[s] \in ConfigFields, NEW e \in Endpoint, Orderly(e),
           NEW type \in {"DATA", "SCO"}, type = "DATA" => e.submitted < MaxSend
    PROVE  Tidied(e, h5_send_packet(s, e, type))
  <1>1. CASE ~h5_can_send_packet_now(e)
    BY <1>1, NothingTidied DEF h5_send_packet
  <1>2. CASE h5_can_send_packet_now(e)
    <2> DEFINE q == h5_queue_packet(e, type)
               w == IF e.peer_asleep THEN WakeupFirst(s, q)
                                     ELSE Request(q, "QUEUED_PACKET")
               t == link_set_timer(w)
    <2>1. e.packet = "none" /\ e.link_state = "ACTIVE" /\ ~e.link_timer
      BY <1>2 DEF h5_can_send_packet_now, link_have_outgoing_packet, Orderly
    <2>2. q \in Endpoint
      BY <1>2, QueueStep
    <2>3. /\ q.packet = type /\ q.link_state = e.link_state
          /\ q.link_timer = e.link_timer /\ q.fault = e.fault
          /\ q.uart = e.uart /\ q.uart_done = e.uart_done
          /\ q.actions = e.actions
      BY DEF h5_queue_packet, Endpoint
    <2> HIDE DEF q
    <2>4. w \in Endpoint /\ Mild(q, w)
      <3> DEFINE a == h5_emit_sleep_state(q, FALSE)
                 b == a.uart_asleep /\ s \notin UartSleep
                 c == [a EXCEPT !.uart_asleep = b]
      <3>1. a \in Endpoint /\ Mild(q, a)
        BY <2>2, FieldsMild DEF h5_emit_sleep_state
      <3>2. b \in BOOLEAN
        OBVIOUS
      <3> HIDE DEF a, b
      <3>3. c \in Endpoint /\ Mild(a, c)
        BY <3>1, <3>2, FieldsMild
      <3> HIDE DEF c
      <3>4. {"WAKEUP", "QUEUED_PACKET"}
              \subseteq Actions \ {"SYNC_RESPONSE", "ACK_PACKET"}
        BY DEF Actions, Sendable, RunOrder
      <3>5. Request(c, "WAKEUP") \in Endpoint /\ Mild(q, Request(c, "WAKEUP"))
        BY <3>1, <3>3, <3>4, RequestMild, MildTransitive
      <3>6. /\ Request(q, "QUEUED_PACKET") \in Endpoint
            /\ Mild(q, Request(q, "QUEUED_PACKET"))
        BY <2>2, <3>4, RequestMild
      <3>7. WakeupFirst(s, q) = Request(c, "WAKEUP")
        BY DEF WakeupFirst, c, b, a
      <3> QED BY <3>5, <3>6, <3>7
    <2> HIDE DEF w
    <2>5. ~w.link_timer
      BY <2>1, <2>3, <2>4 DEF Mild
    <2>6. /\ t \in Endpoint /\ t.link_timer
          /\ t.link_state = w.link_state /\ t.packet = w.packet
          /\ t.uart = w.uart /\ t.uart_done = w.uart_done
          /\ t.actions = w.actions /\ t.fault = w.fault
      BY <2>4, <2>5, SetTimerFields
    <2> HIDE DEF t
    <2>7. Neat(e, t)
      <3>1. Orderly(t)
        BY <2>1, <2>3, <2>4, <2>6 DEF Orderly, Mild
      <3>2. Tidy(e, t)
        BY <2>1, <2>3, <2>4, <2>6 DEF Tidy, Mild, MayAnswerSync
      <3> QED BY <3>1, <3>2 DEF Neat
    <2>8. Tidied(e, link_run(s, t))
      BY <2>6, <2>7, RunTidied
    <2> QED BY <1>2, <2>8 DEF h5_send_packet, q, w, t
  <1> QED BY <1>1, <1>2

\* hci_transport_h5_set_baudrate is tidied.
LEMMA SetBaudrateTidied ==
    ASSUME NEW s, ConfigField[s] \in ConfigFields, NEW e \in Endpoint, Orderly(e)
    PROVE  Tidied(e, h5_set_baudrate(s, e))
  <1> DEFINE q == Request(e, "SET_BAUDRATE")
             b == [e EXCEPT !.baud = @ + 1]
  <1>1. q \in Endpoint /\ Mild(e, q)
    BY RequestMild DEF Actions
  <1> HIDE DEF q
  <1>2. Tidied(e, link_run(s, q))
    BY <1>1, MildNeat, RunTidied DEF Neat
  <1>3. b \in Endpoint /\ Mild(e, b)
    <2>1. TRUE \in BOOLEAN
      OBVIOUS
    <2> QED BY <2>1, FieldsMild
  <1>4. b.actions = e.actions
    BY DEF Endpoint
  <1> HIDE DEF b
  <1>5. Tidied(e, b)
    BY <1>3, <1>4, MildTidied
  <1> QED BY <1>2, <1>5 DEF h5_set_baudrate, q, b

\* Any call of the upper layer is tidied.
LEMMA UpperTidied ==
    ASSUME NEW s, ConfigField[s] \in ConfigFields, NEW e \in Endpoint, Orderly(e),
           NEW call \in AnyCall
    PROVE  Tidied(e, Upper(s, e, call))
  <1>1. Tidied(e, e)
    BY NothingTidied
  <1> QED BY <1>1, SetBaudrateTidied, SendPacketTidied DEF Upper, MayCall, AnyCall

\* Removing the link timer, asking for an action, starting the timer and running:
\* how the link timer's handler and the establishment of the link go on.
LEMMA RestartTimerTidied ==
    ASSUME NEW s, ConfigField[s] \in ConfigFields, NEW e \in Endpoint, Orderly(e),
           ~(e.link_state = "ACTIVE" /\ e.packet = "none"),
           NEW a \in Actions \ {"SYNC_RESPONSE", "ACK_PACKET"}
    PROVE  LET q == [e EXCEPT !.link_timer = FALSE]
               r == link_run(s, link_set_timer(Request(q, a)))
           IN  Tidied(e, r) /\ r.link_timer
  <1> DEFINE q == [e EXCEPT !.link_timer = FALSE]
             p == Request(q, a)
             t == link_set_timer(p)
  <1>1. /\ q \in Endpoint /\ ~q.link_timer
        /\ q.link_state = e.link_state /\ q.packet = e.packet
        /\ q.uart = e.uart /\ q.uart_done = e.uart_done
        /\ q.actions = e.actions /\ q.fault = e.fault
    BY DEF Endpoint
  <1> HIDE DEF q
  <1>2. p \in Endpoint /\ Mild(q, p)
    BY <1>1, RequestMild
  <1> HIDE DEF p
  <1>3. /\ t \in Endpoint /\ t.link_timer
        /\ t.link_state = p.link_state /\ t.packet = p.packet
        /\ t.uart = p.uart /\ t.uart_done = p.uart_done
        /\ t.actions = p.actions /\ t.fault = p.fault
    BY <1>1, <1>2, SetTimerFields DEF Mild
  <1> HIDE DEF t
  <1>4. Orderly(t)
    BY <1>1, <1>2, <1>3 DEF Orderly, Mild
  <1>5. Tidy(e, t)
    BY <1>1, <1>2, <1>3 DEF Tidy, Mild, MayAnswerSync
  <1>6. Tidied(e, link_run(s, t)) /\ link_run(s, t).link_timer
    BY <1>3, <1>4, <1>5, RunTidied, RunNeat DEF Neat
  <1> QED BY <1>6 DEF q, p, t

\* The handler of the link timer finds something to repeat and starts it again.
LEMMA LinkTimeoutTidied ==
    ASSUME NEW s, ConfigField[s] \in ConfigFields, NEW e \in Endpoint, Orderly(e),
           e.link_timer
    PROVE  /\ Tidied(e, link_timeout_handler(s, e))
           /\ link_timeout_handler(s, e).link_timer
  <1> DEFINE q == [e EXCEPT !.link_timer = FALSE]
             R(a) == link_run(s, link_set_timer(Request(q, a)))
             A == {"SYNC", "CONFIG", "WAKEUP", "QUEUED_PACKET"}
  <1>1. ~(e.link_state = "ACTIVE" /\ e.packet = "none")
    BY DEF Orderly
  <1>2. A \subseteq Actions \ {"SYNC_RESPONSE", "ACK_PACKET"}
    BY DEF Actions, Sendable, RunOrder
  <1>3. \A a \in A : Tidied(e, R(a)) /\ R(a).link_timer
    BY <1>1, <1>2, RestartTimerTidied
  <1>4. q.link_state = e.link_state /\ q.packet = e.packet
    BY DEF Endpoint
  <1>5. \E a \in A : link_timeout_handler(s, e) = R(a)
    <2>1. e.link_state \in LinkStates
      BY DEF Endpoint
    <2> HIDE DEF R
    <2>2. CASE e.link_state = "UNINITIALIZED"
      BY <2>2, <1>4 DEF link_timeout_handler, R
    <2>3. CASE e.link_state = "INITIALIZED"
      BY <2>3, <1>4 DEF link_timeout_handler, R
    <2>4. CASE e.link_state = "ACTIVE"
      BY <2>4, <1>1, <1>4 DEF link_timeout_handler, link_have_outgoing_packet, R
    <2> QED BY <2>1, <2>2, <2>3, <2>4 DEF LinkStates
  <1> HIDE DEF R
  <1> QED BY <1>3, <1>5

\* The inactivity timer's handler is tidied.
LEMMA InactivityTimeoutTidied ==
    ASSUME NEW s, ConfigField[s] \in ConfigFields, NEW e \in Endpoint, Orderly(e)
    PROVE  Tidied(e, inactivity_timeout_handler(s, e))
  <1> DEFINE q == [e EXCEPT !.inactivity_timer = FALSE]
             p == Request(q, "SLEEP")
  <1>1. q \in Endpoint /\ Mild(e, q) /\ q.actions = e.actions
    <2>1. FALSE \in BOOLEAN
      OBVIOUS
    <2>2. q.actions = e.actions
      BY DEF Endpoint
    <2> QED BY <2>1, <2>2, FieldsMild
  <1> HIDE DEF q
  <1>2. Tidied(e, q)
    BY <1>1, MildTidied
  <1>3. p \in Endpoint /\ Mild(e, p)
    <2>1. "SLEEP" \in Actions \ {"SYNC_RESPONSE", "ACK_PACKET"}
      BY DEF Actions, Sendable, RunOrder
    <2> QED BY <1>1, <2>1, RequestMild, MildTransitive
  <1> HIDE DEF p
  <1>4. Tidied(e, link_run(s, p))
    BY <1>3, MildNeat, RunTidied DEF Neat
  <1>5. inactivity_timeout_handler(s, e) \in {q, link_run(s, p)}
    BY DEF inactivity_timeout_handler, q, p
  <1> QED BY <1>2, <1>4, <1>5

\* Telling the upper layer of the sleep state, with what it does then.
LEMMA SleepReportedNeat ==
    ASSUME NEW s, ConfigField[s] \in ConfigFields, NEW e \in Endpoint, Orderly(e),
           NEW call \in AnyCall
    PROVE  SleepReported(s, e, call) \in Endpoint
           /\ Neat(e, SleepReported(s, e, call))
  <1> DEFINE r == h5_emit_sleep_state(e, TRUE)
             u == Upper(s, r, call)
  <1>1. r \in Endpoint /\ Mild(e, r)
    BY FieldsMild DEF h5_emit_sleep_state
  <1> HIDE DEF r
  <1>2. Orderly(r) /\ Tidy(e, r)
    BY <1>1, MildNeat
  <1>3. u \in Endpoint /\ Neat(e, u)
    BY <1>1, <1>2, UpperTidied, NeatTransitive DEF Tidied
  <1> HIDE DEF u
  <1>4. Neat(e, e)
    BY DEF Neat, Tidy
  <1>5. SleepReported(s, e, call) \in {e, u}
    BY DEF SleepReported, r, u
  <1> QED BY <1>3, <1>4, <1>5

\* Entering sleep after the SLEEP message.
LEMMA EnterSleepNeat ==
    ASSUME NEW s, ConfigField[s] \in ConfigFields, NEW e \in Endpoint, Orderly(e),
           NEW call \in AnyCall
    PROVE  EnterSleep(s, e, call) \in Endpoint /\ Neat(e, EnterSleep(s, e, call))
  <1> DEFINE q == Served(e, "ENTER_SLEEP")
             b == q.uart_asleep \/ s \in UartSleep
             w == [q EXCEPT !.uart_asleep = b]
             r == SleepReported(s, w, call)
  <1>1. q \in Endpoint /\ Mild(e, q)
    BY ServedMild
  <1>2. b \in BOOLEAN
    OBVIOUS
  <1> HIDE DEF q, b
  <1>3. w \in Endpoint /\ Mild(q, w)
    BY <1>1, <1>2, FieldsMild
  <1> HIDE DEF w
  <1>4. Orderly(w) /\ Tidy(e, w)
    BY <1>1, <1>3, MildTransitive, MildNeat
  <1>5. r \in Endpoint /\ Neat(e, r)
    BY <1>3, <1>4, SleepReportedNeat, NeatTransitive
  <1> HIDE DEF r
  <1>6. Neat(e, e)
    BY DEF Neat, Tidy
  <1>7. EnterSleep(s, e, call) \in {e, r}
    BY DEF EnterSleep, q, b, w, r
  <1> QED BY <1>5, <1>6, <1>7

\* Emptying the queue stops the timer with it.
LEMMA ClearQueueNeat ==
    ASSUME NEW e \in Endpoint, Orderly(e)
    PROVE  link_clear_queue(e) \in Endpoint /\ Neat(e, link_clear_queue(e))
  <1> DEFINE r == link_clear_queue(e)
  <1>1. /\ r \in Endpoint
        /\ r.packet = "none" /\ ~r.link_timer
        /\ r.uart = e.uart /\ r.uart_done = e.uart_done
        /\ r.link_state = e.link_state /\ r.fault = e.fault
        /\ r.actions = e.actions
    BY DEF link_clear_queue, Endpoint
  <1> HIDE DEF r
  <1>2. Neat(e, r)
    BY <1>1 DEF Neat, Orderly, Tidy, MayAnswerSync
  <1> QED BY <1>1, <1>2 DEF r

\* hci_transport_h5_frame_sent frees the UART and is tidied from there on.
LEMMA FrameSentTidied ==
    ASSUME NEW s, ConfigField[s] \in ConfigFields, NEW e \in Endpoint, Orderly(e),
           NEW sleepCall \in AnyCall, NEW sentCall \in AnyCall
    PROVE  /\ Neat(Idle(e), h5_frame_sent(s, e, sleepCall, sentCall))
           /\ Settled(h5_frame_sent(s, e, sleepCall, sentCall))
  <1> DEFINE i == Idle(e)
             d == Served(i, "SET_BAUDRATE")
             g == [d EXCEPT !.baud = @ + 1]
             b == ApplyBaudrate(i)
             q == EnterSleep(s, b, sleepCall)
             c == link_clear_queue(q)
             u == Upper(s, c, sentCall)
             x == IF q.packet_type = "SCO" THEN u ELSE q
  <1>1. i \in Endpoint /\ Orderly(i)
    BY DEF Idle, Endpoint, Orderly
  <1> HIDE DEF i
  <1>2. b \in Endpoint /\ Neat(i, b)
    <2>1. d \in Endpoint /\ Mild(i, d)
      BY <1>1, ServedMild
    <2> HIDE DEF d
    <2>2. g \in Endpoint /\ Mild(d, g)
      <3>1. TRUE \in BOOLEAN
        OBVIOUS
      <3> QED BY <2>1, <3>1, FieldsMild
    <2> HIDE DEF g
    <2>3. Neat(i, g)
      BY <1>1, <2>1, <2>2, MildTransitive, MildNeat DEF Neat
    <2>4. Neat(i, i)
      BY <1>1 DEF Neat, Tidy
    <2>5. b \in {i, g}
      BY DEF ApplyBaudrate, g, d
    <2> QED BY <1>1, <2>2, <2>3, <2>4, <2>5
  <1> HIDE DEF b
  <1>3. q \in Endpoint /\ Neat(i, q)
    BY <1>2, EnterSleepNeat, NeatTransitive DEF Neat
  <1> HIDE DEF q
  <1>4. c \in Endpoint /\ Neat(i, c)
    BY <1>3, ClearQueueNeat, NeatTransitive DEF Neat
  <1> HIDE DEF c
  <1>5. u \in Endpoint /\ Neat(i, u)
    BY <1>4, UpperTidied, NeatTransitive DEF Neat, Tidied
  <1> HIDE DEF u
  <1>6. x \in Endpoint /\ Neat(i, x)
    BY <1>3, <1>5
  <1> HIDE DEF x
  <1>7. /\ Tidied(i, link_run(s, x)) /\ Settled(link_run(s, x))
    BY <1>6, RunTidied, RunNeat DEF Neat
  <1>8. h5_frame_sent(s, e, sleepCall, sentCall) = link_run(s, x)
    BY DEF h5_frame_sent, Idle, i, b, q, c, u, x
  <1> QED BY <1>7, <1>8 DEF i, Tidied

-----------------------------------------------------------------------------
(* Processing a frame is neat.                                             *)

\* An endpoint that is not active may be asked for a SYNC_RESPONSE.
LEMMA AnswerSyncNeat ==
    ASSUME NEW e \in Endpoint, Orderly(e), e.link_state # "ACTIVE"
    PROVE  AnswerSync(e) \in Endpoint /\ Neat(e, AnswerSync(e))
  <1> DEFINE r == AnswerSync(e)
  <1>1. /\ r \in Endpoint
        /\ r.link_state = e.link_state /\ r.packet = e.packet
        /\ r.link_timer = e.link_timer /\ r.fault = e.fault
        /\ r.uart = e.uart /\ r.uart_done = e.uart_done
        /\ r.actions = e.actions \cup {"SYNC_RESPONSE"}
    <2>1. "SYNC_RESPONSE" \in Actions
      BY DEF Actions, Sendable, RunOrder
    <2> QED BY <2>1 DEF AnswerSync, Request, Endpoint
  <1> HIDE DEF r
  <1>2. Neat(e, r)
    BY <1>1 DEF Neat, Orderly, Tidy, MayAnswerSync
  <1> QED BY <1>1, <1>2 DEF r

\* An active endpoint may be asked for an acknowledgement.
LEMMA AskAckNeat ==
    ASSUME NEW e \in Endpoint, Orderly(e), e.link_state = "ACTIVE"
    PROVE  /\ Request(e, "ACK_PACKET") \in Endpoint
           /\ Neat(e, Request(e, "ACK_PACKET"))
  <1> DEFINE r == Request(e, "ACK_PACKET")
  <1>1. /\ r \in Endpoint
        /\ r.link_state = e.link_state /\ r.packet = e.packet
        /\ r.link_timer = e.link_timer /\ r.fault = e.fault
        /\ r.uart = e.uart /\ r.uart_done = e.uart_done
        /\ r.actions = e.actions \cup {"ACK_PACKET"}
    <2>1. "ACK_PACKET" \in Actions
      BY DEF Actions, Sendable, RunOrder
    <2> QED BY <2>1 DEF Request, Endpoint
  <1> HIDE DEF r
  <1>2. Neat(e, r)
    BY <1>1 DEF Neat, Orderly, Tidy, MayAnswerSync
  <1> QED BY <1>1, <1>2 DEF r

\* A frame received while the link is not initialized.
LEMMA UninitializedNeat ==
    ASSUME NEW s, NEW e \in Endpoint, Orderly(e), NEW f \in Frame,
           e.link_state = "UNINITIALIZED"
    PROVE  /\ FrameWhileUninitialized(s, e, f) \in Endpoint
           /\ Neat(e, FrameWhileUninitialized(s, e, f))
  <1> DEFINE i == [e EXCEPT !.link_state = "INITIALIZED", !.link_timer = FALSE]
             p == Request(i, "CONFIG")
             t == link_set_timer(p)
  <1>1. /\ i \in Endpoint
        /\ i.link_state = "INITIALIZED" /\ ~i.link_timer
        /\ i.packet = e.packet /\ i.fault = e.fault
        /\ i.uart = e.uart /\ i.uart_done = e.uart_done
        /\ i.actions = e.actions
    BY DEF Endpoint, LinkStates
  <1> HIDE DEF i
  <1>2. p \in Endpoint /\ Mild(i, p)
    BY <1>1, RequestMild DEF Actions, Sendable, RunOrder
  <1> HIDE DEF p
  <1>3. /\ t \in Endpoint /\ t.link_timer
        /\ t.link_state = p.link_state /\ t.packet = p.packet
        /\ t.uart = p.uart /\ t.uart_done = p.uart_done
        /\ t.actions = p.actions /\ t.fault = p.fault
    BY <1>1, <1>2, SetTimerFields DEF Mild
  <1> HIDE DEF t
  <1>4. e.packet = "none" /\ "ACK_PACKET" \notin e.actions
    BY DEF Orderly
  <1>5. Neat(e, t)
    BY <1>1, <1>2, <1>3, <1>4 DEF Neat, Orderly, Tidy, Mild, MayAnswerSync
  <1>6. AnswerSync(e) \in Endpoint /\ Neat(e, AnswerSync(e)) /\ Neat(e, e)
    BY AnswerSyncNeat DEF Neat, Tidy
  <1>7. FrameWhileUninitialized(s, e, f) \in {e, t, AnswerSync(e)}
    BY DEF FrameWhileUninitialized, i, p, t
  <1> QED BY <1>3, <1>5, <1>6, <1>7

\* A frame received while the link waits for its configuration.
LEMMA InitializedNeat ==
    ASSUME NEW s, ConfigField[s] \in ConfigFields, NEW e \in Endpoint, Orderly(e),
           NEW f \in Frame, e.link_state = "INITIALIZED", NEW call \in AnyCall
    PROVE  /\ FrameWhileInitialized(s, e, f, call) \in Endpoint
           /\ Neat(e, FrameWhileInitialized(s, e, f, call))
  <1> DEFINE a == LinkActivated(e, f)
             u == Upper(s, a, call)
             N(m) == Request(e, m)
  <1>1. /\ a \in Endpoint
        /\ a.link_state = "ACTIVE" /\ ~a.link_timer
        /\ a.packet = e.packet /\ a.fault = e.fault
        /\ a.uart = e.uart /\ a.uart_done = e.uart_done
        /\ a.actions = e.actions
    <2>1. SupportsDic(f.cfg) \in BOOLEAN /\ 0 \in 0..SeqModulus - 1
      BY SeqModulusAssumption DEF SupportsDic
    <2> QED BY <2>1 DEF LinkActivated, Endpoint, LinkStates
  <1> HIDE DEF a
  <1>2. e.packet = "none"
    BY DEF Orderly
  <1>3. Orderly(a) /\ Tidy(e, a)
    BY <1>1, <1>2 DEF Orderly, Tidy, MayAnswerSync
  <1>4. u \in Endpoint /\ Neat(e, u)
    BY <1>1, <1>3, UpperTidied, NeatTransitive DEF Tidied
  <1>5. \A m \in {"CONFIG_RESPONSE", "CONFIG_RESPONSE_EMPTY"} :
           N(m) \in Endpoint /\ Neat(e, N(m))
    <2>1. {"CONFIG_RESPONSE", "CONFIG_RESPONSE_EMPTY"}
             \subseteq Actions \ {"SYNC_RESPONSE", "ACK_PACKET"}
      BY DEF Actions, Sendable, RunOrder
    <2> QED BY <2>1, RequestMild, MildNeat DEF Neat
  <1>6. AnswerSync(e) \in Endpoint /\ Neat(e, AnswerSync(e)) /\ Neat(e, e)
    BY AnswerSyncNeat DEF Neat, Tidy
  <1>7. FrameWhileInitialized(s, e, f, call)
           \in {e, u, AnswerSync(e), N("CONFIG_RESPONSE"),
                N("CONFIG_RESPONSE_EMPTY")}
    BY DEF FrameWhileInitialized, a, u
  <1> HIDE DEF u, N
  <1> QED BY <1>4, <1>5, <1>6, <1>7

\* Taking a reliable frame asks for an acknowledgement.
LEMMA AcceptNeat ==
    ASSUME NEW e \in Endpoint, Orderly(e), NEW f \in Frame, e.link_state = "ACTIVE"
    PROVE  /\ AcceptReliable(e, f) \in Endpoint
           /\ Neat(e, AcceptReliable(e, f))
  <1> DEFINE m == link_inc_seq_nr(e.ack_nr)
             n == e.accepted + 1
             p == [e EXCEPT !.ack_nr = m, !.accepted = n]
  <1>1. m \in 0..SeqModulus - 1 /\ n \in Nat
    BY IncSeqNrType DEF Endpoint
  <1> HIDE DEF m, n
  <1>2. /\ p \in Endpoint /\ Mild(e, p)
    BY <1>1 DEF Endpoint, Mild
  <1> HIDE DEF p
  <1>3. p.link_state = "ACTIVE" /\ Orderly(p) /\ Tidy(e, p)
    BY <1>2, MildNeat DEF Mild
  <1>4. /\ Request(p, "ACK_PACKET") \in Endpoint
        /\ Neat(e, Request(p, "ACK_PACKET"))
    BY <1>2, <1>3, AskAckNeat, NeatTransitive
  <1>5. AcceptReliable(e, f) \in {Request(p, "ACK_PACKET"), e}
    BY DEF AcceptReliable, p, m, n
  <1>6. Neat(e, e)
    BY DEF Neat, Tidy
  <1> QED BY <1>4, <1>5, <1>6

\* An acknowledgement clears the queue; the upper layer may fill it again.
LEMMA ProcessAckNeat ==
    ASSUME NEW s, ConfigField[s] \in ConfigFields, NEW e \in Endpoint, Orderly(e),
           NEW f \in Frame, NEW call \in AnyCall
    PROVE  ProcessAck(s, e, f, call) \in Endpoint /\ Neat(e, ProcessAck(s, e, f, call))
  <1> DEFINE m == link_inc_seq_nr(e.seq_nr)
             p == [e EXCEPT !.seq_nr = m]
             c == link_clear_queue(p)
             u == Upper(s, c, call)
  <1>1. m \in 0..SeqModulus - 1
    BY IncSeqNrType DEF Endpoint
  <1> HIDE DEF m
  <1>2. p \in Endpoint /\ Mild(e, p)
    BY <1>1 DEF Endpoint, Mild
  <1> HIDE DEF p
  <1>3. Orderly(p) /\ Tidy(e, p)
    BY <1>2, MildNeat
  <1>4. c \in Endpoint /\ Neat(e, c)
    BY <1>2, <1>3, ClearQueueNeat, NeatTransitive
  <1> HIDE DEF c
  <1>5. u \in Endpoint /\ Neat(e, u)
    BY <1>4, UpperTidied, NeatTransitive DEF Neat, Tidied
  <1> HIDE DEF u
  <1>6. ProcessAck(s, e, f, call) \in {e, u}
    BY DEF ProcessAck, u, c, p, m
  <1>7. Neat(e, e)
    BY DEF Neat, Tidy
  <1> QED BY <1>5, <1>6, <1>7

\* Link control messages on an active link are neat.
LEMMA ControlNeat ==
    ASSUME NEW s, ConfigField[s] \in ConfigFields, NEW e \in Endpoint, Orderly(e),
           NEW f \in Frame, NEW call \in AnyCall
    PROVE  ProcessControl(s, e, f, call) \in Endpoint
           /\ Neat(e, ProcessControl(s, e, f, call))
  <1> DEFINE c == Request(e, "CONFIG_RESPONSE")
             y == [e EXCEPT !.uart_asleep = TRUE]
             x == SleepReported(s, y, call)
             z == IF s \in UartSleep THEN x ELSE e
             a == [z EXCEPT !.peer_asleep = TRUE]
             w == [e EXCEPT !.peer_asleep = FALSE]
             v == Request(w, "WOKEN")
  <1>1. {"CONFIG_RESPONSE", "WOKEN"}
          \subseteq Actions \ {"SYNC_RESPONSE", "ACK_PACKET"}
    BY DEF Actions, Sendable, RunOrder
  <1>2. c \in Endpoint /\ Neat(e, c) /\ Neat(e, e)
    BY <1>1, RequestMild, MildNeat DEF Neat, Tidy
  <1>3. w \in Endpoint /\ Mild(e, w)
    BY FieldsMild
  <1>4. y \in Endpoint /\ Mild(e, y)
    BY FieldsMild
  <1> HIDE DEF y, w
  <1>5. Neat(e, w) /\ Neat(e, y)
    BY <1>3, <1>4, MildNeat DEF Neat
  <1>6. x \in Endpoint /\ Neat(e, x)
    BY <1>4, <1>5, SleepReportedNeat, NeatTransitive DEF Neat
  <1> HIDE DEF x
  <1>7. z \in Endpoint /\ Neat(e, z)
    BY <1>2, <1>6
  <1> HIDE DEF z
  <1>8. a \in Endpoint /\ Neat(e, a)
    <2>1. a \in Endpoint /\ Mild(z, a)
      BY <1>7, FieldsMild
    <2> HIDE DEF a
    <2>2. Neat(z, a)
      BY <1>7, <2>1, MildNeat DEF Neat
    <2> QED BY <1>7, <2>1, <2>2, NeatTransitive DEF Neat
  <1>9. v \in Endpoint /\ Neat(e, v)
    BY <1>1, <1>3, RequestMild, MildTransitive, MildNeat DEF Neat
  <1>10. ProcessControl(s, e, f, call) \in {c, e, a, v, w}
    BY DEF ProcessControl, c, a, x, y, z, v, w
  <1> HIDE DEF c, a, v
  <1> QED BY <1>2, <1>3, <1>5, <1>8, <1>9, <1>10

\* Delivering a packet is neat.
LEMMA DeliverNeat ==
    ASSUME NEW s, ConfigField[s] \in ConfigFields, NEW e \in Endpoint, Orderly(e),
           NEW f \in Frame, NEW call \in AnyCall
    PROVE  Deliver(s, e, f, call) \in Endpoint /\ Neat(e, Deliver(s, e, f, call))
  <1> DEFINE l == IF f.type = "DATA" THEN Append(e.received, f.n) ELSE e.received
             d == [e EXCEPT !.peer_asleep = FALSE, !.received = l]
             u == Upper(s, d, call)
             r == inactivity_timer_set(s, u)
  <1>1. l \in Seq(Nat)
    BY DEF Endpoint, Frame
  <1> HIDE DEF l
  <1>2. d \in Endpoint /\ Mild(e, d)
    BY <1>1 DEF Endpoint, Mild
  <1> HIDE DEF d
  <1>3. Orderly(d) /\ Tidy(e, d)
    BY <1>2, MildNeat
  <1>4. u \in Endpoint /\ Neat(e, u)
    BY <1>2, <1>3, UpperTidied, NeatTransitive DEF Tidied
  <1> HIDE DEF u
  <1>5. r \in Endpoint /\ Neat(u, r)
    BY <1>4, InactivityTimerMild, MildNeat DEF Neat
  <1> HIDE DEF r
  <1>6. Neat(e, r)
    BY <1>4, <1>5, NeatTransitive DEF Neat
  <1>7. Deliver(s, e, f, call) = r
    BY DEF Deliver, r, u, d, l
  <1> QED BY <1>5, <1>6, <1>7

\* A frame received on an active link is neat.
LEMMA ActiveNeat ==
    ASSUME NEW s, ConfigField[s] \in ConfigFields, NEW e \in Endpoint, Orderly(e),
           NEW f \in Frame, e.link_state = "ACTIVE",
           NEW ackCall \in AnyCall, NEW rxCall \in AnyCall
    PROVE  /\ FrameWhileActive(s, e, f, ackCall, rxCall) \in Endpoint
           /\ Neat(e, FrameWhileActive(s, e, f, ackCall, rxCall))
  <1> DEFINE a == AcceptReliable(e, f)
             x == ProcessAck(s, a, f, ackCall)
             o == Request(e, "ACK_PACKET")
             c == ProcessControl(s, x, f, rxCall)
             d == Deliver(s, x, f, rxCall)
  <1>1. o \in Endpoint /\ Neat(e, o)
    BY AskAckNeat
  <1>2. a \in Endpoint /\ Neat(e, a)
    BY AcceptNeat
  <1> HIDE DEF a
  <1>3. x \in Endpoint /\ Neat(e, x)
    BY <1>2, ProcessAckNeat, NeatTransitive DEF Neat
  <1> HIDE DEF x
  <1>4. c \in Endpoint /\ Neat(e, c)
    BY <1>3, ControlNeat, NeatTransitive DEF Neat
  <1>5. d \in Endpoint /\ Neat(e, d)
    BY <1>3, DeliverNeat, NeatTransitive DEF Neat
  <1> HIDE DEF o, c, d
  <1>6. FrameWhileActive(s, e, f, ackCall, rxCall) \in {o, c, d, x}
    BY DEF FrameWhileActive, OutOfSequence, o, c, d, x, a
  <1> QED BY <1>1, <1>3, <1>4, <1>5, <1>6

\* hci_transport_h5_process_frame as a whole is neat.
LEMMA ProcessFrameTidied ==
    ASSUME NEW s, ConfigField[s] \in ConfigFields, NEW e \in Endpoint, Orderly(e),
           NEW f \in Frame, NEW ackCall \in AnyCall, NEW rxCall \in AnyCall
    PROVE  Tidied(e, h5_process_frame(s, e, f, ackCall, rxCall))
  <1> DEFINE x == CASE e.link_state = "UNINITIALIZED" ->
                         FrameWhileUninitialized(s, e, f)
                    [] e.link_state = "INITIALIZED" ->
                         FrameWhileInitialized(s, e, f, ackCall)
                    [] OTHER -> FrameWhileActive(s, e, f, ackCall, rxCall)
  <1>1. x \in Endpoint /\ Neat(e, x)
    <2>1. CASE e.link_state = "UNINITIALIZED"
      BY <2>1, UninitializedNeat
    <2>2. CASE e.link_state = "INITIALIZED"
      BY <2>2, InitializedNeat
    <2>3. CASE e.link_state = "ACTIVE"
      BY <2>3, ActiveNeat
    <2> QED BY <2>1, <2>2, <2>3 DEF Endpoint, LinkStates
  <1> HIDE DEF x
  <1>2. Tidied(e, link_run(s, x))
    BY <1>1, RunTidied
  <1> QED BY <1>2 DEF h5_process_frame, x

=============================================================================
