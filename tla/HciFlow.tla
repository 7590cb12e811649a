------------------------------ MODULE HciFlow ------------------------------
(***************************************************************************)
(* The outgoing side of HCI (src/hci.c): one packet buffer shared by ACL   *)
(* data and commands, ACL packets sent in fragments, the count of packets  *)
(* that the controller holds for each connection, and the command credit.  *)
(* A handler of hci.c is an operator on the record hci; an event is one    *)
(* step: its handler, what the upper layers do when they see the event,    *)
(* the end of a closed connection and hci_run.                             *)
(*                                                                         *)
(* The controller and the transport are external.  The transport may be    *)
(* synchronous (no can_send_packet_now: the packet is gone when            *)
(* send_packet returns, TRANSPORT_PACKET_SENT is scheduled as callback) or *)
(* asynchronous (busy until TRANSPORT_PACKET_SENT).                        *)
(***************************************************************************)
EXTENDS Integers, Sequences, Totals

CONSTANTS
    AclHandles,     \* connection handles of classic connections
    LeHandles,      \* of LE connections
    AclTotal,       \* acl_packets_total_num
    LeTotals,       \* values of le_acl_packets_total_num, 0: buffers are shared
    MaxFragments,   \* bound on the fragments of an ACL packet
    MaxEvents,      \* bound on the events on their way to the host
    MaxConnects,    \* bound on the connections
    MaxSends,       \* bound on what upper layers send
    MaxReserved     \* bound on the packets reserved

Handles == AclHandles \cup LeHandles

ASSUME HandleAssumption ==
    AclHandles \cap LeHandles = {} /\ Handles # {} /\ IsFiniteSet(Handles)
ASSUME TotalAssumption == AclTotal \in Nat \ {0} /\ LeTotals \subseteq Nat
ASSUME FlowBoundAssumption ==
    /\ MaxFragments \in Nat \ {0} /\ MaxEvents \in Nat
    /\ MaxConnects \in Nat /\ MaxSends \in Nat /\ MaxReserved \in 0..AclTotal

VARIABLES
    sync,      \* hci_transport_synchronous
    leTotal,   \* le_acl_packets_total_num
    hci,       \* hci_stack, see HciState
    wire,      \* packets on their way to the controller
    ctl,       \* controller: packets it holds for each open handle
    partial,   \* controller: open handles whose packet is not complete
    command,   \* controller: "none", "pending", or "busy" after num_packets = 0
    events,    \* events on their way to the host
    connects,  \* connections made
    sends      \* packets and commands the upper layers asked for

env  == << sync, leTotal >>
vars == << env, hci, wire, ctl, partial, command, events, connects, sends >>

Command == [type |-> "command"]
Packet  == [type : {"command"}] \cup
    [type : {"acl"}, handle : Handles, first : BOOLEAN, last : BOOLEAN]

HciState ==
    [ conns    : SUBSET Handles,       \* connections
      sent     : [Handles -> Nat],     \* num_packets_sent
      reserved : 0..AclTotal,          \* acl_packets_reserved
      buffer   : BOOLEAN,              \* hci_packet_buffer_reserved
      owner    : Handles,              \* handle of the ACL packet in the buffer
      left     : 0..MaxFragments,      \* fragments left, from acl_fragmentation_*
      active   : BOOLEAN,              \* acl_fragmentation_tx_active
      pending  : BOOLEAN,              \* TRANSPORT_PACKET_SENT is to come
      cmds     : 0..1,                 \* num_cmd_packets
      tasks    : 0..MaxSends,          \* commands hci_run has to send
      out      : Seq(Packet) ]         \* handed to send_packet in this step

Event == [type : {"completed"}, handle : Handles, n : Nat \ {0}]
           \cup [type : {"disconnected", "connected"}, handle : Handles]
           \cup [type : {"command"}, n : 0..1]

HciTypeOK ==
    /\ sync \in BOOLEAN /\ leTotal \in LeTotals
    /\ hci \in HciState /\ hci.out = << >>
    /\ wire \in Seq(Packet)
    /\ \E H \in SUBSET Handles : ctl \in [H -> Nat]
    /\ partial \subseteq DOMAIN ctl
    /\ command \in {"none", "pending", "busy"}
    /\ events \in Seq(Event)
    /\ connects \in 0..MaxConnects /\ sends \in 0..MaxSends

-----------------------------------------------------------------------------
(* hci.c: what may be sent *)

\* num_packets_sent of the connections among S, added up
Sent(s, S) == Total([h \in s.conns \cap S |-> s.sent[h]])

\* hci_number_free_acl_slots_for_connection_type
FreeAclSlots(s, le) ==
    LET classic == AclTotal - s.reserved - Sent(s, AclHandles)
    IN  IF leTotal = 0 THEN classic - Sent(s, LeHandles)
        ELSE IF le THEN leTotal - Sent(s, LeHandles) ELSE classic

\* The assertions in that function.
SlotAssertions(s) ==
    LET classic == AclTotal - s.reserved - Sent(s, AclHandles)
    IN  /\ classic >= 0
        /\ Sent(s, LeHandles) <= IF leTotal = 0 THEN classic ELSE leTotal

\* hci_transport_can_send_prepared_packet_now
TransportCanSend(s) == sync \/ ~s.pending

\* hci_can_send_prepared_acl_packet_now
CanSendPreparedAcl(s, h) ==
    TransportCanSend(s) /\ h \in s.conns /\ FreeAclSlots(s, h \in LeHandles) > 0

\* hci_can_send_acl_packet_now
CanSendAcl(s, h) == ~s.buffer /\ CanSendPreparedAcl(s, h)

\* Mutant: the command credit is not looked at.
MutantCanSendCommand(s) == ~s.buffer /\ TransportCanSend(s)

\* hci_can_send_command_packet_now
CanSendCommand(s) == ~s.buffer /\ TransportCanSend(s) /\ s.cmds > 0

-----------------------------------------------------------------------------
(* hci.c: sending *)

\* Mutant: an ACL packet is counted once, whatever its fragments.
MutantSendAclFragments(s, first) ==
    [s EXCEPT !.sent[s.owner] = IF first THEN @ + 1 ELSE @,
              !.left = @ - 1,
              !.active = ~sync,
              !.pending = TRUE,
              !.out = Append(@, [type |-> "acl", handle |-> s.owner,
                                 first |-> first, last |-> s.left = 1])]

\* hci_send_acl_packet_fragments: the connection counts the fragment before
\* the transport sees it.
SendAclFragments(s, first) ==
    [s EXCEPT !.sent[s.owner] = @ + 1,
              !.left = @ - 1,
              !.active = ~sync,
              !.pending = TRUE,
              !.out = Append(@, [type |-> "acl", handle |-> s.owner,
                                 first |-> first, last |-> s.left = 1])]

\* An upper layer checks hci_can_send_acl_packet_now, reserves the buffer and
\* calls hci_send_acl_packet_buffer with a packet of n fragments.
SendAclPacketBuffer(s, h, n) ==
    SendAclFragments([s EXCEPT !.buffer = TRUE, !.owner = h, !.left = n], TRUE)

\* hci_send_cmd, hci_send_prepared_cmd_packet, hci_send_cmd_packet
SendCmd(s) ==
    [s EXCEPT !.buffer = TRUE, !.cmds = @ - 1, !.pending = TRUE,
              !.out = Append(@, Command)]

\* Mutant: a packet that was started is finished, free buffers or not.
MutantRunAclFragments(s) ==
    IF s.owner \notin s.conns THEN [s EXCEPT !.left = 0]
    ELSE IF TransportCanSend(s) THEN SendAclFragments(s, FALSE)
    ELSE s

\* hci_run_acl_fragments
RunAclFragments(s) ==
    IF s.owner \notin s.conns THEN [s EXCEPT !.left = 0]
    ELSE IF CanSendPreparedAcl(s, s.owner) THEN SendAclFragments(s, FALSE)
    ELSE s

\* hci_run: fragments first, they block the buffer; then one command.
HciRun(s) ==
    LET f == IF s.left > 0 THEN RunAclFragments(s) ELSE s
    IN  IF f.out # s.out \/ f.tasks = 0 \/ ~CanSendCommand(f) THEN f
        ELSE [SendCmd(f) EXCEPT !.tasks = @ - 1]

-----------------------------------------------------------------------------
(* hci.c: events *)

\* hci_handle_number_of_completed_packets
NumberOfCompletedPackets(s, h, n) ==
    IF h \notin s.conns THEN s
    ELSE [s EXCEPT !.sent[h] = IF @ >= n THEN @ - n ELSE 0]

\* Mutant: the fragments are dropped whichever connection is closed.
MutantDropAll(s, h) ==
    [s EXCEPT !.left = 0,
              !.buffer = @ /\ ~(s.left > 0 /\ ~s.active),
              !.sent[h] = 0]

\* Mutant: the buffer of the dropped packet stays reserved.
MutantKeepBuffer(s, h) ==
    [s EXCEPT !.left = IF s.owner = h THEN 0 ELSE @, !.sent[h] = 0]

\* hci_handle_disconnection_complete_event: drop the fragments of the closed
\* connection, release the buffer unless the transport works on it; then
\* hci_connection_init resets the count.
DisconnectionComplete(s, h) ==
    LET drop == s.left > 0 /\ s.owner = h
    IN  [s EXCEPT !.left = IF drop THEN 0 ELSE @,
                  !.buffer = @ /\ ~(drop /\ ~s.active),
                  !.sent[h] = 0]

\* The end of event_handler: hci_shutdown_connection for the closed connection
ShutdownConnection(s, gone) ==
    [s EXCEPT !.conns = @ \ gone,
              !.sent = [h \in Handles |-> IF h \in gone THEN 0 ELSE s.sent[h]]]

\* HCI_EVENT_TRANSPORT_PACKET_SENT: the buffer is kept for further fragments.
TransportPacketSent(s) ==
    [s EXCEPT !.active = FALSE, !.pending = FALSE, !.buffer = s.left > 0]

\* handle_command_complete_event, handle_command_status_event
CommandComplete(s, n) == [s EXCEPT !.cmds = IF n > 0 THEN 1 ELSE 0]

ConnectionComplete(s, h) == [s EXCEPT !.conns = @ \cup {h}, !.sent[h] = 0]

\* What an upper layer may do when it sees an event: send a packet on a
\* connection, which is still in the list when it is being closed, or leave
\* a command to hci_run.
Upper(s) ==
    { SendAclPacketBuffer(s, h, n) :
          h \in {c \in Handles : CanSendAcl(s, c)}, n \in 1..MaxFragments }
    \cup { [s EXCEPT !.tasks = @ + 1] }

\* The rest of event_handler: the packets that were sent leave the record.
Finish(s) ==
    /\ hci' = [s EXCEPT !.out = << >>]
    /\ wire' = wire \o s.out

\* gone: the connection that is closed, if any
EventHandler(s, gone) ==
    \/ Finish(HciRun(ShutdownConnection(s, gone))) /\ UNCHANGED sends
    \/ /\ sends < MaxSends /\ sends' = sends + 1
       /\ \E u \in Upper(s) : Finish(HciRun(ShutdownConnection(u, gone)))

-----------------------------------------------------------------------------
(* Steps of the host *)

\* The transport is done with a packet, or the scheduled callback runs.
PacketSent ==
    /\ hci.pending
    /\ EventHandler(TransportPacketSent(hci), {})
    /\ UNCHANGED << env, ctl, partial, command, events, connects >>

\* An event of the controller.
Receive ==
    /\ events # << >>
    /\ events' = Tail(events)
    /\ LET e == Head(events)
       IN  CASE e.type = "completed" ->
                   EventHandler(NumberOfCompletedPackets(hci, e.handle, e.n), {})
             [] e.type = "disconnected" ->
                   EventHandler(DisconnectionComplete(hci, e.handle), {e.handle})
             [] e.type = "connected" ->
                   EventHandler(ConnectionComplete(hci, e.handle), {})
             [] e.type = "command" ->
                   EventHandler(CommandComplete(hci, e.n), {})
    /\ UNCHANGED << env, ctl, partial, command, connects >>

\* An upper layer outside of an event; a GAP function ends in hci_run.
Send ==
    /\ sends < MaxSends /\ sends' = sends + 1
    /\ \E u \in Upper(hci) : Finish(IF u.tasks > hci.tasks THEN HciRun(u) ELSE u)
    /\ UNCHANGED << env, ctl, partial, command, events, connects >>

\* hci_acl_reserve_packets.  It asserts that all reservations fit; callers
\* have to reserve free buffers for the slot assertions to hold.
ReservePackets ==
    /\ hci.reserved < MaxReserved
    /\ FreeAclSlots(hci, FALSE) > 0
    /\ hci' = [hci EXCEPT !.reserved = @ + 1]
    /\ UNCHANGED << env, wire, ctl, partial, command, events, connects, sends >>

\* hci_acl_release_packets
ReleasePackets ==
    /\ hci.reserved > 0
    /\ Finish(HciRun([hci EXCEPT !.reserved = @ - 1]))
    /\ UNCHANGED << env, ctl, partial, command, events, connects, sends >>

-----------------------------------------------------------------------------
(* The controller *)

Emit(e) == Len(events) < MaxEvents /\ events' = Append(events, e)

\* It takes the next packet; data for a closed connection is dropped.
CtlTake ==
    /\ wire # << >>
    /\ wire' = Tail(wire)
    /\ LET p == Head(wire)
       IN  IF p.type = "command"
           THEN command' = "pending" /\ UNCHANGED << ctl, partial >>
           ELSE /\ UNCHANGED command
                /\ IF p.handle \notin DOMAIN ctl THEN UNCHANGED << ctl, partial >>
                   ELSE /\ ctl' = [ctl EXCEPT ![p.handle] = @ + 1]
                        /\ partial' = IF p.last THEN partial \ {p.handle}
                                      ELSE partial \cup {p.handle}
    /\ UNCHANGED << env, hci, events, connects, sends >>

CtlCompleted(h) ==
    \E n \in 1..ctl[h] :
        /\ ctl' = [ctl EXCEPT ![h] = @ - n]
        /\ Emit([type |-> "completed", handle |-> h, n |-> n])
        /\ UNCHANGED << env, hci, wire, partial, command, connects, sends >>

\* A command is answered with or without a credit for the next one; a credit
\* that was kept back is given later.
CtlCommand ==
    \E n \in 0..1 :
        /\ command = "pending" \/ (command = "busy" /\ n = 1)
        /\ command' = IF n = 0 THEN "busy" ELSE "none"
        /\ Emit([type |-> "command", n |-> n])
        /\ UNCHANGED << env, hci, wire, ctl, partial, connects, sends >>

\* The packets it holds for a closed connection are gone.
CtlDisconnected(h) ==
    /\ Emit([type |-> "disconnected", handle |-> h])
    /\ ctl' = [c \in DOMAIN ctl \ {h} |-> ctl[c]]
    /\ partial' = partial \ {h}
    /\ UNCHANGED << env, hci, wire, command, connects, sends >>

\* A handle is used again when nothing of its last connection is under way.
CtlConnected(h) ==
    /\ connects < MaxConnects /\ connects' = connects + 1
    /\ h \notin DOMAIN ctl \cup hci.conns
    /\ \A i \in DOMAIN wire : wire[i].type = "acl" => wire[i].handle # h
    /\ \A i \in DOMAIN events : events[i].type # "command" => events[i].handle # h
    /\ Emit([type |-> "connected", handle |-> h])
    /\ ctl' = [c \in DOMAIN ctl \cup {h} |-> IF c = h THEN 0 ELSE ctl[c]]
    /\ UNCHANGED << env, hci, wire, partial, command, sends >>

Controller ==
    \/ CtlTake \/ CtlCommand
    \/ \E h \in DOMAIN ctl : CtlCompleted(h) \/ CtlDisconnected(h)
    \/ \E h \in Handles : CtlConnected(h)

Init ==
    /\ sync \in BOOLEAN /\ leTotal \in LeTotals
    /\ hci = [ conns |-> {}, sent |-> [h \in Handles |-> 0], reserved |-> 0,
               buffer |-> FALSE, owner |-> CHOOSE h \in Handles : TRUE,
               left |-> 0, active |-> FALSE, pending |-> FALSE, cmds |-> 1,
               tasks |-> 0, out |-> << >> ]
    /\ wire = << >> /\ ctl = [h \in {} |-> 0] /\ partial = {}
    /\ command = "none" /\ events = << >>
    /\ connects = 0 /\ sends = 0

Next == PacketSent \/ Receive \/ Send \/ ReservePackets \/ ReleasePackets
        \/ Controller

\* The host handles its events, the transport sends, the controller works on
\* packets and commands, and reserved packets are released.
Fairness ==
    /\ WF_vars(PacketSent) /\ WF_vars(Receive) /\ WF_vars(CtlTake)
    /\ WF_vars(CtlCommand) /\ WF_vars(ReleasePackets)
    /\ \A h \in Handles : WF_vars(h \in DOMAIN ctl /\ CtlCompleted(h))

Spec == Init /\ [][Next]_vars /\ Fairness

-----------------------------------------------------------------------------
(* Properties *)

\* Fragments of h among the packets w, packets of h reported in the events es
Fragments(w, h) ==
    Total([i \in DOMAIN w |-> IF w[i].type = "acl" /\ w[i].handle = h THEN 1 ELSE 0])

Completed(es, h) ==
    Total([i \in DOMAIN es |->
               IF es[i].type = "completed" /\ es[i].handle = h THEN es[i].n ELSE 0])

\* The host's count for a connection that both sides know is exactly what it
\* has under way: fragments on the transport, packets in the controller and
\* completions that were not handled yet.  So the count is never corrected to
\* 0 ("more packet slots freed then sent").
SlotsConserved ==
    \A h \in hci.conns \cap DOMAIN ctl :
        hci.sent[h] = Fragments(wire, h) + ctl[h] + Completed(events, h)

\* The controller never gets more packets than it has buffers for, whichever
\* connections are closed while fragments are under way, and the assertions of
\* hci_number_free_acl_slots_for_connection_type hold.
AclBuffersRespected ==
    LET load(S) == Total([h \in S \cap DOMAIN ctl |-> Fragments(wire, h) + ctl[h]])
    IN  /\ IF leTotal = 0 THEN load(Handles) + hci.reserved <= AclTotal
           ELSE /\ load(AclHandles) + hci.reserved <= AclTotal
                /\ load(LeHandles) <= leTotal
        /\ SlotAssertions(hci)

\* The controller sees the fragments of a packet together: a continuing
\* fragment follows a first one of the same packet, a first fragment comes
\* after a complete packet, also when the buffer is released or given to
\* another connection because one is closed.
FragmentsInOrder ==
    [][CtlTake /\ Head(wire).type = "acl" /\ Head(wire).handle \in DOMAIN ctl
       => Head(wire).first = (Head(wire).handle \notin partial)]_vars

\* The packet buffer, which everything has to go through, is always released.
BufferReleased == hci.buffer ~> ~hci.buffer

=============================================================================
