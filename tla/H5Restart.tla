----------------------------- MODULE H5Restart -----------------------------
(***************************************************************************)
(* Restarts of the H5 link.  Two sequences of hci.c bring the transport    *)
(* back to LINK_UNINITIALIZED:                                             *)
(*                                                                         *)
(*   - a CSR controller reboots after its patches or baud rate change, and *)
(*     hci_initialization_timeout_handler calls reset_link on the host;    *)
(*   - hci_power_control turns the stack off (transport close, controller  *)
(*     unpowered) and on again (transport open, controller starts afresh). *)
(***************************************************************************)
EXTENDS H5Link

CONSTANTS
    Host,        \* the side that runs hci.c
    MaxRestart   \* bound: restarts of either kind

ASSUME HostAssumption == Host \in Side
ASSUME MaxRestartAssumption == MaxRestart \in Nat

VARIABLES
    open,      \* the host's UART is open
    aborted,   \* close cancelled a write: its frame_sent will never come
    rebooted,  \* the controller has rebooted, reset_link is still to come
    base,      \* packets the host handed over before the last restart
    restarts

restartVars == << ep, wire, open, aborted, rebooted, base, restarts >>

Ctrl == Other(Host)

RestartTypeOK ==
    /\ TypeOK
    /\ open \in BOOLEAN /\ aborted \in BOOLEAN /\ rebooted \in BOOLEAN
    /\ base \in 0..MaxSend /\ restarts \in 0..MaxRestart

RestartInit ==
    /\ Init
    /\ open = TRUE /\ aborted = FALSE /\ rebooted = FALSE
    /\ base = 0 /\ restarts = 0

Booted == link_init(Ctrl, Closed)

\* The controller restarts on a command of the host; what it was sending is
\* lost.
WarmBoot ==
    /\ open /\ ~rebooted /\ restarts < MaxRestart
    /\ Running(Host)
    /\ ep[Host].link_state = "ACTIVE" /\ ep[Ctrl].received # << >>
    /\ ep' = [ep EXCEPT ![Ctrl] = Booted]
    /\ wire' = [wire EXCEPT ![Ctrl] = << >>]
    /\ rebooted' = TRUE
    /\ restarts' = restarts + 1
    /\ UNCHANGED << open, aborted, base >>

\* The initialization timeout of hci.c, 200 ms after the command that reboots the
\* controller: what was pending at the reboot has long been written.  The
\* history fields start a new session.
ResetLink ==
    /\ open /\ rebooted
    /\ Running(Host)
    /\ ep[Host].actions = {}
    /\ ep' = [ep EXCEPT ![Host] =
                [h5_reset_link(Host, @) EXCEPT !.accepted = 0,
                                               !.received = << >>]]
    /\ rebooted' = FALSE
    /\ base' = ep[Host].submitted
    /\ UNCHANGED << wire, open, aborted, restarts >>

\* hci_power_control_off: close, then the controller is unpowered.
PowerOff ==
    /\ open /\ ~rebooted /\ restarts < MaxRestart
    /\ Running(Host)
    /\ open' = FALSE
    /\ aborted' = (aborted \/ ep[Host].uart # NoFrame)
    /\ wire' = [s \in Side |-> << >>]
    /\ ep' = [ep EXCEPT ![Ctrl] = Closed]
    /\ restarts' = restarts + 1
    /\ UNCHANGED << rebooted, base >>

\* hci_power_control_on: open calls link_init and nothing else of this file.
PowerOn ==
    /\ ~open
    /\ Running(Host)
    /\ open' = TRUE
    /\ ep' = [s \in Side |->
                IF s = Ctrl THEN Booted
                ELSE [link_init(Host, ep[Host]) EXCEPT !.accepted = 0,
                                                       !.received = << >>]]
    /\ base' = ep[Host].submitted
    /\ UNCHANGED << wire, aborted, rebooted, restarts >>

Keep == UNCHANGED << open, aborted, rebooted, base, restarts >>

\* A closed or cancelled UART calls nobody back.
UartWorks(s) == open /\ (s = Host => ~aborted)

Call(s)      == open /\ (\E call \in Calls[s] : UpperCall(s, call)) /\ Keep
WriteEnds(s) == UartWorks(s) /\ (Transmit(s) \/ Lose(s)) /\ Keep
Sent(s)      == UartWorks(s) /\ FrameSent(s) /\ Keep
Received(s)  == open /\ FrameReceived(s) /\ Keep

\* The timers of the run loop are not stopped by close.
Timeout(s)   == LinkTimeout(s) /\ Keep

LinkStep ==
    \E s \in Side :
        Call(s) \/ WriteEnds(s) \/ Sent(s) \/ Received(s) \/ Timeout(s)

RestartNext == WarmBoot \/ ResetLink \/ PowerOff \/ PowerOn \/ LinkStep

RestartSpec == RestartInit /\ [][RestartNext]_restartVars

\* Fairness as in H5Link; the initialization timer of hci.c expires.  Nothing
\* forces the user to turn the stack on again.
RestartFairness ==
    /\ WF_restartVars(ResetLink)
    /\ \A s \in Side :
        /\ WF_restartVars(WriteEnds(s)) /\ WF_restartVars(Sent(s))
        /\ WF_restartVars(Received(s)) /\ WF_restartVars(Timeout(s))
    /\ <>[][\A s \in Side : ~Lose(s)]_restartVars

FairRestartSpec == RestartSpec /\ RestartFairness

-----------------------------------------------------------------------------

\* A packet the host handed over before reset_link or the power cycle never
\* reaches the upper layer of the restarted controller as a packet of the new
\* session: reset_link clears the queue, and nothing but SYNC and CONFIG is
\* looked at before the link is active again.
NoStalePacket ==
    \A i \in 1..Len(ep[Ctrl].received) :
        ~rebooted => ep[Ctrl].received[i] = base + i

\* A packet of the restarted controller is reported as sent only after the host
\* has taken it: no acknowledgement of the old session counts for the new one.
NoStaleAck ==
    ~rebooted => Confirmed(ep[Ctrl]) <= Len(ep[Host].received)

\* After the controller has rebooted and reset_link was called, the link comes
\* up again: both ends reach LINK_ACTIVE, unless the stack is turned off.
RestartRecovers ==
    rebooted ~> \/ ~rebooted /\ \A s \in Side : ep[s].link_state = "ACTIVE"
                \/ ~open
=============================================================================
