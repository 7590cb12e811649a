--------------------------- MODULE H5RestartProofs ---------------------------
(***************************************************************************)
(* No packet and no acknowledgement of an old session counts in a new one, *)
(* for any number of restarts.  Between two restarts the link is the link  *)
(* of H5Link, seen through a mapping: the packets of the session are       *)
(* counted from base, and the frames of the old session that are still on  *)
(* the wire in front of the host's first SYNC_RESPONSE are left out.  The  *)
(* rebooted controller looks at nothing before that SYNC_RESPONSE, and the *)
(* host writes none after its first packet of a session.                   *)
(***************************************************************************)
EXTENDS H5Restart, H5LinkProofs

\* The frame that is being written and may still reach the wire.
Pending(e) == e.uart # NoFrame /\ ~e.uart_done

\* A frame of the host with its packet counted from b.
Shift(f, b) == [f EXCEPT !.n = IF f.type = "DATA" THEN @ - b ELSE @]

\* The frames of the session: all of w but the first k, counted from b.
Fresh(w, k, b) == [i \in 1..Len(w) - k |-> Shift(w[k + i], b)]

\* The host in its session.  Until the link is active its sequence numbers mean
\* nothing, and with old the frame it is writing is one of the old session.
ActiveNr(h, n) == IF h.link_state = "ACTIVE" THEN n ELSE 0

FreshWrite(h, b, old) == IF Pending(h) /\ ~old THEN Shift(h.uart, b) ELSE NoFrame

HostView(h, b, old) ==
    [h EXCEPT !.submitted = @ - b,
              !.seq_nr = ActiveNr(h, @), !.ack_nr = ActiveNr(h, @),
              !.uart = FreshWrite(h, b, old), !.uart_done = FALSE]

\* The controller in its session: the packets it got, counted from b.
Counted(l, b) == [i \in 1..Len(l) |-> l[i] - b]

CtrlView(c, b) == [c EXCEPT !.received = Counted(@, b)]

IsAnswer(f) == f.type = "SYNC_RESPONSE"

\* The controller c and the frames on the wire fit the host view hv; the first k
\* frames of w are of an old session.
Joint(hv, c, w, v, b, k) ==
    /\ k \in 0..Len(w)
    /\ k > 0 => c.link_state = "UNINITIALIZED"
    /\ \A i \in 1..k : ~IsAnswer(w[i])
    /\ hv \in Endpoint
    /\ CtrlView(c, b) \in Endpoint
    /\ Fresh(w, k, b) \in Seq(Frame)
    /\ PairInv(hv, CtrlView(c, b), Fresh(w, k, b), v)

\* No packet of the session is ahead of the last place of w.
NoPacketYet(c, w, k, last) ==
    /\ c.accepted = 0
    /\ \A i \in k + 1..last : w[i].type # "DATA"

\* The host answers no SYNC after its first packet of the session.
AnswersFirst(h, c, w, k, old) ==
    /\ \A j \in 1..Len(w) : IsAnswer(w[j]) => NoPacketYet(c, w, k, j)
    /\ Pending(h) /\ IsAnswer(h.uart) => NoPacketYet(c, w, k, Len(w))
    /\ MayAnswerSync(h) =>
           /\ NoPacketYet(c, w, k, Len(w))
           /\ Pending(h) /\ ~old => h.uart.type # "DATA"

\* The two ends are in one session: the first k frames on the wire from the host,
\* and with old the one being written, belong to an earlier session.
Linked(h, c, w, v, b, k, old) ==
    /\ old => /\ Pending(h) /\ ~IsAnswer(h.uart)
              /\ k = Len(w)
              /\ c.link_state = "UNINITIALIZED"
    /\ b <= h.submitted
    /\ Joint(HostView(h, b, old), c, w, v, b, k)
    /\ AnswersFirst(h, c, w, k, old)

Session(h, c, w, v, b, k, old) ==
    /\ Orderly(h) /\ Settled(h)
    /\ Linked(h, c, w, v, b, k, old)

\* The controller has rebooted and the host still goes on with the old session.
Rebooting(h, c, w, v, b) ==
    /\ Orderly(h)
    /\ ~MayAnswerSync(h)
    /\ Pending(h) => ~IsAnswer(h.uart)
    /\ \A i \in 1..Len(w) : ~IsAnswer(w[i])
    /\ c.link_state = "UNINITIALIZED"
    /\ Joint(Opened, c, w, v, b, Len(w))

\* The host stopped in a fault, or its UART does not write any more: a controller
\* powered up after that waits for ever.
Silent(h, c, w, cancelled) ==
    /\ Faulted(h) \/ cancelled
    /\ w = << >>
    /\ c.link_state = "UNINITIALIZED" /\ c.packet = "none"
    /\ c.submitted = 0 /\ c.received = << >>

\* The stack is off.  Unless it was closed in the middle of a write, either the
\* link timer will trip over itself at the next start or nothing is pending.
Off(h, c, w, v, cancelled) ==
    /\ c = Closed /\ w = << >> /\ v = << >>
    /\ \/ cancelled
       \/ /\ Orderly(h)
          /\ h.link_timer \/ (h.uart = NoFrame /\ h.actions \cap Sendable = {})

\* With the UART open the link is in one of three phases.
Phase(h, c, w, v, b, cancelled, reboots) ==
    \/ reboots /\ ~cancelled /\ Rebooting(h, c, w, v, b)
    \/ ~reboots /\ Silent(h, c, w, cancelled)
    \/ /\ ~reboots /\ ~cancelled
       /\ \E k \in 0..Len(w), old \in BOOLEAN : Session(h, c, w, v, b, k, old)

RestartInv ==
    IF open
    THEN Phase(ep[Host], ep[Ctrl], wire[Host], wire[Ctrl], base, aborted, rebooted)
    ELSE ~rebooted /\ Off(ep[Host], ep[Ctrl], wire[Host], wire[Ctrl], aborted)

\* What holds of the host in every phase.
Regular(h) == TypeMatches(h) /\ h.submitted <= MaxSend

RInv == RestartTypeOK /\ Regular(ep[Host]) /\ RestartInv

-----------------------------------------------------------------------------
(* The frames of the session.                                              *)

\* Shifting a frame changes nothing but the number of its packet.
LEMMA ShiftFields ==
    ASSUME NEW f \in Frame, NEW b \in Nat
    PROVE  /\ Shift(f, b).type = f.type /\ Shift(f, b).seq = f.seq
           /\ Shift(f, b).ack = f.ack /\ Shift(f, b).upto = f.upto
           /\ Shift(f, b).n = IF f.type = "DATA" THEN f.n - b ELSE f.n
           /\ Shift(f, b) \in Frame <=> (f.type = "DATA" => f.n - b \in Nat)
  <1> DEFINE m == IF f.type = "DATA" THEN f.n - b ELSE f.n
  <1>1. Shift(f, b) = [f EXCEPT !.n = m]
    BY DEF Shift
  <1>2. f.n \in Nat
    BY DEF Frame
  <1>3. m \in Nat <=> (f.type = "DATA" => f.n - b \in Nat)
    BY <1>2
  <1> HIDE DEF m
  <1>4. [f EXCEPT !.n = m] \in Frame <=> m \in Nat
    BY DEF Frame
  <1>5. /\ [f EXCEPT !.n = m].type = f.type /\ [f EXCEPT !.n = m].seq = f.seq
        /\ [f EXCEPT !.n = m].ack = f.ack /\ [f EXCEPT !.n = m].upto = f.upto
        /\ [f EXCEPT !.n = m].n = m
    BY DEF Frame
  <1> QED BY <1>1, <1>3, <1>4, <1>5 DEF m

\* The frames of the session are as many as are left and come in their order.
LEMMA FreshElements ==
    ASSUME NEW w \in Seq(Frame), NEW k \in 0..Len(w), NEW b
    PROVE  /\ DOMAIN Fresh(w, k, b) = 1..Len(w) - k
           /\ \A i \in 1..Len(w) - k : Fresh(w, k, b)[i] = Shift(w[k + i], b)
           /\ Fresh(w, k, b) \in Seq(Frame) => Len(Fresh(w, k, b)) = Len(w) - k
  BY DEF Fresh

\* With all frames old there is none of the session.
LEMMA FreshNone ==
    ASSUME NEW w \in Seq(Frame), NEW b
    PROVE  Fresh(w, Len(w), b) = << >>
  <1>1. Len(w) - Len(w) = 0
    OBVIOUS
  <1> QED BY <1>1 DEF Fresh

\* Taking an old frame off the wire leaves the frames of the session.
LEMMA FreshTailOld ==
    ASSUME NEW w \in Seq(Frame), NEW k \in 1..Len(w), NEW b
    PROVE  Fresh(Tail(w), k - 1, b) = Fresh(w, k, b)
  <1> DEFINE t == Tail(w)
             n == Len(w) - k
  <1>1. /\ w # << >> /\ t \in Seq(Frame) /\ Len(t) = Len(w) - 1
        /\ \A i \in 1..Len(t) : t[i] = w[i + 1]
    OBVIOUS
  <1> HIDE DEF t
  <1>2. Len(t) - (k - 1) = n
    BY <1>1
  <1>3. ASSUME NEW i \in 1..n
        PROVE  t[k - 1 + i] = w[k + i]
    <2>1. k - 1 + i \in 1..Len(t) /\ k - 1 + i + 1 = k + i
      BY <1>1
    <2> QED BY <1>1, <2>1
  <1>4. [i \in 1..n |-> Shift(t[k - 1 + i], b)] = [i \in 1..n |-> Shift(w[k + i], b)]
    BY <1>3
  <1> QED BY <1>2, <1>4 DEF Fresh, t

\* Taking the first frame of the session off the wire.
LEMMA FreshTailNew ==
    ASSUME NEW w \in Seq(Frame), w # << >>, NEW b, Fresh(w, 0, b) \in Seq(Frame)
    PROVE  /\ Fresh(w, 0, b) # << >>
           /\ Head(Fresh(w, 0, b)) = Shift(Head(w), b)
           /\ Tail(Fresh(w, 0, b)) = Fresh(Tail(w), 0, b)
           /\ Fresh(Tail(w), 0, b) \in Seq(Frame)
  <1> DEFINE t == Tail(w)
             f == Fresh(w, 0, b)
             g == Fresh(t, 0, b)
  <1>1. /\ t \in Seq(Frame) /\ Len(t) = Len(w) - 1 /\ Len(w) >= 1
        /\ \A i \in 1..Len(t) : t[i] = w[i + 1]
        /\ Head(w) = w[1]
    OBVIOUS
  <1> HIDE DEF t
  <1>2. /\ Len(f) = Len(w) /\ f \in Seq(Frame)
        /\ \A i \in 1..Len(w) : f[i] = Shift(w[i], b)
    <2>1. 0 \in 0..Len(w) /\ Len(w) - 0 = Len(w)
      OBVIOUS
    <2>2. \A i \in 1..Len(w) : 0 + i = i
      OBVIOUS
    <2> QED BY <2>1, <2>2, FreshElements
  <1>3. /\ DOMAIN g = 1..Len(t)
        /\ \A i \in 1..Len(t) : g[i] = Shift(t[i], b)
    <2>1. 0 \in 0..Len(t) /\ Len(t) - 0 = Len(t)
      BY <1>1
    <2>2. \A i \in 1..Len(t) : 0 + i = i
      OBVIOUS
    <2> QED BY <1>1, <2>1, <2>2, FreshElements
  <1>4. g = [i \in 1..Len(t) |-> g[i]]
    BY <1>3 DEF Fresh
  <1> HIDE DEF f, g
  <1>5. \A i \in 1..Len(t) : g[i] = f[i + 1] /\ f[i + 1] \in Frame
    BY <1>1, <1>2, <1>3
  <1>6. g \in Seq(Frame) /\ Len(g) = Len(t)
    BY <1>1, <1>4, <1>5
  <1>7. /\ f # << >> /\ Head(f) = f[1] /\ Tail(f) \in Seq(Frame)
        /\ Len(Tail(f)) = Len(f) - 1
        /\ \A i \in 1..Len(f) - 1 : Tail(f)[i] = f[i + 1]
    BY <1>1, <1>2
  <1>8. Tail(f) = g
    <2> DEFINE u == Tail(f)
    <2>1. u \in Seq(Frame) /\ Len(u) = Len(g)
      BY <1>1, <1>2, <1>6, <1>7
    <2>2. \A i \in 1..Len(g) : u[i] = g[i]
      BY <1>1, <1>2, <1>5, <1>6, <1>7
    <2> HIDE DEF u
    <2>3. u = g
      BY <1>6, <2>1, <2>2
    <2> QED BY <2>3 DEF u
  <1> QED BY <1>1, <1>2, <1>6, <1>7, <1>8 DEF f, g, t

\* Putting a frame of the session on the wire.
LEMMA FreshAppend ==
    ASSUME NEW w \in Seq(Frame), NEW k \in 0..Len(w), NEW b,
           Fresh(w, k, b) \in Seq(Frame), NEW f \in Frame, Shift(f, b) \in Frame
    PROVE  /\ Fresh(Append(w, f), k, b) = Append(Fresh(w, k, b), Shift(f, b))
           /\ Fresh(Append(w, f), k, b) \in Seq(Frame)
  <1> DEFINE x == Append(w, f)
             n == Len(w) - k
             g == Fresh(w, k, b)
             y == Fresh(x, k, b)
  <1>1. /\ x \in Seq(Frame) /\ Len(x) = Len(w) + 1 /\ x[Len(w) + 1] = f
        /\ \A i \in 1..Len(w) : x[i] = w[i]
        /\ n \in Nat /\ Len(x) - k = n + 1 /\ k + (n + 1) = Len(w) + 1
    OBVIOUS
  <1> HIDE DEF x
  <1>2. Len(g) = n /\ \A i \in 1..n : g[i] = Shift(w[k + i], b) /\ g[i] \in Frame
    BY FreshElements
  <1>3. DOMAIN y = 1..n + 1 /\ \A i \in 1..n + 1 : y[i] = Shift(x[k + i], b)
    <2>1. k \in 0..Len(x)
      BY <1>1
    <2> QED BY <1>1, <2>1, FreshElements
  <1>4. y = [i \in 1..n + 1 |-> y[i]]
    BY <1>1, <1>3 DEF Fresh
  <1>5. \A i \in 1..n : y[i] = g[i]
    <2>1. \A i \in 1..n : k + i \in 1..Len(w) /\ i \in 1..n + 1
      BY <1>1
    <2> QED BY <1>1, <1>2, <1>3, <2>1
  <1>6. y[n + 1] = Shift(f, b)
    BY <1>1, <1>3
  <1> HIDE DEF g, y, n
  <1>7. y \in Seq(Frame) /\ Len(y) = n + 1
    <2>1. ASSUME NEW i \in 1..n + 1
          PROVE  y[i] \in Frame
      <3>1. i \in 1..n \/ i = n + 1
        BY <1>1
      <3> QED BY <1>2, <1>5, <1>6, <3>1
    <2> QED BY <1>1, <1>4, <2>1
  <1>8. y = Append(g, Shift(f, b))
    <2>1. g \in Seq(Frame)
      BY DEF g
    <2>2. /\ Append(g, Shift(f, b)) \in Seq(Frame)
          /\ Len(Append(g, Shift(f, b))) = n + 1
          /\ \A i \in 1..n : Append(g, Shift(f, b))[i] = g[i]
          /\ Append(g, Shift(f, b))[n + 1] = Shift(f, b)
      BY <1>1, <1>2, <2>1
    <2>3. \A i \in 1..n + 1 : y[i] = Append(g, Shift(f, b))[i]
      BY <1>1, <1>5, <1>6, <2>2
    <2> QED BY <1>7, <2>2, <2>3
  <1> QED BY <1>7, <1>8 DEF g, y, x

-----------------------------------------------------------------------------
(* The controller and the frames, seen from the session.                   *)

\* The window invariant may be read from either end.
LEMMA PairSymmetric ==
    ASSUME NEW e, NEW p, NEW w, NEW v
    PROVE  PairInv(e, p, w, v) <=> PairInv(p, e, v, w)
  BY DEF PairInv

\* Two endpoints that differ in the list of packets alone.
SameButPackets(c, d) ==
    /\ d.link_state = c.link_state /\ d.seq_nr = c.seq_nr
    /\ d.ack_nr = c.ack_nr /\ d.packet = c.packet
    /\ d.packet_type = c.packet_type /\ d.submitted = c.submitted
    /\ d.accepted = c.accepted /\ d.uart = c.uart
    /\ d.uart_done = c.uart_done

\* The view of the controller differs in the packets it got.
LEMMA CtrlViewFields ==
    ASSUME NEW c \in Endpoint, NEW b
    PROVE  /\ SameButPackets(c, CtrlView(c, b))
           /\ CtrlView(c, b).received = Counted(c.received, b)
           /\ CtrlView(c, b) \in Endpoint <=> Counted(c.received, b) \in Seq(Nat)
  <1> DEFINE l == Counted(c.received, b)
  <1>1. CtrlView(c, b) = [c EXCEPT !.received = l]
    BY DEF CtrlView
  <1> HIDE DEF l
  <1>2. [c EXCEPT !.received = l].received = l
    BY DEF Endpoint
  <1>3. [c EXCEPT !.received = l] \in Endpoint <=> l \in Seq(Nat)
    BY DEF Endpoint
  <1>4. SameButPackets(c, [c EXCEPT !.received = l])
    BY DEF Endpoint, SameButPackets
  <1> QED BY <1>1, <1>2, <1>3, <1>4 DEF l

\* With the same packets the views have the same packets.
LEMMA CtrlViewSame ==
    ASSUME NEW c \in Endpoint, NEW r \in Endpoint, NEW b, r.received = c.received,
           CtrlView(c, b) \in Endpoint
    PROVE  /\ CtrlView(r, b) \in Endpoint
           /\ SameButPackets(c, CtrlView(c, b))
           /\ SameButPackets(r, CtrlView(r, b))
           /\ CtrlView(r, b).received = CtrlView(c, b).received
  BY CtrlViewFields

\* A Step of the controller is one in the session.
LEMMA CtrlViewStep ==
    ASSUME NEW c \in Endpoint, NEW r \in Endpoint, NEW b,
           CtrlView(c, b) \in Endpoint, Step(c, r)
    PROVE  CtrlView(r, b) \in Endpoint /\ Step(CtrlView(c, b), CtrlView(r, b))
  <1>1. r.received = c.received
    BY DEF Step
  <1> DEFINE d == CtrlView(c, b)
             q == CtrlView(r, b)
  <1>2. /\ q \in Endpoint /\ q.received = d.received
        /\ SameButPackets(c, d) /\ SameButPackets(r, q)
    BY <1>1, CtrlViewSame
  <1> HIDE DEF d, q
  <1>3. FrameFrom(r, r.uart) => FrameFrom(q, q.uart)
    BY <1>2 DEF FrameFrom, SameButPackets
  <1>4. (TypeMatches(c) <=> TypeMatches(d)) /\ (TypeMatches(r) <=> TypeMatches(q))
    BY <1>2 DEF TypeMatches, SameButPackets
  <1>5. Step(d, q)
    BY <1>2, <1>3, <1>4 DEF Step, SameButPackets
  <1> QED BY <1>2, <1>5 DEF d, q

\* A Step of the controller keeps the session's window.
LEMMA JointCtrlStep ==
    ASSUME NEW hv, NEW c \in Endpoint, NEW r \in Endpoint, NEW w \in Seq(Frame),
           NEW v \in Seq(Frame), NEW b, NEW k,
           Joint(hv, c, w, v, b, k), Step(c, r)
    PROVE  Joint(hv, r, w, v, b, k)
  <1> DEFINE g == Fresh(w, k, b)
             d == CtrlView(c, b)
             q == CtrlView(r, b)
  <1>1. /\ hv \in Endpoint /\ d \in Endpoint /\ g \in Seq(Frame)
        /\ PairInv(d, hv, v, g)
    BY PairSymmetric DEF Joint
  <1>2. q \in Endpoint /\ Step(d, q)
    BY <1>1, CtrlViewStep
  <1>3. PairInv(q, hv, v, g)
    BY <1>1, <1>2, StepKeepsWindow
  <1>4. r.link_state = c.link_state
    BY DEF Step
  <1> QED BY <1>1, <1>2, <1>3, <1>4, PairSymmetric DEF Joint

\* Two endpoints that differ in the write alone.
SameButWrite(e, q) ==
    /\ q.link_state = e.link_state /\ q.seq_nr = e.seq_nr
    /\ q.ack_nr = e.ack_nr /\ q.packet = e.packet
    /\ q.packet_type = e.packet_type /\ q.submitted = e.submitted
    /\ q.accepted = e.accepted /\ q.received = e.received

\* The end of a write, before and after frame_sent.
LEMMA WriteOver ==
    ASSUME NEW e \in Endpoint
    PROVE  /\ [e EXCEPT !.uart_done = TRUE] \in Endpoint
           /\ [e EXCEPT !.uart_done = TRUE].uart_done
           /\ [e EXCEPT !.uart_done = TRUE].uart = e.uart
           /\ SameButWrite(e, [e EXCEPT !.uart_done = TRUE])
           /\ Idle(e) \in Endpoint /\ Idle(e).uart = NoFrame
           /\ SameButWrite(e, Idle(e))
  BY DEF Endpoint, SameButWrite, Idle

\* A write of the controller that has ended keeps the session's window.
LEMMA JointCtrlDone ==
    ASSUME NEW hv, NEW c \in Endpoint, NEW r \in Endpoint, NEW w \in Seq(Frame),
           NEW v \in Seq(Frame), NEW b, NEW k,
           Joint(hv, c, w, v, b, k), SameButWrite(c, r),
           r.uart = NoFrame \/ r.uart_done
    PROVE  Joint(hv, r, w, v, b, k)
  <1> DEFINE g == Fresh(w, k, b)
             d == CtrlView(c, b)
             q == CtrlView(r, b)
  <1>1. /\ hv \in Endpoint /\ d \in Endpoint /\ g \in Seq(Frame)
        /\ PairInv(d, hv, v, g)
    BY PairSymmetric DEF Joint
  <1>2. r.received = c.received
    BY DEF SameButWrite
  <1>3. /\ q \in Endpoint /\ q.received = d.received
        /\ SameButPackets(c, d) /\ SameButPackets(r, q)
    BY <1>1, <1>2, CtrlViewSame
  <1> HIDE DEF d, q, g
  <1>4. SameButWrite(d, q) /\ (q.uart = NoFrame \/ q.uart_done)
    BY <1>3 DEF SameButWrite, SameButPackets
  <1>5. PairInv(q, hv, v, g)
    BY <1>1, <1>3, <1>4, WriteEndsKeepsWindow DEF SameButWrite
  <1>6. r.link_state = c.link_state
    BY DEF SameButWrite
  <1> QED BY <1>1, <1>3, <1>5, <1>6, PairSymmetric DEF Joint, d, q, g

\* A frame of the controller may join those on the wire.
LEMMA JointCtrlTransmit ==
    ASSUME NEW hv, NEW c \in Endpoint, NEW w \in Seq(Frame),
           NEW v \in Seq(Frame), NEW b, NEW k,
           Joint(hv, c, w, v, b, k), Pending(c)
    PROVE  Joint(hv, c, w, Append(v, c.uart), b, k)
  <1> DEFINE g == Fresh(w, k, b)
             d == CtrlView(c, b)
  <1>1. /\ hv \in Endpoint /\ d \in Endpoint /\ g \in Seq(Frame)
        /\ PairInv(d, hv, v, g)
    BY PairSymmetric DEF Joint
  <1>2. d.uart = c.uart /\ d.uart # NoFrame /\ ~d.uart_done
    <2>1. SameButPackets(c, d)
      BY <1>1, CtrlViewSame
    <2> QED BY <2>1 DEF Pending, SameButPackets
  <1> HIDE DEF d, g
  <1>3. PairInv(d, hv, Append(v, d.uart), g)
    BY <1>1, <1>2, TransmitKeepsWindow
  <1> QED BY <1>1, <1>2, <1>3, PairSymmetric DEF Joint, d, g

\* Counting one packet more.
LEMMA CountedAppend ==
    ASSUME NEW l \in Seq(Nat), NEW x \in Nat, NEW b \in Nat, x - b \in Nat,
           Counted(l, b) \in Seq(Nat)
    PROVE  Counted(Append(l, x), b) = Append(Counted(l, b), x - b)
  <1> DEFINE m == Append(l, x)
             g == Counted(l, b)
             y == Counted(m, b)
             z == Append(g, x - b)
             n == Len(l)
  <1>1. /\ n \in Nat /\ Len(m) = n + 1 /\ m[n + 1] = x
        /\ \A i \in 1..n : m[i] = l[i]
    OBVIOUS
  <1> HIDE DEF m
  <1>2. /\ g \in Seq(Nat) /\ Len(g) = n
        /\ \A i \in 1..n : g[i] = l[i] - b
    BY <1>1 DEF Counted
  <1>3. /\ y = [i \in 1..n + 1 |-> m[i] - b]
        /\ \A i \in 1..n + 1 : y[i] = m[i] - b
    BY <1>1 DEF Counted
  <1> HIDE DEF g
  <1>4. /\ z \in Seq(Nat) /\ Len(z) = n + 1 /\ z[n + 1] = x - b
        /\ \A i \in 1..n : z[i] = g[i]
    BY <1>1, <1>2
  <1> HIDE DEF z, n
  <1>5. ASSUME NEW i \in 1..n + 1
        PROVE  m[i] - b = z[i]
    <2>1. i \in 1..n \/ i = n + 1
      BY <1>1
    <2> QED BY <1>1, <1>2, <1>4, <2>1
  <1>6. z = [i \in 1..n + 1 |-> z[i]]
    BY <1>4
  <1>7. [i \in 1..n + 1 |-> m[i] - b] = [i \in 1..n + 1 |-> z[i]]
    BY <1>5
  <1> QED BY <1>3, <1>6, <1>7 DEF z, g, m

\* What a frame of the session does to the controller, it does in the session.
LEMMA CtrlViewEffect ==
    ASSUME NEW c \in Endpoint, NEW q \in Endpoint, NEW f \in Frame, NEW b \in Nat,
           Shift(f, b) \in Frame, CtrlView(c, b) \in Endpoint, FrameEffect(c, f, q)
    PROVE  /\ CtrlView(q, b) \in Endpoint
           /\ FrameEffect(CtrlView(c, b), Shift(f, b), CtrlView(q, b))
  <1> DEFINE d == CtrlView(c, b)
             r == CtrlView(q, b)
             g == Shift(f, b)
  <1>1. /\ SameButPackets(c, d) /\ SameButPackets(q, r)
        /\ d.received = Counted(c.received, b)
        /\ r.received = Counted(q.received, b)
        /\ d.received \in Seq(Nat)
        /\ r \in Endpoint <=> r.received \in Seq(Nat)
    BY CtrlViewFields
  <1>2. /\ g \in Frame /\ g.type = f.type /\ g.seq = f.seq /\ g.ack = f.ack
        /\ f.type = "DATA" => g.n = f.n - b /\ g.n \in Nat
    BY ShiftFields DEF Frame
  <1> HIDE DEF d, r, g
  <1>3. /\ (TypeMatches(c) <=> TypeMatches(d)) /\ (TypeMatches(q) <=> TypeMatches(r))
        /\ InSequence(c, f) <=> InSequence(d, g)
        /\ AckedBy(c, f) <=> AckedBy(d, g)
    BY <1>1, <1>2 DEF TypeMatches, SameButPackets, InSequence, AckedBy,
       link_have_outgoing_packet
  <1>4. CASE q.received = c.received
    <2>1. r.received = d.received /\ r \in Endpoint
      BY <1>1, <1>4
    <2>2. q.received # Append(c.received, f.n)
      <3>1. c.received \in Seq(Nat) /\ f.n \in Nat
        BY DEF Endpoint, Frame
      <3>2. Len(Append(c.received, f.n)) = Len(c.received) + 1
        BY <3>1
      <3>3. Len(c.received) # Len(c.received) + 1
        BY <3>1
      <3> QED BY <1>4, <3>2, <3>3
    <2>3. FrameEffect(d, g, r)
      BY <1>1, <1>2, <1>3, <2>1, <2>2 DEF FrameEffect, SameButPackets
    <2> QED BY <2>1, <2>3 DEF d, g, r
  <1>5. CASE q.received # c.received
    <2>1. /\ c.link_state = "ACTIVE" /\ f.type = "DATA" /\ InSequence(c, f)
          /\ q.received = Append(c.received, f.n)
      BY <1>5 DEF FrameEffect
    <2>2. c.received \in Seq(Nat) /\ f.n \in Nat /\ f.n - b \in Nat
      BY <1>2, <2>1 DEF Endpoint, Frame
    <2>3. r.received = Append(d.received, g.n)
      BY <1>1, <1>2, <2>1, <2>2, CountedAppend
    <2>4. r \in Endpoint
      <3>1. \A l \in Seq(Nat), x \in Nat : Append(l, x) \in Seq(Nat)
        OBVIOUS
      <3>2. r.received \in Seq(Nat)
        BY <1>1, <1>2, <2>1, <2>3, <3>1
      <3> QED BY <1>1, <3>2
    <2>5. FrameEffect(d, g, r)
      BY <1>1, <1>2, <1>3, <2>1, <2>3 DEF FrameEffect, SameButPackets
    <2> QED BY <2>4, <2>5 DEF d, g, r
  <1> QED BY <1>4, <1>5

\* q has the counts of e, and writes what e writes or no packet and no
\* acknowledgement.
Agrees(e, q) ==
    /\ q.link_state = e.link_state /\ q.seq_nr = e.seq_nr
    /\ q.ack_nr = e.ack_nr /\ q.packet = e.packet
    /\ q.submitted = e.submitted
    /\ q.accepted = e.accepted /\ q.received = e.received
    /\ TypeMatches(q)
    /\ \/ q.uart = e.uart /\ q.uart_done = e.uart_done
       \/ q.uart = NoFrame \/ q.uart_done
       \/ q.uart.type \notin {"DATA", "ACK"}

\* The window invariant speaks of the counts and the packets only.
LEMMA AgreeKeepsWindow ==
    ASSUME NEW e \in Endpoint, NEW q \in Endpoint, NEW p \in Endpoint,
           NEW w \in Seq(Frame), NEW v \in Seq(Frame),
           PairInv(e, p, w, v), Agrees(e, q)
    PROVE  PairInv(q, p, w, v)
  <1>1. Confirmed(q) = Confirmed(e)
    BY DEF Confirmed, Agrees
  <1>2. LocalInv(q)
    BY <1>1 DEF LocalInv, Agrees, TypeMatches, PairInv
  <1>3. \A f : InFlight(e, p, f) <=> InFlight(q, p, f)
    BY DEF InFlight, Agrees
  <1>4. \A f : InFlight(p, e, f) <=> InFlight(p, q, f)
    BY <1>1 DEF InFlight, Agrees
  <1>5. DirectionInv(p, q, v)
    <2>1. DirectionInv(p, e, v) /\ q.accepted = e.accepted
      BY DEF PairInv, Agrees
    <2> QED BY <1>4, <2>1 DEF DirectionInv
  <1>6. DirectionInv(q, p, w)
    <2>1. DirectionInv(e, p, w) /\ q.submitted = e.submitted
      BY DEF PairInv, Agrees
    <2>2. /\ q.uart # NoFrame /\ ~q.uart_done =>
             \/ q.uart = e.uart /\ q.uart_done = e.uart_done
             \/ q.uart.type \notin {"DATA", "ACK"}
      BY DEF Agrees
    <2>3. q.uart.type \notin {"DATA", "ACK"} =>
             InFlight(q, p, q.uart) /\ \A i \in 1..Len(w) : Before(w[i], q.uart)
      BY DEF InFlight, Before
    <2>4. q.uart # NoFrame /\ ~q.uart_done =>
             InFlight(q, p, q.uart) /\ \A i \in 1..Len(w) : Before(w[i], q.uart)
      BY <1>3, <2>1, <2>2, <2>3 DEF DirectionInv
    <2> QED BY <1>1, <1>3, <2>1, <2>4 DEF DirectionInv
  <1> QED BY <1>2, <1>5, <1>6 DEF PairInv

\* The controller c has taken the first frame of w and become q.
Taken(hv, c, q, w, v, b, k) ==
    /\ k > 0 => /\ Joint(hv, q, Tail(w), v, b, k - 1)
                /\ q.accepted = c.accepted
                /\ q.link_state = "UNINITIALIZED"
    /\ k = 0 => /\ Joint(hv, q, Tail(w), v, b, 0)
                /\ q.accepted = c.accepted \/ Head(w).type = "DATA"

\* A frame taken by the controller keeps the session's window: an old one leaves
\* it waiting for SYNC_RESPONSE, one of the session is taken as in H5Link.
LEMMA JointCtrlReceive ==
    ASSUME NEW hv, NEW c \in Endpoint, NEW q \in Endpoint, NEW w \in Seq(Frame),
           NEW v \in Seq(Frame), NEW b \in Nat, NEW k, w # << >>,
           Joint(hv, c, w, v, b, k), FrameEffect(c, Head(w), q)
    PROVE  Taken(hv, c, q, w, v, b, k)
  <1> DEFINE g == Fresh(w, k, b)
             d == CtrlView(c, b)
             r == CtrlView(q, b)
             f == Head(w)
             t == Tail(w)
  <1>1. /\ hv \in Endpoint /\ d \in Endpoint /\ g \in Seq(Frame)
        /\ PairInv(d, hv, v, g) /\ LocalInv(d) /\ k \in 0..Len(w)
    BY PairSymmetric DEF Joint, PairInv
  <1>2. /\ f \in Frame /\ f = w[1] /\ Len(w) >= 1
        /\ t \in Seq(Frame) /\ Len(t) = Len(w) - 1
        /\ \A i \in 1..Len(w) - 1 : t[i] = w[i + 1]
    OBVIOUS
  <1>3. SameButPackets(c, d) /\ SameButPackets(q, r)
    BY CtrlViewFields
  <1>4. ASSUME k > 0
        PROVE  /\ Joint(hv, q, t, v, b, k - 1)
               /\ q.accepted = c.accepted
               /\ q.link_state = "UNINITIALIZED"
    <2>1. c.link_state = "UNINITIALIZED" /\ f.type # "SYNC_RESPONSE"
      BY <1>1, <1>2, <1>4 DEF Joint, IsAnswer
    <2>2. /\ d.packet = "none" /\ d.submitted = 0 /\ d.accepted = 0
          /\ d.seq_nr = 0 /\ d.ack_nr = 0
      <3>1. d.packet = "none" /\ d.submitted = 0 /\ d.accepted = 0
        BY <1>1, <1>3, <2>1 DEF LocalInv, SameButPackets
      <3>2. Confirmed(d) = 0
        BY <3>1 DEF Confirmed
      <3>3. 0 % SeqModulus = 0
        BY SeqModulusAssumption
      <3> QED BY <1>1, <3>1, <3>2, <3>3 DEF LocalInv
    <2>3. /\ q.link_state = "UNINITIALIZED" /\ q.packet = c.packet
          /\ q.accepted = c.accepted /\ q.received = c.received
          /\ q.seq_nr \in {c.seq_nr, 0} /\ q.ack_nr \in {c.ack_nr, 0}
          /\ q.submitted = c.submitted /\ q.uart = c.uart
          /\ q.uart_done = c.uart_done
      BY <2>1 DEF FrameEffect
    <2>4. r \in Endpoint /\ r.received = d.received
      BY <1>1, <2>3, CtrlViewSame
    <2> HIDE DEF d, r, f, t, g
    <2>5. Agrees(d, r)
      BY <1>3, <2>1, <2>2, <2>3, <2>4 DEF Agrees, SameButPackets, TypeMatches
    <2>6. PairInv(r, hv, v, g)
      BY <1>1, <2>4, <2>5, AgreeKeepsWindow
    <2>7. Fresh(t, k - 1, b) = g
      BY <1>1, <1>4, FreshTailOld DEF g, t
    <2>8. k - 1 \in 0..Len(t) /\ \A i \in 1..k - 1 : ~IsAnswer(t[i])
      <3>1. k - 1 \in 0..Len(t)
        BY <1>1, <1>2, <1>4
      <3>2. ASSUME NEW i \in 1..k - 1
            PROVE  ~IsAnswer(t[i])
        <4>1. i \in 1..Len(w) - 1 /\ i + 1 \in 1..k
          BY <1>1
        <4>2. ~IsAnswer(w[i + 1])
          BY <4>1 DEF Joint
        <4> QED BY <1>2, <4>1, <4>2
      <3> QED BY <3>1, <3>2
    <2>9. Joint(hv, q, t, v, b, k - 1)
      BY <1>1, <2>3, <2>4, <2>6, <2>7, <2>8, PairSymmetric DEF Joint, r
    <2> QED BY <2>3, <2>9
  <1>5. ASSUME k = 0
        PROVE  /\ Joint(hv, q, t, v, b, 0)
               /\ q.accepted = c.accepted \/ f.type = "DATA"
    <2>1. /\ g # << >> /\ Head(g) = Shift(f, b)
          /\ Tail(g) = Fresh(t, 0, b) /\ Fresh(t, 0, b) \in Seq(Frame)
      BY <1>1, <1>5, FreshTailNew
    <2>2. Shift(f, b) \in Frame
      <3>1. ASSUME NEW x \in Seq(Frame), x # << >> PROVE Head(x) \in Frame
        BY <3>1
      <3> HIDE DEF g
      <3> QED BY <1>1, <2>1, <3>1
    <2>3. r \in Endpoint /\ FrameEffect(d, Shift(f, b), r)
      <3> HIDE DEF f
      <3> QED BY <1>1, <1>2, <2>2, CtrlViewEffect DEF f
    <2> HIDE DEF d, r, g, f, t
    <2>4. PairInv(r, hv, v, Tail(g))
      BY <1>1, <2>1, <2>3, FrameKeepsWindow
    <2>5. Joint(hv, q, t, v, b, 0)
      <3>1. PairInv(hv, r, Fresh(t, 0, b), v)
        BY <2>1, <2>4, PairSymmetric
      <3>2. 0 \in 0..Len(t) /\ ~(0 > 0) /\ 1..0 = {}
        BY <1>2
      <3> QED BY <1>1, <2>1, <2>3, <3>1, <3>2 DEF Joint, r
    <2>6. q.accepted = c.accepted \/ f.type = "DATA"
      BY DEF FrameEffect, f
    <2> QED BY <2>5, <2>6
  <1> QED BY <1>4, <1>5 DEF Taken

-----------------------------------------------------------------------------
(* The host, seen from its session.                                        *)

\* x is h in the session that starts at b, but for the write.
InSession(h, b, x) ==
    /\ x.link_state = h.link_state
    /\ x.packet = h.packet /\ x.packet_type = h.packet_type
    /\ x.accepted = h.accepted /\ x.received = h.received
    /\ x.submitted = h.submitted - b
    /\ x.seq_nr = ActiveNr(h, h.seq_nr) /\ x.ack_nr = ActiveNr(h, h.ack_nr)
    /\ x.uart_done = FALSE

\* The fields of the host's view, and when it is an endpoint.
LEMMA HostViewFields ==
    ASSUME NEW h \in Endpoint, NEW b \in Nat, b <= h.submitted, NEW old
    PROVE  /\ InSession(h, b, HostView(h, b, old))
           /\ HostView(h, b, old).uart = FreshWrite(h, b, old)
           /\ HostView(h, b, old) \in Endpoint
              <=> FreshWrite(h, b, old) \in Frame \cup {NoFrame}
  <1> DEFINE n == h.submitted - b
             s == ActiveNr(h, h.seq_nr)
             a == ActiveNr(h, h.ack_nr)
             u == FreshWrite(h, b, old)
             x == [h EXCEPT !.submitted = n, !.seq_nr = s, !.ack_nr = a,
                            !.uart = u, !.uart_done = FALSE]
  <1>1. HostView(h, b, old) = x
    BY DEF HostView
  <1>2. n \in Nat
    BY DEF Endpoint
  <1>3. s \in 0..SeqModulus - 1 /\ a \in 0..SeqModulus - 1
    BY SeqModulusAssumption DEF Endpoint, ActiveNr
  <1> HIDE DEF n, s, a, u
  <1>4. /\ x.link_state = h.link_state
        /\ x.packet = h.packet /\ x.packet_type = h.packet_type
        /\ x.accepted = h.accepted /\ x.received = h.received
        /\ x.submitted = n /\ x.seq_nr = s /\ x.ack_nr = a
        /\ x.uart_done = FALSE /\ x.uart = u
    BY DEF Endpoint
  <1>5. x \in Endpoint <=> u \in Frame \cup {NoFrame}
    <2>1. ASSUME u \in Frame \cup {NoFrame} PROVE x \in Endpoint
      BY <1>2, <1>3, <2>1 DEF Endpoint
    <2>2. ASSUME x \in Endpoint PROVE u \in Frame \cup {NoFrame}
      BY <1>4, <2>2 DEF Endpoint
    <2> QED BY <2>1, <2>2
  <1> HIDE DEF x
  <1> QED BY <1>1, <1>4, <1>5 DEF InSession, n, s, a, u

\* A frame r starts to write is a packet or an acknowledgement only on an active
\* link.
WritesActive(e, r) ==
    \/ r.uart = e.uart /\ r.uart_done = e.uart_done
    \/ r.uart.type \in {"DATA", "ACK"} => r.link_state = "ACTIVE"

\* A Step of the host is one in the session.
LEMMA HostViewStep ==
    ASSUME NEW h \in Endpoint, NEW r \in Endpoint, NEW b \in Nat,
           b <= h.submitted, NEW old \in BOOLEAN, old => Pending(h),
           HostView(h, b, old) \in Endpoint, Step(h, r), WritesActive(h, r)
    PROVE  /\ b <= r.submitted
           /\ HostView(r, b, old) \in Endpoint
           /\ Step(HostView(h, b, old), HostView(r, b, old))
  <1> DEFINE x == HostView(h, b, old)
             y == HostView(r, b, old)
  <1>1. /\ h.submitted \in Nat /\ r.submitted \in Nat
        /\ r.submitted \in {h.submitted, h.submitted + 1}
    BY DEF Step, Endpoint
  <1>2. b <= r.submitted
    BY <1>1
  <1>3. /\ InSession(h, b, x) /\ InSession(r, b, y)
        /\ x.uart = FreshWrite(h, b, old) /\ y.uart = FreshWrite(r, b, old)
        /\ y \in Endpoint <=> FreshWrite(r, b, old) \in Frame \cup {NoFrame}
        /\ FreshWrite(h, b, old) \in Frame \cup {NoFrame}
    BY <1>2, HostViewFields
  <1> HIDE DEF x, y
  <1>4. /\ y.link_state = x.link_state /\ y.seq_nr = x.seq_nr
        /\ y.ack_nr = x.ack_nr /\ y.accepted = x.accepted
        /\ y.received = x.received
        /\ x.packet = h.packet /\ y.packet = r.packet
        /\ x.link_state = h.link_state
        /\ TypeMatches(x) => TypeMatches(y)
    BY <1>3 DEF InSession, Step, ActiveNr, TypeMatches
  <1>5. \/ y.submitted = x.submitted /\ (y.packet = "DATA" <=> x.packet = "DATA")
        \/ /\ x.packet # "DATA" /\ y.packet = "DATA"
           /\ y.submitted = x.submitted + 1 /\ x.submitted < MaxSend
           /\ x.link_state = "ACTIVE"
    <2>1. x.submitted = h.submitted - b /\ y.submitted = r.submitted - b
      BY <1>3 DEF InSession
    <2>2. CASE /\ r.submitted = h.submitted
               /\ (r.packet = "DATA" <=> h.packet = "DATA")
      BY <1>4, <2>1, <2>2
    <2>3. CASE /\ h.packet # "DATA" /\ r.packet = "DATA"
               /\ r.submitted = h.submitted + 1 /\ h.submitted < MaxSend
               /\ h.link_state = "ACTIVE"
      <3>1. r.submitted - b = h.submitted - b + 1 /\ h.submitted - b < MaxSend
        BY <1>1, <2>3, MaxSendAssumption
      <3> QED BY <1>4, <2>1, <2>3, <3>1
    <2> QED BY <2>2, <2>3 DEF Step
  <1>6. x.link_state # "ACTIVE" /\ x.packet = "none" => y.packet = "none"
    BY <1>4 DEF Step
  <1>7. /\ y \in Endpoint
        /\ \/ y.uart = x.uart /\ y.uart_done = x.uart_done
           \/ x.uart = NoFrame /\ y.uart_done = FALSE /\ FrameFrom(y, y.uart)
    <2>1. CASE r.uart = h.uart /\ r.uart_done = h.uart_done
      BY <1>3, <2>1 DEF FreshWrite, Pending, InSession
    <2>2. CASE ~(r.uart = h.uart /\ r.uart_done = h.uart_done)
      <3>1. /\ h.uart = NoFrame /\ r.uart_done = FALSE /\ FrameFrom(r, r.uart)
            /\ r.uart.type \in {"DATA", "ACK"} => r.link_state = "ACTIVE"
            /\ ~old
        BY <2>2 DEF Step, WritesActive, Pending
      <3>2. x.uart = NoFrame
        BY <1>3, <3>1 DEF FreshWrite, Pending
      <3> DEFINE f == r.uart
                 g == Shift(f, b)
      <3>3. f \in Frame /\ f # NoFrame
        <4>1. NoFrame \notin Frame
          BY DEF NoFrame, Frame, FrameTypes, ControlTypes
        <4> QED BY <3>1, <4>1 DEF FrameFrom
      <3>4. y.uart = g
        BY <1>3, <3>1, <3>3 DEF FreshWrite, Pending
      <3>5. f.type = "DATA" => f.n = r.submitted /\ r.submitted - b \in Nat
        BY <1>1, <1>2, <3>1 DEF FrameFrom
      <3>6. g \in Frame
        BY <3>3, <3>5, ShiftFields
      <3>7. FrameFrom(y, g)
        <4>1. /\ g.type = f.type /\ g.seq = f.seq /\ g.ack = f.ack
              /\ g.upto = f.upto /\ (f.type = "DATA" => g.n = f.n - b)
          BY <3>3, ShiftFields
        <4>2. f.type \in {"DATA", "ACK"} =>
                  y.seq_nr = r.seq_nr /\ y.ack_nr = r.ack_nr
          BY <1>3, <3>1 DEF InSession, ActiveNr
        <4>3. y.accepted = r.accepted /\ y.packet = r.packet
              /\ y.submitted = r.submitted - b
          BY <1>3 DEF InSession
        <4> HIDE DEF f, g
        <4>4. FrameFrom(r, f)
          BY <3>1 DEF f
        <4> QED BY <3>5, <3>6, <4>1, <4>2, <4>3, <4>4 DEF FrameFrom
      <3> QED BY <1>3, <3>2, <3>4, <3>6, <3>7 DEF InSession
    <2> QED BY <2>1, <2>2
  <1>8. Step(x, y)
    BY <1>4, <1>5, <1>6, <1>7 DEF Step
  <1> QED BY <1>2, <1>7, <1>8 DEF x, y

\* What a frame does to the host, it does in the session.
LEMMA HostViewEffect ==
    ASSUME NEW h \in Endpoint, NEW q \in Endpoint, NEW f \in Frame, NEW b \in Nat,
           b <= h.submitted, NEW old \in BOOLEAN,
           HostView(h, b, old) \in Endpoint, FrameEffect(h, f, q)
    PROVE  /\ b <= q.submitted
           /\ HostView(q, b, old) \in Endpoint
           /\ FrameEffect(HostView(h, b, old), f, HostView(q, b, old))
  <1> DEFINE x == HostView(h, b, old)
             y == HostView(q, b, old)
  <1>1. q.submitted = h.submitted /\ q.uart = h.uart /\ q.uart_done = h.uart_done
    BY DEF FrameEffect
  <1>2. FreshWrite(q, b, old) = FreshWrite(h, b, old)
    BY <1>1 DEF FreshWrite, Pending
  <1>3. /\ InSession(h, b, x) /\ InSession(q, b, y) /\ y \in Endpoint
        /\ y.uart = x.uart
    BY <1>1, <1>2, HostViewFields
  <1> HIDE DEF x, y
  <1>4. /\ y.submitted = x.submitted /\ y.uart_done = x.uart_done
        /\ x.link_state = h.link_state /\ y.link_state = q.link_state
        /\ x.packet = h.packet /\ y.packet = q.packet
        /\ x.accepted = h.accepted /\ y.accepted = q.accepted
        /\ x.received = h.received /\ y.received = q.received
        /\ TypeMatches(h) <=> TypeMatches(x)
        /\ TypeMatches(q) <=> TypeMatches(y)
    BY <1>1, <1>3 DEF InSession, TypeMatches
  <1>5. CASE h.link_state # "ACTIVE"
    <2>1. x.seq_nr = 0 /\ x.ack_nr = 0 /\ y.seq_nr = 0 /\ y.ack_nr = 0
      BY <1>3, <1>5 DEF InSession, ActiveNr, FrameEffect
    <2>2. FrameEffect(x, f, y)
      BY <1>3, <1>4, <1>5, <2>1 DEF FrameEffect
    <2> QED BY <1>1, <1>3, <2>2 DEF x, y
  <1>6. CASE h.link_state = "ACTIVE"
    <2>1. q.link_state = "ACTIVE"
      BY <1>6 DEF FrameEffect
    <2>2. /\ x.seq_nr = h.seq_nr /\ x.ack_nr = h.ack_nr
          /\ y.seq_nr = q.seq_nr /\ y.ack_nr = q.ack_nr
      BY <1>3, <1>6, <2>1 DEF InSession, ActiveNr
    <2>3. /\ InSequence(h, f) <=> InSequence(x, f)
          /\ AckedBy(h, f) <=> AckedBy(x, f)
      BY <1>4, <2>2 DEF InSequence, AckedBy, link_have_outgoing_packet
    <2>4. FrameEffect(x, f, y)
      BY <1>3, <1>4, <1>6, <2>1, <2>2, <2>3 DEF FrameEffect
    <2> QED BY <1>1, <1>3, <2>4 DEF x, y
  <1> QED BY <1>5, <1>6

-----------------------------------------------------------------------------
(* Steps of the host in a session.                                         *)

\* What the host does in a tidy way does not bring a SYNC_RESPONSE behind its
\* first packet.
LEMMA TidyAnswersFirst ==
    ASSUME NEW h, NEW r, NEW c, NEW w, NEW k, NEW old \in BOOLEAN,
           AnswersFirst(h, c, w, k, old), Tidy(h, r), old => Pending(h)
    PROVE  /\ AnswersFirst(r, c, w, k, old)
           /\ old => r.uart = h.uart /\ r.uart_done = h.uart_done
  <1>1. old => r.uart = h.uart /\ r.uart_done = h.uart_done
    BY DEF Tidy, Pending
  <1>2. Pending(r) /\ IsAnswer(r.uart) => NoPacketYet(c, w, k, Len(w))
    BY DEF Tidy, Pending, IsAnswer, AnswersFirst
  <1>3. MayAnswerSync(r) => /\ NoPacketYet(c, w, k, Len(w))
                            /\ Pending(r) /\ ~old => r.uart.type # "DATA"
    BY DEF Tidy, Pending, AnswersFirst
  <1> QED BY <1>1, <1>2, <1>3 DEF AnswersFirst

\* A tidy step writes packets and acknowledgements on an active link only.
LEMMA TidyWritesActive ==
    ASSUME NEW h, NEW q, NEW r, Tidy(h, r),
           q.uart = h.uart, q.uart_done = h.uart_done
    PROVE  WritesActive(q, r)
  BY DEF Tidy, WritesActive, MayAnswerSync

\* send_packet, set_baudrate, the link timer and link_run on the host.
LEMMA LinkedHostStep ==
    ASSUME NEW h \in Endpoint, NEW r \in Endpoint, NEW c \in Endpoint,
           NEW w \in Seq(Frame), NEW v \in Seq(Frame), NEW b \in Nat,
           NEW k, NEW old \in BOOLEAN,
           Linked(h, c, w, v, b, k, old), Step(h, r), Tidy(h, r)
    PROVE  Linked(r, c, w, v, b, k, old)
  <1> DEFINE x == HostView(h, b, old)
             y == HostView(r, b, old)
             g == Fresh(w, k, b)
             d == CtrlView(c, b)
  <1>1. /\ x \in Endpoint /\ d \in Endpoint /\ g \in Seq(Frame)
        /\ PairInv(x, d, g, v) /\ b <= h.submitted /\ (old => Pending(h))
    BY DEF Linked, Joint
  <1>2. b <= r.submitted /\ y \in Endpoint /\ Step(x, y)
    BY <1>1, HostViewStep, TidyWritesActive
  <1>3. PairInv(y, d, g, v)
    <2> HIDE DEF x, y, g, d
    <2> QED BY <1>1, <1>2, StepKeepsWindow
  <1>4. Joint(y, c, w, v, b, k)
    <2> HIDE DEF y
    <2> QED BY <1>2, <1>3 DEF Linked, Joint
  <1>5. /\ AnswersFirst(r, c, w, k, old)
        /\ old => r.uart = h.uart /\ r.uart_done = h.uart_done
    BY <1>1, TidyAnswersFirst DEF Linked
  <1> QED BY <1>2, <1>4, <1>5 DEF Linked, Pending

\* process_frame on the host.
LEMMA LinkedHostReceive ==
    ASSUME NEW h \in Endpoint, NEW q \in Endpoint, NEW r \in Endpoint,
           NEW c \in Endpoint, NEW w \in Seq(Frame), NEW v \in Seq(Frame),
           NEW b \in Nat, NEW k, NEW old \in BOOLEAN, v # << >>,
           Linked(h, c, w, v, b, k, old),
           FrameEffect(h, Head(v), q), Step(q, r), Tidy(h, r)
    PROVE  Linked(r, c, w, Tail(v), b, k, old)
  <1> DEFINE x == HostView(h, b, old)
             y == HostView(q, b, old)
             z == HostView(r, b, old)
             g == Fresh(w, k, b)
             d == CtrlView(c, b)
             f == Head(v)
             t == Tail(v)
  <1>1. /\ x \in Endpoint /\ d \in Endpoint /\ g \in Seq(Frame)
        /\ PairInv(x, d, g, v) /\ b <= h.submitted /\ (old => Pending(h))
    BY DEF Linked, Joint
  <1>2. f \in Frame /\ t \in Seq(Frame)
    OBVIOUS
  <1>3. q.uart = h.uart /\ q.uart_done = h.uart_done
    BY DEF FrameEffect
  <1>4. b <= q.submitted /\ y \in Endpoint /\ FrameEffect(x, f, y)
    <2> HIDE DEF f
    <2> QED BY <1>1, <1>2, HostViewEffect DEF f
  <1>5. b <= r.submitted /\ z \in Endpoint /\ Step(y, z)
    BY <1>1, <1>3, <1>4, HostViewStep, TidyWritesActive DEF Pending
  <1>6. PairInv(z, d, g, t)
    <2> HIDE DEF x, y, z, g, d
    <2>1. PairInv(y, d, g, t)
      BY <1>1, <1>4, FrameKeepsWindow
    <2> HIDE DEF f, t
    <2> QED BY <1>1, <1>2, <1>4, <1>5, <2>1, StepKeepsWindow
  <1>7. Joint(z, c, w, t, b, k)
    <2> HIDE DEF z, t
    <2> QED BY <1>5, <1>6 DEF Linked, Joint
  <1>8. /\ AnswersFirst(r, c, w, k, old)
        /\ old => r.uart = h.uart /\ r.uart_done = h.uart_done
    BY <1>1, TidyAnswersFirst DEF Linked
  <1> QED BY <1>5, <1>7, <1>8 DEF Linked, Pending

\* A frame of the host is out, or lost, or frame_sent has freed the UART.
LEMMA LinkedHostDone ==
    ASSUME NEW h \in Endpoint, NEW r \in Endpoint, NEW c \in Endpoint,
           NEW w \in Seq(Frame), NEW v \in Seq(Frame), NEW b \in Nat,
           NEW k, NEW old \in BOOLEAN,
           Linked(h, c, w, v, b, k, old),
           SameButWrite(h, r), r.actions = h.actions,
           r.uart = NoFrame \/ r.uart_done
    PROVE  Linked(r, c, w, v, b, k, FALSE)
  <1> DEFINE x == HostView(h, b, old)
             y == HostView(r, b, FALSE)
             g == Fresh(w, k, b)
             d == CtrlView(c, b)
  <1>1. /\ x \in Endpoint /\ d \in Endpoint /\ g \in Seq(Frame)
        /\ PairInv(x, d, g, v) /\ b <= h.submitted /\ (old => Pending(h))
    BY DEF Linked, Joint
  <1>2. b <= r.submitted /\ ~Pending(r)
    BY <1>1 DEF SameButWrite, Pending
  <1>3. FreshWrite(r, b, FALSE) = NoFrame
    BY <1>2 DEF FreshWrite
  <1>4. /\ InSession(h, b, x) /\ InSession(r, b, y)
        /\ y \in Endpoint /\ y.uart = NoFrame
    BY <1>1, <1>2, <1>3, HostViewFields
  <1>5. PairInv(y, d, g, v)
    <2> HIDE DEF x, y, d, g
    <2>1. SameButWrite(x, y)
      BY <1>4 DEF SameButWrite, InSession, ActiveNr
    <2> QED BY <1>1, <1>4, <2>1, WriteEndsKeepsWindow DEF SameButWrite
  <1>6. Joint(y, c, w, v, b, k)
    <2> HIDE DEF y
    <2> QED BY <1>4, <1>5 DEF Linked, Joint
  <1>7. AnswersFirst(r, c, w, k, FALSE)
    <2>1. MayAnswerSync(r) <=> MayAnswerSync(h)
      BY DEF MayAnswerSync, SameButWrite
    <2> QED BY <1>2, <2>1 DEF Linked, AnswersFirst
  <1> QED BY <1>2, <1>6, <1>7 DEF Linked

\* A frame of the old session joins the old frames on the wire.
LEMMA TransmitOld ==
    ASSUME NEW h \in Endpoint, NEW c \in Endpoint,
           NEW w \in Seq(Frame), NEW v \in Seq(Frame), NEW b \in Nat, NEW k,
           Linked(h, c, w, v, b, k, TRUE)
    PROVE  Linked([h EXCEPT !.uart_done = TRUE], c, Append(w, h.uart), v, b,
                  Len(w) + 1, FALSE)
  <1> DEFINE r == [h EXCEPT !.uart_done = TRUE]
             f == h.uart
             x == Append(w, f)
             hv == HostView(r, b, FALSE)
  <1>1. r \in Endpoint /\ SameButWrite(h, r) /\ r.uart_done /\ r.actions = h.actions
    BY WriteOver DEF Endpoint
  <1> HIDE DEF r
  <1>2. /\ Linked(r, c, w, v, b, k, FALSE) /\ k = Len(w)
        /\ c.link_state = "UNINITIALIZED" /\ ~IsAnswer(f) /\ f \in Frame
    <2>1. Linked(r, c, w, v, b, k, FALSE)
      BY <1>1, LinkedHostDone
    <2>2. /\ k = Len(w) /\ c.link_state = "UNINITIALIZED"
          /\ ~IsAnswer(f) /\ f # NoFrame
      BY DEF Linked, Pending
    <2>3. f \in Frame \cup {NoFrame}
      BY DEF Endpoint
    <2> QED BY <2>1, <2>2, <2>3
  <1> HIDE DEF f
  <1>3. /\ x \in Seq(Frame) /\ Len(x) = Len(w) + 1 /\ x[Len(w) + 1] = f
        /\ \A i \in 1..Len(w) : x[i] = w[i]
        /\ Len(w) \in Nat
    BY <1>2
  <1> HIDE DEF x
  <1>4. Fresh(x, Len(w) + 1, b) = Fresh(w, k, b)
    BY <1>2, <1>3, FreshNone
  <1>5. \A i \in 1..Len(w) + 1 : ~IsAnswer(x[i])
    <2>1. \A i \in 1..Len(w) : ~IsAnswer(w[i])
      BY <1>2 DEF Linked, Joint
    <2>2. \A i \in 1..Len(w) + 1 : i \in 1..Len(w) \/ i = Len(w) + 1
      BY <1>3
    <2> QED BY <1>2, <1>3, <2>1, <2>2
  <1>6. Joint(hv, c, x, v, b, Len(w) + 1)
    <2> HIDE DEF hv
    <2>1. Joint(hv, c, w, v, b, k)
      BY <1>2 DEF Linked, hv
    <2>2. Len(w) + 1 \in 0..Len(x)
      BY <1>3
    <2> QED BY <1>2, <1>4, <1>5, <2>1, <2>2 DEF Joint
  <1>7. AnswersFirst(r, c, x, Len(w) + 1, FALSE)
    <2>1. ~Pending(r)
      BY <1>1 DEF Pending
    <2>2. MayAnswerSync(r) => NoPacketYet(c, x, Len(w) + 1, Len(x))
      <3>1. MayAnswerSync(r) => c.accepted = 0
        BY <1>2 DEF Linked, AnswersFirst, NoPacketYet
      <3>2. Len(w) + 1 + 1..Len(x) = {}
        BY <1>3
      <3> QED BY <3>1, <3>2 DEF NoPacketYet
    <2> QED BY <1>3, <1>5, <2>1, <2>2 DEF AnswersFirst
  <1> QED BY <1>2, <1>6, <1>7 DEF Linked, r, f, x, hv

\* A frame of the session joins the frames on the wire.
LEMMA TransmitFresh ==
    ASSUME NEW h \in Endpoint, NEW c \in Endpoint,
           NEW w \in Seq(Frame), NEW v \in Seq(Frame), NEW b \in Nat, NEW k,
           Linked(h, c, w, v, b, k, FALSE), Pending(h)
    PROVE  Linked([h EXCEPT !.uart_done = TRUE], c, Append(w, h.uart), v, b,
                  k, FALSE)
  <1> DEFINE r == [h EXCEPT !.uart_done = TRUE]
             f == h.uart
             x == Append(w, f)
             g == Fresh(w, k, b)
             hv == HostView(h, b, FALSE)
             rv == HostView(r, b, FALSE)
             d == CtrlView(c, b)
  <1>1. /\ r \in Endpoint /\ SameButWrite(h, r) /\ r.uart_done
        /\ r.actions = h.actions
    BY WriteOver DEF Endpoint
  <1> HIDE DEF r
  <1>2. /\ Linked(r, c, w, v, b, k, FALSE) /\ f \in Frame
        /\ hv \in Endpoint /\ d \in Endpoint /\ g \in Seq(Frame)
        /\ PairInv(hv, d, g, v) /\ b <= h.submitted /\ b <= r.submitted
        /\ k \in 0..Len(w)
    <2>1. Linked(r, c, w, v, b, k, FALSE)
      BY <1>1, LinkedHostDone
    <2>2. f # NoFrame /\ f \in Frame \cup {NoFrame}
      BY DEF Endpoint, Pending
    <2>3. /\ hv \in Endpoint /\ d \in Endpoint /\ g \in Seq(Frame)
          /\ PairInv(hv, d, g, v) /\ b <= h.submitted /\ k \in 0..Len(w)
      BY DEF Linked, Joint
    <2>4. b <= r.submitted
      BY <2>1 DEF Linked
    <2> QED BY <2>1, <2>2, <2>3, <2>4
  <1>3. hv.uart = Shift(f, b) /\ ~hv.uart_done
    BY <1>2, HostViewFields DEF InSession, FreshWrite
  <1>4. Shift(f, b) \in Frame
    <2>1. Shift(f, b) # NoFrame
      <3>1. Shift(f, b).type = f.type
        BY <1>2, ShiftFields
      <3>2. f.type # "none"
        BY <1>2 DEF Frame, FrameTypes, ControlTypes
      <3> QED BY <3>1, <3>2 DEF NoFrame
    <2> QED BY <1>2, <1>3, <2>1 DEF Endpoint
  <1> HIDE DEF f
  <1>5. /\ Fresh(x, k, b) = Append(g, Shift(f, b)) /\ Fresh(x, k, b) \in Seq(Frame)
    BY <1>2, <1>4, FreshAppend
  <1>6. /\ x \in Seq(Frame) /\ Len(x) = Len(w) + 1 /\ x[Len(w) + 1] = f
        /\ \A i \in 1..Len(w) : x[i] = w[i]
        /\ Len(w) \in Nat
    BY <1>2
  <1> HIDE DEF x
  <1>7. rv \in Endpoint /\ SameButWrite(hv, rv) /\ rv.uart = NoFrame
    <2>1. FreshWrite(r, b, FALSE) = NoFrame
      BY <1>1 DEF FreshWrite, Pending
    <2>2. /\ InSession(h, b, hv) /\ InSession(r, b, rv)
          /\ rv \in Endpoint /\ rv.uart = NoFrame
      BY <1>1, <1>2, <2>1, HostViewFields
    <2> HIDE DEF hv, rv
    <2> QED BY <1>1, <2>2 DEF SameButWrite, InSession, ActiveNr
  <1>8. PairInv(rv, d, Fresh(x, k, b), v)
    <2> HIDE DEF hv, rv, d, g
    <2>1. hv.uart # NoFrame
      <3>1. NoFrame \notin Frame
        BY DEF NoFrame, Frame, FrameTypes, ControlTypes
      <3> QED BY <1>3, <1>4, <3>1
    <2>2. PairInv(hv, d, Fresh(x, k, b), v)
      BY <1>2, <1>3, <1>5, <2>1, TransmitKeepsWindow
    <2> QED BY <1>2, <1>5, <1>7, <2>2, WriteEndsKeepsWindow DEF SameButWrite
  <1>9. Joint(rv, c, x, v, b, k)
    <2> HIDE DEF rv
    <2>1. k \in 0..Len(x) /\ \A i \in 1..k : x[i] = w[i]
      BY <1>2, <1>6
    <2> QED BY <1>2, <1>5, <1>7, <1>8, <2>1 DEF Linked, Joint
  <1>10. AnswersFirst(r, c, x, k, FALSE)
    <2>1. ~Pending(r)
      BY <1>1 DEF Pending
    <2>2. ASSUME NEW j \in 1..Len(w), NoPacketYet(c, w, k, j)
          PROVE  NoPacketYet(c, x, k, j)
      <3>1. \A i \in k + 1..j : i \in 1..Len(w)
        BY <1>2
      <3> QED BY <1>6, <2>2, <3>1 DEF NoPacketYet
    <2>3. ASSUME NoPacketYet(c, w, k, Len(w)), f.type # "DATA"
          PROVE  NoPacketYet(c, x, k, Len(w) + 1)
      <3>1. \A i \in k + 1..Len(w) + 1 : i \in k + 1..Len(w) \/ i = Len(w) + 1
        BY <1>2
      <3>2. \A i \in k + 1..Len(w) : i \in 1..Len(w)
        BY <1>2
      <3> QED BY <1>6, <2>3, <3>1, <3>2 DEF NoPacketYet
    <2>4. ASSUME NEW j \in 1..Len(x), IsAnswer(x[j])
          PROVE  NoPacketYet(c, x, k, j)
      <3>1. j \in 1..Len(w) \/ j = Len(w) + 1
        BY <1>6
      <3>2. CASE j \in 1..Len(w)
        BY <1>6, <2>2, <2>4, <3>2 DEF Linked, AnswersFirst
      <3>3. CASE j = Len(w) + 1
        BY <1>6, <2>3, <2>4, <3>3 DEF Linked, AnswersFirst, IsAnswer, f
      <3> QED BY <3>1, <3>2, <3>3
    <2>5. MayAnswerSync(r) => NoPacketYet(c, x, k, Len(x))
      <3>1. MayAnswerSync(r) <=> MayAnswerSync(h)
        BY <1>1 DEF MayAnswerSync, SameButWrite
      <3> QED BY <1>6, <2>3, <3>1 DEF Linked, AnswersFirst, f
    <2> QED BY <2>1, <2>4, <2>5 DEF AnswersFirst
  <1> QED BY <1>2, <1>9, <1>10 DEF Linked, r, f, x, rv

-----------------------------------------------------------------------------
(* Steps of the controller in a session.                                   *)

\* A controller that has taken no packet and kept its link state stays linked
\* when its counts and frames still fit.
LEMMA LinkedCtrl ==
    ASSUME NEW h, NEW c, NEW r, NEW w, NEW v, NEW u, NEW b, NEW k, NEW old,
           Linked(h, c, w, v, b, k, old),
           r.accepted = c.accepted, r.link_state = c.link_state,
           Joint(HostView(h, b, old), r, w, u, b, k)
    PROVE  Linked(h, r, w, u, b, k, old)
  <1>1. \A j : NoPacketYet(c, w, k, j) => NoPacketYet(r, w, k, j)
    BY DEF NoPacketYet
  <1>2. AnswersFirst(h, r, w, k, old)
    BY <1>1 DEF Linked, AnswersFirst
  <1> QED BY <1>2 DEF Linked

\* Taking a frame off the wire leaves the packets behind it where they were.
LEMMA NoPacketTail ==
    ASSUME NEW c, NEW q, NEW w \in Seq(Frame), w # << >>, NEW k \in 0..Len(w),
           NEW n \in 0..Len(w) - 1, k > 0 => n = k - 1, k = 0 => n = 0,
           q.accepted = c.accepted \/ (k = 0 /\ Head(w).type = "DATA"),
           NEW j \in 0..Len(w) - 1, NoPacketYet(c, w, k, j + 1)
    PROVE  NoPacketYet(q, Tail(w), n, j)
  <1>1. /\ Len(Tail(w)) = Len(w) - 1 /\ Head(w) = w[1] /\ Len(w) \in Nat
        /\ \A i \in 1..Len(w) - 1 : Tail(w)[i] = w[i + 1]
    OBVIOUS
  <1>2. q.accepted = 0
    <2>1. ASSUME k = 0 PROVE 1 \in k + 1..j + 1
      BY <2>1
    <2>2. k = 0 => Head(w).type # "DATA"
      BY <1>1, <2>1 DEF NoPacketYet
    <2> QED BY <2>2 DEF NoPacketYet
  <1>3. ASSUME NEW i \in n + 1..j
        PROVE  Tail(w)[i].type # "DATA"
    <2>1. i \in 1..Len(w) - 1 /\ i + 1 \in k + 1..j + 1
      BY <1>1
    <2> QED BY <1>1, <2>1 DEF NoPacketYet
  <1> QED BY <1>2, <1>3 DEF NoPacketYet

\* The controller takes a frame: what it did not accept was old or not a packet.
LEMMA LinkedCtrlTake ==
    ASSUME NEW h, NEW c \in Endpoint, NEW q \in Endpoint, NEW w \in Seq(Frame),
           NEW v \in Seq(Frame), NEW b \in Nat, NEW k, NEW old \in BOOLEAN,
           w # << >>, Linked(h, c, w, v, b, k, old), FrameEffect(c, Head(w), q)
    PROVE  \E n \in 0..Len(Tail(w)) : Linked(h, q, Tail(w), v, b, n, old)
  <1> DEFINE hv == HostView(h, b, old)
             n == IF k > 0 THEN k - 1 ELSE 0
             t == Tail(w)
  <1>1. Joint(hv, c, w, v, b, k) /\ k \in 0..Len(w)
    BY DEF Linked, Joint
  <1>2. /\ t \in Seq(Frame) /\ Len(t) = Len(w) - 1 /\ Len(w) >= 1
        /\ \A i \in 1..Len(w) - 1 : t[i] = w[i + 1]
    OBVIOUS
  <1> HIDE DEF hv
  <1>3. /\ Joint(hv, q, t, v, b, n)
        /\ q.accepted = c.accepted \/ (k = 0 /\ Head(w).type = "DATA")
        /\ k > 0 => q.link_state = "UNINITIALIZED"
    <2>1. k > 0 \/ k = 0
      BY <1>1
    <2>2. (k > 0 => n = k - 1) /\ (k = 0 => n = 0) /\ ~(k > 0 /\ k = 0)
      BY <1>1
    <2>3. /\ k > 0 => /\ Joint(hv, q, t, v, b, k - 1)
                      /\ q.accepted = c.accepted
                      /\ q.link_state = "UNINITIALIZED"
          /\ k = 0 => /\ Joint(hv, q, t, v, b, 0)
                      /\ q.accepted = c.accepted \/ Head(w).type = "DATA"
      <3>1. Taken(hv, c, q, w, v, b, k)
        BY <1>1, JointCtrlReceive
      <3> QED BY <3>1 DEF Taken
    <2> HIDE DEF n, t
    <2>4. CASE k > 0
      BY <2>2, <2>3, <2>4
    <2>5. CASE k = 0
      BY <2>2, <2>3, <2>5
    <2> QED BY <2>1, <2>4, <2>5
  <1>4. /\ n \in 0..Len(w) - 1 /\ n \in 0..Len(t)
        /\ (k > 0 => n = k - 1) /\ (k = 0 => n = 0)
    BY <1>1, <1>2
  <1> HIDE DEF n
  <1>5. \A j \in 0..Len(w) - 1 :
            NoPacketYet(c, w, k, j + 1) => NoPacketYet(q, t, n, j)
    BY <1>1, <1>3, <1>4, NoPacketTail
  <1> HIDE DEF t
  <1>6. AnswersFirst(h, q, t, n, old)
    <2>1. ASSUME NEW j \in 1..Len(t), IsAnswer(t[j])
          PROVE  NoPacketYet(q, t, n, j)
      <3>1. j \in 1..Len(w) - 1 /\ j \in 0..Len(w) - 1 /\ j + 1 \in 1..Len(w)
        BY <1>2
      <3>2. NoPacketYet(c, w, k, j + 1)
        BY <1>2, <2>1, <3>1 DEF Linked, AnswersFirst
      <3> QED BY <1>5, <3>1, <3>2
    <2>2. NoPacketYet(c, w, k, Len(w)) => NoPacketYet(q, t, n, Len(t))
      <3>1. Len(t) \in 0..Len(w) - 1 /\ Len(t) + 1 = Len(w)
        BY <1>2
      <3> QED BY <1>5, <3>1
    <2> QED BY <2>1, <2>2 DEF Linked, AnswersFirst
  <1>7. old => n = Len(t) /\ q.link_state = "UNINITIALIZED"
    <2>1. old => k = Len(w)
      BY DEF Linked
    <2> QED BY <1>2, <1>3, <1>4, <2>1
  <1>8. Linked(h, q, t, v, b, n, old)
    BY <1>3, <1>6, <1>7 DEF Linked, hv
  <1> QED BY <1>4, <1>8 DEF t

\* A Step of the controller keeps it linked.
LEMMA LinkedCtrlStep ==
    ASSUME NEW h, NEW c \in Endpoint, NEW r \in Endpoint, NEW w \in Seq(Frame),
           NEW v \in Seq(Frame), NEW b, NEW k, NEW old,
           Linked(h, c, w, v, b, k, old), Step(c, r)
    PROVE  Linked(h, r, w, v, b, k, old)
  <1> DEFINE hv == HostView(h, b, old)
  <1>1. Joint(hv, c, w, v, b, k)
    BY DEF Linked
  <1> HIDE DEF hv
  <1>2. Joint(hv, r, w, v, b, k)
    BY <1>1, JointCtrlStep
  <1>3. r.accepted = c.accepted /\ r.link_state = c.link_state
    BY DEF Step
  <1> QED BY <1>2, <1>3, LinkedCtrl DEF hv

\* So does the end of a write of the controller, whether or not the frame is put
\* on the wire.
LEMMA LinkedCtrlDone ==
    ASSUME NEW h, NEW c \in Endpoint, NEW r \in Endpoint, NEW w \in Seq(Frame),
           NEW v \in Seq(Frame), NEW b, NEW k, NEW old, NEW u \in Seq(Frame),
           u = v \/ (Pending(c) /\ u = Append(v, c.uart)),
           Linked(h, c, w, v, b, k, old), SameButWrite(c, r),
           r.uart = NoFrame \/ r.uart_done
    PROVE  Linked(h, r, w, u, b, k, old)
  <1> DEFINE hv == HostView(h, b, old)
  <1>1. Joint(hv, c, w, v, b, k)
    BY DEF Linked
  <1> HIDE DEF hv
  <1>2. Joint(hv, c, w, u, b, k)
    BY <1>1, JointCtrlTransmit
  <1>3. Joint(hv, r, w, u, b, k)
    BY <1>2, JointCtrlDone
  <1>4. r.accepted = c.accepted /\ r.link_state = c.link_state
    BY DEF SameButWrite
  <1> QED BY <1>3, <1>4, LinkedCtrl DEF hv

-----------------------------------------------------------------------------
(* Starting the link.                                                      *)

\* The endpoint in which link_init calls link_run.
BeforeRun(e) ==
    link_set_timer(Request([e EXCEPT !.link_state = "UNINITIALIZED",
                                     !.peer_asleep = FALSE, !.dic = FALSE],
                           "SYNC"))

\* What link_init has set by then.
LEMMA BeforeRunFields ==
    ASSUME NEW e \in Endpoint
    PROVE  LET t == BeforeRun(e)
           IN  /\ t \in Endpoint /\ t.link_state = "UNINITIALIZED"
               /\ t.link_timer /\ t.packet = e.packet
               /\ t.submitted = e.submitted /\ t.packet_type = e.packet_type
               /\ t.accepted = e.accepted /\ t.received = e.received
               /\ t.uart = e.uart /\ t.uart_done = e.uart_done
               /\ t.actions = e.actions \cup {"SYNC"}
               /\ t.fault = IF e.link_timer THEN "timer_registered" ELSE e.fault
  <1> DEFINE o == [e EXCEPT !.link_state = "UNINITIALIZED",
                            !.peer_asleep = FALSE, !.dic = FALSE]
             q == Request(o, "SYNC")
             t == link_set_timer(q)
  <1>1. /\ o \in Endpoint /\ o.link_state = "UNINITIALIZED"
        /\ o.packet = e.packet /\ o.submitted = e.submitted
        /\ o.packet_type = e.packet_type /\ o.accepted = e.accepted
        /\ o.received = e.received /\ o.uart = e.uart
        /\ o.uart_done = e.uart_done /\ o.actions = e.actions
        /\ o.fault = e.fault /\ o.link_timer = e.link_timer
    BY DEF Endpoint, LinkStates
  <1> HIDE DEF o
  <1>2. "SYNC" \in Actions
    BY DEF Actions, Sendable, RunOrder
  <1>3. /\ q \in Endpoint /\ q.link_timer = o.link_timer
        /\ q.fault = o.fault /\ Quiet(o, q)
        /\ q.actions = o.actions \cup {"SYNC"}
    BY <1>1, <1>2, RequestQuiet DEF Request, Endpoint
  <1> HIDE DEF q
  <1>4. t \in Endpoint /\ Quiet(q, t)
    BY <1>3, SetTimerQuiet
  <1>5. /\ t.link_timer /\ t.actions = q.actions
        /\ t.fault = IF q.link_timer THEN "timer_registered" ELSE q.fault
    BY <1>3 DEF link_set_timer, Endpoint
  <1> HIDE DEF t
  <1>6. BeforeRun(e) = t
    BY DEF BeforeRun, t, q, o
  <1> QED BY <1>1, <1>3, <1>4, <1>5, <1>6 DEF Quiet

\* link_init writes a SYNC unless something is being written.
LEMMA InitSends ==
    ASSUME NEW s \in Side, NEW e \in Endpoint
    PROVE  LET t == BeforeRun(e)
               r == link_init(s, e)
           IN  /\ r = link_run(s, t)
               /\ r.fault = t.fault
               /\ e.uart # NoFrame => r = t
               /\ e.uart = NoFrame => /\ r.uart \in Frame /\ r.uart.type = "SYNC"
                                      /\ ~r.uart_done
  <1> DEFINE t == BeforeRun(e)
             q == Served(t, "SYNC")
             r == link_run(s, t)
  <1>1. /\ t \in Endpoint /\ "SYNC" \in t.actions /\ t.uart = e.uart
    BY BeforeRunFields
  <1>2. link_init(s, e) = r
    BY DEF link_init, BeforeRun
  <1> HIDE DEF t
  <1>3. CASE e.uart # NoFrame
    BY <1>1, <1>2, <1>3 DEF link_run, t
  <1>4. CASE e.uart = NoFrame
    <2>1. "SYNC" \in Sendable
      BY DEF Sendable, RunOrder
    <2>2. FirstAction(t) = "SYNC"
      BY <1>1, <2>1, FirstActionFirst
    <2>3. r = link_send_control(q, "SYNC", "absent")
      BY <1>1, <1>4, <2>1, <2>2 DEF link_run, link_serve
    <2>4. q \in Endpoint /\ q.fault = t.fault
      BY <1>1, ServedQuiet DEF Served, Endpoint
    <2> DEFINE f == ControlFrame(q, "SYNC", "absent")
    <2>5. f.type = "SYNC" /\ f \in Frame
      BY <2>4, SeqModulusAssumption
      DEF ControlFrame, Frame, FrameTypes, ControlTypes, ConfigFields, Endpoint
    <2> HIDE DEF q, f
    <2>6. r = [q EXCEPT !.uart = f, !.uart_done = FALSE]
      BY <2>3 DEF link_send_control, slip_send_frame_with_dic, f
    <2>7. r.uart = f /\ r.uart_done = FALSE /\ r.fault = q.fault
      BY <2>4, <2>6 DEF Endpoint
    <2> QED BY <1>2, <1>4, <2>4, <2>5, <2>7 DEF t
  <1> QED BY <1>3, <1>4

\* x is e with its link and its session started again.
Started(e, x) ==
    /\ x \in Endpoint /\ Orderly(x) /\ Settled(x)
    /\ x.link_state = "UNINITIALIZED" /\ x.packet = "none"
    /\ x.submitted = e.submitted
    /\ x.accepted = 0 /\ x.received = << >>
    /\ \/ e.uart # NoFrame /\ x.uart = e.uart /\ x.uart_done = e.uart_done
       \/ /\ e.uart = NoFrame
          /\ x.uart \in Frame /\ x.uart.type = "SYNC" /\ ~x.uart_done

\* A new session of the upper layers.
Forget(e) == [e EXCEPT !.accepted = 0, !.received = << >>]

\* link_init on an endpoint without a packet, a timer and anything to send.
LEMMA InitStarts ==
    ASSUME NEW s \in Side, NEW e \in Endpoint, e.packet = "none", ~e.link_timer,
           e.actions \cap Sendable = {}, e.fault # "timer_registered"
    PROVE  Started(e, Forget(link_init(s, e)))
  <1> DEFINE t == BeforeRun(e)
             r == link_init(s, e)
             x == Forget(r)
  <1>1. /\ t \in Endpoint /\ t.link_state = "UNINITIALIZED"
        /\ t.packet = "none" /\ t.submitted = e.submitted
        /\ t.link_timer /\ t.fault # "timer_registered"
        /\ t.actions = e.actions \cup {"SYNC"}
        /\ t.uart = e.uart /\ t.uart_done = e.uart_done
    BY BeforeRunFields
  <1>2. /\ r = link_run(s, t)
        /\ e.uart # NoFrame => r = t
        /\ e.uart = NoFrame => /\ r.uart \in Frame /\ r.uart.type = "SYNC"
                               /\ ~r.uart_done
    BY InitSends
  <1> HIDE DEF t, r
  <1>3. Orderly(t)
    <2>1. "ACK_PACKET" \notin t.actions
      BY <1>1 DEF Sendable, RunOrder
    <2> QED BY <1>1, <2>1 DEF Orderly
  <1>4. /\ r \in Endpoint /\ Orderly(r) /\ Settled(r) /\ Step(t, r)
    BY <1>1, <1>2, <1>3, CallTypes, RunNeat, RunStep DEF Neat
  <1>5. r.link_state = "UNINITIALIZED" /\ r.packet = "none"
        /\ r.submitted = e.submitted
    BY <1>1, <1>4 DEF Step
  <1>6. /\ x \in Endpoint /\ x.accepted = 0 /\ x.received = << >>
        /\ x.link_state = r.link_state /\ x.packet = r.packet
        /\ x.submitted = r.submitted /\ x.actions = r.actions
        /\ x.uart = r.uart /\ x.uart_done = r.uart_done
        /\ x.link_timer = r.link_timer /\ x.fault = r.fault
    <2>1. << >> \in Seq(Nat)
      OBVIOUS
    <2> QED BY <1>4, <2>1 DEF Forget, Endpoint
  <1> HIDE DEF x
  <1>7. Orderly(x) /\ Settled(x)
    BY <1>4, <1>6 DEF Orderly, Settled, Faulted
  <1> QED BY <1>1, <1>2, <1>5, <1>6, <1>7 DEF Started, x, r

\* With the link timer still registered link_init stops in the assertion of the
\* run loop.
LEMMA InitFaults ==
    ASSUME NEW s \in Side, NEW e \in Endpoint, e.link_timer
    PROVE  Faulted(link_init(s, e))
  BY BeforeRunFields, InitSends DEF Faulted

\* A rebooted controller has exchanged nothing, whatever is on its way to it.
LEMMA BootedFits ==
    ASSUME NEW b, NEW w \in Seq(Frame), \A i \in 1..Len(w) : ~IsAnswer(w[i])
    PROVE  /\ Booted \in Endpoint /\ Booted.link_state = "UNINITIALIZED"
           /\ Booted.packet = "none" /\ Booted.submitted = 0
           /\ Booted.accepted = 0 /\ Booted.received = << >>
           /\ Joint(Opened, Booted, w, << >>, b, Len(w))
  <1> DEFINE d == CtrlView(Opened, b)
             n == << >>
  <1>1. Ctrl \in Side
    BY HostAssumption, TwoSides DEF Ctrl
  <1>2. Booted \in Endpoint /\ Step(Opened, Booted)
    BY <1>1, InitStep DEF Booted
  <1>3. n \in Seq(Frame) /\ n \in Seq(Nat) /\ Counted(n, b) = n
    BY DEF Counted
  <1>4. d \in Endpoint /\ SameButPackets(Opened, d) /\ d.received = Opened.received
    BY <1>3, OpenedType, CtrlViewFields
  <1>5. PairInv(d, Opened, n, n)
    <2> HIDE DEF d, n
    <2>1. PairInv(Opened, Opened, n, n)
      BY OpenedWindow DEF n
    <2>2. Agrees(Opened, d)
      BY <1>4, OpenedType DEF Agrees, SameButPackets, TypeMatches
    <2> QED BY <1>3, <1>4, <2>1, <2>2, OpenedType, AgreeKeepsWindow
  <1>6. Fresh(w, Len(w), b) = n
    BY FreshNone
  <1>7. Joint(Opened, Opened, w, n, b, Len(w))
    <2> HIDE DEF n
    <2>1. Len(w) \in 0..Len(w)
      OBVIOUS
    <2>2. PairInv(Opened, d, n, n)
      BY <1>5, PairSymmetric
    <2> QED BY <1>3, <1>4, <1>6, <2>1, <2>2, OpenedType DEF Joint
  <1>8. Joint(Opened, Booted, w, n, b, Len(w))
    <2> HIDE DEF n
    <2> QED BY <1>2, <1>3, <1>7, OpenedType, JointCtrlStep
  <1> QED BY <1>2, <1>8, OpenedType DEF Step

\* Where a session starts: the host has cleared everything, the frames on the
\* wire are old ones.
LEMMA SessionStarts ==
    ASSUME NEW e \in Endpoint, NEW x, Started(e, x), NEW c \in Endpoint,
           NEW w \in Seq(Frame), NEW v \in Seq(Frame), NEW b \in Nat,
           c.link_state = "UNINITIALIZED",
           Pending(e) => ~IsAnswer(e.uart),
           Joint(Opened, c, w, v, b, Len(w))
    PROVE  Session(x, c, w, v, e.submitted, Len(w), Pending(e))
  <1> DEFINE n == e.submitted
             old == Pending(e)
             xv == HostView(x, n, old)
             d == CtrlView(c, b)
             l == CtrlView(c, n)
  <1>1. /\ x \in Endpoint /\ x.submitted = n /\ n \in Nat /\ n <= x.submitted
        /\ x.submitted - n = 0
    BY DEF Started, Endpoint
  <1>2. d \in Endpoint /\ LocalInv(d) /\ PairInv(Opened, d, Fresh(w, Len(w), b), v)
    BY DEF Joint, PairInv
  <1>3. /\ c.accepted = 0 /\ c.received = << >>
    <2>1. SameButPackets(c, d) /\ d.received = Counted(c.received, b)
      BY CtrlViewFields
    <2>2. d.accepted = 0 /\ d.received = [i \in 1..d.accepted |-> i]
      BY <1>2, <2>1 DEF LocalInv, SameButPackets
    <2>3. Len(d.received) = 0
      BY <2>2
    <2>4. c.received \in Seq(Nat) /\ Len(Counted(c.received, b)) = Len(c.received)
      BY DEF Endpoint, Counted
    <2> QED BY <2>1, <2>2, <2>3, <2>4 DEF SameButPackets
  <1>4. l = d
    BY <1>3 DEF CtrlView, Counted
  <1>5. Fresh(w, Len(w), b) = << >> /\ Fresh(w, Len(w), n) = << >>
    BY FreshNone
  <1>6. Pending(x) /\ ~old => x.uart \in Frame /\ x.uart.type = "SYNC"
    BY DEF Started, Pending
  <1>7. old => Pending(x) /\ x.uart = e.uart
    BY DEF Started, Pending
  <1>8. /\ FreshWrite(x, n, old) \in Frame \cup {NoFrame}
        /\ FreshWrite(x, n, old) # NoFrame => FreshWrite(x, n, old).type = "SYNC"
    BY <1>1, <1>6, ShiftFields DEF FreshWrite
  <1>9. /\ InSession(x, n, xv) /\ xv \in Endpoint /\ xv.uart = FreshWrite(x, n, old)
    BY <1>1, <1>8, HostViewFields
  <1>10. PairInv(xv, d, << >>, v)
    <2> HIDE DEF xv, d
    <2>1. Agrees(Opened, xv)
      BY <1>1, <1>8, <1>9, OpenedType
      DEF Agrees, InSession, ActiveNr, Started, TypeMatches
    <2>2. << >> \in Seq(Frame)
      OBVIOUS
    <2> QED BY <1>2, <1>5, <1>9, <2>1, <2>2, OpenedType, AgreeKeepsWindow
  <1>11. Joint(xv, c, w, v, n, Len(w))
    <2> HIDE DEF xv, d, l
    <2>1. << >> \in Seq(Frame)
      OBVIOUS
    <2> QED BY <1>2, <1>4, <1>5, <1>9, <1>10, <2>1 DEF Joint, l
  <1>12. AnswersFirst(x, c, w, Len(w), old)
    <2>1. \A i \in 1..Len(w) : ~IsAnswer(w[i])
      BY DEF Joint
    <2>2. NoPacketYet(c, w, Len(w), Len(w))
      <3>1. Len(w) + 1..Len(w) = {}
        OBVIOUS
      <3> QED BY <1>3, <3>1 DEF NoPacketYet
    <2>3. Pending(x) /\ ~old => x.uart.type # "DATA"
      BY <1>6
    <2> HIDE DEF old
    <2> QED BY <2>1, <2>2, <2>3 DEF AnswersFirst
  <1> QED BY <1>1, <1>7, <1>11, <1>12 DEF Session, Linked, Started

-----------------------------------------------------------------------------
(* The phases are kept by the steps of the host.                           *)

\* A tidy step of a host that has no SYNC to answer starts no SYNC_RESPONSE.
LEMMA TidyNoAnswer ==
    ASSUME NEW h, NEW r, Tidy(h, r), ~MayAnswerSync(h),
           Pending(h) => ~IsAnswer(h.uart)
    PROVE  ~MayAnswerSync(r) /\ (Pending(r) => ~IsAnswer(r.uart))
  BY DEF Tidy, Pending, IsAnswer

\* send_packet, set_baudrate and the link timer.
LEMMA PhaseHostStep ==
    ASSUME NEW h \in Endpoint, NEW r \in Endpoint, NEW c \in Endpoint,
           NEW w \in Seq(Frame), NEW v \in Seq(Frame), NEW b \in Nat,
           NEW cancelled, NEW reboots,
           Phase(h, c, w, v, b, cancelled, reboots), ~Faulted(h),
           Step(h, r), Orderly(h) => Tidied(h, r)
    PROVE  Phase(r, c, w, v, b, cancelled, reboots)
  <1>1. CASE reboots /\ ~cancelled /\ Rebooting(h, c, w, v, b)
    <2>1. Orderly(r) /\ Tidy(h, r)
      BY <1>1 DEF Rebooting, Tidied, Neat
    <2>2. Rebooting(r, c, w, v, b)
      BY <1>1, <2>1, TidyNoAnswer DEF Rebooting
    <2> QED BY <1>1, <2>2 DEF Phase
  <1>2. CASE ~reboots /\ Silent(h, c, w, cancelled)
    BY <1>2 DEF Silent, Phase
  <1>3. CASE /\ ~reboots /\ ~cancelled
             /\ \E k \in 0..Len(w), old \in BOOLEAN : Session(h, c, w, v, b, k, old)
    <2>1. PICK k \in 0..Len(w), old \in BOOLEAN : Session(h, c, w, v, b, k, old)
      BY <1>3
    <2>2. Orderly(r) /\ Settled(r) /\ Tidy(h, r)
      BY <2>1 DEF Session, Tidied, Neat
    <2>3. Linked(r, c, w, v, b, k, old)
      BY <2>1, <2>2, LinkedHostStep DEF Session
    <2>4. Session(r, c, w, v, b, k, old)
      BY <2>2, <2>3 DEF Session
    <2> QED BY <1>3, <2>4 DEF Phase
  <1> QED BY <1>1, <1>2, <1>3 DEF Phase

\* A frame that a host with everything still to do would take.
LEMMA JointOpenedTail ==
    ASSUME NEW c, NEW w, NEW v \in Seq(Frame), NEW b, NEW k, v # << >>,
           Joint(Opened, c, w, v, b, k)
    PROVE  Joint(Opened, c, w, Tail(v), b, k)
  <1> DEFINE d == CtrlView(c, b)
             g == Fresh(w, k, b)
  <1>1. /\ d \in Endpoint /\ g \in Seq(Frame) /\ PairInv(Opened, d, g, v)
    BY DEF Joint
  <1>2. FrameEffect(Opened, Head(v), Opened)
    BY OpenedType DEF FrameEffect
  <1> HIDE DEF d, g
  <1>3. PairInv(Opened, d, g, Tail(v))
    BY <1>1, <1>2, OpenedType, FrameKeepsWindow
  <1> QED BY <1>3 DEF Joint, d, g

\* process_frame.
LEMMA PhaseHostReceive ==
    ASSUME NEW h \in Endpoint, NEW q \in Endpoint, NEW r \in Endpoint,
           NEW c \in Endpoint, NEW w \in Seq(Frame), NEW v \in Seq(Frame),
           NEW b \in Nat, NEW cancelled, NEW reboots, v # << >>,
           Phase(h, c, w, v, b, cancelled, reboots), ~Faulted(h),
           FrameEffect(h, Head(v), q), Step(q, r), Orderly(h) => Tidied(h, r)
    PROVE  Phase(r, c, w, Tail(v), b, cancelled, reboots)
  <1>1. CASE reboots /\ ~cancelled /\ Rebooting(h, c, w, v, b)
    <2>1. Orderly(r) /\ Tidy(h, r)
      BY <1>1 DEF Rebooting, Tidied, Neat
    <2>2. Joint(Opened, c, w, Tail(v), b, Len(w))
      BY <1>1, JointOpenedTail DEF Rebooting
    <2>3. Rebooting(r, c, w, Tail(v), b)
      BY <1>1, <2>1, <2>2, TidyNoAnswer DEF Rebooting
    <2> QED BY <1>1, <2>3 DEF Phase
  <1>2. CASE ~reboots /\ Silent(h, c, w, cancelled)
    BY <1>2 DEF Silent, Phase
  <1>3. CASE /\ ~reboots /\ ~cancelled
             /\ \E k \in 0..Len(w), old \in BOOLEAN : Session(h, c, w, v, b, k, old)
    <2>1. PICK k \in 0..Len(w), old \in BOOLEAN : Session(h, c, w, v, b, k, old)
      BY <1>3
    <2>2. Orderly(r) /\ Settled(r) /\ Tidy(h, r)
      BY <2>1 DEF Session, Tidied, Neat
    <2>3. Linked(r, c, w, Tail(v), b, k, old)
      BY <2>1, <2>2, LinkedHostReceive DEF Session
    <2>4. Session(r, c, w, Tail(v), b, k, old)
      BY <2>2, <2>3 DEF Session
    <2> QED BY <1>3, <2>4 DEF Phase
  <1> QED BY <1>1, <1>2, <1>3 DEF Phase

\* The end of a write.
LEMMA PhaseHostDone ==
    ASSUME NEW h \in Endpoint, NEW c \in Endpoint,
           NEW w \in Seq(Frame), NEW v \in Seq(Frame), NEW b \in Nat, NEW u,
           NEW cancelled, NEW reboots,
           Phase(h, c, w, v, b, cancelled, reboots), ~Faulted(h), ~cancelled,
           Pending(h), u = w \/ u = Append(w, h.uart)
    PROVE  Phase([h EXCEPT !.uart_done = TRUE], c, u, v, b, cancelled, reboots)
  <1> DEFINE r == [h EXCEPT !.uart_done = TRUE]
             f == h.uart
  <1>1. /\ r \in Endpoint /\ SameButWrite(h, r) /\ r.uart_done /\ r.uart = f
        /\ r.actions = h.actions /\ r.link_timer = h.link_timer
        /\ r.fault = h.fault
    BY WriteOver DEF Endpoint
  <1>2. f \in Frame
    BY DEF Pending, Endpoint
  <1>3. Orderly(h) => Orderly(r)
    BY <1>1 DEF Orderly, SameButWrite
  <1>4. Settled(r) /\ ~Pending(r)
    BY <1>1 DEF Settled, Pending
  <1> HIDE DEF r, f
  <1>5. CASE reboots /\ Rebooting(h, c, w, v, b)
    <2>1. /\ u \in Seq(Frame) /\ \A i \in 1..Len(u) : ~IsAnswer(u[i])
      <3>1. ~IsAnswer(f) /\ \A i \in 1..Len(w) : ~IsAnswer(w[i])
        BY <1>5 DEF Rebooting, f
      <3>2. CASE u = w
        BY <3>1, <3>2
      <3>3. CASE u = Append(w, f)
        <4>1. /\ u \in Seq(Frame) /\ Len(u) = Len(w) + 1 /\ u[Len(w) + 1] = f
              /\ \A i \in 1..Len(w) : u[i] = w[i]
          BY <1>2, <3>3
        <4>2. \A i \in 1..Len(w) + 1 : i \in 1..Len(w) \/ i = Len(w) + 1
          OBVIOUS
        <4> QED BY <3>1, <4>1, <4>2
      <3> QED BY <3>2, <3>3 DEF f
    <2>2. Joint(Opened, c, u, v, b, Len(u))
      <3>1. Fresh(w, Len(w), b) = << >> /\ Fresh(u, Len(u), b) = << >>
        BY <2>1, FreshNone
      <3>2. Len(u) \in 0..Len(u)
        BY <2>1
      <3> QED BY <1>5, <2>1, <3>1, <3>2 DEF Rebooting, Joint
    <2>3. ~MayAnswerSync(r)
      BY <1>1, <1>5 DEF Rebooting, MayAnswerSync, SameButWrite
    <2>4. Rebooting(r, c, u, v, b)
      BY <1>3, <1>4, <1>5, <2>1, <2>2, <2>3 DEF Rebooting
    <2> QED BY <1>5, <2>4 DEF Phase, r
  <1>6. CASE /\ ~reboots
             /\ \E k \in 0..Len(w), old \in BOOLEAN : Session(h, c, w, v, b, k, old)
    <2>1. PICK k \in 0..Len(w), old \in BOOLEAN : Session(h, c, w, v, b, k, old)
      BY <1>6
    <2>2. Linked(h, c, w, v, b, k, old)
      BY <2>1 DEF Session
    <2>3. ASSUME NEW n, Linked(r, c, u, v, b, n, FALSE)
          PROVE  Phase(r, c, u, v, b, cancelled, reboots)
      <3>1. n \in 0..Len(u)
        BY <2>3 DEF Linked, Joint
      <3>2. Session(r, c, u, v, b, n, FALSE)
        BY <1>3, <1>4, <2>1, <2>3 DEF Session
      <3> QED BY <1>6, <3>1, <3>2 DEF Phase
    <2>4. CASE u = w
      <3>1. Linked(r, c, w, v, b, k, FALSE)
        BY <1>1, <2>2, LinkedHostDone
      <3> QED BY <2>3, <2>4, <3>1 DEF r
    <2>5. CASE u = Append(w, h.uart) /\ old
      <3>1. Linked(r, c, u, v, b, Len(w) + 1, FALSE)
        BY <2>2, <2>5, TransmitOld DEF r
      <3> QED BY <2>3, <3>1 DEF r
    <2>6. CASE u = Append(w, h.uart) /\ ~old
      <3>1. Linked(r, c, u, v, b, k, FALSE)
        BY <2>2, <2>6, TransmitFresh DEF r
      <3> QED BY <2>3, <3>1 DEF r
    <2> QED BY <2>4, <2>5, <2>6
  <1> QED BY <1>5, <1>6 DEF Phase, Silent

\* frame_sent.
LEMMA PhaseHostSent ==
    ASSUME NEW h \in Endpoint, NEW r \in Endpoint, NEW c \in Endpoint,
           NEW w \in Seq(Frame), NEW v \in Seq(Frame), NEW b \in Nat,
           NEW cancelled, NEW reboots,
           Phase(h, c, w, v, b, cancelled, reboots), ~Faulted(h), ~cancelled,
           Step(Idle(h), r), Orderly(h) => Neat(Idle(h), r) /\ Settled(r)
    PROVE  Phase(r, c, w, v, b, cancelled, reboots)
  <1> DEFINE q == Idle(h)
  <1>1. /\ q \in Endpoint /\ SameButWrite(h, q) /\ q.uart = NoFrame
        /\ q.actions = h.actions
    <2>1. q.actions = h.actions
      BY DEF Idle, Endpoint
    <2> QED BY <2>1, WriteOver
  <1> HIDE DEF q
  <1>2. CASE reboots /\ Rebooting(h, c, w, v, b)
    <2>1. Orderly(r) /\ Tidy(q, r)
      BY <1>2 DEF Rebooting, Neat, q
    <2>2. ~MayAnswerSync(q) /\ ~Pending(q)
      BY <1>1, <1>2 DEF Rebooting, MayAnswerSync, SameButWrite, Pending
    <2>3. Rebooting(r, c, w, v, b)
      BY <1>2, <2>1, <2>2, TidyNoAnswer DEF Rebooting
    <2> QED BY <1>2, <2>3 DEF Phase
  <1>3. CASE /\ ~reboots
             /\ \E k \in 0..Len(w), old \in BOOLEAN : Session(h, c, w, v, b, k, old)
    <2>1. PICK k \in 0..Len(w), old \in BOOLEAN : Session(h, c, w, v, b, k, old)
      BY <1>3
    <2>2. Orderly(r) /\ Settled(r) /\ Tidy(q, r)
      BY <2>1 DEF Session, Neat, q
    <2>3. Linked(q, c, w, v, b, k, FALSE)
      BY <1>1, <2>1, LinkedHostDone DEF Session
    <2>4. Linked(r, c, w, v, b, k, FALSE)
      BY <1>1, <2>2, <2>3, LinkedHostStep DEF q
    <2>5. Session(r, c, w, v, b, k, FALSE)
      BY <2>2, <2>4 DEF Session
    <2> QED BY <1>3, <2>5 DEF Phase
  <1> QED BY <1>2, <1>3 DEF Phase, Silent

-----------------------------------------------------------------------------
(* The phases are kept by the steps of the controller.                     *)

\* All handlers of the controller but process_frame.
LEMMA PhaseCtrlStep ==
    ASSUME NEW h, NEW c \in Endpoint, NEW r \in Endpoint,
           NEW w \in Seq(Frame), NEW v \in Seq(Frame), NEW b \in Nat,
           NEW cancelled, NEW reboots,
           Phase(h, c, w, v, b, cancelled, reboots), Step(c, r)
    PROVE  Phase(h, r, w, v, b, cancelled, reboots)
  <1>1. CASE reboots /\ ~cancelled /\ Rebooting(h, c, w, v, b)
    <2>1. Joint(Opened, r, w, v, b, Len(w))
      BY <1>1, JointCtrlStep DEF Rebooting
    <2>2. r.link_state = "UNINITIALIZED"
      BY <1>1 DEF Rebooting, Step
    <2>3. Rebooting(h, r, w, v, b)
      BY <1>1, <2>1, <2>2 DEF Rebooting
    <2> QED BY <1>1, <2>3 DEF Phase
  <1>2. CASE ~reboots /\ Silent(h, c, w, cancelled)
    <2>1. Silent(h, r, w, cancelled)
      BY <1>2 DEF Silent, Step
    <2> QED BY <1>2, <2>1 DEF Phase
  <1>3. CASE /\ ~reboots /\ ~cancelled
             /\ \E k \in 0..Len(w), old \in BOOLEAN : Session(h, c, w, v, b, k, old)
    <2>1. PICK k \in 0..Len(w), old \in BOOLEAN : Session(h, c, w, v, b, k, old)
      BY <1>3
    <2>2. Linked(h, r, w, v, b, k, old)
      BY <2>1, LinkedCtrlStep DEF Session
    <2>3. Session(h, r, w, v, b, k, old)
      BY <2>1, <2>2 DEF Session
    <2> QED BY <1>3, <2>3 DEF Phase
  <1> QED BY <1>1, <1>2, <1>3 DEF Phase

\* The end of a write of the controller.
LEMMA PhaseCtrlDone ==
    ASSUME NEW h, NEW c \in Endpoint, NEW r \in Endpoint,
           NEW w \in Seq(Frame), NEW v \in Seq(Frame), NEW b \in Nat,
           NEW u \in Seq(Frame), NEW cancelled, NEW reboots,
           Phase(h, c, w, v, b, cancelled, reboots), SameButWrite(c, r),
           u = v \/ (Pending(c) /\ u = Append(v, c.uart)),
           r.uart = NoFrame \/ r.uart_done
    PROVE  Phase(h, r, w, u, b, cancelled, reboots)
  <1>1. CASE reboots /\ ~cancelled /\ Rebooting(h, c, w, v, b)
    <2>1. Joint(Opened, c, w, u, b, Len(w))
      BY <1>1, JointCtrlTransmit DEF Rebooting
    <2>2. Joint(Opened, r, w, u, b, Len(w))
      BY <2>1, JointCtrlDone
    <2>3. r.link_state = "UNINITIALIZED"
      BY <1>1 DEF Rebooting, SameButWrite
    <2>4. Rebooting(h, r, w, u, b)
      BY <1>1, <2>2, <2>3 DEF Rebooting
    <2> QED BY <1>1, <2>4 DEF Phase
  <1>2. CASE ~reboots /\ Silent(h, c, w, cancelled)
    <2>1. Silent(h, r, w, cancelled)
      BY <1>2 DEF Silent, SameButWrite
    <2> QED BY <1>2, <2>1 DEF Phase
  <1>3. CASE /\ ~reboots /\ ~cancelled
             /\ \E k \in 0..Len(w), old \in BOOLEAN : Session(h, c, w, v, b, k, old)
    <2>1. PICK k \in 0..Len(w), old \in BOOLEAN : Session(h, c, w, v, b, k, old)
      BY <1>3
    <2>2. Linked(h, r, w, u, b, k, old)
      BY <2>1, LinkedCtrlDone DEF Session
    <2>3. Session(h, r, w, u, b, k, old)
      BY <2>1, <2>2 DEF Session
    <2> QED BY <1>3, <2>3 DEF Phase
  <1> QED BY <1>1, <1>2, <1>3 DEF Phase

\* process_frame on the controller.
LEMMA PhaseCtrlTake ==
    ASSUME NEW h, NEW c \in Endpoint, NEW q \in Endpoint,
           NEW w \in Seq(Frame), NEW v \in Seq(Frame), NEW b \in Nat,
           NEW cancelled, NEW reboots, w # << >>,
           Phase(h, c, w, v, b, cancelled, reboots), FrameEffect(c, Head(w), q)
    PROVE  Phase(h, q, Tail(w), v, b, cancelled, reboots)
  <1> DEFINE t == Tail(w)
  <1>1. /\ t \in Seq(Frame) /\ Len(t) = Len(w) - 1 /\ Len(w) > 0
        /\ \A i \in 1..Len(t) : t[i] = w[i + 1] /\ i + 1 \in 1..Len(w)
    OBVIOUS
  <1>2. CASE reboots /\ ~cancelled /\ Rebooting(h, c, w, v, b)
    <2>1. Taken(Opened, c, q, w, v, b, Len(w))
      BY <1>2, JointCtrlReceive DEF Rebooting
    <2>2. Joint(Opened, q, t, v, b, Len(t)) /\ q.link_state = "UNINITIALIZED"
      BY <1>1, <2>1 DEF Taken
    <2> HIDE DEF t
    <2>3. Rebooting(h, q, t, v, b)
      BY <1>1, <1>2, <2>2 DEF Rebooting
    <2> QED BY <1>2, <2>3 DEF Phase, t
  <1>3. CASE /\ ~reboots /\ ~cancelled
             /\ \E k \in 0..Len(w), old \in BOOLEAN : Session(h, c, w, v, b, k, old)
    <2>1. PICK k \in 0..Len(w), old \in BOOLEAN : Session(h, c, w, v, b, k, old)
      BY <1>3
    <2>2. PICK n \in 0..Len(t) : Linked(h, q, t, v, b, n, old)
      BY <2>1, LinkedCtrlTake DEF Session
    <2> HIDE DEF t
    <2>3. Session(h, q, t, v, b, n, old)
      BY <2>1, <2>2 DEF Session
    <2> QED BY <1>3, <2>3 DEF Phase, t
  <1> QED BY <1>2, <1>3 DEF Phase, Silent

-----------------------------------------------------------------------------
(* The actions of the two sides.                                           *)

\* The host and the controller are the two sides.
LEMMA HostAndCtrl ==
    /\ Host \in Side /\ Ctrl \in Side /\ Host # Ctrl /\ Side = {Host, Ctrl}
    /\ Other(Host) = Ctrl /\ Other(Ctrl) = Host
  BY HostAssumption, TwoSides DEF Ctrl

\* What the invariant says of the parts.
LEMMA Parts ==
    ASSUME RInv
    PROVE  /\ ep[Host] \in Endpoint /\ ep[Ctrl] \in Endpoint
           /\ wire[Host] \in Seq(Frame) /\ wire[Ctrl] \in Seq(Frame)
           /\ ep \in [Side -> Endpoint] /\ wire \in [Side -> Seq(Frame)]
           /\ base \in Nat /\ Regular(ep[Host])
           /\ ep[Host].submitted \in 0..MaxSend
  <1>1. /\ ep \in [Side -> Endpoint] /\ wire \in [Side -> Seq(Frame)]
        /\ base \in Nat /\ Regular(ep[Host])
    BY MaxSendAssumption DEF RInv, RestartTypeOK, TypeOK
  <1>2. /\ ep[Host] \in Endpoint /\ ep[Ctrl] \in Endpoint
        /\ wire[Host] \in Seq(Frame) /\ wire[Ctrl] \in Seq(Frame)
    BY <1>1, HostAndCtrl
  <1>3. ep[Host].submitted \in Nat
    BY <1>2 DEF Endpoint
  <1> QED BY <1>1, <1>2, <1>3, MaxSendAssumption DEF Regular

\* The host and one of the wires change.
LEMMA HostChanges ==
    ASSUME RInv, open, Keep, NEW r \in Endpoint, Regular(r), Become(Host, r),
           wire' \in [Side -> Seq(Frame)],
           Phase(r, ep[Ctrl], wire'[Host], wire'[Ctrl], base, aborted, rebooted)
    PROVE  RInv'
  <1>1. ep' \in [Side -> Endpoint] /\ ep'[Host] = r /\ ep'[Ctrl] = ep[Ctrl]
    BY Parts, HostAndCtrl DEF Become
  <1>2. RestartTypeOK'
    BY <1>1 DEF RInv, RestartTypeOK, TypeOK, Keep
  <1>3. RestartInv'
    BY <1>1 DEF RestartInv, Keep
  <1> QED BY <1>1, <1>2, <1>3 DEF RInv

\* The controller and one of the wires change.
LEMMA CtrlChanges ==
    ASSUME RInv, open, Keep, NEW r \in Endpoint, Become(Ctrl, r),
           wire' \in [Side -> Seq(Frame)],
           Phase(ep[Host], r, wire'[Host], wire'[Ctrl], base, aborted, rebooted)
    PROVE  RInv'
  <1>1. ep' \in [Side -> Endpoint] /\ ep'[Ctrl] = r /\ ep'[Host] = ep[Host]
    BY Parts, HostAndCtrl DEF Become
  <1>2. RestartTypeOK'
    BY <1>1 DEF RInv, RestartTypeOK, TypeOK, Keep
  <1>3. RestartInv'
    BY <1>1 DEF RestartInv, Keep
  <1> QED BY <1>1, <1>2, <1>3 DEF RInv

\* A Step hands over no more than the bound allows.
LEMMA StepRegular ==
    ASSUME NEW h \in Endpoint, NEW r \in Endpoint, Regular(h), Step(h, r)
    PROVE  Regular(r)
  <1>1. h.submitted \in Nat /\ r.submitted \in Nat
    BY DEF Endpoint
  <1> QED BY <1>1, MaxSendAssumption DEF Regular, Step

\* A step of the host with the UART open.
LEMMA HostKeeps ==
    ASSUME RInv, open,
           \/ Call(Host) \/ WriteEnds(Host) \/ Sent(Host)
           \/ Received(Host) \/ Timeout(Host)
    PROVE  RInv'
  <1> DEFINE h == ep[Host]
             c == ep[Ctrl]
             w == wire[Host]
             v == wire[Ctrl]
  <1>1. /\ h \in Endpoint /\ c \in Endpoint /\ w \in Seq(Frame) /\ v \in Seq(Frame)
        /\ base \in Nat /\ Regular(h) /\ wire \in [Side -> Seq(Frame)]
        /\ Phase(h, c, w, v, base, aborted, rebooted)
    BY Parts DEF RInv, RestartInv
  <1>2. /\ Host \in Side /\ ConfigField[Host] \in ConfigFields
        /\ Calls[Host] \subseteq AnyCall /\ Reactions(Host) \subseteq AnyCall
    BY HostAndCtrl, CallTypes
  <1>3. ASSUME Running(Host), Keep, NEW r \in Endpoint, Become(Host, r),
               UNCHANGED wire, Step(h, r), Orderly(h) => Tidied(h, r)
        PROVE  RInv'
    <2>1. Phase(r, c, w, v, base, aborted, rebooted)
      BY <1>1, <1>3, PhaseHostStep DEF Running
    <2>2. Regular(r)
      BY <1>1, <1>3, StepRegular
    <2> QED BY <1>1, <1>3, <2>1, <2>2, HostChanges
  <1>4. CASE Call(Host)
    <2>1. PICK call \in Calls[Host] : UpperCall(Host, call)
      BY <1>4 DEF Call
    <2>2. /\ Upper(Host, h, call) \in Endpoint /\ Step(h, Upper(Host, h, call))
          /\ Orderly(h) => Tidied(h, Upper(Host, h, call))
      BY <1>1, <1>2, UpperStep, UpperTidied
    <2> QED BY <1>3, <1>4, <2>1, <2>2 DEF Call, UpperCall
  <1>5. CASE Timeout(Host)
    <2>1. /\ link_timeout_handler(Host, h) \in Endpoint
          /\ Step(h, link_timeout_handler(Host, h))
          /\ Orderly(h) => Tidied(h, link_timeout_handler(Host, h))
      BY <1>1, <1>2, <1>5, LinkTimeoutStep, LinkTimeoutTidied
      DEF Timeout, LinkTimeout
    <2> QED BY <1>3, <1>5, <2>1 DEF Timeout, LinkTimeout
  <1>6. CASE WriteEnds(Host)
    <2> DEFINE r == [h EXCEPT !.uart_done = TRUE]
    <2>1. /\ Keep /\ ~Faulted(h) /\ ~aborted /\ Pending(h) /\ Become(Host, r)
          /\ wire' = wire \/ wire' = [wire EXCEPT ![Host] = Append(@, h.uart)]
      BY <1>6 DEF WriteEnds, UartWorks, Transmit, Lose, Running, Pending
    <2>2. h.uart \in Frame
      BY <1>1, <2>1 DEF Pending, Endpoint
    <2>3. Append(w, h.uart) \in Seq(Frame)
      BY <1>1, <2>2
    <2>4. /\ wire' \in [Side -> Seq(Frame)] /\ wire'[Ctrl] = v
          /\ wire'[Host] = w \/ wire'[Host] = Append(w, h.uart)
      BY <1>1, <2>1, <2>3, HostAndCtrl
    <2>5. r \in Endpoint /\ SameButWrite(h, r)
      BY <1>1, WriteOver
    <2>6. Phase(r, c, wire'[Host], wire'[Ctrl], base, aborted, rebooted)
      <3> HIDE DEF h, c, w, v
      <3> QED BY <1>1, <2>1, <2>4, PhaseHostDone
    <2> HIDE DEF r
    <2>7. Regular(r)
      BY <1>1, <2>5 DEF Regular, SameButWrite, TypeMatches
    <2> QED BY <2>1, <2>4, <2>5, <2>6, <2>7, HostChanges
  <1>7. CASE Sent(Host)
    <2>1. PICK sleepCall \in Reactions(Host), sentCall \in Reactions(Host) :
              Become(Host, h5_frame_sent(Host, h, sleepCall, sentCall))
      BY <1>7 DEF Sent, FrameSent
    <2> DEFINE r == h5_frame_sent(Host, h, sleepCall, sentCall)
    <2>2. /\ Idle(h) \in Endpoint /\ r \in Endpoint /\ Step(Idle(h), r)
          /\ Orderly(h) => Neat(Idle(h), r) /\ Settled(r)
      BY <1>1, <1>2, FrameSentStep, FrameSentTidied DEF Regular
    <2>3. Keep /\ ~Faulted(h) /\ ~aborted /\ UNCHANGED wire
      BY <1>7 DEF Sent, UartWorks, FrameSent, Running
    <2> HIDE DEF r
    <2>4. Phase(r, c, w, v, base, aborted, rebooted)
      <3> HIDE DEF h, c, w, v
      <3> QED BY <1>1, <2>2, <2>3, PhaseHostSent
    <2>5. Regular(r)
      <3>1. Regular(Idle(h))
        BY <1>1, WriteOver DEF Regular, SameButWrite, TypeMatches
      <3> QED BY <2>2, <3>1, StepRegular
    <2> QED BY <1>1, <2>1, <2>2, <2>3, <2>4, <2>5, HostChanges DEF r
  <1>8. CASE Received(Host)
    <2>1. /\ Keep /\ ~Faulted(h) /\ v # << >>
          /\ wire' = [wire EXCEPT ![Ctrl] = Tail(@)]
      BY <1>8, HostAndCtrl DEF Received, FrameReceived, Running
    <2> DEFINE f == Head(v)
    <2>2. f \in Frame /\ Tail(v) \in Seq(Frame)
      BY <1>1, <2>1
    <2>3. PICK ackCall \in Reactions(Host), rxCall \in Reactions(Host) :
              Become(Host, h5_process_frame(Host, h, f, ackCall, rxCall))
      BY <1>8, HostAndCtrl DEF Received, FrameReceived
    <2> DEFINE r == h5_process_frame(Host, h, f, ackCall, rxCall)
    <2> HIDE DEF f
    <2>4. /\ r \in Endpoint /\ \E q \in Endpoint : FrameEffect(h, f, q) /\ Step(q, r)
          /\ Orderly(h) => Tidied(h, r)
      BY <1>1, <1>2, <2>2, ProcessFrameEffect, ProcessFrameTidied
    <2> HIDE DEF r
    <2>5. PICK q \in Endpoint : FrameEffect(h, f, q) /\ Step(q, r)
      BY <2>4
    <2>6. /\ wire' \in [Side -> Seq(Frame)] /\ wire'[Ctrl] = Tail(v)
          /\ wire'[Host] = w
      BY <1>1, <2>1, <2>2, HostAndCtrl
    <2>7. Phase(r, c, w, Tail(v), base, aborted, rebooted)
      <3> HIDE DEF h, c, w, v
      <3> QED BY <1>1, <2>1, <2>4, <2>5, PhaseHostReceive DEF f
    <2>8. Regular(r)
      <3>1. Regular(q)
        BY <1>1, <2>5 DEF Regular, FrameEffect
      <3> QED BY <2>4, <2>5, <3>1, StepRegular
    <2> QED BY <2>1, <2>3, <2>4, <2>6, <2>7, <2>8, HostChanges DEF r
  <1> QED BY <1>4, <1>5, <1>6, <1>7, <1>8

\* In every phase the packet of the controller is of the type it remembers.
LEMMA PhaseCtrlMatches ==
    ASSUME NEW h, NEW c \in Endpoint, NEW w, NEW v, NEW b, NEW cancelled,
           NEW reboots, Phase(h, c, w, v, b, cancelled, reboots)
    PROVE  TypeMatches(c)
  <1>1. ASSUME NEW hv, NEW k, Joint(hv, c, w, v, b, k)
        PROVE  TypeMatches(c)
    <2>1. LocalInv(CtrlView(c, b)) /\ SameButPackets(c, CtrlView(c, b))
      BY <1>1, CtrlViewFields DEF Joint, PairInv
    <2> QED BY <2>1 DEF LocalInv, SameButPackets, TypeMatches
  <1>2. Silent(h, c, w, cancelled) => TypeMatches(c)
    BY DEF Silent, TypeMatches
  <1>3. Rebooting(h, c, w, v, b) => TypeMatches(c)
    BY <1>1 DEF Rebooting
  <1>4. ASSUME NEW k, NEW old, Session(h, c, w, v, b, k, old)
        PROVE  TypeMatches(c)
    BY <1>1, <1>4 DEF Session, Linked
  <1> QED BY <1>2, <1>3, <1>4 DEF Phase

\* A step of the controller.
LEMMA CtrlKeeps ==
    ASSUME RInv, open,
           \/ Call(Ctrl) \/ WriteEnds(Ctrl) \/ Sent(Ctrl)
           \/ Received(Ctrl) \/ Timeout(Ctrl)
    PROVE  RInv'
  <1> DEFINE h == ep[Host]
             c == ep[Ctrl]
             w == wire[Host]
             v == wire[Ctrl]
  <1>1. /\ h \in Endpoint /\ c \in Endpoint /\ w \in Seq(Frame) /\ v \in Seq(Frame)
        /\ base \in Nat /\ wire \in [Side -> Seq(Frame)]
        /\ Phase(h, c, w, v, base, aborted, rebooted)
    BY Parts DEF RInv, RestartInv
  <1>2. /\ Ctrl \in Side /\ ConfigField[Ctrl] \in ConfigFields
        /\ Calls[Ctrl] \subseteq AnyCall /\ Reactions(Ctrl) \subseteq AnyCall
    BY HostAndCtrl, CallTypes
  <1>3. ASSUME Keep, NEW r \in Endpoint, Become(Ctrl, r),
               UNCHANGED wire, Step(c, r)
        PROVE  RInv'
    <2>1. Phase(h, r, w, v, base, aborted, rebooted)
      BY <1>1, <1>3, PhaseCtrlStep
    <2> QED BY <1>1, <1>3, <2>1, CtrlChanges
  <1>4. CASE Call(Ctrl)
    <2>1. PICK call \in Calls[Ctrl] : UpperCall(Ctrl, call)
      BY <1>4 DEF Call
    <2>2. /\ Upper(Ctrl, c, call) \in Endpoint /\ Step(c, Upper(Ctrl, c, call))
      BY <1>1, <1>2, UpperStep
    <2> QED BY <1>3, <1>4, <2>1, <2>2 DEF Call, UpperCall
  <1>5. CASE Timeout(Ctrl)
    <2>1. /\ link_timeout_handler(Ctrl, c) \in Endpoint
          /\ Step(c, link_timeout_handler(Ctrl, c))
      BY <1>1, <1>2, LinkTimeoutStep
    <2> QED BY <1>3, <1>5, <2>1 DEF Timeout, LinkTimeout
  <1>6. CASE WriteEnds(Ctrl)
    <2> DEFINE r == [c EXCEPT !.uart_done = TRUE]
    <2>1. /\ Keep /\ Pending(c) /\ Become(Ctrl, r)
          /\ wire' = wire \/ wire' = [wire EXCEPT ![Ctrl] = Append(@, c.uart)]
      BY <1>6 DEF WriteEnds, Transmit, Lose, Pending
    <2>2. c.uart \in Frame
      BY <1>1, <2>1 DEF Pending, Endpoint
    <2>3. Append(v, c.uart) \in Seq(Frame)
      BY <1>1, <2>2
    <2>4. /\ wire' \in [Side -> Seq(Frame)] /\ wire'[Host] = w
          /\ wire'[Ctrl] = v \/ wire'[Ctrl] = Append(v, c.uart)
          /\ wire'[Ctrl] \in Seq(Frame)
      BY <1>1, <2>1, <2>3, HostAndCtrl
    <2>5. r \in Endpoint /\ SameButWrite(c, r) /\ r.uart_done
      BY <1>1, WriteOver
    <2> HIDE DEF r
    <2>6. Phase(h, r, wire'[Host], wire'[Ctrl], base, aborted, rebooted)
      <3> HIDE DEF h, c, w, v
      <3> QED BY <1>1, <2>1, <2>4, <2>5, PhaseCtrlDone
    <2> QED BY <2>1, <2>4, <2>5, <2>6, CtrlChanges DEF r
  <1>7. CASE Sent(Ctrl)
    <2>1. PICK sleepCall \in Reactions(Ctrl), sentCall \in Reactions(Ctrl) :
              Become(Ctrl, h5_frame_sent(Ctrl, c, sleepCall, sentCall))
      BY <1>7 DEF Sent, FrameSent
    <2> DEFINE r == h5_frame_sent(Ctrl, c, sleepCall, sentCall)
               q == Idle(c)
    <2>2. TypeMatches(c)
      <3> HIDE DEF h, c, w, v
      <3> QED BY <1>1, PhaseCtrlMatches
    <2>3. /\ q \in Endpoint /\ r \in Endpoint /\ Step(q, r)
      BY <1>1, <1>2, <2>2, FrameSentStep
    <2>4. SameButWrite(c, q) /\ q.uart = NoFrame
      BY <1>1, WriteOver
    <2>5. Keep /\ UNCHANGED wire
      BY <1>7 DEF Sent, FrameSent
    <2> HIDE DEF r, q
    <2>6. Phase(h, r, w, v, base, aborted, rebooted)
      <3> HIDE DEF h, c, w, v
      <3>1. Phase(h, q, w, v, base, aborted, rebooted)
        BY <1>1, <2>3, <2>4, PhaseCtrlDone
      <3> QED BY <1>1, <2>3, <3>1, PhaseCtrlStep
    <2> QED BY <1>1, <2>1, <2>3, <2>5, <2>6, CtrlChanges DEF r
  <1>8. CASE Received(Ctrl)
    <2>1. /\ Keep /\ w # << >> /\ wire' = [wire EXCEPT ![Host] = Tail(@)]
      BY <1>8, HostAndCtrl DEF Received, FrameReceived
    <2> DEFINE f == Head(w)
    <2>2. f \in Frame /\ Tail(w) \in Seq(Frame)
      BY <1>1, <2>1
    <2>3. PICK ackCall \in Reactions(Ctrl), rxCall \in Reactions(Ctrl) :
              Become(Ctrl, h5_process_frame(Ctrl, c, f, ackCall, rxCall))
      BY <1>8, HostAndCtrl DEF Received, FrameReceived
    <2> DEFINE r == h5_process_frame(Ctrl, c, f, ackCall, rxCall)
    <2> HIDE DEF f
    <2>4. /\ r \in Endpoint /\ \E q \in Endpoint : FrameEffect(c, f, q) /\ Step(q, r)
      BY <1>1, <1>2, <2>2, ProcessFrameEffect
    <2> HIDE DEF r
    <2>5. PICK q \in Endpoint : FrameEffect(c, f, q) /\ Step(q, r)
      BY <2>4
    <2>6. /\ wire' \in [Side -> Seq(Frame)] /\ wire'[Host] = Tail(w)
          /\ wire'[Ctrl] = v
      BY <1>1, <2>1, <2>2, HostAndCtrl
    <2>7. Phase(h, r, Tail(w), v, base, aborted, rebooted)
      <3> HIDE DEF h, c, w, v
      <3>1. Phase(h, q, Tail(w), v, base, aborted, rebooted)
        BY <1>1, <2>1, <2>5, PhaseCtrlTake DEF f
      <3> QED BY <1>1, <2>2, <2>4, <2>5, <3>1, PhaseCtrlStep
    <2> QED BY <2>1, <2>3, <2>4, <2>6, <2>7, CtrlChanges DEF r
  <1> QED BY <1>4, <1>5, <1>6, <1>7, <1>8

-----------------------------------------------------------------------------
(* The restarts.                                                           *)

\* With the stack off nothing but the link timer of the host is left.
LEMMA OffKeeps ==
    ASSUME RInv, ~open, LinkStep
    PROVE  RInv'
  <1> DEFINE h == ep[Host]
             r == link_timeout_handler(Host, h)
  <1>1. h \in Endpoint /\ Regular(h) /\ ConfigField[Host] \in ConfigFields
    BY Parts, HostAndCtrl, CallTypes
  <1>2. ~rebooted /\ Off(h, ep[Ctrl], wire[Host], wire[Ctrl], aborted)
    BY DEF RInv, RestartInv
  <1>3. ~ep[Ctrl].link_timer
    BY <1>2 DEF Off, Closed
  <1>4. Timeout(Host)
    BY <1>3, HostAndCtrl
    DEF LinkStep, Call, WriteEnds, Sent, Received, UartWorks, Timeout, LinkTimeout
  <1>5. Keep /\ h.link_timer /\ Become(Host, r) /\ UNCHANGED wire
    BY <1>4 DEF Timeout, LinkTimeout
  <1>6. r \in Endpoint /\ Step(h, r) /\ (Orderly(h) => Orderly(r) /\ r.link_timer)
    BY <1>1, <1>5, LinkTimeoutStep, LinkTimeoutTidied DEF Tidied, Neat
  <1>7. Regular(r)
    BY <1>1, <1>6, StepRegular
  <1> HIDE DEF r
  <1>8. ep' \in [Side -> Endpoint] /\ ep'[Host] = r /\ ep'[Ctrl] = ep[Ctrl]
    BY <1>5, <1>6, Parts, HostAndCtrl DEF Become
  <1>9. RestartTypeOK'
    BY <1>5, <1>8 DEF RInv, RestartTypeOK, TypeOK, Keep
  <1>10. Off(r, ep[Ctrl], wire[Host], wire[Ctrl], aborted)
    BY <1>2, <1>6 DEF Off
  <1>11. RestartInv'
    BY <1>2, <1>5, <1>8, <1>10 DEF RestartInv, Keep
  <1> QED BY <1>7, <1>8, <1>9, <1>11 DEF RInv

\* A controller that has taken a packet of the session: the host has written its
\* last SYNC_RESPONSE, and the wire holds none.
LEMMA PacketTaken ==
    ASSUME NEW h, NEW c \in Endpoint, NEW w, NEW v, NEW b, NEW k, NEW old,
           Session(h, c, w, v, b, k, old), c.received # << >>
    PROVE  /\ ~MayAnswerSync(h)
           /\ Pending(h) => ~IsAnswer(h.uart)
           /\ \A i \in 1..Len(w) : ~IsAnswer(w[i])
  <1> DEFINE d == CtrlView(c, b)
  <1>1. SameButPackets(c, d) /\ d.received = Counted(c.received, b) /\ LocalInv(d)
    BY CtrlViewFields DEF Session, Linked, Joint, PairInv
  <1>2. Len(d.received) = Len(c.received) /\ c.received \in Seq(Nat)
    BY <1>1 DEF Counted, Endpoint
  <1>3. c.accepted # 0
    <2>1. ASSUME c.accepted = 0 PROVE FALSE
      <3>1. d.received = [i \in 1..0 |-> i]
        BY <1>1, <2>1 DEF LocalInv, SameButPackets
      <3>2. Len(d.received) = 0
        BY <3>1
      <3>3. \A l \in Seq(Nat) : Len(l) = 0 => l = << >>
        OBVIOUS
      <3> QED BY <1>2, <3>2, <3>3
    <2> QED BY <2>1
  <1>4. \A j : ~NoPacketYet(c, w, k, j)
    BY <1>3 DEF NoPacketYet
  <1> QED BY <1>4 DEF Session, Linked, AnswersFirst

\* The controller reboots.
LEMMA WarmBootKeeps ==
    ASSUME RInv, WarmBoot
    PROVE  RInv'
  <1> DEFINE h == ep[Host]
             c == ep[Ctrl]
             w == wire[Host]
             v == wire[Ctrl]
  <1>1. /\ h \in Endpoint /\ c \in Endpoint /\ w \in Seq(Frame)
        /\ wire \in [Side -> Seq(Frame)] /\ Regular(h)
        /\ Phase(h, c, w, v, base, aborted, rebooted)
    BY Parts DEF RInv, RestartInv, WarmBoot
  <1>2. PICK k \in 0..Len(w), old \in BOOLEAN : Session(h, c, w, v, base, k, old)
    BY <1>1 DEF WarmBoot, Phase, Silent
  <1>3. ~aborted
    BY <1>1 DEF WarmBoot, Phase, Silent
  <1>4. /\ ~MayAnswerSync(h) /\ (Pending(h) => ~IsAnswer(h.uart))
        /\ \A i \in 1..Len(w) : ~IsAnswer(w[i])
    <2> HIDE DEF h, w
    <2> QED BY <1>1, <1>2, PacketTaken DEF WarmBoot
  <1>5. /\ Booted \in Endpoint /\ Booted.link_state = "UNINITIALIZED"
        /\ Joint(Opened, Booted, w, << >>, base, Len(w))
    BY <1>1, <1>4, BootedFits
  <1>6. Rebooting(h, Booted, w, << >>, base)
    BY <1>2, <1>4, <1>5 DEF Rebooting, Session
  <1>7. /\ ep' \in [Side -> Endpoint] /\ ep'[Host] = h /\ ep'[Ctrl] = Booted
    BY <1>5, Parts, HostAndCtrl DEF WarmBoot
  <1>8. /\ wire' \in [Side -> Seq(Frame)] /\ wire'[Host] = w /\ wire'[Ctrl] = << >>
    BY <1>1, HostAndCtrl DEF WarmBoot
  <1>9. RestartTypeOK'
    BY <1>7, <1>8, MaxRestartAssumption DEF RInv, RestartTypeOK, TypeOK, WarmBoot
  <1>10. RestartInv'
    <2>1. Phase(h, Booted, w, << >>, base, aborted, TRUE)
      BY <1>3, <1>6 DEF Phase
    <2> QED BY <1>7, <1>8, <2>1 DEF RestartInv, WarmBoot
  <1> QED BY <1>1, <1>7, <1>9, <1>10 DEF RInv

\* reset_link starts a new session.
LEMMA ResetLinkKeeps ==
    ASSUME RInv, ResetLink
    PROVE  RInv'
  <1> DEFINE h == ep[Host]
             c == ep[Ctrl]
             w == wire[Host]
             v == wire[Ctrl]
             e == link_clear_queue(h)
             x == Forget(link_init(Host, e))
  <1>1. /\ h \in Endpoint /\ c \in Endpoint /\ w \in Seq(Frame) /\ v \in Seq(Frame)
        /\ wire \in [Side -> Seq(Frame)] /\ Regular(h) /\ base \in Nat
        /\ Phase(h, c, w, v, base, aborted, rebooted)
    BY Parts DEF RInv, RestartInv, ResetLink
  <1>2. ~aborted /\ Rebooting(h, c, w, v, base)
    BY <1>1 DEF ResetLink, Phase
  <1>3. /\ e \in Endpoint /\ e.packet = "none" /\ ~e.link_timer
        /\ e.actions = h.actions /\ e.fault = h.fault
        /\ e.submitted = h.submitted /\ e.uart = h.uart
        /\ e.uart_done = h.uart_done
    BY <1>1 DEF link_clear_queue, Endpoint
  <1> HIDE DEF e
  <1>4. e.actions \cap Sendable = {} /\ e.fault # "timer_registered"
    BY <1>2, <1>3 DEF ResetLink, Rebooting, Orderly
  <1>5. Started(e, x)
    BY <1>3, <1>4, HostAndCtrl, InitStarts
  <1> HIDE DEF x
  <1>6. Session(x, c, w, v, e.submitted, Len(w), Pending(e))
    <2>1. Pending(e) => ~IsAnswer(e.uart)
      BY <1>2, <1>3 DEF Rebooting, Pending
    <2> HIDE DEF c, w, v
    <2> QED BY <1>1, <1>2, <1>3, <1>5, <2>1, SessionStarts DEF Rebooting
  <1>7. Phase(x, c, w, v, h.submitted, aborted, FALSE)
    <2>1. Len(w) \in 0..Len(w) /\ Pending(e) \in BOOLEAN
      BY <1>1 DEF Pending
    <2> QED BY <1>2, <1>3, <1>6, <2>1 DEF Phase
  <1>8. x \in Endpoint /\ Regular(x)
    BY <1>1, <1>3, <1>5 DEF Started, Regular, TypeMatches
  <1>9. /\ ep' \in [Side -> Endpoint] /\ ep'[Host] = x /\ ep'[Ctrl] = c
    <2>1. ep' = [ep EXCEPT ![Host] = x]
      BY DEF ResetLink, h5_reset_link, x, e, Forget
    <2> QED BY <1>8, <2>1, Parts, HostAndCtrl
  <1>10. RestartTypeOK'
    <2>1. base' \in 0..MaxSend
      BY Parts DEF ResetLink
    <2> QED BY <1>9, <2>1 DEF RInv, RestartTypeOK, TypeOK, ResetLink
  <1>11. RestartInv'
    BY <1>7, <1>9 DEF RestartInv, ResetLink
  <1> QED BY <1>8, <1>9, <1>10, <1>11 DEF RInv

\* The stack is turned off.
LEMMA PowerOffKeeps ==
    ASSUME RInv, PowerOff
    PROVE  RInv'
  <1> DEFINE h == ep[Host]
             c == ep[Ctrl]
             w == wire[Host]
             v == wire[Ctrl]
  <1>1. /\ Regular(h) /\ Phase(h, c, w, v, base, aborted, rebooted)
    BY Parts DEF RInv, RestartInv, PowerOff
  <1>2. Off(h, Closed, << >>, << >>, aborted')
    <2>1. CASE aborted'
      BY <2>1 DEF Off
    <2>2. CASE ~aborted'
      <3>1. ~aborted /\ h.uart = NoFrame /\ ~Faulted(h) /\ ~rebooted
        BY <2>2 DEF PowerOff, Running
      <3>2. PICK k \in 0..Len(w), old \in BOOLEAN :
                Session(h, c, w, v, base, k, old)
        BY <1>1, <3>1 DEF Phase, Silent
      <3>3. Orderly(h) /\ h.actions \cap Sendable = {}
        BY <3>1, <3>2 DEF Session, Settled
      <3> QED BY <3>1, <3>3 DEF Off
    <2> QED BY <2>1, <2>2
  <1>3. Closed \in Endpoint /\ << >> \in Seq(Frame)
    <2>1. 0 \in 0..SeqModulus - 1 /\ << >> \in Seq(Nat)
      BY SeqModulusAssumption
    <2> QED BY <2>1 DEF Closed, Endpoint, LinkStates
  <1>4. /\ ep' \in [Side -> Endpoint] /\ ep'[Host] = h /\ ep'[Ctrl] = Closed
    BY <1>3, Parts, HostAndCtrl DEF PowerOff
  <1>5. /\ wire' \in [Side -> Seq(Frame)]
        /\ wire'[Host] = << >> /\ wire'[Ctrl] = << >>
    BY <1>3, HostAndCtrl DEF PowerOff
  <1>6. RestartTypeOK'
    <2>1. aborted' \in BOOLEAN /\ open' \in BOOLEAN
      BY DEF PowerOff
    <2>2. /\ rebooted' \in BOOLEAN /\ base' \in 0..MaxSend
          /\ restarts' \in 0..MaxRestart
      BY MaxRestartAssumption DEF RInv, RestartTypeOK, PowerOff
    <2> QED BY <1>4, <1>5, <2>1, <2>2 DEF RestartTypeOK, TypeOK
  <1>7. RestartInv'
    BY <1>2, <1>4, <1>5 DEF RestartInv, PowerOff
  <1> QED BY <1>1, <1>4, <1>6, <1>7 DEF RInv

\* The stack is turned on: a new session, or a host that is silent.
LEMMA PowerOnKeeps ==
    ASSUME RInv, PowerOn
    PROVE  RInv'
  <1> DEFINE h == ep[Host]
             n == << >>
             r == link_init(Host, h)
             x == Forget(r)
  <1>1. /\ h \in Endpoint /\ Regular(h) /\ base \in Nat
        /\ ~rebooted /\ Off(h, ep[Ctrl], wire[Host], wire[Ctrl], aborted)
    BY Parts DEF RInv, RestartInv, PowerOn
  <1>2. n \in Seq(Frame) /\ wire[Host] = n /\ wire[Ctrl] = n /\ Len(n) = 0
    BY <1>1 DEF Off
  <1>3. /\ Booted \in Endpoint /\ Booted.link_state = "UNINITIALIZED"
        /\ Booted.packet = "none" /\ Booted.submitted = 0
        /\ Booted.received = << >> /\ Joint(Opened, Booted, n, n, base, Len(n))
    <2>1. \A i \in 1..Len(n) : ~IsAnswer(n[i])
      BY <1>2
    <2> HIDE DEF n
    <2>2. Joint(Opened, Booted, n, << >>, base, Len(n))
      BY <1>2, <2>1, BootedFits
    <2> QED BY <1>2, <2>1, <2>2, BootedFits DEF n
  <1>4. /\ r \in Endpoint /\ r.submitted = h.submitted
        /\ TypeMatches(h) => TypeMatches(r)
    <2> DEFINE t == BeforeRun(h)
    <2>1. /\ t \in Endpoint /\ t.link_state = "UNINITIALIZED"
          /\ t.packet = h.packet /\ t.submitted = h.submitted
          /\ t.packet_type = h.packet_type
      BY <1>1, BeforeRunFields
    <2>2. r = link_run(Host, t)
      BY <1>1, HostAndCtrl, InitSends
    <2> HIDE DEF t
    <2>3. r \in Endpoint /\ Step(t, r)
      BY <2>1, <2>2, HostAndCtrl, CallTypes, RunStep
    <2>4. TypeMatches(h) => TypeMatches(t)
      BY <2>1 DEF TypeMatches
    <2> HIDE DEF r
    <2> QED BY <2>1, <2>3, <2>4 DEF Step
  <1> HIDE DEF r
  <1>5. /\ x \in Endpoint /\ Regular(x) /\ x.fault = r.fault
    <2>1. n \in Seq(Nat)
      OBVIOUS
    <2>2. /\ x \in Endpoint /\ x.fault = r.fault /\ x.submitted = r.submitted
          /\ x.packet = r.packet /\ x.packet_type = r.packet_type
      BY <1>4, <2>1 DEF Forget, Endpoint
    <2> HIDE DEF x
    <2> QED BY <1>1, <1>4, <2>2 DEF Regular, TypeMatches
  <1>6. Phase(x, Booted, n, n, h.submitted, aborted, FALSE)
    <2>1. CASE aborted \/ h.link_timer
      <3>1. h.link_timer => Faulted(x)
        BY <1>1, <1>5, HostAndCtrl, InitFaults DEF Faulted, r
      <3>2. Silent(x, Booted, n, aborted)
        BY <1>3, <2>1, <3>1 DEF Silent
      <3> QED BY <3>2 DEF Phase
    <2>2. CASE ~aborted /\ ~h.link_timer
      <3>1. /\ Orderly(h) /\ h.uart = NoFrame /\ h.actions \cap Sendable = {}
        BY <1>1, <2>2 DEF Off
      <3>2. h.packet = "none" /\ h.fault # "timer_registered"
        BY <2>2, <3>1 DEF Orderly
      <3>3. Started(h, x)
        BY <1>1, <2>2, <3>1, <3>2, HostAndCtrl, InitStarts DEF r
      <3>4. Pending(h) = FALSE
        BY <3>1 DEF Pending
      <3> HIDE DEF n, x, h
      <3>5. Session(x, Booted, n, n, h.submitted, Len(n), FALSE)
        BY <1>1, <1>2, <1>3, <3>3, <3>4, SessionStarts
      <3>6. Len(n) \in 0..Len(n)
        BY <1>2
      <3> QED BY <2>2, <3>5, <3>6 DEF Phase
    <2> QED BY <2>1, <2>2
  <1>7. /\ ep' \in [Side -> Endpoint] /\ ep'[Host] = x /\ ep'[Ctrl] = Booted
    <2>1. ep' = [s \in Side |-> IF s = Ctrl THEN Booted ELSE x]
      BY DEF PowerOn, x, r, Forget
    <2> HIDE DEF x
    <2> QED BY <1>3, <1>5, <2>1, HostAndCtrl
  <1>8. RestartTypeOK'
    <2>1. base' \in 0..MaxSend
      BY Parts DEF PowerOn
    <2> QED BY <1>7, <2>1 DEF RInv, RestartTypeOK, TypeOK, PowerOn
  <1> HIDE DEF x
  <1>9. RestartInv'
    <2> HIDE DEF n, h
    <2>1. /\ open' /\ wire' = wire /\ aborted' = aborted /\ ~rebooted'
          /\ base' = h.submitted
      BY <1>1 DEF PowerOn, h
    <2>2. Phase(ep'[Host], ep'[Ctrl], wire'[Host], wire'[Ctrl], base', aborted',
                rebooted')
      <3>1. rebooted' = FALSE
        BY <1>1 DEF PowerOn, RInv, RestartTypeOK
      <3> QED BY <1>2, <1>6, <1>7, <2>1, <3>1
    <2> QED BY <2>1, <2>2 DEF RestartInv
  <1> QED BY <1>5, <1>7, <1>8, <1>9 DEF RInv

-----------------------------------------------------------------------------
(* The theorems.                                                           *)

\* The first session starts like every other.
LEMMA InitRInv == RestartInit => RInv
  <1> SUFFICES ASSUME RestartInit PROVE RInv
    OBVIOUS
  <1> DEFINE e == Closed
             n == << >>
             r == link_init(Host, e)
             x == Forget(r)
  <1>1. /\ e \in Endpoint /\ n \in Seq(Frame) /\ n \in Seq(Nat) /\ Len(n) = 0
    <2>1. 0 \in 0..SeqModulus - 1 /\ << >> \in Seq(Nat)
      BY SeqModulusAssumption
    <2> QED BY <2>1 DEF Closed, Endpoint, LinkStates
  <1>2. /\ e.packet = "none" /\ ~e.link_timer /\ e.fault = "none"
        /\ e.actions \cap Sendable = {} /\ e.submitted = 0 /\ e.uart = NoFrame
    BY DEF Closed
  <1> HIDE DEF e
  <1>3. Started(e, x)
    BY <1>1, <1>2, HostAndCtrl, InitStarts
  <1>4. /\ r \in Endpoint /\ r.accepted = 0 /\ r.received = n
    <2>1. r \in Endpoint /\ Step(Opened, r)
      BY HostAndCtrl, InitStep DEF e
    <2> HIDE DEF r
    <2> QED BY <2>1, OpenedType DEF Step
  <1> HIDE DEF r, n
  <1>5. x = r
    BY <1>4 DEF Forget, Endpoint, n
  <1>6. /\ Booted \in Endpoint /\ Booted.link_state = "UNINITIALIZED"
        /\ Joint(Opened, Booted, n, n, 0, Len(n))
    <2>1. \A i \in 1..Len(n) : ~IsAnswer(n[i])
      BY <1>1
    <2>2. Joint(Opened, Booted, n, << >>, 0, Len(n))
      BY <1>1, <2>1, BootedFits
    <2> QED BY <1>1, <2>1, <2>2, BootedFits DEF n
  <1>7. Session(x, Booted, n, n, 0, Len(n), FALSE)
    <2>1. Pending(e) = FALSE
      BY <1>2 DEF Pending
    <2> HIDE DEF x
    <2> QED BY <1>1, <1>2, <1>3, <1>6, <2>1, SessionStarts
  <1>8. Phase(x, Booted, n, n, 0, FALSE, FALSE)
    <2>1. Len(n) \in 0..Len(n)
      BY <1>1
    <2> QED BY <1>7, <2>1 DEF Phase
  <1>9. Regular(x)
    BY <1>2, <1>3, MaxSendAssumption DEF Started, Regular, TypeMatches
  <1>10. /\ ep \in [Side -> Endpoint] /\ ep[Host] = x /\ ep[Ctrl] = Booted
    <2>1. ep = [s \in Side |-> link_init(s, e)]
      BY DEF RestartInit, Init, e
    <2>2. \A s \in Side : link_init(s, e) \in Endpoint
      BY InitStep DEF e
    <2>3. ep[Host] = r /\ ep[Ctrl] = Booted
      BY <2>1, HostAndCtrl DEF r, Booted, e
    <2> QED BY <1>5, <2>1, <2>2, <2>3
  <1>11. wire \in [Side -> Seq(Frame)] /\ wire[Host] = n /\ wire[Ctrl] = n
    BY <1>1, HostAndCtrl DEF RestartInit, Init, n
  <1>12. RestartTypeOK
    <2>1. base \in 0..MaxSend /\ restarts \in 0..MaxRestart
      BY MaxSendAssumption, MaxRestartAssumption DEF RestartInit
    <2>2. open \in BOOLEAN /\ aborted \in BOOLEAN /\ rebooted \in BOOLEAN
      BY DEF RestartInit
    <2> QED BY <1>10, <1>11, <2>1, <2>2 DEF RestartTypeOK, TypeOK
  <1>13. RestartInv
    BY <1>8, <1>10, <1>11 DEF RestartInv, RestartInit
  <1> QED BY <1>9, <1>10, <1>12, <1>13 DEF RInv

\* Every step keeps the invariant.
LEMMA NextRInv == RInv /\ [RestartNext]_restartVars => RInv'
  <1> SUFFICES ASSUME RInv, [RestartNext]_restartVars PROVE RInv'
    OBVIOUS
  <1>1. CASE UNCHANGED restartVars
    BY <1>1 DEF restartVars, RInv, RestartTypeOK, TypeOK, RestartInv
  <1>2. CASE WarmBoot \/ ResetLink \/ PowerOff \/ PowerOn
    BY <1>2, WarmBootKeeps, ResetLinkKeeps, PowerOffKeeps, PowerOnKeeps
  <1>3. CASE LinkStep /\ ~open
    BY <1>3, OffKeeps
  <1>4. CASE LinkStep /\ open
    <2>1. PICK s \in Side :
              Call(s) \/ WriteEnds(s) \/ Sent(s) \/ Received(s) \/ Timeout(s)
      BY <1>4 DEF LinkStep
    <2>2. s = Host \/ s = Ctrl
      BY HostAndCtrl
    <2> QED BY <1>4, <2>1, <2>2, HostKeeps, CtrlKeeps
  <1> QED BY <1>1, <1>2, <1>3, <1>4 DEF RestartNext

\* Whatever the restarts, the link is in one of the phases in every state.
THEOREM RestartInvariant == RestartSpec => []RInv
  BY InitRInv, NextRInv, PTL DEF RestartSpec

\* The endpoints, the wire and the bookkeeping of the restarts keep their types.
THEOREM RestartTypeCorrect == RestartSpec => []RestartTypeOK
  <1>1. RInv => RestartTypeOK
    BY DEF RInv
  <1> QED BY <1>1, RestartInvariant, PTL

\* What the invariant says of the ends of a session.
LEMMA SessionEnds ==
    ASSUME NEW h \in Endpoint, NEW c \in Endpoint, NEW w, NEW v, NEW b \in Nat,
           NEW k, NEW old, Session(h, c, w, v, b, k, old)
    PROVE  /\ \A i \in 1..Len(c.received) : c.received[i] = b + i
           /\ Confirmed(c) <= Len(h.received)
  <1> DEFINE x == HostView(h, b, old)
             d == CtrlView(c, b)
             g == Fresh(w, k, b)
  <1>1. /\ x \in Endpoint /\ d \in Endpoint /\ b <= h.submitted
        /\ LocalInv(x) /\ LocalInv(d) /\ DirectionInv(d, x, v)
    BY DEF Session, Linked, Joint, PairInv
  <1>2. InSession(h, b, x)
    BY <1>1, HostViewFields
  <1>3. SameButPackets(c, d) /\ d.received = Counted(c.received, b)
    BY CtrlViewFields
  <1> HIDE DEF x, d
  <1>4. /\ Len(x.received) = x.accepted /\ Len(d.received) = d.accepted
    BY <1>1, ReceivedLength
  <1>5. /\ c.received \in Seq(Nat) /\ Len(d.received) = Len(c.received)
        /\ \A i \in 1..Len(c.received) : d.received[i] = c.received[i] - b
    BY <1>3 DEF Endpoint, Counted
  <1>6. ASSUME NEW i \in 1..Len(c.received)
        PROVE  c.received[i] = b + i
    <2>1. d.received[i] = i
      BY <1>1, <1>4, <1>5 DEF LocalInv
    <2>2. c.received[i] \in Nat /\ i \in Nat
      BY <1>5
    <2>3. c.received[i] - b = i
      BY <1>5, <2>1
    <2>4. \A j, l \in Nat : j - b = l => j = b + l
      OBVIOUS
    <2> QED BY <2>2, <2>3, <2>4
  <1>7. Confirmed(d) = Confirmed(c)
    BY <1>3 DEF Confirmed, SameButPackets
  <1>8. Confirmed(d) <= x.accepted
    <2>1. Confirmed(d) \in Nat /\ d.submitted \in Nat /\ x.accepted \in Nat
      BY <1>1, ConfirmedType
    <2> QED BY <1>1, <2>1 DEF DirectionInv
  <1> QED BY <1>2, <1>4, <1>6, <1>7, <1>8 DEF InSession

\* No packet the host handed over before reset_link or a power cycle reaches the
\* upper layer of the restarted controller, for any number of restarts: reset_link
\* clears the queue, and what is still on the wire is not looked at.
THEOREM RestartLosesStalePackets == RestartSpec => []NoStalePacket
  <1>1. RInv => NoStalePacket
    <2> SUFFICES ASSUME RInv, ~rebooted
                 PROVE  \A i \in 1..Len(ep[Ctrl].received) :
                            ep[Ctrl].received[i] = base + i
      BY DEF NoStalePacket
    <2>1. ep[Host] \in Endpoint /\ ep[Ctrl] \in Endpoint /\ base \in Nat
      BY Parts
    <2>2. CASE ep[Ctrl].received = << >>
      BY <2>2
    <2>3. CASE \E k, old : Session(ep[Host], ep[Ctrl], wire[Host], wire[Ctrl],
                                   base, k, old)
      BY <2>1, <2>3, SessionEnds
    <2>4. Closed.received = << >>
      BY DEF Closed
    <2> QED BY <2>2, <2>3, <2>4 DEF RInv, RestartInv, Phase, Off, Silent
  <1> QED BY <1>1, RestartInvariant, PTL

\* No acknowledgement of an old session confirms a packet of the restarted
\* controller: LinkActivated resets the sequence numbers, and every
\* acknowledgement the host writes before that is lost on the controller.
THEOREM RestartLosesStaleAcks == RestartSpec => []NoStaleAck
  <1>1. RInv => NoStaleAck
    <2> SUFFICES ASSUME RInv, ~rebooted
                 PROVE  Confirmed(ep[Ctrl]) <= Len(ep[Host].received)
      BY DEF NoStaleAck
    <2>1. ep[Host] \in Endpoint /\ ep[Ctrl] \in Endpoint /\ base \in Nat
      BY Parts
    <2>2. CASE ep[Ctrl].submitted = 0 /\ ep[Ctrl].packet = "none"
      <3>1. Confirmed(ep[Ctrl]) = 0
        BY <2>2 DEF Confirmed
      <3>2. ep[Host].received \in Seq(Nat)
        BY <2>1 DEF Endpoint
      <3> QED BY <3>1, <3>2
    <2>3. CASE \E k, old : Session(ep[Host], ep[Ctrl], wire[Host], wire[Ctrl],
                                   base, k, old)
      BY <2>1, <2>3, SessionEnds
    <2>4. Closed.submitted = 0 /\ Closed.packet = "none"
      BY DEF Closed
    <2> QED BY <2>2, <2>3, <2>4 DEF RInv, RestartInv, Phase, Off, Silent
  <1> QED BY <1>1, RestartInvariant, PTL

=============================================================================
