---------------------------- MODULE H5LinkProofs ----------------------------
(***************************************************************************)
(* H5Link delivers in order and exactly once, for every sequence number    *)
(* modulus of at least two, every number of packets and every length of    *)
(* the wire.  The argument: WindowInv holds initially; it survives a Step  *)
(* of one endpoint (H5EndpointProofs), the end of a write, a frame put on  *)
(* the wire or lost, and the effect of a received frame; every action is a *)
(* chain of these.                                                         *)
(***************************************************************************)
EXTENDS H5Link, H5EndpointProofs

\* The remainder of a natural number by the modulus, spelled out for the prover.
LEMMA Remainder ==
    ASSUME NEW k \in Nat
    PROVE  \E q \in Nat : /\ k % SeqModulus \in 0..SeqModulus - 1
                          /\ k = SeqModulus * q + (k % SeqModulus)
  <1>1. k \div SeqModulus \in Nat
    BY SeqModulusAssumption
  <1>2. k = SeqModulus * (k \div SeqModulus) + (k % SeqModulus)
    BY SeqModulusAssumption
  <1>3. k % SeqModulus \in 0..SeqModulus - 1
    BY SeqModulusAssumption
  <1> QED BY <1>1, <1>2, <1>3

\* Adding a multiple of the modulus does not change a remainder.
LEMMA RemainderUnique ==
    ASSUME NEW q \in Nat, NEW r \in 0..SeqModulus - 1
    PROVE  (SeqModulus * q + r) % SeqModulus = r
  BY SeqModulusAssumption

\* link_inc_seq_nr follows the count it stands for.
LEMMA IncFollowsCount ==
    ASSUME NEW k \in Nat
    PROVE  link_inc_seq_nr(k % SeqModulus) = (k + 1) % SeqModulus
  <1> DEFINE m == SeqModulus
             r == k % m
  <1>1. PICK q \in Nat : r \in 0..m - 1 /\ k = m * q + r
    BY Remainder
  <1> HIDE DEF r
  <1>2. CASE r + 1 < m
    <2>1. r + 1 \in 0..m - 1 /\ k + 1 = m * q + (r + 1)
      BY <1>1, <1>2, SeqModulusAssumption
    <2>2. (r + 1) % m = r + 1
      BY <1>1, <1>2, SeqModulusAssumption
    <2>3. (k + 1) % m = r + 1
      BY <2>1, RemainderUnique
    <2> QED BY <2>2, <2>3 DEF link_inc_seq_nr, r
  <1>3. CASE r + 1 = m
    <2>1. 0 \in 0..m - 1 /\ q + 1 \in Nat /\ k + 1 = m * (q + 1) + 0
      BY <1>1, <1>3, SeqModulusAssumption
    <2>2. (r + 1) % m = 0
      BY <1>3, SeqModulusAssumption
    <2>3. (k + 1) % m = 0
      BY <2>1, RemainderUnique
    <2> QED BY <2>2, <2>3 DEF link_inc_seq_nr, r
  <1> QED BY <1>1, <1>2, <1>3, SeqModulusAssumption

\* Two neighbouring counts have different sequence numbers.
LEMMA NeighboursDiffer ==
    ASSUME NEW k \in Nat
    PROVE  k % SeqModulus # (k + 1) % SeqModulus
  <1> DEFINE r == k % SeqModulus
  <1>1. r \in 0..SeqModulus - 1
    BY SeqModulusAssumption
  <1>2. (k + 1) % SeqModulus = (r + 1) % SeqModulus
    BY IncFollowsCount DEF link_inc_seq_nr
  <1> HIDE DEF r
  <1>3. CASE r + 1 < SeqModulus
    <2>1. (r + 1) % SeqModulus = r + 1
      BY <1>1, <1>3, SeqModulusAssumption
    <2> QED BY <1>1, <1>2, <2>1 DEF r
  <1>4. CASE r + 1 = SeqModulus
    <2>1. (r + 1) % SeqModulus = 0 /\ r # 0
      BY <1>1, <1>4, SeqModulusAssumption
    <2> QED BY <1>2, <2>1 DEF r
  <1> QED BY <1>1, <1>3, <1>4, SeqModulusAssumption

-----------------------------------------------------------------------------
(* Two endpoints e and p, with w on the wire from e to p and v the other way. *)

PairInv(e, p, w, v) ==
    /\ LocalInv(e) /\ LocalInv(p)
    /\ DirectionInv(e, p, w) /\ DirectionInv(p, e, v)

\* The number of confirmed packets is a natural number.
LEMMA ConfirmedType ==
    ASSUME NEW e \in Endpoint, LocalInv(e)
    PROVE  /\ Confirmed(e) \in Nat
           /\ e.submitted \in Nat /\ e.accepted \in Nat
           /\ e.submitted = Confirmed(e) + (IF e.packet = "DATA" THEN 1 ELSE 0)
  <1>1. e.submitted \in Nat /\ e.accepted \in Nat
    BY DEF Endpoint
  <1> QED BY <1>1 DEF LocalInv, Confirmed

\* A frame that fits both ends still fits when its sender hands over a packet or
\* takes one.
LEMMA InFlightGrows ==
    ASSUME NEW e, NEW q, NEW p, NEW f \in Frame,
           e.submitted \in Nat, q.submitted \in Nat, Confirmed(p) \in Int,
           e.accepted \in Nat, q.accepted \in Nat,
           e.submitted <= q.submitted, e.accepted <= q.accepted,
           InFlight(e, p, f)
    PROVE  InFlight(q, p, f)
  BY DEF InFlight, Frame

\* Taking a packet from the upper layer, starting a write and all other effects
\* of send_packet, set_baudrate and link_run keep the window invariant.
LEMMA StepKeepsWindow ==
    ASSUME NEW e \in Endpoint, NEW q \in Endpoint, NEW p \in Endpoint,
           NEW w \in Seq(Frame), NEW v \in Seq(Frame),
           PairInv(e, p, w, v), Step(e, q)
    PROVE  PairInv(q, p, w, v)
  <1>1. /\ Confirmed(e) \in Nat /\ e.submitted \in Nat /\ e.accepted \in Nat
        /\ e.submitted = Confirmed(e) + (IF e.packet = "DATA" THEN 1 ELSE 0)
        /\ Confirmed(p) \in Nat /\ p.submitted \in Nat /\ p.accepted \in Nat
    BY ConfirmedType DEF PairInv
  <1>2. /\ q.link_state = e.link_state /\ q.seq_nr = e.seq_nr
        /\ q.ack_nr = e.ack_nr /\ q.accepted = e.accepted
        /\ q.received = e.received
        /\ e.link_state # "ACTIVE" /\ e.packet = "none" => q.packet = "none"
        /\ TypeMatches(e) => TypeMatches(q)
    BY DEF Step
  <1>3. /\ q.submitted \in Nat /\ e.submitted <= q.submitted
        /\ Confirmed(q) = Confirmed(e)
        /\ q.submitted = Confirmed(q) + (IF q.packet = "DATA" THEN 1 ELSE 0)
    BY <1>1 DEF Step, Confirmed
  <1>4. LocalInv(q)
    <2>1. q.packet = "DATA" => q.submitted >= 1
      BY <1>1, <1>3
    <2>2. q.link_state # "ACTIVE" => q.packet = "none" /\ q.submitted = 0
                                     /\ q.accepted = 0
      BY <1>2 DEF Step, PairInv, LocalInv
    <2> QED BY <1>2, <1>3, <2>1, <2>2 DEF PairInv, LocalInv, TypeMatches
  <1>5. DirectionInv(p, q, v)
    BY <1>2, <1>3 DEF PairInv, DirectionInv, InFlight
  <1>6. DirectionInv(q, p, w)
    <2>1. p.accepted \in Confirmed(q)..q.submitted
      BY <1>1, <1>3 DEF PairInv, DirectionInv
    <2>2. \A i \in 1..Len(w) : InFlight(q, p, w[i])
      <3>1. ASSUME NEW i \in 1..Len(w)
            PROVE  w[i] \in Frame /\ InFlight(e, p, w[i])
        BY DEF PairInv, DirectionInv
      <3> QED BY <1>1, <1>2, <1>3, <3>1, InFlightGrows
    <2>3. \A i, j \in 1..Len(w) : i < j => Before(w[i], w[j])
      BY DEF PairInv, DirectionInv
    <2>4. ASSUME q.uart # NoFrame, ~q.uart_done
          PROVE  /\ InFlight(q, p, q.uart)
                 /\ \A i \in 1..Len(w) : Before(w[i], q.uart)
      <3>1. CASE q.uart = e.uart /\ q.uart_done = e.uart_done
        <4>1. /\ q.uart \in Frame /\ InFlight(e, p, q.uart)
              /\ \A i \in 1..Len(w) : Before(w[i], q.uart)
          BY <2>4, <3>1 DEF PairInv, DirectionInv, Endpoint
        <4> QED BY <1>1, <1>2, <1>3, <4>1, InFlightGrows
      <3>2. CASE FrameFrom(q, q.uart)
        <4> DEFINE f == q.uart
        <4>1. Confirmed(p) <= e.accepted
          BY <1>1 DEF PairInv, DirectionInv
        <4>2. InFlight(q, p, f)
          <5>1. q.seq_nr = Confirmed(q) % SeqModulus
                /\ q.ack_nr = q.accepted % SeqModulus
            BY <1>4 DEF LocalInv
          <5>2. ASSUME f.type = "DATA"
                PROVE  /\ f.n \in {p.accepted, p.accepted + 1}
                       /\ f.n \in 1..q.submitted
                       /\ f.seq = (f.n - 1) % SeqModulus
            <6>1. /\ f.n = q.submitted /\ f.seq = q.seq_nr
                  /\ f.n = Confirmed(q) + 1 /\ Confirmed(q) \in Nat
              BY <1>1, <1>3, <3>2, <5>2 DEF FrameFrom
            <6>2. f.n - 1 = Confirmed(q)
              BY <6>1
            <6>3. f.n \in {p.accepted, p.accepted + 1} /\ f.n \in 1..q.submitted
              BY <1>1, <1>3, <2>1, <6>1
            <6> QED BY <5>1, <6>1, <6>2, <6>3
          <5>3. ASSUME f.type \in {"DATA", "ACK"}
                PROVE  /\ f.upto \in Confirmed(p)..q.accepted
                       /\ f.ack = f.upto % SeqModulus
            BY <1>1, <1>2, <3>2, <4>1, <5>1, <5>3 DEF FrameFrom
          <5> QED BY <5>2, <5>3 DEF InFlight
        <4>3. ASSUME NEW i \in 1..Len(w)
              PROVE  Before(w[i], f)
          <5>1. InFlight(q, p, w[i])
            BY <2>2
          <5> QED BY <1>1, <1>2, <1>3, <3>2, <5>1
                  DEF Before, InFlight, FrameFrom
        <4> QED BY <4>2, <4>3
      <3> QED BY <3>1, <3>2 DEF Step
    <2> QED BY <2>1, <2>2, <2>3, <2>4 DEF DirectionInv
  <1> QED BY <1>4, <1>5, <1>6 DEF PairInv

\* The end of a write, in place or behind the last byte of the frame, leaves
\* less to be said about the write and everything else as it is.
LEMMA WriteEndsKeepsWindow ==
    ASSUME NEW e \in Endpoint, NEW q \in Endpoint, NEW p \in Endpoint,
           NEW w \in Seq(Frame), NEW v \in Seq(Frame),
           PairInv(e, p, w, v),
           q.link_state = e.link_state, q.seq_nr = e.seq_nr,
           q.ack_nr = e.ack_nr, q.packet = e.packet,
           q.packet_type = e.packet_type, q.submitted = e.submitted,
           q.accepted = e.accepted, q.received = e.received,
           q.uart = NoFrame \/ q.uart_done
    PROVE  PairInv(q, p, w, v)
  <1>1. Confirmed(q) = Confirmed(e)
    BY DEF Confirmed
  <1>2. LocalInv(q)
    BY <1>1 DEF PairInv, LocalInv
  <1>3. DirectionInv(p, q, v)
    BY <1>1 DEF PairInv, DirectionInv, InFlight
  <1>4. DirectionInv(q, p, w)
    BY <1>1 DEF PairInv, DirectionInv, InFlight
  <1> QED BY <1>2, <1>3, <1>4 DEF PairInv

\* The frame being written fits both ends and comes after all frames on the
\* wire, so it may join them.
LEMMA TransmitKeepsWindow ==
    ASSUME NEW e \in Endpoint, NEW p \in Endpoint,
           NEW w \in Seq(Frame), NEW v \in Seq(Frame),
           PairInv(e, p, w, v), e.uart # NoFrame, ~e.uart_done
    PROVE  PairInv(e, p, Append(w, e.uart), v)
  <1> DEFINE f == e.uart
             x == Append(w, f)
  <1>1. f \in Frame
    BY DEF Endpoint
  <1>2. InFlight(e, p, f) /\ \A i \in 1..Len(w) : Before(w[i], f)
    BY DEF PairInv, DirectionInv
  <1>3. Before(f, f)
    BY <1>1 DEF Before, Frame
  <1> HIDE DEF f
  <1>4. /\ Len(x) = Len(w) + 1 /\ x[Len(w) + 1] = f
        /\ \A i \in 1..Len(w) : x[i] = w[i]
    BY <1>1
  <1> HIDE DEF x
  <1>5. \A i \in 1..Len(x) : InFlight(e, p, x[i]) /\ Before(x[i], f)
    BY <1>2, <1>3, <1>4 DEF PairInv, DirectionInv
  <1>6. \A i, j \in 1..Len(x) : i < j => Before(x[i], x[j])
    <2>1. \A i, j \in 1..Len(w) : i < j => Before(w[i], w[j])
      BY DEF PairInv, DirectionInv
    <2> QED BY <1>4, <1>5, <2>1
  <1>7. DirectionInv(e, p, x)
    BY <1>2, <1>5, <1>6 DEF PairInv, DirectionInv, f
  <1> QED BY <1>7 DEF PairInv, x, f

-----------------------------------------------------------------------------
(* A received frame.                                                       *)

\* One more packet given to the upper layer extends the list 1, 2, 3, ...
LEMMA AppendNext ==
    ASSUME NEW k \in Nat
    PROVE  Append([i \in 1..k |-> i], k + 1) = [i \in 1..k + 1 |-> i]
  <1> DEFINE l == [i \in 1..k |-> i]
             m == [i \in 1..k + 1 |-> i]
             a == Append(l, k + 1)
  <1>1. l \in Seq(Nat) /\ Len(l) = k /\ m \in Seq(Nat) /\ Len(m) = k + 1
    OBVIOUS
  <1>2. a \in Seq(Nat) /\ Len(a) = k + 1
    BY <1>1
  <1>3. \A i \in 1..k + 1 : a[i] = m[i]
    BY <1>1
  <1> QED BY <1>1, <1>2, <1>3

\* What a received frame f means to an active endpoint: a DATA frame in sequence
\* is the next packet, and an acknowledgement that clears the queue covers the
\* packet in the queue, which is a reliable one.
LEMMA FrameMeaning ==
    ASSUME NEW e \in Endpoint, NEW p \in Endpoint, NEW f \in Frame,
           LocalInv(e), LocalInv(p), InFlight(p, e, f),
           p.accepted \in Confirmed(e)..e.submitted
    PROVE  /\ f.type = "DATA" /\ InSequence(e, f) => f.n = e.accepted + 1
           /\ AckedBy(e, f) => /\ e.packet = "DATA"
                               /\ f.upto = e.submitted
                               /\ f.upto = p.accepted
  <1>1. /\ Confirmed(e) \in Nat /\ e.submitted \in Nat /\ e.accepted \in Nat
        /\ e.submitted = Confirmed(e) + (IF e.packet = "DATA" THEN 1 ELSE 0)
        /\ p.submitted \in Nat /\ p.accepted \in Nat
    BY ConfirmedType
  <1>2. /\ e.seq_nr = Confirmed(e) % SeqModulus
        /\ e.ack_nr = e.accepted % SeqModulus
    BY DEF LocalInv
  <1>3. ASSUME f.type = "DATA", InSequence(e, f)
        PROVE  f.n = e.accepted + 1
    <2>1. /\ f.n \in {e.accepted, e.accepted + 1} /\ f.n \in 1..p.submitted
          /\ f.seq = (f.n - 1) % SeqModulus
      BY <1>3 DEF InFlight
    <2>2. f.seq = e.accepted % SeqModulus
      BY <1>2, <1>3 DEF InSequence
    <2>3. ASSUME f.n = e.accepted PROVE FALSE
      <3>1. f.n - 1 \in Nat /\ (f.n - 1) + 1 = e.accepted
        BY <1>1, <2>1, <2>3
      <3>2. (f.n - 1) % SeqModulus # ((f.n - 1) + 1) % SeqModulus
        BY <3>1, NeighboursDiffer
      <3> QED BY <2>1, <2>2, <3>1, <3>2
    <2> QED BY <2>1, <2>3
  <1>4. ASSUME AckedBy(e, f)
        PROVE  e.packet = "DATA" /\ f.upto = e.submitted /\ f.upto = p.accepted
    <2>1. /\ f.upto \in Confirmed(e)..p.accepted
          /\ f.ack = f.upto % SeqModulus
      BY <1>4 DEF AckedBy, InFlight
    <2>2. f.ack = (Confirmed(e) + 1) % SeqModulus
      BY <1>1, <1>2, <1>4, IncFollowsCount DEF AckedBy
    <2>3. f.upto # Confirmed(e)
      BY <1>1, <2>1, <2>2, NeighboursDiffer
    <2> QED BY <1>1, <2>1, <2>3
  <1> QED BY <1>3, <1>4

\* How the counts of e change when it receives f.
CountsAfter(e, p, f, q) ==
    /\ q.submitted = e.submitted
    /\ \/ q.accepted = e.accepted
       \/ f.type = "DATA" /\ f.n = e.accepted + 1 /\ q.accepted = f.n
    /\ \/ Confirmed(q) = Confirmed(e)
       \/ /\ f.type \in {"DATA", "ACK"}
          /\ Confirmed(q) = f.upto /\ f.upto = p.accepted
          /\ f.upto = e.submitted

\* Receiving f changes the counts of e as CountsAfter says, and its sequence
\* numbers and its list of packets with them.
LEMMA FrameCounts ==
    ASSUME NEW e \in Endpoint, NEW p \in Endpoint, NEW f \in Frame,
           LocalInv(e), LocalInv(p), InFlight(p, e, f),
           p.accepted \in Confirmed(e)..e.submitted,
           NEW q \in Endpoint, FrameEffect(e, f, q)
    PROVE  LocalInv(q) /\ CountsAfter(e, p, f, q)
  <1>1. /\ Confirmed(e) \in Nat /\ e.submitted \in Nat /\ e.accepted \in Nat
        /\ e.submitted = Confirmed(e) + (IF e.packet = "DATA" THEN 1 ELSE 0)
    BY ConfirmedType
  <1>2. q.submitted = e.submitted /\ q.packet \in {"none", q.packet_type}
    BY DEF FrameEffect, LocalInv, TypeMatches
  <1>3. CASE e.link_state # "ACTIVE"
    <2>1. e.packet = "none" /\ e.submitted = 0 /\ e.accepted = 0
      BY <1>3 DEF LocalInv
    <2>2. /\ q.packet = "none" /\ q.accepted = 0 /\ q.submitted = 0
          /\ q.received = e.received
          /\ q.seq_nr \in {e.seq_nr, 0} /\ q.ack_nr \in {e.ack_nr, 0}
      BY <1>2, <1>3, <2>1 DEF FrameEffect
    <2>3. Confirmed(e) = 0 /\ Confirmed(q) = 0
      BY <2>1, <2>2 DEF Confirmed
    <2>4. 0 % SeqModulus = 0
      BY SeqModulusAssumption
    <2>5. LocalInv(q)
      BY <1>2, <2>1, <2>2, <2>3, <2>4 DEF LocalInv
    <2> QED BY <1>2, <2>1, <2>2, <2>3, <2>5 DEF CountsAfter
  <1>4. CASE e.link_state = "ACTIVE"
    <2>1. /\ f.type = "DATA" /\ InSequence(e, f) => f.n = e.accepted + 1
          /\ AckedBy(e, f) => /\ e.packet = "DATA"
                              /\ f.upto = e.submitted
                              /\ f.upto = p.accepted
      BY FrameMeaning
    <2>2. /\ q.link_state = "ACTIVE"
          /\ IF f.type = "DATA" /\ InSequence(e, f)
             THEN /\ q.ack_nr = link_inc_seq_nr(e.ack_nr)
                  /\ q.accepted = e.accepted + 1
                  /\ q.received = Append(e.received, f.n)
             ELSE /\ q.ack_nr = e.ack_nr
                  /\ q.accepted = e.accepted
                  /\ q.received = e.received
          /\ IF AckedBy(e, f) /\ (f.type = "DATA" => InSequence(e, f))
             THEN q.seq_nr = link_inc_seq_nr(e.seq_nr) /\ q.packet = "none"
             ELSE q.seq_nr = e.seq_nr /\ q.packet = e.packet
      BY <1>4 DEF FrameEffect
    <2>3. /\ q.ack_nr = q.accepted % SeqModulus
          /\ q.received = [i \in 1..q.accepted |-> i]
          /\ \/ q.accepted = e.accepted
             \/ f.type = "DATA" /\ f.n = e.accepted + 1 /\ q.accepted = f.n
      <3>1. /\ link_inc_seq_nr(e.accepted % SeqModulus)
                 = (e.accepted + 1) % SeqModulus
            /\ Append([i \in 1..e.accepted |-> i], e.accepted + 1)
                 = [i \in 1..e.accepted + 1 |-> i]
        BY <1>1, IncFollowsCount, AppendNext
      <3>2. /\ e.ack_nr = e.accepted % SeqModulus
            /\ e.received = [i \in 1..e.accepted |-> i]
        BY DEF LocalInv
      <3>3. CASE f.type = "DATA" /\ InSequence(e, f)
        BY <2>1, <2>2, <3>1, <3>2, <3>3
      <3>4. CASE ~(f.type = "DATA" /\ InSequence(e, f))
        BY <2>2, <3>2, <3>4
      <3> QED BY <3>3, <3>4
    <2>4. /\ q.packet = "DATA" => q.submitted >= 1
          /\ q.seq_nr = Confirmed(q) % SeqModulus
          /\ \/ Confirmed(q) = Confirmed(e)
             \/ /\ f.type \in {"DATA", "ACK"}
                /\ Confirmed(q) = f.upto /\ f.upto = p.accepted
                /\ f.upto = e.submitted
      <3>1. CASE AckedBy(e, f) /\ (f.type = "DATA" => InSequence(e, f))
        <4>1. q.packet = "none" /\ q.seq_nr = link_inc_seq_nr(e.seq_nr)
          BY <2>2, <3>1
        <4>2. Confirmed(q) = Confirmed(e) + 1 /\ Confirmed(q) = e.submitted
          BY <1>1, <1>2, <2>1, <3>1, <4>1 DEF Confirmed
        <4>3. q.seq_nr = Confirmed(q) % SeqModulus
          BY <1>1, <4>1, <4>2, IncFollowsCount DEF LocalInv
        <4> QED BY <2>1, <3>1, <4>1, <4>2, <4>3 DEF AckedBy
      <3>2. CASE ~(AckedBy(e, f) /\ (f.type = "DATA" => InSequence(e, f)))
        <4>1. q.packet = e.packet /\ q.seq_nr = e.seq_nr
          BY <2>2, <3>2
        <4>2. Confirmed(q) = Confirmed(e)
          BY <1>2, <4>1 DEF Confirmed
        <4> QED BY <1>2, <4>1, <4>2 DEF LocalInv
      <3> QED BY <3>1, <3>2
    <2>5. LocalInv(q)
      BY <1>2, <2>2, <2>3, <2>4 DEF LocalInv
    <2> QED BY <1>2, <2>3, <2>4, <2>5 DEF CountsAfter
  <1> QED BY <1>3, <1>4

\* A frame g behind the received frame f still fits after e has taken f.
LEMMA BehindFits ==
    ASSUME NEW e \in Endpoint, NEW p \in Endpoint, NEW q \in Endpoint,
           NEW f \in Frame, NEW g \in Frame,
           Confirmed(e) \in Nat, Confirmed(q) \in Nat,
           p.accepted \in Confirmed(e)..e.submitted,
           InFlight(p, e, f), InFlight(p, e, g), Before(f, g),
           CountsAfter(e, p, f, q)
    PROVE  InFlight(p, q, g)
  <1>1. /\ e.accepted \in Nat /\ p.accepted \in Nat /\ p.submitted \in Nat
        /\ f.n \in Nat /\ g.n \in Nat /\ f.upto \in Nat /\ g.upto \in Nat
    BY DEF Endpoint, Frame
  <1>2. ASSUME g.type = "DATA"
        PROVE  /\ g.n \in {q.accepted, q.accepted + 1}
               /\ g.n \in 1..p.submitted
               /\ g.seq = (g.n - 1) % SeqModulus
    BY <1>1, <1>2 DEF InFlight, Before, CountsAfter
  <1>3. ASSUME g.type \in {"DATA", "ACK"}
        PROVE  /\ g.upto \in Confirmed(q)..p.accepted
               /\ g.ack = g.upto % SeqModulus
    BY <1>1, <1>3 DEF InFlight, Before, CountsAfter
  <1> QED BY <1>2, <1>3 DEF InFlight

\* Taking the first frame off the wire keeps the window invariant.
LEMMA FrameKeepsWindow ==
    ASSUME NEW e \in Endpoint, NEW q \in Endpoint, NEW p \in Endpoint,
           NEW w \in Seq(Frame), NEW v \in Seq(Frame), v # << >>,
           PairInv(e, p, w, v), FrameEffect(e, Head(v), q)
    PROVE  PairInv(q, p, w, Tail(v))
  <1> DEFINE f == v[1]
             x == Tail(v)
  <1>1. /\ f \in Frame /\ Head(v) = f /\ Len(v) >= 1
        /\ x \in Seq(Frame) /\ Len(x) = Len(v) - 1
        /\ \A i \in 1..Len(x) : x[i] = v[i + 1] /\ x[i] \in Frame
    OBVIOUS
  <1> HIDE DEF x
  <1>2. /\ \A i \in 1..Len(v) : InFlight(p, e, v[i])
        /\ \A i, j \in 1..Len(v) : i < j => Before(v[i], v[j])
        /\ p.accepted \in Confirmed(e)..e.submitted
        /\ e.accepted \in Confirmed(p)..p.submitted
        /\ LocalInv(e) /\ LocalInv(p)
    BY DEF PairInv, DirectionInv
  <1>3. InFlight(p, e, f)
    BY <1>1, <1>2
  <1> HIDE DEF f
  <1>4. LocalInv(q) /\ CountsAfter(e, p, f, q)
    BY <1>1, <1>2, <1>3, FrameCounts
  <1>5. /\ Confirmed(e) \in Nat /\ e.submitted \in Nat /\ e.accepted \in Nat
        /\ Confirmed(p) \in Nat /\ p.submitted \in Nat /\ p.accepted \in Nat
        /\ Confirmed(q) \in Nat /\ q.submitted \in Nat /\ q.accepted \in Nat
    BY <1>2, <1>4, ConfirmedType
  <1>6. DirectionInv(p, q, x)
    <2>1. q.accepted \in Confirmed(p)..p.submitted
      BY <1>2, <1>3, <1>5, <1>4 DEF CountsAfter, InFlight
    <2>2. ASSUME NEW i \in 1..Len(x)
          PROVE  InFlight(p, q, x[i])
      <3>1. /\ x[i] \in Frame /\ InFlight(p, e, x[i]) /\ Before(f, x[i])
        BY <1>1, <1>2 DEF f
      <3> QED BY <1>1, <1>2, <1>3, <1>4, <1>5, <3>1, BehindFits
    <2>3. ASSUME NEW i \in 1..Len(x), NEW j \in 1..Len(x), i < j
          PROVE  Before(x[i], x[j])
      <3>1. /\ i + 1 \in 1..Len(v) /\ j + 1 \in 1..Len(v) /\ i + 1 < j + 1
            /\ x[i] = v[i + 1] /\ x[j] = v[j + 1]
        BY <1>1, <2>3
      <3> QED BY <1>2, <3>1
    <2>4. ASSUME p.uart # NoFrame, ~p.uart_done
          PROVE  /\ InFlight(p, q, p.uart)
                 /\ \A i \in 1..Len(x) : Before(x[i], p.uart)
      <3>1. /\ InFlight(p, e, p.uart)
            /\ \A i \in 1..Len(v) : Before(v[i], p.uart)
        BY <2>4 DEF PairInv, DirectionInv
      <3>2. p.uart \in Frame
        BY <2>4 DEF Endpoint
      <3>3. Before(f, p.uart)
        BY <1>1, <3>1 DEF f
      <3>4. InFlight(p, q, p.uart)
        BY <1>1, <1>2, <1>3, <1>4, <1>5, <3>1, <3>2, <3>3, BehindFits
      <3> QED BY <1>1, <3>1, <3>4
    <2> QED BY <2>1, <2>2, <2>3, <2>4 DEF DirectionInv
  <1>7. DirectionInv(q, p, w)
    <2>1. e.submitted = q.submitted /\ e.accepted <= q.accepted
      BY <1>4, <1>5 DEF CountsAfter
    <2>2. p.accepted \in Confirmed(q)..q.submitted
      BY <1>2, <1>4, <1>5 DEF CountsAfter
    <2>3. ASSUME NEW i \in 1..Len(w)
          PROVE  InFlight(q, p, w[i])
      <3>1. w[i] \in Frame /\ InFlight(e, p, w[i])
        BY DEF PairInv, DirectionInv
      <3> QED BY <1>5, <2>1, <3>1, InFlightGrows
    <2>4. \A i, j \in 1..Len(w) : i < j => Before(w[i], w[j])
      BY DEF PairInv, DirectionInv
    <2>5. ASSUME q.uart # NoFrame, ~q.uart_done
          PROVE  /\ InFlight(q, p, q.uart)
                 /\ \A i \in 1..Len(w) : Before(w[i], q.uart)
      <3>1. q.uart = e.uart /\ q.uart_done = e.uart_done
        BY DEF FrameEffect
      <3>2. /\ q.uart \in Frame /\ InFlight(e, p, q.uart)
            /\ \A i \in 1..Len(w) : Before(w[i], q.uart)
        BY <2>5, <3>1 DEF PairInv, DirectionInv, Endpoint
      <3> QED BY <1>5, <2>1, <3>2, InFlightGrows
    <2> QED BY <2>2, <2>3, <2>4, <2>5 DEF DirectionInv
  <1> QED BY <1>2, <1>4, <1>6, <1>7 DEF PairInv, x

-----------------------------------------------------------------------------
(* The theorems.                                                           *)

\* There are two sides and each is the other one's other side.
LEMMA TwoSides ==
    ASSUME NEW s \in Side
    PROVE  /\ Other(s) \in Side /\ Other(s) # s
           /\ Other(Other(s)) = s
           /\ Side = {s, Other(s)}
  <1>1. PICK a, b \in Side : a # b /\ Side = {a, b}
    BY SideAssumption
  <1>2. Other(a) = b /\ Other(b) = a
    BY <1>1 DEF Other
  <1> QED BY <1>1, <1>2

\* The window invariant seen from one side.
LEMMA WindowIsPair ==
    ASSUME NEW E, NEW W, NEW s \in Side
    PROVE  (\A t \in Side : /\ LocalInv(E[t])
                            /\ DirectionInv(E[t], E[Other(t)], W[t]))
           <=> PairInv(E[s], E[Other(s)], W[s], W[Other(s)])
  BY TwoSides DEF PairInv

\* What the upper layers may call is known to the endpoint.
LEMMA CallTypes ==
    ASSUME NEW s \in Side
    PROVE  /\ Calls[s] \subseteq AnyCall /\ Reactions(s) \subseteq AnyCall
           /\ ConfigField[s] \in ConfigFields
  BY CallsAssumption, ConfigAssumption DEF AnyCall, Reactions

IInv == TypeOK /\ WindowInv

\* The endpoint link_init starts from: everything cleared.
Opened == [Closed EXCEPT !.link_state = "UNINITIALIZED",
                         !.peer_asleep = FALSE, !.dic = FALSE]

\* It has exchanged nothing.
LEMMA OpenedType ==
    /\ Opened \in Endpoint /\ Opened.link_state = "UNINITIALIZED"
    /\ Opened.uart = NoFrame /\ Opened.seq_nr = 0 /\ Opened.ack_nr = 0
    /\ Opened.packet = "none" /\ Opened.packet_type = "none"
    /\ Opened.submitted = 0 /\ Opened.accepted = 0 /\ Opened.received = << >>
  <1>1. 0 \in 0..SeqModulus - 1 /\ << >> \in Seq(Nat)
    BY SeqModulusAssumption
  <1>2. Closed \in Endpoint
    BY <1>1 DEF Closed, Endpoint, LinkStates
  <1>3. Opened \in Endpoint /\ Opened.link_state = "UNINITIALIZED"
    BY <1>2 DEF Endpoint, LinkStates, Opened
  <1> QED BY <1>3 DEF Closed, Opened

\* From there link_init does one Step: link_run has started to send SYNC.
LEMMA InitStep ==
    ASSUME NEW s \in Side
    PROVE  /\ link_init(s, Closed) \in Endpoint
           /\ Step(Opened, link_init(s, Closed))
  <1> DEFINE q == Request(Opened, "SYNC")
             t == link_set_timer(q)
  <1>1. link_init(s, Closed) = link_run(s, t)
    BY DEF link_init, Opened
  <1>2. q \in Endpoint /\ Step(Opened, q)
    BY OpenedType, RequestQuiet, QuietStep DEF Actions, Sendable, RunOrder
  <1>3. t \in Endpoint /\ Step(q, t)
    BY <1>2, SetTimerQuiet, QuietStep
  <1>4. link_run(s, t) \in Endpoint /\ Step(t, link_run(s, t))
    BY <1>3, RunStep, CallTypes
  <1> HIDE DEF q, t
  <1>5. Step(Opened, link_run(s, t))
    BY <1>2, <1>3, <1>4, OpenedType, StepTransitive
  <1> QED BY <1>1, <1>4, <1>5

\* Two opened endpoints have exchanged nothing.
LEMMA OpenedWindow == PairInv(Opened, Opened, << >>, << >>)
  <1>1. Confirmed(Opened) = 0
    BY OpenedType DEF Confirmed
  <1>2. LocalInv(Opened)
    <2>1. 0 % SeqModulus = 0
      BY SeqModulusAssumption
    <2>2. << >> = [i \in 1..0 |-> i]
      OBVIOUS
    <2> QED BY <1>1, <2>1, <2>2, OpenedType DEF LocalInv
  <1> QED BY <1>1, <1>2, OpenedType DEF PairInv, DirectionInv

\* link_init leaves two endpoints that have exchanged nothing.
LEMMA InitIInv == Init => IInv
  <1> SUFFICES ASSUME Init PROVE IInv
    OBVIOUS
  <1> DEFINE o == Opened
  <1>1. o \in Endpoint
    BY OpenedType
  <1>4. PairInv(o, o, << >>, << >>)
    BY OpenedWindow
  <1>5. \A s \in Side : ep[s] \in Endpoint /\ Step(o, ep[s])
    BY InitStep DEF Init
  <1>6. TypeOK
    BY <1>5 DEF TypeOK, Init
  <1>7. ASSUME NEW s \in Side
        PROVE  PairInv(ep[s], ep[Other(s)], wire[s], wire[Other(s)])
    <2>1. << >> \in Seq(Frame)
      OBVIOUS
    <2>2. PairInv(ep[s], o, << >>, << >>)
      BY <1>1, <1>4, <1>5, <2>1, StepKeepsWindow
    <2>3. PairInv(o, ep[s], << >>, << >>)
      BY <2>2 DEF PairInv
    <2>4. PairInv(ep[Other(s)], ep[s], << >>, << >>)
      BY <1>1, <1>5, <2>1, <2>3, StepKeepsWindow, TwoSides
    <2> QED BY <2>4, TwoSides DEF PairInv, Init
  <1> QED BY <1>6, <1>7 DEF IInv, WindowInv, PairInv

\* What the upper layers see of a change of e into q while the peer is p.
Advance(e, p, q) ==
    /\ \/ q.received = e.received
       \/ /\ q.received = Append(e.received, Len(e.received) + 1)
          /\ Len(e.received) < p.submitted
    /\ \/ Confirmed(q) = Confirmed(e)
       \/ /\ Confirmed(q) = Confirmed(e) + 1
          /\ Confirmed(e) < Len(p.received)
    /\ \/ q.submitted = e.submitted
       \/ q.submitted = e.submitted + 1 /\ e.submitted = Confirmed(q)

\* The length of the list 1, 2, ..., accepted.
LEMMA ReceivedLength ==
    ASSUME NEW e \in Endpoint, LocalInv(e)
    PROVE  Len(e.received) = e.accepted
  <1>1. e.accepted \in Nat /\ e.received = [i \in 1..e.accepted |-> i]
    BY DEF Endpoint, LocalInv
  <1> QED BY <1>1

\* A Step hands over at most one packet, and only with none outstanding.
LEMMA StepAdvances ==
    ASSUME NEW e \in Endpoint, LocalInv(e), NEW q \in Endpoint, Step(e, q), NEW p
    PROVE  Advance(e, p, q) /\ Confirmed(q) = Confirmed(e)
           /\ q.received = e.received
  <1>1. e.submitted \in Nat
    BY DEF Endpoint
  <1>2. /\ q.received = e.received
        /\ \/ q.submitted = e.submitted /\ (q.packet = "DATA" <=> e.packet = "DATA")
           \/ /\ e.packet # "DATA" /\ q.packet = "DATA"
              /\ q.submitted = e.submitted + 1
    BY DEF Step
  <1>3. Confirmed(q) = Confirmed(e)
    BY <1>1, <1>2 DEF Confirmed
  <1>4. \/ q.submitted = e.submitted
        \/ q.submitted = e.submitted + 1 /\ e.submitted = Confirmed(q)
    BY <1>1, <1>2, <1>3 DEF Confirmed
  <1> QED BY <1>2, <1>3, <1>4 DEF Advance

\* A received frame followed by a Step is one advance.
LEMMA FrameAdvances ==
    ASSUME NEW e \in Endpoint, NEW p \in Endpoint, NEW f \in Frame,
           LocalInv(e), LocalInv(p), InFlight(p, e, f),
           p.accepted \in Confirmed(e)..e.submitted,
           NEW q \in Endpoint, FrameEffect(e, f, q),
           NEW r \in Endpoint, Step(q, r)
    PROVE  Advance(e, p, r)
  <1>1. LocalInv(q) /\ CountsAfter(e, p, f, q)
    BY FrameCounts
  <1>2. /\ Confirmed(e) \in Nat /\ e.submitted \in Nat /\ e.accepted \in Nat
        /\ e.submitted = Confirmed(e) + (IF e.packet = "DATA" THEN 1 ELSE 0)
        /\ p.submitted \in Nat /\ p.accepted \in Nat /\ q.accepted \in Nat
    BY <1>1, ConfirmedType
  <1>3. Len(e.received) = e.accepted /\ Len(p.received) = p.accepted
    BY ReceivedLength
  <1>4. /\ Advance(q, p, r) /\ Confirmed(r) = Confirmed(q)
        /\ r.received = q.received
    BY <1>1, StepAdvances
  <1>5. \/ r.received = e.received
        \/ /\ r.received = Append(e.received, Len(e.received) + 1)
           /\ Len(e.received) < p.submitted
    <2>1. /\ e.received = [i \in 1..e.accepted |-> i]
          /\ q.received = [i \in 1..q.accepted |-> i]
      BY <1>1 DEF LocalInv
    <2>2. CASE q.accepted = e.accepted
      BY <1>4, <2>1, <2>2
    <2>3. CASE f.type = "DATA" /\ f.n = e.accepted + 1 /\ q.accepted = f.n
      <3>1. f.n <= p.submitted
        BY <1>2, <2>3 DEF InFlight
      <3>2. q.received = Append(e.received, e.accepted + 1)
        BY <1>2, <2>1, <2>3, AppendNext
      <3> QED BY <1>2, <1>3, <1>4, <2>3, <3>1, <3>2
    <2> QED BY <1>1, <2>2, <2>3 DEF CountsAfter
  <1>6. \/ Confirmed(r) = Confirmed(e)
        \/ /\ Confirmed(r) = Confirmed(e) + 1
           /\ Confirmed(e) < Len(p.received)
    BY <1>1, <1>2, <1>3, <1>4 DEF CountsAfter
  <1>7. \/ r.submitted = e.submitted
        \/ r.submitted = e.submitted + 1 /\ e.submitted = Confirmed(r)
    BY <1>1, <1>4 DEF Advance, CountsAfter
  <1> QED BY <1>5, <1>6, <1>7 DEF Advance

\* A step of side s: only its endpoint changes, the window invariant holds
\* afterwards and the upper layers see an advance.
SoundStep(s) ==
    /\ ep' = [ep EXCEPT ![s] = ep'[s]]
    /\ ep'[s] \in Endpoint
    /\ wire' \in [Side -> Seq(Frame)]
    /\ PairInv(ep'[s], ep[Other(s)], wire'[s], wire'[Other(s)])
    /\ Advance(ep[s], ep[Other(s)], ep'[s])

\* A handler of s that ends in an endpoint reached by a Step is sound.
LEMMA HandlerSound ==
    ASSUME IInv, NEW s \in Side, NEW q \in Endpoint,
           Step(ep[s], q), Become(s, q), UNCHANGED wire
    PROVE  SoundStep(s)
  <1> DEFINE e == ep[s]
             p == ep[Other(s)]
  <1>1. /\ e \in Endpoint /\ p \in Endpoint /\ ep'[s] = q
        /\ wire[s] \in Seq(Frame) /\ wire[Other(s)] \in Seq(Frame)
        /\ ep' = [ep EXCEPT ![s] = ep'[s]]
    BY TwoSides DEF IInv, TypeOK, Become
  <1>2. PairInv(e, p, wire[s], wire[Other(s)])
    BY WindowIsPair DEF IInv, WindowInv
  <1>3. PairInv(q, p, wire[s], wire[Other(s)])
    BY <1>1, <1>2, StepKeepsWindow
  <1>4. Advance(e, p, q)
    BY <1>1, <1>2, StepAdvances DEF PairInv
  <1> QED BY <1>1, <1>3, <1>4 DEF SoundStep, IInv, TypeOK

\* The last byte of a frame has left: on the wire or lost.
LEMMA WriteDoneSound ==
    ASSUME IInv, NEW s \in Side, Transmit(s) \/ Lose(s)
    PROVE  SoundStep(s)
  <1> DEFINE e == ep[s]
             p == ep[Other(s)]
             w == wire[s]
             v == wire[Other(s)]
             q == [e EXCEPT !.uart_done = TRUE]
  <1>1. /\ e \in Endpoint /\ p \in Endpoint
        /\ w \in Seq(Frame) /\ v \in Seq(Frame)
        /\ wire \in [Side -> Seq(Frame)]
        /\ Other(s) # s /\ Other(s) \in Side
    BY TwoSides DEF IInv, TypeOK
  <1>2. PairInv(e, p, w, v)
    BY WindowIsPair DEF IInv, WindowInv
  <1>3. /\ e.uart # NoFrame /\ ~e.uart_done
        /\ ep'[s] = q /\ ep' = [ep EXCEPT ![s] = ep'[s]]
    BY DEF Transmit, Lose, Become, IInv, TypeOK
  <1>4. e.uart \in Frame
    BY <1>1, <1>3 DEF Endpoint
  <1>5. /\ q \in Endpoint /\ q.link_state = e.link_state
        /\ q.seq_nr = e.seq_nr /\ q.ack_nr = e.ack_nr
        /\ q.packet = e.packet /\ q.packet_type = e.packet_type
        /\ q.submitted = e.submitted /\ q.accepted = e.accepted
        /\ q.received = e.received /\ q.uart_done
    BY <1>1 DEF Endpoint
  <1> HIDE DEF q
  <1>6. Advance(e, p, q)
    BY <1>5 DEF Advance, Confirmed
  <1>7. CASE Lose(s)
    <2>1. PairInv(q, p, w, v)
      BY <1>1, <1>2, <1>5, WriteEndsKeepsWindow
    <2>2. wire' = wire
      BY <1>7 DEF Lose
    <2> QED BY <1>1, <1>3, <1>5, <1>6, <2>1, <2>2 DEF SoundStep
  <1>8. CASE Transmit(s)
    <2>1. PairInv(e, p, Append(w, e.uart), v)
      BY <1>1, <1>2, <1>3, TransmitKeepsWindow
    <2>2. Append(w, e.uart) \in Seq(Frame)
      BY <1>1, <1>4
    <2>3. PairInv(q, p, Append(w, e.uart), v)
      BY <1>1, <1>5, <2>1, <2>2, WriteEndsKeepsWindow
    <2>4. wire' = [wire EXCEPT ![s] = Append(w, e.uart)]
      BY <1>8 DEF Transmit
    <2>5. /\ wire' \in [Side -> Seq(Frame)] /\ wire'[s] = Append(w, e.uart)
          /\ wire'[Other(s)] = v
      BY <1>1, <2>2, <2>4
    <2> QED BY <1>3, <1>5, <1>6, <2>3, <2>5 DEF SoundStep
  <1> QED BY <1>7, <1>8

\* frame_sent: the write ends, then a Step.
LEMMA FrameSentSound ==
    ASSUME IInv, NEW s \in Side, FrameSent(s)
    PROVE  SoundStep(s)
  <1> DEFINE e == ep[s]
             p == ep[Other(s)]
             w == wire[s]
             v == wire[Other(s)]
             i == Idle(e)
  <1>1. /\ e \in Endpoint /\ p \in Endpoint
        /\ w \in Seq(Frame) /\ v \in Seq(Frame)
        /\ wire' \in [Side -> Seq(Frame)] /\ wire' = wire
    BY TwoSides DEF IInv, TypeOK, FrameSent
  <1>2. PairInv(e, p, w, v)
    BY WindowIsPair DEF IInv, WindowInv
  <1>3. PICK sleepCall \in Reactions(s), sentCall \in Reactions(s) :
            Become(s, h5_frame_sent(s, e, sleepCall, sentCall))
    BY DEF FrameSent
  <1> DEFINE q == h5_frame_sent(s, e, sleepCall, sentCall)
  <1>4. ep'[s] = q /\ ep' = [ep EXCEPT ![s] = ep'[s]]
    BY <1>3 DEF Become, IInv, TypeOK
  <1>5. TypeMatches(e) /\ LocalInv(e)
    BY <1>2 DEF PairInv, LocalInv, TypeMatches
  <1>6. i \in Endpoint /\ q \in Endpoint /\ Step(i, q)
    BY <1>1, <1>5, FrameSentStep, CallTypes
  <1>7. /\ i.link_state = e.link_state
        /\ i.seq_nr = e.seq_nr /\ i.ack_nr = e.ack_nr
        /\ i.packet = e.packet /\ i.packet_type = e.packet_type
        /\ i.submitted = e.submitted /\ i.accepted = e.accepted
        /\ i.received = e.received /\ i.uart = NoFrame
    BY <1>1 DEF Idle, Endpoint
  <1> HIDE DEF i, q
  <1>8. PairInv(i, p, w, v)
    BY <1>1, <1>2, <1>6, <1>7, WriteEndsKeepsWindow
  <1>9. PairInv(q, p, w, v)
    BY <1>1, <1>6, <1>8, StepKeepsWindow
  <1>10. Advance(i, p, q) /\ Confirmed(i) = Confirmed(e)
    BY <1>6, <1>7, <1>8, StepAdvances DEF PairInv, Confirmed
  <1>11. Advance(e, p, q)
    BY <1>7, <1>10 DEF Advance
  <1> QED BY <1>1, <1>4, <1>6, <1>9, <1>11 DEF SoundStep

\* process_frame: the effect of the frame, then a Step.
LEMMA FrameReceivedSound ==
    ASSUME IInv, NEW s \in Side, FrameReceived(s)
    PROVE  SoundStep(s)
  <1> DEFINE e == ep[s]
             p == ep[Other(s)]
             w == wire[s]
             v == wire[Other(s)]
             f == Head(v)
  <1>1. /\ e \in Endpoint /\ p \in Endpoint
        /\ w \in Seq(Frame) /\ v \in Seq(Frame)
        /\ wire \in [Side -> Seq(Frame)]
        /\ Other(s) # s /\ Other(s) \in Side
    BY TwoSides DEF IInv, TypeOK
  <1>2. PairInv(e, p, w, v)
    BY WindowIsPair DEF IInv, WindowInv
  <1>3. v # << >> /\ wire' = [wire EXCEPT ![Other(s)] = Tail(v)]
    BY DEF FrameReceived
  <1>4. f \in Frame /\ Tail(v) \in Seq(Frame) /\ f = v[1] /\ 1 \in 1..Len(v)
    BY <1>1, <1>3
  <1>5. PICK ackCall \in Reactions(s), rxCall \in Reactions(s) :
            Become(s, h5_process_frame(s, e, f, ackCall, rxCall))
    BY DEF FrameReceived
  <1> DEFINE r == h5_process_frame(s, e, f, ackCall, rxCall)
  <1>6. ep'[s] = r /\ ep' = [ep EXCEPT ![s] = ep'[s]]
    BY <1>5 DEF Become, IInv, TypeOK
  <1>7. r \in Endpoint /\ \E q \in Endpoint : FrameEffect(e, f, q) /\ Step(q, r)
    <2>1. ackCall \in AnyCall /\ rxCall \in AnyCall /\ ConfigField[s] \in ConfigFields
      BY CallTypes
    <2> QED BY <1>1, <1>4, <2>1, ProcessFrameEffect, Zenon
  <1> HIDE DEF r
  <1>8. PICK q \in Endpoint : FrameEffect(e, f, q) /\ Step(q, r)
    BY <1>7
  <1>9. PairInv(q, p, w, Tail(v))
    BY <1>1, <1>2, <1>3, <1>8, FrameKeepsWindow
  <1>10. PairInv(r, p, w, Tail(v))
    BY <1>1, <1>4, <1>7, <1>8, <1>9, StepKeepsWindow
  <1>11. Advance(e, p, r)
    <2>1. /\ LocalInv(e) /\ LocalInv(p) /\ InFlight(p, e, f)
          /\ p.accepted \in Confirmed(e)..e.submitted
      BY <1>2, <1>4 DEF PairInv, DirectionInv
    <2> QED BY <1>1, <1>4, <1>7, <1>8, <2>1, FrameAdvances
  <1>12. /\ wire' \in [Side -> Seq(Frame)]
         /\ wire'[s] = w /\ wire'[Other(s)] = Tail(v)
    BY <1>1, <1>3, <1>4
  <1> QED BY <1>6, <1>7, <1>10, <1>11, <1>12 DEF SoundStep

\* Every step of the link is a sound step of one side.
LEMMA NextSound ==
    ASSUME IInv, Next
    PROVE  \E s \in Side : SoundStep(s)
  <1>1. PICK s \in Side : \/ \E call \in Calls[s] : UpperCall(s, call)
                          \/ Transmit(s) \/ Lose(s) \/ FrameSent(s)
                          \/ FrameReceived(s) \/ LinkTimeout(s)
                          \/ InactivityTimeout(s)
    BY DEF Next
  <1>2. ep[s] \in Endpoint /\ ConfigField[s] \in ConfigFields
    BY CallTypes DEF IInv, TypeOK
  <1>3. CASE \E call \in Calls[s] : UpperCall(s, call)
    <2>1. PICK call \in Calls[s] : UpperCall(s, call)
      BY <1>3
    <2>2. /\ Upper(s, ep[s], call) \in Endpoint
          /\ Step(ep[s], Upper(s, ep[s], call))
      BY <1>2, UpperStep, CallTypes
    <2> QED BY <2>1, <2>2, HandlerSound DEF UpperCall
  <1>4. CASE LinkTimeout(s)
    BY <1>2, <1>4, LinkTimeoutStep, HandlerSound DEF LinkTimeout
  <1>5. CASE InactivityTimeout(s)
    BY <1>2, <1>5, InactivityTimeoutStep, HandlerSound DEF InactivityTimeout
  <1> QED BY <1>1, <1>3, <1>4, <1>5, WriteDoneSound, FrameSentSound,
             FrameReceivedSound

\* A sound step keeps the inductive invariant.
LEMMA NextIInv == IInv /\ [Next]_vars => IInv'
  <1>1. ASSUME IInv, Next PROVE IInv'
    <2>1. PICK s \in Side : SoundStep(s)
      BY <1>1, NextSound
    <2>2. ep \in [Side -> Endpoint]
      BY <1>1 DEF IInv, TypeOK
    <2>3. TypeOK'
      BY <2>1, <2>2 DEF TypeOK, SoundStep
    <2>4. ep'[Other(s)] = ep[Other(s)]
      BY <2>1, <2>2, TwoSides DEF SoundStep
    <2>5. PairInv(ep'[s], ep'[Other(s)], wire'[s], wire'[Other(s)])
      BY <2>1, <2>4 DEF SoundStep
    <2>6. \A t \in Side : /\ LocalInv(ep'[t])
                          /\ DirectionInv(ep'[t], ep'[Other(t)], wire'[t])
      BY <2>5, WindowIsPair
    <2> QED BY <2>3, <2>6 DEF IInv, WindowInv
  <1>2. ASSUME IInv, UNCHANGED vars PROVE IInv'
    BY <1>2 DEF IInv, TypeOK, WindowInv, vars
  <1> QED BY <1>1, <1>2

\* The inductive invariant holds in every behaviour of the link.
THEOREM SpecIInv == Spec => []IInv
  BY InitIInv, NextIInv, PTL DEF Spec

\* The endpoints and the wire keep their types: in particular the sequence and
\* acknowledgement numbers of every frame fit the header field.
THEOREM SpecTypeOK == Spec => []TypeOK
  <1>1. IInv => TypeOK
    BY DEF IInv
  <1> QED BY <1>1, SpecIInv, PTL

\* Sequence numbers, packet counts and frames under way agree in every state.
THEOREM SpecWindowInv == Spec => []WindowInv
  <1>1. IInv => WindowInv
    BY DEF IInv
  <1> QED BY <1>1, SpecIInv, PTL

\* What the invariant says about the two ends.
LEMMA WindowEnds ==
    ASSUME IInv, NEW s \in Side
    PROVE  LET e == ep[s]
               p == ep[Other(s)]
           IN  /\ e \in Endpoint /\ p \in Endpoint
               /\ LocalInv(e) /\ LocalInv(p)
               /\ Len(e.received) = e.accepted /\ Len(p.received) = p.accepted
               /\ p.accepted \in Confirmed(e)..e.submitted
               /\ e.accepted \in Confirmed(p)..p.submitted
               /\ Confirmed(e) \in Nat /\ e.submitted \in Nat
               /\ e.submitted <= Confirmed(e) + 1
               /\ p.submitted \in Nat /\ e.accepted \in Nat /\ p.accepted \in Nat
  <1> DEFINE e == ep[s]
             p == ep[Other(s)]
  <1>1. e \in Endpoint /\ p \in Endpoint
    BY TwoSides DEF IInv, TypeOK
  <1>2. PairInv(e, p, wire[s], wire[Other(s)])
    BY WindowIsPair DEF IInv, WindowInv
  <1>3. /\ LocalInv(e) /\ LocalInv(p)
        /\ p.accepted \in Confirmed(e)..e.submitted
        /\ e.accepted \in Confirmed(p)..p.submitted
    BY <1>2 DEF PairInv, DirectionInv
  <1>4. Len(e.received) = e.accepted /\ Len(p.received) = p.accepted
    BY <1>1, <1>3, ReceivedLength
  <1>5. /\ Confirmed(e) \in Nat /\ e.submitted \in Nat
        /\ e.submitted = Confirmed(e) + (IF e.packet = "DATA" THEN 1 ELSE 0)
        /\ p.submitted \in Nat /\ e.accepted \in Nat /\ p.accepted \in Nat
    BY <1>1, <1>3, ConfirmedType
  <1>6. e.submitted <= Confirmed(e) + 1
    BY <1>5
  <1> QED BY <1>1, <1>3, <1>4, <1>5, <1>6

\* The packets an upper layer is given are those the other upper layer handed
\* over, in order and each once, for every modulus of at least two.
THEOREM SpecInOrderDelivery == Spec => []InOrderDelivery
  <1>1. IInv => InOrderDelivery
    <2> SUFFICES ASSUME IInv, NEW s \in Side
                 PROVE  /\ ep[s].received = [i \in 1..Len(ep[s].received) |-> i]
                        /\ Len(ep[s].received) <= ep[Other(s)].submitted
      BY DEF InOrderDelivery
    <2> DEFINE e == ep[s]
               p == ep[Other(s)]
    <2>1. /\ LocalInv(e) /\ Len(e.received) = e.accepted
          /\ e.accepted \in Nat /\ p.submitted \in Nat
          /\ e.accepted \in Confirmed(p)..p.submitted
      BY WindowEnds
    <2>2. e.received = [i \in 1..e.accepted |-> i]
      BY <2>1 DEF LocalInv
    <2> QED BY <2>1, <2>2
  <1> QED BY <1>1, SpecIInv, PTL

\* A reliable packet is reported as sent only after the peer took it, and at most
\* one packet taken by the peer is still unreported.
THEOREM SpecSentMeansReceived == Spec => []SentMeansReceived
  <1>1. IInv => SentMeansReceived
    <2> SUFFICES ASSUME IInv, NEW s \in Side
                 PROVE  Len(ep[Other(s)].received)
                          \in Confirmed(ep[s])..Confirmed(ep[s]) + 1
      BY DEF SentMeansReceived
    <2> DEFINE e == ep[s]
               p == ep[Other(s)]
    <2>1. /\ Len(p.received) = p.accepted /\ p.accepted \in Nat
          /\ p.accepted \in Confirmed(e)..e.submitted
          /\ Confirmed(e) \in Nat /\ e.submitted \in Nat
          /\ e.submitted <= Confirmed(e) + 1
      BY WindowEnds
    <2> QED BY <2>1
  <1> QED BY <1>1, SpecIInv, PTL

-----------------------------------------------------------------------------
(* Refinement of the reliable channel.                                     *)

\* The link starts as an empty channel.
LEMMA InitRefines == Init => Channel!ChanInit
  <1> SUFFICES ASSUME Init PROVE Channel!ChanInit
    OBVIOUS
  <1>1. ASSUME NEW s \in Side
        PROVE  /\ ep[s].submitted = 0 /\ ep[s].received = << >>
               /\ Confirmed(ep[s]) = 0
    <2>1. Step(Opened, ep[s])
      BY InitStep DEF Init
    <2>2. /\ ep[s].submitted = 0 /\ ep[s].packet # "DATA"
          /\ ep[s].received = << >>
      BY <2>1, OpenedType DEF Step
    <2>3. Confirmed(ep[s]) = 0 - 0
      BY <2>2 DEF Confirmed
    <2> QED BY <2>2, <2>3
  <1>2. \A s \in Side : Other(s) \in Side
    BY TwoSides
  <1> QED BY <1>1, <1>2 DEF Channel!ChanInit, Channel!Zero

\* A sound step of side s is a step of the channel.
LEMMA SoundStepRefines ==
    ASSUME IInv, NEW s \in Side, SoundStep(s)
    PROVE  Channel!ChanNext
  <1> DEFINE o == Other(s)
             e == ep[s]
             p == ep[o]
             q == ep'[s]
             sent == [x \in Side |-> ep[x].submitted]
             sentN == [x \in Side |-> ep'[x].submitted]
             given == [x \in Side |-> ep[Other(x)].received]
             givenN == [x \in Side |-> ep'[Other(x)].received]
             conf == [x \in Side |-> Confirmed(ep[x])]
             confN == [x \in Side |-> Confirmed(ep'[x])]
  <1>1. /\ o \in Side /\ o # s /\ Other(o) = s /\ Side = {s, o}
    BY TwoSides
  <1>2. ep \in [Side -> Endpoint] /\ ep' = [ep EXCEPT ![s] = q]
    BY DEF IInv, TypeOK, SoundStep
  <1>3. ep'[o] = p
    BY <1>1, <1>2
  <1>4. Advance(e, p, q)
    BY DEF SoundStep
  <1> HIDE DEF o
  <1>5. \/ givenN = given
        \/ /\ Len(given[o]) < sent[o]
           /\ givenN = [given EXCEPT ![o] = Append(@, Len(@) + 1)]
    BY <1>1, <1>3, <1>4 DEF Advance, o
  <1>6. \/ confN = conf
        \/ /\ conf[s] < Len(given[s])
           /\ confN = [conf EXCEPT ![s] = @ + 1]
    BY <1>1, <1>3, <1>4 DEF Advance, o
  <1>7. \/ sentN = sent
        \/ /\ sent[s] = confN[s]
           /\ sentN = [sent EXCEPT ![s] = @ + 1]
    BY <1>1, <1>3, <1>4 DEF Advance, o
  <1> QED BY <1>1, <1>5, <1>6, <1>7
          DEF Channel!ChanNext, Channel!ChanStep, Channel!Give,
              Channel!Confirm, Channel!Submit

\* The pair of endpoints implements the reliable channel of H5Channel: what the
\* upper layers see of send_packet, TRANSPORT_PACKET_SENT and the packet handler
\* is what a channel with at most one unconfirmed packet would show them.
THEOREM LinkImplementsChannel == Spec => ImplementsChannel
  <1>1. IInv /\ [Next]_vars => [Channel!ChanNext]_(Channel!chanVars)
    <2>1. ASSUME IInv, Next PROVE Channel!ChanNext
      BY <2>1, NextSound, SoundStepRefines
    <2>2. ASSUME UNCHANGED vars PROVE UNCHANGED Channel!chanVars
      BY <2>2 DEF vars, Channel!chanVars
    <2> QED BY <2>1, <2>2
  <1> QED BY <1>1, InitRefines, SpecIInv, PTL
          DEF Spec, ImplementsChannel, Channel!ChanSpec

-----------------------------------------------------------------------------
(* The link timer.                                                         *)

TimerInv == \A s \in Side : Orderly(ep[s])

\* link_init starts the link timer of an endpoint that is otherwise cleared.
LEMMA BootOrderly ==
    ASSUME NEW s \in Side
    PROVE  /\ link_init(s, Closed) \in Endpoint
           /\ Neat(Opened, link_init(s, Closed))
           /\ Settled(link_init(s, Closed))
           /\ link_init(s, Closed).link_timer
  <1> DEFINE q == Request(Opened, "SYNC")
             t == link_set_timer(q)
  <1>1. /\ Opened \in Endpoint /\ Opened.link_state = "UNINITIALIZED"
        /\ Opened.packet = "none" /\ Opened.actions = {}
        /\ ~Opened.link_timer /\ Opened.fault = "none"
    BY OpenedType DEF Opened, Closed
  <1>2. q \in Endpoint /\ Mild(Opened, q)
    <2>1. "SYNC" \in Actions \ {"SYNC_RESPONSE", "ACK_PACKET"}
      BY DEF Actions, Sendable, RunOrder
    <2> QED BY <1>1, <2>1, RequestMild
  <1> HIDE DEF q
  <1>3. /\ t \in Endpoint /\ t.link_timer
        /\ t.link_state = q.link_state /\ t.packet = q.packet
        /\ t.uart = q.uart /\ t.uart_done = q.uart_done
        /\ t.actions = q.actions /\ t.fault = q.fault
    BY <1>1, <1>2, SetTimerFields DEF Mild
  <1> HIDE DEF t
  <1>4. Neat(Opened, t)
    BY <1>1, <1>2, <1>3 DEF Neat, Orderly, Tidy, Mild, MayAnswerSync
  <1>5. /\ Tidied(Opened, link_run(s, t)) /\ Settled(link_run(s, t))
        /\ link_run(s, t).link_timer
    BY <1>3, <1>4, CallTypes, RunTidied, RunNeat DEF Neat
  <1>6. link_init(s, Closed) = link_run(s, t)
    BY DEF link_init, Opened, q, t
  <1> QED BY <1>5, <1>6 DEF Tidied

\* Every action leaves the endpoint it works on orderly.
LEMMA NextOrderly ==
    ASSUME TypeOK, TimerInv, [Next]_vars
    PROVE  TimerInv'
  <1>1. CASE UNCHANGED vars
    BY <1>1 DEF vars, TimerInv
  <1>2. CASE Next
    <2>1. PICK s \in Side : \/ \E call \in Calls[s] : UpperCall(s, call)
                            \/ Transmit(s) \/ Lose(s) \/ FrameSent(s)
                            \/ FrameReceived(s) \/ LinkTimeout(s)
                            \/ InactivityTimeout(s)
      BY <1>2 DEF Next
    <2> DEFINE e == ep[s]
    <2>2. /\ e \in Endpoint /\ Orderly(e) /\ ConfigField[s] \in ConfigFields
          /\ Calls[s] \subseteq AnyCall /\ Reactions(s) \subseteq AnyCall
      BY CallTypes DEF TypeOK, TimerInv
    <2>3. ASSUME NEW q, Become(s, q), Orderly(q)
          PROVE  TimerInv'
      BY <2>3 DEF Become, TimerInv, TypeOK
    <2>4. CASE \E call \in Calls[s] : UpperCall(s, call)
      <3>1. PICK call \in Calls[s] : UpperCall(s, call)
        BY <2>4
      <3>2. Orderly(Upper(s, e, call))
        BY <2>2, UpperTidied DEF Tidied, Neat
      <3> QED BY <2>3, <3>1, <3>2 DEF UpperCall
    <2>5. CASE Transmit(s) \/ Lose(s)
      <3>1. Orderly([e EXCEPT !.uart_done = TRUE])
        BY <2>2 DEF Endpoint, Orderly
      <3> QED BY <2>3, <2>5, <3>1 DEF Transmit, Lose
    <2>6. CASE FrameSent(s)
      <3>1. PICK sleepCall \in Reactions(s), sentCall \in Reactions(s) :
                Become(s, h5_frame_sent(s, e, sleepCall, sentCall))
        BY <2>6 DEF FrameSent
      <3>2. Orderly(h5_frame_sent(s, e, sleepCall, sentCall))
        BY <2>2, FrameSentTidied DEF Neat
      <3> QED BY <2>3, <3>1, <3>2
    <2>7. CASE FrameReceived(s)
      <3> DEFINE v == wire[Other(s)]
                 f == Head(v)
      <3>1. f \in Frame
        <4>1. v \in Seq(Frame) /\ v # << >>
          BY <2>7, TwoSides DEF FrameReceived, TypeOK
        <4> QED BY <4>1
      <3>2. PICK ackCall \in Reactions(s), rxCall \in Reactions(s) :
                Become(s, h5_process_frame(s, e, f, ackCall, rxCall))
        BY <2>7 DEF FrameReceived
      <3> HIDE DEF f
      <3>3. Orderly(h5_process_frame(s, e, f, ackCall, rxCall))
        BY <2>2, <3>1, ProcessFrameTidied DEF Tidied, Neat
      <3> QED BY <2>3, <3>2, <3>3
    <2>8. CASE LinkTimeout(s)
      BY <2>2, <2>3, <2>8, LinkTimeoutTidied DEF LinkTimeout, Tidied, Neat
    <2>9. CASE InactivityTimeout(s)
      BY <2>2, <2>3, <2>9, InactivityTimeoutTidied
      DEF InactivityTimeout, Tidied, Neat
    <2> QED BY <2>1, <2>4, <2>5, <2>6, <2>7, <2>8, <2>9
  <1> QED BY <1>1, <1>2

\* No interleaving of retransmission timer, acknowledgement and nested
\* send_packet registers the link timer while it is registered.
THEOREM SpecTimerNeverRegisteredTwice == Spec => []TimerNeverRegisteredTwice
  <1>1. Init => TimerInv
    BY BootOrderly DEF Init, TimerInv, Neat
  <1>2. TypeOK /\ TimerInv /\ [Next]_vars => TimerInv'
    BY NextOrderly
  <1>3. TimerInv => TimerNeverRegisteredTwice
    BY DEF TimerInv, TimerNeverRegisteredTwice, Orderly
  <1> QED BY <1>1, <1>2, <1>3, SpecTypeOK, PTL DEF Spec

=============================================================================
