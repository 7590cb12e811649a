--------------------------- MODULE L2capCbmProofs ---------------------------
(***************************************************************************)
(* Proofs about L2capCbm: its type invariant, that no credit is lost, and  *)
(* that the channel implements the specification SduFifo.                  *)
(*                                                                         *)
(* The inductive invariant is a conjunction over the two records a, b of   *)
(* the devices and what is under way between them, so that the lemmas are  *)
(* about values and not about the variables.  A step changes one record    *)
(* (an API call or a handler) and then runs l2cap_run; each half preserves *)
(* the invariant by itself.                                                *)
(***************************************************************************)
EXTENDS L2capCbm, TotalsProofs, SequenceTheorems

New(x) == IF x = A THEN {"none", "will_request", "wait_response"}
          ELSE {"none", "wait_accept", "will_accept", "will_decline"}
Late == {"open", "will_disconnect", "wait_disconnect", "will_answer", "closed"}
Will == {"will_request", "will_accept", "will_decline", "will_disconnect",
         "will_answer"}

\* The order in which a and b open, and what is under way before they do
Opening(a, b, wa, wb) ==
    /\ a.state \in New(A) \cup Late /\ b.state \in New(B) \cup Late
    /\ a.state \in {"none", "will_request"} =>
            /\ b.state = "none" /\ wa = << >> /\ a.in = 0
    /\ a.state \in New(A) => a.out = 0
    /\ b.state \in New(B) =>
            /\ a.state \in New(A) /\ b.in = 0 /\ wb = << >>
            /\ b.state # "none" => a.state = "wait_response" /\ wa = << >>
    /\ b.state = "none" =>
            /\ b.out = 0
            /\ a.state = "wait_response" => Len(wa) = 1 /\ wa[1].type = "request"
    /\ a.state = "wait_response" /\ b.state \in Late =>
            wb # << >> /\ wb[1].type \in {"accept", "decline"}
    /\ \A i \in DOMAIN wa : /\ wa[i].type \notin {"accept", "decline"}
                            /\ wa[i].type = "request" => b.state = "none"
    /\ \A i \in DOMAIN wb : /\ wb[i].type # "request"
                            /\ wb[i].type \in {"accept", "decline"} =>
                                    i = 1 /\ a.state = "wait_response"

\* What s may send and has under way to v, and what v counts on; a closed
\* device ignores what it receives.
Balance(s, v, ws, wv) ==
    /\ v.in + v.new < CreditMod
    /\ v.state # "closed" => s.out + Pdus(ws) + Grants(wv) <= v.in
    /\ v.state = "closed" => s.out + Grants(wv) <= v.in
    /\ s.state # "closed" /\ v.state # "closed" =>
            s.out + Pdus(ws) + Grants(wv) = v.in

Before(p, q) == p[1] < q[1] \/ (p[1] = q[1] /\ p[2] < q[2])

\* The piece that s sends next, and the one that v expects next
SendPos(s, sub) == IF s.sdu = << >> THEN << Len(sub) + 1, 1 >>
                   ELSE << Len(sub), s.pos + 1 >>
RecvPos(v, del) == << Len(del) + 1, Len(v.rbuf) + 1 >>

IsPiece(p, sub) == p[1] \in 1..Len(sub) /\ p[2] \in 1..Len(sub[p[1]])

\* The SDUs of s: the one being sent is the last one it accepted.
Sender(s, sub) ==
    /\ \A k \in 1..Len(sub) :
            sub[k] = NewSdu(k, Len(sub[k])) /\ Len(sub[k]) \in 1..MaxPieces
    /\ s.sdu # << >> => /\ Len(sub) > 0 /\ s.sdu = sub[Len(sub)]
                        /\ s.pos < Len(s.sdu)
    /\ s.sdu = << >> => s.pos = 0

\* v has delivered the first SDUs, and has the start of the next one.
Receiver(v, sub, del) ==
    /\ Len(del) <= Len(sub)
    /\ \A k \in 1..Len(del) : del[k] = sub[k]
    /\ v.rbuf = << >> => v.rlen = 0
    /\ v.rbuf # << >> /\ v.state # "closed" =>
            /\ Len(del) < Len(sub) /\ v.rlen = Len(sub[Len(del) + 1])
            /\ Len(v.rbuf) < v.rlen
            /\ \A i \in 1..Len(v.rbuf) : v.rbuf[i] = << Len(del) + 1, i >>

\* The pieces under way are those between the two positions, in order.
Stream(s, v, ws, sub, del) ==
    /\ ~Before(SendPos(s, sub), RecvPos(v, del))
    /\ \A i \in DOMAIN ws : ws[i].type = "pdu" =>
            /\ IsPiece(ws[i].piece, sub)
            /\ ws[i].len = IF ws[i].piece[2] = 1 THEN Len(sub[ws[i].piece[1]]) ELSE 0
            /\ Before(ws[i].piece, SendPos(s, sub))
            /\ ~Before(ws[i].piece, RecvPos(v, del))
    /\ \A i, j \in DOMAIN ws :
            i < j /\ ws[i].type = "pdu" /\ ws[j].type = "pdu"
                => Before(ws[i].piece, ws[j].piece)
    /\ \A p \in Piece :
            IsPiece(p, sub) /\ Before(p, SendPos(s, sub)) /\ ~Before(p, RecvPos(v, del))
                => \E i \in DOMAIN ws : ws[i].type = "pdu" /\ ws[i].piece = p

\* A device disconnects only after it was asked to.
Wanted(s, ws, q) ==
    /\ s.state \in {"will_disconnect", "wait_disconnect", "will_answer"} => q
    /\ \A i \in DOMAIN ws : ws[i].type \in {"disconnect", "answer"} => q

Direction(s, v, ws, wv, sub, del, q) ==
    /\ Balance(s, v, ws, wv)
    /\ Sender(s, sub) /\ Receiver(v, sub, del)
    /\ v.state # "closed" => Stream(s, v, ws, sub, del)
    /\ Wanted(s, ws, q)

\* l2cap_run has sent what it could.
Settled(s) == s.state \in Will => s.busy

PairInv(a, b, wa, wb, subA, subB, delA, delB, q) ==
    /\ Opening(a, b, wa, wb)
    /\ Direction(a, b, wa, wb, subA, delA, q)
    /\ Direction(b, a, wb, wa, subB, delB, q)
    /\ Len(subA) + Len(subB) <= MaxSdus

IInv ==
    /\ CbmTypeOK
    /\ PairInv(ch[A], ch[B], wire[A], wire[B], submitted[A], submitted[B],
               delivered[A], delivered[B], asked)
    /\ \A x \in Sides : Settled(ch[x])

-----------------------------------------------------------------------------
(* Packets under way *)

\* A packet is a PDU or carries a number.
LEMMA PacketFields ==
    ASSUME NEW p \in Packet
    PROVE  /\ p.type = "pdu" => p.len \in 0..MaxPieces /\ p.piece \in Piece
           /\ p.type # "pdu" => p.type \in Signals /\ p.n \in Credits /\ p.n \in Nat
  BY CreditAssumption DEF Packet, Signals, Credits

\* The sums over what is under way are natural numbers, 0 when there is nothing.
LEMMA WireType ==
    ASSUME NEW w \in Seq(Packet)
    PROVE  /\ Pdus(w) \in Nat /\ Grants(w) \in Nat
           /\ w = << >> => Pdus(w) = 0 /\ Grants(w) = 0
  <1> DEFINE f == [i \in DOMAIN w |-> IF w[i].type = "pdu" THEN 1 ELSE 0]
             g == [i \in DOMAIN w |->
                    IF w[i].type \in {"request", "accept", "credits"} THEN w[i].n ELSE 0]
  <1>1. DOMAIN w = 1..Len(w) /\ Len(w) \in Nat /\ \A i \in 1..Len(w) : w[i] \in Packet
    OBVIOUS
  <1>2. IsFiniteSet(DOMAIN w)
    BY <1>1, FS_Interval
  <1>3. f \in [DOMAIN w -> Nat] /\ g \in [DOMAIN w -> Nat]
    BY <1>1, PacketFields
  <1>4. Total(f) \in Nat /\ Total(g) \in Nat
    BY <1>2, <1>3, TotalType
  <1>5. w = << >> => DOMAIN f = {} /\ DOMAIN g = {}
    OBVIOUS
  <1>6. w = << >> => Total(f) = 0 /\ Total(g) = 0
    BY <1>5, TotalEmpty
  <1>7. QED
    BY <1>4, <1>6 DEF Pdus, Grants

\* What a packet adds to the sums
OnePdu(p) == IF p.type = "pdu" THEN 1 ELSE 0
OneGrant(p) == IF p.type \in {"request", "accept", "credits"} THEN p.n ELSE 0

\* A packet that is sent is added to the sums.
LEMMA WireAppend ==
    ASSUME NEW w \in Seq(Packet), NEW p \in Packet
    PROVE  /\ Append(w, p) \in Seq(Packet)
           /\ Pdus(Append(w, p)) = Pdus(w) + OnePdu(p)
           /\ Grants(Append(w, p)) = Grants(w) + OneGrant(p)
  <1> DEFINE n == Len(w)
             z == Append(w, p)
             f == [i \in DOMAIN w |-> OnePdu(w[i])]
             g == [i \in DOMAIN w |-> OneGrant(w[i])]
             F == [i \in DOMAIN z |-> OnePdu(z[i])]
             G == [i \in DOMAIN z |-> OneGrant(z[i])]
  <1>1. /\ n \in Nat /\ z \in Seq(Packet) /\ DOMAIN w = 1..n /\ DOMAIN z = 1..(n + 1)
        /\ \A i \in 1..n : z[i] = w[i]
        /\ z[n + 1] = p
    OBVIOUS
  <1>2. /\ \A i \in 1..n : w[i] \in Packet
        /\ \A i \in 1..(n + 1) : z[i] \in Packet
    BY <1>1, ElementOfSeq
  <1>3. \A e \in Packet : OnePdu(e) \in Nat /\ OneGrant(e) \in Nat
    BY PacketFields DEF OnePdu, OneGrant
  <1>4. /\ f \in [1..n -> Nat] /\ g \in [1..n -> Nat]
        /\ F \in [1..(n + 1) -> Nat] /\ G \in [1..(n + 1) -> Nat]
    BY <1>1, <1>2, <1>3
  <1>5. /\ \A i \in 1..n : F[i] = f[i] /\ G[i] = g[i]
        /\ F[n + 1] = OnePdu(p) /\ G[n + 1] = OneGrant(p)
    BY <1>1
  <1>6. Pdus(w) = Total(f) /\ Grants(w) = Total(g) /\ Pdus(z) = Total(F) /\ Grants(z) = Total(G)
    BY DEF Pdus, Grants, OnePdu, OneGrant
  <1> HIDE DEF f, g, F, G, n, z
  <1>7. Total(F) = Total(f) + F[n + 1] /\ Total(G) = Total(g) + G[n + 1]
    BY <1>1, <1>4, <1>5, TotalAppend
  <1>8. QED
    BY <1>1, <1>5, <1>6, <1>7 DEF z

\* A packet that is received is taken from the sums.
LEMMA WireTail ==
    ASSUME NEW w \in Seq(Packet), w # << >>
    PROVE  /\ Head(w) \in Packet /\ Tail(w) \in Seq(Packet)
           /\ Pdus(w) = OnePdu(Head(w)) + Pdus(Tail(w))
           /\ Grants(w) = OneGrant(Head(w)) + Grants(Tail(w))
  <1> DEFINE n == Len(w) - 1
             z == Tail(w)
             f == [i \in DOMAIN w |-> OnePdu(w[i])]
             g == [i \in DOMAIN w |-> OneGrant(w[i])]
             F == [i \in DOMAIN z |-> OnePdu(z[i])]
             G == [i \in DOMAIN z |-> OneGrant(z[i])]
  <1>1. /\ n \in Nat /\ z \in Seq(Packet) /\ DOMAIN w = 1..(n + 1) /\ DOMAIN z = 1..n
        /\ \A i \in 1..n : z[i] = w[i + 1]
        /\ w[1] = Head(w) /\ Head(w) \in Packet
    OBVIOUS
  <1>2. /\ \A i \in 1..n : z[i] \in Packet
        /\ \A i \in 1..(n + 1) : w[i] \in Packet
    BY <1>1, ElementOfSeq
  <1>3. \A e \in Packet : OnePdu(e) \in Nat /\ OneGrant(e) \in Nat
    BY PacketFields DEF OnePdu, OneGrant
  <1>4. /\ F \in [1..n -> Nat] /\ G \in [1..n -> Nat]
        /\ f \in [1..(n + 1) -> Nat] /\ g \in [1..(n + 1) -> Nat]
    BY <1>1, <1>2, <1>3
  <1>5. /\ \A i \in 1..n : F[i] = f[i + 1] /\ G[i] = g[i + 1]
        /\ f[1] = OnePdu(Head(w)) /\ g[1] = OneGrant(Head(w))
    BY <1>1
  <1>6. Pdus(w) = Total(f) /\ Grants(w) = Total(g) /\ Pdus(z) = Total(F) /\ Grants(z) = Total(G)
    BY DEF Pdus, Grants, OnePdu, OneGrant
  <1> HIDE DEF f, g, F, G, n, z
  <1>7. Total(f) = f[1] + Total(F) /\ Total(g) = g[1] + Total(G)
    BY <1>1, <1>4, <1>5, TotalTail
  <1>8. QED
    BY <1>1, <1>5, <1>6, <1>7 DEF z

-----------------------------------------------------------------------------
(* What l2cap_run does: nothing, or one packet is sent *)

\* A device in the middle of a step
Working ==
    [ state : States, in : Credits, new : Credits, auto : BOOLEAN, out : Credits,
      sdu : Sdu \cup {<< >>}, pos : 0..MaxPieces, rlen : 0..MaxPieces,
      rbuf : Seq(Piece), busy : BOOLEAN, notify : BOOLEAN, out_q : Seq(Packet) ]

SameSdu(s, r) == r.sdu = s.sdu /\ r.pos = s.pos
SameCredits(s, r) == r.in = s.in /\ r.new = s.new /\ r.out = s.out

Nothing(s, r) ==
    /\ r.out_q = << >> /\ r.state = s.state /\ r.busy = s.busy
    /\ SameSdu(s, r) /\ SameCredits(s, r)

\* The first credits go out with the request, or with the answer to it.
Offers(s, r, p) ==
    /\ \/ s.state = "will_request" /\ r.state = "wait_response" /\ p = Signal("request", s.new)
       \/ s.state = "will_accept" /\ r.state = "open" /\ p = Signal("accept", s.new)
    /\ r.in = s.new /\ r.new = 0 /\ r.out = s.out /\ SameSdu(s, r)

Grants1(s, r, p) ==
    /\ s.state = "open" /\ r.state = "open" /\ p = Signal("credits", s.new)
    /\ r.in = (s.in + s.new) % CreditMod /\ r.new = 0 /\ r.out = s.out
    /\ SameSdu(s, r)

Ends(s, r, p) ==
    /\ \/ s.state = "will_decline" /\ r.state = "closed" /\ p = Signal("decline", 0)
       \/ s.state = "will_disconnect" /\ r.state = "wait_disconnect"
              /\ p = Signal("disconnect", 0)
       \/ s.state = "will_answer" /\ r.state = "closed" /\ p = Signal("answer", 0)
    /\ SameCredits(s, r) /\ SameSdu(s, r)

Sends(s, r, p) ==
    /\ s.state = "open" /\ r.state = "open" /\ s.sdu # << >> /\ s.out > 0
    /\ p = Pdu(IF s.pos = 0 THEN Len(s.sdu) ELSE 0, s.sdu[s.pos + 1])
    /\ r.in = s.in /\ r.new = s.new /\ r.out = s.out - 1
    /\ r.sdu = IF s.pos + 1 = Len(s.sdu) THEN << >> ELSE s.sdu
    /\ r.pos = IF s.pos + 1 = Len(s.sdu) THEN 0 ELSE s.pos + 1

Outcome(s, r) ==
    /\ r.auto = s.auto /\ r.rlen = s.rlen /\ r.rbuf = s.rbuf
    /\ \/ Nothing(s, r)
       \/ \E p \in Packet :
            /\ r.out_q = << p >> /\ ~s.busy /\ r.busy
            /\ Offers(s, r, p) \/ Grants1(s, r, p) \/ Ends(s, r, p) \/ Sends(s, r, p)

\* The bounds between fields that CbmTypeOK states
Fits(s) == s.pos <= Len(s.sdu) /\ Len(s.rbuf) <= s.rlen

\* A channel is in the middle of a step before it sends anything.
LEMMA ChannelWorking ==
    ASSUME NEW s \in Channel
    PROVE  s \in Working /\ s.out_q = << >>
  <1>1. << >> \in Seq(Packet)
    OBVIOUS
  <1>2. QED
    BY <1>1 DEF Channel, Working

\* At the end of a step what was sent leaves the record.
LEMMA WorkingChannel ==
    ASSUME NEW s \in Working
    PROVE  /\ [s EXCEPT !.out_q = << >>] \in Channel
           /\ LET r == [s EXCEPT !.out_q = << >>]
              IN  /\ r.state = s.state /\ r.in = s.in /\ r.new = s.new /\ r.auto = s.auto
                  /\ r.out = s.out /\ r.sdu = s.sdu /\ r.pos = s.pos /\ r.rlen = s.rlen
                  /\ r.rbuf = s.rbuf /\ r.busy = s.busy /\ r.notify = s.notify
  BY DEF Channel, Working

\* An SDU is a sequence of pieces.
LEMMA SduSeq ==
    ASSUME NEW d \in Sdu
    PROVE  /\ d \in Seq(Piece) /\ Len(d) \in 1..MaxPieces
           /\ \E k \in 1..MaxSdus : d = NewSdu(k, Len(d))
           /\ d # << >>
  <1>1. PICK k \in 1..MaxSdus, n \in 1..MaxPieces : d = NewSdu(k, n)
    BY DEF Sdu
  <1>2. \A i \in 1..n : << k, i >> \in Piece
    BY CbmBoundAssumption DEF Piece
  <1>3. d \in [1..n -> Piece]
    BY <1>1, <1>2 DEF NewSdu
  <1>4. d \in Seq(Piece) /\ Len(d) = n
    BY <1>3, IsASeq, CbmBoundAssumption
  <1>5. QED
    BY <1>1, <1>4

\* Sending sets busy and puts one packet out.
LEMMA TransmitType ==
    ASSUME NEW s \in Working, s.out_q = << >>, NEW p \in Packet
    PROVE  LET r == Transmit(s, p)
           IN  /\ r \in Working /\ r.busy = TRUE /\ r.out_q = << p >>
               /\ r.state = s.state /\ r.in = s.in /\ r.new = s.new /\ r.auto = s.auto
               /\ r.out = s.out /\ r.sdu = s.sdu /\ r.pos = s.pos /\ r.rlen = s.rlen
               /\ r.rbuf = s.rbuf /\ r.notify = s.notify
  <1>1. << p >> \in Seq(Packet) /\ Append(<< >>, p) = << p >>
    OBVIOUS
  <1>2. QED
    BY <1>1 DEF Transmit, Working

\* l2cap_credit_based_send_pdu
LEMMA SendPduOutcome ==
    ASSUME NEW s \in Working, Fits(s), s.out_q = << >>, ReadyToSend(s),
           s.pos < Len(s.sdu)
    PROVE  LET r == SendPdu(s)
           IN  r \in Working /\ Fits(r) /\ Outcome(s, r)
  <1> DEFINE r == SendPdu(s)
             p == Pdu(IF s.pos = 0 THEN Len(s.sdu) ELSE 0, s.sdu[s.pos + 1])
  <1>1. /\ s.sdu \in Sdu /\ s.out \in 1..(CreditMod - 1) /\ s.pos \in Nat
        /\ s.state = "open" /\ ~s.busy /\ s.sdu # << >>
    BY CreditAssumption DEF Working, ReadyToSend, Credits
  <1>2. s.sdu \in Seq(Piece) /\ Len(s.sdu) \in 1..MaxPieces
    BY <1>1, SduSeq
  <1>3. s.sdu[s.pos + 1] \in Piece
    BY <1>1, <1>2
  <1>4. p \in Packet /\ p.type = "pdu"
    BY <1>2, <1>3, CbmBoundAssumption DEF Packet, Pdu
  <1> DEFINE t == [s EXCEPT !.out = @ - 1,
                            !.sdu = IF s.pos + 1 = Len(s.sdu) THEN << >> ELSE @,
                            !.pos = IF s.pos + 1 = Len(s.sdu) THEN 0 ELSE @ + 1]
  <1>5. /\ t \in Working /\ t.out_q = << >> /\ t.state = s.state /\ t.in = s.in
        /\ t.new = s.new /\ t.out = s.out - 1
        /\ t.sdu = (IF s.pos + 1 = Len(s.sdu) THEN << >> ELSE s.sdu)
        /\ t.pos = (IF s.pos + 1 = Len(s.sdu) THEN 0 ELSE s.pos + 1)
        /\ t.auto = s.auto /\ t.rlen = s.rlen /\ t.rbuf = s.rbuf
    <2>1. s.out - 1 \in Credits
      BY <1>1, CreditAssumption DEF Credits
    <2>2. s.pos + 1 \in 0..MaxPieces /\ 0 \in 0..MaxPieces
      BY <1>1, <1>2, CbmBoundAssumption
    <2>3. QED
      BY <2>1, <2>2 DEF Working
  <1>6. r = Transmit(t, p)
    BY DEF SendPdu
  <1> HIDE DEF t, p, r
  <1>7. /\ r \in Working /\ r.out_q = << p >> /\ r.busy /\ r.state = s.state /\ r.in = s.in
        /\ r.new = s.new /\ r.out = s.out - 1
        /\ r.sdu = (IF s.pos + 1 = Len(s.sdu) THEN << >> ELSE s.sdu)
        /\ r.pos = (IF s.pos + 1 = Len(s.sdu) THEN 0 ELSE s.pos + 1)
        /\ r.auto = s.auto /\ r.rlen = s.rlen /\ r.rbuf = s.rbuf
    BY <1>4, <1>5, <1>6, TransmitType
  <1>8. Fits(r)
    BY <1>1, <1>2, <1>7 DEF Fits
  <1>9. Sends(s, r, p)
    BY <1>1, <1>7 DEF Sends, p
  <1>10. QED
    BY <1>1, <1>4, <1>7, <1>8, <1>9 DEF Outcome, r

\* l2cap_notify_channel_can_send
LEMMA NotifyOutcome ==
    ASSUME NEW s \in Working, Fits(s), s.out_q = << >>,
           s.sdu # << >> => s.pos < Len(s.sdu)
    PROVE  LET r == NotifyCanSend(s)
           IN  r \in Working /\ Fits(r) /\ Outcome(s, r)
  <1>1. CASE ReadyToSend(s)
    <2>1. s.pos < Len(s.sdu)
      BY <1>1 DEF ReadyToSend
    <2>2. QED
      BY <1>1, <2>1, SendPduOutcome DEF NotifyCanSend
  <1>2. CASE ~ReadyToSend(s)
    BY <1>2 DEF NotifyCanSend, Outcome, Nothing, SameSdu, SameCredits
  <1>3. QED
    BY <1>1, <1>2

\* l2cap_cbm_run_channel
LEMMA RunChannelOutcome ==
    ASSUME NEW s \in Working, Fits(s), s.out_q = << >>, ~s.busy
    PROVE  LET r == RunChannel(s)
           IN  /\ r \in Working /\ Fits(r) /\ Outcome(s, r)
               /\ r.state \notin Will
               /\ r = s \/ (r.busy /\ r.out_q # << >>)
               /\ r.notify = s.notify
  <1> DEFINE r == RunChannel(s)
             Result(t, p) ==
                /\ t \in Working /\ t.out_q = << >> /\ Fits(t) /\ t.state \notin Will
                /\ t.auto = s.auto /\ t.rlen = s.rlen /\ t.rbuf = s.rbuf
                /\ t.notify = s.notify /\ p \in Packet
                /\ Offers(s, t, p) \/ Grants1(s, t, p) \/ Ends(s, t, p)
  <1>1. ASSUME NEW t, NEW p, Result(t, p), r = Transmit(t, p)
        PROVE  /\ r \in Working /\ Fits(r) /\ Outcome(s, r) /\ r.state \notin Will
               /\ r.busy /\ r.out_q # << >> /\ r.notify = s.notify
    <2> HIDE DEF r
    <2>1. /\ r \in Working /\ r.busy = TRUE /\ r.out_q = << p >>
          /\ r.state = t.state /\ r.in = t.in /\ r.new = t.new /\ r.auto = t.auto
          /\ r.out = t.out /\ r.sdu = t.sdu /\ r.pos = t.pos /\ r.rlen = t.rlen
          /\ r.rbuf = t.rbuf /\ r.notify = t.notify
      BY <1>1, TransmitType
    <2>2. Fits(r)
      BY <1>1, <2>1 DEF Fits
    <2>3. Offers(s, r, p) \/ Grants1(s, r, p) \/ Ends(s, r, p)
      BY <1>1, <2>1 DEF Offers, Grants1, Ends, SameCredits, SameSdu
    <2>4. Outcome(s, r)
      BY <1>1, <2>1, <2>3 DEF Outcome
    <2>5. << p >> # << >>
      OBVIOUS
    <2>6. QED
      BY <1>1, <2>1, <2>2, <2>4, <2>5
  <1>2. s.state \in States /\ s.new \in Credits /\ s.in \in Credits /\ 0 \in Credits
    BY CreditAssumption DEF Working, Credits
  <1>3. \A t \in Signals, n \in Credits : Signal(t, n) \in Packet
    BY DEF Packet, Signal
  <1>4. CASE s.state = "will_request"
    <2> DEFINE t == [s EXCEPT !.state = "wait_response", !.in = s.new, !.new = 0]
    <2>1. t \in Working
      BY <1>2 DEF Working, States
    <2>2. Offers(s, t, Signal("request", s.new))
      BY <1>4 DEF Offers, SameSdu, Working
    <2>3. Result(t, Signal("request", s.new))
      BY <2>1, <2>2, <1>2, <1>3 DEF Fits, Will, Working, Signals
    <2>4. r = Transmit(t, Signal("request", s.new))
      BY <1>4 DEF RunChannel
    <2>5. QED
      BY <2>3, <2>4, <1>1
  <1>5. CASE s.state = "will_accept"
    <2> DEFINE t == [s EXCEPT !.state = "open", !.in = s.new, !.new = 0]
    <2>1. t \in Working
      BY <1>2 DEF Working, States
    <2>2. Offers(s, t, Signal("accept", s.new))
      BY <1>5 DEF Offers, SameSdu, Working
    <2>3. Result(t, Signal("accept", s.new))
      BY <2>1, <2>2, <1>2, <1>3 DEF Fits, Will, Working, Signals
    <2>4. r = Transmit(t, Signal("accept", s.new))
      BY <1>5 DEF RunChannel
    <2>5. QED
      BY <2>3, <2>4, <1>1
  <1>6. CASE s.state = "will_decline"
    <2> DEFINE t == [s EXCEPT !.state = "closed"]
    <2>1. t \in Working
      BY <1>2 DEF Working, States
    <2>2. Ends(s, t, Signal("decline", 0))
      BY <1>6 DEF Ends, SameSdu, SameCredits, Working
    <2>3. Result(t, Signal("decline", 0))
      BY <2>1, <2>2, <1>2, <1>3 DEF Fits, Will, Working, Signals
    <2>4. r = Transmit(t, Signal("decline", 0))
      BY <1>6 DEF RunChannel
    <2>5. QED
      BY <2>3, <2>4, <1>1
  <1>7. CASE s.state = "open" /\ s.new > 0
    <2> DEFINE t == [s EXCEPT !.new = 0, !.in = (@ + s.new) % CreditMod]
    <2>1. (s.in + s.new) % CreditMod \in Credits
      BY <1>2, CreditAssumption DEF Credits
    <2>2. t \in Working
      BY <1>2, <2>1 DEF Working, States
    <2>3. Grants1(s, t, Signal("credits", s.new))
      BY <1>7 DEF Grants1, SameSdu, Working
    <2>4. Result(t, Signal("credits", s.new))
      BY <2>2, <2>3, <1>2, <1>3, <1>7 DEF Fits, Will, Working, Signals
    <2>5. r = Transmit(t, Signal("credits", s.new))
      BY <1>7 DEF RunChannel, SendCredits
    <2>6. QED
      BY <2>4, <2>5, <1>1
  <1>8. CASE s.state = "will_disconnect"
    <2> DEFINE t == [s EXCEPT !.state = "wait_disconnect"]
    <2>1. t \in Working
      BY <1>2 DEF Working, States
    <2>2. Ends(s, t, Signal("disconnect", 0))
      BY <1>8 DEF Ends, SameSdu, SameCredits, Working
    <2>3. Result(t, Signal("disconnect", 0))
      BY <2>1, <2>2, <1>2, <1>3 DEF Fits, Will, Working, Signals
    <2>4. r = Transmit(t, Signal("disconnect", 0))
      BY <1>8 DEF RunChannel
    <2>5. QED
      BY <2>3, <2>4, <1>1
  <1>9. CASE s.state = "will_answer"
    <2> DEFINE t == [s EXCEPT !.state = "closed"]
    <2>1. t \in Working
      BY <1>2 DEF Working, States
    <2>2. Ends(s, t, Signal("answer", 0))
      BY <1>9 DEF Ends, SameSdu, SameCredits, Working
    <2>3. Result(t, Signal("answer", 0))
      BY <2>1, <2>2, <1>2, <1>3 DEF Fits, Will, Working, Signals
    <2>4. r = Transmit(t, Signal("answer", 0))
      BY <1>9 DEF RunChannel
    <2>5. QED
      BY <2>3, <2>4, <1>1
  <1>10. CASE s.state \notin Will /\ ~(s.state = "open" /\ s.new > 0)
    <2>1. r = s
      BY <1>10 DEF RunChannel, Will
    <2>2. QED
      BY <1>10, <2>1 DEF Outcome, Nothing, SameSdu, SameCredits
  <1>11. QED
    BY <1>4, <1>5, <1>6, <1>7, <1>8, <1>9, <1>10 DEF Will

\* l2cap_run: whatever was to be sent is sent, unless the device is busy.
LEMMA RunOutcome ==
    ASSUME NEW s \in Working, Fits(s), s.out_q = << >>,
           s.sdu # << >> => s.pos < Len(s.sdu)
    PROVE  LET r == Run(s)
           IN  r \in Working /\ Fits(r) /\ Outcome(s, r) /\ Settled(r)
  <1> DEFINE c == IF s.busy THEN s ELSE RunChannel(s)
             d == [c EXCEPT !.notify = FALSE]
             r == Run(s)
  <1>1. /\ c \in Working /\ Fits(c) /\ Outcome(s, c) /\ Settled(c)
        /\ c = s \/ (c.busy /\ c.out_q # << >>)
    <2>1. CASE s.busy
      BY <2>1 DEF Outcome, Nothing, SameSdu, SameCredits, Settled
    <2>2. CASE ~s.busy
      BY <2>2, RunChannelOutcome DEF Settled
    <2>3. QED
      BY <2>1, <2>2
  <1>2. r = IF c.notify THEN NotifyCanSend(d) ELSE c
    BY DEF Run
  <1> HIDE DEF c, r
  <1>3. /\ d \in Working /\ d.out_q = c.out_q /\ d.state = c.state /\ d.busy = c.busy
        /\ d.in = c.in /\ d.new = c.new /\ d.auto = c.auto /\ d.out = c.out
        /\ d.sdu = c.sdu /\ d.pos = c.pos /\ d.rlen = c.rlen /\ d.rbuf = c.rbuf
    BY <1>1 DEF Working
  <1> HIDE DEF d
  <1>4. CASE c.busy \/ ~c.notify
    <2>1. /\ r \in Working /\ r.out_q = c.out_q /\ r.state = c.state /\ r.busy = c.busy
          /\ r.in = c.in /\ r.new = c.new /\ r.auto = c.auto /\ r.out = c.out
          /\ r.sdu = c.sdu /\ r.pos = c.pos /\ r.rlen = c.rlen /\ r.rbuf = c.rbuf
      BY <1>1, <1>2, <1>3, <1>4 DEF NotifyCanSend, ReadyToSend
    <2>2. Fits(r) /\ Settled(r)
      BY <1>1, <2>1 DEF Fits, Settled
    <2>3. Outcome(s, r)
      BY <1>1, <2>1 DEF Outcome, Nothing, Offers, Grants1, Ends, Sends, SameSdu, SameCredits
    <2>4. QED
      BY <2>1, <2>2, <2>3 DEF r
  <1>5. CASE ~c.busy /\ c.notify
    <2>1. c = s
      BY <1>1, <1>5
    <2>2. Fits(d) /\ d.out_q = << >> /\ (d.sdu # << >> => d.pos < Len(d.sdu))
      BY <1>1, <1>3, <2>1 DEF Fits
    <2>3. r \in Working /\ Fits(r) /\ Outcome(d, r)
      BY <1>2, <1>3, <1>5, <2>2, NotifyOutcome
    <2>4. Outcome(s, r)
      BY <1>3, <2>1, <2>3 DEF Outcome, Nothing, Offers, Grants1, Ends, Sends, SameSdu, SameCredits
    <2>5. Settled(r)
      BY <1>1, <1>3, <1>5, <2>3 DEF Settled, Outcome, Nothing
    <2>6. QED
      BY <2>3, <2>4, <2>5 DEF r
  <1>6. QED
    BY <1>4, <1>5

-----------------------------------------------------------------------------
(* What l2cap_run sends keeps the invariant *)

\* Where the elements of a longer queue are
LEMMA AppendIndex ==
    ASSUME NEW w \in Seq(Packet), NEW p
    PROVE  /\ Len(w) \in Nat /\ DOMAIN w = 1..Len(w)
           /\ Len(Append(w, p)) = Len(w) + 1
           /\ DOMAIN Append(w, p) = 1..(Len(w) + 1)
           /\ \A i \in 1..Len(w) : Append(w, p)[i] = w[i]
           /\ Append(w, p)[Len(w) + 1] = p
  OBVIOUS

\* What follows a signal is in the same place of the stream.
LEMMA StreamSignal ==
    ASSUME NEW s, NEW r, NEW v, NEW ws \in Seq(Packet), NEW p \in Packet,
           NEW sub, NEW del, p.type # "pdu", SameSdu(s, r),
           Stream(s, v, ws, sub, del)
    PROVE  Stream(r, v, Append(ws, p), sub, del)
  <1> DEFINE z == Append(ws, p)
             n == Len(ws)
  <1>1. SendPos(r, sub) = SendPos(s, sub)
    BY DEF SendPos, SameSdu
  <1>2. /\ n \in Nat /\ DOMAIN ws = 1..n /\ DOMAIN z = 1..(n + 1)
        /\ \A i \in 1..n : z[i] = ws[i]
        /\ z[n + 1] = p
    BY AppendIndex
  <1> HIDE DEF z, n
  <1>3. \A i \in DOMAIN z : z[i].type = "pdu" => i \in DOMAIN ws /\ z[i] = ws[i]
    BY <1>2
  <1>4. \A i \in DOMAIN ws : i \in DOMAIN z /\ z[i] = ws[i]
    BY <1>2
  <1>5. ~Before(SendPos(r, sub), RecvPos(v, del))
    BY <1>1 DEF Stream
  <1>6. \A i \in DOMAIN z : z[i].type = "pdu" =>
            /\ IsPiece(z[i].piece, sub)
            /\ z[i].len = IF z[i].piece[2] = 1 THEN Len(sub[z[i].piece[1]]) ELSE 0
            /\ Before(z[i].piece, SendPos(r, sub))
            /\ ~Before(z[i].piece, RecvPos(v, del))
    BY <1>1, <1>3 DEF Stream
  <1>7. \A i, j \in DOMAIN z : i < j /\ z[i].type = "pdu" /\ z[j].type = "pdu"
                => Before(z[i].piece, z[j].piece)
    BY <1>3 DEF Stream
  <1>8. \A x \in Piece :
            IsPiece(x, sub) /\ Before(x, SendPos(r, sub)) /\ ~Before(x, RecvPos(v, del))
                => \E i \in DOMAIN z : z[i].type = "pdu" /\ z[i].piece = x
    BY <1>1, <1>4 DEF Stream
  <1>9. QED
    BY <1>5, <1>6, <1>7, <1>8 DEF Stream, z

\* A PDU takes the next place of the stream.
LEMMA StreamPdu ==
    ASSUME NEW s \in Working, NEW r, NEW v, NEW ws \in Seq(Packet), NEW p \in Packet,
           NEW sub \in Seq(Sdu), NEW del \in Seq(Sdu), v.rbuf \in Seq(Piece),
           Sends(s, r, p), Sender(s, sub), Stream(s, v, ws, sub, del)
    PROVE  Sender(r, sub) /\ Stream(r, v, Append(ws, p), sub, del)
  <1> DEFINE z == Append(ws, p)
             n == Len(ws)
             S == Len(sub)
             L == Len(s.sdu)
             x == << S, s.pos + 1 >>
             recv == RecvPos(v, del)
  <1>1. /\ S \in Nat \ {0} /\ s.sdu = sub[S] /\ s.pos \in Nat /\ s.pos < L
        /\ L \in Nat /\ L = Len(sub[S]) /\ s.sdu = NewSdu(S, L)
    <2>1. S \in Nat /\ s.pos \in Nat /\ s.sdu \in Sdu
      BY CbmBoundAssumption DEF Sends, Working
    <2>2. L \in Nat
      BY <2>1, SduSeq, CbmBoundAssumption
    <2>3. QED
      BY <2>1, <2>2 DEF Sender, Sends
  <1>2. p.type = "pdu" /\ p.piece = x /\ p.len = IF s.pos = 0 THEN L ELSE 0
    <2>1. s.sdu[s.pos + 1] = x
      BY <1>1 DEF NewSdu
    <2>2. QED
      BY <2>1 DEF Sends, Pdu
  <1>3. SendPos(s, sub) = x
    BY DEF SendPos, Sends
  <1>4. SendPos(r, sub) = IF s.pos + 1 = L THEN << S + 1, 1 >> ELSE << S, s.pos + 2 >>
    <2>1. CASE s.pos + 1 = L
      <3>1. r.sdu = << >>
        BY <2>1 DEF Sends
      <3>2. QED
        BY <2>1, <3>1 DEF SendPos
    <2>2. CASE s.pos + 1 # L
      <3>1. r.sdu # << >> /\ r.pos = s.pos + 1
        BY <2>2 DEF Sends
      <3>2. r.pos + 1 = s.pos + 2
        BY <1>1, <3>1
      <3>3. QED
        BY <2>2, <3>1, <3>2 DEF SendPos
    <2>3. QED
      BY <2>1, <2>2
  <1>40. /\ SendPos(r, sub)[1] = IF s.pos + 1 = L THEN S + 1 ELSE S
         /\ SendPos(r, sub)[2] = IF s.pos + 1 = L THEN 1 ELSE s.pos + 2
    BY <1>4
  <1>5. IsPiece(x, sub) /\ x[1] = S /\ x[2] = s.pos + 1
    BY <1>1 DEF IsPiece
  <1>6. /\ n \in Nat /\ DOMAIN ws = 1..n /\ DOMAIN z = 1..(n + 1)
        /\ \A i \in 1..n : z[i] = ws[i]
        /\ z[n + 1] = p
    BY AppendIndex
  <1>7. recv[1] \in Nat /\ recv[2] \in Nat
    BY DEF RecvPos
  <1>8. ~Before(x, recv)
    BY <1>3 DEF Stream
  <1> DEFINE y1 == SendPos(r, sub)[1]
             y2 == SendPos(r, sub)[2]
  <1>80. S \in Nat /\ s.pos \in Nat /\ L \in Nat /\ s.pos < L /\ L = Len(sub[S])
         /\ y1 \in Nat /\ y2 \in Nat
    BY <1>1, <1>40
  <1>81. s.pos + 1 = L => y1 = S + 1 /\ y2 = 1
    BY <1>40
  <1>82. s.pos + 1 # L => y1 = S /\ y2 = s.pos + 2
    BY <1>40
  <1> HIDE DEF y1, y2, x, recv, S, L
  <1>9. Before(x, SendPos(r, sub)) /\ ~Before(SendPos(r, sub), recv)
    BY <1>80, <1>81, <1>82, <1>5, <1>7, <1>8 DEF Before, y1, y2
  <1>10. ASSUME NEW y, IsPiece(y, sub)
         PROVE  /\ Before(y, x) => Before(y, SendPos(r, sub))
                /\ Before(y, SendPos(r, sub)) => Before(y, x) \/ (y[1] = x[1] /\ y[2] = x[2])
    <2>1. y[1] \in 1..S /\ y[2] \in 1..Len(sub[y[1]])
      BY <1>10 DEF IsPiece, S
    <2>2. Len(sub[y[1]]) \in Nat
      BY <2>1, CbmBoundAssumption DEF Sender
    <2>3. CASE s.pos + 1 = L
      BY <1>80, <1>81, <1>82, <1>5, <2>1, <2>2, <2>3 DEF Before, y1, y2
    <2>4. CASE s.pos + 1 # L
      <3>1. y[1] \in Nat /\ y[2] \in Nat
        BY <1>80, <2>1, <2>2
      <3>2. y1 = S /\ y2 = s.pos + 2 /\ x[1] = S /\ x[2] = s.pos + 1
        BY <1>82, <1>5, <2>4
      <3>3. \A k \in Nat : k < s.pos + 2 <=> k < s.pos + 1 \/ k = s.pos + 1
        BY <1>80
      <3>4. QED
        BY <3>1, <3>2, <3>3 DEF Before, y1, y2
    <2>5. QED
      BY <2>3, <2>4
  <1> HIDE DEF z, n
  <1>11. \A i \in DOMAIN z : z[i].type = "pdu" =>
            /\ IsPiece(z[i].piece, sub)
            /\ z[i].len = IF z[i].piece[2] = 1 THEN Len(sub[z[i].piece[1]]) ELSE 0
            /\ Before(z[i].piece, SendPos(r, sub))
            /\ ~Before(z[i].piece, RecvPos(v, del))
    <2>1. ASSUME NEW i \in 1..n, ws[i].type = "pdu"
          PROVE  /\ IsPiece(ws[i].piece, sub)
                 /\ ws[i].len = IF ws[i].piece[2] = 1 THEN Len(sub[ws[i].piece[1]]) ELSE 0
                 /\ Before(ws[i].piece, SendPos(r, sub))
                 /\ ~Before(ws[i].piece, RecvPos(v, del))
      BY <2>1, <1>3, <1>6, <1>10 DEF Stream
    <2>2. /\ IsPiece(p.piece, sub)
          /\ p.len = IF p.piece[2] = 1 THEN Len(sub[p.piece[1]]) ELSE 0
          /\ Before(p.piece, SendPos(r, sub))
          /\ ~Before(p.piece, RecvPos(v, del))
      BY <1>1, <1>2, <1>5, <1>8, <1>9 DEF recv
    <2>3. \A i \in DOMAIN z : (i \in 1..n /\ z[i] = ws[i]) \/ z[i] = p
      BY <1>6
    <2>4. QED
      BY <2>1, <2>2, <2>3
  <1>12. \A i, j \in DOMAIN z : i < j /\ z[i].type = "pdu" /\ z[j].type = "pdu"
                => Before(z[i].piece, z[j].piece)
    <2>1. \A i \in 1..n : ws[i].type = "pdu" => Before(ws[i].piece, x)
      BY <1>3, <1>6 DEF Stream
    <2>2. \A i, j \in 1..n : i < j /\ ws[i].type = "pdu" /\ ws[j].type = "pdu"
                => Before(ws[i].piece, ws[j].piece)
      BY <1>6 DEF Stream
    <2>3. QED
      BY <1>2, <1>6, <2>1, <2>2
  <1>13. ASSUME NEW y \in Piece, IsPiece(y, sub), Before(y, SendPos(r, sub)),
                ~Before(y, RecvPos(v, del))
         PROVE  \E i \in DOMAIN z : z[i].type = "pdu" /\ z[i].piece = y
    <2>1. CASE Before(y, x)
      <3>1. PICK i \in 1..n : ws[i].type = "pdu" /\ ws[i].piece = y
        BY <1>3, <1>6, <1>13, <2>1 DEF Stream
      <3>2. i \in DOMAIN z /\ z[i] = ws[i]
        BY <1>6
      <3>3. QED
        BY <3>1, <3>2
    <2>2. CASE y[1] = x[1] /\ y[2] = x[2]
      <3>1. y = x
        BY <2>2 DEF Piece, x
      <3>2. QED
        BY <1>2, <1>6, <3>1
    <2>3. QED
      BY <1>10, <1>13, <2>1, <2>2
  <1>14. Stream(r, v, z, sub, del)
    BY <1>9, <1>11, <1>12, <1>13 DEF Stream, recv
  <1>15. Sender(r, sub)
    BY <1>1 DEF Sender, Sends, L, S
  <1>16. QED
    BY <1>14, <1>15 DEF z

\* Every packet of l2cap_run, for the direction in which it is sent
LEMMA OutcomeSends ==
    ASSUME NEW s \in Working, NEW r \in Working, NEW v \in Working,
           NEW ws \in Seq(Packet), NEW wv \in Seq(Packet),
           NEW sub \in Seq(Sdu), NEW del \in Seq(Sdu), NEW q \in BOOLEAN,
           Outcome(s, r), Direction(s, v, ws, wv, sub, del, q)
    PROVE  /\ ws \o r.out_q \in Seq(Packet)
           /\ Direction(r, v, ws \o r.out_q, wv, sub, del, q)
  <1>1. CASE Nothing(s, r)
    <2>1. ws \o r.out_q = ws
      BY <1>1 DEF Nothing
    <2>2. SendPos(r, sub) = SendPos(s, sub)
      BY <1>1 DEF SendPos, Nothing, SameSdu
    <2>3. Stream(s, v, ws, sub, del) => Stream(r, v, ws, sub, del)
      BY <2>2 DEF Stream
    <2>4. QED
      BY <1>1, <2>1, <2>3
         DEF Direction, Balance, Sender, Wanted, Nothing, SameSdu, SameCredits
  <1>2. ASSUME NEW p \in Packet, r.out_q = << p >>, ~s.busy,
               Offers(s, r, p) \/ Grants1(s, r, p) \/ Ends(s, r, p) \/ Sends(s, r, p)
        PROVE  /\ ws \o r.out_q \in Seq(Packet)
               /\ Direction(r, v, ws \o r.out_q, wv, sub, del, q)
    <2> DEFINE z == Append(ws, p)
               n == Len(ws)
    <2>1. ws \o r.out_q = z /\ z \in Seq(Packet)
      BY <1>2
    <2>2. Pdus(z) = Pdus(ws) + OnePdu(p) /\ Pdus(ws) \in Nat /\ Grants(wv) \in Nat
      BY WireAppend, WireType
    <2>3. /\ n \in Nat /\ DOMAIN ws = 1..n /\ DOMAIN z = 1..(n + 1)
          /\ \A i \in 1..n : z[i] = ws[i]
          /\ z[n + 1] = p
      BY AppendIndex
    <2>4. s.out \in Nat /\ r.out \in Nat /\ v.in \in Nat
      BY CreditAssumption DEF Working, Credits
    <2> HIDE DEF z, n
    <2>5. Balance(r, v, z, wv)
      <3>1. CASE Sends(s, r, p)
        <4>1. OnePdu(p) = 1 /\ r.out = s.out - 1 /\ s.state # "closed"
          BY <3>1 DEF Sends, OnePdu, Pdu
        <4>0. \A m, k, g \in Nat : (m - 1) + (k + 1) + g = m + k + g
          OBVIOUS
        <4>2. r.out + Pdus(z) + Grants(wv) = s.out + Pdus(ws) + Grants(wv)
          <5>1. Pdus(z) = Pdus(ws) + 1 /\ r.out = s.out - 1
            BY <4>1, <2>2
          <5>2. (s.out - 1) + (Pdus(ws) + 1) + Grants(wv) = s.out + Pdus(ws) + Grants(wv)
            BY <4>0, <2>2, <2>4
          <5>3. QED
            BY <5>1, <5>2
        <4>3. r.out + Grants(wv) <= s.out + Grants(wv) /\ s.out + Grants(wv) \in Nat
              /\ r.out + Grants(wv) \in Nat
          BY <4>1, <2>2, <2>4
        <4>4. Balance(s, v, ws, wv)
          BY DEF Direction
        <4>5. v.state = "closed" => r.out + Grants(wv) <= v.in
          BY <4>3, <4>4, <2>4 DEF Balance
        <4>6. QED
          BY <4>1, <4>2, <4>4, <4>5 DEF Balance
      <3>2. CASE Offers(s, r, p) \/ Grants1(s, r, p) \/ Ends(s, r, p)
        <4>1. OnePdu(p) = 0
          BY <3>2 DEF Offers, Grants1, Ends, OnePdu, Signal
        <4>2. r.out = s.out
          BY <3>2 DEF Offers, Grants1, Ends, SameCredits
        <4>3. r.state # "closed" => s.state # "closed"
          BY <3>2 DEF Offers, Grants1, Ends
        <4>4. Pdus(z) = Pdus(ws)
          BY <4>1, <2>2
        <4>5. QED
          BY <4>2, <4>3, <4>4 DEF Balance, Direction
      <3>3. QED
        BY <1>2, <3>1, <3>2
    <2>6. Sender(r, sub) /\ (v.state # "closed" => Stream(r, v, z, sub, del))
      <3>1. CASE Sends(s, r, p)
        <4>1. CASE v.state # "closed"
          BY <3>1, <4>1, StreamPdu DEF Direction, Working, z
        <4>2. CASE v.state = "closed"
          <5>1. s.pos \in Nat /\ s.sdu \in Sdu
            BY <3>1, CbmBoundAssumption DEF Working, Sends
          <5>2. Len(s.sdu) \in Nat
            BY <5>1, SduSeq, CbmBoundAssumption
          <5>3. QED
            BY <3>1, <4>2, <5>1, <5>2 DEF Direction, Sender, Sends
        <4>3. QED
          BY <4>1, <4>2
      <3>2. CASE Offers(s, r, p) \/ Grants1(s, r, p) \/ Ends(s, r, p)
        <4>1. p.type # "pdu"
          BY <3>2 DEF Offers, Grants1, Ends, Signal
        <4>2. SameSdu(s, r)
          BY <3>2 DEF Offers, Grants1, Ends
        <4>3. Sender(r, sub)
          BY <4>2 DEF Direction, Sender, SameSdu
        <4>4. QED
          BY <4>1, <4>2, <4>3, StreamSignal DEF Direction, z
      <3>3. QED
        BY <1>2, <3>1, <3>2
    <2>7. Wanted(r, z, q)
      <3>1. /\ r.state \in {"will_disconnect", "wait_disconnect", "will_answer"} => q
            /\ p.type \in {"disconnect", "answer"} => q
        BY <1>2 DEF Direction, Wanted, Offers, Grants1, Ends, Sends, Signal, Pdu
      <3>2. QED
        BY <2>3, <3>1 DEF Direction, Wanted
    <2>8. Receiver(v, sub, del)
      BY DEF Direction
    <2>9. QED
      BY <2>1, <2>5, <2>6, <2>7, <2>8 DEF Direction
  <1>3. QED
    BY <1>1, <1>2 DEF Outcome

\* A count below its modulus does not overflow.
LEMMA NoOverflow ==
    ASSUME NEW m \in Nat, NEW n \in Nat, n < m
    PROVE  n % m = n
  OBVIOUS

\* The balance when s makes c more credits available
LEMMA BalanceGrant ==
    ASSUME NEW v \in Working, NEW s \in Working, NEW r \in Working,
           NEW wv \in Seq(Packet), NEW ws \in Seq(Packet), NEW z \in Seq(Packet),
           NEW c \in Nat, Grants(z) = Grants(ws) + c, r.in = s.in + c,
           r.in + r.new < CreditMod, s.state # "closed" \/ r.state = "closed",
           Balance(v, s, wv, ws)
    PROVE  Balance(v, r, wv, z)
  <1> DEFINE l == v.out + Grants(ws)
             m == v.out + Pdus(wv) + Grants(ws)
  <1>1. /\ v.out \in Nat /\ s.in \in Nat
        /\ Pdus(wv) \in Nat /\ Grants(ws) \in Nat
    BY CreditAssumption, WireType DEF Working, Credits
  <1>2. l \in Nat /\ m \in Nat /\ l <= m
    <2>1. \A i, j, k \in Nat : i + k \in Nat /\ i + j + k \in Nat /\ i + k <= i + j + k
      OBVIOUS
    <2>2. QED
      BY <1>1, <2>1
  <1>3. v.out + Grants(z) = l + c /\ v.out + Pdus(wv) + Grants(z) = m + c
    <2>1. \A i, j, k, n \in Nat : i + (k + n) = i + k + n /\ i + j + (k + n) = i + j + k + n
      OBVIOUS
    <2>2. QED
      BY <1>1, <2>1
  <1>4. /\ s.state # "closed" => m <= s.in
        /\ s.state = "closed" => l <= s.in
        /\ v.state # "closed" /\ s.state # "closed" => m = s.in
    BY DEF Balance
  <1> HIDE DEF l, m
  <1>5. l <= s.in
    BY <1>1, <1>2, <1>4
  <1>6. l + c <= r.in /\ (s.state # "closed" => m + c <= r.in)
    <2>1. \A i, j, k \in Nat : i <= j => i + k <= j + k
      OBVIOUS
    <2>2. l + c <= s.in + c
      BY <1>1, <1>2, <1>5, <2>1
    <2>3. s.state # "closed" => m + c <= s.in + c
      BY <1>1, <1>2, <1>4, <2>1
    <2>4. QED
      BY <2>2, <2>3
  <1>7. QED
    BY <1>3, <1>4, <1>6 DEF Balance

\* Every packet of l2cap_run, for the direction that it opens
LEMMA OutcomeReceives ==
    ASSUME NEW s \in Working, NEW r \in Working, NEW v \in Working,
           NEW ws \in Seq(Packet), NEW wv \in Seq(Packet),
           NEW sub \in Seq(Sdu), NEW del \in Seq(Sdu), NEW q \in BOOLEAN,
           Outcome(s, r), Direction(v, s, wv, ws, sub, del, q),
           s.state \in {"will_request", "will_accept"} => s.in = 0
    PROVE  Direction(v, r, wv, ws \o r.out_q, sub, del, q)
  <1>1. /\ s.in \in Nat /\ s.new \in Nat /\ s.in + s.new < CreditMod
        /\ Balance(v, s, wv, ws) /\ CreditMod \in Nat
    BY CreditAssumption DEF Working, Credits, Direction, Balance
  <1>2. r.state # "closed" => s.state # "closed"
    BY DEF Outcome, Nothing, Offers, Grants1, Ends, Sends
  <1>3. Balance(v, r, wv, ws \o r.out_q)
    <2>1. CASE Nothing(s, r)
      <3>1. ws \o r.out_q = ws
        BY <2>1 DEF Nothing
      <3>2. QED
        BY <2>1, <3>1, <1>1 DEF Nothing, SameCredits, Balance
    <2>2. ASSUME NEW p \in Packet, r.out_q = << p >>,
                 Offers(s, r, p) \/ Grants1(s, r, p) \/ Ends(s, r, p) \/ Sends(s, r, p)
          PROVE  Balance(v, r, wv, ws \o r.out_q)
      <3> DEFINE z == Append(ws, p)
      <3>1. ws \o r.out_q = z
        BY <2>2
      <3>2. z \in Seq(Packet) /\ Grants(z) = Grants(ws) + OneGrant(p)
        BY WireAppend
      <3> HIDE DEF z
      <3>3. CASE Offers(s, r, p)
        <4>1. OneGrant(p) = s.new /\ r.in = s.in + s.new /\ r.in + r.new < CreditMod
              /\ s.state # "closed"
          BY <1>1, <3>3 DEF Offers, OneGrant, Signal
        <4>2. QED
          BY <1>1, <3>1, <3>2, <4>1, BalanceGrant
      <3>4. CASE Grants1(s, r, p)
        <4>1. (s.in + s.new) % CreditMod = s.in + s.new
          <5>1. s.in + s.new \in Nat
            BY <1>1
          <5>2. QED
            BY <1>1, <5>1, NoOverflow
        <4>2. OneGrant(p) = s.new /\ r.in = s.in + s.new /\ r.in + r.new < CreditMod
              /\ s.state # "closed"
          BY <1>1, <3>4, <4>1 DEF Grants1, OneGrant, Signal
        <4>3. QED
          BY <1>1, <3>1, <3>2, <4>2, BalanceGrant
      <3>5. CASE Ends(s, r, p) \/ Sends(s, r, p)
        <4>1. OneGrant(p) = 0 /\ r.in = s.in + 0 /\ r.in + r.new < CreditMod
              /\ s.state # "closed"
          BY <1>1, <3>5 DEF Ends, Sends, OneGrant, Signal, Pdu, SameCredits
        <4>2. QED
          BY <1>1, <3>1, <3>2, <4>1, BalanceGrant
      <3>6. QED
        BY <2>2, <3>3, <3>4, <3>5
    <2>3. QED
      BY <2>1, <2>2 DEF Outcome
  <1>4. Receiver(r, sub, del)
    BY <1>2 DEF Direction, Receiver, Outcome
  <1>5. RecvPos(r, del) = RecvPos(s, del)
    BY DEF RecvPos, Outcome
  <1>6. r.state # "closed" => Stream(v, r, wv, sub, del)
    BY <1>2, <1>5 DEF Direction, Stream
  <1>7. QED
    BY <1>3, <1>4, <1>6 DEF Direction

\* Every packet of l2cap_run of the initiator keeps the order of the opening.
LEMMA OutcomeOpeningA ==
    ASSUME NEW a \in Working, NEW r \in Working, NEW b \in Working,
           NEW wa \in Seq(Packet), NEW wb \in Seq(Packet),
           Outcome(a, r), Opening(a, b, wa, wb)
    PROVE  Opening(r, b, wa \o r.out_q, wb)
  <1>1. CASE Nothing(a, r)
    <2>1. wa \o r.out_q = wa
      BY <1>1 DEF Nothing
    <2>2. QED
      BY <1>1, <2>1 DEF Opening, Nothing, SameCredits
  <1>2. ASSUME NEW p \in Packet, r.out_q = << p >>,
               Offers(a, r, p) \/ Grants1(a, r, p) \/ Ends(a, r, p) \/ Sends(a, r, p)
        PROVE  Opening(r, b, wa \o r.out_q, wb)
    <2> DEFINE z == Append(wa, p)
               n == Len(wa)
    <2>1. wa \o r.out_q = z
      BY <1>2
    <2>2. /\ n \in Nat /\ DOMAIN wa = 1..n /\ DOMAIN z = 1..(n + 1) /\ Len(z) = n + 1
          /\ \A i \in 1..n : z[i] = wa[i]
          /\ z[n + 1] = p /\ (wa = << >> => n = 0)
      BY AppendIndex
    <2> HIDE DEF z, n
    <2>3. \A i \in DOMAIN z : (i \in DOMAIN wa /\ z[i] = wa[i]) \/ z[i] = p
      BY <2>2
    <2>4. CASE Offers(a, r, p)
      <3>1. a.state = "will_request" /\ r.state = "wait_response" /\ p.type = "request"
            /\ r.out = a.out
        BY <2>4 DEF Opening, Offers, New, Late, Signal
      <3>2. wa = << >> /\ b.state = "none" /\ a.out = 0
        BY <3>1 DEF Opening, New
      <3>3. z[1] = p /\ Len(z) = 1
        BY <2>2, <3>2
      <3>4. QED
        BY <2>1, <2>3, <3>1, <3>2, <3>3 DEF Opening, New, Late
    <2>5. CASE Grants1(a, r, p) \/ Ends(a, r, p) \/ Sends(a, r, p)
      <3>1. a.state \in Late /\ r.state \in Late
        BY <2>5 DEF Opening, Grants1, Ends, Sends, New, Late
      <3>2. p.type \notin {"request", "accept", "decline"}
        BY <2>5, <3>1 DEF Grants1, Ends, Sends, Signal, Pdu, Late
      <3>3. b.state \in Late
        BY <3>1 DEF Opening, New, Late
      <3>4. QED
        BY <2>1, <2>3, <3>1, <3>2, <3>3 DEF Opening, New, Late
    <2>6. QED
      BY <1>2, <2>4, <2>5
  <1>3. QED
    BY <1>1, <1>2 DEF Outcome

\* The same for the acceptor.
LEMMA OutcomeOpeningB ==
    ASSUME NEW b \in Working, NEW r \in Working, NEW a \in Working,
           NEW wa \in Seq(Packet), NEW wb \in Seq(Packet),
           Outcome(b, r), Opening(a, b, wa, wb)
    PROVE  Opening(a, r, wa, wb \o r.out_q)
  <1>0. A # B
    BY SideAssumption
  <1>1. CASE Nothing(b, r)
    <2>1. wb \o r.out_q = wb
      BY <1>1 DEF Nothing
    <2>2. QED
      BY <1>1, <2>1 DEF Opening, Nothing, SameCredits
  <1>2. ASSUME NEW p \in Packet, r.out_q = << p >>,
               Offers(b, r, p) \/ Grants1(b, r, p) \/ Ends(b, r, p) \/ Sends(b, r, p)
        PROVE  Opening(a, r, wa, wb \o r.out_q)
    <2> DEFINE z == Append(wb, p)
               n == Len(wb)
    <2>1. wb \o r.out_q = z
      BY <1>2
    <2>2. /\ n \in Nat /\ DOMAIN wb = 1..n /\ DOMAIN z = 1..(n + 1) /\ Len(z) = n + 1
          /\ \A i \in 1..n : z[i] = wb[i]
          /\ z[n + 1] = p /\ (wb = << >> <=> n = 0) /\ z # << >>
      BY AppendIndex
    <2> HIDE DEF z, n
    <2>3. \A i \in DOMAIN z : (i \in DOMAIN wb /\ z[i] = wb[i]) \/ (z[i] = p /\ i = n + 1)
      BY <2>2
    <2>4. CASE b.state \in New(B)
      <3>1. /\ b.state \in {"will_accept", "will_decline"} /\ r.state \in Late
            /\ p.type \in {"accept", "decline"}
        BY <1>0, <1>2, <2>4 DEF Offers, Grants1, Ends, Sends, New, Late, Signal
      <3>2. wb = << >> /\ a.state = "wait_response" /\ wa = << >>
        BY <1>0, <2>4, <3>1 DEF Opening, New
      <3>3. z[1] = p /\ n = 0
        BY <2>2, <3>2
      <3>4. QED
        BY <1>0, <2>1, <2>2, <2>3, <3>1, <3>2, <3>3 DEF Opening, New, Late
    <2>5. CASE b.state \in Late
      <3>1. r.state \in Late
        BY <1>2, <2>5 DEF Offers, Grants1, Ends, Sends, Late
      <3>2. p.type \notin {"request", "accept", "decline"}
        BY <1>2, <2>5 DEF Offers, Grants1, Ends, Sends, Signal, Pdu, Late
      <3>3. a.state = "wait_response" => z[1] = wb[1] /\ wb # << >>
        BY <2>2, <2>5 DEF Opening
      <3>4. QED
        BY <1>0, <2>1, <2>2, <2>3, <2>5, <3>1, <3>2, <3>3 DEF Opening, New, Late
    <2>6. QED
      BY <2>4, <2>5 DEF Opening
  <1>3. QED
    BY <1>1, <1>2 DEF Outcome

-----------------------------------------------------------------------------
(* What the calls and handlers do to one device keeps the invariant *)

\* The state, the credits to give and the flags of s may change; a closed
\* device stays closed.
Local(s, r) ==
    /\ r.in = s.in /\ r.out = s.out /\ SameSdu(s, r)
    /\ r.rlen = s.rlen /\ r.rbuf = s.rbuf
    /\ r.in + r.new < CreditMod
    /\ s.state = "closed" => r.state = "closed"

Leaving == {"will_disconnect", "wait_disconnect", "will_answer"}

\* A local change keeps both directions.
LEMMA LocalSound ==
    ASSUME NEW s \in Working, NEW r \in Working, NEW v \in Working,
           NEW ws \in Seq(Packet), NEW wv \in Seq(Packet),
           NEW subS, NEW delS, NEW subV, NEW delV,
           NEW q \in BOOLEAN, NEW q2 \in BOOLEAN, q => q2,
           Local(s, r), r.state \in Leaving => q2,
           Direction(s, v, ws, wv, subS, delS, q), Direction(v, s, wv, ws, subV, delV, q)
    PROVE  /\ Direction(r, v, ws, wv, subS, delS, q2)
           /\ Direction(v, r, wv, ws, subV, delV, q2)
  <1>1. Direction(r, v, ws, wv, subS, delS, q2)
    <2>1. SendPos(r, subS) = SendPos(s, subS)
      BY DEF SendPos, Local, SameSdu
    <2>2. v.state # "closed" => Stream(r, v, ws, subS, delS)
      BY <2>1 DEF Stream, Direction
    <2>3. Balance(r, v, ws, wv)
      BY DEF Direction, Balance, Local
    <2>4. Sender(r, subS)
      BY DEF Direction, Sender, Local, SameSdu
    <2>5. Wanted(r, ws, q2)
      BY DEF Direction, Wanted, Leaving
    <2>6. Receiver(v, subS, delS)
      BY DEF Direction
    <2>7. QED
      BY <2>2, <2>3, <2>4, <2>5, <2>6 DEF Direction
  <1>2. Direction(v, r, wv, ws, subV, delV, q2)
    <2>1. Balance(v, r, wv, ws)
      <3>1. Grants(ws) \in Nat /\ s.in \in Nat
        BY WireType, CreditAssumption DEF Working, Credits
      <3>2. Grants(ws) = Grants(ws) + 0 /\ r.in = s.in + 0
        BY <3>1 DEF Local
      <3>3. QED
        BY <3>2, BalanceGrant DEF Local, Direction
    <2>2. RecvPos(r, delV) = RecvPos(s, delV)
      BY DEF RecvPos, Local
    <2>3. r.state # "closed" => Stream(v, r, wv, subV, delV)
      BY <2>2 DEF Stream, Direction, Local
    <2>4. Receiver(r, subV, delV)
      BY DEF Direction, Receiver, Local
    <2>5. Sender(v, subV) /\ Wanted(v, wv, q2)
      BY DEF Direction, Wanted
    <2>6. QED
      BY <2>1, <2>3, <2>4, <2>5 DEF Direction
  <1>3. QED
    BY <1>1, <1>2

\* An SDU of m pieces is a sequence of length m.
LEMMA NewSduLen ==
    ASSUME NEW k \in Nat, NEW m \in Nat
    PROVE  NewSdu(k, m) \in Seq({k} \X (1..m)) /\ Len(NewSdu(k, m)) = m
  <1> DEFINE T == {k} \X (1..m)
             f == NewSdu(k, m)
  <1>1. f \in [1..m -> T]
    BY DEF NewSdu
  <1> HIDE DEF T, f
  <1>2. f \in Seq(T) /\ Len(f) = m
    BY <1>1
  <1>3. QED
    BY <1>2 DEF T, f

\* r starts to send an SDU of m pieces.
Submits(s, r, sub, m) ==
    /\ s.sdu = << >> /\ r.sdu = NewSdu(Len(sub) + 1, m) /\ r.pos = 0
    /\ r.out = s.out /\ r.state = s.state

\* l2cap_send accepts an SDU: the next piece to be sent is its first.
LEMMA SubmitSound ==
    ASSUME NEW s \in Working, NEW r \in Working, NEW v \in Working,
           NEW ws \in Seq(Packet), NEW wv \in Seq(Packet),
           NEW sub \in Seq(Sdu), NEW del \in Seq(Sdu), NEW q \in BOOLEAN,
           NEW m \in 1..MaxPieces, Submits(s, r, sub, m),
           Direction(s, v, ws, wv, sub, del, q)
    PROVE  Direction(r, v, ws, wv, Append(sub, r.sdu), del, q)
  <1> SUFFICES ASSUME s.sdu = << >>, r.sdu = NewSdu(Len(sub) + 1, m), r.pos = 0,
                      r.out = s.out, r.state = s.state
               PROVE  Direction(r, v, ws, wv, Append(sub, r.sdu), del, q)
    BY DEF Submits
  <1> DEFINE S == Len(sub)
             d == r.sdu
             sub2 == Append(sub, d)
  <1>1. d \in Sdu /\ Len(d) = m
    <2>1. S + 1 \in Nat /\ m \in Nat \ {0}
      BY CbmBoundAssumption
    <2>2. Len(d) = m
      BY <2>1, NewSduLen
    <2>3. d # << >>
      BY <2>1, <2>2
    <2>4. QED
      BY <2>2, <2>3 DEF Working
  <1>2. /\ S \in Nat /\ Len(sub2) = S + 1 /\ sub2[S + 1] = d
        /\ \A k \in 1..S : sub2[k] = sub[k]
    OBVIOUS
  <1>3. d # << >> /\ m \in Nat /\ Len(del) \in Nat
    BY <1>1, SduSeq, CbmBoundAssumption
  <1>4. SendPos(r, sub2) = << S + 1, 1 >> /\ SendPos(s, sub) = << S + 1, 1 >>
    BY <1>2, <1>3 DEF SendPos
  <1> HIDE DEF S, d, sub2
  <1>5. Sender(r, sub2)
    <2>1. ASSUME NEW k \in 1..Len(sub2)
          PROVE  sub2[k] = NewSdu(k, Len(sub2[k])) /\ Len(sub2[k]) \in 1..MaxPieces
      <3>1. CASE k = S + 1
        BY <3>1, <1>1, <1>2 DEF d, S
      <3>2. CASE k \in 1..S
        BY <3>2, <1>2 DEF Direction, Sender, S
      <3>3. QED
        BY <1>2, <3>1, <3>2
    <2>2. QED
      BY <2>1, <1>1, <1>2, <1>3 DEF Sender, d
  <1>6. Receiver(v, sub2, del)
    <2>1. Receiver(v, sub, del)
      BY DEF Direction
    <2>2. Len(del) <= S /\ S <= Len(sub2) /\ Len(del) <= Len(sub2)
      BY <1>2, <1>3, <2>1 DEF Receiver, S
    <2>3. \A k \in 1..Len(del) : k \in 1..S
      BY <1>2, <1>3, <2>2
    <2>4. Len(del) < S => Len(del) + 1 \in 1..S /\ Len(del) < Len(sub2)
      BY <1>2, <1>3
    <2>5. \A k \in 1..Len(del) : del[k] = sub2[k]
      BY <1>2, <2>1, <2>3 DEF Receiver
    <2>6. QED
      BY <1>2, <2>1, <2>2, <2>4, <2>5 DEF Receiver, S
  <1>7. \A p : Before(p, << S + 1, 1 >>) /\ p[1] \in Nat /\ p[2] \in Nat \ {0} => p[1] <= S
    BY <1>2 DEF Before
  <1>8. ASSUME NEW p, IsPiece(p, sub)
        PROVE  IsPiece(p, sub2) /\ sub2[p[1]] = sub[p[1]]
    BY <1>8, <1>2 DEF IsPiece, S
  <1>9. ASSUME NEW p \in Piece, IsPiece(p, sub2), Before(p, << S + 1, 1 >>)
        PROVE  IsPiece(p, sub)
    <2>1. p[1] \in Nat /\ p[2] \in Nat \ {0}
      BY CbmBoundAssumption DEF Piece
    <2>2. p[1] \in 1..S
      BY <2>1, <1>7, <1>9, <1>2 DEF IsPiece
    <2>3. QED
      BY <2>2, <1>2, <1>9 DEF IsPiece, S
  <1>10. CASE v.state # "closed"
    <2>1. Stream(s, v, ws, sub, del)
      BY <1>10 DEF Direction
    <2>2. \A i \in DOMAIN ws : ws[i].type = "pdu" =>
            /\ IsPiece(ws[i].piece, sub2)
            /\ ws[i].len = IF ws[i].piece[2] = 1 THEN Len(sub2[ws[i].piece[1]]) ELSE 0
            /\ Before(ws[i].piece, SendPos(r, sub2))
            /\ ~Before(ws[i].piece, RecvPos(v, del))
      <3>1. \A i \in DOMAIN ws : ws[i].type = "pdu" => IsPiece(ws[i].piece, sub)
        BY <2>1 DEF Stream
      <3>2. \A i \in DOMAIN ws : ws[i].type = "pdu" =>
                IsPiece(ws[i].piece, sub2) /\ sub2[ws[i].piece[1]] = sub[ws[i].piece[1]]
        BY <3>1, <1>8
      <3>3. QED
        BY <2>1, <1>4, <3>2 DEF Stream
    <2>3. \A p \in Piece :
            IsPiece(p, sub2) /\ Before(p, SendPos(r, sub2)) /\ ~Before(p, RecvPos(v, del))
                => \E i \in DOMAIN ws : ws[i].type = "pdu" /\ ws[i].piece = p
      BY <2>1, <1>4, <1>9 DEF Stream
    <2>4. Stream(r, v, ws, sub2, del)
      BY <2>1, <2>2, <2>3, <1>4 DEF Stream
    <2>5. QED
      BY <2>4, <1>5, <1>6 DEF Direction, Balance, Wanted, sub2, d
  <1>11. CASE v.state = "closed"
    BY <1>11, <1>5, <1>6 DEF Direction, Balance, Wanted, sub2, d
  <1>12. QED
    BY <1>10, <1>11

-----------------------------------------------------------------------------
(* What a received packet does *)

\* Where the elements of the rest of a queue are
LEMMA TailIndex ==
    ASSUME NEW w \in Seq(Packet), w # << >>
    PROVE  /\ Len(w) \in Nat \ {0} /\ DOMAIN w = 1..Len(w) /\ w[1] = Head(w)
           /\ Len(Tail(w)) = Len(w) - 1 /\ DOMAIN Tail(w) = 1..(Len(w) - 1)
           /\ \A i \in 1..(Len(w) - 1) : Tail(w)[i] = w[i + 1]
  OBVIOUS

\* The rest of a queue wants no disconnection that the queue did not.
LEMMA WantedTail ==
    ASSUME NEW s, NEW r, NEW w \in Seq(Packet), w # << >>, NEW q, Wanted(s, w, q),
           r.state = s.state
    PROVE  Wanted(r, Tail(w), q)
  <1>1. \A i \in DOMAIN Tail(w) : i + 1 \in DOMAIN w /\ Tail(w)[i] = w[i + 1]
    BY TailIndex
  <1>2. QED
    BY <1>1 DEF Wanted

\* The sender's part of a direction depends on the SDU it sends.
LEMMA LocalSends ==
    ASSUME NEW v, NEW r, NEW s, NEW wv, NEW ws, NEW ws2, NEW sub, NEW del, NEW q,
           SameSdu(v, r), r.state \in Leaving => q, Balance(r, s, wv, ws2),
           Direction(v, s, wv, ws, sub, del, q)
    PROVE  Direction(r, s, wv, ws2, sub, del, q)
  <1>1. SendPos(r, sub) = SendPos(v, sub)
    BY DEF SendPos, SameSdu
  <1>2. s.state # "closed" => Stream(r, s, wv, sub, del)
    BY <1>1 DEF Direction, Stream
  <1>3. Sender(r, sub) /\ Wanted(r, wv, q)
    BY DEF Direction, Sender, SameSdu, Wanted, Leaving
  <1>4. QED
    BY <1>2, <1>3 DEF Direction

\* The credits that v receives are added to those it has; s counts on them.
LEMMA TakeGrant ==
    ASSUME NEW v \in Working, NEW r \in Working, NEW s \in Working,
           NEW wv \in Seq(Packet), NEW ws \in Seq(Packet), ws # << >>,
           NEW sub, NEW del, NEW q \in BOOLEAN,
           \/ v.state = "closed" /\ r.out = v.out
           \/ r.out = v.out + OneGrant(Head(ws)),
           v.state = "closed" => r.state = "closed", r.state \in Leaving => q,
           SameSdu(v, r), Direction(v, s, wv, ws, sub, del, q)
    PROVE  Direction(r, s, wv, Tail(ws), sub, del, q)
  <1> DEFINE g == OneGrant(Head(ws))
             t == Grants(Tail(ws))
             k == Pdus(wv)
  <1>1. /\ Grants(ws) = g + t /\ t \in Nat /\ k \in Nat /\ g \in Nat
    BY WireTail, WireType, PacketFields DEF OneGrant
  <1>2. v.out \in Nat /\ s.in \in Nat /\ r.out \in Nat
    BY CreditAssumption DEF Working, Credits
  <1> HIDE DEF g, t, k
  <1>3. /\ s.state # "closed" => v.out + k + (g + t) <= s.in
        /\ s.state = "closed" => v.out + (g + t) <= s.in
        /\ v.state # "closed" /\ s.state # "closed" => v.out + k + (g + t) = s.in
        /\ s.in + s.new < CreditMod
    BY <1>1 DEF Direction, Balance, k
  <1>4. CASE r.out = v.out + g
    <2>1. /\ r.out + k + t = v.out + k + (g + t)
          /\ r.out + t = v.out + (g + t)
      BY <1>1, <1>2, <1>4
    <2>2. Balance(r, s, wv, Tail(ws))
      BY <1>3, <2>1 DEF Balance, k, t
    <2>3. QED
      BY <2>2, LocalSends
  <1>5. CASE v.state = "closed" /\ r.out = v.out
    <2>1. /\ r.out + k + t <= v.out + k + (g + t)
          /\ r.out + t <= v.out + (g + t)
          /\ v.out + k + (g + t) \in Nat /\ v.out + (g + t) \in Nat
          /\ r.out + k + t \in Nat /\ r.out + t \in Nat
      <3>1. \A i, j, l, m \in Nat :
                /\ i + j + l <= i + j + (m + l) /\ i + l <= i + (m + l)
                /\ i + j + (m + l) \in Nat /\ i + (m + l) \in Nat
                /\ i + j + l \in Nat /\ i + l \in Nat
        OBVIOUS
      <3>2. QED
        BY <1>1, <1>2, <1>5, <3>1
    <2>2. /\ s.state # "closed" => r.out + k + t <= s.in
          /\ s.state = "closed" => r.out + t <= s.in
      BY <1>2, <1>3, <2>1
    <2>3. Balance(r, s, wv, Tail(ws))
      BY <1>3, <1>5, <2>2 DEF Balance, k, t
    <2>4. QED
      BY <2>3, LocalSends
  <1>6. QED
    BY <1>4, <1>5 DEF g

\* A signal is taken from the queue, or anything by a closed device.
LEMMA TakeSignal ==
    ASSUME NEW s \in Working, NEW v \in Working, NEW r \in Working,
           NEW ws \in Seq(Packet), ws # << >>, NEW wv \in Seq(Packet),
           NEW sub, NEW del, NEW q \in BOOLEAN,
           Head(ws).type # "pdu" \/ v.state = "closed",
           r.in = v.in, r.new = v.new, r.rlen = v.rlen, r.rbuf = v.rbuf,
           v.state = "closed" => r.state = "closed",
           Direction(s, v, ws, wv, sub, del, q)
    PROVE  Direction(s, r, Tail(ws), wv, sub, del, q)
  <1> DEFINE z == Tail(ws)
             n == Len(ws)
  <1>1. /\ n \in Nat \ {0} /\ DOMAIN ws = 1..n /\ DOMAIN z = 1..(n - 1)
        /\ \A i \in 1..(n - 1) : z[i] = ws[i + 1]
        /\ ws[1] = Head(ws) /\ z \in Seq(Packet)
    BY TailIndex, WireTail
  <1>2. /\ Pdus(ws) = OnePdu(Head(ws)) + Pdus(z) /\ Pdus(z) \in Nat
        /\ Grants(wv) \in Nat /\ s.out \in Nat /\ v.in \in Nat
    <2>1. Pdus(ws) = OnePdu(Head(ws)) + Pdus(z)
      BY WireTail
    <2>2. Pdus(z) \in Nat /\ Grants(wv) \in Nat
      BY <1>1, WireType
    <2>3. s.out \in Nat /\ v.in \in Nat
      BY CreditAssumption DEF Working, Credits
    <2>4. QED
      BY <2>1, <2>2, <2>3
  <1> HIDE DEF z, n
  <1>3. Balance(s, r, z, wv)
    <2>1. CASE v.state = "closed"
      BY <2>1 DEF Balance, Direction
    <2>2. CASE v.state # "closed"
      <3>1. OnePdu(Head(ws)) = 0
        BY <2>2 DEF OnePdu
      <3>2. Pdus(ws) = Pdus(z)
        BY <1>2, <3>1
      <3>3. s.out + Grants(wv) <= s.out + Pdus(z) + Grants(wv)
        BY <1>2
      <3>4. s.out + Pdus(z) + Grants(wv) <= v.in => s.out + Grants(wv) <= v.in
        BY <1>2
      <3>5. QED
        BY <2>2, <3>2, <3>4 DEF Balance, Direction
    <2>3. QED
      BY <2>1, <2>2
  <1>4. Receiver(r, sub, del) /\ Sender(s, sub)
    BY DEF Receiver, Direction
  <1>5. Wanted(s, z, q)
    BY WantedTail DEF Direction, z
  <1>6. r.state # "closed" => Stream(s, r, z, sub, del)
    <2> SUFFICES ASSUME r.state # "closed" PROVE Stream(s, r, z, sub, del)
      OBVIOUS
    <2>1. RecvPos(r, del) = RecvPos(v, del)
      BY DEF RecvPos
    <2>2. Stream(s, v, ws, sub, del) /\ ws[1].type # "pdu"
      BY <1>1 DEF Direction
    <2>3. \A i \in DOMAIN z : i + 1 \in DOMAIN ws /\ z[i] = ws[i + 1]
      BY <1>1
    <2>4. \A i \in DOMAIN ws : ws[i].type = "pdu" => i - 1 \in DOMAIN z /\ z[i - 1] = ws[i]
      BY <1>1, <2>2
    <2>5. \A i \in DOMAIN z : z[i].type = "pdu" =>
            /\ IsPiece(z[i].piece, sub)
            /\ z[i].len = IF z[i].piece[2] = 1 THEN Len(sub[z[i].piece[1]]) ELSE 0
            /\ Before(z[i].piece, SendPos(s, sub))
            /\ ~Before(z[i].piece, RecvPos(r, del))
      BY <2>1, <2>2, <2>3 DEF Stream
    <2>6. ASSUME NEW i \in DOMAIN z, NEW j \in DOMAIN z, i < j,
                 z[i].type = "pdu", z[j].type = "pdu"
          PROVE  Before(z[i].piece, z[j].piece)
      <3>1. i + 1 < j + 1
        BY <1>1, <2>6
      <3>2. QED
        BY <2>2, <2>3, <2>6, <3>1 DEF Stream
    <2>7. \A x \in Piece :
            IsPiece(x, sub) /\ Before(x, SendPos(s, sub)) /\ ~Before(x, RecvPos(r, del))
                => \E i \in DOMAIN z : z[i].type = "pdu" /\ z[i].piece = x
      BY <2>1, <2>2, <2>4 DEF Stream
    <2>8. ~Before(SendPos(s, sub), RecvPos(r, del))
      BY <2>1, <2>2 DEF Stream
    <2>9. QED
      BY <2>5, <2>6, <2>7, <2>8 DEF Stream
  <1>7. QED
    BY <1>3, <1>4, <1>5, <1>6 DEF Direction, z

\* p is the next piece for v, of an SDU that was submitted, and v has a credit.
Expected(v, p, sub, del) ==
    LET D == Len(del)
        R == Len(v.rbuf)
    IN  /\ p.piece = << D + 1, R + 1 >> /\ D + 1 \in 1..Len(sub)
        /\ R + 1 \in 1..Len(sub[D + 1]) /\ Len(sub[D + 1]) \in 1..MaxPieces
        /\ (IF v.rlen = 0 THEN p.len ELSE v.rlen) = Len(sub[D + 1])
        /\ v.in > 0

\* The PDU at the head of the queue is the one that the receiver expects.
LEMMA HeadExpected ==
    ASSUME NEW s \in Working, NEW v \in Working, v.state # "closed",
           NEW ws \in Seq(Packet), ws # << >>, Head(ws).type = "pdu",
           NEW wv \in Seq(Packet),
           NEW sub \in Seq(Sdu), Len(sub) <= MaxSdus, NEW del \in Seq(Sdu),
           NEW q \in BOOLEAN,
           Direction(s, v, ws, wv, sub, del, q)
    PROVE  Expected(v, Head(ws), sub, del)
  <1> DEFINE D == Len(del)
             R == Len(v.rbuf)
             p == Head(ws)
             S == Len(sub)
             send == SendPos(s, sub)
             recv == << D + 1, R + 1 >>
  <1>1. /\ D \in Nat /\ R \in Nat /\ S \in Nat /\ recv = RecvPos(v, del)
        /\ recv[1] = D + 1 /\ recv[2] = R + 1 /\ (R = 0 <=> v.rbuf = << >>)
    BY DEF Working, RecvPos
  <1>2. /\ Len(ws) \in Nat \ {0} /\ DOMAIN ws = 1..Len(ws) /\ ws[1] = p
        /\ p \in Packet /\ p.piece \in Piece /\ p.type = "pdu" /\ 1 \in DOMAIN ws
    BY TailIndex, WireTail, PacketFields
  <1>3. p.piece[1] \in Nat /\ p.piece[2] \in Nat
    BY <1>2, CbmBoundAssumption DEF Piece
  <1>4. /\ Stream(s, v, ws, sub, del) /\ Receiver(v, sub, del) /\ Sender(s, sub)
        /\ Balance(s, v, ws, wv)
    BY DEF Direction
  <1>5. send[1] \in Nat /\ send[2] \in Nat
    BY CbmBoundAssumption DEF SendPos, Working
  <1> HIDE DEF D, R, p, S, send, recv
  <1>6. IsPiece(p.piece, sub) /\ Before(p.piece, send) /\ ~Before(p.piece, recv)
        /\ p.len = IF p.piece[2] = 1 THEN Len(sub[p.piece[1]]) ELSE 0
    BY <1>1, <1>2, <1>4 DEF Stream, send
  <1>7. Before(recv, send)
    BY <1>1, <1>3, <1>5, <1>6 DEF Before
  <1>8. D + 1 \in 1..S
    BY <1>1, <1>3, <1>6 DEF Before, IsPiece, S
  <1>9. Len(sub[D + 1]) \in 1..MaxPieces /\ Len(sub[D + 1]) \in Nat
    BY <1>4, <1>8, CbmBoundAssumption DEF Sender, S
  <1>10. R + 1 \in 1..Len(sub[D + 1])
    <2>1. CASE R = 0
      BY <1>1, <1>9, <2>1
    <2>2. CASE R # 0
      <3>1. v.rlen = Len(sub[D + 1]) /\ R < v.rlen
        BY <1>1, <1>4, <2>2 DEF Receiver, D, R
      <3>2. QED
        BY <1>1, <1>9, <3>1
    <2>3. QED
      BY <2>1, <2>2
  <1>11. recv \in Piece /\ IsPiece(recv, sub)
    <2>1. D + 1 \in 1..MaxSdus /\ R + 1 \in 1..MaxPieces
      BY <1>1, <1>8, <1>9, <1>10, CbmBoundAssumption DEF S
    <2>2. QED
      BY <1>1, <1>8, <1>10, <2>1 DEF Piece, IsPiece, recv, S
  <1>12. ~Before(recv, recv)
    BY <1>1 DEF Before
  <1>13. PICK i \in DOMAIN ws : ws[i].type = "pdu" /\ ws[i].piece = recv
    BY <1>1, <1>4, <1>7, <1>11, <1>12 DEF Stream, send
  <1>14. i = 1
    <2>1. CASE 1 < i
      <3>1. Before(p.piece, recv)
        BY <1>2, <1>4, <1>13, <2>1 DEF Stream
      <3>2. QED
        BY <1>6, <3>1
    <2>2. QED
      BY <1>2, <2>1
  <1>15. p.piece = recv
    BY <1>2, <1>13, <1>14
  <1>16. (IF v.rlen = 0 THEN p.len ELSE v.rlen) = Len(sub[D + 1])
    <2>1. CASE R = 0
      BY <1>1, <1>4, <1>6, <1>15, <2>1 DEF Receiver
    <2>2. CASE R # 0
      BY <1>1, <1>4, <1>9, <2>2 DEF Receiver, D
    <2>3. QED
      BY <2>1, <2>2
  <1>17. v.in > 0
    <2>1. Pdus(ws) = OnePdu(p) + Pdus(Tail(ws)) /\ Pdus(Tail(ws)) \in Nat
      BY WireTail, WireType DEF p
    <2>2. OnePdu(p) = 1
      BY DEF OnePdu, p
    <2>3. s.out \in Nat /\ Grants(wv) \in Nat /\ v.in \in Nat
      BY CreditAssumption, WireType DEF Working, Credits
    <2>4. s.out + Pdus(ws) + Grants(wv) <= v.in
      BY <1>4 DEF Balance
    <2>5. Pdus(ws) >= 1 /\ Pdus(ws) \in Nat
      BY <2>1, <2>2
    <2>6. QED
      BY <2>3, <2>4, <2>5
  <1>18. QED
    BY <1>8, <1>9, <1>10, <1>15, <1>16, <1>17 DEF Expected, D, R, p, S, recv

\* After x comes y, the next piece of the same SDU or the first one of the next.
Follows(x, y, L) ==
    /\ x[1] \in Nat /\ x[2] \in Nat /\ y[1] \in Nat /\ y[2] \in Nat
    /\ L \in Nat /\ x[2] <= L
    /\ x[2] = L => y[1] = x[1] + 1 /\ y[2] = 1
    /\ x[2] # L => y[1] = x[1] /\ y[2] = x[2] + 1

\* The order of pieces, on the numbers
LEMMA NextNumbers ==
    ASSUME NEW x1 \in Nat, NEW x2 \in Nat, NEW y1 \in Nat, NEW y2 \in Nat,
           NEW p1 \in Nat, NEW p2 \in Nat, NEW L \in Nat, x2 <= L, 1 <= p2,
           x2 = L => y1 = x1 + 1 /\ y2 = 1,
           x2 # L => y1 = x1 /\ y2 = x2 + 1,
           p1 = x1 => p2 <= L
    PROVE  (x1 < p1 \/ (x1 = p1 /\ x2 < p2)) <=> ~(p1 < y1 \/ (p1 = y1 /\ p2 < y2))
  <1>1. CASE x2 = L
    BY <1>1
  <1>2. CASE x2 # L
    BY <1>2
  <1>3. QED
    BY <1>1, <1>2

\* What comes after x does not come before y.
LEMMA NextBefore ==
    ASSUME NEW x, NEW y, NEW L, Follows(x, y, L), NEW p, p[1] \in Nat, p[2] \in Nat,
           1 <= p[2], p[1] = x[1] => p[2] <= L
    PROVE  Before(x, p) <=> ~Before(p, y)
  BY NextNumbers DEF Follows, Before

\* The receiver takes a PDU: the rest of the stream comes after it.
LEMMA StreamTake ==
    ASSUME NEW s \in Working, NEW v \in Working, NEW r \in Working,
           NEW ws \in Seq(Packet), ws # << >>, Head(ws).type = "pdu",
           NEW sub \in Seq(Sdu), NEW del \in Seq(Sdu), NEW del2 \in Seq(Sdu),
           NEW x, NEW y, NEW L, x = RecvPos(v, del), y = RecvPos(r, del2),
           Head(ws).piece = x, IsPiece(x, sub), L = Len(sub[x[1]]), Follows(x, y, L),
           \A k \in 1..Len(sub) : Len(sub[k]) \in Nat,
           s.sdu # << >> => Len(sub) > 0 /\ s.pos < Len(sub[Len(sub)]),
           Stream(s, v, ws, sub, del)
    PROVE  Stream(s, r, Tail(ws), sub, del2)
  <1> DEFINE z == Tail(ws)
             n == Len(ws)
             send == SendPos(s, sub)
             S == Len(sub)
  <1>1. /\ n \in Nat \ {0} /\ DOMAIN ws = 1..n /\ DOMAIN z = 1..(n - 1)
        /\ \A i \in 1..(n - 1) : z[i] = ws[i + 1]
        /\ ws[1].type = "pdu" /\ ws[1].piece = x /\ z \in Seq(Packet)
    BY TailIndex, WireTail
  <1>2. S \in Nat /\ x[1] \in 1..S /\ x[2] \in 1..L /\ L \in Nat
    BY DEF IsPiece
  <1>3. s.pos \in Nat
    BY CbmBoundAssumption DEF Working
  <1>4. s.sdu = << >> => send = << S + 1, 1 >>
    BY DEF SendPos
  <1>5. s.sdu # << >> => send = << S, s.pos + 1 >> /\ s.pos < Len(sub[S]) /\ S > 0
    BY DEF SendPos
  <1> HIDE DEF z, n, send, S
  <1>6. 1 \in DOMAIN ws
    BY <1>1
  <1>7. Before(x, send)
    BY <1>1, <1>6 DEF Stream, send
  <1>8. send[1] \in Nat /\ send[2] \in Nat /\ 1 <= send[2] /\ (send[1] = x[1] => send[2] <= L)
    <2>1. CASE s.sdu = << >>
      <3>1. send[1] = S + 1 /\ send[2] = 1
        BY <1>4, <2>1
      <3>2. x[1] # S + 1
        BY <1>2
      <3>3. QED
        BY <1>2, <3>1, <3>2
    <2>2. CASE s.sdu # << >>
      <3>1. send[1] = S /\ send[2] = s.pos + 1
        BY <1>5, <2>2
      <3>2. Len(sub[S]) \in Nat
        BY <1>2, <1>5, <2>2 DEF S
      <3>3. s.pos + 1 <= Len(sub[S]) /\ s.pos + 1 \in Nat /\ 1 <= s.pos + 1
        BY <1>3, <1>5, <2>2, <3>2
      <3>4. QED
        BY <1>2, <3>1, <3>3
    <2>3. QED
      BY <2>1, <2>2
  <1>9. ~Before(send, y)
    BY <1>7, <1>8, NextBefore
  <1>10. ASSUME NEW p, IsPiece(p, sub)
         PROVE  /\ p[1] \in Nat /\ p[2] \in Nat
                /\ Before(x, p) <=> ~Before(p, y)
    <2>1. p[1] \in 1..S /\ p[2] \in 1..Len(sub[p[1]]) /\ Len(sub[p[1]]) \in Nat
      BY <1>10 DEF IsPiece, S
    <2>2. p[1] \in Nat /\ p[2] \in Nat /\ 1 <= p[2] /\ p[2] <= Len(sub[p[1]])
      BY <1>2, <2>1
    <2>3. QED
      BY <2>2, NextBefore
  <1>11. \A i \in DOMAIN z : i + 1 \in DOMAIN ws /\ z[i] = ws[i + 1] /\ 1 < i + 1
    BY <1>1
  <1>12. ASSUME NEW i \in DOMAIN ws, i # 1
         PROVE  i - 1 \in DOMAIN z /\ z[i - 1] = ws[i]
    <2>1. i \in Nat /\ i >= 1 /\ i <= n
      BY <1>1
    <2>2. i - 1 \in 1..(n - 1) /\ (i - 1) + 1 = i
      BY <1>1, <1>12, <2>1
    <2>3. QED
      BY <1>1, <2>2
  <1>13. ASSUME NEW i \in DOMAIN z, z[i].type = "pdu"
         PROVE  /\ IsPiece(z[i].piece, sub)
                /\ z[i].len = IF z[i].piece[2] = 1 THEN Len(sub[z[i].piece[1]]) ELSE 0
                /\ Before(z[i].piece, send)
                /\ ~Before(z[i].piece, y)
    <2>1. /\ IsPiece(z[i].piece, sub)
          /\ z[i].len = IF z[i].piece[2] = 1 THEN Len(sub[z[i].piece[1]]) ELSE 0
          /\ Before(z[i].piece, send)
      BY <1>11, <1>13 DEF Stream, send
    <2>2. ws[i + 1].type = "pdu" /\ i + 1 \in DOMAIN ws /\ 1 < i + 1 /\ z[i] = ws[i + 1]
      BY <1>11, <1>13
    <2>3. \A j \in DOMAIN ws : 1 < j /\ ws[j].type = "pdu" => Before(x, ws[j].piece)
      BY <1>1, <1>6 DEF Stream
    <2>4. Before(x, z[i].piece)
      BY <2>2, <2>3
    <2>5. QED
      BY <1>10, <2>1, <2>4
  <1>14. ASSUME NEW i \in DOMAIN z, NEW j \in DOMAIN z, i < j,
                z[i].type = "pdu", z[j].type = "pdu"
         PROVE  Before(z[i].piece, z[j].piece)
    <2>1. i + 1 < j + 1
      BY <1>1, <1>14
    <2>2. QED
      BY <1>11, <1>14, <2>1 DEF Stream
  <1>15. ASSUME NEW p \in Piece, IsPiece(p, sub), Before(p, send), ~Before(p, y)
         PROVE  \E i \in DOMAIN z : z[i].type = "pdu" /\ z[i].piece = p
    <2>1. Before(x, p) /\ p[1] \in Nat /\ p[2] \in Nat
      BY <1>10, <1>15
    <2>2. x[1] \in Nat /\ x[2] \in Nat
      BY DEF Follows
    <2>3. ~Before(p, x) /\ p # x
      BY <2>1, <2>2 DEF Before
    <2>4. PICK i \in DOMAIN ws : ws[i].type = "pdu" /\ ws[i].piece = p
      BY <1>15, <2>3 DEF Stream, send
    <2>5. i # 1
      BY <1>1, <2>3, <2>4
    <2>6. QED
      BY <1>12, <2>4, <2>5
  <1>16. QED
    BY <1>9, <1>13, <1>14, <1>15 DEF Stream, z, send

\* The credits after a PDU was counted; with automatic credits the watermark
\* leaves room for the increment.
LEMMA CountNumbers ==
    ASSUME NEW in \in Nat, in > 0, in < CreditMod, NEW new \in Nat, in + new < CreditMod,
           NEW auto \in BOOLEAN
    PROVE  LET n == IF in - 1 < Watermark /\ auto THEN Increment ELSE new
           IN  n \in Credits /\ in - 1 \in Credits /\ (in - 1) + n < CreditMod
  <1> DEFINE n == IF in - 1 < Watermark /\ auto THEN Increment ELSE new
  <1>1. /\ CreditMod \in Nat /\ Watermark \in Nat /\ Increment \in Nat
        /\ Watermark + Increment <= CreditMod /\ Watermark > 0
    BY CreditAssumption
  <1>2. CASE in - 1 < Watermark /\ auto
    <2>1. n = Increment
      BY <1>2
    <2>2. QED
      BY <1>1, <1>2, <2>1 DEF Credits
  <1>3. CASE ~(in - 1 < Watermark /\ auto)
    <2>1. n = new
      BY <1>3
    <2>2. QED
      BY <1>1, <2>1 DEF Credits
  <1>4. QED
    BY <1>2, <1>3

\* At most the next SDU was delivered.
Progress(sub, del, d) ==
    d = del \/ (Len(del) < Len(sub) /\ d = Append(del, sub[Len(del) + 1]))

\* l2cap_credit_based_handle_pdu: the PDU is the expected one; it is counted,
\* stored and, when it is the last one, the SDU is passed on.
LEMMA HandlePduSound ==
    ASSUME NEW s \in Working, NEW v \in Working, v.state # "closed", Fits(v),
           NEW ws \in Seq(Packet), ws # << >>, Head(ws).type = "pdu",
           NEW wv \in Seq(Packet),
           NEW sub \in Seq(Sdu), Len(sub) <= MaxSdus, NEW del \in Seq(Sdu),
           NEW q \in BOOLEAN, Direction(s, v, ws, wv, sub, del, q)
    PROVE  LET r == HandlePdu(v, Head(ws))
               del2 == del \o Dispatched(v, Head(ws))
           IN  /\ r \in Working /\ Fits(r) /\ del2 \in Seq(Sdu)
               /\ r.state = v.state /\ r.out = v.out /\ SameSdu(v, r)
               /\ r.busy = v.busy /\ r.notify = v.notify /\ r.out_q = v.out_q
               /\ Progress(sub, del, del2)
               /\ Direction(s, r, Tail(ws), wv, sub, del2, q)
  <1> DEFINE p == Head(ws)
             r == HandlePdu(v, p)
             del2 == del \o Dispatched(v, p)
             D == Len(del)
             R == Len(v.rbuf)
             L == Len(sub[D + 1])
             c == CountPdu(v)
             rbuf == Append(v.rbuf, p.piece)
             x == << D + 1, R + 1 >>
             new == IF v.in - 1 < Watermark /\ v.auto THEN Increment ELSE v.new
  <1>1. /\ p.piece = x /\ D + 1 \in 1..Len(sub) /\ R + 1 \in 1..L /\ L \in 1..MaxPieces
        /\ (IF v.rlen = 0 THEN p.len ELSE v.rlen) = L
        /\ v.in > 0
    <2> HIDE DEF r, del2, c, rbuf, new
    <2>1. Expected(v, Head(ws), sub, del)
      BY HeadExpected
    <2>2. QED
      BY <2>1 DEF Expected
  <1>2. p \in Packet /\ p.piece \in Piece /\ p.len \in 0..MaxPieces
    BY WireTail, PacketFields
  <1>3. /\ D \in Nat /\ R \in Nat /\ L \in Nat /\ Len(sub) \in Nat
        /\ v.rbuf \in Seq(Piece) /\ v.in \in Nat /\ v.in \in 1..(CreditMod - 1)
        /\ v.rlen \in 0..MaxPieces /\ v.new \in Credits /\ v.new \in Nat
    <2> HIDE DEF r, del2, c, rbuf, new, x, p
    <2>1. D \in Nat /\ R \in Nat /\ Len(sub) \in Nat /\ v.rbuf \in Seq(Piece)
      BY DEF Working
    <2>2. L \in Nat
      BY <1>1, CbmBoundAssumption
    <2>3. v.in \in Nat /\ v.in \in 1..(CreditMod - 1) /\ v.new \in Credits /\ v.new \in Nat
      <3>1. v.in \in Credits /\ v.new \in Credits
        BY DEF Working
      <3>2. v.in > 0
        BY <1>1
      <3>3. QED
        BY <3>1, <3>2, CreditAssumption DEF Credits
    <2>4. v.rlen \in 0..MaxPieces
      BY DEF Working
    <2>5. QED
      BY <2>1, <2>2, <2>3, <2>4
  <1>4. rbuf \in Seq(Piece) /\ Len(rbuf) = R + 1 /\ rbuf[R + 1] = x
        /\ \A i \in 1..R : rbuf[i] = v.rbuf[i]
    BY <1>1, <1>2, <1>3
  <1>5. /\ Sender(s, sub) /\ Receiver(v, sub, del) /\ Balance(s, v, ws, wv)
        /\ Stream(s, v, ws, sub, del) /\ Wanted(s, ws, q)
    BY DEF Direction
  <1>6. \A i \in 1..(R + 1) : rbuf[i] = << D + 1, i >>
    <2>1. \A i \in 1..R : v.rbuf[i] = << D + 1, i >>
      <3>1. R # 0 => v.rbuf # << >>
        OBVIOUS
      <3>2. QED
        BY <1>3, <1>5, <3>1 DEF Receiver
    <2>2. rbuf[R + 1] = << D + 1, R + 1 >>
      BY <1>4
    <2> HIDE DEF rbuf, R, D, x
    <2>3. \A i \in 1..(R + 1) : i \in 1..R \/ i = R + 1
      BY <1>3
    <2>4. QED
      BY <1>4, <2>1, <2>2, <2>3
  <1>7. new \in Credits /\ (v.in - 1) \in Credits /\ (v.in - 1) + new < CreditMod
    <2>1. v.in + v.new < CreditMod
      BY <1>5 DEF Balance
    <2>2. v.in > 0 /\ v.in < CreditMod /\ v.auto \in BOOLEAN
      <3> HIDE DEF p, r, del2, D, R, L, c, rbuf, x, new
      <3>1. v.auto \in BOOLEAN
        BY DEF Working
      <3>2. v.in > 0 /\ v.in < CreditMod
        BY <1>3, CreditAssumption
      <3>3. QED
        BY <3>1, <3>2
    <2>3. QED
      BY <1>3, <2>1, <2>2, CountNumbers
  <1>8. /\ c \in Working /\ c.in = v.in - 1 /\ c.new = new /\ c.rlen = v.rlen
        /\ c.rbuf = v.rbuf /\ c.state = v.state /\ c.out = v.out /\ SameSdu(v, c)
        /\ c.busy = v.busy /\ c.notify = v.notify /\ c.out_q = v.out_q
    BY <1>7 DEF CountPdu, Working, SameSdu
  <1> DEFINE len == IF c.rlen = 0 THEN p.len ELSE c.rlen
  <1>9. len = L
    BY <1>1, <1>8
  <1>10. r = IF R + 1 = L THEN [c EXCEPT !.rlen = 0, !.rbuf = << >>]
             ELSE [c EXCEPT !.rlen = L, !.rbuf = rbuf]
    <2>1. v.in # 0 /\ ~(Len(rbuf) > L)
      BY <1>1, <1>3, <1>4
    <2>2. Append(c.rbuf, p.piece) = rbuf
      BY <1>8
    <2>3. QED
      BY <1>4, <1>9, <2>1, <2>2 DEF HandlePdu
  <1>11. Dispatched(v, p) = IF R + 1 = L THEN << rbuf >> ELSE << >>
    BY <1>1 DEF Dispatched
  <1> HIDE DEF c, r, rbuf, new, len, L, D, R, x, p
  <1>12. /\ r \in Working /\ r.in = v.in - 1 /\ r.new = new /\ r.state = v.state
         /\ r.out = v.out /\ SameSdu(v, r) /\ r.busy = v.busy /\ r.notify = v.notify
         /\ r.out_q = v.out_q
         /\ r.rlen = (IF R + 1 = L THEN 0 ELSE L)
         /\ r.rbuf = (IF R + 1 = L THEN << >> ELSE rbuf)
    <2>1. << >> \in Seq(Piece) /\ 0 \in 0..MaxPieces /\ L \in 0..MaxPieces
      BY <1>1, CbmBoundAssumption
    <2>2. CASE R + 1 = L
      BY <1>8, <1>10, <2>1, <2>2 DEF Working, SameSdu
    <2>3. CASE R + 1 # L
      BY <1>4, <1>8, <1>10, <2>1, <2>3 DEF Working, SameSdu
    <2>4. QED
      BY <2>2, <2>3
  <1>13. Fits(r)
    <2>1. r.pos <= Len(r.sdu)
      BY <1>12 DEF Fits, SameSdu
    <2>2. Len(r.rbuf) <= r.rlen
      BY <1>1, <1>3, <1>4, <1>12
    <2>3. QED
      BY <2>1, <2>2 DEF Fits
  <1>14. Balance(s, r, Tail(ws), wv)
    <2>1. Pdus(ws) = OnePdu(p) + Pdus(Tail(ws)) /\ Pdus(Tail(ws)) \in Nat
      BY WireTail, WireType DEF p
    <2>2. OnePdu(p) = 1
      BY DEF OnePdu, p
    <2>3. s.out \in Nat /\ Grants(wv) \in Nat
      BY CreditAssumption, WireType DEF Working, Credits
    <2>4. \A i, j, k \in Nat : i + (1 + j) + k = (i + j + k) + 1 /\ i + j + k \in Nat
      OBVIOUS
    <2>40. Pdus(ws) = 1 + Pdus(Tail(ws))
      BY <2>1, <2>2
    <2>5. s.out + Pdus(ws) + Grants(wv) = (s.out + Pdus(Tail(ws)) + Grants(wv)) + 1
      <3>1. s.out + (1 + Pdus(Tail(ws))) + Grants(wv)
                = (s.out + Pdus(Tail(ws)) + Grants(wv)) + 1
        BY <2>1, <2>3, <2>4
      <3>2. QED
        BY <2>40, <3>1
    <2> DEFINE m == s.out + Pdus(Tail(ws)) + Grants(wv)
    <2>6. m \in Nat
      BY <2>1, <2>3
    <2>7. m + 1 <= v.in /\ (s.state # "closed" => m + 1 = v.in)
      BY <1>5, <2>5 DEF Balance
    <2> HIDE DEF m
    <2>8. m <= v.in - 1 /\ (s.state # "closed" => m = v.in - 1)
      <3>1. \A i, j \in Nat : (i + 1 <= j => i <= j - 1) /\ (i + 1 = j => i = j - 1)
        OBVIOUS
      <3>2. v.in \in Nat
        BY <1>3
      <3>3. QED
        BY <2>6, <2>7, <3>1, <3>2
    <2>9. QED
      BY <1>7, <1>12, <2>8 DEF Balance, m
  <1>15. CASE R + 1 = L
    <2>1. rbuf = sub[D + 1]
      <3>1. sub[D + 1] = NewSdu(D + 1, L)
        BY <1>1, <1>5 DEF Sender, L
      <3>2. rbuf = [i \in 1..L |-> rbuf[i]]
        BY <1>4, <1>15
      <3>3. QED
        BY <1>6, <1>15, <3>1, <3>2 DEF NewSdu
    <2>2. /\ del2 = Append(del, sub[D + 1]) /\ del2 \in Seq(Sdu) /\ Len(del2) = D + 1
          /\ del2[D + 1] = sub[D + 1] /\ \A k \in 1..D : del2[k] = del[k]
      <3>1. sub[D + 1] \in Sdu
        BY <1>1
      <3>2. Dispatched(v, p) = << sub[D + 1] >>
        BY <1>11, <1>15, <2>1
      <3>3. QED
        BY <3>1, <3>2 DEF D
    <2> HIDE DEF del2
    <2>3. r.rbuf = << >> /\ r.rlen = 0
      BY <1>12, <1>15
    <2>4. Receiver(r, sub, del2)
      <3>1. \A k \in 1..Len(del2) : del2[k] = sub[k]
        BY <1>3, <1>5, <2>2 DEF Receiver, D
      <3>2. Len(del2) <= Len(sub)
        BY <1>1, <1>3, <2>2
      <3>3. QED
        BY <2>3, <3>1, <3>2 DEF Receiver
    <2>5. RecvPos(v, del) = x /\ RecvPos(r, del2) = << D + 2, 1 >>
      <3>1. RecvPos(v, del) = x
        BY DEF RecvPos, x, D, R
      <3>2. Len(r.rbuf) + 1 = 1 /\ Len(del2) + 1 = D + 2
        BY <1>3, <2>2, <2>3
      <3>3. QED
        BY <3>1, <3>2 DEF RecvPos
    <2>6. Stream(s, r, Tail(ws), sub, del2)
      <3>1. x[1] = D + 1 /\ x[2] = R + 1 /\ IsPiece(x, sub) /\ (D + 1) + 1 = D + 2
        BY <1>1, <1>3 DEF x, IsPiece, L
      <3>2. \A k \in 1..Len(sub) : Len(sub[k]) \in Nat
        BY <1>5, CbmBoundAssumption DEF Sender
      <3>3. s.sdu # << >> => Len(sub) > 0 /\ s.pos < Len(sub[Len(sub)])
        BY <1>5 DEF Sender
      <3> DEFINE y == << D + 2, 1 >>
      <3>4. y[1] = D + 2 /\ y[2] = 1
        OBVIOUS
      <3> HIDE DEF y
      <3>5. Follows(x, y, L)
        BY <1>1, <1>3, <1>15, <3>1, <3>4 DEF Follows
      <3>6. L = Len(sub[x[1]]) /\ Head(ws).piece = x /\ y = RecvPos(r, del2)
        BY <1>1, <2>5, <3>1 DEF L, p, y
      <3>7. QED
        BY <1>5, <1>12, <2>2, <2>5, <3>1, <3>2, <3>3, <3>5, <3>6, StreamTake
    <2>7. Wanted(s, Tail(ws), q)
      BY <1>5, WantedTail
    <2>8. Direction(s, r, Tail(ws), wv, sub, del2, q)
      BY <1>5, <1>14, <2>4, <2>6, <2>7 DEF Direction
    <2>9. D < Len(sub)
      BY <1>1, <1>3
    <2>10. QED
      BY <1>12, <1>13, <2>2, <2>8, <2>9 DEF r, p, del2, D, Progress
  <1>16. CASE R + 1 # L
    <2>1. del2 = del
      BY <1>11, <1>16
    <2> HIDE DEF del2
    <2>2. r.rbuf = rbuf /\ r.rlen = L /\ rbuf # << >>
      BY <1>3, <1>4, <1>12, <1>16
    <2>3. Receiver(r, sub, del)
      <3>1. Len(del) <= Len(sub) /\ \A k \in 1..Len(del) : del[k] = sub[k]
        BY <1>5 DEF Receiver
      <3>2. Len(del) < Len(sub) /\ r.rlen = Len(sub[Len(del) + 1]) /\ Len(r.rbuf) < r.rlen
        BY <1>1, <1>3, <1>4, <1>16, <2>2 DEF D, L
      <3>3. \A i \in 1..Len(r.rbuf) : r.rbuf[i] = << Len(del) + 1, i >>
        BY <1>4, <1>6, <2>2 DEF D
      <3>4. QED
        BY <2>2, <3>1, <3>2, <3>3 DEF Receiver
    <2>4. RecvPos(v, del) = x /\ RecvPos(r, del) = << D + 1, R + 2 >>
      <3>1. RecvPos(v, del) = x
        BY DEF RecvPos, x, D, R
      <3>2. Len(r.rbuf) + 1 = R + 2
        BY <1>3, <1>4, <2>2
      <3>3. QED
        BY <3>1, <3>2 DEF RecvPos, D
    <2>5. Stream(s, r, Tail(ws), sub, del)
      <3>1. x[1] = D + 1 /\ x[2] = R + 1 /\ IsPiece(x, sub) /\ (R + 1) + 1 = R + 2
        BY <1>1, <1>3 DEF x, IsPiece, L
      <3>2. \A k \in 1..Len(sub) : Len(sub[k]) \in Nat
        BY <1>5, CbmBoundAssumption DEF Sender
      <3>3. s.sdu # << >> => Len(sub) > 0 /\ s.pos < Len(sub[Len(sub)])
        BY <1>5 DEF Sender
      <3> DEFINE y == << D + 1, R + 2 >>
      <3>4. y[1] = D + 1 /\ y[2] = R + 2
        OBVIOUS
      <3> HIDE DEF y
      <3>5. Follows(x, y, L)
        BY <1>1, <1>3, <1>16, <3>1, <3>4 DEF Follows
      <3>6. L = Len(sub[x[1]]) /\ Head(ws).piece = x /\ y = RecvPos(r, del)
        BY <1>1, <2>4, <3>1 DEF L, p, y
      <3>7. QED
        BY <1>5, <1>12, <2>4, <3>1, <3>2, <3>3, <3>5, <3>6, StreamTake
    <2>6. Wanted(s, Tail(ws), q)
      BY <1>5, WantedTail
    <2>7. Direction(s, r, Tail(ws), wv, sub, del, q)
      BY <1>5, <1>14, <2>3, <2>5, <2>6 DEF Direction
    <2>8. QED
      BY <1>12, <1>13, <2>1, <2>7 DEF r, p, del2, D, Progress
  <1>17. QED
    BY <1>15, <1>16

-----------------------------------------------------------------------------
(* The invariant as the device x sees it that takes a step: s is its record  *)
(* and v that of its peer.                                                   *)

View(x, s, v, ws, wv) ==
    IF x = A THEN Opening(s, v, ws, wv) ELSE Opening(v, s, wv, ws)

Duo(x, s, v, ws, wv, subS, subV, delS, delV, q) ==
    /\ x \in Sides /\ s \in Working /\ v \in Working
    /\ ws \in Seq(Packet) /\ wv \in Seq(Packet)
    /\ subS \in Seq(Sdu) /\ subV \in Seq(Sdu) /\ delS \in Seq(Sdu) /\ delV \in Seq(Sdu)
    /\ q \in BOOLEAN
    /\ View(x, s, v, ws, wv)
    /\ Direction(s, v, ws, wv, subS, delS, q)
    /\ Direction(v, s, wv, ws, subV, delV, q)
    /\ Len(subS) + Len(subV) <= MaxSdus

\* Either device sees the same invariant.
LEMMA DuoPair ==
    ASSUME NEW x \in Sides, NEW f \in [Sides -> Working], NEW w \in [Sides -> Seq(Packet)],
           NEW sub \in [Sides -> Seq(Sdu)], NEW del \in [Sides -> Seq(Sdu)],
           NEW q \in BOOLEAN
    PROVE  PairInv(f[A], f[B], w[A], w[B], sub[A], sub[B], del[A], del[B], q)
             <=> Duo(x, f[x], f[Peer(x)], w[x], w[Peer(x)], sub[x], sub[Peer(x)],
                     del[x], del[Peer(x)], q)
  <1>1. Len(sub[A]) \in Nat /\ Len(sub[B]) \in Nat
    BY DEF Sides
  <1>2. Len(sub[A]) + Len(sub[B]) = Len(sub[B]) + Len(sub[A])
    <2>1. \A i, j \in Nat : i + j = j + i
      OBVIOUS
    <2>2. QED
      BY <1>1, <2>1
  <1>3. Peer(x) \in Sides
    BY DEF Peer, Sides
  <1>4. CASE x = A
    BY <1>3, <1>4 DEF PairInv, Duo, View, Peer
  <1>5. CASE x = B /\ A # B
    BY <1>2, <1>3, <1>5 DEF PairInv, Duo, View, Peer
  <1>6. QED
    BY <1>4, <1>5, SideAssumption DEF Sides

\* The invariant does not depend on what was sent in the step.
Alike(s, r) ==
    /\ r.state = s.state /\ r.in = s.in /\ r.new = s.new /\ r.out = s.out
    /\ r.sdu = s.sdu /\ r.pos = s.pos /\ r.rlen = s.rlen /\ r.rbuf = s.rbuf

\* Channels that are alike satisfy the invariant alike.
LEMMA DuoAlike ==
    ASSUME NEW x, NEW s, NEW r \in Working, NEW v, NEW ws, NEW wv, NEW subS, NEW subV,
           NEW delS, NEW delV, NEW q, Alike(s, r),
           Duo(x, s, v, ws, wv, subS, subV, delS, delV, q)
    PROVE  Duo(x, r, v, ws, wv, subS, subV, delS, delV, q)
  <1>1. SendPos(r, subS) = SendPos(s, subS) /\ RecvPos(r, delV) = RecvPos(s, delV)
    BY DEF SendPos, RecvPos, Alike
  <1>2. Direction(r, v, ws, wv, subS, delS, q)
    <2>1. Direction(s, v, ws, wv, subS, delS, q)
      BY DEF Duo
    <2>2. v.state # "closed" => Stream(r, v, ws, subS, delS)
      BY <1>1, <2>1 DEF Direction, Stream
    <2>3. Balance(r, v, ws, wv) /\ Sender(r, subS) /\ Wanted(r, ws, q)
      BY <2>1 DEF Direction, Balance, Sender, Wanted, Alike
    <2>4. QED
      BY <2>1, <2>2, <2>3 DEF Direction
  <1>3. Direction(v, r, wv, ws, subV, delV, q)
    <2>1. Direction(v, s, wv, ws, subV, delV, q)
      BY DEF Duo
    <2>2. r.state # "closed" => Stream(v, r, wv, subV, delV)
      BY <1>1, <2>1 DEF Direction, Stream, Alike
    <2>3. Balance(v, r, wv, ws) /\ Receiver(r, subV, delV)
      BY <2>1 DEF Direction, Balance, Receiver, Alike
    <2>4. QED
      BY <2>1, <2>2, <2>3 DEF Direction
  <1>4. View(x, r, v, ws, wv)
    BY DEF Duo, View, Opening, Alike
  <1>5. QED
    BY <1>2, <1>3, <1>4 DEF Duo

\* The record c of a device at the end of a step, and what is under way from it
Sent(r, ws, c, z) == c = [r EXCEPT !.out_q = << >>] /\ z = ws \o r.out_q

\* What l2cap_run sends keeps the invariant.
LEMMA OutcomeDuo ==
    ASSUME NEW x, NEW s, NEW r \in Working, NEW v, NEW ws, NEW wv,
           NEW subS, NEW subV, NEW delS, NEW delV, NEW q,
           Outcome(s, r), Duo(x, s, v, ws, wv, subS, subV, delS, delV, q),
           NEW c, NEW z, Sent(r, ws, c, z)
    PROVE  Duo(x, c, v, z, wv, subS, subV, delS, delV, q)
  <1>0. /\ x \in Sides /\ s \in Working /\ v \in Working
        /\ ws \in Seq(Packet) /\ wv \in Seq(Packet) /\ q \in BOOLEAN
        /\ subS \in Seq(Sdu) /\ subV \in Seq(Sdu) /\ delS \in Seq(Sdu) /\ delV \in Seq(Sdu)
    BY DEF Duo
  <1>1. /\ Direction(s, v, ws, wv, subS, delS, q) /\ Direction(v, s, wv, ws, subV, delV, q)
        /\ View(x, s, v, ws, wv)
    BY DEF Duo
  <1>2. ws \o r.out_q \in Seq(Packet) /\ Direction(r, v, ws \o r.out_q, wv, subS, delS, q)
    BY <1>0, <1>1, OutcomeSends
  <1>3. s.state \in {"will_request", "will_accept"} => s.in = 0
    BY <1>1, SideAssumption DEF View, Opening, New, Late
  <1>4. Direction(v, r, wv, ws \o r.out_q, subV, delV, q)
    BY <1>0, <1>1, <1>3, OutcomeReceives
  <1>5. View(x, r, v, ws \o r.out_q, wv)
    <2>1. CASE x = A
      BY <1>0, <1>1, <2>1, OutcomeOpeningA DEF View
    <2>2. CASE x # A
      BY <1>0, <1>1, <2>2, OutcomeOpeningB DEF View
    <2>3. QED
      BY <2>1, <2>2
  <1>6. Duo(x, r, v, ws \o r.out_q, wv, subS, subV, delS, delV, q)
    BY <1>0, <1>2, <1>4, <1>5 DEF Duo
  <1>7. Alike(r, c) /\ c \in Working
    BY WorkingChannel, ChannelWorking DEF Alike, Sent
  <1>8. Duo(x, c, v, ws \o r.out_q, wv, subS, subV, delS, delV, q)
    BY <1>6, <1>7, DuoAlike
  <1>9. QED
    BY <1>8 DEF Sent

\* What the application sees of a state
Seen(st) ==
    CASE st \in {"open", "will_disconnect", "wait_disconnect", "will_answer"} -> "open"
      [] st = "closed" -> "closed"
      [] OTHER -> "new"

\* l2cap_run opens or refuses a new channel, closes one that answers, or changes
\* nothing that the application sees.
Shows(st, st2) ==
    \/ Seen(st2) = Seen(st)
    \/ Seen(st) = "new" /\ Seen(st2) \in {"open", "closed"}
    \/ st = "will_answer" /\ st2 = "closed"

\* What the application sees of a run of l2cap_run.
LEMMA OutcomeShows ==
    ASSUME NEW s, NEW r, Outcome(s, r)
    PROVE  Shows(s.state, r.state) /\ (Settled(s) => r.state = s.state)
  BY DEF Outcome, Nothing, Offers, Grants1, Ends, Sends, Shows, Seen, Settled, Will

\* The end of a step that calls l2cap_run on the record s
LEMMA RunDuo ==
    ASSUME NEW x, NEW s, NEW v, NEW ws, NEW wv, NEW subS, NEW subV, NEW delS, NEW delV,
           NEW q, Duo(x, s, v, ws, wv, subS, subV, delS, delV, q),
           Fits(s), s.out_q = << >>, NEW c, NEW z, Sent(Run(s), ws, c, z)
    PROVE  /\ Duo(x, c, v, z, wv, subS, subV, delS, delV, q)
           /\ c \in Channel /\ Fits(c) /\ Settled(c)
           /\ Shows(s.state, c.state) /\ (Settled(s) => c.state = s.state)
  <1> DEFINE r == Run(s)
  <1>1. s \in Working /\ (s.sdu # << >> => s.pos < Len(s.sdu))
    BY DEF Duo, Direction, Sender
  <1>2. r \in Working /\ Fits(r) /\ Outcome(s, r) /\ Settled(r)
    BY <1>1, RunOutcome
  <1>3. Sent(r, ws, c, z)
    OBVIOUS
  <1> HIDE DEF r
  <1>4. /\ c \in Channel /\ c.state = r.state /\ c.busy = r.busy /\ c.pos = r.pos
        /\ c.sdu = r.sdu /\ c.rlen = r.rlen /\ c.rbuf = r.rbuf
    BY <1>2, <1>3, WorkingChannel DEF Sent
  <1>5. Fits(c) /\ Settled(c)
    BY <1>2, <1>4 DEF Fits, Settled
  <1>6. Duo(x, c, v, z, wv, subS, subV, delS, delV, q)
    BY <1>2, <1>3, OutcomeDuo
  <1>7. Shows(s.state, r.state) /\ (Settled(s) => r.state = s.state)
    BY <1>2, OutcomeShows
  <1>8. QED
    BY <1>4, <1>5, <1>6, <1>7

\* The first part of a step that only changes the device itself
LEMMA LocalDuo ==
    ASSUME NEW x, NEW s, NEW v, NEW ws, NEW wv, NEW subS, NEW subV, NEW delS, NEW delV,
           NEW q, Duo(x, s, v, ws, wv, subS, subV, delS, delV, q),
           NEW r \in Working, NEW q2 \in BOOLEAN, q => q2, Local(s, r),
           r.state \in Leaving => q2, View(x, r, v, ws, wv)
    PROVE  Duo(x, r, v, ws, wv, subS, subV, delS, delV, q2)
  <1>1. /\ x \in Sides /\ s \in Working /\ v \in Working
        /\ ws \in Seq(Packet) /\ wv \in Seq(Packet) /\ q \in BOOLEAN
        /\ Direction(s, v, ws, wv, subS, delS, q) /\ Direction(v, s, wv, ws, subV, delV, q)
    BY DEF Duo
  <1>2. /\ Direction(r, v, ws, wv, subS, delS, q2)
        /\ Direction(v, r, wv, ws, subV, delV, q2)
    BY <1>1, LocalSound
  <1>3. QED
    BY <1>1, <1>2 DEF Duo

\* Between the states of an established channel the opening does not change, and
\* only the initiator's first packet or the acceptor's answer to it matters.
LEMMA ViewLate ==
    ASSUME NEW x \in Sides, NEW s, NEW r, NEW v, NEW ws, NEW wv \in Seq(Packet),
           View(x, s, v, ws, wv), s.state \in Late, r.state \in Late
    PROVE  View(x, r, v, ws, wv) /\ (wv # << >> => View(x, r, v, ws, Tail(wv)))
  <1>0. A # B
    BY SideAssumption
  <1>1. View(x, r, v, ws, wv)
    BY <1>0 DEF View, Opening, New, Late
  <1>2. ASSUME wv # << >> PROVE View(x, r, v, ws, Tail(wv))
    <2>1. \A i \in DOMAIN Tail(wv) :
            i + 1 \in DOMAIN wv /\ Tail(wv)[i] = wv[i + 1] /\ i + 1 # 1
      BY <1>2, TailIndex
    <2>2. CASE x = A
      BY <1>0, <1>1, <2>1, <2>2 DEF View, Opening, New, Late
    <2>3. CASE x # A
      BY <1>0, <1>1, <2>1, <2>3 DEF View, Opening, New, Late
    <2>4. QED
      BY <2>2, <2>3
  <1>3. QED
    BY <1>1, <1>2

\* A device in an early state receives nothing but a request or the answer to it.
LEMMA HeadEarly ==
    ASSUME NEW x, NEW s \in Working, NEW v, NEW ws, NEW wv \in Seq(Packet), wv # << >>,
           x \in Sides, View(x, s, v, ws, wv)
    PROVE  /\ Head(wv).type = "request" =>
                x # A /\ s.state = "none" /\ Tail(wv) = << >> /\ v.state = "wait_response"
                /\ ws = << >> /\ s.in = 0 /\ s.out = 0
           /\ Head(wv).type \in {"accept", "decline"} =>
                x = A /\ s.state = "wait_response" /\ v.state \in Late /\ s.out = 0
           /\ Head(wv).type \notin {"request", "accept", "decline"} => s.state \in Late
  <1>0. A # B
    BY SideAssumption
  <1>1. wv[1] = Head(wv) /\ 1 \in DOMAIN wv /\ (Len(wv) = 1 => Tail(wv) = << >>)
    <2>1. wv[1] = Head(wv) /\ 1 \in DOMAIN wv
      BY TailIndex
    <2>2. Tail(wv) \in Seq(Packet) /\ Len(Tail(wv)) = Len(wv) - 1
      BY TailIndex, WireTail
    <2>3. Tail(wv) # << >> => Len(Tail(wv)) \in Nat \ {0}
      BY <2>2, EmptySeq
    <2>4. QED
      BY <2>1, <2>2, <2>3
  <1>2. CASE x = A
    BY <1>0, <1>1, <1>2 DEF View, Opening, New, Late
  <1>3. CASE x # A
    <2>1. Opening(v, s, wv, ws)
      BY <1>3 DEF View
    <2>2. Head(wv).type \notin {"accept", "decline"}
      BY <1>1, <2>1 DEF Opening
    <2>3. Head(wv).type = "request" => s.state = "none"
      BY <1>1, <2>1 DEF Opening
    <2>4. s.state \notin Late => s.state = "none" /\ Head(wv).type = "request"
      BY <1>0, <1>1, <2>1 DEF Opening, New, Late
    <2>5. s.state = "none" => v.state = "wait_response" /\ Len(wv) = 1
      BY <1>0, <1>1, <2>1 DEF Opening, New, Late
    <2>6. s.state = "none" => ws = << >> /\ s.in = 0 /\ s.out = 0
      BY <1>0, <2>1 DEF Opening, New
    <2>7. QED
      BY <1>1, <1>3, <2>2, <2>3, <2>4, <2>5, <2>6
  <1>4. QED
    BY <1>2, <1>3

\* A device takes a packet that is not a PDU, or is closed: its record becomes r.
LEMMA TakeDuo ==
    ASSUME NEW x, NEW s, NEW v, NEW ws, NEW wv, NEW subS, NEW subV, NEW delS, NEW delV,
           NEW q, Duo(x, s, v, ws, wv, subS, subV, delS, delV, q), wv # << >>,
           NEW r \in Working, Head(wv).type # "pdu" \/ s.state = "closed",
           \/ s.state = "closed" /\ r.out = s.out
           \/ r.out = s.out + OneGrant(Head(wv)),
           s.state = "closed" => r.state = "closed", r.state \in Leaving => q,
           r.in = s.in, r.new = s.new, r.rlen = s.rlen, r.rbuf = s.rbuf, SameSdu(s, r),
           View(x, r, v, ws, Tail(wv))
    PROVE  Duo(x, r, v, ws, Tail(wv), subS, subV, delS, delV, q)
  <1>1. /\ x \in Sides /\ s \in Working /\ v \in Working
        /\ ws \in Seq(Packet) /\ wv \in Seq(Packet) /\ q \in BOOLEAN
        /\ Direction(s, v, ws, wv, subS, delS, q) /\ Direction(v, s, wv, ws, subV, delV, q)
    BY DEF Duo
  <1>2. Direction(r, v, ws, Tail(wv), subS, delS, q)
    BY <1>1, TakeGrant
  <1>3. Direction(v, r, Tail(wv), ws, subV, delV, q)
    BY <1>1, TakeSignal
  <1>4. Tail(wv) \in Seq(Packet)
    BY <1>1, WireTail
  <1>5. QED
    BY <1>1, <1>2, <1>3, <1>4 DEF Duo

\* The record and what was delivered after the PDU p
Handed(s, p, del, r, d) == r = HandlePdu(s, p) /\ d = del \o Dispatched(s, p)

Kept(s, r) == r.out_q = s.out_q /\ r.state = s.state /\ r.busy = s.busy

\* A PDU that is taken by a device that is not closed; d is what was delivered.
LEMMA PduDuo ==
    ASSUME NEW x, NEW s, NEW v, NEW ws, NEW wv, NEW subS, NEW subV, NEW delS, NEW delV,
           NEW q, Duo(x, s, v, ws, wv, subS, subV, delS, delV, q), wv # << >>,
           Head(wv).type = "pdu", s.state # "closed", Fits(s), s.out_q = << >>,
           NEW r, NEW d, Handed(s, Head(wv), delV, r, d)
    PROVE  /\ Duo(x, r, v, ws, Tail(wv), subS, subV, delS, d, q)
           /\ Fits(r) /\ Kept(s, r)
           /\ Progress(subV, delV, d)
  <1>1. /\ x \in Sides /\ s \in Working /\ v \in Working
        /\ ws \in Seq(Packet) /\ wv \in Seq(Packet) /\ q \in BOOLEAN
        /\ subS \in Seq(Sdu) /\ subV \in Seq(Sdu) /\ delS \in Seq(Sdu) /\ delV \in Seq(Sdu)
        /\ Direction(s, v, ws, wv, subS, delS, q) /\ Direction(v, s, wv, ws, subV, delV, q)
        /\ View(x, s, v, ws, wv) /\ Len(subS) + Len(subV) <= MaxSdus
    BY DEF Duo
  <1>2. Len(subV) <= MaxSdus
    <2>1. Len(subS) \in Nat /\ Len(subV) \in Nat /\ MaxSdus \in Nat
      BY <1>1, CbmBoundAssumption
    <2>2. \A i, j, k \in Nat : i + j <= k => j <= k
      OBVIOUS
    <2>3. QED
      BY <1>1, <2>1, <2>2
  <1>3. /\ r \in Working /\ Fits(r) /\ d \in Seq(Sdu)
        /\ r.state = s.state /\ r.out = s.out /\ SameSdu(s, r)
        /\ r.busy = s.busy /\ r.notify = s.notify /\ r.out_q = s.out_q
        /\ Progress(subV, delV, d)
        /\ Direction(v, r, Tail(wv), ws, subV, d, q)
    <2>1. r = HandlePdu(s, Head(wv)) /\ d = delV \o Dispatched(s, Head(wv))
      BY DEF Handed
    <2>2. QED
      BY <1>1, <1>2, <2>1, HandlePduSound
  <1>4. OneGrant(Head(wv)) = 0 /\ r.out = s.out + 0
    <2>1. s.out \in Nat
      BY <1>1, CreditAssumption DEF Working, Credits
    <2>2. QED
      BY <1>3, <2>1 DEF OneGrant
  <1>5. r.state \in Leaving => q
    BY <1>1, <1>3 DEF Direction, Wanted, Leaving
  <1>6. Direction(r, v, ws, Tail(wv), subS, delS, q)
    BY <1>1, <1>3, <1>4, <1>5, TakeGrant
  <1>7. s.state \in Late
    BY <1>1, HeadEarly
  <1>8. View(x, r, v, ws, Tail(wv))
    BY <1>1, <1>3, <1>7, ViewLate
  <1>9. Tail(wv) \in Seq(Packet)
    BY <1>1, WireTail
  <1>10. QED
    BY <1>1, <1>3, <1>6, <1>8, <1>9 DEF Duo, Kept

\* The credits of an indication do not overflow: the peer counts on all of them.
LEMMA CreditsFit ==
    ASSUME NEW s \in Working, NEW v \in Working, NEW ws \in Seq(Packet),
           NEW wv \in Seq(Packet), wv # << >>, Head(wv).type = "credits",
           Balance(s, v, ws, wv)
    PROVE  /\ s.out + Head(wv).n < CreditMod /\ s.out + Head(wv).n \in Nat
           /\ s.out <= s.out + Head(wv).n /\ OneGrant(Head(wv)) = Head(wv).n
  <1> DEFINE n == Head(wv).n
             t == Grants(Tail(wv))
             k == Pdus(ws)
  <1>1. /\ Grants(wv) = n + t /\ OneGrant(Head(wv)) = n /\ n \in Nat /\ t \in Nat /\ k \in Nat
    BY WireTail, WireType, PacketFields DEF OneGrant
  <1>2. s.out \in Nat /\ v.in \in Nat /\ v.in < CreditMod /\ CreditMod \in Nat
    BY CreditAssumption DEF Working, Credits
  <1> HIDE DEF n, t, k
  <1>3. s.out + k + (n + t) <= v.in \/ s.out + (n + t) <= v.in
    BY <1>1 DEF Balance, k
  <1>4. \A i, j, l, m, e, h \in Nat :
            (i + j + (l + m) <= e \/ i + (l + m) <= e) /\ e < h
                => i + l < h /\ i + l \in Nat /\ i <= i + l
    OBVIOUS
  <1>5. s.out + n < CreditMod /\ s.out + n \in Nat /\ s.out <= s.out + n
    BY <1>1, <1>2, <1>3, <1>4
  <1>6. QED
    BY <1>1, <1>5 DEF n

\* What a received packet does to the state of a channel: nothing (and it may
\* complete an SDU), it opens or refuses a new one, or it is the end of one.
Took(s, r, del, d, q) ==
    \/ r.state = s.state /\ r.busy = s.busy
    \/ Seen(s.state) = "new" /\ d = del /\ r.state \in {"wait_accept", "open", "closed"}
    \/ Seen(s.state) = "open" /\ d = del /\ q /\ r.state \in {"will_answer", "closed"}

\* What was delivered after the packet p
Passed(s, p, del, d) ==
    d = del \o IF p.type = "pdu" /\ s.state # "closed" THEN Dispatched(s, p) ELSE << >>

\* The first part of l2cap_acl_handler: the packet is handled.
LEMMA HandleDuo ==
    ASSUME NEW x, NEW s, NEW v, NEW ws, NEW wv, NEW subS, NEW subV, NEW delS, NEW delV,
           NEW q, Duo(x, s, v, ws, wv, subS, subV, delS, delV, q), wv # << >>,
           Fits(s), s.out_q = << >>,
           NEW p, p = Head(wv), NEW r, r = Handle(s, p), NEW d, Passed(s, p, delV, d)
    PROVE  /\ Duo(x, r, v, ws, Tail(wv), subS, subV, delS, d, q)
           /\ Fits(r) /\ r.out_q = << >> /\ Took(s, r, delV, d, q)
           /\ Progress(subV, delV, d)
  <1>1. /\ x \in Sides /\ s \in Working /\ v \in Working
        /\ ws \in Seq(Packet) /\ wv \in Seq(Packet) /\ q \in BOOLEAN /\ delV \in Seq(Sdu)
        /\ Direction(s, v, ws, wv, subS, delS, q) /\ Direction(v, s, wv, ws, subV, delV, q)
        /\ View(x, s, v, ws, wv)
    BY DEF Duo
  <1>2. p \in Packet /\ (p.type # "pdu" => p.n \in Credits /\ p.n \in Nat /\ p.type \in Signals)
    BY <1>1, WireTail, PacketFields
  <1>3. /\ s.out \in Nat /\ s.out \in Credits /\ s.state \in States
        /\ s.out = s.out + 0
    <2>1. s.out \in Nat /\ s.out \in Credits /\ s.state \in States
      BY <1>1, CreditAssumption DEF Working, Credits
    <2>2. QED
      BY <2>1
  <1>4. s.state \in Leaving => q
    BY <1>1 DEF Direction, Wanted, Leaving
  <1>5. wv[1] = p /\ 1 \in DOMAIN wv
    BY <1>1, TailIndex
  <1>6. p.type \in {"disconnect", "answer"} => q
    BY <1>1, <1>5 DEF Direction, Wanted
  <1>7. p.type # "pdu" \/ s.state = "closed" => d = delV
    BY <1>1 DEF Passed
  <1>8. CASE p.type = "request"
    <2>1. r = [s EXCEPT !.state = "wait_accept", !.out = p.n]
      BY <1>8 DEF Handle
    <2>2. /\ x # A /\ s.state = "none" /\ Tail(wv) = << >> /\ v.state = "wait_response"
          /\ ws = << >> /\ s.in = 0 /\ s.out = 0
      BY <1>1, <1>8, HeadEarly
    <2>3. /\ r \in Working /\ r.state = "wait_accept" /\ r.out = p.n /\ r.in = s.in
          /\ r.new = s.new /\ r.rlen = s.rlen /\ r.rbuf = s.rbuf /\ SameSdu(s, r)
          /\ r.out_q = s.out_q
      BY <1>1, <1>2, <1>8, <2>1 DEF Working, States, SameSdu
    <2>4. OneGrant(p) = p.n /\ r.out = s.out + OneGrant(p)
      BY <1>2, <1>8, <2>2, <2>3 DEF OneGrant
    <2>5. View(x, r, v, ws, Tail(wv))
      <3>1. Opening(v, s, wv, ws)
        BY <1>1, <2>2 DEF View
      <3>2. Opening(v, r, << >>, ws)
        BY <2>2, <2>3, <3>1, SideAssumption DEF Opening, New, Late
      <3>3. QED
        BY <2>2, <3>2 DEF View
    <2>6. Duo(x, r, v, ws, Tail(wv), subS, subV, delS, delV, q)
      BY <1>8, <2>2, <2>3, <2>4, <2>5, TakeDuo DEF Leaving
    <2>7. Took(s, r, delV, d, q)
      BY <1>7, <1>8, <2>2, <2>3 DEF Took, Progress, Seen
    <2>8. QED
      BY <1>7, <1>8, <2>3, <2>6, <2>7 DEF Fits, SameSdu, Progress
  <1>9. CASE s.state = "closed" /\ p.type # "request"
    <2>1. r = s
      BY <1>9 DEF Handle
    <2>2. View(x, r, v, ws, Tail(wv))
      BY <1>1, <1>9, <2>1, ViewLate DEF Late
    <2>3. Duo(x, r, v, ws, Tail(wv), subS, subV, delS, delV, q)
      BY <1>1, <1>4, <1>9, <2>1, <2>2, TakeDuo DEF SameSdu
    <2>4. QED
      BY <1>7, <1>9, <2>1, <2>3 DEF Took, Progress
  <1>10. CASE s.state # "closed" /\ p.type = "accept"
    <2>1. r = [s EXCEPT !.state = "open", !.out = p.n]
      BY <1>10 DEF Handle
    <2>2. x = A /\ s.state = "wait_response" /\ v.state \in Late /\ s.out = 0
      BY <1>1, <1>10, HeadEarly
    <2>3. /\ r \in Working /\ r.state = "open" /\ r.out = p.n /\ r.in = s.in
          /\ r.new = s.new /\ r.rlen = s.rlen /\ r.rbuf = s.rbuf /\ SameSdu(s, r)
          /\ r.out_q = s.out_q
      BY <1>1, <1>2, <1>10, <2>1 DEF Working, States, SameSdu
    <2>4. OneGrant(p) = p.n /\ r.out = s.out + OneGrant(p)
      BY <1>2, <1>10, <2>2, <2>3 DEF OneGrant
    <2>5. View(x, r, v, ws, Tail(wv))
      <3>1. Opening(s, v, ws, wv)
        BY <1>1, <2>2 DEF View
      <3>2. \A i \in DOMAIN Tail(wv) :
                i + 1 \in DOMAIN wv /\ Tail(wv)[i] = wv[i + 1] /\ i + 1 # 1
        BY <1>1, TailIndex
      <3>3. Opening(r, v, ws, Tail(wv))
        BY <2>2, <2>3, <3>1, <3>2, SideAssumption DEF Opening, New, Late
      <3>4. QED
        BY <2>2, <3>3 DEF View
    <2>6. Duo(x, r, v, ws, Tail(wv), subS, subV, delS, delV, q)
      BY <1>10, <2>2, <2>3, <2>4, <2>5, TakeDuo DEF Leaving
    <2>7. Took(s, r, delV, d, q)
      BY <1>7, <1>10, <2>2, <2>3 DEF Took, Progress, Seen
    <2>8. QED
      BY <1>7, <1>10, <2>3, <2>6, <2>7 DEF Fits, SameSdu, Progress
  <1>11. CASE s.state # "closed" /\ p.type = "decline"
    <2>1. r = [s EXCEPT !.state = "closed"]
      BY <1>11 DEF Handle
    <2>2. x = A /\ s.state = "wait_response" /\ v.state \in Late /\ s.out = 0
      BY <1>1, <1>11, HeadEarly
    <2>3. /\ r \in Working /\ r.state = "closed" /\ r.out = s.out /\ r.in = s.in
          /\ r.new = s.new /\ r.rlen = s.rlen /\ r.rbuf = s.rbuf /\ SameSdu(s, r)
          /\ r.out_q = s.out_q
      BY <1>1, <2>1 DEF Working, States, SameSdu
    <2>4. r.out = s.out + OneGrant(p)
      BY <1>3, <1>11, <2>3 DEF OneGrant
    <2>5. View(x, r, v, ws, Tail(wv))
      <3>1. Opening(s, v, ws, wv)
        BY <1>1, <2>2 DEF View
      <3>2. \A i \in DOMAIN Tail(wv) :
                i + 1 \in DOMAIN wv /\ Tail(wv)[i] = wv[i + 1] /\ i + 1 # 1
        BY <1>1, TailIndex
      <3>3. Opening(r, v, ws, Tail(wv))
        BY <2>2, <2>3, <3>1, <3>2, SideAssumption DEF Opening, New, Late
      <3>4. QED
        BY <2>2, <3>3 DEF View
    <2>6. Duo(x, r, v, ws, Tail(wv), subS, subV, delS, delV, q)
      BY <1>11, <2>2, <2>3, <2>4, <2>5, TakeDuo DEF Leaving
    <2>7. Took(s, r, delV, d, q)
      BY <1>7, <1>11, <2>2, <2>3 DEF Took, Progress, Seen
    <2>8. QED
      BY <1>7, <1>11, <2>3, <2>6, <2>7 DEF Fits, SameSdu, Progress
  <1>12. CASE s.state # "closed" /\ p.type = "credits"
    <2>1. /\ s.out + p.n < CreditMod /\ s.out + p.n \in Nat /\ s.out <= s.out + p.n
          /\ OneGrant(p) = p.n
      BY <1>1, <1>12, CreditsFit DEF Direction
    <2>2. CreditMod \in Nat /\ (s.out + p.n) % CreditMod = s.out + p.n
      BY <2>1, CreditAssumption, NoOverflow
    <2>3. ~(s.out > s.out + p.n) /\ s.out + p.n \in Credits
      BY <1>2, <1>3, <1>12, <2>1, <2>2 DEF Credits
    <2>4. r = [s EXCEPT !.out = s.out + p.n, !.notify = TRUE]
      BY <1>12, <2>2, <2>3 DEF Handle, HandleCredits
    <2>5. /\ r \in Working /\ r.state = s.state /\ r.out = s.out + OneGrant(p) /\ r.in = s.in
          /\ r.new = s.new /\ r.rlen = s.rlen /\ r.rbuf = s.rbuf /\ SameSdu(s, r)
          /\ r.out_q = s.out_q /\ r.busy = s.busy
      BY <1>1, <2>1, <2>3, <2>4 DEF Working, SameSdu
    <2>6. s.state \in Late
      BY <1>1, <1>12, HeadEarly
    <2>7. View(x, r, v, ws, Tail(wv))
      BY <1>1, <2>5, <2>6, ViewLate
    <2>8. Duo(x, r, v, ws, Tail(wv), subS, subV, delS, delV, q)
      BY <1>4, <1>12, <2>5, <2>7, TakeDuo
    <2>9. QED
      BY <1>7, <1>12, <2>5, <2>8 DEF Fits, SameSdu, Took, Progress
  <1>13. CASE s.state # "closed" /\ p.type = "pdu"
    <2>1. Handed(s, Head(wv), delV, r, d)
      BY <1>13 DEF Handle, Passed, Handed
    <2>2. /\ Duo(x, r, v, ws, Tail(wv), subS, subV, delS, d, q)
          /\ Fits(r) /\ Kept(s, r)
          /\ Progress(subV, delV, d)
      BY <1>13, <2>1, PduDuo
    <2>3. QED
      BY <2>2 DEF Took, Kept
  <1>14. CASE s.state # "closed" /\ p.type \in {"disconnect", "answer"}
    <2>1. s.state \in Late /\ q
      BY <1>1, <1>6, <1>14, HeadEarly
    <2>2. \/ r = [s EXCEPT !.state = "will_answer"]
          \/ r = [s EXCEPT !.state = "closed"]
          \/ r = s
      BY <1>14 DEF Handle
    <2>3. /\ r \in Working /\ r.state \in Late /\ r.out = s.out /\ r.in = s.in
          /\ r.new = s.new /\ r.rlen = s.rlen /\ r.rbuf = s.rbuf /\ SameSdu(s, r)
          /\ r.out_q = s.out_q
          /\ r.state \in {"will_answer", "closed"} \/ (r.state = s.state /\ r.busy = s.busy)
      BY <1>1, <2>1, <2>2 DEF Working, States, SameSdu, Late
    <2>4. r.out = s.out + OneGrant(p)
      BY <1>3, <1>14, <2>3 DEF OneGrant
    <2>5. View(x, r, v, ws, Tail(wv))
      BY <1>1, <2>1, <2>3, ViewLate
    <2>6. Duo(x, r, v, ws, Tail(wv), subS, subV, delS, delV, q)
      BY <1>14, <2>1, <2>3, <2>4, <2>5, TakeDuo
    <2>7. Took(s, r, delV, d, q)
      BY <1>7, <1>14, <2>1, <2>3 DEF Took, Progress, Seen, Late
    <2>8. QED
      BY <1>7, <1>14, <2>3, <2>6, <2>7 DEF Fits, SameSdu, Progress
  <1>15. QED
    BY <1>2, <1>8, <1>9, <1>10, <1>11, <1>12, <1>13, <1>14 DEF Signals

\* There is room for one more SDU d, of m pieces; r is the record with it.
Loaded(s, subS, subV, m, d, r) ==
    /\ s.sdu = << >> /\ s.state = "open" /\ Len(subS) + Len(subV) < MaxSdus
    /\ m \in 1..MaxPieces /\ d = NewSdu(Len(subS) + 1, m)
    /\ r = [s EXCEPT !.sdu = d, !.pos = 0]

\* The first part of l2cap_send: the SDU is accepted.
LEMMA SubmitDuo ==
    ASSUME NEW x, NEW s, NEW v, NEW ws, NEW wv, NEW subS, NEW subV, NEW delS, NEW delV,
           NEW q, Duo(x, s, v, ws, wv, subS, subV, delS, delV, q),
           Fits(s), s.out_q = << >>, NEW m, NEW d, NEW r,
           Loaded(s, subS, subV, m, d, r)
    PROVE  /\ Duo(x, r, v, ws, wv, Append(subS, d), subV, delS, delV, q)
           /\ d \in Sdu /\ Fits(r) /\ r.out_q = << >> /\ r.state = "open"
  <1>1. /\ x \in Sides /\ s \in Working /\ v \in Working
        /\ ws \in Seq(Packet) /\ wv \in Seq(Packet) /\ q \in BOOLEAN
        /\ subS \in Seq(Sdu) /\ subV \in Seq(Sdu) /\ delS \in Seq(Sdu) /\ delV \in Seq(Sdu)
        /\ Direction(s, v, ws, wv, subS, delS, q) /\ Direction(v, s, wv, ws, subV, delV, q)
        /\ View(x, s, v, ws, wv)
    BY DEF Duo
  <1>20. /\ s.sdu = << >> /\ s.state = "open" /\ Len(subS) + Len(subV) < MaxSdus
         /\ m \in 1..MaxPieces /\ d = NewSdu(Len(subS) + 1, m)
    BY DEF Loaded
  <1>2. /\ Len(subS) \in Nat /\ Len(subV) \in Nat /\ MaxSdus \in Nat
    BY <1>1, CbmBoundAssumption
  <1>3. /\ Len(subS) + 1 \in 1..MaxSdus /\ (Len(subS) + 1) + Len(subV) <= MaxSdus
    <2>1. \A i, j, k \in Nat : i + j < k => i + 1 \in 1..k /\ (i + 1) + j <= k
      OBVIOUS
    <2>2. QED
      BY <1>2, <1>20, <2>1
  <1>4. d \in Sdu
    BY <1>3, <1>20 DEF Sdu
  <1>5. d # << >> /\ Len(d) \in Nat /\ 0 \in 0..MaxPieces
    BY <1>4, SduSeq, CbmBoundAssumption
  <1>6. /\ r \in Working /\ r.sdu = d /\ r.pos = 0 /\ r.out = s.out /\ r.state = s.state
        /\ r.in = s.in /\ r.new = s.new /\ r.rlen = s.rlen /\ r.rbuf = s.rbuf
        /\ r.out_q = s.out_q
    BY <1>1, <1>4, <1>5 DEF Working, Loaded
  <1>7. Direction(r, v, ws, wv, Append(subS, r.sdu), delS, q)
    <2>1. Submits(s, r, subS, m)
      BY <1>6, <1>20 DEF Submits
    <2>2. QED
      BY <1>1, <1>6, <1>20, <2>1, SubmitSound
  <1>8. Direction(v, r, wv, ws, subV, delV, q)
    <2>1. RecvPos(r, delV) = RecvPos(s, delV)
      BY <1>6 DEF RecvPos
    <2>2. r.state # "closed" => Stream(v, r, wv, subV, delV)
      BY <1>1, <1>6, <2>1 DEF Direction, Stream
    <2>3. Balance(v, r, wv, ws) /\ Receiver(r, subV, delV)
      BY <1>1, <1>6 DEF Direction, Balance, Receiver
    <2>4. QED
      BY <1>1, <2>2, <2>3 DEF Direction
  <1>9. View(x, r, v, ws, wv)
    BY <1>1, <1>6 DEF View, Opening
  <1>10. Append(subS, d) \in Seq(Sdu) /\ Len(Append(subS, d)) = Len(subS) + 1
    BY <1>1, <1>4
  <1>11. Fits(r)
    BY <1>5, <1>6 DEF Fits
  <1>12. QED
    BY <1>1, <1>3, <1>4, <1>6, <1>7, <1>8, <1>9, <1>10, <1>11, <1>20 DEF Duo

\* Its second part: the first PDU, if it can be sent
LEMMA NotifyDuo ==
    ASSUME NEW x, NEW s, NEW v, NEW ws, NEW wv, NEW subS, NEW subV, NEW delS, NEW delV,
           NEW q, Duo(x, s, v, ws, wv, subS, subV, delS, delV, q), s.state = "open",
           Fits(s), s.out_q = << >>, NEW c, NEW z, Sent(NotifyCanSend(s), ws, c, z)
    PROVE  /\ Duo(x, c, v, z, wv, subS, subV, delS, delV, q)
           /\ c \in Channel /\ Fits(c) /\ Settled(c) /\ c.state = "open"
  <1> DEFINE r == NotifyCanSend(s)
  <1>1. s \in Working /\ (s.sdu # << >> => s.pos < Len(s.sdu))
    BY DEF Duo, Direction, Sender
  <1>2. r \in Working /\ Fits(r) /\ Outcome(s, r)
    BY <1>1, NotifyOutcome
  <1>3. Sent(r, ws, c, z)
    OBVIOUS
  <1> HIDE DEF r
  <1>4. /\ c \in Channel /\ c.state = r.state /\ c.busy = r.busy /\ c.pos = r.pos
        /\ c.sdu = r.sdu /\ c.rlen = r.rlen /\ c.rbuf = r.rbuf
    BY <1>2, <1>3, WorkingChannel DEF Sent
  <1>5. Duo(x, c, v, z, wv, subS, subV, delS, delV, q)
    BY <1>2, <1>3, OutcomeDuo
  <1>6. r.state = "open"
    BY <1>2, OutcomeShows DEF Settled, Will
  <1>7. QED
    BY <1>2, <1>4, <1>5, <1>6 DEF Fits, Settled, Will

-----------------------------------------------------------------------------
(* Steps *)

\* What the invariant gives to the device x that takes a step
LEMMA StepBegin ==
    ASSUME IInv, NEW x \in Sides
    PROVE  /\ Duo(x, ch[x], ch[Peer(x)], wire[x], wire[Peer(x)], submitted[x],
                  submitted[Peer(x)], delivered[x], delivered[Peer(x)], asked)
           /\ Fits(ch[x]) /\ ch[x].out_q = << >> /\ Settled(ch[x]) /\ ch[x] \in Channel
           /\ asked \in BOOLEAN /\ Peer(x) \in Sides /\ Peer(x) # x
  <1>1. /\ ch \in [Sides -> Channel] /\ wire \in [Sides -> Seq(Packet)]
        /\ submitted \in [Sides -> Seq(Sdu)] /\ delivered \in [Sides -> Seq(Sdu)]
        /\ asked \in BOOLEAN /\ Fits(ch[x])
    BY DEF IInv, CbmTypeOK, Fits
  <1>2. ch \in [Sides -> Working]
    BY <1>1, ChannelWorking
  <1>3. PairInv(ch[A], ch[B], wire[A], wire[B], submitted[A], submitted[B],
                delivered[A], delivered[B], asked)
    BY DEF IInv
  <1>4. Duo(x, ch[x], ch[Peer(x)], wire[x], wire[Peer(x)], submitted[x],
            submitted[Peer(x)], delivered[x], delivered[Peer(x)], asked)
    BY <1>1, <1>2, <1>3, DuoPair
  <1>5. ch[x] \in Channel /\ ch[x].out_q = << >>
    BY <1>1, ChannelWorking
  <1>6. Peer(x) \in Sides /\ Peer(x) # x
    BY SideAssumption DEF Peer, Sides
  <1>7. QED
    BY <1>1, <1>4, <1>5, <1>6 DEF IInv

\* The record c, the queues z and zp and the SDUs at the end of a step of x
Stepped(x, c, z, zp, sub, del) ==
    /\ ch' = [ch EXCEPT ![x] = c]
    /\ wire' = [y \in Sides |-> IF y = x THEN z ELSE zp]
    /\ submitted' = [submitted EXCEPT ![x] = sub]
    /\ delivered' = [delivered EXCEPT ![Peer(x)] = del]

\* What a step of x has to establish for the invariant
LEMMA StepEnd ==
    ASSUME IInv, NEW x \in Sides, NEW c \in Channel, Fits(c), Settled(c),
           NEW z, NEW zp, NEW sub, NEW del, Stepped(x, c, z, zp, sub, del),
           Duo(x, c, ch[Peer(x)], z, zp, sub, submitted[Peer(x)], delivered[x], del, asked')
    PROVE  IInv'
  <1> DEFINE y == Peer(x)
  <1>1. /\ ch \in [Sides -> Channel] /\ wire \in [Sides -> Seq(Packet)]
        /\ submitted \in [Sides -> Seq(Sdu)] /\ delivered \in [Sides -> Seq(Sdu)]
        /\ \A u \in Sides : Fits(ch[u]) /\ Settled(ch[u])
    BY DEF IInv, CbmTypeOK, Fits
  <1>2. y \in Sides /\ y # x /\ \A u \in Sides : u = x \/ u = y
    BY SideAssumption DEF Peer, Sides
  <1>3. /\ z \in Seq(Packet) /\ zp \in Seq(Packet) /\ sub \in Seq(Sdu) /\ del \in Seq(Sdu)
        /\ asked' \in BOOLEAN
    BY DEF Duo
  <1> HIDE DEF y
  <1>4. /\ ch' \in [Sides -> Channel] /\ ch'[x] = c /\ ch'[y] = ch[y]
        /\ wire' \in [Sides -> Seq(Packet)] /\ wire'[x] = z /\ wire'[y] = zp
        /\ submitted' \in [Sides -> Seq(Sdu)] /\ submitted'[x] = sub
        /\ submitted'[y] = submitted[y]
        /\ delivered' \in [Sides -> Seq(Sdu)] /\ delivered'[x] = delivered[x]
        /\ delivered'[y] = del
    BY <1>1, <1>2, <1>3 DEF Stepped, y
  <1>5. \A u \in Sides : Fits(ch'[u]) /\ Settled(ch'[u])
    BY <1>1, <1>2, <1>4
  <1>6. CbmTypeOK'
    BY <1>3, <1>4, <1>5 DEF CbmTypeOK, Fits
  <1>7. ch' \in [Sides -> Working]
    BY <1>4, ChannelWorking
  <1>8. Duo(x, ch'[x], ch'[Peer(x)], wire'[x], wire'[Peer(x)], submitted'[x],
            submitted'[Peer(x)], delivered'[x], delivered'[Peer(x)], asked')
    BY <1>4 DEF y
  <1>9. PairInv(ch'[A], ch'[B], wire'[A], wire'[B], submitted'[A], submitted'[B],
                delivered'[A], delivered'[B], asked')
    BY <1>3, <1>4, <1>7, <1>8, DuoPair
  <1>10. QED
    BY <1>5, <1>6, <1>9 DEF IInv

FifoStep == Fifo!FifoNext \/ UNCHANGED Fifo!fifo

\* What the applications see of the states before and after a step of x
LEMMA PhaseStep ==
    ASSUME ch \in [Sides -> Channel], NEW x \in Sides, NEW c, ch' = [ch EXCEPT ![x] = c]
    PROVE  LET ph == [y \in Sides |-> Phase(y)]
           IN  /\ ph[x] = Seen(ch[x].state)
               /\ ph' = [ph EXCEPT ![x] = Seen(c.state)]
               /\ Seen(c.state) = Seen(ch[x].state) => ph' = ph
  <1> DEFINE ph == [y \in Sides |-> Phase(y)]
             pn == [y \in Sides |-> Phase(y)']
  <1>1. \A y \in Sides : Phase(y) = Seen(ch[y].state) /\ Phase(y)' = Seen(ch'[y].state)
    BY DEF Phase, Seen
  <1>2. ph' = pn
    OBVIOUS
  <1>3. ch'[x] = c /\ \A y \in Sides : y # x => ch'[y] = ch[y]
    OBVIOUS
  <1>4. pn = [ph EXCEPT ![x] = Seen(c.state)]
    BY <1>1, <1>3
  <1>5. ph[x] = Seen(ch[x].state)
    BY <1>1
  <1>6. Seen(c.state) = Seen(ch[x].state) => pn = ph
    BY <1>1, <1>3
  <1>7. QED
    BY <1>2, <1>4, <1>5, <1>6

\* A channel that opens, is refused or closes, or a step that no application sees
LEMMA ShowsFifo ==
    ASSUME ch \in [Sides -> Channel], NEW x \in Sides, NEW c, ch' = [ch EXCEPT ![x] = c],
           UNCHANGED << submitted, delivered, asked >>,
           Shows(ch[x].state, c.state) \/ (Seen(ch[x].state) = "open" /\ c.state = "closed"),
           Seen(ch[x].state) = "open" /\ c.state = "closed" => asked
    PROVE  FifoStep
  <1> DEFINE ph == [y \in Sides |-> Phase(y)]
  <1>1. /\ ph[x] = Seen(ch[x].state) /\ ph' = [ph EXCEPT ![x] = Seen(c.state)]
        /\ Seen(c.state) = Seen(ch[x].state) => ph' = ph
    BY PhaseStep
  <1>2. CASE Seen(c.state) = Seen(ch[x].state)
    BY <1>1, <1>2 DEF FifoStep, Fifo!fifo
  <1>3. CASE Seen(ch[x].state) = "new" /\ Seen(c.state) \in {"open", "closed"}
    <2>1. Fifo!Establish(x, Seen(c.state))
      BY <1>1, <1>3 DEF Fifo!Establish
    <2>2. QED
      BY <1>3, <2>1 DEF FifoStep, Fifo!FifoNext
  <1>4. CASE Seen(ch[x].state) = "open" /\ c.state = "closed"
    <2>1. Seen(c.state) = "closed"
      BY <1>4 DEF Seen
    <2>2. Fifo!Close(x)
      BY <1>1, <1>4, <2>1 DEF Fifo!Close
    <2>3. QED
      BY <2>2 DEF FifoStep, Fifo!FifoNext
  <1>5. QED
    BY <1>2, <1>3, <1>4 DEF Shows, Seen

\* A step that delivers at most one SDU
LEMMA DeliverFifo ==
    ASSUME IInv, IInv', NEW x \in Sides, NEW c, ch' = [ch EXCEPT ![x] = c],
           Seen(c.state) = Seen(ch[x].state), NEW d,
           delivered' = [delivered EXCEPT ![Peer(x)] = d],
           Progress(submitted[Peer(x)], delivered[Peer(x)], d),
           UNCHANGED << submitted, asked >>
    PROVE  FifoStep
  <1> DEFINE ph == [y \in Sides |-> Phase(y)]
             y == Peer(x)
             del == delivered[y]
             sub == submitted[y]
  <1>1. ch \in [Sides -> Channel] /\ delivered \in [Sides -> Seq(Sdu)]
        /\ submitted \in [Sides -> Seq(Sdu)] /\ y \in Sides /\ Peer(y) \in Sides
    BY DEF IInv, CbmTypeOK, Peer, Sides
  <1>2. ph' = ph
    BY <1>1, PhaseStep
  <1>3. del \in Seq(Sdu) /\ sub \in Seq(Sdu) /\ Len(del) \in Nat /\ Len(sub) \in Nat
    BY <1>1
  <1> HIDE DEF ph, y, del, sub
  <1>4. delivered'[y] = d /\ delivered' = [delivered EXCEPT ![y] = d]
    BY <1>1 DEF y
  <1>5. CASE d = del
    BY <1>1, <1>2, <1>4, <1>5 DEF FifoStep, Fifo!fifo, ph, del
  <1>6. CASE Len(del) < Len(sub) /\ d = Append(del, sub[Len(del) + 1])
    <2> DEFINE n == Len(del)
    <2>1. Receiver(ch[Peer(y)], sub, del)
      <3>1. Duo(y, ch[y], ch[Peer(y)], wire[y], wire[Peer(y)], submitted[y],
                submitted[Peer(y)], delivered[y], delivered[Peer(y)], asked)
        BY <1>1, StepBegin
      <3>2. QED
        BY <3>1 DEF Duo, Direction, sub, del
    <2>2. n \in Nat /\ n + 1 \in 1..Len(sub) /\ n + 1 \in n..Len(sub)
      BY <1>3, <1>6
    <2>3. \A k \in 1..n : del[k] = sub[k]
      BY <2>1 DEF Receiver
    <2>4. /\ d \in Seq(Sdu) /\ Len(d) = n + 1 /\ \A k \in 1..n : d[k] = del[k]
          /\ d[n + 1] = sub[n + 1]
      BY <1>3, <1>6, <2>2
    <2> HIDE DEF n
    <2>5. \A k \in 1..(n + 1) : d[k] = sub[k]
      BY <2>2, <2>3, <2>4
    <2>6. d = SubSeq(sub, 1, n + 1)
      BY <1>3, <2>2, <2>4, <2>5
    <2>7. Fifo!IsPrefix(del, d)
      <3>1. Len(del) <= Len(d)
        BY <2>2, <2>4 DEF n
      <3>2. SubSeq(del, 1, n) = SubSeq(d, 1, n)
        BY <1>3, <2>2, <2>4 DEF n
      <3>3. QED
        BY <3>1, <3>2 DEF Fifo!IsPrefix, n
    <2>8. Fifo!Deliver(y)
      <3>1. Len(delivered[y]) = n /\ Len(submitted[y]) = Len(sub) /\ submitted[y] = sub
        BY DEF n, del, sub
      <3>2. delivered' = [delivered EXCEPT ![y] = SubSeq(submitted[y], 1, n + 1)]
        BY <1>4, <2>6, <3>1
      <3>3. \E m \in Len(delivered[y])..Len(submitted[y]) :
                delivered' = [delivered EXCEPT ![y] = SubSeq(submitted[y], 1, m)]
        BY <2>2, <3>1, <3>2
      <3>4. Fifo!IsPrefix(delivered[y], delivered'[y])
        BY <1>4, <2>7 DEF del
      <3>5. QED
        BY <1>2, <3>3, <3>4 DEF Fifo!Deliver, ph
    <2>9. QED
      BY <1>1, <2>8 DEF FifoStep, Fifo!FifoNext
  <1>7. QED
    BY <1>5, <1>6 DEF Progress, del, sub, y

\* A step of x that changes its record to s, and then runs l2cap_run
LEMMA RunStep ==
    ASSUME IInv, NEW x \in Sides, NEW s, Fits(s), s.out_q = << >>,
           Duo(x, s, ch[Peer(x)], wire[x], wire[Peer(x)], submitted[x],
               submitted[Peer(x)], delivered[x], delivered[Peer(x)], asked'),
           Finish(x, Run(s)), UNCHANGED << submitted, delivered >>
    PROVE  /\ IInv'
           /\ \E c : /\ ch' = [ch EXCEPT ![x] = c]
                     /\ Shows(s.state, c.state) /\ (Settled(s) => c.state = s.state)
  <1> DEFINE c == [Run(s) EXCEPT !.out_q = << >>]
             z == wire[x] \o Run(s).out_q
             y == Peer(x)
  <1>1. Sent(Run(s), wire[x], c, z)
    BY DEF Sent
  <1>2. /\ ch' = [ch EXCEPT ![x] = c] /\ wire' = [wire EXCEPT ![x] = z]
    BY DEF Finish
  <1>3. /\ wire \in [Sides -> Seq(Packet)] /\ y \in Sides /\ y # x
        /\ \A u \in Sides : u = x \/ u = y
        /\ submitted \in [Sides -> Seq(Sdu)] /\ delivered \in [Sides -> Seq(Sdu)]
    BY SideAssumption DEF IInv, CbmTypeOK, Peer, Sides
  <1> HIDE DEF c, z, y
  <1>4. /\ Duo(x, c, ch[Peer(x)], z, wire[Peer(x)], submitted[x],
               submitted[Peer(x)], delivered[x], delivered[Peer(x)], asked')
        /\ c \in Channel /\ Fits(c) /\ Settled(c)
        /\ Shows(s.state, c.state) /\ (Settled(s) => c.state = s.state)
    BY <1>1, RunDuo
  <1>5. Stepped(x, c, z, wire[Peer(x)], submitted[x], delivered[Peer(x)])
    <2>1. wire' = [u \in Sides |-> IF u = x THEN z ELSE wire[Peer(x)]]
      BY <1>2, <1>3 DEF y
    <2>2. submitted' = [submitted EXCEPT ![x] = submitted[x]]
          /\ delivered' = [delivered EXCEPT ![Peer(x)] = delivered[Peer(x)]]
      BY <1>3 DEF y
    <2>3. QED
      BY <1>2, <2>1, <2>2 DEF Stepped
  <1>6. IInv'
    BY <1>4, <1>5, StepEnd
  <1>7. QED
    BY <1>2, <1>4, <1>6

\* A step of x that changes only its own state and then runs l2cap_run
LEMMA LocalStep ==
    ASSUME IInv, NEW x \in Sides, NEW r \in Working, r.out_q = << >>, Local(ch[x], r),
           asked' \in BOOLEAN, asked => asked', r.state \in Leaving => asked',
           View(x, r, ch[Peer(x)], wire[x], wire[Peer(x)]),
           Finish(x, Run(r)), UNCHANGED << submitted, delivered >>
    PROVE  /\ IInv'
           /\ \E c : /\ ch' = [ch EXCEPT ![x] = c]
                     /\ Shows(r.state, c.state) /\ (Settled(r) => c.state = r.state)
  <1>1. /\ Duo(x, ch[x], ch[Peer(x)], wire[x], wire[Peer(x)], submitted[x],
               submitted[Peer(x)], delivered[x], delivered[Peer(x)], asked)
        /\ Fits(ch[x])
    BY StepBegin
  <1>2. Fits(r)
    BY <1>1 DEF Fits, Local, SameSdu
  <1>3. Duo(x, r, ch[Peer(x)], wire[x], wire[Peer(x)], submitted[x],
            submitted[Peer(x)], delivered[x], delivered[Peer(x)], asked')
    BY <1>1, LocalDuo
  <1>4. QED
    BY <1>2, <1>3, RunStep

\* What the proofs of the steps use of the state before the step
LEMMA StepFacts ==
    ASSUME IInv, NEW x \in Sides
    PROVE  /\ ch \in [Sides -> Channel] /\ ch[x] \in Working /\ ch[x].out_q = << >>
           /\ ch[x].in \in Nat /\ ch[x].new \in Nat /\ ch[x].in + ch[x].new < CreditMod
           /\ View(x, ch[x], ch[Peer(x)], wire[x], wire[Peer(x)])
           /\ asked \in BOOLEAN /\ wire[Peer(x)] \in Seq(Packet)
           /\ ch[x].state \in Leaving => asked
           /\ Settled(ch[x])
  <1>1. /\ Duo(x, ch[x], ch[Peer(x)], wire[x], wire[Peer(x)], submitted[x],
               submitted[Peer(x)], delivered[x], delivered[Peer(x)], asked)
        /\ ch[x].out_q = << >> /\ Settled(ch[x])
    BY StepBegin
  <1>2. ch \in [Sides -> Channel]
    BY DEF IInv, CbmTypeOK
  <1>3. /\ ch[x] \in Working /\ View(x, ch[x], ch[Peer(x)], wire[x], wire[Peer(x)])
        /\ asked \in BOOLEAN /\ wire[Peer(x)] \in Seq(Packet)
        /\ ch[x].in + ch[x].new < CreditMod
        /\ ch[x].state \in Leaving => asked
    BY <1>1 DEF Duo, Direction, Balance, Wanted, Leaving
  <1>4. ch[x].in \in Nat /\ ch[x].new \in Nat
    BY <1>3, CreditAssumption DEF Working, Credits
  <1>5. QED
    BY <1>1, <1>2, <1>3, <1>4

\* l2cap_cbm_create_channel
LEMMA CreateChannelStep ==
    ASSUME IInv, NEW k \in InitialCredits[A], CreateChannel(k)
    PROVE  IInv' /\ FifoStep
  <1> DEFINE s == ch[A]
             r == Give([s EXCEPT !.state = "will_request"], k)
  <1>1. A \in Sides
    BY DEF Sides
  <1>2. s.state = "none" /\ k \in Credits /\ Finish(A, Run(r))
        /\ UNCHANGED << submitted, delivered, asked >>
    BY <1>1, CreditAssumption DEF CreateChannel, Credits
  <1>3. /\ ch \in [Sides -> Channel] /\ s \in Working /\ s.out_q = << >>
        /\ View(A, s, ch[Peer(A)], wire[A], wire[Peer(A)]) /\ asked \in BOOLEAN
    BY <1>1, StepFacts
  <1> HIDE DEF s
  <1>4. /\ r \in Working /\ r.state = "will_request" /\ r.in = s.in /\ r.new = k
        /\ r.out = s.out /\ r.sdu = s.sdu /\ r.pos = s.pos /\ r.rlen = s.rlen
        /\ r.rbuf = s.rbuf /\ r.out_q = s.out_q
    BY <1>2, <1>3 DEF Give, Working, States
  <1> HIDE DEF r
  <1>5. s.in = 0
    BY <1>2, <1>3 DEF View, Opening
  <1>6. View(A, r, ch[Peer(A)], wire[A], wire[Peer(A)])
    BY <1>2, <1>3, <1>4, SideAssumption DEF View, Opening, New, Late
  <1>7. Local(s, r)
    <2>1. r.in + r.new < CreditMod
      BY <1>2, <1>4, <1>5, CreditAssumption DEF Credits
    <2>2. QED
      BY <1>2, <1>4, <2>1 DEF Local, SameSdu
  <1>8. /\ IInv'
        /\ \E c : /\ ch' = [ch EXCEPT ![A] = c]
                  /\ Shows(r.state, c.state) /\ (Settled(r) => c.state = r.state)
    BY <1>1, <1>2, <1>3, <1>4, <1>6, <1>7, LocalStep DEF Leaving, s
  <1>9. PICK c : ch' = [ch EXCEPT ![A] = c] /\ Shows(r.state, c.state)
    BY <1>8
  <1>10. Shows(s.state, c.state) /\ Seen(s.state) # "open"
    BY <1>2, <1>4, <1>9 DEF Shows, Seen
  <1>11. FifoStep
    BY <1>1, <1>2, <1>3, <1>9, <1>10, ShowsFifo DEF s
  <1>12. QED
    BY <1>8, <1>11

\* l2cap_cbm_accept_connection
LEMMA AcceptConnectionStep ==
    ASSUME IInv, NEW k \in InitialCredits[B], AcceptConnection(k)
    PROVE  IInv' /\ FifoStep
  <1> DEFINE s == ch[B]
             r == Give([s EXCEPT !.state = "will_accept"], k)
  <1>1. B \in Sides /\ A # B
    BY SideAssumption DEF Sides
  <1>2. s.state = "wait_accept" /\ k \in Credits /\ Finish(B, Run(r))
        /\ UNCHANGED << submitted, delivered, asked >>
    BY <1>1, CreditAssumption DEF AcceptConnection, Credits
  <1>3. /\ ch \in [Sides -> Channel] /\ s \in Working /\ s.out_q = << >>
        /\ View(B, s, ch[Peer(B)], wire[B], wire[Peer(B)]) /\ asked \in BOOLEAN
    BY <1>1, StepFacts
  <1> HIDE DEF s
  <1>4. /\ r \in Working /\ r.state = "will_accept" /\ r.in = s.in /\ r.new = k
        /\ r.out = s.out /\ r.sdu = s.sdu /\ r.pos = s.pos /\ r.rlen = s.rlen
        /\ r.rbuf = s.rbuf /\ r.out_q = s.out_q
    BY <1>2, <1>3 DEF Give, Working, States
  <1> HIDE DEF r
  <1>5. s.in = 0
    BY <1>1, <1>2, <1>3 DEF View, Opening, New
  <1>6. View(B, r, ch[Peer(B)], wire[B], wire[Peer(B)])
    BY <1>1, <1>2, <1>3, <1>4 DEF View, Opening, New, Late
  <1>7. Local(s, r)
    <2>1. r.in + r.new < CreditMod
      BY <1>2, <1>4, <1>5, CreditAssumption DEF Credits
    <2>2. QED
      BY <1>2, <1>4, <2>1 DEF Local, SameSdu
  <1>8. /\ IInv'
        /\ \E c : /\ ch' = [ch EXCEPT ![B] = c]
                  /\ Shows(r.state, c.state) /\ (Settled(r) => c.state = r.state)
    BY <1>1, <1>2, <1>3, <1>4, <1>6, <1>7, LocalStep DEF Leaving, s
  <1>9. PICK c : ch' = [ch EXCEPT ![B] = c] /\ Shows(r.state, c.state)
    BY <1>8
  <1>10. Shows(s.state, c.state) /\ Seen(s.state) # "open"
    BY <1>2, <1>4, <1>9 DEF Shows, Seen
  <1>11. FifoStep
    BY <1>1, <1>2, <1>3, <1>9, <1>10, ShowsFifo DEF s
  <1>12. QED
    BY <1>8, <1>11

\* l2cap_cbm_decline_connection
LEMMA DeclineConnectionStep ==
    ASSUME IInv, DeclineConnection
    PROVE  IInv' /\ FifoStep
  <1> DEFINE s == ch[B]
             r == [s EXCEPT !.state = "will_decline"]
  <1>1. B \in Sides /\ A # B
    BY SideAssumption DEF Sides
  <1>2. s.state = "wait_accept" /\ Finish(B, Run(r))
        /\ UNCHANGED << submitted, delivered, asked >>
    BY DEF DeclineConnection
  <1>3. /\ ch \in [Sides -> Channel] /\ s \in Working /\ s.out_q = << >>
        /\ s.in + s.new < CreditMod
        /\ View(B, s, ch[Peer(B)], wire[B], wire[Peer(B)]) /\ asked \in BOOLEAN
    BY <1>1, StepFacts
  <1> HIDE DEF s
  <1>4. /\ r \in Working /\ r.state = "will_decline" /\ r.in = s.in /\ r.new = s.new
        /\ r.out = s.out /\ r.sdu = s.sdu /\ r.pos = s.pos /\ r.rlen = s.rlen
        /\ r.rbuf = s.rbuf /\ r.out_q = s.out_q
    BY <1>3 DEF Working, States
  <1> HIDE DEF r
  <1>5. View(B, r, ch[Peer(B)], wire[B], wire[Peer(B)])
    BY <1>1, <1>2, <1>3, <1>4 DEF View, Opening, New, Late
  <1>6. Local(s, r)
    BY <1>2, <1>3, <1>4 DEF Local, SameSdu
  <1>7. /\ IInv'
        /\ \E c : /\ ch' = [ch EXCEPT ![B] = c]
                  /\ Shows(r.state, c.state) /\ (Settled(r) => c.state = r.state)
    BY <1>1, <1>2, <1>3, <1>4, <1>5, <1>6, LocalStep DEF Leaving, s
  <1>8. PICK c : ch' = [ch EXCEPT ![B] = c] /\ Shows(r.state, c.state)
    BY <1>7
  <1>9. Shows(s.state, c.state) /\ Seen(s.state) # "open"
    BY <1>2, <1>4, <1>8 DEF Shows, Seen
  <1>10. FifoStep
    BY <1>1, <1>2, <1>3, <1>8, <1>9, ShowsFifo DEF s
  <1>11. QED
    BY <1>7, <1>10

\* l2cap_cbm_provide_credits
LEMMA ProvideCreditsStep ==
    ASSUME IInv, NEW x \in Sides, ProvideCredits(x)
    PROVE  IInv' /\ FifoStep
  <1> DEFINE s == ch[x]
             r == [s EXCEPT !.new = @ + 1]
  <1>1. s.state = "open" /\ s.in + s.new < MaxProvided /\ Finish(x, Run(r))
        /\ UNCHANGED << submitted, delivered, asked >>
    BY DEF ProvideCredits
  <1>2. /\ ch \in [Sides -> Channel] /\ s \in Working /\ s.out_q = << >>
        /\ s.in \in Nat /\ s.new \in Nat
        /\ View(x, s, ch[Peer(x)], wire[x], wire[Peer(x)]) /\ asked \in BOOLEAN
    BY StepFacts
  <1> HIDE DEF s
  <1>3. s.new + 1 \in Credits /\ s.in + (s.new + 1) < CreditMod
    <2>1. /\ MaxProvided \in Nat /\ CreditMod \in Nat /\ MaxProvided < CreditMod
      BY CbmBoundAssumption, CreditAssumption
    <2>2. \A i, j, k, m \in Nat : i + j < k /\ k < m
                => j + 1 \in 0..(m - 1) /\ i + (j + 1) < m
      OBVIOUS
    <2>3. QED
      BY <1>1, <1>2, <2>1, <2>2 DEF Credits
  <1>4. /\ r \in Working /\ r.state = s.state /\ r.in = s.in /\ r.new = s.new + 1
        /\ r.out = s.out /\ r.sdu = s.sdu /\ r.pos = s.pos /\ r.rlen = s.rlen
        /\ r.rbuf = s.rbuf /\ r.out_q = s.out_q
    BY <1>2, <1>3 DEF Working
  <1> HIDE DEF r
  <1>5. View(x, r, ch[Peer(x)], wire[x], wire[Peer(x)])
    BY <1>2, <1>4 DEF View, Opening
  <1>6. Local(s, r)
    BY <1>1, <1>3, <1>4 DEF Local, SameSdu
  <1>7. /\ IInv'
        /\ \E c : /\ ch' = [ch EXCEPT ![x] = c]
                  /\ Shows(r.state, c.state) /\ (Settled(r) => c.state = r.state)
    BY <1>1, <1>2, <1>4, <1>5, <1>6, LocalStep DEF Leaving, s
  <1>8. Settled(r)
    BY <1>1, <1>4 DEF Settled, Will
  <1>9. PICK c : ch' = [ch EXCEPT ![x] = c] /\ c.state = s.state
    BY <1>4, <1>7, <1>8
  <1>10. Shows(s.state, c.state) /\ c.state # "closed"
    BY <1>1, <1>9 DEF Shows
  <1>11. FifoStep
    BY <1>1, <1>2, <1>9, <1>10, ShowsFifo DEF s
  <1>12. QED
    BY <1>7, <1>11

\* l2cap_disconnect
LEMMA DisconnectStep ==
    ASSUME IInv, NEW x \in Sides, Disconnect(x)
    PROVE  IInv' /\ FifoStep
  <1> DEFINE s == ch[x]
             r == [s EXCEPT !.state = "will_disconnect"]
             ph == [y \in Sides |-> Phase(y)]
  <1>1. s.state = "open" /\ asked' = TRUE /\ Finish(x, Run(r))
        /\ UNCHANGED << submitted, delivered >>
    BY DEF Disconnect
  <1>2. /\ ch \in [Sides -> Channel] /\ s \in Working /\ s.out_q = << >>
        /\ s.in + s.new < CreditMod /\ wire[Peer(x)] \in Seq(Packet)
        /\ View(x, s, ch[Peer(x)], wire[x], wire[Peer(x)]) /\ asked \in BOOLEAN
    BY StepFacts
  <1> HIDE DEF s
  <1>3. /\ r \in Working /\ r.state = "will_disconnect" /\ r.in = s.in /\ r.new = s.new
        /\ r.out = s.out /\ r.sdu = s.sdu /\ r.pos = s.pos /\ r.rlen = s.rlen
        /\ r.rbuf = s.rbuf /\ r.out_q = s.out_q
    BY <1>2 DEF Working, States
  <1> HIDE DEF r
  <1>4. View(x, r, ch[Peer(x)], wire[x], wire[Peer(x)])
    BY <1>1, <1>2, <1>3, ViewLate DEF Late
  <1>5. Local(s, r)
    BY <1>1, <1>2, <1>3 DEF Local, SameSdu
  <1>6. /\ IInv'
        /\ \E c : /\ ch' = [ch EXCEPT ![x] = c]
                  /\ Shows(r.state, c.state) /\ (Settled(r) => c.state = r.state)
    BY <1>1, <1>2, <1>3, <1>4, <1>5, LocalStep DEF s
  <1>7. PICK c : ch' = [ch EXCEPT ![x] = c] /\ Shows(r.state, c.state)
    BY <1>6
  <1>8. Seen(c.state) = Seen(s.state)
    BY <1>1, <1>3, <1>7 DEF Shows, Seen
  <1>9. ph' = ph
    BY <1>2, <1>7, <1>8, PhaseStep DEF s
  <1>10. Fifo!Ask
    BY <1>1, <1>9 DEF Fifo!Ask
  <1>11. QED
    BY <1>6, <1>10 DEF FifoStep, Fifo!FifoNext

\* HCI_EVENT_TRANSPORT_PACKET_SENT
LEMMA PacketSentStep ==
    ASSUME IInv, NEW x \in Sides, PacketSent(x)
    PROVE  IInv' /\ FifoStep
  <1> DEFINE s == ch[x]
             r == [s EXCEPT !.busy = FALSE, !.notify = TRUE]
  <1>1. Finish(x, Run(r)) /\ UNCHANGED << submitted, delivered, asked >>
    BY DEF PacketSent
  <1>2. /\ ch \in [Sides -> Channel] /\ s \in Working /\ s.out_q = << >>
        /\ s.in + s.new < CreditMod /\ (s.state \in Leaving => asked)
        /\ View(x, s, ch[Peer(x)], wire[x], wire[Peer(x)]) /\ asked \in BOOLEAN
    BY StepFacts
  <1> HIDE DEF s
  <1>3. /\ r \in Working /\ r.state = s.state /\ r.in = s.in /\ r.new = s.new
        /\ r.out = s.out /\ r.sdu = s.sdu /\ r.pos = s.pos /\ r.rlen = s.rlen
        /\ r.rbuf = s.rbuf /\ r.out_q = s.out_q
    BY <1>2 DEF Working
  <1> HIDE DEF r
  <1>4. View(x, r, ch[Peer(x)], wire[x], wire[Peer(x)])
    BY <1>2, <1>3 DEF View, Opening
  <1>5. Local(s, r)
    BY <1>2, <1>3 DEF Local, SameSdu
  <1>6. /\ IInv'
        /\ \E c : /\ ch' = [ch EXCEPT ![x] = c]
                  /\ Shows(r.state, c.state) /\ (Settled(r) => c.state = r.state)
    BY <1>1, <1>2, <1>3, <1>4, <1>5, LocalStep DEF s
  <1>7. PICK c : ch' = [ch EXCEPT ![x] = c] /\ Shows(s.state, c.state)
    BY <1>3, <1>6
  <1>8. Seen(s.state) = "open" /\ c.state = "closed" => asked
    BY <1>2, <1>7 DEF Shows, Seen, Leaving
  <1>9. FifoStep
    BY <1>1, <1>2, <1>7, <1>8, ShowsFifo DEF s
  <1>10. QED
    BY <1>6, <1>9

\* l2cap_send
LEMMA SendStep ==
    ASSUME IInv, NEW x \in Sides, Send(x)
    PROVE  IInv' /\ FifoStep
  <1> DEFINE s == ch[x]
             y == Peer(x)
             sub == submitted[x]
  <1>1. PICK m \in 1..MaxPieces :
            LET d == NewSdu(Len(sub) + 1, m)
            IN  /\ submitted' = [submitted EXCEPT ![x] = Append(@, d)]
                /\ Finish(x, NotifyCanSend([s EXCEPT !.sdu = d, !.pos = 0]))
    BY DEF Send
  <1> DEFINE d == NewSdu(Len(sub) + 1, m)
             r == [s EXCEPT !.sdu = d, !.pos = 0]
             c == [NotifyCanSend(r) EXCEPT !.out_q = << >>]
             z == wire[x] \o NotifyCanSend(r).out_q
             ph == [u \in Sides |-> Phase(u)]
  <1>2. /\ s.state = "open" /\ s.sdu = << >> /\ UNCHANGED << delivered, asked >>
        /\ Len(submitted[A]) + Len(submitted[B]) < MaxSdus
    BY DEF Send
  <1>3. /\ ch' = [ch EXCEPT ![x] = c] /\ wire' = [wire EXCEPT ![x] = z]
        /\ submitted' = [submitted EXCEPT ![x] = Append(sub, d)]
    BY <1>1 DEF Finish
  <1>4. /\ ch \in [Sides -> Channel] /\ wire \in [Sides -> Seq(Packet)] /\ y \in Sides /\ y # x
        /\ \A u \in Sides : u = x \/ u = y
        /\ submitted \in [Sides -> Seq(Sdu)] /\ delivered \in [Sides -> Seq(Sdu)]
    BY SideAssumption DEF IInv, CbmTypeOK, Peer, Sides
  <1>5. Len(sub) + Len(submitted[y]) < MaxSdus
    <2>1. Len(submitted[A]) \in Nat /\ Len(submitted[B]) \in Nat
      BY <1>4 DEF Sides
    <2>2. Len(submitted[A]) + Len(submitted[B]) = Len(submitted[B]) + Len(submitted[A])
      <3>1. \A i, j \in Nat : i + j = j + i
        OBVIOUS
      <3>2. QED
        BY <2>1, <3>1
    <2>3. (x = A /\ y = B) \/ (x = B /\ y = A)
      BY SideAssumption DEF Sides, Peer
    <2>4. QED
      BY <1>2, <2>2, <2>3
  <1>6. Loaded(s, sub, submitted[y], m, d, r) /\ Sent(NotifyCanSend(r), wire[x], c, z)
    BY <1>2, <1>5 DEF Loaded, Sent
  <1>7. /\ Duo(x, s, ch[y], wire[x], wire[y], sub, submitted[y], delivered[x],
               delivered[y], asked)
        /\ Fits(s) /\ s.out_q = << >>
    BY StepBegin
  <1> HIDE DEF s, y, sub, d, r, c, z, ph
  <1>9. /\ Duo(x, r, ch[y], wire[x], wire[y], Append(sub, d), submitted[y], delivered[x],
               delivered[y], asked)
        /\ d \in Sdu /\ Fits(r) /\ r.out_q = << >> /\ r.state = "open"
    BY <1>6, <1>7, SubmitDuo
  <1>10. /\ Duo(x, c, ch[y], z, wire[y], Append(sub, d), submitted[y], delivered[x],
                delivered[y], asked)
         /\ c \in Channel /\ Fits(c) /\ Settled(c) /\ c.state = "open"
    BY <1>6, <1>9, NotifyDuo
  <1>11. Stepped(x, c, z, wire[y], Append(sub, d), delivered[y])
    <2>1. wire' = [u \in Sides |-> IF u = x THEN z ELSE wire[y]]
      BY <1>3, <1>4
    <2>2. delivered' = [delivered EXCEPT ![y] = delivered[y]]
      BY <1>2, <1>4
    <2>3. QED
      BY <1>3, <2>1, <2>2 DEF Stepped, y
  <1>12. Duo(x, c, ch[Peer(x)], z, wire[y], Append(sub, d), submitted[Peer(x)], delivered[x],
             delivered[y], asked')
    BY <1>2, <1>10 DEF y
  <1>13. IInv'
    BY <1>10, <1>11, <1>12, StepEnd
  <1>14. ph[x] = "open" /\ ph' = ph
    <2>1. Seen(s.state) = "open" /\ Seen(c.state) = Seen(s.state)
      BY <1>2, <1>10 DEF Seen
    <2>2. QED
      BY <1>3, <1>4, <2>1, PhaseStep DEF ph, s
  <1>15. Fifo!Submit(x, d)
    BY <1>2, <1>3, <1>14 DEF Fifo!Submit, ph, sub
  <1>16. QED
    BY <1>9, <1>13, <1>15 DEF FifoStep, Fifo!FifoNext

\* l2cap_acl_handler
LEMMA ReceiveStep ==
    ASSUME IInv, NEW x \in Sides, Receive(x)
    PROVE  IInv' /\ FifoStep
  <1> DEFINE s == ch[x]
             y == Peer(x)
             p == Head(wire[y])
             r == Handle(s, p)
             c == [Run(r) EXCEPT !.out_q = << >>]
             z == wire[x] \o Run(r).out_q
             del == delivered[y]
             d == del \o IF p.type = "pdu" /\ s.state # "closed" THEN Dispatched(s, p)
                         ELSE << >>
  <1>1. /\ wire[y] # << >> /\ ch' = [ch EXCEPT ![x] = c]
        /\ wire' = [wire EXCEPT ![y] = Tail(@), ![x] = @ \o Run(r).out_q]
        /\ delivered' = [delivered EXCEPT ![y] = d]
        /\ UNCHANGED << submitted, asked >>
    BY DEF Receive
  <1>2. /\ ch \in [Sides -> Channel] /\ wire \in [Sides -> Seq(Packet)] /\ y \in Sides /\ y # x
        /\ \A u \in Sides : u = x \/ u = y
        /\ submitted \in [Sides -> Seq(Sdu)] /\ delivered \in [Sides -> Seq(Sdu)]
    BY SideAssumption DEF IInv, CbmTypeOK, Peer, Sides
  <1>3. Passed(s, p, del, d) /\ Sent(Run(r), wire[x], c, z)
    BY DEF Passed, Sent
  <1>4. /\ Duo(x, s, ch[y], wire[x], wire[y], submitted[x], submitted[y], delivered[x],
               del, asked)
        /\ Fits(s) /\ s.out_q = << >> /\ Settled(s)
    BY StepBegin
  <1>5. p = Head(wire[y]) /\ r = Handle(s, p)
    OBVIOUS
  <1>6. wire' = [u \in Sides |-> IF u = x THEN z ELSE Tail(wire[y])]
    <2> HIDE DEF r, d, c, p, s, y
    <2>1. QED
      BY <1>1, <1>2
  <1> HIDE DEF s, y, p, r, c, z, del, d
  <1>7. /\ Duo(x, r, ch[y], wire[x], Tail(wire[y]), submitted[x], submitted[y],
               delivered[x], d, asked)
        /\ Fits(r) /\ r.out_q = << >> /\ Took(s, r, del, d, asked)
        /\ Progress(submitted[y], del, d)
    BY <1>1, <1>3, <1>4, <1>5, HandleDuo
  <1>8. /\ Duo(x, c, ch[y], z, Tail(wire[y]), submitted[x], submitted[y],
               delivered[x], d, asked)
        /\ c \in Channel /\ Fits(c) /\ Settled(c)
        /\ Shows(r.state, c.state) /\ (Settled(r) => c.state = r.state)
    BY <1>3, <1>7, RunDuo
  <1>9. Stepped(x, c, z, Tail(wire[y]), submitted[x], d)
    <2>1. submitted' = [submitted EXCEPT ![x] = submitted[x]]
      BY <1>1, <1>2
    <2>2. QED
      BY <1>1, <1>6, <2>1 DEF Stepped, y
  <1>10. Duo(x, c, ch[Peer(x)], z, Tail(wire[y]), submitted[x], submitted[Peer(x)],
             delivered[x], d, asked')
    BY <1>1, <1>8 DEF y
  <1>11. IInv'
    BY <1>8, <1>9, <1>10, StepEnd
  <1>12. FifoStep
    <2>1. CASE r.state = s.state /\ r.busy = s.busy
      <3>1. Settled(r)
        BY <1>4, <2>1 DEF Settled
      <3>2. Seen(c.state) = Seen(s.state)
        BY <1>8, <2>1, <3>1
      <3>3. QED
        BY <1>1, <1>7, <1>11, <3>2, DeliverFifo DEF s, y, del
    <2>2. CASE d = del /\ ~(r.state = s.state /\ r.busy = s.busy)
      <3>1. UNCHANGED << submitted, delivered, asked >>
        BY <1>1, <1>2, <2>2 DEF del
      <3>2. CASE Seen(s.state) = "new" /\ r.state \in {"wait_accept", "open", "closed"}
        <4>1. Settled(r)
          BY <3>2 DEF Settled, Will
        <4>2. Shows(s.state, c.state) /\ Seen(s.state) # "open"
          BY <1>8, <3>2, <4>1 DEF Shows, Seen
        <4>3. QED
          BY <1>1, <1>2, <3>1, <4>2, ShowsFifo DEF s
      <3>3. CASE Seen(s.state) = "open" /\ asked /\ r.state \in {"will_answer", "closed"}
        <4>1. Shows(s.state, c.state) \/ (Seen(s.state) = "open" /\ c.state = "closed")
          BY <1>8, <3>3 DEF Shows, Seen
        <4>2. QED
          BY <1>1, <1>2, <3>1, <3>3, <4>1, ShowsFifo DEF s
      <3>4. QED
        BY <1>7, <2>2, <3>2, <3>3 DEF Took
    <2>3. QED
      BY <1>7, <2>1, <2>2 DEF Took
  <1>13. QED
    BY <1>11, <1>12

-----------------------------------------------------------------------------
(* Theorems *)

\* Before the channel is created the invariant holds.
LEMMA InitInv == Init => IInv
  <1> SUFFICES ASSUME Init PROVE IInv
    OBVIOUS
  <1> DEFINE s == [ state |-> "none", in |-> 0, new |-> 0, auto |-> FALSE, out |-> 0,
                    sdu |-> << >>, pos |-> 0, rlen |-> 0, rbuf |-> << >>,
                    busy |-> FALSE, notify |-> FALSE, out_q |-> << >> ]
             e == << >>
  <1>1. /\ ch = [x \in Sides |-> s] /\ wire = [x \in Sides |-> e]
        /\ submitted = [x \in Sides |-> e] /\ delivered = [x \in Sides |-> e]
        /\ asked = FALSE
    BY DEF Init
  <1>2. /\ A \in Sides /\ B \in Sides /\ A # B /\ 0 \in Credits /\ 0 \in Nat
        /\ 0 \in 0..MaxPieces /\ 0 < CreditMod /\ MaxSdus \in Nat /\ CreditMod \in Nat
    BY SideAssumption, CreditAssumption, CbmBoundAssumption DEF Sides, Credits
  <1>3. /\ e \in Seq(Piece) /\ e \in Seq(Packet) /\ e \in Seq(Sdu) /\ Len(e) = 0
        /\ DOMAIN e = {}
    OBVIOUS
  <1>4. s \in Channel
    BY <1>2, <1>3 DEF Channel, States
  <1>5. /\ s.state = "none" /\ s.in = 0 /\ s.new = 0 /\ s.out = 0 /\ s.sdu = e /\ s.pos = 0
        /\ s.rlen = 0 /\ s.rbuf = e /\ ~s.busy
    OBVIOUS
  <1> HIDE DEF s
  <1>6. Pdus(e) = 0 /\ Grants(e) = 0
    BY <1>3, WireType
  <1> HIDE DEF e
  <1>7. Fits(s) /\ Settled(s)
    BY <1>3, <1>5 DEF Fits, Settled, Will
  <1>8. CbmTypeOK
    BY <1>1, <1>3, <1>4, <1>7 DEF CbmTypeOK, Fits
  <1>9. Direction(s, s, e, e, e, e, FALSE)
    <2>1. Balance(s, s, e, e)
      BY <1>2, <1>5, <1>6 DEF Balance
    <2>2. Sender(s, e) /\ Receiver(s, e, e)
      BY <1>3, <1>5 DEF Sender, Receiver, e
    <2>3. Wanted(s, e, FALSE)
      BY <1>3, <1>5 DEF Wanted
    <2>4. Stream(s, s, e, e, e)
      <3>1. SendPos(s, e) = << 1, 1 >> /\ RecvPos(s, e) = << 1, 1 >>
        BY <1>3, <1>5 DEF SendPos, RecvPos, e
      <3>2. ~Before(<< 1, 1 >>, << 1, 1 >>)
        BY DEF Before
      <3>3. \A p : ~IsPiece(p, e)
        BY <1>3 DEF IsPiece
      <3>4. QED
        BY <1>3, <3>1, <3>2, <3>3 DEF Stream
    <2>5. QED
      BY <2>1, <2>2, <2>3, <2>4 DEF Direction
  <1>10. Opening(s, s, e, e)
    BY <1>2, <1>3, <1>5 DEF Opening, New, Late, e
  <1>11. PairInv(s, s, e, e, e, e, e, e, FALSE)
    <2>1. Len(e) + Len(e) <= MaxSdus
      BY <1>2, <1>3
    <2>2. QED
      BY <1>9, <1>10, <2>1 DEF PairInv
  <1>12. QED
    BY <1>1, <1>2, <1>7, <1>8, <1>11 DEF IInv

\* Every step keeps the invariant, and is one of SduFifo.
LEMMA NextInv == IInv /\ [Next]_vars => IInv' /\ FifoStep
  <1> SUFFICES ASSUME IInv, [Next]_vars PROVE IInv' /\ FifoStep
    OBVIOUS
  <1>1. ASSUME NEW k \in InitialCredits[A], CreateChannel(k) PROVE IInv' /\ FifoStep
    BY <1>1, CreateChannelStep
  <1>2. ASSUME NEW k \in InitialCredits[B], AcceptConnection(k) PROVE IInv' /\ FifoStep
    BY <1>2, AcceptConnectionStep
  <1>3. CASE DeclineConnection
    BY <1>3, DeclineConnectionStep
  <1>4. ASSUME NEW x \in Sides, Send(x) PROVE IInv' /\ FifoStep
    BY <1>4, SendStep
  <1>5. ASSUME NEW x \in Sides, ProvideCredits(x) PROVE IInv' /\ FifoStep
    BY <1>5, ProvideCreditsStep
  <1>6. ASSUME NEW x \in Sides, Disconnect(x) PROVE IInv' /\ FifoStep
    BY <1>6, DisconnectStep
  <1>7. ASSUME NEW x \in Sides, Receive(x) PROVE IInv' /\ FifoStep
    BY <1>7, ReceiveStep
  <1>8. ASSUME NEW x \in Sides, PacketSent(x) PROVE IInv' /\ FifoStep
    BY <1>8, PacketSentStep
  <1>9. CASE UNCHANGED vars
    <2>1. UNCHANGED << ch, wire, submitted, delivered, asked >>
      BY <1>9 DEF vars
    <2>2. IInv'
      BY <2>1 DEF IInv, CbmTypeOK
    <2>3. \A x \in Sides : Phase(x)' = Phase(x)
      BY <2>1 DEF Phase
    <2>4. UNCHANGED Fifo!fifo
      BY <2>1, <2>3 DEF Fifo!fifo
    <2>5. QED
      BY <2>2, <2>4 DEF FifoStep
  <1>10. QED
    BY <1>1, <1>2, <1>3, <1>4, <1>5, <1>6, <1>7, <1>8, <1>9 DEF Next

\* The inductive invariant holds in every state of the two devices.
THEOREM CbmInvariant == Spec => []IInv
  <1>1. Init => IInv
    BY InitInv
  <1>2. IInv /\ [Next]_vars => IInv'
    BY NextInv
  <1>3. QED
    BY <1>1, <1>2, PTL DEF Spec

\* Every field of both channels of l2cap.c keeps its type, with counters of any
\* width: in particular credits_incoming and credits_outgoing never wrap around,
\* what was sent of an SDU lies in it, and what was received fits its length.
THEOREM CbmTypeCorrect == Spec => []CbmTypeOK
  <1>1. IInv => CbmTypeOK
    BY DEF IInv
  <1>2. QED
    BY <1>1, CbmInvariant, PTL

\* No credit is lost or made up between two open channels.
THEOREM CreditsNeverLost == Spec => []CreditsConserved
  <1>1. ASSUME IInv PROVE CreditsConserved
    <2> SUFFICES ASSUME NEW x \in Sides, ch[x].state = "open", ch[Peer(x)].state = "open"
                 PROVE  ch[x].out + Pdus(wire[x]) + Grants(wire[Peer(x)]) = ch[Peer(x)].in
      BY DEF CreditsConserved
    <2>1. Duo(x, ch[x], ch[Peer(x)], wire[x], wire[Peer(x)], submitted[x],
              submitted[Peer(x)], delivered[x], delivered[Peer(x)], asked)
      BY <1>1, StepBegin
    <2>2. Balance(ch[x], ch[Peer(x)], wire[x], wire[Peer(x)])
      BY <2>1 DEF Duo, Direction
    <2>3. QED
      BY <2>2 DEF Balance
  <1>2. QED
    BY <1>1, CbmInvariant, PTL

\* The two channels implement SduFifo: SDUs of any length arrive whole, once and
\* in order in both directions, whatever credits are given and however the
\* steps interleave, and the devices never close the channel on their own.
THEOREM CbmImplementsFifo == Spec => ImplementsFifo
  <1>1. Init => Fifo!FifoInit
    <2> SUFFICES ASSUME Init PROVE Fifo!FifoInit
      OBVIOUS
    <2>1. \A x \in Sides : ch[x].state = "none"
      BY DEF Init
    <2>2. \A x \in Sides : Phase(x) = "new"
      BY <2>1 DEF Phase
    <2>3. [x \in Sides |-> Phase(x)] = [x \in Sides |-> "new"]
      BY <2>2
    <2>4. QED
      BY <2>3 DEF Init, Fifo!FifoInit
  <1>2. IInv /\ [Next]_vars => [Fifo!FifoNext]_(Fifo!fifo)
    BY NextInv DEF FifoStep
  <1>3. QED
    BY <1>1, <1>2, CbmInvariant, PTL DEF Spec, ImplementsFifo, Fifo!FifoSpec

=============================================================================
