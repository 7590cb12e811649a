-------------------------- MODULE L2capErtmProofs --------------------------
(***************************************************************************)
(* What the enhanced retransmission mode of l2cap.c guarantees for every   *)
(* number of buffers and window, every number of faults and every length   *)
(* of a history, for applications that ask for CAN_SEND_NOW only when an   *)
(* SDU fits: the ring of frames stays well formed, nothing is dropped that *)
(* the peer did not take, SDUs arrive whole, once and in order, and the    *)
(* channel is never at rest with work left.                                *)
(*                                                                         *)
(* Sequence numbers count modulo SeqModulus and are used again.  The proof *)
(* numbers the frames of a device without end: str is the sequence of all  *)
(* segments it ever stored, a the number of them its peer took.  A frame   *)
(* is at most NumTx numbers away from a wherever it is met, so that its    *)
(* number modulo SeqModulus tells it from all others there.                *)
(***************************************************************************)
EXTENDS L2capErtm, SequenceTheorems, WellFoundedInduction, TLAPS

TxBuffer == [seq : SeqNr, state : {"new", "sent", "again"},
             retry : 0..MaxTransmit, segment : Segment]
RxBuffer == [valid : BOOLEAN, segment : Segment]
Flag == {"rr", "poll", "rnr", "rej", "srej"}

Frame == [type : {"I"}, seq : SeqNr, final : BOOLEAN, req : SeqNr, segment : Segment]
         \cup [type : {"RR", "RNR", "REJ", "SREJ"}, poll : BOOLEAN, final : BOOLEAN,
               req : SeqNr]

\* A channel in the middle of a step, with the frames it has sent in it
Working ==
    [ open : BOOLEAN, tx : [TxIndex -> TxBuffer],
      read : TxIndex, write : TxIndex, send : TxIndex,
      num : 0..NumTx, unacked : 0..NumTx, next : SeqNr, expect : SeqNr, req : SeqNr,
      rx : [RxIndex -> RxBuffer], store : RxIndex,
      rlen : 0..MaxPieces, rbuf : Seq(Nat), flags : SUBSET Flag,
      final : BOOLEAN, active : BOOLEAN, wait : BOOLEAN, busy : BOOLEAN,
      waiting : BOOLEAN, retrans : BOOLEAN, monitor : BOOLEAN,
      acl : 0..AclBuffers, out_q : Seq(Frame) ]

-----------------------------------------------------------------------------
(* The sending side of a channel *)

\* Frame number j is kept in slot j % NumTx; after n frames were stored, the
\* last s.num of them are not acknowledged.
Ring(s, n) ==
    /\ s.num <= n
    /\ s.read = (n - s.num) % NumTx
    /\ s.write = n % NumTx
    /\ s.next = n % SeqModulus

\* The slots hold the last frames that were stored, those that are acknowledged
\* already included.
Slots(s, str) ==
    \A j \in 0..(Len(str) - 1) :
        Len(str) <= j + NumTx => /\ s.tx[j % NumTx].seq = j % SeqModulus
                                 /\ s.tx[j % NumTx].segment = str[j + 1]

\* A slot that was never used is not sent again by l2cap_run.
Unused(s, n) ==
    \A i \in TxIndex : n <= i => s.tx[i].seq = 0 /\ s.tx[i].state # "again"

\* Before the peer took the first frame, tx_send_index is right behind the
\* frames that were sent, or among them.
Early(s) ==
    /\ \A i \in TxIndex : s.tx[i].state = "new" <=> s.unacked <= i
    /\ s.send <= s.unacked

\* f carries one of the last NumTx frames, or one the peer has long taken.
Carries(f, str, a) ==
    \E i \in 0..(Len(str) - 1) :
        /\ Len(str) <= i + NumTx
        /\ f.seq = i % SeqModulus
        /\ a <= i => f.segment = str[i + 1]

\* What a device sends in a step
Fresh(f, s, str, a, h) ==
    /\ f.req = s.req
    /\ f.type = "SREJ" => h
    /\ f.type = "I" => Carries(f, str, a) /\ (a = 0 => s.unacked > 0)

\* A channel that stored the segments str of which its peer took a.  It asks for
\* a frame again only if it has heard of one (h).
SendSide(s, str, a, h) ==
    /\ s \in Working /\ s.expect = s.req
    /\ Ring(s, Len(str)) /\ Slots(s, str) /\ Unused(s, Len(str))
    /\ s.unacked <= s.num /\ s.unacked <= Window /\ ~s.waiting
    /\ Len(str) - s.num <= a /\ a <= Len(str)
    /\ a = 0 => Early(s)
    /\ "srej" \in s.flags => h
    /\ \A p \in 1..Len(s.out_q) : Fresh(s.out_q[p], s, str, a, h)

-----------------------------------------------------------------------------
(* The frames under way *)

\* The number after the last frame that v has seen, of a device a frames of
\* which it took in sequence
Held(v) == v.rx[v.store].valid
Reach(v, a) == IF Held(v) THEN a + 2 ELSE a

\* f carries frame number i of str, which is near the one the peer expects.
Placed(f, i, str, a, reach) ==
    /\ f.seq = i % SeqModulus
    /\ i < Len(str) /\ i < a + NumTx /\ reach <= i + NumTx
    /\ a <= i => f.segment = str[i + 1]

\* So do all frames of w, also at the time the peer has taken those before them.
Numbered(w, str, a, reach) ==
    \E nr \in [1..Len(w) -> Nat] :
        /\ \A p \in 1..Len(w) : w[p].type = "I" => Placed(w[p], nr[p], str, a, reach)
        /\ \A p, q \in 1..Len(w) :
                (p < q /\ w[p].type = "I" /\ w[q].type = "I") => nr[p] < nr[q] + NumTx

\* The acknowledgements in w rise from low to at most a.
Acks(w, low, a) ==
    \E ak \in [1..Len(w) -> Nat] :
        /\ \A p \in 1..Len(w) : /\ w[p].req = ak[p] % SeqModulus
                                /\ low <= ak[p] /\ ak[p] <= a
        /\ \A p, q \in 1..Len(w) : p < q => ak[p] <= ak[q]

\* The peer can have received a frame of s.
Heard(s, n, a) == n > 0 /\ (a = 0 => s.unacked > 0)

Evidence(v, w, z) ==
    \/ Held(v)
    \/ \E p \in 1..Len(w) : w[p].type = "I"
    \/ \E p \in 1..Len(z) : z[p].type = "SREJ"

-----------------------------------------------------------------------------
(* The receiving side *)

\* The SDUs of sub end after frames number T[1], T[2], ... of str.
Stream(sub, str, T) ==
    /\ sub \in Seq(Sdu) /\ str \in Seq(Segment)
    /\ T \in [0..Len(sub) -> Nat] /\ T[0] = 0 /\ T[Len(sub)] = Len(str)
    /\ \A n \in 1..Len(sub) : T[n] = T[n - 1] + Len(sub[n])
    /\ \A m, n \in 0..Len(sub) : m <= n => T[m] <= T[n]
    /\ \A n \in 1..Len(sub) : \A c \in 1..Len(sub[n]) :
            str[T[n - 1] + c] = Segments(sub[n])[c]

\* a frames were taken: those of the SDUs del, and the first ones of another,
\* which are in reassembly_buffer (buf), with its length (len).
Assembly(buf, len, a, T, sub, del) ==
    /\ del \in Seq(Sdu) /\ Len(del) <= Len(sub)
    /\ \A k \in 1..Len(del) : del[k] = sub[k]
    /\ a = T[Len(del)] + Len(buf)
    /\ buf # << >> =>
            LET d == sub[Len(del) + 1] IN
            /\ Len(del) < Len(sub)
            /\ len = Len(d) /\ Len(buf) < Len(d)
            /\ \A k \in 1..Len(buf) : buf[k] = d[k]

RecvSide(v, str, a, T, sub, del) ==
    /\ v.expect = a % SeqModulus
    /\ \A i \in RxIndex : v.rx[i].valid => i = v.store
    /\ Held(v) => a + 2 <= Len(str) /\ v.rx[v.store].segment = str[a + 2]
    /\ Assembly(v.rbuf, v.rlen, a, T, sub, del)

-----------------------------------------------------------------------------
(* Both devices *)

\* One direction: s sends to v over w and gets answers over z.
Direction(s, v, w, z, str, T, a, sub, del) ==
    /\ Stream(sub, str, T)
    /\ Numbered(w, str, a, Reach(v, a))
    /\ Acks(z, Len(str) - s.num, a)
    /\ Evidence(v, w, z) => Heard(s, Len(str), a)
    /\ RecvSide(v, str, a, T, sub, del)

-----------------------------------------------------------------------------
(* Remainders *)

\* A number has one remainder.
LEMMA RemainderUnique ==
    ASSUME NEW m \in Nat \ {0}, NEW r \in 0..(m - 1), NEW q \in Int
    PROVE  (m * q + r) % m = r
  BY SMT

\* Every number is a multiple of m and a remainder.
LEMMA Remainder ==
    ASSUME NEW m \in Nat \ {0}, NEW a \in Int
    PROVE  \E q \in Int : a = m * q + (a % m) /\ a % m \in 0..(m - 1)
  <1>1. a = m * (a \div m) + (a % m)
    BY SMT
  <1>2. a % m \in 0..(m - 1) /\ a \div m \in Int
    BY SMT
  <1> QED BY <1>1, <1>2, Zenon

\* A number below m is its own remainder.
LEMMA ModSmall ==
    ASSUME NEW m \in Nat \ {0}, NEW a \in 0..(m - 1)
    PROVE  a % m = a
  <1>1. (m * 0 + a) % m = a
    BY RemainderUnique
  <1>2. m * 0 + a = a
    OBVIOUS
  <1> QED BY <1>1, <1>2

\* Numbers that differ by a multiple of m have the same remainder.
LEMMA ModShift ==
    ASSUME NEW m \in Nat \ {0}, NEW a \in Int, NEW q \in Int
    PROVE  (m * q + a) % m = a % m
  <1> DEFINE r == a % m
  <1>1. PICK p \in Int : a = m * p + r /\ r \in 0..(m - 1)
    BY Remainder
  <1> HIDE DEF r
  <1>2. m * q + a = m * (q + p) + r
    BY <1>1, SMT
  <1>3. q + p \in Int
    OBVIOUS
  <1>4. (m * (q + p) + r) % m = r
    BY <1>1, <1>3, RemainderUnique
  <1> QED BY <1>2, <1>4 DEF r

\* A remainder can be taken before adding.
LEMMA ModAdd ==
    ASSUME NEW m \in Nat \ {0}, NEW a \in Int, NEW k \in Int
    PROVE  ((a % m) + k) % m = (a + k) % m
  <1> DEFINE r == a % m
  <1>1. PICK p \in Int : a = m * p + r /\ r \in 0..(m - 1)
    BY Remainder
  <1> HIDE DEF r
  <1>2. a + k = m * p + (r + k)
    BY <1>1, SMT
  <1>3. r + k \in Int
    BY <1>1
  <1>4. (m * p + (r + k)) % m = (r + k) % m
    BY <1>3, ModShift
  <1> QED BY <1>2, <1>4 DEF r

\* The remainder of a difference is that of the difference of remainders.
LEMMA ModDiff ==
    ASSUME NEW m \in Nat \ {0}, NEW a \in Int, NEW b \in Int
    PROVE  ((a % m) - (b % m)) % m = (a - b) % m
  <1> DEFINE r == b % m
             n == a % m
  <1>1. PICK p \in Int : b = m * p + r /\ r \in 0..(m - 1)
    BY Remainder
  <1>0. n \in Int
    <2>1. \E q \in Int : a = m * q + n /\ n \in 0..(m - 1)
      BY Remainder
    <2> QED BY <2>1
  <1> HIDE DEF r, n
  <1> DEFINE k == 0 - r
  <1>6. k \in Int
    BY <1>1
  <1> HIDE DEF k
  <1>2. (n + k) % m = (a + k) % m
    BY <1>6, ModAdd DEF n
  <1> USE DEF k
  <1>3. a + (0 - r) = m * p + (a - b) /\ a - b \in Int
    BY <1>1, SMT
  <1>4. (m * p + (a - b)) % m = (a - b) % m
    BY <1>3, ModShift
  <1>5. n + (0 - r) = n - r
    BY <1>0, <1>1
  <1> QED BY <1>2, <1>3, <1>4, <1>5 DEF n, r

\* Numbers less than m apart with the same remainder are equal.
LEMMA ModNear ==
    ASSUME NEW m \in Nat \ {0}, NEW a \in Int, NEW b \in Int,
           a % m = b % m, a - b < m, b - a < m
    PROVE  a = b
  <1>1. (a - b) % m = ((a % m) - (b % m)) % m
    BY ModDiff
  <1>2. (a % m) - (b % m) = 0
    <2>1. \E q \in Int : a = m * q + (a % m) /\ a % m \in 0..(m - 1)
      BY Remainder
    <2> QED BY <2>1
  <1>3. 0 % m = 0
    BY ModSmall
  <1>4. (a - b) % m = 0
    BY <1>1, <1>2, <1>3
  <1>5. CASE a - b >= 0
    <2>1. a - b \in 0..(m - 1)
      BY <1>5
    <2>2. (a - b) % m = a - b
      BY <2>1, ModSmall
    <2> QED BY <2>2, <1>4
  <1>6. CASE a - b < 0
    <2>1. m + (a - b) \in 0..(m - 1) /\ a - b \in Int /\ 1 \in Int
      BY <1>6
    <2>2. (m * 1 + (a - b)) % m = (a - b) % m
      BY <2>1, ModShift
    <2>3. m * 1 + (a - b) = m + (a - b)
      BY <2>1
    <2>4. (m + (a - b)) % m = m + (a - b)
      BY <2>1, ModSmall
    <2> QED BY <2>2, <2>3, <2>4, <1>4, <1>6
  <1> QED BY <1>5, <1>6

\* The remainder of a natural number is not larger than the number.
LEMMA ModBelow ==
    ASSUME NEW m \in Nat \ {0}, NEW a \in Nat
    PROVE  a % m <= a
  <1>1. CASE a < m
    BY <1>1, ModSmall
  <1>2. CASE a >= m
    <2>1. a \in Int
      OBVIOUS
    <2>2. \E q \in Int : a = m * q + (a % m) /\ a % m \in 0..(m - 1)
      BY <2>1, Remainder
    <2> QED BY <1>2, <2>2
  <1> QED BY <1>1, <1>2

\* Remainders are below m.
LEMMA ModRange ==
    ASSUME NEW m \in Nat \ {0}, NEW a \in Int
    PROVE  a % m \in 0..(m - 1)
  <1>1. \E q \in Int : a = m * q + (a % m) /\ a % m \in 0..(m - 1)
    BY Remainder
  <1> QED BY <1>1

-----------------------------------------------------------------------------
(* Slots of the ring *)

\* The sizes of a channel
LEMMA Sizes ==
    /\ NumTx \in Nat \ {0} /\ NumRx \in Nat \ {0} /\ AclBuffers \in Nat \ {0}
    /\ Window \in Nat \ {0} /\ MaxPieces \in Nat \ {0} /\ MaxPieces <= NumTx
    /\ SeqModulus \in Nat \ {0} /\ SeqModulus > NumTx + 1 /\ SeqModulus > Window
    /\ MaxTransmit \in Nat \ {0} /\ MaxSdus \in Nat /\ MaxFaults \in Nat
    /\ A # B
  BY ErtmAssumption, ErtmBoundAssumption

\* Numbers of frames modulo the sizes are slots and sequence numbers.
LEMMA NumberRange ==
    ASSUME NEW j \in Int
    PROVE  j % NumTx \in TxIndex /\ j % SeqModulus \in SeqNr
  BY Sizes, ModRange DEF TxIndex, SeqNr

\* Slots are natural numbers.
LEMMA SlotNat ==
    ASSUME NEW i \in TxIndex
    PROVE  i \in Nat /\ i < NumTx
  BY Sizes DEF TxIndex

\* A slot that was used holds one of the last frames.
LEMMA SlotIndex ==
    ASSUME NEW n \in Nat, NEW i \in TxIndex, i < n
    PROVE  \E j \in 0..(n - 1) : n <= j + NumTx /\ j % NumTx = i
  <1> DEFINE r == (n - 1 - i) % NumTx
  <1>0. NumTx \in Nat \ {0} /\ i \in 0..(NumTx - 1)
    BY Sizes DEF TxIndex
  <1>1. PICK q \in Int : n - 1 - i = NumTx * q + r /\ r \in 0..(NumTx - 1)
    <2>1. n - 1 - i \in Int
      BY <1>0
    <2> QED BY <1>0, <2>1, Remainder
  <1>2. r <= n - 1 - i
    <2>1. n - 1 - i \in Nat
      BY <1>0
    <2> QED BY <1>0, <2>1, ModBelow
  <1> HIDE DEF r
  <1> DEFINE j == n - 1 - r
  <1>3. j \in 0..(n - 1) /\ n <= j + NumTx
    BY <1>0, <1>1, <1>2
  <1>4. j = NumTx * q + i
    BY <1>0, <1>1, SMT
  <1>5. j % NumTx = i
    BY <1>0, <1>4, RemainderUnique
  <1> QED BY <1>3, <1>5

-----------------------------------------------------------------------------
(* Sending *)

\* Sending does not change what the channel knows of its peer's frames.
Keeps(s, t) ==
    /\ t.open = s.open /\ t.expect = s.expect /\ t.req = s.req
    /\ t.rx = s.rx /\ t.store = s.store /\ t.rlen = s.rlen /\ t.rbuf = s.rbuf

\* Neither timer is started or stopped.
SameTimers(s, t) == t.retrans = s.retrans /\ t.monitor = s.monitor

SameRing(s, t) ==
    /\ t.read = s.read /\ t.write = s.write /\ t.num = s.num /\ t.next = s.next
    /\ t.expect = s.expect /\ t.req = s.req /\ t.waiting = s.waiting

\* Nothing changes but flags and timers.
SameSending(s, t) ==
    /\ SameRing(s, t) /\ t.tx = s.tx /\ t.send = s.send /\ t.unacked = s.unacked
    /\ t.out_q = s.out_q

\* Frames are sent, none is dropped.
Sends(s, t) ==
    Keeps(s, t) /\ t.num = s.num /\ (s.unacked > 0 => t.unacked > 0)

\* What was fresh stays so while the count of sent frames grows.
LEMMA FreshKept ==
    ASSUME NEW s, NEW t, NEW str, NEW a, NEW h, NEW f, Fresh(f, s, str, a, h),
           t.req = s.req, a = 0 /\ s.unacked > 0 => t.unacked > 0
    PROVE  Fresh(f, t, str, a, h)
  BY DEF Fresh

\* A change of flags and timers
LEMMA SameSide ==
    ASSUME NEW s, NEW t, NEW str, NEW a, NEW h, SendSide(s, str, a, h),
           t \in Working, SameSending(s, t), "srej" \in t.flags => h
    PROVE  SendSide(t, str, a, h)
  <1>1. Ring(t, Len(str)) /\ Slots(t, str) /\ Unused(t, Len(str))
    BY DEF SendSide, SameSending, SameRing, Ring, Slots, Unused
  <1>2. a = 0 => Early(t)
    BY DEF SendSide, SameSending, SameRing, Early
  <1>3. \A p \in 1..Len(t.out_q) : Fresh(t.out_q[p], t, str, a, h)
    <2>1. \A p \in 1..Len(s.out_q) : Fresh(s.out_q[p], s, str, a, h)
      BY DEF SendSide
    <2>2. t.out_q = s.out_q /\ t.req = s.req /\ t.unacked = s.unacked
      BY DEF SameSending, SameRing
    <2> QED BY <2>1, <2>2, FreshKept
  <1> QED BY <1>1, <1>2, <1>3 DEF SendSide, SameSending, SameRing

\* Appending puts an element behind the others.
LEMMA AppendIndex ==
    ASSUME NEW S, NEW q \in Seq(S), NEW e \in S
    PROVE  /\ Append(q, e) \in Seq(S) /\ Len(Append(q, e)) = Len(q) + 1
           /\ \A p \in 1..Len(q) : Append(q, e)[p] = q[p]
           /\ Append(q, e)[Len(q) + 1] = e
  OBVIOUS

\* A supervisory frame is sent.
LEMMA TransmitSide ==
    ASSUME NEW s, NEW str, NEW a, NEW h, NEW f \in Frame, SendSide(s, str, a, h),
           CanSend(s), Fresh(f, s, str, a, h)
    PROVE  /\ SendSide(Transmit(s, f), str, a, h)
           /\ Sends(s, Transmit(s, f))
  <1> DEFINE t == Transmit(s, f)
  <1>1. s \in Working
    BY DEF SendSide
  <1>2. /\ t \in Working /\ Keeps(s, t) /\ SameRing(s, t)
        /\ t.tx = s.tx /\ t.send = s.send /\ t.unacked = s.unacked /\ t.flags = s.flags
        /\ t.out_q = Append(s.out_q, f)
    <2>1. t \in Working
      <3>1. s.acl - 1 \in 0..AclBuffers
        BY <1>1, Sizes DEF Working, CanSend
      <3>2. Append(s.out_q, f) \in Seq(Frame)
        BY <1>1, AppendIndex DEF Working
      <3> QED BY <1>1, <3>1, <3>2 DEF Transmit, Working
    <2>2. /\ t.out_q = Append(s.out_q, f)
          /\ t.tx = s.tx /\ t.send = s.send /\ t.unacked = s.unacked /\ t.flags = s.flags
      BY <1>1 DEF Transmit, Working
    <2>3. Keeps(s, t) /\ SameRing(s, t)
      BY <1>1 DEF Transmit, Working, Keeps, SameRing
    <2> QED BY <2>1, <2>2, <2>3
  <1>3. s.out_q \in Seq(Frame)
    BY <1>1 DEF Working
  <1> HIDE DEF t
  <1>4. Ring(t, Len(str)) /\ Slots(t, str) /\ Unused(t, Len(str))
    BY <1>2 DEF SendSide, SameRing, Ring, Slots, Unused
  <1>5. a = 0 => Early(t)
    BY <1>2 DEF SendSide, SameRing, Early
  <1>6. ASSUME NEW p \in 1..Len(t.out_q) PROVE Fresh(t.out_q[p], t, str, a, h)
    <2>1. \A k \in 1..Len(s.out_q) : Fresh(s.out_q[k], s, str, a, h)
      BY DEF SendSide
    <2>2. Fresh(t.out_q[p], s, str, a, h)
      BY <1>2, <1>3, <2>1, AppendIndex
    <2> QED BY <1>2, <2>2, FreshKept DEF SameRing
  <1>7. Sends(s, t)
    BY <1>2 DEF Sends, SameRing
  <1> QED BY <1>2, <1>4, <1>5, <1>6, <1>7 DEF SendSide, SameRing, t

\* The frame in slot i is sent: one that was sent before, or the next new one.
LEMMA SlotSent ==
    ASSUME NEW s, NEW t, NEW str, NEW a, NEW h, NEW i \in TxIndex, NEW fin \in BOOLEAN,
           SendSide(s, str, a, h), str \in Seq(Segment), a \in Nat,
           t \in Working, SameRing(s, t), "srej" \in t.flags => h,
           t.tx = [s.tx EXCEPT ![i].state = "sent"],
           t.out_q = Append(s.out_q, IFrame(s.tx[i].seq, fin, s.req, s.tx[i].segment)),
           t.unacked = s.unacked \/ t.unacked = s.unacked + 1,
           t.unacked <= s.num, t.unacked <= Window,
           a = 0 => /\ i < t.unacked /\ t.send <= t.unacked
                    /\ t.unacked # s.unacked => i = s.unacked
    PROVE  SendSide(t, str, a, h)
  <1> DEFINE f == IFrame(s.tx[i].seq, fin, s.req, s.tx[i].segment)
             n == Len(str)
  <1>1. /\ s \in Working /\ s.expect = s.req /\ Ring(s, n) /\ Slots(s, str)
        /\ Unused(s, n) /\ n - s.num <= a /\ a <= n /\ (a = 0 => Early(s)) /\ ~s.waiting
    BY DEF SendSide
  <1>2. /\ s.tx \in [TxIndex -> TxBuffer] /\ s.out_q \in Seq(Frame) /\ s.req \in SeqNr
        /\ s.num \in 0..NumTx /\ s.unacked \in 0..NumTx
    BY <1>1 DEF Working
  <1>3. s.tx[i] \in TxBuffer /\ n \in Nat
    BY <1>2
  <1>4. f \in Frame /\ f.type = "I" /\ f.req = s.req /\ f.seq = s.tx[i].seq
        /\ f.segment = s.tx[i].segment
    BY <1>2, <1>3 DEF IFrame, Frame, TxBuffer
  <1>5. \A j \in TxIndex : /\ t.tx[j].seq = s.tx[j].seq
                           /\ t.tx[j].segment = s.tx[j].segment
                           /\ t.tx[j].state = IF j = i THEN "sent" ELSE s.tx[j].state
    BY <1>2 DEF TxBuffer
  <1>6. Ring(t, n)
    BY <1>1 DEF Ring, SameRing
  <1>7. Slots(t, str)
    <2>1. \A j \in 0..(n - 1) : j % NumTx \in TxIndex
      BY NumberRange
    <2> QED BY <1>1, <1>5, <2>1 DEF Slots
  <1>8. Unused(t, n)
    BY <1>1, <1>5 DEF Unused
  <1>9. a = 0 => Early(t)
    <2> SUFFICES ASSUME a = 0 PROVE Early(t)
      OBVIOUS
    <2>1. Early(s)
      BY <1>1
    <2>2. ASSUME NEW j \in TxIndex PROVE t.tx[j].state = "new" <=> t.unacked <= j
      <3>0. j \in Nat /\ i \in Nat
        BY Sizes DEF TxIndex
      <3>1. CASE j = i
        BY <1>2, <1>5, <3>0, <3>1
      <3>2. CASE j # i
        <4>1. t.tx[j].state = "new" <=> s.unacked <= j
          BY <1>5, <2>1, <3>2 DEF Early
        <4>2. s.unacked <= j <=> t.unacked <= j
          BY <1>2, <3>0, <3>2
        <4> QED BY <4>1, <4>2
      <3> QED BY <3>1, <3>2
    <2> QED BY <2>2 DEF Early
  <1>10. Carries(f, str, a)
    <2>1. CASE i < n
      <3>1. PICK j \in 0..(n - 1) : n <= j + NumTx /\ j % NumTx = i
        BY <1>3, <2>1, SlotIndex
      <3>2. s.tx[i].seq = j % SeqModulus /\ s.tx[i].segment = str[j + 1]
        BY <1>1, <3>1 DEF Slots
      <3> QED BY <1>4, <3>1, <3>2 DEF Carries
    <2>2. CASE n <= i
      <3>1. s.tx[i].seq = 0
        BY <1>1, <2>2 DEF Unused
      <3>2. i < NumTx /\ i \in Nat
        BY Sizes DEF TxIndex
      <3>3. a # 0
        <4>1. s.num <= n
          BY <1>1 DEF Ring
        <4> QED BY <1>2, <1>3, <2>2, <3>2, <4>1
      <3>4. 0 \in 0..(n - 1) /\ n <= 0 + NumTx /\ ~(a <= 0)
        BY <1>1, <1>3, <2>2, <3>2, <3>3, Sizes
      <3>5. 0 % SeqModulus = 0
        BY Sizes, ModSmall
      <3> QED BY <1>4, <3>1, <3>4, <3>5 DEF Carries
    <2>3. i \in Nat
      BY Sizes DEF TxIndex
    <2> QED BY <1>3, <2>1, <2>2, <2>3
  <1>11. Fresh(f, t, str, a, h)
    <2>1. a = 0 => t.unacked > 0
      BY <1>2 DEF TxIndex
    <2> QED BY <1>4, <1>10, <2>1 DEF Fresh, SameRing
  <1> HIDE DEF f
  <1>12. ASSUME NEW p \in 1..Len(t.out_q) PROVE Fresh(t.out_q[p], t, str, a, h)
    <2>1. \A k \in 1..Len(s.out_q) : Fresh(s.out_q[k], s, str, a, h)
      BY DEF SendSide
    <2>2. a = 0 /\ s.unacked > 0 => t.unacked > 0
      BY <1>2
    <2>3. \A k \in 1..Len(s.out_q) : Fresh(s.out_q[k], t, str, a, h)
      BY <2>1, <2>2, FreshKept DEF SameRing
    <2>4. t.out_q = Append(s.out_q, f)
      BY DEF f
    <2>5. Len(s.out_q) \in Nat
      BY <1>2
    <2>6. CASE p = Len(s.out_q) + 1
      BY <1>2, <1>4, <1>11, <2>4, <2>6, AppendIndex
    <2>7. CASE p \in 1..Len(s.out_q)
      BY <1>2, <1>4, <2>3, <2>4, <2>7, AppendIndex
    <2>8. Len(t.out_q) = Len(s.out_q) + 1
      BY <1>2, <1>4, <2>4, AppendIndex
    <2> QED BY <2>5, <2>6, <2>7, <2>8
  <1> QED
    BY <1>1, <1>6, <1>7, <1>8, <1>9, <1>12 DEF SendSide, SameRing

\* A set of natural numbers has a smallest element.
LEMMA SmallestElement ==
    ASSUME NEW S \in SUBSET Nat, S # {}
    PROVE  Min(S) \in S /\ \A k \in S : Min(S) <= k
  <1> DEFINE R == OpToRel(<, Nat)
  <1>1. IsWellFoundedOn(R, Nat)
    BY NatLessThanWellFounded, Zenon
  <1>2. \A m, k \in Nat : ~ (<< k, m >> \in R) => m <= k
    BY DEF OpToRel
  <1> HIDE DEF R
  <1>3. \E m \in S : \A k \in S : ~ (<< k, m >> \in R)
    BY <1>1, WFMin, Zenon
  <1>4. PICK m \in S : \A k \in S : ~ (<< k, m >> \in R)
    BY <1>3
  <1>5. \A k \in S : m <= k
    BY <1>2, <1>4, Zenon
  <1> QED BY <1>5, Zenon DEF Min

\* The first number in a set
LEMMA FirstMember ==
    ASSUME NEW S \in SUBSET Nat, S # {}
    PROVE  \E m \in S : \A k \in Nat : k < m => k \notin S
  <1>1. Min(S) \in S /\ \A k \in S : Min(S) <= k
    BY SmallestElement
  <1> DEFINE m == Min(S)
  <1> HIDE DEF m
  <1>2. m \in S /\ m \in Nat /\ \A k \in S : m <= k
    BY <1>1 DEF m
  <1>3. \A k \in Nat : k < m => k \notin S
    BY <1>2
  <1> QED BY <1>2, <1>3

\* The smaller of two numbers
LEMMA MinPair ==
    ASSUME NEW k \in Nat, NEW l \in Nat
    PROVE  Min({k, l}) = IF k <= l THEN k ELSE l
  <1>1. Min({k, l}) \in {k, l} /\ \A e \in {k, l} : Min({k, l}) <= e
    BY SmallestElement
  <1> QED BY <1>1

\* What a step of the ring needs to know of the channel
LEMMA SideFacts ==
    ASSUME NEW s, NEW str, NEW a, NEW h, SendSide(s, str, a, h), str \in Seq(Segment),
           a \in Nat
    PROVE  /\ s \in Working /\ s.expect = s.req /\ ~s.waiting
           /\ s.tx \in [TxIndex -> TxBuffer] /\ s.out_q \in Seq(Frame)
           /\ s.req \in SeqNr /\ s.expect \in SeqNr
           /\ s.read \in TxIndex /\ s.send \in TxIndex
           /\ s.num \in Nat /\ s.unacked \in Nat
           /\ s.num <= NumTx /\ s.num <= Len(str) /\ s.unacked <= s.num
           /\ s.unacked <= Window /\ Len(str) \in Nat
           /\ s.read = (Len(str) - s.num) % NumTx
           /\ Len(str) - s.num <= a /\ a <= Len(str)
           /\ a = 0 => Early(s) /\ s.num = Len(str) /\ s.read = 0
  <1>1. /\ s \in Working /\ s.expect = s.req /\ ~s.waiting /\ s.unacked <= s.num
        /\ s.unacked <= Window /\ Len(str) - s.num <= a /\ a <= Len(str)
        /\ (a = 0 => Early(s))
    BY DEF SendSide
  <1>2. s.num <= Len(str) /\ s.read = (Len(str) - s.num) % NumTx
    BY DEF SendSide, Ring
  <1>3. /\ s.tx \in [TxIndex -> TxBuffer] /\ s.out_q \in Seq(Frame)
        /\ s.req \in SeqNr /\ s.expect \in SeqNr
        /\ s.read \in TxIndex /\ s.send \in TxIndex
        /\ s.num \in 0..NumTx /\ s.unacked \in 0..NumTx
    BY <1>1 DEF Working
  <1>4. s.num \in Nat /\ s.unacked \in Nat /\ s.num <= NumTx /\ Len(str) \in Nat
    BY <1>3, Sizes
  <1>5. a = 0 => s.num = Len(str) /\ Len(str) - s.num = 0
    BY <1>1, <1>2, <1>4
  <1>6. 0 % NumTx = 0
    BY Sizes, ModSmall
  <1>7. a = 0 => s.read = 0
    BY <1>2, <1>5, <1>6
  <1> QED BY <1>1, <1>2, <1>3, <1>4, <1>5, <1>7

\* l2cap_ertm_channel_send_information_frame
LEMMA ChannelSendSide ==
    ASSUME NEW s, NEW str, NEW a, NEW h, SendSide(s, str, a, h), str \in Seq(Segment),
           a \in Nat, CanSend(s),
           s.tx[s.send].state = "new" => s.unacked < s.num /\ s.unacked < Window
    PROVE  SendSide(ChannelSend(s), str, a, h) /\ Sends(s, ChannelSend(s))
  <1> DEFINE t == ChannelSend(s)
             i == s.send
             k == IF s.tx[i].state = "new" THEN 1 ELSE 0
             f == IFrame(s.tx[i].seq, FALSE, s.req, s.tx[i].segment)
  <1>1. /\ s \in Working /\ s.tx \in [TxIndex -> TxBuffer] /\ s.out_q \in Seq(Frame)
        /\ s.req \in SeqNr /\ i \in TxIndex /\ s.num \in Nat /\ s.unacked \in Nat
        /\ s.num <= NumTx /\ s.unacked <= s.num /\ s.unacked <= Window
        /\ a = 0 => Early(s)
    BY SideFacts
  <1>2. i \in Nat /\ (i + 1) % NumTx \in TxIndex /\ (i + 1) % NumTx <= i + 1
    <2>1. i \in Nat /\ i + 1 \in Nat /\ i + 1 \in Int
      BY <1>1, Sizes DEF TxIndex
    <2> QED BY <2>1, NumberRange, ModBelow, Sizes
  <1>3. s.unacked + k \in 0..NumTx /\ s.unacked + k <= s.num /\ s.unacked + k <= Window
    BY <1>1, Sizes
  <1>4. f \in Frame
    BY <1>1 DEF IFrame, Frame, TxBuffer
  <1>5. [s.tx EXCEPT ![i].state = "sent"] \in [TxIndex -> TxBuffer]
    BY <1>1 DEF TxBuffer
  <1>6. s.acl - 1 \in 0..AclBuffers
    BY <1>1, Sizes DEF Working, CanSend
  <1>7. Append(s.out_q, f) \in Seq(Frame)
    BY <1>1, <1>4, AppendIndex
  <1> DEFINE u == [s EXCEPT !.unacked = @ + k, !.send = (@ + 1) % NumTx]
             v == [u EXCEPT !.tx[i].state = "sent", !.retrans = TRUE]
  <1>8. t = [v EXCEPT !.acl = @ - 1,
                       !.out_q = Append(@, IFrame(u.tx[i].seq, FALSE, u.req,
                                                  u.tx[i].segment))]
    BY DEF ChannelSend, SendInformationFrame, Transmit
  <1>9. u.tx = s.tx /\ u.req = s.req
    BY <1>1 DEF Working
  <1>10. t = [v EXCEPT !.acl = @ - 1, !.out_q = Append(@, f)]
    BY <1>8, <1>9
  <1> HIDE DEF f, k, t
  <1>11. /\ t.unacked = s.unacked + k /\ t.send = (i + 1) % NumTx
         /\ t.tx = [s.tx EXCEPT ![i].state = "sent"] /\ t.out_q = Append(s.out_q, f)
         /\ t.flags = s.flags
    BY <1>1, <1>10 DEF Working
  <1>12. Keeps(s, t) /\ SameRing(s, t)
    BY <1>1, <1>10 DEF Working, Keeps, SameRing
  <1>13. t \in Working
    BY <1>1, <1>2, <1>3, <1>5, <1>6, <1>7, <1>10, ZenonT(60) DEF Working
  <1>14. "srej" \in t.flags => h
    BY <1>11 DEF SendSide
  <1>15. a = 0 => /\ i < t.unacked /\ t.send <= t.unacked
                  /\ t.unacked # s.unacked => i = s.unacked
    <2> SUFFICES ASSUME a = 0
                 PROVE  /\ i < s.unacked + k /\ (i + 1) % NumTx <= s.unacked + k
                        /\ s.unacked + k # s.unacked => i = s.unacked
      BY <1>11
    <2>1. (s.tx[i].state = "new" <=> s.unacked <= i) /\ i <= s.unacked
      BY <1>1 DEF Early
    <2> DEFINE m == (i + 1) % NumTx
               c == s.unacked
    <2>4. m \in Nat /\ m <= i + 1 /\ c \in Nat /\ i \in Nat
      BY <1>1, <1>2, Sizes DEF TxIndex
    <2> HIDE DEF m
    <2> SUFFICES i < c + k /\ m <= c + k /\ (c + k # c => i = c)
      BY DEF m
    <2>2. CASE s.tx[i].state = "new"
      <3>1. k = 1
        BY <2>2 DEF k
      <3> QED BY <2>1, <2>2, <2>4, <3>1
    <2>3. CASE s.tx[i].state # "new"
      <3>1. k = 0
        BY <2>3 DEF k
      <3> QED BY <2>1, <2>3, <2>4, <3>1
    <2> QED BY <2>2, <2>3
  <1>16. k \in {0, 1}
    BY DEF k
  <1>17. t.unacked = s.unacked \/ t.unacked = s.unacked + 1
    BY <1>1, <1>11, <1>16
  <1>18. SendSide(t, str, a, h)
    BY <1>1, <1>3, <1>11, <1>12, <1>13, <1>14, <1>15, <1>17, SlotSent DEF f
  <1>19. Sends(s, t)
    BY <1>1, <1>12, <1>17 DEF Sends, SameRing
  <1> QED BY <1>18, <1>19 DEF t

\* One round of l2cap_notify_channel_can_send
LEMMA NotifyOnceSide ==
    ASSUME NEW s, NEW str, NEW a, NEW h, SendSide(s, str, a, h), str \in Seq(Segment),
           a \in Nat
    PROVE  SendSide(NotifyOnce(s), str, a, h) /\ Sends(s, NotifyOnce(s))
  <1> DEFINE new   == s.unacked < Min({Window, s.num})
             again == { k \in 0..(s.unacked - 1) :
                          s.tx[(s.read + k) % NumTx].state = "again" }
             t     == IF new \/ again = {} THEN s
                      ELSE [s EXCEPT !.send = (s.read + Min(again)) % NumTx]
             r == IF ~s.open \/ s.wait \/ (~new /\ again = {} /\ ~s.waiting) THEN s
                  ELSE IF CanSend(t) THEN ChannelSend(t) ELSE t
  <1>1. NotifyOnce(s) = r
    BY DEF NotifyOnce
  <1>2. /\ s \in Working /\ ~s.waiting /\ s.tx \in [TxIndex -> TxBuffer]
        /\ s.read \in TxIndex /\ s.num \in Nat /\ s.unacked \in Nat
        /\ s.num <= NumTx /\ s.unacked <= s.num /\ s.unacked <= Window
        /\ a = 0 => Early(s) /\ s.read = 0
    BY SideFacts
  <1>3. Sends(s, s)
    BY DEF Keeps, Sends
  <1>4. new => s.unacked < s.num /\ s.unacked < Window
    <2>1. Min({Window, s.num}) = IF Window <= s.num THEN Window ELSE s.num
      BY <1>2, MinPair, Sizes
    <2> QED BY <1>2, <2>1, Sizes
  <1>5. again \in SUBSET Nat
    BY SMTT(40)
  <1>6. CASE new
    <2>1. t = s
      BY <1>6
    <2>2. r = s \/ (CanSend(s) /\ r = ChannelSend(s))
      BY <1>6, <2>1
    <2>3. CanSend(s) => SendSide(ChannelSend(s), str, a, h) /\ Sends(s, ChannelSend(s))
      BY <1>4, <1>6, ChannelSendSide
    <2> QED BY <1>1, <1>3, <2>2, <2>3
  <1>7. CASE ~new /\ again = {}
    BY <1>1, <1>2, <1>3, <1>7
  <1>8. CASE ~new /\ again # {}
    <2> DEFINE k == Min(again)
               i == (s.read + k) % NumTx
    <2>1. k \in again
      BY <1>5, <1>8, SmallestElement
    <2>0. ASSUME NEW e \in again
          PROVE  e \in Nat /\ e < s.unacked /\ s.tx[(s.read + e) % NumTx].state = "again"
      BY <1>2
    <2> HIDE DEF again
    <2>2. k \in Nat /\ k < s.unacked /\ s.tx[i].state = "again"
      BY <2>0, <2>1
    <2> HIDE DEF k
    <2>3. s.read + k \in Nat /\ i \in TxIndex
      <3>0. s.read \in Nat /\ k \in Nat
        BY <1>2, <2>2, SlotNat
      <3>1. s.read + k \in Nat
        BY <3>0
      <3>2. s.read + k \in Int
        BY <3>1
      <3> QED BY <3>1, <3>2, NumberRange
    <2>4. t = [s EXCEPT !.send = i]
      BY <1>8 DEF k
    <2> HIDE DEF t, i
    <2>5. t \in Working
      BY <1>2, <2>3, <2>4 DEF Working
    <2>6. Keeps(s, t) /\ SameRing(s, t)
      BY <1>2, <2>4 DEF Working, Keeps, SameRing
    <2>7. t.tx = s.tx /\ t.unacked = s.unacked /\ t.send = i /\ t.flags = s.flags
          /\ t.out_q = s.out_q
      BY <1>2, <2>4 DEF Working
    <2>8. a = 0 => Early(t)
      <3> SUFFICES ASSUME a = 0 PROVE Early(t)
        OBVIOUS
      <3>1. Early(s) /\ s.read = 0
        BY <1>2
      <3>2. i <= s.unacked
        <4>1. i <= k
          <5>1. s.read + k = k
            BY <2>2, <3>1
          <5> QED BY <2>2, <5>1, ModBelow, Sizes DEF i
        <4> QED BY <1>2, <2>2, <2>3, <4>1, Sizes DEF TxIndex
      <3> QED BY <2>7, <3>1, <3>2 DEF Early
    <2>9. SendSide(t, str, a, h)
      <3>1. Ring(t, Len(str)) /\ Slots(t, str) /\ Unused(t, Len(str))
        BY <2>6, <2>7 DEF SendSide, SameRing, Ring, Slots, Unused
      <3>2. \A p \in 1..Len(t.out_q) : Fresh(t.out_q[p], t, str, a, h)
        <4>1. \A p \in 1..Len(s.out_q) : Fresh(s.out_q[p], s, str, a, h)
          BY DEF SendSide
        <4> QED BY <2>6, <2>7, <4>1, FreshKept DEF SameRing
      <3> QED BY <2>5, <2>6, <2>7, <2>8, <3>1, <3>2 DEF SendSide, SameRing
    <2>10. t.tx[t.send].state # "new"
      BY <2>2, <2>7 DEF i
    <2>11. CanSend(t) => SendSide(ChannelSend(t), str, a, h) /\ Sends(t, ChannelSend(t))
      BY <2>9, <2>10, ChannelSendSide
    <2>12. r \in {s, t} \/ (CanSend(t) /\ r = ChannelSend(t))
      OBVIOUS
    <2>13. Sends(s, t)
      BY <2>6, <2>7 DEF Sends, SameRing
    <2>14. CanSend(t) => Sends(s, ChannelSend(t))
      BY <2>11, <2>13 DEF Keeps, Sends
    <2> HIDE DEF r
    <2> QED BY <1>1, <1>3, <2>9, <2>11, <2>12, <2>13, <2>14, SMTT(40)
  <1> QED BY <1>6, <1>7, <1>8

\* The rounds of the loop are well defined.
LEMMA RoundsExist ==
    ASSUME NEW s, NEW n \in Nat
    PROVE  \E g : g = [k \in 0..n |-> IF k = 0 THEN s ELSE NotifyOnce(g[k - 1])]
  <1> DEFINE Good(m) == \E g : g = [k \in 0..m |-> IF k = 0 THEN s ELSE NotifyOnce(g[k - 1])]
             S == { m \in Nat : ~Good(m) }
  <1> SUFFICES ASSUME S # {} PROVE FALSE
    OBVIOUS
  <1> HIDE DEF Good
  <1>1. PICK m \in S : \A k \in Nat : k < m => k \notin S
    <2>1. S \in SUBSET Nat
      OBVIOUS
    <2> HIDE DEF S
    <2> QED BY <2>1, FirstMember
  <1>2. m \in Nat /\ ~Good(m) /\ \A l \in Nat : l < m => Good(l)
    BY <1>1
  <1> HIDE DEF S
  <1> USE DEF Good
  <1>3. m # 0
    <2> DEFINE g == [k \in 0..0 |-> s]
    <2>1. g = [k \in 0..0 |-> IF k = 0 THEN s ELSE NotifyOnce(g[k - 1])]
      OBVIOUS
    <2>2. Good(0)
      BY <2>1
    <2> QED BY <1>2, <2>2
  <1>4. PICK g : g = [k \in 0..(m - 1) |-> IF k = 0 THEN s ELSE NotifyOnce(g[k - 1])]
    <2>1. m - 1 \in Nat /\ m - 1 < m
      BY <1>2, <1>3
    <2>2. Good(m - 1)
      BY <1>2, <2>1
    <2> QED BY <2>2
  <1> DEFINE e == [k \in 0..m |-> IF k <= m - 1 THEN g[k] ELSE NotifyOnce(g[m - 1])]
             N(x) == NotifyOnce(x)
  <1> HIDE DEF N
  <1>5. \A k \in 0..(m - 1) : g[k] = IF k = 0 THEN s ELSE N(g[k - 1])
    BY <1>4 DEF N
  <1>6. \A k \in 0..m : e[k] = IF k <= m - 1 THEN g[k] ELSE N(g[m - 1])
    BY DEF N
  <1>7. ASSUME NEW k \in 0..m PROVE e[k] = IF k = 0 THEN s ELSE N(e[k - 1])
    <2>1. CASE k = 0
      <3>1. k \in 0..(m - 1) /\ k <= m - 1
        BY <1>2, <1>3, <2>1
      <3> QED BY <1>5, <1>6, <2>1, <3>1
    <2>2. CASE k # 0 /\ k <= m - 1
      <3>1. k \in 0..(m - 1) /\ k - 1 \in 0..m /\ k - 1 <= m - 1
        BY <1>2, <2>2
      <3>2. e[k] = g[k] /\ g[k] = N(g[k - 1]) /\ e[k - 1] = g[k - 1]
        BY <1>5, <1>6, <2>2, <3>1
      <3> QED BY <2>2, <3>2
    <2>3. CASE k = m
      <3>1. m - 1 \in 0..m /\ m - 1 <= m - 1 /\ ~(m <= m - 1) /\ m \in 0..m
        BY <1>2, <1>3
      <3>2. e[m] = N(g[m - 1]) /\ e[m - 1] = g[m - 1]
        BY <1>6, <3>1
      <3> QED BY <1>3, <2>3, <3>2
    <2> QED BY <1>2, <2>1, <2>2, <2>3
  <1>8. e = [k \in 0..m |-> IF k = 0 THEN s ELSE NotifyOnce(e[k - 1])]
    BY <1>7 DEF N
  <1> HIDE DEF e
  <1>9. Good(m)
    BY <1>8
  <1> QED BY <1>2, <1>9

\* The loop of l2cap_notify_channel_can_send ends with a round, and stays in every
\* set of states that a round does not leave.
LEMMA NotifyLoop ==
    ASSUME NEW s, NEW X, s \in X, \A x \in X : NotifyOnce(x) \in X
    PROVE  \E x \in X : NotifyCanSend(s) = NotifyOnce(x)
  <1> DEFINE n == AclBuffers + 1
             R == CHOOSE g : g = [k \in 0..n |-> IF k = 0 THEN s ELSE NotifyOnce(g[k - 1])]
             N(x) == NotifyOnce(x)
  <1>1. n \in Nat /\ n # 0
    BY Sizes
  <1>2. NotifyCanSend(s) = R[n]
    BY DEF NotifyCanSend
  <1> HIDE DEF n
  <1>3. R = [k \in 0..n |-> IF k = 0 THEN s ELSE NotifyOnce(R[k - 1])]
    <2>1. \E g : g = [k \in 0..n |-> IF k = 0 THEN s ELSE NotifyOnce(g[k - 1])]
      BY <1>1, RoundsExist, ZenonT(60)
    <2> QED BY <2>1
  <1> HIDE DEF R
  <1>4. \A k \in 0..n : R[k] = IF k = 0 THEN s ELSE N(R[k - 1])
    BY <1>3
  <1>5. \A x \in X : N(x) \in X
    OBVIOUS
  <1> HIDE DEF N
  <1> DEFINE S == { k \in 0..n : R[k] \notin X }
  <1>6. S = {}
    <2> SUFFICES ASSUME S # {} PROVE FALSE
      OBVIOUS
    <2>1. S \in SUBSET Nat
      OBVIOUS
    <2>2. PICK m \in S : \A k \in Nat : k < m => k \notin S
      <3> HIDE DEF S
      <3> QED BY <2>1, FirstMember
    <2>3. m \in 0..n /\ R[m] \notin X /\ \A k \in 0..n : k < m => R[k] \in X
      BY <2>2
    <2> HIDE DEF S
    <2>4. CASE m = 0
      BY <1>1, <1>4, <2>3, <2>4
    <2>5. CASE m # 0
      <3>1. m - 1 \in 0..n /\ m - 1 < m
        BY <1>1, <2>3, <2>5
      <3>2. R[m] = N(R[m - 1]) /\ R[m - 1] \in X
        BY <1>4, <2>3, <2>5, <3>1
      <3> QED BY <1>5, <2>3, <3>2
    <2> QED BY <2>4, <2>5
  <1>7. n \in 0..n /\ n - 1 \in 0..n
    BY <1>1
  <1>8. R[n] = N(R[n - 1]) /\ R[n - 1] \in X
    BY <1>1, <1>4, <1>6, <1>7
  <1> QED BY <1>2, <1>8 DEF N

\* l2cap_notify_channel_can_send
LEMMA NotifySide ==
    ASSUME NEW s, NEW str, NEW a, NEW h, SendSide(s, str, a, h), str \in Seq(Segment),
           a \in Nat
    PROVE  SendSide(NotifyCanSend(s), str, a, h) /\ Sends(s, NotifyCanSend(s))
  <1> DEFINE X == { x \in Working : SendSide(x, str, a, h) /\ Sends(s, x) }
  <1>1. s \in X
    BY SideFacts DEF Keeps, Sends
  <1>2. ASSUME NEW x \in X PROVE NotifyOnce(x) \in X
    <2>1. SendSide(NotifyOnce(x), str, a, h) /\ Sends(x, NotifyOnce(x))
      BY NotifyOnceSide
    <2>2. Sends(s, NotifyOnce(x))
      BY <2>1 DEF Keeps, Sends
    <2> QED BY <2>1, <2>2 DEF SendSide
  <1> HIDE DEF X
  <1>3. NotifyCanSend(s) \in X
    BY <1>1, <1>2, NotifyLoop
  <1> QED BY <1>3 DEF X

\* A flag is cleared and a supervisory frame is sent.
LEMMA FlagSent ==
    ASSUME NEW s, NEW t, NEW str, NEW a, NEW h, SendSide(s, str, a, h), NEW f \in Frame,
           t \in Working, SameSending(s, t), Keeps(s, t), t.flags \subseteq s.flags,
           CanSend(t), f.req = s.req, f.type # "I", f.type = "SREJ" => "srej" \in s.flags
    PROVE  SendSide(Transmit(t, f), str, a, h) /\ Sends(s, Transmit(t, f))
  <1>1. "srej" \in s.flags => h
    BY DEF SendSide
  <1>2. SendSide(t, str, a, h)
    BY <1>1, SameSide
  <1>3. Fresh(f, t, str, a, h)
    BY <1>1 DEF Fresh, SameSending, SameRing
  <1>4. SendSide(Transmit(t, f), str, a, h) /\ Sends(t, Transmit(t, f))
    BY <1>2, <1>3, TransmitSide
  <1> QED BY <1>4 DEF Keeps, Sends, SameSending, SameRing

\* l2cap_run_for_classic_channel_ertm, frames to send again after SREJ
LEMMA AgainSide ==
    ASSUME NEW s, NEW str, NEW a, NEW h, SendSide(s, str, a, h), str \in Seq(Segment),
           a \in Nat, CanSend(s), NEW i \in TxIndex, s.tx[i].state = "again"
    PROVE  LET t == SendInformationFrame([s EXCEPT !.final = FALSE], i, s.final)
           IN  SendSide(t, str, a, h) /\ Sends(s, t)
  <1> DEFINE t == SendInformationFrame([s EXCEPT !.final = FALSE], i, s.final)
             f == IFrame(s.tx[i].seq, s.final, s.req, s.tx[i].segment)
             u == [s EXCEPT !.final = FALSE]
             v == [u EXCEPT !.tx[i].state = "sent", !.retrans = TRUE]
  <1>1. /\ s \in Working /\ s.tx \in [TxIndex -> TxBuffer] /\ s.out_q \in Seq(Frame)
        /\ s.req \in SeqNr /\ s.send \in TxIndex /\ s.num \in Nat /\ s.unacked \in Nat
        /\ s.num <= NumTx /\ s.unacked <= s.num /\ s.unacked <= Window
        /\ a = 0 => Early(s)
    BY SideFacts
  <1>2. s.final \in BOOLEAN
    BY <1>1 DEF Working
  <1>3. f \in Frame
    BY <1>1, <1>2 DEF IFrame, Frame, TxBuffer
  <1>4. [s.tx EXCEPT ![i].state = "sent"] \in [TxIndex -> TxBuffer]
    BY <1>1 DEF TxBuffer
  <1>5. s.acl - 1 \in 0..AclBuffers
    BY <1>1, Sizes DEF Working, CanSend
  <1>6. Append(s.out_q, f) \in Seq(Frame)
    BY <1>1, <1>3, AppendIndex
  <1>7. t = [v EXCEPT !.acl = @ - 1,
                       !.out_q = Append(@, IFrame(u.tx[i].seq, s.final, u.req,
                                                  u.tx[i].segment))]
    BY DEF SendInformationFrame, Transmit
  <1>8. u.tx = s.tx /\ u.req = s.req
    BY <1>1 DEF Working
  <1>9. t = [v EXCEPT !.acl = @ - 1, !.out_q = Append(@, f)]
    BY <1>7, <1>8
  <1> HIDE DEF f, t
  <1>10. /\ t.unacked = s.unacked /\ t.send = s.send /\ t.flags = s.flags
         /\ t.tx = [s.tx EXCEPT ![i].state = "sent"] /\ t.out_q = Append(s.out_q, f)
    BY <1>1, <1>9 DEF Working
  <1>11. Keeps(s, t) /\ SameRing(s, t)
    BY <1>1, <1>9 DEF Working, Keeps, SameRing
  <1>12. t \in Working
    BY <1>1, <1>4, <1>5, <1>6, <1>9 DEF Working
  <1>13. "srej" \in t.flags => h
    BY <1>10 DEF SendSide
  <1>14. a = 0 => /\ i < t.unacked /\ t.send <= t.unacked
                  /\ t.unacked # s.unacked => i = s.unacked
    <2> SUFFICES ASSUME a = 0 PROVE i < s.unacked /\ s.send <= s.unacked
      BY <1>10
    <2>1. (s.tx[i].state = "new" <=> s.unacked <= i) /\ s.send <= s.unacked
      BY <1>1 DEF Early
    <2>2. i \in Nat
      BY SlotNat
    <2> QED BY <1>1, <2>1, <2>2
  <1>15. SendSide(t, str, a, h)
    BY <1>1, <1>2, <1>10, <1>11, <1>12, <1>13, <1>14, SlotSent DEF f
  <1>16. Sends(s, t)
    BY <1>10, <1>11 DEF Sends, SameRing
  <1> QED BY <1>15, <1>16 DEF t

\* l2cap_run_for_classic_channel_ertm
LEMMA RunErtmSide ==
    ASSUME NEW s, NEW str, NEW a, NEW h, SendSide(s, str, a, h), str \in Seq(Segment),
           a \in Nat
    PROVE  SendSide(RunErtm(s), str, a, h) /\ Sends(s, RunErtm(s))
  <1> DEFINE r == RunErtm(s)
             F == s.flags
             Sound(t) == SendSide(t, str, a, h) /\ Sends(s, t)
             t1 == [s EXCEPT !.flags = @ \ {"rr"}, !.final = FALSE]
             t2 == [s EXCEPT !.flags = @ \ {"poll"}]
             t3 == [s EXCEPT !.flags = @ \ {"rnr"}]
             t4 == [s EXCEPT !.flags = @ \ {"rej"}]
             t5 == [s EXCEPT !.flags = {}, !.final = FALSE]
             f1 == SFrame("RR", FALSE, s.final, s.req)
             f2 == SFrame("RR", TRUE, FALSE, s.req)
             f3 == SFrame("RNR", FALSE, FALSE, s.req)
             f4 == SFrame("REJ", FALSE, FALSE, s.req)
             f5 == SFrame("SREJ", FALSE, s.final, s.expect)
             again == { i \in TxIndex : s.tx[i].state = "again" }
             t6 == IF again = {} THEN [s EXCEPT !.active = FALSE]
                   ELSE SendInformationFrame([s EXCEPT !.final = FALSE], Min(again), s.final)
             p1 == "rr" \in F
             p2 == F \cap {"rr", "poll"} = {"poll"}
             p3 == F \cap {"rr", "poll", "rnr"} = {"rnr"}
             p4 == F \ {"srej"} = {"rej"}
             p5 == F = {"srej"}
             p6 == F = {} /\ s.active
  <1>1. s \in Working /\ s.expect = s.req /\ s.req \in SeqNr
    BY SideFacts
  <1>2. s.final \in BOOLEAN /\ F \in SUBSET Flag
    BY <1>1 DEF Working
  <1>3. Sound(s)
    BY DEF Keeps, Sends
  <1>4. CASE ~CanSend(s)
    BY <1>3, <1>4 DEF RunErtm
  <1>5. CASE CanSend(s)
    <2>1. r = CASE p1 -> Transmit(t1, f1) [] p2 -> Transmit(t2, f2) [] p3 -> Transmit(t3, f3)
                [] p4 -> Transmit(t4, f4) [] p5 -> Transmit(t5, f5) [] p6 -> t6 [] OTHER -> s
      BY <1>5, Zenon DEF RunErtm
    <2>2. /\ p1 => ~p2 /\ ~p3 /\ ~p4 /\ ~p5 /\ ~p6
          /\ p2 => ~p1 /\ ~p3 /\ ~p4 /\ ~p5 /\ ~p6
          /\ p3 => ~p1 /\ ~p2 /\ ~p4 /\ ~p5 /\ ~p6
          /\ p4 => ~p1 /\ ~p2 /\ ~p3 /\ ~p5 /\ ~p6
          /\ p5 => ~p1 /\ ~p2 /\ ~p3 /\ ~p4 /\ ~p6
          /\ p6 => ~p1 /\ ~p2 /\ ~p3 /\ ~p4 /\ ~p5
      <3>1. p2 => "poll" \in F /\ "rr" \notin F
        OBVIOUS
      <3>2. p3 => "rnr" \in F /\ "rr" \notin F /\ "poll" \notin F
        OBVIOUS
      <3>3. p4 => "rej" \in F /\ "rr" \notin F /\ "poll" \notin F /\ "rnr" \notin F
        OBVIOUS
      <3>4. p5 => /\ "srej" \in F /\ "rr" \notin F /\ "poll" \notin F /\ "rnr" \notin F
                  /\ "rej" \notin F
        OBVIOUS
      <3>5. p6 => /\ "srej" \notin F /\ "rr" \notin F /\ "poll" \notin F /\ "rnr" \notin F
                  /\ "rej" \notin F
        OBVIOUS
      <3> HIDE DEF p2, p3, p4, p5, p6
      <3> QED BY <3>1, <3>2, <3>3, <3>4, <3>5
    <2>3. /\ f1 \in Frame /\ f2 \in Frame /\ f3 \in Frame /\ f4 \in Frame /\ f5 \in Frame
          /\ f1.req = s.req /\ f2.req = s.req /\ f3.req = s.req /\ f4.req = s.req
          /\ f5.req = s.req
          /\ f1.type = "RR" /\ f2.type = "RR" /\ f3.type = "RNR" /\ f4.type = "REJ"
          /\ f5.type = "SREJ"
      BY <1>1, <1>2 DEF SFrame, Frame
    <2>4. /\ t1 \in Working /\ t2 \in Working /\ t3 \in Working /\ t4 \in Working
          /\ t5 \in Working
      BY <1>1, ZenonT(60) DEF Working
    <2>5. /\ CanSend(t1) /\ CanSend(t2) /\ CanSend(t3) /\ CanSend(t4) /\ CanSend(t5)
          /\ t1.flags \subseteq F /\ t2.flags \subseteq F /\ t3.flags \subseteq F
          /\ t4.flags \subseteq F /\ t5.flags \subseteq F
      BY <1>1, <1>5 DEF Working, CanSend
    <2>6. /\ SameSending(s, t1) /\ Keeps(s, t1) /\ SameSending(s, t2) /\ Keeps(s, t2)
          /\ SameSending(s, t3) /\ Keeps(s, t3) /\ SameSending(s, t4) /\ Keeps(s, t4)
          /\ SameSending(s, t5) /\ Keeps(s, t5)
      BY <1>1 DEF Working, SameSending, SameRing, Keeps
    <2>7. p5 => "srej" \in F
      OBVIOUS
    <2>8. Sound(t6)
      <3>1. CASE again = {}
        <4>1. [s EXCEPT !.active = FALSE] \in Working
          BY <1>1 DEF Working
        <4>2. /\ SameSending(s, [s EXCEPT !.active = FALSE])
              /\ Sends(s, [s EXCEPT !.active = FALSE])
              /\ [s EXCEPT !.active = FALSE].flags = s.flags
          BY <1>1 DEF Working, SameSending, SameRing, Keeps, Sends
        <4>3. "srej" \in s.flags => h
          BY DEF SendSide
        <4> QED BY <3>1, <4>1, <4>2, <4>3, SameSide
      <3>2. CASE again # {}
        <4>1. again \in SUBSET Nat
          BY SlotNat
        <4>2. Min(again) \in again
          BY <3>2, <4>1, SmallestElement
        <4>3. Min(again) \in TxIndex /\ s.tx[Min(again)].state = "again"
          BY <4>2
        <4> HIDE DEF again
        <4> QED BY <1>5, <3>2, <4>3, AgainSide
      <3> QED BY <3>1, <3>2
    <2> HIDE DEF p1, p2, p3, p4, p5, p6, t1, t2, t3, t4, t5, t6, f1, f2, f3, f4, f5, r
    <2>9. /\ Sound(Transmit(t1, f1)) /\ Sound(Transmit(t2, f2)) /\ Sound(Transmit(t3, f3))
          /\ Sound(Transmit(t4, f4)) /\ (p5 => Sound(Transmit(t5, f5)))
      BY <2>3, <2>4, <2>5, <2>6, <2>7, FlagSent
    <2>10. \/ r = Transmit(t1, f1) \/ r = Transmit(t2, f2) \/ r = Transmit(t3, f3)
           \/ r = Transmit(t4, f4) \/ (p5 /\ r = Transmit(t5, f5)) \/ r = t6 \/ r = s
      BY <2>1, <2>2, Zenon
    <2>11. Sound(r)
      <3> HIDE DEF Sound
      <3> QED BY <1>3, <2>8, <2>9, <2>10
    <2> QED BY <2>11 DEF r
  <1> QED BY <1>4, <1>5

-----------------------------------------------------------------------------
(* Acknowledgements and recovery *)

\* l2cap_ertm_retransmit_unacknowledged_frames
LEMMA RetransmitSide ==
    ASSUME NEW s, NEW str, NEW a, NEW h, SendSide(s, str, a, h), str \in Seq(Segment),
           a \in Nat
    PROVE  /\ SendSide(Retransmit(s), str, a, h) /\ Keeps(s, Retransmit(s))
           /\ Retransmit(s).num = s.num /\ Retransmit(s).unacked = s.unacked
           /\ Retransmit(s).flags = s.flags /\ Retransmit(s).out_q = s.out_q
  <1> DEFINE t == Retransmit(s)
             n == Len(str)
             low == n - s.num
  <1>1. /\ s \in Working /\ s.tx \in [TxIndex -> TxBuffer] /\ s.read \in TxIndex
        /\ s.num \in Nat /\ s.unacked \in Nat /\ s.unacked <= s.num /\ s.num <= n
        /\ n \in Nat /\ s.read = low % NumTx
        /\ a = 0 => Early(s) /\ s.read = 0
    BY SideFacts
  <1> DEFINE X == [i \in TxIndex |-> IF i \in Unacknowledged(s)
                                     THEN [s.tx[i] EXCEPT !.state = "again"] ELSE s.tx[i]]
  <1>2. t = [s EXCEPT !.send = s.read, !.tx = X]
    BY DEF Retransmit
  <1>3. X \in [TxIndex -> TxBuffer]
    BY <1>1 DEF TxBuffer
  <1>4. \A i \in TxIndex : /\ X[i].seq = s.tx[i].seq /\ X[i].segment = s.tx[i].segment
                           /\ X[i].state = IF i \in Unacknowledged(s) THEN "again"
                                           ELSE s.tx[i].state
    BY <1>1 DEF TxBuffer
  <1>5. ASSUME NEW i \in Unacknowledged(s) PROVE i < n /\ (a = 0 => i < s.unacked)
    <2>1. PICK k \in 0..(s.unacked - 1) : i = (s.read + k) % NumTx
      BY DEF Unacknowledged
    <2>2. k \in Nat /\ low \in Int /\ k < s.unacked /\ low + k < n /\ low + k \in Nat
      BY <1>1, <2>1
    <2>3. (s.read + k) % NumTx = (low + k) % NumTx
      <3> HIDE DEF low
      <3>1. low \in Int /\ k \in Int /\ s.read = low % NumTx
        BY <1>1, <2>2
      <3> QED BY <3>1, ModAdd, Sizes, ZenonT(60)
    <2>4. (low + k) % NumTx <= low + k /\ (low + k) % NumTx \in Nat
      <3>1. low + k \in Int
        BY <2>2
      <3> QED BY <2>2, <3>1, ModBelow, NumberRange, SlotNat, Sizes
    <2>5. a = 0 => i <= k
      <3>1. a = 0 => s.read + k = k
        BY <1>1, <2>2
      <3>2. k % NumTx <= k
        BY <2>2, ModBelow, Sizes
      <3> QED BY <2>1, <3>1, <3>2
    <2>6. i \in Nat
      BY <2>1, <2>3, <2>4
    <2>7. i <= low + k
      BY <2>1, <2>3, <2>4
    <2> HIDE DEF low, n
    <2>8. i < n
      BY <1>1, <2>2, <2>6, <2>7 DEF low
    <2> QED BY <1>1, <2>2, <2>5, <2>6, <2>8
  <1>6. \A i \in TxIndex : i \in Unacknowledged(s) => s.unacked > 0 /\ i < n
    BY <1>1, <1>5 DEF Unacknowledged
  <1> HIDE DEF X, t
  <1>7. /\ t.tx = X /\ t.send = s.read /\ t.flags = s.flags /\ t.unacked = s.unacked
        /\ t.out_q = s.out_q /\ Keeps(s, t) /\ SameRing(s, t)
    BY <1>1, <1>2 DEF Working, Keeps, SameRing
  <1>8. t \in Working
    BY <1>1, <1>2, <1>3 DEF Working
  <1>9. Ring(t, n) /\ Slots(t, str) /\ Unused(t, n)
    <2>1. Ring(t, n)
      BY <1>7 DEF SendSide, Ring, SameRing
    <2>2. Slots(t, str)
      <3>1. Slots(s, str) /\ \A j \in 0..(n - 1) : j % NumTx \in TxIndex
        BY NumberRange DEF SendSide
      <3> QED BY <1>4, <1>7, <3>1 DEF Slots
    <2>3. Unused(t, n)
      <3>1. Unused(s, n)
        BY DEF SendSide
      <3>2. ASSUME NEW i \in TxIndex, n <= i PROVE i \notin Unacknowledged(s)
        BY <1>1, <1>5, <3>2, SlotNat
      <3> QED BY <1>4, <1>7, <3>1, <3>2 DEF Unused
    <2> QED BY <2>1, <2>2, <2>3
  <1>10. a = 0 => Early(t)
    <2> SUFFICES ASSUME a = 0 PROVE Early(t)
      OBVIOUS
    <2>1. Early(s) /\ s.read = 0
      BY <1>1
    <2>2. ASSUME NEW i \in TxIndex PROVE X[i].state = "new" <=> s.unacked <= i
      <3>1. CASE i \in Unacknowledged(s)
        <4>1. i < s.unacked /\ X[i].state = "again" /\ i \in Nat
          BY <1>4, <1>5, <3>1, SlotNat
        <4> QED BY <1>1, <4>1
      <3>2. CASE i \notin Unacknowledged(s)
        BY <1>4, <2>1, <3>2 DEF Early
      <3> QED BY <3>1, <3>2
    <2>3. s.read <= s.unacked
      BY <1>1, <2>1
    <2> QED BY <1>7, <2>2, <2>3 DEF Early
  <1>11. \A p \in 1..Len(t.out_q) : Fresh(t.out_q[p], t, str, a, h)
    <2>1. \A p \in 1..Len(s.out_q) : Fresh(s.out_q[p], s, str, a, h)
      BY DEF SendSide
    <2> QED BY <1>7, <2>1, FreshKept DEF SameRing
  <1>12. SendSide(t, str, a, h)
    BY <1>7, <1>8, <1>9, <1>10, <1>11 DEF SendSide, SameRing
  <1> QED BY <1>7, <1>12 DEF t, SameRing

\* l2cap_ertm_process_req_seq finds out how many frames are acknowledged from
\* sequence numbers only.
LEMMA FreedFrames ==
    ASSUME NEW s, NEW str, NEW a, NEW h, SendSide(s, str, a, h), str \in Seq(Segment),
           a \in Nat, NEW b \in Nat, Len(str) - s.num <= b, b <= a
    PROVE  LET delta == ((b % SeqModulus) - s.tx[s.read].seq) % SeqModulus
               k     == IF delta > Window THEN 0 ELSE Min({delta, s.unacked})
           IN  /\ k \in Nat /\ k <= s.unacked
               /\ k <= b - (Len(str) - s.num)
  <1> DEFINE n == Len(str)
             low == n - s.num
             delta == ((b % SeqModulus) - s.tx[s.read].seq) % SeqModulus
             k == IF delta > Window THEN 0 ELSE Min({delta, s.unacked})
  <1>1. /\ s.tx \in [TxIndex -> TxBuffer] /\ s.read \in TxIndex
        /\ s.num \in Nat /\ s.unacked \in Nat /\ s.unacked <= s.num /\ s.num <= n
        /\ s.num <= NumTx /\ n \in Nat /\ s.read = low % NumTx /\ a <= n
    BY SideFacts
  <1>2. s.tx[s.read].seq \in SeqNr
    BY <1>1 DEF TxBuffer
  <1>3. b % SeqModulus \in SeqNr
    BY NumberRange
  <1>4. delta \in Nat
    <2>1. (b % SeqModulus) - s.tx[s.read].seq \in Int
      BY <1>2, <1>3, Sizes DEF SeqNr
    <2>2. delta \in 0..(SeqModulus - 1)
      BY <2>1, ModRange, Sizes
    <2> QED BY <2>2
  <1>5. Min({delta, s.unacked}) = IF delta <= s.unacked THEN delta ELSE s.unacked
    BY <1>1, <1>4, MinPair
  <1>6. low \in Nat /\ b - low \in Nat /\ b - low <= NumTx
    BY <1>1, Sizes
  <1>7. CASE s.unacked = 0
    <2> SUFFICES k \in Nat /\ k <= s.unacked /\ k <= b - low
      OBVIOUS
    <2>1. k = 0
      BY <1>1, <1>4, <1>5, <1>7
    <2> HIDE DEF k
    <2> QED BY <1>1, <1>6, <2>1
  <1>8. CASE s.unacked # 0
    <2> SUFFICES k \in Nat /\ k <= s.unacked /\ k <= b - low
      OBVIOUS
    <2>1. low \in 0..(n - 1) /\ n <= low + NumTx
      <3> DEFINE m == s.num
                 u == s.unacked
      <3>1. m \in Nat /\ u \in Nat /\ u # 0 /\ u <= m /\ m <= n /\ m <= NumTx /\ n \in Nat
        BY <1>1, <1>8
      <3>2. NumTx \in Nat
        BY Sizes
      <3> HIDE DEF m, u, n
      <3>3. n - m \in 0..(n - 1) /\ n <= (n - m) + NumTx
        BY <3>1, <3>2
      <3> QED BY <3>3 DEF m
    <2>2. s.tx[s.read].seq = low % SeqModulus
      <3>1. Slots(s, str)
        BY DEF SendSide
      <3> QED BY <1>1, <2>1, <3>1 DEF Slots
    <2>3. delta = (b - low) % SeqModulus
      <3> HIDE DEF low
      <3>1. low \in Int /\ b \in Int
        BY <1>6
      <3> QED BY <2>2, <3>1, ModDiff, Sizes, ZenonT(60)
    <2>4. (b - low) % SeqModulus = b - low
      <3>1. b - low \in 0..(SeqModulus - 1)
        BY <1>6, Sizes
      <3> QED BY <3>1, ModSmall, Sizes
    <2> HIDE DEF delta, low
    <2> QED BY <1>1, <1>4, <1>5, <1>6, <2>3, <2>4
  <1> QED BY <1>7, <1>8

\* l2cap_ertm_process_req_seq drops only frames that the peer took.
LEMMA ReqSide ==
    ASSUME NEW s, NEW str, NEW a, NEW h, SendSide(s, str, a, h), str \in Seq(Segment),
           a \in Nat, NEW b \in Nat, Len(str) - s.num <= b, b <= a
    PROVE  LET t == ProcessReqSeq(s, b % SeqModulus)
           IN  /\ SendSide(t, str, a, h) /\ Keeps(s, t)
               /\ Len(str) - t.num <= b /\ t.flags = s.flags /\ t.out_q = s.out_q
               /\ a = 0 => t.unacked = s.unacked
  <1> DEFINE n == Len(str)
             low == n - s.num
             delta == ((b % SeqModulus) - s.tx[s.read].seq) % SeqModulus
             k == IF delta > Window THEN 0 ELSE Min({delta, s.unacked})
             u == [s EXCEPT !.num = @ - k, !.unacked = @ - k,
                            !.read = (@ + k) % NumTx,
                            !.retrans = @ /\ k < s.unacked]
             t == ProcessReqSeq(s, b % SeqModulus)
  <1>1. /\ s \in Working /\ s.tx \in [TxIndex -> TxBuffer] /\ s.read \in TxIndex
        /\ s.num \in Nat /\ s.unacked \in Nat /\ s.unacked <= s.num /\ s.num <= n
        /\ s.num <= NumTx /\ n \in Nat /\ s.read = low % NumTx /\ a <= n
        /\ s.unacked <= Window /\ ~s.waiting /\ s.expect = s.req
        /\ a = 0 => Early(s) /\ s.num = n
    BY SideFacts
  <1>2. k \in Nat /\ k <= s.unacked /\ k <= b - low
    BY FreedFrames
  <1>3. t = IF k > 0 THEN NotifyApplication(u) ELSE u
    BY DEF ProcessReqSeq
  <1> HIDE DEF k, t
  <1>4. u.waiting = FALSE
    BY <1>1 DEF Working
  <1>5. /\ s.num - k \in 0..NumTx /\ s.unacked - k \in 0..NumTx
        /\ s.num - k \in Nat /\ s.unacked - k \in Nat
    <2>1. k \in Nat /\ k <= s.unacked /\ k <= s.num
      BY <1>1, <1>2
    <2>2. /\ NumTx \in Nat /\ s.num \in Nat /\ s.unacked \in Nat /\ s.num <= NumTx
          /\ s.unacked <= NumTx
      BY <1>1, Sizes
    <2> QED BY <2>1, <2>2, SMTT(40)
  <1>6. (s.read + k) % NumTx \in TxIndex /\ (s.read + k) % NumTx = (n - (s.num - k)) % NumTx
    <2>1. low \in Int /\ k \in Int
      BY <1>1, <1>2
    <2>2. low + k = n - (s.num - k)
      BY <1>1, <1>2
    <2> HIDE DEF low
    <2>3. (s.read + k) % NumTx = (low + k) % NumTx
      BY <1>1, <2>1, ModAdd, Sizes, ZenonT(60)
    <2>4. low + k \in Int
      BY <2>1
    <2> QED BY <2>2, <2>3, <2>4, NumberRange
  <1>7. u \in Working
    <2>1. (s.retrans /\ k < s.unacked) \in BOOLEAN
      OBVIOUS
    <2> QED BY <1>1, <1>5, <1>6, <2>1, ZenonT(60) DEF Working
  <1>8. /\ u.num = s.num - k /\ u.unacked = s.unacked - k /\ u.read = (s.read + k) % NumTx
        /\ u.tx = s.tx /\ u.send = s.send /\ u.flags = s.flags /\ u.out_q = s.out_q
        /\ u.write = s.write /\ u.next = s.next /\ Keeps(s, u)
    BY <1>1 DEF Working, Keeps
  <1> HIDE DEF u
  <1>9. NotifyApplication(u) = [u EXCEPT !.waiting = FALSE]
    BY <1>4, <1>7 DEF NotifyApplication, Working
  <1>10. /\ t \in Working /\ t.waiting = FALSE
         /\ t.num = s.num - k /\ t.unacked = s.unacked - k /\ t.read = (s.read + k) % NumTx
         /\ t.tx = s.tx /\ t.send = s.send /\ t.flags = s.flags /\ t.out_q = s.out_q
         /\ t.write = s.write /\ t.next = s.next /\ Keeps(s, t)
    <2>1. CASE t = u
      BY <1>4, <1>7, <1>8, <2>1
    <2>2. CASE t = [u EXCEPT !.waiting = FALSE]
      BY <1>7, <1>8, <2>2 DEF Working, Keeps
    <2> QED BY <1>3, <1>9, <2>1, <2>2
  <1>11. n - t.num <= b
    BY <1>1, <1>2, <1>10
  <1>12. Ring(t, n)
    <2>1. Ring(s, n)
      BY DEF SendSide
    <2>2. t.num <= n
      BY <1>1, <1>2, <1>10
    <2>3. t.read = (n - t.num) % NumTx
      BY <1>6, <1>10
    <2> QED BY <1>10, <2>1, <2>2, <2>3 DEF Ring
  <1>13. Slots(t, str) /\ Unused(t, n)
    BY <1>10 DEF SendSide, Slots, Unused
  <1>14. a = 0 => k = 0
    BY <1>1, <1>2
  <1>15. a = 0 => t.unacked = s.unacked
    BY <1>1, <1>10, <1>14
  <1>16. a = 0 => Early(t)
    BY <1>1, <1>10, <1>15 DEF Early
  <1>17. \A p \in 1..Len(t.out_q) : Fresh(t.out_q[p], t, str, a, h)
    <2>1. \A p \in 1..Len(s.out_q) : Fresh(s.out_q[p], s, str, a, h)
      BY DEF SendSide
    <2> QED BY <1>10, <1>15, <2>1, FreshKept DEF Keeps
  <1>18. t.unacked <= t.num /\ t.unacked <= Window /\ n - t.num <= a
    <2>1. t.num = s.num - k /\ t.unacked = s.unacked - k
      BY <1>10
    <2>2. /\ s.unacked <= s.num /\ s.unacked <= Window /\ Window \in Nat /\ n \in Nat
          /\ s.num \in Nat /\ s.unacked \in Nat /\ k \in Nat
      BY <1>1, <1>2, Sizes
    <2> QED BY <1>11, <2>1, <2>2
  <1>19. "srej" \in t.flags => h
    BY <1>10 DEF SendSide
  <1>20. t.expect = t.req
    BY <1>1, <1>10 DEF Keeps
  <1>21. SendSide(t, str, a, h)
    BY <1>1, <1>10, <1>12, <1>13, <1>16, <1>17, <1>18, <1>19, <1>20 DEF SendSide
  <1> QED BY <1>10, <1>11, <1>15, <1>21 DEF t

\* f asks for a frame the peer took, or for the one it expects.
Asks(f, a) == \E b \in Nat : b <= a /\ f.req = b % SeqModulus

\* The state of a frame is set to be sent again, by SREJ.
LEMMA SrejSide ==
    ASSUME NEW s, NEW str, NEW a, NEW h, NEW f, SendSide(s, str, a, h),
           str \in Seq(Segment), a \in Nat, Len(str) > 0, a = 0 => s.unacked > 0,
           Asks(f, a)
    PROVE  LET t == HandleSrej(s, f)
           IN  /\ SendSide(t, str, a, h) /\ Keeps(s, t)
               /\ t.num = s.num /\ t.unacked = s.unacked /\ t.flags = s.flags
  <1> DEFINE n == Len(str)
             found == { i \in TxIndex : s.tx[i].seq = f.req }
             m == Min(found)
             t == [s EXCEPT !.final = FALSE, !.active = TRUE, !.tx[m].state = "again"]
  <1>0. PICK b \in Nat : b <= a /\ f.req = b % SeqModulus
    BY DEF Asks
  <1> USE <1>0
  <1>1. /\ s \in Working /\ s.tx \in [TxIndex -> TxBuffer] /\ s.read \in TxIndex
        /\ s.num \in Nat /\ s.unacked \in Nat /\ s.unacked <= s.num /\ s.num <= n
        /\ n \in Nat /\ s.num <= NumTx
        /\ a = 0 => Early(s) /\ s.num = n
    BY SideFacts
  <1>2. HandleSrej(s, f) = IF found = {} THEN s ELSE t
    BY DEF HandleSrej
  <1>3. CASE found = {}
    BY <1>2, <1>3 DEF Keeps
  <1>4. CASE found # {}
    <2>1. m \in found /\ \A k \in found : m <= k
      <3>1. found \in SUBSET Nat
        BY SlotNat
      <3> HIDE DEF found
      <3> QED BY <1>4, <3>1, SmallestElement
    <2>2. m \in TxIndex /\ s.tx[m].seq = f.req /\ m \in Nat
      BY <2>1, SlotNat
    <2>3. \A k \in TxIndex : s.tx[k].seq = f.req => m <= k
      BY <2>1
    <2> HIDE DEF m, found
    <2> DEFINE X == [s.tx EXCEPT ![m].state = "again"]
    <2>4. X \in [TxIndex -> TxBuffer]
      BY <1>1 DEF TxBuffer
    <2>5. \A i \in TxIndex : /\ X[i].seq = s.tx[i].seq /\ X[i].segment = s.tx[i].segment
                             /\ X[i].state = IF i = m THEN "again" ELSE s.tx[i].state
      BY <1>1 DEF TxBuffer
    <2>6. t = [s EXCEPT !.final = FALSE, !.active = TRUE, !.tx = X]
      BY <1>1 DEF Working
    <2> HIDE DEF X, t
    <2>7. /\ t.tx = X /\ t.send = s.send /\ t.flags = s.flags /\ t.unacked = s.unacked
          /\ t.out_q = s.out_q /\ Keeps(s, t) /\ SameRing(s, t)
      BY <1>1, <2>6 DEF Working, Keeps, SameRing
    <2>8. t \in Working
      BY <1>1, <2>4, <2>6 DEF Working
    <2>9. n > 0 /\ (a = 0 => s.unacked > 0)
      BY DEF Heard
    <2>10. n <= NumTx => s.tx[0].seq = 0 /\ 0 \in TxIndex
      <3> SUFFICES ASSUME n <= NumTx PROVE s.tx[0].seq = 0 /\ 0 \in TxIndex
        OBVIOUS
      <3>1. 0 \in 0..(n - 1) /\ n <= 0 + NumTx /\ 0 \in TxIndex
        BY <1>1, <2>9, Sizes DEF TxIndex
      <3>2. 0 % NumTx = 0 /\ 0 % SeqModulus = 0
        BY ModSmall, Sizes
      <3>3. Slots(s, str)
        BY DEF SendSide
      <3>4. s.tx[0 % NumTx].seq = 0 % SeqModulus
        BY <3>1, <3>3 DEF Slots
      <3> QED BY <3>1, <3>2, <3>4
    <2>11. m < n
      <3> SUFFICES ASSUME n <= m PROVE FALSE
        BY <1>1, <2>2
      <3>1. s.tx[m].seq = 0
        BY <2>2 DEF SendSide, Unused
      <3>2. n <= NumTx
        BY <1>1, <2>2, SlotNat, Sizes
      <3>3. m <= 0
        BY <2>2, <2>3, <2>10, <3>1, <3>2
      <3> QED BY <1>1, <2>2, <2>9, <3>3
    <2>12. a = 0 => m < s.unacked
      <3> SUFFICES ASSUME a = 0 PROVE m < s.unacked
        OBVIOUS
      <3>1. f.req = 0
        <4>1. b = 0 /\ 0 % SeqModulus = 0
          BY ModSmall, Sizes
        <4> QED BY <4>1
      <3>2. m <= 0
        BY <1>1, <2>3, <2>10, <3>1
      <3> QED BY <1>1, <2>2, <2>9, <3>2
    <2>13. Ring(t, n)
      BY <2>7 DEF SendSide, Ring, SameRing
    <2>14. Slots(t, str)
      <3>1. Slots(s, str) /\ \A j \in 0..(n - 1) : j % NumTx \in TxIndex
        BY NumberRange DEF SendSide
      <3> QED BY <2>5, <2>7, <3>1 DEF Slots
    <2>15. Unused(t, n)
      <3>1. Unused(s, n)
        BY DEF SendSide
      <3>2. ASSUME NEW i \in TxIndex, n <= i PROVE i # m
        BY <1>1, <2>2, <2>11, <3>2, SlotNat
      <3> QED BY <2>5, <2>7, <3>1, <3>2 DEF Unused
    <2>16. a = 0 => Early(t)
      <3> SUFFICES ASSUME a = 0 PROVE Early(t)
        OBVIOUS
      <3>1. Early(s) /\ m < s.unacked
        BY <1>1, <2>12
      <3>2. ASSUME NEW i \in TxIndex PROVE X[i].state = "new" <=> s.unacked <= i
        <4>1. CASE i = m
          BY <1>1, <2>2, <2>5, <3>1, <4>1
        <4>2. CASE i # m
          BY <2>5, <3>1, <4>2 DEF Early
        <4> QED BY <4>1, <4>2
      <3> QED BY <2>7, <3>1, <3>2 DEF Early
    <2>17. \A p \in 1..Len(t.out_q) : Fresh(t.out_q[p], t, str, a, h)
      <3>1. \A p \in 1..Len(s.out_q) : Fresh(s.out_q[p], s, str, a, h)
        BY DEF SendSide
      <3> QED BY <2>7, <3>1, FreshKept DEF SameRing
    <2>18. SendSide(t, str, a, h)
      BY <2>7, <2>8, <2>13, <2>14, <2>15, <2>16, <2>17 DEF SendSide, SameRing
    <2> QED BY <1>2, <1>4, <2>7, <2>18 DEF SameRing
  <1> QED BY <1>3, <1>4

-----------------------------------------------------------------------------
(* Frames under way *)

\* Where the elements of a sequence without its first one, and of two sequences
\* put together, come from
LEMMA TailIndex ==
    ASSUME NEW S, NEW w \in Seq(S), w # << >>
    PROVE  /\ Tail(w) \in Seq(S) /\ Len(Tail(w)) = Len(w) - 1 /\ Head(w) = w[1]
           /\ 1 \in 1..Len(w) /\ Head(w) \in S /\ Len(w) \in Nat
           /\ \A p \in 1..Len(Tail(w)) : p + 1 \in 1..Len(w) /\ Tail(w)[p] = w[p + 1]
  OBVIOUS

\* The elements of two sequences put together
LEMMA ConcatIndex ==
    ASSUME NEW S, NEW w \in Seq(S), NEW q \in Seq(S)
    PROVE  /\ w \o q \in Seq(S) /\ Len(w \o q) = Len(w) + Len(q)
           /\ Len(w) \in Nat /\ Len(q) \in Nat
           /\ \A p \in 1..Len(w) : (w \o q)[p] = w[p]
           /\ \A p \in 1..(Len(w) + Len(q)) :
                  p > Len(w) => p - Len(w) \in 1..Len(q) /\ (w \o q)[p] = q[p - Len(w)]
  OBVIOUS

\* The first frame is taken: what it carries, and what is known of the others then
LEMMA NumberedHead ==
    ASSUME NEW w \in Seq(Frame), w # << >>, NEW str \in Seq(Segment), NEW a \in Nat,
           NEW reach \in Nat, Numbered(w, str, a, reach)
    PROVE  /\ Numbered(Tail(w), str, a, reach)
           /\ Head(w).type = "I" =>
                \E i \in Nat :
                    /\ Placed(Head(w), i, str, a, reach)
                    /\ \A a2, r2 \in Nat :
                            a <= a2 /\ (r2 <= reach \/ r2 <= i + 1)
                                => Numbered(Tail(w), str, a2, r2)
  <1> DEFINE v == Tail(w)
  <1>1. /\ v \in Seq(Frame) /\ Len(v) = Len(w) - 1 /\ Head(w) = w[1]
        /\ 1 \in 1..Len(w) /\ Len(w) \in Nat
        /\ \A p \in 1..Len(v) : p + 1 \in 1..Len(w) /\ v[p] = w[p + 1]
    BY TailIndex
  <1>2. PICK nr \in [1..Len(w) -> Nat] :
        /\ \A p \in 1..Len(w) : w[p].type = "I" => Placed(w[p], nr[p], str, a, reach)
        /\ \A p, q \in 1..Len(w) :
                (p < q /\ w[p].type = "I" /\ w[q].type = "I") => nr[p] < nr[q] + NumTx
    BY DEF Numbered
  <1> DEFINE e == [p \in 1..Len(v) |-> nr[p + 1]]
  <1> HIDE DEF v
  <1>3. e \in [1..Len(v) -> Nat]
    BY <1>1
  <1>4. \A p \in 1..Len(v) : e[p] = nr[p + 1]
    BY <1>1
  <1> HIDE DEF e
  <1>5. ASSUME NEW p \in 1..Len(v), NEW q \in 1..Len(v), p < q, v[p].type = "I",
               v[q].type = "I"
        PROVE  e[p] < e[q] + NumTx
    <2>1. p + 1 \in 1..Len(w) /\ q + 1 \in 1..Len(w) /\ p + 1 < q + 1
      BY <1>1, <1>5
    <2>2. w[p + 1].type = "I" /\ w[q + 1].type = "I"
      BY <1>1, <1>5
    <2>3. nr[p + 1] < nr[q + 1] + NumTx
      BY <1>2, <2>1, <2>2
    <2> QED BY <1>4, <2>3
  <1>6. ASSUME NEW p \in 1..Len(v), v[p].type = "I" PROVE Placed(v[p], e[p], str, a, reach)
    <2>1. p + 1 \in 1..Len(w) /\ v[p] = w[p + 1] /\ w[p + 1].type = "I"
      BY <1>1, <1>6
    <2> QED BY <1>2, <1>4, <2>1
  <1>7. Numbered(v, str, a, reach)
    BY <1>3, <1>5, <1>6 DEF Numbered
  <1>8. ASSUME w[1].type = "I", NEW a2 \in Nat, NEW r2 \in Nat, a <= a2,
               r2 <= reach \/ r2 <= nr[1] + 1
        PROVE  Numbered(v, str, a2, r2)
    <2>1. ASSUME NEW p \in 1..Len(v), v[p].type = "I" PROVE Placed(v[p], e[p], str, a2, r2)
      <3>1. Placed(v[p], e[p], str, a, reach)
        BY <1>6, <2>1
      <3>2. nr[1] < e[p] + NumTx
        <4>1. p + 1 \in 1..Len(w) /\ 1 < p + 1 /\ w[p + 1].type = "I"
          BY <1>1, <2>1
        <4> QED BY <1>1, <1>2, <1>4, <1>8, <4>1
      <3> DEFINE i == e[p]
                 k == nr[1]
      <3>3. i \in Nat /\ k \in Nat /\ NumTx \in Nat
        BY <1>1, <1>3, Sizes
      <3>4. i < a + NumTx /\ reach <= i + NumTx /\ k < i + NumTx /\ (r2 <= reach \/ r2 <= k + 1)
        BY <1>8, <3>1, <3>2 DEF Placed
      <3> HIDE DEF i, k
      <3>5. i < a2 + NumTx /\ r2 <= i + NumTx /\ (a2 <= i => a <= i)
        BY <1>8, <3>3, <3>4
      <3> QED BY <3>1, <3>5 DEF Placed, i
    <2> QED BY <1>3, <1>5, <2>1 DEF Numbered
  <1>9. nr[1] \in Nat
    BY <1>1
  <1>10. w[1].type = "I" =>
            /\ Placed(w[1], nr[1], str, a, reach)
            /\ \A a2, r2 \in Nat :
                  a <= a2 /\ (r2 <= reach \/ r2 <= nr[1] + 1) => Numbered(v, str, a2, r2)
    BY <1>1, <1>2, <1>8
  <1> QED BY <1>1, <1>7, <1>9, <1>10 DEF v

\* Frames of the last step are put behind the others.
LEMMA NumberedExtend ==
    ASSUME NEW w \in Seq(Frame), NEW q \in Seq(Frame), NEW str \in Seq(Segment),
           NEW a \in Nat, NEW reach \in Nat, Numbered(w, str, a, reach),
           Len(str) <= a + NumTx, reach <= Len(str),
           \A p \in 1..Len(q) : q[p].type = "I" => Carries(q[p], str, a)
    PROVE  Numbered(w \o q, str, a, reach)
  <1> DEFINE v == w \o q
             n == Len(str)
  <1>1. /\ v \in Seq(Frame) /\ Len(v) = Len(w) + Len(q)
        /\ Len(w) \in Nat /\ Len(q) \in Nat
        /\ \A p \in 1..Len(w) : v[p] = w[p]
        /\ \A p \in 1..(Len(w) + Len(q)) :
               p > Len(w) => p - Len(w) \in 1..Len(q) /\ v[p] = q[p - Len(w)]
    BY ConcatIndex
  <1>2. PICK nr \in [1..Len(w) -> Nat] :
        /\ \A p \in 1..Len(w) : w[p].type = "I" => Placed(w[p], nr[p], str, a, reach)
        /\ \A p, r \in 1..Len(w) :
                (p < r /\ w[p].type = "I" /\ w[r].type = "I") => nr[p] < nr[r] + NumTx
    BY DEF Numbered
  <1>0. n \in Nat /\ NumTx \in Nat
    BY Sizes
  <1> HIDE DEF v
  <1> DEFINE Right(f, i) == Placed(f, i, str, a, reach) /\ n <= i + NumTx
             c == [p \in 1..Len(q) |-> IF q[p].type = "I"
                                       THEN CHOOSE i \in Nat : Right(q[p], i) ELSE 0]
             e == [p \in 1..Len(v) |-> IF p <= Len(w) THEN nr[p] ELSE c[p - Len(w)]]
  <1>3. ASSUME NEW p \in 1..Len(q)
        PROVE  c[p] \in Nat /\ (q[p].type = "I" => Right(q[p], c[p]))
    <2>1. CASE q[p].type = "I"
      <3>1. PICK i \in 0..(n - 1) : /\ n <= i + NumTx /\ q[p].seq = i % SeqModulus
                                    /\ a <= i => q[p].segment = str[i + 1]
        BY <2>1 DEF Carries
      <3>2. i \in Nat /\ i < n /\ i < a + NumTx /\ reach <= i + NumTx
        BY <1>0, <3>1
      <3>3. Right(q[p], i)
        BY <3>1, <3>2 DEF Placed
      <3> HIDE DEF Right
      <3>4. \E k \in Nat : Right(q[p], k)
        BY <3>2, <3>3
      <3>5. (CHOOSE k \in Nat : Right(q[p], k)) \in Nat
            /\ Right(q[p], CHOOSE k \in Nat : Right(q[p], k))
        BY <3>4
      <3> QED BY <2>1, <3>5
    <2>2. CASE q[p].type # "I"
      BY <2>2
    <2> QED BY <2>1, <2>2
  <1> HIDE DEF c, Right
  <1>4. ASSUME NEW p \in 1..Len(v)
        PROVE  \/ p \in 1..Len(w) /\ p <= Len(w) /\ v[p] = w[p]
               \/ p - Len(w) \in 1..Len(q) /\ p > Len(w) /\ ~(p <= Len(w)) /\ v[p] = q[p - Len(w)]
    BY <1>1
  <1>5. e \in [1..Len(v) -> Nat]
    <2>1. ASSUME NEW p \in 1..Len(v) PROVE (IF p <= Len(w) THEN nr[p] ELSE c[p - Len(w)]) \in Nat
      BY <1>3, <1>4
    <2> QED BY <2>1
  <1>6. \A p \in 1..Len(v) : e[p] = IF p <= Len(w) THEN nr[p] ELSE c[p - Len(w)]
    OBVIOUS
  <1> HIDE DEF e
  <1>7. ASSUME NEW p \in 1..Len(v), v[p].type = "I"
        PROVE  /\ Placed(v[p], e[p], str, a, reach)
               /\ p > Len(w) => n <= e[p] + NumTx
    <2>1. CASE p \in 1..Len(w) /\ p <= Len(w) /\ v[p] = w[p]
      <3>1. e[p] = nr[p] /\ ~(p > Len(w))
        BY <1>1, <1>6, <2>1
      <3> QED BY <1>2, <1>7, <2>1, <3>1
    <2>2. CASE p - Len(w) \in 1..Len(q) /\ p > Len(w) /\ ~(p <= Len(w)) /\ v[p] = q[p - Len(w)]
      <3>1. e[p] = c[p - Len(w)]
        BY <1>6, <2>2
      <3>2. Right(v[p], e[p])
        BY <1>3, <1>7, <2>2, <3>1
      <3> QED BY <3>2 DEF Right
    <2> QED BY <1>4, <2>1, <2>2
  <1>8. ASSUME NEW p \in 1..Len(v), NEW r \in 1..Len(v), p < r, v[p].type = "I",
               v[r].type = "I"
        PROVE  e[p] < e[r] + NumTx
    <2>1. CASE r <= Len(w)
      <3>1. p \in 1..Len(w) /\ r \in 1..Len(w)
        BY <1>1, <1>8, <2>1
      <3>2. v[p] = w[p] /\ v[r] = w[r]
        BY <1>1, <3>1
      <3>3. e[p] = nr[p] /\ e[r] = nr[r]
        BY <1>1, <1>6, <3>1
      <3> QED BY <1>2, <1>8, <3>1, <3>2, <3>3
    <2>2. CASE r > Len(w)
      <3>1. e[p] < n
        BY <1>7, <1>8 DEF Placed
      <3>2. n <= e[r] + NumTx
        BY <1>7, <1>8, <2>2
      <3>3. e[p] \in Nat /\ e[r] \in Nat
        BY <1>5
      <3> HIDE DEF n
      <3> QED BY <1>0, <3>1, <3>2, <3>3, SMTT(40)
    <2> QED BY <1>1, <2>1, <2>2
  <1>9. Numbered(v, str, a, reach)
    BY <1>5, <1>7, <1>8 DEF Numbered
  <1> QED BY <1>9 DEF v

\* More segments are stored.
LEMMA NumberedGrow ==
    ASSUME NEW w \in Seq(Frame), NEW str \in Seq(Segment), NEW gs \in Seq(Segment),
           NEW a \in Nat, NEW reach \in Nat, Numbered(w, str, a, reach)
    PROVE  Numbered(w, str \o gs, a, reach)
  <1>1. /\ Len(str \o gs) = Len(str) + Len(gs) /\ Len(str) \in Nat /\ Len(gs) \in Nat
        /\ \A p \in 1..Len(str) : (str \o gs)[p] = str[p]
    BY ConcatIndex
  <1>2. PICK nr \in [1..Len(w) -> Nat] :
        /\ \A p \in 1..Len(w) : w[p].type = "I" => Placed(w[p], nr[p], str, a, reach)
        /\ \A p, q \in 1..Len(w) :
                (p < q /\ w[p].type = "I" /\ w[q].type = "I") => nr[p] < nr[q] + NumTx
    BY DEF Numbered
  <1> DEFINE z == str \o gs
  <1> HIDE DEF z
  <1>3. ASSUME NEW p \in 1..Len(w), w[p].type = "I" PROVE Placed(w[p], nr[p], z, a, reach)
    <2>1. Placed(w[p], nr[p], str, a, reach)
      BY <1>2, <1>3
    <2> DEFINE i == nr[p]
    <2>2. i \in Nat /\ i < Len(str)
      BY <2>1 DEF Placed
    <2> HIDE DEF i
    <2>3. i + 1 \in 1..Len(str) /\ i < Len(z)
      BY <1>1, <2>2 DEF z
    <2>4. z[i + 1] = str[i + 1]
      BY <1>1, <2>3 DEF z
    <2> QED BY <2>1, <2>3, <2>4 DEF Placed, i
  <1>4. Numbered(w, z, a, reach)
    BY <1>2, <1>3 DEF Numbered
  <1> QED BY <1>4 DEF z

\* Acknowledgements that rise within bounds rise within wider ones.
LEMMA AcksWiden ==
    ASSUME NEW w \in Seq(Frame), NEW low \in Nat, NEW a \in Nat, Acks(w, low, a),
           NEW l2 \in Nat, NEW a2 \in Nat, l2 <= low, a <= a2
    PROVE  Acks(w, l2, a2)
  <1>1. PICK ak \in [1..Len(w) -> Nat] :
        /\ \A p \in 1..Len(w) : /\ w[p].req = ak[p] % SeqModulus
                                /\ low <= ak[p] /\ ak[p] <= a
        /\ \A p, q \in 1..Len(w) : p < q => ak[p] <= ak[q]
    BY DEF Acks
  <1>2. ASSUME NEW p \in 1..Len(w) PROVE l2 <= ak[p] /\ ak[p] <= a2
    <2> DEFINE k == ak[p]
    <2>1. k \in Nat /\ low <= k /\ k <= a
      BY <1>1
    <2> HIDE DEF k
    <2>2. l2 <= k /\ k <= a2
      BY <2>1
    <2> QED BY <2>2 DEF k
  <1>3. \A p \in 1..Len(w) : /\ w[p].req = ak[p] % SeqModulus
                             /\ l2 <= ak[p] /\ ak[p] <= a2
    BY <1>1, <1>2
  <1> QED BY <1>1, <1>3, Zenon DEF Acks

\* The first acknowledgement is taken.
LEMMA AcksHead ==
    ASSUME NEW w \in Seq(Frame), w # << >>, NEW low \in Nat, NEW a \in Nat, Acks(w, low, a)
    PROVE  \E b \in Nat : /\ Head(w).req = b % SeqModulus
                          /\ low <= b /\ b <= a /\ Acks(Tail(w), b, a)
  <1> DEFINE v == Tail(w)
  <1>1. /\ v \in Seq(Frame) /\ Len(v) = Len(w) - 1 /\ Head(w) = w[1]
        /\ 1 \in 1..Len(w) /\ Len(w) \in Nat
        /\ \A p \in 1..Len(v) : p + 1 \in 1..Len(w) /\ v[p] = w[p + 1]
    BY TailIndex
  <1>2. PICK ak \in [1..Len(w) -> Nat] :
        /\ \A p \in 1..Len(w) : /\ w[p].req = ak[p] % SeqModulus
                                /\ low <= ak[p] /\ ak[p] <= a
        /\ \A p, q \in 1..Len(w) : p < q => ak[p] <= ak[q]
    BY DEF Acks
  <1> DEFINE e == [p \in 1..Len(v) |-> ak[p + 1]]
             b == ak[1]
  <1> HIDE DEF v
  <1>3. e \in [1..Len(v) -> Nat]
    BY <1>1
  <1>4. \A p \in 1..Len(v) : e[p] = ak[p + 1]
    BY <1>1
  <1> HIDE DEF e
  <1>5. ASSUME NEW p \in 1..Len(v)
        PROVE  v[p].req = e[p] % SeqModulus /\ b <= e[p] /\ e[p] <= a
    <2>1. p + 1 \in 1..Len(w) /\ v[p] = w[p + 1] /\ 1 < p + 1
      BY <1>1
    <2> QED BY <1>1, <1>2, <1>4, <2>1
  <1>6. ASSUME NEW p \in 1..Len(v), NEW q \in 1..Len(v), p < q PROVE e[p] <= e[q]
    <2>1. p + 1 \in 1..Len(w) /\ q + 1 \in 1..Len(w) /\ p + 1 < q + 1
      BY <1>1, <1>6
    <2> QED BY <1>2, <1>4, <2>1
  <1>7. b \in Nat /\ w[1].req = b % SeqModulus /\ low <= b /\ b <= a
    BY <1>1, <1>2
  <1> HIDE DEF b
  <1>8. Acks(v, b, a)
    BY <1>3, <1>5, <1>6, Zenon DEF Acks
  <1> QED BY <1>1, <1>7, <1>8 DEF v

\* Frames with the latest acknowledgement are put behind the others.
LEMMA AcksExtend ==
    ASSUME NEW w \in Seq(Frame), NEW q \in Seq(Frame), NEW low \in Nat, NEW a \in Nat,
           Acks(w, low, a), low <= a, \A p \in 1..Len(q) : q[p].req = a % SeqModulus
    PROVE  Acks(w \o q, low, a)
  <1> DEFINE v == w \o q
  <1>1. /\ v \in Seq(Frame) /\ Len(v) = Len(w) + Len(q)
        /\ Len(w) \in Nat /\ Len(q) \in Nat
        /\ \A p \in 1..Len(w) : v[p] = w[p]
        /\ \A p \in 1..(Len(w) + Len(q)) :
               p > Len(w) => p - Len(w) \in 1..Len(q) /\ v[p] = q[p - Len(w)]
    BY ConcatIndex
  <1>2. PICK ak \in [1..Len(w) -> Nat] :
        /\ \A p \in 1..Len(w) : /\ w[p].req = ak[p] % SeqModulus
                                /\ low <= ak[p] /\ ak[p] <= a
        /\ \A p, r \in 1..Len(w) : p < r => ak[p] <= ak[r]
    BY DEF Acks
  <1> DEFINE e == [p \in 1..Len(v) |-> IF p <= Len(w) THEN ak[p] ELSE a]
  <1> HIDE DEF v
  <1>3. \A p \in 1..Len(v) : e[p] = IF p <= Len(w) THEN ak[p] ELSE a
    OBVIOUS
  <1>4. e \in [1..Len(v) -> Nat]
    <2>1. ASSUME NEW p \in 1..Len(v) PROVE (IF p <= Len(w) THEN ak[p] ELSE a) \in Nat
      <3>1. p <= Len(w) => p \in 1..Len(w)
        BY <1>1
      <3>2. p <= Len(w) => ak[p] \in Nat
        BY <3>1
      <3> QED BY <3>2
    <2> QED BY <2>1
  <1> HIDE DEF e
  <1>5. ASSUME NEW p \in 1..Len(v)
        PROVE  /\ v[p].req = e[p] % SeqModulus /\ low <= e[p] /\ e[p] <= a
               /\ p <= Len(w) => p \in 1..Len(w) /\ e[p] = ak[p]
               /\ ~(p <= Len(w)) => e[p] = a
    <2>1. CASE p <= Len(w)
      <3>1. p \in 1..Len(w) /\ v[p] = w[p] /\ e[p] = ak[p]
        BY <1>1, <1>3, <2>1
      <3> QED BY <1>2, <2>1, <3>1
    <2>2. CASE ~(p <= Len(w))
      <3>1. p - Len(w) \in 1..Len(q) /\ v[p] = q[p - Len(w)] /\ e[p] = a
        BY <1>1, <1>3, <2>2
      <3>2. v[p].req = a % SeqModulus
        BY <3>1
      <3>3. low <= a /\ a <= a
        OBVIOUS
      <3> QED BY <2>2, <3>1, <3>2, <3>3
    <2> QED BY <2>1, <2>2
  <1>6. ASSUME NEW p \in 1..Len(v), NEW r \in 1..Len(v), p < r PROVE e[p] <= e[r]
    <2>1. CASE r <= Len(w)
      <3>1. p <= Len(w)
        BY <1>1, <1>6, <2>1
      <3> QED BY <1>2, <1>5, <1>6, <2>1, <3>1
    <2>2. CASE ~(r <= Len(w))
      BY <1>5, <2>2
    <2> QED BY <2>1, <2>2
  <1>7. Acks(v, low, a)
    BY <1>4, <1>5, <1>6, Zenon DEF Acks
  <1> QED BY <1>7 DEF v

-----------------------------------------------------------------------------
(* A device takes a step *)

\* Between steps, what the channel knows of its peer does not concern its frames.
LEMMA QuietSide ==
    ASSUME NEW s, NEW t, NEW str, NEW a, NEW h, NEW h2, SendSide(s, str, a, h),
           t \in Working, t.out_q = << >>, t.expect = t.req,
           t.read = s.read, t.write = s.write, t.num = s.num, t.next = s.next,
           t.tx = s.tx, t.send = s.send, t.unacked = s.unacked, t.waiting = s.waiting,
           "srej" \in t.flags => h2
    PROVE  SendSide(t, str, a, h2)
  <1>1. Ring(t, Len(str)) /\ Slots(t, str) /\ Unused(t, Len(str))
    BY DEF SendSide, Ring, Slots, Unused
  <1>2. a = 0 => Early(t)
    BY DEF SendSide, Early
  <1>3. 1..Len(t.out_q) = {}
    <2>1. Len(<< >>) = 0
      OBVIOUS
    <2> QED BY <2>1
  <1>4. \A p \in 1..Len(t.out_q) : Fresh(t.out_q[p], t, str, a, h2)
    BY <1>3
  <1> QED BY <1>1, <1>2, <1>4 DEF SendSide

\* The peer took more frames.
LEMMA LaterSide ==
    ASSUME NEW s, NEW str \in Seq(Segment), NEW a \in Nat, NEW h, NEW h2,
           SendSide(s, str, a, h), s.out_q = << >>, NEW a2 \in Nat, a <= a2,
           a2 <= Len(str), h => h2
    PROVE  SendSide(s, str, a2, h2)
  <1>1. 1..Len(s.out_q) = {}
    <2>1. Len(<< >>) = 0
      OBVIOUS
    <2> QED BY <2>1
  <1>2. \A p \in 1..Len(s.out_q) : Fresh(s.out_q[p], s, str, a2, h2)
    BY <1>1
  <1>3. a2 = 0 => a = 0
    OBVIOUS
  <1>4. Len(str) - s.num <= a2
    <2>1. Len(str) - s.num <= a /\ s.num \in Nat /\ Len(str) \in Nat
      BY SideFacts
    <2> DEFINE n == Len(str)
    <2> HIDE DEF n
    <2>2. n - s.num <= a2
      BY <2>1 DEF n
    <2> QED BY <2>2 DEF n
  <1> QED BY <1>2, <1>3, <1>4 DEF SendSide

\* The frames of a step are handed to the link.
LEMMA FinishSide ==
    ASSUME NEW t, NEW str, NEW a, NEW h, SendSide(t, str, a, h)
    PROVE  LET r == [t EXCEPT !.out_q = << >>]
           IN  /\ SendSide(r, str, a, h) /\ r.out_q = << >> /\ Sends(t, r)
               /\ r.unacked = t.unacked
  <1> DEFINE r == [t EXCEPT !.out_q = << >>]
  <1>1. t \in Working /\ t.expect = t.req
    BY DEF SendSide
  <1>2. r \in Working
    <2>1. << >> \in Seq(Frame)
      OBVIOUS
    <2> QED BY <1>1, <2>1 DEF Working
  <1>3. /\ r.out_q = << >> /\ r.flags = t.flags
        /\ r.read = t.read /\ r.write = t.write /\ r.num = t.num /\ r.next = t.next
        /\ r.tx = t.tx /\ r.send = t.send /\ r.unacked = t.unacked
        /\ r.waiting = t.waiting
    BY <1>1 DEF Working
  <1>4. Keeps(t, r)
    BY <1>1 DEF Working, Keeps
  <1> HIDE DEF r
  <1>5. r.expect = r.req
    BY <1>1, <1>4 DEF Keeps
  <1>6. "srej" \in r.flags => h
    BY <1>3 DEF SendSide
  <1>7. SendSide(r, str, a, h)
    BY <1>2, <1>3, <1>5, <1>6, QuietSide
  <1>8. Sends(t, r)
    BY <1>3, <1>4 DEF Sends
  <1> QED BY <1>3, <1>7, <1>8 DEF r

\* The devices s and v, the frames w from s to v and z from v to s, and for each
\* of the two the segments, the ends of the SDUs in them, the number of frames
\* taken, and the SDUs submitted and delivered
Both(s, v, w, z, sx, sy, Tx, Ty, ax, ay, subx, suby, delx, dely) ==
    /\ SendSide(s, sx, ax, Heard(v, Len(sy), ay))
    /\ SendSide(v, sy, ay, Heard(s, Len(sx), ax))
    /\ s.out_q = << >> /\ v.out_q = << >>
    /\ w \in Seq(Frame) /\ z \in Seq(Frame) /\ ax \in Nat /\ ay \in Nat
    /\ Direction(s, v, w, z, sx, Tx, ax, subx, delx)
    /\ Direction(v, s, z, w, sy, Ty, ay, suby, dely)

\* What s may have become (t) in the middle of a step, with the frames z2 still
\* on their way to it
During(s, t, v, z2, sx, sy, Ty, ax, a2, suby, del2) ==
    /\ SendSide(t, sx, ax, Heard(v, Len(sy), a2))
    /\ (ax = 0 /\ s.unacked > 0) => t.unacked > 0
    /\ Acks(z2, Len(sx) - t.num, ax)
    /\ Numbered(z2, sy, a2, Reach(t, a2))
    /\ Held(t) => Heard(v, Len(sy), a2)
    /\ RecvSide(t, sy, a2, Ty, suby, del2)

\* What the devices know of each other
LEMMA BothFacts ==
    ASSUME NEW s, NEW v, NEW w, NEW z, NEW sx, NEW sy, NEW Tx, NEW Ty, NEW ax, NEW ay,
           NEW subx, NEW suby, NEW delx, NEW dely,
           Both(s, v, w, z, sx, sy, Tx, Ty, ax, ay, subx, suby, delx, dely)
    PROVE  /\ sx \in Seq(Segment) /\ sy \in Seq(Segment) /\ ax \in Nat /\ ay \in Nat
           /\ w \in Seq(Frame) /\ z \in Seq(Frame)
           /\ SendSide(s, sx, ax, Heard(v, Len(sy), ay))
           /\ SendSide(v, sy, ay, Heard(s, Len(sx), ax))
           /\ s.out_q = << >> /\ v.out_q = << >>
           /\ Len(sx) \in Nat /\ Len(sy) \in Nat
           /\ s \in Working /\ v \in Working
           /\ s.num \in Nat /\ v.num \in Nat /\ s.num <= Len(sx) /\ v.num <= Len(sy)
           /\ Len(sx) - s.num <= ax /\ Len(sy) - v.num <= ay
           /\ ax <= Len(sx) /\ ay <= Len(sy)
           /\ Len(sx) <= ax + NumTx /\ Len(sy) <= ay + NumTx
           /\ Reach(v, ax) \in Nat /\ Reach(v, ax) <= Len(sx)
           /\ Reach(s, ay) \in Nat /\ Reach(s, ay) <= Len(sy)
           /\ s.expect = ay % SeqModulus /\ v.expect = ax % SeqModulus
  <1>1. /\ SendSide(s, sx, ax, Heard(v, Len(sy), ay))
        /\ SendSide(v, sy, ay, Heard(s, Len(sx), ax))
        /\ s.out_q = << >> /\ v.out_q = << >>
        /\ w \in Seq(Frame) /\ z \in Seq(Frame) /\ ax \in Nat /\ ay \in Nat
    BY DEF Both
  <1>2. sx \in Seq(Segment) /\ sy \in Seq(Segment)
    BY DEF Both, Direction, Stream
  <1>3. /\ s \in Working /\ s.num \in Nat /\ s.num <= NumTx /\ s.num <= Len(sx)
        /\ Len(sx) \in Nat /\ Len(sx) - s.num <= ax /\ ax <= Len(sx)
    BY <1>1, <1>2, SideFacts
  <1>4. /\ v \in Working /\ v.num \in Nat /\ v.num <= NumTx /\ v.num <= Len(sy)
        /\ Len(sy) \in Nat /\ Len(sy) - v.num <= ay /\ ay <= Len(sy)
    BY <1>1, <1>2, SideFacts
  <1>5. /\ Held(v) => ax + 2 <= Len(sx)
        /\ Held(s) => ay + 2 <= Len(sy)
        /\ s.expect = ay % SeqModulus /\ v.expect = ax % SeqModulus
    BY DEF Both, Direction, RecvSide
  <1> DEFINE n == Len(sx)
             m == Len(sy)
  <1> HIDE DEF n, m
  <1>6. n <= ax + NumTx /\ m <= ay + NumTx
    BY <1>1, <1>3, <1>4, Sizes DEF n, m
  <1>7. Reach(v, ax) \in Nat /\ Reach(v, ax) <= n
    BY <1>1, <1>3, <1>5 DEF Reach, n
  <1>8. Reach(s, ay) \in Nat /\ Reach(s, ay) <= m
    BY <1>1, <1>4, <1>5 DEF Reach, m
  <1> QED BY <1>1, <1>2, <1>3, <1>4, <1>5, <1>6, <1>7, <1>8 DEF n, m

\* Signs of a frame among those under way
LEMMA EvidenceOrigin ==
    ASSUME NEW v, NEW w \in Seq(Frame), NEW z \in Seq(Frame), NEW q \in Seq(Frame), NEW z2,
           z2 = z \/ (z # << >> /\ z2 = Tail(z)),
           Evidence(v, w \o q, z2)
    PROVE  Evidence(v, w, z) \/ \E p \in 1..Len(q) : q[p].type = "I"
  <1>1. CASE Held(v)
    BY <1>1 DEF Evidence
  <1>2. CASE \E p \in 1..Len(w \o q) : (w \o q)[p].type = "I"
    <2>1. PICK p \in 1..Len(w \o q) : (w \o q)[p].type = "I"
      BY <1>2
    <2> DEFINE y == w \o q
    <2>2. /\ Len(y) = Len(w) + Len(q) /\ Len(w) \in Nat /\ Len(q) \in Nat
          /\ \A k \in 1..Len(w) : y[k] = w[k]
          /\ \A k \in 1..(Len(w) + Len(q)) :
                 k > Len(w) => k - Len(w) \in 1..Len(q) /\ y[k] = q[k - Len(w)]
      BY ConcatIndex
    <2>3. y[p].type = "I" /\ p \in 1..(Len(w) + Len(q))
      BY <2>1, <2>2
    <2> HIDE DEF y
    <2>4. CASE p > Len(w)
      BY <2>2, <2>3, <2>4
    <2>5. CASE ~(p > Len(w))
      <3>1. p \in 1..Len(w)
        BY <2>2, <2>3, <2>5
      <3> QED BY <2>2, <2>3, <3>1 DEF Evidence
    <2> QED BY <2>4, <2>5
  <1>3. CASE \E p \in 1..Len(z2) : z2[p].type = "SREJ"
    <2>1. PICK p \in 1..Len(z2) : z2[p].type = "SREJ"
      BY <1>3
    <2>2. CASE z2 = z
      BY <2>1, <2>2 DEF Evidence
    <2>3. CASE z # << >> /\ z2 = Tail(z)
      <3>1. p + 1 \in 1..Len(z) /\ z2[p] = z[p + 1]
        BY <2>1, <2>3, TailIndex
      <3> QED BY <2>1, <3>1 DEF Evidence
    <2> QED BY <2>2, <2>3
  <1> QED BY <1>1, <1>2, <1>3 DEF Evidence

\* The same for the device that takes the step
LEMMA EvidenceTaken ==
    ASSUME NEW s, NEW t, NEW w \in Seq(Frame), NEW z \in Seq(Frame), NEW q \in Seq(Frame),
           NEW z2, z2 = z \/ (z # << >> /\ z2 = Tail(z)),
           Evidence(t, z2, w \o q)
    PROVE  Held(t) \/ Evidence(s, z, w) \/ \E p \in 1..Len(q) : q[p].type = "SREJ"
  <1>1. CASE Held(t)
    BY <1>1
  <1>2. CASE \E p \in 1..Len(w \o q) : (w \o q)[p].type = "SREJ"
    <2>1. PICK p \in 1..Len(w \o q) : (w \o q)[p].type = "SREJ"
      BY <1>2
    <2> DEFINE y == w \o q
    <2>2. /\ Len(y) = Len(w) + Len(q) /\ Len(w) \in Nat /\ Len(q) \in Nat
          /\ \A k \in 1..Len(w) : y[k] = w[k]
          /\ \A k \in 1..(Len(w) + Len(q)) :
                 k > Len(w) => k - Len(w) \in 1..Len(q) /\ y[k] = q[k - Len(w)]
      BY ConcatIndex
    <2>3. y[p].type = "SREJ" /\ p \in 1..(Len(w) + Len(q))
      BY <2>1, <2>2
    <2> HIDE DEF y
    <2>4. CASE p > Len(w)
      BY <2>2, <2>3, <2>4
    <2>5. CASE ~(p > Len(w))
      <3>1. p \in 1..Len(w)
        BY <2>2, <2>3, <2>5
      <3> QED BY <2>2, <2>3, <3>1 DEF Evidence
    <2> QED BY <2>4, <2>5
  <1>3. CASE \E p \in 1..Len(z2) : z2[p].type = "I"
    <2>1. PICK p \in 1..Len(z2) : z2[p].type = "I"
      BY <1>3
    <2>2. CASE z2 = z
      BY <2>1, <2>2 DEF Evidence
    <2>3. CASE z # << >> /\ z2 = Tail(z)
      <3>1. p + 1 \in 1..Len(z) /\ z2[p] = z[p + 1]
        BY <2>1, <2>3, TailIndex
      <3> QED BY <2>1, <3>1 DEF Evidence
    <2> QED BY <2>2, <2>3
  <1> QED BY <1>1, <1>2, <1>3 DEF Evidence

\* A device that ends a step in the way During describes keeps both directions.
LEMMA StepDone ==
    ASSUME NEW s, NEW v, NEW w, NEW z, NEW sx, NEW sy, NEW Tx, NEW Ty, NEW ax, NEW ay,
           NEW subx, NEW suby, NEW delx, NEW dely,
           Both(s, v, w, z, sx, sy, Tx, Ty, ax, ay, subx, suby, delx, dely),
           NEW t, NEW z2, NEW a2 \in Nat, NEW del2,
           z2 = z \/ (z # << >> /\ z2 = Tail(z)), ay <= a2, a2 <= Len(sy),
           During(s, t, v, z2, sx, sy, Ty, ax, a2, suby, del2)
    PROVE  Both([t EXCEPT !.out_q = << >>], v, w \o t.out_q, z2,
                sx, sy, Tx, Ty, ax, a2, subx, suby, delx, del2)
  <1> DEFINE r == [t EXCEPT !.out_q = << >>]
             q == t.out_q
             n == Len(sx)
             m == Len(sy)
  <1>1. /\ sx \in Seq(Segment) /\ sy \in Seq(Segment) /\ ax \in Nat /\ ay \in Nat
        /\ w \in Seq(Frame) /\ z \in Seq(Frame) /\ n \in Nat /\ m \in Nat
        /\ SendSide(v, sy, ay, Heard(s, n, ax)) /\ v.out_q = << >>
        /\ v.num \in Nat /\ v.num <= m /\ m - v.num <= ay
        /\ n <= ax + NumTx /\ Reach(v, ax) \in Nat /\ Reach(v, ax) <= n
    BY BothFacts
  <1>2. /\ SendSide(t, sx, ax, Heard(v, m, a2))
        /\ (ax = 0 /\ s.unacked > 0) => t.unacked > 0
        /\ Acks(z2, n - t.num, ax)
        /\ Numbered(z2, sy, a2, Reach(t, a2))
        /\ Held(t) => Heard(v, m, a2)
        /\ RecvSide(t, sy, a2, Ty, suby, del2)
    BY DEF During
  <1>3. /\ SendSide(r, sx, ax, Heard(v, m, a2)) /\ r.out_q = << >> /\ Keeps(t, r)
        /\ r.num = t.num /\ r.unacked = t.unacked
    BY <1>2, FinishSide DEF Sends
  <1>4. /\ t.out_q \in Seq(Frame) /\ t.expect = t.req
        /\ \A p \in 1..Len(q) : Fresh(q[p], t, sx, ax, Heard(v, m, a2))
    BY <1>1, <1>2, SideFacts DEF SendSide
  <1>5. t.expect = a2 % SeqModulus
    BY <1>2 DEF RecvSide
  <1> HIDE DEF r, q, n, m
  <1>6. Heard(v, m, ay) => Heard(v, m, a2)
    BY <1>1 DEF Heard
  <1>7. Heard(s, n, ax) => Heard(r, n, ax)
    BY <1>2, <1>3 DEF Heard
  <1>8. SendSide(v, sy, a2, Heard(r, n, ax))
    BY <1>1, <1>7, LaterSide
  <1>9. z2 \in Seq(Frame) /\ w \o q \in Seq(Frame)
    <2>1. z2 \in Seq(Frame)
      BY <1>1, TailIndex
    <2> QED BY <1>1, <1>4, <2>1, ConcatIndex DEF q
  <1>10. Numbered(w \o q, sx, ax, Reach(v, ax))
    <2>1. Numbered(w, sx, ax, Reach(v, ax))
      BY DEF Both, Direction
    <2>2. \A p \in 1..Len(q) : q[p].type = "I" => Carries(q[p], sx, ax)
      BY <1>4 DEF Fresh
    <2> DEFINE reach == Reach(v, ax)
    <2> HIDE DEF reach
    <2>3. Numbered(w, sx, ax, reach) /\ reach \in Nat /\ reach <= Len(sx) /\ q \in Seq(Frame)
      BY <1>1, <1>4, <2>1 DEF reach, n, q
    <2>4. Numbered(w \o q, sx, ax, reach)
      BY <1>1, <2>2, <2>3, NumberedExtend DEF n
    <2> QED BY <2>4 DEF reach
  <1>11. Evidence(v, w \o q, z2) => Heard(r, n, ax)
    <2> SUFFICES ASSUME Evidence(v, w \o q, z2) PROVE Heard(r, n, ax)
      OBVIOUS
    <2>1. Evidence(v, w, z) \/ \E p \in 1..Len(q) : q[p].type = "I"
      BY <1>1, <1>4, EvidenceOrigin DEF q
    <2>2. CASE Evidence(v, w, z)
      <3>1. Heard(s, n, ax)
        BY <2>2 DEF Both, Direction, n
      <3> QED BY <1>7, <3>1
    <2>3. CASE \E p \in 1..Len(q) : q[p].type = "I"
      <3>1. PICK p \in 1..Len(q) : q[p].type = "I"
        BY <2>3
      <3>2. Carries(q[p], sx, ax) /\ (ax = 0 => t.unacked > 0)
        BY <1>4, <3>1 DEF Fresh
      <3>3. n > 0
        <4>1. \E i \in 0..(n - 1) : TRUE
          BY <3>2 DEF Carries, n
        <4> QED BY <1>1, <4>1
      <3> QED BY <1>3, <3>2, <3>3 DEF Heard
    <2> QED BY <2>1, <2>2, <2>3
  <1>12. Direction(r, v, w \o q, z2, sx, Tx, ax, subx, delx)
    <2>1. Stream(subx, sx, Tx) /\ RecvSide(v, sx, ax, Tx, subx, delx)
      BY DEF Both, Direction
    <2> QED BY <1>2, <1>3, <1>10, <1>11, <2>1 DEF Direction, n
  <1>13. /\ Held(r) = Held(t) /\ Reach(r, a2) = Reach(t, a2)
         /\ RecvSide(r, sy, a2, Ty, suby, del2)
    <2>1. Held(r) = Held(t)
      BY <1>3 DEF Keeps, Held
    <2>2. Reach(r, a2) = Reach(t, a2)
      BY <2>1 DEF Reach
    <2>3. RecvSide(r, sy, a2, Ty, suby, del2)
      BY <1>2, <1>3, <2>1 DEF Keeps, RecvSide
    <2> QED BY <2>1, <2>2, <2>3
  <1>14. Acks(w \o q, m - v.num, a2)
    <2> DEFINE low == m - v.num
    <2>1. low \in Nat /\ low <= ay /\ low <= a2
      BY <1>1
    <2>2. Acks(w, low, ay)
      BY DEF Both, Direction, m
    <2> HIDE DEF low
    <2>3. Acks(w, low, a2)
      <3>1. low <= low
        BY <2>1
      <3> QED BY <1>1, <2>1, <2>2, <3>1, AcksWiden
    <2>4. \A p \in 1..Len(q) : q[p].req = a2 % SeqModulus
      BY <1>4, <1>5 DEF Fresh
    <2>5. q \in Seq(Frame)
      BY <1>4 DEF q
    <2>6. Acks(w \o q, low, a2)
      BY <1>1, <2>1, <2>3, <2>4, <2>5, AcksExtend
    <2> QED BY <2>6 DEF low
  <1>15. Evidence(r, z2, w \o q) => Heard(v, m, a2)
    <2> SUFFICES ASSUME Evidence(r, z2, w \o q) PROVE Heard(v, m, a2)
      OBVIOUS
    <2>1. Held(r) \/ Evidence(s, z, w) \/ \E p \in 1..Len(q) : q[p].type = "SREJ"
      BY <1>1, <1>4, EvidenceTaken DEF q
    <2>2. Evidence(s, z, w) => Heard(v, m, ay)
      BY DEF Both, Direction, m
    <2>3. (\E p \in 1..Len(q) : q[p].type = "SREJ") => Heard(v, m, a2)
      BY <1>4 DEF Fresh
    <2> QED BY <1>2, <1>6, <1>13, <2>1, <2>2, <2>3
  <1>16. Direction(v, r, z2, w \o q, sy, Ty, a2, suby, del2)
    <2>1. Stream(suby, sy, Ty)
      BY DEF Both, Direction
    <2> QED BY <1>2, <1>13, <1>14, <1>15, <2>1 DEF Direction, m
  <1>17. Both(r, v, w \o q, z2, sx, sy, Tx, Ty, ax, a2, subx, suby, delx, del2)
    BY <1>1, <1>3, <1>8, <1>9, <1>12, <1>16 DEF Both, n, m
  <1> QED BY <1>17 DEF r, q

\* Nothing was done yet.
LEMMA StepBegins ==
    ASSUME NEW s, NEW v, NEW w, NEW z, NEW sx, NEW sy, NEW Tx, NEW Ty, NEW ax, NEW ay,
           NEW subx, NEW suby, NEW delx, NEW dely,
           Both(s, v, w, z, sx, sy, Tx, Ty, ax, ay, subx, suby, delx, dely)
    PROVE  During(s, s, v, z, sx, sy, Ty, ax, ay, suby, dely)
  <1>1. Evidence(s, z, w) => Heard(v, Len(sy), ay)
    BY DEF Both, Direction
  <1>2. Held(s) => Heard(v, Len(sy), ay)
    BY <1>1 DEF Evidence
  <1> QED BY <1>2 DEF Both, Direction, During

\* A part of a step that does not touch the receiver, nor the frames that are kept
LEMMA StepContinues ==
    ASSUME NEW s, NEW t, NEW u, NEW v, NEW z2, NEW sx, NEW sy, NEW Ty, NEW ax, NEW a2,
           NEW suby, NEW del2,
           During(s, t, v, z2, sx, sy, Ty, ax, a2, suby, del2),
           SendSide(u, sx, ax, Heard(v, Len(sy), a2)),
           u.num = t.num, t.unacked > 0 => u.unacked > 0,
           u.expect = t.expect, u.rx = t.rx, u.store = t.store, u.rlen = t.rlen,
           u.rbuf = t.rbuf
    PROVE  During(s, u, v, z2, sx, sy, Ty, ax, a2, suby, del2)
  <1>1. Held(u) = Held(t)
    BY DEF Held
  <1>2. Reach(u, a2) = Reach(t, a2)
    BY <1>1 DEF Reach
  <1>3. RecvSide(u, sy, a2, Ty, suby, del2)
    BY <1>1 DEF During, RecvSide
  <1> QED BY <1>1, <1>2, <1>3 DEF During

\* Frames are sent in a step.
LEMMA StepSends ==
    ASSUME NEW s, NEW t, NEW u, NEW v, NEW z2, NEW sx, NEW sy, NEW Ty, NEW ax, NEW a2,
           NEW suby, NEW del2,
           During(s, t, v, z2, sx, sy, Ty, ax, a2, suby, del2),
           SendSide(u, sx, ax, Heard(v, Len(sy), a2)), Sends(t, u)
    PROVE  During(s, u, v, z2, sx, sy, Ty, ax, a2, suby, del2)
  BY StepContinues DEF Sends, Keeps

\* l2cap_run at the end of a step
LEMMA StepRuns ==
    ASSUME NEW s, NEW t, NEW v, NEW z2, NEW sx \in Seq(Segment), NEW sy, NEW Ty,
           NEW ax \in Nat, NEW a2, NEW suby, NEW del2, NEW notify \in BOOLEAN,
           During(s, t, v, z2, sx, sy, Ty, ax, a2, suby, del2)
    PROVE  /\ During(s, Run(t, notify), v, z2, sx, sy, Ty, ax, a2, suby, del2)
           /\ Keeps(t, Run(t, notify))
  <1> DEFINE h == Heard(v, Len(sy), a2)
             r == RunErtm(t)
             u == NotifyCanSend(r)
  <1> HIDE DEF h, r, u
  <1>1. SendSide(t, sx, ax, h)
    BY DEF During, h
  <1>2. SendSide(r, sx, ax, h) /\ Sends(t, r)
    BY <1>1, RunErtmSide DEF r
  <1>3. SendSide(u, sx, ax, h) /\ Sends(r, u)
    BY <1>2, NotifySide DEF u
  <1>4. During(s, r, v, z2, sx, sy, Ty, ax, a2, suby, del2)
    BY <1>2, StepSends DEF h
  <1>5. During(s, u, v, z2, sx, sy, Ty, ax, a2, suby, del2)
    BY <1>3, <1>4, StepSends DEF h
  <1>6. Keeps(t, r) /\ Keeps(t, u)
    BY <1>2, <1>3 DEF Sends, Keeps
  <1>7. Run(t, notify) = IF notify THEN u ELSE r
    BY DEF Run, r, u
  <1> QED BY <1>4, <1>5, <1>6, <1>7

\* A change of flags and timers in a step
LEMMA StepSettings ==
    ASSUME NEW s, NEW t, NEW u, NEW v, NEW z2, NEW sx, NEW sy, NEW Ty, NEW ax, NEW a2,
           NEW suby, NEW del2,
           During(s, t, v, z2, sx, sy, Ty, ax, a2, suby, del2),
           u \in Working, SameSending(t, u), u.rx = t.rx, u.store = t.store,
           u.rlen = t.rlen, u.rbuf = t.rbuf,
           "srej" \in u.flags => "srej" \in t.flags \/ Held(t)
    PROVE  During(s, u, v, z2, sx, sy, Ty, ax, a2, suby, del2)
  <1> DEFINE h == Heard(v, Len(sy), a2)
  <1> HIDE DEF h
  <1>1. SendSide(t, sx, ax, h) /\ (Held(t) => h)
    BY DEF During, h
  <1>2. "srej" \in u.flags => h
    BY <1>1 DEF SendSide
  <1>3. SendSide(u, sx, ax, h)
    BY <1>1, <1>2, SameSide
  <1> QED BY <1>3, StepContinues DEF h, SameSending, SameRing

-----------------------------------------------------------------------------
(* Supervisory frames *)

\* The acknowledgement in a frame is processed.
LEMMA StepAcked ==
    ASSUME NEW s, NEW t, NEW v, NEW z2 \in Seq(Frame), NEW sx \in Seq(Segment), NEW sy,
           NEW Ty, NEW ax \in Nat, NEW a2, NEW suby, NEW del2,
           During(s, t, v, z2, sx, sy, Ty, ax, a2, suby, del2),
           NEW b \in Nat, Len(sx) - t.num <= b, b <= ax, Acks(z2, b, ax)
    PROVE  LET p == ProcessReqSeq(t, b % SeqModulus)
           IN  /\ During(s, p, v, z2, sx, sy, Ty, ax, a2, suby, del2)
               /\ Keeps(t, p) /\ p.flags = t.flags /\ p.out_q = t.out_q
  <1> DEFINE p == ProcessReqSeq(t, b % SeqModulus)
             h == Heard(v, Len(sy), a2)
             low == Len(sx) - p.num
  <1> HIDE DEF h, p
  <1>1. SendSide(t, sx, ax, h)
    BY DEF During, h
  <1>2. /\ SendSide(p, sx, ax, h) /\ Keeps(t, p) /\ Len(sx) - p.num <= b
        /\ p.flags = t.flags /\ (ax = 0 => p.unacked = t.unacked) /\ p.out_q = t.out_q
    BY <1>1, ReqSide DEF p
  <1>3. low \in Nat
    <2>1. p.num \in Nat /\ p.num <= Len(sx) /\ Len(sx) \in Nat
      BY <1>2, SideFacts
    <2> QED BY <2>1
  <1>4. Acks(z2, low, ax)
    <2>1. low <= b /\ ax <= ax
      BY <1>2
    <2> HIDE DEF low
    <2> QED BY <1>3, <2>1, AcksWiden
  <1>5. Held(p) = Held(t)
    BY <1>2 DEF Held, Keeps
  <1>6. Reach(p, a2) = Reach(t, a2)
    BY <1>5 DEF Reach
  <1>7. RecvSide(p, sy, a2, Ty, suby, del2)
    BY <1>2, <1>5 DEF During, RecvSide, Keeps
  <1>8. During(s, p, v, z2, sx, sy, Ty, ax, a2, suby, del2)
    BY <1>2, <1>4, <1>5, <1>6, <1>7 DEF During, h
  <1> QED BY <1>2, <1>8 DEF p

\* Frames are marked to be sent again.
LEMMA StepRetransmits ==
    ASSUME NEW s, NEW t, NEW v, NEW z2, NEW sx \in Seq(Segment), NEW sy, NEW Ty,
           NEW ax \in Nat, NEW a2, NEW suby, NEW del2,
           During(s, t, v, z2, sx, sy, Ty, ax, a2, suby, del2)
    PROVE  /\ During(s, Retransmit(t), v, z2, sx, sy, Ty, ax, a2, suby, del2)
           /\ Keeps(t, Retransmit(t)) /\ Retransmit(t).flags = t.flags
           /\ Retransmit(t).out_q = t.out_q
  <1> DEFINE r == Retransmit(t)
             h == Heard(v, Len(sy), a2)
  <1> HIDE DEF h, r
  <1>1. SendSide(t, sx, ax, h)
    BY DEF During, h
  <1>2. /\ SendSide(r, sx, ax, h) /\ Keeps(t, r) /\ r.num = t.num
        /\ r.unacked = t.unacked /\ r.flags = t.flags /\ r.out_q = t.out_q
    BY <1>1, RetransmitSide DEF r
  <1>3. Sends(t, r)
    BY <1>2 DEF Sends
  <1> QED BY <1>2, <1>3, StepSends DEF r, h

\* Receiver ready
LEMMA StepRR ==
    ASSUME NEW s, NEW t, NEW v, NEW z2 \in Seq(Frame), NEW sx \in Seq(Segment), NEW sy,
           NEW Ty, NEW ax \in Nat, NEW a2, NEW suby, NEW del2,
           During(s, t, v, z2, sx, sy, Ty, ax, a2, suby, del2), NEW f,
           NEW b \in Nat, Len(sx) - t.num <= b, b <= ax, Acks(z2, b, ax),
           f.req = b % SeqModulus
    PROVE  /\ During(s, HandleRR(t, f), v, z2, sx, sy, Ty, ax, a2, suby, del2)
           /\ Keeps(t, HandleRR(t, f))
  <1> DEFINE Now(u) == During(s, u, v, z2, sx, sy, Ty, ax, a2, suby, del2)
             p == ProcessReqSeq(t, f.req)
             held == \E i \in RxIndex : p.rx[i].valid
             q == [p EXCEPT !.flags = @ \cup {IF held THEN "srej" ELSE "rr"}, !.final = TRUE]
             k == [p EXCEPT !.monitor = FALSE, !.retrans = @ \/ p.unacked > 0]
             r == Retransmit(k)
             e == IF f.poll THEN q ELSE IF f.final THEN r ELSE p
  <1>1. Now(p) /\ Keeps(t, p)
    BY StepAcked
  <1>2. HandleRR(t, f) = NotifyCanSend(e)
    BY DEF HandleRR
  <1> HIDE DEF p
  <1>3. p \in Working
    BY <1>1 DEF During, SendSide
  <1>4. Now(q) /\ Keeps(p, q)
    <2>1. held => Held(p)
      BY <1>1 DEF During, RecvSide, Held
    <2> HIDE DEF held
    <2>2. q \in Working
      BY <1>3 DEF Working, Flag
    <2>3. /\ SameSending(p, q) /\ Keeps(p, q)
          /\ q.flags = p.flags \cup {IF held THEN "srej" ELSE "rr"}
      BY <1>3 DEF Working, SameSending, SameRing, Keeps
    <2>4. "srej" \in q.flags => "srej" \in p.flags \/ Held(p)
      BY <2>1, <2>3
    <2> HIDE DEF q
    <2> QED BY <1>1, <2>2, <2>3, <2>4, StepSettings DEF Keeps
  <1>5. Now(k) /\ Keeps(p, k)
    <2>1. k \in Working
      <3>1. (p.retrans \/ p.unacked > 0) \in BOOLEAN
        OBVIOUS
      <3> QED BY <1>3, <3>1 DEF Working
    <2>2. SameSending(p, k) /\ Keeps(p, k) /\ k.flags = p.flags
      BY <1>3 DEF Working, SameSending, SameRing, Keeps
    <2> HIDE DEF k
    <2> QED BY <1>1, <2>1, <2>2, StepSettings DEF Keeps
  <1> HIDE DEF q, k
  <1>6. Now(r) /\ Keeps(k, r)
    BY <1>5, StepRetransmits
  <1>7. Keeps(t, q) /\ Keeps(t, r)
    BY <1>1, <1>4, <1>5, <1>6 DEF Keeps
  <1> HIDE DEF r, Now
  <1>8. Now(e) /\ Keeps(t, e)
    BY <1>1, <1>4, <1>6, <1>7
  <1> HIDE DEF e
  <1> DEFINE h == Heard(v, Len(sy), a2)
             u == NotifyCanSend(e)
  <1> HIDE DEF h, u
  <1>9. SendSide(e, sx, ax, h)
    BY <1>8 DEF Now, During, h
  <1>10. SendSide(u, sx, ax, h) /\ Sends(e, u)
    BY <1>9, NotifySide DEF u
  <1>11. Now(u)
    BY <1>8, <1>10, StepSends DEF h, Now
  <1>12. Keeps(t, u)
    BY <1>8, <1>10 DEF Sends, Keeps
  <1> QED BY <1>2, <1>11, <1>12 DEF Now, u

\* Reject
LEMMA StepRej ==
    ASSUME NEW s, NEW t, NEW v, NEW z2 \in Seq(Frame), NEW sx \in Seq(Segment), NEW sy,
           NEW Ty, NEW ax \in Nat, NEW a2, NEW suby, NEW del2,
           During(s, t, v, z2, sx, sy, Ty, ax, a2, suby, del2), NEW f,
           NEW b \in Nat, Len(sx) - t.num <= b, b <= ax, Acks(z2, b, ax),
           f.req = b % SeqModulus
    PROVE  LET u == NotifyCanSend(Retransmit(ProcessReqSeq(t, f.req)))
           IN  During(s, u, v, z2, sx, sy, Ty, ax, a2, suby, del2) /\ Keeps(t, u)
  <1> DEFINE Now(e) == During(s, e, v, z2, sx, sy, Ty, ax, a2, suby, del2)
             p == ProcessReqSeq(t, f.req)
             r == Retransmit(p)
             u == NotifyCanSend(r)
             h == Heard(v, Len(sy), a2)
  <1>1. Now(p) /\ Keeps(t, p)
    BY StepAcked
  <1> HIDE DEF p
  <1>2. Now(r) /\ Keeps(p, r)
    BY <1>1, StepRetransmits
  <1> HIDE DEF r, h, u
  <1>3. SendSide(r, sx, ax, h)
    BY <1>2 DEF During, h
  <1>4. SendSide(u, sx, ax, h) /\ Sends(r, u)
    BY <1>3, NotifySide DEF u
  <1>5. Now(u)
    BY <1>2, <1>4, StepSends DEF h
  <1>6. Keeps(t, u)
    BY <1>1, <1>2, <1>4 DEF Sends, Keeps
  <1> QED BY <1>5, <1>6 DEF u, r, p

\* Selective reject
LEMMA StepSrej ==
    ASSUME NEW s, NEW t, NEW v, NEW z2, NEW sx \in Seq(Segment), NEW sy,
           NEW Ty, NEW ax \in Nat, NEW a2, NEW suby, NEW del2,
           During(s, t, v, z2, sx, sy, Ty, ax, a2, suby, del2), NEW f,
           NEW b \in Nat, b <= ax, f.req = b % SeqModulus, Heard(t, Len(sx), ax)
    PROVE  LET u == HandleSrej(t, f)
           IN  During(s, u, v, z2, sx, sy, Ty, ax, a2, suby, del2) /\ Keeps(t, u)
  <1> DEFINE u == HandleSrej(t, f)
             h == Heard(v, Len(sy), a2)
  <1> HIDE DEF h, u
  <1>0. Asks(f, ax)
    BY DEF Asks
  <1>1. SendSide(t, sx, ax, h)
    BY DEF During, h
  <1>2. /\ SendSide(u, sx, ax, h) /\ Keeps(t, u) /\ u.num = t.num
        /\ u.unacked = t.unacked
    <2>1. Len(sx) > 0 /\ (ax = 0 => t.unacked > 0)
      BY DEF Heard
    <2> QED BY <1>0, <1>1, <2>1, SrejSide, SMTT(40) DEF u
  <1>3. Sends(t, u)
    BY <1>2 DEF Sends
  <1> QED BY <1>2, <1>3, StepSends DEF u, h

-----------------------------------------------------------------------------
(* Reassembly *)

\* An SDU is a sequence of pieces.
LEMMA SduFacts ==
    ASSUME NEW d \in Sdu
    PROVE  /\ d \in Seq(1..MaxSdus) /\ d \in Seq(Nat) /\ Len(d) \in Nat /\ 1 <= Len(d)
           /\ Len(d) <= MaxPieces /\ DOMAIN d = 1..Len(d)
           /\ \A i \in 1..Len(d) : d[i] \in 1..MaxSdus /\ d[i] \in Nat
  <1>1. PICK n \in 1..MaxPieces, k \in 1..MaxSdus : d = [i \in 1..n |-> k]
    BY DEF Sdu
  <1>2. n \in Nat /\ 1 <= n /\ n <= MaxPieces /\ k \in Nat
    BY Sizes
  <1>3. d \in Seq(1..MaxSdus) /\ d \in Seq(Nat) /\ Len(d) = n
    BY <1>1, <1>2
  <1> QED BY <1>1, <1>2, <1>3

\* The segments of an SDU
LEMMA SegmentFacts ==
    ASSUME NEW d \in Sdu
    PROVE  /\ Segments(d) \in Seq(Segment) /\ Len(Segments(d)) = Len(d)
           /\ \A c \in 1..Len(d) :
                /\ Segments(d)[c] \in Segment
                /\ Segments(d)[c].piece = d[c]
                /\ Len(d) = 1 => Segments(d)[c].sar = "whole"
                /\ Len(d) # 1 /\ c = 1 => /\ Segments(d)[c].sar = "start"
                                          /\ Segments(d)[c].len = Len(d)
                /\ Len(d) # 1 /\ c # 1 /\ c = Len(d) => Segments(d)[c].sar = "end"
                /\ c # 1 /\ c # Len(d) => Segments(d)[c].sar = "continuation"
  <1>1. /\ Len(d) \in Nat /\ 1 <= Len(d) /\ Len(d) <= MaxPieces /\ DOMAIN d = 1..Len(d)
        /\ \A i \in 1..Len(d) : d[i] \in 1..MaxSdus
    BY SduFacts
  <1> DEFINE g(i) == [sar   |-> IF Len(d) = 1 THEN "whole"
                                ELSE IF i = 1 THEN "start"
                                ELSE IF i = Len(d) THEN "end" ELSE "continuation",
                      len   |-> IF i = 1 /\ Len(d) > 1 THEN Len(d) ELSE 0,
                      piece |-> d[i]]
  <1>2. Segments(d) = [i \in 1..Len(d) |-> g(i)]
    BY <1>1 DEF Segments
  <1>3. ASSUME NEW c \in 1..Len(d)
        PROVE  /\ g(c) \in Segment /\ g(c).piece = d[c]
               /\ Len(d) = 1 => g(c).sar = "whole"
               /\ Len(d) # 1 /\ c = 1 => g(c).sar = "start" /\ g(c).len = Len(d)
               /\ Len(d) # 1 /\ c # 1 /\ c = Len(d) => g(c).sar = "end"
               /\ c # 1 /\ c # Len(d) => g(c).sar = "continuation"
    <2>1. d[c] \in 0..MaxSdus
      BY <1>1, Sizes
    <2>2. (IF c = 1 /\ Len(d) > 1 THEN Len(d) ELSE 0) \in 0..MaxPieces
      BY <1>1, Sizes
    <2>3. g(c) \in Segment
      BY <2>1, <2>2 DEF Segment
    <2>4. c # 1 /\ c # Len(d) => Len(d) # 1
      <3> DEFINE n == Len(d)
      <3>1. c \in 1..n /\ n \in Nat
        BY <1>1
      <3> HIDE DEF n
      <3>2. c # 1 /\ c # n => n # 1
        BY <3>1
      <3> QED BY <3>2 DEF n
    <2>5. Len(d) # 1 => Len(d) > 1
      BY <1>1
    <2> QED BY <2>3, <2>4, <2>5
  <1> HIDE DEF g
  <1>4. \A c \in 1..Len(d) : Segments(d)[c] = g(c)
    BY <1>2
  <1>5. Segments(d) \in Seq(Segment) /\ Len(Segments(d)) = Len(d)
    <2> DEFINE n == Len(d)
               e == [i \in 1..n |-> g(i)]
    <2>1. \A i \in 1..n : g(i) \in Segment
      BY <1>3
    <2>2. n \in Nat
      BY <1>1
    <2> HIDE DEF n
    <2>3. e \in [1..n -> Segment]
      BY <2>1
    <2> HIDE DEF e
    <2>4. e \in Seq(Segment) /\ Len(e) = n
      BY <2>2, <2>3
    <2> QED BY <1>2, <2>4 DEF e, n
  <1> QED BY <1>3, <1>4, <1>5

\* Frame a + 1 carries the piece of an SDU that reassembly_buffer waits for.
Continues(buf, len, a, T, sub, del, str) ==
    LET d == sub[Len(del) + 1]
        c == Len(buf) + 1 IN
    /\ del \in Seq(Sdu) /\ Len(del) \in Nat /\ Len(del) < Len(sub)
    /\ Len(sub) \in Nat /\ d \in Sdu
    /\ c \in 1..Len(d) /\ str[a + 1] = Segments(d)[c]
    /\ T[Len(del)] \in Nat /\ T[Len(del) + 1] = T[Len(del)] + Len(d)
    /\ a = T[Len(del)] + Len(buf)
    /\ \A k \in 1..Len(buf) : buf[k] = d[k]
    /\ buf # << >> => len = Len(d)

\* What the next frame of a stream belongs to
LEMMA NextPiece ==
    ASSUME NEW buf \in Seq(Nat), NEW len, NEW a \in Nat, NEW T, NEW sub, NEW del, NEW str,
           Stream(sub, str, T), Assembly(buf, len, a, T, sub, del), a < Len(str)
    PROVE  Continues(buf, len, a, T, sub, del, str)
  <1> DEFINE m == Len(del)
             d == sub[m + 1]
             q == Len(buf)
  <1>1. /\ sub \in Seq(Sdu) /\ str \in Seq(Segment)
        /\ T \in [0..Len(sub) -> Nat] /\ T[Len(sub)] = Len(str)
        /\ \A n \in 1..Len(sub) : T[n] = T[n - 1] + Len(sub[n])
        /\ \A n \in 1..Len(sub) : \A c \in 1..Len(sub[n]) :
                str[T[n - 1] + c] = Segments(sub[n])[c]
    BY DEF Stream
  <1>2. /\ m <= Len(sub) /\ del \in Seq(Sdu) /\ a = T[m] + q
        /\ buf # << >> => /\ m < Len(sub) /\ len = Len(d) /\ q < Len(d)
                          /\ \A k \in 1..q : buf[k] = d[k]
    BY DEF Assembly
  <1>3. Len(sub) \in Nat /\ q \in Nat
    BY <1>1
  <1>4. m \in Nat
    BY <1>2
  <1>5. m < Len(sub)
    <2> SUFFICES ASSUME m = Len(sub) PROVE FALSE
      BY <1>2, <1>3, <1>4
    <2>1. buf = << >>
      BY <1>2, <1>3
    <2>2. q = 0
      BY <2>1
    <2>3. T[m] = Len(str)
      BY <1>1
    <2>4. Len(str) \in Nat
      BY <1>1
    <2> QED BY <1>2, <2>2, <2>3, <2>4
  <1>6. m + 1 \in 1..Len(sub) /\ (m + 1) - 1 = m /\ m \in 0..Len(sub)
    BY <1>3, <1>4, <1>5
  <1>7. d \in Sdu /\ T[m] \in Nat
    BY <1>1, <1>6
  <1>8. Len(d) \in Nat /\ 1 <= Len(d)
    BY <1>7, SduFacts
  <1>9. q + 1 \in 1..Len(d) /\ \A k \in 1..q : buf[k] = d[k]
    <2>1. CASE buf = << >>
      <3>1. q = 0
        BY <2>1
      <3> QED BY <1>8, <3>1
    <2>2. CASE buf # << >>
      BY <1>2, <1>3, <1>8, <2>2
    <2> QED BY <2>1, <2>2
  <1>10. T[m + 1] = T[m] + Len(d)
    BY <1>1, <1>6
  <1>11. str[a + 1] = Segments(d)[q + 1]
    <2>1. str[T[m] + (q + 1)] = Segments(d)[q + 1]
      BY <1>1, <1>6, <1>9
    <2>2. a + 1 = T[m] + (q + 1)
      <3> DEFINE e == T[m]
      <3>1. a = e + q /\ e \in Nat /\ q \in Nat
        BY <1>2, <1>3, <1>7
      <3> HIDE DEF e, q
      <3>2. a + 1 = e + (q + 1)
        BY <3>1
      <3> QED BY <3>2 DEF e, q
    <2> QED BY <2>1, <2>2
  <1> QED BY <1>2, <1>3, <1>4, <1>5, <1>7, <1>9, <1>10, <1>11 DEF Continues

\* The frame a + 1 is taken by the reassembly; what it completes is dispatched.
LEMMA TakeOne ==
    ASSUME NEW s \in Working, NEW a \in Nat, NEW T, NEW sub, NEW del, NEW str,
           Stream(sub, str, T), Assembly(s.rbuf, s.rlen, a, T, sub, del), a < Len(str)
    PROVE  LET g == str[a + 1]
               t == Reassemble(s, g) IN
           /\ t \in Working /\ SameSending(s, t) /\ t.rx = s.rx /\ t.store = s.store
           /\ t.open = s.open /\ t.flags = s.flags /\ SameTimers(s, t)
           /\ Assembly(t.rbuf, t.rlen, a + 1, T, sub, del \o Dispatched(s, g))
  <1> DEFINE g == str[a + 1]
             t == Reassemble(s, g)
             m == Len(del)
             d == sub[m + 1]
             buf == s.rbuf
             q == Len(buf)
             c == q + 1
             out == Dispatched(s, g)
  <1>0. s.rbuf \in Seq(Nat) /\ s.rlen \in 0..MaxPieces /\ q \in Nat
    BY DEF Working
  <1>1. /\ del \in Seq(Sdu) /\ m \in Nat /\ m < Len(sub) /\ Len(sub) \in Nat /\ d \in Sdu
        /\ c \in 1..Len(d) /\ g = Segments(d)[c] /\ T[m] \in Nat
        /\ T[m + 1] = T[m] + Len(d) /\ a = T[m] + q
        /\ \A k \in 1..q : buf[k] = d[k]
        /\ buf # << >> => s.rlen = Len(d)
    <2> DEFINE len == s.rlen
    <2>1. buf \in Seq(Nat) /\ Assembly(buf, len, a, T, sub, del)
      BY <1>0
    <2> HIDE DEF buf, len
    <2>2. Continues(buf, len, a, T, sub, del, str)
      BY <2>1, NextPiece
    <2> QED BY <2>2 DEF len, Continues
  <1>2. /\ Len(d) \in Nat /\ 1 <= Len(d) /\ Len(d) <= MaxPieces
        /\ d[c] \in Nat /\ d \in Seq(Nat)
    BY <1>1, SduFacts
  <1>3. /\ g \in Segment /\ g.piece = d[c] /\ g.len \in 0..MaxPieces
        /\ Len(d) = 1 => g.sar = "whole"
        /\ Len(d) # 1 /\ c = 1 => g.sar = "start" /\ g.len = Len(d)
        /\ Len(d) # 1 /\ c # 1 /\ c = Len(d) => g.sar = "end"
        /\ c # 1 /\ c # Len(d) => g.sar = "continuation"
    <2>1. d \in Sdu /\ c \in 1..Len(d) /\ g = Segments(d)[c]
      BY <1>1
    <2> HIDE DEF d, c, g
    <2>2. /\ g \in Segment /\ g.piece = d[c]
          /\ Len(d) = 1 => g.sar = "whole"
          /\ Len(d) # 1 /\ c = 1 => g.sar = "start" /\ g.len = Len(d)
          /\ Len(d) # 1 /\ c # 1 /\ c = Len(d) => g.sar = "end"
          /\ c # 1 /\ c # Len(d) => g.sar = "continuation"
      BY <2>1, SegmentFacts
    <2>3. g.len \in 0..MaxPieces
      BY <2>2 DEF Segment
    <2> QED BY <2>2, <2>3
  <1>4. \A k \in 1..m : del[k] = sub[k]
    BY DEF Assembly
  <1> HIDE DEF g, d, q, m
  \* the SDU is complete
  <1>5. ASSUME out = << d >>, t.rbuf = << >>, c = Len(d)
        PROVE  Assembly(t.rbuf, t.rlen, a + 1, T, sub, del \o out)
    <2>1. /\ del \o << d >> \in Seq(Sdu) /\ Len(del \o << d >>) = m + 1
          /\ \A k \in 1..m : (del \o << d >>)[k] = del[k]
          /\ (del \o << d >>)[m + 1] = d
      BY <1>1 DEF m
    <2> DEFINE e == del \o << d >>
    <2>2. \A k \in 1..(m + 1) : e[k] = sub[k]
      <3>1. \A k \in 1..(m + 1) : k \in 1..m \/ k = m + 1
        BY <1>1
      <3> QED BY <1>4, <2>1, <3>1 DEF d
    <2>3. a + 1 = T[m + 1] + Len(t.rbuf)
      <3> DEFINE n == Len(d)
                 x == T[m]
                 y == T[m + 1]
      <3>1. Len(t.rbuf) = 0
        BY <1>5
      <3>2. y = x + n /\ a = x + q /\ q + 1 = n /\ x \in Nat /\ n \in Nat /\ q \in Nat
        BY <1>0, <1>1, <1>2, <1>5
      <3> HIDE DEF n, x, y
      <3>3. a + 1 = y + 0
        BY <3>2
      <3> QED BY <3>1, <3>3 DEF y
    <2>4. m + 1 <= Len(sub)
      BY <1>1
    <2> HIDE DEF e
    <2>5. e \in Seq(Sdu) /\ Len(e) = m + 1
      BY <2>1 DEF e
    <2>6. Assembly(t.rbuf, t.rlen, a + 1, T, sub, e)
      BY <1>5, <2>2, <2>3, <2>4, <2>5 DEF Assembly
    <2> QED BY <1>5, <2>6 DEF e
  \* another piece of it
  <1>6. ASSUME out = << >>, t.rbuf \in Seq(Nat), Len(t.rbuf) = c, c < Len(d),
               t.rlen = Len(d), \A k \in 1..c : t.rbuf[k] = d[k]
        PROVE  Assembly(t.rbuf, t.rlen, a + 1, T, sub, del \o out)
    <2>1. del \o out = del
      BY <1>1, <1>6
    <2>2. a + 1 = T[m] + c
      <3> DEFINE x == T[m]
      <3>1. a = x + q /\ x \in Nat /\ q \in Nat
        BY <1>0, <1>1
      <3> HIDE DEF x
      <3>2. a + 1 = x + (q + 1)
        BY <3>1
      <3> QED BY <3>2 DEF x
    <2>3. m <= Len(sub)
      BY <1>1
    <2> HIDE DEF out, t, c
    <2>4. Assembly(t.rbuf, t.rlen, a + 1, T, sub, del)
      BY <1>1, <1>4, <1>6, <2>2, <2>3 DEF Assembly, d, m
    <2> QED BY <2>1, <2>4
  <1>7. s \in Working
    OBVIOUS
  <1> DEFINE Rest == /\ t \in Working /\ SameSending(s, t) /\ t.rx = s.rx
                     /\ t.store = s.store /\ t.open = s.open /\ t.flags = s.flags
                     /\ SameTimers(s, t)
  <1>8. CASE Len(d) = 1
    <2>1. g.sar = "whole" /\ c = 1 /\ q = 0
      BY <1>0, <1>1, <1>2, <1>3, <1>8
    <2>2. t = s /\ out = << << g.piece >> >>
      BY <2>1 DEF Reassemble, Dispatched
    <2>3. buf = << >>
      BY <1>0, <2>1 DEF q
    <2>4. << g.piece >> = d
      <3>1. g.piece = d[1]
        BY <1>3, <2>1
      <3>2. d = << d[1] >>
        BY <1>2, <1>8
      <3> QED BY <3>1, <3>2
    <2>5. Rest
      BY <1>7, <2>2 DEF SameSending, SameRing, SameTimers
    <2>6. Assembly(t.rbuf, t.rlen, a + 1, T, sub, del \o out)
      BY <1>5, <1>8, <2>1, <2>2, <2>3, <2>4
    <2> QED BY <2>5, <2>6 DEF g
  <1>9. CASE Len(d) # 1 /\ c = 1
    <2>1. g.sar = "start" /\ g.len = Len(d) /\ q = 0
      BY <1>0, <1>3, <1>9
    <2>2. t = [s EXCEPT !.rlen = g.len, !.rbuf = << g.piece >>] /\ out = << >>
      BY <2>1 DEF Reassemble, Dispatched
    <2>3. g.piece \in Nat /\ << g.piece >> \in Seq(Nat)
      <3>1. g.piece \in Nat
        BY <1>2, <1>3
      <3> QED BY <3>1
    <2>4. Rest
      <3>1. t \in Working
        BY <1>3, <1>7, <2>2, <2>3, ZenonT(60) DEF Working
      <3>2. SameSending(s, t)
        BY <1>7, <2>2 DEF Working, SameSending, SameRing
      <3>3. /\ t.rx = s.rx /\ t.store = s.store /\ t.open = s.open /\ t.flags = s.flags
            /\ SameTimers(s, t)
        BY <1>7, <2>2 DEF Working, SameTimers
      <3> QED BY <3>1, <3>2, <3>3
    <2>5. t.rlen = Len(d) /\ t.rbuf = << g.piece >>
      BY <1>7, <2>1, <2>2 DEF Working
    <2>6. Len(t.rbuf) = c /\ c < Len(d) /\ \A k \in 1..c : t.rbuf[k] = d[k]
      <3>1. Len(t.rbuf) = 1 /\ t.rbuf[1] = d[1]
        BY <1>3, <1>9, <2>5
      <3>2. \A k \in 1..c : k = 1
        BY <1>9
      <3>3. c < Len(d)
        <4> DEFINE n == Len(d)
        <4>1. n \in Nat /\ 1 <= n /\ n # 1 /\ c = 1
          BY <1>2, <1>9
        <4> HIDE DEF n, c
        <4>2. c < n
          BY <4>1
        <4> QED BY <4>2 DEF n
      <3> HIDE DEF t, c
      <3> QED BY <1>9, <3>1, <3>2, <3>3
    <2>7. Assembly(t.rbuf, t.rlen, a + 1, T, sub, del \o out)
      BY <1>6, <2>2, <2>3, <2>5, <2>6
    <2> QED BY <2>4, <2>7 DEF g
  <1>10. CASE Len(d) # 1 /\ c # 1
    <2>1. /\ g.sar \in {"end", "continuation"} /\ (g.sar = "end" <=> c = Len(d))
          /\ q # 0 /\ q < MaxPieces /\ buf # << >> /\ s.rlen = Len(d)
      <3>1. q # 0 /\ q < MaxPieces
        BY <1>0, <1>1, <1>2, <1>10, Sizes
      <3>2. buf # << >>
        BY <3>1 DEF q
      <3> QED BY <1>1, <1>3, <1>10, <3>1, <3>2
    <2>2. /\ t = IF g.sar = "end" /\ q + 1 = s.rlen THEN [s EXCEPT !.rbuf = << >>]
                 ELSE [s EXCEPT !.rbuf = Append(@, g.piece)]
          /\ out = IF g.sar = "end" /\ q < MaxPieces /\ q + 1 = s.rlen
                   THEN << Append(s.rbuf, g.piece) >> ELSE << >>
      <3>1. ~(q = MaxPieces)
        BY <1>0, <2>1, Sizes
      <3> QED BY <2>1, <3>1 DEF Reassemble, Dispatched, q
    <2>3. g.piece \in Nat
      BY <1>2, <1>3
    <2> DEFINE e == Append(buf, g.piece)
    <2>4. /\ e \in Seq(Nat) /\ Len(e) = c
          /\ \A k \in 1..q : e[k] = buf[k]
          /\ e[c] = g.piece
      BY <1>0, <2>3, AppendIndex DEF q
    <2>5. \A k \in 1..c : e[k] = d[k]
      <3>1. \A k \in 1..c : k \in 1..q \/ k = c
        BY <1>0
      <3> HIDE DEF c, e
      <3> QED BY <1>1, <1>3, <2>4, <3>1
    <2> HIDE DEF e
    <2>6. CASE c = Len(d)
      <3>1. t = [s EXCEPT !.rbuf = << >>] /\ out = << e >>
        BY <2>1, <2>2, <2>6 DEF e
      <3>2. Rest
        <4>0. << >> \in Seq(Nat)
          OBVIOUS
        <4>1. t \in Working
          BY <1>7, <3>1, <4>0, ZenonT(60) DEF Working
        <4>2. SameSending(s, t)
          BY <1>7, <3>1 DEF Working, SameSending, SameRing
        <4>3. /\ t.rx = s.rx /\ t.store = s.store /\ t.open = s.open /\ t.flags = s.flags
              /\ SameTimers(s, t)
          BY <1>7, <3>1 DEF Working, SameTimers
        <4> QED BY <4>1, <4>2, <4>3
      <3>3. e = d
        <4> HIDE DEF c
        <4>1. /\ e \in Seq(Nat) /\ d \in Seq(Nat) /\ Len(e) = Len(d)
              /\ \A k \in 1..Len(e) : e[k] = d[k]
          BY <1>2, <2>4, <2>5, <2>6
        <4> QED BY <4>1, SeqEqual
      <3>4. t.rbuf = << >>
        BY <1>7, <3>1 DEF Working
      <3>5. Assembly(t.rbuf, t.rlen, a + 1, T, sub, del \o out)
        BY <1>5, <2>6, <3>1, <3>3, <3>4
      <3> QED BY <3>2, <3>5 DEF g
    <2>7. CASE c # Len(d)
      <3>1. t = [s EXCEPT !.rbuf = e] /\ out = << >>
        BY <2>1, <2>2, <2>7 DEF e
      <3>2. Rest
        <4>1. t \in Working
          BY <1>7, <2>4, <3>1, ZenonT(60) DEF Working
        <4>2. SameSending(s, t)
          BY <1>7, <3>1 DEF Working, SameSending, SameRing
        <4>3. /\ t.rx = s.rx /\ t.store = s.store /\ t.open = s.open /\ t.flags = s.flags
              /\ SameTimers(s, t)
          BY <1>7, <3>1 DEF Working, SameTimers
        <4> QED BY <4>1, <4>2, <4>3
      <3>3. t.rbuf = e /\ t.rlen = s.rlen
        BY <1>7, <3>1 DEF Working
      <3>4. c < Len(d)
        BY <1>1, <1>2, <2>7
      <3>5. Assembly(t.rbuf, t.rlen, a + 1, T, sub, del \o out)
        BY <1>6, <2>1, <2>4, <2>5, <3>1, <3>3, <3>4
      <3> QED BY <3>2, <3>5 DEF g
    <2> QED BY <2>6, <2>7
  <1> QED BY <1>8, <1>9, <1>10

\* Only the receiving side changes.
Receives(s, t) ==
    /\ t.open = s.open /\ t.read = s.read /\ t.write = s.write /\ t.num = s.num
    /\ t.next = s.next /\ t.tx = s.tx /\ t.send = s.send /\ t.unacked = s.unacked
    /\ t.waiting = s.waiting /\ t.out_q = s.out_q
    /\ t.retrans = s.retrans /\ t.monitor = s.monitor

\* The number of the frame that is expected is counted up.
LEMMA AdvanceFacts ==
    ASSUME NEW s \in Working, NEW a \in Nat, s.expect = a % SeqModulus
    PROVE  LET t == Advance(s) IN
           /\ t \in Working /\ Receives(s, t) /\ t.flags = s.flags
           /\ t.expect = (a + 1) % SeqModulus /\ t.req = t.expect
           /\ t.rx = s.rx /\ t.store = s.store /\ t.rlen = s.rlen /\ t.rbuf = s.rbuf
  <1> DEFINE e == (s.expect + 1) % SeqModulus
             t == [s EXCEPT !.expect = e, !.req = e]
  <1>1. Advance(s) = t
    BY DEF Advance
  <1>2. e = (a + 1) % SeqModulus /\ e \in SeqNr
    <2>1. ((a % SeqModulus) + 1) % SeqModulus = (a + 1) % SeqModulus
      <3>1. a \in Int /\ 1 \in Int /\ SeqModulus \in Nat \ {0}
        BY Sizes
      <3> QED BY <3>1, ModAdd
    <2>2. a + 1 \in Int
      OBVIOUS
    <2>3. (a + 1) % SeqModulus \in SeqNr
      BY <2>2, NumberRange
    <2> QED BY <2>1, <2>3
  <1> HIDE DEF e
  <1>3. t \in Working
    BY <1>2 DEF Working
  <1>4. /\ t.expect = e /\ t.req = e /\ t.flags = s.flags
        /\ t.rx = s.rx /\ t.store = s.store /\ t.rlen = s.rlen /\ t.rbuf = s.rbuf
    BY DEF Working
  <1>5. Receives(s, t)
    BY DEF Working, Receives
  <1> HIDE DEF t
  <1> QED BY <1>1, <1>2, <1>3, <1>4, <1>5

\* What is reassembled and dispatched depends on reassembly_buffer only.
LEMMA SameBuffer ==
    ASSUME NEW s \in Working, NEW t \in Working, t.rbuf = s.rbuf, t.rlen = s.rlen, NEW g
    PROVE  /\ Dispatched(t, g) = Dispatched(s, g)
           /\ Reassemble(t, g).rbuf = Reassemble(s, g).rbuf
           /\ Reassemble(t, g).rlen = Reassemble(s, g).rlen
  <1>1. Dispatched(t, g) = Dispatched(s, g)
    BY DEF Dispatched
  <1>2. ASSUME NEW u \in Working, NEW l, NEW p
        PROVE  /\ [u EXCEPT !.rlen = l, !.rbuf = p].rbuf = p
               /\ [u EXCEPT !.rlen = l, !.rbuf = p].rlen = l
               /\ [u EXCEPT !.rbuf = p].rbuf = p /\ [u EXCEPT !.rbuf = p].rlen = u.rlen
    BY DEF Working
  <1>3. ASSUME NEW u \in Working
        PROVE  /\ [u EXCEPT !.rbuf = Append(@, g.piece)].rbuf = Append(u.rbuf, g.piece)
               /\ [u EXCEPT !.rbuf = Append(@, g.piece)].rlen = u.rlen
    BY DEF Working
  <1>4. CASE g.sar = "whole"
    BY <1>1, <1>4 DEF Reassemble
  <1>5. CASE g.sar = "start"
    <2>1. /\ Reassemble(s, g) = [s EXCEPT !.rlen = g.len, !.rbuf = << g.piece >>]
          /\ Reassemble(t, g) = [t EXCEPT !.rlen = g.len, !.rbuf = << g.piece >>]
      BY <1>5 DEF Reassemble
    <2> QED BY <1>1, <1>2, <2>1
  <1>6. CASE g.sar # "whole" /\ g.sar # "start"
    <2>1. CASE Len(s.rbuf) = MaxPieces
      BY <1>1, <1>6, <2>1 DEF Reassemble
    <2>2. CASE Len(s.rbuf) # MaxPieces /\ g.sar = "end" /\ Len(s.rbuf) + 1 = s.rlen
      <3>1. /\ Reassemble(s, g) = [s EXCEPT !.rbuf = << >>]
            /\ Reassemble(t, g) = [t EXCEPT !.rbuf = << >>]
        BY <1>6, <2>2 DEF Reassemble
      <3> QED BY <1>1, <1>2, <3>1
    <2>3. CASE Len(s.rbuf) # MaxPieces /\ ~(g.sar = "end" /\ Len(s.rbuf) + 1 = s.rlen)
      <3>1. /\ Reassemble(s, g) = [s EXCEPT !.rbuf = Append(@, g.piece)]
            /\ Reassemble(t, g) = [t EXCEPT !.rbuf = Append(@, g.piece)]
        BY <1>6, <2>3 DEF Reassemble
      <3> QED BY <1>1, <1>3, <3>1
    <2> QED BY <2>1, <2>2, <2>3
  <1> QED BY <1>4, <1>5, <1>6

\* SDUs are dispatched.
LEMMA DispatchedSeq ==
    ASSUME NEW s \in Working, NEW g \in Segment
    PROVE  Dispatched(s, g) \in Seq(Seq(Nat))
  <1>1. g.piece \in Nat /\ s.rbuf \in Seq(Nat)
    BY Sizes DEF Segment, Working
  <1>2. << g.piece >> \in Seq(Nat) /\ Append(s.rbuf, g.piece) \in Seq(Nat)
    BY <1>1
  <1> DEFINE p == << g.piece >>
             q == Append(s.rbuf, g.piece)
  <1>3. Dispatched(s, g) \in { << p >>, << q >>, << >> }
    BY DEF Dispatched
  <1> HIDE DEF p, q
  <1>4. << p >> \in Seq(Seq(Nat)) /\ << q >> \in Seq(Seq(Nat)) /\ << >> \in Seq(Seq(Nat))
    BY <1>2 DEF p, q
  <1> QED BY <1>3, <1>4

\* The frame that is expected: one frame is taken, or two.
LEMMA ExpectedTaken ==
    ASSUME NEW s \in Working, NEW a \in Nat, NEW T, NEW sub, NEW del, NEW str,
           Stream(sub, str, T), RecvSide(s, str, a, T, sub, del), a < Len(str)
    PROVE  LET g == str[a + 1]
               t == Expected(s, g)
               a2 == IF Held(s) THEN a + 2 ELSE a + 1 IN
           /\ t \in Working /\ Receives(s, t) /\ t.flags = s.flags \cup {"rr"}
           /\ t.expect = t.req /\ ~Held(t) /\ a2 <= Len(str)
           /\ RecvSide(t, str, a2, T, sub, del \o ExpectedDispatch(s, g))
  <1> DEFINE g == str[a + 1]
             s1 == Advance(s)
             t == Reassemble(s1, g)
             x == t.rx[t.store]
             v1 == [t EXCEPT !.rx[t.store].valid = FALSE, !.store = (@ + 1) % NumRx]
             v2 == Advance(v1)
             u == Reassemble(v2, x.segment)
             r == IF x.valid THEN u ELSE t
             e == [r EXCEPT !.flags = @ \cup {"rr"}]
             out == Dispatched(s, g)
             p == Reassemble(s, g)
             y == s.rx[s.store]
             del1 == del \o out
             out2 == Dispatched(p, y.segment)
  <1>1. Expected(s, g) = e
    BY DEF Expected
  <1>2. ExpectedDispatch(s, g) = out \o (IF y.valid THEN out2 ELSE << >>)
    BY DEF ExpectedDispatch
  <1>3. /\ s.expect = a % SeqModulus
        /\ \A i \in RxIndex : s.rx[i].valid => i = s.store
        /\ Held(s) => a + 2 <= Len(str) /\ y.segment = str[a + 2]
        /\ Assembly(s.rbuf, s.rlen, a, T, sub, del)
    BY DEF RecvSide
  <1>4. /\ s1 \in Working /\ Receives(s, s1) /\ s1.flags = s.flags
        /\ s1.expect = (a + 1) % SeqModulus /\ s1.req = s1.expect
        /\ s1.rx = s.rx /\ s1.store = s.store /\ s1.rlen = s.rlen /\ s1.rbuf = s.rbuf
    BY <1>3, AdvanceFacts
  <1> HIDE DEF s1
  <1>5. /\ t \in Working /\ SameSending(s1, t) /\ t.rx = s.rx /\ t.store = s.store
        /\ t.open = s1.open /\ t.flags = s.flags /\ SameTimers(s1, t)
        /\ Assembly(t.rbuf, t.rlen, a + 1, T, sub, del1)
    <2>1. Assembly(s1.rbuf, s1.rlen, a, T, sub, del)
      BY <1>3, <1>4
    <2>2. /\ t \in Working /\ SameSending(s1, t) /\ t.rx = s1.rx /\ t.store = s1.store
          /\ t.open = s1.open /\ t.flags = s1.flags /\ SameTimers(s1, t)
          /\ Assembly(t.rbuf, t.rlen, a + 1, T, sub, del \o Dispatched(s1, g))
      BY <1>4, <2>1, TakeOne
    <2>3. Dispatched(s1, g) = out
      BY <1>4, SameBuffer
    <2> QED BY <1>4, <2>2, <2>3
  <1>6. p.rbuf = t.rbuf /\ p.rlen = t.rlen
    BY <1>4, SameBuffer
  <1>7. x = y /\ (Held(s) <=> x.valid) /\ (Held(t) <=> x.valid)
    BY <1>5 DEF Held
  <1>8. Receives(s, t) /\ t.expect = (a + 1) % SeqModulus /\ t.req = t.expect
    BY <1>4, <1>5 DEF Receives, SameSending, SameRing, SameTimers
  <1>9. p \in Working
    <2>1. p \in Working
      BY <1>3, TakeOne
    <2> QED BY <2>1
  <1> HIDE DEF t
  <1>10. s.rx \in [RxIndex -> RxBuffer] /\ s.store \in RxIndex
    BY DEF Working
  <1>11. a + 1 <= Len(str) /\ str \in Seq(Segment) /\ Len(str) \in Nat /\ g \in Segment
    <2>1. str \in Seq(Segment)
      BY DEF Stream
    <2>2. Len(str) \in Nat /\ a + 1 \in 1..Len(str)
      BY <2>1
    <2> QED BY <2>1, <2>2
  <1>12. CASE ~Held(s)
    <2>1. e = [t EXCEPT !.flags = @ \cup {"rr"}]
      BY <1>7, <1>12
    <2> HIDE DEF e
    <2>2. e \in Working
      BY <1>5, <2>1 DEF Working, Flag
    <2>3. /\ Receives(t, e) /\ e.flags = t.flags \cup {"rr"} /\ e.expect = t.expect
          /\ e.req = t.req /\ e.rx = t.rx /\ e.store = t.store /\ e.rlen = t.rlen
          /\ e.rbuf = t.rbuf
      BY <1>5, <2>1 DEF Working, Receives
    <2>4. ~Held(e) /\ \A i \in RxIndex : e.rx[i].valid => i = e.store
      BY <1>3, <1>5, <1>7, <1>12, <2>3 DEF Held
    <2>5. del \o ExpectedDispatch(s, g) = del1
      <3>1. ExpectedDispatch(s, g) = out \o << >>
        BY <1>2, <1>7, <1>12
      <3>2. out \in Seq(Seq(Nat))
        BY <1>11, DispatchedSeq
      <3>3. out \o << >> = out
        BY <3>2
      <3> QED BY <3>1, <3>3
    <2>6. RecvSide(e, str, a + 1, T, sub, del1)
      BY <1>5, <1>8, <2>3, <2>4 DEF RecvSide
    <2>7. Receives(s, e)
      BY <1>8, <2>3 DEF Receives
    <2> QED BY <1>1, <1>5, <1>8, <1>11, <1>12, <2>2, <2>3, <2>4, <2>5, <2>6, <2>7
  <1>13. CASE Held(s)
    <2>1. x.segment = str[a + 2] /\ x.valid /\ a + 2 <= Len(str)
      BY <1>3, <1>7, <1>13
    <2>2. e = [u EXCEPT !.flags = @ \cup {"rr"}]
      BY <2>1
    <2> DEFINE k == (s.store + 1) % NumRx
               R == [s.rx EXCEPT ![s.store].valid = FALSE]
    <2>3. v1 = [t EXCEPT !.rx = R, !.store = k]
      BY <1>5, <1>10 DEF Working
    <2>4. k \in RxIndex
      <3>1. s.store + 1 \in Int /\ NumRx \in Nat \ {0}
        BY <1>10, Sizes DEF RxIndex
      <3>2. k \in 0..(NumRx - 1)
        BY <3>1, ModRange
      <3> QED BY <3>2 DEF RxIndex
    <2>5. R \in [RxIndex -> RxBuffer] /\ \A i \in RxIndex : ~R[i].valid
      <3>1. R \in [RxIndex -> RxBuffer]
        BY <1>10 DEF RxBuffer
      <3>2. \A i \in RxIndex : R[i].valid = IF i = s.store THEN FALSE ELSE s.rx[i].valid
        BY <1>10 DEF RxBuffer
      <3> QED BY <1>3, <3>1, <3>2
    <2> HIDE DEF k, R, v1
    <2>6. v1 \in Working
      BY <1>5, <2>3, <2>4, <2>5 DEF Working
    <2>7. /\ Receives(t, v1) /\ v1.flags = t.flags /\ v1.expect = t.expect
          /\ v1.rlen = t.rlen /\ v1.rbuf = t.rbuf /\ v1.rx = R /\ v1.store = k
      BY <1>5, <2>3 DEF Working, Receives
    <2> DEFINE b == a + 1
    <2>8. b \in Nat /\ v1.expect = b % SeqModulus
      BY <1>8, <2>7
    <2>9. /\ v2 \in Working /\ Receives(v1, v2) /\ v2.flags = v1.flags
          /\ v2.expect = (b + 1) % SeqModulus /\ v2.req = v2.expect
          /\ v2.rx = R /\ v2.store = k /\ v2.rlen = t.rlen /\ v2.rbuf = t.rbuf
      <3> HIDE DEF b
      <3> QED BY <2>6, <2>7, <2>8, AdvanceFacts
    <2> HIDE DEF v2
    <2>10. /\ u \in Working /\ SameSending(v2, u) /\ u.rx = R /\ u.store = k
           /\ u.open = v2.open /\ u.flags = v2.flags /\ SameTimers(v2, u)
           /\ Assembly(u.rbuf, u.rlen, a + 2, T, sub, del1 \o out2)
      <3>1. Assembly(v2.rbuf, v2.rlen, b, T, sub, del1)
        BY <1>5, <2>9
      <3>2. str[b + 1] = x.segment /\ b < Len(str) /\ b + 1 = a + 2
        <4>1. b + 1 = a + 2 /\ a + 1 < Len(str)
          BY <1>11, <2>1
        <4> QED BY <2>1, <4>1
      <3> HIDE DEF b, del1
      <3>3. LET g2 == str[b + 1]
                t2 == Reassemble(v2, g2) IN
            /\ t2 \in Working /\ SameSending(v2, t2) /\ t2.rx = v2.rx /\ t2.store = v2.store
            /\ t2.open = v2.open /\ t2.flags = v2.flags /\ SameTimers(v2, t2)
            /\ Assembly(t2.rbuf, t2.rlen, b + 1, T, sub, del1 \o Dispatched(v2, g2))
        <4>1. b \in Nat /\ v2 \in Working /\ b < Len(str)
          BY <2>8, <2>9, <3>2
        <4> QED BY <3>1, <4>1, TakeOne, ZenonT(60)
      <3>4. Dispatched(v2, x.segment) = out2
        <4>1. v2.rbuf = p.rbuf /\ v2.rlen = p.rlen
          BY <1>6, <2>9
        <4> HIDE DEF p
        <4> QED BY <1>7, <1>9, <2>9, <4>1, SameBuffer
      <3> QED BY <2>9, <3>2, <3>3, <3>4
    <2> HIDE DEF u, e
    <2>11. e \in Working
      BY <2>2, <2>10 DEF Working, Flag
    <2>12. /\ Receives(u, e) /\ e.flags = u.flags \cup {"rr"} /\ e.expect = u.expect
           /\ e.req = u.req /\ e.rx = u.rx /\ e.store = u.store /\ e.rlen = u.rlen
           /\ e.rbuf = u.rbuf
      BY <2>2, <2>10 DEF Working, Receives
    <2>13. ~Held(e) /\ \A i \in RxIndex : e.rx[i].valid => i = e.store
      BY <2>4, <2>5, <2>10, <2>12 DEF Held
    <2>14. e.expect = (a + 2) % SeqModulus /\ e.req = e.expect
      <3>1. b + 1 = a + 2
        OBVIOUS
      <3>2. u.expect = v2.expect /\ u.req = v2.req
        BY <2>10 DEF SameSending, SameRing
      <3> QED BY <2>9, <2>12, <3>1, <3>2
    <2>15. del \o ExpectedDispatch(s, g) = del1 \o out2
      <3>1. ExpectedDispatch(s, g) = out \o out2
        BY <1>2, <1>7, <1>13
      <3>2. out \in Seq(Seq(Nat))
        BY <1>11, DispatchedSeq
      <3>3. y.segment \in Segment
        BY <1>10 DEF RxBuffer
      <3>4. out2 \in Seq(Seq(Nat))
        <4> DEFINE g2 == y.segment
        <4> HIDE DEF g2, p
        <4>1. g2 \in Segment
          BY <3>3 DEF g2
        <4>2. Dispatched(p, g2) \in Seq(Seq(Nat))
          BY <1>9, <4>1, DispatchedSeq
        <4> QED BY <4>2 DEF g2
      <3>5. del \in Seq(Seq(Nat))
        <4>1. del \in Seq(Sdu)
          BY <1>3 DEF Assembly
        <4>2. \A d \in Sdu : d \in Seq(Nat)
          BY SduFacts
        <4> QED BY <4>1, <4>2
      <3> HIDE DEF out, out2
      <3>6. del \o (out \o out2) = (del \o out) \o out2
        BY <3>2, <3>4, <3>5, SMTT(40)
      <3> QED BY <3>1, <3>6
    <2>16. RecvSide(e, str, a + 2, T, sub, del1 \o out2)
      BY <2>10, <2>12, <2>13, <2>14 DEF RecvSide
    <2>17. Receives(s, e) /\ e.flags = s.flags \cup {"rr"}
      <3>1. Receives(v2, u) /\ u.flags = v2.flags
        BY <2>10 DEF Receives, SameSending, SameRing, SameTimers
      <3> QED BY <1>5, <1>8, <2>7, <2>9, <2>12, <3>1 DEF Receives
    <2> QED BY <1>1, <1>13, <2>1, <2>11, <2>13, <2>14, <2>15, <2>16, <2>17
  <1> QED BY <1>12, <1>13

\* A frame is stored and the one before it asked for.
AskFor(s, g) == [Store(s, g) EXCEPT !.flags = @ \cup {"srej"}]

\* The frame after the one that is expected is stored.
LEMMA StoreTaken ==
    ASSUME NEW s \in Working, NEW a \in Nat, NEW T, NEW sub, NEW del, NEW str,
           RecvSide(s, str, a, T, sub, del), a + 2 <= Len(str),
           NEW g \in Segment, g = str[a + 2],
           NEW t, t = AskFor(s, g)
    PROVE  /\ t \in Working /\ Receives(s, t) /\ t.flags = s.flags \cup {"srej"}
           /\ t.expect = s.expect /\ t.req = s.req /\ Held(t)
           /\ RecvSide(t, str, a, T, sub, del)
  <1> DEFINE u == Store(s, g)
             X == [s.rx EXCEPT ![s.store] = [valid |-> TRUE, segment |-> g]]
             R == IF Held(s) THEN s.rx ELSE X
  <1>1. s.rx \in [RxIndex -> RxBuffer] /\ s.store \in RxIndex
    BY DEF Working
  <1>2. u = [s EXCEPT !.rx = R]
    <2>1. CASE Held(s)
      <3>1. u = s /\ R = s.rx
        BY <2>1 DEF Store, Held
      <3>2. [s EXCEPT !.rx = s.rx] = s
        BY DEF Working
      <3> QED BY <3>1, <3>2
    <2>2. CASE ~Held(s)
      BY <2>2 DEF Store, Held
    <2> QED BY <2>1, <2>2
  <1>3. X \in [RxIndex -> RxBuffer]
    BY <1>1 DEF RxBuffer
  <1>4. /\ \A i \in RxIndex : s.rx[i].valid => i = s.store
        /\ Held(s) => s.rx[s.store].segment = g
        /\ Assembly(s.rbuf, s.rlen, a, T, sub, del) /\ s.expect = a % SeqModulus
    BY DEF RecvSide
  <1>5. /\ R \in [RxIndex -> RxBuffer]
        /\ \A i \in RxIndex : R[i].valid => i = s.store
        /\ R[s.store].valid /\ R[s.store].segment = g
    <2>1. CASE Held(s)
      BY <1>1, <1>4, <2>1 DEF Held
    <2>2. CASE ~Held(s)
      <3>1. R = X
        BY <2>2
      <3>2. \A i \in RxIndex : i # s.store => X[i] = s.rx[i]
        BY <1>1
      <3>3. X[s.store] = [valid |-> TRUE, segment |-> g]
        BY <1>1
      <3> HIDE DEF X, R
      <3> QED BY <1>1, <1>3, <1>4, <3>1, <3>2, <3>3
    <2> QED BY <2>1, <2>2
  <1>0. t = [u EXCEPT !.flags = @ \cup {"srej"}]
    BY DEF AskFor
  <1> HIDE DEF R, u
  <1>6. u \in Working
    BY <1>2, <1>5 DEF Working
  <1>7. /\ Receives(s, u) /\ u.rx = R /\ u.store = s.store /\ u.expect = s.expect
        /\ u.req = s.req /\ u.rlen = s.rlen /\ u.rbuf = s.rbuf /\ u.flags = s.flags
    BY <1>2 DEF Working, Receives
  <1>8. t \in Working
    BY <1>0, <1>6, ZenonT(60) DEF Working, Flag
  <1>9. /\ Receives(u, t) /\ t.rx = R /\ t.store = s.store /\ t.expect = s.expect
        /\ t.req = s.req /\ t.rlen = s.rlen /\ t.rbuf = s.rbuf
        /\ t.flags = s.flags \cup {"srej"}
    BY <1>0, <1>6, <1>7 DEF Working, Receives
  <1>10. Held(t)
    BY <1>5, <1>9 DEF Held
  <1>11. RecvSide(t, str, a, T, sub, del)
    BY <1>4, <1>5, <1>9 DEF RecvSide
  <1>12. Receives(s, t)
    BY <1>7, <1>9 DEF Receives
  <1> QED BY <1>8, <1>9, <1>10, <1>11, <1>12

\* The sequence number of a frame that is under way tells which one it is: the one
\* that is expected
LEMMA InSequence ==
    ASSUME NEW f, NEW i \in Nat, NEW str \in Seq(Segment), NEW a \in Nat,
           NEW reach \in Nat, a <= reach, Placed(f, i, str, a, reach),
           f.seq = a % SeqModulus
    PROVE  i = a /\ f.segment = str[a + 1] /\ a < Len(str)
  <1>1. /\ i % SeqModulus = a % SeqModulus /\ i < Len(str) /\ i < a + NumTx
        /\ reach <= i + NumTx /\ (a <= i => f.segment = str[i + 1])
    BY DEF Placed
  <1>2. i \in Int /\ a \in Int /\ i - a < SeqModulus /\ a - i < SeqModulus
        /\ SeqModulus \in Nat \ {0}
    BY <1>1, Sizes
  <1>3. i = a
    BY <1>1, <1>2, ModNear
  <1> QED BY <1>1, <1>3

\* and the one after it.
LEMMA OutOfSequence ==
    ASSUME NEW f, NEW i \in Nat, NEW str \in Seq(Segment), NEW a \in Nat,
           NEW reach \in Nat, a <= reach, Placed(f, i, str, a, reach),
           f.seq # a % SeqModulus, (f.seq - (a % SeqModulus)) % SeqModulus < 2
    PROVE  i = a + 1 /\ f.segment = str[a + 2] /\ a + 2 <= Len(str)
  <1> DEFINE M == SeqModulus
             b == a + 1
             k == (i - a) % M
  <1>1. /\ f.seq = i % M /\ i < Len(str) /\ i < a + NumTx
        /\ reach <= i + NumTx /\ (a <= i => f.segment = str[i + 1])
    BY DEF Placed
  <1>2. i \in Int /\ a \in Int /\ M \in Nat \ {0} /\ M > NumTx + 1 /\ NumTx \in Nat \ {0}
        /\ b \in Int
    BY Sizes
  <1>3. ((i % M) - (a % M)) % M = k
    BY <1>2, ModDiff
  <1>4. k \in 0..(M - 1)
    <2>1. i - a \in Int
      BY <1>2
    <2> QED BY <1>2, <2>1, ModRange
  <1>5. k < 2
    BY <1>1, <1>3
  <1> HIDE DEF k
  <1>6. k \in {0, 1}
    BY <1>2, <1>4, <1>5
  <1>7. PICK q \in Int : i - a = M * q + k
    <2>1. i - a \in Int
      BY <1>2
    <2> QED BY <1>2, <2>1, Remainder DEF k
  <1>8. CASE k = 0
    <2>1. i = M * q + a
      BY <1>2, <1>7, <1>8
    <2>2. i % M = a % M
      BY <1>2, <2>1, ModShift
    <2> QED BY <1>1, <2>2
  <1>9. CASE k = 1
    <2>1. i = M * q + b
      BY <1>2, <1>7, <1>9
    <2> HIDE DEF b
    <2>2. i % M = b % M
      BY <1>2, <2>1, ModShift
    <2>3. i - b < M /\ b - i < M
      BY <1>1, <1>2 DEF b
    <2>4. i = b
      BY <1>2, <2>2, <2>3, ModNear
    <2>5. i = a + 1 /\ i + 1 = a + 2 /\ a <= i
      BY <1>2, <2>4 DEF b
    <2>6. Len(str) \in Nat
      OBVIOUS
    <2> QED BY <1>1, <2>5, <2>6
  <1> QED BY <1>6, <1>8, <1>9

-----------------------------------------------------------------------------
(* Information frames *)

\* What a frame completes does not depend on what it acknowledges.
LEMMA SameDispatch ==
    ASSUME NEW s \in Working, NEW t \in Working, Keeps(s, t), NEW g
    PROVE  ExpectedDispatch(t, g) = ExpectedDispatch(s, g)
  <1> DEFINE p == Reassemble(s, g)
             q == Reassemble(t, g)
             x == s.rx[s.store]
  <1>1. t.rbuf = s.rbuf /\ t.rlen = s.rlen /\ t.rx[t.store] = x
    BY DEF Keeps
  <1>2. Dispatched(t, g) = Dispatched(s, g) /\ q.rbuf = p.rbuf /\ q.rlen = p.rlen
    BY <1>1, SameBuffer
  <1> HIDE DEF p, q
  <1>3. Dispatched(q, x.segment) = Dispatched(p, x.segment)
    BY <1>2 DEF Dispatched
  <1> QED BY <1>1, <1>2, <1>3 DEF ExpectedDispatch, p, q

\* The receiving side changes between two steps of the sending side.
LEMMA StepReceives ==
    ASSUME NEW s, NEW t, NEW u, NEW v, NEW z2, NEW sx, NEW sy, NEW Ty, NEW ax, NEW ay,
           NEW a2, NEW suby, NEW dely, NEW del2,
           During(s, t, v, z2, sx, sy, Ty, ax, ay, suby, dely), t.out_q = << >>,
           u \in Working, Receives(t, u), u.expect = u.req,
           Heard(v, Len(sy), a2), Numbered(z2, sy, a2, Reach(u, a2)),
           RecvSide(u, sy, a2, Ty, suby, del2)
    PROVE  During(s, u, v, z2, sx, sy, Ty, ax, a2, suby, del2)
  <1> DEFINE h == Heard(v, Len(sy), ay)
             h2 == Heard(v, Len(sy), a2)
  <1> HIDE DEF h, h2
  <1>1. SendSide(t, sx, ax, h)
    BY DEF During, h
  <1>2. SendSide(u, sx, ax, h2)
    <2>1. h2
      BY DEF h2
    <2> QED BY <1>1, <2>1, QuietSide DEF Receives
  <1>3. u.num = t.num /\ u.unacked = t.unacked
    BY DEF Receives
  <1> QED BY <1>2, <1>3 DEF During, h2

\* What a device does with an information frame once the acknowledgement in it
\* is processed
TakeFrame(t, f) ==
    IF f.seq = t.expect THEN Expected(t, f.segment)
    ELSE IF (f.seq - t.expect) % SeqModulus < 2
         THEN AskFor(t, f.segment)
         ELSE [t EXCEPT !.flags = @ \cup {"rej"}]

\* The frames and SDUs taken with it
Taken(s, u, f, v, z2, sx, sy, Ty, ax, ay, suby, dely) ==
    LET expected == f.type = "I" /\ f.seq = s.expect
        del2 == dely \o IF expected THEN ExpectedDispatch(s, f.segment) ELSE << >>
    IN  \E a2 \in Nat : /\ ay <= a2 /\ a2 <= ay + 2 /\ a2 <= Len(sy)
                        /\ During(s, u, v, z2, sx, sy, Ty, ax, a2, suby, del2)

\* The frame calls for an answer: an acknowledgement, or the frame before it.
Noted(t, u) ==
    /\ Receives(t, u)
    /\ \/ "rr" \in u.flags
       \/ "srej" \in u.flags /\ Held(u)
       \/ /\ u.flags = t.flags \cup {"rej"} /\ u.rx = t.rx /\ u.store = t.store
          /\ u.final = t.final

\* l2cap_acl_classic_handler_for_channel, the payload of an information frame
LEMMA StepInformation ==
    ASSUME NEW s, NEW v, NEW w, NEW z, NEW sx, NEW sy, NEW Tx, NEW Ty, NEW ax, NEW ay,
           NEW subx, NEW suby, NEW delx, NEW dely,
           Both(s, v, w, z, sx, sy, Tx, Ty, ax, ay, subx, suby, delx, dely),
           z # << >>, Head(z).type = "I",
           NEW t, During(s, t, v, Tail(z), sx, sy, Ty, ax, ay, suby, dely),
           Keeps(s, t), t.out_q = << >>
    PROVE  /\ Taken(s, TakeFrame(t, Head(z)), Head(z), v, Tail(z), sx, sy, Ty, ax, ay,
                    suby, dely)
           /\ TakeFrame(t, Head(z)).open = s.open
           /\ Noted(t, TakeFrame(t, Head(z)))
  <1> DEFINE f == Head(z)
             z2 == Tail(z)
             u == TakeFrame(t, f)
             n == Len(sy)
             reach == Reach(s, ay)
             g == f.segment
  <1>1. /\ sx \in Seq(Segment) /\ sy \in Seq(Segment) /\ ax \in Nat /\ ay \in Nat
        /\ z \in Seq(Frame) /\ n \in Nat /\ s \in Working /\ ay <= n
        /\ reach \in Nat /\ reach <= n /\ s.expect = ay % SeqModulus
        /\ Numbered(z, sy, ay, reach) /\ Stream(suby, sy, Ty)
        /\ (Evidence(s, z, w) => Heard(v, n, ay))
    BY BothFacts DEF Both, Direction
  <1>2. Heard(v, n, ay)
    <2>1. 1 \in 1..Len(z) /\ z[1] = Head(z)
      BY <1>1, TailIndex
    <2>2. Evidence(s, z, w)
      BY <2>1 DEF Evidence
    <2> QED BY <1>1, <2>2
  <1>3. /\ t \in Working /\ t.expect = t.req /\ RecvSide(t, sy, ay, Ty, suby, dely)
        /\ Reach(t, ay) = reach
    <2>1. Held(t) = Held(s)
      BY DEF Held, Keeps
    <2> QED BY <2>1 DEF During, SendSide, Reach
  <1>4. t.expect = ay % SeqModulus /\ t.open = s.open
    BY <1>1 DEF Keeps
  <1>5. ay <= reach /\ (Held(t) => reach = ay + 2) /\ (~Held(t) => reach = ay)
    <2>1. Held(t) = Held(s)
      BY DEF Held, Keeps
    <2> QED BY <1>1, <2>1 DEF Reach
  <1>0. f.type = "I"
    OBVIOUS
  <1> HIDE DEF reach, f, z2, n
  <1>6. PICK i \in Nat :
            /\ Placed(f, i, sy, ay, reach)
            /\ \A a2, r2 \in Nat :
                    ay <= a2 /\ (r2 <= reach \/ r2 <= i + 1) => Numbered(z2, sy, a2, r2)
    BY <1>1, NumberedHead DEF f, z2
  <1>7. dely \in Seq(Sdu)
    BY <1>3 DEF RecvSide, Assembly
  <1>8. dely \o << >> = dely
    BY <1>7
  <1>9. CASE f.seq = t.expect
    <2> DEFINE a2 == IF Held(t) THEN ay + 2 ELSE ay + 1
               out == ExpectedDispatch(t, g)
               del2 == dely \o out
    <2>1. i = ay /\ g = sy[ay + 1] /\ ay < Len(sy)
      BY <1>1, <1>4, <1>5, <1>6, <1>9, InSequence
    <2>2. u = Expected(t, g)
      BY <1>9 DEF TakeFrame
    <2>3. /\ u \in Working /\ Receives(t, u) /\ u.expect = u.req /\ ~Held(u)
          /\ u.flags = t.flags \cup {"rr"}
          /\ a2 <= Len(sy) /\ RecvSide(u, sy, a2, Ty, suby, del2)
      BY <1>1, <1>3, <2>1, <2>2, ExpectedTaken
    <2>4. out = ExpectedDispatch(s, g)
      BY <1>1, <1>3, SameDispatch
    <2>5. a2 \in Nat /\ ay <= a2 /\ a2 <= ay + 2 /\ (a2 <= reach \/ a2 <= i + 1)
      BY <1>1, <1>5, <2>1
    <2> HIDE DEF a2, u, out
    <2>6. Reach(u, a2) = a2
      BY <2>3 DEF Reach
    <2>7. Numbered(z2, sy, a2, Reach(u, a2))
      BY <1>6, <2>5, <2>6
    <2>8. Heard(v, Len(sy), a2)
      BY <1>1, <1>2, <2>5 DEF Heard, n
    <2>9. During(s, u, v, z2, sx, sy, Ty, ax, a2, suby, del2)
      BY <2>3, <2>7, <2>8, StepReceives DEF z2
    <2>10. f.seq = s.expect
      BY <1>9 DEF Keeps
    <2>11. Taken(s, u, f, v, z2, sx, sy, Ty, ax, ay, suby, dely)
      BY <1>0, <2>3, <2>4, <2>5, <2>9, <2>10 DEF Taken
    <2>12. u.open = s.open
      BY <1>4, <2>3 DEF Receives
    <2>13. Noted(t, u)
      BY <2>3 DEF Noted
    <2> QED BY <2>11, <2>12, <2>13 DEF u, f, z2
  <1>10. CASE f.seq # t.expect /\ (f.seq - t.expect) % SeqModulus < 2
    <2>1. i = ay + 1 /\ g = sy[ay + 2] /\ ay + 2 <= Len(sy)
      BY <1>1, <1>4, <1>5, <1>6, <1>10, OutOfSequence
    <2>2. u = AskFor(t, g)
      BY <1>10 DEF TakeFrame
    <2>3. g \in Segment
      <3>1. ay + 2 \in 1..Len(sy)
        BY <1>1, <2>1 DEF n
      <3> QED BY <1>1, <2>1, <3>1
    <2> HIDE DEF u, g
    <2>4. /\ u \in Working /\ Receives(t, u) /\ u.expect = t.expect /\ u.req = t.req
          /\ u.flags = t.flags \cup {"srej"}
          /\ Held(u) /\ RecvSide(u, sy, ay, Ty, suby, dely)
      BY <1>1, <1>3, <2>1, <2>2, <2>3, StoreTaken
    <2>5. Reach(u, ay) = ay + 2 /\ ay + 2 \in Nat /\ ay + 2 <= i + 1 /\ ay <= ay
      BY <1>1, <2>1, <2>4 DEF Reach
    <2>6. Numbered(z2, sy, ay, Reach(u, ay))
      BY <1>1, <1>6, <2>5
    <2>7. During(s, u, v, z2, sx, sy, Ty, ax, ay, suby, dely)
      BY <1>2, <1>3, <2>4, <2>6, StepReceives DEF z2, n
    <2>8. f.seq # s.expect
      BY <1>10 DEF Keeps
    <2>9. Taken(s, u, f, v, z2, sx, sy, Ty, ax, ay, suby, dely)
      BY <1>1, <1>8, <2>5, <2>7, <2>8 DEF Taken, n
    <2>10. u.open = s.open
      BY <1>4, <2>4 DEF Receives
    <2>11. Noted(t, u)
      BY <2>4 DEF Noted
    <2> QED BY <2>9, <2>10, <2>11 DEF u, f, z2
  <1>11. CASE f.seq # t.expect /\ ~((f.seq - t.expect) % SeqModulus < 2)
    <2>1. u = [t EXCEPT !.flags = @ \cup {"rej"}]
      BY <1>11 DEF TakeFrame
    <2> HIDE DEF u
    <2>2. u \in Working
      BY <1>3, <2>1 DEF Working, Flag
    <2>3. SameSending(t, u) /\ Keeps(t, u) /\ u.flags = t.flags \cup {"rej"}
      BY <1>3, <2>1 DEF Working, SameSending, SameRing, Keeps
    <2>4. During(s, u, v, z2, sx, sy, Ty, ax, ay, suby, dely)
      BY <2>2, <2>3, StepSettings DEF z2, Keeps
    <2>5. f.seq # s.expect
      BY <1>11 DEF Keeps
    <2>6. ay <= ay /\ ay <= ay + 2
      BY <1>1
    <2>7. Taken(s, u, f, v, z2, sx, sy, Ty, ax, ay, suby, dely)
      BY <1>1, <1>8, <2>4, <2>5, <2>6 DEF Taken, n
    <2>8. u.open = s.open
      BY <1>4, <2>3 DEF Keeps
    <2>9. Receives(t, u) /\ u.final = t.final
      BY <1>3, <2>1 DEF Working, Receives
    <2>10. Noted(t, u)
      BY <2>3, <2>9 DEF Noted, Keeps
    <2> QED BY <2>7, <2>8, <2>10 DEF u, f, z2
  <1> QED BY <1>9, <1>10, <1>11

-----------------------------------------------------------------------------
(* A frame arrives *)

\* The first frame is off the link, nothing else was done yet.
LEMMA FrameArrives ==
    ASSUME NEW s, NEW v, NEW w, NEW z, NEW sx, NEW sy, NEW Tx, NEW Ty, NEW ax, NEW ay,
           NEW subx, NEW suby, NEW delx, NEW dely,
           Both(s, v, w, z, sx, sy, Tx, Ty, ax, ay, subx, suby, delx, dely), z # << >>
    PROVE  /\ During(s, s, v, Tail(z), sx, sy, Ty, ax, ay, suby, dely)
           /\ \E b \in Nat : /\ Head(z).req = b % SeqModulus /\ Len(sx) - s.num <= b
                             /\ b <= ax /\ Acks(Tail(z), b, ax)
  <1> DEFINE low == Len(sx) - s.num
             reach == Reach(s, ay)
  <1>1. /\ z \in Seq(Frame) /\ sx \in Seq(Segment) /\ sy \in Seq(Segment) /\ ax \in Nat
        /\ ay \in Nat /\ low \in Nat /\ reach \in Nat
    <2>1. /\ z \in Seq(Frame) /\ sx \in Seq(Segment) /\ sy \in Seq(Segment) /\ ax \in Nat
          /\ ay \in Nat /\ Len(sx) \in Nat /\ s.num \in Nat /\ s.num <= Len(sx)
          /\ reach \in Nat
      BY BothFacts
    <2> QED BY <2>1
  <1>2. During(s, s, v, z, sx, sy, Ty, ax, ay, suby, dely)
    BY StepBegins
  <1>3. Acks(z, low, ax) /\ Numbered(z, sy, ay, reach)
    BY <1>2 DEF During
  <1> HIDE DEF low, reach
  <1>4. PICK b \in Nat : /\ Head(z).req = b % SeqModulus
                         /\ low <= b /\ b <= ax /\ Acks(Tail(z), b, ax)
    BY <1>1, <1>3, AcksHead
  <1>5. Tail(z) \in Seq(Frame)
    BY <1>1, TailIndex
  <1>6. Acks(Tail(z), low, ax)
    <2>1. ax <= ax
      BY <1>1
    <2> QED BY <1>1, <1>4, <1>5, <2>1, AcksWiden
  <1>7. Numbered(Tail(z), sy, ay, reach)
    BY <1>1, <1>3, NumberedHead
  <1>8. During(s, s, v, Tail(z), sx, sy, Ty, ax, ay, suby, dely)
    BY <1>2, <1>6, <1>7 DEF During, low, reach
  <1> QED BY <1>4, <1>8 DEF low

\* The acknowledgement of a frame that is off the link
LEMMA StepAcknowledges ==
    ASSUME NEW s, NEW t, NEW v, NEW z2 \in Seq(Frame), NEW sx \in Seq(Segment), NEW sy,
           NEW Ty, NEW ax \in Nat, NEW a2, NEW suby, NEW del2,
           During(s, t, v, z2, sx, sy, Ty, ax, a2, suby, del2), NEW f,
           NEW b \in Nat, Len(sx) - t.num <= b, b <= ax, Acks(z2, b, ax),
           f.req = b % SeqModulus, t.out_q = << >>
    PROVE  /\ During(s, ProcessReqSeq(t, f.req), v, z2, sx, sy, Ty, ax, a2, suby, del2)
           /\ Keeps(t, ProcessReqSeq(t, f.req)) /\ ProcessReqSeq(t, f.req).out_q = << >>
  <1> DEFINE p == ProcessReqSeq(t, f.req)
  <1>1. During(s, p, v, z2, sx, sy, Ty, ax, a2, suby, del2) /\ Keeps(t, p)
    BY StepAcked
  <1>2. p.out_q = t.out_q
    <2>1. t \in Working
      BY DEF During, SendSide
    <2> QED BY <2>1 DEF ProcessReqSeq, NotifyApplication, Working
  <1> HIDE DEF p
  <1>3. p.out_q = << >>
    BY <1>2
  <1> QED BY <1>1, <1>3 DEF p

\* l2cap_acl_classic_handler_for_channel
LEMMA StepHandle ==
    ASSUME NEW s, NEW v, NEW w, NEW z, NEW sx, NEW sy, NEW Tx, NEW Ty, NEW ax, NEW ay,
           NEW subx, NEW suby, NEW delx, NEW dely,
           Both(s, v, w, z, sx, sy, Tx, Ty, ax, ay, subx, suby, delx, dely), z # << >>,
           s.open
    PROVE  /\ Taken(s, Handle(s, Head(z)), Head(z), v, Tail(z), sx, sy, Ty, ax, ay,
                    suby, dely)
           /\ Handle(s, Head(z)).open = s.open
  <1> DEFINE f == Head(z)
             z2 == Tail(z)
             Now(u) == During(s, u, v, z2, sx, sy, Ty, ax, ay, suby, dely)
             t == IF f.final THEN [s EXCEPT !.wait = FALSE] ELSE s
             Good(u) == /\ Taken(s, u, f, v, z2, sx, sy, Ty, ax, ay, suby, dely)
                        /\ u.open = s.open
             rej == NotifyCanSend(Retransmit(ProcessReqSeq(t, f.req)))
  <1>1. /\ sx \in Seq(Segment) /\ ax \in Nat /\ ay \in Nat /\ z \in Seq(Frame)
        /\ s \in Working /\ ay <= Len(sy) /\ s.out_q = << >>
    BY BothFacts
  <1>2. z2 \in Seq(Frame) /\ f \in Frame /\ 1 \in 1..Len(z) /\ z[1] = f
    BY <1>1, TailIndex
  <1>3. Now(s)
    BY FrameArrives
  <1>4. PICK b \in Nat : /\ f.req = b % SeqModulus /\ Len(sx) - s.num <= b
                         /\ b <= ax /\ Acks(z2, b, ax)
    BY FrameArrives
  <1>5. /\ Now(t) /\ Keeps(s, t) /\ t.num = s.num /\ t.unacked = s.unacked
        /\ t.out_q = << >>
    <2>1. CASE t = s
      BY <1>1, <1>3, <2>1 DEF Keeps
    <2>2. CASE t = [s EXCEPT !.wait = FALSE]
      <3> DEFINE e == [s EXCEPT !.wait = FALSE]
      <3>1. e \in Working
        BY <1>1 DEF Working
      <3>2. SameSending(s, e) /\ Keeps(s, e) /\ e.flags = s.flags
        BY <1>1 DEF Working, SameSending, SameRing, Keeps
      <3> HIDE DEF e
      <3>3. Now(e)
        BY <1>3, <3>1, <3>2, StepSettings DEF Keeps
      <3>4. t = e
        BY <2>2 DEF e
      <3> HIDE DEF t
      <3> QED BY <1>1, <3>2, <3>3, <3>4 DEF SameSending, SameRing
    <2> QED BY <2>1, <2>2
  <1> HIDE DEF t
  <1>6. ASSUME NEW u, Now(u), Keeps(t, u), f.type # "I" PROVE Good(u)
    <2>1. dely \o << >> = dely
      <3>1. dely \in Seq(Sdu)
        BY <1>3 DEF During, RecvSide, Assembly
      <3> QED BY <3>1
    <2>2. u.open = s.open
      BY <1>5, <1>6 DEF Keeps
    <2>3. ay <= ay /\ ay <= ay + 2
      BY <1>1
    <2> QED BY <1>1, <1>6, <2>1, <2>2, <2>3 DEF Taken
  <1>7. f.type = "RR" => Good(HandleRR(t, f))
    <2>1. Now(HandleRR(t, f)) /\ Keeps(t, HandleRR(t, f))
      BY <1>1, <1>2, <1>4, <1>5, StepRR
    <2> QED BY <1>6, <2>1
  <1>8. f.type = "REJ" => Good(rej)
    <2>1. Now(rej) /\ Keeps(t, rej)
      BY <1>1, <1>2, <1>4, <1>5, StepRej
    <2> QED BY <1>6, <2>1
  <1>9. f.type = "RNR" => Good(t)
    <2>1. Keeps(t, t)
      BY DEF Keeps
    <2> QED BY <1>5, <1>6, <2>1
  <1>10. f.type = "SREJ" => Good(HandleSrej(t, f))
    <2> SUFFICES ASSUME f.type = "SREJ" PROVE Good(HandleSrej(t, f))
      OBVIOUS
    <2>1. Evidence(v, w, z)
      BY <1>2 DEF Evidence
    <2>2. Heard(s, Len(sx), ax)
      BY <2>1 DEF Both, Direction
    <2>3. Heard(t, Len(sx), ax)
      BY <1>5, <2>2 DEF Heard
    <2>4. Now(HandleSrej(t, f)) /\ Keeps(t, HandleSrej(t, f))
      BY <1>1, <1>4, <1>5, <2>3, StepSrej
    <2> QED BY <1>6, <2>4
  <1>11. f.type = "I" => Good(HandleI(t, f))
    <2> SUFFICES ASSUME f.type = "I" PROVE Good(HandleI(t, f))
      OBVIOUS
    <2> DEFINE p == ProcessReqSeq(t, f.req)
               r == Retransmit(p)
               e == IF f.final THEN r ELSE p
    <2>1. Now(p) /\ Keeps(t, p) /\ p.out_q = << >>
      BY <1>1, <1>2, <1>4, <1>5, StepAcknowledges, ZenonT(60)
    <2>2. HandleI(t, f) = TakeFrame(e, f)
      BY DEF HandleI, TakeFrame, AskFor
    <2> HIDE DEF p
    <2>3. Now(r) /\ Keeps(p, r) /\ r.out_q = << >>
      BY <1>1, <2>1, StepRetransmits
    <2> HIDE DEF r
    <2>4. Now(e) /\ e.out_q = << >>
      <3> HIDE DEF Now
      <3> QED BY <2>1, <2>3
    <2>5. Keeps(s, e)
      BY <1>5, <2>1, <2>3 DEF Keeps
    <2> HIDE DEF e
    <2>6. Good(TakeFrame(e, f))
      BY <2>4, <2>5, StepInformation
    <2> QED BY <2>2, <2>6
  <1>12. f.type \in {"I", "RR", "RNR", "REJ", "SREJ"}
    BY <1>2 DEF Frame
  <1> HIDE DEF Good
  <1>13. Handle(s, f) = CASE f.type = "I"    -> HandleI(t, f)
                          [] f.type = "RR"   -> HandleRR(t, f)
                          [] f.type = "REJ"  -> rej
                          [] f.type = "RNR"  -> t
                          [] f.type = "SREJ" -> HandleSrej(t, f)
    BY Zenon DEF Handle, t
  <1> HIDE DEF rej
  <1>14. \/ f.type = "I" /\ Handle(s, f) = HandleI(t, f)
         \/ f.type = "RR" /\ Handle(s, f) = HandleRR(t, f)
         \/ f.type = "REJ" /\ Handle(s, f) = rej
         \/ f.type = "RNR" /\ Handle(s, f) = t
         \/ f.type = "SREJ" /\ Handle(s, f) = HandleSrej(t, f)
    <2> HIDE DEF f
    <2>1. CASE f.type = "I"
      BY <1>13, <2>1, Zenon
    <2>2. CASE f.type = "RR"
      BY <1>13, <2>2, Zenon
    <2>3. CASE f.type = "REJ"
      BY <1>13, <2>3, Zenon
    <2>4. CASE f.type = "RNR"
      BY <1>13, <2>4, Zenon
    <2>5. CASE f.type = "SREJ"
      BY <1>13, <2>5, Zenon
    <2> QED BY <1>12, <2>1, <2>2, <2>3, <2>4, <2>5
  <1>15. Good(Handle(s, f))
    BY <1>7, <1>8, <1>9, <1>10, <1>11, <1>14
  <1> QED BY <1>15 DEF Good

\* The step from one expected sequence number to another counts the frames taken.
LEMMA CountTaken ==
    ASSUME NEW a \in Nat, NEW b \in Nat, a <= b, b <= a + 2
    PROVE  a + (((b % SeqModulus) - (a % SeqModulus)) % SeqModulus) = b
  <1> DEFINE n == b - a
  <1>1. SeqModulus \in Nat \ {0} /\ SeqModulus > 2
    BY ErtmAssumption
  <1>2. ((b % SeqModulus) - (a % SeqModulus)) % SeqModulus = n % SeqModulus
    <2>1. a \in Int /\ b \in Int
      OBVIOUS
    <2> QED BY <1>1, <2>1, ModDiff, Zenon
  <1>3. n \in 0..(SeqModulus - 1) /\ a + n = b
    BY <1>1
  <1> HIDE DEF n
  <1>4. n % SeqModulus = n
    BY <1>1, <1>3, ModSmall
  <1> QED BY <1>2, <1>3, <1>4

\* Receive: what the step counts as accepted is what the receiving side took.
LEMMA StepReceive ==
    ASSUME NEW s, NEW v, NEW w, NEW z, NEW sx, NEW sy, NEW Tx, NEW Ty, NEW ax, NEW ay,
           NEW subx, NEW suby, NEW delx, NEW dely,
           Both(s, v, w, z, sx, sy, Tx, Ty, ax, ay, subx, suby, delx, dely), z # << >>,
           s.open, NEW u, u = Run(Handle(s, Head(z)), FALSE), NEW a2,
           a2 = ay + ((u.expect - s.expect) % SeqModulus), NEW del2,
           del2 = dely \o IF Head(z).type = "I" /\ Head(z).seq = s.expect
                          THEN ExpectedDispatch(s, Head(z).segment) ELSE << >>
    PROVE  /\ Both([u EXCEPT !.out_q = << >>], v, w \o u.out_q, Tail(z), sx, sy, Tx, Ty,
                   ax, a2, subx, suby, delx, del2)
           /\ u.open = s.open
  <1> DEFINE f == Head(z)
             t == Handle(s, f)
             z2 == Tail(z)
  <1>1. Taken(s, t, f, v, z2, sx, sy, Ty, ax, ay, suby, dely) /\ t.open = s.open
    BY StepHandle
  <1>2. /\ sx \in Seq(Segment) /\ ax \in Nat /\ ay \in Nat /\ Len(sy) \in Nat
        /\ s.expect = ay % SeqModulus
    BY BothFacts
  <1> HIDE DEF t
  <1>3. PICK b \in Nat :
            /\ ay <= b /\ b <= ay + 2 /\ b <= Len(sy)
            /\ During(s, t, v, z2, sx, sy, Ty, ax, b, suby, del2)
    BY <1>1 DEF Taken
  <1>4. u = Run(t, FALSE)
    BY DEF t
  <1> HIDE DEF f, z2
  <1>5. During(s, u, v, z2, sx, sy, Ty, ax, b, suby, del2) /\ Keeps(t, u)
    <2>1. FALSE \in BOOLEAN
      OBVIOUS
    <2> QED BY <1>2, <1>3, <1>4, <2>1, StepRuns
  <1>6. u.expect = b % SeqModulus
    BY <1>5 DEF During, RecvSide
  <1>7. a2 = b
    <2>1. ay + (((b % SeqModulus) - (ay % SeqModulus)) % SeqModulus) = b
      BY <1>2, <1>3, CountTaken
    <2> QED BY <1>2, <1>6, <2>1
  <1>8. Both([u EXCEPT !.out_q = << >>], v, w \o u.out_q, z2, sx, sy, Tx, Ty,
             ax, b, subx, suby, delx, del2)
    <2>1. z # << >> /\ z2 = Tail(z)
      BY DEF z2
    <2> QED BY <1>3, <1>5, <2>1, StepDone
  <1>9. u.open = s.open
    BY <1>1, <1>5 DEF Keeps
  <1> QED BY <1>7, <1>8, <1>9 DEF z2

-----------------------------------------------------------------------------
(* An SDU is stored *)

\* What storing frames leaves alone
Stores(s, t, k) ==
    /\ Keeps(s, t) /\ t.num = s.num + k /\ t.unacked = s.unacked
    /\ t.flags = s.flags /\ t.out_q = s.out_q
    /\ t.retrans = s.retrans /\ t.monitor = s.monitor /\ t.final = s.final

\* l2cap_ertm_store_fragment overwrites only a frame that is acknowledged.
LEMMA StoreSide ==
    ASSUME NEW s, NEW str \in Seq(Segment), NEW a \in Nat, NEW h, SendSide(s, str, a, h),
           s.out_q = << >>, s.num < NumTx, NEW g \in Segment
    PROVE  /\ SendSide(StoreFragment(s, g), Append(str, g), a, h)
           /\ Stores(s, StoreFragment(s, g), 1)
  <1> DEFINE t == StoreFragment(s, g)
             n == Len(str)
             buffer == [seq |-> s.next, state |-> "new", retry |-> 0, segment |-> g]
             str2 == Append(str, g)
  <1>1. /\ s \in Working /\ s.tx \in [TxIndex -> TxBuffer] /\ s.num \in Nat
        /\ s.unacked \in Nat /\ s.unacked <= s.num /\ s.num <= n /\ n \in Nat
        /\ n - s.num <= a /\ a <= n /\ ~s.waiting /\ s.expect = s.req
        /\ s.read = (n - s.num) % NumTx /\ s.unacked <= Window
        /\ a = 0 => Early(s) /\ s.num = n
    BY SideFacts
  <1>2. /\ Ring(s, n) /\ Slots(s, str) /\ Unused(s, n)
        /\ "srej" \in s.flags => h
    BY DEF SendSide
  <1>3. s.write = n % NumTx /\ s.next = n % SeqModulus
    BY <1>2 DEF Ring
  <1>4. s.write \in TxIndex /\ s.next \in SeqNr
    BY <1>1 DEF Working
  <1>5. /\ Len(str2) = n + 1 /\ str2[n + 1] = g /\ str2 \in Seq(Segment)
        /\ \A p \in 1..n : str2[p] = str[p]
    BY AppendIndex
  <1> HIDE DEF n, str2
  <1>6. NumTx \in Nat \ {0} /\ SeqModulus \in Nat \ {0} /\ MaxTransmit \in Nat \ {0}
    BY Sizes
  <1>7. (s.write + 1) % NumTx = (n + 1) % NumTx
    <2>1. n \in Int /\ 1 \in Int
      BY <1>1
    <2> QED BY <1>3, <1>6, <2>1, ModAdd
  <1>8. (s.next + 1) % SeqModulus = (n + 1) % SeqModulus
    <2>1. n \in Int /\ 1 \in Int
      BY <1>1
    <2> QED BY <1>3, <1>6, <2>1, ModAdd
  <1>9. (n + 1) % NumTx \in TxIndex /\ (n + 1) % SeqModulus \in SeqNr
    <2>1. n + 1 \in Int
      BY <1>1
    <2> QED BY <2>1, NumberRange
  <1>10. buffer \in TxBuffer
    BY <1>4, <1>6 DEF TxBuffer
  <1> HIDE DEF buffer
  <1>11. t = [s EXCEPT !.tx[s.write] = buffer, !.num = @ + 1,
                       !.next = (n + 1) % SeqModulus, !.write = (n + 1) % NumTx]
    BY <1>7, <1>8 DEF StoreFragment, buffer
  <1> HIDE DEF t
  <1>12. /\ t.tx = [s.tx EXCEPT ![s.write] = buffer] /\ t.num = s.num + 1
         /\ t.next = (n + 1) % SeqModulus /\ t.write = (n + 1) % NumTx
         /\ t.read = s.read /\ t.unacked = s.unacked /\ t.send = s.send
         /\ t.waiting = s.waiting /\ t.flags = s.flags /\ t.out_q = s.out_q
         /\ t.retrans = s.retrans /\ t.monitor = s.monitor /\ t.final = s.final
    BY <1>1, <1>11 DEF Working
  <1>13. Keeps(s, t)
    BY <1>1, <1>11 DEF Working, Keeps
  <1>14. t.tx \in [TxIndex -> TxBuffer]
    BY <1>1, <1>10, <1>12
  <1>15. t \in Working
    <2>1. s.num + 1 \in 0..NumTx
      BY <1>1, <1>6
    <2>2. [s.tx EXCEPT ![s.write] = buffer] \in [TxIndex -> TxBuffer]
      BY <1>12, <1>14
    <2> DEFINE q == (n + 1) % SeqModulus
               r == (n + 1) % NumTx
    <2> HIDE DEF q, r
    <2>3. t = [s EXCEPT !.tx[s.write] = buffer, !.num = @ + 1, !.next = q, !.write = r]
      BY <1>11 DEF q, r
    <2>4. q \in SeqNr /\ r \in TxIndex
      BY <1>9 DEF q, r
    <2> QED BY <1>1, <2>1, <2>2, <2>3, <2>4 DEF Working
  <1>16. Ring(t, n + 1)
    <2>1. (n + 1) - t.num = n - s.num /\ t.num <= n + 1
      BY <1>1, <1>12
    <2> QED BY <1>1, <1>12, <2>1 DEF Ring
  <1>17. \A i \in TxIndex : t.tx[i] = IF i = s.write THEN buffer ELSE s.tx[i]
    BY <1>1, <1>12
  <1>18. Slots(t, str2)
    <2> SUFFICES ASSUME NEW j \in 0..n, n + 1 <= j + NumTx
                 PROVE  /\ t.tx[j % NumTx].seq = j % SeqModulus
                        /\ t.tx[j % NumTx].segment = str2[j + 1]
      BY <1>1, <1>5 DEF Slots
    <2>1. CASE j = n
      <3>1. t.tx[s.write] = buffer
        BY <1>4, <1>17
      <3>2. buffer.seq = s.next /\ buffer.segment = g
        BY DEF buffer
      <3> QED BY <1>3, <1>5, <2>1, <3>1, <3>2
    <2>2. CASE j # n
      <3>1. j \in 0..(n - 1) /\ n <= j + NumTx /\ j \in Int /\ n \in Int /\ n - j < NumTx
            /\ j - n < NumTx /\ j + 1 \in 1..n
        BY <1>1, <1>6, <2>2
      <3>2. j % NumTx # n % NumTx
        BY <1>6, <2>2, <3>1, ModNear
      <3>3. j % NumTx \in TxIndex
        BY <3>1, NumberRange
      <3>4. t.tx[j % NumTx] = s.tx[j % NumTx]
        BY <1>3, <1>17, <3>2, <3>3
      <3>5. s.tx[j % NumTx].seq = j % SeqModulus /\ s.tx[j % NumTx].segment = str[j + 1]
        BY <1>2, <3>1 DEF Slots, n
      <3> QED BY <1>5, <3>1, <3>4, <3>5
    <2> QED BY <2>1, <2>2
  <1>19. Unused(t, n + 1)
    <2> SUFFICES ASSUME NEW i \in TxIndex, n + 1 <= i
                 PROVE  t.tx[i].seq = 0 /\ t.tx[i].state # "again"
      BY DEF Unused
    <2>1. s.write <= n
      BY <1>1, <1>3, <1>6, ModBelow
    <2>2. i # s.write /\ n <= i
      BY <1>1, <1>4, <1>6, <2>1 DEF TxIndex
    <2> QED BY <1>2, <1>17, <2>2 DEF Unused
  <1>20. a = 0 => Early(t)
    <2> SUFFICES ASSUME a = 0 PROVE Early(t)
      OBVIOUS
    <2>1. s.num = n /\ Early(s) /\ n \in 0..(NumTx - 1)
      BY <1>1, <1>6
    <2>2. s.write = n
      BY <1>3, <1>6, <2>1, ModSmall
    <2>3. buffer.state = "new" /\ s.unacked <= s.write
      BY <1>1, <2>1, <2>2 DEF buffer
    <2>4. ASSUME NEW i \in TxIndex PROVE t.tx[i].state = "new" <=> t.unacked <= i
      BY <1>12, <1>17, <2>1, <2>3 DEF Early
    <2> QED BY <1>12, <2>1, <2>4 DEF Early
  <1>21. \A p \in 1..Len(t.out_q) : Fresh(t.out_q[p], t, str2, a, h)
    <2>1. 1..Len(t.out_q) = {}
      <3>1. Len(<< >>) = 0
        OBVIOUS
      <3> QED BY <1>12, <3>1
    <2> QED BY <2>1
  <1>22. /\ t.unacked <= t.num /\ t.unacked <= Window /\ ~t.waiting
         /\ (n + 1) - t.num <= a /\ a <= n + 1 /\ t.expect = t.req
         /\ "srej" \in t.flags => h
    BY <1>1, <1>2, <1>12, <1>13 DEF Keeps
  <1>23. SendSide(t, str2, a, h)
    BY <1>5, <1>15, <1>16, <1>18, <1>19, <1>20, <1>21, <1>22 DEF SendSide
  <1>24. Stores(s, t, 1)
    BY <1>12, <1>13 DEF Stores
  <1> QED BY <1>23, <1>24 DEF t, str2

\* The states g of the channel in the loop over the first n fragments of gs
StoreLoop(g, s, gs, n) ==
    g = [k \in 0..n |-> IF k = 0 THEN s ELSE StoreFragment(g[k - 1], gs[k])]

\* The loop is well defined.
LEMMA StoresExist ==
    ASSUME NEW s, NEW gs, NEW n \in Nat
    PROVE  \E g : StoreLoop(g, s, gs, n)
  <1> DEFINE Good(m) == \E g : g = [k \in 0..m |-> IF k = 0 THEN s
                                                   ELSE StoreFragment(g[k - 1], gs[k])]
             S == { m \in Nat : ~Good(m) }
  <1> SUFFICES ASSUME S # {} PROVE FALSE
    BY DEF StoreLoop
  <1> HIDE DEF Good
  <1>1. PICK m \in S : \A k \in Nat : k < m => k \notin S
    <2>1. S \in SUBSET Nat
      OBVIOUS
    <2> HIDE DEF S
    <2> QED BY <2>1, FirstMember
  <1>2. m \in Nat /\ ~Good(m) /\ \A l \in Nat : l < m => Good(l)
    BY <1>1
  <1> HIDE DEF S
  <1> USE DEF Good
  <1>3. m # 0
    <2> DEFINE g == [k \in 0..0 |-> s]
    <2>1. g = [k \in 0..0 |-> IF k = 0 THEN s ELSE StoreFragment(g[k - 1], gs[k])]
      OBVIOUS
    <2>2. Good(0)
      BY <2>1
    <2> QED BY <1>2, <2>2
  <1>4. PICK g : g = [k \in 0..(m - 1) |-> IF k = 0 THEN s
                                           ELSE StoreFragment(g[k - 1], gs[k])]
    <2>1. m - 1 \in Nat /\ m - 1 < m
      BY <1>2, <1>3
    <2>2. Good(m - 1)
      BY <1>2, <2>1
    <2> QED BY <2>2
  <1> DEFINE N(x, k) == StoreFragment(x, gs[k])
             e == [k \in 0..m |-> IF k <= m - 1 THEN g[k] ELSE StoreFragment(g[m - 1], gs[m])]
  <1> HIDE DEF N
  <1>5. \A k \in 0..(m - 1) : g[k] = IF k = 0 THEN s ELSE N(g[k - 1], k)
    BY <1>4 DEF N
  <1>6. \A k \in 0..m : e[k] = IF k <= m - 1 THEN g[k] ELSE N(g[m - 1], m)
    BY DEF N
  <1>7. ASSUME NEW k \in 0..m PROVE e[k] = IF k = 0 THEN s ELSE N(e[k - 1], k)
    <2>1. CASE k = 0
      <3>1. k \in 0..(m - 1) /\ k <= m - 1
        BY <1>2, <1>3, <2>1
      <3> QED BY <1>5, <1>6, <2>1, <3>1
    <2>2. CASE k # 0 /\ k <= m - 1
      <3>1. k \in 0..(m - 1) /\ k - 1 \in 0..m /\ k - 1 <= m - 1
        BY <1>2, <2>2
      <3>2. e[k] = g[k] /\ g[k] = N(g[k - 1], k) /\ e[k - 1] = g[k - 1]
        BY <1>5, <1>6, <2>2, <3>1
      <3> QED BY <2>2, <3>2
    <2>3. CASE k = m
      <3>1. m - 1 \in 0..m /\ m - 1 <= m - 1 /\ ~(m <= m - 1) /\ m \in 0..m
        BY <1>2, <1>3
      <3>2. e[m] = N(g[m - 1], m) /\ e[m - 1] = g[m - 1]
        BY <1>6, <3>1
      <3> QED BY <1>3, <2>3, <3>2
    <2> QED BY <1>2, <2>1, <2>2, <2>3
  <1>8. e = [k \in 0..m |-> IF k = 0 THEN s ELSE StoreFragment(e[k - 1], gs[k])]
    BY <1>7 DEF N
  <1> HIDE DEF e
  <1>9. Good(m)
    BY <1>8
  <1> QED BY <1>2, <1>9

\* One more piece of a sequence
LEMMA PrefixGrows ==
    ASSUME NEW str \in Seq(Segment), NEW gs \in Seq(Segment), NEW k \in 1..Len(gs)
    PROVE  Append(str \o SubSeq(gs, 1, k - 1), gs[k]) = str \o SubSeq(gs, 1, k)
  <1> DEFINE p == SubSeq(gs, 1, k - 1)
             q == SubSeq(gs, 1, k)
             l == str \o p
             r == str \o q
  <1>1. /\ p \in Seq(Segment) /\ Len(p) = k - 1 /\ \A i \in 1..(k - 1) : p[i] = gs[i]
    OBVIOUS
  <1>2. /\ q \in Seq(Segment) /\ Len(q) = k /\ \A i \in 1..k : q[i] = gs[i]
    OBVIOUS
  <1>0. p \in Seq(Segment) /\ q \in Seq(Segment)
    BY <1>1, <1>2
  <1> HIDE DEF p, q
  <1> DEFINE n == Len(str)
  <1>3. n \in Nat /\ gs[k] \in Segment /\ k \in Nat
    OBVIOUS
  <1>4. /\ l \in Seq(Segment) /\ Len(l) = n + (k - 1)
        /\ \A i \in 1..n : l[i] = str[i]
        /\ \A i \in 1..(n + (k - 1)) : i > n => i - n \in 1..(k - 1) /\ l[i] = p[i - n]
    <2>1. /\ l \in Seq(Segment) /\ Len(l) = Len(str) + Len(p)
          /\ \A i \in 1..Len(str) : l[i] = str[i]
          /\ \A i \in 1..(Len(str) + Len(p)) :
                i > Len(str) => i - Len(str) \in 1..Len(p) /\ l[i] = p[i - Len(str)]
      BY <1>0, ConcatIndex, Zenon
    <2> HIDE DEF l
    <2> QED BY <1>1, <2>1
  <1>5. /\ r \in Seq(Segment) /\ Len(r) = n + k
        /\ \A i \in 1..n : r[i] = str[i]
        /\ \A i \in 1..(n + k) : i > n => i - n \in 1..k /\ r[i] = q[i - n]
    <2>1. /\ r \in Seq(Segment) /\ Len(r) = Len(str) + Len(q)
          /\ \A i \in 1..Len(str) : r[i] = str[i]
          /\ \A i \in 1..(Len(str) + Len(q)) :
                i > Len(str) => i - Len(str) \in 1..Len(q) /\ r[i] = q[i - Len(str)]
      BY <1>0, ConcatIndex, Zenon
    <2> HIDE DEF r
    <2> QED BY <1>2, <2>1
  <1> HIDE DEF l, r, n
  <1> DEFINE b == Append(l, gs[k])
  <1>6. /\ b \in Seq(Segment) /\ Len(b) = (n + (k - 1)) + 1
        /\ \A i \in 1..(n + (k - 1)) : b[i] = l[i]
        /\ b[(n + (k - 1)) + 1] = gs[k]
    BY <1>3, <1>4, AppendIndex
  <1> HIDE DEF b
  <1>7. ASSUME NEW i \in 1..(n + k) PROVE b[i] = r[i]
    <2>1. CASE i <= n
      <3>1. i \in 1..n /\ i \in 1..(n + (k - 1))
        BY <1>3, <2>1
      <3> QED BY <1>4, <1>5, <1>6, <3>1
    <2>2. CASE i > n /\ i < n + k
      <3>1. i \in 1..(n + (k - 1))
        BY <1>3, <2>2
      <3>2. /\ b[i] = l[i] /\ l[i] = p[i - n] /\ i - n \in 1..(k - 1)
            /\ r[i] = q[i - n] /\ i - n \in 1..k
        BY <1>4, <1>5, <1>6, <2>2, <3>1
      <3> QED BY <1>1, <1>2, <3>2
    <2>3. CASE i = n + k
      <3>1. (n + (k - 1)) + 1 = n + k /\ i > n /\ i - n = k /\ k \in 1..k
        BY <1>3, <2>3
      <3>2. b[i] = gs[k] /\ r[i] = q[k]
        BY <1>5, <1>6, <2>3, <3>1
      <3> QED BY <1>2, <3>1, <3>2
    <2> QED BY <1>3, <2>1, <2>2, <2>3
  <1>8. b = r
    <2>1. Len(b) = n + k
      BY <1>3, <1>6
    <2> QED BY <1>5, <1>6, <1>7, <2>1, SeqEqual
  <1> QED BY <1>8 DEF b, l, r, p, q

\* The loop over the fragments in l2cap_ertm_send
LEMMA StoreAllSide ==
    ASSUME NEW s, NEW str \in Seq(Segment), NEW a \in Nat, NEW h, SendSide(s, str, a, h),
           s.out_q = << >>, NEW gs \in Seq(Segment), s.num + Len(gs) <= NumTx
    PROVE  /\ SendSide(StoreFragments(s, gs), str \o gs, a, h)
           /\ Stores(s, StoreFragments(s, gs), Len(gs))
  <1> DEFINE n == Len(gs)
             R == CHOOSE g : g = [k \in 0..n |-> IF k = 0 THEN s
                                                 ELSE StoreFragment(g[k - 1], gs[k])]
             N(x, k) == StoreFragment(x, gs[k])
             Q(k) == str \o SubSeq(gs, 1, k)
             Good(x, k) == SendSide(x, Q(k), a, h) /\ Stores(s, x, k)
  <1>1. n \in Nat /\ s.num \in Nat /\ NumTx \in Nat
    BY SideFacts, Sizes
  <1>2. StoreFragments(s, gs) = R[n]
    BY DEF StoreFragments
  <1>3. s.num + n <= NumTx
    OBVIOUS
  <1>4. \A k \in 1..n : gs[k] \in Segment
    OBVIOUS
  <1>5. Q(0) = str /\ Q(n) = str \o gs
    OBVIOUS
  <1>6. \A k \in 0..n : Q(k) \in Seq(Segment)
    OBVIOUS
  <1>7. \A k \in 1..n : Append(Q(k - 1), gs[k]) = Q(k)
    BY PrefixGrows
  <1> HIDE DEF n, Q
  <1>8. R = [k \in 0..n |-> IF k = 0 THEN s ELSE StoreFragment(R[k - 1], gs[k])]
    <2>1. \E g : StoreLoop(g, s, gs, n)
      BY <1>1, StoresExist
    <2> QED BY <2>1 DEF StoreLoop
  <1> HIDE DEF R
  <1>9. \A k \in 0..n : R[k] = IF k = 0 THEN s ELSE N(R[k - 1], k)
    BY <1>8
  <1>10. Good(s, 0)
    BY <1>1, <1>5 DEF Stores, Keeps
  <1>11. ASSUME NEW k \in 1..n, NEW x, Good(x, k - 1) PROVE Good(N(x, k), k)
    <2> DEFINE y == N(x, k)
               q == Q(k - 1)
               g == gs[k]
    <2>1. q \in Seq(Segment) /\ g \in Segment
      <3>1. k - 1 \in 0..n
        BY <1>1
      <3> QED BY <1>4, <1>6, <3>1
    <2>2. SendSide(x, q, a, h) /\ Stores(s, x, k - 1)
      BY <1>11
    <2>3. x.out_q = << >> /\ x.num < NumTx
      BY <1>1, <1>3, <2>2 DEF Stores
    <2> HIDE DEF q, g
    <2>4. SendSide(StoreFragment(x, g), Append(q, g), a, h)
          /\ Stores(x, StoreFragment(x, g), 1)
      BY <2>1, <2>2, <2>3, StoreSide
    <2>5. Append(q, g) = Q(k)
      BY <1>7 DEF q, g
    <2>6. y = StoreFragment(x, g)
      BY DEF g
    <2> HIDE DEF y
    <2>7. SendSide(y, Q(k), a, h) /\ Stores(x, y, 1)
      BY <2>4, <2>5, <2>6
    <2>8. y.num = s.num + k
      BY <1>1, <2>2, <2>7 DEF Stores
    <2>9. Stores(s, y, k)
      BY <2>2, <2>7, <2>8 DEF Stores, Keeps
    <2> QED BY <2>7, <2>9 DEF y
  <1> HIDE DEF N, Good
  <1> DEFINE S == { k \in 0..n : ~Good(R[k], k) }
  <1>12. S = {}
    <2> SUFFICES ASSUME S # {} PROVE FALSE
      OBVIOUS
    <2>1. S \in SUBSET Nat
      OBVIOUS
    <2>2. PICK m \in S : \A k \in Nat : k < m => k \notin S
      <3> HIDE DEF S
      <3> QED BY <2>1, FirstMember
    <2>3. m \in 0..n /\ ~Good(R[m], m) /\ \A k \in 0..n : k < m => Good(R[k], k)
      BY <2>2
    <2> HIDE DEF S
    <2>4. CASE m = 0
      BY <1>1, <1>9, <1>10, <2>3, <2>4
    <2>5. CASE m # 0
      <3>1. m - 1 \in 0..n /\ m - 1 < m /\ m \in 1..n
        BY <1>1, <2>3, <2>5
      <3>2. R[m] = N(R[m - 1], m) /\ Good(R[m - 1], m - 1)
        BY <1>9, <2>3, <2>5, <3>1
      <3> QED BY <1>11, <2>3, <3>1, <3>2
    <2> QED BY <2>4, <2>5
  <1>13. n \in 0..n
    BY <1>1
  <1>14. Good(R[n], n)
    BY <1>12, <1>13
  <1> QED BY <1>2, <1>5, <1>14 DEF Good, n

\* One more SDU
LEMMA StreamGrows ==
    ASSUME NEW sub, NEW str, NEW T, Stream(sub, str, T), NEW d \in Sdu
    PROVE  \E T2 : /\ Stream(Append(sub, d), str \o Segments(d), T2)
                   /\ \A k \in 0..Len(sub) : T2[k] = T[k]
  <1> DEFINE gs == Segments(d)
             m == Len(sub)
             n == Len(str)
             l == Len(d)
             sub2 == Append(sub, d)
             str2 == str \o gs
             T2 == [k \in 0..(m + 1) |-> IF k <= m THEN T[k] ELSE n + l]
  <1>1. /\ sub \in Seq(Sdu) /\ str \in Seq(Segment) /\ m \in Nat /\ n \in Nat
        /\ T \in [0..m -> Nat] /\ T[0] = 0 /\ T[m] = n
        /\ \A k \in 1..m : T[k] = T[k - 1] + Len(sub[k])
        /\ \A k, j \in 0..m : k <= j => T[k] <= T[j]
        /\ \A k \in 1..m : \A c \in 1..Len(sub[k]) : str[T[k - 1] + c] = Segments(sub[k])[c]
    BY DEF Stream
  <1>2. l \in Nat /\ 1 <= l /\ gs \in Seq(Segment) /\ Len(gs) = l
    BY SduFacts, SegmentFacts
  <1>3. /\ sub2 \in Seq(Sdu) /\ Len(sub2) = m + 1 /\ sub2[m + 1] = d
        /\ \A k \in 1..m : sub2[k] = sub[k]
    BY <1>1, AppendIndex
  <1>4. /\ str2 \in Seq(Segment) /\ Len(str2) = n + l
        /\ \A i \in 1..n : str2[i] = str[i]
        /\ \A i \in 1..(n + l) : i > n => str2[i] = gs[i - n]
    <2>1. /\ str2 \in Seq(Segment) /\ Len(str2) = Len(str) + Len(gs)
          /\ \A i \in 1..Len(str) : str2[i] = str[i]
          /\ \A i \in 1..(Len(str) + Len(gs)) :
                i > Len(str) => i - Len(str) \in 1..Len(gs) /\ str2[i] = gs[i - Len(str)]
      <3>1. gs \in Seq(Segment) /\ str \in Seq(Segment)
        BY <1>1, <1>2
      <3> HIDE DEF gs
      <3> QED BY <3>1, ConcatIndex, Zenon
    <2> HIDE DEF str2, gs
    <2> QED BY <1>2, <2>1
  <1>5. \A k \in 1..m : Len(sub[k]) \in Nat
    BY <1>1, SduFacts
  <1> HIDE DEF gs, m, n, l, sub2, str2
  <1>6. /\ \A k \in 0..m : T2[k] = T[k]
        /\ T2[m + 1] = n + l
    <2>1. \A k \in 0..m : k \in 0..(m + 1) /\ k <= m
      BY <1>1
    <2>2. m + 1 \in 0..(m + 1) /\ ~(m + 1 <= m)
      BY <1>1
    <2> QED BY <2>1, <2>2
  <1>7. T2 \in [0..(m + 1) -> Nat]
    <2> SUFFICES ASSUME NEW k \in 0..(m + 1)
                 PROVE  (IF k <= m THEN T[k] ELSE n + l) \in Nat
      OBVIOUS
    <2>1. k <= m => k \in 0..m
      BY <1>1
    <2> QED BY <1>1, <1>2, <2>1
  <1> HIDE DEF T2
  <1>8. T2[0] = 0
    <2>1. 0 \in 0..m
      BY <1>1
    <2> QED BY <1>1, <1>6, <2>1
  <1>9. ASSUME NEW k \in 1..(m + 1) PROVE T2[k] = T2[k - 1] + Len(sub2[k])
    <2>1. CASE k <= m
      <3>1. k \in 0..m /\ k - 1 \in 0..m /\ k \in 1..m
        BY <1>1, <2>1
      <3> QED BY <1>1, <1>3, <1>6, <3>1
    <2>2. CASE k = m + 1
      <3>1. k - 1 = m /\ m \in 0..m
        BY <1>1, <2>2
      <3> QED BY <1>1, <1>3, <1>6, <2>2, <3>1 DEF l
    <2> QED BY <1>1, <2>1, <2>2
  <1>10. ASSUME NEW k \in 0..(m + 1), NEW j \in 0..(m + 1), k <= j PROVE T2[k] <= T2[j]
    <2>1. CASE j <= m
      <3>1. k \in 0..m /\ j \in 0..m
        BY <1>1, <1>10, <2>1
      <3> QED BY <1>1, <1>6, <1>10, <3>1
    <2>2. CASE j = m + 1 /\ k <= m
      <3>1. k \in 0..m /\ m \in 0..m /\ k <= m
        BY <1>1, <2>2
      <3>2. T[k] <= T[m] /\ T[k] \in Nat
        BY <1>1, <3>1
      <3>3. T[k] <= n + l
        BY <1>1, <1>2, <3>2
      <3> QED BY <1>6, <2>2, <3>1, <3>3
    <2>3. CASE j = m + 1 /\ k = m + 1
      <3>1. n + l <= n + l
        BY <1>1, <1>2
      <3> QED BY <1>6, <2>3, <3>1
    <2> QED BY <1>1, <1>10, <2>1, <2>2, <2>3
  <1>11. ASSUME NEW k \in 1..(m + 1), NEW c \in 1..Len(sub2[k])
         PROVE  str2[T2[k - 1] + c] = Segments(sub2[k])[c]
    <2>1. CASE k <= m
      <3>1. k \in 1..m /\ k - 1 \in 0..m /\ k \in 0..m /\ m \in 0..m
        BY <1>1, <2>1
      <3>2. sub2[k] = sub[k] /\ T2[k - 1] = T[k - 1]
        BY <1>3, <1>6, <3>1
      <3>3. /\ T[k - 1] \in Nat /\ T[k] <= n /\ T[k] = T[k - 1] + Len(sub[k])
            /\ Len(sub[k]) \in Nat /\ c \in 1..Len(sub[k])
        BY <1>1, <1>5, <3>1, <3>2
      <3> DEFINE b == T[k - 1] + c
      <3>4. b \in 1..n
        <4> DEFINE e == Len(sub[k])
                   q == T[k - 1]
        <4>1. q \in Nat /\ q + e <= n /\ e \in Nat /\ c \in 1..e
          BY <3>3
        <4> HIDE DEF e, q
        <4>2. q + c \in 1..n
          BY <1>1, <4>1
        <4> QED BY <4>2 DEF q
      <3>5. str[b] = Segments(sub[k])[c]
        BY <1>1, <3>1, <3>3
      <3>6. str2[b] = str[b]
        <4> HIDE DEF b
        <4> QED BY <1>4, <3>4
      <3> QED BY <3>2, <3>5, <3>6
    <2>2. CASE k = m + 1
      <3>1. k - 1 = m /\ m \in 0..m
        BY <1>1, <2>2
      <3>2. T2[k - 1] = n /\ sub2[k] = d /\ c \in 1..l
        BY <1>1, <1>3, <1>6, <2>2, <3>1 DEF l
      <3>3. n + c \in 1..(n + l) /\ n + c > n /\ (n + c) - n = c
        BY <1>1, <1>2, <3>2
      <3>4. str2[n + c] = gs[c]
        BY <1>4, <3>3
      <3> QED BY <3>2, <3>4 DEF gs
    <2> QED BY <1>1, <2>1, <2>2
  <1>12. Stream(sub2, str2, T2)
    <2>1. T2 \in [0..Len(sub2) -> Nat] /\ T2[0] = 0 /\ T2[Len(sub2)] = Len(str2)
      BY <1>3, <1>4, <1>6, <1>7, <1>8
    <2>2. \A k \in 1..Len(sub2) : T2[k] = T2[k - 1] + Len(sub2[k])
      BY <1>3, <1>9
    <2>3. \A k, j \in 0..Len(sub2) : k <= j => T2[k] <= T2[j]
      BY <1>3, <1>10
    <2>4. \A k \in 1..Len(sub2) : \A c \in 1..Len(sub2[k]) :
            str2[T2[k - 1] + c] = Segments(sub2[k])[c]
      BY <1>3, <1>11
    <2> QED BY <1>3, <1>4, <2>1, <2>2, <2>3, <2>4 DEF Stream
  <1>13. \A k \in 0..Len(sub) : T2[k] = T[k]
    BY <1>6 DEF m
  <1> QED BY <1>12, <1>13 DEF sub2, str2, gs

\* What is reassembled does not depend on what comes later.
LEMMA AssemblyGrows ==
    ASSUME NEW buf, NEW len, NEW a, NEW T, NEW sub \in Seq(Sdu), NEW del, NEW T2,
           NEW d \in Sdu, Assembly(buf, len, a, T, sub, del),
           \A k \in 0..Len(sub) : T2[k] = T[k]
    PROVE  Assembly(buf, len, a, T2, Append(sub, d), del)
  <1> DEFINE s2 == Append(sub, d)
             m == Len(sub)
             e == Len(del)
  <1>1. /\ Len(s2) = m + 1 /\ m \in Nat /\ \A k \in 1..m : s2[k] = sub[k]
    BY AppendIndex
  <1>2. /\ del \in Seq(Sdu) /\ e \in Nat /\ e <= m
        /\ \A k \in 1..e : del[k] = sub[k]
        /\ a = T[e] + Len(buf)
        /\ buf # << >> => /\ e < m
                          /\ len = Len(sub[e + 1]) /\ Len(buf) < Len(sub[e + 1])
                          /\ \A k \in 1..Len(buf) : buf[k] = sub[e + 1][k]
    BY DEF Assembly
  <1>3. \A k \in 0..m : T2[k] = T[k]
    OBVIOUS
  <1> HIDE DEF s2, m, e
  <1>4. T2[e] = T[e]
    BY <1>1, <1>2, <1>3
  <1>5. e <= m + 1 /\ \A k \in 1..e : k \in 1..m
    BY <1>1, <1>2
  <1>6. buf # << >> => e < m + 1 /\ s2[e + 1] = sub[e + 1]
    <2>1. e < m => e < m + 1 /\ e + 1 \in 1..m
      BY <1>1, <1>2
    <2> QED BY <1>1, <1>2, <2>1
  <1> QED BY <1>1, <1>2, <1>4, <1>5, <1>6 DEF Assembly, e, s2

\* Storing an SDU keeps both directions.
LEMMA StepStores ==
    ASSUME NEW s, NEW v, NEW w, NEW z, NEW sx, NEW sy, NEW Tx, NEW Ty, NEW ax, NEW ay,
           NEW subx, NEW suby, NEW delx, NEW dely,
           Both(s, v, w, z, sx, sy, Tx, Ty, ax, ay, subx, suby, delx, dely),
           NEW d \in Sdu, s.num + Len(d) <= NumTx
    PROVE  \E T2 : Both(StoreFragments(s, Segments(d)), v, w, z, sx \o Segments(d), sy,
                        T2, Ty, ax, ay, Append(subx, d), suby, delx, dely)
  <1> DEFINE gs == Segments(d)
             l == Len(d)
             t == StoreFragments(s, gs)
             sx2 == sx \o gs
             sub2 == Append(subx, d)
             n == Len(sx)
  <1>1. /\ sx \in Seq(Segment) /\ sy \in Seq(Segment) /\ ax \in Nat /\ ay \in Nat
        /\ w \in Seq(Frame) /\ z \in Seq(Frame)
        /\ SendSide(s, sx, ax, Heard(v, Len(sy), ay))
        /\ SendSide(v, sy, ay, Heard(s, n, ax))
        /\ s.out_q = << >> /\ v.out_q = << >> /\ v \in Working
        /\ n \in Nat /\ s.num \in Nat /\ ay <= Len(sy) /\ Reach(v, ax) \in Nat
    BY BothFacts
  <1>2. /\ Direction(s, v, w, z, sx, Tx, ax, subx, delx)
        /\ Direction(v, s, z, w, sy, Ty, ay, suby, dely)
    BY DEF Both
  <1>3. Stream(subx, sx, Tx) /\ subx \in Seq(Sdu)
    BY <1>2 DEF Direction, Stream
  <1>4. gs \in Seq(Segment) /\ Len(gs) = l /\ l \in Nat
    BY SegmentFacts, SduFacts
  <1>5. PICK T2 : Stream(sub2, sx2, T2) /\ \A k \in 0..Len(subx) : T2[k] = Tx[k]
    BY <1>3, StreamGrows
  <1> HIDE DEF gs, sub2
  <1>6. SendSide(t, sx2, ax, Heard(v, Len(sy), ay)) /\ Stores(s, t, l)
    <2>1. s.num + Len(gs) <= NumTx
      BY <1>4
    <2> DEFINE h == Heard(v, Len(sy), ay)
    <2> HIDE DEF h
    <2>2. SendSide(s, sx, ax, h)
      BY <1>1 DEF h
    <2>3. SendSide(t, sx2, ax, h) /\ Stores(s, t, Len(gs))
      BY <1>1, <1>4, <2>1, <2>2, StoreAllSide
    <2> QED BY <1>4, <2>3 DEF h
  <1>7. /\ sx2 \in Seq(Segment) /\ Len(sx2) = n + l
        /\ \A i \in 1..n : sx2[i] = sx[i]
    <2>1. /\ sx2 \in Seq(Segment) /\ Len(sx2) = Len(sx) + Len(gs)
          /\ \A i \in 1..Len(sx) : sx2[i] = sx[i]
      BY <1>1, <1>4, ConcatIndex, Zenon
    <2> HIDE DEF sx2
    <2> QED BY <1>4, <2>1
  <1>8. Numbered(w, sx2, ax, Reach(v, ax))
    <2>1. Numbered(w, sx, ax, Reach(v, ax))
      BY <1>2 DEF Direction
    <2> DEFINE r == Reach(v, ax)
    <2> HIDE DEF r
    <2>2. Numbered(w, sx, ax, r) /\ r \in Nat
      BY <1>1, <2>1 DEF r
    <2>3. Numbered(w, sx \o gs, ax, r)
      BY <1>1, <1>4, <2>2, NumberedGrow
    <2> QED BY <2>3 DEF r
  <1> HIDE DEF t, sx2, n, l
  <1>9. /\ t.num = s.num + l /\ t.unacked = s.unacked /\ t.out_q = << >>
        /\ t.rx = s.rx /\ t.store = s.store /\ t.rlen = s.rlen /\ t.rbuf = s.rbuf
        /\ t.expect = s.expect
    BY <1>1, <1>6 DEF Stores, Keeps
  <1>10. Heard(s, n, ax) => Heard(t, Len(sx2), ax)
    BY <1>1, <1>4, <1>7, <1>9 DEF Heard
  <1>11. SendSide(v, sy, ay, Heard(t, Len(sx2), ax))
    <2>1. "srej" \in v.flags => Heard(t, Len(sx2), ax)
      BY <1>1, <1>10 DEF SendSide
    <2>2. v.expect = v.req
      BY <1>1 DEF SendSide
    <2> QED BY <1>1, <2>1, <2>2, QuietSide
  <1>12. Acks(z, Len(sx2) - t.num, ax)
    <2>1. Len(sx2) - t.num = n - s.num
      BY <1>1, <1>4, <1>7, <1>9
    <2> QED BY <1>2, <2>1 DEF Direction, n
  <1>13. Evidence(v, w, z) => Heard(t, Len(sx2), ax)
    BY <1>2, <1>10 DEF Direction, n
  <1>14. RecvSide(v, sx2, ax, T2, sub2, delx)
    <2>1. RecvSide(v, sx, ax, Tx, subx, delx)
      BY <1>2 DEF Direction
    <2>2. Assembly(v.rbuf, v.rlen, ax, Tx, subx, delx)
      BY <2>1 DEF RecvSide
    <2> DEFINE buf == v.rbuf
               len == v.rlen
    <2> HIDE DEF buf, len
    <2>3. Assembly(buf, len, ax, Tx, subx, delx)
      BY <2>2 DEF buf, len
    <2>4. Assembly(buf, len, ax, T2, sub2, delx)
      BY <1>3, <1>5, <2>3, AssemblyGrows DEF sub2
    <2>5. Held(v) => ax + 2 <= n + l /\ v.rx[v.store].segment = sx2[ax + 2]
      <3>1. Held(v) => ax + 2 <= n /\ v.rx[v.store].segment = sx[ax + 2]
        BY <2>1 DEF RecvSide, n
      <3>2. ax + 2 <= n => ax + 2 \in 1..n /\ ax + 2 <= n + l
        BY <1>1, <1>4
      <3> QED BY <1>7, <3>1, <3>2
    <2> QED BY <1>7, <2>1, <2>4, <2>5 DEF RecvSide, buf, len
  <1>15. Direction(t, v, w, z, sx2, T2, ax, sub2, delx)
    BY <1>5, <1>8, <1>12, <1>13, <1>14 DEF Direction
  <1>16. Direction(v, t, z, w, sy, Ty, ay, suby, dely)
    <2>1. Held(t) = Held(s)
      BY <1>9 DEF Held
    <2>2. Reach(t, ay) = Reach(s, ay)
      BY <2>1 DEF Reach
    <2>3. Evidence(t, z, w) => Evidence(s, z, w)
      BY <2>1 DEF Evidence
    <2>4. RecvSide(t, sy, ay, Ty, suby, dely)
      BY <1>2, <1>9, <2>1 DEF Direction, RecvSide
    <2> QED BY <1>2, <2>2, <2>3, <2>4 DEF Direction
  <1>17. Both(t, v, w, z, sx2, sy, T2, Ty, ax, ay, sub2, suby, delx, dely)
    BY <1>1, <1>6, <1>9, <1>11, <1>15, <1>16 DEF Both
  <1> QED BY <1>17 DEF t, sx2, sub2, gs

\* l2cap_ertm_send
LEMMA StepSend ==
    ASSUME NEW s, NEW v, NEW w, NEW z, NEW sx, NEW sy, NEW Tx, NEW Ty, NEW ax, NEW ay,
           NEW subx, NEW suby, NEW delx, NEW dely,
           Both(s, v, w, z, sx, sy, Tx, Ty, ax, ay, subx, suby, delx, dely),
           NEW d \in Sdu, CanStore(s),
           NEW u, u = NotifyCanSend(StoreFragments(s, Segments(d)))
    PROVE  /\ \E T2 : Both([u EXCEPT !.out_q = << >>], v, w \o u.out_q, z,
                           sx \o Segments(d), sy, T2, Ty, ax, ay, Append(subx, d), suby,
                           delx, dely)
           /\ Len(sx \o Segments(d)) = Len(sx) + Len(d)
           /\ u.open = s.open
  <1> DEFINE gs == Segments(d)
             t == StoreFragments(s, gs)
             sx2 == sx \o gs
             sub2 == Append(subx, d)
             h == Heard(v, Len(sy), ay)
  <1>1. /\ sx \in Seq(Segment) /\ ax \in Nat /\ ay \in Nat /\ ay <= Len(sy)
        /\ s.num \in Nat /\ SendSide(s, sx, ax, h) /\ s.out_q = << >>
    BY BothFacts
  <1>2. /\ gs \in Seq(Segment) /\ Len(gs) = Len(d) /\ Len(d) \in Nat /\ Len(d) <= MaxPieces
    BY SegmentFacts, SduFacts
  <1>3. s.num + Len(d) <= NumTx
    <2>1. MaxPieces <= NumTx - s.num /\ NumTx \in Nat /\ MaxPieces \in Nat
      BY Sizes DEF CanStore
    <2> QED BY <1>1, <1>2, <2>1
  <1>4. PICK T2 : Both(t, v, w, z, sx2, sy, T2, Ty, ax, ay, sub2, suby, delx, dely)
    BY <1>3, StepStores
  <1>5. t.open = s.open
    <2> HIDE DEF gs, h
    <2>1. Stores(s, t, Len(gs))
      BY <1>1, <1>2, <1>3, StoreAllSide
    <2> QED BY <2>1 DEF Stores, Keeps
  <1>6. u = NotifyCanSend(t) /\ Len(sx2) = Len(sx) + Len(d)
    <2>1. Len(sx2) = Len(sx) + Len(d)
      <3> HIDE DEF gs
      <3> QED BY <1>1, <1>2
    <2> QED BY <2>1
  <1> HIDE DEF t, sx2, sub2
  <1>7. During(t, t, v, z, sx2, sy, Ty, ax, ay, suby, dely)
    BY <1>4, StepBegins
  <1>8. SendSide(t, sx2, ax, h) /\ sx2 \in Seq(Segment)
    BY <1>4, BothFacts
  <1>9. SendSide(u, sx2, ax, h) /\ Sends(t, u)
    <2> HIDE DEF h
    <2> QED BY <1>1, <1>6, <1>8, NotifySide
  <1>10. During(t, u, v, z, sx2, sy, Ty, ax, ay, suby, dely)
    BY <1>7, <1>9, StepSends
  <1>11. Both([u EXCEPT !.out_q = << >>], v, w \o u.out_q, z, sx2, sy, T2, Ty, ax, ay,
              sub2, suby, delx, dely)
    <2>1. ay <= ay
      BY <1>1
    <2> QED BY <1>1, <1>4, <1>10, <2>1, StepDone
  <1>12. u.open = s.open
    BY <1>5, <1>9 DEF Sends, Keeps
  <1> QED BY <1>6, <1>11, <1>12 DEF sx2, sub2

-----------------------------------------------------------------------------
(* The other steps *)

\* A step that changes flags and timers only, before l2cap_run
LEMMA StepChanges ==
    ASSUME NEW s, NEW v, NEW w, NEW z, NEW sx, NEW sy, NEW Tx, NEW Ty, NEW ax, NEW ay,
           NEW subx, NEW suby, NEW delx, NEW dely,
           Both(s, v, w, z, sx, sy, Tx, Ty, ax, ay, subx, suby, delx, dely),
           NEW t \in Working, SameSending(s, t), t.rx = s.rx, t.store = s.store,
           t.rlen = s.rlen, t.rbuf = s.rbuf, "srej" \in t.flags => "srej" \in s.flags
    PROVE  During(s, t, v, z, sx, sy, Ty, ax, ay, suby, dely)
  <1>1. During(s, s, v, z, sx, sy, Ty, ax, ay, suby, dely)
    BY StepBegins
  <1> QED BY <1>1, StepSettings

\* A step that ends here, and one that ends with l2cap_run
LEMMA StepEnds ==
    ASSUME NEW s, NEW v, NEW w, NEW z, NEW sx, NEW sy, NEW Tx, NEW Ty, NEW ax, NEW ay,
           NEW subx, NEW suby, NEW delx, NEW dely,
           Both(s, v, w, z, sx, sy, Tx, Ty, ax, ay, subx, suby, delx, dely),
           NEW t, During(s, t, v, z, sx, sy, Ty, ax, ay, suby, dely),
           NEW u, u = t \/ \E notify \in BOOLEAN : u = Run(t, notify)
    PROVE  Both([u EXCEPT !.out_q = << >>], v, w \o u.out_q, z, sx, sy, Tx, Ty,
                ax, ay, subx, suby, delx, dely)
  <1>1. sx \in Seq(Segment) /\ ax \in Nat /\ ay \in Nat /\ ay <= Len(sy) /\ ay <= ay
    BY BothFacts
  <1>2. During(s, u, v, z, sx, sy, Ty, ax, ay, suby, dely)
    <2>1. CASE u = t
      BY <2>1
    <2>2. CASE \E notify \in BOOLEAN : u = Run(t, notify)
      <3>1. PICK notify \in BOOLEAN : u = Run(t, notify)
        BY <2>2
      <3> QED BY <1>1, <3>1, StepRuns
    <2> QED BY <2>1, <2>2
  <1> QED BY <1>1, <1>2, StepDone

\* A retry of the oldest frame is counted.
LEMMA StepCounts ==
    ASSUME NEW s, NEW v, NEW w, NEW z, NEW sx, NEW sy, NEW Tx, NEW Ty, NEW ax, NEW ay,
           NEW subx, NEW suby, NEW delx, NEW dely,
           Both(s, v, w, z, sx, sy, Tx, Ty, ax, ay, subx, suby, delx, dely),
           NEW c \in 0..MaxTransmit
    PROVE  During(s, [s EXCEPT !.tx[s.read].retry = c], v, z, sx, sy, Ty, ax, ay, suby, dely)
  <1> DEFINE t == [s EXCEPT !.tx[s.read].retry = c]
             h == Heard(v, Len(sy), ay)
             b == [s.tx[s.read] EXCEPT !.retry = c]
  <1>1. During(s, s, v, z, sx, sy, Ty, ax, ay, suby, dely)
    BY StepBegins
  <1>2. SendSide(s, sx, ax, h) /\ s \in Working /\ s.out_q = << >>
    BY BothFacts
  <1>3. s.tx \in [TxIndex -> TxBuffer] /\ s.read \in TxIndex
    BY <1>2 DEF Working
  <1>4. /\ b \in TxBuffer /\ b.seq = s.tx[s.read].seq /\ b.state = s.tx[s.read].state
        /\ b.segment = s.tx[s.read].segment
    <2>1. s.tx[s.read] \in TxBuffer
      BY <1>3
    <2> QED BY <2>1 DEF TxBuffer
  <1> HIDE DEF b
  <1>5. t = [s EXCEPT !.tx = [s.tx EXCEPT ![s.read] = b]]
    BY <1>2, <1>3 DEF Working, b
  <1> HIDE DEF t
  <1> DEFINE x == [s.tx EXCEPT ![s.read] = b]
  <1>6. /\ x \in [TxIndex -> TxBuffer]
        /\ \A i \in TxIndex : /\ x[i].seq = s.tx[i].seq /\ x[i].state = s.tx[i].state
                              /\ x[i].segment = s.tx[i].segment
    BY <1>3, <1>4
  <1> HIDE DEF x
  <1>7. t = [s EXCEPT !.tx = x]
    BY <1>5 DEF x
  <1>8. t \in Working
    BY <1>2, <1>6, <1>7 DEF Working
  <1>9. /\ t.tx = x /\ t.read = s.read /\ t.write = s.write /\ t.num = s.num
        /\ t.next = s.next /\ t.expect = s.expect /\ t.req = s.req /\ t.waiting = s.waiting
        /\ t.send = s.send /\ t.unacked = s.unacked /\ t.out_q = s.out_q
        /\ t.flags = s.flags
    BY <1>2, <1>7 DEF Working
  <1>10. t.rx = s.rx /\ t.store = s.store /\ t.rlen = s.rlen /\ t.rbuf = s.rbuf
    BY <1>2, <1>7 DEF Working
  <1>11. SendSide(t, sx, ax, h)
    <2> HIDE DEF h
    <2>1. Ring(t, Len(sx))
      BY <1>2, <1>9 DEF SendSide, Ring
    <2>2. Slots(t, sx)
      <3>1. ASSUME NEW j \in 0..(Len(sx) - 1), Len(sx) <= j + NumTx
            PROVE  /\ t.tx[j % NumTx].seq = j % SeqModulus
                   /\ t.tx[j % NumTx].segment = sx[j + 1]
        <4>1. /\ s.tx[j % NumTx].seq = j % SeqModulus
              /\ s.tx[j % NumTx].segment = sx[j + 1]
          BY <1>2, <3>1 DEF SendSide, Slots
        <4>2. j \in Int
          OBVIOUS
        <4>3. j % NumTx \in TxIndex
          BY <4>2, NumberRange
        <4> QED BY <1>6, <1>9, <4>1, <4>3
      <3> QED BY <3>1 DEF Slots
    <2>3. Unused(t, Len(sx))
      BY <1>2, <1>6, <1>9 DEF SendSide, Unused
    <2>4. ax = 0 => Early(t)
      BY <1>2, <1>6, <1>9 DEF SendSide, Early
    <2>5. \A p \in 1..Len(t.out_q) : Fresh(t.out_q[p], t, sx, ax, h)
      <3>1. 1..Len(t.out_q) = {}
        <4>1. Len(<< >>) = 0
          OBVIOUS
        <4> QED BY <1>2, <1>9, <4>1
      <3> QED BY <3>1
    <2> QED BY <1>2, <1>8, <1>9, <2>1, <2>2, <2>3, <2>4, <2>5 DEF SendSide
  <1>12. During(s, t, v, z, sx, sy, Ty, ax, ay, suby, dely)
    BY <1>1, <1>9, <1>10, <1>11, StepContinues
  <1> QED BY <1>12 DEF t

\* A frame is lost.
LEMMA StepLoses ==
    ASSUME NEW s, NEW v, NEW w, NEW z, NEW sx, NEW sy, NEW Tx, NEW Ty, NEW ax, NEW ay,
           NEW subx, NEW suby, NEW delx, NEW dely,
           Both(s, v, w, z, sx, sy, Tx, Ty, ax, ay, subx, suby, delx, dely), z # << >>
    PROVE  Both(s, v, w, Tail(z), sx, sy, Tx, Ty, ax, ay, subx, suby, delx, dely)
  <1>1. /\ w \in Seq(Frame) /\ s \in Working /\ s.out_q = << >> /\ ay \in Nat
        /\ ay <= Len(sy) /\ ay <= ay
    BY BothFacts
  <1>2. During(s, s, v, Tail(z), sx, sy, Ty, ax, ay, suby, dely)
    BY FrameArrives
  <1>3. Both([s EXCEPT !.out_q = << >>], v, w \o s.out_q, Tail(z), sx, sy, Tx, Ty,
             ax, ay, subx, suby, delx, dely)
    <2> DEFINE z2 == Tail(z)
    <2>1. z # << >> /\ z2 = Tail(z)
      OBVIOUS
    <2> HIDE DEF z2
    <2>2. During(s, s, v, z2, sx, sy, Ty, ax, ay, suby, dely)
      BY <1>2, <2>1
    <2> QED BY <1>1, <2>1, <2>2, StepDone
  <1>4. [s EXCEPT !.out_q = << >>] = s
    BY <1>1 DEF Working
  <1>5. w \o s.out_q = w
    BY <1>1
  <1> QED BY <1>3, <1>4, <1>5

-----------------------------------------------------------------------------
(* The inductive invariant *)

\* p and q are the segments that x and y stored.
Joined(x, y, p, q, Tp, Tq) ==
    /\ Both(ch[x], ch[y], wire[x], wire[y], p, q, Tp, Tq, accepted[x], accepted[y],
            submitted[x], submitted[y], delivered[x], delivered[y])
    /\ stored[x] = Len(p) /\ stored[y] = Len(q)

Shape ==
    /\ ch \in [Sides -> Working] /\ wire \in [Sides -> Seq(Frame)]
    /\ submitted \in [Sides -> Seq(Sdu)] /\ delivered \in [Sides -> Seq(Sdu)]
    /\ stored \in [Sides -> Nat] /\ accepted \in [Sides -> Nat]

IInv ==
    /\ Shape /\ Len(submitted[A]) + Len(submitted[B]) <= MaxSdus
    /\ \E p, q, Tp, Tq : Joined(A, B, p, q, Tp, Tq)

\* The two devices
LEMMA PeerFacts ==
    ASSUME NEW x \in Sides
    PROVE  /\ Peer(x) \in Sides /\ Peer(x) # x /\ Peer(Peer(x)) = x
           /\ Sides = {x, Peer(x)}
           /\ (x = A /\ Peer(x) = B) \/ (x = B /\ Peer(x) = A)
  BY Sizes DEF Sides, Peer

\* Neither device comes first.
LEMMA JoinedSwap ==
    ASSUME NEW x, NEW y, NEW p, NEW q, NEW Tp, NEW Tq, Joined(x, y, p, q, Tp, Tq)
    PROVE  Joined(y, x, q, p, Tq, Tp)
  BY DEF Joined, Both

\* The invariant, seen from x
LEMMA JoinedFrom ==
    ASSUME IInv, NEW x \in Sides
    PROVE  \E p, q, Tp, Tq : Joined(x, Peer(x), p, q, Tp, Tq)
  <1>1. PICK p, q, Tp, Tq : Joined(A, B, p, q, Tp, Tq)
    BY DEF IInv
  <1>2. Joined(B, A, q, p, Tq, Tp)
    BY <1>1, JoinedSwap
  <1>3. CASE x = A /\ Peer(x) = B
    BY <1>1, <1>3
  <1>4. CASE x = B /\ Peer(x) = A
    BY <1>2, <1>4
  <1> QED BY <1>3, <1>4, PeerFacts

\* What both directions say of the types
LEMMA BothShape ==
    ASSUME NEW s, NEW v, NEW w, NEW z, NEW sx, NEW sy, NEW Tx, NEW Ty, NEW ax, NEW ay,
           NEW subx, NEW suby, NEW delx, NEW dely,
           Both(s, v, w, z, sx, sy, Tx, Ty, ax, ay, subx, suby, delx, dely)
    PROVE  /\ s \in Working /\ v \in Working /\ w \in Seq(Frame) /\ z \in Seq(Frame)
           /\ ax \in Nat /\ ay \in Nat /\ subx \in Seq(Sdu) /\ suby \in Seq(Sdu)
           /\ delx \in Seq(Sdu) /\ dely \in Seq(Sdu)
           /\ Len(sx) \in Nat /\ Len(sy) \in Nat
  <1>1. /\ s \in Working /\ v \in Working /\ w \in Seq(Frame) /\ z \in Seq(Frame)
        /\ ax \in Nat /\ ay \in Nat /\ Len(sx) \in Nat /\ Len(sy) \in Nat
    BY BothFacts
  <1>2. /\ subx \in Seq(Sdu) /\ suby \in Seq(Sdu)
        /\ delx \in Seq(Sdu) /\ dely \in Seq(Sdu)
    BY DEF Both, Direction, Stream, RecvSide, Assembly
  <1> QED BY <1>1, <1>2

\* The state after a step in which x changed and its peer did not
After(x, y, r, w, z, a, sub, del, m, n) ==
    /\ ch' = [ch EXCEPT ![x] = r]
    /\ wire' \in [Sides -> {w, z}] /\ wire'[x] = w /\ wire'[y] = z
    /\ submitted' \in [Sides -> {sub, submitted[y]}]
    /\ submitted'[x] = sub /\ submitted'[y] = submitted[y]
    /\ delivered' \in [Sides -> {delivered[x], del}]
    /\ delivered'[x] = delivered[x] /\ delivered'[y] = del
    /\ stored' \in [Sides -> {m, n}] /\ stored'[x] = m /\ stored'[y] = n
    /\ accepted' \in [Sides -> {accepted[x], a}]
    /\ accepted'[x] = accepted[x] /\ accepted'[y] = a
    /\ Len(submitted'[A]) + Len(submitted'[B]) <= MaxSdus

\* The invariant holds in it.
LEMMA InvAfter ==
    ASSUME Shape, NEW x \in Sides, NEW y, y = Peer(x),
           NEW r, NEW w, NEW z, NEW p, NEW q, NEW Tp, NEW Tq, NEW a, NEW sub, NEW del,
           Both(r, ch[y], w, z, p, q, Tp, Tq, accepted[x], a,
                sub, submitted[y], delivered[x], del),
           After(x, y, r, w, z, a, sub, del, Len(p), Len(q))
    PROVE  IInv'
  <1> USE DEF After
  <1>1. x \in Sides /\ y \in Sides /\ x # y
    BY PeerFacts
  <1>2. ch'[x] = r /\ ch'[y] = ch[y]
    BY <1>1 DEF Shape
  <1>3. /\ r \in Working /\ w \in Seq(Frame) /\ z \in Seq(Frame) /\ a \in Nat
        /\ sub \in Seq(Sdu) /\ submitted[y] \in Seq(Sdu) /\ accepted[x] \in Nat
        /\ delivered[x] \in Seq(Sdu) /\ del \in Seq(Sdu)
        /\ Len(p) \in Nat /\ Len(q) \in Nat
    BY BothShape
  <1>4. ch' \in [Sides -> Working]
    BY <1>3 DEF Shape
  <1>5. /\ wire' \in [Sides -> Seq(Frame)] /\ submitted' \in [Sides -> Seq(Sdu)]
        /\ delivered' \in [Sides -> Seq(Sdu)] /\ stored' \in [Sides -> Nat]
        /\ accepted' \in [Sides -> Nat]
    BY <1>3
  <1>6. Shape'
    BY <1>4, <1>5 DEF Shape
  <1>7. Joined(x, y, p, q, Tp, Tq)'
    BY <1>2 DEF Joined
  <1>8. Joined(y, x, q, p, Tq, Tp)'
    BY <1>7 DEF Joined, Both
  <1>9. (x = A /\ y = B) \/ (x = B /\ y = A)
    BY PeerFacts
  <1>10. (\E p1, q1, Tp1, Tq1 : Joined(A, B, p1, q1, Tp1, Tq1))'
    BY <1>7, <1>8, <1>9
  <1> QED BY <1>6, <1>10 DEF IInv

\* A device ends a step in which it neither stored nor took a frame.
LEMMA FinishInv ==
    ASSUME IInv, NEW x \in Sides, NEW u, NEW p, NEW q, NEW Tp, NEW Tq,
           Joined(x, Peer(x), p, q, Tp, Tq), Finish(x, u),
           Both([u EXCEPT !.out_q = << >>], ch[Peer(x)], wire[x] \o u.out_q, wire[Peer(x)],
                p, q, Tp, Tq, accepted[x], accepted[Peer(x)], submitted[x],
                submitted[Peer(x)], delivered[x], delivered[Peer(x)]),
           UNCHANGED << submitted, delivered, stored, accepted >>
    PROVE  IInv'
  <1> DEFINE y == Peer(x)
             r == [u EXCEPT !.out_q = << >>]
             w == wire[x] \o u.out_q
             z == wire[y]
  <1>1. y \in Sides /\ x # y /\ Sides = {x, y}
    BY PeerFacts
  <1>2. Shape /\ Len(submitted[A]) + Len(submitted[B]) <= MaxSdus
    BY DEF IInv
  <1>3. ch' = [ch EXCEPT ![x] = r] /\ wire' = [wire EXCEPT ![x] = w]
    BY DEF Finish
  <1>4. /\ Both(r, ch[y], w, z, p, q, Tp, Tq, accepted[x], accepted[y],
                submitted[x], submitted[y], delivered[x], delivered[y])
        /\ stored[x] = Len(p) /\ stored[y] = Len(q)
    BY DEF Joined
  <1> HIDE DEF r, w
  <1>5. wire' \in [Sides -> {w, z}] /\ wire'[x] = w /\ wire'[y] = z
    BY <1>1, <1>2, <1>3 DEF Shape
  <1>6. /\ submitted' \in [Sides -> {submitted[x], submitted[y]}]
        /\ submitted'[x] = submitted[x] /\ submitted'[y] = submitted[y]
        /\ delivered' \in [Sides -> {delivered[x], delivered[y]}]
        /\ delivered'[x] = delivered[x] /\ delivered'[y] = delivered[y]
    BY <1>1, <1>2 DEF Shape
  <1>7. /\ stored' \in [Sides -> {Len(p), Len(q)}]
        /\ stored'[x] = Len(p) /\ stored'[y] = Len(q)
    BY <1>1, <1>2, <1>4 DEF Shape
  <1>8. /\ accepted' \in [Sides -> {accepted[x], accepted[y]}]
        /\ accepted'[x] = accepted[x] /\ accepted'[y] = accepted[y]
    BY <1>1, <1>2 DEF Shape
  <1>9. Len(submitted'[A]) + Len(submitted'[B]) <= MaxSdus
    BY <1>2
  <1>10. After(x, y, r, w, z, accepted[y], submitted[x], delivered[y], Len(p), Len(q))
    BY <1>3, <1>5, <1>6, <1>7, <1>8, <1>9 DEF After
  <1> HIDE DEF z
  <1> QED BY <1>2, <1>4, <1>10, InvAfter

\* A device changes flags and timers, and may run.
LEMMA ChangesInv ==
    ASSUME IInv, NEW x \in Sides, NEW t \in Working, SameSending(ch[x], t),
           t.rx = ch[x].rx, t.store = ch[x].store, t.rlen = ch[x].rlen,
           t.rbuf = ch[x].rbuf, "srej" \in t.flags => "srej" \in ch[x].flags,
           NEW u, u = t \/ \E notify \in BOOLEAN : u = Run(t, notify), Finish(x, u),
           UNCHANGED << submitted, delivered, stored, accepted >>
    PROVE  IInv'
  <1>1. PICK p, q, Tp, Tq : Joined(x, Peer(x), p, q, Tp, Tq)
    BY JoinedFrom
  <1> DEFINE s == ch[x]
             v == ch[Peer(x)]
             w == wire[x]
             z == wire[Peer(x)]
             ax == accepted[x]
             ay == accepted[Peer(x)]
             subx == submitted[x]
             suby == submitted[Peer(x)]
             delx == delivered[x]
             dely == delivered[Peer(x)]
  <1>2. Both(s, v, w, z, p, q, Tp, Tq, ax, ay, subx, suby, delx, dely)
    BY <1>1 DEF Joined
  <1>3. /\ SameSending(s, t) /\ t.rx = s.rx /\ t.store = s.store /\ t.rlen = s.rlen
        /\ t.rbuf = s.rbuf /\ ("srej" \in t.flags => "srej" \in s.flags)
    OBVIOUS
  <1> HIDE DEF s, v, w, z, ax, ay, subx, suby, delx, dely
  <1>4. During(s, t, v, z, p, q, Tq, ax, ay, suby, dely)
    BY <1>2, <1>3, StepChanges
  <1>5. Both([u EXCEPT !.out_q = << >>], v, w \o u.out_q, z, p, q, Tp, Tq,
             ax, ay, subx, suby, delx, dely)
    BY <1>2, <1>4, StepEnds
  <1> QED BY <1>1, <1>5, FinishInv DEF v, w, z, ax, ay, subx, suby, delx, dely

\* l2cap_request_can_send_now_event, by an application whose SDU fits
LEMMA RequestCanSendInv ==
    ASSUME IInv, ~RequestWhenFull, NEW x \in Sides, RequestCanSend(x)
    PROVE  IInv'
  <1> DEFINE s == ch[x]
             t == NotifyApplication([ch[x] EXCEPT !.waiting = TRUE])
  <1>1. s \in Working /\ ~s.waiting
    <2>1. s \in Working
      BY DEF IInv, Shape
    <2>2. PICK p, q, Tp, Tq : Joined(x, Peer(x), p, q, Tp, Tq)
      BY JoinedFrom
    <2> QED BY <2>1, <2>2 DEF Joined, Both, SendSide
  <1>2. CanStore(s) /\ Finish(x, t) /\ UNCHANGED << submitted, delivered, stored, accepted >>
    BY DEF RequestCanSend
  <1>3. t = [s EXCEPT !.waiting = FALSE]
    BY <1>1, <1>2 DEF NotifyApplication, CanStore, Working
  <1> HIDE DEF t
  <1>4. t \in Working
    BY <1>1, <1>3 DEF Working
  <1>5. /\ SameSending(s, t) /\ t.rx = s.rx /\ t.store = s.store /\ t.rlen = s.rlen
        /\ t.rbuf = s.rbuf /\ t.flags = s.flags
    BY <1>1, <1>3 DEF Working, SameSending, SameRing
  <1> QED BY <1>2, <1>4, <1>5, ChangesInv

\* l2cap_ertm_set_busy
LEMMA SetBusyInv ==
    ASSUME IInv, NEW x \in Sides, SetBusy(x)
    PROVE  IInv'
  <1> DEFINE s == ch[x]
             t == [s EXCEPT !.busy = TRUE, !.flags = @ \cup {"rnr"}]
  <1>1. s \in Working
    BY DEF IInv, Shape
  <1>2. t \in Working
    BY <1>1 DEF Working, Flag
  <1>3. /\ SameSending(s, t) /\ t.rx = s.rx /\ t.store = s.store /\ t.rlen = s.rlen
        /\ t.rbuf = s.rbuf /\ t.flags = s.flags \cup {"rnr"}
    BY <1>1 DEF Working, SameSending, SameRing
  <1>4. Finish(x, Run(t, FALSE)) /\ UNCHANGED << submitted, delivered, stored, accepted >>
    BY DEF SetBusy
  <1> HIDE DEF t
  <1>5. FALSE \in BOOLEAN /\ ("srej" \in t.flags => "srej" \in s.flags)
    BY <1>3
  <1> QED BY <1>2, <1>3, <1>4, <1>5, ChangesInv

\* l2cap_ertm_set_ready
LEMMA SetReadyInv ==
    ASSUME IInv, NEW x \in Sides, SetReady(x)
    PROVE  IInv'
  <1> DEFINE s == ch[x]
             t == [s EXCEPT !.busy = FALSE, !.wait = TRUE, !.flags = @ \cup {"poll"}]
  <1>1. s \in Working
    BY DEF IInv, Shape
  <1>2. t \in Working
    BY <1>1 DEF Working, Flag
  <1>3. /\ SameSending(s, t) /\ t.rx = s.rx /\ t.store = s.store /\ t.rlen = s.rlen
        /\ t.rbuf = s.rbuf /\ t.flags = s.flags \cup {"poll"}
    BY <1>1 DEF Working, SameSending, SameRing
  <1>4. Finish(x, Run(t, FALSE)) /\ UNCHANGED << submitted, delivered, stored, accepted >>
    BY DEF SetReady
  <1> HIDE DEF t
  <1>5. FALSE \in BOOLEAN /\ ("srej" \in t.flags => "srej" \in s.flags)
    BY <1>3
  <1> QED BY <1>2, <1>3, <1>4, <1>5, ChangesInv

\* The controller has a free buffer again.
LEMMA CompletedInv ==
    ASSUME IInv, NEW x \in Sides, Completed(x)
    PROVE  IInv'
  <1> DEFINE s == ch[x]
             t == [s EXCEPT !.acl = @ + 1]
  <1>1. s \in Working /\ Len(wire[x]) \in Nat
    BY DEF IInv, Shape
  <1>2. s.acl + 1 \in 0..AclBuffers
    <2>1. s.acl \in Nat /\ AclBuffers \in Nat
      BY <1>1, Sizes DEF Working
    <2>2. s.acl + Len(wire[x]) < AclBuffers
      BY DEF Completed
    <2> QED BY <1>1, <2>1, <2>2
  <1>3. t \in Working
    BY <1>1, <1>2 DEF Working
  <1>4. /\ SameSending(s, t) /\ t.rx = s.rx /\ t.store = s.store /\ t.rlen = s.rlen
        /\ t.rbuf = s.rbuf /\ t.flags = s.flags
    BY <1>1 DEF Working, SameSending, SameRing
  <1>5. Finish(x, Run(t, TRUE)) /\ UNCHANGED << submitted, delivered, stored, accepted >>
    BY DEF Completed
  <1> HIDE DEF t
  <1>6. TRUE \in BOOLEAN /\ ("srej" \in t.flags => "srej" \in s.flags)
    BY <1>4
  <1> QED BY <1>3, <1>4, <1>5, <1>6, ChangesInv

\* A timer expires: the retry is counted, unacknowledged frames are sent again.
LEMMA TimeoutInv ==
    ASSUME IInv, NEW x \in Sides, NEW c \in 0..MaxTransmit, NEW t,
           t = Retransmit([ch[x] EXCEPT !.tx[ch[x].read].retry = c]),
           NEW e, e \in Working, SameSending(t, e), e.rx = t.rx, e.store = t.store,
           e.rlen = t.rlen, e.rbuf = t.rbuf, "srej" \in e.flags => "srej" \in t.flags,
           Finish(x, Run(e, FALSE)),
           UNCHANGED << submitted, delivered, stored, accepted >>
    PROVE  IInv'
  <1>1. PICK p, q, Tp, Tq : Joined(x, Peer(x), p, q, Tp, Tq)
    BY JoinedFrom
  <1> DEFINE s == ch[x]
             v == ch[Peer(x)]
             w == wire[x]
             z == wire[Peer(x)]
             ax == accepted[x]
             ay == accepted[Peer(x)]
             subx == submitted[x]
             suby == submitted[Peer(x)]
             delx == delivered[x]
             dely == delivered[Peer(x)]
             b == [s EXCEPT !.tx[s.read].retry = c]
             u == Run(e, FALSE)
  <1>2. Both(s, v, w, z, p, q, Tp, Tq, ax, ay, subx, suby, delx, dely)
    BY <1>1 DEF Joined
  <1>3. t = Retransmit(b)
    OBVIOUS
  <1> HIDE DEF s, v, w, z, ax, ay, subx, suby, delx, dely
  <1>4. During(s, b, v, z, p, q, Tq, ax, ay, suby, dely)
    BY <1>2, StepCounts
  <1>5. p \in Seq(Segment) /\ ax \in Nat
    BY <1>2, BothFacts
  <1> HIDE DEF b
  <1>6. During(s, t, v, z, p, q, Tq, ax, ay, suby, dely)
    BY <1>3, <1>4, <1>5, StepRetransmits
  <1>7. During(s, e, v, z, p, q, Tq, ax, ay, suby, dely)
    BY <1>6, StepSettings
  <1>8. Both([u EXCEPT !.out_q = << >>], v, w \o u.out_q, z, p, q, Tp, Tq,
             ax, ay, subx, suby, delx, dely)
    <2>1. \E notify \in BOOLEAN : u = Run(e, notify)
      OBVIOUS
    <2> HIDE DEF u
    <2> QED BY <1>2, <1>7, <2>1, StepEnds
  <1> HIDE DEF u
  <1>9. Finish(x, u)
    BY DEF u
  <1> QED BY <1>1, <1>8, <1>9, FinishInv DEF v, w, z, ax, ay, subx, suby, delx, dely

\* Retransmit gives a channel again.
LEMMA TimeoutWorking ==
    ASSUME IInv, NEW x \in Sides, NEW c \in 0..MaxTransmit
    PROVE  Retransmit([ch[x] EXCEPT !.tx[ch[x].read].retry = c]) \in Working
  <1>1. PICK p, q, Tp, Tq : Joined(x, Peer(x), p, q, Tp, Tq)
    BY JoinedFrom
  <1> DEFINE s == ch[x]
             v == ch[Peer(x)]
             z == wire[Peer(x)]
             b == [s EXCEPT !.tx[s.read].retry = c]
  <1>2. Both(s, v, wire[x], z, p, q, Tp, Tq, accepted[x], accepted[Peer(x)], submitted[x],
             submitted[Peer(x)], delivered[x], delivered[Peer(x)])
    BY <1>1 DEF Joined
  <1> HIDE DEF s, v, z
  <1>3. During(s, b, v, z, p, q, Tq, accepted[x], accepted[Peer(x)], submitted[Peer(x)],
               delivered[Peer(x)])
    BY <1>2, StepCounts
  <1>4. p \in Seq(Segment) /\ accepted[x] \in Nat
    BY <1>2, BothFacts
  <1> HIDE DEF b
  <1>5. During(s, Retransmit(b), v, z, p, q, Tq, accepted[x], accepted[Peer(x)],
               submitted[Peer(x)], delivered[Peer(x)])
    BY <1>3, <1>4, StepRetransmits
  <1>6. Retransmit(b) \in Working
    BY <1>5 DEF During, SendSide
  <1> QED BY <1>6 DEF b, s

\* l2cap_ertm_retransmission_timeout_callback
LEMMA RetransmissionTimeoutInv ==
    ASSUME IInv, NEW x \in Sides, RetransmissionTimeout(x)
    PROVE  IInv'
  <1> DEFINE t == Retransmit([ch[x] EXCEPT !.tx[ch[x].read].retry = 1])
             e == [t EXCEPT !.retrans = FALSE, !.monitor = TRUE, !.wait = TRUE,
                            !.flags = @ \cup {"poll"}]
  <1>1. 1 \in 0..MaxTransmit
    BY Sizes
  <1>2. t \in Working
    BY <1>1, TimeoutWorking
  <1>3. Finish(x, Run(e, FALSE)) /\ UNCHANGED << submitted, delivered, stored, accepted >>
    BY DEF RetransmissionTimeout
  <1>4. t = Retransmit([ch[x] EXCEPT !.tx[ch[x].read].retry = 1])
    OBVIOUS
  <1> HIDE DEF t
  <1>5. e \in Working
    BY <1>2 DEF Working, Flag
  <1>6. /\ SameSending(t, e) /\ e.rx = t.rx /\ e.store = t.store /\ e.rlen = t.rlen
        /\ e.rbuf = t.rbuf /\ e.flags = t.flags \cup {"poll"}
    BY <1>2 DEF Working, SameSending, SameRing
  <1> HIDE DEF e
  <1>7. "srej" \in e.flags => "srej" \in t.flags
    BY <1>6
  <1> QED BY <1>1, <1>3, <1>4, <1>5, <1>6, <1>7, TimeoutInv

\* l2cap_ertm_monitor_timeout_callback
LEMMA MonitorTimeoutInv ==
    ASSUME IInv, NEW x \in Sides, MonitorTimeout(x)
    PROVE  IInv'
  <1> DEFINE s == ch[x]
             i == s.read
             c == s.tx[i].retry + 1
  <1>1. s \in Working
    BY DEF IInv, Shape
  <1>2. UNCHANGED << submitted, delivered, stored, accepted >>
    BY DEF MonitorTimeout
  <1>3. CASE s.tx[i].retry < MaxTransmit
    <2> DEFINE t == Retransmit([s EXCEPT !.tx[i].retry = c])
               e == [t EXCEPT !.flags = @ \cup {"poll"}]
    <2>1. c \in 0..MaxTransmit
      <3>1. s.tx[i].retry \in 0..MaxTransmit
        BY <1>1, SMTT(40) DEF Working, TxBuffer
      <3> QED BY <1>3, <3>1, Sizes
    <2>2. t = Retransmit([s EXCEPT !.tx[i].retry = @ + 1])
      BY <1>1 DEF Working, TxBuffer
    <2>3. Finish(x, Run(e, FALSE))
      BY <1>3, <2>2 DEF MonitorTimeout
    <2>4. t = Retransmit([ch[x] EXCEPT !.tx[ch[x].read].retry = c])
      OBVIOUS
    <2> HIDE DEF c
    <2>5. t \in Working
      BY <2>1, TimeoutWorking
    <2> HIDE DEF t
    <2>6. e \in Working
      BY <2>5 DEF Working, Flag
    <2>7. /\ SameSending(t, e) /\ e.rx = t.rx /\ e.store = t.store /\ e.rlen = t.rlen
          /\ e.rbuf = t.rbuf /\ e.flags = t.flags \cup {"poll"}
      BY <2>5 DEF Working, SameSending, SameRing
    <2> HIDE DEF e
    <2>8. "srej" \in e.flags => "srej" \in t.flags
      BY <2>7
    <2> QED BY <1>2, <2>1, <2>3, <2>4, <2>6, <2>7, <2>8, TimeoutInv
  <1>4. CASE ~(s.tx[i].retry < MaxTransmit)
    <2> DEFINE t == [s EXCEPT !.open = FALSE, !.monitor = FALSE]
    <2>1. Finish(x, t)
      BY <1>4 DEF MonitorTimeout
    <2>2. t \in Working
      BY <1>1 DEF Working
    <2>3. /\ SameSending(s, t) /\ t.rx = s.rx /\ t.store = s.store /\ t.rlen = s.rlen
          /\ t.rbuf = s.rbuf /\ t.flags = s.flags
      BY <1>1 DEF Working, SameSending, SameRing
    <2> HIDE DEF t
    <2> QED BY <1>2, <2>1, <2>2, <2>3, ChangesInv
  <1> QED BY <1>3, <1>4

\* A frame is lost.
LEMMA LoseInv ==
    ASSUME IInv, NEW x \in Sides, Lose(Peer(x))
    PROVE  IInv'
  <1> DEFINE y == Peer(x)
             r == ch[x]
             w == wire[x]
             z == Tail(wire[y])
  <1>1. y \in Sides /\ x # y /\ Sides = {x, y}
    BY PeerFacts
  <1>2. Shape /\ Len(submitted[A]) + Len(submitted[B]) <= MaxSdus
    BY DEF IInv
  <1>3. PICK p, q, Tp, Tq : Joined(x, y, p, q, Tp, Tq)
    BY JoinedFrom
  <1>4. /\ Both(ch[x], ch[y], wire[x], wire[y], p, q, Tp, Tq, accepted[x], accepted[y],
                submitted[x], submitted[y], delivered[x], delivered[y])
        /\ stored[x] = Len(p) /\ stored[y] = Len(q)
    BY <1>3 DEF Joined
  <1>5. /\ wire[y] # << >> /\ wire' = [wire EXCEPT ![y] = z]
        /\ UNCHANGED << ch, submitted, delivered, stored, accepted >>
    BY DEF Lose
  <1>6. Both(r, ch[y], w, z, p, q, Tp, Tq, accepted[x], accepted[y],
             submitted[x], submitted[y], delivered[x], delivered[y])
    BY <1>4, <1>5, StepLoses
  <1> HIDE DEF z, w, r
  <1>7. wire' \in [Sides -> {w, z}] /\ wire'[x] = w /\ wire'[y] = z
    BY <1>1, <1>2, <1>5 DEF Shape, w
  <1>8. /\ submitted' \in [Sides -> {submitted[x], submitted[y]}]
        /\ submitted'[x] = submitted[x] /\ submitted'[y] = submitted[y]
        /\ delivered' \in [Sides -> {delivered[x], delivered[y]}]
        /\ delivered'[x] = delivered[x] /\ delivered'[y] = delivered[y]
    BY <1>1, <1>2, <1>5 DEF Shape
  <1>9. /\ stored' \in [Sides -> {Len(p), Len(q)}]
        /\ stored'[x] = Len(p) /\ stored'[y] = Len(q)
        /\ accepted' \in [Sides -> {accepted[x], accepted[y]}]
        /\ accepted'[x] = accepted[x] /\ accepted'[y] = accepted[y]
    BY <1>1, <1>2, <1>4, <1>5 DEF Shape
  <1>10. ch' = [ch EXCEPT ![x] = r]
    BY <1>2, <1>5 DEF Shape, r
  <1>11. Len(submitted'[A]) + Len(submitted'[B]) <= MaxSdus
    BY <1>2, <1>5
  <1>12. After(x, y, r, w, z, accepted[y], submitted[x], delivered[y], Len(p), Len(q))
    BY <1>7, <1>8, <1>9, <1>10, <1>11 DEF After
  <1> QED BY <1>2, <1>6, <1>12, InvAfter

\* l2cap_ertm_send
LEMMA SendInv ==
    ASSUME IInv, NEW x \in Sides, Send(x)
    PROVE  IInv' /\ ch'[x].open = ch[x].open
  <1> DEFINE y == Peer(x)
             k == Len(submitted[x]) + 1
  <1>1. /\ y \in Sides /\ x # y /\ Sides = {x, y}
        /\ (x = A /\ y = B) \/ (x = B /\ y = A)
    BY PeerFacts
  <1>2. Shape /\ Len(submitted[A]) \in Nat /\ Len(submitted[B]) \in Nat
    <2>1. Shape
      BY DEF IInv
    <2> QED BY <2>1 DEF Shape, Sides
  <1>3. Len(submitted[A]) + Len(submitted[B]) < MaxSdus /\ CanStore(ch[x])
    BY DEF Send
  <1>4. PICK n \in 1..MaxPieces :
            LET d == [i \in 1..n |-> k]
                t == StoreFragments(ch[x], Segments(d))
            IN  /\ Finish(x, NotifyCanSend(t))
                /\ submitted' = [submitted EXCEPT ![x] = Append(@, d)]
                /\ stored' = [stored EXCEPT ![x] = @ + n]
    BY DEF Send
  <1>5. UNCHANGED << delivered, accepted >>
    BY DEF Send
  <1> DEFINE d == [i \in 1..n |-> k]
             t == StoreFragments(ch[x], Segments(d))
             u == NotifyCanSend(t)
             sub == Append(submitted[x], d)
             r == [u EXCEPT !.out_q = << >>]
             w == wire[x] \o u.out_q
             z == wire[y]
  <1>6. k \in 1..MaxSdus
    <2>1. MaxSdus \in Nat
      BY Sizes
    <2>2. submitted[x] = submitted[A] \/ submitted[x] = submitted[B]
      BY <1>1
    <2> DEFINE ka == Len(submitted[A])
               kb == Len(submitted[B])
    <2>3. k = ka + 1 \/ k = kb + 1
      BY <2>2
    <2>4. ka \in Nat /\ kb \in Nat /\ ka + kb < MaxSdus
      BY <1>2, <1>3
    <2> HIDE DEF ka, kb, k
    <2> QED BY <2>1, <2>3, <2>4
  <1>7. d \in Sdu /\ Len(d) = n
    <2> HIDE DEF k
    <2>1. d \in Sdu
      BY <1>6 DEF Sdu
    <2>2. n \in Nat
      BY Sizes
    <2>3. Len(d) = n
      BY <2>2
    <2> QED BY <2>1, <2>3
  <1>8. /\ Finish(x, u) /\ submitted' = [submitted EXCEPT ![x] = sub]
        /\ stored' = [stored EXCEPT ![x] = @ + n]
    BY <1>4
  <1>9. PICK p, q, Tp, Tq : Joined(x, y, p, q, Tp, Tq)
    BY JoinedFrom
  <1>10. /\ Both(ch[x], ch[y], wire[x], wire[y], p, q, Tp, Tq, accepted[x], accepted[y],
                 submitted[x], submitted[y], delivered[x], delivered[y])
         /\ stored[x] = Len(p) /\ stored[y] = Len(q)
    BY <1>9 DEF Joined
  <1> DEFINE p2 == p \o Segments(d)
  <1>11. u = NotifyCanSend(StoreFragments(ch[x], Segments(d)))
    OBVIOUS
  <1> HIDE DEF d, u
  <1>12. /\ \E T2 : Both(r, ch[y], w, z, p2, q, T2, Tq, accepted[x], accepted[y],
                         sub, submitted[y], delivered[x], delivered[y])
         /\ Len(p2) = Len(p) + Len(d) /\ u.open = ch[x].open
    <2> DEFINE s == ch[x]
               v == ch[y]
               wx == wire[x]
               ax == accepted[x]
               ay == accepted[y]
               subx == submitted[x]
               suby == submitted[y]
               delx == delivered[x]
               dely == delivered[y]
    <2>1. /\ Both(s, v, wx, z, p, q, Tp, Tq, ax, ay, subx, suby, delx, dely)
          /\ CanStore(s) /\ u = NotifyCanSend(StoreFragments(s, Segments(d)))
      BY <1>3, <1>10, <1>11
    <2> HIDE DEF s, v, wx, z, ax, ay, subx, suby, delx, dely
    <2>2. /\ \E T2 : Both([u EXCEPT !.out_q = << >>], v, wx \o u.out_q, z, p \o Segments(d),
                          q, T2, Tq, ax, ay, Append(subx, d), suby, delx, dely)
          /\ Len(p \o Segments(d)) = Len(p) + Len(d) /\ u.open = s.open
      BY <1>7, <2>1, StepSend
    <2> QED BY <2>2 DEF s, v, wx, ax, ay, subx, suby, delx, dely
  <1>13. PICK T2 : Both(r, ch[y], w, z, p2, q, T2, Tq, accepted[x], accepted[y],
                        sub, submitted[y], delivered[x], delivered[y])
    BY <1>12
  <1>14. ch' = [ch EXCEPT ![x] = r] /\ wire' = [wire EXCEPT ![x] = w]
    BY <1>8 DEF Finish
  <1>15. ch'[x].open = ch[x].open
    <2>1. ch'[x] = r
      BY <1>2, <1>14 DEF Shape
    <2>2. r \in Working
      BY <1>13, BothFacts
    <2>3. u.out_q = u.out_q /\ r.open = u.open
      BY <2>2 DEF Working
    <2> QED BY <1>12, <2>1, <2>3
  <1> HIDE DEF r, w, p2, sub
  <1>16. wire' \in [Sides -> {w, z}] /\ wire'[x] = w /\ wire'[y] = z
    BY <1>1, <1>2, <1>14 DEF Shape
  <1>17. /\ submitted' \in [Sides -> {sub, submitted[y]}]
         /\ submitted'[x] = sub /\ submitted'[y] = submitted[y]
    BY <1>1, <1>2, <1>8 DEF Shape
  <1>18. /\ delivered' \in [Sides -> {delivered[x], delivered[y]}]
         /\ delivered'[x] = delivered[x] /\ delivered'[y] = delivered[y]
         /\ accepted' \in [Sides -> {accepted[x], accepted[y]}]
         /\ accepted'[x] = accepted[x] /\ accepted'[y] = accepted[y]
    BY <1>1, <1>2, <1>5 DEF Shape
  <1>19. /\ stored' \in [Sides -> {Len(p2), Len(q)}]
         /\ stored'[x] = Len(p2) /\ stored'[y] = Len(q)
    BY <1>1, <1>2, <1>7, <1>8, <1>10, <1>12 DEF Shape
  <1>20. Len(submitted'[A]) + Len(submitted'[B]) <= MaxSdus
    <2>1. Len(sub) = Len(submitted[x]) + 1 /\ Len(submitted[x]) \in Nat
          /\ Len(submitted[y]) \in Nat
      BY <1>1, <1>2, <1>7 DEF sub, Shape
    <2>2. Len(submitted[x]) + Len(submitted[y]) < MaxSdus /\ MaxSdus \in Nat
      <3>0. MaxSdus \in Nat
        BY Sizes
      <3> DEFINE ka == Len(submitted[A])
                 kb == Len(submitted[B])
      <3>1. ka + kb < MaxSdus /\ kb + ka < MaxSdus
        <4>1. ka \in Nat /\ kb \in Nat /\ ka + kb < MaxSdus
          BY <1>2, <1>3
        <4> HIDE DEF ka, kb
        <4> QED BY <3>0, <4>1
      <3>2. CASE x = A /\ y = B
        BY <3>0, <3>1, <3>2
      <3>3. CASE x = B /\ y = A
        BY <3>0, <3>1, <3>3
      <3> QED BY <1>1, <3>2, <3>3
    <2> DEFINE l == Len(submitted[x])
               m == Len(submitted[y])
               o == Len(sub)
    <2>3. o + m <= MaxSdus /\ m + o <= MaxSdus
      <3>1. o = l + 1 /\ l \in Nat /\ m \in Nat /\ l + m < MaxSdus /\ MaxSdus \in Nat
        BY <2>1, <2>2
      <3> HIDE DEF l, m, o
      <3> QED BY <3>1
    <2> QED BY <1>1, <1>17, <2>3
  <1>21. After(x, y, r, w, z, accepted[y], sub, delivered[y], Len(p2), Len(q))
    BY <1>14, <1>16, <1>17, <1>18, <1>19, <1>20 DEF After
  <1>22. IInv'
    <2> HIDE DEF z
    <2> QED BY <1>2, <1>13, <1>21, InvAfter
  <1> QED BY <1>15, <1>22

\* l2cap_acl_handler
LEMMA ReceiveInv ==
    ASSUME IInv, NEW x \in Sides, Receive(x)
    PROVE  IInv' /\ ch'[x].open = ch[x].open
  <1> DEFINE y == Peer(x)
             s == ch[x]
             f == Head(wire[y])
             u == Run(Handle(s, f), FALSE)
             r == [u EXCEPT !.out_q = << >>]
             w == wire[x] \o u.out_q
             z == Tail(wire[y])
             a == accepted[y] + ((u.expect - s.expect) % SeqModulus)
             del == delivered[y] \o
                        IF f.type = "I" /\ f.seq = s.expect
                        THEN ExpectedDispatch(s, f.segment) ELSE << >>
  <1>1. y \in Sides /\ x # y /\ Sides = {x, y}
    BY PeerFacts
  <1>2. Shape /\ Len(submitted[A]) + Len(submitted[B]) <= MaxSdus
    BY DEF IInv
  <1>3. wire[y] # << >> /\ s.open
    BY DEF Receive
  <1>4. /\ ch' = [ch EXCEPT ![x] = r]
        /\ wire' = [wire EXCEPT ![y] = Tail(@), ![x] = @ \o u.out_q]
        /\ delivered' = [delivered EXCEPT ![y] = del]
        /\ accepted' = [accepted EXCEPT ![y] = a]
        /\ UNCHANGED << submitted, stored >>
    BY DEF Receive
  <1>5. PICK p, q, Tp, Tq : Joined(x, y, p, q, Tp, Tq)
    BY JoinedFrom
  <1>6. stored[x] = Len(p) /\ stored[y] = Len(q)
    BY <1>5 DEF Joined
  <1>7. /\ Both(r, ch[y], w, z, p, q, Tp, Tq, accepted[x], a,
                submitted[x], submitted[y], delivered[x], del)
        /\ u.open = s.open
    <2> DEFINE v == ch[y]
               wx == wire[x]
               wy == wire[y]
               ax == accepted[x]
               ay == accepted[y]
               subx == submitted[x]
               suby == submitted[y]
               delx == delivered[x]
               dely == delivered[y]
    <2>1. Both(s, v, wx, wy, p, q, Tp, Tq, ax, ay, subx, suby, delx, dely)
      BY <1>5 DEF Joined
    <2>2. /\ u = Run(Handle(s, Head(wy)), FALSE)
          /\ a = ay + ((u.expect - s.expect) % SeqModulus)
          /\ del = dely \o IF Head(wy).type = "I" /\ Head(wy).seq = s.expect
                           THEN ExpectedDispatch(s, Head(wy).segment) ELSE << >>
      OBVIOUS
    <2>3. wy # << >> /\ w = wx \o u.out_q /\ z = Tail(wy)
      BY <1>3
    <2> HIDE DEF s, v, wx, wy, ax, ay, subx, suby, delx, dely, u, a, del, w, z
    <2>4. /\ Both([u EXCEPT !.out_q = << >>], v, wx \o u.out_q, Tail(wy), p, q, Tp, Tq,
                  ax, a, subx, suby, delx, del)
          /\ u.open = s.open
      BY <1>3, <2>1, <2>2, <2>3, StepReceive, ZenonT(60)
    <2> QED BY <2>3, <2>4 DEF v, ax, subx, suby, delx
  <1> HIDE DEF u, a, del
  <1>8. ch'[x].open = ch[x].open
    <2>1. ch'[x] = r
      BY <1>2, <1>4 DEF Shape
    <2>2. r \in Working
      BY <1>7, BothFacts
    <2>3. r.open = u.open
      BY <2>2 DEF Working
    <2> QED BY <1>7, <2>1, <2>3
  <1>9. wire' \in [Sides -> {w, z}] /\ wire'[x] = w /\ wire'[y] = z
    BY <1>1, <1>2, <1>4 DEF Shape
  <1> HIDE DEF r, w, z
  <1>10. /\ delivered' \in [Sides -> {delivered[x], del}]
         /\ delivered'[x] = delivered[x] /\ delivered'[y] = del
         /\ accepted' \in [Sides -> {accepted[x], a}]
         /\ accepted'[x] = accepted[x] /\ accepted'[y] = a
    BY <1>1, <1>2, <1>4 DEF Shape
  <1>11. /\ submitted' \in [Sides -> {submitted[x], submitted[y]}]
         /\ submitted'[x] = submitted[x] /\ submitted'[y] = submitted[y]
         /\ stored' \in [Sides -> {Len(p), Len(q)}]
         /\ stored'[x] = Len(p) /\ stored'[y] = Len(q)
    BY <1>1, <1>2, <1>4, <1>6 DEF Shape
  <1>12. Len(submitted'[A]) + Len(submitted'[B]) <= MaxSdus
    BY <1>2, <1>4
  <1>13. After(x, y, r, w, z, a, submitted[x], del, Len(p), Len(q))
    BY <1>4, <1>9, <1>10, <1>11, <1>12 DEF After
  <1>14. IInv'
    BY <1>2, <1>7, <1>13, InvAfter
  <1> QED BY <1>8, <1>14

\* A channel that was just opened
LEMMA InitSide ==
    ASSUME Init, NEW x \in Sides, NEW h
    PROVE  /\ SendSide(ch[x], << >>, 0, h) /\ ch[x].out_q = << >> /\ ~Held(ch[x])
           /\ ch[x].num = 0 /\ RecvSide(ch[x], << >>, 0, [k \in 0..0 |-> 0], << >>, << >>)
  <1> DEFINE s == ch[x]
             b == [seq |-> 0, state |-> "new", retry |-> 0, segment |-> NoSegment]
             e == [valid |-> FALSE, segment |-> NoSegment]
             T == [k \in 0..0 |-> 0]
  <1>1. s = [ open |-> TRUE, tx |-> [i \in TxIndex |-> b],
              read |-> 0, write |-> 0, send |-> 0, num |-> 0, unacked |-> 0,
              next |-> 0, expect |-> 0, req |-> 0, rx |-> [i \in RxIndex |-> e],
              store |-> 0, rlen |-> 0, rbuf |-> << >>, flags |-> {}, final |-> FALSE,
              active |-> FALSE, wait |-> FALSE, busy |-> FALSE, waiting |-> FALSE,
              retrans |-> FALSE, monitor |-> FALSE, acl |-> AclBuffers, out_q |-> << >> ]
    BY DEF Init
  <1>2. NoSegment \in Segment
    BY Sizes DEF NoSegment, Segment
  <1>3. /\ b \in TxBuffer /\ b.seq = 0 /\ b.state = "new" /\ e \in RxBuffer /\ ~e.valid
        /\ 0 \in TxIndex /\ 0 \in RxIndex /\ 0 \in SeqNr /\ 0 \in 0..NumTx
        /\ 0 \in 0..MaxPieces /\ AclBuffers \in 0..AclBuffers
    <2>1. /\ 0 \in TxIndex /\ 0 \in RxIndex /\ 0 \in SeqNr /\ 0 \in 0..NumTx
          /\ 0 \in 0..MaxPieces /\ AclBuffers \in 0..AclBuffers /\ 0 \in 0..MaxTransmit
      BY Sizes DEF TxIndex, RxIndex, SeqNr
    <2> QED BY <1>2, <2>1 DEF TxBuffer, RxBuffer
  <1> HIDE DEF b, e
  <1>4. /\ [i \in TxIndex |-> b] \in [TxIndex -> TxBuffer]
        /\ [i \in RxIndex |-> e] \in [RxIndex -> RxBuffer]
        /\ << >> \in Seq(Nat) /\ << >> \in Seq(Frame) /\ {} \in SUBSET Flag
        /\ Len(<< >>) = 0
    BY <1>3
  <1>5. s \in Working
    BY <1>1, <1>3, <1>4 DEF Working
  <1>6. /\ \A i \in TxIndex : s.tx[i].seq = 0 /\ s.tx[i].state = "new"
        /\ \A i \in RxIndex : ~s.rx[i].valid
        /\ s.read = 0 /\ s.write = 0 /\ s.send = 0 /\ s.num = 0 /\ s.unacked = 0
        /\ s.next = 0 /\ s.expect = 0 /\ s.req = 0 /\ s.store = 0 /\ s.rlen = 0
        /\ s.rbuf = << >> /\ s.flags = {} /\ ~s.waiting /\ s.out_q = << >>
    BY <1>1, <1>3
  <1> HIDE DEF s
  <1>7. 0 % NumTx = 0 /\ 0 % SeqModulus = 0
    BY Sizes, ModSmall
  <1>8. Ring(s, 0) /\ Unused(s, 0) /\ Early(s) /\ Slots(s, << >>)
    <2>1. Ring(s, 0)
      BY <1>6, <1>7 DEF Ring
    <2>2. Unused(s, 0)
      BY <1>6 DEF Unused
    <2>3. Early(s)
      <3>1. \A i \in TxIndex : 0 <= i
        BY SlotNat
      <3> QED BY <1>6, <3>1 DEF Early
    <2>4. Slots(s, << >>)
      <3>1. 0..(Len(<< >>) - 1) = {}
        BY <1>4
      <3> QED BY <3>1 DEF Slots
    <2> QED BY <2>1, <2>2, <2>3, <2>4
  <1>9. \A p \in 1..Len(s.out_q) : Fresh(s.out_q[p], s, << >>, 0, h)
    <2>1. 1..Len(s.out_q) = {}
      BY <1>4, <1>6
    <2> QED BY <2>1
  <1>10. SendSide(s, << >>, 0, h)
    BY <1>4, <1>5, <1>6, <1>8, <1>9, Sizes DEF SendSide
  <1>11. ~Held(s)
    BY <1>3, <1>6 DEF Held
  <1>12. Assembly(s.rbuf, s.rlen, 0, T, << >>, << >>)
    <2>1. << >> \in Seq(Sdu) /\ T[0] = 0
      OBVIOUS
    <2> HIDE DEF T
    <2> QED BY <1>4, <1>6, <2>1 DEF Assembly
  <1>13. RecvSide(s, << >>, 0, T, << >>, << >>)
    BY <1>6, <1>7, <1>11, <1>12 DEF RecvSide
  <1> QED BY <1>6, <1>10, <1>11, <1>13 DEF s

\* The invariant holds when the channel is opened.
LEMMA InitInv ==
    ASSUME Init
    PROVE  IInv
  <1> DEFINE T == [k \in 0..0 |-> 0]
             h == Heard(ch[A], 0, 0)
             g == Heard(ch[B], 0, 0)
  <1>1. A \in Sides /\ B \in Sides
    BY DEF Sides
  <1>2. /\ wire = [x \in Sides |-> << >>] /\ submitted = [x \in Sides |-> << >>]
        /\ delivered = submitted /\ stored = [x \in Sides |-> 0] /\ accepted = stored
        /\ ch = [x \in Sides |-> ch[x]]
    BY DEF Init
  <1>3. Len(<< >>) = 0 /\ << >> \in Seq(Frame) /\ << >> \in Seq(Sdu) /\ << >> \in Seq(Segment)
    OBVIOUS
  <1>4. /\ SendSide(ch[A], << >>, 0, g) /\ ch[A].out_q = << >> /\ ~Held(ch[A])
        /\ ch[A].num = 0 /\ RecvSide(ch[A], << >>, 0, T, << >>, << >>)
    BY <1>1, InitSide
  <1>5. /\ SendSide(ch[B], << >>, 0, h) /\ ch[B].out_q = << >> /\ ~Held(ch[B])
        /\ ch[B].num = 0 /\ RecvSide(ch[B], << >>, 0, T, << >>, << >>)
    BY <1>1, InitSide
  <1>6. T \in [0..0 -> Nat] /\ T[0] = 0
    OBVIOUS
  <1>7. Stream(<< >>, << >>, T)
    <2> HIDE DEF T
    <2>1. 1..Len(<< >>) = {} /\ 0..Len(<< >>) = {0}
      BY <1>3
    <2> QED BY <1>3, <1>6, <2>1 DEF Stream
  <1> HIDE DEF T
  <1>8. 1..Len(<< >>) = {}
    BY <1>3
  <1>9. ASSUME NEW r \in Nat PROVE Numbered(<< >>, << >>, 0, r)
    <2> DEFINE nr == [i \in 1..Len(<< >>) |-> 0]
    <2>1. nr \in [1..Len(<< >>) -> Nat]
      OBVIOUS
    <2> HIDE DEF nr
    <2> QED BY <1>8, <2>1 DEF Numbered
  <1>10. Acks(<< >>, 0, 0)
    <2> DEFINE ak == [i \in 1..Len(<< >>) |-> 0]
    <2>1. ak \in [1..Len(<< >>) -> Nat]
      OBVIOUS
    <2> HIDE DEF ak
    <2> QED BY <1>8, <2>1 DEF Acks
  <1>11. ~Evidence(ch[A], << >>, << >>) /\ ~Evidence(ch[B], << >>, << >>)
    BY <1>4, <1>5, <1>8 DEF Evidence
  <1>12. Reach(ch[A], 0) = 0 /\ Reach(ch[B], 0) = 0 /\ 0 - 0 = 0
    BY <1>4, <1>5 DEF Reach
  <1>13. Direction(ch[A], ch[B], << >>, << >>, << >>, T, 0, << >>, << >>)
    BY <1>3, <1>4, <1>5, <1>7, <1>9, <1>10, <1>11, <1>12 DEF Direction
  <1>14. Direction(ch[B], ch[A], << >>, << >>, << >>, T, 0, << >>, << >>)
    BY <1>3, <1>4, <1>5, <1>7, <1>9, <1>10, <1>11, <1>12 DEF Direction
  <1>15. Both(ch[A], ch[B], << >>, << >>, << >>, << >>, T, T, 0, 0,
              << >>, << >>, << >>, << >>)
    BY <1>3, <1>4, <1>5, <1>13, <1>14 DEF Both
  <1>16. Joined(A, B, << >>, << >>, T, T)
    BY <1>1, <1>2, <1>3, <1>15 DEF Joined
  <1>17. Shape
    <2>1. \A x \in Sides : ch[x] \in Working
      BY <1>4, <1>5 DEF SendSide, Sides
    <2>2. ch \in [Sides -> Working]
      BY <1>2, <2>1
    <2> QED BY <1>2, <1>3, <2>2 DEF Shape
  <1>18. Len(submitted[A]) + Len(submitted[B]) <= MaxSdus
    BY <1>1, <1>2, <1>3, Sizes
  <1> QED BY <1>16, <1>17, <1>18 DEF IInv

\* Every step of the devices and the link
LEMMA NextInv ==
    ASSUME IInv, [Next]_vars, ~RequestWhenFull
    PROVE  IInv'
  <1>1. ASSUME NEW x \in Sides, Lose(x) PROVE IInv'
    <2>1. Peer(x) \in Sides /\ Peer(Peer(x)) = x
      BY PeerFacts
    <2>2. Lose(Peer(Peer(x)))
      BY <1>1, <2>1
    <2> QED BY <2>1, <2>2, LoseInv
  <1>2. CASE Next
    <2>1. PICK x \in Sides : \/ Send(x) \/ RequestCanSend(x) \/ SetBusy(x) \/ SetReady(x)
                             \/ Receive(x) \/ Lose(x) \/ Completed(x)
                             \/ RetransmissionTimeout(x) \/ MonitorTimeout(x)
      BY <1>2 DEF Next
    <2>2. CASE Send(x)
      BY <2>2, SendInv
    <2>3. CASE RequestCanSend(x)
      BY <2>3, RequestCanSendInv
    <2>4. CASE SetBusy(x)
      BY <2>4, SetBusyInv
    <2>5. CASE SetReady(x)
      BY <2>5, SetReadyInv
    <2>6. CASE Receive(x)
      BY <2>6, ReceiveInv
    <2>7. CASE Lose(x)
      BY <1>1, <2>7
    <2>8. CASE Completed(x)
      BY <2>8, CompletedInv
    <2>9. CASE RetransmissionTimeout(x)
      BY <2>9, RetransmissionTimeoutInv
    <2>10. CASE MonitorTimeout(x)
      BY <2>10, MonitorTimeoutInv
    <2> QED BY <2>1, <2>2, <2>3, <2>4, <2>5, <2>6, <2>7, <2>8, <2>9, <2>10
  <1>3. CASE UNCHANGED vars
    BY <1>3 DEF vars, IInv, Shape, Joined
  <1> QED BY <1>2, <1>3

-----------------------------------------------------------------------------
(* Theorems *)

\* The inductive invariant, for applications that ask for CAN_SEND_NOW only when
\* an SDU fits into the buffers of l2cap_ertm_can_store_packet_now
THEOREM ErtmInvariant ==
    ASSUME ~RequestWhenFull
    PROVE  Spec => []IInv
  <1>1. Init => IInv
    BY InitInv
  <1>2. IInv /\ [Next]_vars => IInv'
    BY NextInv
  <1> QED BY <1>1, <1>2, PTL DEF Spec

\* The ring of one channel is well formed.
LEMMA RingShape ==
    ASSUME NEW s, NEW str \in Seq(Segment), NEW a \in Nat, NEW h, SendSide(s, str, a, h)
    PROVE  /\ s.unacked <= Min({Window, s.num})
           /\ s.write = (s.read + s.num) % NumTx
           /\ \A k \in 0..(s.num - 1) :
                s.tx[(s.read + k) % NumTx].seq = (s.next - s.num + k) % SeqModulus
  <1> DEFINE n == Len(str)
             first == n - s.num
  <1>1. /\ s.num \in Nat /\ s.unacked \in Nat /\ s.num <= NumTx /\ s.num <= n
        /\ s.unacked <= s.num /\ s.unacked <= Window /\ n \in Nat
    BY SideFacts
  <1>2. /\ s.read = first % NumTx /\ s.write = n % NumTx /\ s.next = n % SeqModulus
        /\ Slots(s, str)
    BY DEF SendSide, Ring
  <1>3. first \in Int /\ first + s.num = n /\ first \in Nat
    BY <1>1
  <1>4. NumTx \in Nat \ {0} /\ SeqModulus \in Nat \ {0} /\ Window \in Nat
    BY Sizes
  <1>5. s.unacked <= Min({Window, s.num})
    BY <1>1, <1>4, MinPair
  <1> HIDE DEF first
  <1>6. \A k \in Int : (s.read + k) % NumTx = (first + k) % NumTx
    BY <1>2, <1>3, <1>4, ModAdd
  <1>7. s.write = (s.read + s.num) % NumTx
    <2>1. s.num \in Int
      BY <1>1
    <2>2. (s.read + s.num) % NumTx = (first + s.num) % NumTx
      BY <1>6, <2>1
    <2> QED BY <1>2, <1>3, <2>2
  <1>8. ASSUME NEW k \in 0..(s.num - 1)
        PROVE  s.tx[(s.read + k) % NumTx].seq = (s.next - s.num + k) % SeqModulus
    <2> DEFINE j == first + k
               c == k - s.num
    <2>1. j \in 0..(n - 1) /\ n <= j + NumTx /\ k \in Int
      BY <1>1, <1>3, <1>4
    <2>2. s.tx[j % NumTx].seq = j % SeqModulus
      <3> HIDE DEF j
      <3> QED BY <1>2, <2>1 DEF Slots
    <2>3. (s.read + k) % NumTx = j % NumTx
      BY <1>6, <2>1
    <2>4. c \in Int /\ n \in Int /\ n + c = j
      BY <1>1, <1>3
    <2>5. s.next - s.num + k = s.next + c
      <3>1. s.next \in Int
        BY <1>1, <1>2, <1>4, ModRange
      <3> QED BY <1>1, <3>1
    <2> HIDE DEF c, j
    <2>6. (s.next + c) % SeqModulus = (n + c) % SeqModulus
      BY <1>2, <1>4, <2>4, ModAdd
    <2> QED BY <2>2, <2>3, <2>4, <2>5, <2>6
  <1> QED BY <1>5, <1>7, <1>8

\* The frames of l2cap_ertm_store_fragment form a ring with consecutive numbers
\* for any number of buffers and any window, with sequence numbers used again,
\* and at most the window of the peer is sent and not acknowledged.
THEOREM ErtmTypeCorrect ==
    ASSUME ~RequestWhenFull
    PROVE  Spec => []ErtmTypeOK
  <1>1. ASSUME IInv PROVE ErtmTypeOK
    <2>1. ASSUME NEW x \in Sides
          PROVE  /\ ch[x].unacked <= Min({Window, ch[x].num})
                 /\ ch[x].write = (ch[x].read + ch[x].num) % NumTx
                 /\ \A k \in 0..(ch[x].num - 1) :
                        ch[x].tx[(ch[x].read + k) % NumTx].seq
                            = (ch[x].next - ch[x].num + k) % SeqModulus
                 /\ ch[x].out_q = << >>
      <3>1. PICK p, q, Tp, Tq : Joined(x, Peer(x), p, q, Tp, Tq)
        BY <1>1, <2>1, JoinedFrom
      <3> DEFINE s == ch[x]
                 h == Heard(ch[Peer(x)], Len(q), accepted[Peer(x)])
      <3>2. /\ SendSide(s, p, accepted[x], h) /\ p \in Seq(Segment) /\ accepted[x] \in Nat
            /\ s.out_q = << >>
        BY <3>1, BothFacts DEF Joined
      <3> HIDE DEF s, h
      <3>3. /\ s.unacked <= Min({Window, s.num})
            /\ s.write = (s.read + s.num) % NumTx
            /\ \A k \in 0..(s.num - 1) :
                s.tx[(s.read + k) % NumTx].seq = (s.next - s.num + k) % SeqModulus
        BY <3>2, RingShape
      <3> QED BY <3>2, <3>3 DEF s
    <2>2. ch \in [Sides -> Channel]
      <3>1. ch \in [Sides -> Working]
        BY <1>1 DEF IInv, Shape
      <3>2. ASSUME NEW x \in Sides PROVE ch[x] \in Channel
        <4>1. ch[x] \in Working /\ ch[x].out_q = << >>
          BY <2>1, <3>1
        <4> QED BY <4>1 DEF Working, Channel, TxBuffer, RxBuffer, Flag
      <3> QED BY <3>1, <3>2
    <2>3. UnackedWithinWindow
      BY <2>1 DEF UnackedWithinWindow
    <2> QED BY <2>1, <2>2, <2>3 DEF ErtmTypeOK
  <1> QED BY <1>1, ErtmInvariant, PTL

\* l2cap_ertm_process_req_seq drops a frame only after the peer took it, and the
\* peer takes none twice, for any modulus that exceeds the buffers by two and the
\* window, and however many frames and acknowledgements are lost or late.
THEOREM NothingDroppedUntaken ==
    ASSUME ~RequestWhenFull
    PROVE  Spec => []AcknowledgedMeansAccepted
  <1>1. ASSUME IInv PROVE AcknowledgedMeansAccepted
    <2> SUFFICES ASSUME NEW x \in Sides
                 PROVE  /\ stored[x] - ch[x].num <= accepted[x]
                        /\ accepted[x] <= stored[x]
      BY DEF AcknowledgedMeansAccepted
    <2>1. PICK p, q, Tp, Tq : Joined(x, Peer(x), p, q, Tp, Tq)
      BY <1>1, JoinedFrom
    <2>2. /\ Len(p) - ch[x].num <= accepted[x] /\ accepted[x] <= Len(p)
          /\ stored[x] = Len(p)
      BY <2>1, BothFacts DEF Joined
    <2> QED BY <2>2
  <1> QED BY <1>1, ErtmInvariant, PTL

-----------------------------------------------------------------------------
(* The channel implements SduFifo *)

FifoStep == Fifo!FifoNext \/ UNCHANGED Fifo!fifo

\* A step of an open device that neither submits nor delivers: it may give up.
LEMMA QuietFifo ==
    ASSUME NEW x \in Sides, ch[x].open, ch'[Peer(x)] = ch[Peer(x)],
           UNCHANGED << submitted, delivered >>
    PROVE  FifoStep
  <1> DEFINE closed == \E z \in Sides : ~ch[z].open
  <1>1. CASE closed'
    <2>1. Fifo!Ask
      BY <1>1 DEF Fifo!Ask
    <2> QED BY <2>1 DEF FifoStep, Fifo!FifoNext
  <1>2. CASE ~closed'
    <2>1. ~closed
      <3>1. ASSUME NEW z \in Sides, ~ch[z].open PROVE FALSE
        <4>1. z = Peer(x) /\ Peer(x) \in Sides
          BY <3>1, PeerFacts
        <4>2. ~ch'[z].open
          BY <3>1, <4>1
        <4> QED BY <1>2, <4>2
      <3> QED BY <3>1
    <2>2. closed' = closed
      BY <1>2, <2>1
    <2> QED BY <2>2 DEF FifoStep, Fifo!fifo
  <1> QED BY <1>1, <1>2

\* A step after which the same devices are open
LEMMA SameOpen ==
    ASSUME NEW x \in Sides, ch'[x].open = ch[x].open, ch'[Peer(x)] = ch[Peer(x)]
    PROVE  (\E z \in Sides : ~ch[z].open)' = (\E z \in Sides : ~ch[z].open)
  <1>1. \A z \in Sides : ch'[z].open = ch[z].open
    BY PeerFacts
  <1> QED BY <1>1

\* What is dispatched is a sequence.
LEMMA DispatchSequence ==
    ASSUME NEW s, NEW g
    PROVE  \E S : ExpectedDispatch(s, g) \in Seq(S)
  <1> DEFINE t == Reassemble(s, g)
             x == s.rx[s.store]
             p1 == << g.piece >>
             q1 == Append(s.rbuf, g.piece)
             p2 == << x.segment.piece >>
             q2 == Append(t.rbuf, x.segment.piece)
             S == {p1, q1, p2, q2}
             d == Dispatched(s, g)
             e == IF x.valid THEN Dispatched(t, x.segment) ELSE << >>
  <1>1. d \in {<< p1 >>, << q1 >>, << >>}
    BY DEF Dispatched
  <1>2. e \in {<< p2 >>, << q2 >>, << >>}
    BY DEF Dispatched
  <1>3. ExpectedDispatch(s, g) = d \o e
    BY DEF ExpectedDispatch
  <1> HIDE DEF d, e, p1, q1, p2, q2, t, x
  <1>0. p1 \in S /\ q1 \in S /\ p2 \in S /\ q2 \in S
    OBVIOUS
  <1> HIDE DEF S
  <1>4. d \in Seq(S) /\ e \in Seq(S)
    <2>1. /\ << p1 >> \in Seq(S) /\ << q1 >> \in Seq(S) /\ << p2 >> \in Seq(S)
          /\ << q2 >> \in Seq(S) /\ << >> \in Seq(S)
      BY <1>0
    <2> QED BY <1>1, <1>2, <2>1
  <1>5. d \o e \in Seq(S)
    BY <1>4
  <1> QED BY <1>3, <1>5

\* Frames are taken: SDUs are delivered, the next ones that were submitted.
LEMMA ReceiveFifo ==
    ASSUME IInv, NEW x \in Sides, Receive(x)
    PROVE  FifoStep
  <1> DEFINE y == Peer(x)
             del == delivered[y]
             sub == submitted[y]
             d == delivered'[y]
             f == Head(wire[y])
             e == IF f.type = "I" /\ f.seq = ch[x].expect
                  THEN ExpectedDispatch(ch[x], f.segment) ELSE << >>
             n == Len(del)
             m == Len(d)
             closed == \E z \in Sides : ~ch[z].open
  <1>1. y \in Sides /\ x # y
    BY PeerFacts
  <1>2. Shape /\ IInv' /\ ch'[x].open = ch[x].open
    BY ReceiveInv DEF IInv
  <1>3. delivered \in [Sides -> Seq(Sdu)] /\ submitted \in [Sides -> Seq(Sdu)]
        /\ ch \in [Sides -> Working]
    BY <1>2 DEF Shape
  <1>4. UNCHANGED submitted
    BY DEF Receive
  <1>5. delivered' = [delivered EXCEPT ![y] = del \o e]
    BY DEF Receive
  <1>6. ch'[y] = ch[y]
    <2>1. PICK r : ch' = [ch EXCEPT ![x] = r]
      BY DEF Receive
    <2> QED BY <1>1, <1>3, <2>1
  <1>7. closed' = closed
    BY <1>2, <1>6, SameOpen
  <1>8. PICK S : e \in Seq(S)
    <2>1. << >> \in Seq({})
      OBVIOUS
    <2>2. \E S : ExpectedDispatch(ch[x], f.segment) \in Seq(S)
      BY DispatchSequence
    <2> HIDE DEF f
    <2>3. CASE f.type = "I" /\ f.seq = ch[x].expect
      BY <2>2, <2>3
    <2>4. CASE ~(f.type = "I" /\ f.seq = ch[x].expect)
      <3>1. e = << >>
        BY <2>4
      <3> QED BY <2>1, <3>1
    <2> QED BY <2>3, <2>4
  <1> HIDE DEF e, f, closed
  <1>9. d = del \o e /\ del \in Seq(Sdu) /\ sub \in Seq(Sdu)
    BY <1>1, <1>3, <1>5
  <1>10. /\ d \in Seq(Sdu) /\ m <= Len(sub) /\ \A k \in 1..m : d[k] = sub[k]
    <2>1. IInv' => (\E p, q, Tp, Tq : Joined(x, Peer(x), p, q, Tp, Tq))'
      BY JoinedFrom, PTL
    <2>2. PICK p, q, Tp, Tq : Joined(x, Peer(x), p, q, Tp, Tq)'
      BY <1>2, <2>1
    <2>3. Assembly(ch'[x].rbuf, ch'[x].rlen, accepted'[y], Tq, submitted'[y], delivered'[y])
      BY <2>2 DEF Joined, Both, Direction, RecvSide
    <2> QED BY <1>4, <2>3 DEF Assembly
  <1>11. n \in Nat /\ m \in Nat /\ n <= m /\ Len(sub) \in Nat
    <2>1. n \in Nat /\ m \in Nat /\ Len(e) \in Nat /\ Len(sub) \in Nat
      BY <1>8, <1>9, <1>10
    <2>2. m = n + Len(e)
      BY <1>8, <1>9
    <2> QED BY <2>1, <2>2
  <1>12. \A k \in 1..n : d[k] = del[k]
    BY <1>8, <1>9
  <1>13. d = SubSeq(sub, 1, m)
    <2> HIDE DEF d, del, sub
    <2> QED BY <1>9, <1>10, <1>11
  <1>14. Fifo!IsPrefix(del, d)
    <2> HIDE DEF d, del, sub
    <2>1. SubSeq(del, 1, n) = SubSeq(d, 1, n)
      BY <1>9, <1>10, <1>11, <1>12
    <2> QED BY <1>11, <2>1 DEF Fifo!IsPrefix
  <1>15. Fifo!Deliver(y)
    <2>1. m \in Len(delivered[y])..Len(submitted[y])
      BY <1>10, <1>11
    <2>2. delivered' = [delivered EXCEPT ![y] = SubSeq(submitted[y], 1, m)]
      BY <1>1, <1>3, <1>5, <1>9, <1>13
    <2>3. \E k \in Len(delivered[y])..Len(submitted[y]) :
            delivered' = [delivered EXCEPT ![y] = SubSeq(submitted[y], 1, k)]
      BY <2>1, <2>2
    <2> QED BY <1>4, <1>7, <1>14, <2>3 DEF Fifo!Deliver, closed
  <1> QED BY <1>1, <1>15 DEF FifoStep, Fifo!FifoNext

\* An SDU is submitted.
LEMMA SendFifo ==
    ASSUME IInv, NEW x \in Sides, Send(x)
    PROVE  FifoStep
  <1> DEFINE closed == \E z \in Sides : ~ch[z].open
             k == Len(submitted[x]) + 1
  <1>1. Peer(x) \in Sides /\ x # Peer(x) /\ ch'[x].open = ch[x].open
        /\ ch \in [Sides -> Working] /\ submitted \in [Sides -> Seq(Sdu)]
        /\ IInv'
    BY SendInv, PeerFacts DEF IInv, Shape
  <1>2. PICK n \in 1..MaxPieces :
            /\ \E t : Finish(x, t)
            /\ submitted' = [submitted EXCEPT ![x] = Append(@, [i \in 1..n |-> k])]
    BY DEF Send
  <1> DEFINE d == [i \in 1..n |-> k]
  <1>3. UNCHANGED delivered
    BY DEF Send
  <1>4. ch'[Peer(x)] = ch[Peer(x)]
    BY <1>1, <1>2 DEF Finish
  <1>5. closed' = closed
    BY <1>1, <1>4, SameOpen
  <1>6. d \in Sdu
    <2>1. k \in 1..MaxSdus
      <3> DEFINE ka == Len(submitted[A])
                 kb == Len(submitted[B])
      <3>1. ka \in Nat /\ kb \in Nat /\ MaxSdus \in Nat
        BY <1>1, Sizes DEF Sides
      <3>2. ka + kb < MaxSdus
        BY DEF Send
      <3>3. k = ka + 1 \/ k = kb + 1
        BY DEF Sides
      <3> HIDE DEF ka, kb, k
      <3> QED BY <3>1, <3>2, <3>3
    <2> HIDE DEF k
    <2> QED BY <2>1 DEF Sdu
  <1> HIDE DEF closed, d
  <1>7. submitted' = [submitted EXCEPT ![x] = Append(@, d)]
    BY <1>2 DEF d
  <1>8. Fifo!Submit(x, d)
    BY <1>3, <1>5, <1>7 DEF Fifo!Submit, closed
  <1> QED BY <1>6, <1>8 DEF FifoStep, Fifo!FifoNext

\* Every step is a step of SduFifo or none.
LEMMA NextFifo ==
    ASSUME IInv, [Next]_vars
    PROVE  FifoStep
  <1>1. ch \in [Sides -> Working]
    BY DEF IInv, Shape
  <1>2. ASSUME NEW x \in Sides, NEW u, Finish(x, u), UNCHANGED << submitted, delivered >>
        PROVE  FifoStep
    <2>1. ch[x].open /\ ch'[Peer(x)] = ch[Peer(x)]
      BY <1>1, <1>2, PeerFacts DEF Finish
    <2> QED BY <1>2, <2>1, QuietFifo
  <1>3. ASSUME UNCHANGED << ch, submitted, delivered >>
        PROVE  FifoStep
    BY <1>3 DEF FifoStep, Fifo!fifo
  <1>4. CASE Next
    <2>1. PICK x \in Sides : \/ Send(x) \/ RequestCanSend(x) \/ SetBusy(x) \/ SetReady(x)
                             \/ Receive(x) \/ Lose(x) \/ Completed(x)
                             \/ RetransmissionTimeout(x) \/ MonitorTimeout(x)
      BY <1>4 DEF Next
    <2>2. CASE Send(x)
      BY <2>2, SendFifo
    <2>3. CASE RequestCanSend(x)
      BY <1>2, <2>3 DEF RequestCanSend
    <2>4. CASE SetBusy(x)
      BY <1>2, <2>4 DEF SetBusy
    <2>5. CASE SetReady(x)
      BY <1>2, <2>5 DEF SetReady
    <2>6. CASE Receive(x)
      BY <2>6, ReceiveFifo
    <2>7. CASE Lose(x)
      BY <1>3, <2>7 DEF Lose
    <2>8. CASE Completed(x)
      BY <1>2, <2>8 DEF Completed
    <2>9. CASE RetransmissionTimeout(x)
      BY <1>2, <2>9 DEF RetransmissionTimeout
    <2>10. CASE MonitorTimeout(x)
      BY <1>2, <2>10 DEF MonitorTimeout
    <2> QED BY <2>1, <2>2, <2>3, <2>4, <2>5, <2>6, <2>7, <2>8, <2>9, <2>10
  <1>5. CASE UNCHANGED vars
    BY <1>3, <1>5 DEF vars
  <1> QED BY <1>4, <1>5

\* A channel in enhanced retransmission mode implements SduFifo: through corrupted
\* frames, early timeouts, selective and full retransmission, with sequence
\* numbers used again, SDUs of any number of segments arrive whole, once and in
\* order in both directions.
THEOREM ErtmImplementsFifo ==
    ASSUME ~RequestWhenFull
    PROVE  Spec => ImplementsFifo
  <1>1. Init => Fifo!FifoInit
    <2> SUFFICES ASSUME Init PROVE Fifo!FifoInit
      OBVIOUS
    <2>1. \A x \in Sides : ch[x].open
      BY DEF Init
    <2>2. (\E x \in Sides : ~ch[x].open) = FALSE
      BY <2>1
    <2> QED BY <2>2 DEF Init, Fifo!FifoInit
  <1>2. IInv /\ [Next]_vars => [Fifo!FifoNext]_(Fifo!fifo)
    BY NextFifo DEF FifoStep
  <1> QED BY <1>1, <1>2, ErtmInvariant, PTL DEF Spec, ImplementsFifo, Fifo!FifoSpec

-----------------------------------------------------------------------------
(* The channel does not stall *)

\* Frames that are not acknowledged are watched by a timer.
Timed(s) == s.open /\ s.unacked > 0 => s.retrans \/ s.monitor

\* The answer to a poll is an SREJ only if a frame is missing.
Answering(s) == s.final /\ "srej" \in s.flags /\ "rr" \notin s.flags => Held(s)

\* So is an answer that was sent in this step.
Answered(s) ==
    \A p \in 1..Len(s.out_q) :
        /\ s.out_q[p].type = "RNR" => ~s.out_q[p].final
        /\ s.out_q[p].type = "SREJ" /\ s.out_q[p].final =>
                Held(s) /\ s.out_q[p].req = s.expect

Awake(s) == Timed(s) /\ Answering(s) /\ Answered(s)

\* Nothing that can be sent is left unsent when the controller has all its buffers.
Settled(s) ==
    s.open /\ ~s.wait /\ s.acl = AclBuffers => Min({Window, s.num}) <= s.unacked

\* The end of a poll allows to send, and does so: the receiver of f, which sends
\* n next, has something to do then.
Useful(f, n) ==
    /\ f.type = "RNR" => ~f.final
    /\ f.type = "SREJ" /\ f.final => f.req # n

LInv ==
    \A x \in Sides :
        /\ Awake(ch[x]) /\ Settled(ch[x])
        /\ \A p \in 1..Len(wire[x]) : Useful(wire[x][p], ch[Peer(x)].next)

\* A change of other fields
LEMMA AwakeKept ==
    ASSUME NEW s, NEW t, Awake(s), Answering(t), Timed(t), t.rx = s.rx, t.store = s.store,
           t.expect = s.expect, t.out_q = s.out_q
    PROVE  Awake(t)
  BY DEF Awake, Answered, Held

\* A frame is sent.
LEMMA AwakeSent ==
    ASSUME NEW s, NEW t, NEW f \in Frame, s.out_q \in Seq(Frame), Awake(s),
           t.out_q = Append(s.out_q, f), Answering(t), Timed(t),
           t.rx = s.rx, t.store = s.store, t.expect = s.expect,
           f.type = "RNR" => ~f.final,
           f.type = "SREJ" /\ f.final => Held(s) /\ f.req = s.expect
    PROVE  Awake(t)
  <1>1. Held(t) = Held(s)
    BY DEF Held
  <1>2. Answered(t)
    <2> DEFINE n == Len(s.out_q)
               q == s.out_q
               q2 == t.out_q
    <2>1. /\ n \in Nat /\ Len(q2) = n + 1 /\ q2[n + 1] = f
          /\ \A p \in 1..n : q2[p] = q[p]
      BY AppendIndex
    <2>2. ASSUME NEW p \in 1..Len(q2)
          PROVE  /\ q2[p].type = "RNR" => ~q2[p].final
                 /\ q2[p].type = "SREJ" /\ q2[p].final => Held(t) /\ q2[p].req = t.expect
      <3>1. CASE p = n + 1
        BY <1>1, <2>1, <3>1
      <3>2. CASE p \in 1..n
        BY <1>1, <2>1, <3>2 DEF Awake, Answered
      <3> HIDE DEF n, q2
      <3> QED BY <2>1, <3>1, <3>2
    <2> QED BY <2>2 DEF Answered
  <1> QED BY <1>2 DEF Awake

\* l2cap_ertm_channel_send_information_frame starts the retransmission timer.
LEMMA ChannelSendAwake ==
    ASSUME NEW s \in Working, CanSend(s), Awake(s)
    PROVE  Awake(ChannelSend(s)) /\ ChannelSend(s).acl = s.acl - 1
  <1> DEFINE t == ChannelSend(s)
             i == s.send
             k == IF s.tx[i].state = "new" THEN 1 ELSE 0
             f == IFrame(s.tx[i].seq, FALSE, s.req, s.tx[i].segment)
             u == [s EXCEPT !.unacked = @ + k, !.send = (@ + 1) % NumTx]
             v == [u EXCEPT !.tx[i].state = "sent", !.retrans = TRUE]
  <1>1. /\ s.tx \in [TxIndex -> TxBuffer] /\ i \in TxIndex /\ s.req \in SeqNr
        /\ s.out_q \in Seq(Frame)
    BY DEF Working
  <1>2. f \in Frame /\ f.type = "I"
    BY <1>1 DEF IFrame, Frame, TxBuffer
  <1>3. t = [v EXCEPT !.acl = @ - 1,
                       !.out_q = Append(@, IFrame(u.tx[i].seq, FALSE, u.req,
                                                  u.tx[i].segment))]
    BY DEF ChannelSend, SendInformationFrame, Transmit
  <1>4. u.tx = s.tx /\ u.req = s.req
    BY DEF Working
  <1>5. t = [v EXCEPT !.acl = @ - 1, !.out_q = Append(@, f)]
    BY <1>3, <1>4
  <1> HIDE DEF f, k, t
  <1>6. /\ t.retrans = TRUE /\ t.acl = s.acl - 1 /\ t.out_q = Append(s.out_q, f)
        /\ t.flags = s.flags /\ t.final = s.final
        /\ t.rx = s.rx /\ t.store = s.store /\ t.expect = s.expect
    BY <1>5 DEF Working
  <1>7. Timed(t) /\ Answering(t)
    BY <1>6 DEF Timed, Answering, Awake, Held
  <1>8. Awake(t)
    BY <1>1, <1>2, <1>6, <1>7, AwakeSent
  <1> QED BY <1>6, <1>8 DEF t

\* A round of l2cap_notify_channel_can_send sends a frame, or there is none to send.
LEMMA NotifyOnceAwake ==
    ASSUME NEW s \in Working, Awake(s), ~s.waiting
    PROVE  Awake(NotifyOnce(s)) /\ Settled(NotifyOnce(s))
  <1> DEFINE new   == s.unacked < Min({Window, s.num})
             again == { k \in 0..(s.unacked - 1) :
                          s.tx[(s.read + k) % NumTx].state = "again" }
             i     == (s.read + Min(again)) % NumTx
             t     == IF new \/ again = {} THEN s ELSE [s EXCEPT !.send = i]
             r == IF ~s.open \/ s.wait \/ (~new /\ again = {} /\ ~s.waiting) THEN s
                  ELSE IF CanSend(t) THEN ChannelSend(t) ELSE t
  <1>1. NotifyOnce(s) = r
    BY DEF NotifyOnce
  <1>2. /\ s.unacked \in Nat /\ s.num \in Nat /\ s.acl \in 0..AclBuffers /\ s.read \in TxIndex
        /\ AclBuffers \in Nat /\ AclBuffers # 0 /\ Window \in Nat
    BY Sizes DEF Working
  <1>3. Min({Window, s.num}) \in Nat
    BY <1>2, MinPair
  <1>4. new \/ Min({Window, s.num}) <= s.unacked
    BY <1>2, <1>3
  <1>5. again = {} \/ i \in TxIndex
    <2> SUFFICES ASSUME again # {} PROVE i \in TxIndex
      OBVIOUS
    <2>1. again \in SUBSET Nat
      BY SMTT(40)
    <2>2. Min(again) \in Nat
      <3> HIDE DEF again
      <3> QED BY <2>1, SmallestElement
    <2>3. s.read + Min(again) \in Int
      <3> HIDE DEF again
      <3> QED BY <1>2, <2>2, SlotNat
    <2> QED BY <2>3, NumberRange
  <1> HIDE DEF again, new, i
  <1>6. t \in Working /\ Awake(t) /\ t.acl = s.acl
    <2>1. CASE t = s
      BY <2>1
    <2>2. CASE again # {} /\ t = [s EXCEPT !.send = i]
      <3> HIDE DEF t
      <3>1. t \in Working
        BY <1>5, <2>2 DEF Working
      <3>2. /\ t.open = s.open /\ t.unacked = s.unacked /\ t.retrans = s.retrans
            /\ t.monitor = s.monitor /\ t.final = s.final /\ t.flags = s.flags
            /\ t.rx = s.rx /\ t.store = s.store /\ t.expect = s.expect
            /\ t.out_q = s.out_q /\ t.acl = s.acl
        BY <2>2 DEF Working
      <3>3. Timed(t) /\ Answering(t)
        BY <3>2 DEF Timed, Answering, Awake, Held
      <3> QED BY <3>1, <3>2, <3>3, AwakeKept
    <2> QED BY <2>1, <2>2
  <1> HIDE DEF t
  <1>7. CASE ~s.open \/ s.wait \/ (~new /\ again = {})
    <2>1. r = s
      BY <1>7
    <2>2. Settled(s)
      BY <1>4, <1>7 DEF Settled
    <2> QED BY <1>1, <2>1, <2>2
  <1>8. CASE ~(~s.open \/ s.wait \/ (~new /\ again = {})) /\ CanSend(t)
    <2>1. r = ChannelSend(t)
      BY <1>8
    <2> HIDE DEF r
    <2>2. Awake(r) /\ r.acl = s.acl - 1
      BY <1>6, <1>8, <2>1, ChannelSendAwake
    <2>3. r.acl # AclBuffers
      BY <1>2, <2>2
    <2> QED BY <1>1, <2>2, <2>3 DEF Settled
  <1>9. CASE ~(~s.open \/ s.wait \/ (~new /\ again = {})) /\ ~CanSend(t)
    <2>1. r = t
      BY <1>9
    <2> HIDE DEF r
    <2>2. r.acl # AclBuffers
      BY <1>2, <1>6, <1>9, <2>1 DEF CanSend
    <2> QED BY <1>1, <1>6, <2>1, <2>2 DEF Settled
  <1> QED BY <1>7, <1>8, <1>9

\* l2cap_notify_channel_can_send
LEMMA NotifyAwake ==
    ASSUME NEW s, NEW str \in Seq(Segment), NEW a \in Nat, NEW h, SendSide(s, str, a, h),
           Awake(s)
    PROVE  Awake(NotifyCanSend(s)) /\ Settled(NotifyCanSend(s))
  <1> DEFINE X == { x \in Working : SendSide(x, str, a, h) /\ Awake(x) }
  <1>1. s \in X
    BY SideFacts
  <1>2. ASSUME NEW x \in X
        PROVE  NotifyOnce(x) \in X /\ Awake(NotifyOnce(x)) /\ Settled(NotifyOnce(x))
    <2>1. SendSide(NotifyOnce(x), str, a, h)
      BY NotifyOnceSide
    <2>2. NotifyOnce(x) \in Working
      BY <2>1, SideFacts
    <2>3. Awake(NotifyOnce(x)) /\ Settled(NotifyOnce(x))
      BY NotifyOnceAwake DEF SendSide
    <2> QED BY <2>1, <2>2, <2>3
  <1> HIDE DEF X
  <1>3. PICK x \in X : NotifyCanSend(s) = NotifyOnce(x)
    BY <1>1, <1>2, NotifyLoop
  <1> QED BY <1>2, <1>3

\* A supervisory frame is sent.
LEMMA TransmitAwake ==
    ASSUME NEW s \in Working, NEW t \in Working, NEW f \in Frame, Awake(s), CanSend(s),
           SameSending(s, t), Keeps(s, t), t.retrans = s.retrans, t.monitor = s.monitor,
           t.acl = s.acl, Answering(t),
           f.type = "RNR" => ~f.final,
           f.type = "SREJ" /\ f.final => Held(s) /\ f.req = s.expect
    PROVE  Awake(Transmit(t, f)) /\ Settled(Transmit(t, f))
  <1> DEFINE r == Transmit(t, f)
  <1>1. /\ r.out_q = Append(t.out_q, f) /\ r.acl = t.acl - 1
        /\ r.open = t.open /\ r.unacked = t.unacked /\ r.retrans = t.retrans
        /\ r.monitor = t.monitor /\ r.final = t.final /\ r.flags = t.flags
        /\ r.rx = t.rx /\ r.store = t.store /\ r.expect = t.expect
    BY DEF Transmit, Working
  <1> HIDE DEF r
  <1>2. Timed(r)
    BY <1>1 DEF Timed, Awake, SameSending, Keeps
  <1>3. Answering(r)
    BY <1>1 DEF Answering, Held
  <1>4. Awake(r)
    <2>1. s.out_q \in Seq(Frame)
      BY DEF Working
    <2> QED BY <1>1, <1>2, <1>3, <2>1, AwakeSent DEF SameSending, Keeps
  <1>5. r.acl # AclBuffers
    BY <1>1, Sizes DEF Working, CanSend
  <1> QED BY <1>4, <1>5 DEF Settled, r

\* A frame is sent again after SREJ.
LEMMA AgainAwake ==
    ASSUME NEW s \in Working, Awake(s), CanSend(s), NEW i \in TxIndex
    PROVE  LET t == SendInformationFrame([s EXCEPT !.final = FALSE], i, s.final)
           IN  Awake(t) /\ Settled(t)
  <1> DEFINE t == SendInformationFrame([s EXCEPT !.final = FALSE], i, s.final)
             f == IFrame(s.tx[i].seq, s.final, s.req, s.tx[i].segment)
             u == [s EXCEPT !.final = FALSE]
             v == [u EXCEPT !.tx[i].state = "sent", !.retrans = TRUE]
  <1>1. /\ s.tx \in [TxIndex -> TxBuffer] /\ s.req \in SeqNr /\ s.out_q \in Seq(Frame)
        /\ s.final \in BOOLEAN
    BY DEF Working
  <1>2. f \in Frame /\ f.type = "I"
    BY <1>1 DEF IFrame, Frame, TxBuffer
  <1>3. t = [v EXCEPT !.acl = @ - 1,
                       !.out_q = Append(@, IFrame(u.tx[i].seq, s.final, u.req,
                                                  u.tx[i].segment))]
    BY DEF SendInformationFrame, Transmit
  <1>4. u.tx = s.tx /\ u.req = s.req
    BY DEF Working
  <1>5. t = [v EXCEPT !.acl = @ - 1, !.out_q = Append(@, f)]
    BY <1>3, <1>4
  <1> HIDE DEF f, t
  <1>6. /\ t.retrans = TRUE /\ t.acl = s.acl - 1 /\ t.out_q = Append(s.out_q, f)
        /\ t.final = FALSE
        /\ t.rx = s.rx /\ t.store = s.store /\ t.expect = s.expect
    BY <1>5 DEF Working
  <1>7. Timed(t) /\ Answering(t)
    BY <1>6 DEF Timed, Answering
  <1>8. Awake(t)
    BY <1>1, <1>2, <1>6, <1>7, AwakeSent
  <1>9. t.acl # AclBuffers
    BY <1>6, Sizes DEF Working
  <1> QED BY <1>8, <1>9 DEF Settled, t

\* Something for l2cap_run to send
Pending(s) ==
    s.flags # {} \/ (s.active /\ \E i \in TxIndex : s.tx[i].state = "again")

\* l2cap_run_for_classic_channel_ertm
LEMMA RunErtmAwake ==
    ASSUME NEW s \in Working, Awake(s)
    PROVE  /\ Awake(RunErtm(s))
           /\ Settled(s) \/ Pending(s) => Settled(RunErtm(s))
  <1> DEFINE r == RunErtm(s)
             F == s.flags
             Good(t) == Awake(t) /\ (Settled(s) \/ Pending(s) => Settled(t))
             t1 == [s EXCEPT !.flags = @ \ {"rr"}, !.final = FALSE]
             t2 == [s EXCEPT !.flags = @ \ {"poll"}]
             t3 == [s EXCEPT !.flags = @ \ {"rnr"}]
             t4 == [s EXCEPT !.flags = @ \ {"rej"}]
             t5 == [s EXCEPT !.flags = {}, !.final = FALSE]
             f1 == SFrame("RR", FALSE, s.final, s.req)
             f2 == SFrame("RR", TRUE, FALSE, s.req)
             f3 == SFrame("RNR", FALSE, FALSE, s.req)
             f4 == SFrame("REJ", FALSE, FALSE, s.req)
             f5 == SFrame("SREJ", FALSE, s.final, s.expect)
             again == { i \in TxIndex : s.tx[i].state = "again" }
             t6 == IF again = {} THEN [s EXCEPT !.active = FALSE]
                   ELSE SendInformationFrame([s EXCEPT !.final = FALSE], Min(again), s.final)
             p1 == "rr" \in F
             p2 == F \cap {"rr", "poll"} = {"poll"}
             p3 == F \cap {"rr", "poll", "rnr"} = {"rnr"}
             p4 == F \ {"srej"} = {"rej"}
             p5 == F = {"srej"}
             p6 == F = {} /\ s.active
  <1>1. /\ s.final \in BOOLEAN /\ F \in SUBSET Flag /\ s.req \in SeqNr /\ s.expect \in SeqNr
        /\ s.acl \in 0..AclBuffers /\ AclBuffers \in Nat /\ AclBuffers # 0
    BY Sizes DEF Working
  <1>2. CASE ~CanSend(s)
    <2>1. r = s
      BY <1>2 DEF RunErtm
    <2>2. s.acl # AclBuffers
      BY <1>1, <1>2 DEF CanSend
    <2> QED BY <2>1, <2>2 DEF Settled
  <1>3. CASE CanSend(s)
    <2>1. r = CASE p1 -> Transmit(t1, f1) [] p2 -> Transmit(t2, f2) [] p3 -> Transmit(t3, f3)
                [] p4 -> Transmit(t4, f4) [] p5 -> Transmit(t5, f5) [] p6 -> t6 [] OTHER -> s
      BY <1>3, Zenon DEF RunErtm
    <2>2. F = {} \/ p1 \/ p2 \/ p3 \/ p4 \/ p5
      BY <1>1 DEF Flag
    <2>3. /\ f1 \in Frame /\ f2 \in Frame /\ f3 \in Frame /\ f4 \in Frame /\ f5 \in Frame
          /\ f1.type = "RR" /\ f2.type = "RR" /\ f3.type = "RNR" /\ f4.type = "REJ"
          /\ f5.type = "SREJ" /\ ~f3.final /\ f5.final = s.final /\ f5.req = s.expect
      BY <1>1 DEF SFrame, Frame
    <2>4. /\ t1 \in Working /\ t2 \in Working /\ t3 \in Working /\ t4 \in Working
          /\ t5 \in Working
      BY ZenonT(60) DEF Working
    <2>5. /\ SameSending(s, t1) /\ Keeps(s, t1) /\ SameSending(s, t2) /\ Keeps(s, t2)
          /\ SameSending(s, t3) /\ Keeps(s, t3) /\ SameSending(s, t4) /\ Keeps(s, t4)
          /\ SameSending(s, t5) /\ Keeps(s, t5)
      BY DEF Working, SameSending, SameRing, Keeps
    <2>6. /\ t1.retrans = s.retrans /\ t1.monitor = s.monitor /\ t1.acl = s.acl
          /\ t2.retrans = s.retrans /\ t2.monitor = s.monitor /\ t2.acl = s.acl
          /\ t3.retrans = s.retrans /\ t3.monitor = s.monitor /\ t3.acl = s.acl
          /\ t4.retrans = s.retrans /\ t4.monitor = s.monitor /\ t4.acl = s.acl
          /\ t5.retrans = s.retrans /\ t5.monitor = s.monitor /\ t5.acl = s.acl
      BY DEF Working
    <2>7. /\ t1.final = FALSE /\ t5.final = FALSE /\ t2.final = s.final
          /\ t3.final = s.final /\ t4.final = s.final
          /\ t2.flags = F \ {"poll"} /\ t3.flags = F \ {"rnr"} /\ t4.flags = F \ {"rej"}
          /\ t2.rx = s.rx /\ t3.rx = s.rx /\ t4.rx = s.rx
          /\ t2.store = s.store /\ t3.store = s.store /\ t4.store = s.store
      BY DEF Working
    <2>8. Answering(s)
      BY DEF Awake
    <2>9. p5 /\ s.final => Held(s)
      BY <2>8 DEF Answering
    <2>10. p6 => Good(t6)
      <3> SUFFICES ASSUME p6 PROVE Good(t6)
        OBVIOUS
      <3>1. CASE again = {}
        <4> DEFINE u == [s EXCEPT !.active = FALSE]
        <4>1. t6 = u
          BY <3>1
        <4>2. /\ u.open = s.open /\ u.unacked = s.unacked /\ u.retrans = s.retrans
              /\ u.monitor = s.monitor /\ u.final = s.final /\ u.flags = s.flags
              /\ u.rx = s.rx /\ u.store = s.store /\ u.expect = s.expect
              /\ u.out_q = s.out_q /\ u.acl = s.acl /\ u.wait = s.wait /\ u.num = s.num
          BY DEF Working
        <4> HIDE DEF u
        <4>3. Timed(u) /\ Answering(u)
          BY <4>2 DEF Timed, Answering, Awake, Held
        <4>4. ~Pending(s)
          BY <3>1 DEF Pending
        <4> QED BY <4>1, <4>2, <4>3, <4>4, AwakeKept DEF Settled
      <3>2. CASE again # {}
        <4>1. again \in SUBSET Nat
          BY SlotNat
        <4>2. Min(again) \in again
          <5> HIDE DEF again
          <5> QED BY <3>2, <4>1, SmallestElement
        <4>3. Min(again) \in TxIndex
          BY <4>2
        <4> HIDE DEF again
        <4> QED BY <1>3, <3>2, <4>3, AgainAwake
      <3> QED BY <3>1, <3>2
    <2>11. F = {} /\ ~p6 => Good(s)
      BY DEF Pending
    <2>12. p2 => Answering(t2)
      BY <2>7, <2>8 DEF Answering, Held
    <2>13. Answering(t3) /\ Answering(t4)
      BY <2>7, <2>8 DEF Answering, Held
    <2>14. Answering(t1) /\ Answering(t5)
      BY <2>7 DEF Answering
    <2>15. /\ p1 => ~p2 /\ ~p3 /\ ~p4 /\ ~p5 /\ F # {}
           /\ p2 => "poll" \in F /\ "rr" \notin F
           /\ p3 => "rnr" \in F /\ "rr" \notin F /\ "poll" \notin F
           /\ p4 => "rej" \in F /\ "rr" \notin F /\ "poll" \notin F /\ "rnr" \notin F
           /\ p5 => /\ "srej" \in F /\ "rr" \notin F /\ "poll" \notin F /\ "rnr" \notin F
                    /\ "rej" \notin F
      OBVIOUS
    <2>16. /\ p2 => ~p3 /\ ~p4 /\ ~p5 /\ F # {}
           /\ p3 => ~p2 /\ ~p4 /\ ~p5 /\ F # {}
           /\ p4 => ~p2 /\ ~p3 /\ ~p5 /\ F # {}
           /\ p5 => ~p2 /\ ~p3 /\ ~p4 /\ F # {}
           /\ p2 \/ p3 \/ p4 \/ p5 => ~p1
      <3> HIDE DEF p2, p3, p4, p5
      <3>1. F = {} => "poll" \notin F /\ "rnr" \notin F /\ "rej" \notin F /\ "srej" \notin F
        OBVIOUS
      <3> QED BY <2>15, <3>1
    <2>17. p6 => F = {}
      OBVIOUS
    <2> HIDE DEF p1, p2, p3, p4, p5, p6, t1, t2, t3, t4, t5, t6, f1, f2, f3, f4, f5, r
    <2>18. /\ Good(Transmit(t1, f1)) /\ (p2 => Good(Transmit(t2, f2)))
           /\ Good(Transmit(t3, f3)) /\ Good(Transmit(t4, f4))
           /\ (p5 => Good(Transmit(t5, f5)))
      BY <1>3, <2>3, <2>4, <2>5, <2>6, <2>9, <2>12, <2>13, <2>14, TransmitAwake
    <2> HIDE DEF Good, F
    <2>19. \/ r = Transmit(t1, f1) \/ (p2 /\ r = Transmit(t2, f2)) \/ r = Transmit(t3, f3)
           \/ r = Transmit(t4, f4) \/ (p5 /\ r = Transmit(t5, f5)) \/ (p6 /\ r = t6)
           \/ (F = {} /\ ~p6 /\ r = s)
      BY <2>1, <2>2, <2>15, <2>16, <2>17, Zenon
    <2>20. Good(r)
      BY <2>10, <2>11, <2>18, <2>19
    <2> QED BY <2>20 DEF Good, r
  <1> QED BY <1>2, <1>3

\* l2cap_ertm_process_req_seq stops the timer only when all is acknowledged.
LEMMA ReqAwake ==
    ASSUME NEW s, NEW str \in Seq(Segment), NEW a \in Nat, NEW h, SendSide(s, str, a, h),
           NEW b \in Nat, Len(str) - s.num <= b, b <= a, Awake(s)
    PROVE  Awake(ProcessReqSeq(s, b % SeqModulus))
  <1> DEFINE delta == ((b % SeqModulus) - s.tx[s.read].seq) % SeqModulus
             k == IF delta > Window THEN 0 ELSE Min({delta, s.unacked})
             u == [s EXCEPT !.num = @ - k, !.unacked = @ - k,
                            !.read = (@ + k) % NumTx,
                            !.retrans = @ /\ k < s.unacked]
             t == ProcessReqSeq(s, b % SeqModulus)
  <1>1. s \in Working /\ s.unacked \in Nat
    BY SideFacts
  <1>2. k \in Nat /\ k <= s.unacked
    BY FreedFrames
  <1>3. t = IF k > 0 THEN NotifyApplication(u) ELSE u
    BY DEF ProcessReqSeq
  <1> HIDE DEF k, t
  <1>4. /\ u.unacked = s.unacked - k /\ u.retrans = (s.retrans /\ k < s.unacked)
        /\ u.open = s.open /\ u.monitor = s.monitor /\ u.final = s.final
        /\ u.flags = s.flags /\ u.rx = s.rx /\ u.store = s.store /\ u.expect = s.expect
        /\ u.out_q = s.out_q /\ DOMAIN u = DOMAIN s
    BY <1>1 DEF Working
  <1>5. /\ t.unacked = u.unacked /\ t.retrans = u.retrans
        /\ t.open = u.open /\ t.monitor = u.monitor /\ t.final = u.final
        /\ t.flags = u.flags /\ t.rx = u.rx /\ t.store = u.store /\ t.expect = u.expect
        /\ t.out_q = u.out_q
    <2>1. CASE t = u
      BY <2>1
    <2>2. CASE t = NotifyApplication(u)
      BY <1>1, <2>2 DEF NotifyApplication, Working
    <2> QED BY <1>3, <2>1, <2>2
  <1> HIDE DEF u
  <1>6. Timed(t)
    <2> SUFFICES ASSUME t.open, t.unacked > 0 PROVE t.retrans \/ t.monitor
      BY DEF Timed
    <2>1. k < s.unacked /\ s.unacked > 0
      BY <1>1, <1>2, <1>4, <1>5
    <2>2. s.open /\ t.monitor = s.monitor /\ t.retrans = u.retrans
      BY <1>4, <1>5
    <2>3. s.retrans \/ s.monitor
      BY <2>1, <2>2 DEF Timed, Awake
    <2>4. s.retrans => u.retrans
      BY <1>4, <2>1, Zenon
    <2> QED BY <2>2, <2>3, <2>4, Zenon
  <1>7. Answering(t)
    BY <1>4, <1>5 DEF Answering, Awake, Held
  <1>8. Awake(t)
    BY <1>4, <1>5, <1>6, <1>7, AwakeKept
  <1> QED BY <1>8 DEF t

\* l2cap_ertm_retransmit_unacknowledged_frames
LEMMA RetransmitAwake ==
    ASSUME NEW s \in Working, Awake(s)
    PROVE  Awake(Retransmit(s))
  <1> DEFINE t == Retransmit(s)
  <1>1. /\ t.open = s.open /\ t.unacked = s.unacked /\ t.retrans = s.retrans
        /\ t.monitor = s.monitor /\ t.final = s.final /\ t.flags = s.flags
        /\ t.rx = s.rx /\ t.store = s.store /\ t.expect = s.expect /\ t.out_q = s.out_q
    BY DEF Retransmit, Working
  <1> HIDE DEF t
  <1>2. Timed(t) /\ Answering(t)
    BY <1>1 DEF Timed, Answering, Awake, Held
  <1>3. Awake(t)
    BY <1>1, <1>2, AwakeKept
  <1> QED BY <1>3 DEF t

\* Receiver ready: what can be sent is sent.
LEMMA RRAwake ==
    ASSUME NEW t, NEW str \in Seq(Segment), NEW a \in Nat, NEW h, SendSide(t, str, a, h),
           \A i \in RxIndex : t.rx[i].valid => i = t.store, Held(t) => h,
           NEW b \in Nat, Len(str) - t.num <= b, b <= a, NEW f, f.req = b % SeqModulus,
           Awake(t)
    PROVE  Awake(HandleRR(t, f)) /\ Settled(HandleRR(t, f))
  <1> DEFINE p == ProcessReqSeq(t, f.req)
             held == \E i \in RxIndex : p.rx[i].valid
             q == [p EXCEPT !.flags = @ \cup {IF held THEN "srej" ELSE "rr"}, !.final = TRUE]
             k == [p EXCEPT !.monitor = FALSE, !.retrans = @ \/ p.unacked > 0]
             r == Retransmit(k)
             e == IF f.poll THEN q ELSE IF f.final THEN r ELSE p
             Good(u) == SendSide(u, str, a, h) /\ Awake(u)
  <1>1. Good(p) /\ Keeps(t, p)
    BY ReqSide, ReqAwake
  <1>2. HandleRR(t, f) = NotifyCanSend(e)
    BY DEF HandleRR
  <1> HIDE DEF p
  <1>3. p \in Working /\ ("srej" \in p.flags => h)
    BY <1>1 DEF SendSide
  <1>4. Good(q)
    <2>1. held => Held(p)
      BY <1>1 DEF Keeps, Held
    <2>2. Held(p) => h
      BY <1>1 DEF Keeps, Held
    <2> HIDE DEF held
    <2>3. q \in Working
      BY <1>3 DEF Working, Flag
    <2>4. /\ SameSending(p, q) /\ Keeps(p, q) /\ q.retrans = p.retrans
          /\ q.monitor = p.monitor
          /\ q.flags = p.flags \cup {IF held THEN "srej" ELSE "rr"}
      BY <1>3 DEF Working, SameSending, SameRing, Keeps
    <2> HIDE DEF q
    <2>5. "srej" \in q.flags => h
      BY <1>3, <2>1, <2>2, <2>4
    <2>6. SendSide(q, str, a, h)
      BY <1>1, <2>3, <2>4, <2>5, SameSide
    <2>7. Timed(q)
      BY <1>1, <2>4 DEF Timed, Awake, SameSending, Keeps
    <2>8. Answering(q)
      BY <2>1, <2>4 DEF Answering, Keeps, Held
    <2>9. Awake(q)
      BY <1>1, <2>4, <2>7, <2>8, AwakeKept DEF SameSending, Keeps
    <2> QED BY <2>6, <2>9
  <1>5. Good(r)
    <2>1. k \in Working
      <3>1. (p.retrans \/ p.unacked > 0) \in BOOLEAN
        OBVIOUS
      <3> QED BY <1>3, <3>1 DEF Working
    <2>2. /\ SameSending(p, k) /\ Keeps(p, k) /\ k.flags = p.flags /\ k.final = p.final
          /\ k.retrans = (p.retrans \/ p.unacked > 0)
      BY <1>3 DEF Working, SameSending, SameRing, Keeps
    <2> HIDE DEF k
    <2>3. SendSide(k, str, a, h)
      BY <1>1, <1>3, <2>1, <2>2, SameSide
    <2>4. Timed(k) /\ Answering(k)
      BY <1>1, <2>2 DEF Timed, Answering, Awake, SameSending, Keeps, Held
    <2>5. Awake(k)
      BY <1>1, <2>2, <2>4, AwakeKept DEF SameSending, Keeps
    <2> QED BY <2>1, <2>3, <2>5, RetransmitSide, RetransmitAwake
  <1> HIDE DEF q, r
  <1>6. Good(e)
    <2> HIDE DEF Good
    <2> QED BY <1>1, <1>4, <1>5
  <1> HIDE DEF e
  <1> QED BY <1>2, <1>6, NotifyAwake

\* Reject
LEMMA RejAwake ==
    ASSUME NEW t, NEW str \in Seq(Segment), NEW a \in Nat, NEW h, SendSide(t, str, a, h),
           NEW b \in Nat, Len(str) - t.num <= b, b <= a, NEW r, r = b % SeqModulus, Awake(t)
    PROVE  LET u == NotifyCanSend(Retransmit(ProcessReqSeq(t, r)))
           IN  Awake(u) /\ Settled(u)
  <1> DEFINE p == ProcessReqSeq(t, r)
             e == Retransmit(p)
  <1>1. SendSide(p, str, a, h) /\ Awake(p)
    BY ReqSide, ReqAwake
  <1> HIDE DEF p
  <1>2. p \in Working
    BY <1>1, SideFacts
  <1>3. SendSide(e, str, a, h) /\ Awake(e)
    BY <1>1, <1>2, RetransmitSide, RetransmitAwake
  <1> HIDE DEF e
  <1>4. Awake(NotifyCanSend(e)) /\ Settled(NotifyCanSend(e))
    BY <1>3, NotifyAwake
  <1> QED BY <1>4 DEF e, p

\* The frame an SREJ asks for is sent again, if it is there.
LEMMA SrejAwake ==
    ASSUME NEW t, NEW str \in Seq(Segment), NEW a \in Nat, NEW h, SendSide(t, str, a, h),
           NEW b \in Nat, Len(str) - t.num <= b, NEW f, f.req = b % SeqModulus, Awake(t)
    PROVE  LET u == HandleSrej(t, f)
           IN  /\ Awake(u) /\ (Settled(t) => Settled(u))
               /\ b < Len(str) => Pending(u)
  <1> DEFINE u == HandleSrej(t, f)
             found == { i \in TxIndex : t.tx[i].seq = f.req }
             i == Min(found)
             e == [t EXCEPT !.final = FALSE, !.active = TRUE, !.tx[i].state = "again"]
  <1>1. /\ t \in Working /\ t.tx \in [TxIndex -> TxBuffer] /\ t.num \in Nat
        /\ t.num <= NumTx /\ Len(str) \in Nat
    BY SideFacts
  <1>2. u = IF found = {} THEN t ELSE e
    BY DEF HandleSrej
  <1>3. CASE found = {}
    <2>1. u = t
      BY <1>2, <1>3
    <2>2. ~(b < Len(str))
      <3> SUFFICES ASSUME b < Len(str) PROVE FALSE
        OBVIOUS
      <3>1. b \in 0..(Len(str) - 1) /\ Len(str) <= b + NumTx
        BY <1>1, Sizes
      <3>2. t.tx[b % NumTx].seq = f.req
        BY <3>1 DEF SendSide, Slots
      <3>3. b % NumTx \in TxIndex
        BY NumberRange
      <3>4. b % NumTx \in found
        BY <3>2, <3>3
      <3> QED BY <1>3, <3>4
    <2> QED BY <2>1, <2>2
  <1>4. CASE found # {}
    <2>1. u = e
      BY <1>2, <1>4
    <2>2. found \in SUBSET Nat
      BY SlotNat
    <2>3. i \in found
      <3> HIDE DEF found
      <3> QED BY <1>4, <2>2, SmallestElement
    <2>4. i \in TxIndex
      BY <2>3
    <2> HIDE DEF i
    <2>5. /\ e.open = t.open /\ e.unacked = t.unacked /\ e.retrans = t.retrans
          /\ e.monitor = t.monitor /\ e.final = FALSE /\ e.active = TRUE
          /\ e.rx = t.rx /\ e.store = t.store /\ e.expect = t.expect
          /\ e.out_q = t.out_q /\ e.acl = t.acl /\ e.wait = t.wait /\ e.num = t.num
          /\ e.tx[i].state = "again"
      BY <1>1, <2>4 DEF Working, TxBuffer
    <2> HIDE DEF e
    <2>6. Timed(e) /\ Answering(e)
      BY <2>5 DEF Timed, Answering, Awake
    <2>7. Awake(e)
      BY <2>5, <2>6, AwakeKept
    <2>8. Settled(t) => Settled(e)
      BY <2>5 DEF Settled
    <2>9. Pending(e)
      BY <2>4, <2>5 DEF Pending
    <2> QED BY <2>1, <2>7, <2>8, <2>9
  <1> QED BY <1>3, <1>4

\* An information frame calls for an answer.
LEMMA InfoAwake ==
    ASSUME NEW t, NEW u, Noted(t, u), Awake(t), t.out_q = << >>
    PROVE  Awake(u) /\ Pending(u)
  <1>1. /\ u.open = t.open /\ u.unacked = t.unacked /\ u.out_q = << >>
        /\ u.retrans = t.retrans /\ u.monitor = t.monitor
    BY DEF Noted, Receives
  <1>2. Timed(u)
    BY <1>1 DEF Timed, Awake
  <1>3. Answered(u)
    <2>1. Len(<< >>) = 0
      OBVIOUS
    <2>2. 1..Len(u.out_q) = {}
      BY <1>1, <2>1
    <2> QED BY <2>2 DEF Answered
  <1>4. CASE "rr" \in u.flags
    <2>1. Answering(u)
      BY <1>4 DEF Answering
    <2>2. Pending(u)
      BY <1>4 DEF Pending
    <2> QED BY <1>2, <1>3, <2>1, <2>2 DEF Awake
  <1>5. CASE "srej" \in u.flags /\ Held(u)
    <2>1. Answering(u)
      BY <1>5 DEF Answering
    <2>2. Pending(u)
      BY <1>5 DEF Pending
    <2> QED BY <1>2, <1>3, <2>1, <2>2 DEF Awake
  <1>6. CASE /\ u.flags = t.flags \cup {"rej"} /\ u.rx = t.rx /\ u.store = t.store
             /\ u.final = t.final
    <2>1. Answering(u)
      BY <1>6 DEF Answering, Awake, Held
    <2>2. Pending(u)
      BY <1>6 DEF Pending
    <2> QED BY <1>2, <1>3, <2>1, <2>2 DEF Awake
  <1> QED BY <1>4, <1>5, <1>6 DEF Noted

\* l2cap_acl_classic_handler_for_channel: what can be sent after the frame is sent,
\* or l2cap_run has something to send.
LEMMA HandleAwake ==
    ASSUME NEW s, NEW v, NEW w, NEW z, NEW sx, NEW sy, NEW Tx, NEW Ty, NEW ax, NEW ay,
           NEW subx, NEW suby, NEW delx, NEW dely,
           Both(s, v, w, z, sx, sy, Tx, Ty, ax, ay, subx, suby, delx, dely), z # << >>,
           s.open, Awake(s), Settled(s), Useful(Head(z), s.next)
    PROVE  LET u == Handle(s, Head(z)) IN Awake(u) /\ (Settled(u) \/ Pending(u))
  <1> DEFINE f == Head(z)
             z2 == Tail(z)
             h == Heard(v, Len(sy), ay)
             Now(u) == During(s, u, v, z2, sx, sy, Ty, ax, ay, suby, dely)
             t == IF f.final THEN [s EXCEPT !.wait = FALSE] ELSE s
             Good(u) == Awake(u) /\ (Settled(u) \/ Pending(u))
             rej == NotifyCanSend(Retransmit(ProcessReqSeq(t, f.req)))
  <1>1. /\ sx \in Seq(Segment) /\ ax \in Nat /\ ay \in Nat /\ z \in Seq(Frame)
        /\ s \in Working /\ s.out_q = << >> /\ ax <= Len(sx) /\ Len(sx) \in Nat
        /\ SendSide(s, sx, ax, h)
    BY BothFacts
  <1>2. z2 \in Seq(Frame) /\ f \in Frame
    BY <1>1, TailIndex
  <1>3. Now(s)
    BY FrameArrives
  <1>4. PICK b \in Nat : /\ f.req = b % SeqModulus /\ Len(sx) - s.num <= b
                         /\ b <= ax /\ Acks(z2, b, ax)
    BY FrameArrives
  <1>5. /\ Now(t) /\ Keeps(s, t) /\ t.num = s.num /\ t.out_q = << >> /\ Awake(t)
        /\ ~f.final => t = s
    <2>1. CASE t = s
      BY <1>1, <1>3, <2>1 DEF Keeps
    <2>2. CASE f.final /\ t = [s EXCEPT !.wait = FALSE]
      <3> DEFINE e == [s EXCEPT !.wait = FALSE]
      <3>1. e \in Working
        BY <1>1 DEF Working
      <3>2. /\ SameSending(s, e) /\ Keeps(s, e) /\ e.flags = s.flags /\ SameTimers(s, e)
            /\ e.final = s.final
        BY <1>1 DEF Working, SameSending, SameRing, Keeps, SameTimers
      <3> HIDE DEF e
      <3>3. Now(e)
        BY <1>3, <3>1, <3>2, StepSettings DEF Keeps
      <3>4. Timed(e) /\ Answering(e)
        BY <3>2 DEF Timed, Answering, Awake, SameSending, Keeps, SameTimers, Held
      <3>5. Awake(e)
        BY <3>2, <3>4, AwakeKept DEF SameSending, Keeps
      <3>6. t = e
        BY <2>2 DEF e
      <3> HIDE DEF t
      <3> QED BY <1>1, <2>2, <3>2, <3>3, <3>5, <3>6 DEF SameSending, SameRing
    <2> QED BY <2>1, <2>2
  <1> HIDE DEF t
  <1>6. /\ SendSide(t, sx, ax, h) /\ (Held(t) => h)
        /\ \A i \in RxIndex : t.rx[i].valid => i = t.store
    BY <1>5 DEF During, RecvSide
  <1>7. Len(sx) - t.num <= b
    BY <1>4, <1>5
  <1>8. f.type = "RR" => Good(HandleRR(t, f))
    <2> HIDE DEF h, Now, f
    <2> QED BY <1>1, <1>4, <1>5, <1>6, <1>7, RRAwake
  <1>9. f.type = "REJ" => Good(rej)
    <2> HIDE DEF h, Now, f
    <2> QED BY <1>1, <1>4, <1>5, <1>6, <1>7, RejAwake
  <1>10. f.type = "RNR" => Good(t)
    BY <1>5 DEF Useful
  <1>11. f.type = "SREJ" => Good(HandleSrej(t, f))
    <2> SUFFICES ASSUME f.type = "SREJ" PROVE Good(HandleSrej(t, f))
      OBVIOUS
    <2>1. f.final => b < Len(sx)
      <3>1. f.final => f.req # s.next
        BY DEF Useful
      <3>2. s.next = Len(sx) % SeqModulus
        BY <1>1 DEF SendSide, Ring
      <3>3. f.final => b # Len(sx)
        BY <1>4, <3>1, <3>2
      <3> QED BY <1>1, <1>4, <3>3
    <2>2. ~f.final => Settled(t)
      BY <1>5
    <2> DEFINE u == HandleSrej(t, f)
    <2>3. Awake(u) /\ (Settled(t) => Settled(u)) /\ (b < Len(sx) => Pending(u))
      <3> HIDE DEF h, Now, f
      <3> QED BY <1>1, <1>4, <1>5, <1>6, <1>7, SrejAwake
    <2> HIDE DEF u
    <2> QED BY <2>1, <2>2, <2>3 DEF u
  <1>12. f.type = "I" => Good(HandleI(t, f))
    <2> SUFFICES ASSUME f.type = "I" PROVE Good(HandleI(t, f))
      OBVIOUS
    <2> DEFINE p == ProcessReqSeq(t, f.req)
               r == Retransmit(p)
               e == IF f.final THEN r ELSE p
    <2>1. Now(p) /\ Keeps(t, p) /\ p.out_q = << >>
      BY <1>1, <1>2, <1>4, <1>5, <1>7, StepAcknowledges, ZenonT(60)
    <2>2. HandleI(t, f) = TakeFrame(e, f)
      BY DEF HandleI, TakeFrame, AskFor
    <2>3. Awake(p)
      <3> HIDE DEF h, Now, f
      <3> QED BY <1>1, <1>4, <1>5, <1>6, <1>7, ReqAwake
    <2> HIDE DEF p
    <2>4. Now(r) /\ Keeps(p, r) /\ r.out_q = << >>
      BY <1>1, <2>1, StepRetransmits
    <2>5. Awake(r)
      <3>1. p \in Working
        BY <2>1 DEF During, SendSide
      <3> QED BY <2>3, <3>1, RetransmitAwake
    <2> HIDE DEF r
    <2>6. Now(e) /\ e.out_q = << >> /\ Awake(e)
      <3> HIDE DEF Now
      <3> QED BY <2>1, <2>3, <2>4, <2>5
    <2>7. Keeps(s, e)
      BY <1>5, <2>1, <2>4 DEF Keeps
    <2> HIDE DEF e
    <2>8. Noted(e, TakeFrame(e, f))
      BY <2>6, <2>7, StepInformation
    <2> QED BY <2>2, <2>6, <2>8, InfoAwake
  <1>13. f.type \in {"I", "RR", "RNR", "REJ", "SREJ"}
    BY <1>2 DEF Frame
  <1> HIDE DEF Good
  <1>14. Handle(s, f) = CASE f.type = "I"    -> HandleI(t, f)
                          [] f.type = "RR"   -> HandleRR(t, f)
                          [] f.type = "REJ"  -> rej
                          [] f.type = "RNR"  -> t
                          [] f.type = "SREJ" -> HandleSrej(t, f)
    BY Zenon DEF Handle, t
  <1> HIDE DEF rej
  <1>15. \/ f.type = "I" /\ Handle(s, f) = HandleI(t, f)
         \/ f.type = "RR" /\ Handle(s, f) = HandleRR(t, f)
         \/ f.type = "REJ" /\ Handle(s, f) = rej
         \/ f.type = "RNR" /\ Handle(s, f) = t
         \/ f.type = "SREJ" /\ Handle(s, f) = HandleSrej(t, f)
    <2> HIDE DEF f
    <2>1. CASE f.type = "I"
      BY <1>14, <2>1, Zenon
    <2>2. CASE f.type = "RR"
      BY <1>14, <2>2, Zenon
    <2>3. CASE f.type = "REJ"
      BY <1>14, <2>3, Zenon
    <2>4. CASE f.type = "RNR"
      BY <1>14, <2>4, Zenon
    <2>5. CASE f.type = "SREJ"
      BY <1>14, <2>5, Zenon
    <2> QED BY <1>13, <2>1, <2>2, <2>3, <2>4, <2>5
  <1>16. Good(Handle(s, f))
    BY <1>8, <1>9, <1>10, <1>11, <1>12, <1>15
  <1> QED BY <1>16 DEF Good

\* Numbers that differ, and not by more than the buffers hold, are told apart.
LEMMA NumbersDiffer ==
    ASSUME NEW a \in Nat, NEW n \in Nat, a < n, n <= a + NumTx
    PROVE  a % SeqModulus # n % SeqModulus
  <1>1. SeqModulus \in Nat \ {0} /\ NumTx \in Nat /\ SeqModulus > NumTx + 1
    BY Sizes
  <1>2. a \in Int /\ n \in Int /\ a - n < SeqModulus /\ n - a < SeqModulus /\ a # n
    BY <1>1
  <1> QED BY <1>1, <1>2, ModNear

\* A frame that is missing was stored, so it is not the next one to be stored.
LEMMA MissingStored ==
    ASSUME NEW s, NEW v, NEW w, NEW z, NEW sx, NEW sy, NEW Tx, NEW Ty, NEW ax, NEW ay,
           NEW subx, NEW suby, NEW delx, NEW dely,
           Both(s, v, w, z, sx, sy, Tx, Ty, ax, ay, subx, suby, delx, dely), Held(v)
    PROVE  v.expect # s.next
  <1>1. /\ ax \in Nat /\ Len(sx) \in Nat /\ Len(sx) <= ax + NumTx
        /\ v.expect = ax % SeqModulus /\ SendSide(s, sx, ax, Heard(v, Len(sy), ay))
    BY BothFacts
  <1>2. ax + 2 <= Len(sx)
    BY DEF Both, Direction, RecvSide
  <1>3. ax < Len(sx)
    BY <1>1, <1>2
  <1>4. s.next = Len(sx) % SeqModulus
    BY <1>1 DEF SendSide, Ring
  <1> QED BY <1>1, <1>3, <1>4, NumbersDiffer

\* No frame under way asks for the next frame while the peer has not taken all.
LEMMA NextNotAsked ==
    ASSUME NEW s, NEW v, NEW w, NEW z, NEW sx, NEW sy, NEW Tx, NEW Ty, NEW ax, NEW ay,
           NEW subx, NEW suby, NEW delx, NEW dely,
           Both(s, v, w, z, sx, sy, Tx, Ty, ax, ay, subx, suby, delx, dely),
           ax < Len(sx), NEW p \in 1..Len(z)
    PROVE  z[p].req # s.next
  <1>1. /\ ax \in Nat /\ Len(sx) \in Nat /\ SendSide(s, sx, ax, Heard(v, Len(sy), ay))
        /\ sx \in Seq(Segment)
    BY BothFacts
  <1>2. PICK ak \in [1..Len(z) -> Nat] :
            \A i \in 1..Len(z) : /\ z[i].req = ak[i] % SeqModulus
                                 /\ Len(sx) - s.num <= ak[i] /\ ak[i] <= ax
    BY DEF Both, Direction, Acks
  <1> DEFINE b == ak[p]
  <1>3. b \in Nat /\ z[p].req = b % SeqModulus /\ Len(sx) - s.num <= b /\ b <= ax
    BY <1>2
  <1> HIDE DEF b
  <1>4. s.num \in Nat /\ s.num <= NumTx /\ NumTx \in Nat
    BY <1>1, SideFacts, Sizes
  <1>5. b < Len(sx) /\ Len(sx) <= b + NumTx
    BY <1>1, <1>3, <1>4
  <1>6. s.next = Len(sx) % SeqModulus
    BY <1>1 DEF SendSide, Ring
  <1> QED BY <1>1, <1>3, <1>5, <1>6, NumbersDiffer

\* A step that ends with l2cap_run, or that changes nothing l2cap_run would have to do
LEMMA RunAwake ==
    ASSUME NEW t, NEW str \in Seq(Segment), NEW a \in Nat, NEW h, SendSide(t, str, a, h),
           Awake(t), NEW u,
           \/ u = t /\ Settled(t)
           \/ u = Run(t, FALSE) /\ (Settled(t) \/ Pending(t))
           \/ u = Run(t, TRUE)
    PROVE  SendSide(u, str, a, h) /\ Awake(u) /\ Settled(u)
  <1> DEFINE r == RunErtm(t)
  <1>1. t \in Working
    BY SideFacts
  <1>2. SendSide(r, str, a, h) /\ Awake(r)
    BY <1>1, RunErtmSide, RunErtmAwake
  <1>3. Settled(t) \/ Pending(t) => Settled(r)
    BY <1>1, RunErtmAwake
  <1>4. Run(t, FALSE) = r /\ Run(t, TRUE) = NotifyCanSend(r)
    BY DEF Run
  <1> HIDE DEF r
  <1>5. CASE u = t /\ Settled(t)
    BY <1>5
  <1>6. CASE u = Run(t, FALSE) /\ (Settled(t) \/ Pending(t))
    BY <1>2, <1>3, <1>4, <1>6
  <1>7. CASE u = Run(t, TRUE)
    BY <1>2, <1>4, <1>7, NotifySide, NotifyAwake
  <1> QED BY <1>5, <1>6, <1>7

-----------------------------------------------------------------------------
(* The second invariant *)

\* The first invariant after a step, seen from x
LEMMA JoinedNext ==
    ASSUME IInv', NEW x \in Sides
    PROVE  \E p, q, Tp, Tq :
             /\ Both(ch'[x], ch'[Peer(x)], wire'[x], wire'[Peer(x)], p, q, Tp, Tq,
                     accepted'[x], accepted'[Peer(x)], submitted'[x], submitted'[Peer(x)],
                     delivered'[x], delivered'[Peer(x)])
             /\ stored'[x] = Len(p)
  <1>1. (\E p, q, Tp, Tq : Joined(A, B, p, q, Tp, Tq))'
    BY DEF IInv
  <1>2. PICK p, q, Tp, Tq :
            /\ Both(ch'[A], ch'[B], wire'[A], wire'[B], p, q, Tp, Tq,
                    accepted'[A], accepted'[B], submitted'[A], submitted'[B],
                    delivered'[A], delivered'[B])
            /\ stored'[A] = Len(p) /\ stored'[B] = Len(q)
    BY <1>1 DEF Joined
  <1>3. Both(ch'[B], ch'[A], wire'[B], wire'[A], q, p, Tq, Tp,
             accepted'[B], accepted'[A], submitted'[B], submitted'[A],
             delivered'[B], delivered'[A])
    BY <1>2 DEF Both
  <1>4. CASE x = A /\ Peer(x) = B
    BY <1>2, <1>4
  <1>5. CASE x = B /\ Peer(x) = A
    BY <1>2, <1>3, <1>5
  <1> QED BY <1>4, <1>5, PeerFacts

\* A device ends a step: its peer gets its frames, and has not changed.
LEMMA AwakeAfter ==
    ASSUME IInv, LInv, IInv', NEW x \in Sides, NEW y, y = Peer(x), NEW u \in Working,
           ch'[x] = [u EXCEPT !.out_q = << >>], ch'[y] = ch[y],
           wire'[x] = wire[x] \o u.out_q,
           wire'[y] = wire[y] \/ (wire[y] # << >> /\ wire'[y] = Tail(wire[y])),
           u.next = ch[x].next \/ accepted'[x] < stored'[x],
           Awake(u), Settled(u)
    PROVE  LInv'
  <1> DEFINE r == ch'[x]
  <1>1. y \in Sides /\ x # y /\ Sides = {x, y} /\ Peer(y) = x
    BY PeerFacts
  <1>2. /\ wire[x] \in Seq(Frame) /\ wire[y] \in Seq(Frame) /\ u.out_q \in Seq(Frame)
    BY <1>1 DEF IInv, Shape, Working
  <1>3. /\ r.out_q = << >> /\ r.open = u.open /\ r.unacked = u.unacked
        /\ r.retrans = u.retrans /\ r.monitor = u.monitor /\ r.final = u.final
        /\ r.flags = u.flags /\ r.rx = u.rx /\ r.store = u.store /\ r.expect = u.expect
        /\ r.wait = u.wait /\ r.acl = u.acl /\ r.num = u.num /\ r.next = u.next
    BY DEF Working
  <1>4. PICK p, q, Tp, Tq :
            /\ Both(ch'[x], ch'[y], wire'[x], wire'[y], p, q, Tp, Tq,
                    accepted'[x], accepted'[y], submitted'[x], submitted'[y],
                    delivered'[x], delivered'[y])
            /\ stored'[x] = Len(p)
    BY JoinedNext
  <1> DEFINE v == ch[y]
             w == wire[x]
             z == wire[y]
             w2 == wire'[x]
             z2 == wire'[y]
             o == u.out_q
             ax == accepted'[x]
             ay == accepted'[y]
             sx == submitted'[x]
             sy == submitted'[y]
             dx == delivered'[x]
             dy == delivered'[y]
  <1>5. Both(r, v, w2, z2, p, q, Tp, Tq, ax, ay, sx, sy, dx, dy)
    BY <1>4
  <1>6. Both(v, r, z2, w2, q, p, Tq, Tp, ay, ax, sy, sx, dy, dx)
    BY <1>5 DEF Both
  <1>7. /\ Awake(v) /\ Settled(v)
        /\ \A i \in 1..Len(w) : Useful(w[i], v.next)
        /\ \A i \in 1..Len(z) : Useful(z[i], ch[x].next)
    BY <1>1 DEF LInv
  <1>8. w2 = w \o o /\ (z2 = z \/ (z # << >> /\ z2 = Tail(z))) /\ ax = accepted'[x]
    OBVIOUS
  <1>9. \A i \in 1..Len(z2) : Useful(z2[i], ch[x].next)
    <2> HIDE DEF z, z2
    <2>1. CASE z2 = z
      BY <1>7, <2>1
    <2>2. CASE z # << >> /\ z2 = Tail(z)
      BY <1>2, <1>7, <2>2, TailIndex DEF z
    <2> QED BY <1>8, <2>1, <2>2
  <1> HIDE DEF r, v, w, z, w2, z2, ax, ay, sx, sy, dx, dy, o
  <1>10. ASSUME NEW i \in 1..Len(z2) PROVE Useful(z2[i], r.next)
    <2>1. CASE u.next = ch[x].next
      BY <1>3, <1>9, <2>1
    <2>2. CASE accepted'[x] < stored'[x]
      <3>1. ax < Len(p)
        BY <1>4, <2>2 DEF ax
      <3>2. z2[i].req # r.next
        BY <1>5, <3>1, NextNotAsked
      <3> QED BY <1>9, <3>2 DEF Useful
    <2> QED BY <2>1, <2>2
  <1>11. Held(r) = Held(u)
    BY <1>3 DEF Held
  <1>12. Awake(r) /\ Settled(r)
    <2>1. Timed(r) /\ Answering(r)
      BY <1>3, <1>11 DEF Timed, Answering, Awake
    <2>2. Answered(r)
      <3>1. Len(<< >>) = 0
        OBVIOUS
      <3>2. 1..Len(r.out_q) = {}
        BY <1>3, <3>1
      <3> QED BY <3>2 DEF Answered
    <2>3. Settled(r)
      BY <1>3 DEF Settled
    <2> QED BY <2>1, <2>2, <2>3 DEF Awake
  <1>13. ASSUME NEW i \in 1..Len(w2) PROVE Useful(w2[i], v.next)
    <2>1. /\ Len(w2) = Len(w) + Len(o) /\ Len(w) \in Nat /\ Len(o) \in Nat
          /\ \A k \in 1..Len(w) : w2[k] = w[k]
          /\ \A k \in 1..(Len(w) + Len(o)) :
                 k > Len(w) => k - Len(w) \in 1..Len(o) /\ w2[k] = o[k - Len(w)]
      <3>1. w \in Seq(Frame) /\ o \in Seq(Frame)
        BY <1>2 DEF w, o
      <3>2. w2 = w \o o
        BY <1>8
      <3> QED BY <3>1, <3>2, ConcatIndex
    <2>2. CASE i <= Len(w)
      <3>1. i \in 1..Len(w)
        BY <2>1, <2>2
      <3> QED BY <1>7, <2>1, <3>1
    <2>3. CASE i > Len(w)
      <3> DEFINE k == i - Len(w)
      <3>1. k \in 1..Len(o) /\ w2[i] = o[k]
        BY <2>1, <2>3
      <3> HIDE DEF k
      <3>2. /\ o[k].type = "RNR" => ~o[k].final
            /\ o[k].type = "SREJ" /\ o[k].final => Held(u) /\ o[k].req = u.expect
        BY <3>1 DEF Awake, Answered, o
      <3>3. Held(u) => u.expect # v.next
        BY <1>3, <1>6, <1>11, MissingStored
      <3> QED BY <3>1, <3>2, <3>3 DEF Useful
    <2> QED BY <2>1, <2>2, <2>3
  <1>14. /\ Awake(ch'[x]) /\ Settled(ch'[x]) /\ Awake(ch'[y]) /\ Settled(ch'[y])
         /\ \A i \in 1..Len(wire'[x]) : Useful(wire'[x][i], ch'[y].next)
         /\ \A i \in 1..Len(wire'[y]) : Useful(wire'[y][i], ch'[x].next)
    BY <1>7, <1>10, <1>12, <1>13 DEF r, v, w2, z2
  <1> QED BY <1>1, <1>14 DEF LInv

\* Flags and timers are set.
LEMMA SettingsAwake ==
    ASSUME NEW s, NEW t, Awake(s), SameSending(s, t), t.rx = s.rx, t.store = s.store,
           t.final = s.final, Timed(t), "srej" \in t.flags => "srej" \in s.flags,
           "rr" \in s.flags => "rr" \in t.flags
    PROVE  Awake(t)
  <1>1. Answering(t)
    BY DEF Answering, Awake, Held
  <1> QED BY <1>1, AwakeKept DEF SameSending, SameRing

\* What a step that ends in state u of x needs for the second invariant
LEMMA FinishAwake ==
    ASSUME IInv, LInv, IInv', NEW x \in Sides, NEW p, NEW q, NEW Tp, NEW Tq,
           Joined(x, Peer(x), p, q, Tp, Tq), NEW t,
           During(ch[x], t, ch[Peer(x)], wire[Peer(x)], p, q, Tq, accepted[x],
                  accepted[Peer(x)], submitted[Peer(x)], delivered[Peer(x)]),
           Awake(t), NEW u,
           \/ u = t /\ Settled(t)
           \/ u = Run(t, FALSE) /\ (Settled(t) \/ Pending(t))
           \/ u = Run(t, TRUE),
           Finish(x, u)
    PROVE  LInv'
  <1> DEFINE y == Peer(x)
             a == accepted[x]
             h == Heard(ch[y], Len(q), accepted[y])
  <1>1. SendSide(t, p, a, h)
    BY DEF During
  <1>2. p \in Seq(Segment) /\ a \in Nat /\ SendSide(ch[x], p, a, h)
    BY BothFacts DEF Joined
  <1> HIDE DEF a, h
  <1>3. SendSide(u, p, a, h) /\ Awake(u) /\ Settled(u)
    BY <1>1, <1>2, RunAwake
  <1>4. u \in Working
    BY <1>2, <1>3, SideFacts
  <1>5. u.next = ch[x].next
    BY <1>2, <1>3 DEF SendSide, Ring
  <1>6. y \in Sides /\ x # y
    BY PeerFacts
  <1>7. /\ ch'[x] = [u EXCEPT !.out_q = << >>] /\ ch'[y] = ch[y]
        /\ wire'[x] = wire[x] \o u.out_q /\ wire'[y] = wire[y]
    BY <1>6 DEF Finish, IInv, Shape
  <1> HIDE DEF y
  <1>8. y = Peer(x)
    BY DEF y
  <1> QED BY <1>3, <1>4, <1>5, <1>7, <1>8, AwakeAfter

\* A device changes flags and timers, and may run.
LEMMA ChangesAwake ==
    ASSUME IInv, LInv, IInv', NEW x \in Sides, NEW t \in Working, SameSending(ch[x], t),
           t.rx = ch[x].rx, t.store = ch[x].store, t.rlen = ch[x].rlen,
           t.rbuf = ch[x].rbuf, t.final = ch[x].final, Timed(t),
           "srej" \in t.flags => "srej" \in ch[x].flags,
           "rr" \in ch[x].flags => "rr" \in t.flags, NEW u,
           \/ u = t /\ Settled(t)
           \/ u = Run(t, FALSE) /\ (Settled(t) \/ Pending(t))
           \/ u = Run(t, TRUE),
           Finish(x, u)
    PROVE  LInv'
  <1>1. PICK p, q, Tp, Tq : Joined(x, Peer(x), p, q, Tp, Tq)
    BY JoinedFrom
  <1>2. Awake(t)
    <2>1. Awake(ch[x])
      BY DEF LInv
    <2> QED BY <2>1, SettingsAwake
  <1> DEFINE s == ch[x]
             v == ch[Peer(x)]
             w == wire[x]
             z == wire[Peer(x)]
             ax == accepted[x]
             ay == accepted[Peer(x)]
             subx == submitted[x]
             suby == submitted[Peer(x)]
             delx == delivered[x]
             dely == delivered[Peer(x)]
  <1>3. Both(s, v, w, z, p, q, Tp, Tq, ax, ay, subx, suby, delx, dely)
    BY <1>1 DEF Joined
  <1>4. /\ SameSending(s, t) /\ t.rx = s.rx /\ t.store = s.store /\ t.rlen = s.rlen
        /\ t.rbuf = s.rbuf /\ ("srej" \in t.flags => "srej" \in s.flags)
    OBVIOUS
  <1> HIDE DEF s, v, w, z, ax, ay, subx, suby, delx, dely
  <1>5. During(s, t, v, z, p, q, Tq, ax, ay, suby, dely)
    BY <1>3, <1>4, StepChanges
  <1>6. During(ch[x], t, ch[Peer(x)], wire[Peer(x)], p, q, Tq, accepted[x],
               accepted[Peer(x)], submitted[Peer(x)], delivered[Peer(x)])
    BY <1>5 DEF s, v, z, ax, ay, suby, dely
  <1> QED BY <1>1, <1>2, <1>6, FinishAwake

\* l2cap_request_can_send_now_event, by an application whose SDU fits
LEMMA RequestCanSendAwake ==
    ASSUME IInv, LInv, IInv', ~RequestWhenFull, NEW x \in Sides, RequestCanSend(x)
    PROVE  LInv'
  <1> DEFINE s == ch[x]
             t == NotifyApplication([ch[x] EXCEPT !.waiting = TRUE])
  <1>1. s \in Working /\ ~s.waiting
    <2>1. s \in Working
      BY DEF IInv, Shape
    <2>2. PICK p, q, Tp, Tq : Joined(x, Peer(x), p, q, Tp, Tq)
      BY JoinedFrom
    <2> QED BY <2>1, <2>2 DEF Joined, Both, SendSide
  <1>2. CanStore(s) /\ Finish(x, t)
    BY DEF RequestCanSend
  <1>3. t = [s EXCEPT !.waiting = FALSE]
    BY <1>1, <1>2 DEF NotifyApplication, CanStore, Working
  <1> HIDE DEF t
  <1>4. t \in Working
    BY <1>1, <1>3 DEF Working
  <1>5. /\ SameSending(s, t) /\ t.rx = s.rx /\ t.store = s.store /\ t.rlen = s.rlen
        /\ t.rbuf = s.rbuf /\ t.flags = s.flags /\ t.final = s.final
    BY <1>1, <1>3 DEF Working, SameSending, SameRing
  <1>6. /\ t.open = s.open /\ t.unacked = s.unacked /\ t.retrans = s.retrans
        /\ t.monitor = s.monitor /\ t.wait = s.wait /\ t.acl = s.acl /\ t.num = s.num
    BY <1>1, <1>3 DEF Working
  <1>7. Timed(t) /\ Settled(t)
    BY <1>6 DEF Timed, Settled, Awake, LInv
  <1> QED BY <1>2, <1>4, <1>5, <1>7, ChangesAwake

\* l2cap_ertm_set_busy
LEMMA SetBusyAwake ==
    ASSUME IInv, LInv, IInv', NEW x \in Sides, SetBusy(x)
    PROVE  LInv'
  <1> DEFINE s == ch[x]
             t == [s EXCEPT !.busy = TRUE, !.flags = @ \cup {"rnr"}]
  <1>1. s \in Working
    BY DEF IInv, Shape
  <1>2. t \in Working
    BY <1>1 DEF Working, Flag
  <1>3. /\ SameSending(s, t) /\ t.rx = s.rx /\ t.store = s.store /\ t.rlen = s.rlen
        /\ t.rbuf = s.rbuf /\ t.flags = s.flags \cup {"rnr"} /\ t.final = s.final
        /\ t.open = s.open /\ SameTimers(s, t)
    BY <1>1 DEF Working, SameSending, SameRing, SameTimers
  <1>4. Finish(x, Run(t, FALSE))
    BY DEF SetBusy
  <1> HIDE DEF t
  <1>5. Timed(t)
    BY <1>3 DEF Timed, Awake, LInv, SameSending, SameTimers
  <1>6. Pending(t)
    BY <1>3 DEF Pending
  <1> QED BY <1>2, <1>3, <1>4, <1>5, <1>6, ChangesAwake

\* l2cap_ertm_set_ready
LEMMA SetReadyAwake ==
    ASSUME IInv, LInv, IInv', NEW x \in Sides, SetReady(x)
    PROVE  LInv'
  <1> DEFINE s == ch[x]
             t == [s EXCEPT !.busy = FALSE, !.wait = TRUE, !.flags = @ \cup {"poll"}]
  <1>1. s \in Working
    BY DEF IInv, Shape
  <1>2. t \in Working
    BY <1>1 DEF Working, Flag
  <1>3. /\ SameSending(s, t) /\ t.rx = s.rx /\ t.store = s.store /\ t.rlen = s.rlen
        /\ t.rbuf = s.rbuf /\ t.flags = s.flags \cup {"poll"} /\ t.final = s.final
        /\ t.open = s.open /\ SameTimers(s, t)
    BY <1>1 DEF Working, SameSending, SameRing, SameTimers
  <1>4. Finish(x, Run(t, FALSE))
    BY DEF SetReady
  <1> HIDE DEF t
  <1>5. Timed(t)
    BY <1>3 DEF Timed, Awake, LInv, SameSending, SameTimers
  <1>6. Pending(t)
    BY <1>3 DEF Pending
  <1> QED BY <1>2, <1>3, <1>4, <1>5, <1>6, ChangesAwake

\* The controller has a free buffer again.
LEMMA CompletedAwake ==
    ASSUME IInv, LInv, IInv', NEW x \in Sides, Completed(x)
    PROVE  LInv'
  <1> DEFINE s == ch[x]
             t == [s EXCEPT !.acl = @ + 1]
  <1>1. s \in Working /\ Len(wire[x]) \in Nat
    BY DEF IInv, Shape
  <1>2. s.acl + 1 \in 0..AclBuffers
    <2>1. s.acl \in Nat /\ AclBuffers \in Nat
      BY <1>1, Sizes DEF Working
    <2>2. s.acl + Len(wire[x]) < AclBuffers
      BY DEF Completed
    <2> QED BY <1>1, <2>1, <2>2
  <1>3. t \in Working
    BY <1>1, <1>2 DEF Working
  <1>4. /\ SameSending(s, t) /\ t.rx = s.rx /\ t.store = s.store /\ t.rlen = s.rlen
        /\ t.rbuf = s.rbuf /\ t.flags = s.flags /\ t.final = s.final
        /\ t.open = s.open /\ SameTimers(s, t)
    BY <1>1 DEF Working, SameSending, SameRing, SameTimers
  <1>5. Finish(x, Run(t, TRUE))
    BY DEF Completed
  <1> HIDE DEF t
  <1>6. Timed(t)
    BY <1>4 DEF Timed, Awake, LInv, SameSending, SameTimers
  <1> QED BY <1>3, <1>4, <1>5, <1>6, ChangesAwake

\* A retry is counted.
LEMMA CountsAwake ==
    ASSUME NEW s \in Working, NEW c \in 0..MaxTransmit, Awake(s)
    PROVE  Awake([s EXCEPT !.tx[s.read].retry = c])
  <1> DEFINE t == [s EXCEPT !.tx[s.read].retry = c]
  <1>1. /\ t.open = s.open /\ t.unacked = s.unacked /\ t.retrans = s.retrans
        /\ t.monitor = s.monitor /\ t.final = s.final /\ t.flags = s.flags
        /\ t.rx = s.rx /\ t.store = s.store /\ t.expect = s.expect /\ t.out_q = s.out_q
    BY DEF Working
  <1> HIDE DEF t
  <1>2. Timed(t) /\ Answering(t)
    BY <1>1 DEF Timed, Answering, Awake, Held
  <1>3. Awake(t)
    BY <1>1, <1>2, AwakeKept
  <1> QED BY <1>3 DEF t

\* A timer expires: a poll is to be sent.
LEMMA TimeoutAwake ==
    ASSUME IInv, LInv, IInv', NEW x \in Sides, NEW c \in 0..MaxTransmit, NEW t,
           t = Retransmit([ch[x] EXCEPT !.tx[ch[x].read].retry = c]),
           NEW e, e \in Working, SameSending(t, e), e.rx = t.rx, e.store = t.store,
           e.rlen = t.rlen, e.rbuf = t.rbuf, e.final = t.final,
           e.flags = t.flags \cup {"poll"}, Awake(t) => Timed(e),
           Finish(x, Run(e, FALSE))
    PROVE  LInv'
  <1>1. PICK p, q, Tp, Tq : Joined(x, Peer(x), p, q, Tp, Tq)
    BY JoinedFrom
  <1> DEFINE s == ch[x]
             v == ch[Peer(x)]
             w == wire[x]
             z == wire[Peer(x)]
             ax == accepted[x]
             ay == accepted[Peer(x)]
             subx == submitted[x]
             suby == submitted[Peer(x)]
             delx == delivered[x]
             dely == delivered[Peer(x)]
             b == [s EXCEPT !.tx[s.read].retry = c]
  <1>2. Both(s, v, w, z, p, q, Tp, Tq, ax, ay, subx, suby, delx, dely) /\ Awake(s)
    BY <1>1 DEF Joined, LInv
  <1>3. t = Retransmit(b)
    OBVIOUS
  <1>4. "srej" \in e.flags => "srej" \in t.flags
    OBVIOUS
  <1>5. Pending(e)
    BY DEF Pending
  <1> HIDE DEF s, v, w, z, ax, ay, subx, suby, delx, dely
  <1>6. p \in Seq(Segment) /\ ax \in Nat /\ s \in Working
    BY <1>2, BothFacts
  <1>7. During(s, b, v, z, p, q, Tq, ax, ay, suby, dely) /\ Awake(b)
    BY <1>2, <1>6, StepCounts, CountsAwake
  <1> HIDE DEF b
  <1>8. b \in Working
    BY <1>7 DEF During, SendSide
  <1>9. During(s, t, v, z, p, q, Tq, ax, ay, suby, dely) /\ Awake(t)
    BY <1>3, <1>6, <1>7, <1>8, StepRetransmits, RetransmitAwake
  <1>10. During(s, e, v, z, p, q, Tq, ax, ay, suby, dely)
    BY <1>4, <1>9, StepSettings
  <1>11. Awake(e)
    BY <1>4, <1>9, SettingsAwake
  <1>12. During(ch[x], e, ch[Peer(x)], wire[Peer(x)], p, q, Tq, accepted[x],
                accepted[Peer(x)], submitted[Peer(x)], delivered[Peer(x)])
    BY <1>10 DEF s, v, z, ax, ay, suby, dely
  <1> QED BY <1>1, <1>5, <1>11, <1>12, FinishAwake

\* l2cap_ertm_retransmission_timeout_callback
LEMMA RetransmissionTimeoutAwake ==
    ASSUME IInv, LInv, IInv', NEW x \in Sides, RetransmissionTimeout(x)
    PROVE  LInv'
  <1> DEFINE t == Retransmit([ch[x] EXCEPT !.tx[ch[x].read].retry = 1])
             e == [t EXCEPT !.retrans = FALSE, !.monitor = TRUE, !.wait = TRUE,
                            !.flags = @ \cup {"poll"}]
  <1>1. 1 \in 0..MaxTransmit
    BY Sizes
  <1>2. t \in Working
    BY <1>1, TimeoutWorking
  <1>3. Finish(x, Run(e, FALSE))
    BY DEF RetransmissionTimeout
  <1>4. t = Retransmit([ch[x] EXCEPT !.tx[ch[x].read].retry = 1])
    OBVIOUS
  <1> HIDE DEF t
  <1>5. e \in Working
    BY <1>2 DEF Working, Flag
  <1>6. /\ SameSending(t, e) /\ e.rx = t.rx /\ e.store = t.store /\ e.rlen = t.rlen
        /\ e.rbuf = t.rbuf /\ e.flags = t.flags \cup {"poll"} /\ e.final = t.final
        /\ e.monitor = TRUE
    BY <1>2 DEF Working, SameSending, SameRing
  <1> HIDE DEF e
  <1>7. Timed(e)
    BY <1>6 DEF Timed
  <1> QED BY <1>1, <1>3, <1>4, <1>5, <1>6, <1>7, TimeoutAwake

\* l2cap_ertm_monitor_timeout_callback
LEMMA MonitorTimeoutAwake ==
    ASSUME IInv, LInv, IInv', NEW x \in Sides, MonitorTimeout(x)
    PROVE  LInv'
  <1> DEFINE s == ch[x]
             i == s.read
             c == s.tx[i].retry + 1
  <1>1. s \in Working
    BY DEF IInv, Shape
  <1>2. CASE s.tx[i].retry < MaxTransmit
    <2> DEFINE t == Retransmit([s EXCEPT !.tx[i].retry = c])
               e == [t EXCEPT !.flags = @ \cup {"poll"}]
    <2>1. c \in 0..MaxTransmit
      <3>1. s.tx[i].retry \in 0..MaxTransmit
        BY <1>1, SMTT(40) DEF Working, TxBuffer
      <3> QED BY <1>2, <3>1, Sizes
    <2>2. t = Retransmit([s EXCEPT !.tx[i].retry = @ + 1])
      BY <1>1 DEF Working, TxBuffer
    <2>3. Finish(x, Run(e, FALSE))
      BY <1>2, <2>2 DEF MonitorTimeout
    <2>4. t = Retransmit([ch[x] EXCEPT !.tx[ch[x].read].retry = c])
      OBVIOUS
    <2> HIDE DEF c
    <2>5. t \in Working
      BY <2>1, TimeoutWorking
    <2> HIDE DEF t
    <2>6. e \in Working
      BY <2>5 DEF Working, Flag
    <2>7. /\ SameSending(t, e) /\ e.rx = t.rx /\ e.store = t.store /\ e.rlen = t.rlen
          /\ e.rbuf = t.rbuf /\ e.flags = t.flags \cup {"poll"} /\ e.final = t.final
          /\ e.open = t.open /\ SameTimers(t, e)
      BY <2>5 DEF Working, SameSending, SameRing, SameTimers
    <2> HIDE DEF e
    <2>8. Awake(t) => Timed(e)
      BY <2>7 DEF Timed, Awake, SameSending, SameTimers
    <2> QED BY <2>1, <2>3, <2>4, <2>6, <2>7, <2>8, TimeoutAwake
  <1>3. CASE ~(s.tx[i].retry < MaxTransmit)
    <2> DEFINE t == [s EXCEPT !.open = FALSE, !.monitor = FALSE]
    <2>1. Finish(x, t)
      BY <1>3 DEF MonitorTimeout
    <2>2. t \in Working
      BY <1>1 DEF Working
    <2>3. /\ SameSending(s, t) /\ t.rx = s.rx /\ t.store = s.store /\ t.rlen = s.rlen
          /\ t.rbuf = s.rbuf /\ t.flags = s.flags /\ t.final = s.final /\ t.open = FALSE
      BY <1>1 DEF Working, SameSending, SameRing
    <2> HIDE DEF t
    <2>4. Timed(t) /\ Settled(t)
      BY <2>3 DEF Timed, Settled
    <2> QED BY <2>1, <2>2, <2>3, <2>4, ChangesAwake
  <1> QED BY <1>2, <1>3

\* A frame is lost.
LEMMA LoseAwake ==
    ASSUME IInv, LInv, IInv', NEW x \in Sides, Lose(Peer(x))
    PROVE  LInv'
  <1> DEFINE y == Peer(x)
             u == ch[x]
  <1>1. y \in Sides /\ x # y
    BY PeerFacts
  <1>2. PICK p, q, Tp, Tq : Joined(x, y, p, q, Tp, Tq)
    BY JoinedFrom
  <1>3. u \in Working /\ u.out_q = << >> /\ wire[x] \in Seq(Frame)
    BY <1>2, BothFacts DEF Joined
  <1>4. wire[y] # << >> /\ wire' = [wire EXCEPT ![y] = Tail(@)] /\ ch' = ch
    BY DEF Lose
  <1>5. wire'[x] = wire[x] /\ wire'[y] = Tail(wire[y])
    BY <1>1, <1>4 DEF IInv, Shape
  <1>6. [u EXCEPT !.out_q = << >>] = u
    BY <1>3 DEF Working
  <1>7. wire[x] \o u.out_q = wire[x]
    BY <1>3
  <1>8. Awake(u) /\ Settled(u)
    BY DEF LInv
  <1>9. /\ ch'[x] = [u EXCEPT !.out_q = << >>] /\ ch'[y] = ch[y] /\ u.next = ch[x].next
        /\ wire'[x] = wire[x] \o u.out_q
    BY <1>4, <1>5, <1>6, <1>7
  <1> HIDE DEF y, u
  <1>10. y = Peer(x)
    BY DEF y
  <1>11. /\ wire'[y] = wire[y] \/ (wire[y] # << >> /\ wire'[y] = Tail(wire[y]))
         /\ u.next = ch[x].next \/ accepted'[x] < stored'[x]
    BY <1>4, <1>5, <1>9
  <1> QED BY <1>3, <1>8, <1>9, <1>10, <1>11, AwakeAfter, Zenon

\* l2cap_ertm_send: what fits into the window is sent.
LEMMA StepSendAwake ==
    ASSUME NEW s, NEW v, NEW w, NEW z, NEW sx, NEW sy, NEW Tx, NEW Ty, NEW ax, NEW ay,
           NEW subx, NEW suby, NEW delx, NEW dely,
           Both(s, v, w, z, sx, sy, Tx, Ty, ax, ay, subx, suby, delx, dely),
           NEW d \in Sdu, CanStore(s), Awake(s),
           NEW u, u = NotifyCanSend(StoreFragments(s, Segments(d)))
    PROVE  u \in Working /\ Awake(u) /\ Settled(u)
  <1> DEFINE gs == Segments(d)
             t == StoreFragments(s, gs)
             sx2 == sx \o gs
             h == Heard(v, Len(sy), ay)
  <1>1. /\ sx \in Seq(Segment) /\ ax \in Nat /\ s.num \in Nat /\ SendSide(s, sx, ax, h)
        /\ s.out_q = << >>
    BY BothFacts
  <1>2. gs \in Seq(Segment) /\ Len(gs) = Len(d) /\ Len(d) \in Nat /\ Len(d) <= MaxPieces
    BY SegmentFacts, SduFacts
  <1>3. s.num + Len(gs) <= NumTx
    <2>1. MaxPieces <= NumTx - s.num /\ NumTx \in Nat /\ MaxPieces \in Nat
      BY Sizes DEF CanStore
    <2> QED BY <1>1, <1>2, <2>1
  <1>4. u = NotifyCanSend(t)
    OBVIOUS
  <1> HIDE DEF gs, h
  <1>5. SendSide(t, sx2, ax, h) /\ Stores(s, t, Len(gs)) /\ sx2 \in Seq(Segment)
    BY <1>1, <1>2, <1>3, StoreAllSide
  <1> HIDE DEF t, sx2
  <1>6. Timed(t) /\ Answering(t)
    BY <1>5 DEF Stores, Keeps, Timed, Answering, Awake, Held
  <1>7. Awake(t)
    BY <1>5, <1>6, AwakeKept DEF Stores, Keeps
  <1>8. Awake(u) /\ Settled(u) /\ SendSide(u, sx2, ax, h)
    BY <1>1, <1>4, <1>5, <1>7, NotifyAwake, NotifySide
  <1> QED BY <1>1, <1>5, <1>8, SideFacts

\* l2cap_ertm_send
LEMMA SendAwake ==
    ASSUME IInv, LInv, IInv', NEW x \in Sides, Send(x)
    PROVE  LInv'
  <1> DEFINE y == Peer(x)
             k == Len(submitted[x]) + 1
  <1>1. y \in Sides /\ x # y /\ Sides = {x, y}
    BY PeerFacts
  <1>2. /\ Shape /\ Len(submitted[x]) \in Nat /\ stored[x] \in Nat /\ accepted[x] \in Nat
        /\ Len(submitted[A]) \in Nat /\ Len(submitted[B]) \in Nat
    <2>1. Shape
      BY DEF IInv
    <2> QED BY <2>1 DEF Shape, Sides
  <1>3. CanStore(ch[x]) /\ Len(submitted[A]) + Len(submitted[B]) < MaxSdus
    BY DEF Send
  <1>4. PICK n \in 1..MaxPieces :
            LET d == [i \in 1..n |-> k]
                t == StoreFragments(ch[x], Segments(d))
            IN  /\ Finish(x, NotifyCanSend(t))
                /\ stored' = [stored EXCEPT ![x] = @ + n]
    BY DEF Send
  <1>5. UNCHANGED accepted
    BY DEF Send
  <1> DEFINE d == [i \in 1..n |-> k]
             u == NotifyCanSend(StoreFragments(ch[x], Segments(d)))
  <1>6. k \in 1..MaxSdus
    <2>1. MaxSdus \in Nat
      BY Sizes
    <2>2. submitted[x] = submitted[A] \/ submitted[x] = submitted[B]
      BY DEF Sides
    <2> DEFINE ka == Len(submitted[A])
               kb == Len(submitted[B])
    <2>3. k = ka + 1 \/ k = kb + 1
      BY <2>2
    <2>4. ka \in Nat /\ kb \in Nat /\ ka + kb < MaxSdus
      BY <1>2, <1>3
    <2> HIDE DEF ka, kb, k
    <2> QED BY <2>1, <2>3, <2>4
  <1>7. d \in Sdu
    <2> HIDE DEF k
    <2> QED BY <1>6 DEF Sdu
  <1>8. Finish(x, u) /\ stored' = [stored EXCEPT ![x] = @ + n] /\ n \in Nat /\ n > 0
    BY <1>4, Sizes
  <1>9. PICK p, q, Tp, Tq : Joined(x, y, p, q, Tp, Tq)
    BY JoinedFrom
  <1>10. Both(ch[x], ch[y], wire[x], wire[y], p, q, Tp, Tq, accepted[x], accepted[y],
              submitted[x], submitted[y], delivered[x], delivered[y])
         /\ stored[x] = Len(p) /\ Awake(ch[x])
    BY <1>9 DEF Joined, LInv
  <1>11. u = NotifyCanSend(StoreFragments(ch[x], Segments(d)))
    OBVIOUS
  <1> HIDE DEF d, u
  <1>12. u \in Working /\ Awake(u) /\ Settled(u)
    <2> DEFINE s == ch[x]
               v == ch[y]
               w == wire[x]
               z == wire[y]
               ax == accepted[x]
               ay == accepted[y]
               subx == submitted[x]
               suby == submitted[y]
               delx == delivered[x]
               dely == delivered[y]
    <2>1. /\ Both(s, v, w, z, p, q, Tp, Tq, ax, ay, subx, suby, delx, dely)
          /\ CanStore(s) /\ Awake(s) /\ u = NotifyCanSend(StoreFragments(s, Segments(d)))
      BY <1>3, <1>10, <1>11
    <2> HIDE DEF s, v, w, z, ax, ay, subx, suby, delx, dely
    <2> QED BY <1>7, <2>1, StepSendAwake
  <1>13. accepted'[x] < stored'[x]
    <2>1. accepted[x] <= stored[x]
      BY <1>10, BothFacts
    <2>2. stored'[x] = stored[x] + n /\ accepted'[x] = accepted[x]
      BY <1>2, <1>5, <1>8 DEF Shape
    <2> QED BY <1>2, <1>8, <2>1, <2>2
  <1>14. /\ ch'[x] = [u EXCEPT !.out_q = << >>] /\ ch'[y] = ch[y]
         /\ wire'[x] = wire[x] \o u.out_q /\ wire'[y] = wire[y]
    BY <1>1, <1>2, <1>8 DEF Finish, Shape
  <1> HIDE DEF y
  <1>15. y = Peer(x)
    BY DEF y
  <1>16. /\ wire'[y] = wire[y] \/ (wire[y] # << >> /\ wire'[y] = Tail(wire[y]))
         /\ u.next = ch[x].next \/ accepted'[x] < stored'[x]
    BY <1>13, <1>14
  <1> QED BY <1>12, <1>14, <1>15, <1>16, AwakeAfter, Zenon

\* l2cap_acl_handler: the frame, then l2cap_run
LEMMA StepReceiveAwake ==
    ASSUME NEW s, NEW v, NEW w, NEW z, NEW sx, NEW sy, NEW Tx, NEW Ty, NEW ax, NEW ay,
           NEW subx, NEW suby, NEW delx, NEW dely,
           Both(s, v, w, z, sx, sy, Tx, Ty, ax, ay, subx, suby, delx, dely), z # << >>,
           s.open, Awake(s), Settled(s), Useful(Head(z), s.next),
           NEW u, u = Run(Handle(s, Head(z)), FALSE)
    PROVE  u \in Working /\ u.next = s.next /\ Awake(u) /\ Settled(u)
  <1> DEFINE t == Handle(s, Head(z))
  <1>1. Awake(t) /\ (Settled(t) \/ Pending(t))
    BY HandleAwake
  <1>2. Taken(s, t, Head(z), v, Tail(z), sx, sy, Ty, ax, ay, suby, dely)
    BY StepHandle
  <1>3. /\ sx \in Seq(Segment) /\ ax \in Nat
        /\ SendSide(s, sx, ax, Heard(v, Len(sy), ay))
    BY BothFacts
  <1>4. u = Run(t, FALSE)
    OBVIOUS
  <1> HIDE DEF t
  <1>5. PICK a2 \in Nat : SendSide(t, sx, ax, Heard(v, Len(sy), a2))
    BY <1>2 DEF Taken, During
  <1> DEFINE h == Heard(v, Len(sy), a2)
  <1>6. SendSide(t, sx, ax, h)
    BY <1>5
  <1> HIDE DEF h
  <1>7. SendSide(u, sx, ax, h) /\ Awake(u) /\ Settled(u)
    BY <1>1, <1>3, <1>4, <1>6, RunAwake
  <1>8. u \in Working
    BY <1>3, <1>7, SideFacts
  <1>9. u.next = s.next
    BY <1>3, <1>7 DEF SendSide, Ring
  <1> QED BY <1>7, <1>8, <1>9

\* l2cap_acl_handler
LEMMA ReceiveAwake ==
    ASSUME IInv, LInv, IInv', NEW x \in Sides, Receive(x)
    PROVE  LInv'
  <1> DEFINE y == Peer(x)
             u == Run(Handle(ch[x], Head(wire[y])), FALSE)
  <1>1. y \in Sides /\ x # y /\ Sides = {x, y} /\ Peer(y) = x
    BY PeerFacts
  <1>2. Shape
    BY DEF IInv
  <1>3. /\ wire[y] # << >> /\ ch[x].open
        /\ ch' = [ch EXCEPT ![x] = [u EXCEPT !.out_q = << >>]]
        /\ wire' = [wire EXCEPT ![y] = Tail(@), ![x] = @ \o u.out_q]
    BY DEF Receive
  <1>4. PICK p, q, Tp, Tq : Joined(x, y, p, q, Tp, Tq)
    BY JoinedFrom
  <1>5. /\ Both(ch[x], ch[y], wire[x], wire[y], p, q, Tp, Tq, accepted[x], accepted[y],
                submitted[x], submitted[y], delivered[x], delivered[y])
        /\ Awake(ch[x]) /\ Settled(ch[x])
    BY <1>4 DEF Joined, LInv
  <1>6. Useful(Head(wire[y]), ch[x].next)
    <2>1. \A i \in 1..Len(wire[y]) : Useful(wire[y][i], ch[x].next)
      BY <1>1 DEF LInv
    <2>2. 1 \in 1..Len(wire[y]) /\ Head(wire[y]) = wire[y][1]
      <3>1. wire[y] \in Seq(Frame)
        BY <1>1, <1>2 DEF Shape
      <3> QED BY <1>3, <3>1, TailIndex
    <2> QED BY <2>1, <2>2
  <1>7. u \in Working /\ u.next = ch[x].next /\ Awake(u) /\ Settled(u)
    <2> DEFINE s == ch[x]
               v == ch[y]
               w == wire[x]
               z == wire[y]
               ax == accepted[x]
               ay == accepted[y]
               subx == submitted[x]
               suby == submitted[y]
               delx == delivered[x]
               dely == delivered[y]
    <2>1. /\ Both(s, v, w, z, p, q, Tp, Tq, ax, ay, subx, suby, delx, dely)
          /\ Awake(s) /\ Settled(s) /\ z # << >> /\ s.open /\ Useful(Head(z), s.next)
          /\ u = Run(Handle(s, Head(z)), FALSE)
      BY <1>3, <1>5, <1>6
    <2> HIDE DEF s, v, w, z, ax, ay, subx, suby, delx, dely, u
    <2>2. u \in Working /\ u.next = s.next /\ Awake(u) /\ Settled(u)
      BY <2>1, StepReceiveAwake
    <2> QED BY <2>2 DEF s
  <1> HIDE DEF u
  <1>8. /\ ch'[x] = [u EXCEPT !.out_q = << >>] /\ ch'[y] = ch[y]
        /\ wire'[x] = wire[x] \o u.out_q /\ wire'[y] = Tail(wire[y])
    BY <1>1, <1>2, <1>3 DEF Shape
  <1> HIDE DEF y
  <1>9. y = Peer(x)
    BY DEF y
  <1>10. /\ wire'[y] = wire[y] \/ (wire[y] # << >> /\ wire'[y] = Tail(wire[y]))
         /\ u.next = ch[x].next \/ accepted'[x] < stored'[x]
    BY <1>3, <1>7, <1>8
  <1> QED BY <1>7, <1>8, <1>9, <1>10, AwakeAfter, Zenon

\* The second invariant holds when the channel is opened.
LEMMA InitAwake ==
    ASSUME Init
    PROVE  LInv
  <1>1. ASSUME NEW x \in Sides
        PROVE  /\ Awake(ch[x]) /\ Settled(ch[x])
               /\ \A p \in 1..Len(wire[x]) : Useful(wire[x][p], ch[Peer(x)].next)
    <2> DEFINE s == ch[x]
    <2>1. /\ s.flags = {} /\ s.num = 0 /\ s.unacked = 0 /\ s.out_q = << >>
          /\ wire[x] = << >>
      BY <1>1 DEF Init
    <2> HIDE DEF s
    <2>2. Len(<< >>) = 0
      OBVIOUS
    <2>3. 1..Len(s.out_q) = {} /\ 1..Len(wire[x]) = {}
      BY <2>1, <2>2
    <2>4. Awake(s)
      BY <2>1, <2>3 DEF Awake, Timed, Answering, Answered
    <2>5. Min({Window, 0}) = 0
      BY Sizes, MinPair
    <2>6. Settled(s)
      BY <2>1, <2>5 DEF Settled
    <2> QED BY <2>3, <2>4, <2>6 DEF s
  <1> QED BY <1>1 DEF LInv

\* Every step of the devices and the link
LEMMA NextAwake ==
    ASSUME IInv, LInv, [Next]_vars, ~RequestWhenFull
    PROVE  LInv'
  <1>0. IInv'
    BY NextInv
  <1>1. ASSUME NEW x \in Sides, Lose(x) PROVE LInv'
    <2>1. Peer(x) \in Sides /\ Peer(Peer(x)) = x
      BY PeerFacts
    <2>2. Lose(Peer(Peer(x)))
      BY <1>1, <2>1
    <2> QED BY <1>0, <2>1, <2>2, LoseAwake
  <1>2. CASE Next
    <2>1. PICK x \in Sides : \/ Send(x) \/ RequestCanSend(x) \/ SetBusy(x) \/ SetReady(x)
                             \/ Receive(x) \/ Lose(x) \/ Completed(x)
                             \/ RetransmissionTimeout(x) \/ MonitorTimeout(x)
      BY <1>2 DEF Next
    <2>2. CASE Send(x)
      BY <1>0, <2>2, SendAwake
    <2>3. CASE RequestCanSend(x)
      BY <1>0, <2>3, RequestCanSendAwake
    <2>4. CASE SetBusy(x)
      BY <1>0, <2>4, SetBusyAwake
    <2>5. CASE SetReady(x)
      BY <1>0, <2>5, SetReadyAwake
    <2>6. CASE Receive(x)
      BY <1>0, <2>6, ReceiveAwake
    <2>7. CASE Lose(x)
      BY <1>1, <2>7
    <2>8. CASE Completed(x)
      BY <1>0, <2>8, CompletedAwake
    <2>9. CASE RetransmissionTimeout(x)
      BY <1>0, <2>9, RetransmissionTimeoutAwake
    <2>10. CASE MonitorTimeout(x)
      BY <1>0, <2>10, MonitorTimeoutAwake
    <2> QED BY <2>1, <2>2, <2>3, <2>4, <2>5, <2>6, <2>7, <2>8, <2>9, <2>10
  <1>3. CASE UNCHANGED vars
    BY <1>3 DEF vars, LInv
  <1> QED BY <1>2, <1>3

\* When every frame is taken, every SDU is delivered.
LEMMA AllDelivered ==
    ASSUME NEW sub, NEW str, NEW T, NEW buf \in Seq(Nat), NEW len, NEW del,
           Stream(sub, str, T), Assembly(buf, len, Len(str), T, sub, del)
    PROVE  del = sub
  <1> DEFINE m == Len(del)
             n == Len(sub)
  <1>1. /\ del \in Seq(Sdu) /\ sub \in Seq(Sdu) /\ m \in Nat /\ n \in Nat /\ m <= n
        /\ Len(buf) \in Nat /\ Len(str) \in Nat
        /\ \A k \in 1..m : del[k] = sub[k]
    BY DEF Stream, Assembly
  <1>2. Len(str) = T[m] + Len(buf) /\ T[n] = Len(str)
    BY DEF Stream, Assembly
  <1>3. \A k \in 0..n : T[k] \in Nat
    BY DEF Stream
  <1>4. ~(m < n)
    <2> SUFFICES ASSUME m < n PROVE FALSE
      OBVIOUS
    <2> DEFINE d == sub[m + 1]
               c == T[m]
               e == T[m + 1]
               l == Len(d)
    <2>1. m + 1 \in 1..n /\ m + 1 \in 0..n /\ n \in 0..n /\ m + 1 <= n /\ m \in 0..n
      BY <1>1
    <2>2. d \in Sdu
      BY <1>1, <2>1
    <2>3. l \in Nat /\ 1 <= l
      BY <2>2, SduFacts
    <2>4. e = c + l
      <3>1. T[m + 1] = T[(m + 1) - 1] + Len(sub[m + 1])
        BY <2>1 DEF Stream
      <3>2. (m + 1) - 1 = m
        BY <1>1
      <3> QED BY <3>1, <3>2
    <2>5. e <= T[n]
      BY <2>1 DEF Stream
    <2>6. Len(buf) < l
      <3>1. CASE buf = << >>
        <4>1. Len(buf) = 0
          BY <3>1
        <4> HIDE DEF l
        <4> QED BY <2>3, <4>1
      <3>2. CASE buf # << >>
        BY <3>2 DEF Assembly
      <3> QED BY <3>1, <3>2
    <2>7. c \in Nat /\ e \in Nat
      BY <1>3, <2>1
    <2>8. e <= c + Len(buf)
      BY <1>2, <2>5
    <2> HIDE DEF c, e, l
    <2> QED BY <1>1, <2>3, <2>4, <2>6, <2>7, <2>8
  <1>5. m = n
    <2> HIDE DEF m, n
    <2> QED BY <1>1, <1>4
  <1> QED BY <1>1, <1>5, SeqEqual

\* The state of a channel nothing is under way for
LEMMA IdleDone ==
    ASSUME NEW s, NEW v, NEW w, NEW z, NEW sx, NEW sy, NEW Tx, NEW Ty, NEW ax, NEW ay,
           NEW subx, NEW suby, NEW delx, NEW dely,
           Both(s, v, w, z, sx, sy, Tx, Ty, ax, ay, subx, suby, delx, dely),
           Awake(s), Settled(s), s.open, ~s.wait, ~s.retrans, ~s.monitor,
           s.acl = AclBuffers
    PROVE  s.num = 0 /\ delx = subx
  <1>1. /\ sx \in Seq(Segment) /\ ax \in Nat /\ Len(sx) \in Nat /\ s.num \in Nat
        /\ Len(sx) - s.num <= ax /\ ax <= Len(sx) /\ v \in Working
        /\ SendSide(s, sx, ax, Heard(v, Len(sy), ay))
    BY BothFacts
  <1>2. s.unacked \in Nat
    BY <1>1, SideFacts
  <1>3. ~(s.unacked > 0)
    BY DEF Awake, Timed
  <1>4. Min({Window, s.num}) <= s.unacked
    BY DEF Settled
  <1>5. Min({Window, s.num}) = IF Window <= s.num THEN Window ELSE s.num
    BY <1>1, MinPair, Sizes
  <1>6. s.num = 0
    BY <1>1, <1>2, <1>3, <1>4, <1>5, Sizes
  <1>7. ax = Len(sx)
    BY <1>1, <1>6
  <1>8. Stream(subx, sx, Tx) /\ Assembly(v.rbuf, v.rlen, ax, Tx, subx, delx)
    BY DEF Both, Direction, RecvSide
  <1>9. v.rbuf \in Seq(Nat)
    BY <1>1 DEF Working
  <1> DEFINE buf == v.rbuf
             len == v.rlen
  <1>10. buf \in Seq(Nat) /\ Assembly(buf, len, Len(sx), Tx, subx, delx)
    BY <1>7, <1>8, <1>9
  <1> HIDE DEF buf, len
  <1>11. delx = subx
    BY <1>8, <1>10, AllDelivered
  <1> QED BY <1>6, <1>11

\* No stall, whatever is lost and however timeouts race with answers: a device with
\* frames that are not acknowledged has a timer running, an answer to a poll makes
\* it send what it can, and l2cap_notify_channel_can_send leaves nothing behind when
\* the controller has all its buffers.
THEOREM ErtmNeverStuck ==
    ASSUME ~RequestWhenFull
    PROVE  Spec => []NeverStuck
  <1>1. Init => IInv /\ LInv
    BY InitInv, InitAwake
  <1>2. IInv /\ LInv /\ [Next]_vars => IInv' /\ LInv'
    BY NextInv, NextAwake
  <1>3. IInv /\ LInv => NeverStuck
    <2> SUFFICES ASSUME IInv, LInv, Idle,
                        \A x \in Sides : /\ ch[x].open /\ ~ch[x].wait
                                         /\ ~ch[x].retrans /\ ~ch[x].monitor,
                        NEW x \in Sides
                 PROVE  ch[x].num = 0 /\ delivered[x] = submitted[x]
      BY DEF NeverStuck
    <2> DEFINE s == ch[x]
               v == ch[Peer(x)]
               w == wire[x]
               z == wire[Peer(x)]
               ax == accepted[x]
               ay == accepted[Peer(x)]
               subx == submitted[x]
               suby == submitted[Peer(x)]
               delx == delivered[x]
               dely == delivered[Peer(x)]
    <2>1. PICK p, q, Tp, Tq : Joined(x, Peer(x), p, q, Tp, Tq)
      BY JoinedFrom
    <2>2. Both(s, v, w, z, p, q, Tp, Tq, ax, ay, subx, suby, delx, dely)
      BY <2>1 DEF Joined
    <2>3. /\ s.open /\ ~s.wait /\ ~s.retrans /\ ~s.monitor /\ s.acl = AclBuffers
          /\ Awake(s) /\ Settled(s)
      BY DEF Idle, LInv
    <2> HIDE DEF s, v, w, z, ax, ay, subx, suby, delx, dely
    <2>4. s.num = 0 /\ delx = subx
      BY <2>2, <2>3, IdleDone
    <2> QED BY <2>4 DEF s, delx, subx
  <1> QED BY <1>1, <1>2, <1>3, PTL DEF Spec

=============================================================================
