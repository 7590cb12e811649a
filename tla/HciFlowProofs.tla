--------------------------- MODULE HciFlowProofs ---------------------------
(***************************************************************************)
(* Proofs about HciFlow: its type invariant, that the count of a connection *)
(* is what it has under way, that the controller's buffers suffice, and    *)
(* that the fragments of a packet arrive together.                         *)
(*                                                                         *)
(* A step of the host applies several operators to the record hci, one     *)
(* after the other.  The inductive invariant is therefore stated for a     *)
(* record s in the middle of a step, the packets w that the controller     *)
(* has not taken yet and the events es that the host has not handled yet;  *)
(* every operator of HciFlow preserves it.                                 *)
(***************************************************************************)
EXTENDS HciFlow, TotalsProofs, SequenceTheorems

Connects(e, h) == e.type = "connected" /\ e.handle = h

\* The count of each connection of the controller, c: exact once the host
\* knows the connection; until then nothing is under way for it.
Account(s, w, es, c) ==
    \A h \in DOMAIN c :
        /\ \A i \in DOMAIN es : ~(es[i].type = "disconnected" /\ es[i].handle = h)
        /\ \A i, j \in DOMAIN es : Connects(es[i], h) /\ Connects(es[j], h) => i = j
        /\ h \in s.conns =>
                /\ \A i \in DOMAIN es : ~Connects(es[i], h)
                /\ s.sent[h] = Fragments(w, h) + c[h] + Completed(es, h)
        /\ h \notin s.conns =>
                Fragments(w, h) = 0 /\ c[h] = 0 /\ Completed(es, h) = 0

\* The handle of an unfinished packet: before p, after p, and in the buffer
Continues(p) == IF p.type = "acl" /\ ~p.first THEN {p.handle} ELSE {}
Opens(p)     == IF p.type = "acl" /\ ~p.last THEN {p.handle} ELSE {}
Current(s)   == IF s.left > 0 THEN {s.owner} ELSE {}

\* As far as the open connections D are concerned, every packet on its way
\* continues what the one before it left unfinished, the first one what the
\* controller has, pa, and the buffer continues the last one.
Order(s, w, D, pa) ==
    /\ w = << >> => pa = Current(s) \cap D
    /\ w # << >> => /\ Continues(w[1]) \cap D = pa
                    /\ Opens(w[Len(w)]) \cap D = Current(s) \cap D
    /\ \A i \in 1..(Len(w) - 1) : Continues(w[i + 1]) \cap D = Opens(w[i]) \cap D

\* The buffer is kept while fragments are left, of an open connection.
Held(s)  == s.left > 0 => s.buffer
Owned(s) == s.left > 0 => s.owner \in s.conns

\* The parts of the state that the operators on hci only read
Setting(es) ==
    /\ sync \in BOOLEAN /\ leTotal \in Nat
    /\ wire \in Seq(Packet) /\ es \in Seq(Event)
    /\ DOMAIN ctl \subseteq Handles /\ ctl \in [DOMAIN ctl -> Nat]
    /\ partial \subseteq DOMAIN ctl

\* A record in the middle of a step; n bounds the commands left to hci_run.
Work(s, es, n) ==
    /\ s \in HciState /\ s.tasks <= n /\ Held(s)
    /\ SlotAssertions(s)
    /\ Account(s, wire \o s.out, es, ctl)
    /\ Order(s, wire \o s.out, DOMAIN ctl, partial)

IInv ==
    /\ HciTypeOK
    /\ Work(hci, events, sends) /\ Owned(hci)

-----------------------------------------------------------------------------
(* Sums over packets and events *)

OneFragment(p, h) == IF p.type = "acl" /\ p.handle = h THEN 1 ELSE 0
OneCompleted(e, h) == IF e.type = "completed" /\ e.handle = h THEN e.n ELSE 0

\* A fragment counts as one packet, an event as the number that it reports.
LEMMA OneType ==
    /\ \A p \in Packet : \A h : OneFragment(p, h) \in Nat
    /\ \A e \in Event : \A h : OneCompleted(e, h) \in Nat
  BY DEF OneFragment, OneCompleted, Packet, Event

\* The fragments of a connection are counted by a natural number.
LEMMA FragmentsType ==
    ASSUME NEW w \in Seq(Packet), NEW h
    PROVE  /\ Fragments(w, h) \in Nat
           /\ (\A i \in DOMAIN w : ~(w[i].type = "acl" /\ w[i].handle = h))
                 => Fragments(w, h) = 0
  <1> DEFINE D == DOMAIN w
             f == [i \in D |-> OneFragment(w[i], h)]
  <1>1. D = 1..Len(w) /\ Len(w) \in Nat /\ \A i \in D : w[i] \in Packet
    OBVIOUS
  <1>2. IsFiniteSet(D)
    BY <1>1, FS_Interval
  <1>3. f \in [D -> Nat]
    BY <1>1, OneType
  <1>4. Fragments(w, h) = Total(f)
    BY DEF Fragments, OneFragment
  <1>5. (\A i \in D : ~(w[i].type = "acl" /\ w[i].handle = h)) => \A i \in D : f[i] = 0
    BY DEF OneFragment
  <1> HIDE DEF f, D
  <1>6. QED
    BY <1>2, <1>3, <1>4, <1>5, TotalType, TotalZero DEF D

\* The packets reported by events are counted by a natural number.
LEMMA CompletedType ==
    ASSUME NEW es \in Seq(Event), NEW h
    PROVE  /\ Completed(es, h) \in Nat
           /\ (\A i \in DOMAIN es : ~(es[i].type = "completed" /\ es[i].handle = h))
                 => Completed(es, h) = 0
  <1> DEFINE D == DOMAIN es
             f == [i \in D |-> OneCompleted(es[i], h)]
  <1>1. D = 1..Len(es) /\ Len(es) \in Nat /\ \A i \in D : es[i] \in Event
    OBVIOUS
  <1>2. IsFiniteSet(D)
    BY <1>1, FS_Interval
  <1>3. f \in [D -> Nat]
    BY <1>1, OneType
  <1>4. Completed(es, h) = Total(f)
    BY DEF Completed, OneCompleted
  <1>5. (\A i \in D : ~(es[i].type = "completed" /\ es[i].handle = h))
           => \A i \in D : f[i] = 0
    BY DEF OneCompleted
  <1> HIDE DEF f, D
  <1>6. QED
    BY <1>2, <1>3, <1>4, <1>5, TotalType, TotalZero DEF D

\* A packet that is sent is one more fragment of its connection.
LEMMA FragmentsAppend ==
    ASSUME NEW w \in Seq(Packet), NEW p \in Packet, NEW h
    PROVE  Fragments(Append(w, p), h) = Fragments(w, h) + OneFragment(p, h)
  <1> DEFINE n == Len(w)
             z == Append(w, p)
             f == [i \in DOMAIN w |-> OneFragment(w[i], h)]
             g == [i \in DOMAIN z |-> OneFragment(z[i], h)]
  <1>1. /\ n \in Nat /\ DOMAIN w = 1..n /\ DOMAIN z = 1..(n + 1)
        /\ \A i \in 1..n : z[i] = w[i]
        /\ z[n + 1] = p
    OBVIOUS
  <1>2. (\A i \in 1..n : w[i] \in Packet) /\ \A i \in 1..(n + 1) : z[i] \in Packet
    OBVIOUS
  <1>3. f \in [1..n -> Nat] /\ g \in [1..(n + 1) -> Nat]
    BY <1>1, <1>2, OneType
  <1>4. (\A i \in 1..n : g[i] = f[i]) /\ g[n + 1] = OneFragment(p, h)
    BY <1>1
  <1>5. Fragments(w, h) = Total(f) /\ Fragments(z, h) = Total(g)
    BY DEF Fragments, OneFragment
  <1> HIDE DEF f, g, n, z
  <1>6. QED
    BY <1>1, <1>3, <1>4, <1>5, TotalAppend DEF z

\* A packet that the controller takes is one fragment less.
LEMMA FragmentsTail ==
    ASSUME NEW w \in Seq(Packet), w # << >>, NEW h
    PROVE  Fragments(w, h) = OneFragment(Head(w), h) + Fragments(Tail(w), h)
  <1> DEFINE n == Len(w) - 1
             z == Tail(w)
             f == [i \in DOMAIN w |-> OneFragment(w[i], h)]
             g == [i \in DOMAIN z |-> OneFragment(z[i], h)]
  <1>1. /\ n \in Nat /\ DOMAIN w = 1..(n + 1) /\ DOMAIN z = 1..n
        /\ \A i \in 1..n : z[i] = w[i + 1]
        /\ w[1] = Head(w)
    OBVIOUS
  <1>2. (\A i \in 1..n : z[i] \in Packet) /\ \A i \in 1..(n + 1) : w[i] \in Packet
    <2>1. \A i \in 1..(n + 1) : w[i] \in Packet
      BY <1>1, ElementOfSeq
    <2>2. QED
      BY <1>1, <2>1
  <1>3. g \in [1..n -> Nat] /\ f \in [1..(n + 1) -> Nat]
    BY <1>1, <1>2, OneType
  <1>4. (\A i \in 1..n : g[i] = f[i + 1]) /\ f[1] = OneFragment(Head(w), h)
    BY <1>1
  <1>5. Fragments(w, h) = Total(f) /\ Fragments(z, h) = Total(g)
    BY DEF Fragments, OneFragment
  <1> HIDE DEF f, g, n, z
  <1>6. QED
    BY <1>1, <1>3, <1>4, <1>5, TotalTail DEF z

\* An event of the controller adds what it reports.
LEMMA CompletedAppend ==
    ASSUME NEW es \in Seq(Event), NEW e \in Event, NEW h
    PROVE  Completed(Append(es, e), h) = Completed(es, h) + OneCompleted(e, h)
  <1> DEFINE n == Len(es)
             z == Append(es, e)
             f == [i \in DOMAIN es |-> OneCompleted(es[i], h)]
             g == [i \in DOMAIN z |-> OneCompleted(z[i], h)]
  <1>1. /\ n \in Nat /\ DOMAIN es = 1..n /\ DOMAIN z = 1..(n + 1)
        /\ \A i \in 1..n : z[i] = es[i]
        /\ z[n + 1] = e
    OBVIOUS
  <1>2. (\A i \in 1..n : es[i] \in Event) /\ \A i \in 1..(n + 1) : z[i] \in Event
    OBVIOUS
  <1>3. f \in [1..n -> Nat] /\ g \in [1..(n + 1) -> Nat]
    BY <1>1, <1>2, OneType
  <1>4. (\A i \in 1..n : g[i] = f[i]) /\ g[n + 1] = OneCompleted(e, h)
    BY <1>1
  <1>5. Completed(es, h) = Total(f) /\ Completed(z, h) = Total(g)
    BY DEF Completed, OneCompleted
  <1> HIDE DEF f, g, n, z
  <1>6. QED
    BY <1>1, <1>3, <1>4, <1>5, TotalAppend DEF z

\* An event that the host handles takes away what it reports.
LEMMA CompletedTail ==
    ASSUME NEW es \in Seq(Event), es # << >>, NEW h
    PROVE  Completed(es, h) = OneCompleted(Head(es), h) + Completed(Tail(es), h)
  <1> DEFINE n == Len(es) - 1
             z == Tail(es)
             f == [i \in DOMAIN es |-> OneCompleted(es[i], h)]
             g == [i \in DOMAIN z |-> OneCompleted(z[i], h)]
  <1>1. /\ n \in Nat /\ DOMAIN es = 1..(n + 1) /\ DOMAIN z = 1..n
        /\ \A i \in 1..n : z[i] = es[i + 1]
        /\ es[1] = Head(es)
    OBVIOUS
  <1>2. (\A i \in 1..n : z[i] \in Event) /\ \A i \in 1..(n + 1) : es[i] \in Event
    <2>1. \A i \in 1..(n + 1) : es[i] \in Event
      BY <1>1, ElementOfSeq
    <2>2. QED
      BY <1>1, <2>1
  <1>3. g \in [1..n -> Nat] /\ f \in [1..(n + 1) -> Nat]
    BY <1>1, <1>2, OneType
  <1>4. (\A i \in 1..n : g[i] = f[i + 1]) /\ f[1] = OneCompleted(Head(es), h)
    BY <1>1
  <1>5. Completed(es, h) = Total(f) /\ Completed(z, h) = Total(g)
    BY DEF Completed, OneCompleted
  <1> HIDE DEF f, g, n, z
  <1>6. QED
    BY <1>1, <1>3, <1>4, <1>5, TotalTail DEF z

-----------------------------------------------------------------------------
(* Slots of the controller *)

\* The counts of some of the connections have a sum.
LEMMA SentType ==
    ASSUME NEW s \in HciState, NEW S
    PROVE  /\ Sent(s, S) \in Nat
           /\ IsFiniteSet(s.conns \cap S)
           /\ [h \in s.conns \cap S |-> s.sent[h]] \in [s.conns \cap S -> Nat]
  <1>1. s.conns \subseteq Handles /\ s.sent \in [Handles -> Nat]
    BY DEF HciState
  <1>2. IsFiniteSet(s.conns \cap S)
    BY <1>1, HandleAssumption, FS_Subset
  <1>3. [h \in s.conns \cap S |-> s.sent[h]] \in [s.conns \cap S -> Nat]
    BY <1>1
  <1>4. QED
    BY <1>2, <1>3, TotalType DEF Sent

\* No connection of r counts more than it does in s.
Fewer(s, r) ==
    \A h \in r.conns : r.sent[h] = 0 \/ (h \in s.conns /\ r.sent[h] <= s.sent[h])

\* Then no sum does.
LEMMA SentFewer ==
    ASSUME NEW s \in HciState, NEW r \in HciState, Fewer(s, r), NEW S
    PROVE  Sent(r, S) <= Sent(s, S)
  <1> DEFINE C == s.conns \cap S
             D == r.conns \cap S
             f == [h \in C |-> s.sent[h]]
             g == [h \in D |-> r.sent[h]]
  <1>1. IsFiniteSet(C) /\ f \in [C -> Nat] /\ g \in [D -> Nat]
    BY SentType
  <1>2. \A h \in D : g[h] = 0 \/ (h \in C /\ g[h] <= f[h])
    BY DEF Fewer
  <1>3. Sent(r, S) = Total(g) /\ Sent(s, S) = Total(f)
    BY DEF Sent
  <1> HIDE DEF C, D, f, g
  <1>4. QED
    BY <1>1, <1>2, <1>3, TotalWithin

\* The assertions survive what takes nothing.
LEMMA SlotsFewer ==
    ASSUME NEW s \in HciState, NEW r \in HciState, leTotal \in Nat,
           Fewer(s, r), r.reserved <= s.reserved, SlotAssertions(s)
    PROVE  SlotAssertions(r)
  <1>1. /\ Sent(r, AclHandles) <= Sent(s, AclHandles)
        /\ Sent(r, LeHandles) <= Sent(s, LeHandles)
    BY SentFewer
  <1>2. /\ Sent(r, AclHandles) \in Nat /\ Sent(s, AclHandles) \in Nat
        /\ Sent(r, LeHandles) \in Nat /\ Sent(s, LeHandles) \in Nat
    BY SentType
  <1>3. AclTotal \in Nat /\ s.reserved \in Nat /\ r.reserved \in Nat
    BY TotalAssumption DEF HciState
  <1>4. QED
    BY <1>1, <1>2, <1>3 DEF SlotAssertions

\* One more packet of h in r
OneMore(s, r, h) ==
    /\ h \in s.conns /\ r.conns = s.conns /\ r.reserved = s.reserved
    /\ r.sent[h] = s.sent[h] + 1
    /\ \A x \in Handles : x # h => r.sent[x] = s.sent[x]

\* It is one more in the sum that h belongs to.
LEMMA SentOneMore ==
    ASSUME NEW s \in HciState, NEW r \in HciState, NEW h \in Handles,
           OneMore(s, r, h), NEW S
    PROVE  /\ h \in S => Sent(r, S) = Sent(s, S) + 1
           /\ h \notin S => Sent(r, S) = Sent(s, S)
  <1> DEFINE C == s.conns \cap S
             f == [x \in C |-> s.sent[x]]
             g == [x \in C |-> r.sent[x]]
  <1>1. IsFiniteSet(C) /\ f \in [C -> Nat] /\ g \in [C -> Nat]
    BY SentType DEF OneMore
  <1>2. Sent(r, S) = Total(g) /\ Sent(s, S) = Total(f)
    BY DEF Sent, OneMore
  <1>3. s.conns \subseteq Handles /\ s.sent[h] \in Nat
    BY DEF HciState
  <1>4. CASE h \in S
    <2>1. h \in C /\ g[h] = f[h] + 1 /\ f[h] \in Nat
      BY <1>3, <1>4 DEF OneMore
    <2>2. \A x \in C \ {h} : g[x] = f[x]
      BY <1>3 DEF OneMore
    <2>3. Total(f) \in Nat
      BY <1>1, TotalType
    <2> HIDE DEF C, f, g
    <2>4. Total(g) = Total(f) - f[h] + g[h]
      BY <1>1, <2>1, <2>2, TotalUpdate
    <2>5. QED
      BY <1>2, <1>4, <2>1, <2>3, <2>4
  <1>5. CASE h \notin S
    <2>1. f = g
      BY <1>3, <1>5 DEF OneMore
    <2>2. QED
      BY <1>2, <1>5, <2>1
  <1>6. QED
    BY <1>4, <1>5

\* The assertions survive a packet that there was a free slot for.
LEMMA SlotsSend ==
    ASSUME NEW s \in HciState, NEW r \in HciState, leTotal \in Nat,
           NEW h \in Handles, OneMore(s, r, h),
           FreeAclSlots(s, h \in LeHandles) > 0, SlotAssertions(s)
    PROVE  SlotAssertions(r)
  <1>1. /\ Sent(r, AclHandles) \in Nat /\ Sent(s, AclHandles) \in Nat
        /\ Sent(r, LeHandles) \in Nat /\ Sent(s, LeHandles) \in Nat
    BY SentType
  <1>2. /\ h \in AclHandles => Sent(r, AclHandles) = Sent(s, AclHandles) + 1
        /\ h \notin AclHandles => Sent(r, AclHandles) = Sent(s, AclHandles)
        /\ h \in LeHandles => Sent(r, LeHandles) = Sent(s, LeHandles) + 1
        /\ h \notin LeHandles => Sent(r, LeHandles) = Sent(s, LeHandles)
    BY SentOneMore
  <1>3. AclTotal \in Nat /\ s.reserved \in Nat /\ r.reserved = s.reserved
    BY TotalAssumption DEF HciState, OneMore
  <1>4. CASE h \in LeHandles
    <2>1. h \notin AclHandles
      BY <1>4, HandleAssumption
    <2>2. QED
      BY <1>1, <1>2, <1>3, <1>4, <2>1 DEF SlotAssertions, FreeAclSlots
  <1>5. CASE h \notin LeHandles
    <2>1. h \in AclHandles
      BY <1>5 DEF Handles
    <2>2. QED
      BY <1>1, <1>2, <1>3, <1>5, <2>1 DEF SlotAssertions, FreeAclSlots
  <1>6. QED
    BY <1>4, <1>5

-----------------------------------------------------------------------------
(* What sending does to the parts of the invariant *)

\* The types that Account needs
Typed(s, w, es, c) ==
    /\ s \in HciState /\ w \in Seq(Packet) /\ es \in Seq(Event)
    /\ DOMAIN c \subseteq Handles /\ c \in [DOMAIN c -> Nat]

\* The numbers that Account relates are natural numbers.
LEMMA AccountType ==
    ASSUME NEW s, NEW w, NEW es, NEW c, Typed(s, w, es, c), NEW h \in DOMAIN c
    PROVE  /\ s.sent[h] \in Nat /\ c[h] \in Nat /\ h \in Handles
           /\ Fragments(w, h) \in Nat /\ Completed(es, h) \in Nat
  BY FragmentsType, CompletedType DEF Typed, HciState

\* A fragment is counted by its connection when it is sent.
LEMMA AccountSend ==
    ASSUME NEW s, NEW r, NEW w, NEW es, NEW c, Typed(s, w, es, c),
           NEW p \in Packet, NEW h \in Handles, OneMore(s, r, h),
           p.type = "acl", p.handle = h, Account(s, w, es, c)
    PROVE  Account(r, Append(w, p), es, c)
  <1> SUFFICES ASSUME NEW x \in DOMAIN c
               PROVE  /\ x \in s.conns => r.sent[x] = Fragments(Append(w, p), x) + c[x]
                                                       + Completed(es, x)
                      /\ x \notin s.conns => Fragments(Append(w, p), x) = 0
    BY DEF Account, OneMore
  <1>1. Fragments(Append(w, p), x) = Fragments(w, x) + OneFragment(p, x)
    BY FragmentsAppend DEF Typed
  <1>2. /\ s.sent[x] \in Nat /\ c[x] \in Nat /\ x \in Handles
        /\ Fragments(w, x) \in Nat /\ Completed(es, x) \in Nat
    BY AccountType
  <1>3. /\ x \in s.conns => s.sent[x] = Fragments(w, x) + c[x] + Completed(es, x)
        /\ x \notin s.conns => Fragments(w, x) = 0
    BY DEF Account
  <1>4. CASE x = h
    <2>1. OneFragment(p, x) = 1 /\ r.sent[x] = s.sent[x] + 1 /\ x \in s.conns
      BY <1>4 DEF OneFragment, OneMore
    <2>2. QED
      BY <1>1, <1>2, <1>3, <2>1
  <1>5. CASE x # h
    <2>1. OneFragment(p, x) = 0 /\ r.sent[x] = s.sent[x]
      BY <1>2, <1>5 DEF OneFragment, OneMore
    <2>2. QED
      BY <1>1, <1>2, <1>3, <2>1
  <1>6. QED
    BY <1>4, <1>5

\* A command does not count.
LEMMA AccountCommand ==
    ASSUME NEW s, NEW r, NEW w, NEW es, NEW c, Typed(s, w, es, c),
           r.conns = s.conns, r.sent = s.sent, Account(s, w, es, c)
    PROVE  Account(r, Append(w, Command), es, c)
  <1>1. Command \in Packet /\ Command.type = "command"
    BY DEF Command, Packet
  <1>2. ASSUME NEW x \in DOMAIN c
        PROVE  Fragments(Append(w, Command), x) = Fragments(w, x)
    <2>1. Fragments(Append(w, Command), x) = Fragments(w, x) + OneFragment(Command, x)
      BY <1>1, FragmentsAppend DEF Typed
    <2>2. OneFragment(Command, x) = 0
      BY <1>1 DEF OneFragment
    <2>3. Fragments(w, x) \in Nat
      BY AccountType
    <2>4. QED
      BY <2>1, <2>2, <2>3
  <1>3. QED
    BY <1>2 DEF Account

\* The order does not change when the unfinished packet stays the same for
\* the open connections.
LEMMA OrderSame ==
    ASSUME NEW s, NEW r, NEW w, NEW D, NEW pa,
           Current(r) \cap D = Current(s) \cap D, Order(s, w, D, pa)
    PROVE  Order(r, w, D, pa)
  BY DEF Order

\* A packet is sent that continues what is in the buffer.
LEMMA OrderSend ==
    ASSUME NEW s, NEW r, NEW w \in Seq(Packet), NEW D, NEW pa, NEW p \in Packet,
           Continues(p) \cap D = Current(s) \cap D,
           Opens(p) \cap D = Current(r) \cap D, Order(s, w, D, pa)
    PROVE  Order(r, Append(w, p), D, pa)
  <1> DEFINE n == Len(w)
             z == Append(w, p)
  <1>1. n \in Nat /\ Len(z) = n + 1 /\ z # << >> /\ z[n + 1] = p
        /\ \A i \in 1..n : z[i] = w[i]
    OBVIOUS
  <1>2. w = << >> <=> n = 0
    OBVIOUS
  <1> HIDE DEF z, n
  <1>3. Continues(z[1]) \cap D = pa
    <2>1. CASE n = 0
      BY <1>1, <1>2, <2>1 DEF Order
    <2>2. CASE n # 0
      <3>1. z[1] = w[1] /\ w # << >>
        BY <1>1, <1>2, <2>2
      <3>2. QED
        BY <3>1 DEF Order
    <2>3. QED
      BY <2>1, <2>2
  <1>4. ASSUME NEW i \in 1..(Len(z) - 1)
        PROVE  Continues(z[i + 1]) \cap D = Opens(z[i]) \cap D
    <2>1. i \in 1..n /\ z[i] = w[i]
      BY <1>1, <1>4
    <2>2. CASE i = n
      <3>1. w # << >>
        BY <1>1, <1>2, <2>1
      <3>2. QED
        BY <1>1, <2>1, <2>2, <3>1 DEF Order, n
    <2>3. CASE i # n
      <3>1. i \in 1..(n - 1) /\ i + 1 \in 1..n
        BY <1>1, <2>1, <2>3
      <3>2. z[i + 1] = w[i + 1]
        BY <1>1, <3>1
      <3>3. Continues(w[i + 1]) \cap D = Opens(w[i]) \cap D
        BY <3>1 DEF Order, n
      <3>4. QED
        BY <2>1, <3>2, <3>3
    <2>4. QED
      BY <2>2, <2>3
  <1>5. Opens(z[Len(z)]) \cap D = Current(r) \cap D
    BY <1>1
  <1>6. QED
    BY <1>1, <1>3, <1>4, <1>5 DEF Order, z

\* The controller takes the first packet.
LEMMA OrderTake ==
    ASSUME NEW s, NEW w \in Seq(Packet), w # << >>, NEW D, NEW pa,
           Order(s, w, D, pa)
    PROVE  Order(s, Tail(w), D, Opens(Head(w)) \cap D)
  <1> DEFINE n == Len(w)
             z == Tail(w)
  <1>1. n \in Nat /\ n > 0 /\ Len(z) = n - 1 /\ Head(w) = w[1]
        /\ (z = << >> <=> n = 1)
        /\ \A i \in 1..(n - 1) : z[i] = w[i + 1]
    <2>1. /\ n \in Nat /\ n > 0 /\ z \in Seq(Packet) /\ Len(z) = n - 1 /\ Head(w) = w[1]
          /\ \A i \in 1..(n - 1) : z[i] = w[i + 1]
      OBVIOUS
    <2>2. z = << >> <=> Len(z) = 0
      BY <2>1, EmptySeq
    <2>3. QED
      BY <2>1, <2>2
  <1>2. \A i \in 1..(n - 1) : Continues(w[i + 1]) \cap D = Opens(w[i]) \cap D
    BY DEF Order
  <1>3. Opens(w[n]) \cap D = Current(s) \cap D
    BY DEF Order
  <1> HIDE DEF z, n
  <1>4. CASE n = 1
    BY <1>1, <1>3, <1>4 DEF Order, z
  <1>5. CASE n # 1
    <2>1. n - 1 \in 1..(n - 1) /\ 1 \in 1..(n - 1) /\ (n - 1) + 1 = n
      BY <1>1, <1>5
    <2>2. z[1] = w[2] /\ Continues(w[2]) \cap D = Opens(w[1]) \cap D
      BY <1>1, <1>2, <2>1
    <2>3. z[Len(z)] = w[n]
      BY <1>1, <2>1
    <2>4. ASSUME NEW i \in 1..(Len(z) - 1)
          PROVE  Continues(z[i + 1]) \cap D = Opens(z[i]) \cap D
      <3>1. i \in 1..(n - 1) /\ i + 1 \in 1..(n - 1)
        BY <1>1, <2>4
      <3>2. QED
        BY <1>1, <1>2, <3>1
    <2>5. QED
      BY <1>1, <1>3, <1>5, <2>2, <2>3, <2>4 DEF Order, z
  <1>6. QED
    BY <1>4, <1>5

\* A connection is closed.
LEMMA OrderClose ==
    ASSUME NEW s, NEW w, NEW D, NEW pa, NEW h, Order(s, w, D, pa)
    PROVE  Order(s, w, D \ {h}, pa \ {h})
  <1>1. \A X : X \cap (D \ {h}) = (X \cap D) \ {h}
    OBVIOUS
  <1>2. QED
    BY <1>1, Zenon DEF Order

\* A handle is used that nothing is under way for.
LEMMA OrderOpen ==
    ASSUME NEW s, NEW w \in Seq(Packet), NEW D, NEW pa, NEW h,
           h \notin Current(s),
           \A i \in DOMAIN w : w[i].type = "acl" => w[i].handle # h,
           Order(s, w, D, pa)
    PROVE  Order(s, w, D \cup {h}, pa)
  <1>1. \A X : h \notin X => X \cap (D \cup {h}) = X \cap D
    OBVIOUS
  <1>2. \A i \in 1..Len(w) : h \notin Continues(w[i]) /\ h \notin Opens(w[i])
    BY DEF Continues, Opens
  <1>3. Len(w) \in Nat /\ (w # << >> => 1 \in 1..Len(w) /\ Len(w) \in 1..Len(w))
    OBVIOUS
  <1>4. \A i \in 1..(Len(w) - 1) : i \in 1..Len(w) /\ i + 1 \in 1..Len(w)
    BY <1>3
  <1>5. QED
    BY <1>1, <1>2, <1>3, <1>4, Zenon DEF Order

-----------------------------------------------------------------------------
(* The operators on hci *)

\* The setting gives the types that the lemmas need.
LEMMA SettingTyped ==
    ASSUME NEW s \in HciState, NEW es, Setting(es)
    PROVE  /\ Typed(s, wire \o s.out, es, ctl) /\ leTotal \in Nat
           /\ wire \in Seq(Packet) /\ s.out \in Seq(Packet)
           /\ \A p \in Packet : /\ Append(s.out, p) \in Seq(Packet)
                                /\ wire \o Append(s.out, p) = Append(wire \o s.out, p)
  <1>1. s.out \in Seq(Packet) /\ wire \in Seq(Packet)
    BY DEF HciState, Setting
  <1>2. wire \o s.out \in Seq(Packet)
    BY <1>1
  <1>3. \A p \in Packet : /\ Append(s.out, p) \in Seq(Packet)
                          /\ wire \o Append(s.out, p) = Append(wire \o s.out, p)
    BY <1>1
  <1>4. QED
    BY <1>1, <1>2, <1>3 DEF Typed, Setting

\* A record whose next fragment may be sent
Ready(s, es, n, first) ==
    /\ s \in HciState /\ s.tasks <= n /\ s.buffer /\ s.left > 0
    /\ s.owner \in s.conns
    /\ SlotAssertions(s) /\ FreeAclSlots(s, s.owner \in LeHandles) > 0
    /\ Account(s, wire \o s.out, es, ctl)
    /\ \E q : /\ Current(q) = IF first THEN {} ELSE {s.owner}
              /\ Order(q, wire \o s.out, DOMAIN ctl, partial)

\* hci_send_acl_packet_fragments
LEMMA WorkSendFragment ==
    ASSUME NEW s, NEW es, NEW n, NEW first \in BOOLEAN,
           Setting(es), Ready(s, es, n, first)
    PROVE  Work(SendAclFragments(s, first), es, n)
           /\ Owned(SendAclFragments(s, first))
  <1> DEFINE r == SendAclFragments(s, first)
             h == s.owner
             p == [type |-> "acl", handle |-> h, first |-> first, last |-> s.left = 1]
             w == wire \o s.out
             D == DOMAIN ctl
  <1>1. s \in HciState /\ s.left \in 0..MaxFragments /\ s.left > 0 /\ h \in Handles
        /\ MaxFragments \in Nat
    BY FlowBoundAssumption DEF Ready, HciState
  <1>2. p \in Packet /\ p.type = "acl" /\ p.handle = h /\ p.first = first
        /\ p.last = (s.left = 1)
    BY <1>1 DEF Packet
  <1>3. /\ Typed(s, w, es, ctl) /\ leTotal \in Nat /\ w \in Seq(Packet)
        /\ Append(s.out, p) \in Seq(Packet)
        /\ wire \o Append(s.out, p) = Append(w, p)
    BY <1>1, <1>2, SettingTyped DEF Typed
  <1> HIDE DEF p, h
  <1>4. r \in HciState
    <2>1. sync \in BOOLEAN
      BY DEF Setting
    <2>2. s.left - 1 \in 0..MaxFragments /\ s.sent[h] + 1 \in Nat
      BY <1>1 DEF HciState
    <2>3. [s.sent EXCEPT ![h] = @ + 1] \in [Handles -> Nat]
      BY <1>1, <2>2 DEF HciState
    <2>4. r = [s EXCEPT !.sent = [s.sent EXCEPT ![h] = @ + 1], !.left = @ - 1,
                        !.active = ~sync, !.pending = TRUE, !.out = Append(@, p)]
      BY DEF SendAclFragments, p, h, HciState, Ready
    <2>5. QED
      BY <1>1, <1>3, <2>1, <2>2, <2>3, <2>4 DEF HciState
  <1>5. /\ r.conns = s.conns /\ r.reserved = s.reserved /\ r.tasks = s.tasks
        /\ r.buffer = s.buffer /\ r.owner = h /\ r.left = s.left - 1
        /\ r.out = Append(s.out, p)
        /\ r.sent = [s.sent EXCEPT ![h] = @ + 1]
    BY <1>1 DEF SendAclFragments, p, h, HciState
  <1> HIDE DEF r
  <1>6. OneMore(s, r, h)
    <2>1. s.sent \in [Handles -> Nat]
      BY <1>1 DEF HciState
    <2>2. QED
      BY <1>1, <1>5, <2>1 DEF OneMore, Ready, h
  <1>7. SlotAssertions(r)
    BY <1>1, <1>3, <1>4, <1>6, SlotsSend DEF Ready, h
  <1>8. Account(r, wire \o r.out, es, ctl)
    <2>1. Account(s, w, es, ctl)
      BY DEF Ready
    <2>2. Account(r, Append(w, p), es, ctl)
      BY <1>1, <1>2, <1>3, <1>6, <2>1, AccountSend
    <2>3. QED
      BY <1>3, <1>5, <2>2
  <1>9. Order(r, wire \o r.out, D, partial)
    <2>1. PICK q : /\ Current(q) = IF first THEN {} ELSE {h}
                   /\ Order(q, w, D, partial)
      BY DEF Ready, h
    <2>2. Continues(p) = Current(q)
      BY <1>2, <2>1 DEF Continues
    <2>3. Opens(p) = Current(r)
      <3>1. \/ s.left = 1 /\ r.left = 0 /\ ~(r.left > 0)
            \/ s.left # 1 /\ r.left > 0
        BY <1>1, <1>5
      <3>2. Opens(p) = IF s.left # 1 THEN {h} ELSE {}
        BY <1>2 DEF Opens
      <3>3. QED
        BY <1>5, <3>1, <3>2 DEF Current
    <2>4. Continues(p) \cap D = Current(q) \cap D /\ Opens(p) \cap D = Current(r) \cap D
      BY <2>2, <2>3
    <2>5. Order(r, Append(w, p), D, partial)
      BY <1>2, <1>3, <2>1, <2>4, OrderSend
    <2>6. QED
      BY <1>3, <1>5, <2>5
  <1>10. r.tasks <= n /\ Held(r) /\ Owned(r)
    BY <1>5 DEF Ready, Held, Owned, h
  <1>11. QED
    BY <1>4, <1>7, <1>8, <1>9, <1>10 DEF Work, r

\* hci_run_acl_fragments: the packet of a connection that is closed on both
\* sides is dropped.
LEMMA WorkRunFragments ==
    ASSUME NEW s, NEW es, NEW n, Setting(es), Work(s, es, n), s.left > 0,
           s.owner \in s.conns \/ s.owner \notin DOMAIN ctl
    PROVE  Work(RunAclFragments(s), es, n) /\ Owned(RunAclFragments(s))
  <1> DEFINE r == RunAclFragments(s)
  <1>0. s \in HciState
    BY DEF Work
  <1>1. CASE s.owner \notin s.conns
    <2>1. r = [s EXCEPT !.left = 0]
      BY <1>1 DEF RunAclFragments
    <2>0. 0 \in 0..MaxFragments
      BY FlowBoundAssumption
    <2>2. r \in HciState
      BY <1>0, <2>0, <2>1 DEF HciState
    <2>3. /\ r.conns = s.conns /\ r.reserved = s.reserved /\ r.tasks = s.tasks
          /\ r.out = s.out /\ r.sent = s.sent /\ r.left = 0
      BY <1>0, <2>1 DEF HciState
    <2> HIDE DEF r
    <2>4. Current(r) \cap DOMAIN ctl = Current(s) \cap DOMAIN ctl
      BY <1>1, <2>3 DEF Current
    <2>5. Order(r, wire \o r.out, DOMAIN ctl, partial)
      BY <2>3, <2>4, OrderSame DEF Work
    <2>6. SlotAssertions(r) /\ Account(r, wire \o r.out, es, ctl)
      BY <2>3 DEF Work, SlotAssertions, Account, Sent
    <2>7. QED
      BY <2>2, <2>3, <2>5, <2>6 DEF Work, Held, Owned, r
  <1>2. CASE s.owner \in s.conns /\ CanSendPreparedAcl(s, s.owner)
    <2>1. Current(s) = {s.owner}
      BY DEF Current
    <2>2. Ready(s, es, n, FALSE)
      BY <1>0, <1>2, <2>1 DEF Ready, Work, Held, CanSendPreparedAcl
    <2>3. QED
      BY <1>2, <2>2, WorkSendFragment DEF RunAclFragments
  <1>3. CASE s.owner \in s.conns /\ ~CanSendPreparedAcl(s, s.owner)
    BY <1>3 DEF RunAclFragments, Owned
  <1>4. QED
    BY <1>1, <1>2, <1>3

\* r differs from s in nothing that the slots, counts and packets depend on.
SameFlow(s, r) ==
    /\ r.conns = s.conns /\ r.sent = s.sent /\ r.reserved = s.reserved
    /\ r.out = s.out
    /\ Current(r) \cap DOMAIN ctl = Current(s) \cap DOMAIN ctl

\* Then r is as good as s.
LEMMA WorkSame ==
    ASSUME NEW s, NEW r \in HciState, NEW es, NEW m, NEW n,
           Work(s, es, m), SameFlow(s, r), r.tasks <= n, Held(r)
    PROVE  Work(r, es, n)
  <1>1. SlotAssertions(r) /\ Account(r, wire \o r.out, es, ctl)
    BY DEF Work, SlotAssertions, Account, Sent, SameFlow
  <1>2. Order(r, wire \o r.out, DOMAIN ctl, partial)
    BY OrderSame DEF Work, SameFlow
  <1>3. QED
    BY <1>1, <1>2 DEF Work

\* hci_send_cmd from hci_run
LEMMA WorkSendCmd ==
    ASSUME NEW s, NEW es, NEW n \in Int, Setting(es), Work(s, es, n),
           s.tasks # 0, CanSendCommand(s)
    PROVE  LET r == [SendCmd(s) EXCEPT !.tasks = @ - 1]
           IN  Work(r, es, n) /\ Owned(r)
  <1> DEFINE r == [SendCmd(s) EXCEPT !.tasks = @ - 1]
             w == wire \o s.out
             D == DOMAIN ctl
  <1>0. s \in HciState /\ ~s.buffer /\ s.cmds > 0
    BY DEF Work, CanSendCommand
  <1>1. /\ s.tasks \in 0..MaxSends /\ s.left \in 0..MaxFragments /\ s.cmds \in 0..1
        /\ s.left = 0 /\ s.tasks - 1 \in 0..MaxSends /\ s.tasks - 1 <= s.tasks
        /\ s.cmds - 1 \in 0..1
    <2>1. /\ s.tasks \in 0..MaxSends /\ s.left \in 0..MaxFragments /\ s.cmds \in 0..1
      BY <1>0 DEF HciState
    <2>2. ~(s.left > 0)
      BY <1>0 DEF Work, Held
    <2>3. QED
      BY <1>0, <2>1, <2>2, FlowBoundAssumption
  <1>2. Command \in Packet /\ Command.type = "command"
    BY DEF Command, Packet
  <1>3. /\ Typed(s, w, es, ctl) /\ leTotal \in Nat /\ w \in Seq(Packet)
        /\ Append(s.out, Command) \in Seq(Packet)
        /\ wire \o Append(s.out, Command) = Append(w, Command)
    BY <1>0, <1>2, SettingTyped DEF Typed
  <1>4. r = [s EXCEPT !.buffer = TRUE, !.cmds = @ - 1, !.pending = TRUE,
                      !.out = Append(@, Command), !.tasks = @ - 1]
    BY <1>0 DEF SendCmd, HciState
  <1>5. r \in HciState
    BY <1>0, <1>1, <1>3, <1>4 DEF HciState
  <1>6. /\ r.conns = s.conns /\ r.sent = s.sent /\ r.reserved = s.reserved
        /\ r.left = 0 /\ r.out = Append(s.out, Command) /\ r.tasks = s.tasks - 1
    BY <1>0, <1>1, <1>4 DEF HciState
  <1> HIDE DEF r
  <1>7. Account(r, wire \o r.out, es, ctl)
    <2>1. Account(r, Append(w, Command), es, ctl)
      BY <1>3, <1>6, AccountCommand DEF Work
    <2>2. QED
      BY <1>3, <1>6, <2>1
  <1>8. Order(r, wire \o r.out, D, partial)
    <2>1. Current(s) = {} /\ Current(r) = {} /\ Continues(Command) = {} /\ Opens(Command) = {}
      BY <1>1, <1>2, <1>6 DEF Current, Continues, Opens
    <2>2. Order(s, w, D, partial)
      BY DEF Work
    <2>3. Order(r, Append(w, Command), D, partial)
      BY <1>2, <1>3, <2>1, <2>2, OrderSend
    <2>4. QED
      BY <1>3, <1>6, <2>3
  <1>9. SlotAssertions(r)
    BY <1>6 DEF Work, SlotAssertions, Sent
  <1>10. r.tasks <= n
    <2>1. s.tasks <= n
      BY DEF Work
    <2>2. QED
      BY <1>1, <1>6, <2>1
  <1>11. Held(r) /\ Owned(r)
    BY <1>6 DEF Held, Owned
  <1>12. QED
    BY <1>5, <1>7, <1>8, <1>9, <1>10, <1>11 DEF Work, r

\* hci_run
LEMMA WorkRun ==
    ASSUME NEW s, NEW es, NEW n \in Int, Setting(es), Work(s, es, n),
           s.left > 0 => s.owner \in s.conns \/ s.owner \notin DOMAIN ctl
    PROVE  Work(HciRun(s), es, n) /\ Owned(HciRun(s))
  <1> DEFINE f == IF s.left > 0 THEN RunAclFragments(s) ELSE s
  <1>1. Work(f, es, n) /\ Owned(f)
    BY WorkRunFragments DEF Owned
  <1>2. HciRun(s) = IF f.out # s.out \/ f.tasks = 0 \/ ~CanSendCommand(f) THEN f
                    ELSE [SendCmd(f) EXCEPT !.tasks = @ - 1]
    BY DEF HciRun
  <1> HIDE DEF f
  <1>3. CASE f.out # s.out \/ f.tasks = 0 \/ ~CanSendCommand(f)
    BY <1>1, <1>2, <1>3
  <1>4. CASE ~(f.out # s.out \/ f.tasks = 0 \/ ~CanSendCommand(f))
    BY <1>1, <1>2, <1>4, WorkSendCmd
  <1>5. QED
    BY <1>3, <1>4

\* hci_shutdown_connection, for connections that the controller has closed
LEMMA WorkShutdown ==
    ASSUME NEW s, NEW es, NEW n, Setting(es), Work(s, es, n), Owned(s),
           NEW gone, gone \cap DOMAIN ctl = {}
    PROVE  LET r == ShutdownConnection(s, gone)
           IN  /\ Work(r, es, n)
               /\ r.left > 0 => r.owner \in r.conns \/ r.owner \notin DOMAIN ctl
  <1> DEFINE t == [h \in Handles |-> IF h \in gone THEN 0 ELSE s.sent[h]]
             r == ShutdownConnection(s, gone)
  <1>0. s \in HciState
    BY DEF Work
  <1>1. t \in [Handles -> Nat] /\ s.conns \ gone \in SUBSET Handles
    BY <1>0 DEF HciState
  <1>2. /\ r = [s EXCEPT !.conns = @ \ gone, !.sent = t]
    BY DEF ShutdownConnection
  <1> HIDE DEF t
  <1>3. r \in HciState
    BY <1>0, <1>1, <1>2 DEF HciState
  <1>4. /\ r.conns = s.conns \ gone /\ r.sent = t /\ r.reserved = s.reserved
        /\ r.out = s.out /\ r.left = s.left /\ r.owner = s.owner
        /\ r.tasks = s.tasks /\ r.buffer = s.buffer
    BY <1>0, <1>2 DEF HciState
  <1> HIDE DEF r
  <1>5. Fewer(s, r)
    <2>1. \A h \in s.conns : h \in Handles /\ s.sent[h] \in Nat
      BY <1>0 DEF HciState
    <2>2. QED
      BY <1>4, <2>1 DEF Fewer, t
  <1>6. SlotAssertions(r)
    <2>1. r.reserved <= s.reserved /\ leTotal \in Nat
      BY <1>0, <1>4 DEF HciState, Setting
    <2>2. QED
      BY <1>0, <1>3, <1>5, <2>1, SlotsFewer DEF Work
  <1>7. Account(r, wire \o r.out, es, ctl)
    <2>1. \A h \in DOMAIN ctl : (h \in r.conns <=> h \in s.conns) /\ r.sent[h] = s.sent[h]
      BY <1>4 DEF t, Setting
    <2>2. QED
      BY <1>4, <2>1 DEF Account, Work
  <1>8. Order(r, wire \o r.out, DOMAIN ctl, partial)
    <2>1. Current(r) = Current(s)
      BY <1>4 DEF Current
    <2>2. QED
      BY <1>4, <2>1, OrderSame DEF Work
  <1>9. Held(r) /\ r.tasks <= n
    BY <1>4 DEF Work, Held
  <1>10. r.left > 0 => r.owner \in r.conns \/ r.owner \notin DOMAIN ctl
    BY <1>4 DEF Owned
  <1>11. QED
    BY <1>3, <1>6, <1>7, <1>8, <1>9, <1>10 DEF Work, r

\* An upper layer sends a packet or asks for a command.
LEMMA WorkUpper ==
    ASSUME NEW s, NEW es, NEW n \in Int, Setting(es), Work(s, es, n), Owned(s),
           n < MaxSends, NEW u \in Upper(s)
    PROVE  Work(u, es, n + 1) /\ Owned(u)
  <1>0. s \in HciState
    BY DEF Work
  <1>1. CASE \E h \in Handles, k \in 1..MaxFragments :
                CanSendAcl(s, h) /\ u = SendAclPacketBuffer(s, h, k)
    <2>1. PICK h \in Handles, k \in 1..MaxFragments :
                CanSendAcl(s, h) /\ u = SendAclPacketBuffer(s, h, k)
      BY <1>1
    <2> DEFINE q == [s EXCEPT !.buffer = TRUE, !.owner = h, !.left = k]
    <2>2. ~s.buffer /\ h \in s.conns /\ FreeAclSlots(s, h \in LeHandles) > 0
      BY <2>1 DEF CanSendAcl, CanSendPreparedAcl
    <2>3. k \in 0..MaxFragments /\ k > 0
      BY FlowBoundAssumption
    <2>4. q \in HciState
      BY <1>0, <2>3 DEF HciState
    <2>5. /\ q.conns = s.conns /\ q.sent = s.sent /\ q.reserved = s.reserved
          /\ q.out = s.out /\ q.owner = h /\ q.left = k /\ q.buffer /\ q.tasks = s.tasks
      BY <1>0 DEF HciState
    <2> HIDE DEF q
    <2>6. SlotAssertions(q) /\ FreeAclSlots(q, q.owner \in LeHandles) > 0
          /\ Account(q, wire \o q.out, es, ctl)
      BY <2>2, <2>5 DEF Work, SlotAssertions, FreeAclSlots, Sent, Account
    <2>7. Current(s) = {} /\ Order(s, wire \o q.out, DOMAIN ctl, partial)
      BY <2>2, <2>5 DEF Work, Held, Current
    <2>8. q.tasks <= n + 1
      <3>1. s.tasks \in Int /\ s.tasks <= n
        BY <1>0, FlowBoundAssumption DEF Work, HciState
      <3>2. QED
        BY <2>5, <3>1
    <2>9. Ready(q, es, n + 1, TRUE)
      BY <2>2, <2>3, <2>4, <2>5, <2>6, <2>7, <2>8 DEF Ready
    <2>10. u = SendAclFragments(q, TRUE)
      BY <2>1 DEF SendAclPacketBuffer, q
    <2>11. QED
      BY <2>9, <2>10, WorkSendFragment
  <1>2. CASE u = [s EXCEPT !.tasks = @ + 1]
    <2>1. s.tasks \in 0..MaxSends /\ s.tasks <= n
      BY <1>0 DEF Work, HciState
    <2>2. s.tasks + 1 \in 0..MaxSends /\ s.tasks + 1 <= n + 1
      BY <2>1, FlowBoundAssumption
    <2>3. u \in HciState
      BY <1>0, <1>2, <2>2 DEF HciState
    <2>4. /\ u.conns = s.conns /\ u.sent = s.sent /\ u.reserved = s.reserved
          /\ u.out = s.out /\ u.left = s.left /\ u.owner = s.owner
          /\ u.buffer = s.buffer /\ u.tasks = s.tasks + 1
      BY <1>0, <1>2 DEF HciState
    <2>5. SameFlow(s, u) /\ Held(u) /\ Owned(u)
      BY <2>4 DEF SameFlow, Current, Held, Owned, Work
    <2>6. QED
      BY <2>2, <2>3, <2>4, <2>5, WorkSame
  <1>3. QED
    BY <1>1, <1>2 DEF Upper

-----------------------------------------------------------------------------
(* The handlers of events *)

\* What the handler of e does to the connections that the controller has open
Handled(s, r, e, c) ==
    \A x \in DOMAIN c :
        /\ x \in r.conns <=> x \in s.conns \/ Connects(e, x)
        /\ x \in s.conns => r.sent[x] = s.sent[x] - OneCompleted(e, x)
        /\ x \in r.conns /\ x \notin s.conns => r.sent[x] = 0

\* The counts agree with the remaining events after the handler of the first.
LEMMA AccountHandled ==
    ASSUME NEW s, NEW r, NEW w, NEW es, NEW c, Typed(s, w, es, c), es # << >>,
           Handled(s, r, Head(es), c), Account(s, w, es, c)
    PROVE  Account(r, w, Tail(es), c)
  <1> DEFINE e == Head(es)
             z == Tail(es)
  <1>1. /\ 1 \in DOMAIN es /\ es[1] = e /\ e \in Event /\ z \in Seq(Event)
        /\ \A i \in DOMAIN z : i + 1 \in DOMAIN es /\ z[i] = es[i + 1] /\ i + 1 # 1 /\ i \in Int
    BY DEF Typed
  <1> SUFFICES ASSUME NEW x \in DOMAIN c
               PROVE  /\ \A i \in DOMAIN z : ~(z[i].type = "disconnected" /\ z[i].handle = x)
                      /\ \A i, j \in DOMAIN z :
                            Connects(z[i], x) /\ Connects(z[j], x) => i = j
                      /\ x \in r.conns =>
                            /\ \A i \in DOMAIN z : ~Connects(z[i], x)
                            /\ r.sent[x] = Fragments(w, x) + c[x] + Completed(z, x)
                      /\ x \notin r.conns =>
                            Fragments(w, x) = 0 /\ c[x] = 0 /\ Completed(z, x) = 0
    BY DEF Account
  <1>2. Completed(es, x) = OneCompleted(e, x) + Completed(z, x)
    BY CompletedTail DEF Typed
  <1>3. /\ s.sent[x] \in Nat /\ c[x] \in Nat /\ Fragments(w, x) \in Nat
        /\ Completed(z, x) \in Nat /\ OneCompleted(e, x) \in Nat
    BY <1>1, AccountType, CompletedType, OneType
  <1>4. /\ \A i \in DOMAIN es : ~(es[i].type = "disconnected" /\ es[i].handle = x)
        /\ \A i, j \in DOMAIN es : Connects(es[i], x) /\ Connects(es[j], x) => i = j
    BY DEF Account
  <1>5. /\ x \in s.conns => /\ \A i \in DOMAIN es : ~Connects(es[i], x)
                            /\ s.sent[x] = Fragments(w, x) + c[x] + Completed(es, x)
        /\ x \notin s.conns => Fragments(w, x) = 0 /\ c[x] = 0 /\ Completed(es, x) = 0
    BY DEF Account
  <1>6. /\ x \in r.conns <=> x \in s.conns \/ Connects(e, x)
        /\ x \in s.conns => r.sent[x] = s.sent[x] - OneCompleted(e, x)
        /\ x \in r.conns /\ x \notin s.conns => r.sent[x] = 0
    BY DEF Handled
  <1> HIDE DEF e, z
  <1>7. /\ \A i \in DOMAIN z : ~(z[i].type = "disconnected" /\ z[i].handle = x)
        /\ \A i, j \in DOMAIN z : Connects(z[i], x) /\ Connects(z[j], x) => i = j
    <2>1. \A i, j \in DOMAIN z : i + 1 = j + 1 => i = j
      BY <1>1
    <2>2. QED
      BY <1>1, <1>4, <2>1
  <1>8. CASE x \in s.conns
    <2>1. r.sent[x] = Fragments(w, x) + c[x] + Completed(z, x)
      BY <1>2, <1>3, <1>5, <1>6, <1>8
    <2>2. QED
      BY <1>1, <1>5, <1>6, <1>7, <1>8, <2>1
  <1>9. CASE x \notin s.conns
    <2>1. Fragments(w, x) = 0 /\ c[x] = 0 /\ Completed(z, x) = 0
      BY <1>2, <1>3, <1>5, <1>9
    <2>2. x \in r.conns => \A i \in DOMAIN z : ~Connects(z[i], x)
      BY <1>1, <1>4, <1>6, <1>9
    <2>3. x \in r.conns => r.sent[x] = Fragments(w, x) + c[x] + Completed(z, x)
      BY <1>6, <1>9, <2>1
    <2>4. QED
      BY <1>7, <2>1, <2>2, <2>3
  <1>10. QED
    BY <1>8, <1>9

\* What every handler of an event does
HandledWork(s, r, es) ==
    /\ r \in HciState /\ r.reserved = s.reserved /\ r.out = s.out
    /\ r.tasks = s.tasks /\ Held(r) /\ Owned(r)
    /\ Fewer(s, r) /\ Handled(s, r, Head(es), ctl)
    /\ Current(r) \cap DOMAIN ctl = Current(s) \cap DOMAIN ctl

\* The first event is handled.
LEMMA WorkHandled ==
    ASSUME NEW s, NEW r, NEW es, NEW n, Setting(es), es # << >>,
           Work(s, es, n), HandledWork(s, r, es)
    PROVE  Work(r, Tail(es), n)
  <1>0. s \in HciState /\ r \in HciState
    BY DEF Work, HandledWork
  <1>1. SlotAssertions(r)
    <2>1. r.reserved <= s.reserved /\ leTotal \in Nat
      BY <1>0 DEF HciState, Setting, HandledWork
    <2>2. QED
      BY <1>0, <2>1, SlotsFewer DEF Work, HandledWork
  <1>2. Account(r, wire \o r.out, Tail(es), ctl)
    <2>1. Typed(s, wire \o s.out, es, ctl)
      BY <1>0, SettingTyped
    <2>2. Account(r, wire \o s.out, Tail(es), ctl)
      BY <2>1, AccountHandled DEF Work, HandledWork
    <2>3. QED
      BY <2>2 DEF HandledWork
  <1>3. Order(r, wire \o r.out, DOMAIN ctl, partial)
    BY OrderSame DEF Work, HandledWork
  <1>4. QED
    BY <1>0, <1>1, <1>2, <1>3 DEF Work, HandledWork

\* The first event, its type and what Account says about it
LEMMA FirstEvent ==
    ASSUME NEW s, NEW es, NEW n, Setting(es), es # << >>, Work(s, es, n)
    PROVE  /\ Head(es) \in Event /\ Tail(es) \in Seq(Event) /\ 1 \in DOMAIN es
           /\ Head(es) = es[1] /\ Setting(Tail(es))
  BY DEF Setting

\* hci_handle_number_of_completed_packets: the count is never too small.
LEMMA HandleCompleted ==
    ASSUME NEW s, NEW es, NEW n, Setting(es), es # << >>, Work(s, es, n), Owned(s),
           Head(es).type = "completed"
    PROVE  HandledWork(s, NumberOfCompletedPackets(s, Head(es).handle, Head(es).n), es)
  <1> DEFINE e == Head(es)
             h == e.handle
             k == e.n
             r == NumberOfCompletedPackets(s, h, k)
  <1>0. s \in HciState
    BY DEF Work
  <1>1. h \in Handles /\ k \in Nat
    BY FirstEvent DEF Event
  <1>2. \A x \in DOMAIN ctl : x \in s.conns => s.sent[x] >= OneCompleted(e, x)
    <2> SUFFICES ASSUME NEW x \in DOMAIN ctl, x \in s.conns
                 PROVE  s.sent[x] >= OneCompleted(e, x)
      OBVIOUS
    <2>1. Typed(s, wire \o s.out, es, ctl)
      BY <1>0, SettingTyped
    <2>2. /\ Completed(es, x) = OneCompleted(e, x) + Completed(Tail(es), x)
          /\ OneCompleted(e, x) \in Nat /\ Completed(Tail(es), x) \in Nat
      BY FirstEvent, CompletedTail, OneType, CompletedType DEF Setting
    <2>3. /\ Fragments(wire \o s.out, x) \in Nat /\ ctl[x] \in Nat
      BY <2>1, AccountType
    <2>4. s.sent[x] = Fragments(wire \o s.out, x) + ctl[x] + Completed(es, x)
      BY DEF Work, Account
    <2>5. QED
      BY <2>2, <2>3, <2>4
  <1>3. \A x \in Handles : s.sent[x] \in Nat
    BY <1>0 DEF HciState
  <1>4. \A x : ~Connects(e, x)
    BY DEF Connects
  <1>5. CASE h \notin s.conns
    <2>1. r = s
      BY <1>5 DEF NumberOfCompletedPackets
    <2>2. \A x \in DOMAIN ctl : x \in s.conns => x \in Handles /\ OneCompleted(e, x) = 0
      BY <1>5 DEF OneCompleted, Setting
    <2>3. Handled(s, s, e, ctl)
      BY <1>3, <1>4, <2>2 DEF Handled
    <2>4. Fewer(s, s)
      <3>1. \A x \in s.conns : s.sent[x] \in Nat
        BY <1>0 DEF HciState
      <3>2. QED
        BY <3>1 DEF Fewer
    <2>5. QED
      BY <1>0, <2>1, <2>3, <2>4 DEF HandledWork, Work
  <1>6. CASE h \in s.conns
    <2> DEFINE m == IF s.sent[h] >= k THEN s.sent[h] - k ELSE 0
    <2>1. m \in Nat /\ m <= s.sent[h]
      BY <1>1, <1>3
    <2>2. h \in DOMAIN ctl => m = s.sent[h] - OneCompleted(e, h)
      BY <1>1, <1>2, <1>3, <1>6 DEF OneCompleted
    <2>3. r = [s EXCEPT !.sent = [s.sent EXCEPT ![h] = m]]
      BY <1>0, <1>6 DEF NumberOfCompletedPackets, HciState
    <2> HIDE DEF m
    <2>4. /\ r \in HciState /\ r.sent = [s.sent EXCEPT ![h] = m]
      <3> DEFINE t == [s.sent EXCEPT ![h] = m]
      <3>1. t \in [Handles -> Nat]
        BY <1>0, <2>1 DEF HciState
      <3>2. r = [s EXCEPT !.sent = t]
        BY <2>3
      <3> HIDE DEF t
      <3>3. r \in HciState /\ r.sent = t
        BY <1>0, <3>1, <3>2 DEF HciState
      <3>4. QED
        BY <3>3 DEF t
    <2>5. /\ r.conns = s.conns /\ r.reserved = s.reserved /\ r.out = s.out
          /\ r.tasks = s.tasks /\ r.left = s.left /\ r.owner = s.owner /\ r.buffer = s.buffer
      BY <1>0, <2>3 DEF HciState
    <2> HIDE DEF r
    <2>6. \A x \in Handles : r.sent[x] = IF x = h THEN m ELSE s.sent[x]
      BY <1>0, <2>4 DEF HciState
    <2>7. Fewer(s, r)
      <3>1. s.conns \subseteq Handles
        BY <1>0 DEF HciState
      <3>2. \A x \in s.conns : r.sent[x] <= s.sent[x]
        BY <1>3, <2>1, <2>6, <3>1
      <3>3. QED
        BY <2>5, <3>2 DEF Fewer
    <2>8. Handled(s, r, e, ctl)
      <3>1. \A x \in DOMAIN ctl : x \in Handles /\ (x # h => OneCompleted(e, x) = 0)
        BY DEF Setting, OneCompleted
      <3>2. \A x \in DOMAIN ctl : x \in s.conns => r.sent[x] = s.sent[x] - OneCompleted(e, x)
        BY <1>3, <2>2, <2>6, <3>1
      <3>3. QED
        BY <1>4, <2>5, <3>2 DEF Handled
    <2>9. QED
      BY <2>4, <2>5, <2>7, <2>8 DEF HandledWork, Work, Held, Owned, Current, r
  <1>7. QED
    BY <1>5, <1>6

\* hci_handle_disconnection_complete_event
LEMMA HandleDisconnected ==
    ASSUME NEW s, NEW es, NEW n, Setting(es), es # << >>, Work(s, es, n), Owned(s),
           Head(es).type = "disconnected"
    PROVE  /\ HandledWork(s, DisconnectionComplete(s, Head(es).handle), es)
           /\ Head(es).handle \notin DOMAIN ctl
  <1> DEFINE e == Head(es)
             h == e.handle
             r == DisconnectionComplete(s, h)
             drop == s.left > 0 /\ s.owner = h
             left == IF drop THEN 0 ELSE s.left
             buffer == s.buffer /\ ~(drop /\ ~s.active)
  <1>0. s \in HciState
    BY DEF Work
  <1>1. h \in Handles
    BY FirstEvent DEF Event
  <1>2. h \notin DOMAIN ctl
    BY FirstEvent DEF Work, Account
  <1>3. r = [s EXCEPT !.left = left, !.buffer = buffer, !.sent = [s.sent EXCEPT ![h] = 0]]
    BY <1>0 DEF DisconnectionComplete, HciState
  <1>4. left \in 0..MaxFragments /\ buffer \in BOOLEAN
    <2>1. 0 \in 0..MaxFragments /\ s.left \in 0..MaxFragments
      BY <1>0, FlowBoundAssumption DEF HciState
    <2>2. QED
      BY <2>1
  <1>5. left > 0 => s.left = left /\ ~drop /\ (s.buffer => buffer)
    OBVIOUS
  <1>6. left > 0 <=> s.left > 0 /\ s.owner # h
    OBVIOUS
  <1> HIDE DEF left, buffer, drop
  <1>7. /\ r \in HciState /\ r.sent = [s.sent EXCEPT ![h] = 0]
        /\ r.left = left /\ r.buffer = buffer
    <2> DEFINE t == [s.sent EXCEPT ![h] = 0]
    <2>1. t \in [Handles -> Nat]
      BY <1>0 DEF HciState
    <2>2. r = [s EXCEPT !.left = left, !.buffer = buffer, !.sent = t]
      BY <1>3
    <2> HIDE DEF t
    <2>3. r \in HciState /\ r.sent = t /\ r.left = left /\ r.buffer = buffer
      BY <1>0, <1>4, <2>1, <2>2 DEF HciState
    <2>4. QED
      BY <2>3 DEF t
  <1>8. /\ r.conns = s.conns /\ r.reserved = s.reserved /\ r.out = s.out
        /\ r.tasks = s.tasks /\ r.owner = s.owner
    BY <1>0, <1>3 DEF HciState
  <1> HIDE DEF r
  <1>9. \A x \in Handles : r.sent[x] = (IF x = h THEN 0 ELSE s.sent[x]) /\ s.sent[x] \in Nat
    BY <1>0, <1>7 DEF HciState
  <1>10. Fewer(s, r)
    <2>1. s.conns \subseteq Handles
      BY <1>0 DEF HciState
    <2>2. QED
      BY <1>8, <1>9, <2>1 DEF Fewer
  <1>11. Handled(s, r, e, ctl)
    <2>1. \A x : ~Connects(e, x) /\ OneCompleted(e, x) = 0
      BY DEF Connects, OneCompleted
    <2>2. \A x \in DOMAIN ctl : x \in Handles /\ x # h
      BY <1>2 DEF Setting
    <2>3. QED
      BY <1>8, <1>9, <2>1, <2>2 DEF Handled
  <1>12. Current(r) \cap DOMAIN ctl = Current(s) \cap DOMAIN ctl
    BY <1>2, <1>6, <1>7, <1>8 DEF Current
  <1>13. Held(r) /\ Owned(r)
    BY <1>5, <1>6, <1>7, <1>8 DEF Work, Held, Owned
  <1>14. QED
    BY <1>2, <1>7, <1>8, <1>10, <1>11, <1>12, <1>13 DEF HandledWork, r

\* handle_connection_complete: the host gets to know the connection.
LEMMA HandleConnected ==
    ASSUME NEW s, NEW es, NEW n, Setting(es), es # << >>, Work(s, es, n), Owned(s),
           Head(es).type = "connected"
    PROVE  HandledWork(s, ConnectionComplete(s, Head(es).handle), es)
  <1> DEFINE e == Head(es)
             h == e.handle
             r == ConnectionComplete(s, h)
  <1>0. s \in HciState
    BY DEF Work
  <1>1. h \in Handles
    BY FirstEvent DEF Event
  <1>2. h \in DOMAIN ctl => h \notin s.conns
    <2>1. Connects(es[1], h) /\ 1 \in DOMAIN es
      BY FirstEvent DEF Connects
    <2>2. QED
      BY <2>1 DEF Work, Account
  <1>3. r = [s EXCEPT !.conns = @ \cup {h}, !.sent = [s.sent EXCEPT ![h] = 0]]
    BY <1>0 DEF ConnectionComplete, HciState
  <1>7. /\ r \in HciState /\ r.sent = [s.sent EXCEPT ![h] = 0]
        /\ r.conns = s.conns \cup {h}
    <2> DEFINE t == [s.sent EXCEPT ![h] = 0]
               C == s.conns \cup {h}
    <2>1. t \in [Handles -> Nat] /\ C \in SUBSET Handles
      BY <1>0, <1>1 DEF HciState
    <2>2. r = [s EXCEPT !.conns = C, !.sent = t]
      BY <1>3
    <2> HIDE DEF t, C
    <2>3. r \in HciState /\ r.sent = t /\ r.conns = C
      BY <1>0, <2>1, <2>2 DEF HciState
    <2>4. QED
      BY <2>3 DEF t, C
  <1>8. /\ r.reserved = s.reserved /\ r.out = s.out /\ r.left = s.left
        /\ r.tasks = s.tasks /\ r.owner = s.owner /\ r.buffer = s.buffer
    BY <1>0, <1>3 DEF HciState
  <1> HIDE DEF r
  <1>9. \A x \in Handles : r.sent[x] = (IF x = h THEN 0 ELSE s.sent[x]) /\ s.sent[x] \in Nat
    BY <1>0, <1>7 DEF HciState
  <1>10. Fewer(s, r)
    <2>1. s.conns \subseteq Handles
      BY <1>0 DEF HciState
    <2>2. QED
      BY <1>1, <1>7, <1>9, <2>1 DEF Fewer
  <1>11. Handled(s, r, e, ctl)
    <2>1. \A x : (Connects(e, x) <=> x = h) /\ OneCompleted(e, x) = 0
      BY DEF Connects, OneCompleted
    <2>2. \A x \in DOMAIN ctl : x \in Handles /\ (x \in s.conns => x # h)
      BY <1>2 DEF Setting
    <2>3. QED
      BY <1>7, <1>9, <2>1, <2>2 DEF Handled
  <1>12. QED
    BY <1>7, <1>8, <1>10, <1>11 DEF HandledWork, Current, Work, Held, Owned, r

\* handle_command_complete_event
LEMMA HandleCommandEvent ==
    ASSUME NEW s, NEW es, NEW n, Setting(es), es # << >>, Work(s, es, n), Owned(s),
           Head(es).type = "command"
    PROVE  HandledWork(s, CommandComplete(s, Head(es).n), es)
  <1> DEFINE e == Head(es)
             r == CommandComplete(s, e.n)
             k == IF e.n > 0 THEN 1 ELSE 0
  <1>0. s \in HciState
    BY DEF Work
  <1>1. r = [s EXCEPT !.cmds = k]
    BY DEF CommandComplete
  <1>2. k \in 0..1
    OBVIOUS
  <1> HIDE DEF k
  <1>3. r \in HciState
    BY <1>0, <1>1, <1>2 DEF HciState
  <1>4. /\ r.conns = s.conns /\ r.sent = s.sent /\ r.reserved = s.reserved
        /\ r.out = s.out /\ r.left = s.left
        /\ r.tasks = s.tasks /\ r.owner = s.owner /\ r.buffer = s.buffer
    BY <1>0, <1>1 DEF HciState
  <1> HIDE DEF r
  <1>5. \A x \in Handles : s.sent[x] \in Nat
    BY <1>0 DEF HciState
  <1>6. Fewer(s, r)
    <2>1. s.conns \subseteq Handles
      BY <1>0 DEF HciState
    <2>2. QED
      BY <1>4, <1>5, <2>1 DEF Fewer
  <1>7. Handled(s, r, e, ctl)
    <2>1. \A x : ~Connects(e, x) /\ OneCompleted(e, x) = 0
      BY DEF Connects, OneCompleted
    <2>2. \A x \in DOMAIN ctl : s.sent[x] \in Nat
      BY <1>5 DEF Setting
    <2>3. QED
      BY <1>4, <2>1, <2>2 DEF Handled
  <1>8. QED
    BY <1>3, <1>4, <1>6, <1>7 DEF HandledWork, Current, Work, Held, Owned, r

\* HCI_EVENT_TRANSPORT_PACKET_SENT
LEMMA WorkPacketSent ==
    ASSUME NEW s, NEW es, NEW n, Work(s, es, n), Owned(s)
    PROVE  Work(TransportPacketSent(s), es, n) /\ Owned(TransportPacketSent(s))
  <1> DEFINE r == TransportPacketSent(s)
  <1>0. s \in HciState
    BY DEF Work
  <1>1. r \in HciState
    <2> DEFINE b == s.left > 0
    <2>1. b \in BOOLEAN
      OBVIOUS
    <2>2. r = [s EXCEPT !.active = FALSE, !.pending = FALSE, !.buffer = b]
      BY DEF TransportPacketSent
    <2> HIDE DEF b
    <2>3. QED
      BY <1>0, <2>1, <2>2 DEF HciState
  <1>2. /\ r.conns = s.conns /\ r.sent = s.sent /\ r.reserved = s.reserved
        /\ r.out = s.out /\ r.left = s.left /\ r.owner = s.owner
        /\ r.tasks = s.tasks /\ r.buffer = (s.left > 0)
    BY <1>0 DEF TransportPacketSent, HciState
  <1> HIDE DEF r
  <1>3. SameFlow(s, r) /\ Held(r) /\ Owned(r)
    BY <1>2 DEF SameFlow, Current, Held, Owned
  <1>4. r.tasks <= n
    BY <1>2 DEF Work
  <1>5. QED
    BY <1>1, <1>3, <1>4, WorkSame DEF r

-----------------------------------------------------------------------------
(* Steps of the host *)

\* The invariant gives the setting.
LEMMA InvSetting ==
    ASSUME IInv
    PROVE  Setting(events) /\ sends \in Int /\ sends \in 0..MaxSends
  <1>1. leTotal \in Nat
    BY TotalAssumption DEF IInv, HciTypeOK
  <1>2. PICK H \in SUBSET Handles : ctl \in [H -> Nat]
    BY DEF IInv, HciTypeOK
  <1>3. DOMAIN ctl \subseteq Handles /\ ctl \in [DOMAIN ctl -> Nat]
    BY <1>2
  <1>4. sends \in Int /\ sends \in 0..MaxSends
    BY FlowBoundAssumption DEF IInv, HciTypeOK
  <1>5. QED
    BY <1>1, <1>3, <1>4 DEF Setting, IInv, HciTypeOK

\* At the end of a step the packets leave the record.
LEMMA FinishInv ==
    ASSUME IInv, NEW r, NEW es, NEW n \in 0..MaxSends, Setting(es), Work(r, es, n), Owned(r),
           Finish(r), events' = es, sends' = n,
           UNCHANGED << env, ctl, partial, command, connects >>
    PROVE  IInv'
  <1>0. r \in HciState
    BY DEF Work
  <1>1. hci' = [r EXCEPT !.out = << >>] /\ wire' = wire \o r.out
    BY DEF Finish
  <1>2. << >> \in Seq(Packet)
    OBVIOUS
  <1>3. hci' \in HciState /\ hci'.out = << >>
    BY <1>0, <1>1, <1>2 DEF HciState
  <1>4. /\ hci'.conns = r.conns /\ hci'.sent = r.sent /\ hci'.reserved = r.reserved
        /\ hci'.buffer = r.buffer /\ hci'.owner = r.owner /\ hci'.left = r.left
        /\ hci'.tasks = r.tasks
    BY <1>0, <1>1 DEF HciState
  <1>5. wire' \in Seq(Packet)
    BY <1>0, <1>1 DEF HciState, Setting
  <1>6. wire' \o hci'.out = wire \o r.out
    BY <1>1, <1>3, <1>5
  <1>7. /\ sync' = sync /\ leTotal' = leTotal /\ ctl' = ctl /\ partial' = partial
        /\ command' = command /\ connects' = connects
    BY DEF env
  <1>8. HciTypeOK'
    <2>1. \E H \in SUBSET Handles : ctl' \in [H -> Nat]
      BY <1>7 DEF IInv, HciTypeOK
    <2>2. QED
      BY <1>3, <1>5, <1>7, <2>1 DEF IInv, HciTypeOK, Setting
  <1>9. SlotAssertions(hci)'
    BY <1>4, <1>7 DEF Work, SlotAssertions, Sent
  <1>10. Account(hci', wire' \o hci'.out, events', ctl')
    BY <1>4, <1>6, <1>7 DEF Work, Account
  <1>11. Order(hci', wire' \o hci'.out, DOMAIN ctl', partial')
    <2>1. Current(hci') = Current(r)
      BY <1>4 DEF Current
    <2>2. Order(hci', wire \o r.out, DOMAIN ctl, partial)
      BY <2>1, OrderSame DEF Work
    <2>3. QED
      BY <1>6, <1>7, <2>2
  <1>12. Held(hci') /\ Owned(hci') /\ hci'.tasks <= n
    BY <1>4 DEF Work, Held, Owned
  <1>13. Work(hci, events, sends)'
    BY <1>3, <1>9, <1>10, <1>11, <1>12 DEF Work
  <1>14. QED
    BY <1>8, <1>12, <1>13 DEF IInv

\* The rest of event_handler
LEMMA EventHandlerInv ==
    ASSUME IInv, NEW s, NEW es, Setting(es), Work(s, es, sends), Owned(s),
           NEW gone, gone \cap DOMAIN ctl = {}, EventHandler(s, gone), events' = es,
           UNCHANGED << env, ctl, partial, command, connects >>
    PROVE  IInv'
  <1>0. sends \in Int /\ sends \in 0..MaxSends
    BY InvSetting
  <1>1. ASSUME NEW u, NEW n \in 0..MaxSends, Work(u, es, n), Owned(u), sends' = n,
               Finish(HciRun(ShutdownConnection(u, gone)))
        PROVE  IInv'
    <2> DEFINE q == ShutdownConnection(u, gone)
    <2>0. n \in Int
      BY FlowBoundAssumption
    <2>1. Work(q, es, n) /\ (q.left > 0 => q.owner \in q.conns \/ q.owner \notin DOMAIN ctl)
      BY <1>1, WorkShutdown
    <2> HIDE DEF q
    <2>2. Work(HciRun(q), es, n) /\ Owned(HciRun(q))
      BY <2>0, <2>1, WorkRun
    <2>3. Finish(HciRun(q))
      BY <1>1 DEF q
    <2>4. QED
      BY <1>1, <2>2, <2>3, FinishInv
  <1>2. CASE Finish(HciRun(ShutdownConnection(s, gone))) /\ UNCHANGED sends
    BY <1>0, <1>1, <1>2
  <1>3. CASE /\ sends < MaxSends /\ sends' = sends + 1
             /\ \E u \in Upper(s) : Finish(HciRun(ShutdownConnection(u, gone)))
    <2>1. PICK u \in Upper(s) : Finish(HciRun(ShutdownConnection(u, gone)))
      BY <1>3
    <2>2. Work(u, es, sends + 1) /\ Owned(u)
      BY <1>0, <1>3, WorkUpper
    <2>3. sends + 1 \in 0..MaxSends
      BY <1>0, <1>3, FlowBoundAssumption
    <2>4. QED
      BY <1>1, <1>3, <2>1, <2>2, <2>3
  <1>4. QED
    BY <1>2, <1>3 DEF EventHandler

\* The transport has sent a packet.
LEMMA PacketSentInv ==
    ASSUME IInv, PacketSent
    PROVE  IInv'
  <1> DEFINE s == TransportPacketSent(hci)
             none == {}
  <1>1. Setting(events) /\ Work(hci, events, sends) /\ Owned(hci)
    BY InvSetting DEF IInv
  <1>2. Work(s, events, sends) /\ Owned(s)
    BY <1>1, WorkPacketSent
  <1>3. /\ EventHandler(s, none) /\ events' = events /\ none \cap DOMAIN ctl = {}
        /\ UNCHANGED << env, ctl, partial, command, connects >>
    BY DEF PacketSent
  <1> HIDE DEF s, none
  <1>4. QED
    BY <1>1, <1>2, <1>3, EventHandlerInv

\* The host handles an event.
LEMMA ReceiveInv ==
    ASSUME IInv, Receive
    PROVE  IInv'
  <1> DEFINE e == Head(events)
             es == Tail(events)
             none == {}
  <1>1. /\ Setting(events) /\ Work(hci, events, sends) /\ Owned(hci) /\ events # << >>
    BY InvSetting DEF IInv, Receive
  <1>2. Setting(es) /\ e \in Event
    BY <1>1, FirstEvent
  <1>3. events' = es /\ UNCHANGED << env, ctl, partial, command, connects >>
    BY DEF Receive
  <1>4. ASSUME NEW r, HandledWork(hci, r, events), NEW gone, gone \cap DOMAIN ctl = {},
               EventHandler(r, gone)
        PROVE  IInv'
    <2>1. Work(r, es, sends) /\ Owned(r)
      BY <1>1, <1>4, WorkHandled DEF HandledWork
    <2>2. QED
      BY <1>2, <1>3, <1>4, <2>1, EventHandlerInv
  <1>5. none \cap DOMAIN ctl = {}
    OBVIOUS
  <1>6. CASE e.type = "completed"
    <2>1. HandledWork(hci, NumberOfCompletedPackets(hci, e.handle, e.n), events)
      BY <1>1, <1>6, HandleCompleted
    <2>2. EventHandler(NumberOfCompletedPackets(hci, e.handle, e.n), none)
      BY <1>6 DEF Receive
    <2>3. QED
      BY <1>4, <1>5, <2>1, <2>2
  <1>7. CASE e.type = "disconnected"
    <2>1. HandledWork(hci, DisconnectionComplete(hci, e.handle), events)
          /\ {e.handle} \cap DOMAIN ctl = {}
      BY <1>1, <1>7, HandleDisconnected
    <2>2. EventHandler(DisconnectionComplete(hci, e.handle), {e.handle})
      BY <1>7 DEF Receive
    <2>3. QED
      BY <1>4, <2>1, <2>2
  <1>8. CASE e.type = "connected"
    <2>1. HandledWork(hci, ConnectionComplete(hci, e.handle), events)
      BY <1>1, <1>8, HandleConnected
    <2>2. EventHandler(ConnectionComplete(hci, e.handle), none)
      BY <1>8 DEF Receive
    <2>3. QED
      BY <1>4, <1>5, <2>1, <2>2
  <1>9. CASE e.type = "command"
    <2>1. HandledWork(hci, CommandComplete(hci, e.n), events)
      BY <1>1, <1>9, HandleCommandEvent
    <2>2. EventHandler(CommandComplete(hci, e.n), none)
      BY <1>9 DEF Receive
    <2>3. QED
      BY <1>4, <1>5, <2>1, <2>2
  <1>10. e.type \in {"completed", "disconnected", "connected", "command"}
    BY <1>2 DEF Event
  <1>11. QED
    BY <1>6, <1>7, <1>8, <1>9, <1>10

\* An upper layer sends outside of an event.
LEMMA SendInv ==
    ASSUME IInv, Send
    PROVE  IInv'
  <1>1. /\ Setting(events) /\ Work(hci, events, sends) /\ Owned(hci)
        /\ sends \in Int /\ sends \in 0..MaxSends
    BY InvSetting DEF IInv
  <1>2. PICK u \in Upper(hci) : Finish(IF u.tasks > hci.tasks THEN HciRun(u) ELSE u)
    BY DEF Send
  <1>3. /\ sends < MaxSends /\ sends' = sends + 1 /\ events' = events
        /\ UNCHANGED << env, ctl, partial, command, connects >>
    BY DEF Send
  <1>4. Work(u, events, sends + 1) /\ Owned(u)
    BY <1>1, <1>3, WorkUpper
  <1>5. sends + 1 \in 0..MaxSends /\ sends + 1 \in Int
    BY <1>1, <1>3, FlowBoundAssumption
  <1>6. Work(HciRun(u), events, sends + 1) /\ Owned(HciRun(u))
    <2>1. u.left > 0 => u.owner \in u.conns \/ u.owner \notin DOMAIN ctl
      BY <1>4 DEF Owned
    <2>2. QED
      BY <1>1, <1>4, <1>5, <2>1, WorkRun
  <1>7. CASE u.tasks > hci.tasks
    BY <1>1, <1>2, <1>3, <1>5, <1>6, <1>7, FinishInv
  <1>8. CASE ~(u.tasks > hci.tasks)
    BY <1>1, <1>2, <1>3, <1>4, <1>5, <1>8, FinishInv
  <1>9. QED
    BY <1>7, <1>8

\* hci_acl_reserve_packets
LEMMA ReserveInv ==
    ASSUME IInv, ReservePackets
    PROVE  IInv'
  <1> DEFINE r == [hci EXCEPT !.reserved = @ + 1]
  <1>1. /\ Setting(events) /\ Work(hci, events, sends) /\ Owned(hci)
        /\ sends \in 0..MaxSends /\ hci \in HciState /\ hci.out = << >> /\ wire \in Seq(Packet)
    BY InvSetting DEF IInv, Work, HciTypeOK
  <1>2. hci.reserved \in 0..AclTotal /\ AclTotal \in Nat
    BY <1>1, TotalAssumption DEF HciState
  <1>3. hci.reserved + 1 \in 0..AclTotal
    BY <1>2, FlowBoundAssumption DEF ReservePackets
  <1>4. r \in HciState
    BY <1>1, <1>3 DEF HciState
  <1>5. /\ r.conns = hci.conns /\ r.sent = hci.sent /\ r.out = hci.out
        /\ r.left = hci.left /\ r.owner = hci.owner /\ r.buffer = hci.buffer
        /\ r.tasks = hci.tasks /\ r.reserved = hci.reserved + 1
    BY <1>1 DEF HciState
  <1>6. hci' = r /\ r = [r EXCEPT !.out = << >>]
    BY <1>1, <1>4, <1>5 DEF ReservePackets, HciState
  <1>7. Finish(r)
    <2>1. wire' = wire \o r.out
      BY <1>1, <1>5 DEF ReservePackets
    <2>2. QED
      BY <1>6, <2>1 DEF Finish
  <1> HIDE DEF r
  <1>8. SlotAssertions(r)
    <2>1. /\ Sent(r, AclHandles) = Sent(hci, AclHandles)
          /\ Sent(r, LeHandles) = Sent(hci, LeHandles)
      BY <1>5 DEF Sent
    <2>2. Sent(hci, AclHandles) \in Nat /\ Sent(hci, LeHandles) \in Nat /\ leTotal \in Nat
      BY <1>1, SentType DEF Setting
    <2>3. SlotAssertions(hci) /\ FreeAclSlots(hci, FALSE) > 0
      BY <1>1 DEF Work, ReservePackets
    <2>4. QED
      BY <1>2, <1>5, <2>1, <2>2, <2>3 DEF SlotAssertions, FreeAclSlots
  <1>9. Order(r, wire \o r.out, DOMAIN ctl, partial)
    <2>1. Current(r) = Current(hci)
      BY <1>5 DEF Current
    <2>2. QED
      BY <1>1, <1>5, <2>1, OrderSame DEF Work
  <1>10. Work(r, events, sends) /\ Owned(r)
    BY <1>1, <1>4, <1>5, <1>8, <1>9 DEF Work, Account, Held, Owned
  <1>11. /\ events' = events /\ sends' = sends
         /\ UNCHANGED << env, ctl, partial, command, connects >>
    BY DEF ReservePackets
  <1>12. QED
    BY <1>1, <1>7, <1>10, <1>11, FinishInv

\* hci_acl_release_packets
LEMMA ReleaseInv ==
    ASSUME IInv, ReleasePackets
    PROVE  IInv'
  <1> DEFINE r == [hci EXCEPT !.reserved = @ - 1]
  <1>1. /\ Setting(events) /\ Work(hci, events, sends) /\ Owned(hci)
        /\ sends \in 0..MaxSends /\ sends \in Int /\ hci \in HciState
    BY InvSetting DEF IInv, Work
  <1>2. hci.reserved \in 0..AclTotal /\ AclTotal \in Nat
    BY <1>1, TotalAssumption DEF HciState
  <1>3. hci.reserved - 1 \in 0..AclTotal /\ hci.reserved - 1 <= hci.reserved
    BY <1>2 DEF ReleasePackets
  <1>4. r \in HciState
    BY <1>1, <1>3 DEF HciState
  <1>5. /\ r.conns = hci.conns /\ r.sent = hci.sent /\ r.out = hci.out
        /\ r.left = hci.left /\ r.owner = hci.owner /\ r.buffer = hci.buffer
        /\ r.tasks = hci.tasks /\ r.reserved = hci.reserved - 1
    BY <1>1 DEF HciState
  <1>6. Finish(HciRun(r))
    BY DEF ReleasePackets
  <1> HIDE DEF r
  <1>7. SlotAssertions(r)
    <2>1. \A h \in hci.conns : hci.sent[h] \in Nat
      BY <1>1 DEF HciState
    <2>2. Fewer(hci, r)
      BY <1>5, <2>1 DEF Fewer
    <2>3. QED
      BY <1>1, <1>3, <1>4, <1>5, <2>2, SlotsFewer DEF Work, Setting
  <1>8. Order(r, wire \o r.out, DOMAIN ctl, partial)
    <2>1. Current(r) = Current(hci)
      BY <1>5 DEF Current
    <2>2. QED
      BY <1>1, <1>5, <2>1, OrderSame DEF Work
  <1>9. Work(r, events, sends) /\ Owned(r)
    BY <1>1, <1>4, <1>5, <1>7, <1>8 DEF Work, Account, Held, Owned
  <1>10. Work(HciRun(r), events, sends) /\ Owned(HciRun(r))
    <2>1. r.left > 0 => r.owner \in r.conns \/ r.owner \notin DOMAIN ctl
      BY <1>9 DEF Owned
    <2>2. QED
      BY <1>1, <1>9, <2>1, WorkRun
  <1>11. /\ events' = events /\ sends' = sends
         /\ UNCHANGED << env, ctl, partial, command, connects >>
    BY DEF ReleasePackets
  <1>12. QED
    BY <1>1, <1>6, <1>10, <1>11, FinishInv

-----------------------------------------------------------------------------
(* Steps of the controller *)

\* Account, for one handle with k packets in the controller
AccountAt(s, w, es, k, h) ==
    /\ \A i \in DOMAIN es : ~(es[i].type = "disconnected" /\ es[i].handle = h)
    /\ \A i, j \in DOMAIN es : Connects(es[i], h) /\ Connects(es[j], h) => i = j
    /\ h \in s.conns =>
            /\ \A i \in DOMAIN es : ~Connects(es[i], h)
            /\ s.sent[h] = Fragments(w, h) + k + Completed(es, h)
    /\ h \notin s.conns => Fragments(w, h) = 0 /\ k = 0 /\ Completed(es, h) = 0

\* Account is AccountAt of each handle.
LEMMA AccountEach ==
    ASSUME NEW s, NEW w, NEW es, NEW c
    PROVE  Account(s, w, es, c) <=> \A h \in DOMAIN c : AccountAt(s, w, es, c[h], h)
  BY DEF Account, AccountAt

\* Between steps nothing is left in the record.
LEMMA InvView ==
    ASSUME IInv
    PROVE  /\ Typed(hci, wire, events, ctl)
           /\ \A h \in DOMAIN ctl : AccountAt(hci, wire, events, ctl[h], h)
           /\ Order(hci, wire, DOMAIN ctl, partial)
           /\ partial \subseteq DOMAIN ctl
  <1>1. hci.out = << >> /\ wire \in Seq(Packet)
    BY DEF IInv, HciTypeOK
  <1>2. wire \o hci.out = wire
    BY <1>1
  <1>3. Account(hci, wire, events, ctl) /\ Order(hci, wire, DOMAIN ctl, partial)
    BY <1>2 DEF IInv, Work
  <1>4. Typed(hci, wire, events, ctl) /\ partial \subseteq DOMAIN ctl
    BY InvSetting DEF Typed, Setting, IInv, Work
  <1>5. QED
    BY <1>3, <1>4, AccountEach

\* A step of the controller leaves hci alone.
LEMMA CtlInv ==
    ASSUME IInv, UNCHANGED << env, hci, sends >>,
           wire' \in Seq(Packet), events' \in Seq(Event),
           \E H \in SUBSET Handles : ctl' \in [H -> Nat],
           partial' \subseteq DOMAIN ctl', command' \in {"none", "pending", "busy"},
           connects' \in 0..MaxConnects,
           \A h \in DOMAIN ctl' : AccountAt(hci, wire', events', ctl'[h], h),
           Order(hci, wire', DOMAIN ctl', partial')
    PROVE  IInv'
  <1>1. sync' = sync /\ leTotal' = leTotal /\ hci' = hci /\ sends' = sends
    BY DEF env
  <1>2. HciTypeOK'
    BY <1>1 DEF IInv, HciTypeOK
  <1>3. wire' \o hci'.out = wire'
    BY <1>1 DEF IInv, HciTypeOK
  <1>4. Account(hci, wire', events', ctl')
    BY AccountEach
  <1>5. SlotAssertions(hci)'
    BY <1>1 DEF IInv, Work, SlotAssertions, Sent
  <1>6. Work(hci, events, sends)'
    BY <1>1, <1>3, <1>4, <1>5 DEF IInv, Work
  <1>7. QED
    BY <1>1, <1>2, <1>6 DEF IInv

\* The controller takes a packet.
LEMMA CtlTakeInv ==
    ASSUME IInv, CtlTake
    PROVE  IInv'
  <1> DEFINE p == Head(wire)
             z == Tail(wire)
             D == DOMAIN ctl
             h == p.handle
  <1>1. /\ Typed(hci, wire, events, ctl) /\ wire \in Seq(Packet) /\ events \in Seq(Event)
        /\ \A x \in D : AccountAt(hci, wire, events, ctl[x], x)
        /\ Order(hci, wire, D, partial) /\ partial \subseteq D
    BY InvView DEF Typed
  <1>2. /\ wire # << >> /\ wire' = z /\ events' = events
        /\ UNCHANGED << env, hci, sends >> /\ connects' = connects
    BY DEF CtlTake
  <1>3. p \in Packet /\ z \in Seq(Packet) /\ p = wire[1]
    BY <1>1, <1>2
  <1>4. Continues(p) \cap D = partial
    BY <1>1, <1>2, <1>3 DEF Order
  <1>5. Order(hci, z, D, Opens(p) \cap D)
    BY <1>1, <1>2, OrderTake
  <1>6. \A x \in D : /\ Fragments(wire, x) = OneFragment(p, x) + Fragments(z, x)
                     /\ Fragments(z, x) \in Nat /\ ctl[x] \in Nat /\ Completed(events, x) \in Nat
    BY <1>1, <1>2, <1>3, FragmentsTail, FragmentsType, AccountType
  <1>7. /\ \E H \in SUBSET Handles : ctl \in [H -> Nat]
        /\ command \in {"none", "pending", "busy"} /\ connects \in 0..MaxConnects
    BY DEF IInv, HciTypeOK
  <1> HIDE DEF p, z, D
  <1>8. CASE p.type # "acl" \/ h \notin D
    <2>1. ctl' = ctl /\ partial' = partial /\ command' \in {"none", "pending", "busy"}
      <3>1. p.type \in {"command", "acl"}
        BY <1>3 DEF Packet
      <3>2. QED
        BY <1>7, <1>8, <3>1 DEF CtlTake, p, D
    <2>2. Continues(p) \cap D = {} /\ Opens(p) \cap D = {}
      BY <1>8 DEF Continues, Opens
    <2>3. Order(hci, z, D, partial)
      BY <1>4, <1>5, <2>2
    <2>4. \A x \in D : Fragments(z, x) = Fragments(wire, x)
      <3>1. \A x \in D : OneFragment(p, x) = 0
        BY <1>8 DEF OneFragment
      <3>2. QED
        BY <1>6, <3>1
    <2>5. \A x \in D : AccountAt(hci, z, events, ctl[x], x)
      BY <1>1, <2>4 DEF AccountAt
    <2>6. QED
      BY <1>1, <1>2, <1>3, <1>7, <2>1, <2>3, <2>5, CtlInv DEF D
  <1>9. CASE p.type = "acl" /\ h \in D
    <2>1. /\ ctl' = [ctl EXCEPT ![h] = @ + 1] /\ command' = command
          /\ partial' = IF p.last THEN partial \ {h} ELSE partial \cup {h}
      BY <1>9 DEF CtlTake, p, D
    <2>2. partial \subseteq {h}
      BY <1>4 DEF Continues
    <2>3. partial' = Opens(p) \cap D
      BY <1>9, <2>1, <2>2 DEF Opens
    <2>4. DOMAIN ctl' = D /\ \A x \in D : ctl'[x] = IF x = h THEN ctl[x] + 1 ELSE ctl[x]
      BY <2>1 DEF D
    <2>5. \E H \in SUBSET Handles : ctl' \in [H -> Nat]
      <3>1. PICK H \in SUBSET Handles : ctl \in [H -> Nat]
        BY <1>7
      <3>2. h \in H /\ ctl[h] + 1 \in Nat
        BY <1>9, <3>1 DEF D
      <3>3. ctl' \in [H -> Nat]
        BY <2>1, <3>1, <3>2
      <3>4. QED
        BY <3>3
    <2>6. ASSUME NEW x \in D PROVE AccountAt(hci, z, events, ctl'[x], x)
      <3>1. AccountAt(hci, wire, events, ctl[x], x)
        BY <1>1
      <3>2. OneFragment(p, x) = IF x = h THEN 1 ELSE 0
        BY <1>9 DEF OneFragment
      <3>3. /\ Fragments(wire, x) = OneFragment(p, x) + Fragments(z, x)
            /\ Fragments(z, x) \in Nat /\ ctl[x] \in Nat /\ Completed(events, x) \in Nat
        BY <1>6
      <3>4. ctl'[x] = IF x = h THEN ctl[x] + 1 ELSE ctl[x]
        BY <2>4
      <3>5. Fragments(wire, x) + ctl[x] + Completed(events, x)
               = Fragments(z, x) + ctl'[x] + Completed(events, x)
        BY <3>2, <3>3, <3>4
      <3>6. Fragments(wire, x) = 0 => Fragments(z, x) = 0 /\ ctl'[x] = ctl[x]
        BY <3>2, <3>3, <3>4
      <3>7. QED
        BY <3>1, <3>5, <3>6 DEF AccountAt
    <2>7. Order(hci, wire', DOMAIN ctl', partial')
      BY <1>2, <1>5, <2>3, <2>4
    <2>8. partial' \subseteq DOMAIN ctl'
      BY <2>3, <2>4
    <2>9. \A x \in DOMAIN ctl' : AccountAt(hci, wire', events', ctl'[x], x)
      BY <1>2, <2>4, <2>6
    <2>10. wire' \in Seq(Packet) /\ events' \in Seq(Event)
           /\ command' \in {"none", "pending", "busy"} /\ connects' \in 0..MaxConnects
      BY <1>1, <1>2, <1>3, <1>7, <2>1
    <2>11. QED
      BY <1>2, <2>5, <2>7, <2>8, <2>9, <2>10, CtlInv
  <1>10. QED
    BY <1>8, <1>9

\* An event that neither opens nor closes h is added; the packets that it
\* reports were in the controller.
LEMMA AccountEmit ==
    ASSUME NEW s, NEW w, NEW es \in Seq(Event), NEW e \in Event, NEW k \in Nat, NEW m \in Nat,
           NEW h, Fragments(w, h) \in Nat, k = m + OneCompleted(e, h),
           e.type \in {"connected", "disconnected"} => e.handle # h,
           AccountAt(s, w, es, k, h)
    PROVE  AccountAt(s, w, Append(es, e), m, h)
  <1> DEFINE z == Append(es, e)
             n == Len(es)
  <1>1. /\ n \in Nat /\ DOMAIN es = 1..n /\ DOMAIN z = 1..(n + 1)
        /\ \A i \in 1..n : z[i] = es[i]
        /\ z[n + 1] = e
    OBVIOUS
  <1>2. Completed(z, h) = Completed(es, h) + OneCompleted(e, h)
    BY CompletedAppend
  <1>3. Completed(es, h) \in Nat /\ OneCompleted(e, h) \in Nat
    BY CompletedType, OneType
  <1> HIDE DEF z, n
  <1>4. \A i \in DOMAIN z : (i \in DOMAIN es /\ z[i] = es[i]) \/ z[i] = e
    BY <1>1
  <1>5. ~Connects(e, h) /\ ~(e.type = "disconnected" /\ e.handle = h)
    BY DEF Connects
  <1>6. /\ \A i \in DOMAIN z : ~(z[i].type = "disconnected" /\ z[i].handle = h)
        /\ \A i, j \in DOMAIN z : Connects(z[i], h) /\ Connects(z[j], h) => i = j
        /\ h \in s.conns => \A i \in DOMAIN z : ~Connects(z[i], h)
    BY <1>4, <1>5 DEF AccountAt
  <1>7. Fragments(w, h) + k + Completed(es, h) = Fragments(w, h) + m + Completed(z, h)
    BY <1>2, <1>3
  <1>8. k = 0 /\ Completed(es, h) = 0 => m = 0 /\ Completed(z, h) = 0
    BY <1>2, <1>3
  <1>9. QED
    BY <1>6, <1>7, <1>8 DEF AccountAt, z

\* The controller reports packets of h.
LEMMA CtlCompletedInv ==
    ASSUME IInv, NEW h \in DOMAIN ctl, CtlCompleted(h)
    PROVE  IInv'
  <1> DEFINE D == DOMAIN ctl
  <1>1. /\ Typed(hci, wire, events, ctl) /\ wire \in Seq(Packet) /\ events \in Seq(Event)
        /\ \A x \in D : AccountAt(hci, wire, events, ctl[x], x)
        /\ Order(hci, wire, D, partial) /\ partial \subseteq D /\ D \subseteq Handles
        /\ ctl \in [D -> Nat]
    BY InvView DEF Typed
  <1>2. PICK n \in 1..ctl[h] :
            /\ ctl' = [ctl EXCEPT ![h] = @ - n]
            /\ Emit([type |-> "completed", handle |-> h, n |-> n])
            /\ UNCHANGED << env, hci, wire, partial, command, connects, sends >>
    BY DEF CtlCompleted
  <1> DEFINE e == [type |-> "completed", handle |-> h, n |-> n]
  <1>3. ctl[h] \in Nat /\ n \in Nat \ {0} /\ h \in Handles /\ ctl[h] - n \in Nat
    BY <1>1
  <1>4. e \in Event /\ e.type = "completed" /\ e.handle = h /\ e.n = n
    BY <1>3 DEF Event
  <1>5. events' = Append(events, e)
    BY <1>2 DEF Emit
  <1>6. DOMAIN ctl' = D /\ ctl' \in [D -> Nat]
        /\ \A x \in D : ctl'[x] = IF x = h THEN ctl[x] - n ELSE ctl[x]
    BY <1>1, <1>2, <1>3
  <1> HIDE DEF e, D
  <1>7. ASSUME NEW x \in D PROVE AccountAt(hci, wire, events', ctl'[x], x)
    <2>1. OneCompleted(e, x) = IF x = h THEN n ELSE 0
      BY <1>4 DEF OneCompleted
    <2>2. ctl[x] \in Nat /\ ctl'[x] \in Nat /\ Fragments(wire, x) \in Nat
      BY <1>1, <1>6, FragmentsType
    <2>3. ctl[x] = ctl'[x] + OneCompleted(e, x)
      BY <1>3, <1>6, <2>1, <2>2
    <2>4. AccountAt(hci, wire, events, ctl[x], x)
      BY <1>1
    <2>5. e.type \in {"connected", "disconnected"} => e.handle # x
      BY <1>4
    <2>6. AccountAt(hci, wire, Append(events, e), ctl'[x], x)
      BY <1>1, <1>4, <2>2, <2>3, <2>4, <2>5, AccountEmit
    <2>7. QED
      BY <1>5, <2>6
  <1>8. events' \in Seq(Event)
    BY <1>1, <1>4, <1>5
  <1>9. /\ wire' = wire /\ partial' = partial /\ UNCHANGED << env, hci, sends >>
        /\ command' \in {"none", "pending", "busy"} /\ connects' \in 0..MaxConnects
    BY <1>2 DEF IInv, HciTypeOK
  <1>10. \E H \in SUBSET Handles : ctl' \in [H -> Nat]
    BY <1>1, <1>6
  <1>11. /\ \A x \in DOMAIN ctl' : AccountAt(hci, wire', events', ctl'[x], x)
         /\ Order(hci, wire', DOMAIN ctl', partial') /\ partial' \subseteq DOMAIN ctl'
         /\ wire' \in Seq(Packet)
    BY <1>1, <1>6, <1>7, <1>9
  <1>12. QED
    BY <1>8, <1>9, <1>10, <1>11, CtlInv

\* The controller answers a command.
LEMMA CtlCommandInv ==
    ASSUME IInv, CtlCommand
    PROVE  IInv'
  <1> DEFINE D == DOMAIN ctl
  <1>1. /\ Typed(hci, wire, events, ctl) /\ wire \in Seq(Packet) /\ events \in Seq(Event)
        /\ \A x \in D : AccountAt(hci, wire, events, ctl[x], x)
        /\ Order(hci, wire, D, partial) /\ partial \subseteq D /\ ctl \in [D -> Nat]
    BY InvView DEF Typed
  <1>2. PICK n \in 0..1 :
            /\ command' = IF n = 0 THEN "busy" ELSE "none"
            /\ Emit([type |-> "command", n |-> n])
            /\ UNCHANGED << env, hci, wire, ctl, partial, connects, sends >>
    BY DEF CtlCommand
  <1> DEFINE e == [type |-> "command", n |-> n]
  <1>3. e \in Event /\ e.type = "command"
    BY DEF Event
  <1>4. events' = Append(events, e)
    BY <1>2 DEF Emit
  <1> HIDE DEF e, D
  <1>5. ASSUME NEW x \in D PROVE AccountAt(hci, wire, events', ctl[x], x)
    <2>1. OneCompleted(e, x) = 0
      BY <1>3 DEF OneCompleted
    <2>2. ctl[x] \in Nat /\ Fragments(wire, x) \in Nat
      BY <1>1, FragmentsType
    <2>3. ctl[x] = ctl[x] + OneCompleted(e, x)
      BY <2>1, <2>2
    <2>4. AccountAt(hci, wire, events, ctl[x], x)
      BY <1>1
    <2>5. e.type \in {"connected", "disconnected"} => e.handle # x
      BY <1>3
    <2>6. AccountAt(hci, wire, Append(events, e), ctl[x], x)
      BY <1>1, <1>3, <2>2, <2>3, <2>4, <2>5, AccountEmit
    <2>7. QED
      BY <1>4, <2>6
  <1>6. events' \in Seq(Event)
    BY <1>1, <1>3, <1>4
  <1>7. /\ wire' = wire /\ ctl' = ctl /\ partial' = partial /\ UNCHANGED << env, hci, sends >>
        /\ command' \in {"none", "pending", "busy"} /\ connects' \in 0..MaxConnects
        /\ \E H \in SUBSET Handles : ctl' \in [H -> Nat]
    BY <1>2 DEF IInv, HciTypeOK
  <1>8. /\ \A x \in DOMAIN ctl' : AccountAt(hci, wire', events', ctl'[x], x)
        /\ Order(hci, wire', DOMAIN ctl', partial') /\ partial' \subseteq DOMAIN ctl'
        /\ wire' \in Seq(Packet)
    BY <1>1, <1>5, <1>7 DEF D
  <1>9. QED
    BY <1>6, <1>7, <1>8, CtlInv

\* A connection is closed: what the controller held is gone.
LEMMA CtlDisconnectedInv ==
    ASSUME IInv, NEW h \in DOMAIN ctl, CtlDisconnected(h)
    PROVE  IInv'
  <1> DEFINE D == DOMAIN ctl
             e == [type |-> "disconnected", handle |-> h]
  <1>1. /\ Typed(hci, wire, events, ctl) /\ wire \in Seq(Packet) /\ events \in Seq(Event)
        /\ \A x \in D : AccountAt(hci, wire, events, ctl[x], x)
        /\ Order(hci, wire, D, partial) /\ partial \subseteq D /\ D \subseteq Handles
        /\ ctl \in [D -> Nat]
    BY InvView DEF Typed
  <1>2. e \in Event /\ e.type = "disconnected" /\ e.handle = h
    BY <1>1 DEF Event
  <1>3. /\ events' = Append(events, e) /\ ctl' = [c \in D \ {h} |-> ctl[c]]
        /\ partial' = partial \ {h}
        /\ UNCHANGED << env, hci, wire, command, connects, sends >>
    BY DEF CtlDisconnected, Emit
  <1>4. DOMAIN ctl' = D \ {h} /\ ctl' \in [D \ {h} -> Nat]
        /\ \A x \in D \ {h} : ctl'[x] = ctl[x]
    BY <1>1, <1>3
  <1> HIDE DEF e, D
  <1>5. ASSUME NEW x \in D \ {h} PROVE AccountAt(hci, wire, events', ctl'[x], x)
    <2>1. OneCompleted(e, x) = 0
      BY <1>2 DEF OneCompleted
    <2>2. ctl[x] \in Nat /\ Fragments(wire, x) \in Nat
      BY <1>1, FragmentsType
    <2>3. ctl[x] = ctl[x] + OneCompleted(e, x)
      BY <2>1, <2>2
    <2>4. AccountAt(hci, wire, events, ctl[x], x)
      BY <1>1
    <2>5. e.type \in {"connected", "disconnected"} => e.handle # x
      BY <1>2
    <2>6. AccountAt(hci, wire, Append(events, e), ctl[x], x)
      BY <1>1, <1>2, <2>2, <2>3, <2>4, <2>5, AccountEmit
    <2>7. QED
      BY <1>3, <1>4, <2>6
  <1>6. events' \in Seq(Event)
    BY <1>1, <1>2, <1>3
  <1>7. /\ wire' = wire /\ UNCHANGED << env, hci, sends >>
        /\ command' \in {"none", "pending", "busy"} /\ connects' \in 0..MaxConnects
    BY <1>3 DEF IInv, HciTypeOK
  <1>8. \E H \in SUBSET Handles : ctl' \in [H -> Nat]
    BY <1>1, <1>4
  <1>9. Order(hci, wire, D \ {h}, partial \ {h})
    BY <1>1, OrderClose
  <1>10. /\ \A x \in DOMAIN ctl' : AccountAt(hci, wire', events', ctl'[x], x)
         /\ Order(hci, wire', DOMAIN ctl', partial') /\ partial' \subseteq DOMAIN ctl'
         /\ wire' \in Seq(Packet)
    BY <1>1, <1>3, <1>4, <1>5, <1>7, <1>9
  <1>11. QED
    BY <1>6, <1>7, <1>8, <1>10, CtlInv

\* A handle is used for a new connection.
LEMMA CtlConnectedInv ==
    ASSUME IInv, NEW h \in Handles, CtlConnected(h)
    PROVE  IInv'
  <1> DEFINE D == DOMAIN ctl
             e == [type |-> "connected", handle |-> h]
             n == Len(events)
  <1>1. /\ Typed(hci, wire, events, ctl) /\ wire \in Seq(Packet) /\ events \in Seq(Event)
        /\ \A x \in D : AccountAt(hci, wire, events, ctl[x], x)
        /\ Order(hci, wire, D, partial) /\ partial \subseteq D /\ D \subseteq Handles
        /\ ctl \in [D -> Nat]
    BY InvView DEF Typed
  <1>2. e \in Event /\ e.type = "connected" /\ e.handle = h
    BY DEF Event
  <1>3. /\ events' = Append(events, e)
        /\ ctl' = [c \in D \cup {h} |-> IF c = h THEN 0 ELSE ctl[c]]
        /\ connects < MaxConnects /\ connects' = connects + 1
        /\ UNCHANGED << env, hci, wire, partial, command, sends >>
    BY DEF CtlConnected, Emit
  <1>4. /\ h \notin D /\ h \notin hci.conns
        /\ \A i \in DOMAIN wire : wire[i].type = "acl" => wire[i].handle # h
        /\ \A i \in DOMAIN events : events[i].type # "command" => events[i].handle # h
    BY DEF CtlConnected
  <1>5. DOMAIN ctl' = D \cup {h} /\ ctl' \in [D \cup {h} -> Nat] /\ ctl'[h] = 0
        /\ \A x \in D : ctl'[x] = ctl[x]
    BY <1>1, <1>3, <1>4
  <1>6. /\ n \in Nat /\ DOMAIN events = 1..n /\ DOMAIN events' = 1..(n + 1)
        /\ \A i \in 1..n : events'[i] = events[i]
        /\ events'[n + 1] = e /\ events' \in Seq(Event)
    BY <1>1, <1>2, <1>3
  <1> HIDE DEF e, D, n
  <1>7. ASSUME NEW x \in D PROVE AccountAt(hci, wire, events', ctl'[x], x)
    <2>1. OneCompleted(e, x) = 0
      BY <1>2 DEF OneCompleted
    <2>2. ctl[x] \in Nat /\ Fragments(wire, x) \in Nat
      BY <1>1, FragmentsType
    <2>3. ctl[x] = ctl[x] + OneCompleted(e, x)
      BY <2>1, <2>2
    <2>4. AccountAt(hci, wire, events, ctl[x], x)
      BY <1>1
    <2>5. e.type \in {"connected", "disconnected"} => e.handle # x
      BY <1>2, <1>4
    <2>6. AccountAt(hci, wire, Append(events, e), ctl[x], x)
      BY <1>1, <1>2, <2>2, <2>3, <2>4, <2>5, AccountEmit
    <2>7. QED
      BY <1>3, <1>5, <2>6
  <1>8. AccountAt(hci, wire, events', ctl'[h], h)
    <2>1. Fragments(wire, h) = 0
      BY <1>1, <1>4, FragmentsType
    <2>2. \A i \in DOMAIN events' : \/ i = n + 1
                                    \/ events'[i].type = "command"
                                    \/ events'[i].handle # h
      BY <1>4, <1>6
    <2>3. /\ \A i \in DOMAIN events' : events'[i].type \in {"disconnected", "completed"}
                                          => events'[i].handle # h
          /\ \A i, j \in DOMAIN events' :
                Connects(events'[i], h) /\ Connects(events'[j], h) => i = j
      BY <1>2, <1>6, <2>2 DEF Connects
    <2>4. Completed(events', h) = 0
      BY <1>6, <2>3, CompletedType
    <2>5. QED
      BY <1>4, <1>5, <2>1, <2>3, <2>4 DEF AccountAt
  <1>9. Order(hci, wire, D \cup {h}, partial)
    <2>1. h \notin Current(hci)
      BY <1>4 DEF IInv, Owned, Current
    <2>2. QED
      BY <1>1, <1>4, <2>1, OrderOpen
  <1>10. /\ wire' = wire /\ partial' = partial /\ UNCHANGED << env, hci, sends >>
         /\ command' \in {"none", "pending", "busy"}
    BY <1>3 DEF IInv, HciTypeOK
  <1>11. connects' \in 0..MaxConnects
    <2>1. connects \in 0..MaxConnects
      BY DEF IInv, HciTypeOK
    <2>2. QED
      BY <1>3, <2>1, FlowBoundAssumption
  <1>12. \E H \in SUBSET Handles : ctl' \in [H -> Nat]
    <2>1. D \cup {h} \in SUBSET Handles
      BY <1>1
    <2>2. QED
      BY <1>5, <2>1
  <1>13. /\ \A x \in DOMAIN ctl' : AccountAt(hci, wire', events', ctl'[x], x)
         /\ Order(hci, wire', DOMAIN ctl', partial') /\ partial' \subseteq DOMAIN ctl'
         /\ wire' \in Seq(Packet)
    BY <1>1, <1>5, <1>7, <1>8, <1>9, <1>10
  <1>14. QED
    BY <1>6, <1>10, <1>11, <1>12, <1>13, CtlInv

-----------------------------------------------------------------------------
(* The theorems *)

\* The initial state satisfies the invariant.
LEMMA InitInv ==
    ASSUME Init
    PROVE  IInv
  <1>1. /\ sync \in BOOLEAN /\ leTotal \in LeTotals /\ leTotal \in Nat /\ AclTotal \in Nat
    BY TotalAssumption DEF Init
  <1> DEFINE o == CHOOSE h \in Handles : TRUE
             t == [h \in Handles |-> 0]
  <1>2. o \in Handles /\ t \in [Handles -> Nat]
    BY HandleAssumption
  <1>3. hci = [ conns |-> {}, sent |-> t, reserved |-> 0,
               buffer |-> FALSE, owner |-> o,
               left |-> 0, active |-> FALSE, pending |-> FALSE, cmds |-> 1,
               tasks |-> 0, out |-> << >> ]
    BY DEF Init
  <1> HIDE DEF o, t
  <1>4. 0 \in 0..AclTotal /\ 0 \in 0..MaxFragments /\ 0 \in 0..MaxSends /\ 1 \in 0..1
        /\ << >> \in Seq(Packet) /\ 0 \in 0..MaxConnects
    BY <1>1, FlowBoundAssumption
  <1>5. hci \in HciState
    BY <1>2, <1>3, <1>4 DEF HciState
  <1>6. ctl \in [{} -> Nat] /\ DOMAIN ctl = {}
    BY DEF Init
  <1>7. HciTypeOK
    <2>1. \E H \in SUBSET Handles : ctl \in [H -> Nat]
      BY <1>6
    <2>2. /\ wire \in Seq(Packet) /\ events \in Seq(Event)
      BY DEF Init
    <2>3. hci.out = << >>
      BY <1>3
    <2>4. /\ partial \subseteq DOMAIN ctl /\ command \in {"none", "pending", "busy"}
          /\ connects \in 0..MaxConnects /\ sends \in 0..MaxSends
      BY <1>4 DEF Init
    <2>5. QED
      BY <1>1, <1>5, <2>1, <2>2, <2>3, <2>4 DEF HciTypeOK
  <1>8. SlotAssertions(hci)
    <2>1. \A S : Sent(hci, S) = 0
      BY <1>3, TotalEmpty DEF Sent
    <2>2. hci.reserved = 0
      BY <1>3
    <2>3. QED
      BY <1>1, <2>1, <2>2 DEF SlotAssertions
  <1>9. wire \o hci.out = << >>
    BY <1>3 DEF Init
  <1>10. Account(hci, wire \o hci.out, events, ctl)
    BY <1>6 DEF Account
  <1>11. Order(hci, wire \o hci.out, DOMAIN ctl, partial)
    BY <1>6, <1>9 DEF Order, Init
  <1>12. Held(hci) /\ Owned(hci) /\ hci.tasks <= sends
    BY <1>3 DEF Held, Owned, Init
  <1>13. QED
    BY <1>5, <1>7, <1>8, <1>10, <1>11, <1>12 DEF IInv, Work

\* Every step preserves the invariant.
LEMMA NextInv ==
    ASSUME IInv, [Next]_vars
    PROVE  IInv'
  <1>1. CASE UNCHANGED vars
    BY <1>1 DEF vars, env, IInv, HciTypeOK, Work, Owned, Held, SlotAssertions, Sent
  <1>2. CASE Next
    BY <1>2, PacketSentInv, ReceiveInv, SendInv, ReserveInv, ReleaseInv, CtlTakeInv,
       CtlCommandInv, CtlCompletedInv, CtlDisconnectedInv, CtlConnectedInv
       DEF Next, Controller
  <1>3. QED
    BY <1>1, <1>2

\* The inductive invariant holds in every behaviour.
THEOREM HciInvariant == Spec => []IInv
  <1>1. Init => IInv
    BY InitInv
  <1>2. IInv /\ [Next]_vars => IInv'
    BY NextInv
  <1>3. QED
    BY <1>1, <1>2, PTL DEF Spec

\* The host's record, the packets and the events keep their types: the
\* command credit stays 0 or 1 and no more is reserved than there is.
THEOREM HciTypeCorrect == Spec => []HciTypeOK
  <1>1. IInv => HciTypeOK
    BY DEF IInv
  <1>2. QED
    BY <1>1, HciInvariant, PTL

\* num_packets_sent is what the connection has under way, for any number of
\* connections, fragments and events.
THEOREM SlotsNeverLost == Spec => []SlotsConserved
  <1>1. IInv => SlotsConserved
    <2> SUFFICES ASSUME IInv, NEW h \in hci.conns \cap DOMAIN ctl
                 PROVE  hci.sent[h] = Fragments(wire, h) + ctl[h] + Completed(events, h)
      BY DEF SlotsConserved
    <2>1. QED
      BY InvView DEF AccountAt
  <1>2. QED
    BY <1>1, HciInvariant, PTL

\* What is on the wire and in the controller for the connections of S is
\* covered by the counts of the connections.
LEMMA LoadCounted ==
    ASSUME IInv, NEW S
    PROVE  /\ Total([h \in S \cap DOMAIN ctl |-> Fragments(wire, h) + ctl[h]]) <= Sent(hci, S)
           /\ Total([h \in S \cap DOMAIN ctl |-> Fragments(wire, h) + ctl[h]]) \in Nat
           /\ Sent(hci, S) \in Nat
  <1> DEFINE C == S \cap DOMAIN ctl
             f == [h \in C |-> Fragments(wire, h) + ctl[h]]
             K == hci.conns \cap S
             g == [h \in K |-> hci.sent[h]]
  <1>0. hci \in HciState
    BY DEF IInv, Work
  <1>1. IsFiniteSet(K) /\ g \in [K -> Nat] /\ Sent(hci, S) = Total(g) /\ Sent(hci, S) \in Nat
    BY <1>0, SentType DEF Sent
  <1>2. ASSUME NEW h \in C
        PROVE  /\ Fragments(wire, h) \in Nat /\ ctl[h] \in Nat
               /\ f[h] = 0 \/ (h \in K /\ f[h] <= g[h])
    <2>1. /\ Fragments(wire, h) \in Nat /\ ctl[h] \in Nat /\ Completed(events, h) \in Nat
      BY InvView, AccountType
    <2>2. AccountAt(hci, wire, events, ctl[h], h)
      BY InvView
    <2>3. CASE h \in hci.conns
      BY <2>1, <2>2, <2>3 DEF AccountAt
    <2>4. CASE h \notin hci.conns
      BY <2>1, <2>2, <2>4 DEF AccountAt
    <2>5. QED
      BY <2>1, <2>3, <2>4
  <1>3. f \in [C -> Nat]
    <2>1. ASSUME NEW h \in C PROVE Fragments(wire, h) + ctl[h] \in Nat
      <3>1. Fragments(wire, h) \in Nat /\ ctl[h] \in Nat
        BY <1>2
      <3>2. QED
        BY <3>1
    <2>2. QED
      BY <2>1
  <1>4. IsFiniteSet(C)
    <2>1. DOMAIN ctl \subseteq Handles
      BY InvSetting DEF Setting
    <2>2. QED
      BY <2>1, HandleAssumption, FS_Subset
  <1> HIDE DEF C, f, K, g
  <1>5. Total(f) <= Total(g) /\ Total(f) \in Nat
    BY <1>1, <1>2, <1>3, <1>4, TotalWithin, TotalType
  <1>6. QED
    BY <1>1, <1>5 DEF C, f

\* The counts of all connections are those of the classic and of the LE ones.
LEMMA SentAll ==
    ASSUME NEW s \in HciState
    PROVE  Sent(s, Handles) = Sent(s, AclHandles) + Sent(s, LeHandles)
  <1> DEFINE A == s.conns \cap AclHandles
             L == s.conns \cap LeHandles
             f == [h \in s.conns \cap Handles |-> s.sent[h]]
  <1>1. A \cap L = {} /\ s.conns \cap Handles = A \cup L
    BY HandleAssumption DEF Handles
  <1>2. IsFiniteSet(A) /\ IsFiniteSet(L) /\ f \in [s.conns \cap Handles -> Nat]
    BY SentType
  <1>3. /\ Sent(s, AclHandles) = Total([h \in A |-> f[h]])
        /\ Sent(s, LeHandles) = Total([h \in L |-> f[h]])
        /\ Sent(s, Handles) = Total(f)
    <2>1. [h \in A |-> f[h]] = [h \in A |-> s.sent[h]]
          /\ [h \in L |-> f[h]] = [h \in L |-> s.sent[h]]
      BY <1>1
    <2>2. QED
      BY <2>1 DEF Sent
  <1> HIDE DEF A, L, f
  <1>4. f \in [A \cup L -> Nat]
    BY <1>1, <1>2
  <1>5. QED
    BY <1>1, <1>2, <1>3, <1>4, TotalUnion

\* The controller's buffers suffice for all packets that the host sends, and
\* the assertions of hci_number_free_acl_slots_for_connection_type hold.
THEOREM BuffersSuffice == Spec => []AclBuffersRespected
  <1>1. ASSUME IInv PROVE AclBuffersRespected
    <2> DEFINE load(S) == Total([h \in S \cap DOMAIN ctl |-> Fragments(wire, h) + ctl[h]])
    <2>1. /\ load(Handles) <= Sent(hci, Handles) /\ load(Handles) \in Nat
          /\ load(AclHandles) <= Sent(hci, AclHandles) /\ load(AclHandles) \in Nat
          /\ load(LeHandles) <= Sent(hci, LeHandles) /\ load(LeHandles) \in Nat
      BY <1>1, LoadCounted
    <2>2. /\ Sent(hci, Handles) \in Nat /\ Sent(hci, AclHandles) \in Nat
          /\ Sent(hci, LeHandles) \in Nat
      BY <1>1, LoadCounted
    <2>3. hci \in HciState /\ SlotAssertions(hci) /\ leTotal \in Nat
      BY <1>1, InvSetting DEF IInv, Work, Setting
    <2>4. Sent(hci, Handles) = Sent(hci, AclHandles) + Sent(hci, LeHandles)
      BY <2>3, SentAll
    <2>5. AclTotal \in Nat /\ hci.reserved \in Nat
      BY <2>3, TotalAssumption DEF HciState
    <2> HIDE DEF load
    <2>6. leTotal = 0 => load(Handles) + hci.reserved <= AclTotal
      BY <2>1, <2>2, <2>3, <2>4, <2>5 DEF SlotAssertions
    <2>7. leTotal # 0 => load(AclHandles) + hci.reserved <= AclTotal /\ load(LeHandles) <= leTotal
      BY <2>1, <2>2, <2>3, <2>5 DEF SlotAssertions
    <2>8. QED
      BY <2>3, <2>6, <2>7 DEF AclBuffersRespected, load
  <1>2. QED
    BY <1>1, HciInvariant, PTL

\* The fragments of a packet reach the controller together and in order.
THEOREM FragmentsTogether == Spec => FragmentsInOrder
  <1> DEFINE Together == CtlTake /\ Head(wire).type = "acl" /\ Head(wire).handle \in DOMAIN ctl
                            => Head(wire).first = (Head(wire).handle \notin partial)
  <1>1. ASSUME IInv, CtlTake, Head(wire).type = "acl", Head(wire).handle \in DOMAIN ctl
        PROVE  Head(wire).first = (Head(wire).handle \notin partial)
    <2> DEFINE p == Head(wire)
    <2>1. wire \in Seq(Packet) /\ wire # << >> /\ Order(hci, wire, DOMAIN ctl, partial)
      BY <1>1, InvView DEF CtlTake, Typed
    <2>2. p = wire[1] /\ p \in Packet
      BY <2>1
    <2>3. Continues(p) \cap DOMAIN ctl = partial
      BY <2>1, <2>2 DEF Order
    <2>4. p.first \in BOOLEAN
      BY <1>1, <2>2 DEF Packet
    <2> HIDE DEF p
    <2>5. CASE p.first
      <3>1. p.handle \notin partial
        BY <2>3, <2>5 DEF Continues
      <3>2. QED
        BY <2>4, <2>5, <3>1 DEF p
    <2>6. CASE ~p.first
      <3>1. p.handle \in partial
        BY <1>1, <2>3, <2>6 DEF Continues, p
      <3>2. QED
        BY <2>4, <2>6, <3>1 DEF p
    <2>7. QED
      BY <2>5, <2>6
  <1>2. IInv /\ [Next]_vars => [Together]_vars
    BY <1>1
  <1>3. Spec => [][Together]_vars
    BY <1>2, HciInvariant, PTL DEF Spec
  <1>4. QED
    BY <1>3 DEF FragmentsInOrder

=============================================================================
