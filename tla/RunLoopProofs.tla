---------------------------- MODULE RunLoopProofs ----------------------------
(***************************************************************************)
(* Timers of the run loop fire in order and not early, wherever the 32 bit *)
(* clock wraps around.  The code compares timeouts by the sign of their    *)
(* difference on the clock; the proof shows that all deadlines that are    *)
(* ever compared lie within half the range of the clock of each other, so  *)
(* that the list stays sorted by the true deadlines.                       *)
(***************************************************************************)
EXTENDS RunLoop, FunctionTheorems, FiniteSetTheorems, SequenceTheorems,
        WellFoundedInduction, TLAPS

TimerRecord == [id : Timers, timeout : 0..(TimeMod - 1), due : Nat]

\* The timeout of u is its deadline as the clock shows it; the deadline is
\* neither long past at time now nor further away than a delay.
InRange(u, t) ==
    /\ u.timeout = Clock(u.due)
    /\ t - u.due <= MaxLate
    /\ \E d \in Delays : u.due <= t + d + 1

\* The list of timers at time t: by deadline, all of them in range.
Sorted(list) ==
    \A i, j \in DOMAIN list : i < j => list[i].due <= list[j].due
Orderly(list, t) ==
    /\ list \in Seq(TimerRecord)
    /\ Sorted(list)
    /\ \A i \in DOMAIN list : InRange(list[i], t)

\* The time that the loop read is not long past while it is used.
Recent ==
    /\ now <= time
    /\ pc \in {"timers", "check"} => time - now <= MaxLate

\* The inductive invariant.
IInv == RunLoopTypeOK /\ Orderly(timers, time) /\ Recent

-----------------------------------------------------------------------------
(* The clock *)

\* A number has one remainder.
LEMMA RemainderUnique ==
    ASSUME NEW m \in Nat \ {0}, NEW r \in 0..(m - 1), NEW q \in Int
    PROVE  (m * q + r) % m = r
  BY SMT

\* Every number is a multiple of the range of the clock and a remainder.
LEMMA Remainder ==
    \A a \in Int : \E q \in Int : /\ a = TimeMod * q + (a % TimeMod)
                                  /\ a % TimeMod \in 0..(TimeMod - 1)
  <1> SUFFICES ASSUME NEW a \in Int
               PROVE  \E q \in Int : /\ a = TimeMod * q + (a % TimeMod)
                                     /\ a % TimeMod \in 0..(TimeMod - 1)
    OBVIOUS
  <1>1. TimeMod \in Nat \ {0}
    BY TimeAssumption
  <1>2. a = TimeMod * (a \div TimeMod) + (a % TimeMod)
    BY <1>1, SMT
  <1>3. a % TimeMod \in 0..(TimeMod - 1) /\ a \div TimeMod \in Int
    BY <1>1, SMT
  <1> QED BY <1>2, <1>3, Zenon

\* What the clock shows.
LEMMA ClockRead ==
    ASSUME NEW x \in Int
    PROVE  \E q \in Int : Boot + x = TimeMod * q + Clock(x) /\ Clock(x) \in 0..(TimeMod - 1)
  <1>1. Boot + x \in Int
    BY TimeAssumption
  <1> QED BY <1>1, Remainder, Zenon DEF Clock

\* The clock reads of two moments differ by a multiple of its range from the
\* time between them.
LEMMA ClockMultiple ==
    ASSUME NEW x \in Int, NEW y \in Int
    PROVE  /\ Clock(x) \in Int /\ Clock(y) \in Int
           /\ \E q \in Int : Clock(x) - Clock(y) = (x - y) + TimeMod * q
  <1>1. TimeMod \in Nat \ {0} /\ Boot \in Int
    BY TimeAssumption
  <1>2. PICK p \in Int : Boot + x = TimeMod * p + Clock(x) /\ Clock(x) \in 0..(TimeMod - 1)
    BY ClockRead
  <1>3. PICK r \in Int : Boot + y = TimeMod * r + Clock(y) /\ Clock(y) \in 0..(TimeMod - 1)
    BY ClockRead
  <1>4. TimeMod * (r - p) = TimeMod * r - TimeMod * p
    BY <1>1, <1>2, <1>3
  <1>5. Clock(x) - Clock(y) = (x - y) + TimeMod * (r - p)
    BY <1>1, <1>2, <1>3, <1>4
  <1> QED BY <1>2, <1>3, <1>5

\* btstack_time_delta is the true difference of two moments that are less than
\* half the range of the clock apart.
LEMMA DeltaIsDifference ==
    ASSUME NEW x \in Int, NEW y \in Int, x - y < Half, y - x < Half
    PROVE  TimeDelta(Clock(x), Clock(y)) = x - y
  <1>1. TimeMod \in Nat \ {0} /\ Half \in Nat /\ TimeMod = 2 * Half
    BY TimeAssumption DEF Half
  <1>2. PICK q \in Int : Clock(x) - Clock(y) = (x - y) + TimeMod * q
    BY ClockMultiple
  <1>3. Clock(x) \in Int /\ Clock(y) \in Int
    BY ClockMultiple
  <1> DEFINE r == (x - y) + Half
  <1>4. r \in 0..(TimeMod - 1)
    BY <1>1
  <1>5. Clock(x) - Clock(y) + Half = TimeMod * q + r
    BY <1>1, <1>2, <1>3
  <1>6. (TimeMod * q + r) % TimeMod = r
    BY <1>1, <1>4, RemainderUnique
  <1> QED BY <1>1, <1>5, <1>6 DEF TimeDelta

\* A timeout computed on the clock is the clock at the deadline.
LEMMA TimeoutIsClock ==
    ASSUME NEW x \in Int, NEW d \in Int
    PROVE  (Clock(x) + d) % TimeMod = Clock(x + d)
  <1>1. TimeMod \in Nat \ {0} /\ Boot \in Int
    BY TimeAssumption
  <1>2. PICK p \in Int : Boot + x = TimeMod * p + Clock(x) /\ Clock(x) \in 0..(TimeMod - 1)
    BY ClockRead
  <1> DEFINE c == Clock(x)
  <1> HIDE DEF c
  <1>3. c \in Int /\ c = Clock(x)
    BY <1>2 DEF c
  <1>4. PICK q \in Int : c + d = TimeMod * q + ((c + d) % TimeMod)
                         /\ (c + d) % TimeMod \in 0..(TimeMod - 1)
    <2>1. c + d \in Int
      BY <1>3
    <2> QED BY <2>1, Remainder, Zenon
  <1> DEFINE r == (c + d) % TimeMod
  <1> HIDE DEF r
  <1>5. r \in 0..(TimeMod - 1) /\ c + d = TimeMod * q + r
    BY <1>4 DEF r
  <1>6. TimeMod * (p + q) = TimeMod * p + TimeMod * q
    BY <1>1, <1>2, <1>4
  <1>7. Boot + (x + d) = TimeMod * (p + q) + r
    BY <1>1, <1>2, <1>3, <1>5, <1>6
  <1>8. (TimeMod * (p + q) + r) % TimeMod = r
    BY <1>1, <1>5, RemainderUnique
  <1> QED BY <1>3, <1>7, <1>8 DEF r, Clock

\* Timers in range at the same time are compared by their deadlines.
LEMMA CompareInRange ==
    ASSUME NEW t \in Int, NEW u, NEW v, u.due \in Int, v.due \in Int,
           InRange(u, t), InRange(v, t)
    PROVE  TimeDelta(u.timeout, v.timeout) = u.due - v.due
  <1>1. PICK d \in Delays : u.due <= t + d + 1
    BY DEF InRange
  <1>2. PICK e \in Delays : v.due <= t + e + 1
    BY DEF InRange
  <1>3. d \in Nat /\ e \in Nat /\ MaxLate \in Nat /\ Half \in Int
        /\ MaxLate + d + 1 < Half /\ MaxLate + e + 1 < Half
    BY TimeAssumption DEF Half
  <1>4. t - u.due <= MaxLate /\ t - v.due <= MaxLate
    BY DEF InRange
  <1>5. u.due - v.due < Half /\ v.due - u.due < Half
    BY <1>1, <1>2, <1>3, <1>4
  <1> QED BY <1>5, DeltaIsDifference DEF InRange

\* A timer in range is compared with a time read a moment ago by its deadline.
LEMMA CompareWithNow ==
    ASSUME NEW t \in Int, NEW n \in Int, NEW u, u.due \in Int, InRange(u, t),
           n <= t, t - n <= MaxLate
    PROVE  TimeDelta(u.timeout, Clock(n)) = u.due - n
  <1>1. PICK d \in Delays : u.due <= t + d + 1
    BY DEF InRange
  <1>2. d \in Nat /\ MaxLate \in Nat /\ Half \in Int /\ MaxLate + d + 1 < Half
    BY TimeAssumption DEF Half
  <1>3. t - u.due <= MaxLate
    BY DEF InRange
  <1>4. u.due - n < Half /\ n - u.due < Half
    BY <1>1, <1>2, <1>3
  <1> QED BY <1>4, DeltaIsDifference DEF InRange

-----------------------------------------------------------------------------
(* Lists *)

\* A nonempty set of natural numbers has a smallest element.
LEMMA SmallestElement ==
    ASSUME NEW S \in SUBSET Nat, S # {}
    PROVE  Min(S) \in S /\ \A k \in S : Min(S) <= k
  <1> DEFINE R == OpToRel(<, Nat)
  <1>1. IsWellFoundedOn(R, Nat)
    BY NatLessThanWellFounded, Zenon
  <1>2. \A m, k \in Nat : ~ (<< k, m >> \in R) => m <= k
    BY DEF OpToRel
  <1> HIDE DEF R
  <1>3. \E m \in S : \A k \in S : ~ (<< k, m >> \in R)
    BY <1>1, WFMin, Zenon
  <1>4. PICK m \in S : \A k \in S : ~ (<< k, m >> \in R)
    BY <1>3
  <1>5. \A k \in S : m <= k
    BY <1>2, <1>4, Zenon
  <1> QED BY <1>5, Zenon DEF Min

\* Taking an element out of a list keeps the order of the others.
LEMMA RemoveAtList ==
    ASSUME NEW S, NEW list \in Seq(S), NEW i \in 1..Len(list)
    PROVE  /\ RemoveAt(list, i) \in Seq(S)
           /\ Len(RemoveAt(list, i)) = Len(list) - 1
           /\ \A j \in 1..(Len(list) - 1) :
                RemoveAt(list, i)[j] = IF j < i THEN list[j] ELSE list[j + 1]
  <1> DEFINE p == SubSeq(list, 1, i - 1)
             q == SubSeq(list, i + 1, Len(list))
  <1>1. p \in Seq(S) /\ Len(p) = i - 1 /\ \A j \in 1..(i - 1) : p[j] = list[j]
    BY SubSeqProperties
  <1>2. q \in Seq(S) /\ Len(q) = Len(list) - i
        /\ \A j \in 1..(Len(list) - i) : q[j] = list[i + j]
    BY SubSeqProperties
  <1> HIDE DEF p, q
  <1>3. p \o q \in Seq(S) /\ Len(p \o q) = Len(list) - 1
    BY <1>1, <1>2
  <1>4. ASSUME NEW j \in 1..(Len(list) - 1)
        PROVE  (p \o q)[j] = IF j < i THEN list[j] ELSE list[j + 1]
    BY <1>1, <1>2
  <1> QED BY <1>3, <1>4 DEF RemoveAt, p, q

\* Putting an element into a list keeps the order of the others.
LEMMA InsertAtList ==
    ASSUME NEW S, NEW list \in Seq(S), NEW i \in 1..Len(list), NEW e \in S
    PROVE  /\ InsertAt(list, i, e) \in Seq(S)
           /\ Len(InsertAt(list, i, e)) = Len(list) + 1
           /\ InsertAt(list, i, e)[i] = e
           /\ \A j \in 1..(Len(list) + 1) :
                /\ j < i => InsertAt(list, i, e)[j] = list[j]
                /\ j > i => InsertAt(list, i, e)[j] = list[j - 1]
  BY SMT DEF InsertAt

\* What is found in a list, and that nothing is found before it.
LEMMA FirstMatch ==
    ASSUME NEW n \in Nat, NEW I \in SUBSET (1..n), I # {}
    PROVE  Min(I) \in I /\ \A k \in 1..n : k < Min(I) => k \notin I
  <1> DEFINE m == Min(I)
  <1>1. m \in I /\ \A k \in I : m <= k
    BY SmallestElement
  <1> HIDE DEF m
  <1>2. m \in 1..n
    BY <1>1
  <1>3. ASSUME NEW k \in 1..n, k < m
        PROVE  k \notin I
    BY <1>1, <1>2, <1>3
  <1> QED BY <1>1, <1>3 DEF m

\* A timer of a list, once more
LEMMA ListElement ==
    ASSUME NEW list \in Seq(TimerRecord), NEW i \in DOMAIN list
    PROVE  /\ i \in 1..Len(list) /\ list[i] \in TimerRecord
           /\ list[i].due \in Nat /\ list[i].id \in Timers
  <1>1. i \in 1..Len(list) /\ list[i] \in TimerRecord
    OBVIOUS
  <1>2. \A u \in TimerRecord : u.due \in Nat /\ u.id \in Timers
    BY DEF TimerRecord
  <1> QED BY <1>1, <1>2

\* Removing a timer leaves a list in order.
LEMMA RemoveTimerOrderly ==
    ASSUME NEW list, NEW t \in Nat, Orderly(list, t), NEW id
    PROVE  Orderly(RemoveTimer(id, list), t)
  <1> DEFINE I == { i \in 1..Len(list) : list[i].id = id }
  <1>1. list \in Seq(TimerRecord) /\ Sorted(list) /\ Len(list) \in Nat
        /\ DOMAIN list = 1..Len(list)
    BY DEF Orderly
  <1>2. CASE I = {}
    <2>1. RemoveTimer(id, list) = list
      BY <1>2 DEF RemoveTimer, RemoveFirstMatch
    <2> QED BY <2>1
  <1>3. CASE I # {}
    <2> DEFINE m == Min(I)
               r == RemoveAt(list, m)
    <2>1. RemoveTimer(id, list) = r
      BY <1>3 DEF RemoveTimer, RemoveFirstMatch, SelectInSeq
    <2>2. m \in 1..Len(list)
      BY <1>1, <1>3, FirstMatch
    <2> HIDE DEF m
    <2>3. /\ r \in Seq(TimerRecord) /\ Len(r) = Len(list) - 1
          /\ \A j \in 1..(Len(list) - 1) :
                r[j] = IF j < m THEN list[j] ELSE list[j + 1]
      BY <1>1, <2>2, RemoveAtList
    <2> HIDE DEF r
    <2>4. DOMAIN r = 1..(Len(list) - 1)
      BY <2>3
    <2>5. Sorted(r)
      <3> SUFFICES ASSUME NEW i \in DOMAIN r, NEW j \in DOMAIN r, i < j
                   PROVE  r[i].due <= r[j].due
        BY DEF Sorted
      <3> DEFINE a == IF i < m THEN i ELSE i + 1
                 b == IF j < m THEN j ELSE j + 1
      <3>1. a \in DOMAIN list /\ b \in DOMAIN list /\ a < b
        BY <1>1, <2>2, <2>4
      <3>2. r[i] = list[a] /\ r[j] = list[b]
        BY <2>3, <2>4
      <3> QED BY <1>1, <3>1, <3>2 DEF Sorted
    <2>6. ASSUME NEW j \in DOMAIN r
          PROVE  InRange(r[j], t)
      <3>1. \E k \in DOMAIN list : r[j] = list[k]
        BY <1>1, <2>2, <2>3, <2>4
      <3> QED BY <3>1 DEF Orderly
    <2> QED BY <2>1, <2>3, <2>5, <2>6 DEF Orderly
  <1> QED BY <1>2, <1>3

\* The timer that set_timer prepares is in range.
LEMMA SetTimerInRange ==
    ASSUME NEW t \in Timers, NEW d \in Delays, time \in Nat
    PROVE  SetTimer(t, d) \in TimerRecord /\ InRange(SetTimer(t, d), time)
  <1>1. d \in Nat /\ MaxLate \in Nat
    BY TimeAssumption
  <1> DEFINE x == time + d + 1
  <1>2. (Clock(time) + (d + 1)) % TimeMod = Clock(time + (d + 1))
    BY <1>1, TimeoutIsClock
  <1>3. Clock(time) \in Int
    BY ClockRead
  <1>4. x \in Nat /\ time + (d + 1) = x /\ Clock(time) + (d + 1) = Clock(time) + d + 1
    BY <1>1, <1>3
  <1>5. SetTimer(t, d) = [id |-> t, timeout |-> Clock(x), due |-> x]
    BY <1>2, <1>4 DEF SetTimer
  <1>6. Clock(x) \in 0..(TimeMod - 1)
    BY <1>4, ClockRead
  <1> HIDE DEF x
  <1>7. time - x <= MaxLate /\ x <= time + d + 1
    BY <1>1 DEF x
  <1> QED BY <1>4, <1>5, <1>6, <1>7 DEF TimerRecord, InRange

\* A timer is inserted at the place of its deadline.
LEMMA AddTimerOrderly ==
    ASSUME NEW list, NEW t \in Nat, Orderly(list, t),
           NEW u \in TimerRecord, InRange(u, t)
    PROVE  Orderly(AddTimer(u, list), t)
  <1> DEFINE I == { i \in 1..Len(list) : TimeDelta(u.timeout, list[i].timeout) < 0 }
  <1>1. list \in Seq(TimerRecord) /\ Sorted(list) /\ Len(list) \in Nat
        /\ DOMAIN list = 1..Len(list)
    BY DEF Orderly
  <1>2. \A i \in 1..Len(list) : list[i].due \in Nat /\ InRange(list[i], t)
    BY <1>1, ListElement DEF Orderly
  <1>3. u.due \in Nat
    BY DEF TimerRecord
  <1>4. \A i \in 1..Len(list) : i \in I <=> u.due < list[i].due
    <2> SUFFICES ASSUME NEW i \in 1..Len(list)
                 PROVE  i \in I <=> u.due < list[i].due
      OBVIOUS
    <2>1. TimeDelta(u.timeout, list[i].timeout) = u.due - list[i].due
      BY <1>2, <1>3, CompareInRange
    <2> QED BY <1>2, <1>3, <2>1
  <1>5. CASE I = {}
    <2> DEFINE r == Append(list, u)
    <2>1. AddTimer(u, list) = r
      BY <1>5 DEF AddTimer, SelectInSeq
    <2>2. r \in Seq(TimerRecord) /\ DOMAIN r = 1..(Len(list) + 1)
      BY <1>1
    <2>3. r[Len(list) + 1] = u /\ \A i \in 1..Len(list) : r[i] = list[i]
      BY <1>1
    <2> HIDE DEF r, I
    <2>4. \A i \in 1..Len(list) : list[i].due <= u.due
      BY <1>2, <1>3, <1>4, <1>5
    <2>5. Sorted(r)
      <3> SUFFICES ASSUME NEW i \in DOMAIN r, NEW j \in DOMAIN r, i < j
                   PROVE  r[i].due <= r[j].due
        BY DEF Sorted
      <3>1. i \in 1..Len(list) /\ (j \in 1..Len(list) \/ j = Len(list) + 1)
        BY <1>1, <2>2
      <3> QED BY <1>1, <2>3, <2>4, <3>1 DEF Sorted
    <2>6. ASSUME NEW i \in DOMAIN r
          PROVE  InRange(r[i], t)
      <3>1. i \in 1..Len(list) \/ i = Len(list) + 1
        BY <1>1, <2>2
      <3> QED BY <1>2, <2>3, <3>1
    <2> QED BY <2>1, <2>2, <2>5, <2>6 DEF Orderly
  <1>6. CASE I # {}
    <2> DEFINE m == Min(I)
               r == InsertAt(list, m, u)
    <2>1. m \in I /\ \A k \in 1..Len(list) : k < m => k \notin I
      BY <1>1, <1>6, FirstMatch
    <2>2. m \in 1..Len(list)
      BY <2>1
    <2>3. AddTimer(u, list) = r
      <3>1. m # 0
        BY <2>2
      <3> QED BY <1>6, <3>1 DEF AddTimer, SelectInSeq
    <2> HIDE DEF m, I
    <2>4. /\ r \in Seq(TimerRecord) /\ Len(r) = Len(list) + 1
          /\ r[m] = u
          /\ \A j \in 1..(Len(list) + 1) :
                (j < m => r[j] = list[j]) /\ (j > m => r[j] = list[j - 1])
      BY <1>1, <2>2, InsertAtList
    <2> HIDE DEF r
    <2>5. DOMAIN r = 1..(Len(list) + 1)
      BY <2>4
    <2>6. ASSUME NEW k \in 1..Len(list), k < m
          PROVE  list[k].due <= u.due
      BY <1>2, <1>3, <1>4, <2>1, <2>6
    <2>7. ASSUME NEW k \in 1..Len(list), m <= k
          PROVE  u.due <= list[k].due
      <3>1. u.due < list[m].due
        BY <1>4, <2>1, <2>2
      <3>2. list[m].due <= list[k].due
        <4>1. CASE m = k
          BY <1>2, <4>1
        <4>2. CASE m < k
          BY <1>1, <2>2, <4>2 DEF Sorted
        <4> QED BY <2>2, <2>7, <4>1, <4>2
      <3> QED BY <1>2, <1>3, <2>2, <3>1, <3>2
    <2>8. Sorted(r)
      <3> SUFFICES ASSUME NEW i \in DOMAIN r, NEW j \in DOMAIN r, i < j
                   PROVE  r[i].due <= r[j].due
        BY DEF Sorted
      <3>0. i \in 1..(Len(list) + 1) /\ j \in 1..(Len(list) + 1)
        BY <2>5
      <3>1. CASE j < m
        <4>1. i \in DOMAIN list /\ j \in DOMAIN list /\ r[i] = list[i] /\ r[j] = list[j]
          BY <1>1, <2>2, <2>4, <3>0, <3>1
        <4> QED BY <1>1, <4>1 DEF Sorted
      <3>2. CASE j = m
        <4>1. i \in 1..Len(list) /\ i < m /\ r[i] = list[i] /\ r[j] = u
          BY <1>1, <2>2, <2>4, <3>0, <3>2
        <4> QED BY <2>6, <4>1
      <3>3. CASE m < j
        <4>1. j - 1 \in 1..Len(list) /\ m <= j - 1 /\ r[j] = list[j - 1]
          BY <1>1, <2>2, <2>4, <3>0, <3>3
        <4>2. CASE i < m
          <5>1. i \in DOMAIN list /\ i < j - 1 /\ j - 1 \in DOMAIN list /\ r[i] = list[i]
            BY <1>1, <2>2, <2>4, <3>0, <4>1, <4>2
          <5> QED BY <1>1, <4>1, <5>1 DEF Sorted
        <4>3. CASE i = m
          <5>1. r[i] = u
            BY <2>4, <3>0, <4>3, <2>2
          <5> QED BY <2>7, <4>1, <5>1
        <4>4. CASE m < i
          <5>1. i - 1 \in DOMAIN list /\ j - 1 \in DOMAIN list /\ i - 1 < j - 1
                /\ r[i] = list[i - 1]
            BY <1>1, <2>2, <2>4, <3>0, <4>1, <4>4
          <5> QED BY <1>1, <4>1, <5>1 DEF Sorted
        <4> QED BY <2>2, <3>0, <4>2, <4>3, <4>4
      <3> QED BY <2>2, <3>0, <3>1, <3>2, <3>3
    <2>9. ASSUME NEW j \in DOMAIN r
          PROVE  InRange(r[j], t)
      <3>1. CASE j < m
        <4>1. j \in 1..Len(list) /\ r[j] = list[j]
          BY <1>1, <2>2, <2>4, <2>5, <3>1
        <4> QED BY <1>2, <4>1
      <3>2. CASE j = m
        <4>1. r[j] = u
          BY <2>2, <2>4, <2>5, <3>2
        <4> QED BY <4>1
      <3>3. CASE m < j
        <4>1. j - 1 \in 1..Len(list) /\ r[j] = list[j - 1]
          BY <1>1, <2>2, <2>4, <2>5, <3>3
        <4> QED BY <1>2, <4>1
      <3> QED BY <2>2, <2>5, <3>1, <3>2, <3>3
    <2> QED BY <2>3, <2>4, <2>8, <2>9 DEF Orderly
  <1> QED BY <1>5, <1>6

\* Adding and removing data sources and callbacks keep a list of them.
LEMMA RemoveFirstType ==
    ASSUME NEW S, NEW list \in Seq(S), NEW e
    PROVE  RemoveFirst(list, e) \in Seq(S)
  <1> DEFINE I == { i \in 1..Len(list) : list[i] = e }
  <1>1. CASE I = {}
    BY <1>1 DEF RemoveFirst
  <1>2. CASE I # {}
    <2> DEFINE m == Min(I)
    <2>1. RemoveFirst(list, e) = RemoveAt(list, m)
      BY <1>2 DEF RemoveFirst, SelectInSeq
    <2>2. m \in 1..Len(list)
      <3>1. Len(list) \in Nat /\ I \in SUBSET (1..Len(list))
        OBVIOUS
      <3> HIDE DEF I
      <3>2. m \in I
        BY <1>2, <3>1, FirstMatch
      <3> QED BY <3>1, <3>2
    <2> HIDE DEF m
    <2> QED BY <2>1, <2>2, RemoveAtList
  <1> QED BY <1>1, <1>2

\* A data source is put in front of the list.
LEMMA AddDataSourceType ==
    ASSUME NEW d \in DataSources, NEW list \in Seq(DataSources)
    PROVE  AddDataSource(d, list) \in Seq(DataSources)
  BY DEF AddDataSource

\* A callback is put at the end of the list.
LEMMA AddCallbackType ==
    ASSUME NEW c \in Callbacks, NEW list \in Seq(Callbacks)
    PROVE  AddCallback(c, list) \in Seq(Callbacks)
  BY DEF AddCallback

\* The first element of a list, if there is one.
LEMMA FirstType ==
    ASSUME NEW S, NEW list \in Seq(S)
    PROVE  First(list) \in S \cup {None}
  BY DEF First

\* poll_data_sources goes on to a data source or to the end of the list.
LEMMA NextSourceType ==
    ASSUME NEW d, sources \in Seq(DataSources)
    PROVE  NextSource(d) \in DataSources \cup {None}
  <1> DEFINE I == { i \in 1..Len(sources) : sources[i] = d }
             k == IF I # {} THEN Min(I) ELSE 0
  <1>1. NextSource(d) = IF k = Len(sources) THEN None ELSE sources[k + 1]
    BY DEF NextSource, SelectInSeq
  <1>2. k \in 0..Len(sources)
    <2>1. Len(sources) \in Nat /\ I \in SUBSET (1..Len(sources))
      OBVIOUS
    <2> HIDE DEF I
    <2>2. I # {} => Min(I) \in I
      BY <2>1, FirstMatch
    <2>3. CASE I = {}
      BY <2>1, <2>3
    <2>4. CASE I # {}
      <3>1. k \in 1..Len(sources)
        BY <2>1, <2>2, <2>4
      <3> QED BY <3>1
    <2> QED BY <2>3, <2>4
  <1> HIDE DEF k
  <1>3. CASE k = Len(sources)
    BY <1>1, <1>3
  <1>4. CASE k # Len(sources)
    <2>1. k + 1 \in 1..Len(sources)
      BY <1>2, <1>4
    <2> QED BY <1>1, <1>4, <2>1
  <1> QED BY <1>3, <1>4

\* The data sources at the start, in any order.
LEMMA InitialSources == SetToSeq(DataSources) \in Seq(DataSources)
  <1> DEFINE n == Cardinality(DataSources)
  <1>1. n \in Nat /\ ExistsBijection(1..n, DataSources)
    BY ListAssumption, FS_CardinalityType
  <1>2. \E f \in [1..n -> DataSources] : IsInjective(f)
    BY <1>1 DEF ExistsBijection, Bijection, Injection
  <1>3. SetToSeq(DataSources) \in [1..n -> DataSources]
    BY <1>2, Zenon DEF SetToSeq
  <1> HIDE DEF n
  <1> QED BY <1>1, <1>3

-----------------------------------------------------------------------------
(* Handlers *)

\* A handler of the application leaves the lists in order.
LEMMA HandlerInv ==
    ASSUME IInv, NEW ts, Orderly(ts, time), NEW ds \in Seq(DataSources),
           NEW rs \in SUBSET DataSources, Handler(ts, ds, rs)
    PROVE  /\ Orderly(timers', time) /\ sources' \in Seq(DataSources)
           /\ polled' \subseteq DataSources /\ exit' \in BOOLEAN
           /\ ready' \subseteq DataSources
  <1>1. time \in Nat /\ polled \subseteq DataSources /\ exit \in BOOLEAN
    BY BoundAssumption DEF IInv, RunLoopTypeOK
  <1>2. ready' \subseteq DataSources
    BY DEF Handler
  <1>3. CASE StartTimer(ts) /\ sources' = ds /\ UNCHANGED << polled, exit >>
    <2>1. PICK t \in Timers, d \in Delays :
              timers' = AddTimer(SetTimer(t, d), RemoveTimer(t, ts))
      BY <1>3 DEF StartTimer
    <2>2. Orderly(RemoveTimer(t, ts), time)
      BY <1>1, RemoveTimerOrderly
    <2>3. Orderly(timers', time)
      BY <1>1, <2>1, <2>2, SetTimerInRange, AddTimerOrderly
    <2> QED BY <1>1, <1>2, <1>3, <2>3
  <1>4. CASE StopTimer(ts) /\ sources' = ds /\ UNCHANGED << polled, exit >>
    <2>1. Orderly(timers', time)
      BY <1>1, <1>4, RemoveTimerOrderly DEF StopTimer
    <2> QED BY <1>1, <1>2, <1>4, <2>1
  <1>5. CASE ChangeSources(ds) /\ timers' = ts /\ UNCHANGED exit
    <2>1. sources' \in Seq(DataSources) /\ polled' \subseteq DataSources
      BY <1>1, <1>5, AddDataSourceType DEF ChangeSources
    <2> QED BY <1>1, <1>2, <1>5, <2>1
  <1>6. CASE (TriggerExit \/ UNCHANGED exit) /\ timers' = ts /\ sources' = ds
             /\ UNCHANGED polled
    BY <1>1, <1>2, <1>6 DEF TriggerExit
  <1> QED BY <1>3, <1>4, <1>5, <1>6 DEF Handler

\* What the invariant says, piece by piece.
LEMMA Pieces ==
    ASSUME IInv
    PROVE  /\ time \in 0..MaxTime /\ time \in Nat /\ Orderly(timers, time)
           /\ sources \in Seq(DataSources) /\ polled \subseteq DataSources
           /\ ready \subseteq DataSources /\ callbacks \in Seq(Callbacks)
           /\ items \subseteq Callbacks /\ queue \in 0..QueueLength
           /\ event \in BOOLEAN /\ exit \in BOOLEAN
           /\ task \in [Tasks -> {"idle", "trigger"} \cup Callbacks]
           /\ posts \in 0..MaxPosts
           /\ pc \in {"stopped", "poll", "callbacks", "call", "queue", "clock",
                      "timers", "check", "wait"}
           /\ cursor \in DataSources \cup Callbacks \cup {None}
           /\ now \in Nat /\ wakeup \in Nat /\ now <= time
           /\ pc \in {"timers", "check"} => time - now <= MaxLate
  BY BoundAssumption DEF IInv, RunLoopTypeOK, Recent

\* The pieces of the next state make up the invariant.
LEMMA Assemble ==
    ASSUME time' \in 0..MaxTime, Orderly(timers', time'),
           sources' \in Seq(DataSources), polled' \subseteq DataSources,
           ready' \subseteq DataSources, callbacks' \in Seq(Callbacks),
           items' \subseteq Callbacks, queue' \in 0..QueueLength,
           event' \in BOOLEAN, exit' \in BOOLEAN,
           task' \in [Tasks -> {"idle", "trigger"} \cup Callbacks],
           posts' \in 0..MaxPosts,
           pc' \in {"stopped", "poll", "callbacks", "call", "queue", "clock",
                    "timers", "check", "wait"},
           cursor' \in DataSources \cup Callbacks \cup {None},
           now' \in Nat, wakeup' \in Nat, now' <= time',
           pc' \in {"timers", "check"} => time' - now' <= MaxLate
    PROVE  IInv'
  BY DEF IInv, RunLoopTypeOK, Recent, Orderly, TimerRecord, Sorted, InRange

-----------------------------------------------------------------------------
(* The invariant is kept by every step *)

\* The loop starts without timers.
LEMMA InitInv == Init => IInv
  <1> SUFFICES ASSUME Init PROVE IInv
    OBVIOUS
  <1>1. sources \in Seq(DataSources)
    BY InitialSources DEF Init
  <1>2. Orderly(timers, time)
    BY DEF Init, Orderly, Sorted
  <1>3. time \in 0..MaxTime /\ posts \in 0..MaxPosts /\ queue \in 0..QueueLength
        /\ now \in Nat /\ wakeup \in Nat /\ now <= time
    BY BoundAssumption DEF Init
  <1>4. task \in [Tasks -> {"idle", "trigger"} \cup Callbacks]
    BY DEF Init
  <1>5. timers \in Seq([id : Timers, timeout : 0..(TimeMod - 1), due : Nat])
    BY <1>2 DEF Orderly, TimerRecord
  <1>6. /\ polled \subseteq DataSources /\ ready \subseteq DataSources
        /\ callbacks \in Seq(Callbacks) /\ items \subseteq Callbacks
        /\ pc = "stopped" /\ cursor = None
    BY DEF Init
  <1>7. event \in BOOLEAN /\ exit \in BOOLEAN
    BY Zenon DEF Init
  <1> QED BY <1>1, <1>2, <1>3, <1>4, <1>5, <1>6, <1>7 DEF IInv, RunLoopTypeOK, Recent

\* execute starts at the first data source.
LEMMA ExecuteInv == IInv /\ Execute => IInv'
  <1> SUFFICES ASSUME IInv, Execute PROVE IInv'
    OBVIOUS
  <1>1. cursor' \in DataSources \cup Callbacks \cup {None}
    BY Pieces, FirstType DEF Execute
  <1> QED BY <1>1, Pieces, Assemble DEF Execute

\* A polled handler may do any operation and remove its own data source.
LEMMA PollDataSourceInv == IInv /\ PollDataSource => IInv'
  <1> SUFFICES ASSUME IInv, PollDataSource PROVE IInv'
    OBVIOUS
  <1>1. cursor' \in DataSources \cup Callbacks \cup {None}
    BY Pieces, NextSourceType DEF PollDataSource
  <1>2. /\ Orderly(timers', time) /\ sources' \in Seq(DataSources)
        /\ polled' \subseteq DataSources /\ exit' \in BOOLEAN
        /\ ready' \subseteq DataSources
    <2>1. CASE cursor \in polled
      <3>1. PICK ds \in {sources, RemoveDataSource(cursor, sources)} :
                Handler(timers, ds, ready \ {cursor})
        BY <2>1 DEF PollDataSource
      <3>2. ds \in Seq(DataSources)
        BY Pieces, <3>1, RemoveFirstType DEF RemoveDataSource
      <3> QED BY Pieces, <3>1, <3>2, HandlerInv
    <2>2. CASE cursor \notin polled
      BY Pieces, <2>2 DEF PollDataSource, lists
    <2> QED BY <2>1, <2>2
  <1> QED BY <1>1, <1>2, Pieces, Assemble DEF PollDataSource

\* The end of the list of data sources.
LEMMA PollDoneInv == IInv /\ PollDone => IInv'
  <1> SUFFICES ASSUME IInv, PollDone PROVE IInv'
    OBVIOUS
  <1> QED BY Pieces, Assemble DEF PollDone, Goto, lists

\* A callback is popped, or the list is empty.
LEMMA PopCallbackInv == IInv /\ PopCallback => IInv'
  <1> SUFFICES ASSUME IInv, PopCallback PROVE IInv'
    OBVIOUS
  <1>1. /\ callbacks' \in Seq(Callbacks) /\ pc' \in {"call", "queue"}
        /\ cursor' \in Callbacks \cup {None}
    <2>1. CASE callbacks = << >>
      BY Pieces, <2>1 DEF PopCallback, Goto
    <2>2. CASE callbacks # << >>
      <3>1. Head(callbacks) \in Callbacks /\ Tail(callbacks) \in Seq(Callbacks)
        BY Pieces, <2>2
      <3> QED BY <2>2, <3>1 DEF PopCallback
    <2> QED BY <2>1, <2>2
  <1> QED BY <1>1, Pieces, Assemble DEF PopCallback, lists

\* A callback may do any operation.
LEMMA CallCallbackInv == IInv /\ CallCallback => IInv'
  <1> SUFFICES ASSUME IInv, CallCallback PROVE IInv'
    OBVIOUS
  <1>1. /\ Orderly(timers', time) /\ sources' \in Seq(DataSources)
        /\ polled' \subseteq DataSources /\ exit' \in BOOLEAN
        /\ ready' \subseteq DataSources
    BY Pieces, HandlerInv DEF CallCallback
  <1> QED BY <1>1, Pieces, Assemble DEF CallCallback, Goto

\* So may a function call from the queue.
LEMMA ReceiveCallInv == IInv /\ ReceiveCall => IInv'
  <1> SUFFICES ASSUME IInv, ReceiveCall PROVE IInv'
    OBVIOUS
  <1>1. CASE queue = 0
    BY <1>1, Pieces, Assemble DEF ReceiveCall, Goto, lists
  <1>2. CASE queue # 0
    <2>1. queue' \in 0..QueueLength
      BY <1>2, Pieces, BoundAssumption DEF ReceiveCall
    <2>2. /\ Orderly(timers', time) /\ sources' \in Seq(DataSources)
          /\ polled' \subseteq DataSources /\ exit' \in BOOLEAN
          /\ ready' \subseteq DataSources
      BY <1>2, Pieces, HandlerInv DEF ReceiveCall
    <2> QED BY <1>2, <2>1, <2>2, Pieces, Assemble DEF ReceiveCall
  <1> QED BY <1>1, <1>2

\* The time that is read is the present one.
LEMMA ReadClockInv == IInv /\ ReadClock => IInv'
  <1> SUFFICES ASSUME IInv, ReadClock PROVE IInv'
    OBVIOUS
  <1>1. now' = time /\ time' = time /\ time - now' <= MaxLate
    BY Pieces, TimeAssumption DEF ReadClock
  <1> QED BY <1>1, Pieces, Assemble DEF ReadClock, Goto, lists

\* So may the handler of a timer, which is no longer in the list.
LEMMA ProcessTimerInv == IInv /\ ProcessTimer => IInv'
  <1> SUFFICES ASSUME IInv, ProcessTimer PROVE IInv'
    OBVIOUS
  <1>1. CASE Expired(timers, now)
    <2>1. Orderly(RemoveTimer(Head(timers).id, timers), time)
      BY Pieces, RemoveTimerOrderly
    <2>2. /\ Orderly(timers', time) /\ sources' \in Seq(DataSources)
          /\ polled' \subseteq DataSources /\ exit' \in BOOLEAN
          /\ ready' \subseteq DataSources
      BY <1>1, <2>1, Pieces, HandlerInv DEF ProcessTimer
    <2> QED BY <1>1, <2>2, Pieces, Assemble DEF ProcessTimer
  <1>2. CASE ~Expired(timers, now)
    BY <1>2, Pieces, Assemble DEF ProcessTimer, lists
  <1> QED BY <1>1, <1>2

\* The wait ends at a time that lies ahead or now.
LEMMA WaitInv == IInv /\ Wait => IInv'
  <1> SUFFICES ASSUME IInv, Wait PROVE IInv'
    OBVIOUS
  <1>1. CASE exit
    BY <1>1, Pieces, Assemble DEF Wait, lists
  <1>2. CASE ~exit
    <2>1. CASE timers = << >>
      <3>1. wakeup' \in Nat
        BY <1>2, <2>1, BoundAssumption DEF Wait, Never
      <3> QED BY <1>2, <3>1, Pieces, Assemble DEF Wait, lists
    <2>2. CASE timers # << >>
      <3>1. Head(timers) \in TimerRecord
        BY <2>2, Pieces DEF Orderly
      <3>2. Head(timers).timeout \in Int
        BY <3>1, TimeAssumption DEF TimerRecord
      <3>3. Clock(now) \in Int
        BY Pieces, ClockRead
      <3>4. TimeDelta(Head(timers).timeout, Clock(now)) \in Int
        BY <3>2, <3>3, TimeAssumption DEF TimeDelta, Half
      <3>5. TimeUntilTimeout(now) \in Nat
        BY <3>4 DEF TimeUntilTimeout
      <3>6. wakeup' \in Nat
        BY <1>2, <2>2, <3>5, Pieces DEF Wait
      <3> QED BY <1>2, <3>6, Pieces, Assemble DEF Wait, lists
    <2> QED BY <2>1, <2>2
  <1> QED BY <1>1, <1>2

\* After the wait the time that was read is not used any more.
LEMMA WakeUpInv == IInv /\ WakeUp => IInv'
  <1> SUFFICES ASSUME IInv, WakeUp PROVE IInv'
    OBVIOUS
  <1>1. cursor' \in DataSources \cup Callbacks \cup {None}
    BY Pieces, FirstType DEF WakeUp
  <1>2. event' \in BOOLEAN
    BY Zenon DEF WakeUp
  <1>3. /\ now' \in Nat /\ wakeup' \in Nat /\ now' <= time'
        /\ pc' = "poll" /\ time' = time
    BY Pieces DEF WakeUp
  <1> QED BY <1>1, <1>2, <1>3, Pieces, Assemble DEF WakeUp, lists

\* The steps of the main task
LEMMA MainInv == IInv /\ Main => IInv'
  BY PollDataSourceInv, PollDoneInv, PopCallbackInv, CallCallbackInv,
     ReceiveCallInv, ReadClockInv, ProcessTimerInv, WaitInv, WakeUpInv DEF Main

\* The steps of the other tasks
LEMMA TaskInv == ASSUME IInv, NEW k \in Tasks, Task(k) PROVE IInv'
  <1>1. Post => posts' \in 0..MaxPosts
    BY Pieces, BoundAssumption DEF Post
  <1>2. CASE \E c \in Callbacks : PutItem(k, c)
    BY <1>1, <1>2, Pieces, Assemble DEF PutItem, lists, main
  <1>3. CASE ExecuteOnMainThread(k)
    <2>1. callbacks' \in Seq(Callbacks)
      BY <1>3, Pieces, AddCallbackType DEF ExecuteOnMainThread
    <2> QED BY <1>3, <2>1, Pieces, Assemble DEF ExecuteOnMainThread, lists, main
  <1>4. CASE ExecuteCodeOnMainThread(k)
    <2>1. queue' \in 0..QueueLength
      BY <1>4, Pieces, BoundAssumption DEF ExecuteCodeOnMainThread
    <2> QED BY <1>1, <1>4, <2>1, Pieces, Assemble
            DEF ExecuteCodeOnMainThread, lists, main
  <1>5. CASE TriggerFromThread(k)
    BY <1>5, Pieces, Assemble DEF TriggerFromThread, lists, main
  <1>6. CASE TriggerExitFromThread(k)
    BY <1>1, <1>6, Pieces, Assemble DEF TriggerExitFromThread, TriggerExit, main
  <1> QED BY <1>2, <1>3, <1>4, <1>5, <1>6 DEF Task

\* An interrupt asks to poll a data source.
LEMMA PollFromIrqInv ==
    ASSUME IInv, NEW d \in DataSources, PollDataSourcesFromIrq(d)
    PROVE  IInv'
  <1>1. posts' \in 0..MaxPosts
    BY Pieces, BoundAssumption DEF PollDataSourcesFromIrq, Post
  <1>2. ready' \subseteq DataSources
    BY Pieces DEF PollDataSourcesFromIrq
  <1> QED BY <1>1, <1>2, Pieces, Assemble DEF PollDataSourcesFromIrq, lists, main

\* As time goes on, the timers stay in range.
LEMMA TickInv == IInv /\ Tick => IInv'
  <1> SUFFICES ASSUME IInv, Tick PROVE IInv'
    OBVIOUS
  <1>1. time \in Nat /\ time' = time + 1 /\ timers' = timers /\ time' \in 0..MaxTime
    BY Pieces, BoundAssumption DEF Tick, lists
  <1>2. timers \in Seq(TimerRecord) /\ Sorted(timers)
        /\ \A i \in DOMAIN timers : InRange(timers[i], time)
    BY Pieces DEF Orderly
  <1>3. ASSUME NEW i \in DOMAIN timers
        PROVE  InRange(timers[i], time')
    <2> DEFINE u == timers[i]
    <2>1. u.due \in Nat /\ InRange(u, time)
      BY <1>2, ListElement
    <2>2. time - u.due < MaxLate
      BY DEF Tick, ToSet
    <2>3. PICK d \in Delays : u.due <= time + d + 1
      BY <2>1 DEF InRange
    <2> HIDE DEF u
    <2>4. d \in Nat /\ MaxLate \in Nat
      BY TimeAssumption
    <2>5. time' - u.due <= MaxLate /\ u.due <= time' + d + 1
      BY <1>1, <2>1, <2>2, <2>3, <2>4
    <2> QED BY <2>1, <2>5 DEF InRange, u
  <1>4. Orderly(timers', time')
    BY <1>1, <1>2, <1>3 DEF Orderly
  <1>5. now' = now /\ pc' = pc /\ now' <= time'
        /\ (pc' \in {"timers", "check"} => time' - now' <= MaxLate)
    BY <1>1, Pieces, TimeAssumption DEF Tick, main
  <1> QED BY <1>1, <1>4, <1>5, Pieces, Assemble DEF Tick, lists, main

\* Every step keeps the invariant.
LEMMA NextInv == IInv /\ [Next]_vars => IInv'
  <1> SUFFICES ASSUME IInv, [Next]_vars PROVE IInv'
    OBVIOUS
  <1>1. CASE Next
    BY <1>1, ExecuteInv, MainInv, TickInv, TaskInv, PollFromIrqInv DEF Next
  <1>2. CASE UNCHANGED vars
    BY <1>2, Pieces, Assemble DEF vars, lists, main
  <1> QED BY <1>1, <1>2

-----------------------------------------------------------------------------
\* The timers of btstack_run_loop_base_timers stay in the order of their true
\* deadlines and within half the range of the clock of each other.
THEOREM RunLoopInvariant == Spec => []IInv
  BY InitInv, NextInv, PTL DEF Spec

\* The lists, the queue of QueueLength calls and the places of the main task
\* keep their types.
THEOREM RunLoopTypeCorrect == Spec => []RunLoopTypeOK
  <1>1. IInv => RunLoopTypeOK
    BY DEF IInv
  <1> QED BY <1>1, RunLoopInvariant, PTL

\* btstack_run_loop_base_process_timers takes a timer for expired if and only
\* if one is due at the time it read, and takes one that is due first, for a
\* clock of any even range and any number of timers.
THEOREM TimersFireInOrder == Spec => []ExpiredIsDue
  <1>1. ASSUME IInv PROVE ExpiredIsDue
    <2> SUFFICES ASSUME pc = "timers"
                 PROVE  /\ Expired(timers, now) <=> \E t \in Registered : t.due <= now
                        /\ \A t \in Registered : Head(timers).due <= t.due
      BY DEF ExpiredIsDue
    <2>1. /\ timers \in Seq(TimerRecord) /\ Sorted(timers)
          /\ \A i \in DOMAIN timers : InRange(timers[i], time)
          /\ time \in Nat /\ now \in Nat /\ now <= time /\ time - now <= MaxLate
      BY <1>1, Pieces DEF Orderly
    <2>2. \A t \in Registered : \E i \in DOMAIN timers : t = timers[i]
      BY DEF Registered, ToSet
    <2>3. CASE timers = << >>
      <3>1. Registered = {}
        BY <2>3 DEF Registered, ToSet
      <3> QED BY <2>3, <3>1 DEF Expired
    <2>4. CASE timers # << >>
      <3> DEFINE h == Head(timers)
      <3>1. 1 \in DOMAIN timers /\ h = timers[1] /\ h \in Registered
        BY <2>1, <2>4 DEF Registered, ToSet
      <3>2. h.due \in Nat /\ InRange(h, time)
        BY <2>1, <3>1, ListElement
      <3>3. TimeDelta(h.timeout, Clock(now)) = h.due - now
        <4> HIDE DEF h
        <4>1. h.due \in Int /\ time \in Int /\ now \in Int
          BY <2>1, <3>2
        <4> QED BY <2>1, <3>2, <4>1, CompareWithNow
      <3>4. Expired(timers, now) <=> h.due <= now
        <4>1. Expired(timers, now) <=> TimeDelta(h.timeout, Clock(now)) <= 0
          BY <2>4 DEF Expired
        <4> HIDE DEF h
        <4> QED BY <2>1, <3>2, <3>3, <4>1
      <3>5. ASSUME NEW t \in Registered
            PROVE  h.due <= t.due /\ t.due \in Nat
        <4>1. PICK i \in DOMAIN timers : t = timers[i]
          BY <2>2
        <4>2. t.due \in Nat /\ i \in 1..Len(timers)
          BY <2>1, <4>1, ListElement
        <4>3. CASE i = 1
          BY <3>1, <3>2, <4>1, <4>3
        <4>4. CASE 1 < i
          BY <2>1, <3>1, <4>1, <4>2, <4>4 DEF Sorted
        <4> QED BY <4>2, <4>3, <4>4
      <3> HIDE DEF h
      <3>6. Expired(timers, now) <=> \E t \in Registered : t.due <= now
        BY <2>1, <3>1, <3>2, <3>4, <3>5
      <3> QED BY <3>5, <3>6 DEF h
    <2> QED BY <2>3, <2>4
  <1> QED BY <1>1, RunLoopInvariant, PTL

=============================================================================
